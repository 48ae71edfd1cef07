CONSTANTS
    init = init
    t1 = t1
    t2 = t2
    s = s
    InitT <- init
    NULL = NULL
    Threads <- MCThreads
    Sems <- MCSems
    MaxPid = 2
    SemInit = 1
    MaxSem = 1
SPECIFICATION Spec
INVARIANT VerhoogFindsWaiter
