CONSTANTS
    init = init
    t1 = t1
    t2 = t2
    t3 = t3
    InitT <- init
    NULL = NULL
    Threads <- MCThreads
    Sems = {}
    MaxPid = 3
    SemInit = 0
    MaxSem = 0
SPECIFICATION Spec
INVARIANTS
    PidsSound
PROPERTIES
    ExitWakesAll
