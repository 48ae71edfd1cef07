CONSTANTS
    t1 = t1
    t2 = t2
    t3 = t3
    pipe = pipe
    Isr = Isr
    TickLock = TickLock
    Threads <- MCThreads
    RawLocks <- MCRawLocks
    TicketMod = 5
SPECIFICATION FairSpec
INVARIANTS
    TypeOK
    MutualExclusion
    InterruptNeverSpins
PROPERTIES
    FifoLockSpec
    NoStarvation
