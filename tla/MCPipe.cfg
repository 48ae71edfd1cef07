SPECIFICATION FairSpec
CONSTANTS
    Threads = {t1, t2}
    Bytes = {a, b}
    PipeSize = 3
    MaxLen = 2
    TicketMod = 4
INVARIANTS TypeOK ChunkInBounds
PROPERTIES PipeIsQueue CallsReturn
CHECK_DEADLOCK FALSE
