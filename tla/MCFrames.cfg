CONSTANTS
    NumFrames = 9
    Reserved = {1}
    KernelMem = {2, 3, 4, 5, 6}
    MapMem = {7, 8}
    Image = {2, 3}
    EarlyTables = {3}
    BootTables = 1
    MaxFail = 2
    MaxDrift = 2
SPECIFICATION Spec
INVARIANTS
    TypeOK
    ListsSound
    CountsSound
    NoDoubleUse
CHECK_DEADLOCK FALSE
