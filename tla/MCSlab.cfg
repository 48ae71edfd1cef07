CONSTANTS
    NumFrames = 3
    ClassSize <- MCClassSize
    PageSize = 2
    Sizes = {1, 2}
    PartialMax = 2
    MaxCnt = 4
SPECIFICATION Spec
INVARIANTS
    TypeOK
    ObjectsSound
    SlabsSound
    PartialCntCovers
CHECK_DEADLOCK FALSE
