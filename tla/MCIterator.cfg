SPECIFICATION Spec
CONSTANTS
    Direct = 2
    Per = 2
    NBlocks = 14
    MaxFile = 7
INVARIANT BlockPosReal
CHECK_DEADLOCK FALSE
