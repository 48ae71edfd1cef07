SPECIFICATION Spec
CONSTANTS
    Names = {"a"}
    Dirs = {"d"}
    NInodes = 4
    NBlocks = 3
    BlockSize = 2
    MaxBlocks = 2
    DirCap = 2
    Handles = {1}
INVARIANTS DiskIsCurrent FsckClean ContentsKept
CHECK_DEADLOCK FALSE
