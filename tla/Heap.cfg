CONSTANTS
    PageSize = 4096
    FrameLimit = 8
    Word = 65536
    Uses <- MCUses
SPECIFICATION Spec
INVARIANTS
    BlocksTile
    LiveAreBlocks
    UsedExact
    AllFreedIsWhole
