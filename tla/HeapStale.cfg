CONSTANTS
    PageSize = 4096
    FrameLimit = 4
    Word = 65536
    Uses <- MCAdjacent
SPECIFICATION Spec
INVARIANT
    NotInFreeBlock
