CONSTANTS
    KernelSizes = {28672, 150000}
    BssBytes = 90112
    StackBytes = 16384
    STAGE2_SECTORS = 3
    MEMORY_MAP_LIMIT = 64
    MapLengths = {0, 2, 65}
    FailingCalls = {0, 1, 63}
    LbaWord = 128
    HalfWord = 16
    StubBase = 100
    TssAddress = 1100
    Vectors <- MCVectors
    Depths = {0, 1}
SPECIFICATION MachineSpec
INVARIANTS
    MapFaithful
    LoadedWhole
    MemoryProtected
    InterruptsReady
    FrameGenuine
    Transparent
PROPERTIES
    WritesHarmless
    BootEnds
CHECK_DEADLOCK FALSE
