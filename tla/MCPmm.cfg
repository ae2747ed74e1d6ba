CONSTANTS
    PageSize = 4
    FrameLimit = 7
    LowMemory = 4
    PageTableBase = 1
    PageTableSize = 2
    InfoSize = 1
    EntrySize = 1
    BootInfos <- MCBootInfos
    Counts = {0, 1, 2, 3, 8}
SPECIFICATION Spec
INVARIANTS
    TypeOK
    AccountingExact
    OnlyUsableMemory
    NoFrameLost
    ScanExact
PROPERTY
    ImplementsPool
