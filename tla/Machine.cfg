SPECIFICATION SuiteSpec
CONSTANTS
    PoolSize = 3
    TableSize = 4
    BmPages = {0, 1, 2, 3}
    MaxPins = 2
    HeapSize = 224
    Header = 24
    MinAlloc = 16
    Requests = {0, 16, 20, 40}
    WordBits = 3
    Registers = {0, 1}
    ProgramSize = 4
    Programs <- PipelinePrograms
    InitRegs <- PipelineStarts
    MaxCycles = 9
    RegBits = 2
    ImmBits = 1
    RegCount = 8
    Encodings <- SmallInstructions
    R1 = {5}
    R2 = {6}
    L1Size = 2
    L2Size = 4
    BlockSize = 2
    MemorySize = 20
    MaxAccesses = 5
    Addresses = {0, 1, 4, 6, 8, 12, 19, 20}
    MaxRecords = 5
    Ids = {1, 2, 3}
    Inserts <- MCInserts
    Sought = 2
    NumSets = 2
    Ways = 2
    MemoryLines = 5
    LineData = {0}
    MaxUses = 2
    VirtualPages = {0, 1, 2}
    PhysicalFrames = {0, 1, 2}
    FewFrames = {0, 1}
    Offsets = {0, 1}
    TlbSize = 2
    Values = {65, 66}
    FewValues = {65}
    MmuEntries = 2
    MmuFrames = 2
    MmuPages = {0, 1}
    MaxAsid = 2
    MmuPins = 1
    LruSize = 2
    LruPages = {0, 1, 2}
    LruFile = 3
    LruVersions = 2
    LruTime = 3
    PinSize = 3
    PinPages = {0, 1, 2, 3}
    PinFile = 4
    PinHeld = 3
    PinTime = 2
INVARIANTS
    CachesAgree FlushReaches ExecutesRight ReadsLastWritten
    CountedIsComplete TableMatchesFrames NoLostUpdate BlocksTile
PROPERTIES
    CountedStays DirtyIsWritten HeldStay
CHECK_DEADLOCK FALSE
