SPECIFICATION SuiteFairSpec
CONSTANTS
    Values = {a, b}
    Junk = junk
    MaxSize = 4
    ExactResize = FALSE
    Keys = {0, 1, 2, 3, 4}
    MaxArray = 6
    IntMax = 7
    MaxCommands = 3
    Reads = {0, 1, 9}
    Writes = {0, 2}
    PipeCapacity = 2
    MaxShellLines = 2
    RxSize = 3
    Bytes = {7, 8}
    TimeoutMs = 2
    MsPerSecond = 2
    MaxReceived = 5
    WriteSize = 3
    Lengths = {0, 1, 2, 5, 7}
    MaxWritten = 9
    Clients = {"a", "b"}
    MaxClients = 2
    Messages = {"m", "n"}
    MaxTyped = 2
    HandOvers = 3
    MaxStarts = 3
    MaxCrashes = 2
    MaxConnections = 2
    QueueDepth = 3
    Fds = {5, 6, 7}
    ProcessCount = 3
    QueueLevels = 3
    BurstTimes = {1, 2, 3, 4, 6, 8, 9}
INVARIANTS
    NoneLost ServedByPolicy  LevelIsEarned AccountsAreRight Finds
    EchoesOwn OneRequestEach NothingLost PromptIsClean  Exclusive
PROPERTIES
      OrderIsKept  ImplementsFifo WaitsEnd
CHECK_DEADLOCK FALSE
