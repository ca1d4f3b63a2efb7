CONSTANTS
    PoolSize = 2
    TableSize = 3
    Pages = {0, 1, 3}
    MaxPins = 1
SPECIFICATION Spec
CHECK_DEADLOCK FALSE
INVARIANT NotFoundIsAbsent
