SPECIFICATION SuiteFairSpec
CONSTANTS
    Threads = {t1, t2, t3}
    Iterations = 2
    NoOwner = nobody
    LockReaders = {1, 2, 3}
    LockWriters = {4, 5}
    UpThreads = {1, 2, 3, 4}
    Tasks = {1, 2, 3}
    Prio <- SmallPrio
    BufReaders = {1, 2}
    BufWriters = {3, 4}
    BufSize = 2
    BufIterations = 2
    BufValues = {5}
    OrderReaders = {1}
    OrderValues = {5, 6}
    NumThreads = 4
    Interval = 1
    Timeout = 3
    Beats = 3
    MaxIdle = 3
    LateThreads = 3
    LateIdle = 5
    RefThreads = {1, 2, 3}
    Main = 1
    MaxRefs = 4
    PtrThreads = {u1, u2, u3}
    Blocks = {b1, b2, b3}
    First = b1
    NULL = null
INVARIANTS
    IndInv LockSleepersHaveWakers NotesAreTrue WriterIsAlone NoLostWakeup
    OneRecordedMaster FreedOnceInTime
PROPERTIES
    LocksImplementRwLock WritersGetIn BufferIsFifo ThreadsFinish
CHECK_DEADLOCK FALSE
