SPECIFICATION Spec
CONSTANTS
    BUFFER_SIZE = 3
    FLUSH_INTERVAL_SECONDS = 2
    DiskMayFail = TRUE
    MaxEvents = 7
    MaxStarts = 3
INVARIANTS
    PendingIsTail
    OrderedLog
    FramedEntries
PROPERTY KeepsPromise
CHECK_DEADLOCK FALSE
