SPECIFICATION FairSpec
CONSTANTS
    BUFFER_SIZE = 2
    FLUSH_INTERVAL_SECONDS = 1
    DiskMayFail = FALSE
    MaxEvents = 20
    MaxStarts = 2
    MaxVisits = 3
INVARIANTS
    HandlersDoNotMix
    ShownIsTrue
    ShownIsLogged
PROPERTIES
    EveryCompletionHandled
CHECK_DEADLOCK FALSE
