SPECIFICATION SecuritySpec
CONSTANTS
    Clients = {a, b}
    Malformed = {bad}
    max_requests_per_minute = 2
    WINDOW = 3
    MaxTime = 7
    MAX_LOG_STRING_LENGTH = 6
    MAX_PATH_LENGTH = 6
    MaxText = 5
    MaxPath = 6
SYMMETRY MCSymmetry
INVARIANTS
    TwoWindowBound
    CountIsExact
    NoFalseRefusal
    Contained
    Faithful
    PathShape
    PathIsCanonical
    NoticedDotsGo
CHECK_DEADLOCK FALSE
