SPECIFICATION MessageSpec
CONSTANTS
    Keys = {48, 49}
    Numbers = {0, 300}
    Contents <- MCContents
    Used = {2, 5, 7}
    Foreign <- MCForeign
    Garbage <- MCGarbage
    MaxOps = 3
INVARIANTS
    SizeExact
    RoundTrip
    NeverMisread
CHECK_DEADLOCK FALSE
