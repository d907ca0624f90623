SPECIFICATION Spec
CONSTANTS
    Conns = {c1, c2}
    Buffers = {b1, b2}
    NoBuffer = NoBuffer
    BUFFER_SIZE = 1024
    MAX_POOL_SIZE = 1
    Packets <- MCPackets
    Cuts = {120}
    MaxBytes = 6
SYMMETRY MCSymmetry
INVARIANTS
    Exclusive
    NoStaleData
    OneOperation
    CountersMatchLog
    AccusationsBacked
CHECK_DEADLOCK FALSE
