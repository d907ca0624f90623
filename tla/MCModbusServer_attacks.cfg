SPECIFICATION Spec
CONSTANTS
    Conns = {c1}
    Buffers = {b1}
    NoBuffer = NoBuffer
    BUFFER_SIZE = 1024
    MAX_POOL_SIZE = 1
    Packets = {120}
    Cuts = {60}
    MaxBytes = 1
INVARIANT EveryAttackCounted
CHECK_DEADLOCK FALSE
