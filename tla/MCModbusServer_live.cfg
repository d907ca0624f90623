SPECIFICATION FairSpec
CONSTANTS
    Conns = {c1, c2}
    Buffers = {b1, b2}
    NoBuffer = NoBuffer
    BUFFER_SIZE = 1024
    MAX_POOL_SIZE = 1
    Packets = {120}
    Cuts = {60}
    MaxBytes = 1
PROPERTIES
    EveryConnectionServed
    EveryBufferReturned
CHECK_DEADLOCK FALSE
