SPECIFICATION FairSpec
CONSTANTS
    Conns = {c1, c2}
    NoConn = NoConn
    Packets <- MCPackets
    Cuts <- MCCuts
    Names <- MCNames
    Payloads <- MCPayloads
    BUFFER_SIZE = 10
    MaxPackets = 2
    WINDOW = 1
INVARIANTS
    CountersMatchLog
    OneOperation
    AnswersMatchLog
    AccusationsBacked
PROPERTIES
    EveryConnectionServed
CHECK_DEADLOCK FALSE
