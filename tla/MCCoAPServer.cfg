SPECIFICATION FairSpec
CONSTANTS
    a1 = a1
    a2 = a2
    e1 = e1
    e2 = e2
    e3 = e3
    Addresses = {a1, a2}
    Endpoints = {e1, e2, e3}
    AddressOf <- MCAddressOf
    Lengths = {0, 300, 2049}
    BUFFER_SIZE = 2048
    FLOOD_LIMIT = 1
    MaxDatagrams = 3
INVARIANTS
    NothingOverwritten
    RepliesMatchRequests
    FloodAlarmsExact
PROPERTIES
    EveryDatagramTaken
CHECK_DEADLOCK FALSE
