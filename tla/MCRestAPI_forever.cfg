SPECIFICATION Spec
CONSTANTS
    c1 = c1
    c2 = c2
    a = a
    Conns = {c1}
    Clients = {a}
    ClientOf <- MCClientOf
    Requests <- MCOne
    max_requests_per_minute = 1
    WINDOW = 1
    MaxTime = 1
INVARIANT RunsForever
CHECK_DEADLOCK FALSE
