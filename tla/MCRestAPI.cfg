SPECIFICATION FairSpec
CONSTANTS
    c1 = c1
    c2 = c2
    a = a
    Conns = {c1, c2}
    Clients = {a}
    ClientOf <- MCClientOf
    Requests <- MCRequests
    max_requests_per_minute = 1
    WINDOW = 2
    MaxTime = 2
INVARIANTS
    OnlyAdmittedServed
    AdmissionsMatch
    AnswersAreAsked
PROPERTIES
    EveryConnectionServed
CHECK_DEADLOCK FALSE
