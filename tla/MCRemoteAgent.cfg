SPECIFICATION FairSpec
CONSTANTS
    b1 = b1
    b2 = b2
    r1 = r1
    r2 = r2
    Bridges = {b1}
    Requests = {r1, r2}
    Home <- OneHome
    MaxConns = 2
    MaxCrashes = 1
    MaxFailedSaves = 1
    MaxQueue = 2
INVARIANTS
    OneRunPerRequest
    ResultsSurvive
PROPERTIES
    EveryRequestAnswered
CHECK_DEADLOCK FALSE
