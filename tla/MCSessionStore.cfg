SPECIFICATION Spec
CONSTANTS
    p1 = p1
    p2 = p2
    Procs = {p1, p2}
    Nobody = Nobody
    MaxSessions = 2
    MaxItems = 2
    Priority <- MCPriority
    MaxEvent = 0
    MaxQueue = 1
    MaxPlans = 1
SYMMETRY ProcessesAlike
INVARIANTS
    SavedIsNotLost
    FreshIdsDiffer
CHECK_DEADLOCK FALSE
