SPECIFICATION FairRound
CONSTANTS
    a = a
    b = b
    Paths = {a, b}
    CallKinds <- MCKinds
    MaxCalls = 4
    MaxBatch = 3
    MaxNudges = 1
    MaxRoutes = 1
INVARIANTS
    ConflictsRunInOrder
    ValidationIsFresh
    ResultsArrive
PROPERTIES
    RoundEnds
CHECK_DEADLOCK FALSE
