SPECIFICATION GatedSpec
CONSTANTS
    Kinds <- MCKinds
    Turns <- MCTurns
    MaxRounds = 2
    MaxBatch = 2
INVARIANTS
    RiskyCallsAreConsented
    ReadOnlyIsKept
PROPERTIES
    GateImplemented
    RaceSettles
CHECK_DEADLOCK FALSE
