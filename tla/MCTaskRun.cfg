SPECIFICATION FairSpec
CONSTANTS
    a = a
    b = b
    x = x
    y = y
    Actions <- MCActions
    Commands <- MCCommands
    Observations = {x}
    MaxToolCalls = 1
    MaxToolCallExtensions = 1
    MaxIdenticalActions = 1
    MaxConsecutiveEmpty = 2
    MaxPlanRevisions = 1
    MaxPlanRevisionExtensions = 1
    MaxRepairRounds = 1
    MaxRepairExtensions = 1
    MaxRuntimeExtensions = 1
    MaxRounds = 2
    MaxBatch = 2
    NumSteps = 2
    MaxStopBlocks = 1
INVARIANTS
    NoIllegalTransition
    ToolCallCeiling
    NoBlindRepetition
    PlanIsConsistent
PROPERTIES
    TurnEnds
    CompletedStepsKept
CHECK_DEADLOCK FALSE
