SPECIFICATION Spec
CONSTANTS
    Routes <- MCRoutes
    ProviderOf <- MCProviderOf
    Fits <- MCFits
    MaxSize = 1
    Premium = {"small"}
    Anchor = {"nim"}
    Turns <- MCTurns
    Soft = {"diff"}
    Window = 1
    Extensions = 2
    StallRounds = 1
    MinNovel = 1
    RoundsPerNovel = 2
    MaxNovel = 1
    IdenticalRounds = 1
    LoopWindow = 2
    Passes = 1
    DeterministicPasses = 1
    Complaints = {"narrated"}
    VerifyRetries = 1
    Limit <- MCLimit
INVARIANTS
    CompletedIsVerified
PROPERTIES
    TurnEnds
CHECK_DEADLOCK FALSE
