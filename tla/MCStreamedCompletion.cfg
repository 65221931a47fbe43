SPECIFICATION FairStream
CONSTANTS
    Letters = {"e", "l", "o"}
    Replies <- MCReplies
    Lag = 1
    Overlap = 2
    Window = 3
    MaxReconnects = 2
    MaxRoutes = 2
    IdleLimit = 2
    TotalLimit = 3
INVARIANTS
    ReplyIsWhole
    CallsAreOfThisReply
PROPERTIES
    RequestEnds
CHECK_DEADLOCK FALSE
