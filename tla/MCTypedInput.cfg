SPECIFICATION FairTyped
CONSTANTS
    MaxLines = 3
    None = None
INVARIANTS
    TypedTextIsKept
PROPERTIES
    StopIsObeyed
    AcceptedIsTaken
CHECK_DEADLOCK FALSE
