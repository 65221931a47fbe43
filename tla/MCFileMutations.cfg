SPECIFICATION FilesSpec
CONSTANTS
    src = src
    doc = doc
    Paths = {src, doc}
    SourceFiles = {src}
    Artifacts = {doc}
    MaxWritten = 4
    MaxContents = 8
    Decoded <- MCDecoded
    Redacted <- MCRedacted
    MaxOutside = 1
    MaxTurns = 2
    MutationHistory = 2
    RevertBodies = 1
PROPERTIES
    RevertRestoresTurn
    NothingLostToTrimming
CHECK_DEADLOCK FALSE
