CONSTANTS
    MaxText = 2
    MaxSemantic = 1
    MaxGenerations = 1
    MaxFaults = 1
    MaxBuffered = 1
    FetchMayFail = TRUE

SPECIFICATION Spec

INVARIANTS
    TypeOK
    ClearedMeansSent
    SentIsDurable
    LogIsExact
    ShownIsPrefix
    NoSelfConflict
    NeverForgotten
    CompletedIsWhole

PROPERTIES
    ImplementsTranscript

CHECK_DEADLOCK FALSE
