CONSTANTS
    MaxText = 1
    MaxSemantic = 0
    MaxGenerations = 1
    MaxFaults = 0
    MaxBuffered = 1
    FetchMayFail = FALSE

SPECIFICATION FairSpec

PROPERTIES
    EveryEndIsLearnt

CHECK_DEADLOCK FALSE
