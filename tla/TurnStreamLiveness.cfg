CONSTANTS
    MaxText = 1
    MaxSemantic = 0
    MaxGenerations = 2
    MaxFaults = 2
    MaxBuffered = 1
    FetchMayFail = FALSE

SPECIFICATION FairSpec

PROPERTIES
    StartedEnds
    EndIsLearnt

CHECK_DEADLOCK FALSE
