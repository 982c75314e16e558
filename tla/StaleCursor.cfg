CONSTANTS
    MaxText = 0
    MaxSemantic = 0
    MaxGenerations = 1
    MaxFaults = 1
    MaxBuffered = 1
    FetchMayFail = TRUE

SPECIFICATION FairSpec

PROPERTIES
    EndIsLearnt

CHECK_DEADLOCK FALSE
