CONSTANTS
    e1 = e1
    e2 = e2
    p1 = p1
    p2 = p2
    Effects = {x1}
    Executions = {e1}
    Processes = {p1}
    ProcessOf <- OneSlot
    WorkerTimeout = 360
    QueueResidence = 300
    StalledTimeout = 420
    MaxAttempts = 2
    MaxFaults = 1
    MaxCrashes = 1
    MaxConvergence = 4

SPECIFICATION FairSpec

PROPERTIES
    QueueFollowsTurn
    TurnEnds
    CancelIsCarriedOut

CHECK_DEADLOCK FALSE
