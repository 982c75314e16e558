CONSTANTS
    e1 = e1
    e2 = e2
    e3 = e3
    p1 = p1
    p2 = p2
    j1 = j1
    j2 = j2
    j3 = j3
    k1 = k1
    Jobs = {j1, j2}
    Keys = {k1}
    KeyOf <- SameKey
    Executions = {e1, e2}
    Processes = {p1, p2}
    ProcessOf <- TwoProcesses
    BatchSize = 1
    MaxAttempts = 2
    Reporters = {j1}
    HeartbeatsMayFail = TRUE
    MaxFaults = 1
    MaxGhosts = 1
    MaxCrashes = 0

SPECIFICATION Spec

INVARIANTS
    QueueTypeOK
    OneLivePerKey
    ClaimsArePaid
    CompletedByLastClaim

PROPERTY
    FinalIsFinal

CHECK_DEADLOCK FALSE
