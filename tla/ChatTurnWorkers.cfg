CONSTANTS
    e1 = e1
    e2 = e2
    p1 = p1
    p2 = p2
    Effects = {x1}
    Executions = {e1, e2}
    Processes = {p1}
    ProcessOf <- OneProcess
    WorkerTimeout = 100
    QueueResidence = 300
    StalledTimeout = 200
    MaxAttempts = 2
    MaxFaults = 1
    MaxCrashes = 1
    MaxConvergence = 4

SPECIFICATION Spec

SYMMETRY SlotSymmetry

INVARIANTS
    TypeOK
    ProviderInvokedOnce
    AdapterInvokedOnce
    LedgerTellsTruth
    OutcomeKnownAtEnd
    OneAnswering
    RequeuedLeavesNoTrace

CHECK_DEADLOCK FALSE
