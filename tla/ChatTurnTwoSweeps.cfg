CONSTANTS
    e1 = e1
    e2 = e2
    p1 = p1
    p2 = p2
    Effects = {x1}
    Executions = {e1}
    Processes = {p1, p2}
    ProcessOf <- OneSlot
    WorkerTimeout = 360
    QueueResidence = 300
    StalledTimeout = 420
    MaxAttempts = 2
    MaxFaults = 1
    MaxCrashes = 0
    MaxConvergence = 4

SPECIFICATION Spec

INVARIANTS
    OutcomeKnownAtEnd
    QueueAgreesWithTurn
    QueuedIsPristine
    BoundariesMatchEffects
    ClaimsWithinBudget
    CancelIsNotLost

PROPERTIES
    ImplementsLifecycle
    StoreProtocol
    StalledJobNeverRequeued
    TerminalIsFinal

CHECK_DEADLOCK FALSE
