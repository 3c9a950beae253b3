SPECIFICATION FairSpec
CONSTANTS
    j1 = j1
    j2 = j2
    a1 = a1
    t1 = t1
    e1 = e1
    Jobs <- OneJob
    Executors = {e1}
    Nobody = Nobody
    NoTarget = NoTarget
    AppOf <- SoloApp
    TargetOf <- FreeTarget
    AttemptBound = 3
    MaxAttempts = {1, 2}
    BatchCap = 1
INVARIANT
    QueueInv
PROPERTIES
    ImplementsLifecycle
    FreshAttempt
    OrphanRecovered
CHECK_DEADLOCK FALSE
