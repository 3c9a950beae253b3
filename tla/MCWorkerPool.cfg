SPECIFICATION Spec
CONSTANTS
    j1 = j1
    j2 = j2
    a1 = a1
    e1 = e1
    t1 = t1
    Jobs <- OneJob
    Executors = {e1}
    Nobody = Nobody
    NoTarget = NoTarget
    AppOf <- AppOne
    TargetOf <- NoTargets
    AttemptBound = 2
    Apps = {a1}
    Concurrency = 2
    AppLimit <- Unlimited
    MaxResumes = 1
    MaxAttempts = {1, 2}
    Resettable = TRUE
INVARIANTS
    PoolInv
    SoleCancelWins
PROPERTY
    StaleTaskHarmless
CHECK_DEADLOCK FALSE
