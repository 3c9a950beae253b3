SPECIFICATION FairSpec
CONSTANTS
    j1 = j1
    j2 = j2
    a1 = a1
    e1 = e1
    t1 = t1
    Jobs <- TwoJobs
    Executors = {e1}
    Nobody = Nobody
    NoTarget = NoTarget
    AppOf <- AppOne
    TargetOf <- SharedTarget
    AttemptBound = 1
    Apps = {a1}
    Concurrency = 2
    AppLimit <- LimitOne
    MaxResumes = 1
    MaxAttempts = {1}
    Resettable = TRUE
INVARIANTS
    TargetMutex
    SlotsAccounted
PROPERTY
    ShutdownEnds
CHECK_DEADLOCK FALSE
