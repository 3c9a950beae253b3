SPECIFICATION NodeSpec
CONSTANTS
    j1 = j1
    j2 = j2
    a1 = a1
    e1 = e1
    e2 = e2
    Jobs <- OneJob
    Executors = {e1, e2}
    Nobody = Nobody
    NoTarget = NoTarget
    AppOf <- AppOne
    TargetOf <- NoTargets
    AttemptBound = 2
    Apps = {a1}
    AppLimit <- LimitOne
    Capabilities <- Anything
    Eligible = {a1}
    MaxAttempts = {2}
    MaxCalls = 2
    h1 = h1
    c1 = c1
    c2 = c2
    Hosts = {h1}
    Callers = {c1, c2}
    Background = {c2}
    Intervals = {0, 1}
    Jitter = FALSE
    PenaltyBase = 1
    PenaltyCap = 2
    PenaltyFloor = 1
    RetryAfters = {3}
    IdleTtl = 3
    MemoryTtl = 2
    Remotes = {2}
    ImportCap = 2
    QueueBound = 1
    MaxTime = 3
    EventBound = 2
INVARIANTS
    NodeInv
    StoreFollows
    ResetSticks
PROPERTIES
    CheckpointNeverRegresses
    BackoffHonoured
CHECK_DEADLOCK FALSE
