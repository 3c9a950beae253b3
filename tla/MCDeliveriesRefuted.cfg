\* What the code does not keep: TLC refutes the property that is not in a comment.
SPECIFICATION Spec
CONSTANTS
    d1 = d1
    d2 = d2
    u1 = u1
    u2 = u2
    u3 = u3
    Units = {u1, u2, u3}
    Concurrency = 1
    MaxQueued = 3
    Ids = {d1, d2}
    LocalIds = {}
    SubscriptionIds = {d1, d2}
    NoRow = NoRow
    NoUnit = NoUnit
    MaxAttempts = 2
    MaxRetries = 1
    DrainBatch = 2
    SendTicks = 1
    StaleTicks = 2
    FaultBound = 3
    ReplayIds = {d1, d2}
    ReplayBound = 0
INVARIANT
    CrashLoopEnds
\* PROPERTY
    \* OnlyOrphansReclaimed
CHECK_DEADLOCK FALSE
