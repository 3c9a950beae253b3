SPECIFICATION FairSpec
CONSTANTS
    d1 = d1
    d2 = d2
    u1 = u1
    u2 = u2
    u3 = u3
    Units = {u1, u2}
    Concurrency = 1
    MaxQueued = 1
    Ids = {d1, d2}
    LocalIds = {d1}
    SubscriptionIds = {d2}
    NoRow = NoRow
    NoUnit = NoUnit
    MaxAttempts = 2
    MaxRetries = 1
    DrainBatch = 1
    SendTicks = 1
    StaleTicks = 2
    FaultBound = 1
    ReplayBound = 1
    ReplayIds = {d1}
INVARIANTS
    DeliveryInv
    SingleSender
    LadderAccounted
PROPERTIES
    SettledIsFinal
    EverySendSettles
CHECK_DEADLOCK FALSE
