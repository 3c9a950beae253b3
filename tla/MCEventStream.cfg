SPECIFICATION FairSpec
CONSTANTS
    tick = tick
    fan = fan
    poll = poll
    t1 = t1
    t2 = t2
    c1 = c1
    NoTarget = NoTarget
    Kinds = {"lifecycle"}
    Flushers = {poll, c1}
    Passes = {}
    Pollers = {poll}
    Clients = {c1}
    Targets = {}
    Selective = {}
    Wants <- MCWants
    RingCap = 2
    PendingCap = 2
    BroadcastCap = 1
    PageCap = 1
    ResumeCap = 3
    Batch = 1
    MaxPages = 1
    MaxSeq = 3
    FaultBound = 1
    CrashBound = 1
    PruneBound = 1
INVARIANT
    RingViewWhole
PROPERTY
    ClientCatchesUp
CHECK_DEADLOCK FALSE
