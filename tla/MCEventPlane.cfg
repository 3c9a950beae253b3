SPECIFICATION FairSpec
CONSTANTS
    tick = tick
    fan = fan
    poll = poll
    t1 = t1
    t2 = t2
    c1 = c1
    NoTarget = NoTarget
    Kinds = {"progress", "lifecycle"}
    Flushers = {tick, fan, poll}
    Passes = {tick, fan}
    Pollers = {poll}
    Clients = {}
    Targets = {t1}
    Selective = {t1}
    Wants <- MCWants
    RingCap = 1
    PendingCap = 2
    BroadcastCap = 1
    PageCap = 1
    ResumeCap = 1
    Batch = 2
    MaxPages = 2
    MaxSeq = 3
    FaultBound = 1
    CrashBound = 1
    PruneBound = 0
INVARIANTS
    EventInv
    NoDoubleHandoff
PROPERTY
    EveryEventHandedOff
CHECK_DEADLOCK FALSE
