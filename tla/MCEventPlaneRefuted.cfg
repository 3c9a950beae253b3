\* What the code does not keep: TLC refutes the property that is not in a comment.
SPECIFICATION Spec
CONSTANTS
    tick = tick
    fan = fan
    poll = poll
    t1 = t1
    t2 = t2
    c1 = c1
    NoTarget = NoTarget
    Kinds = {"progress", "lifecycle"}
    Flushers = {tick, fan, poll}
    Passes = {tick}
    Pollers = {poll}
    Clients = {}
    Targets = {t1}
    Selective = {t1}
    Wants <- MCWants
    RingCap = 1
    PendingCap = 2
    BroadcastCap = 1
    PageCap = 1
    ResumeCap = 1
    Batch = 2
    MaxPages = 2
    MaxSeq = 3
    FaultBound = 0
    CrashBound = 1
    PruneBound = 0
INVARIANT
    NeverSkipped
    \* EveryLossStated
    \* with Pollers = {}, PruneBound = 1 TLC finds the reuse
    \* of sequence numbers after a restart instead of the reordered batches
CHECK_DEADLOCK FALSE
