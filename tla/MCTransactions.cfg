SPECIFICATION Spec
CONSTANTS
    j1 = j1
    j2 = j2
    k1 = k1
    k2 = k2
    a1 = a1
    d1 = d1
    d2 = d2
    h1 = h1
    h2 = h2
    Jobs = {j1}
    Executors = {}
    Nobody = Nobody
    NoTarget = NoTarget
    AppOf <- AppOne
    TargetOf <- NoTargets
    AttemptBound = 3
    Keys = {k1}
    KeyOf <- SameKey
    Doors = {h1, h2}
    Digests = {d1, d2}
    Unquoted = Unquoted
    DailyCap = 1
    MaxAttempts = 3
    FaultBound = 1
SYMMETRY Symmetry
INVARIANTS
    LedgerInv
    EvidenceFrozen
    SubmitsOnce
CHECK_DEADLOCK FALSE
