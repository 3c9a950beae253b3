\* What the code does not keep: TLC refutes the property that is not in a comment.
SPECIFICATION Spec
CONSTANTS
    j1 = j1
    j2 = j2
    k1 = k1
    k2 = k2
    a1 = a1
    d1 = d1
    d2 = d2
    h1 = h1
    h2 = h2
    Jobs = {j1, j2}
    Executors = {}
    Nobody = Nobody
    NoTarget = NoTarget
    AppOf <- AppOne
    TargetOf <- NoTargets
    AttemptBound = 3
    Keys = {k1}
    KeyOf <- SameKey
    Doors = {h1, h2}
    Digests = {d1, d2}
    Unquoted = Unquoted
    DailyCap = 1
    MaxAttempts = 3
    FaultBound = 1
SYMMETRY Symmetry
INVARIANT
    SubmitsAtMostOnce
    \* QuoteIsWhatRuns
    \* CapKept (with Keys = {k1, k2}, KeyOf <- OwnKey, Digests = {d1},
    \*          FaultBound = 0 and without SYMMETRY)
    \* NoParkedOrphan
CHECK_DEADLOCK FALSE
