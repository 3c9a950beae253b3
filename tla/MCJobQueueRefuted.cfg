\* What the code does not keep: TLC refutes the property that is not in a comment.
SPECIFICATION Spec
CONSTANTS
    j1 = j1
    j2 = j2
    a1 = a1
    t1 = t1
    e1 = e1
    Jobs <- OneJob
    Executors = {e1}
    Nobody = Nobody
    NoTarget = NoTarget
    AppOf <- SoloApp
    TargetOf <- FreeTarget
    AttemptBound = 2
    MaxAttempts = {2}
    BatchCap = 1
INVARIANT
    CauseMatchesError
\* PROPERTY
    \* ParkKeepsRetries
CHECK_DEADLOCK FALSE
