\* What the code does not keep: TLC refutes the property that is not in a comment.
SPECIFICATION Spec
CONSTANTS
    j1 = j1
    j2 = j2
    a1 = a1
    e1 = e1
    e2 = e2
    Jobs <- TwoJobs
    Executors = {e1, e2}
    Nobody = Nobody
    NoTarget = NoTarget
    AppOf <- AppOne
    TargetOf <- NoTargets
    AttemptBound = 2
    Apps = {a1}
    AppLimit <- LimitOne
    Capabilities <- Anything
    Eligible = {a1}
    MaxAttempts = {2}
    MaxCalls = 1
INVARIANT
    CapRespected
    \* FinishLandsOnItsAttempt
    \* LocalRunsExcluded
CHECK_DEADLOCK FALSE
