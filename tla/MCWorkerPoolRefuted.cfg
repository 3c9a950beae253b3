\* What the code does not keep: TLC refutes the property that is not in a comment.
SPECIFICATION Spec
CONSTANTS
    j1 = j1
    j2 = j2
    a1 = a1
    e1 = e1
    t1 = t1
    Jobs <- OneJob
    Executors = {e1}
    Nobody = Nobody
    NoTarget = NoTarget
    AppOf <- AppOne
    TargetOf <- NoTargets
    AttemptBound = 3
    Apps = {a1}
    Concurrency = 2
    AppLimit <- Unlimited
    MaxResumes = 1
    MaxAttempts = {1}
    Resettable = TRUE
INVARIANT
    UserCancelWins
    \* LiveTokenRegistered
    \* PoisonMeansFailures
    \* DrainStrandsNothing
\* PROPERTY
    \* CancelAnswerTrue
    \* LiveCheckpointKept
    \* StaleWriteFenced
CHECK_DEADLOCK FALSE
