\* What the code does not keep: TLC refutes the property that is not in a comment.
SPECIFICATION Spec
CONSTANTS
    Steps = {1, 2, 3}
    After <- Branch
    OnFailure = "fail_fast"
    Refusable = {}
    Envelope = 2
    MaxCost = 2
    Events = {"delete_job", "delete_run", "crash", "prompt"}
    MaxCrashes = 1
INVARIANT
    EnvelopeKept
    \* SkippedNeverRan
    \* EndedJobClosesStep
    \* CancelLeavesNoOrphan
CHECK_DEADLOCK FALSE
