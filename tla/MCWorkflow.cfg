SPECIFICATION Spec
CONSTANTS
    Steps = {1, 2, 3}
    After <- Join
    OnFailure = "continue"
    Refusable = {2}
    Envelope = 0
    MaxCost = 0
    Events = {"delete_job", "delete_run", "delete_plan", "fault", "crash", "prompt", "upgrade"}
    MaxCrashes = 1
INVARIANTS
    RunInv
    VerdictHonest
    SkippedNeverRan
CHECK_DEADLOCK FALSE
