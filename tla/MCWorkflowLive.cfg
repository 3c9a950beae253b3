SPECIFICATION FairSpec
CONSTANTS
    Steps = {1, 2, 3, 4}
    After <- Diamond
    OnFailure = "continue"
    Refusable = {3}
    Envelope = 0
    MaxCost = 0
    Events = {"delete_plan"}
    MaxCrashes = 0
PROPERTIES
    RunCloses
CHECK_DEADLOCK FALSE
