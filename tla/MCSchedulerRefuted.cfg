\* What the code does not keep: TLC refutes the property that is not in a comment.
SPECIFICATION FairSpec
CONSTANTS
    s1 = s1
    s2 = s2
    low = low
    high = high
    NoSchedule = NoSchedule
    Schedules = {s1}
    Fires <- MCFires
    Grace = 1
    Budgets = {low, high}
    MaxTime = 3
    MaxRuns = 2
    FaultBound = 0
    EditBound = 0
PROPERTY
    HeldFiringRuns
CHECK_DEADLOCK FALSE
