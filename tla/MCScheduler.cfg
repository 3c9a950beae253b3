SPECIFICATION FairSpec
CONSTANTS
    s1 = s1
    s2 = s2
    low = low
    high = high
    NoSchedule = NoSchedule
    Schedules = {s1}
    Fires <- MCFires
    Grace = 1
    Budgets = {low, high}
    MaxTime = 3
    MaxRuns = 2
    FaultBound = 1
    EditBound = 1
INVARIANTS
    FiringRunsOnce
    ScheduleInv
    MissedHadItsChance
PROPERTIES
    EditHonoured
    FireOnceRuns
CHECK_DEADLOCK FALSE
