SPECIFICATION Spec
CONSTANTS
    Requests = {r1, r2, r3}
    Ticks = {k1, k2}
    MaxTasks = 2
    Group <- Templates
    MaxFaults = 1
    MaxCrashes = 1
SYMMETRY RequestSymmetry
INVARIANTS
    RewardsAccounted
    JobsBacked
    ScheduleComplete
PROPERTIES
    RemovedStaysRemoved
CHECK_DEADLOCK FALSE
