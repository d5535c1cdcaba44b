SPECIFICATION FairSpec
CONSTANTS
    Requests = {r1, r2, r3}
    MaxRetries = 2
    Evaluators = 2
    Threshold = 70
    MayLackAgents = TRUE
    Conduct = {TRUE, FALSE}
    Hasty = {r1, r2}
    MaxFaults = 2
    MaxCrashes = 1
INVARIANTS
    TypeOK
    OneVerdict
PROPERTIES
    RequestsAnswered
    LifecycleRefined
CHECK_DEADLOCK FALSE
