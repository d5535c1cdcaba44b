SPECIFICATION Spec
CONSTANTS
    Requests = {r1, r2, r3}
    MaxRetries = 2
    Evaluators = 1
    Threshold = 70
    MayLackAgents = FALSE
    Conduct = {FALSE}
    Hasty = {r1, r2, r3}
    MaxFaults = 0
    MaxCrashes = 0
SYMMETRY RequestSymmetry
INVARIANTS
    ActiveIsDriven
    OpenStepOwned
CHECK_DEADLOCK FALSE
