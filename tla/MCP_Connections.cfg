SPECIFICATION Spec
CONSTANTS
    Requests = {r1, r2, r3}
    Offered = 1
    Overlap = TRUE
    MaxFaults = 1
    MaxLosses = 1
    MaxCrashes = 1
SYMMETRY RequestSymmetry
INVARIANTS
    TypeOK
    EntryNotClosed
    ClientsAccounted
    StatusTells
    ToolsDistinct
CHECK_DEADLOCK FALSE
