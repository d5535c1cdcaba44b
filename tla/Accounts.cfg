SPECIFICATION Spec
CONSTANTS
    Requests = {r1, r2, r3}
    Names = {n1, n2}
    Permissions <- OneEach
    MaxFaults = 2
SYMMETRY AccountSymmetry
INVARIANTS
    OneAdministrator
    RegisteredOnce
    DirsDistinct
    StorageSound
    FilesBacked
PROPERTIES
    PasswordKept
CHECK_DEADLOCK FALSE
