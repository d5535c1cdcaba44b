SPECIFICATION Spec
CONSTANTS
    Requests = {r1, r2, r3}
    MaxAgents = 3
    MaxConvs = 2
    Cards = {c1}
    MaxActions = 2
    MaxFaults = 1
SYMMETRY AgentSymmetry
INVARIANTS
    OneDefault
    KeptAttached
    ChatsAccounted
CHECK_DEADLOCK FALSE
