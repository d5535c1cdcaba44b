SPECIFICATION Spec
CONSTANTS
    Executions = {e1, e2}
    Requests = {r1, r2, r3}
    NoNode = NoNode
    Nodes <- EventNodes
    Versions = 1
    NodeType <- EventTypes
    Edges <- EventEdges
    DirectTargets <- EventDirect
    Loops = {"L"}
    LoopOf <- EventLoopOf
    LoopStart <- EventLoopStart
    MaxIterations <- TwoIterations
    Overlap = TRUE
    MaxFaults = 1
    MaxCrashes = 1
SYMMETRY RequestSymmetry
INVARIANTS
    WaitingAtWaitNode
    RunningIsDriven
    OneVerdict
CHECK_DEADLOCK FALSE
