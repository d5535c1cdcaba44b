SPECIFICATION Spec
CONSTANTS
    Executions = {e1}
    Requests = {r1, r2, r3, r4}
    NoNode = NoNode
    Nodes <- LoopNodes
    Versions = 4
    NodeType <- LoopTypes
    Edges <- LoopEdges
    DirectTargets <- LoopDirect
    Loops = {"L"}
    LoopOf <- LoopLoopOf
    LoopStart <- LoopLoopStart
    MaxIterations <- TwoIterations
    Overlap = FALSE
    MaxFaults = 0
    MaxCrashes = 1
INVARIANTS
    TypeOK
    ResumedOncePerWait
PROPERTIES
    LifecycleRefined
CHECK_DEADLOCK FALSE
