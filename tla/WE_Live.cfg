SPECIFICATION FairSpec
CONSTANTS
    Executions = {e1}
    Requests = {r1, r2, r3}
    NoNode = NoNode
    Nodes <- ShortNodes
    Versions = 1
    NodeType <- ShortTypes
    Edges <- ShortEdges
    DirectTargets <- ShortDirect
    Loops = {"L"}
    LoopOf <- ShortLoopOf
    LoopStart <- LoopLoopStart
    MaxIterations <- TwoIterations
    Overlap = TRUE
    MaxFaults = 0
    MaxCrashes = 0
INVARIANTS
    RunningStepOwned
    LoopWithinBounds
PROPERTIES
    RequestsAnswered
CHECK_DEADLOCK FALSE
