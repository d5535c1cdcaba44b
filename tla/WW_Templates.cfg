SPECIFICATION Spec
CONSTANTS
    Walked <- AllTemplates
    LoopBound = 12
INVARIANTS
    TypeOK
    OutcomesAccounted
PROPERTY WalkEnds
CHECK_DEADLOCK FALSE
