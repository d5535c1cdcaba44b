SPECIFICATION Spec
CONSTANTS
    Letters <- MCLetters
    MaxText = 3
    Lower <- MCLower
    Open = "("
    Ids <- MCIds
    Existing <- Nodes
    None = "none"
    Contexts <- MCContexts
    ContextValues <- MCContextValues
    ConditionNodes <- MCNodes
INVARIANTS
    BestRuleWins
    FuzzyIsEditDistance
    FallbackHolds
CHECK_DEADLOCK FALSE
