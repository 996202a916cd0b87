CONSTANTS
    None = None
    Globals <- MCGlobals
    Plans <- MCPlans
    Evaluated <- MCEvaluated
    ParsedTree <- MCParsedTree
SPECIFICATION Spec
INVARIANTS
    CandidatesExact
    MeaningKept
    TreeSound
PROPERTIES
    CallsKept
CHECK_DEADLOCK FALSE
