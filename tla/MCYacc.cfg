CONSTANTS
    None = None
    Grammars <- MCGrammars
SPECIFICATION Spec
INVARIANTS
    SetsExact
    TablesExact
    ConflictsByPrecedence
    ParsesExactly
PROPERTIES
    LoopsEnd
CHECK_DEADLOCK FALSE
