CONSTANTS
    Plans <- MCPlans
    Read <- Parse
SPECIFICATION Spec
INVARIANTS
    VisitsText
    ReadBack
CHECK_DEADLOCK FALSE
