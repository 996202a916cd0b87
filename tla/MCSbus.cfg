\* Both directions at once: two user bits, one kernel bit, one outgoing flag.
SPECIFICATION Spec
CONSTANTS
    NBits = 3
    NUserBits = 2
    OutBits <- LowBit
INVARIANTS
    NoSignalLost
    SnapshotFresh
    NoFlagForgotten
PROPERTIES
    WordsArrive
