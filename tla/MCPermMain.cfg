CONSTANTS
  Plans <- MCPlans
  Inf = 99
  BaseScore = 5
  BaseHash = "base"
  None = None
  MaxRounds = 8
  w1 = w1
  w2 = w2
SPECIFICATION Spec
INVARIANTS
    EachSeedOnce
    NoSourceMissing
    BestIsExact
    NothingRepeated
    AllToldOnce
PROPERTIES
    SearchEnds
CHECK_DEADLOCK FALSE
