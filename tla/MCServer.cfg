CONSTANTS
  Handles = {h1, h2}
  Threads = {t1, t2}
  MaxWork = 2
  Kickable = {h1}
  a = a
  b = b
  c = c
  None = None
  Setups <- MCSetups
  MaxQueue = 2
SPECIFICATION Spec
INVARIANTS
    EvaluatorSound
    NetworkSound
    CreditKept
    MenuSound
PROPERTIES
    EvaluatorUsedWell
    EverythingAnswered
CHECK_DEADLOCK FALSE
