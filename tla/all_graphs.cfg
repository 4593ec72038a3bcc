SPECIFICATION FairSpec
CONSTANTS
  a = a
  b = b
  c = c
  Ids = {a, b, c}
  MaxScore = 2
  None = None
INVARIANTS
  CauseJustified
  EquationOffCycles
PROPERTIES
  Terminates
CHECK_DEADLOCK FALSE
