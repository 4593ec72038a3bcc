SPECIFICATION Spec
CONSTANTS
  a = a
  b = b
  c = c
  Ids = {a, b, c}
  MaxScore = 1
  None = None
SYMMETRY IdSymmetry
INVARIANTS
  ImpactEquation
CHECK_DEADLOCK FALSE
