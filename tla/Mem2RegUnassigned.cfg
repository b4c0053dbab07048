CONSTANTS
  N = 5
  x = x
  y = y
  Var = {x, y}
  NoVar = NoVar
  Programs <- SensiblePrograms
SPECIFICATION Spec
INVARIANTS
  SameValues
CHECK_DEADLOCK FALSE
