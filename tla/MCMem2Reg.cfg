CONSTANTS
  N = 5
  x = x
  y = y
  Var = {x, y}
  NoVar = NoVar
  Programs <- HandledPrograms
SPECIFICATION Spec
INVARIANTS
  SameValues
  RenamingSound
PROPERTIES
  PassEnds
CHECK_DEADLOCK FALSE
