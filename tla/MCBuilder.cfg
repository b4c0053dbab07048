CONSTANTS
  N = 7
  Scalar = {x}
  Array = {a}
  Params = {a}
  Locals = {x}
  MaxCalls = 6
  MaxExpr = 1
SPECIFICATION Spec
INVARIANTS
  NeverPastTerminator
  FunctionWellFormed
  AllocaDominatesUse
  ContextRestored
CHECK_DEADLOCK FALSE
