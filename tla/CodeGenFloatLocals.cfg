CONSTANTS
  Programs <- FloatLocals
  StackSize = 160
SPECIFICATION Spec
INVARIANTS
  OperandsRead
CHECK_DEADLOCK FALSE
