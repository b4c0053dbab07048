CONSTANTS
  Programs <- Swap
  StackSize = 160
SPECIFICATION Spec
INVARIANTS
  OperandsRead
CHECK_DEADLOCK FALSE
