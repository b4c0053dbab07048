CONSTANTS
  Function <- MCFunction
  FunctionList <- MCFunctionList
  Erasable <- MCErasable
  Value <- MCValue
  Outside <- MCOutside
  Owner <- MCOwner
  Op <- MCOpBoth
  TypeOf <- MCTypeOf
  Element <- MCElement
  Operands <- MCOperandsBoth
  Start <- MCStart
  Globals <- MCGlobals
  Symbol <- MCSymbol
  Functions <- Frames
  Constants <- Limits
  MaxDepth = 2
  MaxOperations = 2
  NoFunction = NoFunction
  NoName = NoName
  NoType = NoType
SPECIFICATION TextSpec
CHECK_DEADLOCK FALSE
INVARIANT
  LabelsDistinct
