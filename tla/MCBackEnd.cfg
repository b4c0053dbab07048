CONSTANTS
  Function <- MCFunction
  FunctionList <- MCFunctionList
  Erasable <- MCErasable
  Value <- MCValue
  Outside <- MCOutside
  Owner <- MCOwner
  Op <- MCOp
  TypeOf <- MCTypeOf
  Element <- MCElement
  Operands <- MCOperands
  Start <- MCStart
  Globals <- MCGlobals
  Symbol <- MCSymbol
  Functions <- Frames
  Constants <- Limits
  MaxDepth = 2
  MaxOperations = 2
  NoFunction = NoFunction
  NoName = NoName
  NoType = NoType
SPECIFICATION MCSpec
CHECK_DEADLOCK FALSE
INVARIANTS
  NamesDiffer
  ReadBack
  ReferencesResolve
  OperandsRead
  Encodable
  Meant
  CallerRestored
