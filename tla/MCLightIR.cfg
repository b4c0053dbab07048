CONSTANTS
  u1 = u1
  u2 = u2
  c1 = c1
  c2 = c2
  b1 = b1
  b2 = b2
  b3 = b3
  Null = Null
  Value <- MCValue
  User <- MCUser
  MaxOperands = 3
  Filters <- MCFilters
  RemovesTwin = FALSE
  NullBlock = NullBlock
  Block <- MCBlock
  Modules <- TwoModules
  Ints <- SomeInts
  Floats <- SomeFloats
  Lengths <- TwoLengths
  MaxArgs = 1
  MaxTypes = 2
  MaxConstants = 3
  MaxGlobals = 1
SPECIFICATION MCSpec
CHECK_DEADLOCK FALSE
INVARIANTS
  UsesMatchOperands
  NoDanglingOperand
  EdgesAgree
  ListsInFunction
  BranchesReachLiving
  TypesUnique
  RightAnswer
  PrintsApart
PROPERTIES
  ReplaceTerminates
  ImplementsGraph
