CONSTANTS
  Func <- MCFunc
  Main = "main"
  Instr <- MCInstr
  Datum <- MCDatum
  Null = "null"
  MaxOperands = 2
SPECIFICATION MCSpec
INVARIANTS
  KeptOperandsAlive
  ObservableKept
  NoDeadLeft
PROPERTIES
  PureMeansNoImpureCallee
  InfoEnds
  Terminates
CHECK_DEADLOCK FALSE
