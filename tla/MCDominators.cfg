CONSTANTS
  N = 4
  Graphs <- AllConnected
SPECIFICATION Spec
INVARIANTS
  FingersMeet
  IdomCorrect
  FrontierCorrect
PROPERTIES
  Terminates
CHECK_DEADLOCK FALSE
