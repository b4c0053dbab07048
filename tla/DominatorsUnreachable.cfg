CONSTANTS
  N = 7
  Graphs <- ReturnInBothArms
SPECIFICATION Spec
PROPERTIES
  Terminates
CHECK_DEADLOCK FALSE
