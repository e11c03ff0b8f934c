CONSTANTS
  Char = {"a", "n", "r", "e"}
  Script <- OneScript
  PipeBuf = 2
  MaxBuf = 6
  Tree <- Documents
  NULL = NULL
SPECIFICATION SessionSpec
INVARIANT
  CompleteNotForgotten
CHECK_DEADLOCK FALSE
