CONSTANTS
  Char = {"a", "n", "r", "e"}
  Script <- GapScript
  PipeBuf = 4
  MaxBuf = 8
  Tree <- Documents
  NULL = NULL
SPECIFICATION SessionSpec
INVARIANT
  DocumentsParsedWhole
CHECK_DEADLOCK FALSE
