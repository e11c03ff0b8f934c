CONSTANTS
  Char = {"a", "n", "r", "e"}
  Script <- LongScripts
  PipeBuf = 3
  MaxBuf = 9
  Tree <- Documents
  NULL = NULL
SPECIFICATION SessionSpec
INVARIANTS
  BufferHolds
  StreamConserved
  WholeDocuments
  OnlyLongTextsDropped
  AnswerTruthful
  WaitingClientServed
PROPERTIES
  ImplementsRepl
  WaitingClientAnswered
CHECK_DEADLOCK FALSE
