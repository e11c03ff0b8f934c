CONSTANTS
  Frame <- Frames
SPECIFICATION Spec
INVARIANTS
  BlockInFrame
  SumBounded
  ReceiverAccepts
  OnlyChecksums
  Idempotent
CHECK_DEADLOCK FALSE
