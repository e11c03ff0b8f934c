CONSTANTS
  out1 = out1
  out2 = out2
  s2 = s2
  v1 = v1
  v2 = v2
  Bit = {0, 1}
  Buffer = {s2, v1, v2}
  NULL = NULL
  IfaceName = {out1, out2}
  Process <- AllProcesses
  Contents <- Zeroed
  Packet <- Frames
  Repaired <- Parity
  MaxFrames = 2
SPECIFICATION Spec
INVARIANTS
  MatchedAccounted
  DefinedWhenEven
PROPERTIES
  EvenWritesOnlyDst
  EvenWritesTakeSource
  ImplementsSwitch
CHECK_DEADLOCK FALSE
