CONSTANTS
  FieldName = {f1, f2}
  StateName = {s1, toolong}
  LongName = {toolong}
  Offset = {0}
  Shape = {A, B}
  OpId = {o1, o2, o3}
  NULL = NULL
  VALUE = VALUE
SYMMETRY Symmetry
SPECIFICATION OperandsSpec
INVARIANTS
  FieldRefExact
  StateRefExact
  SharedStateAgrees
  CachedSetCurrent
