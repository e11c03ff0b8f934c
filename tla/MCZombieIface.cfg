CONSTANTS
  f1 = f1
  f2 = f2
  s1 = s1
  FieldName = {f1, f2}
  StateName = {s1}
  LongName = {f2}
  Offset = {0}
  Shape = {A}
  OpId = {o1, o2}
  NULL = NULL
  VALUE = VALUE
  RuleName = {r1}
  IfaceName = {i1, i2}
  RoutId = {k1, k2}
  OpRequest <- Requests
  MaxItems = 2
  Input = {}
  Fault = {"recvfrom"}
SYMMETRY Symmetry
SPECIFICATION RulesetSpec
INVARIANT
  ListedIsPolled
CHECK_DEADLOCK FALSE
