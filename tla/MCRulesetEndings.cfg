CONSTANTS
  f1 = f1
  f2 = f2
  s1 = s1
  FieldName = {f1, f2}
  StateName = {s1}
  LongName = {f2}
  Offset = {0}
  Shape = {A}
  OpId = {o1, o2}
  NULL = NULL
  VALUE = VALUE
  RuleName = {r1}
  IfaceName = {i1, i2}
  RoutId = {k1}
  OpRequest <- Requests
  MaxItems = 2
  Input = {"malformed", "rules outside add"}
  Fault = {"recvfrom", "eptk_register"}
SPECIFICATION RulesetFairSpec
PROPERTIES
  ImplementsOperands
  ImplementsCatalog
  DirectiveEnds
CHECK_DEADLOCK FALSE
