SPECIFICATION Spec
CONSTANTS
  Radix = 4
  Text <- Texts
  Length = {0, 1, 2, 3, 4, 5, 6, 7, 8, 9, 14, 15, 16, 17}
  MaxValueLen = 35
  NULL = NULL
CHECK_DEADLOCK FALSE
INVARIANTS
  ValueTypeOK
  NumbersExact
  DigitsExact
