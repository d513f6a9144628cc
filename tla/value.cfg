SPECIFICATION Spec
CONSTANTS
  M8 = 2
  M16 = 4
  H32 = 8
  H64 = 32
  a4 = a4  a6 = a6
  Addr4 <- Four
  Addr6 <- Six
  Junk = Junk
  TextBound = 70
  NoValue = NoValue
INVARIANTS NumberSurvives RangeChecked CompareAgrees
CHECK_DEADLOCK FALSE
