SPECIFICATION ChecksumSpec
CONSTANTS
  B = 2
  MaxLen = 13
INVARIANTS GoodLogAccepted DamageRefused
CHECK_DEADLOCK FALSE
