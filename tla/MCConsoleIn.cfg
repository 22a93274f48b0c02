SPECIFICATION InSpec
CONSTANTS
  Key <- MCKey
  Char <- MCChar
  Low <- MCLow
  BS = "bs"
  CR = "cr"
  LF = "lf"
  Unset = unset
  MaxKeys = 3
  MaxCount = 3
  MaxFailures = 2
INVARIANTS
  InTypeOK
  BufferHoldsKeysInOrder
  FailuresLoseNoKey
  ReturnIsExactOnlyAfterNewline
CHECK_DEADLOCK FALSE
