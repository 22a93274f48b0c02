SPECIFICATION InSpec
CONSTANTS
  Key <- MCKey
  Char <- MCChar
  Low <- MCLow
  BS = "bs"
  CR = "cr"
  LF = "lf"
  Unset = unset
  MaxKeys = 3
  MaxCount = 3
  MaxFailures = 2
INVARIANTS
  ReadReturnsAtMostCount
CHECK_DEADLOCK FALSE
