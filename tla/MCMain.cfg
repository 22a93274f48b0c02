SPECIFICATION FairMainSpec
CONSTANTS
  Key <- MCKey
  Char <- MCChar
  Low <- MCLow
  BS = "bs"
  CR = "cr"
  LF = "lf"
  NUL = "nul"
  Unset = unset
  Delim = {"lf"}
  Input = {0}
  MaxKeys = 4
  MaxCount = 1
  MaxFailures = 1
  MaxLines = 1
INVARIANTS
  PrintsFirstLine
  ExitTakesItsOwnReturn
PROPERTY TwoReturnsEndProgram
CHECK_DEADLOCK FALSE
