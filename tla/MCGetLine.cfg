SPECIFICATION FairSpec
CONSTANTS
  Key <- MCKey
  Char <- MCChar
  Low <- MCLow
  BS = "bs"
  CR = "cr"
  LF = "lf"
  NUL = "nul"
  Unset = unset
  Delim = {"lf", "a"}
  Input = {0, 5}
  MaxKeys = 3
  MaxCount = 1
  MaxFailures = 1
  MaxLines = 3
INVARIANTS
  LineTypeOK
  StoresInBounds
  LineMatchesKeys
  CutHitsNewline
  EchoOmitsBackspaces
PROPERTIES
  DelimiterEndsLine
  ImplementsLineInput
CHECK_DEADLOCK FALSE
