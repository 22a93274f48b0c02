SPECIFICATION FairSpec
CONSTANTS
  Plain = {a, cr}
  NUL = nul
  LF = lf
  CR = cr
  Unset = unset
  MaxCount = 3
  MaxCalls = 2
INVARIANTS
  TypeOK
  LoopStoresInBounds
  TerminatorOverrunsOnNewlinesOnly
  ScreenShowsWhatWasWritten
PROPERTY CallsFinish
CHECK_DEADLOCK FALSE
