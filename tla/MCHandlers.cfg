SPECIFICATION HandlersSpec
CONSTANTS
  MAX_FDS = 16
  VIRTUAL_FD_BASE = 4
  Handle = {h1, h2, h3}
  NULL = null
  FdArg <- MCFdArg
  Years <- MCYears
  TimesOfDay <- MCTimesOfDay
  Char = {a, b}
  NUL = nul
  Size = 10
  MaxPath = 5
INVARIANTS
  FdTypeOK
  NoDescriptorIssued
  TimeTypeOK
  TimeIsExact
  DatesTo2000AreShifted
  FailedClockReads2019
  PathTypeOK
  ConversionInBounds
  FirmwareSeesCutPath
PROPERTY HandlesOnlyAccumulate
