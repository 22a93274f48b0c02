SPECIFICATION NolibcSpec
CONSTANTS
  MAX_FDS = 16
  VIRTUAL_FD_BASE = 4
  Handle = {h1, h2}
  NULL = null
  FdArg <- MCFdArg
  Pid <- MCPid
  Signal <- MCSignal
  Status <- MCStatus
  MaxNfds = 2
  Block = {4096}
  Increment <- MCIncrement
  SleepTime = 5
  SyscallNo <- MCSyscallNo
SYMMETRY MCSymmetry
INVARIANTS
  NolibcTypeOK
  KillReturnsOnlyErrors
  MemoryAccounted
  FailedStartupHarmless
PROPERTY ErrnoOnlyOnFailure
CHECK_DEADLOCK FALSE
