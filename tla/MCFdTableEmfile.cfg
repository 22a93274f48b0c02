SPECIFICATION FdSpec
CONSTANTS
  MAX_FDS = 16
  VIRTUAL_FD_BASE = 4
  Handle = {h1, h2, h3}
  NULL = null
  FdArg <- MCFdArg
INVARIANT EmfileMeansTableFull
