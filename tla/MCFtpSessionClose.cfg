CONSTANTS
  a = a
  b = b
  f1 = f1
  f2 = f2
  f3 = f3
  f4 = f4
  f5 = f5
  NULL = NULL
  Sessions <- MCSessions
  Fds <- MCFds
  MaxOffset = 1
  Orderly = FALSE
  Beyond = FALSE
SPECIFICATION Spec
PROPERTY ClosesItsOwn
CHECK_DEADLOCK FALSE
