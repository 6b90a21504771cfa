CONSTANTS
  a = a
  b = b
  f1 = f1
  f2 = f2
  f3 = f3
  f4 = f4
  f5 = f5
  NULL = NULL
  Sessions <- MCSessions
  Fds <- MCFds
  MaxOffset = 1
  Orderly = TRUE
  Beyond = FALSE
SPECIFICATION Spec
SYMMETRY Symmetry
INVARIANTS
  TypeOK
  FdsExact
  AsAsked
CHECK_DEADLOCK FALSE
