CONSTANTS
  t1 = t1
  t2 = t2
  NULL = NULL
  Threads <- MCThreads
  MaxMounts = 2
  Keeping = {1}
  Beyond = FALSE
SPECIFICATION Spec
INVARIANTS
  OneThreadInLibnfs
CHECK_DEADLOCK FALSE
