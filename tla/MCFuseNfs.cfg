CONSTANTS
  t1 = t1
  t2 = t2
  NULL = NULL
  Threads <- MCThreads
  MaxMounts = 2
  Keeping = {1}
  Beyond = FALSE
SPECIFICATION FairSpec
INVARIANTS
  NoStrayCallback
PROPERTY CallsEnd
CHECK_DEADLOCK FALSE
