CONSTANTS
  Threads = {t1, t2}
  None = None
  Timeslice = 1
  MaxDfcs = 2
  ReqModulus = 2
  BufSize = 1
  t1 = t1
  t2 = t2
  Makes <- MCMakes
SPECIFICATION FairSpec
CHECK_DEADLOCK FALSE
INVARIANTS
  ThreadsAreRight
  DeferredIsPending
  InputOnce
PROPERTIES
  DeferredIsDone
