CONSTANTS
  Threads = {t1, t2}
  DfcThread = DfcThread
  NULL = NULL
SPECIFICATION Spec
INVARIANT EnqueuedIsInNoList
CHECK_DEADLOCK FALSE
