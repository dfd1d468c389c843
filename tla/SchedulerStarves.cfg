CONSTANTS
  t1 = t1
  t2 = t2
  t3 = t3
  DfcThread = DfcThread
  None = None
  Threads = {t1, t2, t3}
  Timeslice = 1
  MaxDfcs = 1
  ReqModulus = 2
  Svcs = {"threadCreate"}
SPECIFICATION FairSpec
CHECK_DEADLOCK FALSE
PROPERTIES
  ReadyThreadRuns
