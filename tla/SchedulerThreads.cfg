CONSTANTS
  t1 = t1
  t2 = t2
  t3 = t3
  DfcThread = DfcThread
  None = None
  Threads = {t1, t2, t3}
  Timeslice = 2
  MaxDfcs = 1
  ReqModulus = 2
  Svcs = {"yield", "waitCheck", "setTimer", "threadExit", "threadCreate"}
SPECIFICATION Spec
CHECK_DEADLOCK FALSE
SYMMETRY ThreadSymmetry
INVARIANTS
  TypeOK
  ReadyListExact
  ExpiredSliceHasReschedule
  BatchIsOwned
  WhoRuns
PROPERTIES
  SvcNotPreempted
