CONSTANTS
  t1 = t1
  t2 = t2
  DfcThread = DfcThread
  None = None
  Threads = {t1, t2}
  Timeslice = 1
  MaxDfcs = 1
  ReqModulus = 2
  Svcs = {"threadExit","waitCheck","getchCheck","getchAsync","signal", "createProcess"}
SPECIFICATION Spec
CHECK_DEADLOCK FALSE
SYMMETRY ThreadSymmetry
INVARIANTS
  NoLostWakeup
  DyingIsCleanedUp
