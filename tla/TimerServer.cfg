CONSTANTS
  Clients = {c1, c2}
  Timer = Timer
  None = None
  Waits = {0, 2}
  MaxTime = 4
SPECIFICATION FairSpec
CHECK_DEADLOCK FALSE
INVARIANTS
  EachTimerOnce
  CompletedOnce
  EarliestIsArmed
PROPERTIES
  TimersExpire
  AbstractSpec
