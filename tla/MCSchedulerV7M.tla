--------------------------- MODULE MCSchedulerV7M ---------------------------
(* Two threads, of which one makes the other and the other has the timer and   *)
(* the request of the uart; both ask for input.                                *)
EXTENDS SchedulerV7M

CONSTANTS t1, t2

MCMakes ==
  (t1 :> {"yield", "getchBlock", "setInput", "threadCreate"})
  @@ (t2 :> {"waitCheck", "getchAsync", "setTimer", "setInput", "threadExit"})
=============================================================================
