----------------------------- MODULE TimerSpec -----------------------------
(***************************************************************************)
(* What a client of the timer server is promised: "Calls `completionFn`    *)
(* after `msecs` milliseconds", once, and never earlier.                   *)
(***************************************************************************)
EXTENDS Integers

CONSTANTS Clients, Waits  \* Waits: the msecs a client may ask for

VARIABLES
  now,
  due  \* when a client that waits may be answered; -1 for one that does not

vars == << now, due >>

Init == now = 0 /\ due = [c \in Clients |-> -1]

Tick == now' = now + 1 /\ UNCHANGED due

After(c, msecs) ==
  /\ due[c] = -1
  /\ due' = [due EXCEPT ![c] = now + msecs]
  /\ UNCHANGED now

Answer(c) ==
  /\ due[c] # -1 /\ due[c] <= now
  /\ due' = [due EXCEPT ![c] = -1]
  /\ UNCHANGED now

Next ==
  \/ Tick
  \/ \E c \in Clients : Answer(c) \/ \E msecs \in Waits : After(c, msecs)

Spec == Init /\ [][Next]_vars
=============================================================================
