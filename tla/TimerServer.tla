---------------------------- MODULE TimerServer ----------------------------
(***************************************************************************)
(* One-shot timers from end to end: modules/timerserver/server.lua, the    *)
(* run loop it is called from, KExecSetTimer and the tick that completes   *)
(* its request.  The tick may come between any two steps; clients and the  *)
(* DFC thread run when no SVC is in progress, clients also between writing *)
(* the flags of their message and the SVC.  A client has one message; how  *)
(* it gets to the server is module Ipc's.                                  *)
(***************************************************************************)
EXTENDS Integers, Sequences, FiniteSets, SequencesExt

CONSTANTS
  Clients,
  Timer,   \* the AsyncRequest timerRequest
  None,
  Waits,   \* the msecs a client asks for
  MaxTime  \* bound: ticks

ASSUME TimerServerAssumption ==
  /\ IsFiniteSet(Clients)
  /\ Timer \notin Clients /\ None \notin Clients
  /\ Waits \subseteq Nat /\ MaxTime \in Nat
  /\ \E m \in Waits : \A w \in Waits : w <= m

Requests == Clients \cup {Timer}
Never == MaxTime + 1 + CHOOSE m \in Waits : \A w \in Waits : w <= m  \* int64.MAX

VARIABLES
  uptime, timerTime,  \* TheSuperPage->uptime, ->timerCompletionTime
  userPtr,     \* timerRequest.userPtr is set
  dfcs,        \* queued completions of the timer request: their userPtr
  svc,         \* KExecSetTimer in progress: its next step and the time asked
  completedRequests,  \* of the server's thread
  flagged,     \* the requests whose Completed flag is set
  wants,       \* the msecs in each client's message
  due,         \* when a client expects its answer, -1 if it does not wait
  calling,     \* the clients that have set the flag, and have the SVC to make
  pending,     \* pendingRequests of the run loop
  prog, at, numReqs,  \* where the run loop is: step, iterator, local numReqs
  msg,         \* the message that is handled
  timers,      \* the sorted array, without its end marker
  completed,   \* what is left of timerExpired's `completed`
  panic,       \* what stopped the kernel
  raced        \* the races lost, which a timer may not survive

kernelVars == << uptime, timerTime, userPtr, dfcs, svc >>
clientVars == << wants, due, calling >>
loopVars == << pending, prog, at, numReqs, msg >>
timerVars == << timers, completed >>
vars == << kernelVars, completedRequests, flagged, clientVars, loopVars,
           timerVars, panic, raced >>

Idle == [step |-> "idle", time |-> 0]

\* main has queued timerRequest, and the clients have connected, in some order.
\* timerCompletionTime is UINT64_MAX.
Init ==
  /\ uptime = 0 /\ timerTime = Never /\ userPtr = FALSE /\ dfcs = << >>
  /\ svc = Idle /\ completedRequests = 0 /\ flagged = {}
  /\ wants = [c \in Clients |-> 0] /\ due = [c \in Clients |-> -1]
  /\ calling = {}
  /\ pending = << Timer >> \o SetToSeq(Clients)
  /\ prog = "wait" /\ at = 1 /\ numReqs = 0 /\ msg = None
  /\ timers = << >> /\ completed = << >>
  /\ panic = "none" /\ raced = {}

-----------------------------------------------------------------------------
(* The kernel                                                              *)

\* tick: only the one millisecond that equals timerCompletionTime counts.
Tick ==
  LET now == uptime + 1
      due1 == now = timerTime IN
  /\ uptime < MaxTime
  /\ uptime' = now
  /\ timerTime' = IF due1 THEN Never ELSE timerTime
  /\ userPtr' = (userPtr /\ ~due1)
  /\ dfcs' = IF due1 THEN Append(dfcs, userPtr) ELSE dfcs
  /\ raced' = raced
       \cup (IF due1 /\ svc # Idle THEN {"taken"} ELSE {})
       \cup (IF svc.step = "store" /\ svc.time = now THEN {"missed"} ELSE {})
  /\ UNCHANGED << svc, completedRequests, flagged, clientVars, loopVars,
                  timerVars, panic >>

\* do_request_complete and thread_requestComplete, in the DFC thread.
DfcRun ==
  /\ svc = Idle /\ dfcs # << >>
  /\ dfcs' = Tail(dfcs)
  /\ IF Head(dfcs)
     THEN /\ flagged' = flagged \cup {Timer}
          /\ completedRequests' = completedRequests + 1
          /\ userPtr' = userPtr
          /\ UNCHANGED panic
     ELSE panic' = "noUserPtr" /\ UNCHANGED << flagged, completedRequests, userPtr >>
  /\ UNCHANGED << uptime, timerTime, svc, clientVars, loopVars, timerVars, raced >>

\* Mistaken variant: a time that is now is waited for.
SvcCompareStrict ==
  /\ svc.step = "compare"
  /\ IF svc.time < uptime
     THEN svc' = [svc EXCEPT !.step = "complete"] /\ timerTime' = Never
     ELSE svc' = [svc EXCEPT !.step = "store"] /\ UNCHANGED timerTime
  /\ UNCHANGED << uptime, userPtr, dfcs, completedRequests, flagged, clientVars,
                  loopVars, timerVars, panic, raced >>

\* KExecSetTimer, from the comparison on.
SvcCompare ==
  /\ svc.step = "compare"
  /\ IF svc.time <= uptime
     THEN svc' = [svc EXCEPT !.step = "complete"] /\ timerTime' = Never
     ELSE svc' = [svc EXCEPT !.step = "store"] /\ UNCHANGED timerTime
  /\ UNCHANGED << uptime, userPtr, dfcs, completedRequests, flagged, clientVars,
                  loopVars, timerVars, panic, raced >>

SvcComplete ==
  /\ svc.step = "complete"
  /\ svc' = Idle
  /\ IF userPtr
     THEN /\ flagged' = flagged \cup {Timer}
          /\ completedRequests' = completedRequests + 1
          /\ userPtr' = FALSE
          /\ UNCHANGED panic
     ELSE panic' = "noUserPtr" /\ UNCHANGED << flagged, completedRequests, userPtr >>
  /\ UNCHANGED << uptime, timerTime, dfcs, clientVars, loopVars, timerVars, raced >>

SvcStore ==
  /\ svc.step = "store"
  /\ timerTime' = svc.time /\ svc' = Idle
  /\ UNCHANGED << uptime, userPtr, dfcs, completedRequests, flagged, clientVars,
                  loopVars, timerVars, panic, raced >>

SvcStep == SvcCompare \/ SvcComplete \/ SvcStore

-----------------------------------------------------------------------------
(* A client                                                                *)

\* TimerSession:after up to the flags of the message, which the run loop of the
\* server looks at, ...
After(c, msecs) ==
  /\ svc = Idle /\ due[c] = -1 /\ c \notin calling
  /\ wants' = [wants EXCEPT ![c] = msecs]
  /\ due' = [due EXCEPT ![c] = uptime + msecs]
  /\ flagged' = flagged \cup {c} /\ calling' = calling \cup {c}
  /\ UNCHANGED << kernelVars, completedRequests, loopVars, timerVars, panic,
                  raced >>

\* ... and KExecCompleteIpcRequest, which counts it.
Signal(c) ==
  /\ svc = Idle /\ c \in calling
  /\ calling' = calling \ {c}
  /\ completedRequests' = completedRequests + 1
  /\ UNCHANGED << kernelVars, flagged, wants, due, loopVars, timerVars, panic,
                  raced >>

-----------------------------------------------------------------------------
(* The server's thread                                                     *)

\* Mistaken variant: the count is not reset.
WaitForAnyRequestAgain ==
  /\ prog = "wait" /\ completedRequests > 0
  /\ numReqs' = completedRequests
  /\ at' = 1 /\ prog' = "iterate"
  /\ UNCHANGED << kernelVars, completedRequests, flagged, clientVars, pending,
                  msg, timerVars, panic, raced >>

\* innerLoop asks how many requests there are to complete.
WaitForAnyRequest ==
  /\ prog = "wait" /\ completedRequests > 0
  /\ numReqs' = completedRequests /\ completedRequests' = 0
  /\ at' = 1 /\ prog' = "iterate"
  /\ UNCHANGED << kernelVars, flagged, clientVars, pending, msg, timerVars,
                  panic, raced >>

\* All are done; or, with an error that is caught, the list is at its end.
LoopEnds ==
  /\ prog = "iterate" /\ (numReqs = 0 \/ at > Len(pending))
  /\ prog' = "wait" /\ numReqs' = 0
  /\ UNCHANGED << kernelVars, completedRequests, flagged, clientVars, pending,
                  at, msg, timerVars, panic, raced >>

LoopSkips ==
  /\ prog = "iterate" /\ numReqs > 0 /\ at <= Len(pending)
  /\ pending[at] \notin flagged
  /\ at' = at + 1
  /\ UNCHANGED << kernelVars, completedRequests, flagged, clientVars, pending,
                  prog, numReqs, msg, timerVars, panic, raced >>

\* The request is taken out of the list and its completionFn is called; misc.iter
\* then looks at the same index again.
LoopHandles ==
  /\ prog = "iterate" /\ numReqs > 0 /\ at <= Len(pending)
  /\ LET req == pending[at] IN
     /\ req \in flagged
     /\ flagged' = flagged \ {req}
     /\ numReqs' = numReqs - 1
     /\ pending' = RemoveAt(pending, at)
     /\ msg' = IF req = Timer THEN None ELSE req
     /\ prog' = IF req = Timer THEN "timerExpired" ELSE "after"
  /\ UNCHANGED << kernelVars, completedRequests, clientVars, at, timerVars,
                  panic, raced >>

\* The elements of s at the indexes I, in their order.
ElementsAt(s, I) ==
  [k \in 1..Cardinality(I) |->
     s[CHOOSE i \in I : Cardinality({j \in I : j <= i}) = k]]

\* Mistaken variant: timers that are nearly due are completed with the others.
IsDueSoon(timer) == uptime + 1 >= timer.time

\* timerExpired takes the timers that are due out of the array, ...
IsDue(timer) == uptime >= timer.time

TimerExpired ==
  LET expired == {i \in DOMAIN timers : IsDue(timers[i])} IN
  /\ prog = "timerExpired"
  /\ completed' = ElementsAt(timers, expired)
  /\ timers' = ElementsAt(timers, DOMAIN timers \ expired)
  /\ prog' = "complete"
  /\ UNCHANGED << kernelVars, completedRequests, flagged, clientVars, pending,
                  at, numReqs, msg, panic, raced >>

\* ... answers each, ...
Complete ==
  /\ prog = "complete" /\ completed # << >>
  /\ due' = [due EXCEPT ![Head(completed).client] = -1]
  /\ completed' = Tail(completed)
  /\ UNCHANGED << kernelVars, completedRequests, flagged, wants, calling, loopVars,
                  timers, panic, raced >>

\* ... and queues its request again, for the first of the others.
Rerequest ==
  /\ prog = "complete" /\ completed = << >> /\ Timer \notin flagged
  /\ pending' = Append(pending, Timer)
  /\ prog' = "setTimer"
  /\ UNCHANGED << kernelVars, completedRequests, flagged, clientVars, at,
                  numReqs, msg, timerVars, panic, raced >>

InOrder(s) == \A i, j \in DOMAIN s : i < j => s[i].time <= s[j].time

\* Mistaken variant: the kernel is told only of the first timer there is.
HandleAfterUntold ==
  LET t == [time |-> uptime + wants[msg], client |-> msg] IN
  /\ prog = "after"
  /\ timers' \in {s \in SetToSeqs(Range(timers) \cup {t}) : InOrder(s)}
  /\ prog' = IF timers = << >> THEN "setTimer" ELSE "queue"
  /\ UNCHANGED << kernelVars, completedRequests, flagged, clientVars, pending,
                  at, numReqs, msg, completed, panic, raced >>

\* Mistaken variant: the array is not sorted.
HandleAfterUnsorted ==
  LET t == [time |-> uptime + wants[msg], client |-> msg]
      isFirst == timers = << >> \/ t.time < timers[1].time IN
  /\ prog = "after"
  /\ timers' = << t >> \o timers
  /\ prog' = IF isFirst THEN "setTimer" ELSE "queue"
  /\ UNCHANGED << kernelVars, completedRequests, flagged, clientVars, pending,
                  at, numReqs, msg, completed, panic, raced >>

\* after: the timer goes to the front, and the kernel is told if it is the
\* first to expire; otherwise the array is sorted.
HandleAfter ==
  LET t == [time |-> uptime + wants[msg], client |-> msg]
      isFirst == timers = << >> \/ t.time < timers[1].time IN
  /\ prog = "after"
  /\ IF isFirst
     THEN timers' = << t >> \o timers /\ prog' = "setTimer"
     ELSE /\ timers' \in {s \in SetToSeqs(Range(timers) \cup {t}) : InOrder(s)}
          /\ prog' = "queue"
  /\ UNCHANGED << kernelVars, completedRequests, flagged, clientVars, pending,
                  at, numReqs, msg, completed, panic, raced >>

\* setNewTimerCallback and the first stores of KExecSetTimer.
SetNewTimerCallback ==
  /\ prog = "setTimer" /\ Timer \notin flagged
  /\ svc' = [step |-> "compare",
             time |-> IF timers = << >> THEN Never ELSE timers[1].time]
  /\ userPtr' = TRUE
  /\ prog' = IF msg = None THEN "iterate" ELSE "queue"
  /\ raced' = IF dfcs = << >> THEN raced ELSE raced \cup {"taken"}
  /\ UNCHANGED << uptime, timerTime, dfcs, completedRequests, flagged,
                  clientVars, pending, at, numReqs, msg, timerVars, panic >>

\* handleMsg queues the message again.
QueueMsg ==
  /\ prog = "queue"
  /\ pending' = Append(pending, msg)
  /\ prog' = "iterate" /\ msg' = None
  /\ UNCHANGED << kernelVars, completedRequests, flagged, clientVars, at,
                  numReqs, timerVars, panic, raced >>

\* "AsyncRequest is waiting to be handled" (or, where timerExpired queues it
\* again, "awaiting completion"): the request has been completed since the time
\* was compared with the first timer's.  The error ends the inner loop, which
\* forgets the requests it was told of.
SetTimerError ==
  /\ prog = "setTimer" \/ (prog = "complete" /\ completed = << >>)
  /\ Timer \in flagged
  /\ pending' = IF msg = None THEN pending ELSE Append(pending, msg)
  /\ prog' = "wait" /\ numReqs' = 0 /\ msg' = None
  /\ raced' = IF numReqs > 0 THEN raced \cup {"uncounted"} ELSE raced
  /\ UNCHANGED << kernelVars, completedRequests, flagged, clientVars, at,
                  timerVars, panic >>

ServerStep ==
  \/ SvcStep
  \/ /\ svc = Idle
     /\ \/ WaitForAnyRequest \/ LoopEnds \/ LoopSkips \/ LoopHandles
        \/ TimerExpired \/ Complete \/ Rerequest
        \/ HandleAfter \/ SetNewTimerCallback \/ QueueMsg \/ SetTimerError

Next ==
  /\ panic = "none"
  /\ \/ Tick \/ DfcRun \/ ServerStep
     \/ \E c \in Clients : Signal(c) \/ \E msecs \in Waits : After(c, msecs)

Spec == Init /\ [][Next]_vars

\* Assumed: the clock runs, DFCs are picked up, and the server and a client that
\* has called it get to run (Scheduler's ReadyThreadRuns, which three threads
\* that are ready all the time do not have).
FairSpec ==
  /\ Spec
  /\ WF_vars(panic = "none" /\ Tick) /\ WF_vars(panic = "none" /\ DfcRun)
  /\ WF_vars(panic = "none" /\ ServerStep)
  /\ \A c \in Clients : WF_vars(panic = "none" /\ Signal(c))

-----------------------------------------------------------------------------
Times == 0..Never
TimerRecords == [time : Times, client : Clients]

TypeOK ==
  /\ uptime \in 0..MaxTime /\ timerTime \in Times /\ userPtr \in BOOLEAN
  /\ dfcs \in Seq(BOOLEAN)
  /\ svc \in [step : {"idle", "compare", "complete", "store"}, time : Times]
  /\ completedRequests \in Nat
  /\ flagged \subseteq Requests
  /\ wants \in [Clients -> Waits \cup {0}] /\ due \in [Clients -> Times \cup {-1}]
  /\ calling \subseteq Clients
  /\ pending \in Seq(Requests) /\ IsInjective(pending)
  /\ prog \in {"wait", "iterate", "timerExpired", "complete", "after",
               "setTimer", "queue"}
  /\ at \in 1..(Cardinality(Requests) + 1) /\ numReqs \in Nat
  /\ msg \in Clients \cup {None}
  /\ timers \in Seq(TimerRecords) /\ completed \in Seq(TimerRecords)
  /\ panic \in {"none", "noUserPtr"}
  /\ raced \subseteq {"missed", "taken", "uncounted"}

\* Every client that waits is in one place: its message not yet handled or being
\* handled, or one timer, which is due no earlier than it asked; and the array
\* is in order.
EachTimerOnce ==
  LET held == timers \o completed
      Handled(c) == IF msg = c /\ prog = "after" THEN 1 ELSE 0
      Sent(c) == IF c \in flagged THEN 1 ELSE 0
      Entries(c) == Cardinality({i \in DOMAIN held : held[i].client = c})
  IN /\ TypeOK
     /\ InOrder(timers)
     /\ \A i \in DOMAIN held : held[i].time >= due[held[i].client]
     /\ \A c \in Clients : Sent(c) + Handled(c) + Entries(c)
                             = (IF due[c] = -1 THEN 0 ELSE 1)

\* A request is completed once: the run loop is told, or will be by the client's
\* SVC, of as many requests as have their flag set, whichever of them it handles
\* first, unless an error makes it forget some; and the kernel never completes a
\* request it no longer has, unless the tick took it during KExecSetTimer.
CompletedOnce ==
  /\ raced \subseteq {"missed"} =>
       completedRequests + numReqs + Cardinality(calling) = Cardinality(flagged)
  /\ panic # "none" => "taken" \in raced

\* The server never sleeps on a timer the kernel does not know: the kernel has
\* the earliest, or is completing it, unless the tick came inside KExecSetTimer;
\* or it has completed it, and the server used that count for the message of a
\* client whose own SVC is still to come.
EarliestIsArmed ==
  prog = "wait" /\ completedRequests = 0 /\ timers # << >> /\ raced = {} =>
    \/ timerTime = timers[1].time /\ userPtr /\ uptime < timerTime
    \/ dfcs # << >>
    \/ Timer \in flagged /\ calling # {}

Waiting(c) == due[c] # -1
Beyond(c) == \E i \in DOMAIN timers : timers[i].client = c /\ timers[i].time > MaxTime

\* after "Calls `completionFn` after `msecs` milliseconds" (timerserver/init.lua),
\* once the clock gets there and unless a race of KExecSetTimer with the tick is
\* lost: without the last disjunct TLC shows a timer that never expires.
TimersExpire ==
  \A c \in Clients : Waiting(c) ~> ~Waiting(c) \/ Beyond(c) \/ raced # {}

\* No client is answered twice, or before its time.
Abstract == INSTANCE TimerSpec WITH now <- uptime
AbstractSpec == Abstract!Spec
=============================================================================
