-------------------------- MODULE SchedulerProofs --------------------------
(***************************************************************************)
(* Theorems about Scheduler, for any number of threads and any sizes.      *)
(*                                                                         *)
(* The inductive invariant IInv adds to the checked invariants the facts   *)
(* that connect the steps of an SVC with the rest of the state             *)
(* (StepsKnow): what a handler found out in one step still holds in its    *)
(* next one, although the interrupt handler may have run in between.       *)
(***************************************************************************)
EXTENDS Scheduler, SequenceTheorems, TLAPS

-----------------------------------------------------------------------------
(* The list operators.  The lemmas on them, in ThreadListProofs, say        *)
(* nothing of the pointers that ThreadList keeps: nothing stands for those. *)

ListLemmas ==
  INSTANCE ThreadListProofs
    WITH Threads <- {}, DfcThread <- None, NULL <- None, list <- None,
         state <- None, currentThread <- None, mode <- None, pc <- None,
         t <- None, before <- None, to <- None, leaves <- None,
         expired <- None, rescheduleNeeded <- None, panic <- None

\* The operators of module ReadyList that those lemmas are about are the ones
\* that Scheduler uses.
LEMMA ListOperators ==
  ASSUME NEW q, NEW t
  PROVE  /\ ListLemmas!Distinct(q) <=> Distinct(q)
         /\ ListLemmas!Contains(q, t) <=> Contains(q, t)
         /\ ListLemmas!Dequeue(q, t) = Dequeue(q, t)
         /\ ListLemmas!PushHead(q, t) = PushHead(q, t)
         /\ ListLemmas!YieldInList(q, t) = YieldInList(q, t)
BY DEF ListLemmas!Distinct, Distinct, ListLemmas!Contains, Contains,
       ListLemmas!PushHead, PushHead, ListLemmas!Cons, Cons,
       ListLemmas!Dequeue, Dequeue, ListLemmas!RemoveAt, RemoveAt,
       ListLemmas!Position, Position, ListLemmas!YieldInList, YieldInList,
       ListLemmas!EnqueueBefore, EnqueueBefore, ListLemmas!InsertAt,
       InsertAt, ListLemmas!Last, Last

\* Making a thread the head adds it, and only it.
LEMMA PushHeadIs ==
  ASSUME NEW S, NEW q \in Seq(S), NEW t \in S, Distinct(q), ~Contains(q, t)
  PROVE  /\ PushHead(q, t) \in Seq(S)
         /\ Distinct(PushHead(q, t))
         /\ \A u : Contains(PushHead(q, t), u) <=> u = t \/ Contains(q, u)
BY ListOperators, ListLemmas!PushHeadIs

\* Dequeuing a thread of the list removes it, and only it.
LEMMA DequeueIs ==
  ASSUME NEW S, NEW q \in Seq(S), NEW t, Distinct(q), Contains(q, t)
  PROVE  /\ Dequeue(q, t) \in Seq(S)
         /\ Distinct(Dequeue(q, t))
         /\ \A u : Contains(Dequeue(q, t), u) <=> u # t /\ Contains(q, u)
BY ListOperators, ListLemmas!DequeueIs

\* Yielding keeps the threads of the list.
LEMMA YieldInListIs ==
  ASSUME NEW S, NEW q \in Seq(S), NEW t \in S, Distinct(q), Contains(q, t)
  PROVE  /\ YieldInList(q, t) \in Seq(S)
         /\ Distinct(YieldInList(q, t))
         /\ \A u : Contains(YieldInList(q, t), u) <=> Contains(q, u)
BY ListOperators, ListLemmas!YieldInListIs

-----------------------------------------------------------------------------

\* The count of the kernel is that of the requests the thread has not been
\* told of, until there are more of these than its byte can count.
CountAgrees(t) ==
  unreported[t] < ReqModulus => completedRequests[t] = unreported[t]
CountsAgree == \A t \in Threads : CountAgrees(t)

\* What the steps of an SVC and the interrupt handler rely on.
StepsKnow ==
  /\ mode = "svc" /\ svc = "waitBlock" => completedRequests[currentThread] = 0
  /\ CountsAgree
  /\ svc # "none" => mode = "svc"
  /\ mode = "svc" /\ svc = "dfcWrite" => reserved \in 1..MaxDfcs
  /\ mode = "svc" /\ svc = "armTimer" => timerRequest.thread \in Threads
  /\ timerArmed => timerRequest.thread \in Threads
  /\ irqResched => irq # "none"
  /\ currentThread # None /\ timeslice = 0 => rescheduleNeeded \/ irqResched

\* The ready list and the thread states, which change together.
ListOK ==
  /\ state \in [AllThreads -> ThreadStates]
  /\ readyList \in Seq(AllThreads)
  /\ ReadyListExact

\* The inductive invariant.
IInv ==
  /\ TypeOK
  /\ ReadyListExact
  /\ WhoRuns
  /\ StepsKnow
  /\ NoLostWakeup
  /\ BatchIsOwned

-----------------------------------------------------------------------------
(* The helpers of the handlers.                                            *)

\* thread_setState(t, EReady) of a thread that is not ready.
LEMMA SetReadyIs ==
  ASSUME ListOK, NEW t \in AllThreads, state[t] # "EReady", SetReady(t)
  PROVE  ListOK'
<1>1. ~Contains(readyList, t) /\ Distinct(readyList)
  BY DEF ListOK, ReadyListExact
<1>2. /\ readyList' \in Seq(AllThreads) /\ Distinct(readyList')
      /\ \A u : Contains(readyList', u) <=> u = t \/ Contains(readyList, u)
  BY <1>1, PushHeadIs DEF ListOK, SetReady
<1>3. state' \in [AllThreads -> ThreadStates]
  BY DEF ListOK, SetReady, ThreadStates
<1>4. \A u \in AllThreads : state'[u] = IF u = t THEN "EReady" ELSE state[u]
  BY DEF ListOK, SetReady
<1> QED
  BY <1>2, <1>3, <1>4 DEF ListOK, ReadyListExact

\* thread_setState to any other state, of any thread.
LEMMA SetNotReadyIs ==
  ASSUME ListOK, NEW t \in AllThreads, NEW s \in ThreadStates, s # "EReady",
         SetNotReady(t, s)
  PROVE  ListOK'
<1>1. /\ state' \in [AllThreads -> ThreadStates]
      /\ \A u \in AllThreads : state'[u] = IF u = t THEN s ELSE state[u]
  BY DEF ListOK, SetNotReady
<1>2. CASE state[t] = "EReady"
  <2>1. Contains(readyList, t) /\ Distinct(readyList)
    BY <1>2 DEF ListOK, ReadyListExact
  <2>2. readyList' = Dequeue(readyList, t)
    BY <1>2 DEF SetNotReady
  <2>3. /\ readyList' \in Seq(AllThreads) /\ Distinct(readyList')
        /\ \A u : Contains(readyList', u) <=> u # t /\ Contains(readyList, u)
    BY <2>1, <2>2, DequeueIs DEF ListOK
  <2> QED BY <1>1, <2>3 DEF ListOK, ReadyListExact
<1>3. CASE state[t] # "EReady"
  <2>1. readyList' = readyList
    BY <1>3 DEF SetNotReady
  <2> QED BY <1>1, <1>3, <2>1 DEF ListOK, ReadyListExact
<1> QED BY <1>2, <1>3

\* thread_yield of a ready thread.
LEMMA YieldIs ==
  ASSUME ListOK, NEW t \in AllThreads, state[t] = "EReady",
         readyList' = YieldInList(readyList, t), UNCHANGED state
  PROVE  ListOK'
<1>1. Contains(readyList, t) /\ Distinct(readyList)
  BY DEF ListOK, ReadyListExact
<1>2. /\ readyList' \in Seq(AllThreads) /\ Distinct(readyList')
      /\ \A u : Contains(readyList', u) <=> Contains(readyList, u)
  BY <1>1, YieldInListIs DEF ListOK
<1> QED BY <1>2 DEF ListOK, ReadyListExact

\* The types of the counts.
CountsTyped ==
  /\ completedRequests \in [Threads -> 0..(ReqModulus - 1)]
  /\ unreported \in [Threads -> 0..ReqModulus]

\* Handing thread t its count leaves nothing unreported.
LEMMA ReportedIs ==
  ASSUME CountsTyped, CountsAgree, NEW t \in Threads, Reported(t),
         completedRequests' = [completedRequests EXCEPT ![t] = 0]
  PROVE  /\ CountsTyped' /\ CountsAgree'
         /\ \A u \in Threads : u # t => unreported'[u] = unreported[u]
         /\ unreported'[t] = 0
BY SchedulerAssumption
   DEF CountsTyped, CountsAgree, CountAgrees, Reported

\* thread_requestSignal.
LEMMA RequestSignalIs ==
  ASSUME ListOK, CountsTyped, CountsAgree, NEW t \in Threads, RequestSignal(t)
  PROVE  /\ ListOK'
         /\ CountsTyped' /\ CountsAgree'
         /\ \A u \in AllThreads : u # t => state'[u] = state[u]
         /\ \A u \in Threads :
              u # t => /\ completedRequests'[u] = completedRequests[u]
                       /\ unreported'[u] = unreported[u]
         /\ state'[t] = state[t] \/ state'[t] = "EReady"
         /\ state'[t] # "EWaitForRequest"
<1>1. ListOK'
  <2>1. CASE state[t] = "EWaitForRequest"
    BY <2>1, SetReadyIs DEF RequestSignal, AllThreads
  <2>2. CASE state[t] # "EWaitForRequest"
    BY <2>2 DEF RequestSignal, ListOK, ReadyListExact
  <2> QED BY <2>1, <2>2
<1>2. CountsTyped' /\ CountsAgree' /\ \A u \in Threads : u # t =>
        /\ completedRequests'[u] = completedRequests[u]
        /\ unreported'[u] = unreported[u]
  <2>1. CASE state[t] = "EWaitForRequest"
    BY <2>1, ReportedIs DEF RequestSignal, CountsTyped
  <2>2. CASE state[t] # "EWaitForRequest"
    <3> DEFINE n == (completedRequests[t] + 1) % ReqModulus
               m == IF unreported[t] < ReqModulus THEN unreported[t] + 1
                                                  ELSE unreported[t]
    <3>1. /\ ReqModulus \in Nat \ {0} /\ completedRequests[t] \in Nat
          /\ completedRequests[t] < ReqModulus
          /\ unreported[t] \in 0..ReqModulus
      BY SchedulerAssumption DEF CountsTyped
    <3>2. n \in 0..(ReqModulus - 1) /\ m \in 0..ReqModulus
      BY <3>1
    <3>3. m < ReqModulus => n = m
      BY <3>1 DEF CountsAgree, CountAgrees
    <3>4. /\ completedRequests' = [completedRequests EXCEPT ![t] = n]
          /\ unreported' = [unreported EXCEPT ![t] = m]
      BY <2>2 DEF RequestSignal, OneMoreUnreported, CountsTyped
    <3> HIDE DEF n, m
    <3>5. CountsTyped'
      BY <3>2, <3>4 DEF CountsTyped
    <3>6. CountsAgree'
      BY <3>3, <3>4 DEF CountsTyped, CountsAgree, CountAgrees
    <3> QED BY <3>4, <3>5, <3>6
  <2> QED BY <2>1, <2>2
<1>4. /\ \A u \in AllThreads : u # t => state'[u] = state[u]
      /\ state'[t] = state[t] \/ state'[t] = "EReady"
      /\ state'[t] # "EWaitForRequest"
  BY DEF RequestSignal, SetReady, ListOK, AllThreads
<1> QED BY <1>1, <1>2, <1>4

\* reschedule() with a list of threads that are all ready.
Rescheduled ==
  /\ timeslice' \in 0..Timeslice
  /\ currentThread' # None => timeslice' # 0
  /\ currentThread' \in AllThreads \cup {None}
  /\ svc' = "none"
  /\ mode' \in {"usr", "dfc", "idle"}
  /\ mode' = "usr" =>
       currentThread' \in Threads /\ state'[currentThread'] = "EReady"
  /\ mode' = "dfc" =>
       currentThread' = DfcThread /\ state'[DfcThread] = "EReady"
  /\ mode' = "idle" => currentThread' = None

\* What reschedule() runs is ready, and has a new timeslice.
LEMMA RescheduleIs ==
  ASSUME NEW q \in Seq(AllThreads), timeslice \in 0..Timeslice,
         \A t \in AllThreads : Contains(q, t) => state'[t] = "EReady",
         Reschedule(q)
  PROVE  Rescheduled
<1>1. CASE q = << >>
  BY <1>1 DEF Reschedule, Rescheduled
<1>2. CASE q # << >>
  <2>1. Head(q) \in AllThreads /\ Contains(q, Head(q))
    BY <1>2 DEF Contains
  <2>2. state'[Head(q)] = "EReady"
    BY <2>1
  <2>3. /\ timeslice' = Timeslice /\ currentThread' = Head(q)
        /\ mode' = (IF Head(q) = DfcThread THEN "dfc" ELSE "usr")
        /\ svc' = "none"
    BY <1>2 DEF Reschedule, ScheduleThread
  <2>4. Timeslice \in 0..Timeslice /\ Timeslice # 0
    BY SchedulerAssumption
  <2> QED BY <2>1, <2>2, <2>3, <2>4 DEF Rescheduled, AllThreads
<1> QED BY <1>1, <1>2

-----------------------------------------------------------------------------
(* IInv holds initially and every step keeps it.                           *)

\* process_start leaves one ready thread, which runs.
LEMMA InitInv == Init => IInv
<1> SUFFICES ASSUME Init PROVE IInv
  OBVIOUS
<1> USE SchedulerAssumption
<1>1. PICK first \in Threads :
        /\ state = [t \in AllThreads |->
                      IF t = first THEN "EReady"
                      ELSE IF t = DfcThread THEN "EBlockedFromSvc" ELSE "EDead"]
        /\ readyList = << first >>
        /\ currentThread = first
  BY DEF Init
<1>2. /\ state \in [AllThreads -> ThreadStates]
      /\ readyList \in Seq(AllThreads)
      /\ currentThread \in AllThreads
  BY <1>1 DEF AllThreads, ThreadStates
<1>3. NullDfc \in Dfcs
  BY DEF Dfcs
<1>4. TypeOK
  <2>1. /\ batch \in Seq(Dfcs) /\ dfcs \in [1..MaxDfcs -> Dfcs]
        /\ completedRequests \in [Threads -> 0..(ReqModulus - 1)]
        /\ unreported \in [Threads -> 0..ReqModulus]
        /\ timerRequest \in [thread : Threads \cup {None}, ptr : BOOLEAN]
    BY <1>3 DEF Init
  <2>2. /\ timeslice \in 0..Timeslice
        /\ numDfcsPending \in 0..MaxDfcs
        /\ reserved \in 0..MaxDfcs
        /\ cutOff \subseteq Threads
    BY DEF Init
  <2>3. /\ mode \in {"usr", "svc", "dfc", "idle"}
        /\ svc \in SvcSteps
        /\ irq \in {"none", "slice", "uart", "checkDfcs", "return", "stopped"}
        /\ irqResched \in BOOLEAN
        /\ rescheduleNeeded \in BOOLEAN
        /\ blockedUart \in Threads \cup {None}
        /\ uartRequest \in Threads \cup {None}
        /\ timerArmed \in BOOLEAN
        /\ panic \in Panics
    BY DEF Init, SvcSteps, Panics
  <2> QED BY <1>2, <2>1, <2>2, <2>3 DEF TypeOK
<1>5. ReadyListExact
  BY <1>1 DEF ReadyListExact, Distinct, Contains, AllThreads
<1>6. WhoRuns /\ StepsKnow /\ NoLostWakeup /\ BatchIsOwned
  BY <1>1 DEF Init, WhoRuns, StepsKnow, NoLostWakeup, BatchIsOwned, AllThreads,
     CountsAgree, CountAgrees
<1> QED BY <1>4, <1>5, <1>6 DEF IInv

\* A failed assertion stops everything else where it is.
LEMMA StopInv ==
  ASSUME IInv, NEW why \in Panics, Stop(why)
  PROVE  IInv'
BY DEF IInv, TypeOK, ReadyListExact, WhoRuns, StepsKnow, NoLostWakeup,
   BatchIsOwned, Stop, CountsAgree, CountAgrees, countVars, cpuVars, irqVars, reqVars, dfcVars

\* The steps of an SVC.  Where the list changes, the step that says ListOK'
\* comes first; a step that reschedules has one that says Rescheduled.
LEMMA SvcInv == ASSUME IInv, UserSvc \/ Svc PROVE IInv'
<1> USE SchedulerAssumption DEF AllThreads, cpuVars, irqVars, reqVars, dfcVars,
                                countVars
<1>l. ListOK
  BY DEF IInv, TypeOK, ListOK
<1>c. /\ CountsTyped /\ CountsAgree
      /\ UNCHANGED countVars => CountsAgree'
  BY DEF IInv, TypeOK, StepsKnow, CountsTyped, CountsAgree, CountAgrees
<1>t. "EWaitForRequest" \in ThreadStates /\ "EBlockedFromSvc" \in ThreadStates
      /\ "EDying" \in ThreadStates /\ "EDead" \in ThreadStates
  BY DEF ThreadStates
<1>1. CASE UserSvc
  <2>1. PICK step \in Svcs : SvcEntry(step)
    BY <1>1 DEF UserSvc
  <2>2. step \in SvcSteps /\ step \notin {"waitBlock", "dfcWrite", "armTimer"}
    BY DEF SvcSteps
  <2> QED
    BY <1>c, <2>1, <2>2 DEF IInv, TypeOK, CountsTyped, ReadyListExact, WhoRuns, StepsKnow,
       NoLostWakeup, BatchIsOwned, SvcEntry
<1>2. CASE SvcExit
  <2>1. ASSUME rescheduleNeeded PROVE Rescheduled
    BY <1>2, <2>1, RescheduleIs
       DEF IInv, TypeOK, CountsTyped, ReadyListExact, SvcExit
  <2>6. /\ timeslice' \in 0..Timeslice
        /\ currentThread' \in AllThreads \cup {None}
        /\ mode' \in {"usr", "svc", "dfc", "idle"}
        /\ svc' \in SvcSteps
        /\ rescheduleNeeded' \in BOOLEAN
    <3>1. CASE rescheduleNeeded
      BY <1>2, <2>1, <3>1 DEF SvcExit, Rescheduled, SvcSteps
    <3>2. CASE ~rescheduleNeeded
      BY <1>2, <3>2 DEF IInv, TypeOK, CountsTyped, SvcExit, SvcSteps
    <3> QED BY <3>1, <3>2
  <2>2. TypeOK' /\ ReadyListExact'
    BY <1>2, <2>6 DEF IInv, TypeOK, CountsTyped, ReadyListExact, SvcExit
  <2>3. WhoRuns' /\ BatchIsOwned'
    BY <1>2, <2>1 DEF IInv, TypeOK, WhoRuns, BatchIsOwned, SvcExit,
       Rescheduled, InSvc, SvcSteps
  <2>4. StepsKnow'
    BY <1>c, <1>2, <2>1 DEF IInv, TypeOK, WhoRuns, StepsKnow, SvcExit, Rescheduled,
       InSvc, SvcSteps
  <2>5. NoLostWakeup'
    BY <1>2, <2>1 DEF IInv, TypeOK, WhoRuns, NoLostWakeup, SvcExit,
       Rescheduled, InSvc, SvcSteps
  <2> QED BY <2>2, <2>3, <2>4, <2>5 DEF IInv
<1>3. CASE SvcReschedule
  <2>1. Rescheduled
    BY <1>3, RescheduleIs DEF IInv, TypeOK, CountsTyped, ReadyListExact, SvcReschedule
  <2>2. TypeOK' /\ ReadyListExact'
    BY <1>3, <2>1 DEF IInv, TypeOK, ReadyListExact, SvcReschedule,
       Rescheduled, InSvc, SvcSteps
  <2>3. WhoRuns' /\ BatchIsOwned'
    BY <1>3, <2>1 DEF IInv, TypeOK, WhoRuns, BatchIsOwned, SvcReschedule,
       Rescheduled, InSvc, SvcSteps
  <2>4. StepsKnow'
    BY <1>c, <1>3, <2>1 DEF IInv, TypeOK, WhoRuns, StepsKnow, SvcReschedule,
       Rescheduled, InSvc, SvcSteps
  <2>5. NoLostWakeup'
    BY <1>3, <2>1 DEF IInv, TypeOK, WhoRuns, NoLostWakeup, SvcReschedule,
       Rescheduled, InSvc, SvcSteps
  <2> QED BY <2>2, <2>3, <2>4, <2>5 DEF IInv
<1>4. CASE SvcYield
  <2>1. ListOK'
    BY <1>4, <1>l, YieldIs DEF IInv, SvcYield, WhoRuns, InSvc
  <2> QED
    BY <1>c, <1>4, <2>1 DEF IInv, TypeOK, CountsTyped, ListOK, WhoRuns, StepsKnow,
       NoLostWakeup, BatchIsOwned, SvcYield, InSvc, Goto, SvcSteps
<1>5. CASE SvcWaitCheck
  <2>1. currentThread \in Threads /\ state[currentThread] = "EReady"
    BY <1>5 DEF IInv, WhoRuns, InSvc, SvcWaitCheck
  <2>2. /\ CountsTyped' /\ CountsAgree'
        /\ \A t \in Threads :
             t # currentThread => unreported'[t] = unreported[t]
    <3>1. CASE completedRequests[currentThread] # 0
      BY <1>c, <1>5, <2>1, <3>1, ReportedIs DEF IInv, TypeOK, CountsTyped, StepsKnow, SvcWaitCheck
    <3>2. CASE completedRequests[currentThread] = 0
      BY <1>c, <1>5, <3>2 DEF IInv, TypeOK, CountsTyped, StepsKnow, SvcWaitCheck
    <3> QED BY <3>1, <3>2
  <2>3. /\ svc' = "svcExit" \/ svc' = "waitBlock"
        /\ svc' = "waitBlock" => completedRequests'[currentThread] = 0
        /\ mode' = "svc" /\ UNCHANGED currentThread
    BY <1>5 DEF InSvc, SvcWaitCheck, Goto
  <2>4. TypeOK' /\ ReadyListExact'
    BY <1>5, <2>2, <2>3 DEF IInv, TypeOK, CountsTyped, ReadyListExact, SvcWaitCheck, SvcSteps
  <2>5. WhoRuns' /\ BatchIsOwned'
    BY <1>5, <2>1, <2>3 DEF IInv, WhoRuns, BatchIsOwned, SvcWaitCheck
  <2>6. StepsKnow'
    BY <1>5, <2>2, <2>3 DEF IInv, StepsKnow, SvcWaitCheck
  <2>7. NoLostWakeup'
    BY <1>5, <2>1, <2>2 DEF IInv, NoLostWakeup, SvcWaitCheck
  <2> QED BY <2>4, <2>5, <2>6, <2>7 DEF IInv
<1>6. CASE SvcWaitBlock
  <2>1. ListOK'
    BY <1>6, <1>l, <1>t, SetNotReadyIs DEF IInv, WhoRuns, SvcWaitBlock, InSvc
  <2>2. /\ currentThread \in Threads /\ completedRequests[currentThread] = 0
        /\ CountAgrees(currentThread) /\ mode' = "svc" /\ svc' = "reschedule"
        /\ svc' \in SvcSteps /\ unreported[currentThread] \in 0..ReqModulus
        /\ UNCHANGED << countVars, timeslice, currentThread, irqVars, panic,
                        rescheduleNeeded, reqVars, dfcVars >>
    BY <1>c, <1>6 DEF IInv, StepsKnow, WhoRuns, CountsAgree, CountsTyped,
       SvcWaitBlock, InSvc, Goto, SvcSteps
  <2>3. \A u \in AllThreads : state'[u] =
          IF u = currentThread THEN "EWaitForRequest" ELSE state[u]
    BY <1>6, <2>2 DEF IInv, TypeOK, SvcWaitBlock, SetNotReady
  <2>4. TypeOK' /\ ReadyListExact'
    BY <2>1, <2>2 DEF IInv, TypeOK, ListOK
  <2>5. WhoRuns' /\ BatchIsOwned'
    BY <2>2, <2>3 DEF IInv, WhoRuns, BatchIsOwned
  <2>6. StepsKnow'
    BY <1>c, <2>2 DEF IInv, StepsKnow
  <2>7. NoLostWakeup'
    BY <2>2, <2>3 DEF IInv, NoLostWakeup, CountAgrees
  <2> QED BY <2>4, <2>5, <2>6, <2>7 DEF IInv
<1>7. CASE SvcGetchCheck
  BY <1>c, <1>7 DEF IInv, TypeOK, CountsTyped, ReadyListExact, WhoRuns, StepsKnow,
     NoLostWakeup, BatchIsOwned, SvcGetchCheck, InSvc, Goto, SvcSteps
<1>8. CASE SvcGetchBlock
  <2>1. ListOK'
    BY <1>8, <1>l, <1>t, SetNotReadyIs DEF IInv, WhoRuns, SvcGetchBlock, InSvc
  <2> QED
    BY <1>c, <1>8, <2>1 DEF IInv, TypeOK, CountsTyped, ListOK, WhoRuns, StepsKnow,
       NoLostWakeup, BatchIsOwned, SvcGetchBlock, SetNotReady, InSvc, Goto,
       SvcSteps
<1>9. CASE SvcGetchRegister
  BY <1>c, <1>9 DEF IInv, TypeOK, CountsTyped, ReadyListExact, WhoRuns, StepsKnow,
     NoLostWakeup, BatchIsOwned, SvcGetchRegister, InSvc, Goto, SvcSteps
<1>10. CASE SvcGetchAsync
  <2>1. CASE RequestSignal(currentThread)
    <3>1. /\ ListOK'
          /\ CountsTyped' /\ CountsAgree'
          /\ \A u \in AllThreads : u # currentThread => state'[u] = state[u]
          /\ \A u \in Threads : u # currentThread =>
               unreported'[u] = unreported[u]
          /\ \/ state'[currentThread] = state[currentThread]
             \/ state'[currentThread] = "EReady"
          /\ state'[currentThread] # "EWaitForRequest"
      BY <1>c, <1>10, <2>1, <1>l, RequestSignalIs
         DEF IInv, WhoRuns, SvcGetchAsync, InSvc
    <3>6. /\ currentThread \in Threads /\ state[currentThread] = "EReady"
          /\ UNCHANGED << currentThread, batch >>
          /\ mode' = "svc" /\ svc' = "svcExit"
      BY <1>10 DEF IInv, WhoRuns, SvcGetchAsync, InSvc, Goto
    <3>7. UNCHANGED << timeslice, irqVars, rescheduleNeeded, blockedUart,
                       timerRequest, timerArmed, dfcVars, panic >>
      BY <1>10 DEF SvcGetchAsync
    <3>2. TypeOK' /\ ReadyListExact'
      <4>1. ReadyListExact'
        BY <3>1 DEF ListOK, ReadyListExact
      <4>2. uartRequest' \in Threads \cup {None}
        BY <1>10, <3>6 DEF IInv, TypeOK, CountsTyped, SvcGetchAsync
      <4>3. /\ state' \in [AllThreads -> ThreadStates]
            /\ readyList' \in Seq(AllThreads)
            /\ svc' \in SvcSteps
        BY <3>1, <3>6 DEF ListOK, SvcSteps
      <4> QED
        BY <3>1, <3>6, <3>7, <4>1, <4>2, <4>3 DEF IInv, TypeOK, CountsTyped
    <3>3. WhoRuns' /\ BatchIsOwned'
      BY <3>1, <3>6 DEF IInv, WhoRuns, BatchIsOwned
    <3>4. StepsKnow'
      BY <1>c, <1>10, <3>1 DEF IInv, TypeOK, CountsTyped, WhoRuns, StepsKnow, SvcGetchAsync,
         InSvc, Goto, SvcSteps
    <3>5. NoLostWakeup'
      BY <1>10, <3>1 DEF IInv, TypeOK, CountsTyped, WhoRuns, NoLostWakeup, SvcGetchAsync,
         InSvc, Goto, SvcSteps
    <3> QED BY <3>2, <3>3, <3>4, <3>5 DEF IInv
  <2>2. CASE UNCHANGED << state, readyList, countVars >>
    BY <1>c, <1>10, <2>2 DEF IInv, TypeOK, CountsTyped, ReadyListExact, WhoRuns, StepsKnow,
       NoLostWakeup, BatchIsOwned, SvcGetchAsync, InSvc, Goto, SvcSteps
  <2> QED BY <1>10, <2>1, <2>2 DEF SvcGetchAsync
<1>11. CASE SvcSetTimer
  <2>1. /\ timerRequest' \in [thread : Threads \cup {None}, ptr : BOOLEAN]
        /\ timerArmed => timerRequest'.thread \in Threads
        /\ svc' = "armTimer" => timerRequest'.thread \in Threads
        /\ svc' \in {"armTimer", "svcExit"}
    <3>1. CASE timerRequest.thread \notin {None, currentThread}
      BY <1>c, <1>11, <3>1 DEF IInv, TypeOK, CountsTyped, StepsKnow, SvcSetTimer, Goto
    <3>2. CASE timerRequest.thread \in {None, currentThread}
      <4>1. /\ timerRequest' = [thread |-> currentThread, ptr |-> TRUE]
            /\ svc' = "armTimer"
            /\ currentThread \in Threads
        BY <1>11, <3>2 DEF IInv, WhoRuns, InSvc, SvcSetTimer, Goto
      <4> QED BY <4>1
    <3> QED BY <3>1, <3>2
  <2> QED
    BY <1>c, <1>11, <2>1 DEF IInv, TypeOK, CountsTyped, ReadyListExact, WhoRuns, StepsKnow,
       NoLostWakeup, BatchIsOwned, SvcSetTimer, InSvc, Goto, SvcSteps
<1>12. CASE SvcArmTimer
  <2>1. CASE /\ timerArmed' = FALSE
             /\ timerRequest' = [timerRequest EXCEPT !.ptr = FALSE]
             /\ RequestSignal(timerRequest.thread)
    <3> DEFINE t == timerRequest.thread
    <3>1. /\ ListOK'
          /\ CountsTyped' /\ CountsAgree'
          /\ \A u \in AllThreads : u # t => state'[u] = state[u]
          /\ \A u \in Threads : u # t =>
               unreported'[u] = unreported[u]
          /\ state'[t] = state[t] \/ state'[t] = "EReady"
          /\ state'[t] # "EWaitForRequest"
      BY <1>c, <1>12, <2>1, <1>l, RequestSignalIs
         DEF IInv, StepsKnow, SvcArmTimer, InSvc
    <3>2. /\ timerRequest' \in [thread : Threads \cup {None}, ptr : BOOLEAN]
          /\ timerRequest'.thread = t
      BY <2>1 DEF IInv, TypeOK
    <3>3. t \in Threads
      BY <1>c, <1>12 DEF IInv, StepsKnow, SvcArmTimer, InSvc
    <3>4. NoLostWakeup'
      BY <3>1, <3>3 DEF IInv, NoLostWakeup
    <3>5. svc' = "svcExit" /\ svc' \in SvcSteps /\ mode' = "svc"
          /\ UNCHANGED << timeslice, currentThread, irq, irqResched, panic,
                          rescheduleNeeded, blockedUart, uartRequest, batch,
                          numDfcsPending, dfcs, reserved, cutOff >>
      BY <1>12 DEF SvcArmTimer, InSvc, Goto, SvcSteps
    <3> HIDE DEF t
    <3>6. WhoRuns' /\ BatchIsOwned'
      BY <1>12, <3>1, <3>5 DEF IInv, WhoRuns, BatchIsOwned, SvcArmTimer, InSvc
    <3>7. StepsKnow'
      BY <2>1, <3>1, <3>2, <3>5 DEF IInv, StepsKnow
    <3>8. TypeOK' /\ ReadyListExact'
      BY <2>1, <3>1, <3>2, <3>5 DEF IInv, TypeOK, CountsTyped, ListOK
    <3> QED BY <3>4, <3>6, <3>7, <3>8 DEF IInv
  <2>2. CASE UNCHANGED << state, readyList, countVars, timerRequest >>
    <3>0. timerRequest.thread \in Threads /\ mode = "svc" /\ mode' = "svc"
          /\ svc' = "svcExit" /\ timerArmed' \in BOOLEAN
      BY <1>c, <1>12 DEF IInv, StepsKnow, SvcArmTimer, InSvc, Goto
    <3>5. svc' \in SvcSteps
          /\ UNCHANGED << timeslice, currentThread, irq, irqResched, panic,
                          rescheduleNeeded, blockedUart, uartRequest, dfcVars >>
      BY <1>12 DEF SvcArmTimer, InSvc, Goto, SvcSteps
    <3>1. TypeOK' /\ ReadyListExact'
      BY <2>2, <3>0, <3>5 DEF IInv, TypeOK, ReadyListExact
    <3>2. WhoRuns' /\ BatchIsOwned'
      BY <1>12, <2>2, <3>0 DEF IInv, TypeOK, CountsTyped, WhoRuns, BatchIsOwned,
         SvcArmTimer, InSvc, Goto, SvcSteps
    <3>3. StepsKnow'
      BY <1>c, <1>12, <2>2, <3>0 DEF IInv, TypeOK, CountsTyped, WhoRuns, StepsKnow, SvcArmTimer,
         InSvc, Goto, SvcSteps
    <3>4. NoLostWakeup'
      BY <1>12, <2>2, <3>0 DEF IInv, TypeOK, CountsTyped, WhoRuns, NoLostWakeup,
         SvcArmTimer, InSvc, Goto, SvcSteps
    <3> QED BY <3>1, <3>2, <3>3, <3>4 DEF IInv
  <2> QED BY <1>12, <2>1, <2>2 DEF SvcArmTimer
<1>13. CASE SvcArmTimerTaken
  BY <1>13, StopInv DEF SvcArmTimerTaken, Panics
<1>14. CASE SvcSignal
  <2>1. PICK t \in Threads : RequestSignal(t)
    BY <1>14 DEF SvcSignal
  <2>2. /\ ListOK'
        /\ CountsTyped' /\ CountsAgree'
        /\ \A u \in AllThreads : u # t => state'[u] = state[u]
        /\ \A u \in Threads : u # t =>
             unreported'[u] = unreported[u]
        /\ state'[t] = state[t] \/ state'[t] = "EReady"
        /\ state'[t] # "EWaitForRequest"
    BY <2>1, <1>l, <1>c, RequestSignalIs DEF IInv, TypeOK
  <2>3. TypeOK' /\ ReadyListExact'
    BY <1>14, <2>2 DEF IInv, TypeOK, CountsTyped, ListOK, SvcSignal, InSvc, Goto, SvcSteps
  <2>4. WhoRuns' /\ BatchIsOwned'
    BY <1>14, <2>2 DEF IInv, TypeOK, CountsTyped, ListOK, WhoRuns, BatchIsOwned, SvcSignal,
       InSvc, Goto, SvcSteps
  <2>5. StepsKnow'
    BY <1>c, <1>14, <2>2 DEF IInv, TypeOK, CountsTyped, WhoRuns, StepsKnow, SvcSignal, InSvc,
       Goto, SvcSteps
  <2>6. NoLostWakeup'
    BY <2>2 DEF IInv, NoLostWakeup
  <2> QED BY <2>3, <2>4, <2>5, <2>6 DEF IInv
<1>15. CASE SvcThreadCreate
  <2>1. CASE \E t \in Threads : StartThread(t)
    <3>1. PICK t \in Threads : StartThread(t)
      BY <2>1
    <3>2. ListOK'
      BY <3>1, <1>l, SetReadyIs DEF StartThread
    <3>3. /\ CountsTyped' /\ CountsAgree' /\ unreported'[t] = 0
          /\ \A u \in Threads : u # t => unreported'[u] = unreported[u]
      BY <3>1, <1>c, ReportedIs DEF StartThread
    <3>4. \A u \in AllThreads :
            state'[u] = IF u = t THEN "EReady" ELSE state[u]
      BY <3>1 DEF StartThread, SetReady, IInv, TypeOK
    <3>a. TypeOK' /\ ReadyListExact'
      BY <1>15, <3>2, <3>3 DEF IInv, TypeOK, CountsTyped, ReadyListExact, ListOK, SvcThreadCreate,
         InSvc, SvcSteps
    <3>b. WhoRuns' /\ BatchIsOwned'
      BY <1>15, <3>1, <3>2, <3>3, <3>4 DEF IInv, TypeOK, WhoRuns, BatchIsOwned, SvcThreadCreate,
         InSvc, SvcSteps
    <3>c. StepsKnow'
      BY <1>c, <1>15, <3>1, <3>2, <3>3, <3>4 DEF IInv, TypeOK, WhoRuns, StepsKnow, SvcThreadCreate,
         InSvc, SvcSteps
    <3>d. NoLostWakeup'
      BY <1>15, <3>1, <3>2, <3>3, <3>4 DEF IInv, TypeOK, WhoRuns, NoLostWakeup, SvcThreadCreate,
         InSvc, SvcSteps
    <3> QED BY <3>a, <3>b, <3>c, <3>d DEF IInv
  <2>2. CASE UNCHANGED << state, readyList, countVars >>
    BY <1>c, <1>15, <2>2 DEF IInv, TypeOK, CountsTyped, ReadyListExact, WhoRuns, StepsKnow,
       NoLostWakeup, BatchIsOwned, SvcThreadCreate, InSvc, SvcSteps
  <2> QED BY <1>15, <2>1, <2>2 DEF SvcThreadCreate
<1>16. CASE SvcCreateProcess
  <2>1. CASE \E t \in Threads : StartThread(t) /\ ScheduleThread(t)
    <3>1. PICK t \in Threads : StartThread(t) /\ ScheduleThread(t)
      BY <2>1
    <3>2. ListOK'
      BY <3>1, <1>l, SetReadyIs DEF StartThread
    <3>3. /\ CountsTyped' /\ CountsAgree' /\ unreported'[t] = 0
          /\ \A u \in Threads : u # t => unreported'[u] = unreported[u]
      BY <3>1, <1>c, ReportedIs DEF StartThread
    <3>4. \A u \in AllThreads :
            state'[u] = IF u = t THEN "EReady" ELSE state[u]
      BY <3>1 DEF StartThread, SetReady, IInv, TypeOK
    <3>5. /\ timeslice' \in 0..Timeslice
          /\ currentThread' \in AllThreads \cup {None}
          /\ mode' \in {"usr", "svc", "dfc", "idle"} /\ svc' \in SvcSteps
      BY <3>1 DEF ScheduleThread, SvcSteps
    <3>6. UNCHANGED << irqVars, rescheduleNeeded, reqVars, dfcVars, panic >>
      BY <1>16 DEF SvcCreateProcess
    <3>a. TypeOK' /\ ReadyListExact'
      <4>1. /\ completedRequests' \in [Threads -> 0..(ReqModulus - 1)]
            /\ unreported' \in [Threads -> 0..ReqModulus]
            /\ state' \in [AllThreads -> ThreadStates]
            /\ readyList' \in Seq(AllThreads)
            /\ ReadyListExact'
        BY <3>2, <3>3 DEF CountsTyped, ListOK
      <4>2. /\ irq' \in {"none", "slice", "uart", "checkDfcs", "return", "stopped"}
            /\ irqResched' \in BOOLEAN
            /\ rescheduleNeeded' \in BOOLEAN
            /\ panic' \in Panics
            /\ blockedUart' \in Threads \cup {None}
            /\ uartRequest' \in Threads \cup {None}
            /\ timerRequest' \in [thread : Threads \cup {None}, ptr : BOOLEAN]
            /\ timerArmed' \in BOOLEAN
        BY <3>6 DEF IInv, TypeOK
      <4>3. /\ numDfcsPending' \in 0..MaxDfcs
            /\ dfcs' \in [1..MaxDfcs -> Dfcs]
            /\ reserved' \in 0..MaxDfcs
            /\ cutOff' \in SUBSET Threads
            /\ batch' \in Seq(Dfcs)
        BY <3>6 DEF IInv, TypeOK
      <4> QED BY <4>1, <4>2, <4>3, <3>5 DEF TypeOK
    <3>b. WhoRuns' /\ BatchIsOwned'
      BY <1>16, <3>1, <3>2, <3>3, <3>4 DEF IInv, TypeOK, WhoRuns, BatchIsOwned, SvcCreateProcess,
         ScheduleThread, InSvc, SvcSteps
    <3>c. StepsKnow'
      BY <1>c, <1>16, <3>1, <3>2, <3>3, <3>4 DEF IInv, TypeOK, WhoRuns, StepsKnow, SvcCreateProcess,
         ScheduleThread, InSvc, SvcSteps
    <3>d. NoLostWakeup'
      BY <1>16, <3>1, <3>2, <3>3, <3>4 DEF IInv, TypeOK, WhoRuns, NoLostWakeup, SvcCreateProcess,
         ScheduleThread, InSvc, SvcSteps
    <3> QED BY <3>a, <3>b, <3>c, <3>d DEF IInv
  <2>2. CASE /\ Goto("svcExit")
             /\ UNCHANGED << state, readyList, countVars, timeslice >>
    BY <1>c, <1>16, <2>2 DEF IInv, TypeOK, CountsTyped, ReadyListExact, WhoRuns, StepsKnow,
       NoLostWakeup, BatchIsOwned, SvcCreateProcess, InSvc, Goto, SvcSteps
  <2> QED BY <1>16, <2>1, <2>2 DEF SvcCreateProcess
<1>17. CASE SvcThreadExit
  <2>1. ListOK'
    BY <1>17, <1>l, <1>t, SetNotReadyIs DEF IInv, WhoRuns, SvcThreadExit, InSvc
  <2> QED
    BY <1>c, <1>17, <2>1 DEF IInv, TypeOK, CountsTyped, ListOK, WhoRuns, StepsKnow,
       NoLostWakeup, BatchIsOwned, SvcThreadExit, SetNotReady, InSvc, Goto,
       SvcSteps
<1>18. CASE SvcDfcReserve
  <2>1. CASE Stop("dfcOverflow")
    BY <2>1, StopInv DEF Panics
  <2>2. CASE ~QueueFull /\ ~Stop("dfcOverflow")
    <3>0. /\ reserved' = numDfcsPending + 1
          /\ numDfcsPending' = numDfcsPending + 1
          /\ svc' = "dfcWrite" /\ mode' = "svc"
          /\ UNCHANGED << state, readyList, timeslice, countVars, currentThread,
                          irqVars, rescheduleNeeded, reqVars, dfcs, cutOff,
                          batch, panic >>
      BY <1>18, <2>2 DEF SvcDfcReserve, InSvc, Goto
    <3>1. /\ reserved' = numDfcsPending + 1 /\ numDfcsPending' = reserved'
          /\ reserved' \in 1..MaxDfcs
          /\ svc' = "dfcWrite"
      BY <2>2, <3>0 DEF IInv, TypeOK, QueueFull
    <3>2. TypeOK' /\ ReadyListExact'
      BY <3>0, <3>1, SMTT(30) DEF IInv, TypeOK, ReadyListExact, SvcSteps
    <3>3. WhoRuns' /\ BatchIsOwned'
      BY <1>18, <2>2, <3>1 DEF IInv, TypeOK, CountsTyped, WhoRuns, BatchIsOwned,
         SvcDfcReserve, InSvc, Goto, SvcSteps
    <3>4. StepsKnow'
      BY <1>c, <1>18, <2>2, <3>1 DEF IInv, TypeOK, CountsTyped, WhoRuns, StepsKnow,
         SvcDfcReserve, InSvc, Goto, SvcSteps
    <3>5. NoLostWakeup'
      BY <1>18, <2>2, <3>1 DEF IInv, TypeOK, CountsTyped, WhoRuns, NoLostWakeup,
         SvcDfcReserve, InSvc, Goto, SvcSteps
    <3> QED BY <3>2, <3>3, <3>4, <3>5 DEF IInv
  <2> QED BY <1>18, <2>1, <2>2 DEF SvcDfcReserve
<1>19. CASE SvcDfcWrite
  <2>1. [fn |-> "threadExit_dfc", thread |-> currentThread, ptr |-> FALSE]
          \in Dfcs
    BY <1>19 DEF IInv, WhoRuns, SvcDfcWrite, InSvc, Dfcs
  <2>2. dfcs' \in [1..MaxDfcs -> Dfcs]
    BY <1>19, <2>1 DEF IInv, TypeOK, CountsTyped, SvcDfcWrite
  <2>3. /\ reserved' = 0 /\ svc' = "reschedule" /\ mode' = "svc"
        /\ UNCHANGED << state, readyList, timeslice, countVars, currentThread,
                        irqVars, rescheduleNeeded, reqVars, numDfcsPending,
                        cutOff, batch, panic >>
    BY <1>19 DEF SvcDfcWrite, InSvc, Goto
  <2>a. TypeOK' /\ ReadyListExact'
    BY <2>2, <2>3, SMTT(30) DEF IInv, TypeOK, ReadyListExact, SvcSteps
  <2>b. WhoRuns' /\ BatchIsOwned'
    BY <1>19, <2>2 DEF IInv, TypeOK, WhoRuns, BatchIsOwned, SvcDfcWrite,
       InSvc, Goto, SvcSteps
  <2>c. StepsKnow'
    BY <1>c, <1>19, <2>2 DEF IInv, TypeOK, WhoRuns, StepsKnow, SvcDfcWrite,
       InSvc, Goto, SvcSteps
  <2>d. NoLostWakeup'
    BY <1>19, <2>2 DEF IInv, TypeOK, WhoRuns, NoLostWakeup, SvcDfcWrite,
       InSvc, Goto, SvcSteps
  <2> QED BY <2>a, <2>b, <2>c, <2>d DEF IInv
<1> QED
  BY <1>1, <1>2, <1>3, <1>4, <1>5, <1>6, <1>7, <1>8, <1>9, <1>10, <1>11,
     <1>12, <1>13, <1>14, <1>15, <1>16, <1>17, <1>18, <1>19 DEF Svc

\* The idle loop and the DFC thread.
LEMMA KernelThreadInv == ASSUME IInv, IdleLoop \/ DfcRun PROVE IInv'
<1> USE SchedulerAssumption DEF AllThreads, cpuVars, irqVars, reqVars, dfcVars,
                                countVars
<1>l. ListOK
  BY DEF IInv, TypeOK, ListOK
<1>c. /\ CountsTyped /\ CountsAgree
      /\ UNCHANGED countVars => CountsAgree'
  BY DEF IInv, TypeOK, StepsKnow, CountsTyped, CountsAgree, CountAgrees
<1>1. CASE IdleLoop
  <2>1. Rescheduled
    BY <1>1, RescheduleIs DEF IInv, TypeOK, CountsTyped, ReadyListExact, IdleLoop
  <2>2. TypeOK' /\ ReadyListExact'
    BY <1>1, <2>1 DEF IInv, TypeOK, ReadyListExact, IdleLoop, Rescheduled,
       SvcSteps
  <2>3. WhoRuns' /\ BatchIsOwned'
    BY <1>1, <2>1 DEF IInv, TypeOK, WhoRuns, BatchIsOwned, IdleLoop,
       Rescheduled, SvcSteps
  <2>4. StepsKnow'
    BY <1>c, <1>1, <2>1 DEF IInv, TypeOK, WhoRuns, StepsKnow, IdleLoop, Rescheduled,
       SvcSteps
  <2>5. NoLostWakeup'
    BY <1>1, <2>1 DEF IInv, TypeOK, WhoRuns, NoLostWakeup, IdleLoop,
       Rescheduled, SvcSteps
  <2> QED BY <2>2, <2>3, <2>4, <2>5 DEF IInv
<1>2. CASE DfcStep
  <2> DEFINE t == Head(batch).thread
  <2>1. /\ batch' = Tail(batch) /\ batch' \in Seq(Dfcs)
        /\ Head(batch) \in Dfcs
        /\ currentThread = DfcThread /\ state[DfcThread] = "EReady"
        /\ mode = "dfc" /\ irq = "none"
    BY <1>2 DEF DfcStep, InDfc, IInv, TypeOK, CountsTyped, WhoRuns
  <2>2. t \in Threads
    BY <1>2, <2>1 DEF DfcStep, Dfcs, NullDfc
  <2>3. /\ ListOK'
        /\ CountsTyped' /\ CountsAgree'
        /\ \A u \in AllThreads : u # t => state'[u] = state[u]
        /\ \A u \in Threads :
             u # t => unreported'[u] = unreported[u]
        /\ state'[t] # "EWaitForRequest"
    <3>1. CASE RequestSignal(t)
      BY <3>1, <1>l, <1>c, <2>2, RequestSignalIs
    <3>2. CASE SetNotReady(t, "EDead") /\ UNCHANGED countVars
                 /\ cutOff' = cutOff \ {t}
      <4>1. ListOK'
        BY <3>2, <1>l, <2>2, SetNotReadyIs DEF ThreadStates
      <4>2. CountsTyped' /\ CountsAgree'
        BY <1>c, <3>2 DEF IInv, TypeOK, CountsTyped, StepsKnow
      <4>3. \A u \in AllThreads :
              state'[u] = IF u = t THEN "EDead" ELSE state[u]
        BY <3>2 DEF SetNotReady, IInv, TypeOK
      <4> HIDE DEF t
      <4> QED BY <4>1, <4>2, <4>3, <3>2, <2>2
    <3> QED BY <1>2, <3>1, <3>2 DEF DfcStep
  <2> HIDE DEF t
  <2>4. t # DfcThread
    BY <2>2
  <2>5. TypeOK' /\ ReadyListExact'
    BY <1>2, <2>1, <2>2, <2>3, <2>4 DEF IInv, TypeOK, CountsTyped, ListOK, DfcStep
  <2>6. WhoRuns' /\ BatchIsOwned'
    BY <1>2, <2>1, <2>2, <2>3, <2>4 DEF IInv, TypeOK, CountsTyped, ListOK, WhoRuns,
       BatchIsOwned, DfcStep
  <2>7. StepsKnow'
    BY <1>c, <1>2, <2>1, <2>2, <2>3, <2>4 DEF IInv, TypeOK, CountsTyped, WhoRuns, StepsKnow,
       DfcStep
  <2>8. NoLostWakeup'
    BY <1>2, <2>1, <2>2, <2>3, <2>4 DEF IInv, TypeOK, CountsTyped, WhoRuns, NoLostWakeup,
       DfcStep
  <2> QED BY <2>5, <2>6, <2>7, <2>8 DEF IInv
<1>3. CASE DfcStepFails
  BY <1>3, StopInv DEF DfcStepFails, Panics
<1>4. CASE DfcsDone
  <2>1. /\ state[DfcThread] = "EReady" /\ batch = << >>
        /\ currentThread = DfcThread /\ irq = "none"
    BY <1>4 DEF DfcsDone, InDfc, IInv, WhoRuns
  <2>2. ListOK'
    BY <1>4, <1>l, SetNotReadyIs DEF DfcsDone, ThreadStates
  <2>3. readyList' = Dequeue(readyList, DfcThread)
        /\ state' = [state EXCEPT ![DfcThread] = "EBlockedFromSvc"]
    BY <1>4, <2>1 DEF DfcsDone, SetNotReady
  <2>4. Rescheduled
    BY <1>4, <2>2, <2>3, RescheduleIs
       DEF DfcsDone, ListOK, ReadyListExact, IInv, TypeOK
  <2> QED
    BY <1>c, <1>4, <2>1, <2>2, <2>3, <2>4 DEF IInv, TypeOK, ListOK, WhoRuns,
       StepsKnow, NoLostWakeup, BatchIsOwned, DfcsDone, Rescheduled, SvcSteps
<1> QED BY <1>1, <1>2, <1>3, <1>4 DEF DfcRun

\* Filling the slot that the count names keeps the array an array of DFCs.
LEMMA QueueDfcIs ==
  ASSUME TypeOK, ~QueueFull, NEW t \in Threads, NEW ptr \in BOOLEAN,
         QueueDfc("do_request_complete", t, ptr)
  PROVE  /\ numDfcsPending' \in 0..MaxDfcs
         /\ dfcs' \in [1..MaxDfcs -> Dfcs]
         /\ UNCHANGED << reserved, cutOff, batch >>
<1>1. [fn |-> "do_request_complete", thread |-> t, ptr |-> ptr] \in Dfcs
  BY DEF Dfcs
<1> QED BY <1>1, SchedulerAssumption DEF TypeOK, QueueFull, QueueDfc

\* The steps of the interrupt handler.
LEMMA IrqInv == ASSUME IInv, Irq PROVE IInv'
<1> USE SchedulerAssumption DEF AllThreads, cpuVars, irqVars, reqVars, dfcVars,
                                countVars
<1>l. ListOK
  BY DEF IInv, TypeOK, ListOK
<1>c. /\ CountsTyped /\ CountsAgree
      /\ UNCHANGED countVars => CountsAgree'
  BY DEF IInv, TypeOK, StepsKnow, CountsTyped, CountsAgree, CountAgrees
<1>1. CASE IrqTick
  <2>1. CASE irq' = "slice" /\ UNCHANGED << reqVars, dfcVars >>
    <3>a. TypeOK' /\ ReadyListExact'
      <4>1. /\ irq' = "slice"
            /\ UNCHANGED << state, readyList, timeslice, countVars, cpuVars,
                            irqResched, rescheduleNeeded, panic >>
        BY <1>1, <2>1 DEF IrqTick
      <4> QED BY <2>1, <4>1, SMTT(30) DEF IInv, TypeOK, ReadyListExact
    <3>b. WhoRuns' /\ BatchIsOwned'
      BY <1>1, <2>1 DEF IInv, WhoRuns, BatchIsOwned, IrqTick
    <3>c. StepsKnow'
      BY <1>c, <1>1, <2>1 DEF IInv, TypeOK, StepsKnow, IrqTick
    <3>d. NoLostWakeup'
      BY <1>1, <2>1 DEF IInv, NoLostWakeup, IrqTick
    <3> QED BY <3>a, <3>b, <3>c, <3>d DEF IInv
  <2>2. CASE /\ timerArmed /\ ~QueueFull
             /\ timerArmed' = FALSE
             /\ timerRequest' = [timerRequest EXCEPT !.ptr = FALSE]
             /\ QueueDfc("do_request_complete", timerRequest.thread,
                         timerRequest.ptr)
             /\ irq' = "slice"
             /\ UNCHANGED << blockedUart, uartRequest >>
    <3>1. timerRequest.thread \in Threads /\ timerRequest.ptr \in BOOLEAN
      BY <1>c, <2>2 DEF IInv, TypeOK, CountsTyped, StepsKnow
    <3>2. /\ numDfcsPending' \in 0..MaxDfcs
          /\ dfcs' \in [1..MaxDfcs -> Dfcs]
          /\ UNCHANGED << reserved, cutOff, batch >>
      BY <2>2, <3>1, QueueDfcIs DEF IInv
    <3>3. /\ timerRequest' \in [thread : Threads \cup {None}, ptr : BOOLEAN]
          /\ timerRequest'.thread = timerRequest.thread
      BY <2>2 DEF IInv, TypeOK
    <3>4. TypeOK' /\ ReadyListExact'
      BY <1>1, <2>2, <3>2, <3>3 DEF IInv, TypeOK, CountsTyped, ReadyListExact, IrqTick
    <3>5. WhoRuns' /\ NoLostWakeup' /\ BatchIsOwned'
      BY <1>1, <3>2 DEF IInv, WhoRuns, NoLostWakeup, BatchIsOwned, IrqTick
    <3>6. StepsKnow'
      BY <1>c, <1>1, <2>2, <3>2, <3>3 DEF IInv, StepsKnow, IrqTick
    <3> QED BY <3>4, <3>5, <3>6 DEF IInv
  <2> QED BY <1>1, <2>1, <2>2 DEF IrqTick
<1>2. CASE IrqTickOverflow
  BY <1>2, StopInv DEF IrqTickOverflow, Panics
<1>3. CASE IrqSlice
  <2>1. CASE UNCHANGED readyList
    <3>1. /\ timeslice' \in 0..Timeslice
          /\ irqResched' \in BOOLEAN
          /\ irq' \in {"uart", "checkDfcs"}
          /\ timeslice' = 0 => timeslice = 0 \/ irqResched'
          /\ irqResched => irqResched'
      <4>1. /\ irq' \in {"uart", "checkDfcs"}
            /\ timeslice \in 0..Timeslice
            /\ irqResched \in BOOLEAN
        BY <1>3 DEF IInv, TypeOK, CountsTyped, IrqSlice
      <4>2. \/ UNCHANGED << timeslice, irqResched >>
            \/ /\ timeslice > 1 /\ timeslice' = timeslice - 1
               /\ UNCHANGED irqResched
            \/ timeslice' = 0 /\ irqResched' = TRUE
            \/ UNCHANGED timeslice /\ irqResched' = TRUE
        BY <1>3 DEF IrqSlice
      <4>3. timeslice' \in 0..Timeslice
        BY <4>1, <4>2
      <4>4. timeslice' = 0 => timeslice = 0 \/ irqResched'
        BY <4>1, <4>2
      <4>5. irqResched' \in BOOLEAN /\ (irqResched => irqResched')
        BY <4>1, <4>2, Zenon
      <4> QED BY <4>1, <4>3, <4>4, <4>5
    <3>2. TypeOK' /\ ReadyListExact'
      BY <1>3, <2>1, <3>1 DEF IInv, TypeOK, CountsTyped, ReadyListExact, IrqSlice
    <3>3. WhoRuns' /\ NoLostWakeup' /\ BatchIsOwned'
      BY <1>3 DEF IInv, WhoRuns, NoLostWakeup, BatchIsOwned, IrqSlice
    <3>4. StepsKnow'
      BY <1>c, <1>3, <3>1 DEF IInv, StepsKnow, IrqSlice
    <3> QED BY <3>2, <3>3, <3>4 DEF IInv
  <2>2. CASE /\ SliceApplies /\ timeslice = 1
             /\ timeslice' = 0
             /\ readyList' = YieldInList(readyList, currentThread)
             /\ irqResched' = TRUE
    <3>1. ListOK'
      BY <1>3, <2>2, <1>l, YieldIs DEF IrqSlice, SliceApplies, IInv, TypeOK
    <3>2. UNCHANGED << state, countVars, cpuVars, rescheduleNeeded, reqVars,
                       dfcVars, panic >>
          /\ irq' \in {"uart", "checkDfcs"}
      BY <1>3 DEF IrqSlice
    <3>a. TypeOK' /\ ReadyListExact'
      BY <2>2, <3>1, <3>2, SMTT(30) DEF IInv, TypeOK, ListOK
    <3>b. WhoRuns' /\ BatchIsOwned'
      BY <1>3, <2>2, <3>1 DEF IInv, TypeOK, WhoRuns, BatchIsOwned, IrqSlice
    <3>c. StepsKnow'
      BY <1>c, <1>3, <2>2, <3>1 DEF IInv, TypeOK, WhoRuns, StepsKnow, IrqSlice
    <3>d. NoLostWakeup'
      BY <1>3, <2>2, <3>1 DEF IInv, TypeOK, WhoRuns, NoLostWakeup, IrqSlice
    <3> QED BY <3>a, <3>b, <3>c, <3>d DEF IInv
  <2> QED BY <1>3, <2>1, <2>2 DEF IrqSlice
<1>4. CASE IrqSliceFails
  BY <1>4, StopInv DEF IrqSliceFails, Panics
<1>5. CASE IrqUart
  <2>1. CASE /\ blockedUart # None /\ ~Linked(blockedUart)
             /\ SetReady(blockedUart)
             /\ blockedUart' = None
             /\ UNCHANGED << uartRequest, dfcVars >>
    <3>1. blockedUart \in Threads /\ state[blockedUart] # "EReady"
      BY <2>1 DEF IInv, TypeOK, CountsTyped, ReadyListExact, Linked
    <3>2. ListOK'
      BY <2>1, <3>1, <1>l, SetReadyIs
    <3>3. \A u \in AllThreads :
            state'[u] = IF u = blockedUart THEN "EReady" ELSE state[u]
      BY <2>1, <3>1 DEF SetReady, IInv, TypeOK
    <3>4. TypeOK' /\ ReadyListExact'
      BY <1>5, <2>1, <3>2 DEF IInv, TypeOK, CountsTyped, ListOK, IrqUart
    <3>5. WhoRuns' /\ NoLostWakeup' /\ BatchIsOwned'
      BY <1>5, <2>1, <3>3 DEF IInv, WhoRuns, NoLostWakeup, BatchIsOwned,
         IrqUart
    <3>6. StepsKnow'
      BY <1>c, <1>5, <2>1 DEF IInv, StepsKnow, IrqUart
    <3> QED BY <3>4, <3>5, <3>6 DEF IInv
  <2>2. CASE /\ blockedUart = None /\ uartRequest # None /\ ~QueueFull
             /\ uartRequest' = None
             /\ QueueDfc("do_request_complete", uartRequest, TRUE)
             /\ UNCHANGED << state, readyList, blockedUart >>
    <3>1. /\ numDfcsPending' \in 0..MaxDfcs
          /\ dfcs' \in [1..MaxDfcs -> Dfcs]
          /\ UNCHANGED << reserved, cutOff, batch >>
      BY <2>2, QueueDfcIs DEF IInv, TypeOK
    <3>a. TypeOK' /\ ReadyListExact'
      BY <1>5, <2>2, <3>1 DEF IInv, TypeOK, ReadyListExact, ListOK, IrqUart
    <3>b. WhoRuns' /\ BatchIsOwned'
      BY <1>5, <2>2, <3>1 DEF IInv, TypeOK, WhoRuns, BatchIsOwned, IrqUart
    <3>c. StepsKnow'
      BY <1>c, <1>5, <2>2, <3>1 DEF IInv, TypeOK, WhoRuns, StepsKnow, IrqUart
    <3>d. NoLostWakeup'
      BY <1>5, <2>2, <3>1 DEF IInv, TypeOK, WhoRuns, NoLostWakeup, IrqUart
    <3> QED BY <3>a, <3>b, <3>c, <3>d DEF IInv
  <2>3. CASE UNCHANGED << state, readyList, blockedUart, uartRequest, dfcVars >>
    <3>a. TypeOK' /\ ReadyListExact'
      BY <1>5, <2>3 DEF IInv, TypeOK, ReadyListExact, IrqUart
    <3>b. WhoRuns' /\ BatchIsOwned'
      BY <1>5, <2>3 DEF IInv, WhoRuns, BatchIsOwned, IrqUart
    <3>c. StepsKnow'
      BY <1>c, <1>5, <2>3 DEF IInv, TypeOK, StepsKnow, IrqUart
    <3>d. NoLostWakeup'
      BY <1>5, <2>3 DEF IInv, NoLostWakeup, IrqUart
    <3> QED BY <3>a, <3>b, <3>c, <3>d DEF IInv
  <2> QED BY <1>5, <2>1, <2>2, <2>3 DEF IrqUart
<1>6. CASE IrqUartFails
  BY <1>6, StopInv DEF IrqUartFails, Panics
<1>7. CASE IrqCheckDfcs
  <2>1. CASE state[DfcThread] = "EReady" \/ numDfcsPending = 0
    <3>a. TypeOK' /\ ReadyListExact'
      BY <1>7, <2>1 DEF IInv, TypeOK, ReadyListExact, ListOK, IrqCheckDfcs
    <3>b. WhoRuns' /\ BatchIsOwned'
      BY <1>7, <2>1 DEF IInv, TypeOK, WhoRuns, BatchIsOwned, IrqCheckDfcs
    <3>c. StepsKnow'
      BY <1>c, <1>7, <2>1 DEF IInv, TypeOK, WhoRuns, StepsKnow, IrqCheckDfcs
    <3>d. NoLostWakeup'
      BY <1>7, <2>1 DEF IInv, TypeOK, WhoRuns, NoLostWakeup, IrqCheckDfcs
    <3> QED BY <3>a, <3>b, <3>c, <3>d DEF IInv
  <2>2. CASE ~(state[DfcThread] = "EReady" \/ numDfcsPending = 0)
    <3>1. /\ SetReady(DfcThread) /\ state[DfcThread] # "EReady"
          /\ numDfcsPending' = 0 /\ irqResched' = TRUE /\ irq' = "return"
          /\ batch' = SubSeq(dfcs, 1, numDfcsPending)
      BY <1>7, <2>2 DEF IrqCheckDfcs
    <3>2. batch' \in Seq(Dfcs)
      BY <3>1 DEF IInv, TypeOK
    <3>3. ListOK'
      BY <3>1, <1>l, SetReadyIs
    <3>4. \A u \in AllThreads :
            state'[u] = IF u = DfcThread THEN "EReady" ELSE state[u]
      BY <3>1 DEF SetReady, IInv, TypeOK
    <3>8. cutOff' \in SUBSET Threads
      <4>1. HalfQueued \in SUBSET Threads
        BY DEF IInv, WhoRuns, StepsKnow, HalfQueued
      <4>2. cutOff' = cutOff \cup HalfQueued /\ cutOff \in SUBSET Threads
        BY <1>7, <2>2 DEF IrqCheckDfcs, IInv, TypeOK
      <4> QED BY <4>1, <4>2, Zenon
    <3>9. UNCHANGED << timeslice, countVars, cpuVars, rescheduleNeeded,
                       reqVars, dfcs, reserved, panic >>
      BY <1>7 DEF IrqCheckDfcs
    <3>5. TypeOK' /\ ReadyListExact'
      BY <3>1, <3>2, <3>3, <3>8, <3>9, SMTT(30) DEF IInv, TypeOK, ListOK
    <3>6. WhoRuns' /\ NoLostWakeup' /\ BatchIsOwned'
      BY <1>7, <3>4 DEF IInv, WhoRuns, NoLostWakeup, BatchIsOwned,
         IrqCheckDfcs
    <3>7. StepsKnow'
      BY <1>c, <1>7, <3>1 DEF IInv, StepsKnow, IrqCheckDfcs
    <3> QED BY <3>5, <3>6, <3>7 DEF IInv
  <2> QED BY <2>1, <2>2
<1>8. CASE IrqReturn
  <2>1. CASE irqResched /\ mode = "usr"
    <3>1. Rescheduled
      BY <1>8, <2>1, RescheduleIs DEF IInv, TypeOK, ReadyListExact, IrqReturn
    <3>2. TypeOK' /\ ReadyListExact'
      BY <1>8, <2>1, <3>1 DEF IInv, TypeOK, ReadyListExact, IrqReturn,
         Rescheduled, SvcSteps
    <3>3. WhoRuns' /\ NoLostWakeup' /\ BatchIsOwned'
      BY <1>8, <3>1 DEF IInv, WhoRuns, NoLostWakeup, BatchIsOwned, IrqReturn,
         Rescheduled
    <3>4. StepsKnow'
      BY <1>c, <1>8, <3>1 DEF IInv, StepsKnow, IrqReturn, Rescheduled
    <3> QED BY <3>2, <3>3, <3>4 DEF IInv
  <2>2. CASE ~(irqResched /\ mode = "usr")
    <3>1. /\ rescheduleNeeded' = (rescheduleNeeded \/ irqResched)
          /\ UNCHANGED << timeslice, cpuVars >>
      BY <1>8, <2>2 DEF IrqReturn
    <3>2. TypeOK' /\ ReadyListExact'
      BY <1>8, <3>1 DEF IInv, TypeOK, CountsTyped, ReadyListExact, IrqReturn
    <3>3. WhoRuns' /\ NoLostWakeup' /\ BatchIsOwned'
      BY <1>8, <3>1 DEF IInv, WhoRuns, NoLostWakeup, BatchIsOwned, IrqReturn
    <3>4. StepsKnow'
      BY <1>c, <1>8, <3>1 DEF IInv, StepsKnow, IrqReturn
    <3> QED BY <3>2, <3>3, <3>4 DEF IInv
  <2> QED BY <2>1, <2>2
<1> QED
  BY <1>1, <1>2, <1>3, <1>4, <1>5, <1>6, <1>7, <1>8 DEF Irq

\* Every step of user code, SVCs, DFCs and interrupts keeps the invariant.
LEMMA StepInv == IInv /\ [Next]_vars => IInv'
<1> SUFFICES ASSUME IInv, [Next]_vars PROVE IInv'
  OBVIOUS
<1>1. CASE Next
  BY <1>1, SvcInv, KernelThreadInv, IrqInv DEF Next
<1>2. CASE UNCHANGED vars
  BY <1>2 DEF vars, countVars, cpuVars, irqVars, reqVars, dfcVars, IInv, TypeOK,
     ReadyListExact, WhoRuns, StepsKnow, NoLostWakeup, BatchIsOwned,
     CountsAgree, CountAgrees
<1> QED BY <1>1, <1>2

-----------------------------------------------------------------------------
\* The inductive invariant holds in every reachable state.
THEOREM Invariant == Spec => []IInv
BY InitInv, StepInv, PTL DEF Spec

\* Every variable keeps its type: no slot number, count or timeslice leaves
\* its range, whichever interrupts hit which SVC (k/scheduler_arm.c, k/svc.c).
THEOREM TypeCorrect == Spec => []TypeOK
<1>1. IInv => TypeOK
  BY DEF IInv
<1> QED BY <1>1, Invariant, PTL

\* The ready list holds the ready threads, each once, and no others
\* (thread_setState, thread_yield and their callers).
THEOREM ListCorrect == Spec => []ReadyListExact
<1>1. IInv => ReadyListExact
  BY DEF IInv
<1> QED BY <1>1, Invariant, PTL

\* No thread sleeps on requests it was never told of, up to ReqModulus of them:
\* the check and the block of KExecWaitForAnyRequest cannot be parted by a
\* completion, since requests complete in SVCs and DFCs and no interrupt
\* handler signals a thread, and the count is right until its byte is full.
THEOREM WakeupsAreNotLost == Spec => []NoLostWakeup
<1>1. IInv => NoLostWakeup
  BY DEF IInv
<1> QED BY <1>1, Invariant, PTL

\* User code runs in a ready thread only (reschedule, handleIrq, handleSvc).
THEOREM RunnerIsReady == Spec => []WhoRuns
<1>1. IInv => WhoRuns
  BY DEF IInv
<1> QED BY <1>1, Invariant, PTL

\* A used-up timeslice leaves a reschedule on order (tick, handleIrq).
THEOREM ExpiryReschedules == Spec => []ExpiredSliceHasReschedule
<1>1. IInv => ExpiredSliceHasReschedule
  BY DEF IInv, StepsKnow, ExpiredSliceHasReschedule
<1> QED BY <1>1, Invariant, PTL

\* A batch of DFCs handed to the DFC thread is not overwritten by the next
\* (irq_checkDfcs, dfcs_run).
THEOREM BatchIsSafe == Spec => []BatchIsOwned
<1>1. IInv => BatchIsOwned
  BY DEF IInv
<1> QED BY <1>1, Invariant, PTL

\* No thread preempts another one's SVC, nor the DFC thread (handleIrq).
THEOREM SvcsAreNotPreempted == Spec => SvcNotPreempted
<1> DEFINE Allowed == \/ mode \notin {"svc", "dfc"}
                      \/ UNCHANGED currentThread
                      \/ svc \in {"svcExit", "reschedule", "createProcess"}
                      \/ InDfc /\ batch = << >>
<1>1. ASSUME IInv, Next PROVE Allowed
  <2> USE DEF cpuVars, InSvc
  <2>1. CASE UserSvc
    BY <2>1 DEF UserSvc, SvcEntry
  <2>2. CASE Svc
    BY <2>2 DEF Svc, SvcExit, SvcReschedule, SvcYield, SvcWaitCheck,
       SvcWaitBlock, SvcGetchCheck, SvcGetchBlock, SvcGetchRegister,
       SvcGetchAsync, SvcSetTimer, SvcArmTimer, SvcArmTimerTaken, SvcSignal,
       SvcThreadCreate, SvcCreateProcess, SvcThreadExit, SvcDfcReserve,
       SvcDfcWrite, Goto, Stop
  <2>3. CASE IdleLoop
    BY <2>3 DEF IdleLoop
  <2>4. CASE DfcRun
    BY <2>4 DEF DfcRun, DfcStep, DfcStepFails, DfcsDone, Stop
  <2>5. CASE Irq
    BY <2>5 DEF Irq, IrqTick, IrqTickOverflow, IrqSlice, IrqSliceFails,
       IrqUart, IrqUartFails, IrqCheckDfcs, IrqReturn, Stop
  <2> QED BY <1>1, <2>1, <2>2, <2>3, <2>4, <2>5 DEF Next
<1>2. IInv /\ [Next]_vars => [Allowed]_vars
  BY <1>1
<1> QED BY <1>2, Invariant, PTL DEF Spec, SvcNotPreempted
-----------------------------------------------------------------------------
(* Clean-ups of threads.                                                   *)

\* A pending clean-up is not in the slot that a dfc_queue in progress is about
\* to fill, so it will not be written over.
CleanUpQueued(t) ==
  \E i \in 1..numDfcsPending :
    dfcs[i] = CleanUpOf(t) /\ (svc = "dfcWrite" => i # reserved)
CleanUpComes(t) ==
  \/ currentThread = t /\ svc \in {"dfcReserve", "dfcWrite"}
  \/ CleanUpQueued(t)
  \/ Contains(batch, CleanUpOf(t))

\* The slot about to be filled is pending, unless it was copied too early.
SlotIsPending ==
  svc = "dfcWrite" => reserved <= numDfcsPending \/ currentThread \in cutOff

CleanUpsKnow ==
  /\ SlotIsPending
  /\ \A t \in Threads \ cutOff : state[t] = "EDying" => CleanUpComes(t)

\* What leaves the DFCs alone, and lets nobody die.
LEMMA CleanUpsStay ==
  ASSUME CleanUpsKnow, UNCHANGED dfcVars,
         \A t \in Threads : state'[t] = "EDying" => state[t] = "EDying",
         \/ UNCHANGED << svc, currentThread >>
         \/ {svc, svc'} \cap {"dfcReserve", "dfcWrite"} = {}
  PROVE  CleanUpsKnow'
<1>1. SlotIsPending'
  BY DEF CleanUpsKnow, SlotIsPending, dfcVars
<1>2. ASSUME NEW t \in Threads, t \notin cutOff', state'[t] = "EDying"
      PROVE  CleanUpComes(t)'
  <2>1. CleanUpComes(t) /\ UNCHANGED dfcVars
    BY <1>2 DEF CleanUpsKnow, dfcVars
  <2>2. CleanUpQueued(t) => CleanUpQueued(t)'
    BY DEF CleanUpQueued, CleanUpOf, dfcVars
  <2>3. Contains(batch, CleanUpOf(t)) => Contains(batch', CleanUpOf(t))
    BY DEF dfcVars
  <2> QED BY <2>1, <2>2, <2>3 DEF CleanUpComes, CleanUpOf
<1> QED BY <1>1, <1>2 DEF CleanUpsKnow

\* A DFC queued by the interrupt handler takes a slot of its own.
LEMMA CleanUpsQueue ==
  ASSUME TypeOK, CleanUpsKnow, ~QueueFull, NEW u \in Threads, NEW ptr,
         QueueDfc("do_request_complete", u, ptr),
         UNCHANGED << state, svc, currentThread >>
  PROVE  CleanUpsKnow'
<1>1. /\ numDfcsPending \in Nat /\ reserved \in Nat
      /\ numDfcsPending + 1 \in 1..MaxDfcs
      /\ dfcs \in [1..MaxDfcs -> Dfcs]
  BY SchedulerAssumption DEF TypeOK, QueueFull
<1>2. /\ numDfcsPending' = numDfcsPending + 1
      /\ \A i \in 1..numDfcsPending : dfcs'[i] = dfcs[i]
      /\ UNCHANGED << reserved, cutOff, batch >>
  BY <1>1 DEF QueueDfc
<1>3. SlotIsPending'
  BY <1>1, <1>2 DEF CleanUpsKnow, SlotIsPending
<1>4. ASSUME NEW t \in Threads, t \notin cutOff', state'[t] = "EDying"
      PROVE  CleanUpComes(t)'
  <2>1. CleanUpComes(t)
    BY <1>2, <1>4 DEF CleanUpsKnow
  <2>2. CleanUpQueued(t) => CleanUpQueued(t)'
    BY <1>1, <1>2 DEF CleanUpQueued, CleanUpOf
  <2> QED BY <1>2, <2>1, <2>2 DEF CleanUpComes, CleanUpOf
<1> QED BY <1>3, <1>4 DEF CleanUpsKnow

\* The last act of an SVC that is not thread_exit: it leaves the DFCs alone.
LEMMA SvcCleanUps ==
  ASSUME IInv, CleanUpsKnow, UserSvc \/ Svc
  PROVE  CleanUpsKnow'
<1> USE DEF InSvc, Goto, cpuVars
<1>l. ListOK /\ CountsTyped /\ CountsAgree
  BY DEF IInv, TypeOK, StepsKnow, ListOK, CountsTyped
<1>s. ASSUME NEW t \in Threads, RequestSignal(t)
      PROVE  \A u \in Threads : state'[u] = "EDying" => state[u] = "EDying"
  BY <1>s, <1>l, RequestSignalIs DEF AllThreads
<1>n. ASSUME NEW t \in Threads, NEW v, v # "EDying", SetNotReady(t, v)
      PROVE  \A u \in Threads : state'[u] = "EDying" => state[u] = "EDying"
  BY <1>n, <1>l DEF SetNotReady, ListOK, AllThreads
<1>r. ASSUME NEW t \in Threads, StartThread(t)
      PROVE  \A u \in Threads : state'[u] = "EDying" => state[u] = "EDying"
  BY <1>r, <1>l DEF StartThread, SetReady, ListOK, AllThreads
<1>w. mode = "svc" /\ svc # "svcExit" => currentThread \in Threads
  BY DEF IInv, WhoRuns
<1>1. CASE UserSvc
  <2>1. PICK step \in Svcs : SvcEntry(step)
    BY <1>1 DEF UserSvc
  <2>2. svc = "none" /\ svc' = step /\ step \notin {"dfcReserve", "dfcWrite"}
    BY <2>1, SchedulerAssumption DEF SvcEntry, IInv, StepsKnow
  <2> QED BY <2>1, <2>2, CleanUpsStay DEF SvcEntry
<1>2. CASE SvcExit \/ SvcReschedule \/ SvcYield \/ SvcGetchCheck
           \/ SvcGetchRegister \/ SvcSetTimer \/ SvcWaitCheck
  <2>1. /\ UNCHANGED dfcVars /\ UNCHANGED state
        /\ {svc, svc'} \cap {"dfcReserve", "dfcWrite"} = {}
    BY <1>2 DEF SvcExit, SvcReschedule, SvcYield, SvcGetchCheck,
       SvcGetchRegister, SvcSetTimer, SvcWaitCheck, Reschedule, ScheduleThread
  <2> QED BY <2>1, CleanUpsStay
<1>3. CASE SvcWaitBlock \/ SvcGetchBlock
  <2>1. /\ UNCHANGED dfcVars
        /\ {svc, svc'} \cap {"dfcReserve", "dfcWrite"} = {}
        /\ \E v : v # "EDying" /\ SetNotReady(currentThread, v)
        /\ currentThread \in Threads
    BY <1>3, <1>w DEF SvcWaitBlock, SvcGetchBlock
  <2> QED BY <2>1, <1>n, CleanUpsStay
<1>4. CASE SvcGetchAsync \/ SvcArmTimer \/ SvcSignal
  <2>1. /\ UNCHANGED dfcVars
        /\ {svc, svc'} \cap {"dfcReserve", "dfcWrite"} = {}
        /\ UNCHANGED state \/ \E t \in Threads : RequestSignal(t)
    BY <1>4, <1>w DEF SvcGetchAsync, SvcArmTimer, SvcSignal, IInv, StepsKnow
  <2> QED BY <2>1, <1>s, CleanUpsStay
<1>5. CASE SvcThreadCreate \/ SvcCreateProcess
  <2>1. /\ UNCHANGED dfcVars
        /\ {svc, svc'} \cap {"dfcReserve", "dfcWrite"} = {}
        /\ UNCHANGED state \/ \E t \in Threads : StartThread(t)
    BY <1>5 DEF SvcThreadCreate, SvcCreateProcess, ScheduleThread
  <2> QED BY <2>1, <1>r, CleanUpsStay
<1>6. CASE SvcArmTimerTaken
  BY <1>6, CleanUpsStay DEF SvcArmTimerTaken, Stop
<1>7. CASE SvcThreadExit
  <2>1. /\ SetNotReady(currentThread, "EDying")
        /\ svc = "threadExit" /\ svc' = "dfcReserve"
        /\ currentThread \in Threads
        /\ cutOff' = cutOff \ {currentThread}
        /\ UNCHANGED << currentThread, numDfcsPending, dfcs, reserved, batch >>
    BY <1>7, <1>w DEF SvcThreadExit
  <2>2. ASSUME NEW t \in Threads, t \notin cutOff', state'[t] = "EDying",
               t # currentThread
        PROVE  CleanUpComes(t)'
    <3>1. state[t] = "EDying" /\ t \notin cutOff
      BY <2>1, <2>2, <1>l DEF SetNotReady, ListOK, AllThreads
    <3>2. CleanUpComes(t)
      BY <3>1 DEF CleanUpsKnow
    <3>3. CleanUpQueued(t) => CleanUpQueued(t)'
      BY <2>1 DEF CleanUpQueued, CleanUpOf
    <3> QED BY <2>1, <2>2, <3>2, <3>3 DEF CleanUpComes, CleanUpOf
  <2>3. CleanUpComes(currentThread)'
    BY <2>1 DEF CleanUpComes
  <2> QED BY <2>1, <2>2, <2>3 DEF CleanUpsKnow, SlotIsPending
<1>8. CASE SvcDfcReserve
  <2>1. CASE Stop("dfcOverflow")
    BY <2>1, CleanUpsStay DEF Stop
  <2>2. CASE ~Stop("dfcOverflow")
    <3>1. /\ numDfcsPending' = numDfcsPending + 1
          /\ reserved' = numDfcsPending + 1
          /\ svc = "dfcReserve" /\ svc' = "dfcWrite"
          /\ UNCHANGED << state, currentThread, dfcs, cutOff, batch >>
          /\ numDfcsPending \in Nat
      BY <1>8, <2>2, SchedulerAssumption DEF SvcDfcReserve, IInv, TypeOK
    <3>2. ASSUME NEW t \in Threads, t \notin cutOff', state'[t] = "EDying"
          PROVE  CleanUpComes(t)'
      <4>1. CleanUpComes(t)
        BY <3>1, <3>2 DEF CleanUpsKnow
      <4>2. CleanUpQueued(t) => CleanUpQueued(t)'
        BY <3>1 DEF CleanUpQueued, CleanUpOf
      <4> QED BY <3>1, <4>1, <4>2 DEF CleanUpComes, CleanUpOf
    <3>3. SlotIsPending'
      BY <3>1 DEF SlotIsPending
    <3> QED BY <3>2, <3>3 DEF CleanUpsKnow
  <2> QED BY <2>1, <2>2
<1>9. CASE SvcDfcWrite
  <2>1. /\ dfcs' = [dfcs EXCEPT ![reserved] = CleanUpOf(currentThread)]
        /\ svc = "dfcWrite" /\ svc' = "reschedule"
        /\ reserved \in 1..MaxDfcs /\ numDfcsPending \in 0..MaxDfcs
        /\ UNCHANGED << state, currentThread, numDfcsPending, cutOff, batch >>
        /\ dfcs \in [1..MaxDfcs -> Dfcs]
    BY <1>9 DEF SvcDfcWrite, CleanUpOf, IInv, TypeOK, StepsKnow
  <2>2. ASSUME NEW t \in Threads, t \notin cutOff', state'[t] = "EDying"
        PROVE  CleanUpComes(t)'
    <3>1. CleanUpComes(t) /\ (t = currentThread => reserved <= numDfcsPending)
      BY <2>1, <2>2 DEF CleanUpsKnow, SlotIsPending
    <3>2. CASE t = currentThread
      <4>1. reserved \in 1..numDfcsPending' /\ dfcs'[reserved] = CleanUpOf(t)
        BY <2>1, <3>1, <3>2, SchedulerAssumption
      <4>2. CleanUpQueued(t)'
        BY <2>1, <4>1 DEF CleanUpQueued, CleanUpOf
      <4> QED BY <4>2 DEF CleanUpComes
    <3>3. CASE CleanUpQueued(t)
      <4>1. PICK i \in 1..numDfcsPending :
              dfcs[i] = CleanUpOf(t) /\ i # reserved
        BY <2>1, <3>3 DEF CleanUpQueued
      <4>2. dfcs'[i] = CleanUpOf(t)
        BY <2>1, <4>1, SchedulerAssumption
      <4>3. CleanUpQueued(t)'
        BY <2>1, <4>1, <4>2 DEF CleanUpQueued, CleanUpOf
      <4> QED BY <4>3 DEF CleanUpComes
    <3>4. CASE Contains(batch, CleanUpOf(t))
      BY <2>1, <3>4 DEF CleanUpComes, CleanUpOf
    <3> QED BY <3>1, <3>2, <3>3, <3>4 DEF CleanUpComes
  <2> QED BY <2>1, <2>2 DEF CleanUpsKnow, SlotIsPending
<1> QED
  BY <1>1, <1>2, <1>3, <1>4, <1>5, <1>6, <1>7, <1>8, <1>9 DEF Svc

\* The DFC thread: a clean-up leaves the batch only when it is done.
LEMMA DfcCleanUps ==
  ASSUME IInv, CleanUpsKnow, IdleLoop \/ DfcRun
  PROVE  CleanUpsKnow'
<1>l. ListOK /\ CountsTyped /\ CountsAgree
  BY DEF IInv, TypeOK, StepsKnow, ListOK, CountsTyped
<1>k. mode # "svc" => svc = "none"
  BY DEF IInv, StepsKnow
<1>1. CASE IdleLoop
  BY <1>1, <1>k, CleanUpsStay DEF IdleLoop, Reschedule, ScheduleThread
<1>2. CASE DfcStepFails
  BY <1>2, CleanUpsStay DEF DfcStepFails, Stop
<1>3. CASE DfcsDone
  <2>1. \A u \in Threads : state'[u] = "EDying" => state[u] = "EDying"
    BY <1>3, <1>l DEF DfcsDone, SetNotReady, ListOK, AllThreads
  <2>2. /\ UNCHANGED dfcVars
        /\ {svc, svc'} \cap {"dfcReserve", "dfcWrite"} = {}
    BY <1>3, <1>k DEF DfcsDone, InDfc, Reschedule, ScheduleThread
  <2> QED BY <2>1, <2>2, CleanUpsStay
<1>4. CASE DfcStep
  <2> DEFINE d == Head(batch)
  <2>1. /\ batch # << >> /\ batch' = Tail(batch) /\ batch \in Seq(Dfcs)
        /\ d \in Dfcs /\ svc = "none" /\ svc' = "none"
        /\ UNCHANGED << currentThread, numDfcsPending, dfcs, reserved >>
    BY <1>4, <1>k DEF DfcStep, InDfc, IInv, TypeOK, cpuVars
  <2>2. d.thread \in Threads
    BY <1>4, <2>1 DEF DfcStep, Dfcs, NullDfc
  <2>3. /\ \A u \in Threads : state'[u] = "EDying" => state[u] = "EDying"
        /\ \A u \in Threads : u \notin cutOff' /\ state'[u] = "EDying" =>
             u \notin cutOff
        /\ d.fn = "threadExit_dfc" => state'[d.thread] # "EDying"
    <3>1. CASE RequestSignal(d.thread) /\ d.fn = "do_request_complete"
               /\ UNCHANGED cutOff
      BY <3>1, <2>2, <1>l, RequestSignalIs DEF AllThreads
    <3>2. CASE /\ SetNotReady(d.thread, "EDead")
               /\ cutOff' = cutOff \ {d.thread}
      BY <3>2, <2>2, <1>l DEF SetNotReady, ListOK, AllThreads
    <3> QED BY <1>4, <3>1, <3>2 DEF DfcStep
  <2>4. ASSUME NEW t \in Threads, t \notin cutOff', state'[t] = "EDying"
        PROVE  CleanUpComes(t)'
    <3>1. CleanUpComes(t)
      BY <2>3, <2>4 DEF CleanUpsKnow
    <3>2. d # CleanUpOf(t)
      BY <2>3, <2>4 DEF CleanUpOf
    <3>3. Contains(batch, CleanUpOf(t)) => Contains(batch', CleanUpOf(t))
      <4> SUFFICES ASSUME Contains(batch, CleanUpOf(t))
                   PROVE  Contains(batch', CleanUpOf(t))
        OBVIOUS
      <4>1. PICK i \in 1..Len(batch) : batch[i] = CleanUpOf(t)
        BY DEF Contains
      <4>2. i # 1
        BY <2>1, <3>2, <4>1
      <4>3. i - 1 \in 1..Len(batch') /\ batch'[i - 1] = CleanUpOf(t)
        BY <2>1, <4>1, <4>2
      <4> QED BY <4>3 DEF Contains
    <3>4. CleanUpQueued(t) => CleanUpQueued(t)'
      BY <2>1 DEF CleanUpQueued, CleanUpOf
    <3> QED BY <2>1, <3>1, <3>3, <3>4 DEF CleanUpComes, CleanUpOf
  <2> QED BY <2>1, <2>4 DEF CleanUpsKnow, SlotIsPending
<1> QED BY <1>1, <1>2, <1>3, <1>4 DEF DfcRun

\* The interrupt handler: what it hands to the DFC thread is what was pending.
LEMMA IrqCleanUps ==
  ASSUME IInv, CleanUpsKnow, Irq
  PROVE  CleanUpsKnow'
<1>l. ListOK
  BY DEF IInv, TypeOK, ListOK
<1>1. CASE IrqTick
  <2>1. CASE UNCHANGED dfcVars
    BY <1>1, <2>1, CleanUpsStay DEF IrqTick, cpuVars
  <2>2. CASE ~UNCHANGED dfcVars
    <3>1. /\ ~QueueFull /\ timerRequest.thread \in Threads
          /\ QueueDfc("do_request_complete", timerRequest.thread,
                      timerRequest.ptr)
          /\ UNCHANGED << state, svc, currentThread >>
      BY <1>1, <2>2 DEF IrqTick, cpuVars, IInv, StepsKnow
    <3> QED BY <3>1, CleanUpsQueue DEF IInv
  <2> QED BY <2>1, <2>2
<1>2. CASE IrqTickOverflow \/ IrqSliceFails \/ IrqUartFails
  BY <1>2, CleanUpsStay DEF IrqTickOverflow, IrqSliceFails, IrqUartFails, Stop,
     cpuVars
<1>3. CASE IrqSlice
  BY <1>3, CleanUpsStay DEF IrqSlice, cpuVars
<1>4. CASE IrqUart
  <2>1. CASE UNCHANGED dfcVars
    <3>1. \A u \in Threads : state'[u] = "EDying" => state[u] = "EDying"
      BY <1>4, <1>l DEF IrqUart, SetReady, ListOK, AllThreads, IInv, TypeOK
    <3> QED BY <1>4, <2>1, <3>1, CleanUpsStay DEF IrqUart, cpuVars
  <2>2. CASE ~UNCHANGED dfcVars
    <3>1. /\ ~QueueFull /\ uartRequest \in Threads
          /\ QueueDfc("do_request_complete", uartRequest, TRUE)
          /\ UNCHANGED << state, svc, currentThread >>
      BY <1>4, <2>2 DEF IrqUart, cpuVars, IInv, TypeOK
    <3> QED BY <3>1, CleanUpsQueue DEF IInv
  <2> QED BY <2>1, <2>2
<1>5. CASE IrqCheckDfcs
  <2>1. CASE state[DfcThread] = "EReady" \/ numDfcsPending = 0
    BY <1>5, <2>1, CleanUpsStay DEF IrqCheckDfcs, cpuVars, dfcVars
  <2>2. CASE state[DfcThread] # "EReady" /\ numDfcsPending # 0
    <3>1. /\ SetReady(DfcThread) /\ numDfcsPending' = 0
          /\ cutOff' = cutOff \cup HalfQueued
          /\ batch' = SubSeq(dfcs, 1, numDfcsPending)
          /\ UNCHANGED << svc, currentThread, dfcs, reserved >>
      BY <1>5, <2>2 DEF IrqCheckDfcs, cpuVars
    <3>2. batch = << >>
      BY <2>2 DEF IInv, BatchIsOwned
    <3>3. /\ numDfcsPending \in 0..MaxDfcs /\ dfcs \in [1..MaxDfcs -> Dfcs]
      BY DEF IInv, TypeOK
    <3>4. \A t \in Threads : state'[t] = state[t]
      BY <3>1, <1>l, SchedulerAssumption DEF SetReady, ListOK, AllThreads
    <3>5. SlotIsPending'
      BY <3>1 DEF CleanUpsKnow, SlotIsPending, HalfQueued
    <3>6. ASSUME NEW t \in Threads, t \notin cutOff', state'[t] = "EDying"
          PROVE  CleanUpComes(t)'
      <4>1. CleanUpComes(t)
        BY <3>1, <3>4, <3>6 DEF CleanUpsKnow
      <4>2. ~Contains(batch, CleanUpOf(t))
        BY <3>2 DEF Contains
      <4>3. CASE CleanUpQueued(t)
        <5>1. PICK i \in 1..numDfcsPending : dfcs[i] = CleanUpOf(t)
          BY <4>3 DEF CleanUpQueued
        <5>2. i \in 1..Len(batch') /\ batch'[i] = CleanUpOf(t)
          BY <3>1, <3>3, <5>1, SchedulerAssumption
        <5>3. Contains(batch', CleanUpOf(t))
          BY <5>2 DEF Contains
        <5> QED BY <5>3 DEF CleanUpComes, CleanUpOf
      <4> QED BY <3>1, <4>1, <4>2, <4>3 DEF CleanUpComes
    <3> QED BY <3>5, <3>6 DEF CleanUpsKnow
  <2> QED BY <2>1, <2>2
<1>6. CASE IrqReturn
  BY <1>6, CleanUpsStay
     DEF IrqReturn, Reschedule, ScheduleThread, cpuVars, IInv, StepsKnow
<1> QED BY <1>1, <1>2, <1>3, <1>4, <1>5, <1>6 DEF Irq

\* A thread that exits is cleaned up after the next interrupt, unless that
\* interrupt copied its slot before thread_exit had filled it (dfc_queue,
\* irq_checkDfcs, dfcs_run).
THEOREM ExitsAreCleanedUp == Spec => []DyingIsCleanedUp
<1>1. Init => CleanUpsKnow
  BY DEF Init, CleanUpsKnow, SlotIsPending, AllThreads
<1>2. IInv /\ CleanUpsKnow /\ [Next]_vars => CleanUpsKnow'
  <2> SUFFICES ASSUME IInv, CleanUpsKnow, [Next]_vars PROVE CleanUpsKnow'
    OBVIOUS
  <2>1. CASE Next
    BY <2>1, SvcCleanUps, DfcCleanUps, IrqCleanUps DEF Next
  <2>2. CASE UNCHANGED vars
    BY <2>2, CleanUpsStay DEF vars, cpuVars
  <2> QED BY <2>1, <2>2
<1>3. CleanUpsKnow => DyingIsCleanedUp
  BY DEF CleanUpsKnow, CleanUpComes, CleanUpQueued, DyingIsCleanedUp
<1> QED BY <1>1, <1>2, <1>3, Invariant, PTL DEF Spec
=============================================================================
