------------------------ MODULE SchedulerV7MProofs ------------------------
(***************************************************************************)
(* Theorems about SchedulerV7M, for any number of threads and any sizes:   *)
(* its three invariants.  The inductive invariant IInv adds what the steps *)
(* of an SVC and of PendSV rely on (SvcKnows, PendSvKnows), which threads  *)
(* the DFCs for exits are about (ExitsKnow) and where the DFC for input is *)
(* (InputKnows).                                                           *)
(***************************************************************************)
EXTENDS SchedulerV7M, FiniteSetTheorems, SequenceTheorems, TLAPS

-----------------------------------------------------------------------------
(* The list operators.  The lemmas on them, in ThreadListProofs, say        *)
(* nothing of the pointers that ThreadList keeps: nothing stands for those. *)

ListLemmas ==
  INSTANCE ThreadListProofs
    WITH Threads <- {}, DfcThread <- None, NULL <- None, list <- None,
         state <- None, currentThread <- None, mode <- None, pc <- None,
         t <- None, before <- None, to <- None, leaves <- None,
         expired <- None, rescheduleNeeded <- None, panic <- None

\* The operators of module ReadyList that those lemmas are about are the ones
\* that SchedulerV7M uses.
LEMMA ListOperators ==
  ASSUME NEW q, NEW t
  PROVE  /\ ListLemmas!Distinct(q) <=> Distinct(q)
         /\ ListLemmas!Contains(q, t) <=> Contains(q, t)
         /\ ListLemmas!Dequeue(q, t) = Dequeue(q, t)
         /\ ListLemmas!PushHead(q, t) = PushHead(q, t)
         /\ ListLemmas!YieldInList(q, t) = YieldInList(q, t)
BY DEF ListLemmas!Distinct, Distinct, ListLemmas!Contains, Contains,
       ListLemmas!PushHead, PushHead, ListLemmas!Cons, Cons,
       ListLemmas!Dequeue, Dequeue, ListLemmas!RemoveAt, RemoveAt,
       ListLemmas!Position, Position, ListLemmas!YieldInList, YieldInList,
       ListLemmas!EnqueueBefore, EnqueueBefore, ListLemmas!InsertAt,
       InsertAt, ListLemmas!Last, Last

\* Making a thread the head adds it, and only it.
LEMMA PushHeadIs ==
  ASSUME NEW S, NEW q \in Seq(S), NEW t \in S, Distinct(q), ~Contains(q, t)
  PROVE  /\ PushHead(q, t) \in Seq(S)
         /\ Distinct(PushHead(q, t))
         /\ \A u : Contains(PushHead(q, t), u) <=> u = t \/ Contains(q, u)
BY ListOperators, ListLemmas!PushHeadIs

\* Dequeuing a thread of the list removes it, and only it.
LEMMA DequeueIs ==
  ASSUME NEW S, NEW q \in Seq(S), NEW t, Distinct(q), Contains(q, t)
  PROVE  /\ Dequeue(q, t) \in Seq(S)
         /\ Distinct(Dequeue(q, t))
         /\ \A u : Contains(Dequeue(q, t), u) <=> u # t /\ Contains(q, u)
BY ListOperators, ListLemmas!DequeueIs

\* Yielding keeps the threads of the list.
LEMMA YieldInListIs ==
  ASSUME NEW S, NEW q \in Seq(S), NEW t \in S, Distinct(q), Contains(q, t)
  PROVE  /\ YieldInList(q, t) \in Seq(S)
         /\ Distinct(YieldInList(q, t))
         /\ \A u : Contains(YieldInList(q, t), u) <=> Contains(q, u)
BY ListOperators, ListLemmas!YieldInListIs

-----------------------------------------------------------------------------

ListOK ==
  /\ state \in [Threads -> ThreadStates] /\ readyList \in Seq(Threads)
  /\ Distinct(readyList)
  /\ \A t \in Threads : Contains(readyList, t) <=> state[t] = "EReady"

WaitersOK ==
  /\ \A t \in Threads : state[t] = "EWaitForRequest" => completedRequests[t] = 0
  /\ blockedUart # None => state[blockedUart] = "EBlockedFromSvc"

\* The SVC's thread is ready from its call to the step that blocks it.
Calling == svc \in Svcs \cup {"waitBlock", "asyncStore", "armTimer"}
Leaving == svc \in {"getchRegister", "exitQueue"}

SvcKnows ==
  /\ Calling \/ svc = "none" =>
       currentThread # None /\ state[currentThread] = "EReady"
  /\ svc = "waitBlock" => completedRequests[currentThread] = 0
  /\ svc = "getchRegister" =>
       /\ currentThread # None /\ state[currentThread] = "EBlockedFromSvc"
       /\ blockedUart # currentThread
  /\ svc = "exitQueue" => currentThread # None /\ state[currentThread] = "EDying"
  /\ svc = "find" => currentThread # None
  /\ svc = "idle" => currentThread = None
  /\ svc = "schedule" => found # None
  /\ found # None => state[found] = "EReady"
  /\ timer.armed \/ svc = "armTimer" => timer.thread # None
  /\ input.ptr => input.thread # None

PendSvKnows ==
  /\ pendSv # "none" => svc \in {"none", "idle"}
  /\ pendSv = "schedule" => svc = "none" /\ found # None
  /\ found # None => svc = "schedule" \/ pendSv = "schedule"
  /\ pendSv \notin {"run", "inputDone"} => batch = << >>
  /\ pendSv = "inputDone" =>
       batch # << >> /\ Head(batch).fn = "completeInputRequest_dfc"
  /\ dfcs # << >> => pendSvPending \/ pendSv = "copy"
  /\ reschedNeeded => pendSvPending \/ pendSv \in {"copy", "run", "inputDone"}
  /\ currentThread # None /\ timeslice = 0 =>
       reschedNeeded \/ pendSv \in {"find", "schedule"}

\* A DFC for fn is in q; there is at most one.
Has(q, fn) == \E i \in DOMAIN q : q[i].fn = fn
Once(q, fn) == \A i, j \in DOMAIN q : q[i].fn = fn /\ q[j].fn = fn => i = j

Exit == "threadExit_dfc"
Input == "completeInputRequest_dfc"

\* The threads that q will clean up are dying.
ExitsAreDying(q) ==
  \A i \in DOMAIN q : q[i].fn = Exit =>
    q[i].thread \in Threads /\ state[q[i].thread] = "EDying"

ExitsKnow ==
  /\ Once(dfcs, Exit) /\ Once(batch, Exit)
  /\ ~(Has(dfcs, Exit) /\ Has(batch, Exit))
  /\ Calling \/ Leaving => ~Has(dfcs, Exit)
  /\ ExitsAreDying(dfcs) /\ ExitsAreDying(batch)

InputKnows ==
  /\ Once(dfcs, Input) /\ Once(batch, Input)
  /\ raced =>
       /\ svc \in {"none", "idle"}
       /\ \/ pendSv = "inputDone" /\ input.ptr /\ input.pos > 0 /\ Has(dfcs, Input)
          \/ ~input.ptr /\ (Has(dfcs, Input) \/ Has(batch, Input))
  /\ ~raced =>
       /\ ~(Has(dfcs, Input) /\ Has(batch, Input))
       /\ Has(dfcs, Input) \/ Has(batch, Input)
            <=> input.ptr /\ (input.pos > 0 \/ pendSv = "inputDone")
       /\ ~input.ptr \/ pendSv = "inputDone" => input.pos = 0

IInv ==
  /\ TypeOK /\ ListOK /\ WaitersOK
  /\ SvcKnows /\ PendSvKnows
  /\ ExitsKnow /\ InputKnows

-----------------------------------------------------------------------------
(* Queues of DFCs.                                                         *)

\* What is queued is a DFC, and of which kind.
LEMMA DfcsAre ==
  ASSUME NEW t \in Threads, NEW p \in BOOLEAN
  PROVE  /\ Dfc("threadExit_dfc", t, FALSE) \in Dfcs
         /\ Dfc("threadExit_dfc", t, FALSE).fn = Exit
         /\ Dfc("threadExit_dfc", t, FALSE).thread = t
         /\ Dfc("do_request_complete", t, p) \in Dfcs
         /\ Dfc("do_request_complete", t, p).fn \notin {Exit, Input}
         /\ Dfc("do_request_complete", t, p).thread = t
         /\ InputDfc \in Dfcs /\ InputDfc.fn = Input /\ Exit # Input
         /\ AudioDfc \in Dfcs /\ AudioDfc.fn \notin {Exit, Input}
BY DEF Dfcs, Dfc, InputDfc, AudioDfc, Exit, Input

\* What is known of a DFC from the function it calls.
LEMMA DfcKinds ==
  ASSUME NEW d \in Dfcs
  PROVE  /\ d.fn = "do_request_complete" => d.thread \in Threads
         /\ d.fn = Input <=> d = InputDfc
<1>0. InputDfc.fn = Input /\ AudioDfc.fn = "fillAudioBuf_dfc"
  BY DEF InputDfc, AudioDfc, Dfc, Input
<1>1. CASE d \in [fn : {"do_request_complete"}, thread : Threads, ptr : BOOLEAN]
  BY <1>0, <1>1 DEF Input
<1>2. CASE d \in [fn : {"threadExit_dfc"}, thread : Threads, ptr : {FALSE}]
  BY <1>0, <1>2 DEF Input
<1>3. CASE d = InputDfc
  BY <1>0, <1>3 DEF Input
<1>4. CASE d = AudioDfc
  BY <1>0, <1>4 DEF Input
<1> QED BY <1>1, <1>2, <1>3, <1>4 DEF Dfcs

\* Queuing a DFC.
LEMMA AppendDfc ==
  ASSUME NEW q \in Seq(Dfcs), NEW d \in Dfcs, NEW fn
  PROVE  /\ Append(q, d) \in Seq(Dfcs) /\ Len(Append(q, d)) = Len(q) + 1
         /\ Append(q, d) # << >>
         /\ Has(Append(q, d), fn) <=> Has(q, fn) \/ d.fn = fn
         /\ Once(q, fn) /\ ~(Has(q, fn) /\ d.fn = fn) => Once(Append(q, d), fn)
         /\ ExitsAreDying(q) /\ (d.fn = Exit => /\ d.thread \in Threads
                                                 /\ state[d.thread] = "EDying")
              => ExitsAreDying(Append(q, d))
<1> DEFINE a == Append(q, d)
<1>1. /\ a \in Seq(Dfcs) /\ Len(a) = Len(q) + 1
      /\ DOMAIN a = 1..(Len(q) + 1) /\ DOMAIN q = 1..Len(q)
      /\ a[Len(q) + 1] = d /\ \A i \in 1..Len(q) : a[i] = q[i]
  OBVIOUS
<1>2. a # << >>
  BY <1>1
<1> HIDE DEF a
<1>3. Has(a, fn) <=> Has(q, fn) \/ d.fn = fn
  <2>1. ASSUME Has(q, fn) PROVE Has(a, fn)
    BY <1>1, <2>1 DEF Has
  <2>2. ASSUME d.fn = fn PROVE Has(a, fn)
    BY <1>1, <2>2 DEF Has
  <2>3. ASSUME Has(a, fn), d.fn # fn PROVE Has(q, fn)
    BY <1>1, <2>3 DEF Has
  <2> QED BY <2>1, <2>2, <2>3
<1>4. Once(q, fn) /\ ~(Has(q, fn) /\ d.fn = fn) => Once(a, fn)
  BY <1>1 DEF Once, Has
<1>5. ExitsAreDying(q) /\ (d.fn = Exit => d.thread \in Threads /\ state[d.thread] = "EDying")
        => ExitsAreDying(a)
  BY <1>1 DEF ExitsAreDying
<1> QED BY <1>1, <1>2, <1>3, <1>4, <1>5 DEF a

\* Running the first DFC of a batch.
LEMMA TailDfc ==
  ASSUME NEW q \in Seq(Dfcs), q # << >>, NEW fn
  PROVE  /\ Tail(q) \in Seq(Dfcs) /\ Head(q) \in Dfcs
         /\ Has(q, fn) <=> Has(Tail(q), fn) \/ Head(q).fn = fn
         /\ Once(q, fn) => Once(Tail(q), fn) /\ ~(Has(Tail(q), fn) /\ Head(q).fn = fn)
         /\ ExitsAreDying(q) => ExitsAreDying(Tail(q))
         /\ ExitsAreDying(q) /\ Head(q).fn = Exit =>
              Head(q).thread \in Threads /\ state[Head(q).thread] = "EDying"
<1> DEFINE a == Tail(q)
<1>1. /\ a \in Seq(Dfcs) /\ Len(q) \in Nat /\ Len(q) >= 1 /\ Head(q) = q[1]
      /\ DOMAIN a = 1..(Len(q) - 1) /\ DOMAIN q = 1..Len(q)
      /\ \A i \in 1..(Len(q) - 1) : a[i] = q[i + 1]
      /\ q[1] \in Dfcs
  OBVIOUS
<1> HIDE DEF a
<1>3. Has(q, fn) <=> Has(a, fn) \/ q[1].fn = fn
  <2>1. ASSUME Has(a, fn) PROVE Has(q, fn)
    <3>1. PICK i \in 1..(Len(q) - 1) : q[i + 1].fn = fn
      BY <1>1, <2>1 DEF Has
    <3> QED BY <1>1, <3>1 DEF Has
  <2>2. ASSUME q[1].fn = fn PROVE Has(q, fn)
    BY <1>1, <2>2 DEF Has
  <2>3. ASSUME Has(q, fn), q[1].fn # fn PROVE Has(a, fn)
    <3>1. PICK i \in 1..Len(q) : q[i].fn = fn
      BY <1>1, <2>3 DEF Has
    <3>2. i # 1 /\ i - 1 \in 1..(Len(q) - 1) /\ (i - 1) + 1 = i
      BY <1>1, <3>1, <2>3
    <3>3. a[i - 1].fn = fn
      BY <1>1, <3>1, <3>2
    <3> QED BY <1>1, <3>2, <3>3 DEF Has
  <2> QED BY <2>1, <2>2, <2>3
<1>4. ASSUME Once(q, fn) PROVE Once(a, fn) /\ ~(Has(a, fn) /\ q[1].fn = fn)
  <2>1. Once(a, fn)
    <3> SUFFICES ASSUME NEW i \in 1..(Len(q) - 1), NEW j \in 1..(Len(q) - 1),
                        a[i].fn = fn, a[j].fn = fn
                 PROVE  i = j
      BY <1>1 DEF Once
    <3>1. /\ i + 1 \in DOMAIN q /\ j + 1 \in DOMAIN q
          /\ q[i + 1].fn = fn /\ q[j + 1].fn = fn
      BY <1>1
    <3>2. i + 1 = j + 1
      BY <1>4, <3>1 DEF Once
    <3> QED BY <3>2
  <2>2. ASSUME Has(a, fn), q[1].fn = fn PROVE FALSE
    <3>1. PICK i \in 1..(Len(q) - 1) : q[i + 1].fn = fn
      BY <1>1, <2>2 DEF Has
    <3>2. i + 1 = 1
      BY <1>1, <1>4, <2>2, <3>1 DEF Once
    <3> QED BY <3>1, <3>2
  <2> QED BY <2>1, <2>2
<1>5. ExitsAreDying(q) => ExitsAreDying(a)
  <2> SUFFICES ASSUME ExitsAreDying(q), NEW i \in 1..(Len(q) - 1), a[i].fn = Exit
               PROVE  a[i].thread \in Threads /\ state[a[i].thread] = "EDying"
    BY <1>1 DEF ExitsAreDying
  <2>1. i + 1 \in 1..Len(q) /\ a[i] = q[i + 1]
    BY <1>1
  <2> QED BY <1>1, <2>1 DEF ExitsAreDying
<1>6. ExitsAreDying(q) /\ q[1].fn = Exit =>
        q[1].thread \in Threads /\ state[q[1].thread] = "EDying"
  BY <1>1 DEF ExitsAreDying
<1> QED BY <1>1, <1>3, <1>4, <1>5, <1>6 DEF a

-----------------------------------------------------------------------------
(* The ready list.                                                         *)

\* thread_setState(t, EReady) of a thread that is not ready.
LEMMA SetReadyIs ==
  ASSUME ListOK, NEW t \in Threads, state[t] # "EReady", SetReady(t)
  PROVE  ListOK' /\ \A u \in Threads : state'[u] = IF u = t THEN "EReady" ELSE state[u]
<1>1. /\ readyList' \in Seq(Threads) /\ Distinct(readyList')
      /\ \A u : Contains(readyList', u) <=> u = t \/ Contains(readyList, u)
  BY PushHeadIs DEF ListOK, SetReady
<1>2. /\ state' \in [Threads -> ThreadStates]
      /\ \A u \in Threads : state'[u] = IF u = t THEN "EReady" ELSE state[u]
  BY DEF ListOK, SetReady, ThreadStates
<1> QED BY <1>1, <1>2 DEF ListOK

\* thread_setState to any other state.
LEMMA SetNotReadyIs ==
  ASSUME ListOK, NEW t \in Threads, NEW s \in ThreadStates, s # "EReady",
         SetNotReady(t, s)
  PROVE  ListOK' /\ \A u \in Threads : state'[u] = IF u = t THEN s ELSE state[u]
<1>1. /\ state' \in [Threads -> ThreadStates]
      /\ \A u \in Threads : state'[u] = IF u = t THEN s ELSE state[u]
  BY DEF ListOK, SetNotReady
<1>2. CASE state[t] = "EReady"
  <2>1. /\ readyList' \in Seq(Threads) /\ Distinct(readyList')
        /\ \A u : Contains(readyList', u) <=> u # t /\ Contains(readyList, u)
    BY <1>2, DequeueIs DEF ListOK, SetNotReady
  <2> QED BY <1>1, <2>1 DEF ListOK
<1>3. CASE state[t] # "EReady"
  BY <1>1, <1>3 DEF ListOK, SetNotReady
<1> QED BY <1>1, <1>2, <1>3

\* thread_yield of a ready thread.
LEMMA YieldIs ==
  ASSUME ListOK, NEW t \in Threads, state[t] = "EReady",
         readyList' = YieldInList(readyList, t), state' = state
  PROVE  ListOK'
<1>1. /\ readyList' \in Seq(Threads) /\ Distinct(readyList')
      /\ \A u : Contains(readyList', u) <=> Contains(readyList, u)
  BY YieldInListIs DEF ListOK
<1> QED BY <1>1 DEF ListOK

\* thread_requestSignal: at most a thread that waits becomes ready.
LEMMA RequestSignalIs ==
  ASSUME ListOK, WaitersOK, completedRequests \in [Threads -> 0..(ReqModulus - 1)],
         NEW t \in Threads, RequestSignal(t), blockedUart \in ThreadOrNone,
         UNCHANGED blockedUart
  PROVE  /\ ListOK' /\ WaitersOK'
         /\ completedRequests' \in [Threads -> 0..(ReqModulus - 1)]
         /\ \A u \in Threads : \/ state'[u] = state[u]
                               \/ state[u] = "EWaitForRequest" /\ state'[u] = "EReady"
<1>1. (completedRequests[t] + 1) % ReqModulus \in 0..(ReqModulus - 1)
      /\ 0 \in 0..(ReqModulus - 1)
  BY SchedulerV7MAssumption
<1>2. completedRequests' \in [Threads -> 0..(ReqModulus - 1)]
  BY <1>1 DEF RequestSignal
<1>3. CASE state[t] = "EWaitForRequest"
  <2>1. ListOK' /\ \A u \in Threads : state'[u] = IF u = t THEN "EReady" ELSE state[u]
    BY <1>3, SetReadyIs DEF RequestSignal
  <2>2. \A u \in Threads : u # t => completedRequests'[u] = completedRequests[u]
    BY <1>3 DEF RequestSignal
  <2>3. WaitersOK'
    BY <1>3, <2>1, <2>2, SchedulerV7MAssumption DEF WaitersOK, ThreadOrNone
  <2> QED BY <1>2, <1>3, <2>1, <2>3
<1>4. CASE state[t] # "EWaitForRequest"
  <2>1. /\ UNCHANGED << state, readyList >>
        /\ \A u \in Threads : u # t => completedRequests'[u] = completedRequests[u]
    BY <1>4 DEF RequestSignal
  <2>2. ListOK' /\ WaitersOK'
    BY <1>4, <2>1 DEF ListOK, WaitersOK
  <2> QED BY <1>2, <2>1, <2>2
<1> QED BY <1>3, <1>4
-----------------------------------------------------------------------------
(* What a step leaves alone stays known.                                   *)

DyingStay == \A t \in Threads : state[t] = "EDying" => state'[t] = "EDying"

\* No DFC is queued or run.
LEMMA ExitsFrame ==
  ASSUME ExitsKnow, dfcs' = dfcs, batch' = batch, DyingStay,
         Calling' \/ Leaving' => ~Has(dfcs, Exit)
  PROVE  ExitsKnow'
<1>2. ExitsAreDying(dfcs)' /\ ExitsAreDying(batch)'
  BY DEF ExitsKnow, ExitsAreDying, DyingStay, Exit
<1> QED BY <1>2 DEF ExitsKnow, Has, Once, Exit

\* No DFC for input is queued or run, and no sample taken.
LEMMA InputFrame ==
  ASSUME InputKnows, dfcs' = dfcs, batch' = batch, input' = input, raced' = raced,
         pendSv' = pendSv \/ (pendSv # "inputDone" /\ pendSv' # "inputDone"),
         raced => svc' \in {"none", "idle"}
  PROVE  InputKnows'
BY DEF InputKnows, Has, Once, Input

\* A DFC is queued that is neither for input nor for an exit.
LEMMA OtherDfcFrame ==
  ASSUME IInv, NEW d \in Dfcs, d.fn \notin {Exit, Input}, dfcs' = Append(dfcs, d),
         UNCHANGED << state, svc, pendSv, batch, input, raced >>
  PROVE  dfcs' \in Seq(Dfcs) /\ ExitsKnow' /\ InputKnows'
<1>1. dfcs \in Seq(Dfcs)
  BY DEF IInv, TypeOK
<1>2. /\ dfcs' \in Seq(Dfcs)
      /\ Has(dfcs', Exit) <=> Has(dfcs, Exit)
      /\ Once(dfcs, Exit) => Once(dfcs', Exit)
      /\ ExitsAreDying(dfcs) => ExitsAreDying(dfcs')
      /\ Has(dfcs', Input) <=> Has(dfcs, Input)
      /\ Once(dfcs, Input) => Once(dfcs', Input)
  BY <1>1, AppendDfc
<1>3. ExitsKnow'
  <2>1. ExitsAreDying(dfcs)' /\ ExitsAreDying(batch)'
    BY <1>2 DEF IInv, ExitsKnow, ExitsAreDying
  <2> QED BY <1>2, <2>1 DEF IInv, ExitsKnow, Calling, Leaving, Once, Has, Exit
<1>4. InputKnows'
  BY <1>2 DEF IInv, InputKnows, Has, Once, Input
<1> QED BY <1>2, <1>3, <1>4

\* A failed assertion stops everything where it is.
LEMMA StopInv == ASSUME IInv, NEW why \in Panics, Stop(why) PROVE IInv'
<1> USE DEF Stop, threadVars, runVars, pendVars, dfcVars, requestVars
<1>1. TypeOK' /\ ListOK' /\ WaitersOK'
  BY DEF IInv, TypeOK, ListOK, WaitersOK
<1>2. SvcKnows' /\ PendSvKnows'
  BY DEF IInv, SvcKnows, PendSvKnows, Calling
<1>3. ExitsKnow'
  BY ExitsFrame DEF IInv, ExitsKnow, Calling, Leaving, DyingStay
<1>4. InputKnows'
  BY InputFrame DEF IInv, InputKnows
<1> QED BY <1>1, <1>2, <1>3, <1>4 DEF IInv

-----------------------------------------------------------------------------
(* The steps of an SVC.                                                    *)

\* The facts every SVC step starts from.
LEMMA SvcQuiet ==
  ASSUME IInv, Calling \/ Leaving \/ svc \in {"find", "schedule"}
  PROVE  pendSv = "none" /\ batch = << >> /\ ~raced
BY SchedulerV7MAssumption DEF IInv, PendSvKnows, InputKnows, Calling, Leaving, Svcs

\* Every SVC that has begun is one of these.
LEMMA SvcIs ==
  ASSUME IInv
  PROVE  Calling \/ Leaving \/ svc \in {"none", "find", "schedule", "idle"}
BY DEF IInv, TypeOK, SvcSteps, Calling, Leaving

\* The first ready thread.
LEMMA HeadIsReady ==
  ASSUME ListOK, readyList # << >>
  PROVE  Head(readyList) \in Threads /\ state[Head(readyList)] = "EReady"
<1>1. Head(readyList) \in Threads /\ Contains(readyList, Head(readyList))
  BY DEF ListOK, Contains
<1> QED BY <1>1 DEF ListOK

\* A yield only reorders the ready list.
LEMMA SvcYieldInv == ASSUME IInv, SvcYield PROVE IInv'
<1> USE SchedulerV7MAssumption DEF Svcs
<1>q. pendSv = "none" /\ batch = << >> /\ ~raced /\ svc = "yield" /\ Calling
  BY SvcIs, SvcQuiet DEF Calling, Leaving, SvcYield, InSvc
<1>b. /\ svc' = "find" /\ readyList' = YieldInList(readyList, currentThread)
      /\ UNCHANGED << state, completedRequests, timeslice, currentThread, found,
                      pendSv, pendSvPending, reschedNeeded, dfcs, batch, blockedUart,
                      uartRequest, timer, input, panic, raced >>
  BY DEF SvcYield, threadVars, runVars, pendVars, dfcVars, requestVars, endVars
<1>0. currentThread \in Threads /\ state[currentThread] = "EReady"
  BY <1>q DEF IInv, TypeOK, SvcKnows, ThreadOrNone
<1>1. ListOK' /\ WaitersOK'
  BY <1>b, <1>0, YieldIs DEF IInv, WaitersOK
<1>2. TypeOK'
  BY <1>b, <1>1 DEF IInv, TypeOK, ListOK, SvcSteps
<1>3. SvcKnows' /\ PendSvKnows'
  BY <1>b, <1>q DEF IInv, SvcKnows, PendSvKnows, Calling, Leaving
<1>4. ExitsKnow'
  BY <1>b, <1>q, ExitsFrame DEF IInv, ExitsKnow, Calling, Leaving, DyingStay
<1>5. InputKnows'
  BY <1>b, <1>q, InputFrame DEF IInv
<1> QED BY <1>1, <1>2, <1>3, <1>4, <1>5 DEF IInv

\* A thread goes on to block only with no completed request.
LEMMA SvcWaitCheckInv == ASSUME IInv, SvcWaitCheck PROVE IInv'
<1> USE SchedulerV7MAssumption DEF Svcs
<1>q. pendSv = "none" /\ batch = << >> /\ ~raced /\ svc = "waitCheck" /\ Calling
  BY SvcIs, SvcQuiet DEF Calling, Leaving, SvcWaitCheck, InSvc
<1>b. /\ svc' = "none" \/ (svc' = "waitBlock" /\ completedRequests[currentThread] = 0)
      /\ \/ completedRequests' = completedRequests
         \/ completedRequests' = [completedRequests EXCEPT ![currentThread] = 0]
      /\ UNCHANGED << state, readyList, timeslice, currentThread, found, pendSv,
                      pendSvPending, reschedNeeded, dfcs, batch, blockedUart,
                      uartRequest, timer, input, panic, raced >>
  BY DEF SvcWaitCheck, threadVars, runVars, pendVars, dfcVars, requestVars, endVars
<1>0. currentThread \in Threads /\ state[currentThread] = "EReady"
  BY <1>q DEF IInv, TypeOK, SvcKnows, ThreadOrNone
<1>c. /\ completedRequests' \in [Threads -> 0..(ReqModulus - 1)]
      /\ \A t \in Threads : completedRequests[t] = 0 => completedRequests'[t] = 0
  <2>1. completedRequests \in [Threads -> 0..(ReqModulus - 1)] /\ 0 \in 0..(ReqModulus - 1)
    BY DEF IInv, TypeOK
  <2>2. CASE completedRequests' = completedRequests
    BY <2>1, <2>2
  <2>3. CASE completedRequests' = [completedRequests EXCEPT ![currentThread] = 0]
    BY <2>1, <2>3, <1>0
  <2> QED BY <1>b, <2>2, <2>3
<1>1. ListOK' /\ WaitersOK'
  BY <1>b, <1>c DEF IInv, ListOK, WaitersOK
<1>2. TypeOK'
  BY <1>b, <1>c DEF IInv, TypeOK, SvcSteps
<1>3. SvcKnows' /\ PendSvKnows'
  BY <1>b, <1>c, <1>0, <1>q DEF IInv, SvcKnows, PendSvKnows, Calling, Leaving
<1>4. ExitsKnow'
  BY <1>b, <1>q, ExitsFrame DEF IInv, ExitsKnow, Calling, Leaving, DyingStay
<1>5. InputKnows'
  BY <1>b, <1>q, InputFrame DEF IInv
<1> QED BY <1>1, <1>2, <1>3, <1>4, <1>5 DEF IInv

\* The thread that waits leaves the ready list: nobody else counts on it.
LEMMA SvcWaitBlockInv == ASSUME IInv, SvcWaitBlock PROVE IInv'
<1> USE SchedulerV7MAssumption DEF Svcs
<1>q. pendSv = "none" /\ batch = << >> /\ ~raced /\ svc = "waitBlock" /\ Calling
  BY SvcIs, SvcQuiet DEF Calling, Leaving, SvcWaitBlock, InSvc
<1>b. /\ svc' = "find" /\ SetNotReady(currentThread, "EWaitForRequest")
      /\ UNCHANGED << completedRequests, timeslice, currentThread, found, pendSv,
                      pendSvPending, reschedNeeded, dfcs, batch, blockedUart,
                      uartRequest, timer, input, panic, raced >>
  BY DEF SvcWaitBlock, threadVars, runVars, pendVars, dfcVars, requestVars, endVars
<1>0. currentThread \in Threads /\ state[currentThread] = "EReady"
  BY <1>q DEF IInv, TypeOK, SvcKnows, ThreadOrNone
<1>c. /\ ListOK'
      /\ \A u \in Threads : state'[u] = IF u = currentThread THEN "EWaitForRequest"
                                          ELSE state[u]
  BY <1>b, <1>0, SetNotReadyIs DEF IInv, ThreadStates
<1>1. ListOK' /\ WaitersOK'
  BY <1>b, <1>0, <1>c, <1>q DEF IInv, TypeOK, WaitersOK, SvcKnows, ThreadOrNone
<1>2. TypeOK'
  BY <1>b, <1>1 DEF IInv, TypeOK, ListOK, SvcSteps
<1>3. SvcKnows' /\ PendSvKnows'
  BY <1>b, <1>q, <1>0, <1>c DEF IInv, TypeOK, WaitersOK, SvcKnows, PendSvKnows,
     ThreadOrNone, Calling, Leaving
<1>4. ExitsKnow'
  BY <1>b, <1>q, <1>0, <1>c, ExitsFrame DEF IInv, ExitsKnow, Calling, Leaving, DyingStay
<1>5. InputKnows'
  BY <1>b, <1>q, InputFrame DEF IInv
<1> QED BY <1>1, <1>2, <1>3, <1>4, <1>5 DEF IInv

\* The thread is not yet the one that the uart wakes.
LEMMA SvcGetchBlockInv == ASSUME IInv, SvcGetchBlock PROVE IInv'
<1> USE SchedulerV7MAssumption DEF Svcs
<1>q. pendSv = "none" /\ batch = << >> /\ ~raced /\ svc = "getchBlock" /\ Calling
  BY SvcIs, SvcQuiet DEF Calling, Leaving, SvcGetchBlock, InSvc
<1>b. /\ svc' = "getchRegister" /\ SetNotReady(currentThread, "EBlockedFromSvc")
      /\ UNCHANGED << completedRequests, timeslice, currentThread, found, pendSv,
                      pendSvPending, reschedNeeded, dfcs, batch, blockedUart,
                      uartRequest, timer, input, panic, raced >>
  BY DEF SvcGetchBlock, threadVars, runVars, pendVars, dfcVars, requestVars, endVars
<1>0. currentThread \in Threads /\ state[currentThread] = "EReady"
  BY <1>q DEF IInv, TypeOK, SvcKnows, ThreadOrNone
<1>c. /\ ListOK'
      /\ \A u \in Threads : state'[u] = IF u = currentThread THEN "EBlockedFromSvc"
                                          ELSE state[u]
  BY <1>b, <1>0, SetNotReadyIs DEF IInv, ThreadStates
<1>1. ListOK' /\ WaitersOK'
  BY <1>b, <1>0, <1>c, <1>q DEF IInv, TypeOK, WaitersOK, SvcKnows, ThreadOrNone
<1>2. TypeOK'
  BY <1>b, <1>1 DEF IInv, TypeOK, ListOK, SvcSteps
<1>3. SvcKnows' /\ PendSvKnows'
  BY <1>b, <1>q, <1>0, <1>c DEF IInv, TypeOK, WaitersOK, SvcKnows, PendSvKnows,
     ThreadOrNone, Calling, Leaving
<1>4. ExitsKnow'
  BY <1>b, <1>q, <1>0, <1>c, ExitsFrame DEF IInv, ExitsKnow, Calling, Leaving, DyingStay
<1>5. InputKnows'
  BY <1>b, <1>q, InputFrame DEF IInv
<1> QED BY <1>1, <1>2, <1>3, <1>4, <1>5 DEF IInv

\* The thread that is registered is blocked.
LEMMA SvcGetchRegisterInv == ASSUME IInv, SvcGetchRegister PROVE IInv'
<1> USE SchedulerV7MAssumption DEF Svcs
<1>q. pendSv = "none" /\ batch = << >> /\ ~raced /\ svc = "getchRegister"
  BY SvcIs, SvcQuiet DEF Calling, Leaving, SvcGetchRegister, InSvc
<1>b. /\ svc' = "find" /\ blockedUart' = currentThread
      /\ UNCHANGED << state, readyList, completedRequests, timeslice, currentThread,
                      found, pendSv, pendSvPending, reschedNeeded, dfcs, batch,
                      uartRequest, timer, input, panic, raced >>
  BY DEF SvcGetchRegister, threadVars, runVars, pendVars, dfcVars, requestVars, endVars
<1>1. ListOK' /\ WaitersOK'
  BY <1>b, <1>q DEF IInv, ListOK, WaitersOK, SvcKnows
<1>2. TypeOK'
  BY <1>b, <1>1 DEF IInv, TypeOK, ListOK, SvcSteps
<1>3. SvcKnows' /\ PendSvKnows'
  BY <1>b, <1>q DEF IInv, SvcKnows, PendSvKnows, Calling, Leaving
<1>4. ExitsKnow'
  BY <1>b, <1>q, ExitsFrame DEF IInv, ExitsKnow, Calling, Leaving, DyingStay
<1>5. InputKnows'
  BY <1>b, <1>q, InputFrame DEF IInv
<1> QED BY <1>1, <1>2, <1>3, <1>4, <1>5 DEF IInv

\* The request of the uart is stored, or completed at once: of the threads only
\* one that waits changes.
LEMMA SvcGetchAsyncInv == ASSUME IInv, SvcGetchAsync PROVE IInv'
<1> USE SchedulerV7MAssumption DEF Svcs
<1>q. pendSv = "none" /\ batch = << >> /\ ~raced /\ svc = "getchAsync" /\ Calling
  BY SvcIs, SvcQuiet DEF Calling, Leaving, SvcGetchAsync, InSvc, Svcs
<1>b. /\ svc' \in {"none", "asyncStore"}
      /\ UNCHANGED << timeslice, currentThread, found, pendSv, pendSvPending,
                      reschedNeeded, dfcs, batch, blockedUart, timer, input, panic,
                      raced >>
  BY DEF SvcGetchAsync, threadVars, runVars, pendVars, dfcVars, requestVars, endVars
<1>0. currentThread \in Threads /\ state[currentThread] = "EReady"
  BY <1>q DEF IInv, TypeOK, SvcKnows, ThreadOrNone
<1>d. /\ ListOK' /\ WaitersOK' /\ uartRequest' \in ThreadOrNone
      /\ completedRequests' \in [Threads -> 0..(ReqModulus - 1)]
      /\ \A u \in Threads : \/ state'[u] = state[u]
                            \/ state[u] = "EWaitForRequest" /\ state'[u] = "EReady"
  <2>1. CASE /\ uartRequest' = IF uartRequest = None THEN None ELSE currentThread
             /\ UNCHANGED << state, readyList, completedRequests >>
    BY <2>1, <1>0, <1>b DEF IInv, TypeOK, ListOK, WaitersOK, ThreadOrNone
  <2>2. CASE RequestSignal(currentThread) /\ uartRequest' = uartRequest
    BY <2>2, <1>0, <1>b, RequestSignalIs DEF IInv, TypeOK
  <2> QED BY <2>1, <2>2 DEF SvcGetchAsync, threadVars
<1>1. ListOK' /\ WaitersOK'
  BY <1>d
<1>2. TypeOK'
  BY <1>b, <1>d DEF IInv, TypeOK, ListOK, SvcSteps
<1>3. SvcKnows' /\ PendSvKnows'
  BY <1>b, <1>d, <1>0, <1>q DEF IInv, TypeOK, SvcKnows, PendSvKnows, Calling, Leaving,
     ThreadOrNone, Svcs
<1>4. ExitsKnow'
  BY <1>b, <1>d, <1>q, ExitsFrame DEF IInv, ExitsKnow, Calling, Leaving, DyingStay
<1>5. InputKnows'
  BY <1>b, <1>q, InputFrame DEF IInv
<1> QED BY <1>1, <1>2, <1>3, <1>4, <1>5 DEF IInv

\* The request of the uart is complete.
LEMMA SvcAsyncStoreInv == ASSUME IInv, SvcAsyncStore PROVE IInv'
<1> USE SchedulerV7MAssumption DEF Svcs
<1>q. pendSv = "none" /\ batch = << >> /\ ~raced /\ svc = "asyncStore" /\ Calling
  BY SvcIs, SvcQuiet DEF Calling, Leaving, SvcAsyncStore, InSvc
<1>b. /\ svc' = "none" /\ uartRequest' = currentThread
      /\ UNCHANGED << state, readyList, completedRequests, timeslice, currentThread,
                      found, pendSv, pendSvPending, reschedNeeded, dfcs, batch,
                      blockedUart, timer, input, panic, raced >>
  BY DEF SvcAsyncStore, threadVars, runVars, pendVars, dfcVars, requestVars, endVars
<1>0. currentThread \in Threads /\ state[currentThread] = "EReady"
  BY <1>q DEF IInv, TypeOK, SvcKnows, ThreadOrNone
<1>1. ListOK' /\ WaitersOK'
  BY <1>b DEF IInv, ListOK, WaitersOK
<1>2. TypeOK'
  BY <1>b, <1>0 DEF IInv, TypeOK, SvcSteps, ThreadOrNone
<1>3. SvcKnows' /\ PendSvKnows'
  BY <1>b, <1>0, <1>q DEF IInv, SvcKnows, PendSvKnows, Calling, Leaving
<1>4. ExitsKnow'
  BY <1>b, <1>q, ExitsFrame DEF IInv, ExitsKnow, Calling, Leaving, DyingStay
<1>5. InputKnows'
  BY <1>b, <1>q, InputFrame DEF IInv
<1> QED BY <1>1, <1>2, <1>3, <1>4, <1>5 DEF IInv

\* A timer that will be armed has a thread.
LEMMA SvcSetTimerInv == ASSUME IInv, SvcSetTimer PROVE IInv'
<1> USE SchedulerV7MAssumption DEF Svcs
<1>q. pendSv = "none" /\ batch = << >> /\ ~raced /\ svc = "setTimer" /\ Calling
  BY SvcIs, SvcQuiet DEF Calling, Leaving, SvcSetTimer, InSvc
<1>b. /\ \/ svc' = "none" /\ timer' = timer
         \/ svc' = "armTimer" /\ timer' = [timer EXCEPT !.thread = currentThread, !.ptr = TRUE]
      /\ UNCHANGED << state, readyList, completedRequests, timeslice, currentThread,
                      found, pendSv, pendSvPending, reschedNeeded, dfcs, batch,
                      blockedUart, uartRequest, input, panic, raced >>
  BY DEF SvcSetTimer, threadVars, runVars, pendVars, dfcVars, requestVars, endVars
<1>0. currentThread \in Threads /\ state[currentThread] = "EReady"
  BY <1>q DEF IInv, TypeOK, SvcKnows, ThreadOrNone
<1>c. /\ timer' \in [thread : ThreadOrNone, ptr : BOOLEAN, armed : BOOLEAN]
      /\ timer'.armed = timer.armed
      /\ (timer'.thread = timer.thread /\ svc' = "none") \/ timer'.thread = currentThread
  <2>1. timer \in [thread : ThreadOrNone, ptr : BOOLEAN, armed : BOOLEAN]
    BY DEF IInv, TypeOK
  <2>2. CASE timer' = [timer EXCEPT !.thread = currentThread, !.ptr = TRUE]
    <3>1. timer' = [thread |-> currentThread, ptr |-> TRUE, armed |-> timer.armed]
      BY <2>1, <2>2
    <3> QED BY <3>1, <2>1, <1>0 DEF ThreadOrNone
  <2> QED BY <1>b, <2>1, <2>2
<1>1. ListOK' /\ WaitersOK'
  BY <1>b DEF IInv, ListOK, WaitersOK
<1>2. TypeOK'
  BY <1>b, <1>c DEF IInv, TypeOK, SvcSteps
<1>3. SvcKnows' /\ PendSvKnows'
  BY <1>b, <1>c, <1>0, <1>q DEF IInv, SvcKnows, PendSvKnows, Calling, Leaving
<1>4. ExitsKnow'
  BY <1>b, <1>q, ExitsFrame DEF IInv, ExitsKnow, Calling, Leaving, DyingStay
<1>5. InputKnows'
  BY <1>b, <1>q, InputFrame DEF IInv
<1> QED BY <1>1, <1>2, <1>3, <1>4, <1>5 DEF IInv

\* The thread is dying, and no DFC is about it yet.
LEMMA SvcThreadExitInv == ASSUME IInv, SvcThreadExit PROVE IInv'
<1> USE SchedulerV7MAssumption DEF Svcs
<1>q. pendSv = "none" /\ batch = << >> /\ ~raced /\ svc = "threadExit" /\ Calling
  BY SvcIs, SvcQuiet DEF Calling, Leaving, SvcThreadExit, InSvc
<1>b. /\ svc' = "exitQueue" /\ SetNotReady(currentThread, "EDying")
      /\ UNCHANGED << completedRequests, timeslice, currentThread, found, pendSv,
                      pendSvPending, reschedNeeded, dfcs, batch, blockedUart,
                      uartRequest, timer, input, panic, raced >>
  BY DEF SvcThreadExit, threadVars, runVars, pendVars, dfcVars, requestVars, endVars
<1>0. currentThread \in Threads /\ state[currentThread] = "EReady"
  BY <1>q DEF IInv, TypeOK, SvcKnows, ThreadOrNone
<1>c. /\ ListOK'
      /\ \A u \in Threads : state'[u] = IF u = currentThread THEN "EDying" ELSE state[u]
  BY <1>b, <1>0, SetNotReadyIs DEF IInv, ThreadStates
<1>1. ListOK' /\ WaitersOK'
  BY <1>b, <1>0, <1>c, <1>q DEF IInv, TypeOK, WaitersOK, SvcKnows, ThreadOrNone
<1>2. TypeOK'
  BY <1>b, <1>1 DEF IInv, TypeOK, ListOK, SvcSteps
<1>3. SvcKnows' /\ PendSvKnows'
  BY <1>b, <1>q, <1>0, <1>c DEF IInv, TypeOK, WaitersOK, SvcKnows, PendSvKnows,
     ThreadOrNone, Calling, Leaving
<1>4. ExitsKnow'
  BY <1>b, <1>q, <1>0, <1>c, ExitsFrame DEF IInv, ExitsKnow, Calling, Leaving, DyingStay
<1>5. InputKnows'
  BY <1>b, <1>q, InputFrame DEF IInv
<1> QED BY <1>1, <1>2, <1>3, <1>4, <1>5 DEF IInv

\* The head of the ready list is ready, and interrupts do not change that.
LEMMA SvcFindInv == ASSUME IInv, SvcFind PROVE IInv'
<1> USE SchedulerV7MAssumption DEF Svcs
<1>q. pendSv = "none" /\ batch = << >> /\ ~raced /\ svc = "find"
  BY SvcIs, SvcQuiet DEF Calling, Leaving, SvcFind, InSvc
<1>b. /\ \/ /\ readyList # << >> /\ found' = Head(readyList)
            /\ svc' = "schedule" /\ currentThread' = currentThread
         \/ currentThread' = None /\ svc' = "idle" /\ found' = found
      /\ UNCHANGED << state, readyList, completedRequests, timeslice, pendSv,
                      pendSvPending, reschedNeeded, dfcs, batch, blockedUart,
                      uartRequest, timer, input, panic, raced >>
  BY DEF SvcFind, threadVars, runVars, pendVars, dfcVars, requestVars, endVars
<1>c. readyList # << >> => Head(readyList) \in Threads /\ state[Head(readyList)] = "EReady"
  BY HeadIsReady DEF IInv
<1>1. ListOK' /\ WaitersOK'
  BY <1>b DEF IInv, ListOK, WaitersOK
<1>2. TypeOK'
  BY <1>b, <1>c DEF IInv, TypeOK, SvcSteps, ThreadOrNone
<1>3. SvcKnows' /\ PendSvKnows'
  BY <1>b, <1>c, <1>q DEF IInv, SvcKnows, PendSvKnows, Calling, Leaving
<1>4. ExitsKnow'
  BY <1>b, <1>q, ExitsFrame DEF IInv, ExitsKnow, Calling, Leaving, DyingStay
<1>5. InputKnows'
  BY <1>b, <1>q, InputFrame DEF IInv
<1> QED BY <1>1, <1>2, <1>3, <1>4, <1>5 DEF IInv

\* The new thread runs a whole timeslice.
LEMMA SvcScheduleInv == ASSUME IInv, SvcSchedule PROVE IInv'
<1> USE SchedulerV7MAssumption DEF Svcs
<1>q. pendSv = "none" /\ batch = << >> /\ ~raced /\ svc = "schedule"
  BY SvcIs, SvcQuiet DEF Calling, Leaving, SvcSchedule, InSvc
<1>b. /\ svc' = "none" /\ timeslice' = Timeslice /\ currentThread' = found /\ found' = None
      /\ UNCHANGED << state, readyList, completedRequests, pendSv, pendSvPending,
                      reschedNeeded, dfcs, batch, blockedUart, uartRequest, timer,
                      input, panic, raced >>
  BY DEF SvcSchedule, threadVars, runVars, pendVars, dfcVars, requestVars, endVars,
         ScheduleThread
<1>1. ListOK' /\ WaitersOK'
  BY <1>b DEF IInv, ListOK, WaitersOK
<1>2. TypeOK'
  BY <1>b, <1>1 DEF IInv, TypeOK, ListOK, SvcSteps, ThreadOrNone
<1>3. SvcKnows' /\ PendSvKnows'
  BY <1>b, <1>q DEF IInv, SvcKnows, PendSvKnows, Calling, Leaving
<1>4. ExitsKnow'
  BY <1>b, <1>q, ExitsFrame DEF IInv, ExitsKnow, Calling, Leaving, DyingStay
<1>5. InputKnows'
  BY <1>b, <1>q, InputFrame DEF IInv
<1> QED BY <1>1, <1>2, <1>3, <1>4, <1>5 DEF IInv

\* Nothing is queued when the wait ends.
LEMMA SvcIdleFindInv == ASSUME IInv, SvcIdleFind PROVE IInv'
<1> USE SchedulerV7MAssumption DEF Svcs
<1>a. svc = "idle" /\ pendSv = "none" /\ batch = << >> /\ dfcs = << >>
  BY DEF IInv, PendSvKnows, SvcIdleFind, InSvc
<1>q. ~raced
  BY <1>a DEF IInv, InputKnows, Has
<1>b. /\ readyList # << >> /\ found' = Head(readyList) /\ svc' = "schedule"
      /\ UNCHANGED << state, readyList, completedRequests, timeslice, currentThread,
                      pendSv, pendSvPending, reschedNeeded, dfcs, batch, blockedUart,
                      uartRequest, timer, input, panic, raced >>
  BY DEF SvcIdleFind, threadVars, pendVars, dfcVars, requestVars, endVars
<1>c. Head(readyList) \in Threads /\ state[Head(readyList)] = "EReady"
  BY <1>b, HeadIsReady DEF IInv
<1>1. ListOK' /\ WaitersOK'
  BY <1>b DEF IInv, ListOK, WaitersOK
<1>2. TypeOK'
  BY <1>b, <1>c DEF IInv, TypeOK, SvcSteps, ThreadOrNone
<1>3. SvcKnows' /\ PendSvKnows'
  BY <1>a, <1>b, <1>c DEF IInv, SvcKnows, PendSvKnows, Calling, Leaving
<1>4. ExitsKnow'
  BY <1>b, ExitsFrame DEF IInv, ExitsKnow, Calling, Leaving, DyingStay
<1>5. InputKnows'
  BY <1>b, <1>q, InputFrame DEF IInv
<1> QED BY <1>1, <1>2, <1>3, <1>4, <1>5 DEF IInv

\* A new thread was dead: nothing counts on its state.
LEMMA SvcThreadCreateInv == ASSUME IInv, SvcThreadCreate PROVE IInv'
<1> USE SchedulerV7MAssumption DEF Svcs
<1>q. pendSv = "none" /\ batch = << >> /\ ~raced /\ svc = "threadCreate" /\ Calling
  BY SvcIs, SvcQuiet DEF Calling, Leaving, SvcThreadCreate, InSvc
<1>b. /\ svc' = "none"
      /\ UNCHANGED << timeslice, currentThread, found, pendSv, pendSvPending,
                      reschedNeeded, dfcs, batch, blockedUart, uartRequest, timer,
                      input, panic, raced >>
  BY DEF SvcThreadCreate, threadVars, runVars, pendVars, dfcVars, requestVars, endVars
<1>0. currentThread \in Threads /\ state[currentThread] = "EReady"
  BY <1>q DEF IInv, TypeOK, SvcKnows, ThreadOrNone
<1>c. \/ UNCHANGED << state, readyList, completedRequests >>
      \/ \E t \in Threads :
           /\ state[t] = "EDead" /\ SetReady(t)
           /\ completedRequests' = [completedRequests EXCEPT ![t] = 0]
  BY DEF SvcThreadCreate, threadVars
<1>d. /\ ListOK' /\ completedRequests' \in [Threads -> 0..(ReqModulus - 1)]
      /\ \A u \in Threads :
           \/ state'[u] = state[u] /\ completedRequests'[u] = completedRequests[u]
           \/ state[u] = "EDead" /\ state'[u] = "EReady"
  <2>1. completedRequests \in [Threads -> 0..(ReqModulus - 1)] /\ 0 \in 0..(ReqModulus - 1)
    BY DEF IInv, TypeOK
  <2>2. CASE UNCHANGED << state, readyList, completedRequests >>
    BY <2>1, <2>2 DEF IInv, ListOK
  <2>3. CASE \E t \in Threads :
               /\ state[t] = "EDead" /\ SetReady(t)
               /\ completedRequests' = [completedRequests EXCEPT ![t] = 0]
    <3>1. PICK t \in Threads :
               /\ state[t] = "EDead" /\ SetReady(t)
               /\ completedRequests' = [completedRequests EXCEPT ![t] = 0]
      BY <2>3
    <3>2. ListOK' /\ \A u \in Threads : state'[u] = IF u = t THEN "EReady" ELSE state[u]
      BY <3>1, SetReadyIs DEF IInv
    <3> QED BY <2>1, <3>1, <3>2
  <2> QED BY <1>c, <2>2, <2>3
<1>1. ListOK' /\ WaitersOK'
  BY <1>b, <1>d DEF IInv, TypeOK, WaitersOK, ThreadOrNone
<1>2. TypeOK'
  BY <1>b, <1>d DEF IInv, TypeOK, ListOK, SvcSteps
<1>3. SvcKnows' /\ PendSvKnows'
  BY <1>b, <1>d, <1>0, <1>q DEF IInv, TypeOK, SvcKnows, PendSvKnows, Calling, Leaving,
     ThreadOrNone
<1>4. ExitsKnow'
  BY <1>b, <1>d, <1>q, ExitsFrame DEF IInv, ExitsKnow, Calling, Leaving, DyingStay
<1>5. InputKnows'
  BY <1>b, <1>q, InputFrame DEF IInv
<1> QED BY <1>1, <1>2, <1>3, <1>4, <1>5 DEF IInv

\* A timer whose time has come is completed at once.
LEMMA SvcArmTimerInv == ASSUME IInv, SvcArmTimer PROVE IInv'
<1> USE SchedulerV7MAssumption DEF Svcs
<1>q. pendSv = "none" /\ batch = << >> /\ ~raced /\ svc = "armTimer" /\ Calling
  BY SvcIs, SvcQuiet DEF Calling, Leaving, SvcArmTimer, InSvc
<1>b. /\ svc' = "none"
      /\ UNCHANGED << timeslice, currentThread, found, pendSv, pendSvPending,
                      reschedNeeded, dfcs, batch, blockedUart, uartRequest, input,
                      panic, raced >>
  BY DEF SvcArmTimer, threadVars, runVars, pendVars, dfcVars, requestVars, endVars
<1>0. currentThread \in Threads /\ state[currentThread] = "EReady"
  BY <1>q DEF IInv, TypeOK, SvcKnows, ThreadOrNone
<1>c. timer \in [thread : ThreadOrNone, ptr : BOOLEAN, armed : BOOLEAN] /\ timer.thread # None
  BY <1>q DEF IInv, TypeOK, SvcKnows
<1>d. /\ timer' \in [thread : ThreadOrNone, ptr : BOOLEAN, armed : BOOLEAN]
      /\ timer'.thread = timer.thread
      /\ ListOK' /\ WaitersOK'
      /\ completedRequests' \in [Threads -> 0..(ReqModulus - 1)]
      /\ \A u \in Threads : \/ state'[u] = state[u]
                            \/ state[u] = "EWaitForRequest" /\ state'[u] = "EReady"
  <2>1. CASE /\ timer' = [timer EXCEPT !.armed = TRUE]
             /\ UNCHANGED << state, readyList, completedRequests >>
    BY <2>1, <1>b, <1>c DEF IInv, TypeOK, ListOK, WaitersOK
  <2>2. CASE /\ timer' = [timer EXCEPT !.ptr = FALSE, !.armed = FALSE]
             /\ RequestSignal(currentThread)
    <3>1. timer' = [thread |-> timer.thread, ptr |-> FALSE, armed |-> FALSE]
      BY <2>2, <1>c
    <3>2. /\ ListOK' /\ WaitersOK'
          /\ completedRequests' \in [Threads -> 0..(ReqModulus - 1)]
          /\ \A u \in Threads : \/ state'[u] = state[u]
                                \/ state[u] = "EWaitForRequest" /\ state'[u] = "EReady"
      BY <2>2, <1>0, <1>b, RequestSignalIs DEF IInv, TypeOK
    <3> QED BY <3>1, <3>2, <1>c
  <2> QED BY <2>1, <2>2 DEF SvcArmTimer, threadVars
<1>1. ListOK' /\ WaitersOK'
  BY <1>d
<1>2. TypeOK'
  BY <1>b, <1>d DEF IInv, TypeOK, ListOK, SvcSteps
<1>3. SvcKnows' /\ PendSvKnows'
  BY <1>b, <1>c, <1>d, <1>0, <1>q DEF IInv, TypeOK, SvcKnows, PendSvKnows, Calling, Leaving,
     ThreadOrNone
<1>4. ExitsKnow'
  BY <1>b, <1>d, <1>q, ExitsFrame DEF IInv, ExitsKnow, Calling, Leaving, DyingStay
<1>5. InputKnows'
  BY <1>b, <1>q, InputFrame DEF IInv
<1> QED BY <1>1, <1>2, <1>3, <1>4, <1>5 DEF IInv

\* The samples of a new request are yet to come.
LEMMA SvcSetInputInv == ASSUME IInv, SvcSetInput PROVE IInv'
<1> USE SchedulerV7MAssumption DEF Svcs
<1>q. pendSv = "none" /\ batch = << >> /\ ~raced /\ svc = "setInput" /\ Calling
  BY SvcIs, SvcQuiet DEF Calling, Leaving, SvcSetInput, InSvc
<1>b. /\ svc' = "none"
      /\ UNCHANGED << state, readyList, completedRequests, timeslice, currentThread,
                      found, pendSv, pendSvPending, reschedNeeded, dfcs, batch,
                      blockedUart, uartRequest, timer, panic, raced >>
  BY DEF SvcSetInput, threadVars, runVars, pendVars, dfcVars, requestVars, endVars
<1>0. currentThread \in Threads /\ state[currentThread] = "EReady"
  BY <1>q DEF IInv, TypeOK, SvcKnows, ThreadOrNone
<1>c. /\ input' \in [thread : ThreadOrNone, ptr : BOOLEAN, pos : 0..(BufSize + 1)]
      /\ input'.pos = input.pos /\ input'.ptr
      /\ \/ input.ptr /\ input' = input
         \/ ~input.ptr /\ input'.thread = currentThread
  <2>1. input \in [thread : ThreadOrNone, ptr : BOOLEAN, pos : 0..(BufSize + 1)]
    BY DEF IInv, TypeOK
  <2>2. CASE input.ptr
    <3>1. input' = input
      BY <2>2 DEF SvcSetInput
    <3> QED BY <2>1, <2>2, <3>1
  <2>3. CASE ~input.ptr
    <3>1. input' = [input EXCEPT !.thread = currentThread, !.ptr = TRUE]
      BY <2>3 DEF SvcSetInput
    <3>2. input' = [thread |-> currentThread, ptr |-> TRUE, pos |-> input.pos]
      BY <2>1, <3>1
    <3> QED BY <2>1, <2>3, <3>2, <1>0 DEF ThreadOrNone
  <2> QED BY <2>2, <2>3
<1>1. ListOK' /\ WaitersOK'
  BY <1>b DEF IInv, ListOK, WaitersOK
<1>2. TypeOK'
  BY <1>b, <1>c DEF IInv, TypeOK, SvcSteps
<1>3. SvcKnows' /\ PendSvKnows'
  BY <1>b, <1>c, <1>0, <1>q DEF IInv, SvcKnows, PendSvKnows, Calling, Leaving
<1>4. ExitsKnow'
  BY <1>b, <1>q, ExitsFrame DEF IInv, ExitsKnow, Calling, Leaving, DyingStay
<1>5. InputKnows'
  BY <1>b, <1>c, <1>q DEF IInv, TypeOK, InputKnows, Has, Once
<1> QED BY <1>1, <1>2, <1>3, <1>4, <1>5 DEF IInv

\* The one DFC for the exit.
LEMMA SvcExitQueueInv == ASSUME IInv, SvcExitQueue PROVE IInv'
<1> USE SchedulerV7MAssumption DEF Svcs
<1>q. pendSv = "none" /\ batch = << >> /\ ~raced /\ svc = "exitQueue"
  BY SvcIs, SvcQuiet DEF Calling, Leaving, SvcExitQueue, InSvc
<1>b. /\ svc' = "find" /\ pendSvPending' = TRUE
      /\ dfcs' = Append(dfcs, Dfc("threadExit_dfc", currentThread, FALSE))
      /\ UNCHANGED << state, readyList, completedRequests, timeslice, currentThread,
                      found, pendSv, reschedNeeded, batch, blockedUart, uartRequest,
                      timer, input, panic, raced >>
  BY DEF SvcExitQueue, threadVars, runVars, pendVars, dfcVars, requestVars, endVars
<1>c. currentThread \in Threads /\ state[currentThread] = "EDying"
  BY <1>q DEF IInv, TypeOK, SvcKnows, ThreadOrNone
<1> DEFINE d == Dfc("threadExit_dfc", currentThread, FALSE)
<1>d. d \in Dfcs /\ d.fn = Exit /\ d.fn # Input /\ d.thread = currentThread
  BY <1>c, DfcsAre
<1>e. dfcs \in Seq(Dfcs) /\ dfcs' = Append(dfcs, d)
  BY <1>b DEF IInv, TypeOK
<1> HIDE DEF d
<1>f. /\ dfcs' \in Seq(Dfcs) /\ Len(dfcs') = Len(dfcs) + 1 /\ dfcs' # << >>
      /\ Has(dfcs', Input) <=> Has(dfcs, Input)
      /\ Once(dfcs, Input) => Once(dfcs', Input)
      /\ Once(dfcs', Exit) /\ ExitsAreDying(dfcs')
  BY <1>c, <1>d, <1>e, <1>q, AppendDfc DEF IInv, ExitsKnow, Leaving
<1>g. ~Has(batch, Exit) /\ ~Has(batch, Input)
  BY <1>q DEF Has
<1>1. ListOK' /\ WaitersOK'
  BY <1>b DEF IInv, ListOK, WaitersOK
<1>2. TypeOK'
  BY <1>b, <1>f DEF IInv, TypeOK, SvcSteps
<1>3. SvcKnows' /\ PendSvKnows'
  BY <1>b, <1>c, <1>q DEF IInv, SvcKnows, PendSvKnows, Calling, Leaving
<1>4. ExitsKnow'
  <2>1. ExitsAreDying(dfcs)' /\ ExitsAreDying(batch)'
    BY <1>b, <1>f DEF IInv, ExitsKnow, ExitsAreDying
  <2> QED BY <1>b, <1>f, <1>g, <2>1 DEF IInv, ExitsKnow, Calling, Leaving, Once, Has, Exit
<1>5. InputKnows'
  BY <1>b, <1>f, <1>g, <1>q DEF IInv, InputKnows, Has, Once, Input
<1> QED BY <1>1, <1>2, <1>3, <1>4, <1>5 DEF IInv

\* The steps of an SVC keep the invariant.
LEMMA SvcInv == ASSUME IInv, SvcStep PROVE IInv'
<1>1. SvcArmTimerTaken => IInv'
  BY StopInv DEF SvcArmTimerTaken, Panics
<1>2. SvcSetInputOther => IInv'
  BY StopInv DEF SvcSetInputOther, Panics
<1>3. SvcExitQueueFails => IInv'
  BY StopInv DEF SvcExitQueueFails, Panics
<1> QED BY <1>1, <1>2, <1>3, SvcYieldInv, SvcWaitCheckInv, SvcWaitBlockInv,
           SvcGetchBlockInv, SvcGetchRegisterInv, SvcGetchAsyncInv,
           SvcAsyncStoreInv, SvcSetTimerInv, SvcArmTimerInv,
           SvcSetInputInv, SvcThreadCreateInv, SvcThreadExitInv, SvcExitQueueInv,
           SvcFindInv, SvcIdleFindInv, SvcScheduleInv DEF SvcStep

-----------------------------------------------------------------------------
(* Calls and interrupts.                                                   *)

\* No DFC is queued when a thread runs and no PendSV is pending.
LEMMA CallInv == ASSUME IInv, NEW step \in Svcs, Call(step) PROVE IInv'
<1> USE SchedulerV7MAssumption DEF Svcs
<1>b. /\ svc = "none" /\ svc' = step /\ pendSv = "none" /\ ~pendSvPending
      /\ UNCHANGED << state, readyList, completedRequests, timeslice, currentThread,
                      found, pendSv, pendSvPending, reschedNeeded, dfcs, batch,
                      blockedUart, uartRequest, timer, input, panic, raced >>
  BY DEF Call, threadVars, runVars, pendVars, dfcVars, requestVars, endVars
<1>c. dfcs = << >> /\ batch = << >> /\ ~raced
  BY <1>b DEF IInv, PendSvKnows, InputKnows, Has
<1>d. Calling' /\ ~Leaving'
  BY <1>b DEF Calling, Leaving
<1>1. ListOK' /\ WaitersOK'
  BY <1>b DEF IInv, ListOK, WaitersOK
<1>2. TypeOK'
  BY <1>b DEF IInv, TypeOK, SvcSteps
<1>3. SvcKnows' /\ PendSvKnows'
  BY <1>b, <1>c DEF IInv, SvcKnows, PendSvKnows, Calling, Leaving
<1>4. ExitsKnow'
  BY <1>b, <1>c, ExitsFrame DEF IInv, DyingStay, Has
<1>5. InputKnows'
  BY <1>b, <1>c, InputFrame DEF IInv
<1> QED BY <1>1, <1>2, <1>3, <1>4, <1>5 DEF IInv

\* sysTick: a timeslice that expires leaves the list's threads, and what is put
\* off finds PendSV pending.
LEMMA TickInv == ASSUME IInv, Tick PROVE IInv'
<1> USE SchedulerV7MAssumption DEF Svcs
<1>b. /\ timeslice' = IF SliceApplies /\ timeslice > 0 THEN timeslice - 1 ELSE timeslice
      /\ readyList' = IF SliceApplies /\ timeslice <= 1
                      THEN YieldInList(readyList, currentThread) ELSE readyList
      /\ reschedNeeded' = (reschedNeeded \/ (SliceApplies /\ timeslice <= 1))
      /\ UNCHANGED << state, completedRequests, currentThread, found, svc, pendSv,
                      batch, blockedUart, uartRequest, input, panic, raced >>
  BY DEF Tick, threadVars, runVars, pendVars, dfcVars, requestVars, endVars
<1>c. /\ timeslice \in 0..Timeslice /\ timeslice' \in 0..Timeslice
      /\ reschedNeeded' \in BOOLEAN /\ pendSvPending' \in BOOLEAN
      /\ timeslice' = 0 => timeslice = 0 \/ reschedNeeded'
      /\ reschedNeeded => reschedNeeded'
      /\ pendSvPending => pendSvPending'
      /\ reschedNeeded' => reschedNeeded \/ pendSvPending'
  <2> DEFINE expires == SliceApplies /\ timeslice <= 1
  <2>1. timeslice \in 0..Timeslice /\ reschedNeeded \in BOOLEAN /\ pendSvPending \in BOOLEAN
    BY DEF IInv, TypeOK
  <2>2. pendSvPending' = TRUE \/ pendSvPending' = (pendSvPending \/ expires)
    BY DEF Tick
  <2>3. reschedNeeded' = (reschedNeeded \/ expires) /\ expires \in BOOLEAN
    BY <1>b
  <2>4. timeslice' \in 0..Timeslice /\ (timeslice' = 0 => timeslice = 0 \/ expires)
    BY <1>b, <2>1
  <2> HIDE DEF expires
  <2> QED BY <2>1, <2>2, <2>3, <2>4
<1>d. timer \in [thread : ThreadOrNone, ptr : BOOLEAN, armed : BOOLEAN] /\ dfcs \in Seq(Dfcs)
  BY DEF IInv, TypeOK
<1>e. /\ timer' \in [thread : ThreadOrNone, ptr : BOOLEAN, armed : BOOLEAN]
      /\ timer'.thread = timer.thread /\ (timer'.armed => timer.armed)
      /\ dfcs' \in Seq(Dfcs) /\ ExitsKnow' /\ InputKnows'
      /\ dfcs' # << >> => dfcs # << >> \/ pendSvPending'
  <2>1. CASE timer' = timer /\ dfcs' = dfcs
    <3>1. ExitsKnow'
      BY <1>b, <2>1, ExitsFrame DEF IInv, ExitsKnow, Calling, Leaving, DyingStay
    <3>2. InputKnows'
      BY <1>b, <2>1, InputFrame DEF IInv, InputKnows
    <3> QED BY <1>d, <2>1, <3>1, <3>2
  <2>2. CASE /\ timer.armed /\ pendSvPending'
             /\ dfcs' = Append(dfcs, Dfc("do_request_complete", timer.thread, timer.ptr))
             /\ timer' = [timer EXCEPT !.ptr = FALSE, !.armed = FALSE]
    <3> DEFINE d == Dfc("do_request_complete", timer.thread, timer.ptr)
    <3>1. timer' = [thread |-> timer.thread, ptr |-> FALSE, armed |-> FALSE]
      BY <1>d, <2>2
    <3>2. timer.thread \in Threads /\ timer.ptr \in BOOLEAN
      BY <1>d, <2>2 DEF IInv, SvcKnows, ThreadOrNone
    <3>3. d \in Dfcs /\ d.fn \notin {Exit, Input} /\ dfcs' = Append(dfcs, d)
      BY <2>2, <3>2, DfcsAre
    <3> HIDE DEF d
    <3>4. dfcs' \in Seq(Dfcs) /\ ExitsKnow' /\ InputKnows'
      BY <1>b, <3>3, OtherDfcFrame
    <3>5. /\ timer'.armed = FALSE /\ timer'.thread = timer.thread
          /\ timer' \in [thread : ThreadOrNone, ptr : BOOLEAN, armed : BOOLEAN]
      BY <1>d, <3>1
    <3> QED BY <2>2, <3>4, <3>5
  <2> QED BY <2>1, <2>2 DEF Tick
<1>1. ListOK' /\ WaitersOK'
  <2>1. ListOK'
    <3>1. CASE SliceApplies /\ timeslice <= 1
      <4>1. currentThread \in Threads /\ state[currentThread] = "EReady"
        BY <3>1 DEF IInv, TypeOK, SliceApplies, ThreadOrNone
      <4> QED BY <1>b, <3>1, <4>1, YieldIs DEF IInv
    <3>2. CASE ~(SliceApplies /\ timeslice <= 1)
      BY <1>b, <3>2 DEF IInv, ListOK
    <3> QED BY <3>1, <3>2
  <2> QED BY <1>b, <2>1 DEF IInv, WaitersOK
<1>2. TypeOK'
  BY <1>b, <1>c, <1>e, <1>1 DEF IInv, TypeOK, ListOK
<1>3. SvcKnows' /\ PendSvKnows'
  <2>1. SvcKnows'
    BY <1>b, <1>e DEF IInv, SvcKnows, Calling
  <2>2. /\ dfcs' # << >> => pendSvPending' \/ pendSv = "copy"
        /\ reschedNeeded' => pendSvPending' \/ pendSv \in {"copy", "run", "inputDone"}
    BY <1>c, <1>e DEF IInv, PendSvKnows
  <2>3. currentThread # None /\ timeslice' = 0 =>
          reschedNeeded' \/ pendSv \in {"find", "schedule"}
    BY <1>c DEF IInv, PendSvKnows
  <2> QED BY <1>b, <2>1, <2>2, <2>3 DEF IInv, PendSvKnows
<1> QED BY <1>1, <1>2, <1>3, <1>e DEF IInv

\* The thread that is woken was registered, so it is not between its two steps.
LEMMA UartByteInv == ASSUME IInv, UartByte PROVE IInv'
<1> USE SchedulerV7MAssumption DEF Svcs
<1>b. /\ blockedUart # None /\ SetReady(blockedUart) /\ blockedUart' = None
      /\ UNCHANGED << completedRequests, timeslice, currentThread, found, svc,
                      pendSv, pendSvPending, reschedNeeded, dfcs, batch, uartRequest,
                      timer, input, panic, raced >>
  BY DEF UartByte, threadVars, runVars, pendVars, dfcVars, requestVars, endVars
<1>c. blockedUart \in Threads /\ state[blockedUart] = "EBlockedFromSvc"
  BY <1>b DEF IInv, TypeOK, WaitersOK, ThreadOrNone
<1>d. /\ ListOK'
      /\ \A u \in Threads : state'[u] = IF u = blockedUart THEN "EReady" ELSE state[u]
  BY <1>b, <1>c, SetReadyIs DEF IInv
<1>1. ListOK' /\ WaitersOK'
  BY <1>b, <1>c, <1>d DEF IInv, WaitersOK
<1>2. TypeOK'
  BY <1>b, <1>d DEF IInv, TypeOK, ListOK, ThreadOrNone
<1>3. SvcKnows' /\ PendSvKnows'
  <2>1. SvcKnows'
    BY <1>b, <1>c, <1>d DEF IInv, TypeOK, SvcKnows, Calling, ThreadOrNone
  <2> QED BY <1>b, <2>1 DEF IInv, PendSvKnows
<1>4. ExitsKnow'
  BY <1>b, <1>c, <1>d, ExitsFrame DEF IInv, ExitsKnow, Calling, Leaving, DyingStay
<1>5. InputKnows'
  BY <1>b, InputFrame DEF IInv, InputKnows
<1> QED BY <1>1, <1>2, <1>3, <1>4, <1>5 DEF IInv

\* buttonEvent: there is one DFC for the samples, and a second only if they come
\* after the first DFC has taken those before.
LEMMA PressInv == ASSUME IInv, Press PROVE IInv'
<1> USE SchedulerV7MAssumption DEF Svcs
<1>b. /\ input.ptr /\ input.pos <= BufSize /\ input' = [input EXCEPT !.pos = @ + 1]
      /\ IF input.pos = 0 THEN dfcs' = Append(dfcs, InputDfc) /\ pendSvPending' = TRUE
                          ELSE dfcs' = dfcs /\ pendSvPending' = pendSvPending
      /\ raced' = (raced \/ pendSv = "inputDone")
      /\ UNCHANGED << state, readyList, completedRequests, timeslice, currentThread,
                      found, svc, pendSv, reschedNeeded, batch, blockedUart,
                      uartRequest, timer, panic >>
  BY DEF Press, threadVars, runVars, pendVars, dfcVars, requestVars, endVars
<1>c. /\ input' \in [thread : ThreadOrNone, ptr : BOOLEAN, pos : 0..(BufSize + 1)]
      /\ input'.thread = input.thread /\ input'.ptr /\ input'.pos > 0 /\ input.pos \in Nat
  <2>1. input \in [thread : ThreadOrNone, ptr : BOOLEAN, pos : 0..(BufSize + 1)]
    BY DEF IInv, TypeOK
  <2>2. input' = [thread |-> input.thread, ptr |-> input.ptr, pos |-> input.pos + 1]
    BY <1>b, <2>1
  <2>3. input.pos + 1 \in 0..(BufSize + 1) /\ input.pos + 1 > 0
    BY <1>b, <2>1
  <2> QED BY <1>b, <2>1, <2>2, <2>3
<1>d. dfcs \in Seq(Dfcs)
  BY DEF IInv, TypeOK
<1>e. /\ dfcs' \in Seq(Dfcs)
      /\ dfcs' # << >> => dfcs # << >> \/ pendSvPending'
      /\ Has(dfcs', Exit) <=> Has(dfcs, Exit)
      /\ Once(dfcs, Exit) => Once(dfcs', Exit)
      /\ ExitsAreDying(dfcs) => ExitsAreDying(dfcs')
      /\ Has(dfcs', Input) <=> Has(dfcs, Input) \/ input.pos = 0
      /\ Once(dfcs, Input) /\ ~(Has(dfcs, Input) /\ input.pos = 0) => Once(dfcs', Input)
      /\ pendSvPending \/ input.pos = 0 => pendSvPending' = TRUE
      /\ pendSvPending' \in BOOLEAN
  <2>1. CASE input.pos # 0
    <3>1. dfcs' = dfcs /\ pendSvPending' = pendSvPending /\ pendSvPending \in BOOLEAN
      BY <1>b, <2>1 DEF IInv, TypeOK
    <3> QED BY <1>d, <2>1, <3>1
  <2>2. CASE input.pos = 0
    <3>1. dfcs' = Append(dfcs, InputDfc) /\ pendSvPending' = TRUE
      BY <1>b, <2>2
    <3>2. InputDfc \in Dfcs /\ InputDfc.fn = Input /\ InputDfc.fn # Exit
      BY DEF Dfcs, InputDfc, Dfc, Input, Exit
    <3>3. /\ dfcs' \in Seq(Dfcs) /\ Len(dfcs') = Len(dfcs) + 1
          /\ Has(dfcs', Exit) <=> Has(dfcs, Exit)
          /\ Once(dfcs, Exit) => Once(dfcs', Exit)
          /\ ExitsAreDying(dfcs) => ExitsAreDying(dfcs')
          /\ Has(dfcs', Input)
          /\ Once(dfcs, Input) /\ ~Has(dfcs, Input) => Once(dfcs', Input)
      BY <1>d, <3>1, <3>2, AppendDfc
    <3> QED BY <2>2, <3>1, <3>3
  <2> QED BY <2>1, <2>2
<1>f. pendSv = "inputDone" => svc \in {"none", "idle"} /\ Has(batch, Input)
  <2>1. pendSv = "inputDone" => /\ svc \in {"none", "idle"} /\ batch \in Seq(Dfcs)
                               /\ batch # << >> /\ Head(batch).fn = Input
    BY DEF IInv, TypeOK, PendSvKnows, Input
  <2> QED BY <2>1, TailDfc
<1>1. ListOK' /\ WaitersOK'
  BY <1>b DEF IInv, ListOK, WaitersOK
<1>2. TypeOK'
  BY <1>b, <1>c, <1>e DEF IInv, TypeOK
<1>3. SvcKnows' /\ PendSvKnows'
  <2>1. SvcKnows'
    BY <1>b, <1>c DEF IInv, SvcKnows, Calling
  <2>2. /\ dfcs' # << >> => pendSvPending' \/ pendSv = "copy"
        /\ reschedNeeded => pendSvPending' \/ pendSv \in {"copy", "run", "inputDone"}
    BY <1>e DEF IInv, PendSvKnows
  <2> QED BY <1>b, <2>1, <2>2 DEF IInv, PendSvKnows
<1>4. ExitsKnow'
  <2>1. ExitsAreDying(dfcs)' /\ ExitsAreDying(batch)'
    BY <1>b, <1>e DEF IInv, ExitsKnow, ExitsAreDying
  <2> QED BY <1>b, <1>e, <2>1 DEF IInv, ExitsKnow, Calling, Leaving, Once, Has, Exit
<1>5. InputKnows'
  <2>1. ~(Has(dfcs, Input) /\ input.pos = 0)
    BY <1>b, <1>f DEF IInv, InputKnows
  <2>2. Once(dfcs', Input) /\ Once(batch', Input)
    BY <1>b, <1>e, <2>1 DEF IInv, InputKnows
  <2>3. raced => pendSv = "inputDone" /\ Has(dfcs, Input)
    BY <1>b DEF IInv, InputKnows
  <2>4. ASSUME pendSv = "inputDone" PROVE Has(dfcs', Input)
    BY <1>e, <2>3, <2>4 DEF IInv, InputKnows
  <2>5. ASSUME pendSv # "inputDone"
        PROVE  Has(dfcs', Input) <=> ~Has(batch, Input)
    BY <1>b, <1>c, <1>e, <2>3, <2>5 DEF IInv, InputKnows
  <2>6. raced' <=> pendSv = "inputDone"
    BY <1>b, <2>3
  <2> QED BY <1>b, <1>c, <1>f, <2>2, <2>4, <2>5, <2>6 DEF InputKnows
<1> QED BY <1>1, <1>2, <1>3, <1>4, <1>5 DEF IInv

\* The uart's request is completed: a DFC about the thread that made it.
LEMMA UartByteAsyncInv == ASSUME IInv, UartByteAsync PROVE IInv'
<1> USE SchedulerV7MAssumption DEF Svcs
<1>b. /\ uartRequest # None /\ uartRequest' = None /\ pendSvPending' = TRUE
      /\ dfcs' = Append(dfcs, Dfc("do_request_complete", uartRequest, TRUE))
      /\ UNCHANGED << state, readyList, completedRequests, timeslice, currentThread,
                      found, svc, pendSv, reschedNeeded, batch, blockedUart, timer,
                      input, panic, raced >>
  BY DEF UartByteAsync, threadVars, runVars, pendVars, dfcVars, requestVars, endVars
<1> DEFINE d == Dfc("do_request_complete", uartRequest, TRUE)
<1>c. uartRequest \in Threads
  BY <1>b DEF IInv, TypeOK, ThreadOrNone
<1>d. d \in Dfcs /\ d.fn \notin {Exit, Input} /\ dfcs' = Append(dfcs, d)
  BY <1>b, <1>c, DfcsAre
<1> HIDE DEF d
<1>4. dfcs' \in Seq(Dfcs) /\ ExitsKnow' /\ InputKnows'
  BY <1>b, <1>d, OtherDfcFrame
<1>1. ListOK' /\ WaitersOK'
  BY <1>b DEF IInv, ListOK, WaitersOK
<1>2. TypeOK'
  BY <1>b, <1>4 DEF IInv, TypeOK, ThreadOrNone
<1>3. SvcKnows' /\ PendSvKnows'
  <2>1. SvcKnows'
    BY <1>b DEF IInv, SvcKnows, Calling
  <2> QED BY <1>b, <2>1 DEF IInv, PendSvKnows
<1> QED BY <1>1, <1>2, <1>3, <1>4 DEF IInv

\* The next half of the buffer of the audio is to be filled.
LEMMA DaccInv == ASSUME IInv, Dacc PROVE IInv'
<1> USE SchedulerV7MAssumption DEF Svcs
<1>b. /\ dfcs' = Append(dfcs, AudioDfc) /\ pendSvPending' = TRUE
      /\ UNCHANGED << state, readyList, completedRequests, timeslice, currentThread,
                      found, svc, pendSv, reschedNeeded, batch, blockedUart,
                      uartRequest, timer, input, panic, raced >>
  BY DEF Dacc, threadVars, runVars, pendVars, dfcVars, requestVars, endVars
<1>c. AudioDfc \in Dfcs /\ AudioDfc.fn \notin {Exit, Input}
  BY DEF AudioDfc, Dfcs, Dfc, Exit, Input
<1>4. dfcs' \in Seq(Dfcs) /\ ExitsKnow' /\ InputKnows'
  BY <1>b, <1>c, OtherDfcFrame
<1>1. ListOK' /\ WaitersOK'
  BY <1>b DEF IInv, ListOK, WaitersOK
<1>2. TypeOK'
  BY <1>b, <1>4 DEF IInv, TypeOK
<1>3. SvcKnows' /\ PendSvKnows'
  <2>1. SvcKnows'
    BY <1>b DEF IInv, SvcKnows, Calling
  <2> QED BY <1>b, <2>1 DEF IInv, PendSvKnows
<1> QED BY <1>1, <1>2, <1>3, <1>4 DEF IInv

\* Interrupts keep the invariant.
LEMMA InterruptInv == ASSUME IInv, Interrupt PROVE IInv'
<1>1. DfcQueueFails => IInv'
  BY StopInv DEF DfcQueueFails, Panics
<1>2. ListIsTorn => IInv'
  BY StopInv DEF ListIsTorn, Panics
<1> QED BY <1>1, <1>2, TickInv, UartByteInv, UartByteAsyncInv, PressInv, DaccInv
        DEF Interrupt

-----------------------------------------------------------------------------
(* The steps of PendSV.                                                    *)

\* No SVC is in progress, unless it is idle.
LEMMA PendSvQuiet ==
  ASSUME IInv, pendSv # "none"
  PROVE  svc \in {"none", "idle"} /\ ~Calling /\ ~Leaving
BY SchedulerV7MAssumption DEF IInv, PendSvKnows, Calling, Leaving, Svcs

\* What was pending is now in hand.
LEMMA PendSvEnterInv == ASSUME IInv, PendSvEnter PROVE IInv'
<1> USE SchedulerV7MAssumption DEF Svcs
<1>b. /\ pendSv = "none" /\ svc \in {"none", "idle"}
      /\ pendSvPending' = FALSE /\ pendSv' = "copy"
      /\ UNCHANGED << state, readyList, completedRequests, timeslice, currentThread,
                      found, svc, reschedNeeded, dfcs, batch, blockedUart,
                      uartRequest, timer, input, panic, raced >>
  BY DEF PendSvEnter, threadVars, runVars, pendVars, dfcVars, requestVars, endVars
<1>1. ListOK' /\ WaitersOK'
  BY <1>b DEF IInv, ListOK, WaitersOK
<1>2. TypeOK'
  BY <1>b DEF IInv, TypeOK, PendSvSteps
<1>3. SvcKnows' /\ PendSvKnows'
  <2>1. SvcKnows'
    BY <1>b DEF IInv, SvcKnows, Calling
  <2> QED BY <1>b, <2>1 DEF IInv, PendSvKnows
<1>4. ExitsKnow'
  BY <1>b, ExitsFrame DEF IInv, ExitsKnow, Calling, Leaving, DyingStay
<1>5. InputKnows'
  BY <1>b, InputFrame DEF IInv, InputKnows
<1> QED BY <1>1, <1>2, <1>3, <1>4, <1>5 DEF IInv

\* The queue is empty again, and its DFCs are in the batch.
LEMMA PendSvCopyInv == ASSUME IInv, PendSvCopy PROVE IInv'
<1> USE SchedulerV7MAssumption DEF Svcs
<1>a. pendSv = "copy" /\ svc \in {"none", "idle"} /\ ~Calling /\ ~Leaving
  BY PendSvQuiet DEF PendSvCopy
<1>b. /\ batch' = dfcs /\ dfcs' = << >> /\ pendSv' = "run"
      /\ UNCHANGED << state, readyList, completedRequests, timeslice, currentThread,
                      found, svc, pendSvPending, reschedNeeded, blockedUart,
                      uartRequest, timer, input, panic, raced >>
  BY DEF PendSvCopy, threadVars, runVars, pendVars, dfcVars, requestVars, endVars
<1>c. /\ batch = << >> /\ dfcs \in Seq(Dfcs) /\ Len(dfcs') = 0 /\ dfcs' \in Seq(Dfcs)
      /\ \A fn : ~Has(batch, fn) /\ ~Has(dfcs', fn) /\ Once(dfcs', fn)
  BY <1>a, <1>b DEF IInv, TypeOK, PendSvKnows, Has, Once
<1>d. \A fn : Has(dfcs, fn) => Len(dfcs) >= 1
  BY <1>c DEF Has
<1>1. ListOK' /\ WaitersOK'
  BY <1>b DEF IInv, ListOK, WaitersOK
<1>2. TypeOK'
  BY <1>b, <1>c DEF IInv, TypeOK, PendSvSteps
<1>3. SvcKnows' /\ PendSvKnows'
  <2>1. SvcKnows'
    BY <1>b DEF IInv, SvcKnows, Calling
  <2> QED BY <1>a, <1>b, <2>1 DEF IInv, PendSvKnows
<1>4. ExitsKnow'
  <2>1. ExitsAreDying(dfcs)' /\ ExitsAreDying(batch)'
    BY <1>b, <1>c DEF IInv, ExitsKnow, ExitsAreDying
  <2>2. Once(batch', Exit) /\ ~Has(dfcs', Exit) /\ Once(dfcs', Exit)
    BY <1>b, <1>c DEF IInv, ExitsKnow
  <2> QED BY <2>1, <2>2 DEF ExitsKnow
<1>5. InputKnows'
  <2>1. Has(batch', Input) <=> Has(dfcs, Input)
    BY <1>b
  <2> QED BY <1>a, <1>b, <1>c, <2>1 DEF IInv, InputKnows
<1> QED BY <1>1, <1>2, <1>3, <1>4, <1>5 DEF IInv

\* A request completes: only a thread that waits changes.
LEMMA DfcCompleteInv == ASSUME IInv, DfcComplete PROVE IInv'
<1> USE SchedulerV7MAssumption DEF Svcs
<1>a. pendSv = "run" /\ svc \in {"none", "idle"} /\ ~Calling /\ ~Leaving
  BY PendSvQuiet DEF DfcComplete, InBatch
<1>b. /\ RequestSignal(Head(batch).thread) /\ batch' = Tail(batch)
      /\ UNCHANGED << timeslice, currentThread, found, svc, pendSv, pendSvPending,
                      reschedNeeded, dfcs, blockedUart, uartRequest, timer, input,
                      panic, raced >>
  BY DEF DfcComplete, threadVars, runVars, pendVars, dfcVars, requestVars, endVars
<1>t. batch # << >> /\ Head(batch).fn = "do_request_complete"
  BY DEF DfcComplete, InBatch
<1>h. /\ batch' \in Seq(Dfcs) /\ Head(batch) \in Dfcs
      /\ \A fn : /\ Has(batch, fn) <=> Has(batch', fn) \/ Head(batch).fn = fn
                 /\ Once(batch, fn) => /\ Once(batch', fn)
                                       /\ ~(Has(batch', fn) /\ Head(batch).fn = fn)
      /\ ExitsAreDying(batch) => ExitsAreDying(batch')
      /\ ExitsAreDying(batch) /\ Head(batch).fn = Exit =>
           Head(batch).thread \in Threads /\ state[Head(batch).thread] = "EDying"
  BY <1>b, <1>t, TailDfc DEF IInv, TypeOK
<1>c. Head(batch).thread \in Threads
  BY <1>h, <1>t, DfcKinds
<1>d. /\ ListOK' /\ WaitersOK'
      /\ completedRequests' \in [Threads -> 0..(ReqModulus - 1)]
      /\ \A u \in Threads : \/ state'[u] = state[u]
                            \/ state[u] = "EWaitForRequest" /\ state'[u] = "EReady"
  BY <1>b, <1>c, RequestSignalIs DEF IInv, TypeOK
<1>1. ListOK' /\ WaitersOK'
  BY <1>d
<1>2. TypeOK'
  BY <1>b, <1>d, <1>h DEF IInv, TypeOK, ListOK
<1>3. SvcKnows' /\ PendSvKnows'
  <2>1. SvcKnows'
    BY <1>a, <1>b, <1>d DEF IInv, TypeOK, SvcKnows, Calling, ThreadOrNone
  <2> QED BY <1>a, <1>b, <2>1 DEF IInv, PendSvKnows
<1>4. ExitsKnow'
  <2>a. ExitsAreDying(dfcs) /\ ExitsAreDying(batch') /\ DyingStay
    BY <1>d, <1>h DEF IInv, ExitsKnow, DyingStay
  <2>1. ExitsAreDying(dfcs)' /\ ExitsAreDying(batch)'
    BY <1>b, <2>a DEF ExitsAreDying, DyingStay, Exit
  <2>2. Once(batch', Exit) /\ (Has(batch', Exit) => Has(batch, Exit))
    BY <1>h DEF IInv, ExitsKnow
  <2>3. ~Calling' /\ ~Leaving'
    BY <1>a, <1>b DEF Calling, Leaving
  <2> QED BY <1>b, <2>1, <2>2, <2>3 DEF IInv, ExitsKnow
<1>5. InputKnows'
  <2>1. (Has(batch', Input) <=> Has(batch, Input)) /\ Once(batch', Input)
    BY <1>h, <1>t DEF IInv, InputKnows, Input
  <2> QED BY <1>a, <1>b, <2>1 DEF IInv, InputKnows
<1> QED BY <1>1, <1>2, <1>3, <1>4, <1>5 DEF IInv

\* The only DFC about the thread is this one.
LEMMA DfcThreadExitInv == ASSUME IInv, DfcThreadExit PROVE IInv'
<1> USE SchedulerV7MAssumption DEF Svcs
<1>a. pendSv = "run" /\ svc \in {"none", "idle"} /\ ~Calling /\ ~Leaving
  BY PendSvQuiet DEF DfcThreadExit, InBatch
<1>b. /\ SetNotReady(Head(batch).thread, "EDead") /\ batch' = Tail(batch)
      /\ UNCHANGED << completedRequests, timeslice, currentThread, found, svc,
                      pendSv, pendSvPending, reschedNeeded, dfcs, blockedUart,
                      uartRequest, timer, input, panic, raced >>
  BY DEF DfcThreadExit, threadVars, runVars, pendVars, dfcVars, requestVars, endVars
<1>t. batch # << >> /\ Head(batch).fn = "threadExit_dfc"
  BY DEF DfcThreadExit, InBatch
<1>h. /\ batch' \in Seq(Dfcs) /\ Head(batch) \in Dfcs
      /\ \A fn : /\ Has(batch, fn) <=> Has(batch', fn) \/ Head(batch).fn = fn
                 /\ Once(batch, fn) => /\ Once(batch', fn)
                                       /\ ~(Has(batch', fn) /\ Head(batch).fn = fn)
      /\ ExitsAreDying(batch) => ExitsAreDying(batch')
      /\ ExitsAreDying(batch) /\ Head(batch).fn = Exit =>
           Head(batch).thread \in Threads /\ state[Head(batch).thread] = "EDying"
  BY <1>b, <1>t, TailDfc DEF IInv, TypeOK
<1>c. Head(batch).thread \in Threads /\ state[Head(batch).thread] = "EDying"
  BY <1>h, <1>t DEF IInv, ExitsKnow, Exit
<1>d. /\ ListOK'
      /\ \A u \in Threads : state'[u] = IF u = Head(batch).thread THEN "EDead" ELSE state[u]
  BY <1>b, <1>c, SetNotReadyIs DEF IInv, ThreadStates
<1>e. Has(batch, Exit) /\ ~Has(batch', Exit)
  BY <1>h, <1>t DEF IInv, ExitsKnow, Exit
<1>1. ListOK' /\ WaitersOK'
  BY <1>b, <1>c, <1>d DEF IInv, TypeOK, WaitersOK, ThreadOrNone
<1>2. TypeOK'
  BY <1>b, <1>d, <1>h DEF IInv, TypeOK, ListOK
<1>3. SvcKnows' /\ PendSvKnows'
  <2>1. SvcKnows'
    BY <1>a, <1>b, <1>c, <1>d DEF IInv, TypeOK, SvcKnows, Calling, ThreadOrNone
  <2> QED BY <1>a, <1>b, <2>1 DEF IInv, PendSvKnows
<1>4. ExitsKnow'
  <2>1. ~Has(dfcs', Exit) /\ ~Has(batch', Exit)
    BY <1>b, <1>e DEF IInv, ExitsKnow
  <2>2. ExitsAreDying(dfcs)' /\ ExitsAreDying(batch)'
    BY <2>1 DEF ExitsAreDying, Has
  <2>3. Once(dfcs', Exit) /\ Once(batch', Exit)
    BY <2>1 DEF Once, Has
  <2> QED BY <2>1, <2>2, <2>3 DEF ExitsKnow
<1>5. InputKnows'
  <2>1. (Has(batch', Input) <=> Has(batch, Input)) /\ Once(batch', Input)
    BY <1>h, <1>t DEF IInv, InputKnows, Input
  <2> QED BY <1>a, <1>b, <2>1 DEF IInv, InputKnows
<1> QED BY <1>1, <1>2, <1>3, <1>4, <1>5 DEF IInv

\* completeInputRequest_dfc takes the samples.
LEMMA DfcInputInv == ASSUME IInv, DfcInput PROVE IInv'
<1> USE SchedulerV7MAssumption DEF Svcs
<1>a. pendSv = "run" /\ svc \in {"none", "idle"} /\ ~Calling /\ ~Leaving
  BY PendSvQuiet DEF DfcInput, InBatch
<1>b. /\ input' = [input EXCEPT !.pos = 0] /\ pendSv' = "inputDone"
      /\ UNCHANGED << state, readyList, completedRequests, timeslice, currentThread,
                      found, svc, pendSvPending, reschedNeeded, dfcs, batch,
                      blockedUart, uartRequest, timer, panic, raced >>
  BY DEF DfcInput, threadVars, runVars, pendVars, dfcVars, requestVars, endVars
<1>c. /\ input' \in [thread : ThreadOrNone, ptr : BOOLEAN, pos : 0..(BufSize + 1)]
      /\ input'.thread = input.thread /\ input'.ptr = input.ptr /\ input'.pos = 0
  <2>1. input \in [thread : ThreadOrNone, ptr : BOOLEAN, pos : 0..(BufSize + 1)]
    BY DEF IInv, TypeOK
  <2>2. input' = [thread |-> input.thread, ptr |-> input.ptr, pos |-> 0]
    BY <1>b, <2>1
  <2>3. 0 \in 0..(BufSize + 1)
    OBVIOUS
  <2> QED BY <2>1, <2>2, <2>3
<1>t. batch # << >> /\ Head(batch).fn = Input
  BY DEF DfcInput, InBatch, Input
<1>h. Has(batch, Input)
  BY <1>t, TailDfc DEF IInv, TypeOK
<1>1. ListOK' /\ WaitersOK'
  BY <1>b DEF IInv, ListOK, WaitersOK
<1>2. TypeOK'
  BY <1>b, <1>c DEF IInv, TypeOK, PendSvSteps
<1>3. SvcKnows' /\ PendSvKnows'
  <2>1. SvcKnows'
    BY <1>a, <1>b, <1>c DEF IInv, SvcKnows, Calling
  <2> QED BY <1>a, <1>b, <1>t, <2>1 DEF IInv, PendSvKnows, Input
<1>4. ExitsKnow'
  BY <1>a, <1>b, ExitsFrame DEF IInv, ExitsKnow, Calling, Leaving, DyingStay
<1>5. InputKnows'
  <2>1. /\ Has(batch', Input) /\ (Has(dfcs', Input) <=> Has(dfcs, Input))
        /\ Once(dfcs', Input) /\ Once(batch', Input)
    BY <1>b, <1>h DEF IInv, InputKnows
  <2>2. raced => ~input.ptr
    BY <1>a DEF IInv, InputKnows
  <2>3. ~raced => input.ptr /\ ~Has(dfcs, Input)
    BY <1>h DEF IInv, InputKnows
  <2> QED BY <1>a, <1>b, <1>c, <2>1, <2>2, <2>3 DEF IInv, InputKnows
<1> QED BY <1>1, <1>2, <1>3, <1>4, <1>5 DEF IInv

\* A second DFC for input is queued exactly if a button went down meanwhile.
LEMMA DfcInputDoneInv == ASSUME IInv, DfcInputDone PROVE IInv'
<1> USE SchedulerV7MAssumption DEF Svcs
<1>a. pendSv = "inputDone" /\ svc \in {"none", "idle"} /\ ~Calling /\ ~Leaving
  BY PendSvQuiet DEF DfcInputDone
<1>b. /\ input.ptr /\ RequestSignal(input.thread) /\ input' = [input EXCEPT !.ptr = FALSE]
      /\ batch' = Tail(batch) /\ pendSv' = "run"
      /\ UNCHANGED << timeslice, currentThread, found, svc, pendSvPending,
                      reschedNeeded, dfcs, blockedUart, uartRequest, timer, panic,
                      raced >>
  BY DEF DfcInputDone, threadVars, runVars, pendVars, dfcVars, requestVars, endVars
<1>t. batch # << >> /\ Head(batch).fn = "completeInputRequest_dfc"
  BY <1>a DEF IInv, PendSvKnows
<1>h. /\ batch' \in Seq(Dfcs) /\ Head(batch) \in Dfcs
      /\ \A fn : /\ Has(batch, fn) <=> Has(batch', fn) \/ Head(batch).fn = fn
                 /\ Once(batch, fn) => /\ Once(batch', fn)
                                       /\ ~(Has(batch', fn) /\ Head(batch).fn = fn)
      /\ ExitsAreDying(batch) => ExitsAreDying(batch')
      /\ ExitsAreDying(batch) /\ Head(batch).fn = Exit =>
           Head(batch).thread \in Threads /\ state[Head(batch).thread] = "EDying"
  BY <1>b, <1>t, TailDfc DEF IInv, TypeOK
<1>c. input.thread \in Threads
  BY <1>b DEF IInv, TypeOK, SvcKnows, ThreadOrNone
<1>d. /\ ListOK' /\ WaitersOK'
      /\ completedRequests' \in [Threads -> 0..(ReqModulus - 1)]
      /\ \A u \in Threads : \/ state'[u] = state[u]
                            \/ state[u] = "EWaitForRequest" /\ state'[u] = "EReady"
  BY <1>b, <1>c, RequestSignalIs DEF IInv, TypeOK
<1>e. /\ input' \in [thread : ThreadOrNone, ptr : BOOLEAN, pos : 0..(BufSize + 1)]
      /\ input'.thread = input.thread /\ ~input'.ptr /\ input'.pos = input.pos
  <2>1. input \in [thread : ThreadOrNone, ptr : BOOLEAN, pos : 0..(BufSize + 1)]
    BY DEF IInv, TypeOK
  <2>2. input' = [thread |-> input.thread, ptr |-> FALSE, pos |-> input.pos]
    BY <1>b, <2>1
  <2> QED BY <2>1, <2>2
<1>f. Has(batch, Input) /\ ~Has(batch', Input) /\ Once(batch', Input)
  BY <1>h, <1>t DEF IInv, InputKnows, Input
<1>1. ListOK' /\ WaitersOK'
  BY <1>d
<1>2. TypeOK'
  BY <1>b, <1>d, <1>e, <1>h DEF IInv, TypeOK, ListOK, PendSvSteps
<1>3. SvcKnows' /\ PendSvKnows'
  <2>1. SvcKnows'
    BY <1>a, <1>b, <1>d, <1>e DEF IInv, TypeOK, SvcKnows, Calling, ThreadOrNone
  <2> QED BY <1>a, <1>b, <2>1 DEF IInv, PendSvKnows
<1>4. ExitsKnow'
  <2>a. ExitsAreDying(dfcs) /\ ExitsAreDying(batch') /\ DyingStay
    BY <1>d, <1>h DEF IInv, ExitsKnow, DyingStay
  <2>1. ExitsAreDying(dfcs)' /\ ExitsAreDying(batch)'
    BY <1>b, <2>a DEF ExitsAreDying, DyingStay, Exit
  <2>2. Once(batch', Exit) /\ (Has(batch', Exit) => Has(batch, Exit))
    BY <1>h DEF IInv, ExitsKnow
  <2>3. ~Calling' /\ ~Leaving'
    BY <1>a, <1>b DEF Calling, Leaving
  <2> QED BY <1>b, <2>1, <2>2, <2>3 DEF IInv, ExitsKnow
<1>5. InputKnows'
  <2>1. raced => Has(dfcs, Input)
    BY <1>b DEF IInv, InputKnows
  <2>2. ~raced => ~Has(dfcs, Input) /\ input.pos = 0
    BY <1>a, <1>f DEF IInv, InputKnows
  <2>3. Once(dfcs', Input) /\ (Has(dfcs', Input) <=> Has(dfcs, Input))
    BY <1>b DEF IInv, InputKnows
  <2> QED BY <1>a, <1>b, <1>e, <1>f, <2>1, <2>2, <2>3 DEF InputKnows
<1> QED BY <1>1, <1>2, <1>3, <1>4, <1>5 DEF IInv

\* The DFC of the audio changes no thread.
LEMMA DfcFillAudioInv == ASSUME IInv, DfcFillAudio PROVE IInv'
<1> USE SchedulerV7MAssumption DEF Svcs
<1>a. pendSv = "run" /\ svc \in {"none", "idle"} /\ ~Calling /\ ~Leaving
  BY PendSvQuiet DEF DfcFillAudio, InBatch
<1>b. /\ batch' = Tail(batch)
      /\ UNCHANGED << state, readyList, completedRequests, timeslice, currentThread,
                      found, svc, pendSv, pendSvPending, reschedNeeded, dfcs,
                      blockedUart, uartRequest, timer, input, panic, raced >>
  BY DEF DfcFillAudio, threadVars, runVars, pendVars, dfcVars, requestVars, endVars
<1>t. batch # << >> /\ Head(batch).fn = "fillAudioBuf_dfc"
  BY DEF DfcFillAudio, InBatch
<1>h. /\ batch' \in Seq(Dfcs)
      /\ \A fn : /\ Has(batch, fn) <=> Has(batch', fn) \/ Head(batch).fn = fn
                 /\ Once(batch, fn) => Once(batch', fn)
      /\ ExitsAreDying(batch) => ExitsAreDying(batch')
  BY <1>b, <1>t, TailDfc DEF IInv, TypeOK
<1>1. ListOK' /\ WaitersOK'
  BY <1>b DEF IInv, ListOK, WaitersOK
<1>2. TypeOK'
  BY <1>b, <1>h DEF IInv, TypeOK
<1>3. SvcKnows' /\ PendSvKnows'
  <2>1. SvcKnows'
    BY <1>a, <1>b DEF IInv, SvcKnows, Calling
  <2> QED BY <1>a, <1>b, <2>1 DEF IInv, PendSvKnows
<1>4. ExitsKnow'
  <2>1. ExitsAreDying(dfcs)' /\ ExitsAreDying(batch)'
    BY <1>b, <1>h DEF IInv, ExitsKnow, ExitsAreDying
  <2>2. Once(batch', Exit) /\ (Has(batch', Exit) => Has(batch, Exit))
    BY <1>h DEF IInv, ExitsKnow
  <2>3. ~Calling' /\ ~Leaving'
    BY <1>a, <1>b DEF Calling, Leaving
  <2> QED BY <1>b, <2>1, <2>2, <2>3 DEF IInv, ExitsKnow
<1>5. InputKnows'
  <2>1. (Has(batch', Input) <=> Has(batch, Input)) /\ Once(batch', Input)
    BY <1>h, <1>t DEF IInv, InputKnows, Input
  <2> QED BY <1>a, <1>b, <2>1 DEF IInv, InputKnows
<1> QED BY <1>1, <1>2, <1>3, <1>4, <1>5 DEF IInv

\* A timeslice that has expired leads to the reschedule.
LEMMA PendSvCheckInv == ASSUME IInv, PendSvCheck PROVE IInv'
<1> USE SchedulerV7MAssumption DEF Svcs
<1>a. pendSv = "run" /\ svc \in {"none", "idle"} /\ ~Calling /\ ~Leaving
  BY PendSvQuiet DEF PendSvCheck
<1>b. /\ batch = << >> /\ reschedNeeded' = FALSE
      /\ pendSv' = IF reschedNeeded THEN "find" ELSE "none"
      /\ UNCHANGED << state, readyList, completedRequests, timeslice, currentThread,
                      found, svc, pendSvPending, dfcs, batch, blockedUart,
                      uartRequest, timer, input, panic, raced >>
  BY DEF PendSvCheck, threadVars, runVars, pendVars, dfcVars, requestVars, endVars
<1>1. ListOK' /\ WaitersOK'
  BY <1>b DEF IInv, ListOK, WaitersOK
<1>2. TypeOK'
  BY <1>b DEF IInv, TypeOK, PendSvSteps
<1>3. SvcKnows' /\ PendSvKnows'
  <2>1. SvcKnows'
    BY <1>a, <1>b DEF IInv, SvcKnows, Calling
  <2> QED BY <1>a, <1>b, <2>1 DEF IInv, PendSvKnows
<1>4. ExitsKnow'
  BY <1>a, <1>b, ExitsFrame DEF IInv, ExitsKnow, Calling, Leaving, DyingStay
<1>5. InputKnows'
  BY <1>a, <1>b, InputFrame DEF IInv
<1> QED BY <1>1, <1>2, <1>3, <1>4, <1>5 DEF IInv

\* The head of the ready list is ready; the SVC is none, since a thread runs.
LEMMA PendSvFindInv == ASSUME IInv, PendSvFind PROVE IInv'
<1> USE SchedulerV7MAssumption DEF Svcs
<1>a. pendSv = "find" /\ svc \in {"none", "idle"} /\ ~Calling /\ ~Leaving
  BY PendSvQuiet DEF PendSvFind
<1>b. /\ currentThread # None /\ readyList # << >>
      /\ found' = Head(readyList) /\ pendSv' = "schedule"
      /\ UNCHANGED << state, readyList, completedRequests, timeslice, currentThread,
                      svc, pendSvPending, reschedNeeded, dfcs, batch, blockedUart,
                      uartRequest, timer, input, panic, raced >>
  BY DEF PendSvFind, threadVars, runVars, pendVars, dfcVars, requestVars, endVars
<1>c. Head(readyList) \in Threads /\ state[Head(readyList)] = "EReady"
  BY <1>b, HeadIsReady DEF IInv
<1>d. svc = "none"
  BY <1>a, <1>b DEF IInv, SvcKnows
<1>1. ListOK' /\ WaitersOK'
  BY <1>b DEF IInv, ListOK, WaitersOK
<1>2. TypeOK'
  BY <1>b, <1>c DEF IInv, TypeOK, PendSvSteps, ThreadOrNone
<1>3. SvcKnows' /\ PendSvKnows'
  <2>1. SvcKnows'
    BY <1>a, <1>b, <1>c, <1>d DEF IInv, SvcKnows, Calling
  <2> QED BY <1>a, <1>b, <1>c, <1>d, <2>1 DEF IInv, PendSvKnows
<1>4. ExitsKnow'
  BY <1>a, <1>b, ExitsFrame DEF IInv, ExitsKnow, Calling, Leaving, DyingStay
<1>5. InputKnows'
  BY <1>a, <1>b, InputFrame DEF IInv
<1> QED BY <1>1, <1>2, <1>3, <1>4, <1>5 DEF IInv

\* The thread that is preempted stays ready.
LEMMA PendSvScheduleInv == ASSUME IInv, PendSvSchedule PROVE IInv'
<1> USE SchedulerV7MAssumption DEF Svcs
<1>a. pendSv = "schedule" /\ svc \in {"none", "idle"} /\ ~Calling /\ ~Leaving
  BY PendSvQuiet DEF PendSvSchedule
<1>b. /\ timeslice' = Timeslice /\ currentThread' = found /\ found' = None
      /\ pendSv' = "none"
      /\ UNCHANGED << state, readyList, completedRequests, svc, pendSvPending,
                      reschedNeeded, dfcs, batch, blockedUart, uartRequest, timer,
                      input, panic, raced >>
  BY DEF PendSvSchedule, ScheduleThread, threadVars,
         runVars, pendVars, dfcVars, requestVars, endVars
<1>c. svc = "none" /\ found # None /\ state[found] = "EReady"
  BY <1>a DEF IInv, SvcKnows, PendSvKnows
<1>1. ListOK' /\ WaitersOK'
  BY <1>b DEF IInv, ListOK, WaitersOK
<1>2. TypeOK'
  BY <1>b DEF IInv, TypeOK, PendSvSteps, ThreadOrNone
<1>3. SvcKnows' /\ PendSvKnows'
  <2>1. SvcKnows'
    BY <1>a, <1>b, <1>c DEF IInv, SvcKnows, Calling
  <2> QED BY <1>a, <1>b, <1>c, <2>1 DEF IInv, PendSvKnows
<1>4. ExitsKnow'
  BY <1>a, <1>b, ExitsFrame DEF IInv, ExitsKnow, Calling, Leaving, DyingStay
<1>5. InputKnows'
  BY <1>a, <1>b, InputFrame DEF IInv
<1> QED BY <1>1, <1>2, <1>3, <1>4, <1>5 DEF IInv

\* The steps of PendSV keep the invariant.
LEMMA PendSvInv == ASSUME IInv, PendSvStep PROVE IInv'
<1>1. DfcCompleteFails => IInv'
  BY StopInv DEF DfcCompleteFails, Panics
<1>2. DfcInputFails => IInv'
  BY StopInv DEF DfcInputFails, Panics
<1>3. PendSvFindFails => IInv'
  BY StopInv DEF PendSvFindFails, Panics
<1> QED BY <1>1, <1>2, <1>3, PendSvEnterInv, PendSvCopyInv, DfcCompleteInv,
           DfcThreadExitInv, DfcInputInv, DfcInputDoneInv, DfcFillAudioInv,
           PendSvCheckInv, PendSvFindInv, PendSvScheduleInv DEF PendSvStep

-----------------------------------------------------------------------------
(* The theorems.                                                           *)

\* One thread is ready and runs, and nothing is queued.
LEMMA InitInv == ASSUME Init PROVE IInv
<1> USE SchedulerV7MAssumption DEF Init
<1>1. PICK first \in Threads :
        /\ state = [t \in Threads |-> IF t = first THEN "EReady" ELSE "EDead"]
        /\ readyList = << first >> /\ currentThread = first
  OBVIOUS
<1>2. TypeOK
  <2>1. /\ state \in [Threads -> ThreadStates]
        /\ completedRequests \in [Threads -> 0..(ReqModulus - 1)]
        /\ readyList \in Seq(Threads)
    BY <1>1 DEF ThreadStates
  <2>2. /\ timer \in [thread : ThreadOrNone, ptr : BOOLEAN, armed : BOOLEAN]
        /\ input \in [thread : ThreadOrNone, ptr : BOOLEAN, pos : 0..(BufSize + 1)]
    BY DEF ThreadOrNone
  <2>3. dfcs \in Seq(Dfcs) /\ batch \in Seq(Dfcs) /\ timeslice \in 0..Timeslice
    OBVIOUS
  <2> HIDE DEF Init
  <2> QED BY <1>1, <2>1, <2>2, <2>3
          DEF Init, TypeOK, ThreadOrNone, SvcSteps, PendSvSteps, Panics
<1>3. ListOK /\ WaitersOK
  <2>1. /\ readyList \in Seq(Threads) /\ Len(readyList) = 1 /\ readyList[1] = first
    BY <1>1
  <2>2. Distinct(readyList) /\ \A t : Contains(readyList, t) <=> t = first
    BY <2>1 DEF Distinct, Contains
  <2> QED BY <1>1, <2>1, <2>2 DEF ListOK, WaitersOK, ThreadStates
<1>4. SvcKnows /\ PendSvKnows
  BY <1>1 DEF SvcKnows, PendSvKnows, Calling
<1>5. \A fn : /\ ~Has(dfcs, fn) /\ ~Has(batch, fn)
              /\ Once(dfcs, fn) /\ Once(batch, fn)
  BY DEF Has, Once
<1>6. ExitsKnow
  BY <1>5 DEF ExitsKnow, ExitsAreDying, Has
<1>7. InputKnows
  BY <1>5 DEF InputKnows
<1> QED BY <1>2, <1>3, <1>4, <1>6, <1>7 DEF IInv

\* A step that changes nothing.
LEMMA StutterInv == ASSUME IInv, UNCHANGED vars PROVE IInv'
<1> USE DEF vars, threadVars, runVars, pendVars, dfcVars, requestVars, endVars
<1>1. TypeOK' /\ ListOK' /\ WaitersOK'
  BY DEF IInv, TypeOK, ListOK, WaitersOK
<1>2. SvcKnows' /\ PendSvKnows'
  BY DEF IInv, SvcKnows, PendSvKnows, Calling
<1>3. ExitsKnow'
  BY ExitsFrame DEF IInv, ExitsKnow, Calling, Leaving, DyingStay
<1>4. InputKnows'
  BY InputFrame DEF IInv, InputKnows
<1> QED BY <1>1, <1>2, <1>3, <1>4 DEF IInv

\* The inductive invariant holds, whatever the order of interrupts, SVCs and
\* PendSV.
THEOREM Inductive == Spec => []IInv
<1>1. Init => IInv
  BY InitInv
<1>2. IInv /\ [Next]_vars => IInv'
  <2> SUFFICES ASSUME IInv, [Next]_vars PROVE IInv'
    OBVIOUS
  <2>1. CASE Interrupt
    BY <2>1, InterruptInv
  <2>2. CASE SvcStep
    BY <2>2, SvcInv
  <2>3. CASE PendSvStep
    BY <2>3, PendSvInv
  <2>4. CASE \E t \in Threads : \E step \in Makes[t] : t = currentThread /\ Call(step)
    <3>1. PICK t \in Threads : \E step \in Makes[t] : Call(step)
      BY <2>4
    <3>2. PICK step \in Makes[t] : Call(step)
      BY <3>1
    <3>3. step \in Svcs
      BY <3>2, SchedulerV7MAssumption
    <3> QED BY <3>2, <3>3, CallInv
  <2>5. CASE UNCHANGED vars
    BY <2>5, StutterInv
  <2> QED BY <2>1, <2>2, <2>3, <2>4, <2>5 DEF Next
<1> QED BY <1>1, <1>2, PTL DEF Spec

\* The ready list is exact, threads that wait have nothing to wait for, and a
\* PendSV that preempts a thread finds one to run, for any number of threads, and
\* up to an interrupt that changes the ready list while it is being changed
\* (reschedule, thread_setState).
THEOREM ThreadsRight == Spec => []ThreadsAreRight
<1>1. IInv => ThreadsAreRight
  <2> SUFFICES ASSUME IInv PROVE ThreadsAreRight
    OBVIOUS
  <2>1. ASSUME pendSv = "find", currentThread = None PROVE svc = "idle"
    BY <2>1 DEF IInv, PendSvKnows, SvcKnows
  <2>2. ASSUME pendSv = "find", currentThread # None PROVE readyList # << >>
    <3>1. currentThread \in Threads /\ svc = "none"
      BY <2>2 DEF IInv, TypeOK, PendSvKnows, SvcKnows, ThreadOrNone
    <3>2. Contains(readyList, currentThread)
      BY <3>1 DEF IInv, ListOK, SvcKnows
    <3> QED BY <3>2 DEF Contains
  <2> QED BY <2>1, <2>2 DEF IInv, ThreadsAreRight, ListOK, WaitersOK, SvcKnows
<1> QED BY <1>1, Inductive, PTL

\* No DFC and no expired timeslice is left without a PendSV to look at it, however
\* many threads there are (doPendSv, dfc_queue).
THEOREM DeferredPending == Spec => []DeferredIsPending
<1>1. IInv => DeferredIsPending
  <2> SUFFICES ASSUME IInv PROVE DeferredIsPending
    OBVIOUS
  <2> QED BY DEF IInv, DeferredIsPending, PendSvKnows, SliceApplies
<1> QED BY <1>1, Inductive, PTL

\* The number of DFCs for input in a queue that has at most one.
LEMMA CountIs ==
  ASSUME NEW q \in Seq(Dfcs), Once(q, Input)
  PROVE  CountOf(q) = IF Has(q, Input) THEN 1 ELSE 0
<1> DEFINE S == {i \in DOMAIN q : q[i] = InputDfc}
<1>1. \A i \in DOMAIN q : q[i].fn = Input <=> q[i] = InputDfc
  <2>1. \A d \in Dfcs : d.fn = Input <=> d = InputDfc
    BY DfcKinds
  <2> QED BY <2>1
<1>2. CASE Has(q, Input)
  <2>1. PICK i \in DOMAIN q : q[i].fn = Input
    BY <1>2 DEF Has
  <2>2. S = {i}
    BY <1>1, <2>1 DEF Once
  <2> QED BY <1>2, <2>2, FS_Singleton DEF CountOf
<1>3. CASE ~Has(q, Input)
  <2>1. S = {}
    BY <1>1, <1>3 DEF Has
  <2> QED BY <1>3, <2>1, FS_EmptySet DEF CountOf
<1> QED BY <1>2, <1>3

\* A request for input is completed by exactly one DFC, unless a button goes
\* down inside that DFC, in which case it is not (completeInputRequest_dfc).
THEOREM InputIsOnce == Spec => []InputOnce
<1>1. IInv => InputOnce
  <2> SUFFICES ASSUME IInv PROVE InputOnce
    OBVIOUS
  <2>1. /\ CountOf(dfcs) = IF Has(dfcs, Input) THEN 1 ELSE 0
        /\ CountOf(batch) = IF Has(batch, Input) THEN 1 ELSE 0
    BY CountIs DEF IInv, TypeOK, InputKnows
  <2>2. /\ raced \in BOOLEAN /\ input.ptr \in BOOLEAN
        /\ pendSv = "inputDone" => Has(batch, Input)
    <3>1. pendSv = "inputDone" => /\ batch \in Seq(Dfcs) /\ batch # << >>
                                 /\ Head(batch).fn = Input
      BY DEF IInv, TypeOK, PendSvKnows, Input
    <3>2. pendSv = "inputDone" => Has(batch, Input)
      BY <3>1, TailDfc
    <3> QED BY <3>2 DEF IInv, TypeOK
  <2> DEFINE Awaited == input.ptr /\ (input.pos > 0 \/ pendSv = "inputDone")
             Total == CountOf(dfcs) + CountOf(batch)
  <2>3. CASE raced
    <3>1. CASE input.ptr
      <4>1. Awaited /\ Total = 2
        BY <2>1, <2>2, <2>3, <3>1 DEF IInv, InputKnows
      <4> QED BY <2>3, <4>1 DEF InputOnce
    <3>2. CASE ~input.ptr
      <4>1. ~Awaited /\ Total # 0
        BY <2>1, <2>3, <3>2 DEF IInv, InputKnows
      <4> QED BY <2>3, <4>1 DEF InputOnce
    <3> QED BY <3>1, <3>2
  <2>4. CASE ~raced
    <3>1. Total = IF Awaited THEN 1 ELSE 0
      BY <2>1, <2>4 DEF IInv, InputKnows
    <3>2. ~input.ptr => input.pos = 0
      BY <2>4 DEF IInv, InputKnows
    <3> HIDE DEF Awaited, Total
    <3>3. raced # (Total = (IF Awaited THEN 1 ELSE 0) /\ (~input.ptr => input.pos = 0))
      BY <2>2, <2>4, <3>1, <3>2
    <3> QED BY <3>3 DEF InputOnce, Awaited, Total
  <2> QED BY <2>3, <2>4
<1> QED BY <1>1, Inductive, PTL
=============================================================================
