----------------------------- MODULE ThreadList -----------------------------
(***************************************************************************)
(* The ready list of the ARMv6 kernel as the pointers it is made of:       *)
(* k/scheduler.c, a store at a time, under the interrupts that are enabled *)
(* in an SVC and in the DFC thread and that work on the same list.  The    *)
(* other modules take the list for the sequence of module ReadyList.       *)
(*                                                                         *)
(* Which request wakes which thread, timeslices and the contents of DFCs   *)
(* are left to module Scheduler: here a waiting thread may be woken by any *)
(* SVC, a tick may be the one that ends the timeslice, and an interrupt    *)
(* may have a DFC to run.                                                  *)
(***************************************************************************)
EXTENDS Integers, Sequences, FiniteSets, ReadyList

CONSTANTS
  Threads,    \* the user threads
  DfcThread,  \* TheSuperPage->dfcThread
  NULL        \* the null pointer

AllThreads == Threads \cup {DfcThread}
Pointers == AllThreads \cup {NULL}

\* What the theorems assume of the constants.
PointersDiffer == DfcThread \notin Threads /\ NULL \notin AllThreads

VARIABLES
  list,   \* Thread.next, Thread.prev and TheSuperPage->readyList
  state,  \* Thread.state
  currentThread,
  mode,   \* "usr", "svc" (an SVC), "dfc" (the DFC thread) or "idle"
  pc,     \* the statement of k/scheduler.c to be executed next, or "none"
  t,      \* the parameter t of the call in progress
  before, \* the parameter before of thread_enqueueBefore
  to,     \* the parameter s of thread_setState, "yield" in thread_yield
  leaves, \* whether the SVC in progress ends in reschedule()
  expired,  \* timeslice = 0
  rescheduleNeeded,  \* rescheduleNeededOnSvcExit
  panic   \* what stopped the kernel, or "none"

call == << pc, t, before, to >>
cpu  == << currentThread, mode, leaves, expired, rescheduleNeeded >>
vars == << list, state, call, cpu, panic >>

-----------------------------------------------------------------------------
(* thread_dequeue and thread_enqueueBefore: what each statement makes of   *)
(* the pointers l.                                                         *)

\* t->prev->next = t->next; t->next->prev = t->prev;
SkipNext(l, x) == [l EXCEPT !.next[l.prev[x]] = l.next[x]]
SkipPrev(l, x) == [l EXCEPT !.prev[l.next[x]] = l.prev[x]]

\* if (*head == t) ...
MoveHead(l, x) ==
  IF l.head # x THEN l
  ELSE [l EXCEPT !.head = IF x = l.next[x] THEN NULL ELSE l.next[x]]

\* t->prev = NULL; t->next = NULL;
Clear(l, x) == [l EXCEPT !.prev[x] = NULL, !.next[x] = NULL]

Dequeued(l, x) == Clear(MoveHead(SkipPrev(SkipNext(l, x), x), x), x)

\* t->next = t; t->prev = t;
LinkAlone(l, x) == [l EXCEPT !.next[x] = x, !.prev[x] = x]

\* t->next = before; t->prev = before->prev;
SetNext(l, x, b) == [l EXCEPT !.next[x] = b]
SetPrev(l, x, b) == [l EXCEPT !.prev[x] = l.prev[b]]

\* before->prev->next = t; before->prev = t;
HookNext(l, x, b) == [l EXCEPT !.next[l.prev[b]] = x]
HookPrev(l, x, b) == [l EXCEPT !.prev[b] = x]

Enqueued(l, x, b) ==
  IF b = NULL THEN LinkAlone(l, x)
  ELSE HookPrev(HookNext(SetPrev(SetNext(l, x, b), x, b), x, b), x, b)

\* TheSuperPage->readyList = t, in thread_yield only if there is no list.
SetHead(l, x) == [l EXCEPT !.head = x]

\* The parameter `before` in thread_yield.
LastOf(l) == IF l.head = NULL THEN NULL ELSE l.prev[l.head]

MadeReady(l, x) == SetHead(Enqueued(l, x, l.head), x)

Yielded(l, x) ==
  LET d == Dequeued(l, x)
      e == Enqueued(d, x, LastOf(d))
  IN  IF e.head = NULL THEN SetHead(e, x) ELSE e

\* The assertion of thread_enqueueBefore.
Unlinked(l, x) == l.prev[x] = NULL /\ l.next[x] = NULL

\* findNextReadyThread: the first ready thread from the head along next, NULL
\* if it comes back to the head; "lost" if it follows a null pointer or never
\* comes back.
FindNextReadyThread(l, st) ==
  LET at[n \in 0..Cardinality(AllThreads)] ==
        IF n = 0 THEN l.head
        ELSE IF at[n - 1] = NULL THEN NULL ELSE l.next[at[n - 1]]
      stops == {n \in DOMAIN at : \/ at[n] = NULL
                                  \/ st[at[n]] = "EReady"
                                  \/ n > 0 /\ at[n] = l.head}
  IN IF l.head = NULL THEN NULL
     ELSE IF st[l.head] = "EReady" THEN l.head
     ELSE IF stops = {} THEN "lost"
     ELSE LET x == at[CHOOSE n \in stops : \A m \in stops : n <= m]
          IN  IF x = NULL THEN "lost" ELSE IF st[x] = "EReady" THEN x ELSE NULL

-----------------------------------------------------------------------------
Init ==
  \E first \in Threads :
    LET alone == [x \in AllThreads |-> IF x = first THEN x ELSE NULL] IN
    /\ list = [next |-> alone, prev |-> alone, head |-> first]
    /\ state = [x \in AllThreads |->
                  IF x = first THEN "EReady"
                  ELSE IF x = DfcThread THEN "EBlockedFromSvc"
                  ELSE "EWaitForRequest"]
    /\ currentThread = first /\ mode = "usr"
    /\ pc = "none" /\ t = NULL /\ before = NULL /\ to = "yield"
    /\ leaves = FALSE /\ expired = FALSE /\ rescheduleNeeded = FALSE
    /\ panic = "none"

Stop(why) ==
  /\ panic' = why
  /\ UNCHANGED << list, state, call, cpu >>

\* reschedule() with the list l and the thread states st.
Reschedule(l, st) ==
  LET x == FindNextReadyThread(l, st) IN
  /\ leaves' = FALSE
  /\ currentThread' = IF x \in AllThreads THEN x ELSE NULL
  /\ mode' = IF x = DfcThread THEN "dfc" ELSE IF x \in Threads THEN "usr"
             ELSE "idle"
  /\ expired' = (x \notin AllThreads /\ expired)
  /\ panic' = IF x \in Pointers THEN "none" ELSE "lostInList"

-----------------------------------------------------------------------------
(* The SVCs and the DFC thread.                                            *)

Runs(m) == panic = "none" /\ pc = "none" /\ mode = m

\* thread_yield(x) or thread_setState(x, s) is called.
Call(first, x, s) ==
  /\ pc' = first /\ t' = x /\ to' = s
  /\ UNCHANGED << list, state, before, currentThread, expired,
                  rescheduleNeeded, panic >>

\* KExecThreadYield.
SvcYield ==
  /\ Runs("usr")
  /\ Call("skipNext", currentThread, "yield")
  /\ mode' = "svc" /\ leaves' = TRUE

\* An SVC in which the thread blocks.
SvcBlock ==
  /\ Runs("usr")
  /\ Call("skipNext", currentThread, "EWaitForRequest")
  /\ mode' = "svc" /\ leaves' = TRUE

\* thread_requestSignal, in an SVC or in a DFC.
Signal ==
  \E x \in Threads :
    state[x] = "EWaitForRequest" /\ Call("argument", x, "EReady")

SvcSignal ==
  /\ Runs("usr") /\ Signal
  /\ mode' = "svc" /\ UNCHANGED leaves

DfcSignal ==
  /\ Runs("dfc") /\ Signal
  /\ UNCHANGED << mode, leaves >>

\* The end of dfcs_run, interrupts disabled.
DfcsDone ==
  /\ Runs("dfc")
  /\ LET st == [state EXCEPT ![DfcThread] = "EBlockedFromSvc"]
         l  == Dequeued(list, DfcThread)
     IN IF NULL \in {list.prev[DfcThread], list.next[DfcThread]}
          THEN Stop("nullPointer")
          ELSE /\ list' = l /\ state' = st
               /\ Reschedule(l, st)
               /\ UNCHANGED << call, rescheduleNeeded >>

\* The end of the SVC: reschedule(), or the end of handleSvc.
SvcEnd ==
  /\ Runs("svc")
  /\ \/ leaves /\ Reschedule(list, state) /\ UNCHANGED rescheduleNeeded
     \/ /\ ~leaves /\ rescheduleNeeded
        /\ Reschedule(list, state) /\ rescheduleNeeded' = FALSE
     \/ /\ ~leaves /\ ~rescheduleNeeded
        /\ mode' = "usr"
        /\ UNCHANGED << currentThread, leaves, expired, rescheduleNeeded,
                        panic >>
  /\ UNCHANGED << list, state, call >>

\* reschedule() once more, after its WFI.
IdleLoop ==
  /\ Runs("idle") /\ list.head # NULL
  /\ Reschedule(list, state)
  /\ UNCHANGED << list, state, call, rescheduleNeeded >>

-----------------------------------------------------------------------------
(* The statements of the call in progress, each a step.                    *)

At(label) == panic = "none" /\ pc = label

Store(l, then) ==
  /\ list' = l
  /\ pc' = then
  /\ UNCHANGED << state, t, before, to, cpu, panic >>

Dequeue1 == At("skipNext") /\ IF list.prev[t] = NULL THEN Stop("nullPointer")
                              ELSE Store(SkipNext(list, t), "skipPrev")
Dequeue2 == At("skipPrev") /\ IF list.next[t] = NULL THEN Stop("nullPointer")
                              ELSE Store(SkipPrev(list, t), "moveHead")
Dequeue3 == At("moveHead") /\ Store(MoveHead(list, t), "clear")
Dequeue4 == At("clear") /\ Store(Clear(list, t),
                                 IF to = "yield" THEN "argument" ELSE "setState")

\* The parameter `before` is computed, and thread_enqueueBefore called.
Argument ==
  /\ At("argument")
  /\ before' = IF to = "yield" THEN LastOf(list) ELSE list.head
  /\ pc' = "assert"
  /\ UNCHANGED << list, state, t, to, cpu, panic >>

Assertion ==
  /\ At("assert")
  /\ IF Unlinked(list, t)
       THEN Store(list, IF before = NULL THEN "alone" ELSE "setNext")
       ELSE Stop("enqueueLinked")

EnqueueAlone == At("alone") /\ Store(LinkAlone(list, t), "setHead")
Enqueue1 == At("setNext") /\ Store(SetNext(list, t, before), "setPrev")
Enqueue2 == At("setPrev") /\ Store(SetPrev(list, t, before), "hookNext")
Enqueue3 ==
  At("hookNext") /\ IF list.prev[before] = NULL THEN Stop("nullPointer")
                    ELSE Store(HookNext(list, t, before), "hookPrev")
Enqueue4 == At("hookPrev") /\ Store(HookPrev(list, t, before), "setHead")

NewHead ==
  /\ At("setHead")
  /\ Store(IF to = "yield" /\ list.head # NULL THEN list
           ELSE SetHead(list, t),
           IF to = "yield" THEN "none" ELSE "setState")

SetState ==
  /\ At("setState")
  /\ state' = [state EXCEPT ![t] = to]
  /\ pc' = "none"
  /\ UNCHANGED << list, t, before, to, cpu, panic >>

-----------------------------------------------------------------------------
(* The interrupt handler.  Nothing comes between its own statements.       *)

\* The end of handleIrq, with a reschedule wanted: not in an SVC, in the DFC
\* thread or in reschedule() itself, which run in supervisor mode.
IrqReturn(l, st) ==
  IF mode = "usr"
    THEN Reschedule(l, st) /\ UNCHANGED rescheduleNeeded
    ELSE /\ rescheduleNeeded' = TRUE
         /\ UNCHANGED << currentThread, mode, leaves, expired, panic >>

\* tick() at the end of the timeslice of currentThread, in state EReady.
IrqTick ==
  /\ panic = "none" /\ currentThread # NULL
  /\ state[currentThread] = "EReady" /\ ~expired
  /\ LET x == currentThread
         d == Dequeued(list, x)
         b == LastOf(d)
     IN \/ /\ \/ NULL \in {list.prev[x], list.next[x]}
              \/ b # NULL /\ d.prev[b] = NULL
           /\ Stop("nullPointer")
        \/ /\ NULL \notin {list.prev[x], list.next[x]}
           /\ b # NULL => d.prev[b] # NULL
           /\ list' = Yielded(list, x)
           /\ IF mode = "usr"
                THEN Reschedule(Yielded(list, x), state) /\ UNCHANGED rescheduleNeeded
                ELSE /\ expired' = TRUE /\ rescheduleNeeded' = TRUE
                     /\ UNCHANGED << currentThread, mode, leaves, panic >>
           /\ UNCHANGED << state, call >>

\* irq_checkDfcs with DFCs pending.
IrqCheckDfcs ==
  /\ panic = "none" /\ state[DfcThread] # "EReady"
  /\ LET l  == MadeReady(list, DfcThread)
         st == [state EXCEPT ![DfcThread] = "EReady"]
     IN \/ /\ Unlinked(list, DfcThread)
           /\ list.head # NULL => list.prev[list.head] # NULL
           /\ list' = l /\ state' = st
           /\ IrqReturn(l, st)
           /\ UNCHANGED call
        \/ ~Unlinked(list, DfcThread) /\ Stop("enqueueLinked")
        \/ /\ Unlinked(list, DfcThread)
           /\ list.head # NULL /\ list.prev[list.head] = NULL
           /\ Stop("nullPointer")

-----------------------------------------------------------------------------
Kernel == \/ SvcYield \/ SvcBlock \/ SvcSignal \/ DfcSignal \/ DfcsDone
          \/ SvcEnd \/ IdleLoop
Statement == \/ Dequeue1 \/ Dequeue2 \/ Dequeue3 \/ Dequeue4 \/ Argument
             \/ Assertion \/ EnqueueAlone \/ Enqueue1 \/ Enqueue2 \/ Enqueue3
             \/ Enqueue4 \/ NewHead \/ SetState
Interrupt == IrqTick \/ IrqCheckDfcs

Next == Kernel \/ Statement \/ Interrupt
Spec == Init /\ [][Next]_vars

\* What would be the case if interrupts were disabled in thread_yield and
\* thread_setState.
QuietNext == Kernel \/ Statement \/ (pc = "none" /\ Interrupt)
QuietSpec == Init /\ [][QuietNext]_vars

-----------------------------------------------------------------------------
\* The pointers l are those of a list that holds the threads of q in turn.
Follows(i, j, n) == j = IF i = n THEN 1 ELSE i + 1
Represents(l, q) ==
  /\ Distinct(q)
  /\ l.head = IF q = << >> THEN NULL ELSE q[1]
  /\ \A i, j \in 1..Len(q) :
       Follows(i, j, Len(q)) => l.next[q[i]] = q[j] /\ l.prev[q[j]] = q[i]
  /\ \A x \in AllThreads \ ToSet(q) : l.next[x] = NULL /\ l.prev[x] = NULL

\* The list is that of the ready threads whenever nobody is at work on it, and
\* the kernel has not stopped.
ListIsReadyThreads ==
  /\ panic = "none"
  /\ pc = "none" =>
       \E q \in Seq(AllThreads) :
         /\ Represents(list, q)
         /\ ToSet(q) = {x \in AllThreads : state[x] = "EReady"}

\* thread_enqueueBefore asserts that a thread that is put into a list is in
\* none (k/scheduler.c).
EnqueuedIsInNoList == panic # "enqueueLinked"
=============================================================================
