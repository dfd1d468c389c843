----------------------------- MODULE ReadyList -----------------------------
(***************************************************************************)
(* The circular, doubly linked thread list of the kernel seen as the       *)
(* sequence of its threads read from the head along `next`.  These are the *)
(* operators of k/scheduler.c on TheSuperPage->readyList; kipc.c uses the  *)
(* same two primitives on Server.blockedClientList.                        *)
(***************************************************************************)
EXTENDS Integers, Sequences, SequencesExt

\* Each thread occurs once in the sequence q.
Distinct(q) == \A i, j \in 1..Len(q) : q[i] = q[j] => i = j

Position(q, t) == CHOOSE i \in 1..Len(q) : q[i] = t

\* thread_dequeue: the head moves to t->next when t was the head.
Dequeue(q, t) == RemoveAt(q, Position(q, t))

\* thread_enqueueBefore followed by `head = t`, as thread_setState(t, EReady)
\* does it: t becomes the head.
PushHead(q, t) == Cons(t, q)

\* thread_enqueueBefore with the head left alone: in a circular list the
\* place before the head is the end of the sequence.
EnqueueBefore(q, t, before) ==
  IF q = << >> \/ before = Head(q)
    THEN Append(q, t)
    ELSE InsertAt(q, Position(q, before), t)

\* thread_yield: t is linked in front of readyList->prev, the last thread.
YieldInList(q, t) ==
  LET rest == Dequeue(q, t)
  IN  IF rest = << >> THEN << t >> ELSE EnqueueBefore(rest, t, Last(rest))
=============================================================================
