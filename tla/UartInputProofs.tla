-------------------------- MODULE UartInputProofs --------------------------
(***************************************************************************)
(* That no byte is lost or given out twice, that a request has one answer  *)
(* and that the ring, the interrupt and the SVCs implement UartSpec, for   *)
(* any ring, any number of readers and any number of bytes.                *)
(***************************************************************************)
EXTENDS UartInput, FiniteSetTheorems, TLAPS

-----------------------------------------------------------------------------
(* The ring, without remainders: an index is never more than one round off. *)

LEMMA Constants ==
  /\ Size \in Nat /\ 2 <= Size /\ Size <= 254 /\ Full = 255
  /\ HwDepth \in Nat /\ MaxBytes \in Nat
  /\ Console \notin Readers /\ None \notin Readers /\ None # Console
BY UartInputAssumption DEF Full

LEMMA RemainderIs ==
  ASSUME NEW x \in Int, -Size <= x, x < 2 * Size
  PROVE  x % Size = IF x < 0 THEN x + Size ELSE IF x < Size THEN x ELSE x - Size
BY Constants, Z3

Slot(x) == IF x < Size THEN x ELSE x - Size

\* The ring with the indexes g and p (got and read), a = 1 when ring_pop is
\* about to advance p, holds `Count` bytes from `First` on.
First(p, a) == Slot(p + a)

Count(g, p, a) ==
  IF g = Full \/ (a = 1 /\ g = p) THEN Size - a
  ELSE IF g < First(p, a) THEN g - First(p, a) + Size ELSE g - First(p, a)

Queue(r, g, p, a) == [i \in 1..Count(g, p, a) |-> r[Slot(First(p, a) + i - 1)]]

Rings == [0..(Size - 1) -> 0..MaxBytes]
Gots == 0..(Size - 1) \cup {Full}
Ahead == IF svc.step = "advance" THEN 1 ELSE 0

LEMMA FirstIs ==
  ASSUME NEW p \in 0..Size, NEW a \in {0, 1}, p + a <= Size
  PROVE  First(p, a) \in 0..(Size - 1) /\ First(p, a) = (p + a) % Size
BY Constants, RemainderIs DEF First, Slot

LEMMA CountIs ==
  ASSUME NEW g \in Gots, NEW p \in 0..Size, NEW a \in {0, 1}, p + a <= Size
  PROVE  Count(g, p, a) \in 0..Size
BY Constants, FirstIs DEF Count, Gots

\* q is the n bytes of the ring r from f on.
Run(q, r, n, f) ==
  /\ q \in Seq(0..MaxBytes) /\ Len(q) = n
  /\ \A i \in 1..n : Slot(f + i - 1) \in 0..(Size - 1) /\ q[i] = r[Slot(f + i - 1)]

LEMMA QueueIs ==
  ASSUME NEW r \in Rings, NEW g \in Gots, NEW p \in 0..Size, NEW a \in {0, 1},
         p + a <= Size
  PROVE  Run(Queue(r, g, p, a), r, Count(g, p, a), First(p, a))
<1> USE Constants
<1> DEFINE n == Count(g, p, a)
           f == First(p, a)
<1>1. n \in 0..Size /\ f \in 0..(Size - 1)
  BY FirstIs, CountIs
<1>2. ASSUME NEW i \in 1..n PROVE Slot(f + i - 1) \in 0..(Size - 1)
  BY <1>1 DEF Slot
<1> HIDE DEF n, f
<1>3. \A i \in 1..n : r[Slot(f + i - 1)] \in 0..MaxBytes
  BY <1>2 DEF Rings
<1>4. Queue(r, g, p, a) = [i \in 1..n |-> r[Slot(f + i - 1)]]
  BY DEF Queue, n, f
<1>5. /\ Queue(r, g, p, a) \in Seq(0..MaxBytes)
      /\ Len(Queue(r, g, p, a)) = n
      /\ \A i \in 1..n : Queue(r, g, p, a)[i] = r[Slot(f + i - 1)]
  BY <1>1, <1>3, <1>4
<1> QED BY <1>2, <1>5 DEF n, f, Run

\* The model's Contents, with its variables as parameters, is this queue.
Held(r, g, p, step, start) ==
  IF g = Full \/ (step = "advance" /\ g = p)
  THEN LET n == IF step = "advance" THEN Size - 1 ELSE Size
       IN [i \in 1..n |-> r[(start + i - 1) % Size]]
  ELSE [i \in 1..((g - start) % Size) |-> r[(start + i - 1) % Size]]

LEMMA ContentsOf ==
  ASSUME NEW r \in Rings, NEW g \in Gots, NEW p \in 0..Size, NEW step,
         p = Size => step = "wrap",
         NEW start, start = (IF step = "advance" THEN p + 1 ELSE p) % Size
  PROVE  Held(r, g, p, step, start)
           = Queue(r, g, p, IF step = "advance" THEN 1 ELSE 0)
<1> USE Constants
<1> DEFINE a == IF step = "advance" THEN 1 ELSE 0
           f == First(p, a)
           n == Count(g, p, a)
<1>1. /\ a \in {0, 1} /\ p + a <= Size
      /\ a = 1 <=> step = "advance"
  OBVIOUS
<1>2. f \in 0..(Size - 1) /\ n \in 0..Size
  <2> HIDE DEF a
  <2> QED BY <1>1, FirstIs, CountIs
<1>3. f = start
  <2>1. p + a = IF step = "advance" THEN p + 1 ELSE p
    OBVIOUS
  <2> HIDE DEF a
  <2>2. f = (p + a) % Size
    BY <1>1, FirstIs
  <2> QED BY <2>1, <2>2
<1> HIDE DEF a
<1>4. \A i \in 1..n : Slot(f + i - 1) = (start + i - 1) % Size
  <2> TAKE i \in 1..n
  <2> HIDE DEF f, n
  <2> DEFINE x == f + i - 1
  <2>1. x \in 0..(2 * Size - 1)
    BY <1>2
  <2>2. x = start + i - 1
    BY <1>3
  <2> HIDE DEF x
  <2>3. x % Size = Slot(x)
    BY <2>1, RemainderIs DEF Slot
  <2> QED BY <2>2, <2>3 DEF x
<1>5. Queue(r, g, p, a) = [i \in 1..n |-> r[(start + i - 1) % Size]]
  BY <1>4 DEF Queue
<1>6. CASE g = Full \/ (step = "advance" /\ g = p)
  <2>1. n = IF step = "advance" THEN Size - 1 ELSE Size
    BY <1>1, <1>6 DEF Count, a
  <2> QED BY <1>5, <1>6, <2>1 DEF Held, a
<1>7. CASE ~(g = Full \/ (step = "advance" /\ g = p))
  <2>1. n = (g - start) % Size
    <3>1. g \in 0..(Size - 1) /\ n = IF g < f THEN g - f + Size ELSE g - f
      BY <1>1, <1>7 DEF Count, Gots
    <3> HIDE DEF n, f
    <3> QED BY <1>2, <1>3, <3>1, RemainderIs
  <2> QED BY <1>5, <1>7, <2>1 DEF Held, a
<1> QED BY <1>6, <1>7

LEMMA ContentsIs ==
  ASSUME TypeOK
  PROVE  Contents = Queue(ring, got, read, Ahead)
<1> DEFINE start == (IF svc.step = "advance" THEN read + 1 ELSE read) % Size
<1>1. ring \in Rings /\ got \in Gots /\ read \in 0..Size
      /\ (read = Size => svc.step = "wrap")
  BY DEF TypeOK, Rings, Gots
<1>2. Contents = Held(ring, got, read, svc.step, start)
  BY DEF Contents, Stored, Held
<1> HIDE DEF start
<1> QED BY <1>1, <1>2, ContentsOf DEF Ahead, start

LEMMA ContentsNext ==
  ASSUME TypeOK'
  PROVE  Contents' = Queue(ring', got', read', Ahead')
<1> DEFINE start == (IF svc'.step = "advance" THEN read' + 1 ELSE read') % Size
<1>1. ring' \in Rings /\ got' \in Gots /\ read' \in 0..Size
      /\ (read' = Size => svc'.step = "wrap")
  BY DEF TypeOK, Rings, Gots
<1>2. Contents' = Held(ring', got', read', svc'.step, start)
  BY DEF Contents, Stored, Held
<1> HIDE DEF start
<1> QED BY <1>1, <1>2, ContentsOf DEF Ahead, start

\* Two queues are the same if they are slot by slot.
LEMMA SameQueue ==
  ASSUME NEW s \in Seq(0..MaxBytes), NEW t \in Seq(0..MaxBytes), Len(s) = Len(t),
         \A i \in 1..Len(s) : s[i] = t[i]
  PROVE  s = t
OBVIOUS

\* ring_push appends, unless it tears a ring_pop in progress.
NextGot(g, p) == IF Slot(g + 1) = p THEN Full ELSE Slot(g + 1)

Untorn(g, p, a) ==
  /\ a = 1 => Count(g, p, a) < Size - 2
  /\ p = Size => Count(g, p, a) < Size - 1

Appends(r, g, p, a, b, r2, g2) ==
  /\ r2 \in Rings /\ g2 \in Gots
  /\ Queue(r2, g2, p, a) = Append(Queue(r, g, p, a), b)
  /\ Count(g, p, a) < Size

LEMMA PushAppends ==
  ASSUME NEW r \in Rings, NEW g \in 0..(Size - 1), NEW p \in 0..Size,
         NEW a \in {0, 1}, p + a <= Size, NEW b \in 0..MaxBytes,
         Untorn(g, p, a)
  PROVE  Appends(r, g, p, a, b, [r EXCEPT ![g] = b], NextGot(g, p))
<1> USE Constants DEF NextGot, Untorn
<1> DEFINE r2 == [r EXCEPT ![g] = b]
           g2 == NextGot(g, p)
           n == Count(g, p, a)
           f == First(p, a)
           s == Queue(r, g, p, a)
           t == Queue(r2, g2, p, a)
<1>1. r2 \in Rings /\ g2 \in Gots /\ g \in Gots
  BY DEF Rings, Gots, Slot
<1>2. n \in 0..Size /\ f \in 0..(Size - 1)
  BY <1>1, CountIs, FirstIs
<1>3. /\ f = Slot(p + a) /\ g # Full /\ ~(a = 1 /\ g = p)
      /\ p = Size => n < Size - 1
  BY DEF First, Count
<1>4. n = IF g < f THEN g - f + Size ELSE g - f
  BY <1>3 DEF Count
<1>5. Count(g2, p, a) = n + 1
  <2>1. CASE Slot(g + 1) = p
    BY <1>1, <1>2, <1>3, <1>4, <2>1 DEF Count, Slot
  <2>2. CASE Slot(g + 1) # p
    <3>1. g2 = Slot(g + 1) /\ g2 # Full /\ ~(a = 1 /\ g2 = p)
      BY <2>2 DEF Slot
    <3>2. Count(g2, p, a) = IF g2 < f THEN g2 - f + Size ELSE g2 - f
      BY <3>1 DEF Count
    <3> HIDE DEF n, f
    <3>3. CASE a = 1
      BY <1>2, <1>3, <1>4, <2>2, <3>1, <3>2, <3>3 DEF Slot
    <3>4. CASE a = 0
      BY <1>2, <1>3, <1>4, <2>2, <3>1, <3>2, <3>4 DEF Slot
    <3> QED BY <3>3, <3>4
  <2> QED BY <2>1, <2>2
<1>6. Run(s, r, n, f)
  BY <1>1, QueueIs
<1>7. Run(t, r2, n + 1, f)
  <2> HIDE DEF r2, g2
  <2> QED BY <1>1, <1>5, QueueIs
<1> HIDE DEF n, f, s, t
<1>8. n < Size
  BY <1>2, <1>4
<1>9. \A i \in 1..n : Slot(f + i - 1) # g
  BY <1>2, <1>4 DEF Slot
<1>10. Slot(f + n) = g
  BY <1>2, <1>4 DEF Slot
<1>11. \A i \in 1..n : t[i] = s[i]
  BY <1>2, <1>6, <1>7, <1>9 DEF Rings, Run
<1>12. t[n + 1] = b
  <2>1. n + 1 \in 1..(n + 1) /\ f + (n + 1) - 1 = f + n
    BY <1>2
  <2>2. t[n + 1] = r2[g]
    BY <1>7, <1>10, <2>1 DEF Run
  <2> QED BY <2>2 DEF Rings
<1>13. t = Append(s, b)
  <2>1. /\ Append(s, b) \in Seq(0..MaxBytes) /\ Len(Append(s, b)) = n + 1
        /\ \A i \in 1..n : Append(s, b)[i] = s[i]
        /\ Append(s, b)[n + 1] = b
    BY <1>2, <1>6 DEF Run
  <2>2. \A i \in 1..(n + 1) : i \in 1..n \/ i = n + 1
    BY <1>2
  <2>3. \A i \in 1..(n + 1) : t[i] = Append(s, b)[i]
    BY <1>11, <1>12, <2>1, <2>2
  <2> QED BY <1>7, <2>1, <2>3, SameQueue DEF Run
<1> QED BY <1>1, <1>8, <1>13 DEF n, s, t, Appends

\* ring_pop takes the first byte, with which *got leaves 0xFF.
Unmarked(g, p) == IF g = Full THEN p ELSE g

Takes(r, g, p, g2) ==
  /\ g2 \in 0..(Size - 1)
  /\ Queue(r, g, p, 0) # << >> /\ Head(Queue(r, g, p, 0)) = r[p]
  /\ Queue(r, g2, p, 1) = Tail(Queue(r, g, p, 0))

LEMMA UnfullTakes ==
  ASSUME NEW r \in Rings, NEW g \in Gots, NEW p \in 0..(Size - 1), g # p
  PROVE  Takes(r, g, p, Unmarked(g, p))
<1> USE Constants DEF Unmarked
<1> DEFINE g2 == Unmarked(g, p)
           n == Count(g, p, 0)
           s == Queue(r, g, p, 0)
           t == Queue(r, g2, p, 1)
<1>1. g2 \in 0..(Size - 1) /\ g2 \in Gots
  BY DEF Gots
<1>2. n \in 0..Size /\ First(p, 0) = p /\ First(p, 1) = Slot(p + 1)
  <2>1. p \in 0..Size /\ p + 0 <= Size /\ p + 0 = p
    OBVIOUS
  <2>2. n \in 0..Size
    BY <2>1, CountIs
  <2> QED BY <2>1, <2>2 DEF First, Slot
<1>3. n >= 1 /\ Count(g2, p, 1) = n - 1
  BY <1>1, <1>2 DEF Count, Slot, Gots
<1>4. Run(s, r, n, p)
  <2>1. p \in 0..Size /\ 0 \in {0, 1} /\ p + 0 <= Size
    OBVIOUS
  <2>2. Run(s, r, n, First(p, 0))
    BY <2>1, QueueIs
  <2> QED BY <1>2, <2>2
<1>5. Run(t, r, n - 1, Slot(p + 1))
  <2>1. p \in 0..Size /\ 1 \in {0, 1} /\ p + 1 <= Size
    OBVIOUS
  <2>2. Run(t, r, Count(g2, p, 1), First(p, 1))
    BY <1>1, <2>1, QueueIs
  <2> QED BY <1>2, <1>3, <2>2
<1> HIDE DEF n, s, t
<1>6. \A i \in 1..(n - 1) : Slot(Slot(p + 1) + i - 1) = Slot(p + (i + 1) - 1)
  BY <1>2 DEF Slot
<1>7. \A i \in 1..(n - 1) : i + 1 \in 1..n /\ t[i] = s[i + 1]
  <2> TAKE i \in 1..(n - 1)
  <2>1. i + 1 \in 1..n
    BY <1>2
  <2>2. t[i] = r[Slot(p + (i + 1) - 1)] /\ s[i + 1] = r[Slot(p + (i + 1) - 1)]
    BY <1>4, <1>5, <1>6, <2>1, Zenon DEF Run
  <2> QED BY <2>1, <2>2
<1>8. t = Tail(s)
  <2>1. Len(Tail(s)) = n - 1 /\ Tail(s) \in Seq(0..MaxBytes)
        /\ \A i \in 1..(n - 1) : Tail(s)[i] = s[i + 1]
    BY <1>2, <1>3, <1>4 DEF Run
  <2> QED BY <1>5, <1>7, <2>1, SameQueue DEF Run
<1>9. s # << >> /\ Head(s) = r[p]
  <2>1. 1 \in 1..n /\ Slot(p + 1 - 1) = p
    BY <1>2, <1>3 DEF Slot
  <2>2. s[1] = r[p]
    BY <1>4, <2>1 DEF Run
  <2> QED BY <1>3, <1>4, <2>2 DEF Run
<1> QED BY <1>1, <1>8, <1>9 DEF s, t, Takes

\* Its last two statements change nothing more.
LEMMA AdvanceKeeps ==
  ASSUME NEW r, NEW g \in 0..(Size - 1), NEW p \in 0..(Size - 1)
  PROVE  Queue(r, g, p + 1, 0) = Queue(r, g, p, 1)
<1> USE Constants
<1>1. First(p + 1, 0) = First(p, 1)
  BY DEF First
<1>2. Count(g, p + 1, 0) = Count(g, p, 1)
  BY DEF Count, First, Slot
<1> QED BY <1>1, <1>2 DEF Queue

LEMMA WrapKeeps ==
  ASSUME NEW r, NEW g \in Gots, NEW p \in 0..Size,
         NEW p2, p2 = IF p = Size THEN 0 ELSE p
  PROVE  Queue(r, g, p2, 0) = Queue(r, g, p, 0)
<1> USE Constants
<1>1. First(p2, 0) = First(p, 0)
  BY DEF First, Slot
<1>2. Count(g, p2, 0) = Count(g, p, 0)
  BY <1>1 DEF Count
<1> QED BY <1>1, <1>2 DEF Queue

LEMMA EmptyQueue ==
  ASSUME NEW r, NEW p \in 0..(Size - 1)
  PROVE  Queue(r, p, p, 0) = << >>
<1> USE Constants
<1>1. Count(p, p, 0) = 0
  BY DEF Count, First, Slot
<1> QED BY <1>1 DEF Queue

\* A ring that is full is all of it.
LEMMA FullQueue ==
  ASSUME NEW r \in Rings, NEW p \in 0..(Size - 1), NEW k \in 0..(Size - 1)
  PROVE  r[k] \in Range(Queue(r, Full, p, 0))
<1> USE Constants
<1> DEFINE q == Queue(r, Full, p, 0)
           i == IF k < p THEN k - p + Size + 1 ELSE k - p + 1
<1>1. Count(Full, p, 0) = Size /\ First(p, 0) = p
  BY DEF Count, First, Slot
<1>2. q = [j \in 1..Size |-> r[Slot(p + j - 1)]]
  BY <1>1 DEF Queue
<1>3. i \in 1..Size /\ Slot(p + i - 1) = k
  BY DEF Slot
<1> HIDE DEF i
<1>4. i \in DOMAIN q /\ q[i] = r[k]
  BY <1>2, <1>3
<1> HIDE DEF q
<1> QED BY <1>4 DEF q, Range

-----------------------------------------------------------------------------
(* The inductive invariant                                                 *)

SvcSteps == {"idle", "check", "register", "getch", "unfull", "advance", "wrap",
             "spin"}

\* The SVC in progress is that of a thread that is ready, and ring_pop has
\* read a byte that no push has overwritten.
SvcKnows ==
  /\ svc \in [step : SvcSteps, thread : Threads \cup {None}, byte : 0..MaxBytes]
  /\ svc.step = "idle" => svc = Idle
  /\ svc.step # "idle" => svc.thread \in Threads /\ state[svc.thread] = "ready"
  /\ svc.step = "unfull" => got # read /\ svc.byte = ring[read]
  /\ svc.step = "advance" /\ ~raced => got # Full /\ svc.byte = ring[read]

\* The uart has the last bytes that came, in their order.
UartKnows == \A i \in 1..Len(hw) : hw[i] = came - Len(hw) + i

\* Each of the numbers from 1 to n is in one of the six sets.
Apart(h, c, d, i, g, l, n) ==
  /\ h \cup c \cup d \cup i \cup g \cup l = 1..n
  /\ h \cap (c \cup d \cup i \cup g \cup l) = {}
  /\ c \cap (d \cup i \cup g \cup l) = {}
  /\ d \cap (i \cup g \cup l) = {}
  /\ i \cap (g \cup l) = {}
  /\ g \cap l = {}

Sound ==
  /\ IsInjective(hw) /\ IsInjective(Contents) /\ IsInjective(dfcs)
  /\ Apart(Bytes(hw), Bytes(Contents), Bytes(dfcs), InHand, delivered, dropped,
           came)

\* A byte is nowhere but, perhaps, in the ring.
Lost ==
  \E b \in 1..came : b \notin Bytes(hw) \cup Bytes(dfcs) \cup InHand
                              \cup delivered \cup dropped

\* What a race has done and the rest of ring_pop does not undo: the ring comes
\* out empty and a byte is lost, or full and holds the byte that is given out.
Damage ==
  \/ svc.step = "idle" /\ ~Exact
  \/ svc.step = "advance" /\ Lost /\ got = (read + 1) % Size
  \/ svc.step = "wrap" /\ Lost /\ got = read % Size
  \/ svc.step = "advance" /\ got = Full /\ ring[read] = svc.byte
  \/ svc.step = "wrap" /\ got = Full /\ \E k \in 0..(Size - 1) : ring[k] = svc.byte

\* The inductive invariant.
IInv ==
  /\ TypeOK
  /\ SvcKnows
  /\ UartKnows
  /\ RequestIsInOnePlace
  /\ IF raced THEN Damage ELSE Sound

-----------------------------------------------------------------------------
(* Bytes in sequences                                                      *)

LEMMA EmptyBytes == Bytes(<< >>) = {} /\ IsInjective(<< >>)
BY DEF Bytes, Range, IsInjective

LEMMA AppendBytes ==
  ASSUME NEW S, NEW s \in Seq(S), NEW b \in S
  PROVE  /\ Bytes(Append(s, b)) = Bytes(s) \cup {b}
         /\ IsInjective(s) /\ b \notin Bytes(s) => IsInjective(Append(s, b))
<1> DEFINE t == Append(s, b)
           n == Len(s)
<1>1. /\ n \in Nat /\ DOMAIN s = 1..n /\ DOMAIN t = 1..(n + 1)
      /\ \A i \in 1..n : t[i] = s[i]
      /\ t[n + 1] = b
  OBVIOUS
<1> HIDE DEF t, n
<1>2. \A i \in 1..(n + 1) : i \in 1..n \/ i = n + 1
  BY <1>1
<1>3. Bytes(t) = Bytes(s) \cup {b}
  <2>1. \A i \in 1..n : i \in 1..(n + 1)
    BY <1>1
  <2>2. n + 1 \in 1..(n + 1)
    BY <1>1
  <2> QED BY <1>1, <1>2, <2>1, <2>2 DEF Bytes, Range
<1>4. ASSUME IsInjective(s), b \notin Bytes(s) PROVE IsInjective(t)
  <2>1. \A i \in 1..n : s[i] # b
    BY <1>1, <1>4 DEF Bytes, Range
  <2> QED BY <1>1, <1>2, <1>4, <2>1 DEF IsInjective
<1> QED BY <1>3, <1>4 DEF t

LEMMA TailBytes ==
  ASSUME NEW S, NEW s \in Seq(S), s # << >>
  PROVE  /\ Bytes(s) = Bytes(Tail(s)) \cup {Head(s)}
         /\ IsInjective(s) => /\ IsInjective(Tail(s))
                              /\ Head(s) \notin Bytes(Tail(s))
<1> DEFINE t == Tail(s)
           n == Len(s)
<1>1. /\ n \in Nat \ {0} /\ DOMAIN s = 1..n /\ DOMAIN t = 1..(n - 1)
      /\ \A i \in 1..(n - 1) : t[i] = s[i + 1]
      /\ Head(s) = s[1]
  OBVIOUS
<1> HIDE DEF t, n
<1>2. /\ \A i \in 1..n : i = 1 \/ (i - 1 \in 1..(n - 1) /\ t[i - 1] = s[i])
      /\ \A i \in 1..(n - 1) : i + 1 \in 1..n /\ i + 1 # 1
      /\ 1 \in 1..n
  BY <1>1
<1>3. Bytes(s) = Bytes(t) \cup {Head(s)}
  <2>1. \A i \in 1..n : s[i] = Head(s) \/ s[i] \in Bytes(t)
    BY <1>1, <1>2 DEF Bytes, Range
  <2>2. \A i \in 1..(n - 1) : t[i] \in Bytes(s)
    BY <1>1, <1>2 DEF Bytes, Range
  <2>3. Head(s) \in Bytes(s)
    BY <1>1, <1>2 DEF Bytes, Range
  <2> QED BY <1>1, <2>1, <2>2, <2>3 DEF Bytes, Range
<1>4. ASSUME IsInjective(s) PROVE IsInjective(t) /\ Head(s) \notin Bytes(t)
  <2>1. \A i, j \in 1..n : s[i] = s[j] => i = j
    BY <1>1, <1>4 DEF IsInjective
  <2>2. \A i, j \in 1..(n - 1) : t[i] = t[j] => i = j
    <3> SUFFICES ASSUME NEW i \in 1..(n - 1), NEW j \in 1..(n - 1), t[i] = t[j]
                 PROVE  i = j
      OBVIOUS
    <3>1. i + 1 = j + 1
      BY <1>1, <1>2, <2>1
    <3> QED BY <3>1
  <2>3. \A i \in 1..(n - 1) : t[i] # Head(s)
    BY <1>1, <1>2, <2>1
  <2> QED BY <1>1, <2>2, <2>3 DEF IsInjective, Bytes, Range
<1> QED BY <1>3, <1>4 DEF t

LEMMA BytesCounted ==
  ASSUME NEW S, NEW s \in Seq(S), IsInjective(s)
  PROVE  IsFiniteSet(Bytes(s)) /\ Cardinality(Bytes(s)) = Len(s)
<1> DEFINE n == Len(s)
<1>1. n \in Nat /\ DOMAIN s = 1..n /\ s = [i \in 1..n |-> s[i]]
  OBVIOUS
<1> HIDE DEF n
<1>2. s \in [1..n -> Bytes(s)]
  BY <1>1 DEF Bytes, Range
<1>3. s \in Bijection(1..n, Bytes(s))
  BY <1>1, <1>2 DEF Bijection, Injection, Surjection, Bytes, Range
<1>4. IsFiniteSet(1..n) /\ Cardinality(1..n) = n
  <2> DEFINE one == 1
  <2>1. one \in Int /\ n \in Int /\ one = 1
    BY <1>1
  <2> HIDE DEF one
  <2>2. IsFiniteSet(one..n)
        /\ Cardinality(one..n) = IF one > n THEN 0 ELSE n - one + 1
    BY <2>1, FS_Interval
  <2>3. (IF one > n THEN 0 ELSE n - one + 1) = n
    BY <1>1, <2>1
  <2> QED BY <2>1, <2>2, <2>3
<1> QED BY <1>3, <1>4, FS_Bijection DEF ExistsBijection, n

\* What Exact comes to, for any six places.
LEMMA PlacesApart ==
  ASSUME NEW h, NEW c, NEW d, NEW i, NEW g, NEW l, NEW n,
         NEW P, P = << h, c, d, i, g, l >>,
         UNION Range(P) = 1..n,
         \A j, k \in DOMAIN P : j # k => P[j] \cap P[k] = {}
  PROVE  Apart(h, c, d, i, g, l, n)
<1>1. /\ DOMAIN P = 1..6
      /\ P[1] = h /\ P[2] = c /\ P[3] = d /\ P[4] = i /\ P[5] = g /\ P[6] = l
  OBVIOUS
<1>2. UNION Range(P) = P[1] \cup P[2] \cup P[3] \cup P[4] \cup P[5] \cup P[6]
  BY <1>1 DEF Range
<1>3. \A j, k \in 1..6 : j # k => P[j] \cap P[k] = {}
  BY <1>1
<1>4. /\ P[1] \cap (P[2] \cup P[3] \cup P[4] \cup P[5] \cup P[6]) = {}
      /\ P[2] \cap (P[3] \cup P[4] \cup P[5] \cup P[6]) = {}
      /\ P[3] \cap (P[4] \cup P[5] \cup P[6]) = {}
      /\ P[4] \cap (P[5] \cup P[6]) = {}
      /\ P[5] \cap P[6] = {}
  BY <1>3
<1> QED BY <1>1, <1>2, <1>4 DEF Apart

LEMMA ExactNext ==
  ASSUME Exact'
  PROVE  Apart(Bytes(hw'), Bytes(Contents'), Bytes(dfcs'), InHand', delivered',
               dropped', came')
<1> DEFINE P == Places
<1>1. P' = << Bytes(hw'), Bytes(Contents'), Bytes(dfcs'), InHand', delivered',
              dropped' >>
  BY DEF Places
<1>2. /\ UNION Range(P') = 1..came'
      /\ \A j, k \in DOMAIN P' : j # k => P'[j] \cap P'[k] = {}
  BY DEF Exact
<1> HIDE DEF P
<1> QED BY <1>1, <1>2, PlacesApart

LEMMA SoundMeans ==
  ASSUME TypeOK, Sound
  PROVE  Exact
<1> DEFINE P == Places
           h == Bytes(hw)
           c == Bytes(Contents)
           d == Bytes(dfcs)
<1>1. /\ DOMAIN P = 1..6
      /\ P[1] = h /\ P[2] = c /\ P[3] = d
      /\ P[4] = InHand /\ P[5] = delivered /\ P[6] = dropped
  BY DEF Places
<1>2. Contents \in Seq(0..MaxBytes)
  <2>1. /\ ring \in Rings /\ got \in Gots /\ read \in 0..Size /\ Ahead \in {0, 1}
        /\ read + Ahead <= Size
    BY Constants DEF TypeOK, Rings, Gots, Ahead
  <2> QED BY <2>1, QueueIs, ContentsIs DEF Run
<1>3. /\ IsFiniteSet(h) /\ Cardinality(h) = Len(hw)
      /\ IsFiniteSet(c) /\ Cardinality(c) = Len(Contents)
      /\ IsFiniteSet(d) /\ Cardinality(d) = Len(dfcs)
  BY <1>2, BytesCounted DEF TypeOK, Sound
<1>4. Len(hw) \in Nat /\ Len(Contents) \in Nat /\ Len(dfcs) \in Nat
  BY <1>2 DEF TypeOK
<1> HIDE DEF h, c, d, P
<1>5. Apart(h, c, d, InHand, delivered, dropped, came)
  BY DEF Sound, h, c, d
<1>6. IsFiniteSet(h \cup c) /\ Cardinality(h \cup c) = Len(hw) + Len(Contents)
  <2>1. h \cap c = {} /\ Cardinality({}) = 0
    BY <1>5, FS_EmptySet DEF Apart
  <2>2. /\ IsFiniteSet(h \cup c)
        /\ Cardinality(h \cup c)
             = Cardinality(h) + Cardinality(c) - Cardinality(h \cap c)
    BY <1>3, FS_Union, Zenon
  <2>3. Cardinality(h \cup c) = Len(hw) + Len(Contents) - 0
    BY <1>3, <2>1, <2>2
  <2> QED BY <1>4, <2>2, <2>3
<1>7. Cardinality((h \cup c) \cup d) = Len(hw) + Len(Contents) + Len(dfcs)
  <2> DEFINE u == h \cup c
  <2>1. u \cap d = {} /\ Cardinality({}) = 0
    BY <1>5, FS_EmptySet DEF Apart
  <2> HIDE DEF u
  <2>2. IsFiniteSet(u) /\ Cardinality(u) = Len(hw) + Len(Contents)
    BY <1>6 DEF u
  <2>3. Cardinality(u \cup d)
          = Cardinality(u) + Cardinality(d) - Cardinality(u \cap d)
    BY <1>3, <2>2, FS_Union, Zenon
  <2>4. Cardinality(u \cup d) = Len(hw) + Len(Contents) + Len(dfcs) - 0
    BY <1>3, <2>1, <2>2, <2>3
  <2> QED BY <1>4, <2>4 DEF u
<1>8. UNION Range(P) = 1..came
  <2>1. UNION Range(P) = P[1] \cup P[2] \cup P[3] \cup P[4] \cup P[5] \cup P[6]
    BY <1>1 DEF Range
  <2> QED BY <1>1, <1>5, <2>1 DEF Apart
<1>9. \A i, j \in 1..6 : i # j => P[i] \cap P[j] = {}
  <2>1. /\ P[1] \cap (P[2] \cup P[3] \cup P[4] \cup P[5] \cup P[6]) = {}
        /\ P[2] \cap (P[3] \cup P[4] \cup P[5] \cup P[6]) = {}
        /\ P[3] \cap (P[4] \cup P[5] \cup P[6]) = {}
        /\ P[4] \cap (P[5] \cup P[6]) = {}
        /\ P[5] \cap P[6] = {}
    BY <1>1, <1>5 DEF Apart
  <2> QED BY <2>1
<1> QED BY <1>1, <1>7, <1>8, <1>9 DEF Exact, P, h, c, d

-----------------------------------------------------------------------------
(* What the steps have in common                                           *)

SvcRecords == [step : SvcSteps, thread : Threads \cup {None}, byte : 0..MaxBytes]

LEMMA RingTyped ==
  ASSUME TypeOK
  PROVE  /\ ring \in Rings /\ got \in Gots /\ read \in 0..Size
         /\ Ahead \in {0, 1} /\ read + Ahead <= Size
         /\ Contents \in Seq(0..MaxBytes)
         /\ Len(Contents) = Count(got, read, Ahead)
<1>1. /\ ring \in Rings /\ got \in Gots /\ read \in 0..Size /\ Ahead \in {0, 1}
      /\ read + Ahead <= Size
  BY Constants DEF TypeOK, Rings, Gots, Ahead
<1> QED BY <1>1, QueueIs, ContentsIs DEF Run

LEMMA ContentsStay ==
  ASSUME UNCHANGED ringVars,
         svc'.step = "advance" <=> svc.step = "advance"
  PROVE  Contents' = Contents
BY DEF ringVars, Contents, Stored

LEMMA IdleIs ==
  /\ Idle \in SvcRecords
  /\ Idle.step = "idle" /\ Idle.thread = None /\ Idle.byte = 0
BY Constants DEF Idle, SvcRecords, SvcSteps

LEMMA GotoIs ==
  ASSUME svc \in SvcRecords, NEW s \in SvcSteps, NEW b \in 0..MaxBytes,
         Goto(s, b)
  PROVE  /\ svc' \in SvcRecords
         /\ svc'.step = s /\ svc'.thread = svc.thread /\ svc'.byte = b
BY DEF SvcRecords, Goto

LEMMA GotoSteps ==
  ASSUME SvcKnows, NEW s \in SvcSteps, NEW b, Goto(s, b)
  PROVE  svc'.step = s
BY DEF SvcKnows, Goto

\* The uart's bytes are the last that came, so a new one is none of them.
LEMMA HeadIs ==
  ASSUME TypeOK, UartKnows, hw # << >>
  PROVE  /\ Head(hw) \in 1..MaxBytes /\ Head(hw) = came - Len(hw) + 1
         /\ Len(hw) \in Nat \ {0} /\ Tail(hw) \in Seq(1..MaxBytes)
         /\ Len(Tail(hw)) = Len(hw) - 1
         /\ Bytes(Tail(hw)) = (Head(hw) + 1)..came
<1> DEFINE n == Len(hw)
<1>1. /\ came \in Nat /\ n \in Nat \ {0} /\ Head(hw) = hw[1]
      /\ Tail(hw) \in Seq(1..MaxBytes) /\ Len(Tail(hw)) = n - 1
      /\ \A i \in 1..(n - 1) : Tail(hw)[i] = hw[i + 1]
      /\ DOMAIN Tail(hw) = 1..(n - 1)
      /\ \A i \in 1..n : hw[i] \in 1..MaxBytes
  <2> DEFINE S == 1..MaxBytes
  <2>1. hw \in Seq(S) /\ came \in Nat
    BY Constants DEF TypeOK
  <2> HIDE DEF S
  <2>2. /\ n \in Nat \ {0} /\ Head(hw) = hw[1]
        /\ Tail(hw) \in Seq(S) /\ Len(Tail(hw)) = n - 1
        /\ DOMAIN Tail(hw) = 1..(n - 1)
    BY <2>1
  <2>3. /\ \A i \in 1..(n - 1) : Tail(hw)[i] = hw[i + 1]
        /\ \A i \in 1..n : hw[i] \in S
    BY <2>1
  <2> QED BY <2>1, <2>2, <2>3 DEF S
<1>2. \A i \in 1..n : hw[i] = came - n + i
  BY DEF UartKnows
<1> HIDE DEF n
<1>3. Head(hw) = came - n + 1 /\ Head(hw) \in 1..MaxBytes
  BY <1>1, <1>2
<1>4. \A i \in 1..(n - 1) : Tail(hw)[i] = came - n + 1 + i
  BY <1>1, <1>2
<1> DEFINE t == Tail(hw)
<1>5. /\ \A i \in 1..(n - 1) : t[i] = Head(hw) + i
      /\ DOMAIN t = 1..(n - 1)
  BY <1>1, <1>3, <1>4
<1> HIDE DEF t
<1>6. Bytes(t) = (Head(hw) + 1)..came
  <2>1. Bytes(t) \subseteq (Head(hw) + 1)..came
    BY <1>1, <1>3, <1>5 DEF Bytes, Range
  <2>2. ASSUME NEW x \in (Head(hw) + 1)..came PROVE x \in Bytes(t)
    <3>1. x - Head(hw) \in 1..(n - 1) /\ t[x - Head(hw)] = x
      BY <1>1, <1>3, <1>5
    <3> QED BY <1>5, <3>1 DEF Bytes, Range
  <2> QED BY <2>1, <2>2
<1> QED BY <1>1, <1>3, <1>6 DEF n, t

-----------------------------------------------------------------------------
(* The interrupt                                                           *)

\* A push that tears nothing appends its byte to what the ring holds.
LEMMA KeptAppends ==
  ASSUME TypeOK, ~RingFull, NEW b \in 0..MaxBytes, RingPush(b), svc' = svc
  PROVE  /\ ring' \in Rings /\ got' \in Gots /\ read' = read
         /\ ring' = [ring EXCEPT ![got] = b] /\ got \in 0..(Size - 1)
         /\ got' = IF Slot(got + 1) = read THEN Full ELSE Slot(got + 1)
         /\ ~PushIsTorn => /\ Contents' = Append(Contents, b)
                           /\ Len(Contents) < Size
<1> USE Constants
<1>1. got \in 0..(Size - 1) /\ read' = read
  BY DEF TypeOK, RingFull, RingPush
<1>2. Slot(got + 1) = (got + 1) % Size
  BY <1>1, RemainderIs DEF Slot
<1>3. /\ ring' = [ring EXCEPT ![got] = b]
      /\ got' = IF Slot(got + 1) = read THEN Full ELSE Slot(got + 1)
  BY <1>2 DEF RingPush
<1>4. ring' \in Rings /\ got' \in Gots
  <2>1. ring \in Rings
    BY RingTyped
  <2>2. ring' \in Rings
    BY <1>1, <1>3, <2>1 DEF Rings
  <2>3. got' \in Gots
    BY <1>1, <1>3 DEF Gots, Slot
  <2> QED BY <2>2, <2>3
<1>5. ASSUME ~PushIsTorn
      PROVE  Contents' = Append(Contents, b) /\ Len(Contents) < Size
  <2> DEFINE a == Ahead
             n == Count(got, read, a)
  <2>1. /\ ring \in Rings /\ got \in Gots /\ read \in 0..Size /\ a \in {0, 1}
        /\ read + a <= Size /\ Len(Contents) = n /\ n \in 0..Size
    BY RingTyped, CountIs
  <2>2. a = 1 => n < Size - 2
    BY <1>5, <2>1 DEF PushIsTorn, Ahead
  <2>3. read = Size => n < Size - 1
    <3> HAVE read = Size
    <3>1. svc.step = "wrap" /\ a = 0
      BY DEF TypeOK, Ahead
    <3>2. n = got
      BY <1>1, <3>1 DEF Count, First, Slot
    <3>3. n # Size - 1
      BY <1>5, <2>1, <3>1 DEF PushIsTorn
    <3> QED BY <1>1, <3>2, <3>3
  <2>4. Contents = Queue(ring, got, read, a)
    BY ContentsIs
  <2>5. Contents' = Queue(ring', got', read, a)
    <3>1. /\ ring' \in Rings /\ got' \in Gots /\ read' \in 0..Size
          /\ (read' = Size => svc'.step = "wrap")
      BY <1>1, <1>4, <2>1 DEF TypeOK
    <3> DEFINE start == (IF svc'.step = "advance" THEN read' + 1 ELSE read') % Size
    <3>2. Contents' = Held(ring', got', read', svc'.step, start)
      BY DEF Contents, Stored, Held
    <3> HIDE DEF start
    <3>3. Contents' = Queue(ring', got', read', Ahead')
      BY <3>1, <3>2, ContentsOf DEF Ahead, start
    <3> QED BY <1>1, <3>3 DEF Ahead
  <2> HIDE DEF a, n
  <2>6. Untorn(got, read, a)
    BY <2>2, <2>3 DEF n, Untorn
  <2>7. Appends(ring, got, read, a, b, [ring EXCEPT ![got] = b],
                NextGot(got, read))
    BY ONLY b \in 0..MaxBytes, <1>1, <2>1, <2>6, PushAppends, Zenon
  <2>8. Appends(ring, got, read, a, b, ring', got')
    BY <1>3, <2>7 DEF NextGot
  <2> QED BY <2>1, <2>4, <2>5, <2>8 DEF n, Appends
<1> QED BY <1>1, <1>3, <1>4, <1>5

LEMMA ArriveStep ==
  ASSUME IInv, ~raced, Arrive
  PROVE  IInv'
<1> USE Constants
<1>1. /\ TypeOK /\ SvcKnows /\ UartKnows /\ RequestIsInOnePlace /\ Sound
      /\ came' = came + 1 /\ came' \in 1..MaxBytes /\ came \in Nat
      /\ hw \in Seq(1..MaxBytes) /\ hw' = Append(hw, came') /\ Len(hw) < HwDepth
      /\ UNCHANGED << ringVars, state, blockedUart, request, dfcs, svc,
                      delivered, dropped, raced >>
  BY DEF IInv, Arrive, TypeOK
<1> DEFINE x == came'
           S == 1..MaxBytes
<1>2. x \in S /\ hw \in Seq(S) /\ hw' = Append(hw, x) /\ x = came + 1
  BY <1>1
<1> HIDE DEF x, S
<1>3. /\ hw' \in Seq(S) /\ Len(hw') = Len(hw) + 1 /\ Len(hw) \in Nat
      /\ hw'[Len(hw) + 1] = x
      /\ \A i \in 1..Len(hw) : hw'[i] = hw[i]
  BY <1>2
<1>4. TypeOK'
  BY <1>1, <1>3 DEF TypeOK, ringVars, S
<1>5. SvcKnows'
  BY <1>1 DEF SvcKnows, ringVars
<1>6. UartKnows'
  <2> SUFFICES ASSUME NEW i \in 1..(Len(hw) + 1)
               PROVE  hw'[i] = came' - (Len(hw) + 1) + i
    BY <1>3 DEF UartKnows
  <2>1. CASE i \in 1..Len(hw)
    BY <1>1, <1>3, <2>1 DEF UartKnows
  <2>2. CASE i = Len(hw) + 1
    BY <1>1, <1>2, <1>3, <2>2
  <2> QED BY <1>3, <2>1, <2>2
<1>7. RequestIsInOnePlace'
  BY <1>1 DEF RequestIsInOnePlace
<1>8. Contents' = Contents /\ InHand' = InHand
  BY <1>1, ContentsStay DEF InHand
<1>9. Apart(Bytes(hw), Bytes(Contents), Bytes(dfcs), InHand, delivered, dropped,
            came)
  BY <1>1 DEF Sound
<1>10. x \notin Bytes(hw) /\ Bytes(hw') = Bytes(hw) \cup {x}
       /\ IsInjective(hw')
  <2>1. x \notin 1..came
    BY <1>1, <1>2
  <2> QED BY <1>1, <1>2, <1>9, <2>1, AppendBytes DEF Apart, Sound
<1>11. 1..came' = 1..came \cup {x} /\ x \notin 1..came
  BY <1>1, <1>2
<1>12. Apart(Bytes(hw) \cup {x}, Bytes(Contents), Bytes(dfcs), InHand, delivered,
             dropped, came')
  BY <1>9, <1>11 DEF Apart
<1>13. Sound'
  BY <1>1, <1>8, <1>10, <1>12 DEF Sound
<1> QED BY <1>1, <1>4, <1>5, <1>6, <1>7, <1>13 DEF IInv

\* The byte b that is read goes to one of the other places, the rest o is lost.
Taken(c, d, i, g, l, n, o, b) ==
  /\ b \notin o
  /\ Apart(o \cup {b}, c, d, i, g, l, n)

Goes(c, d, i, g, l, n, o, b) ==
  /\ Apart({}, c, d, i, g \cup {b}, l \cup o, n)
  /\ Apart({}, c, d \cup {b}, i, g, l \cup o, n)
  /\ Apart({}, c \cup {b}, d, i, g, l \cup o, n)
  /\ Apart({}, c, d, i, g, l \cup {b} \cup o, n)
  /\ b \in 1..n /\ o \subseteq 1..n
  /\ b \notin c /\ b \notin d /\ b \notin i /\ b \notin g /\ b \notin l

LEMMA HeadGoes ==
  ASSUME NEW c, NEW d, NEW i, NEW g, NEW l, NEW n, NEW o, NEW b,
         Taken(c, d, i, g, l, n, o, b)
  PROVE  Goes(c, d, i, g, l, n, o, b)
<1>1. /\ (o \cup {b}) \cup c \cup d \cup i \cup g \cup l = 1..n
      /\ c \cap (d \cup i \cup g \cup l) = {}
      /\ d \cap (i \cup g \cup l) = {}
      /\ i \cap (g \cup l) = {}
      /\ g \cap l = {}
  BY DEF Apart, Taken
<1>2. /\ \A x \in o : x \notin c /\ x \notin d /\ x \notin i /\ x \notin g
                       /\ x \notin l /\ x # b
      /\ b \notin c /\ b \notin d /\ b \notin i /\ b \notin g /\ b \notin l
  BY DEF Apart, Taken
<1> DEFINE N == 1..n
<1> HIDE DEF N
<1>3. /\ {} \cup c \cup d \cup i \cup (g \cup {b}) \cup (l \cup o) = N
      /\ {} \cup c \cup (d \cup {b}) \cup i \cup g \cup (l \cup o) = N
      /\ {} \cup (c \cup {b}) \cup d \cup i \cup g \cup (l \cup o) = N
      /\ {} \cup c \cup d \cup i \cup g \cup (l \cup {b} \cup o) = N
      /\ b \in N /\ o \subseteq N
  <2>1. (o \cup {b}) \cup c \cup d \cup i \cup g \cup l = N
    BY <1>1 DEF N
  <2>2. {} \cup c \cup d \cup i \cup (g \cup {b}) \cup (l \cup o) = N
    BY <2>1
  <2>3. {} \cup c \cup (d \cup {b}) \cup i \cup g \cup (l \cup o) = N
    BY <2>1
  <2>4. {} \cup (c \cup {b}) \cup d \cup i \cup g \cup (l \cup o) = N
    BY <2>1
  <2>5. {} \cup c \cup d \cup i \cup g \cup (l \cup {b} \cup o) = N
    BY <2>1
  <2>6. b \in N /\ o \subseteq N
    BY <2>1
  <2> QED BY <2>2, <2>3, <2>4, <2>5, <2>6
<1>4. Apart({}, c, d, i, g \cup {b}, l \cup o, n)
  <2>1. /\ c \cap (d \cup i \cup (g \cup {b}) \cup (l \cup o)) = {}
        /\ d \cap (i \cup (g \cup {b}) \cup (l \cup o)) = {}
    BY <1>1, <1>2
  <2>2. /\ i \cap ((g \cup {b}) \cup (l \cup o)) = {}
        /\ (g \cup {b}) \cap (l \cup o) = {}
    BY <1>1, <1>2
  <2> QED BY <1>3, <2>1, <2>2 DEF Apart, N
<1>5. Apart({}, c, d \cup {b}, i, g, l \cup o, n)
  <2>1. /\ c \cap ((d \cup {b}) \cup i \cup g \cup (l \cup o)) = {}
        /\ (d \cup {b}) \cap (i \cup g \cup (l \cup o)) = {}
    BY <1>1, <1>2
  <2>2. i \cap (g \cup (l \cup o)) = {} /\ g \cap (l \cup o) = {}
    BY <1>1, <1>2
  <2> QED BY <1>3, <2>1, <2>2 DEF Apart, N
<1>6. Apart({}, c \cup {b}, d, i, g, l \cup o, n)
  <2>1. /\ (c \cup {b}) \cap (d \cup i \cup g \cup (l \cup o)) = {}
        /\ d \cap (i \cup g \cup (l \cup o)) = {}
    BY <1>1, <1>2
  <2>2. i \cap (g \cup (l \cup o)) = {} /\ g \cap (l \cup o) = {}
    BY <1>1, <1>2
  <2> QED BY <1>3, <2>1, <2>2 DEF Apart, N
<1>7. Apart({}, c, d, i, g, l \cup {b} \cup o, n)
  <2>1. /\ c \cap (d \cup i \cup g \cup (l \cup {b} \cup o)) = {}
        /\ d \cap (i \cup g \cup (l \cup {b} \cup o)) = {}
    BY <1>1, <1>2
  <2>2. /\ i \cap (g \cup (l \cup {b} \cup o)) = {}
        /\ g \cap (l \cup {b} \cup o) = {}
    BY <1>1, <1>2
  <2> QED BY <1>3, <2>1, <2>2 DEF Apart, N
<1> QED BY <1>2, <1>3, <1>4, <1>5, <1>6, <1>7 DEF N, Goes

\* What the handler reads is in the uart only, and the rest is thrown away.
LEMMA IrqTakes ==
  ASSUME IInv, ~raced, Irq,
         NEW b, b = Head(hw), NEW o, o = Range(Tail(hw))
  PROVE  /\ TypeOK /\ SvcKnows /\ RequestIsInOnePlace /\ Sound
         /\ b \in 1..MaxBytes /\ b \in 1..came /\ o \subseteq 1..MaxBytes
         /\ b \notin o
         /\ Goes(Bytes(Contents), Bytes(dfcs), InHand, delivered, dropped,
                 came, o, b)
         /\ hw' = << >> /\ Len(hw') = 0 /\ hw' \in Seq(1..MaxBytes)
         /\ Bytes(hw') = {} /\ IsInjective(hw')
         /\ UartKnows' /\ UNCHANGED << came, svc >>
<1> USE Constants
<1>1. /\ TypeOK /\ SvcKnows /\ RequestIsInOnePlace /\ Sound /\ UartKnows
      /\ hw # << >> /\ hw' = << >> /\ UNCHANGED << came, svc >>
  BY DEF IInv, Irq
<1>2. /\ b \in 1..MaxBytes /\ Tail(hw) \in Seq(1..MaxBytes)
      /\ o = (b + 1)..came
  BY <1>1, HeadIs DEF Bytes
<1>3. Bytes(hw) = o \cup {b} /\ b \notin o
  BY <1>1, TailBytes DEF TypeOK, Bytes, Sound
<1>4. Taken(Bytes(Contents), Bytes(dfcs), InHand, delivered, dropped, came,
            o, b)
  BY <1>1, <1>3 DEF Sound, Taken
<1>5. Goes(Bytes(Contents), Bytes(dfcs), InHand, delivered, dropped, came, o, b)
  BY <1>4, HeadGoes, Zenon
<1>6. b \in 1..came /\ o \subseteq 1..MaxBytes
  BY <1>1, <1>5 DEF TypeOK, Goes
<1>7. /\ Len(hw') = 0 /\ hw' \in Seq(1..MaxBytes)
      /\ Bytes(hw') = {} /\ IsInjective(hw')
  BY <1>1, EmptyBytes
<1>8. UartKnows'
  BY <1>7 DEF UartKnows
<1> QED BY <1>1, <1>2, <1>3, <1>5, <1>6, <1>7, <1>8

LEMMA BlockedStep ==
  ASSUME IInv, ~raced, Irq, GotCharBlocked(Head(hw), Range(Tail(hw)))
  PROVE  IInv'
<1> USE Constants
<1> DEFINE b == Head(hw)
           o == Range(Tail(hw))
<1>1. /\ TypeOK /\ SvcKnows /\ RequestIsInOnePlace /\ Sound
      /\ b \in 1..MaxBytes /\ o \subseteq 1..MaxBytes
      /\ Goes(Bytes(Contents), Bytes(dfcs), InHand, delivered, dropped, came, o, b)
      /\ Len(hw') = 0 /\ hw' \in Seq(1..MaxBytes)
      /\ Bytes(hw') = {} /\ IsInjective(hw') /\ UartKnows'
      /\ UNCHANGED << came, svc >>
  BY IrqTakes
<1>2. /\ blockedUart \in Readers /\ blockedUart' = None
      /\ state' = [state EXCEPT ![blockedUart] = "ready"]
      /\ delivered' = delivered \cup {b} /\ dropped' = dropped \cup o
      /\ UNCHANGED << ringVars, request, dfcs, raced >>
  BY <1>1 DEF GotCharBlocked, TypeOK
<1> HIDE DEF b, o
<1>3. /\ state' \in [Threads -> {"ready", "blocked", "waits"}]
      /\ state'[Console] = state[Console]
      /\ \A t \in Threads : state[t] = "ready" => state'[t] = "ready"
  BY <1>1, <1>2 DEF TypeOK, Threads
<1>4. TypeOK'
  <2>1. delivered' \subseteq 0..MaxBytes /\ dropped' \subseteq 1..MaxBytes
    BY <1>1, <1>2 DEF TypeOK
  <2> QED BY <1>1, <1>2, <1>3, <2>1 DEF TypeOK, ringVars
<1>5. SvcKnows'
  BY <1>1, <1>2, <1>3 DEF SvcKnows, ringVars
<1>6. RequestIsInOnePlace'
  BY <1>1, <1>2, <1>3 DEF RequestIsInOnePlace
<1>7. Contents' = Contents /\ InHand' = InHand
  BY <1>1, <1>2, ContentsStay DEF InHand
<1>8. Apart({}, Bytes(Contents), Bytes(dfcs), InHand, delivered',
            dropped', came)
  BY <1>1, <1>2 DEF Goes
<1>9. Sound'
  BY <1>1, <1>2, <1>7, <1>8 DEF Sound
<1> QED BY <1>1, <1>2, <1>4, <1>5, <1>6, <1>9 DEF IInv

LEMMA RequestStep ==
  ASSUME IInv, ~raced, Irq, GotCharRequest(Head(hw), Range(Tail(hw)))
  PROVE  IInv'
<1> USE Constants
<1> DEFINE b == Head(hw)
           o == Range(Tail(hw))
           S == 1..MaxBytes
<1>1. /\ TypeOK /\ SvcKnows /\ RequestIsInOnePlace /\ Sound
      /\ b \in S /\ o \subseteq S
      /\ Goes(Bytes(Contents), Bytes(dfcs), InHand, delivered, dropped, came, o, b)
      /\ Len(hw') = 0 /\ hw' \in Seq(S)
      /\ Bytes(hw') = {} /\ IsInjective(hw') /\ UartKnows'
      /\ UNCHANGED << came, svc >>
  BY IrqTakes
<1>2. /\ request /\ request' = FALSE
      /\ dfcs' = Append(dfcs, b) /\ dropped' = dropped \cup o
      /\ dfcs \in Seq(S)
      /\ UNCHANGED << ringVars, state, blockedUart, delivered, raced >>
  BY <1>1 DEF GotCharRequest, TypeOK
<1> HIDE DEF b, o
<1>3. b \notin Bytes(dfcs)
  BY <1>1 DEF Goes
<1> HIDE DEF S
<1>4. /\ dfcs' \in Seq(S) /\ Len(dfcs') = Len(dfcs) + 1 /\ Len(dfcs) \in Nat
      /\ Bytes(dfcs') = Bytes(dfcs) \cup {b}
  BY <1>1, <1>2, AppendBytes
<1>5. IsInjective(dfcs')
  BY <1>1, <1>2, <1>3, AppendBytes DEF Sound
<1>6. TypeOK'
  <2>1. dropped \subseteq S
    BY <1>1 DEF TypeOK, S
  <2>2. dropped' \subseteq S
    <3>1. o \subseteq S /\ dropped' = dropped \cup o
      BY <1>1, <1>2
    <3> QED BY <2>1, <3>1
  <2>3. dfcs' \in Seq(1..MaxBytes) /\ hw' \in Seq(1..MaxBytes)
        /\ dropped' \subseteq 1..MaxBytes /\ Len(hw') <= HwDepth
    BY <1>1, <1>4, <2>2 DEF S
  <2> QED BY <1>1, <1>2, <2>3 DEF TypeOK, ringVars
<1>7. SvcKnows'
  BY <1>1, <1>2 DEF SvcKnows, ringVars
<1>8. RequestIsInOnePlace'
  BY <1>1, <1>2, <1>4 DEF RequestIsInOnePlace
<1>9. Contents' = Contents /\ InHand' = InHand
  BY <1>1, <1>2, ContentsStay DEF InHand
<1>10. Apart({}, Bytes(Contents), Bytes(dfcs'), InHand, delivered,
             dropped', came)
  BY <1>1, <1>2, <1>4 DEF Goes
<1>11. Sound'
  BY <1>1, <1>2, <1>5, <1>9, <1>10 DEF Sound
<1> QED BY <1>1, <1>2, <1>6, <1>7, <1>8, <1>11 DEF IInv

LEMMA DroppedStep ==
  ASSUME IInv, ~raced, Irq, GotCharDropped(Head(hw), Range(Tail(hw)))
  PROVE  IInv'
<1> USE Constants
<1> DEFINE b == Head(hw)
           o == Range(Tail(hw))
<1>1. /\ TypeOK /\ SvcKnows /\ RequestIsInOnePlace /\ Sound
      /\ b \in 1..MaxBytes /\ o \subseteq 1..MaxBytes
      /\ Goes(Bytes(Contents), Bytes(dfcs), InHand, delivered, dropped, came, o, b)
      /\ Len(hw') = 0 /\ hw' \in Seq(1..MaxBytes)
      /\ Bytes(hw') = {} /\ IsInjective(hw') /\ UartKnows'
      /\ UNCHANGED << came, svc >>
  BY IrqTakes
<1>2. /\ dropped' = dropped \cup {b} \cup o
      /\ UNCHANGED << ringVars, state, blockedUart, request, dfcs, delivered,
                      raced >>
  BY DEF GotCharDropped
<1> HIDE DEF b, o
<1>3. TypeOK'
  <2>1. dropped' \subseteq 1..MaxBytes
    BY <1>1, <1>2 DEF TypeOK
  <2> QED BY <1>1, <1>2, <2>1 DEF TypeOK, ringVars
<1>4. SvcKnows'
  BY <1>1, <1>2 DEF SvcKnows, ringVars
<1>5. RequestIsInOnePlace'
  BY <1>1, <1>2 DEF RequestIsInOnePlace
<1>6. Contents' = Contents /\ InHand' = InHand
  BY <1>1, <1>2, ContentsStay DEF InHand
<1>7. Apart({}, Bytes(Contents), Bytes(dfcs), InHand, delivered, dropped', came)
  BY <1>1, <1>2 DEF Goes
<1>8. Sound'
  BY <1>1, <1>2, <1>6, <1>7 DEF Sound
<1> QED BY <1>1, <1>2, <1>3, <1>4, <1>5, <1>8 DEF IInv

\* A byte that is kept is kept behind the others, or the push is torn and then
\* what is damaged is what Damage says.
LEMMA KeptStep ==
  ASSUME IInv, ~raced, Irq, GotCharKept(Head(hw), Range(Tail(hw)))
  PROVE  IInv'
<1> USE Constants
<1> DEFINE b == Head(hw)
           o == Range(Tail(hw))
<1>1. /\ TypeOK /\ SvcKnows /\ RequestIsInOnePlace /\ Sound
      /\ b \in 1..MaxBytes /\ b \in 1..came /\ o \subseteq 1..MaxBytes
      /\ b \notin o
      /\ Goes(Bytes(Contents), Bytes(dfcs), InHand, delivered, dropped, came, o, b)
      /\ Len(hw') = 0 /\ hw' \in Seq(1..MaxBytes)
      /\ Bytes(hw') = {} /\ IsInjective(hw') /\ UartKnows'
      /\ UNCHANGED << came, svc >>
  BY IrqTakes
<1>2. /\ ~RingFull /\ RingPush(b) /\ raced' = PushIsTorn
      /\ dropped' = dropped \cup o
      /\ UNCHANGED << state, blockedUart, request, dfcs, delivered >>
  BY DEF GotCharKept
<1> HIDE DEF b, o
<1>3. b \in 0..MaxBytes /\ raced' \in BOOLEAN
  BY <1>1, <1>2 DEF PushIsTorn
<1>4. /\ ring' \in Rings /\ got' \in Gots /\ read' = read
      /\ ring' = [ring EXCEPT ![got] = b] /\ got \in 0..(Size - 1)
      /\ got' = IF Slot(got + 1) = read THEN Full ELSE Slot(got + 1)
      /\ ~PushIsTorn => /\ Contents' = Append(Contents, b)
                        /\ Len(Contents) < Size
  BY <1>1, <1>2, <1>3, KeptAppends
<1>5. /\ ring \in Rings /\ read \in 0..Size /\ (read = Size => svc.step = "wrap")
      /\ Contents \in Seq(0..MaxBytes) /\ Ahead \in {0, 1}
      /\ Len(Contents) = Count(got, read, Ahead)
      /\ (Ahead = 1 <=> svc.step = "advance")
  <2>1. /\ ring \in Rings /\ read \in 0..Size
        /\ Contents \in Seq(0..MaxBytes) /\ Ahead \in {0, 1}
        /\ Len(Contents) = Count(got, read, Ahead)
    BY <1>1, RingTyped
  <2>2. (read = Size => svc.step = "wrap") /\ (Ahead = 1 <=> svc.step = "advance")
    BY <1>1 DEF TypeOK, Ahead
  <2> QED BY <2>1, <2>2
<1>6. TypeOK'
  <2>1. /\ dropped' \subseteq 1..MaxBytes /\ Len(hw') <= HwDepth
        /\ delivered' \subseteq 0..MaxBytes /\ came' \in 0..MaxBytes
    BY <1>1, <1>2 DEF TypeOK
  <2>2. /\ ring' \in [0..(Size - 1) -> 0..MaxBytes]
        /\ got' \in 0..(Size - 1) \cup {Full} /\ read' \in 0..Size
        /\ (read' = Size => svc'.step = "wrap")
    BY <1>1, <1>4, <1>5 DEF Rings, Gots
  <2>3. /\ state' \in [Threads -> {"ready", "blocked", "waits"}]
        /\ blockedUart' \in Readers \cup {None} /\ request' \in BOOLEAN
        /\ dfcs' \in Seq(1..MaxBytes) /\ raced' \in BOOLEAN
    BY <1>1, <1>2, <1>3 DEF TypeOK
  <2> QED BY <1>1, <2>1, <2>2, <2>3 DEF TypeOK
<1>7. ASSUME svc.step \in {"unfull", "advance"}, got # read
      PROVE  got' # read /\ ring'[read] = ring[read]
  <2>1. read \in 0..(Size - 1)
    BY <1>5, <1>7
  <2> QED BY <1>4, <1>5, <1>7, <2>1 DEF Rings, Slot
<1>8. SvcKnows'
  <2>1. svc' \in SvcRecords
        /\ (svc'.step = "idle" => svc' = Idle)
        /\ (svc'.step # "idle" => svc'.thread \in Threads /\ state'[svc'.thread] = "ready")
    BY <1>1, <1>2 DEF SvcKnows, SvcRecords
  <2>2. svc'.step = "unfull" => got' # read' /\ svc'.byte = ring'[read']
    BY <1>1, <1>4, <1>7 DEF SvcKnows
  <2>3. ASSUME svc.step = "advance", ~PushIsTorn
        PROVE  got' # Full /\ svc.byte = ring'[read]
    <3>1. Count(got, read, 1) < Size - 2 /\ read \in 0..(Size - 1)
      BY <1>5, <2>3 DEF PushIsTorn
    <3>2. got # read /\ got' # Full
      BY <1>4, <3>1 DEF Count, First, Slot
    <3>3. svc.byte = ring[read]
      BY <1>1, <2>3 DEF SvcKnows
    <3> QED BY <1>7, <2>3, <3>2, <3>3
  <2>4. svc'.step = "advance" /\ ~raced' => got' # Full /\ svc'.byte = ring'[read']
    BY <1>1, <1>2, <1>4, <2>3
  <2> QED BY <2>1, <2>2, <2>4 DEF SvcKnows, SvcRecords
<1>9. RequestIsInOnePlace'
  BY <1>1, <1>2 DEF RequestIsInOnePlace
<1>10. InHand' = InHand
  BY <1>1 DEF InHand
<1>11. ASSUME ~PushIsTorn PROVE Sound'
  <2>1. Contents' = Append(Contents, b) /\ IsInjective(Contents)
        /\ b \notin Bytes(Contents)
    BY <1>1, <1>4, <1>11 DEF Sound, Goes
  <2>2. /\ Bytes(Contents') = Bytes(Contents) \cup {b}
        /\ IsInjective(Contents')
    BY <1>3, <1>5, <2>1, AppendBytes
  <2>3. Apart({}, Bytes(Contents'), Bytes(dfcs'), InHand', delivered', dropped',
              came')
    BY <1>1, <1>2, <1>10, <2>2 DEF Goes
  <2> QED BY <1>1, <1>2, <2>2, <2>3 DEF Sound
<1>12. ASSUME PushIsTorn PROVE Damage'
  <2>1. Lost'
    <3>1. b \notin Bytes(dfcs) /\ b \notin InHand /\ b \notin delivered
          /\ b \notin dropped
      BY <1>1 DEF Goes
    <3> QED BY <1>1, <1>2, <1>10, <3>1 DEF Lost
  <2>2. CASE svc.step = "advance"
    <3>1. Count(got, read, 1) >= Size - 2 /\ read \in 0..(Size - 1)
      BY <1>5, <1>12, <2>2 DEF PushIsTorn
    <3>2. CASE got = read
      <4>1. Slot(read + 1) # read /\ got' = Slot(read + 1)
        BY <1>4, <3>1, <3>2 DEF Slot
      <4>2. got' = (read' + 1) % Size
        <5>1. First(read, 1) = (read + 1) % Size
          BY <3>1, FirstIs
        <5> QED BY <1>4, <4>1, <5>1 DEF First
      <4> QED BY <1>1, <2>1, <2>2, <4>2 DEF Damage
    <3>3. CASE got # read
      <4>1. Slot(got + 1) = read
        BY <1>4, <3>1, <3>3 DEF Count, First, Slot
      <4>2. got' = Full /\ ring'[read] = ring[read]
        BY <1>4, <1>7, <2>2, <3>3, <4>1
      <4>3. ring[read] = svc.byte
        BY <1>1, <2>2 DEF SvcKnows
      <4> QED BY <1>1, <1>4, <2>2, <4>2, <4>3 DEF Damage
    <3> QED BY <3>2, <3>3
  <2>3. CASE svc.step = "wrap" /\ read = Size /\ Len(Contents) = Size - 1
    <3>1. Count(got, Size, 0) = got /\ Ahead = 0
      BY <1>4, <1>5, <2>3 DEF Count, First, Slot
    <3>2. got' = 0
      BY <1>4, <1>5, <2>3, <3>1 DEF Slot
    <3>3. read' % Size = 0
      BY <1>4, <2>3, RemainderIs
    <3> QED BY <1>1, <2>1, <2>3, <3>2, <3>3 DEF Damage
  <2> QED BY <1>12, <2>2, <2>3 DEF PushIsTorn
<1>13. IF raced' THEN Damage' ELSE Sound'
  BY <1>2, <1>11, <1>12
<1> QED BY <1>1, <1>6, <1>8, <1>9, <1>13 DEF IInv

LEMMA IrqStep ==
  ASSUME IInv, ~raced, Irq
  PROVE  IInv'
BY BlockedStep, RequestStep, KeptStep, DroppedStep DEF Irq

-----------------------------------------------------------------------------
(* The DFC and the SVCs                                                    *)

\* Once raced, only ring_pop's last statements are followed.
LEMMA RacedSteps ==
  ASSUME IInv, raced
  PROVE  svc.step \in {"idle", "advance", "wrap"}
BY DEF IInv, Damage

\* A byte goes from one place to another and the rest stays.
Moves(h, c, d, i, g, l, n, x) ==
  /\ Apart(h \cup {x}, c, d, i, g, l, n) /\ x \notin h =>
       Apart(h, c, d, i, g \cup {x}, l, n)
  /\ Apart(h, c \cup {x}, d, {}, g, l, n) /\ x \notin c =>
       Apart(h, c, d, {x}, g, l, n)
  /\ Apart(h, c, d \cup {x}, i, g, l, n) /\ x \notin d =>
       Apart(h, c, d, i, g \cup {x}, l, n)
  /\ Apart(h, c, d, {x}, g, l, n) =>
       Apart(h, c, d, {}, g \cup {x}, l, n)

LEMMA ByteMoves ==
  ASSUME NEW h, NEW c, NEW d, NEW i, NEW g, NEW l, NEW n, NEW x
  PROVE  Moves(h, c, d, i, g, l, n, x)
<1> DEFINE N == 1..n
<1> HIDE DEF N
<1>1. ASSUME Apart(h \cup {x}, c, d, i, g, l, n), x \notin h
      PROVE  Apart(h, c, d, i, g \cup {x}, l, n)
  <2>1. /\ (h \cup {x}) \cup c \cup d \cup i \cup g \cup l = N
        /\ (h \cup {x}) \cap (c \cup d \cup i \cup g \cup l) = {}
        /\ c \cap (d \cup i \cup g \cup l) = {} /\ d \cap (i \cup g \cup l) = {}
        /\ i \cap (g \cup l) = {} /\ g \cap l = {}
    BY <1>1 DEF Apart, N
  <2>2. h \cup c \cup d \cup i \cup (g \cup {x}) \cup l = N
    BY <2>1
  <2>3. h \cap (c \cup d \cup i \cup (g \cup {x}) \cup l) = {}
        /\ c \cap (d \cup i \cup (g \cup {x}) \cup l) = {}
    BY <1>1, <2>1
  <2>4. d \cap (i \cup (g \cup {x}) \cup l) = {} /\ i \cap ((g \cup {x}) \cup l) = {}
        /\ (g \cup {x}) \cap l = {}
    BY <2>1
  <2> QED BY <2>2, <2>3, <2>4 DEF Apart, N
<1>2. ASSUME Apart(h, c \cup {x}, d, {}, g, l, n), x \notin c
      PROVE  Apart(h, c, d, {x}, g, l, n)
  <2>1. /\ h \cup (c \cup {x}) \cup d \cup {} \cup g \cup l = N
        /\ h \cap ((c \cup {x}) \cup d \cup {} \cup g \cup l) = {}
        /\ (c \cup {x}) \cap (d \cup {} \cup g \cup l) = {}
        /\ d \cap ({} \cup g \cup l) = {} /\ g \cap l = {}
    BY <1>2 DEF Apart, N
  <2>2. h \cup c \cup d \cup {x} \cup g \cup l = N
    BY <2>1
  <2>3. h \cap (c \cup d \cup {x} \cup g \cup l) = {}
        /\ c \cap (d \cup {x} \cup g \cup l) = {}
    BY <1>2, <2>1
  <2>4. d \cap ({x} \cup g \cup l) = {} /\ {x} \cap (g \cup l) = {}
    BY <2>1
  <2> QED BY <2>1, <2>2, <2>3, <2>4 DEF Apart, N
<1>3. ASSUME Apart(h, c, d \cup {x}, i, g, l, n), x \notin d
      PROVE  Apart(h, c, d, i, g \cup {x}, l, n)
  <2>1. /\ h \cup c \cup (d \cup {x}) \cup i \cup g \cup l = N
        /\ h \cap (c \cup (d \cup {x}) \cup i \cup g \cup l) = {}
        /\ c \cap ((d \cup {x}) \cup i \cup g \cup l) = {}
        /\ (d \cup {x}) \cap (i \cup g \cup l) = {}
        /\ i \cap (g \cup l) = {} /\ g \cap l = {}
    BY <1>3 DEF Apart, N
  <2>2. h \cup c \cup d \cup i \cup (g \cup {x}) \cup l = N
    BY <2>1
  <2>3. h \cap (c \cup d \cup i \cup (g \cup {x}) \cup l) = {}
        /\ c \cap (d \cup i \cup (g \cup {x}) \cup l) = {}
    BY <2>1
  <2>4. d \cap (i \cup (g \cup {x}) \cup l) = {} /\ i \cap ((g \cup {x}) \cup l) = {}
        /\ (g \cup {x}) \cap l = {}
    BY <1>3, <2>1
  <2> QED BY <2>2, <2>3, <2>4 DEF Apart, N
<1>4. ASSUME Apart(h, c, d, {x}, g, l, n)
      PROVE  Apart(h, c, d, {}, g \cup {x}, l, n)
  <2>1. /\ h \cup c \cup d \cup {x} \cup g \cup l = N
        /\ h \cap (c \cup d \cup {x} \cup g \cup l) = {}
        /\ c \cap (d \cup {x} \cup g \cup l) = {} /\ d \cap ({x} \cup g \cup l) = {}
        /\ {x} \cap (g \cup l) = {} /\ g \cap l = {}
    BY <1>4 DEF Apart, N
  <2>2. h \cup c \cup d \cup {} \cup (g \cup {x}) \cup l = N
    BY <2>1
  <2>3. h \cap (c \cup d \cup {} \cup (g \cup {x}) \cup l) = {}
        /\ c \cap (d \cup {} \cup (g \cup {x}) \cup l) = {}
    BY <2>1
  <2>4. d \cap ({} \cup (g \cup {x}) \cup l) = {} /\ {} \cap ((g \cup {x}) \cup l) = {}
        /\ (g \cup {x}) \cap l = {}
    BY <2>1
  <2> QED BY <2>2, <2>3, <2>4 DEF Apart, N
<1> QED BY <1>1, <1>2, <1>3, <1>4 DEF Moves

LEMMA DfcRunStep ==
  ASSUME IInv, ~raced, DfcRun
  PROVE  IInv'
<1> USE Constants
<1> DEFINE S == 1..MaxBytes
           x == Head(dfcs)
<1>1. /\ TypeOK /\ SvcKnows /\ RequestIsInOnePlace /\ Sound /\ UartKnows
      /\ svc = Idle /\ dfcs # << >> /\ dfcs \in Seq(S)
      /\ dfcs' = Tail(dfcs) /\ delivered' = delivered \cup {x}
      /\ state' = [state EXCEPT ![Console] = "ready"]
      /\ UNCHANGED << ringVars, hw, came, blockedUart, request, svc, dropped,
                      raced >>
  BY DEF IInv, DfcRun, TypeOK
<1> HIDE DEF S
<1>2. /\ dfcs' \in Seq(S) /\ x \in S /\ Len(dfcs') = Len(dfcs) - 1
      /\ Len(dfcs) \in Nat \ {0}
  BY <1>1
<1>3. /\ Bytes(dfcs) = Bytes(dfcs') \cup {x}
      /\ IsInjective(dfcs') /\ x \notin Bytes(dfcs')
  BY <1>1, TailBytes DEF Sound
<1> HIDE DEF x
<1>4. /\ state' \in [Threads -> {"ready", "blocked", "waits"}]
      /\ state'[Console] = "ready"
  BY <1>1 DEF TypeOK, Threads
<1>5. TypeOK'
  <2>1. delivered' \subseteq 0..MaxBytes /\ dfcs' \in Seq(1..MaxBytes)
    BY <1>1, <1>2 DEF TypeOK, S
  <2> QED BY <1>1, <1>4, <2>1 DEF TypeOK, ringVars
<1>6. SvcKnows'
  BY <1>1, IdleIs DEF SvcKnows
<1>7. UartKnows'
  BY <1>1 DEF UartKnows
<1>8. RequestIsInOnePlace'
  <2>1. (IF request THEN 1 ELSE 0) + Len(dfcs)
          = (IF state[Console] = "waits" THEN 1 ELSE 0)
    BY <1>1 DEF RequestIsInOnePlace
  <2>2. ~request /\ Len(dfcs) = 1
    BY <1>2, <2>1
  <2> QED BY <1>1, <1>2, <1>4, <2>2 DEF RequestIsInOnePlace
<1>9. Contents' = Contents /\ InHand' = InHand
  BY <1>1, ContentsStay DEF InHand
<1>10. Apart(Bytes(hw), Bytes(Contents), Bytes(dfcs'), InHand,
             delivered \cup {x}, dropped, came)
  <2>1. Apart(Bytes(hw), Bytes(Contents), Bytes(dfcs') \cup {x}, InHand,
              delivered, dropped, came)
    BY <1>1, <1>3 DEF Sound
  <2>2. Moves(Bytes(hw), Bytes(Contents), Bytes(dfcs'), InHand, delivered,
              dropped, came, x)
    BY ByteMoves
  <2> QED BY <1>3, <2>1, <2>2 DEF Moves
<1>11. Sound'
  BY <1>1, <1>3, <1>9, <1>10 DEF Sound
<1> QED BY <1>1, <1>5, <1>6, <1>7, <1>8, <1>11 DEF IInv

\* An SVC that only looks moves no byte.
LEMMA LookMovesNothing ==
  ASSUME Sound, UartKnows,
         UNCHANGED << ringVars, hw, came, dfcs, delivered, dropped >>,
         svc.step \notin {"advance", "wrap"}, svc'.step \notin {"advance", "wrap"}
  PROVE  Sound' /\ UartKnows' /\ Contents' = Contents
<1>1. Contents' = Contents /\ InHand' = InHand
  BY ContentsStay DEF InHand
<1> QED BY <1>1 DEF Sound, UartKnows

LEMMA CallStep ==
  ASSUME IInv, ~raced, NEW t \in Threads, Call(t)
  PROVE  IInv'
<1> USE Constants
<1>1. /\ TypeOK /\ SvcKnows /\ RequestIsInOnePlace /\ Sound /\ UartKnows
      /\ svc = Idle /\ state[t] = "ready"
      /\ svc' = [step |-> "check", thread |-> t, byte |-> 0]
      /\ UNCHANGED << ringVars, hw, came, state, blockedUart, request, dfcs,
                      delivered, dropped, raced >>
  BY DEF IInv, Call
<1>2. /\ svc' \in SvcRecords
      /\ svc'.step = "check" /\ svc'.thread = t
  BY <1>1 DEF SvcRecords, SvcSteps
<1>3. svc.step = "idle"
  BY <1>1, IdleIs
<1>4. TypeOK'
  BY <1>1, <1>3 DEF TypeOK, ringVars
<1>5. SvcKnows'
  BY <1>1, <1>2 DEF SvcKnows, SvcRecords
<1>6. RequestIsInOnePlace'
  BY <1>1 DEF RequestIsInOnePlace
<1>7. Sound' /\ UartKnows'
  BY <1>1, <1>2, <1>3, LookMovesNothing
<1> QED BY <1>1, <1>4, <1>5, <1>6, <1>7 DEF IInv

LEMMA CheckStep ==
  ASSUME IInv, Check
  PROVE  IInv'
<1> USE Constants
<1>1. /\ TypeOK /\ SvcKnows /\ RequestIsInOnePlace /\ UartKnows
      /\ svc.step = "check" /\ svc \in SvcRecords
      /\ UNCHANGED << ringVars, hw, came, state, blockedUart, request, dfcs,
                      delivered, dropped, raced >>
  BY DEF IInv, Check, SvcKnows, SvcRecords
<1>2. ~raced /\ Sound
  BY <1>1, RacedSteps DEF IInv
<1>3. Goto("getch", 0) \/ Goto("register", 0)
  BY DEF Check
<1>4. /\ svc' \in SvcRecords /\ svc'.step \in {"getch", "register"}
      /\ svc'.thread = svc.thread
  <2>1. "getch" \in SvcSteps /\ "register" \in SvcSteps /\ 0 \in 0..MaxBytes
    BY DEF SvcSteps
  <2> QED BY <1>1, <1>3, <2>1, GotoIs
<1>5. TypeOK'
  BY <1>1 DEF TypeOK, ringVars
<1>6. SvcKnows'
  BY <1>1, <1>4 DEF SvcKnows, SvcRecords
<1>7. RequestIsInOnePlace'
  BY <1>1 DEF RequestIsInOnePlace
<1>8. Sound' /\ UartKnows'
  BY <1>1, <1>2, <1>4, LookMovesNothing
<1> QED BY <1>1, <1>2, <1>5, <1>6, <1>7, <1>8 DEF IInv

\* The thread of the SVC is ready, so if it is Console it has no request, and
\* no answer is under way to it.
LEMMA RegisterStep ==
  ASSUME IInv, Register
  PROVE  IInv'
<1> USE Constants
<1>1. /\ TypeOK /\ SvcKnows /\ RequestIsInOnePlace /\ UartKnows
      /\ svc.step = "register" /\ svc' = Idle
      /\ UNCHANGED << ringVars, hw, came, dfcs, delivered, dropped, raced >>
  BY DEF IInv, Register
<1>2. ~raced /\ Sound
  BY <1>1, RacedSteps DEF IInv
<1>3. svc.thread \in Threads /\ state[svc.thread] = "ready"
  BY <1>1 DEF SvcKnows
<1>4. svc'.step = "idle"
  BY <1>1, IdleIs
<1>5. /\ state \in [Threads -> {"ready", "blocked", "waits"}]
      /\ state' = [state EXCEPT ![svc.thread] =
                     IF svc.thread = Console THEN "waits" ELSE "blocked"]
  BY <1>1 DEF Register, TypeOK
<1>6. state' \in [Threads -> {"ready", "blocked", "waits"}]
  BY <1>3, <1>5
<1>7. /\ blockedUart' \in Readers \cup {None} /\ request' \in BOOLEAN
      /\ dfcs \in Seq(1..MaxBytes) /\ Len(dfcs) \in Nat
  <2>1. dfcs \in Seq(1..MaxBytes) /\ Len(dfcs) \in Nat
    BY <1>1 DEF TypeOK
  <2>2. blockedUart \in Readers \cup {None} /\ request \in BOOLEAN
    BY <1>1 DEF TypeOK
  <2> QED BY <1>3, <2>1, <2>2 DEF Register, Threads
<1>8. TypeOK'
  BY <1>1, <1>4, <1>6, <1>7 DEF TypeOK, ringVars
<1>9. SvcKnows'
  BY <1>1, <1>4, IdleIs DEF SvcKnows, SvcRecords
<1>10. RequestIsInOnePlace'
  <2>1. (IF request THEN 1 ELSE 0) + Len(dfcs)
          = (IF state[Console] = "waits" THEN 1 ELSE 0)
    BY <1>1 DEF RequestIsInOnePlace
  <2>2. CASE svc.thread = Console
    <3>1. Len(dfcs) = 0
      BY <1>3, <1>7, <2>1, <2>2
    <3>2. request' = TRUE /\ state'[Console] = "waits"
      BY <1>3, <1>5, <2>2 DEF Register
    <3> QED BY <1>1, <3>1, <3>2 DEF RequestIsInOnePlace
  <2>3. CASE svc.thread # Console
    <3>1. request' = request /\ state'[Console] = state[Console]
      BY <1>3, <1>5, <2>3 DEF Register, Threads
    <3> QED BY <1>1, <2>1, <3>1 DEF RequestIsInOnePlace
  <2> QED BY <2>2, <2>3
<1>11. Sound' /\ UartKnows'
  BY <1>1, <1>2, <1>4, LookMovesNothing
<1> QED BY <1>1, <1>2, <1>8, <1>9, <1>10, <1>11 DEF IInv

LEMMA GetchStep ==
  ASSUME IInv, Getch
  PROVE  IInv'
<1> USE Constants
<1>1. /\ TypeOK /\ SvcKnows /\ RequestIsInOnePlace /\ UartKnows
      /\ svc.step = "getch" /\ svc \in SvcRecords
      /\ UNCHANGED << ringVars, hw, came, state, blockedUart, request, dfcs,
                      delivered, dropped, raced >>
  BY DEF IInv, Getch, SvcKnows, SvcRecords
<1>2. ~raced /\ Sound
  BY <1>1, RacedSteps DEF IInv
<1>3. ring[read] \in 0..MaxBytes
  BY <1>1 DEF TypeOK
<1>4. /\ svc' \in SvcRecords /\ svc'.thread = svc.thread
      /\ \/ svc'.step = "spin"
         \/ svc'.step = "unfull" /\ got # read /\ svc'.byte = ring[read]
  <2>1. "spin" \in SvcSteps /\ "unfull" \in SvcSteps /\ 0 \in 0..MaxBytes
    BY DEF SvcSteps
  <2>2. CASE got = read
    <3>1. Goto("spin", 0)
      BY <2>2 DEF Getch, RingEmpty
    <3> QED BY <1>1, <2>1, <3>1, GotoIs
  <2>3. CASE got # read
    <3>1. Goto("unfull", ring[read])
      BY <2>3 DEF Getch, RingEmpty
    <3> QED BY <1>1, <1>3, <2>1, <2>3, <3>1, GotoIs
  <2> QED BY <2>2, <2>3
<1>5. TypeOK'
  BY <1>1 DEF TypeOK, ringVars
<1>6. SvcKnows'
  BY <1>1, <1>4 DEF SvcKnows, SvcRecords, ringVars
<1>7. RequestIsInOnePlace'
  BY <1>1 DEF RequestIsInOnePlace
<1>8. Sound' /\ UartKnows'
  BY <1>1, <1>2, <1>4, LookMovesNothing
<1> QED BY <1>1, <1>2, <1>5, <1>6, <1>7, <1>8 DEF IInv

\* The byte that ring_pop has read is the ring's first, which it holds no more.
LEMMA UnfullPops ==
  ASSUME IInv, PopUnfull
  PROVE  /\ ~raced /\ Contents # << >> /\ Head(Contents) = svc.byte
         /\ Contents' = Tail(Contents)
         /\ got' \in 0..(Size - 1) /\ svc.step = "unfull"
         /\ svc' \in SvcRecords /\ svc'.step = "advance"
         /\ svc'.thread = svc.thread /\ svc'.byte = svc.byte
         /\ svc.byte \in 0..MaxBytes /\ read \in 0..(Size - 1)
<1> USE Constants
<1>1. /\ TypeOK /\ SvcKnows /\ svc.step = "unfull" /\ svc \in SvcRecords
      /\ got' = IF got = Full THEN read ELSE got
      /\ Goto("advance", svc.byte)
      /\ ring' = ring /\ read' = read
  BY DEF IInv, PopUnfull, SvcKnows, SvcRecords, RingFull
<1>2. got # read /\ svc.byte = ring[read] /\ svc.byte \in 0..MaxBytes
  BY <1>1 DEF SvcKnows
<1>3. ~raced
  BY <1>1, RacedSteps
<1>4. svc' \in SvcRecords /\ svc'.step = "advance" /\ svc'.thread = svc.thread
      /\ svc'.byte = svc.byte
  <2>1. "advance" \in SvcSteps
    BY DEF SvcSteps
  <2> QED BY <1>1, <1>2, <2>1, GotoIs
<1>5. /\ ring \in Rings /\ got \in Gots /\ read \in 0..(Size - 1) /\ Ahead = 0
      /\ read \in 0..Size
  BY <1>1 DEF TypeOK, Rings, Gots, Ahead
<1>6. /\ got' \in 0..(Size - 1)
      /\ Queue(ring, got, read, 0) # << >>
      /\ Head(Queue(ring, got, read, 0)) = ring[read]
      /\ Queue(ring, got', read, 1) = Tail(Queue(ring, got, read, 0))
  <2>1. Takes(ring, got, read, Unmarked(got, read))
    BY <1>2, <1>5, UnfullTakes
  <2> QED BY <1>1, <2>1 DEF Takes, Unmarked
<1>7. Contents = Queue(ring, got, read, 0)
  BY <1>1, <1>5, ContentsIs
<1>8. Contents' = Queue(ring, got', read, 1)
  <2>1. /\ ring' \in Rings /\ got' \in Gots /\ read' \in 0..Size
        /\ (read' = Size => svc'.step = "wrap")
    BY <1>1, <1>5, <1>6 DEF Gots
  <2> DEFINE start == (IF svc'.step = "advance" THEN read' + 1 ELSE read') % Size
  <2>2. Contents' = Held(ring', got', read', svc'.step, start)
    BY DEF Contents, Stored, Held
  <2> HIDE DEF start
  <2>3. Contents' = Queue(ring', got', read',
                          IF svc'.step = "advance" THEN 1 ELSE 0)
    BY <2>1, <2>2, ContentsOf DEF start
  <2> QED BY <1>1, <1>4, <2>3
<1> QED BY <1>1, <1>2, <1>3, <1>4, <1>5, <1>6, <1>7, <1>8

LEMMA PopUnfullStep ==
  ASSUME IInv, PopUnfull
  PROVE  IInv'
<1> USE Constants
<1> DEFINE x == svc.byte
<1>1. /\ TypeOK /\ SvcKnows /\ RequestIsInOnePlace /\ UartKnows /\ ~raced /\ Sound
      /\ UNCHANGED << ring, read, hw, came, state, blockedUart, request, dfcs,
                      delivered, dropped, raced >>
  BY UnfullPops DEF IInv, PopUnfull
<1>2. /\ Contents # << >> /\ Head(Contents) = x /\ Contents' = Tail(Contents)
      /\ got' \in 0..(Size - 1) /\ svc.step = "unfull"
      /\ svc' \in SvcRecords /\ svc'.step = "advance"
      /\ svc'.thread = svc.thread /\ svc'.byte = x
      /\ read \in 0..(Size - 1)
  BY UnfullPops
<1>3. x = ring[read]
  BY <1>1, <1>2 DEF SvcKnows
<1> HIDE DEF x
<1>4. TypeOK'
  BY <1>1, <1>2 DEF TypeOK
<1>5. SvcKnows'
  <2>1. got' # Full
    BY <1>2
  <2> QED BY <1>1, <1>2, <1>3, <2>1 DEF SvcKnows, SvcRecords
<1>6. RequestIsInOnePlace' /\ UartKnows'
  BY <1>1 DEF RequestIsInOnePlace, UartKnows
<1>7. /\ Bytes(Contents) = Bytes(Contents') \cup {x}
      /\ IsInjective(Contents') /\ x \notin Bytes(Contents')
  BY <1>1, <1>2, TailBytes, RingTyped DEF Sound
<1>8. InHand = {} /\ InHand' = {x}
  BY <1>2 DEF InHand
<1>9. Apart(Bytes(hw), Bytes(Contents'), Bytes(dfcs), {x}, delivered, dropped,
            came)
  <2>1. Apart(Bytes(hw), Bytes(Contents') \cup {x}, Bytes(dfcs), {}, delivered,
              dropped, came)
    BY <1>1, <1>7, <1>8 DEF Sound
  <2>2. Moves(Bytes(hw), Bytes(Contents'), Bytes(dfcs), {}, delivered, dropped,
              came, x)
    BY ByteMoves
  <2> QED BY <1>7, <2>1, <2>2 DEF Moves
<1>10. Sound'
  BY <1>1, <1>7, <1>8, <1>9 DEF Sound
<1> QED BY <1>1, <1>4, <1>5, <1>6, <1>10 DEF IInv

\* *read moves on, and whether raced or not, the ring holds what it did.
LEMMA PopAdvanceStep ==
  ASSUME IInv, PopAdvance
  PROVE  /\ IInv'
         /\ ~raced => Contents' = Contents /\ InHand' = InHand
<1> USE Constants
<1>1. /\ TypeOK /\ SvcKnows /\ RequestIsInOnePlace /\ UartKnows
      /\ svc.step = "advance" /\ svc \in SvcRecords /\ svc.byte \in 0..MaxBytes
      /\ read' = read + 1 /\ Goto("wrap", svc.byte)
      /\ UNCHANGED << ring, got, hw, came, state, blockedUart, request, dfcs,
                      delivered, dropped, raced >>
  BY DEF IInv, PopAdvance, SvcKnows, SvcRecords
<1>2. /\ svc' \in SvcRecords /\ svc'.step = "wrap" /\ svc'.thread = svc.thread
      /\ svc'.byte = svc.byte
  <2>1. "wrap" \in SvcSteps
    BY DEF SvcSteps
  <2> QED BY <1>1, <2>1, GotoIs
<1>3. /\ ring \in Rings /\ got \in Gots /\ read \in 0..(Size - 1) /\ Ahead = 1
      /\ read + 1 \in 0..Size
  BY <1>1 DEF TypeOK, Rings, Gots, Ahead
<1>4. TypeOK'
  BY <1>1, <1>2, <1>3 DEF TypeOK
<1>5. SvcKnows'
  BY <1>1, <1>2 DEF SvcKnows, SvcRecords
<1>6. RequestIsInOnePlace' /\ UartKnows'
  BY <1>1 DEF RequestIsInOnePlace, UartKnows
<1>7. InHand' = InHand
  BY <1>1, <1>2 DEF InHand
<1>8. ASSUME ~raced PROVE Contents' = Contents
  <2>1. got \in 0..(Size - 1)
    BY <1>1, <1>3, <1>8 DEF SvcKnows, Gots
  <2>2. Queue(ring, got, read + 1, 0) = Queue(ring, got, read, 1)
    BY <1>3, <2>1, AdvanceKeeps
  <2>3. Contents = Queue(ring, got, read, 1)
    BY <1>1, <1>3, ContentsIs
  <2>4. Ahead' = 0
    BY <1>2 DEF Ahead
  <2>5. Contents' = Queue(ring, got, read + 1, 0)
    BY <1>1, <1>4, <2>4, ContentsNext
  <2> QED BY <2>2, <2>3, <2>5
<1>9. ASSUME ~raced PROVE Sound'
  BY <1>1, <1>7, <1>8, <1>9 DEF IInv, Sound
<1>10. ASSUME raced PROVE Damage'
  <2>1. Lost => Lost'
    BY <1>1, <1>7 DEF Lost
  <2>2. CASE Lost /\ got = (read + 1) % Size
    BY <1>1, <1>2, <2>1, <2>2 DEF Damage
  <2>3. CASE got = Full /\ ring[read] = svc.byte
    BY <1>1, <1>2, <1>3, <2>3 DEF Damage
  <2> QED BY <1>1, <1>10, <2>2, <2>3 DEF IInv, Damage
<1> QED BY <1>1, <1>4, <1>5, <1>6, <1>7, <1>8, <1>9, <1>10 DEF IInv

\* The byte is given out.  After a race the ring has come out empty, or full.
LEMMA PopWrapStep ==
  ASSUME IInv, PopWrap
  PROVE  /\ IInv'
         /\ ~raced => Contents' = Contents /\ InHand = {svc.byte} /\ InHand' = {}
<1> USE Constants
<1> DEFINE x == svc.byte
<1>1. /\ TypeOK /\ SvcKnows /\ RequestIsInOnePlace /\ UartKnows
      /\ svc.step = "wrap" /\ x \in 0..MaxBytes /\ svc' = Idle
      /\ read' = IF read = Size THEN 0 ELSE read
      /\ delivered' = delivered \cup {x}
      /\ UNCHANGED << ring, got, hw, came, state, blockedUart, request, dfcs,
                      dropped, raced >>
  BY DEF IInv, PopWrap, SvcKnows
<1>2. svc'.step = "idle" /\ InHand = {x} /\ InHand' = {} /\ Ahead = 0 /\ Ahead' = 0
  BY <1>1, IdleIs DEF InHand, Ahead
<1>3. /\ ring \in Rings /\ got \in Gots /\ read \in 0..Size
      /\ read' \in 0..(Size - 1)
  BY <1>1 DEF TypeOK, Rings, Gots
<1>4. TypeOK'
  <2>1. delivered \subseteq 0..MaxBytes
    BY <1>1 DEF TypeOK
  <2>2. delivered' \subseteq 0..MaxBytes
    BY <1>1, <2>1
  <2>3. read' # Size /\ read' \in 0..Size
    BY <1>3
  <2> QED BY <1>1, <1>3, <2>2, <2>3 DEF TypeOK
<1>5. SvcKnows'
  BY <1>1, <1>2, IdleIs DEF SvcKnows, SvcRecords
<1>6. RequestIsInOnePlace' /\ UartKnows'
  BY <1>1 DEF RequestIsInOnePlace, UartKnows
<1>7. Contents' = Queue(ring, got, read', 0)
  BY <1>1, <1>2, <1>4, ContentsNext
<1>8. Contents' = Contents
  <2>1. Contents = Queue(ring, got, read, 0)
    BY <1>1, <1>2, ContentsIs
  <2>2. Queue(ring, got, read', 0) = Queue(ring, got, read, 0)
    BY <1>1, <1>3, WrapKeeps
  <2> QED BY <1>7, <2>1, <2>2
<1> HIDE DEF x
<1>9. ASSUME ~raced PROVE Sound'
  <2>1. Apart(Bytes(hw), Bytes(Contents), Bytes(dfcs), {x}, delivered, dropped,
              came)
    BY <1>2, <1>9 DEF IInv, Sound
  <2>2. Moves(Bytes(hw), Bytes(Contents), Bytes(dfcs), {}, delivered, dropped,
              came, x)
    BY ByteMoves
  <2>3. Apart(Bytes(hw), Bytes(Contents), Bytes(dfcs), {}, delivered \cup {x},
              dropped, came)
    BY <2>1, <2>2 DEF Moves
  <2> QED BY <1>1, <1>2, <1>8, <1>9, <2>3 DEF IInv, Sound
<1>10. ASSUME raced PROVE Damage'
  <2>1. SUFFICES ASSUME Exact' PROVE FALSE
    BY <1>2 DEF Damage
  <2>2. Apart(Bytes(hw'), Bytes(Contents'), Bytes(dfcs'), InHand', delivered',
              dropped', came')
    BY <2>1, ExactNext
  <2>3. CASE Lost /\ got = read % Size
    <3>1. read' = got
      BY <1>1, <1>3, <2>3, RemainderIs
    <3>2. Contents' = << >> /\ Bytes(Contents') = {}
      BY <1>3, <1>7, <3>1, EmptyQueue, EmptyBytes
    <3>3. PICK b \in 1..came : b \notin Bytes(hw) \cup Bytes(dfcs) \cup InHand
                                          \cup delivered \cup dropped
      BY <2>3 DEF Lost
    <3>4. b \in Bytes(hw) \cup {} \cup Bytes(dfcs) \cup {} \cup (delivered \cup {x})
                  \cup dropped
      BY <1>1, <1>2, <2>2, <3>2 DEF Apart, x
    <3> QED BY <1>2, <3>3, <3>4
  <2>4. CASE got = Full /\ \E k \in 0..(Size - 1) : ring[k] = x
    <3>1. x \in Range(Queue(ring, Full, read', 0))
      BY <1>3, <2>4, FullQueue
    <3>2. x \in Bytes(Contents')
      BY <1>7, <2>4, <3>1 DEF Bytes
    <3>3. x \in delivered'
      BY <1>1 DEF x
    <3>4. Bytes(Contents') \cap (Bytes(dfcs') \cup InHand' \cup delivered'
                                   \cup dropped') = {}
      BY <2>2 DEF Apart
    <3> QED BY <3>2, <3>3, <3>4
  <2> QED BY <1>1, <1>10, <2>3, <2>4 DEF IInv, Damage, x
<1> QED BY <1>1, <1>2, <1>4, <1>5, <1>6, <1>8, <1>9, <1>10 DEF IInv, x

\* getch takes the uart's first byte, or the uart has none and 0 is given out.
LEMMA SpinStep ==
  ASSUME IInv, Spin
  PROVE  /\ IInv'
         /\ ~raced /\ Contents' = Contents /\ InHand = {} /\ InHand' = {}
<1> USE Constants
<1>1. /\ TypeOK /\ SvcKnows /\ RequestIsInOnePlace /\ UartKnows
      /\ svc.step = "spin" /\ svc' = Idle
      /\ UNCHANGED << ringVars, came, state, blockedUart, request, dfcs, dropped >>
  BY DEF IInv, Spin
<1>2. svc'.step = "idle" /\ InHand = {} /\ InHand' = {}
  BY <1>1, IdleIs DEF InHand
<1>3. ~raced /\ Sound
  BY <1>1, RacedSteps DEF IInv
<1>4. Contents' = Contents
  BY <1>1, <1>2, ContentsStay
<1>5. SvcKnows'
  BY <1>1, <1>2, IdleIs DEF SvcKnows, SvcRecords
<1>6. RequestIsInOnePlace'
  BY <1>1 DEF RequestIsInOnePlace
<1>7. CASE hw = << >>
  <2>1. hw' = hw /\ delivered' = delivered \cup {0} /\ raced'
    BY <1>7 DEF Spin
  <2>2. TypeOK'
    <3>1. delivered' \subseteq 0..MaxBytes /\ raced' \in BOOLEAN
      BY <1>1, <1>7, <2>1 DEF TypeOK, Spin
    <3> QED BY <1>1, <1>2, <2>1, <3>1 DEF TypeOK, ringVars
  <2>3. UartKnows'
    BY <1>1, <2>1 DEF UartKnows
  <2>4. ~Exact'
    <3>1. SUFFICES ASSUME Exact' PROVE FALSE
      OBVIOUS
    <3>2. Apart(Bytes(hw'), Bytes(Contents'), Bytes(dfcs'), InHand', delivered',
                dropped', came')
      BY <3>1, ExactNext
    <3>3. delivered' \subseteq 1..came'
      BY <3>2 DEF Apart
    <3>4. 0 \in 1..came'
      BY <2>1, <3>3
    <3> QED BY <3>4
  <2> QED BY <1>1, <1>2, <1>3, <1>4, <1>5, <1>6, <2>1, <2>2, <2>3, <2>4
          DEF IInv, Damage
<1>8. CASE hw # << >>
  <2> DEFINE x == Head(hw)
  <2>1. hw' = Tail(hw) /\ delivered' = delivered \cup {x} /\ raced' = FALSE
    BY <1>8 DEF Spin
  <2>2. /\ x \in 1..MaxBytes /\ x = came - Len(hw) + 1 /\ came \in Nat
        /\ Len(hw) \in Nat \ {0} /\ hw' \in Seq(1..MaxBytes)
        /\ Len(hw') = Len(hw) - 1 /\ Len(hw) <= HwDepth
    <3>1. came \in Nat /\ Len(hw) <= HwDepth
      BY <1>1 DEF TypeOK
    <3>2. /\ x \in 1..MaxBytes /\ x = came - Len(hw) + 1
          /\ Len(hw) \in Nat \ {0} /\ Tail(hw) \in Seq(1..MaxBytes)
          /\ Len(Tail(hw)) = Len(hw) - 1
      BY <1>1, <1>8, HeadIs
    <3> QED BY <2>1, <3>1, <3>2
  <2>3. /\ Bytes(hw) = Bytes(hw') \cup {x}
        /\ IsInjective(hw') /\ x \notin Bytes(hw')
    BY <1>1, <1>3, <1>8, <2>1, TailBytes DEF TypeOK, Sound
  <2> HIDE DEF x
  <2>4. TypeOK'
    <3>1. delivered \subseteq 0..MaxBytes
      BY <1>1 DEF TypeOK
    <3>2. x \in 0..MaxBytes
      BY <2>2
    <3>3. delivered' \subseteq 0..MaxBytes /\ raced' \in BOOLEAN
      BY <2>1, <3>1, <3>2
    <3>4. Len(hw') <= HwDepth
      BY <2>2
    <3> QED BY <1>1, <1>2, <2>2, <3>3, <3>4 DEF TypeOK, ringVars
  <2>5. UartKnows'
    <3> SUFFICES ASSUME NEW i \in 1..Len(hw') PROVE hw'[i] = came' - Len(hw') + i
      BY DEF UartKnows
    <3>1. i + 1 \in 1..Len(hw)
      BY <2>2
    <3>2. hw'[i] = hw[i + 1]
      BY <1>1, <2>1, <2>2 DEF TypeOK
    <3>3. hw[i + 1] = came - Len(hw) + (i + 1)
      BY <1>1, <3>1 DEF UartKnows
    <3> QED BY <1>1, <2>2, <3>2, <3>3
  <2>6. Apart(Bytes(hw'), Bytes(Contents), Bytes(dfcs), {}, delivered \cup {x},
              dropped, came)
    <3>1. Apart(Bytes(hw') \cup {x}, Bytes(Contents), Bytes(dfcs), {}, delivered,
                dropped, came)
      BY <1>2, <1>3, <2>3 DEF Sound
    <3>2. Moves(Bytes(hw'), Bytes(Contents), Bytes(dfcs), {}, delivered, dropped,
                came, x)
      BY ByteMoves
    <3> QED BY <2>3, <3>1, <3>2 DEF Moves
  <2>7. Sound'
    BY <1>1, <1>2, <1>3, <1>4, <2>1, <2>3, <2>6 DEF Sound
  <2> QED BY <1>1, <1>2, <1>3, <1>4, <1>5, <1>6, <2>1, <2>4, <2>5, <2>7
          DEF IInv
<1> QED BY <1>7, <1>8

-----------------------------------------------------------------------------
(* The theorems                                                            *)

LEMMA InitEmpty ==
  ASSUME Init
  PROVE  TypeOK /\ Contents = << >>
<1> USE Constants
<1>1. svc.step = "idle" /\ svc = Idle
  BY IdleIs DEF Init
<1>2. TypeOK
  <2>1. /\ ring \in [0..(Size - 1) -> 0..MaxBytes] /\ got = 0 /\ read = 0
        /\ read # Size /\ 0 \in 0..(Size - 1) /\ 0 \in 0..Size
    BY DEF Init
  <2>2. /\ hw = << >> /\ Len(hw) = 0 /\ hw \in Seq(1..MaxBytes) /\ came = 0
        /\ dfcs = << >> /\ dfcs \in Seq(1..MaxBytes)
        /\ delivered = {} /\ dropped = {} /\ raced = FALSE
    BY DEF Init
  <2>3. /\ state \in [Threads -> {"ready", "blocked", "waits"}]
        /\ blockedUart \in Readers \cup {None} /\ request \in BOOLEAN
    BY DEF Init
  <2> QED BY <2>1, <2>2, <2>3 DEF TypeOK
<1>3. Ahead = 0
  BY <1>1 DEF Ahead
<1>4. Queue(ring, 0, 0, 0) = << >>
  BY EmptyQueue
<1>5. got = 0 /\ read = 0
  BY DEF Init
<1> QED BY <1>2, <1>3, <1>4, <1>5, ContentsIs

LEMMA InitIInv ==
  ASSUME Init
  PROVE  IInv
<1> USE Constants
<1>1. /\ TypeOK /\ Contents = << >> /\ svc = Idle /\ hw = << >> /\ dfcs = << >>
      /\ came = 0 /\ delivered = {} /\ dropped = {} /\ raced = FALSE
      /\ request = FALSE /\ state = [t \in Threads |-> "ready"]
  BY InitEmpty DEF Init
<1>2. SvcKnows
  BY <1>1, IdleIs DEF SvcKnows, SvcRecords
<1>3. UartKnows
  BY <1>1 DEF UartKnows
<1>4. RequestIsInOnePlace
  BY <1>1 DEF RequestIsInOnePlace, Threads
<1>5. InHand = {}
  BY <1>1, IdleIs DEF InHand
<1>6. Apart({}, {}, {}, {}, {}, {}, 0)
  BY DEF Apart
<1>7. Sound
  BY <1>1, <1>5, <1>6, EmptyBytes DEF Sound
<1> QED BY <1>1, <1>2, <1>3, <1>4, <1>7 DEF IInv

LEMMA StutterStep ==
  ASSUME IInv, UNCHANGED vars
  PROVE  IInv'
<1>1. Contents' = Contents /\ InHand' = InHand
  BY ContentsStay DEF vars, InHand
<1>2. Exact' = Exact
  BY <1>1 DEF vars, Exact, Places
<1>3. TypeOK' /\ SvcKnows' /\ UartKnows' /\ RequestIsInOnePlace'
  BY DEF IInv, vars, ringVars, TypeOK, SvcKnows, UartKnows, RequestIsInOnePlace
<1>4. Sound => Sound'
  BY <1>1 DEF vars, Sound
<1>5. Damage => Damage'
  BY <1>1, <1>2 DEF vars, ringVars, Damage, Lost
<1> QED BY <1>3, <1>4, <1>5 DEF IInv, vars

LEMMA NextStep ==
  ASSUME IInv, [Next]_vars
  PROVE  IInv'
BY ArriveStep, IrqStep, DfcRunStep, CallStep, CheckStep, RegisterStep, GetchStep,
   PopUnfullStep, PopAdvanceStep, PopWrapStep, SpinStep, StutterStep
   DEF Next, SvcStep

\* The invariant under which the interrupt may come anywhere.
THEOREM Inductive == Spec => []IInv
<1>1. Init => IInv
  BY InitIInv
<1>2. IInv /\ [Next]_vars => IInv'
  BY NextStep
<1> QED BY <1>1, <1>2, PTL DEF Spec

\* Each byte that has come is in exactly one place, once, between any two SVCs
\* and interrupts, except after a push that tore a ring_pop or a byte that
\* getch missed, and after those it is not (uart_got_char, ring_push, ring_pop,
\* KExecGetch), whatever the size of the ring.
THEOREM BytesAreKept == Spec => []EachByteOnce
<1>1. IInv => EachByteOnce
  <2> SUFFICES ASSUME IInv, svc = Idle PROVE raced # Exact
    BY DEF EachByteOnce, IInv
  <2>1. svc.step = "idle" /\ raced \in BOOLEAN /\ Exact \in BOOLEAN
    BY IdleIs DEF IInv, TypeOK, Exact
  <2>2. CASE raced
    <3>1. ~Exact
      BY <2>1, <2>2 DEF IInv, Damage
    <3> QED BY <2>1, <2>2, <3>1
  <2>3. CASE ~raced
    <3>1. Exact
      BY <2>3, SoundMeans DEF IInv
    <3> QED BY <2>1, <2>3, <3>1
  <2> QED BY <2>2, <2>3
<1> QED BY <1>1, Inductive, PTL

\* The asynchronous request is registered or has one answer under way, and only
\* while its thread waits (KExecGetch_Async, dfc_requestComplete).
THEOREM RequestKept == Spec => []RequestIsInOnePlace
<1>1. IInv => RequestIsInOnePlace
  BY DEF IInv
<1> QED BY <1>1, Inductive, PTL

-----------------------------------------------------------------------------
(* The refinement of UartSpec                                              *)

\* UartSpec's next and given.
next == came - Len(hw) + 1
given == delivered \cup Bytes(dfcs) \cup InHand
looking == svc.step \in {"register", "spin"}
waiting == blockedUart # None \/ request

LEMMA AbstractInit ==
  ASSUME Init
  PROVE  Abstract!Init
<1>1. next = 1
  BY DEF Init, next
<1>2. given = {}
  BY EmptyBytes, IdleIs DEF Init, given, InHand
<1>3. ~looking /\ ~waiting
  <2>1. /\ svc.step = "idle" /\ blockedUart = None /\ request = FALSE
    BY IdleIs DEF Init
  <2> QED BY <2>1 DEF looking, waiting
<1>4. next = 1 /\ Contents = << >> /\ dropped = {} /\ raced = FALSE
  BY <1>1, InitEmpty DEF Init
<1> QED BY <1>2, <1>3, <1>4
        DEF Abstract!Init, next, given, looking, waiting

\* The handler: the bytes behind the one that it reads are lost.
LEMMA AbstractIrq ==
  ASSUME IInv, IInv', ~raced, ~raced', Irq
  PROVE  Abstract!Next
<1> USE Constants
<1> DEFINE b == Head(hw)
           o == Range(Tail(hw))
           behind == (next + 1)..(next' - 1)
<1>1. /\ TypeOK /\ SvcKnows /\ b \in 1..MaxBytes /\ b \in 1..came
      /\ hw' = << >> /\ Len(hw') = 0 /\ UNCHANGED << came, svc >>
  BY IrqTakes
<1>2. hw # << >> /\ UartKnows /\ came \in Nat
  BY <1>1 DEF Irq, IInv, TypeOK
<1>3. b = next /\ o = (b + 1)..came
  BY <1>1, <1>2, HeadIs DEF Bytes, next
<1>4. next' = came + 1 /\ behind = o /\ next' > next
  <2>1. next' = came + 1
    BY <1>1, <1>2 DEF next
  <2> HIDE DEF b, o
  <2> QED BY <1>1, <1>2, <1>3, <2>1
<1>5. InHand' = InHand /\ raced' = raced
  BY <1>1 DEF InHand, IInv, TypeOK
<1> HIDE DEF behind
<1>l. looking' = looking /\ waiting' \in BOOLEAN
  BY <1>1 DEF looking, waiting
<1>6. SUFFICES \/ /\ \/ /\ waiting
                        /\ given' = given \cup {next} /\ Contents' = Contents
                     \/ /\ ~waiting /\ waiting' = waiting
                        /\ Len(Contents) < Size /\ given' = given
                        /\ Contents' = Append(Contents, next)
                  /\ dropped' = dropped \cup o
               \/ /\ ~waiting /\ waiting' = waiting
                  /\ Len(Contents) = Size /\ given' = given /\ Contents' = Contents
                  /\ dropped' = dropped \cup {next} \cup o
  <2>1. Abstract!Handle
    BY <1>4, <1>l, <1>6 DEF Abstract!Handle, Abstract!Pass, Abstract!Keep,
                      Abstract!Drop, behind, next, given, looking, waiting
  <2> QED BY <1>5, <2>1 DEF Abstract!Next
<1>7. CASE GotCharBlocked(b, o)
  BY <1>1, <1>3, <1>5, <1>7, ContentsStay DEF GotCharBlocked, given, waiting
<1>8. CASE GotCharRequest(b, o)
  <2>1. dfcs \in Seq(1..MaxBytes) /\ dfcs' = Append(dfcs, b)
    BY <1>1, <1>8 DEF TypeOK, GotCharRequest
  <2> HIDE DEF b, o
  <2>2. Bytes(dfcs') = Bytes(dfcs) \cup {b}
    BY <1>1, <2>1, AppendBytes
  <2>3. waiting
    BY <1>8 DEF GotCharRequest, waiting
  <2> QED BY <1>1, <1>3, <1>5, <1>8, <2>2, <2>3, ContentsStay
          DEF GotCharRequest, given
<1>9. CASE GotCharKept(b, o)
  <2>1. ~RingFull /\ RingPush(b) /\ ~PushIsTorn /\ dropped' = dropped \cup o
        /\ UNCHANGED << dfcs, delivered >> /\ b \in 0..MaxBytes
    BY <1>1, <1>9 DEF GotCharKept
  <2> HIDE DEF b, o
  <2>2. Contents' = Append(Contents, b) /\ Len(Contents) < Size
    BY <1>1, <2>1, KeptAppends
  <2>3. ~waiting /\ waiting' = waiting
    BY <1>9 DEF GotCharKept, waiting
  <2> QED BY <1>3, <1>5, <2>1, <2>2, <2>3 DEF given
<1>10. CASE GotCharDropped(b, o)
  <2>1. /\ got = Full /\ dropped' = dropped \cup {b} \cup o
        /\ UNCHANGED << ringVars, dfcs, delivered >>
    BY <1>10 DEF GotCharDropped, RingFull
  <2>2. svc.step # "advance"
    BY <1>1, <2>1 DEF SvcKnows
  <2>3. Len(Contents) = Size
    BY <1>1, <2>1, <2>2, RingTyped DEF Ahead, Count
  <2>4. ~waiting /\ waiting' = waiting
    BY <1>10 DEF GotCharDropped, waiting
  <2> QED BY <1>1, <1>3, <1>5, <2>1, <2>3, <2>4, ContentsStay DEF given
<1> QED BY <1>7, <1>8, <1>9, <1>10 DEF Irq

\* A step of an SVC or a DFC: reading a byte is Read, or one that is handled
\* and passed on at once, and nothing else is seen of them.
LEMMA AbstractRead ==
  ASSUME IInv, IInv', ~raced, PopUnfull
  PROVE  Abstract!Next
<1>1. /\ Contents # << >> /\ Head(Contents) = svc.byte
      /\ Contents' = Tail(Contents) /\ svc.step = "unfull"
      /\ svc'.step = "advance" /\ svc'.byte = svc.byte
      /\ UNCHANGED << hw, came, dfcs, delivered, dropped, raced, blockedUart,
                      request >>
  BY UnfullPops DEF PopUnfull
<1>2. next' = next /\ given' = given \cup {Head(Contents)}
  BY <1>1 DEF next, given, InHand
<1>3. Abstract!Read
  BY <1>1, <1>2 DEF Abstract!Read, next, given
<1> QED BY <1>1, <1>3 DEF Abstract!Next

LEMMA AbstractSpin ==
  ASSUME IInv, IInv', ~raced, ~raced', Spin
  PROVE  Abstract!Next
<1> DEFINE x == Head(hw)
<1>1. /\ hw # << >> /\ hw' = Tail(hw) /\ delivered' = delivered \cup {x}
      /\ UNCHANGED << came, dfcs, dropped >>
  BY DEF Spin
<1>2. /\ x = next /\ Len(hw) \in Nat \ {0} /\ Len(hw') = Len(hw) - 1
      /\ came \in Nat /\ raced' = raced
  BY <1>1, HeadIs DEF IInv, TypeOK, next
<1>3. Contents' = Contents /\ InHand = {} /\ InHand' = {}
  BY SpinStep
<1> HIDE DEF x
<1>4. next' = next + 1 /\ next \in Int
  BY <1>1, <1>2 DEF next
<1>5. given' = given \cup {next}
  BY <1>1, <1>2, <1>3 DEF given
<1> DEFINE behind == (next + 1)..(next' - 1)
<1>6. behind = {} /\ next' > next
  BY <1>4
<1> HIDE DEF behind
<1>7. dropped' = dropped \cup behind
  BY <1>1, <1>6
<1>l. looking /\ ~looking' /\ waiting' = waiting
  BY IdleIs DEF Spin, looking, waiting
<1>8. Abstract!Handle
  BY <1>3, <1>5, <1>6, <1>7, <1>l DEF Abstract!Handle, Abstract!Pass, behind,
                                next, given, looking, waiting
<1> QED BY <1>2, <1>8 DEF Abstract!Next

\* Where a reader finds the two indexes equal, no byte is kept.
LEMMA NoneKept ==
  ASSUME TypeOK, got = read, svc.step \in {"check", "getch"}
  PROVE  Contents = << >>
<1>1. Ahead = 0
  BY DEF Ahead
<1>2. got \in 0..(Size - 1) /\ Contents = Queue(ring, got, got, 0)
  <2>1. read \in 0..Size /\ read # Size
    BY DEF TypeOK
  <2>2. read \in 0..(Size - 1)
    BY <2>1, Constants
  <2> QED BY <1>1, <2>2, ContentsIs
<1> QED BY <1>2, EmptyQueue

\* Finding the ring empty is Look, and being entered is Enter.
LEMMA AbstractLook ==
  ASSUME IInv, IInv', ~raced, Check \/ Getch
  PROVE  Abstract!Next \/ UNCHANGED Abstract!vars
<1>1. /\ UNCHANGED << ringVars, hw, came, dfcs, delivered, dropped, raced,
                      blockedUart, request >>
      /\ svc.step \in {"check", "getch"}
      /\ \/ Goto("register", 0) /\ got = read
         \/ Goto("getch", 0)
         \/ Goto("spin", 0) /\ got = read
         \/ Goto("unfull", ring[read])
  BY DEF Check, Getch, ByteReady, RingEmpty
<1>2. \/ svc'.step \in {"register", "spin"} /\ got = read
      \/ svc'.step \in {"getch", "unfull"}
  BY <1>1, GotoSteps DEF IInv, SvcSteps
<1>3. /\ Contents' = Contents /\ given' = given /\ next' = next
      /\ waiting' = waiting /\ ~looking
  BY <1>1, <1>2, ContentsStay DEF given, next, InHand, waiting, looking
<1>4. CASE svc'.step \in {"register", "spin"} /\ got = read
  <2>1. Contents = << >>
    BY <1>1, <1>4, NoneKept DEF IInv
  <2>2. looking'
    BY <1>4 DEF looking
  <2>3. Abstract!Look
    BY <1>1, <1>3, <2>1, <2>2 DEF Abstract!Look, next, given, looking, waiting
  <2> QED BY <1>1, <2>3 DEF Abstract!Next
<1>5. CASE svc'.step \in {"getch", "unfull"}
  <2>1. ~looking'
    BY <1>5 DEF looking
  <2> QED BY <1>1, <1>3, <2>1 DEF Abstract!vars, next, given, looking, waiting
<1> QED BY <1>2, <1>4, <1>5

LEMMA AbstractEnter ==
  ASSUME IInv, IInv', ~raced, Register
  PROVE  Abstract!Next
<1>1. /\ svc.step = "register" /\ svc'.step = "idle"
      /\ UNCHANGED << ringVars, hw, came, dfcs, delivered, dropped, raced >>
  BY IdleIs DEF Register
<1>2. Contents' = Contents /\ given' = given /\ next' = next
  BY <1>1, ContentsStay DEF given, next, InHand
<1>3. looking /\ ~looking'
  BY <1>1 DEF looking
<1>4. waiting'
  <2>1. CASE svc.thread = Console
    BY <2>1 DEF Register, waiting
  <2>2. CASE svc.thread # Console
    <3>1. blockedUart' = svc.thread
      BY <2>2 DEF Register
    <3>2. svc.thread # None
      BY <1>1, Constants DEF IInv, SvcKnows, Threads
    <3> QED BY <3>1, <3>2 DEF waiting
  <2> QED BY <2>1, <2>2
<1>5. Abstract!Enter
  BY <1>1, <1>2, <1>3, <1>4 DEF Abstract!Enter, next, given, looking, waiting
<1> QED BY <1>1, <1>5 DEF Abstract!Next

\* The rest is not seen.
LEMMA AbstractStays ==
  ASSUME IInv, IInv', ~raced, ~raced',
         \/ Arrive \/ DfcRun \/ (\E t \in Threads : Call(t))
         \/ PopAdvance \/ PopWrap \/ UNCHANGED vars
  PROVE  UNCHANGED Abstract!vars
<1>1. SUFFICES /\ next' = next /\ Contents' = Contents /\ given' = given
               /\ dropped' = dropped /\ looking' = looking /\ waiting' = waiting
  <2>1. raced' = raced
    BY DEF IInv, TypeOK
  <2> QED BY <1>1, <2>1 DEF Abstract!vars, next, given, looking, waiting
<1>2. hw \in Seq(1..MaxBytes) /\ came \in Nat /\ dfcs \in Seq(1..MaxBytes)
  BY Constants DEF IInv, TypeOK
<1>3. CASE Arrive
  <2>1. /\ came' = came + 1 /\ hw' = Append(hw, came + 1) /\ came + 1 \in 1..MaxBytes
        /\ UNCHANGED << ringVars, dfcs, svc, delivered, dropped, blockedUart,
                        request >>
    BY <1>2, <1>3, Constants DEF Arrive
  <2> DEFINE x == came + 1
             S == 1..MaxBytes
  <2>2. hw \in Seq(S) /\ x \in S /\ hw' = Append(hw, x)
    BY <1>2, <2>1
  <2> HIDE DEF x, S
  <2>3. Len(hw') = Len(hw) + 1 /\ Len(hw) \in Nat
    BY <2>2
  <2>4. next' = next
    BY <1>2, <2>1, <2>3 DEF next
  <2> QED BY <2>1, <2>4, ContentsStay DEF given, InHand, looking, waiting
<1>4. CASE DfcRun
  <2>1. /\ dfcs # << >> /\ dfcs' = Tail(dfcs)
        /\ delivered' = delivered \cup {Head(dfcs)}
        /\ UNCHANGED << ringVars, hw, came, svc, dropped, blockedUart, request >>
    BY <1>4 DEF DfcRun
  <2>2. Bytes(dfcs) = Bytes(dfcs') \cup {Head(dfcs)}
    BY <1>2, <2>1, TailBytes
  <2> QED BY <2>1, <2>2, ContentsStay DEF given, next, InHand, looking, waiting
<1>5. CASE (\E t \in Threads : Call(t)) \/ UNCHANGED vars
  <2>1. UNCHANGED << ringVars, hw, came, dfcs, delivered, dropped, blockedUart,
                     request >>
    BY <1>5 DEF Call, vars
  <2>2. /\ InHand' = InHand /\ (svc'.step = "advance" <=> svc.step = "advance")
        /\ looking' = looking
    <3>1. CASE UNCHANGED vars
      BY <3>1 DEF vars, InHand, looking
    <3>2. CASE \E t \in Threads : Call(t)
      BY <3>2, IdleIs DEF Call, InHand, looking
    <3> QED BY <1>5, <3>1, <3>2
  <2> QED BY <2>1, <2>2, ContentsStay DEF given, next, waiting
<1>6. CASE PopAdvance
  <2>1. /\ UNCHANGED << hw, came, dfcs, delivered, dropped, blockedUart, request >>
        /\ svc.step = "advance" /\ Goto("wrap", svc.byte)
    BY <1>6 DEF PopAdvance
  <2>2. svc'.step = "wrap"
    BY <2>1, GotoSteps DEF IInv, SvcSteps
  <2> QED BY <1>6, <2>1, <2>2, PopAdvanceStep DEF given, next, looking, waiting
<1>7. CASE PopWrap
  <2>1. /\ UNCHANGED << hw, came, dfcs, dropped, blockedUart, request >>
        /\ delivered' = delivered \cup {svc.byte}
        /\ svc.step = "wrap" /\ svc'.step = "idle"
    BY <1>7, IdleIs DEF PopWrap
  <2>2. Contents' = Contents /\ InHand = {svc.byte} /\ InHand' = {}
    BY <1>7, PopWrapStep
  <2> QED BY <2>1, <2>2 DEF given, next, looking, waiting
<1> QED BY <1>3, <1>4, <1>5, <1>6, <1>7

LEMMA AbstractStep ==
  ASSUME IInv, IInv', [Next]_vars
  PROVE  [Abstract!Next]_(Abstract!vars)
<1>1. CASE raced \/ raced'
  <2>1. raced \/ raced' = TRUE
    BY <1>1 DEF IInv, TypeOK
  <2> QED BY <2>1 DEF Abstract!Next, Abstract!Race
<1>2. CASE ~raced /\ ~raced'
  <2>1. CASE Irq
    BY <1>2, <2>1, AbstractIrq
  <2>2. CASE PopUnfull
    BY <1>2, <2>2, AbstractRead
  <2>3. CASE Spin
    BY <1>2, <2>3, AbstractSpin
  <2>4. CASE Check \/ Getch
    BY <1>2, <2>4, AbstractLook
  <2>5. CASE Register
    BY <1>2, <2>5, AbstractEnter
  <2>6. CASE \/ Arrive \/ DfcRun \/ (\E t \in Threads : Call(t))
             \/ PopAdvance \/ PopWrap \/ UNCHANGED vars
    BY <1>2, <2>6, AbstractStays
  <2> QED BY <2>1, <2>2, <2>3, <2>4, <2>5, <2>6 DEF Next, SvcStep
<1> QED BY <1>1, <1>2

\* The ring, the handler, the DFCs and the SVCs do what UartSpec says, step by
\* step: bytes are kept and read in the order they come, dropped only when as
\* many are kept as there is room for, and handed past those that are kept only
\* to a reader that had found none (uart_got_char, KExecGetch, ring_pop).
THEOREM Implements == Spec => AbstractSpec
<1>1. Init => Abstract!Init
  BY AbstractInit
<1>2. IInv /\ IInv' /\ [Next]_vars => [Abstract!Next]_(Abstract!vars)
  BY AbstractStep
<1> QED BY <1>1, <1>2, Inductive, PTL DEF Spec, AbstractSpec, Abstract!Spec
=============================================================================
