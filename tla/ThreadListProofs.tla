-------------------------- MODULE ThreadListProofs --------------------------
(***************************************************************************)
(* What the operators of module ReadyList do to a sequence, and what the   *)
(* pointers of module ThreadList have to do with it: each call of          *)
(* thread_dequeue, thread_setState and thread_yield does to the pointers   *)
(* what the operator of that name does to the sequence, as long as no      *)
(* interrupt comes in between.                                             *)
(***************************************************************************)
EXTENDS ThreadList, SequenceTheorems, TLAPS

-----------------------------------------------------------------------------
(* What the list operators of ReadyList do to a list without repetitions:  *)
(* which threads it holds afterwards, and that none is repeated.           *)

\* RemoveAt closes the gap at i (the two pointer writes of thread_dequeue).
LEMMA RemoveAtIs ==
  ASSUME NEW S, NEW q \in Seq(S), NEW i \in 1..Len(q)
  PROVE  /\ RemoveAt(q, i) \in Seq(S)
         /\ Len(RemoveAt(q, i)) = Len(q) - 1
         /\ \A j \in 1..(Len(q) - 1) :
              RemoveAt(q, i)[j] = IF j < i THEN q[j] ELSE q[j + 1]
<1> DEFINE a == SubSeq(q, 1, i - 1)
           b == SubSeq(q, i + 1, Len(q))
<1>1. /\ a \in Seq(S) /\ Len(a) = i - 1
      /\ \A j \in 1..(i - 1) : a[j] = q[j]
  OBVIOUS
<1>2. /\ b \in Seq(S) /\ Len(b) = Len(q) - i
      /\ \A j \in 1..(Len(q) - i) : b[j] = q[i + j]
  OBVIOUS
<1>3. RemoveAt(q, i) = a \o b
  BY DEF RemoveAt
<1> HIDE DEF a, b
<1>4. /\ a \o b \in Seq(S) /\ Len(a \o b) = Len(q) - 1
  <2>1. a \in Seq(S) /\ b \in Seq(S)
    BY <1>1, <1>2
  <2>3. a \o b \in Seq(S) /\ Len(a \o b) = Len(a) + Len(b)
    BY <2>1, ConcatProperties
  <2>2. Len(a) + Len(b) = Len(q) - 1
    BY <1>1, <1>2
  <2> QED BY <2>3, <2>2
<1>5. ASSUME NEW j \in 1..(Len(q) - 1)
      PROVE  (a \o b)[j] = IF j < i THEN q[j] ELSE q[j + 1]
  <2>1. CASE j < i
    BY <2>1, <1>1, <1>2
  <2>2. CASE ~(j < i)
    <3>1. /\ (a \o b)[j] = b[j - Len(a)]
          /\ j - Len(a) = j - i + 1 /\ j - i + 1 \in 1..(Len(q) - i)
      BY <2>2, <1>1, <1>2
    <3>2. b[j - i + 1] = q[i + (j - i + 1)] /\ i + (j - i + 1) = j + 1
      BY <3>1, <1>2
    <3> QED BY <3>1, <3>2, <2>2
  <2> QED BY <2>1, <2>2
<1> QED
  BY <1>3, <1>4, <1>5

\* InsertAt opens a gap at i for e (the four writes of thread_enqueueBefore).
LEMMA InsertAtIs ==
  ASSUME NEW S, NEW q \in Seq(S), NEW i \in 1..Len(q), NEW e \in S
  PROVE  /\ InsertAt(q, i, e) \in Seq(S)
         /\ Len(InsertAt(q, i, e)) = Len(q) + 1
         /\ \A j \in 1..(Len(q) + 1) :
              InsertAt(q, i, e)[j] =
                IF j < i THEN q[j] ELSE IF j = i THEN e ELSE q[j - 1]
<1> DEFINE a == SubSeq(q, 1, i - 1)
           b == SubSeq(q, i, Len(q))
           m == << e >>
           c == a \o m
<1>1. /\ a \in Seq(S) /\ Len(a) = i - 1
      /\ \A j \in 1..(i - 1) : a[j] = q[j]
  OBVIOUS
<1>2. /\ b \in Seq(S) /\ Len(b) = Len(q) - i + 1
      /\ \A j \in 1..(Len(q) - i + 1) : b[j] = q[i + j - 1]
  OBVIOUS
<1>3. m \in Seq(S) /\ Len(m) = 1 /\ m[1] = e
  OBVIOUS
<1>4. InsertAt(q, i, e) = c \o b
  BY DEF InsertAt
<1> HIDE DEF a, b, m
<1>5. /\ c \in Seq(S) /\ Len(c) = i
      /\ \A j \in 1..i : c[j] = IF j < i THEN q[j] ELSE e
  <2>1. /\ c \in Seq(S) /\ Len(c) = Len(a) + Len(m)
        /\ \A j \in 1..(Len(a) + Len(m)) :
             c[j] = IF j <= Len(a) THEN a[j] ELSE m[j - Len(a)]
    BY <1>1, <1>3, ConcatProperties
  <2>2. Len(c) = i
    BY <2>1, <1>1, <1>3
  <2>3. ASSUME NEW j \in 1..i, j < i PROVE c[j] = q[j]
    BY <2>3, <2>1, <1>1, <1>3
  <2>4. c[i] = e
    BY <2>1, <1>1, <1>3
  <2> QED BY <2>1, <2>2, <2>3, <2>4
<1> HIDE DEF c
<1>6. /\ c \o b \in Seq(S) /\ Len(c \o b) = Len(c) + Len(b)
      /\ \A j \in 1..(Len(c) + Len(b)) :
           (c \o b)[j] = IF j <= Len(c) THEN c[j] ELSE b[j - Len(c)]
  BY <1>2, <1>5, ConcatProperties
<1>7. Len(c) = i /\ Len(c) + Len(b) = Len(q) + 1
  BY <1>2, <1>5
<1> DEFINE d == c \o b
<1>8. /\ d \in Seq(S) /\ Len(d) = Len(q) + 1
      /\ \A j \in 1..(Len(q) + 1) :
           d[j] = IF j <= i THEN c[j] ELSE b[j - i]
  BY <1>6, <1>7
<1> HIDE DEF d
<1>9. ASSUME NEW j \in 1..(Len(q) + 1)
      PROVE  d[j] = IF j < i THEN q[j] ELSE IF j = i THEN e ELSE q[j - 1]
  <2>1. CASE j <= i
    <3>1. j \in 1..i /\ d[j] = c[j]
      BY <2>1, <1>8
    <3> QED BY <3>1, <2>1, <1>5
  <2>2. CASE j > i
    <3>1. j - i \in 1..(Len(q) - i + 1) /\ d[j] = b[j - i]
      BY <2>2, <1>8
    <3>2. b[j - i] = q[i + (j - i) - 1] /\ i + (j - i) - 1 = j - 1
      BY <3>1, <1>2
    <3> QED BY <3>1, <3>2, <2>2
  <2> QED BY <2>1, <2>2
<1> QED
  BY <1>4, <1>8, <1>9 DEF d

\* Position finds an element that is there.
LEMMA PositionIs ==
  ASSUME NEW S, NEW q \in Seq(S), NEW x, Contains(q, x)
  PROVE  Position(q, x) \in 1..Len(q) /\ q[Position(q, x)] = x
BY DEF Position, Contains

\* Making a thread the head adds it, and only it.
LEMMA PushHeadIs ==
  ASSUME NEW S, NEW q \in Seq(S), NEW x \in S, Distinct(q), ~Contains(q, x)
  PROVE  /\ PushHead(q, x) \in Seq(S)
         /\ Distinct(PushHead(q, x))
         /\ \A u : Contains(PushHead(q, x), u) <=> u = x \/ Contains(q, u)
<1> DEFINE p == PushHead(q, x)
<1>1. /\ p \in Seq(S) /\ Len(p) = Len(q) + 1 /\ p[1] = x
      /\ \A j \in 1..Len(q) : p[j + 1] = q[j]
  BY DEF PushHead, Cons
<1>2. \A j \in 1..Len(p) : j = 1 \/ (j - 1 \in 1..Len(q) /\ p[j] = q[j - 1])
  BY <1>1
<1> HIDE DEF p
<1>3. Distinct(p)
  <2> SUFFICES ASSUME NEW j \in 1..Len(p), NEW k \in 1..Len(p), p[j] = p[k]
               PROVE  j = k
    BY DEF Distinct
  <2>1. CASE j = 1 \/ k = 1
    BY <2>1, <1>1, <1>2 DEF Contains
  <2>2. CASE j # 1 /\ k # 1
    <3>1. j - 1 \in 1..Len(q) /\ k - 1 \in 1..Len(q) /\ q[j - 1] = q[k - 1]
      BY <2>2, <1>2
    <3> QED BY <3>1 DEF Distinct
  <2> QED BY <2>1, <2>2
<1>4. ASSUME NEW u PROVE Contains(p, u) <=> u = x \/ Contains(q, u)
  <2>1. ASSUME Contains(p, u) PROVE u = x \/ Contains(q, u)
    BY <2>1, <1>1, <1>2 DEF Contains
  <2>2. ASSUME u = x PROVE Contains(p, u)
    BY <2>2, <1>1 DEF Contains
  <2>3. ASSUME Contains(q, u) PROVE Contains(p, u)
    <3>1. PICK j \in 1..Len(q) : q[j] = u
      BY <2>3 DEF Contains
    <3>2. j + 1 \in 1..Len(p) /\ p[j + 1] = u
      BY <3>1, <1>1
    <3> QED BY <3>2 DEF Contains
  <2> QED BY <2>1, <2>2, <2>3
<1> QED BY <1>1, <1>3, <1>4 DEF p

\* Dequeuing a thread of the list removes it, and only it.
LEMMA DequeueIs ==
  ASSUME NEW S, NEW q \in Seq(S), NEW x, Distinct(q), Contains(q, x)
  PROVE  /\ Dequeue(q, x) \in Seq(S)
         /\ Distinct(Dequeue(q, x))
         /\ \A u : Contains(Dequeue(q, x), u) <=> u # x /\ Contains(q, u)
<1> DEFINE i == Position(q, x)
           d == Dequeue(q, x)
<1>1. i \in 1..Len(q) /\ q[i] = x
  BY PositionIs
<1>2. /\ d \in Seq(S) /\ Len(d) = Len(q) - 1
      /\ \A j \in 1..(Len(q) - 1) : d[j] = IF j < i THEN q[j] ELSE q[j + 1]
  <2> HIDE DEF i
  <2> QED BY <1>1, RemoveAtIs DEF Dequeue, i
<1> HIDE DEF i, d
<1>3. Distinct(d)
  <2> SUFFICES ASSUME NEW j \in 1..Len(d), NEW k \in 1..Len(d), d[j] = d[k]
               PROVE  j = k
    BY DEF Distinct
  <2> DEFINE f(n) == IF n < i THEN n ELSE n + 1
  <2>1. /\ f(j) \in 1..Len(q) /\ d[j] = q[f(j)]
        /\ f(k) \in 1..Len(q) /\ d[k] = q[f(k)]
    <3>1. j \in 1..(Len(q) - 1) /\ k \in 1..(Len(q) - 1)
      BY <1>2
    <3> QED BY <3>1, <1>1, <1>2
  <2>2. f(j) = f(k)
    <3> HIDE DEF f
    <3> QED BY <2>1 DEF Distinct
  <2> QED BY <2>2, <1>1, <1>2
<1>4. ASSUME NEW u PROVE Contains(d, u) <=> u # x /\ Contains(q, u)
  <2>1. ASSUME Contains(d, u) PROVE u # x /\ Contains(q, u)
    <3>1. PICK j \in 1..Len(d) : d[j] = u
      BY <2>1 DEF Contains
    <3>2. CASE j < i
      <4>1. j \in 1..Len(q) /\ q[j] = u /\ j # i
        BY <3>1, <3>2, <1>1, <1>2
      <4> QED BY <4>1, <1>1 DEF Distinct, Contains
    <3>3. CASE ~(j < i)
      <4>1. j + 1 \in 1..Len(q) /\ q[j + 1] = u /\ j + 1 # i
        BY <3>1, <3>3, <1>1, <1>2
      <4> QED BY <4>1, <1>1 DEF Distinct, Contains
    <3> QED BY <3>2, <3>3
  <2>2. ASSUME u # x, Contains(q, u) PROVE Contains(d, u)
    <3>1. PICK j \in 1..Len(q) : q[j] = u
      BY <2>2 DEF Contains
    <3>2. CASE j < i
      <4>1. j \in 1..Len(d) /\ d[j] = u
        BY <3>1, <3>2, <1>1, <1>2
      <4> QED BY <4>1 DEF Contains
    <3>3. CASE ~(j < i)
      <4>1. j # i
        BY <3>1, <2>2, <1>1
      <4>2. j - 1 \in 1..Len(d) /\ d[j - 1] = u
        BY <4>1, <3>1, <3>3, <1>1, <1>2
      <4> QED BY <4>2 DEF Contains
    <3> QED BY <3>2, <3>3
  <2> QED BY <2>1, <2>2
<1> QED BY <1>2, <1>3, <1>4 DEF d

\* Linking a thread in at any place of a list adds it, and only it.
LEMMA InsertIs ==
  ASSUME NEW S, NEW q \in Seq(S), NEW x \in S, NEW i \in 1..Len(q),
         Distinct(q), ~Contains(q, x)
  PROVE  /\ InsertAt(q, i, x) \in Seq(S)
         /\ Distinct(InsertAt(q, i, x))
         /\ \A u : Contains(InsertAt(q, i, x), u) <=> u = x \/ Contains(q, u)
<1> DEFINE d == InsertAt(q, i, x)
<1>1. /\ d \in Seq(S) /\ Len(d) = Len(q) + 1
      /\ \A j \in 1..(Len(q) + 1) :
           d[j] = IF j < i THEN q[j] ELSE IF j = i THEN x ELSE q[j - 1]
  <2>1. \A n \in 1..Len(q) :
          /\ InsertAt(q, n, x) \in Seq(S)
          /\ Len(InsertAt(q, n, x)) = Len(q) + 1
          /\ \A j \in 1..(Len(q) + 1) :
               InsertAt(q, n, x)[j] =
                 IF j < n THEN q[j] ELSE IF j = n THEN x ELSE q[j - 1]
    BY InsertAtIs
  <2> QED BY <2>1
<1> HIDE DEF d
<1>2. \A j \in 1..Len(q) : q[j] # x
  BY DEF Contains
<1>3. Distinct(d)
  <2> SUFFICES ASSUME NEW j \in 1..Len(d), NEW k \in 1..Len(d), d[j] = d[k]
               PROVE  j = k
    BY DEF Distinct
  <2> DEFINE f(n) == IF n < i THEN n ELSE n - 1
  <2>3. /\ d[i] = x
        /\ \A n \in 1..Len(d) : n # i => f(n) \in 1..Len(q) /\ d[n] = q[f(n)]
    <3>1. d[i] = x
      BY <1>1
    <3>2. ASSUME NEW n \in 1..Len(d), n # i
          PROVE  f(n) \in 1..Len(q) /\ d[n] = q[f(n)]
      <4>1. n \in 1..(Len(q) + 1)
        BY <1>1
      <4> QED BY <4>1, <3>2, <1>1
    <3> QED BY <3>1, <3>2
  <2>1. CASE j = i \/ k = i
    <3> HIDE DEF f
    <3> QED BY <2>1, <2>3, <1>2
  <2>2. CASE j # i /\ k # i
    <3>1. /\ f(j) \in 1..Len(q) /\ d[j] = q[f(j)]
          /\ f(k) \in 1..Len(q) /\ d[k] = q[f(k)]
      <4> HIDE DEF f
      <4> QED BY <2>2, <2>3
    <3>2. f(j) = f(k)
      <4> HIDE DEF f
      <4> QED BY <3>1 DEF Distinct
    <3> QED BY <3>2, <2>2, <1>1
  <2> QED BY <2>1, <2>2
<1>4. ASSUME NEW u PROVE Contains(d, u) <=> u = x \/ Contains(q, u)
  <2>1. ASSUME Contains(d, u), u # x PROVE Contains(q, u)
    <3>1. PICK j \in 1..Len(d) : d[j] = u
      BY <2>1 DEF Contains
    <3>2. CASE j < i
      <4>1. j \in 1..Len(q) /\ q[j] = u
        BY <3>1, <3>2, <1>1
      <4> QED BY <4>1 DEF Contains
    <3>3. CASE j > i
      <4>1. j - 1 \in 1..Len(q) /\ q[j - 1] = u
        BY <3>1, <3>3, <1>1
      <4> QED BY <4>1 DEF Contains
    <3>4. j # i
      BY <3>1, <2>1, <1>1
    <3> QED BY <3>2, <3>3, <3>4
  <2>2. Contains(d, x)
    BY <1>1 DEF Contains
  <2>3. ASSUME Contains(q, u) PROVE Contains(d, u)
    <3>1. PICK j \in 1..Len(q) : q[j] = u
      BY <2>3 DEF Contains
    <3>2. CASE j < i
      <4>1. j \in 1..Len(d) /\ d[j] = u
        BY <3>1, <3>2, <1>1
      <4> QED BY <4>1 DEF Contains
    <3>3. CASE ~(j < i)
      <4>1. j + 1 \in 1..Len(d) /\ d[j + 1] = u
        BY <3>1, <3>3, <1>1
      <4> QED BY <4>1 DEF Contains
    <3> QED BY <3>2, <3>3
  <2> QED BY <2>1, <2>2, <2>3
<1> QED BY <1>1, <1>3, <1>4 DEF d

\* Appending likewise.
LEMMA AppendIs ==
  ASSUME NEW S, NEW q \in Seq(S), NEW x \in S, Distinct(q), ~Contains(q, x)
  PROVE  /\ Append(q, x) \in Seq(S)
         /\ Distinct(Append(q, x))
         /\ \A u : Contains(Append(q, x), u) <=> u = x \/ Contains(q, u)
<1> DEFINE d == Append(q, x)
<1>1. /\ d \in Seq(S) /\ Len(d) = Len(q) + 1 /\ d[Len(q) + 1] = x
      /\ \A j \in 1..Len(q) : d[j] = q[j]
  OBVIOUS
<1> HIDE DEF d
<1>2. Distinct(d)
  BY <1>1 DEF Distinct, Contains
<1>3. ASSUME NEW u PROVE Contains(d, u) <=> u = x \/ Contains(q, u)
  BY <1>1 DEF Contains
<1> QED BY <1>1, <1>2, <1>3 DEF d

\* Yielding a thread keeps the list's threads: it is moved, not lost or
\* repeated, wherever it is put.
LEMMA YieldInListIs ==
  ASSUME NEW S, NEW q \in Seq(S), NEW x \in S, Distinct(q), Contains(q, x)
  PROVE  /\ YieldInList(q, x) \in Seq(S)
         /\ Distinct(YieldInList(q, x))
         /\ \A u : Contains(YieldInList(q, x), u) <=> Contains(q, u)
<1> DEFINE rest == Dequeue(q, x)
<1>1. /\ rest \in Seq(S) /\ Distinct(rest) /\ ~Contains(rest, x)
      /\ \A u : Contains(rest, u) <=> u # x /\ Contains(q, u)
  BY DequeueIs
<1> HIDE DEF rest
<1>2. CASE rest = << >>
  <2>1. YieldInList(q, x) = << x >>
    BY <1>2 DEF YieldInList, rest
  <2>2. << x >> \in Seq(S) /\ Distinct(<< x >>)
    BY DEF Distinct
  <2>3. \A u : Contains(<< x >>, u) <=> u = x
    BY DEF Contains
  <2>4. \A u : ~Contains(rest, u)
    BY <1>2 DEF Contains
  <2> QED BY <1>1, <2>1, <2>2, <2>3, <2>4
<1>3. CASE rest # << >> /\ Last(rest) = Head(rest)
  <2>1. YieldInList(q, x) = Append(rest, x)
    BY <1>3 DEF YieldInList, EnqueueBefore, rest
  <2> QED BY <1>1, <2>1, AppendIs
<1>4. CASE rest # << >> /\ Last(rest) # Head(rest)
  <2>1. YieldInList(q, x) = InsertAt(rest, Position(rest, Last(rest)), x)
    BY <1>4 DEF YieldInList, EnqueueBefore, rest
  <2>2. Contains(rest, Last(rest))
    BY <1>1, <1>4 DEF Contains, Last
  <2>3. Position(rest, Last(rest)) \in 1..Len(rest)
    BY <1>1, <2>2, PositionIs
  <2> QED BY <1>1, <2>1, <2>3, InsertIs
<1> QED BY <1>2, <1>3, <1>4

-----------------------------------------------------------------------------
(* The pointers                                                            *)

Lists == [next : [AllThreads -> Pointers], prev : [AllThreads -> Pointers],
          head : Pointers]

\* What Represents says, with the places in q.
LEMMA RingFacts ==
  ASSUME NEW l, NEW q \in Seq(AllThreads), Represents(l, q)
  PROVE  /\ \A i, j \in 1..Len(q) : q[i] = q[j] => i = j
         /\ \A i, j \in 1..Len(q) :
              Follows(i, j, Len(q)) =>
                l.next[q[i]] = q[j] /\ l.prev[q[j]] = q[i]
         /\ \A i \in 1..Len(q) : q[i] \in AllThreads
         /\ \A x \in AllThreads :
              (\A i \in 1..Len(q) : q[i] # x) =>
                l.next[x] = NULL /\ l.prev[x] = NULL
         /\ q = << >> => l.head = NULL
         /\ q # << >> => l.head = q[1]
BY DEF Represents, Distinct, ToSet

LEMMA RingFrom ==
  ASSUME NEW l, NEW q \in Seq(AllThreads),
         \A i, j \in 1..Len(q) : q[i] = q[j] => i = j,
         \A i, j \in 1..Len(q) :
           Follows(i, j, Len(q)) =>
             l.next[q[i]] = q[j] /\ l.prev[q[j]] = q[i],
         \A x \in AllThreads :
           (\A i \in 1..Len(q) : q[i] # x) =>
             l.next[x] = NULL /\ l.prev[x] = NULL,
         q = << >> => l.head = NULL,
         q # << >> => l.head = q[1]
  PROVE  Represents(l, q)
BY DEF Represents, Distinct, ToSet

\* What each statement stores where.
LEMMA SkipNextIs ==
  ASSUME NEW l \in Lists, NEW x \in AllThreads, l.prev[x] # NULL
  PROVE  /\ SkipNext(l, x) \in Lists
         /\ SkipNext(l, x).next = [l.next EXCEPT ![l.prev[x]] = l.next[x]]
         /\ SkipNext(l, x).prev = l.prev
         /\ SkipNext(l, x).head = l.head
BY DEF SkipNext, Lists, Pointers

LEMMA SkipPrevIs ==
  ASSUME NEW l \in Lists, NEW x \in AllThreads, l.next[x] # NULL
  PROVE  /\ SkipPrev(l, x) \in Lists
         /\ SkipPrev(l, x).next = l.next
         /\ SkipPrev(l, x).prev = [l.prev EXCEPT ![l.next[x]] = l.prev[x]]
         /\ SkipPrev(l, x).head = l.head
BY DEF SkipPrev, Lists, Pointers

LEMMA MoveHeadIs ==
  ASSUME NEW l \in Lists, NEW x \in AllThreads
  PROVE  /\ MoveHead(l, x) \in Lists
         /\ MoveHead(l, x).next = l.next
         /\ MoveHead(l, x).prev = l.prev
         /\ MoveHead(l, x).head =
              IF l.head # x THEN l.head
              ELSE IF l.next[x] = x THEN NULL ELSE l.next[x]
<1>1. l.next[x] \in Pointers /\ NULL \in Pointers
  BY DEF Lists, Pointers
<1>2. CASE l.head # x
  BY <1>2 DEF MoveHead
<1>3. CASE l.head = x
  <2> DEFINE h == IF x = l.next[x] THEN NULL ELSE l.next[x]
  <2>1. MoveHead(l, x) = [l EXCEPT !.head = h] /\ h \in Pointers
    BY <1>1, <1>3 DEF MoveHead
  <2> QED BY <2>1, <1>3 DEF Lists
<1> QED BY <1>2, <1>3

LEMMA ClearIs ==
  ASSUME NEW l \in Lists, NEW x \in AllThreads
  PROVE  /\ Clear(l, x) \in Lists
         /\ Clear(l, x).next = [l.next EXCEPT ![x] = NULL]
         /\ Clear(l, x).prev = [l.prev EXCEPT ![x] = NULL]
         /\ Clear(l, x).head = l.head
BY DEF Clear, Lists, Pointers

\* thread_dequeue on the pointers is Dequeue on the sequence, and meets no null
\* pointer.
LEMMA DequeuedIs ==
  ASSUME PointersDiffer, NEW l \in Lists, NEW q \in Seq(AllThreads),
         NEW x \in AllThreads, Represents(l, q), Contains(q, x)
  PROVE  /\ Represents(Dequeued(l, x), Dequeue(q, x))
         /\ Dequeued(l, x) \in Lists
         /\ l.prev[x] # NULL /\ l.next[x] # NULL
         /\ SkipNext(l, x).next[x] # NULL
<1> DEFINE n == Len(q)
           i == Position(q, x)
           d == Dequeue(q, x)
           h == IF i = 1 THEN n ELSE i - 1     \* the place in front of x
           k == IF i = n THEN 1 ELSE i + 1     \* the place behind x
           p == q[h]
           s == q[k]
           m == Dequeued(l, x)
<1>1. i \in 1..n /\ q[i] = x
  BY PositionIs
<1>2. /\ d \in Seq(AllThreads) /\ Len(d) = n - 1
      /\ \A j \in 1..(n - 1) : d[j] = IF j < i THEN q[j] ELSE q[j + 1]
  <2> HIDE DEF i
  <2> QED BY <1>1, RemoveAtIs DEF Dequeue, i
<1>3. n \in Nat
  OBVIOUS
<1> HIDE DEF i, d, n
<1>4. h \in 1..n /\ k \in 1..n /\ Follows(h, i, n) /\ Follows(i, k, n)
  BY <1>1, <1>3 DEF Follows
<1>5. l.prev[x] = p /\ l.next[x] = s /\ p \in AllThreads /\ s \in AllThreads
  BY <1>1, <1>4, RingFacts DEF n
<1>6. NULL \notin AllThreads
  BY DEF PointersDiffer
<1>7. l.prev[x] # NULL /\ l.next[x] # NULL /\ SkipNext(l, x).next[x] # NULL
  <2> HIDE DEF p, s
  <2>1. l.prev[x] # NULL /\ l.next[x] # NULL
    BY <1>5, <1>6
  <2>2. SkipNext(l, x).next = [l.next EXCEPT ![p] = s]
    BY <2>1, <1>5, SkipNextIs
  <2>3. SkipNext(l, x).next[x] = s
    BY <2>2, <1>5 DEF Lists
  <2> QED BY <2>1, <2>3, <1>5, <1>6
<1>0. /\ m \in Lists
      /\ m.next = [[l.next EXCEPT ![p] = s] EXCEPT ![x] = NULL]
      /\ m.prev = [[l.prev EXCEPT ![IF p = x THEN s ELSE l.next[x]] = p]
                      EXCEPT ![x] = NULL]
      /\ m.head = IF l.head # x THEN l.head
                  ELSE IF s = x THEN NULL ELSE s
  <2> HIDE DEF p, s, m
  <2> DEFINE a == SkipNext(l, x)
             b == SkipPrev(a, x)
             c == MoveHead(b, x)
  <2>1. /\ a \in Lists /\ a.next = [l.next EXCEPT ![p] = s]
        /\ a.prev = l.prev /\ a.head = l.head /\ a.next[x] # NULL
    BY <1>5, <1>7, SkipNextIs
  <2>2. a.next[x] = s
    BY <2>1, <1>5 DEF Lists
  <2> HIDE DEF a
  <2>3. /\ b \in Lists /\ b.next = a.next /\ b.head = a.head
        /\ b.prev = [a.prev EXCEPT ![a.next[x]] = a.prev[x]]
    BY <2>1, SkipPrevIs
  <2> HIDE DEF b
  <2>4. /\ c \in Lists /\ c.next = b.next /\ c.prev = b.prev
        /\ c.head = IF b.head # x THEN b.head
                    ELSE IF b.next[x] = x THEN NULL ELSE b.next[x]
    BY <2>3, MoveHeadIs
  <2> HIDE DEF c
  <2>5. /\ Clear(c, x) \in Lists
        /\ Clear(c, x).next = [c.next EXCEPT ![x] = NULL]
        /\ Clear(c, x).prev = [c.prev EXCEPT ![x] = NULL]
        /\ Clear(c, x).head = c.head
    BY <2>4, ClearIs
  <2>6. m = Clear(c, x)
    BY DEF m, Dequeued, a, b, c
  <2> QED BY <2>1, <2>2, <2>3, <2>4, <2>5, <2>6, <1>5
<1>8. CASE n = 1
  <2>1. p = x /\ s = x /\ l.head = x
    BY <1>1, <1>4, <1>8, RingFacts DEF n
  <2>4. d = << >>
    BY <1>2, <1>8
  <2>5. \A y \in AllThreads : m.next[y] = NULL /\ m.prev[y] = NULL
    <3>1. \A y \in AllThreads \ {x} : l.next[y] = NULL /\ l.prev[y] = NULL
      BY <1>1, <1>8, RingFacts DEF n
    <3> QED BY <3>1, <2>1, <1>0, <1>5 DEF Lists
  <2>6. m.head = NULL
    BY <2>1, <1>0
  <2>7. Represents(m, d)
    BY <2>4, <2>5, <2>6 DEF Represents, Distinct, ToSet
  <2> QED BY <1>0, <2>7, <1>7 DEF d, n
<1>9. CASE n # 1
  <2>1. p # x /\ s # x
    <3>1. h # i /\ k # i
      BY <1>1, <1>3, <1>9
    <3> HIDE DEF h, k
    <3> QED BY <3>1, <1>1, <1>4, RingFacts DEF n
  <2> HIDE DEF m, p, s, h, k
  <2>2. /\ m.next = [l.next EXCEPT ![p] = s, ![x] = NULL]
        /\ m.prev = [l.prev EXCEPT ![s] = p, ![x] = NULL]
        /\ m.head = IF l.head = x THEN s ELSE l.head
    BY <2>1, <1>0, <1>5
  <2> DEFINE f(j) == IF j < i THEN j ELSE j + 1
  <2>4. \A j \in 1..(n - 1) : f(j) \in 1..n /\ f(j) # i /\ d[j] = q[f(j)]
    BY <1>1, <1>2, <1>3
  <2>5. \A a, b \in 1..(n - 1) : d[a] = d[b] => a = b
    <3> SUFFICES ASSUME NEW a \in 1..(n - 1), NEW b \in 1..(n - 1),
                        d[a] = d[b]
                 PROVE  a = b
      OBVIOUS
    <3>a. d[a] = d[b]
      OBVIOUS
    <3>1. f(a) = f(b)
      <4>1. /\ f(a) \in 1..n /\ d[a] = q[f(a)]
            /\ f(b) \in 1..n /\ d[b] = q[f(b)]
        BY <2>4
      <4>2. \A u, v \in 1..n : q[u] = q[v] => u = v
        BY RingFacts DEF n
      <4> HIDE DEF f
      <4> QED BY <4>1, <4>2, <3>a
    <3> QED BY <3>1, <1>1, <1>3
  <2>6. ASSUME NEW a \in 1..(n - 1), NEW b \in 1..(n - 1),
               Follows(a, b, n - 1)
        PROVE  m.next[d[a]] = d[b] /\ m.prev[d[b]] = d[a]
    <3>1. /\ f(a) \in 1..n /\ f(a) # i /\ d[a] = q[f(a)]
          /\ f(b) \in 1..n /\ f(b) # i /\ d[b] = q[f(b)]
      BY <2>4
    <3>2. d[a] # x /\ d[b] # x /\ d[a] \in AllThreads /\ d[b] \in AllThreads
      <4> HIDE DEF f
      <4> QED BY <3>1, <1>1, RingFacts DEF n
    <3>3. CASE f(a) = h
      <4>1. f(b) = k
        BY <3>3, <2>6, <1>1, <1>3, <1>9 DEF h, k, Follows
      <4>2. d[a] = p /\ d[b] = s
        BY <4>1, <3>1, <3>3 DEF p, s
      <4> QED BY <4>2, <2>1, <2>2, <1>5 DEF Lists
    <3>4. CASE f(a) # h
      <4>1. Follows(f(a), f(b), n) /\ f(b) # k
        BY <3>4, <2>6, <1>1, <1>3, <1>9 DEF h, k, Follows
      <4>2. l.next[d[a]] = d[b] /\ l.prev[d[b]] = d[a] /\ d[a] # p /\ d[b] # s
        <5> HIDE DEF f
        <5> QED BY <4>1, <3>1, <3>4, <1>4, RingFacts DEF n, p, s
      <4> QED BY <4>2, <3>2, <2>2 DEF Lists
    <3> QED BY <3>3, <3>4
  <2>7. ASSUME NEW y \in AllThreads, \A j \in 1..(n - 1) : d[j] # y
        PROVE  m.next[y] = NULL /\ m.prev[y] = NULL
    <3>1. CASE y = x
      BY <3>1, <2>2 DEF Lists
    <3>2. CASE y # x
      <4>1. ASSUME NEW j \in 1..n PROVE q[j] # y
        <5>1. CASE j = i
          BY <5>1, <1>1, <3>2
        <5>2. CASE j < i
          BY <5>2, <2>7, <1>1, <1>2, <1>3
        <5>3. CASE j > i
          <6>1. j - 1 \in 1..(n - 1) /\ ~(j - 1 < i) /\ (j - 1) + 1 = j
            BY <5>3, <1>1, <1>3
          <6>2. d[j - 1] = q[(j - 1) + 1]
            BY <6>1, <1>2
          <6> QED BY <6>1, <6>2, <2>7
        <5> QED BY <5>1, <5>2, <5>3, <1>1, <1>3
      <4>2. l.next[y] = NULL /\ l.prev[y] = NULL
        BY <4>1, RingFacts DEF n
      <4>3. y # p /\ y # s
        BY <4>1, <1>4 DEF p, s
      <4> QED BY <4>2, <4>3, <3>2, <2>2 DEF Lists
    <3> QED BY <3>1, <3>2
  <2>8. d # << >> /\ m.head = d[1]
    <3>1. 1 \in 1..(n - 1) /\ d # << >>
      BY <1>1, <1>2, <1>3, <1>9
    <3>2. l.head = q[1] /\ 1 \in 1..n
      BY <1>1, <1>3, RingFacts DEF n
    <3>3. CASE i = 1
      <4>1. m.head = s /\ s = q[2] /\ d[1] = q[2]
        BY <3>1, <3>2, <3>3, <2>2, <1>1, <1>2, <1>9 DEF s, k
      <4> QED BY <4>1, <3>1
    <3>4. CASE i # 1
      <4>1. l.head # x
        BY <3>2, <3>4, <1>1, RingFacts DEF n
      <4>2. d[1] = q[1]
        BY <3>1, <3>4, <1>1, <1>2, <1>3
      <4> QED BY <4>1, <4>2, <3>1, <3>2, <2>2
    <3> QED BY <3>3, <3>4
  <2>9. Represents(m, d)
    BY <2>5, <2>6, <2>7, <2>8, <1>2, RingFrom
  <2> QED BY <1>0, <2>9, <1>7 DEF m, d
<1> QED BY <1>8, <1>9

\* The pointers m are the pointers l with x put between the threads y and b.
PutBetween(m, l, y, x, b) ==
  /\ m.next = [[l.next EXCEPT ![x] = b] EXCEPT ![y] = x]
  /\ m.prev = [[l.prev EXCEPT ![x] = y] EXCEPT ![b] = x]
  /\ m.head = l.head

\* thread_enqueueBefore on the pointers of a list that is not empty: x is put
\* between the threads y and b.
LEMMA EnqueuedIs ==
  ASSUME PointersDiffer, NEW l \in Lists, NEW x \in AllThreads,
         NEW b \in AllThreads, NEW y \in AllThreads, l.prev[b] = y, b # x
  PROVE  /\ Enqueued(l, x, b) \in Lists
         /\ PutBetween(Enqueued(l, x, b), l, y, x, b)
         /\ SetPrev(SetNext(l, x, b), x, b).prev[b] # NULL
<1> DEFINE a == SetNext(l, x, b)
           c == SetPrev(a, x, b)
           d == HookNext(c, x, b)
           e == HookPrev(d, x, b)
<1>1. /\ a \in Lists /\ a.next = [l.next EXCEPT ![x] = b]
      /\ a.prev = l.prev /\ a.head = l.head
  BY DEF SetNext, Lists, Pointers
<1> HIDE DEF a
<1>2. /\ c \in Lists /\ c.next = a.next /\ c.head = a.head
      /\ c.prev = [a.prev EXCEPT ![x] = a.prev[b]]
  BY <1>1 DEF SetPrev, Lists, Pointers
<1> HIDE DEF c
<1>3. c.prev[b] = y
  BY <1>1, <1>2 DEF Lists
<1>4. /\ d \in Lists /\ d.prev = c.prev /\ d.head = c.head
      /\ d.next = [c.next EXCEPT ![c.prev[b]] = x]
  BY <1>2, <1>3 DEF HookNext, Lists, Pointers
<1> HIDE DEF d
<1>5. /\ e \in Lists /\ e.next = d.next /\ e.head = d.head
      /\ e.prev = [d.prev EXCEPT ![b] = x]
  BY <1>4 DEF HookPrev, Lists, Pointers
<1>6. Enqueued(l, x, b) = e
  BY DEF Enqueued, PointersDiffer, a, c, d, e
<1>7. NULL \notin AllThreads
  BY DEF PointersDiffer
<1> HIDE DEF e
<1> QED BY <1>1, <1>2, <1>3, <1>4, <1>5, <1>6, <1>7 DEF a, c, PutBetween

\* The sequence r is q with x in the place k; the thread that is then behind x.
Inserted(r, q, k, x) ==
  /\ Len(r) = Len(q) + 1
  /\ \A j \in 1..(Len(q) + 1) :
       r[j] = IF j < k THEN q[j] ELSE IF j = k THEN x ELSE q[j - 1]
Behind(q, k) == q[IF k = Len(q) + 1 THEN 1 ELSE k]

\* The pointers after x has been put between two neighbours of the list q: those
\* of the list r with x in the place k.
LEMMA InsertedIs ==
  ASSUME PointersDiffer, NEW l \in Lists, NEW q \in Seq(AllThreads),
         NEW x \in AllThreads, Represents(l, q), ~Contains(q, x), q # << >>,
         NEW r \in Seq(AllThreads), NEW k \in 1..(Len(q) + 1),
         Inserted(r, q, k, x), NEW b, b = Behind(q, k),
         NEW g, g.next = Enqueued(l, x, b).next,
         g.prev = Enqueued(l, x, b).prev, g.head = r[1]
  PROVE  /\ Represents(g, r)
         /\ b # x /\ b \in AllThreads
         /\ l.prev[b] \in AllThreads
         /\ Enqueued(l, x, b) \in Lists
         /\ Enqueued(l, x, b).head = l.head
         /\ SetPrev(SetNext(l, x, b), x, b).prev[b] # NULL
<1> DEFINE n == Len(q)
           i == IF k = n + 1 THEN 1 ELSE k
           h == IF k = 1 THEN n ELSE k - 1
           y == q[h]
<1>1. n \in Nat /\ n # 0
  OBVIOUS
<1> HIDE DEF n
<1>2. i \in 1..n /\ h \in 1..n /\ Follows(h, i, n) /\ b = q[i]
  BY <1>1 DEF Follows, Behind, n
<1>3. /\ \A u, v \in 1..n : q[u] = q[v] => u = v
      /\ \A u, v \in 1..n :
           Follows(u, v, n) => l.next[q[u]] = q[v] /\ l.prev[q[v]] = q[u]
      /\ \A u \in 1..n : q[u] \in AllThreads
      /\ \A z \in AllThreads :
           (\A u \in 1..n : q[u] # z) => l.next[z] = NULL /\ l.prev[z] = NULL
  BY RingFacts DEF n
<1>4. \A u \in 1..n : q[u] # x
  BY DEF Contains, n
<1>5. b \in AllThreads /\ y \in AllThreads /\ l.prev[b] = y /\ b # x /\ y # x
      /\ l.next[y] = b
  BY <1>2, <1>3, <1>4
<1> HIDE DEF y
<1>6. /\ Enqueued(l, x, b) \in Lists
      /\ PutBetween(Enqueued(l, x, b), l, y, x, b)
      /\ SetPrev(SetNext(l, x, b), x, b).prev[b] # NULL
  BY <1>5, EnqueuedIs
<1>7. /\ g.next = [[l.next EXCEPT ![x] = b] EXCEPT ![y] = x]
      /\ g.prev = [[l.prev EXCEPT ![x] = y] EXCEPT ![b] = x]
      /\ Enqueued(l, x, b).head = l.head
  BY <1>6 DEF PutBetween
<1>8. /\ Len(r) = n + 1
      /\ \A j \in 1..(n + 1) :
           r[j] = IF j < k THEN q[j] ELSE IF j = k THEN x ELSE q[j - 1]
      /\ k \in 1..(n + 1)
  BY DEF Inserted, n
<1> DEFINE f(j) == IF j < k THEN j ELSE j - 1
<1>9. \A j \in 1..(n + 1) : j # k => f(j) \in 1..n /\ r[j] = q[f(j)]
  BY <1>1, <1>8
<1>10. r[k] = x
  BY <1>8
<1>11. \A u, v \in 1..(n + 1) : r[u] = r[v] => u = v
  <2> SUFFICES ASSUME NEW u \in 1..(n + 1), NEW v \in 1..(n + 1), r[u] = r[v]
               PROVE  u = v
    OBVIOUS
  <2>1. CASE u = k \/ v = k
    <3> HIDE DEF f
    <3> QED BY <2>1, <1>4, <1>9, <1>10
  <2>2. CASE u # k /\ v # k
    <3>1. f(u) \in 1..n /\ f(v) \in 1..n /\ q[f(u)] = q[f(v)]
      BY <2>2, <1>9
    <3>2. f(u) = f(v)
      <4> HIDE DEF f
      <4> QED BY <3>1, <1>3
    <3> QED BY <3>2, <2>2, <1>8, <1>1
  <2> QED BY <2>1, <2>2
<1>12. ASSUME NEW u \in 1..(n + 1), NEW v \in 1..(n + 1), Follows(u, v, n + 1)
       PROVE  g.next[r[u]] = r[v] /\ g.prev[r[v]] = r[u]
  <2>1. CASE u = k
    <3>1. v # k /\ f(v) = i
      BY <2>1, <1>12, <1>1, <1>8 DEF Follows
    <3>2. r[u] = x /\ r[v] = b
      BY <2>1, <3>1, <1>2, <1>9, <1>10
    <3> QED BY <3>2, <1>5, <1>7 DEF Lists
  <2>2. CASE v = k
    <3>1. u # k /\ f(u) = h
      BY <2>2, <1>12, <1>1, <1>8 DEF Follows
    <3>2. r[v] = x /\ r[u] = y
      BY <2>2, <3>1, <1>2, <1>9, <1>10 DEF y
    <3> QED BY <3>2, <1>5, <1>7 DEF Lists
  <2>3. CASE u # k /\ v # k
    <3>1. Follows(f(u), f(v), n) /\ f(u) # h /\ f(v) # i
      BY <2>3, <1>12, <1>1, <1>8 DEF Follows
    <3>2. /\ f(u) \in 1..n /\ f(v) \in 1..n
          /\ r[u] = q[f(u)] /\ r[v] = q[f(v)]
      BY <2>3, <1>9
    <3>3. /\ l.next[r[u]] = r[v] /\ l.prev[r[v]] = r[u]
          /\ r[u] # y /\ r[v] # b /\ r[u] # x /\ r[v] # x
          /\ r[u] \in AllThreads /\ r[v] \in AllThreads
      <4> HIDE DEF f, h, i
      <4>1. l.next[r[u]] = r[v] /\ l.prev[r[v]] = r[u]
        BY <3>1, <3>2, <1>3
      <4>2. r[u] # y /\ r[v] # b
        BY <3>1, <3>2, <1>2, <1>3 DEF y
      <4>3. r[u] # x /\ r[v] # x
        BY <3>2, <1>4
      <4> QED BY <4>1, <4>2, <4>3, <3>2, <1>3
    <3> QED BY <3>3, <1>5, <1>7 DEF Lists
  <2> QED BY <2>1, <2>2, <2>3
<1>13. ASSUME NEW z \in AllThreads, \A u \in 1..(n + 1) : r[u] # z
       PROVE  g.next[z] = NULL /\ g.prev[z] = NULL
  <2>1. z # x
    BY <1>13, <1>8, <1>10
  <2>2. ASSUME NEW u \in 1..n PROVE q[u] # z
    <3>1. CASE u < k
      BY <3>1, <1>13, <1>8, <1>1
    <3>2. CASE ~(u < k)
      <4>1. u + 1 \in 1..(n + 1) /\ ~(u + 1 < k) /\ u + 1 # k /\ (u + 1) - 1 = u
        BY <3>2, <1>8, <1>1
      <4>2. r[u + 1] = q[(u + 1) - 1]
        BY <4>1, <1>8
      <4> QED BY <4>1, <4>2, <1>13
    <3> QED BY <3>1, <3>2
  <2>3. l.next[z] = NULL /\ l.prev[z] = NULL /\ z # b /\ z # y
    BY <2>2, <1>2, <1>3 DEF y
  <2> QED BY <2>1, <2>3, <1>5, <1>7 DEF Lists
<1>14. r # << >>
  BY <1>8, <1>1
<1>15. Represents(g, r)
  <2>1. \A u, v \in 1..Len(r) : r[u] = r[v] => u = v
    BY <1>8, <1>11
  <2>2. \A u, v \in 1..Len(r) :
          Follows(u, v, Len(r)) =>
            g.next[r[u]] = r[v] /\ g.prev[r[v]] = r[u]
    BY <1>8, <1>12
  <2>3. \A z \in AllThreads :
          (\A u \in 1..Len(r) : r[u] # z) => g.next[z] = NULL /\ g.prev[z] = NULL
    BY <1>8, <1>13
  <2>4. g.head = r[1]
    OBVIOUS
  <2> QED BY <2>1, <2>2, <2>3, <2>4, <1>14, RingFrom
<1> QED BY <1>5, <1>6, <1>7, <1>15

LEMMA LinkAloneIs ==
  ASSUME PointersDiffer, NEW l \in Lists, NEW x \in AllThreads,
         Represents(l, << >>)
  PROVE  /\ Represents(SetHead(LinkAlone(l, x), x), << x >>)
         /\ LinkAlone(l, x) \in Lists
         /\ SetHead(LinkAlone(l, x), x) \in Lists
         /\ LinkAlone(l, x).head = NULL
<1> DEFINE a == LinkAlone(l, x)
           g == SetHead(a, x)
<1>1. /\ a \in Lists /\ a.head = l.head
      /\ a.next = [l.next EXCEPT ![x] = x]
      /\ a.prev = [l.prev EXCEPT ![x] = x]
  BY DEF LinkAlone, Lists, Pointers
<1> HIDE DEF a
<1>2. /\ g \in Lists /\ g.head = x /\ g.next = a.next /\ g.prev = a.prev
  BY <1>1 DEF SetHead, Lists, Pointers
<1> HIDE DEF g
<1>3. l.head = NULL /\ \A y \in AllThreads : l.next[y] = NULL /\ l.prev[y] = NULL
  BY DEF Represents, ToSet
<1>4. g.next[x] = x /\ g.prev[x] = x
  BY <1>1, <1>2 DEF Lists
<1>5. \A y \in AllThreads : y # x => g.next[y] = NULL /\ g.prev[y] = NULL
  BY <1>1, <1>2, <1>3 DEF Lists
<1>6. Represents(g, << x >>)
  <2> DEFINE r == << x >>
  <2>1. r \in Seq(AllThreads) /\ Len(r) = 1 /\ r[1] = x /\ r # << >>
    OBVIOUS
  <2> HIDE DEF r
  <2>2. \A i, j \in 1..Len(r) : r[i] = r[j] => i = j
    BY <2>1
  <2>3. \A i, j \in 1..Len(r) :
          Follows(i, j, Len(r)) => g.next[r[i]] = r[j] /\ g.prev[r[j]] = r[i]
    BY <2>1, <1>4
  <2>4. \A y \in AllThreads :
          (\A i \in 1..Len(r) : r[i] # y) => g.next[y] = NULL /\ g.prev[y] = NULL
    BY <2>1, <1>5
  <2>5. Represents(g, r)
    BY <2>1, <2>2, <2>3, <2>4, <1>2, RingFrom
  <2> QED BY <2>5 DEF r
<1> QED BY <1>1, <1>2, <1>3, <1>6 DEF a, g

\* thread_setState(x, EReady) on the pointers is PushHead on the sequence.
LEMMA MadeReadyIs ==
  ASSUME PointersDiffer, NEW l \in Lists, NEW q \in Seq(AllThreads),
         NEW x \in AllThreads, Represents(l, q), ~Contains(q, x)
  PROVE  /\ Represents(MadeReady(l, x), PushHead(q, x))
         /\ MadeReady(l, x) \in Lists
         /\ Enqueued(l, x, l.head) \in Lists
         /\ Unlinked(l, x)
         /\ l.head # NULL =>
              /\ l.prev[l.head] # NULL
              /\ SetPrev(SetNext(l, x, l.head), x, l.head).prev[l.head] # NULL
<1> DEFINE r == PushHead(q, x)
           e == Enqueued(l, x, l.head)
<1>1. Unlinked(l, x)
  BY RingFacts DEF Unlinked, Contains
<1>2. /\ r \in Seq(AllThreads) /\ Len(r) = Len(q) + 1 /\ r[1] = x
      /\ \A j \in 1..(Len(q) + 1) :
           r[j] = IF j < 1 THEN q[j] ELSE IF j = 1 THEN x ELSE q[j - 1]
  BY DEF PushHead, Cons
<1>3. CASE q = << >>
  <2>1. l.head = NULL
    BY <1>3, RingFacts
  <2>2. e = LinkAlone(l, x)
    BY <2>1 DEF Enqueued
  <2>3. r = << x >>
    BY <1>3 DEF PushHead, Cons
  <2> HIDE DEF e, r
  <2>4. Represents(l, << >>)
    BY <1>3
  <2>5. Represents(SetHead(e, x), r) /\ e \in Lists /\ SetHead(e, x) \in Lists
    BY <2>2, <2>3, <2>4, LinkAloneIs
  <2> QED BY <2>1, <2>5, <1>1 DEF e, r, MadeReady
<1>4. CASE q # << >>
  <2>1. l.head = q[1] /\ 1 \in 1..(Len(q) + 1) /\ Len(q) + 1 # 1
    BY <1>4, RingFacts
  <2> HIDE DEF r
  <2>2. \A g : /\ g.next = e.next /\ g.prev = e.prev /\ g.head = r[1]
               => /\ Represents(g, r)
                  /\ l.head # x /\ l.head \in AllThreads
                  /\ l.prev[l.head] \in AllThreads
                  /\ e \in Lists
                  /\ SetPrev(SetNext(l, x, l.head), x, l.head).prev[l.head] # NULL
    <3> SUFFICES ASSUME NEW g, g.next = e.next, g.prev = e.prev, g.head = r[1]
                 PROVE  /\ Represents(g, r)
                        /\ l.head # x /\ l.head \in AllThreads
                        /\ l.prev[l.head] \in AllThreads
                        /\ e \in Lists
                        /\ SetPrev(SetNext(l, x, l.head), x, l.head).prev[l.head]
                             # NULL
      OBVIOUS
    <3>1. l.head = Behind(q, 1)
      BY <2>1 DEF Behind
    <3>2. Inserted(r, q, 1, x)
      BY <1>2 DEF Inserted
    <3> QED BY <1>2, <1>4, <2>1, <3>1, <3>2, InsertedIs
  <2>3. NULL \notin AllThreads
    BY DEF PointersDiffer
  <2> DEFINE g0 == [next |-> e.next, prev |-> e.prev, head |-> x]
  <2>4. e \in Lists
    <3>1. g0.next = e.next /\ g0.prev = e.prev /\ g0.head = r[1]
      BY <1>2
    <3> HIDE DEF g0, e
    <3> QED BY <2>2, <3>1
  <2> DEFINE g == SetHead(e, x)
  <2>5. g \in Lists /\ g.next = e.next /\ g.prev = e.prev /\ g.head = r[1]
    <3> HIDE DEF e
    <3> QED BY <1>2, <2>4 DEF SetHead, Lists, Pointers
  <2>6. g = MadeReady(l, x)
    BY DEF MadeReady
  <2> HIDE DEF g, e
  <2> QED BY <1>1, <2>2, <2>3, <2>4, <2>5, <2>6 DEF r, e
<1> QED BY <1>3, <1>4

\* Where thread_yield puts the thread it has taken from the list.
PutBack(q, x) == IF q = << >> THEN << x >> ELSE EnqueueBefore(q, x, Last(q))
LinkedBack(l, x) ==
  LET e == Enqueued(l, x, LastOf(l))
  IN  IF e.head = NULL THEN SetHead(e, x) ELSE e

LEMMA PutBackIs ==
  ASSUME NEW S, NEW q \in Seq(S), NEW x \in S, Distinct(q), ~Contains(q, x)
  PROVE  /\ PutBack(q, x) \in Seq(S)
         /\ \A u : Contains(PutBack(q, x), u) <=> u = x \/ Contains(q, u)
<1>1. CASE q = << >>
  <2>1. PutBack(q, x) = << x >>
    BY <1>1 DEF PutBack
  <2> QED BY <2>1, <1>1 DEF Contains
<1>2. CASE q # << >> /\ Last(q) = Head(q)
  <2>1. PutBack(q, x) = Append(q, x)
    BY <1>2 DEF PutBack, EnqueueBefore
  <2> QED BY <2>1, AppendIs
<1>3. CASE q # << >> /\ Last(q) # Head(q)
  <2>1. PutBack(q, x) = InsertAt(q, Position(q, Last(q)), x)
    BY <1>3 DEF PutBack, EnqueueBefore
  <2>2. Contains(q, Last(q))
    BY <1>3 DEF Contains, Last
  <2>3. Position(q, Last(q)) \in 1..Len(q)
    BY <2>2, PositionIs
  <2>4. \A i \in 1..Len(q) :
          /\ InsertAt(q, i, x) \in Seq(S)
          /\ \A u : Contains(InsertAt(q, i, x), u) <=> u = x \/ Contains(q, u)
    BY InsertIs
  <2> QED BY <2>1, <2>3, <2>4
<1> QED BY <1>1, <1>2, <1>3

\* The second half of thread_yield.
LEMMA LinkedBackIs ==
  ASSUME PointersDiffer, NEW l \in Lists, NEW q \in Seq(AllThreads),
         NEW x \in AllThreads, Represents(l, q), ~Contains(q, x)
  PROVE  /\ Represents(LinkedBack(l, x), PutBack(q, x))
         /\ LinkedBack(l, x) \in Lists
         /\ Enqueued(l, x, LastOf(l)) \in Lists
         /\ Unlinked(l, x)
         /\ LastOf(l) \in Pointers
         /\ l.head = NULL <=> LastOf(l) = NULL
         /\ LastOf(l) # NULL =>
              /\ l.prev[LastOf(l)] # NULL
              /\ SetPrev(SetNext(l, x, LastOf(l)), x, LastOf(l))
                   .prev[LastOf(l)] # NULL
<1> DEFINE r == PutBack(q, x)
           b == LastOf(l)
           e == Enqueued(l, x, b)
<1>1. Unlinked(l, x)
  BY RingFacts DEF Unlinked, Contains
<1>2. NULL \notin AllThreads
  BY DEF PointersDiffer
<1>3. CASE q = << >>
  <2>1. l.head = NULL /\ b = NULL
    BY <1>3, RingFacts DEF LastOf
  <2>2. e = LinkAlone(l, x) /\ r = << x >>
    BY <2>1, <1>3 DEF Enqueued, PutBack
  <2> HIDE DEF e, r
  <2>3. /\ Represents(SetHead(e, x), r) /\ e \in Lists
        /\ SetHead(e, x) \in Lists /\ e.head = NULL
    BY <2>2, <1>3, LinkAloneIs
  <2>4. LinkedBack(l, x) = SetHead(e, x)
    BY <2>3 DEF LinkedBack, e
  <2> QED BY <2>1, <2>3, <2>4, <1>1 DEF e, r, Pointers
<1>4. CASE q # << >>
  <2> DEFINE n == Len(q)
             k == IF n = 1 THEN 2 ELSE n
  <2>1. n \in Nat /\ n # 0 /\ l.head = q[1] /\ b = q[n]
    <3>1. n \in Nat /\ n # 0 /\ l.head = q[1] /\ q[1] \in AllThreads
      BY <1>4, RingFacts
    <3>2. Follows(n, 1, n) /\ n \in 1..n /\ 1 \in 1..n
      BY <3>1 DEF Follows
    <3>3. l.prev[q[1]] = q[n]
      BY <3>2, RingFacts
    <3> QED BY <3>1, <3>3, <1>2 DEF LastOf
  <2>2. /\ r \in Seq(AllThreads) /\ Len(r) = n + 1
        /\ \A j \in 1..(n + 1) :
             r[j] = IF j < k THEN q[j] ELSE IF j = k THEN x ELSE q[j - 1]
    <3>1. Last(q) = q[n] /\ Head(q) = q[1]
      BY <1>4 DEF Last
    <3>2. CASE n = 1
      <4>1. r = Append(q, x)
        BY <3>1, <3>2, <1>4 DEF PutBack, EnqueueBefore
      <4>2. /\ Append(q, x) \in Seq(AllThreads) /\ Len(Append(q, x)) = n + 1
            /\ \A j \in 1..(n + 1) :
                 Append(q, x)[j] = IF j < n + 1 THEN q[j] ELSE x
        BY <2>1
      <4>3. k = 2 /\ n + 1 = 2 /\ \A j \in 1..2 : j < 2 \/ j = 2
        BY <3>2
      <4> HIDE DEF r, k, n
      <4> QED BY <4>1, <4>2, <4>3
    <3>3. CASE n # 1
      <4>1. q[n] # q[1]
        <5>1. \A i, j \in 1..Len(q) : q[i] = q[j] => i = j
          BY RingFacts
        <5>2. n \in 1..Len(q) /\ 1 \in 1..Len(q)
          BY <2>1
        <5> QED BY <5>1, <5>2, <3>3
      <4>2. Contains(q, q[n])
        BY <2>1 DEF Contains
      <4>3. Position(q, q[n]) = n
        <5>1. Position(q, q[n]) \in 1..n /\ q[Position(q, q[n])] = q[n]
          BY <4>2, PositionIs
        <5> QED BY <5>1, <2>1, RingFacts
      <4>4. r = InsertAt(q, n, x)
        BY <3>1, <4>1, <4>3, <1>4 DEF PutBack, EnqueueBefore
      <4>5. n \in 1..Len(q)
        BY <2>1
      <4>6. /\ InsertAt(q, n, x) \in Seq(AllThreads)
            /\ Len(InsertAt(q, n, x)) = Len(q) + 1
            /\ \A j \in 1..(Len(q) + 1) :
                 InsertAt(q, n, x)[j] =
                   IF j < n THEN q[j] ELSE IF j = n THEN x ELSE q[j - 1]
        <5>1. \A i \in 1..Len(q) :
                 /\ InsertAt(q, i, x) \in Seq(AllThreads)
                 /\ Len(InsertAt(q, i, x)) = Len(q) + 1
                 /\ \A j \in 1..(Len(q) + 1) :
                      InsertAt(q, i, x)[j] =
                        IF j < i THEN q[j] ELSE IF j = i THEN x ELSE q[j - 1]
          BY InsertAtIs
        <5> QED BY <4>5, <5>1
      <4> QED BY <4>4, <4>6, <3>3
    <3> QED BY <3>2, <3>3
  <2>3. k \in 1..(n + 1) /\ b = q[IF k = n + 1 THEN 1 ELSE k]
    BY <2>1
  <2>4. r[1] = q[1]
    <3>1. 1 < k /\ 1 \in 1..(n + 1)
      <4>1. n \in Nat /\ n # 0
        BY <2>1
      <4> HIDE DEF n
      <4> QED BY <4>1
    <3> HIDE DEF r, k
    <3> QED BY <2>2, <3>1
  <2> DEFINE g == [next |-> e.next, prev |-> e.prev, head |-> r[1]]
  <2>5. /\ Represents(g, r)
        /\ b # x /\ b \in AllThreads
        /\ l.prev[b] \in AllThreads
        /\ e \in Lists
        /\ e.head = l.head
        /\ SetPrev(SetNext(l, x, b), x, b).prev[b] # NULL
    <3>1. g.next = e.next /\ g.prev = e.prev /\ g.head = r[1]
      OBVIOUS
    <3>2. k \in 1..(Len(q) + 1) /\ b = Behind(q, k)
      BY <2>3 DEF Behind
    <3>3. Inserted(r, q, k, x)
      BY <2>2 DEF Inserted
    <3>4. r \in Seq(AllThreads)
      BY <2>2
    <3>5. g.next = Enqueued(l, x, b).next /\ g.prev = Enqueued(l, x, b).prev
      BY <3>1 DEF e
    <3> HIDE DEF g, r, b, k, n
    <3>6. /\ Represents(g, r)
          /\ b # x /\ b \in AllThreads
          /\ l.prev[b] \in AllThreads
          /\ Enqueued(l, x, b) \in Lists
          /\ Enqueued(l, x, b).head = l.head
          /\ SetPrev(SetNext(l, x, b), x, b).prev[b] # NULL
      <4>1. g.head = r[1]
        BY <3>1
      <4> HIDE DEF e
      <4> QED BY <1>4, <4>1, <3>2, <3>3, <3>4, <3>5, InsertedIs
    <3> QED BY <3>6 DEF e
  <2> HIDE DEF e, r, b
  <2>6. e = g
    BY <2>1, <2>4, <2>5 DEF Lists
  <2>7. e.head # NULL
    BY <2>1, <2>5, <1>2, <1>4, RingFacts
  <2>8. LinkedBack(l, x) = e
    BY <2>7 DEF LinkedBack, e, b
  <2> HIDE DEF g
  <2>9. Represents(e, r)
    BY <2>5, <2>6
  <2> QED BY <2>5, <2>7, <2>8, <2>9, <1>1, <1>2 DEF e, r, b, Pointers
<1> QED BY <1>3, <1>4

-----------------------------------------------------------------------------
(* The same of sets: the pointers l are those of a list of the threads S.  *)

Holds(l, S) ==
  l \in Lists /\ \E q \in Seq(AllThreads) : Represents(l, q) /\ ToSet(q) = S

LEMMA ToSetIs ==
  ASSUME NEW q \in Seq(AllThreads)
  PROVE  ToSet(q) \subseteq AllThreads /\ \A u : u \in ToSet(q) <=> Contains(q, u)
BY DEF ToSet, Contains

LEMMA HoldsDequeued ==
  ASSUME PointersDiffer, NEW l, NEW S, Holds(l, S), NEW x \in S
  PROVE  /\ Holds(Dequeued(l, x), S \ {x})
         /\ l.prev[x] # NULL /\ l.next[x] # NULL
         /\ SkipNext(l, x).next[x] # NULL
<1>1. PICK q \in Seq(AllThreads) : Represents(l, q) /\ ToSet(q) = S
  BY DEF Holds
<1>2. l \in Lists /\ x \in AllThreads /\ Contains(q, x) /\ Distinct(q)
  BY <1>1, ToSetIs DEF Holds, Represents
<1>3. /\ Represents(Dequeued(l, x), Dequeue(q, x))
      /\ Dequeued(l, x) \in Lists
      /\ l.prev[x] # NULL /\ l.next[x] # NULL
      /\ SkipNext(l, x).next[x] # NULL
  BY <1>1, <1>2, DequeuedIs
<1>4. /\ Dequeue(q, x) \in Seq(AllThreads)
      /\ \A u : Contains(Dequeue(q, x), u) <=> u # x /\ Contains(q, u)
  BY <1>2, DequeueIs
<1>5. ToSet(Dequeue(q, x)) = S \ {x}
  <2>1. \A u : u \in ToSet(Dequeue(q, x)) <=> Contains(Dequeue(q, x), u)
    BY <1>4, ToSetIs
  <2>2. \A u : u \in S <=> Contains(q, u)
    BY <1>1, ToSetIs
  <2> QED BY <2>1, <2>2, <1>4
<1> QED BY <1>3, <1>4, <1>5 DEF Holds

LEMMA HoldsMadeReady ==
  ASSUME PointersDiffer, NEW l, NEW S, Holds(l, S),
         NEW x \in AllThreads, x \notin S
  PROVE  /\ Holds(MadeReady(l, x), S \cup {x})
         /\ Unlinked(l, x)
         /\ l.head # NULL =>
              /\ l.prev[l.head] # NULL
              /\ SetPrev(SetNext(l, x, l.head), x, l.head).prev[l.head] # NULL
<1>1. PICK q \in Seq(AllThreads) : Represents(l, q) /\ ToSet(q) = S
  BY DEF Holds
<1>2. l \in Lists /\ ~Contains(q, x) /\ Distinct(q)
  BY <1>1, ToSetIs DEF Holds, Represents
<1>3. /\ Represents(MadeReady(l, x), PushHead(q, x))
      /\ MadeReady(l, x) \in Lists
      /\ Unlinked(l, x)
      /\ l.head # NULL =>
           /\ l.prev[l.head] # NULL
           /\ SetPrev(SetNext(l, x, l.head), x, l.head).prev[l.head] # NULL
  BY <1>1, <1>2, MadeReadyIs
<1>4. /\ PushHead(q, x) \in Seq(AllThreads)
      /\ \A u : Contains(PushHead(q, x), u) <=> u = x \/ Contains(q, u)
  BY <1>2, PushHeadIs
<1>5. ToSet(PushHead(q, x)) = S \cup {x}
  <2>1. \A u : u \in ToSet(PushHead(q, x)) <=> Contains(PushHead(q, x), u)
    BY <1>4, ToSetIs
  <2>2. \A u : u \in S <=> Contains(q, u)
    BY <1>1, ToSetIs
  <2> QED BY <2>1, <2>2, <1>4
<1> QED BY <1>3, <1>4, <1>5 DEF Holds

LEMMA HoldsLinkedBack ==
  ASSUME PointersDiffer, NEW l, NEW S, Holds(l, S),
         NEW x \in AllThreads, x \notin S
  PROVE  /\ Holds(LinkedBack(l, x), S \cup {x})
         /\ Unlinked(l, x)
         /\ LastOf(l) # NULL =>
              /\ l.prev[LastOf(l)] # NULL
              /\ SetPrev(SetNext(l, x, LastOf(l)), x, LastOf(l))
                   .prev[LastOf(l)] # NULL
<1>1. PICK q \in Seq(AllThreads) : Represents(l, q) /\ ToSet(q) = S
  BY DEF Holds
<1>2. l \in Lists /\ ~Contains(q, x) /\ Distinct(q)
  BY <1>1, ToSetIs DEF Holds, Represents
<1>3. /\ Represents(LinkedBack(l, x), PutBack(q, x))
      /\ LinkedBack(l, x) \in Lists
      /\ Unlinked(l, x)
      /\ LastOf(l) # NULL =>
           /\ l.prev[LastOf(l)] # NULL
           /\ SetPrev(SetNext(l, x, LastOf(l)), x, LastOf(l))
                .prev[LastOf(l)] # NULL
  BY <1>1, <1>2, LinkedBackIs
<1>4. /\ PutBack(q, x) \in Seq(AllThreads)
      /\ \A u : Contains(PutBack(q, x), u) <=> u = x \/ Contains(q, u)
  BY <1>2, PutBackIs
<1>5. ToSet(PutBack(q, x)) = S \cup {x}
  <2>1. \A u : u \in ToSet(PutBack(q, x)) <=> Contains(PutBack(q, x), u)
    BY <1>4, ToSetIs
  <2>2. \A u : u \in S <=> Contains(q, u)
    BY <1>1, ToSetIs
  <2> QED BY <2>1, <2>2, <1>4
<1> QED BY <1>3, <1>4, <1>5 DEF Holds

LEMMA HoldsHead ==
  ASSUME PointersDiffer, NEW l, NEW S, Holds(l, S)
  PROVE  /\ S \subseteq AllThreads
         /\ S = {} => l.head = NULL
         /\ S # {} => l.head \in S /\ l.head # NULL
<1>1. PICK q \in Seq(AllThreads) : Represents(l, q) /\ ToSet(q) = S
  BY DEF Holds
<1>2. \A u : u \in S <=> Contains(q, u)
  BY <1>1, ToSetIs
<1>3. S \subseteq AllThreads
  BY <1>1, ToSetIs
<1>4. CASE q = << >>
  <2>1. l.head = NULL
    BY <1>4, <1>1 DEF Represents
  <2>2. S = {}
    <3>1. Len(q) = 0
      BY <1>4
    <3> QED BY <3>1, <1>2 DEF Contains
  <2> QED BY <2>1, <2>2, <1>3
<1>5. CASE q # << >>
  <2>1. 1 \in 1..Len(q)
    BY <1>5
  <2>2. l.head = q[1] /\ Contains(q, q[1])
    BY <2>1, <1>5, <1>1, RingFacts DEF Contains
  <2> QED BY <2>2, <1>2, <1>3 DEF PointersDiffer
<1> QED BY <1>4, <1>5

\* reschedule() never looks beyond the head of a list of ready threads.
LEMMA RescheduleIs ==
  ASSUME PointersDiffer, NEW l, NEW st,
         Holds(l, {x \in AllThreads : st[x] = "EReady"}),
         Reschedule(l, st)
  PROVE  /\ panic' = "none" /\ currentThread' \in Pointers
         /\ mode' = "usr" =>
              currentThread' \in Threads /\ st[currentThread'] = "EReady"
         /\ mode' = "dfc" => st[DfcThread] = "EReady"
         /\ mode' # "svc"
<1> DEFINE S == {x \in AllThreads : st[x] = "EReady"}
           y == FindNextReadyThread(l, st)
<1>1. \/ l.head = NULL
      \/ l.head # NULL /\ l.head \in AllThreads /\ st[l.head] = "EReady"
  BY HoldsHead
<1>2. y = l.head
  BY <1>1 DEF FindNextReadyThread
<1>3. /\ currentThread' = IF y \in AllThreads THEN y ELSE NULL
      /\ mode' = IF y = DfcThread THEN "dfc" ELSE IF y \in Threads THEN "usr"
                 ELSE "idle"
      /\ panic' = IF y \in Pointers THEN "none" ELSE "lostInList"
  BY DEF Reschedule
<1> HIDE DEF y
<1> QED BY <1>1, <1>2, <1>3 DEF Pointers, AllThreads, PointersDiffer

-----------------------------------------------------------------------------
(* The kernel with interrupts disabled in thread_yield and thread_setState. *)

Ready == {x \in AllThreads : state[x] = "EReady"}
States == {"EReady", "EWaitForRequest", "EBlockedFromSvc"}

Dequeueing == {"skipNext", "skipPrev", "moveHead", "clear"}
Enqueueing == {"argument", "assert", "alone", "setNext", "setPrev", "hookNext",
               "hookPrev", "setHead"}

\* The pointers in the middle of thread_dequeue, which has found the list l.
DequeueStage(l) ==
  /\ pc = "skipNext" => list = l
  /\ pc = "skipPrev" => list = SkipNext(l, t)
  /\ pc = "moveHead" => list = SkipPrev(SkipNext(l, t), t)
  /\ pc = "clear" => list = MoveHead(SkipPrev(SkipNext(l, t), t), t)

\* The pointers in the middle of thread_enqueueBefore.
Arg(l) == IF to = "yield" THEN LastOf(l) ELSE l.head
EnqueueStage(l) ==
  /\ pc # "argument" => before = Arg(l)
  /\ pc \in {"argument", "assert", "alone", "setNext"} => list = l
  /\ pc = "alone" => before = NULL
  /\ pc \in {"setNext", "setPrev", "hookNext", "hookPrev"} => before # NULL
  /\ pc = "setPrev" => list = SetNext(l, t, before)
  /\ pc = "hookNext" => list = SetPrev(SetNext(l, t, before), t, before)
  /\ pc = "hookPrev" =>
       list = HookNext(SetPrev(SetNext(l, t, before), t, before), t, before)
  /\ pc = "setHead" => list = Enqueued(l, t, before)

CallKnows ==
  /\ t \in Threads
  /\ to \in {"yield", "EReady", "EWaitForRequest"}
  /\ state[t] = "EReady" <=> to # "EReady"
  /\ leaves \/ to = "EReady"

AtRest == pc = "none" => Holds(list, Ready)
InDequeue ==
  pc \in Dequeueing =>
    CallKnows /\ to # "EReady" /\ \E l : Holds(l, Ready) /\ DequeueStage(l)
InEnqueue ==
  pc \in Enqueueing =>
    /\ CallKnows /\ to # "EWaitForRequest"
    /\ \E l : Holds(l, Ready \ {t}) /\ EnqueueStage(l)
InSetState ==
  pc = "setState" =>
    /\ CallKnows /\ to # "yield"
    /\ Holds(list, IF to = "EReady" THEN Ready \cup {t} ELSE Ready \ {t})

Running ==
  /\ panic = "none"
  /\ state \in [AllThreads -> States]
  /\ currentThread \in Pointers
  /\ pc \in {"none", "setState"} \cup Dequeueing \cup Enqueueing
  /\ mode = "usr" =>
       /\ pc = "none" /\ currentThread \in Threads
       /\ state[currentThread] = "EReady"
  /\ mode = "svc" =>
       currentThread \in Threads /\ (leaves \/ state[currentThread] = "EReady")
  /\ mode = "dfc" => state[DfcThread] = "EReady"

IInv == Running /\ AtRest /\ InDequeue /\ InEnqueue /\ InSetState

LEMMA InitIInv == ASSUME PointersDiffer, Init PROVE IInv
<1>1. PICK first \in Threads :
        LET alone == [x \in AllThreads |-> IF x = first THEN x ELSE NULL] IN
        /\ list = [next |-> alone, prev |-> alone, head |-> first]
        /\ state = [x \in AllThreads |->
                      IF x = first THEN "EReady"
                      ELSE IF x = DfcThread THEN "EBlockedFromSvc"
                      ELSE "EWaitForRequest"]
        /\ currentThread = first /\ mode = "usr"
  BY DEF Init
<1>2. pc = "none" /\ panic = "none"
  BY DEF Init
<1>3. Running
  BY <1>1, <1>2 DEF Running, States, Pointers, AllThreads
<1>4. Ready = {first}
  BY <1>1 DEF Ready, AllThreads
<1> DEFINE r == << first >>
<1>5. r \in Seq(AllThreads) /\ Len(r) = 1 /\ r[1] = first /\ r # << >>
  BY DEF AllThreads
<1> HIDE DEF r
<1>6. list \in Lists
  BY <1>1 DEF Lists, Pointers, AllThreads
<1>7. /\ list.next[first] = first /\ list.prev[first] = first
      /\ list.head = first
      /\ \A y \in AllThreads : y # first =>
           list.next[y] = NULL /\ list.prev[y] = NULL
  BY <1>1 DEF AllThreads
<1>8. \A i \in 1..Len(r) : i = 1
  BY <1>5
<1>9. Represents(list, r)
  <2>1. \A i, j \in 1..Len(r) : r[i] = r[j] => i = j
    BY <1>8
  <2>2. \A i, j \in 1..Len(r) :
          Follows(i, j, Len(r)) =>
            list.next[r[i]] = r[j] /\ list.prev[r[j]] = r[i]
    BY <1>5, <1>7, <1>8
  <2>3. \A y \in AllThreads :
          (\A i \in 1..Len(r) : r[i] # y) =>
             list.next[y] = NULL /\ list.prev[y] = NULL
    BY <1>5, <1>7
  <2> QED BY <2>1, <2>2, <2>3, <1>5, <1>7, RingFrom
<1>10. ToSet(r) = {first}
  BY <1>5, <1>8 DEF ToSet
<1>11. Holds(list, Ready)
  BY <1>4, <1>5, <1>6, <1>9, <1>10 DEF Holds
<1> QED BY <1>2, <1>3, <1>11
        DEF IInv, AtRest, InDequeue, InEnqueue, InSetState, Dequeueing,
            Enqueueing

\* A statement that changes only the pointers and goes on in the same call.
LEMMA StoreRuns ==
  ASSUME IInv, pc # "none", NEW l, NEW next, Store(l, next),
         next \in {"none", "setState"} \cup Dequeueing \cup Enqueueing
  PROVE  /\ Running' /\ Ready' = Ready
         /\ CallKnows => CallKnows'
BY DEF IInv, Running, Store, cpu, Ready, CallKnows

LEMMA DequeueSteps ==
  ASSUME PointersDiffer, IInv,
         Dequeue1 \/ Dequeue2 \/ Dequeue3 \/ Dequeue4
  PROVE  IInv'
<1>1. pc \in Dequeueing
  BY DEF Dequeue1, Dequeue2, Dequeue3, Dequeue4, At, Dequeueing
<1>2. CallKnows /\ to # "EReady"
  BY <1>1 DEF IInv, InDequeue
<1>3. PICK l : Holds(l, Ready) /\ DequeueStage(l)
  BY <1>1 DEF IInv, InDequeue
<1>4. t \in Ready
  BY <1>2 DEF CallKnows, Ready, AllThreads
<1>5. /\ Holds(Dequeued(l, t), Ready \ {t})
      /\ l.prev[t] # NULL /\ l.next[t] # NULL
      /\ SkipNext(l, t).next[t] # NULL
  BY <1>3, <1>4, HoldsDequeued
<1>6. ASSUME NEW m, NEW next \in Dequeueing, Store(m, next),
             DequeueStage(l)'
      PROVE  IInv'
  <2>1. Running' /\ Ready' = Ready /\ CallKnows' /\ pc' = next /\ to' = to
    BY <1>1, <1>2, <1>6, StoreRuns DEF Store, Dequeueing
  <2> QED BY <2>1, <1>2, <1>3, <1>6
          DEF IInv, AtRest, InDequeue, InEnqueue, InSetState, Dequeueing,
              Enqueueing
<1>7. CASE Dequeue1
  <2>1. Store(SkipNext(l, t), "skipPrev")
    BY <1>3, <1>5, <1>7 DEF Dequeue1, At, DequeueStage
  <2>2. DequeueStage(l)'
    BY <2>1 DEF Store, DequeueStage
  <2> QED BY <2>1, <2>2, <1>6 DEF Dequeueing
<1>8. CASE Dequeue2
  <2>1. Store(SkipPrev(SkipNext(l, t), t), "moveHead")
    BY <1>3, <1>5, <1>8 DEF Dequeue2, At, DequeueStage
  <2>2. DequeueStage(l)'
    BY <2>1 DEF Store, DequeueStage
  <2> QED BY <2>1, <2>2, <1>6 DEF Dequeueing
<1>9. CASE Dequeue3
  <2>1. Store(MoveHead(SkipPrev(SkipNext(l, t), t), t), "clear")
    BY <1>3, <1>5, <1>9 DEF Dequeue3, At, DequeueStage
  <2>2. DequeueStage(l)'
    BY <2>1 DEF Store, DequeueStage
  <2> QED BY <2>1, <2>2, <1>6 DEF Dequeueing
<1>10. CASE Dequeue4
  <2> DEFINE next == IF to = "yield" THEN "argument" ELSE "setState"
  <2>1. Store(Dequeued(l, t), next)
    BY <1>3, <1>10 DEF Dequeue4, At, DequeueStage, Dequeued
  <2>2. next \in {"none", "setState"} \cup Dequeueing \cup Enqueueing
    BY DEF Enqueueing
  <2>3. Running' /\ Ready' = Ready /\ CallKnows'
    <3> HIDE DEF next
    <3> QED BY <1>1, <1>2, <2>1, <2>2, StoreRuns DEF Dequeueing
  <2>4. list' = Dequeued(l, t) /\ t' = t /\ to' = to /\ pc' = next
    BY <2>1 DEF Store
  <2>5. Holds(list, Ready \ {t})'
    BY <2>3, <2>4, <1>5
  <2>6. CASE to = "yield"
    <3>1. EnqueueStage(Dequeued(l, t))'
      BY <2>4, <2>6 DEF EnqueueStage
    <3> QED BY <2>3, <2>4, <2>6, <3>1, <1>5
            DEF IInv, AtRest, InDequeue, InEnqueue, InSetState, Dequeueing,
                Enqueueing
  <2>7. CASE to # "yield"
    <3> QED BY <2>3, <2>4, <2>5, <2>7, <1>2
            DEF IInv, AtRest, InDequeue, InEnqueue, InSetState, Dequeueing,
                Enqueueing
  <2> QED BY <2>6, <2>7
<1> QED BY <1>7, <1>8, <1>9, <1>10

LEMMA EnqueueSteps ==
  ASSUME PointersDiffer, IInv,
         \/ Argument \/ Assertion \/ EnqueueAlone \/ Enqueue1 \/ Enqueue2
         \/ Enqueue3 \/ Enqueue4 \/ NewHead
  PROVE  IInv'
<1>1. pc \in Enqueueing
  BY DEF Argument, Assertion, EnqueueAlone, Enqueue1, Enqueue2, Enqueue3,
         Enqueue4, NewHead, At, Enqueueing
<1>2. CallKnows /\ to # "EWaitForRequest"
  BY <1>1 DEF IInv, InEnqueue
<1>3. PICK l : Holds(l, Ready \ {t}) /\ EnqueueStage(l)
  BY <1>1 DEF IInv, InEnqueue
<1>4. t \in AllThreads /\ t \notin Ready \ {t}
  BY <1>2 DEF CallKnows, AllThreads
<1>5. /\ Unlinked(l, t)
      /\ Arg(l) # NULL =>
           /\ l.prev[Arg(l)] # NULL
           /\ SetPrev(SetNext(l, t, Arg(l)), t, Arg(l)).prev[Arg(l)] # NULL
      /\ to = "yield" => Holds(LinkedBack(l, t), (Ready \ {t}) \cup {t})
      /\ to # "yield" => Holds(MadeReady(l, t), (Ready \ {t}) \cup {t})
  BY <1>3, <1>4, HoldsLinkedBack, HoldsMadeReady DEF Arg
<1>6. ASSUME NEW m, NEW next \in Enqueueing, Store(m, next), EnqueueStage(l)'
      PROVE  IInv'
  <2>1. Running' /\ Ready' = Ready /\ CallKnows' /\ pc' = next /\ to' = to
        /\ t' = t
    BY <1>1, <1>2, <1>6, StoreRuns DEF Store, Enqueueing
  <2> QED BY <2>1, <1>2, <1>3, <1>6
          DEF IInv, AtRest, InDequeue, InEnqueue, InSetState, Dequeueing,
              Enqueueing
<1>7. CASE Argument
  <2>1. /\ pc = "argument" /\ list = l /\ pc' = "assert" /\ before' = Arg(l)
        /\ UNCHANGED << list, state, t, to, cpu, panic >>
    BY <1>3, <1>7 DEF Argument, At, EnqueueStage, Arg
  <2>2. EnqueueStage(l)'
    BY <2>1 DEF EnqueueStage, Arg
  <2>3. Running' /\ Ready' = Ready /\ CallKnows'
    BY <2>1, <1>2 DEF IInv, Running, cpu, Ready, CallKnows, Enqueueing
  <2> QED BY <2>1, <2>2, <2>3, <1>2, <1>3
          DEF IInv, AtRest, InDequeue, InEnqueue, InSetState, Dequeueing,
              Enqueueing
<1>8. CASE Assertion
  <2> DEFINE next == IF before = NULL THEN "alone" ELSE "setNext"
  <2>1. Store(l, next) /\ next \in Enqueueing
    BY <1>3, <1>5, <1>8 DEF Assertion, At, EnqueueStage, Enqueueing
  <2>2. EnqueueStage(l)'
    BY <2>1, <1>3, <1>8 DEF Store, EnqueueStage, Arg, Assertion, At
  <2> QED BY <2>1, <2>2, <1>6
<1>9. CASE EnqueueAlone
  <2>1. Store(Enqueued(l, t, before), "setHead")
    BY <1>3, <1>9 DEF EnqueueAlone, At, EnqueueStage, Enqueued
  <2>2. EnqueueStage(l)'
    BY <2>1, <1>3, <1>9 DEF Store, EnqueueStage, Arg, EnqueueAlone, At
  <2> QED BY <2>1, <2>2, <1>6 DEF Enqueueing
<1>10. CASE Enqueue1
  <2>1. Store(SetNext(l, t, before), "setPrev")
    BY <1>3, <1>5, <1>10 DEF Enqueue1, At, EnqueueStage
  <2>2. EnqueueStage(l)'
    BY <2>1, <1>3, <1>10 DEF Store, EnqueueStage, Arg, Enqueue1, At
  <2> QED BY <2>1, <2>2, <1>6 DEF Enqueueing
<1>11. CASE Enqueue2
  <2>1. Store(SetPrev(SetNext(l, t, before), t, before), "hookNext")
    BY <1>3, <1>5, <1>11 DEF Enqueue2, At, EnqueueStage
  <2>2. EnqueueStage(l)'
    BY <2>1, <1>3, <1>11 DEF Store, EnqueueStage, Arg, Enqueue2, At
  <2> QED BY <2>1, <2>2, <1>6 DEF Enqueueing
<1>12. CASE Enqueue3
  <2>1. Store(HookNext(SetPrev(SetNext(l, t, before), t, before), t, before),
              "hookPrev")
    BY <1>3, <1>5, <1>12 DEF Enqueue3, At, EnqueueStage
  <2>2. EnqueueStage(l)'
    BY <2>1, <1>3, <1>12 DEF Store, EnqueueStage, Arg, Enqueue3, At
  <2> QED BY <2>1, <2>2, <1>6 DEF Enqueueing
<1>13. CASE Enqueue4
  <2>1. Store(Enqueued(l, t, before), "setHead")
    BY <1>3, <1>13 DEF Enqueue4, At, EnqueueStage, Enqueued
  <2>2. EnqueueStage(l)'
    BY <2>1, <1>3, <1>13 DEF Store, EnqueueStage, Arg, Enqueue4, At
  <2> QED BY <2>1, <2>2, <1>6 DEF Enqueueing
<1>14. CASE NewHead
  <2> DEFINE next == IF to = "yield" THEN "none" ELSE "setState"
             m == IF to = "yield" THEN LinkedBack(l, t) ELSE MadeReady(l, t)
  <2>1. list = Enqueued(l, t, Arg(l))
    BY <1>3, <1>14 DEF NewHead, At, EnqueueStage
  <2>2. m = IF to = "yield" /\ list.head # NULL THEN list ELSE SetHead(list, t)
    BY <2>1 DEF Arg, LinkedBack, MadeReady
  <2>3. Store(m, next)
    BY <2>2, <1>14 DEF NewHead
  <2>4. Holds(m, (Ready \ {t}) \cup {t})
    BY <1>5
  <2> HIDE DEF m
  <2>5. Running' /\ Ready' = Ready /\ CallKnows'
    <3>1. next \in {"none", "setState"} \cup Dequeueing \cup Enqueueing
      OBVIOUS
    <3> HIDE DEF next
    <3> QED BY <1>1, <1>2, <2>3, <3>1, StoreRuns DEF Enqueueing
  <2>6. list' = m /\ t' = t /\ to' = to /\ pc' = next
    BY <2>3 DEF Store
  <2>7. CASE to = "yield"
    <3>1. (Ready \ {t}) \cup {t} = Ready
      BY <2>7, <1>2, <1>4 DEF CallKnows, Ready
    <3> QED BY <2>4, <2>5, <2>6, <2>7, <3>1
            DEF IInv, AtRest, InDequeue, InEnqueue, InSetState, Dequeueing,
                Enqueueing
  <2>8. CASE to # "yield"
    <3>1. (Ready \ {t}) \cup {t} = Ready \cup {t} /\ to = "EReady"
      BY <2>8, <1>2 DEF CallKnows
    <3> QED BY <2>4, <2>5, <2>6, <2>8, <3>1
            DEF IInv, AtRest, InDequeue, InEnqueue, InSetState, Dequeueing,
                Enqueueing
  <2> QED BY <2>7, <2>8
<1> QED BY <1>7, <1>8, <1>9, <1>10, <1>11, <1>12, <1>13, <1>14

LEMMA SetStateStep ==
  ASSUME PointersDiffer, IInv, SetState
  PROVE  IInv'
<1>1. /\ pc = "setState" /\ pc' = "none"
      /\ state' = [state EXCEPT ![t] = to]
      /\ UNCHANGED << list, t, before, to, cpu, panic >>
  BY DEF SetState, At
<1>2. /\ t \in Threads /\ t \in AllThreads /\ t # DfcThread
      /\ to \in {"EReady", "EWaitForRequest"}
      /\ leaves \/ to = "EReady"
      /\ Holds(list, IF to = "EReady" THEN Ready \cup {t} ELSE Ready \ {t})
  BY <1>1 DEF IInv, InSetState, CallKnows, AllThreads, PointersDiffer
<1>3. Ready' = IF to = "EReady" THEN Ready \cup {t} ELSE Ready \ {t}
  BY <1>1, <1>2 DEF IInv, Running, Ready
<1>4. Running'
  BY <1>1, <1>2 DEF IInv, Running, cpu, States, AllThreads
<1>5. Holds(list', Ready')
  BY <1>1, <1>2, <1>3
<1> QED BY <1>1, <1>4, <1>5
        DEF IInv, AtRest, InDequeue, InEnqueue, InSetState, Dequeueing,
            Enqueueing

\* thread_yield or thread_setState is called while nobody is at work on the list.
LEMMA CallStep ==
  ASSUME PointersDiffer, IInv, pc = "none",
         NEW first, NEW x \in Threads, NEW s, Call(first, x, s),
         \/ /\ first = "skipNext" /\ s \in {"yield", "EWaitForRequest"}
            /\ state[x] = "EReady"
         \/ first = "argument" /\ s = "EReady" /\ state[x] # "EReady",
         leaves' \/ s = "EReady", mode' \in {"svc", mode}, mode' # "usr",
         mode' = "svc" =>
           currentThread \in Threads /\ state[currentThread] = "EReady"
  PROVE  IInv'
<1>1. /\ pc' = first /\ t' = x /\ to' = s
      /\ UNCHANGED << list, state, before, currentThread, expired,
                      rescheduleNeeded, panic >>
  BY DEF Call
<1>2. Holds(list, Ready) /\ Ready' = Ready
  BY <1>1 DEF IInv, AtRest, Ready
<1>3. CallKnows'
  BY <1>1 DEF CallKnows
<1>4. Running'
  BY <1>1 DEF IInv, Running, Dequeueing, Enqueueing
<1>5. CASE first = "skipNext"
  <2>1. DequeueStage(list)'
    BY <1>1, <1>5 DEF DequeueStage
  <2>2. Holds(list, Ready)'
    BY <1>1, <1>2
  <2> QED BY <1>1, <1>3, <1>4, <1>5, <2>1, <2>2
          DEF IInv, AtRest, InDequeue, InEnqueue, InSetState, Dequeueing,
              Enqueueing
<1>6. CASE first = "argument"
  <2>1. EnqueueStage(list)'
    BY <1>1, <1>6 DEF EnqueueStage
  <2>2. Ready \ {x} = Ready
    BY <1>6 DEF Ready
  <2>3. Holds(list, Ready \ {t})'
    BY <1>1, <1>2, <2>2
  <2> QED BY <1>1, <1>3, <1>4, <1>6, <2>1, <2>3
          DEF IInv, AtRest, InDequeue, InEnqueue, InSetState, Dequeueing,
              Enqueueing
<1> QED BY <1>5, <1>6

\* The list is whole, and somebody is chosen to run or nobody is.
LEMMA WholeStep ==
  ASSUME pc' = "none", Running', Holds(list', Ready')
  PROVE  IInv'
BY DEF IInv, AtRest, InDequeue, InEnqueue, InSetState, Dequeueing, Enqueueing

LEMMA RescheduleStep ==
  ASSUME PointersDiffer, IInv, pc = "none", pc' = "none",
         NEW l, NEW st \in [AllThreads -> States], list' = l, state' = st,
         Holds(l, {x \in AllThreads : st[x] = "EReady"}), Reschedule(l, st)
  PROVE  IInv'
<1>1. /\ panic' = "none" /\ currentThread' \in Pointers
      /\ mode' = "usr" =>
           currentThread' \in Threads /\ st[currentThread'] = "EReady"
      /\ mode' = "dfc" => st[DfcThread] = "EReady"
      /\ mode' # "svc"
  BY RescheduleIs
<1>2. Running'
  BY <1>1 DEF Running
<1>3. Holds(list', Ready')
  BY DEF Ready
<1> QED BY <1>2, <1>3, WholeStep

LEMMA KernelSteps == ASSUME PointersDiffer, IInv, Kernel PROVE IInv'
<1>1. /\ panic = "none" /\ state \in [AllThreads -> States]
      /\ mode = "usr" =>
           currentThread \in Threads /\ state[currentThread] = "EReady"
      /\ mode = "dfc" => state[DfcThread] = "EReady"
      /\ pc = "none" => Holds(list, Ready)
  BY DEF IInv, Running, AtRest
<1>2. CASE SvcYield
  BY <1>1, <1>2, CallStep DEF SvcYield, Runs
<1>3. CASE SvcBlock
  BY <1>1, <1>3, CallStep DEF SvcBlock, Runs
<1>4. CASE SvcSignal
  <2>1. PICK x \in Threads :
          state[x] = "EWaitForRequest" /\ Call("argument", x, "EReady")
    BY <1>4 DEF SvcSignal, Signal
  <2>2. /\ pc = "none" /\ mode' = "svc" /\ state[x] # "EReady"
        /\ currentThread \in Threads /\ state[currentThread] = "EReady"
    BY <2>1, <1>1, <1>4 DEF SvcSignal, Runs
  <2> QED BY <2>1, <2>2, CallStep
<1>5. CASE DfcSignal
  <2>1. PICK x \in Threads :
          state[x] = "EWaitForRequest" /\ Call("argument", x, "EReady")
    BY <1>5 DEF DfcSignal, Signal
  <2> QED BY <2>1, <1>5, CallStep DEF DfcSignal, Runs
<1>6. CASE DfcsDone
  <2> DEFINE st == [state EXCEPT ![DfcThread] = "EBlockedFromSvc"]
             l == Dequeued(list, DfcThread)
  <2>1. pc = "none" /\ DfcThread \in Ready /\ Holds(list, Ready)
    BY <1>1, <1>6 DEF DfcsDone, Runs, Ready, AllThreads
  <2>2. /\ Holds(l, Ready \ {DfcThread})
        /\ list.prev[DfcThread] # NULL /\ list.next[DfcThread] # NULL
    BY <2>1, HoldsDequeued
  <2>3. st \in [AllThreads -> States]
    BY <1>1 DEF States
  <2>4. {x \in AllThreads : st[x] = "EReady"} = Ready \ {DfcThread}
    BY <1>1 DEF Ready, AllThreads
  <2>5. list' = l /\ state' = st /\ Reschedule(l, st) /\ pc' = "none"
    BY <1>6, <2>1, <2>2 DEF DfcsDone, call
  <2> HIDE DEF st, l
  <2> QED BY <2>1, <2>2, <2>3, <2>4, <2>5, RescheduleStep
<1>7. CASE SvcEnd
  <2>1. pc = "none" /\ pc' = "none" /\ list' = list /\ state' = state
    BY <1>7 DEF SvcEnd, Runs, call
  <2>2. CASE Reschedule(list, state)
    <3>1. Holds(list, {x \in AllThreads : state[x] = "EReady"})
      BY <1>1, <2>1 DEF Ready
    <3> QED BY <3>1, <2>1, <2>2, <1>1, RescheduleStep
  <2>3. CASE /\ ~leaves /\ ~rescheduleNeeded
             /\ mode' = "usr"
             /\ UNCHANGED << currentThread, leaves, expired,
                             rescheduleNeeded, panic >>
    <3>1. currentThread \in Threads /\ state[currentThread] = "EReady"
      BY <2>3, <1>7 DEF IInv, Running, SvcEnd, Runs
    <3>2. Running' /\ Ready' = Ready
      BY <3>1, <2>1, <2>3 DEF IInv, Running, Ready
    <3>3. Holds(list', Ready')
      BY <3>2, <2>1, <1>1
    <3> QED BY <2>1, <3>2, <3>3, WholeStep
  <2> QED BY <2>1, <2>2, <2>3, <1>7 DEF SvcEnd
<1>8. CASE IdleLoop
  <2>1. /\ pc = "none" /\ pc' = "none" /\ list' = list /\ state' = state
        /\ Reschedule(list, state)
    BY <1>8 DEF IdleLoop, Runs, call
  <2>2. Holds(list, {x \in AllThreads : state[x] = "EReady"})
    BY <1>1, <2>1 DEF Ready
  <2> QED BY <2>1, <2>2, <1>1, RescheduleStep
<1> QED BY <1>2, <1>3, <1>4, <1>5, <1>6, <1>7, <1>8 DEF Kernel

LEMMA TickStep == ASSUME PointersDiffer, IInv, pc = "none", IrqTick PROVE IInv'
<1> DEFINE x == currentThread
           d == Dequeued(list, x)
           b == LastOf(d)
           y == Yielded(list, x)
<1>1. /\ state \in [AllThreads -> States] /\ x \in Ready
      /\ Holds(list, Ready)
  BY DEF IInv, Running, AtRest, IrqTick, Ready, Pointers
<1>2. /\ Holds(d, Ready \ {x})
      /\ list.prev[x] # NULL /\ list.next[x] # NULL
  BY <1>1, HoldsDequeued
<1>3. x \in AllThreads /\ x \notin Ready \ {x} /\ (Ready \ {x}) \cup {x} = Ready
  BY <1>1 DEF Ready
<1> HIDE DEF d
<1>4. /\ Holds(LinkedBack(d, x), (Ready \ {x}) \cup {x})
      /\ b # NULL => d.prev[b] # NULL
  <2> HIDE DEF x
  <2> QED BY <1>2, <1>3, HoldsLinkedBack
<1>5. y = LinkedBack(d, x)
  BY DEF Yielded, LinkedBack, d
<1>6. Holds(y, Ready)
  BY <1>3, <1>4, <1>5
<1>7. /\ list' = y /\ state' = state /\ call' = call
      /\ \/ Reschedule(y, state)
         \/ mode # "usr" /\ UNCHANGED << currentThread, mode, leaves, panic >>
  BY <1>2, <1>4 DEF IrqTick, d
<1>8. pc' = "none"
  BY <1>7 DEF call
<1> HIDE DEF y
<1>9. CASE Reschedule(y, state)
  <2>1. Holds(y, {z \in AllThreads : state[z] = "EReady"})
    BY <1>6 DEF Ready
  <2> QED BY <1>1, <1>7, <1>8, <1>9, <2>1, RescheduleStep
<1>10. CASE mode # "usr" /\ UNCHANGED << currentThread, mode, leaves, panic >>
  <2>1. Running' /\ Ready' = Ready
    BY <1>7, <1>8, <1>10 DEF IInv, Running, Ready
  <2> QED BY <1>6, <1>7, <1>8, <2>1, WholeStep
<1> QED BY <1>7, <1>9, <1>10

LEMMA CheckDfcsStep ==
  ASSUME PointersDiffer, IInv, pc = "none", IrqCheckDfcs
  PROVE  IInv'
<1> DEFINE l  == MadeReady(list, DfcThread)
           st == [state EXCEPT ![DfcThread] = "EReady"]
<1>1. /\ state \in [AllThreads -> States] /\ DfcThread \in AllThreads
      /\ DfcThread \notin Ready /\ Holds(list, Ready)
  BY DEF IInv, Running, AtRest, IrqCheckDfcs, Ready, AllThreads
<1>2. /\ Holds(l, Ready \cup {DfcThread}) /\ Unlinked(list, DfcThread)
      /\ list.head # NULL => list.prev[list.head] # NULL
  BY <1>1, HoldsMadeReady
<1>3. st \in [AllThreads -> States]
  BY <1>1 DEF States
<1>4. {x \in AllThreads : st[x] = "EReady"} = Ready \cup {DfcThread}
  BY <1>1 DEF Ready
<1>5. /\ list' = l /\ state' = st /\ call' = call
      /\ \/ Reschedule(l, st)
         \/ mode # "usr" /\ UNCHANGED << currentThread, mode, leaves, panic >>
  BY <1>2 DEF IrqCheckDfcs, IrqReturn
<1>6. pc' = "none"
  BY <1>5 DEF call
<1>7. \A x \in AllThreads : state[x] = "EReady" => st[x] = "EReady"
  BY <1>1
<1>8. st[DfcThread] = "EReady"
  BY <1>1
<1> HIDE DEF l, st
<1>9. CASE Reschedule(l, st)
  <2>1. Holds(l, {x \in AllThreads : st[x] = "EReady"})
    BY <1>2, <1>4
  <2> QED BY <1>3, <1>5, <1>6, <1>9, <2>1, RescheduleStep
<1>10. CASE mode # "usr" /\ UNCHANGED << currentThread, mode, leaves, panic >>
  <2>1. Running'
    BY <1>3, <1>5, <1>6, <1>7, <1>8, <1>10 DEF IInv, Running, AllThreads
  <2>2. Ready' = Ready \cup {DfcThread}
    BY <1>4, <1>5 DEF Ready
  <2> QED BY <1>2, <1>5, <1>6, <2>1, <2>2, WholeStep
<1> QED BY <1>5, <1>9, <1>10

LEMMA StutterStep == ASSUME IInv, UNCHANGED vars PROVE IInv'
<1>1. /\ list' = list /\ state' = state /\ pc' = pc /\ t' = t
      /\ before' = before /\ to' = to /\ currentThread' = currentThread
      /\ mode' = mode /\ leaves' = leaves /\ panic' = panic
  BY DEF vars, call, cpu
<1>2. Running' /\ Ready' = Ready /\ (CallKnows => CallKnows')
  BY <1>1 DEF IInv, Running, Ready, CallKnows
<1>3. \A l : /\ DequeueStage(l) => DequeueStage(l)'
             /\ EnqueueStage(l) => EnqueueStage(l)'
  BY <1>1 DEF DequeueStage, EnqueueStage, Arg
<1> QED BY <1>1, <1>2, <1>3 DEF IInv, AtRest, InDequeue, InEnqueue, InSetState

\* With interrupts disabled in thread_yield and thread_setState the list is that
\* of the ready threads whenever they are not at work on it, and no assertion
\* fails and no null pointer is followed (k/scheduler.c), for any threads.
THEOREM QuietListIsReady ==
  ASSUME PointersDiffer
  PROVE  QuietSpec => []ListIsReadyThreads
<1>1. Init => IInv
  BY InitIInv
<1>2. IInv /\ [QuietNext]_vars => IInv'
  <2>1. ASSUME IInv, Statement PROVE IInv'
    BY <2>1, DequeueSteps, EnqueueSteps, SetStateStep DEF Statement
  <2>2. ASSUME IInv, pc = "none" /\ Interrupt PROVE IInv'
    BY <2>2, TickStep, CheckDfcsStep DEF Interrupt
  <2> QED BY <2>1, <2>2, KernelSteps, StutterStep DEF QuietNext
<1>3. IInv => ListIsReadyThreads
  BY DEF IInv, Running, AtRest, Holds, Ready, ListIsReadyThreads
<1> QED BY <1>1, <1>2, <1>3, PTL DEF QuietSpec
=============================================================================
