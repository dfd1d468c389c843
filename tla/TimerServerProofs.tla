------------------------- MODULE TimerServerProofs -------------------------
(***************************************************************************)
(* That a timer completes once and never early, that a request is         *)
(* completed once and that the kernel knows the earliest timer, for any   *)
(* clients and waits; and that the server implements TimerSpec.           *)
(***************************************************************************)
EXTENDS TimerServer, FiniteSetTheorems, SequenceTheorems, WellFoundedInduction,
        TLAPS

Taken == "taken" \in raced

\* Nothing has been done to the count of completed requests.
CountIsRight == raced \subseteq {"missed"}

-----------------------------------------------------------------------------
(* The inductive invariant                                                 *)

\* The message that is handled, and the SVC, are those of the step of the
\* server, and the iterator is not past the list.
StepsKnow ==
  /\ prog \in {"wait", "iterate", "timerExpired", "complete"} => msg = None
  /\ prog \in {"after", "queue"} => msg \in Clients
  /\ svc.step = "idle" => svc = Idle
  /\ svc.step # "idle" => prog \in {"iterate", "queue"}
  /\ prog # "wait" => at <= Len(pending) + 1
  /\ prog # "complete" => completed = << >>
  /\ svc.step = "store" /\ "missed" \notin raced => uptime < svc.time

\* The run loop has every request but the one that is handled; the request of
\* the timer it may have lost to an error.
PendingKnows ==
  /\ msg # None => msg \notin Range(pending)
  /\ \A c \in Clients : c = msg \/ c \in Range(pending)
  /\ prog \in {"timerExpired", "complete"} => Timer \notin Range(pending)
  /\ ~Taken /\ prog \notin {"timerExpired", "complete"} => Timer \in Range(pending)

Owners(s) == {s[i].client : i \in DOMAIN s}

\* No two of the timers are of one client.
Single(s) == \A i, j \in DOMAIN s : s[i].client = s[j].client => i = j

Handled == IF prog = "after" THEN {msg} ELSE {}
Sent == flagged \ {Timer}

\* The clients that wait are those of a message, or of a timer, and of one.
ClientsKnow ==
  /\ Single(timers) /\ Single(completed)
  /\ \A c \in Clients :
       due[c] # -1 <=> c \in Sent \cup Handled \cup Owners(timers) \cup Owners(completed)
  /\ Sent \cap (Handled \cup Owners(timers) \cup Owners(completed)) = {}
  /\ Handled \cap (Owners(timers) \cup Owners(completed)) = {}
  /\ Owners(timers) \cap Owners(completed) = {}
  /\ prog \in {"setTimer", "queue"} /\ msg # None => msg \in Owners(timers)

\* No timer is due before its client expects the answer, and those taken out of
\* the array are due.
TimesKnow ==
  /\ InOrder(timers)
  /\ \A c \in Sent \cup Handled : due[c] <= uptime + wants[c]
  /\ \A i \in DOMAIN timers : timers[i].time >= due[timers[i].client]
  /\ \A i \in DOMAIN completed :
       due[completed[i].client] <= completed[i].time /\ completed[i].time <= uptime

\* The kernel has the timer's request, or has it to complete, or has completed
\* it; or the server is at work on it.
RequestKnows ==
  /\ svc.step # "idle" \/ timerTime # Never => userPtr
  /\ svc.step = "complete" => timerTime = Never
  /\ userPtr => dfcs = << >>
  /\ dfcs \in {<< >>, << TRUE >>}
  /\ Timer \in flagged => ~userPtr /\ dfcs = << >>
  /\ prog \in {"timerExpired", "complete"} \/ (prog = "setTimer" /\ msg = None) =>
       ~userPtr /\ dfcs = << >> /\ Timer \notin flagged

\* The elements of s from i on.
From(s, i) == {s[k] : k \in i..Len(s)}

\* What the run loop has still to look at.
Rest == From(pending, at)

\* The requests that the loop was told of are ahead of it.
CountKnows ==
  /\ completedRequests + numReqs + Cardinality(calling) = Cardinality(flagged)
  /\ prog = "wait" => numReqs = 0
  /\ prog # "wait" => numReqs <= Cardinality(flagged \cap Rest)

Armed ==
  /\ svc = Idle /\ userPtr
  /\ timerTime = timers[1].time /\ uptime < timerTime

Arming == svc.step # "idle" /\ svc.time = timers[1].time

ArmedKnows ==
  prog \notin {"timerExpired", "complete", "setTimer"} /\ timers # << >> =>
    Armed \/ Arming \/ dfcs # << >> \/ Timer \in flagged

IInv ==
  /\ TypeOK
  /\ StepsKnow
  /\ PendingKnows
  /\ ClientsKnow
  /\ TimesKnow
  /\ ~Taken => RequestKnows
  /\ CountIsRight => CountKnows
  /\ raced = {} => ArmedKnows
  /\ panic # "none" => Taken

-----------------------------------------------------------------------------
(* Times and requests                                                      *)

\* A time that is asked for is one the clock may not reach, but no marker.
LEMMA NeverIs ==
  /\ MaxTime \in Nat /\ Never \in Nat /\ MaxTime < Never
  /\ \A w \in Waits : w \in Nat /\ MaxTime + w < Never
<1> DEFINE m == CHOOSE m \in Waits : \A w \in Waits : w <= m
<1>1. m \in Waits /\ \A w \in Waits : w <= m
  BY TimerServerAssumption
<1>2. m \in Nat /\ MaxTime \in Nat /\ Never = MaxTime + 1 + m
  BY <1>1, TimerServerAssumption DEF Never
<1> HIDE DEF m
<1>3. \A w \in Waits : w \in Nat
  BY TimerServerAssumption
<1> QED BY <1>1, <1>2, <1>3

LEMMA RequestsAre ==
  /\ IsFiniteSet(Requests) /\ Cardinality(Requests) \in Nat
  /\ Timer \in Requests /\ Timer \notin Clients
  /\ Clients \subseteq Requests /\ None \notin Clients
  /\ \A r \in Requests : r = Timer \/ r \in Clients
<1>1. IsFiniteSet(Clients) /\ Timer \notin Clients /\ None \notin Clients
  BY TimerServerAssumption
<1>2. IsFiniteSet(Clients \cup {Timer})
  BY <1>1, FS_AddElement
<1>3. Cardinality(Requests) \in Nat
  BY <1>2, FS_CardinalityType DEF Requests
<1> QED BY <1>1, <1>2, <1>3 DEF Requests

-----------------------------------------------------------------------------
(* The list of the run loop                                                *)

\* A list without repetitions has as many elements as there are requests.
LEMMA NotLonger ==
  ASSUME NEW S, IsFiniteSet(S), NEW s \in Seq(S), IsInjective(s)
  PROVE  Len(s) <= Cardinality(S)
<1>1. Len(s) \in Nat /\ s \in [1..Len(s) -> S] /\ DOMAIN s = 1..Len(s)
  OBVIOUS
<1>2. s \in Injection(1..Len(s), S)
  BY <1>1 DEF IsInjective, Injection
<1>3. Cardinality(1..Len(s)) <= Cardinality(S)
  BY <1>2, FS_Injection
<1>4. Cardinality(1..Len(s)) = Len(s)
  <2>1. Cardinality(1..Len(s)) = IF 1 > Len(s) THEN 0 ELSE Len(s) - 1 + 1
    BY <1>1, FS_Interval
  <2> QED BY <1>1, <2>1
<1> QED BY <1>3, <1>4

\* What is queued is behind all that the loop has still to look at.
LEMMA QueueIs ==
  ASSUME NEW S, NEW s \in Seq(S), NEW x \in S, NEW k \in Nat \ {0},
         k <= Len(s) + 1
  PROVE  /\ Append(s, x) \in Seq(S) /\ Len(Append(s, x)) = Len(s) + 1
         /\ Range(Append(s, x)) = Range(s) \cup {x}
         /\ From(Append(s, x), k) = From(s, k) \cup {x}
         /\ IsInjective(s) /\ x \notin Range(s) => IsInjective(Append(s, x))
<1> DEFINE t == Append(s, x)
           n == Len(s)
<1>1. /\ n \in Nat /\ DOMAIN s = 1..n /\ DOMAIN t = 1..(n + 1)
      /\ Len(t) = n + 1 /\ t \in Seq(S)
      /\ \A i \in 1..n : t[i] = s[i]
      /\ t[n + 1] = x
  OBVIOUS
<1> HIDE DEF t, n
<1>2. /\ \A i \in 1..(n + 1) : i \in 1..n \/ i = n + 1
      /\ \A i \in 1..n : i \in 1..(n + 1)
      /\ n + 1 \in 1..(n + 1)
  BY <1>1
<1>3. Range(t) = Range(s) \cup {x}
  BY <1>1, <1>2 DEF Range
<1>4. From(t, k) = From(s, k) \cup {x}
  <2>0. k <= n + 1
    BY DEF n
  <2>1. /\ \A i \in k..(n + 1) : (i \in k..n /\ i \in 1..n) \/ i = n + 1
        /\ \A i \in k..n : i \in k..(n + 1) /\ i \in 1..n
        /\ n + 1 \in k..(n + 1)
    BY <1>1, <2>0
  <2>2. From(t, k) = {t[i] : i \in k..(n + 1)} /\ From(s, k) = {s[i] : i \in k..n}
    BY <1>1 DEF From, n
  <2> QED BY <1>1, <2>1, <2>2
<1>5. ASSUME IsInjective(s), x \notin Range(s) PROVE IsInjective(t)
  <2>1. \A i \in 1..n : s[i] # x
    BY <1>1, <1>5 DEF Range
  <2> QED BY <1>1, <1>2, <1>5, <2>1 DEF IsInjective
<1> QED BY <1>1, <1>3, <1>4, <1>5 DEF t, n

\* A request that is taken out at k leaves those behind it to be looked at.
LEMMA TakenOutIs ==
  ASSUME NEW S, NEW s \in Seq(S), NEW k \in 1..Len(s), IsInjective(s)
  PROVE  /\ RemoveAt(s, k) \in Seq(S) /\ Len(RemoveAt(s, k)) = Len(s) - 1
         /\ IsInjective(RemoveAt(s, k))
         /\ Range(RemoveAt(s, k)) = Range(s) \ {s[k]}
         /\ From(RemoveAt(s, k), k) = From(s, k) \ {s[k]}
         /\ s[k] \in From(s, k)
<1> DEFINE t == RemoveAt(s, k)
           n == Len(s)
           a == SubSeq(s, 1, k - 1)
           b == SubSeq(s, k + 1, n)
<1>1. /\ a \in Seq(S) /\ Len(a) = k - 1
      /\ \A j \in 1..(k - 1) : a[j] = s[j]
  OBVIOUS
<1>2. /\ b \in Seq(S) /\ Len(b) = n - k
      /\ \A j \in 1..(n - k) : b[j] = s[k + j]
  OBVIOUS
<1>3. t = a \o b /\ k \in Nat \ {0} /\ k <= n /\ n \in Nat
  BY DEF RemoveAt
<1>a. DOMAIN s = 1..n
  OBVIOUS
<1> HIDE DEF a, b, t, n
<1>4. t \in Seq(S) /\ Len(t) = n - 1
  <2>1. a \o b \in Seq(S) /\ Len(a \o b) = Len(a) + Len(b)
    BY <1>1, <1>2, ConcatProperties
  <2> QED BY <1>1, <1>2, <1>3, <2>1
<1>5. \A j \in 1..(k - 1) : t[j] = s[j]
  BY <1>1, <1>2, <1>3
<1>6. \A j \in k..(n - 1) : t[j] = s[j + 1]
  <2> SUFFICES ASSUME NEW j \in k..(n - 1) PROVE t[j] = s[j + 1]
    OBVIOUS
  <2>1. t[j] = b[j - Len(a)] /\ j - Len(a) = j - k + 1 /\ j - k + 1 \in 1..(n - k)
    BY <1>1, <1>2, <1>3
  <2>2. b[j - k + 1] = s[k + (j - k + 1)] /\ k + (j - k + 1) = j + 1
    BY <1>2, <1>3, <2>1
  <2> QED BY <2>1, <2>2
<1>7. DOMAIN t = 1..(n - 1)
  BY <1>4
<1> DEFINE Old(j) == IF j < k THEN j ELSE j + 1
<1>8. /\ \A j \in 1..(n - 1) : Old(j) \in 1..n /\ Old(j) # k /\ t[j] = s[Old(j)]
      /\ \A i, j \in 1..(n - 1) : Old(i) = Old(j) => i = j
      /\ \A i \in 1..n : i # k => \E j \in 1..(n - 1) : Old(j) = i
      /\ \A j \in k..(n - 1) : Old(j) \in k..n /\ j \in 1..(n - 1)
      /\ \A i \in k..n : i # k => \E j \in k..(n - 1) : Old(j) = i
  <2>1. \A j \in 1..(n - 1) : Old(j) \in 1..n /\ Old(j) # k
    BY <1>3
  <2>2. ASSUME NEW j \in 1..(n - 1) PROVE t[j] = s[Old(j)]
    <3>1. CASE j < k
      BY <3>1, <1>3, <1>5, j \in 1..(k - 1)
    <3>2. CASE ~(j < k)
      BY <3>2, <1>3, <1>6, j \in k..(n - 1)
    <3> QED BY <3>1, <3>2
  <2>3. \A i, j \in 1..(n - 1) : Old(i) = Old(j) => i = j
    BY <1>3
  <2>4. ASSUME NEW i \in 1..n, i # k PROVE \E j \in 1..(n - 1) : Old(j) = i
    <3>1. CASE i < k
      BY <3>1, <1>3, i \in 1..(n - 1)
    <3>2. CASE ~(i < k)
      BY <3>2, <2>4, <1>3, i - 1 \in 1..(n - 1), Old(i - 1) = i
    <3> QED BY <3>1, <3>2
  <2>5. \A j \in k..(n - 1) : Old(j) \in k..n /\ j \in 1..(n - 1)
    BY <1>3
  <2>6. ASSUME NEW i \in k..n, i # k PROVE \E j \in k..(n - 1) : Old(j) = i
    BY <2>6, <1>3, i - 1 \in k..(n - 1), Old(i - 1) = i
  <2> QED BY <2>1, <2>2, <2>3, <2>4, <2>5, <2>6
<1> HIDE DEF Old
<1>9. \A i, j \in 1..n : s[i] = s[j] => i = j
  BY <1>a DEF IsInjective
<1>10. k \in 1..n /\ k \in k..n /\ \A i \in k..n : i \in 1..n
  BY <1>3
<1>11. IsInjective(t)
  BY <1>7, <1>8, <1>9 DEF IsInjective
<1>12. Range(t) = Range(s) \ {s[k]}
  <2>1. \A j \in 1..(n - 1) : t[j] \in Range(s) \ {s[k]}
    BY <1>8, <1>9, <1>10, <1>a DEF Range
  <2>2. ASSUME NEW i \in 1..n, s[i] # s[k] PROVE \E j \in 1..(n - 1) : t[j] = s[i]
    <3>1. PICK j \in 1..(n - 1) : Old(j) = i
      BY <1>8, <2>2
    <3>2. t[j] = s[Old(j)]
      BY <1>8
    <3> QED BY <3>1, <3>2
  <2>3. Range(t) = {t[j] : j \in 1..(n - 1)} /\ Range(s) = {s[i] : i \in 1..n}
    BY <1>7, <1>a DEF Range
  <2> QED BY <2>1, <2>2, <2>3
<1>13. From(t, k) = From(s, k) \ {s[k]}
  <2>1. From(t, k) = {t[j] : j \in k..(n - 1)} /\ From(s, k) = {s[i] : i \in k..n}
    BY <1>4 DEF From, n
  <2>2. \A j \in k..(n - 1) : t[j] \in From(s, k) /\ t[j] # s[k]
    BY <1>8, <1>9, <1>10, <2>1
  <2>3. ASSUME NEW i \in k..n, s[i] # s[k] PROVE \E j \in k..(n - 1) : t[j] = s[i]
    <3>1. PICK j \in k..(n - 1) : Old(j) = i
      BY <1>8, <2>3
    <3> QED BY <1>8, <3>1
  <2> QED BY <2>1, <2>2, <2>3
<1>14. s[k] \in From(s, k)
  BY <1>10 DEF From, n
<1> QED BY <1>4, <1>11, <1>12, <1>13, <1>14 DEF t, n

-----------------------------------------------------------------------------
(* The array of the timers                                                 *)

\* The elements at the first indexes, and at the others.
LEMMA IntervalCount ==
  ASSUME NEW a \in Nat, NEW b \in Nat, a <= b + 1
  PROVE  Cardinality(a..b) = b + 1 - a
<1>1. a \in Int /\ b \in Int
  OBVIOUS
<1>2. Cardinality(a..b) = IF a > b THEN 0 ELSE b - a + 1
  BY <1>1, FS_Interval
<1> QED BY <1>2

\* The k-th of the numbers in I.
Place(I, k) == CHOOSE i \in I : Cardinality({j \in I : j <= i}) = k

LEMMA ElementsAtPlaces ==
  ASSUME NEW s, NEW I
  PROVE  ElementsAt(s, I) = [k \in 1..Cardinality(I) |-> s[Place(I, k)]]
BY DEF ElementsAt, Place

\* Counting the indexes of an interval up to one of them gives its place.
LEMMA PlaceIs ==
  ASSUME NEW a \in Nat, NEW b \in Nat, a <= b + 1, NEW k \in 1..(b + 1 - a)
  PROVE  Place(a..b, k) = a + k - 1
<1> DEFINE I == a..b
<1>1. ASSUME NEW i \in I PROVE Cardinality({j \in I : j <= i}) = i + 1 - a
  <2>1. {j \in I : j <= i} = a..i /\ i \in Nat /\ a <= i + 1
    OBVIOUS
  <2> QED BY <2>1, IntervalCount
<1>2. a + k - 1 \in I /\ (a + k - 1) + 1 - a = k
  OBVIOUS
<1>3. \A i \in I : i + 1 - a = k => i = a + k - 1
  OBVIOUS
<1> HIDE DEF I
<1>4. \A i \in I : Cardinality({j \in I : j <= i}) = k <=> i = a + k - 1
  BY <1>1, <1>2, <1>3
<1>5. Place(I, k) = a + k - 1
  BY <1>2, <1>4 DEF Place
<1> QED BY <1>5 DEF I

LEMMA ElementsAtFirst ==
  ASSUME NEW S, NEW s \in Seq(S), NEW m \in 0..Len(s)
  PROVE  ElementsAt(s, 1..m) = [k \in 1..m |-> s[k]]
<1>1. m \in Nat /\ 1 \in Nat /\ 1 <= m + 1 /\ m + 1 - 1 = m
  OBVIOUS
<1>2. Cardinality(1..m) = m
  BY <1>1, IntervalCount
<1>3. ASSUME NEW k \in 1..m
      PROVE  Place(1..m, k) = k
  <2>1. k \in 1..(m + 1 - 1) /\ 1 + k - 1 = k
    OBVIOUS
  <2> DEFINE one == 1
  <2>2. one \in Nat /\ one <= m + 1 /\ k \in 1..(m + 1 - one) /\ one + k - 1 = k
    BY <1>1, <2>1
  <2> HIDE DEF one
  <2>3. Place(one..m, k) = k
    BY <1>1, <2>2, PlaceIs
  <2> QED BY <2>3 DEF one
<1>4. ElementsAt(s, 1..m) = [k \in 1..Cardinality(1..m) |-> s[Place(1..m, k)]]
  BY ElementsAtPlaces
<1> QED BY <1>2, <1>3, <1>4

LEMMA ElementsAtLast ==
  ASSUME NEW S, NEW s \in Seq(S), NEW m \in 0..Len(s)
  PROVE  ElementsAt(s, (m + 1)..Len(s)) = [k \in 1..(Len(s) - m) |-> s[m + k]]
<1> DEFINE a == m + 1
           n == Len(s)
<1>1. a \in Nat /\ n \in Nat /\ a <= n + 1 /\ n + 1 - a = n - m
  OBVIOUS
<1>2. \A k \in 1..(n - m) : a + k - 1 = m + k
  OBVIOUS
<1> HIDE DEF a, n
<1>3. Cardinality(a..n) = n - m
  BY <1>1, IntervalCount
<1>4. ASSUME NEW k \in 1..(n - m)
      PROVE  Place(a..n, k) = m + k
  <2>1. k \in 1..(n + 1 - a)
    BY <1>1
  <2>2. Place(a..n, k) = a + k - 1
    BY <1>1, <2>1, PlaceIs
  <2> QED BY <1>2, <2>2
<1>5. ElementsAt(s, a..n) = [k \in 1..(n - m) |-> s[m + k]]
  <2>1. ElementsAt(s, a..n) = [k \in 1..Cardinality(a..n) |-> s[Place(a..n, k)]]
    BY ElementsAtPlaces
  <2> QED BY <1>3, <1>4, <2>1
<1> QED BY <1>5 DEF a, n

\* A set of numbers has a smallest.
LEMMA Smallest ==
  ASSUME NEW S \in SUBSET Nat, S # {}
  PROVE  \E m \in S : \A k \in S : m <= k
<1> DEFINE R == OpToRel(<, Nat)
<1>1. IsWellFoundedOn(R, Nat)
  BY NatLessThanWellFounded, Zenon
<1>2. R = {ss \in Nat \X Nat : ss[1] < ss[2]}
  BY Zenon DEF OpToRel
<1> HIDE DEF R
<1>3. PICK m \in S : \A k \in S : ~(<< k, m >> \in R)
  BY <1>1, WFMin
<1>4. \A k \in S : ~(k < m)
  BY <1>2, <1>3
<1> QED BY <1>4

\* The timers that are due are the first ones.
LEMMA DueFirst ==
  ASSUME TypeOK, InOrder(timers)
  PROVE  \E m \in 0..Len(timers) :
           /\ {i \in DOMAIN timers : IsDue(timers[i])} = 1..m
           /\ DOMAIN timers \ {i \in DOMAIN timers : IsDue(timers[i])}
                = (m + 1)..Len(timers)
<1> DEFINE n == Len(timers)
           Due(i) == IsDue(timers[i])
           N == {i \in 1..(n + 1) : i = n + 1 \/ ~Due(i)}
<1>1. n \in Nat /\ DOMAIN timers = 1..n
  BY DEF TypeOK
<1>2. \A i \in 1..n : timers[i].time \in Int
  <2>1. \A i \in 1..n : timers[i] \in TimerRecords
    BY DEF TypeOK
  <2> QED BY <2>1, NeverIs DEF TimerRecords, Times
<1>3. \A i, j \in 1..n : i < j /\ Due(j) => Due(i)
  <2>1. uptime \in Int
    BY NeverIs DEF TypeOK
  <2>2. \A i, j \in 1..n : i < j => timers[i].time <= timers[j].time
    BY <1>1 DEF InOrder
  <2> QED BY <1>2, <2>1, <2>2 DEF IsDue
<1> HIDE DEF n, Due
<1>4. N \in SUBSET Nat /\ n + 1 \in N
  BY <1>1
<1>5. PICK m \in N : \A k \in N : m <= k
  BY <1>4, Smallest
<1>6. m - 1 \in 0..n /\ m \in 1..(n + 1)
  BY <1>1, <1>5
<1>7. \A i \in 1..n : Due(i) <=> i < m
  <2>1. ASSUME NEW i \in 1..n, i < m PROVE Due(i)
    BY <2>1, <1>1, <1>5
  <2>2. ASSUME NEW i \in 1..n, Due(i) PROVE i < m
    <3>1. m \in 1..n => ~Due(m)
      BY <1>1, <1>5
    <3>2. SUFFICES ASSUME ~(i < m) PROVE FALSE
      OBVIOUS
    <3>3. m \in 1..n
      BY <1>1, <1>6, <3>2
    <3>4. m < i
      BY <1>6, <2>2, <3>1, <3>2, <3>3
    <3> QED BY <1>3, <2>2, <3>1, <3>3, <3>4
  <2> QED BY <2>1, <2>2
<1>8. {i \in 1..n : Due(i)} = 1..(m - 1)
  BY <1>1, <1>6, <1>7
<1>9. 1..n \ {i \in 1..n : Due(i)} = ((m - 1) + 1)..n
  BY <1>1, <1>6, <1>7
<1> HIDE DEF N
<1> QED BY <1>1, <1>6, <1>8, <1>9 DEF n, Due

\* Two parts of an array of timers, each of them in the array's order, have its
\* timers.
LEMMA SplitIs ==
  ASSUME NEW s \in Seq(TimerRecords), NEW m \in 0..Len(s),
         NEW a \in Seq(TimerRecords), NEW b \in Seq(TimerRecords),
         DOMAIN a = 1..m, \A k \in 1..m : a[k] = s[k],
         DOMAIN b = 1..(Len(s) - m), \A k \in 1..(Len(s) - m) : b[k] = s[m + k]
  PROVE  /\ Owners(s) = Owners(a) \cup Owners(b)
         /\ Single(s) => /\ Single(a) /\ Single(b)
                         /\ Owners(a) \cap Owners(b) = {}
         /\ InOrder(s) => InOrder(b)
<1> DEFINE n == Len(s)
<1>1. /\ n \in Nat /\ m \in Nat /\ m <= n /\ n - m \in Nat
      /\ DOMAIN s = 1..n
      /\ \A k \in 1..n : s[k] \in TimerRecords
  OBVIOUS
<1> HIDE DEF n
<1>2. /\ \A k \in 1..m : k \in 1..n
      /\ \A k \in 1..(n - m) : m + k \in 1..n /\ ~(m + k \in 1..m)
      /\ \A i \in 1..n : i \in 1..m \/ (i - m \in 1..(n - m) /\ m + (i - m) = i)
      /\ \A i, j \in 1..(n - m) : (i < j => m + i < m + j) /\ (m + i = m + j => i = j)
  BY <1>1
<1>4. /\ DOMAIN a = 1..m /\ DOMAIN b = 1..(n - m)
      /\ \A k \in 1..m : a[k] = s[k]
      /\ \A k \in 1..(n - m) : b[k] = s[m + k]
  BY DEF n
<1>3. /\ Owners(s) = {s[i].client : i \in 1..n}
      /\ Owners(a) = {a[i].client : i \in 1..m}
      /\ Owners(b) = {b[i].client : i \in 1..(n - m)}
  BY <1>1, <1>4, Zenon DEF Owners
<1>5. Owners(s) = Owners(a) \cup Owners(b)
  <2>1. \A i \in 1..n : s[i].client \in Owners(a) \cup Owners(b)
    <3> SUFFICES ASSUME NEW i \in 1..n PROVE s[i].client \in Owners(a) \cup Owners(b)
      OBVIOUS
    <3>1. CASE i \in 1..m
      BY <3>1, <1>4 DEF Owners
    <3>2. CASE i - m \in 1..(n - m) /\ m + (i - m) = i
      <4>1. b[i - m] = s[i]
        BY <3>2, <1>4
      <4> QED BY <3>2, <4>1, <1>4 DEF Owners
    <3> QED BY <1>2, <3>1, <3>2
  <2>2. \A k \in 1..m : a[k].client \in Owners(s)
    BY <1>1, <1>2, <1>4 DEF Owners
  <2>3. ASSUME NEW k \in 1..(n - m) PROVE b[k].client \in Owners(s)
    <3>1. m + k \in 1..n /\ b[k] = s[m + k]
      BY <1>2, <1>4
    <3> QED BY <1>1, <3>1 DEF Owners
  <2>4. \A c \in Owners(s) : c \in Owners(a) \cup Owners(b)
    BY <2>1, <1>3
  <2>5. \A c \in Owners(a) : c \in Owners(s)
    BY <2>2, <1>3
  <2>6. \A c \in Owners(b) : c \in Owners(s)
    BY <2>3, <1>3
  <2> QED BY <2>4, <2>5, <2>6
<1>6. ASSUME Single(s) PROVE Single(a) /\ Single(b) /\ Owners(a) \cap Owners(b) = {}
  <2>1. \A i, j \in 1..n : s[i].client = s[j].client => i = j
    BY <1>1, <1>6 DEF Single
  <2>2. Single(a)
    BY <1>2, <1>4, <2>1 DEF Single
  <2>3. Single(b)
    <3> SUFFICES ASSUME NEW i \in 1..(n - m), NEW j \in 1..(n - m),
                        b[i].client = b[j].client
                 PROVE  i = j
      BY <1>4 DEF Single
    <3>1. m + i \in 1..n /\ m + j \in 1..n /\ s[m + i].client = s[m + j].client
      BY <1>2, <1>4
    <3>2. m + i = m + j
      BY <2>1, <3>1
    <3> QED BY <1>2, <3>2
  <2>4. ASSUME NEW i \in 1..m, NEW j \in 1..(n - m) PROVE a[i].client # b[j].client
    <3>1. i \in 1..n /\ m + j \in 1..n /\ i # m + j
      BY <1>2
    <3>2. a[i] = s[i] /\ b[j] = s[m + j]
      BY <1>4
    <3> QED BY <2>1, <3>1, <3>2
  <2>5. Owners(a) \cap Owners(b) = {}
    BY <1>3, <2>4
  <2> QED BY <2>2, <2>3, <2>5
<1>7. ASSUME InOrder(s) PROVE InOrder(b)
  <2>1. \A i, j \in 1..n : i < j => s[i].time <= s[j].time
    BY <1>1, <1>7 DEF InOrder
  <2> SUFFICES ASSUME NEW i \in 1..(n - m), NEW j \in 1..(n - m), i < j
               PROVE  b[i].time <= b[j].time
    BY <1>4 DEF InOrder
  <2>2. m + i \in 1..n /\ m + j \in 1..n /\ m + i < m + j
    BY <1>2
  <2>3. b[i] = s[m + i] /\ b[j] = s[m + j]
    BY <1>4
  <2> QED BY <2>1, <2>2, <2>3
<1> QED BY <1>5, <1>6, <1>7

\* A timer in front of the others.
LEMMA InFrontIs ==
  ASSUME NEW s \in Seq(TimerRecords), NEW t \in TimerRecords
  PROVE  /\ << t >> \o s \in Seq(TimerRecords)
         /\ << t >> \o s # << >> /\ (<< t >> \o s)[1] = t
         /\ Range(<< t >> \o s) = Range(s) \cup {t}
         /\ Owners(<< t >> \o s) = Owners(s) \cup {t.client}
         /\ Single(s) /\ t.client \notin Owners(s) => Single(<< t >> \o s)
         /\ InOrder(s) /\ (s # << >> => t.time <= s[1].time)
              => InOrder(<< t >> \o s)
<1> DEFINE u == << t >> \o s
           n == Len(s)
<1>1. /\ n \in Nat /\ DOMAIN s = 1..n /\ DOMAIN u = 1..(n + 1)
      /\ u \in Seq(TimerRecords) /\ u[1] = t
      /\ \A i \in 1..n : u[i + 1] = s[i]
  OBVIOUS
<1>a. u # << >>
  BY <1>1
<1>0. /\ \A i \in 1..n : s[i].time \in Int
      /\ t.time \in Int /\ (s # << >> => n # 0)
  <2>1. \A i \in 1..n : s[i] \in TimerRecords
    OBVIOUS
  <2> QED BY <2>1, NeverIs DEF TimerRecords, Times
<1> HIDE DEF u, n
<1>2. /\ \A i \in 1..(n + 1) : i = 1 \/ (i - 1 \in 1..n /\ (i - 1) + 1 = i)
      /\ \A i \in 1..n : i + 1 \in 1..(n + 1)
      /\ 1 \in 1..(n + 1)
  BY <1>1
<1>3. \A i \in 1..(n + 1) : i = 1 \/ u[i] = s[i - 1]
  BY <1>1, <1>2
<1>4. Range(u) = Range(s) \cup {t}
  <2>1. \A i \in 1..(n + 1) : u[i] \in Range(s) \cup {t}
    BY <1>1, <1>2, <1>3 DEF Range
  <2>2. \A i \in 1..n : s[i] \in Range(u)
    BY <1>1, <1>2 DEF Range
  <2>3. t \in Range(u)
    BY <1>1, <1>2 DEF Range
  <2> QED BY <1>1, <2>1, <2>2, <2>3 DEF Range
<1>5. Owners(u) = Owners(s) \cup {t.client}
  <2>1. \A i \in 1..(n + 1) : u[i].client \in Owners(s) \cup {t.client}
    BY <1>1, <1>2, <1>3 DEF Owners
  <2>2. \A i \in 1..n : s[i].client \in Owners(u)
    <3> SUFFICES ASSUME NEW i \in 1..n PROVE s[i].client \in Owners(u)
      OBVIOUS
    <3>1. i + 1 \in DOMAIN u /\ u[i + 1] = s[i]
      BY <1>1, <1>2
    <3> QED BY <3>1 DEF Owners
  <2>3. t.client \in Owners(u)
    BY <1>1, <1>2 DEF Owners
  <2> QED BY <1>1, <2>1, <2>2, <2>3 DEF Owners
<1>6. ASSUME Single(s), t.client \notin Owners(s) PROVE Single(u)
  <2>1. /\ \A i, j \in 1..n : s[i].client = s[j].client => i = j
        /\ \A i \in 1..n : s[i].client # t.client
    BY <1>1, <1>6 DEF Single, Owners
  <2> SUFFICES ASSUME NEW i \in 1..(n + 1), NEW j \in 1..(n + 1),
                      u[i].client = u[j].client
               PROVE  i = j
    BY <1>1 DEF Single
  <2>2. CASE i = 1 \/ j = 1
    BY <2>1, <2>2, <1>1, <1>2, <1>3
  <2>3. CASE i # 1 /\ j # 1
    <3>1. i - 1 \in 1..n /\ j - 1 \in 1..n /\ n \in Nat
      BY <2>3, <1>1
    <3>2. u[i] = s[i - 1] /\ u[j] = s[j - 1]
      BY <2>3, <1>2, <1>3
    <3>3. i - 1 = j - 1
      BY <2>1, <3>1, <3>2
    <3> QED BY <3>3
  <2> QED BY <2>2, <2>3
<1>7. ASSUME InOrder(s), s # << >> => t.time <= s[1].time PROVE InOrder(u)
  <2>1. \A i, j \in 1..n : i < j => s[i].time <= s[j].time
    BY <1>1, <1>7 DEF InOrder
  <2>2. \A j \in 1..n : t.time <= s[j].time
    <3> SUFFICES ASSUME NEW j \in 1..n PROVE t.time <= s[j].time
      OBVIOUS
    <3>1. 1 \in 1..n /\ s # << >>
      BY <1>1
    <3>2. j = 1 \/ s[1].time <= s[j].time
      BY <2>1, <3>1
    <3> QED BY <1>0, <1>7, <3>1, <3>2
  <2> SUFFICES ASSUME NEW i \in 1..(n + 1), NEW j \in 1..(n + 1), i < j
               PROVE  u[i].time <= u[j].time
    BY <1>1 DEF InOrder
  <2>3. j - 1 \in 1..n /\ u[j] = s[j - 1]
    BY <1>2, <1>3
  <2>4. CASE i = 1
    BY <2>2, <2>3, <2>4, <1>1
  <2>5. CASE i # 1
    BY <2>1, <2>3, <2>5, <1>2, <1>3
  <2> QED BY <2>4, <2>5
<1> QED BY <1>1, <1>a, <1>4, <1>5, <1>6, <1>7 DEF u

\* The timers of an array with another one, sorted.
LEMMA SortedIs ==
  ASSUME NEW s \in Seq(TimerRecords), NEW t \in TimerRecords,
         Single(s), t.client \notin Owners(s), s # << >>, s[1].time <= t.time,
         InOrder(s), NEW q \in SetToSeqs(Range(s) \cup {t}), InOrder(q)
  PROVE  /\ q \in Seq(TimerRecords) /\ q # << >> /\ q[1].time = s[1].time
         /\ Range(q) = Range(s) \cup {t}
         /\ Owners(q) = Owners(s) \cup {t.client}
         /\ Single(q)
<1> DEFINE S == Range(s) \cup {t}
           n == Cardinality(S)
<1>1. /\ DOMAIN s = 1..Len(s) /\ Len(s) \in Nat \ {0}
      /\ S \subseteq TimerRecords
  BY DEF Range
<1>2. IsFiniteSet(S)
  <2>1. Len(s) \in Nat /\ 1 \in Int
    OBVIOUS
  <2>2. IsFiniteSet(1..Len(s))
    BY <2>1, FS_Interval
  <2>3. s \in Surjection(1..Len(s), Range(s))
    BY <1>1 DEF Surjection, Range
  <2>4. IsFiniteSet(Range(s))
    BY <2>2, <2>3, FS_Surjection
  <2> QED BY <2>4, FS_AddElement
<1>3. n \in Nat
  BY <1>2, FS_CardinalityType
<1>4. q \in [1..n -> S] /\ \A i, j \in 1..n : i # j => q[i] # q[j]
  BY DEF SetToSeqs
<1> HIDE DEF S
<1>5. Cardinality(1..n) = n
  <2>1. 1 \in Nat /\ 1 <= n + 1 /\ n + 1 - 1 = n
    BY <1>3
  <2> QED BY <1>3, <2>1, IntervalCount
<1>6. q \in Injection(1..n, S)
  BY <1>4 DEF Injection, IsInjective
<1>7. q \in Surjection(1..n, S)
  BY <1>2, <1>5, <1>6, FS_Injection
<1>8. \A r \in S : \E i \in 1..n : q[i] = r
  BY <1>7 DEF Surjection
<1> HIDE DEF n
<1>9. /\ DOMAIN q = 1..n /\ q \in Seq(TimerRecords)
      /\ \A i \in 1..n : q[i] \in S
  <2>1. q \in [1..n -> TimerRecords]
    BY <1>1, <1>4
  <2> QED BY <1>3, <1>4, <2>1, IsASeq
<1>10. Range(q) = S
  BY <1>8, <1>9 DEF Range
<1>11. \A r, x \in S : r.client = x.client => r = x
  <2>1. \A r \in Range(s) : r.client \in Owners(s)
    BY DEF Range, Owners
  <2>2. \A r, x \in Range(s) : r.client = x.client => r = x
    BY DEF Range, Single
  <2> QED BY <2>1, <2>2 DEF S
<1>12. Single(q)
  BY <1>4, <1>9, <1>11 DEF Single
<1>13. Owners(q) = Owners(s) \cup {t.client}
  <2>1. Owners(q) = {r.client : r \in Range(q)}
    BY DEF Owners, Range
  <2>2. Owners(s) = {r.client : r \in Range(s)}
    BY DEF Owners, Range
  <2> QED BY <1>10, <2>1, <2>2 DEF S
<1>14. n # 0 /\ q # << >> /\ 1 \in 1..n
  <2>1. t \in S
    BY DEF S
  <2>2. n # 0
    BY <1>3, <1>8, <2>1
  <2> QED BY <1>3, <1>9, <2>2
<1>15. \A r \in TimerRecords : r.time \in Int
  BY NeverIs DEF TimerRecords, Times
<1>16. \A r \in S : s[1].time <= r.time
  <2>1. \A i \in 1..Len(s) : s[1].time <= s[i].time
    <3> SUFFICES ASSUME NEW i \in 1..Len(s) PROVE s[1].time <= s[i].time
      OBVIOUS
    <3>1. i = 1 \/ s[1].time <= s[i].time
      BY <1>1 DEF InOrder
    <3>2. s[1] \in TimerRecords
      BY <1>1
    <3> QED BY <1>15, <3>1, <3>2
  <2> QED BY <1>1, <2>1 DEF S, Range
<1>17. q[1].time <= s[1].time
  <2>1. s[1] \in S
    BY <1>1 DEF S, Range
  <2>2. PICK i \in 1..n : q[i] = s[1]
    BY <1>8, <2>1
  <2>3. i = 1 \/ q[1].time <= q[i].time
    BY <1>9, <1>14, <2>2, <1>3 DEF InOrder
  <2>4. s[1] \in TimerRecords
    BY <1>1
  <2> QED BY <1>15, <2>2, <2>3, <2>4
<1>18. q[1].time = s[1].time
  <2>1. q[1] \in S /\ q[1] \in TimerRecords /\ s[1] \in TimerRecords
    BY <1>1, <1>9, <1>14
  <2> QED BY <1>15, <1>16, <1>17, <2>1
<1> QED BY <1>9, <1>10, <1>12, <1>13, <1>14, <1>18 DEF S

\* The first of the timers that are answered, and the others.
LEMMA AnsweredIs ==
  ASSUME NEW s \in Seq(TimerRecords), s # << >>
  PROVE  /\ Tail(s) \in Seq(TimerRecords) /\ Head(s) \in TimerRecords
         /\ Owners(s) = Owners(Tail(s)) \cup {Head(s).client}
         /\ Single(s) => Single(Tail(s)) /\ Head(s).client \notin Owners(Tail(s))
         /\ 1 \in DOMAIN s /\ Head(s) = s[1]
         /\ \A i \in DOMAIN Tail(s) : i + 1 \in DOMAIN s /\ Tail(s)[i] = s[i + 1]
<1> DEFINE t == Tail(s)
           n == Len(s)
<1>1. /\ n \in Nat \ {0} /\ DOMAIN s = 1..n /\ DOMAIN t = 1..(n - 1)
      /\ t \in Seq(TimerRecords)
      /\ \A i \in 1..(n - 1) : t[i] = s[i + 1]
      /\ Head(s) = s[1] /\ Head(s) \in TimerRecords
  OBVIOUS
<1> HIDE DEF t, n
<1>2. /\ \A i \in 1..n : i = 1 \/ (i - 1 \in 1..(n - 1) /\ t[i - 1] = s[i])
      /\ \A i \in 1..(n - 1) : i + 1 \in 1..n /\ i + 1 # 1
      /\ 1 \in 1..n
  BY <1>1
<1>3. Owners(s) = Owners(t) \cup {Head(s).client}
  <2>1. \A i \in 1..n : s[i].client \in Owners(t) \cup {Head(s).client}
    BY <1>1, <1>2 DEF Owners
  <2>2. \A i \in 1..(n - 1) : t[i].client \in Owners(s)
    BY <1>1, <1>2 DEF Owners
  <2>3. Head(s).client \in Owners(s)
    BY <1>1, <1>2 DEF Owners
  <2> QED BY <1>1, <2>1, <2>2, <2>3 DEF Owners
<1>4. ASSUME Single(s) PROVE Single(t) /\ Head(s).client \notin Owners(t)
  <2>1. \A i, j \in 1..n : s[i].client = s[j].client => i = j
    BY <1>1, <1>4 DEF Single
  <2>2. ASSUME NEW i \in 1..(n - 1), NEW j \in 1..(n - 1), t[i].client = t[j].client
        PROVE  i = j
    <3>1. i + 1 = j + 1
      BY <1>1, <1>2, <2>1, <2>2
    <3> QED BY <3>1
  <2>3. \A i \in 1..(n - 1) : t[i].client # Head(s).client
    BY <1>1, <1>2, <2>1
  <2> QED BY <1>1, <2>2, <2>3 DEF Single, Owners
<1> QED BY <1>1, <1>2, <1>3, <1>4 DEF t, n

-----------------------------------------------------------------------------
(* The first state                                                         *)

LEMMA ClientsListed ==
  /\ SetToSeq(Clients) \in Seq(Clients)
  /\ IsInjective(SetToSeq(Clients)) /\ Range(SetToSeq(Clients)) = Clients
<1> DEFINE n == Cardinality(Clients)
           q == SetToSeq(Clients)
<1>1. IsFiniteSet(Clients)
  BY TimerServerAssumption
<1>2. n \in Nat /\ ExistsBijection(1..n, Clients)
  BY <1>1, FS_CardinalityType
<1>3. \E f \in [1..n -> Clients] : IsInjective(f)
  BY <1>2 DEF ExistsBijection, Bijection, Injection, IsInjective
<1>4. q \in [1..n -> Clients] /\ IsInjective(q)
  BY <1>3 DEF SetToSeq
<1> HIDE DEF q
<1>5. Cardinality(1..n) = n
  <2>1. 1 \in Nat /\ 1 <= n + 1 /\ n + 1 - 1 = n
    BY <1>2
  <2> QED BY <1>2, <2>1, IntervalCount
<1>6. q \in Injection(1..n, Clients)
  BY <1>4 DEF Injection, IsInjective
<1>7. q \in Surjection(1..n, Clients)
  BY <1>1, <1>5, <1>6, FS_Injection
<1>8. Range(q) = Clients
  BY <1>4, <1>7 DEF Surjection, Range
<1>9. q \in Seq(Clients)
  BY <1>2, <1>4, IsASeq
<1> QED BY <1>4, <1>8, <1>9 DEF q

LEMMA FirstPending ==
  ASSUME NEW s \in Seq(Requests), IsInjective(s), Range(s) = Clients
  PROVE  /\ << Timer >> \o s \in Seq(Requests) /\ IsInjective(<< Timer >> \o s)
         /\ Range(<< Timer >> \o s) = Requests
<1> DEFINE u == << Timer >> \o s
           n == Len(s)
<1>0. Timer \in Requests
  BY RequestsAre
<1>3. /\ n \in Nat /\ DOMAIN s = 1..n /\ DOMAIN u = 1..(n + 1)
      /\ u \in Seq(Requests) /\ u[1] = Timer
      /\ \A i \in 1..n : u[i + 1] = s[i]
  BY <1>0
<1> HIDE DEF u, n
<1>2. \A i \in 1..n : s[i] \in Clients
  BY <1>3 DEF Range
<1>4. /\ \A i \in 1..(n + 1) : i = 1 \/ (i - 1 \in 1..n /\ u[i] = s[i - 1])
      /\ \A i \in 1..n : i + 1 \in 1..(n + 1)
      /\ 1 \in 1..(n + 1)
  BY <1>3
<1>5. Range(u) = Requests
  <2>1. \A i \in 1..n : s[i] \in Range(u)
    BY <1>3, <1>4 DEF Range
  <2>2. Timer \in Range(u)
    BY <1>3, <1>4 DEF Range
  <2>3. Range(u) \subseteq Requests
    BY <1>3, <1>4, <1>2, RequestsAre DEF Range
  <2>4. \A c \in Clients : \E i \in 1..n : s[i] = c
    BY <1>3 DEF Range
  <2> QED BY <2>1, <2>2, <2>3, <2>4, RequestsAre
<1>6. IsInjective(u)
  <2>1. \A i, j \in 1..n : s[i] = s[j] => i = j
    BY <1>3 DEF IsInjective
  <2>2. \A i \in 1..n : s[i] # Timer
    BY <1>2, RequestsAre
  <2> SUFFICES ASSUME NEW i \in 1..(n + 1), NEW j \in 1..(n + 1),
                      u[i] = u[j]
               PROVE  i = j
    BY <1>3 DEF IsInjective
  <2>3. \A k \in 1..(n + 1) : u[k] = Timer => k = 1
    BY <2>2, <1>4
  <2>5. CASE i = 1 \/ j = 1
    BY <2>3, <2>5, <1>3
  <2>4. CASE i # 1 /\ j # 1
    <3>1. i - 1 = j - 1
      BY <2>1, <2>4, <1>4
    <3> QED BY <3>1
  <2> QED BY <2>4, <2>5
<1> QED BY <1>3, <1>5, <1>6 DEF u

LEMMA InitIInv == ASSUME Init PROVE IInv
<1>1. /\ pending \in Seq(Requests) /\ IsInjective(pending)
      /\ Range(pending) = Requests
  <2>1. SetToSeq(Clients) \in Seq(Requests)
    BY ClientsListed, RequestsAre
  <2> QED BY <2>1, ClientsListed, FirstPending DEF Init
<1>2. Len(pending) \in Nat
  BY <1>1
<1>3. TypeOK
  <2>1. /\ 0 \in 0..MaxTime /\ Never \in Times /\ 0 \in Times
        /\ 1 \in 1..(Cardinality(Requests) + 1)
    BY NeverIs, RequestsAre DEF Times
  <2>2. << >> \in Seq(BOOLEAN) /\ << >> \in Seq(TimerRecords)
    OBVIOUS
  <2> QED BY <1>1, <2>1, <2>2 DEF Init, TypeOK, Idle
<1>4. StepsKnow
  BY <1>2 DEF Init, StepsKnow, Idle
<1>5. PendingKnows
  BY <1>1, RequestsAre DEF Init, PendingKnows
<1>6. ClientsKnow
  BY DEF Init, ClientsKnow, Single, Owners, Sent, Handled
<1>7. TimesKnow
  BY DEF Init, TimesKnow, InOrder, Sent, Handled
<1>8. RequestKnows
  BY DEF Init, RequestKnows, Idle
<1>9. CountKnows
  BY FS_EmptySet DEF Init, CountKnows
<1>10. ArmedKnows
  BY DEF Init, ArmedKnows
<1> QED
  BY <1>3, <1>4, <1>5, <1>6, <1>7, <1>8, <1>9, <1>10 DEF Init, IInv

-----------------------------------------------------------------------------
(* The kernel                                                              *)

LEMMA OneElement ==
  ASSUME NEW x
  PROVE  Append(<< >>, x) = << x >> /\ Head(<< x >>) = x /\ Tail(<< x >>) = << >>
OBVIOUS

LEMMA AppendIn ==
  ASSUME NEW S, NEW s \in Seq(S), NEW x \in S
  PROVE  Append(s, x) \in Seq(S)
OBVIOUS

LEMMA CallingIs ==
  ASSUME TypeOK
  PROVE  IsFiniteSet(calling) /\ Cardinality(calling) \in Nat
BY TimerServerAssumption, FS_Subset, FS_CardinalityType DEF TypeOK

\* A request that is completed is counted, at once or when its client calls.
LEMMA OneMoreFlagged ==
  ASSUME TypeOK, CountKnows, NEW r \in Requests, r \notin flagged,
         flagged' = flagged \cup {r}, Cardinality(calling') \in Nat,
         completedRequests' \in Nat,
         completedRequests' + Cardinality(calling')
           = completedRequests + Cardinality(calling) + 1,
         UNCHANGED << numReqs, prog, pending, at >>
  PROVE  CountKnows'
<1>1. IsFiniteSet(flagged)
  BY RequestsAre, FS_Subset DEF TypeOK
<1>2. /\ IsFiniteSet(flagged') /\ Cardinality(flagged) \in Nat
      /\ Cardinality(flagged') = Cardinality(flagged) + 1
  BY <1>1, FS_AddElement, FS_CardinalityType
<1>3. Rest' = Rest
  BY DEF Rest
<1>4. IsFiniteSet(flagged \cap Rest) /\ IsFiniteSet(flagged' \cap Rest)
  BY <1>1, <1>2, FS_Intersection
<1>5. /\ Cardinality(flagged \cap Rest) \in Nat
      /\ Cardinality(flagged' \cap Rest) \in Nat
  BY <1>4, FS_CardinalityType
<1>6. Cardinality(flagged \cap Rest) <= Cardinality(flagged' \cap Rest)
  <2>1. flagged \cap Rest \subseteq flagged' \cap Rest
    OBVIOUS
  <2> QED BY <1>4, <2>1, FS_Subset
<1>7. completedRequests' + numReqs' + Cardinality(calling') = Cardinality(flagged')
  <2>1. /\ completedRequests \in Nat /\ numReqs \in Nat /\ numReqs' = numReqs
        /\ Cardinality(calling) \in Nat /\ Cardinality(calling') \in Nat
        /\ completedRequests' \in Nat
    BY CallingIs DEF TypeOK
  <2>2. completedRequests + numReqs + Cardinality(calling) = Cardinality(flagged)
    BY DEF CountKnows
  <2> HIDE DEF TypeOK
  <2> QED BY <1>2, <2>1, <2>2
<1> QED BY <1>3, <1>5, <1>6, <1>7 DEF CountKnows, TypeOK

LEMMA TickStep == ASSUME IInv, Tick, panic = "none" PROVE IInv'
<1> DEFINE now == uptime + 1
<1>0. /\ UNCHANGED << svc, completedRequests, flagged, wants, due, calling,
                      pending, prog, at, numReqs, msg, timers, completed, panic >>
      /\ uptime' = now /\ now \in 0..MaxTime /\ now # Never /\ uptime \in Nat
      /\ raced \subseteq raced'
  BY NeverIs DEF IInv, TypeOK, Tick, clientVars, loopVars, timerVars
<1>1. TypeOK'
  <2>1. timerTime' \in Times /\ userPtr' \in BOOLEAN
    BY NeverIs DEF IInv, TypeOK, Tick, Times
  <2>2. dfcs' \in Seq(BOOLEAN)
    <3>1. dfcs' = dfcs \/ dfcs' = Append(dfcs, userPtr)
      BY Zenon DEF Tick
    <3>2. dfcs \in Seq(BOOLEAN) /\ userPtr \in BOOLEAN
      BY DEF IInv, TypeOK
    <3>3. Append(dfcs, userPtr) \in Seq(BOOLEAN)
      BY <3>2, AppendIn, Zenon
    <3> QED BY <3>1, <3>2, <3>3, Zenon
  <2>3. raced' \subseteq {"missed", "taken", "uncounted"}
    BY DEF IInv, TypeOK, Tick
  <2> QED BY <1>0, <2>1, <2>2, <2>3 DEF IInv, TypeOK
<1>2. StepsKnow'
  <2>1. svc.step = "store" /\ "missed" \notin raced' => uptime' < svc.time
    <3>1. svc.time \in Int
      BY NeverIs DEF IInv, TypeOK, Times
    <3> QED BY <1>0, <3>1 DEF IInv, StepsKnow, Tick
  <2> QED BY <1>0, <2>1 DEF IInv, StepsKnow
<1>3. PendingKnows'
  BY <1>0 DEF IInv, PendingKnows, Taken
<1>4. ClientsKnow'
  BY <1>0 DEF IInv, ClientsKnow, Sent, Handled
<1>5. TimesKnow'
  <2>1. \A c \in Sent \cup Handled : due[c] <= uptime' + wants[c]
    <3> SUFFICES ASSUME NEW c \in Sent \cup Handled
                 PROVE  due[c] <= uptime' + wants[c]
      OBVIOUS
    <3>1. c \in Clients
      BY RequestsAre DEF IInv, TypeOK, StepsKnow, Sent, Handled
    <3>2. due[c] \in Int /\ wants[c] \in Int
      BY <3>1, NeverIs DEF IInv, TypeOK, Times
    <3>3. due[c] <= uptime + wants[c]
      BY DEF IInv, TimesKnow
    <3> QED BY <1>0, <3>2, <3>3
  <2>2. \A i \in DOMAIN completed : completed[i].time <= uptime'
    <3> SUFFICES ASSUME NEW i \in DOMAIN completed
                 PROVE  completed[i].time <= uptime'
      OBVIOUS
    <3>1. completed[i] \in TimerRecords
      BY DEF IInv, TypeOK
    <3>2. completed[i].time \in Int
      BY <3>1, NeverIs DEF TimerRecords, Times
    <3>3. completed[i].time <= uptime
      BY DEF IInv, TimesKnow
    <3> QED BY <1>0, <3>2, <3>3
  <2> QED BY <1>0, <2>1, <2>2 DEF IInv, TimesKnow, Sent, Handled
<1>6. ASSUME ~Taken' PROVE RequestKnows'
  <2>1. RequestKnows
    BY <1>0, <1>6 DEF IInv, Taken
  <2>2. CASE now # timerTime
    <3>1. UNCHANGED << timerTime, userPtr, dfcs >>
      BY <2>2 DEF Tick, IInv, TypeOK
    <3> QED BY <1>0, <2>1, <3>1 DEF RequestKnows
  <2>3. CASE now = timerTime
    <3>1. svc = Idle
      BY <1>6, <2>3 DEF Tick, Taken
    <3>2. userPtr /\ dfcs = << >> /\ Timer \notin flagged
      BY <1>0, <2>1, <2>3 DEF RequestKnows
    <3>4. timerTime' = Never /\ userPtr' = FALSE
      BY <2>3 DEF Tick
    <3>5. dfcs' = Append(dfcs, userPtr)
      BY <2>3, Zenon DEF Tick
    <3>6. userPtr = TRUE
      BY <3>2 DEF IInv, TypeOK
    <3>3. timerTime' = Never /\ userPtr' = FALSE /\ dfcs' = << TRUE >>
      BY <3>2, <3>4, <3>5, <3>6, OneElement, Zenon
    <3> QED BY <1>0, <2>1, <3>1, <3>2, <3>3 DEF RequestKnows, Idle
  <2> QED BY <2>2, <2>3
<1>7. ASSUME CountIsRight' PROVE CountKnows'
  BY <1>0, <1>7 DEF IInv, CountIsRight, CountKnows, Rest
<1>8. ASSUME raced' = {} PROVE ArmedKnows'
  <2>1. ArmedKnows
    BY <1>0, <1>8 DEF IInv
  <2>2. CASE now # timerTime
    <3>1. UNCHANGED << timerTime, userPtr, dfcs >>
      BY <2>2 DEF Tick, IInv, TypeOK
    <3>2. uptime < timerTime => uptime' < timerTime'
      BY <1>0, <2>2, <3>1, NeverIs DEF IInv, TypeOK, Times
    <3> QED BY <1>0, <2>1, <3>1, <3>2 DEF ArmedKnows, Armed, Arming
  <2>3. CASE now = timerTime
    <3>1. dfcs' = Append(dfcs, userPtr) /\ dfcs \in Seq(BOOLEAN)
      BY <2>3 DEF Tick, IInv, TypeOK
    <3>2. dfcs' # << >>
      BY <3>1
    <3> QED BY <3>2 DEF ArmedKnows
  <2> QED BY <2>2, <2>3
<1>9. panic' # "none" => Taken'
  BY <1>0
<1> QED
  BY <1>1, <1>2, <1>3, <1>4, <1>5, <1>6, <1>7, <1>8, <1>9 DEF IInv

LEMMA DfcRunStep == ASSUME IInv, DfcRun, panic = "none" PROVE IInv'
<1>0. /\ UNCHANGED << uptime, timerTime, svc, wants, due, calling, pending, prog,
                      at, numReqs, msg, timers, completed, raced, userPtr >>
      /\ svc = Idle /\ dfcs # << >> /\ dfcs' = Tail(dfcs) /\ dfcs \in Seq(BOOLEAN)
  BY DEF IInv, TypeOK, DfcRun, clientVars, loopVars, timerVars
<1>a. \/ /\ Head(dfcs) /\ flagged' = flagged \cup {Timer}
         /\ completedRequests' = completedRequests + 1 /\ panic' = panic
      \/ /\ ~Head(dfcs) /\ panic' = "noUserPtr"
         /\ UNCHANGED << flagged, completedRequests >>
  BY DEF DfcRun
<1>b. ASSUME ~Taken
      PROVE  /\ RequestKnows /\ Head(dfcs) /\ dfcs' = << >> /\ Timer \notin flagged
             /\ ~userPtr
  <2>1. RequestKnows
    BY <1>b DEF IInv
  <2>2. dfcs = << TRUE >>
    BY <1>0, <2>1 DEF RequestKnows
  <2>3. Head(<< TRUE >>) = TRUE /\ Tail(<< TRUE >>) = << >>
    BY OneElement, Zenon
  <2> QED BY <1>0, <2>1, <2>2, <2>3 DEF RequestKnows
<1>1. TypeOK'
  <2>1. dfcs' \in Seq(BOOLEAN)
    BY <1>0
  <2>2. flagged' \subseteq Requests /\ completedRequests' \in Nat
    <3>1. flagged' \in {flagged, flagged \cup {Timer}}
      BY <1>a, Zenon
    <3>2. completedRequests' \in {completedRequests, completedRequests + 1}
      BY <1>a, Zenon
    <3> QED BY <3>1, <3>2, RequestsAre DEF IInv, TypeOK
  <2>3. panic' \in {"none", "noUserPtr"}
    BY <1>a DEF IInv, TypeOK
  <2> QED BY <1>0, <2>1, <2>2, <2>3 DEF IInv, TypeOK
<1>c. Sent' = Sent
  BY <1>a DEF Sent
<1>2. StepsKnow'
  BY <1>0 DEF IInv, StepsKnow
<1>3. PendingKnows'
  BY <1>0 DEF IInv, PendingKnows, Taken
<1>4. ClientsKnow'
  BY <1>0, <1>c DEF IInv, ClientsKnow, Handled
<1>5. TimesKnow'
  BY <1>0, <1>c DEF IInv, TimesKnow, Handled
<1>6. ASSUME ~Taken' PROVE RequestKnows'
  <2>1. ~Taken
    BY <1>0, <1>6 DEF Taken
  <2>2. ~(prog \in {"timerExpired", "complete"} \/ (prog = "setTimer" /\ msg = None))
    BY <1>0, <1>b, <2>1 DEF RequestKnows
  <2> QED BY <1>0, <1>b, <2>1, <2>2 DEF RequestKnows, Idle
<1>7. ASSUME CountIsRight' PROVE CountKnows'
  <2>1. CountIsRight /\ ~Taken
    BY <1>0, <1>7 DEF CountIsRight, Taken
  <2>2. CountKnows
    BY <2>1 DEF IInv
  <2>3. /\ flagged' = flagged \cup {Timer} /\ Timer \notin flagged
        /\ completedRequests' = completedRequests + 1
    BY <1>a, <1>b, <2>1
  <2>4. TypeOK /\ TypeOK'
    BY <1>1 DEF IInv
  <2>5. /\ Cardinality(calling') = Cardinality(calling) /\ Cardinality(calling) \in Nat
        /\ completedRequests \in Nat
    BY <1>0, <2>4, CallingIs DEF TypeOK
  <2>6. completedRequests' + Cardinality(calling')
          = completedRequests + Cardinality(calling) + 1
    BY <2>3, <2>5
  <2> QED BY <1>0, <2>2, <2>3, <2>4, <2>5, <2>6, RequestsAre, OneMoreFlagged
          DEF TypeOK
<1>8. ASSUME raced' = {} PROVE ArmedKnows'
  <2>1. ~Taken
    BY <1>0, <1>8 DEF Taken
  <2>2. Timer \in flagged'
    BY <1>a, <1>b, <2>1
  <2> QED BY <2>2 DEF ArmedKnows
<1>9. panic' # "none" => Taken'
  BY <1>0, <1>a, <1>b DEF Taken, IInv
<1> QED
  BY <1>1, <1>2, <1>3, <1>4, <1>5, <1>6, <1>7, <1>8, <1>9 DEF IInv

\* KExecSetTimer compares the times.
LEMMA SvcCompareStep == ASSUME IInv, SvcCompare PROVE IInv'
<1>0. /\ UNCHANGED << uptime, userPtr, dfcs, completedRequests, flagged, wants,
                      due, calling, pending, prog, at, numReqs, msg, timers,
                      completed, panic, raced >>
      /\ svc.step = "compare"
      /\ \/ /\ svc.time <= uptime
            /\ svc' = [svc EXCEPT !.step = "complete"] /\ timerTime' = Never
         \/ /\ ~(svc.time <= uptime)
            /\ svc' = [svc EXCEPT !.step = "store"] /\ timerTime' = timerTime
  BY DEF SvcCompare, clientVars, loopVars, timerVars
<1>a. /\ svc' \in [step : {"complete", "store"}, time : Times]
      /\ svc'.time = svc.time /\ timerTime' \in Times
      /\ timerTime' # Never => timerTime' = timerTime
      /\ svc'.step = "store" => ~(svc.time <= uptime)
      /\ svc'.step = "complete" => timerTime' = Never
  BY <1>0, NeverIs DEF IInv, TypeOK, Times
<1>b. uptime \in Int /\ svc.time \in Int
  BY NeverIs DEF IInv, TypeOK, Times
<1>1. TypeOK'
  BY <1>0, <1>a DEF IInv, TypeOK
<1>2. StepsKnow'
  BY <1>0, <1>a, <1>b DEF IInv, StepsKnow
<1>3. PendingKnows'
  BY <1>0 DEF IInv, PendingKnows, Taken
<1>4. ClientsKnow'
  BY <1>0 DEF IInv, ClientsKnow, Sent, Handled
<1>5. TimesKnow'
  BY <1>0 DEF IInv, TimesKnow, Sent, Handled
<1>6. ASSUME ~Taken' PROVE RequestKnows'
  <2>1. RequestKnows
    BY <1>0, <1>6 DEF IInv, Taken
  <2> QED BY <1>0, <1>a, <2>1 DEF RequestKnows
<1>7. ASSUME CountIsRight' PROVE CountKnows'
  BY <1>0, <1>7 DEF IInv, CountIsRight, CountKnows, Rest
<1>8. ASSUME raced' = {} PROVE ArmedKnows'
  <2>1. ArmedKnows
    BY <1>0, <1>8 DEF IInv
  <2>2. ~Armed
    BY <1>0 DEF Armed, Idle
  <2> QED BY <1>0, <1>a, <2>1, <2>2 DEF ArmedKnows, Arming
<1>9. panic' # "none" => Taken'
  BY <1>0 DEF IInv, Taken
<1> QED
  BY <1>1, <1>2, <1>3, <1>4, <1>5, <1>6, <1>7, <1>8, <1>9 DEF IInv

\* ... stores a time to come ...
LEMMA SvcStoreStep == ASSUME IInv, SvcStore PROVE IInv'
<1>0. /\ UNCHANGED << uptime, userPtr, dfcs, completedRequests, flagged, wants,
                      due, calling, pending, prog, at, numReqs, msg, timers,
                      completed, panic, raced >>
      /\ svc.step = "store" /\ timerTime' = svc.time /\ svc' = Idle
  BY DEF SvcStore, clientVars, loopVars, timerVars
<1>1. TypeOK'
  BY <1>0, NeverIs DEF IInv, TypeOK, Times, Idle
<1>2. StepsKnow'
  BY <1>0 DEF IInv, StepsKnow, Idle
<1>3. PendingKnows'
  BY <1>0 DEF IInv, PendingKnows, Taken
<1>4. ClientsKnow'
  BY <1>0 DEF IInv, ClientsKnow, Sent, Handled
<1>5. TimesKnow'
  BY <1>0 DEF IInv, TimesKnow, Sent, Handled
<1>6. ASSUME ~Taken' PROVE RequestKnows'
  <2>1. RequestKnows
    BY <1>0, <1>6 DEF IInv, Taken
  <2> QED BY <1>0, <2>1 DEF RequestKnows, Idle
<1>7. ASSUME CountIsRight' PROVE CountKnows'
  BY <1>0, <1>7 DEF IInv, CountIsRight, CountKnows, Rest
<1>8. ASSUME raced' = {} PROVE ArmedKnows'
  <2>1. ArmedKnows /\ RequestKnows /\ StepsKnow
    BY <1>0, <1>8 DEF IInv, Taken
  <2>2. ~Armed
    BY <1>0 DEF Armed, Idle
  <2>3. userPtr /\ uptime < svc.time
    BY <1>0, <1>8, <2>1 DEF RequestKnows, StepsKnow
  <2> QED BY <1>0, <2>1, <2>2, <2>3 DEF ArmedKnows, Arming, Armed
<1>9. panic' # "none" => Taken'
  BY <1>0 DEF IInv, Taken
<1> QED
  BY <1>1, <1>2, <1>3, <1>4, <1>5, <1>6, <1>7, <1>8, <1>9 DEF IInv

\* ... and completes the request at once if it has come.
LEMMA SvcCompleteStep == ASSUME IInv, SvcComplete, panic = "none" PROVE IInv'
<1>0. /\ UNCHANGED << uptime, timerTime, dfcs, wants, due, calling, pending, prog,
                      at, numReqs, msg, timers, completed, raced >>
      /\ svc.step = "complete" /\ svc' = Idle
  BY DEF SvcComplete, clientVars, loopVars, timerVars
<1>a. \/ /\ userPtr /\ flagged' = flagged \cup {Timer} /\ userPtr' = FALSE
         /\ completedRequests' = completedRequests + 1 /\ panic' = panic
      \/ /\ ~userPtr /\ panic' = "noUserPtr"
         /\ UNCHANGED << flagged, completedRequests, userPtr >>
  BY DEF SvcComplete
<1>b. ASSUME ~Taken
      PROVE  RequestKnows /\ userPtr /\ dfcs = << >> /\ Timer \notin flagged
  BY <1>0, <1>b DEF IInv, RequestKnows
<1>1. TypeOK'
  <2>1. flagged' \subseteq Requests /\ completedRequests' \in Nat
    <3>1. flagged' \in {flagged, flagged \cup {Timer}}
      BY <1>a, Zenon
    <3>2. completedRequests' \in {completedRequests, completedRequests + 1}
      BY <1>a, Zenon
    <3> QED BY <3>1, <3>2, RequestsAre DEF IInv, TypeOK
  <2>2. panic' \in {"none", "noUserPtr"}
    BY <1>a DEF IInv, TypeOK
  <2>3. userPtr' \in BOOLEAN
    BY <1>a DEF IInv, TypeOK
  <2>4. svc' \in [step : {"idle", "compare", "complete", "store"}, time : Times]
    BY <1>0, NeverIs DEF Idle, Times
  <2> QED BY <1>0, <2>1, <2>2, <2>3, <2>4 DEF IInv, TypeOK
<1>c. Sent' = Sent
  BY <1>a DEF Sent
<1>2. StepsKnow'
  BY <1>0 DEF IInv, StepsKnow, Idle
<1>3. PendingKnows'
  BY <1>0 DEF IInv, PendingKnows, Taken
<1>4. ClientsKnow'
  BY <1>0, <1>c DEF IInv, ClientsKnow, Handled
<1>5. TimesKnow'
  BY <1>0, <1>c DEF IInv, TimesKnow, Handled
<1>6. ASSUME ~Taken' PROVE RequestKnows'
  <2>1. ~Taken
    BY <1>0, <1>6 DEF Taken
  <2>2. ~(prog \in {"timerExpired", "complete"} \/ (prog = "setTimer" /\ msg = None))
    BY <1>0 DEF IInv, StepsKnow
  <2>3. flagged' = flagged \cup {Timer} /\ userPtr' = FALSE
    BY <1>a, <1>b, <2>1
  <2>4. dfcs' = << >> /\ timerTime' = Never /\ svc' = Idle /\ prog' = prog /\ msg' = msg
    BY <1>0, <1>b, <2>1 DEF RequestKnows
  <2> QED BY <2>2, <2>3, <2>4 DEF RequestKnows, Idle
<1>7. ASSUME CountIsRight' PROVE CountKnows'
  <2>1. CountIsRight /\ ~Taken
    BY <1>0, <1>7 DEF CountIsRight, Taken
  <2>2. CountKnows
    BY <2>1 DEF IInv
  <2>3. /\ flagged' = flagged \cup {Timer} /\ Timer \notin flagged
        /\ completedRequests' = completedRequests + 1
    BY <1>a, <1>b, <2>1
  <2>4. TypeOK /\ TypeOK'
    BY <1>1 DEF IInv
  <2>5. /\ Cardinality(calling') = Cardinality(calling) /\ Cardinality(calling) \in Nat
        /\ completedRequests \in Nat
    BY <1>0, <2>4, CallingIs DEF TypeOK
  <2>6. completedRequests' + Cardinality(calling')
          = completedRequests + Cardinality(calling) + 1
    BY <2>3, <2>5
  <2> QED BY <1>0, <2>2, <2>3, <2>4, <2>5, <2>6, RequestsAre, OneMoreFlagged
          DEF TypeOK
<1>8. ASSUME raced' = {} PROVE ArmedKnows'
  <2>1. ~Taken
    BY <1>0, <1>8 DEF Taken
  <2>2. Timer \in flagged'
    BY <1>a, <1>b, <2>1
  <2> QED BY <2>2 DEF ArmedKnows
<1>9. panic' # "none" => Taken'
  BY <1>0, <1>a, <1>b DEF Taken, IInv
<1> QED
  BY <1>1, <1>2, <1>3, <1>4, <1>5, <1>6, <1>7, <1>8, <1>9 DEF IInv

-----------------------------------------------------------------------------
(* A client                                                                *)

LEMMA AfterStep ==
  ASSUME IInv, NEW c \in Clients, NEW msecs \in Waits, After(c, msecs)
  PROVE  IInv'
<1>0. /\ UNCHANGED << uptime, timerTime, userPtr, dfcs, svc, pending, prog, at,
                      numReqs, msg, timers, completed, panic, raced >>
      /\ due[c] = -1 /\ c \notin calling /\ calling' = calling \cup {c}
      /\ wants' = [wants EXCEPT ![c] = msecs]
      /\ due' = [due EXCEPT ![c] = uptime + msecs]
      /\ flagged' = flagged \cup {c}
      /\ completedRequests' = completedRequests
  BY DEF After, kernelVars, loopVars, timerVars
<1>a. /\ c \in Requests /\ c # Timer
      /\ uptime + msecs \in Nat /\ uptime + msecs \in Times /\ uptime + msecs # -1
  <2>1. msecs \in Nat /\ MaxTime + msecs < Never /\ MaxTime \in Nat /\ Never \in Nat
    BY NeverIs
  <2>2. uptime \in 0..MaxTime
    BY DEF IInv, TypeOK
  <2>3. uptime + msecs \in 0..Never /\ uptime + msecs \in Nat /\ uptime + msecs # -1
    BY <2>1, <2>2
  <2>4. c \in Requests /\ c # Timer
    BY RequestsAre
  <2> QED BY <2>3, <2>4 DEF Times
<1>b. /\ c \notin Sent /\ c \notin Handled
      /\ c \notin Owners(timers) /\ c \notin Owners(completed)
      /\ c \notin flagged
  BY <1>0, <1>a DEF IInv, ClientsKnow, Sent
<1>c. Sent' = Sent \cup {c} /\ Handled' = Handled
  BY <1>0, <1>a DEF Sent, Handled
<1>d. /\ due'[c] = uptime + msecs /\ wants'[c] = msecs
      /\ \A d \in Clients : d # c => due'[d] = due[d] /\ wants'[d] = wants[d]
  BY <1>0 DEF IInv, TypeOK
<1>1. TypeOK'
  BY <1>0, <1>a DEF IInv, TypeOK
<1>2. StepsKnow'
  BY <1>0 DEF IInv, StepsKnow
<1>3. PendingKnows'
  BY <1>0 DEF IInv, PendingKnows, Taken
<1>4. ClientsKnow'
  <2>1. ASSUME NEW d \in Clients
        PROVE  due'[d] # -1 <=> d \in Sent' \cup Handled \cup Owners(timers) \cup Owners(completed)
    <3>1. CASE d = c
      BY <3>1, <1>a, <1>c, <1>d
    <3>2. CASE d # c
      BY <3>2, <1>c, <1>d DEF IInv, ClientsKnow
    <3> QED BY <3>1, <3>2
  <2> QED BY <1>0, <1>b, <1>c, <2>1 DEF IInv, ClientsKnow
<1>5. TimesKnow'
  <2>1. \A d \in Sent' \cup Handled' : due'[d] <= uptime' + wants'[d]
    <3> SUFFICES ASSUME NEW d \in Sent' \cup Handled'
                 PROVE  due'[d] <= uptime' + wants'[d]
      OBVIOUS
    <3>1. CASE d = c
      BY <3>1, <1>0, <1>a, <1>d
    <3>2. CASE d # c
      <4>1. d \in Clients /\ d \in Sent \cup Handled
        BY <3>2, <1>c, RequestsAre DEF IInv, TypeOK, StepsKnow, Sent, Handled
      <4> QED BY <3>2, <4>1, <1>0, <1>d DEF IInv, TimesKnow
    <3> QED BY <3>1, <3>2
  <2>2. \A i \in DOMAIN timers : due'[timers[i].client] = due[timers[i].client]
    <3> SUFFICES ASSUME NEW i \in DOMAIN timers
                 PROVE  due'[timers[i].client] = due[timers[i].client]
      OBVIOUS
    <3>1. timers[i] \in TimerRecords /\ timers[i].client # c
      BY <1>b DEF IInv, TypeOK, Owners
    <3> QED BY <1>d, <3>1 DEF TimerRecords
  <2>3. \A i \in DOMAIN completed :
          due'[completed[i].client] = due[completed[i].client]
    <3> SUFFICES ASSUME NEW i \in DOMAIN completed
                 PROVE  due'[completed[i].client] = due[completed[i].client]
      OBVIOUS
    <3>1. completed[i] \in TimerRecords /\ completed[i].client # c
      BY <1>b DEF IInv, TypeOK, Owners
    <3> QED BY <1>d, <3>1 DEF TimerRecords
  <2> QED BY <1>0, <2>1, <2>2, <2>3 DEF IInv, TimesKnow
<1>6. ASSUME ~Taken' PROVE RequestKnows'
  <2>1. RequestKnows
    BY <1>0, <1>6 DEF IInv, Taken
  <2> QED BY <1>0, <1>a, <2>1 DEF RequestKnows
<1>7. ASSUME CountIsRight' PROVE CountKnows'
  <2>1. CountKnows
    BY <1>0, <1>7 DEF IInv, CountIsRight
  <2>2. TypeOK /\ IsFiniteSet(calling) /\ Cardinality(calling) \in Nat
    BY CallingIs DEF IInv
  <2>3. Cardinality(calling') = Cardinality(calling) + 1
    BY <1>0, <2>2, FS_AddElement
  <2>4. /\ completedRequests' + Cardinality(calling')
             = completedRequests + Cardinality(calling) + 1
        /\ completedRequests' \in Nat /\ Cardinality(calling') \in Nat
    BY <1>0, <2>2, <2>3 DEF TypeOK
  <2> QED BY <1>0, <1>a, <1>b, <2>1, <2>2, <2>4, OneMoreFlagged
<1>8. ASSUME raced' = {} PROVE ArmedKnows'
  BY <1>0, <1>8 DEF IInv, ArmedKnows, Armed, Arming
<1>9. panic' # "none" => Taken'
  BY <1>0 DEF IInv, Taken
<1> QED
  BY <1>1, <1>2, <1>3, <1>4, <1>5, <1>6, <1>7, <1>8, <1>9 DEF IInv

\* A client's SVC counts what was flagged before.
LEMMA SignalStep == ASSUME IInv, NEW c \in Clients, Signal(c) PROVE IInv'
<1>0. /\ UNCHANGED << uptime, timerTime, userPtr, dfcs, svc, flagged, wants, due,
                      pending, prog, at, numReqs, msg, timers, completed, panic,
                      raced >>
      /\ c \in calling /\ calling' = calling \ {c}
      /\ completedRequests' = completedRequests + 1
  BY DEF Signal, kernelVars, loopVars, timerVars
<1>1. TypeOK'
  BY <1>0 DEF IInv, TypeOK
<1>2. StepsKnow' /\ PendingKnows' /\ ClientsKnow' /\ TimesKnow'
  BY <1>0 DEF IInv, StepsKnow, PendingKnows, ClientsKnow, TimesKnow, Sent, Handled,
              Taken
<1>3. ~Taken' => RequestKnows'
  BY <1>0 DEF IInv, Taken, RequestKnows
<1>4. ASSUME CountIsRight' PROVE CountKnows'
  <2>1. CountKnows /\ TypeOK
    BY <1>0, <1>4 DEF IInv, CountIsRight
  <2>2. IsFiniteSet(calling) /\ Cardinality(calling) \in Nat
    BY <2>1, CallingIs
  <2>3. Cardinality(calling') = Cardinality(calling) - 1
    BY <1>0, <2>2, FS_RemoveElement
  <2>4. completedRequests \in Nat /\ numReqs \in Nat
    BY <2>1 DEF TypeOK
  <2>5. completedRequests' + numReqs' + Cardinality(calling') = Cardinality(flagged')
    BY <1>0, <2>1, <2>2, <2>3, <2>4 DEF CountKnows
  <2> QED BY <1>0, <2>1, <2>5 DEF CountKnows, Rest
<1>5. raced' = {} => ArmedKnows'
  BY <1>0 DEF IInv, ArmedKnows, Armed, Arming
<1> QED BY <1>0, <1>1, <1>2, <1>3, <1>4, <1>5 DEF IInv, Taken

-----------------------------------------------------------------------------
(* The run loop                                                            *)

\* The requests that the loop is told of are all in its list.
LEMMA WaitStep == ASSUME IInv, WaitForAnyRequest, svc = Idle PROVE IInv'
<1>0. /\ UNCHANGED << uptime, timerTime, userPtr, dfcs, svc, flagged, wants, due,
                      calling, pending, msg, timers, completed, panic, raced >>
      /\ prog = "wait" /\ prog' = "iterate" /\ at' = 1
      /\ numReqs' = completedRequests /\ completedRequests' = 0
  BY DEF WaitForAnyRequest, kernelVars, clientVars, timerVars
<1>1. TypeOK'
  <2>1. 1 \in 1..(Cardinality(Requests) + 1)
    BY RequestsAre
  <2> QED BY <1>0, <2>1 DEF IInv, TypeOK
<1>2. StepsKnow'
  <2>1. Len(pending) \in Nat
    BY DEF IInv, TypeOK
  <2> QED BY <1>0, <2>1 DEF IInv, StepsKnow, Idle
<1>3. PendingKnows'
  BY <1>0 DEF IInv, PendingKnows, Taken
<1>4. ClientsKnow'
  BY <1>0 DEF IInv, ClientsKnow, Sent, Handled
<1>5. TimesKnow'
  BY <1>0 DEF IInv, TimesKnow, Sent, Handled
<1>6. ASSUME ~Taken' PROVE RequestKnows'
  BY <1>0, <1>6 DEF IInv, Taken, RequestKnows
<1>7. ASSUME CountIsRight' PROVE CountKnows'
  <2>1. CountKnows /\ ~Taken
    BY <1>0, <1>7 DEF IInv, CountIsRight, Taken
  <2>2. flagged \subseteq Range(pending)
    BY <1>0, <2>1, RequestsAre DEF IInv, TypeOK, StepsKnow, PendingKnows
  <2>3. Rest' = Range(pending)
    BY <1>0 DEF Rest, From, Range, IInv, TypeOK
  <2>4. flagged' \cap Rest' = flagged
    BY <1>0, <2>2, <2>3
  <2>5. /\ completedRequests \in Nat /\ numReqs = 0
        /\ Cardinality(calling) \in Nat /\ Cardinality(flagged) \in Nat
    <3>1. IsFiniteSet(flagged)
      BY RequestsAre, FS_Subset DEF IInv, TypeOK
    <3> QED BY <1>0, <2>1, <3>1, CallingIs, FS_CardinalityType
            DEF CountKnows, IInv, TypeOK
  <2>6. completedRequests + Cardinality(calling) = Cardinality(flagged)
    BY <2>1, <2>5 DEF CountKnows
  <2>7. /\ Cardinality(calling') = Cardinality(calling)
        /\ Cardinality(flagged') = Cardinality(flagged)
        /\ Cardinality(flagged' \cap Rest') = Cardinality(flagged)
        /\ numReqs' = completedRequests /\ completedRequests' = 0
    BY <1>0, <2>4
  <2>8. /\ completedRequests' + numReqs' + Cardinality(calling') = Cardinality(flagged')
        /\ numReqs' <= Cardinality(flagged' \cap Rest')
    BY <2>5, <2>6, <2>7
  <2> QED BY <1>0, <2>8 DEF CountKnows
<1>8. ASSUME raced' = {} PROVE ArmedKnows'
  BY <1>0, <1>8 DEF IInv, ArmedKnows, Armed, Arming
<1>9. panic' # "none" => Taken'
  BY <1>0 DEF IInv, Taken
<1> QED
  BY <1>1, <1>2, <1>3, <1>4, <1>5, <1>6, <1>7, <1>8, <1>9 DEF IInv

\* At the end of the list there is nothing that the loop was told of.
LEMMA LoopEndsStep == ASSUME IInv, LoopEnds, svc = Idle PROVE IInv'
<1>0. /\ UNCHANGED << uptime, timerTime, userPtr, dfcs, svc, completedRequests,
                      flagged, wants, due, calling, pending, at, msg, timers,
                      completed, panic, raced >>
      /\ prog = "iterate" /\ prog' = "wait" /\ numReqs' = 0
      /\ numReqs = 0 \/ at > Len(pending)
  BY DEF LoopEnds, kernelVars, clientVars, timerVars
<1>1. TypeOK'
  BY <1>0 DEF IInv, TypeOK
<1>2. StepsKnow'
  BY <1>0 DEF IInv, StepsKnow, Idle
<1>3. PendingKnows'
  BY <1>0 DEF IInv, PendingKnows, Taken
<1>4. ClientsKnow'
  BY <1>0 DEF IInv, ClientsKnow, Sent, Handled
<1>5. TimesKnow'
  BY <1>0 DEF IInv, TimesKnow, Sent, Handled
<1>6. ASSUME ~Taken' PROVE RequestKnows'
  BY <1>0, <1>6 DEF IInv, Taken, RequestKnows
<1>7. ASSUME CountIsRight' PROVE CountKnows'
  <2>1. CountKnows
    BY <1>0, <1>7 DEF IInv, CountIsRight
  <2>2. CASE numReqs = 0
    BY <1>0, <2>1, <2>2 DEF CountKnows
  <2>3. CASE at > Len(pending)
    <3>1. Rest = {}
      BY <2>3 DEF Rest, From, IInv, TypeOK
    <3>2. Cardinality(flagged \cap Rest) = 0
      BY <3>1, FS_EmptySet
    <3>3. numReqs = 0
      BY <1>0, <2>1, <3>2 DEF CountKnows, IInv, TypeOK
    <3> QED BY <1>0, <2>1, <3>3 DEF CountKnows
  <2> QED BY <1>0, <2>2, <2>3
<1>8. ASSUME raced' = {} PROVE ArmedKnows'
  BY <1>0, <1>8 DEF IInv, ArmedKnows, Armed, Arming
<1>9. panic' # "none" => Taken'
  BY <1>0 DEF IInv, Taken
<1> QED
  BY <1>1, <1>2, <1>3, <1>4, <1>5, <1>6, <1>7, <1>8, <1>9 DEF IInv

\* What is skipped is not one of them.
LEMMA LoopSkipsStep == ASSUME IInv, LoopSkips, svc = Idle PROVE IInv'
<1>0. /\ UNCHANGED << uptime, timerTime, userPtr, dfcs, svc, completedRequests,
                      flagged, wants, due, calling, pending, prog, numReqs, msg,
                      timers, completed, panic, raced >>
      /\ prog = "iterate" /\ at <= Len(pending) /\ pending[at] \notin flagged
      /\ at' = at + 1
  BY DEF LoopSkips, kernelVars, clientVars, timerVars
<1>a. at \in Nat \ {0} /\ Len(pending) \in Nat
  BY RequestsAre DEF IInv, TypeOK
<1>1. TypeOK'
  <2>1. Len(pending) <= Cardinality(Requests)
    BY NotLonger, RequestsAre DEF IInv, TypeOK
  <2>2. at' \in 1..(Cardinality(Requests) + 1)
    BY <1>0, <1>a, <2>1, RequestsAre
  <2> QED BY <1>0, <2>2 DEF IInv, TypeOK
<1>2. StepsKnow'
  BY <1>0, <1>a DEF IInv, StepsKnow
<1>3. PendingKnows'
  BY <1>0 DEF IInv, PendingKnows, Taken
<1>4. ClientsKnow'
  BY <1>0 DEF IInv, ClientsKnow, Sent, Handled
<1>5. TimesKnow'
  BY <1>0 DEF IInv, TimesKnow, Sent, Handled
<1>6. ASSUME ~Taken' PROVE RequestKnows'
  BY <1>0, <1>6 DEF IInv, Taken, RequestKnows
<1>7. ASSUME CountIsRight' PROVE CountKnows'
  <2>1. CountKnows
    BY <1>0, <1>7 DEF IInv, CountIsRight
  <2>2. Rest = Rest' \cup {pending[at]}
    <3> DEFINE n == Len(pending)
    <3>1. /\ \A k \in at..n : k \in (at + 1)..n \/ k = at
          /\ \A k \in (at + 1)..n : k \in at..n
          /\ at \in at..n
      BY <1>0, <1>a
    <3>2. /\ Rest = {pending[k] : k \in at..n}
          /\ Rest' = {pending[k] : k \in (at + 1)..n}
      BY <1>0 DEF Rest, From
    <3> HIDE DEF n
    <3> QED BY <3>1, <3>2
  <2>3. flagged \cap Rest = flagged' \cap Rest'
    BY <1>0, <2>2
  <2> QED BY <1>0, <2>1, <2>3 DEF CountKnows
<1>8. ASSUME raced' = {} PROVE ArmedKnows'
  BY <1>0, <1>8 DEF IInv, ArmedKnows, Armed, Arming
<1>9. panic' # "none" => Taken'
  BY <1>0 DEF IInv, Taken
<1> QED
  BY <1>1, <1>2, <1>3, <1>4, <1>5, <1>6, <1>7, <1>8, <1>9 DEF IInv

\* A request that is handled is one of them, and it is out of the list.
LEMMA LoopHandlesStep == ASSUME IInv, LoopHandles, svc = Idle PROVE IInv'
<1> DEFINE req == pending[at]
<1>0. /\ UNCHANGED << uptime, timerTime, userPtr, dfcs, svc, completedRequests,
                      wants, due, calling, at, timers, completed, panic, raced >>
      /\ prog = "iterate" /\ numReqs > 0 /\ at <= Len(pending)
      /\ req \in flagged /\ flagged' = flagged \ {req} /\ numReqs' = numReqs - 1
      /\ pending' = RemoveAt(pending, at)
      /\ msg' = IF req = Timer THEN None ELSE req
      /\ prog' = IF req = Timer THEN "timerExpired" ELSE "after"
  BY DEF LoopHandles, kernelVars, clientVars, timerVars
<1>a. /\ at \in 1..Len(pending) /\ numReqs \in Nat /\ Len(pending) \in Nat
      /\ pending \in Seq(Requests) /\ IsInjective(pending)
  BY <1>0, RequestsAre DEF IInv, TypeOK
<1>b. /\ pending' \in Seq(Requests) /\ Len(pending') = Len(pending) - 1
      /\ IsInjective(pending') /\ Range(pending') = Range(pending) \ {req}
      /\ Rest' = Rest \ {req} /\ req \in Rest
  BY <1>0, <1>a, TakenOutIs DEF Rest
<1>c. req \in Requests /\ msg = None /\ completed = << >>
  BY <1>0, <1>a DEF IInv, StepsKnow
<1> HIDE DEF req
<1>d. \/ /\ req = Timer /\ msg' = None /\ prog' = "timerExpired"
      \/ /\ req \in Clients /\ req # Timer /\ req # None
         /\ msg' = req /\ prog' = "after"
  BY <1>0, <1>c, RequestsAre
<1>e. /\ Handled = {} /\ Sent' \cup Handled' = Sent \cup Handled
      /\ Handled' \subseteq Sent /\ Sent' \subseteq Sent /\ Sent' \cap Handled' = {}
  BY <1>0, <1>d DEF Handled, Sent
<1>1. TypeOK'
  <2>1. numReqs' \in Nat /\ flagged' \subseteq Requests
    BY <1>0, <1>a DEF IInv, TypeOK
  <2>2. /\ msg' \in Clients \cup {None}
        /\ prog' \in {"wait", "iterate", "timerExpired", "complete", "after",
                      "setTimer", "queue"}
    BY <1>d
  <2> QED BY <1>0, <1>b, <2>1, <2>2 DEF IInv, TypeOK
<1>2. StepsKnow'
  <2>1. at' <= Len(pending') + 1
    BY <1>0, <1>a, <1>b
  <2> QED BY <1>0, <1>c, <1>d, <2>1 DEF StepsKnow, Idle
<1>3. PendingKnows'
  <2>1. \A c \in Clients : c \in Range(pending)
    BY <1>c, RequestsAre DEF IInv, PendingKnows
  <2>2. ~Taken => Timer \in Range(pending)
    BY <1>0 DEF IInv, PendingKnows
  <2>3. Taken' = Taken
    BY <1>0 DEF Taken
  <2> QED BY <1>b, <1>d, <2>1, <2>2, <2>3, RequestsAre DEF PendingKnows
<1>4. ClientsKnow'
  <2>1. Sent' \cap (Owners(timers) \cup Owners(completed)) = {}
    BY <1>e DEF IInv, ClientsKnow
  <2>2. Handled' \cap (Owners(timers) \cup Owners(completed)) = {}
    BY <1>e DEF IInv, ClientsKnow
  <2>3. \A c \in Clients :
          due[c] # -1 <=> c \in Sent' \cup Handled' \cup Owners(timers) \cup Owners(completed)
    BY <1>e DEF IInv, ClientsKnow
  <2>4. prog' \notin {"setTimer", "queue"}
    BY <1>d
  <2> QED BY <1>0, <1>e, <2>1, <2>2, <2>3, <2>4 DEF IInv, ClientsKnow
<1>5. TimesKnow'
  BY <1>0, <1>e DEF IInv, TimesKnow
<1>6. ASSUME ~Taken' PROVE RequestKnows'
  <2>1. RequestKnows
    BY <1>0, <1>6 DEF IInv, Taken
  <2>2. CASE req = Timer
    <3>1. ~userPtr /\ dfcs = << >> /\ Timer \notin flagged'
      BY <1>0, <2>1, <2>2 DEF RequestKnows
    <3> QED BY <1>0, <2>1, <3>1 DEF RequestKnows
  <2>3. CASE req # Timer
    <3>1. prog' = "after" /\ (Timer \in flagged' => Timer \in flagged)
      BY <1>0, <1>d, <2>3
    <3> QED BY <1>0, <2>1, <3>1 DEF RequestKnows
  <2> QED BY <2>2, <2>3
<1>7. ASSUME CountIsRight' PROVE CountKnows'
  <2>1. CountKnows
    BY <1>0, <1>7 DEF IInv, CountIsRight
  <2> DEFINE F == flagged \cap Rest
  <2>2. IsFiniteSet(flagged) /\ IsFiniteSet(F)
    BY RequestsAre, FS_Subset DEF IInv, TypeOK
  <2>3. /\ Cardinality(flagged) \in Nat
        /\ Cardinality(flagged') = Cardinality(flagged) - 1
    BY <1>0, <2>2, FS_RemoveElement, FS_CardinalityType
  <2>4. flagged' \cap Rest' = F \ {req} /\ req \in F
    BY <1>0, <1>b
  <2> HIDE DEF F
  <2>5. /\ Cardinality(F) \in Nat
        /\ Cardinality(F \ {req}) = Cardinality(F) - 1
    BY <2>2, <2>4, FS_RemoveElement, FS_CardinalityType
  <2>6. /\ completedRequests + numReqs + Cardinality(calling) = Cardinality(flagged)
        /\ numReqs <= Cardinality(F) /\ Cardinality(calling) \in Nat
    BY <1>0, <2>1, CallingIs DEF CountKnows, F, IInv
  <2>7. completedRequests' + numReqs' + Cardinality(calling') = Cardinality(flagged')
    BY <1>0, <1>a, <2>3, <2>6 DEF IInv, TypeOK
  <2>8. numReqs' <= Cardinality(flagged' \cap Rest')
    <3>1. numReqs - 1 <= Cardinality(F) - 1
      BY <1>a, <2>5, <2>6
    <3>2. Cardinality(flagged' \cap Rest') = Cardinality(F) - 1
      BY <2>4, <2>5
    <3> QED BY <1>0, <3>1, <3>2
  <2>9. prog' # "wait"
    BY <1>d
  <2> QED BY <2>7, <2>8, <2>9 DEF CountKnows
<1>8. ASSUME raced' = {} PROVE ArmedKnows'
  <2>1. ArmedKnows
    BY <1>0, <1>8 DEF IInv
  <2>2. CASE req = Timer
    BY <1>d, <2>2 DEF ArmedKnows
  <2>3. CASE req # Timer
    <3>1. Timer \in flagged => Timer \in flagged'
      BY <1>0, <2>3
    <3> QED BY <1>0, <2>1, <3>1 DEF ArmedKnows, Armed, Arming
  <2> QED BY <2>2, <2>3
<1>9. panic' # "none" => Taken'
  BY <1>0 DEF IInv, Taken
<1> QED
  BY <1>1, <1>2, <1>3, <1>4, <1>5, <1>6, <1>7, <1>8, <1>9 DEF IInv

-----------------------------------------------------------------------------
(* The timers                                                              *)

\* timerExpired takes out those that are due.
LEMMA TimerExpiredStep == ASSUME IInv, TimerExpired, svc = Idle PROVE IInv'
<1>0. /\ UNCHANGED << uptime, timerTime, userPtr, dfcs, svc, completedRequests,
                      flagged, wants, due, calling, pending, at, numReqs, msg,
                      panic, raced >>
      /\ prog = "timerExpired" /\ prog' = "complete"
  BY DEF TimerExpired, kernelVars, clientVars
<1> DEFINE n == Len(timers)
           expired == {i \in DOMAIN timers : IsDue(timers[i])}
<1>a. timers \in Seq(TimerRecords) /\ InOrder(timers) /\ Single(timers)
  BY DEF IInv, TypeOK, TimesKnow, ClientsKnow
<1>b. PICK m \in 0..n : expired = 1..m /\ DOMAIN timers \ expired = (m + 1)..n
  BY <1>a, DueFirst DEF IInv
<1>c. /\ completed' = ElementsAt(timers, expired)
      /\ timers' = ElementsAt(timers, DOMAIN timers \ expired)
  BY DEF TimerExpired
<1> HIDE DEF expired
<1>h. /\ n \in Nat /\ m \in Nat /\ m <= n /\ DOMAIN timers = 1..n
      /\ \A k \in 1..n : timers[k] \in TimerRecords
  BY <1>a
<1>d. /\ completed' = [k \in 1..m |-> timers[k]]
      /\ completed' \in Seq(TimerRecords)
  <2>1. completed' = ElementsAt(timers, 1..m)
    BY <1>b, <1>c
  <2>2. completed' = [k \in 1..m |-> timers[k]]
    BY <1>a, <2>1, ElementsAtFirst
  <2>3. [k \in 1..m |-> timers[k]] \in [1..m -> TimerRecords]
    BY <1>h
  <2> QED BY <1>h, <2>2, <2>3, IsASeq
<1>i. n - m \in Nat /\ \A k \in 1..(n - m) : m + k \in 1..n
  BY <1>h
<1>e. /\ timers' = [k \in 1..(n - m) |-> timers[m + k]]
      /\ timers' \in Seq(TimerRecords)
  <2>1. timers' = ElementsAt(timers, (m + 1)..Len(timers))
    BY <1>b, <1>c
  <2>2. timers' = [k \in 1..(n - m) |-> timers[m + k]]
    BY <1>a, <2>1, ElementsAtLast
  <2> DEFINE e(k) == timers[m + k]
             l == n - m
  <2>3. l \in Nat /\ \A k \in 1..l : e(k) \in TimerRecords
    BY <1>h, <1>i
  <2> HIDE DEF e, l
  <2>4. [k \in 1..l |-> e(k)] \in Seq(TimerRecords)
    BY <2>3, IsASeq
  <2> QED BY <2>2, <2>4 DEF e, l
<1>f. /\ completed' \in Seq(TimerRecords) /\ timers' \in Seq(TimerRecords)
      /\ Owners(timers) = Owners(completed') \cup Owners(timers')
      /\ Single(completed') /\ Single(timers')
      /\ Owners(completed') \cap Owners(timers') = {}
      /\ InOrder(timers')
  <2>1. DOMAIN completed' = 1..m /\ \A k \in 1..m : completed'[k] = timers[k]
    BY <1>d
  <2>2. /\ DOMAIN timers' = 1..(n - m)
        /\ \A k \in 1..(n - m) : timers'[k] = timers[m + k]
    BY <1>e
  <2>3. /\ completed' \in Seq(TimerRecords) /\ timers' \in Seq(TimerRecords)
        /\ timers \in Seq(TimerRecords) /\ m \in 0..n
    BY <1>a, <1>d, <1>e
  <2>4. /\ Owners(timers) = Owners(completed') \cup Owners(timers')
        /\ Single(timers) => /\ Single(completed') /\ Single(timers')
                             /\ Owners(completed') \cap Owners(timers') = {}
        /\ InOrder(timers) => InOrder(timers')
    BY <2>1, <2>2, <2>3, SplitIs
  <2> QED BY <1>a, <2>3, <2>4
<1>g. completed = << >> /\ Owners(completed) = {}
  BY <1>0 DEF IInv, StepsKnow, Owners
<1>1. TypeOK'
  BY <1>0, <1>f DEF IInv, TypeOK
<1>2. StepsKnow'
  BY <1>0 DEF IInv, StepsKnow, Idle
<1>3. PendingKnows'
  BY <1>0 DEF IInv, PendingKnows, Taken
<1>4. ClientsKnow'
  <2>1. Sent' = Sent /\ Handled' = {} /\ Handled = {}
    BY <1>0 DEF Sent, Handled
  <2> QED BY <1>0, <1>f, <1>g, <2>1 DEF IInv, ClientsKnow
<1>5. TimesKnow'
  <2>1. \A i \in 1..n : timers[i].time >= due[timers[i].client]
    BY <1>h DEF IInv, TimesKnow
  <2>2. \A i \in 1..n : /\ timers[i].time \in Int
                        /\ due[timers[i].client] \in Int
    <3>1. \A i \in 1..n : timers[i] \in TimerRecords
      BY <1>a, <1>h
    <3>2. \A c \in Clients : due[c] \in Int
      BY NeverIs DEF IInv, TypeOK, Times
    <3> QED BY <3>1, <3>2, NeverIs DEF TimerRecords, Times
  <2>3. \A i \in 1..m : i \in 1..n /\ uptime >= timers[i].time
    BY <1>b, <1>h DEF IsDue, expired
  <2>4. \A k \in DOMAIN timers' : timers'[k].time >= due[timers'[k].client]
    <3> SUFFICES ASSUME NEW k \in 1..(n - m)
                 PROVE  timers'[k].time >= due[timers'[k].client]
      BY <1>e
    <3>1. m + k \in 1..n /\ timers'[k] = timers[m + k]
      BY <1>e, <1>h
    <3> QED BY <2>1, <3>1
  <2>5. \A k \in DOMAIN completed' :
          due[completed'[k].client] <= completed'[k].time /\ completed'[k].time <= uptime
    <3> SUFFICES ASSUME NEW k \in 1..m
                 PROVE  due[completed'[k].client] <= completed'[k].time
                        /\ completed'[k].time <= uptime
      BY <1>d
    <3>1. completed'[k] = timers[k] /\ uptime \in Int
      BY <1>d, NeverIs DEF IInv, TypeOK
    <3> QED BY <2>1, <2>2, <2>3, <3>1
  <2>6. \A c \in Sent' \cup Handled' : due[c] <= uptime + wants[c]
    BY <1>0 DEF IInv, TimesKnow, Sent, Handled
  <2> QED BY <1>0, <1>f, <2>4, <2>5, <2>6 DEF TimesKnow
<1>6. ASSUME ~Taken' PROVE RequestKnows'
  BY <1>0, <1>6 DEF IInv, Taken, RequestKnows
<1>7. ASSUME CountIsRight' PROVE CountKnows'
  BY <1>0, <1>7 DEF IInv, CountIsRight, CountKnows, Rest
<1>8. ASSUME raced' = {} PROVE ArmedKnows'
  BY <1>0 DEF ArmedKnows
<1>9. panic' # "none" => Taken'
  BY <1>0 DEF IInv, Taken
<1> QED
  BY <1>1, <1>2, <1>3, <1>4, <1>5, <1>6, <1>7, <1>8, <1>9 DEF IInv

\* Each of them is answered, once.
LEMMA CompleteStep == ASSUME IInv, Complete, svc = Idle PROVE IInv'
<1> DEFINE h == Head(completed).client
<1>0. /\ UNCHANGED << uptime, timerTime, userPtr, dfcs, svc, completedRequests,
                      flagged, wants, calling, pending, prog, at, numReqs, msg,
                      timers, panic, raced >>
      /\ prog = "complete" /\ completed # << >> /\ completed' = Tail(completed)
      /\ due' = [due EXCEPT ![h] = -1]
  BY DEF Complete, kernelVars, loopVars
<1>a. completed \in Seq(TimerRecords) /\ Single(completed)
  BY DEF IInv, TypeOK, ClientsKnow
<1>b. /\ completed' \in Seq(TimerRecords) /\ Head(completed) \in TimerRecords
      /\ Owners(completed) = Owners(completed') \cup {h}
      /\ Single(completed') /\ h \notin Owners(completed')
      /\ \A i \in DOMAIN completed' :
           i + 1 \in DOMAIN completed /\ completed'[i] = completed[i + 1]
  BY <1>0, <1>a, AnsweredIs
<1>c. h \in Clients
  BY <1>b DEF TimerRecords
<1> HIDE DEF h
<1>d. due'[h] = -1 /\ \A c \in Clients : c # h => due'[c] = due[c]
  BY <1>0, <1>c DEF IInv, TypeOK
<1>e. h \notin Sent /\ h \notin Handled /\ h \notin Owners(timers)
  BY <1>b DEF IInv, ClientsKnow
<1>f. Sent' = Sent /\ Handled' = Handled
  BY <1>0 DEF Sent, Handled
<1>1. TypeOK'
  <2>1. due' \in [Clients -> Times \cup {-1}]
    BY <1>0, <1>c DEF IInv, TypeOK
  <2> QED BY <1>0, <1>b, <2>1 DEF IInv, TypeOK
<1>2. StepsKnow'
  BY <1>0 DEF IInv, StepsKnow
<1>3. PendingKnows'
  BY <1>0 DEF IInv, PendingKnows, Taken
<1>4. ClientsKnow'
  <2>1. ASSUME NEW c \in Clients
        PROVE  due'[c] # -1 <=>
                 c \in Sent \cup Handled \cup Owners(timers) \cup Owners(completed')
    <3>1. CASE c = h
      BY <3>1, <1>b, <1>d, <1>e
    <3>2. CASE c # h
      BY <3>2, <1>b, <1>d DEF IInv, ClientsKnow
    <3> QED BY <3>1, <3>2
  <2> QED BY <1>0, <1>b, <1>f, <2>1 DEF IInv, ClientsKnow
<1>5. TimesKnow'
  <2>1. \A c \in Sent \cup Handled : due'[c] = due[c]
    <3>1. Sent \cup Handled \subseteq Clients
      BY RequestsAre DEF IInv, TypeOK, StepsKnow, Sent, Handled
    <3> QED BY <1>d, <1>e, <3>1
  <2>2. \A i \in DOMAIN timers : due'[timers[i].client] = due[timers[i].client]
    <3> SUFFICES ASSUME NEW i \in DOMAIN timers
                 PROVE  due'[timers[i].client] = due[timers[i].client]
      OBVIOUS
    <3>1. timers[i] \in TimerRecords /\ timers[i].client # h
      BY <1>e DEF IInv, TypeOK, Owners
    <3> QED BY <1>d, <3>1 DEF TimerRecords
  <2>3. ASSUME NEW i \in DOMAIN completed'
        PROVE  due'[completed'[i].client] <= completed'[i].time
               /\ completed'[i].time <= uptime
    <3>1. i + 1 \in DOMAIN completed /\ completed'[i] = completed[i + 1]
      BY <1>b
    <3>2. completed'[i].client # h /\ completed'[i] \in TimerRecords
      BY <1>b DEF Owners
    <3>3. due'[completed'[i].client] = due[completed'[i].client]
      BY <1>d, <3>2 DEF TimerRecords
    <3> QED BY <3>1, <3>3 DEF IInv, TimesKnow
  <2> QED BY <1>0, <1>f, <2>1, <2>2, <2>3 DEF IInv, TimesKnow
<1>6. ASSUME ~Taken' PROVE RequestKnows'
  BY <1>0, <1>6 DEF IInv, Taken, RequestKnows
<1>7. ASSUME CountIsRight' PROVE CountKnows'
  BY <1>0, <1>7 DEF IInv, CountIsRight, CountKnows, Rest
<1>8. ASSUME raced' = {} PROVE ArmedKnows'
  BY <1>0 DEF ArmedKnows
<1>9. panic' # "none" => Taken'
  BY <1>0 DEF IInv, Taken
<1> QED
  BY <1>1, <1>2, <1>3, <1>4, <1>5, <1>6, <1>7, <1>8, <1>9 DEF IInv

\* The timer's request is queued again.
LEMMA RerequestStep == ASSUME IInv, Rerequest, svc = Idle PROVE IInv'
<1>0. /\ UNCHANGED << uptime, timerTime, userPtr, dfcs, svc, completedRequests,
                      flagged, wants, due, calling, at, numReqs, msg, timers,
                      completed, panic, raced >>
      /\ prog = "complete" /\ completed = << >> /\ Timer \notin flagged
      /\ pending' = Append(pending, Timer) /\ prog' = "setTimer"
  BY DEF Rerequest, kernelVars, clientVars, timerVars
<1>a. /\ pending \in Seq(Requests) /\ IsInjective(pending) /\ Len(pending) \in Nat
      /\ at \in Nat \ {0} /\ at <= Len(pending) + 1 /\ Timer \in Requests
      /\ Timer \notin Range(pending) /\ msg = None
  BY <1>0, RequestsAre DEF IInv, TypeOK, StepsKnow, PendingKnows
<1>b. /\ pending' \in Seq(Requests) /\ Len(pending') = Len(pending) + 1
      /\ Range(pending') = Range(pending) \cup {Timer}
      /\ Rest' = Rest \cup {Timer} /\ IsInjective(pending')
  BY <1>0, <1>a, QueueIs DEF Rest
<1>1. TypeOK'
  BY <1>0, <1>b DEF IInv, TypeOK
<1>2. StepsKnow'
  BY <1>0, <1>a, <1>b DEF IInv, StepsKnow, Idle
<1>3. PendingKnows'
  BY <1>0, <1>a, <1>b DEF IInv, PendingKnows
<1>4. ClientsKnow'
  BY <1>0, <1>a DEF IInv, ClientsKnow, Sent, Handled
<1>5. TimesKnow'
  BY <1>0 DEF IInv, TimesKnow, Sent, Handled
<1>6. ASSUME ~Taken' PROVE RequestKnows'
  BY <1>0, <1>6 DEF IInv, Taken, RequestKnows
<1>7. ASSUME CountIsRight' PROVE CountKnows'
  <2>1. CountKnows
    BY <1>0, <1>7 DEF IInv, CountIsRight
  <2>2. flagged' \cap Rest' = flagged \cap Rest
    BY <1>0, <1>b
  <2> QED BY <1>0, <2>1, <2>2 DEF CountKnows
<1>8. ASSUME raced' = {} PROVE ArmedKnows'
  BY <1>0 DEF ArmedKnows
<1>9. panic' # "none" => Taken'
  BY <1>0 DEF IInv, Taken
<1> QED
  BY <1>1, <1>2, <1>3, <1>4, <1>5, <1>6, <1>7, <1>8, <1>9 DEF IInv

\* A new timer goes in front, or the array is sorted.
LEMMA HandleAfterStep == ASSUME IInv, HandleAfter, svc = Idle PROVE IInv'
<1> DEFINE t == [time |-> uptime + wants[msg], client |-> msg]
           isFirst == timers = << >> \/ t.time < timers[1].time
<1>0. /\ UNCHANGED << uptime, timerTime, userPtr, dfcs, svc, completedRequests,
                      flagged, wants, due, calling, pending, at, numReqs, msg,
                      completed, panic, raced >>
      /\ prog = "after"
  BY DEF HandleAfter, kernelVars, clientVars
<1>a. \/ isFirst /\ timers' = << t >> \o timers /\ prog' = "setTimer"
      \/ /\ ~isFirst /\ timers' \in SetToSeqs(Range(timers) \cup {t})
         /\ InOrder(timers') /\ prog' = "queue"
  BY DEF HandleAfter
<1>b. /\ timers \in Seq(TimerRecords) /\ InOrder(timers) /\ Single(timers)
      /\ msg \in Clients /\ msg \notin Owners(timers) /\ msg \notin Sent
      /\ Handled = {msg} /\ completed = << >>
  BY <1>0 DEF IInv, TypeOK, TimesKnow, ClientsKnow, StepsKnow, Handled
<1>c. /\ uptime + wants[msg] \in Times
      /\ t \in TimerRecords /\ t.client = msg /\ t.time = uptime + wants[msg]
  <2>1. wants[msg] \in Waits \cup {0} /\ uptime \in 0..MaxTime
    BY <1>b DEF IInv, TypeOK
  <2>2. /\ wants[msg] \in Nat /\ MaxTime + wants[msg] < Never
        /\ MaxTime \in Nat /\ Never \in Nat
    BY <2>1, NeverIs
  <2>3. uptime + wants[msg] \in Times
    BY <2>1, <2>2 DEF Times
  <2> QED BY <1>b, <2>3 DEF TimerRecords
<1> HIDE DEF t
<1>d. timers # << >> => timers[1].time \in Int /\ t.time \in Int
  <2>1. \A r \in TimerRecords : r.time \in Int
    BY NeverIs DEF TimerRecords, Times
  <2>2. timers # << >> => timers[1] \in TimerRecords
    BY <1>b
  <2> QED BY <1>c, <2>1, <2>2
<1>e. /\ timers' \in Seq(TimerRecords) /\ timers' # << >>
      /\ Range(timers') = Range(timers) \cup {t}
      /\ Owners(timers') = Owners(timers) \cup {msg}
      /\ Single(timers') /\ InOrder(timers')
      /\ \/ prog' = "setTimer"
         \/ prog' = "queue" /\ timers # << >> /\ timers'[1].time = timers[1].time
  <2>1. CASE isFirst /\ timers' = << t >> \o timers /\ prog' = "setTimer"
    <3>1. timers # << >> => t.time <= timers[1].time
      BY <2>1, <1>d
    <3> QED BY <2>1, <3>1, <1>b, <1>c, InFrontIs
  <2>2. CASE /\ ~isFirst /\ timers' \in SetToSeqs(Range(timers) \cup {t})
             /\ InOrder(timers') /\ prog' = "queue"
    <3>1. timers # << >> /\ timers[1].time <= t.time
      BY <2>2, <1>d
    <3> QED BY <2>2, <3>1, <1>b, <1>c, SortedIs
  <2> QED BY <1>a, <2>1, <2>2
<1>f. Handled' = {} /\ Sent' = Sent
  BY <1>0, <1>e DEF Handled, Sent
<1>1. TypeOK'
  BY <1>0, <1>e DEF IInv, TypeOK
<1>2. StepsKnow'
  BY <1>0, <1>b, <1>e DEF IInv, StepsKnow, Idle
<1>3. PendingKnows'
  BY <1>0, <1>e DEF IInv, PendingKnows, Taken
<1>4. ClientsKnow'
  <2>1. Owners(completed) = {} /\ Owners(completed') = {}
    BY <1>0, <1>b DEF Owners
  <2>2. Single(completed')
    BY <1>0 DEF IInv, ClientsKnow
  <2> QED BY <1>0, <1>b, <1>e, <1>f, <2>1, <2>2 DEF IInv, ClientsKnow
<1>5. TimesKnow'
  <2>1. \A r \in Range(timers) : r.time >= due[r.client]
    BY DEF IInv, TimesKnow, Range
  <2>2. t.time >= due[t.client]
    <3>1. due[msg] <= uptime + wants[msg]
      BY <1>b DEF IInv, TimesKnow
    <3>2. due[msg] \in Int /\ uptime + wants[msg] \in Int
      BY <1>b, <1>c, NeverIs DEF IInv, TypeOK, Times
    <3> QED BY <1>c, <3>1, <3>2
  <2>3. \A i \in DOMAIN timers' : timers'[i].time >= due[timers'[i].client]
    <3>1. \A i \in DOMAIN timers' : timers'[i] \in Range(timers')
      BY DEF Range
    <3> QED BY <1>e, <2>1, <2>2, <3>1
  <2>4. \A c \in Sent' \cup Handled' : due[c] <= uptime + wants[c]
    BY <1>f DEF IInv, TimesKnow
  <2> QED BY <1>0, <1>e, <2>3, <2>4 DEF IInv, TimesKnow
<1>6. ASSUME ~Taken' PROVE RequestKnows'
  <2>1. RequestKnows
    BY <1>0, <1>6 DEF IInv, Taken
  <2>2. msg' # None /\ prog' \in {"setTimer", "queue"}
    BY <1>0, <1>b, <1>e, RequestsAre
  <2> QED BY <1>0, <2>1, <2>2 DEF RequestKnows
<1>7. ASSUME CountIsRight' PROVE CountKnows'
  <2>1. CountKnows
    BY <1>0, <1>7 DEF IInv, CountIsRight
  <2> QED BY <1>0, <1>e, <2>1 DEF CountKnows, Rest
<1>8. ASSUME raced' = {} PROVE ArmedKnows'
  <2>1. ArmedKnows
    BY <1>0, <1>8 DEF IInv
  <2> QED BY <1>0, <1>e, <2>1 DEF ArmedKnows, Armed, Arming
<1>9. panic' # "none" => Taken'
  BY <1>0 DEF IInv, Taken
<1> QED
  BY <1>1, <1>2, <1>3, <1>4, <1>5, <1>6, <1>7, <1>8, <1>9 DEF IInv

\* The kernel is told of the first timer.
LEMMA SetNewTimerStep == ASSUME IInv, SetNewTimerCallback, svc = Idle PROVE IInv'
<1>0. /\ UNCHANGED << uptime, timerTime, dfcs, completedRequests, flagged, wants,
                      due, calling, pending, at, numReqs, msg, timers, completed,
                      panic >>
      /\ prog = "setTimer" /\ Timer \notin flagged /\ userPtr' = TRUE
      /\ svc' = [step |-> "compare",
                 time |-> IF timers = << >> THEN Never ELSE timers[1].time]
      /\ prog' = IF msg = None THEN "iterate" ELSE "queue"
      /\ raced' = IF dfcs = << >> THEN raced ELSE raced \cup {"taken"}
  BY DEF SetNewTimerCallback, clientVars, timerVars
<1>a. \/ msg = None /\ prog' = "iterate"
      \/ msg \in Clients /\ msg # None /\ prog' = "queue"
  BY <1>0 DEF IInv, TypeOK
<1>b. /\ svc'.step = "compare" /\ svc'.time \in Times
      /\ timers # << >> => svc'.time = timers[1].time
      /\ svc' \in [step : {"idle", "compare", "complete", "store"}, time : Times]
  <2>1. timers # << >> => timers[1] \in TimerRecords
    BY DEF IInv, TypeOK
  <2>2. svc'.time \in Times
    BY <1>0, <2>1, NeverIs DEF TimerRecords, Times
  <2> QED BY <1>0, <2>2
<1>c. /\ raced \subseteq raced' /\ raced' \subseteq raced \cup {"taken"}
      /\ ~Taken' => dfcs = << >>
  BY <1>0 DEF Taken
<1>1. TypeOK'
  BY <1>0, <1>a, <1>b, <1>c DEF IInv, TypeOK
<1>2. StepsKnow'
  BY <1>0, <1>a, <1>b DEF IInv, StepsKnow
<1>3. PendingKnows'
  BY <1>0, <1>a, <1>c DEF IInv, PendingKnows, Taken
<1>4. ClientsKnow'
  BY <1>0, <1>a DEF IInv, ClientsKnow, Sent, Handled
<1>5. TimesKnow'
  BY <1>0, <1>a DEF IInv, TimesKnow, Sent, Handled
<1>6. ASSUME ~Taken' PROVE RequestKnows'
  BY <1>0, <1>6, <1>a, <1>b, <1>c DEF RequestKnows
<1>7. ASSUME CountIsRight' PROVE CountKnows'
  <2>1. CountKnows
    BY <1>7, <1>c DEF IInv, CountIsRight
  <2> QED BY <1>0, <1>a, <2>1 DEF CountKnows, Rest
<1>8. ASSUME raced' = {} PROVE ArmedKnows'
  BY <1>0, <1>b DEF ArmedKnows, Arming
<1>9. panic' # "none" => Taken'
  BY <1>0, <1>c DEF IInv, Taken
<1> QED
  BY <1>1, <1>2, <1>3, <1>4, <1>5, <1>6, <1>7, <1>8, <1>9 DEF IInv

\* The message is queued again, behind what the loop has to look at.
LEMMA QueueMsgStep == ASSUME IInv, QueueMsg, svc = Idle PROVE IInv'
<1>0. /\ UNCHANGED << uptime, timerTime, userPtr, dfcs, svc, completedRequests,
                      flagged, wants, due, calling, at, numReqs, timers,
                      completed, panic, raced >>
      /\ prog = "queue" /\ pending' = Append(pending, msg)
      /\ prog' = "iterate" /\ msg' = None
  BY DEF QueueMsg, kernelVars, clientVars, timerVars
<1>a. /\ pending \in Seq(Requests) /\ IsInjective(pending) /\ Len(pending) \in Nat
      /\ at \in Nat \ {0} /\ at <= Len(pending) + 1 /\ msg \in Requests
      /\ msg \notin Range(pending) /\ msg # None
  BY <1>0, RequestsAre DEF IInv, TypeOK, StepsKnow, PendingKnows
<1>b. /\ pending' \in Seq(Requests) /\ Len(pending') = Len(pending) + 1
      /\ Range(pending') = Range(pending) \cup {msg}
      /\ Rest' = Rest \cup {msg} /\ IsInjective(pending')
  BY <1>0, <1>a, QueueIs DEF Rest
<1>1. TypeOK'
  BY <1>0, <1>b DEF IInv, TypeOK
<1>2. StepsKnow'
  BY <1>0, <1>a, <1>b DEF IInv, StepsKnow, Idle
<1>3. PendingKnows'
  BY <1>0, <1>b DEF IInv, PendingKnows, Taken
<1>4. ClientsKnow'
  BY <1>0 DEF IInv, ClientsKnow, Sent, Handled
<1>5. TimesKnow'
  BY <1>0 DEF IInv, TimesKnow, Sent, Handled
<1>6. ASSUME ~Taken' PROVE RequestKnows'
  BY <1>0, <1>6 DEF IInv, Taken, RequestKnows
<1>7. ASSUME CountIsRight' PROVE CountKnows'
  <2>1. CountKnows
    BY <1>0, <1>7 DEF IInv, CountIsRight
  <2>2. IsFiniteSet(flagged)
    BY RequestsAre, FS_Subset DEF IInv, TypeOK
  <2>3. flagged \cap Rest \subseteq flagged' \cap Rest' /\ flagged' = flagged
    BY <1>0, <1>b
  <2>4. IsFiniteSet(flagged \cap Rest) /\ IsFiniteSet(flagged' \cap Rest')
    BY <2>2, <2>3, FS_Intersection
  <2>5. /\ Cardinality(flagged \cap Rest) <= Cardinality(flagged' \cap Rest')
        /\ Cardinality(flagged \cap Rest) \in Nat
        /\ Cardinality(flagged' \cap Rest') \in Nat
    BY <2>3, <2>4, FS_Subset, FS_CardinalityType
  <2>6. numReqs \in Nat /\ numReqs <= Cardinality(flagged \cap Rest)
    BY <1>0, <2>1 DEF CountKnows, IInv, TypeOK
  <2>7. numReqs <= Cardinality(flagged' \cap Rest')
    BY <2>5, <2>6
  <2> QED BY <1>0, <2>1, <2>7 DEF CountKnows
<1>8. ASSUME raced' = {} PROVE ArmedKnows'
  BY <1>0, <1>8 DEF IInv, ArmedKnows, Armed, Arming
<1>9. panic' # "none" => Taken'
  BY <1>0 DEF IInv, Taken
<1> QED
  BY <1>1, <1>2, <1>3, <1>4, <1>5, <1>6, <1>7, <1>8, <1>9 DEF IInv

\* The error: the requests that the loop was told of and has not handled are
\* not counted any more.
LEMMA SetTimerErrorStep == ASSUME IInv, SetTimerError, svc = Idle PROVE IInv'
<1>0. /\ UNCHANGED << uptime, timerTime, userPtr, dfcs, svc, completedRequests,
                      flagged, wants, due, calling, at, timers, completed,
                      panic >>
      /\ prog = "setTimer" \/ (prog = "complete" /\ completed = << >>)
      /\ Timer \in flagged
      /\ pending' = IF msg = None THEN pending ELSE Append(pending, msg)
      /\ prog' = "wait" /\ numReqs' = 0 /\ msg' = None
      /\ raced' = IF numReqs > 0 THEN raced \cup {"uncounted"} ELSE raced
  BY DEF SetTimerError, kernelVars, clientVars, timerVars
<1>a. /\ pending \in Seq(Requests) /\ IsInjective(pending) /\ Len(pending) \in Nat
      /\ at \in Nat \ {0} /\ at <= Len(pending) + 1
      /\ msg # None => msg \in Requests /\ msg \in Clients /\ msg \notin Range(pending)
  BY <1>0, RequestsAre DEF IInv, TypeOK, StepsKnow, PendingKnows
<1>b. /\ pending' \in Seq(Requests) /\ IsInjective(pending')
      /\ Range(pending') = Range(pending) \cup (IF msg = None THEN {} ELSE {msg})
  <2>1. CASE msg = None
    BY <2>1, <1>0, <1>a
  <2>2. CASE msg # None
    BY <2>2, <1>0, <1>a, QueueIs
  <2> QED BY <2>1, <2>2
<1>c. /\ raced \subseteq raced' /\ raced' \subseteq raced \cup {"uncounted"}
      /\ Taken' = Taken /\ ("uncounted" \notin raced' => ~(numReqs > 0))
  BY <1>0 DEF Taken
<1>d. ~Taken => RequestKnows /\ prog = "setTimer"
  BY <1>0 DEF IInv, RequestKnows
<1>e. completed = << >>
  BY <1>0 DEF IInv, StepsKnow
<1>1. TypeOK'
  BY <1>0, <1>b, <1>c DEF IInv, TypeOK
<1>2. StepsKnow'
  BY <1>0, <1>e DEF StepsKnow, Idle
<1>3. PendingKnows'
  <2>1. \A c \in Clients : c \in Range(pending')
    BY <1>b, RequestsAre DEF IInv, PendingKnows
  <2>2. ~Taken' => Timer \in Range(pending')
    BY <1>b, <1>c, <1>d DEF IInv, PendingKnows
  <2> QED BY <1>0, <2>1, <2>2 DEF PendingKnows
<1>4. ClientsKnow'
  BY <1>0 DEF IInv, ClientsKnow, Sent, Handled
<1>5. TimesKnow'
  BY <1>0 DEF IInv, TimesKnow, Sent, Handled
<1>6. ASSUME ~Taken' PROVE RequestKnows'
  BY <1>0, <1>6, <1>c, <1>d DEF RequestKnows
<1>7. ASSUME CountIsRight' PROVE CountKnows'
  <2>1. CountKnows /\ ~(numReqs > 0) /\ numReqs \in Nat
    BY <1>7, <1>c DEF IInv, CountIsRight, TypeOK
  <2>2. numReqs = 0
    BY <2>1
  <2> QED BY <1>0, <2>1, <2>2 DEF CountKnows
<1>8. ASSUME raced' = {} PROVE ArmedKnows'
  BY <1>0 DEF ArmedKnows
<1>9. panic' # "none" => Taken'
  BY <1>0, <1>c DEF IInv
<1> QED
  BY <1>1, <1>2, <1>3, <1>4, <1>5, <1>6, <1>7, <1>8, <1>9 DEF IInv

-----------------------------------------------------------------------------
(* Every step                                                              *)

LEMMA NextStep == ASSUME IInv, Next PROVE IInv'
<1>0. panic = "none"
  BY DEF Next
<1>1. CASE Tick
  BY <1>0, <1>1, TickStep
<1>2. CASE DfcRun
  BY <1>0, <1>2, DfcRunStep
<1>3. CASE SvcStep
  BY <1>0, <1>3, SvcCompareStep, SvcCompleteStep, SvcStoreStep DEF SvcStep
<1>4. CASE /\ svc = Idle
           /\ \/ WaitForAnyRequest \/ LoopEnds \/ LoopSkips \/ LoopHandles
              \/ TimerExpired \/ Complete \/ Rerequest
              \/ HandleAfter \/ SetNewTimerCallback \/ QueueMsg \/ SetTimerError
  BY <1>4, WaitStep, LoopEndsStep, LoopSkipsStep, LoopHandlesStep,
     TimerExpiredStep, CompleteStep, RerequestStep, HandleAfterStep,
     SetNewTimerStep, QueueMsgStep, SetTimerErrorStep
<1>5. ASSUME NEW c \in Clients, NEW msecs \in Waits, After(c, msecs) PROVE IInv'
  BY <1>5, AfterStep
<1>6. ASSUME NEW c \in Clients, Signal(c) PROVE IInv'
  BY <1>6, SignalStep
<1> QED BY <1>1, <1>2, <1>3, <1>4, <1>5, <1>6 DEF Next, ServerStep

LEMMA StutterStep == ASSUME IInv, UNCHANGED vars PROVE IInv'
<1>0. UNCHANGED << uptime, timerTime, userPtr, dfcs, svc, completedRequests,
                   flagged, wants, due, calling, pending, prog, at, numReqs, msg,
                   timers, completed, panic, raced >>
  BY DEF vars, kernelVars, clientVars, loopVars, timerVars
<1>1. TypeOK' /\ StepsKnow' /\ PendingKnows' /\ ClientsKnow' /\ TimesKnow'
  BY <1>0 DEF IInv, TypeOK, StepsKnow, PendingKnows, ClientsKnow, TimesKnow, Sent,
              Handled, Taken
<1>2. ~Taken' => RequestKnows'
  BY <1>0 DEF IInv, Taken, RequestKnows
<1>3. CountIsRight' => CountKnows'
  BY <1>0 DEF IInv, CountIsRight, CountKnows, Rest
<1>4. raced' = {} => ArmedKnows'
  BY <1>0 DEF IInv, ArmedKnows, Armed, Arming
<1> QED BY <1>0, <1>1, <1>2, <1>3, <1>4 DEF IInv, Taken

\* The invariant that the theorems below are read off, in every state.
THEOREM Inductive == Spec => []IInv
<1>1. Init => IInv
  BY InitIInv
<1>2. IInv /\ [Next]_vars => IInv'
  BY NextStep, StutterStep
<1> QED BY <1>1, <1>2, PTL DEF Spec

-----------------------------------------------------------------------------
(* What follows                                                            *)

\* In an array of timers no two of which are of one client, the entries of a
\* client are one or none.
LEMMA EntriesOf ==
  ASSUME NEW s \in Seq(TimerRecords), Single(s), NEW c
  PROVE  LET I == {i \in DOMAIN s : s[i].client = c}
         IN  Cardinality(I) = IF c \in Owners(s) THEN 1 ELSE 0
<1> DEFINE I == {i \in DOMAIN s : s[i].client = c}
<1>1. CASE c \in Owners(s)
  <2>1. PICK i \in DOMAIN s : s[i].client = c
    BY <1>1 DEF Owners
  <2>2. I = {i}
    BY <2>1 DEF Single
  <2> QED BY <1>1, <2>2, FS_Singleton
<1>2. CASE c \notin Owners(s)
  <2>1. I = {}
    BY <1>2 DEF Owners
  <2> QED BY <1>2, <2>1, FS_EmptySet
<1> QED BY <1>1, <1>2

\* Two arrays of timers that have no client in common are one such array.
LEMMA BothAre ==
  ASSUME NEW s \in Seq(TimerRecords), NEW q \in Seq(TimerRecords),
         Single(s), Single(q), Owners(s) \cap Owners(q) = {}
  PROVE  /\ s \o q \in Seq(TimerRecords) /\ Single(s \o q)
         /\ Owners(s \o q) = Owners(s) \cup Owners(q)
         /\ Range(s \o q) = Range(s) \cup Range(q)
<1> DEFINE m == Len(s)
           n == Len(q)
           u == s \o q
<1>1. /\ m \in Nat /\ n \in Nat /\ DOMAIN s = 1..m /\ DOMAIN q = 1..n
      /\ u \in Seq(TimerRecords) /\ DOMAIN u = 1..(m + n)
      /\ \A i \in 1..m : u[i] = s[i]
      /\ \A i \in (m + 1)..(m + n) : u[i] = q[i - m]
  OBVIOUS
<1> HIDE DEF m, n, u
<1>2. /\ \A i \in 1..m : i \in 1..(m + n)
      /\ \A i \in 1..n : i + m \in 1..(m + n) /\ u[i + m] = q[i]
      /\ \A i \in 1..(m + n) :
           i \in 1..m \/ (i - m \in 1..n /\ i = (i - m) + m /\ u[i] = q[i - m])
  <2>1. ASSUME NEW i \in 1..n
        PROVE  i + m \in (m + 1)..(m + n) /\ i + m \in 1..(m + n) /\ (i + m) - m = i
    BY <1>1
  <2>2. ASSUME NEW i \in 1..n PROVE u[i + m] = q[i]
    BY <1>1, <2>1
  <2>3. ASSUME NEW i \in 1..(m + n), i \notin 1..m
        PROVE  i - m \in 1..n /\ i = (i - m) + m /\ i \in (m + 1)..(m + n)
    BY <1>1, <2>3
  <2> QED BY <1>1, <2>1, <2>2, <2>3
<1>3. Range(u) = Range(s) \cup Range(q)
  <2>1. /\ Range(u) = {u[i] : i \in 1..(m + n)}
        /\ Range(s) = {s[i] : i \in 1..m} /\ Range(q) = {q[i] : i \in 1..n}
    BY <1>1, Zenon DEF Range
  <2>2. \A i \in 1..(m + n) : u[i] \in Range(s) \cup Range(q)
    BY <1>1, <1>2, <2>1
  <2>3. \A i \in 1..m : s[i] \in Range(u)
    BY <1>1, <1>2, <2>1
  <2>4. \A i \in 1..n : q[i] \in Range(u)
    BY <1>2, <2>1
  <2>5. \A r \in Range(s) : r \in Range(u)
    BY <2>1, <2>3
  <2>6. \A r \in Range(q) : r \in Range(u)
    BY <2>1, <2>4
  <2>7. \A r \in Range(u) : r \in Range(s) \cup Range(q)
    BY <2>1, <2>2
  <2> QED BY <2>5, <2>6, <2>7
<1>4. Owners(u) = Owners(s) \cup Owners(q)
  <2>1. Owners(u) = {r.client : r \in Range(u)}
    BY DEF Owners, Range
  <2>2. Owners(s) = {r.client : r \in Range(s)}
    BY DEF Owners, Range
  <2>3. Owners(q) = {r.client : r \in Range(q)}
    BY DEF Owners, Range
  <2> QED BY <1>3, <2>1, <2>2, <2>3
<1>5. Single(u)
  <2> SUFFICES ASSUME NEW i \in 1..(m + n), NEW j \in 1..(m + n),
                      u[i].client = u[j].client
               PROVE  i = j
    BY <1>1 DEF Single
  <2>1. \A k \in 1..m : u[k].client \in Owners(s)
    BY <1>1 DEF Owners
  <2>2. \A k \in 1..(m + n) : k \in 1..m \/ u[k].client \in Owners(q)
    BY <1>1, <1>2 DEF Owners
  <2>3. CASE i \in 1..m /\ j \in 1..m
    BY <2>3, <1>1 DEF Single
  <2>4. CASE i \notin 1..m /\ j \notin 1..m
    <3>1. i - m \in 1..n /\ j - m \in 1..n /\ q[i - m].client = q[j - m].client
      BY <2>4, <1>2
    <3>2. i - m = j - m
      BY <3>1, <1>1 DEF Single
    <3> QED BY <2>4, <3>2, <1>2
  <2> QED BY <2>1, <2>2, <2>3, <2>4
<1> QED BY <1>1, <1>3, <1>4, <1>5 DEF u

\* A client that waits is in one place: IInv has it in one of four sets.
LEMMA TimersAreOnce == ASSUME IInv PROVE EachTimerOnce
<1> DEFINE held == timers \o completed
           Entry(c) == {i \in DOMAIN held : held[i].client = c}
<1>1. /\ timers \in Seq(TimerRecords) /\ completed \in Seq(TimerRecords)
      /\ Single(timers) /\ Single(completed)
      /\ Owners(timers) \cap Owners(completed) = {}
  BY DEF IInv, TypeOK, ClientsKnow
<1>2. /\ held \in Seq(TimerRecords) /\ Single(held)
      /\ Owners(held) = Owners(timers) \cup Owners(completed)
      /\ Range(held) = Range(timers) \cup Range(completed)
  BY <1>1, BothAre
<1> HIDE DEF held
<1>3. \A i \in DOMAIN held : held[i].time >= due[held[i].client]
  <2>1. \A r \in Range(timers) : r.time >= due[r.client]
    BY DEF IInv, TimesKnow, Range
  <2>2. \A r \in Range(completed) : due[r.client] <= r.time
    BY DEF IInv, TimesKnow, Range
  <2>3. \A r \in TimerRecords : r.time \in Int /\ due[r.client] \in Int
    BY NeverIs DEF IInv, TypeOK, TimerRecords, Times
  <2>4. \A i \in DOMAIN held : held[i] \in Range(held) /\ held[i] \in TimerRecords
    BY <1>2 DEF Range
  <2> QED BY <1>2, <2>1, <2>2, <2>3, <2>4
<1>4. ASSUME NEW c \in Clients
      PROVE  (IF c \in flagged THEN 1 ELSE 0)
             + (IF msg = c /\ prog = "after" THEN 1 ELSE 0)
             + Cardinality(Entry(c)) = (IF due[c] = -1 THEN 0 ELSE 1)
  <2>1. Cardinality(Entry(c)) = IF c \in Owners(held) THEN 1 ELSE 0
    BY <1>2, EntriesOf
  <2>2. c \in Sent <=> c \in flagged
    BY RequestsAre DEF Sent
  <2>3. c \in Handled <=> msg = c /\ prog = "after"
    BY DEF Handled
  <2>4. /\ due[c] # -1 <=> c \in Sent \cup Handled \cup Owners(held)
        /\ ~(c \in Sent /\ c \in Handled)
        /\ ~(c \in Sent /\ c \in Owners(held))
        /\ ~(c \in Handled /\ c \in Owners(held))
    BY <1>2 DEF IInv, ClientsKnow
  <2> HIDE DEF Entry
  <2> QED BY <2>1, <2>2, <2>3, <2>4
<1> QED BY <1>3, <1>4 DEF IInv, TimesKnow, EachTimerOnce, held

\* Every client that waits for a timer is in one place, and no timer of the
\* server expires before its client expects it.
THEOREM TimerOnce == Spec => []EachTimerOnce
BY Inductive, TimersAreOnce, PTL

\* The run loop is told of as many requests as were flagged, each once, those
\* that a client has still to call about not yet, unless an error makes it forget
\* some or the tick took the request during KExecSetTimer; and only then does the
\* kernel complete a request that it no longer has.
THEOREM RequestOnce == Spec => []CompletedOnce
<1>1. IInv => CompletedOnce
  BY DEF IInv, CountIsRight, CountKnows, Taken, CompletedOnce
<1> QED BY <1>1, Inductive, PTL

\* When the server sleeps with timers in its array, the kernel has the earliest
\* of them, or is completing it, or has and a client whose message was handled on
\* that count has still to call, as long as no race was lost.
THEOREM EarliestArmed == Spec => []EarliestIsArmed
<1>1. ASSUME IInv, prog = "wait", completedRequests = 0, timers # << >>, raced = {}
      PROVE  \/ timerTime = timers[1].time /\ userPtr /\ uptime < timerTime
             \/ dfcs # << >>
             \/ Timer \in flagged /\ calling # {}
  <2>1. ArmedKnows /\ CountKnows
    BY <1>1 DEF IInv, CountIsRight
  <2>2. ~Arming
    BY <1>1 DEF IInv, StepsKnow, Arming
  <2>3. Timer \in flagged => calling # {}
    <3>1. SUFFICES ASSUME calling = {} PROVE Timer \notin flagged
      OBVIOUS
    <3>2. IsFiniteSet(flagged)
      BY <1>1, RequestsAre, FS_Subset DEF IInv, TypeOK
    <3>3. Cardinality(flagged) = 0
      BY <1>1, <2>1, <3>1, FS_EmptySet DEF CountKnows
    <3> QED BY <3>2, <3>3, FS_EmptySet
  <2>4. Armed \/ dfcs # << >> \/ Timer \in flagged
    BY <1>1, <2>1, <2>2 DEF ArmedKnows
  <2> QED BY <2>3, <2>4 DEF Armed
<1>2. IInv => EarliestIsArmed
  BY <1>1 DEF EarliestIsArmed
<1> QED BY <1>2, Inductive, PTL

-----------------------------------------------------------------------------
(* The refinement                                                          *)

\* The clock is the abstract one; to ask for a timer and to answer are the
\* abstract steps; all else is not seen.
LEMMA StepImplements ==
  ASSUME IInv, Next
  PROVE  Abstract!Next \/ UNCHANGED << uptime, due >>
<1>1. CASE Tick
  BY <1>1 DEF Tick, Abstract!Next, Abstract!Tick, clientVars
<1>2. CASE DfcRun \/ SvcStep
  BY <1>2 DEF DfcRun, SvcStep, SvcCompare, SvcComplete, SvcStore, clientVars
<1>3. CASE WaitForAnyRequest \/ LoopEnds \/ LoopSkips \/ LoopHandles
  BY <1>3 DEF WaitForAnyRequest, LoopEnds, LoopSkips, LoopHandles, kernelVars,
              clientVars
<1>4. CASE TimerExpired \/ Rerequest \/ HandleAfter \/ QueueMsg \/ SetTimerError
  BY <1>4 DEF TimerExpired, Rerequest, HandleAfter, QueueMsg, SetTimerError,
              kernelVars, clientVars
<1>5. CASE SetNewTimerCallback
  BY <1>5 DEF SetNewTimerCallback, clientVars
<1>6. CASE Complete
  <2> DEFINE h == Head(completed)
  <2>1. /\ completed # << >> /\ due' = [due EXCEPT ![h.client] = -1]
        /\ uptime' = uptime /\ completed \in Seq(TimerRecords)
    BY <1>6 DEF Complete, kernelVars, IInv, TypeOK
  <2>2. h \in TimerRecords /\ 1 \in DOMAIN completed /\ h = completed[1]
        /\ h.client \in Owners(completed)
    BY <2>1, AnsweredIs
  <2> HIDE DEF h
  <2>3. h.client \in Clients /\ h.time \in Int
    BY <2>2, NeverIs DEF TimerRecords, Times
  <2>4. due[h.client] # -1
    BY <2>2, <2>3 DEF IInv, ClientsKnow
  <2>5. due[h.client] \in Int /\ uptime \in Int
    BY <2>3, NeverIs DEF IInv, TypeOK, Times
  <2>6. due[h.client] <= h.time /\ h.time <= uptime
    BY <2>2 DEF IInv, TimesKnow
  <2>7. due[h.client] <= uptime
    BY <2>3, <2>5, <2>6
  <2>8. Abstract!Answer(h.client)
    BY <2>1, <2>4, <2>7 DEF Abstract!Answer
  <2> QED BY <2>3, <2>8 DEF Abstract!Next
<1>7. ASSUME NEW c \in Clients, NEW msecs \in Waits, After(c, msecs)
      PROVE  Abstract!Next
  <2>1. Abstract!After(c, msecs)
    BY <1>7 DEF After, Abstract!After, kernelVars
  <2> QED BY <2>1 DEF Abstract!Next
<1>8. ASSUME NEW c \in Clients, Signal(c) PROVE UNCHANGED << uptime, due >>
  BY <1>8 DEF Signal, kernelVars
<1> QED BY <1>1, <1>2, <1>3, <1>4, <1>5, <1>6, <1>7, <1>8 DEF Next, ServerStep

\* The server, its run loop and the kernel implement what a client is promised:
\* no client is answered twice, or before its time.
THEOREM Implements == Spec => AbstractSpec
<1>1. Init => Abstract!Init
  BY DEF Init, Abstract!Init
<1>2. IInv /\ [Next]_vars => [Abstract!Next]_(Abstract!vars)
  <2>1. ASSUME UNCHANGED vars PROVE UNCHANGED Abstract!vars
    BY <2>1 DEF vars, kernelVars, clientVars, Abstract!vars
  <2>2. ASSUME IInv, Next PROVE [Abstract!Next]_(Abstract!vars)
    BY <2>2, StepImplements DEF Abstract!vars
  <2> QED BY <2>1, <2>2
<1> QED BY <1>1, <1>2, Inductive, PTL DEF Spec, AbstractSpec, Abstract!Spec
=============================================================================
