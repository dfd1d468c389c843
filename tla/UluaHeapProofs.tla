--------------------------- MODULE UluaHeapProofs ---------------------------
(***************************************************************************)
(* That the allocator below Lua is right for every size of block and heap. *)
(***************************************************************************)
EXTENDS UluaHeap, WellFoundedInduction, TLAPS

\* A set of numbers has a smallest.
LEMMA Smallest ==
  ASSUME NEW S \in SUBSET Nat, S # {}
  PROVE  \E m \in S : \A k \in S : m <= k
<1> DEFINE R == OpToRel(<, Nat)
<1>1. IsWellFoundedOn(R, Nat)
  BY NatLessThanWellFounded, Zenon
<1>2. R = {ss \in Nat \X Nat : ss[1] < ss[2]}
  BY Zenon DEF OpToRel
<1> HIDE DEF R
<1>3. PICK m \in S : \A k \in S : ~(<< k, m >> \in R)
  BY <1>1, WFMin
<1>4. \A k \in S : ~(k < m)
  BY <1>2, <1>3
<1> QED BY <1>4

-----------------------------------------------------------------------------
\* What a heap h with the blocks B is like between two calls.

Cells == [at : Nat, len : Nat]
Blocks == [at : Nat, len : Nat \ {0}]

Good(h, B) ==
  /\ h \in [free : SUBSET Cells, top : Nat \cup {NULL}, limit : Nat]
  /\ B \subseteq Blocks
  /\ Tiled(h, B)
  /\ Merged(h)

LEMMA CellIs ==
  ASSUME NEW a, NEW l
  PROVE  Cell(a, l).at = a /\ Cell(a, l).len = l /\ EndOf(Cell(a, l)) = a + l
BY DEF Cell, EndOf

LEMMA CellEq ==
  ASSUME NEW c \in [at : Nat, len : Int], NEW d \in [at : Nat, len : Int],
         c.at = d.at, c.len = d.len
  PROVE  c = d
OBVIOUS

\* Good in numbers.
LEMMA GoodFacts ==
  ASSUME NEW h, NEW B, Good(h, B)
  PROVE  /\ h.free \subseteq Cells /\ h.top \in Nat \cup {NULL} /\ h.limit \in Nat
         /\ B \subseteq Blocks
         /\ \A c \in h.free : /\ c.at \in Nat /\ c.len \in Nat
                              /\ c.at + c.len <= h.limit
                              /\ c.len > 0
                              /\ c.at + c.len = h.limit => h.top = c.at
         /\ \A b \in B : /\ b.at \in Nat /\ b.len \in Nat /\ b.len > 0
                         /\ b.at + b.len <= h.limit
         /\ \A c, d \in h.free : c # d => c.at + c.len < d.at
                                          \/ d.at + d.len < c.at
         /\ \A b, d \in B : b # d => b.at + b.len <= d.at \/ d.at + d.len <= b.at
         /\ \A b \in B, c \in h.free : b.at + b.len <= c.at \/ c.at + c.len <= b.at
         /\ h.top # NULL => \E c \in h.free : c.at = h.top
                                              /\ \A d \in h.free : d.at <= c.at
         /\ \A i \in 0..(h.limit - 1) :
              \E c \in B \cup h.free : c.at <= i /\ i < c.at + c.len
<1>1. /\ h.free \subseteq Cells /\ h.top \in Nat \cup {NULL} /\ h.limit \in Nat
      /\ B \subseteq Blocks
  BY DEF Good
<1>2. \A c \in h.free : /\ c.at \in Nat /\ c.len \in Nat
                        /\ c.at + c.len <= h.limit
                        /\ c.len > 0
                        /\ c.at + c.len = h.limit => h.top = c.at
  BY <1>1 DEF Good, Tiled, Merged, EndOf, Cells
<1>3. \A b \in B : /\ b.at \in Nat /\ b.len \in Nat /\ b.len > 0
                   /\ b.at + b.len <= h.limit
  BY <1>1 DEF Good, Tiled, EndOf, Blocks
<1>4. ASSUME NEW c \in h.free, NEW d \in h.free, c # d
      PROVE  c.at + c.len < d.at \/ d.at + d.len < c.at
  <2>1. c.at + c.len <= d.at \/ d.at + d.len <= c.at
    BY <1>4 DEF Good, Tiled, Apart, Clear, EndOf
  <2>2. c.at + c.len # d.at
    BY DEF Good, Merged, EndOf
  <2>3. d.at + d.len # c.at
    BY DEF Good, Merged, EndOf
  <2>4. c.at # d.at \/ c.len # d.len
    BY <1>1, <1>4, CellEq DEF Cells
  <2> QED BY <1>1, <1>2, <2>1, <2>2, <2>3, <2>4
<1>5. \A b, d \in B : b # d => b.at + b.len <= d.at \/ d.at + d.len <= b.at
  BY DEF Good, Tiled, Apart, Clear, EndOf
<1>6. \A b \in B, c \in h.free : b.at + b.len <= c.at \/ c.at + c.len <= b.at
  BY DEF Good, Tiled, Clear, EndOf
<1>7. h.top # NULL => \E c \in h.free : c.at = h.top
                                        /\ \A d \in h.free : d.at <= c.at
  BY DEF Good, Merged
<1>8. \A i \in 0..(h.limit - 1) :
        \E c \in B \cup h.free : c.at <= i /\ i < c.at + c.len
  BY DEF Good, Tiled, EndOf
<1> QED BY <1>1, <1>2, <1>3, <1>4, <1>5, <1>6, <1>7, <1>8

\* And back: what a heap has to be shown to be.
LEMMA GoodIf ==
  ASSUME NEW h, NEW B,
         h \in [free : SUBSET Cells, top : Nat \cup {NULL}, limit : Nat],
         B \subseteq Blocks,
         \A c \in h.free : /\ c.at + c.len <= h.limit
                           /\ c.len > 0
                           /\ c.at + c.len = h.limit => h.top = c.at,
         \A b \in B : b.at + b.len <= h.limit,
         \A c, d \in h.free : c # d => c.at + c.len < d.at
                                       \/ d.at + d.len < c.at,
         \A b, d \in B : b # d => b.at + b.len <= d.at \/ d.at + d.len <= b.at,
         \A b \in B, c \in h.free : b.at + b.len <= c.at \/ c.at + c.len <= b.at,
         h.top # NULL => \E c \in h.free : c.at = h.top
                                           /\ \A d \in h.free : d.at <= c.at,
         \A i \in 0..(h.limit - 1) :
           \E c \in B \cup h.free : c.at <= i /\ i < c.at + c.len
  PROVE  Good(h, B)
<1>1. \A c \in h.free : c.at \in Nat /\ c.len \in Nat
  BY DEF Cells
<1>2. \A b \in B : b.at \in Nat /\ b.len \in Nat
  BY DEF Blocks
<1>3. Apart(B) /\ \A b \in B, c \in h.free : Clear(b, c)
  BY DEF Apart, Clear, EndOf
<1>4. Apart(h.free)
  <2> SUFFICES ASSUME NEW c \in h.free, NEW d \in h.free, c # d
               PROVE  c.at + c.len <= d.at \/ d.at + d.len <= c.at
    BY DEF Apart, Clear, EndOf
  <2>1. c.at + c.len < d.at \/ d.at + d.len < c.at
    OBVIOUS
  <2> QED BY <1>1, <2>1
<1>5. Tiled(h, B)
  BY <1>3, <1>4 DEF Tiled, EndOf
<1>6. ASSUME NEW c \in h.free, NEW d \in h.free, c.at + c.len = d.at
      PROVE  FALSE
  <2>1. CASE c = d
    BY <1>1, <1>6, <2>1
  <2>2. CASE c # d
    <3>1. c.at + c.len < d.at \/ d.at + d.len < c.at
      BY <2>2
    <3> QED BY <1>1, <1>6, <3>1
  <2> QED BY <2>1, <2>2
<1>7. Merged(h)
  BY <1>6 DEF Merged, EndOf
<1> QED BY <1>5, <1>7 DEF Good

-----------------------------------------------------------------------------
\* addToFreeList.

\* The free cell that addToFreeList makes of k and the cells it touches, and the
\* cells it leaves alone: they lie before it or behind it and do not touch it.
IsMerged(h, B, k, R, rest) ==
  /\ R.at <= k.at /\ k.at + k.len <= R.at + R.len
  /\ R.at + R.len <= h.limit
  /\ AddToFreeList(h, k) =
       [h EXCEPT !.free = rest \cup {R},
                 !.top = IF \A c \in rest : c.at < R.at THEN R.at ELSE @]
  /\ \A c \in rest : c.at + c.len < R.at \/ R.at + R.len < c.at
  /\ \A b \in B \ {k} : b.at + b.len <= R.at \/ R.at + R.len <= b.at
  /\ \A c \in h.free \ rest : R.at <= c.at /\ c.at + c.len <= R.at + R.len

LEMMA MergedCell ==
  ASSUME NEW h, NEW B, Good(h, B), NEW k \in B
  PROVE  \E R \in Blocks, rest \in SUBSET h.free : IsMerged(h, B, k, R, rest)
<1> DEFINE before == {c \in h.free : EndOf(c) = k.at /\ c.at < k.at}
           after == {c \in h.free : c.at = EndOf(k)}
           start == IF before = {} THEN k.at ELSE (CHOOSE c \in before : TRUE).at
           end == IF after = {} THEN EndOf(k)
                  ELSE EndOf(CHOOSE c \in after : TRUE)
           rest == h.free \ (before \cup after)
           R == Cell(start, end - start)
<1>F. /\ h.free \subseteq Cells /\ h.top \in Nat \cup {NULL} /\ h.limit \in Nat
      /\ \A c \in h.free : /\ c.at \in Nat /\ c.len \in Nat
                           /\ c.at + c.len <= h.limit
                           /\ c.len > 0
      /\ \A b \in B : /\ b.at \in Nat /\ b.len \in Nat /\ b.len > 0
                      /\ b.at + b.len <= h.limit
      /\ \A c, d \in h.free : c # d => c.at + c.len < d.at
                                       \/ d.at + d.len < c.at
      /\ \A b, d \in B : b # d => b.at + b.len <= d.at \/ d.at + d.len <= b.at
      /\ \A b \in B, c \in h.free : b.at + b.len <= c.at \/ c.at + c.len <= b.at
  BY GoodFacts
<1>1. \/ before = {} /\ start = k.at
      \/ \E c \in h.free : before = {c} /\ start = c.at /\ c.at + c.len = k.at
                           /\ c.at < k.at
  <2>1. CASE before = {}
    BY <2>1
  <2>2. CASE before # {}
    <3> DEFINE c == CHOOSE d \in before : TRUE
    <3>1. c \in before
      BY <2>2
    <3>2. c \in h.free /\ c.at + c.len = k.at /\ c.at < k.at
      BY <3>1 DEF EndOf
    <3>3. ASSUME NEW d \in before PROVE d = c
      <4>1. d \in h.free /\ d.at + d.len = k.at /\ d.at < k.at
        BY <3>3 DEF EndOf
      <4> QED BY <4>1, <3>2, <1>F
    <3>4. before = {c}
      BY <3>1, <3>3
    <3>5. start = c.at
      BY <2>2
    <3> QED BY <3>2, <3>4, <3>5
  <2> QED BY <2>1, <2>2
<1>2. \/ after = {} /\ end = k.at + k.len
      \/ \E c \in h.free : after = {c} /\ end = c.at + c.len
                           /\ c.at = k.at + k.len
  <2>1. CASE after = {}
    BY <2>1 DEF EndOf
  <2>2. CASE after # {}
    <3> DEFINE c == CHOOSE d \in after : TRUE
    <3>1. c \in after
      BY <2>2
    <3>2. c \in h.free /\ c.at = k.at + k.len
      BY <3>1 DEF EndOf
    <3>3. ASSUME NEW d \in after PROVE d = c
      <4>1. d \in h.free /\ d.at = k.at + k.len
        BY <3>3 DEF EndOf
      <4> QED BY <4>1, <3>2, <1>F
    <3>4. after = {c}
      BY <3>1, <3>3
    <3>5. end = c.at + c.len
      BY <2>2 DEF EndOf
    <3> QED BY <3>2, <3>4, <3>5
  <2> QED BY <2>1, <2>2
<1>3. AddToFreeList(h, k) =
        [h EXCEPT !.free = rest \cup {R},
                  !.top = IF \A c \in rest : c.at < start THEN start ELSE @]
  BY DEF AddToFreeList
<1>4. before = {c \in h.free : c.at + c.len = k.at /\ c.at < k.at}
  BY DEF EndOf
<1>5. after = {c \in h.free : c.at = k.at + k.len}
  BY DEF EndOf
<1>6. rest \in SUBSET h.free /\ \A c \in h.free : c \in rest <=> c \notin before /\ c \notin after
  OBVIOUS
<1>7. R.at = start /\ R.len = end - start /\ R = [at |-> start, len |-> end - start]
  BY DEF Cell
<1> HIDE DEF before, after, start, end, rest, R
<1>8. /\ start \in Nat /\ end \in Nat /\ start <= k.at /\ k.at + k.len <= end
      /\ end <= h.limit
  BY <1>1, <1>2, <1>F
<1>9. R.len \in Nat \ {0} /\ R.at + R.len = end /\ R \in Blocks
  BY <1>7, <1>8, <1>F DEF Blocks
<1>10. ASSUME NEW c \in rest PROVE c.at + c.len < start \/ end < c.at
  <2>1. c \in h.free /\ c \notin before /\ c \notin after
    BY <1>6
  <2>2. c.at + c.len < k.at \/ k.at + k.len < c.at
    BY <2>1, <1>4, <1>5, <1>F
  <2>3. c.at + c.len < start \/ k.at + k.len < c.at
    BY <2>1, <2>2, <1>1, <1>F
  <2> QED BY <2>1, <2>3, <1>2, <1>8, <1>F
<1>11. ASSUME NEW b \in B, b # k PROVE b.at + b.len <= start \/ end <= b.at
  <2>1. b.at + b.len <= k.at \/ k.at + k.len <= b.at
    BY <1>11, <1>F
  <2>2. b.at + b.len <= start \/ k.at + k.len <= b.at
    BY <2>1, <1>1, <1>F
  <2> QED BY <2>2, <1>2, <1>8, <1>F
<1>12. ASSUME NEW c \in h.free \ rest
       PROVE  start <= c.at /\ c.at + c.len <= end
  BY <1>1, <1>2, <1>6, <1>8, <1>F
<1> QED
  <2>1. AddToFreeList(h, k) =
          [h EXCEPT !.free = rest \cup {R},
                    !.top = IF \A c \in rest : c.at < R.at THEN R.at ELSE @]
    BY <1>3, <1>7
  <2>2. \A c \in rest : c.at + c.len < R.at \/ R.at + R.len < c.at
    BY <1>7, <1>9, <1>10
  <2>3. \A b \in B \ {k} : b.at + b.len <= R.at \/ R.at + R.len <= b.at
    BY <1>7, <1>9, <1>11
  <2>4. \A c \in h.free \ rest : R.at <= c.at /\ c.at + c.len <= R.at + R.len
    BY <1>7, <1>9, <1>12
  <2>5. R.at <= k.at /\ k.at + k.len <= R.at + R.len /\ R.at + R.len <= h.limit
    BY <1>7, <1>8, <1>9
  <2> QED BY <1>6, <1>9, <2>1, <2>2, <2>3, <2>4, <2>5 DEF IsMerged

\* A block that is given back leaves the heap as it has to be.
LEMMA Released ==
  ASSUME NEW h, NEW B, Good(h, B), NEW k \in B
  PROVE  Good(AddToFreeList(h, k), B \ {k})
<1>F. /\ h.free \subseteq Cells /\ h.top \in Nat \cup {NULL} /\ h.limit \in Nat
      /\ B \subseteq Blocks
      /\ \A c \in h.free : /\ c.at \in Nat /\ c.len \in Nat
                           /\ c.at + c.len <= h.limit
                           /\ c.len > 0
                           /\ c.at + c.len = h.limit => h.top = c.at
      /\ \A b \in B : /\ b.at \in Nat /\ b.len \in Nat /\ b.len > 0
                      /\ b.at + b.len <= h.limit
      /\ \A c, d \in h.free : c # d => c.at + c.len < d.at
                                       \/ d.at + d.len < c.at
      /\ \A b, d \in B : b # d => b.at + b.len <= d.at \/ d.at + d.len <= b.at
      /\ \A b \in B, c \in h.free : b.at + b.len <= c.at \/ c.at + c.len <= b.at
      /\ h.top # NULL => \E c \in h.free : c.at = h.top
                                           /\ \A d \in h.free : d.at <= c.at
      /\ \A i \in 0..(h.limit - 1) :
           \E c \in B \cup h.free : c.at <= i /\ i < c.at + c.len
  BY GoodFacts
<1>P. PICK R \in Blocks, rest \in SUBSET h.free : IsMerged(h, B, k, R, rest)
  BY MergedCell
<1>R. /\ R.at <= k.at /\ k.at + k.len <= R.at + R.len
      /\ R.at + R.len <= h.limit
      /\ AddToFreeList(h, k) =
                [h EXCEPT !.free = rest \cup {R},
                          !.top = IF \A c \in rest : c.at < R.at THEN R.at ELSE @]
      /\ \A c \in rest : c.at + c.len < R.at \/ R.at + R.len < c.at
      /\ \A b \in B \ {k} : b.at + b.len <= R.at \/ R.at + R.len <= b.at
      /\ \A c \in h.free \ rest : R.at <= c.at
                                  /\ c.at + c.len <= R.at + R.len
  BY <1>P DEF IsMerged
<1> DEFINE g == AddToFreeList(h, k)
           top == IF \A c \in rest : c.at < R.at THEN R.at ELSE h.top
           C == B \ {k}
<1>0. R.at \in Nat /\ R.len \in Nat /\ R.len > 0 /\ R \in Cells
  BY DEF Blocks, Cells
<1>H. h \in [free : SUBSET Cells, top : Nat \cup {NULL}, limit : Nat]
  BY DEF Good
<1>1. g = [h EXCEPT !.free = rest \cup {R}, !.top = top]
  BY <1>R
<1>2. g.free = rest \cup {R} /\ g.top = top /\ g.limit = h.limit
  BY <1>1, <1>H
<1>3. top \in Nat \cup {NULL}
  BY <1>0, <1>F
<1>4. g \in [free : SUBSET Cells, top : Nat \cup {NULL}, limit : Nat]
  <2>1. rest \cup {R} \in SUBSET Cells
    BY <1>F, <1>0
  <2> HIDE DEF top, g
  <2> QED BY <1>1, <1>H, <1>3, <2>1
<1>5. \A c \in rest : c.at < R.at => c.at + c.len < R.at
  BY <1>R, <1>F, <1>0
<1> HIDE DEF g
<1>6. ASSUME NEW c \in g.free
      PROVE  /\ c.at + c.len <= g.limit
             /\ c.len > 0
             /\ c.at + c.len = g.limit => g.top = c.at
  <2>1. CASE c = R
    <3>1. ASSUME R.at + R.len = h.limit, NEW d \in rest PROVE d.at < R.at
      <4>1. d.at + d.len < R.at \/ R.at + R.len < d.at
        BY <1>R
      <4> QED BY <4>1, <3>1, <1>F, <1>0
    <3> QED BY <2>1, <3>1, <1>0, <1>2, <1>R
  <2>2. CASE c \in rest
    <3>1. c.at + c.len <= h.limit /\ (c.len > 0)
          /\ (c.at + c.len = h.limit => h.top = c.at)
      BY <2>2, <1>F
    <3>2. c.at + c.len = h.limit => ~(c.at < R.at)
      BY <2>2, <1>F, <1>0, <1>5, <1>R
    <3> QED BY <2>2, <3>1, <3>2, <1>2
  <2> QED BY <2>1, <2>2, <1>2
<1>7. \A b \in C : b.at + b.len <= g.limit
  BY <1>2, <1>F
<1>8. ASSUME NEW c \in g.free, NEW d \in g.free, c # d
      PROVE  c.at + c.len < d.at \/ d.at + d.len < c.at
  BY <1>8, <1>2, <1>R, <1>F
<1>9. \A b, d \in C : b # d => b.at + b.len <= d.at \/ d.at + d.len <= b.at
  BY <1>F
<1>10. ASSUME NEW b \in C, NEW c \in g.free
       PROVE  b.at + b.len <= c.at \/ c.at + c.len <= b.at
  BY <1>10, <1>2, <1>R, <1>F
<1>11. ASSUME g.top # NULL
       PROVE  \E c \in g.free : c.at = g.top /\ \A d \in g.free : d.at <= c.at
  <2>1. CASE \A c \in rest : c.at < R.at
    <3>1. R \in g.free /\ g.top = R.at
      BY <2>1, <1>2
    <3>2. \A d \in g.free : d.at <= R.at
      <4>1. ASSUME NEW d \in rest PROVE d.at <= R.at
        BY <4>1, <2>1, <1>F, <1>0
      <4> QED BY <4>1, <1>0, <1>2
    <3> QED BY <3>1, <3>2
  <2>2. CASE \E c \in rest : ~(c.at < R.at)
    <3>1. g.top = h.top /\ h.top # NULL
      BY <2>2, <1>2, <1>11
    <3>2. PICK t \in h.free : t.at = h.top /\ \A d \in h.free : d.at <= t.at
      BY <3>1, <1>F
    <3>3. PICK c \in rest : ~(c.at < R.at)
      BY <2>2
    <3>4. R.at + R.len < c.at /\ c.at <= t.at
      BY <3>2, <3>3, <1>R, <1>F, <1>0
    <3>5. t \in rest
      <4>1. t \notin rest => t.at + t.len <= R.at + R.len
        BY <1>R
      <4> QED BY <3>4, <4>1, <1>F, <1>0
    <3>6. \A d \in g.free : d.at <= t.at
      BY <3>2, <3>4, <1>2, <1>F, <1>0
    <3> QED BY <3>1, <3>2, <3>5, <3>6, <1>2
  <2> QED BY <2>1, <2>2
<1>12. ASSUME NEW i \in 0..(g.limit - 1)
       PROVE  \E c \in C \cup g.free : c.at <= i /\ i < c.at + c.len
  <2>1. PICK c \in B \cup h.free : c.at <= i /\ i < c.at + c.len
    BY <1>2, <1>F
  <2>2. CASE c \in C \cup rest
    BY <2>1, <2>2, <1>2
  <2>3. CASE c = k \/ c \in h.free \ rest
    <3>1. R.at <= c.at /\ c.at + c.len <= R.at + R.len
      BY <2>3, <1>R
    <3>2. c.at \in Nat /\ c.len \in Nat
      BY <2>3, <1>F
    <3>3. R.at <= i /\ i < R.at + R.len
      BY <2>1, <3>1, <3>2, <1>0
    <3> QED BY <3>3, <1>2
  <2> QED BY <2>2, <2>3
<1> QED
  <2>1. C \subseteq Blocks
    BY <1>F
  <2> HIDE DEF C
  <2>2. Good(g, C)
    BY <1>4, <2>1, <1>6, <1>7, <1>8, <1>9, <1>10, <1>11, <1>12, GoodIf
  <2> QED BY <2>2 DEF g, C

-----------------------------------------------------------------------------
\* uluaHeap_allocFn with no old block.

LEMMA LowestIsOne ==
  ASSUME NEW C \in SUBSET Cells, C # {}
  PROVE  LowestOf(C) \in C
<1> DEFINE S == {c.at : c \in C}
<1>1. S \in SUBSET Nat /\ S # {}
  BY DEF Cells
<1>2. \E m \in S : \A k \in S : m <= k
  BY <1>1, Smallest
<1>3. \E c \in C : \A d \in C : c.at <= d.at
  BY <1>2
<1> QED BY <1>3 DEF LowestOf

LEMMA LargestIsOne ==
  ASSUME NEW h, NEW B, Good(h, B), NEW C \in SUBSET h.free, C # {}
  PROVE  LargestOf(C) \in C
<1> DEFINE S == {h.limit - c.len : c \in C}
           L == {c \in C : \A d \in C : d.len <= c.len}
<1>F. /\ h.free \subseteq Cells /\ h.limit \in Nat
      /\ \A c \in h.free : c.at \in Nat /\ c.len \in Nat
                           /\ c.at + c.len <= h.limit
  BY GoodFacts
<1>1. S \in SUBSET Nat /\ S # {}
  BY <1>F
<1>2. PICK m \in S : \A k \in S : m <= k
  BY <1>1, Smallest
<1>3. PICK c \in C : m = h.limit - c.len
  BY <1>2
<1>4. \A d \in C : d.len <= c.len
  <2> SUFFICES ASSUME NEW d \in C PROVE d.len <= c.len
    OBVIOUS
  <2>1. m <= h.limit - d.len
    BY <1>2
  <2> QED BY <2>1, <1>3, <1>F
<1>5. L \in SUBSET Cells /\ L # {}
  BY <1>3, <1>4, <1>F
<1>6. LowestOf(L) \in L
  BY <1>5, LowestIsOne
<1> QED BY <1>6 DEF LargestOf

\* The walk settles on a free cell that is long enough, if there is one.
LEMMA SuitableIs ==
  ASSUME NEW h, NEW B, Good(h, B), NEW n \in Nat
  PROVE  /\ \A c \in Suitable(h, n) : c \in h.free /\ n <= c.len
         /\ Suitable(h, n) = {} => \A c \in h.free : c.len < n
<1> DEFINE exact == {c \in h.free : c.len = n}
           larger == {c \in h.free : c.len >= n /\ c.at # h.top}
           top == {c \in h.free : c.len >= n /\ c.at = h.top}
<1>F. h.free \subseteq Cells /\ \A c \in h.free : c.len \in Nat
  BY GoodFacts
<1>1. exact \in SUBSET Cells /\ larger \in SUBSET h.free
  BY <1>F
<1>2. exact # {} => LowestOf(exact) \in exact
  BY <1>1, LowestIsOne
<1>3. larger # {} => LargestOf(larger) \in larger
  BY <1>1, LargestIsOne
<1>4. Suitable(h, n) = IF exact # {} THEN {LowestOf(exact)}
                       ELSE IF larger # {} THEN {LargestOf(larger)} ELSE top
  BY DEF Suitable
<1>5. ASSUME exact = {}, larger = {}, top = {}, NEW c \in h.free
      PROVE  c.len < n
  BY <1>5, <1>F
<1> QED BY <1>2, <1>3, <1>4, <1>5, <1>F

\* A block is taken from a free cell that is long enough.
LEMMA Taken ==
  ASSUME NEW h, NEW B, Good(h, B), NEW n \in Nat \ {0},
         NEW found \in h.free, n <= found.len
  PROVE  /\ Good(TakeFrom(h, found, n), B \cup {Cell(found.at, n)})
         /\ Cell(found.at, n) \notin B
<1> DEFINE g == TakeFrom(h, found, n)
           new == Cell(found.at, n)
           r == Cell(found.at + n, found.len - n)
           F == (h.free \ {found}) \cup (IF found.len - n # 0 THEN {r} ELSE {})
           top == IF h.top # found.at THEN h.top
                  ELSE IF found.len - n # 0 THEN found.at + n ELSE NULL
           C == B \cup {new}
<1>F. /\ h.free \subseteq Cells /\ h.top \in Nat \cup {NULL} /\ h.limit \in Nat
      /\ B \subseteq Blocks
      /\ \A c \in h.free : /\ c.at \in Nat /\ c.len \in Nat
                           /\ c.at + c.len <= h.limit
                           /\ c.len > 0
                           /\ c.at + c.len = h.limit => h.top = c.at
      /\ \A b \in B : /\ b.at \in Nat /\ b.len \in Nat /\ b.len > 0
                      /\ b.at + b.len <= h.limit
      /\ \A c, d \in h.free : c # d => c.at + c.len < d.at
                                       \/ d.at + d.len < c.at
      /\ \A b, d \in B : b # d => b.at + b.len <= d.at \/ d.at + d.len <= b.at
      /\ \A b \in B, c \in h.free : b.at + b.len <= c.at \/ c.at + c.len <= b.at
      /\ h.top # NULL => \E c \in h.free : c.at = h.top
                                           /\ \A d \in h.free : d.at <= c.at
      /\ \A i \in 0..(h.limit - 1) :
           \E c \in B \cup h.free : c.at <= i /\ i < c.at + c.len
  BY GoodFacts
<1>H. h \in [free : SUBSET Cells, top : Nat \cup {NULL}, limit : Nat]
  BY DEF Good
<1>1. /\ new.at = found.at /\ new.len = n /\ new \in Blocks
      /\ r.at = found.at + n /\ r.len = found.len - n
      /\ r \in [at : Nat, len : Nat]
  BY <1>F DEF Cell, Blocks
<1>2. g = [h EXCEPT !.free = F, !.top = top]
  BY DEF TakeFrom
<1>3. F \in SUBSET Cells
  BY <1>1, <1>F DEF Cells
<1>4. top \in Nat \cup {NULL}
  BY <1>F
<1>5. \A c \in F : (c \in h.free /\ c # found) \/ (c = r /\ r.len > 0)
  BY <1>1, <1>F
<1>6. (h.free \ {found}) \subseteq F /\ (found.len # n => r \in F)
  BY <1>F
<1>t. /\ h.top # found.at => top = h.top
      /\ h.top = found.at /\ found.len # n => top = found.at + n
      /\ h.top = found.at /\ found.len = n => top = NULL
  BY <1>F
<1> HIDE DEF F, top, g, new, r
<1>7. g.free = F /\ g.top = top /\ g.limit = h.limit
  BY <1>2, <1>H
<1>8. g \in [free : SUBSET Cells, top : Nat \cup {NULL}, limit : Nat]
  BY <1>2, <1>3, <1>4, <1>H
<1>9. ASSUME NEW c \in g.free
      PROVE  /\ c.at + c.len <= g.limit
             /\ c.len > 0
             /\ c.at + c.len = g.limit => g.top = c.at
  <2>1. CASE c \in h.free /\ c # found
    <3>1. h.top = c.at => h.top # found.at
      BY <2>1, <1>F
    <3> QED BY <2>1, <3>1, <1>F, <1>7, <1>t
  <2>2. CASE c = r /\ r.len > 0
    BY <2>2, <1>F, <1>1, <1>7, <1>t
  <2> QED BY <2>1, <2>2, <1>5, <1>7
<1>10. \A b \in C : b.at + b.len <= g.limit
  BY <1>F, <1>1, <1>7
<1>11. ASSUME NEW c \in g.free, NEW d \in g.free, c # d
       PROVE  c.at + c.len < d.at \/ d.at + d.len < c.at
  <2>1. ASSUME NEW e \in h.free, e # found, r.len > 0
        PROVE  e.at + e.len < r.at \/ r.at + r.len < e.at
    BY <2>1, <1>1, <1>F
  <2> QED BY <2>1, <1>11, <1>5, <1>7, <1>F
<1>12. ASSUME NEW b \in B
       PROVE  /\ b.at + b.len <= new.at \/ new.at + new.len <= b.at
              /\ b.at + b.len <= r.at \/ r.at + r.len <= b.at
              /\ b # new
  BY <1>1, <1>F
<1>13. \A b, d \in C : b # d => b.at + b.len <= d.at \/ d.at + d.len <= b.at
  BY <1>12, <1>F
<1>14. ASSUME NEW b \in C, NEW c \in g.free
       PROVE  b.at + b.len <= c.at \/ c.at + c.len <= b.at
  <2>1. CASE b \in B
    BY <2>1, <1>12, <1>5, <1>7, <1>F
  <2>2. CASE b = new
    BY <2>2, <1>1, <1>5, <1>7, <1>F
  <2> QED BY <2>1, <2>2
<1>15. ASSUME g.top # NULL
       PROVE  \E c \in g.free : c.at = g.top /\ \A d \in g.free : d.at <= c.at
  <2>1. CASE h.top = found.at
    <3>1. found.len # n /\ g.top = found.at + n /\ r \in g.free
      BY <2>1, <1>15, <1>6, <1>7, <1>t
    <3>2. PICK t \in h.free : t.at = h.top /\ \A d \in h.free : d.at <= t.at
      BY <2>1, <1>F DEF NULL
    <3>3. \A d \in g.free : d.at <= r.at
      BY <3>2, <2>1, <1>5, <1>7, <1>1, <1>F
    <3> QED BY <3>1, <3>3, <1>1
  <2>2. CASE h.top # found.at
    <3>1. g.top = h.top /\ h.top # NULL
      BY <2>2, <1>15, <1>7, <1>t
    <3>2. PICK t \in h.free : t.at = h.top /\ \A d \in h.free : d.at <= t.at
      BY <3>1, <1>F
    <3>3. t # found /\ t \in g.free
      BY <3>2, <2>2, <1>6, <1>7
    <3>4. r.at <= t.at
      <4>1. found.at <= t.at /\ found.at # t.at
        BY <3>2, <2>2
      <4>2. t.at + t.len < found.at \/ found.at + found.len < t.at
        BY <3>3, <1>F
      <4> QED BY <4>1, <4>2, <1>1, <1>F
    <3>5. \A d \in g.free : d.at <= t.at
      BY <3>2, <3>4, <1>5, <1>7
    <3> QED BY <3>1, <3>2, <3>3, <3>5
  <2> QED BY <2>1, <2>2
<1>16. ASSUME NEW i \in 0..(g.limit - 1)
       PROVE  \E c \in C \cup g.free : c.at <= i /\ i < c.at + c.len
  <2>1. PICK c \in B \cup h.free : c.at <= i /\ i < c.at + c.len
    BY <1>7, <1>F
  <2>2. CASE c # found
    BY <2>1, <2>2, <1>6, <1>7
  <2>3. CASE c = found /\ i < found.at + n
    BY <2>1, <2>3, <1>1
  <2>4. CASE c = found /\ ~(i < found.at + n)
    <3>1. found.len # n
      BY <2>1, <2>4, <1>F
    <3>2. r.at <= i /\ i < r.at + r.len
      BY <2>1, <2>4, <1>1, <1>F
    <3> QED BY <3>1, <3>2, <1>6, <1>7
  <2> QED BY <2>2, <2>3, <2>4
<1> QED
  <2>1. C \subseteq Blocks
    BY <1>1, <1>F
  <2>2. new \notin B
    BY <1>12
  <2> HIDE DEF C
  <2>3. Good(g, C)
    BY <1>8, <2>1, <1>9, <1>10, <1>11, <1>13, <1>14, <1>15, <1>16, GoodIf
  <2> QED BY <2>2, <2>3 DEF g, C, new

\* topCell, if the heap has one, is the last free cell and TopLen its length.
LEMMA TopIs ==
  ASSUME NEW h, NEW B, Good(h, B)
  PROVE  \/ h.top = NULL /\ TopLen(h) = 0 /\ Base(h) = h.limit
            /\ {c \in h.free : c.at # h.top} = h.free
         \/ \E t \in h.free : /\ h.top = t.at /\ h.top # NULL
                              /\ TopLen(h) = t.len /\ Base(h) = t.at
                              /\ {c \in h.free : c.at # h.top} = h.free \ {t}
                              /\ \A d \in h.free : d.at <= t.at
<1>F. /\ h.free \subseteq Cells
      /\ \A c \in h.free : /\ c.at \in Nat /\ c.len \in Nat
                           /\ c.len > 0
      /\ \A c, d \in h.free : c # d => c.at + c.len < d.at
                                       \/ d.at + d.len < c.at
      /\ h.top # NULL => \E c \in h.free : c.at = h.top
                                           /\ \A d \in h.free : d.at <= c.at
  BY GoodFacts
<1>1. CASE h.top = NULL
  BY <1>1, <1>F DEF TopLen, Base, NULL
<1>2. CASE h.top # NULL
  <2>1. PICK t \in h.free : t.at = h.top /\ \A d \in h.free : d.at <= t.at
    BY <1>2, <1>F
  <2>2. \A c \in h.free : c.at = h.top <=> c = t
    BY <2>1, <1>F
  <2>3. (CHOOSE c \in h.free : c.at = h.top) = t
    BY <2>1, <2>2
  <2>4. TopLen(h) = t.len /\ Base(h) = t.at
    BY <1>2, <2>1, <2>3 DEF TopLen, Base
  <2>5. {c \in h.free : c.at # h.top} = h.free \ {t}
    BY <2>2
  <2> QED BY <1>2, <2>1, <2>4, <2>5
<1> QED BY <1>1, <1>2

LEMMA IncrementIs ==
  ASSUME NEW h, NEW B, Good(h, B), h.limit <= MaxLimit, NEW n \in Nat
  PROVE  Increment(h, n) \in Nat /\ h.limit + Increment(h, n) <= MaxLimit
<1> DEFINE growBy == LargerOf(GrowMin, n - TopLen(h))
<1>1. TopLen(h) \in Nat /\ h.limit \in Nat
  BY TopIs, GoodFacts
<1>2. growBy \in Nat
  BY <1>1, UluaHeapAssumption DEF LargerOf
<1>3. Increment(h, n) = IF h.limit + growBy <= MaxLimit THEN growBy
                        ELSE IF h.limit + Fallback <= MaxLimit THEN Fallback
                        ELSE 0
  BY DEF Increment
<1> HIDE DEF growBy
<1> QED BY <1>1, <1>2, <1>3, UluaHeapAssumption

\* A heap that is grown where it ends, and by enough, is as it has to be.
LEMMA Grown ==
  ASSUME NEW h, NEW B, Good(h, B), h.limit <= MaxLimit, NEW n \in Nat \ {0},
         Increment(h, n) # 0, ~GrowsWrong(h, n)
  PROVE  /\ Good(GrownHeap(h, n), B \cup {Cell(Base(h), n)})
         /\ Cell(Base(h), n) \notin B
<1> DEFINE g == GrownHeap(h, n)
           new == Cell(Base(h), n)
           r == Cell(Base(h) + n, TopLen(h) + Increment(h, n) - n)
           old == {c \in h.free : c.at # h.top}
           C == B \cup {new}
<1>F. /\ h.free \subseteq Cells /\ h.top \in Nat \cup {NULL} /\ h.limit \in Nat
      /\ B \subseteq Blocks
      /\ \A c \in h.free : /\ c.at \in Nat /\ c.len \in Nat
                           /\ c.at + c.len <= h.limit
                           /\ c.len > 0
                           /\ c.at + c.len = h.limit => h.top = c.at
      /\ \A b \in B : /\ b.at \in Nat /\ b.len \in Nat /\ b.len > 0
                      /\ b.at + b.len <= h.limit
      /\ \A c, d \in h.free : c # d => c.at + c.len < d.at
                                       \/ d.at + d.len < c.at
      /\ \A b, d \in B : b # d => b.at + b.len <= d.at \/ d.at + d.len <= b.at
      /\ \A b \in B, c \in h.free : b.at + b.len <= c.at \/ c.at + c.len <= b.at
      /\ \A i \in 0..(h.limit - 1) :
           \E c \in B \cup h.free : c.at <= i /\ i < c.at + c.len
  BY GoodFacts
<1>0. PICK incr \in Nat : incr = Increment(h, n) /\ incr > 0
  BY IncrementIs
<1>T. \/ h.top = NULL /\ TopLen(h) = 0 /\ Base(h) = h.limit /\ old = h.free
      \/ \E t \in h.free : /\ h.top = t.at /\ h.top # NULL
                           /\ TopLen(h) = t.len /\ Base(h) = t.at
                           /\ old = h.free \ {t}
                           /\ \A d \in h.free : d.at <= t.at
  BY TopIs
<1>1. g = [free |-> old \cup {r}, top |-> r.at, limit |-> h.limit + incr]
  BY <1>0 DEF GrownHeap
<1>2. /\ h.top # NULL => h.top + TopLen(h) = h.limit
      /\ ~(TopLen(h) + incr <= n)
  BY <1>0 DEF GrowsWrong
<1>3. /\ new.at = Base(h) /\ new.len = n /\ new = [at |-> Base(h), len |-> n]
      /\ r.at = Base(h) + n /\ r.len = TopLen(h) + incr - n
      /\ r = [at |-> Base(h) + n, len |-> TopLen(h) + incr - n]
  BY <1>0 DEF Cell
<1>o. old \subseteq h.free
  OBVIOUS
<1> HIDE DEF g, new, r, old
<1>4. /\ Base(h) \in Nat /\ TopLen(h) \in Nat /\ Base(h) + TopLen(h) = h.limit
  BY <1>T, <1>2, <1>F
<1>5. new \in Blocks /\ r \in Cells /\ r.at + r.len = h.limit + incr
  BY <1>3, <1>4, <1>2, <1>0 DEF Blocks, Cells
<1>6. \A c \in old : c.at + c.len <= Base(h) /\ c.at <= Base(h)
  BY <1>T, <1>F
<1>7. \A b \in B : b.at + b.len <= Base(h)
  BY <1>T, <1>F, <1>2
<1>8. g.free = old \cup {r} /\ g.top = r.at /\ g.limit = h.limit + incr
  BY <1>1
<1>9. g \in [free : SUBSET Cells, top : Nat \cup {NULL}, limit : Nat]
  <2>1. old \cup {r} \in SUBSET Cells /\ r.at \in Nat /\ h.limit + incr \in Nat
    BY <1>5, <1>o, <1>F, <1>3, <1>4, <1>0
  <2> QED BY <2>1, <1>1
<1>10. r.at \in Nat /\ r.len \in Nat /\ Base(h) < r.at
  BY <1>3, <1>4, <1>5 DEF Cells
<1>p. r.len > 0
  BY <1>2, <1>3, <1>4, <1>0
<1>c. \A c \in old : c.at \in Nat /\ c.len \in Nat
  BY <1>o, <1>F
<1>11. ASSUME NEW c \in g.free
       PROVE  /\ c.at + c.len <= g.limit
              /\ c.len > 0
              /\ c.at + c.len = g.limit => g.top = c.at
  <2>1. CASE c = r
    <3>1. r.at + r.len <= h.limit + incr
      BY <1>5, <1>0, <1>F
    <3> QED BY <2>1, <3>1, <1>8, <1>p
  <2>2. CASE c \in old
    <3>1. c.at + c.len <= Base(h) /\ Base(h) <= h.limit
      BY <2>2, <1>4, <1>6
    <3>2. c.len > 0
      BY <2>2, <1>o, <1>F
    <3> QED BY <3>1, <3>2, <2>2, <1>c, <1>4, <1>8, <1>0, <1>F
  <2> QED BY <2>1, <2>2, <1>8
<1>12. \A b \in C : b.at + b.len <= g.limit
  BY <1>F, <1>3, <1>4, <1>2, <1>8, <1>0
<1>13. ASSUME NEW c \in g.free, NEW d \in g.free, c # d
       PROVE  c.at + c.len < d.at \/ d.at + d.len < c.at
  BY <1>13, <1>8, <1>6, <1>10, <1>o, <1>c, <1>4, <1>F
<1>14. \A b \in B : b # new /\ b.at + b.len <= new.at
  BY <1>7, <1>3, <1>4, <1>F
<1>15. \A b, d \in C : b # d => b.at + b.len <= d.at \/ d.at + d.len <= b.at
  BY <1>14, <1>F
<1>16. ASSUME NEW b \in C, NEW c \in g.free
       PROVE  b.at + b.len <= c.at \/ c.at + c.len <= b.at
  BY <1>16, <1>8, <1>7, <1>6, <1>3, <1>10, <1>o, <1>c, <1>4, <1>F
<1>17. \E c \in g.free : c.at = g.top /\ \A d \in g.free : d.at <= c.at
  BY <1>8, <1>6, <1>10, <1>c, <1>4
<1>18. ASSUME NEW i \in 0..(g.limit - 1)
       PROVE  \E c \in C \cup g.free : c.at <= i /\ i < c.at + c.len
  <2>0. i \in Nat /\ i < h.limit + incr
    BY <1>8, <1>0, <1>F
  <2>1. CASE i < Base(h)
    <3>0. i \in 0..(h.limit - 1)
      BY <2>0, <2>1, <1>4, <1>F
    <3>1. PICK c \in B \cup h.free : c.at <= i /\ i < c.at + c.len
      BY <3>0, <1>F
    <3>2. c \in B \cup old
      <4>1. c \in h.free => c \in old
        BY <3>1, <2>1, <1>T, <1>4, <1>F
      <4> QED BY <3>1, <4>1
    <3> QED BY <3>1, <3>2, <1>8
  <2>2. CASE Base(h) <= i /\ i < Base(h) + n
    BY <2>2, <1>3
  <2>3. CASE Base(h) + n <= i
    <3>1. r.at <= i /\ i < r.at + r.len
      BY <2>0, <2>3, <1>3, <1>5
    <3> QED BY <3>1, <1>8
  <2> QED BY <2>0, <2>1, <2>2, <2>3, <1>4
<1> QED
  <2>1. C \subseteq Blocks
    BY <1>5, <1>F
  <2>2. new \notin B
    BY <1>14
  <2> HIDE DEF C
  <2>3. Good(g, C)
    BY <1>9, <2>1, <1>11, <1>12, <1>13, <1>15, <1>16, <1>17, <1>18, GoodIf
  <2> QED BY <2>2, <2>3 DEF g, C, new

-----------------------------------------------------------------------------
\* What the growth of a heap at the wrong place, or by too little, leaves.

AnyHeap == [free : SUBSET [at : Nat, len : Int], top : Nat \cup {NULL}, limit : Nat]

\* addToFreeList on any heap makes a cell that begins no later than k.
LEMMA AddedIs ==
  ASSUME NEW h \in AnyHeap, NEW k \in Blocks
  PROVE  /\ AddToFreeList(h, k) \in AnyHeap
         /\ AddToFreeList(h, k).limit = h.limit
         /\ \E R \in AddToFreeList(h, k).free :
              /\ R.at \in Nat /\ R.len \in Int
              /\ R.at <= k.at
              /\ \/ R.at + R.len = k.at + k.len
                 \/ \E c \in h.free : c.at = k.at + k.len
                                      /\ R.at + R.len = c.at + c.len
<1> DEFINE before == {c \in h.free : EndOf(c) = k.at /\ c.at < k.at}
           after == {c \in h.free : c.at = EndOf(k)}
           start == IF before = {} THEN k.at ELSE (CHOOSE c \in before : TRUE).at
           end == IF after = {} THEN EndOf(k)
                  ELSE EndOf(CHOOSE c \in after : TRUE)
           rest == h.free \ (before \cup after)
           R == Cell(start, end - start)
           top == IF \A c \in rest : c.at < start THEN start ELSE h.top
<1>F. /\ \A c \in h.free : c.at \in Nat /\ c.len \in Int
      /\ k.at \in Nat /\ k.len \in Nat
      /\ h.free \in SUBSET [at : Nat, len : Int] /\ h.top \in Nat \cup {NULL}
  BY DEF AnyHeap, Blocks
<1>1. start \in Nat /\ start <= k.at
  BY <1>F DEF EndOf
<1>2. /\ end \in Int
      /\ end = k.at + k.len
         \/ \E c \in h.free : c.at = k.at + k.len /\ end = c.at + c.len
  <2>1. CASE after = {}
    BY <2>1, <1>F DEF EndOf
  <2>2. CASE after # {}
    <3>1. PICK c \in after : end = EndOf(c)
      BY <2>2
    <3>2. c \in h.free /\ c.at = k.at + k.len /\ end = c.at + c.len
      BY <3>1 DEF EndOf
    <3> HIDE DEF after, end
    <3> QED BY <3>2, <1>F
  <2> QED BY <2>1, <2>2
<1>3. AddToFreeList(h, k) = [h EXCEPT !.free = rest \cup {R}, !.top = top]
  BY DEF AddToFreeList
<1>r. rest \subseteq h.free
  OBVIOUS
<1>t. top \in Nat \cup {NULL}
  BY <1>1, <1>F
<1>4. R.at = start /\ R.len = end - start /\ R = [at |-> start, len |-> end - start]
  BY DEF Cell
<1> HIDE DEF before, after, start, end, rest, R, top
<1>5. rest \cup {R} \in SUBSET [at : Nat, len : Int]
  BY <1>1, <1>2, <1>4, <1>r, <1>F
<1>6. AddToFreeList(h, k) \in AnyHeap
  BY <1>3, <1>5, <1>t DEF AnyHeap
<1>7. AddToFreeList(h, k).free = rest \cup {R}
      /\ AddToFreeList(h, k).limit = h.limit
  BY <1>3 DEF AnyHeap
<1>8. /\ R.at \in Nat /\ R.len \in Int /\ R.at <= k.at
      /\ R.at + R.len = end
  BY <1>1, <1>2, <1>4
<1> QED BY <1>2, <1>6, <1>7, <1>8

LEMMA GrownType ==
  ASSUME NEW h, NEW B, Good(h, B), h.limit <= MaxLimit, NEW n \in Nat \ {0}
  PROVE  /\ GrownHeap(h, n) \in AnyHeap
         /\ GrownHeap(h, n).limit = h.limit + Increment(h, n)
         /\ Base(h) \in Nat /\ Base(h) <= h.limit
<1> DEFINE old == {c \in h.free : c.at # h.top}
           r == Cell(Base(h) + n, TopLen(h) + Increment(h, n) - n)
<1>F. /\ h.free \subseteq Cells /\ h.limit \in Nat
      /\ \A c \in h.free : c.at \in Nat /\ c.len \in Nat
                           /\ c.at + c.len <= h.limit
  BY GoodFacts
<1>1. Base(h) \in Nat /\ TopLen(h) \in Nat /\ Base(h) <= h.limit
  BY <1>F, TopIs
<1>2. Increment(h, n) \in Nat
  BY IncrementIs
<1>3. old \subseteq [at : Nat, len : Int]
  BY <1>F DEF Cells
<1>4. r \in [at : Nat, len : Int] /\ r.at \in Nat
  BY <1>1, <1>2 DEF Cell
<1>5. GrownHeap(h, n) = [free |-> old \cup {r}, top |-> r.at,
                         limit |-> h.limit + Increment(h, n)]
  BY DEF GrownHeap
<1> HIDE DEF old, r
<1>6. old \cup {r} \in SUBSET [at : Nat, len : Int]
  BY <1>3, <1>4
<1>7. h.limit + Increment(h, n) \in Nat
  BY <1>2, <1>F
<1> QED BY <1>1, <1>4, <1>5, <1>6, <1>7 DEF AnyHeap

\* The block then lies over another block, over the cell a freed block is
\* merged into, or over the end of the heap, or the new topCell has no room.
LEMMA GrownWrongly ==
  ASSUME NEW h, NEW B, Good(h, B), h.limit <= MaxLimit, NEW n \in Nat \ {0},
         \A c \in h.free : c.len < n,
         Increment(h, n) # 0, GrowsWrong(h, n)
  PROVE  /\ ~Tiled(GrownHeap(h, n), B \cup {Cell(Base(h), n)})
         /\ \A k \in B : k.len < n =>
              ~Tiled(AddToFreeList(GrownHeap(h, n), k),
                     (B \ {k}) \cup {Cell(Base(h), n)})
<1> DEFINE g == GrownHeap(h, n)
           new == Cell(Base(h), n)
<1>F. /\ h.free \subseteq Cells /\ h.top \in Nat \cup {NULL} /\ h.limit \in Nat
      /\ B \subseteq Blocks
      /\ \A c \in h.free : /\ c.at \in Nat /\ c.len \in Nat
                           /\ c.at + c.len <= h.limit
                           /\ c.len > 0
      /\ \A b \in B : /\ b.at \in Nat /\ b.len \in Nat /\ b.len > 0
                      /\ b.at + b.len <= h.limit
      /\ \A c, d \in h.free : c # d => c.at + c.len < d.at
                                       \/ d.at + d.len < c.at
      /\ \A b \in B, c \in h.free : b.at + b.len <= c.at \/ c.at + c.len <= b.at
      /\ \A i \in 0..(h.limit - 1) :
           \E c \in B \cup h.free : c.at <= i /\ i < c.at + c.len
  BY GoodFacts
<1>0. PICK incr \in Nat : incr = Increment(h, n) /\ incr > 0
  BY IncrementIs
<1>1. new.at = Base(h) /\ new.len = n
  BY DEF Cell
<1>2. g \in AnyHeap /\ g.limit = h.limit + incr /\ Base(h) \in Nat
  BY GrownType, <1>0
<1>3. \A k \in B : /\ AddToFreeList(g, k).limit = g.limit
                   /\ k \in Blocks
  BY <1>2, <1>F, AddedIs
<1>4. CASE Base(h) + TopLen(h) = h.limit /\ TopLen(h) + incr < n
  <2>1. ~(new.at + new.len <= g.limit)
    <3>1. TopLen(h) \in Nat
      BY TopIs, <1>F
    <3> QED BY <3>1, <1>1, <1>2, <1>4, <1>F
  <2>2. \A f, D : f.limit = g.limit => ~Tiled(f, D \cup {new})
    BY <2>1 DEF Tiled, EndOf
  <2> HIDE DEF g, new
  <2>3. ~Tiled(g, B \cup {new})
    BY <2>2
  <2>4. ASSUME NEW k \in B
        PROVE  ~Tiled(AddToFreeList(g, k), (B \ {k}) \cup {new})
    BY <2>2, <1>3
  <2> QED BY <2>3, <2>4 DEF g, new
<1>5. CASE h.top # NULL /\ h.top + TopLen(h) # h.limit
  <2>1. PICK t \in h.free : /\ h.top = t.at /\ TopLen(h) = t.len /\ Base(h) = t.at
                            /\ \A d \in h.free : d.at <= t.at
    BY <1>5, TopIs
  <2> DEFINE e == t.at + t.len
  <2>2. e \in 0..(h.limit - 1) /\ t.len > 0 /\ t.at < e /\ e < t.at + n
        /\ t.at + t.len + incr > e
    <3>1. /\ t.at \in Nat /\ t.len \in Nat /\ t.len > 0 /\ t.len < n
          /\ t.at + t.len <= h.limit
      BY <1>F
    <3>2. t.at + t.len # h.limit
      BY <2>1, <1>5
    <3>3. h.limit \in Nat
      BY <1>F
    <3> QED BY <3>1, <3>2, <3>3, <1>0
  <2>3. PICK x \in B \cup h.free : x.at <= e /\ e < x.at + x.len
    BY <2>2, <1>F
  <2>4. x \in B
    <3>1. ASSUME x \in h.free PROVE FALSE
      <4>1. x # t
        BY <2>3, <1>F
      <4>2. x.at + x.len < t.at \/ t.at + t.len < x.at
        BY <3>1, <4>1, <1>F
      <4> QED BY <3>1, <4>2, <2>3, <2>2, <1>F
    <3> QED BY <3>1
  <2>5. x # new
    BY <2>1, <2>2, <2>3, <2>4, <1>1, <1>F
  <2>6. ~Clear(x, new) /\ ~Clear(new, x)
    BY <2>1, <2>2, <2>3, <2>4, <1>1, <1>F DEF Clear, EndOf
  <2>7. \A f, D : x \in D => ~Tiled(f, D \cup {new})
    BY <2>5, <2>6 DEF Tiled, Apart
  <2>8. ASSUME NEW R \in AddToFreeList(g, x).free,
               R.at \in Nat, R.len \in Int, R.at <= x.at,
               \/ R.at + R.len = x.at + x.len
               \/ \E c \in g.free : c.at = x.at + x.len
                                    /\ R.at + R.len = c.at + c.len
        PROVE  ~Clear(new, R)
    <3>1. e < R.at + R.len
      <4>1. CASE R.at + R.len = x.at + x.len
        BY <4>1, <2>3
      <4>2. ASSUME NEW c \in g.free, c.at = x.at + x.len, R.at + R.len = c.at + c.len
            PROVE  e < R.at + R.len
        <5>1. CASE c \in h.free
          BY <5>1, <4>2, <2>2, <2>3, <2>4, <1>F
        <5>2. CASE c = Cell(Base(h) + n, TopLen(h) + incr - n)
          BY <5>2, <4>2, <2>1, <2>2, <1>F DEF Cell
        <5> QED BY <4>2, <5>1, <5>2, <1>0 DEF GrownHeap
      <4> QED BY <2>8, <4>1, <4>2
    <3>2. R.at <= e
      BY <2>8, <2>3, <2>2, <2>4, <1>F
    <3> QED BY <3>1, <3>2, <2>8, <2>1, <2>2, <1>1, <1>F DEF Clear, EndOf
  <2>9. ASSUME NEW k \in B
        PROVE  ~Tiled(AddToFreeList(g, k), (B \ {k}) \cup {new})
    <3>1. CASE k # x
      BY <3>1, <2>4, <2>7
    <3>2. CASE k = x
      <4>1. PICK R \in AddToFreeList(g, x).free :
              /\ R.at \in Nat /\ R.len \in Int
              /\ R.at <= x.at
              /\ \/ R.at + R.len = x.at + x.len
                 \/ \E c \in g.free : c.at = x.at + x.len
                                      /\ R.at + R.len = c.at + c.len
        BY <1>2, <1>3, <2>4, AddedIs
      <4>2. ~Clear(new, R)
        BY <4>1, <2>8
      <4> QED BY <4>2, <3>2 DEF Tiled
    <3> QED BY <3>1, <3>2
  <2> QED BY <2>4, <2>7, <2>9
<1>6. CASE Base(h) + TopLen(h) = h.limit /\ TopLen(h) + incr = n
  <2> DEFINE r == Cell(Base(h) + n, TopLen(h) + incr - n)
  <2>1. TopLen(h) \in Nat
    BY TopIs, <1>F
  <2>2. /\ r.at = h.limit + incr /\ r.len = 0 /\ EndOf(r) = h.limit + incr
        /\ r \in g.free
    BY <2>1, <1>0, <1>2, <1>6, <1>F DEF Cell, EndOf, GrownHeap
  <2>3. \A f, D : r \in f.free => ~Tiled(f, D)
    BY <2>2 DEF Tiled
  <2>4. ASSUME NEW k \in B
        PROVE  r \in AddToFreeList(g, k).free
    <3>1. EndOf(k) # r.at /\ EndOf(r) # k.at
      BY <2>2, <1>0, <1>F DEF EndOf
    <3> HIDE DEF g, r
    <3> QED BY <3>1, <2>2, <1>2 DEF AddToFreeList, AnyHeap
  <2> HIDE DEF g, r
  <2> QED BY <2>2, <2>3, <2>4 DEF g
<1>7. (h.top # NULL => Base(h) = h.top)
      /\ (h.top = NULL => Base(h) = h.limit /\ TopLen(h) = 0)
  BY DEF Base, TopLen
<1>8. TopLen(h) + incr < n \/ TopLen(h) + incr = n
        \/ (h.top # NULL /\ h.top + TopLen(h) # h.limit)
  <2>1. TopLen(h) \in Nat
    BY TopIs, <1>F
  <2> QED BY <2>1, <1>0 DEF GrowsWrong
<1>9. CASE h.top = NULL
  BY <1>4, <1>6, <1>7, <1>8, <1>9, <1>F
<1>10. CASE h.top # NULL
  BY <1>4, <1>5, <1>6, <1>7, <1>8, <1>10
<1> QED BY <1>9, <1>10

-----------------------------------------------------------------------------
\* The allocation of a block of n cells.

NoRoom(h, n) == \A c \in h.free : c.len < n

\* A request fails, or is met, or is met wrongly.
Fails(h, n, a) == a.at = NULL /\ a.heap = h /\ ~a.wrong /\ NoRoom(h, n)

Meets(h, B, n, a) ==
  /\ a.at \in Nat /\ a.at <= h.limit /\ ~a.wrong
  /\ Good(a.heap, B \cup {Cell(a.at, n)})
  /\ Cell(a.at, n) \notin B
  /\ a.heap.limit <= MaxLimit
  /\ a.heap.limit = h.limit \/ (a.heap.limit > h.limit /\ NoRoom(h, n))

MeetsWrongly(h, B, n, a) ==
  /\ a.at \in Nat /\ a.wrong
  /\ a.heap \in AnyHeap
  /\ a.heap.limit > h.limit /\ a.heap.limit <= MaxLimit
  /\ NoRoom(h, n)
  /\ ~Tiled(a.heap, B \cup {Cell(a.at, n)})
  /\ \A k \in B : k.len < n =>
       ~Tiled(AddToFreeList(a.heap, k), (B \ {k}) \cup {Cell(a.at, n)})

LEMMA AllocatedIs ==
  ASSUME NEW h, NEW B, Good(h, B), h.limit <= MaxLimit, NEW n \in Nat \ {0}
  PROVE  LET a == Allocated(h, n)
         IN Fails(h, n, a) \/ Meets(h, B, n, a) \/ MeetsWrongly(h, B, n, a)
<1> DEFINE a == Allocated(h, n)
           S == Suitable(h, n)
<1>F. /\ h.limit \in Nat
      /\ \A c \in h.free : c.at \in Nat /\ c.len \in Nat /\ c.at + c.len <= h.limit
  BY GoodFacts
<1>S. /\ \A c \in S : c \in h.free /\ n <= c.len
      /\ S = {} => NoRoom(h, n)
  BY SuitableIs DEF NoRoom
<1>I. Increment(h, n) \in Nat /\ h.limit + Increment(h, n) <= MaxLimit
  BY IncrementIs
<1> HIDE DEF S
<1>1. CASE S # {}
  <2> DEFINE found == CHOOSE c \in S : TRUE
  <2>1. found \in h.free /\ n <= found.len
    BY <1>1, <1>S
  <2>2. a = [heap |-> TakeFrom(h, found, n), at |-> found.at, wrong |-> FALSE]
    BY <1>1 DEF Allocated, S
  <2> HIDE DEF found, a
  <2>3. /\ Good(TakeFrom(h, found, n), B \cup {Cell(found.at, n)})
        /\ Cell(found.at, n) \notin B
    BY <2>1, Taken
  <2>4. TakeFrom(h, found, n).limit = h.limit
    BY DEF TakeFrom, Good
  <2>5. Meets(h, B, n, a)
    BY <2>1, <2>2, <2>3, <2>4, <1>F DEF Meets
  <2> QED BY <2>5 DEF a
<1>2. CASE S = {} /\ Increment(h, n) = 0
  <2>1. a = [heap |-> h, at |-> NULL, wrong |-> FALSE]
    BY <1>2 DEF Allocated, S
  <2>2. Fails(h, n, a)
    BY <2>1, <1>2, <1>S DEF Fails
  <2> QED BY <2>2
<1>3. CASE S = {} /\ Increment(h, n) # 0
  <2>1. a = [heap |-> GrownHeap(h, n), at |-> Base(h), wrong |-> GrowsWrong(h, n)]
    BY <1>3 DEF Allocated, S
  <2>2. /\ GrownHeap(h, n) \in AnyHeap
        /\ GrownHeap(h, n).limit = h.limit + Increment(h, n)
        /\ Base(h) \in Nat /\ Base(h) <= h.limit
    BY GrownType
  <2>3. h.limit + Increment(h, n) > h.limit
    BY <1>3, <1>I, <1>F
  <2>4. CASE ~GrowsWrong(h, n)
    <3>1. /\ Good(GrownHeap(h, n), B \cup {Cell(Base(h), n)})
          /\ Cell(Base(h), n) \notin B
      BY <1>3, <2>4, Grown
    <3>2. Meets(h, B, n, a)
      BY <2>1, <2>2, <2>3, <2>4, <3>1, <1>3, <1>S, <1>I DEF Meets
    <3> QED BY <3>2
  <2>5. CASE GrowsWrong(h, n)
    <3>1. \A c \in h.free : c.len < n
      BY <1>3, <1>S DEF NoRoom
    <3>2. /\ ~Tiled(GrownHeap(h, n), B \cup {Cell(Base(h), n)})
          /\ \A k \in B : k.len < n =>
               ~Tiled(AddToFreeList(GrownHeap(h, n), k),
                      (B \ {k}) \cup {Cell(Base(h), n)})
      BY <1>3, <2>5, <3>1, GrownWrongly
    <3>3. MeetsWrongly(h, B, n, a)
      BY <2>1, <2>2, <2>3, <2>5, <3>2, <1>3, <1>S, <1>I DEF MeetsWrongly
    <3> QED BY <3>3
  <2> QED BY <2>4, <2>5
<1> QED BY <1>1, <1>2, <1>3

\* A gap lies in one free cell, because free cells do not touch.
LEMMA NoRoomNoGap ==
  ASSUME NEW h, NEW B, Good(h, B), NEW n \in Nat \ {0}, NoRoom(h, n),
         NEW i \in 0..(h.limit - n)
  PROVE  \E b \in B : ~(b.at + b.len <= i \/ i + n <= b.at)
<1>F. /\ h.limit \in Nat
      /\ \A c \in h.free : /\ c.at \in Nat /\ c.len \in Nat
                           /\ c.at + c.len <= h.limit
      /\ \A b \in B : /\ b.at \in Nat /\ b.len \in Nat /\ b.len > 0
      /\ \A c, d \in h.free : c # d => c.at + c.len < d.at
                                       \/ d.at + d.len < c.at
      /\ \A j \in 0..(h.limit - 1) :
           \E c \in B \cup h.free : c.at <= j /\ j < c.at + c.len
  BY GoodFacts
<1>1. SUFFICES ASSUME \A b \in B : b.at + b.len <= i \/ i + n <= b.at
               PROVE  FALSE
  OBVIOUS
<1>2. ASSUME NEW j \in Nat, i <= j, j < i + n
      PROVE  \E c \in h.free : c.at <= j /\ j < c.at + c.len
  <2>1. j \in 0..(h.limit - 1)
    BY <1>2, <1>F
  <2>2. PICK c \in B \cup h.free : c.at <= j /\ j < c.at + c.len
    BY <2>1, <1>F
  <2> QED BY <2>2, <1>1, <1>2, <1>F
<1>3. PICK c \in h.free : c.at <= i /\ i < c.at + c.len
  BY <1>2
<1>4. c.at + c.len < i + n
  BY <1>3, <1>F DEF NoRoom
<1>5. PICK d \in h.free : d.at <= c.at + c.len /\ c.at + c.len < d.at + d.len
  BY <1>2, <1>3, <1>4, <1>F
<1>6. c # d
  BY <1>5, <1>F
<1> QED BY <1>3, <1>5, <1>6, <1>F

\* A block may be cut in two.
LEMMA Cut ==
  ASSUME NEW h, NEW B, Good(h, B), NEW b \in B, NEW n \in Nat \ {0}, n < b.len
  PROVE  LET x == Cell(b.at, n)
             y == Cell(b.at + n, b.len - n)
         IN /\ Good(h, (B \ {b}) \cup {x, y})
            /\ ((B \ {b}) \cup {x, y}) \ {y} = (B \ {b}) \cup {x}
<1> DEFINE x == Cell(b.at, n)
           y == Cell(b.at + n, b.len - n)
           C == (B \ {b}) \cup {x, y}
<1>F. /\ h.limit \in Nat /\ B \subseteq Blocks
      /\ \A c \in h.free : /\ c.at \in Nat /\ c.len \in Nat
                           /\ c.at + c.len <= h.limit
                           /\ c.len > 0
                           /\ c.at + c.len = h.limit => h.top = c.at
      /\ \A d \in B : /\ d.at \in Nat /\ d.len \in Nat /\ d.len > 0
                      /\ d.at + d.len <= h.limit
      /\ \A c, d \in h.free : c # d => c.at + c.len < d.at
                                       \/ d.at + d.len < c.at
      /\ \A c, d \in B : c # d => c.at + c.len <= d.at \/ d.at + d.len <= c.at
      /\ \A d \in B, c \in h.free : d.at + d.len <= c.at \/ c.at + c.len <= d.at
      /\ h.top # NULL => \E c \in h.free : c.at = h.top
                                           /\ \A d \in h.free : d.at <= c.at
      /\ \A i \in 0..(h.limit - 1) :
           \E c \in B \cup h.free : c.at <= i /\ i < c.at + c.len
  BY GoodFacts
<1>1. /\ x.at = b.at /\ x.len = n /\ y.at = b.at + n /\ y.len = b.len - n
      /\ x \in Blocks /\ y \in Blocks
  BY <1>F DEF Cell, Blocks
<1> HIDE DEF x, y
<1>2. h \in [free : SUBSET Cells, top : Nat \cup {NULL}, limit : Nat]
  BY DEF Good
<1>3. C \subseteq Blocks
  BY <1>1, <1>F
<1>4. \A d \in C : d.at + d.len <= h.limit
  BY <1>1, <1>F
<1>5. ASSUME NEW c \in B \ {b}
      PROVE  /\ c.at + c.len <= x.at \/ x.at + x.len <= c.at
             /\ c.at + c.len <= y.at \/ y.at + y.len <= c.at
             /\ c # y
  BY <1>1, <1>F
<1>6. \A c, d \in C : c # d => c.at + c.len <= d.at \/ d.at + d.len <= c.at
  BY <1>5, <1>1, <1>F
<1>7. ASSUME NEW d \in C, NEW c \in h.free
      PROVE  d.at + d.len <= c.at \/ c.at + c.len <= d.at
  BY <1>1, <1>F
<1>8. ASSUME NEW i \in 0..(h.limit - 1)
      PROVE  \E c \in C \cup h.free : c.at <= i /\ i < c.at + c.len
  <2>1. PICK c \in B \cup h.free : c.at <= i /\ i < c.at + c.len
    BY <1>F
  <2>2. CASE c # b
    BY <2>1, <2>2
  <2>3. CASE c = b
    <3>1. (x.at <= i /\ i < x.at + x.len) \/ (y.at <= i /\ i < y.at + y.len)
      BY <2>1, <2>3, <1>1, <1>F
    <3> QED BY <3>1
  <2> QED BY <2>2, <2>3
<1>9. x # y
  BY <1>1, <1>F
<1>10. C \ {y} = (B \ {b}) \cup {x}
  BY <1>5, <1>9
<1>11. Good(h, C)
  <2> HIDE DEF C
  <2> QED BY <1>2, <1>3, <1>4, <1>6, <1>7, <1>8, <1>F, GoodIf
<1> QED BY <1>10, <1>11 DEF x, y

-----------------------------------------------------------------------------
\* A fresh heap is one free cell.
LEMMA FreshIsGood ==
  ASSUME NEW l \in Nat \ {0}
  PROVE  Good(FreshHeap(l), {})
<1> DEFINE g == FreshHeap(l)
           c0 == Cell(0, l)
<1>1. g = [free |-> {c0}, top |-> 0, limit |-> l]
  BY DEF FreshHeap
<1>2. c0.at = 0 /\ c0.len = l /\ c0 \in Cells
  BY DEF Cell, Cells
<1> HIDE DEF g, c0
<1>3. g \in [free : SUBSET Cells, top : Nat \cup {NULL}, limit : Nat]
  BY <1>1, <1>2
<1>4. g.free = {c0} /\ g.top = 0 /\ g.limit = l
  BY <1>1
<1>5. \A i \in 0..(g.limit - 1) :
        \E c \in {} \cup g.free : c.at <= i /\ i < c.at + c.len
  BY <1>2, <1>4
<1>6. Good(g, {})
  BY <1>2, <1>3, <1>4, <1>5, GoodIf
<1> QED BY <1>6 DEF g

\* The inductive invariant, and each action: what it keeps and the step of
\* UluaHeapSpec it is.

IInv ==
  /\ TypeOK
  /\ ~overgrown => Good(heap, blocks)
  /\ overgrown => ~Tiled(heap, blocks)

LEMMA UsableType ==
  ASSUME NEW g, NEW B, Good(g, B), InitLen <= g.limit, g.limit <= MaxLimit
  PROVE  g \in [free : SUBSET [at : Nat, len : Int], top : Nat \cup {NULL},
                limit : InitLen..MaxLimit]
<1>1. g \in [free : SUBSET Cells, top : Nat \cup {NULL}, limit : Nat]
  BY DEF Good
<1>2. g.limit \in InitLen..MaxLimit
  BY <1>1, UluaHeapAssumption
<1>3. g.free \in SUBSET [at : Nat, len : Int]
  BY <1>1 DEF Cells
<1> QED BY <1>1, <1>2, <1>3

LEMMA InitIInv ==
  ASSUME Init PROVE IInv
<1>1. /\ heap = FreshHeap(InitLen)
      /\ blocks = {} /\ result = "ok" /\ asked = 0 /\ overgrown = FALSE
  BY DEF Init
<1>2. Good(heap, blocks) /\ heap.limit = InitLen
  BY <1>1, UluaHeapAssumption, FreshIsGood DEF FreshHeap
<1>3. heap \in [free : SUBSET [at : Nat, len : Int], top : Nat \cup {NULL},
                limit : InitLen..MaxLimit]
  BY <1>2, UluaHeapAssumption, UsableType
<1> QED BY <1>1, <1>2, <1>3 DEF IInv, TypeOK

\* What the invariant says of a heap that can still be used.
LEMMA Usable ==
  ASSUME IInv, ~overgrown
  PROVE  /\ Good(heap, blocks)
         /\ heap.limit \in Nat /\ InitLen <= heap.limit /\ heap.limit <= MaxLimit
         /\ blocks \subseteq Blocks
BY UluaHeapAssumption DEF IInv, TypeOK, Blocks

\* And what makes it hold again.
LEMMA UsableAgain ==
  ASSUME NEW g, NEW B, Good(g, B), InitLen <= g.limit, g.limit <= MaxLimit,
         heap' = g, blocks' = B, result' \in {"null", "ok"},
         asked' \in Sizes \cup {0}, overgrown' = FALSE
  PROVE  IInv'
<1>1. g \in [free : SUBSET [at : Nat, len : Int], top : Nat \cup {NULL},
             limit : InitLen..MaxLimit]
  BY UsableType
<1>2. B \subseteq Blocks
  BY DEF Good
<1>3. TypeOK'
  BY <1>1, <1>2 DEF TypeOK, Blocks
<1> QED BY <1>3 DEF IInv

LEMMA Unusable ==
  ASSUME NEW g \in AnyHeap, NEW B \in SUBSET Blocks, ~Tiled(g, B),
         InitLen <= g.limit, g.limit <= MaxLimit,
         heap' = g, blocks' = B, result' \in {"null", "ok"},
         asked' \in Sizes \cup {0}, overgrown' = TRUE
  PROVE  IInv'
<1>1. g.limit \in InitLen..MaxLimit
  BY UluaHeapAssumption DEF AnyHeap
<1>2. g \in [free : SUBSET [at : Nat, len : Int], top : Nat \cup {NULL},
             limit : InitLen..MaxLimit]
  BY <1>1 DEF AnyHeap
<1>3. TypeOK'
  BY <1>2 DEF TypeOK, Blocks
<1> QED BY <1>3 DEF IInv

\* A heap without room has no gap in the words of UluaHeapSpec.
LEMMA NoGapNow ==
  ASSUME Good(heap, blocks), NEW n \in Nat \ {0}, NoRoom(heap, n)
  PROVE  Abstract!NoGap(n)
BY NoRoomNoGap DEF Abstract!NoGap, Abstract!Clear

\* A block that Meets places is one that UluaHeapSpec may place.
LEMMA PlaceNow ==
  ASSUME Good(heap, blocks), NEW n \in Nat \ {0}, NEW a, Meets(heap, blocks, n, a),
         heap'.limit = a.heap.limit, result' = "ok", asked' = n
  PROVE  Abstract!Place(n, a.at) /\ a.at \in 0..heap.limit
<1> DEFINE new == Cell(a.at, n)
           C == blocks \cup {new}
<1>1. new.at = a.at /\ new.len = n /\ a.at \in Nat /\ new \notin blocks
  BY DEF Cell, Meets
<1>2. Good(a.heap, C)
  BY DEF Meets
<1>3. /\ \A b \in C : b.at + b.len <= a.heap.limit
      /\ \A b, d \in C : b # d => b.at + b.len <= d.at \/ d.at + d.len <= b.at
  <2> HIDE DEF C
  <2> QED BY <1>2, GoodFacts
<1> HIDE DEF new
<1>4. \A b \in blocks : b.at + b.len <= a.at \/ a.at + n <= b.at
  BY <1>1, <1>3
<1>5. a.at + n <= a.heap.limit
  BY <1>1, <1>3
<1>6. a.heap.limit = heap.limit \/ (a.heap.limit > heap.limit /\ Abstract!NoGap(n))
  BY NoGapNow DEF Meets
<1>7. a.at \in 0..heap.limit
  BY GoodFacts DEF Meets
<1> QED BY <1>4, <1>5, <1>6, <1>7 DEF Abstract!Place, Abstract!Clear

LEMMA WrongIsBoolean ==
  ASSUME NEW h, NEW B, Good(h, B), NEW n \in Nat \ {0}
  PROVE  Allocated(h, n).wrong \in BOOLEAN
BY DEF Allocated, GrowsWrong

LEMMA AllocStep ==
  ASSUME IInv, Alloc PROVE IInv' /\ Abstract!Next
<1>1. PICK n \in Sizes : LET a == Allocated(heap, n) IN
        /\ ~overgrown
        /\ heap' = a.heap
        /\ overgrown' = a.wrong
        /\ blocks' = IF a.at = NULL THEN blocks ELSE blocks \cup {Cell(a.at, n)}
        /\ result' = IF a.at = NULL THEN "null" ELSE "ok"
        /\ asked' = n
  BY DEF Alloc
<1> DEFINE a == Allocated(heap, n)
           new == Cell(a.at, n)
<1>2. /\ Good(heap, blocks) /\ blocks \subseteq Blocks
      /\ heap.limit \in Nat /\ InitLen <= heap.limit /\ heap.limit <= MaxLimit
  BY <1>1, Usable
<1>3. n \in Nat \ {0} /\ InitLen \in Nat /\ MaxLimit \in Nat
  BY UluaHeapAssumption
<1>4. /\ ~overgrown /\ asked' = n /\ asked' \in Sizes \cup {0}
      /\ heap' = a.heap /\ overgrown' = a.wrong
      /\ a.at = NULL => blocks' = blocks /\ result' = "null"
      /\ a.at # NULL => blocks' = blocks \cup {new} /\ result' = "ok"
  BY <1>1
<1>5. \/ Fails(heap, n, a) \/ Meets(heap, blocks, n, a)
      \/ MeetsWrongly(heap, blocks, n, a)
  BY <1>2, <1>3, AllocatedIs
<1>n. new = [at |-> a.at, len |-> n]
  BY DEF Cell
<1> HIDE DEF a, new
<1>6. CASE Fails(heap, n, a)
  <2>1. /\ heap' = heap /\ blocks' = blocks /\ result' = "null"
        /\ overgrown' = a.wrong /\ ~a.wrong /\ NoRoom(heap, n)
    BY <1>4, <1>6 DEF Fails
  <2>o. a.wrong = FALSE
    BY <1>6, WrongIsBoolean, <1>2, <1>3 DEF Fails, a
  <2>2. IInv'
    BY <2>1, <2>o, <1>2, <1>4, UsableAgain
  <2>3. Abstract!Fail
    BY <2>1, <1>2, <1>3, <1>4, NoGapNow DEF Abstract!Fail
  <2>4. UNCHANGED overgrown
    BY <2>1, <2>o, <1>4 DEF IInv, TypeOK
  <2> QED BY <2>2, <2>3, <2>4, <1>4 DEF Abstract!Next
<1>7. CASE Meets(heap, blocks, n, a)
  <2>1. a.at \in Nat /\ ~a.wrong /\ Good(a.heap, blocks \cup {new})
        /\ heap.limit <= a.heap.limit /\ a.heap.limit <= MaxLimit
    <3>1. Good(a.heap, blocks \cup {new})
      BY <1>7 DEF Meets, new
    <3>2. a.heap.limit \in Nat
      BY <3>1, GoodFacts
    <3> QED BY <1>7, <1>2, <3>1, <3>2 DEF Meets, new
  <2>o. a.wrong = FALSE
    BY <2>1, WrongIsBoolean, <1>2, <1>3 DEF a
  <2>2. /\ heap' = a.heap /\ blocks' = blocks \cup {new} /\ result' = "ok"
        /\ overgrown' = FALSE
    BY <2>1, <2>o, <1>4 DEF NULL
  <2>g. a.heap.limit \in Nat
    BY <2>1, GoodFacts
  <2>3. IInv'
    <3>1. InitLen <= a.heap.limit
      BY <2>1, <2>g, <1>2, <1>3
    <3> QED BY <2>1, <2>2, <3>1, <1>4, UsableAgain
  <2>4. Abstract!Place(n, a.at) /\ a.at \in 0..heap.limit
    BY <1>2, <1>3, <1>4, <1>7, <2>2, PlaceNow
  <2>5. Abstract!Alloc
    BY <2>2, <2>4, <1>n DEF Abstract!Alloc
  <2>6. UNCHANGED overgrown
    BY <2>2, <1>4 DEF IInv, TypeOK
  <2> QED BY <2>3, <2>5, <2>6, <1>4 DEF Abstract!Next
<1>8. CASE MeetsWrongly(heap, blocks, n, a)
  <2>1. /\ a.at \in Nat /\ a.wrong /\ a.heap \in AnyHeap
        /\ a.heap.limit > heap.limit /\ a.heap.limit <= MaxLimit
        /\ NoRoom(heap, n) /\ ~Tiled(a.heap, blocks \cup {new})
    BY <1>8 DEF MeetsWrongly, new
  <2>o. a.wrong = TRUE
    BY <2>1, WrongIsBoolean, <1>2, <1>3 DEF a
  <2>2. /\ heap' = a.heap /\ blocks' = blocks \cup {new} /\ result' = "ok"
        /\ overgrown' = TRUE
    BY <2>1, <2>o, <1>4 DEF NULL
  <2>3. blocks \cup {new} \in SUBSET Blocks
    BY <1>2, <1>3, <1>n, <2>1 DEF Blocks
  <2>g. a.heap.limit \in Nat
    BY <2>1 DEF AnyHeap
  <2>4. IInv'
    <3>1. InitLen <= a.heap.limit
      BY <2>1, <2>g, <1>2, <1>3
    <3> QED BY <2>1, <2>2, <2>3, <3>1, <1>4, Unusable
  <2>5. Abstract!Overgrow
    BY <2>1, <2>2, <1>2, <1>3, <1>4, NoGapNow DEF Abstract!Overgrow
  <2> QED BY <2>4, <2>5, <1>4 DEF Abstract!Next
<1> QED BY <1>5, <1>6, <1>7, <1>8

LEMMA GrowStep ==
  ASSUME IInv, Grow PROVE IInv' /\ Abstract!Next
<1>1. PICK b \in blocks, n \in Sizes : LET a == Allocated(heap, n) IN
        /\ ~overgrown /\ b.len < n
        /\ IF a.at = NULL
           THEN UNCHANGED << heap, blocks >> /\ result' = "null"
           ELSE /\ heap' = AddToFreeList(a.heap, b)
                /\ blocks' = (blocks \ {b}) \cup {Cell(a.at, n)}
                /\ result' = "ok"
        /\ asked' = n /\ overgrown' = a.wrong
  BY DEF Grow
<1> DEFINE a == Allocated(heap, n)
           new == Cell(a.at, n)
<1>2. /\ Good(heap, blocks) /\ blocks \subseteq Blocks
      /\ heap.limit \in Nat /\ InitLen <= heap.limit /\ heap.limit <= MaxLimit
  BY <1>1, Usable
<1>3. n \in Nat \ {0} /\ InitLen \in Nat /\ MaxLimit \in Nat
  BY UluaHeapAssumption
<1>4. /\ ~overgrown /\ b.len < n /\ overgrown' = a.wrong
      /\ asked' = n /\ asked' \in Sizes \cup {0}
      /\ a.at = NULL => UNCHANGED << heap, blocks >> /\ result' = "null"
      /\ a.at # NULL => /\ heap' = AddToFreeList(a.heap, b)
                        /\ blocks' = (blocks \ {b}) \cup {new}
                        /\ result' = "ok"
  BY <1>1
<1>5. \/ Fails(heap, n, a) \/ Meets(heap, blocks, n, a)
      \/ MeetsWrongly(heap, blocks, n, a)
  BY <1>2, <1>3, AllocatedIs
<1>w. a.wrong \in BOOLEAN
  BY WrongIsBoolean, <1>2, <1>3
<1>n. new = [at |-> a.at, len |-> n]
  BY DEF Cell
<1> HIDE DEF a, new
<1>6. CASE Fails(heap, n, a)
  <2>1. a.at = NULL /\ ~a.wrong /\ NoRoom(heap, n)
    BY <1>6 DEF Fails
  <2>2. /\ heap' = heap /\ blocks' = blocks /\ result' = "null"
        /\ overgrown' = FALSE
    BY <2>1, <1>4, <1>w
  <2>3. IInv'
    BY <2>2, <1>2, <1>4, UsableAgain
  <2>4. Abstract!Fail
    BY <2>1, <2>2, <1>2, <1>3, <1>4, NoGapNow DEF Abstract!Fail
  <2>5. UNCHANGED overgrown
    BY <2>2, <1>4 DEF IInv, TypeOK
  <2> QED BY <2>3, <2>4, <2>5, <1>4 DEF Abstract!Next
<1>7. CASE Meets(heap, blocks, n, a)
  <2>1. a.at \in Nat /\ ~a.wrong /\ Good(a.heap, blocks \cup {new})
        /\ new \notin blocks
        /\ heap.limit <= a.heap.limit /\ a.heap.limit <= MaxLimit
    <3>1. Good(a.heap, blocks \cup {new})
      BY <1>7 DEF Meets, new
    <3>2. a.heap.limit \in Nat
      BY <3>1, GoodFacts
    <3> QED BY <1>7, <1>2, <3>1, <3>2 DEF Meets, new
  <2>2. /\ heap' = AddToFreeList(a.heap, b)
        /\ blocks' = (blocks \ {b}) \cup {new} /\ result' = "ok"
        /\ overgrown' = FALSE
    BY <2>1, <1>4, <1>w DEF NULL
  <2>3. Good(AddToFreeList(a.heap, b), (blocks \cup {new}) \ {b})
    BY <2>1, Released
  <2>4. (blocks \cup {new}) \ {b} = (blocks \ {b}) \cup {new}
    BY <2>1
  <2>g. a.heap.limit \in Nat /\ AddToFreeList(a.heap, b).limit = a.heap.limit
    BY <2>1, GoodFacts DEF AddToFreeList, Good
  <2>5. IInv'
    <3>1. InitLen <= a.heap.limit
      BY <2>1, <2>g, <1>2, <1>3
    <3> QED BY <2>1, <2>2, <2>3, <2>4, <2>g, <3>1, <1>4, UsableAgain
  <2>6. Abstract!Place(n, a.at) /\ a.at \in 0..heap.limit
    BY <1>2, <1>3, <1>4, <1>7, <2>2, <2>g, PlaceNow
  <2>7. Abstract!Grow
    BY <2>2, <2>6, <1>4, <1>n DEF Abstract!Grow
  <2>8. UNCHANGED overgrown
    BY <2>2, <1>4 DEF IInv, TypeOK
  <2> QED BY <2>5, <2>7, <2>8, <1>4 DEF Abstract!Next
<1>8. CASE MeetsWrongly(heap, blocks, n, a)
  <2>1. /\ a.at \in Nat /\ a.wrong /\ a.heap \in AnyHeap
        /\ a.heap.limit > heap.limit /\ a.heap.limit <= MaxLimit
        /\ NoRoom(heap, n)
        /\ ~Tiled(AddToFreeList(a.heap, b), (blocks \ {b}) \cup {new})
    BY <1>8, <1>4 DEF MeetsWrongly, new
  <2>2. /\ heap' = AddToFreeList(a.heap, b)
        /\ blocks' = (blocks \ {b}) \cup {new} /\ result' = "ok"
        /\ overgrown' = TRUE
    BY <2>1, <1>4, <1>w DEF NULL
  <2>3. (blocks \ {b}) \cup {new} \in SUBSET Blocks
    BY <1>2, <1>3, <1>n, <2>1 DEF Blocks
  <2>g. /\ AddToFreeList(a.heap, b) \in AnyHeap
        /\ AddToFreeList(a.heap, b).limit = a.heap.limit /\ a.heap.limit \in Nat
    BY <2>1, <1>2, AddedIs DEF AnyHeap
  <2>4. IInv'
    <3>1. InitLen <= a.heap.limit
      BY <2>1, <2>g, <1>2, <1>3
    <3> QED BY <2>1, <2>2, <2>3, <2>g, <3>1, <1>4, Unusable
  <2>5. Abstract!Overgrow
    BY <2>1, <2>2, <2>g, <1>2, <1>3, <1>4, NoGapNow DEF Abstract!Overgrow
  <2> QED BY <2>4, <2>5, <1>4 DEF Abstract!Next
<1> QED BY <1>5, <1>6, <1>7, <1>8

LEMMA FreeStep ==
  ASSUME IInv, Free PROVE IInv' /\ Abstract!Next
<1>1. PICK b \in blocks : heap' = AddToFreeList(heap, b) /\ blocks' = blocks \ {b}
  BY DEF Free
<1>2. ~overgrown /\ result' = "null" /\ asked' = 0 /\ overgrown' = overgrown
  BY DEF Free
<1>3. overgrown = FALSE
  BY <1>2 DEF IInv, TypeOK
<1>4. /\ Good(heap, blocks)
      /\ heap.limit \in Nat /\ InitLen <= heap.limit /\ heap.limit <= MaxLimit
  BY <1>2, Usable
<1>5. Good(AddToFreeList(heap, b), blocks \ {b})
  BY <1>4, Released
<1>6. AddToFreeList(heap, b).limit = heap.limit
  BY <1>4 DEF AddToFreeList, Good
<1>7. IInv'
  BY <1>1, <1>2, <1>3, <1>4, <1>5, <1>6, UsableAgain
<1>8. Abstract!Free
  BY <1>1, <1>2, <1>6 DEF Abstract!Free
<1> QED BY <1>2, <1>7, <1>8 DEF Abstract!Next

LEMMA ShrinkStep ==
  ASSUME IInv, Shrink PROVE IInv' /\ Abstract!Next
<1>1. PICK b \in blocks, n \in Sizes :
        /\ n <= b.len /\ asked' = n
        /\ heap' = IF n = b.len THEN heap
                   ELSE AddToFreeList(heap, Cell(b.at + n, b.len - n))
        /\ blocks' = (blocks \ {b}) \cup {Cell(b.at, n)}
  BY DEF Shrink
<1>2. ~overgrown /\ result' = "ok" /\ overgrown' = overgrown
  BY DEF Shrink
<1>3. overgrown = FALSE
  BY <1>2 DEF IInv, TypeOK
<1>4. /\ Good(heap, blocks) /\ blocks \subseteq Blocks
      /\ heap.limit \in Nat /\ InitLen <= heap.limit /\ heap.limit <= MaxLimit
  BY <1>2, Usable
<1>5. n \in Nat \ {0} /\ b.at \in Nat /\ b.len \in Nat
  BY <1>4, UluaHeapAssumption DEF Blocks
<1>6. Cell(b.at, n) = [b EXCEPT !.len = n]
  BY <1>4 DEF Cell, Blocks
<1>7. IInv' /\ heap'.limit = heap.limit
  <2>1. CASE n = b.len
    <3>1. Cell(b.at, n) = b
      BY <2>1, <1>4 DEF Cell, Blocks
    <3>2. blocks' = blocks /\ heap' = heap
      BY <2>1, <3>1, <1>1
    <3> QED BY <3>2, <1>1, <1>2, <1>3, <1>4, UsableAgain
  <2>2. CASE n # b.len
    <3> DEFINE x == Cell(b.at, n)
               y == Cell(b.at + n, b.len - n)
    <3>1. n < b.len
      BY <2>2, <1>1, <1>5
    <3>2. /\ Good(heap, (blocks \ {b}) \cup {x, y})
          /\ ((blocks \ {b}) \cup {x, y}) \ {y} = (blocks \ {b}) \cup {x}
      BY <3>1, <1>4, <1>5, Cut
    <3> HIDE DEF y
    <3>3. Good(AddToFreeList(heap, y), ((blocks \ {b}) \cup {x, y}) \ {y})
      BY <3>2, Released
    <3>4. heap' = AddToFreeList(heap, y) /\ blocks' = (blocks \ {b}) \cup {x}
      BY <2>2, <1>1 DEF y
    <3>5. AddToFreeList(heap, y).limit = heap.limit
      BY <1>4 DEF AddToFreeList, Good
    <3>6. Good(AddToFreeList(heap, y), (blocks \ {b}) \cup {x})
      BY <3>2, <3>3
    <3> HIDE DEF x
    <3> QED BY <3>4, <3>5, <3>6, <1>1, <1>2, <1>3, <1>4, UsableAgain
  <2> QED BY <2>1, <2>2
<1>8. Abstract!Shrink
  BY <1>1, <1>2, <1>6, <1>7 DEF Abstract!Shrink
<1> QED BY <1>2, <1>7, <1>8 DEF Abstract!Next

LEMMA ResetStep ==
  ASSUME IInv, Reset PROVE IInv' /\ Abstract!Next
<1>1. /\ ~overgrown /\ heap' = FreshHeap(heap.limit)
      /\ blocks' = {} /\ result' = "ok" /\ asked' = 0
      /\ overgrown' = overgrown
  BY DEF Reset
<1>2. overgrown = FALSE
  BY <1>1 DEF IInv, TypeOK
<1>3. heap.limit \in Nat \ {0} /\ InitLen <= heap.limit /\ heap.limit <= MaxLimit
  BY <1>1, Usable, UluaHeapAssumption
<1>4. Good(FreshHeap(heap.limit), {}) /\ FreshHeap(heap.limit).limit = heap.limit
  BY <1>3, FreshIsGood DEF FreshHeap
<1>5. IInv'
  BY <1>1, <1>2, <1>3, <1>4, UsableAgain
<1>6. Abstract!Reset
  BY <1>1, <1>4 DEF Abstract!Reset
<1> QED BY <1>1, <1>5, <1>6 DEF Abstract!Next

LEMMA NextStep ==
  ASSUME IInv, [Next]_vars PROVE IInv' /\ [Abstract!Next]_(Abstract!vars)
<1>1. CASE Next
  BY <1>1, AllocStep, GrowStep, FreeStep, ShrinkStep, ResetStep DEF Next
<1>2. CASE UNCHANGED vars
  BY <1>2 DEF vars, IInv, TypeOK, Abstract!vars
<1> QED BY <1>1, <1>2

\* In every state the heap is as it has to be, or was grown wrongly and it shows.
THEOREM Inductive == Spec => []IInv
<1>1. Init => IInv
  BY InitIInv
<1>2. IInv /\ [Next]_vars => IInv'
  BY NextStep
<1> QED BY <1>1, <1>2, PTL DEF Spec

\* Whatever sizes Lua asks for and however large the heap, until it is grown
\* wrongly every cell has one owner and every free cell room for its header, and from
\* then on a cell has two owners, or the last block or the header behind it is
\* over the end (uluaHeap_allocFn).
THEOREM HeapTiled == Spec => []HeapIsTiled
<1>1. IInv => HeapIsTiled
  <2> SUFFICES ASSUME IInv PROVE HeapIsTiled
    OBVIOUS
  <2>1. overgrown \in BOOLEAN
    BY DEF IInv, TypeOK
  <2>2. Tiled(heap, blocks) \in BOOLEAN
    BY DEF Tiled
  <2>3. ~overgrown => Tiled(heap, blocks)
    BY DEF IInv, Good
  <2>4. overgrown => ~Tiled(heap, blocks)
    BY DEF IInv
  <2> QED BY <2>1, <2>2, <2>3, <2>4 DEF HeapIsTiled, IInv
<1> QED BY <1>1, Inductive, PTL

\* Until the heap is grown wrongly no two free cells touch, topCell, when there
\* is one, is the last of them, and a free cell that ends the heap is topCell
\* (addToFreeList).
THEOREM FreeListRight == Spec => []FreeListIsRight
<1>1. IInv => FreeListIsRight
  BY DEF IInv, Good, FreeListIsRight
<1> QED BY <1>1, Inductive, PTL

\* A request fails, or asks the kernel for more, only when there is no gap of the
\* size that it asks for; until the heap is grown wrongly what is given out is
\* clear of every block; a resize that fails keeps the old one.
THEOREM Implements == Spec => AbstractSpec
<1>1. Init => Abstract!Init
  <2> SUFFICES ASSUME Init PROVE Abstract!Init
    OBVIOUS
  <2>1. heap = FreshHeap(InitLen) /\ InitLen \in Nat
    BY UluaHeapAssumption DEF Init
  <2>2. heap.limit \in Nat
    BY <2>1 DEF FreshHeap
  <2> QED BY <2>2 DEF Init, Abstract!Init
<1>2. IInv /\ [Next]_vars => [Abstract!Next]_(Abstract!vars)
  BY NextStep
<1> QED BY <1>1, <1>2, Inductive, PTL DEF Spec, AbstractSpec, Abstract!Spec
=============================================================================
