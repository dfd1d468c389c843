------------------------------ MODULE UluaHeap ------------------------------
(***************************************************************************)
(* usersrc/uluaHeap.c, the allocator below Lua.  Addresses and lengths are *)
(* in cells of 8 bytes, from the first cell of the heap.  The free list is *)
(* kept in address order, so it is the set of its cells here: the cell     *)
(* before or behind an address in the list is the next one by address.     *)
(* Blocks carry no header; Lua knows their lengths and gives them back.    *)
(***************************************************************************)
EXTENDS Integers, FiniteSets

CONSTANTS
  Sizes,     \* what Lua asks for
  InitLen,   \* the first page without the Heap struct
  GrowMin,   \* 4096 bytes: the least that is asked of sbrk
  Fallback,  \* 2048 bytes: what is asked for when that fails
  MaxLimit   \* where the kernel refuses: the lowest thread stack

ASSUME UluaHeapAssumption ==
  /\ Sizes \subseteq Nat \ {0}
  /\ InitLen \in Nat \ {0} /\ MaxLimit \in Nat /\ InitLen <= MaxLimit
  /\ GrowMin \in Nat \ {0} /\ Fallback \in Nat \ {0}

NULL == -1

VARIABLES
  heap,      \* [free, top, limit]: the free cells, h->topCell, the break
  blocks,    \* what Lua holds, [at, len]
  result,    \* "null" or "ok", from the last call
  asked,     \* the length it asked for, 0 if it asked for none
  overgrown  \* the heap was grown where it does not end, or by too little

vars == << heap, blocks, result, asked, overgrown >>

Cell(at, len) == [at |-> at, len |-> len]
EndOf(c) == c.at + c.len

\* uluaHeap_init and, with the heap's present size, uluaHeap_reset.
FreshHeap(limit) == [free |-> {Cell(0, limit)}, top |-> 0, limit |-> limit]

Init ==
  /\ heap = FreshHeap(InitLen)
  /\ blocks = {} /\ result = "ok" /\ asked = 0 /\ overgrown = FALSE

\* Mistaken variant: the cell before is not merged with.
AddToFreeListApart(h, cell) ==
  LET after == {c \in h.free : c.at = EndOf(cell)}
      end == IF after = {} THEN EndOf(cell) ELSE EndOf(CHOOSE c \in after : TRUE)
      new == Cell(cell.at, end - cell.at)
      rest == h.free \ after
  IN [h EXCEPT !.free = rest \cup {new},
               !.top = IF \A c \in rest : c.at < new.at THEN new.at ELSE @]

\* addToFreeList: the cell goes between its neighbours by address, is merged
\* with them where they touch, and is made topCell when it ends the list.
AddToFreeList(h, cell) ==
  LET before == {c \in h.free : EndOf(c) = cell.at /\ c.at < cell.at}
      after == {c \in h.free : c.at = EndOf(cell)}
      start == IF before = {} THEN cell.at ELSE (CHOOSE c \in before : TRUE).at
      end == IF after = {} THEN EndOf(cell) ELSE EndOf(CHOOSE c \in after : TRUE)
      rest == h.free \ (before \cup after)
  IN [h EXCEPT !.free = rest \cup {Cell(start, end - start)},
               !.top = IF \A c \in rest : c.at < start THEN start ELSE @]

LowestOf(C) == CHOOSE c \in C : \A d \in C : c.at <= d.at

LargestOf(C) == LowestOf({c \in C : \A d \in C : d.len <= c.len})

\* The cell a walk over the free list settles on: one of the very length, else
\* the largest that is not topCell, else topCell.  The set is empty if none.
Suitable(h, n) ==
  LET exact == {c \in h.free : c.len = n}
      larger == {c \in h.free : c.len >= n /\ c.at # h.top}
      top == {c \in h.free : c.len >= n /\ c.at = h.top}
  IN IF exact # {} THEN {LowestOf(exact)}
     ELSE IF larger # {} THEN {LargestOf(larger)}
     ELSE top

\* Mistaken variant: what is left of a cell is not put back.
TakeFromWhole(h, found, n) ==
  [h EXCEPT !.free = @ \ {found},
            !.top = IF @ # found.at THEN @ ELSE NULL]

\* The cell is split, or leaves the list as a whole.
TakeFrom(h, found, n) ==
  LET remainder == found.len - n IN
  [h EXCEPT
     !.free = (@ \ {found}) \cup
              (IF remainder # 0 THEN {Cell(found.at + n, remainder)} ELSE {}),
     !.top = IF @ # found.at THEN @
             ELSE IF remainder # 0 THEN found.at + n ELSE NULL]

TopLen(h) == IF h.top = NULL THEN 0
             ELSE (CHOOSE c \in h.free : c.at = h.top).len

LargerOf(m, n) == IF m > n THEN m ELSE n

\* What sbrk gives for a request of n cells: GrowMin or what topCell lacks,
\* else Fallback; 0 if the kernel refuses both.
Increment(h, n) ==
  LET growBy == LargerOf(GrowMin, n - TopLen(h)) IN
  IF h.limit + growBy <= MaxLimit THEN growBy
  ELSE IF h.limit + Fallback <= MaxLimit THEN Fallback
  ELSE 0

\* topCell, reinstated at the break if there is none, is made longer by the
\* increment, whatever lies behind it, and its start is given out.
Base(h) == IF h.top = NULL THEN h.limit ELSE h.top

GrownHeap(h, n) ==
  LET incr == Increment(h, n)
      newTop == Cell(Base(h) + n, TopLen(h) + incr - n)
  IN [free |-> {c \in h.free : c.at # h.top} \cup {newTop},
      top |-> newTop.at,
      limit |-> h.limit + incr]

\* The increment does not continue topCell, or leaves nothing behind the block
\* for the header of the new topCell, which is written all the same.
GrowsWrong(h, n) ==
  \/ h.top # NULL /\ h.top + TopLen(h) # h.limit
  \/ TopLen(h) + Increment(h, n) <= n

\* uluaHeap_allocFn with no old block: the heap afterwards and the address.
Allocated(h, n) ==
  LET S == Suitable(h, n) IN
  IF S # {} THEN
    LET found == CHOOSE c \in S : TRUE
    IN [heap |-> TakeFrom(h, found, n), at |-> found.at, wrong |-> FALSE]
  ELSE IF Increment(h, n) = 0 THEN [heap |-> h, at |-> NULL, wrong |-> FALSE]
  ELSE [heap |-> GrownHeap(h, n), at |-> Base(h), wrong |-> GrowsWrong(h, n)]

Alloc ==
  \E n \in Sizes : LET a == Allocated(heap, n) IN
    /\ ~overgrown
    /\ heap' = a.heap
    /\ overgrown' = a.wrong
    /\ blocks' = IF a.at = NULL THEN blocks ELSE blocks \cup {Cell(a.at, n)}
    /\ result' = IF a.at = NULL THEN "null" ELSE "ok"
    /\ asked' = n

Free ==
  /\ ~overgrown
  /\ \E b \in blocks :
       /\ heap' = AddToFreeList(heap, b)
       /\ blocks' = blocks \ {b}
  /\ result' = "null" /\ asked' = 0 /\ UNCHANGED overgrown

\* The rest of a block that is made shorter is a free cell.
Shrink ==
  /\ ~overgrown
  /\ \E b \in blocks, n \in Sizes :
       /\ n <= b.len
       /\ heap' = IF n = b.len THEN heap
                  ELSE AddToFreeList(heap, Cell(b.at + n, b.len - n))
       /\ blocks' = (blocks \ {b}) \cup {Cell(b.at, n)}
       /\ asked' = n
  /\ result' = "ok" /\ UNCHANGED overgrown

\* Mistaken variant: the old block is freed before the new one is found.
GrowFreesFirst ==
  \E b \in blocks, n \in Sizes :
    LET a == Allocated(AddToFreeList(heap, b), n) IN
    /\ ~overgrown /\ b.len < n
    /\ heap' = a.heap
    /\ blocks' = IF a.at = NULL THEN blocks
                 ELSE (blocks \ {b}) \cup {Cell(a.at, n)}
    /\ result' = IF a.at = NULL THEN "null" ELSE "ok"
    /\ asked' = n /\ overgrown' = a.wrong

\* A block that is made longer is allocated anew, copied and freed.
Grow ==
  \E b \in blocks, n \in Sizes : LET a == Allocated(heap, n) IN
    /\ ~overgrown /\ b.len < n
    /\ IF a.at = NULL
       THEN UNCHANGED << heap, blocks >> /\ result' = "null"
       ELSE /\ heap' = AddToFreeList(a.heap, b)
            /\ blocks' = (blocks \ {b}) \cup {Cell(a.at, n)}
            /\ result' = "ok"
    /\ asked' = n /\ overgrown' = a.wrong

\* uluaHeap_reset: memTests.c tears down Lua and starts again.
Reset ==
  /\ ~overgrown
  /\ heap' = FreshHeap(heap.limit)
  /\ blocks' = {} /\ result' = "ok" /\ asked' = 0 /\ UNCHANGED overgrown

Next == Alloc \/ Free \/ Shrink \/ Grow \/ Reset

Spec == Init /\ [][Next]_vars

-----------------------------------------------------------------------------
TypeOK ==
  /\ heap \in [free : SUBSET [at : Nat, len : Int], top : Nat \cup {NULL},
               limit : InitLen..MaxLimit]
  /\ blocks \subseteq [at : Nat, len : Nat \ {0}]
  /\ result \in {"null", "ok"} /\ asked \in Sizes \cup {0}
  /\ overgrown \in BOOLEAN

\* Two cells share no memory.
Clear(c, d) == EndOf(c) <= d.at \/ EndOf(d) <= c.at

Apart(S) == \A c, d \in S : c # d => Clear(c, d)

\* Every cell of the heap h is in one of the blocks B or in one free cell, and
\* every free cell has room for its header.
Tiled(h, B) ==
  /\ Apart(B) /\ Apart(h.free)
  /\ \A b \in B, c \in h.free : Clear(b, c)
  /\ \A c \in h.free : c.len > 0
  /\ \A c \in B \cup h.free : EndOf(c) <= h.limit
  /\ \A i \in 0..(h.limit - 1) :
       \E c \in B \cup h.free : c.at <= i /\ i < EndOf(c)

\* Until the heap is grown wrongly no cell is lost and none has two owners,
\* whatever is allocated, resized and freed in whichever order
\* (uluaHeap_allocFn).  Once it is, the block given out lies over another block,
\* over a free cell or over the end, or what is left behind it has no room for
\* the header of a free cell.
HeapIsTiled == TypeOK /\ overgrown # Tiled(heap, blocks)

\* Free cells do not touch, and top is the last of them or NULL.
Merged(h) ==
  /\ \A c, d \in h.free : EndOf(c) # d.at
  /\ h.top # NULL => \E c \in h.free : c.at = h.top
                                       /\ \A d \in h.free : d.at <= c.at
  /\ \A c \in h.free : EndOf(c) = h.limit => h.top = c.at

\* Two free cells never touch, "so that free cells can be coelesced whenever a
\* cell is freed": a gap in the heap is one free cell.  And topCell, when there
\* is one, is the last of them; if the heap ends in a free cell there is one,
\* and it is that cell (addToFreeList).
FreeListIsRight == ~overgrown => Merged(heap)

\* The allocator does what UluaHeapSpec says.
Abstract == INSTANCE UluaHeapSpec
              WITH blocks <- blocks, limit <- heap.limit, result <- result,
                   asked <- asked, overgrown <- overgrown
AbstractSpec == Abstract!Spec
=============================================================================
