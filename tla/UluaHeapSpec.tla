---------------------------- MODULE UluaHeapSpec ----------------------------
(***************************************************************************)
(* What Lua needs of its allocator: the blocks it holds lie in the heap    *)
(* and share no cell, a request fails or asks the kernel for more memory   *)
(* only when the heap has no gap of the size asked for, and a resize that  *)
(* fails leaves the old block.  Addresses and lengths are in cells of 8    *)
(* bytes.                                                                  *)
(***************************************************************************)
EXTENDS Integers

CONSTANT Sizes  \* the lengths that are asked for

VARIABLES
  blocks,  \* the blocks Lua holds, [at, len]
  limit,   \* the heap is 0..limit-1
  result,  \* what the last call returned: "null" or "ok"
  asked,   \* what it asked for: a length, 0 for a free or a reset
  overgrown  \* a call took memory it had no right to

vars == << blocks, limit, result, asked, overgrown >>

\* A block of length n at i would be clear of all others.
Clear(i, n) == \A b \in blocks : b.at + b.len <= i \/ i + n <= b.at

\* The heap has no room for n cells as it is.
NoGap(n) == \A i \in 0..(limit - n) : ~Clear(i, n)

Init ==
  /\ blocks = {} /\ limit \in Nat
  /\ result = "ok" /\ asked = 0 /\ overgrown = FALSE

\* More memory is asked for only when there is no gap.
Place(n, at) ==
  /\ limit' = limit \/ (limit' > limit /\ NoGap(n))
  /\ Clear(at, n)
  /\ at + n <= limit'
  /\ result' = "ok" /\ asked' = n

Alloc ==
  \E n \in Sizes, at \in 0..limit :
    /\ blocks' = blocks \cup {[at |-> at, len |-> n]}
    /\ Place(n, at)

\* The block moves: both are held until the contents are copied.
Grow ==
  \E b \in blocks, n \in Sizes, at \in 0..limit :
    /\ b.len < n
    /\ blocks' = (blocks \ {b}) \cup {[at |-> at, len |-> n]}
    /\ Place(n, at)

Shrink ==
  /\ \E b \in blocks, n \in Sizes :
       /\ n <= b.len /\ asked' = n
       /\ blocks' = (blocks \ {b}) \cup {[b EXCEPT !.len = n]}
  /\ result' = "ok" /\ UNCHANGED limit

Free ==
  /\ \E b \in blocks : blocks' = blocks \ {b}
  /\ result' = "null" /\ asked' = 0 /\ UNCHANGED limit

\* A call fails for want of a gap of what it asks for.
Fail ==
  /\ asked' \in Sizes /\ NoGap(asked')
  /\ result' = "null" /\ UNCHANGED << blocks, limit >>

Reset ==
  /\ blocks' = {}
  /\ result' = "ok" /\ asked' = 0 /\ UNCHANGED limit

\* What uluaHeap.c does not keep to: a heap that has no gap for what is asked is
\* grown, and the block given out lies over another one or behind the end of the
\* heap, or the free cell behind it does.
Overgrow ==
  /\ asked' \in Sizes /\ NoGap(asked')
  /\ limit' > limit
  /\ overgrown' = TRUE

Next ==
  /\ ~overgrown
  /\ \/ Overgrow
     \/ /\ UNCHANGED overgrown
        /\ Alloc \/ Grow \/ Shrink \/ Free \/ Fail \/ Reset

Spec == Init /\ [][Next]_vars
=============================================================================
