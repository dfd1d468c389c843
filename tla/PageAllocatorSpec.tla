------------------------- MODULE PageAllocatorSpec -------------------------
(***************************************************************************)
(* What k/inc/pageAllocator.h promises of the physical page allocator: an  *)
(* allocation gives its caller a run of pages that nobody else holds, of   *)
(* the length and alignment asked for, and fails only when the memory has  *)
(* none.  The promise is meant with Limit = NumPages.                      *)
(***************************************************************************)
EXTENDS Integers

CONSTANTS
  NumPages,   \* PageAllocator.numPages
  Limit,      \* no run that is given out ends behind this page
  BootPages,  \* the pages at the start that boot.c takes and nobody frees
  Requests    \* what callers ask for: [num, align], both in pages

VARIABLES
  regions,  \* the runs of pages, [idx, num], that callers hold
  result    \* what the last call of the allocator came to

vars == << regions, result >>

Pages(r) == r.idx..(r.idx + r.num - 1)

Held(R) == (0..(BootPages - 1)) \cup UNION {Pages(r) : r \in R}

\* The runs among the first `limit` pages that satisfy a request.
Suitable(R, req, limit) ==
  {i \in 0..(limit - 1) :
     /\ i % req.align = 0
     /\ i + req.num <= limit
     /\ Held(R) \cap i..(i + req.num - 1) = {}}

Init == regions = {} /\ result = << "none" >>

Alloc ==
  /\ \E req \in Requests :
       /\ \E i \in Suitable(regions, req, Limit) :
            regions' = regions \cup {[idx |-> i, num |-> req.num]}
       /\ result' = << "ok", req >>

AllocFails ==
  /\ \E req \in Requests :
       /\ Suitable(regions, req, NumPages) = {}
       /\ result' = << "failed", req >>
  /\ UNCHANGED regions

Free ==
  /\ \E r \in regions : regions' = regions \ {r}
  /\ result' = << "freed" >>

Next == Alloc \/ AllocFails \/ Free

Spec == Init /\ [][Next]_vars
=============================================================================
