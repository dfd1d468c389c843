--------------------------- MODULE PageAllocator ---------------------------
(***************************************************************************)
(* k/pageAllocator.c.  The allocator is one byte per physical page and the *)
(* index of a page below which none is free.  A search goes through the    *)
(* loops of pageAllocator_findNextFreePage one iteration per action, `ptr` *)
(* being the index of the pointer the code calls p.  The bytes behind the  *)
(* array, up to the end of its last page, were zeroed with it and so read  *)
(* as free pages; reading behind those faults.                             *)
(***************************************************************************)
EXTENDS Integers

CONSTANTS
  NumPages,   \* PageAllocator.numPages
  BootPages,  \* the pages that boot.c allocates first and never frees
  MemPages,   \* the bytes of pageInfo that are mapped, at least NumPages
  Requests    \* what callers ask for: [num, align], both in pages

ASSUME PageAllocatorAssumption ==
  /\ NumPages \in Nat /\ BootPages \in 1..(NumPages - 1)
  /\ MemPages \in Nat /\ MemPages >= NumPages
  /\ Requests \subseteq [num : Nat \ {0}, align : Nat \ {0}]

NoPage == -1

Calls == [num : Nat \ {0}, align : Nat \ {0}]

VARIABLES
  used,           \* pageInfo[i] # KPageFree
  firstFreePage,
  step,           \* where the call in progress is; "idle" outside a call
  req,            \* its arguments
  ptr, ffp,       \* the locals of findNextFreePage
  start,          \* ptr where the inner loop, or the tail loop, was entered
  regions,        \* the runs of pages handed to callers and not freed
  result          \* what the last call came to

search == << req, ptr, ffp, start >>
pageVars == << used, firstFreePage, step, search, regions, result >>

Pages(r) == r.idx..(r.idx + r.num - 1)

\* After pageAllocator_init and the allocations of boot.c.
PagesInit ==
  /\ used = [i \in 0..(MemPages - 1) |-> i < BootPages]
  /\ firstFreePage = BootPages
  /\ step = "idle"
  /\ req = [num |-> 1, align |-> 1]
  /\ ptr = 0 /\ ffp = NoPage /\ start = 0
  /\ regions = {}
  /\ result = << "none" >>

\* pageAllocator_allocAligned.
AllocAligned ==
  /\ step = "idle"
  /\ req' \in Requests
  /\ ptr' = firstFreePage
  /\ ffp' = NoPage
  /\ step' = "scan"
  /\ UNCHANGED << used, firstFreePage, start, regions, result >>

\* The bound of the outer loop: the last page a run can start at, plus one.
End == NumPages - (req.num - 1)

\* Mistaken variant: a page already seen is not remembered as the first free.
ScanFreeForgets ==
  /\ step = "scan" /\ ptr # End /\ ptr < MemPages
  /\ ~used[ptr]
  /\ ffp' = ptr
  /\ IF ptr % req.align # 0 THEN ptr' = ptr + 1 /\ UNCHANGED << step, start >>
     ELSE IF req.num = 1 THEN step' = "found" /\ UNCHANGED << ptr, start >>
     ELSE step' = "run" /\ start' = ptr /\ ptr' = ptr + 1
  /\ UNCHANGED << used, firstFreePage, req, regions, result >>

\* An iteration of the outer loop at a free page: the first one is noted, and
\* a run is tried where the alignment allows one.
ScanFree ==
  /\ step = "scan" /\ ptr # End /\ ptr < MemPages
  /\ ~used[ptr]
  /\ ffp' = IF ffp = NoPage THEN ptr ELSE ffp
  /\ IF ptr % req.align # 0 THEN ptr' = ptr + 1 /\ UNCHANGED << step, start >>
     ELSE IF req.num = 1 THEN step' = "found" /\ UNCHANGED << ptr, start >>
     ELSE step' = "run" /\ start' = ptr /\ ptr' = ptr + 1
  /\ UNCHANGED << used, firstFreePage, req, regions, result >>

ScanUsed ==
  /\ step = "scan" /\ ptr # End /\ ptr < MemPages
  /\ used[ptr]
  /\ ptr' = ptr + 1
  /\ UNCHANGED << used, firstFreePage, step, req, ffp, start, regions, result >>

\* The pages of the run at i are marked and i's address is returned.
Take(i) ==
  LET r == [idx |-> i, num |-> req.num] IN
  /\ used' = [n \in DOMAIN used |-> used[n] \/ n \in Pages(r)]
  /\ regions' = regions \cup {r}
  /\ result' = << "ok", req >>
  /\ step' = "idle"
  /\ UNCHANGED search

\* The outer loop ends without a run: the call returns 0.
ScanEnds ==
  /\ step = "scan" /\ ptr = End
  /\ step' = "idle"
  /\ result' = << "failed", req >>
  /\ UNCHANGED << used, firstFreePage, search, regions >>

\* An iteration of the inner loop, over the run's further pages.  At a used
\* page it is left and the outer loop's p++ follows.
RunPage ==
  /\ step = "run" /\ ptr # start + req.num /\ ptr < MemPages
  /\ ptr' = ptr + 1
  /\ step' = IF used[ptr] THEN "scan" ELSE "run"
  /\ UNCHANGED << used, firstFreePage, req, ffp, start, regions, result >>

\* Mistaken variant: the test of the last page is off by one.
RunEndsEarly ==
  /\ step = "run" /\ ptr + 1 >= start + req.num
  /\ ptr' = start
  /\ step' = "found"
  /\ UNCHANGED << used, firstFreePage, req, ffp, start, regions, result >>

RunEnds ==
  /\ step = "run" /\ ptr = start + req.num
  /\ ptr' = start
  /\ step' = "found"
  /\ UNCHANGED << used, firstFreePage, req, ffp, start, regions, result >>

\* The run is not at the first free page, which stays the first free one.
FoundLater ==
  /\ step = "found" /\ ffp # ptr
  /\ firstFreePage' = ffp
  /\ Take(ptr)

\* It is: the next free page behind the run is looked for.
FoundFirst ==
  /\ step = "found" /\ ffp = ptr
  /\ start' = ptr
  /\ ptr' = ptr + req.num
  /\ step' = "tail"
  /\ UNCHANGED << used, firstFreePage, req, ffp, regions, result >>

TailUsed ==
  /\ step = "tail" /\ ptr # NumPages /\ ptr < MemPages
  /\ used[ptr]
  /\ ptr' = ptr + 1
  /\ UNCHANGED << used, firstFreePage, step, req, ffp, start, regions, result >>

TailEnds ==
  /\ step = "tail"
  /\ \/ ptr = NumPages /\ firstFreePage' = ffp
     \/ ptr # NumPages /\ ptr < MemPages /\ ~used[ptr] /\ firstFreePage' = ptr
  /\ Take(start)

\* A loop whose end test was stepped over reads unmapped memory.
Fault ==
  /\ \/ step = "scan" /\ ptr # End
     \/ step = "run" /\ ptr # start + req.num
     \/ step = "tail" /\ ptr # NumPages
  /\ ptr >= MemPages
  /\ step' = "fault"
  /\ UNCHANGED << used, firstFreePage, search, regions, result >>

\* Mistaken variant: the pages are freed, firstFreePage stays.
FreeKeepsFirst ==
  /\ step = "idle"
  /\ \E r \in regions :
       /\ used' = [n \in DOMAIN used |-> used[n] /\ n \notin Pages(r)]
       /\ firstFreePage' = firstFreePage
       /\ regions' = regions \ {r}
  /\ result' = << "freed" >>
  /\ UNCHANGED << step, search >>

\* Mistaken variant: of a run only the first page is freed.
FreeOnePage ==
  /\ step = "idle"
  /\ \E r \in regions :
       /\ used' = [used EXCEPT ![r.idx] = FALSE]
       /\ firstFreePage' = IF r.idx < firstFreePage THEN r.idx
                                                    ELSE firstFreePage
       /\ regions' = regions \ {r}
  /\ result' = << "freed" >>
  /\ UNCHANGED << step, search >>

\* pageAllocator_free and pageAllocator_freePages, for pages the caller holds.
Free ==
  /\ step = "idle"
  /\ \E r \in regions :
       /\ used' = [n \in DOMAIN used |-> used[n] /\ n \notin Pages(r)]
       /\ firstFreePage' = IF r.idx < firstFreePage THEN r.idx
                                                    ELSE firstFreePage
       /\ regions' = regions \ {r}
  /\ result' = << "freed" >>
  /\ UNCHANGED << step, search >>

FindNextFreePage ==
  \/ ScanFree \/ ScanUsed \/ ScanEnds \/ RunPage \/ RunEnds
  \/ FoundLater \/ FoundFirst \/ TailUsed \/ TailEnds \/ Fault

PagesNext == AllocAligned \/ FindNextFreePage \/ Free

PagesSpec == PagesInit /\ [][PagesNext]_pageVars

-----------------------------------------------------------------------------
PagesTypeOK ==
  /\ used \in [0..(MemPages - 1) -> BOOLEAN]
  /\ firstFreePage \in 0..MemPages
  /\ step \in {"idle", "scan", "run", "found", "tail", "fault"}
  /\ req \in Calls
  /\ ptr \in Nat
  /\ ffp \in Nat \cup {NoPage}
  /\ start \in Nat
  /\ regions \subseteq [idx : Nat, num : Nat \ {0}]
  /\ result[1] \in {"none", "ok", "failed", "freed"}

\* No search needs to look below firstFreePage, and none does: a page there
\* that became free would be lost for good.
NoneFreeBelowFirst == \A i \in 0..(firstFreePage - 1) : used[i]

\* No page is handed to two callers, or to one while the boot code has it.
RegionsAreDisjoint ==
  /\ \A r, s \in regions : r # s => Pages(r) \cap Pages(s) = {}
  /\ \A r \in regions : BootPages <= r.idx

\* The allocator's bytes are what its callers hold: no page leaks.
BytesMatchRegions ==
  \A i \in 0..(MemPages - 1) :
    used[i] <=> i < BootPages \/ \E r \in regions : i \in Pages(r)

\* The allocator does what pageAllocator.h says, except that a run may lie
\* behind the memory: the search gives out free and aligned runs that nobody
\* holds, and fails only when the memory has none.
Abstract == INSTANCE PageAllocatorSpec
              WITH Limit <- MemPages, regions <- regions, result <- result
AbstractSpec == Abstract!Spec

\* The promise as it is meant, which holds of single pages.
InRam == INSTANCE PageAllocatorSpec
           WITH Limit <- NumPages, regions <- regions, result <- result
InRamSpec == InRam!Spec

=============================================================================
