---------------------------- MODULE MemoryProofs ----------------------------
(***************************************************************************)
(* Theorems about memory, for any amount of it.  Of the physical page      *)
(* allocator, for any requests: its invariants, and that it implements     *)
(* PageAllocatorSpec; for single pages also that it stays within the       *)
(* memory.  Of what processes are given: that no frame is lost, that a     *)
(* process has the memory of its living threads and that only a lack of    *)
(* memory makes a call go wrong, for every number of processes and threads.*)
(***************************************************************************)
EXTENDS PageAllocator, ProcessMemory, FiniteSetTheorems, WellFoundedInduction,
        TLAPS

-----------------------------------------------------------------------------
(* The page allocator.  AllocatorInv says what each loop of                *)
(* findNextFreePage knows of the pages it has passed (SearchKnows), the    *)
(* refinement which runs the search has ruled out (SearchRulesOut).        *)

\* No page below n is free.
UsedBelow(n) == \A i \in 0..(n - 1) : used[i]

\* The run of the request at i is mapped and free.
RunIsFree(i) ==
  i + req.num <= MemPages /\ \A n \in i..(i + req.num - 1) : ~used[n]

SearchKnows ==
  /\ step = "scan" =>
       /\ ptr <= MemPages
       /\ UsedBelow(IF ffp = NoPage THEN ptr ELSE ffp)
       /\ ffp # NoPage => ffp < ptr
  /\ step = "run" =>
       /\ ffp \in 0..start /\ UsedBelow(ffp)
       /\ start < ptr /\ ptr <= MemPages /\ ptr <= start + req.num
       /\ \A n \in start..(ptr - 1) : ~used[n]
  /\ step = "found" =>
       ffp \in 0..ptr /\ UsedBelow(ffp) /\ RunIsFree(ptr)
  /\ step = "tail" =>
       /\ ffp = start /\ UsedBelow(ffp) /\ RunIsFree(start)
       /\ start + req.num <= ptr /\ ptr <= MemPages
       /\ \A n \in (start + req.num)..(ptr - 1) : used[n]

RegionsAreMapped == \A r \in regions : r.idx + r.num <= MemPages

AllocatorInv ==
  /\ PagesTypeOK
  /\ NoneFreeBelowFirst
  /\ RegionsAreDisjoint
  /\ RegionsAreMapped
  /\ BytesMatchRegions
  /\ SearchKnows

-----------------------------------------------------------------------------
\* pageAllocator_init marks the boot pages, and nobody holds any page.
LEMMA InitInv == PagesInit => AllocatorInv
<1> SUFFICES ASSUME PagesInit PROVE AllocatorInv
  OBVIOUS
<1>1. BootPages \in Nat /\ MemPages \in Nat /\ BootPages <= MemPages
  BY PageAllocatorAssumption
<1>2. PagesTypeOK
  BY <1>1 DEF PagesInit, PagesTypeOK, NoPage, Calls
<1>3. \A n \in 0..(MemPages - 1) : used[n] <=> n < BootPages
  BY DEF PagesInit
<1>5. NoneFreeBelowFirst /\ BytesMatchRegions
  <2>1. /\ firstFreePage = BootPages
        /\ regions = {}
    BY DEF PagesInit
  <2>2. NoneFreeBelowFirst
    BY <1>1, <1>3, <2>1 DEF NoneFreeBelowFirst
  <2>3. BytesMatchRegions
    BY <1>1, <1>3, <2>1 DEF BytesMatchRegions
  <2> QED BY <2>2, <2>3
<1>4. RegionsAreDisjoint /\ RegionsAreMapped /\ SearchKnows
  BY DEF PagesInit, RegionsAreDisjoint, RegionsAreMapped, SearchKnows
<1> QED BY <1>2, <1>4, <1>5 DEF AllocatorInv

\* No page below n is free once the run at i is taken.
UsedOrInRun(n, i) ==
  \A k \in 0..(n - 1) : used[k] \/ k \in i..(i + req.num - 1)

\* Taking a free run keeps the books right, if firstFreePage is right.
LEMMA TakeInv ==
  ASSUME AllocatorInv, NEW i \in Nat, RunIsFree(i), Take(i),
         NEW f \in 0..MemPages, firstFreePage' = f, UsedOrInRun(f, i)
  PROVE  AllocatorInv'
<1> USE PageAllocatorAssumption DEF Calls
<1> DEFINE r == [idx |-> i, num |-> req.num]
<1>1. /\ req \in [num : Nat \ {0}, align : Nat \ {0}]
      /\ r.idx = i /\ r.num = req.num /\ r \in [idx : Nat, num : Nat \ {0}]
      /\ Pages(r) = i..(i + req.num - 1)
  BY DEF AllocatorInv, PagesTypeOK, Pages
<1>2. /\ \A n \in 0..(MemPages - 1) : used'[n] = (used[n] \/ n \in Pages(r))
      /\ used' \in [0..(MemPages - 1) -> BOOLEAN]
      /\ regions' = regions \cup {r}
      /\ step' = "idle" /\ result'[1] = "ok"
      /\ UNCHANGED << req, ptr, ffp, start >>
  BY <1>1 DEF Take, search, AllocatorInv, PagesTypeOK
<1>3. Pages(r) \subseteq 0..(MemPages - 1) /\ \A n \in Pages(r) : ~used[n]
  BY <1>1 DEF RunIsFree
<1> HIDE DEF r
<1>4. PagesTypeOK'
  BY <1>1, <1>2 DEF AllocatorInv, PagesTypeOK
<1>5. NoneFreeBelowFirst'
  <2>1. ASSUME NEW n \in 0..(f - 1) PROVE used'[n]
    <3>1. n \in 0..(MemPages - 1)
      OBVIOUS
    <3>2. used[n] \/ n \in Pages(r)
      BY <1>1 DEF UsedOrInRun
    <3> QED BY <3>1, <3>2, <1>2
  <2> QED BY <2>1 DEF NoneFreeBelowFirst
<1>6. \A s \in regions : Pages(s) \cap Pages(r) = {} /\ s # r
  <2> SUFFICES ASSUME NEW s \in regions PROVE Pages(s) \cap Pages(r) = {} /\ s # r
    OBVIOUS
  <2>1. \A n \in Pages(s) : n \in 0..(MemPages - 1) => used[n]
    BY DEF AllocatorInv, BytesMatchRegions
  <2>2. Pages(s) \cap Pages(r) = {}
    BY <2>1, <1>3
  <2>3. i \in Pages(r)
    BY <1>1
  <2> QED BY <2>2, <2>3
<1>7. BootPages <= r.idx
  BY <1>1, <1>3 DEF AllocatorInv, BytesMatchRegions
<1>8. RegionsAreDisjoint'
  BY <1>2, <1>6, <1>7 DEF AllocatorInv, RegionsAreDisjoint, Pages
<1>9. RegionsAreMapped'
  BY <1>1, <1>2 DEF AllocatorInv, RegionsAreMapped, RunIsFree
<1>10. BytesMatchRegions'
  BY <1>2 DEF AllocatorInv, BytesMatchRegions, Pages
<1>11. SearchKnows'
  BY <1>2 DEF SearchKnows
<1> QED BY <1>4, <1>5, <1>8, <1>9, <1>10, <1>11 DEF AllocatorInv

\* Freeing a run a caller holds.
LEMMA FreeInv == ASSUME AllocatorInv, Free PROVE AllocatorInv'
<1> USE PageAllocatorAssumption DEF Calls
<1>1. PICK r \in regions :
        /\ used' = [n \in DOMAIN used |-> used[n] /\ n \notin Pages(r)]
        /\ firstFreePage' = IF r.idx < firstFreePage THEN r.idx
                                                     ELSE firstFreePage
        /\ regions' = regions \ {r}
  BY DEF Free
<1>2. /\ \A n \in 0..(MemPages - 1) : used'[n] = (used[n] /\ n \notin Pages(r))
      /\ used' \in [0..(MemPages - 1) -> BOOLEAN]
      /\ r.idx \in Nat /\ r.num \in Nat \ {0}
      /\ r.idx + r.num <= MemPages
  BY <1>1 DEF AllocatorInv, PagesTypeOK, RegionsAreMapped
<1>3. /\ step = "idle" /\ step' = "idle" /\ result'[1] = "freed"
      /\ UNCHANGED << req, ptr, ffp, start >>
  BY DEF Free, search
<1>4. PagesTypeOK'
  BY <1>1, <1>2, <1>3 DEF AllocatorInv, PagesTypeOK
<1>5. NoneFreeBelowFirst'
  <2> SUFFICES ASSUME NEW n \in 0..(firstFreePage' - 1) PROVE used'[n]
    BY DEF NoneFreeBelowFirst
  <2>1. /\ n \in 0..(firstFreePage - 1) /\ n < r.idx
        /\ n \in 0..(MemPages - 1)
    BY <1>1, <1>2 DEF AllocatorInv, PagesTypeOK
  <2>2. used[n] /\ n \notin Pages(r)
    BY <2>1, <1>2 DEF AllocatorInv, NoneFreeBelowFirst, Pages
  <2> QED BY <2>1, <2>2, <1>2
<1>6. RegionsAreDisjoint' /\ RegionsAreMapped'
  BY <1>1 DEF AllocatorInv, RegionsAreDisjoint, RegionsAreMapped, Pages
<1>7. BytesMatchRegions'
  <2> SUFFICES ASSUME NEW n \in 0..(MemPages - 1)
               PROVE  used'[n] <=> n < BootPages
                                   \/ \E s \in regions' : n \in Pages(s)
    BY DEF BytesMatchRegions, Pages
  <2>1. used[n] <=> n < BootPages \/ \E s \in regions : n \in Pages(s)
    BY DEF AllocatorInv, BytesMatchRegions
  <2>2. CASE n \in Pages(r)
    <3>1. ~(n < BootPages) /\ \A s \in regions' : n \notin Pages(s)
      BY <2>2, <1>1, <1>2 DEF AllocatorInv, RegionsAreDisjoint, Pages
    <3> QED BY <3>1, <2>2, <1>2
  <2>3. CASE n \notin Pages(r)
    BY <2>1, <2>3, <1>1, <1>2
  <2> QED BY <2>2, <2>3
<1>8. SearchKnows'
  BY <1>3 DEF SearchKnows
<1> QED BY <1>4, <1>5, <1>6, <1>7, <1>8 DEF AllocatorInv

\* The steps of a search leave the bytes alone until a run is taken.
Books == << used, firstFreePage, regions, result >>

\* A step of a search that takes no page keeps the invariant.
LEMMA SearchInv ==
  ASSUME AllocatorInv, UNCHANGED Books, PagesTypeOK', SearchKnows'
  PROVE  AllocatorInv'
BY DEF Books, AllocatorInv, NoneFreeBelowFirst, RegionsAreDisjoint,
       RegionsAreMapped, BytesMatchRegions, Pages

\* Every step of the allocator keeps the invariant.
LEMMA StepInv == AllocatorInv /\ [PagesNext]_pageVars => AllocatorInv'
<1> SUFFICES ASSUME AllocatorInv, [PagesNext]_pageVars PROVE AllocatorInv'
  OBVIOUS
<1> USE PageAllocatorAssumption DEF NoPage, Calls
<1>t. PagesTypeOK /\ SearchKnows
  BY DEF AllocatorInv
<1>1. CASE AllocAligned
  <2>1. UNCHANGED Books /\ PagesTypeOK'
    BY <1>1, <1>t DEF AllocAligned, Books, PagesTypeOK
  <2>2. SearchKnows'
    BY <1>1, <1>t DEF AllocAligned, PagesTypeOK, SearchKnows, UsedBelow, AllocatorInv,
       NoneFreeBelowFirst
  <2> QED BY <2>1, <2>2, SearchInv
<1>2. CASE ScanFree
  <2>1. UNCHANGED Books /\ PagesTypeOK'
    BY <1>2, <1>t DEF ScanFree, Books, PagesTypeOK
  <2>2. SearchKnows'
    BY <1>2, <1>t DEF ScanFree, PagesTypeOK, SearchKnows, UsedBelow, RunIsFree
  <2> QED BY <2>1, <2>2, SearchInv
<1>3. CASE ScanUsed
  <2>1. UNCHANGED Books /\ PagesTypeOK'
    BY <1>3, <1>t DEF ScanUsed, Books, PagesTypeOK
  <2>2. SearchKnows'
    BY <1>3, <1>t DEF ScanUsed, PagesTypeOK, SearchKnows, UsedBelow
  <2> QED BY <2>1, <2>2, SearchInv
<1>4. CASE ScanEnds
  BY <1>4 DEF ScanEnds, search, AllocatorInv, PagesTypeOK, NoneFreeBelowFirst, SearchKnows,
     RegionsAreDisjoint, RegionsAreMapped, BytesMatchRegions, Pages
<1>5. CASE RunPage
  <2>1. UNCHANGED Books /\ PagesTypeOK'
    BY <1>5, <1>t DEF RunPage, Books, PagesTypeOK
  <2>2. SearchKnows'
    BY <1>5, <1>t DEF RunPage, PagesTypeOK, SearchKnows, UsedBelow
  <2> QED BY <2>1, <2>2, SearchInv
<1>6. CASE RunEnds
  <2>1. UNCHANGED Books /\ PagesTypeOK'
    BY <1>6, <1>t DEF RunEnds, Books, PagesTypeOK
  <2>2. SearchKnows'
    BY <1>6, <1>t DEF RunEnds, PagesTypeOK, SearchKnows, UsedBelow, RunIsFree
  <2> QED BY <2>1, <2>2, SearchInv
<1>7. CASE FoundLater
  <2>1. RunIsFree(ptr) /\ firstFreePage' = ffp /\ Take(ptr) /\ ptr \in Nat
    BY <1>7, <1>t DEF FoundLater, SearchKnows, PagesTypeOK
  <2>2. ffp \in 0..MemPages /\ UsedOrInRun(ffp, ptr)
    BY <1>7, <1>t DEF FoundLater, SearchKnows, PagesTypeOK, UsedBelow, RunIsFree,
       UsedOrInRun
  <2> QED BY <2>1, <2>2, TakeInv
<1>8. CASE FoundFirst
  <2>1. UNCHANGED Books /\ PagesTypeOK'
    BY <1>8, <1>t DEF FoundFirst, Books, PagesTypeOK
  <2>2. SearchKnows'
    BY <1>8, <1>t DEF FoundFirst, PagesTypeOK, SearchKnows, UsedBelow, RunIsFree
  <2> QED BY <2>1, <2>2, SearchInv
<1>9. CASE TailUsed
  <2>1. UNCHANGED Books /\ PagesTypeOK'
    BY <1>9, <1>t DEF TailUsed, Books, PagesTypeOK
  <2>2. SearchKnows'
    BY <1>9, <1>t DEF TailUsed, PagesTypeOK, SearchKnows, UsedBelow, RunIsFree
  <2> QED BY <2>1, <2>2, SearchInv
<1>10. CASE TailEnds
  <2>1. /\ RunIsFree(start) /\ Take(start) /\ start \in Nat
        /\ firstFreePage' \in 0..MemPages
    BY <1>10, <1>t DEF TailEnds, SearchKnows, PagesTypeOK, RunIsFree
  <2>2. UsedOrInRun(firstFreePage', start)
    BY <1>10, <1>t DEF TailEnds, SearchKnows, PagesTypeOK, UsedBelow, UsedOrInRun
  <2> QED BY <2>1, <2>2, TakeInv
<1>11. CASE Fault
  <2>1. UNCHANGED Books /\ PagesTypeOK' /\ SearchKnows'
    BY <1>11, <1>t DEF Fault, search, Books, PagesTypeOK, SearchKnows
  <2> QED BY <2>1, SearchInv
<1>12. CASE Free
  BY <1>12, FreeInv
<1>13. CASE UNCHANGED pageVars
  <2>1. UNCHANGED Books /\ PagesTypeOK' /\ SearchKnows'
    BY <1>13, <1>t DEF pageVars, search, Books, PagesTypeOK, SearchKnows, UsedBelow,
       RunIsFree
  <2> QED BY <2>1, SearchInv
<1> QED
  BY <1>1, <1>2, <1>3, <1>4, <1>5, <1>6, <1>7, <1>8, <1>9, <1>10, <1>11,
     <1>12, <1>13 DEF PagesNext, FindNextFreePage

-----------------------------------------------------------------------------
\* The inductive invariant holds in every reachable state.
THEOREM AllocatorInvariant == PagesSpec => []AllocatorInv
BY InitInv, StepInv, PTL DEF PagesSpec

\* The allocator's variables keep their ranges (PageAllocator).
THEOREM PagesTyped == PagesSpec => []PagesTypeOK
<1>1. AllocatorInv => PagesTypeOK
  BY DEF AllocatorInv
<1> QED BY <1>1, AllocatorInvariant, PTL

\* firstFreePage never passes a free page, whatever is allocated and freed in
\* whichever order (pageAllocator_findNextFreePage, pageAllocator_doFree).
THEOREM FirstFreeIsRight == PagesSpec => []NoneFreeBelowFirst
<1>1. AllocatorInv => NoneFreeBelowFirst
  BY DEF AllocatorInv
<1> QED BY <1>1, AllocatorInvariant, PTL

\* No page has two owners (pageAllocator_allocAligned).
THEOREM NoPageHasTwoOwners == PagesSpec => []RegionsAreDisjoint
<1>1. AllocatorInv => RegionsAreDisjoint
  BY DEF AllocatorInv
<1> QED BY <1>1, AllocatorInvariant, PTL

\* The bytes of the allocator are what its callers hold, no more and no less
\* (pageAllocator_allocAligned, pageAllocator_doFree).
THEOREM NoPageLeaks == PagesSpec => []BytesMatchRegions
<1>1. AllocatorInv => BytesMatchRegions
  BY DEF AllocatorInv
<1> QED BY <1>1, AllocatorInvariant, PTL

-----------------------------------------------------------------------------
(* The refinement: the search misses no run, and takes only what it found. *)

\* No run that starts below n suits the request.
NoneSuitsBelow(n) ==
  \A i \in 0..(n - 1) :
    i % req.align = 0 => \E k \in i..(i + req.num - 1) : used[k]

\* What a search has ruled out so far.
SearchRulesOut ==
  /\ step # "idle" => req \in Requests
  /\ step = "scan" => NoneSuitsBelow(ptr)
  /\ step = "run" => NoneSuitsBelow(start) /\ start % req.align = 0
  /\ step = "found" => ptr % req.align = 0
  /\ step = "tail" => start % req.align = 0

LEMMA RulesOutInit == PagesInit => SearchRulesOut
BY DEF PagesInit, SearchRulesOut

\* A search that has ruled out the starts below n and finds the start n no
\* better has ruled out those up to n.
LEMMA RuleOutNext ==
  ASSUME PagesTypeOK, NEW n \in Nat, NoneSuitsBelow(n),
         n % req.align = 0 => used[n]
  PROVE  NoneSuitsBelow(n + 1)
<1> SUFFICES ASSUME NEW i \in 0..n, i % req.align = 0
             PROVE  \E k \in i..(i + req.num - 1) : used[k]
  BY DEF NoneSuitsBelow
<1>1. req.num \in Nat \ {0}
  BY DEF PagesTypeOK, Calls
<1>2. CASE i = n
  BY <1>1, <1>2
<1>3. CASE i # n
  BY <1>3 DEF NoneSuitsBelow
<1> QED BY <1>2, <1>3

LEMMA RulesOutStep ==
  ASSUME AllocatorInv, SearchRulesOut, [PagesNext]_pageVars
  PROVE  SearchRulesOut'
<1> USE PageAllocatorAssumption
<1>t. /\ PagesTypeOK /\ SearchKnows /\ NoneFreeBelowFirst
      /\ ptr \in Nat /\ start \in Nat /\ firstFreePage \in Nat
      /\ req.num \in Nat \ {0}
  BY DEF AllocatorInv, PagesTypeOK, Calls
<1>1. CASE AllocAligned
  <2>1. /\ step' = "scan" /\ ptr' = firstFreePage /\ req' \in Requests
        /\ used' = used
    BY <1>1 DEF AllocAligned
  <2>2. req'.num \in Nat \ {0}
    BY <2>1
  <2>3. NoneSuitsBelow(ptr)'
    BY <1>t, <2>1, <2>2 DEF NoneSuitsBelow, NoneFreeBelowFirst
  <2> QED BY <2>1, <2>3 DEF SearchRulesOut
<1>2. CASE ScanFree
  <2>1. /\ step = "scan" /\ NoneSuitsBelow(ptr) /\ req \in Requests
        /\ used' = used /\ req' = req
    BY <1>2 DEF ScanFree, SearchRulesOut
  <2>2. CASE ptr % req.align # 0
    <3>1. step' = "scan" /\ ptr' = ptr + 1
      BY <1>2, <2>2, <2>1 DEF ScanFree
    <3>2. NoneSuitsBelow(ptr + 1)
      BY <1>t, <2>1, <2>2, RuleOutNext
    <3>3. NoneSuitsBelow(ptr)'
      BY <2>1, <3>1, <3>2 DEF NoneSuitsBelow
    <3> QED BY <2>1, <3>1, <3>3 DEF SearchRulesOut
  <2>3. CASE ptr % req.align = 0 /\ req.num = 1
    BY <1>2, <2>1, <2>3 DEF ScanFree, SearchRulesOut
  <2>4. CASE ptr % req.align = 0 /\ req.num # 1
    <3>1. step' = "run" /\ start' = ptr
      BY <1>2, <2>4 DEF ScanFree
    <3>2. NoneSuitsBelow(start)'
      BY <2>1, <3>1 DEF NoneSuitsBelow
    <3> QED BY <2>1, <2>4, <3>1, <3>2 DEF SearchRulesOut
  <2> QED BY <2>2, <2>3, <2>4
<1>3. CASE ScanUsed
  <2>1. /\ step = "scan" /\ step' = "scan" /\ ptr' = ptr + 1 /\ used[ptr]
        /\ NoneSuitsBelow(ptr) /\ req \in Requests
        /\ used' = used /\ req' = req
    BY <1>3 DEF ScanUsed, SearchRulesOut
  <2>2. NoneSuitsBelow(ptr + 1)
    BY <1>t, <2>1, RuleOutNext
  <2>3. NoneSuitsBelow(ptr)'
    BY <2>1, <2>2 DEF NoneSuitsBelow
  <2> QED BY <2>1, <2>3 DEF SearchRulesOut
<1>4. CASE RunPage
  <2>1. /\ step = "run" /\ req \in Requests /\ start % req.align = 0
        /\ NoneSuitsBelow(start) /\ start < ptr /\ ptr < start + req.num
        /\ ptr' = ptr + 1 /\ start' = start /\ used' = used /\ req' = req
    BY <1>4, <1>t DEF RunPage, SearchRulesOut, SearchKnows
  <2>2. CASE used[ptr]
    <3>1. step' = "scan"
      BY <1>4, <2>2 DEF RunPage
    <3>2. \A i \in 0..ptr : i >= start => ptr \in i..(i + req.num - 1)
      BY <1>t, <2>1
    <3>3. NoneSuitsBelow(ptr)'
      BY <1>t, <2>1, <2>2, <3>2 DEF NoneSuitsBelow
    <3> QED BY <2>1, <3>1, <3>3 DEF SearchRulesOut
  <2>3. CASE ~used[ptr]
    <3>1. step' = "run"
      BY <1>4, <2>3 DEF RunPage
    <3>2. NoneSuitsBelow(start)'
      BY <2>1 DEF NoneSuitsBelow
    <3> QED BY <2>1, <3>1, <3>2 DEF SearchRulesOut
  <2> QED BY <2>2, <2>3
<1>5. CASE RunEnds \/ FoundFirst
  BY <1>5, <1>t DEF RunEnds, FoundFirst, SearchRulesOut
<1>6. CASE TailUsed
  BY <1>6 DEF TailUsed, SearchRulesOut
<1>7. CASE ScanEnds \/ FoundLater \/ TailEnds
  <2>1. step' = "idle"
    BY <1>7 DEF ScanEnds, FoundLater, TailEnds, Take
  <2> QED BY <2>1 DEF SearchRulesOut
<1>8. CASE Fault
  BY <1>8 DEF Fault, search, SearchRulesOut
<1>9. CASE Free
  BY <1>9 DEF Free, SearchRulesOut
<1>10. CASE UNCHANGED pageVars
  BY <1>10 DEF pageVars, search, SearchRulesOut, NoneSuitsBelow
<1> QED
  BY <1>1, <1>2, <1>3, <1>4, <1>5, <1>6, <1>7, <1>8, <1>9, <1>10
     DEF PagesNext, FindNextFreePage

\* The pages that are marked are those the abstract allocator calls held.
LEMMA UsedIsHeld ==
  ASSUME AllocatorInv, NEW i \in 0..(MemPages - 1)
  PROVE  used[i] <=> i \in Abstract!Held(regions)
BY PageAllocatorAssumption
   DEF AllocatorInv, BytesMatchRegions, Abstract!Held, Abstract!Pages, Pages

\* Taking a free run with the alignment asked for is the abstract allocation.
LEMMA TakeIsAlloc ==
  ASSUME AllocatorInv, NEW i \in Nat, req \in Requests, RunIsFree(i),
         i % req.align = 0, Take(i)
  PROVE  Abstract!Alloc
<1> USE PageAllocatorAssumption
<1>1. req.num \in Nat \ {0} /\ i + req.num <= MemPages
  BY DEF RunIsFree
<1>2. i \in 0..(MemPages - 1)
  BY <1>1
<1>3. Abstract!Held(regions) \cap i..(i + req.num - 1) = {}
  <2>1. ASSUME NEW k \in i..(i + req.num - 1)
        PROVE  k \notin Abstract!Held(regions)
    <3>1. k \in 0..(MemPages - 1) /\ ~used[k]
      BY <1>1 DEF RunIsFree
    <3> QED BY <3>1, UsedIsHeld
  <2> QED BY <2>1
<1>4. i \in Abstract!Suitable(regions, req, MemPages)
  BY <1>1, <1>2, <1>3 DEF Abstract!Suitable
<1> QED BY <1>4 DEF Abstract!Alloc, Take

\* A search that ends with nothing has seen that nothing suits.
LEMMA EndIsFailure ==
  ASSUME AllocatorInv, SearchRulesOut, ScanEnds
  PROVE  Abstract!AllocFails
<1> USE PageAllocatorAssumption
<1>1. /\ req \in Requests /\ req.num \in Nat \ {0} /\ ptr = End
      /\ NoneSuitsBelow(ptr) /\ ptr \in Nat
  BY DEF ScanEnds, SearchRulesOut, AllocatorInv, PagesTypeOK
<1>2. ASSUME NEW i \in Abstract!Suitable(regions, req, NumPages)
      PROVE  FALSE
  <2>1. /\ i \in Nat /\ i % req.align = 0 /\ i + req.num <= NumPages
        /\ Abstract!Held(regions) \cap i..(i + req.num - 1) = {}
    BY <1>2 DEF Abstract!Suitable
  <2>2. i \in 0..(ptr - 1)
    BY <1>1, <2>1 DEF End
  <2>3. PICK k \in i..(i + req.num - 1) : used[k]
    BY <1>1, <2>1, <2>2 DEF NoneSuitsBelow
  <2>4. k \in 0..(MemPages - 1)
    BY <1>1, <2>1, <2>3
  <2>5. k \in Abstract!Held(regions)
    BY <2>3, <2>4, UsedIsHeld
  <2> QED BY <2>1, <2>3, <2>5
<1>3. Abstract!Suitable(regions, req, NumPages) = {}
  BY <1>2
<1> QED BY <1>1, <1>3 DEF ScanEnds, Abstract!AllocFails

\* Every step of the loops is an abstract step or changes nothing abstract.
LEMMA AbstractStep ==
  ASSUME AllocatorInv, SearchRulesOut, [PagesNext]_pageVars
  PROVE  [Abstract!Next]_(Abstract!vars)
<1>t. PagesTypeOK /\ SearchKnows
  BY DEF AllocatorInv
<1>1. CASE AllocAligned \/ ScanFree \/ ScanUsed \/ RunPage \/ RunEnds
           \/ FoundFirst \/ TailUsed \/ Fault \/ UNCHANGED pageVars
  BY <1>1 DEF AllocAligned, ScanFree, ScanUsed, RunPage, RunEnds, FoundFirst,
     TailUsed, Fault, pageVars, search, Abstract!vars
<1>2. CASE ScanEnds
  BY <1>2, EndIsFailure DEF Abstract!Next
<1>3. CASE FoundLater
  <2>1. /\ ptr \in Nat /\ req \in Requests /\ RunIsFree(ptr)
        /\ ptr % req.align = 0 /\ Take(ptr)
    BY <1>3, <1>t DEF FoundLater, PagesTypeOK, SearchKnows, SearchRulesOut
  <2> QED BY <2>1, TakeIsAlloc DEF Abstract!Next
<1>4. CASE TailEnds
  <2>1. /\ start \in Nat /\ req \in Requests /\ RunIsFree(start)
        /\ start % req.align = 0 /\ Take(start)
    BY <1>4, <1>t DEF TailEnds, PagesTypeOK, SearchKnows, SearchRulesOut
  <2> QED BY <2>1, TakeIsAlloc DEF Abstract!Next
<1>5. CASE Free
  BY <1>5 DEF Free, Abstract!Next, Abstract!Free
<1> QED
  BY <1>1, <1>2, <1>3, <1>4, <1>5 DEF PagesNext, FindNextFreePage

\* Whatever is asked for, the search gives out free runs of the length and the
\* alignment asked for, and fails only when the memory has none
\* (pageAllocator_findNextFreePage, pageAllocator_doFree).
THEOREM PagesImplement == PagesSpec => AbstractSpec
<1>1. PagesInit => SearchRulesOut /\ Abstract!Init
  BY RulesOutInit DEF PagesInit, Abstract!Init
<1>2. AllocatorInv /\ SearchRulesOut /\ [PagesNext]_pageVars
        => SearchRulesOut' /\ [Abstract!Next]_(Abstract!vars)
  BY RulesOutStep, AbstractStep
<1> QED
  BY <1>1, <1>2, AllocatorInvariant, PTL DEF PagesSpec, AbstractSpec, Abstract!Spec

-----------------------------------------------------------------------------
(* Requests of single pages: the loops stay within the array.              *)

SinglePages == \A r \in Requests : r.num = 1

\* No page that is handed out lies behind the array: findNextFreePage reports
\* failure there (false of runs of pages).
RegionsAreInRam == \A r \in regions : r.idx + r.num <= NumPages

\* Where a search for single pages is.
PageSearchKnows ==
  /\ firstFreePage <= NumPages
  /\ RegionsAreInRam
  /\ step \notin {"run", "fault"}
  /\ step # "idle" => req \in Requests
  /\ step = "scan" => ptr <= NumPages
  /\ step = "found" => ptr < NumPages
  /\ step = "tail" => start < NumPages /\ ptr <= NumPages

LEMMA PageInit == PagesInit => PageSearchKnows
BY PageAllocatorAssumption DEF PagesInit, PageSearchKnows, RegionsAreInRam

LEMMA PageStep ==
  ASSUME SinglePages, AllocatorInv, PageSearchKnows, [PagesNext]_pageVars
  PROVE  PageSearchKnows'
<1> USE PageAllocatorAssumption DEF NoPage, Calls
<1>t. PagesTypeOK /\ SearchKnows
  BY DEF AllocatorInv
<1>n. step # "idle" => req.num = 1 /\ End = NumPages
  BY DEF SinglePages, PageSearchKnows, End
<1>1. CASE AllocAligned
  BY <1>1, <1>t DEF AllocAligned, PagesTypeOK, PageSearchKnows, RegionsAreInRam
<1>2. CASE ScanFree
  BY <1>2, <1>t, <1>n DEF ScanFree, PagesTypeOK, PageSearchKnows, RegionsAreInRam
<1>3. CASE ScanUsed
  BY <1>3, <1>t, <1>n DEF ScanUsed, PagesTypeOK, PageSearchKnows, RegionsAreInRam
<1>4. CASE ScanEnds
  BY <1>4, <1>t DEF ScanEnds, PageSearchKnows, RegionsAreInRam
<1>5. CASE RunPage \/ RunEnds
  BY <1>5 DEF RunPage, RunEnds, PageSearchKnows
<1>6. CASE FoundLater
  <2>1. /\ step' = "idle" /\ firstFreePage' <= NumPages
        /\ regions' = regions \cup {[idx |-> ptr, num |-> 1]}
    BY <1>6, <1>t, <1>n DEF FoundLater, Take, PagesTypeOK, SearchKnows,
       PageSearchKnows
  <2>2. ptr + 1 <= NumPages
    BY <1>6, <1>t DEF FoundLater, PagesTypeOK, PageSearchKnows
  <2> QED BY <2>1, <2>2 DEF PageSearchKnows, RegionsAreInRam
<1>7. CASE FoundFirst
  BY <1>7, <1>t, <1>n DEF FoundFirst, PagesTypeOK, PageSearchKnows, RegionsAreInRam
<1>8. CASE TailUsed
  BY <1>8, <1>t, <1>n DEF TailUsed, PagesTypeOK, PageSearchKnows, RegionsAreInRam
<1>9. CASE TailEnds
  <2>1. /\ step' = "idle" /\ firstFreePage' <= NumPages
        /\ regions' = regions \cup {[idx |-> start, num |-> 1]}
    BY <1>9, <1>t, <1>n DEF TailEnds, Take, PagesTypeOK, SearchKnows,
       PageSearchKnows
  <2>2. start + 1 <= NumPages
    BY <1>9, <1>t DEF TailEnds, PagesTypeOK, PageSearchKnows
  <2> QED BY <2>1, <2>2 DEF PageSearchKnows, RegionsAreInRam
<1>10. CASE Fault
  BY <1>10, <1>t, <1>n DEF Fault, PagesTypeOK, PageSearchKnows
<1>11. CASE Free
  BY <1>11, <1>t DEF Free, PagesTypeOK, PageSearchKnows, RegionsAreInRam
<1>12. CASE UNCHANGED pageVars
  BY <1>12 DEF pageVars, search, PageSearchKnows, RegionsAreInRam
<1> QED
  BY <1>1, <1>2, <1>3, <1>4, <1>5, <1>6, <1>7, <1>8, <1>9, <1>10, <1>11,
     <1>12 DEF PagesNext, FindNextFreePage

\* A run that is given out and lies in the memory is a promised one.
LEMMA InRamStep ==
  ASSUME [Abstract!Next]_(Abstract!vars), RegionsAreInRam',
         regions \subseteq [idx : Nat, num : Nat \ {0}]
  PROVE  [InRam!Next]_(InRam!vars)
<1> USE PageAllocatorAssumption
<1>1. CASE Abstract!Alloc
  <2>1. PICK r \in Requests :
          /\ \E i \in Abstract!Suitable(regions, r, MemPages) :
               regions' = regions \cup {[idx |-> i, num |-> r.num]}
          /\ result' = << "ok", r >>
    BY <1>1 DEF Abstract!Alloc
  <2>2. PICK i \in Abstract!Suitable(regions, r, MemPages) :
          regions' = regions \cup {[idx |-> i, num |-> r.num]}
    BY <2>1
  <2>3. i \in 0..(MemPages - 1) /\ i + r.num <= NumPages
    <3>1. i \in 0..(MemPages - 1)
      BY DEF Abstract!Suitable
    <3>2. [idx |-> i, num |-> r.num] \in regions'
      BY <2>2
    <3> QED BY <3>1, <3>2 DEF RegionsAreInRam
  <2>4. i \in 0..(NumPages - 1)
    BY <2>3
  <2>5. i \in InRam!Suitable(regions, r, NumPages)
    BY <2>3, <2>4, <2>2 DEF Abstract!Suitable, InRam!Suitable, Abstract!Held,
       InRam!Held, Abstract!Pages, InRam!Pages
  <2> QED BY <2>1, <2>2, <2>5 DEF InRam!Next, InRam!Alloc
<1>2. CASE Abstract!AllocFails
  BY <1>2 DEF Abstract!AllocFails, InRam!Next, InRam!AllocFails,
     Abstract!Suitable, InRam!Suitable, Abstract!Held, InRam!Held,
     Abstract!Pages, InRam!Pages
<1>3. CASE Abstract!Free \/ UNCHANGED Abstract!vars
  BY <1>3 DEF Abstract!Free, InRam!Next, InRam!Free, Abstract!vars, InRam!vars
<1> QED BY <1>1, <1>2, <1>3 DEF Abstract!Next

\* As long as single pages are asked for, no page behind the end of the memory
\* is given out and the allocator keeps the promise of pageAllocator.h
\* (pageAllocator_findNextFreePage).
THEOREM PagesImplementInRam ==
  SinglePages => (PagesSpec => []RegionsAreInRam /\ InRamSpec)
<1> SUFFICES ASSUME SinglePages PROVE PagesSpec => []RegionsAreInRam /\ InRamSpec
  OBVIOUS
<1>1. PagesInit => PageSearchKnows /\ SearchRulesOut /\ InRam!Init
  BY PageInit, RulesOutInit DEF PagesInit, InRam!Init
<1>2. AllocatorInv /\ PageSearchKnows /\ [PagesNext]_pageVars => PageSearchKnows'
  BY PageStep
<1>3. PageSearchKnows => RegionsAreInRam
  BY DEF PageSearchKnows
<1>4. AllocatorInv /\ SearchRulesOut /\ [PagesNext]_pageVars
        => SearchRulesOut' /\ [Abstract!Next]_(Abstract!vars)
  BY RulesOutStep, AbstractStep
<1>5. AllocatorInv /\ RegionsAreInRam' /\ [Abstract!Next]_(Abstract!vars)
        => [InRam!Next]_(InRam!vars)
  BY InRamStep DEF AllocatorInv, PagesTypeOK
<1> QED
  BY <1>1, <1>2, <1>3, <1>4, <1>5, AllocatorInvariant, PTL
     DEF PagesSpec, InRamSpec, InRam!Spec

-----------------------------------------------------------------------------
(* Numbers                                                                 *)

\* A set of numbers has a smallest.
LEMMA Smallest ==
  ASSUME NEW S \in SUBSET Nat, S # {}
  PROVE  \E m \in S : \A k \in S : m <= k
<1> DEFINE R == OpToRel(<, Nat)
<1>1. IsWellFoundedOn(R, Nat)
  BY NatLessThanWellFounded, Zenon
<1>2. R = {ss \in Nat \X Nat : ss[1] < ss[2]}
  BY Zenon DEF OpToRel
<1> HIDE DEF R
<1>3. PICK m \in S : \A k \in S : ~(<< k, m >> \in R)
  BY <1>1, WFMin
<1>4. \A k \in S : ~(k < m)
  BY <1>2, <1>3
<1> QED BY <1>4

\* A set of numbers that is bounded has a largest.
LEMMA Largest ==
  ASSUME NEW S \in SUBSET Nat, S # {}, NEW b \in Nat, \A k \in S : k <= b
  PROVE  \E m \in S : \A k \in S : k <= m
<1> DEFINE U == {b - k : k \in S}
<1>1. U \in SUBSET Nat
  OBVIOUS
<1>0. U # {}
  OBVIOUS
<1>2. PICK u \in U : \A k \in U : u <= k
  BY <1>0, <1>1, Smallest
<1>3. PICK m \in S : u = b - m
  OBVIOUS
<1>4. \A k \in S : u <= b - k
  BY <1>2
<1> QED BY <1>3, <1>4

LEMMA MinIs ==
  ASSUME NEW S \in SUBSET Nat, S # {}
  PROVE  Min(S) \in S
BY Smallest DEF Min

LEMMA MaxIs ==
  ASSUME NEW S \in SUBSET Nat, S # {}, NEW b \in Nat, \A k \in S : k <= b
  PROVE  Max(S) \in S /\ \A k \in S : k <= Max(S)
<1>1. \E m \in S : \A k \in S : m >= k
  BY Largest
<1> QED BY <1>1 DEF Max

\* A number that lies between k and k + 1 multiples has k as its quotient.
LEMMA Quotient ==
  ASSUME NEW d \in Nat \ {0}, NEW x \in Nat, NEW k \in Nat, NEW r \in Nat,
         x = d * k + r, r < d
  PROVE  x \div d = k /\ x % d = r
BY Z3

LEMMA Divided ==
  ASSUME NEW d \in Nat \ {0}, NEW x \in Nat
  PROVE  /\ x \div d \in Nat
         /\ x % d \in 0..(d - 1)
         /\ x = d * (x \div d) + (x % d)
BY Z3

LEMMA Rises ==
  ASSUME NEW d \in Nat \ {0}, NEW x \in Nat, NEW y \in Nat, x <= y
  PROVE  x \div d <= y \div d
BY Z3

LEMMA Constants ==
  /\ MaxProcesses \in Nat \ {0} /\ MaxThreads \in Nat \ {0}
  /\ NumFrames \in Nat \ {0} /\ SectPages \in Nat \ {0} /\ Bss \in Nat \ {0}
  /\ StacksBase \in Nat \ {0} /\ StackPages \in Nat \ {0}
  /\ AreaPages \in Nat \ {0} /\ HeapBase \in Nat \ {0}
  /\ HeapBase = Bss + 1 /\ HeapBase < StacksBase
  /\ StackPages + 2 < AreaPages
  /\ MemLimit \in Nat \ {0} /\ StacksBase < MemLimit
<1>1. /\ MaxProcesses \in Nat \ {0} /\ MaxThreads \in Nat \ {0}
      /\ NumFrames \in Nat \ {0} /\ SectPages \in Nat \ {0} /\ Bss \in Nat \ {0}
      /\ StacksBase \in Nat \ {0} /\ StackPages \in Nat \ {0}
      /\ AreaPages \in Nat \ {0} /\ HeapBase \in Nat \ {0}
      /\ HeapBase = Bss + 1 /\ HeapBase < StacksBase
      /\ StackPages + 2 < AreaPages /\ MemLimit \in Nat \ {0}
  BY ProcessMemoryAssumption DEF HeapBase
<1>2. StacksBase + MaxThreads * AreaPages <= MemLimit
  BY ProcessMemoryAssumption
<1>3. MaxThreads * AreaPages \in Nat \ {0}
  BY <1>1, Z3
<1>4. StacksBase < MemLimit
  BY <1>1, <1>2, <1>3
<1> QED BY <1>1, <1>4

LEMMA Sectioned ==
  ASSUME NEW q \in Nat
  PROVE  /\ Section(q) \in Nat /\ PteIdx(q) \in 0..(SectPages - 1)
         /\ q = SectPages * Section(q) + PteIdx(q)
<1> USE Constants
<1>1. /\ q \div SectPages \in Nat
      /\ q % SectPages \in 0..(SectPages - 1)
      /\ q = SectPages * (q \div SectPages) + (q % SectPages)
  BY Divided
<1> QED BY <1>1 DEF Section, PteIdx

LEMMA SectionRises ==
  ASSUME NEW q \in Nat, NEW r \in Nat, q <= r
  PROVE  Section(q) <= Section(r)
BY Rises, Constants DEF Section

LEMMA SectionIs ==
  ASSUME NEW k \in Nat, NEW r \in Nat, NEW q \in Nat,
         q = SectPages * k + r, r < SectPages
  PROVE  Section(q) = k /\ PteIdx(q) = r
BY Quotient, Constants DEF Section, PteIdx

\* An area lies in one section, which nothing below the stacks shares.
Area(i) == Span(UserStack(i), StackPages) \cup {SvcStack(i)}

LEMMA OneSection ==
  ASSUME NEW i \in Nat
  PROVE  \E x \in Nat :
           /\ \A o \in 0..(AreaPages - 1) : Section(SvcStack(i) + o) = x
           /\ \A q \in 0..(StacksBase - 1) : Section(q) < x
<1> USE Constants
<1>1. PICK K \in Nat : StacksBase = SectPages * K
  <2>1. StacksBase = SectPages * Section(StacksBase) + PteIdx(StacksBase)
        /\ Section(StacksBase) \in Nat
    BY Sectioned
  <2>2. PteIdx(StacksBase) = 0
    BY ProcessMemoryAssumption DEF PteIdx
  <2>3. StacksBase = SectPages * Section(StacksBase)
    BY <2>1, <2>2
  <2> QED BY <2>1, <2>3
<1>2. PICK R \in Nat \ {0} : SectPages = AreaPages * R
  <2>1. /\ SectPages \div AreaPages \in Nat
        /\ SectPages = AreaPages * (SectPages \div AreaPages) + (SectPages % AreaPages)
    BY Divided
  <2>2. SectPages % AreaPages = 0
    BY ProcessMemoryAssumption
  <2>3. \A k \in Nat : SectPages = AreaPages * k + 0 => k # 0 /\ SectPages = AreaPages * k
    BY SMT
  <2> QED BY <2>1, <2>2, <2>3
<1>3. PICK a \in Nat, b \in Nat : i = R * a + b /\ b < R
  <2>1. i = R * (i \div R) + (i % R) /\ i \div R \in Nat /\ i % R \in 0..(R - 1)
    BY Divided, Zenon
  <2>2. i % R \in Nat /\ i % R < R
    <3>1. \A r \in 0..(R - 1) : r \in Nat /\ r < R
      OBVIOUS
    <3> QED BY <2>1, <3>1, Zenon
  <2> QED BY <2>1, <2>2, Zenon
<1>4. \A o \in 0..(AreaPages - 1) : Section(SvcStack(i) + o) = K + a
  <2> TAKE o \in 0..(AreaPages - 1)
  <2>1. SvcStack(i) + o = SectPages * (K + a) + (b * AreaPages + o)
    <3>1. i * AreaPages = (R * a) * AreaPages + b * AreaPages
      BY <1>3, Z3
    <3>2. (R * a) * AreaPages = SectPages * a
      BY <1>2, Z3
    <3>3. SectPages * (K + a) = SectPages * K + SectPages * a
      BY Z3
    <3> QED BY <1>1, <3>1, <3>2, <3>3, Z3 DEF SvcStack
  <2>2. b * AreaPages + o < SectPages /\ b * AreaPages + o \in Nat
    <3>1. b * AreaPages + AreaPages <= SectPages
      <4>1. (b + 1) * AreaPages <= R * AreaPages
        BY <1>3, Z3
      <4> QED BY <4>1, <1>2, Z3
    <3>2. b * AreaPages \in Nat
      BY Z3
    <3> QED BY <3>1, <3>2
  <2>3. SvcStack(i) + o \in Nat
    BY Z3 DEF SvcStack
  <2> DEFINE r == b * AreaPages + o
  <2> DEFINE q == SvcStack(i) + o
  <2> DEFINE k == K + a
  <2>4. /\ k \in Nat /\ r \in Nat /\ r < SectPages
        /\ q \in Nat /\ q = SectPages * k + r
    BY <2>1, <2>2, <2>3
  <2> HIDE DEF r, q, k
  <2>5. Section(q) = k
    BY <2>4, SectionIs, Zenon
  <2> QED BY <2>5 DEF q, k
<1>5. \A q \in 0..(StacksBase - 1) : Section(q) < K + a
  <2> TAKE q \in 0..(StacksBase - 1)
  <2>1. q \in Nat /\ Section(q) \in Nat /\ q = SectPages * Section(q) + PteIdx(q)
        /\ PteIdx(q) \in 0..(SectPages - 1)
    BY Sectioned
  <2>2. SectPages * Section(q) < SectPages * K
    BY <2>1, <1>1, Z3
  <2>3. Section(q) < K
    BY <2>1, <2>2, Z3
  <2> QED BY <2>1, <2>3
<1> QED BY <1>4, <1>5

LEMMA SpanIs ==
  ASSUME NEW page \in Nat, NEW n \in Nat
  PROVE  /\ Span(page, n) \subseteq Nat
         /\ \A q \in Nat : q \in Span(page, n) <=> page <= q /\ q < page + n
         /\ IsFiniteSet(Span(page, n)) /\ Cardinality(Span(page, n)) = n
<1>1. IsFiniteSet(page..(page + n - 1))
      /\ Cardinality(page..(page + n - 1)) =
           IF page > page + n - 1 THEN 0 ELSE (page + n - 1) - page + 1
  BY FS_Interval
<1> QED BY <1>1 DEF Span

LEMMA AreaIs ==
  ASSUME NEW i \in Nat
  PROVE  /\ SvcStack(i) \in Nat /\ StacksBase <= SvcStack(i)
         /\ UserStack(i) = SvcStack(i) + 2
         /\ \A q \in Area(i) : q \in Nat /\ SvcStack(i) <= q
                               /\ q < SvcStack(i) + AreaPages
         /\ SvcStack(i) \notin Span(UserStack(i), StackPages)
         /\ IsFiniteSet(Area(i)) /\ Cardinality(Area(i)) = StackPages + 1
<1> USE Constants
<1>1. SvcStack(i) \in Nat /\ StacksBase <= SvcStack(i)
  BY Z3 DEF SvcStack
<1>2. UserStack(i) = SvcStack(i) + 2 /\ UserStack(i) \in Nat
  BY <1>1 DEF UserStack
<1>3. /\ \A q \in Span(UserStack(i), StackPages) :
           q \in Nat /\ UserStack(i) <= q /\ q < UserStack(i) + StackPages
      /\ IsFiniteSet(Span(UserStack(i), StackPages))
      /\ Cardinality(Span(UserStack(i), StackPages)) = StackPages
  BY <1>2, SpanIs
<1>4. SvcStack(i) \notin Span(UserStack(i), StackPages)
  BY <1>1, <1>2, <1>3
<1>5. IsFiniteSet(Area(i)) /\ Cardinality(Area(i)) = StackPages + 1
  BY <1>3, <1>4, FS_AddElement DEF Area
<1>6. \A q \in Area(i) : q \in Nat /\ SvcStack(i) <= q
                         /\ q < SvcStack(i) + AreaPages
  BY <1>1, <1>2, <1>3 DEF Area
<1> QED BY <1>1, <1>2, <1>4, <1>5, <1>6

\* Every area ends below the last user address.
LEMMA AreaBelow ==
  ASSUME NEW i \in Indexes
  PROVE  i \in Nat /\ SvcStack(i) \in Nat /\ SvcStack(i) + AreaPages <= MemLimit
<1> USE Constants
<1>1. i \in Nat /\ i + 1 <= MaxThreads
  BY DEF Indexes
<1>2. (i + 1) * AreaPages <= MaxThreads * AreaPages
  BY <1>1, Z3
<1>3. (i + 1) * AreaPages = i * AreaPages + AreaPages
  BY <1>1, Z3
<1>4. StacksBase + MaxThreads * AreaPages <= MemLimit
  BY ProcessMemoryAssumption
<1>5. i * AreaPages \in Nat /\ MaxThreads * AreaPages \in Nat
  BY <1>1, Z3
<1> QED BY <1>1, <1>2, <1>3, <1>4, <1>5 DEF SvcStack

LEMMA AreasApart ==
  ASSUME NEW i \in Nat, NEW j \in Nat, i # j
  PROVE  Area(i) \cap Area(j) = {}
<1> USE Constants
<1>1. ASSUME NEW a \in Nat, NEW b \in Nat, a < b
      PROVE  SvcStack(a) + AreaPages <= SvcStack(b)
  <2>1. (a + 1) * AreaPages <= b * AreaPages
    BY <1>1, Z3
  <2>2. (a + 1) * AreaPages = a * AreaPages + AreaPages
    BY Z3
  <2> QED BY <2>1, <2>2, Z3 DEF SvcStack
<1>2. \/ SvcStack(i) + AreaPages <= SvcStack(j)
      \/ SvcStack(j) + AreaPages <= SvcStack(i)
  <2>1. i < j \/ j < i
    OBVIOUS
  <2> QED BY <1>1, <2>1
<1>3. /\ SvcStack(i) \in Nat /\ SvcStack(j) \in Nat
      /\ \A q \in Area(i) : q \in Nat /\ SvcStack(i) <= q
                            /\ q < SvcStack(i) + AreaPages
      /\ \A q \in Area(j) : q \in Nat /\ SvcStack(j) <= q
                            /\ q < SvcStack(j) + AreaPages
  BY AreaIs
<1> QED BY <1>2, <1>3

\* The whole area is in one section.
LEMMA AreaSection ==
  ASSUME NEW i \in Nat
  PROVE  \E x \in Nat : /\ \A q \in Area(i) : Section(q) = x
                        /\ \A q \in 0..(StacksBase - 1) : Section(q) < x
<1> USE Constants
<1>1. PICK x \in Nat :
        /\ \A o \in 0..(AreaPages - 1) : Section(SvcStack(i) + o) = x
        /\ \A q \in 0..(StacksBase - 1) : Section(q) < x
  BY OneSection
<1>2. /\ SvcStack(i) \in Nat
      /\ \A q \in Area(i) : q \in Nat /\ SvcStack(i) <= q
                            /\ q < SvcStack(i) + AreaPages
  BY AreaIs
<1>3. ASSUME NEW q \in Area(i)
      PROVE  Section(q) = x
  <2> DEFINE o == q - SvcStack(i)
  <2>1. o \in 0..(AreaPages - 1) /\ SvcStack(i) + o = q
    BY <1>2
  <2> HIDE DEF o
  <2> QED BY <2>1, <1>1
<1> QED BY <1>1, <1>3

-----------------------------------------------------------------------------
(* The sections that a call is missing                                     *)

Missing(p, page, n) == {Section(q) : q \in Span(page, n)} \ p.sections

LEMMA MissingIs ==
  ASSUME NEW p, NEW page \in Nat, NEW n \in Nat
  PROVE  /\ Missing(p, page, n) \subseteq Nat
         /\ \A x \in Missing(p, page, n) : x <= Section(page + n)
         /\ IsFiniteSet(Missing(p, page, n))
<1>1. ASSUME NEW q \in Span(page, n)
      PROVE  Section(q) \in Nat /\ Section(q) <= Section(page + n)
  <2>1. q \in Nat /\ q <= page + n /\ page + n \in Nat
    BY SpanIs
  <2> QED BY <2>1, Sectioned, SectionRises
<1>2. /\ Missing(p, page, n) \subseteq Nat
      /\ \A x \in Missing(p, page, n) : x <= Section(page + n)
  BY <1>1 DEF Missing
<1>3. Section(page + n) \in Nat
  BY Sectioned
<1> QED BY <1>2, <1>3, FS_BoundedSetOfNaturals

\* One page, or the pages of one section, miss one at most.
LEMMA MissingOne ==
  ASSUME NEW p, NEW page \in Nat, NEW n \in Nat,
         NEW x, \A q \in Span(page, n) : Section(q) = x
  PROVE  Cardinality(Missing(p, page, n)) <= 1
<1>1. Missing(p, page, n) \subseteq {x}
  BY DEF Missing
<1>2. IsFiniteSet({x}) /\ Cardinality({x}) = 1
  BY FS_Singleton
<1> QED BY <1>1, <1>2, FS_Subset

LEMMA MissingNone ==
  ASSUME NEW p, NEW page, NEW n,
         \A q \in Span(page, n) : Section(q) \in p.sections
  PROVE  Missing(p, page, n) = {} /\ Cardinality(Missing(p, page, n)) = 0
<1>1. Missing(p, page, n) = {}
  BY DEF Missing
<1> QED BY <1>1, FS_EmptySet

-----------------------------------------------------------------------------
(* What the calls of mmu_arm.c return                                      *)

Proc ==
  [pid : BOOLEAN, pde : BOOLEAN, kernPt : BOOLEAN,
   sections : SUBSET Nat, pages : SUBSET Nat,
   heapLimit : HeapBase..MemLimit, numThreads : 0..MaxThreads,
   threads : [Indexes -> {"EReady", "EDying", "EDead"}]]

Memory ==
  [p : Proc, free : Nat, ok : BOOLEAN, status : {"ok", "wild", "crashed"}]

Finite(p) == IsFiniteSet(p.pages) /\ IsFiniteSet(p.sections)

\* The frames that a process holds.
Tables(p) == (IF p.pde THEN 1 ELSE 0) + (IF p.kernPt THEN 1 ELSE 0)
Frames(p) == Cardinality(p.pages) + Cardinality(p.sections) + Tables(p)

\* Nothing but the pages and the page tables differs.
SameBut(p, q) ==
  /\ q.pid = p.pid /\ q.pde = p.pde /\ q.kernPt = p.kernPt
  /\ q.heapLimit = p.heapLimit /\ q.numThreads = p.numThreads
  /\ q.threads = p.threads

\* Frames only move between m and what a call makes of it.
Kept(m, r) ==
  /\ r \in Memory /\ Finite(r.p)
  /\ r.free + Frames(r.p) = m.free + Frames(m.p)

LEMMA FramesType ==
  ASSUME NEW p \in Proc, Finite(p)
  PROVE  /\ Cardinality(p.pages) \in Nat /\ Cardinality(p.sections) \in Nat
         /\ Tables(p) \in 0..2 /\ Frames(p) \in Nat
BY FS_CardinalityType DEF Finite, Frames, Tables, Proc

LEMMA CreateSectionsReturns ==
  ASSUME NEW m \in Memory, Finite(m.p), NEW page \in Nat, NEW n \in Nat,
         NEW r, r = CreateSections(m, page, n)
  PROVE  /\ Kept(m, r) /\ SameBut(m.p, r.p)
         /\ r.p.pages = m.p.pages /\ m.p.sections \subseteq r.p.sections
         /\ r.status = m.status /\ r.free <= m.free
         /\ r.ok => /\ \A q \in Span(page, n) : Section(q) \in r.p.sections
                    /\ r.free = m.free - Cardinality(Missing(m.p, page, n))
         /\ ~r.ok => m.free < Cardinality(Missing(m.p, page, n))
<1> DEFINE missing == Missing(m.p, page, n)
           made == {s \in missing : Cardinality({q \in missing : q < s}) < m.free}
<1>1. r = [m EXCEPT !.p.sections = @ \cup made, !.free = @ - Cardinality(made),
                    !.ok = (made = missing)]
  BY DEF CreateSections, Missing
<1>2. /\ missing \subseteq Nat /\ IsFiniteSet(missing)
      /\ \A x \in missing : x <= Section(page + n)
      /\ Section(page + n) \in Nat
  BY MissingIs, Sectioned
<1>3. IsFiniteSet(made) /\ made \subseteq missing
  BY <1>2, FS_Subset
<1>4. m.free \in Nat /\ m.p \in Proc
  BY DEF Memory
<1> HIDE DEF missing
<1>5. Cardinality(made) \in Nat /\ Cardinality(made) <= m.free
  <2>1. CASE made = {}
    <3> HIDE DEF made
    <3> QED BY <1>4, <2>1, FS_EmptySet
  <2>2. CASE made # {}
    <3>1. PICK x \in made : \A k \in made : k <= x
      BY <1>2, <1>3, <2>2, Largest
    <3> DEFINE below == {q \in missing : q < x}
    <3>2. IsFiniteSet(below) /\ Cardinality(below) < m.free
      BY <1>2, FS_Subset
    <3> HIDE DEF made
    <3>3. made \subseteq below \cup {x}
      BY <1>2, <1>3, <3>1
    <3>4. x \notin below
      BY <1>2, <1>3
    <3> HIDE DEF below
    <3>5. IsFiniteSet(below \cup {x})
          /\ Cardinality(below \cup {x}) = Cardinality(below) + 1
      BY <3>2, <3>4, FS_AddElement
    <3>6. Cardinality(made) <= Cardinality(below \cup {x})
      BY <3>3, <3>5, FS_Subset
    <3>7. Cardinality(made) \in Nat /\ Cardinality(below) \in Nat
      BY <1>3, <3>2, FS_CardinalityType
    <3> QED BY <1>4, <3>2, <3>5, <3>6, <3>7
  <2> QED BY <2>1, <2>2
<1>6. ASSUME made # missing
      PROVE  m.free < Cardinality(missing)
  <2>1. PICK x \in missing : ~(Cardinality({q \in missing : q < x}) < m.free)
    BY <1>3, <1>6
  <2> DEFINE below == {q \in missing : q < x}
  <2>2. below \subseteq missing /\ x \notin below
    BY <1>2
  <2>3. ~(Cardinality(below) < m.free)
    BY <2>1
  <2> HIDE DEF below
  <2>4. below \cup {x} \subseteq missing
    BY <2>2
  <2>5. IsFiniteSet(below) /\ Cardinality(below) \in Nat
        /\ Cardinality(below \cup {x}) = Cardinality(below) + 1
    BY <1>2, <2>2, FS_Subset, FS_AddElement, FS_CardinalityType
  <2>6. Cardinality(below \cup {x}) <= Cardinality(missing)
        /\ Cardinality(missing) \in Nat
    BY <1>2, <2>4, FS_Subset, FS_CardinalityType
  <2> QED BY <1>4, <2>3, <2>5, <2>6
<1>7. made \cap m.p.sections = {}
  BY <1>3 DEF missing, Missing
<1> HIDE DEF made
<1>8. /\ r \in Memory /\ SameBut(m.p, r.p)
      /\ r.p.pages = m.p.pages /\ r.p.sections = m.p.sections \cup made
      /\ r.status = m.status /\ r.free = m.free - Cardinality(made)
      /\ r.ok = (made = missing)
  <2> DEFINE q == [m.p EXCEPT !.sections = @ \cup made]
  <2>1. q \in Proc /\ SameBut(m.p, q)
        /\ q.pages = m.p.pages /\ q.sections = m.p.sections \cup made
    BY <1>2, <1>3, <1>4 DEF Proc, SameBut
  <2>2. /\ r.p = q /\ r.status = m.status /\ r.ok = (made = missing)
        /\ r.free = m.free - Cardinality(made)
    BY <1>1 DEF Memory
  <2>3. r = [p |-> r.p, free |-> r.free, ok |-> r.ok, status |-> r.status]
    BY <1>1 DEF Memory
  <2>4. /\ r.free \in Nat /\ r.ok \in BOOLEAN
        /\ r.status \in {"ok", "wild", "crashed"}
    BY <1>4, <1>5, <2>2 DEF Memory
  <2> HIDE DEF q
  <2> QED BY <2>1, <2>2, <2>3, <2>4 DEF Memory
<1>9. /\ IsFiniteSet(r.p.sections)
      /\ Cardinality(r.p.sections) = Cardinality(m.p.sections) + Cardinality(made)
  <2>1. /\ IsFiniteSet(m.p.sections \cup made)
        /\ Cardinality(m.p.sections \cup made) =
             Cardinality(m.p.sections) + Cardinality(made)
             - Cardinality(m.p.sections \cap made)
    BY <1>3, FS_Union DEF Finite
  <2>2. Cardinality(m.p.sections \cap made) = 0
    BY <1>7, FS_EmptySet
  <2>3. Cardinality(m.p.sections) \in Nat
    BY FS_CardinalityType DEF Finite
  <2> QED BY <1>8, <2>1, <2>2, <2>3, <1>5
<1>10. Kept(m, r)
  <2>1. Tables(r.p) = Tables(m.p)
    BY <1>8 DEF Tables, SameBut
  <2>2. /\ Cardinality(m.p.pages) \in Nat /\ Cardinality(m.p.sections) \in Nat
        /\ Tables(m.p) \in 0..2
    BY <1>4, FramesType
  <2> QED BY <1>4, <1>5, <1>8, <1>9, <2>1, <2>2 DEF Kept, Finite, Frames
<1>11. ASSUME made = missing
       PROVE  \A q \in Span(page, n) : Section(q) \in r.p.sections
  <2> TAKE q \in Span(page, n)
  <2>1. CASE Section(q) \in m.p.sections
    BY <1>8, <2>1
  <2>2. CASE Section(q) \notin m.p.sections
    <3>1. Section(q) \in missing
      BY <2>2 DEF missing, Missing
    <3> QED BY <1>8, <1>11, <3>1
  <2> QED BY <2>1, <2>2
<1>12. missing = Missing(m.p, page, n)
  BY DEF missing
<1>13. r.free <= m.free
  BY <1>4, <1>5, <1>8
<1>14. r.ok => /\ made = missing
               /\ \A q \in Span(page, n) : Section(q) \in r.p.sections
               /\ r.free = m.free - Cardinality(missing)
  BY <1>8, <1>11
<1>15. ~r.ok => m.free < Cardinality(missing)
  BY <1>6, <1>8
<1>16. m.p.sections \subseteq r.p.sections
  BY <1>8
<1> QED BY <1>8, <1>10, <1>12, <1>13, <1>14, <1>15, <1>16

\* The n pages at page are mapped, and so is the table that page is in.
Mapped(p, page, n) ==
  /\ page + n <= MemLimit
  /\ Span(page, n) \subseteq p.pages
  /\ Section(page) \in p.sections
  /\ \A q \in Span(page, n) : Section(q) \in p.sections

Wrong == {"wild", "crashed"}

LEMMA UnmapPagesReturns ==
  ASSUME NEW m \in Memory, Finite(m.p), NEW page \in Nat, NEW n \in Nat,
         NEW r, r = UnmapPages(m, page, n)
  PROVE  /\ Kept(m, r) /\ SameBut(m.p, r.p)
         /\ r.p.sections = m.p.sections /\ r.ok = m.ok /\ m.free <= r.free
         /\ r.status \in {m.status} \cup Wrong
         /\ Mapped(m.p, page, n) =>
              /\ r.status = m.status /\ r.free = m.free + n
              /\ r.p.pages = m.p.pages \ Span(page, n)
         /\ ~(Span(page, n) \subseteq m.p.pages) => r.status \in Wrong
<1> DEFINE span == Span(page, n)
           there == /\ ~(page + n > MemLimit)
                    /\ {Section(q) : q \in span} \cup {Section(page)} \subseteq m.p.sections
<1>0. m.free \in Nat /\ m.p \in Proc
  BY DEF Memory
<1>1. CASE ~there
  <2>1. r = [m EXCEPT !.status = "crashed"]
    BY <1>1 DEF UnmapPages
  <2>2. ~Mapped(m.p, page, n)
    BY <1>1, Constants DEF Mapped
  <2> HIDE DEF there, span
  <2>3. /\ r \in Memory /\ r.p = m.p /\ r.free = m.free /\ r.ok = m.ok
        /\ r.status = "crashed"
    BY <2>1 DEF Memory
  <2> QED BY <1>0, <2>2, <2>3 DEF Kept, SameBut, Wrong
<1>2. CASE there
  <2>1. r = [m EXCEPT !.p.pages = @ \ span,
                      !.free = @ + Cardinality(span \cap m.p.pages),
                      !.status = IF span \subseteq m.p.pages THEN @ ELSE "wild"]
    BY <1>2 DEF UnmapPages
  <2> HIDE DEF there
  <2>2. /\ IsFiniteSet(m.p.pages) /\ Cardinality(m.p.pages) \in Nat
        /\ IsFiniteSet(span \cap m.p.pages)
        /\ Cardinality(span \cap m.p.pages) \in Nat
        /\ Cardinality(span \cap m.p.pages) <= Cardinality(m.p.pages)
    BY FS_CardinalityType, FS_Intersection DEF Finite
  <2>3. /\ IsFiniteSet(m.p.pages \ span)
        /\ Cardinality(m.p.pages \ span) =
             Cardinality(m.p.pages) - Cardinality(span \cap m.p.pages)
    <3>1. m.p.pages \cap span = span \cap m.p.pages
      OBVIOUS
    <3>2. /\ IsFiniteSet(m.p.pages \ span)
          /\ Cardinality(m.p.pages \ span) =
               Cardinality(m.p.pages) - Cardinality(m.p.pages \cap span)
      <4> HIDE DEF span
      <4> QED BY <2>2, FS_Difference, Zenon
    <3> QED BY <3>1, <3>2
  <2>4. Cardinality(span) = n
    BY SpanIs
  <2> HIDE DEF span
  <2> DEFINE q == [m.p EXCEPT !.pages = @ \ span]
  <2>5. q \in Proc /\ SameBut(m.p, q)
        /\ q.sections = m.p.sections /\ q.pages = m.p.pages \ span
    BY <1>0 DEF Proc, SameBut
  <2>6. /\ r.p = q /\ r.ok = m.ok
        /\ r.free = m.free + Cardinality(span \cap m.p.pages)
        /\ r.status = (IF span \subseteq m.p.pages THEN m.status ELSE "wild")
        /\ r = [p |-> r.p, free |-> r.free, ok |-> r.ok, status |-> r.status]
    BY <2>1 DEF Memory
  <2> HIDE DEF q
  <2>7. r \in Memory /\ m.free <= r.free
    BY <1>0, <2>2, <2>5, <2>6 DEF Memory
  <2>8. Kept(m, r)
    <3>1. Tables(r.p) = Tables(m.p)
      BY <2>5, <2>6 DEF Tables, SameBut
    <3>2. Tables(m.p) \in 0..2 /\ Cardinality(m.p.sections) \in Nat
      BY <1>0, FramesType
    <3>3. /\ IsFiniteSet(r.p.pages) /\ IsFiniteSet(r.p.sections)
          /\ Cardinality(r.p.pages) =
               Cardinality(m.p.pages) - Cardinality(span \cap m.p.pages)
          /\ Cardinality(r.p.sections) = Cardinality(m.p.sections)
      BY <2>3, <2>5, <2>6 DEF Finite
    <3>4. r.free + Frames(r.p) = m.free + Frames(m.p)
      BY <1>0, <2>2, <2>6, <3>1, <3>2, <3>3 DEF Frames
    <3> QED BY <2>7, <3>3, <3>4 DEF Kept, Finite
  <2>9. ASSUME Mapped(m.p, page, n)
        PROVE  r.status = m.status /\ r.free = m.free + n
    <3>1. span \subseteq m.p.pages
      BY <2>9 DEF Mapped, span
    <3>2. span \cap m.p.pages = span
      BY <3>1
    <3> QED BY <2>4, <2>6, <3>1, <3>2
  <2> QED BY <2>5, <2>6, <2>7, <2>8, <2>9 DEF Wrong, span
<1> QED BY <1>1, <1>2

LEMMA MapPagesReturns ==
  ASSUME NEW m \in Memory, Finite(m.p), m.status = "ok", NEW page \in Nat, NEW n \in Nat \ {0},
         NEW r, r = MapPages(m, page, n)
  PROVE  /\ Kept(m, r) /\ SameBut(m.p, r.p)
         /\ m.p.sections \subseteq r.p.sections
         /\ r.ok =>
              /\ r.status = "ok"
              /\ r.free = m.free - Cardinality(Missing(m.p, page, n)) - n
              /\ r.p.pages = m.p.pages \cup Span(page, n)
              /\ \A q \in Span(page, n) : Section(q) \in r.p.sections
              /\ page + n <= MemLimit /\ Span(page, n) \cap m.p.pages = {}
         /\ ~r.ok /\ r.status = "ok" =>
              /\ r.p.pages = m.p.pages
              /\ r.free <= m.free
              /\ m.free < Cardinality(Missing(m.p, page, n)) \/ r.free < n
         /\ ~r.ok => \/ m.free < n + Cardinality(Missing(m.p, page, n))
                     \/ Span(page, n) \cap m.p.pages # {}
                     \/ page + n > MemLimit
<1> DEFINE c == CreateSections(m, page, n)
           missing == Cardinality(Missing(m.p, page, n))
           got == IF n <= c.free THEN n ELSE c.free
           mapped == [c EXCEPT !.p.pages = @ \cup Span(page, got), !.free = @ - got]
           undone == UnmapPages(mapped, page, PteIdx(page) + got)
<1>0. m.free \in Nat /\ m.p \in Proc /\ missing \in Nat
  BY MissingIs, FS_CardinalityType DEF Memory
<1>1. /\ Kept(m, c) /\ SameBut(m.p, c.p)
      /\ c.p.pages = m.p.pages /\ m.p.sections \subseteq c.p.sections
      /\ c.status = m.status /\ c.free <= m.free
      /\ c.ok => /\ \A q \in Span(page, n) : Section(q) \in c.p.sections
                 /\ c.free = m.free - missing
      /\ ~c.ok => m.free < missing
  BY CreateSectionsReturns
<1>2. r = IF page + n > MemLimit THEN Failed([m EXCEPT !.status = "crashed"])
          ELSE IF ~c.ok THEN c
          ELSE IF Span(page, got) \cap c.p.pages # {} THEN Failed(Wild(c))
          ELSE IF got = n THEN mapped
          ELSE Failed(IF PteIdx(page) = 0 THEN undone ELSE Wild(undone))
  BY DEF MapPages
<1> HIDE DEF c, missing
<1>3. c \in Memory /\ c.p \in Proc /\ c.free \in Nat /\ Finite(c.p)
  BY <1>1 DEF Kept, Memory
<1>a. CASE page + n > MemLimit
  <2>1. r = Failed([m EXCEPT !.status = "crashed"])
    BY <1>2, <1>a
  <2>2. /\ r \in Memory /\ r.p = m.p /\ r.free = m.free /\ ~r.ok
        /\ r.status = "crashed"
    BY <2>1 DEF Failed, Memory
  <2> QED BY <1>0, <1>a, <2>2 DEF Kept, SameBut
<1>4. CASE ~(page + n > MemLimit) /\ ~c.ok
  <2>1. r = c
    BY <1>2, <1>4
  <2> QED BY <1>0, <1>1, <1>3, <1>4, <2>1 DEF missing
<1>b. CASE /\ ~(page + n > MemLimit) /\ c.ok
           /\ Span(page, got) \cap c.p.pages # {}
  <2>0. got \in Nat /\ got <= n
    BY <1>3
  <2>1. r = Failed(Wild(c))
    BY <1>2, <1>b
  <2>2. /\ r \in Memory /\ r.p = c.p /\ r.free = c.free /\ ~r.ok
        /\ r.status \in Wrong
    BY <1>1, <1>3, <2>1 DEF Failed, Wild, Memory, Wrong
  <2>3. Span(page, n) \cap m.p.pages # {}
    <3>1. Span(page, got) \subseteq Span(page, n)
      BY <2>0 DEF Span
    <3> QED BY <1>1, <1>b, <3>1
  <2> HIDE DEF got
  <2> QED BY <1>0, <1>1, <1>3, <2>2, <2>3 DEF Kept, SameBut, Wrong
<1>5. CASE /\ ~(page + n > MemLimit) /\ c.ok
           /\ Span(page, got) \cap c.p.pages = {}
  <2>1. got \in Nat /\ got <= n /\ got <= c.free /\ (got = n \/ got = c.free)
    BY <1>3
  <2>2. r = IF got = n THEN mapped
            ELSE Failed(IF PteIdx(page) = 0 THEN undone ELSE Wild(undone))
    BY <1>2, <1>5
  <2>u. undone = UnmapPages(mapped, page, PteIdx(page) + got)
    OBVIOUS
  <2>3. mapped = [c EXCEPT !.p.pages = @ \cup Span(page, got), !.free = @ - got]
    OBVIOUS
  <2>g. n <= c.free => got = n
    OBVIOUS
  <2>8. Span(page, got) \cap m.p.pages = {}
    BY <1>1, <1>5
  <2>l. page + n <= MemLimit
    BY <1>5, Constants
  <2> HIDE DEF got, mapped, undone
  <2> DEFINE q == [c.p EXCEPT !.pages = @ \cup Span(page, got)]
  <2>4. /\ Span(page, got) \subseteq Nat /\ Span(page, got) \subseteq Span(page, n)
        /\ IsFiniteSet(Span(page, got)) /\ Cardinality(Span(page, got)) = got
    <3>1. Span(page, got) \subseteq Span(page, n)
      BY <2>1 DEF Span
    <3> QED BY <2>1, <3>1, SpanIs
  <2>5. q \in Proc /\ SameBut(c.p, q)
        /\ q.sections = c.p.sections /\ q.pages = c.p.pages \cup Span(page, got)
    BY <1>3, <2>4 DEF Proc, SameBut
  <2>6. /\ mapped.p = q /\ mapped.ok = c.ok /\ mapped.free = c.free - got
        /\ mapped.status = c.status
        /\ mapped = [p |-> mapped.p, free |-> mapped.free, ok |-> mapped.ok,
                     status |-> mapped.status]
    BY <1>3, <2>3 DEF Memory
  <2> HIDE DEF q
  <2>7. mapped \in Memory
    BY <1>3, <2>1, <2>5, <2>6 DEF Memory
  <2>9. Kept(c, mapped)
    <3>1. /\ IsFiniteSet(mapped.p.pages)
          /\ Cardinality(mapped.p.pages) = Cardinality(c.p.pages) + got
      <4>1. Cardinality(c.p.pages \cap Span(page, got)) = 0
        <5>1. c.p.pages \cap Span(page, got) = {}
          BY <1>1, <2>8
        <5> QED BY <5>1, FS_EmptySet
      <4>2. Cardinality(c.p.pages) \in Nat
        BY <1>3, FramesType
      <4>3. /\ IsFiniteSet(c.p.pages \cup Span(page, got))
            /\ Cardinality(c.p.pages \cup Span(page, got)) =
                 Cardinality(c.p.pages) + Cardinality(Span(page, got))
                 - Cardinality(c.p.pages \cap Span(page, got))
        BY <1>3, <2>4, FS_Union DEF Finite
      <4>4. mapped.p.pages = c.p.pages \cup Span(page, got)
        BY <2>5, <2>6
      <4>5. Cardinality(c.p.pages \cup Span(page, got)) = Cardinality(c.p.pages) + got
        BY <2>1, <2>4, <4>1, <4>2, <4>3
      <4> QED BY <4>3, <4>4, <4>5
    <3>2. Tables(mapped.p) = Tables(c.p)
      BY <2>5, <2>6 DEF Tables, SameBut
    <3>3. /\ Tables(c.p) \in 0..2 /\ Cardinality(c.p.sections) \in Nat
          /\ Cardinality(c.p.pages) \in Nat
      BY <1>3, FramesType
    <3> QED BY <1>3, <2>1, <2>5, <2>6, <2>7, <3>1, <3>2, <3>3
            DEF Kept, Finite, Frames
  <2>10. Kept(m, mapped) /\ SameBut(m.p, mapped.p)
    BY <1>1, <2>5, <2>6, <2>9 DEF Kept, SameBut
  <2>11. CASE got = n
    <3>1. r = mapped
      BY <2>2, <2>11
    <3>2. r.free = m.free - missing - n
      BY <1>0, <1>1, <1>3, <1>5, <2>6, <2>11, <3>1
    <3>3. r.p.pages = m.p.pages \cup Span(page, n)
      BY <1>1, <2>5, <2>6, <2>11, <3>1
    <3>4. \A q0 \in Span(page, n) : Section(q0) \in r.p.sections
      BY <1>1, <1>5, <2>5, <2>6, <3>1
    <3>5. r.ok /\ r.status = "ok" /\ m.p.sections \subseteq r.p.sections
      BY <1>1, <1>5, <2>5, <2>6, <3>1
    <3> QED BY <2>8, <2>l, <2>10, <2>11, <3>1, <3>2, <3>3, <3>4, <3>5 DEF missing
  <2>12. CASE got # n
    <3> DEFINE k == PteIdx(page) + got
    <3>1. PteIdx(page) \in Nat /\ k \in Nat
      <4>1. PteIdx(page) \in Nat
        BY Sectioned, Constants
      <4> QED BY <2>1, <4>1
    <3>2. r = Failed(IF PteIdx(page) = 0 THEN undone ELSE Wild(undone))
      BY <2>2, <2>12
    <3>f. Finite(mapped.p)
      BY <2>9 DEF Kept
    <3>k. undone = UnmapPages(mapped, page, k)
      BY <2>u
    <3> HIDE DEF k
    <3>3. /\ Kept(mapped, undone) /\ SameBut(mapped.p, undone.p)
          /\ undone.p.sections = mapped.p.sections
          /\ undone.status \in {mapped.status} \cup Wrong
          /\ Mapped(mapped.p, page, k) =>
              /\ undone.status = mapped.status /\ undone.free = mapped.free + k
              /\ undone.p.pages = mapped.p.pages \ Span(page, k)
      BY <2>7, <3>f, <3>1, <3>k, UnmapPagesReturns
    <3>4. undone \in Memory
      BY <3>3 DEF Kept
    <3>5. /\ r.p = undone.p /\ r.free = undone.free /\ ~r.ok
          /\ PteIdx(page) = 0 => r.status = undone.status
          /\ PteIdx(page) # 0 => r.status \in Wrong
          /\ r \in Memory
      BY <3>2, <3>4 DEF Failed, Wild, Memory, Wrong
    <3>6. Kept(m, r) /\ SameBut(m.p, r.p)
      BY <2>10, <3>3, <3>5 DEF Kept, SameBut
    <3>7. c.free < n /\ got = c.free
      BY <1>3, <2>1, <2>g, <2>12
    <3>8. m.free < n + missing
      BY <1>0, <1>1, <1>3, <1>5, <3>7
    <3>s. m.p.sections \subseteq r.p.sections
      BY <1>1, <2>5, <2>6, <3>3, <3>5
    <3>9. CASE PteIdx(page) = 0
      <4>1. k = got
        BY <2>1, <3>9 DEF k
      <4>2. page \in Span(page, n)
        BY Constants DEF Span
      <4>3. Mapped(mapped.p, page, k)
        <5>1. page + k <= MemLimit
          BY <2>1, <2>l, <4>1, Constants
        <5> QED BY <1>1, <1>5, <2>4, <2>5, <2>6, <4>1, <4>2, <5>1 DEF Mapped
      <4>4. r.p.pages = m.p.pages
        BY <1>1, <2>5, <2>6, <2>8, <3>3, <3>5, <4>1, <4>3
      <4>5. r.free = c.free
        BY <1>3, <2>1, <2>6, <3>3, <3>5, <3>9, <4>1, <4>3
      <4>6. r.free <= m.free /\ r.free < n
        BY <1>1, <3>7, <4>5
      <4> QED BY <3>5, <3>6, <3>8, <3>s, <4>4, <4>6 DEF missing
    <3>10. CASE PteIdx(page) # 0
      BY <3>5, <3>6, <3>8, <3>s, <3>10 DEF Wrong, missing
    <3> QED BY <3>9, <3>10
  <2> QED BY <2>11, <2>12
<1> HIDE DEF got
<1> QED BY <1>a, <1>4, <1>b, <1>5

-----------------------------------------------------------------------------
(* What the calls of process.c return                                      *)

\* The state of thread i is set.
Threaded(p, q, i, state) ==
  /\ q.pid = p.pid /\ q.pde = p.pde /\ q.kernPt = p.kernPt
  /\ q.heapLimit = p.heapLimit /\ q.numThreads = p.numThreads
  /\ q.threads = [p.threads EXCEPT ![i] = state]

SetThread(m, i, state) == [m EXCEPT !.p.threads[i] = state]

LEMMA ThreadSet ==
  ASSUME NEW m \in Memory, Finite(m.p), NEW i \in Indexes,
         NEW state \in {"EReady", "EDying", "EDead"},
         NEW r, r = SetThread(m, i, state)
  PROVE  /\ Kept(m, r) /\ Threaded(m.p, r.p, i, state)
         /\ r.p.pages = m.p.pages /\ r.p.sections = m.p.sections
         /\ r.free = m.free /\ r.ok = m.ok /\ r.status = m.status
<1> DEFINE q == [m.p EXCEPT !.threads[i] = state]
<1>0. m.p \in Proc
  BY DEF Memory
<1>1. q \in Proc /\ q.pages = m.p.pages /\ q.sections = m.p.sections
      /\ Threaded(m.p, q, i, state)
  BY <1>0 DEF Proc, Threaded
<1>2. /\ r.p = q /\ r.free = m.free /\ r.ok = m.ok /\ r.status = m.status
      /\ r = [p |-> r.p, free |-> r.free, ok |-> r.ok, status |-> r.status]
  BY DEF Memory, SetThread
<1> HIDE DEF q
<1>3. r \in Memory
  BY <1>1, <1>2 DEF Memory
<1>4. Frames(q) = Frames(m.p)
  BY <1>1 DEF Frames, Tables, Threaded
<1> QED BY <1>1, <1>2, <1>3, <1>4 DEF Kept, Finite

LEMMA ThreadInitReturns ==
  ASSUME NEW m \in Memory, Finite(m.p), m.status = "ok", NEW i \in Indexes,
         NEW r, r = ThreadInit(m, i)
  PROVE  /\ Kept(m, r) /\ m.p.sections \subseteq r.p.sections
         /\ Threaded(m.p, r.p, i, IF r.ok THEN "EReady" ELSE "EDead")
         /\ r.ok => /\ r.status = "ok" /\ StackPages < m.free
                    /\ r.p.pages = m.p.pages \cup Area(i)
                    /\ \A q \in Area(i) : Section(q) \in r.p.sections
                    /\ Area(i) \cap m.p.pages = {}
         /\ ~r.ok /\ r.status = "ok" => r.p.pages = m.p.pages
         /\ ~r.ok =>
              \/ m.free < StackPages + 1
                   + Cardinality(Missing(m.p, UserStack(i), StackPages))
              \/ Area(i) \cap m.p.pages # {}
<1> USE Constants
<1> DEFINE dead == [m EXCEPT !.p.threads[i] = "EDead"]
           base == UserStack(i)
           user == MapPages(dead, base, StackPages)
           svc == MapPages(user, SvcStack(i), 1)
           undo == UnmapPages(svc, base, StackPages)
           ready == [svc EXCEPT !.p.threads[i] = "EReady"]
<1>1. r = IF ~user.ok THEN user ELSE IF ~svc.ok THEN Failed(undo) ELSE ready
  BY DEF ThreadInit
<1>i. i \in Nat
  BY DEF Indexes
<1>a. /\ base \in Nat /\ SvcStack(i) \in Nat
      /\ Area(i) = Span(base, StackPages) \cup {SvcStack(i)}
      /\ SvcStack(i) \notin Span(base, StackPages)
      /\ Span(SvcStack(i), 1) = {SvcStack(i)}
  <2>1. base \in Nat /\ SvcStack(i) \in Nat
        /\ SvcStack(i) \notin Span(base, StackPages)
    BY <1>i, AreaIs
  <2>2. Span(SvcStack(i), 1) = {SvcStack(i)}
    BY <2>1 DEF Span
  <2> QED BY <2>1, <2>2 DEF Area
<1>b. PICK x \in Nat : \A q \in Area(i) : Section(q) = x
  BY <1>i, AreaSection
<1>2. /\ Kept(m, dead) /\ Threaded(m.p, dead.p, i, "EDead")
      /\ dead.p.pages = m.p.pages /\ dead.p.sections = m.p.sections
      /\ dead.free = m.free /\ dead.status = m.status
  <2>1. dead = SetThread(m, i, "EDead")
    BY DEF SetThread
  <2> HIDE DEF dead
  <2> QED BY <2>1, ThreadSet
<1>3. dead \in Memory /\ Finite(dead.p) /\ m.free \in Nat
  BY <1>2 DEF Kept, Memory
<1>u. user = MapPages(dead, base, StackPages)
  OBVIOUS
<1> DEFINE missing == Cardinality(Missing(dead.p, base, StackPages))
<1>m. missing \in Nat /\ missing <= 1
  <2>1. \A q \in Span(base, StackPages) : Section(q) = x
    BY <1>a, <1>b
  <2> QED BY <1>a, <2>1, MissingIs, MissingOne, FS_CardinalityType
<1> HIDE DEF base, dead, user
<1>4. /\ Kept(dead, user) /\ SameBut(dead.p, user.p)
      /\ dead.p.sections \subseteq user.p.sections
      /\ user.ok =>
           /\ user.status = "ok"
           /\ user.free = m.free - missing - StackPages
           /\ user.p.pages = dead.p.pages \cup Span(base, StackPages)
           /\ \A q \in Span(base, StackPages) : Section(q) \in user.p.sections
           /\ Span(base, StackPages) \cap m.p.pages = {}
      /\ ~user.ok /\ user.status = "ok" => user.p.pages = dead.p.pages
      /\ ~user.ok => \/ m.free < StackPages + missing
                     \/ Span(base, StackPages) \cap m.p.pages # {}
  <2>1. base + StackPages <= MemLimit /\ ~(base + StackPages > MemLimit)
    BY <1>i, AreaIs, AreaBelow DEF base
  <2>2. /\ Kept(dead, user) /\ SameBut(dead.p, user.p)
        /\ dead.p.sections \subseteq user.p.sections
        /\ user.ok =>
             /\ user.status = "ok"
             /\ user.free = dead.free - missing - StackPages
             /\ user.p.pages = dead.p.pages \cup Span(base, StackPages)
             /\ \A q \in Span(base, StackPages) : Section(q) \in user.p.sections
             /\ Span(base, StackPages) \cap dead.p.pages = {}
        /\ ~user.ok /\ user.status = "ok" => user.p.pages = dead.p.pages
        /\ ~user.ok => \/ dead.free < StackPages + missing
                       \/ Span(base, StackPages) \cap dead.p.pages # {}
                       \/ base + StackPages > MemLimit
    BY <1>2, <1>3, <1>a, <1>u, MapPagesReturns DEF missing
  <2> HIDE DEF missing
  <2> QED BY <1>2, <2>1, <2>2
<1>n. missing = Cardinality(Missing(m.p, UserStack(i), StackPages))
  BY <1>2 DEF missing, Missing, base
<1> HIDE DEF missing
<1>5. Kept(m, user)
  BY <1>2, <1>4 DEF Kept
<1>6. Threaded(m.p, user.p, i, "EDead")
  BY <1>2, <1>4 DEF Threaded, SameBut
<1>7. CASE ~user.ok
  <2>1. r = user
    BY <1>1, <1>7
  <2>2. m.p.sections \subseteq user.p.sections
    BY <1>2, <1>4
  <2>3. m.free < StackPages + 1 + missing \/ Area(i) \cap m.p.pages # {}
    BY <1>3, <1>m, <1>4, <1>7, <1>a
  <2>4. r.status = "ok" => r.p.pages = m.p.pages
    BY <1>2, <1>4, <1>7, <2>1
  <2> QED BY <1>5, <1>6, <1>7, <1>n, <2>1, <2>2, <2>3, <2>4
<1>8. CASE user.ok
  <2>0. /\ user \in Memory /\ Finite(user.p) /\ user.free \in Nat
        /\ user.status = "ok"
    BY <1>4, <1>8 DEF Kept, Memory
  <2>1. r = IF ~svc.ok THEN Failed(undo) ELSE ready
    BY <1>1, <1>8
  <2>2. x \in user.p.sections
    <3>1. base \in Span(base, StackPages)
      BY <1>a DEF Span
    <3> QED BY <1>4, <1>8, <1>a, <1>b, <3>1
  <2>3. SvcStack(i) \in user.p.pages <=> SvcStack(i) \in m.p.pages
    BY <1>2, <1>4, <1>8, <1>a
  <2>4. Cardinality(Missing(user.p, SvcStack(i), 1)) = 0
    <3>1. \A q \in Span(SvcStack(i), 1) : Section(q) \in user.p.sections
      BY <1>a, <1>b, <2>2
    <3> QED BY <3>1, MissingNone
  <2>s. svc = MapPages(user, SvcStack(i), 1)
    OBVIOUS
  <2>d. undo = UnmapPages(svc, base, StackPages)
    OBVIOUS
  <2>y. ready = [svc EXCEPT !.p.threads[i] = "EReady"]
    OBVIOUS
  <2> HIDE DEF svc, undo, ready
  <2>5. /\ Kept(user, svc) /\ SameBut(user.p, svc.p)
        /\ user.p.sections \subseteq svc.p.sections
        /\ svc.ok =>
             /\ svc.status = "ok"
             /\ svc.free = user.free - 0 - 1
             /\ svc.p.pages = user.p.pages \cup Span(SvcStack(i), 1)
             /\ \A q \in Span(SvcStack(i), 1) : Section(q) \in svc.p.sections
             /\ SvcStack(i) \notin m.p.pages
        /\ ~svc.ok /\ svc.status = "ok" => svc.p.pages = user.p.pages
        /\ ~svc.ok => user.free < 1 \/ SvcStack(i) \in m.p.pages
    <3> DEFINE one == 1
               q == SvcStack(i)
    <3>1. one \in Nat \ {0} /\ q \in Nat /\ svc = MapPages(user, q, one)
      BY <1>a, <2>s
    <3>2. ~(q + one > MemLimit)
      BY AreaBelow
    <3>3. /\ Span(q, one) = {q} /\ Cardinality(Missing(user.p, q, one)) = 0
          /\ q \in user.p.pages <=> q \in m.p.pages
      BY <1>a, <2>3, <2>4
    <3>4. user.free - 0 - one = user.free - 0 - 1 /\ user.free < one + 0 => user.free < 1
      BY <2>0
    <3>5. one = 1 /\ SvcStack(i) = q
      OBVIOUS
    <3> HIDE DEF q, one
    <3>6. /\ Kept(user, svc) /\ SameBut(user.p, svc.p)
          /\ user.p.sections \subseteq svc.p.sections
          /\ svc.ok =>
               /\ svc.status = "ok"
               /\ svc.free = user.free - 0 - one
               /\ svc.p.pages = user.p.pages \cup Span(q, one)
               /\ \A y \in Span(q, one) : Section(y) \in svc.p.sections
               /\ Span(q, one) \cap user.p.pages = {}
          /\ ~svc.ok /\ svc.status = "ok" => svc.p.pages = user.p.pages
          /\ ~svc.ok => user.free < one + 0 \/ Span(q, one) \cap user.p.pages # {}
      <4>1. /\ Kept(user, svc) /\ SameBut(user.p, svc.p)
            /\ user.p.sections \subseteq svc.p.sections
            /\ svc.ok =>
                 /\ svc.status = "ok"
                 /\ svc.free = user.free - Cardinality(Missing(user.p, q, one)) - one
                 /\ svc.p.pages = user.p.pages \cup Span(q, one)
                 /\ \A y \in Span(q, one) : Section(y) \in svc.p.sections
                 /\ Span(q, one) \cap user.p.pages = {}
            /\ ~svc.ok /\ svc.status = "ok" => svc.p.pages = user.p.pages
            /\ ~svc.ok => \/ user.free < one + Cardinality(Missing(user.p, q, one))
                          \/ Span(q, one) \cap user.p.pages # {}
                          \/ q + one > MemLimit
        BY <2>0, <3>1, MapPagesReturns
      <4> QED BY <3>2, <3>3, <4>1
    <3> QED BY <3>3, <3>4, <3>5, <3>6
  <2>6. Kept(m, svc) /\ Threaded(m.p, svc.p, i, "EDead")
    BY <1>5, <1>6, <2>5 DEF Kept, Threaded, SameBut
  <2>7. svc \in Memory /\ Finite(svc.p) /\ svc.free \in Nat
    BY <2>6 DEF Kept, Memory
  <2>8. \A q \in Area(i) : Section(q) \in svc.p.sections
    BY <1>b, <2>2, <2>5
  <2>9. m.p.sections \subseteq svc.p.sections
    BY <1>2, <1>4, <2>5
  <2>10. CASE svc.ok
    <3>1. r = ready
      BY <2>1, <2>10
    <3>2. /\ Kept(svc, ready) /\ Threaded(svc.p, ready.p, i, "EReady")
          /\ ready.p.pages = svc.p.pages /\ ready.p.sections = svc.p.sections
          /\ ready.free = svc.free /\ ready.ok = svc.ok
          /\ ready.status = svc.status
      <4>1. ready = SetThread(svc, i, "EReady")
        BY <2>y DEF SetThread
      <4> QED BY <2>7, <4>1, ThreadSet
    <3>3. Kept(m, ready)
      BY <2>6, <3>2 DEF Kept
    <3>4. Threaded(m.p, ready.p, i, "EReady")
      <4>1. [[m.p.threads EXCEPT ![i] = "EDead"] EXCEPT ![i] = "EReady"]
            = [m.p.threads EXCEPT ![i] = "EReady"]
        <5>1. m.p.threads \in [Indexes -> {"EReady", "EDying", "EDead"}]
          BY DEF Memory, Proc
        <5> QED BY <5>1
      <4> QED BY <2>6, <3>2, <4>1 DEF Threaded
    <3>5. ready.p.pages = m.p.pages \cup Area(i)
      BY <1>2, <1>4, <1>8, <1>a, <2>5, <2>10, <3>2
    <3>6. StackPages < m.free
      BY <1>3, <1>4, <1>8, <1>m, <2>5, <2>7, <2>10
    <3>7. Area(i) \cap m.p.pages = {}
      BY <1>4, <1>8, <1>a, <2>5, <2>10
    <3> QED BY <2>5, <2>8, <2>9, <2>10, <3>1, <3>2, <3>3, <3>4, <3>5, <3>6, <3>7
  <2>11. CASE ~svc.ok
    <3>1. r = Failed(undo)
      BY <2>1, <2>11
    <3>2. /\ Kept(svc, undo) /\ SameBut(svc.p, undo.p)
          /\ undo.p.sections = svc.p.sections
          /\ undo.status \in {svc.status} \cup Wrong
          /\ Mapped(svc.p, base, StackPages) =>
               /\ undo.status = svc.status
               /\ undo.p.pages = svc.p.pages \ Span(base, StackPages)
      BY <1>a, <2>7, <2>d, UnmapPagesReturns
    <3>3. undo \in Memory
      BY <3>2 DEF Kept
    <3>4. /\ r.p = undo.p /\ r.free = undo.free /\ r.status = undo.status
          /\ ~r.ok /\ r \in Memory
      BY <3>1, <3>3 DEF Failed, Memory
    <3>5. Kept(m, r)
      BY <2>6, <3>2, <3>4 DEF Kept
    <3>6. Threaded(m.p, r.p, i, "EDead")
      BY <2>6, <3>2, <3>4 DEF Threaded, SameBut
    <3>7. m.free < StackPages + 1 + missing \/ Area(i) \cap m.p.pages # {}
      BY <1>3, <1>4, <1>8, <1>a, <1>m, <2>0, <2>5, <2>11
    <3>8. ASSUME r.status = "ok"
          PROVE  r.p.pages = m.p.pages
      <4>1. svc.status = "ok"
        BY <3>2, <3>4, <3>8 DEF Wrong
      <4>2. svc.p.pages = m.p.pages \cup Span(base, StackPages)
        BY <1>2, <1>4, <1>8, <2>5, <2>11, <4>1
      <4>3. base \in Area(i)
        BY <1>a DEF Span
      <4>4. Mapped(svc.p, base, StackPages)
        <5>1. base + StackPages <= MemLimit
          BY <1>i, AreaIs, AreaBelow DEF base
        <5> QED BY <1>a, <2>8, <4>2, <4>3, <5>1 DEF Mapped
      <4>5. Span(base, StackPages) \cap m.p.pages = {}
        BY <1>4, <1>8
      <4> QED BY <3>2, <3>4, <4>2, <4>4, <4>5
    <3> QED BY <1>n, <2>9, <3>2, <3>4, <3>5, <3>6, <3>7, <3>8
  <2> QED BY <2>10, <2>11
<1> QED BY <1>7, <1>8

\* One page.
LEMMA MapPageReturns ==
  ASSUME NEW m \in Memory, Finite(m.p), m.status = "ok", NEW page \in Nat,
         page \notin m.p.pages, page < MemLimit,
         NEW r, r = MapPages(m, page, 1)
  PROVE  LET missing == Cardinality(Missing(m.p, page, 1)) IN
         /\ Kept(m, r) /\ SameBut(m.p, r.p)
         /\ r.ok =>
              /\ r.status = "ok"
              /\ r.free = m.free - missing - 1
              /\ r.p.pages = m.p.pages \cup Span(page, 1)
              /\ \A x \in Span(page, 1) : Section(x) \in r.p.sections
         /\ ~r.ok /\ r.status = "ok" =>
              /\ r.p.pages = m.p.pages
              /\ r.free <= m.free
              /\ m.free < missing \/ r.free < 1
         /\ ~r.ok => m.free < 1 + missing
<1> DEFINE one == 1
<1>1. one \in Nat \ {0}
  OBVIOUS
<1>2. r = MapPages(m, page, one)
  OBVIOUS
<1>3. Span(page, one) \cap m.p.pages = {} /\ ~(page + one > MemLimit)
  BY Constants DEF Span
<1> HIDE DEF one
<1>4. /\ Kept(m, r) /\ SameBut(m.p, r.p)
      /\ m.p.sections \subseteq r.p.sections
      /\ r.ok =>
           /\ r.status = "ok"
           /\ r.free = m.free - Cardinality(Missing(m.p, page, one)) - one
           /\ r.p.pages = m.p.pages \cup Span(page, one)
           /\ \A q \in Span(page, one) : Section(q) \in r.p.sections
      /\ ~r.ok /\ r.status = "ok" =>
           /\ r.p.pages = m.p.pages
           /\ r.free <= m.free
           /\ m.free < Cardinality(Missing(m.p, page, one)) \/ r.free < one
      /\ ~r.ok => m.free < one + Cardinality(Missing(m.p, page, one))
  BY <1>1, <1>2, <1>3, MapPagesReturns
<1> QED BY <1>4, Zenon DEF one

\* The page directory and the table of the page tables are there.
LEMMA MmuProcessInitReturns ==
  ASSUME NEW m \in Memory, Finite(m.p), m.status = "ok",
         m.p.kernPt = m.p.pde, m.p.pages = {},
         NEW r, r = MmuProcessInit(m),
         NEW tables, tables = IF m.p.pde THEN 0 ELSE 2
  PROVE  /\ Kept(m, r)
         /\ r.p.pid = m.p.pid /\ r.p.heapLimit = m.p.heapLimit
         /\ r.p.numThreads = m.p.numThreads /\ r.p.threads = m.p.threads
         /\ r.status # "ok" => m.free < tables + 2
         /\ r.status = "ok" =>
              \/ /\ r.p.pde /\ r.p.kernPt /\ r.p.pages = {Bss}
                 /\ Section(Bss) \in r.p.sections
                 /\ m.free <= r.free + tables + 2
              \/ r.p.pages = {} /\ r.free = 0 /\ m.free < tables + 2
<1> USE Constants
<1> DEFINE n == Cardinality({x \in {"pde", "kernPt"} : ~m.p.pde})
           made == [m EXCEPT !.p.pde = @ \/ m.free >= 1,
                             !.p.kernPt = @ \/ m.free >= 2,
                             !.free = IF @ >= n THEN @ - n ELSE 0]
<1>0. m.free \in Nat /\ m.p \in Proc
  BY DEF Memory
<1>1. r = IF ~made.p.pde THEN [made EXCEPT !.status = "crashed"]
          ELSE MapPages(made, Bss, 1)
  BY DEF MmuProcessInit
<1>2. n = IF m.p.pde THEN 0 ELSE 2
  <2>1. CASE m.p.pde
    <3>1. {x \in {"pde", "kernPt"} : ~m.p.pde} = {}
      BY <2>1
    <3> QED BY <2>1, <3>1, FS_EmptySet
  <2>2. CASE ~m.p.pde
    <3>1. {x \in {"pde", "kernPt"} : ~m.p.pde} = {"pde"} \cup {"kernPt"}
      BY <2>2
    <3>2. "pde" # "kernPt"
      OBVIOUS
    <3>3. Cardinality({"pde"} \cup {"kernPt"}) = 2
      <4>1. IsFiniteSet({"pde"}) /\ Cardinality({"pde"}) = 1
        BY FS_Singleton
      <4>2. "kernPt" \notin {"pde"}
        BY <3>2
      <4>3. Cardinality({"pde"} \cup {"kernPt"}) = 1 + 1
        BY <4>1, <4>2, FS_AddElement
      <4> QED BY <4>3
    <3> QED BY <2>2, <3>1, <3>3
  <2> QED BY <2>1, <2>2
<1>n. n = tables /\ tables \in 0..2
  BY <1>2
<1>m. made = [m EXCEPT !.p.pde = @ \/ m.free >= 1,
                       !.p.kernPt = @ \/ m.free >= 2,
                       !.free = IF @ >= n THEN @ - n ELSE 0]
  OBVIOUS
<1> HIDE DEF n, made
<1> DEFINE q == [m.p EXCEPT !.pde = @ \/ m.free >= 1,
                            !.kernPt = @ \/ m.free >= 2]
<1>3. /\ q \in Proc
      /\ q.pid = m.p.pid /\ q.heapLimit = m.p.heapLimit
      /\ q.numThreads = m.p.numThreads /\ q.threads = m.p.threads
      /\ q.pages = m.p.pages /\ q.sections = m.p.sections
      /\ q.pde <=> m.p.pde \/ m.free >= 1
      /\ q.kernPt <=> m.p.kernPt \/ m.free >= 2
  BY <1>0 DEF Proc
<1>4. /\ made.p = q /\ made.ok = m.ok /\ made.status = "ok"
      /\ made.free = (IF m.free >= n THEN m.free - n ELSE 0)
      /\ made = [p |-> made.p, free |-> made.free, ok |-> made.ok,
                 status |-> made.status]
  BY <1>m DEF Memory
<1> HIDE DEF q
<1>5. made \in Memory /\ made.free \in Nat
  BY <1>0, <1>2, <1>3, <1>4 DEF Memory
<1>6. made.free + Tables(q) = m.free + Tables(m.p)
  <2>2. CASE m.p.pde
    <3>1. q.pde /\ q.kernPt /\ m.p.kernPt
      BY <1>3, <2>2
    <3>2. Tables(q) = 2 /\ Tables(m.p) = 2
      BY <2>2, <3>1 DEF Tables
    <3>3. made.free = m.free
      BY <1>0, <1>2, <1>4, <2>2
    <3> QED BY <3>2, <3>3
  <2>3. CASE ~m.p.pde
    <3>1. /\ Tables(m.p) = 0 /\ n = 2
          /\ q.pde <=> m.free >= 1
          /\ q.kernPt <=> m.free >= 2
      BY <1>2, <1>3, <2>3 DEF Tables
    <3>2. Tables(q) = IF m.free >= 2 THEN 2 ELSE IF m.free >= 1 THEN 1 ELSE 0
      <4>1. m.free >= 2 => m.free >= 1
        BY <1>0
      <4>2. CASE m.free >= 2
        BY <3>1, <4>1, <4>2 DEF Tables
      <4>3. CASE ~(m.free >= 2) /\ m.free >= 1
        BY <3>1, <4>3 DEF Tables
      <4>4. CASE ~(m.free >= 1)
        BY <3>1, <4>1, <4>4 DEF Tables
      <4> QED BY <4>2, <4>3, <4>4
    <3> QED BY <1>0, <1>4, <3>1, <3>2
  <2> QED BY <2>2, <2>3
<1>7. Kept(m, made)
  <2>1. /\ Cardinality(m.p.pages) \in Nat /\ Cardinality(m.p.sections) \in Nat
        /\ Tables(m.p) \in 0..2
    BY <1>0, FramesType
  <2>2. /\ Cardinality(q.pages) = Cardinality(m.p.pages)
        /\ Cardinality(q.sections) = Cardinality(m.p.sections)
        /\ Finite(q)
    BY <1>3 DEF Finite
  <2>3. Tables(q) \in 0..2
    BY <1>3, <2>2, FramesType
  <2>4. made.free + Frames(q) = m.free + Frames(m.p)
    BY <1>0, <1>5, <1>6, <2>1, <2>2, <2>3 DEF Frames
  <2> QED BY <1>4, <1>5, <2>2, <2>4 DEF Kept
<1>8. CASE ~made.p.pde
  <2>1. r = [made EXCEPT !.status = "crashed"]
    BY <1>1, <1>8
  <2>2. /\ r \in Memory /\ r.p = made.p /\ r.free = made.free
        /\ r.status = "crashed"
    BY <1>5, <2>1 DEF Memory
  <2>3. m.free < tables + 2
    <3>1. ~(m.free >= 1)
      BY <1>3, <1>4, <1>8
    <3> QED BY <1>0, <1>n, <3>1
  <2> QED BY <1>3, <1>4, <1>7, <2>2, <2>3 DEF Kept
<1>9. CASE made.p.pde
  <2>1. r = MapPages(made, Bss, 1)
    BY <1>1, <1>9
  <2>2. Span(Bss, 1) = {Bss}
    BY DEF Span
  <2> DEFINE missing == Cardinality(Missing(made.p, Bss, 1))
  <2>3. missing \in Nat /\ missing <= 1
    <3>1. 1 \in Nat /\ \A x \in Span(Bss, 1) : Section(x) = Section(Bss)
      BY <2>2
    <3> QED BY <3>1, MissingOne, MissingIs, FS_CardinalityType
  <2>4. /\ Kept(made, r) /\ SameBut(made.p, r.p)
        /\ r.ok =>
             /\ r.status = "ok"
             /\ r.free = made.free - missing - 1
             /\ r.p.pages = made.p.pages \cup Span(Bss, 1)
             /\ \A x \in Span(Bss, 1) : Section(x) \in r.p.sections
        /\ ~r.ok /\ r.status = "ok" =>
             /\ r.p.pages = made.p.pages
             /\ r.free <= made.free
             /\ made.free < missing \/ r.free < 1
        /\ ~r.ok => made.free < 1 + missing
    <3>1. Finite(made.p) /\ Bss \in Nat
      BY <1>7 DEF Kept
    <3>2. Bss \notin made.p.pages
      BY <1>3, <1>4
    <3>3. made.status = "ok" /\ Bss < MemLimit
      BY <1>4
    <3> QED BY <1>5, <2>1, <2>2, <3>1, <3>2, <3>3, MapPageReturns
  <2> HIDE DEF missing
  <2>5. Kept(m, r) /\ r.free \in Nat
    BY <1>7, <2>4 DEF Kept, Memory
  <2>6. /\ r.p.pid = m.p.pid /\ r.p.heapLimit = m.p.heapLimit
        /\ r.p.numThreads = m.p.numThreads /\ r.p.threads = m.p.threads
    BY <1>3, <1>4, <2>4 DEF SameBut
  <2>7. m.free <= made.free + tables /\ (made.free < 2 => m.free < tables + 2)
    BY <1>0, <1>n, <1>4
  <2>8. ~made.p.kernPt => made.free = 0
    <3>1. CASE m.p.pde
      BY <1>3, <1>4, <3>1
    <3>2. CASE ~m.p.pde
      BY <1>0, <1>2, <1>3, <1>4, <3>2
    <3> QED BY <3>1, <3>2
  <2>9. CASE r.ok
    <3>1. r.p.kernPt /\ r.p.pde
      BY <1>5, <1>9, <2>3, <2>4, <2>5, <2>8, <2>9 DEF SameBut
    <3>2. r.p.pages = {Bss} /\ Section(Bss) \in r.p.sections
      BY <1>3, <1>4, <2>2, <2>4, <2>9
    <3>3. m.free <= r.free + tables + 2
      BY <1>0, <1>n, <1>5, <2>3, <2>4, <2>5, <2>7, <2>9
    <3> QED BY <2>4, <2>5, <2>6, <2>9, <3>1, <3>2, <3>3
  <2>10. CASE ~r.ok
    <3>1. m.free < tables + 2
      BY <1>0, <1>5, <2>3, <2>4, <2>7, <2>10
    <3>2. r.status = "ok" => r.p.pages = {} /\ r.free = 0
      BY <1>3, <1>4, <1>5, <2>3, <2>4, <2>5, <2>10
    <3> QED BY <2>5, <2>6, <3>1, <3>2
  <2> QED BY <2>9, <2>10
<1> QED BY <1>8, <1>9

\* What a process is like between two calls.
Dead(p) == \A i \in Indexes : p.threads[i] = "EDead"

Settled(p) ==
  /\ p.pde /\ p.kernPt
  /\ p.pages = Bss..(p.heapLimit - 1) \cup Stacks(p)
  /\ \A i \in Indexes : p.threads[i] # "EDead" =>
       i < p.numThreads /\ p.heapLimit <= SvcStack(i)
  /\ \A q \in p.pages : Section(q) \in p.sections

Good(p) ==
  /\ p \in Proc /\ Finite(p)
  /\ ~p.pid => /\ p.pages = {} /\ p.sections = {}
               /\ Dead(p) /\ p.kernPt = p.pde
  /\ p.pid /\ Dead(p) => p.pages \subseteq {Bss}
  /\ p.pid /\ ~Dead(p) => Settled(p)

LEMMA StacksAre ==
  ASSUME NEW p \in Proc, NEW q
  PROVE  q \in Stacks(p) <=>
           \E i \in Indexes : /\ i < p.numThreads /\ p.threads[i] # "EDead"
                              /\ q \in Area(i)
<1> DEFINE J == {j \in 0..(p.numThreads - 1) : p.threads[j] # "EDead"}
<1>1. Stacks(p) = UNION {Area(i) : i \in J}
  BY DEF Stacks, Area
<1>2. \A i : i \in J <=> i \in Indexes /\ i < p.numThreads
                         /\ p.threads[i] # "EDead"
  BY Constants DEF Proc, Indexes
<1> HIDE DEF J
<1>3. q \in UNION {Area(i) : i \in J} <=> \E i \in J : q \in Area(i)
  OBVIOUS
<1> QED BY <1>1, <1>2, <1>3, Zenon

LEMMA ProcessInitReturns ==
  ASSUME NEW m \in Memory, Finite(m.p), m.status = "ok",
         m.p.kernPt = m.p.pde, m.p.pages = {}, Dead(m.p),
         NEW r, r = ProcessInit(m),
         NEW tables, tables = IF m.p.pde THEN 0 ELSE 2
  PROVE  /\ Kept(m, r)
         /\ r.status = "ok" => Good(r.p)
         /\ r.status # "ok" => m.free < tables + 2 + StackPages + 2
<1> USE Constants
<1> DEFINE q == [m.p EXCEPT !.pid = TRUE, !.heapLimit = HeapBase,
                            !.numThreads = 1]
           n == [m EXCEPT !.p = q]
           mmu == MmuProcessInit(n)
<1>0. m.free \in Nat /\ m.p \in Proc
  BY DEF Memory
<1>1. r = IF mmu.status # "ok" THEN mmu ELSE ThreadInit(mmu, 0)
  BY DEF ProcessInit
<1>2. /\ q \in Proc /\ q.pid /\ q.heapLimit = HeapBase /\ q.numThreads = 1
      /\ q.threads = m.p.threads /\ q.pages = m.p.pages
      /\ q.sections = m.p.sections /\ q.pde = m.p.pde /\ q.kernPt = m.p.kernPt
  <2>1. HeapBase \in HeapBase..MemLimit /\ 1 \in 0..MaxThreads
    OBVIOUS
  <2> QED BY <1>0, <2>1 DEF Proc
<1>t. tables \in 0..2 /\ tables = IF q.pde THEN 0 ELSE 2
  BY <1>2
<1>3. /\ n.p = q /\ n.free = m.free /\ n.ok = m.ok /\ n.status = m.status
      /\ n = [p |-> n.p, free |-> n.free, ok |-> n.ok, status |-> n.status]
  BY DEF Memory
<1>h. mmu = MmuProcessInit(n)
  OBVIOUS
<1> HIDE DEF n, q, mmu
<1>4. n \in Memory
  BY <1>0, <1>2, <1>3 DEF Memory
<1>5. Finite(n.p) /\ Frames(n.p) = Frames(m.p)
  BY <1>2, <1>3 DEF Finite, Frames, Tables
<1>6. /\ Kept(n, mmu)
      /\ mmu.p.pid = n.p.pid /\ mmu.p.heapLimit = n.p.heapLimit
      /\ mmu.p.numThreads = n.p.numThreads /\ mmu.p.threads = n.p.threads
      /\ mmu.status # "ok" => m.free < tables + 2
      /\ mmu.status = "ok" =>
           \/ /\ mmu.p.pde /\ mmu.p.kernPt /\ mmu.p.pages = {Bss}
              /\ Section(Bss) \in mmu.p.sections
              /\ m.free <= mmu.free + tables + 2
           \/ mmu.p.pages = {} /\ mmu.free = 0 /\ m.free < tables + 2
  BY <1>2, <1>3, <1>4, <1>5, <1>h, <1>t, MmuProcessInitReturns
<1>7. Kept(m, mmu) /\ mmu \in Memory /\ mmu.free \in Nat /\ Finite(mmu.p)
  BY <1>3, <1>5, <1>6 DEF Kept, Memory
<1>8. CASE mmu.status # "ok"
  BY <1>0, <1>1, <1>6, <1>7, <1>8, <1>t
<1>9. CASE mmu.status = "ok"
  <2>1. r = ThreadInit(mmu, 0)
    BY <1>1, <1>9
  <2>2. 0 \in Indexes
    BY DEF Indexes
  <2>3. Area(0) \cap mmu.p.pages = {}
    <3>1. \A x \in Area(0) : x # Bss
      BY AreaIs
    <3> QED BY <1>6, <1>9, <3>1
  <2>4. /\ Kept(mmu, r) /\ mmu.p.sections \subseteq r.p.sections
        /\ Threaded(mmu.p, r.p, 0, IF r.ok THEN "EReady" ELSE "EDead")
        /\ r.ok => /\ r.status = "ok" /\ StackPages < mmu.free
                   /\ r.p.pages = mmu.p.pages \cup Area(0)
                   /\ \A x \in Area(0) : Section(x) \in r.p.sections
        /\ ~r.ok /\ r.status = "ok" => r.p.pages = mmu.p.pages
        /\ ~r.ok => mmu.free < StackPages + 2
    <3>1. PICK x \in Nat : \A y \in Area(0) : Section(y) = x
      BY AreaSection
    <3>2. \A y \in Span(UserStack(0), StackPages) : Section(y) = x
      BY <3>1 DEF Area
    <3>3. UserStack(0) \in Nat
      BY AreaIs
    <3> DEFINE c == Cardinality(Missing(mmu.p, UserStack(0), StackPages))
    <3>4. c \in Nat /\ c <= 1
      BY <3>2, <3>3, MissingIs, MissingOne, FS_CardinalityType
    <3>5. /\ Kept(mmu, r) /\ mmu.p.sections \subseteq r.p.sections
          /\ Threaded(mmu.p, r.p, 0, IF r.ok THEN "EReady" ELSE "EDead")
          /\ r.ok => /\ r.status = "ok" /\ StackPages < mmu.free
                     /\ r.p.pages = mmu.p.pages \cup Area(0)
                     /\ \A y \in Area(0) : Section(y) \in r.p.sections
          /\ ~r.ok /\ r.status = "ok" => r.p.pages = mmu.p.pages
          /\ ~r.ok => mmu.free < StackPages + 1 + c
      BY <1>7, <1>9, <2>1, <2>2, <2>3, ThreadInitReturns
    <3> HIDE DEF c
    <3>6. ~r.ok => mmu.free < StackPages + 2
      BY <1>7, <3>4, <3>5
    <3> QED BY <3>5, <3>6
  <2>5. Kept(m, r)
    BY <1>7, <2>4 DEF Kept
  <2>6. ~r.ok => m.free < tables + 2 + StackPages + 2
    BY <1>0, <1>6, <1>7, <1>9, <1>t, <2>4
  <2>7. r.p \in Proc /\ Finite(r.p)
    BY <2>4 DEF Kept, Memory
  <2>8. /\ r.p.pid /\ r.p.heapLimit = HeapBase /\ r.p.numThreads = 1
        /\ r.p.threads = [m.p.threads EXCEPT ![0] = IF r.ok THEN "EReady" ELSE "EDead"]
        /\ r.p.pde = mmu.p.pde /\ r.p.kernPt = mmu.p.kernPt
    BY <1>2, <1>3, <1>6, <2>4 DEF Threaded
  <2>9. m.p.threads \in [Indexes -> {"EReady", "EDying", "EDead"}]
    BY <1>0 DEF Proc
  <2>10. CASE r.ok
    <3>1. /\ mmu.p.pde /\ mmu.p.kernPt /\ mmu.p.pages = {Bss}
          /\ Section(Bss) \in mmu.p.sections
      BY <1>6, <1>9, <2>4, <2>10
    <3>2. \A i \in Indexes : r.p.threads[i] # "EDead" <=> i = 0
      BY <2>2, <2>8, <2>9, <2>10 DEF Dead
    <3>3. \A x : x \in Stacks(r.p) <=> x \in Area(0)
      <4>1. \A x : x \in Stacks(r.p) <=>
              \E i \in Indexes : /\ i < 1 /\ r.p.threads[i] # "EDead"
                                 /\ x \in Area(i)
        BY <2>7, <2>8, StacksAre
      <4>2. 0 < 1
        OBVIOUS
      <4> QED BY <2>2, <3>2, <4>1, <4>2, Zenon
    <3>4. Bss..(r.p.heapLimit - 1) = {Bss}
      BY <2>8
    <3>5. r.p.pages = Bss..(r.p.heapLimit - 1) \cup Stacks(r.p)
      BY <2>4, <2>10, <3>1, <3>3, <3>4
    <3>6. \A x \in r.p.pages : Section(x) \in r.p.sections
      BY <2>4, <2>10, <3>1
    <3>7. Settled(r.p)
      <4>1. HeapBase <= SvcStack(0)
        BY AreaIs
      <4> QED BY <2>8, <3>1, <3>2, <3>5, <3>6, <4>1 DEF Settled
    <3>8. ~Dead(r.p)
      BY <2>2, <3>2 DEF Dead
    <3> QED BY <2>4, <2>5, <2>7, <2>8, <2>10, <3>7, <3>8 DEF Good
  <2>11. CASE ~r.ok
    <3>1. Dead(r.p)
      BY <2>2, <2>8, <2>9, <2>11 DEF Dead
    <3>2. r.status = "ok" => r.p.pages \subseteq {Bss}
      BY <1>6, <1>9, <2>4, <2>11
    <3> QED BY <2>5, <2>6, <2>7, <2>8, <2>11, <3>1, <3>2 DEF Good
  <2> QED BY <2>10, <2>11
<1> QED BY <1>8, <1>9

LEMMA FreeThreadStacksReturns ==
  ASSUME NEW m \in Memory, Finite(m.p), NEW i \in Indexes,
         Area(i) \subseteq m.p.pages,
         \A q \in Area(i) : Section(q) \in m.p.sections,
         NEW r, r = FreeThreadStacks(m, i)
  PROVE  /\ Kept(m, r) /\ SameBut(m.p, r.p)
         /\ r.p.sections = m.p.sections /\ r.p.pages = m.p.pages \ Area(i)
         /\ r.status = m.status
<1> USE Constants
<1> DEFINE user == UnmapPages(m, UserStack(i), StackPages)
<1>1. r = UnmapPages(user, SvcStack(i), 1)
  BY DEF FreeThreadStacks
<1>2. /\ UserStack(i) \in Nat /\ SvcStack(i) \in Nat
      /\ SvcStack(i) \notin Span(UserStack(i), StackPages)
      /\ Span(SvcStack(i), 1) = {SvcStack(i)}
      /\ UserStack(i) \in Span(UserStack(i), StackPages)
      /\ Area(i) = Span(UserStack(i), StackPages) \cup {SvcStack(i)}
  <2>1. UserStack(i) \in Nat /\ SvcStack(i) \in Nat
        /\ SvcStack(i) \notin Span(UserStack(i), StackPages)
    BY AreaIs, AreaBelow
  <2> QED BY <2>1 DEF Span, Area
<1>b. UserStack(i) + StackPages <= MemLimit /\ SvcStack(i) + 1 <= MemLimit
  <2>1. i \in Nat /\ SvcStack(i) \in Nat /\ SvcStack(i) + AreaPages <= MemLimit
    BY AreaBelow
  <2>2. UserStack(i) = SvcStack(i) + 2
    BY DEF UserStack
  <2> QED BY <2>1, <2>2
<1>3. Mapped(m.p, UserStack(i), StackPages)
  BY <1>2, <1>b DEF Mapped
<1>u. user = UnmapPages(m, UserStack(i), StackPages)
  OBVIOUS
<1> HIDE DEF user
<1>4. /\ Kept(m, user) /\ SameBut(m.p, user.p)
      /\ user.p.sections = m.p.sections /\ user.status = m.status
      /\ user.p.pages = m.p.pages \ Span(UserStack(i), StackPages)
  BY <1>2, <1>3, <1>u, UnmapPagesReturns
<1>5. user \in Memory /\ Finite(user.p)
  BY <1>4 DEF Kept
<1>6. Mapped(user.p, SvcStack(i), 1)
  BY <1>2, <1>4, <1>b DEF Mapped
<1>7. /\ Kept(user, r) /\ SameBut(user.p, r.p)
      /\ r.p.sections = user.p.sections /\ r.status = user.status
      /\ r.p.pages = user.p.pages \ Span(SvcStack(i), 1)
  <2> DEFINE q == SvcStack(i)
             one == 1
  <2>2. /\ q \in Nat /\ one \in Nat /\ r = UnmapPages(user, q, one)
        /\ Mapped(user.p, q, one)
    BY <1>1, <1>2, <1>6
  <2> HIDE DEF q, one
  <2>3. /\ Kept(user, r) /\ SameBut(user.p, r.p)
        /\ r.p.sections = user.p.sections /\ r.status = user.status
        /\ r.p.pages = user.p.pages \ Span(q, one)
    BY <1>5, <2>2, UnmapPagesReturns
  <2> QED BY <2>3 DEF q, one
<1>8. r.p.pages = m.p.pages \ Area(i)
  BY <1>2, <1>4, <1>7
<1> QED BY <1>4, <1>7, <1>8 DEF Kept, SameBut

\* What is left when the last thread has gone.
HeapOnly(p) ==
  /\ p.pages = Bss..(p.heapLimit - 1)
  /\ \A q \in p.pages : Section(q) \in p.sections

LEMMA ProcessExitReturns ==
  ASSUME NEW m \in Memory, Finite(m.p), HeapOnly(m.p),
         NEW r, r = ProcessExit(m)
  PROVE  /\ Kept(m, r) /\ r.status = m.status
         /\ ~r.p.pid /\ r.p.pages = {} /\ r.p.sections = {}
         /\ r.p.pde = m.p.pde /\ r.p.kernPt = m.p.kernPt
         /\ r.p.threads = m.p.threads
<1> USE Constants
<1> DEFINE n == 1 + (m.p.heapLimit - HeapBase)
           heap == UnmapPages(m, Bss, n)
           q == [heap.p EXCEPT !.sections = {}, !.pages = {}, !.pid = FALSE]
<1>0. m.p \in Proc /\ m.p.heapLimit \in HeapBase..MemLimit
  BY DEF Memory, Proc
<1>b. Bss + n <= MemLimit
  BY <1>0
<1>1. n \in Nat /\ Span(Bss, n) = m.p.pages /\ Bss \in m.p.pages
  <2>1. n \in Nat
    BY <1>0
  <2>2. Bss..(Bss + n - 1) = Bss..(m.p.heapLimit - 1)
    BY <1>0
  <2>3. Bss \in Bss..(m.p.heapLimit - 1)
    BY <1>0
  <2> HIDE DEF n
  <2> QED BY <2>1, <2>2, <2>3 DEF Span, HeapOnly
<1>2. r = [FreeSections(heap) EXCEPT !.p.pid = FALSE]
  BY DEF ProcessExit
<1>3. Mapped(m.p, Bss, n)
  BY <1>1, <1>b DEF Mapped, HeapOnly
<1>h. heap = UnmapPages(m, Bss, n)
  OBVIOUS
<1> HIDE DEF n, heap
<1>4. /\ Kept(m, heap) /\ SameBut(m.p, heap.p)
      /\ heap.p.sections = m.p.sections /\ heap.status = m.status
      /\ heap.p.pages = {}
  <2>1. Bss \in Nat
    OBVIOUS
  <2>2. n \in Nat
    BY <1>1
  <2>3. /\ Kept(m, heap) /\ SameBut(m.p, heap.p)
        /\ heap.p.sections = m.p.sections /\ heap.status = m.status
        /\ heap.p.pages = m.p.pages \ Span(Bss, n)
    BY <1>3, <1>h, <2>1, <2>2, UnmapPagesReturns
  <2> QED BY <1>1, <2>3
<1>5. /\ heap \in Memory /\ heap.p \in Proc /\ heap.free \in Nat
      /\ Finite(heap.p) /\ Cardinality(heap.p.sections) \in Nat
  <2>1. heap \in Memory /\ Finite(heap.p)
    BY <1>4 DEF Kept
  <2> QED BY <2>1, FS_CardinalityType DEF Memory, Finite
<1>6. /\ q \in Proc /\ ~q.pid /\ q.pages = {} /\ q.sections = {}
      /\ q.pde = heap.p.pde /\ q.kernPt = heap.p.kernPt
      /\ q.threads = heap.p.threads
  BY <1>5 DEF Proc
<1>7. /\ r.p = q /\ r.ok = heap.ok /\ r.status = heap.status
      /\ r.free = heap.free + Cardinality(heap.p.sections)
      /\ r = [p |-> r.p, free |-> r.free, ok |-> r.ok, status |-> r.status]
  BY <1>2, <1>5 DEF FreeSections, Memory, Proc
<1> HIDE DEF q
<1>8. r \in Memory
  BY <1>5, <1>6, <1>7 DEF Memory
<1>9. Finite(r.p) /\ Cardinality(r.p.pages) = 0 /\ Cardinality(r.p.sections) = 0
      /\ Tables(r.p) = Tables(heap.p) /\ Cardinality(heap.p.pages) = 0
  BY <1>4, <1>6, <1>7, FS_EmptySet DEF Finite, Tables
<1>10. r.free + Frames(r.p) = heap.free + Frames(heap.p)
  <2>1. Tables(heap.p) \in 0..2
    BY <1>5, FramesType
  <2> QED BY <1>5, <1>7, <1>9, <2>1 DEF Frames
<1> QED BY <1>4, <1>6, <1>7, <1>8, <1>9, <1>10 DEF Kept, SameBut

\* What is left of numThreads covers every thread that is not dead.
LEMMA TrimmedIs ==
  ASSUME NEW p \in Proc, NEW i \in Indexes,
         \A j \in Indexes : p.threads[j] # "EDead" => j < p.numThreads,
         NEW r, r = Trimmed(p, i)
  PROVE  /\ r \in Proc
         /\ r.pid = p.pid /\ r.pde = p.pde /\ r.kernPt = p.kernPt
         /\ r.heapLimit = p.heapLimit /\ r.threads = p.threads
         /\ r.pages = p.pages /\ r.sections = p.sections
         /\ \A j \in Indexes : p.threads[j] # "EDead" => j < r.numThreads
<1> USE Constants
<1> DEFINE live == {j + 1 : j \in {k \in Indexes : k < p.numThreads
                                                   /\ p.threads[k] # "EDead"}}
           S == live \cup {0}
<1>1. CASE i = p.numThreads - 1
  <2>1. r = [p EXCEPT !.numThreads = Max(S)]
    BY <1>1 DEF Trimmed
  <2>2. p.numThreads \in 0..MaxThreads
    BY DEF Proc
  <2>3. /\ S \in SUBSET Nat /\ S # {}
        /\ \A k \in S : k <= p.numThreads
        /\ p.numThreads \in Nat
    BY <2>2 DEF Indexes
  <2>4. \A j \in Indexes : p.threads[j] # "EDead" => j + 1 \in S
    OBVIOUS
  <2> DEFINE t == Max(S)
  <2> HIDE DEF S
  <2>5. t \in S /\ \A k \in S : k <= t
    BY <2>3, MaxIs, Zenon
  <2>6. t \in 0..MaxThreads /\ r = [p EXCEPT !.numThreads = t]
    BY <2>1, <2>2, <2>3, <2>5
  <2> HIDE DEF t
  <2>7. \A j \in Indexes : p.threads[j] # "EDead" => j < t
    <3> SUFFICES ASSUME NEW j \in Indexes, p.threads[j] # "EDead"
                 PROVE  j < t
      OBVIOUS
    <3>1. j + 1 <= t
      BY <2>4, <2>5
    <3> QED BY <2>6, <3>1 DEF Indexes
  <2> QED BY <2>6, <2>7 DEF Proc
<1>2. CASE i # p.numThreads - 1
  BY <1>2 DEF Trimmed
<1> QED BY <1>1, <1>2

-----------------------------------------------------------------------------
(* What all the slots hold                                                 *)

LEMMA TaggedIs ==
  ASSUME NEW S, IsFiniteSet(S), NEW a
  PROVE  IsFiniteSet({a} \X S) /\ Cardinality({a} \X S) = Cardinality(S)
<1>1. IsFiniteSet({a}) /\ Cardinality({a}) = 1
  BY FS_Singleton
<1>2. Cardinality(S) \in Nat
  BY FS_CardinalityType
<1>3. IsFiniteSet({a} \X S) /\ Cardinality({a} \X S) = Cardinality({a}) * Cardinality(S)
  BY <1>1, FS_Product
<1> QED BY <1>1, <1>2, <1>3

LEMMA HeldByIs ==
  ASSUME NEW p \in Proc, Finite(p)
  PROVE  IsFiniteSet(HeldBy(p)) /\ Cardinality(HeldBy(p)) = Frames(p)
<1> DEFINE A == {"page"} \X p.pages
           B == {"section"} \X p.sections
           T == {x \in {1, 2} : IF x = 1 THEN p.pde ELSE p.kernPt}
           C == {"table"} \X T
<1>1. HeldBy(p) = (A \cup B) \cup C
  BY DEF HeldBy
<1>2. IsFiniteSet(T) /\ Cardinality(T) = Tables(p)
  <2>0. p.pde \in BOOLEAN /\ p.kernPt \in BOOLEAN
    BY DEF Proc
  <2>1. CASE p.pde /\ p.kernPt
    <3>1. T = {1} \cup {2}
      BY <2>1
    <3>2. 2 \notin {1} /\ IsFiniteSet({1}) /\ Cardinality({1}) = 1
      <4>1. 2 \notin {1}
        OBVIOUS
      <4> QED BY <4>1, FS_Singleton, Zenon
    <3>3. IsFiniteSet({1} \cup {2}) /\ Cardinality({1} \cup {2}) = 1 + 1
      BY <3>2, FS_AddElement
    <3> QED BY <2>1, <3>1, <3>3 DEF Tables
  <2>2. CASE p.pde /\ ~p.kernPt
    <3>1. T = {1}
      BY <2>2
    <3>2. IsFiniteSet({1}) /\ Cardinality({1}) = 1
      BY FS_Singleton, Zenon
    <3>3. Tables(p) = 1
      BY <2>2 DEF Tables
    <3> QED BY <3>1, <3>2, <3>3
  <2>3. CASE ~p.pde /\ p.kernPt
    <3>1. T = {2}
      BY <2>3
    <3>2. IsFiniteSet({2}) /\ Cardinality({2}) = 1
      BY FS_Singleton, Zenon
    <3>3. Tables(p) = 1
      BY <2>3 DEF Tables
    <3> QED BY <3>1, <3>2, <3>3
  <2>4. CASE ~p.pde /\ ~p.kernPt
    <3>1. T = {}
      BY <2>4
    <3> QED BY <2>4, <3>1, FS_EmptySet DEF Tables
  <2> QED BY <2>0, <2>1, <2>2, <2>3, <2>4
<1> HIDE DEF T
<1>3. /\ IsFiniteSet(A) /\ Cardinality(A) = Cardinality(p.pages)
      /\ IsFiniteSet(B) /\ Cardinality(B) = Cardinality(p.sections)
      /\ IsFiniteSet(C) /\ Cardinality(C) = Tables(p)
  BY <1>2, TaggedIs DEF Finite
<1>4. A \cap B = {} /\ (A \cup B) \cap C = {}
  OBVIOUS
<1>5. /\ Cardinality(p.pages) \in Nat /\ Cardinality(p.sections) \in Nat
      /\ Tables(p) \in 0..2
  BY FramesType
<1> HIDE DEF A, B, C
<1>6. Cardinality({}) = 0
  BY FS_EmptySet
<1>7. IsFiniteSet(A \cup B)
      /\ Cardinality(A \cup B) = Cardinality(A) + Cardinality(B) - 0
  BY <1>3, <1>4, <1>6, FS_Union
<1>8. IsFiniteSet((A \cup B) \cup C)
      /\ Cardinality((A \cup B) \cup C) = Cardinality(A \cup B) + Cardinality(C) - 0
  BY <1>3, <1>4, <1>6, <1>7, FS_Union
<1> QED BY <1>1, <1>3, <1>5, <1>7, <1>8 DEF Frames

HeldOf(f) == UNION {{s} \X HeldBy(f[s]) : s \in Slots}

LEMMA HeldOfIs ==
  ASSUME NEW f
  PROVE  \A x : x \in HeldOf(f) <=>
                  \E s \in Slots : \E y \in HeldBy(f[s]) : x = << s, y >>
BY DEF HeldOf

LEMMA HeldOfFinite ==
  ASSUME NEW f \in [Slots -> Proc], \A s \in Slots : Finite(f[s])
  PROVE  IsFiniteSet(HeldOf(f))
<1> DEFINE g == [s \in Slots |-> {s} \X HeldBy(f[s])]
           T == {g[s] : s \in Slots}
<1>1. IsFiniteSet(Slots)
  BY Constants, FS_Interval DEF Slots
<1>2. g \in Surjection(Slots, T)
  BY DEF Surjection
<1>3. IsFiniteSet(T)
  BY <1>1, <1>2, FS_Surjection
<1>4. \A t \in T : IsFiniteSet(t)
  <2>1. ASSUME NEW s \in Slots
        PROVE  IsFiniteSet({s} \X HeldBy(f[s]))
    <3>1. IsFiniteSet(HeldBy(f[s]))
      BY HeldByIs
    <3> QED BY <3>1, TaggedIs
  <2> QED BY <2>1
<1>5. HeldOf(f) = UNION T
  BY DEF HeldOf
<1> QED BY <1>3, <1>4, <1>5, FS_UNION

\* When one slot changes, so does what is held, by as much.
LEMMA HeldChanges ==
  ASSUME NEW f \in [Slots -> Proc], \A s \in Slots : Finite(f[s]),
         NEW g \in [Slots -> Proc], \A s \in Slots : Finite(g[s]),
         NEW t \in Slots, \A s \in Slots \ {t} : g[s] = f[s]
  PROVE  /\ Cardinality(HeldOf(f)) \in Nat /\ Cardinality(HeldOf(g)) \in Nat
         /\ Frames(f[t]) \in Nat /\ Frames(g[t]) \in Nat
         /\ Frames(f[t]) <= Cardinality(HeldOf(f))
         /\ Cardinality(HeldOf(g)) + Frames(f[t])
              = Cardinality(HeldOf(f)) + Frames(g[t])
<1> DEFINE Rest(h) == {x \in HeldOf(h) : x[1] # t}
           Own(h) == {t} \X HeldBy(h[t])
<1>1. ASSUME NEW h \in [Slots -> Proc], \A s \in Slots : Finite(h[s])
      PROVE  /\ IsFiniteSet(Rest(h)) /\ Cardinality(Rest(h)) \in Nat
             /\ Frames(h[t]) \in Nat
             /\ Cardinality(HeldOf(h)) = Cardinality(Rest(h)) + Frames(h[t])
  <2>1. IsFiniteSet(HeldOf(h))
    BY <1>1, HeldOfFinite
  <2>2. IsFiniteSet(Rest(h)) /\ Cardinality(Rest(h)) \in Nat
    BY <2>1, FS_Subset, FS_CardinalityType
  <2>3. IsFiniteSet(Own(h)) /\ Cardinality(Own(h)) = Frames(h[t])
    BY <1>1, HeldByIs, TaggedIs
  <2>4. Frames(h[t]) \in Nat
    BY <1>1, FramesType
  <2>5. HeldOf(h) = Rest(h) \cup Own(h)
    <3>1. ASSUME NEW x \in HeldOf(h)
          PROVE  x \in Rest(h) \cup Own(h)
      <4>1. PICK s \in Slots : \E y \in HeldBy(h[s]) : x = << s, y >>
        BY <3>1, HeldOfIs
      <4>2. x[1] = s
        BY <4>1
      <4> QED BY <3>1, <4>1, <4>2
    <3>2. Own(h) \subseteq HeldOf(h)
      BY HeldOfIs
    <3> QED BY <3>1, <3>2
  <2>6. Rest(h) \cap Own(h) = {}
    OBVIOUS
  <2> HIDE DEF Rest, Own
  <2>7. Cardinality(Rest(h) \cup Own(h)) = Cardinality(Rest(h)) + Cardinality(Own(h)) - 0
    <3>1. Cardinality(Rest(h) \cap Own(h)) = 0
      BY <2>6, FS_EmptySet
    <3> QED BY <2>2, <2>3, <3>1, FS_Union
  <2> QED BY <2>2, <2>3, <2>4, <2>5, <2>7
<1>2. Rest(f) = Rest(g)
  <2>1. ASSUME NEW x
        PROVE  x \in Rest(f) <=> x \in Rest(g)
    <3>1. \A s, y : x = << s, y >> => x[1] = s
      OBVIOUS
    <3>2. x \in Rest(f) <=> \E s \in Slots \ {t} : \E y \in HeldBy(f[s]) : x = << s, y >>
      BY <3>1, HeldOfIs
    <3>3. x \in Rest(g) <=> \E s \in Slots \ {t} : \E y \in HeldBy(g[s]) : x = << s, y >>
      BY <3>1, HeldOfIs
    <3> QED BY <3>2, <3>3
  <2> QED BY <2>1
<1>3. /\ IsFiniteSet(Rest(f)) /\ Cardinality(Rest(f)) \in Nat
      /\ Frames(f[t]) \in Nat
      /\ Cardinality(HeldOf(f)) = Cardinality(Rest(f)) + Frames(f[t])
  BY <1>1
<1>4. /\ IsFiniteSet(Rest(g)) /\ Cardinality(Rest(g)) \in Nat
      /\ Frames(g[t]) \in Nat
      /\ Cardinality(HeldOf(g)) = Cardinality(Rest(g)) + Frames(g[t])
  BY <1>1
<1> HIDE DEF Rest
<1> QED BY <1>2, <1>3, <1>4

-----------------------------------------------------------------------------
(* The inductive invariant                                                 *)

\* Inductive: every slot is Good while nothing went wrong, those that no
\* process ever had are empty, and the frames add up.
Counted == NumFrames = free + numValid + Cardinality(HeldOf(slots))

IInv ==
  /\ slots \in [Slots -> Proc] /\ \A s \in Slots : Finite(slots[s])
  /\ numValid \in Slots
  /\ free \in Nat
  /\ status \in {"ok", "wild", "crashed"}
  /\ Counted
  /\ status = "ok" =>
       /\ \A s \in Slots : Good(slots[s])
       /\ \A s \in Slots : s > numValid => slots[s] = NoProcess

\* What OnlyWhenOutOfMemory says of a step.
Justified ==
  status' # "ok" =>
    \/ ProcessNew /\ free < NewTakes
    \/ \E s \in 1..numValid : LET p == slots[s] IN
         \/ ThreadNew(s) /\ \E i \in FreeThread(p) :
              \/ free < Takes(p, UserStack(i), StackPages) + 1
              \/ p.heapLimit > SvcStack(i)
         \/ \E n \in Amounts : GrowHeap(s, n) /\
              \/ free < Takes(p, p.heapLimit, n)
              \/ Span(p.heapLimit, n) \cap Stacks(p) # {}

\* Whatever a call made of slot s is stored.
LEMMA StoreKeeps ==
  ASSUME IInv, status = "ok", NEW s \in Slots, NEW r \in Memory, Finite(r.p),
         numValid' \in Slots, numValid <= numValid', s <= numValid',
         r.free + Frames(r.p) + numValid' = free + Frames(slots[s]) + numValid,
         r.status = "ok" => Good(r.p),
         Store(s, r)
  PROVE  IInv'
<1> USE Constants
<1>1. /\ slots \in [Slots -> Proc] /\ \A t \in Slots : Finite(slots[t])
      /\ numValid \in Nat /\ free \in Nat /\ numValid' \in Nat
  BY DEF IInv, Slots
<1>2. /\ r.p \in Proc /\ r.free \in Nat
      /\ r.status \in {"ok", "wild", "crashed"}
  BY DEF Memory
<1>3. /\ slots' = [slots EXCEPT ![s] = r.p] /\ free' = r.free
      /\ status' = r.status
  BY DEF Store
<1>4. /\ slots' \in [Slots -> Proc] /\ slots'[s] = r.p
      /\ \A t \in Slots \ {s} : slots'[t] = slots[t]
  BY <1>1, <1>2, <1>3
<1>5. \A t \in Slots : Finite(slots'[t])
  BY <1>1, <1>4
<1>6. /\ Cardinality(HeldOf(slots)) \in Nat /\ Cardinality(HeldOf(slots')) \in Nat
      /\ Frames(slots[s]) \in Nat /\ Frames(slots'[s]) \in Nat
      /\ Cardinality(HeldOf(slots')) + Frames(slots[s])
           = Cardinality(HeldOf(slots)) + Frames(slots'[s])
  BY <1>1, <1>4, <1>5, HeldChanges
<1>7. NumFrames = free + numValid + Cardinality(HeldOf(slots))
  BY DEF IInv, Counted
<1>8. NumFrames = free' + numValid' + Cardinality(HeldOf(slots'))
  BY <1>1, <1>2, <1>3, <1>4, <1>6, <1>7
<1>9. ASSUME status' = "ok"
      PROVE  /\ \A t \in Slots : Good(slots'[t])
             /\ \A t \in Slots : t > numValid' => slots'[t] = NoProcess
  <2>1. /\ \A t \in Slots : Good(slots[t])
        /\ \A t \in Slots : t > numValid => slots[t] = NoProcess
    BY DEF IInv
  <2>2. \A t \in Slots : t > numValid' => t > numValid /\ t # s
    BY <1>1 DEF Slots
  <2> QED BY <1>3, <1>4, <1>9, <2>1, <2>2
<1>10. Counted'
  BY <1>8 DEF Counted
<1> QED BY <1>2, <1>3, <1>4, <1>5, <1>9, <1>10 DEF IInv

LEMMA WithIs ==
  ASSUME NEW p \in Proc, NEW f \in Nat,
         NEW m, m = [p |-> p, free |-> f, ok |-> TRUE, status |-> "ok"]
  PROVE  /\ m \in Memory /\ m.p = p /\ m.free = f /\ m.ok /\ m.status = "ok"
BY DEF Memory

LEMMA NoProcessIs ==
  /\ NoProcess \in Proc /\ Finite(NoProcess) /\ Frames(NoProcess) = 0
  /\ Good(NoProcess) /\ ~NoProcess.pid /\ NoProcess.pages = {}
  /\ NoProcess.kernPt = NoProcess.pde /\ Dead(NoProcess)
<1> USE Constants
<1>1. HeapBase \in HeapBase..MemLimit /\ 0 \in 0..MaxThreads
  OBVIOUS
<1>2. /\ NoProcess \in Proc /\ ~NoProcess.pid /\ NoProcess.pages = {}
      /\ NoProcess.sections = {} /\ ~NoProcess.kernPt /\ ~NoProcess.pde
      /\ NoProcess.kernPt = NoProcess.pde /\ Dead(NoProcess)
  BY <1>1 DEF NoProcess, Proc, Dead
<1>3. Finite(NoProcess) /\ Frames(NoProcess) = 0
  BY <1>2, FS_EmptySet DEF Finite, Frames, Tables
<1> QED BY <1>2, <1>3, Zenon DEF Good

\* The pages of a process that has a thread, in terms of all its threads.
Living(p, q) == \E i \in Indexes : p.threads[i] # "EDead" /\ q \in Area(i)

LEMMA SettledIs ==
  ASSUME NEW p \in Proc
  PROVE  Settled(p) <=>
           /\ p.pde /\ p.kernPt
           /\ \A q : q \in p.pages <=> q \in Bss..(p.heapLimit - 1) \/ Living(p, q)
           /\ \A i \in Indexes : p.threads[i] # "EDead" =>
                i < p.numThreads /\ p.heapLimit <= SvcStack(i)
           /\ \A q \in p.pages : Section(q) \in p.sections
<1>1. ASSUME \A i \in Indexes : p.threads[i] # "EDead" => i < p.numThreads
      PROVE  \A q : q \in Stacks(p) <=> Living(p, q)
  <2>1. \A q : q \in Stacks(p) <=>
           \E i \in Indexes : /\ i < p.numThreads /\ p.threads[i] # "EDead"
                              /\ q \in Area(i)
    BY StacksAre
  <2> QED BY <1>1, <2>1 DEF Living
<1>2. p.pages = Bss..(p.heapLimit - 1) \cup Stacks(p) <=>
        \A q : q \in p.pages <=> q \in Bss..(p.heapLimit - 1) \/ q \in Stacks(p)
  BY Zenon
<1> QED BY <1>1, <1>2, Zenon DEF Settled

\* A process that has a thread is settled.
LEMMA LivingFacts ==
  ASSUME IInv, status = "ok", NEW s \in Slots, ~Dead(slots[s])
  PROVE  /\ slots[s] \in Proc /\ Finite(slots[s]) /\ Settled(slots[s])
         /\ slots[s].pid
BY DEF IInv, Good

-----------------------------------------------------------------------------
(* The steps                                                               *)

LEMMA ProcessNewReuseStep ==
  ASSUME IInv, status = "ok", ProcessNew, ProcessNewReuse
  PROVE  IInv' /\ Justified
<1> USE Constants
<1> DEFINE s == Min(Spare)
           m == With(slots[s])
           r == ProcessInit(m)
<1>1. Spare \in SUBSET Nat /\ Spare # {} /\ Spare \subseteq Slots
  BY DEF ProcessNewReuse, Spare, Slots, IInv
<1>2. s \in Spare
  BY <1>1, MinIs
<1>3. s \in Slots /\ s <= numValid /\ ~slots[s].pid
  BY <1>1, <1>2 DEF Spare
<1>4. Store(s, r) /\ numValid' = numValid
  BY DEF ProcessNewReuse
<1>m. m = [p |-> slots[s], free |-> free, ok |-> TRUE, status |-> "ok"]
  BY DEF With
<1>r. r = ProcessInit(m)
  OBVIOUS
<1> HIDE DEF s, m, r
<1>5. /\ slots[s] \in Proc /\ Good(slots[s]) /\ free \in Nat
      /\ numValid \in Slots
  BY <1>3 DEF IInv
<1>6. m \in Memory /\ m.p = slots[s] /\ m.free = free /\ m.status = "ok"
  BY <1>5, <1>m, WithIs
<1>7. /\ Finite(m.p) /\ m.p.kernPt = m.p.pde /\ m.p.pages = {} /\ Dead(m.p)
  BY <1>3, <1>5, <1>6 DEF Good
<1> DEFINE tables == IF slots[s].pde THEN 0 ELSE 2
<1>8. /\ Kept(m, r)
      /\ r.status = "ok" => Good(r.p)
      /\ r.status # "ok" => free < tables + 2 + StackPages + 2
  BY <1>6, <1>7, <1>r, ProcessInitReturns
<1>n. NewTakes = 0 + tables + 2 + StackPages + 2
  BY <1>1 DEF NewTakes, s
<1> HIDE DEF tables
<1>9. r \in Memory /\ Finite(r.p)
      /\ r.free + Frames(r.p) = free + Frames(slots[s])
  BY <1>6, <1>8 DEF Kept
<1>10. IInv'
  <2>1. numValid \in Nat /\ r.free + Frames(r.p) + numValid = free + Frames(slots[s]) + numValid
    BY <1>5, <1>9 DEF Slots
  <2>2. numValid' \in Slots /\ numValid <= numValid' /\ s <= numValid'
    BY <1>3, <1>4, <1>5, <2>1
  <2> QED BY <1>3, <1>4, <1>8, <1>9, <2>1, <2>2, StoreKeeps
<1>11. Justified
  <2>1. status' = r.status
    BY <1>4 DEF Store
  <2>2. tables \in 0..2
    BY DEF tables
  <2>3. status' # "ok" => free < NewTakes
    BY <1>5, <1>8, <1>n, <2>1, <2>2
  <2> QED BY <2>3, Zenon DEF Justified
<1> QED BY <1>10, <1>11

LEMMA ProcessNewPageStep ==
  ASSUME IInv, status = "ok", ProcessNew, ProcessNewPage
  PROVE  IInv' /\ Justified
<1> USE Constants
<1>a. numValid \in Slots /\ free \in Nat
  BY DEF IInv
<1>b. numValid < MaxProcesses
  BY DEF ProcessNewPage
<1>0. /\ numValid \in Slots /\ numValid \in Nat /\ free \in Nat
      /\ numValid + 1 \in Slots
  BY <1>a, <1>b DEF Slots
<1>n. NewTakes = 1 + 2 + 2 + StackPages + 2
  <2>1. Spare = {} /\ ~NoProcess.pde
    BY DEF ProcessNewPage, NoProcess
  <2> QED BY <2>1 DEF NewTakes
<1>1. CASE free = 0
  <2>1. status' = "crashed" /\ UNCHANGED << slots, free, numValid >>
    BY <1>1 DEF ProcessNewPage
  <2>2. IInv'
    BY <2>1 DEF IInv, Counted
  <2>3. free < NewTakes
    BY <1>1, <1>n
  <2> QED BY <2>2, <2>3, Zenon DEF Justified
<1>2. CASE free # 0
  <2> DEFINE s == numValid + 1
             m == [With(NoProcess) EXCEPT !.free = @ - 1]
             r == ProcessInit(m)
  <2>1. Store(s, r) /\ numValid' = numValid + 1
    BY <1>2 DEF ProcessNewPage
  <2>m. m = [p |-> NoProcess, free |-> free - 1, ok |-> TRUE, status |-> "ok"]
    <3>1. ASSUME NEW o, NEW t
          PROVE  [[p |-> NoProcess, free |-> free, ok |-> o, status |-> t]
                    EXCEPT !.free = free - 1]
                 = [p |-> NoProcess, free |-> free - 1, ok |-> o, status |-> t]
      OBVIOUS
    <3>2. /\ With(NoProcess).free = free
          /\ With(NoProcess)
               = [p |-> NoProcess, free |-> free, ok |-> TRUE, status |-> "ok"]
      BY DEF With
    <3>3. m = [With(NoProcess) EXCEPT !.free = free - 1]
      BY <3>2
    <3> HIDE DEF m
    <3> QED BY <3>1, <3>2, <3>3, Zenon
  <2>r. r = ProcessInit(m)
    OBVIOUS
  <2> HIDE DEF m, r
  <2>2. free - 1 \in Nat
    BY <1>0, <1>2
  <2>3. m \in Memory /\ m.p = NoProcess /\ m.free = free - 1 /\ m.status = "ok"
    BY <2>2, <2>m, NoProcessIs, WithIs
  <2>4. /\ Kept(m, r)
        /\ r.status = "ok" => Good(r.p)
        /\ r.status # "ok" => free - 1 < 2 + 2 + StackPages + 2
    <3>1. 2 = IF m.p.pde THEN 0 ELSE 2
      BY <2>3 DEF NoProcess
    <3> QED BY <2>3, <2>r, <3>1, NoProcessIs, ProcessInitReturns
  <2>5. r \in Memory /\ Finite(r.p) /\ r.free + Frames(r.p) = free - 1
    BY <2>2, <2>3, <2>4, NoProcessIs DEF Kept
  <2>6. slots[s] = NoProcess
    <3>1. s > numValid
      BY <1>0
    <3> QED BY <1>0, <3>1 DEF IInv
  <2>7. IInv'
    <3>1. r.free + Frames(r.p) + numValid' = free + Frames(slots[s]) + numValid
      BY <1>0, <2>1, <2>5, <2>6, NoProcessIs
    <3>2. numValid' \in Slots /\ numValid <= numValid' /\ s <= numValid' /\ s \in Slots
      BY <1>0, <2>1
    <3> QED BY <2>1, <2>4, <2>5, <3>1, <3>2, StoreKeeps
  <2>8. Justified
    <3>1. status' = r.status
      BY <2>1 DEF Store
    <3>2. status' # "ok" => free < NewTakes
      BY <1>0, <1>n, <2>4, <3>1
    <3> QED BY <3>2, Zenon DEF Justified
  <2> QED BY <2>7, <2>8
<1> QED BY <1>1, <1>2

LEMMA ProcessNewBadNameStep ==
  ASSUME IInv, status = "ok", ProcessNew, ProcessNewBadName
  PROVE  IInv' /\ Justified
<1> USE Constants
<1> DEFINE s == numValid + 1
<1>0. /\ numValid \in Slots /\ numValid \in Nat /\ free \in Nat /\ free > 0
      /\ s \in Slots /\ slots \in [Slots -> Proc]
  <2>1. /\ numValid \in Slots /\ numValid < MaxProcesses /\ free > 0
        /\ free \in Nat /\ slots \in [Slots -> Proc]
    BY DEF IInv, ProcessNewBadName
  <2> QED BY <2>1 DEF Slots
<1>1. PICK old \in BOOLEAN : slots' = [slots EXCEPT ![s].pid = old]
  BY DEF ProcessNewBadName
<1>2. numValid' = s /\ free' = free - 1 /\ status' = "ok"
  BY DEF ProcessNewBadName
<1>3. slots[s] = NoProcess
  <2>1. s > numValid
    BY <1>0
  <2> QED BY <1>0, <2>1 DEF IInv
<1> HIDE DEF s
<1> DEFINE q == [NoProcess EXCEPT !.pid = old]
           r == [p |-> q, free |-> free - 1, ok |-> TRUE, status |-> "ok"]
<1>4. /\ q \in Proc /\ q.pages = {} /\ q.sections = {}
      /\ q.pde = NoProcess.pde /\ q.kernPt = NoProcess.kernPt
      /\ q.threads = NoProcess.threads
  BY NoProcessIs DEF Proc, NoProcess
<1>5. Good(q) /\ Frames(q) = 0 /\ Finite(q)
  <2>1. Finite(q) /\ Frames(q) = 0
    <3>1. ~q.pde /\ ~q.kernPt
      BY <1>4 DEF NoProcess
    <3> HIDE DEF q
    <3> QED BY <1>4, <3>1, FS_EmptySet DEF Finite, Frames, Tables
  <2>2. Dead(q)
    BY <1>4, NoProcessIs DEF Dead
  <2>3. q.kernPt = q.pde
    BY <1>4, NoProcessIs
  <2> HIDE DEF q
  <2> QED BY <1>4, <2>1, <2>2, <2>3 DEF Good
<1>6. slots' = [slots EXCEPT ![s] = q]
  BY <1>0, <1>1, <1>3
<1>r. r = [p |-> q, free |-> free - 1, ok |-> TRUE, status |-> "ok"]
  OBVIOUS
<1> HIDE DEF q, r
<1>7. r \in Memory /\ r.p = q /\ r.free = free - 1 /\ r.status = "ok"
  BY <1>0, <1>4, <1>r, WithIs
<1>8. Store(s, r)
  BY <1>2, <1>6, <1>7 DEF Store
<1>9. IInv'
  <2>1. r.free + Frames(r.p) + numValid' = free + Frames(slots[s]) + numValid
    BY <1>0, <1>2, <1>3, <1>5, <1>7, NoProcessIs DEF s
  <2>2. numValid' \in Slots /\ numValid <= numValid' /\ s <= numValid'
    BY <1>0, <1>2 DEF s
  <2> QED BY <1>0, <1>5, <1>7, <1>8, <2>1, <2>2, StoreKeeps
<1> QED BY <1>2, <1>9 DEF Justified

LEMMA AliveIs ==
  ASSUME NEW s \in Slots, Alive(s)
  PROVE  ~Dead(slots[s])
BY DEF Alive, Dead

LEMMA GoodIf ==
  ASSUME NEW p \in Proc, Finite(p), p.pid, ~Dead(p), Settled(p)
  PROVE  Good(p)
BY DEF Good

\* Storing a call on slot s that made no new Process page.
LEMMA CallKeeps ==
  ASSUME IInv, status = "ok", NEW s \in 1..numValid,
         NEW m \in Memory, Finite(m.p), m.free = free,
         Frames(m.p) = Frames(slots[s]),
         NEW r, Kept(m, r), r.status = "ok" => Good(r.p),
         Store(s, r), numValid' = numValid
  PROVE  IInv' /\ status' = r.status
<1>1. numValid \in Slots /\ numValid \in Nat /\ s \in Slots /\ s <= numValid
      /\ slots \in [Slots -> Proc] /\ \A t \in Slots : Finite(slots[t])
      /\ free \in Nat
  BY Constants DEF IInv, Slots
<1>2. r \in Memory /\ Finite(r.p) /\ r.free \in Nat
      /\ r.free + Frames(r.p) = free + Frames(slots[s])
  BY DEF Kept, Memory
<1>3. Frames(r.p) \in Nat /\ Frames(slots[s]) \in Nat
  <2>1. r.p \in Proc
    BY <1>2 DEF Memory
  <2> QED BY <1>1, <1>2, <2>1, FramesType
<1>4. r.free + Frames(r.p) + numValid' = free + Frames(slots[s]) + numValid
  BY <1>1, <1>2, <1>3
<1>5. numValid' \in Slots /\ numValid <= numValid' /\ s <= numValid'
  BY <1>1
<1>6. IInv'
  BY <1>1, <1>2, <1>4, <1>5, StoreKeeps
<1> QED BY <1>6 DEF Store

\* The thread that thread_new takes is dead and in the table.
LEMMA FreeThreadIs ==
  ASSUME NEW p \in Proc, Settled(p), NEW i \in FreeThread(p)
  PROVE  i \in Indexes /\ p.threads[i] = "EDead"
         /\ i <= p.numThreads /\ (i = p.numThreads => i < MaxThreads)
<1> USE Constants
<1> DEFINE dead == {j \in Indexes : j < p.numThreads /\ p.threads[j] = "EDead"}
<1>1. p.numThreads \in 0..MaxThreads
  BY DEF Proc
<1>2. CASE dead # {}
  <2>1. i = Min(dead)
    BY <1>2 DEF FreeThread
  <2>2. dead \in SUBSET Nat
    BY DEF Indexes
  <2>3. Min(dead) \in dead
    BY <1>2, <2>2, MinIs
  <2>4. i \in dead
    BY <2>1, <2>3
  <2> QED BY <1>1, <2>4 DEF Indexes
<1>3. CASE dead = {}
  <2>1. i = p.numThreads /\ p.numThreads < MaxThreads
    BY <1>3 DEF FreeThread
  <2>2. i \in Indexes
    BY <1>1, <2>1 DEF Indexes
  <2>3. ~(i < p.numThreads)
    BY <1>1, <2>1
  <2>4. \A j \in Indexes : p.threads[j] # "EDead" => j < p.numThreads
    BY DEF Settled
  <2> QED BY <1>1, <2>1, <2>2, <2>3, <2>4
<1> QED BY <1>2, <1>3

LEMMA ThreadNewStep ==
  ASSUME IInv, status = "ok", NEW s \in 1..numValid, ThreadNew(s)
  PROVE  IInv' /\ Justified
<1> USE Constants
<1> DEFINE p == slots[s]
<1>0. s \in Slots /\ free \in Nat
  BY DEF IInv, Slots
<1>1. ~Dead(p)
  BY <1>0, AliveIs DEF ThreadNew
<1>2. p \in Proc /\ Finite(p) /\ Settled(p) /\ p.pid
  BY <1>0, <1>1, LivingFacts
<1>3. PICK i \in FreeThread(p) :
        Store(s, ThreadInit(
          With([p EXCEPT !.numThreads = IF i = @ THEN @ + 1 ELSE @]), i))
  BY DEF ThreadNew
<1>4. numValid' = numValid
  BY DEF ThreadNew
<1> DEFINE nt == IF i = p.numThreads THEN p.numThreads + 1 ELSE p.numThreads
           q == [p EXCEPT !.numThreads = nt]
           m == With(q)
           r == ThreadInit(m, i)
<1>5. Store(s, r)
  BY <1>3
<1>p. p = slots[s]
  OBVIOUS
<1> HIDE DEF p
<1>6. /\ i \in Indexes /\ p.threads[i] = "EDead" /\ i <= p.numThreads
      /\ i = p.numThreads => i < MaxThreads
  BY <1>2, FreeThreadIs
<1>7. /\ nt \in 0..MaxThreads /\ i < nt /\ p.numThreads <= nt
      /\ p.numThreads \in Nat
  BY <1>2, <1>6 DEF Proc, Indexes
<1>m. m = [p |-> q, free |-> free, ok |-> TRUE, status |-> "ok"]
  BY DEF With
<1>r. r = ThreadInit(m, i)
  OBVIOUS
<1> HIDE DEF nt, m, r
<1>8. /\ q \in Proc /\ q.numThreads = nt
      /\ q.pid = p.pid /\ q.pde = p.pde /\ q.kernPt = p.kernPt
      /\ q.sections = p.sections /\ q.pages = p.pages
      /\ q.heapLimit = p.heapLimit /\ q.threads = p.threads
  BY <1>2, <1>7 DEF Proc
<1> HIDE DEF q
<1>9. m \in Memory /\ m.p = q /\ m.free = free /\ m.status = "ok"
  BY <1>0, <1>8, <1>m, WithIs
<1>10. Finite(m.p) /\ Frames(m.p) = Frames(slots[s])
  BY <1>p, <1>2, <1>8, <1>9 DEF Finite, Frames, Tables
<1>11. /\ p.pde /\ p.kernPt
       /\ \A x : x \in p.pages <=> x \in Bss..(p.heapLimit - 1) \/ Living(p, x)
       /\ \A j \in Indexes : p.threads[j] # "EDead" =>
            j < p.numThreads /\ p.heapLimit <= SvcStack(j)
       /\ \A x \in p.pages : Section(x) \in p.sections
  BY <1>2, SettledIs
<1>h. p.heapLimit \in HeapBase..MemLimit /\ p.heapLimit \in Nat
  BY <1>2 DEF Proc
<1>i. /\ i \in Nat /\ SvcStack(i) \in Nat /\ StacksBase <= SvcStack(i)
      /\ UserStack(i) \in Nat
      /\ SvcStack(i) \in Area(i)
  <2>1. i \in Nat
    BY <1>6 DEF Indexes
  <2>2. SvcStack(i) \in Nat /\ StacksBase <= SvcStack(i) /\ UserStack(i) = SvcStack(i) + 2
    BY <2>1, AreaIs
  <2>3. SvcStack(i) \in Area(i)
    BY DEF Area
  <2> QED BY <2>1, <2>2, <2>3
<1>12. ASSUME p.heapLimit <= SvcStack(i)
       PROVE  Area(i) \cap m.p.pages = {}
  <2>1. ASSUME NEW x \in Area(i), x \in Bss..(p.heapLimit - 1)
        PROVE  FALSE
    <3>1. SvcStack(i) <= x /\ x \in Nat
      BY <1>i, <2>1, AreaIs
    <3> QED BY <1>12, <1>h, <1>i, <2>1, <3>1
  <2>2. ASSUME NEW x \in Area(i), Living(p, x)
        PROVE  FALSE
    <3>1. PICK j \in Indexes : p.threads[j] # "EDead" /\ x \in Area(j)
      BY <2>2 DEF Living
    <3>2. j # i /\ i \in Nat /\ j \in Nat
      BY <1>6, <3>1 DEF Indexes
    <3> QED BY <2>2, <3>1, <3>2, AreasApart
  <2> QED BY <1>8, <1>9, <1>11, <2>1, <2>2
<1> DEFINE takes == Takes(p, UserStack(i), StackPages)
<1>13. /\ Kept(m, r) /\ m.p.sections \subseteq r.p.sections
       /\ Threaded(m.p, r.p, i, IF r.ok THEN "EReady" ELSE "EDead")
       /\ r.ok => /\ r.status = "ok" /\ StackPages < m.free
                  /\ r.p.pages = m.p.pages \cup Area(i)
                  /\ \A x \in Area(i) : Section(x) \in r.p.sections
                  /\ Area(i) \cap m.p.pages = {}
       /\ ~r.ok /\ r.status = "ok" => r.p.pages = m.p.pages
       /\ ~r.ok => free < takes + 1 \/ p.heapLimit > SvcStack(i)
  <2> DEFINE c == Cardinality(Missing(m.p, UserStack(i), StackPages))
  <2>1. c \in Nat /\ takes = StackPages + c
    <3>1. Missing(m.p, UserStack(i), StackPages)
            = Missing(p, UserStack(i), StackPages)
      BY <1>8, <1>9 DEF Missing
    <3>2. c \in Nat
      BY <1>i, MissingIs, FS_CardinalityType
    <3> QED BY <3>1, <3>2 DEF Takes, Missing
  <2>2. /\ Kept(m, r) /\ m.p.sections \subseteq r.p.sections
        /\ Threaded(m.p, r.p, i, IF r.ok THEN "EReady" ELSE "EDead")
        /\ r.ok => /\ r.status = "ok" /\ StackPages < m.free
                   /\ r.p.pages = m.p.pages \cup Area(i)
                   /\ \A x \in Area(i) : Section(x) \in r.p.sections
                   /\ Area(i) \cap m.p.pages = {}
        /\ ~r.ok /\ r.status = "ok" => r.p.pages = m.p.pages
        /\ ~r.ok => m.free < StackPages + 1 + c \/ Area(i) \cap m.p.pages # {}
    BY <1>r, <1>6, <1>9, <1>10, ThreadInitReturns
  <2> HIDE DEF c, takes
  <2>3. ~r.ok => free < takes + 1 \/ p.heapLimit > SvcStack(i)
    <3>1. ASSUME ~(p.heapLimit > SvcStack(i))
          PROVE  Area(i) \cap m.p.pages = {}
      BY <1>12, <1>h, <1>i, <3>1
    <3> QED BY <1>0, <1>9, <2>1, <2>2, <3>1
  <2> QED BY <2>2, <2>3
<1>14. r.p \in Proc /\ Finite(r.p)
  BY <1>13 DEF Kept, Memory
<1>15. /\ r.p.pid /\ r.p.pde /\ r.p.kernPt
       /\ r.p.heapLimit = p.heapLimit /\ r.p.numThreads = nt
       /\ \A j \in Indexes \ {i} : r.p.threads[j] = p.threads[j]
       /\ r.p.threads[i] = IF r.ok THEN "EReady" ELSE "EDead"
  <2>1. p.threads \in [Indexes -> {"EReady", "EDying", "EDead"}]
    BY <1>2 DEF Proc
  <2>2. r.p.threads = [p.threads EXCEPT ![i] = IF r.ok THEN "EReady" ELSE "EDead"]
    BY <1>8, <1>9, <1>13 DEF Threaded
  <2> QED BY <1>2, <1>6, <1>8, <1>9, <1>11, <1>13, <2>1, <2>2 DEF Threaded
<1>16. ~Dead(r.p)
  <2>1. PICK j \in Indexes : p.threads[j] # "EDead"
    BY <1>p, <1>1 DEF Dead
  <2>2. j # i
    BY <1>6, <2>1
  <2> QED BY <1>15, <2>1, <2>2 DEF Dead
<1>17. \A j \in Indexes : r.p.threads[j] # "EDead" =>
         j < r.p.numThreads /\ r.p.heapLimit <= SvcStack(j)
  <2> SUFFICES ASSUME NEW j \in Indexes, r.p.threads[j] # "EDead"
               PROVE  j < nt /\ p.heapLimit <= SvcStack(j)
    BY <1>15
  <2>1. CASE j = i
    <3>1. r.ok
      BY <1>15, <2>1
    <3>2. SvcStack(i) \notin p.pages
      BY <1>8, <1>9, <1>13, <1>i, <3>1
    <3>3. SvcStack(i) \notin Bss..(p.heapLimit - 1)
      BY <1>11, <3>2
    <3>4. p.heapLimit <= SvcStack(i)
      BY <1>h, <1>i, <3>3
    <3> QED BY <1>7, <2>1, <3>4
  <2>2. CASE j # i
    <3>1. j < p.numThreads /\ j \in Nat /\ p.heapLimit <= SvcStack(j)
      BY <1>11, <1>15, <2>2 DEF Indexes
    <3>2. nt \in Nat
      BY <1>7
    <3> QED BY <1>7, <3>1, <3>2
  <2> QED BY <2>1, <2>2
<1>18. CASE r.ok
  <2>1. \A x : Living(r.p, x) <=> Living(p, x) \/ x \in Area(i)
    <3>1. r.p.threads[i] # "EDead"
      BY <1>15, <1>18
    <3> QED BY <1>6, <1>15, <3>1 DEF Living
  <2>2. \A x : x \in r.p.pages <=> x \in Bss..(r.p.heapLimit - 1) \/ Living(r.p, x)
    <3>1. \A x : x \in r.p.pages <=> x \in p.pages \/ x \in Area(i)
      BY <1>8, <1>9, <1>13, <1>18
    <3> QED BY <1>11, <1>15, <2>1, <3>1
  <2>3. \A x \in r.p.pages : Section(x) \in r.p.sections
    BY <1>8, <1>9, <1>11, <1>13, <1>18
  <2>4. Settled(r.p)
    BY <1>14, <1>15, <1>17, <2>2, <2>3, SettledIs
  <2>5. Good(r.p)
    BY <1>14, <1>15, <1>16, <2>4, GoodIf
  <2> QED BY <1>p, <1>4, <1>5, <1>9, <1>10, <1>13, <1>18, <2>5, CallKeeps DEF Justified
<1>19. CASE ~r.ok
  <2>1. ASSUME r.status = "ok"
        PROVE  Good(r.p)
    <3>1. \A x : Living(r.p, x) <=> Living(p, x)
      <4>1. r.p.threads[i] = "EDead"
        BY <1>15, <1>19
      <4> QED BY <1>6, <1>15, <4>1 DEF Living
    <3>2. r.p.pages = p.pages
      BY <1>8, <1>9, <1>13, <1>19, <2>1
    <3>3. \A x \in r.p.pages : Section(x) \in r.p.sections
      BY <1>8, <1>9, <1>11, <1>13, <3>2
    <3>4. \A x : x \in r.p.pages <=> x \in Bss..(r.p.heapLimit - 1) \/ Living(r.p, x)
      BY <1>11, <1>15, <3>1, <3>2
    <3>5. Settled(r.p)
      BY <1>14, <1>15, <1>17, <3>3, <3>4, SettledIs
    <3> QED BY <1>14, <1>15, <1>16, <3>5, GoodIf
  <2>2. IInv'
    BY <1>p, <1>4, <1>5, <1>9, <1>10, <1>13, <2>1, CallKeeps
  <2>3. free < takes + 1 \/ p.heapLimit > SvcStack(i)
    BY <1>13, <1>19
  <2>4. i \in FreeThread(p)
    BY <1>3
  <2> QED BY <1>p, <2>2, <2>3, <2>4 DEF Justified
<1> QED BY <1>18, <1>19

\* A page that does not start a section is in that of the page before it.
LEMMA SectionBefore ==
  ASSUME NEW q \in Nat \ {0}, PteIdx(q) # 0
  PROVE  Section(q - 1) = Section(q)
<1> DEFINE k == Section(q)
           r == PteIdx(q) - 1
           x == q - 1
<1>1. k \in Nat /\ PteIdx(q) \in 0..(SectPages - 1)
      /\ q = SectPages * k + PteIdx(q)
  BY Sectioned
<1>2. r \in Nat /\ r < SectPages /\ x \in Nat
  BY <1>1, Constants
<1>3. SectPages * k \in Nat
  BY <1>1, Constants, Z3
<1>4. x = SectPages * k + r
  BY <1>1, <1>3
<1> HIDE DEF k, r, x
<1>5. Section(x) = k
  BY <1>1, <1>2, <1>4, SectionIs, Zenon
<1> QED BY <1>5 DEF k, x

\* process_grow_heap with a positive increment, one amount.
LEMMA GrowHeapStep ==
  ASSUME IInv, status = "ok", NEW s \in 1..numValid, NEW n \in Amounts,
         GrowHeap(s, n)
  PROVE  IInv' /\ Justified
<1> USE Constants
<1> DEFINE p == slots[s]
           w == With(p)
<1>0. s \in Slots /\ free \in Nat
  BY DEF IInv, Slots
<1>1. ~Dead(p)
  BY <1>0, AliveIs DEF GrowHeap
<1>2. p \in Proc /\ Finite(p) /\ Settled(p) /\ p.pid
  BY <1>0, <1>1, LivingFacts
<1>3.   LET m == MapPages(w, p.heapLimit, n) IN
        Store(s, IF m.ok THEN [m EXCEPT !.p.heapLimit = @ + n] ELSE m)
  BY DEF GrowHeap
<1>4. numValid' = numValid
  BY DEF GrowHeap
<1> DEFINE m == MapPages(w, p.heapLimit, n)
           r == IF m.ok THEN [m EXCEPT !.p.heapLimit = @ + n] ELSE m
<1>5. Store(s, r)
  BY <1>3
<1>p. p = slots[s]
  OBVIOUS
<1>w. w = [p |-> p, free |-> free, ok |-> TRUE, status |-> "ok"]
  BY DEF With
<1>m. m = MapPages(w, p.heapLimit, n)
  OBVIOUS
<1>r. r = IF m.ok THEN [m EXCEPT !.p.heapLimit = @ + n] ELSE m
  OBVIOUS
<1> HIDE DEF p, w, m, r
<1>6. n \in Nat \ {0}
  BY ProcessMemoryAssumption
<1>7. w \in Memory /\ w.p = p /\ w.free = free /\ w.status = "ok"
  BY <1>0, <1>2, <1>w, WithIs
<1>8. p.heapLimit \in HeapBase..MemLimit /\ p.heapLimit \in Nat
  BY <1>2 DEF Proc
<1>9. /\ p.pde /\ p.kernPt
      /\ \A x : x \in p.pages <=> x \in Bss..(p.heapLimit - 1) \/ Living(p, x)
      /\ \A j \in Indexes : p.threads[j] # "EDead" =>
           j < p.numThreads /\ p.heapLimit <= SvcStack(j)
      /\ \A x \in p.pages : Section(x) \in p.sections
  BY <1>2, SettledIs
<1>s. \A x : x \in Stacks(p) <=> Living(p, x)
  <2>1. \A x : x \in Stacks(p) <=>
           \E j \in Indexes : /\ j < p.numThreads /\ p.threads[j] # "EDead"
                              /\ x \in Area(j)
    BY <1>2, StacksAre
  <2> QED BY <1>9, <2>1 DEF Living
<1>l. PICK j0 \in Indexes : p.threads[j0] # "EDead"
  BY <1>1, <1>p DEF Dead
\* Where a heap meets other pages or the end of memory it meets a stack.
<1>10. \/ Span(p.heapLimit, n) \cap p.pages # {}
       \/ p.heapLimit + n > MemLimit
       => Span(p.heapLimit, n) \cap Stacks(p) # {}
  <2>0. \A x \in Nat : x \in Span(p.heapLimit, n)
                       <=> p.heapLimit <= x /\ x < p.heapLimit + n
    BY <1>6, <1>8, SpanIs
  <2>1. ASSUME NEW x \in Span(p.heapLimit, n), x \in p.pages
        PROVE  x \in Stacks(p)
    <3>1. x \in Nat /\ p.heapLimit <= x
      BY <1>6, <1>8, SpanIs
    <3>2. x \notin Bss..(p.heapLimit - 1)
      BY <1>8, <3>1
    <3> QED BY <1>9, <1>s, <2>1, <3>2
  <2>2. ASSUME p.heapLimit + n > MemLimit
        PROVE  Span(p.heapLimit, n) \cap Stacks(p) # {}
    <3>1. j0 \in Nat /\ SvcStack(j0) \in Nat /\ SvcStack(j0) + AreaPages <= MemLimit
      BY AreaBelow
    <3>2. p.heapLimit <= SvcStack(j0)
      BY <1>9, <1>l
    <3>3. SvcStack(j0) \in Span(p.heapLimit, n)
      BY <1>6, <1>8, <2>0, <2>2, <3>1, <3>2
    <3>4. SvcStack(j0) \in Stacks(p)
      BY <1>l, <1>s DEF Living, Area
    <3> QED BY <3>3, <3>4
  <2> QED BY <2>1, <2>2
<1> DEFINE missing == Cardinality(Missing(p, p.heapLimit, n))
<1>11. /\ Kept(w, m) /\ SameBut(p, m.p)
       /\ p.sections \subseteq m.p.sections
       /\ m.ok =>
            /\ m.status = "ok"
            /\ m.free = free - missing - n
            /\ m.p.pages = p.pages \cup Span(p.heapLimit, n)
            /\ \A x \in Span(p.heapLimit, n) : Section(x) \in m.p.sections
            /\ p.heapLimit + n <= MemLimit
            /\ Span(p.heapLimit, n) \cap p.pages = {}
       /\ ~m.ok /\ m.status = "ok" => m.p.pages = p.pages
       /\ ~m.ok => \/ free < n + missing
                   \/ Span(p.heapLimit, n) \cap p.pages # {}
                   \/ p.heapLimit + n > MemLimit
  <2>1. Finite(w.p)
    BY <1>2, <1>7
  <2> QED BY <1>m, <1>6, <1>7, <1>8, <2>1, MapPagesReturns
<1>12. missing \in Nat /\ Takes(p, p.heapLimit, n) = n + missing
  <2>1. missing \in Nat
    BY <1>6, <1>8, MissingIs, FS_CardinalityType
  <2> QED BY <2>1 DEF Takes, Missing
<1> HIDE DEF missing
<1>13. /\ m \in Memory /\ m.p \in Proc /\ Finite(m.p) /\ m.free \in Nat
       /\ m.free + Frames(m.p) = free + Frames(p)
  BY <1>7, <1>11 DEF Kept, Memory
<1>14. Finite(w.p) /\ Frames(w.p) = Frames(slots[s])
  BY <1>2, <1>7, <1>p
<1>15. /\ m.p.pid /\ m.p.pde /\ m.p.kernPt /\ m.p.heapLimit = p.heapLimit
       /\ m.p.numThreads = p.numThreads /\ m.p.threads = p.threads
  BY <1>2, <1>9, <1>11 DEF SameBut
<1>16. CASE m.ok
  <2> DEFINE q == [m.p EXCEPT !.heapLimit = @ + n]
             lim == p.heapLimit + n
  <2>1. r = [m EXCEPT !.p.heapLimit = @ + n]
    BY <1>r, <1>16
  <2>2. lim \in HeapBase..MemLimit
    BY <1>6, <1>8, <1>11, <1>16
  <2>3. /\ q \in Proc /\ q.heapLimit = lim
        /\ q.pid = m.p.pid /\ q.pde = m.p.pde /\ q.kernPt = m.p.kernPt
        /\ q.sections = m.p.sections /\ q.pages = m.p.pages
        /\ q.threads = m.p.threads /\ q.numThreads = m.p.numThreads
    BY <1>13, <1>15, <2>2 DEF Proc
  <2>4. /\ r.p = q /\ r.free = m.free /\ r.status = m.status /\ r.ok = m.ok
        /\ r = [p |-> r.p, free |-> r.free, ok |-> r.ok, status |-> r.status]
    BY <1>13, <2>1 DEF Memory
  <2> HIDE DEF q, lim
  <2>5. r \in Memory
    BY <1>13, <2>3, <2>4 DEF Memory
  <2>6. Finite(q) /\ Frames(q) = Frames(m.p)
    BY <1>13, <2>3 DEF Finite, Frames, Tables
  <2>7. Kept(w, r)
    BY <1>7, <1>13, <2>4, <2>5, <2>6 DEF Kept
  <2>8. \A x : Living(q, x) <=> Living(p, x)
    BY <1>15, <2>3 DEF Living
  <2>9. \A x : x \in q.pages <=> x \in Bss..(q.heapLimit - 1) \/ Living(q, x)
    <3>1. \A x : x \in Bss..(q.heapLimit - 1) <=>
                   x \in Bss..(p.heapLimit - 1) \/ x \in Span(p.heapLimit, n)
      BY <1>6, <1>8, <2>3 DEF Span, lim
    <3>2. \A x : x \in q.pages <=> x \in p.pages \/ x \in Span(p.heapLimit, n)
      BY <1>11, <1>16, <2>3
    <3> QED BY <1>9, <2>8, <3>1, <3>2, Zenon
  <2>10. \A x \in q.pages : Section(x) \in q.sections
    BY <1>9, <1>11, <1>16, <2>3
  <2>11. \A j \in Indexes : q.threads[j] # "EDead" =>
           j < q.numThreads /\ q.heapLimit <= SvcStack(j)
    <3> SUFFICES ASSUME NEW j \in Indexes, p.threads[j] # "EDead"
                 PROVE  lim <= SvcStack(j)
      BY <1>9, <1>15, <2>3
    <3>1. p.heapLimit <= SvcStack(j) /\ SvcStack(j) \in Nat
      BY <1>9, AreaBelow
    <3>2. SvcStack(j) \in p.pages
      BY <1>9 DEF Living, Area
    <3>3. SvcStack(j) \notin Span(p.heapLimit, n)
      BY <1>11, <1>16, <3>2
    <3>4. ~(SvcStack(j) < p.heapLimit + n)
      BY <1>6, <1>8, <3>1, <3>3, SpanIs
    <3> QED BY <1>6, <1>8, <3>1, <3>4 DEF lim
  <2>12. Settled(q)
    BY <1>15, <2>3, <2>9, <2>10, <2>11, SettledIs
  <2>13. Good(q)
    <3>1. ~Dead(q)
      BY <1>1, <1>15, <2>3 DEF p, Dead
    <3> QED BY <1>15, <2>3, <2>6, <2>12, <3>1, GoodIf
  <2>14. IInv' /\ status' = r.status
    BY <1>4, <1>5, <1>7, <1>14, <2>4, <2>7, <2>13, CallKeeps
  <2> QED BY <1>11, <1>16, <2>4, <2>14 DEF Justified
<1>17. CASE ~m.ok
  <2>1. r = m
    BY <1>r, <1>17
  <2>2. ASSUME r.status = "ok"
        PROVE  Good(r.p)
    <3>1. m.p.pages = p.pages
      BY <1>11, <1>17, <2>1, <2>2
    <3>2. \A x : Living(m.p, x) <=> Living(p, x)
      BY <1>15 DEF Living
    <3>3. Settled(m.p)
      BY <1>9, <1>11, <1>13, <1>15, <3>1, <3>2, SettledIs
    <3>4. ~Dead(m.p)
      BY <1>1, <1>15 DEF p, Dead
    <3> QED BY <1>13, <1>15, <2>1, <3>3, <3>4, GoodIf
  <2>3. IInv'
    BY <1>4, <1>5, <1>7, <1>11, <1>14, <2>1, <2>2, CallKeeps
  <2>4. \/ free < Takes(p, p.heapLimit, n)
        \/ Span(p.heapLimit, n) \cap Stacks(p) # {}
    BY <1>10, <1>11, <1>12, <1>17
  <2> QED BY <1>p, <2>3, <2>4 DEF Justified
<1> QED BY <1>16, <1>17

LEMMA MaxOfTwo ==
  ASSUME NEW a \in Int, NEW b \in Int
  PROVE  Max({a, b}) = IF a >= b THEN a ELSE b
<1> DEFINE c == IF a >= b THEN a ELSE b
<1>1. c \in {a, b} /\ \A y \in {a, b} : c >= y
  OBVIOUS
<1>2. \A x \in {a, b} : (\A y \in {a, b} : x >= y) => x = c
  OBVIOUS
<1> HIDE DEF c
<1>3. Max({a, b}) = c
  BY <1>1, <1>2, Zenon DEF Max
<1> QED BY <1>3 DEF c

LEMMA ShrinkHeapStep ==
  ASSUME IInv, status = "ok", NEW s \in 1..numValid, ShrinkHeap(s)
  PROVE  IInv' /\ Justified
<1> USE Constants
<1> DEFINE p == slots[s]
<1>0. s \in Slots /\ free \in Nat
  BY DEF IInv, Slots
<1>1. ~Dead(p)
  BY <1>0, AliveIs DEF ShrinkHeap
<1>2. p \in Proc /\ Finite(p) /\ Settled(p) /\ p.pid
  BY <1>0, <1>1, LivingFacts
<1>3. PICK n \in Amounts :
        LET limit == Max({p.heapLimit - n, HeapBase}) IN
        Store(s, UnmapPages(With([p EXCEPT !.heapLimit = limit]),
                            limit, p.heapLimit - limit))
  BY DEF ShrinkHeap
<1>4. numValid' = numValid
  BY DEF ShrinkHeap
<1> DEFINE limit == Max({p.heapLimit - n, HeapBase})
           k == p.heapLimit - limit
           q == [p EXCEPT !.heapLimit = limit]
           w == With(q)
           r == UnmapPages(w, limit, k)
<1>5. Store(s, r)
  BY <1>3
<1>p. p = slots[s]
  OBVIOUS
<1>w. w = [p |-> q, free |-> free, ok |-> TRUE, status |-> "ok"]
  BY DEF With
<1>r. r = UnmapPages(w, limit, k)
  OBVIOUS
<1> HIDE DEF w, r, p
<1>6. n \in Nat \ {0}
  BY ProcessMemoryAssumption
<1>7. p.heapLimit \in HeapBase..MemLimit /\ p.heapLimit \in Nat
  BY <1>2 DEF Proc
<1>8. limit = IF p.heapLimit - n >= HeapBase THEN p.heapLimit - n ELSE HeapBase
  <2>1. p.heapLimit - n \in Int /\ HeapBase \in Int
    BY <1>6, <1>7
  <2> QED BY <2>1, MaxOfTwo
<1> HIDE DEF limit
<1>9. /\ limit \in Nat /\ limit \in HeapBase..MemLimit /\ limit <= p.heapLimit
      /\ limit < p.heapLimit \/ limit = HeapBase
      /\ k \in Nat /\ p.heapLimit = limit + k
  BY <1>6, <1>7, <1>8
<1> HIDE DEF k
<1>10. /\ q \in Proc /\ q.heapLimit = limit
       /\ q.pid = p.pid /\ q.pde = p.pde /\ q.kernPt = p.kernPt
       /\ q.sections = p.sections /\ q.pages = p.pages
       /\ q.threads = p.threads /\ q.numThreads = p.numThreads
  BY <1>2, <1>9 DEF Proc
<1> HIDE DEF q
<1>11. w \in Memory /\ w.p = q /\ w.free = free /\ w.status = "ok"
  BY <1>0, <1>10, <1>w, WithIs
<1>12. Finite(w.p) /\ Frames(w.p) = Frames(slots[s])
  BY <1>2, <1>10, <1>11, <1>p DEF Finite, Frames, Tables
<1>13. /\ p.pde /\ p.kernPt
       /\ \A x : x \in p.pages <=> x \in Bss..(p.heapLimit - 1) \/ Living(p, x)
       /\ \A j \in Indexes : p.threads[j] # "EDead" =>
            j < p.numThreads /\ p.heapLimit <= SvcStack(j)
       /\ \A x \in p.pages : Section(x) \in p.sections
  BY <1>2, SettledIs
<1>14. \A x : x \in Span(limit, k) <=> x \in limit..(p.heapLimit - 1)
  BY <1>9 DEF Span
<1>15. Mapped(w.p, limit, k)
  <2>1. Span(limit, k) \subseteq p.pages
    BY <1>9, <1>13, <1>14
  <2>2. Section(limit) \in p.sections
    <3>1. CASE limit < p.heapLimit
      <4>1. limit \in p.pages
        BY <1>7, <1>9, <1>13, <3>1
      <4> QED BY <1>13, <4>1
    <3>2. CASE limit = HeapBase
      <4>1. Section(HeapBase - 1) = Section(HeapBase)
        <5>1. PteIdx(HeapBase) # 0
          BY ProcessMemoryAssumption DEF PteIdx
        <5> QED BY <5>1, SectionBefore
      <4>2. HeapBase - 1 \in p.pages
        BY <1>7, <1>13
      <4> QED BY <1>13, <3>2, <4>1, <4>2
    <3> QED BY <1>9, <3>1, <3>2
  <2>3. limit + k <= MemLimit
    BY <1>7, <1>9
  <2> QED BY <1>10, <1>11, <1>13, <2>1, <2>2, <2>3 DEF Mapped
<1>16. /\ Kept(w, r) /\ SameBut(q, r.p)
       /\ r.p.sections = p.sections /\ r.status = "ok"
       /\ r.p.pages = p.pages \ Span(limit, k)
  <2>1. /\ Kept(w, r) /\ SameBut(w.p, r.p)
        /\ r.p.sections = w.p.sections
        /\ r.status = w.status
        /\ r.p.pages = w.p.pages \ Span(limit, k)
    BY <1>9, <1>11, <1>12, <1>15, <1>r, UnmapPagesReturns
  <2> QED BY <1>10, <1>11, <2>1
<1>17. r.p \in Proc /\ Finite(r.p)
  BY <1>16 DEF Kept, Memory
<1>18. /\ r.p.pid /\ r.p.pde /\ r.p.kernPt /\ r.p.heapLimit = limit
       /\ r.p.numThreads = p.numThreads /\ r.p.threads = p.threads
  BY <1>2, <1>10, <1>13, <1>16 DEF SameBut
<1>19. \A x : Living(r.p, x) <=> Living(p, x)
  BY <1>18 DEF Living
<1>20. \A x : Living(p, x) => x \notin Span(limit, k)
  <2> SUFFICES ASSUME NEW x, Living(p, x), x \in limit..(p.heapLimit - 1)
               PROVE  FALSE
    BY <1>14
  <2>1. PICK j \in Indexes : p.threads[j] # "EDead" /\ x \in Area(j)
    BY DEF Living
  <2>2. /\ p.heapLimit <= SvcStack(j) /\ SvcStack(j) <= x
        /\ SvcStack(j) \in Nat /\ x \in Nat
    BY <1>13, <2>1, AreaIs DEF Indexes
  <2> QED BY <1>7, <1>9, <2>2
<1>21. \A x : x \in r.p.pages <=> x \in Bss..(r.p.heapLimit - 1) \/ Living(r.p, x)
  <2>1. \A x : x \in Bss..(limit - 1) <=>
                 x \in Bss..(p.heapLimit - 1) /\ x \notin Span(limit, k)
    BY <1>7, <1>9, <1>14
  <2> QED BY <1>13, <1>16, <1>18, <1>19, <1>20, <2>1, Zenon
<1>22. Settled(r.p)
  <2>1. \A x \in r.p.pages : Section(x) \in r.p.sections
    BY <1>13, <1>16
  <2>2. \A j \in Indexes : r.p.threads[j] # "EDead" =>
          j < r.p.numThreads /\ r.p.heapLimit <= SvcStack(j)
    <3> SUFFICES ASSUME NEW j \in Indexes, p.threads[j] # "EDead"
                 PROVE  limit <= SvcStack(j)
      BY <1>13, <1>18
    <3>1. p.heapLimit <= SvcStack(j) /\ SvcStack(j) \in Nat
      BY <1>13, AreaBelow
    <3> QED BY <1>7, <1>9, <3>1
  <2> QED BY <1>17, <1>18, <1>21, <2>1, <2>2, SettledIs
<1>23. Good(r.p)
  <2>1. ~Dead(r.p)
    BY <1>p, <1>1, <1>18 DEF Dead
  <2> QED BY <1>17, <1>18, <1>22, <2>1, GoodIf
<1> QED BY <1>4, <1>5, <1>11, <1>12, <1>16, <1>23, CallKeeps DEF Justified

LEMMA ThreadExitStep ==
  ASSUME IInv, status = "ok", NEW s \in 1..numValid, ThreadExit(s)
  PROVE  IInv' /\ Justified
<1> USE Constants
<1> DEFINE p == slots[s]
<1>0. s \in Slots /\ free \in Nat /\ slots \in [Slots -> Proc]
  BY DEF IInv, Slots
<1>1. PICK i \in Indexes :
        /\ p.threads[i] = "EReady"
        /\ slots' = [slots EXCEPT ![s].threads[i] = "EDying"]
  BY DEF ThreadExit
<1>2. UNCHANGED << numValid, free, status >>
  BY DEF ThreadExit
<1>3. ~Dead(p)
  BY <1>1 DEF Dead
<1>4. p \in Proc /\ Finite(p) /\ Settled(p) /\ p.pid
  BY <1>0, <1>3, LivingFacts
<1> DEFINE q == [p EXCEPT !.threads[i] = "EDying"]
           w == With(p)
           r == [p |-> q, free |-> free, ok |-> TRUE, status |-> "ok"]
<1>5. /\ q \in Proc /\ q.heapLimit = p.heapLimit
      /\ q.pid = p.pid /\ q.pde = p.pde /\ q.kernPt = p.kernPt
      /\ q.sections = p.sections /\ q.pages = p.pages
      /\ q.threads = [p.threads EXCEPT ![i] = "EDying"]
      /\ q.numThreads = p.numThreads
  BY <1>4 DEF Proc
<1>6. slots' = [slots EXCEPT ![s] = q]
  BY <1>1
<1>w. w = [p |-> p, free |-> free, ok |-> TRUE, status |-> "ok"]
  BY DEF With
<1>r. r = [p |-> q, free |-> free, ok |-> TRUE, status |-> "ok"]
  OBVIOUS
<1>p. p = slots[s]
  OBVIOUS
<1> HIDE DEF p, q, w, r
<1>7. w \in Memory /\ w.p = p /\ w.free = free
  BY <1>0, <1>4, <1>w, WithIs
<1>8. r \in Memory /\ r.p = q /\ r.free = free /\ r.status = "ok"
  BY <1>0, <1>5, <1>r, WithIs
<1>9. Finite(q) /\ Frames(q) = Frames(p)
  BY <1>4, <1>5 DEF Finite, Frames, Tables
<1>10. Kept(w, r)
  BY <1>7, <1>8, <1>9 DEF Kept
<1>11. \A j \in Indexes : q.threads[j] # "EDead" <=> p.threads[j] # "EDead"
  BY <1>1, <1>4, <1>5 DEF p, Proc
<1>12. Settled(q)
  <2>1. \A x : Living(q, x) <=> Living(p, x)
    BY <1>11 DEF Living
  <2> QED BY <1>4, <1>5, <1>11, <2>1, SettledIs
<1>13. ~Dead(q)
  BY <1>3, <1>11 DEF p, Dead
<1>14. Good(q)
  BY <1>4, <1>5, <1>9, <1>12, <1>13, GoodIf
<1>15. Store(s, r)
  BY <1>2, <1>6, <1>8 DEF Store
<1>16. Finite(w.p) /\ Frames(w.p) = Frames(slots[s])
  BY <1>4, <1>7, <1>p
<1> QED BY <1>2, <1>7, <1>8, <1>10, <1>14, <1>15, <1>16, CallKeeps DEF Justified

LEMMA ThreadExitDfcStep ==
  ASSUME IInv, status = "ok", NEW s \in 1..numValid, ThreadExitDfc(s)
  PROVE  IInv' /\ Justified
<1> USE Constants
<1> DEFINE p == slots[s]
           w == With(p)
           Stk(i) == FreeThreadStacks(w, i)
           Tr(i) == Trimmed([Stk(i).p EXCEPT !.threads[i] = "EDead"], i)
           De(i) == [Stk(i) EXCEPT !.p = Tr(i)]
           Gone(i) == \A j \in Indexes :
                        j < De(i).p.numThreads => De(i).p.threads[j] = "EDead"
<1>0. s \in Slots /\ free \in Nat
  BY DEF IInv, Slots
<1>1. PICK i \in Indexes :
        /\ p.threads[i] = "EDying"
        /\ Store(s, IF Gone(i) THEN ProcessExit(De(i)) ELSE De(i))
  BY DEF ThreadExitDfc
<1>2. numValid' = numValid
  BY DEF ThreadExitDfc
<1>3. ~Dead(p)
  BY <1>1 DEF Dead
<1>4. p \in Proc /\ Finite(p) /\ Settled(p) /\ p.pid
  BY <1>0, <1>3, LivingFacts
<1> DEFINE stacks == Stk(i)
           q == [stacks.p EXCEPT !.threads[i] = "EDead"]
           t == Tr(i)
           dead == De(i)
           gone == Gone(i)
           r == IF gone THEN ProcessExit(dead) ELSE dead
<1>5. Store(s, r)
  BY <1>1
<1>p. p = slots[s] /\ p.threads[i] # "EDead"
  BY <1>1
<1>w. w = [p |-> p, free |-> free, ok |-> TRUE, status |-> "ok"]
  BY DEF With
<1>s. stacks = FreeThreadStacks(w, i)
  OBVIOUS
<1>t. t = Trimmed(q, i)
  OBVIOUS
<1>d. dead = [stacks EXCEPT !.p = t]
  OBVIOUS
<1>g. gone <=> \A j \in Indexes : j < dead.p.numThreads => dead.p.threads[j] = "EDead"
  OBVIOUS
<1> HIDE DEF p, w, Stk, Tr, De, Gone
<1>i. i \in Nat
  BY DEF Indexes
<1>7. w \in Memory /\ w.p = p /\ w.free = free /\ w.status = "ok"
  BY <1>0, <1>4, <1>w, WithIs
<1>8. /\ p.pde /\ p.kernPt
      /\ \A x : x \in p.pages <=> x \in Bss..(p.heapLimit - 1) \/ Living(p, x)
      /\ \A j \in Indexes : p.threads[j] # "EDead" =>
           j < p.numThreads /\ p.heapLimit <= SvcStack(j)
      /\ \A x \in p.pages : Section(x) \in p.sections
  BY <1>4, SettledIs
<1>9. Area(i) \subseteq p.pages
  <2>1. \A x \in Area(i) : Living(p, x)
    BY <1>p DEF Living
  <2> QED BY <1>8, <2>1
<1>10. /\ Kept(w, stacks) /\ SameBut(p, stacks.p)
       /\ stacks.p.sections = p.sections /\ stacks.p.pages = p.pages \ Area(i)
       /\ stacks.status = "ok"
  <2>1. Finite(w.p) /\ Area(i) \subseteq w.p.pages
        /\ \A x \in Area(i) : Section(x) \in w.p.sections
    BY <1>4, <1>7, <1>8, <1>9
  <2> HIDE DEF stacks
  <2>2. /\ Kept(w, stacks) /\ SameBut(w.p, stacks.p)
        /\ stacks.p.sections = w.p.sections
        /\ stacks.p.pages = w.p.pages \ Area(i)
        /\ stacks.status = w.status
    BY <1>7, <1>s, <2>1, FreeThreadStacksReturns
  <2> QED BY <1>7, <2>2
<1> HIDE DEF stacks, t, dead, gone
<1>11. /\ stacks \in Memory /\ stacks.p \in Proc /\ Finite(stacks.p)
       /\ stacks.free + Frames(stacks.p) = free + Frames(p)
  BY <1>7, <1>10 DEF Kept, Memory
<1>12. /\ q \in Proc /\ q.pid /\ q.pde /\ q.kernPt
       /\ q.heapLimit = p.heapLimit /\ q.numThreads = p.numThreads
       /\ q.pages = p.pages \ Area(i) /\ q.sections = p.sections
       /\ q.threads = [p.threads EXCEPT ![i] = "EDead"]
  BY <1>4, <1>8, <1>10, <1>11 DEF Proc, SameBut
<1> HIDE DEF q
<1>13. /\ q.threads[i] = "EDead"
       /\ \A j \in Indexes \ {i} : q.threads[j] = p.threads[j]
  <2>1. p.threads \in [Indexes -> {"EReady", "EDying", "EDead"}]
    BY <1>4 DEF Proc
  <2> QED BY <1>12, <2>1
<1>14. /\ t \in Proc /\ t.pid /\ t.pde /\ t.kernPt
       /\ t.heapLimit = p.heapLimit /\ t.threads = q.threads
       /\ t.pages = q.pages /\ t.sections = q.sections
       /\ \A j \in Indexes : t.threads[j] # "EDead" =>
            j < t.numThreads /\ t.heapLimit <= SvcStack(j)
  <2>1. \A j \in Indexes : q.threads[j] # "EDead" => j < q.numThreads
    BY <1>8, <1>12, <1>13
  <2>2. /\ t \in Proc
        /\ t.pid = q.pid /\ t.pde = q.pde /\ t.kernPt = q.kernPt
        /\ t.heapLimit = q.heapLimit /\ t.threads = q.threads
        /\ t.pages = q.pages /\ t.sections = q.sections
        /\ \A j \in Indexes : q.threads[j] # "EDead" => j < t.numThreads
    BY <1>12, <1>t, <2>1, TrimmedIs
  <2>3. \A j \in Indexes : t.threads[j] # "EDead" => p.heapLimit <= SvcStack(j)
    BY <1>8, <1>12, <1>13, <2>2
  <2> QED BY <1>12, <2>2, <2>3
<1>15. /\ dead \in Memory /\ dead.p = t /\ dead.free = stacks.free
       /\ dead.status = "ok"
  BY <1>10, <1>11, <1>14, <1>d DEF Memory
<1>16. Finite(t) /\ Frames(t) = Frames(stacks.p)
  <2>1. t.pages = stacks.p.pages /\ t.sections = stacks.p.sections
    BY <1>10, <1>12, <1>14
  <2>2. /\ t.pde /\ t.kernPt /\ stacks.p.pde /\ stacks.p.kernPt
    BY <1>8, <1>10, <1>14 DEF SameBut
  <2> QED BY <1>11, <2>1, <2>2 DEF Finite, Frames, Tables
<1>17. Kept(w, dead)
  BY <1>7, <1>11, <1>15, <1>16 DEF Kept
<1>18. \A x : x \in t.pages <=> x \in Bss..(t.heapLimit - 1) \/ Living(t, x)
  <2> SUFFICES ASSUME NEW x
               PROVE  x \in t.pages <=> x \in Bss..(p.heapLimit - 1) \/ Living(t, x)
    BY <1>14
  <2>1. x \in t.pages <=> x \in p.pages /\ x \notin Area(i)
    BY <1>12, <1>14
  <2>2. x \in Bss..(p.heapLimit - 1) => x \notin Area(i)
    <3>1. \A y \in Area(i) : y \in Nat /\ SvcStack(i) <= y
      BY <1>i, AreaIs
    <3>2. p.heapLimit <= SvcStack(i) /\ SvcStack(i) \in Nat
      BY <1>8, <1>i, <1>p, AreaIs
    <3>3. p.heapLimit \in HeapBase..MemLimit
      BY <1>4 DEF Proc
    <3> QED BY <3>1, <3>2, <3>3
  <2>3. Living(t, x) <=> Living(p, x) /\ x \notin Area(i)
    <3>1. ASSUME Living(t, x)
          PROVE  Living(p, x) /\ x \notin Area(i)
      <4>1. PICK j \in Indexes : t.threads[j] # "EDead" /\ x \in Area(j)
        BY <3>1 DEF Living
      <4>2. j # i /\ p.threads[j] # "EDead" /\ j \in Nat
        BY <1>13, <1>14, <4>1 DEF Indexes
      <4> QED BY <1>i, <4>1, <4>2, AreasApart DEF Living
    <3>2. ASSUME Living(p, x), x \notin Area(i)
          PROVE  Living(t, x)
      <4>1. PICK j \in Indexes : p.threads[j] # "EDead" /\ x \in Area(j)
        BY <3>2 DEF Living
      <4>2. j # i
        BY <3>2, <4>1
      <4> QED BY <1>13, <1>14, <4>1, <4>2 DEF Living
    <3> QED BY <3>1, <3>2
  <2>4. x \in p.pages <=> x \in Bss..(p.heapLimit - 1) \/ Living(p, x)
    BY <1>8
  <2> QED BY <2>1, <2>2, <2>3, <2>4, Zenon
<1>19. \A x \in t.pages : Section(x) \in t.sections
  BY <1>8, <1>12, <1>14
<1>20. Finite(w.p) /\ Frames(w.p) = Frames(slots[s])
  BY <1>4, <1>7, <1>p
<1>21. CASE gone
  <2>1. r = ProcessExit(dead)
    BY <1>21
  <2>2. Dead(t)
    BY <1>14, <1>15, <1>21, <1>g DEF Dead
  <2>3. HeapOnly(t)
    <3>1. \A x : ~Living(t, x)
      BY <2>2 DEF Living, Dead
    <3>2. t.pages = Bss..(t.heapLimit - 1)
      BY <1>18, <3>1
    <3> QED BY <1>19, <3>2 DEF HeapOnly
  <2> HIDE DEF r
  <2>4. /\ Kept(dead, r) /\ r.status = "ok"
        /\ ~r.p.pid /\ r.p.pages = {} /\ r.p.sections = {}
        /\ r.p.pde = t.pde /\ r.p.kernPt = t.kernPt
        /\ r.p.threads = t.threads
    <3>1. Finite(dead.p) /\ HeapOnly(dead.p)
      BY <1>15, <1>16, <2>3
    <3> QED BY <1>15, <2>1, <3>1, ProcessExitReturns
  <2>5. Kept(w, r)
    BY <1>17, <2>4 DEF Kept
  <2>6. r.p \in Proc /\ Finite(r.p)
    BY <2>5 DEF Kept, Memory
  <2>7. Good(r.p)
    <3>1. Dead(r.p)
      BY <2>2, <2>4 DEF Dead
    <3>2. r.p.pde /\ r.p.kernPt
      BY <1>14, <2>4
    <3> QED BY <2>4, <2>6, <3>1, <3>2 DEF Good
  <2> QED BY <1>2, <1>5, <1>7, <1>20, <2>4, <2>5, <2>7, CallKeeps DEF Justified
<1>22. CASE ~gone
  <2>1. r = dead
    BY <1>22
  <2> HIDE DEF r
  <2>2. ~Dead(t)
    BY <1>15, <1>22, <1>g DEF Dead
  <2>3. Settled(t)
    BY <1>14, <1>18, <1>19, SettledIs
  <2>4. Good(r.p)
    BY <1>14, <1>15, <1>16, <2>1, <2>2, <2>3, GoodIf
  <2> QED BY <1>2, <1>5, <1>7, <1>15, <1>17, <1>20, <2>1, <2>4, CallKeeps
          DEF Justified
<1> QED BY <1>21, <1>22

-----------------------------------------------------------------------------
(* The theorems                                                            *)

LEMMA InitIInv ==
  ASSUME Init
  PROVE  IInv
<1> USE Constants
<1> DEFINE m == [p |-> NoProcess, free |-> NumFrames - 1, ok |-> TRUE, status |-> "ok"]
           first == ProcessInit(m)
<1>1. /\ slots = [s \in Slots |-> IF s = 1 THEN first.p ELSE NoProcess]
      /\ numValid = 1 /\ free = first.free /\ status = first.status
  BY DEF Init
<1>m. m = [p |-> NoProcess, free |-> NumFrames - 1, ok |-> TRUE, status |-> "ok"]
  OBVIOUS
<1>f. first = ProcessInit(m)
  OBVIOUS
<1> HIDE DEF m, first
<1>2. m \in Memory /\ m.p = NoProcess /\ m.free = NumFrames - 1 /\ m.status = "ok"
  <2>1. NumFrames - 1 \in Nat
    OBVIOUS
  <2>2. NoProcess \in Proc
    BY NoProcessIs
  <2> QED BY <1>m, <2>1, <2>2, WithIs
<1>3. /\ Kept(m, first)
      /\ first.status = "ok" => Good(first.p)
  BY <1>2, <1>f, NoProcessIs, ProcessInitReturns
<1>4. /\ first \in Memory /\ first.p \in Proc /\ Finite(first.p)
      /\ first.free \in Nat /\ first.status \in {"ok", "wild", "crashed"}
      /\ first.free + Frames(first.p) = NumFrames - 1
  BY <1>2, <1>3, NoProcessIs DEF Kept, Memory
<1>5. /\ slots \in [Slots -> Proc] /\ \A s \in Slots : Finite(slots[s])
      /\ 1 \in Slots /\ slots[1] = first.p
      /\ \A s \in Slots \ {1} : slots[s] = NoProcess
  BY <1>1, <1>4, NoProcessIs DEF Slots
<1> DEFINE empty == [s \in Slots |-> NoProcess]
<1>6. /\ empty \in [Slots -> Proc] /\ \A s \in Slots : Finite(empty[s])
      /\ \A s \in Slots \ {1} : slots[s] = empty[s]
      /\ Frames(empty[1]) = 0
  BY <1>5, NoProcessIs
<1>7. Cardinality(HeldOf(empty)) = 0
  <2>1. HeldBy(NoProcess) = {}
    <3>1. IsFiniteSet(HeldBy(NoProcess)) /\ Cardinality(HeldBy(NoProcess)) = 0
      BY NoProcessIs, HeldByIs
    <3> QED BY <3>1, FS_EmptySet
  <2>2. \A s \in Slots : HeldBy(empty[s]) = {}
    BY <2>1
  <2>3. HeldOf(empty) = {}
    BY <2>2, HeldOfIs
  <2> QED BY <2>3, FS_EmptySet
<1> HIDE DEF empty
<1>8. Cardinality(HeldOf(slots)) + Frames(empty[1])
        = Cardinality(HeldOf(empty)) + Frames(slots[1])
      /\ Cardinality(HeldOf(slots)) \in Nat /\ Frames(slots[1]) \in Nat
  BY <1>5, <1>6, HeldChanges
<1>9. Counted
  BY <1>1, <1>4, <1>5, <1>6, <1>7, <1>8 DEF Counted
<1>10. ASSUME status = "ok"
       PROVE  /\ \A s \in Slots : Good(slots[s])
              /\ \A s \in Slots : s > numValid => slots[s] = NoProcess
  BY <1>1, <1>3, <1>5, <1>10, NoProcessIs DEF Slots
<1> QED BY <1>1, <1>4, <1>5, <1>9, <1>10 DEF IInv

LEMMA NextStep ==
  ASSUME IInv, Next
  PROVE  IInv' /\ Justified
<1>0. status = "ok"
  BY DEF Next
<1>1. CASE ProcessNew
  BY <1>0, <1>1, ProcessNewReuseStep, ProcessNewPageStep, ProcessNewBadNameStep
     DEF ProcessNew
<1>2. ASSUME NEW s \in 1..numValid,
             \/ ThreadNew(s) \/ ShrinkHeap(s)
             \/ ThreadExit(s) \/ ThreadExitDfc(s)
             \/ \E n \in Amounts : GrowHeap(s, n)
      PROVE  IInv' /\ Justified
  BY <1>0, <1>2, ThreadNewStep, GrowHeapStep, ShrinkHeapStep, ThreadExitStep,
     ThreadExitDfcStep
<1> QED BY <1>1, <1>2 DEF Next

LEMMA StutterStep ==
  ASSUME IInv, UNCHANGED vars
  PROVE  IInv'
BY DEF IInv, Counted, vars

\* The invariant from which the rest follows (k/process.c, k/mmu_arm.c).
THEOREM Inductive == Spec => []IInv
<1>1. Init => IInv
  BY InitIInv
<1>2. IInv /\ [Next]_vars => IInv'
  BY NextStep, StutterStep
<1> QED BY <1>1, <1>2, PTL DEF Spec

\* Every frame is free or held by one slot for one thing, whatever fails half
\* way (mmu_mapPagesInProcess, process_exit).
THEOREM NoFrameIsLost == Spec => []NoFrameLeaks
<1>1. IInv => NoFrameLeaks
  BY DEF IInv, Counted, NoFrameLeaks, Held, HeldOf
<1> QED BY <1>1, Inductive, PTL

\* A process has its BSS, its heap and the stacks of its living threads and
\* nothing else (process_init, thread_exit, process_exit).
THEOREM MemoryIsTheLivings == Spec => []MemoryIsOfTheLiving
<1>1. IInv => MemoryIsOfTheLiving
  <2> SUFFICES ASSUME IInv
               PROVE  MemoryIsOfTheLiving
    OBVIOUS
  <2>1. TypeOK
    <3>1. free \in 0..NumFrames
      <4>1. IsFiniteSet(HeldOf(slots))
        BY HeldOfFinite DEF IInv
      <4>2. Cardinality(HeldOf(slots)) \in Nat
        BY <4>1, FS_CardinalityType
      <4> QED BY <4>2, Constants DEF IInv, Counted, Slots
    <3> QED BY <3>1 DEF IInv, TypeOK, Proc
  <2>2. ASSUME status = "ok", NEW s \in Slots
        PROVE  LET p == slots[s] IN
               CASE ~p.pid -> p.pages = {} /\ p.sections = {}
                              /\ \A i \in Indexes : p.threads[i] = "EDead"
                 [] p.pid /\ \E i \in Indexes : p.threads[i] # "EDead" ->
                      p.pages = Bss..(p.heapLimit - 1) \cup Stacks(p)
                 [] OTHER -> p.pages \subseteq {Bss}
    <3> DEFINE p == slots[s]
    <3>1. Good(p)
      BY <2>2 DEF IInv
    <3> HIDE DEF p
    <3>2. /\ ~p.pid => /\ p.pages = {} /\ p.sections = {}
                       /\ \A i \in Indexes : p.threads[i] = "EDead"
          /\ p.pid /\ (\E i \in Indexes : p.threads[i] # "EDead") =>
               p.pages = Bss..(p.heapLimit - 1) \cup Stacks(p)
          /\ p.pid /\ ~(\E i \in Indexes : p.threads[i] # "EDead") =>
               p.pages \subseteq {Bss}
      BY <3>1 DEF Good, Dead, Settled
    <3> QED BY <3>2 DEF p
  <2> QED BY <2>1, <2>2 DEF MemoryIsOfTheLiving
<1> QED BY <1>1, Inductive, PTL

\* Pages are freed wrongly, or the kernel faults, only in a call for which fewer
\* frames are free than it takes, but where heap and stacks meet
\* (mmu_unmapPagesInProcess, process_grow_heap, thread_new).
THEOREM WrongOnlyWithoutMemory == Spec => OnlyWhenOutOfMemory
<1>1. IInv /\ [Next]_vars => [Justified]_vars
  BY NextStep
<1>2. Justified <=>
        (status' # "ok" =>
           \/ ProcessNew /\ free < NewTakes
           \/ \E s \in 1..numValid : LET p == slots[s] IN
                \/ ThreadNew(s) /\ \E i \in FreeThread(p) :
                     \/ free < Takes(p, UserStack(i), StackPages) + 1
                     \/ p.heapLimit > SvcStack(i)
                \/ \E n \in Amounts : GrowHeap(s, n) /\
                     \/ free < Takes(p, p.heapLimit, n)
                     \/ Span(p.heapLimit, n) \cap Stacks(p) # {})
  BY DEF Justified
<1> QED BY <1>1, <1>2, Inductive, PTL DEF Spec, OnlyWhenOutOfMemory, Justified
=============================================================================
