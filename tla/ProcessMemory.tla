--------------------------- MODULE ProcessMemory ---------------------------
(***************************************************************************)
(* The life of processes and threads (k/process.c) and of the memory the   *)
(* kernel gives them (k/mmu_arm.c), up to the last free page.  A page is   *)
(* its number in the user address space; which frame the allocator finds   *)
(* for it is PageAllocator's matter, so only the free frames are counted.  *)
(* Shared pages are module Ipc's.  No SVC and no DFC runs inside another   *)
(* (Scheduler), so each is one step; several fail half way.                *)
(***************************************************************************)
EXTENDS Integers, FiniteSets, FiniteSetsExt

CONSTANTS
  MaxProcesses, MaxThreads,
  NumFrames,   \* the frames that boot leaves, the first Process page included
  SectPages,   \* pages mapped by one page table (256)
  Bss,         \* the page of KUserBss; KUserHeapBase is the page behind it
  StacksBase,  \* the page of KUserStacksBase
  StackPages,  \* USER_STACK_SIZE in pages (4)
  AreaPages,   \* a thread's area: svc stack, guard, user stack, guard (8)
  MemLimit,    \* the page of KMaxUserAddress, where the threads' areas end
  Amounts      \* by how many pages KExecSbrk grows and shrinks the heap

HeapBase == Bss + 1

ASSUME ProcessMemoryAssumption ==
  /\ {MaxProcesses, MaxThreads, NumFrames, SectPages, Bss, StacksBase,
      StackPages, AreaPages, MemLimit} \subseteq Nat \ {0}
  \* Of more than that the assertions of mmu_arm.c wrap.
  /\ Amounts \subseteq 1..MemLimit
  /\ HeapBase < StacksBase
  /\ StacksBase % SectPages = 0 /\ StackPages + 2 < AreaPages
  /\ SectPages % AreaPages = 0 /\ HeapBase % SectPages # 0
  /\ StacksBase + MaxThreads * AreaPages <= MemLimit

VARIABLES
  slots,     \* Process, in the order of GetProcess
  numValid,  \* numValidProcessPages
  free,      \* free frames
  status     \* "ok"; "wild": pages were freed that were not the caller's, or
             \* mapped where there were pages; "crashed": the kernel touched
             \* memory that is not mapped, or an assertion failed

vars == << slots, numValid, free, status >>

Slots == 1..MaxProcesses
Indexes == 0..(MaxThreads - 1)
Section(page) == page \div SectPages
PteIdx(page) == page % SectPages
SvcStack(i) == StacksBase + i * AreaPages
UserStack(i) == SvcStack(i) + 2
Span(page, n) == page..(page + n - 1)

\* A process together with the free frames, and what the last call on it
\* returned.  A page that is mapped has its pte in a section that is there.
NoProcess ==
  [pid |-> FALSE, pde |-> FALSE, kernPt |-> FALSE, sections |-> {},
   pages |-> {}, heapLimit |-> HeapBase, numThreads |-> 0,
   threads |-> [i \in Indexes |-> "EDead"]]

With(p) == [p |-> p, free |-> free, ok |-> TRUE, status |-> "ok"]

Failed(m) == [m EXCEPT !.ok = FALSE]

Wild(m) == [m EXCEPT !.status = IF @ = "ok" THEN "wild" ELSE @]

-----------------------------------------------------------------------------
(* mmu_arm.c                                                               *)

\* mmu_createUserSection, for every section of n pages that is missing, in
\* order; those made before the memory runs out stay.
CreateSections(m, page, n) ==
  LET missing == {Section(q) : q \in Span(page, n)} \ m.p.sections
      made == {s \in missing : Cardinality({r \in missing : r < s}) < m.free}
  IN [m EXCEPT !.p.sections = @ \cup made, !.free = @ - Cardinality(made),
               !.ok = (made = missing)]

\* mmu_unmapPagesInProcess: an empty pte is taken for frame 0 and freed, a table
\* that is not there faults, and what ends behind the user addresses is asserted.
UnmapPages(m, page, n) ==
  LET span == Span(page, n) IN
  IF page + n > MemLimit
     \/ ~({Section(q) : q \in span} \cup {Section(page)} \subseteq m.p.sections)
  THEN [m EXCEPT !.status = "crashed"]
  ELSE [m EXCEPT !.p.pages = @ \ span,
                 !.free = @ + Cardinality(span \cap m.p.pages),
                 !.status = IF span \subseteq m.p.pages THEN @ ELSE "wild"]

\* mmu_mapPagesInProcess.  Nothing looks whether a page is mapped already, which
\* is lost then.  When the memory runs out, as many pages are unmapped as lie
\* between the start of the page table and the failed one: more than were mapped
\* unless they start the table.
MapPages(m, page, n) ==
  LET c == CreateSections(m, page, n)
      got == IF n <= c.free THEN n ELSE c.free
      mapped == [c EXCEPT !.p.pages = @ \cup Span(page, got), !.free = @ - got]
      undone == UnmapPages(mapped, page, PteIdx(page) + got)
  IN IF page + n > MemLimit THEN Failed([m EXCEPT !.status = "crashed"])
     ELSE IF ~c.ok THEN c
     ELSE IF Span(page, got) \cap c.p.pages # {} THEN Failed(Wild(c))
     ELSE IF got = n THEN mapped
     ELSE Failed(IF PteIdx(page) = 0 THEN undone ELSE Wild(undone))

\* mmu_processInit: the page directory, the table of its page tables, which
\* are made once for a slot, and the BSS; only a directory that is not there
\* is noticed, by the fault.
MmuProcessInit(m) ==
  LET n == Cardinality({x \in {"pde", "kernPt"} : ~m.p.pde})
      made == [m EXCEPT !.p.pde = @ \/ m.free >= 1,
                        !.p.kernPt = @ \/ m.free >= 2,
                        !.free = IF @ >= n THEN @ - n ELSE 0]
  IN IF ~made.p.pde THEN [made EXCEPT !.status = "crashed"]
     ELSE MapPages(made, Bss, 1)

\* mmu_processExited: mmu_freeUserSection for every section.  What is still
\* mapped there is not given back.
FreeSections(m) ==
  [m EXCEPT !.free = @ + Cardinality(m.p.sections),
            !.p.sections = {}, !.p.pages = {}]

-----------------------------------------------------------------------------
(* process.c: thread_init, process_init, process_exit                      *)

\* Mistaken variant: the user stack is kept when there is no svc stack.
ThreadInitKeeps(m, i) ==
  LET user == MapPages([m EXCEPT !.p.threads[i] = "EDead"],
                       UserStack(i), StackPages)
      svc == MapPages(user, SvcStack(i), 1)
  IN IF ~user.ok THEN user
     ELSE IF ~svc.ok THEN svc
     ELSE [svc EXCEPT !.p.threads[i] = "EReady"]

\* thread_init, and the thread_setState(EReady) of its callers.
ThreadInit(m, i) ==
  LET user == MapPages([m EXCEPT !.p.threads[i] = "EDead"],
                       UserStack(i), StackPages)
      svc == MapPages(user, SvcStack(i), 1)
  IN IF ~user.ok THEN user
     ELSE IF ~svc.ok THEN Failed(UnmapPages(svc, UserStack(i), StackPages))
     ELSE [svc EXCEPT !.p.threads[i] = "EReady"]

\* process_init from where the name has been found.  The pid is set first and
\* stays when the rest fails.
ProcessInit(m) ==
  LET mmu == MmuProcessInit([m EXCEPT !.p = [@ EXCEPT
                   !.pid = TRUE, !.heapLimit = HeapBase, !.numThreads = 1]])
  IN IF mmu.status # "ok" THEN mmu ELSE ThreadInit(mmu, 0)

FreeThreadStacks(m, i) ==
  UnmapPages(UnmapPages(m, UserStack(i), StackPages), SvcStack(i), 1)

\* Mistaken variant: the page tables go before what they map.
ProcessExitTablesFirst(m) ==
  [FreeSections(m) EXCEPT !.p.pid = FALSE]

\* process_exit: the BSS and the heap, which lie in one piece, then the tables.
\* It is called when all threads are dead.
ProcessExit(m) ==
  LET heap == UnmapPages(m, Bss, 1 + (m.p.heapLimit - HeapBase))
  IN [FreeSections(heap) EXCEPT !.p.pid = FALSE]

-----------------------------------------------------------------------------
Store(s, m) ==
  /\ slots' = [slots EXCEPT ![s] = m.p]
  /\ free' = m.free
  /\ status' = m.status

Alive(s) == \E i \in Indexes : slots[s].threads[i] = "EReady"

\* The first Process page is there before process_new("init"), which boot
\* asserts succeeds.
Init ==
  LET first == ProcessInit([p |-> NoProcess, free |-> NumFrames - 1,
                            ok |-> TRUE, status |-> "ok"])
  IN /\ slots = [s \in Slots |-> IF s = 1 THEN first.p ELSE NoProcess]
     /\ numValid = 1
     /\ free = first.free
     /\ first.ok /\ status = first.status

\* process_new takes the first slot whose pid is zero.
Spare == {s \in 1..numValid : ~slots[s].pid}

ProcessNewReuse ==
  /\ Spare # {}
  /\ LET s == Min(Spare) IN Store(s, ProcessInit(With(slots[s])))
  /\ UNCHANGED numValid

\* mmu_newProcess: a new page, or its address although there is no page.
ProcessNewPage ==
  /\ Spare = {} /\ numValid < MaxProcesses
  /\ IF free = 0
     THEN status' = "crashed" /\ UNCHANGED << slots, free, numValid >>
     ELSE /\ Store(numValid + 1,
                   ProcessInit([With(NoProcess) EXCEPT !.free = @ - 1]))
          /\ numValid' = numValid + 1

\* The name is not found: a slot that is new keeps the pid that its page held
\* before, whatever that was.
ProcessNewBadName ==
  /\ Spare = {} /\ numValid < MaxProcesses /\ free > 0
  /\ numValid' = numValid + 1 /\ free' = free - 1
  /\ \E old \in BOOLEAN : slots' = [slots EXCEPT ![numValid + 1].pid = old]
  /\ UNCHANGED status

ProcessNew ==
  /\ \E s \in Slots : Alive(s)
  /\ ProcessNewReuse \/ ProcessNewPage \/ ProcessNewBadName

\* The slot thread_new takes: the first dead thread, wherever the heap ends, else
\* a new one unless the heap has passed the start of its user stack.
FreeThread(p) ==
  LET dead == {i \in Indexes : i < p.numThreads /\ p.threads[i] = "EDead"} IN
  IF dead # {} THEN {Min(dead)}
  ELSE IF p.numThreads < MaxThreads /\ p.heapLimit <= UserStack(p.numThreads)
       THEN {p.numThreads}
  ELSE {}

ThreadNew(s) ==
  LET p == slots[s] IN
  /\ Alive(s)
  /\ \E i \in FreeThread(p) :
       Store(s, ThreadInit(
         With([p EXCEPT !.numThreads = IF i = @ THEN @ + 1 ELSE @]), i))
  /\ UNCHANGED numValid

\* process_grow_heap with a positive increment, rounded up to pages.
GrowHeap(s, n) ==
  /\ Alive(s)
  /\ LET m == MapPages(With(slots[s]), slots[s].heapLimit, n) IN
     Store(s, IF m.ok THEN [m EXCEPT !.p.heapLimit = @ + n] ELSE m)
  /\ UNCHANGED numValid

\* With a negative one, which never takes the heap below its base.
ShrinkHeap(s) ==
  /\ Alive(s)
  /\ \E n \in Amounts :
       LET limit == Max({slots[s].heapLimit - n, HeapBase}) IN
       Store(s, UnmapPages(With([slots[s] EXCEPT !.heapLimit = limit]),
                           limit, slots[s].heapLimit - limit))
  /\ UNCHANGED numValid

\* thread_exit: the stacks go when the DFC runs.
ThreadExit(s) ==
  /\ \E i \in Indexes :
       /\ slots[s].threads[i] = "EReady"
       /\ slots' = [slots EXCEPT ![s].threads[i] = "EDying"]
  /\ UNCHANGED << numValid, free, status >>

\* Mistaken variant: the threads in front of the last one are not looked at.
TrimmedBlindly(p, i) == [p EXCEPT !.numThreads = IF i < @ THEN i ELSE @]

\* numThreads shrinks to the last thread that is not dead.
Trimmed(p, i) ==
  IF i # p.numThreads - 1 THEN p
  ELSE LET live == {j + 1 : j \in {k \in Indexes : k < p.numThreads
                                                   /\ p.threads[k] # "EDead"}}
       IN [p EXCEPT !.numThreads = Max(live \cup {0})]

ThreadExitDfc(s) ==
  /\ \E i \in Indexes :
       LET stacks == FreeThreadStacks(With(slots[s]), i)
           dead == [stacks EXCEPT !.p =
                      Trimmed([@ EXCEPT !.threads[i] = "EDead"], i)]
           gone == \A j \in Indexes :
                     j < dead.p.numThreads => dead.p.threads[j] = "EDead"
       IN /\ slots[s].threads[i] = "EDying"
          /\ Store(s, IF gone THEN ProcessExit(dead) ELSE dead)
  /\ UNCHANGED numValid

\* What the kernel does after pages were freed or mapped wrongly is not followed.
Next ==
  /\ status = "ok"
  /\ \/ ProcessNew
     \/ \E s \in 1..numValid :
          \/ ThreadNew(s) \/ ShrinkHeap(s) \/ ThreadExit(s) \/ ThreadExitDfc(s)
          \/ \E n \in Amounts : GrowHeap(s, n)

Spec == Init /\ [][Next]_vars

-----------------------------------------------------------------------------
TypeOK ==
  /\ slots \in [Slots ->
       [pid : BOOLEAN, pde : BOOLEAN, kernPt : BOOLEAN,
        sections : SUBSET Nat, pages : SUBSET Nat,
        heapLimit : HeapBase..MemLimit, numThreads : 0..MaxThreads,
        threads : [Indexes -> {"EReady", "EDying", "EDead"}]]]
  /\ numValid \in Slots
  /\ free \in 0..NumFrames
  /\ status \in {"ok", "wild", "crashed"}

\* What a slot holds a frame for: its page tables and its pages.
HeldBy(p) ==
  ({"page"} \X p.pages) \cup ({"section"} \X p.sections)
  \cup ({"table"} \X {x \in {1, 2} : IF x = 1 THEN p.pde ELSE p.kernPt})

Held == UNION {{s} \X HeldBy(slots[s]) : s \in Slots}

\* Every frame is free or held by one slot for one thing: what a failed call
\* had mapped is given back, and an exit gives back all of it, up to the first
\* page freed wrongly (mmu_mapPagesInProcess, process_exit).
NoFrameLeaks ==
  status = "ok" => NumFrames = free + numValid + Cardinality(Held)

\* The pages of a process are its BSS, its heap up to heapLimit and the two
\* stacks of every thread that is not dead, those that are dying included; all
\* of these threads are among the first numThreads.  A slot that has a pid and
\* no thread was left half made and has at most its BSS; one without has
\* neither pages nor page tables (thread_new, threadExit_dfc, process_exit).
Stacks(p) ==
  UNION {Span(UserStack(i), StackPages) \cup {SvcStack(i)} :
           i \in {j \in 0..(p.numThreads - 1) : p.threads[j] # "EDead"}}

MemoryIsOfTheLiving ==
  /\ TypeOK
  /\ status = "ok" =>
      \A s \in Slots : LET p == slots[s] IN
      CASE ~p.pid -> p.pages = {} /\ p.sections = {}
                     /\ \A i \in Indexes : p.threads[i] = "EDead"
        [] p.pid /\ \E i \in Indexes : p.threads[i] # "EDead" ->
             p.pages = Bss..(p.heapLimit - 1) \cup Stacks(p)
        [] OTHER -> p.pages \subseteq {Bss}

\* The frames that mapping n pages takes: theirs and those of missing tables.
Takes(p, page, n) ==
  n + Cardinality({Section(q) : q \in Span(page, n)} \ p.sections)

\* What process_new takes: a page for the slot, its page directory and the table
\* of its tables, unless it has them, and BSS and stacks with a table for each.
NewTakes ==
  LET p == IF Spare = {} THEN NoProcess ELSE slots[Min(Spare)] IN
  (IF Spare = {} THEN 1 ELSE 0) + (IF p.pde THEN 0 ELSE 2) + 2 + StackPages + 2

\* Pages are freed that are not the caller's, or the kernel faults, only in a
\* call that makes a process or a thread, or grows a heap, and for which fewer
\* frames are free than that call takes; an exit, and any call there is memory
\* for, goes right whatever failed before it (mmu_unmapPagesInProcess).  But for
\* what nothing in the code prevents: heap and stacks are mapped over each other.
OnlyWhenOutOfMemory ==
  [][ status' # "ok" =>
        \/ ProcessNew /\ free < NewTakes
        \/ \E s \in 1..numValid : LET p == slots[s] IN
             \/ ThreadNew(s) /\ \E i \in FreeThread(p) :
                  \/ free < Takes(p, UserStack(i), StackPages) + 1
                  \/ p.heapLimit > SvcStack(i)
             \/ \E n \in Amounts : GrowHeap(s, n) /\
                  \/ free < Takes(p, p.heapLimit, n)
                  \/ Span(p.heapLimit, n) \cap Stacks(p) # {}
    ]_vars
=============================================================================
