# lupi: TLA+ models, model checks and proofs

lupi is a small operating system: a C kernel for ARM boards (`k/`, with the
board code in `build/`), a C layer that embeds Lua in user processes
(`usersrc/`), and the user-side programs in Lua (`modules/`). This directory
holds TLA+ models of the parts whose correctness depends on the order of
events, the TLC configurations that check them, and theorems about them that
TLAPS checks.

Paths below are relative to the repository.

## 1. Inventory

### The parts and how they interact

| Part | State it keeps | Operations | Interacts with |
|---|---|---|---|
| Scheduler, ARMv6 (`k/scheduler.c`, `k/scheduler_arm.c`) | ready list, thread states, timeslices, current thread, DFC queue | `thread_setState`, `thread_yield`, `reschedule`, `dfc_queue`, `irq_checkDfcs`, `dfcs_run`, `tick` | entered from SVCs, from the interrupt handler and from the DFC thread |
| SVC dispatcher (`k/svc.c`) | `rescheduleNeededOnSvcExit`, requests of the uart and the timer | one case per SVC | runs with interrupts enabled, never preempted by a thread |
| Interrupt handler (`build/pi/irq.c`, `k/uart_common.c`) | pending interrupts, blocked reader | clock tick, received character | wakes threads, queues DFCs, asks for a reschedule |
| Processes and threads (`k/process.c`) | process slots, threads, heap limit | `process_new`, `thread_new`, `thread_exit`, `process_exit`, `process_grow_heap`, `thread_requestSignal` | scheduler, MMU, kernel IPC |
| MMU (`k/mmu_arm.c`) | page directories, page tables, user page tables of each process | map, unmap, share a page, create and drop address spaces | page allocator |
| Page allocator (`k/pageAllocator.c`) | a byte per page, `firstFreePage` | `pageAllocator_allocAligned`, `pageAllocator_free` | MMU, boot |
| Kernel IPC (`k/kipc.c`) | `servers`, shared page mappings, lists of blocked clients | create server, request message, new shared page, connect, complete request, process exit | scheduler (blocks and wakes), MMU (shares pages) |
| User IPC and run loop (`usersrc/ipc.c`, `usersrc/runloop.c`, `modules/ipc.lua`, `modules/runloop.lua`) | messages and their flags in the shared page, list of pending requests | `startServer`, `connect`, `send`, `complete`, `queue`, `run` | the SVCs of kernel IPC, `KExecWaitForAnyRequest` |
| Timer server (`modules/timerserver`) | sorted list of timers | `after`, `timerExpired` | user IPC, `KExecSetTimer` |
| Uart input (`k/uart_common.c`, `k/ringbuf.c`) | ring buffer, dropped characters | `uart_got_char`, `getch`, `byteReady`, `getch_async` | interrupt handler, SVCs |
| Lua heap (`usersrc/uluaHeap.c`) | free list, heap top | allocate, grow, shrink, free | `sbrk`, that is `process_grow_heap` |
| Scheduler, ARMv7-M (`k/scheduler_armv7m.c`) | as ARMv6; pending PendSV and its priority, `rescheduleNeededOnPendSvExit` | `sysTick`, `doPendSv`, `reschedule`, `dfc_queue` | as ARMv6; PendSV runs the DFCs, there is no DFC thread |
| Input driver of board tilda (`build/tilda/board.c`, `k/driver_common.c`) | input request, samples in it | button interrupts, `completeInputRequest_dfc`, `kern_setInputRequest` | DFC queue, SVCs |
| MMU of ARMv7-M (`k/mmu_armv7m.c`) | none: one process, no mapping | | |
| AArch64 port | incomplete in the source | | |
| Boot, boot menu, drivers of the boards (`k/boot.c`, `k/bootMenu.c`, `build/pi`, `build/tilda`) | hardware registers, screen | initialisation | sets the initial state of the kernel |
| Kernel debugger (`k/debug.c`, `usersrc/klua*.c`) | | runs once the kernel has stopped | reads everything |
| Lua, dlmalloc, C runtime (`lua/`, `usersrc/malloc.c`, `usersrc/crt.c`) | third party or without state | | |
| Lua programs and library modules (`modules/`) | | editor, windows, tests, 64-bit integers, tables | user IPC |

### What is hard in it

* **Interrupts in SVCs.** Kernel code runs with interrupts enabled. What an SVC
  has read (a count, a pointer, the number of a DFC slot) the interrupt handler
  may change before the SVC uses it.
* **Deferred work.** A request completed by an interrupt travels from handler
  to DFC queue to DFC thread to waiting thread. It may be lost, run twice or
  run for a thread that is gone.
* **Blocking.** A thread that blocks between the check and the wake-up sleeps
  for ever. So does a client that its server has passed over.
* **Slots that are used again.** Threads, processes, servers and shared pages
  are array slots. The parts that point at them (requests, DFCs, lists of
  blocked clients, mappings) are not told when they change hands.
* **Two processes, one page.** Client and server read and write the same
  message flags, each with its own run loop and its own count of completed
  requests.
* **Limits.** Four DFC slots, 32 servers, 256 shared pages, one byte of
  completed requests, one asynchronous reader, one timer.
* **Failure half way.** Connecting, creating a process and mapping several pages
  may run out of memory after they have changed state.

### What makes each part correct

* Scheduler: the ready list is exactly the set of ready threads; only a ready
  thread runs; an SVC is not preempted; an expired timeslice leads to a
  reschedule; a waiting thread has no completed request; queued DFCs run; ready
  threads run.
* Page allocator: no page has two owners, none is lost, and an allocation fails
  only if there is nothing to give.
* Kernel IPC: a shared page is mapped only where it may be, and given back by
  its last user; a blocked client is in the list of its server; `connect`
  returns, and only after the server knows the connection.
* User IPC: a run loop is told of each completed request once; a message that is
  sent is answered; a message that was answered can be sent again.
* Processes and MMU: a failed creation leaves nothing behind; an exit gives
  everything back.
* Uart: characters come out in order, and a reader does not sleep on one.
* Timer server: a timer completes once, not early, and in order.
* Lua heap: cells do not overlap, none is lost, free neighbours are merged.
* Input: a request is completed once for the samples taken, by one DFC.

`PROJECT.json` lists the hazards by source line, with the properties that guard
them.

## 2. The modules

| Module | What it is |
|---|---|
| `ReadyList` | the list operations of `k/scheduler.c` on a sequence whose head is `readyList` and whose last element is `readyList->prev` |
| `Scheduler` | ready list, thread states, SVCs, interrupt handler and DFC thread of the ARMv6 kernel |
| `SchedulerProofs` | the inductive invariant of `Scheduler` and the theorems |
| `ThreadList` | the same list as the pointers `next`, `prev` and `readyList`, a statement at a time under interrupts |
| `ThreadListProofs` | what the operations of `ReadyList` do to the elements of a list; the pointers do what they say, and are right if no interrupt comes in between |
| `PageAllocatorSpec` | what `k/inc/pageAllocator.h` promises: the abstract allocator |
| `PageAllocator` | `k/pageAllocator.c`, one action per iteration of its loops |
| `UluaHeapSpec` | what Lua needs of its allocator: disjoint blocks, and growth only when there is no gap |
| `UluaHeap` | `usersrc/uluaHeap.c`: the free list, and the heap's growth through `sbrk` |
| `UluaHeapProofs` | the invariants of `UluaHeap`, and that it implements `UluaHeapSpec` |
| `ProcessMemory` | process slots, threads and their memory: `k/process.c` over `k/mmu_arm.c`, with every failure half way |
| `MemoryProofs` | the invariants of `PageAllocator`, and that it implements `PageAllocatorSpec`; what each call of `ProcessMemory` leaves behind, and its invariants |
| `UartSpec` | what the readers of the uart need: each byte kept in order, given once or dropped for lack of room, and overtaking kept ones only to a reader that had found none kept |
| `UartInput` | `k/ringbuf.c` statement by statement, the uart interrupt, both getch SVCs |
| `UartInputProofs` | the invariants of `UartInput`, and that it implements `UartSpec` |
| `TimerSpec` | the promise of `TimerSession:after` |
| `TimerServer` | timer server, run loop, `KExecSetTimer` and the tick |
| `TimerServerProofs` | the invariants of `TimerServer`, and that it implements `TimerSpec` |
| `SchedulerV7M` | ready list, SVCs, `sysTick`, PendSV and the uart, button and audio interrupts of the ARMv7-M kernel |
| `SchedulerV7MProofs` | the inductive invariant of `SchedulerV7M` and the theorems |
| `Ipc` | `k/kipc.c`, what it calls, and the user programs on both sides |
| `IpcProofs` | the inductive invariant of `Ipc` and the theorems |
| `MCScheduler`, `MCPageAllocator`, `MCIpc`, `MCSchedulerV7M` | the values TLC uses that a configuration cannot write down |

How they build on each other: `Scheduler`, `SchedulerV7M` and `ThreadList` use
`ReadyList`, which `ThreadListProofs` relates to the pointers;
`PageAllocator`, `UluaHeap`, `UartInput` and `TimerServer` each instantiate their
abstract specification, which is a property of their run. Between the other
modules the interface is a property: that SVCs are not preempted
(`SvcNotPreempted`) is what lets `Ipc`, `ProcessMemory`, `UartInput` and
`TimerServer` run one SVC at a time; what is between two SVCs of a program, such as
writing the flags of a message and telling the kernel, is steps of its own there. That
DFCs are run and that ready threads run is assumed, as the fairness of `DfcRun` and
of the programs; `Scheduler` shows that the code does not always grant the second
(`SchedulerStarves`). That the page allocator
gives out each page once (`RegionsAreDisjoint`) is what lets `ProcessMemory` count
frames.

Operators marked as *mistaken variant* are plausible bugs of the definition that
follows them. They are not part of any specification; each property is known
to fail when its definition is exchanged for such a variant.

### `Scheduler`

One processor. `mode` is what the processor does (user code, an SVC, the DFC
thread, waiting for interrupts in `reschedule`), `svc` is the next step of the
SVC in progress, `irq` the next step of the interrupt handler. When the
interrupt handler is active nothing else moves, because interrupts are
disabled; everywhere else it may start. Each SVC handler is cut into a step
wherever it reads or writes something the interrupt handler also uses:

* `KExecWaitForAnyRequest`: reading the count (`SvcWaitCheck`), blocking
  (`SvcWaitBlock`), rescheduling (`SvcReschedule`);
* `KExecGetch`: asking for a byte, blocking, registering, rescheduling;
* `KExecSetTimer`: storing the request (`SvcSetTimer`), storing the time or
  completing at once (`SvcArmTimer`);
* `thread_exit`: the state, and the two halves of `dfc_queue`, which takes its
  slot number with interrupts enabled and fills the slot afterwards;
* the end of `handleSvc` (`SvcExit`) and the SVCs that leave it early.

The interrupt handler is `handleIrq` of `build/pi/irq.c`: the clock tick
(`IrqTick` for the timer, `IrqSlice` for the timeslice), a received character
(`IrqUart`), `irq_checkDfcs` and the return, which reschedules user code and only
sets a flag for anything else. The DFC thread runs a copy of the DFC queue
(`batch`).

Two variables are not in the code. `unreported` counts, apart from the byte
`completedRequests`, the completions a thread was not told of, up to as many as make the
byte wrap: without it a thread that sleeps on 256 of them looks like one that sleeps on
none. `cutOff` holds the threads whose clean-up was counted in the DFC queue and picked
up by an interrupt before it was written (`HalfQueued`). Both name an exception exactly:
`NoLostWakeup` and `DyingIsCleanedUp` say that these are the only ways to lose a wake-up
or a clean-up, and TLC reaches both.

An assertion that fails, or a pointer that is not valid, sets `panic` and stops
the model as it stops the kernel. The model keeps these as transitions rather
than assuming them away, so every property is checked in their presence.

Abstractions. A thread of the model is a slot of `Process.threads` of any
process. The uart either has a byte or not (the buffer is not kept). Time is not
kept: a timer that is armed may be due at any tick. `KExecCompleteIpcRequest`
signals any thread. The list operations are atomic: `thread_dequeue` and
`thread_enqueueBefore` are not interrupted half way in this model, although
nothing in the code prevents it in an SVC. What comes of that is in `ThreadList`.

### `ThreadList`

`list` has the fields `next`, `prev` and `head` (`readyList`), each statement of
`thread_dequeue`, `thread_enqueueBefore`, `thread_yield` and `thread_setState` is a
step (`pc` is the statement to come, `t`, `before` and `to` are the parameters), and
`IrqTick` and `IrqCheckDfcs` may come before any of them, in an SVC and in the DFC
thread. They are one step each: interrupts are disabled in them, and in `dfcs_run` and
`handleSvc` where they change the list or leave. The statements are those of the source
in its order; a compiler may order the stores of a function differently, which gives
other traces of the same kind. The walk of `findNextReadyThread` is one step. Which
request wakes which thread is left to `Scheduler`: here any SVC may wake any thread that
waits, and any tick may end a timeslice. Following a null pointer, failing the assertion
of `thread_enqueueBefore`, and never coming back to the head set `panic`.

`QuietSpec` is the same kernel with interrupts only where no such call is in progress,
which is what `kern_disableInterrupts()` in `thread_yield` and `thread_setState` would
give. It is what the other models of the scheduler assume.

### `PageAllocator`

`used` is the array of page bytes, `ptr` (the code's `p`), `ffp` and `start` the local
variables of the search. `regions` are the runs that callers hold; a caller frees only what it
holds. The bytes from `NumPages` to `MemPages` are the rest of the last page of
the array itself: a search that steps over `end` reads them as free pages, and
reading behind them is a fault. The specification is `PagesSpec`: its definitions have
names of their own, since `MemoryProofs` extends `ProcessMemory` too.

### `Ipc`

One action per SVC: an SVC is not preempted by another thread (that is
`SvcNotPreempted` of `Scheduler`), and no interrupt touches this state. A process
is represented by its first thread. `prog` is where its program is: a server
creates its server, asks for a message (`request`), and runs its loop (`loop`); a
client makes a page, connects, and sends and receives. Processes in `MayExit` may
exit whenever they are ready, and their slots are used again by a new process.

The run loop is there as `numReqs` (what is left to do of what
`waitForAnyRequest` returned), `queued` (which messages are in
`pendingRequests`) and `errored` (loops that have caught an error, which forgets
`numReqs`). `handleMsg` is three actions, since others may run in between: `Complete`
writes the flags of the answer (`usersrc/ipc.c`, `complete`), `CompleteSvc` is the SVC that
counts it, and `Requeue` puts the message back. Sending is two, `Send` and `SendSvc`.
`calling` holds the processes between flags and SVC: the other side, if it runs then on
another's count, finds the flags and handles the message before it was counted. The
message flags in the shared page are folded into one state: `free`, `sent` (request
completed), `answered` (response completed), and `lost`, when `Requeue` read the flags
before the client sent the message again and wrote them back afterwards.

Abstractions. One message per connection, which is what `ipc.connect` asks for
unless told otherwise. What is true only while the kernel knows both sides is said so:
`DeliveryIsInHand` is about servers that have not exited, and `RequestsAreCounted` leaves
out loops that have caught an error and a process in the slot of a server that has
exited, which is told of that server's connections. Programs exit anywhere but between
flags and SVC, where no program calls `thread_exit`. A handler answers at once; handlers that answer later (the
timer server's `after`) are in `TimerServer`. Arguments are not modelled.
`MaxPages`, `MaxServers` are small instances of 256 and 32.

### `UluaHeap`

Addresses and lengths count cells of 8 bytes. `heap.free` is the free list, a set
since the list is in address order, `heap.top` is `topCell`, `heap.limit` the
break. One action per case of `uluaHeap_allocFn`: `Alloc`, `Free`, `Shrink` and
`Grow` (which allocates, copies and frees; both blocks are held meanwhile). Every
legal sequence of calls is explored. When no cell fits, the break is moved by at
least `GrowMin`, or by `Fallback` if that fails, and the cell that is lengthened is
`topCell`. That is wrong when blocks lie between `topCell` and the break; the
fallback may be less than what was asked for; and when it is just enough, the new
`topCell` is empty and its header is written behind the break, although each free cell
is "a minimum of 8 bytes long" (`usersrc/uluaHeap.c:19`). All three are in the model
(`GrowsWrong`), set `overgrown` and end it. `asked` is the length the last call asked
for, by which `UluaHeapSpec` knows which gap there was not. The build without an MMU is modelled, in which the break is
where the last `sbrk` left it; with an MMU `sbrk` rounds up to pages and the rest
of the page is lost. The statistics of the heap are left out.

### `ProcessMemory`

A page is its number in the user address space; frames are only counted.
A slot has the pages, sections (second level tables), page directory and kernel
page table that `k/mmu_arm.c` has made for it, its threads and its heap limit. Each
SVC and DFC is one step (they do not run inside each other), written as the chain of
allocations it makes, any of which may be the one that fails: `ProcessNew`
(`process_new`, `mmu_processInit`, `process_init`, `thread_init`), `ThreadNew`,
`GrowHeap`, `ShrinkHeap`, `ThreadExit`, and `ThreadExitDfc` with `process_exit`. What
a failed call undoes wrongly is kept: `mmu_mapPagesInProcess` unmaps from the wrong
address on (`k/mmu_arm.c:427`), which sets `status` to `wild` if those pages were not
its own; `mmu_newProcess` returns a page it could not map and `mmu_processInit`
clears a page directory it did not get, on which the kernel faults (`crashed`). A
slot whose process could not be initialised keeps its pid and is never used again.
There may be any number of frames, and `MemLimit` is where the user addresses end, behind
the areas of the threads: nothing in the code keeps a heap from growing into the stacks
(what is mapped there is replaced, and its frame lost: `wild`) or a thread from being
made where the heap already is. Shared pages (at 0x0F000000) are `Ipc`'s; the heaps
of this model do not reach them.

### `UartInput`

Bytes are numbered as they come. The accesses of `ring_pop` to the ring and to its
two indexes are separate steps of the SVC, the interrupt handler
(`uart_got_char`, which is not interrupted) is one. `raced` says that the interrupt came
at one of the moments the code does not expect it, which are: a `ring_push` into a
ring that has at least `Size - 1` bytes between the statements of `ring_pop`; and a byte
that `byteReady` saw and the interrupt has handed to another reader or moved to the
ring when `getch` asks for it. `EachByteOnce` says that these break it and nothing
else does. Order is `UartSpec`'s: kept bytes are read in the order they came, and a byte
may go past kept ones only to a reader that had found none kept (`looking`) and had
not yet been entered for the interrupt to see (`waiting`). The handler of board pi is modelled, which reads one byte and clears the
fifo (`build/pi/irq.c:87`); the one of tilda does not clear it. The counter of
dropped bytes and `ring_free`, which nothing calls (and which returns 0 for an empty
ring), are left out.

### `TimerServer`

The server is a sequence of steps at the places where the tick, a DFC or a client
may come in between: `WaitForAnyRequest`, one iteration of the run loop
(`LoopHandles`, `LoopSkips`, `LoopEnds`), one timer completed by `timerExpired`, the
request for the next, `after`, the three steps of `KExecSetTimer`, and `queue`. A
client has one message and sends it again when it is answered: `After` writes the flags,
`Signal` is the SVC that counts it, and the client may be preempted in between
(`calling`). `raced` collects the
races of `KExecSetTimer`: `missed`, the tick to the very time comes between the
comparison and the store, and `tick` tests for equality; `taken`, the tick to the old
time takes the request after it has been stored; `uncounted`, the run loop has lost
count after an error. The 64-bit uptime is read and stored whole: a torn store only
mixes a time with `UINT64_MAX`, which no tick reaches. The session's first message
(`InitMsg`) is left out, and so is `local.lua`, the variant inside one process.

### `SchedulerV7M`

SVC and PendSV have one priority, below that of all interrupts. `svc` and `pendSv` are
the next step of each, so both may be active: `reschedule` without a ready thread
raises the priority of PendSV and waits (`svc = "idle"`), and PendSV then runs inside
the SVC (`PendSvEnter`). An interrupt handler is one step: `Tick` (`sysTick`, with the
timer due or not), `UartByte` and `UartByteAsync` (`uart_got_char`), `Press`
(`buttonEvent`), `Dacc` (`daccInterrupt`). They preempt each other on this board: the
audio interrupt has a higher priority than `sysTick`, and that one than the uart and the
buttons (`build/tilda/tilda.h:97`). What they share is the DFC queue, which
`dfc_queue` changes with interrupts disabled, and the ready list, which `sysTick`
(`thread_yield`) and `uart_got_char` (`thread_setState`) change, and SVCs and DFCs with
them. Where one of the two may come within such a change (`ListIsChanging`) the model
ends with `panic = "tornList"`, whatever becomes of the list (for ARMv6 that is
`ThreadList`). There are five sources of DFCs (timer, uart request, buttons, audio,
`thread_exit`) and four slots: a DFC that finds none ends the model as the assertion does
(`tooManyDfcs`). `Makes` says which SVCs a thread makes: the run divides them between
two threads, the theorems are for any division. `pendSvPending` is the hardware's
pending bit. `completeInputRequest_dfc` is two steps, since a button may go down
between taking the samples and completing the request. The list operations are
atomic, as in `Scheduler`, and the samples are only counted.

## 3. The runs

Passing runs:

| Run | Instance | Shows |
|---|---|---|
| `SchedulerThreads` | three threads, timeslice 2, one DFC slot | type invariant, `ReadyListExact`, `ExpiredSliceHasReschedule`, `BatchIsOwned`, `WhoRuns`, `SvcNotPreempted` |
| `SchedulerRequests` | two threads, timeslice 1, one DFC slot, completed requests modulo 2 | `NoLostWakeup` under interrupts that come between check and block, `DyingIsCleanedUp` under those that come within `dfc_queue` |
| `Pages` | six pages and two bytes behind them, runs of 1 to 3 with alignment 1 and 2 | `NoneFreeBelowFirst`, `RegionsAreDisjoint`, `BytesMatchRegions`; the loops implement `PageAllocatorSpec` |
| `IpcExits` | one server, two clients, all may exit, two pages, memory may run out in `connect` | `SharedPagesAreSafe`, `BlockedClientsAreListed`, `RequestsAreCounted` (with the type invariant), `DeliveryIsInHand`, `ReleasedAfterHandled`, `LastUserGivesBack` |
| `UluaHeap` | blocks of 1, 2, 3 and 5 cells in a heap of at most 9 | `HeapIsTiled`, `FreeListIsRight`; it implements `UluaHeapSpec` |
| `ProcessMemory` | three slots of three threads, 25 frames, user addresses up to page 40 | `NoFrameLeaks`, `MemoryIsOfTheLiving` (with the type invariant), `OnlyWhenOutOfMemory` |
| `UartInput` | two blocking readers and an asynchronous one, a ring of 3, six bytes | `EachByteOnce` (with the type invariant), `RequestIsInOnePlace`, `BytesEndUp`; it implements `UartSpec` |
| `TimerServer` | two clients, waits of 0 and 2, four ticks | `EachTimerOnce` (with the type invariant), `CompletedOnce`, `EarliestIsArmed`, `TimersExpire`; it implements `TimerSpec` |
| `SchedulerV7M` | two threads, timeslice 1, two DFC slots, one sample | `ThreadsAreRight` (with the type invariant), `DeferredIsPending`, `InputOnce`, `DeferredIsDone` |

Runs that end in a violation of what the source says of itself:

| Run | Instance | Shows |
|---|---|---|
| `ThreadList` | two threads and the DFC thread | `EnqueuedIsInNoList` fails, the assertion of `thread_enqueueBefore` (`k/scheduler.c:41`). The trace: the only ready thread blocks; between two statements of `thread_dequeue` an interrupt comes, and `irq_checkDfcs` puts the DFC thread in front of the head, which is the thread that is being removed; `thread_dequeue` goes on and clears that thread's pointers. The DFC thread is now linked to a thread that waits and is in no list. As soon as the DFC thread is itself moved or removed, it writes into the waiting thread's pointers, and waking that thread fails the assertion. |
| `SchedulerStarves` | three threads that compute, timeslice 1 | `ReadyThreadRuns` fails: "Moves a thread to the end of the ready list" (`k/scheduler.c:55`), "a round-robin ready list" (`doc/internals.md:126`). The trace: with three threads ready each tick moves the first in front of the last, so that the first two take turns and the third never runs. |
| `IpcConnect` | one server, two clients | `ConnectReturns` fails: "We'll get serviced (eventually) from ipc_requestServerMsg" (`k/kipc.c:161`). The trace: a second client connects while the server is at work on the first; the server takes the last in the circular list for "the oldest blocked thread" (`k/kipc.c:100`), is handed the second, releases it, and waits for a message that no one sends, with the first still blocked. |

Other claims that the source makes and the code does not keep. The models show each
with a short trace (drop the exception named in the property, or state the claim as a
property, and TLC prints it):

* "these will get picked up after the next interrupts fires" (`doc/internals.md`, ARMv6):
  `dfc_queue` counts first and writes afterwards; an interrupt between the two takes
  the slot's old content, and the new DFC is never run. A thread that exits there
  stays dying (`cutOff`, the exception in `DyingIsCleanedUp`).
* "Blocks the thread until any request completes" (`modules/runloop.lua`): the 256th
  completion since the last wait takes the byte `completedRequests` to zero, and the
  thread sleeps on 256 completed requests (`k/process.c:375`; the exception in
  `NoLostWakeup`).
* Free cells, "each of which is a minimum of 8 bytes long" (`usersrc/uluaHeap.c:19`): in a heap of 8 cells, a
  block of 3 and one of 5 that makes it grow by no more than it lacks leave a `topCell` of
  length 0, whose header (`:126`) is written behind the break. Only
  growth does this; a cell that a block uses up leaves the list (`GrowsWrong` of `UluaHeap`).
* "All client msgs are pending at all times" (`modules/ipc.lua`): a client that sends
  again between `complete()` and `queue()` makes `queue()` fail; the message is in no
  list any more.
* "Calls `completionFn` after `msecs` milliseconds" (`modules/timerserver/init.lua`):
  the tick to the very time comes between the comparison and the store of
  `KExecSetTimer` (`k/svc.c:189` to `194`); the timer never expires, and the server waits
  for good.
* "there can never be any other handler active" (`k/scheduler_armv7m.c:133`): a
  timeslice expires inside an SVC that then blocks with no thread ready;
  `rescheduleNeededOnPendSvExit` is still set when PendSV runs inside the idle loop,
  which saves registers to a null thread and schedules a thread out of two nested
  handlers (`panic = "noCurrentThread"` of `SchedulerV7M`).

Other states the models reach, which claims of the source exclude, without a run of
their own:

* `tooManyDfcs` (`SchedulerV7M`): `ASSERT(n <= MAX_DFCS)` (`k/scheduler_armv7m.c:264`)
  fails when the timer, the uart request, a button and the audio interrupt queue a DFC
  during one SVC of a thread that exits: five sources, four slots.
* `tornList` (`SchedulerV7M`): `sysTick` ends a timeslice while `uart_got_char`, an SVC or
  a DFC is between two statements of its own change of the ready list.
* `tickSlice`: `KExecThreadCreate` returns past the reschedule check of
  `handleSvc`, so user code goes on with timeslice 0, and the next tick fails
  `ASSERT(threadWasInSvc)` in `k/scheduler_arm.c`.
* `dfcOverflow`: threads that exit one after the other, without an interrupt in
  between, fill the DFC queue.
* `noUserPtr`: a tick that fires the old time between the two stores of a
  `KExecSetTimer` that re-arms the timer takes the request; the next completion
  finds none.
* `enqueueLinked`, `dfcNull`: what follows from a DFC slot taken before it was
  written.
* A second blocked `KExecGetch` replaces the first in
  `blockedUartReceiveIrqHandler`; the first thread stays blocked.
* User code may run while the DFC thread is ready, if an SVC made another thread
  ready after the interrupt: `thread_setState` puts it in front.
* A thread that completes asynchronous requests again and again is given a new
  timeslice each time the DFC thread hands the processor back, so under a steady
  stream of characters another ready thread may not run even when there are only
  two.
* `nullPointer`, `lostInList` (`ThreadList`): `thread_setState` takes a thread off the ready
  list before it sets `t->state`, and a tick between the two yields a thread that is in no
  list, through its null pointers; a list with half its pointers set may have no way back
  to its head, and `findNextReadyThread` then never ends.
* `nullRecipient`, `alreadyMapped`, `badUserPtr`, `nullServer`: a server or a
  client uses a connection whose other side has exited, or a server's slot whose
  process is gone. `freedUnmapped`: `connect` has set the server of a page and
  then run out of memory; when the server exits last it frees page 0.
* A search of the page allocator for several pages can step over the end of its
  array and return pages behind the end of memory.
* `overgrown`, `wild`, `crashed`, `raced`: see the modules in section 2.
* `noInputPtr`: a button goes down inside `completeInputRequest_dfc`; a second DFC is
  queued and completes a request that is gone.
* `noUserPtr` of `TimerServer` and `SchedulerV7M`: as for `Scheduler`.
* A heap with an MMU has no upper limit of its own: `process_grow_heap` maps on until
  it reaches the stacks, and over them, which loses their frames; `thread_new` does not
  look at `heapLimit` either (the exception in `OnlyWhenOutOfMemory`). Before it gets there:
  a growth that has mapped the last page below them and then finds no frame is undone
  from the wrong address on, which is that of a svc stack, and a live thread's stack is
  unmapped as if it were heap. It takes about 254 MB given to one process, which a
  board of 512 MB (`doc/internals.md:86`) has.

Seen on the way, in code that no model has:

* `modules/ipc.lua` lays arguments from byte 32 of the page on, over the second message
  of a session that has two, and never starts again: after about a thousand messages
  with arguments the page is full.
* `modules/timerserver/local.lua`: a timer set for the millisecond that has just been
  reached raises an error while other callbacks are still to be made, which are lost.
* `exec_setTimer` drops `KErrAlreadyExists` (`modules/timerserver/timers.c:13`): a second
  user of the timer is not told that it was refused.
* `gotInput` of `modules/input.lua` returns after the first sample, and a button that
  changes while there is no request is reported only with its next change.
* `modules/ymodem.lua` uses `self` in a plain function and never fails a block.
* `modules/bitmap/bitmap.c`: a line drawn leftwards or upwards sets one pixel past its
  start that the dirty rectangle does not cover; a line of one point does not end; a
  rectangle that is wholly outside the bitmap wraps around, and so does the dirty
  rectangle of an `drawXbm` across an edge of a rotated bitmap.

### Bounds, and why they are enough

* Three threads are the least for which `thread_yield` differs from a rotation,
  and for which a clean-up, a wake-up and a running thread are three different
  ones. One DFC slot makes overflow, reuse and a misdirected DFC short; a batch of more
  than one element is left to the theorems and to `SchedulerV7M`. Timeslice 2
  distinguishes counting, expiring and being expired; timeslice 1 leaves out the
  first. `ReqModulus` 2 or 3 stands for 256, so that the wrap happens.
* No run has all SVCs at once: `SchedulerThreads` has those that create, end,
  yield, wait and set the timer, `SchedulerRequests` those that read the uart, signal
  and create processes, and wait and exit again. The theorems of section 4
  cover all of them together.
* Six pages hold a run of three behind a run of two behind the boot page, with
  gaps. The two bytes behind them allow the widest run to overshoot.
* Nine heap cells are the least in which a cell of 3 is left between blocks, cells of
  all four lengths have been free and the heap has been grown by `GrowMin` and by
  `Fallback`.
* 25 frames are enough for two processes with several threads and not for three; a
  section of 10 pages puts the stacks of one process in more than one; growing by
  32 pages reaches the stacks and, from the base, the end of the addresses, page 40.
* A ring of three bytes is full, wraps and is emptied within six bytes, and the three
  readers can all wait at once.
* Two timers and four ticks: equal times, a time that has been reached, a time that is
  reached while it is stored, and a second timer after the first. `MaxTime` only stops
  the clock; a timer behind it is excluded in `TimersExpire` (`Beyond`).
* `SchedulerV7M`: timeslice 1 makes every tick that applies an expiry; two slots, where
  the board has four for its five sources, fill as soon as two sources meet, so that the
  full queue is a short trace, and still let a batch have two DFCs.
* `IpcExits`, `IpcConnect`: two clients are needed for a list of blocked clients. Two
  shared pages run out when a client exits and comes back, since the server keeps the
  first. The theorems of section 4 are for any number of servers, too.
* `ThreadList`: two threads and the DFC thread are the least in which a thread is taken
  from between two others.
* `SchedulerThreads`, `SchedulerRequests`, `IpcExits` use symmetry, of slots that no definition tells apart, and check no liveness.

`CHECK_DEADLOCK FALSE` where the system may stop: after `panic`, or when all
threads wait and nothing is left to come.

### Fairness

* `Scheduler`: strong fairness of the clock tick (the interrupt stays pending in
  the hardware until it is handled), weak fairness of the handler's own steps
  (interrupts are disabled, nothing else can run), and strong fairness of the
  kernel's steps together (an SVC makes progress between interrupts: a handler is
  far shorter than the time to the next tick). Nothing is assumed of user code,
  which may loop for ever without an SVC, and nothing of the uart.
  `SchedulerStarves` fails under all of this: no step of the trace waits for anything.
* `Ipc`: weak fairness of each program and of the clean-up of a process, which is more than
  the scheduler gives to three threads that are ready all the time. `IpcConnect` fails
  even so; the stronger the fairness, the more the violation says.
* `UartInput`: weak fairness of the interrupt (pending until handled), of the SVC in
  progress and of the DFC thread, the last being assumed of the scheduler as for
  `TimerServer`. Nothing is assumed of the readers.
* `TimerServer`: weak fairness of the tick, of the DFC thread, of the server and of a
  client that has flagged its message and has the SVC to make. This is assumed of the
  scheduler, not shown of it: it grants it to two ready threads, and to more as long as they
  block, which these programs do when they have no work, but not to three that never do
  (`SchedulerStarves`). Nothing is assumed of when clients call.
* `SchedulerV7M`: strong fairness of SVCs and of PendSV, which make progress between
  interrupts. Nothing is assumed of interrupts and threads.

## 4. The proofs

All theorems are for every value of the constants that the assumptions of the
modules allow.

`SchedulerProofs`: `TypeCorrect`, `ListCorrect`, `WakeupsAreNotLost`,
`ExitsAreCleanedUp`, `RunnerIsReady`, `ExpiryReschedules`, `BatchIsSafe` and
`SvcsAreNotPreempted`. The
invariants are not inductive one by one. `IInv` joins them with `StepsKnow`: what
a handler has found out in one step is still true in its next, although the
interrupt handler may have run in between. For instance `NoLostWakeup` needs that
at `waitBlock` the count is still zero (interrupts complete requests only through
DFCs, and the DFC thread does not run during an SVC) and that the byte is the count of
unreported completions but for a wrap (`CountAgrees`), and
`ExpiredSliceHasReschedule` needs that the flag was set or is about to be.
`WhoRuns` and `ReadyListExact` are used in each other's steps: the running thread is
in the list that `thread_yield` searches. `ExitsAreCleanedUp` has an invariant of its own
on top (`CleanUpsKnow`): a clean-up that was counted and not yet written is in the last
slot, and whoever empties the queue then names its thread in `cutOff`. There is one lemma for the SVCs, one for
the DFC thread and the idle loop, one for the interrupt handler, with a step per
action.

`MemoryProofs`, first for the page allocator: `PagesTyped`, `FirstFreeIsRight`,
`NoPageHasTwoOwners` and `NoPageLeaks`, for all requests. `AllocatorInv` adds
`SearchKnows`, what the search has seen so far: the run between `start` and `ptr` is
free and no free page was passed below `ffp`. `PagesImplement` shows that the loops
implement `PageAllocatorSpec`: each of their steps is a stutter but the one that takes a
run, the one that finds nothing, and `Free`. It needs `SearchRulesOut`, which runs the
search has excluded so far, and counts what lies behind the array as memory, up to where
reading it is a fault. `PagesImplementInRam` is the same for the memory there is, if
only single pages are asked for, which is what every caller of `pageAllocator_alloc` but
those that map sections does.

`SchedulerV7MProofs`: `ThreadsRight`, `DeferredPending` and `InputIsOnce`, from
`Inductive`. `IInv` says what SVC and PendSV know between their steps (`SvcKnows`,
`PendSvKnows`), that a thread whose clean-up is queued is dying and has one
(`ExitsKnow`), and that a pending input request has one DFC or none (`InputKnows`). It
holds whichever DFCs are queued in whichever order, with any number of slots and any
division of the SVCs between threads, up to the state where `panic` ends the model: a full
queue, a torn list, or one of the failures of section 3. It says nothing of what the
kernel does from there on.

`IpcProofs`: all the safety properties of `Ipc`, for any processes, slots, pages and
frames: `PagesSafe`, `ClientsListed`, `Delivery`, `RequestsCounted`, and the action
properties `ReleasedRight` and `GivenBack`. None is inductive alone, since each handler
relies on what the other side has done: `IInv` joins the four invariants with what each
program has done where it is (`ProgramsKnow`), what a server slot keeps of its process
(`SlotsKnow`), that a page's owner is the client whose session it is (`PagesKnow`), where
a blocked client's connection is (`BlockedKnow`: in a list, delivered, in its server's
hand or handled), what a server has yet to ask for (`RequestsKnow`), what a server has
handled (`SessionKnows`), what a process between flags and SVC has flagged and for whom
(`CallersKnow`) and that a run loop that waits has nothing left (`WaitersKnow`). What
`RequestsCounted` counts is both sides of that: the kernel's count and the run loop's, plus
those in `calling`, are the flags that are set. There is one lemma per action. The only
assumption is `IpcAssumption`, that the constants are sets of the right kind and disjoint,
and that there are finitely many processes.

`ThreadListProofs`: first what `Dequeue`, `PushHead`, `EnqueueBefore` and `YieldInList`
do to membership and distinctness of the elements of a sequence. These lemmas say
nothing of pointers, and the proofs of `Scheduler`, `SchedulerV7M` and `Ipc` use them
through an instance (`ListLemmas`). Then the operations on pointers. `Represents` says which pointers belong to a
sequence; `DequeuedIs`, `MadeReadyIs` and `LinkedBackIs` show that `thread_dequeue`,
`thread_setState` and the second half of `thread_yield` do to the pointers what the
operators of `ReadyList` do to the sequence, following no null pointer. (Both ways of
linking a thread are `InsertedIs`: putting it between two neighbours anywhere in the
circle.) Last the kernel: `QuietListIsReady` is that with interrupts disabled in these
calls (`QuietSpec`) the list is that of the ready threads and nothing panics. `IInv`
says for each statement which list the call has found and how far it has come
(`DequeueStage`, `EnqueueStage`). So the violation of the run `ThreadList` has no other
cause than the interrupts, and the other models' view of the list is right wherever no
interrupt comes into these calls. The assumption is that `NULL` and the DFC thread are
no user threads; it is a hypothesis of the theorems.

`UluaHeapProofs`: `HeapTiled`, `FreeListRight` and `Implements`, for blocks of any
sizes. A heap that was grown rightly is `Good`: blocks and free cells tile it
(`Tiled`), free cells do not touch (`Merged`), and none is empty. `IInv` says that the heap is `Good` until `overgrown` is set and not
tiled from then on; the second half is there so that the flag is known to mean damage,
not only the possibility of it. The lemmas follow the code: `Released` for `addToFreeList`,
with one case for each neighbour that may be free, one for taking a block out of a cell,
and two for `growHeap`, done right and wrongly (`GrownWrongly`). `Implements` maps the
blocks to the abstract ones, and `asked` ties each failure and each growth to the length
of that call. That no room means no gap (what lets `UluaHeapSpec` grow)
is not plain, since several free cells might make a gap that none of them fills; it
follows from `Merged`. The assumption is `UluaHeapAssumption`.

`MemoryProofs`, then for processes: `NoFrameIsLost`, `MemoryIsTheLivings` and
`WrongOnlyWithoutMemory`, for any number of processes, threads and frames. `IInv` says
that the frames add up with the sets of the slots finite (`Counted`), that each
slot is `Good` while `status` is `ok`, and that slots not yet used are as boot left
them. `Good` is stronger than `MemoryIsOfTheLiving`: it also knows the page tables, of a
process and of one that was left half made. The lemmas follow the calls from the inside
out, `CreateSectionsReturns`, `MapPagesReturns`, `ThreadInitReturns`,
`MmuProcessInitReturns`, `ProcessInitReturns`, `ProcessExitReturns`: each says what the
call leaves if it succeeds, what if it fails, and how little memory there was if it
fails badly, and that frames only move between the free ones and the process (`Kept`).
`LivingFacts` is what a caller's process is. A growth that does not reach the stacks maps
only addresses that are free, and one that does is `wild` at once, so `Good` does not
need the heap to stay below the stacks. `WrongOnlyWithoutMemory` is an action property of
each call: if it goes wrong, `Takes` of that call's own pages is more than the free frames,
or heap and stacks overlap. The only assumption is
`ProcessMemoryAssumption`, which bounds no memory. It holds of the constants in
`k/inc/memmap.h`: the heap starts inside a section (page 8 of 256) and below the stacks,
the stacks at the start of one (page 65024), a section has a whole number of thread areas
(256 and 8 pages), an area has room for two stacks and two guards, all areas are user
addresses, and no call grows the heap by more than the user addresses.

`UartInputProofs`: `BytesAreKept`, `RequestKept` and `Implements`, for a ring of any
size, any readers and any number of bytes. `IInv` knows of `ring_pop` between its
statements that the byte it has read is still in the ring, and that the ring was not
full when the two bits were looked at (`SvcKnows`); of the uart that it has the last
bytes that came (`UartKnows`); and of the bytes that the places they can be in do not
overlap (`Sound`), or, once `raced` is set, which damage has been done and will be
there when the SVC ends (`Damage`), so that the races of section 3 are known to lose or
repeat a byte each time, and nothing else does. The ring's indexes are remainders, which
the provers do not find their way in: the first lemmas replace `x % Size` by the two
cases it can be (`RemainderIs`), `ContentsIs` says what the ring holds without them, and
`PushAppends`, `UnfullTakes` and `HeadGoes` say what the statements of `ring_push` and
`ring_pop` do to that sequence. `ByteMoves` is that a byte that goes from one place to
another leaves the rest of `Sound` alone. The only assumption is `UartInputAssumption`.

`TimerServerProofs`: `TimerOnce`, `RequestOnce`, `EarliestArmed` and `Implements`, for
any clients and any waits. What a client is promised rests on three parties, and `IInv`
says of each what it knows. Of the timers (`ClientsKnow`, `TimesKnow`): the clients that
wait are those of a sent message, of the one that is handled, and of the timers in
`timers` and in `completed`, and no two of these have a client in common; no timer is
earlier than its client expects, and what is in `completed` is due. Of the run loop
(`PendingKnows`, `CountKnows`): every request is in its list once but for the one that is
handled, and the requests it was told of are not behind its iterator; since
`misc.iter` looks at an index again when its element is taken out, and what is queued
goes to the end, none is passed over. Of the kernel (`RequestKnows`, `ArmedKnows`): the
timer's request is in one place (waiting for its time, queued for completion, completed
or with the server), and the time is that of the first timer whenever the server is not
about to set it. A client between the flags and the SVC
(`calling`) is counted among those the run loop will be told of. Each of the last three
holds only as long as the races that break it
have not been lost, and the theorem needs to know which: `RequestKnows` survives all but
`taken`, `CountKnows` all but `taken` and `uncounted`, `ArmedKnows` none. The lemmas are
about the server's two lists: what taking out and queueing does to what is ahead of the
iterator (`TakenOutIs`, `QueueIs`), and that of a sorted array the timers that are due are
the first ones (`DueFirst`), so that `timerExpired` splits it in two (`SplitIs`).
`Implements` needs only `ClientsKnow` and `TimesKnow`, so no race makes the server answer
early or twice. `TimerServerAssumption` has a longest wait, from which `Never`, the
model's `int64.MAX`, is made to be later than every timer. In the code that holds as long
as the uptime plus `msecs` stays below `int64.MAX`, some 290 million years of
milliseconds.

Only model-checked: the liveness properties (fairness is outside the proof system's
reach).

## 5. Not modelled, and the plan

Left of the plan:

1. `modules/timerserver/local.lua`, the timers inside one process, as a second
   implementation of `TimerSpec`; sessions with several messages and nested run loops
   in `Ipc`; the audio driver's request.
2. Pure functions, against their arithmetic definitions: the clipping of
   `modules/bitmap/bitmap.c` and the transforms of `modules/bitmap/transform.lua` (the
   mistakes listed in section 3 are known from reading), the 64-bit integers of
   `usersrc/int64.c`, the unsigned comparison and rounding of `modules/misc.lua`, the
   protocol of `modules/ymodem.lua` (unfinished in the source).

More than half of the repository's lines are third-party code or data (`lua/`,
`usersrc/malloc.c`, fonts), and much of the rest is set-up of
hardware and programs that draw and edit; the models are of the part in which the order
of events matters.

Left out for good: boot and drivers (hardware), the AArch64 port (incomplete), the
kernel debugger (runs when everything has stopped), third-party code, the build
scripts, and the Lua programs on top of the system.
