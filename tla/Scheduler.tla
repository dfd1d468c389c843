----------------------------- MODULE Scheduler -----------------------------
(***************************************************************************)
(* The thread scheduler of the ARM (Pi) kernel: the ready list and the     *)
(* thread states, the SVC handlers that change them, the interrupt handler *)
(* that ticks the clock and wakes threads, and the DFC thread.             *)
(*                                                                         *)
(* One processor.  User code and SVC handlers run with interrupts enabled, *)
(* so the interrupt handler may run between any two steps of an SVC; an    *)
(* SVC is never preempted by another thread (doc/internals.md).  The       *)
(* handler itself runs with interrupts disabled: its steps are taken in a  *)
(* row, `irq` naming the next one.  `mode` is what the processor was doing *)
(* when the interrupt arrived, i.e. what spsr_irq tells handleIrq.         *)
(***************************************************************************)
EXTENDS Integers, Sequences, FiniteSets, ReadyList

CONSTANTS
  Threads,     \* the user threads' slots (Process.threads of every process)
  DfcThread,   \* TheSuperPage->dfcThread
  None,        \* the NULL pointer
  Timeslice,   \* THREAD_TIMESLICE, in ticks (25 in the kernel)
  MaxDfcs,     \* MAX_DFCS, the size of TheSuperPage->dfcs (4 in the kernel)
  ReqModulus,  \* Thread.completedRequests is a uint8: 256 in the kernel
  Svcs         \* the SVCs the user threads make, named by their first step

ASSUME SchedulerAssumption ==
  /\ DfcThread \notin Threads
  /\ None \notin Threads \cup {DfcThread}
  /\ Timeslice \in Nat \ {0}
  /\ MaxDfcs \in Nat \ {0}
  /\ ReqModulus \in Nat \ {0, 1}
  /\ Svcs \subseteq {"yield", "waitCheck", "getchCheck", "getchAsync",
                     "setTimer", "signal", "threadCreate", "createProcess",
                     "threadExit", "svcExit"}

AllThreads == Threads \cup {DfcThread}

ThreadStates ==
  {"EReady", "EBlockedFromSvc", "EDying", "EDead", "EWaitForRequest"}

\* A slot of TheSuperPage->dfcs: the function and the arguments the two
\* kinds of DFC use.  The array starts zeroed, so its slots start as NullDfc.
NullDfc == [fn |-> "null", thread |-> None, ptr |-> FALSE]
Dfcs == [fn : {"do_request_complete", "threadExit_dfc"},
         thread : Threads, ptr : BOOLEAN] \cup {NullDfc}

\* What is left to do of the SVC in progress ("none": no SVC in progress).
SvcSteps == {"none", "yield", "waitCheck", "waitBlock", "getchCheck",
             "getchBlock", "getchRegister", "getchAsync", "setTimer",
             "armTimer", "signal", "threadCreate", "createProcess",
             "threadExit", "dfcReserve", "dfcWrite", "svcExit", "reschedule"}

VARIABLES
  state,      \* Thread.state
  readyList,  \* TheSuperPage->readyList
  timeslice,  \* timeslice of the current thread; scheduleThread sets it
  completedRequests,  \* Thread.completedRequests
  unreported, \* history: requests completed that Thread has not been told of,
              \* counted up to ReqModulus
  currentThread,      \* TheSuperPage->currentThread
  mode,       \* "usr", "svc" (in an SVC), "dfc" (dfcs_run) or "idle" (WFI)
  svc,        \* the next step of the SVC in progress
  irq,        \* the next step of the interrupt handler, "none" outside it
  irqResched, \* threadTimeExpired || dfcsPending, in handleIrq
  rescheduleNeeded,   \* TheSuperPage->rescheduleNeededOnSvcExit
  blockedUart,        \* TheSuperPage->blockedUartReceiveIrqHandler
  uartRequest,        \* uartRequest.thread while uartRequest.userPtr is set
  timerRequest,       \* timerRequest.thread, and whether userPtr is set
  timerArmed,         \* timerCompletionTime # UINT64_MAX
  numDfcsPending,     \* TheSuperPage->numDfcsPending
  dfcs,       \* TheSuperPage->dfcs
  reserved,   \* the local n of the dfc_queue in progress
  cutOff,     \* history: the threads whose exit had taken a slot of dfcs and
              \* not filled it when the interrupt handler copied that slot
  batch,      \* the DFCs dfcs_run has still to run (the copy on its stack)
  panic       \* the assertion or bad pointer that stopped the kernel

cpuVars  == << currentThread, mode, svc >>
irqVars  == << irq, irqResched >>
reqVars  == << blockedUart, uartRequest, timerRequest, timerArmed >>
dfcVars  == << numDfcsPending, dfcs, reserved, cutOff, batch >>
countVars == << completedRequests, unreported >>
vars == << state, readyList, timeslice, countVars, cpuVars, irqVars,
           rescheduleNeeded, reqVars, dfcVars, panic >>

Panics == {"none", "enqueueLinked", "tickSlice", "dfcOverflow", "dfcNull",
           "noUserPtr"}

\* The first process has just been started by process_start.
Init ==
  \E first \in Threads :
    /\ state = [t \in AllThreads |->
                  IF t = first THEN "EReady"
                  ELSE IF t = DfcThread THEN "EBlockedFromSvc" ELSE "EDead"]
    /\ readyList = << first >>
    /\ timeslice = Timeslice
    /\ completedRequests = [t \in Threads |-> 0]
    /\ unreported = [t \in Threads |-> 0]
    /\ currentThread = first
    /\ mode = "usr"
    /\ svc = "none"
    /\ irq = "none"
    /\ irqResched = FALSE
    /\ rescheduleNeeded = FALSE
    /\ blockedUart = None
    /\ uartRequest = None
    /\ timerRequest = [thread |-> None, ptr |-> FALSE]
    /\ timerArmed = FALSE
    /\ numDfcsPending = 0
    /\ dfcs = [i \in 1..MaxDfcs |-> NullDfc]
    /\ reserved = 0
    /\ cutOff = {}
    /\ batch = << >>
    /\ panic = "none"
-----------------------------------------------------------------------------
(* Helpers that several handlers share.                                    *)

\* The kernel stops where an ASSERT fails or a NULL pointer is used: no
\* interrupt is taken and no thread runs any more.
Stop(why) ==
  /\ panic' = why
  /\ irq' = "stopped"
  /\ UNCHANGED << state, readyList, timeslice, countVars, cpuVars,
                  irqResched, rescheduleNeeded, reqVars, dfcVars >>

\* thread_setState(t, EReady).  thread_enqueueBefore asserts that t is in no
\* list; a caller has the disjunct Linked(t) /\ Stop("enqueueLinked").
Linked(t) == Contains(readyList, t)
SetReady(t) ==
  /\ readyList' = PushHead(readyList, t)
  /\ state' = [state EXCEPT ![t] = "EReady"]

\* A variant with a mistake (the properties must notice it): the thread stays
\* in the list.
SetNotReadyStillListed(t, s) ==
  /\ state' = [state EXCEPT ![t] = s]
  /\ UNCHANGED readyList

\* thread_setState(t, s) for any other s.
SetNotReady(t, s) ==
  /\ readyList' = IF state[t] = "EReady" THEN Dequeue(readyList, t)
                                         ELSE readyList
  /\ state' = [state EXCEPT ![t] = s]

\* What thread t has not been told of, after one more completion and after it
\* has been given the count (as the result of KExecWaitForAnyRequest).
OneMoreUnreported(t) ==
  unreported' = [unreported EXCEPT ![t] = IF @ < ReqModulus THEN @ + 1 ELSE @]
Reported(t) == unreported' = [unreported EXCEPT ![t] = 0]

\* Mistaken variant: the counter is not confined to its byte.
RequestSignalUnbounded(t) ==
  /\ completedRequests' = [completedRequests EXCEPT ![t] = @ + 1]
  /\ OneMoreUnreported(t)
  /\ IF state[t] = "EWaitForRequest" THEN SetReady(t)
                                     ELSE UNCHANGED << state, readyList >>

\* thread_requestSignal (reached through thread_requestComplete too).
RequestSignal(t) ==
  LET n == (completedRequests[t] + 1) % ReqModulus IN
  IF state[t] = "EWaitForRequest"
    THEN /\ SetReady(t)
         /\ completedRequests' = [completedRequests EXCEPT ![t] = 0]
         /\ Reported(t)
    ELSE /\ completedRequests' = [completedRequests EXCEPT ![t] = n]
         /\ OneMoreUnreported(t)
         /\ UNCHANGED << state, readyList >>

\* scheduleThread(t).
ScheduleThread(t) ==
  /\ timeslice' = Timeslice
  /\ currentThread' = t
  /\ mode' = IF t = DfcThread THEN "dfc" ELSE "usr"
  /\ svc' = "none"

\* reschedule() with the ready list q: findNextReadyThread returns the head
\* (every thread of the list is ready: ReadyListExact), and with nothing to
\* run the processor waits for interrupts with currentThread = NULL.
Reschedule(q) ==
  IF q # << >>
    THEN ScheduleThread(Head(q))
    ELSE /\ currentThread' = None
         /\ mode' = "idle"
         /\ svc' = "none"
         /\ UNCHANGED timeslice

\* dfc_queue called with interrupts disabled: the count and the slot change
\* together.
QueueDfc(fn, t, ptr) ==
  /\ numDfcsPending' = numDfcsPending + 1
  /\ dfcs' = [dfcs EXCEPT ![numDfcsPending + 1] =
                [fn |-> fn, thread |-> t, ptr |-> ptr]]
  /\ UNCHANGED << reserved, cutOff, batch >>

QueueFull == numDfcsPending = MaxDfcs

-----------------------------------------------------------------------------
(* User code and the SVC handlers.  A user thread may make any SVC at any  *)
(* time.  The handler's steps are separate actions wherever it reads or    *)
(* writes state that the interrupt handler also uses.                      *)

InSvc(step) == irq = "none" /\ mode = "svc" /\ svc = step

\* Control passes to the step `next` of the SVC in progress.
Goto(next) ==
  /\ svc' = next
  /\ UNCHANGED << currentThread, mode >>

SvcEntry(step) ==
  /\ irq = "none" /\ mode = "usr"
  /\ mode' = "svc"
  /\ svc' = step
  /\ UNCHANGED << state, readyList, timeslice, countVars,
                  currentThread, irqVars, rescheduleNeeded, reqVars, dfcVars,
                  panic >>

UserSvc == \E step \in Svcs : SvcEntry(step)

\* The end of handleSvc, interrupts disabled: a reschedule asked for during
\* the SVC happens now.
SvcExit ==
  /\ InSvc("svcExit")
  /\ rescheduleNeeded' = FALSE
  /\ IF rescheduleNeeded
       THEN Reschedule(readyList)
       ELSE /\ mode' = "usr"
            /\ svc' = "none"
            /\ UNCHANGED << timeslice, currentThread >>
  /\ UNCHANGED << state, readyList, countVars, irqVars, reqVars,
                  dfcVars, panic >>

\* A blocking SVC ends in reschedule(), which leaves the flag as it is.
SvcReschedule ==
  /\ InSvc("reschedule")
  /\ Reschedule(readyList)
  /\ UNCHANGED << state, readyList, countVars, irqVars,
                  rescheduleNeeded, reqVars, dfcVars, panic >>

\* KExecThreadYield.
SvcYield ==
  /\ InSvc("yield")
  /\ readyList' = YieldInList(readyList, currentThread)
  /\ Goto("reschedule")
  /\ UNCHANGED << state, timeslice, countVars, irqVars,
                  rescheduleNeeded, reqVars, dfcVars, panic >>

\* KExecWaitForAnyRequest: the count is read and, in a later step, the
\* thread blocks; only an interrupt can come in between.
SvcWaitCheck ==
  /\ InSvc("waitCheck")
  /\ IF completedRequests[currentThread] # 0
       THEN /\ completedRequests' =
                 [completedRequests EXCEPT ![currentThread] = 0]
            /\ Reported(currentThread)
            /\ Goto("svcExit")
       ELSE Goto("waitBlock") /\ UNCHANGED countVars
  /\ UNCHANGED << state, readyList, timeslice, irqVars, rescheduleNeeded,
                  reqVars, dfcVars, panic >>

\* Mistaken variant: the thread blocks and returns to user code.
SvcWaitBlockReturns ==
  /\ InSvc("waitBlock")
  /\ SetNotReady(currentThread, "EWaitForRequest")
  /\ Goto("svcExit")
  /\ UNCHANGED << timeslice, countVars, irqVars, rescheduleNeeded,
                  reqVars, dfcVars, panic >>

SvcWaitBlock ==
  /\ InSvc("waitBlock")
  /\ SetNotReady(currentThread, "EWaitForRequest")
  /\ Goto("reschedule")
  /\ UNCHANGED << timeslice, countVars, irqVars, rescheduleNeeded,
                  reqVars, dfcVars, panic >>

\* KExecGetch.  Whether a byte is ready is the business of module Uart; here
\* either answer may come.
SvcGetchCheck ==
  /\ InSvc("getchCheck")
  /\ Goto("svcExit") \/ Goto("getchBlock")
  /\ UNCHANGED << state, readyList, timeslice, countVars, irqVars,
                  rescheduleNeeded, reqVars, dfcVars, panic >>

SvcGetchBlock ==
  /\ InSvc("getchBlock")
  /\ SetNotReady(currentThread, "EBlockedFromSvc")
  /\ Goto("getchRegister")
  /\ UNCHANGED << timeslice, countVars, irqVars, rescheduleNeeded,
                  reqVars, dfcVars, panic >>

SvcGetchRegister ==
  /\ InSvc("getchRegister")
  /\ blockedUart' = currentThread
  /\ Goto("reschedule")
  /\ UNCHANGED << state, readyList, timeslice, countVars, irqVars,
                  rescheduleNeeded, uartRequest, timerRequest, timerArmed,
                  dfcVars, panic >>

\* KExecGetch_Async: complete now, or leave the request for uart_got_char.
SvcGetchAsync ==
  /\ InSvc("getchAsync")
  /\ \/ /\ RequestSignal(currentThread)
        /\ UNCHANGED uartRequest
     \/ /\ uartRequest' = currentThread
        /\ UNCHANGED << state, readyList, countVars >>
  /\ Goto("svcExit")
  /\ UNCHANGED << timeslice, irqVars, rescheduleNeeded, blockedUart,
                  timerRequest, timerArmed, dfcVars, panic >>

\* KExecSetTimer.  One thread owns the timer.  The request is stored first,
\* the new time only then: a tick may fire the old time in between.
SvcSetTimer ==
  /\ InSvc("setTimer")
  /\ IF timerRequest.thread \notin {None, currentThread}
       THEN Goto("svcExit") /\ UNCHANGED timerRequest
       ELSE /\ timerRequest' = [thread |-> currentThread, ptr |-> TRUE]
            /\ Goto("armTimer")
  /\ UNCHANGED << state, readyList, timeslice, countVars, irqVars,
                  rescheduleNeeded, blockedUart, uartRequest, timerArmed,
                  dfcVars, panic >>

SvcArmTimer ==
  /\ InSvc("armTimer")
  /\ \/ \* a time still to come
        /\ timerArmed' = TRUE
        /\ Goto("svcExit")
        /\ UNCHANGED << state, readyList, countVars, timerRequest >>
     \/ \* a time already reached: complete the request here
        /\ timerRequest.ptr
        /\ timerArmed' = FALSE
        /\ timerRequest' = [timerRequest EXCEPT !.ptr = FALSE]
        /\ RequestSignal(timerRequest.thread)
        /\ Goto("svcExit")
  /\ UNCHANGED << timeslice, irqVars, rescheduleNeeded, blockedUart,
                  uartRequest, dfcVars, panic >>

\* ... but the tick has taken the request: the result is written through a
\* NULL userPtr.
SvcArmTimerTaken ==
  /\ InSvc("armTimer")
  /\ ~timerRequest.ptr
  /\ Stop("noUserPtr")

\* KExecCompleteIpcRequest: whose request it is, is the business of module
\* Ipc; it may be any thread's.
SvcSignal ==
  /\ InSvc("signal")
  /\ \E t \in Threads : RequestSignal(t)
  /\ Goto("svcExit")
  /\ UNCHANGED << timeslice, irqVars, rescheduleNeeded, reqVars, dfcVars,
                  panic >>

\* thread_init and thread_setState(t, EReady) on a free slot.
StartThread(t) ==
  /\ state[t] = "EDead"
  /\ SetReady(t)
  /\ completedRequests' = [completedRequests EXCEPT ![t] = 0]
  /\ Reported(t)

\* KExecThreadCreate returns from the middle of handleSvc, whether or not it
\* found a slot and memory: the check at the end of handleSvc is not reached.
SvcThreadCreate ==
  /\ InSvc("threadCreate")
  /\ \/ \E t \in Threads : StartThread(t)
     \/ UNCHANGED << state, readyList, countVars >>
  /\ mode' = "usr"
  /\ svc' = "none"
  /\ UNCHANGED << timeslice, currentThread, irqVars, rescheduleNeeded,
                  reqVars, dfcVars, panic >>

\* KExecCreateProcess: the new process's first thread runs at once; the
\* caller stays ready.
SvcCreateProcess ==
  /\ InSvc("createProcess")
  /\ \/ \E t \in Threads : StartThread(t) /\ ScheduleThread(t)
     \/ /\ Goto("svcExit")
        /\ UNCHANGED << state, readyList, countVars, timeslice >>
  /\ UNCHANGED << irqVars, rescheduleNeeded, reqVars, dfcVars, panic >>

\* thread_exit, and in it the dfc_queue of k/scheduler_arm.c, which takes its
\* slot number with interrupts enabled and fills the slot afterwards.
SvcThreadExit ==
  /\ InSvc("threadExit")
  /\ SetNotReady(currentThread, "EDying")
  /\ cutOff' = cutOff \ {currentThread}
  /\ Goto("dfcReserve")
  /\ UNCHANGED << timeslice, countVars, irqVars, rescheduleNeeded, reqVars,
                  numDfcsPending, dfcs, reserved, batch, panic >>

SvcDfcReserve ==
  /\ InSvc("dfcReserve")
  /\ \/ QueueFull /\ Stop("dfcOverflow")
     \/ /\ ~QueueFull
        /\ numDfcsPending' = numDfcsPending + 1
        /\ reserved' = numDfcsPending + 1
        /\ Goto("dfcWrite")
        /\ UNCHANGED << state, readyList, timeslice, countVars,
                        irqVars, rescheduleNeeded, reqVars, dfcs, cutOff,
                        batch, panic >>

SvcDfcWrite ==
  /\ InSvc("dfcWrite")
  /\ dfcs' = [dfcs EXCEPT ![reserved] =
                [fn |-> "threadExit_dfc", thread |-> currentThread,
                 ptr |-> FALSE]]
  /\ reserved' = 0
  /\ Goto("reschedule")
  /\ UNCHANGED << state, readyList, timeslice, countVars, irqVars,
                  rescheduleNeeded, reqVars, numDfcsPending, cutOff, batch,
                  panic >>

Svc == \/ SvcExit \/ SvcReschedule \/ SvcYield \/ SvcWaitCheck
       \/ SvcWaitBlock \/ SvcGetchCheck \/ SvcGetchBlock \/ SvcGetchRegister
       \/ SvcGetchAsync \/ SvcSetTimer \/ SvcArmTimer \/ SvcArmTimerTaken
       \/ SvcSignal \/ SvcThreadCreate \/ SvcCreateProcess \/ SvcThreadExit
       \/ SvcDfcReserve \/ SvcDfcWrite

\* reschedule() after its WFI.
IdleLoop ==
  /\ irq = "none" /\ mode = "idle"
  /\ readyList # << >>
  /\ Reschedule(readyList)
  /\ UNCHANGED << state, readyList, countVars, irqVars,
                  rescheduleNeeded, reqVars, dfcVars, panic >>

-----------------------------------------------------------------------------
(* The DFC thread: dfcs_run, interrupts enabled, never preempted.          *)

InDfc == irq = "none" /\ mode = "dfc"

\* One round of the loop.
DfcStep ==
  /\ InDfc /\ batch # << >>
  /\ LET dfc == Head(batch) IN
     \/ /\ dfc.fn = "do_request_complete" /\ dfc.ptr
        /\ RequestSignal(dfc.thread)
        /\ UNCHANGED cutOff
     \/ /\ dfc.fn = "threadExit_dfc"
        /\ SetNotReady(dfc.thread, "EDead")
        /\ cutOff' = cutOff \ {dfc.thread}
        /\ UNCHANGED countVars
  /\ batch' = Tail(batch)
  /\ UNCHANGED << timeslice, cpuVars, irqVars, rescheduleNeeded, reqVars,
                  numDfcsPending, dfcs, reserved, panic >>

\* ASSERT(req.userPtr) in do_request_complete; a call through a zero slot.
DfcStepFails ==
  /\ InDfc /\ batch # << >>
  /\ LET dfc == Head(batch) IN
     \/ dfc.fn = "do_request_complete" /\ ~dfc.ptr /\ Stop("noUserPtr")
     \/ dfc.fn = "null" /\ Stop("dfcNull")

\* Mistaken variant: the DFC thread stops with DFCs left to run.
DfcsDoneEarly ==
  /\ InDfc
  /\ SetNotReady(DfcThread, "EBlockedFromSvc")
  /\ Reschedule(Dequeue(readyList, DfcThread))
  /\ UNCHANGED << countVars, irqVars, rescheduleNeeded, reqVars,
                  dfcVars, panic >>

\* The end of dfcs_run, interrupts disabled.
DfcsDone ==
  /\ InDfc /\ batch = << >>
  /\ SetNotReady(DfcThread, "EBlockedFromSvc")
  /\ Reschedule(Dequeue(readyList, DfcThread))
  /\ UNCHANGED << countVars, irqVars, rescheduleNeeded, reqVars,
                  dfcVars, panic >>

DfcRun == DfcStep \/ DfcStepFails \/ DfcsDone

-----------------------------------------------------------------------------
(* The interrupt handler: handleIrq and what it calls.                     *)

\* tick(), first half: a timer that is due hands its request to a DFC.
IrqTick ==
  /\ irq = "none"
  /\ \/ /\ irq' = "slice"
        /\ UNCHANGED << reqVars, dfcVars >>
     \/ /\ timerArmed /\ ~QueueFull
        /\ timerArmed' = FALSE
        /\ timerRequest' = [timerRequest EXCEPT !.ptr = FALSE]
        /\ QueueDfc("do_request_complete", timerRequest.thread,
                    timerRequest.ptr)
        /\ irq' = "slice"
        /\ UNCHANGED << blockedUart, uartRequest >>
  /\ UNCHANGED << state, readyList, timeslice, countVars, cpuVars,
                  irqResched, rescheduleNeeded, panic >>

IrqTickOverflow ==
  /\ irq = "none" /\ timerArmed /\ QueueFull
  /\ Stop("dfcOverflow")

SliceApplies == currentThread # None /\ state[currentThread] = "EReady"

\* tick(), second half: the current thread's timeslice.  The character of a
\* uart interrupt pending at the same time is handled next.
IrqSlice ==
  /\ irq = "slice"
  /\ irq' \in {"uart", "checkDfcs"}
  /\ \/ ~SliceApplies /\ UNCHANGED << timeslice, readyList, irqResched >>
     \/ /\ SliceApplies /\ timeslice > 1
        /\ timeslice' = timeslice - 1
        /\ UNCHANGED << readyList, irqResched >>
     \/ /\ SliceApplies /\ timeslice = 1
        /\ timeslice' = 0
        /\ readyList' = YieldInList(readyList, currentThread)
        /\ irqResched' = TRUE
     \/ /\ SliceApplies /\ timeslice = 0 /\ mode # "usr"
        /\ irqResched' = TRUE
        /\ UNCHANGED << timeslice, readyList >>
  /\ UNCHANGED << state, countVars, cpuVars, rescheduleNeeded,
                  reqVars, dfcVars, panic >>

\* ASSERT(threadWasInSvc).
IrqSliceFails ==
  /\ irq = "slice"
  /\ SliceApplies /\ timeslice = 0 /\ mode = "usr"
  /\ Stop("tickSlice")

\* Mistaken variant: the request is completed in the interrupt handler.
IrqUartCompletes ==
  /\ irq \in {"none", "uart"}
  /\ irq' = "checkDfcs"
  /\ blockedUart = None
  /\ IF uartRequest # None
       THEN /\ RequestSignal(uartRequest)
            /\ uartRequest' = None
       ELSE UNCHANGED << state, readyList, countVars, uartRequest >>
  /\ UNCHANGED << timeslice, cpuVars, irqResched, rescheduleNeeded, dfcVars,
                  blockedUart, timerRequest, timerArmed, panic >>

\* uart_got_char: wake a thread blocked in KExecGetch, or complete the
\* asynchronous request in a DFC, or keep the byte (module Uart).
IrqUart ==
  /\ irq \in {"none", "uart"}
  /\ irq' = "checkDfcs"
  /\ \/ /\ blockedUart # None /\ ~Linked(blockedUart)
        /\ SetReady(blockedUart)
        /\ blockedUart' = None
        /\ UNCHANGED << uartRequest, dfcVars >>
     \/ /\ blockedUart = None /\ uartRequest # None /\ ~QueueFull
        /\ uartRequest' = None
        /\ QueueDfc("do_request_complete", uartRequest, TRUE)
        /\ UNCHANGED << state, readyList, blockedUart >>
     \/ /\ blockedUart = None /\ uartRequest = None
        /\ UNCHANGED << state, readyList, blockedUart, uartRequest, dfcVars >>
  /\ UNCHANGED << timeslice, countVars, cpuVars, irqResched,
                  rescheduleNeeded, timerRequest, timerArmed, panic >>

IrqUartFails ==
  /\ irq \in {"none", "uart"}
  /\ \/ blockedUart # None /\ Linked(blockedUart) /\ Stop("enqueueLinked")
     \/ /\ blockedUart = None /\ uartRequest # None /\ QueueFull
        /\ Stop("dfcOverflow")

\* The thread of a dfc_queue that has counted its slot and not filled it, if
\* this slot is among those pending.
HalfQueued ==
  IF svc = "dfcWrite" /\ reserved <= numDfcsPending THEN {currentThread} ELSE {}

\* Mistaken variant: it does not ask whether the DFC thread has a batch.
IrqCheckDfcsAlways ==
  /\ irq = "checkDfcs"
  /\ irq' = "return"
  /\ IF numDfcsPending = 0
       THEN UNCHANGED << state, readyList, numDfcsPending, cutOff, batch,
                         irqResched >>
       ELSE /\ IF state[DfcThread] = "EReady" THEN UNCHANGED << state, readyList >>
                                             ELSE SetReady(DfcThread)
            /\ numDfcsPending' = 0
            /\ cutOff' = cutOff \cup HalfQueued
            /\ batch' = SubSeq(dfcs, 1, numDfcsPending)
            /\ irqResched' = TRUE
  /\ UNCHANGED << timeslice, countVars, cpuVars, rescheduleNeeded, reqVars,
                  dfcs, reserved, panic >>

\* irq_checkDfcs: hand the pending DFCs to the DFC thread, unless it is
\* already running or waiting to run.
IrqCheckDfcs ==
  /\ irq = "checkDfcs"
  /\ irq' = "return"
  /\ IF state[DfcThread] = "EReady" \/ numDfcsPending = 0
       THEN UNCHANGED << state, readyList, numDfcsPending, cutOff, batch,
                         irqResched >>
       ELSE /\ SetReady(DfcThread)
            /\ numDfcsPending' = 0
            /\ cutOff' = cutOff \cup HalfQueued
            /\ batch' = SubSeq(dfcs, 1, numDfcsPending)
            /\ irqResched' = TRUE
  /\ UNCHANGED << timeslice, countVars, cpuVars, rescheduleNeeded, reqVars,
                  dfcs, reserved, panic >>

\* Mistaken variant: the mode is not looked at.
IrqReturnAlwaysReschedules ==
  /\ irq = "return"
  /\ irq' = "none"
  /\ irqResched' = FALSE
  /\ IF irqResched THEN Reschedule(readyList)
                   ELSE UNCHANGED << timeslice, cpuVars >>
  /\ UNCHANGED << state, readyList, countVars, rescheduleNeeded,
                  reqVars, dfcVars, panic >>

\* Mistaken variant: the SVC is not told.
IrqReturnForgets ==
  /\ irq = "return"
  /\ irq' = "none"
  /\ irqResched' = FALSE
  /\ IF irqResched /\ mode = "usr" THEN Reschedule(readyList)
                                   ELSE UNCHANGED << timeslice, cpuVars >>
  /\ UNCHANGED << state, readyList, countVars, rescheduleNeeded,
                  reqVars, dfcVars, panic >>

\* The end of handleIrq: reschedule a user thread; an SVC, the DFC thread and
\* the WFI in reschedule() are only told to.
IrqReturn ==
  /\ irq = "return"
  /\ irq' = "none"
  /\ irqResched' = FALSE
  /\ IF irqResched /\ mode = "usr"
       THEN Reschedule(readyList) /\ UNCHANGED rescheduleNeeded
       ELSE /\ rescheduleNeeded' = (rescheduleNeeded \/ irqResched)
            /\ UNCHANGED << timeslice, cpuVars >>
  /\ UNCHANGED << state, readyList, countVars, reqVars, dfcVars,
                  panic >>

Irq == \/ IrqTick \/ IrqTickOverflow \/ IrqSlice \/ IrqSliceFails
       \/ IrqUart \/ IrqUartFails \/ IrqCheckDfcs \/ IrqReturn

-----------------------------------------------------------------------------
Next == UserSvc \/ Svc \/ IdleLoop \/ DfcRun \/ Irq

Spec == Init /\ [][Next]_vars

-----------------------------------------------------------------------------
TypeOK ==
  /\ state \in [AllThreads -> ThreadStates]
  /\ readyList \in Seq(AllThreads)
  /\ timeslice \in 0..Timeslice
  /\ completedRequests \in [Threads -> 0..(ReqModulus - 1)]
  /\ unreported \in [Threads -> 0..ReqModulus]
  /\ currentThread \in AllThreads \cup {None}
  /\ mode \in {"usr", "svc", "dfc", "idle"}
  /\ svc \in SvcSteps
  /\ irq \in {"none", "slice", "uart", "checkDfcs", "return", "stopped"}
  /\ irqResched \in BOOLEAN
  /\ rescheduleNeeded \in BOOLEAN
  /\ blockedUart \in Threads \cup {None}
  /\ uartRequest \in Threads \cup {None}
  /\ timerRequest \in [thread : Threads \cup {None}, ptr : BOOLEAN]
  /\ timerArmed \in BOOLEAN
  /\ numDfcsPending \in 0..MaxDfcs
  /\ dfcs \in [1..MaxDfcs -> Dfcs]
  /\ reserved \in 0..MaxDfcs
  /\ cutOff \in SUBSET Threads
  /\ batch \in Seq(Dfcs)
  /\ panic \in Panics

\* The ready list holds every ready thread once and no other thread: what
\* lets findNextReadyThread stop at the head, and keeps the assertion of
\* thread_enqueueBefore quiet, whatever interrupts and SVCs did before.
ReadyListExact ==
  /\ Distinct(readyList)
  /\ \A t \in AllThreads : Contains(readyList, t) <=> state[t] = "EReady"

\* No thread sleeps in KExecWaitForAnyRequest on requests that completed and
\* that it was never told of (modules/runloop.lua: "blocks the thread until
\* any request completes"): no completion falls between the check and the block, and none
\* is lost on the way to the count.  The one way there is left is the byte: a
\* thread sleeps on ReqModulus completions or more when they have taken the
\* count round to zero.
NoLostWakeup ==
  \A t \in Threads :
    state[t] = "EWaitForRequest" => unreported[t] \in {0, ReqModulus}

\* A thread whose timeslice ran out keeps the processor only while a
\* reschedule is on order: the tick that expired it, or the flag of the SVC.
ExpiredSliceHasReschedule ==
  /\ currentThread # None
  /\ state[currentThread] = "EReady"
  /\ timeslice = 0
  => rescheduleNeeded \/ irqResched

\* While the DFC thread has DFCs of a batch left to run it is ready, so the
\* interrupt handler cannot copy another batch over them.
BatchIsOwned == batch # << >> => state[DfcThread] = "EReady"

\* A thread that is dying has its clean-up on the way: in its own SVC, among the
\* pending DFCs or with the DFC thread.  doc/internals.md says that DFCs queued
\* by SVC code get picked up after the next interrupt; that is so but for the
\* threads in cutOff, whose slot was picked up before it was filled.
CleanUpOf(t) == [fn |-> "threadExit_dfc", thread |-> t, ptr |-> FALSE]
DyingIsCleanedUp ==
  \A t \in Threads \ cutOff : state[t] = "EDying" =>
    \/ currentThread = t /\ svc \in {"dfcReserve", "dfcWrite"}
    \/ \E i \in 1..numDfcsPending : dfcs[i] = CleanUpOf(t)
    \/ Contains(batch, CleanUpOf(t))

\* Whoever has the processor may have it: user code runs only in a thread that
\* is ready, an SVC only in a thread that is ready or that is on its way to
\* reschedule() after blocking itself, and reschedule() waits for interrupts
\* in no thread's name.
WhoRuns ==
  /\ mode \in {"usr", "svc"} =>
       /\ currentThread \in Threads
       /\ \/ state[currentThread] = "EReady"
          \/ /\ mode = "svc"
             /\ svc \in {"getchRegister", "dfcReserve", "dfcWrite",
                         "reschedule"}
  /\ mode = "dfc" => currentThread = DfcThread /\ state[DfcThread] = "EReady"
  /\ mode = "idle" => currentThread = None

\* No interrupt takes the processor from an SVC or from the DFC thread; an
\* SVC gives it up at its end, by blocking, or to the process it creates
\* (doc/internals.md: no thread may preempt another thread in an SVC).
SvcNotPreempted ==
  [][ \/ mode \notin {"svc", "dfc"}
      \/ UNCHANGED currentThread
      \/ svc \in {"svcExit", "reschedule", "createProcess"}
      \/ InDfc /\ batch = << >> ]_vars

-----------------------------------------------------------------------------
(* Liveness.  The timer interrupt keeps coming: it stays pending in the    *)
(* hardware until the handler clears it.  Kernel code keeps running: an    *)
(* interrupt handler is far shorter than the time between interrupts.      *)
(* Nothing is assumed of user code, which may spin, nor of the uart.       *)
Fairness ==
  /\ SF_vars(IrqTick \/ IrqTickOverflow)
  /\ WF_vars(irq # "none" /\ Irq)
  /\ SF_vars(Svc \/ DfcRun \/ IdleLoop)

FairSpec == Spec /\ Fairness

\* A claim of the source that the kernel does not keep: a ready thread gets to
\* run (doc/internals.md calls the ready list round-robin, and thread_yield in
\* k/scheduler.c says that it moves the thread to the end of the list).  It
\* holds for two threads.
ReadyThreadRuns ==
  \A t \in Threads :
    state[t] = "EReady" ~>
      currentThread = t \/ state[t] # "EReady" \/ panic # "none"
=============================================================================
