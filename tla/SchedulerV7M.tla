--------------------------- MODULE SchedulerV7M ---------------------------
(***************************************************************************)
(* The thread scheduler of the ARMv7-M (tilda) kernel, where SVC and       *)
(* PendSV are exceptions of one lowest priority: sysTick, the uart and the *)
(* buttons interrupt both, PendSV runs the DFCs and the reschedules of     *)
(* expired timeslices once no SVC is in progress, and an SVC that finds no *)
(* ready thread lets PendSV run inside it while it waits.                  *)
(*                                                                         *)
(* The audio and sysTick interrupt the handlers of the uart and of the     *)
(* buttons too.  A handler is one step here where that makes no difference: *)
(* what those two change is the queue of DFCs, with interrupts disabled,   *)
(* and the ready list.  Where sysTick, or the uart, comes within a change  *)
(* of the ready list the model stops: what the list is then is module      *)
(* ThreadList's.                                                           *)
(***************************************************************************)
EXTENDS Integers, Sequences, FiniteSets, ReadyList

CONSTANTS
  Threads,     \* the slots of Process.threads
  None,
  Timeslice,   \* THREAD_TIMESLICE, in ticks
  MaxDfcs,     \* MAX_DFCS
  ReqModulus,  \* Thread.completedRequests is a byte
  BufSize,     \* samples that fit in an input request
  Makes        \* the SVCs that each thread makes

\* The SVCs, by their first steps.
Svcs == {"yield", "waitCheck", "getchBlock", "getchAsync", "setTimer", "setInput",
         "threadCreate", "threadExit"}

ASSUME SchedulerV7MAssumption ==
  /\ None \notin Threads
  /\ Timeslice \in Nat \ {0} /\ BufSize \in Nat \ {0}
  /\ MaxDfcs \in Nat
  /\ ReqModulus \in Nat \ {0, 1}
  /\ Makes \in [Threads -> SUBSET Svcs]

VARIABLES
  state, readyList, timeslice, completedRequests,
  currentThread,
  svc,            \* the next step of the SVC that is active, or "none"
  pendSv,         \* the next step of the PendSV that is active, or "none"
  pendSvPending,  \* ICSR.PENDSVSET
  reschedNeeded,  \* rescheduleNeededOnPendSvExit
  found,          \* the local t of reschedule
  dfcs,           \* TheSuperPage->dfcs up to numDfcsPending
  batch,          \* the DFCs that doPendSv has still to run
  blockedUart,    \* blockedUartReceiveIrqHandler
  uartRequest,    \* uartRequest.thread, None if its userPtr is not set
  timer,          \* timerRequest, and whether timerCompletionTime is set
  input,          \* inputRequest, and inputRequestBufferPos
  panic,          \* what stopped the kernel, or ended what can be said of it
  raced           \* a button has gone down inside completeInputRequest_dfc

threadVars == << state, readyList, completedRequests >>
runVars == << timeslice, currentThread, found >>
pendVars == << pendSv, pendSvPending, reschedNeeded >>
dfcVars == << dfcs, batch >>
requestVars == << blockedUart, uartRequest, timer, input >>
endVars == << panic, raced >>
vars == << threadVars, runVars, svc, pendVars, dfcVars, requestVars, endVars >>

Init ==
  \E first \in Threads :
    /\ state = [t \in Threads |-> IF t = first THEN "EReady" ELSE "EDead"]
    /\ readyList = << first >> /\ timeslice = Timeslice
    /\ completedRequests = [t \in Threads |-> 0]
    /\ currentThread = first
    /\ svc = "none" /\ pendSv = "none" /\ pendSvPending = FALSE
    /\ reschedNeeded = FALSE /\ found = None
    /\ dfcs = << >> /\ batch = << >>
    /\ blockedUart = None /\ uartRequest = None
    /\ timer = [thread |-> None, ptr |-> FALSE, armed |-> FALSE]
    /\ input = [thread |-> None, ptr |-> FALSE, pos |-> 0]
    /\ panic = "none" /\ raced = FALSE

-----------------------------------------------------------------------------
SetReady(t) ==
  /\ readyList' = PushHead(readyList, t)
  /\ state' = [state EXCEPT ![t] = "EReady"]

SetNotReady(t, s) ==
  /\ readyList' = IF state[t] = "EReady" THEN Dequeue(readyList, t) ELSE readyList
  /\ state' = [state EXCEPT ![t] = s]

\* thread_requestSignal.
RequestSignal(t) ==
  IF state[t] = "EWaitForRequest"
  THEN SetReady(t) /\ completedRequests' = [completedRequests EXCEPT ![t] = 0]
  ELSE /\ completedRequests' = [completedRequests EXCEPT
                                  ![t] = (@ + 1) % ReqModulus]
       /\ UNCHANGED << state, readyList >>

Dfc(fn, t, ptr) == [fn |-> fn, thread |-> t, ptr |-> ptr]
InputDfc == Dfc("completeInputRequest_dfc", None, FALSE)
AudioDfc == Dfc("fillAudioBuf_dfc", None, FALSE)

\* dfc_queue asserts that there is a slot left.
Room == Len(dfcs) < MaxDfcs

\* An assertion fails, or something is written through a NULL pointer; what the
\* processor makes of that is not followed.
Stop(why) ==
  /\ panic' = why
  /\ UNCHANGED << threadVars, runVars, svc, pendVars, dfcVars, requestVars, raced >>

\* scheduleThread, which ends the exception it is called in.
ScheduleThread(t) ==
  /\ timeslice' = Timeslice /\ currentThread' = t /\ found' = None

-----------------------------------------------------------------------------
(* Interrupts                                                              *)

SliceApplies == currentThread # None /\ state[currentThread] = "EReady"

\* Mistaken variant: the expired timeslice is only noted.
TickUnpended ==
  LET expires == SliceApplies /\ timeslice <= 1 IN
  /\ timeslice' = IF SliceApplies /\ timeslice > 0 THEN timeslice - 1 ELSE timeslice
  /\ readyList' = IF expires THEN YieldInList(readyList, currentThread) ELSE readyList
  /\ reschedNeeded' = (reschedNeeded \/ expires)
  /\ UNCHANGED << dfcs, timer, pendSvPending, state, completedRequests,
                  currentThread, found, svc, pendSv, batch, blockedUart,
                  uartRequest, input, endVars >>

\* sysTick: a timer that is due, and the current thread's timeslice.
Tick ==
  LET expires == SliceApplies /\ timeslice <= 1 IN
  /\ timeslice' = IF SliceApplies /\ timeslice > 0 THEN timeslice - 1 ELSE timeslice
  /\ readyList' = IF expires THEN YieldInList(readyList, currentThread) ELSE readyList
  /\ reschedNeeded' = (reschedNeeded \/ expires)
  /\ \/ /\ timer.armed /\ Room
        /\ dfcs' = Append(dfcs, Dfc("do_request_complete", timer.thread, timer.ptr))
        /\ timer' = [timer EXCEPT !.ptr = FALSE, !.armed = FALSE]
        /\ pendSvPending' = TRUE
     \/ /\ UNCHANGED << dfcs, timer >>
        /\ pendSvPending' = (pendSvPending \/ expires)
  /\ UNCHANGED << state, completedRequests, currentThread, found, svc, pendSv,
                  batch, blockedUart, uartRequest, input, endVars >>

\* uart_got_char wakes the thread that is blocked in KExecGetch, ...
UartByte ==
  /\ blockedUart # None
  /\ SetReady(blockedUart)
  /\ blockedUart' = None
  /\ UNCHANGED << completedRequests, runVars, svc, pendVars, dfcVars,
                  uartRequest, timer, input, endVars >>

\* ... or has the request of KExecGetch_Async completed.  What else it does with
\* a byte is module UartInput's.
UartByteAsync ==
  /\ blockedUart = None /\ uartRequest # None /\ Room
  /\ dfcs' = Append(dfcs, Dfc("do_request_complete", uartRequest, TRUE))
  /\ uartRequest' = None /\ pendSvPending' = TRUE
  /\ UNCHANGED << threadVars, runVars, svc, pendSv, reschedNeeded, batch,
                  blockedUart, timer, input, endVars >>

\* buttonEvent, while there is a request: the first sample queues the DFC, and
\* those that do not fit are dropped.  (Those beyond BufSize + 1 are not counted.)
Press ==
  /\ input.ptr /\ input.pos <= BufSize
  /\ input' = [input EXCEPT !.pos = @ + 1]
  /\ IF input.pos = 0
     THEN Room /\ dfcs' = Append(dfcs, InputDfc) /\ pendSvPending' = TRUE
     ELSE UNCHANGED << dfcs, pendSvPending >>
  /\ raced' = (raced \/ pendSv = "inputDone")
  /\ UNCHANGED << threadVars, runVars, svc, pendSv, reschedNeeded, batch,
                  blockedUart, uartRequest, timer, panic >>

\* daccInterrupt, where sound is played, at the middle or the end of the buffer.
\* If the half before is not filled yet the kernel aborts, which is left out.
Dacc ==
  /\ AudioDfc \notin Range(dfcs \o batch) /\ Room
  /\ dfcs' = Append(dfcs, AudioDfc) /\ pendSvPending' = TRUE
  /\ UNCHANGED << threadVars, runVars, svc, pendSv, reschedNeeded, batch,
                  requestVars, endVars >>

\* dfc_queue where all MAX_DFCS slots are taken: the assertion fails.
DfcQueueFails ==
  /\ ~Room
  /\ \/ timer.armed \/ (blockedUart = None /\ uartRequest # None)
     \/ (input.ptr /\ input.pos = 0) \/ AudioDfc \notin Range(dfcs \o batch)
  /\ Stop("tooManyDfcs")

\* The ready list is being changed: thread_yield and thread_setState in an SVC
\* and in a DFC, which may be interrupted.
ListIsChanging ==
  LET Wakes(t) == t # None /\ state[t] = "EWaitForRequest" IN
  \/ /\ pendSv = "none"
     /\ svc \in {"yield", "waitBlock", "getchBlock", "threadCreate", "threadExit"}
  \/ /\ pendSv = "run" /\ batch # << >>
     /\ Head(batch).fn = "do_request_complete" /\ Wakes(Head(batch).thread)
  \/ pendSv = "inputDone" /\ Wakes(input.thread)

\* sysTick's thread_yield or uart_got_char's thread_setState in the middle of
\* that, or the first of them in the middle of the second.
ListIsTorn ==
  LET yields == SliceApplies /\ timeslice <= 1 IN
  /\ \/ ListIsChanging /\ (yields \/ blockedUart # None)
     \/ yields /\ blockedUart # None
  /\ Stop("tornList")

Interrupt ==
  \/ Tick \/ UartByte \/ UartByteAsync \/ Press \/ Dacc
  \/ DfcQueueFails \/ ListIsTorn

-----------------------------------------------------------------------------
(* SVCs                                                                    *)

\* A pending PendSV is taken before the thread's next instruction.
Call(step) ==
  /\ svc = "none" /\ pendSv = "none" /\ ~pendSvPending
  /\ svc' = step
  /\ UNCHANGED << threadVars, runVars, pendVars, dfcVars, requestVars, endVars >>

\* An SVC is not interrupted by PendSV but where it is idle.
InSvc(step) == svc = step /\ pendSv = "none"

SvcYield ==
  /\ InSvc("yield")
  /\ readyList' = YieldInList(readyList, currentThread)
  /\ svc' = "find"
  /\ UNCHANGED << state, completedRequests, runVars, pendVars, dfcVars,
                  requestVars, endVars >>

SvcWaitCheck ==
  /\ InSvc("waitCheck")
  /\ IF completedRequests[currentThread] # 0
     THEN /\ completedRequests' = [completedRequests EXCEPT ![currentThread] = 0]
          /\ svc' = "none"
     ELSE svc' = "waitBlock" /\ UNCHANGED completedRequests
  /\ UNCHANGED << state, readyList, runVars, pendVars, dfcVars, requestVars,
                  endVars >>

SvcWaitBlock ==
  /\ InSvc("waitBlock")
  /\ SetNotReady(currentThread, "EWaitForRequest")
  /\ svc' = "find"
  /\ UNCHANGED << completedRequests, runVars, pendVars, dfcVars, requestVars,
                  endVars >>

\* KExecGetch without a byte to return, which is module UartInput's to tell.
SvcGetchBlock ==
  /\ InSvc("getchBlock")
  /\ SetNotReady(currentThread, "EBlockedFromSvc")
  /\ svc' = "getchRegister"
  /\ UNCHANGED << completedRequests, runVars, pendVars, dfcVars, requestVars,
                  endVars >>

SvcGetchRegister ==
  /\ InSvc("getchRegister")
  /\ blockedUart' = currentThread
  /\ svc' = "find"
  /\ UNCHANGED << threadVars, runVars, pendVars, dfcVars, uartRequest, timer,
                  input, endVars >>

\* KExecGetch_Async: with a byte the request is completed at once; without, its
\* thread is stored first, ...
SvcGetchAsync ==
  /\ InSvc("getchAsync")
  /\ \/ /\ RequestSignal(currentThread) /\ svc' = "none"
        /\ UNCHANGED uartRequest
     \/ /\ uartRequest' = IF uartRequest = None THEN None ELSE currentThread
        /\ svc' = "asyncStore"
        /\ UNCHANGED threadVars
  /\ UNCHANGED << runVars, pendVars, dfcVars, blockedUart, timer, input,
                  endVars >>

\* ... and then its userPtr.
SvcAsyncStore ==
  /\ InSvc("asyncStore")
  /\ uartRequest' = currentThread /\ svc' = "none"
  /\ UNCHANGED << threadVars, runVars, pendVars, dfcVars, blockedUart, timer,
                  input, endVars >>

\* KExecSetTimer: another thread's timer is left alone.
SvcSetTimer ==
  /\ InSvc("setTimer")
  /\ IF timer.thread \in {None, currentThread}
     THEN /\ timer' = [timer EXCEPT !.thread = currentThread, !.ptr = TRUE]
          /\ svc' = "armTimer"
     ELSE svc' = "none" /\ UNCHANGED timer
  /\ UNCHANGED << threadVars, runVars, pendVars, dfcVars, blockedUart,
                  uartRequest, input, endVars >>

\* A time to come, or one that has been reached: thread_requestComplete.
SvcArmTimer ==
  /\ InSvc("armTimer")
  /\ \/ /\ timer' = [timer EXCEPT !.armed = TRUE]
        /\ UNCHANGED << threadVars >>
     \/ /\ timer.ptr
        /\ timer' = [timer EXCEPT !.ptr = FALSE, !.armed = FALSE]
        /\ RequestSignal(currentThread)
  /\ svc' = "none"
  /\ UNCHANGED << runVars, pendVars, dfcVars, blockedUart, uartRequest, input,
                  endVars >>

SvcArmTimerTaken == InSvc("armTimer") /\ ~timer.ptr /\ Stop("noUserPtr")

\* kern_setInputRequest.
SvcSetInput ==
  /\ InSvc("setInput")
  /\ input.ptr \/ input.thread \in {None, currentThread}
  /\ input' = IF input.ptr THEN input
              ELSE [input EXCEPT !.thread = currentThread, !.ptr = TRUE]
  /\ svc' = "none"
  /\ UNCHANGED << threadVars, runVars, pendVars, dfcVars, blockedUart,
                  uartRequest, timer, endVars >>

SvcSetInputOther ==
  /\ InSvc("setInput")
  /\ ~input.ptr /\ input.thread \notin {None, currentThread}
  /\ Stop("otherInputThread")

SvcThreadCreate ==
  /\ InSvc("threadCreate")
  /\ \/ \E t \in Threads :
          /\ state[t] = "EDead" /\ SetReady(t)
          /\ completedRequests' = [completedRequests EXCEPT ![t] = 0]
     \/ UNCHANGED threadVars
  /\ svc' = "none"
  /\ UNCHANGED << runVars, pendVars, dfcVars, requestVars, endVars >>

SvcThreadExit ==
  /\ InSvc("threadExit")
  /\ SetNotReady(currentThread, "EDying")
  /\ svc' = "exitQueue"
  /\ UNCHANGED << completedRequests, runVars, pendVars, dfcVars, requestVars,
                  endVars >>

\* dfc_queue, which disables interrupts but for its last statement, the one that
\* makes PendSV pending; no PendSV is taken in an SVC before it either way.
SvcExitQueue ==
  /\ InSvc("exitQueue") /\ Room
  /\ dfcs' = Append(dfcs, Dfc("threadExit_dfc", currentThread, FALSE))
  /\ pendSvPending' = TRUE
  /\ svc' = "find"
  /\ UNCHANGED << threadVars, runVars, pendSv, reschedNeeded, batch,
                  requestVars, endVars >>

SvcExitQueueFails == InSvc("exitQueue") /\ ~Room /\ Stop("tooManyDfcs")

\* reschedule: the first ready thread, or the wait for one, with the priority
\* of PendSV raised.
SvcFind ==
  /\ InSvc("find")
  /\ IF readyList # << >>
     THEN found' = Head(readyList) /\ svc' = "schedule" /\ UNCHANGED currentThread
     ELSE currentThread' = None /\ svc' = "idle" /\ UNCHANGED found
  /\ UNCHANGED << threadVars, timeslice, pendVars, dfcVars, requestVars, endVars >>

\* After the WFI, with interrupts disabled.  (The interrupt that ends it is not
\* told from others: a thread made ready just before it waits for the next.)
SvcIdleFind ==
  /\ InSvc("idle") /\ ~pendSvPending /\ readyList # << >>
  /\ found' = Head(readyList) /\ svc' = "schedule"
  /\ UNCHANGED << threadVars, timeslice, currentThread, pendVars, dfcVars,
                  requestVars, endVars >>

SvcSchedule ==
  /\ InSvc("schedule")
  /\ ScheduleThread(found)
  /\ svc' = "none"
  /\ UNCHANGED << threadVars, pendVars, dfcVars, requestVars, endVars >>

SvcStep ==
  \/ SvcYield \/ SvcWaitCheck \/ SvcWaitBlock \/ SvcGetchBlock \/ SvcGetchRegister
  \/ SvcGetchAsync \/ SvcAsyncStore
  \/ SvcSetTimer \/ SvcArmTimer \/ SvcArmTimerTaken
  \/ SvcSetInput \/ SvcSetInputOther \/ SvcThreadCreate
  \/ SvcThreadExit \/ SvcExitQueue \/ SvcExitQueueFails
  \/ SvcFind \/ SvcIdleFind \/ SvcSchedule

-----------------------------------------------------------------------------
(* PendSV                                                                  *)

\* Mistaken variant: the priority is not raised in reschedule.
PendSvEnterNotIdle ==
  /\ pendSvPending /\ pendSv = "none" /\ svc = "none"
  /\ pendSvPending' = FALSE /\ pendSv' = "copy"
  /\ UNCHANGED << threadVars, runVars, svc, reschedNeeded, dfcVars,
                  requestVars, endVars >>

\* Mistaken variant: the priority is above that of SVCs.
PendSvEnterAnytime ==
  /\ pendSvPending /\ pendSv = "none"
  /\ pendSvPending' = FALSE /\ pendSv' = "copy"
  /\ UNCHANGED << threadVars, runVars, svc, reschedNeeded, dfcVars,
                  requestVars, endVars >>

\* The exception is taken from a thread or from an SVC that is idle.
PendSvEnter ==
  /\ pendSvPending /\ pendSv = "none" /\ svc \in {"none", "idle"}
  /\ pendSvPending' = FALSE /\ pendSv' = "copy"
  /\ UNCHANGED << threadVars, runVars, svc, reschedNeeded, dfcVars,
                  requestVars, endVars >>

\* doPendSv, interrupts disabled.
PendSvCopy ==
  /\ pendSv = "copy"
  /\ batch' = dfcs /\ dfcs' = << >>
  /\ pendSv' = "run"
  /\ UNCHANGED << threadVars, runVars, svc, pendSvPending, reschedNeeded,
                  requestVars, endVars >>

InBatch(fn) == pendSv = "run" /\ batch # << >> /\ Head(batch).fn = fn

\* do_request_complete.
DfcComplete ==
  /\ InBatch("do_request_complete") /\ Head(batch).ptr
  /\ RequestSignal(Head(batch).thread)
  /\ batch' = Tail(batch)
  /\ UNCHANGED << runVars, svc, pendVars, dfcs, requestVars, endVars >>

DfcCompleteFails ==
  InBatch("do_request_complete") /\ ~Head(batch).ptr /\ Stop("noUserPtr")

DfcThreadExit ==
  /\ InBatch("threadExit_dfc")
  /\ SetNotReady(Head(batch).thread, "EDead")
  /\ batch' = Tail(batch)
  /\ UNCHANGED << completedRequests, runVars, svc, pendVars, dfcs, requestVars,
                  endVars >>

\* Mistaken variant: the samples are counted and left.
DfcInputCounts ==
  /\ InBatch("completeInputRequest_dfc")
  /\ pendSv' = "inputDone"
  /\ UNCHANGED << threadVars, runVars, svc, pendSvPending, reschedNeeded,
                  dfcVars, requestVars, endVars >>

\* completeInputRequest_dfc takes the samples, and then completes the request.
DfcInput ==
  /\ InBatch("completeInputRequest_dfc")
  /\ input' = [input EXCEPT !.pos = 0]
  /\ pendSv' = "inputDone"
  /\ UNCHANGED << threadVars, runVars, svc, pendSvPending, reschedNeeded,
                  dfcVars, blockedUart, uartRequest, timer, endVars >>

DfcInputDone ==
  /\ pendSv = "inputDone" /\ input.ptr
  /\ RequestSignal(input.thread)
  /\ input' = [input EXCEPT !.ptr = FALSE]
  /\ batch' = Tail(batch) /\ pendSv' = "run"
  /\ UNCHANGED << runVars, svc, pendSvPending, reschedNeeded, dfcs,
                  blockedUart, uartRequest, timer, endVars >>

DfcInputFails == pendSv = "inputDone" /\ ~input.ptr /\ Stop("noInputPtr")

\* fillAudioBuf, which changes nothing of this.
DfcFillAudio ==
  /\ InBatch("fillAudioBuf_dfc")
  /\ batch' = Tail(batch)
  /\ UNCHANGED << threadVars, runVars, svc, pendVars, dfcs, requestVars, endVars >>

\* The last thing: has a timeslice expired?
PendSvCheck ==
  /\ pendSv = "run" /\ batch = << >>
  /\ reschedNeeded' = FALSE
  /\ pendSv' = IF reschedNeeded THEN "find" ELSE "none"
  /\ UNCHANGED << threadVars, runVars, svc, pendSvPending, dfcVars,
                  requestVars, endVars >>

\* saveCurrentRegistersForThread and reschedule.
PendSvFind ==
  /\ pendSv = "find" /\ currentThread # None /\ readyList # << >>
  /\ found' = Head(readyList) /\ pendSv' = "schedule"
  /\ UNCHANGED << threadVars, timeslice, currentThread, svc, pendSvPending,
                  reschedNeeded, dfcVars, requestVars, endVars >>

\* There is no thread to save the registers of.
PendSvFindFails == pendSv = "find" /\ currentThread = None /\ Stop("noCurrentThread")

PendSvSchedule ==
  /\ pendSv = "schedule"
  /\ ScheduleThread(found)
  /\ pendSv' = "none"
  /\ UNCHANGED << threadVars, svc, pendSvPending, reschedNeeded, dfcVars,
                  requestVars, endVars >>

PendSvStep ==
  \/ PendSvEnter \/ PendSvCopy \/ DfcComplete \/ DfcCompleteFails \/ DfcThreadExit
  \/ DfcInput \/ DfcInputDone \/ DfcInputFails \/ DfcFillAudio
  \/ PendSvCheck \/ PendSvFind \/ PendSvFindFails \/ PendSvSchedule

-----------------------------------------------------------------------------
Running == panic = "none"

Next ==
  /\ Running
  /\ \/ Interrupt \/ SvcStep \/ PendSvStep
     \/ \E t \in Threads : \E step \in Makes[t] : t = currentThread /\ Call(step)

Spec == Init /\ [][Next]_vars

\* Handlers are short against the time between interrupts.  Nothing is assumed
\* of threads, of the uart or of the buttons.
FairSpec ==
  /\ Spec
  /\ SF_vars(Running /\ SvcStep) /\ SF_vars(Running /\ PendSvStep)

-----------------------------------------------------------------------------
Dfcs == [fn : {"do_request_complete"}, thread : Threads, ptr : BOOLEAN]
        \cup [fn : {"threadExit_dfc"}, thread : Threads, ptr : {FALSE}]
        \cup {InputDfc, AudioDfc}

ThreadStates == {"EReady", "EBlockedFromSvc", "EWaitForRequest", "EDying", "EDead"}
ThreadOrNone == Threads \cup {None}
SvcSteps == Svcs \cup {"none", "waitBlock", "getchRegister", "asyncStore",
                       "armTimer", "exitQueue", "find", "schedule", "idle"}
PendSvSteps == {"none", "copy", "run", "inputDone", "find", "schedule"}
Panics == {"none", "noUserPtr", "noInputPtr", "noCurrentThread", "otherInputThread",
           "tooManyDfcs", "tornList"}

TypeOK ==
  /\ state \in [Threads -> ThreadStates] /\ readyList \in Seq(Threads)
  /\ completedRequests \in [Threads -> 0..(ReqModulus - 1)]
  /\ timeslice \in 0..Timeslice
  /\ currentThread \in ThreadOrNone /\ found \in ThreadOrNone
  /\ svc \in SvcSteps /\ pendSv \in PendSvSteps
  /\ pendSvPending \in BOOLEAN /\ reschedNeeded \in BOOLEAN
  /\ dfcs \in Seq(Dfcs) /\ batch \in Seq(Dfcs)
  /\ blockedUart \in ThreadOrNone /\ uartRequest \in ThreadOrNone
  /\ timer \in [thread : ThreadOrNone, ptr : BOOLEAN, armed : BOOLEAN]
  /\ input \in [thread : ThreadOrNone, ptr : BOOLEAN, pos : 0..(BufSize + 1)]
  /\ panic \in Panics /\ raced \in BOOLEAN

\* The ready list is exact and a thread that waits has no completed request; a
\* thread that runs is ready, and a PendSV that preempts one finds one to
\* reschedule to, although interrupts, SVCs and DFCs change the list between its
\* steps; up to an interrupt that changes it while it is being changed.  Without
\* a thread to preempt PendSV is nested in an SVC: "there can never be any other
\* handler active" (scheduler_armv7m.c) is false there.
ThreadsAreRight ==
  /\ TypeOK
  /\ Distinct(readyList)
  /\ \A t \in Threads :
       /\ Contains(readyList, t) <=> state[t] = "EReady"
       /\ state[t] = "EWaitForRequest" => completedRequests[t] = 0
  /\ svc = "none" => currentThread # None /\ state[currentThread] = "EReady"
  /\ found # None => state[found] = "EReady"
  /\ blockedUart # None => state[blockedUart] = "EBlockedFromSvc"
  /\ pendSv = "find" => IF currentThread = None THEN svc = "idle" ELSE readyList # << >>

\* Whatever is put off is put off to a PendSV that is pending or will still look
\* at it: a DFC, an expired timeslice.  So sysTick's assertion about a thread
\* that has used up its timeslice holds (sysTick, dfc_queue, doPendSv).  That the
\* slots suffice is not true of five sources and MAX_DFCS = 4.
DeferredIsPending ==
  /\ dfcs # << >> => pendSvPending \/ pendSv = "copy"
  /\ reschedNeeded => pendSvPending \/ pendSv \in {"copy", "run", "inputDone"}
  /\ SliceApplies /\ timeslice = 0 =>
       reschedNeeded \/ pendSv \in {"find", "schedule"}

\* A request for input is completed by one DFC, queued with its first sample,
\* and a new one starts with no samples, unless a button goes down while the
\* DFC is between its two steps; which always stops the kernel
\* (completeInputRequest_dfc).
CountOf(s) == Cardinality({i \in DOMAIN s : s[i] = InputDfc})

InputOnce ==
  LET Exact == /\ CountOf(dfcs) + CountOf(batch)
                    = (IF input.ptr /\ (input.pos > 0 \/ pendSv = "inputDone")
                       THEN 1 ELSE 0)
               /\ ~input.ptr => input.pos = 0
  IN raced # Exact

\* Nothing is put off for ever, also when no thread is left to run: a thread that
\* exits is cleaned up ("On ARMv7-M they will get serviced immediately after the
\* SVC call returns", doc/internals.md) and input is delivered.
PutOff == (\E t \in Threads : state[t] = "EDying") \/ input.pos > 0

DeferredIsDone == PutOff ~> ~PutOff \/ ~Running
=============================================================================
