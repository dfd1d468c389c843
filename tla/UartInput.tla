----------------------------- MODULE UartInput -----------------------------
(***************************************************************************)
(* Characters from the uart to the threads that read them: the interrupt   *)
(* handler's uart_got_char, the ring buffer, KExecGetch and                *)
(* KExecGetch_Async.  The interrupt may come between any two accesses of   *)
(* an SVC to the ring; the DFCs run when no SVC is in progress.  The       *)
(* scheduling itself is module Scheduler's.                                *)
(***************************************************************************)
EXTENDS Integers, Sequences, FiniteSets, SequencesExt

CONSTANTS
  Readers,   \* threads that call getch
  Console,   \* the thread whose run loop calls getch_async
  None,
  Size,      \* UART_BUF_SIZE, less than 0xFF
  HwDepth,   \* the uart's own fifo
  MaxBytes   \* bound: bytes that come

ASSUME UartInputAssumption ==
  /\ Console \notin Readers /\ None \notin Readers \cup {Console}
  /\ Size \in 2..254 /\ HwDepth \in Nat \ {0} /\ MaxBytes \in Nat

Full == 255  \* *got = 0xFF

VARIABLES
  ring, got, read,  \* uartBuf and the two indexes behind its bytes
  hw,          \* bytes in the uart, for which the interrupt is pending
  came,        \* how many bytes have come
  state,       \* of a thread: "ready", "blocked" or "waits" (asynchronously)
  blockedUart, \* blockedUartReceiveIrqHandler
  request,     \* uartRequest.userPtr is set
  dfcs,        \* the bytes that DFCs will complete Console's request with
  svc,         \* the SVC in progress: its thread, step and the byte it read
  delivered, dropped,  \* bytes that reached a thread, bytes that were lost
  raced        \* the interrupt came where ring_pop or getch do not expect it

ringVars == << ring, got, read >>
vars == << ringVars, hw, came, state, blockedUart, request, dfcs, svc,
           delivered, dropped, raced >>

Threads == Readers \cup {Console}
Idle == [step |-> "idle", thread |-> None, byte |-> 0]

Init ==
  /\ ring = [i \in 0..(Size - 1) |-> 0] /\ got = 0 /\ read = 0
  /\ hw = << >> /\ came = 0
  /\ state = [t \in Threads |-> "ready"]
  /\ blockedUart = None /\ request = FALSE /\ dfcs = << >> /\ svc = Idle
  /\ delivered = {} /\ dropped = {} /\ raced = FALSE

-----------------------------------------------------------------------------
(* ringbuf.c                                                               *)

RingEmpty == got = read
RingFull == got = Full

\* Mistaken variant: the index goes round one byte late.
RingPushLate(b) ==
  LET new == IF got = Size - 1 THEN got ELSE (got + 1) % Size IN
  /\ ring' = [ring EXCEPT ![got] = b]
  /\ got' = IF new = read THEN Full ELSE new
  /\ UNCHANGED read

\* Mistaken variant: a ring that is full looks empty.
RingPushUnmarked(b) ==
  /\ ring' = [ring EXCEPT ![got] = b]
  /\ got' = (got + 1) % Size
  /\ UNCHANGED read

\* ring_push, in the interrupt handler.
RingPush(b) ==
  LET new == (got + 1) % Size IN
  /\ ring' = [ring EXCEPT ![got] = b]
  /\ got' = IF new = read THEN Full ELSE new
  /\ UNCHANGED read

\* The bytes from `from` up to the index `to`, none if they are equal.
Stored(from, to) ==
  [i \in 1..((to - from) % Size) |-> ring[(from + i - 1) % Size]]

\* What the ring holds.  While ring_pop is between its statements the byte it
\* returns is not counted from the moment *got has been looked at.
Contents ==
  LET start == (IF svc.step = "advance" THEN read + 1 ELSE read) % Size IN
  IF got = Full \/ (svc.step = "advance" /\ got = read)
  THEN LET n == IF svc.step = "advance" THEN Size - 1 ELSE Size
       IN [i \in 1..n |-> ring[(start + i - 1) % Size]]
  ELSE Stored(start, got)

\* A push between the statements of ring_pop is lost on it, or it on the push:
\* *got becomes 0xFF and *read then moves, or *got moves away from *read which
\* then follows, or *read is not yet back at the start of the buffer.
PushIsTorn ==
  \/ svc.step = "advance" /\ Len(Contents) >= Size - 2
  \/ svc.step = "wrap" /\ read = Size /\ Len(Contents) = Size - 1

-----------------------------------------------------------------------------
(* The interrupt                                                           *)

Arrive ==
  /\ came < MaxBytes /\ Len(hw) < HwDepth
  /\ came' = came + 1 /\ hw' = Append(hw, came + 1)
  /\ UNCHANGED << ringVars, state, blockedUart, request, dfcs, svc, delivered,
                  dropped, raced >>

\* uart_got_char: to the thread that is blocked, to the asynchronous request,
\* into the ring, or nowhere.  `others` are the bytes that go with it.
GotCharBlocked(b, others) ==
  /\ blockedUart # None
  /\ blockedUart' = None
  /\ state' = [state EXCEPT ![blockedUart] = "ready"]
  /\ delivered' = delivered \cup {b} /\ dropped' = dropped \cup others
  /\ UNCHANGED << ringVars, request, dfcs, raced >>

\* Mistaken variant: the request is not taken over by the DFC.
GotCharRequestAgain(b, others) ==
  /\ blockedUart = None /\ request
  /\ dfcs' = Append(dfcs, b) /\ dropped' = dropped \cup others
  /\ UNCHANGED << ringVars, state, blockedUart, request, delivered, raced >>

\* dfc_requestComplete takes the request over.
GotCharRequest(b, others) ==
  /\ blockedUart = None /\ request
  /\ request' = FALSE
  /\ dfcs' = Append(dfcs, b) /\ dropped' = dropped \cup others
  /\ UNCHANGED << ringVars, state, blockedUart, delivered, raced >>

GotCharKept(b, others) ==
  /\ blockedUart = None /\ ~request /\ ~RingFull
  /\ RingPush(b)
  /\ raced' = PushIsTorn /\ dropped' = dropped \cup others
  /\ UNCHANGED << state, blockedUart, request, dfcs, delivered >>

\* Mistaken variant: a byte there is no room for stays in the uart.
GotCharLeft(b, others) ==
  blockedUart = None /\ ~request /\ RingFull /\ FALSE

GotCharDropped(b, others) ==
  /\ blockedUart = None /\ ~request /\ RingFull
  /\ dropped' = dropped \cup {b} \cup others
  /\ UNCHANGED << ringVars, state, blockedUart, request, dfcs, delivered, raced >>

\* handleIrq reads one byte and then clears the uart's fifo.
Irq ==
  /\ hw # << >>
  /\ hw' = << >>
  /\ LET b == Head(hw)
         others == Range(Tail(hw)) IN
       GotCharBlocked(b, others) \/ GotCharRequest(b, others)
       \/ GotCharKept(b, others) \/ GotCharDropped(b, others)
  /\ UNCHANGED << came, svc >>

\* do_request_complete, in the DFC thread.
DfcRun ==
  /\ svc = Idle /\ dfcs # << >>
  /\ dfcs' = Tail(dfcs)
  /\ delivered' = delivered \cup {Head(dfcs)}
  /\ state' = [state EXCEPT ![Console] = "ready"]
  /\ UNCHANGED << ringVars, hw, came, blockedUart, request, svc, dropped,
                  raced >>

-----------------------------------------------------------------------------
(* The SVCs                                                                *)

Call(t) ==
  /\ svc = Idle /\ state[t] = "ready"
  /\ svc' = [step |-> "check", thread |-> t, byte |-> 0]
  /\ UNCHANGED << ringVars, hw, came, state, blockedUart, request, dfcs,
                  delivered, dropped, raced >>

Goto(step, b) == svc' = [svc EXCEPT !.step = step, !.byte = b]

\* byteReady, once in the SVC and again in the loop of getch.
ByteReady == ~RingEmpty \/ hw # << >>

Check ==
  /\ svc.step = "check"
  /\ IF ByteReady THEN Goto("getch", 0) ELSE Goto("register", 0)
  /\ UNCHANGED << ringVars, hw, came, state, blockedUart, request, dfcs,
                  delivered, dropped, raced >>

\* No byte: the thread is entered for the next one, in place of whoever was.
Register ==
  /\ svc.step = "register"
  /\ svc' = Idle
  /\ IF svc.thread = Console
     THEN request' = TRUE /\ UNCHANGED blockedUart
     ELSE blockedUart' = svc.thread /\ UNCHANGED request
  /\ state' = [state EXCEPT ![svc.thread] =
                 IF svc.thread = Console THEN "waits" ELSE "blocked"]
  /\ UNCHANGED << ringVars, hw, came, dfcs, delivered, dropped, raced >>

\* getch, and ring_pop up to where it reads the byte.
Getch ==
  /\ svc.step = "getch"
  /\ IF RingEmpty THEN Goto("spin", 0) ELSE Goto("unfull", ring[read])
  /\ UNCHANGED << ringVars, hw, came, state, blockedUart, request, dfcs,
                  delivered, dropped, raced >>

PopUnfull ==
  /\ svc.step = "unfull"
  /\ got' = IF RingFull THEN read ELSE got
  /\ Goto("advance", svc.byte)
  /\ UNCHANGED << ring, read, hw, came, state, blockedUart, request, dfcs,
                  delivered, dropped, raced >>

PopAdvance ==
  /\ svc.step = "advance"
  /\ read' = read + 1
  /\ Goto("wrap", svc.byte)
  /\ UNCHANGED << ring, got, hw, came, state, blockedUart, request, dfcs,
                  delivered, dropped, raced >>

\* The byte is the SVC's result, or completes the request at once.
PopWrap ==
  /\ svc.step = "wrap"
  /\ read' = IF read = Size THEN 0 ELSE read
  /\ svc' = Idle
  /\ delivered' = delivered \cup {svc.byte}
  /\ UNCHANGED << ring, got, hw, came, state, blockedUart, request, dfcs,
                  dropped, raced >>

\* The ring was empty: getch waits for a byte anywhere and then reads the
\* uart.  If the interrupt has put that byte into the ring meanwhile, the uart
\* has none, and 0 stands for what is read, or has a later one.
Spin ==
  /\ svc.step = "spin" /\ ByteReady
  /\ svc' = Idle
  /\ hw' = IF hw = << >> THEN hw ELSE Tail(hw)
  /\ delivered' = delivered \cup {IF hw = << >> THEN 0 ELSE Head(hw)}
  /\ raced' = (hw = << >>)
  /\ UNCHANGED << ringVars, came, state, blockedUart, request, dfcs, dropped >>

SvcStep == Check \/ Register \/ Getch \/ PopUnfull \/ PopAdvance \/ PopWrap \/ Spin

\* Once raced, only the SVC in progress is followed, to its end.
Next ==
  \/ ~raced /\ (Arrive \/ Irq \/ DfcRun \/ \E t \in Threads : Call(t))
  \/ SvcStep

Spec == Init /\ [][Next]_vars

\* The interrupt stays pending until it is handled, SVCs are not stopped, and
\* DFCs are picked up (Scheduler).
FairSpec == Spec /\ WF_vars(Irq) /\ WF_vars(SvcStep) /\ WF_vars(DfcRun)

-----------------------------------------------------------------------------
TypeOK ==
  /\ ring \in [0..(Size - 1) -> 0..MaxBytes]
  /\ got \in 0..(Size - 1) \cup {Full} /\ read \in 0..Size
  /\ read = Size => svc.step = "wrap"
  /\ hw \in Seq(1..MaxBytes) /\ Len(hw) <= HwDepth /\ came \in 0..MaxBytes
  /\ state \in [Threads -> {"ready", "blocked", "waits"}]
  /\ blockedUart \in Readers \cup {None} /\ request \in BOOLEAN
  /\ dfcs \in Seq(1..MaxBytes) /\ raced \in BOOLEAN
  /\ delivered \subseteq 0..MaxBytes /\ dropped \subseteq 1..MaxBytes

InHand == IF svc.step \in {"advance", "wrap"} THEN {svc.byte} ELSE {}
Bytes(s) == Range(s)

\* The places a byte can be in: the uart, the ring, a DFC, an SVC, a thread, or
\* lost to a full ring or with the uart's fifo.
Places ==
  << Bytes(hw), Bytes(Contents), Bytes(dfcs), InHand, delivered, dropped >>

Exact ==
  /\ UNION Range(Places) = 1..came
  /\ \A i, j \in DOMAIN Places : i # j => Places[i] \cap Places[j] = {}
  /\ Len(hw) + Len(Contents) + Len(dfcs)
       = Cardinality(Bytes(hw) \cup Bytes(Contents) \cup Bytes(dfcs))

\* Each byte that has come is in exactly one place, once, whichever way the
\* interrupt falls into ring_pop, getch and the registration of a reader.
\* The races are the only exception, and each of them does break it.
EachByteOnce == TypeOK /\ (svc = Idle => raced # Exact)

\* A request that waits is registered or has its answer under way, and no
\* answer is under way to a thread that does not wait: the handler, the DFC
\* and the SVC hand it on without losing or doubling it (dfc_requestComplete).
RequestIsInOnePlace ==
  (IF request THEN 1 ELSE 0) + Len(dfcs)
    = (IF state[Console] = "waits" THEN 1 ELSE 0)

\* Every byte that comes reaches a thread, the ring or the floor, unless getch
\* keeps the processor because the byte it saw was given to another reader.
BytesEndUp ==
  \A b \in 1..MaxBytes :
    came >= b ~> \/ b \in delivered \cup dropped \cup Bytes(Contents)
                 \/ svc.step = "spin" \/ raced

\* The ring, the handler and the SVCs do what UartSpec says: bytes are given in
\* the order they came, but to a reader that was entered, or read the uart,
\* after it had found the ring empty and the handler had filled it since.
Abstract == INSTANCE UartSpec
              WITH next <- came - Len(hw) + 1, queue <- Contents,
                   given <- delivered \cup Bytes(dfcs) \cup InHand,
                   dropped <- dropped, raced <- raced,
                   looking <- svc.step \in {"register", "spin"},
                   waiting <- blockedUart # None \/ request
AbstractSpec == Abstract!Spec
=============================================================================
