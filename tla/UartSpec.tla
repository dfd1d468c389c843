------------------------------ MODULE UartSpec ------------------------------
(***************************************************************************)
(* What the readers of the uart need of the kernel: every byte that comes  *)
(* is kept in arrival order until a reader takes the first, or goes to a   *)
(* reader that found none kept, or is dropped: because as many are kept as *)
(* there is room for, or because it came close behind another.  A byte     *)
(* overtakes others only where those were kept after a reader had found    *)
(* none and before it was entered.  Bytes are numbered as they arrive.     *)
(***************************************************************************)
EXTENDS Naturals, Sequences

CONSTANT Size  \* the bytes there is room for

VARIABLES
  next,     \* the byte that is handled next
  queue,    \* the bytes kept
  given,    \* the bytes given to a reader
  dropped,
  looking,  \* a reader found no byte kept and has not been entered yet
  waiting,  \* a reader is entered for the next byte
  raced     \* the promise was broken

vars == << next, queue, given, dropped, looking, waiting, raced >>

Init ==
  /\ next = 1 /\ queue = << >> /\ given = {} /\ dropped = {}
  /\ looking = FALSE /\ waiting = FALSE /\ raced = FALSE

Look ==
  /\ queue = << >> /\ ~looking /\ looking' = TRUE
  /\ UNCHANGED << next, queue, given, dropped, waiting >>

Enter ==
  /\ looking /\ looking' = FALSE /\ waiting' = TRUE
  /\ UNCHANGED << next, queue, given, dropped >>

\* The byte goes to the reader that is entered, another may stay entered, or to
\* the one that looks.
Pass ==
  /\ \/ waiting /\ waiting' \in BOOLEAN /\ UNCHANGED looking
     \/ looking /\ looking' = FALSE /\ UNCHANGED waiting
  /\ given' = given \cup {next} /\ UNCHANGED queue

Keep ==
  /\ ~waiting /\ Len(queue) < Size
  /\ queue' = Append(queue, next) /\ UNCHANGED << given, looking, waiting >>

Drop ==
  /\ ~waiting /\ Len(queue) = Size
  /\ UNCHANGED << queue, given, looking, waiting >>

\* One byte is handled; those that came close behind it may be lost with it.
Handle ==
  LET behind == (next + 1)..(next' - 1) IN
  /\ next' > next
  /\ \/ (Pass \/ Keep) /\ dropped' = dropped \cup behind
     \/ Drop /\ dropped' = dropped \cup {next} \cup behind

Read ==
  /\ queue # << >>
  /\ given' = given \cup {Head(queue)} /\ queue' = Tail(queue)
  /\ UNCHANGED << next, dropped, looking, waiting >>

\* A byte that comes while one is being read may break the promise; nothing is
\* promised from then on.
Race == raced' = TRUE

Next ==
  \/ raced \/ Race
  \/ /\ UNCHANGED raced
     /\ Look \/ Enter \/ Read \/ Handle

Spec == Init /\ [][Next]_vars
=============================================================================
