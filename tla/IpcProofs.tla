----------------------------- MODULE IpcProofs -----------------------------
(***************************************************************************)
(* Theorems about Ipc, for any number of servers, clients, pages and       *)
(* frames, any of which may exit: its invariants and what it says about    *)
(* the return of connect and the last user of a page.  The inductive       *)
(* invariant IInv adds to them where each program is in its protocol       *)
(* (ProgramsKnow), which slots and pages belong together (SlotsKnow,       *)
(* PagesKnow), through which hands a connection goes (BlockedKnow,         *)
(* RequestsKnow, SessionKnows), and who is between the flags of a message  *)
(* and its SVC (CallersKnow).                                              *)
(***************************************************************************)
EXTENDS Ipc, FiniteSetTheorems, SequenceTheorems, TLAPS

-----------------------------------------------------------------------------
(* The list operators.  The lemmas on them, in ThreadListProofs, say        *)
(* nothing of the pointers that ThreadList keeps: nothing stands for those. *)

ListLemmas ==
  INSTANCE ThreadListProofs
    WITH Threads <- {}, DfcThread <- None, NULL <- None, list <- None,
         state <- None, currentThread <- None, mode <- None, pc <- None,
         t <- None, before <- None, to <- None, leaves <- None,
         expired <- None, rescheduleNeeded <- None, panic <- None

\* The operators of module ReadyList that those lemmas are about are the ones
\* that Ipc uses.
LEMMA ListOperators ==
  ASSUME NEW q, NEW t
  PROVE  /\ ListLemmas!Distinct(q) <=> Distinct(q)
         /\ ListLemmas!Contains(q, t) <=> Contains(q, t)
         /\ ListLemmas!Dequeue(q, t) = Dequeue(q, t)
BY DEF ListLemmas!Distinct, Distinct, ListLemmas!Contains, Contains,
       ListLemmas!Dequeue, Dequeue, ListLemmas!RemoveAt, RemoveAt,
       ListLemmas!Position, Position

\* Dequeuing a thread of the list removes it, and only it.
LEMMA DequeueIs ==
  ASSUME NEW S, NEW q \in Seq(S), NEW t, Distinct(q), Contains(q, t)
  PROVE  /\ Dequeue(q, t) \in Seq(S)
         /\ Distinct(Dequeue(q, t))
         /\ \A u : Contains(Dequeue(q, t), u) <=> u # t /\ Contains(q, u)
BY ListOperators, ListLemmas!DequeueIs

\* A thread put at the end is added, and only it.
LEMMA AppendIs ==
  ASSUME NEW S, NEW q \in Seq(S), NEW t \in S, Distinct(q), ~Contains(q, t)
  PROVE  /\ Append(q, t) \in Seq(S)
         /\ Distinct(Append(q, t))
         /\ \A u : Contains(Append(q, t), u) <=> u = t \/ Contains(q, u)
BY ListOperators, ListLemmas!AppendIs

-----------------------------------------------------------------------------

Alive(p) == state[p] # "EDead"
Blocked(p) == state[p] = "EBlockedFromSvc"

\* What each program has done where it is.
ProgramsKnow ==
  /\ \A p \in Servers :
       /\ prog[p] \in {"start", "request", "loop", "requeue", "failed"}
       /\ page[p] = 0
       /\ prog[p] \in {"start", "failed"} => clientPages[p] = {} /\ queued[p] = {}
       /\ prog[p] \in {"request", "loop", "requeue"} =>
            \E s \in Slots : servers[s].thread = p
  /\ \A c \in Clients :
       /\ prog[c] \in {"start", "connect", "connected", "failed"}
       /\ delivered[c] = 0 /\ clientPages[c] = {}

\* A slot of `servers` keeps its process, or what was one, for good.
SlotsKnow ==
  \A s \in Slots :
    /\ servers[s].thread = None => servers[s] = NoServer
    /\ servers[s].thread # None =>
         servers[s].thread \in Servers /\ servers[s].id = IdOf[servers[s].thread]
    /\ \A r \in Slots : servers[r].id = servers[s].id /\ servers[s].id # None => r = s
    /\ \A i \in Pages : mapping[i].server = s => servers[s].thread # None

\* The owner of a page is the client whose session it is, and maps it.
PagesKnow ==
  /\ \A c \in Clients :
       Alive(c) =>
         /\ prog[c] \in {"connect", "connected"} => page[c] # 0
         /\ prog[c] = "start" => page[c] = 0
         /\ page[c] # 0 => mapping[page[c]].owner = c
         /\ prog[c] = "connect" =>
              mapping[page[c]].server = 0 /\ msg[page[c]] = "free"
  /\ \A i \in Pages :
       LET c == mapping[i].owner IN
       c # None => c \in Clients /\ Alive(c) /\ page[c] = i /\ pte[c][i] # None

\* A blocked client's connection is in one of the lists, not delivered yet, or
\* in its server's hand, or handled.
BlockedKnow ==
  \A c \in Processes :
    Blocked(c) =>
      /\ c \in Clients /\ prog[c] = "connected"
      /\ stash[c] = page[c] /\ msg[page[c]] = "free"

\* A server that will ask for a message has not done so yet.
RequestsKnow ==
  \A p \in Servers, s \in Slots :
    Alive(p) /\ prog[p] = "request" /\ servers[s].thread = p => ~servers[s].ptr

\* The connection of c is with its server, which has not handled it.
OnItsWay(c, p) ==
  Blocked(c) /\ (reason[c] = "EBlockedInServerConnect" => delivered[p] = page[c])

\* The pages a server has handled are connected to it, and a client whose
\* connect has returned, or is about to, is among them.
SessionKnows(s) ==
  LET p == servers[s].thread IN
  p # None /\ ~Stale(p) =>
    /\ \A i \in clientPages[p] : mapping[i].server = s
    /\ queued[p] \subseteq clientPages[p]
    /\ prog[p] = "requeue" => handled[p] \in clientPages[p]
    /\ \A c \in Clients :
         /\ Alive(c) /\ prog[c] = "connected"
         /\ mapping[page[c]].server = s /\ ~OnItsWay(c, p)
         => page[c] \in clientPages[p]

\* Who has flagged a message and not told the kernel is about to.
CallersKnow ==
  \A u \in calling :
    /\ state[u] = "EReady"
    /\ u \in Servers => prog[u] = "requeue"
    /\ u \in Clients => prog[u] = "connected"

\* A run loop that waits has handled all it was told of.
WaitersKnow ==
  \A p \in Processes : state[p] = "EWaitForRequest" => numReqs[p] = 0

IInv ==
  /\ TypeOK /\ ProgramsKnow /\ SlotsKnow
  /\ PagesKnow /\ SharedPagesAreSafe
  /\ BlockedKnow /\ BlockedClientsAreListed
  /\ RequestsKnow /\ DeliveryIsInHand
  /\ CallersKnow /\ WaitersKnow /\ RequestsAreCounted
  /\ \A s \in Slots : SessionKnows(s)

-----------------------------------------------------------------------------
(* Slots and processes.                                                    *)

\* No process has two slots of `servers`.
LEMMA OneSlot ==
  ASSUME SlotsKnow, NEW r \in Slots, NEW s \in Slots,
         servers[r].thread # None, servers[r].thread = servers[s].thread
  PROVE  r = s
<1>1. servers[s].thread \in Servers /\ servers[r].id = IdOf[servers[s].thread]
      /\ servers[s].id = IdOf[servers[s].thread]
  BY DEF SlotsKnow
<1>2. servers[s].id # None
  BY <1>1, IpcAssumption
<1> QED BY <1>1, <1>2 DEF SlotsKnow

\* What it means that a page is connected to the server of the slot s.
LEMMA ServerIs ==
  ASSUME TypeOK, SlotsKnow, NEW i \in Pages, NEW s \in Slots, servers[s].thread # None
  PROVE  ServerProcess(i) = servers[s].thread <=> mapping[i].server = s
<1>1. mapping[i].server \in Slots \cup {0} /\ 0 \notin Slots
  BY DEF TypeOK, Slots
<1> QED BY <1>1, OneSlot DEF ServerProcess

-----------------------------------------------------------------------------
(* Counting what a process has still to handle.                            *)

LEMMA SentIsFinite ==
  ASSUME TypeOK, NEW p \in Processes
  PROVE  /\ IsFiniteSet(SentTo(p)) /\ Cardinality(SentTo(p)) \in Nat
         /\ IsFiniteSet(Untold(p)) /\ Cardinality(Untold(p)) \in Nat
<1>1. SentTo(p) \subseteq Pages
  BY DEF TypeOK, SentTo
<1>2. IsFiniteSet(Pages)
  BY IpcAssumption, FS_Interval DEF Pages
<1>3. Untold(p) \subseteq Processes /\ IsFiniteSet(Processes)
  BY IpcAssumption DEF TypeOK, Untold, Processes
<1> QED BY <1>1, <1>2, <1>3, FS_Subset, FS_CardinalityType

\* thread_requestSignal(t) counts one request more, and at most wakes t.
States == {"EReady", "EBlockedFromSvc", "EWaitForRequest", "EDying", "EDead"}

Signalled(t, st, left) ==
  /\ state' \in [Processes -> States]
  /\ completedRequests' \in [Processes -> Nat]
  /\ numReqs' \in [Processes -> Nat]
  /\ \A u \in Processes :
       \/ state'[u] = st[u]
       \/ st[u] = "EWaitForRequest" /\ state'[u] = "EReady"
  /\ \A u \in Processes : state'[u] = "EWaitForRequest" => numReqs'[u] = left[u]
  /\ \A u \in Processes \ {t} :
       numReqs'[u] = left[u] /\ completedRequests'[u] = completedRequests[u]
  /\ numReqs'[t] + completedRequests'[t] = left[t] + completedRequests[t] + 1

LEMMA SignalIs ==
  ASSUME TypeOK, NEW t \in Processes, NEW st, NEW left,
         st \in [Processes -> States], left \in [Processes -> Nat],
         st[t] = "EWaitForRequest" => left[t] = 0,
         Signal(t, st, left)
  PROVE  Signalled(t, st, left)
<1>1. completedRequests \in [Processes -> Nat] /\ completedRequests[t] + 1 \in Nat
  BY DEF TypeOK
<1>2. CASE st[t] = "EWaitForRequest"
  BY <1>1, <1>2 DEF Signal, Signalled, States
<1>3. CASE st[t] # "EWaitForRequest"
  BY <1>1, <1>3 DEF Signal, Signalled, States
<1> QED BY <1>2, <1>3


-----------------------------------------------------------------------------
(* What a step leaves alone stays known.                                   *)

SameAlive == \A p \in Processes : state'[p] = "EDead" <=> state[p] = "EDead"
SameBlocked ==
  \A p \in Processes : state'[p] = "EBlockedFromSvc" <=> state[p] = "EBlockedFromSvc"
SameThreads == \A s \in Slots : servers'[s].thread = servers[s].thread

\* No client is blocked or released, and no server that is gone comes back.
LEMMA ListedFrame ==
  ASSUME BlockedClientsAreListed, SameBlocked, SameThreads,
         UNCHANGED stash,
         \A c \in Processes : Blocked(c) => mapping'[stash[c]] = mapping[stash[c]],
         \A s \in Slots : servers'[s].clients = servers[s].clients,
         \A s \in Slots : Stale(servers[s].thread) => Stale(servers[s].thread)'
  PROVE  BlockedClientsAreListed'
<1> SUFFICES ASSUME NEW p \in Processes
             PROVE  LET lists == {s \in Slots : Contains(servers'[s].clients, p)} IN
                    IF state'[p] # "EBlockedFromSvc"
                      THEN lists = {}
                      ELSE /\ mapping'[stash'[p]].owner = p
                           /\ \E s \in Slots :
                                /\ lists = {s} /\ Distinct(servers'[s].clients)
                                /\ mapping'[stash'[p]].server # s =>
                                     /\ mapping'[stash'[p]].server = 0
                                     /\ Stale(servers[s].thread)'
  BY DEF BlockedClientsAreListed, SameThreads, Stale
<1>1. {s \in Slots : Contains(servers'[s].clients, p)}
        = {s \in Slots : Contains(servers[s].clients, p)}
  OBVIOUS
<1>2. CASE state[p] = "EBlockedFromSvc"
  <2>1. PICK s \in Slots :
          /\ {r \in Slots : Contains(servers[r].clients, p)} = {s}
          /\ Distinct(servers[s].clients)
          /\ mapping[stash[p]].server # s =>
               mapping[stash[p]].server = 0 /\ Stale(servers[s].thread)
    BY <1>2 DEF BlockedClientsAreListed
  <2>2. mapping[stash[p]].owner = p
    BY <1>2 DEF BlockedClientsAreListed
  <2> QED BY <1>1, <1>2, <2>1, <2>2 DEF SameBlocked, Blocked
<1>3. CASE state[p] # "EBlockedFromSvc"
  BY <1>1, <1>3 DEF BlockedClientsAreListed, SameBlocked
<1> QED BY <1>2, <1>3

\* Nothing of the server s or of its clients' connections changes.
LEMMA SessionFrame ==
  ASSUME NEW s \in Slots, SessionKnows(s), servers'[s].thread = servers[s].thread,
         NEW p, p = servers[s].thread,
         p # None /\ ~Stale(p)' =>
           /\ ~Stale(p) /\ clientPages'[p] = clientPages[p] /\ queued'[p] = queued[p]
           /\ \A i \in clientPages[p] : mapping[i].server = s => mapping'[i].server = s
           /\ prog'[p] = "requeue" =>
                prog[p] = "requeue" /\ handled'[p] = handled[p]
           /\ \A c \in Clients :
                Alive(c)' /\ prog'[c] = "connected" /\ mapping'[page'[c]].server = s =>
                  /\ Alive(c) /\ prog[c] = "connected" /\ page'[c] = page[c]
                  /\ mapping[page[c]].server = s
                  /\ OnItsWay(c, p) => OnItsWay(c, p)'
  PROVE  SessionKnows(s)'
<1> SUFFICES ASSUME p # None, ~Stale(p)'
             PROVE  /\ \A i \in clientPages'[p] : mapping'[i].server = s
                    /\ queued'[p] \subseteq clientPages'[p]
                    /\ prog'[p] = "requeue" => handled'[p] \in clientPages'[p]
                    /\ \A c \in Clients :
                         /\ Alive(c)' /\ prog'[c] = "connected"
                         /\ mapping'[page'[c]].server = s /\ ~OnItsWay(c, p)'
                         => page'[c] \in clientPages'[p]
  BY DEF SessionKnows, Stale, Alive, OnItsWay, Blocked
<1>1. /\ \A i \in clientPages[p] : mapping[i].server = s
      /\ queued[p] \subseteq clientPages[p]
      /\ prog[p] = "requeue" => handled[p] \in clientPages[p]
      /\ \A c \in Clients :
           /\ Alive(c) /\ prog[c] = "connected"
           /\ mapping[page[c]].server = s /\ ~OnItsWay(c, p)
           => page[c] \in clientPages[p]
  BY DEF SessionKnows
<1> QED BY <1>1

\* The requests of p are counted.
Counted(p) ==
  Told(p) => numReqs[p] + completedRequests[p] + Cardinality(Untold(p)) = Unhandled(p)

LEMMA CountedIs ==
  RequestsAreCounted <=> TypeOK /\ \A p \in Processes : Counted(p)
BY DEF RequestsAreCounted, Counted

\* What a process has still to handle, where nothing of it changes.
LEMMA UnhandledFrame ==
  ASSUME NEW p, clientPages'[p] = clientPages[p], page'[p] = page[p],
         delivered'[p] = delivered[p],
         \A i \in clientPages[p] :
           msg'[i] \in {"sent", "lost"} <=> msg[i] \in {"sent", "lost"},
         page[p] # 0 => (msg'[page[p]] = "answered" <=> msg[page[p]] = "answered")
  PROVE  Unhandled(p)' = Unhandled(p)
<1>1. SentTo(p)' = SentTo(p)
  BY DEF SentTo
<1> QED BY <1>1 DEF Unhandled, OneIf

\* The callers know the page they have flagged a message in.
LEMMA CallerIs ==
  ASSUME IInv, NEW u \in calling
  PROVE  /\ u \in Processes /\ Alive(u)
         /\ u \in Servers =>
              /\ handled[u] \in Pages /\ ServerProcess(handled[u]) = u
              /\ mapping[handled[u]].server # 0
         /\ u \notin Servers =>
              /\ u \in Clients /\ page[u] \in Pages /\ mapping[page[u]].owner = u
<1> USE IpcAssumption DEF Processes
<1>1. u \in Processes /\ state[u] = "EReady"
  BY DEF IInv, TypeOK, CallersKnow
<1>2. CASE u \in Servers
  <2>1. prog[u] = "requeue" /\ ~Stale(u)
    BY <1>1, <1>2 DEF IInv, CallersKnow, Stale
  <2>2. PICK s \in Slots : servers[s].thread = u
    BY <1>2, <2>1 DEF IInv, ProgramsKnow
  <2>3. handled[u] \in clientPages[u] /\ \A i \in clientPages[u] : mapping[i].server = s
    BY <1>2, <2>1, <2>2 DEF IInv, SessionKnows
  <2>4. handled[u] \in Pages /\ s # 0
    BY <1>1, <2>3 DEF IInv, TypeOK, Slots
  <2> QED BY <1>1, <1>2, <2>2, <2>3, <2>4 DEF ServerProcess, Alive
<1>3. CASE u \notin Servers
  <2>1. u \in Clients /\ prog[u] = "connected" /\ Alive(u)
    BY <1>1, <1>3 DEF IInv, CallersKnow, Alive
  <2>2. page[u] # 0 /\ mapping[page[u]].owner = u
    BY <2>1 DEF IInv, PagesKnow
  <2>3. page[u] \in Pages
    BY <1>1, <2>2 DEF IInv, TypeOK
  <2> QED BY <1>1, <1>3, <2>1, <2>2, <2>3
<1> QED BY <1>2, <1>3

LEMMA CallersFrame ==
  ASSUME CallersKnow, calling' \subseteq calling,
         \A u \in calling : state'[u] = "EReady" /\ prog'[u] = prog[u]
  PROVE  CallersKnow'
BY DEF CallersKnow

\* Whom a caller will tell, where neither its page nor who shares it changes.
LEMMA RecipientFrame ==
  ASSUME IInv, SameThreads, NEW u \in calling,
         page'[u] = page[u], handled'[u] = handled[u],
         u \in Servers => mapping'[handled[u]].owner = mapping[handled[u]].owner,
         u \notin Servers => mapping'[page[u]].server = mapping[page[u]].server
  PROVE  Recipient(u)' = Recipient(u)
<1>1. CASE u \in Servers
  BY <1>1 DEF Recipient
<1>2. CASE u \notin Servers
  <2>1. page[u] \in Pages
    BY <1>2, CallerIs
  <2>2. mapping[page[u]].server \in Slots \cup {0}
    BY <2>1 DEF IInv, TypeOK
  <2>3. ServerProcess(page[u])' = ServerProcess(page[u])
    BY <1>2, <2>2 DEF ServerProcess, SameThreads
  <2> QED BY <1>2, <2>3 DEF Recipient
<1> QED BY <1>1, <1>2

LEMMA UntoldFrame ==
  ASSUME IInv, SameThreads, calling' = calling, mapping' = mapping,
         \A u \in calling : page'[u] = page[u] /\ handled'[u] = handled[u]
  PROVE  \A q : Untold(q)' = Untold(q)
<1>1. \A u \in calling : Recipient(u)' = Recipient(u)
  BY RecipientFrame
<1> QED BY <1>1 DEF Untold
\* One more has flagged a message, or told the kernel.
LEMMA UntoldAdds ==
  ASSUME IInv, SameThreads, NEW p \in Processes, p \notin calling,
         calling' = calling \cup {p}, mapping' = mapping, page' = page,
         \A u \in calling : handled'[u] = handled[u], NEW q \in Processes
  PROVE  Cardinality(Untold(q)') = Cardinality(Untold(q)) + OneIf(Recipient(p)' = q)
<1>1. \A u \in calling : Recipient(u)' = Recipient(u)
  BY RecipientFrame
<1>2. IsFiniteSet(Untold(q)) /\ p \notin Untold(q) /\ Cardinality(Untold(q)) \in Nat
  BY SentIsFinite DEF Untold, IInv
<1>3. CASE Recipient(p)' = q
  <2>1. Untold(q)' = Untold(q) \cup {p}
    BY <1>1, <1>3 DEF Untold
  <2> QED BY <1>2, <1>3, <2>1, FS_AddElement DEF OneIf
<1>4. CASE Recipient(p)' # q
  <2>1. Untold(q)' = Untold(q)
    BY <1>1, <1>4 DEF Untold
  <2> QED BY <1>2, <1>4, <2>1 DEF OneIf
<1> QED BY <1>3, <1>4

LEMMA UntoldRemoves ==
  ASSUME IInv, NEW p \in calling, calling' = calling \ {p},
         UNCHANGED << servers, mapping, page, handled >>, NEW q \in Processes
  PROVE  /\ Cardinality(Untold(q)') + OneIf(Recipient(p) = q) = Cardinality(Untold(q))
         /\ Cardinality(Untold(q)') \in Nat
<1>1. \A u \in calling : Recipient(u)' = Recipient(u)
  BY RecipientFrame DEF SameThreads
<1>2. IsFiniteSet(Untold(q)) /\ Cardinality(Untold(q)) \in Nat
  BY SentIsFinite DEF IInv
<1>3. CASE Recipient(p) = q
  <2>1. Untold(q)' = Untold(q) \ {p} /\ p \in Untold(q)
    BY <1>1, <1>3 DEF Untold
  <2>3. Cardinality(Untold(q) \ {p}) \in Nat
    BY <1>2, FS_RemoveElement, FS_CardinalityType
  <2>2. Cardinality(Untold(q)') = Cardinality(Untold(q)) - 1
    BY <1>2, <2>1, FS_RemoveElement
  <2> QED BY <1>2, <1>3, <2>1, <2>2, <2>3 DEF OneIf
<1>4. CASE Recipient(p) # q
  <2>1. Untold(q)' = Untold(q)
    BY <1>1, <1>4 DEF Untold
  <2> QED BY <1>2, <1>4, <2>1 DEF OneIf
<1> QED BY <1>3, <1>4


\* The process p is as good as before.
LEMMA ToldFrame ==
  ASSUME NEW p, Told(p)', SameThreads, state'[p] \notin {"EDying", "EDead"} =>
                            state[p] \notin {"EDying", "EDead"},
         p \in errored => p \in errored', Stale(p) => Stale(p)'
  PROVE  Told(p)
<1>1. Serving(p)' = Serving(p)
  BY DEF Serving, SameThreads
<1> QED BY <1>1 DEF Told

\* The lists p is in, and whether they are right for p.
Lists(p) == {s \in Slots : Contains(servers[s].clients, p)}
Listed(p) ==
  IF state[p] # "EBlockedFromSvc"
    THEN Lists(p) = {}
    ELSE /\ mapping[stash[p]].owner = p
         /\ \E s \in Slots :
              /\ Lists(p) = {s} /\ Distinct(servers[s].clients)
              /\ mapping[stash[p]].server # s =>
                   mapping[stash[p]].server = 0 /\ Stale(servers[s].thread)

LEMMA ListedIs == BlockedClientsAreListed <=> \A p \in Processes : Listed(p)
BY DEF BlockedClientsAreListed, Listed, Lists

\* What is known of a client in the list of the slot s.
LEMMA InListIs ==
  ASSUME IInv, NEW s \in Slots, NEW t, Contains(servers[s].clients, t)
  PROVE  /\ t \in Clients /\ Blocked(t) /\ Alive(t) /\ prog[t] = "connected"
         /\ page[t] \in Pages /\ stash[t] = page[t] /\ msg[page[t]] = "free"
         /\ mapping[page[t]].owner = t
         /\ mapping[page[t]].server # s =>
              mapping[page[t]].server = 0 /\ Stale(servers[s].thread)
         /\ Distinct(servers[s].clients)
         /\ \A r \in Slots : Contains(servers[r].clients, t) => r = s
<1> USE IpcAssumption DEF Processes
<1>1. t \in Processes
  BY DEF Contains, IInv, TypeOK, ServerRecords
<1>2. s \in Lists(t) /\ Listed(t)
  BY <1>1, ListedIs DEF Lists, IInv
<1>3. Blocked(t) /\ Lists(t) = {s}
  BY <1>2 DEF Listed, Blocked
<1>4. /\ mapping[stash[t]].owner = t /\ Distinct(servers[s].clients)
      /\ mapping[stash[t]].server # s =>
           mapping[stash[t]].server = 0 /\ Stale(servers[s].thread)
  BY <1>2, <1>3 DEF Listed, Blocked
<1>5. /\ t \in Clients /\ prog[t] = "connected" /\ stash[t] = page[t]
      /\ msg[page[t]] = "free" /\ Alive(t)
  BY <1>1, <1>3 DEF IInv, BlockedKnow, Blocked, Alive
<1>6. page[t] \in Pages
  BY <1>1, <1>5 DEF IInv, PagesKnow, TypeOK
<1>7. \A r \in Slots : Contains(servers[r].clients, t) => r = s
  BY <1>3 DEF Lists
<1> QED BY <1>3, <1>4, <1>5, <1>6, <1>7

\* DeliveryIsInHand of one server.
InHand(p) ==
  state[p] # "EDead" =>
    /\ delivered[p] # 0 =>
         /\ prog[p] \in {"loop", "requeue"}
         /\ ServerProcess(delivered[p]) = p
         /\ LET c == mapping[delivered[p]].owner
            IN  /\ c \in Clients /\ state[c] = "EBlockedFromSvc"
                /\ reason[c] = "EBlockedInServerConnect"
    /\ prog[p] \in {"loop", "requeue"} =>
         \A s \in Slots :
           servers[s].thread = p => (servers[s].ptr <=> delivered[p] = 0)

LEMMA InHandIs == DeliveryIsInHand <=> \A p \in Servers : InHand(p)
<1>1. \A p : \A s : s \in Serving(p) <=> s \in Slots /\ servers[s].thread = p
  BY DEF Serving
<1> QED BY <1>1 DEF DeliveryIsInHand, InHand


\* A page a process has handled is connected to it, unless it is in the slot of
\* a server that exited.
LEMMA HandledBy ==
  ASSUME IInv, NEW q \in Processes, Told(q), NEW i \in clientPages[q]
  PROVE  i \in Pages /\ ServerProcess(i) = q
<1> USE IpcAssumption DEF Processes
<1>1. q \in Servers /\ i \in Pages /\ prog[q] \in {"request", "loop", "requeue"}
  BY DEF IInv, ProgramsKnow, TypeOK
<1>2. ~Stale(q)
  BY <1>1 DEF Told, Stale
<1>3. PICK r \in Slots : servers[r].thread = q
  BY <1>1 DEF IInv, ProgramsKnow
<1>4. mapping[i].server = r
  BY <1>1, <1>2, <1>3 DEF IInv, SessionKnows
<1> QED BY <1>1, <1>3, <1>4 DEF ServerProcess, Slots

\* A page is the session of its owner alone.
LEMMA SessionOf ==
  ASSUME IInv, NEW q \in Processes, Alive(q), page[q] # 0
  PROVE  q \in Clients /\ page[q] \in Pages /\ mapping[page[q]].owner = q
<1>1. q \in Clients
  BY DEF IInv, ProgramsKnow, Processes
<1> QED BY <1>1 DEF IInv, PagesKnow, TypeOK

\* The kernel has stopped, or nothing happens.
LEMMA StopKeeps ==
  ASSUME IInv, UNCHANGED << kernelVars, threadVars, userVars >>,
         panic' \in {"none", "alreadyMapped", "badUserPtr", "nullServer",
                     "nullRecipient", "freedUnmapped"}
  PROVE  IInv'
<1>1. UNCHANGED << servers, mapping, pte, allocated, state, reason, stash,
                   completedRequests, prog, numReqs, page, delivered,
                   clientPages, queued, handled, errored, calling, msg >>
  BY DEF kernelVars, threadVars, userVars, sessionVars
<1>2. TypeOK'
  BY <1>1 DEF IInv, TypeOK
<1>3. ProgramsKnow' /\ SlotsKnow' /\ PagesKnow' /\ SharedPagesAreSafe'
  BY <1>1 DEF IInv, ProgramsKnow, SlotsKnow, PagesKnow, SharedPagesAreSafe,
              ServerProcess, Alive
<1>4. BlockedKnow' /\ RequestsKnow' /\ WaitersKnow'
  BY <1>1 DEF IInv, BlockedKnow, Blocked, RequestsKnow, Alive, WaitersKnow
<1>5. BlockedClientsAreListed'
  BY <1>1, ListedFrame DEF IInv, SameBlocked, SameThreads, Stale
<1>6. DeliveryIsInHand'
  BY <1>1 DEF IInv, DeliveryIsInHand, ServerProcess, Serving
<1>7. ASSUME NEW s \in Slots PROVE SessionKnows(s)'
  <2>1. SessionKnows(s)
    BY DEF IInv
  <2> QED BY <1>1, <2>1 DEF SessionKnows, Stale, Alive, OnItsWay, Blocked
<1>8. RequestsAreCounted'
  <2> SUFFICES ASSUME NEW q \in Processes, Told(q)'
               PROVE  numReqs'[q] + completedRequests'[q] + Cardinality(Untold(q)')
                        = Unhandled(q)'
    BY <1>2 DEF RequestsAreCounted
  <2>1. Told(q)
    BY <1>1 DEF Told, Stale, Serving
  <2>2. Unhandled(q)' = Unhandled(q)
    BY <1>1 DEF Unhandled, SentTo, OneIf
  <2>3. Untold(q)' = Untold(q)
    BY <1>1 DEF Untold, Recipient, ServerProcess
  <2> QED BY <1>1, <2>1, <2>2, <2>3 DEF IInv, RequestsAreCounted
<1>9. CallersKnow'
  BY <1>1 DEF IInv, CallersKnow
<1> QED BY <1>2, <1>3, <1>4, <1>5, <1>6, <1>7, <1>8, <1>9 DEF IInv


-----------------------------------------------------------------------------
(* The steps of a server's program.                                        *)

LEMMA HandleServerMsgKeeps ==
  ASSUME IInv, NEW p \in Servers, HandleServerMsg(p)
  PROVE  IInv'
<1> USE IpcAssumption DEF Processes
<1>0. /\ p \in Processes /\ p \notin Clients
      /\ state[p] = "EReady" /\ prog[p] = "loop" /\ numReqs[p] # 0 /\ delivered[p] # 0
      /\ UNCHANGED << servers, mapping, pte, allocated, state, reason, stash,
                      completedRequests, page, handled, errored, calling, msg, panic >>
      /\ numReqs' = [numReqs EXCEPT ![p] = @ - 1]
      /\ clientPages' = [clientPages EXCEPT ![p] = @ \cup {delivered[p]}]
      /\ queued' = [queued EXCEPT ![p] = @ \cup {delivered[p]}]
      /\ delivered' = [delivered EXCEPT ![p] = 0]
      /\ prog' = [prog EXCEPT ![p] = "request"]
  BY DEF HandleServerMsg, Running, Handling, kernelVars, threadVars
<1>c. p \notin calling /\ \A u \in calling : state[u] = "EReady"
  BY DEF HandleServerMsg, Running, IInv, CallersKnow
<1> DEFINE i == delivered[p]
<1>d. /\ i \in Pages /\ numReqs[p] - 1 \in Nat
      /\ ServerProcess(i) = p
      /\ LET c == mapping[i].owner
         IN  /\ state[c] = "EBlockedFromSvc" /\ reason[c] = "EBlockedInServerConnect"
             /\ c \in Clients /\ page[c] = i /\ msg[i] = "free"
  <2>1. i \in Pages
    BY <1>0 DEF IInv, TypeOK
  <2>2. numReqs[p] - 1 \in Nat
    <3>1. numReqs[p] \in Nat
      BY DEF IInv, TypeOK
    <3> HIDE DEF i
    <3> QED BY <1>0, <3>1
  <2>3. /\ ServerProcess(i) = p /\ mapping[i].owner \in Clients
        /\ state[mapping[i].owner] = "EBlockedFromSvc"
        /\ reason[mapping[i].owner] = "EBlockedInServerConnect"
    BY <1>0 DEF IInv, DeliveryIsInHand
  <2> QED BY <2>1, <2>2, <2>3 DEF IInv, PagesKnow, BlockedKnow, Blocked
<1>1. TypeOK'
  BY <1>0, <1>d DEF IInv, TypeOK
<1>2. ProgramsKnow'
  BY <1>0 DEF IInv, TypeOK, ProgramsKnow
<1>3. SlotsKnow'
  BY <1>0 DEF IInv, SlotsKnow
<1>4. PagesKnow'
  BY <1>0 DEF IInv, TypeOK, PagesKnow, Alive
<1>5. SharedPagesAreSafe'
  BY <1>0 DEF IInv, SharedPagesAreSafe, ServerProcess
<1>6. BlockedKnow'
  BY <1>0 DEF IInv, TypeOK, BlockedKnow, Blocked
<1>7. BlockedClientsAreListed'
  BY <1>0, ListedFrame DEF IInv, TypeOK, SameBlocked, SameThreads, Stale
<1>8. RequestsKnow'
  BY <1>0 DEF IInv, TypeOK, RequestsKnow, DeliveryIsInHand, Alive, Serving
<1>9. DeliveryIsInHand'
  BY <1>0 DEF IInv, TypeOK, DeliveryIsInHand, ServerProcess, Serving
<1>10. WaitersKnow'
  BY <1>0 DEF IInv, TypeOK, WaitersKnow
<1>11. ASSUME NEW s \in Slots PROVE SessionKnows(s)'
  <2> DEFINE q == servers[s].thread
  <2>1. q # None => q \in Servers
    BY DEF IInv, SlotsKnow
  <2>2. SessionKnows(s) /\ ~(Stale(p))
    BY <1>0 DEF IInv, Stale
  <2>3. CASE q # p
    <3>1. \A c \in Clients : OnItsWay(c, q) => OnItsWay(c, q)'
      BY <1>0, <2>1, <2>3 DEF IInv, TypeOK, OnItsWay, Blocked
    <3> QED BY <1>0, <2>1, <2>2, <2>3, <3>1, SessionFrame DEF IInv, TypeOK, Stale, Alive
  <2>4. CASE q = p
    <3>1. mapping[i].server = s
      BY <1>0, <1>d, <2>4, ServerIs DEF IInv
    <3>2. ASSUME NEW c \in Clients, ~OnItsWay(c, p)', OnItsWay(c, p)
          PROVE  page[c] = i
      BY <1>0, <3>2 DEF OnItsWay, Blocked
    <3> QED BY <1>0, <1>d, <2>2, <2>4, <3>1, <3>2 DEF IInv, TypeOK, SessionKnows, Stale, Alive
  <2> QED BY <2>3, <2>4
<1>u. \A u : Untold(u)' = Untold(u)
  BY <1>0, UntoldFrame DEF SameThreads
<1>13. CallersKnow'
  BY <1>0, <1>c, CallersFrame DEF IInv, TypeOK
<1>12. RequestsAreCounted'
  <2> SUFFICES ASSUME NEW q \in Processes, Told(q)'
               PROVE  numReqs'[q] + completedRequests'[q] + Cardinality(Untold(q)')
                          = Unhandled(q)'
    BY <1>1 DEF RequestsAreCounted
  <2>1. Told(q)
    BY <1>0, ToldFrame DEF SameThreads, Stale, IInv, TypeOK
  <2>2. numReqs[q] + completedRequests[q] + Cardinality(Untold(q)) = Unhandled(q)
    BY <2>1 DEF IInv, RequestsAreCounted
  <2>3. CASE q # p
    <3>1. Unhandled(q)' = Unhandled(q)
      BY <1>0, <2>3, UnhandledFrame DEF IInv, TypeOK
    <3> QED BY <1>u, <1>0, <2>2, <2>3, <3>1 DEF IInv, TypeOK
  <2>4. CASE q = p
    <3>1. SentTo(p)' = SentTo(p)
      BY <1>0, <1>d DEF SentTo, IInv, TypeOK
    <3>2. Cardinality(SentTo(p)) \in Nat /\ numReqs[p] \in Nat /\ completedRequests[p] \in Nat
      BY <1>0, SentIsFinite DEF IInv, TypeOK
    <3>3. Unhandled(p) = Unhandled(p)' + 1 /\ Unhandled(p)' \in Nat
      BY <1>0, <1>d, <3>1, <3>2 DEF Unhandled, OneIf, IInv, TypeOK, ProgramsKnow
    <3>4. numReqs'[p] = numReqs[p] - 1 /\ completedRequests'[p] = completedRequests[p]
      BY <1>0 DEF IInv, TypeOK
    <3>5. Cardinality(Untold(p)) \in Nat /\ Cardinality(Untold(p)') = Cardinality(Untold(p))
      BY <1>0, <1>u, SentIsFinite DEF IInv
    <3> QED BY <2>2, <2>4, <3>2, <3>3, <3>4, <3>5
  <2> QED BY <1>u, <2>3, <2>4
<1> QED BY <1>1, <1>2, <1>3, <1>4, <1>5, <1>6, <1>7, <1>8, <1>9, <1>10, <1>11, <1>12, <1>13 DEF IInv

\* A program that fails where it has not connected to anything.
LEMMA FailsKeeps ==
  ASSUME IInv, NEW p \in Processes, state[p] = "EReady", p \notin calling,
         prog[p] \in {"start", "connect"}, prog' = [prog EXCEPT ![p] = "failed"],
         UNCHANGED << kernelVars, threadVars, numReqs, page, delivered,
                      sessionVars, msg, panic >>
  PROVE  IInv'
<1> USE IpcAssumption DEF Processes
<1>0. UNCHANGED << servers, mapping, pte, allocated, state, reason, stash,
                   completedRequests, numReqs, page, delivered, clientPages,
                   queued, handled, errored, calling, msg, panic >>
  BY DEF kernelVars, threadVars, sessionVars
<1>s. /\ \A q \in Processes : Stale(q) <=> Stale(q)'
      /\ \A c : Blocked(c)' = Blocked(c) /\ Alive(c)' = Alive(c)
  BY <1>0 DEF Stale, IInv, TypeOK, Blocked, Alive
<1>1. TypeOK'
  BY <1>0 DEF IInv, TypeOK
<1>2. ProgramsKnow'
  BY <1>0 DEF IInv, TypeOK, ProgramsKnow
<1>3. SlotsKnow'
  BY <1>0 DEF IInv, SlotsKnow
<1>4. PagesKnow'
  BY <1>0 DEF IInv, TypeOK, PagesKnow, Alive
<1>5. SharedPagesAreSafe'
  BY <1>0 DEF IInv, SharedPagesAreSafe, ServerProcess
<1>6. BlockedKnow'
  BY <1>0 DEF IInv, TypeOK, BlockedKnow, Blocked
<1>7. BlockedClientsAreListed'
  <2>1. \A s \in Slots : Stale(servers[s].thread) => Stale(servers[s].thread)'
    BY <1>0 DEF Stale, IInv, TypeOK
  <2> QED BY <1>0, <2>1, ListedFrame DEF IInv, SameBlocked, SameThreads
<1>8. RequestsKnow'
  BY <1>0 DEF IInv, TypeOK, RequestsKnow, Alive
<1>9. DeliveryIsInHand'
  BY <1>0 DEF IInv, TypeOK, DeliveryIsInHand, ServerProcess, Serving
<1>10. WaitersKnow'
  BY <1>0 DEF IInv, TypeOK, WaitersKnow
<1>11. ASSUME NEW s \in Slots PROVE SessionKnows(s)'
  <2>1. servers[s].thread # None => servers[s].thread \in Processes
    BY DEF IInv, SlotsKnow
  <2>2. \A c \in Clients, q \in Processes : OnItsWay(c, q) => OnItsWay(c, q)'
    BY <1>0 DEF OnItsWay, Blocked
  <2> QED BY <1>0, <1>s, <2>1, <2>2, SessionFrame DEF IInv, TypeOK
<1>u. \A u : Untold(u)' = Untold(u)
  BY <1>0, UntoldFrame DEF SameThreads
<1>13. CallersKnow'
  BY <1>0, CallersFrame DEF IInv, TypeOK, CallersKnow
<1>12. RequestsAreCounted'
  <2> SUFFICES ASSUME NEW q \in Processes, Told(q)'
               PROVE  numReqs'[q] + completedRequests'[q] + Cardinality(Untold(q)')
                          = Unhandled(q)'
    BY <1>1 DEF RequestsAreCounted
  <2>1. Told(q)
    BY <1>0, <1>s, ToldFrame DEF SameThreads
  <2>2. Unhandled(q)' = Unhandled(q)
    BY <1>0, UnhandledFrame
  <2> QED BY <1>u, <1>0, <2>1, <2>2 DEF IInv, RequestsAreCounted
<1> QED BY <1>1, <1>2, <1>3, <1>4, <1>5, <1>6, <1>7, <1>8, <1>9, <1>10, <1>11, <1>12, <1>13 DEF IInv

LEMMA CreateServerKeeps ==
  ASSUME IInv, NEW p \in Servers, CreateServer(p)
  PROVE  IInv'
<1> USE IpcAssumption DEF Processes
<1>0. /\ p \in Processes /\ p \notin Clients
      /\ state[p] = "EReady" /\ prog[p] = "start" /\ p \notin calling
      /\ UNCHANGED << mapping, pte, allocated, state, reason, stash,
                      completedRequests, numReqs, page, delivered, clientPages,
                      queued, handled, errored, calling, msg, panic >>
  BY DEF CreateServer, Running, threadVars, sessionVars
<1>a. CASE prog' = [prog EXCEPT ![p] = "failed"] /\ UNCHANGED servers
  BY <1>0, <1>a, FailsKeeps DEF kernelVars, threadVars, sessionVars
<1>b. CASE /\ Named(IdOf[p]) = {} /\ prog' = [prog EXCEPT ![p] = "request"]
           /\ \E s \in Slots :
                /\ IsLast(s, {r \in Slots : servers[r].thread = None})
                /\ servers' = [servers EXCEPT ![s] =
                     [id |-> IdOf[p], thread |-> p, ptr |-> FALSE, clients |-> << >>]]
  <2>1. PICK s \in Slots :
          /\ servers[s].thread = None
          /\ servers' = [servers EXCEPT ![s] =
               [id |-> IdOf[p], thread |-> p, ptr |-> FALSE, clients |-> << >>]]
    BY <1>b DEF IsLast
  <2>2. /\ \A r \in Slots : servers[r].thread # p /\ servers[r].id # IdOf[p]
        /\ \A i \in Pages : mapping[i].server # s
        /\ servers[s].clients = << >>
        /\ clientPages[p] = {} /\ queued[p] = {} /\ delivered[p] = 0
    <3>1. \A r \in Slots : servers[r].id # IdOf[p]
      BY <1>b DEF Named
    <3>2. \A r \in Slots : servers[r].thread # p
      BY <3>1 DEF IInv, SlotsKnow
    <3>3. \A i \in Pages : mapping[i].server # s
      BY <2>1 DEF IInv, SlotsKnow
    <3>4. servers[s].clients = << >>
      BY <2>1 DEF IInv, SlotsKnow, NoServer
    <3>5. clientPages[p] = {} /\ queued[p] = {} /\ delivered[p] = 0
      BY <1>0 DEF IInv, ProgramsKnow, DeliveryIsInHand
    <3> QED BY <3>1, <3>2, <3>3, <3>4, <3>5
  <2>3. /\ \A r \in Slots \ {s} : servers'[r] = servers[r]
        /\ servers'[s] = [id |-> IdOf[p], thread |-> p, ptr |-> FALSE, clients |-> << >>]
        /\ \A q \in Processes \ {p} : prog'[q] = prog[q]
        /\ prog'[p] = "request"
    BY <1>b, <2>1 DEF IInv, TypeOK
  <2>4. \A i \in Pages : ServerProcess(i)' = ServerProcess(i)
    BY <1>0, <2>2, <2>3 DEF ServerProcess, IInv, TypeOK
  <2>5. \A q \in Processes \ {p} : (Stale(q)' <=> Stale(q)) /\ Serving(q)' = Serving(q)
    BY <1>0, <2>1, <2>3 DEF Stale, Serving
  <2>6. \A c \in Clients : c \in Processes /\ c # p /\ prog'[c] = prog[c]
    BY <1>0, <2>3
  <2>11. TypeOK'
    <3>1. servers' \in [Slots -> ServerRecords]
      BY <2>1 DEF IInv, TypeOK, ServerRecords
    <3> QED BY <1>0, <1>b, <3>1 DEF IInv, TypeOK
  <2>12. ProgramsKnow'
    <3>1. \A q \in Servers \ {p} :
            (\E r \in Slots : servers[r].thread = q) => \E r \in Slots : servers'[r].thread = q
      BY <2>1, <2>3
    <3>2. servers'[s].thread = p
      BY <2>3
    <3> QED BY <1>0, <2>2, <2>3, <2>6, <3>1, <3>2 DEF IInv, ProgramsKnow
  <2>13. SlotsKnow'
    BY <1>0, <2>1, <2>2, <2>3 DEF IInv, SlotsKnow
  <2>14. PagesKnow'
    BY <1>0, <2>6 DEF IInv, PagesKnow, Alive
  <2>15. SharedPagesAreSafe'
    BY <1>0, <2>4 DEF IInv, SharedPagesAreSafe
  <2>16. BlockedKnow'
    <3>1. \A c \in Clients : prog'[c] = prog[c]
      BY <2>6
    <3>2. UNCHANGED << state, stash, page, msg >>
      BY <1>0
    <3> QED BY <3>1, <3>2 DEF IInv, BlockedKnow, Blocked
  <2>17. BlockedClientsAreListed'
    <3> SUFFICES ASSUME NEW c \in Processes
                 PROVE  LET lists == {r \in Slots : Contains(servers'[r].clients, c)} IN
                        IF state[c] # "EBlockedFromSvc"
                          THEN lists = {}
                          ELSE /\ mapping[stash[c]].owner = c
                               /\ \E r \in Slots :
                                    /\ lists = {r} /\ Distinct(servers'[r].clients)
                                    /\ mapping[stash[c]].server # r =>
                                         /\ mapping[stash[c]].server = 0
                                         /\ Stale(servers[r].thread)'
      BY <1>0 DEF BlockedClientsAreListed, Stale
    <3>1. \A r \in Slots : servers'[r].clients = servers[r].clients
      BY <2>2, <2>3
    <3>2. {r \in Slots : Contains(servers'[r].clients, c)}
            = {r \in Slots : Contains(servers[r].clients, c)}
      BY <3>1
    <3>3. CASE state[c] = "EBlockedFromSvc"
      <4>1. PICK r \in Slots :
              /\ {x \in Slots : Contains(servers[x].clients, c)} = {r}
              /\ Distinct(servers[r].clients)
              /\ mapping[stash[c]].server # r =>
                   mapping[stash[c]].server = 0 /\ Stale(servers[r].thread)
        BY <3>3 DEF IInv, BlockedClientsAreListed
      <4>2. mapping[stash[c]].owner = c
        BY <3>3 DEF IInv, BlockedClientsAreListed
      <4>3. r # s
        BY <2>2, <4>1 DEF Contains
      <4>4. servers[r].thread # p
        BY <2>2
      <4>5. Stale(servers[r].thread) => Stale(servers[r].thread)'
        BY <1>0, <1>b, <2>3, <4>3, <4>4 DEF Stale, IInv, TypeOK
      <4> QED BY <3>1, <3>2, <3>3, <4>1, <4>2, <4>5
    <3>4. CASE state[c] # "EBlockedFromSvc"
      BY <3>2, <3>4 DEF IInv, BlockedClientsAreListed
    <3> QED BY <3>3, <3>4
  <2>18. RequestsKnow'
    BY <1>0, <2>2, <2>3 DEF IInv, RequestsKnow, Alive
  <2>19. DeliveryIsInHand'
    <3> SUFFICES ASSUME NEW q \in Servers, state[q] # "EDead"
                 PROVE  /\ delivered[q] # 0 =>
                             /\ prog'[q] \in {"loop", "requeue"}
                             /\ ServerProcess(delivered[q])' = q
                             /\ LET c == mapping[delivered[q]].owner
                                IN  /\ c \in Clients /\ state[c] = "EBlockedFromSvc"
                                    /\ reason[c] = "EBlockedInServerConnect"
                        /\ prog'[q] \in {"loop", "requeue"} =>
                             \A r \in Serving(q)' : servers'[r].ptr <=> delivered[q] = 0
      BY <1>0 DEF DeliveryIsInHand
    <3>1. CASE q = p
      BY <2>2, <2>3, <3>1
    <3>2. CASE q # p
      <4>1. prog'[q] = prog[q] /\ Serving(q)' = Serving(q) /\ s \notin Serving(q)
        BY <2>1, <2>3, <2>5, <3>2 DEF Serving
      <4>2. delivered[q] # 0 => ServerProcess(delivered[q])' = ServerProcess(delivered[q])
        BY <1>0, <2>4 DEF IInv, TypeOK
      <4>3. \A r \in Serving(q) : servers'[r] = servers[r]
        BY <2>3, <4>1 DEF Serving
      <4> QED BY <4>1, <4>2, <4>3 DEF IInv, DeliveryIsInHand
    <3> QED BY <3>1, <3>2
  <2>20. WaitersKnow'
    BY <1>0 DEF IInv, WaitersKnow
  <2>21. ASSUME NEW r \in Slots PROVE SessionKnows(r)'
    <3>1. CASE r = s
      <4>1. clientPages'[p] = {} /\ queued'[p] = {} /\ prog'[p] = "request"
        BY <1>0, <2>3 DEF IInv, TypeOK, ProgramsKnow
      <4>2. \A i \in Pages : mapping[i].server # s
        BY <2>2 DEF IInv, SlotsKnow
      <4>3. \A c \in Clients : Alive(c)' /\ prog'[c] = "connected" => page[c] \in Pages
        <5> SUFFICES ASSUME NEW c \in Clients, Alive(c)', prog'[c] = "connected"
                     PROVE  page[c] \in Pages
          BY <1>0
        <5>1. Alive(c) /\ prog[c] = "connected" /\ c \in Processes
          BY <1>0, <2>6 DEF Alive
        <5>2. page[c] # 0
          BY <5>1 DEF IInv, PagesKnow
        <5> QED BY <5>1, <5>2 DEF IInv, TypeOK
      <4> QED BY <1>0, <2>3, <3>1, <4>1, <4>2, <4>3 DEF SessionKnows
    <3>2. CASE r # s
      <4>1. servers[r].thread # p /\ (servers[r].thread # None => servers[r].thread \in Processes)
        BY <2>2 DEF IInv, SlotsKnow
      <4>2. \A c \in Clients, q \in Processes : OnItsWay(c, q) => OnItsWay(c, q)'
        BY <1>0 DEF OnItsWay, Blocked
      <4>3. servers'[r].thread = servers[r].thread
        BY <2>3, <3>2
      <4>4. servers[r].thread # None =>
              (Stale(servers[r].thread)' <=> Stale(servers[r].thread))
                /\ prog'[servers[r].thread] = prog[servers[r].thread]
        BY <2>3, <2>5, <4>1, <4>3
      <4>5. \A c \in Clients : (Alive(c)' <=> Alive(c)) /\ page'[c] = page[c]
        BY <1>0 DEF Alive
      <4>6. SessionKnows(r)
        BY DEF IInv
      <4> QED BY <1>0, <2>6, <4>1, <4>2, <4>3, <4>4, <4>5, <4>6, SessionFrame
    <3> QED BY <3>1, <3>2
  <2>u. \A u : Untold(u)' = Untold(u)
    <3>1. \A u \in calling : Recipient(u)' = Recipient(u)
      BY <1>0, <2>4, CallerIs DEF Recipient
    <3> QED BY <1>0, <3>1 DEF Untold
  <2>23. CallersKnow'
    BY <1>0, <2>3, CallersFrame DEF IInv, TypeOK, CallersKnow
  <2>22. RequestsAreCounted'
    <3> SUFFICES ASSUME NEW q \in Processes, Told(q)'
                 PROVE  numReqs'[q] + completedRequests'[q] + Cardinality(Untold(q)')
                          = Unhandled(q)'
      BY <2>11 DEF RequestsAreCounted
    <3>1. Told(q)
      <4>1. Serving(p) = {}
        BY <2>2 DEF Serving
      <4> QED BY <2>u, <1>0, <2>5, <4>1 DEF Told
    <3>2. Unhandled(q)' = Unhandled(q)
      BY <1>0, UnhandledFrame
    <3> QED BY <2>u, <1>0, <3>1, <3>2 DEF IInv, RequestsAreCounted
  <2> QED BY <2>11, <2>12, <2>13, <2>14, <2>15, <2>16, <2>17, <2>18, <2>19,
             <2>20, <2>21, <2>22, <2>23 DEF IInv
<1> QED BY <1>a, <1>b DEF CreateServer


\* A server's request for a message waits, is the answer to a client whose
\* connection was handled, or is answered with the next connection.
LEMMA RequestWaitsKeeps ==
  ASSUME IInv, NEW p \in Servers, NEW s \in Slots,
         state[p] = "EReady", p \notin calling, prog[p] = "request", servers[s].thread = p,
         servers' = [servers EXCEPT ![s].ptr = TRUE],
         prog' = [prog EXCEPT ![p] = "loop"],
         UNCHANGED << mapping, pte, allocated, threadVars, numReqs, page,
                      delivered, sessionVars, msg, panic >>
  PROVE  IInv'
<1> USE IpcAssumption DEF Processes
<1>0. /\ p \in Processes /\ p \notin Clients
      /\ UNCHANGED << mapping, pte, allocated, state, reason, stash,
                      completedRequests, numReqs, page, delivered, clientPages,
                      queued, handled, errored, calling, msg, panic >>
  BY DEF threadVars, sessionVars
<1>p. /\ prog'[p] = "loop"
      /\ \A q \in Processes \ {p} : prog'[q] = prog[q]
      /\ \A q \in Processes : Stale(q)' <=> Stale(q)
  BY <1>0 DEF IInv, TypeOK, Stale
<1>s. /\ \A r \in Slots : /\ servers'[r].thread = servers[r].thread
                          /\ servers'[r].id = servers[r].id
                          /\ servers'[r].clients = servers[r].clients
      /\ \A r \in Slots \ {s} : servers'[r] = servers[r]
      /\ servers'[s].ptr = TRUE
  BY DEF IInv, TypeOK, ServerRecords
<1>o. \A i \in Pages : ServerProcess(i)' = ServerProcess(i)
  BY <1>0, <1>s DEF ServerProcess, IInv, TypeOK
<1>t. \A r \in Slots : servers[r].thread # None => servers[r].thread \in Servers
  BY DEF IInv, SlotsKnow
<1>1. TypeOK'
  <2>1. servers' \in [Slots -> ServerRecords]
    <3>0. servers[s] \in ServerRecords
      BY DEF IInv, TypeOK
    <3>1. [servers[s] EXCEPT !.ptr = TRUE] \in ServerRecords
      BY <3>0 DEF ServerRecords
    <3> QED BY <3>1 DEF IInv, TypeOK
  <2> QED BY <1>0, <2>1 DEF IInv, TypeOK
<1>2. ProgramsKnow'
  BY <1>0, <1>p, <1>s DEF IInv, ProgramsKnow
<1>3. SlotsKnow'
  BY <1>0, <1>s DEF IInv, SlotsKnow
<1>4. PagesKnow'
  BY <1>0, <1>p DEF IInv, PagesKnow, Alive
<1>5. SharedPagesAreSafe'
  BY <1>0, <1>o DEF IInv, SharedPagesAreSafe
<1>6. BlockedKnow'
  BY <1>0, <1>p DEF IInv, BlockedKnow, Blocked
<1>7. BlockedClientsAreListed'
  <2>1. \A r \in Slots : Stale(servers[r].thread) => Stale(servers[r].thread)'
    BY <1>0, <1>p, <1>s, <1>t DEF Stale, IInv, TypeOK
  <2> QED BY <1>0, <1>s, <2>1, ListedFrame DEF IInv, SameBlocked, SameThreads
<1>8. RequestsKnow'
  BY <1>0, <1>p, <1>s DEF IInv, RequestsKnow, Alive
<1>9. DeliveryIsInHand'
  <2> SUFFICES (\A q \in Servers : InHand(q))'
    BY DEF DeliveryIsInHand, InHand, Serving
  <2> SUFFICES ASSUME NEW q \in Servers PROVE InHand(q)'
    OBVIOUS
  <2>1. InHand(q) /\ InHand(p)
    BY InHandIs DEF IInv
  <2>2. CASE q = p
    <3>1. delivered[p] = 0
      BY <2>1 DEF InHand
    <3>2. \A r \in Slots : servers'[r].thread = p => r = s
      BY <1>s, OneSlot DEF IInv
    <3> QED BY <1>0, <1>s, <2>2, <3>1, <3>2 DEF InHand
  <2>3. CASE q # p
    <3>1. \A r \in Slots : servers'[r].thread = q => servers'[r] = servers[r]
      BY <1>s, <2>3
    <3>2. delivered[q] # 0 => ServerProcess(delivered[q])' = ServerProcess(delivered[q])
      BY <1>0, <1>o DEF IInv, TypeOK
    <3> QED BY <1>0, <1>p, <1>s, <2>1, <2>3, <3>1, <3>2 DEF InHand
  <2> QED BY <2>2, <2>3
<1>10. WaitersKnow'
  BY <1>0 DEF IInv, WaitersKnow
<1>11. ASSUME NEW r \in Slots PROVE SessionKnows(r)'
  <2> DEFINE q == servers[r].thread
  <2>1. \A c \in Clients : OnItsWay(c, q) => OnItsWay(c, q)'
    BY <1>0, <1>s DEF OnItsWay, Blocked
  <2>2. \A c \in Clients : c \in Processes /\ c # p /\ prog'[c] = prog[c] /\ Alive(c)' = Alive(c)
    BY <1>0, <1>p DEF Alive
  <2>3. q # None => /\ Stale(q) <=> Stale(q)'
                    /\ prog'[q] = "requeue" => prog[q] = "requeue"
    <3>1. CASE q # None
      <4>1. q \in Processes
        BY <1>t, <3>1
      <4>2. Stale(q)' <=> Stale(q)
        BY <1>0, <1>p, <1>s, <4>1 DEF Stale
      <4> QED BY <1>p, <4>1, <4>2
    <3> QED BY <3>1
  <2>4. SessionKnows(r)
    BY DEF IInv
  <2> QED BY <1>0, <1>s, <2>1, <2>2, <2>3, <2>4, SessionFrame
<1>u. \A u : Untold(u)' = Untold(u)
  BY <1>0, <1>s, UntoldFrame DEF SameThreads
<1>13. CallersKnow'
  BY <1>0, <1>p, CallersFrame DEF IInv, TypeOK, CallersKnow
<1>12. RequestsAreCounted'
  <2> SUFFICES ASSUME NEW q \in Processes, Told(q)'
               PROVE  numReqs'[q] + completedRequests'[q] + Cardinality(Untold(q)')
                          = Unhandled(q)'
    BY <1>1 DEF RequestsAreCounted
  <2>1. Told(q)
    BY <1>0, <1>p, <1>s, ToldFrame DEF SameThreads
  <2>2. Unhandled(q)' = Unhandled(q)
    BY <1>0, UnhandledFrame
  <2> QED BY <1>u, <1>0, <2>1, <2>2 DEF IInv, RequestsAreCounted
<1> QED BY <1>1, <1>2, <1>3, <1>4, <1>5, <1>6, <1>7, <1>8, <1>9, <1>10, <1>11, <1>12, <1>13 DEF IInv

LEMMA ReleaseKeeps ==
  ASSUME IInv, NEW p \in Servers, NEW s \in Slots, NEW t,
         state[p] = "EReady", p \notin calling, prog[p] = "request", servers[s].thread = p,
         Contains(servers[s].clients, t), reason[t] = "EBlockedInServerConnect",
         Release(s, t), prog' = [prog EXCEPT ![p] = "loop"],
         UNCHANGED << mapping, pte, allocated, page, sessionVars, msg, panic >>
  PROVE  IInv'
<1> USE IpcAssumption DEF Processes
<1>0. /\ p \in Processes /\ p \notin Clients
      /\ UNCHANGED << mapping, pte, allocated, reason, stash, completedRequests,
                      numReqs, page, delivered, clientPages, queued, handled,
                      errored, calling, msg, panic >>
  BY DEF Release, sessionVars
<1>x. /\ servers' = [servers EXCEPT ![s].ptr = TRUE, ![s].clients = Dequeue(@, t)]
      /\ state' = [state EXCEPT ![t] = "EReady"]
  BY DEF Release
<1>t. /\ t \in Clients /\ t \in Processes /\ t # p /\ Blocked(t)
      /\ stash[t] = page[t] /\ page[t] \in Pages /\ prog[t] = "connected" /\ Alive(t)
      /\ mapping[page[t]].server # s =>
           mapping[page[t]].server = 0 /\ Stale(servers[s].thread)
      /\ Distinct(servers[s].clients)
      /\ \A r \in Slots : Contains(servers[r].clients, t) => r = s
  BY <1>0, InListIs
<1>a. /\ \A q \in Processes \ {t} : state'[q] = state[q]
      /\ state[t] = "EBlockedFromSvc" /\ state'[t] = "EReady"
  BY <1>x, <1>t DEF IInv, TypeOK, Blocked
<1>p. /\ prog'[p] = "loop"
      /\ \A q \in Processes \ {p} : prog'[q] = prog[q]
      /\ \A q \in Processes : Stale(q)' <=> Stale(q)
      /\ \A q \in Processes : Alive(q)' <=> Alive(q)
  BY <1>0, <1>t, <1>a DEF IInv, TypeOK, Stale, Alive
<1>k. /\ \A c \in Clients : /\ c \in Processes /\ c # p /\ prog'[c] = prog[c]
                            /\ Alive(c)' <=> Alive(c)
      /\ \A q \in Servers : q \in Processes /\ q # t /\ state'[q] = state[q]
  BY <1>0, <1>t, <1>p, <1>a
<1>c. /\ servers[s].clients \in Seq(Processes)
      /\ Dequeue(servers[s].clients, t) \in Seq(Processes)
      /\ Distinct(Dequeue(servers[s].clients, t))
      /\ \A u : Contains(Dequeue(servers[s].clients, t), u) <=>
                  u # t /\ Contains(servers[s].clients, u)
  <2>1. servers[s].clients \in Seq(Processes)
    BY DEF IInv, TypeOK, ServerRecords
  <2> QED BY <1>t, <2>1, DequeueIs
<1>s. /\ \A r \in Slots : /\ servers'[r].thread = servers[r].thread
                          /\ servers'[r].id = servers[r].id
      /\ \A r \in Slots \ {s} : servers'[r] = servers[r]
      /\ servers'[s].ptr = TRUE
      /\ servers'[s].clients = Dequeue(servers[s].clients, t)
  BY <1>x DEF IInv, TypeOK, ServerRecords
<1>o. \A i \in Pages : ServerProcess(i)' = ServerProcess(i)
  BY <1>0, <1>s DEF ServerProcess, IInv, TypeOK
<1>v. \A r \in Slots : servers[r].thread # None => servers[r].thread \in Servers
  BY DEF IInv, SlotsKnow
<1>1. TypeOK'
  <2>1. servers' \in [Slots -> ServerRecords]
    <3>0. servers[s] \in ServerRecords
      BY DEF IInv, TypeOK
    <3>1. [servers[s] EXCEPT !.ptr = TRUE, !.clients = Dequeue(@, t)] \in ServerRecords
      BY <1>c, <3>0 DEF ServerRecords
    <3> QED BY <1>x, <3>1 DEF IInv, TypeOK
  <2> QED BY <1>0, <1>x, <2>1 DEF IInv, TypeOK
<1>2. ProgramsKnow'
  <2>1. \A q \in Servers \ {p} :
          (\E r \in Slots : servers[r].thread = q) => \E r \in Slots : servers'[r].thread = q
    BY <1>s
  <2>2. servers'[s].thread = p
    BY <1>s
  <2>3. \A q \in Servers \ {p} : q \in Processes /\ prog'[q] = prog[q]
    BY <1>p
  <2> QED BY <1>0, <1>p, <1>k, <2>1, <2>2, <2>3 DEF IInv, ProgramsKnow
<1>3. SlotsKnow'
  <2>1. \A r \in Slots : servers[r].thread = None => servers'[r] = servers[r]
    BY <1>s
  <2>2. \A r \in Slots : /\ servers'[r].thread = servers[r].thread
                         /\ servers'[r].id = servers[r].id
    BY <1>s
  <2> QED BY <1>0, <2>1, <2>2 DEF IInv, SlotsKnow
<1>4. PagesKnow'
  BY <1>0, <1>k DEF IInv, PagesKnow
<1>5. SharedPagesAreSafe'
  BY <1>0, <1>o DEF IInv, SharedPagesAreSafe
<1>6. BlockedKnow'
  BY <1>0, <1>p, <1>a DEF IInv, BlockedKnow, Blocked
<1>7. BlockedClientsAreListed'
  <2> SUFFICES ASSUME NEW c \in Processes PROVE Listed(c)'
    BY DEF BlockedClientsAreListed, Listed, Lists
  <2>1. Listed(c)
    BY ListedIs DEF IInv
  <2>2. \A r \in Slots :
          Contains(servers'[r].clients, c) <=> c # t /\ Contains(servers[r].clients, c)
    BY <1>c, <1>s, <1>t
  <2>3. CASE c = t
    BY <1>a, <2>2, <2>3 DEF Listed, Lists
  <2>4. CASE c # t
    <3>1. Lists(c)' = Lists(c) /\ state'[c] = state[c]
      BY <1>a, <2>2, <2>4 DEF Lists
    <3>2. \A r \in Slots : r \in Lists(c) => servers[r].thread \in Processes
      BY <1>v DEF Lists, IInv, SlotsKnow, NoServer, Contains
    <3>3. \A r \in Slots : r \in Lists(c) =>
            (Stale(servers[r].thread) => Stale(servers[r].thread)')
      BY <1>p, <1>s, <3>2
    <3>4. \A r \in Slots : Distinct(servers[r].clients) => Distinct(servers'[r].clients)
      BY <1>c, <1>s
    <3> QED BY <1>0, <2>1, <3>1, <3>3, <3>4 DEF Listed
  <2> QED BY <2>3, <2>4
<1>8. RequestsKnow'
  <2>1. \A q \in Servers : /\ Alive(q)' <=> Alive(q)
                           /\ prog'[q] = "request" => q # p /\ prog[q] = "request"
    BY <1>p, <1>k
  <2>2. \A q \in Servers, r \in Slots :
          servers'[r].thread = q /\ q # p => servers[r].thread = q /\ servers'[r] = servers[r]
    BY <1>s
  <2> QED BY <2>1, <2>2 DEF IInv, RequestsKnow
<1>9. DeliveryIsInHand'
  <2> SUFFICES (\A q \in Servers : InHand(q))'
    BY DEF DeliveryIsInHand, InHand, Serving
  <2> SUFFICES ASSUME NEW q \in Servers PROVE InHand(q)'
    OBVIOUS
  <2>1. InHand(q) /\ InHand(p)
    BY InHandIs DEF IInv
  <2>2. CASE q = p
    <3>1. delivered[p] = 0
      BY <2>1 DEF InHand
    <3>2. \A r \in Slots : servers'[r].thread = p => r = s
      BY <1>s, OneSlot DEF IInv
    <3> QED BY <1>0, <1>s, <2>2, <3>1, <3>2 DEF InHand
  <2>3. CASE q # p
    <3>1. \A r \in Slots : servers'[r].thread = q => servers'[r] = servers[r]
      BY <1>s, <2>3
    <3>2. delivered[q] # 0 => ServerProcess(delivered[q])' = ServerProcess(delivered[q])
      BY <1>0, <1>o DEF IInv, TypeOK
    <3>3. state[q] # "EDead" /\ delivered[q] # 0 => mapping[delivered[q]].owner # t
      <4> SUFFICES ASSUME state[q] # "EDead", delivered[q] # 0,
                          mapping[delivered[q]].owner = t
                   PROVE  FALSE
        OBVIOUS
      <4>1. delivered[q] \in Pages /\ ServerProcess(delivered[q]) = q
        BY <2>1 DEF InHand, IInv, TypeOK
      <4>2. page[t] = delivered[q]
        BY <1>t, <4>1 DEF IInv, PagesKnow
      <4>3. mapping[page[t]].server = s
        BY <1>t, <4>1, <4>2 DEF ServerProcess
      <4> QED BY <2>3, <4>1, <4>2, <4>3 DEF ServerProcess
    <3>4. state'[q] = state[q] /\ prog'[q] = prog[q]
      BY <1>k, <1>p, <2>3
    <3>5. \A c \in Clients \ {t} : state'[c] = state[c]
      BY <1>k, <1>a
    <3>6. \A r \in Slots : servers'[r].thread = q => servers[r].thread = q
      BY <1>s
    <3> QED BY <1>0, <2>1, <3>1, <3>2, <3>3, <3>4, <3>5, <3>6 DEF InHand
  <2> QED BY <2>2, <2>3
<1>10. WaitersKnow'
  BY <1>0, <1>a DEF IInv, WaitersKnow
<1>11. ASSUME NEW r \in Slots PROVE SessionKnows(r)'
  <2> DEFINE q == servers[r].thread
  <2>1. CASE q = p
    <3>1. r = s /\ SessionKnows(s) /\ ~Stale(p)
      BY <2>1, OneSlot DEF IInv, Stale
    <3>2. delivered[p] = 0
      BY InHandIs DEF IInv, InHand
    <3>3. \A c \in Clients : OnItsWay(c, p) /\ c # t => OnItsWay(c, p)'
      BY <1>0, <1>a DEF OnItsWay, Blocked
    <3>4. ~OnItsWay(t, p)
      BY <1>t, <3>2 DEF OnItsWay, Pages
    <3>5. \A c \in Clients : prog'[c] = prog[c] /\ (Alive(c)' <=> Alive(c))
      BY <1>k
    <3>6. prog'[p] # "requeue" /\ servers'[r].thread = p
      BY <1>p, <1>s, <2>1
    <3> QED BY <1>0, <2>1, <3>1, <3>3, <3>4, <3>5, <3>6 DEF SessionKnows
  <2>2. CASE q # p
    <3>1. \A c \in Clients :
            mapping[page[c]].server = r /\ OnItsWay(c, q) => OnItsWay(c, q)'
      <4>1. mapping[page[t]].server # r
        BY <1>t, <2>2, IpcAssumption DEF Slots
      <4> QED BY <1>0, <1>s, <1>a, <4>1 DEF OnItsWay, Blocked
    <3>2. \A c \in Clients : prog'[c] = prog[c] /\ (Alive(c)' <=> Alive(c))
      BY <1>k
    <3>3. q # None => /\ Stale(q) <=> Stale(q)'
                      /\ prog'[q] = prog[q]
      <4>1. CASE q # None
        <5>1. q \in Processes
          BY <1>v, <4>1
        <5>2. Stale(q)' <=> Stale(q)
          BY <1>s, <1>p, <5>1
        <5> QED BY <1>p, <2>2, <5>1, <5>2
      <4> QED BY <4>1
    <3>4. SessionKnows(r)
      BY DEF IInv
    <3> QED BY <1>0, <1>s, <3>1, <3>2, <3>3, <3>4, SessionFrame
  <2> QED BY <2>1, <2>2
<1>u. \A u : Untold(u)' = Untold(u)
  BY <1>0, <1>s, UntoldFrame DEF SameThreads
<1>13. CallersKnow'
  <2>1. \A u \in calling : /\ u \in Processes \ {p, t} /\ state[u] = "EReady"
    BY <1>0, <1>a DEF IInv, TypeOK, CallersKnow
  <2> QED BY <1>0, <1>p, <1>a, <2>1, CallersFrame DEF IInv
<1>12. RequestsAreCounted'
  <2> SUFFICES ASSUME NEW q \in Processes, Told(q)'
               PROVE  numReqs'[q] + completedRequests'[q] + Cardinality(Untold(q)')
                          = Unhandled(q)'
    BY <1>1 DEF RequestsAreCounted
  <2>1. Told(q)
    BY <1>0, <1>a, <1>p, <1>s, ToldFrame DEF SameThreads
  <2>2. Unhandled(q)' = Unhandled(q)
    BY <1>0, UnhandledFrame
  <2> QED BY <1>u, <1>0, <2>1, <2>2 DEF IInv, RequestsAreCounted
<1> QED BY <1>1, <1>2, <1>3, <1>4, <1>5, <1>6, <1>7, <1>8, <1>9, <1>10, <1>11, <1>12, <1>13 DEF IInv

LEMMA HandOverKeeps ==
  ASSUME IInv, NEW p \in Servers, NEW s \in Slots, NEW t,
         state[p] = "EReady", p \notin calling, prog[p] = "request", servers[s].thread = p,
         ~servers[s].ptr, Contains(servers[s].clients, t),
         reason[t] = "EBlockedWaitingForServerConnect",
         HandOver(s, t), prog' = [prog EXCEPT ![p] = "loop"],
         UNCHANGED << mapping, pte, allocated, page, sessionVars, msg, panic >>
  PROVE  IInv'
<1> USE IpcAssumption DEF Processes
<1>0. /\ p \in Processes /\ p \notin Clients
      /\ UNCHANGED << servers, mapping, pte, allocated, stash, page, clientPages,
                      queued, handled, errored, calling, msg, panic >>
  BY DEF HandOver, sessionVars
<1>t. /\ t \in Clients /\ t \in Processes /\ t # p /\ Blocked(t)
      /\ stash[t] = page[t] /\ page[t] \in Pages /\ page[t] # 0
      /\ prog[t] = "connected" /\ Alive(t)
      /\ mapping[page[t]].server = s /\ mapping[page[t]].owner = t
      /\ \A r \in Slots : Contains(servers[r].clients, t) => r = s
  <2>1. ~Stale(p)
    BY DEF Stale
  <2>2. 0 \notin Pages
    BY DEF Pages
  <2> QED BY <1>0, <2>1, <2>2, InListIs
<1>x. /\ delivered' = [delivered EXCEPT ![p] = page[t]]
      /\ reason' = [reason EXCEPT ![t] = "EBlockedInServerConnect"]
      /\ completedRequests' = [completedRequests EXCEPT ![p] = @ + 1]
      /\ UNCHANGED << state, numReqs >>
  <2>1. ~Stale(p)
    BY DEF Stale
  <2>2. Signal(p, state, numReqs) /\ delivered' = [delivered EXCEPT ![p] = page[t]]
    BY <1>t, <2>1 DEF HandOver, Deliver
  <2>3. state' = state /\ numReqs' = numReqs
    BY <1>0, <2>2 DEF Signal, IInv, TypeOK
  <2> QED BY <1>0, <2>2, <2>3 DEF HandOver, Signal
<1>d. /\ delivered[p] = 0 /\ delivered'[p] = page[t]
      /\ \A q \in Processes \ {p} : delivered'[q] = delivered[q]
      /\ reason'[t] = "EBlockedInServerConnect"
      /\ \A c \in Processes \ {t} : reason'[c] = reason[c]
      /\ completedRequests'[p] = completedRequests[p] + 1
      /\ \A q \in Processes \ {p} : completedRequests'[q] = completedRequests[q]
  <2>1. delivered[p] = 0
    BY InHandIs DEF IInv, InHand
  <2> QED BY <1>0, <1>x, <1>t, <2>1 DEF IInv, TypeOK
<1>p. /\ prog'[p] = "loop"
      /\ \A q \in Processes \ {p} : prog'[q] = prog[q]
      /\ \A q \in Processes : Stale(q)' <=> Stale(q)
  BY <1>0, <1>x DEF IInv, TypeOK, Stale
<1>k. \A c \in Clients : /\ c \in Processes /\ c # p /\ prog'[c] = prog[c]
                         /\ delivered'[c] = delivered[c] /\ Alive(c)' = Alive(c)
  BY <1>0, <1>x, <1>p, <1>d DEF Alive
<1>v. \A r \in Slots : servers[r].thread # None => servers[r].thread \in Servers
  BY DEF IInv, SlotsKnow
<1>1. TypeOK'
  <2>1. completedRequests' \in [Processes -> Nat]
    BY <1>0, <1>x DEF IInv, TypeOK
  <2> QED BY <1>0, <1>x, <1>t, <2>1 DEF IInv, TypeOK
<1>2. ProgramsKnow'
  <2>1. \A q \in Servers \ {p} : q \in Processes /\ prog'[q] = prog[q]
    BY <1>p
  <2> QED BY <1>0, <1>p, <1>k, <2>1 DEF IInv, ProgramsKnow
<1>3. SlotsKnow'
  BY <1>0 DEF IInv, SlotsKnow
<1>4. PagesKnow'
  BY <1>0, <1>k DEF IInv, PagesKnow
<1>5. SharedPagesAreSafe'
  BY <1>0 DEF IInv, SharedPagesAreSafe, ServerProcess
<1>6. BlockedKnow'
  BY <1>0, <1>x, <1>k DEF IInv, BlockedKnow, Blocked
<1>7. BlockedClientsAreListed'
  <2>1. \A r \in Slots : Stale(servers[r].thread) => Stale(servers[r].thread)'
    <3> SUFFICES ASSUME NEW r \in Slots, Stale(servers[r].thread)
                 PROVE  Stale(servers[r].thread)'
      OBVIOUS
    <3>1. CASE servers[r].thread = None
      BY <1>0, <1>x, <1>p, <3>1 DEF Stale, IInv, TypeOK
    <3>2. CASE servers[r].thread # None
      BY <1>0, <1>v, <1>p, <3>2
    <3> QED BY <3>1, <3>2
  <2> QED BY <1>0, <1>x, <2>1, ListedFrame DEF IInv, SameBlocked, SameThreads
<1>8. RequestsKnow'
  <2>1. \A q \in Servers : prog'[q] = "request" => prog[q] = "request"
    BY <1>p
  <2> QED BY <1>0, <1>x, <2>1 DEF IInv, RequestsKnow, Alive
<1>9. DeliveryIsInHand'
  <2> SUFFICES (\A q \in Servers : InHand(q))'
    BY DEF DeliveryIsInHand, InHand, Serving
  <2> SUFFICES ASSUME NEW q \in Servers PROVE InHand(q)'
    OBVIOUS
  <2>1. InHand(q)
    BY InHandIs DEF IInv
  <2>2. CASE q = p
    <3>1. \A r \in Slots : servers[r].thread = p => r = s
      BY OneSlot DEF IInv
    <3>2. ServerProcess(delivered[p])' = p
      BY <1>0, <1>d, <1>t DEF ServerProcess, Slots
    <3> QED BY <1>0, <1>x, <1>t, <1>d, <1>p, <2>2, <3>1, <3>2 DEF InHand, Blocked
  <2>3. CASE q # p
    <3>1. delivered'[q] = delivered[q] /\ prog'[q] = prog[q]
      BY <1>d, <1>p, <2>3
    <3>2. ServerProcess(delivered[q])' = ServerProcess(delivered[q])
      BY <1>0, <3>1 DEF ServerProcess
    <3>3. \A c \in Clients : reason[c] = "EBlockedInServerConnect" =>
                               reason'[c] = "EBlockedInServerConnect"
      BY <1>d, <1>k
    <3> QED BY <1>0, <1>x, <2>1, <3>1, <3>2, <3>3 DEF InHand
  <2> QED BY <2>2, <2>3
<1>10. WaitersKnow'
  BY <1>x DEF IInv, WaitersKnow
<1>11. ASSUME NEW r \in Slots PROVE SessionKnows(r)'
  <2> DEFINE q == servers[r].thread
  <2>1. CASE q = p
    <3>1. r = s /\ SessionKnows(s) /\ ~Stale(p)
      BY <2>1, OneSlot DEF IInv, Stale
    <3>2. ASSUME NEW c \in Clients, OnItsWay(c, p), Alive(c), prog[c] = "connected"
          PROVE  OnItsWay(c, p)'
      <4>1. CASE c = t
        BY <1>0, <1>x, <1>d, <3>2, <4>1 DEF OnItsWay, Blocked
      <4>2. CASE c # t
        <5>1. page[c] # 0
          BY <3>2 DEF IInv, PagesKnow
        <5>2. reason'[c] = reason[c]
          BY <1>d, <1>k, <4>2
        <5> QED BY <1>0, <1>x, <1>d, <3>2, <5>1, <5>2 DEF OnItsWay, Blocked
      <4> QED BY <4>1, <4>2
    <3>3. prog'[p] # "requeue" /\ servers'[r].thread = p
      BY <1>0, <1>p, <2>1
    <3> QED BY <1>0, <1>k, <2>1, <3>1, <3>2, <3>3 DEF SessionKnows
  <2>2. CASE q # p
    <3>1. ASSUME NEW c \in Clients, mapping[page[c]].server = r, OnItsWay(c, q), q # None
          PROVE  OnItsWay(c, q)'
      <4>1. c # t
        BY <1>t, <2>2, <3>1
      <4>2. reason'[c] = reason[c] /\ delivered'[q] = delivered[q]
        BY <1>d, <1>k, <1>v, <2>2, <3>1, <4>1
      <4> QED BY <1>0, <1>x, <3>1, <4>2 DEF OnItsWay, Blocked
    <3>2. \A c \in Clients : prog'[c] = prog[c] /\ (Alive(c)' <=> Alive(c))
      BY <1>k
    <3>3. q # None => /\ Stale(q) <=> Stale(q)'
                      /\ prog'[q] = prog[q]
      BY <1>0, <1>v, <1>p, <2>2
    <3>4. SessionKnows(r)
      BY DEF IInv
    <3> QED BY <1>0, <3>1, <3>2, <3>3, <3>4, SessionFrame
  <2> QED BY <2>1, <2>2
<1>u. \A u : Untold(u)' = Untold(u)
  BY <1>0, UntoldFrame DEF SameThreads
<1>13. CallersKnow'
  BY <1>0, <1>p, <1>x, CallersFrame DEF IInv, TypeOK, CallersKnow
<1>12. RequestsAreCounted'
  <2> SUFFICES ASSUME NEW q \in Processes, Told(q)'
               PROVE  numReqs'[q] + completedRequests'[q] + Cardinality(Untold(q)')
                          = Unhandled(q)'
    BY <1>1 DEF RequestsAreCounted
  <2>1. Told(q)
    BY <1>0, <1>x, <1>p, ToldFrame DEF SameThreads
  <2>2. numReqs[q] + completedRequests[q] + Cardinality(Untold(q)) = Unhandled(q)
    BY <2>1 DEF IInv, RequestsAreCounted
  <2>3. CASE q # p
    <3>1. Unhandled(q)' = Unhandled(q)
      BY <1>0, <1>d, <2>3, UnhandledFrame
    <3> QED BY <1>u, <1>x, <1>d, <2>2, <2>3, <3>1
  <2>4. CASE q = p
    <3>1. SentTo(p)' = SentTo(p)
      BY <1>0 DEF SentTo
    <3>2. Cardinality(SentTo(p)) \in Nat /\ numReqs[p] \in Nat /\ completedRequests[p] \in Nat
      BY <1>0, SentIsFinite DEF IInv, TypeOK
    <3>3. Unhandled(p)' = Unhandled(p) + 1 /\ Unhandled(p) \in Nat
      BY <1>0, <1>d, <1>t, <3>1, <3>2 DEF Unhandled, OneIf
    <3>4. Cardinality(Untold(p)) \in Nat /\ Cardinality(Untold(p)') = Cardinality(Untold(p))
      BY <1>0, <1>u, SentIsFinite DEF IInv
    <3>5. \/ numReqs'[p] = numReqs[p] /\ completedRequests'[p] = completedRequests[p] + 1
          \/ numReqs'[p] + completedRequests'[p] = numReqs[p] + completedRequests[p] + 1
      BY <1>x, <1>d
    <3>6. numReqs'[p] \in Nat /\ completedRequests'[p] \in Nat
      BY <1>0, <1>1 DEF TypeOK
    <3> QED BY <2>2, <2>4, <3>2, <3>3, <3>4, <3>5, <3>6
  <2> QED BY <1>u, <2>3, <2>4
<1> QED BY <1>1, <1>2, <1>3, <1>4, <1>5, <1>6, <1>7, <1>8, <1>9, <1>10, <1>11, <1>12, <1>13 DEF IInv

LEMMA RequestServerMsgKeeps ==
  ASSUME IInv, NEW p \in Servers, RequestServerMsg(p)
  PROVE  IInv'
<1>1. PICK s \in Slots :
        LET q == servers[s].clients
            t == Last(q)
        IN
        /\ IsFirst(s, Serving(p)) /\ ~servers[s].ptr
        /\ \/ /\ q = << >>
              /\ servers' = [servers EXCEPT ![s].ptr = TRUE]
              /\ UNCHANGED << threadVars, numReqs, delivered >>
           \/ /\ q # << >> /\ reason[t] = "EBlockedInServerConnect"
              /\ Release(s, t)
           \/ /\ q # << >> /\ reason[t] = "EBlockedWaitingForServerConnect"
              /\ HandOver(s, t)
  BY DEF RequestServerMsg
<1>2. /\ state[p] = "EReady" /\ p \notin calling /\ prog[p] = "request"
      /\ prog' = [prog EXCEPT ![p] = "loop"]
      /\ UNCHANGED << mapping, pte, allocated, page, sessionVars, msg, panic >>
  BY DEF RequestServerMsg, Running
<1>3. servers[s].thread = p
  BY <1>1 DEF IsFirst, Serving
<1>4. servers[s].clients # << >> => Contains(servers[s].clients, Last(servers[s].clients))
  <2>1. servers[s].clients \in Seq(Processes)
    BY DEF IInv, TypeOK, ServerRecords
  <2> QED BY <2>1 DEF Contains, Last
<1>a. CASE servers' = [servers EXCEPT ![s].ptr = TRUE]
             /\ UNCHANGED << threadVars, numReqs, delivered >>
  BY <1>2, <1>3, <1>a, RequestWaitsKeeps
<1>b. CASE /\ servers[s].clients # << >>
           /\ reason[Last(servers[s].clients)] = "EBlockedInServerConnect"
           /\ Release(s, Last(servers[s].clients))
  BY <1>2, <1>3, <1>4, <1>b, ReleaseKeeps
<1>c. CASE /\ servers[s].clients # << >>
           /\ reason[Last(servers[s].clients)] = "EBlockedWaitingForServerConnect"
           /\ HandOver(s, Last(servers[s].clients))
  BY <1>1, <1>2, <1>3, <1>4, <1>c, HandOverKeeps
<1> QED BY <1>1, <1>a, <1>b, <1>c

\* A caller makes its SVC: the thread t is told.
LEMMA SvcKeeps ==
  ASSUME IInv, NEW p \in calling, NEW t \in Processes, t = Recipient(p),
         Signal(t, state, numReqs), calling' = calling \ {p},
         UNCHANGED << kernelVars, reason, stash, prog, page, delivered,
                      clientPages, queued, handled, errored, msg, panic >>
  PROVE  IInv'
<1> USE IpcAssumption DEF Processes
<1>0. UNCHANGED << servers, mapping, pte, allocated, reason, stash, prog, page,
                   delivered, clientPages, queued, handled, errored, msg, panic >>
  BY DEF kernelVars
<1>g. Signalled(t, state, numReqs)
  <2>1. state[t] = "EWaitForRequest" => numReqs[t] = 0
    BY DEF IInv, WaitersKnow
  <2>2. state \in [Processes -> States]
    BY DEF IInv, TypeOK, States
  <2>3. TypeOK /\ numReqs \in [Processes -> Nat]
    BY DEF IInv, TypeOK
  <2> QED BY <2>1, <2>2, <2>3, SignalIs
<1>k. \A u \in Processes : /\ Stale(u)' <=> Stale(u)
                           /\ Alive(u)' <=> Alive(u)
                           /\ Blocked(u)' <=> Blocked(u)
                           /\ \A q : OnItsWay(u, q)' <=> OnItsWay(u, q)
  BY <1>0, <1>g DEF Signalled, States, Stale, Alive, Blocked, OnItsWay
<1>v. \A r \in Slots : servers[r].thread # None => servers[r].thread \in Servers
  BY DEF IInv, SlotsKnow
<1>1. TypeOK'
  BY <1>0, <1>g DEF Signalled, States, IInv, TypeOK
<1>2. ProgramsKnow'
  BY <1>0 DEF IInv, ProgramsKnow
<1>3. SlotsKnow'
  BY <1>0 DEF IInv, SlotsKnow
<1>4. PagesKnow'
  <2>1. \A c \in Clients : c \in Processes
    OBVIOUS
  <2>2. \A j \in Pages : mapping[j].owner # None => mapping[j].owner \in Clients
    BY DEF IInv, PagesKnow
  <2> QED BY <1>0, <1>k, <2>1, <2>2 DEF IInv, PagesKnow
<1>5. SharedPagesAreSafe'
  BY <1>0 DEF IInv, SharedPagesAreSafe, ServerProcess
<1>6. BlockedKnow'
  BY <1>0, <1>k DEF IInv, BlockedKnow
<1>7. BlockedClientsAreListed'
  <2>1. \A r \in Slots : Stale(servers[r].thread) => Stale(servers[r].thread)'
    <3> SUFFICES ASSUME NEW r \in Slots, Stale(servers[r].thread)
                 PROVE  Stale(servers[r].thread)'
      OBVIOUS
    <3>1. CASE servers[r].thread = None
      <4>1. state'[None] = state[None]
        BY DEF Signal, IInv, TypeOK
      <4> QED BY <1>0, <3>1, <4>1 DEF Stale
    <3>2. CASE servers[r].thread # None
      BY <1>0, <1>v, <1>k, <3>2
    <3> QED BY <3>1, <3>2
  <2>2. SameBlocked
    BY <1>k DEF SameBlocked, Blocked
  <2> QED BY <1>0, <2>1, <2>2, ListedFrame DEF IInv, SameThreads
<1>8. RequestsKnow'
  BY <1>0, <1>k DEF IInv, RequestsKnow
<1>9. DeliveryIsInHand'
  <2> SUFFICES (\A q \in Servers : InHand(q))'
    BY DEF DeliveryIsInHand, InHand, Serving
  <2> SUFFICES ASSUME NEW q \in Servers PROVE InHand(q)'
    OBVIOUS
  <2>1. InHand(q)
    BY InHandIs DEF IInv
  <2>2. ServerProcess(delivered[q])' = ServerProcess(delivered[q])
    BY <1>0 DEF ServerProcess
  <2>3. state'[q] # "EDead" => state[q] # "EDead"
    BY <1>k DEF Alive
  <2>4. \A u \in Clients : state[u] = "EBlockedFromSvc" => state'[u] = "EBlockedFromSvc"
    BY <1>k DEF Blocked
  <2> QED BY <1>0, <2>1, <2>2, <2>3, <2>4 DEF InHand
<1>10. WaitersKnow'
  <2>1. \A u \in Processes : state'[u] = "EWaitForRequest" => numReqs[u] = 0
    BY <1>g DEF Signalled, IInv, WaitersKnow
  <2> QED BY <1>g, <2>1 DEF Signalled, WaitersKnow
<1>11. ASSUME NEW r \in Slots PROVE SessionKnows(r)'
  <2>1. SessionKnows(r)
    BY DEF IInv
  <2>2. servers[r].thread # None => (Stale(servers[r].thread)' <=> Stale(servers[r].thread))
    BY <1>0, <1>v, <1>k
  <2>3. \A c \in Clients : /\ c \in Processes /\ (Alive(c)' <=> Alive(c))
                           /\ \A q : OnItsWay(c, q)' <=> OnItsWay(c, q)
    BY <1>k
  <2> QED BY <1>0, <2>1, <2>2, <2>3, SessionFrame
<1>12. RequestsAreCounted'
  <2> SUFFICES ASSUME NEW q \in Processes, Told(q)'
               PROVE  numReqs'[q] + completedRequests'[q] + Cardinality(Untold(q)')
                        = Unhandled(q)'
    BY <1>1 DEF RequestsAreCounted
  <2>1. Told(q)
    <3>1. state'[q] \notin {"EDying", "EDead"} => state[q] \notin {"EDying", "EDead"}
      BY <1>g DEF Signalled
    <3> QED BY <1>0, <1>k, <3>1, ToldFrame DEF SameThreads
  <2>2. numReqs[q] + completedRequests[q] + Cardinality(Untold(q)) = Unhandled(q)
    BY <2>1 DEF IInv, RequestsAreCounted
  <2>3. Unhandled(q)' = Unhandled(q)
    BY <1>0, UnhandledFrame
  <2>4. /\ Cardinality(Untold(q)') + OneIf(t = q) = Cardinality(Untold(q))
        /\ Cardinality(Untold(q)') \in Nat
    BY <1>0, UntoldRemoves
  <2>5. numReqs'[q] + completedRequests'[q]
          = numReqs[q] + completedRequests[q] + OneIf(t = q)
    <3>1. numReqs[q] \in Nat /\ completedRequests[q] \in Nat
      BY DEF IInv, TypeOK
    <3> QED BY <1>g, <3>1 DEF Signalled, OneIf
  <2>6. /\ numReqs[q] + completedRequests[q] \in Nat /\ OneIf(t = q) \in Nat
        /\ Cardinality(Untold(q)) \in Nat
    BY SentIsFinite DEF IInv, TypeOK, OneIf
  <2> QED BY <2>2, <2>3, <2>4, <2>5, <2>6
<1>13. CallersKnow'
  <2>1. \A u \in calling : state'[u] = "EReady"
    BY <1>g DEF Signalled, IInv, CallersKnow, TypeOK
  <2> QED BY <1>0, <2>1, CallersFrame DEF IInv
<1> QED BY <1>1, <1>2, <1>3, <1>4, <1>5, <1>6, <1>7, <1>8, <1>9, <1>10, <1>11, <1>12, <1>13 DEF IInv

LEMMA CompleteKeeps ==
  ASSUME IInv, NEW p \in Servers, NEW i \in Pages, Complete(p, i)
  PROVE  IInv'
<1> USE IpcAssumption DEF Processes
<1> DEFINE c == mapping[i].owner
<1>0. /\ p \in Processes /\ p \notin Clients /\ p \notin calling
      /\ state[p] = "EReady" /\ prog[p] = "loop" /\ numReqs[p] # 0
      /\ i \in queued[p] /\ msg[i] = "sent"
      /\ UNCHANGED << servers, mapping, pte, allocated, state, reason, stash,
                      completedRequests, page, delivered, clientPages, errored, panic >>
  BY DEF Complete, Running, kernelVars, threadVars
<1>x. /\ numReqs' = Handling(p)
      /\ msg' = [msg EXCEPT ![i] = "answered"]
      /\ queued' = [queued EXCEPT ![p] = @ \ {i}]
      /\ handled' = [handled EXCEPT ![p] = i]
      /\ calling' = calling \cup {p}
      /\ prog' = [prog EXCEPT ![p] = "requeue"]
  BY DEF Complete
<1>c. c # None => /\ c \in Clients /\ c \in Processes /\ c # p /\ Alive(c)
                  /\ page[c] = i /\ clientPages[c] = {}
  BY <1>0 DEF IInv, PagesKnow, ProgramsKnow
<1>s. PICK s \in Slots : servers[s].thread = p
  BY <1>0 DEF IInv, ProgramsKnow
<1>q. ~Stale(p) /\ SessionKnows(s) /\ i \in clientPages[p] /\ mapping[i].server = s
  <2>1. ~Stale(p) /\ SessionKnows(s)
    BY <1>0 DEF Stale, IInv
  <2> QED BY <1>0, <1>s, <2>1 DEF SessionKnows
<1>n. /\ numReqs[p] - 1 \in Nat /\ Handling(p) \in [Processes -> Nat]
      /\ Handling(p)[p] = numReqs[p] - 1
      /\ \A u \in Processes \ {p} : Handling(p)[u] = numReqs[u]
  <2>1. numReqs \in [Processes -> Nat] /\ numReqs[p] \in Nat
    BY <1>0 DEF IInv, TypeOK
  <2>2. numReqs[p] - 1 \in Nat
    BY <1>0, <2>1
  <2> QED BY <1>0, <2>1, <2>2 DEF Handling
<1>p. /\ prog'[p] = "requeue" /\ handled'[p] = i /\ queued'[p] = queued[p] \ {i}
      /\ \A u \in Processes \ {p} :
           prog'[u] = prog[u] /\ handled'[u] = handled[u] /\ queued'[u] = queued[u]
      /\ msg'[i] = "answered" /\ \A j \in Pages \ {i} : msg'[j] = msg[j]
  BY <1>0, <1>x DEF IInv, TypeOK
<1>k. /\ \A u \in Processes : (Stale(u)' <=> Stale(u)) /\ (Alive(u)' <=> Alive(u))
                              /\ (Blocked(u)' <=> Blocked(u))
      /\ \A u \in Clients : u \in Processes /\ u # p /\ prog'[u] = prog[u]
  BY <1>0, <1>p DEF Stale, Alive, Blocked
<1>v. \A r \in Slots : servers[r].thread # None => servers[r].thread \in Servers
  BY DEF IInv, SlotsKnow
<1>1. TypeOK'
  BY <1>0, <1>x, <1>n DEF IInv, TypeOK
<1>2. ProgramsKnow'
  <2>1. \A q \in Servers \ {p} : q \in Processes /\ prog'[q] = prog[q] /\ queued'[q] = queued[q]
    BY <1>p
  <2> QED BY <1>0, <1>s, <1>p, <1>k, <2>1 DEF IInv, ProgramsKnow
<1>3. SlotsKnow'
  BY <1>0 DEF IInv, SlotsKnow
<1>4. PagesKnow'
  <2>1. \A u \in Clients : Alive(u) /\ prog[u] = "connect" =>
                             page[u] \in Pages /\ page[u] # i
    BY <1>0 DEF IInv, PagesKnow, TypeOK
  <2> QED BY <1>0, <1>k, <1>p, <2>1 DEF IInv, PagesKnow
<1>5. SharedPagesAreSafe'
  BY <1>0 DEF IInv, SharedPagesAreSafe, ServerProcess
<1>6. BlockedKnow'
  <2>1. \A u \in Processes : Blocked(u) =>
          page[u] \in Pages /\ page[u] # i
    BY <1>0 DEF IInv, BlockedKnow, TypeOK, PagesKnow, Blocked, Alive
  <2> QED BY <1>0, <1>k, <1>p, <2>1 DEF IInv, BlockedKnow
<1>7. BlockedClientsAreListed'
  <2>1. \A r \in Slots : Stale(servers[r].thread) => Stale(servers[r].thread)'
    <3> SUFFICES ASSUME NEW r \in Slots, Stale(servers[r].thread)
                 PROVE  Stale(servers[r].thread)'
      OBVIOUS
    <3>1. CASE servers[r].thread = None
      <4>1. prog'[None] = prog[None]
        BY <1>x, <1>0 DEF IInv, TypeOK
      <4> QED BY <1>0, <3>1, <4>1 DEF Stale
    <3>2. CASE servers[r].thread # None
      BY <1>0, <1>v, <1>k, <3>2
    <3> QED BY <3>1, <3>2
  <2>2. SameBlocked
    BY <1>k DEF SameBlocked, Blocked
  <2> QED BY <1>0, <2>1, <2>2, ListedFrame DEF IInv, SameThreads
<1>8. RequestsKnow'
  <2>1. \A q \in Servers : prog'[q] = "request" => prog[q] = "request"
    BY <1>p
  <2> QED BY <1>0, <1>k, <2>1 DEF IInv, RequestsKnow
<1>9. DeliveryIsInHand'
  <2> SUFFICES (\A q \in Servers : InHand(q))'
    BY DEF DeliveryIsInHand, InHand, Serving
  <2> SUFFICES ASSUME NEW q \in Servers PROVE InHand(q)'
    OBVIOUS
  <2>1. InHand(q)
    BY InHandIs DEF IInv
  <2>2. ServerProcess(delivered[q])' = ServerProcess(delivered[q])
    BY <1>0 DEF ServerProcess
  <2>3. /\ prog'[q] \in {"loop", "requeue"} <=> prog[q] \in {"loop", "requeue"}
        /\ state'[q] # "EDead" => state[q] # "EDead"
    BY <1>0, <1>p, <1>k DEF Alive
  <2>4. \A u \in Clients : state[u] = "EBlockedFromSvc" => state'[u] = "EBlockedFromSvc"
    BY <1>k DEF Blocked
  <2> QED BY <1>0, <2>1, <2>2, <2>3, <2>4 DEF InHand
<1>10. WaitersKnow'
  <2>1. \A u \in Processes : state'[u] = "EWaitForRequest" => numReqs[u] = 0 /\ u # p
    BY <1>0 DEF IInv, WaitersKnow
  <2> QED BY <1>0, <1>x, <1>n, <2>1 DEF WaitersKnow
<1>11. ASSUME NEW r \in Slots PROVE SessionKnows(r)'
  <2> DEFINE q == servers[r].thread
  <2>1. \A u \in Clients : OnItsWay(u, q) => OnItsWay(u, q)'
    BY <1>0, <1>k DEF OnItsWay
  <2>2. CASE q = p
    <3>1. r = s
      BY <1>s, <2>2, OneSlot DEF IInv
    <3>2. queued'[p] \subseteq clientPages[p]
      BY <1>s, <1>q, <1>p DEF SessionKnows
    <3> QED BY <1>0, <1>s, <1>q, <1>p, <1>k, <2>1, <2>2, <3>1, <3>2 DEF SessionKnows
  <2>3. CASE q # p
    <3>1. q # None => /\ Stale(q) <=> Stale(q)'
                      /\ prog'[q] = prog[q] /\ handled'[q] = handled[q]
                      /\ queued'[q] = queued[q]
      BY <1>0, <1>v, <1>k, <1>p, <2>3
    <3>2. SessionKnows(r)
      BY DEF IInv
    <3> QED BY <1>0, <1>k, <2>1, <3>1, <3>2, SessionFrame
  <2> QED BY <2>2, <2>3
<1>12. RequestsAreCounted'
  <2> SUFFICES ASSUME NEW q \in Processes, Told(q)'
               PROVE  numReqs'[q] + completedRequests'[q] + Cardinality(Untold(q)')
                        = Unhandled(q)'
    BY <1>1 DEF RequestsAreCounted
  <2>1. Told(q)
    BY <1>0, <1>k, ToldFrame DEF SameThreads
  <2>2. numReqs[q] + completedRequests[q] + Cardinality(Untold(q)) = Unhandled(q)
    BY <2>1 DEF IInv, RequestsAreCounted
  <2>t. /\ Cardinality(SentTo(q)) \in Nat /\ numReqs[q] \in Nat
        /\ completedRequests[q] \in Nat /\ IsFiniteSet(SentTo(q))
        /\ Cardinality(Untold(q)) \in Nat
    BY SentIsFinite DEF IInv, TypeOK
  <2>u. Cardinality(Untold(q)') = Cardinality(Untold(q)) + OneIf(c = q)
    <3>1. Recipient(p)' = c
      BY <1>0, <1>p DEF Recipient
    <3>2. SameThreads /\ \A u \in calling : handled'[u] = handled[u]
      BY <1>0, <1>p DEF SameThreads, IInv, TypeOK
    <3>3. Cardinality(Untold(q)') = Cardinality(Untold(q)) + OneIf(Recipient(p)' = q)
      BY <1>0, <1>x, <3>2, UntoldAdds
    <3> QED BY <3>1, <3>3
  <2>c. completedRequests'[q] = completedRequests[q]
    BY <1>0
  <2>3. CASE q = p
    <3>1. SentTo(p)' = SentTo(p) \ {i} /\ i \in SentTo(p)
      BY <1>0, <1>q, <1>p DEF SentTo, IInv, TypeOK
    <3>2. Cardinality(SentTo(p)') = Cardinality(SentTo(p)) - 1
      <4>1. IsFiniteSet(SentTo(p)) /\ Cardinality(SentTo(p)) \in Nat
        BY <2>3, <2>t
      <4>2. i \in SentTo(p)
        BY <3>1
      <4>3. Cardinality(SentTo(p) \ {i}) = Cardinality(SentTo(p)) - 1
        <5> HIDE DEF c
        <5> QED BY ONLY <4>1, <4>2, FS_RemoveElement
      <4> QED BY <3>1, <4>3
    <3>3. page[p] = 0
      BY DEF IInv, ProgramsKnow
    <3>4. Unhandled(p)' = Unhandled(p) - 1 /\ Unhandled(p) \in Nat
      BY <1>0, <2>3, <2>t, <3>2, <3>3 DEF Unhandled, OneIf
    <3>5. numReqs'[p] = numReqs[p] - 1
      BY <1>x, <1>n
    <3>6. Cardinality(Untold(q)') = Cardinality(Untold(q))
      <4>1. c # p
        BY <1>0, <1>c, IpcAssumption
      <4> QED BY <2>3, <2>t, <2>u, <4>1 DEF OneIf
    <3> QED BY <2>2, <2>3, <2>t, <2>c, <3>4, <3>5, <3>6
  <2>4. CASE q = c
    <3>0. c \in Clients /\ c \in Processes /\ c # p /\ page[c] = i /\ clientPages[c] = {}
      <4>1. c # None
        BY <2>4, IpcAssumption
      <4> QED BY <1>c, <4>1
    <3>1. SentTo(q)' = {} /\ SentTo(q) = {}
      BY <1>0, <2>4, <3>0 DEF SentTo
    <3>2. page[q] = i /\ page'[q] = i /\ delivered[q] = 0 /\ delivered'[q] = 0 /\ i # 0
      BY <1>0, <2>4, <3>0 DEF IInv, ProgramsKnow, Pages
    <3>3. Unhandled(q)' = Unhandled(q) + 1 /\ Unhandled(q) \in Nat
      BY <1>0, <1>p, <2>t, <3>1, <3>2 DEF Unhandled, OneIf
    <3>4. numReqs'[q] = numReqs[q]
      BY <1>x, <1>n, <2>4, <3>0
    <3>5. Cardinality(Untold(q)') = Cardinality(Untold(q)) + 1
      BY <2>4, <2>u DEF OneIf
    <3> QED BY <2>2, <2>t, <2>c, <3>3, <3>4, <3>5
  <2>5. CASE q # p /\ q # c
    <3>1. i \notin clientPages[q]
      BY <1>q, <1>s, <2>1, <2>5, HandledBy DEF ServerProcess, Slots
    <3>2. page[q] # i
      BY <2>1, <2>5, SessionOf DEF Told, Alive, Pages
    <3>3. \A j \in clientPages[q] : msg'[j] = msg[j]
      BY <1>p, <3>1 DEF IInv, TypeOK
    <3>4. page[q] # 0 => msg'[page[q]] = msg[page[q]]
      BY <1>p, <3>2 DEF IInv, TypeOK
    <3>5. Unhandled(q)' = Unhandled(q)
      BY <1>0, <3>3, <3>4, UnhandledFrame
    <3>6. numReqs'[q] = numReqs[q]
      BY <1>x, <1>n, <2>5
    <3>7. Cardinality(Untold(q)') = Cardinality(Untold(q))
      BY <2>5, <2>t, <2>u DEF OneIf
    <3> QED BY <2>2, <2>c, <3>5, <3>6, <3>7
  <2> QED BY <2>3, <2>4, <2>5
<1>13. CallersKnow'
  <2>1. \A u \in calling : u # p /\ state'[u] = "EReady" /\ prog'[u] = prog[u]
    BY <1>0, <1>p DEF IInv, CallersKnow, TypeOK
  <2> QED BY <1>0, <1>x, <1>p, <2>1 DEF IInv, CallersKnow
<1> QED BY <1>1, <1>2, <1>3, <1>4, <1>5, <1>6, <1>7, <1>8, <1>9, <1>10,
           <1>11, <1>12, <1>13 DEF IInv

LEMMA CompleteSvcKeeps ==
  ASSUME IInv, NEW p \in Servers, CompleteSvc(p)
  PROVE  IInv'
<1> DEFINE c == mapping[handled[p]].owner
<1>1. CASE Stop("nullRecipient")
  BY <1>1, StopKeeps DEF Stop
<1>2. CASE c # None /\ Signal(c, state, numReqs) /\ calling' = calling \ {p}
             /\ UNCHANGED << kernelVars, reason, stash, prog, page, delivered,
                             clientPages, queued, handled, errored, msg, panic >>
  <2>1. p \in calling /\ c = Recipient(p)
    BY DEF CompleteSvc, Recipient
  <2>2. handled[p] \in Pages
    BY <2>1, CallerIs
  <2>3. c \in Processes
    BY <1>2, <2>2 DEF IInv, PagesKnow, Processes
  <2> HIDE DEF c
  <2> QED BY <1>2, <2>1, <2>3, SvcKeeps
<1> QED BY <1>1, <1>2 DEF CompleteSvc

\* The run loop of p goes on, with other pages on its list, and perhaps after an
\* error.
LEMMA LoopKeeps ==
  ASSUME IInv, NEW p \in Servers, state[p] = "EReady", prog[p] \in {"loop", "requeue"},
         NEW h \in Pages \cup {0}, NEW Q \in SUBSET clientPages[p],
         prog' = [prog EXCEPT ![p] = "loop"], handled' = [handled EXCEPT ![p] = h],
         queued' = [queued EXCEPT ![p] = Q],
         LoopError(p) \/ UNCHANGED << numReqs, errored >>,
         msg' \in [Pages -> {"free", "sent", "answered", "lost"}],
         \A i \in Pages : msg'[i] = msg[i] \/ (msg[i] = "sent" /\ msg'[i] = "lost"),
         p \notin calling,
         UNCHANGED << kernelVars, threadVars, page, delivered, clientPages, calling, panic >>
  PROVE  IInv'
<1> USE IpcAssumption DEF Processes
<1>0. /\ p \in Processes /\ p \notin Clients
      /\ UNCHANGED << servers, mapping, pte, allocated, state, reason, stash,
                      completedRequests, page, delivered, clientPages, calling, panic >>
  BY DEF kernelVars, threadVars
<1>p. /\ prog'[p] = "loop" /\ queued'[p] = Q
      /\ \A u \in Processes \ {p} :
           prog'[u] = prog[u] /\ handled'[u] = handled[u] /\ queued'[u] = queued[u]
  BY <1>0 DEF IInv, TypeOK
<1>n. /\ numReqs' \in [Processes -> Nat] /\ errored' \subseteq Servers
      /\ \A u \in Processes : u # p => numReqs'[u] = numReqs[u]
      /\ p \notin errored' => numReqs'[p] = numReqs[p]
      /\ errored \subseteq errored'
  <2>1. CASE LoopError(p)
    BY <2>1 DEF LoopError, IInv, TypeOK
  <2>2. CASE UNCHANGED << numReqs, errored >>
    BY <2>2 DEF IInv, TypeOK
  <2> QED BY <2>1, <2>2
<1>k. /\ \A u \in Processes : Stale(u)' <=> Stale(u)
      /\ \A u : (Alive(u)' <=> Alive(u)) /\ (Blocked(u)' <=> Blocked(u))
      /\ \A u \in Clients : u \in Processes /\ u # p /\ prog'[u] = prog[u]
  BY <1>0, <1>p DEF Stale, Alive, Blocked
<1>v. \A r \in Slots : servers[r].thread # None => servers[r].thread \in Servers
  BY DEF IInv, SlotsKnow
<1>1. TypeOK'
  <2>1. queued' \in [Processes -> SUBSET Pages]
    BY <1>0 DEF IInv, TypeOK
  <2> QED BY <1>0, <1>n, <2>1 DEF IInv, TypeOK
<1>2. ProgramsKnow'
  <2>1. \A q \in Servers \ {p} : q \in Processes /\ prog'[q] = prog[q] /\ queued'[q] = queued[q]
    BY <1>p
  <2> QED BY <1>0, <1>p, <1>k, <2>1 DEF IInv, ProgramsKnow
<1>3. SlotsKnow'
  BY <1>0 DEF IInv, SlotsKnow
<1>4. PagesKnow'
  <2>1. ASSUME NEW c \in Clients, page[c] # 0
        PROVE  msg'[page[c]] = "free" <=> msg[page[c]] = "free"
    BY <1>k, <2>1 DEF IInv, TypeOK
  <2> QED BY <1>0, <1>k, <2>1 DEF IInv, PagesKnow
<1>5. SharedPagesAreSafe'
  BY <1>0 DEF IInv, SharedPagesAreSafe, ServerProcess
<1>6. BlockedKnow'
  <2>1. ASSUME NEW c \in Processes, Blocked(c)
        PROVE  msg'[page[c]] = "free"
    <3>1. c \in Clients /\ prog[c] = "connected" /\ msg[page[c]] = "free" /\ Alive(c)
      BY <2>1 DEF IInv, BlockedKnow, Blocked, Alive
    <3>2. page[c] \in Pages
      BY <3>1, SessionOf DEF IInv, PagesKnow
    <3> QED BY <3>1, <3>2
  <2> QED BY <1>0, <1>k, <2>1 DEF IInv, BlockedKnow
<1>7. BlockedClientsAreListed'
  <2>1. \A r \in Slots : Stale(servers[r].thread) => Stale(servers[r].thread)'
    <3> SUFFICES ASSUME NEW r \in Slots, Stale(servers[r].thread)
                 PROVE  Stale(servers[r].thread)'
      OBVIOUS
    <3>1. CASE servers[r].thread = None
      <4>1. prog'[None] = prog[None]
        BY <1>0 DEF IInv, TypeOK
      <4> QED BY <1>0, <3>1, <4>1 DEF Stale
    <3>2. CASE servers[r].thread # None
      BY <1>0, <1>v, <1>k, <3>2
    <3> QED BY <3>1, <3>2
  <2> QED BY <1>0, <2>1, ListedFrame DEF IInv, SameBlocked, SameThreads
<1>8. RequestsKnow'
  <2>1. \A q \in Servers : prog'[q] = "request" => prog[q] = "request"
    BY <1>p
  <2> QED BY <1>0, <1>k, <2>1 DEF IInv, RequestsKnow
<1>9. DeliveryIsInHand'
  <2> SUFFICES (\A q \in Servers : InHand(q))'
    BY DEF DeliveryIsInHand, InHand, Serving
  <2> SUFFICES ASSUME NEW q \in Servers PROVE InHand(q)'
    OBVIOUS
  <2>1. InHand(q)
    BY InHandIs DEF IInv
  <2>2. prog'[q] \in {"loop", "requeue"} <=> prog[q] \in {"loop", "requeue"}
    BY <1>p
  <2>3. ServerProcess(delivered[q])' = ServerProcess(delivered[q])
    BY <1>0 DEF ServerProcess
  <2> QED BY <1>0, <2>1, <2>2, <2>3 DEF InHand
<1>10. WaitersKnow'
  BY <1>0, <1>n DEF IInv, WaitersKnow
<1>11. ASSUME NEW r \in Slots PROVE SessionKnows(r)'
  <2> DEFINE q == servers[r].thread
  <2>1. \A u \in Clients : OnItsWay(u, q) => OnItsWay(u, q)'
    BY <1>0, <1>k DEF OnItsWay
  <2>2. SessionKnows(r)
    BY DEF IInv
  <2>3. CASE q = p
    BY <1>0, <1>p, <1>k, <2>1, <2>2, <2>3 DEF SessionKnows
  <2>4. CASE q # p
    <3>1. q # None => /\ Stale(q) <=> Stale(q)'
                      /\ prog'[q] = prog[q] /\ handled'[q] = handled[q]
                      /\ queued'[q] = queued[q]
      BY <1>0, <1>v, <1>k, <1>p, <2>4
    <3> QED BY <1>0, <1>k, <2>1, <2>2, <3>1, SessionFrame
  <2> QED BY <2>3, <2>4
<1>u. \A u : Untold(u)' = Untold(u)
  BY <1>0, <1>p, UntoldFrame DEF SameThreads, IInv, TypeOK
<1>13. CallersKnow'
  BY <1>0, <1>p, CallersFrame DEF IInv, TypeOK, CallersKnow
<1>12. RequestsAreCounted'
  <2> SUFFICES ASSUME NEW q \in Processes, Told(q)'
               PROVE  numReqs'[q] + completedRequests'[q] + Cardinality(Untold(q)')
                          = Unhandled(q)'
    BY <1>1 DEF RequestsAreCounted
  <2>1. Told(q)
    BY <1>0, <1>k, <1>n, ToldFrame DEF SameThreads
  <2>2. Unhandled(q)' = Unhandled(q)
    <3>1. \A i \in clientPages[q] :
            msg'[i] \in {"sent", "lost"} <=> msg[i] \in {"sent", "lost"}
      BY DEF IInv, TypeOK
    <3>2. page[q] # 0 => (msg'[page[q]] = "answered" <=> msg[page[q]] = "answered")
      BY DEF IInv, TypeOK
    <3> QED BY <1>0, <3>1, <3>2, UnhandledFrame
  <2>3. numReqs'[q] = numReqs[q]
    BY <1>n DEF Told
  <2> QED BY <1>u, <1>0, <2>1, <2>2, <2>3 DEF IInv, RequestsAreCounted
<1> QED BY <1>1, <1>2, <1>3, <1>4, <1>5, <1>6, <1>7, <1>8, <1>9, <1>10, <1>11, <1>12, <1>13 DEF IInv

LEMMA RequeueKeeps ==
  ASSUME IInv, NEW p \in Servers, Requeue(p) \/ BadNumReqs(p)
  PROVE  IInv'
<1> USE IpcAssumption DEF Processes
<1>s. PICK s \in Slots : servers[s].thread = p
  BY DEF Requeue, BadNumReqs, Running, IInv, ProgramsKnow
<1>q. /\ ~Stale(p) /\ queued[p] \subseteq clientPages[p] /\ clientPages[p] \subseteq Pages
      /\ prog[p] = "requeue" => handled[p] \in clientPages[p]
  <2>1. ~Stale(p)
    BY DEF Requeue, BadNumReqs, Running, Stale
  <2> QED BY <1>s, <2>1 DEF IInv, SessionKnows, TypeOK
<1>m. msg \in [Pages -> {"free", "sent", "answered", "lost"}]
  BY DEF IInv, TypeOK
<1>a. CASE Requeue(p)
  <2>0. /\ state[p] = "EReady" /\ p \notin calling /\ prog[p] \in {"loop", "requeue"}
        /\ prog' = [prog EXCEPT ![p] = "loop"] /\ handled' = [handled EXCEPT ![p] = 0]
        /\ UNCHANGED << kernelVars, threadVars, page, delivered, clientPages, calling,
                        panic >>
    BY <1>a DEF Requeue, Running
  <2>1. CASE LoopError(p) /\ UNCHANGED << queued, msg >>
    <3>1. queued' = [queued EXCEPT ![p] = queued[p]]
      BY <2>1 DEF IInv, TypeOK
    <3> QED BY <1>q, <1>m, <2>0, <2>1, <3>1, LoopKeeps
  <2>2. CASE /\ msg' = [msg EXCEPT ![handled[p]] = IF @ = "sent" THEN "lost" ELSE @]
             /\ queued' = [queued EXCEPT ![p] = @ \cup {handled[p]}]
             /\ UNCHANGED << numReqs, errored >>
    <3>1. queued[p] \cup {handled[p]} \in SUBSET clientPages[p]
      BY <1>a, <1>q DEF Requeue, Running
    <3>2. /\ msg' \in [Pages -> {"free", "sent", "answered", "lost"}]
          /\ \A i \in Pages : msg'[i] = msg[i] \/ (msg[i] = "sent" /\ msg'[i] = "lost")
      BY <1>m, <2>2
    <3>3. queued' = [queued EXCEPT ![p] = queued[p] \cup {handled[p]}]
      BY <2>2
    <3> QED BY <2>0, <2>2, <3>1, <3>2, <3>3, LoopKeeps
  <2> QED BY <1>a, <2>1, <2>2 DEF Requeue
<1>b. CASE BadNumReqs(p)
  <2>1. /\ state[p] = "EReady" /\ p \notin calling /\ prog[p] = "loop" /\ LoopError(p)
        /\ UNCHANGED << kernelVars, threadVars, prog, page, delivered, clientPages,
                        queued, handled, calling, msg, panic >>
    BY <1>b DEF BadNumReqs, Running
  <2>2. /\ prog' = [prog EXCEPT ![p] = "loop"]
        /\ handled' = [handled EXCEPT ![p] = handled[p]]
        /\ queued' = [queued EXCEPT ![p] = queued[p]]
        /\ handled[p] \in Pages \cup {0}
    BY <2>1 DEF IInv, TypeOK
  <2> QED BY <1>q, <1>m, <2>1, <2>2, LoopKeeps
<1> QED BY <1>a, <1>b


\* A thread waits, is told of what completed, or dies.
LEMMA ThreadKeeps ==
  ASSUME IInv, NEW p \in Processes, WaitForAnyRequest(p) \/ Exit(p)
  PROVE  IInv'
<1> USE IpcAssumption DEF Processes
<1>0. /\ state[p] = "EReady" /\ p \notin calling
      /\ UNCHANGED << servers, mapping, pte, allocated, reason, stash, prog, page,
                      delivered, clientPages, queued, handled, errored, calling, msg, panic >>
  BY DEF WaitForAnyRequest, Exit, kernelVars, userVars, sessionVars
<1>s. /\ state' \in [Processes -> States]
      /\ state'[p] \in {"EReady", "EWaitForRequest", "EDying"}
      /\ \A u : u # p => state'[u] = state[u]
      /\ numReqs' \in [Processes -> Nat] /\ completedRequests' \in [Processes -> Nat]
      /\ \A u \in Processes : numReqs'[u] + completedRequests'[u] = numReqs[u] + completedRequests[u]
      /\ \A u \in Processes : u # p => numReqs'[u] = numReqs[u]
      /\ state'[p] = "EWaitForRequest" => numReqs'[p] = 0
  <2>1. /\ state \in [Processes -> States] /\ numReqs \in [Processes -> Nat]
        /\ completedRequests \in [Processes -> Nat]
    BY DEF IInv, TypeOK, States
  <2>2. CASE Exit(p)
    BY <1>0, <2>1, <2>2 DEF Exit, threadVars, userVars, States
  <2>3. CASE WaitForAnyRequest(p) /\ completedRequests[p] # 0
    <3>1. /\ completedRequests' = [completedRequests EXCEPT ![p] = 0]
          /\ numReqs' = [numReqs EXCEPT ![p] = completedRequests[p]]
          /\ state' = state /\ numReqs[p] = 0
      BY <2>3 DEF WaitForAnyRequest
    <3> QED BY <1>0, <2>1, <3>1
  <2>4. CASE WaitForAnyRequest(p) /\ completedRequests[p] = 0
    <3>1. /\ state' = [state EXCEPT ![p] = "EWaitForRequest"] /\ numReqs[p] = 0
          /\ UNCHANGED << completedRequests, numReqs >>
      BY <2>4 DEF WaitForAnyRequest
    <3> QED BY <2>1, <3>1 DEF States
  <2> QED BY <2>2, <2>3, <2>4
<1>k. \A u : /\ Stale(u)' <=> Stale(u)
             /\ Alive(u)' <=> Alive(u)
             /\ Blocked(u)' <=> Blocked(u)
  BY <1>0, <1>s DEF Stale, Alive, Blocked
<1>1. TypeOK'
  BY <1>0, <1>s DEF IInv, TypeOK, States
<1>2. ProgramsKnow'
  BY <1>0 DEF IInv, ProgramsKnow
<1>3. SlotsKnow'
  BY <1>0 DEF IInv, SlotsKnow
<1>4. PagesKnow'
  BY <1>0, <1>k DEF IInv, PagesKnow
<1>5. SharedPagesAreSafe'
  BY <1>0 DEF IInv, SharedPagesAreSafe, ServerProcess
<1>6. BlockedKnow'
  BY <1>0, <1>k DEF IInv, BlockedKnow
<1>7. BlockedClientsAreListed'
  <2>1. SameBlocked
    BY <1>k DEF SameBlocked, Blocked
  <2>2. \A r \in Slots : Stale(servers[r].thread) => Stale(servers[r].thread)'
    BY <1>0, <1>k
  <2> QED BY <1>0, <2>1, <2>2, ListedFrame DEF IInv, SameThreads
<1>8. RequestsKnow'
  BY <1>0, <1>k DEF IInv, RequestsKnow
<1>9. DeliveryIsInHand'
  <2> SUFFICES (\A q \in Servers : InHand(q))'
    BY DEF DeliveryIsInHand, InHand, Serving
  <2> SUFFICES ASSUME NEW q \in Servers PROVE InHand(q)'
    OBVIOUS
  <2>1. InHand(q)
    BY InHandIs DEF IInv
  <2>2. ServerProcess(delivered[q])' = ServerProcess(delivered[q])
    BY <1>0 DEF ServerProcess
  <2>3. /\ state'[q] # "EDead" => state[q] # "EDead"
        /\ \A c : state[c] = "EBlockedFromSvc" => state'[c] = "EBlockedFromSvc"
    BY <1>k DEF Alive, Blocked
  <2> QED BY <1>0, <2>1, <2>2, <2>3 DEF InHand
<1>10. WaitersKnow'
  BY <1>s DEF IInv, WaitersKnow
<1>11. ASSUME NEW r \in Slots PROVE SessionKnows(r)'
  <2>1. \A u, q : OnItsWay(u, q) <=> OnItsWay(u, q)'
    BY <1>0, <1>k DEF OnItsWay
  <2>2. SessionKnows(r)
    BY DEF IInv
  <2> QED BY <1>0, <1>k, <2>1, <2>2, SessionFrame
<1>u. \A u : Untold(u)' = Untold(u)
  BY <1>0, UntoldFrame DEF SameThreads
<1>13. CallersKnow'
  BY <1>0, <1>s, CallersFrame DEF IInv, TypeOK, CallersKnow
<1>12. RequestsAreCounted'
  <2> SUFFICES ASSUME NEW q \in Processes, Told(q)'
               PROVE  numReqs'[q] + completedRequests'[q] + Cardinality(Untold(q)')
                          = Unhandled(q)'
    BY <1>1 DEF RequestsAreCounted
  <2>1. Told(q)
    <3>1. state'[q] \notin {"EDying", "EDead"} => state[q] \notin {"EDying", "EDead"}
      BY <1>0, <1>s
    <3> QED BY <1>u, <1>0, <1>k, <3>1, ToldFrame DEF SameThreads
  <2>2. Unhandled(q)' = Unhandled(q)
    BY <1>0, UnhandledFrame
  <2> QED BY <1>u, <1>s, <2>1, <2>2 DEF IInv, RequestsAreCounted
<1> QED BY <1>1, <1>2, <1>3, <1>4, <1>5, <1>6, <1>7, <1>8, <1>9, <1>10, <1>11, <1>12, <1>13 DEF IInv

\* A process starts in the slot of one that is gone.
LEMMA StartKeeps ==
  ASSUME IInv, NEW p \in Processes, Start(p)
  PROVE  IInv'
<1> USE IpcAssumption DEF Processes
<1>0. /\ state[p] = "EDead"
      /\ UNCHANGED << servers, mapping, allocated, stash, calling, msg, panic >>
  BY DEF Start
<1>s. /\ state'[p] = "EReady" /\ \A u : u # p => state'[u] = state[u]
      /\ prog'[p] = "start" /\ \A u : u # p => prog'[u] = prog[u]
      /\ pte'[p] = [i \in Pages |-> None] /\ \A u : u # p => pte'[u] = pte[u]
      /\ numReqs'[p] = 0 /\ \A u : u # p => numReqs'[u] = numReqs[u]
      /\ completedRequests'[p] = 0
      /\ \A u : u # p => completedRequests'[u] = completedRequests[u]
      /\ page'[p] = 0 /\ \A u : u # p => page'[u] = page[u]
      /\ delivered'[p] = 0 /\ \A u : u # p => delivered'[u] = delivered[u]
      /\ clientPages'[p] = {} /\ \A u : u # p => clientPages'[u] = clientPages[u]
      /\ queued'[p] = {} /\ \A u : u # p => queued'[u] = queued[u]
      /\ \A u : u # p => handled'[u] = handled[u] /\ reason'[u] = reason[u]
      /\ errored' = errored \ {p}
  BY DEF Start, IInv, TypeOK
<1>k. /\ \A u : u # p => /\ Stale(u)' <=> Stale(u)
                         /\ Alive(u)' <=> Alive(u)
                         /\ Blocked(u)' <=> Blocked(u)
      /\ Stale(p)' /\ Stale(p) /\ ~Alive(p) /\ ~Blocked(p) /\ ~Blocked(p)'
  BY <1>0, <1>s DEF Stale, Alive, Blocked
<1>o. \A i \in Pages : mapping[i].owner # p
  BY <1>k DEF IInv, PagesKnow
<1>1. TypeOK'
  <2>1. [i \in Pages |-> None] \in [Pages -> Frames \cup {None}]
    OBVIOUS
  <2> QED BY <1>0, <2>1 DEF Start, IInv, TypeOK
<1>2. ProgramsKnow'
  BY <1>0, <1>s DEF IInv, ProgramsKnow
<1>3. SlotsKnow'
  BY <1>0 DEF IInv, SlotsKnow
<1>4. PagesKnow'
  <2>1. ASSUME NEW c \in Clients, Alive(c)'
        PROVE  /\ prog'[c] \in {"connect", "connected"} => page'[c] # 0
               /\ prog'[c] = "start" => page'[c] = 0
               /\ page'[c] # 0 => mapping'[page'[c]].owner = c
               /\ prog'[c] = "connect" =>
                    mapping'[page'[c]].server = 0 /\ msg'[page'[c]] = "free"
    BY <1>0, <1>s, <1>k, <2>1 DEF IInv, PagesKnow
  <2>2. ASSUME NEW i \in Pages, NEW c, c = mapping[i].owner, c # None
        PROVE  c \in Clients /\ Alive(c)' /\ page'[c] = i /\ pte'[c][i] # None
    BY <1>s, <1>k, <1>o, <2>2 DEF IInv, PagesKnow
  <2> QED BY <1>0, <2>1, <2>2 DEF PagesKnow, Alive
<1>5. SharedPagesAreSafe'
  <2>1. \A q \in Processes, i \in Pages : pte'[q][i] # None => pte'[q][i] = pte[q][i]
    BY <1>s
  <2>2. \A i \in Pages : ServerProcess(i)' = ServerProcess(i)
    BY <1>0 DEF ServerProcess
  <2>3. \A q \in Processes, i \in Pages : pte'[q][i] = pte[q][i] \/ pte'[q][i] = None
    BY <1>s
  <2> SUFFICES ASSUME NEW u \in Processes, NEW q \in Processes,
                      NEW i \in Pages, NEW j \in Pages, pte'[u][i] # None
               PROVE  /\ pte'[u][i] \in allocated'
                      /\ u \in {mapping'[i].owner, ServerProcess(i)'}
                      /\ pte'[q][j] = pte'[u][i] => i = j
                      /\ i = j => pte'[q][j] \in {pte'[u][i], None}
    BY DEF SharedPagesAreSafe
  <2>4. pte[u][i] = pte'[u][i]
    BY <2>1
  <2>5. /\ pte[u][i] \in allocated /\ u \in {mapping[i].owner, ServerProcess(i)}
        /\ pte[q][j] = pte[u][i] => i = j
        /\ i = j => pte[q][j] \in {pte[u][i], None}
    BY <2>4 DEF IInv, SharedPagesAreSafe
  <2>6. pte'[q][j] = pte[q][j] \/ pte'[q][j] = None
    BY <2>3
  <2> QED BY <1>0, <2>2, <2>4, <2>5, <2>6
<1>6. BlockedKnow'
  BY <1>0, <1>s, <1>k DEF IInv, BlockedKnow
<1>7. BlockedClientsAreListed'
  <2>1. SameBlocked
    BY <1>k DEF SameBlocked, Blocked
  <2>2. \A r \in Slots : Stale(servers[r].thread) => Stale(servers[r].thread)'
    BY <1>0, <1>k
  <2> QED BY <1>0, <2>1, <2>2, ListedFrame DEF IInv, SameThreads
<1>8. RequestsKnow'
  BY <1>0, <1>s, <1>k DEF IInv, RequestsKnow
<1>9. DeliveryIsInHand'
  <2> SUFFICES (\A q \in Servers : InHand(q))'
    BY DEF DeliveryIsInHand, InHand, Serving
  <2> SUFFICES ASSUME NEW q \in Servers PROVE InHand(q)'
    OBVIOUS
  <2>1. InHand(q)
    BY InHandIs DEF IInv
  <2>2. CASE q = p
    BY <1>s, <2>2 DEF InHand
  <2>3. CASE q # p
    <3>1. ServerProcess(delivered[q])' = ServerProcess(delivered[q])
      BY <1>0, <1>s, <2>3 DEF ServerProcess
    <3>2. \A c \in Clients : state[c] = "EBlockedFromSvc" =>
            state'[c] = "EBlockedFromSvc" /\ reason'[c] = reason[c]
      BY <1>s, <1>k DEF Blocked
    <3> QED BY <1>0, <1>s, <2>1, <2>3, <3>1, <3>2 DEF InHand
  <2> QED BY <2>2, <2>3
<1>10. WaitersKnow'
  BY <1>s DEF IInv, WaitersKnow
<1>11. ASSUME NEW r \in Slots PROVE SessionKnows(r)'
  <2> DEFINE q == servers[r].thread
  <2>1. SessionKnows(r)
    BY DEF IInv
  <2>2. q = p => Stale(q)'
    BY <1>0, <1>k
  <2>3. q # p => /\ Stale(q)' <=> Stale(q)
                 /\ \A c \in Clients : c # p /\ OnItsWay(c, q) => OnItsWay(c, q)'
    BY <1>0, <1>s, <1>k DEF OnItsWay
  <2> QED BY <1>0, <1>s, <1>k, <2>1, <2>2, <2>3, SessionFrame
<1>13. CallersKnow'
  BY <1>0, <1>s, CallersFrame DEF IInv, CallersKnow
<1>12. RequestsAreCounted'
  <2> SUFFICES ASSUME NEW q \in Processes, Told(q)'
               PROVE  numReqs'[q] + completedRequests'[q] + Cardinality(Untold(q)')
                          = Unhandled(q)'
    BY <1>1 DEF RequestsAreCounted
  <2>1. CASE q = p
    <3>1. SentTo(p)' = {}
      BY <1>s DEF SentTo
    <3>2. Unhandled(p)' = 0
      BY <1>s, <3>1, FS_EmptySet DEF Unhandled, OneIf
    <3>3. Untold(p)' = {}
      <4>1. ASSUME NEW u \in calling PROVE Recipient(u)' # p
        <5>1. u # p /\ Recipient(u)' = Recipient(u)
          <6>1. u # p
            BY <1>0 DEF IInv, CallersKnow
          <6> QED BY <1>0, <1>s, <6>1, RecipientFrame DEF SameThreads
        <5>2. CASE u \in Servers
          BY <1>o, <5>1, <5>2, CallerIs DEF Recipient
        <5>3. CASE u \notin Servers
          <6>1. Serving(p) = {}
            BY <1>0, <1>k, <2>1 DEF Told, Serving
          <6>2. page[u] \in Pages /\ mapping[page[u]].server \in Slots \cup {0}
            BY <5>3, CallerIs DEF IInv, TypeOK
          <6>3. ServerProcess(page[u]) # p
            BY <6>1, <6>2 DEF ServerProcess, Serving
          <6> QED BY <5>1, <5>3, <6>3 DEF Recipient
        <5> QED BY <5>2, <5>3
      <4> QED BY <1>0, <4>1 DEF Untold
    <3> QED BY <1>s, <2>1, <3>2, <3>3, FS_EmptySet
  <2>2. CASE q # p
    <3>1. Told(q)
      BY <1>0, <1>s, <1>k, <2>2, ToldFrame DEF SameThreads
    <3>2. Unhandled(q)' = Unhandled(q)
      BY <1>0, <1>s, <2>2, UnhandledFrame
    <3>3. Untold(q)' = Untold(q)
      <4>1. \A u \in calling : u # p
        BY <1>0 DEF IInv, CallersKnow
      <4> QED BY <1>0, <1>s, <4>1, UntoldFrame DEF SameThreads
    <3> QED BY <1>s, <2>2, <3>1, <3>2, <3>3 DEF IInv, RequestsAreCounted
  <2> QED BY <2>1, <2>2
<1> QED BY <1>1, <1>2, <1>3, <1>4, <1>5, <1>6, <1>7, <1>8, <1>9, <1>10, <1>11, <1>12, <1>13 DEF IInv

LEMMA CleanupKeeps ==
  ASSUME IInv, NEW p \in Processes, Cleanup(p)
  PROVE  IInv'
<1> USE IpcAssumption DEF Processes
<1> DEFINE unused == {i \in Pages :
                        /\ MappingWithout(i, p) # mapping[i]
                        /\ MappingWithout(i, p) = [server |-> 0, owner |-> None]}
<1>a. CASE Stop("freedUnmapped")
  BY <1>a, StopKeeps DEF Stop
<1>b. CASE ~Stop("freedUnmapped")
  <2>0. /\ state[p] = "EDying"
        /\ UNCHANGED << servers, reason, stash, completedRequests, prog, numReqs, page,
                        delivered, clientPages, queued, handled, errored, calling, msg, panic >>
    BY <1>b DEF Cleanup, userVars, sessionVars
  <2>x. /\ mapping' = [i \in Pages |-> MappingWithout(i, p)]
        /\ allocated' = allocated \ {pte[p][i] : i \in unused}
        /\ pte' = [pte EXCEPT ![p] = [i \in Pages |-> None]]
        /\ state' = [state EXCEPT ![p] = "EDead"]
    BY <1>b DEF Cleanup
  <2>s. /\ state'[p] = "EDead" /\ \A u : u # p => state'[u] = state[u]
        /\ pte'[p] = [i \in Pages |-> None] /\ \A u : u # p => pte'[u] = pte[u]
    BY <2>x DEF IInv, TypeOK
  <2>k. /\ \A u : u # p => /\ Stale(u)' <=> Stale(u)
                           /\ Alive(u)' <=> Alive(u)
                           /\ Blocked(u)' <=> Blocked(u)
        /\ Stale(p)' /\ ~Alive(p)' /\ Alive(p) /\ ~Blocked(p) /\ ~Blocked(p)'
    BY <2>0, <2>s DEF Stale, Alive, Blocked
  <2>m. \A i \in Pages :
          /\ mapping[i].owner # p => mapping'[i].owner = mapping[i].owner
          /\ mapping[i].owner = p => mapping'[i].owner = None
          /\ mapping'[i].owner # p
          /\ mapping'[i].server \in {mapping[i].server, 0}
          /\ mapping'[i].server # mapping[i].server => ServerProcess(i) = p
    <3> SUFFICES ASSUME NEW i \in Pages
                 PROVE  /\ mapping[i].owner # p => mapping'[i].owner = mapping[i].owner
                        /\ mapping[i].owner = p => mapping'[i].owner = None
                        /\ mapping'[i].owner # p
                        /\ mapping'[i].server \in {mapping[i].server, 0}
                        /\ mapping'[i].server # mapping[i].server => ServerProcess(i) = p
      OBVIOUS
    <3>1. mapping'[i] = MappingWithout(i, p)
      BY <2>x
    <3>2. mapping[i] \in [server : Slots \cup {0}, owner : Processes \cup {None}]
      BY DEF IInv, TypeOK
    <3> QED BY <3>1, <3>2 DEF MappingWithout
  <2>o. \A i \in Pages :
          ServerProcess(i) # p => mapping'[i].server = mapping[i].server
                                  /\ ServerProcess(i)' = ServerProcess(i)
    BY <2>0, <2>m DEF ServerProcess
  <2>1. TypeOK'
    <3>1. mapping' \in [Pages -> [server : Slots \cup {0}, owner : Processes \cup {None}]]
      <4> SUFFICES ASSUME NEW i \in Pages
                   PROVE  MappingWithout(i, p) \in
                            [server : Slots \cup {0}, owner : Processes \cup {None}]
        BY <2>x
      <4>1. mapping[i] \in [server : Slots \cup {0}, owner : Processes \cup {None}]
        BY DEF IInv, TypeOK
      <4> QED BY <4>1 DEF MappingWithout
    <3>2. pte' \in [Processes -> [Pages -> Frames \cup {None}]]
      BY <2>x DEF IInv, TypeOK
    <3>3. allocated' \subseteq Frames
      BY <2>x DEF IInv, TypeOK
    <3> QED BY <2>0, <2>x, <3>1, <3>2, <3>3 DEF IInv, TypeOK
  <2>2. ProgramsKnow'
    BY <2>0 DEF IInv, ProgramsKnow
  <2>3. SlotsKnow'
    <3>1. \A i \in Pages, r \in Slots : mapping'[i].server = r => mapping[i].server = r
      BY <2>m DEF Slots
    <3> QED BY <2>0, <3>1 DEF IInv, SlotsKnow
  <2>4. PagesKnow'
    <3>1. ASSUME NEW c \in Clients, Alive(c)'
          PROVE  /\ prog[c] \in {"connect", "connected"} => page[c] # 0
                 /\ prog[c] = "start" => page[c] = 0
                 /\ page[c] # 0 => mapping'[page[c]].owner = c
                 /\ prog[c] = "connect" =>
                      mapping'[page[c]].server = 0 /\ msg[page[c]] = "free"
      <4>1. c # p /\ Alive(c) /\ c \in Processes
        BY <2>k, <3>1
      <4>2. page[c] # 0 => page[c] \in Pages
        BY <4>1 DEF IInv, TypeOK
      <4> QED BY <2>m, <4>1, <4>2 DEF IInv, PagesKnow
    <3>2. ASSUME NEW i \in Pages, NEW c, c = mapping'[i].owner, c # None
          PROVE  c \in Clients /\ Alive(c)' /\ page[c] = i /\ pte'[c][i] # None
      <4>1. mapping[i].owner = c /\ c # p
        BY <2>m, <3>2
      <4> QED BY <2>s, <2>k, <3>2, <4>1 DEF IInv, PagesKnow
    <3> QED BY <2>0, <3>1, <3>2 DEF PagesKnow, Alive
  <2>5. SharedPagesAreSafe'
    <3> SUFFICES ASSUME NEW u \in Processes, NEW q \in Processes,
                        NEW i \in Pages, NEW j \in Pages, pte'[u][i] # None
                 PROVE  /\ pte'[u][i] \in allocated'
                        /\ u \in {mapping'[i].owner, ServerProcess(i)'}
                        /\ pte'[q][j] = pte'[u][i] => i = j
                        /\ i = j => pte'[q][j] \in {pte'[u][i], None}
      BY DEF SharedPagesAreSafe
    <3>1. u # p /\ pte'[u][i] = pte[u][i]
      BY <2>s
    <3>2. /\ pte[u][i] \in allocated /\ u \in {mapping[i].owner, ServerProcess(i)}
          /\ \A k \in Pages : pte[p][k] = pte[u][i] => i = k
          /\ pte[q][j] = pte[u][i] => i = j
          /\ i = j => pte[q][j] \in {pte[u][i], None}
      BY <3>1 DEF IInv, SharedPagesAreSafe
    <3>3. pte'[q][j] = pte[q][j] \/ pte'[q][j] = None
      BY <2>s
    <3>4. u \in {mapping'[i].owner, ServerProcess(i)'}
      BY <2>m, <2>o, <3>1, <3>2
    <3>5. i \notin unused
      <4> SUFFICES ASSUME mapping'[i] = [server |-> 0, owner |-> None] PROVE FALSE
        BY <2>x
      <4>1. mapping'[i].owner = None /\ ServerProcess(i)' = None
        BY DEF ServerProcess
      <4> QED BY <3>4, <4>1
    <3>6. pte[u][i] \in allocated'
      BY <2>x, <3>2, <3>5
    <3> QED BY <3>1, <3>2, <3>3, <3>4, <3>6
  <2>6. BlockedKnow'
    BY <2>0, <2>k DEF IInv, BlockedKnow
  <2>7. BlockedClientsAreListed'
    <3> SUFFICES ASSUME NEW c \in Processes PROVE Listed(c)'
      BY DEF BlockedClientsAreListed, Listed, Lists
    <3>1. Listed(c) /\ Lists(c)' = Lists(c)
      BY <2>0, ListedIs DEF IInv, Lists
    <3>2. CASE ~Blocked(c)
      BY <2>k, <3>1, <3>2 DEF Listed, Blocked
    <3>3. CASE Blocked(c)
      <4>1. PICK r \in Slots :
              /\ Lists(c) = {r} /\ Distinct(servers[r].clients)
              /\ mapping[stash[c]].server # r =>
                   mapping[stash[c]].server = 0 /\ Stale(servers[r].thread)
        BY <3>1, <3>3 DEF Listed, Blocked
      <4>2. c # p /\ stash[c] \in Pages /\ mapping[stash[c]].owner = c
        <5>1. stash[c] = page[c] /\ Alive(c) /\ c \in Clients /\ prog[c] = "connected"
          BY <3>3 DEF IInv, BlockedKnow, Blocked, Alive
        <5> QED BY <2>k, <3>3, <5>1 DEF IInv, PagesKnow, TypeOK
      <4>3. Stale(servers[r].thread) => Stale(servers[r].thread)'
        BY <2>0, <2>k
      <4>4. mapping'[stash[c]].server # r =>
              mapping'[stash[c]].server = 0 /\ Stale(servers[r].thread)'
        <5>1. CASE mapping'[stash[c]].server = mapping[stash[c]].server
          BY <4>1, <4>3, <5>1
        <5>2. CASE mapping'[stash[c]].server # mapping[stash[c]].server
          <6>1. mapping'[stash[c]].server = 0 /\ ServerProcess(stash[c]) = p
            BY <2>m, <4>2, <5>2
          <6>2. mapping[stash[c]].server = r \/ Stale(servers[r].thread)
            BY <4>1
          <6>3. mapping[stash[c]].server = r => servers[r].thread = p
            BY <6>1 DEF ServerProcess, Slots
          <6> QED BY <2>0, <2>k, <4>3, <6>1, <6>2, <6>3
        <5> QED BY <5>1, <5>2
      <4>5. mapping'[stash[c]].owner = c
        BY <2>m, <4>2
      <4> QED BY <2>0, <2>k, <3>1, <3>3, <4>1, <4>4, <4>5 DEF Listed, Blocked
    <3> QED BY <3>2, <3>3
  <2>8. RequestsKnow'
    BY <2>0, <2>k DEF IInv, RequestsKnow
  <2>9. DeliveryIsInHand'
    <3> SUFFICES (\A q \in Servers : InHand(q))'
      BY DEF DeliveryIsInHand, InHand, Serving
    <3> SUFFICES ASSUME NEW q \in Servers, q # p PROVE InHand(q)'
      BY <2>s DEF InHand
    <3>1. InHand(q)
      BY InHandIs DEF IInv
    <3>2. ASSUME delivered[q] # 0, state[q] # "EDead"
          PROVE  /\ ServerProcess(delivered[q])' = q
                 /\ mapping'[delivered[q]].owner = mapping[delivered[q]].owner
                 /\ mapping[delivered[q]].owner # p
      <4>1. /\ delivered[q] \in Pages /\ ServerProcess(delivered[q]) = q
            /\ mapping[delivered[q]].owner # p
        BY <2>k, <3>1, <3>2 DEF InHand, IInv, TypeOK, Blocked
      <4> QED BY <2>0, <2>m, <2>o, <4>1
    <3> QED BY <2>0, <2>s, <3>1, <3>2 DEF InHand
  <2>10. WaitersKnow'
    BY <2>0, <2>s DEF IInv, WaitersKnow
  <2>11. ASSUME NEW r \in Slots PROVE SessionKnows(r)'
    <3> DEFINE q == servers[r].thread
    <3>1. CASE q = p \/ q = None
      BY <2>0, <2>k, <3>1 DEF SessionKnows
    <3>2. CASE q # p /\ q # None
      <4>1. q \in Processes /\ SessionKnows(r)
        BY <3>2 DEF IInv, SlotsKnow
      <4>2. \A i \in clientPages[q] : mapping[i].server = r => mapping'[i].server = r
        <5> SUFFICES ASSUME NEW i \in clientPages[q], mapping[i].server = r
                     PROVE  mapping'[i].server = r
          OBVIOUS
        <5>1. i \in Pages /\ ServerProcess(i) = q
          BY <4>1 DEF IInv, TypeOK, ServerProcess, Slots
        <5> QED BY <2>o, <3>2, <5>1
      <4>3. ASSUME NEW c \in Clients, Alive(c)', prog[c] = "connected",
                   mapping'[page[c]].server = r
            PROVE  Alive(c) /\ mapping[page[c]].server = r
        <5>1. Alive(c) /\ page[c] \in Pages
          BY <2>k, <4>3 DEF IInv, PagesKnow, TypeOK
        <5> QED BY <2>m, <4>3, <5>1 DEF Slots
      <4>4. \A c \in Clients : OnItsWay(c, q) => OnItsWay(c, q)'
        BY <2>0, <2>k DEF OnItsWay
      <4> QED BY <2>0, <2>k, <3>2, <4>1, <4>2, <4>3, <4>4, SessionFrame
    <3> QED BY <3>1, <3>2
  <2>13. CallersKnow'
    BY <2>0, <2>s, CallersFrame DEF IInv, CallersKnow
  <2>12. RequestsAreCounted'
    <3> SUFFICES ASSUME NEW q \in Processes, Told(q)'
                 PROVE  numReqs'[q] + completedRequests'[q] + Cardinality(Untold(q)')
                          = Unhandled(q)'
      BY <2>1 DEF RequestsAreCounted
    <3>1. q # p
      BY <2>s DEF Told
    <3>2. Told(q)
      BY <2>0, <2>s, <2>k, <3>1, ToldFrame DEF SameThreads
    <3>3. Unhandled(q)' = Unhandled(q)
      BY <2>0, UnhandledFrame
    <3>4. Untold(q)' = Untold(q)
      <4>1. ASSUME NEW u \in calling PROVE Recipient(u)' = q <=> Recipient(u) = q
        <5>1. CASE u \in Servers
          BY <2>0, <2>m, <3>1, <5>1, CallerIs DEF Recipient
        <5>2. CASE u \notin Servers
          BY <2>0, <2>m, <2>o, <3>1, <5>2, CallerIs DEF Recipient, ServerProcess
        <5> QED BY <5>1, <5>2
      <4> QED BY <2>0, <4>1 DEF Untold
    <3> QED BY <2>0, <3>2, <3>3, <3>4 DEF IInv, RequestsAreCounted
  <2> QED BY <2>1, <2>2, <2>3, <2>4, <2>5, <2>6, <2>7, <2>8, <2>9, <2>10,
             <2>11, <2>12, <2>13 DEF IInv
<1> QED BY <1>a, <1>b

-----------------------------------------------------------------------------
(* The steps of a client's program.                                        *)

LEMMA MsgCompletedKeeps ==
  ASSUME IInv, NEW p \in Clients, MsgCompleted(p)
  PROVE  IInv'
<1> USE IpcAssumption DEF Processes
<1> DEFINE i == page[p]
<1>0. /\ p \in Processes /\ state[p] = "EReady" /\ prog[p] = "connected"
      /\ numReqs[p] # 0 /\ msg[i] = "answered"
      /\ UNCHANGED << servers, mapping, pte, allocated, state, reason, stash,
                      completedRequests, prog, page, delivered, clientPages,
                      queued, handled, errored, calling, panic >>
  BY DEF MsgCompleted, Running, kernelVars, threadVars, sessionVars
<1>x. numReqs' = [numReqs EXCEPT ![p] = @ - 1] /\ msg' = [msg EXCEPT ![i] = "free"]
  BY DEF MsgCompleted, Handling
<1>i. i \in Pages /\ mapping[i].owner = p /\ i # 0
  <2>1. i # 0
    BY <1>0 DEF IInv, PagesKnow, Alive
  <2> QED BY <1>0, <2>1, SessionOf DEF Alive
<1>n. /\ numReqs[p] \in Nat /\ numReqs[p] - 1 \in Nat /\ numReqs'[p] = numReqs[p] - 1
      /\ \A u \in Processes : u # p => numReqs'[u] = numReqs[u]
      /\ msg'[i] = "free" /\ \A j \in Pages : j # i => msg'[j] = msg[j]
  <2>1. numReqs[p] \in Nat
    BY <1>0 DEF IInv, TypeOK
  <2>2. numReqs[p] - 1 \in Nat
    BY <1>0, <2>1
  <2> QED BY <1>0, <1>x, <1>i, <2>1, <2>2 DEF IInv, TypeOK
<1>k. \A u : /\ Stale(u)' <=> Stale(u)
             /\ Alive(u)' <=> Alive(u)
             /\ Blocked(u)' <=> Blocked(u)
             /\ \A q : OnItsWay(u, q)' <=> OnItsWay(u, q)
  BY <1>0 DEF Stale, Alive, Blocked, OnItsWay
<1>1. TypeOK'
  BY <1>0, <1>x, <1>n DEF IInv, TypeOK
<1>2. ProgramsKnow'
  BY <1>0 DEF IInv, ProgramsKnow
<1>3. SlotsKnow'
  BY <1>0 DEF IInv, SlotsKnow
<1>4. PagesKnow'
  <2>1. \A c \in Clients : Alive(c) /\ prog[c] = "connect" => msg'[page[c]] = "free"
    <3> SUFFICES ASSUME NEW c \in Clients, Alive(c), prog[c] = "connect"
                 PROVE  msg'[page[c]] = "free"
      OBVIOUS
    <3>1. page[c] \in Pages /\ msg[page[c]] = "free"
      BY DEF IInv, PagesKnow, TypeOK
    <3> QED BY <1>n, <3>1
  <2> QED BY <1>0, <1>k, <2>1 DEF IInv, PagesKnow
<1>5. SharedPagesAreSafe'
  BY <1>0 DEF IInv, SharedPagesAreSafe, ServerProcess
<1>6. BlockedKnow'
  <2>1. \A c \in Processes : Blocked(c) => msg'[page[c]] = "free"
    <3> SUFFICES ASSUME NEW c \in Processes, Blocked(c) PROVE msg'[page[c]] = "free"
      OBVIOUS
    <3>1. page[c] \in Pages /\ msg[page[c]] = "free"
      BY DEF IInv, BlockedKnow, PagesKnow, TypeOK, Blocked, Alive
    <3> QED BY <1>n, <3>1
  <2> QED BY <1>0, <1>k, <2>1 DEF IInv, BlockedKnow
<1>7. BlockedClientsAreListed'
  BY <1>0, ListedFrame DEF IInv, SameBlocked, SameThreads, Stale
<1>8. RequestsKnow'
  BY <1>0 DEF IInv, RequestsKnow, Alive
<1>9. DeliveryIsInHand'
  BY <1>0 DEF IInv, DeliveryIsInHand, ServerProcess, Serving
<1>10. WaitersKnow'
  BY <1>0, <1>n DEF IInv, WaitersKnow
<1>11. ASSUME NEW r \in Slots PROVE SessionKnows(r)'
  <2>1. SessionKnows(r)
    BY DEF IInv
  <2> QED BY <1>0, <1>k, <2>1, SessionFrame
<1>u. \A u : Untold(u)' = Untold(u)
  BY <1>0, UntoldFrame DEF SameThreads
<1>13. CallersKnow'
  BY <1>0, CallersFrame DEF IInv, CallersKnow
<1>12. RequestsAreCounted'
  <2> SUFFICES ASSUME NEW q \in Processes, Told(q)'
               PROVE  numReqs'[q] + completedRequests'[q] + Cardinality(Untold(q)')
                          = Unhandled(q)'
    BY <1>1 DEF RequestsAreCounted
  <2>1. Told(q)
    BY <1>0, <1>k, ToldFrame DEF SameThreads
  <2>2. numReqs[q] + completedRequests[q] + Cardinality(Untold(q)) = Unhandled(q)
    BY <2>1 DEF IInv, RequestsAreCounted
  <2>3. CASE q = p
    <3>1. SentTo(p)' = {} /\ SentTo(p) = {} /\ delivered[p] = 0
      BY <1>0 DEF SentTo, IInv, ProgramsKnow
    <3>2. Unhandled(p) = 1 /\ Unhandled(p)' = 0
      BY <1>0, <1>i, <1>n, <3>1, FS_EmptySet DEF Unhandled, OneIf
    <3>3. completedRequests[p] \in Nat
      BY <1>0 DEF IInv, TypeOK
    <3>4. Cardinality(Untold(p)) \in Nat /\ Cardinality(Untold(p)') = Cardinality(Untold(p))
      BY <1>0, <1>u, SentIsFinite DEF IInv
    <3>5. numReqs[p] \in Nat /\ completedRequests'[p] = completedRequests[p]
      BY <1>0 DEF IInv, TypeOK
    <3>6. numReqs'[p] = numReqs[p] - 1
      BY <1>0, <1>n
    <3> QED BY <2>2, <2>3, <3>2, <3>3, <3>4, <3>5, <3>6
  <2>4. CASE q # p
    <3>1. page[q] # i
      BY <1>i, <2>1, <2>4, SessionOf DEF Told, Alive
    <3>2. \A j \in clientPages[q] : msg'[j] \in {"sent", "lost"} <=> msg[j] \in {"sent", "lost"}
      BY <1>0, <1>n DEF IInv, TypeOK
    <3>3. page[q] # 0 => msg'[page[q]] = msg[page[q]]
      BY <1>n, <3>1 DEF IInv, TypeOK
    <3>4. Unhandled(q)' = Unhandled(q)
      BY <1>0, <3>2, <3>3, UnhandledFrame
    <3> QED BY <1>u, <1>0, <1>n, <2>2, <2>4, <3>4
  <2> QED BY <1>u, <2>3, <2>4
<1> QED BY <1>1, <1>2, <1>3, <1>4, <1>5, <1>6, <1>7, <1>8, <1>9, <1>10, <1>11, <1>12, <1>13 DEF IInv

LEMMA SendKeeps ==
  ASSUME IInv, NEW p \in Clients, Send(p)
  PROVE  IInv'
<1> USE IpcAssumption DEF Processes
<1> DEFINE i == page[p]
           t == ServerProcess(i)
<1>0. /\ p \in Processes /\ p \notin Servers /\ p \notin calling
      /\ state[p] = "EReady" /\ prog[p] = "connected" /\ msg[i] = "free"
      /\ UNCHANGED << servers, mapping, pte, allocated, state, reason, stash,
                      completedRequests, prog, numReqs, page, delivered,
                      clientPages, queued, handled, errored, panic >>
  BY DEF Send, Running, kernelVars, threadVars
<1>x. msg' = [msg EXCEPT ![i] = "sent"] /\ calling' = calling \cup {p}
  BY DEF Send
<1>i. i \in Pages /\ mapping[i].owner = p /\ i # 0
  <2>1. i # 0
    BY <1>0 DEF IInv, PagesKnow, Alive
  <2> QED BY <1>0, <2>1, SessionOf DEF Alive
<1>m. msg'[i] = "sent" /\ \A j \in Pages : j # i => msg'[j] = msg[j]
  BY <1>i, <1>x DEF IInv, TypeOK
<1>k. \A u \in Processes : /\ Stale(u)' <=> Stale(u)
                           /\ Alive(u)' <=> Alive(u)
                           /\ Blocked(u)' <=> Blocked(u)
                           /\ \A q : OnItsWay(u, q)' <=> OnItsWay(u, q)
  BY <1>0 DEF Stale, Alive, Blocked, OnItsWay
<1>1. TypeOK'
  BY <1>0, <1>x DEF IInv, TypeOK
<1>2. ProgramsKnow'
  BY <1>0 DEF IInv, ProgramsKnow
<1>3. SlotsKnow'
  BY <1>0 DEF IInv, SlotsKnow
<1>4. PagesKnow'
  <2>1. \A c \in Clients : Alive(c) /\ prog[c] = "connect" => msg'[page[c]] = "free"
    <3> SUFFICES ASSUME NEW c \in Clients, Alive(c), prog[c] = "connect"
                 PROVE  msg'[page[c]] = "free"
      OBVIOUS
    <3>1. page[c] \in Pages /\ msg[page[c]] = "free" /\ mapping[page[c]].owner = c
      BY DEF IInv, PagesKnow, TypeOK
    <3>2. c # p
      BY <1>0
    <3> QED BY <1>i, <1>m, <3>1, <3>2
  <2>2. \A c \in Clients : c \in Processes
    OBVIOUS
  <2>3. \A j \in Pages : mapping[j].owner # None => mapping[j].owner \in Clients
    BY DEF IInv, PagesKnow
  <2> QED BY <1>0, <1>k, <2>1, <2>2, <2>3 DEF IInv, PagesKnow
<1>5. SharedPagesAreSafe'
  BY <1>0 DEF IInv, SharedPagesAreSafe, ServerProcess
<1>6. BlockedKnow'
  <2>1. \A c \in Processes : Blocked(c) => msg'[page[c]] = "free"
    <3> SUFFICES ASSUME NEW c \in Processes, Blocked(c) PROVE msg'[page[c]] = "free"
      OBVIOUS
    <3>1. page[c] \in Pages /\ msg[page[c]] = "free" /\ mapping[page[c]].owner = c
      BY DEF IInv, BlockedKnow, PagesKnow, TypeOK, Blocked, Alive
    <3>2. c # p
      BY <1>0 DEF Blocked
    <3> QED BY <1>i, <1>m, <3>1, <3>2
  <2> QED BY <1>0, <1>k, <2>1 DEF IInv, BlockedKnow
<1>7. BlockedClientsAreListed'
  BY <1>0 DEF IInv, BlockedClientsAreListed, Stale
<1>8. RequestsKnow'
  BY <1>0, <1>k DEF IInv, RequestsKnow
<1>9. DeliveryIsInHand'
  BY <1>0 DEF IInv, DeliveryIsInHand, ServerProcess, Serving
<1>10. WaitersKnow'
  BY <1>0 DEF IInv, WaitersKnow
<1>11. ASSUME NEW r \in Slots PROVE SessionKnows(r)'
  BY <1>0 DEF IInv, SessionKnows, Stale, Alive, OnItsWay, Blocked
<1>12. RequestsAreCounted'
  <2> SUFFICES ASSUME NEW q \in Processes, Told(q)'
               PROVE  numReqs'[q] + completedRequests'[q] + Cardinality(Untold(q)')
                        = Unhandled(q)'
    BY <1>1 DEF RequestsAreCounted
  <2>1. Told(q)
    BY <1>0, <1>k, ToldFrame DEF SameThreads
  <2>2. numReqs[q] + completedRequests[q] + Cardinality(Untold(q)) = Unhandled(q)
    BY <2>1 DEF IInv, RequestsAreCounted
  <2>t. /\ Cardinality(SentTo(q)) \in Nat /\ numReqs[q] \in Nat
        /\ completedRequests[q] \in Nat /\ IsFiniteSet(SentTo(q))
        /\ Cardinality(Untold(q)) \in Nat
    BY SentIsFinite DEF IInv, TypeOK
  <2>n. numReqs'[q] = numReqs[q] /\ completedRequests'[q] = completedRequests[q]
    BY <1>0
  <2>u. Cardinality(Untold(q)') = Cardinality(Untold(q)) + OneIf(t = q)
    <3>1. Recipient(p)' = t
      BY <1>0 DEF Recipient, ServerProcess
    <3>2. SameThreads
      BY <1>0 DEF SameThreads
    <3>3. Cardinality(Untold(q)') = Cardinality(Untold(q)) + OneIf(Recipient(p)' = q)
      BY <1>0, <1>x, <3>2, UntoldAdds
    <3> QED BY <3>1, <3>3
  <2>3. CASE q = t
    <3>s. PICK s \in Slots : mapping[i].server = s /\ servers[s].thread = t
      BY <1>i, <2>3 DEF IInv, TypeOK, ServerProcess
    <3>0. t \in Servers
      BY <2>3, <3>s DEF IInv, SlotsKnow
    <3>1. i \in clientPages[t]
      <4>1. s \in Serving(t)
        BY <3>s DEF Serving
      <4>2. ~Stale(t)
        BY <2>1, <2>3, <4>1 DEF Told
      <4> QED BY <1>0, <2>3, <3>s, <4>2 DEF IInv, SessionKnows, OnItsWay, Blocked, Alive
    <3>2. SentTo(q)' = SentTo(q) \cup {i} /\ i \notin SentTo(q)
      BY <1>0, <1>i, <1>m, <2>3, <3>1 DEF SentTo, IInv, TypeOK
    <3>3. Cardinality(SentTo(q)') = Cardinality(SentTo(q)) + 1
      BY <2>t, <3>2, FS_AddElement
    <3>4. page[q] = 0
      BY <2>3, <3>0 DEF IInv, ProgramsKnow
    <3>5. Unhandled(q)' = Unhandled(q) + 1 /\ Unhandled(q) \in Nat
      BY <1>0, <2>t, <3>3, <3>4 DEF Unhandled, OneIf
    <3>6. Cardinality(Untold(q)') = Cardinality(Untold(q)) + 1
      BY <2>3, <2>u DEF OneIf
    <3> QED BY <2>2, <2>t, <2>n, <3>5, <3>6
  <2>4. CASE q # t
    <3>1. i \notin clientPages[q]
      BY <2>1, <2>4, HandledBy
    <3>2. \A j \in clientPages[q] : msg'[j] = msg[j]
      BY <1>m, <3>1 DEF IInv, TypeOK
    <3>3. page[q] # 0 => (msg'[page[q]] = "answered" <=> msg[page[q]] = "answered")
      BY <1>0, <1>m DEF IInv, TypeOK
    <3>4. Unhandled(q)' = Unhandled(q)
      BY <1>0, <3>2, <3>3, UnhandledFrame
    <3>5. Cardinality(Untold(q)') = Cardinality(Untold(q))
      BY <2>4, <2>t, <2>u DEF OneIf
    <3> QED BY <2>2, <2>n, <3>4, <3>5
  <2> QED BY <2>3, <2>4
<1>13. CallersKnow'
  BY <1>0, <1>x DEF IInv, CallersKnow
<1> QED BY <1>1, <1>2, <1>3, <1>4, <1>5, <1>6, <1>7, <1>8, <1>9, <1>10,
           <1>11, <1>12, <1>13 DEF IInv

LEMMA SendSvcKeeps ==
  ASSUME IInv, NEW p \in Clients, SendSvc(p)
  PROVE  IInv'
<1> USE IpcAssumption DEF Processes
<1> DEFINE i == page[p]
           t == ServerProcess(i)
<1>1. CASE mapping[i].server = 0
  <2>1. Stop("nullServer")
    BY <1>1 DEF SendSvc
  <2> QED BY <2>1, StopKeeps DEF Stop
<1>2. CASE mapping[i].server # 0
  <2>1. /\ p \in calling /\ Signal(t, state, numReqs) /\ calling' = calling \ {p}
        /\ UNCHANGED << kernelVars, reason, stash, prog, page, delivered,
                        clientPages, queued, handled, errored, msg, panic >>
    BY <1>2 DEF SendSvc
  <2>2. i \in Pages /\ p \notin Servers /\ t = Recipient(p)
    BY <2>1, CallerIs DEF Recipient
  <2>3. PICK s \in Slots : mapping[i].server = s /\ servers[s].thread = t
    BY <1>2, <2>2 DEF IInv, TypeOK, ServerProcess
  <2>4. t \in Processes
    BY <2>2, <2>3 DEF IInv, SlotsKnow
  <2> HIDE DEF t
  <2> QED BY <2>1, <2>2, <2>4, SvcKeeps
<1> QED BY <1>1, <1>2

LEMMA NewSharedPageKeeps ==
  ASSUME IInv, NEW p \in Clients, NewSharedPage(p)
  PROVE  IInv'
<1> USE IpcAssumption DEF Processes
<1>0. /\ p \in Processes /\ state[p] = "EReady" /\ prog[p] = "start" /\ p \notin calling
      /\ UNCHANGED << servers, state, reason, stash, completedRequests, numReqs,
                      delivered, clientPages, queued, handled, errored, calling, panic >>
  BY DEF NewSharedPage, Running, threadVars, sessionVars
<1>a. CASE prog' = [prog EXCEPT ![p] = "failed"]
             /\ UNCHANGED << mapping, pte, allocated, page, msg >>
  BY <1>0, <1>a, FailsKeeps DEF kernelVars, threadVars, sessionVars
<1>b. CASE \E i \in Pages, f \in Frames \ allocated :
             /\ IsFirst(i, {j \in Pages : mapping[j] = [server |-> 0, owner |-> None]})
             /\ pte' = [pte EXCEPT ![p][i] = f]
             /\ allocated' = allocated \cup {f}
             /\ mapping' = [mapping EXCEPT ![i].owner = p]
             /\ msg' = [msg EXCEPT ![i] = "free"]
             /\ page' = [page EXCEPT ![p] = i]
             /\ prog' = [prog EXCEPT ![p] = "connect"]
  <2>x. PICK i \in Pages, f \in Frames \ allocated :
          /\ mapping[i] = [server |-> 0, owner |-> None]
          /\ pte' = [pte EXCEPT ![p][i] = f]
          /\ allocated' = allocated \cup {f}
          /\ mapping' = [mapping EXCEPT ![i].owner = p]
          /\ msg' = [msg EXCEPT ![i] = "free"]
          /\ page' = [page EXCEPT ![p] = i]
          /\ prog' = [prog EXCEPT ![p] = "connect"]
    BY <1>b DEF IsFirst
  <2>i. /\ i # 0 /\ mapping[i].owner = None /\ mapping[i].server = 0
        /\ page[p] = 0
    <3>1. page[p] = 0
      BY <1>0 DEF IInv, PagesKnow, Alive
    <3> QED BY <2>x, <3>1 DEF Pages
  <2>f. f \in Frames /\ f \notin allocated /\ f # None
    OBVIOUS
  <2>s. /\ mapping'[i] = [server |-> 0, owner |-> p]
        /\ \A j \in Pages : j # i => mapping'[j] = mapping[j]
        /\ pte'[p][i] = f /\ \A j \in Pages : j # i => pte'[p][j] = pte[p][j]
        /\ \A u : u # p => pte'[u] = pte[u]
        /\ msg'[i] = "free" /\ \A j \in Pages : j # i => msg'[j] = msg[j]
        /\ page'[p] = i /\ \A u : u # p => page'[u] = page[u]
        /\ prog'[p] = "connect" /\ \A u : u # p => prog'[u] = prog[u]
    BY <1>0, <2>x, <2>i DEF IInv, TypeOK
  <2>k. \A u : /\ Stale(u)' <=> Stale(u)
               /\ Alive(u)' <=> Alive(u)
               /\ Blocked(u)' <=> Blocked(u)
    BY <1>0, <2>s DEF Stale, Alive, Blocked
  <2>o. \A j \in Pages : ServerProcess(j)' = ServerProcess(j)
    BY <1>0, <2>s, <2>i DEF ServerProcess
  <2>p. \A c \in Processes : Alive(c) => page[c] # i
    BY <2>i, SessionOf
  <2>1. TypeOK'
    <3>1. mapping' \in [Pages -> [server : Slots \cup {0}, owner : Processes \cup {None}]]
      BY <1>0, <2>x DEF IInv, TypeOK
    <3>2. pte' \in [Processes -> [Pages -> Frames \cup {None}]]
      BY <1>0, <2>x DEF IInv, TypeOK
    <3> QED BY <1>0, <2>x, <3>1, <3>2 DEF IInv, TypeOK
  <2>2. ProgramsKnow'
    <3>1. \A q \in Servers : q # p /\ prog'[q] = prog[q] /\ page'[q] = page[q]
      BY <2>s
    <3>2. \A c \in Clients : prog'[c] \in {"start", "connect", "connected", "failed"}
      BY <2>s DEF IInv, ProgramsKnow
    <3> QED BY <1>0, <3>1, <3>2 DEF IInv, ProgramsKnow
  <2>3. SlotsKnow'
    <3>1. \A j \in Pages : mapping'[j].server = mapping[j].server
      BY <2>s, <2>i
    <3> QED BY <1>0, <3>1 DEF IInv, SlotsKnow
  <2>4. PagesKnow'
    <3>1. ASSUME NEW c \in Clients, Alive(c)'
          PROVE  /\ prog'[c] \in {"connect", "connected"} => page'[c] # 0
                 /\ prog'[c] = "start" => page'[c] = 0
                 /\ page'[c] # 0 => mapping'[page'[c]].owner = c
                 /\ prog'[c] = "connect" =>
                      mapping'[page'[c]].server = 0 /\ msg'[page'[c]] = "free"
      <4>1. CASE c = p
        BY <2>s, <2>i, <4>1
      <4>2. CASE c # p
        <5>1. page[c] # 0 => page[c] \in Pages /\ page[c] # i
          BY <2>k, <2>p, <3>1 DEF IInv, TypeOK
        <5> QED BY <2>s, <2>k, <3>1, <4>2, <5>1 DEF IInv, PagesKnow
      <4> QED BY <4>1, <4>2
    <3>2. ASSUME NEW j \in Pages, NEW c, c = mapping'[j].owner, c # None
          PROVE  c \in Clients /\ Alive(c)' /\ page'[c] = j /\ pte'[c][j] # None
      <4>1. CASE j = i
        BY <1>0, <2>s, <2>k, <2>f, <3>2, <4>1 DEF Alive
      <4>2. CASE j # i
        <5>1. /\ c \in Clients /\ Alive(c) /\ page[c] = j /\ pte[c][j] # None
          BY <2>s, <3>2, <4>2 DEF IInv, PagesKnow
        <5>2. c # p
          BY <2>i, <5>1 DEF Pages
        <5> QED BY <2>s, <2>k, <5>1, <5>2
      <4> QED BY <4>1, <4>2
    <3> QED BY <3>1, <3>2 DEF PagesKnow
  <2>5. SharedPagesAreSafe'
    <3>1. \A u \in Processes : pte[u][i] = None
      BY <2>i DEF IInv, SharedPagesAreSafe, ServerProcess
    <3>2. \A u \in Processes, j \in Pages : pte[u][j] # f
      BY <2>f DEF IInv, SharedPagesAreSafe
    <3>3. \A u \in Processes, j \in Pages : pte'[u][j] = IF u = p /\ j = i THEN f ELSE pte[u][j]
      BY <2>s
    <3> SUFFICES ASSUME NEW u \in Processes, NEW q \in Processes,
                        NEW k \in Pages, NEW j \in Pages, pte'[u][k] # None
                 PROVE  /\ pte'[u][k] \in allocated'
                        /\ u \in {mapping'[k].owner, ServerProcess(k)'}
                        /\ pte'[q][j] = pte'[u][k] => k = j
                        /\ k = j => pte'[q][j] \in {pte'[u][k], None}
      BY DEF SharedPagesAreSafe
    <3>4. CASE u = p /\ k = i
      BY <2>x, <2>s, <3>1, <3>2, <3>3, <3>4
    <3>5. CASE ~(u = p /\ k = i)
      <4>1. pte'[u][k] = pte[u][k] /\ k # i
        BY <3>1, <3>3, <3>5
      <4>2. /\ pte[u][k] \in allocated /\ u \in {mapping[k].owner, ServerProcess(k)}
            /\ pte[q][j] = pte[u][k] => k = j
            /\ k = j => pte[q][j] \in {pte[u][k], None}
        BY <4>1 DEF IInv, SharedPagesAreSafe
      <4> QED BY <2>x, <2>s, <2>o, <3>2, <3>3, <4>1, <4>2
    <3> QED BY <3>4, <3>5
  <2>6. BlockedKnow'
    <3>1. \A c \in Processes : Blocked(c) => c # p /\ page[c] \in Pages /\ page[c] # i
      BY <1>0, <2>p DEF IInv, BlockedKnow, PagesKnow, TypeOK, Blocked, Alive
    <3> QED BY <1>0, <2>s, <2>k, <3>1 DEF IInv, BlockedKnow
  <2>7. BlockedClientsAreListed'
    <3>1. \A c \in Processes : Blocked(c) => mapping'[stash[c]] = mapping[stash[c]]
      <4>1. \A c \in Processes : Blocked(c) =>
              stash[c] = page[c] /\ page[c] \in Pages /\ page[c] # i
        BY <2>p DEF IInv, BlockedKnow, PagesKnow, TypeOK, Blocked, Alive
      <4> QED BY <2>s, <4>1
    <3>2. SameBlocked
      BY <2>k DEF SameBlocked, Blocked
    <3>3. \A r \in Slots : Stale(servers[r].thread) => Stale(servers[r].thread)'
      BY <1>0, <2>k
    <3> QED BY <1>0, <3>1, <3>2, <3>3, ListedFrame DEF IInv, SameThreads
  <2>8. RequestsKnow'
    BY <1>0, <2>s, <2>k DEF IInv, RequestsKnow
  <2>9. DeliveryIsInHand'
    <3> SUFFICES (\A q \in Servers : InHand(q))'
      BY DEF DeliveryIsInHand, InHand, Serving
    <3> SUFFICES ASSUME NEW q \in Servers PROVE InHand(q)'
      OBVIOUS
    <3>1. InHand(q)
      BY InHandIs DEF IInv
    <3>2. ASSUME delivered[q] # 0, state[q] # "EDead"
          PROVE  /\ ServerProcess(delivered[q])' = ServerProcess(delivered[q])
                 /\ mapping'[delivered[q]].owner = mapping[delivered[q]].owner
      <4>1. delivered[q] \in Pages
        BY <3>2 DEF IInv, TypeOK
      <4>2. delivered[q] # i
        BY <2>i, <3>1, <3>2 DEF InHand
      <4> QED BY <1>0, <2>s, <2>o, <4>1, <4>2
    <3>3. prog'[q] = prog[q]
      BY <2>s
    <3> QED BY <1>0, <3>1, <3>2, <3>3 DEF InHand
  <2>10. WaitersKnow'
    BY <1>0 DEF IInv, WaitersKnow
  <2>11. ASSUME NEW r \in Slots PROVE SessionKnows(r)'
    <3> DEFINE q == servers[r].thread
    <3>1. SessionKnows(r) /\ (q # None => q \in Servers /\ q # p /\ prog'[q] = prog[q])
      BY <2>s DEF IInv, SlotsKnow
    <3>2. \A j \in Pages : mapping'[j].server = mapping[j].server
      BY <2>s, <2>i
    <3>3. q # None => clientPages[q] \subseteq Pages
      BY <3>1 DEF IInv, TypeOK
    <3>4. ASSUME NEW c \in Clients, Alive(c)', prog'[c] = "connected",
                 mapping'[page'[c]].server = r
          PROVE  /\ Alive(c) /\ prog[c] = "connected" /\ page'[c] = page[c]
                 /\ mapping[page[c]].server = r
                 /\ OnItsWay(c, q) => OnItsWay(c, q)'
      <4>1. c # p /\ page'[c] = page[c] /\ Alive(c) /\ prog[c] = "connected"
        BY <2>s, <2>k, <3>4
      <4>2. page[c] \in Pages
        BY <4>1 DEF IInv, PagesKnow, TypeOK
      <4>3. OnItsWay(c, q) => OnItsWay(c, q)'
        BY <1>0, <2>k, <4>1 DEF OnItsWay
      <4> QED BY <3>2, <3>4, <4>1, <4>2, <4>3
    <3> QED BY <1>0, <2>k, <3>1, <3>2, <3>3, <3>4, SessionFrame
  <2>u. \A u : Untold(u)' = Untold(u)
    <3>1. ASSUME NEW u \in calling PROVE Recipient(u)' = Recipient(u)
      <4>1. u # p /\ page'[u] = page[u]
        BY <1>0, <2>s
      <4>2. u \in Servers => handled[u] # i
        BY <2>i, CallerIs
      <4>3. u \notin Servers => page[u] \in Pages /\ page[u] # i
        BY <2>i, CallerIs, IpcAssumption
      <4> QED BY <1>0, <2>s, <4>1, <4>2, <4>3, CallerIs, RecipientFrame DEF SameThreads
    <3> QED BY <1>0, <3>1 DEF Untold
  <2>13. CallersKnow'
    BY <1>0, <2>s, CallersFrame DEF IInv, TypeOK, CallersKnow
  <2>12. RequestsAreCounted'
    <3> SUFFICES ASSUME NEW q \in Processes, Told(q)'
                 PROVE  numReqs'[q] + completedRequests'[q] + Cardinality(Untold(q)')
                          = Unhandled(q)'
      BY <2>1 DEF RequestsAreCounted
    <3>1. Told(q)
      BY <1>0, <2>k, ToldFrame DEF SameThreads
    <3>2. Unhandled(q)' = Unhandled(q)
      <4>1. i \notin clientPages[q]
        BY <2>i, <3>1, HandledBy DEF ServerProcess
      <4>2. \A j \in clientPages[q] : msg'[j] = msg[j]
        BY <2>s, <4>1 DEF IInv, TypeOK
      <4>3. CASE q # p
        <5>1. page[q] # 0 => msg'[page[q]] = msg[page[q]]
          BY <2>s, <2>p, <3>1 DEF IInv, TypeOK, Told, Alive
        <5> QED BY <2>u, <1>0, <2>s, <4>2, <4>3, <5>1, UnhandledFrame
      <4>4. CASE q = p
        <5>1. SentTo(q)' = SentTo(q)
          BY <1>0, <4>2 DEF SentTo
        <5>2. OneIf(page'[q] # 0 /\ msg'[page'[q]] = "answered") = 0
              /\ OneIf(page[q] # 0 /\ msg[page[q]] = "answered") = 0
          BY <2>s, <2>i, <4>4 DEF OneIf
        <5> QED BY <2>u, <1>0, <5>1, <5>2 DEF Unhandled
      <4> QED BY <2>u, <4>3, <4>4
    <3> QED BY <2>u, <1>0, <3>1, <3>2 DEF IInv, RequestsAreCounted
  <2> QED BY <2>1, <2>2, <2>3, <2>4, <2>5, <2>6, <2>7, <2>8, <2>9, <2>10,
             <2>11, <2>12, <2>13 DEF IInv
<1> QED BY <1>a, <1>b DEF NewSharedPage

\* What the client p and the server of the slot s know when p connects to it.
LEMMA ConnectKnows ==
  ASSUME IInv, NEW p \in Clients, NEW s \in Slots, NEW id \in Ids,
         state[p] = "EReady", prog[p] = "connect", servers[s].id = id
  PROVE  /\ page[p] \in Pages /\ page[p] # 0
         /\ mapping[page[p]] = [server |-> 0, owner |-> p]
         /\ msg[page[p]] = "free" /\ pte[p][page[p]] # None
         /\ servers[s].thread \in Servers
         /\ \A c \in Processes : Alive(c) /\ page[c] = page[p] => c = p
         /\ \A q \in Processes : ~Stale(q) => page[p] \notin clientPages[q]
         /\ \A q \in Servers : Alive(q) => delivered[q] # page[p]
<1> USE IpcAssumption DEF Processes
<1> DEFINE i == page[p]
<1>1. Alive(p) /\ i # 0 /\ mapping[i].server = 0 /\ msg[i] = "free"
  BY DEF IInv, PagesKnow, Alive
<1>2. i \in Pages /\ mapping[i].owner = p
  BY <1>1, SessionOf
<1>3. mapping[i] = [server |-> 0, owner |-> p]
  BY <1>1, <1>2 DEF IInv, TypeOK
<1>4. pte[p][i] # None
  BY <1>2 DEF IInv, PagesKnow
<1>5. servers[s].thread \in Servers
  BY DEF IInv, SlotsKnow, NoServer
<1>6. \A c \in Processes : Alive(c) /\ page[c] = i => c = p
  BY <1>1, <1>2, SessionOf
<1>7. ASSUME NEW q \in Processes, ~Stale(q) PROVE i \notin clientPages[q]
  <2>1. CASE q \in Clients
    BY <2>1 DEF IInv, ProgramsKnow
  <2>2. CASE q \in Servers
    <3>1. PICK r \in Slots : servers[r].thread = q
      BY <1>7, <2>2 DEF Stale, IInv, ProgramsKnow
    <3>2. \A j \in clientPages[q] : mapping[j].server = r
      BY <1>7, <2>2, <3>1 DEF IInv, SessionKnows
    <3> QED BY <1>1, <3>2 DEF Slots
  <2> QED BY <2>1, <2>2
<1>8. ASSUME NEW q \in Servers, Alive(q) PROVE delivered[q] # i
  <2>1. InHand(q)
    BY InHandIs DEF IInv
  <2> QED BY <1>1, <1>8, <2>1 DEF InHand, Alive, ServerProcess
<1> QED BY <1>1, <1>2, <1>3, <1>4, <1>5, <1>6, <1>7, <1>8

\* The client's page table is not to be had, after its server was set.
LEMMA NoMemoryKeeps ==
  ASSUME IInv, NEW p \in Clients, NEW s \in Slots, NEW id \in Ids,
         state[p] = "EReady", p \notin calling, prog[p] = "connect", servers[s].id = id,
         ConnectFails(p), mapping' = [mapping EXCEPT ![page[p]].server = s],
         UNCHANGED panic
  PROVE  IInv'
<1> USE IpcAssumption DEF Processes
<1> DEFINE i == page[p]
<1>0. /\ p \in Processes /\ prog' = [prog EXCEPT ![p] = "failed"]
      /\ UNCHANGED << servers, pte, allocated, state, reason, stash,
                      completedRequests, numReqs, page, delivered, clientPages,
                      queued, handled, errored, calling, msg, panic >>
  BY DEF ConnectFails, threadVars, sessionVars
<1>i. /\ i \in Pages /\ i # 0 /\ mapping[i] = [server |-> 0, owner |-> p]
      /\ servers[s].thread \in Servers
      /\ \A c \in Processes : Alive(c) /\ page[c] = i => c = p
      /\ \A q \in Processes : ~Stale(q) => i \notin clientPages[q]
      /\ \A q \in Servers : Alive(q) => delivered[q] # i
  BY ConnectKnows
<1>s. /\ mapping'[i] = [server |-> s, owner |-> p]
      /\ \A j \in Pages : j # i => mapping'[j] = mapping[j]
      /\ \A j \in Pages : mapping'[j].owner = mapping[j].owner
      /\ prog'[p] = "failed" /\ \A u : u # p => prog'[u] = prog[u]
  BY <1>0, <1>i DEF IInv, TypeOK
<1>k. /\ \A u \in Processes : Stale(u)' <=> Stale(u)
      /\ \A u : (Alive(u)' <=> Alive(u)) /\ (Blocked(u)' <=> Blocked(u))
  BY <1>0, <1>s DEF Stale, Alive, Blocked
<1>1. TypeOK'
  <2>1. mapping' \in [Pages -> [server : Slots \cup {0}, owner : Processes \cup {None}]]
    BY <1>i DEF IInv, TypeOK
  <2> QED BY <1>0, <2>1 DEF IInv, TypeOK
<1>2. ProgramsKnow'
  <2>1. \A q \in Servers : q # p /\ prog'[q] = prog[q]
    BY <1>s
  <2>2. \A c \in Clients : prog'[c] \in {"start", "connect", "connected", "failed"}
    BY <1>s DEF IInv, ProgramsKnow
  <2> QED BY <1>0, <2>1, <2>2 DEF IInv, ProgramsKnow
<1>3. SlotsKnow'
  <2>1. ASSUME NEW r \in Slots, NEW j \in Pages, mapping'[j].server = r
        PROVE  servers[r].thread # None
    <3>1. CASE j = i
      BY <1>s, <1>i, <2>1, <3>1
    <3>2. CASE j # i
      BY <1>s, <2>1, <3>2 DEF IInv, SlotsKnow
    <3> QED BY <3>1, <3>2
  <2> QED BY <1>0, <2>1 DEF IInv, SlotsKnow
<1>4. PagesKnow'
  <2>1. ASSUME NEW c \in Clients, Alive(c)
        PROVE  /\ prog'[c] \in {"connect", "connected"} => page[c] # 0
               /\ prog'[c] = "start" => page[c] = 0
               /\ page[c] # 0 => mapping'[page[c]].owner = c
               /\ prog'[c] = "connect" =>
                    mapping'[page[c]].server = 0 /\ msg[page[c]] = "free"
    <3>1. page[c] # 0 => page[c] \in Pages
      BY DEF IInv, TypeOK
    <3>2. prog'[c] = "connect" => c # p /\ page[c] # i
      BY <1>s, <1>i, <2>1
    <3>3. prog'[c] # "failed" => prog'[c] = prog[c]
      BY <1>s
    <3> QED BY <1>s, <2>1, <3>1, <3>2, <3>3 DEF IInv, PagesKnow
  <2> QED BY <1>0, <1>k, <1>s, <2>1 DEF IInv, PagesKnow
<1>5. SharedPagesAreSafe'
  <2>1. \A u \in Processes, j \in Pages :
          u \in {mapping[j].owner, ServerProcess(j)} =>
          u \in {mapping'[j].owner, ServerProcess(j)'}
    <3> SUFFICES ASSUME NEW u \in Processes, NEW j \in Pages,
                        u \in {mapping[j].owner, ServerProcess(j)}
                 PROVE  u \in {mapping'[j].owner, ServerProcess(j)'}
      OBVIOUS
    <3>1. CASE j = i
      BY <1>s, <1>i, <3>1 DEF ServerProcess
    <3>2. CASE j # i
      BY <1>0, <1>s, <3>2 DEF ServerProcess
    <3> QED BY <3>1, <3>2
  <2> QED BY <1>0, <2>1 DEF IInv, SharedPagesAreSafe
<1>6. BlockedKnow'
  BY <1>0, <1>s, <1>k DEF IInv, BlockedKnow, Blocked
<1>7. BlockedClientsAreListed'
  <2>1. \A c \in Processes : Blocked(c) => mapping'[stash[c]] = mapping[stash[c]]
    <3>1. \A c \in Processes : Blocked(c) =>
            stash[c] = page[c] /\ page[c] \in Pages /\ page[c] # i
      BY <1>i DEF IInv, BlockedKnow, PagesKnow, TypeOK, Blocked, Alive
    <3> QED BY <1>s, <3>1
  <2>2. SameBlocked
    BY <1>k DEF SameBlocked, Blocked
  <2>3. \A r \in Slots : Stale(servers[r].thread) => Stale(servers[r].thread)'
    BY <1>0, <1>s DEF Stale
  <2> QED BY <1>0, <2>1, <2>2, <2>3, ListedFrame DEF IInv, SameThreads
<1>8. RequestsKnow'
  BY <1>0, <1>s DEF IInv, RequestsKnow, Alive
<1>9. DeliveryIsInHand'
  <2> SUFFICES (\A q \in Servers : InHand(q))'
    BY DEF DeliveryIsInHand, InHand, Serving
  <2> SUFFICES ASSUME NEW q \in Servers PROVE InHand(q)'
    OBVIOUS
  <2>1. InHand(q)
    BY InHandIs DEF IInv
  <2>2. ASSUME delivered[q] # 0, state[q] # "EDead"
        PROVE  /\ ServerProcess(delivered[q])' = ServerProcess(delivered[q])
               /\ mapping'[delivered[q]].owner = mapping[delivered[q]].owner
    <3>1. delivered[q] \in Pages /\ delivered[q] # i
      BY <1>i, <2>2 DEF IInv, TypeOK, Alive
    <3> QED BY <1>0, <1>s, <3>1 DEF ServerProcess
  <2>3. prog'[q] = prog[q]
    BY <1>s
  <2> QED BY <1>0, <2>1, <2>2, <2>3 DEF InHand
<1>10. WaitersKnow'
  BY <1>0 DEF IInv, WaitersKnow
<1>11. ASSUME NEW r \in Slots PROVE SessionKnows(r)'
  <2> DEFINE q == servers[r].thread
  <2>1. SessionKnows(r) /\ (q # None => q \in Servers /\ q \in Processes /\ prog'[q] = prog[q])
    BY <1>s DEF IInv, SlotsKnow
  <2>2. q # None /\ ~Stale(q) => \A j \in clientPages[q] : mapping'[j].server = mapping[j].server
    BY <1>i, <1>s, <2>1 DEF IInv, TypeOK
  <2>3. ASSUME NEW c \in Clients, Alive(c), prog'[c] = "connected"
        PROVE  /\ prog[c] = "connected" /\ mapping'[page[c]].server = mapping[page[c]].server
    <3>1. c # p /\ prog[c] = "connected"
      BY <1>s, <2>3
    <3>2. page[c] \in Pages /\ page[c] # i
      BY <1>i, <2>3, <3>1 DEF IInv, PagesKnow, TypeOK
    <3> QED BY <1>s, <3>1, <3>2
  <2>4. \A c \in Clients : OnItsWay(c, q) => OnItsWay(c, q)'
    BY <1>0, <1>k DEF OnItsWay
  <2> QED BY <1>0, <1>k, <2>1, <2>2, <2>3, <2>4, SessionFrame
<1>u. \A u : Untold(u)' = Untold(u)
  <2>1. ASSUME NEW u \in calling PROVE Recipient(u)' = Recipient(u)
    BY <1>0, <1>i, <1>s, CallerIs, RecipientFrame DEF SameThreads
  <2> QED BY <1>0, <2>1 DEF Untold
<1>13. CallersKnow'
  BY <1>0, <1>s, CallersFrame DEF IInv, TypeOK, CallersKnow
<1>12. RequestsAreCounted'
  <2> SUFFICES ASSUME NEW q \in Processes, Told(q)'
               PROVE  numReqs'[q] + completedRequests'[q] + Cardinality(Untold(q)')
                          = Unhandled(q)'
    BY <1>1 DEF RequestsAreCounted
  <2>1. Told(q)
    BY <1>0, <1>k, ToldFrame DEF SameThreads
  <2>2. Unhandled(q)' = Unhandled(q)
    BY <1>0, UnhandledFrame
  <2> QED BY <1>u, <1>0, <2>1, <2>2 DEF IInv, RequestsAreCounted
<1> QED BY <1>1, <1>2, <1>3, <1>4, <1>5, <1>6, <1>7, <1>8, <1>9, <1>10, <1>11, <1>12, <1>13 DEF IInv

\* The client p blocks in the list of the slot s.
LEMMA BlockInConnectKeeps ==
  ASSUME IInv, NEW p \in Clients, NEW s \in Slots, NEW id \in Ids,
         state[p] = "EReady", p \notin calling, prog[p] = "connect", servers[s].id = id,
         mapping' = [mapping EXCEPT ![page[p]].server = s],
         pte' = [pte EXCEPT ![servers[s].thread][page[p]] = pte[p][page[p]]],
         BlockInConnect(p, s, page[p]),
         prog' = [prog EXCEPT ![p] = "connected"],
         UNCHANGED << allocated, page, sessionVars, msg, panic >>
  PROVE  IInv'
<1> USE IpcAssumption DEF Processes
<1> DEFINE i == page[p]
           q == servers[s].clients
           blocked == [state EXCEPT ![p] = "EBlockedFromSvc"]
           told == servers[s].ptr
<1> PICK t : t = servers[s].thread
  OBVIOUS
<1>0. /\ p \in Processes
      /\ UNCHANGED << allocated, page, clientPages, queued, handled, errored, calling, msg, panic >>
  BY DEF sessionVars
<1>i. /\ i \in Pages /\ i # 0 /\ mapping[i] = [server |-> 0, owner |-> p]
      /\ msg[i] = "free" /\ pte[p][i] # None
      /\ \A c \in Processes : Alive(c) /\ page[c] = i => c = p
      /\ \A u \in Processes : ~Stale(u) => i \notin clientPages[u]
      /\ \A u \in Servers : Alive(u) => delivered[u] # i
  BY ConnectKnows
<1>t. t \in Servers /\ t \in Processes /\ t # p /\ t \notin Clients
  <2>1. t \in Servers
    BY ConnectKnows
  <2> QED BY <2>1
<1>s. /\ mapping'[i] = [server |-> s, owner |-> p]
      /\ \A j \in Pages : j # i => mapping'[j] = mapping[j]
      /\ \A j \in Pages : mapping'[j].owner = mapping[j].owner
      /\ prog'[p] = "connected" /\ \A u : u # p => prog'[u] = prog[u]
      /\ stash'[p] = i /\ \A u : u # p => stash'[u] = stash[u]
  BY <1>0, <1>i DEF IInv, TypeOK, BlockInConnect
<1>l. /\ ~Contains(q, p)
      /\ servers'[s].clients \in Seq(Processes) /\ Distinct(servers'[s].clients)
      /\ \A u : Contains(servers'[s].clients, u) <=> u = p \/ Contains(q, u)
      /\ servers'[s].ptr = FALSE
      /\ \A r \in Slots : r # s => servers'[r] = servers[r]
      /\ \A r \in Slots : servers'[r].thread = servers[r].thread /\ servers'[r].id = servers[r].id
      /\ servers' \in [Slots -> ServerRecords]
  <2>1. servers[s] \in ServerRecords /\ q \in Seq(Processes)
    BY DEF IInv, TypeOK, ServerRecords
  <2>2. ~Contains(q, p)
    BY InListIs DEF Blocked
  <2>3. Distinct(q)
    <3>1. CASE q = << >>
      BY <3>1 DEF Distinct
    <3>2. CASE q # << >>
      <4>1. Contains(q, q[1])
        BY <2>1, <3>2 DEF Contains
      <4> QED BY <4>1, InListIs
    <3> QED BY <3>1, <3>2
  <2>4. servers' = [servers EXCEPT ![s].clients = Append(q, p), ![s].ptr = FALSE]
    <3>1. (IF q = << >> THEN << p >> ELSE EnqueueBefore(q, p, Head(q))) = Append(q, p)
      <4>1. CASE q = << >>
        BY <4>1
      <4>2. CASE q # << >>
        BY <4>2 DEF EnqueueBefore
      <4> HIDE DEF q
      <4> QED BY <4>1, <4>2
    <3> QED BY <3>1 DEF BlockInConnect
  <2>5. /\ Append(q, p) \in Seq(Processes) /\ Distinct(Append(q, p))
        /\ \A u : Contains(Append(q, p), u) <=> u = p \/ Contains(q, u)
    BY <1>0, <2>1, <2>2, <2>3, AppendIs
  <2>6. [servers[s] EXCEPT !.clients = Append(q, p), !.ptr = FALSE] \in ServerRecords
    BY <2>1, <2>5 DEF ServerRecords
  <2>7. servers' \in [Slots -> ServerRecords]
    BY <2>4, <2>6 DEF IInv, TypeOK
  <2>8. servers'[s].clients = Append(q, p) /\ servers'[s].ptr = FALSE
        /\ servers'[s].thread = servers[s].thread /\ servers'[s].id = servers[s].id
    BY <2>1, <2>4 DEF ServerRecords, IInv, TypeOK
  <2>9. \A r \in Slots : r # s => servers'[r] = servers[r]
    BY <2>4 DEF IInv, TypeOK
  <2> QED BY <2>2, <2>5, <2>7, <2>8, <2>9
<1>b. /\ blocked \in [Processes -> States]
      /\ blocked[p] = "EBlockedFromSvc" /\ \A u : u # p => blocked[u] = state[u]
  BY <1>0 DEF IInv, TypeOK, States
<1>g. /\ state' \in [Processes -> States]
      /\ completedRequests' \in [Processes -> Nat]
      /\ numReqs' \in [Processes -> Nat]
      /\ state'[p] = "EBlockedFromSvc"
      /\ \A u \in Processes : u # p =>
           state'[u] = state[u] \/ (state[u] = "EWaitForRequest" /\ state'[u] = "EReady")
      /\ \A u \in Processes : state'[u] = "EWaitForRequest" => numReqs'[u] = numReqs[u]
      /\ \A u \in Processes : u # t =>
           numReqs'[u] = numReqs[u] /\ completedRequests'[u] = completedRequests[u]
      /\ numReqs'[t] + completedRequests'[t]
           = numReqs[t] + completedRequests[t] + OneIf(told)
  <2>1. CASE told
    <3>1. Signal(t, blocked, numReqs)
      BY <2>1 DEF BlockInConnect, Deliver
    <3>2. blocked[t] = "EWaitForRequest" => numReqs[t] = 0
      BY <1>b, <1>t DEF IInv, WaitersKnow
    <3>3. TypeOK /\ numReqs \in [Processes -> Nat]
      BY DEF IInv, TypeOK
    <3>4. Signalled(t, blocked, numReqs)
      <4> HIDE DEF blocked
      <4> QED BY <1>b, <1>t, <3>1, <3>2, <3>3, SignalIs
    <3> HIDE DEF blocked
    <3> QED BY <1>b, <1>0, <1>t, <2>1, <3>4 DEF Signalled, OneIf
  <2>2. CASE ~told
    <3>1. state' = blocked /\ numReqs' = numReqs /\ completedRequests' = completedRequests
      BY <2>2 DEF BlockInConnect
    <3>2. numReqs \in [Processes -> Nat] /\ completedRequests \in [Processes -> Nat]
      BY DEF IInv, TypeOK
    <3>3. numReqs[t] + completedRequests[t] = numReqs[t] + completedRequests[t] + OneIf(told)
      BY <1>t, <2>2, <3>2 DEF OneIf
    <3> HIDE DEF blocked
    <3> QED BY <1>b, <3>1, <3>2, <3>3
  <2> QED BY <2>1, <2>2
<1>r. /\ told => reason'[p] = "EBlockedInServerConnect"
      /\ ~told => reason'[p] = "EBlockedWaitingForServerConnect"
      /\ \A u : u # p => reason'[u] = reason[u]
  <2>1. CASE told
    <3>1. reason' = [reason EXCEPT ![p] = "EBlockedInServerConnect"]
      BY <2>1 DEF BlockInConnect
    <3> QED BY <1>0, <2>1, <3>1 DEF IInv, TypeOK
  <2>2. CASE ~told
    <3>1. reason' = [reason EXCEPT ![p] = "EBlockedWaitingForServerConnect"]
      BY <2>2 DEF BlockInConnect
    <3> QED BY <1>0, <2>2, <3>1 DEF IInv, TypeOK
  <2> QED BY <2>1, <2>2
<1>d. /\ told /\ ~Stale(t) => delivered[t] = 0 /\ delivered'[t] = i
      /\ told /\ Stale(t) => delivered' = delivered
      /\ ~told => delivered' = delivered
      /\ \A u : u # t => delivered'[u] = delivered[u]
      /\ delivered' \in [Processes -> Pages \cup {0}]
  <2>1. ASSUME told, ~Stale(t) PROVE delivered[t] = 0
    <3>1. Alive(t) /\ prog[t] # "request"
      BY <1>t, <2>1 DEF Stale, Alive, IInv, RequestsKnow
    <3>2. prog[t] \in {"loop", "requeue"} /\ InHand(t)
      BY <1>t, <2>1, <3>1, InHandIs DEF Stale, IInv
    <3> QED BY <2>1, <3>1, <3>2 DEF InHand, Alive
  <2>2. CASE told
    <3>1. delivered' = IF Stale(t) THEN delivered ELSE [delivered EXCEPT ![t] = i]
      BY <2>2 DEF BlockInConnect, Deliver
    <3> QED BY <1>t, <1>i, <2>1, <2>2, <3>1 DEF IInv, TypeOK
  <2>3. CASE ~told
    BY <2>3 DEF BlockInConnect, IInv, TypeOK
  <2> QED BY <2>2, <2>3
<1>k. /\ \A u \in Processes : (Stale(u)' <=> Stale(u)) /\ (Alive(u)' <=> Alive(u))
      /\ \A u \in Processes : u # p => (Blocked(u)' <=> Blocked(u))
      /\ Blocked(p)' /\ ~Blocked(p) /\ Alive(p)
      /\ \A u \in Clients : u \in Processes /\ u # t
  BY <1>0, <1>g, <1>s, <1>t DEF States, Stale, Alive, Blocked
<1> HIDE DEF q, blocked, told
<1>1. TypeOK'
  <2>1. mapping' \in [Pages -> [server : Slots \cup {0}, owner : Processes \cup {None}]]
    BY <1>i DEF IInv, TypeOK
  <2>2. pte' \in [Processes -> [Pages -> Frames \cup {None}]]
    <3>1. pte[p][i] \in Frames \cup {None}
      BY <1>0, <1>i DEF IInv, TypeOK
    <3> QED BY <1>t, <1>i, <3>1 DEF IInv, TypeOK
  <2>3. stash' \in [Processes -> Pages \cup {0}]
    BY <1>i DEF BlockInConnect, IInv, TypeOK
  <2>4. reason' \in [Processes -> {"none", "EBlockedWaitingForServerConnect",
                                   "EBlockedInServerConnect"}]
    <3>1. \E v \in {"EBlockedWaitingForServerConnect", "EBlockedInServerConnect"} :
            reason' = [reason EXCEPT ![p] = v]
      BY DEF BlockInConnect
    <3>2. reason \in [Processes -> {"none", "EBlockedWaitingForServerConnect",
                                    "EBlockedInServerConnect"}]
      BY DEF IInv, TypeOK
    <3> QED BY <3>1, <3>2
  <2>5. prog' \in [Processes -> {"start", "request", "loop", "requeue",
                                 "connect", "connected", "failed"}]
    BY DEF IInv, TypeOK
  <2>6. /\ servers' \in [Slots -> ServerRecords] /\ state' \in [Processes -> States]
        /\ completedRequests' \in [Processes -> Nat] /\ numReqs' \in [Processes -> Nat]
        /\ delivered' \in [Processes -> Pages \cup {0}]
    BY <1>l, <1>g, <1>d
  <2> QED BY <1>0, <2>1, <2>2, <2>3, <2>4, <2>5, <2>6 DEF IInv, TypeOK, States
<1>2. ProgramsKnow'
  <2>1. \A u \in Servers : u # p /\ prog'[u] = prog[u]
    BY <1>s
  <2>2. \A c \in Clients : prog'[c] \in {"start", "connect", "connected", "failed"}
                           /\ delivered'[c] = delivered[c]
    BY <1>s, <1>d, <1>k DEF IInv, ProgramsKnow
  <2>3. \A u : (\E r \in Slots : servers[r].thread = u) => \E r \in Slots : servers'[r].thread = u
    BY <1>l
  <2>4. ASSUME NEW u \in Servers
        PROVE  /\ prog'[u] \in {"start", "request", "loop", "requeue", "failed"}
               /\ page'[u] = 0
               /\ prog'[u] \in {"start", "failed"} => clientPages'[u] = {} /\ queued'[u] = {}
               /\ prog'[u] \in {"request", "loop", "requeue"} =>
                    \E r \in Slots : servers'[r].thread = u
    BY <1>0, <2>1, <2>3 DEF IInv, ProgramsKnow
  <2>5. ASSUME NEW c \in Clients PROVE delivered'[c] = 0 /\ clientPages'[c] = {}
    BY <1>0, <2>2 DEF IInv, ProgramsKnow
  <2> QED BY <2>2, <2>4, <2>5 DEF ProgramsKnow
<1>3. SlotsKnow'
  <2>1. ASSUME NEW r \in Slots, NEW j \in Pages, mapping'[j].server = r
        PROVE  servers[r].thread # None
    <3>1. CASE j = i
      BY <1>s, <1>t, <2>1, <3>1
    <3>2. CASE j # i
      BY <1>s, <2>1, <3>2 DEF IInv, SlotsKnow
    <3> QED BY <3>1, <3>2
  <2>2. \A r \in Slots : servers[r].thread = None => servers'[r] = servers[r]
    BY <1>l, <1>t
  <2>3. \A r \in Slots : servers'[r].thread = servers[r].thread /\ servers'[r].id = servers[r].id
    BY <1>l
  <2> QED BY <2>1, <2>2, <2>3 DEF IInv, SlotsKnow
<1>4. PagesKnow'
  <2>1. ASSUME NEW c \in Clients, Alive(c)
        PROVE  /\ prog'[c] \in {"connect", "connected"} => page[c] # 0
               /\ prog'[c] = "start" => page[c] = 0
               /\ page[c] # 0 => mapping'[page[c]].owner = c
               /\ prog'[c] = "connect" =>
                    mapping'[page[c]].server = 0 /\ msg[page[c]] = "free"
    <3>1. page[c] # 0 => page[c] \in Pages
      BY DEF IInv, TypeOK
    <3>2. prog'[c] = "connect" => c # p /\ page[c] # i
      BY <1>s, <1>i, <2>1
    <3>3. c # p => prog'[c] = prog[c]
      BY <1>s
    <3> QED BY <1>s, <1>i, <2>1, <3>1, <3>2, <3>3 DEF IInv, PagesKnow
  <2>2. \A c \in Clients : pte'[c] = pte[c]
    BY <1>t, <1>k DEF IInv, TypeOK
  <2>3. ASSUME NEW j \in Pages, NEW c, c = mapping'[j].owner, c # None
        PROVE  c \in Clients /\ Alive(c)' /\ page[c] = j /\ pte'[c][j] # None
    <3>1. c = mapping[j].owner
      BY <1>s, <2>3
    <3>2. c \in Clients /\ Alive(c) /\ page[c] = j /\ pte[c][j] # None
      BY <2>3, <3>1 DEF IInv, PagesKnow
    <3> QED BY <1>k, <2>2, <3>2
  <2> QED BY <1>0, <1>k, <2>1, <2>3 DEF PagesKnow
<1>5. SharedPagesAreSafe'
  <2>1. \A u \in Processes, j \in Pages :
          u \in {mapping[j].owner, ServerProcess(j)} =>
          u \in {mapping'[j].owner, ServerProcess(j)'}
    <3> SUFFICES ASSUME NEW u \in Processes, NEW j \in Pages,
                        u \in {mapping[j].owner, ServerProcess(j)}
                 PROVE  u \in {mapping'[j].owner, ServerProcess(j)'}
      OBVIOUS
    <3>1. CASE j = i
      BY <1>s, <1>i, <3>1 DEF ServerProcess
    <3>2. CASE j # i
      <4>1. mapping[j].server \in Slots \cup {0}
        BY DEF IInv, TypeOK
      <4> QED BY <1>l, <1>s, <3>2, <4>1 DEF ServerProcess
    <3> QED BY <3>1, <3>2
  <2>2. ServerProcess(i)' = t
    BY <1>s, <1>l DEF ServerProcess, Slots
  <2>3. \A u \in Processes, j \in Pages :
          pte'[u][j] = IF u = t /\ j = i THEN pte[p][i] ELSE pte[u][j]
    BY <1>t, <1>i DEF IInv, TypeOK
  <2> SUFFICES ASSUME NEW u \in Processes, NEW v \in Processes,
                      NEW k \in Pages, NEW j \in Pages, pte'[u][k] # None
               PROVE  /\ pte'[u][k] \in allocated'
                      /\ u \in {mapping'[k].owner, ServerProcess(k)'}
                      /\ pte'[v][j] = pte'[u][k] => k = j
                      /\ k = j => pte'[v][j] \in {pte'[u][k], None}
    BY DEF SharedPagesAreSafe
  <2>5. PICK x \in Processes : pte'[u][k] = pte[x][k] /\ (x # u => k = i /\ u = t)
    BY <1>0, <2>3
  <2>6. PICK y \in Processes : pte'[v][j] = pte[y][j]
    BY <1>0, <2>3
  <2>7. /\ pte[x][k] \in allocated /\ x \in {mapping[k].owner, ServerProcess(k)}
        /\ pte[y][j] = pte[x][k] => k = j
        /\ k = j => pte[y][j] \in {pte[x][k], None}
    BY <2>5 DEF IInv, SharedPagesAreSafe
  <2> QED BY <1>0, <2>1, <2>2, <2>5, <2>6, <2>7
<1>6. BlockedKnow'
  <2>1. stash'[p] = page[p] /\ msg[page[p]] = "free" /\ prog'[p] = "connected"
    BY <1>s, <1>i
  <2>2. \A u \in Processes : u # p => stash'[u] = stash[u] /\ prog'[u] = prog[u]
                                      /\ (Blocked(u)' <=> Blocked(u))
    BY <1>s, <1>k
  <2> QED BY <1>0, <2>1, <2>2 DEF IInv, BlockedKnow
<1>7. BlockedClientsAreListed'
  <2> SUFFICES ASSUME NEW c \in Processes PROVE Listed(c)'
    BY DEF BlockedClientsAreListed, Listed, Lists
  <2>0. Listed(c)
    BY ListedIs DEF IInv
  <2>1. CASE c = p
    <3>1. Lists(p) = {}
      BY <2>0, <2>1, <1>k DEF Listed, Blocked
    <3>2. Lists(p)' = {s}
      BY <1>l, <3>1 DEF Lists
    <3>3. /\ state'[c] = "EBlockedFromSvc" /\ mapping'[stash'[c]].owner = c
          /\ mapping'[stash'[c]].server = s /\ Distinct(servers'[s].clients)
      <4>1. stash'[p] = i /\ mapping'[i].owner = p /\ mapping'[i].server = s
        BY <1>s
      <4>2. state'[p] = "EBlockedFromSvc" /\ Distinct(servers'[s].clients)
        BY <1>g, <1>l
      <4> QED BY <2>1, <4>1, <4>2
    <3> QED BY <2>1, <3>2, <3>3 DEF Listed
  <2>2. CASE c # p
    <3>1. \A r \in Slots : Contains(servers'[r].clients, c) <=> Contains(servers[r].clients, c)
      BY <1>l, <2>2 DEF q
    <3>2. Lists(c)' = Lists(c)
      BY <3>1 DEF Lists
    <3>3. CASE ~Blocked(c)
      BY <1>k, <2>0, <2>2, <3>2, <3>3 DEF Listed, Blocked
    <3>4. CASE Blocked(c)
      <4>1. PICK r \in Slots :
              /\ Lists(c) = {r} /\ Distinct(servers[r].clients)
              /\ mapping[stash[c]].server # r =>
                   mapping[stash[c]].server = 0 /\ Stale(servers[r].thread)
        BY <2>0, <3>4 DEF Listed, Blocked
      <4>2. mapping[stash[c]].owner = c /\ mapping'[stash[c]] = mapping[stash[c]]
        <5>1. stash[c] = page[c] /\ page[c] \in Pages /\ page[c] # i
          BY <1>i, <2>2, <3>4 DEF IInv, BlockedKnow, PagesKnow, TypeOK, Blocked, Alive
        <5> QED BY <1>s, <2>0, <3>4, <5>1 DEF Listed, Blocked
      <4>3. Distinct(servers'[r].clients)
        BY <1>l, <4>1
      <4>4. Stale(servers[r].thread) => Stale(servers[r].thread)'
        <5>1. servers[r].thread \in Processes
          <6>1. Contains(servers[r].clients, c)
            BY <4>1 DEF Lists
          <6> QED BY <6>1 DEF IInv, SlotsKnow, NoServer, Contains
        <5> QED BY <1>l, <1>k, <5>1
      <4>5. stash'[c] = stash[c] /\ state'[c] = "EBlockedFromSvc"
        BY <1>s, <1>k, <2>2, <3>4 DEF Blocked
      <4> QED BY <3>2, <4>1, <4>2, <4>3, <4>4, <4>5 DEF Listed
    <3> QED BY <3>3, <3>4
  <2> QED BY <2>1, <2>2
<1>8. RequestsKnow'
  <2>1. \A u \in Servers : prog'[u] = prog[u] /\ (Alive(u)' <=> Alive(u))
    BY <1>s, <1>k
  <2> QED BY <1>l, <2>1 DEF IInv, RequestsKnow
<1>9. DeliveryIsInHand'
  <2> SUFFICES (\A u \in Servers : InHand(u))'
    BY DEF DeliveryIsInHand, InHand, Serving
  <2> SUFFICES ASSUME NEW u \in Servers, Alive(u)
               PROVE  /\ delivered'[u] # 0 =>
                           /\ prog[u] \in {"loop", "requeue"}
                           /\ ServerProcess(delivered[u])' = u
                           /\ mapping'[delivered'[u]].owner \in Clients
                           /\ state'[mapping'[delivered'[u]].owner] = "EBlockedFromSvc"
                           /\ reason'[mapping'[delivered'[u]].owner]
                                = "EBlockedInServerConnect"
                      /\ prog[u] \in {"loop", "requeue"} =>
                           \A r \in Slots :
                             servers'[r].thread = u => (servers'[r].ptr <=> delivered'[u] = 0)
    BY <1>s, <1>k DEF InHand, Alive
  <2>1. InHand(u)
    BY InHandIs DEF IInv
  <2>2. CASE u = t /\ told /\ ~Stale(t)
    <3>1. delivered'[u] = i /\ prog[u] \in {"loop", "requeue"}
      <4>1. prog[u] # "request"
        BY <2>2 DEF IInv, RequestsKnow, told
      <4> QED BY <1>d, <2>2, <4>1 DEF Stale
    <3>2. ServerProcess(delivered[u])' = u
      BY <1>s, <1>l, <2>2, <3>1 DEF ServerProcess, Slots
    <3>3. \A r \in Slots : servers'[r].thread = u => r = s
      BY <1>l, <1>t, <2>2, OneSlot DEF IInv
    <3> QED BY <1>s, <1>l, <1>g, <1>r, <1>i, <2>2, <3>1, <3>2, <3>3
  <2>3. CASE ~(u = t /\ told /\ ~Stale(t))
    <3>1. delivered'[u] = delivered[u]
      BY <1>d, <2>3
    <3>2. ASSUME delivered[u] # 0
          PROVE  /\ ServerProcess(delivered[u])' = ServerProcess(delivered[u])
                 /\ mapping'[delivered[u]].owner = mapping[delivered[u]].owner
      <4>1. delivered[u] \in Pages /\ delivered[u] # i
        BY <1>i, <3>2 DEF IInv, TypeOK
      <4>2. mapping[delivered[u]].server \in Slots \cup {0}
        BY <4>1 DEF IInv, TypeOK
      <4> QED BY <1>s, <1>l, <3>1, <4>1, <4>2 DEF ServerProcess
    <3>3. ASSUME NEW c \in Clients, state[c] = "EBlockedFromSvc",
                 reason[c] = "EBlockedInServerConnect"
          PROVE  state'[c] = "EBlockedFromSvc" /\ reason'[c] = "EBlockedInServerConnect"
      BY <1>k, <1>r, <3>3 DEF Blocked
    <3>4. ASSUME prog[u] \in {"loop", "requeue"}, NEW r \in Slots, servers'[r].thread = u
          PROVE  servers'[r].ptr <=> delivered[u] = 0
      <4>1. servers[r].thread = u
        BY <1>l, <3>4
      <4>2. servers[r].ptr <=> delivered[u] = 0
        BY <2>1, <3>4, <4>1 DEF InHand, Alive
      <4>3. CASE r = s
        <5>1. ~told
          BY <2>3, <3>4, <4>1, <4>3 DEF Stale, Alive
        <5> QED BY <1>l, <4>2, <4>3, <5>1 DEF told
      <4>4. CASE r # s
        BY <1>l, <4>2, <4>4
      <4> QED BY <4>3, <4>4
    <3> QED BY <2>1, <3>1, <3>2, <3>3, <3>4 DEF InHand, Alive
  <2> QED BY <2>2, <2>3
<1>10. WaitersKnow'
  <2>1. \A u \in Processes : state'[u] = "EWaitForRequest" => state[u] = "EWaitForRequest"
    BY <1>g
  <2> QED BY <1>g, <2>1 DEF IInv, WaitersKnow
<1>11. ASSUME NEW r \in Slots PROVE SessionKnows(r)'
  <2> DEFINE v == servers[r].thread
  <2>1. SessionKnows(r) /\ (v # None => v \in Servers /\ v \in Processes /\ prog'[v] = prog[v])
    BY <1>s DEF IInv, SlotsKnow
  <2>2. v # None /\ ~Stale(v) => \A j \in clientPages[v] : mapping'[j].server = mapping[j].server
    BY <1>i, <1>s, <2>1 DEF IInv, TypeOK
  <2>3. ASSUME NEW c \in Clients, Alive(c), prog'[c] = "connected", c # p
        PROVE  /\ prog[c] = "connected" /\ mapping'[page[c]].server = mapping[page[c]].server
               /\ page[c] # 0 /\ c \in Processes
    <3>1. prog[c] = "connected"
      BY <1>s, <2>3
    <3>2. page[c] \in Pages /\ page[c] # i /\ page[c] # 0
      BY <1>i, <2>3, <3>1 DEF IInv, PagesKnow, TypeOK
    <3> QED BY <1>s, <3>1, <3>2
  <2>4. CASE r = s /\ ~Stale(t)
    <3>1. v = t
      BY <2>4
    <3>2. OnItsWay(p, t)'
      <4>1. reason'[p] = "EBlockedInServerConnect" => delivered'[t] = i
        BY <1>r, <1>d, <2>4
      <4> QED BY <1>0, <1>k, <1>l, <4>1 DEF OnItsWay
    <3>3. ASSUME NEW c \in Clients, Alive(c), prog'[c] = "connected", c # p, OnItsWay(c, t)
          PROVE  OnItsWay(c, t)'
      <4>1. Blocked(c)' /\ reason'[c] = reason[c] /\ page[c] # 0
        BY <1>k, <1>r, <2>3, <3>3 DEF OnItsWay
      <4>2. reason[c] = "EBlockedInServerConnect" => delivered'[t] = page[c]
        BY <1>d, <2>4, <3>3, <4>1 DEF OnItsWay
      <4> QED BY <1>0, <1>l, <4>1, <4>2 DEF OnItsWay
    <3>4. /\ \A j \in clientPages[t] : mapping[j].server = s
          /\ queued[t] \subseteq clientPages[t]
          /\ prog[t] = "requeue" => handled[t] \in clientPages[t]
          /\ \A c \in Clients :
               /\ Alive(c) /\ prog[c] = "connected"
               /\ mapping[page[c]].server = s /\ ~OnItsWay(c, t)
               => page[c] \in clientPages[t]
      BY <1>t, <2>1, <2>4 DEF SessionKnows
    <3>5. \A c \in Clients : Alive(c)' <=> Alive(c)
      BY <1>k
    <3>6. servers'[s].thread = t
      BY <1>l
    <3> SUFFICES /\ \A j \in clientPages'[t] : mapping'[j].server = s
                 /\ queued'[t] \subseteq clientPages'[t]
                 /\ prog'[t] = "requeue" => handled'[t] \in clientPages'[t]
                 /\ \A c \in Clients :
                      /\ Alive(c)' /\ prog'[c] = "connected"
                      /\ mapping'[page'[c]].server = s /\ ~OnItsWay(c, t)'
                      => page'[c] \in clientPages'[t]
      BY <2>4, <3>6 DEF SessionKnows, Alive, OnItsWay, Blocked
    <3>7. ASSUME NEW c \in Clients, Alive(c)', prog'[c] = "connected",
                 mapping'[page'[c]].server = s, ~OnItsWay(c, t)'
          PROVE  page'[c] \in clientPages'[t]
      <4>1. c # p
        BY <3>2, <3>7
      <4> QED BY <1>0, <2>3, <3>3, <3>4, <3>5, <3>7, <4>1
    <3> QED BY <1>0, <1>t, <2>1, <2>2, <2>4, <3>1, <3>4, <3>7
  <2>5. CASE r = s /\ Stale(t)
    BY <1>l, <1>k, <1>t, <2>5 DEF SessionKnows
  <2>6. CASE r # s
    <3>1. v # None => v # t
      BY <1>t, <2>6, OneSlot DEF IInv
    <3>2. v # None => delivered'[v] = delivered[v]
      BY <1>d, <3>1
    <3>3. ASSUME NEW c \in Clients, Alive(c)', prog'[c] = "connected",
                 mapping'[page'[c]].server = r, v # None
          PROVE  /\ Alive(c) /\ prog[c] = "connected" /\ page'[c] = page[c]
                 /\ mapping[page[c]].server = r
                 /\ OnItsWay(c, v) => OnItsWay(c, v)'
      <4>1. c # p /\ Alive(c) /\ page'[c] = page[c]
        BY <1>0, <1>s, <1>k, <2>6, <3>3
      <4>2. OnItsWay(c, v) => OnItsWay(c, v)'
        BY <1>0, <1>l, <1>k, <1>r, <3>2, <3>3, <4>1 DEF OnItsWay
      <4> QED BY <2>3, <3>3, <4>1, <4>2
    <3> QED BY <1>0, <1>l, <1>k, <2>1, <2>2, <3>3, SessionFrame
  <2> QED BY <2>4, <2>5, <2>6
<1>u. \A u : Untold(u)' = Untold(u)
  <2>1. ASSUME NEW u \in calling PROVE Recipient(u)' = Recipient(u)
    BY <1>0, <1>i, <1>s, <1>l, CallerIs, RecipientFrame DEF SameThreads
  <2> QED BY <1>0, <2>1 DEF Untold
<1>13. CallersKnow'
  BY <1>0, <1>s, <1>g, CallersFrame DEF IInv, TypeOK, CallersKnow
<1>12. RequestsAreCounted'
  <2> SUFFICES ASSUME NEW u \in Processes, Told(u)'
               PROVE  numReqs'[u] + completedRequests'[u] + Cardinality(Untold(u)')
                          = Unhandled(u)'
    BY <1>1 DEF RequestsAreCounted
  <2>1. Told(u)
    <3>1. state'[u] \notin {"EDying", "EDead"} => state[u] \notin {"EDying", "EDead"}
      BY <1>g
    <3> QED BY <1>u, <1>0, <1>k, <1>l, <3>1, ToldFrame DEF SameThreads
  <2>2. numReqs[u] + completedRequests[u] + Cardinality(Untold(u)) = Unhandled(u)
    BY <2>1 DEF IInv, RequestsAreCounted
  <2>t. /\ Cardinality(SentTo(u)) \in Nat /\ numReqs[u] \in Nat
        /\ completedRequests[u] \in Nat
    BY SentIsFinite DEF IInv, TypeOK
  <2>3. CASE u = t /\ told
    <3>1. ~Stale(t)
      <4>1. s \in Serving(t)
        BY DEF Serving
      <4> QED BY <1>u, <2>1, <2>3, <4>1 DEF Told
    <3>2. SentTo(u)' = SentTo(u)
      BY <1>0 DEF SentTo
    <3>3. delivered[u] = 0 /\ delivered'[u] = i
      BY <1>d, <2>3, <3>1
    <3>4. Unhandled(u)' = Unhandled(u) + 1 /\ Unhandled(u) \in Nat
      BY <1>0, <1>i, <2>t, <3>2, <3>3 DEF Unhandled, OneIf
    <3>5. OneIf(told) = 1
      BY <2>3 DEF OneIf
    <3>6. Cardinality(Untold(u)) \in Nat /\ Cardinality(Untold(u)') = Cardinality(Untold(u))
      BY <1>u, SentIsFinite DEF IInv
    <3>7. numReqs'[u] \in Nat /\ completedRequests'[u] \in Nat
      BY <1>g
    <3>8. numReqs'[u] + completedRequests'[u] = numReqs[u] + completedRequests[u] + 1
      BY <1>g, <2>3, <3>5
    <3> QED BY <2>2, <2>t, <3>4, <3>6, <3>7, <3>8
  <2>4. CASE ~(u = t /\ told)
    <3>1. delivered'[u] = delivered[u]
      BY <1>d, <2>4
    <3>2. Unhandled(u)' = Unhandled(u)
      BY <1>0, <3>1, UnhandledFrame
    <3>3. u = t => OneIf(told) = 0
      BY <2>4 DEF OneIf
    <3>4. numReqs'[u] + completedRequests'[u] = numReqs[u] + completedRequests[u]
      BY <1>g, <2>t, <3>3
    <3> QED BY <1>u, <2>2, <3>2, <3>4
  <2> QED BY <1>u, <2>3, <2>4
<1> QED BY <1>1, <1>2, <1>3, <1>4, <1>5, <1>6, <1>7, <1>8, <1>9, <1>10, <1>11, <1>12, <1>13 DEF IInv

LEMMA ConnectKeeps ==
  ASSUME IInv, NEW p \in Clients, NEW id \in Ids, Connect(p, id) \/ ConnectStops(p, id)
  PROVE  IInv'
<1> USE IpcAssumption DEF Processes
<1>1. state[p] = "EReady" /\ p \notin calling /\ prog[p] = "connect"
  BY DEF Connect, ConnectStops, Running
<1>a. CASE ConnectStops(p, id)
  BY <1>a, StopKeeps DEF ConnectStops, Stop
<1>b. CASE Connect(p, id) /\ ConnectFails(p) /\ UNCHANGED mapping
  <2>1. UNCHANGED panic
    BY <1>b DEF ConnectFails
  <2> QED BY <1>1, <1>b, <2>1, FailsKeeps DEF ConnectFails, kernelVars
<1>c. CASE /\ ConnectFails(p)
           /\ \E s \in Slots : /\ IsFirst(s, Named(id))
                               /\ mapping' = [mapping EXCEPT ![page[p]].server = s]
  <2>1. UNCHANGED panic
    BY <1>c DEF ConnectFails
  <2>2. PICK s \in Slots : /\ servers[s].id = id
                           /\ mapping' = [mapping EXCEPT ![page[p]].server = s]
    BY <1>c DEF IsFirst, Named
  <2> QED BY <1>1, <1>c, <2>1, <2>2, NoMemoryKeeps
<1>d. CASE \E s \in Slots :
             LET i == page[p]
                 dest == servers[s].thread
             IN
             /\ IsFirst(s, Named(id)) /\ pte[dest][i] = None
             /\ servers[s].ptr => state[dest] # "EDead"
             /\ mapping' = [mapping EXCEPT ![i].server = s]
             /\ pte' = [pte EXCEPT ![dest][i] = pte[p][i]]
             /\ BlockInConnect(p, s, i)
             /\ prog' = [prog EXCEPT ![p] = "connected"]
             /\ UNCHANGED << allocated, page, sessionVars, msg, panic >>
  <2>1. PICK s \in Slots :
          /\ servers[s].id = id
          /\ mapping' = [mapping EXCEPT ![page[p]].server = s]
          /\ pte' = [pte EXCEPT ![servers[s].thread][page[p]] = pte[p][page[p]]]
          /\ BlockInConnect(p, s, page[p])
          /\ prog' = [prog EXCEPT ![p] = "connected"]
          /\ UNCHANGED << allocated, page, sessionVars, msg, panic >>
    BY <1>d DEF IsFirst, Named
  <2> QED BY <1>1, <2>1, BlockInConnectKeeps
<1> QED BY <1>a, <1>b, <1>c, <1>d DEF Connect

-----------------------------------------------------------------------------
(* The theorems.                                                           *)

LEMMA InitHolds == Init => IInv
<1> SUFFICES ASSUME Init PROVE IInv
  OBVIOUS
<1> USE IpcAssumption DEF Processes
<1>1. TypeOK
  <2>1. NoServer \in ServerRecords
    BY DEF NoServer, ServerRecords
  <2> QED BY <2>1 DEF Init, TypeOK
<1>2. ProgramsKnow /\ PagesKnow /\ BlockedKnow /\ RequestsKnow /\ WaitersKnow
  BY DEF Init, ProgramsKnow, PagesKnow, BlockedKnow, Blocked, Alive, RequestsKnow,
         WaitersKnow, NoServer
<1>3. SlotsKnow
  BY DEF Init, SlotsKnow, NoServer, Slots
<1>4. SharedPagesAreSafe
  BY DEF Init, SharedPagesAreSafe
<1>5. BlockedClientsAreListed
  BY DEF Init, BlockedClientsAreListed, NoServer, Contains
<1>6. DeliveryIsInHand
  BY DEF Init, DeliveryIsInHand
<1>7. \A s \in Slots : SessionKnows(s)
  BY DEF Init, SessionKnows, NoServer
<1>8. RequestsAreCounted
  <2>1. \A p \in Processes : SentTo(p) = {}
    BY DEF Init, SentTo
  <2>2. \A p \in Processes : Unhandled(p) = 0
    <3> SUFFICES ASSUME NEW p \in Processes PROVE Unhandled(p) = 0
      OBVIOUS
    <3>1. Cardinality(SentTo(p)) = 0 /\ delivered[p] = 0 /\ page[p] = 0
      BY <2>1, FS_EmptySet DEF Init
    <3> QED BY <3>1 DEF Unhandled, OneIf
  <2>3. \A p \in Processes : Cardinality(Untold(p)) = 0
    <3>1. \A p \in Processes : Untold(p) = {}
      BY DEF Init, Untold
    <3> QED BY <3>1, FS_EmptySet
  <2> QED BY <1>1, <2>2, <2>3 DEF Init, RequestsAreCounted
<1>9. CallersKnow
  BY DEF Init, CallersKnow
<1> QED BY <1>1, <1>2, <1>3, <1>4, <1>5, <1>6, <1>7, <1>8, <1>9 DEF IInv

\* Every step keeps the invariant.
LEMMA NextKeeps ==
  ASSUME IInv, [Next]_vars
  PROVE  IInv'
<1>1. ASSUME NEW p \in Servers, ServerStep(p) PROVE IInv'
  <2>1. p \in Processes
    BY DEF Processes
  <2> QED BY <1>1, <2>1, CreateServerKeeps, RequestServerMsgKeeps, HandleServerMsgKeeps,
             CompleteKeeps, CompleteSvcKeeps, RequeueKeeps, ThreadKeeps DEF ServerStep
<1>2. ASSUME NEW p \in Clients, ClientStep(p) PROVE IInv'
  <2>1. p \in Processes
    BY DEF Processes
  <2> QED BY <1>2, <2>1, NewSharedPageKeeps, ConnectKeeps, SendKeeps, SendSvcKeeps, MsgCompletedKeeps,
             ThreadKeeps DEF ClientStep
<1>3. ASSUME NEW p \in Processes, Exit(p) \/ Cleanup(p) \/ Start(p) PROVE IInv'
  BY <1>3, ThreadKeeps, CleanupKeeps, StartKeeps
<1>4. CASE UNCHANGED vars
  <2>1. UNCHANGED << kernelVars, threadVars, userVars >> /\ UNCHANGED panic
    BY <1>4 DEF vars
  <2>2. panic' \in {"none", "alreadyMapped", "badUserPtr", "nullServer",
                    "nullRecipient", "freedUnmapped"}
    BY <2>1 DEF IInv, TypeOK
  <2> QED BY <2>1, <2>2, StopKeeps
<1> QED BY <1>1, <1>2, <1>3, <1>4 DEF Next

\* Every reachable state satisfies the invariant.
THEOREM Inductive == Spec => []IInv
BY InitHolds, NextKeeps, PTL DEF Spec

\* Shared pages are mapped only by their owner and their server's process, and
\* no page is in use twice.
THEOREM PagesSafe == Spec => []SharedPagesAreSafe
<1>1. IInv => SharedPagesAreSafe
  BY DEF IInv
<1> QED BY <1>1, Inductive, PTL

\* The clients that block in connect are those in the servers' lists.
THEOREM ClientsListed == Spec => []BlockedClientsAreListed
<1>1. IInv => BlockedClientsAreListed
  BY DEF IInv
<1> QED BY <1>1, Inductive, PTL

\* A connection the kernel delivers is in the hand of its server until it asks
\* for the next.
THEOREM Delivery == Spec => []DeliveryIsInHand
<1>1. IInv => DeliveryIsInHand
  BY DEF IInv
<1> QED BY <1>1, Inductive, PTL

\* No completion is lost or counted twice: what the kernel and the run loop of a
\* process count, with what others have flagged and not signalled yet, is what
\* the flags of its messages say.
THEOREM RequestsCounted == Spec => []RequestsAreCounted
<1>1. IInv => RequestsAreCounted
  BY DEF IInv
<1> QED BY <1>1, Inductive, PTL

-----------------------------------------------------------------------------
(* What steps may not do.                                                  *)

\* A step changes the state of a thread in these ways only.
LEMMA StateSteps ==
  ASSUME IInv, [Next]_vars, NEW u \in Processes, state'[u] # state[u]
  PROVE  \/ state[u] = "EWaitForRequest" /\ state'[u] = "EReady"
         \/ state[u] = "EReady"
         \/ state[u] = "EDead" /\ state'[u] = "EReady"
         \/ Cleanup(u)
         \/ \E p \in Servers : RequestServerMsg(p)
<1> USE IpcAssumption DEF Processes
<1>t. state \in [Processes -> States]
  BY DEF IInv, TypeOK, States
<1>1. ASSUME NEW t, NEW left, Signal(t, state, left)
      PROVE  state[u] = "EWaitForRequest" /\ state'[u] = "EReady"
  BY <1>t, <1>1 DEF Signal
<1>2. ASSUME NEW p \in Servers, ServerStep(p), ~RequestServerMsg(p)
      PROVE  \/ state[u] = "EWaitForRequest" /\ state'[u] = "EReady"
             \/ state[u] = "EReady"
  <2>1. ~(\/ CreateServer(p) \/ HandleServerMsg(p) \/ Requeue(p) \/ BadNumReqs(p)
          \/ \E i \in Pages : Complete(p, i))
    BY DEF CreateServer, HandleServerMsg, Requeue, BadNumReqs, Complete, threadVars
  <2>2. CASE CompleteSvc(p)
    BY <1>1, <2>2 DEF CompleteSvc, Stop, threadVars
  <2>3. CASE WaitForAnyRequest(p)
    BY <1>t, <2>3 DEF WaitForAnyRequest
  <2> QED BY <1>2, <2>1, <2>2, <2>3 DEF ServerStep
<1>3. ASSUME NEW p \in Clients, ClientStep(p)
      PROVE  \/ state[u] = "EWaitForRequest" /\ state'[u] = "EReady"
             \/ state[u] = "EReady"
  <2>1. CASE NewSharedPage(p) \/ MsgCompleted(p) \/ Send(p)
    BY <2>1 DEF NewSharedPage, MsgCompleted, Send, threadVars
  <2>2. CASE SendSvc(p)
    BY <1>1, <2>2 DEF SendSvc, Stop, threadVars
  <2>3. ASSUME NEW id \in Ids, ConnectStops(p, id)
        PROVE  FALSE
    BY <2>3 DEF ConnectStops, Stop, threadVars
  <2>4. ASSUME NEW id \in Ids, Connect(p, id)
        PROVE  \/ state[u] = "EWaitForRequest" /\ state'[u] = "EReady"
               \/ state[u] = "EReady"
    <3>1. CASE ConnectFails(p)
      BY <3>1 DEF ConnectFails, threadVars
    <3>2. ASSUME NEW s \in Slots, BlockInConnect(p, s, page[p])
          PROVE  \/ state[u] = "EWaitForRequest" /\ state'[u] = "EReady"
                 \/ state[u] = "EReady"
      <4> DEFINE blocked == [state EXCEPT ![p] = "EBlockedFromSvc"]
      <4>0. state[p] = "EReady"
        BY <2>4 DEF Connect, Running
      <4>1. blocked \in [Processes -> States] /\ \A v : v # p => blocked[v] = state[v]
        BY <1>t DEF States
      <4>2. state' = blocked \/ Signal(servers[s].thread, blocked, numReqs)
        BY <3>2 DEF BlockInConnect, Deliver
      <4> HIDE DEF blocked
      <4>3. ASSUME NEW t, Signal(t, blocked, numReqs)
            PROVE  state'[u] = blocked[u] \/ (blocked[u] = "EWaitForRequest" /\ state'[u] = "EReady")
        BY <4>1, <4>3 DEF Signal
      <4> QED BY <4>0, <4>1, <4>2, <4>3
    <3> QED BY <2>4, <3>1, <3>2 DEF Connect
  <2>5. CASE WaitForAnyRequest(p)
    BY <1>t, <2>5 DEF WaitForAnyRequest
  <2> QED BY <1>3, <2>1, <2>2, <2>3, <2>4, <2>5 DEF ClientStep
<1>4. ASSUME NEW p \in Processes, Exit(p)
      PROVE  state[u] = "EReady"
  BY <1>t, <1>4 DEF Exit
<1>5. ASSUME NEW p \in Processes, Start(p)
      PROVE  state[u] = "EDead" /\ state'[u] = "EReady"
  BY <1>t, <1>5 DEF Start
<1>6. ASSUME NEW p \in Processes, Cleanup(p)
      PROVE  p = u
  BY <1>t, <1>6 DEF Cleanup, Stop, threadVars
<1>7. ~UNCHANGED vars
  BY DEF vars, threadVars
<1> QED BY <1>2, <1>3, <1>4, <1>5, <1>6, <1>7 DEF Next

\* A client leaves connect only when its server has handled the connection.
THEOREM ReleasedRight == Spec => ReleasedAfterHandled
<1> USE IpcAssumption DEF Processes
<1>1. ASSUME IInv, [Next]_vars, NEW c \in Clients,
             state[c] = "EBlockedFromSvc", state'[c] = "EReady"
      PROVE  stash[c] \in clientPages[ServerProcess(stash[c])]
  <2>1. PICK p \in Servers : RequestServerMsg(p)
    BY <1>1, StateSteps DEF Cleanup, Stop, threadVars
  <2>2. PICK s \in Slots :
          LET q == servers[s].clients
              t == Last(q)
          IN
          /\ servers[s].thread = p /\ ~servers[s].ptr
          /\ \/ UNCHANGED << threadVars, numReqs, delivered >>
             \/ q # << >> /\ reason[t] = "EBlockedInServerConnect" /\ Release(s, t)
             \/ HandOver(s, t)
    BY <2>1 DEF RequestServerMsg, IsFirst, Serving
  <2> DEFINE q == servers[s].clients
             t == Last(q)
  <2>3. state[p] = "EReady" /\ prog[p] = "request"
    BY <2>1 DEF RequestServerMsg, Running
  <2>4. ~HandOver(s, t)
    <3>1. ASSUME NEW u, Signal(u, state, numReqs) PROVE FALSE
      BY <1>1, <3>1 DEF Signal, IInv, TypeOK
    <3> QED BY <3>1 DEF HandOver, Deliver
  <2>5. q # << >> /\ reason[t] = "EBlockedInServerConnect" /\ Release(s, t)
    BY <1>1, <2>2, <2>4 DEF threadVars
  <2>6. c = t
    BY <1>1, <2>5 DEF Release, IInv, TypeOK
  <2>7. Contains(q, t)
    <3>1. q \in Seq(Processes)
      BY <1>1 DEF IInv, TypeOK, ServerRecords
    <3> QED BY <2>5, <3>1 DEF Contains, Last
  <2>8. ~Stale(p) /\ delivered[p] = 0
    BY <1>1, <2>3, InHandIs DEF Stale, IInv, InHand
  <2>9. /\ c \in Clients /\ Alive(c) /\ prog[c] = "connected" /\ stash[c] = page[c]
        /\ page[c] \in Pages /\ page[c] # 0 /\ mapping[page[c]].server = s
    <3>1. 0 \notin Pages
      BY DEF Pages
    <3> QED BY <1>1, <2>2, <2>6, <2>7, <2>8, <3>1, InListIs
  <2>10. ~OnItsWay(c, p)
    BY <2>5, <2>6, <2>8, <2>9 DEF OnItsWay
  <2>11. page[c] \in clientPages[p]
    BY <1>1, <2>2, <2>8, <2>9, <2>10 DEF IInv, SessionKnows
  <2> QED BY <2>2, <2>9, <2>11 DEF ServerProcess, Slots
<1>2. IInv /\ [Next]_vars =>
        [ \A p \in Clients :
            state[p] = "EBlockedFromSvc" /\ state'[p] = "EReady" =>
              stash[p] \in clientPages[ServerProcess(stash[p])] ]_vars
  BY <1>1
<1> QED BY <1>2, Inductive, PTL DEF Spec, ReleasedAfterHandled

\* The last process that maps a page gives its frame back.
THEOREM GivenBack == Spec => LastUserGivesBack
<1> USE IpcAssumption DEF Processes
<1>1. ASSUME IInv, [Next]_vars, NEW p \in Processes, NEW i \in Pages,
             state[p] = "EDying", state'[p] = "EDead", pte[p][i] # None,
             \A q \in Processes \ {p} : pte[q][i] = None
      PROVE  \/ pte[p][i] \notin allocated'
             \/ mapping[i].owner = p /\ mapping[i].server # 0
  <2> DEFINE unused == {j \in Pages :
                          /\ MappingWithout(j, p) # mapping[j]
                          /\ MappingWithout(j, p) = [server |-> 0, owner |-> None]}
  <2>0. ASSUME NEW r \in Servers, RequestServerMsg(r) PROVE FALSE
    <3>1. PICK s \in Slots :
            LET t == Last(servers[s].clients) IN
            \/ UNCHANGED << threadVars, numReqs, delivered >>
            \/ Release(s, t)
            \/ HandOver(s, t)
      BY <2>0 DEF RequestServerMsg
    <3>2. ASSUME NEW t PROVE ~Release(s, t)
      BY <1>1 DEF Release, IInv, TypeOK
    <3>3. ASSUME NEW u, Signal(u, state, numReqs) PROVE FALSE
      BY <1>1, <3>3 DEF Signal, IInv, TypeOK
    <3> QED BY <1>1, <3>1, <3>2, <3>3 DEF HandOver, Deliver, threadVars
  <2>1. Cleanup(p)
    BY <1>1, <2>0, StateSteps
  <2>2. allocated' = allocated \ {pte[p][j] : j \in unused}
    BY <1>1, <2>1 DEF Cleanup, Stop, threadVars
  <2>3. p \in {mapping[i].owner, ServerProcess(i)}
    BY <1>1 DEF IInv, SharedPagesAreSafe
  <2>4. mapping[i] \in [server : Slots \cup {0}, owner : Processes \cup {None}]
    BY <1>1 DEF IInv, TypeOK
  <2>5. CASE mapping[i].owner = p /\ mapping[i].server = 0
    <3>1. MappingWithout(i, p) = [server |-> 0, owner |-> None]
      BY <2>4, <2>5 DEF MappingWithout
    <3>2. MappingWithout(i, p) # mapping[i]
      BY <2>5, <3>1
    <3> QED BY <2>2, <3>1, <3>2
  <2>6. CASE mapping[i].owner # p
    <3>1. mapping[i].owner = None
      BY <1>1, <2>6 DEF IInv, PagesKnow
    <3>2. ServerProcess(i) = p /\ mapping[i].server # 0
      BY <2>3, <2>6 DEF ServerProcess
    <3>3. MappingWithout(i, p) = [server |-> 0, owner |-> None]
      BY <2>4, <2>6, <3>1, <3>2 DEF MappingWithout
    <3>4. MappingWithout(i, p) # mapping[i]
      BY <3>2, <3>3
    <3> QED BY <2>2, <3>3, <3>4
  <2> QED BY <2>5, <2>6
<1>2. IInv /\ [Next]_vars =>
        [ \A p \in Processes, i \in Pages :
            /\ state[p] = "EDying" /\ state'[p] = "EDead"
            /\ pte[p][i] # None
            /\ \A q \in Processes \ {p} : pte[q][i] = None
            => \/ pte[p][i] \notin allocated'
               \/ mapping[i].owner = p /\ mapping[i].server # 0 ]_vars
  BY <1>1
<1> QED BY <1>2, Inductive, PTL DEF Spec, LastUserGivesBack

=============================================================================
