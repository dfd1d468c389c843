-------------------------------- MODULE Ipc --------------------------------
(***************************************************************************)
(* Connections between processes: k/kipc.c, with the parts of k/process.c  *)
(* and k/mmu_arm.c it calls, and the user programs that make its SVCs,     *)
(* modules/ipc.lua and usersrc/ipc.c.                                      *)
(*                                                                         *)
(* An SVC is one action: no thread preempts another inside an SVC (module  *)
(* Scheduler) and no interrupt handler touches the state below.  A process *)
(* stands for its first thread, the only one the kernel lets serve         *)
(* messages or receive their answers.  Processes exit and their slots are  *)
(* used again; a shared page is known by its index, which is its address   *)
(* in every process that maps it.                                          *)
(***************************************************************************)
EXTENDS Integers, Sequences, FiniteSets, ReadyList

CONSTANTS
  Servers,     \* process slots whose program is a server (startServer)
  Clients,     \* process slots whose program connects to a server
  MayExit,     \* the slots whose process may exit
  None,        \* the NULL pointer
  Ids,         \* server ids (a fourcc)
  IdOf,        \* the id each server's program creates
  MaxServers,  \* MAX_SERVERS, the size of TheSuperPage->servers (32)
  MaxPages,    \* MAX_SHARED_PAGES (256)
  Frames,      \* physical pages the allocator can give out as shared pages
  Messages,    \* whether clients send messages on their connections
  ShareFails   \* whether the page table mmu_sharePage needs may not be had

ASSUME IpcAssumption ==
  /\ Servers \cap Clients = {}
  /\ IsFiniteSet(Servers \cup Clients)
  /\ MayExit \subseteq Servers \cup Clients
  /\ None \notin Servers \cup Clients \cup Ids \cup Frames
  /\ IdOf \in [Servers -> Ids]
  /\ MaxServers \in Nat \ {0}
  /\ MaxPages \in Nat \ {0}
  /\ Messages \in BOOLEAN
  /\ ShareFails \in BOOLEAN

Processes == Servers \cup Clients
Slots == 1..MaxServers
Pages == 1..MaxPages

\* 0 is no server, no page.
ServerRecords == [id : Ids \cup {None}, thread : Processes \cup {None},
                  ptr : BOOLEAN, clients : Seq(Processes)]
NoServer == [id |-> None, thread |-> None, ptr |-> FALSE, clients |-> << >>]

VARIABLES
  servers,    \* TheSuperPage->servers; ptr is serverRequest.userPtr # 0
  mapping,    \* the shared page mappings kept at KKernelPdeBase
  pte,        \* pte[p][i]: the frame process p maps at shared page i
  allocated,  \* the frames that are not free
  state,      \* Thread.state
  reason,     \* Thread.exitReason of a thread blocked in an SVC
  stash,      \* Thread.savedRegisters[2] of a thread blocked in connect
  completedRequests,  \* Thread.completedRequests
  prog,       \* where each user program is
  numReqs,    \* what a run loop has still to handle of those it was told of
  page,       \* ipcPage of a client's session
  delivered,  \* the result in the server's AsyncRequest, 0 if not completed
  clientPages,  \* server.clientSharedPages: handleServerMsg has run for these
  queued,     \* of these, those whose message is in the run loop's list
  handled,    \* the page of the message handleMsg is at work on
  errored,    \* the processes whose run loop has caught an error
  calling,    \* the programs that have set the flags of a message and have
              \* still to make the SVC that says so
  msg,        \* the message of each shared page, as its flags tell: "lost" is
              \* one the server's setPending wrote over
  panic       \* the assertion or bad pointer that stopped the kernel

kernelVars == << servers, mapping, pte, allocated >>
threadVars == << state, reason, stash, completedRequests >>
sessionVars == << clientPages, queued, handled, errored, calling >>
userVars   == << prog, numReqs, page, delivered, sessionVars, msg >>
vars == << kernelVars, threadVars, userVars, panic >>

Init ==
  /\ servers = [s \in Slots |-> NoServer]
  /\ mapping = [i \in Pages |-> [server |-> 0, owner |-> None]]
  /\ pte = [p \in Processes |-> [i \in Pages |-> None]]
  /\ allocated = {}
  /\ state = [p \in Processes |-> "EReady"]
  /\ reason = [p \in Processes |-> "none"]
  /\ stash = [p \in Processes |-> 0]
  /\ completedRequests = [p \in Processes |-> 0]
  /\ prog = [p \in Processes |-> "start"]
  /\ numReqs = [p \in Processes |-> 0]
  /\ page = [p \in Processes |-> 0]
  /\ delivered = [p \in Processes |-> 0]
  /\ clientPages = [p \in Processes |-> {}]
  /\ queued = [p \in Processes |-> {}]
  /\ handled = [p \in Processes |-> 0]
  /\ errored = {}
  /\ calling = {}
  /\ msg = [i \in Pages |-> "free"]
  /\ panic = "none"

-----------------------------------------------------------------------------
(* Helpers.                                                                *)

Running(p, at) ==
  panic = "none" /\ state[p] = "EReady" /\ p \notin calling /\ prog[p] = at

Stop(why) ==
  /\ panic' = why
  /\ UNCHANGED << kernelVars, threadVars, userVars >>

Serving(p) == {s \in Slots : servers[s].thread = p}
Named(id)  == {s \in Slots : servers[s].id = id}
IsFirst(i, S) == i \in S /\ \A j \in S : i <= j
IsLast(i, S)  == i \in S /\ \A j \in S : j <= i

\* processForServer(serverForSharedPage(i)), None if no server is set.
ServerProcess(i) ==
  IF mapping[i].server = 0 THEN None ELSE servers[mapping[i].server].thread

\* p's slot appears in `servers` because of a process that is gone.
Stale(p) ==
  state[p] = "EDead" \/ prog[p] \notin {"request", "loop", "requeue"}

\* Mistaken variant: a woken thread is told of its request once more.
SignalTwice(t, st, left) ==
  LET waits == st[t] = "EWaitForRequest"
      n == completedRequests[t] + 1
  IN
  /\ state' = [st EXCEPT ![t] = IF waits THEN "EReady" ELSE @]
  /\ completedRequests' = [completedRequests EXCEPT ![t] = n]
  /\ numReqs' = [left EXCEPT ![t] = IF waits THEN n ELSE @]

\* thread_requestSignal(t), st being the thread states it finds and left the
\* run loops' counts: a waiting thread's SVC returns the one request.
Signal(t, st, left) ==
  LET waits == st[t] = "EWaitForRequest"
      n == completedRequests[t] + 1
  IN
  /\ state' = [st EXCEPT ![t] = IF waits THEN "EReady" ELSE @]
  /\ completedRequests' = [completedRequests EXCEPT ![t] = IF waits THEN 0 ELSE n]
  /\ numReqs' = [left EXCEPT ![t] = IF waits THEN n ELSE @]

\* The run loop of p has one request less to handle.
Handling(p) == [numReqs EXCEPT ![p] = @ - 1]

\* thread_requestComplete(&s->serverRequest, i): the page's address is written
\* into the AsyncRequest of the server's process, or, when that process is gone
\* and its slot in use again, to a word of the new process.
Deliver(s, i, st) ==
  LET t == servers[s].thread IN
  /\ delivered' = IF Stale(t) THEN delivered ELSE [delivered EXCEPT ![t] = i]
  /\ Signal(t, st, numReqs)

-----------------------------------------------------------------------------
(* The SVCs a server's program makes: startServer, then its run loop.      *)

\* ipc_createServer.  The loop over the slots does not stop at a free one.
CreateServer(p) ==
  /\ p \in Servers /\ Running(p, "start")
  /\ LET free == {s \in Slots : servers[s].thread = None}
     IN  \/ /\ Named(IdOf[p]) # {} \/ free = {}
            /\ prog' = [prog EXCEPT ![p] = "failed"]
            /\ UNCHANGED servers
         \/ /\ Named(IdOf[p]) = {}
            /\ \E s \in Slots :
                 /\ IsLast(s, free)
                 /\ servers' = [servers EXCEPT ![s] =
                      [id |-> IdOf[p], thread |-> p, ptr |-> FALSE,
                       clients |-> << >>]]
            /\ prog' = [prog EXCEPT ![p] = "request"]
  /\ UNCHANGED << mapping, pte, allocated, threadVars, numReqs, page,
                  delivered, sessionVars, msg, panic >>

\* Mistaken variant: the client stays in the list.
ReleaseStillListed(s, t) ==
  /\ servers' = [servers EXCEPT ![s].ptr = TRUE]
  /\ state' = [state EXCEPT ![t] = "EReady"]
  /\ UNCHANGED << reason, stash, completedRequests, numReqs, delivered >>

\* The server s is done with the client t: t's connect returns.
Release(s, t) ==
  /\ servers' = [servers EXCEPT ![s].ptr = TRUE,
                                ![s].clients = Dequeue(@, t)]
  /\ state' = [state EXCEPT ![t] = "EReady"]
  /\ UNCHANGED << reason, stash, completedRequests, numReqs, delivered >>

\* Mistaken variant: t is not marked as delivered.
HandOverUnmarked(s, t) ==
  /\ Deliver(s, stash[t], state)
  /\ UNCHANGED << servers, reason, stash >>

\* The server s gets the connection of the client t, who goes on waiting.
HandOver(s, t) ==
  /\ reason' = [reason EXCEPT ![t] = "EBlockedInServerConnect"]
  /\ Deliver(s, stash[t], state)
  /\ UNCHANGED << servers, stash >>

\* ipc_requestServerMsg.  With no client blocked the request just waits.
RequestServerMsg(p) ==
  /\ p \in Servers /\ Running(p, "request")
  /\ \E s \in Slots :
       LET q == servers[s].clients
           t == Last(q)       \* blockedClientList->prev
       IN
       /\ IsFirst(s, Serving(p)) /\ ~servers[s].ptr
       /\ \/ /\ q = << >>
             /\ servers' = [servers EXCEPT ![s].ptr = TRUE]
             /\ UNCHANGED << threadVars, numReqs, delivered >>
          \/ /\ q # << >> /\ reason[t] = "EBlockedInServerConnect"
             /\ Release(s, t)
          \/ /\ q # << >> /\ reason[t] = "EBlockedWaitingForServerConnect"
             /\ HandOver(s, t)
  /\ prog' = [prog EXCEPT ![p] = "loop"]
  /\ UNCHANGED << mapping, pte, allocated, page, sessionVars, msg, panic >>

\* The run loop calls handleServerMsg, and then requestFn again.
HandleServerMsg(p) ==
  /\ p \in Servers /\ Running(p, "loop")
  /\ numReqs[p] # 0 /\ delivered[p] # 0
  /\ numReqs' = Handling(p)
  /\ clientPages' = [clientPages EXCEPT ![p] = @ \cup {delivered[p]}]
  /\ queued' = [queued EXCEPT ![p] = @ \cup {delivered[p]}]
  /\ delivered' = [delivered EXCEPT ![p] = 0]
  /\ prog' = [prog EXCEPT ![p] = "request"]
  /\ UNCHANGED << kernelVars, threadVars, page, handled, errored, calling, msg,
                  panic >>

\* The run loop takes a message off its list and calls handleMsg, whose handler
\* answers at once: complete() sets the flags of the response.
Complete(p, i) ==
  /\ p \in Servers /\ Running(p, "loop")
  /\ numReqs[p] # 0 /\ i \in queued[p] /\ msg[i] = "sent"
  /\ numReqs' = Handling(p)
  /\ msg' = [msg EXCEPT ![i] = "answered"]
  /\ queued' = [queued EXCEPT ![p] = @ \ {i}]
  /\ handled' = [handled EXCEPT ![p] = i]
  /\ calling' = calling \cup {p}
  /\ prog' = [prog EXCEPT ![p] = "requeue"]
  /\ UNCHANGED << kernelVars, threadVars, page, delivered, clientPages, errored,
                  panic >>

\* ... and makes the SVC, ipc_completeRequest for the client.
CompleteSvc(p) ==
  LET c == mapping[handled[p]].owner IN
  /\ panic = "none" /\ p \in Servers \cap calling
  /\ ServerProcess(handled[p]) = p     \* sharedPageIsValid
  /\ \/ /\ c # None
        /\ Signal(c, state, numReqs)
        /\ calling' = calling \ {p}
        /\ UNCHANGED << kernelVars, reason, stash, prog, page, delivered,
                        clientPages, queued, handled, errored, msg, panic >>
     \/ \* &ownerForSharedPage(i)->threads[0] of no process
        c = None /\ Stop("nullRecipient")

\* An error in a handler ends the run loop's round: it starts again, and with
\* it its count.
LoopError(p) ==
  /\ errored' = errored \cup {p}
  /\ numReqs' = [numReqs EXCEPT ![p] = 0]

\* ... and then handleMsg puts the message back on the list.  If the client,
\* answered, has sent it again by now, setPending refuses, or, when it has read
\* the flags before and writes them after that, wipes the message out.
Requeue(p) ==
  /\ p \in Servers /\ Running(p, "requeue")
  /\ \/ /\ msg[handled[p]] = "sent"
        /\ LoopError(p) /\ UNCHANGED << queued, msg >>
     \/ /\ msg' = [msg EXCEPT ![handled[p]] = IF @ = "sent" THEN "lost" ELSE @]
        /\ queued' = [queued EXCEPT ![p] = @ \cup {handled[p]}]
        /\ UNCHANGED << numReqs, errored >>
  /\ prog' = [prog EXCEPT ![p] = "loop"]
  /\ handled' = [handled EXCEPT ![p] = 0]
  /\ UNCHANGED << kernelVars, threadVars, page, delivered, clientPages, calling,
                  panic >>

\* The run loop finds no completed request on its list: "Bad numReqs".
BadNumReqs(p) ==
  /\ p \in Servers /\ Running(p, "loop")
  /\ numReqs[p] # 0 /\ delivered[p] = 0
  /\ \A i \in queued[p] : msg[i] # "sent"
  /\ LoopError(p)
  /\ UNCHANGED << kernelVars, threadVars, prog, page, delivered, clientPages,
                  queued, handled, calling, msg, panic >>

-----------------------------------------------------------------------------
(* The SVCs a client's program makes: ipc.connect and Session:send.        *)

\* ipc_mapNewSharedPageInCurrentProcess: 0 if there is no index or no memory.
NewSharedPage(p) ==
  /\ p \in Clients /\ Running(p, "start")
  /\ LET free == {i \in Pages : mapping[i] = [server |-> 0, owner |-> None]}
     IN  \/ \E i \in Pages, f \in Frames \ allocated :
              /\ IsFirst(i, free)
              /\ pte' = [pte EXCEPT ![p][i] = f]
              /\ allocated' = allocated \cup {f}
              /\ mapping' = [mapping EXCEPT ![i].owner = p]
              /\ msg' = [msg EXCEPT ![i] = "free"]     \* zeroPage
              /\ page' = [page EXCEPT ![p] = i]
              /\ prog' = [prog EXCEPT ![p] = "connect"]
         \/ /\ free = {} \/ Frames \subseteq allocated
            /\ prog' = [prog EXCEPT ![p] = "failed"]
            /\ UNCHANGED << mapping, pte, allocated, page, msg >>
  /\ UNCHANGED << servers, threadVars, numReqs, delivered, sessionVars, panic >>

ConnectFails(p) ==
  /\ prog' = [prog EXCEPT ![p] = "failed"]
  /\ UNCHANGED << servers, pte, allocated, threadVars, numReqs, page,
                  delivered, sessionVars, msg, panic >>

\* Mistaken variant: a client that only waits is taken for one whose connection
\* the server has.
BlockInConnectMarked(p, s, i) ==
  LET blocked == [state EXCEPT ![p] = "EBlockedFromSvc"] IN
  /\ stash' = [stash EXCEPT ![p] = i]
  /\ servers' = [servers EXCEPT ![s].clients = Append(@, p), ![s].ptr = FALSE]
  /\ reason' = [reason EXCEPT ![p] = "EBlockedInServerConnect"]
  /\ IF servers[s].ptr
       THEN Deliver(s, i, blocked)
       ELSE /\ state' = blocked
            /\ UNCHANGED << completedRequests, numReqs, delivered >>

\* ipc_connectToServer, once the server s is found and the page i is mapped
\* there: the client blocks behind the others, and the server is told if it
\* is waiting for a message.
BlockInConnect(p, s, i) ==
  LET blocked == [state EXCEPT ![p] = "EBlockedFromSvc"]
      q == servers[s].clients
      in == IF q = << >> THEN << p >> ELSE EnqueueBefore(q, p, Head(q))
  IN
  /\ stash' = [stash EXCEPT ![p] = i]
  /\ servers' = [servers EXCEPT ![s].clients = in, ![s].ptr = FALSE]
  /\ IF servers[s].ptr
       THEN /\ reason' = [reason EXCEPT ![p] = "EBlockedInServerConnect"]
            /\ Deliver(s, i, blocked)
       ELSE /\ reason' =
                 [reason EXCEPT ![p] = "EBlockedWaitingForServerConnect"]
            /\ state' = blocked
            /\ UNCHANGED << completedRequests, numReqs, delivered >>

Connect(p, id) ==
  /\ p \in Clients /\ Running(p, "connect")
  /\ \/ \* KErrNotFound
        Named(id) = {} /\ ConnectFails(p) /\ UNCHANGED mapping
     \/ \* KErrNoMemory, when the server has been set already
        /\ ShareFails /\ ConnectFails(p)
        /\ \E s \in Slots :
             /\ IsFirst(s, Named(id))
             /\ mapping' = [mapping EXCEPT ![page[p]].server = s]
     \/ \E s \in Slots :
          LET i == page[p]
              dest == servers[s].thread
          IN
          /\ IsFirst(s, Named(id)) /\ pte[dest][i] = None
          /\ servers[s].ptr => state[dest] # "EDead"
          /\ mapping' = [mapping EXCEPT ![i].server = s]
          /\ pte' = [pte EXCEPT ![dest][i] = pte[p][i]]
          /\ BlockInConnect(p, s, i)
          /\ prog' = [prog EXCEPT ![p] = "connected"]
          /\ UNCHANGED << allocated, page, sessionVars, msg, panic >>

\* ASSERT(*destPte == 0) in mmu_sharePage; the AsyncRequest of a server whose
\* process is gone is written to, and nothing is mapped there.
ConnectStops(p, id) ==
  /\ p \in Clients /\ Running(p, "connect")
  /\ \E s \in Slots :
       LET dest == servers[s].thread IN
       /\ IsFirst(s, Named(id))
       /\ \/ pte[dest][page[p]] # None /\ Stop("alreadyMapped")
          \/ /\ pte[dest][page[p]] = None /\ servers[s].ptr /\ Stale(dest)
             /\ Stop("badUserPtr")

\* Session:send with a free message: doSendMsg sets the flags of the request,
\* by which the server's run loop knows it.
Send(p) ==
  /\ Messages /\ p \in Clients /\ Running(p, "connected")
  /\ msg[page[p]] = "free"
  /\ msg' = [msg EXCEPT ![page[p]] = "sent"]
  /\ calling' = calling \cup {p}
  /\ UNCHANGED << kernelVars, threadVars, prog, numReqs, page, delivered,
                  clientPages, queued, handled, errored, panic >>

\* ... and makes the SVC, ipc_completeRequest for the server.
SendSvc(p) ==
  /\ panic = "none" /\ p \in Clients \cap calling
  /\ mapping[page[p]].owner = p         \* sharedPageIsValid
  /\ IF mapping[page[p]].server # 0
       THEN /\ Signal(ServerProcess(page[p]), state, numReqs)
            /\ calling' = calling \ {p}
            /\ UNCHANGED << kernelVars, reason, stash, prog, page, delivered,
                            clientPages, queued, handled, errored, msg, panic >>
       ELSE Stop("nullServer")     \* s->serverRequest of no server

\* The client's run loop calls msgCompleted.
MsgCompleted(p) ==
  /\ p \in Clients /\ Running(p, "connected")
  /\ numReqs[p] # 0 /\ msg[page[p]] = "answered"
  /\ numReqs' = Handling(p)
  /\ msg' = [msg EXCEPT ![page[p]] = "free"]
  /\ UNCHANGED << kernelVars, threadVars, prog, page, delivered, sessionVars,
                  panic >>

-----------------------------------------------------------------------------
(* KExecWaitForAnyRequest, for both.  A run loop calls it when it has      *)
(* handled as many requests as the last call told it of.                   *)

\* The SVC: return the count, or block.
WaitForAnyRequest(p) ==
  /\ panic = "none" /\ state[p] = "EReady" /\ p \notin calling /\ numReqs[p] = 0
  /\ prog[p] = "loop" \/ (prog[p] = "connected" /\ msg[page[p]] # "free")
  /\ IF completedRequests[p] # 0
       THEN /\ completedRequests' = [completedRequests EXCEPT ![p] = 0]
            /\ numReqs' = [numReqs EXCEPT ![p] = completedRequests[p]]
            /\ UNCHANGED state
       ELSE /\ state' = [state EXCEPT ![p] = "EWaitForRequest"]
            /\ UNCHANGED << completedRequests, numReqs >>
  /\ UNCHANGED << kernelVars, reason, stash, prog, page, delivered,
                  sessionVars, msg, panic >>

-----------------------------------------------------------------------------
(* Processes that end and begin.                                           *)

\* thread_exit, which no program calls between the flags and the SVC.
Exit(p) ==
  /\ p \in MayExit \ calling /\ panic = "none" /\ state[p] = "EReady"
  /\ state' = [state EXCEPT ![p] = "EDying"]
  /\ UNCHANGED << kernelVars, reason, stash, completedRequests, userVars,
                  panic >>

\* Mistaken variants: a page is given up with its owner; a page its owner left
\* behind is kept.
MappingDropped(i, p) ==
  IF p \in {mapping[i].owner, ServerProcess(i)}
    THEN [server |-> 0, owner |-> None] ELSE mapping[i]

MappingKept(i, p) ==
  LET m == mapping[i] IN
  IF m.owner = p THEN [m EXCEPT !.owner = None]
  ELSE IF m.owner # None /\ ServerProcess(i) = p THEN [m EXCEPT !.server = 0]
  ELSE m

\* The mapping of page i once ipc_processExited has gone over it.
MappingWithout(i, p) ==
  LET m == mapping[i] IN
  IF m.owner = p THEN [m EXCEPT !.owner = None]
  ELSE IF ServerProcess(i) = p THEN [m EXCEPT !.server = 0]
  ELSE m

\* threadExit_dfc and in it process_exit: ipc_processExited frees the pages
\* nobody uses any more, through p's page table, and mmu_processExited then
\* drops p's page tables.
Cleanup(p) ==
  LET unused == {i \in Pages :
                   /\ MappingWithout(i, p) # mapping[i]
                   /\ MappingWithout(i, p) = [server |-> 0, owner |-> None]}
  IN
  /\ panic = "none" /\ state[p] = "EDying"
  /\ \/ /\ \A i \in unused : pte[p][i] # None
        /\ mapping' = [i \in Pages |-> MappingWithout(i, p)]
        /\ allocated' = allocated \ {pte[p][i] : i \in unused}
        /\ pte' = [pte EXCEPT ![p] = [i \in Pages |-> None]]
        /\ state' = [state EXCEPT ![p] = "EDead"]
        /\ UNCHANGED << servers, reason, stash, completedRequests, userVars,
                        panic >>
     \/ \* pageAllocator_free(pa, 0)
        /\ \E i \in unused : pte[p][i] = None
        /\ Stop("freedUnmapped")

\* process_new in a free slot.
Start(p) ==
  /\ panic = "none" /\ state[p] = "EDead"
  /\ state' = [state EXCEPT ![p] = "EReady"]
  /\ reason' = [reason EXCEPT ![p] = "none"]
  /\ completedRequests' = [completedRequests EXCEPT ![p] = 0]
  /\ pte' = [pte EXCEPT ![p] = [i \in Pages |-> None]]
  /\ prog' = [prog EXCEPT ![p] = "start"]
  /\ numReqs' = [numReqs EXCEPT ![p] = 0]
  /\ page' = [page EXCEPT ![p] = 0]
  /\ delivered' = [delivered EXCEPT ![p] = 0]
  /\ clientPages' = [clientPages EXCEPT ![p] = {}]
  /\ queued' = [queued EXCEPT ![p] = {}]
  /\ handled' = [handled EXCEPT ![p] = 0]
  /\ errored' = errored \ {p}
  /\ UNCHANGED << servers, mapping, allocated, stash, calling, msg, panic >>

-----------------------------------------------------------------------------
ServerStep(p) ==
  \/ CreateServer(p) \/ RequestServerMsg(p) \/ HandleServerMsg(p)
  \/ \E i \in Pages : Complete(p, i)
  \/ CompleteSvc(p) \/ Requeue(p) \/ BadNumReqs(p)
  \/ WaitForAnyRequest(p)

ClientStep(p) ==
  \/ NewSharedPage(p)
  \/ \E id \in Ids : Connect(p, id) \/ ConnectStops(p, id)
  \/ Send(p) \/ SendSvc(p) \/ MsgCompleted(p)
  \/ WaitForAnyRequest(p)

Next ==
  \/ \E p \in Servers : ServerStep(p)
  \/ \E p \in Clients : ClientStep(p)
  \/ \E p \in Processes : Exit(p) \/ Cleanup(p) \/ Start(p)

Spec == Init /\ [][Next]_vars

-----------------------------------------------------------------------------
TypeOK ==
  /\ servers \in [Slots -> ServerRecords]
  /\ mapping \in [Pages -> [server : Slots \cup {0},
                            owner : Processes \cup {None}]]
  /\ pte \in [Processes -> [Pages -> Frames \cup {None}]]
  /\ allocated \subseteq Frames
  /\ state \in [Processes -> {"EReady", "EBlockedFromSvc", "EWaitForRequest",
                              "EDying", "EDead"}]
  /\ reason \in [Processes -> {"none", "EBlockedWaitingForServerConnect",
                               "EBlockedInServerConnect"}]
  /\ stash \in [Processes -> Pages \cup {0}]
  /\ completedRequests \in [Processes -> Nat]
  /\ prog \in [Processes -> {"start", "request", "loop", "requeue",
                             "connect", "connected", "failed"}]
  /\ numReqs \in [Processes -> Nat]
  /\ page \in [Processes -> Pages \cup {0}]
  /\ delivered \in [Processes -> Pages \cup {0}]
  /\ clientPages \in [Processes -> SUBSET Pages]
  /\ queued \in [Processes -> SUBSET Pages]
  /\ handled \in [Processes -> Pages \cup {0}]
  /\ errored \subseteq Servers
  /\ calling \subseteq Processes
  /\ msg \in [Pages -> {"free", "sent", "answered", "lost"}]
  /\ panic \in {"none", "alreadyMapped", "badUserPtr", "nullServer",
                "nullRecipient", "freedUnmapped"}

\* What a process maps at a shared page is what its owner or server may map:
\* nobody keeps a page that was given up, all who map an index map the same
\* frame, no frame appears at two indexes and none that is mapped is free.
SharedPagesAreSafe ==
  \A p, q \in Processes, i, j \in Pages :
    pte[p][i] # None =>
      /\ pte[p][i] \in allocated
      /\ p \in {mapping[i].owner, ServerProcess(i)}
      /\ pte[q][j] = pte[p][i] => i = j
      /\ i = j => pte[q][j] \in {pte[p][i], None}

\* The last process that maps a shared page gives its frame back, in whatever
\* order owner and server exit: only the frame of a connection that ran out of
\* memory half way, after its server was set, outlives its client.
LastUserGivesBack ==
  [][ \A p \in Processes, i \in Pages :
        /\ state[p] = "EDying" /\ state'[p] = "EDead"
        /\ pte[p][i] # None
        /\ \A q \in Processes \ {p} : pte[q][i] = None
        => \/ pte[p][i] \notin allocated'
           \/ mapping[i].owner = p /\ mapping[i].server # 0 ]_vars

\* The blocked clients are exactly those in the servers' lists, each in one
\* list and once, and its list is that of the server its page is set to, as
\* long as that server has not exited.
BlockedClientsAreListed ==
  \A p \in Processes :
    LET lists == {s \in Slots : Contains(servers[s].clients, p)} IN
    IF state[p] # "EBlockedFromSvc"
      THEN lists = {}
      ELSE /\ mapping[stash[p]].owner = p
           /\ \E s \in Slots :
                /\ lists = {s} /\ Distinct(servers[s].clients)
                /\ mapping[stash[p]].server # s =>
                     mapping[stash[p]].server = 0 /\ Stale(servers[s].thread)

\* A server that has not asked for the next message has one in hand: what the
\* kernel delivers is a page whose owner waits in connect for it, and while
\* it is being handled the kernel delivers no other.
DeliveryIsInHand ==
  \A p \in {q \in Servers : state[q] # "EDead"} :
    /\ delivered[p] # 0 =>
         /\ prog[p] \in {"loop", "requeue"}
         /\ ServerProcess(delivered[p]) = p
         /\ LET c == mapping[delivered[p]].owner
            IN  /\ c \in Clients /\ state[c] = "EBlockedFromSvc"
                /\ reason[c] = "EBlockedInServerConnect"
    /\ prog[p] \in {"loop", "requeue"} =>
         \A s \in Serving(p) : servers[s].ptr <=> delivered[p] = 0

\* What a process has to handle: the messages its clients have flagged (the lost
\* ones too), a connection, the answer to its own message.
SentTo(p) == {i \in clientPages[p] : msg[i] \in {"sent", "lost"}}
OneIf(b) == IF b THEN 1 ELSE 0
Unhandled(p) ==
  Cardinality(SentTo(p)) + OneIf(delivered[p] # 0)
    + OneIf(page[p] # 0 /\ msg[page[p]] = "answered")

\* Those that have flagged something for p and not told the kernel yet.
Recipient(q) ==
  IF q \in Servers THEN mapping[handled[q]].owner ELSE ServerProcess(page[q])
Untold(p) == {q \in calling : Recipient(q) = p}

\* Its run loop has not caught an error, and it was not started in the slot of a
\* server that exited, in which case it is told of that server's connections.
Told(p) ==
  /\ state[p] \notin {"EDying", "EDead"} /\ p \notin errored
  /\ Stale(p) => Serving(p) = {}

\* The kernel's count of a process's requests is right: what its run loop was
\* told of and what it will be told of, counting those who are about to say so,
\* is what it has to handle.  So it does not sleep on a completed request but
\* while another is between the flags of its own and the SVC (a message that is
\* flagged is handled on the count of another), and it is never told of one
\* that it cannot find ("Bad numReqs") but for a message that was wiped out.
RequestsAreCounted ==
  /\ TypeOK
  /\ \A p \in Processes :
       Told(p) => numReqs[p] + completedRequests[p] + Cardinality(Untold(p))
                    = Unhandled(p)

\* connect() blocks the client until the server's handleServerMsg() has run
\* (doc/internals.md).
ReleasedAfterHandled ==
  [][ \A p \in Clients :
        state[p] = "EBlockedFromSvc" /\ state'[p] = "EReady" =>
          stash[p] \in clientPages[ServerProcess(stash[p])] ]_vars

\* A claim of modules/ipc.lua that the code does not keep: all messages of all
\* clients are pending in the run loop at all times.  (But for the one that is
\* being handled.)
AllMsgsPending ==
  \A p \in Servers : prog[p] = "loop" => queued[p] = clientPages[p]

-----------------------------------------------------------------------------
(* Liveness.  Every process that is ready gets to run (module Scheduler),  *)
(* and its program goes on until it waits; nothing makes it exit.          *)
Fairness == /\ \A p \in Servers : WF_vars(ServerStep(p))
            /\ \A p \in Clients : WF_vars(ClientStep(p))
            /\ \A p \in Processes : WF_vars(Cleanup(p))

FairSpec == Spec /\ Fairness

\* A claim of k/kipc.c that the code does not keep: "We'll get serviced
\* (eventually)", says ipc_connectToServer where the client blocks.  A second
\* client that connects while the server is at work on the first is the last in
\* the list, which the server takes for the oldest: it is handed the second,
\* releases it, and waits with the first still blocked.
ConnectReturns ==
  \A p \in Clients :
    state[p] = "EBlockedFromSvc" ~>
      state[p] # "EBlockedFromSvc" \/ panic # "none"
=============================================================================
