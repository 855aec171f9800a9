----------------------------- MODULE EventServer -----------------------------
(***************************************************************************)
(* The SSE event server, src/core/internal/sse/event.go: the goroutine     *)
(* Run that owns the registry of client channels, one handler and stream   *)
(* writer per connection, the log-ingestion goroutines that call           *)
(* BroadcastToProject, and Stop.                                           *)
(*                                                                         *)
(* All channels of the file are unbuffered, so a send and its receive are  *)
(* one step of two processes.  The registry, a map of maps of channels, is *)
(* the set `clients' of registered connections: the project of a           *)
(* connection is fixed when it is made, and an inner map exists exactly    *)
(* when it is not empty.  A connection stands for its channel; a value of  *)
(* Conns is used again for a new request once nothing refers to the old    *)
(* channel any more.                                                       *)
(***************************************************************************)
EXTENDS Naturals, Sequences, FiniteSets

CONSTANTS Conns,          \* connections that may exist at once
          Projects,
          ProjectOf,      \* the :projectId of each connection's route
          Broadcasters,   \* goroutines that ingest logs
          NoOne,          \* no connection, project or goroutine
          AllowStop,      \* whether somebody calls Stop
          AllowCancel,    \* whether the parent context may be cancelled
          MaxBroadcasts   \* bound on the number of broadcasts

ASSUME ServerAssumption ==
    /\ ProjectOf \in [Conns -> Projects]
    /\ NoOne \notin Conns \cup Projects \cup Broadcasters
    /\ {AllowStop, AllowCancel} \subseteq BOOLEAN
    /\ MaxBroadcasts \in Nat

VARIABLES
    clients,    \* the registered connections (event.go:25)
    mu,         \* the broadcaster that holds the mutex, or NoOne
    run,        \* where Run is
    hand,       \* the connection Run took from a channel and is working on
    pc,         \* where each connection's handler or stream writer is
    open,       \* whether the response stream of a connection is still read
    broken,     \* whether its bufio.Writer has met an error (and keeps it)
    closed,     \* the connections whose channel was closed
    ctx,        \* whether the server's context is done
    stop,       \* the call of Stop: where it is and what it iterates over
    bpc,        \* where each broadcaster is
    bproj,      \* the project it broadcasts to
    msg,        \* the number of the broadcast it is sending
    todo,       \* the clients its range loop has still to visit
    crash,      \* what ended the process, "none" while it runs
    published,  \* history: the project of each broadcast, in locking order
    received    \* history: the broadcasts handed to each writer, in order

runVars   == <<run, hand>>
connVars  == <<pc, open, broken>>
stopVars  == <<closed, ctx, stop>>
bcastVars == <<bpc, bproj, msg, todo, published>>
vars == <<clients, mu, run, hand, pc, open, broken, closed, ctx, stop, bpc,
          bproj, msg, todo, crash, published, received>>

ClientsOf(p) == {c \in clients : ProjectOf[c] = p}

\* The writers counted in reqWg: from reqWg.Add(1) to the deferred reqWg.Done().
InFlight == {c \in Conns : pc[c] \in {"select", "writing", "pinging", "closing"}}

\* Between the two rendezvous with Run: after the send at 104, before the one at 114.
Live == {c \in Conns : pc[c] = "accepted"} \cup InFlight

\* Some variable or local still refers to the channel of c.
Referenced(c) == \/ c \in clients \cup stop.todo
                 \/ hand = c
                 \/ \E b \in Broadcasters : c \in todo[b]

Init == /\ clients = {} /\ mu = NoOne
        /\ run = "select" /\ hand = NoOne
        /\ pc = [c \in Conns |-> "absent"]
        /\ open = [c \in Conns |-> FALSE]
        /\ broken = [c \in Conns |-> FALSE]
        /\ closed = {}
        /\ ctx = FALSE
        /\ stop = [at |-> "idle", project |-> NoOne, left |-> {}, todo |-> {}]
        /\ bpc = [b \in Broadcasters |-> "idle"]
        /\ bproj = [b \in Broadcasters |-> NoOne]
        /\ msg = [b \in Broadcasters |-> 0]
        /\ todo = [b \in Broadcasters |-> {}]
        /\ crash = "none"
        /\ published = <<>>
        /\ received = [c \in Conns |-> <<>>]

-----------------------------------------------------------------------------
(* Stop reads and writes the map without the mutex (81-86).  An access of  *)
(* another goroutine meanwhile is a data race: the runtime may end the     *)
(* process ("concurrent map iteration and map write") or miss it.          *)
MapAccess == crash' \in IF stop.at = "sweep" THEN {"none", "mapRace"} ELSE {"none"}

-----------------------------------------------------------------------------
(* The connection: HandleConnection and its stream writer.                 *)

\* A request arrives: a new channel, and the handler blocks on ConnectClient.
Connect(c) ==
    /\ pc[c] = "absent" /\ ~Referenced(c)
    /\ pc' = [pc EXCEPT ![c] = "connecting"]
    /\ open' = [open EXCEPT ![c] = TRUE]
    /\ broken' = [broken EXCEPT ![c] = FALSE]
    /\ closed' = closed \ {c}
    /\ received' = [received EXCEPT ![c] = <<>>]
    /\ UNCHANGED <<clients, mu, runVars, ctx, stop, bcastVars, crash>>

\* The handler or writer of c moves on, and nothing else changes.
Goes(c, from, to) ==
    /\ pc[c] = from
    /\ pc' = [pc EXCEPT ![c] = to]
    /\ UNCHANGED <<clients, mu, runVars, open, broken, stopVars, bcastVars,
                   crash, received>>

\* SendStreamWriter has started the writer, which enters its select loop.
StartWriter(c) == Goes(c, "accepted", "select")

\* The reader goes away: the dashboard leaves, or the network fails.
Disconnect(c) ==
    /\ pc[c] # "absent" /\ open[c]
    /\ open' = [open EXCEPT ![c] = FALSE]
    /\ UNCHANGED <<clients, mu, runVars, pc, broken, stopVars, bcastVars, crash,
                   received>>

\* The 15 s ticker wins the select.
Tick(c) == Goes(c, "select", "pinging")

\* The outcome of a write and the Flush after it.  The write itself fails if
\* the buffer holds an earlier error, or if it is too large for the buffer
\* (mayOverflow) and the reader is gone; an error of Flush is not looked at,
\* but the bufio.Writer keeps it for the next write.
WriteOutcome(c, mayOverflow) ==
    \/ /\ open[c] /\ ~broken[c]
       /\ pc' = [pc EXCEPT ![c] = "select"]
       /\ UNCHANGED broken
    \/ /\ ~open[c] /\ ~broken[c]
       /\ pc' = [pc EXCEPT ![c] = "select"]
       /\ broken' = [broken EXCEPT ![c] = TRUE]
    \/ /\ broken[c] \/ (mayOverflow /\ ~open[c])
       /\ pc' = [pc EXCEPT ![c] = "closing"]
       /\ UNCHANGED broken

FinishWrite(c) ==
    /\ pc[c] = "writing"
    /\ WriteOutcome(c, TRUE)
    /\ UNCHANGED <<clients, mu, runVars, open, stopVars, bcastVars, crash,
                   received>>

\* Mutant: the error of the keepalive write is ignored like that of Flush.
FinishPingIgnoringError(c) == Goes(c, "pinging", "select")

FinishPing(c) ==
    /\ pc[c] = "pinging"
    /\ WriteOutcome(c, FALSE)
    /\ UNCHANGED <<clients, mu, runVars, open, stopVars, bcastVars, crash,
                   received>>

\* The writer's other two ways out of its loop: a closed channel, a done context.
LeaveLoop(c) == (c \in closed \/ ctx) /\ Goes(c, "select", "closing")

-----------------------------------------------------------------------------
(* Run.                                                                    *)

AcceptConnect(c) ==
    /\ run = "select" /\ pc[c] = "connecting"
    /\ run' = "adding" /\ hand' = c
    /\ pc' = [pc EXCEPT ![c] = "accepted"]
    /\ UNCHANGED <<clients, mu, open, broken, stopVars, bcastVars, crash, received>>

Add ==
    /\ run = "adding"
    /\ clients' = clients \cup {hand}
    /\ run' = "select" /\ hand' = NoOne
    /\ MapAccess
    /\ UNCHANGED <<mu, connVars, stopVars, bcastVars, received>>

\* Mutant: the map is written without taking the mutex.
RegisterUnlocked == Add

\* One critical section: nobody who takes the mutex sees the inside of it.
Register == mu = NoOne /\ Add

\* Mutant: the handler's cleanup also closes the channel.
AcceptCloseAndClose(c) ==
    /\ run = "select" /\ pc[c] = "closing"
    /\ run' = "removing" /\ hand' = c
    /\ pc' = [pc EXCEPT ![c] = "absent"]
    /\ closed' = closed \cup {c}
    /\ UNCHANGED <<clients, mu, open, broken, ctx, stop, bcastVars, crash,
                   received>>

\* The writer's deferred send on CloseClient; then it is finished.
AcceptClose(c) ==
    /\ run = "select" /\ pc[c] = "closing"
    /\ run' = "removing" /\ hand' = c
    /\ pc' = [pc EXCEPT ![c] = "absent"]
    /\ UNCHANGED <<clients, mu, open, broken, stopVars, bcastVars, crash, received>>

Remove(gone) ==
    /\ run = "removing" /\ mu = NoOne
    /\ clients' = clients \ gone
    /\ run' = "select" /\ hand' = NoOne
    /\ MapAccess
    /\ UNCHANGED <<mu, connVars, stopVars, bcastVars, received>>

\* Mutant: only the empty inner map is dropped, the channel stays in it.
UnregisterNothing == Remove({})

\* Mutant: the inner map is dropped without a look at its length.
UnregisterWholeProject == Remove(ClientsOf(ProjectOf[hand]))

Unregister == Remove({hand})

\* ctx.Done() wins the select: Run receives from no channel any more.
SeeDone ==
    /\ run = "select" /\ ctx
    /\ run' = "draining"
    /\ UNCHANGED <<clients, mu, hand, connVars, stopVars, bcastVars, crash,
                   received>>

RunReturns ==
    /\ run = "draining"
    /\ run' = "returned"
    /\ UNCHANGED <<clients, mu, hand, connVars, stopVars, bcastVars, crash,
                   received>>

\* Mutant: Run does not wait for the writers.
ReturnUndrained == RunReturns

\* reqWg.Wait() is over; the deferred SrvWg.Done() with it.
Drained == InFlight = {} /\ RunReturns

-----------------------------------------------------------------------------
(* BroadcastToProject.                                                     *)

\* A log handler comes to its broadcast.
Enter(b) ==
    /\ bpc[b] = "idle"
    /\ Len(published) + Cardinality({x \in Broadcasters : bpc[x] = "calling"})
         < MaxBroadcasts
    /\ bpc' = [bpc EXCEPT ![b] = "calling"]
    /\ UNCHANGED <<clients, mu, runVars, connVars, stopVars, msg, todo, crash,
                   published, received>>

\* Mutant: it is called before the project of the key was looked up.
CallUnresolved(b) == Enter(b) /\ UNCHANGED bproj

\* It calls BroadcastToProject for the project of the key it was sent.
Call(b) == Enter(b) /\ \E p \in Projects : bproj' = [bproj EXCEPT ![b] = p]

\* The early return: the project has no client.
FindNobody(b) ==
    /\ bpc[b] = "calling" /\ mu = NoOne
    /\ ClientsOf(bproj[b]) = {}
    /\ bpc' = [bpc EXCEPT ![b] = "idle"]
    /\ published' = Append(published, bproj[b])
    /\ MapAccess
    /\ UNCHANGED <<clients, runVars, connVars, stopVars, bproj, msg, todo,
                   received>>

\* Mutant: it forgets to unlock.
ReturnAtOnceLocked(b) == FindNobody(b) /\ mu' = b

\* The mutex is taken and given back.
ReturnAtOnce(b) == FindNobody(b) /\ UNCHANGED mu

\* The range loop over targets begins.
BeginLoop(b, targets) ==
    /\ bpc[b] = "calling"
    /\ ClientsOf(bproj[b]) # {}
    /\ bpc' = [bpc EXCEPT ![b] = "sending"]
    /\ published' = Append(published, bproj[b])
    /\ msg' = [msg EXCEPT ![b] = Len(published')]
    /\ todo' = [todo EXCEPT ![b] = targets]
    /\ MapAccess
    /\ UNCHANGED <<clients, runVars, connVars, stopVars, bproj, received>>

\* Mutant: the loop runs without the mutex.
LockNothing(b) == BeginLoop(b, ClientsOf(bproj[b])) /\ UNCHANGED mu

\* Mutant: the loop goes over the clients of every project.
LockForEverybody(b) == mu = NoOne /\ mu' = b /\ BeginLoop(b, clients)

\* The mutex is taken, to be held over the whole loop.
Lock(b) == mu = NoOne /\ mu' = b /\ BeginLoop(b, ClientsOf(bproj[b]))

\* Mutant: a plain send, which waits until the writer is back in its select.
OfferAndWait(b, c) ==
    /\ bpc[b] = "sending" /\ c \in todo[b]
    /\ pc[c] = "select" /\ c \notin closed
    /\ todo' = [todo EXCEPT ![b] = @ \ {c}]
    /\ pc' = [pc EXCEPT ![c] = "writing"]
    /\ received' = [received EXCEPT ![c] = Append(@, msg[b])]
    /\ UNCHANGED <<clients, mu, runVars, open, broken, stopVars, bpc, bproj, msg,
                   crash, published>>

\* One turn of the loop.  The send succeeds if the writer waits in its select,
\* the default drops the message otherwise, and a closed channel panics.
Offer(b, c) ==
    /\ bpc[b] = "sending" /\ c \in todo[b]
    /\ todo' = [todo EXCEPT ![b] = @ \ {c}]
    /\ \/ /\ c \in closed
          /\ crash' = "closedSend"
          /\ UNCHANGED <<pc, received>>
       \/ /\ c \notin closed /\ pc[c] = "select"
          /\ pc' = [pc EXCEPT ![c] = "writing"]
          /\ received' = [received EXCEPT ![c] = Append(@, msg[b])]
          /\ UNCHANGED crash
       \/ /\ c \notin closed /\ pc[c] # "select"
          /\ UNCHANGED <<pc, received, crash>>
    /\ UNCHANGED <<clients, mu, runVars, open, broken, stopVars, bpc, bproj, msg,
                   published>>

Unlock(b) ==
    /\ bpc[b] = "sending" /\ todo[b] = {}
    /\ mu' = NoOne
    /\ bpc' = [bpc EXCEPT ![b] = "idle"]
    /\ UNCHANGED <<clients, runVars, connVars, stopVars, bproj, msg, todo, crash,
                   published, received>>

-----------------------------------------------------------------------------
(* Stop, and the context given to NewSSEServer.  A range over a map visits *)
(* every entry that is there from its start to its end, and may or may not *)
(* visit one that is added meanwhile.                                      *)

stopFrame == <<mu, runVars, connVars, bcastVars, received>>

StopBegin ==
    /\ AllowStop /\ stop.at = "idle"
    /\ stop' = [stop EXCEPT !.at = "sweep", !.left = {ProjectOf[c] : c \in clients}]
    /\ UNCHANGED <<clients, closed, ctx, crash, stopFrame>>

\* The outer range reaches a project; the inner one begins.
SweepProject(p) ==
    /\ stop.at = "sweep" /\ stop.project = NoOne
    /\ ClientsOf(p) # {}
    /\ stop' = [stop EXCEPT !.project = p, !.left = @ \ {p}, !.todo = ClientsOf(p)]
    /\ UNCHANGED <<clients, closed, ctx, crash, stopFrame>>

SweepClose(c) ==
    /\ stop.at = "sweep" /\ c \in ClientsOf(stop.project) \ closed
    /\ closed' = closed \cup {c}
    /\ stop' = [stop EXCEPT !.todo = @ \ {c}]
    /\ UNCHANGED <<clients, ctx, crash, stopFrame>>

SweepDelete ==
    /\ stop.at = "sweep" /\ stop.project # NoOne
    /\ stop.todo \cap clients = {}
    /\ clients' = clients \ ClientsOf(stop.project)
    /\ stop' = [stop EXCEPT !.project = NoOne, !.todo = {}]
    /\ UNCHANGED <<closed, ctx, crash, stopFrame>>

\* The outer range is over: SrvWg.Wait() begins.
SweepDone ==
    /\ stop.at = "sweep" /\ stop.project = NoOne
    /\ \A p \in stop.left : ClientsOf(p) = {}
    /\ stop' = [stop EXCEPT !.at = "wait", !.left = {}]
    /\ UNCHANGED <<clients, closed, ctx, crash, stopFrame>>

\* SrvWg.Wait() is over, and only now the context is cancelled.
StopReturn ==
    /\ stop.at = "wait" /\ run = "returned"
    /\ stop' = [stop EXCEPT !.at = "returned"]
    /\ ctx' = TRUE
    /\ UNCHANGED <<clients, closed, crash, stopFrame>>

CancelParent ==
    /\ AllowCancel /\ ~ctx
    /\ ctx' = TRUE
    /\ UNCHANGED <<clients, closed, stop, crash, stopFrame>>

-----------------------------------------------------------------------------
\* A panic or a fatal error ends every goroutine.
Up == crash = "none"

ConnStep(c) == \/ Connect(c) \/ StartWriter(c) \/ Disconnect(c) \/ Tick(c)
               \/ FinishWrite(c) \/ FinishPing(c) \/ LeaveLoop(c)

RunStep == \/ \E c \in Conns : AcceptConnect(c) \/ AcceptClose(c)
           \/ Register \/ Unregister \/ SeeDone \/ Drained

BroadcastStep(b) == \/ Call(b) \/ ReturnAtOnce(b) \/ Lock(b) \/ Unlock(b)
                    \/ \E c \in Conns : Offer(b, c)

StopStep == \/ StopBegin \/ SweepDelete \/ SweepDone \/ StopReturn \/ CancelParent
            \/ \E p \in Projects : SweepProject(p)
            \/ \E c \in Conns : SweepClose(c)

Next == /\ Up
        /\ \/ \E c \in Conns : ConnStep(c)
           \/ RunStep
           \/ \E b \in Broadcasters : BroadcastStep(b)
           \/ StopStep

Spec == Init /\ [][Next]_vars

(***************************************************************************)
(* Fairness.  A goroutine that can run runs (weak).  What waits for a turn *)
(* gets one (strong): blocked senders queue in FIFO order and Go's select  *)
(* picks among the ready cases at random; a sync.Mutex hands over to its   *)
(* longest waiter.  The network ends every write, by success or by error.  *)
(* Nobody has to connect, leave, send a log, or shut the server down.      *)
(***************************************************************************)
Fairness ==
    /\ \A c \in Conns : /\ WF_vars(Up /\ StartWriter(c)) /\ WF_vars(Up /\ Tick(c))
                        /\ WF_vars(Up /\ FinishWrite(c)) /\ WF_vars(Up /\ FinishPing(c))
                        /\ SF_vars(Up /\ LeaveLoop(c))
                        /\ SF_vars(Up /\ AcceptConnect(c)) /\ SF_vars(Up /\ AcceptClose(c))
    /\ SF_vars(Up /\ Register) /\ SF_vars(Up /\ Unregister) /\ SF_vars(Up /\ SeeDone)
    /\ WF_vars(Up /\ Drained)
    /\ \A b \in Broadcasters : /\ SF_vars(Up /\ (Lock(b) \/ ReturnAtOnce(b)))
                               /\ WF_vars(Up /\ \E c \in Conns : Offer(b, c))
                               /\ WF_vars(Up /\ Unlock(b))
    /\ WF_vars(Up /\ \E p \in Projects : SweepProject(p))
    /\ WF_vars(Up /\ \E c \in Conns : SweepClose(c))
    /\ WF_vars(Up /\ SweepDelete) /\ WF_vars(Up /\ SweepDone) /\ WF_vars(Up /\ StopReturn)

FairSpec == Spec /\ Fairness

-----------------------------------------------------------------------------
(* Properties.                                                             *)

ConnState == {"absent", "connecting", "accepted", "select", "writing", "pinging",
              "closing"}

StopState == [at : {"idle", "sweep", "wait", "returned"},
              project : Projects \cup {NoOne},
              left : SUBSET Projects,
              todo : SUBSET Conns]

\* Types of the variables: the states of event.go's goroutines and maps.
TypeOK ==
    /\ clients \in SUBSET Conns /\ closed \in SUBSET Conns
    /\ mu \in Broadcasters \cup {NoOne}
    /\ run \in {"select", "adding", "removing", "draining", "returned"}
    /\ hand \in Conns \cup {NoOne}
    /\ hand \in Conns <=> run \in {"adding", "removing"}
    /\ pc \in [Conns -> ConnState]
    /\ open \in [Conns -> BOOLEAN] /\ broken \in [Conns -> BOOLEAN]
    /\ ctx \in BOOLEAN
    /\ stop \in StopState
    /\ bpc \in [Broadcasters -> {"idle", "calling", "sending"}]
    /\ bproj \in [Broadcasters -> Projects \cup {NoOne}]
    /\ \A b \in Broadcasters : bpc[b] # "idle" => bproj[b] \in Projects
    /\ msg \in [Broadcasters -> Nat]
    /\ todo \in [Broadcasters -> SUBSET Conns]
    /\ crash \in {"none", "closedSend", "mapRace"}
    /\ published \in Seq(Projects)
    /\ received \in [Conns -> Seq(Nat)]

(* The registry holds no channel of a finished writer: every registered    *)
(* connection is between its two rendezvous with Run, or Run is removing   *)
(* it (56-74, 104, 114).  Otherwise the map would grow with every stream.  *)
NoStaleClient ==
    clients \subseteq Live \cup {c \in Conns : run = "removing" /\ hand = c}

(* While nobody calls Stop, a connection past its handshake is registered, *)
(* or Run has it in hand to add it: no writer waits on a channel that no   *)
(* broadcast can reach (56-63, 111-139).                                   *)
NoLostClient ==
    stop.at = "idle" =>
        \A c \in Live : c \in clients \/ (run = "adding" /\ hand = c)

(* A writer is handed broadcasts of the project of its route only, each at *)
(* most once, in the order the mutex was granted (144-157).                *)
InOrderOwnProject ==
    \A c \in Conns :
        /\ \A i \in DOMAIN received[c] :
              /\ received[c][i] \in DOMAIN published
              /\ published[received[c][i]] = ProjectOf[c]
        /\ \A i, j \in DOMAIN received[c] : i < j => received[c][i] < received[c][j]

(* Until Stop is called no broadcast meets a closed channel, which would   *)
(* end the process (83, 153).                                              *)
NoClosedSend == stop.at = "idle" => crash = "none"

(* Nothing but Stop changes the registry under a running range loop of     *)
(* BroadcastToProject: Run writes it under the mutex only (57, 66, 145).   *)
RegistryFrozenWhileSending ==
    [][(\E b \in Broadcasters : bpc[b] = "sending") /\ stop.at # "sweep"
          => clients' = clients]_vars

\* Run has seen the context done and is out of its loop (51-54).
LoopLeft == run \in {"draining", "returned"}

(* Once Run has left its loop it receives no more: a handler that waits on *)
(* ConnectClient and a writer that has not sent its close stay where they  *)
(* are for ever, and while there is such a writer Run waits for it (51-54, *)
(* 104, 114).                                                              *)
ShutdownStrands ==
    [][LoopLeft => /\ LoopLeft'
                   /\ InFlight \subseteq InFlight'
                   /\ \A c \in Conns : pc[c] = "connecting" => pc'[c] = "connecting"
                   /\ InFlight # {} => run' = run]_vars

(* A dashboard that opens a stream is registered in the end (104, 56-63).  *)
ConnectServed == \A c \in Conns : pc[c] = "connecting" ~> c \in clients

(* A reader that goes away is noticed by a later write and its channel     *)
(* leaves the registry (114, 129-135, 65-74).                              *)
DisconnectReclaimed ==
    \A c \in Conns : pc[c] # "absent" /\ ~open[c] ~> pc[c] = "absent" /\ c \notin clients

(* BroadcastToProject never waits for a stream: whatever the writers do,   *)
(* the log handler that calls it goes on (151-156).                        *)
BroadcastReturns == \A b \in Broadcasters : bpc[b] = "calling" ~> bpc[b] = "idle"

(* What makes the safety properties inductive.  The connection in Run's    *)
(* hand is past its handshake while it is added, and finished while it is  *)
(* removed; the broadcaster in its loop is the one that holds the mutex,   *)
(* its message is the newest, and what it has still to visit belongs to    *)
(* its project and has not got that message.                               *)
RegistryInv ==
    /\ NoStaleClient
    /\ NoLostClient
    /\ run = "adding" => hand \in Live
    /\ run = "removing" => pc[hand] = "absent"

MutexInv == \A b \in Broadcasters : bpc[b] = "sending" <=> mu = b

SendingInv ==
    \A b \in Broadcasters :
        /\ bpc[b] = "sending" => /\ msg[b] = Len(published)
                                /\ msg[b] \in DOMAIN published
                                /\ published[msg[b]] = bproj[b]
        /\ \A c \in todo[b] :
              /\ bpc[b] = "sending"
              /\ ProjectOf[c] = bproj[b]
              /\ \A i \in DOMAIN received[c] : received[c][i] < msg[b]

BeforeStopInv == stop.at = "idle" => closed = {} /\ crash = "none"

IInv == /\ TypeOK /\ RegistryInv /\ MutexInv /\ SendingInv /\ InOrderOwnProject
        /\ BeforeStopInv

(* The event server implements the lossy, ordered, per-project feed.       *)
Feed == INSTANCE ProjectFeed
            WITH subscribed <- {c \in Conns : pc[c] # "absent"}

FeedSpec == Feed!Spec

-----------------------------------------------------------------------------
(* A statement of the repository that the code does not keep.              *)

(* event.go:80: Stop logs "Waiting for SSE server routines to finish".     *)
StopReturns == stop.at = "wait" ~> stop.at = "returned"

=============================================================================
