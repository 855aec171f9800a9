-------------------------- MODULE EventServerProofs --------------------------
(***************************************************************************)
(* Theorems about EventServer, for every set of connections, projects and  *)
(* broadcasters and every bound.                                           *)
(***************************************************************************)
EXTENDS EventServer, TLAPS

\* Every value of Conns, Projects and Broadcasters differs from NoOne.
LEMMA NoOneIsNone ==
    /\ NoOne \notin Conns /\ NoOne \notin Projects /\ NoOne \notin Broadcasters
    /\ \A c \in Conns : ProjectOf[c] \in Projects
BY ServerAssumption

-----------------------------------------------------------------------------
\* A step of a connection (Connect to LeaveLoop) preserves the types.
LEMMA ConnTyped ==
    ASSUME TypeOK, NEW c \in Conns, ConnStep(c)  PROVE  TypeOK'
<1> USE DEF TypeOK, ConnState, connVars, bcastVars, runVars, stopVars
<1>1. CASE Connect(c)       BY <1>1 DEF Connect
<1>2. CASE StartWriter(c)   BY <1>2 DEF StartWriter, Goes
<1>3. CASE Disconnect(c)    BY <1>3 DEF Disconnect
<1>4. CASE Tick(c)          BY <1>4 DEF Tick, Goes
<1>5. CASE FinishWrite(c)   BY <1>5 DEF FinishWrite, WriteOutcome
<1>6. CASE FinishPing(c)    BY <1>6 DEF FinishPing, WriteOutcome
<1>7. CASE LeaveLoop(c)     BY <1>7 DEF LeaveLoop, Goes
<1> QED BY <1>1, <1>2, <1>3, <1>4, <1>5, <1>6, <1>7 DEF ConnStep

\* A step of Run preserves the types.
LEMMA RunTyped ==
    ASSUME TypeOK, RunStep  PROVE  TypeOK'
<1> USE NoOneIsNone DEF TypeOK, ConnState, connVars, bcastVars, runVars, stopVars
<1>1. ASSUME NEW c \in Conns, AcceptConnect(c)  PROVE TypeOK'
      BY <1>1 DEF AcceptConnect
<1>2. ASSUME NEW c \in Conns, AcceptClose(c)  PROVE TypeOK'
      BY <1>2 DEF AcceptClose
<1>3. CASE Register    BY <1>3 DEF Register, MapAccess, Add
<1>4. CASE Unregister  BY <1>4 DEF Unregister, MapAccess, Remove
<1>5. CASE SeeDone     BY <1>5 DEF SeeDone
<1>6. CASE Drained     BY <1>6 DEF Drained, RunReturns
<1> QED BY <1>1, <1>2, <1>3, <1>4, <1>5, <1>6 DEF RunStep

\* A step of BroadcastToProject preserves the types.
LEMMA BroadcastTyped ==
    ASSUME TypeOK, NEW b \in Broadcasters, BroadcastStep(b)  PROVE  TypeOK'
<1> USE NoOneIsNone DEF TypeOK, ConnState, connVars, bcastVars, runVars, stopVars
<1>1. CASE Call(b)          BY <1>1 DEF Call, Enter
<1>2. CASE ReturnAtOnce(b)  BY <1>2 DEF ReturnAtOnce, MapAccess, FindNobody
<1>3. CASE Lock(b)          BY <1>3 DEF Lock, MapAccess, ClientsOf, BeginLoop
<1>4. CASE Unlock(b)        BY <1>4 DEF Unlock
<1>5. ASSUME NEW c \in Conns, Offer(b, c)  PROVE TypeOK'
  <2>1. Append(received[c], msg[b]) \in Seq(Nat)
        OBVIOUS
  <2>2. received' \in [Conns -> Seq(Nat)]
        BY <1>5, <2>1 DEF Offer
  <2>3. pc' \in [Conns -> ConnState]
    <3>1. pc' = pc \/ pc' = [pc EXCEPT ![c] = "writing"]
          BY <1>5 DEF Offer
    <3> QED BY <3>1
  <2>4. todo' \in [Broadcasters -> SUBSET Conns]
    <3>1. todo' = [todo EXCEPT ![b] = @ \ {c}]
          BY <1>5 DEF Offer
    <3>2. todo[b] \ {c} \in SUBSET Conns
          OBVIOUS
    <3> QED BY <3>1, <3>2
  <2>5. crash' \in {"none", "closedSend", "mapRace"}
        BY <1>5 DEF Offer
  <2>6. UNCHANGED <<clients, mu, run, hand, open, broken, closed, ctx, stop, bpc,
                    bproj, msg, published>>
        BY <1>5 DEF Offer
  <2> QED BY <2>2, <2>3, <2>4, <2>5, <2>6
<1> QED BY <1>1, <1>2, <1>3, <1>4, <1>5 DEF BroadcastStep

\* A step of Stop, or of the parent context, preserves the types.
LEMMA StopTyped ==
    ASSUME TypeOK, StopStep  PROVE  TypeOK'
<1> USE NoOneIsNone DEF TypeOK, StopState, connVars, bcastVars, runVars, stopVars, stopFrame
<1>1. CASE StopBegin
  <2>1. {ProjectOf[c] : c \in clients} \in SUBSET Projects
        OBVIOUS
  <2>2. stop' \in StopState
        BY <1>1, <2>1 DEF StopBegin
  <2> QED BY <1>1, <2>2 DEF StopBegin
<1>2. CASE SweepDelete   BY <1>2 DEF SweepDelete
<1>3. CASE SweepDone     BY <1>3 DEF SweepDone
<1>4. CASE StopReturn    BY <1>4 DEF StopReturn
<1>5. CASE CancelParent  BY <1>5 DEF CancelParent
<1>6. ASSUME NEW p \in Projects, SweepProject(p)  PROVE TypeOK'
      BY <1>6 DEF SweepProject, ClientsOf
<1>7. ASSUME NEW c \in Conns, SweepClose(c)  PROVE TypeOK'
      BY <1>7 DEF SweepClose, ClientsOf
<1> QED BY <1>1, <1>2, <1>3, <1>4, <1>5, <1>6, <1>7 DEF StopStep

(* Every variable keeps its type: the goroutines of event.go stay in the   *)
(* states of the model, and Run holds a connection in hand exactly while   *)
(* it adds or removes one.                                                 *)
THEOREM TypeCorrect == Spec => []TypeOK
<1>1. Init => TypeOK
  <2> SUFFICES ASSUME Init PROVE TypeOK
      OBVIOUS
  <2>1. stop \in StopState
        BY DEF Init, StopState
  <2>2. /\ published \in Seq(Projects)
        /\ received \in [Conns -> Seq(Nat)]
        BY DEF Init
  <2>3. /\ bpc \in [Broadcasters -> {"idle", "calling", "sending"}]
        /\ bproj \in [Broadcasters -> Projects \cup {NoOne}]
        /\ \A b \in Broadcasters : bpc[b] = "idle"
        BY DEF Init
  <2> QED BY <2>1, <2>2, <2>3, NoOneIsNone DEF Init, TypeOK, ConnState
<1>2. TypeOK /\ [Next]_vars => TypeOK'
  <2>1. CASE Next
        BY <2>1, ConnTyped, RunTyped, BroadcastTyped, StopTyped DEF Next
  <2>2. CASE UNCHANGED vars
        BY <2>2 DEF TypeOK, vars
  <2> QED BY <2>1, <2>2
<1> QED BY <1>1, <1>2, PTL DEF Spec

-----------------------------------------------------------------------------
(* The registry.                                                           *)

\* A step of a connection preserves the registry invariant.
LEMMA ConnRegistry ==
    ASSUME TypeOK, RegistryInv, NEW c \in Conns, ConnStep(c)  PROVE  RegistryInv'
<1> USE DEF TypeOK, ConnState, RegistryInv, NoStaleClient, NoLostClient, Live, InFlight,
            connVars, bcastVars, runVars, stopVars
<1>1. CASE Connect(c)       BY <1>1 DEF Connect, Referenced
<1>2. CASE StartWriter(c)   BY <1>2 DEF StartWriter, Goes
<1>3. CASE Disconnect(c)    BY <1>3 DEF Disconnect
<1>4. CASE Tick(c)          BY <1>4 DEF Tick, Goes
<1>5. CASE FinishWrite(c)   BY <1>5 DEF FinishWrite, WriteOutcome
<1>6. CASE FinishPing(c)    BY <1>6 DEF FinishPing, WriteOutcome
<1>7. CASE LeaveLoop(c)     BY <1>7 DEF LeaveLoop, Goes
<1> QED BY <1>1, <1>2, <1>3, <1>4, <1>5, <1>6, <1>7 DEF ConnStep

\* A step of Run, which alone adds and removes, preserves it.
LEMMA RunRegistry ==
    ASSUME TypeOK, RegistryInv, RunStep  PROVE  RegistryInv'
<1> USE NoOneIsNone DEF TypeOK, ConnState, RegistryInv, NoStaleClient, NoLostClient, Live,
            InFlight, connVars, bcastVars, runVars, stopVars
<1>1. ASSUME NEW c \in Conns, AcceptConnect(c)  PROVE RegistryInv'
      BY <1>1 DEF AcceptConnect
<1>2. ASSUME NEW c \in Conns, AcceptClose(c)  PROVE RegistryInv'
      BY <1>2 DEF AcceptClose
<1>3. CASE Register    BY <1>3 DEF Register, Add
<1>4. CASE Unregister  BY <1>4 DEF Unregister, Remove
<1>5. CASE SeeDone     BY <1>5 DEF SeeDone
<1>6. CASE Drained     BY <1>6 DEF Drained, RunReturns
<1> QED BY <1>1, <1>2, <1>3, <1>4, <1>5, <1>6 DEF RunStep

\* BroadcastToProject only moves writers between live states.
LEMMA BroadcastRegistry ==
    ASSUME TypeOK, RegistryInv, NEW b \in Broadcasters, BroadcastStep(b)
    PROVE  RegistryInv'
<1> USE DEF TypeOK, ConnState, RegistryInv, NoStaleClient, NoLostClient, Live, InFlight,
            connVars, bcastVars, runVars, stopVars
<1>1. CASE Call(b)          BY <1>1 DEF Call, Enter
<1>2. CASE ReturnAtOnce(b)  BY <1>2 DEF ReturnAtOnce, FindNobody
<1>3. CASE Lock(b)          BY <1>3 DEF Lock, BeginLoop
<1>4. CASE Unlock(b)        BY <1>4 DEF Unlock
<1>5. ASSUME NEW c \in Conns, Offer(b, c)  PROVE RegistryInv'
  <2>1. pc' = pc \/ (pc[c] = "select" /\ pc' = [pc EXCEPT ![c] = "writing"])
        BY <1>5 DEF Offer
  <2>2. Live' = Live
        BY <2>1
  <2>3. run = "removing" /\ pc[hand] = "absent" => pc'[hand] = "absent"
        BY <2>1
  <2>4. UNCHANGED <<clients, run, hand, stop>>
        BY <1>5 DEF Offer
  <2> QED BY <2>2, <2>3, <2>4 DEF RegistryInv, NoStaleClient, NoLostClient
<1> QED BY <1>1, <1>2, <1>3, <1>4, <1>5 DEF BroadcastStep

\* Stop only takes connections out of the registry.
LEMMA StopRegistry ==
    ASSUME TypeOK, RegistryInv, StopStep  PROVE  RegistryInv'
<1> USE NoOneIsNone DEF TypeOK, StopState, RegistryInv, NoStaleClient, NoLostClient, Live,
            InFlight, connVars, bcastVars, runVars, stopVars, stopFrame
<1>1. CASE StopBegin     BY <1>1 DEF StopBegin
<1>2. CASE SweepDelete   BY <1>2 DEF SweepDelete
<1>3. CASE SweepDone     BY <1>3 DEF SweepDone
<1>4. CASE StopReturn    BY <1>4 DEF StopReturn
<1>5. CASE CancelParent  BY <1>5 DEF CancelParent
<1>6. ASSUME NEW p \in Projects, SweepProject(p)  PROVE RegistryInv'
      BY <1>6 DEF SweepProject
<1>7. ASSUME NEW c \in Conns, SweepClose(c)  PROVE RegistryInv'
      BY <1>7 DEF SweepClose
<1> QED BY <1>1, <1>2, <1>3, <1>4, <1>5, <1>6, <1>7 DEF StopStep

(* No channel of a finished writer stays in the registry, and until Stop   *)
(* is called no writer is left out of it.                                  *)
THEOREM RegistryExact == Spec => [](NoStaleClient /\ NoLostClient)
<1>1. Init => RegistryInv
      BY NoOneIsNone
      DEF Init, RegistryInv, NoStaleClient, NoLostClient, Live, InFlight
<1>2. TypeOK /\ RegistryInv /\ [Next]_vars => RegistryInv'
  <2> SUFFICES ASSUME TypeOK, RegistryInv, [Next]_vars  PROVE RegistryInv'
      OBVIOUS
  <2>1. CASE Next
        BY <2>1, ConnRegistry, RunRegistry, BroadcastRegistry, StopRegistry DEF Next
  <2>2. CASE UNCHANGED vars
        BY <2>2 DEF RegistryInv, NoStaleClient, NoLostClient, Live, InFlight, vars
  <2> QED BY <2>1, <2>2
<1>3. RegistryInv => NoStaleClient /\ NoLostClient
      BY DEF RegistryInv
<1> QED BY <1>1, <1>2, <1>3, TypeCorrect, PTL DEF Spec

(* Until Stop is called every writer that has passed its handshake is in   *)
(* the registry, or in the hand of Run on its way there.                   *)
THEOREM NoneLost == Spec => []NoLostClient
BY RegistryExact, PTL

-----------------------------------------------------------------------------
(* Delivery.  The mutex serialises the range loops, so the broadcast being *)
(* sent is always the newest one.                                          *)

\* The steps of the connections, of Run and of Stop touch nothing that the
\* loops use, but for the request that starts with nothing received.
LEMMA QuietStep ==
    ASSUME TypeOK, MutexInv, SendingInv, InOrderOwnProject,
           UNCHANGED <<mu, bpc, bproj, msg, todo, published>>,
           \/ UNCHANGED received
           \/ \E c \in Conns : received' = [received EXCEPT ![c] = <<>>]
    PROVE  MutexInv' /\ SendingInv' /\ InOrderOwnProject'
<1> USE DEF TypeOK, MutexInv, SendingInv, InOrderOwnProject
<1>1. CASE UNCHANGED received
      BY <1>1
<1>2. ASSUME NEW d \in Conns, received' = [received EXCEPT ![d] = <<>>]
      PROVE  MutexInv' /\ SendingInv' /\ InOrderOwnProject'
  <2>1. \A c \in Conns : received'[c] = IF c = d THEN <<>> ELSE received[c]
        BY <1>2
  <2>2. DOMAIN received'[d] = {}
        BY <2>1
  <2>3. \A c \in Conns \ {d} : received'[c] = received[c]
        BY <2>1
  <2>4. MutexInv'
        OBVIOUS
  <2>5. SendingInv'
        BY <2>2, <2>3
  <2>6. InOrderOwnProject'
        BY <2>2, <2>3
  <2> QED BY <2>4, <2>5, <2>6
<1> QED BY <1>1, <1>2

\* Steps outside BroadcastToProject preserve what holds of the range loops and
\* of what was delivered.
LEMMA QuietSteps ==
    ASSUME TypeOK, MutexInv, SendingInv, InOrderOwnProject,
           (\E c \in Conns : ConnStep(c)) \/ RunStep \/ StopStep
    PROVE  MutexInv' /\ SendingInv' /\ InOrderOwnProject'
<1> USE DEF connVars, bcastVars, runVars, stopVars, stopFrame
<1>1. ASSUME NEW c \in Conns, ConnStep(c)
      PROVE  /\ UNCHANGED <<mu, bpc, bproj, msg, todo, published>>
             /\ \/ UNCHANGED received
                \/ received' = [received EXCEPT ![c] = <<>>]
      BY <1>1 DEF ConnStep, Connect, StartWriter, Disconnect, Tick, FinishWrite,
                  FinishPing, LeaveLoop, Goes
<1>2. CASE RunStep
      BY <1>2, QuietStep DEF RunStep, AcceptConnect, AcceptClose, Register, Unregister,
                             SeeDone, Drained, RunReturns, Add, Remove
<1>3. CASE StopStep
      BY <1>3, QuietStep DEF StopStep, StopBegin, SweepProject, SweepClose, SweepDelete,
                             SweepDone, StopReturn, CancelParent
<1> QED BY <1>1, <1>2, <1>3, QuietStep

\* A broadcast starts: it is the newest, so newer than all that any stream has.
LEMMA PublishStep ==
    ASSUME TypeOK, InOrderOwnProject, UNCHANGED received,
           NEW p \in Projects, published' = Append(published, p)
    PROVE  /\ InOrderOwnProject'
           /\ Len(published') = Len(published) + 1
           /\ published'[Len(published')] = p
           /\ \A c \in Conns : \A i \in DOMAIN received'[c] :
                 received'[c][i] < Len(published')
<1> USE DEF TypeOK, InOrderOwnProject
<1>1. /\ Len(published') = Len(published) + 1
      /\ DOMAIN published' = 1 .. Len(published')
      /\ published'[Len(published')] = p
      /\ \A i \in DOMAIN published : i \in DOMAIN published' /\ published'[i] = published[i]
      OBVIOUS
<1>2. InOrderOwnProject'
      BY <1>1
<1>3. ASSUME NEW c \in Conns, NEW i \in DOMAIN received'[c]
      PROVE  received'[c][i] < Len(published')
  <2>1. received[c][i] \in 1 .. Len(published)
        BY <1>3
  <2> QED BY <1>1, <2>1
<1> QED BY <1>1, <1>2, <1>3

\* A stream is handed the newest broadcast, which it did not have.
LEMMA HandOverStep ==
    ASSUME TypeOK, InOrderOwnProject, UNCHANGED published,
           NEW c \in Conns, NEW n \in DOMAIN published,
           published[n] = ProjectOf[c],
           \A i \in DOMAIN received[c] : received[c][i] < n,
           received' = [received EXCEPT ![c] = Append(@, n)]
    PROVE  InOrderOwnProject'
<1> USE DEF TypeOK, InOrderOwnProject
<1>1. n \in Nat
      OBVIOUS
<1>2. received'[c] = Append(received[c], n) /\ received[c] \in Seq(Nat)
      OBVIOUS
<1>3. /\ DOMAIN received'[c] = 1 .. Len(received[c]) + 1
      /\ received'[c][Len(received[c]) + 1] = n
      /\ \A i \in DOMAIN received[c] : received'[c][i] = received[c][i]
      /\ DOMAIN received[c] = 1 .. Len(received[c])
      BY <1>1, <1>2
<1>4. \A d \in Conns \ {c} : received'[d] = received[d]
      OBVIOUS
<1>5. \A i \in DOMAIN received'[c] :
         /\ received'[c][i] \in DOMAIN published
         /\ published[received'[c][i]] = ProjectOf[c]
      BY <1>3
<1>6. \A i, j \in DOMAIN received'[c] : i < j => received'[c][i] < received'[c][j]
  <2> SUFFICES ASSUME NEW i \in DOMAIN received'[c], NEW j \in DOMAIN received'[c], i < j
               PROVE  received'[c][i] < received'[c][j]
      OBVIOUS
  <2>1. i \in DOMAIN received[c]
        BY <1>3
  <2>2. CASE j \in DOMAIN received[c]
        BY <2>1, <2>2, <1>3
  <2>3. CASE j = Len(received[c]) + 1
        BY <2>1, <2>3, <1>3
  <2> QED BY <1>3, <2>2, <2>3
<1> QED BY <1>4, <1>5, <1>6

\* So do the steps of BroadcastToProject, which hold the mutex.
LEMMA BroadcastSteps ==
    ASSUME TypeOK, MutexInv, SendingInv, InOrderOwnProject,
           NEW b \in Broadcasters, BroadcastStep(b)
    PROVE  MutexInv' /\ SendingInv' /\ InOrderOwnProject'
<1> USE NoOneIsNone
<1>1. CASE Call(b)
  <2>1. MutexInv' /\ InOrderOwnProject'
        BY <1>1 DEF Call, TypeOK, MutexInv, InOrderOwnProject, Enter
  <2>2. SendingInv'
        BY <1>1 DEF Call, TypeOK, SendingInv, Enter
  <2> QED BY <2>1, <2>2
<1>2. CASE ReturnAtOnce(b)
  <2>1. mu = NoOne /\ \A x \in Broadcasters : bpc[x] # "sending"
        BY <1>2 DEF ReturnAtOnce, MutexInv, FindNobody
  <2>2. MutexInv'
        BY <1>2, <2>1 DEF ReturnAtOnce, TypeOK, MutexInv, FindNobody
  <2>3. SendingInv'
        BY <1>2, <2>1 DEF ReturnAtOnce, TypeOK, SendingInv, FindNobody
  <2>4. InOrderOwnProject'
        BY <1>2, PublishStep DEF ReturnAtOnce, TypeOK, FindNobody
  <2> QED BY <2>2, <2>3, <2>4
<1>3. CASE Lock(b)
  <2>1. mu = NoOne /\ \A x \in Broadcasters : bpc[x] # "sending"
        BY <1>3 DEF Lock, MutexInv, BeginLoop
  <2>2. MutexInv'
        BY <1>3, <2>1 DEF Lock, TypeOK, MutexInv, BeginLoop
  <2>3. /\ InOrderOwnProject'
        /\ Len(published') = Len(published) + 1
        /\ published'[Len(published')] = bproj[b]
        /\ \A c \in Conns : \A i \in DOMAIN received'[c] :
              received'[c][i] < Len(published')
        BY <1>3, PublishStep DEF Lock, TypeOK, BeginLoop
  <2>4. Len(published') \in DOMAIN published'
        BY <1>3, <2>3 DEF Lock, TypeOK, BeginLoop
  <2>5. /\ bpc' = [bpc EXCEPT ![b] = "sending"]
        /\ msg' = [msg EXCEPT ![b] = Len(published')]
        /\ todo' = [todo EXCEPT ![b] = ClientsOf(bproj[b])]
        /\ bproj' = bproj
        BY <1>3 DEF Lock, BeginLoop
  <2>6. ClientsOf(bproj[b]) \subseteq {c \in Conns : ProjectOf[c] = bproj[b]}
        BY DEF ClientsOf, TypeOK
  <2>7. SendingInv'
    <3> SUFFICES ASSUME NEW x \in Broadcasters
                 PROVE  /\ bpc'[x] = "sending" => /\ msg'[x] = Len(published')
                                                 /\ msg'[x] \in DOMAIN published'
                                                 /\ published'[msg'[x]] = bproj'[x]
                        /\ \A c \in todo'[x] :
                              /\ bpc'[x] = "sending"
                              /\ ProjectOf[c] = bproj'[x]
                              /\ \A i \in DOMAIN received'[c] : received'[c][i] < msg'[x]
        BY DEF SendingInv
    <3>1. CASE x = b
          BY <3>1, <2>3, <2>4, <2>5, <2>6 DEF TypeOK
    <3>2. CASE x # b
          BY <3>2, <2>1, <2>5 DEF TypeOK, SendingInv
    <3> QED BY <3>1, <3>2
  <2> QED BY <2>2, <2>3, <2>7
<1>4. CASE Unlock(b)
  <2>1. MutexInv' /\ InOrderOwnProject'
        BY <1>4 DEF Unlock, TypeOK, MutexInv, InOrderOwnProject
  <2>2. SendingInv'
        BY <1>4 DEF Unlock, TypeOK, SendingInv
  <2> QED BY <2>1, <2>2
<1>5. ASSUME NEW c \in Conns, Offer(b, c)
      PROVE  MutexInv' /\ SendingInv' /\ InOrderOwnProject'
  <2>1. /\ bpc[b] = "sending" /\ c \in todo[b]
        /\ todo' = [todo EXCEPT ![b] = @ \ {c}]
        /\ UNCHANGED <<mu, bpc, bproj, msg, published>>
        BY <1>5 DEF Offer
  <2>2. /\ msg[b] \in DOMAIN published /\ published[msg[b]] = ProjectOf[c]
        /\ \A i \in DOMAIN received[c] : received[c][i] < msg[b]
        BY <2>1 DEF SendingInv
  <2>3. \A x \in Broadcasters : x # b => todo[x] = {}
        BY <2>1 DEF MutexInv, SendingInv, TypeOK
  <2>4. \/ UNCHANGED received
        \/ received' = [received EXCEPT ![c] = Append(@, msg[b])]
        BY <1>5 DEF Offer
  <2>5. MutexInv'
        BY <2>1 DEF MutexInv
  <2>6. InOrderOwnProject'
    <3>1. CASE UNCHANGED received
          BY <3>1, <2>1 DEF InOrderOwnProject
    <3>2. CASE received' = [received EXCEPT ![c] = Append(@, msg[b])]
          BY <3>2, <2>1, <2>2, HandOverStep
    <3> QED BY <2>4, <3>1, <3>2
  <2>7. SendingInv'
    <3>1. \A d \in Conns \ {c} : received'[d] = received[d]
          BY <2>4 DEF TypeOK
    <3>2. \A x \in Broadcasters : todo'[x] \subseteq todo[x] \ {c}
          BY <2>1, <2>3 DEF TypeOK
    <3>3. \A x \in Broadcasters : \A d \in todo'[x] : d \in Conns \ {c} /\ d \in todo[x]
          BY <3>2 DEF TypeOK
    <3> QED BY <2>1, <3>1, <3>3 DEF SendingInv
  <2> QED BY <2>5, <2>6, <2>7
<1> QED BY <1>1, <1>2, <1>3, <1>4, <1>5 DEF BroadcastStep

\* Both together: the range loops and the deliveries, in every behaviour.
LEMMA DeliveryInvariant == Spec => [](MutexInv /\ SendingInv /\ InOrderOwnProject)
<1> DEFINE Inv == MutexInv /\ SendingInv /\ InOrderOwnProject
<1>1. Init => Inv
      BY NoOneIsNone DEF Init, MutexInv, SendingInv, InOrderOwnProject
<1>2. TypeOK /\ Inv /\ [Next]_vars => Inv'
  <2> SUFFICES ASSUME TypeOK, Inv, [Next]_vars  PROVE Inv'
      OBVIOUS
  <2>1. CASE Next
        BY <2>1, QuietSteps, BroadcastSteps DEF Next
  <2>2. CASE UNCHANGED vars
        BY <2>2 DEF MutexInv, SendingInv, InOrderOwnProject, vars
  <2> QED BY <2>1, <2>2
<1> QED BY <1>1, <1>2, TypeCorrect, PTL DEF Spec

(* A stream is handed its own project's broadcasts only, none twice, and   *)
(* in the order in which they took the mutex.                              *)
THEOREM DeliveryInOrder == Spec => []InOrderOwnProject
BY DeliveryInvariant, PTL

(* While a range loop runs, Run leaves the registry alone.                 *)
THEOREM RegistryFrozen == Spec => RegistryFrozenWhileSending
<1> DEFINE Frozen == (\E b \in Broadcasters : bpc[b] = "sending") /\ stop.at # "sweep"
                        => clients' = clients
<1>1. MutexInv /\ [Next]_vars => [Frozen]_vars
  <2> SUFFICES ASSUME MutexInv, Next, stop.at # "sweep",
                      NEW b \in Broadcasters, bpc[b] = "sending"
               PROVE  clients' = clients
      OBVIOUS
  <2>1. mu # NoOne
        BY NoOneIsNone DEF MutexInv
  <2> USE DEF connVars, bcastVars, runVars, stopVars, stopFrame
  <2>2. ASSUME NEW c \in Conns, ConnStep(c)  PROVE clients' = clients
        BY <2>2 DEF ConnStep, Connect, StartWriter, Disconnect, Tick, FinishWrite,
                    FinishPing, LeaveLoop, Goes
  <2>3. CASE RunStep
        BY <2>1, <2>3 DEF RunStep, AcceptConnect, AcceptClose, Register, Unregister,
                          SeeDone, Drained, RunReturns, Add, Remove
  <2>4. ASSUME NEW x \in Broadcasters, BroadcastStep(x)  PROVE clients' = clients
        BY <2>4
           DEF BroadcastStep, Call, ReturnAtOnce, Lock, Offer, Unlock, Enter, FindNobody,
               BeginLoop
  <2>5. CASE StopStep
        BY <2>5 DEF StopStep, StopBegin, SweepProject, SweepClose, SweepDelete,
                    SweepDone, StopReturn, CancelParent
  <2> QED BY <2>2, <2>3, <2>4, <2>5 DEF Next
<1> QED BY <1>1, DeliveryInvariant, PTL DEF Spec, RegistryFrozenWhileSending

(* Before Stop is called no channel is closed, so no send panics.          *)
THEOREM NoSendOnClosed == Spec => []NoClosedSend
<1>1. Init => BeforeStopInv
      BY DEF Init, BeforeStopInv
<1>2. TypeOK /\ BeforeStopInv /\ [Next]_vars => BeforeStopInv'
  <2> SUFFICES ASSUME TypeOK, BeforeStopInv, [Next]_vars  PROVE BeforeStopInv'
      OBVIOUS
  <2> USE DEF BeforeStopInv, connVars, bcastVars, runVars, stopVars, stopFrame, MapAccess
  <2>1. ASSUME NEW c \in Conns, ConnStep(c)  PROVE BeforeStopInv'
        BY <2>1 DEF ConnStep, Connect, StartWriter, Disconnect, Tick, FinishWrite,
                    FinishPing, LeaveLoop, Goes
  <2>2. CASE RunStep
        BY <2>2 DEF RunStep, AcceptConnect, AcceptClose, Register, Unregister, SeeDone,
                    Drained, RunReturns, Add, Remove
  <2>3. ASSUME NEW b \in Broadcasters, BroadcastStep(b)  PROVE BeforeStopInv'
        BY <2>3
           DEF BroadcastStep, Call, ReturnAtOnce, Lock, Offer, Unlock, Enter, FindNobody,
               BeginLoop
  <2>4. CASE StopStep
    <3>1. CASE StopBegin
          BY <3>1 DEF StopBegin, TypeOK, StopState
    <3>2. CASE CancelParent
          BY <3>2 DEF CancelParent
    <3>3. CASE \/ SweepDelete \/ SweepDone \/ StopReturn
               \/ \E p \in Projects : SweepProject(p)
               \/ \E c \in Conns : SweepClose(c)
          BY <3>3 DEF SweepDelete, SweepDone, StopReturn, SweepProject, SweepClose,
                      TypeOK, StopState
    <3> QED BY <2>4, <3>1, <3>2, <3>3 DEF StopStep
  <2>5. CASE UNCHANGED vars
        BY <2>5 DEF vars
  <2> QED BY <2>1, <2>2, <2>3, <2>4, <2>5 DEF Next
<1>3. BeforeStopInv => NoClosedSend
      BY DEF BeforeStopInv, NoClosedSend
<1> QED BY <1>1, <1>2, <1>3, TypeCorrect, PTL DEF Spec

-----------------------------------------------------------------------------
(* Shutdown: what Stop and a done context can never bring to an end.       *)

(* Once Run has left its loop nothing takes a writer out of its stream or  *)
(* a handler out of ConnectClient, and with a writer in flight Run stays.  *)
THEOREM ShutdownHangs == Spec => ShutdownStrands
<1> DEFINE Stay == LoopLeft => /\ LoopLeft'
                               /\ InFlight \subseteq InFlight'
                               /\ \A c \in Conns : pc[c] = "connecting" => pc'[c] = "connecting"
                               /\ InFlight # {} => run' = run
<1>1. TypeOK /\ [Next]_vars => [Stay]_vars
  <2> SUFFICES ASSUME TypeOK, Next, LoopLeft
               PROVE  /\ run' \in {"draining", "returned"}
                      /\ InFlight \subseteq InFlight'
                      /\ \A c \in Conns : pc[c] = "connecting" => pc'[c] = "connecting"
                      /\ InFlight # {} => run' = run
      BY DEF LoopLeft
  <2> USE DEF LoopLeft, InFlight, TypeOK, connVars, bcastVars, runVars, stopVars, stopFrame
  <2>1. ASSUME NEW c \in Conns, ConnStep(c)
        PROVE  UNCHANGED run /\ InFlight \subseteq InFlight'
               /\ \A d \in Conns : pc[d] = "connecting" => pc'[d] = "connecting"
    <3>1. CASE \/ Connect(c) \/ StartWriter(c) \/ Disconnect(c) \/ Tick(c) \/ LeaveLoop(c)
          BY <3>1 DEF Connect, StartWriter, Disconnect, Tick, LeaveLoop, Goes
    <3>2. CASE FinishWrite(c) \/ FinishPing(c)
          BY <3>2 DEF FinishWrite, FinishPing, WriteOutcome
    <3> QED BY <2>1, <3>1, <3>2 DEF ConnStep
  <2>2. CASE RunStep
    <3>1. Drained
          BY <2>2 DEF RunStep, AcceptConnect, AcceptClose, Register, Unregister, SeeDone,
                      Add, Remove
    <3> QED BY <3>1 DEF Drained, RunReturns
  <2>3. ASSUME NEW b \in Broadcasters, BroadcastStep(b)
        PROVE  UNCHANGED run /\ InFlight \subseteq InFlight'
               /\ \A d \in Conns : pc[d] = "connecting" => pc'[d] = "connecting"
    <3>1. CASE Call(b) \/ ReturnAtOnce(b) \/ Lock(b) \/ Unlock(b)
          BY <3>1 DEF Call, ReturnAtOnce, Lock, Unlock, Enter, FindNobody, BeginLoop
    <3>2. ASSUME NEW c \in Conns, Offer(b, c)
          PROVE  /\ UNCHANGED run
                 /\ \/ pc' = pc
                    \/ pc[c] = "select" /\ pc' = [pc EXCEPT ![c] = "writing"]
      <4> HIDE DEF TypeOK, InFlight
      <4> QED BY <3>2 DEF Offer
    <3> QED BY <2>3, <3>1, <3>2 DEF BroadcastStep
  <2>4. CASE StopStep
        BY <2>4 DEF StopStep, StopBegin, SweepProject, SweepClose, SweepDelete,
                    SweepDone, StopReturn, CancelParent
  <2> QED BY <2>1, <2>2, <2>3, <2>4 DEF Next
<1> QED BY <1>1, TypeCorrect, PTL DEF Spec, ShutdownStrands

\* Stop has not returned before Run has, and Run leaves its loop on a done context only.
StopOrder == /\ stop.at = "returned" => run = "returned"
             /\ LoopLeft => ctx

\* The order in which Run and Stop come to their ends.
LEMMA StopOrdered == Spec => []StopOrder
<1>1. Init => StopOrder
      BY DEF Init, StopOrder, LoopLeft
<1>2. TypeOK /\ StopOrder /\ [Next]_vars => StopOrder'
  <2> SUFFICES ASSUME TypeOK, StopOrder, [Next]_vars  PROVE StopOrder'
      OBVIOUS
  <2> USE DEF StopOrder, LoopLeft, connVars, bcastVars, runVars, stopVars, stopFrame
  <2>1. ASSUME NEW c \in Conns, ConnStep(c)  PROVE StopOrder'
        BY <2>1 DEF ConnStep, Connect, StartWriter, Disconnect, Tick, FinishWrite,
                    FinishPing, LeaveLoop, Goes
  <2>2. CASE RunStep
        BY <2>2 DEF RunStep, AcceptConnect, AcceptClose, Register, Unregister, SeeDone,
                    Drained, RunReturns, Add, Remove
  <2>3. ASSUME NEW b \in Broadcasters, BroadcastStep(b)  PROVE StopOrder'
        BY <2>3
           DEF BroadcastStep, Call, ReturnAtOnce, Lock, Offer, Unlock, Enter, FindNobody,
               BeginLoop
  <2>4. CASE StopStep
    <3>1. CASE StopBegin
          BY <3>1 DEF StopBegin, TypeOK, StopState
    <3>2. CASE CancelParent
          BY <3>2 DEF CancelParent
    <3>3. CASE SweepDelete  BY <3>3 DEF SweepDelete, TypeOK, StopState
    <3>4. CASE SweepDone    BY <3>4 DEF SweepDone, TypeOK, StopState
    <3>5. CASE StopReturn   BY <3>5 DEF StopReturn, TypeOK, StopState
    <3>6. ASSUME NEW p \in Projects, SweepProject(p)  PROVE StopOrder'
          BY <3>6 DEF SweepProject, TypeOK, StopState
    <3>7. ASSUME NEW c \in Conns, SweepClose(c)  PROVE StopOrder'
          BY <3>7 DEF SweepClose, TypeOK, StopState
    <3> QED BY <2>4, <3>1, <3>2, <3>3, <3>4, <3>5, <3>6, <3>7 DEF StopStep
  <2>5. CASE UNCHANGED vars
        BY <2>5 DEF vars
  <2> QED BY <2>1, <2>2, <2>3, <2>4, <2>5 DEF Next
<1> QED BY <1>1, <1>2, TypeCorrect, PTL DEF Spec

(* A writer in flight when Run has left its loop: neither Run nor Stop     *)
(* returns any more, whoever cancelled the context.                        *)
THEOREM DrainNeverEnds ==
    Spec => []((run = "draining" /\ InFlight # {})
                 => [](run = "draining" /\ stop.at # "returned"))
<1> DEFINE Stuck == run = "draining" /\ InFlight # {}
           Stay  == LoopLeft => /\ LoopLeft'
                                /\ InFlight \subseteq InFlight'
                                /\ \A c \in Conns : pc[c] = "connecting" => pc'[c] = "connecting"
                                /\ InFlight # {} => run' = run
<1>1. Stuck /\ [Stay]_vars => Stuck'
      BY DEF LoopLeft, InFlight, vars
<1>2. Stuck /\ StopOrder => run = "draining" /\ stop.at # "returned"
      BY DEF StopOrder
<1> QED BY <1>1, <1>2, ShutdownHangs, StopOrdered, PTL DEF ShutdownStrands

(* The only cancel of the server's context stands behind Stop's wait (87,  *)
(* 88).  Unless the parent context is cancelled Run never leaves its loop  *)
(* and Stop never returns.                                                 *)
THEOREM StopHangs ==
    ASSUME ~AllowCancel
    PROVE  Spec => [](~LoopLeft /\ stop.at # "returned")
<1> DEFINE Open == ~ctx
<1>1. Init => Open
      BY DEF Init
<1>2. Open /\ StopOrder /\ [Next]_vars => Open'
  <2> SUFFICES ASSUME Open, StopOrder, [Next]_vars  PROVE Open'
      OBVIOUS
  <2> USE DEF StopOrder, LoopLeft, connVars, bcastVars, runVars, stopVars, stopFrame
  <2>1. ASSUME NEW c \in Conns, ConnStep(c)  PROVE Open'
        BY <2>1 DEF ConnStep, Connect, StartWriter, Disconnect, Tick, FinishWrite,
                    FinishPing, LeaveLoop, Goes
  <2>2. CASE RunStep
        BY <2>2 DEF RunStep, AcceptConnect, AcceptClose, Register, Unregister, SeeDone,
                    Drained, RunReturns, Add, Remove
  <2>3. ASSUME NEW b \in Broadcasters, BroadcastStep(b)  PROVE Open'
        BY <2>3
           DEF BroadcastStep, Call, ReturnAtOnce, Lock, Offer, Unlock, Enter, FindNobody,
               BeginLoop
  <2>4. CASE StopStep
        BY <2>4 DEF StopStep, StopBegin, SweepProject, SweepClose, SweepDelete,
                    SweepDone, StopReturn, CancelParent
  <2>5. CASE UNCHANGED vars
        BY <2>5 DEF vars
  <2> QED BY <2>1, <2>2, <2>3, <2>4, <2>5 DEF Next
<1>3. Open /\ StopOrder => ~LoopLeft /\ stop.at # "returned"
      BY DEF StopOrder, LoopLeft
<1> QED BY <1>1, <1>2, <1>3, StopOrdered, PTL DEF Spec

(* So no behaviour in which Stop comes to its wait keeps what its log line *)
(* promises (80): Stop returns only where it never gets as far as waiting. *)
THEOREM StopReturnsOnlyUnwaited ==
    ASSUME ~AllowCancel
    PROVE  Spec /\ StopReturns => [](stop.at # "wait")
<1>1. Spec => [](~LoopLeft /\ stop.at # "returned")
      BY StopHangs
<1>2. /\ ~LoopLeft /\ stop.at # "returned" => ~(stop.at = "returned")
      /\ ~(stop.at = "wait") => stop.at # "wait"
      OBVIOUS
<1> QED BY <1>1, <1>2, PTL DEF StopReturns

-----------------------------------------------------------------------------
(* Refinement: which step of the feed each step of the server is.          *)

\* A step of a connection is a step of the feed, or none.
LEMMA ConnRefines ==
    ASSUME TypeOK, NEW c \in Conns, ConnStep(c)
    PROVE  Feed!Next \/ UNCHANGED Feed!vars
<1> USE DEF TypeOK, connVars, bcastVars, runVars, stopVars, Feed!vars
<1>1. CASE Connect(c)
  <2>1. Feed!Subscribe(c)
        BY <1>1 DEF Connect, Feed!Subscribe
  <2> QED BY <2>1 DEF Feed!Next
<1>2. CASE StartWriter(c)   BY <1>2 DEF StartWriter, Goes
<1>3. CASE Disconnect(c)    BY <1>3 DEF Disconnect
<1>4. CASE Tick(c)          BY <1>4 DEF Tick, Goes
<1>5. CASE FinishWrite(c)   BY <1>5 DEF FinishWrite, WriteOutcome
<1>6. CASE FinishPing(c)    BY <1>6 DEF FinishPing, WriteOutcome
<1>7. CASE LeaveLoop(c)     BY <1>7 DEF LeaveLoop, Goes
<1> QED BY <1>1, <1>2, <1>3, <1>4, <1>5, <1>6, <1>7 DEF ConnStep

\* Of Run, only AcceptClose is a step of the feed: it ends a subscription.
LEMMA RunRefines ==
    ASSUME TypeOK, RunStep
    PROVE  Feed!Next \/ UNCHANGED Feed!vars
<1> USE DEF TypeOK, connVars, bcastVars, runVars, stopVars, Feed!vars
<1>1. ASSUME NEW c \in Conns, AcceptConnect(c)
      PROVE  UNCHANGED Feed!vars
      BY <1>1 DEF AcceptConnect
<1>2. ASSUME NEW c \in Conns, AcceptClose(c)
      PROVE  Feed!Next
  <2>1. Feed!Unsubscribe(c)
        BY <1>2 DEF AcceptClose, Feed!Unsubscribe
  <2> QED BY <2>1 DEF Feed!Next
<1>3. CASE Register \/ Unregister \/ SeeDone \/ Drained
      BY <1>3 DEF Register, Unregister, SeeDone, Drained, RunReturns, Add, Remove
<1> QED BY <1>1, <1>2, <1>3 DEF RunStep

\* BroadcastToProject publishes when it locks, and delivers as it loops.
LEMMA BroadcastRefines ==
    ASSUME TypeOK, MutexInv, SendingInv, NEW b \in Broadcasters, BroadcastStep(b)
    PROVE  Feed!Next \/ UNCHANGED Feed!vars
<1> USE DEF connVars, bcastVars, runVars, stopVars, Feed!vars
<1>1. CASE Call(b) \/ Unlock(b)
      BY <1>1 DEF Call, Unlock, Enter
<1>2. CASE ReturnAtOnce(b) \/ Lock(b)
  <2>1. bproj[b] \in Projects
        BY <1>2 DEF ReturnAtOnce, Lock, TypeOK, FindNobody, BeginLoop
  <2>2. Feed!Publish(bproj[b])
        BY <1>2 DEF ReturnAtOnce, Lock, Feed!Publish, FindNobody, BeginLoop
  <2> QED BY <2>1, <2>2 DEF Feed!Next
<1>3. ASSUME NEW c \in Conns, Offer(b, c)
      PROVE  Feed!Next \/ UNCHANGED Feed!vars
  <2>1. CASE UNCHANGED <<pc, received>>
        BY <1>3, <2>1 DEF Offer
  <2>2. CASE /\ pc[c] = "select"
             /\ pc' = [pc EXCEPT ![c] = "writing"]
             /\ received' = [received EXCEPT ![c] = Append(@, msg[b])]
    <3>1. /\ msg[b] = Len(published) /\ msg[b] \in DOMAIN published
          /\ published[msg[b]] = ProjectOf[c]
          /\ \A i \in DOMAIN received[c] : received[c][i] < msg[b]
          BY <1>3 DEF Offer, SendingInv
    <3>2. DOMAIN received[c] = 1 .. Len(received[c])
          BY DEF TypeOK
    <3>3. {d \in Conns : pc'[d] # "absent"} = {d \in Conns : pc[d] # "absent"}
          BY <2>2 DEF TypeOK
    <3>4. published # <<>> /\ UNCHANGED published
          BY <1>3, <3>1 DEF Offer, TypeOK
    <3>5. Feed!Deliver(c)
          BY <2>2, <3>1, <3>2, <3>3, <3>4 DEF Feed!Deliver
    <3> QED BY <3>5 DEF Feed!Next
  <2> QED BY <1>3, <2>1, <2>2 DEF Offer
<1> QED BY <1>1, <1>2, <1>3 DEF BroadcastStep

(* The event server, whatever its goroutines do and whenever they are      *)
(* scheduled, is a lossy, ordered, per-project feed.                       *)
THEOREM ServerIsFeed == Spec => FeedSpec
<1>1. Init => Feed!Init
      BY DEF Init, Feed!Init
<1>2. TypeOK /\ MutexInv /\ SendingInv /\ [Next]_vars => [Feed!Next]_(Feed!vars)
  <2> SUFFICES ASSUME TypeOK, MutexInv, SendingInv, [Next]_vars
               PROVE  Feed!Next \/ UNCHANGED Feed!vars
      OBVIOUS
  <2>1. CASE StopStep
        BY <2>1 DEF StopStep, StopBegin, SweepProject, SweepClose, SweepDelete, SweepDone,
                    StopReturn, CancelParent, stopFrame, connVars, bcastVars, runVars, stopVars, Feed!vars
  <2>2. CASE UNCHANGED vars
        BY <2>2 DEF vars, Feed!vars
  <2> QED BY <2>1, <2>2, ConnRefines, RunRefines, BroadcastRefines DEF Next
<1> QED BY <1>1, <1>2, TypeCorrect, DeliveryInvariant, PTL DEF Spec, FeedSpec, Feed!Spec

=============================================================================
