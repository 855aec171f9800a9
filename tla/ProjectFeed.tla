----------------------------- MODULE ProjectFeed -----------------------------
(***************************************************************************)
(* What the SSE event server promises to the dashboards, with no channel,  *)
(* lock or goroutine in it: a lossy, ordered, per-project feed.            *)
(*                                                                         *)
(* Every broadcast is one entry of a global sequence, published[i] being   *)
(* the project of the i-th one.  A stream that is subscribed may be handed *)
(* the newest entry if it is its project's and it does not have it yet; it *)
(* may also miss it (the server never waits for a slow reader).  So what a *)
(* stream has been handed is always a subsequence of its project's         *)
(* broadcasts: nothing foreign, nothing twice, nothing out of order.       *)
(***************************************************************************)
EXTENDS Naturals, Sequences

CONSTANTS Conns,      \* the streams
          Projects,   \* the projects
          ProjectOf   \* the project each stream was opened for, in [Conns -> Projects]

VARIABLES subscribed,  \* the streams that are open
          published,   \* the project of every broadcast, in order
          received     \* per stream, the broadcasts it was handed, in order

vars == <<subscribed, published, received>>

Init == /\ subscribed = {}
        /\ published = <<>>
        /\ received = [c \in Conns |-> <<>>]

Subscribe(c) == /\ c \notin subscribed
                /\ subscribed' = subscribed \cup {c}
                /\ received' = [received EXCEPT ![c] = <<>>]
                /\ UNCHANGED published

Unsubscribe(c) == /\ c \in subscribed
                  /\ subscribed' = subscribed \ {c}
                  /\ UNCHANGED <<published, received>>

Publish(p) == /\ published' = Append(published, p)
              /\ UNCHANGED <<subscribed, received>>

\* The newest broadcast is handed to c: of c's project, and newer than all c has.
Deliver(c) == /\ c \in subscribed
              /\ published # <<>>
              /\ published[Len(published)] = ProjectOf[c]
              /\ \A i \in 1..Len(received[c]) : received[c][i] < Len(published)
              /\ received' = [received EXCEPT ![c] = Append(@, Len(published))]
              /\ UNCHANGED <<subscribed, published>>

Next == \/ \E c \in Conns : Subscribe(c) \/ Unsubscribe(c) \/ Deliver(c)
        \/ \E p \in Projects : Publish(p)

Spec == Init /\ [][Next]_vars

=============================================================================
