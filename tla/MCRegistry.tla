----------------------------- MODULE MCRegistry -----------------------------
(* Two instances of MCEventServer's streams for TLC: one that nobody stops, *)
(* with two log goroutines and three broadcasts, and one that may be        *)
(* stopped or cancelled, with one broadcast; the latter may come to rest.   *)
EXTENDS MCEventServer

VARIABLE instance

MCInit == Init /\ instance \in {"kept", "stopped"}

Allowed ==
    /\ instance = "kept" => UNCHANGED <<stop, ctx>>
    /\ instance = "stopped" =>
           /\ bpc'[b2] = "idle"
           /\ Len(published') + Cardinality({b \in Broadcasters : bpc'[b] = "calling"}) <= 1

Rest == instance = "stopped" /\ UNCHANGED vars

MCNext == ((Next /\ Allowed) \/ Rest) /\ UNCHANGED instance

MCSpec == MCInit /\ [][MCNext]_<<vars, instance>>

=============================================================================
