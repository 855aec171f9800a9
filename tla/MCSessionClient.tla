-------------------------- MODULE MCSessionClient --------------------------
(* Two small instances of SessionClient for TLC: three calls in two        *)
(* seconds, and two calls of one tab in three seconds, in which the access *)
(* token of a retry may expire.                                            *)
EXTENDS SessionClient

CONSTANTS u1, t1, t2, c1, c2, c3

VARIABLE instance

MCTabOf == [c \in Calls |-> IF c = c3 THEN t2 ELSE t1]

MCInit == Init /\ instance \in {"wide", "long"}

MCNext == /\ Next /\ UNCHANGED instance
          /\ instance = "wide" => now' <= 1
          /\ instance = "long" => call'[c3] = NoCall

MCSpec == MCInit /\ [][MCNext]_<<vars, instance>> /\ Fairness

=============================================================================
