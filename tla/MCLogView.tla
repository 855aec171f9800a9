----------------------------- MODULE MCLogView -----------------------------
(***************************************************************************)
(* Two small instances of LogView for TLC: one in which the stream brings  *)
(* logs, one newer than the other, and none is deleted, and one in which   *)
(* the stream is never answered and logs of one timestamp are deleted.     *)
(* The query client keeps one page in the first and two in the second, and *)
(* one filter lets one log pass.                                           *)
(***************************************************************************)
EXTENDS LogView, TLC

CONSTANTS k1, k2, errors

VARIABLE instance

MCMatching == [f \in Filters \cup {NoFilter} |-> IF f = errors THEN {1} ELSE Logs]

MCStampings == {<<1, 1>>, <<1, 2>>}

\* The connections are interchangeable.
MCSymmetry == Permutations(Links)

Kept == Cardinality({k \in Keys : cache[k] # None})

MCInit ==
    /\ Init
    /\ instance = IF stamp = <<1, 1>> THEN "table" ELSE "stream"

MCNext ==
    /\ Next /\ UNCHANGED instance
    /\ instance = "stream" => deleted' = {} /\ Kept' <= 1
    /\ instance = "table" => ~ connected' /\ Kept' <= 2

MCSpec == MCInit /\ [][MCNext]_<<vars, instance>>

=============================================================================
