---------------------------- MODULE MCEventServer ----------------------------
(***************************************************************************)
(* Small instances of EventServer for TLC.  The connections and projects   *)
(* are model values of the cfg; MCProjectOf says which stream is opened    *)
(* for which project.                                                      *)
(***************************************************************************)
EXTENDS EventServer, TLC

CONSTANTS c1, c2, c3, p1, p2, b1, b2

\* Two streams of one project, a third (if there is one) of another.
MCProjectOf == [c \in Conns |-> IF c = c3 THEN p2 ELSE p1]

=============================================================================
