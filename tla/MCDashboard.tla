---------------------------- MODULE MCDashboard ----------------------------
(* The lists and the chart of the dashboard for TLC.  They share no state: *)
(* each moves while the other stands at its beginning.  The lists begin    *)
(* with one active key, as a creation leaves it; the highest count is one  *)
(* of the upper status.                                                    *)
EXTENDS Dashboard, Chart, TLC

CONSTANTS p1, k1, k2, c1

VARIABLE moving  \* the lists or the chart

MCOwnerOf == [k \in Keys |-> p1]
MCStatusKeys == <<"2xx", "5xx">>
MCBack == [x \in {"1d", "2d"} |-> IF x = "1d" THEN 0 ELSE 1]

\* West of the server; not behind it, with a night without a midnight; and the
\* Azores in spring, which have such a night and are not behind from then on.
MCZones == {[west |-> 1 .. 3, late |-> {}], [west |-> {}, late |-> {2}],
            [west |-> {1, 2}, late |-> {2}]}
MCSymmetry == Permutations(Keys)

MCInit ==
    /\ DashInit /\ ChartInit
    /\ \/ /\ moving = "lists" /\ Cardinality(Rows(p1)) = 1 /\ zone.west = {} /\ chartRange = "1d"
          /\ \A d \in Days, i \in 1 .. Len(StatusKeys) : logged[d][i] = 0
       \/ /\ moving = "chart" /\ \A k \in Keys : keys[k] = "unused"
          /\ \A d \in Days : logged[d][1] < 9999

MCNext ==
    \/ moving = "lists" /\ DashNext /\ UNCHANGED <<chartVars, moving>>
    \/ moving = "chart" /\ ChartNext /\ UNCHANGED <<dashVars, moving>>

MCSpec == MCInit /\ [][MCNext]_<<dashVars, chartVars, moving>>

=============================================================================
