----------------------------- MODULE MCLogIngest -----------------------------
(* Small instances of LogIngest for TLC.                                    *)
EXTENDS LogIngest, TLC

CONSTANTS u1, u2, p1, p2, n1, n2, k1, k2, k3, r1, r2, i1, i2

\* p1 is of u1, p2 (if there is one) of u2.
MCOwnerOf == [p \in Projects |-> IF p = p2 THEN u2 ELSE u1]

\* Ids, names, goroutines and requests are interchangeable.
Symmetry == Permutations(Keys) \cup Permutations(Names) \cup Permutations(Requests)
              \cup Permutations(Ingests)

=============================================================================
