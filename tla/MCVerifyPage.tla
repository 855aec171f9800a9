--------------------------- MODULE MCVerifyPage ---------------------------
(* One page and one other client, two requests at once, for TLC.           *)
EXTENDS VerifyPage, TLC

CONSTANTS a, b, r1, r2

MCSymmetry == Permutations(Codes) \cup Permutations(Requests)

=============================================================================
