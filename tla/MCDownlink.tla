----------------------------- MODULE MCDownlink -----------------------------
(* A small instance of Downlink for TLC: two copies of one request, and     *)
(* another request whose signature may take the place of the first's.      *)
EXTENDS Downlink, TLC

CONSTANTS r1, r2, c1, c2, c3

CopyOf == c1 :> r1 @@ c2 :> r1 @@ c3 :> r2

\* The two copies of r1 differ in nothing.
Twins == Permutations({c1, c2})
=============================================================================
