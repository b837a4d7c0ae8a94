----------------------------- MODULE MCSession -----------------------------
(* Two goroutines of the application share a client.                       *)
EXTENDS Session, TLC

CONSTANTS a1, a2
Symmetry == Permutations({a1, a2})
=============================================================================
