--------------------------- MODULE MCStreamTarget ---------------------------
(* A server that opens two connections.                                    *)
EXTENDS StreamTarget, TLC

CONSTANTS c1, c2
Symmetry == Permutations({c1, c2})
=============================================================================
