--------------------------- MODULE MCTaskMonitor ---------------------------
(* Two calls on one blueprint.                                             *)
EXTENDS TaskMonitor, TLC

CONSTANTS c1, c2, b1, succeeded

MCBpOf == (c1 :> b1) @@ (c2 :> b1)
=============================================================================
