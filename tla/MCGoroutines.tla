---------------------------- MODULE MCGoroutines ----------------------------
(* One run for the two components that are goroutines and channels, the     *)
(* task monitor and the streaming receiver, which do not interact: a        *)
(* behaviour belongs to one of them ("part"), and the other's variables     *)
(* stay as they were at the start.                                          *)
(*                                                                          *)
(* Two calls on one blueprint and one on another: a blueprint that keeps a  *)
(* task after one was answered, and one that goes away with its last task;  *)
(* the server drops, or ends in a status of no known name, tasks of the     *)
(* first two calls only (Steady).                                           *)
(* A server that opens two connections, and sends up to MaxSent messages in *)
(* all: one on each, or two on one of them.                                 *)
EXTENDS TaskMonitor, StreamTarget, TLC

VARIABLE part

CONSTANTS c1, c2, c3, b1, b2, succeeded, n1, n2

MCBpOf   == (c1 :> b1) @@ (c2 :> b1) @@ (c3 :> b2)
Steady   == {c3}
MaxSent  == 2
Symmetry == Permutations({c1, c2}) \cup Permutations({n1, n2})

goroutineVars == <<part, vars, streamVars>>

GoroutinesInit == part \in {"monitor", "stream"} /\ Init /\ StreamInit

GoroutinesNext ==
  /\ UNCHANGED part
  /\ \/ /\ part = "monitor" /\ Next /\ UNCHANGED streamVars
        /\ \A c \in Steady : task'[c] \notin {"gone", Unrecognized}
     \/ /\ part = "stream" /\ StreamNext /\ UNCHANGED vars
        /\ sent'[n1] + sent'[n2] <= MaxSent

GoroutinesSpec == GoroutinesInit /\ [][GoroutinesNext]_goroutineVars
=============================================================================
