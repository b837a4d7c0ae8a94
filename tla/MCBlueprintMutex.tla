-------------------------- MODULE MCBlueprintMutex --------------------------
(* The mutexes of two clients, logged in as different users.               *)
EXTENDS BlueprintMutex, TLC

CONSTANTS m1, m2, u1, u2
MCUserOf == m1 :> u1 @@ m2 :> u2
=============================================================================
