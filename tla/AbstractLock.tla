---------------------------- MODULE AbstractLock ----------------------------
(***************************************************************************)
(* What a user of Client.lock and Client.unlock (apstra/client.go) relies  *)
(* on: a lock per name, held by at most one goroutine, handed over in one  *)
(* step, and no name in the way of another.                                *)
(***************************************************************************)
CONSTANTS Goroutine, LockName, Nobody

VARIABLE owner   \* the goroutine that holds each name's lock, or Nobody

LockedInit == owner = [n \in LockName |-> Nobody]

Acquire(g, n) == owner[n] = Nobody /\ owner' = [owner EXCEPT ![n] = g]
Release(g, n) == owner[n] = g      /\ owner' = [owner EXCEPT ![n] = Nobody]

LockedNext == \E g \in Goroutine, n \in LockName : Acquire(g, n) \/ Release(g, n)

LockedSpec == LockedInit /\ [][LockedNext]_owner
=============================================================================
