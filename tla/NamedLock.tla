----------------------------- MODULE NamedLock -----------------------------
(***************************************************************************)
(* Client.lock and Client.unlock of apstra/client.go: a map from names to  *)
(* mutexes (Client.sync), filled on demand, guarded by Client.syncLock.    *)
(* The names are the blueprint's, the policy's, "node_ids" and so on       *)
(* (TwoStageL3ClosClient.lockId) and "http headers", which talkToApstra    *)
(* takes for a moment in every request: whoever holds another name's lock  *)
(* makes requests, so "http headers" is the one that is taken second.      *)
(***************************************************************************)
EXTENDS Naturals, Sequences

CONSTANTS
  Goroutine,     (* the goroutines that use one Client                      *)
  LockName,      (* the names                                               *)
  httpHeaders,   (* the name "http headers"                                 *)
  Nobody         (* no goroutine                                            *)

ASSUME NobodyAssumption  == Nobody \notin Goroutine
ASSUME HeadersAssumption == httpHeaders \in LockName

VARIABLES
  lockPc,     (* where each goroutine is in lock or unlock                  *)
  wanted,     (* the name it is locking or unlocking                        *)
  holding,    (* the names whose locks it holds, in the order taken         *)
  syncLock,   (* the holder of Client.syncLock                              *)
  sync,       (* Client.sync: the names that have a mutex                   *)
  mutex       (* the holder of each of those mutexes                        *)

lockVars == <<lockPc, wanted, holding, syncLock, sync, mutex>>

LockInit ==
  /\ lockPc \in [Goroutine -> {"user", "away"}]   \* "away": it never uses a lock
  /\ wanted = [g \in Goroutine |-> httpHeaders]
  /\ holding = [g \in Goroutine |-> <<>>]
  /\ syncLock = Nobody
  /\ sync = {}
  /\ mutex = [n \in LockName |-> Nobody]

\* lock(id) is called: by a goroutine that holds nothing, or by a request, for the headers
CallLock(g, n) ==
  /\ lockPc[g] = "user"
  /\ holding[g] = <<>> \/ (Len(holding[g]) = 1 /\ holding[g] # <<httpHeaders>> /\ n = httpHeaders)
  /\ wanted' = [wanted EXCEPT ![g] = n]
  /\ lockPc' = [lockPc EXCEPT ![g] = "lock"]
  /\ UNCHANGED <<holding, syncLock, sync, mutex>>

\* o.syncLock.Lock()
EnterLock(g) ==
  /\ lockPc[g] = "lock"
  /\ syncLock = Nobody
  /\ syncLock' = g
  /\ lockPc' = [lockPc EXCEPT ![g] = "lookup"]
  /\ UNCHANGED <<wanted, holding, sync, mutex>>

\* Waiting for the mutex without letting go of the map.
FoundKeepsMap(g) ==
  /\ lockPc[g] = "lookup"
  /\ wanted[g] \in sync
  /\ lockPc' = [lockPc EXCEPT ![g] = "wait"]
  /\ UNCHANGED <<wanted, holding, sync, mutex, syncLock>>

\* the mutex exists: unlock the map before waiting for it
Found(g) ==
  /\ lockPc[g] = "lookup"
  /\ wanted[g] \in sync
  /\ syncLock' = Nobody
  /\ lockPc' = [lockPc EXCEPT ![g] = "wait"]
  /\ UNCHANGED <<wanted, holding, sync, mutex>>

\* A new mutex goes into the map unlocked and is waited for like any other.
CreatedUnlocked(g) ==
  /\ lockPc[g] = "lookup"
  /\ wanted[g] \notin sync
  /\ sync' = sync \cup {wanted[g]}
  /\ holding' = [holding EXCEPT ![g] = Append(@, wanted[g])]
  /\ lockPc' = [lockPc EXCEPT ![g] = "user"]
  /\ syncLock' = Nobody
  /\ UNCHANGED <<wanted, mutex>>

\* it does not: a new mutex is locked before it becomes visible in the map
Created(g) ==
  /\ lockPc[g] = "lookup"
  /\ wanted[g] \notin sync
  /\ sync' = sync \cup {wanted[g]}
  /\ mutex' = [mutex EXCEPT ![wanted[g]] = g]
  /\ holding' = [holding EXCEPT ![g] = Append(@, wanted[g])]
  /\ lockPc' = [lockPc EXCEPT ![g] = "user"]
  /\ syncLock' = Nobody
  /\ UNCHANGED wanted

\* mu.Lock() returns
Locked(g) ==
  /\ lockPc[g] = "wait"
  /\ mutex[wanted[g]] = Nobody
  /\ mutex' = [mutex EXCEPT ![wanted[g]] = g]
  /\ holding' = [holding EXCEPT ![g] = Append(@, wanted[g])]
  /\ lockPc' = [lockPc EXCEPT ![g] = "user"]
  /\ UNCHANGED <<wanted, syncLock, sync>>

\* unlock(id) is called for the lock taken last (the headers' is released before the
\* request is sent, the others by a deferred call)
CallUnlock(g) ==
  /\ lockPc[g] = "user"
  /\ holding[g] # <<>>
  /\ wanted' = [wanted EXCEPT ![g] = holding[g][Len(holding[g])]]
  /\ lockPc' = [lockPc EXCEPT ![g] = "unlock"]
  /\ UNCHANGED <<holding, syncLock, sync, mutex>>

\* The mutex is taken out of the map again, as if nobody could be waiting for it.
UnlockForgets(g) ==
  /\ lockPc[g] = "unlock"
  /\ syncLock = Nobody
  /\ sync' = sync \ {wanted[g]}
  /\ mutex' = [mutex EXCEPT ![wanted[g]] = Nobody]
  /\ holding' = [holding EXCEPT ![g] = SubSeq(@, 1, Len(@) - 1)]
  /\ lockPc' = [lockPc EXCEPT ![g] = "user"]
  /\ UNCHANGED <<wanted, syncLock>>

\* o.syncLock.Lock(), and the deferred Unlock at the end of the same step: nothing in
\* between waits
Unlock(g) ==
  /\ lockPc[g] = "unlock"
  /\ syncLock = Nobody
  /\ IF wanted[g] \in sync
       THEN /\ mutex' = [mutex EXCEPT ![wanted[g]] = Nobody]
            /\ holding' = [holding EXCEPT ![g] = SubSeq(@, 1, Len(@) - 1)]
            /\ lockPc' = [lockPc EXCEPT ![g] = "user"]
       ELSE /\ lockPc' = [lockPc EXCEPT ![g] = "panic"]
            /\ UNCHANGED <<mutex, holding>>
  /\ UNCHANGED <<wanted, syncLock, sync>>

LockNext ==
  \E g \in Goroutine :
    \/ EnterLock(g) \/ Found(g) \/ Created(g) \/ Locked(g)
    \/ CallUnlock(g) \/ Unlock(g)
    \/ \E n \in LockName : CallLock(g, n)

\* A goroutine that can run does; a mutex that is free again and again is obtained some
\* time (sync.Mutex hands itself to a goroutine that waited for more than a millisecond);
\* whoever holds a lock calls unlock after finitely many requests, every call being deferred
\* or immediate.
LockFairness ==
  \A g \in Goroutine :
    /\ SF_lockVars(EnterLock(g) \/ Unlock(g) \/ Locked(g))
    /\ WF_lockVars(Found(g) \/ Created(g))
    /\ WF_lockVars(Len(holding[g]) = 2 /\ CallUnlock(g))
    /\ SF_lockVars(Len(holding[g]) = 1 /\ CallUnlock(g))

LockSpec == LockInit /\ [][LockNext]_lockVars /\ LockFairness

-----------------------------------------------------------------------------
(* Properties.                                                             *)

LockTypeOK ==
  /\ lockPc \in [Goroutine -> {"away", "user", "lock", "lookup", "wait", "unlock", "panic"}]
  /\ wanted \in [Goroutine -> LockName]
  /\ holding \in [Goroutine -> Seq(LockName)]
  /\ syncLock \in Goroutine \cup {Nobody}
  /\ sync \in SUBSET LockName
  /\ mutex \in [LockName -> Goroutine \cup {Nobody}]

Holds(g, n) == \E i \in 1..Len(holding[g]) : holding[g][i] = n

\* Two goroutines never believe they hold the same name's lock, also when both found the
\* name missing from the map at about the same time; and unlock knows every name it is
\* given (the panic of client.go:423 cannot be reached by the code's own calls).
LockExclusion ==
  /\ \A g, h \in Goroutine, n \in LockName : Holds(g, n) /\ Holds(h, n) => g = h
  /\ \A g \in Goroutine : lockPc[g] # "panic"

\* Every call of lock returns: the map's lock is never kept by one who waits for a mutex,
\* and the second lock a goroutine takes is never one whose holder waits for the first.
LockReturns == \A g \in Goroutine : lockPc[g] = "lock" ~> lockPc[g] = "user"

LockService ==
  INSTANCE AbstractLock WITH owner <- mutex

\* The map of mutexes implements one lock per name.
ImplementsLock == LockService!LockedSpec
=============================================================================
