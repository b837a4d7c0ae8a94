--------------------------- MODULE BlueprintMutex ---------------------------
(***************************************************************************)
(* TwoStageL3ClosMutex (two_stage_l3_clos_mutex.go): mutual exclusion over *)
(* a blueprint among clients that share nothing but the Apstra server.     *)
(* The lock is a design tag whose label names the blueprint: the server    *)
(* refuses a second tag with the same label, and the ID it gave to the     *)
(* creator is what Unlock deletes.                                         *)
(*                                                                         *)
(* A request and its reply are separate steps.  A request may be given up  *)
(* (deadline, cancelled context, lost connection) before the server has    *)
(* seen it, and be carried out later, or after, with its reply lost.       *)
(* Each mutex object is used by one goroutine at a time.                   *)
(***************************************************************************)
EXTENDS Naturals, FiniteSets

CONSTANTS
  Mutex,     (* mutex objects on one blueprint, each of some client        *)
  User,      (* Apstra users                                               *)
  UserOf,    (* the user each mutex's client is logged in as               *)
  MaxCalls,  (* bound: calls of Lock and TryLock                           *)
  MaxFaults, (* bound: requests given up or failed                         *)
  MaxForced  (* bound: lock tags that somebody removes by hand             *)

ASSUME UserOfAssumption == UserOf \in [Mutex -> User]
ASSUME BoundsAssumption == MaxCalls \in Nat /\ MaxFaults \in Nat /\ MaxForced \in Nat
ASSUME UserAssumption   == "nobody" \notin User

None   == 0            \* no tag; the empty tagId
Nobody == "nobody"     \* the blueprint is unlocked

VARIABLES
  \* the server
  tag,       (* ID of the tag labelled "blueprint ... locked", or None     *)
  issued,    (* IDs given out are 1..issued                                *)
  bpLock,    (* the user that has the blueprint locked, or Nobody          *)
  lateCreates, (* requests given up that the server may still carry out    *)
  lateDeletes,
  \* the clients
  tagId,     (* TwoStageL3ClosMutex.tagId                                  *)
  pc,        (* where the goroutine that uses the mutex is                 *)
  nonBlocking,
  reply,     (* what createTag's or deleteTag's reply says                 *)
  answer,    (* how the last call on the mutex ended                       *)
  \* history
  held,      (* mutexes locked by a Lock that returned nil, Unlock not yet called *)
  forced,    (* tags removed by hand                                       *)
  orphans,   (* tags whose creator never learned their ID                  *)
  calls, faults

server  == <<tag, issued, bpLock, lateCreates, lateDeletes>>
history == <<forced, orphans>>
vars == <<server, tagId, pc, nonBlocking, reply, answer, held, history, calls, faults>>

Init ==
  /\ tag = None /\ issued = 0 /\ bpLock = Nobody /\ lateCreates = 0 /\ lateDeletes = {}
  /\ tagId = [m \in Mutex |-> None]
  /\ pc = [m \in Mutex |-> "idle"]
  /\ nonBlocking = [m \in Mutex |-> FALSE]
  /\ reply = [m \in Mutex |-> None]
  /\ answer = [m \in Mutex |-> "none"]
  /\ held = {}
  /\ forced = {} /\ orphans = {}
  /\ calls = 0 /\ faults = 0

Goto(m, l) == pc' = [pc EXCEPT ![m] = l]
Return(m, a) ==
  /\ Goto(m, "idle")
  /\ answer' = [answer EXCEPT ![m] = a]
  /\ reply' = [reply EXCEPT ![m] = None]
  /\ nonBlocking' = [nonBlocking EXCEPT ![m] = FALSE]
Continue(m, l) == Goto(m, l) /\ UNCHANGED <<answer, reply, nonBlocking>>

Fault == faults < MaxFaults /\ faults' = faults + 1

-----------------------------------------------------------------------------
(* Lock and TryLock.                                                       *)

Lock(m, nb) ==
  /\ pc[m] = "idle" /\ calls < MaxCalls
  /\ calls' = calls + 1
  /\ IF tagId[m] # None
       THEN Return(m, "alreadyLocked")
       ELSE /\ Goto(m, "pollStatus")
            /\ nonBlocking' = [nonBlocking EXCEPT ![m] = nb]
            /\ UNCHANGED <<answer, reply>>
  /\ UNCHANGED <<server, tagId, held, history, faults>>

\* ctx.Done() while waiting for the ticker of either loop
Cancel(m) ==
  /\ pc[m] \in {"pollStatus", "create"}
  /\ Return(m, "cancelled")
  /\ UNCHANGED <<server, tagId, held, history, calls, faults>>

\* GetLockInfo: pass when the blueprint is unlocked or locked by our own user
PollStatus(m) ==
  /\ pc[m] = "pollStatus"
  /\ \/ bpLock \in {Nobody, UserOf[m]} /\ Continue(m, "create")
     \/ bpLock \notin {Nobody, UserOf[m]} /\ nonBlocking[m] /\ Return(m, "blueprintLocked")
     \/ bpLock \notin {Nobody, UserOf[m]} /\ ~nonBlocking[m] /\ Continue(m, "pollStatus")
  /\ UNCHANGED <<server, tagId, held, history, calls, faults>>

MakeTag ==
  /\ issued' = issued + 1
  /\ tag' = issued'

\* createTag reaches the server, which refuses a label it already has.
CreateTag(m) ==
  /\ pc[m] = "create"
  /\ \/ tag = None /\ MakeTag /\ reply' = [reply EXCEPT ![m] = issued'] /\ Goto(m, "created")
     \/ tag # None /\ Goto(m, "exists") /\ UNCHANGED <<tag, issued, reply>>
  /\ UNCHANGED <<bpLock, lateCreates, lateDeletes, tagId, nonBlocking, answer, held, forced,
                 orphans, calls, faults>>

\* The reply arrives: o.tagId = tagID
Created(m) ==
  /\ pc[m] = "created"
  /\ tagId' = [tagId EXCEPT ![m] = reply[m]]
  /\ held' = held \cup {m}
  /\ Return(m, "ok")
  /\ UNCHANGED <<server, history, calls, faults>>

\* The tag that is in the way is taken for our own.
ExistsAdopted(m) ==
  /\ pc[m] = "exists"
  /\ tagId' = [tagId EXCEPT ![m] = tag]
  /\ held' = held \cup {m}
  /\ Return(m, "ok")
  /\ UNCHANGED <<server, history, calls, faults>>

\* ErrExists: Lock tries again, TryLock looks for the tag that is in the way.
Exists(m) ==
  /\ pc[m] = "exists"
  /\ Continue(m, IF nonBlocking[m] THEN "getTag" ELSE "create")
  /\ UNCHANGED <<server, tagId, held, history, calls, faults>>

\* getTagByLabel: MutexErr names the tag; when it is gone by now, try again
GetTag(m) ==
  /\ pc[m] = "getTag"
  /\ IF tag = None THEN Continue(m, "create") ELSE Return(m, "mutexLocked")
  /\ UNCHANGED <<server, tagId, held, history, calls, faults>>

\* A request fails or is given up, and Lock returns the error.
\* The status or the tags are not read ...
ReadFails(m) ==
  /\ pc[m] \in {"pollStatus", "getTag"}
  /\ Fault
  /\ Return(m, "error")
  /\ UNCHANGED <<server, tagId, held, history, calls>>

\* ... the tag is not created, now or ever, or only after Lock has returned ...
CreateFails(m) ==
  /\ pc[m] = "create"
  /\ Fault
  /\ lateCreates' \in {lateCreates, lateCreates + 1}
  /\ Return(m, "error")
  /\ UNCHANGED <<tag, issued, bpLock, lateDeletes, tagId, held, history, calls>>

\* ... or the tag has been created and its ID does not come back.
CreatedLost(m) ==
  /\ pc[m] = "created"
  /\ Fault
  /\ orphans' = orphans \cup {reply[m]}
  /\ Return(m, "error")
  /\ UNCHANGED <<server, tagId, held, forced, calls>>

-----------------------------------------------------------------------------
(* Unlock.                                                                 *)

\* tagId is cleared before the request is made from it.
UnlockClearsFirst(m) ==
  /\ pc[m] = "idle"
  /\ Continue(m, "delete")
  /\ held' = held \ {m}
  /\ tagId' = [tagId EXCEPT ![m] = None]
  /\ UNCHANGED <<server, history, calls, faults>>

Unlock(m) ==
  /\ pc[m] = "idle"
  /\ Continue(m, "delete")
  /\ held' = held \ {m}
  /\ UNCHANGED <<server, tagId, history, calls, faults>>

\* The tag is looked up by the blueprint's label, not by the ID.
DeleteByLabel(m) ==
  /\ pc[m] = "delete"
  /\ IF tag # None THEN tag' = None /\ Continue(m, "deleted")
                   ELSE Return(m, "notFound") /\ UNCHANGED tag
  /\ UNCHANGED <<issued, bpLock, lateCreates, lateDeletes, tagId, held, history, calls, faults>>

\* deleteTag reaches the server.  When there is no such tag its error is returned as it
\* is, not as a ClientErr, so Unlock takes it for any other failure.
DeleteTag(m) ==
  /\ pc[m] = "delete"
  /\ IF tag # None /\ tag = tagId[m]
       THEN tag' = None /\ Continue(m, "deleted")
       ELSE Return(m, "notFound") /\ UNCHANGED tag
  /\ UNCHANGED <<issued, bpLock, lateCreates, lateDeletes, tagId, held, history, calls, faults>>

\* o.tagId = ""
Deleted(m) ==
  /\ pc[m] = "deleted"
  /\ tagId' = [tagId EXCEPT ![m] = None]
  /\ Return(m, "ok")
  /\ UNCHANGED <<server, held, history, calls, faults>>

\* Every error of deleteTag is ignored.
DeleteErrorIgnored(m) ==
  /\ pc[m] = "delete"
  /\ Fault
  /\ Continue(m, "deleted")
  /\ UNCHANGED <<server, tagId, held, history, calls>>

\* The request fails or is given up; Unlock returns the error and keeps the tag's ID.
DeleteFails(m) ==
  /\ pc[m] = "delete"
  /\ Fault
  /\ lateDeletes' \in {lateDeletes, lateDeletes \cup {tagId[m]}}
  /\ Return(m, "error")
  /\ UNCHANGED <<tag, issued, bpLock, lateCreates, tagId, held, history, calls>>

\* The tag has been deleted and the reply does not come back.
DeletedLost(m) ==
  /\ pc[m] = "deleted"
  /\ Fault
  /\ Return(m, "error")
  /\ UNCHANGED <<server, tagId, held, history, calls>>

-----------------------------------------------------------------------------
(* The rest of the world.                                                  *)

LateCreate ==
  /\ lateCreates > 0
  /\ lateCreates' = lateCreates - 1
  /\ \/ tag = None /\ MakeTag /\ orphans' = orphans \cup {issued'}
     \/ tag # None /\ UNCHANGED <<tag, issued, orphans>>
  /\ UNCHANGED <<bpLock, lateDeletes, tagId, pc, nonBlocking, reply, answer, held, forced, calls, faults>>

LateDelete(t) ==
  /\ t \in lateDeletes
  /\ lateDeletes' = lateDeletes \ {t}
  /\ tag' = IF t = tag THEN None ELSE tag
  /\ UNCHANGED <<issued, bpLock, lateCreates, tagId, pc, nonBlocking, reply, answer, held, history,
                 calls, faults>>

\* Somebody removes the lock's tag by hand.
ForceUnlock ==
  /\ tag # None
  /\ Cardinality(forced) < MaxForced
  /\ forced' = forced \cup {tag}
  /\ tag' = None
  /\ UNCHANGED <<issued, bpLock, lateCreates, lateDeletes, tagId, pc, nonBlocking, reply, answer,
                 held, orphans, calls, faults>>

\* Users lock the blueprint by staging changes, and unlock it.
BlueprintLock(u) ==
  /\ bpLock = Nobody
  /\ bpLock' = u
  /\ UNCHANGED <<tag, issued, lateCreates, lateDeletes, tagId, pc, nonBlocking, reply, answer, held,
                 history, calls, faults>>
BlueprintUnlock ==
  /\ bpLock # Nobody
  /\ bpLock' = Nobody
  /\ UNCHANGED <<tag, issued, lateCreates, lateDeletes, tagId, pc, nonBlocking, reply, answer, held,
                 history, calls, faults>>

Progress(m) ==
  PollStatus(m) \/ CreateTag(m) \/ Created(m) \/ Exists(m) \/ GetTag(m) \/ DeleteTag(m) \/ Deleted(m)
Failure(m) ==
  ReadFails(m) \/ CreateFails(m) \/ CreatedLost(m) \/ DeleteFails(m) \/ DeletedLost(m)

Next ==
  \/ \E m \in Mutex : \/ \E nb \in BOOLEAN : Lock(m, nb)
                      \/ Cancel(m) \/ Unlock(m) \/ Progress(m) \/ Failure(m)
  \/ \E t \in lateDeletes : LateDelete(t)
  \/ \E u \in User : BlueprintLock(u)
  \/ LateCreate \/ ForceUnlock \/ BlueprintUnlock

Spec == Init /\ [][Next]_vars

(* Fairness.  A call under way goes on, a goroutine that holds the mutex   *)
(* calls Unlock, again when it failed, and a user leaves the blueprint     *)
(* alone again and again, long enough for a poll to see it.                *)
Fairness ==
  /\ \A m \in Mutex : /\ WF_vars(Progress(m))
                      /\ WF_vars(tagId[m] # None /\ Unlock(m))
                      /\ SF_vars(PollStatus(m) /\ bpLock = Nobody)
  /\ WF_vars(BlueprintUnlock)

FairSpec == Spec /\ Fairness

-----------------------------------------------------------------------------
(* Properties.                                                             *)

Pc     == {"idle", "pollStatus", "create", "created", "exists", "getTag", "delete", "deleted"}
Answer == {"none", "ok", "alreadyLocked", "cancelled", "blueprintLocked", "mutexLocked", "error",
           "notFound"}

TypeOK ==
  /\ issued \in Nat /\ tag \in 0..issued
  /\ bpLock \in User \cup {Nobody}
  /\ lateCreates \in Nat /\ lateDeletes \subseteq 0..issued
  /\ tagId \in [Mutex -> 0..issued]
  /\ pc \in [Mutex -> Pc]
  /\ nonBlocking \in [Mutex -> BOOLEAN]
  /\ reply \in [Mutex -> 0..issued]
  /\ answer \in [Mutex -> Answer]
  /\ held \subseteq Mutex
  /\ forced \subseteq 1..issued /\ orphans \subseteq 1..issued
  /\ calls \in Nat /\ faults \in Nat

\* two_stage_l3_clos_mutex.go:63-65: Lock blocks until it asserts the tag.  Between a Lock
\* that returned nil and the call of Unlock no other mutex of the blueprint is locked,
\* whatever requests were lost or late, unless the tag was removed by hand.
MutualExclusion == \A m, n \in held : tagId[m] \notin forced /\ tagId[n] \notin forced => m = n

\* The tag of a locked mutex goes away only by its own Unlock, or by hand: no other
\* client's Unlock, retry or late request deletes it.
HeldTagIsSafe ==
  [][\A m \in held : tagId[m] = tag /\ tag' # tag => tag \in forced' \/ m \notin held']_vars

\* What a client relies on, two_stage_l3_clos_mutex.go:63-65 and :171: the tag is a lock.
\* Whatever the requests do, there is a single moment at which it is taken and one at which
\* it is given back, and a removal by hand gives it back in its holder's place.
TagService ==
  INSTANCE AbstractLock WITH
    Goroutine <- {{m} : m \in Mutex}, LockName <- {"blueprint"}, Nobody <- {},
    owner <- [n \in {"blueprint"} |-> {m \in held : tagId[m] \notin forced}]
ImplementsOneLock == TagService!LockedSpec

\* Whatever fails, the ID of the tag stays with some mutex that can delete it; only a
\* tag whose creator never saw the reply is nobody's.
TagHasOwner ==
  tag \notin orphans \cup {None} =>
    \E m \in Mutex : tagId[m] = tag \/ (pc[m] = "created" /\ reply[m] = tag)

\* Lock gets in once the others stop taking the mutex again, TryLock and Unlock return,
\* except that a tag nobody knows the ID of keeps Lock waiting.
CallsReturn == \A m \in Mutex : pc[m] # "idle" ~> pc[m] = "idle" \/ tag \in orphans

\* two_stage_l3_clos_mutex.go:171: "Unlock releases the mutex".  When the server says that
\* the tag is not there, the mutex is released: Unlock means to accept ErrNotfound.
UnlockReleases == \A m \in Mutex : answer[m] = "notFound" => tagId[m] = None

(* The inductive invariant.                                                *)

\* A tag that was just created and not yet stored.
Fresh(m) == pc[m] = "created"

\* No two mutexes know the same tag.
OwnersDistinct ==
  /\ \A m, n \in Mutex : tagId[m] = tagId[n] /\ tagId[m] # None => m = n
  /\ \A m, n \in Mutex : Fresh(m) /\ Fresh(n) /\ reply[m] = reply[n] => m = n
  /\ \A m, n \in Mutex : Fresh(m) => reply[m] # None /\ reply[m] # tagId[n]

\* A call of Lock is under way on an unlocked mutex only.
LockingIsUnlocked ==
  \A m \in Mutex : pc[m] \in {"pollStatus", "create", "created", "exists", "getTag"} => tagId[m] = None

\* The server has the tag of a locked mutex, and no late request is about to delete it.
Live(t) == (t = tag \/ t \in forced) /\ t \notin lateDeletes
HeldIsLive  == \A m \in held : tagId[m] # None /\ pc[m] = "idle" /\ Live(tagId[m])
FreshIsLive == \A m \in Mutex : Fresh(m) => Live(reply[m])

\* A tag that its Unlock has deleted does not come back.
DeletedIsGone == \A m \in Mutex : pc[m] = "deleted" => tagId[m] # None /\ tagId[m] # tag

IInv == TypeOK /\ OwnersDistinct /\ LockingIsUnlocked /\ DeletedIsGone /\ HeldIsLive /\ FreshIsLive /\ TagHasOwner
=============================================================================
