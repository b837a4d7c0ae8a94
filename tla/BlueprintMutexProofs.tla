------------------------ MODULE BlueprintMutexProofs ------------------------
(***************************************************************************)
(* The blueprint mutex excludes, for any number of clients, calls, lost    *)
(* and late requests.  The inductive invariant says that no two mutexes    *)
(* know the same tag, that the tag of a locked mutex is the server's, and  *)
(* that no late request is about to delete it.                             *)
(***************************************************************************)
EXTENDS BlueprintMutex, TLAPS

(* The initial states satisfy the invariant. *)
LEMMA InitIInv == Init => IInv
BY UserOfAssumption, UserAssumption DEF Init, IInv, TypeOK, Pc, Answer, OwnersDistinct, Fresh, LockingIsUnlocked,
  DeletedIsGone, HeldIsLive, FreshIsLive, Live, TagHasOwner, None, Nobody

(* What a call's local variables are when it returns or goes on. *)
Locals ==
  /\ pc \in [Mutex -> Pc] /\ nonBlocking \in [Mutex -> BOOLEAN]
  /\ answer \in [Mutex -> Answer] /\ reply \in [Mutex -> 0..issued]

LEMMA ReturnTypes ==
  ASSUME Locals, issued \in Nat, issued' = issued, NEW m \in Mutex, NEW a \in Answer, Return(m, a)
  PROVE  Locals'
<1> USE DEF Locals, Return, Goto, Pc, Answer, None
<1>1. nonBlocking' \in [Mutex -> BOOLEAN]
  OBVIOUS
<1>2. reply' \in [Mutex -> 0..issued']
  OBVIOUS
<1>. QED
  BY <1>1, <1>2

LEMMA ContinueTypes ==
  ASSUME Locals, issued \in Nat, issued' = issued, NEW m \in Mutex, NEW l \in Pc, Continue(m, l)
  PROVE  Locals'
BY DEF Locals, Continue, Goto, Pc

(* Every step keeps the types. *)
LEMMA StepTypeOK == ASSUME IInv, [Next]_vars PROVE TypeOK'
<1> USE UserOfAssumption, UserAssumption, BoundsAssumption DEF IInv, TypeOK, Pc, Answer, vars, server, history, None, Return, Continue, Goto, Fault, MakeTag, Nobody
<1>1. ASSUME NEW m \in Mutex, NEW nb \in BOOLEAN, Lock(m, nb) PROVE TypeOK'
  <2>1. Locals
    BY DEF Locals
  <2>2. CASE tagId[m] # None
    BY <1>1, <2>1, <2>2, ReturnTypes DEF Lock, Locals
  <2>3. CASE tagId[m] = None
    <3>1. nonBlocking' \in [Mutex -> BOOLEAN]
      BY <1>1, <2>3 DEF Lock
    <3>. QED
      BY <1>1, <2>3, <3>1 DEF Lock
  <2>. QED
    BY <2>2, <2>3
<1>2. ASSUME NEW m \in Mutex, Cancel(m) PROVE TypeOK'
  BY <1>2 DEF Cancel
<1>3. ASSUME NEW m \in Mutex, Unlock(m) PROVE TypeOK'
  BY <1>3 DEF Unlock
<1>4. ASSUME NEW m \in Mutex, PollStatus(m) PROVE TypeOK'
  <2>1. Locals
    BY DEF Locals
  <2>2. Locals'
    BY <1>4, <2>1, ReturnTypes, ContinueTypes DEF PollStatus, Return, Continue
  <2>. QED
    BY <1>4, <2>2 DEF PollStatus, Locals
<1>5. ASSUME NEW m \in Mutex, CreateTag(m) PROVE TypeOK'
  BY <1>5 DEF CreateTag
<1>6. ASSUME NEW m \in Mutex, Created(m) PROVE TypeOK'
  BY <1>6 DEF Created
<1>7. ASSUME NEW m \in Mutex, Exists(m) PROVE TypeOK'
  BY <1>7 DEF Exists
<1>8. ASSUME NEW m \in Mutex, GetTag(m) PROVE TypeOK'
  <2>1. Locals
    BY DEF Locals
  <2>2. Locals'
    BY <1>8, <2>1, ReturnTypes, ContinueTypes DEF GetTag, Return, Continue
  <2>. QED
    BY <1>8, <2>2 DEF GetTag, Locals
<1>9. ASSUME NEW m \in Mutex, DeleteTag(m) PROVE TypeOK'
  <2>1. Locals
    BY DEF Locals
  <2>2. Locals'
    BY <1>9, <2>1, ReturnTypes, ContinueTypes DEF DeleteTag, Return, Continue
  <2>. QED
    BY <1>9, <2>2 DEF DeleteTag, Locals
<1>10. ASSUME NEW m \in Mutex, Deleted(m) PROVE TypeOK'
  BY <1>10 DEF Deleted
<1>11. ASSUME NEW m \in Mutex, ReadFails(m) PROVE TypeOK'
  BY <1>11 DEF ReadFails
<1>12. ASSUME NEW m \in Mutex, CreateFails(m) PROVE TypeOK'
  BY <1>12 DEF CreateFails
<1>13. ASSUME NEW m \in Mutex, CreatedLost(m) PROVE TypeOK'
  <2>1. reply[m] \in 1..issued
    BY <1>13 DEF CreatedLost, OwnersDistinct, Fresh
  <2>2. orphans' \subseteq 1..issued'
    BY <1>13, <2>1 DEF CreatedLost
  <2>3. reply' \in [Mutex -> 0..issued']
    BY <1>13 DEF CreatedLost
  <2>4. nonBlocking' \in [Mutex -> BOOLEAN]
    BY <1>13 DEF CreatedLost
  <2>. QED
    BY <1>13, <2>2, <2>3, <2>4 DEF CreatedLost
<1>14. ASSUME NEW m \in Mutex, DeleteFails(m) PROVE TypeOK'
  BY <1>14 DEF DeleteFails
<1>15. ASSUME NEW m \in Mutex, DeletedLost(m) PROVE TypeOK'
  BY <1>15 DEF DeletedLost
<1>16. ASSUME LateCreate PROVE TypeOK'
  <2>1. lateCreates' \in Nat
    BY <1>16 DEF LateCreate
  <2>2. CASE tag = None
    <3>1. issued' = issued + 1 /\ tag' = issued' /\ orphans' = orphans \cup {issued'}
      BY <1>16, <2>2 DEF LateCreate
    <3>2. 0..issued \subseteq 0..issued' /\ 1..issued \subseteq 1..issued' /\ issued' \in 1..issued'
      BY <3>1
    <3>3. orphans' \subseteq 1..issued' /\ lateDeletes' \subseteq 0..issued' /\ forced' \subseteq 1..issued'
      BY <1>16, <3>1, <3>2 DEF LateCreate
    <3>4. tagId' \in [Mutex -> 0..issued'] /\ reply' \in [Mutex -> 0..issued']
      BY <1>16, <3>2 DEF LateCreate
    <3>5. issued' \in Nat /\ tag' \in 0..issued'
      BY <3>1
    <3>. QED
      BY <1>16, <2>1, <3>3, <3>4, <3>5 DEF LateCreate
  <2>3. CASE tag # None
    BY <1>16, <2>1, <2>3 DEF LateCreate
  <2>. QED
    BY <2>2, <2>3
<1>17. ASSUME NEW t \in lateDeletes, LateDelete(t) PROVE TypeOK'
  BY <1>17 DEF LateDelete
<1>18. ASSUME NEW u \in User, BlueprintLock(u) PROVE TypeOK'
  BY <1>18 DEF BlueprintLock
<1>19. ASSUME ForceUnlock PROVE TypeOK'
  BY <1>19 DEF ForceUnlock
<1>20. ASSUME BlueprintUnlock PROVE TypeOK'
  BY <1>20 DEF BlueprintUnlock
<1>21. CASE UNCHANGED vars
  BY <1>21
<1>. QED
  BY <1>1, <1>2, <1>3, <1>4, <1>5, <1>6, <1>7, <1>8, <1>9, <1>10, <1>11, <1>12, <1>13, <1>14, <1>15, <1>16, <1>17, <1>18, <1>19, <1>20, <1>21 DEF Next, Progress, Failure

(* Every step keeps the tags apart: the server never gives an ID twice. *)
LEMMA StepDistinct == ASSUME IInv, [Next]_vars PROVE OwnersDistinct'
<1> USE UserOfAssumption, UserAssumption, BoundsAssumption DEF IInv, TypeOK, Pc, Answer, vars, server, history, None, Return, Continue, Goto, Fault, MakeTag, OwnersDistinct, Fresh, LockingIsUnlocked
<1>1. ASSUME NEW m \in Mutex, NEW nb \in BOOLEAN, Lock(m, nb) PROVE OwnersDistinct'
  BY <1>1 DEF Lock
<1>2. ASSUME NEW m \in Mutex, Cancel(m) PROVE OwnersDistinct'
  BY <1>2 DEF Cancel
<1>3. ASSUME NEW m \in Mutex, Unlock(m) PROVE OwnersDistinct'
  BY <1>3 DEF Unlock
<1>4. ASSUME NEW m \in Mutex, PollStatus(m) PROVE OwnersDistinct'
  BY <1>4 DEF PollStatus
<1>5. ASSUME NEW m \in Mutex, CreateTag(m) PROVE OwnersDistinct'
  BY <1>5 DEF CreateTag
<1>6. ASSUME NEW m \in Mutex, Created(m) PROVE OwnersDistinct'
  BY <1>6 DEF Created
<1>7. ASSUME NEW m \in Mutex, Exists(m) PROVE OwnersDistinct'
  BY <1>7 DEF Exists
<1>8. ASSUME NEW m \in Mutex, GetTag(m) PROVE OwnersDistinct'
  BY <1>8 DEF GetTag
<1>9. ASSUME NEW m \in Mutex, DeleteTag(m) PROVE OwnersDistinct'
  BY <1>9 DEF DeleteTag
<1>10. ASSUME NEW m \in Mutex, Deleted(m) PROVE OwnersDistinct'
  BY <1>10 DEF Deleted
<1>11. ASSUME NEW m \in Mutex, ReadFails(m) PROVE OwnersDistinct'
  BY <1>11 DEF ReadFails
<1>12. ASSUME NEW m \in Mutex, CreateFails(m) PROVE OwnersDistinct'
  BY <1>12 DEF CreateFails
<1>13. ASSUME NEW m \in Mutex, CreatedLost(m) PROVE OwnersDistinct'
  BY <1>13 DEF CreatedLost
<1>14. ASSUME NEW m \in Mutex, DeleteFails(m) PROVE OwnersDistinct'
  BY <1>14 DEF DeleteFails
<1>15. ASSUME NEW m \in Mutex, DeletedLost(m) PROVE OwnersDistinct'
  BY <1>15 DEF DeletedLost
<1>16. ASSUME LateCreate PROVE OwnersDistinct'
  BY <1>16 DEF LateCreate
<1>17. ASSUME NEW t \in lateDeletes, LateDelete(t) PROVE OwnersDistinct'
  BY <1>17 DEF LateDelete
<1>18. ASSUME NEW u \in User, BlueprintLock(u) PROVE OwnersDistinct'
  BY <1>18 DEF BlueprintLock
<1>19. ASSUME ForceUnlock PROVE OwnersDistinct'
  BY <1>19 DEF ForceUnlock
<1>20. ASSUME BlueprintUnlock PROVE OwnersDistinct'
  BY <1>20 DEF BlueprintUnlock
<1>21. CASE UNCHANGED vars
  BY <1>21
<1>. QED
  BY <1>1, <1>2, <1>3, <1>4, <1>5, <1>6, <1>7, <1>8, <1>9, <1>10, <1>11, <1>12, <1>13, <1>14, <1>15, <1>16, <1>17, <1>18, <1>19, <1>20, <1>21 DEF Next, Progress, Failure

(* A lock attempt starts, and stays, on an unlocked mutex. *)
LEMMA StepLocking == ASSUME IInv, [Next]_vars PROVE LockingIsUnlocked'
<1> USE UserOfAssumption, UserAssumption, BoundsAssumption DEF IInv, TypeOK, Pc, Answer, vars, server, history, None, Return, Continue, Goto, Fault, MakeTag, LockingIsUnlocked
<1>1. ASSUME NEW m \in Mutex, NEW nb \in BOOLEAN, Lock(m, nb) PROVE LockingIsUnlocked'
  BY <1>1 DEF Lock
<1>2. ASSUME NEW m \in Mutex, Cancel(m) PROVE LockingIsUnlocked'
  BY <1>2 DEF Cancel
<1>3. ASSUME NEW m \in Mutex, Unlock(m) PROVE LockingIsUnlocked'
  BY <1>3 DEF Unlock
<1>4. ASSUME NEW m \in Mutex, PollStatus(m) PROVE LockingIsUnlocked'
  BY <1>4 DEF PollStatus
<1>5. ASSUME NEW m \in Mutex, CreateTag(m) PROVE LockingIsUnlocked'
  BY <1>5 DEF CreateTag
<1>6. ASSUME NEW m \in Mutex, Created(m) PROVE LockingIsUnlocked'
  BY <1>6 DEF Created
<1>7. ASSUME NEW m \in Mutex, Exists(m) PROVE LockingIsUnlocked'
  BY <1>7 DEF Exists
<1>8. ASSUME NEW m \in Mutex, GetTag(m) PROVE LockingIsUnlocked'
  BY <1>8 DEF GetTag
<1>9. ASSUME NEW m \in Mutex, DeleteTag(m) PROVE LockingIsUnlocked'
  BY <1>9 DEF DeleteTag
<1>10. ASSUME NEW m \in Mutex, Deleted(m) PROVE LockingIsUnlocked'
  BY <1>10 DEF Deleted
<1>11. ASSUME NEW m \in Mutex, ReadFails(m) PROVE LockingIsUnlocked'
  BY <1>11 DEF ReadFails
<1>12. ASSUME NEW m \in Mutex, CreateFails(m) PROVE LockingIsUnlocked'
  BY <1>12 DEF CreateFails
<1>13. ASSUME NEW m \in Mutex, CreatedLost(m) PROVE LockingIsUnlocked'
  BY <1>13 DEF CreatedLost
<1>14. ASSUME NEW m \in Mutex, DeleteFails(m) PROVE LockingIsUnlocked'
  BY <1>14 DEF DeleteFails
<1>15. ASSUME NEW m \in Mutex, DeletedLost(m) PROVE LockingIsUnlocked'
  BY <1>15 DEF DeletedLost
<1>16. ASSUME LateCreate PROVE LockingIsUnlocked'
  BY <1>16 DEF LateCreate
<1>17. ASSUME NEW t \in lateDeletes, LateDelete(t) PROVE LockingIsUnlocked'
  BY <1>17 DEF LateDelete
<1>18. ASSUME NEW u \in User, BlueprintLock(u) PROVE LockingIsUnlocked'
  BY <1>18 DEF BlueprintLock
<1>19. ASSUME ForceUnlock PROVE LockingIsUnlocked'
  BY <1>19 DEF ForceUnlock
<1>20. ASSUME BlueprintUnlock PROVE LockingIsUnlocked'
  BY <1>20 DEF BlueprintUnlock
<1>21. CASE UNCHANGED vars
  BY <1>21
<1>. QED
  BY <1>1, <1>2, <1>3, <1>4, <1>5, <1>6, <1>7, <1>8, <1>9, <1>10, <1>11, <1>12, <1>13, <1>14, <1>15, <1>16, <1>17, <1>18, <1>19, <1>20, <1>21 DEF Next, Progress, Failure

(* A deleted tag stays deleted: IDs are not given twice. *)
LEMMA StepDeleted == ASSUME IInv, [Next]_vars PROVE DeletedIsGone'
<1> USE UserOfAssumption, UserAssumption, BoundsAssumption DEF IInv, TypeOK, Pc, Answer, vars, server, history, None, Return, Continue, Goto, Fault, MakeTag, LockingIsUnlocked, DeletedIsGone
<1>1. ASSUME NEW m \in Mutex, NEW nb \in BOOLEAN, Lock(m, nb) PROVE DeletedIsGone'
  BY <1>1 DEF Lock
<1>2. ASSUME NEW m \in Mutex, Cancel(m) PROVE DeletedIsGone'
  BY <1>2 DEF Cancel
<1>3. ASSUME NEW m \in Mutex, Unlock(m) PROVE DeletedIsGone'
  BY <1>3 DEF Unlock
<1>4. ASSUME NEW m \in Mutex, PollStatus(m) PROVE DeletedIsGone'
  BY <1>4 DEF PollStatus
<1>5. ASSUME NEW m \in Mutex, CreateTag(m) PROVE DeletedIsGone'
  BY <1>5 DEF CreateTag
<1>6. ASSUME NEW m \in Mutex, Created(m) PROVE DeletedIsGone'
  BY <1>6 DEF Created
<1>7. ASSUME NEW m \in Mutex, Exists(m) PROVE DeletedIsGone'
  BY <1>7 DEF Exists
<1>8. ASSUME NEW m \in Mutex, GetTag(m) PROVE DeletedIsGone'
  BY <1>8 DEF GetTag
<1>9. ASSUME NEW m \in Mutex, DeleteTag(m) PROVE DeletedIsGone'
  BY <1>9 DEF DeleteTag
<1>10. ASSUME NEW m \in Mutex, Deleted(m) PROVE DeletedIsGone'
  BY <1>10 DEF Deleted
<1>11. ASSUME NEW m \in Mutex, ReadFails(m) PROVE DeletedIsGone'
  BY <1>11 DEF ReadFails
<1>12. ASSUME NEW m \in Mutex, CreateFails(m) PROVE DeletedIsGone'
  BY <1>12 DEF CreateFails
<1>13. ASSUME NEW m \in Mutex, CreatedLost(m) PROVE DeletedIsGone'
  BY <1>13 DEF CreatedLost
<1>14. ASSUME NEW m \in Mutex, DeleteFails(m) PROVE DeletedIsGone'
  BY <1>14 DEF DeleteFails
<1>15. ASSUME NEW m \in Mutex, DeletedLost(m) PROVE DeletedIsGone'
  BY <1>15 DEF DeletedLost
<1>16. ASSUME LateCreate PROVE DeletedIsGone'
  BY <1>16 DEF LateCreate
<1>17. ASSUME NEW t \in lateDeletes, LateDelete(t) PROVE DeletedIsGone'
  BY <1>17 DEF LateDelete
<1>18. ASSUME NEW u \in User, BlueprintLock(u) PROVE DeletedIsGone'
  BY <1>18 DEF BlueprintLock
<1>19. ASSUME ForceUnlock PROVE DeletedIsGone'
  BY <1>19 DEF ForceUnlock
<1>20. ASSUME BlueprintUnlock PROVE DeletedIsGone'
  BY <1>20 DEF BlueprintUnlock
<1>21. CASE UNCHANGED vars
  BY <1>21
<1>. QED
  BY <1>1, <1>2, <1>3, <1>4, <1>5, <1>6, <1>7, <1>8, <1>9, <1>10, <1>11, <1>12, <1>13, <1>14, <1>15, <1>16, <1>17, <1>18, <1>19, <1>20, <1>21 DEF Next, Progress, Failure

(* A locked mutex keeps its tag. *)
LEMMA StepHeld == ASSUME IInv, [Next]_vars PROVE HeldIsLive'
<1> USE UserOfAssumption, UserAssumption, BoundsAssumption DEF IInv, TypeOK, Pc, Answer, vars, server, history, None, Return, Continue, Goto, Fault, MakeTag, OwnersDistinct, LockingIsUnlocked, Fresh, HeldIsLive, FreshIsLive, Live
<1>1. ASSUME NEW m \in Mutex, NEW nb \in BOOLEAN, Lock(m, nb) PROVE HeldIsLive'
  BY <1>1 DEF Lock
<1>2. ASSUME NEW m \in Mutex, Cancel(m) PROVE HeldIsLive'
  BY <1>2 DEF Cancel
<1>3. ASSUME NEW m \in Mutex, Unlock(m) PROVE HeldIsLive'
  BY <1>3 DEF Unlock
<1>4. ASSUME NEW m \in Mutex, PollStatus(m) PROVE HeldIsLive'
  BY <1>4 DEF PollStatus
<1>5. ASSUME NEW m \in Mutex, CreateTag(m) PROVE HeldIsLive'
  BY <1>5 DEF CreateTag
<1>6. ASSUME NEW m \in Mutex, Created(m) PROVE HeldIsLive'
  BY <1>6 DEF Created
<1>7. ASSUME NEW m \in Mutex, Exists(m) PROVE HeldIsLive'
  BY <1>7 DEF Exists
<1>8. ASSUME NEW m \in Mutex, GetTag(m) PROVE HeldIsLive'
  BY <1>8 DEF GetTag
<1>9. ASSUME NEW m \in Mutex, DeleteTag(m) PROVE HeldIsLive'
  BY <1>9 DEF DeleteTag
<1>10. ASSUME NEW m \in Mutex, Deleted(m) PROVE HeldIsLive'
  BY <1>10 DEF Deleted
<1>11. ASSUME NEW m \in Mutex, ReadFails(m) PROVE HeldIsLive'
  BY <1>11 DEF ReadFails
<1>12. ASSUME NEW m \in Mutex, CreateFails(m) PROVE HeldIsLive'
  BY <1>12 DEF CreateFails
<1>13. ASSUME NEW m \in Mutex, CreatedLost(m) PROVE HeldIsLive'
  BY <1>13 DEF CreatedLost
<1>14. ASSUME NEW m \in Mutex, DeleteFails(m) PROVE HeldIsLive'
  BY <1>14 DEF DeleteFails
<1>15. ASSUME NEW m \in Mutex, DeletedLost(m) PROVE HeldIsLive'
  BY <1>15 DEF DeletedLost
<1>16. ASSUME LateCreate PROVE HeldIsLive'
  BY <1>16 DEF LateCreate
<1>17. ASSUME NEW t \in lateDeletes, LateDelete(t) PROVE HeldIsLive'
  BY <1>17 DEF LateDelete
<1>18. ASSUME NEW u \in User, BlueprintLock(u) PROVE HeldIsLive'
  BY <1>18 DEF BlueprintLock
<1>19. ASSUME ForceUnlock PROVE HeldIsLive'
  BY <1>19 DEF ForceUnlock
<1>20. ASSUME BlueprintUnlock PROVE HeldIsLive'
  BY <1>20 DEF BlueprintUnlock
<1>21. CASE UNCHANGED vars
  BY <1>21
<1>. QED
  BY <1>1, <1>2, <1>3, <1>4, <1>5, <1>6, <1>7, <1>8, <1>9, <1>10, <1>11, <1>12, <1>13, <1>14, <1>15, <1>16, <1>17, <1>18, <1>19, <1>20, <1>21 DEF Next, Progress, Failure

(* A tag just made is the server's. *)
LEMMA StepFresh == ASSUME IInv, [Next]_vars PROVE FreshIsLive'
<1> USE UserOfAssumption, UserAssumption, BoundsAssumption DEF IInv, TypeOK, Pc, Answer, vars, server, history, None, Return, Continue, Goto, Fault, MakeTag, OwnersDistinct, LockingIsUnlocked, Fresh, FreshIsLive, Live
<1>1. ASSUME NEW m \in Mutex, NEW nb \in BOOLEAN, Lock(m, nb) PROVE FreshIsLive'
  BY <1>1 DEF Lock
<1>2. ASSUME NEW m \in Mutex, Cancel(m) PROVE FreshIsLive'
  BY <1>2 DEF Cancel
<1>3. ASSUME NEW m \in Mutex, Unlock(m) PROVE FreshIsLive'
  BY <1>3 DEF Unlock
<1>4. ASSUME NEW m \in Mutex, PollStatus(m) PROVE FreshIsLive'
  BY <1>4 DEF PollStatus
<1>5. ASSUME NEW m \in Mutex, CreateTag(m) PROVE FreshIsLive'
  BY <1>5 DEF CreateTag
<1>6. ASSUME NEW m \in Mutex, Created(m) PROVE FreshIsLive'
  BY <1>6 DEF Created
<1>7. ASSUME NEW m \in Mutex, Exists(m) PROVE FreshIsLive'
  BY <1>7 DEF Exists
<1>8. ASSUME NEW m \in Mutex, GetTag(m) PROVE FreshIsLive'
  BY <1>8 DEF GetTag
<1>9. ASSUME NEW m \in Mutex, DeleteTag(m) PROVE FreshIsLive'
  BY <1>9 DEF DeleteTag
<1>10. ASSUME NEW m \in Mutex, Deleted(m) PROVE FreshIsLive'
  BY <1>10 DEF Deleted
<1>11. ASSUME NEW m \in Mutex, ReadFails(m) PROVE FreshIsLive'
  BY <1>11 DEF ReadFails
<1>12. ASSUME NEW m \in Mutex, CreateFails(m) PROVE FreshIsLive'
  BY <1>12 DEF CreateFails
<1>13. ASSUME NEW m \in Mutex, CreatedLost(m) PROVE FreshIsLive'
  BY <1>13 DEF CreatedLost
<1>14. ASSUME NEW m \in Mutex, DeleteFails(m) PROVE FreshIsLive'
  BY <1>14 DEF DeleteFails
<1>15. ASSUME NEW m \in Mutex, DeletedLost(m) PROVE FreshIsLive'
  BY <1>15 DEF DeletedLost
<1>16. ASSUME LateCreate PROVE FreshIsLive'
  BY <1>16 DEF LateCreate
<1>17. ASSUME NEW t \in lateDeletes, LateDelete(t) PROVE FreshIsLive'
  BY <1>17 DEF LateDelete
<1>18. ASSUME NEW u \in User, BlueprintLock(u) PROVE FreshIsLive'
  BY <1>18 DEF BlueprintLock
<1>19. ASSUME ForceUnlock PROVE FreshIsLive'
  BY <1>19 DEF ForceUnlock
<1>20. ASSUME BlueprintUnlock PROVE FreshIsLive'
  BY <1>20 DEF BlueprintUnlock
<1>21. CASE UNCHANGED vars
  BY <1>21
<1>. QED
  BY <1>1, <1>2, <1>3, <1>4, <1>5, <1>6, <1>7, <1>8, <1>9, <1>10, <1>11, <1>12, <1>13, <1>14, <1>15, <1>16, <1>17, <1>18, <1>19, <1>20, <1>21 DEF Next, Progress, Failure

(* Every tag but an orphan stays with a mutex. *)
LEMMA StepOwner == ASSUME IInv, [Next]_vars PROVE TagHasOwner'
<1> USE UserOfAssumption, UserAssumption, BoundsAssumption DEF IInv, TypeOK, Pc, Answer, vars, server, history, None, Return, Continue, Goto, Fault, MakeTag, OwnersDistinct, LockingIsUnlocked, DeletedIsGone, Fresh, TagHasOwner
<1>1. ASSUME NEW m \in Mutex, NEW nb \in BOOLEAN, Lock(m, nb) PROVE TagHasOwner'
  BY <1>1 DEF Lock
<1>2. ASSUME NEW m \in Mutex, Cancel(m) PROVE TagHasOwner'
  BY <1>2 DEF Cancel
<1>3. ASSUME NEW m \in Mutex, Unlock(m) PROVE TagHasOwner'
  BY <1>3 DEF Unlock
<1>4. ASSUME NEW m \in Mutex, PollStatus(m) PROVE TagHasOwner'
  BY <1>4 DEF PollStatus
<1>5. ASSUME NEW m \in Mutex, CreateTag(m) PROVE TagHasOwner'
  BY <1>5 DEF CreateTag
<1>6. ASSUME NEW m \in Mutex, Created(m) PROVE TagHasOwner'
  BY <1>6 DEF Created
<1>7. ASSUME NEW m \in Mutex, Exists(m) PROVE TagHasOwner'
  BY <1>7 DEF Exists
<1>8. ASSUME NEW m \in Mutex, GetTag(m) PROVE TagHasOwner'
  BY <1>8 DEF GetTag
<1>9. ASSUME NEW m \in Mutex, DeleteTag(m) PROVE TagHasOwner'
  BY <1>9 DEF DeleteTag
<1>10. ASSUME NEW m \in Mutex, Deleted(m) PROVE TagHasOwner'
  BY <1>10 DEF Deleted
<1>11. ASSUME NEW m \in Mutex, ReadFails(m) PROVE TagHasOwner'
  BY <1>11 DEF ReadFails
<1>12. ASSUME NEW m \in Mutex, CreateFails(m) PROVE TagHasOwner'
  BY <1>12 DEF CreateFails
<1>13. ASSUME NEW m \in Mutex, CreatedLost(m) PROVE TagHasOwner'
  BY <1>13 DEF CreatedLost
<1>14. ASSUME NEW m \in Mutex, DeleteFails(m) PROVE TagHasOwner'
  BY <1>14 DEF DeleteFails
<1>15. ASSUME NEW m \in Mutex, DeletedLost(m) PROVE TagHasOwner'
  BY <1>15 DEF DeletedLost
<1>16. ASSUME LateCreate PROVE TagHasOwner'
  BY <1>16 DEF LateCreate
<1>17. ASSUME NEW t \in lateDeletes, LateDelete(t) PROVE TagHasOwner'
  BY <1>17 DEF LateDelete
<1>18. ASSUME NEW u \in User, BlueprintLock(u) PROVE TagHasOwner'
  BY <1>18 DEF BlueprintLock
<1>19. ASSUME ForceUnlock PROVE TagHasOwner'
  BY <1>19 DEF ForceUnlock
<1>20. ASSUME BlueprintUnlock PROVE TagHasOwner'
  BY <1>20 DEF BlueprintUnlock
<1>21. CASE UNCHANGED vars
  BY <1>21
<1>. QED
  BY <1>1, <1>2, <1>3, <1>4, <1>5, <1>6, <1>7, <1>8, <1>9, <1>10, <1>11, <1>12, <1>13, <1>14, <1>15, <1>16, <1>17, <1>18, <1>19, <1>20, <1>21 DEF Next, Progress, Failure

(* The invariant holds of the specification. *)
THEOREM Invariance == Spec => []IInv
<1>1. Init => IInv
  BY InitIInv
<1>2. IInv /\ [Next]_vars => IInv'
  BY StepTypeOK, StepDistinct, StepLocking, StepDeleted, StepHeld, StepFresh, StepOwner DEF IInv
<1>. QED
  BY <1>1, <1>2, PTL DEF Spec

(* TypeOK: the variables keep their types. *)
THEOREM TypeCorrect == Spec => []TypeOK
<1>1. IInv => TypeOK
  BY DEF IInv
<1>. QED
  BY <1>1, Invariance, PTL

(* MutualExclusion: two locked mutexes whose tags nobody removed by hand both have the *)
(* server's tag, and so are one.                                                       *)
THEOREM Exclusion == Spec => []MutualExclusion
<1>1. IInv => MutualExclusion
  <2> SUFFICES ASSUME IInv, NEW m \in held, NEW n \in held,
                      tagId[m] \notin forced, tagId[n] \notin forced
               PROVE  m = n
    BY DEF MutualExclusion
  <2>1. tagId[m] = tag /\ tagId[n] = tag /\ tagId[m] # None
    BY DEF IInv, HeldIsLive, Live
  <2>. QED
    BY <2>1 DEF IInv, OwnersDistinct, TypeOK
<1>. QED
  BY <1>1, Invariance, PTL

(* TagHasOwner: a tag that is no orphan can be deleted by the mutex that knows its ID. *)
THEOREM TagsAreOwned == Spec => []TagHasOwner
<1>1. IInv => TagHasOwner
  BY DEF IInv
<1>. QED
  BY <1>1, Invariance, PTL

(* HeldTagIsSafe: a step that takes the tag of a locked mutex away is its own Unlock or *)
(* a removal by hand.                                                                   *)
LEMMA StepSafe ==
  ASSUME IInv, [Next]_vars, NEW x \in held, tagId[x] = tag, tag' # tag
  PROVE  tag \in forced' \/ x \notin held'
<1> USE DEF IInv, TypeOK, OwnersDistinct, LockingIsUnlocked, HeldIsLive, Live, vars, server, history, None, Return, Continue, Goto
<1>1. ASSUME NEW m \in Mutex, CreateTag(m) PROVE tag \in forced' \/ x \notin held'
  BY <1>1 DEF CreateTag, MakeTag
<1>2. ASSUME NEW m \in Mutex, DeleteTag(m) PROVE tag \in forced' \/ x \notin held'
  BY <1>2 DEF DeleteTag, MakeTag
<1>3. ASSUME LateCreate PROVE tag \in forced' \/ x \notin held'
  BY <1>3 DEF LateCreate, MakeTag
<1>4. ASSUME NEW t \in lateDeletes, LateDelete(t) PROVE tag \in forced' \/ x \notin held'
  BY <1>4 DEF LateDelete, MakeTag
<1>5. ASSUME ForceUnlock PROVE tag \in forced' \/ x \notin held'
  BY <1>5 DEF ForceUnlock, MakeTag
<1>6. ASSUME NEW m \in Mutex, NEW nb \in BOOLEAN,
              \/ Lock(m, nb) \/ Cancel(m) \/ Unlock(m) \/ PollStatus(m) \/ Created(m)
              \/ Exists(m) \/ GetTag(m) \/ Deleted(m) \/ ReadFails(m) \/ CreateFails(m)
              \/ CreatedLost(m) \/ DeleteFails(m) \/ DeletedLost(m)
      PROVE FALSE
  BY <1>6 DEF Lock, Cancel, Unlock, PollStatus, Created, Exists, GetTag, Deleted, ReadFails, CreateFails, CreatedLost, DeleteFails, DeletedLost
<1>7. ASSUME NEW u \in User, BlueprintLock(u) \/ BlueprintUnlock PROVE FALSE
  BY <1>7 DEF BlueprintLock, BlueprintUnlock
<1>8. ASSUME BlueprintUnlock PROVE FALSE
  BY <1>8 DEF BlueprintUnlock
<1>9. CASE UNCHANGED vars
  BY <1>9
<1>. QED
  BY <1>1, <1>2, <1>3, <1>4, <1>5, <1>6, <1>7, <1>8, <1>9 DEF Next, Progress, Failure

(* The tag of a locked mutex is safe from everybody else. *)
THEOREM HeldTagsAreSafe == Spec => HeldTagIsSafe
<1>1. IInv /\ [Next]_vars => [\A m \in held : tagId[m] = tag /\ tag' # tag => tag \in forced' \/ m \notin held']_vars
  BY StepSafe
<1>. QED
  BY <1>1, Invariance, PTL DEF Spec, HeldTagIsSafe

(* At most one mutex is locked whose tag was not removed by hand. *)
LEMMA OneHolder ==
  ASSUME IInv, NEW m \in held, NEW n \in held, tagId[m] \notin forced, tagId[n] \notin forced
  PROVE  m = n /\ m \in Mutex /\ tagId[m] = tag
<1>1. tagId[m] = tag /\ tagId[n] = tag /\ tagId[m] # None
  BY DEF IInv, HeldIsLive, Live
<1>. QED
  BY <1>1 DEF IInv, OwnersDistinct, TypeOK

(* The design tag implements one lock: a step takes it when nobody has it, gives it back, or *)
(* leaves it alone; whatever was lost, late, failed or removed by hand.                      *)
THEOREM TagIsALock == Spec => ImplementsOneLock
<1> DEFINE Holders == {m \in held : tagId[m] \notin forced}
           own == [n \in {"blueprint"} |-> Holders]
<1>1. Init => TagService!LockedInit
  BY DEF Init, TagService!LockedInit
<1>2. IInv /\ [Next]_vars /\ IInv' => [TagService!LockedNext]_own
  <2> SUFFICES ASSUME IInv, [Next]_vars, IInv', own' # own PROVE TagService!LockedNext
    OBVIOUS
  <2>1. \A m, n \in Holders : m = n /\ m \in Mutex /\ tagId[m] = tag
    BY OneHolder
  <2>2. \A m, n \in Holders' : m = n /\ m \in Mutex
    <3>1. \A m, n \in held' : tagId'[m] \notin forced' /\ tagId'[n] \notin forced' =>
            m = n /\ m \in Mutex
      BY DEF IInv, HeldIsLive, Live, OwnersDistinct, TypeOK
    <3> QED BY <3>1
  <2>3. Holders' # Holders
    OBVIOUS
  <2>4. ASSUME NEW x \in Holders, Holders' = {} PROVE TagService!LockedNext
    <3>1. Holders = {x} /\ x \in Mutex
      BY <2>1
    <3>2. own' = [own EXCEPT !["blueprint"] = {}]
      BY <2>4
    <3>3. TagService!Release({x}, "blueprint")
      BY <3>1, <3>2 DEF TagService!Release
    <3> QED BY <3>1, <3>3 DEF TagService!LockedNext
  <2>5. ASSUME NEW x \in Holders', Holders = {} PROVE TagService!LockedNext
    <3>1. Holders' = {x} /\ x \in Mutex
      BY <2>2
    <3>2. own' = [own EXCEPT !["blueprint"] = {x}]
      BY <3>1
    <3>3. TagService!Acquire({x}, "blueprint")
      BY <2>5, <3>1, <3>2 DEF TagService!Acquire
    <3> QED BY <3>1, <3>3 DEF TagService!LockedNext
  <2>6. ASSUME NEW x \in Holders', NEW y \in Holders, x # y PROVE FALSE
    \* The lock would have passed from y to x in one step.
    <3>1. x \notin Holders /\ y \notin Holders'
      BY <2>1, <2>2, <2>6
    <3>2. x \in Mutex /\ y \in Mutex /\ x \in held' /\ tagId'[x] \notin forced'
          /\ y \in held /\ tagId[y] \notin forced
      BY <2>1, <2>2
    <3>3. x \in held \/ Created(x)
      BY <3>2 DEF server, history, vars, Next, Progress, Failure, Lock, Cancel, Unlock, PollStatus, CreateTag, Created, Exists, GetTag,
           DeleteTag, Deleted, ReadFails, CreateFails, CreatedLost, DeleteFails, DeletedLost,
           LateCreate, LateDelete, ForceUnlock, BlueprintLock, BlueprintUnlock
    <3>4. CASE Created(x)
      <4>1. tagId'[y] = tagId[y] /\ forced' = forced /\ y \in held'
        BY <2>6, <3>2, <3>4 DEF Created, IInv, TypeOK, server, history
      <4> QED BY <3>1, <3>2, <4>1
    <3>5. CASE x \in held
      <4>1. pc[x] = "idle" /\ tagId[x] \in forced
        BY <3>1, <3>5 DEF IInv, HeldIsLive
      <4>2. tagId'[x] = tagId[x] /\ forced \subseteq forced'
        BY <3>2, <4>1 DEF server, history, vars, IInv, TypeOK, Next, Progress, Failure, Lock, Cancel, Unlock, PollStatus, CreateTag, Created, Exists, GetTag,
           DeleteTag, Deleted, ReadFails, CreateFails, CreatedLost, DeleteFails, DeletedLost,
           LateCreate, LateDelete, ForceUnlock, BlueprintLock, BlueprintUnlock
      <4> QED BY <3>2, <4>1, <4>2
    <3> QED BY <3>3, <3>4, <3>5
  <2> QED BY <2>3, <2>4, <2>5, <2>6
<1>. QED
  BY <1>1, <1>2, Invariance, PTL DEF Spec, ImplementsOneLock, TagService!LockedSpec
=============================================================================
