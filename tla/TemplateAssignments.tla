------------------------ MODULE TemplateAssignments ------------------------
(***************************************************************************)
(* The configuration templates of a freeform blueprint's systems           *)
(* (apstra/freeform_config_template_assignment.go).  To give a template    *)
(* exactly the systems asked for, UpdateConfigTemplateAssignmentsByTemplate*)
(* reads all assignments and sends the difference, under one lock for all  *)
(* templates and blueprints of this Client.                                *)
(***************************************************************************)
EXTENDS Naturals

CONSTANTS
  Assigner,       (* goroutines of this client                              *)
  NoAssigner,     (* none of them                                           *)
  System,         (* systems of the blueprint                               *)
  ConfigTemplate, (* configuration templates                                *)
  NoTemplate,     (* what a system without one has; the server leaves it out*)
  MaxForeign      (* bound: assignments made by other clients               *)

ASSUME NoAssignerAssumption == NoAssigner \notin Assigner
ASSUME NoTemplateAssumption == NoTemplate \notin ConfigTemplate

VARIABLES
  assigned,    (* the server's assignments                                  *)
  assignLock,  (* the holder of the lock "configTemplateAssignments"        *)
  assignPc,    (* where each worker is                                      *)
  ctID, sysIDs,(* its arguments                                             *)
  current,     (* the systems it has read as having the template            *)
  settled,     (* history: what each system has once the finished writes of *)
               (* this client and those of others took effect in their order*)
  overtaken,   (* history: another client wrote between a read and a PATCH  *)
  foreign      (* how often it did                                          *)

assignVars == <<assigned, assignLock, assignPc, ctID, sysIDs, current, settled, overtaken, foreign>>

Having(map, t) == {s \in System : map[s] = t}

\* What the comment of the function asks for: t has these systems and no others.
Giving(map, t, wanted) ==
  [s \in System |-> IF s \in wanted THEN t ELSE IF map[s] = t THEN NoTemplate ELSE map[s]]

AssignInit ==
  /\ assigned = [s \in System |-> NoTemplate] /\ settled = assigned
  /\ assignLock = NoAssigner
  /\ assignPc = [w \in Assigner |-> "idle"]
  /\ ctID = [w \in Assigner |-> NoTemplate]
  /\ sysIDs = [w \in Assigner |-> {}]
  /\ current = [w \in Assigner |-> {}]
  /\ overtaken = FALSE /\ foreign = 0

\* Another client changes one assignment.
Foreign ==
  /\ foreign < MaxForeign
  /\ foreign' = foreign + 1
  /\ \E s \in System, t \in ConfigTemplate \cup {NoTemplate} :
       /\ assigned' = [assigned EXCEPT ![s] = t]
       /\ settled'  = [settled EXCEPT ![s] = t]
  /\ overtaken' = (overtaken \/ \E w \in Assigner : assignPc[w] = "patch")
  /\ UNCHANGED <<assignLock, assignPc, ctID, sysIDs, current>>

CallAssign(w) ==
  /\ assignPc[w] = "idle"
  /\ \E t \in ConfigTemplate, wanted \in SUBSET System :
       /\ ctID'   = [ctID EXCEPT ![w] = t]
       /\ sysIDs' = [sysIDs EXCEPT ![w] = wanted]
  /\ assignPc' = [assignPc EXCEPT ![w] = "lock"]
  /\ UNCHANGED <<assigned, assignLock, current, settled, overtaken, foreign>>

\* A lock of one template: calls for different templates overlap.
LockTemplate(w) ==
  /\ assignPc[w] = "lock"
  /\ \A v \in Assigner : assignPc[v] \in {"read", "patch"} => ctID[v] # ctID[w]
  /\ assignPc' = [assignPc EXCEPT ![w] = "read"]
  /\ UNCHANGED <<assigned, assignLock, ctID, sysIDs, current, settled, overtaken, foreign>>

LockAssignments(w) ==
  /\ assignPc[w] = "lock"
  /\ assignLock = NoAssigner
  /\ assignLock' = w
  /\ assignPc' = [assignPc EXCEPT ![w] = "read"]
  /\ UNCHANGED <<assigned, ctID, sysIDs, current, settled, overtaken, foreign>>

\* The call returns; the deferred unlock runs, and its locals are gone.
AssignReturns(w) ==
  /\ assignPc' = [assignPc EXCEPT ![w] = "idle"]
  /\ assignLock' = NoAssigner
  /\ ctID' = [ctID EXCEPT ![w] = NoTemplate]
  /\ sysIDs' = [sysIDs EXCEPT ![w] = {}]
  /\ current' = [current EXCEPT ![w] = {}]

\* The systems to change, each with its new template; nothing to do for the rest
Difference(w, read) ==
  [s \in (sysIDs[w] \ read) \cup (read \ sysIDs[w]) |->
     IF s \in sysIDs[w] THEN ctID[w] ELSE NoTemplate]

\* GetConfigTemplateAssignments; an empty difference ends the call without a PATCH
ReadAssignments(w) ==
  /\ assignPc[w] = "read"
  /\ LET read == Having(assigned, ctID[w]) IN
       IF DOMAIN Difference(w, read) = {}
         THEN AssignReturns(w)
         ELSE /\ current' = [current EXCEPT ![w] = read]
              /\ assignPc' = [assignPc EXCEPT ![w] = "patch"]
              /\ UNCHANGED <<assignLock, ctID, sysIDs>>
  /\ UNCHANGED <<assigned, settled, overtaken, foreign>>

\* UpdateConfigTemplateAssignments is carried out; whether its reply arrives makes no
\* difference to the state
PatchAssignments(w) ==
  /\ assignPc[w] = "patch"
  /\ LET request == Difference(w, current[w]) IN
       assigned' = [s \in System |-> IF s \in DOMAIN request THEN request[s] ELSE assigned[s]]
  /\ settled' = Giving(settled, ctID[w], sysIDs[w])
  /\ AssignReturns(w)
  /\ UNCHANGED <<overtaken, foreign>>

\* The read or the PATCH fails
AssignFails(w) ==
  /\ assignPc[w] \in {"read", "patch"}
  /\ AssignReturns(w)
  /\ UNCHANGED <<assigned, settled, overtaken, foreign>>

AssignNext ==
  \/ Foreign
  \/ \E w \in Assigner :
       \/ CallAssign(w) \/ LockAssignments(w) \/ ReadAssignments(w)
       \/ PatchAssignments(w) \/ AssignFails(w)

AssignSpec == AssignInit /\ [][AssignNext]_assignVars

-----------------------------------------------------------------------------
(* Properties.                                                             *)

AssignTypeOK ==
  /\ assigned \in [System -> ConfigTemplate \cup {NoTemplate}]
  /\ assignLock \in Assigner \cup {NoAssigner}
  /\ assignPc \in [Assigner -> {"idle", "lock", "read", "patch"}]
  /\ sysIDs \in [Assigner -> SUBSET System]
  /\ current \in [Assigner -> SUBSET System]

\* The assignments are what the calls of this client and the changes of others make of them
\* when each takes effect at once: sending the difference to what was read is as good as
\* setting the whole list, unless another client writes between a read and its PATCH.
AssignmentsSerial == ~overtaken => assigned = settled
=============================================================================
