----------------------------- MODULE AsyncCalls -----------------------------
(***************************************************************************)
(* What the SDK promises of an asynchronous API call (README.md:19-22): a  *)
(* call that was handed to the task monitor returns once, and only when    *)
(* its task is no longer running; what it returns is the final status of   *)
(* its own task or an error.  The service may close, but not while it owes *)
(* an answer.                                                              *)
(***************************************************************************)
CONSTANTS
  Call,        (* the asynchronous calls                                   *)
  Conclusive   (* the final statuses of a task                             *)
VARIABLES task, phase, answer, open
avars == <<task, phase, answer, open>>

Init ==
  /\ task = [c \in Call |-> "none"]
  /\ phase = [c \in Call |-> "idle"]
  /\ answer = [c \in Call |-> "none"]
  /\ open = TRUE

Move(c, from, to) == phase[c] = from /\ phase' = [phase EXCEPT ![c] = to]

Finish(c) ==
  /\ \/ /\ task[c] = "running"
        /\ \E s \in Conclusive \cup {"unrecognized"} : task' = [task EXCEPT ![c] = s]
     \/ /\ task[c] \in Conclusive \cup {"unrecognized"}
        /\ task' = [task EXCEPT ![c] = "gone"]
  /\ UNCHANGED <<phase, answer, open>>

Offer(c) ==
  /\ Move(c, "idle", "sending")
  /\ task' = [task EXCEPT ![c] = "running"]
  /\ UNCHANGED <<answer, open>>

Accept(c) == open /\ Move(c, "sending", "waiting") /\ UNCHANGED <<task, answer, open>>

Reply(c) ==
  /\ Move(c, "waiting", "answered")
  /\ task[c] \notin {"none", "running"}
  /\ \E a \in {"error"} \cup (Conclusive \cap {task[c]}) : answer' = [answer EXCEPT ![c] = a]
  /\ UNCHANGED <<task, open>>

Return(c) == Move(c, "answered", "done") /\ UNCHANGED <<task, answer, open>>

Close ==
  /\ open
  /\ \A c \in Call : phase[c] # "waiting"
  /\ open' = FALSE
  /\ UNCHANGED <<task, phase, answer>>

Next ==
  \/ Close
  \/ \E c \in Call : Finish(c) \/ Offer(c) \/ Accept(c) \/ Reply(c) \/ Return(c)

Spec == Init /\ [][Next]_avars

\* Calls the service took are answered and returned.
FairSpec == Spec /\ \A c \in Call : WF_avars(Reply(c)) /\ WF_avars(Return(c))
=============================================================================
