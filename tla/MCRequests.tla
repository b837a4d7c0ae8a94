----------------------------- MODULE MCRequests -----------------------------
(* One run for the components that do not interact: a behaviour belongs to  *)
(* one of them ("part"), whose steps are its own and whose variables are    *)
(* disjoint from the others', which stay as they were at the start.         *)
EXTENDS NamedLock, Polling, Transport, BlueprintNodes

VARIABLE part

vars == <<part, lockVars, pollVars, talkVars, nodeVars>>

CONSTANTS g1, g2, policyName, b1, b2, k1, k2, l1, l2

\* A part that does not run starts in one state, from which none of its actions is taken:
\* no goroutine uses a lock, no call is left to make or to finish.
Init ==
  /\ part \in {"lock", "poll", "talk", "nodes"}
  /\ LockInit
  /\ part # "lock" => \A g \in Goroutine : lockPc[g] = "away"
  /\ IF part = "poll"
       THEN PollInit
       ELSE /\ pollCall = "ready" /\ pollPc = "idle" /\ pollResult = "none" /\ ctx = "live"
            /\ deadline = FALSE /\ attempts = 0 /\ calls = MaxCalls
            /\ job = "none" /\ agent = TRUE /\ system = "on" /\ connection = "none"
            /\ blueprint = "none" /\ cabling = FALSE /\ ready = TRUE /\ made = 0
            /\ wasConnected = FALSE
  /\ IF part = "talk"
       THEN TalkInit
       ELSE /\ tin = CHOOSE i \in Input : TRUE
            /\ leading = FALSE /\ timeout = FALSE /\ pages = 1 /\ timer = "none"
            /\ talkPc = "done" /\ talkResult = "error" /\ prefixes = 0 /\ sent = 0
            /\ expired = FALSE /\ page = 1 /\ logins = 0
            /\ token = TRUE /\ operation = "none" /\ executions = 0
  /\ NodeInit
  /\ part # "nodes" => subject = "tags" /\ nodeTags = {}

Next ==
  /\ UNCHANGED part
  /\ \/ part = "lock"   /\ LockNext   /\ UNCHANGED <<pollVars, talkVars, nodeVars>>
     \/ part = "poll"   /\ PollNext   /\ UNCHANGED <<lockVars, talkVars, nodeVars>>
     \/ part = "talk"   /\ TalkNext   /\ UNCHANGED <<lockVars, pollVars, nodeVars>>
     \/ part = "nodes"  /\ NodeNext   /\ UNCHANGED <<lockVars, pollVars, talkVars>>

Spec == Init /\ [][Next]_vars /\ LockFairness /\ PollFairness /\ TalkFairness

TypesOK == LockTypeOK /\ PollTypeOK /\ TalkTypeOK /\ NodeTypeOK
=============================================================================
