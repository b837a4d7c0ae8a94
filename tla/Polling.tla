------------------------------ MODULE Polling ------------------------------
(***************************************************************************)
(* The calls of apstra.Client that make requests until something happens:  *)
(* jobs of a system agent (api_system_agents.go), deletion and creation of *)
(* a blueprint and its status (client.go, api_blueprints.go), creation of  *)
(* IBA objects (api_iba_*.go), WaitUntilReady (api_ready.go).  One call    *)
(* runs at a time; what it waits for changes by itself.  A request that is *)
(* made when the context has ended fails.                                  *)
(***************************************************************************)
EXTENDS Naturals

CONSTANTS
  MaxRetries,   (* the tuning parameters named ...MaxRetries                *)
  MaxCalls      (* bound: calls made                                        *)

ASSUME RetriesAssumption == MaxRetries \in Nat
ASSUME MaxCallsAssumption == MaxCalls \in Nat

JobType  == {"check", "install", "uninstall"}   \* those systemAgentStartJob knows
Create   == {"probe", "predefinedProbe", "widget", "dashboard"}
PollCall == JobType \cup Create \cup
            {"upgrade", "deleteAgent", "deleteBlueprint", "newBlueprint", "blueprintStatus", "ready"}

VARIABLES
  pollCall,   (* the call in progress, or the last one                      *)
  pollPc,     (* which of its requests is next                              *)
  pollResult, (* "none", "ok" or the kind of its error                      *)
  ctx,        (* the caller's context: "live" or "done"                     *)
  deadline,   (* waitForBlueprintCabling: 30 seconds have passed            *)
  attempts,   (* requests made by the retry loops                           *)
  calls,      (* calls made                                                 *)
  \* the server
  job,        (* the agent's job: "none", "unlisted", "init", "in_progress", "success", "failed" *)
  connection, (* the agent: "none", "connected", "disconnected", "auth_fail", "other"   *)
  agent,      (* it exists                                                  *)
  system,     (* its system's comms: "unknown" (no system ID), "on", "off"  *)
  blueprint,  (* "none", "listed" or "deleted" (accepted, but still listed) *)
  cabling,    (* the new blueprint's cabling map exists                     *)
  ready,      (* the seven requests of ready() succeed                      *)
  made,       (* IBA objects made by the call                               *)
  wasConnected (* history: the agent was connected, or is on-box, after its job had ended *)

callVars   == <<pollCall, pollPc, pollResult, deadline, attempts, calls>>
serverVars == <<job, connection, agent, system, blueprint, cabling, ready, made, wasConnected>>
pollVars   == <<callVars, ctx, serverVars>>

\* A job that failed is not seen to have ended.
HasSucceeded(state) == state = "success"

HasExited(state) == state \in {"success", "failed"}

PollInit ==
  /\ pollCall = "ready" /\ pollPc = "idle" /\ pollResult = "none" /\ ctx = "live"
  /\ deadline = FALSE /\ attempts = 0 /\ calls = 0
  /\ job = "none" /\ agent = TRUE /\ system \in {"unknown", "on"}
  /\ connection \in {"none", "disconnected"}
  /\ blueprint = "none" /\ cabling = FALSE /\ ready \in BOOLEAN /\ made = 0
  /\ wasConnected = FALSE

-----------------------------------------------------------------------------
(* The server and the caller's context.                                    *)

Linked == connection \in {"none", "connected"}

JobGoesOn ==
  /\ \/ job = "unlisted" /\ job' = "init"
     \/ job = "init" /\ job' = "in_progress"
     \/ job = "in_progress" /\ job' \in {"success", "failed"}
  /\ wasConnected' = (HasExited(job') /\ Linked)
  /\ UNCHANGED <<callVars, ctx, connection, agent, system, blueprint, cabling, ready, made>>

ConnectionChanges ==
  /\ connection # "none" /\ agent /\ calls < MaxCalls
  /\ connection' \in {"connected", "disconnected", "auth_fail", "other"} \ {connection}
  /\ wasConnected' = (wasConnected \/ (HasExited(job) /\ connection' = "connected"))
  /\ UNCHANGED <<callVars, ctx, job, agent, system, blueprint, cabling, ready, made>>

CommsDrop ==
  /\ ~agent /\ system = "on" /\ system' = "off"
  /\ UNCHANGED <<callVars, ctx, job, connection, agent, blueprint, cabling, ready, made, wasConnected>>

BlueprintGoes ==
  /\ blueprint = "deleted" /\ blueprint' = "none"
  /\ UNCHANGED <<callVars, ctx, job, connection, agent, system, cabling, ready, made, wasConnected>>

CablingAppears ==
  /\ blueprint = "listed" /\ ~cabling /\ cabling' = TRUE
  /\ UNCHANGED <<callVars, ctx, job, connection, agent, system, blueprint, ready, made, wasConnected>>

ServerBecomesReady ==
  /\ ~ready /\ ready' = TRUE
  /\ UNCHANGED <<callVars, ctx, job, connection, agent, system, blueprint, cabling, made, wasConnected>>

ContextEnds ==
  /\ pollPc # "idle" /\ ctx = "live" /\ ctx' = "done"
  /\ UNCHANGED <<callVars, serverVars>>

DeadlinePasses ==
  /\ pollPc = "cabling" /\ ~deadline /\ deadline' = TRUE
  /\ UNCHANGED <<pollCall, pollPc, pollResult, attempts, calls, ctx, serverVars>>

-----------------------------------------------------------------------------
(* The calls.                                                              *)

Call(c) ==
  /\ pollPc = "idle" /\ calls < MaxCalls /\ calls' = calls + 1
  /\ pollCall' = c /\ pollResult' = "none" /\ attempts' = 0 /\ deadline' = FALSE
  /\ ctx' = "live" /\ made' = 0 /\ wasConnected' = FALSE
  /\ pollPc' = CASE c \in JobType \cup {"upgrade"} -> "start"
                 [] c = "deleteAgent"     -> "info"
                 [] c = "deleteBlueprint" -> "remove"
                 [] c = "newBlueprint"    -> "create"
                 [] c = "blueprintStatus" -> "fetch"
                 [] c \in Create          -> "post"
                 [] c = "ready"           -> "ready"
  /\ UNCHANGED <<job, connection, agent, system, blueprint, cabling, ready>>

Return(result) == pollPc' = "idle" /\ pollResult' = result
Goto(pc)       == pollPc' = pc /\ UNCHANGED pollResult
Asks(pc)       == pollPc = pc /\ ctx = "live"       \* a request that is answered
NoRetry        == UNCHANGED <<pollCall, deadline, attempts, calls, ctx>>

\* deleteSystemAgent: getSystemAgent
AgentInfo ==
  /\ Asks("info") /\ agent
  /\ Goto("start") /\ NoRetry /\ UNCHANGED serverVars

\* systemAgentStartJob: POST, unless the job is one it does not know
StartJob ==
  /\ pollPc = "start"
  /\ IF pollCall = "upgrade"
       THEN Return("error") /\ UNCHANGED serverVars
       ELSE /\ ctx = "live" /\ agent
            /\ job' = "unlisted" /\ wasConnected' = FALSE /\ Goto("exist")
            /\ UNCHANGED <<connection, agent, system, blueprint, cabling, ready, made>>
  /\ NoRetry

\* systemAgentWaitForJobToExist
WaitForJobToExist ==
  /\ Asks("exist")
  /\ IF job = "unlisted" THEN Goto("exist") ELSE Goto("terminate")
  /\ NoRetry /\ UNCHANGED serverVars

\* systemAgentWaitForJobTermination, and SystemAgentRunJob's switch after it
WaitForJobTermination ==
  /\ Asks("terminate")
  /\ CASE ~HasExited(job) -> Goto("terminate")
       [] HasExited(job) /\ pollCall = "install" -> Goto("connect")
       [] OTHER -> Goto("status")
  /\ NoRetry /\ UNCHANGED serverVars

\* The wait for the connection is over as soon as the agent is not rejected.
WaitForNoAuthFailure ==
  /\ Asks("connect")
  /\ IF connection = "auth_fail" THEN Return("ErrAuthFail") ELSE Goto("status")
  /\ NoRetry /\ UNCHANGED serverVars

\* systemAgentWaitForConnection
WaitForConnection ==
  /\ Asks("connect")
  /\ CASE Linked                       -> Goto("status")
       [] connection = "auth_fail"     -> Return("ErrAuthFail")
       [] connection = "disconnected"  -> Goto("connect")
       [] connection = "other"         -> Return("ErrUnknown")
  /\ NoRetry /\ UNCHANGED serverVars

\* GetSystemAgentJobStatus; deleteSystemAgent does not look at the status
JobStatus ==
  /\ Asks("status")
  /\ IF pollCall = "deleteAgent" THEN Goto("delete") ELSE Return("ok")
  /\ NoRetry /\ UNCHANGED serverVars

\* DELETE of the agent; then nothing, if it had no system
DeleteAgent ==
  /\ Asks("delete")
  /\ agent' = FALSE
  /\ IF system = "unknown" THEN Return("ok") ELSE Goto("comms")
  /\ NoRetry /\ UNCHANGED <<job, connection, system, blueprint, cabling, ready, made, wasConnected>>

\* the countdown of one minute ends the caller's wait like its own context does
WaitForComms ==
  /\ Asks("comms")
  /\ IF system = "on" THEN Goto("comms") ELSE Return("ok")
  /\ NoRetry /\ UNCHANGED serverVars

\* DeleteBlueprint
RemoveBlueprint ==
  /\ Asks("remove") /\ blueprint = "listed"
  /\ blueprint' = "deleted" /\ cabling' = FALSE /\ Goto("list")
  /\ NoRetry /\ UNCHANGED <<job, connection, agent, system, ready, made, wasConnected>>

ListBlueprints ==
  /\ Asks("list")
  /\ IF blueprint = "none" THEN Return("ok") ELSE Goto("list")
  /\ NoRetry /\ UNCHANGED serverVars

\* CreateBlueprintFromTemplate, with and without SkipCablingReadinessCheck
CreateBlueprint ==
  /\ Asks("create") /\ blueprint = "none"
  /\ blueprint' = "listed"
  /\ Goto("cabling") \/ Return("ok")
  /\ NoRetry /\ UNCHANGED <<job, connection, agent, system, cabling, ready, made, wasConnected>>

\* waitForBlueprintCabling: 404 means not yet, until the deadline
WaitForCabling ==
  /\ Asks("cabling")
  /\ CASE cabling               -> Return("ok")
       [] ~cabling /\ deadline  -> Return("ErrTimeout")
       [] ~cabling /\ ~deadline -> Goto("cabling")
  /\ NoRetry /\ UNCHANGED serverVars

\* waitUntilReady: the loop ends at the first error, and the result is nil
WaitUntilReady ==
  /\ pollPc = "ready"
  /\ IF ready /\ ctx = "live" THEN Goto("ready") ELSE Return("ok")
  /\ NoRetry /\ UNCHANGED serverVars

\* getAllBlueprintStatus: up to MaxRetries attempts; only a 404 for the list is retried
FetchBlueprintStatus ==
  /\ pollPc = "fetch"
  /\ IF attempts = MaxRetries
       THEN Return(IF MaxRetries = 0 THEN "ok" ELSE "error") /\ UNCHANGED attempts
       ELSE /\ attempts' = attempts + 1
            /\ \/ Asks("fetch") /\ Return("ok")
               \/ Asks("fetch") /\ Goto("fetch")
               \/ Return("error")
  /\ UNCHANGED <<pollCall, deadline, calls, ctx, serverVars>>

\* A lost reply is answered with another attempt.
CreateAnyRetry(kind) ==
  /\ pollPc = "post" /\ pollCall = kind
  /\ attempts' = attempts + 1
  /\ \/ Asks("post") /\ made' = made + 1 /\ Return("ok")
     \/ UNCHANGED made /\ IF attempts < MaxRetries THEN Goto("post") ELSE Return("retryLimit")
     \/ Asks("post") /\ made' = made + 1 /\ IF attempts < MaxRetries THEN Goto("post") ELSE Return("retryLimit")
  /\ UNCHANGED <<pollCall, deadline, calls, ctx, job, connection, agent, system, blueprint, cabling, ready, wasConnected>>

\* POST: carried out; refused with a retryable error, which is tried again MaxRetries times;
\* refused or failed otherwise, carried out or not
CreateWithRetries(kind) ==
  /\ pollPc = "post" /\ pollCall = kind
  /\ attempts' = attempts + 1
  /\ \/ Asks("post") /\ made' = made + 1 /\ Return("ok")
     \/ Asks("post") /\ UNCHANGED made /\ IF attempts < MaxRetries THEN Goto("post") ELSE Return("retryLimit")
     \/ UNCHANGED made /\ Return("error")
     \/ Asks("post") /\ made' = made + 1 /\ Return("error")
  /\ UNCHANGED <<pollCall, deadline, calls, ctx, job, connection, agent, system, blueprint, cabling, ready, wasConnected>>

CreateIbaProbe          == CreateWithRetries("probe")
InstantiatePredefined   == CreateWithRetries("predefinedProbe")
CreateIbaWidget         == CreateWithRetries("widget")
CreateIbaDashboard      == CreateWithRetries("dashboard")

\* The server has nothing to answer the request with
Refused ==
  \/ pollPc \in {"info", "start", "delete"} /\ ~agent
  \/ pollPc = "remove" /\ blueprint # "listed"
  \/ pollPc = "create" /\ blueprint # "none"

\* Any other request fails, for example because the context is done: the call returns the error.
RequestFails ==
  /\ pollPc \in {"info", "start", "exist", "terminate", "connect", "status", "delete", "comms",
                 "remove", "list", "create", "cabling"}
  /\ Return("error")
  /\ NoRetry /\ UNCHANGED serverVars

CallStep ==
  \/ AgentInfo \/ StartJob \/ WaitForJobToExist \/ WaitForJobTermination \/ WaitForConnection
  \/ JobStatus \/ DeleteAgent \/ WaitForComms \/ RemoveBlueprint \/ ListBlueprints
  \/ CreateBlueprint \/ WaitForCabling \/ WaitUntilReady \/ FetchBlueprintStatus
  \/ CreateIbaProbe \/ InstantiatePredefined \/ CreateIbaWidget \/ CreateIbaDashboard

ServerStep ==
  \/ JobGoesOn \/ ConnectionChanges \/ CommsDrop \/ BlueprintGoes \/ CablingAppears
  \/ ServerBecomesReady \/ DeadlinePasses

PollNext == CallStep \/ RequestFails \/ ServerStep \/ ContextEnds \/ \E c \in PollCall : Call(c)

\* Requests are made and answered, or fail when the context has ended; jobs end, deleted
\* things go, time passes.  Only two waits need their context to end: for an agent to
\* connect, and for a ready server to fail.
PollFairness ==
  /\ WF_pollVars(CallStep)
  /\ WF_pollVars((ctx = "done" \/ Refused) /\ RequestFails)
  /\ WF_pollVars(pollPc \in {"connect", "ready"} /\ ContextEnds)
  /\ WF_pollVars(JobGoesOn)
  /\ WF_pollVars(CommsDrop)
  /\ WF_pollVars(BlueprintGoes)
  /\ WF_pollVars(DeadlinePasses)

PollSpec == PollInit /\ [][PollNext]_pollVars /\ PollFairness

-----------------------------------------------------------------------------
(* Properties.                                                             *)

PollTypeOK ==
  /\ pollCall \in PollCall
  /\ pollPc \in {"idle", "info", "start", "exist", "terminate", "connect", "status", "delete", "comms",
                 "remove", "list", "create", "cabling", "fetch", "post", "ready"}
  /\ attempts \in 0..(MaxRetries + 1) /\ calls \in 0..MaxCalls
  /\ ctx \in {"live", "done"} /\ blueprint \in {"none", "listed", "deleted"}

\* Success means what the call is for: the job has ended and the agent of an installation
\* was connected after that; the agent is gone and its system is off-line; the blueprint is
\* no longer listed.
WaitsAreOver ==
  pollPc = "idle" /\ pollResult = "ok" =>
    /\ pollCall \in JobType => HasExited(job)
    /\ pollCall = "install" => wasConnected
    /\ pollCall = "deleteAgent" => ~agent /\ system # "on" /\ HasExited(job)
    /\ pollCall = "deleteBlueprint" => blueprint = "none"

\* A creation is not repeated when it may have been carried out: one call makes at most one
\* object, exactly one if it returns an ID, and none if it gives up at the limit.
CreatesAtMostOnce ==
  /\ made <= 1
  /\ pollPc = "idle" /\ pollCall \in Create =>
       /\ pollResult = "ok" => made = 1
       /\ pollResult = "retryLimit" => made = 0

\* Every call returns. A job ends however it ends; only waiting for an agent's connection is
\* left to the caller's context.
PollReturns == pollPc # "idle" ~> pollPc = "idle"

\* "waitUntilReady calls ready() until it returns without error or the supplied context is
\* cancelled" (api_ready.go:56): nil means that the server is ready or the context ended.
ReadyMeansReady ==
  pollPc = "idle" /\ pollCall = "ready" /\ pollResult = "ok" => ready \/ ctx = "done"
=============================================================================
