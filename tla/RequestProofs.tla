---------------------------- MODULE RequestProofs ----------------------------
(***************************************************************************)
(* Calls that take several requests, with the server changing in between:  *)
(* what a loop waited for, how often an object is made, that nil means     *)
(* done, and that an answer was true at some moment of the call; for every *)
(* number of attempts, pages, calls and changes, and every graph.          *)
(***************************************************************************)
EXTENDS Polling, Transport, BlueprintNodes, TLAPS

-----------------------------------------------------------------------------
(* Polling: calls that make requests until something happens.              *)

JobPc == {"exist", "terminate", "connect", "status"}

\* Which requests belong to which calls.
RequestFitsCall ==
  /\ pollPc = "info" => pollCall = "deleteAgent"
  /\ pollPc = "start" => pollCall \in JobType \cup {"upgrade", "deleteAgent"}
  /\ pollPc \in JobPc => pollCall \in JobType \cup {"deleteAgent"}
  /\ pollPc = "connect" => pollCall = "install"
  /\ pollPc \in {"delete", "comms"} => pollCall = "deleteAgent"
  /\ pollPc \in {"remove", "list"} => pollCall = "deleteBlueprint"
  /\ pollPc \in {"create", "cabling"} => pollCall = "newBlueprint"
  /\ pollPc = "fetch" => pollCall = "blueprintStatus"
  /\ pollPc = "post" => pollCall \in Create
  /\ pollPc = "ready" => pollCall = "ready"

\* The retry loops have made no more requests than they may.
WithinLimit ==
  /\ pollPc \notin {"idle", "fetch", "post"} => attempts = 0
  /\ pollPc \in {"fetch", "post"} => attempts \in 0..MaxRetries

\* What a loop has waited for stays so until the call returns.
WaitedFor ==
  /\ pollPc \in {"connect", "status", "delete", "comms"} => HasExited(job)
  /\ pollPc \in JobPc /\ HasExited(job) /\ Linked => wasConnected
  /\ pollPc = "status" /\ pollCall = "install" => wasConnected
  /\ pollPc = "comms" => ~agent

\* No object is made before the attempt that ends the loop.
NothingMadeYet == pollPc = "post" => made = 0

ServerTypes ==
  /\ connection \in {"none", "connected", "disconnected", "auth_fail", "other"}
  /\ made \in Nat

PollIInv ==
  /\ PollTypeOK /\ RequestFitsCall /\ WithinLimit /\ WaitedFor /\ NothingMadeYet
  /\ ServerTypes /\ WaitsAreOver /\ CreatesAtMostOnce

LEMMA PollInitially == PollInit => PollIInv
BY RetriesAssumption, MaxCallsAssumption
   DEF HasExited, Linked, PollInit, PollIInv, PollTypeOK, RequestFitsCall, WithinLimit,
      WaitedFor, NothingMadeYet, ServerTypes,
       WaitsAreOver, CreatesAtMostOnce, PollCall, Create, JobType, JobPc

LEMMA PollStep == PollIInv /\ [PollNext]_pollVars => PollIInv'
<1> SUFFICES ASSUME PollIInv, [PollNext]_pollVars PROVE PollIInv'
  OBVIOUS
<1> USE RetriesAssumption, MaxCallsAssumption
    DEF PollIInv, PollTypeOK, RequestFitsCall, WithinLimit, WaitedFor, NothingMadeYet, ServerTypes,
        WaitsAreOver, CreatesAtMostOnce, PollCall, Create, JobType, JobPc, Linked, HasExited,
        callVars, serverVars, Return, Goto, Asks, NoRetry
<1>1. CASE AgentInfo
  BY <1>1 DEF AgentInfo
<1>2. CASE StartJob
  BY <1>2 DEF StartJob
<1>3. CASE WaitForJobToExist
  BY <1>3 DEF WaitForJobToExist
<1>4. CASE WaitForJobTermination
  BY <1>4 DEF WaitForJobTermination
<1>5. CASE WaitForConnection
  BY <1>5 DEF WaitForConnection
<1>6. CASE JobStatus
  BY <1>6 DEF JobStatus
<1>7. CASE DeleteAgent
  BY <1>7 DEF DeleteAgent
<1>8. CASE WaitForComms
  BY <1>8 DEF WaitForComms
<1>9. CASE RemoveBlueprint
  BY <1>9 DEF RemoveBlueprint
<1>10. CASE ListBlueprints
  BY <1>10 DEF ListBlueprints
<1>11. CASE CreateBlueprint
  BY <1>11 DEF CreateBlueprint
<1>12. CASE WaitForCabling
  BY <1>12 DEF WaitForCabling
<1>13. CASE WaitUntilReady
  BY <1>13 DEF WaitUntilReady
<1>14. CASE FetchBlueprintStatus
  BY <1>14 DEF FetchBlueprintStatus
<1>15. CASE RequestFails
  BY <1>15 DEF RequestFails
<1>16. CASE JobGoesOn
  <2>1. ~HasExited(job) /\ UNCHANGED <<callVars, ctx, connection, agent, system, blueprint, made>>
    BY <1>16 DEF JobGoesOn
  <2>2. wasConnected' = (HasExited(job') /\ Linked)
    BY <1>16 DEF JobGoesOn
  <2>3. HasExited(job') /\ connection' \in {"none", "connected"} => wasConnected'
    <3> HIDE DEF HasExited
    <3> QED BY <2>1, <2>2
  <2>4. pollPc \notin {"connect", "status", "delete", "comms"}
    BY <2>1
  <2> QED BY <2>1, <2>3, <2>4
<1>17. CASE ConnectionChanges
  <2>1. /\ UNCHANGED <<callVars, ctx, job, agent, system, blueprint, made>> /\ connection # "none"
        /\ connection' \in {"connected", "disconnected", "auth_fail", "other"} \ {connection}
    BY <1>17 DEF ConnectionChanges
  <2>2. wasConnected' = (wasConnected \/ (HasExited(job) /\ connection' = "connected"))
    BY <1>17 DEF ConnectionChanges
  <2>3. /\ wasConnected => wasConnected'
        /\ HasExited(job) /\ connection' = "connected" => wasConnected'
    <3> HIDE DEF HasExited
    <3> QED BY <2>2
  <2> QED BY <2>1, <2>3
<1>18. CASE CommsDrop
  BY <1>18 DEF CommsDrop
<1>19. CASE BlueprintGoes
  BY <1>19 DEF BlueprintGoes
<1>20. CASE CablingAppears
  BY <1>20 DEF CablingAppears
<1>21. CASE ServerBecomesReady
  BY <1>21 DEF ServerBecomesReady
<1>22. CASE DeadlinePasses
  BY <1>22 DEF DeadlinePasses
<1>23. CASE ContextEnds
  BY <1>23 DEF ContextEnds
<1>24. ASSUME NEW kind \in Create, CreateWithRetries(kind) PROVE PollIInv'
  <2>1. pollPc = "post" /\ made = 0 /\ attempts \in 0..MaxRetries /\ pollCall = kind /\ kind \in Create
    BY <1>24 DEF CreateWithRetries
  <2>2. attempts' \in 0..(MaxRetries + 1) /\ made' \in {0, 1}
    BY <1>24, <2>1 DEF CreateWithRetries
  <2>3. /\ pollPc' = "idle" \/ (pollPc' = "post" /\ made' = 0 /\ attempts < MaxRetries)
        /\ pollPc' = "idle" => pollResult' \in {"ok", "error", "retryLimit"}
        /\ pollPc' = "idle" /\ pollResult' = "ok" => made' = 1
        /\ pollPc' = "idle" /\ pollResult' = "retryLimit" => made' = 0
    BY <1>24, <2>1 DEF CreateWithRetries
  <2>4. /\ attempts' = attempts + 1
        /\ UNCHANGED <<pollCall, deadline, calls, ctx>>
        /\ UNCHANGED <<job, connection, agent, system, blueprint, cabling, wasConnected>>
    BY <1>24 DEF CreateWithRetries
  <2> QED BY <2>1, <2>2, <2>3, <2>4
<1>25. ASSUME NEW c \in PollCall, Call(c) PROVE PollIInv'
  <2>1. /\ calls' \in 0..MaxCalls /\ pollCall' = c /\ pollResult' = "none" /\ attempts' = 0
        /\ deadline' = FALSE /\ ctx' = "live" /\ made' = 0 /\ wasConnected' = FALSE
        /\ UNCHANGED <<job, connection, agent, system, blueprint, cabling>>
    BY <1>25 DEF Call
  <2>2. \/ pollPc' = "start" /\ c \in JobType \cup {"upgrade"}
        \/ pollPc' = "info" /\ c = "deleteAgent"
        \/ pollPc' = "remove" /\ c = "deleteBlueprint"
        \/ pollPc' = "create" /\ c = "newBlueprint"
        \/ pollPc' = "fetch" /\ c = "blueprintStatus"
        \/ pollPc' = "post" /\ c \in Create
        \/ pollPc' = "ready" /\ c = "ready"
    <3>1. \/ c \in JobType \cup {"upgrade"} \/ c = "deleteAgent" \/ c = "deleteBlueprint"
          \/ c = "newBlueprint" \/ c = "blueprintStatus" \/ c \in Create \/ c = "ready"
      OBVIOUS
    <3>2. ASSUME c \in JobType \cup {"upgrade"} PROVE pollPc' = "start"
      BY <1>25, <3>2 DEF Call
    <3>3. ASSUME c \in Create PROVE pollPc' = "post"
      BY <1>25, <3>3 DEF Call
    <3>4. /\ c = "deleteAgent" => pollPc' = "info"
          /\ c = "deleteBlueprint" => pollPc' = "remove"
          /\ c = "newBlueprint" => pollPc' = "create"
          /\ c = "blueprintStatus" => pollPc' = "fetch"
          /\ c = "ready" => pollPc' = "ready"
      BY <1>25 DEF Call
    <3> QED BY <3>1, <3>2, <3>3, <3>4
  <2> QED BY <2>1, <2>2
<1>26. CASE UNCHANGED pollVars
  BY <1>26 DEF pollVars
<1> QED
  BY <1>1, <1>2, <1>3, <1>4, <1>5, <1>6, <1>7, <1>8, <1>9, <1>10, <1>11, <1>12, <1>13, <1>14,
     <1>15, <1>16, <1>17, <1>18, <1>19, <1>20, <1>21, <1>22, <1>23, <1>24, <1>25, <1>26
     DEF PollNext, CallStep, ServerStep, CreateIbaProbe, InstantiatePredefined, CreateIbaWidget,
         CreateIbaDashboard

\* The variables of a call that waits keep their types, and its retries their limit.
THEOREM PollTypeCorrect == PollSpec => []PollTypeOK
<1>1. PollIInv => PollTypeOK
  BY DEF PollIInv
<1> QED BY <1>1, PollInitially, PollStep, PTL DEF PollSpec

\* A call that waits and returns nil has waited for what it is for, for any number of calls and
\* retries (SystemAgentRunJob, deleteSystemAgent, DeleteBlueprint and the loops they use).
THEOREM WaitsAreOverHolds == PollSpec => []WaitsAreOver
<1>1. PollIInv => WaitsAreOver
  BY DEF PollIInv
<1> QED BY <1>1, PollInitially, PollStep, PTL DEF PollSpec

\* A call makes at most one object, one if it returns an ID, and none if it gives up, whatever
\* the number of retries (CreateIbaProbe, CreateIbaDashboard and the like).
THEOREM CreatesAtMostOnceHolds == PollSpec => []CreatesAtMostOnce
<1>1. PollIInv => CreatesAtMostOnce
  BY DEF PollIInv
<1> QED BY <1>1, PollInitially, PollStep, PTL DEF PollSpec

-----------------------------------------------------------------------------
(* Transport: one use of talkToApstra, or several with one URL.            *)

\* A call logs in for a token that has died, once for each page: then doNotLogin is set.
OneLoginPerPage ==
  /\ logins \in Nat /\ logins <= page
  /\ talkPc = "login" => ~token
  /\ talkPc # "done" /\ ~tin.doNotLogin => logins < page
  /\ talkPc = "login" => logins < page

\* The server has begun what each page before this one asked for, and of this one nothing
\* that the call does not know of.
OncePerPage ==
  /\ executions \in Nat
  /\ talkPc \in {"craft", "send", "login"} => executions + 1 = page
  /\ executions <= page

PagesInRange == pages \in 1..MaxPages /\ page <= pages

NilWhenOver == talkPc = "done" /\ talkResult = "ok" => operation \in {"done", "silent"}

TalkIInv == TalkTypeOK /\ OneLoginPerPage /\ OncePerPage /\ PagesInRange /\ NilWhenOver

LEMMA TalkInitially == TalkInit => TalkIInv
BY PagesAssumption
   DEF TalkInit, Input, TalkIInv, TalkTypeOK, OneLoginPerPage, OncePerPage, PagesInRange, NilWhenOver

LEMMA TalkStep == TalkIInv /\ [TalkNext]_talkVars => TalkIInv'
<1> SUFFICES ASSUME TalkIInv, [TalkNext]_talkVars PROVE TalkIInv'
  OBVIOUS
<1> USE PagesAssumption
    DEF TalkIInv, TalkTypeOK, OneLoginPerPage, OncePerPage, PagesInRange, NilWhenOver, input, Done
<1>1. CASE Craft
  BY <1>1 DEF Craft
<1>2. CASE SendFails
  BY <1>2 DEF SendFails
<1>3. CASE Unauthorized
  BY <1>3 DEF Unauthorized
<1>4. CASE Login
  <2>1. tin' \in [url : BOOLEAN, login : BOOLEAN, doNotLogin : BOOLEAN, writer : BOOLEAN,
              response : BOOLEAN, bpInUrl : BOOLEAN]
    BY <1>4 DEF Login
  <2> HIDE DEF input
  <2>2. /\ logins' = logins + 1 /\ tin'.doNotLogin /\ token' = TRUE /\ talkPc' = "craft" /\ talkPc = "login"
        /\ UNCHANGED <<pages, talkResult, page, operation, executions>>
    BY <1>4 DEF Login
  <2> QED BY <2>1, <2>2
<1>5. CASE LoginRefused
  BY <1>5 DEF LoginRefused
<1>6. CASE Refuse
  BY <1>6 DEF Refuse
<1>7. CASE Answer
  <2>1. tin' \in [url : BOOLEAN, login : BOOLEAN, doNotLogin : BOOLEAN, writer : BOOLEAN,
              response : BOOLEAN, bpInUrl : BOOLEAN]
    BY <1>7 DEF Answer
  <2>2. /\ talkPc = "send" /\ operation' = "done" /\ executions' = executions + 1
        /\ UNCHANGED <<pages, logins, token>> /\ token
    BY <1>7 DEF Answer
  <2>3. \/ page < pages /\ talkPc' = "craft" /\ page' = page + 1 /\ UNCHANGED talkResult
        \/ page' = page /\ talkPc' = "done" /\ talkResult' \in {"ok", "error"}
    BY <1>7 DEF Answer
  <2> QED BY <2>1, <2>2, <2>3
<1>8. CASE Accept
  BY <1>8 DEF Accept
<1>9. CASE TaskEnds
  BY <1>9 DEF TaskEnds
<1>10. CASE TaskReported
  BY <1>10 DEF TaskReported
<1>11. CASE Expire
  BY <1>11 DEF Expire
<1>12. CASE TokenExpires
  BY <1>12 DEF TokenExpires
<1>13. CASE UNCHANGED talkVars
  BY <1>13 DEF talkVars
<1> QED
  BY <1>1, <1>2, <1>3, <1>4, <1>5, <1>6, <1>7, <1>8, <1>9, <1>10, <1>11, <1>12, <1>13 DEF TalkNext

\* talkToApstra returns nil only when what was asked has been carried out, and no retry makes
\* the server do it twice, for any number of pages.
THEOREM NilMeansDoneHolds == TalkSpec => []NilMeansDone
<1>1. TalkIInv => NilMeansDone
  BY DEF TalkIInv, OncePerPage, NilWhenOver, NilMeansDone
<1> QED BY <1>1, TalkInitially, TalkStep, PTL DEF TalkSpec

\* Its variables keep their types; a call logs in once for each page at most.
THEOREM TalkTypeCorrect == TalkSpec => []TalkTypeOK
<1>1. TalkIInv => TalkTypeOK
  BY DEF TalkIInv
<1> QED BY <1>1, TalkInitially, TalkStep, PTL DEF TalkSpec

\* A deadline, once set, stays to the end of the call, through a login and the retry too;
\* only the next page, a call of its own, sets its own again.
DeadlineKept ==
  timer # "none" =>
    timer' = timer \/ (timer = "own" /\ page' = page + 1 /\ talkPc' = "craft")

\* Past its deadline a call logs in no more and has the server do nothing more: it sends what
\* it has prepared, which fails, and returns an error, in two steps at most.
AfterDeadline ==
  expired /\ talkPc \notin {"task", "done"} =>
    /\ expired' /\ UNCHANGED <<page, logins, executions>>
    /\ \/ talkPc' = talkPc
       \/ talkPc = "craft" /\ talkPc' = "send"
       \/ talkPc' = "done" /\ talkResult' = "error"

\* The part of DeadlineEndsCall that needs no fairness: the deadline is not lost on the way,
\* and once it has passed a call that does not wait for a task is at most two steps from its end.
THEOREM DeadlinesHold == TalkSpec => [][DeadlineKept /\ AfterDeadline]_talkVars
<1>1. TalkTypeOK /\ [TalkNext]_talkVars => [DeadlineKept /\ AfterDeadline]_talkVars
  <2> SUFFICES ASSUME TalkTypeOK, TalkNext PROVE DeadlineKept /\ AfterDeadline
    OBVIOUS
  <2> USE DEF DeadlineKept, AfterDeadline, TalkTypeOK, Done, input
  <2>1. CASE Craft
    BY <2>1 DEF Craft
  <2>2. CASE SendFails \/ Unauthorized \/ Login \/ LoginRefused \/ Refuse
    BY <2>2 DEF SendFails, Unauthorized, Login, LoginRefused, Refuse
  <2>3. CASE Answer
    BY <2>3 DEF Answer
  <2>4. CASE Accept \/ TaskEnds \/ TaskReported \/ Expire \/ TokenExpires
    BY <2>4 DEF Accept, TaskEnds, TaskReported, Expire, TokenExpires
  <2> QED BY <2>1, <2>2, <2>3, <2>4 DEF TalkNext
<1> QED BY <1>1, TalkTypeCorrect, PTL DEF TalkSpec

-----------------------------------------------------------------------------
(* BlueprintNodes: calls of several requests on the nodes of a blueprint.  *)

\* Which requests belong to which calls.
CallFitsSubject ==
  /\ subject \in {"tags", "system", "settings"}
  /\ subject = "tags" => /\ nodePc \in {"idle", "query", "getNode", "post"}
                         /\ nodeCall.op \in {"none", "setTags"}
  /\ subject = "system" => /\ nodePc \in {"idle", "links", "delete", "lag", "external"}
                           /\ nodeCall.op \in {"none", "deleteSystem"}
  /\ subject = "settings" => /\ nodePc \in {"idle", "all", "refuse", "refresh", "ids"} \cup Place
                             /\ nodeCall.op \in {"none", "set", "get", "refresh"}
  /\ nodePc = "all" \/ nodePc = "ids" \/ nodePc \in Place => nodeCall.op \in {"set", "get"}
  /\ nodePc = "refresh" => nodeCall.op = "refresh"
  /\ nodePc # "idle" => nodeCall.op # "none"
  /\ nodeCall.op = "setTags" => nodeCall.tags \subseteq NodeTag
  /\ nodeCall.op = "set" => nodeCall.given \subseteq Setting
  /\ nodePc = "ids" \/ nodePc \in Place => apiVersion = "4.2.0"
  /\ apiVersion \in {"4.2.0", "later", "earlier"}

ReadShape ==
  /\ nodeRead = [tags |-> nodeRead.tags, links |-> nodeRead.links, external |-> nodeRead.external,
                 detail |-> nodeRead.detail, lagErrs |-> nodeRead.lagErrs, parts |-> nodeRead.parts]
  /\ nodeRead.links \subseteq SysLink

\* The tags that SetNodeTags has read were the node's, each of them.
TagsWereRead ==
  /\ nodePc = "getNode" => \A t \in NodeTag : <<"tag", t, FALSE>> \in seen
  /\ nodePc = "post" => \A t \in NodeTag : <<"tag", t, t \in nodeRead.tags>> \in seen

\* The external system is deleted after its links.
LinksWereGone ==
  nodePc = "external" => \A l \in nodeRead.links : <<"link", l, FALSE>> \in seen

\* While no link changes its aggregate, the server's refusal leads to the aggregates it is about.
RefusalWasTrue ==
  nodePc = "lag" /\ ~regrouped =>
    /\ \A i \in nodeRead.detail : <<"ct", i, TRUE>> \in seen
    /\ \A members \in nodeRead.lagErrs :
         members # {} /\ \A l \in members : l \in SysLink /\ <<"ct", lagOf[l], TRUE>> \in seen

\* s is at a place before the one that is about to be written, or read.
Written(s) ==
  \/ s = "addressing" /\ nodePc \in {"vn", "ids", "sz", "affinity"}
  \/ s \in {"vn", "limits"} /\ nodePc \in {"ids", "sz", "affinity"}
  \/ s = "sz" /\ nodePc = "affinity"

ReadSoFar(s) ==
  \/ s = "addressing" /\ nodePc \in {"ids", "vn", "sz", "affinity"}
  \/ s \in SettingsAt("vn") /\ nodePc \in {"sz", "affinity"}
  \/ s = "sz" /\ nodePc = "affinity"

SettingsWereThere ==
  /\ nodePc # "idle" /\ nodeCall.op = "set" =>
       \A s \in nodeCall.given : Written(s) => <<"set", s, "new">> \in seen
  /\ nodePc # "idle" /\ nodeCall.op = "get" =>
       /\ \A s \in Setting : ReadSoFar(s) => s \in DOMAIN nodeRead.parts
       /\ "vn" \in DOMAIN nodeRead.parts => SettingsAt("vn") \subseteq DOMAIN nodeRead.parts
       /\ \A s \in DOMAIN nodeRead.parts : <<"set", s, nodeRead.parts[s]>> \in seen

NodeIInv ==
  /\ NodeTypeOK /\ CallFitsSubject /\ ReadShape
  /\ TagsWereRead /\ LinksWereGone /\ RefusalWasTrue /\ SettingsWereThere
  /\ AnswersWereTrue

LEMMA NodeInitially == NodeInit => NodeIInv
<1> SUFFICES ASSUME NodeInit PROVE NodeIInv
  OBVIOUS
<1>1. /\ nodeTags \subseteq NodeTag /\ sysLinks \subseteq SysLink
      /\ isNode = TRUE /\ external \in BOOLEAN /\ regrouped = FALSE
      /\ settings \in [Setting -> Value]
      /\ nodeIds \in [{"vn", "sz"} -> {"absent", "none", "one"}]
  BY DEF NodeInit, Value
<1>2. lagOf \in [SysLink -> Lag \cup {NoLag}]
  BY DEF NodeInit
<1>3. withCt \subseteq SysLink \cup Lag
  <2>1. withCt \subseteq (sysLinks \cup {lagOf[l] : l \in sysLinks}) \ {NoLag}
    BY DEF NodeInit
  <2> QED BY <1>1, <1>2, <2>1
<1>4. NodeTypeOK
  BY <1>1, <1>2, <1>3 DEF NodeTypeOK
<1>5. nodePc = "idle" /\ nodeCall.op = "none" /\ subject \in {"tags", "system", "settings"}
  BY DEF NodeInit
<1>6. CallFitsSubject
  BY <1>5 DEF NodeInit, CallFitsSubject, Place
<1>7. ReadShape
  BY DEF NodeInit, ReadShape, NoRead
<1>8. TagsWereRead /\ LinksWereGone /\ RefusalWasTrue /\ SettingsWereThere
  BY <1>5 DEF TagsWereRead, LinksWereGone, RefusalWasTrue, SettingsWereThere
<1>9. AnswersWereTrue
  BY DEF NodeInit, AnswersWereTrue, Says
<1> QED BY <1>4, <1>6, <1>7, <1>8, <1>9 DEF NodeIInv

\* What the history takes up with a request.
LEMMA SeenNow ==
  ASSUME Keeps
  PROVE  /\ UNCHANGED <<subject, apiVersion, nodeCall, regrouped>> /\ seen \subseteq seen'
         /\ subject = "tags" => /\ \A t \in NodeTag : <<"tag", t, t \in nodeTags'>> \in seen'
                                /\ <<"node", "is", isNode'>> \in seen'
         /\ subject = "system" =>
              /\ \A l \in SysLink : <<"link", l, l \in sysLinks'>> \in seen'
              /\ \A i \in SysLink \cup Lag : <<"ct", i, i \in withCt'>> \in seen'
              /\ <<"node", "is", isNode'>> \in seen' /\ <<"node", "bare", sysLinks' = {}>> \in seen'
         /\ subject = "settings" => \A s \in Setting : <<"set", s, settings'[s]>> \in seen'
<1>1. /\ UNCHANGED <<subject, apiVersion, nodeCall, regrouped>>
      /\ seen \subseteq seen' /\ NodeFacts' \subseteq seen'
  BY DEF Keeps, stayVars
<1>2. ASSUME subject = "tags"
      PROVE  /\ \A t \in NodeTag : <<"tag", t, t \in nodeTags'>> \in NodeFacts'
             /\ <<"node", "is", isNode'>> \in NodeFacts'
  BY <1>1, <1>2 DEF NodeFacts
<1>3. ASSUME subject = "system"
      PROVE  /\ \A l \in SysLink : <<"link", l, l \in sysLinks'>> \in NodeFacts'
             /\ \A i \in SysLink \cup Lag : <<"ct", i, i \in withCt'>> \in NodeFacts'
             /\ <<"node", "is", isNode'>> \in NodeFacts'
             /\ <<"node", "bare", sysLinks' = {}>> \in NodeFacts'
  BY <1>1, <1>3 DEF NodeFacts
<1>4. ASSUME subject = "settings" PROVE \A s \in Setting : <<"set", s, settings'[s]>> \in NodeFacts'
  BY <1>1, <1>4 DEF NodeFacts
<1> QED BY <1>1, <1>2, <1>3, <1>4


\* A PATCH sets what it sends, whatever becomes of the limits.
LEMMA Patched ==
  ASSUME settings \in [Setting -> Value], NEW given, NEW nulls, Patch(given, nulls)
  PROVE  settings' \in [Setting -> Value] /\ \A s \in given \cap Setting : settings'[s] = "new"
<1>1. PICK unset \in SUBSET nulls :
        settings' = [s \in Setting |-> CASE s \in given         -> "new"
                                        [] s \in unset \ given -> "unset"
                                        [] OTHER              -> settings[s]]
  BY DEF Patch
<1>2. \A s \in Setting : settings'[s] \in Value
  BY <1>1 DEF Value
<1>3. \A s \in given \cap Setting : settings'[s] = "new"
  BY <1>1
<1> QED BY <1>1, <1>2, <1>3

\* A call that returns leaves behind an answer and what it has read.
LEMMA EndsWell ==
  ASSUME NodeIInv, Keeps, nodePc' = "idle", NodeTypeOK', ReadShape',
         nodeResult'.what \in {"error", "count", "refused"} \/ AnswersWereTrue'
  PROVE  NodeIInv'
<1>1. UNCHANGED <<subject, apiVersion, nodeCall>>
  BY SeenNow
<1>2. CallFitsSubject'
  BY <1>1 DEF NodeIInv, CallFitsSubject, Place
<1>3. (TagsWereRead /\ LinksWereGone /\ RefusalWasTrue /\ SettingsWereThere)'
  BY DEF TagsWereRead, LinksWereGone, RefusalWasTrue, SettingsWereThere
<1>4. AnswersWereTrue'
  BY DEF AnswersWereTrue
<1> QED BY <1>2, <1>3, <1>4 DEF NodeIInv

\* A call starts with nothing read.
LEMMA CallStarts ==
  ASSUME NodeIInv, NEW call, NEW pc, Starts(call, pc),
         \/ subject = "tags" /\ call.op = "setTags" /\ call.tags \subseteq NodeTag /\ pc = "query"
         \/ subject = "system" /\ call.op = "deleteSystem" /\ pc = "links"
         \/ /\ subject = "settings" /\ pc \in {"all", "addressing", "vn", "refuse"}
            /\ pc \in Place => apiVersion = "4.2.0"
            /\ \/ call.op = "get" /\ pc # "vn"
               \/ /\ call.op = "set" /\ call.given \subseteq Setting
                  /\ pc = "vn" => "addressing" \notin call.given
         \/ subject = "settings" /\ call.op = "refresh" /\ pc = "refresh"
  PROVE  NodeIInv'
<1>1. /\ nodeCall' = call /\ nodeRead' = NoRead /\ nodePc' = pc /\ regrouped' = FALSE
      /\ UNCHANGED <<graphVars, stayVars, nodeIds>>
  BY DEF Starts
<1>2. NodeTypeOK'
  BY <1>1 DEF NodeIInv, NodeTypeOK, graphVars
<1>3. CallFitsSubject'
  BY <1>1 DEF NodeIInv, CallFitsSubject, stayVars, Place
<1>4. ReadShape'
  BY <1>1 DEF ReadShape, NoRead
<1>5. (TagsWereRead /\ LinksWereGone /\ RefusalWasTrue)'
  BY <1>1 DEF TagsWereRead, LinksWereGone, RefusalWasTrue
<1>6. SettingsWereThere'
  BY <1>1 DEF SettingsWereThere, NoRead, Written, ReadSoFar, SettingsAt, Place
<1>7. AnswersWereTrue'
  BY <1>1 DEF AnswersWereTrue
<1> QED BY <1>2, <1>3, <1>4, <1>5, <1>6, <1>7 DEF NodeIInv

\* SetNodeTags goes on with tags that were the node's.
LEMMA HavingTags ==
  ASSUME NodeIInv, Keeps, subject = "tags", nodePc # "idle", UNCHANGED <<graphVars, nodeIds>>,
         NEW current \in SUBSET NodeTag, HasTags(current),
         \A t \in NodeTag : <<"tag", t, t \in current>> \in seen'
  PROVE  NodeIInv'
<1>1. UNCHANGED <<subject, apiVersion, nodeCall, regrouped>> /\ seen \subseteq seen'
  BY SeenNow
<1>2. NodeTypeOK'
  BY <1>1 DEF NodeIInv, NodeTypeOK, graphVars
<1>3. nodeCall.op \in {"none", "setTags"}
  BY DEF NodeIInv, CallFitsSubject
<1>4. CASE current = nodeCall.tags
  <2>1. Ends(Says("nil")) /\ UNCHANGED nodeRead
    BY <1>4 DEF HasTags, NothingToDo
  <2>2. ReadShape'
    BY <2>1 DEF NodeIInv, ReadShape
  <2>3. AnswersWereTrue'
    BY <1>1, <1>3, <1>4, <2>1 DEF AnswersWereTrue, Ends, Says
  <2> QED BY <1>2, <2>1, <2>2, <2>3, EndsWell DEF Ends
<1>5. CASE current # nodeCall.tags
  <2>1. nodePc' = "post" /\ nodeRead' = [nodeRead EXCEPT !.tags = current]
    BY <1>5 DEF HasTags, NothingToDo, Goes
  <2>2. ReadShape' /\ nodeRead'.tags = current
    BY <2>1 DEF NodeIInv, ReadShape
  <2>3. CallFitsSubject'
    BY <1>1, <2>1 DEF NodeIInv, CallFitsSubject, Place
  <2>4. TagsWereRead'
    BY <2>1, <2>2 DEF TagsWereRead
  <2>5. (LinksWereGone /\ RefusalWasTrue)'
    BY <2>1 DEF LinksWereGone, RefusalWasTrue
  <2>6. SettingsWereThere' /\ AnswersWereTrue'
    BY <1>1, <1>3, <2>1 DEF SettingsWereThere, AnswersWereTrue
  <2> QED BY <1>2, <2>2, <2>3, <2>4, <2>5, <2>6 DEF NodeIInv
<1> QED BY <1>4, <1>5

LEMMA NodeStep == NodeIInv /\ [NodeNext]_nodeVars => NodeIInv'
<1> SUFFICES ASSUME NodeIInv, [NodeNext]_nodeVars PROVE NodeIInv'
  OBVIOUS
<1> USE NoLagAssumption
    DEF NodeIInv, NodeTypeOK, CallFitsSubject, ReadShape, TagsWereRead, LinksWereGone,
        RefusalWasTrue, SettingsWereThere, Written, ReadSoFar, SettingsAt, Place, Value,
        graphVars, stayVars, boundVars, Says, Goes, Ends, NoRead
<1>1. CASE Others
  <2>1. /\ UNCHANGED <<subject, apiVersion, nodePc, nodeCall, nodeRead, nodeResult, nodeIds>>
        /\ seen \subseteq seen'
    BY <1>1 DEF Others, stayVars
  <2>2. /\ nodeTags' \subseteq NodeTag /\ sysLinks' \subseteq SysLink
        /\ isNode' \in BOOLEAN /\ external' \in BOOLEAN /\ regrouped' \in BOOLEAN
    BY <1>1 DEF Others, OtherTags, OtherLinks, OtherSettings, Flip
  <2>3. lagOf' \in [SysLink -> Lag \cup {NoLag}]
    <3>1. \/ UNCHANGED lagOf
          \/ \E l \in sysLinks, g \in Lag \cup {NoLag} : lagOf' = [lagOf EXCEPT ![l] = g]
      BY <1>1 DEF Others, OtherTags, OtherLinks, OtherSettings
    <3> QED BY <3>1
  <2>4. withCt' \subseteq SysLink \cup Lag
    <3>1. \/ withCt' \subseteq withCt
          \/ \E i \in (sysLinks \cup {lagOf[l] : l \in sysLinks}) \ {NoLag} : withCt' = Flip(withCt, i)
      BY <1>1 DEF Others, OtherTags, OtherLinks, OtherSettings
    <3>2. (sysLinks \cup {lagOf[l] : l \in sysLinks}) \ {NoLag} \subseteq SysLink \cup Lag
      OBVIOUS
    <3> QED BY <3>1, <3>2 DEF Flip
  <2>5. settings' \in [Setting -> Value]
    BY <1>1 DEF Others, OtherTags, OtherLinks, OtherSettings
  <2>6. (regrouped => regrouped') /\ (nodePc = "lag" /\ ~regrouped' => UNCHANGED lagOf)
    BY <1>1 DEF Others, OtherTags, OtherLinks, OtherSettings
  <2>7. NodeTypeOK' /\ CallFitsSubject' /\ ReadShape'
    BY <2>1, <2>2, <2>3, <2>4, <2>5
  <2>8. (TagsWereRead /\ LinksWereGone /\ SettingsWereThere)'
    BY <2>1
  <2>9. RefusalWasTrue'
    BY <2>1, <2>6
  <2>10. AnswersWereTrue'
    BY <2>1, <2>6 DEF AnswersWereTrue, Unsent
  <2> QED BY <2>7, <2>8, <2>9, <2>10
<1>2. CASE NodeRequestFails
  <2>1. /\ Keeps /\ nodePc' = "idle" /\ nodeResult' = Says("error")
        /\ UNCHANGED <<graphVars, nodeIds, nodeRead>>
    BY <1>2 DEF NodeRequestFails
  <2>2. NodeTypeOK' /\ ReadShape'
    BY <2>1, SeenNow
  <2> QED BY <2>1, <2>2, EndsWell
<1>3. CASE CallSetNodeTags
  BY <1>3, CallStarts DEF CallSetNodeTags
<1>4. CASE CallDeleteGenericSystem
  BY <1>4, CallStarts DEF CallDeleteGenericSystem
<1>5. CASE CallSettings
  <2> DEFINE Start(first) == CASE apiVersion = "later"   -> "all"
                               [] apiVersion = "4.2.0"   -> first
                               [] apiVersion = "earlier" -> "refuse"
  <2>1. ASSUME NEW first \in {"addressing", "vn"}
        PROVE  (Start(first) = first /\ apiVersion = "4.2.0") \/ Start(first) \in {"all", "refuse"}
    <3>1. apiVersion \in {"later", "4.2.0", "earlier"}
      OBVIOUS
    <3> QED BY <3>1
  <2>2. subject = "settings"
        /\ \/ \E given \in SUBSET Setting :
                Starts([op |-> "set", given |-> given],
                       Start(FirstPlace(given)))
           \/ Starts([op |-> "set", given |-> {}], "refuse")
           \/ Starts([op |-> "get"], Start("addressing"))
    BY <1>5 DEF CallSettings
  <2> HIDE DEF Start
  <2>3. CASE Starts([op |-> "get"], Start("addressing"))
    BY <2>1, <2>2, <2>3, CallStarts
  <2>4. CASE Starts([op |-> "set", given |-> {}], "refuse")
    BY <2>2, <2>4, CallStarts
  <2>5. ASSUME NEW given \in SUBSET Setting,
               Starts([op |-> "set", given |-> given],
                      Start(FirstPlace(given)))
        PROVE  NodeIInv'
    <3>1. /\ FirstPlace(given) \in {"addressing", "vn"}
          /\ FirstPlace(given) = "vn" => "addressing" \notin given
      BY DEF FirstPlace
    <3> QED BY <2>1, <2>2, <2>5, <3>1, CallStarts
  <2> QED BY <2>2, <2>3, <2>4, <2>5
<1>6. CASE CallRefresh
  BY <1>6, CallStarts DEF CallRefresh
<1>7. CASE QueryTags
  <2>1. Keeps /\ subject = "tags" /\ nodePc = "query" /\ UNCHANGED <<graphVars, nodeIds>>
    BY <1>7 DEF QueryTags
  <2>2. \A t \in NodeTag : <<"tag", t, t \in nodeTags>> \in seen'
    BY <2>1, SeenNow
  <2>3. CASE HasTags(nodeTags)
    BY <2>1, <2>2, <2>3, HavingTags
  <2>4. CASE nodeTags = {} /\ Goes("getNode") /\ UNCHANGED nodeRead
    <3>1. \A t \in NodeTag : (t \in nodeTags) = FALSE
      BY <2>4
    <3>2. \A t \in NodeTag : <<"tag", t, FALSE>> \in seen'
      BY <2>2, <3>1
    <3>3. NodeTypeOK' /\ ReadShape' /\ CallFitsSubject'
      BY <2>1, <2>4, SeenNow
    <3>4. (TagsWereRead /\ LinksWereGone /\ RefusalWasTrue /\ SettingsWereThere)'
      BY <2>1, <2>4, <3>2, SeenNow
    <3>5. AnswersWereTrue'
      BY <2>4 DEF AnswersWereTrue
    <3> QED BY <3>3, <3>4, <3>5
  <2> QED BY <1>7, <2>3, <2>4 DEF QueryTags
<1>8. CASE GetNode
  <2>1. Keeps /\ subject = "tags" /\ nodePc = "getNode" /\ UNCHANGED <<graphVars, nodeIds>>
    BY <1>8 DEF GetNode
  <2>2. \A t \in NodeTag : <<"tag", t, FALSE>> \in seen'
    BY <2>1, SeenNow
  <2>3. \A t \in NodeTag : <<"tag", t, t \in {}>> \in seen'
    <3>1. \A t : (t \in {}) = FALSE
      OBVIOUS
    <3> QED BY <2>2, <3>1
  <2>4. CASE isNode
    BY <1>8, <2>1, <2>3, <2>4, HavingTags DEF GetNode
  <2>5. CASE ~isNode
    <3>1. isNode' = FALSE
      BY <2>1, <2>5
    <3>2. <<"node", "is", FALSE>> \in seen'
      BY <2>1, <3>1, SeenNow
    <3>3. nodePc' = "idle" /\ nodeResult' = Says("notFound") /\ UNCHANGED nodeRead
      BY <1>8, <2>5 DEF GetNode
    <3>4. NodeTypeOK' /\ ReadShape'
      BY <2>1, <3>3, SeenNow
    <3>5. AnswersWereTrue'
      BY <3>2, <3>3 DEF AnswersWereTrue
    <3> QED BY <2>1, <3>3, <3>4, <3>5, EndsWell
  <2> QED BY <2>4, <2>5
<1>9. CASE PostTags
  <2>1. Keeps /\ subject = "tags" /\ nodePc = "post" /\ nodePc' = "idle"
        /\ UNCHANGED <<isNode, sysLinks, external, lagOf, withCt, settings, nodeIds, nodeRead>>
        /\ nodeCall.op \in {"none", "setTags"}
    BY <1>9 DEF PostTags
  <2>2. NodeTypeOK' /\ ReadShape'
    <3>1. nodeTags' \subseteq NodeTag
      BY <1>9, SeenNow DEF PostTags
    <3> QED BY <2>1, <3>1, SeenNow
  <2>3. CASE isNode
    <3>1. /\ nodeTags' = (nodeTags \ (nodeRead.tags \ nodeCall.tags)) \cup (nodeCall.tags \ nodeRead.tags)
          /\ nodeResult' = Says("nil")
      BY <1>9, <2>3 DEF PostTags
    <3>2. ASSUME NEW t \in NodeTag PROVE <<"tag", t, t \in nodeCall.tags>> \in seen'
      <4>1. <<"tag", t, t \in nodeRead.tags>> \in seen'
        BY <2>1, SeenNow
      <4>2. <<"tag", t, t \in nodeTags'>> \in seen'
        BY <2>1, SeenNow
      <4>3. (t \in nodeCall.tags) = (t \in nodeTags') \/ (t \in nodeCall.tags) = (t \in nodeRead.tags)
        BY <3>1
      <4> QED BY <4>1, <4>2, <4>3
    <3>3. AnswersWereTrue'
      BY <2>1, <3>1, <3>2, SeenNow DEF AnswersWereTrue
    <3> QED BY <2>1, <2>2, <3>3, EndsWell
  <2>4. CASE ~isNode
    <3>1. isNode' = FALSE /\ nodeResult' = Says("notFound")
      BY <1>9, <2>1, <2>4 DEF PostTags
    <3>2. <<"node", "is", FALSE>> \in seen'
      BY <2>1, <3>1, SeenNow
    <3>3. AnswersWereTrue'
      BY <3>1, <3>2 DEF AnswersWereTrue
    <3> QED BY <2>1, <2>2, <3>3, EndsWell
  <2> QED BY <2>3, <2>4
<1>10. CASE QueryLinks
  <2>1. Keeps /\ subject = "system" /\ nodePc = "links" /\ UNCHANGED <<graphVars, nodeIds>>
    BY <1>10 DEF QueryLinks
  <2>2. NodeTypeOK'
    BY <2>1, SeenNow
  <2>3. CASE isNode /\ sysLinks # {}
    <3>1. /\ nodePc' = "delete" /\ UNCHANGED nodeResult
          /\ nodeRead' = [nodeRead EXCEPT !.links = sysLinks, !.external = external]
      BY <1>10, <2>3 DEF QueryLinks
    <3>2. ReadShape'
      BY <3>1
    <3>3. CallFitsSubject'
      BY <2>1, <3>1, SeenNow
    <3>4. (TagsWereRead /\ LinksWereGone /\ RefusalWasTrue)'
      BY <3>1
    <3>5. SettingsWereThere' /\ AnswersWereTrue'
      BY <2>1, <3>1, SeenNow DEF AnswersWereTrue
    <3> QED BY <2>2, <3>2, <3>3, <3>4, <3>5
  <2>4. CASE ~(isNode /\ sysLinks # {})
    <3>1. nodePc' = "idle" /\ nodeResult' = Says("notFound") /\ UNCHANGED nodeRead
      BY <1>10, <2>4 DEF QueryLinks
    <3>2. isNode' = FALSE \/ (sysLinks' = {}) = TRUE
      BY <2>1, <2>4
    <3>3. <<"node", "is", FALSE>> \in seen' \/ <<"node", "bare", TRUE>> \in seen'
      BY <2>1, <3>2, SeenNow
    <3>4. AnswersWereTrue'
      BY <3>1, <3>3 DEF AnswersWereTrue
    <3>5. ReadShape'
      BY <3>1
    <3> QED BY <2>1, <2>2, <3>1, <3>4, <3>5, EndsWell
  <2> QED BY <2>3, <2>4
<1>11. CASE DeleteLinks
  <2> DEFINE linkErrs == nodeRead.links \cap withCt
             lagErrs  == {Members(g) : g \in Lag \cap withCt} \cap ((SUBSET nodeRead.links) \ {{}})
             Same     == UNCHANGED <<sysLinks, isNode, nodeRead>>
  <2>1. Keeps /\ subject = "system" /\ nodePc = "delete"
        /\ UNCHANGED <<nodeTags, external, lagOf, withCt, settings, nodeIds>>
        /\ nodeCall.op \in {"none", "deleteSystem"}
    BY <1>11 DEF DeleteLinks
  <2>2. \/ Ends(Says("error")) /\ Same
        \/ /\ UNCHANGED <<sysLinks, isNode>>
           /\ nodeRead' = [nodeRead EXCEPT !.detail = linkErrs, !.lagErrs = lagErrs]
           /\ IF lagErrs = {} THEN Ends([what |-> "ctAssigned", links |-> linkErrs]) ELSE Goes("lag")
        \/ /\ sysLinks' = sysLinks \ nodeRead.links
           /\ isNode' = (external \/ sysLinks' # {})
           /\ IF nodeRead.external THEN Goes("external") ELSE Ends(Says("nil"))
           /\ UNCHANGED nodeRead
    <3> HIDE DEF NodeIInv, Goes, Ends, Says
    <3> QED BY <1>11 DEF DeleteLinks
  <2>3. CASE Ends(Says("error")) /\ Same
    <3>1. NodeTypeOK' /\ ReadShape'
      BY <2>1, <2>3, SeenNow
    <3> QED BY <2>1, <2>3, <3>1, EndsWell
  <2>4. CASE /\ UNCHANGED <<sysLinks, isNode>>
             /\ nodeRead' = [nodeRead EXCEPT !.detail = linkErrs, !.lagErrs = lagErrs]
             /\ IF lagErrs = {} THEN Ends([what |-> "ctAssigned", links |-> linkErrs]) ELSE Goes("lag")
    <3>1. NodeTypeOK'
      BY <2>1, <2>4, SeenNow
    <3>2. ReadShape' /\ nodeRead'.detail = linkErrs /\ nodeRead'.lagErrs = lagErrs
          /\ nodeRead'.links = nodeRead.links
      <4> HIDE DEF linkErrs, lagErrs
      <4> QED BY <2>4
    <3>3. \A i \in SysLink \cup Lag : i \in withCt => <<"ct", i, TRUE>> \in seen'
      <4> SUFFICES ASSUME NEW i \in SysLink \cup Lag, i \in withCt PROVE <<"ct", i, TRUE>> \in seen'
        OBVIOUS
      <4>1. (i \in withCt') = TRUE
        BY <2>1
      <4> QED BY <2>1, <4>1, SeenNow
    <3>4. \A i \in linkErrs : <<"ct", i, TRUE>> \in seen'
      BY <3>3
    <3>5. ASSUME NEW members \in lagErrs
          PROVE  members # {} /\ \A l \in members : l \in SysLink /\ <<"ct", lagOf'[l], TRUE>> \in seen'
      <4>1. PICK g \in Lag \cap withCt : members = Members(g)
        OBVIOUS
      <4>2. \A l \in members : l \in SysLink /\ lagOf[l] = g
        BY <4>1 DEF Members
      <4>3. <<"ct", g, TRUE>> \in seen' /\ UNCHANGED lagOf
        BY <2>1, <3>3, <4>1
      <4>4. members # {}
        OBVIOUS
      <4> HIDE DEF lagErrs
      <4> QED BY <4>2, <4>3, <4>4
    <3>6. CASE lagErrs = {}
      <4>1. nodePc' = "idle" /\ nodeResult' = [what |-> "ctAssigned", links |-> linkErrs]
        BY <2>4, <3>6
      <4>2. AnswersWereTrue'
        BY <2>1, <3>4, <4>1 DEF AnswersWereTrue
      <4> QED BY <2>1, <3>1, <3>2, <4>1, <4>2, EndsWell
    <3>7. CASE lagErrs # {}
      <4>1. nodePc' = "lag" /\ UNCHANGED nodeResult
        BY <2>4, <3>7
      <4>2. CallFitsSubject'
        BY <2>1, <4>1, SeenNow
      <4>3. (TagsWereRead /\ LinksWereGone)'
        BY <4>1
      <4>4. RefusalWasTrue'
        <5> HIDE DEF linkErrs, lagErrs
        <5> QED BY <3>2, <3>4, <3>5
      <4>5. SettingsWereThere' /\ AnswersWereTrue'
        BY <2>1, <4>1, SeenNow DEF AnswersWereTrue
      <4> QED BY <3>1, <3>2, <4>2, <4>3, <4>4, <4>5
    <3> QED BY <3>6, <3>7
  <2>5. CASE /\ sysLinks' = sysLinks \ nodeRead.links
             /\ isNode' = (external \/ sysLinks' # {})
             /\ IF nodeRead.external THEN Goes("external") ELSE Ends(Says("nil"))
             /\ UNCHANGED nodeRead
    <3>1. NodeTypeOK' /\ ReadShape'
      BY <2>1, <2>5, SeenNow
    <3>2. ASSUME NEW l \in nodeRead.links PROVE <<"link", l, FALSE>> \in seen'
      <4>1. (l \in sysLinks') = FALSE /\ l \in SysLink
        BY <2>5
      <4> QED BY <2>1, <4>1, SeenNow
    <3>3. CASE nodeRead.external
      <4>1. nodePc' = "external" /\ UNCHANGED nodeResult
        BY <2>5, <3>3
      <4>2. CallFitsSubject'
        BY <2>1, <4>1, SeenNow
      <4>3. (TagsWereRead /\ LinksWereGone /\ RefusalWasTrue)'
        BY <2>5, <3>2, <4>1
      <4>4. SettingsWereThere' /\ AnswersWereTrue'
        BY <2>1, <4>1, SeenNow DEF AnswersWereTrue
      <4> QED BY <3>1, <4>2, <4>3, <4>4
    <3>4. CASE ~nodeRead.external
      <4>1. nodePc' = "idle" /\ nodeResult' = Says("nil")
        BY <2>5, <3>4
      <4>2. AnswersWereTrue'
        BY <2>1, <2>5, <3>2, <3>4, <4>1, SeenNow DEF AnswersWereTrue
      <4> QED BY <2>1, <3>1, <4>1, <4>2, EndsWell
    <3> QED BY <3>3, <3>4
  <2> QED BY <2>2, <2>3, <2>4, <2>5
<1>12. CASE FindLag
  <2>1. Keeps /\ subject = "system" /\ nodePc = "lag" /\ UNCHANGED <<graphVars, nodeIds>>
        /\ nodeCall.op \in {"none", "deleteSystem"}
    BY <1>12 DEF FindLag
  <2>2. PICK members \in nodeRead.lagErrs :
          LET ids  == {g \in Lag : members \subseteq Members(g)}
              left == nodeRead.lagErrs \ {members}
              all  == nodeRead.detail \cup ids
          IN  /\ nodeRead' = [nodeRead EXCEPT !.detail = all, !.lagErrs = left]
              /\ \/ Ends(Says("error"))
                 \/ Ends([what |-> "ctAssigned", links |-> all])
                 \/ Goes("lag")
    <3> HIDE DEF NodeIInv, Goes, Ends, Says
    <3> QED BY <1>12 DEF FindLag
  <2> DEFINE ids  == {g \in Lag : members \subseteq Members(g)}
             left == nodeRead.lagErrs \ {members}
             all  == nodeRead.detail \cup ids
  <2>3. /\ ReadShape' /\ nodeRead'.detail = all /\ nodeRead'.lagErrs = left
    <3>1. nodeRead' = [nodeRead EXCEPT !.detail = all, !.lagErrs = left]
      BY <2>2
    <3> HIDE DEF all, left
    <3> QED BY <3>1
  <2>4. NodeTypeOK'
    BY <2>1, SeenNow
  <2>5. ASSUME ~regrouped PROVE \A i \in all : <<"ct", i, TRUE>> \in seen'
    <3>1. ASSUME NEW g \in ids PROVE <<"ct", g, TRUE>> \in seen'
      <4>0. members # {} /\ \A l \in members : l \in SysLink /\ <<"ct", lagOf[l], TRUE>> \in seen
        <5> HIDE DEF ids
        <5> QED BY <2>1, <2>5
      <4>1. PICK l \in members : l \in SysLink /\ <<"ct", lagOf[l], TRUE>> \in seen
        BY <4>0
      <4>2. lagOf[l] = g
        BY <4>1 DEF Members
      <4> QED BY <2>1, <4>1, <4>2, SeenNow
    <3> QED BY <2>1, <2>5, <3>1, SeenNow
  <2>6. CASE Ends(Says("error"))
    BY <2>1, <2>3, <2>4, <2>6, EndsWell
  <2>7. CASE Ends([what |-> "ctAssigned", links |-> all])
    <3>1. nodePc' = "idle" /\ nodeResult' = [what |-> "ctAssigned", links |-> all]
      BY <2>7
    <3>2. ~regrouped' => ~regrouped
      BY <2>1, SeenNow
    <3>3. AnswersWereTrue'
      <4> HIDE DEF all
      <4> QED BY <2>5, <3>1, <3>2 DEF AnswersWereTrue
    <3> QED BY <2>1, <2>3, <2>4, <3>1, <3>3, EndsWell
  <2>8. CASE Goes("lag")
    <3>1. nodePc' = "lag" /\ UNCHANGED nodeResult
      BY <2>8
    <3>2. CallFitsSubject'
      BY <2>1, <3>1, SeenNow
    <3>3. (TagsWereRead /\ LinksWereGone)'
      BY <3>1
    <3>4. RefusalWasTrue'
      <4>1. ~regrouped' => ~regrouped
        BY <2>1, SeenNow
      <4>2. UNCHANGED lagOf /\ seen \subseteq seen'
        BY <2>1, SeenNow
      <4>3. left \subseteq nodeRead.lagErrs
        OBVIOUS
      <4> HIDE DEF all, left
      <4> QED BY <2>1, <2>3, <2>5, <4>1, <4>2, <4>3
    <3>5. SettingsWereThere' /\ AnswersWereTrue'
      BY <2>1, <3>1, SeenNow DEF AnswersWereTrue
    <3> QED BY <2>3, <2>4, <3>2, <3>3, <3>4, <3>5
  <2> QED BY <2>2, <2>6, <2>7, <2>8
<1>13. CASE DeleteExternal
  <2>1. /\ Keeps /\ subject = "system" /\ nodePc = "external" /\ nodePc' = "idle"
        /\ UNCHANGED <<nodeTags, sysLinks, external, lagOf, withCt, settings, nodeIds, nodeRead>>
        /\ nodeCall.op \in {"none", "deleteSystem"}
    BY <1>13 DEF DeleteExternal
  <2>2. isNode' = (isNode /\ sysLinks # {})
    BY <1>13 DEF DeleteExternal
  <2>3. NodeTypeOK' /\ ReadShape'
    BY <2>1, <2>2, SeenNow
  <2>4. CASE ~isNode \/ sysLinks = {}
    <3>1. isNode' = FALSE
      BY <2>2, <2>4
    <3>2. <<"node", "is", FALSE>> \in seen'
      BY <2>1, <3>1, SeenNow
    <3>3. \A l \in nodeRead'.links : <<"link", l, FALSE>> \in seen'
      BY <2>1, SeenNow
    <3>4. nodeResult' \in {Says("notFound"), Says("nil")}
      BY <1>13, <2>4 DEF DeleteExternal
    <3>5. nodeCall'.op = "deleteSystem"
      BY <2>1, SeenNow
    <3>6. nodeResult'.what \in {"notFound", "nil"}
      BY <3>4
    <3>7. AnswersWereTrue'
      <4> HIDE DEF NodeIInv
      <4> QED BY <3>2, <3>3, <3>5, <3>6 DEF AnswersWereTrue
    <3> QED BY <2>1, <2>3, <3>7, EndsWell
  <2>5. CASE isNode /\ sysLinks # {}
    <3>1. nodeResult' = Says("error")
      BY <1>13, <2>5 DEF DeleteExternal
    <3> QED BY <2>1, <2>3, <3>1, EndsWell
  <2> QED BY <2>4, <2>5
<1>14. ASSUME NEW p \in {"vn", "sz"}, NodeIdsByType(p) PROVE NodeIInv'
  <2>1. /\ Keeps /\ subject = "settings" /\ nodePc = "ids" /\ nodeCall.op \in {"get", "set"}
        /\ UNCHANGED <<graphVars, nodeRead>>
    BY <1>14 DEF NodeIdsByType
  <2>2. nodeIds' \in [{"vn", "sz"} -> {"absent", "none", "one"}]
    BY <1>14 DEF NodeIdsByType
  <2>3. NodeTypeOK' /\ ReadShape'
    BY <2>1, <2>2, SeenNow
  <2>4. CASE Ends(Says("count"))
    BY <2>1, <2>3, <2>4, EndsWell
  <2>5. CASE Goes(p)
    <3>1. nodePc' = p /\ UNCHANGED nodeResult
      BY <2>5
    <3>2. CallFitsSubject'
      BY <2>1, <3>1, SeenNow
    <3>3. (TagsWereRead /\ LinksWereGone /\ RefusalWasTrue)'
      BY <3>1
    <3>4. nodeCall.op = "set" => p = "sz"
      BY <1>14 DEF NodeIdsByType
    <3>5. nodeCall.op = "get" /\ p = "sz" => "vn" \in DOMAIN nodeRead.parts
      BY <1>14 DEF NodeIdsByType
    <3>6. SettingsWereThere'
      BY <2>1, <3>1, <3>4, <3>5, SeenNow
    <3> QED BY <2>3, <3>1, <3>2, <3>3, <3>6 DEF AnswersWereTrue
  <2> QED BY <1>14, <2>4, <2>5 DEF NodeIdsByType
<1>15. CASE RefreshNodeIds
  <2>1. /\ Keeps /\ subject = "settings" /\ nodePc = "refresh" /\ nodePc' = "idle"
        /\ nodeResult' = Says("nil") /\ nodeCall.op \notin {"setTags", "deleteSystem"}
        /\ UNCHANGED <<graphVars, nodeRead>>
    BY <1>15 DEF RefreshNodeIds
  <2>2. nodeIds' \in [{"vn", "sz"} -> {"absent", "none", "one"}]
    BY <1>15 DEF RefreshNodeIds
  <2>3. NodeTypeOK' /\ ReadShape'
    BY <2>1, <2>2, SeenNow
  <2>4. nodeCall.op = "refresh"
    BY <2>1
  <2>5. AnswersWereTrue'
    BY <2>1, <2>4, SeenNow DEF AnswersWereTrue
  <2> QED BY <2>1, <2>3, <2>5, EndsWell
<1>16. ASSUME NEW p \in Place, PatchPlace(p) PROVE NodeIInv'
  <2>1. /\ Keeps /\ nodePc = p /\ nodeCall.op = "set" /\ subject = "settings" /\ apiVersion = "4.2.0"
        /\ UNCHANGED <<nodeTags, isNode, sysLinks, external, lagOf, withCt, nodeIds, nodeRead>>
    BY <1>16 DEF PatchPlace
  <2>2. /\ settings' \in [Setting -> Value]
        /\ \A s \in (nodeCall.given \cap SettingsAt(p)) \ {"overlay"} : settings'[s] = "new"
    BY <1>16, <2>1, Patched DEF PatchPlace
  <2>3. NodeTypeOK' /\ ReadShape'
    BY <2>1, <2>2, SeenNow
  <2>4. \A s \in (nodeCall.given \cap SettingsAt(p)) \ {"overlay"} : <<"set", s, "new">> \in seen'
    BY <2>1, <2>2, SeenNow
  <2>5. After(p) \in {"vn", "ids", "affinity", "idle"}
    BY <2>1 DEF After
  <2>6. /\ p = "addressing" => After(p) = "vn"
        /\ p = "vn" => \/ After(p) = "ids"
                       \/ After(p) \in {"affinity", "idle"} /\ "sz" \notin nodeCall.given
        /\ p = "sz" => After(p) \in {"affinity", "idle"}
        /\ p = "affinity" => After(p) = "idle"
        /\ After(p) = "idle" /\ p # "affinity" => "affinity" \notin nodeCall.given
    BY <2>1 DEF After
  <2>7. CASE After(p) = "idle"
    <3>1. nodePc' = "idle" /\ nodeResult' = Says("nil")
      BY <1>16, <2>7 DEF PatchPlace, Proceeds
    <3>2. \A s \in nodeCall.given \ {"overlay"} : <<"set", s, "new">> \in seen'
      <4>1. p \in {"vn", "sz", "affinity"}
        BY <2>6, <2>7
      <4>2. \A s \in nodeCall.given : Written(s) => <<"set", s, "new">> \in seen'
        BY <2>1, SeenNow
      <4>3. \A s \in nodeCall.given \ {"overlay"} : Written(s) \/ s \in SettingsAt(p)
        BY <2>1, <2>6, <2>7, <4>1 DEF Setting
      <4> QED BY <2>4, <4>2, <4>3
    <3>3. AnswersWereTrue'
      BY <2>1, <3>1, <3>2, SeenNow DEF AnswersWereTrue, Unsent
    <3> QED BY <2>1, <2>3, <3>1, <3>3, EndsWell
  <2>8. CASE After(p) # "idle"
    <3>1. nodePc' = After(p) /\ UNCHANGED nodeResult
      BY <1>16, <2>8 DEF PatchPlace, Proceeds
    <3>2. CallFitsSubject'
      BY <2>1, <2>5, <2>8, <3>1, SeenNow
    <3>3. (TagsWereRead /\ LinksWereGone /\ RefusalWasTrue)'
      BY <2>5, <2>8, <3>1
    <3>4. SettingsWereThere'
      <4>1. nodeCall' = nodeCall /\ seen \subseteq seen'
        BY <2>1, SeenNow
      <4>2. \A s \in nodeCall.given : Written(s)' => Written(s) \/ s \in SettingsAt(p) \ {"overlay"}
        BY <2>1, <2>6, <2>8, <3>1
      <4>3. \A s \in nodeCall.given : Written(s)' => <<"set", s, "new">> \in seen'
        BY <2>1, <2>4, <4>1, <4>2
      <4> QED BY <2>1, <4>1, <4>3
    <3> QED BY <2>3, <2>5, <2>8, <3>1, <3>2, <3>3, <3>4 DEF AnswersWereTrue
  <2> QED BY <2>7, <2>8
<1>17. ASSUME NEW p \in Place, GetPlace(p) PROVE NodeIInv'
  <2> DEFINE parts == [s \in DOMAIN nodeRead.parts \cup SettingsAt(p) |->
                         IF s \in SettingsAt(p) THEN settings[s] ELSE nodeRead.parts[s]]
  <2>1. /\ Keeps /\ nodePc = p /\ nodeCall.op = "get" /\ subject = "settings" /\ apiVersion = "4.2.0"
        /\ UNCHANGED <<graphVars, nodeIds>>
        /\ nodeRead' = [nodeRead EXCEPT !.parts = parts]
    BY <1>17 DEF GetPlace
  <2>2. ReadShape' /\ nodeRead'.parts = parts
    <3> HIDE DEF parts
    <3> QED BY <2>1
  <2>3. NodeTypeOK'
    BY <2>1, SeenNow
  <2>4. \A s \in DOMAIN parts : <<"set", s, parts[s]>> \in seen'
    <3>1. \A s \in SettingsAt(p) : <<"set", s, settings[s]>> \in seen'
      BY <2>1, SeenNow DEF Setting
    <3>2. \A s \in DOMAIN nodeRead.parts : <<"set", s, nodeRead.parts[s]>> \in seen'
      BY <2>1, SeenNow
    <3> QED BY <3>1, <3>2
  <2>5. DOMAIN parts = DOMAIN nodeRead.parts \cup SettingsAt(p)
    OBVIOUS
  <2> HIDE DEF parts
  <2>6. \A s \in Setting : ReadSoFar(s) \/ s \in SettingsAt(p) => s \in DOMAIN nodeRead'.parts
    BY <2>1, <2>2, <2>5
  <2>7. CASE p = "affinity"
    <3>1. nodePc' = "idle" /\ nodeResult' = Says("nil")
      BY <1>17, <2>7 DEF GetPlace, Proceeds, After
    <3>2. \A s \in Setting : ReadSoFar(s) \/ s \in SettingsAt(p)
      BY <2>1, <2>7 DEF Setting
    <3>3. \A s \in Setting : <<"set", s, nodeRead'.parts[s]>> \in seen'
      BY <2>2, <2>4, <2>6, <3>2
    <3>4. AnswersWereTrue'
      BY <2>1, <3>1, <3>3, SeenNow DEF AnswersWereTrue
    <3> QED BY <2>1, <2>2, <2>3, <3>1, <3>4, EndsWell
  <2>8. CASE p # "affinity"
    <3>1. /\ nodePc' = After(p) /\ UNCHANGED nodeResult
          /\ \/ p \in {"addressing", "vn"} /\ After(p) = "ids"
             \/ p = "sz" /\ After(p) = "affinity"
      <4>1. \/ p \in {"addressing", "vn"} /\ After(p) = "ids"
            \/ p = "sz" /\ After(p) = "affinity"
        BY <2>1, <2>8 DEF After
      <4> QED BY <1>17, <4>1 DEF GetPlace, Proceeds
    <3>2. CallFitsSubject'
      BY <2>1, <3>1, SeenNow
    <3>3. (TagsWereRead /\ LinksWereGone /\ RefusalWasTrue)'
      BY <3>1
    <3>4. SettingsWereThere'
      <4>1. \A s \in Setting : ReadSoFar(s)' => ReadSoFar(s) \/ s \in SettingsAt(p)
        BY <2>1, <3>1
      <4>2. "vn" \in DOMAIN nodeRead'.parts => SettingsAt("vn") \subseteq DOMAIN nodeRead'.parts
        BY <2>1, <2>2, <2>5
      <4>3. \A s \in Setting : ReadSoFar(s)' => s \in DOMAIN nodeRead'.parts
        BY <2>6, <4>1
      <4>4. nodeCall'.op = "get" /\ \A s \in DOMAIN nodeRead'.parts : <<"set", s, nodeRead'.parts[s]>> \in seen'
        BY <2>1, <2>2, <2>4, SeenNow
      <4> QED BY <4>2, <4>3, <4>4
    <3> QED BY <2>2, <2>3, <3>1, <3>2, <3>3, <3>4 DEF AnswersWereTrue
  <2> QED BY <2>7, <2>8
<1>18. CASE AllPlaces
  <2>1. /\ Keeps /\ nodePc = "all" /\ nodePc' = "idle" /\ subject = "settings"
        /\ nodeResult' = Says("nil") /\ nodeCall.op \in {"set", "get"}
        /\ UNCHANGED <<nodeTags, isNode, sysLinks, external, lagOf, withCt, nodeIds>>
    BY <1>18 DEF AllPlaces
  <2>2. CASE nodeCall.op = "set"
    <3>1. Patch(nodeCall.given, {"limits"} \ nodeCall.given) /\ UNCHANGED nodeRead
      BY <1>18, <2>2 DEF AllPlaces
    <3>2. settings' \in [Setting -> Value] /\ \A s \in nodeCall.given \cap Setting : settings'[s] = "new"
      BY <3>1, Patched
    <3>3. NodeTypeOK' /\ ReadShape'
      BY <2>1, <3>1, <3>2, SeenNow
    <3>4. \A s \in nodeCall.given : <<"set", s, "new">> \in seen'
      BY <2>1, <2>2, <3>2, SeenNow
    <3>5. AnswersWereTrue'
      BY <2>1, <2>2, <3>4, SeenNow DEF AnswersWereTrue, Unsent
    <3> QED BY <2>1, <3>3, <3>5, EndsWell
  <2>3. CASE nodeCall.op = "get"
    <3>1. nodeRead' = [nodeRead EXCEPT !.parts = settings] /\ UNCHANGED settings
      BY <1>18, <2>3 DEF AllPlaces
    <3>2. ReadShape' /\ nodeRead'.parts = settings
      BY <3>1
    <3>3. NodeTypeOK'
      BY <2>1, <3>1, SeenNow
    <3>4. \A s \in Setting : <<"set", s, nodeRead'.parts[s]>> \in seen'
      BY <2>1, <3>1, <3>2, SeenNow
    <3>5. AnswersWereTrue'
      BY <2>1, <2>3, <3>4, SeenNow DEF AnswersWereTrue
    <3> QED BY <2>1, <3>2, <3>3, <3>5, EndsWell
  <2> QED BY <2>1, <2>2, <2>3
<1>19. CASE UNCHANGED nodeVars
  <2>1. NodeTypeOK' /\ ReadShape' /\ CallFitsSubject'
    BY <1>19 DEF nodeVars
  <2>2. (TagsWereRead /\ LinksWereGone /\ RefusalWasTrue /\ SettingsWereThere)'
    BY <1>19 DEF nodeVars
  <2>3. AnswersWereTrue'
    BY <1>19 DEF nodeVars, AnswersWereTrue, Unsent
  <2> QED BY <2>1, <2>2, <2>3
<1> QED BY <1>1, <1>2, <1>3, <1>4, <1>5, <1>6, <1>7, <1>8, <1>9, <1>10, <1>11, <1>12, <1>13,
   <1>14, <1>15, <1>16, <1>17, <1>18, <1>19 DEF NodeNext

\* What is always true of a client that changes a blueprint's nodes.
THEOREM NodeInvariant == NodeSpec => []NodeIInv
BY NodeInitially, NodeStep, PTL DEF NodeSpec

\* Every variable of the blueprint and of the client has its type.
THEOREM NodeTypeCorrect == NodeSpec => []NodeTypeOK
BY NodeInvariant, PTL DEF NodeIInv

\* What a call of several requests reports was so at some moment while it ran.
THEOREM AnswersWereTrueHolds == NodeSpec => []AnswersWereTrue
BY NodeInvariant, PTL DEF NodeIInv
=============================================================================
