------------------------------ MODULE Session ------------------------------
(***************************************************************************)
(* The login session of apstra.Client: api_user.go (login, logout, start   *)
(* and stop of the task monitor) and the part of talkToApstra that reads   *)
(* the auth token, logs in after an HTTP 401 and repeats the request once. *)
(*                                                                         *)
(* The workers are the application's goroutines and the check goroutine of *)
(* every task monitor that was started: it polls through talkToApstra too, *)
(* and may log in by itself.  A monitor is seen from outside here: it      *)
(* takes tasks, owes answers, and leaves when its quit channel is closed   *)
(* and it owes nothing (module TaskMonitor).                               *)
(***************************************************************************)
EXTENDS Naturals, FiniteSets

CONSTANTS
  App,          (* the goroutines of the application                       *)
  MaxOps,       (* bound: operations the application starts                *)
  MaxMonitor,   (* bound: monitors started                                 *)
  LogoutAlone   (* does the application log out only when nothing is under *)
                (* way, and start nothing before Logout has returned?      *)

ASSUME MaxOpsAssumption      == MaxOps \in Nat \ {0}
ASSUME MaxMonitorAssumption  == MaxMonitor \in Nat \ {0}
ASSUME AppAssumption         == App \cap Nat = {}
ASSUME LogoutAloneAssumption == LogoutAlone \in BOOLEAN

Monitor == 1..MaxMonitor
Worker  == App \cup Monitor
None    == 0                 \* no token; the nil channel; no monitor

VARIABLES
  token,     (* httpHeaders[AUTHTOKEN], None when absent                   *)
  issued,    (* server: tokens issued are 1..issued                        *)
  valid,     (* server: tokens it accepts                                  *)
  expired,   (* server: has a token expired?  Bound: one does              *)
  tmQuit,    (* Client.tmQuit: a channel, None for nil                     *)
  made,      (* quit channels made are 1..made                             *)
  closed,    (* quit channels closed                                       *)
  monQuit,   (* the quit channel each monitor captured in start            *)
  mon,       (* "unborn", "running" or "exited"                            *)
  pc,        (* where each worker is                                       *)
  op,        (* the operation it is in                                     *)
  sent,      (* the token its request carries                              *)
  noLogin,   (* talkToApstraIn.doNotLogin                                  *)
  owner,     (* the monitor that took an application goroutine's task      *)
  authErr,   (* has an operation ended with HTTP 401?                      *)
  ops,       (* operations the application has started                     *)
  panicked   (* close of a nil or closed channel                           *)

serverVars == <<issued, valid, expired>>
chanVars   == <<tmQuit, made, closed>>
monVars    == <<monQuit, mon>>
localVars  == <<pc, op, sent, noLogin>>
vars == <<token, serverVars, chanVars, monVars, localVars, owner, authErr, ops, panicked>>

Init ==
  /\ token = None /\ issued = 0 /\ valid = {} /\ expired = FALSE
  /\ tmQuit = None /\ made = 0 /\ closed = {}
  /\ monQuit = [m \in Monitor |-> None]
  /\ mon = [m \in Monitor |-> "unborn"]
  /\ pc = [w \in Worker |-> "idle"]
  /\ op = [w \in Worker |-> "none"]
  /\ sent = [w \in Worker |-> None]
  /\ noLogin = [w \in Worker |-> FALSE]
  /\ owner = [w \in App |-> None]
  /\ authErr = FALSE /\ ops = 0
  /\ panicked = FALSE

Goto(w, l) == pc' = [pc EXCEPT ![w] = l]

\* The operations of the workers in W end; their locals are gone.
ReturnAll(W) ==
  /\ pc' = [w \in Worker |-> IF w \in W THEN "idle" ELSE pc[w]]
  /\ op' = [w \in Worker |-> IF w \in W THEN "none" ELSE op[w]]
  /\ sent' = [w \in Worker |-> IF w \in W THEN None ELSE sent[w]]
  /\ noLogin' = [w \in Worker |-> IF w \in W THEN FALSE ELSE noLogin[w]]
Return(w) == ReturnAll({w})

\* ... or one goes on.
Continue(w, l) == Goto(w, l) /\ UNCHANGED <<op, sent, noLogin>>

Owes(m) == {w \in App : pc[w] = "wait" /\ owner[w] = m}
Busy(w) == pc[w] # "idle"

\* What LogoutAlone asks of the application before it starts operation o.
MayStart(w, o) ==
  LogoutAlone => /\ \A v \in App : op[v] # "logout"
                 /\ o = "logout" => \A v \in Worker : ~Busy(v)

Start(w, o, l) ==
  /\ ~Busy(w)
  /\ op' = [op EXCEPT ![w] = o]
  /\ Goto(w, l)
  /\ UNCHANGED <<token, serverVars, chanVars, monVars, sent, noLogin, owner, authErr, panicked>>

AppStarts(w, o, l) == ops < MaxOps /\ ops' = ops + 1 /\ MayStart(w, o) /\ Start(w, o, l)

StartLogin(w)  == AppStarts(w, "login", "auth")
StartLogout(w) == AppStarts(w, "logout", "findToken")
StartCall(w)   == AppStarts(w, "call", "headers")
\* A monitor that owes answers asks the server for the tasks' states.
StartPoll(m)   == mon[m] = "running" /\ Owes(m) # {} /\ Start(m, "poll", "headers")
                  /\ UNCHANGED ops

-----------------------------------------------------------------------------
(* talkToApstra.                                                           *)

\* the headers are copied into the request under the lock "http headers"
ReadHeaders(w) ==
  /\ pc[w] = "headers"
  /\ sent' = [sent EXCEPT ![w] = token]
  /\ Goto(w, "http")
  /\ UNCHANGED <<token, serverVars, chanVars, monVars, op, noLogin, owner, authErr, panicked>>

\* The server accepts the token.  A call's response is final, or names a task; a poll's
\* lets the monitor answer the calls it owes.
Accepted(w) ==
  /\ pc[w] = "http"
  /\ sent[w] \in valid
  /\ \/ op[w] = "call" /\ Continue(w, "offer") /\ UNCHANGED owner
     \/ op[w] = "call" /\ Return(w) /\ UNCHANGED owner
     \/ /\ op[w] = "poll"
        /\ ReturnAll({w} \cup Owes(w))
        /\ owner' = [v \in App |-> IF v \in Owes(w) THEN None ELSE owner[v]]
  /\ UNCHANGED <<token, serverVars, chanVars, monVars, authErr, panicked>>

\* HTTP 401 when doNotLogin is set: fatal for this request
Rejected(w) ==
  /\ pc[w] = "http"
  /\ sent[w] \notin valid
  /\ noLogin[w]
  /\ Return(w)
  /\ authErr' = TRUE
  /\ UNCHANGED <<token, serverVars, chanVars, monVars, owner, panicked>>

\* doNotLogin is not set before the request is repeated.
ReloginAlways(w) ==
  /\ pc[w] = "http"
  /\ sent[w] \notin valid
  /\ Continue(w, "auth")
  /\ UNCHANGED <<token, serverVars, chanVars, monVars, owner, authErr, panicked>>

\* HTTP 401 otherwise: log in and repeat the request, once
Relogin(w) ==
  /\ pc[w] = "http"
  /\ sent[w] \notin valid
  /\ ~noLogin[w]
  /\ noLogin' = [noLogin EXCEPT ![w] = TRUE]
  /\ Goto(w, "auth")
  /\ UNCHANGED <<token, serverVars, chanVars, monVars, op, sent, owner, authErr, panicked>>

\* A running monitor, whichever, receives the task from Client.taskMonChan.
TakeTask(w, m) ==
  /\ pc[w] = "offer"
  /\ mon[m] = "running"
  /\ owner' = [owner EXCEPT ![w] = m]
  /\ Continue(w, "wait")
  /\ UNCHANGED <<token, serverVars, chanVars, monVars, authErr, panicked>>

-----------------------------------------------------------------------------
(* login and startTaskMonitor.                                             *)

LoginOk(w) ==
  /\ pc[w] = "auth"
  /\ issued' = issued + 1
  /\ valid' = valid \cup {issued'}
  /\ sent' = [sent EXCEPT ![w] = issued']
  /\ Goto(w, "store")
  /\ UNCHANGED <<token, expired, chanVars, monVars, op, noLogin, owner, authErr, panicked>>

\* refused credentials, a network error, a timeout: the operation fails
LoginFails(w) ==
  /\ pc[w] = "auth"
  /\ Return(w)
  /\ UNCHANGED <<token, serverVars, chanVars, monVars, owner, authErr, panicked>>

\* The reply's token is not put into the headers.
StoreForgotten(w) ==
  /\ pc[w] = "store"
  /\ Continue(w, "findMonitor")
  /\ UNCHANGED <<token, serverVars, chanVars, monVars, owner, authErr, panicked>>

StoreToken(w) ==
  /\ pc[w] = "store"
  /\ token' = sent[w]
  /\ Continue(w, "findMonitor")
  /\ UNCHANGED <<serverVars, chanVars, monVars, owner, authErr, panicked>>

\* login is done: Login returns, a call or a poll goes back to its request
AfterLogin(w) == IF op[w] = "login" THEN Return(w) ELSE Continue(w, "headers")

\* The monitor is started only by Login, not by a call that logs in by itself.
FindMonitorForLogin(w) ==
  /\ pc[w] = "findMonitor"
  /\ IF tmQuit = None /\ op[w] = "login" THEN Continue(w, "makeQuit") ELSE AfterLogin(w)
  /\ UNCHANGED <<token, serverVars, chanVars, monVars, owner, authErr, panicked>>

\* if o.tmQuit == nil
FindMonitor(w) ==
  /\ pc[w] = "findMonitor"
  /\ IF tmQuit = None THEN Continue(w, "makeQuit") ELSE AfterLogin(w)
  /\ UNCHANGED <<token, serverVars, chanVars, monVars, owner, authErr, panicked>>

MakeQuit(w) ==
  /\ pc[w] = "makeQuit"
  /\ made' = made + 1
  /\ tmQuit' = made'
  /\ Continue(w, "launch")
  /\ UNCHANGED <<token, serverVars, closed, monVars, owner, authErr, panicked>>

\* newTaskMonitor(o).start(): the monitor reads Client.tmQuit again
Launch(w) ==
  /\ pc[w] = "launch"
  /\ \E m \in Monitor :
       /\ mon[m] = "unborn"
       /\ \A n \in 1..(m - 1) : mon[n] # "unborn"
       /\ mon' = [mon EXCEPT ![m] = "running"]
       /\ monQuit' = [monQuit EXCEPT ![m] = tmQuit]
  /\ AfterLogin(w)
  /\ UNCHANGED <<token, serverVars, chanVars, owner, authErr, panicked>>

\* A monitor whose quit channel is closed leaves when it owes nothing.
MonitorExits(m) ==
  /\ mon[m] = "running"
  /\ monQuit[m] \in closed
  /\ Owes(m) = {} /\ ~Busy(m)
  /\ mon' = [mon EXCEPT ![m] = "exited"]
  /\ UNCHANGED <<token, serverVars, chanVars, monQuit, localVars, owner, authErr, panicked>>

-----------------------------------------------------------------------------
(* logout and stopTaskMonitor.                                             *)

FindToken(w) ==
  /\ pc[w] = "findToken"
  /\ IF token = None THEN Return(w) ELSE Continue(w, "logoutHttp")
  /\ UNCHANGED <<token, serverVars, chanVars, monVars, owner, authErr, panicked>>

\* The server drops the session, or the request fails: the deferred clean-up follows.
LogoutHttp(w) ==
  /\ pc[w] = "logoutHttp"
  /\ valid' \in {valid, valid \ {token}}
  /\ Continue(w, "dropToken")
  /\ UNCHANGED <<token, issued, expired, chanVars, monVars, owner, authErr, panicked>>

DropToken(w) ==
  /\ pc[w] = "dropToken"
  /\ token' = None
  /\ Continue(w, "stopMonitor")
  /\ UNCHANGED <<serverVars, chanVars, monVars, owner, authErr, panicked>>

\* if o.tmQuit != nil
StopMonitor(w) ==
  /\ pc[w] = "stopMonitor"
  /\ IF tmQuit = None THEN Return(w) ELSE Continue(w, "closeQuit")
  /\ UNCHANGED <<token, serverVars, chanVars, monVars, owner, authErr, panicked>>

\* The channel is let go without being closed.
CloseForgotten(w) ==
  /\ pc[w] = "closeQuit"
  /\ Continue(w, "clearQuit")
  /\ UNCHANGED <<token, serverVars, chanVars, monVars, owner, authErr, panicked>>

CloseQuit(w) ==
  /\ pc[w] = "closeQuit"
  /\ panicked' = (panicked \/ tmQuit \in closed \cup {None})
  /\ closed' = closed \cup ({tmQuit} \ {None})
  /\ Continue(w, "clearQuit")
  /\ UNCHANGED <<token, serverVars, tmQuit, made, monVars, owner, authErr>>

\* tmQuit keeps pointing to the closed channel.
ClearForgotten(w) ==
  /\ pc[w] = "clearQuit"
  /\ Return(w)
  /\ UNCHANGED <<token, serverVars, chanVars, monVars, owner, authErr, panicked>>

ClearQuit(w) ==
  /\ pc[w] = "clearQuit"
  /\ tmQuit' = None
  /\ Return(w)
  /\ UNCHANGED <<token, serverVars, made, closed, monVars, owner, authErr, panicked>>

\* The server lets a token expire.
Expire ==
  /\ ~expired
  /\ \E k \in valid : valid' = valid \ {k}
  /\ expired' = TRUE
  /\ UNCHANGED <<token, issued, chanVars, monVars, localVars, owner, authErr, panicked>>

-----------------------------------------------------------------------------
Step(w) ==
  \/ ReadHeaders(w) \/ Accepted(w) \/ Rejected(w) \/ Relogin(w)
  \/ LoginOk(w) \/ LoginFails(w) \/ StoreToken(w) \/ FindMonitor(w) \/ MakeQuit(w) \/ Launch(w)
  \/ FindToken(w) \/ LogoutHttp(w) \/ DropToken(w) \/ StopMonitor(w) \/ CloseQuit(w)
  \/ ClearQuit(w)

WorkerStep(w) == ~panicked /\ Step(w) /\ UNCHANGED ops
Exits(m)      == ~panicked /\ MonitorExits(m) /\ UNCHANGED ops
Takes(w)      == ~panicked /\ UNCHANGED ops /\ \E m \in Monitor : TakeTask(w, m)
Polls(m)      == ~panicked /\ StartPoll(m)

Next ==
  \/ ~panicked /\ Expire /\ UNCHANGED ops
  \/ ~panicked /\ \E w \in App : StartLogin(w) \/ StartLogout(w) \/ StartCall(w)
  \/ \E w \in Worker : WorkerStep(w)
  \/ \E w \in App : Takes(w)
  \/ \E m \in Monitor : Polls(m) \/ Exits(m)

Spec == Init /\ [][Next]_vars

(* Fairness.  Goroutines run and requests are answered, a monitor takes    *)
(* what is offered, and a poll and a login that are repeated for ever are  *)
(* accepted at some time.  What the application starts is its own choice.  *)
Fairness ==
  /\ \A w \in Worker : WF_vars(WorkerStep(w))
  /\ \A w \in App : WF_vars(Takes(w))
  /\ \A m \in Monitor : /\ WF_vars(Polls(m) \/ Exits(m))
                       /\ SF_vars(WorkerStep(m) /\ Accepted(m))
                       /\ SF_vars(WorkerStep(m) /\ LoginOk(m))

FairSpec == Spec /\ Fairness

-----------------------------------------------------------------------------
(* Properties.                                                             *)

Pc == {"idle", "headers", "http", "offer", "wait", "auth", "store", "findMonitor", "makeQuit",
       "launch", "findToken", "logoutHttp", "dropToken", "stopMonitor", "closeQuit", "clearQuit"}

TypeOK ==
  /\ issued \in Nat /\ token \in 0..issued /\ valid \subseteq 1..issued
  /\ made \in Nat /\ tmQuit \in 0..made /\ closed \subseteq 1..made
  /\ monQuit \in [Monitor -> 0..made]
  /\ mon \in [Monitor -> {"unborn", "running", "exited"}]
  /\ pc \in [Worker -> Pc]
  /\ op \in [Worker -> {"none", "login", "logout", "call", "poll"}]
  /\ sent \in [Worker -> 0..issued]
  /\ noLogin \in [Worker -> BOOLEAN]
  /\ owner \in [App -> 0..MaxMonitor]
  /\ expired \in BOOLEAN /\ authErr \in BOOLEAN /\ panicked \in BOOLEAN
  /\ ops \in 0..MaxOps

\* No worker is between the token and the monitor, in either direction.
Settled ==
  \A w \in Worker : pc[w] \notin {"store", "findMonitor", "makeQuit", "launch", "dropToken",
                                  "stopMonitor", "closeQuit", "clearQuit"}
Serving(m) == mon[m] = "running" /\ monQuit[m] \notin closed

\* api_user.go:76-78: presence of an auth token is proxy for the logged-in state and for
\* the operation of a task monitor.  A token with no monitor to serve it would leave
\* every asynchronous call blocked for ever.
TokenMeansMonitor == Settled /\ token # None => \E m \in Monitor : Serving(m)

\* The second half for the channel: a client that holds no token has let go of its quit
\* channel, so the next login starts a monitor.
NoTokenNoChannel == Settled /\ token = None => tmQuit = None

\* stopTaskMonitor never closes a nil or an already closed channel.
NoPanic == ~panicked

\* README.md:24: logins are handled automatically.  While the server keeps its tokens, no
\* call ends with "unauthorized": what 401 leads to is a login whose token the retry uses.
NoAuthErrWhileTokensLive == authErr => expired

\* Every operation the application starts returns.  In particular a call whose task was
\* created finds a monitor, and a 401 never leads to more than one login and retry.
EveryCallReturns == \A w \in App : Busy(w) ~> ~Busy(w)
=============================================================================
