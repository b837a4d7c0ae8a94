----------------------------- MODULE Transport -----------------------------
(***************************************************************************)
(* One use of Client.talkToApstra (apstra/talk_to_apstra.go), or several   *)
(* with the same *url.URL, as the loops over pages of connectivity         *)
(* template assignments make them: the URL, the deadline, the 401 that     *)
(* leads to a login and one retry, and the three kinds of reply.           *)
(***************************************************************************)
EXTENDS Naturals

CONSTANT MaxPages   (* bound: pages of a reply                             *)

ASSUME PagesAssumption == MaxPages \in Nat

VARIABLES
  \* the input (talkToApstraIn), the client's configuration and the caller's context
  tin,        (* [url, login, doNotLogin, writer, response, bpInUrl]        *)
  pages,      (* calls with the same URL                                    *)
  timeout,    (* ClientCfg.Timeout is not negative                          *)
  leading,    (* baseUrl has leading path components                        *)
  timer,      (* the deadline in force: "none", "caller", "own"             *)
  \* the call
  talkPc, talkResult,
  prefixes,   (* times baseUrl.Path stands in in.url.Path                   *)
  sent,       (* times it stands in the path last sent                      *)
  expired,    (* the deadline has passed                                    *)
  page, logins,
  \* the server
  token,      (* the token is accepted                                      *)
  operation,  (* what was asked: "none", "running", "done", "failed", or    *)
              (* "silent": failed, with no errors in its detailed status    *)
  executions  (* times the server began it, in this call                    *)

input    == <<tin, pages, leading, timeout>>
talkVars == <<tin, pages, leading, timeout, timer, talkPc, talkResult, prefixes, sent,
              expired, page, logins, token, operation, executions>>

\* in.url or in.urlStr; doNotLogin is set by the requests of login and logout only
Input ==
  {i \in [url : BOOLEAN, login : BOOLEAN, doNotLogin : BOOLEAN, writer : BOOLEAN,
          response : BOOLEAN, bpInUrl : BOOLEAN] :
     /\ i.login => i.doNotLogin /\ i.response
     /\ i.doNotLogin => ~i.url /\ ~i.writer /\ ~i.bpInUrl
     /\ i.writer => i.url /\ ~i.response}

TalkInit ==
  /\ tin \in Input /\ leading \in BOOLEAN /\ timeout \in BOOLEAN
  /\ pages \in 1..MaxPages /\ (pages > 1 => tin.url /\ tin.response)
  /\ timer \in {"none", "caller"}
  /\ talkPc = "craft" /\ talkResult = "none"
  /\ prefixes = 0 /\ sent = 0 /\ expired = FALSE
  /\ page = 1 /\ logins = 0
  /\ token \in BOOLEAN /\ operation = "none" /\ executions = 0

\* craftUrl, the headers and the deadline: a caller's deadline is left alone; without one,
\* Timeout decides: negative is none, zero (the default) and positive make one of our own
Craft ==
  /\ talkPc = "craft"
  /\ sent' = (IF leading THEN 1 ELSE 0) + (IF tin.url THEN prefixes ELSE 0)
  /\ prefixes' = IF tin.url THEN sent' ELSE prefixes
  /\ timer' = IF timer = "none" /\ timeout THEN "own" ELSE timer
  /\ talkPc' = "send"
  /\ UNCHANGED <<input, talkResult, expired, page, logins, token, operation, executions>>

Done(result) == talkPc' = "done" /\ talkResult' = result

\* httpClient.Do fails, before or after the server has had the request
SendFails ==
  /\ talkPc \in {"send", "login"}
  /\ Done("error")
  /\ \/ UNCHANGED <<operation, executions>>
     \/ /\ talkPc = "send" /\ ~expired /\ token
        /\ operation' = "running" /\ executions' = executions + 1
  /\ UNCHANGED <<input, timer, prefixes, sent, expired, page, logins, token>>

\* 401: fatal at the login URL and with doNotLogin, otherwise a reason to log in
Unauthorized ==
  /\ talkPc = "send" /\ ~expired /\ ~token
  /\ IF tin.login \/ tin.doNotLogin
       THEN Done("authFail")
       ELSE talkPc' = "login" /\ UNCHANGED talkResult
  /\ UNCHANGED <<input, timer, prefixes, sent, expired, page, logins, token, operation, executions>>

\* The retry does not get the context of the call.
LoginThenDetached ==
  /\ talkPc = "login" /\ ~expired
  /\ logins' = logins + 1 /\ token' = TRUE
  /\ tin' = [tin EXCEPT !.doNotLogin = TRUE]
  /\ timer' = "none"
  /\ talkPc' = "craft"
  /\ UNCHANGED <<pages, leading, timeout, talkResult, prefixes, sent, expired, page, operation, executions>>

\* The deadline is only wrapped around the first request.
Login ==
  /\ talkPc = "login" /\ ~expired
  /\ logins' = logins + 1 /\ token' = TRUE
  /\ tin' = [tin EXCEPT !.doNotLogin = TRUE]
  /\ talkPc' = "craft"
  /\ UNCHANGED <<pages, leading, timeout, timer, talkResult, prefixes, sent, expired, page, operation, executions>>

LoginRefused ==
  /\ talkPc = "login" /\ ~expired
  /\ logins' = logins + 1 /\ Done("authFail")
  /\ UNCHANGED <<input, timer, prefixes, sent, expired, page, token, operation, executions>>

\* Any status but 2xx and 401: a TalkToApstraErr
Refuse ==
  /\ talkPc = "send" /\ ~expired /\ token
  /\ Done("refused")
  /\ UNCHANGED <<input, timer, prefixes, sent, expired, page, logins, token, operation, executions>>

\* The operation is carried out at once, and the reply goes to the writer, to apiResponse or
\* nowhere; one that does not parse is an error. The next page is a new call with the same
\* URL object.
Answer ==
  /\ talkPc = "send" /\ ~expired /\ token
  /\ operation' = "done" /\ executions' = executions + 1
  /\ \/ /\ page < pages /\ talkPc' = "craft" /\ page' = page + 1
        /\ tin' = [tin EXCEPT !.doNotLogin = FALSE]
        /\ timer' = IF timer = "own" THEN "none" ELSE timer
        /\ UNCHANGED talkResult
     \/ page = pages /\ Done("ok") /\ UNCHANGED <<page, tin, timer>>
     \/ (tin.writer \/ tin.response) /\ Done("error") /\ UNCHANGED <<page, tin, timer>>
  /\ UNCHANGED <<pages, leading, timeout, prefixes, sent, expired, logins, token>>

\* A task ID is no different from any other reply without a body for the caller.
AcceptUnlooked ==
  /\ talkPc = "send" /\ ~expired /\ token /\ ~tin.writer /\ pages = 1
  /\ operation' = "running" /\ executions' = executions + 1
  /\ IF tin.response THEN talkPc' = "task" /\ UNCHANGED talkResult ELSE Done("ok")
  /\ UNCHANGED <<input, timer, prefixes, sent, expired, page, logins, token>>

\* The reply is a task ID (shorter than the 255 bytes peeked at): the blueprint's ID comes
\* from the URL or the body, which must not contradict each other. Only requests with
\* async=full are answered so; those with a writer are not among them.
Accept ==
  /\ talkPc = "send" /\ ~expired /\ token /\ ~tin.writer /\ pages = 1
  /\ operation' = "running" /\ executions' = executions + 1
  /\ \E bpInBody \in {"none", "same", "other"} :
       IF (tin.bpInUrl /\ bpInBody = "other") \/ (~tin.bpInUrl /\ bpInBody = "none")
         THEN Done("error")
         ELSE talkPc' = "task" /\ UNCHANGED talkResult
  /\ UNCHANGED <<input, timer, prefixes, sent, expired, page, logins, token>>

\* The task ends, on the server.
TaskEnds ==
  /\ operation = "running"
  /\ operation' \in {"done", "failed", "silent"}
  /\ UNCHANGED <<input, timer, talkPc, talkResult, prefixes, sent, expired, page,
                 logins, token, executions>>

\* waitForTaskCompletion returns; it does not look at the deadline, and the errors in the
\* task's detailed status are looked at, not its status
TaskReported ==
  /\ talkPc = "task"
  /\ \/ operation \in {"done", "silent"} /\ Done("ok")
     \/ operation \in {"done", "silent"} /\ tin.response /\ Done("error")   \* json.Unmarshal
     \/ operation = "failed" /\ Done("refused")
     \/ Done("error")                                              \* error in task monitor
  /\ UNCHANGED <<input, timer, prefixes, sent, expired, page, logins, token,
                 operation, executions>>

Expire ==
  /\ timer # "none" /\ talkPc # "done" /\ ~expired /\ expired' = TRUE
  /\ UNCHANGED <<input, timer, talkPc, talkResult, prefixes, sent, page, logins,
                 token, operation, executions>>

\* The token dies, also one that a login of this call was given.
TokenExpires ==
  /\ token /\ talkPc # "done" /\ token' = FALSE
  /\ UNCHANGED <<input, timer, talkPc, talkResult, prefixes, sent, expired, page,
                 logins, operation, executions>>

TalkNext ==
  \/ Craft \/ SendFails \/ Unauthorized \/ Login \/ LoginRefused \/ Refuse \/ Answer \/ Accept
  \/ TaskEnds \/ TaskReported \/ Expire \/ TokenExpires

\* Goroutines run, time passes, tasks end; a request need not be answered.
TalkFairness ==
  /\ WF_talkVars(Craft)
  /\ WF_talkVars(expired /\ SendFails)
  /\ WF_talkVars(TaskReported)
  /\ WF_talkVars(TaskEnds)
  /\ WF_talkVars(Expire)

TalkSpec == TalkInit /\ [][TalkNext]_talkVars /\ TalkFairness

-----------------------------------------------------------------------------
(* Properties.                                                             *)

TalkTypeOK ==
  /\ tin \in [url : BOOLEAN, login : BOOLEAN, doNotLogin : BOOLEAN, writer : BOOLEAN,
              response : BOOLEAN, bpInUrl : BOOLEAN]
  /\ talkPc \in {"craft", "send", "login", "task", "done"}
  /\ talkResult \in {"none", "ok", "error", "refused", "authFail"}
  /\ page \in 1..MaxPages /\ logins \in 0..MaxPages
  /\ operation \in {"none", "running", "done", "failed", "silent"}

\* nil means done: what was asked has been carried out and its task, if it made one, has
\* ended and names no error; and the retry after a login never makes the server do it twice.
NilMeansDone ==
  /\ talkPc = "done" /\ talkResult = "ok" => operation \in {"done", "silent"}
  /\ executions <= page

\* A call with a deadline, the caller's or the client's, is over when it has passed,
\* whatever the server answers or fails to answer, except that it waits for a task.
DeadlineEndsCall == (timer # "none" /\ talkPc # "done") ~> (talkPc \in {"task", "done"})
=============================================================================
