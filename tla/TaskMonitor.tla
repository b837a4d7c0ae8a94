---------------------------- MODULE TaskMonitor ----------------------------
(***************************************************************************)
(* The task monitor of apstra/task_monitor.go: one goroutine (run) that    *)
(* accepts asynchronous Apstra tasks from callers blocked in               *)
(* waitForTaskCompletion, a timer, and the check goroutines the timer      *)
(* starts, which poll the server and answer the callers.                   *)
(*                                                                         *)
(* A Call is one API call the server answered with a task ID; its task is  *)
(* named by the call.  The server is an environment: the statuses "init"   *)
(* and "in_progress", which the monitor treats alike, are "running".       *)
(***************************************************************************)
EXTENDS Naturals, FiniteSets

CONSTANTS
  Call,        (* the API calls that became server-side tasks              *)
  Blueprint,   (* the blueprints tasks belong to                           *)
  BpOf,        (* the blueprint of each call's task                        *)
  NoCall,      (* "no task": not a call                                    *)
  Conclusive,  (* the statuses "succeeded", "failed" and "timeout", which  *)
               (* check treats alike: it asks for the task's details       *)
  HasErrChan,  (* is ClientCfg.ErrChan set?                                *)
  MaxQueued    (* bound: check goroutines that wait for the lock at once   *)

ASSUME BpOfAssumption      == BpOf \in [Call -> Blueprint]
ASSUME NoCallAssumption    == NoCall \notin Call
ASSUME ConclusiveAssumption ==
  Conclusive \cap {"none", "running", "gone", "unrecognized", "error"} = {}
ASSUME HasErrAssumption    == HasErrChan \in BOOLEAN
ASSUME MaxQueuedAssumption == MaxQueued \in Nat \ {0}

Unrecognized == "unrecognized"                         \* any other status string
TaskState    == {"none", "running", "gone", Unrecognized} \cup Conclusive
Answer       == Conclusive \cup {"error"}              \* what a taskCompleteInfo carries
NoAnswer     == "none"

VARIABLES
  task,        (* server: the state of each call's task                    *)
  caller,      (* where each call is in waitForTaskCompletion              *)
  reply,       (* the content of each call's reply channel, capacity one   *)
  result,      (* what waitForTaskCompletion returned                      *)
  runPc,       (* where the run goroutine is                               *)
  incoming,    (* the request run received and has not yet added           *)
  shutdown,    (* taskMonitor.shutdownRequested                            *)
  quit,        (* has tmQuit been closed?                                  *)
  bpKeys,      (* pendingTaskData: the blueprints that have an inner map   *)
  tasks,       (* pendingTaskData: the keys of all inner maps              *)
  lock,        (* taskMonitor.lock: who holds it                           *)
  armed,       (* the timer is running                                     *)
  tick,        (* the timer's one-element channel holds an event           *)
  queued,      (* check goroutines started that do not hold the lock yet   *)
  checkPc,     (* where the check goroutine that holds the lock is         *)
  bpsLeft,     (* checkBlueprints: blueprints still to visit               *)
  tasksLeft,   (* checkTasksInBlueprint: tasks still to visit              *)
  listing,     (* the statuses fetched for the tasks still to visit        *)
  answered     (* the task just answered and about to be deleted           *)

callVars  == <<caller, reply, result>>
runVars   == <<runPc, incoming, shutdown>>
mapVars   == <<bpKeys, tasks>>
timerVars == <<armed, tick>>
checkVars == <<checkPc, bpsLeft, tasksLeft, listing, answered>>
vars == <<task, callVars, runVars, quit, mapVars, lock, timerVars, queued, checkVars>>

RunPc   == {"loop", "select", "stop", "drain", "lock", "add", "arm", "exited"}
CheckPc == {"none", "list", "reportErr", "task", "del", "release"}

Init ==
  /\ task = [c \in Call |-> "none"]
  /\ caller = [c \in Call |-> "idle"]
  /\ reply = [c \in Call |-> NoAnswer]
  /\ result = [c \in Call |-> NoAnswer]
  /\ runPc = "loop" /\ incoming = NoCall /\ shutdown = FALSE /\ quit = FALSE
  /\ bpKeys = {} /\ tasks = {}
  /\ lock = "none"
  /\ armed = FALSE /\ tick = FALSE        \* newTaskMonitor read the dummy event
  /\ queued = 0 /\ checkPc = "none" /\ bpsLeft = {} /\ tasksLeft = {}
  /\ listing = [c \in Call |-> "none"]
  /\ answered = NoCall

-----------------------------------------------------------------------------
(* The server.                                                             *)

ServerFinish(c) ==
  /\ task[c] = "running"
  /\ \E s \in Conclusive \cup {Unrecognized} : task' = [task EXCEPT ![c] = s]
  /\ UNCHANGED <<callVars, runVars, quit, mapVars, lock, timerVars, queued, checkVars>>

ServerForget(c) ==
  /\ task[c] \in {Unrecognized} \cup Conclusive
  /\ task' = [task EXCEPT ![c] = "gone"]
  /\ UNCHANGED <<callVars, runVars, quit, mapVars, lock, timerVars, queued, checkVars>>

-----------------------------------------------------------------------------
(* The callers: waitForTaskCompletion.                                     *)

\* The server's reply held a task ID; the caller blocks on `mon <- req`.
Submit(c) ==
  /\ caller[c] = "idle"
  /\ caller' = [caller EXCEPT ![c] = "sending"]
  /\ task' = [task EXCEPT ![c] = "running"]
  /\ UNCHANGED <<reply, result, runVars, quit, mapVars, lock, timerVars, queued, checkVars>>

\* `tci := <-reply`, then the deferred close(reply).
Receive(c) ==
  /\ caller[c] = "waiting"
  /\ reply[c] # NoAnswer
  /\ caller' = [caller EXCEPT ![c] = "done"]
  /\ result' = [result EXCEPT ![c] = reply[c]]
  /\ reply' = [reply EXCEPT ![c] = NoAnswer]
  /\ UNCHANGED <<task, runVars, quit, mapVars, lock, timerVars, queued, checkVars>>

-----------------------------------------------------------------------------
(* The run goroutine.                                                      *)

isEmpty == bpKeys = {}
exitOnQuit == shutdown      \* the test for pending tasks is missing
tmShouldExit == shutdown /\ isEmpty

LoopTop ==
  /\ runPc = "loop"
  /\ runPc' = IF tmShouldExit THEN "exited" ELSE "select"
  /\ UNCHANGED <<task, callVars, incoming, shutdown, quit, mapVars, lock, timerVars,
                 queued, checkVars>>

\* case <-o.timer.C: go o.check()
SelectTimer ==
  /\ runPc = "select"
  /\ tick
  /\ queued < MaxQueued
  /\ tick' = FALSE
  /\ queued' = queued + 1
  /\ runPc' = "loop"
  /\ UNCHANGED <<task, callVars, incoming, shutdown, quit, mapVars, lock, armed, checkVars>>

\* case in := <-o.taskInChan: the rendezvous with one blocked caller
SelectTask(c) ==
  /\ runPc = "select"
  /\ caller[c] = "sending"
  /\ caller' = [caller EXCEPT ![c] = "waiting"]
  /\ incoming' = c
  /\ runPc' = "stop"
  /\ UNCHANGED <<task, reply, result, shutdown, quit, mapVars, lock, timerVars, queued,
                 checkVars>>

\* case <-o.tmQuit: ready for ever once tmQuit is closed
SelectQuit ==
  /\ runPc = "select"
  /\ quit
  /\ shutdown' = TRUE
  /\ runPc' = "loop"
  /\ UNCHANGED <<task, callVars, incoming, quit, mapVars, lock, timerVars, queued, checkVars>>

\* stopTimer: Stop() ...
StopTimer ==
  /\ runPc = "stop"
  /\ armed' = FALSE
  /\ runPc' = "drain"
  /\ UNCHANGED <<task, callVars, incoming, shutdown, quit, mapVars, lock, tick, queued,
                 checkVars>>

\* ... and the non-blocking read of the timer's channel
DrainTimer ==
  /\ runPc = "drain"
  /\ tick' = FALSE
  /\ runPc' = "lock"
  /\ UNCHANGED <<task, callVars, incoming, shutdown, quit, mapVars, lock, armed, queued,
                 checkVars>>

RunLock ==
  /\ runPc = "lock"
  /\ lock = "none"
  /\ lock' = "run"
  /\ runPc' = "add"
  /\ UNCHANGED <<task, callVars, incoming, shutdown, quit, mapVars, timerVars, queued,
                 checkVars>>

\* pendingTaskData.add and releaseLock
Add ==
  /\ runPc = "add"
  /\ bpKeys' = bpKeys \cup {BpOf[incoming]}
  /\ tasks' = tasks \cup {incoming}
  /\ incoming' = NoCall
  /\ lock' = "none"
  /\ runPc' = "arm"
  /\ UNCHANGED <<task, callVars, shutdown, quit, timerVars, queued, checkVars>>

\* The first poll is never scheduled.
StartTimerForgotten ==
  /\ runPc = "arm"
  /\ runPc' = "loop"
  /\ UNCHANGED <<task, callVars, incoming, shutdown, quit, mapVars, lock, timerVars, queued,
                 checkVars>>

\* startTimer: Reset does not touch an event that is already in the channel
StartTimer ==
  /\ runPc = "arm"
  /\ armed' = TRUE
  /\ runPc' = "loop"
  /\ UNCHANGED <<task, callVars, incoming, shutdown, quit, mapVars, lock, tick, queued,
                 checkVars>>

\* The Go runtime: the timer expires; a second event is dropped.
TimerFires ==
  /\ armed
  /\ armed' = FALSE
  /\ tick' = TRUE
  /\ UNCHANGED <<task, callVars, runVars, quit, mapVars, lock, queued, checkVars>>

\* Client.stopTaskMonitor, called by logout
CloseQuit ==
  /\ ~quit
  /\ quit' = TRUE
  /\ UNCHANGED <<task, callVars, runVars, mapVars, lock, timerVars, queued, checkVars>>

-----------------------------------------------------------------------------
(* A check goroutine.  The lock admits one at a time, so the locals of the *)
(* one that holds it are variables of the module and the others are only   *)
(* counted.                                                                *)

InnerMap(b) == {c \in tasks : BpOf[c] = b}

\* acquireLock, and the range over the blueprints in the map
CheckLock ==
  /\ queued > 0
  /\ lock = "none"
  /\ lock' = "check"
  /\ queued' = queued - 1
  /\ checkPc' = "list"
  /\ bpsLeft' = bpKeys
  /\ UNCHANGED <<task, callVars, runVars, quit, mapVars, timerVars, tasksLeft, listing,
                 answered>>

\* getBlueprintTasksStatus: the server lists the tasks it still knows
ListOk(b) ==
  /\ checkPc = "list"
  /\ b \in bpsLeft
  /\ bpsLeft' = bpsLeft \ {b}
  /\ listing' = [c \in Call |-> IF c \in InnerMap(b) THEN task[c] ELSE "none"]
  /\ tasksLeft' = InnerMap(b)
  /\ checkPc' = "task"
  /\ UNCHANGED <<task, callVars, runVars, quit, mapVars, lock, timerVars, queued, answered>>

\* The error ends the whole check, as a `return` would.
ListFailReturns(b) ==
  /\ checkPc = "list"
  /\ b \in bpsLeft
  /\ bpsLeft' = {}
  /\ checkPc' = "release"
  /\ UNCHANGED <<task, callVars, runVars, quit, mapVars, lock, timerVars, queued, tasksLeft,
                 listing, answered>>

\* ... or the request fails: handleErr, then the next blueprint
ListFail(b) ==
  /\ checkPc = "list"
  /\ b \in bpsLeft
  /\ bpsLeft' = bpsLeft \ {b}
  /\ checkPc' = IF HasErrChan THEN "reportErr" ELSE "list"
  /\ UNCHANGED <<task, callVars, runVars, quit, mapVars, lock, timerVars, queued, tasksLeft,
                 listing, answered>>

\* `o.errChan <- err` completes when the application reads the channel
ErrTaken ==
  /\ checkPc = "reportErr"
  /\ checkPc' = "list"
  /\ UNCHANGED <<task, callVars, runVars, quit, mapVars, lock, timerVars, queued, bpsLeft,
                 tasksLeft, listing, answered>>

\* the task is still "init" or "in_progress": skip it
StillRunning(c) ==
  /\ checkPc = "task"
  /\ c \in tasksLeft
  /\ listing[c] = "running"
  /\ tasksLeft' = tasksLeft \ {c}
  /\ listing' = [listing EXCEPT ![c] = "none"]
  /\ UNCHANGED <<task, callVars, runVars, quit, mapVars, lock, timerVars, queued, checkPc,
                 bpsLeft, answered>>

\* The status is passed on as it is.
VerdictRaw(c) == {"error", task[c]}

\* What the monitor may say of a task that is no longer running: the state the
\* detail request finds, or an error (the detail request failed, the task is not
\* in the listing, its status is not one the code knows).
Verdict(c) ==
  {"error"} \cup (IF listing[c] \in Conclusive THEN {task[c]} \cap Conclusive ELSE {})

\* A lost `continue`: a task that still runs is answered as one of unexpected status.
RespondAlways(c) ==
  /\ checkPc = "task"
  /\ c \in tasksLeft
  /\ reply[c] = NoAnswer
  /\ \E a \in Verdict(c) : reply' = [reply EXCEPT ![c] = a]
  /\ answered' = c
  /\ checkPc' = "del"
  /\ UNCHANGED <<task, caller, result, runVars, quit, mapVars, lock, timerVars, queued,
                 bpsLeft, tasksLeft, listing>>

\* `responseChan <- &taskCompleteInfo{...}` into an open, empty channel
Respond(c) ==
  /\ checkPc = "task"
  /\ c \in tasksLeft
  /\ listing[c] # "running"
  /\ reply[c] = NoAnswer
  /\ \E a \in Verdict(c) : reply' = [reply EXCEPT ![c] = a]
  /\ answered' = c
  /\ checkPc' = "del"
  /\ UNCHANGED <<task, caller, result, runVars, quit, mapVars, lock, timerVars, queued,
                 bpsLeft, tasksLeft, listing>>

\* Three ways to get del wrong: forget the outer map, forget the inner one, or drop the
\* blueprint with the tasks it still holds.
KeysKept(c)    == bpKeys
TasksKept(c)   == tasks
TasksDropped(c) == tasks \ InnerMap(BpOf[c])

\* pendingTaskData.del: drop the task, and its blueprint when that was the last
TasksAfterDel(c) == tasks \ {c}
KeysAfterDel(c) ==
  IF InnerMap(BpOf[c]) \ {c} = {} THEN bpKeys \ {BpOf[c]} ELSE bpKeys

Del ==
  /\ checkPc = "del"
  /\ tasks' = TasksAfterDel(answered)
  /\ bpKeys' = KeysAfterDel(answered)
  /\ tasksLeft' = tasksLeft \ {answered}
  /\ listing' = [listing EXCEPT ![answered] = "none"]
  /\ answered' = NoCall
  /\ checkPc' = "task"
  /\ UNCHANGED <<task, callVars, runVars, quit, lock, timerVars, queued, bpsLeft>>

NextBlueprint ==
  /\ checkPc = "task"
  /\ tasksLeft = {}
  /\ checkPc' = "list"
  /\ UNCHANGED <<task, callVars, runVars, quit, mapVars, lock, timerVars, queued, bpsLeft,
                 tasksLeft, listing, answered>>

\* The timer is not set again.
RearmNever ==
  /\ checkPc = "list"
  /\ bpsLeft = {}
  /\ checkPc' = "release"
  /\ UNCHANGED <<task, callVars, runVars, quit, mapVars, lock, timerVars, queued, bpsLeft,
                 tasksLeft, listing, answered>>

\* the timer is set again while tasks remain
Rearm ==
  /\ checkPc = "list"
  /\ bpsLeft = {}
  /\ armed' = (armed \/ ~isEmpty)
  /\ checkPc' = "release"
  /\ UNCHANGED <<task, callVars, runVars, quit, mapVars, lock, tick, queued, bpsLeft,
                 tasksLeft, listing, answered>>

CheckUnlock ==
  /\ checkPc = "release"
  /\ lock' = "none"
  /\ checkPc' = "none"
  /\ UNCHANGED <<task, callVars, runVars, quit, mapVars, timerVars, queued, bpsLeft,
                 tasksLeft, listing, answered>>

-----------------------------------------------------------------------------
Server(c) == ServerFinish(c) \/ ServerForget(c)
Caller(c) == Submit(c) \/ Receive(c)

RunStep ==
  \/ LoopTop \/ SelectTimer \/ SelectQuit \/ StopTimer \/ DrainTimer
  \/ RunLock \/ Add \/ StartTimer

CheckTask(c) == StillRunning(c) \/ Respond(c)
CheckStep == CheckLock \/ ErrTaken \/ Del \/ NextBlueprint \/ Rearm \/ CheckUnlock

Next ==
  \/ \E c \in Call : Server(c) \/ Caller(c) \/ SelectTask(c) \/ CheckTask(c)
  \/ \E b \in Blueprint : ListOk(b) \/ ListFail(b)
  \/ RunStep \/ CheckStep \/ TimerFires \/ CloseQuit

Spec == Init /\ [][Next]_vars

(* Fairness.  A goroutine that can go on does (weak); a case of select     *)
(* that keeps being ready is eventually chosen, because Go draws among the *)
(* ready cases (strong).  Of the environment: the server finishes its      *)
(* tasks, a status request that is repeated for ever succeeds at some      *)
(* time, and the application reads its error channel.                      *)
Fairness ==
  /\ WF_vars(LoopTop \/ StopTimer \/ DrainTimer \/ RunLock \/ Add \/ StartTimer)
  /\ SF_vars(SelectTimer) /\ WF_vars(SelectQuit)
  /\ \A c \in Call : SF_vars(SelectTask(c)) /\ WF_vars(Receive(c)) /\ WF_vars(ServerFinish(c))
  /\ WF_vars(CheckStep \/ \E c \in Call : CheckTask(c))
  /\ \A b \in Blueprint : SF_vars(ListOk(b))
  /\ WF_vars(TimerFires)

FairSpec == Spec /\ Fairness
-----------------------------------------------------------------------------
(* Properties.                                                             *)

TypeOK ==
  /\ task \in [Call -> TaskState]
  /\ caller \in [Call -> {"idle", "sending", "waiting", "done"}]
  /\ reply \in [Call -> Answer \cup {NoAnswer}]
  /\ result \in [Call -> Answer \cup {NoAnswer}]
  /\ runPc \in RunPc
  /\ incoming \in Call \cup {NoCall}
  /\ shutdown \in BOOLEAN /\ quit \in BOOLEAN
  /\ bpKeys \in SUBSET Blueprint /\ tasks \in SUBSET Call
  /\ lock \in {"none", "run", "check"}
  /\ armed \in BOOLEAN /\ tick \in BOOLEAN
  /\ queued \in Nat
  /\ checkPc \in CheckPc
  /\ bpsLeft \in SUBSET Blueprint /\ tasksLeft \in SUBSET Call
  /\ listing \in [Call -> TaskState]
  /\ answered \in Call \cup {NoCall}

\* While a task is pending, something is on its way that will poll the server: the
\* timer runs, its event waits, a check goroutine has yet to decide about the timer, or
\* run is between stopTimer and startTimer.  No interleaving of run's stop/drain/reset
\* with check's reset (both without a common lock) loses the wakeup, and run is alive.
WakeupPending ==
  \/ armed \/ tick \/ queued > 0
  \/ checkPc \notin {"none", "release"}
  \/ runPc \in {"stop", "drain", "lock", "add", "arm"}
NoLostWakeup == tasks # {} => WakeupPending /\ runPc # "exited"

\* A caller blocked on its reply channel is known to the monitor: its answer is in the
\* channel, its task is in the map, or run has it in hand.  So none is forgotten, not by
\* del's removal of a blueprint, and not when run exits after tmQuit was closed.
WaitersKnown ==
  \A c \in Call : caller[c] = "waiting" =>
    \/ reply[c] # NoAnswer
    \/ c \in tasks
    \/ incoming = c /\ runPc \in {"stop", "drain", "lock", "add"}

\* Whenever check may answer a task, its caller still waits with an open, empty channel:
\* a second send would block check for ever with the lock held, or, after the caller's
\* deferred close(reply), panic.
NoSendToFinishedCall ==
  \A c \in tasks : answered = c \/ (caller[c] = "waiting" /\ reply[c] = NoAnswer)

\* A call returns only after its task stopped running on the server, and a conclusive
\* status it returns is the one the server gave that very task (unless the server has
\* dropped the task since).  README.md:19-22: final results only when complete.
FinalResultsOnly ==
  \A c \in Call : result[c] # NoAnswer =>
    /\ task[c] \notin {"none", "running"}
    /\ result[c] \in Conclusive => task[c] \in {result[c], "gone"}

\* isEmpty looks at the outer map only; it must speak for the inner maps too, or the
\* monitor would exit with tasks pending (or never exit).
OuterMapExact == bpKeys = {BpOf[c] : c \in tasks}

\* The comment on taskMonitor.lock (task_monitor.go:169) says it controls access to the
\* map of tasks.  run's test for exit reads the map: no check goroutine may be in the
\* middle of changing it.
LockGuardsMap == ~(runPc = "loop" /\ shutdown /\ checkPc = "del")

\* A caller that offers its task is served, or the monitor has exited.
OfferedIsServed ==
  \A c \in Call : caller[c] = "sending" ~> (caller[c] = "done" \/ runPc = "exited")

\* Closing tmQuit ends the run goroutine, though only after the pending tasks ended.
QuitEndsRun == quit ~> runPc = "exited"

(* What a caller relies on, without timers, locks and goroutines.          *)
callPhase ==
  [c \in Call |-> IF caller[c] = "waiting" /\ reply[c] # NoAnswer THEN "answered" ELSE caller[c]]
callAnswer == [c \in Call |-> IF reply[c] # NoAnswer THEN reply[c] ELSE result[c]]

AbstractCalls ==
  INSTANCE AsyncCalls WITH phase <- callPhase, answer <- callAnswer, open <- (runPc # "exited")

\* The monitor implements AsyncCalls: every step is one of its steps or a stutter, ...
ImplementsCalls == AbstractCalls!Spec

\* ... and under the scheduler's fairness its fairness is kept too.
ImplementsFairCalls == AbstractCalls!FairSpec

-----------------------------------------------------------------------------
(* The inductive invariant the proofs use; each part is a fact about the   *)
(* goroutines' positions that the safety properties above rest on.         *)

Handing == {"stop", "drain", "lock", "add"}     \* run holds a request it has not added

LockInv ==
  /\ lock = "run" <=> runPc = "add"
  /\ lock = "check" <=> checkPc # "none"

IncomingInv ==
  /\ runPc \in Handing <=> incoming # NoCall
  /\ incoming # NoCall => /\ caller[incoming] = "waiting" /\ reply[incoming] = NoAnswer
                          /\ incoming \notin tasks

CallerInv ==
  \A c \in Call :
    /\ caller[c] # "idle" => task[c] # "none"
    /\ caller[c] # "waiting" => reply[c] = NoAnswer
    /\ result[c] # NoAnswer => caller[c] = "done"

\* the check goroutine's place in its two loops; the map does not grow under it
VisitInv ==
  /\ tasksLeft \subseteq tasks
  /\ checkPc \notin {"task", "del"} => tasksLeft = {}
  /\ checkPc = "del" <=> answered # NoCall
  /\ answered # NoCall => /\ answered \in tasksLeft
                          /\ \/ caller[answered] = "waiting" /\ reply[answered] # NoAnswer
                             \/ caller[answered] = "done"

Truthful(c, a) ==
  a # NoAnswer => /\ task[c] \notin {"none", "running"}
                  /\ a \in Conclusive => task[c] \in {a, "gone"}

AnswerInv ==
  /\ \A c \in Call : Truthful(c, reply[c]) /\ Truthful(c, result[c])
  /\ \A c \in tasksLeft : listing[c] # "running" => task[c] \notin {"none", "running"}

IInv ==
  /\ TypeOK /\ LockInv /\ IncomingInv /\ CallerInv /\ VisitInv /\ AnswerInv
  /\ OuterMapExact /\ NoSendToFinishedCall /\ WaitersKnown /\ NoLostWakeup
=============================================================================
