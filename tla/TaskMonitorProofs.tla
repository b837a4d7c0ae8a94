------------------------- MODULE TaskMonitorProofs -------------------------
(* Proofs about the task monitor, for every set of calls and blueprints.   *)
EXTENDS TaskMonitor, TLAPS

USE BpOfAssumption, NoCallAssumption, ConclusiveAssumption

\* The parts of IInv that say where the goroutines are ...
Positions == LockInv /\ IncomingInv /\ CallerInv /\ VisitInv /\ AnswerInv

\* ... and the parts that are the monitor's safety properties.
Promises == OuterMapExact /\ NoSendToFinishedCall /\ WaitersKnown /\ NoLostWakeup

\* In the initial state nothing is pending and no caller waits.
LEMMA InitIInv == Init => IInv
<1> SUFFICES ASSUME Init PROVE IInv
  OBVIOUS
<1>1. TypeOK
  BY DEF Init, TypeOK, TaskState, Answer, NoAnswer, RunPc, CheckPc
<1>2. LockInv /\ IncomingInv /\ CallerInv /\ VisitInv
  BY DEF Init, LockInv, IncomingInv, CallerInv, VisitInv, Handing, NoAnswer
<1>3. AnswerInv /\ OuterMapExact /\ NoSendToFinishedCall /\ WaitersKnown /\ NoLostWakeup
  BY DEF Init, AnswerInv, Truthful, OuterMapExact, NoSendToFinishedCall, WaitersKnown,
         NoLostWakeup, WakeupPending, NoAnswer
<1> QED
  BY <1>1, <1>2, <1>3 DEF IInv

\* Every step keeps the variables in their types; Add needs to know that run holds a call.
LEMMA StepTypeOK ==
  ASSUME IInv, [Next]_vars PROVE TypeOK'
<1> USE DEF IInv, TypeOK, IncomingInv, Handing, TaskState, Answer, NoAnswer, RunPc, CheckPc, Unrecognized,
           callVars, runVars, mapVars, timerVars, checkVars
<1>1. ASSUME NEW c \in Call, ServerFinish(c) PROVE TypeOK'
  BY <1>1 DEF ServerFinish
<1>2. ASSUME NEW c \in Call, ServerForget(c) PROVE TypeOK'
  BY <1>2 DEF ServerForget
<1>3. ASSUME NEW c \in Call, Submit(c) PROVE TypeOK'
  BY <1>3 DEF Submit
<1>4. ASSUME NEW c \in Call, Receive(c) PROVE TypeOK'
  BY <1>4 DEF Receive
<1>5. ASSUME NEW c \in Call, SelectTask(c) PROVE TypeOK'
  BY <1>5 DEF SelectTask
<1>6. ASSUME NEW c \in Call, StillRunning(c) PROVE TypeOK'
  BY <1>6 DEF StillRunning
<1>7. ASSUME NEW c \in Call, Respond(c) PROVE TypeOK'
  BY <1>7 DEF Respond, Verdict
<1>8. ASSUME NEW b \in Blueprint, ListOk(b) PROVE TypeOK'
  BY <1>8 DEF ListOk, InnerMap
<1>9. ASSUME NEW b \in Blueprint, ListFail(b) PROVE TypeOK'
  BY <1>9 DEF ListFail
<1>10. ASSUME LoopTop PROVE TypeOK'
  BY <1>10 DEF LoopTop, tmShouldExit, isEmpty
<1>11. ASSUME SelectTimer PROVE TypeOK'
  <2>1. queued' \in Nat
    BY <1>11 DEF SelectTimer
  <2> QED
    BY <1>11, <2>1 DEF SelectTimer
<1>12. ASSUME SelectQuit PROVE TypeOK'
  BY <1>12 DEF SelectQuit
<1>13. ASSUME StopTimer PROVE TypeOK'
  BY <1>13 DEF StopTimer
<1>14. ASSUME DrainTimer PROVE TypeOK'
  BY <1>14 DEF DrainTimer
<1>15. ASSUME RunLock PROVE TypeOK'
  BY <1>15 DEF RunLock
<1>16. ASSUME Add PROVE TypeOK'
  BY <1>16 DEF Add
<1>17. ASSUME StartTimer PROVE TypeOK'
  BY <1>17 DEF StartTimer
<1>18. ASSUME CheckLock PROVE TypeOK'
  BY <1>18 DEF CheckLock
<1>19. ASSUME ErrTaken PROVE TypeOK'
  BY <1>19 DEF ErrTaken
<1>20. ASSUME Del PROVE TypeOK'
  BY <1>20 DEF Del, TasksAfterDel, KeysAfterDel, InnerMap
<1>21. ASSUME NextBlueprint PROVE TypeOK'
  BY <1>21 DEF NextBlueprint
<1>22. ASSUME Rearm PROVE TypeOK'
  BY <1>22 DEF Rearm, isEmpty
<1>23. ASSUME CheckUnlock PROVE TypeOK'
  BY <1>23 DEF CheckUnlock
<1>24. ASSUME TimerFires PROVE TypeOK'
  BY <1>24 DEF TimerFires
<1>25. ASSUME CloseQuit PROVE TypeOK'
  BY <1>25 DEF CloseQuit
<1>26. ASSUME UNCHANGED vars PROVE TypeOK'
  BY <1>26 DEF vars
<1> QED
  BY <1>1, <1>2, <1>3, <1>4, <1>5, <1>6, <1>7, <1>8, <1>9, <1>10, <1>11, <1>12,
     <1>13, <1>14, <1>15, <1>16, <1>17, <1>18, <1>19, <1>20, <1>21, <1>22, <1>23, <1>24, <1>25, <1>26
     DEF Next, Server, Caller, RunStep, CheckTask, CheckStep

\* Every step keeps the goroutines' positions consistent with the map and the channels.
LEMMA StepPositions ==
  ASSUME IInv, [Next]_vars PROVE Positions'
<1> USE DEF IInv, Positions, TypeOK, LockInv, IncomingInv, CallerInv, VisitInv, AnswerInv, Truthful,
           Handing, Answer, NoAnswer, Unrecognized, RunPc, CheckPc, NoSendToFinishedCall,
           callVars, runVars, mapVars, timerVars, checkVars
<1>1. ASSUME NEW c \in Call, ServerFinish(c) PROVE Positions'
  BY <1>1 DEF ServerFinish
<1>2. ASSUME NEW c \in Call, ServerForget(c) PROVE Positions'
  BY <1>2 DEF ServerForget
<1>3. ASSUME NEW c \in Call, Submit(c) PROVE Positions'
  BY <1>3 DEF Submit
<1>4. ASSUME NEW c \in Call, Receive(c) PROVE Positions'
  BY <1>4 DEF Receive
<1>5. ASSUME NEW c \in Call, SelectTask(c) PROVE Positions'
  BY <1>5 DEF SelectTask
<1>6. ASSUME NEW c \in Call, StillRunning(c) PROVE Positions'
  BY <1>6 DEF StillRunning
<1>7. ASSUME NEW c \in Call, Respond(c) PROVE Positions'
  BY <1>7 DEF Respond, Verdict
<1>8. ASSUME NEW b \in Blueprint, ListOk(b) PROVE Positions'
  BY <1>8 DEF ListOk, InnerMap
<1>9. ASSUME NEW b \in Blueprint, ListFail(b) PROVE Positions'
  BY <1>9 DEF ListFail
<1>10. ASSUME LoopTop PROVE Positions'
  BY <1>10 DEF LoopTop, tmShouldExit, isEmpty
<1>11. ASSUME SelectTimer PROVE Positions'
  BY <1>11 DEF SelectTimer
<1>12. ASSUME SelectQuit PROVE Positions'
  BY <1>12 DEF SelectQuit
<1>13. ASSUME StopTimer PROVE Positions'
  BY <1>13 DEF StopTimer
<1>14. ASSUME DrainTimer PROVE Positions'
  BY <1>14 DEF DrainTimer
<1>15. ASSUME RunLock PROVE Positions'
  BY <1>15 DEF RunLock
<1>16. ASSUME Add PROVE Positions'
  BY <1>16 DEF Add
<1>17. ASSUME StartTimer PROVE Positions'
  BY <1>17 DEF StartTimer
<1>18. ASSUME CheckLock PROVE Positions'
  BY <1>18 DEF CheckLock
<1>19. ASSUME ErrTaken PROVE Positions'
  BY <1>19 DEF ErrTaken
<1>20. ASSUME Del PROVE Positions'
  BY <1>20 DEF Del, TasksAfterDel, KeysAfterDel, InnerMap
<1>21. ASSUME NextBlueprint PROVE Positions'
  BY <1>21 DEF NextBlueprint
<1>22. ASSUME Rearm PROVE Positions'
  BY <1>22 DEF Rearm, isEmpty
<1>23. ASSUME CheckUnlock PROVE Positions'
  BY <1>23 DEF CheckUnlock
<1>24. ASSUME TimerFires PROVE Positions'
  BY <1>24 DEF TimerFires
<1>25. ASSUME CloseQuit PROVE Positions'
  BY <1>25 DEF CloseQuit
<1>26. ASSUME UNCHANGED vars PROVE Positions'
  BY <1>26 DEF vars
<1> QED
  BY <1>1, <1>2, <1>3, <1>4, <1>5, <1>6, <1>7, <1>8, <1>9, <1>10, <1>11, <1>12,
     <1>13, <1>14, <1>15, <1>16, <1>17, <1>18, <1>19, <1>20, <1>21, <1>22, <1>23, <1>24, <1>25, <1>26
     DEF Next, Server, Caller, RunStep, CheckTask, CheckStep

\* Every step keeps the promises.  The two steps that decide on the outer map alone, run's
\* exit and check's choice to set the timer again, rest on OuterMapExact.
LEMMA StepPromises ==
  ASSUME IInv, [Next]_vars PROVE Promises'
<1> USE DEF IInv, Promises, TypeOK, LockInv, IncomingInv, CallerInv, VisitInv, Handing, NoAnswer,
           OuterMapExact, NoSendToFinishedCall, WaitersKnown, NoLostWakeup, WakeupPending,
           Answer, RunPc, CheckPc, callVars, runVars, mapVars, timerVars, checkVars
<1>1. ASSUME NEW c \in Call, ServerFinish(c) PROVE Promises'
  BY <1>1 DEF ServerFinish
<1>2. ASSUME NEW c \in Call, ServerForget(c) PROVE Promises'
  BY <1>2 DEF ServerForget
<1>3. ASSUME NEW c \in Call, Submit(c) PROVE Promises'
  BY <1>3 DEF Submit
<1>4. ASSUME NEW c \in Call, Receive(c) PROVE Promises'
  BY <1>4 DEF Receive
<1>5. ASSUME NEW c \in Call, SelectTask(c) PROVE Promises'
  BY <1>5 DEF SelectTask
<1>6. ASSUME NEW c \in Call, StillRunning(c) PROVE Promises'
  BY <1>6 DEF StillRunning
<1>7. ASSUME NEW c \in Call, Respond(c) PROVE Promises'
  BY <1>7 DEF Respond, Verdict
<1>8. ASSUME NEW b \in Blueprint, ListOk(b) PROVE Promises'
  BY <1>8 DEF ListOk, InnerMap
<1>9. ASSUME NEW b \in Blueprint, ListFail(b) PROVE Promises'
  BY <1>9 DEF ListFail
<1>10. ASSUME LoopTop PROVE Promises'
  <2>1. tasks # {} => bpKeys # {}
    OBVIOUS
  <2>2. (OuterMapExact /\ NoSendToFinishedCall /\ WaitersKnown)'
    BY <1>10 DEF LoopTop
  <2>3. NoLostWakeup'
    BY <1>10, <2>1 DEF LoopTop, isEmpty, tmShouldExit
  <2> QED
    BY <2>2, <2>3
<1>11. ASSUME SelectTimer PROVE Promises'
  BY <1>11 DEF SelectTimer
<1>12. ASSUME SelectQuit PROVE Promises'
  BY <1>12 DEF SelectQuit
<1>13. ASSUME StopTimer PROVE Promises'
  BY <1>13 DEF StopTimer
<1>14. ASSUME DrainTimer PROVE Promises'
  BY <1>14 DEF DrainTimer
<1>15. ASSUME RunLock PROVE Promises'
  BY <1>15 DEF RunLock
<1>16. ASSUME Add PROVE Promises'
  BY <1>16 DEF Add
<1>17. ASSUME StartTimer PROVE Promises'
  BY <1>17 DEF StartTimer
<1>18. ASSUME CheckLock PROVE Promises'
  BY <1>18 DEF CheckLock
<1>19. ASSUME ErrTaken PROVE Promises'
  BY <1>19 DEF ErrTaken
<1>20. ASSUME Del PROVE Promises'
  BY <1>20 DEF Del, TasksAfterDel, KeysAfterDel, InnerMap
<1>21. ASSUME NextBlueprint PROVE Promises'
  BY <1>21 DEF NextBlueprint
<1>22. ASSUME Rearm PROVE Promises'
  <2>1. tasks # {} => bpKeys # {}
    OBVIOUS
  <2>2. (OuterMapExact /\ NoSendToFinishedCall /\ WaitersKnown)'
    BY <1>22 DEF Rearm
  <2>3. NoLostWakeup'
    BY <1>22, <2>1 DEF Rearm, isEmpty
  <2> QED
    BY <2>2, <2>3
<1>23. ASSUME CheckUnlock PROVE Promises'
  BY <1>23 DEF CheckUnlock
<1>24. ASSUME TimerFires PROVE Promises'
  BY <1>24 DEF TimerFires
<1>25. ASSUME CloseQuit PROVE Promises'
  BY <1>25 DEF CloseQuit
<1>26. ASSUME UNCHANGED vars PROVE Promises'
  BY <1>26 DEF vars
<1> QED
  BY <1>1, <1>2, <1>3, <1>4, <1>5, <1>6, <1>7, <1>8, <1>9, <1>10, <1>11, <1>12,
     <1>13, <1>14, <1>15, <1>16, <1>17, <1>18, <1>19, <1>20, <1>21, <1>22, <1>23, <1>24, <1>25, <1>26
     DEF Next, Server, Caller, RunStep, CheckTask, CheckStep

\* IInv is an invariant of the monitor.
THEOREM Invariance == Spec => []IInv
<1>1. IInv /\ [Next]_vars => IInv'
  BY StepTypeOK, StepPositions, StepPromises DEF IInv, Positions, Promises
<1> QED
  BY <1>1, InitIInv, PTL DEF Spec

\* The variables keep their types: no goroutine leaves the positions the code has.
THEOREM TypeCorrect == Spec => []TypeOK
  BY Invariance, PTL DEF IInv

\* A pending task always has a poll on its way, and run is alive to take it.
THEOREM WakeupNeverLost == Spec => []NoLostWakeup
  BY Invariance, PTL DEF IInv

\* No accepted caller is forgotten, whatever run and check interleave.
THEOREM WaitersNeverForgotten == Spec => []WaitersKnown
  BY Invariance, PTL DEF IInv

\* check never sends a second answer and never sends on a closed channel.
THEOREM SendsAreSafe == Spec => []NoSendToFinishedCall
  BY Invariance, PTL DEF IInv

\* The test on the outer map speaks for the inner maps.
THEOREM OuterMapIsExact == Spec => []OuterMapExact
  BY Invariance, PTL DEF IInv

\* Calls return only final results, and those of their own task.
THEOREM ResultsAreFinal == Spec => []FinalResultsOnly
<1>1. IInv => FinalResultsOnly
  BY DEF IInv, AnswerInv, Truthful, FinalResultsOnly
<1> QED
  BY <1>1, Invariance, PTL

\* Every step of the monitor is a step of AsyncCalls or leaves its variables alone: a request
\* is accepted in the rendezvous, answered when check sends, and run exits only when it owes
\* no answer.
LEMMA StepImplements ==
  ASSUME IInv, [Next]_vars PROVE [AbstractCalls!Next]_(AbstractCalls!avars)
<1> USE DEF IInv, TypeOK, CallerInv, NoAnswer, callPhase, callAnswer, AbstractCalls!avars,
           AbstractCalls!Next, callVars, runVars, mapVars, timerVars, checkVars
<1>1. ASSUME NEW c \in Call, ServerFinish(c) PROVE [AbstractCalls!Next]_(AbstractCalls!avars)
  <2>1. AbstractCalls!Finish(c)
    BY <1>1 DEF ServerFinish, AbstractCalls!Finish, Unrecognized
  <2> QED
    BY <2>1
<1>2. ASSUME NEW c \in Call, ServerForget(c) PROVE [AbstractCalls!Next]_(AbstractCalls!avars)
  <2>1. AbstractCalls!Finish(c)
    BY <1>2 DEF ServerForget, AbstractCalls!Finish, Unrecognized
  <2> QED
    BY <2>1
<1>3. ASSUME NEW c \in Call, Submit(c) PROVE [AbstractCalls!Next]_(AbstractCalls!avars)
  <2>1. AbstractCalls!Offer(c)
    BY <1>3 DEF Submit, AbstractCalls!Offer, AbstractCalls!Move
  <2> QED
    BY <2>1
<1>4. ASSUME NEW c \in Call, Receive(c) PROVE [AbstractCalls!Next]_(AbstractCalls!avars)
  <2>1. AbstractCalls!Return(c)
    BY <1>4 DEF Receive, AbstractCalls!Return, AbstractCalls!Move
  <2> QED
    BY <2>1
<1>5. ASSUME NEW c \in Call, SelectTask(c) PROVE [AbstractCalls!Next]_(AbstractCalls!avars)
  <2>1. AbstractCalls!Accept(c)
    BY <1>5 DEF SelectTask, AbstractCalls!Accept, AbstractCalls!Move
  <2> QED
    BY <2>1
<1>6. ASSUME NEW c \in Call, StillRunning(c) PROVE [AbstractCalls!Next]_(AbstractCalls!avars)
  BY <1>6 DEF StillRunning
<1>7. ASSUME NEW c \in Call, Respond(c) PROVE [AbstractCalls!Next]_(AbstractCalls!avars)
  <2>1. caller[c] = "waiting" /\ callPhase' = [callPhase EXCEPT ![c] = "answered"]
    BY <1>7 DEF Respond, Verdict, NoSendToFinishedCall, VisitInv
  <2>2. PICK a \in Verdict(c) : reply' = [reply EXCEPT ![c] = a]
    BY <1>7 DEF Respond
  <2>3. task[c] \notin {"none", "running"} /\ a \in {"error"} \cup (Conclusive \cap {task[c]})
    BY <1>7 DEF Respond, Verdict, AnswerInv
  <2>4. callAnswer' = [callAnswer EXCEPT ![c] = a]
    BY <1>7, <2>2 DEF Respond, Verdict
  <2>5. AbstractCalls!Reply(c)
    BY <1>7, <2>1, <2>3, <2>4 DEF Respond, AbstractCalls!Reply, AbstractCalls!Move
  <2> QED
    BY <2>5
<1>8. ASSUME NEW b \in Blueprint, ListOk(b) PROVE [AbstractCalls!Next]_(AbstractCalls!avars)
  BY <1>8 DEF ListOk
<1>9. ASSUME NEW b \in Blueprint, ListFail(b) PROVE [AbstractCalls!Next]_(AbstractCalls!avars)
  BY <1>9 DEF ListFail
<1>10. ASSUME LoopTop PROVE [AbstractCalls!Next]_(AbstractCalls!avars)
  <2>1. CASE tmShouldExit
    <3>1. tasks = {} /\ incoming = NoCall
      BY <1>10, <2>1 DEF LoopTop, tmShouldExit, isEmpty, OuterMapExact, IncomingInv, Handing
    <3>2. \A c \in Call : callPhase[c] # "waiting"
      BY <3>1 DEF WaitersKnown
    <3>3. AbstractCalls!Close
      BY <1>10, <2>1, <3>2 DEF LoopTop, AbstractCalls!Close
    <3> QED
      BY <3>3
  <2>2. CASE ~tmShouldExit
    BY <1>10, <2>2 DEF LoopTop
  <2> QED
    BY <2>1, <2>2
<1>11. ASSUME SelectTimer PROVE [AbstractCalls!Next]_(AbstractCalls!avars)
  BY <1>11 DEF SelectTimer
<1>12. ASSUME SelectQuit PROVE [AbstractCalls!Next]_(AbstractCalls!avars)
  BY <1>12 DEF SelectQuit
<1>13. ASSUME StopTimer PROVE [AbstractCalls!Next]_(AbstractCalls!avars)
  BY <1>13 DEF StopTimer
<1>14. ASSUME DrainTimer PROVE [AbstractCalls!Next]_(AbstractCalls!avars)
  BY <1>14 DEF DrainTimer
<1>15. ASSUME RunLock PROVE [AbstractCalls!Next]_(AbstractCalls!avars)
  BY <1>15 DEF RunLock
<1>16. ASSUME Add PROVE [AbstractCalls!Next]_(AbstractCalls!avars)
  BY <1>16 DEF Add
<1>17. ASSUME StartTimer PROVE [AbstractCalls!Next]_(AbstractCalls!avars)
  BY <1>17 DEF StartTimer
<1>18. ASSUME CheckLock PROVE [AbstractCalls!Next]_(AbstractCalls!avars)
  BY <1>18 DEF CheckLock
<1>19. ASSUME ErrTaken PROVE [AbstractCalls!Next]_(AbstractCalls!avars)
  BY <1>19 DEF ErrTaken
<1>20. ASSUME Del PROVE [AbstractCalls!Next]_(AbstractCalls!avars)
  BY <1>20 DEF Del
<1>21. ASSUME NextBlueprint PROVE [AbstractCalls!Next]_(AbstractCalls!avars)
  BY <1>21 DEF NextBlueprint
<1>22. ASSUME Rearm PROVE [AbstractCalls!Next]_(AbstractCalls!avars)
  BY <1>22 DEF Rearm
<1>23. ASSUME CheckUnlock PROVE [AbstractCalls!Next]_(AbstractCalls!avars)
  BY <1>23 DEF CheckUnlock
<1>24. ASSUME TimerFires PROVE [AbstractCalls!Next]_(AbstractCalls!avars)
  BY <1>24 DEF TimerFires
<1>25. ASSUME CloseQuit PROVE [AbstractCalls!Next]_(AbstractCalls!avars)
  BY <1>25 DEF CloseQuit
<1>26. ASSUME UNCHANGED vars PROVE [AbstractCalls!Next]_(AbstractCalls!avars)
  BY <1>26 DEF vars
<1> QED
  BY <1>1, <1>2, <1>3, <1>4, <1>5, <1>6, <1>7, <1>8, <1>9, <1>10, <1>11, <1>12,
     <1>13, <1>14, <1>15, <1>16, <1>17, <1>18, <1>19, <1>20, <1>21, <1>22, <1>23, <1>24, <1>25, <1>26
     DEF Next, Server, Caller, RunStep, CheckTask, CheckStep

\* The monitor implements what AsyncCalls promises its callers.
THEOREM MonitorImplementsCalls == Spec => ImplementsCalls
<1>1. Init => AbstractCalls!Init
  BY DEF Init, AbstractCalls!Init, callPhase, callAnswer, NoAnswer
<1>2. IInv /\ [Next]_vars => [AbstractCalls!Next]_(AbstractCalls!avars)
  BY StepImplements
<1> QED
  BY <1>1, <1>2, Invariance, PTL DEF Spec, ImplementsCalls, AbstractCalls!Spec

-----------------------------------------------------------------------------
(* Nobody is stuck.  What a fair scheduler makes of this is OfferedIsServed*)
(* and ImplementsFairCalls.                                                *)

\* Whoever holds the lock can take its next step: check finds the reply channel empty when
\* it answers a task, and nothing but the application keeps it from handing over an error.
HolderGoesOn ==
  \/ runPc = "add"
  \/ checkPc \in {"list", "reportErr", "del", "release"}
  \/ checkPc = "task" /\ tasksLeft = {}
  \/ checkPc = "task" /\ \E c \in tasksLeft : listing[c] = "running" \/ reply[c] = NoAnswer

\* The lock is free and somebody wants it, or run is on its way to it or back.
LockIsTaken == lock = "none" /\ (runPc = "lock" \/ queued > 0)
RunGoesOn   == runPc \in {"stop", "drain", "arm"}

\* The timer will fire, or has fired and run can start a check.
TimerGoesOn ==
  \/ armed
  \/ tick /\ runPc = "loop" /\ ~ tmShouldExit
  \/ tick /\ runPc = "select" /\ queued < MaxQueued

NobodyStuck ==
  \A c \in Call :
    /\ caller[c] = "waiting" =>
         reply[c] # NoAnswer \/ HolderGoesOn \/ LockIsTaken \/ RunGoesOn \/ TimerGoesOn
    /\ caller[c] = "sending" /\ runPc # "exited" =>
         runPc \in {"loop", "select"} \/ HolderGoesOn \/ LockIsTaken \/ RunGoesOn

\* While a call waits for its answer some goroutine, or the timer, can take a step towards
\* it, and while one offers its task run can, unless it has left: run and check never wait
\* for each other, nor check for a caller, for any calls and blueprints.
THEOREM NobodyIsStuck == Spec => []NobodyStuck
<1>1. IInv => NobodyStuck
  <2> SUFFICES ASSUME IInv PROVE NobodyStuck
    OBVIOUS
  <2>1. lock # "none" => HolderGoesOn
    <3> SUFFICES ASSUME lock # "none", ~ HolderGoesOn PROVE FALSE
      OBVIOUS
    <3>1. checkPc = "task" /\ tasksLeft # {}
      BY DEF IInv, TypeOK, LockInv, HolderGoesOn, CheckPc
    <3>2. PICK c \in tasksLeft : TRUE
      BY <3>1
    <3>3. c \in tasks /\ c \in Call /\ answered = NoCall
      BY <3>1, <3>2 DEF IInv, TypeOK, VisitInv
    <3>4. reply[c] = NoAnswer
      BY <3>3, NoCallAssumption DEF IInv, NoSendToFinishedCall
    <3> QED BY <3>1, <3>2, <3>4 DEF HolderGoesOn
  <2>2. lock = "none" => checkPc = "none" /\ runPc # "add"
    BY DEF IInv, LockInv
  <2>3. tick /\ runPc = "select" => queued > 0 \/ TimerGoesOn
    BY MaxQueuedAssumption DEF IInv, TypeOK, TimerGoesOn
  <2>4. ASSUME NEW c \in Call, caller[c] = "waiting", reply[c] = NoAnswer
        PROVE  HolderGoesOn \/ LockIsTaken \/ RunGoesOn \/ TimerGoesOn
    <3>1. CASE c \in tasks
      <4>1. WakeupPending /\ runPc # "exited" /\ bpKeys # {}
        BY <3>1 DEF IInv, NoLostWakeup, OuterMapExact
      <4>2. runPc \in RunPc
        BY DEF IInv, TypeOK
      <4> QED BY <2>1, <2>2, <2>3, <4>1, <4>2
              DEF WakeupPending, LockIsTaken, RunGoesOn, TimerGoesOn, tmShouldExit, isEmpty, RunPc
    <3>2. CASE incoming = c /\ runPc \in {"stop", "drain", "lock", "add"}
      BY <2>1, <3>2 DEF LockIsTaken, RunGoesOn, HolderGoesOn
    <3> QED BY <2>4, <3>1, <3>2 DEF IInv, WaitersKnown
  <2>5. runPc # "exited" => runPc \in {"loop", "select"} \/ HolderGoesOn \/ LockIsTaken \/ RunGoesOn
    BY <2>1 DEF IInv, TypeOK, RunPc, HolderGoesOn, LockIsTaken, RunGoesOn
  <2> QED BY <2>4, <2>5 DEF NobodyStuck
<1> QED BY <1>1, Invariance, PTL
=============================================================================
