---------------------------- MODULE SessionProofs ----------------------------
(* Proofs about the login session, for every set of goroutines and bounds. *)
EXTENDS Session, TLAPS

USE MaxOpsAssumption, MaxMonitorAssumption, AppAssumption, LogoutAloneAssumption

Op == {"none", "login", "logout", "call", "poll"}

\* TypeOK in three parts: the workers' locals, ...
LocalTypes ==
  /\ pc \in [Worker -> Pc]
  /\ op \in [Worker -> Op]
  /\ sent \in [Worker -> 0..issued]
  /\ noLogin \in [Worker -> BOOLEAN]

\* ... tokens and counters ...
TokenTypes ==
  /\ issued \in Nat /\ token \in 0..issued /\ valid \subseteq 1..issued
  /\ expired \in BOOLEAN /\ authErr \in BOOLEAN
  /\ ops \in 0..MaxOps

\* ... and channels and monitors.
MonitorTypes ==
  /\ made \in Nat /\ tmQuit \in 0..made /\ closed \subseteq 1..made
  /\ monQuit \in [Monitor -> 0..made]
  /\ mon \in [Monitor -> {"unborn", "running", "exited"}]
  /\ owner \in [App -> 0..MaxMonitor]
  /\ panicked \in BOOLEAN

LEMMA Parts == TypeOK <=> LocalTypes /\ TokenTypes /\ MonitorTypes
BY DEF TypeOK, LocalTypes, TokenTypes, MonitorTypes, Op

\* The locals keep their types when operations end ...
LEMMA ReturnTypes ==
  ASSUME LocalTypes, issued' = issued, issued \in Nat, NEW W, ReturnAll(W)
  PROVE  LocalTypes'
<1> USE DEF LocalTypes, ReturnAll, Pc, Op, None
<1>1. pc' \in [Worker -> Pc] /\ op' \in [Worker -> Op]
  OBVIOUS
<1>2. sent' \in [Worker -> 0..issued']
  OBVIOUS
<1>3. noLogin' \in [Worker -> BOOLEAN]
  OBVIOUS
<1> QED
  BY <1>1, <1>2, <1>3

\* ... and when one goes on.
LEMMA ContinueTypes ==
  ASSUME LocalTypes, issued' = issued, NEW w \in Worker, NEW l \in Pc, Continue(w, l)
  PROVE  LocalTypes'
BY DEF LocalTypes, Continue, Goto, Pc

\* A worker that is done with login goes back to its request or returns.
LEMMA AfterLoginTypes ==
  ASSUME LocalTypes, issued' = issued, issued \in Nat, NEW w \in Worker, AfterLogin(w)
  PROVE  LocalTypes'
BY ReturnTypes, ContinueTypes DEF AfterLogin, Return, Pc

\* Every step keeps the locals in their types,
LEMMA StepLocals ==
  ASSUME TypeOK, [Next]_vars PROVE LocalTypes'
<1> USE DEF serverVars, chanVars, monVars, localVars, vars
<1>0. LocalTypes /\ TokenTypes /\ MonitorTypes
  BY Parts
<1>1. ASSUME NEW w \in Worker, ReadHeaders(w), UNCHANGED ops PROVE LocalTypes'
  BY <1>0, <1>1 DEF ReadHeaders, LocalTypes, TokenTypes, Pc, Goto, None
<1>2. ASSUME NEW w \in Worker, Accepted(w), UNCHANGED ops PROVE LocalTypes'
  BY <1>0, <1>2, ReturnTypes, ContinueTypes, AfterLoginTypes DEF Accepted, TokenTypes, Return, Pc
<1>3. ASSUME NEW w \in Worker, Rejected(w), UNCHANGED ops PROVE LocalTypes'
  BY <1>0, <1>3, ReturnTypes, ContinueTypes, AfterLoginTypes DEF Rejected, TokenTypes, Return, Pc
<1>4. ASSUME NEW w \in Worker, Relogin(w), UNCHANGED ops PROVE LocalTypes'
  BY <1>0, <1>4 DEF Relogin, LocalTypes, TokenTypes, Pc, Goto, None
<1>5. ASSUME NEW w \in Worker, LoginOk(w), UNCHANGED ops PROVE LocalTypes'
  BY <1>0, <1>5 DEF LoginOk, LocalTypes, TokenTypes, Pc, Goto, None
<1>6. ASSUME NEW w \in Worker, LoginFails(w), UNCHANGED ops PROVE LocalTypes'
  BY <1>0, <1>6, ReturnTypes, ContinueTypes, AfterLoginTypes DEF LoginFails, TokenTypes, Return, Pc
<1>7. ASSUME NEW w \in Worker, StoreToken(w), UNCHANGED ops PROVE LocalTypes'
  BY <1>0, <1>7, ReturnTypes, ContinueTypes, AfterLoginTypes DEF StoreToken, TokenTypes, Return, Pc
<1>8. ASSUME NEW w \in Worker, FindMonitor(w), UNCHANGED ops PROVE LocalTypes'
  BY <1>0, <1>8, ReturnTypes, ContinueTypes, AfterLoginTypes DEF FindMonitor, TokenTypes, Return, Pc
<1>9. ASSUME NEW w \in Worker, MakeQuit(w), UNCHANGED ops PROVE LocalTypes'
  BY <1>0, <1>9, ReturnTypes, ContinueTypes, AfterLoginTypes DEF MakeQuit, TokenTypes, Return, Pc
<1>10. ASSUME NEW w \in Worker, Launch(w), UNCHANGED ops PROVE LocalTypes'
  BY <1>0, <1>10, ReturnTypes, ContinueTypes, AfterLoginTypes DEF Launch, TokenTypes, Return, Pc
<1>11. ASSUME NEW w \in Worker, FindToken(w), UNCHANGED ops PROVE LocalTypes'
  BY <1>0, <1>11, ReturnTypes, ContinueTypes, AfterLoginTypes DEF FindToken, TokenTypes, Return, Pc
<1>12. ASSUME NEW w \in Worker, LogoutHttp(w), UNCHANGED ops PROVE LocalTypes'
  BY <1>0, <1>12, ReturnTypes, ContinueTypes, AfterLoginTypes DEF LogoutHttp, TokenTypes, Return, Pc
<1>13. ASSUME NEW w \in Worker, DropToken(w), UNCHANGED ops PROVE LocalTypes'
  BY <1>0, <1>13, ReturnTypes, ContinueTypes, AfterLoginTypes DEF DropToken, TokenTypes, Return, Pc
<1>14. ASSUME NEW w \in Worker, StopMonitor(w), UNCHANGED ops PROVE LocalTypes'
  BY <1>0, <1>14, ReturnTypes, ContinueTypes, AfterLoginTypes DEF StopMonitor, TokenTypes,
     Return, Pc
<1>15. ASSUME NEW w \in Worker, CloseQuit(w), UNCHANGED ops PROVE LocalTypes'
  BY <1>0, <1>15, ReturnTypes, ContinueTypes, AfterLoginTypes DEF CloseQuit, TokenTypes, Return, Pc
<1>16. ASSUME NEW w \in Worker, ClearQuit(w), UNCHANGED ops PROVE LocalTypes'
  BY <1>0, <1>16, ReturnTypes, ContinueTypes, AfterLoginTypes DEF ClearQuit, TokenTypes, Return, Pc
<1>17. ASSUME NEW w \in App, StartLogin(w) PROVE LocalTypes'
  BY <1>0, <1>17 DEF StartLogin, LocalTypes, Op, Pc, AppStarts, Start, Goto, Worker
<1>18. ASSUME NEW w \in App, StartLogout(w) PROVE LocalTypes'
  BY <1>0, <1>18 DEF StartLogout, LocalTypes, Op, Pc, AppStarts, Start, Goto, Worker
<1>19. ASSUME NEW w \in App, StartCall(w) PROVE LocalTypes'
  BY <1>0, <1>19 DEF StartCall, LocalTypes, Op, Pc, AppStarts, Start, Goto, Worker
<1>20. ASSUME NEW m \in Monitor, StartPoll(m) PROVE LocalTypes'
  BY <1>0, <1>20 DEF StartPoll, LocalTypes, Op, Pc, AppStarts, Start, Goto, Worker
<1>21. ASSUME NEW m \in Monitor, MonitorExits(m), UNCHANGED ops PROVE LocalTypes'
  BY <1>0, <1>21 DEF MonitorExits, LocalTypes
<1>22. ASSUME NEW w \in App, NEW m \in Monitor, TakeTask(w, m), UNCHANGED ops PROVE LocalTypes'
  BY <1>0, <1>22, ReturnTypes, ContinueTypes, AfterLoginTypes DEF TakeTask, TokenTypes, Return,
     Pc, Worker
<1>23. ASSUME Expire, UNCHANGED ops PROVE LocalTypes'
  BY <1>0, <1>23 DEF Expire, LocalTypes
<1>24. CASE UNCHANGED vars
  BY <1>0, <1>24 DEF LocalTypes
<1> QED
  BY <1>1, <1>2, <1>3, <1>4, <1>5, <1>6, <1>7, <1>8, <1>9, <1>10, <1>11, <1>12, <1>13, <1>14,
     <1>15, <1>16, <1>17, <1>18, <1>19, <1>20, <1>21, <1>22, <1>23, <1>24
     DEF Next, WorkerStep, Step, Takes, Polls, Exits

\* ... the tokens and counters ...
LEMMA StepTokens ==
  ASSUME TypeOK, [Next]_vars PROVE TokenTypes'
<1> USE DEF serverVars, chanVars, monVars, localVars, vars, None
<1>0. LocalTypes /\ TokenTypes /\ MonitorTypes
  BY Parts
<1>1. ASSUME NEW w \in Worker, ReadHeaders(w), UNCHANGED ops PROVE TokenTypes'
  BY <1>0, <1>1 DEF ReadHeaders, TokenTypes, LocalTypes
<1>2. ASSUME NEW w \in Worker, Accepted(w), UNCHANGED ops PROVE TokenTypes'
  BY <1>0, <1>2 DEF Accepted, TokenTypes, LocalTypes
<1>3. ASSUME NEW w \in Worker, Rejected(w), UNCHANGED ops PROVE TokenTypes'
  BY <1>0, <1>3 DEF Rejected, TokenTypes, LocalTypes
<1>4. ASSUME NEW w \in Worker, Relogin(w), UNCHANGED ops PROVE TokenTypes'
  BY <1>0, <1>4 DEF Relogin, TokenTypes, LocalTypes
<1>5. ASSUME NEW w \in Worker, LoginOk(w), UNCHANGED ops PROVE TokenTypes'
  BY <1>0, <1>5 DEF LoginOk, TokenTypes, LocalTypes
<1>6. ASSUME NEW w \in Worker, LoginFails(w), UNCHANGED ops PROVE TokenTypes'
  BY <1>0, <1>6 DEF LoginFails, TokenTypes, LocalTypes
<1>7. ASSUME NEW w \in Worker, StoreToken(w), UNCHANGED ops PROVE TokenTypes'
  BY <1>0, <1>7 DEF StoreToken, TokenTypes, LocalTypes
<1>8. ASSUME NEW w \in Worker, FindMonitor(w), UNCHANGED ops PROVE TokenTypes'
  BY <1>0, <1>8 DEF FindMonitor, TokenTypes, LocalTypes
<1>9. ASSUME NEW w \in Worker, MakeQuit(w), UNCHANGED ops PROVE TokenTypes'
  BY <1>0, <1>9 DEF MakeQuit, TokenTypes, LocalTypes
<1>10. ASSUME NEW w \in Worker, Launch(w), UNCHANGED ops PROVE TokenTypes'
  BY <1>0, <1>10 DEF Launch, TokenTypes, LocalTypes
<1>11. ASSUME NEW w \in Worker, FindToken(w), UNCHANGED ops PROVE TokenTypes'
  BY <1>0, <1>11 DEF FindToken, TokenTypes, LocalTypes
<1>12. ASSUME NEW w \in Worker, LogoutHttp(w), UNCHANGED ops PROVE TokenTypes'
  BY <1>0, <1>12 DEF LogoutHttp, TokenTypes, LocalTypes
<1>13. ASSUME NEW w \in Worker, DropToken(w), UNCHANGED ops PROVE TokenTypes'
  BY <1>0, <1>13 DEF DropToken, TokenTypes, LocalTypes
<1>14. ASSUME NEW w \in Worker, StopMonitor(w), UNCHANGED ops PROVE TokenTypes'
  BY <1>0, <1>14 DEF StopMonitor, TokenTypes, LocalTypes
<1>15. ASSUME NEW w \in Worker, CloseQuit(w), UNCHANGED ops PROVE TokenTypes'
  BY <1>0, <1>15 DEF CloseQuit, TokenTypes, LocalTypes
<1>16. ASSUME NEW w \in Worker, ClearQuit(w), UNCHANGED ops PROVE TokenTypes'
  BY <1>0, <1>16 DEF ClearQuit, TokenTypes, LocalTypes
<1>17. ASSUME NEW w \in App, StartLogin(w) PROVE TokenTypes'
  BY <1>0, <1>17 DEF StartLogin, TokenTypes, LocalTypes, AppStarts, Start
<1>18. ASSUME NEW w \in App, StartLogout(w) PROVE TokenTypes'
  BY <1>0, <1>18 DEF StartLogout, TokenTypes, LocalTypes, AppStarts, Start
<1>19. ASSUME NEW w \in App, StartCall(w) PROVE TokenTypes'
  BY <1>0, <1>19 DEF StartCall, TokenTypes, LocalTypes, AppStarts, Start
<1>20. ASSUME NEW m \in Monitor, StartPoll(m) PROVE TokenTypes'
  BY <1>0, <1>20 DEF StartPoll, TokenTypes, LocalTypes, AppStarts, Start
<1>21. ASSUME NEW m \in Monitor, MonitorExits(m), UNCHANGED ops PROVE TokenTypes'
  BY <1>0, <1>21 DEF MonitorExits, TokenTypes, LocalTypes
<1>22. ASSUME NEW w \in App, NEW m \in Monitor, TakeTask(w, m), UNCHANGED ops PROVE TokenTypes'
  BY <1>0, <1>22 DEF TakeTask, TokenTypes, LocalTypes
<1>23. ASSUME Expire, UNCHANGED ops PROVE TokenTypes'
  BY <1>0, <1>23 DEF Expire, TokenTypes, LocalTypes
<1>24. CASE UNCHANGED vars
  BY <1>0, <1>24 DEF TokenTypes
<1> QED
  BY <1>1, <1>2, <1>3, <1>4, <1>5, <1>6, <1>7, <1>8, <1>9, <1>10, <1>11, <1>12, <1>13, <1>14,
     <1>15, <1>16, <1>17, <1>18, <1>19, <1>20, <1>21, <1>22, <1>23, <1>24
     DEF Next, WorkerStep, Step, Takes, Polls, Exits

\* ... and the channels and monitors.
LEMMA StepMonitors ==
  ASSUME TypeOK, [Next]_vars PROVE MonitorTypes'
<1> USE DEF serverVars, chanVars, monVars, localVars, vars, None
<1>0. LocalTypes /\ TokenTypes /\ MonitorTypes
  BY Parts
<1>1. ASSUME NEW w \in Worker, ReadHeaders(w), UNCHANGED ops PROVE MonitorTypes'
  BY <1>0, <1>1 DEF ReadHeaders, MonitorTypes
<1>2. ASSUME NEW w \in Worker, Accepted(w), UNCHANGED ops PROVE MonitorTypes'
  BY <1>0, <1>2 DEF Accepted, MonitorTypes
<1>3. ASSUME NEW w \in Worker, Rejected(w), UNCHANGED ops PROVE MonitorTypes'
  BY <1>0, <1>3 DEF Rejected, MonitorTypes
<1>4. ASSUME NEW w \in Worker, Relogin(w), UNCHANGED ops PROVE MonitorTypes'
  BY <1>0, <1>4 DEF Relogin, MonitorTypes
<1>5. ASSUME NEW w \in Worker, LoginOk(w), UNCHANGED ops PROVE MonitorTypes'
  BY <1>0, <1>5 DEF LoginOk, MonitorTypes
<1>6. ASSUME NEW w \in Worker, LoginFails(w), UNCHANGED ops PROVE MonitorTypes'
  BY <1>0, <1>6 DEF LoginFails, MonitorTypes
<1>7. ASSUME NEW w \in Worker, StoreToken(w), UNCHANGED ops PROVE MonitorTypes'
  BY <1>0, <1>7 DEF StoreToken, MonitorTypes
<1>8. ASSUME NEW w \in Worker, FindMonitor(w), UNCHANGED ops PROVE MonitorTypes'
  BY <1>0, <1>8 DEF FindMonitor, MonitorTypes
<1>9. ASSUME NEW w \in Worker, MakeQuit(w), UNCHANGED ops PROVE MonitorTypes'
  BY <1>0, <1>9 DEF MakeQuit, MonitorTypes
<1>10. ASSUME NEW w \in Worker, Launch(w), UNCHANGED ops PROVE MonitorTypes'
  BY <1>0, <1>10 DEF Launch, MonitorTypes, Monitor
<1>11. ASSUME NEW w \in Worker, FindToken(w), UNCHANGED ops PROVE MonitorTypes'
  BY <1>0, <1>11 DEF FindToken, MonitorTypes
<1>12. ASSUME NEW w \in Worker, LogoutHttp(w), UNCHANGED ops PROVE MonitorTypes'
  BY <1>0, <1>12 DEF LogoutHttp, MonitorTypes
<1>13. ASSUME NEW w \in Worker, DropToken(w), UNCHANGED ops PROVE MonitorTypes'
  BY <1>0, <1>13 DEF DropToken, MonitorTypes
<1>14. ASSUME NEW w \in Worker, StopMonitor(w), UNCHANGED ops PROVE MonitorTypes'
  BY <1>0, <1>14 DEF StopMonitor, MonitorTypes
<1>15. ASSUME NEW w \in Worker, CloseQuit(w), UNCHANGED ops PROVE MonitorTypes'
  BY <1>0, <1>15 DEF CloseQuit, MonitorTypes
<1>16. ASSUME NEW w \in Worker, ClearQuit(w), UNCHANGED ops PROVE MonitorTypes'
  BY <1>0, <1>16 DEF ClearQuit, MonitorTypes
<1>17. ASSUME NEW w \in App, StartLogin(w) PROVE MonitorTypes'
  BY <1>0, <1>17 DEF StartLogin, MonitorTypes, AppStarts, Start
<1>18. ASSUME NEW w \in App, StartLogout(w) PROVE MonitorTypes'
  BY <1>0, <1>18 DEF StartLogout, MonitorTypes, AppStarts, Start
<1>19. ASSUME NEW w \in App, StartCall(w) PROVE MonitorTypes'
  BY <1>0, <1>19 DEF StartCall, MonitorTypes, AppStarts, Start
<1>20. ASSUME NEW m \in Monitor, StartPoll(m) PROVE MonitorTypes'
  BY <1>0, <1>20 DEF StartPoll, MonitorTypes, AppStarts, Start, Monitor
<1>21. ASSUME NEW m \in Monitor, MonitorExits(m), UNCHANGED ops PROVE MonitorTypes'
  BY <1>0, <1>21 DEF MonitorExits, MonitorTypes, Monitor
<1>22. ASSUME NEW w \in App, NEW m \in Monitor, TakeTask(w, m), UNCHANGED ops PROVE MonitorTypes'
  BY <1>0, <1>22 DEF TakeTask, MonitorTypes, Monitor
<1>23. ASSUME Expire, UNCHANGED ops PROVE MonitorTypes'
  BY <1>0, <1>23 DEF Expire, MonitorTypes
<1>24. CASE UNCHANGED vars
  BY <1>0, <1>24 DEF MonitorTypes
<1> QED
  BY <1>1, <1>2, <1>3, <1>4, <1>5, <1>6, <1>7, <1>8, <1>9, <1>10, <1>11, <1>12, <1>13, <1>14,
     <1>15, <1>16, <1>17, <1>18, <1>19, <1>20, <1>21, <1>22, <1>23, <1>24
     DEF Next, WorkerStep, Step, Takes, Polls, Exits

LEMMA InitiallyTyped == Init => TypeOK
<1> SUFFICES ASSUME Init PROVE TypeOK
  OBVIOUS
<1>1. LocalTypes
  BY DEF Init, LocalTypes, Pc, Op, None
<1>2. TokenTypes
  <2>1. expired \in BOOLEAN /\ authErr \in BOOLEAN
    BY DEF Init
  <2>2. issued \in Nat /\ token \in 0..issued /\ valid \subseteq 1..issued /\ ops \in 0..MaxOps
    BY DEF Init, None, MaxOpsAssumption
  <2> QED
    BY <2>1, <2>2 DEF TokenTypes
<1>3. MonitorTypes
  <2>1. monQuit \in [Monitor -> 0..made] /\ owner \in [App -> 0..MaxMonitor]
    BY DEF Init, None, MaxMonitorAssumption
  <2>2. mon \in [Monitor -> {"unborn", "running", "exited"}]
    BY DEF Init
  <2>3. made \in Nat /\ tmQuit \in 0..made /\ closed \subseteq 1..made
    BY DEF Init, None
  <2>4. panicked \in BOOLEAN
    BY DEF Init
  <2> QED
    BY <2>1, <2>2, <2>3, <2>4 DEF MonitorTypes
<1> QED
  BY <1>1, <1>2, <1>3, Parts

LEMMA TypesKept == TypeOK /\ [Next]_vars => TypeOK'
<1> SUFFICES ASSUME TypeOK, [Next]_vars PROVE TypeOK'
  OBVIOUS
<1>1. (LocalTypes /\ TokenTypes /\ MonitorTypes)' => TypeOK'
  BY DEF TypeOK, LocalTypes, TokenTypes, MonitorTypes, Op
<1> QED
  BY <1>1, StepLocals, StepTokens, StepMonitors

\* TypeOK holds of the specification, whatever the application does.
THEOREM TypeCorrect == Spec => []TypeOK
BY InitiallyTyped, TypesKept, PTL DEF Spec

-----------------------------------------------------------------------------
(* What a login session promises an application that logs out only when    *)
(* its calls have returned (LogoutAlone), for any number of goroutines,    *)
(* operations and monitors, however their logins overlap.                  *)

LogoutPc == {"findToken", "logoutHttp", "dropToken", "stopMonitor", "closeQuit", "clearQuit"}

\* A worker is inside logout's code just when logout is its operation; monitors never are.
OpsMatchPlaces ==
  /\ \A w \in Worker : /\ op[w] = "logout" <=> pc[w] \in LogoutPc
                       /\ pc[w] = "idle" => ~noLogin[w]
  /\ \A m \in Monitor : pc[m] \notin LogoutPc

\* While one logs out, nobody else does anything.
LogoutIsAlone ==
  \A v, w \in Worker : pc[w] \in LogoutPc => v = w \/ pc[v] = "idle"

\* A token is there from the moment login stores it until logout drops it.
TokenStored ==
  \A w \in Worker :
    /\ pc[w] = "store" => sent[w] # None
    /\ pc[w] \in {"findMonitor", "makeQuit", "launch"} => token # None
    /\ pc[w] = "headers" /\ noLogin[w] => token # None
    /\ pc[w] \in {"stopMonitor", "closeQuit", "clearQuit"} => token = None

\* Client.tmQuit is open unless it is about to be forgotten, is there while the token is,
\* and has a monitor that listens to it, or will have.
ChannelHeld ==
  /\ tmQuit \in closed => \E w \in Worker : pc[w] = "clearQuit"
  /\ \A w \in Worker : pc[w] \in {"launch", "closeQuit"} => tmQuit # None
  /\ token = None /\ tmQuit # None =>
       \E w \in Worker : pc[w] \in {"stopMonitor", "closeQuit", "clearQuit"}
  /\ token # None /\ tmQuit = None => \E w \in Worker : pc[w] \in {"findMonitor", "makeQuit"}
  /\ tmQuit # None => \/ \E w \in Worker : pc[w] \in {"launch", "clearQuit"}
                     \/ \E m \in Monitor : mon[m] = "running" /\ monQuit[m] = tmQuit
  /\ ~panicked

\* As long as the server lets no token expire, it accepts the one the client holds, and
\* the one a request carries that was repeated after a login.
TokensLive ==
  ~expired => /\ token # None => token \in valid \/ \E w \in Worker : pc[w] = "dropToken"
              /\ \A w \in Worker :
                   /\ pc[w] = "store" => sent[w] \in valid
                   /\ pc[w] = "http" /\ noLogin[w] => sent[w] \in valid
              /\ ~authErr

SessionIInv ==
  TypeOK /\ OpsMatchPlaces /\ LogoutIsAlone /\ TokenStored /\ ChannelHeld /\ TokensLive

-----------------------------------------------------------------------------
\* Every step keeps workers where their operations are; ...
LEMMA KeepsPlaces ==
  ASSUME LogoutAlone, SessionIInv, [Next]_vars PROVE OpsMatchPlaces'
<1> USE MaxOpsAssumption, MaxMonitorAssumption, AppAssumption
    DEF serverVars, chanVars, monVars, localVars, None, Worker, Monitor, LogoutPc
<1>0. LocalTypes /\ TokenTypes /\ MonitorTypes /\ OpsMatchPlaces
  BY Parts DEF SessionIInv
<1> USE DEF LocalTypes, TokenTypes, MonitorTypes, Pc, OpsMatchPlaces
<1>1. ASSUME NEW w \in Worker, ReadHeaders(w) PROVE OpsMatchPlaces'
  BY <1>0, <1>1 DEF ReadHeaders, Goto
<1>2. ASSUME NEW w \in Worker, Accepted(w) PROVE OpsMatchPlaces'
  <2>1. CASE op[w] = "call" /\ Continue(w, "offer")
    BY <1>0, <1>2, <2>1 DEF Accepted, Continue, Goto
  <2>2. CASE op[w] = "call" /\ Return(w)
    BY <1>0, <1>2, <2>2 DEF Accepted, Return, ReturnAll
  <2>3. CASE op[w] = "poll" /\ ReturnAll({w} \cup Owes(w))
    BY <1>0, <1>2, <2>3 DEF Accepted, ReturnAll, Owes
  <2> QED BY <1>2, <2>1, <2>2, <2>3 DEF Accepted
<1>3. ASSUME NEW w \in Worker, Rejected(w) PROVE OpsMatchPlaces'
  BY <1>0, <1>3 DEF Rejected, Return, ReturnAll
<1>4. ASSUME NEW w \in Worker, Relogin(w) PROVE OpsMatchPlaces'
  BY <1>0, <1>4 DEF Relogin, Goto
<1>5. ASSUME NEW w \in Worker, LoginOk(w) PROVE OpsMatchPlaces'
  BY <1>0, <1>5 DEF LoginOk, Goto
<1>6. ASSUME NEW w \in Worker, LoginFails(w) PROVE OpsMatchPlaces'
  BY <1>0, <1>6 DEF LoginFails, Return, ReturnAll
<1>7. ASSUME NEW w \in Worker, StoreToken(w) PROVE OpsMatchPlaces'
  BY <1>0, <1>7 DEF StoreToken, Continue, Goto
<1>8. ASSUME NEW w \in Worker, FindMonitor(w) PROVE OpsMatchPlaces'
  <2>1. /\ pc[w] = "findMonitor"
        /\ \/ tmQuit = None /\ Continue(w, "makeQuit")
           \/ tmQuit # None /\ Return(w)
           \/ tmQuit # None /\ Continue(w, "headers")
        /\ UNCHANGED <<token, serverVars, chanVars, monVars, owner, authErr, panicked>>
    BY <1>8 DEF FindMonitor, AfterLogin
  <2>2. CASE tmQuit = None /\ Continue(w, "makeQuit")
    BY <1>0, <2>1, <2>2 DEF Continue, Goto
  <2>3. CASE tmQuit # None /\ Return(w)
    BY <1>0, <2>1, <2>3 DEF Return, ReturnAll
  <2>4. CASE tmQuit # None /\ Continue(w, "headers")
    BY <1>0, <2>1, <2>4 DEF Continue, Goto
  <2> QED BY <2>1, <2>2, <2>3, <2>4
<1>9. ASSUME NEW w \in Worker, MakeQuit(w) PROVE OpsMatchPlaces'
  BY <1>0, <1>9 DEF MakeQuit, Continue, Goto
<1>10. ASSUME NEW w \in Worker, Launch(w) PROVE OpsMatchPlaces'
  <2>1. PICK m \in Monitor :
          /\ pc[w] = "launch" /\ mon[m] = "unborn"
          /\ mon' = [mon EXCEPT ![m] = "running"]
          /\ monQuit' = [monQuit EXCEPT ![m] = tmQuit]
          /\ Return(w) \/ Continue(w, "headers")
          /\ UNCHANGED <<token, serverVars, chanVars, owner, authErr, panicked>>
    BY <1>10 DEF Launch, AfterLogin
  <2>2. CASE Return(w)
    BY <1>0, <2>1, <2>2 DEF Return, ReturnAll
  <2>3. CASE Continue(w, "headers")
    BY <1>0, <2>1, <2>3 DEF Continue, Goto
  <2> QED BY <2>1, <2>2, <2>3
<1>11. ASSUME NEW w \in Worker, FindToken(w) PROVE OpsMatchPlaces'
  <2>1. pc[w] = "findToken" /\ (Return(w) \/ Continue(w, "logoutHttp"))
        /\ UNCHANGED <<token, serverVars, chanVars, monVars, owner, authErr, panicked>>
    BY <1>11 DEF FindToken
  <2>2. CASE Return(w)
    BY <1>0, <2>1, <2>2 DEF Return, ReturnAll
  <2>3. CASE Continue(w, "logoutHttp")
    BY <1>0, <2>1, <2>3 DEF Continue, Goto
  <2> QED BY <2>1, <2>2, <2>3
<1>12. ASSUME NEW w \in Worker, LogoutHttp(w) PROVE OpsMatchPlaces'
  BY <1>0, <1>12 DEF LogoutHttp, Continue, Goto
<1>13. ASSUME NEW w \in Worker, DropToken(w) PROVE OpsMatchPlaces'
  BY <1>0, <1>13 DEF DropToken, Continue, Goto
<1>14. ASSUME NEW w \in Worker, StopMonitor(w) PROVE OpsMatchPlaces'
  <2>1. /\ pc[w] = "stopMonitor"
        /\ \/ tmQuit = None /\ Return(w)
           \/ tmQuit # None /\ Continue(w, "closeQuit")
        /\ UNCHANGED <<token, serverVars, chanVars, monVars, owner, authErr, panicked>>
    BY <1>14 DEF StopMonitor
  <2>2. CASE tmQuit = None /\ Return(w)
    BY <1>0, <2>1, <2>2 DEF Return, ReturnAll
  <2>3. CASE tmQuit # None /\ Continue(w, "closeQuit")
    BY <1>0, <2>1, <2>3 DEF Continue, Goto
  <2> QED BY <2>1, <2>2, <2>3
<1>15. ASSUME NEW w \in Worker, CloseQuit(w) PROVE OpsMatchPlaces'
  BY <1>0, <1>15 DEF CloseQuit, Continue, Goto
<1>16. ASSUME NEW w \in Worker, ClearQuit(w) PROVE OpsMatchPlaces'
  BY <1>0, <1>16 DEF ClearQuit, Return, ReturnAll
<1>17. ASSUME NEW w \in App, StartLogin(w) PROVE OpsMatchPlaces'
  BY <1>0, <1>17 DEF StartLogin, AppStarts, MayStart, Start, Goto, Busy
<1>18. ASSUME NEW w \in App, StartLogout(w) PROVE OpsMatchPlaces'
  BY <1>0, <1>18 DEF StartLogout, AppStarts, MayStart, Start, Goto, Busy
<1>19. ASSUME NEW w \in App, StartCall(w) PROVE OpsMatchPlaces'
  BY <1>0, <1>19 DEF StartCall, AppStarts, MayStart, Start, Goto, Busy
<1>20. ASSUME NEW m \in Monitor, StartPoll(m) PROVE OpsMatchPlaces'
  BY <1>0, <1>20 DEF StartPoll, Start, Goto, Busy, Owes
<1>21. ASSUME NEW m \in Monitor, MonitorExits(m) PROVE OpsMatchPlaces'
  BY <1>0, <1>21 DEF MonitorExits
<1>22. ASSUME NEW w \in App, NEW m \in Monitor, TakeTask(w, m) PROVE OpsMatchPlaces'
  BY <1>0, <1>22 DEF TakeTask, Continue, Goto
<1>23. ASSUME Expire PROVE OpsMatchPlaces'
  BY <1>0, <1>23 DEF Expire
<1>24. CASE UNCHANGED vars
  BY <1>0, <1>24 DEF vars
<1> QED
  BY <1>1, <1>2, <1>3, <1>4, <1>5, <1>6, <1>7, <1>8, <1>9, <1>10, <1>11, <1>12, <1>13, <1>14,
     <1>15, <1>16, <1>17, <1>18, <1>19, <1>20, <1>21, <1>22, <1>23, <1>24
     DEF Next, WorkerStep, Step, Takes, Polls, Exits

\* ... leaves a logout alone, because the application does; ...
LEMMA KeepsAlone ==
  ASSUME LogoutAlone, SessionIInv, [Next]_vars PROVE LogoutIsAlone'
<1> USE MaxOpsAssumption, MaxMonitorAssumption, AppAssumption
    DEF serverVars, chanVars, monVars, localVars, None, Worker, Monitor, LogoutPc
<1>0. LocalTypes /\ TokenTypes /\ MonitorTypes /\ OpsMatchPlaces /\ LogoutIsAlone
  BY Parts DEF SessionIInv
<1> USE DEF LocalTypes, TokenTypes, MonitorTypes, Pc, OpsMatchPlaces, LogoutIsAlone
<1>1. ASSUME NEW w \in Worker, ReadHeaders(w) PROVE LogoutIsAlone'
  BY <1>0, <1>1 DEF ReadHeaders, Goto
<1>2. ASSUME NEW w \in Worker, Accepted(w) PROVE LogoutIsAlone'
  <2>1. CASE op[w] = "call" /\ Continue(w, "offer")
    BY <1>0, <1>2, <2>1 DEF Accepted, Continue, Goto
  <2>2. CASE op[w] = "call" /\ Return(w)
    BY <1>0, <1>2, <2>2 DEF Accepted, Return, ReturnAll
  <2>3. CASE op[w] = "poll" /\ ReturnAll({w} \cup Owes(w))
    BY <1>0, <1>2, <2>3 DEF Accepted, ReturnAll, Owes
  <2> QED BY <1>2, <2>1, <2>2, <2>3 DEF Accepted
<1>3. ASSUME NEW w \in Worker, Rejected(w) PROVE LogoutIsAlone'
  BY <1>0, <1>3 DEF Rejected, Return, ReturnAll
<1>4. ASSUME NEW w \in Worker, Relogin(w) PROVE LogoutIsAlone'
  BY <1>0, <1>4 DEF Relogin, Goto
<1>5. ASSUME NEW w \in Worker, LoginOk(w) PROVE LogoutIsAlone'
  BY <1>0, <1>5 DEF LoginOk, Goto
<1>6. ASSUME NEW w \in Worker, LoginFails(w) PROVE LogoutIsAlone'
  BY <1>0, <1>6 DEF LoginFails, Return, ReturnAll
<1>7. ASSUME NEW w \in Worker, StoreToken(w) PROVE LogoutIsAlone'
  BY <1>0, <1>7 DEF StoreToken, Continue, Goto
<1>8. ASSUME NEW w \in Worker, FindMonitor(w) PROVE LogoutIsAlone'
  <2>1. /\ pc[w] = "findMonitor"
        /\ \/ tmQuit = None /\ Continue(w, "makeQuit")
           \/ tmQuit # None /\ Return(w)
           \/ tmQuit # None /\ Continue(w, "headers")
        /\ UNCHANGED <<token, serverVars, chanVars, monVars, owner, authErr, panicked>>
    BY <1>8 DEF FindMonitor, AfterLogin
  <2>2. CASE tmQuit = None /\ Continue(w, "makeQuit")
    BY <1>0, <2>1, <2>2 DEF Continue, Goto
  <2>3. CASE tmQuit # None /\ Return(w)
    BY <1>0, <2>1, <2>3 DEF Return, ReturnAll
  <2>4. CASE tmQuit # None /\ Continue(w, "headers")
    BY <1>0, <2>1, <2>4 DEF Continue, Goto
  <2> QED BY <2>1, <2>2, <2>3, <2>4
<1>9. ASSUME NEW w \in Worker, MakeQuit(w) PROVE LogoutIsAlone'
  BY <1>0, <1>9 DEF MakeQuit, Continue, Goto
<1>10. ASSUME NEW w \in Worker, Launch(w) PROVE LogoutIsAlone'
  <2>1. PICK m \in Monitor :
          /\ pc[w] = "launch" /\ mon[m] = "unborn"
          /\ mon' = [mon EXCEPT ![m] = "running"]
          /\ monQuit' = [monQuit EXCEPT ![m] = tmQuit]
          /\ Return(w) \/ Continue(w, "headers")
          /\ UNCHANGED <<token, serverVars, chanVars, owner, authErr, panicked>>
    BY <1>10 DEF Launch, AfterLogin
  <2>2. CASE Return(w)
    BY <1>0, <2>1, <2>2 DEF Return, ReturnAll
  <2>3. CASE Continue(w, "headers")
    BY <1>0, <2>1, <2>3 DEF Continue, Goto
  <2> QED BY <2>1, <2>2, <2>3
<1>11. ASSUME NEW w \in Worker, FindToken(w) PROVE LogoutIsAlone'
  <2>1. pc[w] = "findToken" /\ (Return(w) \/ Continue(w, "logoutHttp"))
        /\ UNCHANGED <<token, serverVars, chanVars, monVars, owner, authErr, panicked>>
    BY <1>11 DEF FindToken
  <2>2. CASE Return(w)
    BY <1>0, <2>1, <2>2 DEF Return, ReturnAll
  <2>3. CASE Continue(w, "logoutHttp")
    BY <1>0, <2>1, <2>3 DEF Continue, Goto
  <2> QED BY <2>1, <2>2, <2>3
<1>12. ASSUME NEW w \in Worker, LogoutHttp(w) PROVE LogoutIsAlone'
  BY <1>0, <1>12 DEF LogoutHttp, Continue, Goto
<1>13. ASSUME NEW w \in Worker, DropToken(w) PROVE LogoutIsAlone'
  BY <1>0, <1>13 DEF DropToken, Continue, Goto
<1>14. ASSUME NEW w \in Worker, StopMonitor(w) PROVE LogoutIsAlone'
  <2>1. /\ pc[w] = "stopMonitor"
        /\ \/ tmQuit = None /\ Return(w)
           \/ tmQuit # None /\ Continue(w, "closeQuit")
        /\ UNCHANGED <<token, serverVars, chanVars, monVars, owner, authErr, panicked>>
    BY <1>14 DEF StopMonitor
  <2>2. CASE tmQuit = None /\ Return(w)
    BY <1>0, <2>1, <2>2 DEF Return, ReturnAll
  <2>3. CASE tmQuit # None /\ Continue(w, "closeQuit")
    BY <1>0, <2>1, <2>3 DEF Continue, Goto
  <2> QED BY <2>1, <2>2, <2>3
<1>15. ASSUME NEW w \in Worker, CloseQuit(w) PROVE LogoutIsAlone'
  BY <1>0, <1>15 DEF CloseQuit, Continue, Goto
<1>16. ASSUME NEW w \in Worker, ClearQuit(w) PROVE LogoutIsAlone'
  BY <1>0, <1>16 DEF ClearQuit, Return, ReturnAll
<1>17. ASSUME NEW w \in App, StartLogin(w) PROVE LogoutIsAlone'
  BY <1>0, <1>17 DEF StartLogin, AppStarts, MayStart, Start, Goto, Busy
<1>18. ASSUME NEW w \in App, StartLogout(w) PROVE LogoutIsAlone'
  BY <1>0, <1>18 DEF StartLogout, AppStarts, MayStart, Start, Goto, Busy
<1>19. ASSUME NEW w \in App, StartCall(w) PROVE LogoutIsAlone'
  BY <1>0, <1>19 DEF StartCall, AppStarts, MayStart, Start, Goto, Busy
<1>20. ASSUME NEW m \in Monitor, StartPoll(m) PROVE LogoutIsAlone'
  BY <1>0, <1>20 DEF StartPoll, Start, Goto, Busy, Owes
<1>21. ASSUME NEW m \in Monitor, MonitorExits(m) PROVE LogoutIsAlone'
  BY <1>0, <1>21 DEF MonitorExits
<1>22. ASSUME NEW w \in App, NEW m \in Monitor, TakeTask(w, m) PROVE LogoutIsAlone'
  BY <1>0, <1>22 DEF TakeTask, Continue, Goto
<1>23. ASSUME Expire PROVE LogoutIsAlone'
  BY <1>0, <1>23 DEF Expire
<1>24. CASE UNCHANGED vars
  BY <1>0, <1>24 DEF vars
<1> QED
  BY <1>1, <1>2, <1>3, <1>4, <1>5, <1>6, <1>7, <1>8, <1>9, <1>10, <1>11, <1>12, <1>13, <1>14,
     <1>15, <1>16, <1>17, <1>18, <1>19, <1>20, <1>21, <1>22, <1>23, <1>24
     DEF Next, WorkerStep, Step, Takes, Polls, Exits

\* ... keeps the token from store to logout; ...
LEMMA KeepsToken ==
  ASSUME LogoutAlone, SessionIInv, [Next]_vars PROVE TokenStored'
<1> USE MaxOpsAssumption, MaxMonitorAssumption, AppAssumption
    DEF serverVars, chanVars, monVars, localVars, None, Worker, Monitor, LogoutPc
<1>0. LocalTypes /\ TokenTypes /\ MonitorTypes /\ OpsMatchPlaces /\ LogoutIsAlone /\ TokenStored
  BY Parts DEF SessionIInv
<1> USE DEF LocalTypes, TokenTypes, MonitorTypes, Pc, OpsMatchPlaces, LogoutIsAlone, TokenStored
<1>1. ASSUME NEW w \in Worker, ReadHeaders(w) PROVE TokenStored'
  BY <1>0, <1>1 DEF ReadHeaders, Goto
<1>2. ASSUME NEW w \in Worker, Accepted(w) PROVE TokenStored'
  <2>1. CASE op[w] = "call" /\ Continue(w, "offer")
    BY <1>0, <1>2, <2>1 DEF Accepted, Continue, Goto
  <2>2. CASE op[w] = "call" /\ Return(w)
    BY <1>0, <1>2, <2>2 DEF Accepted, Return, ReturnAll
  <2>3. CASE op[w] = "poll" /\ ReturnAll({w} \cup Owes(w))
    BY <1>0, <1>2, <2>3 DEF Accepted, ReturnAll, Owes
  <2> QED BY <1>2, <2>1, <2>2, <2>3 DEF Accepted
<1>3. ASSUME NEW w \in Worker, Rejected(w) PROVE TokenStored'
  BY <1>0, <1>3 DEF Rejected, Return, ReturnAll
<1>4. ASSUME NEW w \in Worker, Relogin(w) PROVE TokenStored'
  BY <1>0, <1>4 DEF Relogin, Goto
<1>5. ASSUME NEW w \in Worker, LoginOk(w) PROVE TokenStored'
  BY <1>0, <1>5 DEF LoginOk, Goto
<1>6. ASSUME NEW w \in Worker, LoginFails(w) PROVE TokenStored'
  BY <1>0, <1>6 DEF LoginFails, Return, ReturnAll
<1>7. ASSUME NEW w \in Worker, StoreToken(w) PROVE TokenStored'
  BY <1>0, <1>7 DEF StoreToken, Continue, Goto
<1>8. ASSUME NEW w \in Worker, FindMonitor(w) PROVE TokenStored'
  <2>1. /\ pc[w] = "findMonitor"
        /\ \/ tmQuit = None /\ Continue(w, "makeQuit")
           \/ tmQuit # None /\ Return(w)
           \/ tmQuit # None /\ Continue(w, "headers")
        /\ UNCHANGED <<token, serverVars, chanVars, monVars, owner, authErr, panicked>>
    BY <1>8 DEF FindMonitor, AfterLogin
  <2>2. CASE tmQuit = None /\ Continue(w, "makeQuit")
    BY <1>0, <2>1, <2>2 DEF Continue, Goto
  <2>3. CASE tmQuit # None /\ Return(w)
    BY <1>0, <2>1, <2>3 DEF Return, ReturnAll
  <2>4. CASE tmQuit # None /\ Continue(w, "headers")
    BY <1>0, <2>1, <2>4 DEF Continue, Goto
  <2> QED BY <2>1, <2>2, <2>3, <2>4
<1>9. ASSUME NEW w \in Worker, MakeQuit(w) PROVE TokenStored'
  BY <1>0, <1>9 DEF MakeQuit, Continue, Goto
<1>10. ASSUME NEW w \in Worker, Launch(w) PROVE TokenStored'
  <2>1. PICK m \in Monitor :
          /\ pc[w] = "launch" /\ mon[m] = "unborn"
          /\ mon' = [mon EXCEPT ![m] = "running"]
          /\ monQuit' = [monQuit EXCEPT ![m] = tmQuit]
          /\ Return(w) \/ Continue(w, "headers")
          /\ UNCHANGED <<token, serverVars, chanVars, owner, authErr, panicked>>
    BY <1>10 DEF Launch, AfterLogin
  <2>2. CASE Return(w)
    BY <1>0, <2>1, <2>2 DEF Return, ReturnAll
  <2>3. CASE Continue(w, "headers")
    BY <1>0, <2>1, <2>3 DEF Continue, Goto
  <2> QED BY <2>1, <2>2, <2>3
<1>11. ASSUME NEW w \in Worker, FindToken(w) PROVE TokenStored'
  <2>1. pc[w] = "findToken" /\ (Return(w) \/ Continue(w, "logoutHttp"))
        /\ UNCHANGED <<token, serverVars, chanVars, monVars, owner, authErr, panicked>>
    BY <1>11 DEF FindToken
  <2>2. CASE Return(w)
    BY <1>0, <2>1, <2>2 DEF Return, ReturnAll
  <2>3. CASE Continue(w, "logoutHttp")
    BY <1>0, <2>1, <2>3 DEF Continue, Goto
  <2> QED BY <2>1, <2>2, <2>3
<1>12. ASSUME NEW w \in Worker, LogoutHttp(w) PROVE TokenStored'
  BY <1>0, <1>12 DEF LogoutHttp, Continue, Goto
<1>13. ASSUME NEW w \in Worker, DropToken(w) PROVE TokenStored'
  BY <1>0, <1>13 DEF DropToken, Continue, Goto
<1>14. ASSUME NEW w \in Worker, StopMonitor(w) PROVE TokenStored'
  <2>1. /\ pc[w] = "stopMonitor"
        /\ \/ tmQuit = None /\ Return(w)
           \/ tmQuit # None /\ Continue(w, "closeQuit")
        /\ UNCHANGED <<token, serverVars, chanVars, monVars, owner, authErr, panicked>>
    BY <1>14 DEF StopMonitor
  <2>2. CASE tmQuit = None /\ Return(w)
    BY <1>0, <2>1, <2>2 DEF Return, ReturnAll
  <2>3. CASE tmQuit # None /\ Continue(w, "closeQuit")
    BY <1>0, <2>1, <2>3 DEF Continue, Goto
  <2> QED BY <2>1, <2>2, <2>3
<1>15. ASSUME NEW w \in Worker, CloseQuit(w) PROVE TokenStored'
  BY <1>0, <1>15 DEF CloseQuit, Continue, Goto
<1>16. ASSUME NEW w \in Worker, ClearQuit(w) PROVE TokenStored'
  BY <1>0, <1>16 DEF ClearQuit, Return, ReturnAll
<1>17. ASSUME NEW w \in App, StartLogin(w) PROVE TokenStored'
  BY <1>0, <1>17 DEF StartLogin, AppStarts, MayStart, Start, Goto, Busy
<1>18. ASSUME NEW w \in App, StartLogout(w) PROVE TokenStored'
  BY <1>0, <1>18 DEF StartLogout, AppStarts, MayStart, Start, Goto, Busy
<1>19. ASSUME NEW w \in App, StartCall(w) PROVE TokenStored'
  BY <1>0, <1>19 DEF StartCall, AppStarts, MayStart, Start, Goto, Busy
<1>20. ASSUME NEW m \in Monitor, StartPoll(m) PROVE TokenStored'
  BY <1>0, <1>20 DEF StartPoll, Start, Goto, Busy, Owes
<1>21. ASSUME NEW m \in Monitor, MonitorExits(m) PROVE TokenStored'
  BY <1>0, <1>21 DEF MonitorExits
<1>22. ASSUME NEW w \in App, NEW m \in Monitor, TakeTask(w, m) PROVE TokenStored'
  BY <1>0, <1>22 DEF TakeTask, Continue, Goto
<1>23. ASSUME Expire PROVE TokenStored'
  BY <1>0, <1>23 DEF Expire
<1>24. CASE UNCHANGED vars
  BY <1>0, <1>24 DEF vars
<1> QED
  BY <1>1, <1>2, <1>3, <1>4, <1>5, <1>6, <1>7, <1>8, <1>9, <1>10, <1>11, <1>12, <1>13, <1>14,
     <1>15, <1>16, <1>17, <1>18, <1>19, <1>20, <1>21, <1>22, <1>23, <1>24
     DEF Next, WorkerStep, Step, Takes, Polls, Exits

\* ... keeps an open channel and a monitor for it; ...
LEMMA KeepsChannel ==
  ASSUME LogoutAlone, SessionIInv, [Next]_vars PROVE ChannelHeld'
<1> USE MaxOpsAssumption, MaxMonitorAssumption, AppAssumption
    DEF serverVars, chanVars, monVars, localVars, None, Worker, Monitor, LogoutPc
<1>0. LocalTypes /\ TokenTypes /\ MonitorTypes /\ LogoutIsAlone /\ TokenStored /\ ChannelHeld
  BY Parts DEF SessionIInv
<1> USE DEF LocalTypes, TokenTypes, MonitorTypes, Pc, LogoutIsAlone, TokenStored, ChannelHeld
<1>1. ASSUME NEW w \in Worker, ReadHeaders(w) PROVE ChannelHeld'
  BY <1>0, <1>1 DEF ReadHeaders, Goto
<1>2. ASSUME NEW w \in Worker, Accepted(w) PROVE ChannelHeld'
  <2>1. CASE op[w] = "call" /\ Continue(w, "offer")
    BY <1>0, <1>2, <2>1 DEF Accepted, Continue, Goto
  <2>2. CASE op[w] = "call" /\ Return(w)
    BY <1>0, <1>2, <2>2 DEF Accepted, Return, ReturnAll
  <2>3. CASE op[w] = "poll" /\ ReturnAll({w} \cup Owes(w))
    BY <1>0, <1>2, <2>3 DEF Accepted, ReturnAll, Owes
  <2> QED BY <1>2, <2>1, <2>2, <2>3 DEF Accepted
<1>3. ASSUME NEW w \in Worker, Rejected(w) PROVE ChannelHeld'
  BY <1>0, <1>3 DEF Rejected, Return, ReturnAll
<1>4. ASSUME NEW w \in Worker, Relogin(w) PROVE ChannelHeld'
  BY <1>0, <1>4 DEF Relogin, Goto
<1>5. ASSUME NEW w \in Worker, LoginOk(w) PROVE ChannelHeld'
  BY <1>0, <1>5 DEF LoginOk, Goto
<1>6. ASSUME NEW w \in Worker, LoginFails(w) PROVE ChannelHeld'
  BY <1>0, <1>6 DEF LoginFails, Return, ReturnAll
<1>7. ASSUME NEW w \in Worker, StoreToken(w) PROVE ChannelHeld'
  BY <1>0, <1>7 DEF StoreToken, Continue, Goto
<1>8. ASSUME NEW w \in Worker, FindMonitor(w) PROVE ChannelHeld'
  <2>1. /\ pc[w] = "findMonitor"
        /\ \/ tmQuit = None /\ Continue(w, "makeQuit")
           \/ tmQuit # None /\ Return(w)
           \/ tmQuit # None /\ Continue(w, "headers")
        /\ UNCHANGED <<token, serverVars, chanVars, monVars, owner, authErr, panicked>>
    BY <1>8 DEF FindMonitor, AfterLogin
  <2>2. CASE tmQuit = None /\ Continue(w, "makeQuit")
    BY <1>0, <2>1, <2>2 DEF Continue, Goto
  <2>3. CASE tmQuit # None /\ Return(w)
    BY <1>0, <2>1, <2>3 DEF Return, ReturnAll
  <2>4. CASE tmQuit # None /\ Continue(w, "headers")
    BY <1>0, <2>1, <2>4 DEF Continue, Goto
  <2> QED BY <2>1, <2>2, <2>3, <2>4
<1>9. ASSUME NEW w \in Worker, MakeQuit(w) PROVE ChannelHeld'
  BY <1>0, <1>9 DEF MakeQuit, Continue, Goto
<1>10. ASSUME NEW w \in Worker, Launch(w) PROVE ChannelHeld'
  <2>1. PICK m \in Monitor :
          /\ pc[w] = "launch" /\ mon[m] = "unborn"
          /\ mon' = [mon EXCEPT ![m] = "running"]
          /\ monQuit' = [monQuit EXCEPT ![m] = tmQuit]
          /\ Return(w) \/ Continue(w, "headers")
          /\ UNCHANGED <<token, serverVars, chanVars, owner, authErr, panicked>>
    BY <1>10 DEF Launch, AfterLogin
  <2>2. CASE Return(w)
    BY <1>0, <2>1, <2>2 DEF Return, ReturnAll
  <2>3. CASE Continue(w, "headers")
    BY <1>0, <2>1, <2>3 DEF Continue, Goto
  <2> QED BY <2>1, <2>2, <2>3
<1>11. ASSUME NEW w \in Worker, FindToken(w) PROVE ChannelHeld'
  <2>1. pc[w] = "findToken" /\ (Return(w) \/ Continue(w, "logoutHttp"))
        /\ UNCHANGED <<token, serverVars, chanVars, monVars, owner, authErr, panicked>>
    BY <1>11 DEF FindToken
  <2>2. CASE Return(w)
    BY <1>0, <2>1, <2>2 DEF Return, ReturnAll
  <2>3. CASE Continue(w, "logoutHttp")
    BY <1>0, <2>1, <2>3 DEF Continue, Goto
  <2> QED BY <2>1, <2>2, <2>3
<1>12. ASSUME NEW w \in Worker, LogoutHttp(w) PROVE ChannelHeld'
  BY <1>0, <1>12 DEF LogoutHttp, Continue, Goto
<1>13. ASSUME NEW w \in Worker, DropToken(w) PROVE ChannelHeld'
  BY <1>0, <1>13 DEF DropToken, Continue, Goto
<1>14. ASSUME NEW w \in Worker, StopMonitor(w) PROVE ChannelHeld'
  <2>1. /\ pc[w] = "stopMonitor"
        /\ \/ tmQuit = None /\ Return(w)
           \/ tmQuit # None /\ Continue(w, "closeQuit")
        /\ UNCHANGED <<token, serverVars, chanVars, monVars, owner, authErr, panicked>>
    BY <1>14 DEF StopMonitor
  <2>2. CASE tmQuit = None /\ Return(w)
    BY <1>0, <2>1, <2>2 DEF Return, ReturnAll
  <2>3. CASE tmQuit # None /\ Continue(w, "closeQuit")
    BY <1>0, <2>1, <2>3 DEF Continue, Goto
  <2> QED BY <2>1, <2>2, <2>3
<1>15. ASSUME NEW w \in Worker, CloseQuit(w) PROVE ChannelHeld'
  BY <1>0, <1>15 DEF CloseQuit, Continue, Goto
<1>16. ASSUME NEW w \in Worker, ClearQuit(w) PROVE ChannelHeld'
  BY <1>0, <1>16 DEF ClearQuit, Return, ReturnAll
<1>17. ASSUME NEW w \in App, StartLogin(w) PROVE ChannelHeld'
  BY <1>0, <1>17 DEF StartLogin, AppStarts, MayStart, Start, Goto, Busy
<1>18. ASSUME NEW w \in App, StartLogout(w) PROVE ChannelHeld'
  BY <1>0, <1>18 DEF StartLogout, AppStarts, MayStart, Start, Goto, Busy
<1>19. ASSUME NEW w \in App, StartCall(w) PROVE ChannelHeld'
  BY <1>0, <1>19 DEF StartCall, AppStarts, MayStart, Start, Goto, Busy
<1>20. ASSUME NEW m \in Monitor, StartPoll(m) PROVE ChannelHeld'
  BY <1>0, <1>20 DEF StartPoll, Start, Goto, Busy, Owes
<1>21. ASSUME NEW m \in Monitor, MonitorExits(m) PROVE ChannelHeld'
  BY <1>0, <1>21 DEF MonitorExits
<1>22. ASSUME NEW w \in App, NEW m \in Monitor, TakeTask(w, m) PROVE ChannelHeld'
  BY <1>0, <1>22 DEF TakeTask, Continue, Goto
<1>23. ASSUME Expire PROVE ChannelHeld'
  BY <1>0, <1>23 DEF Expire
<1>24. CASE UNCHANGED vars
  BY <1>0, <1>24 DEF vars
<1> QED
  BY <1>1, <1>2, <1>3, <1>4, <1>5, <1>6, <1>7, <1>8, <1>9, <1>10, <1>11, <1>12, <1>13, <1>14,
     <1>15, <1>16, <1>17, <1>18, <1>19, <1>20, <1>21, <1>22, <1>23, <1>24
     DEF Next, WorkerStep, Step, Takes, Polls, Exits

\* ... and keeps the token one that the server accepts.
LEMMA KeepsLive ==
  ASSUME LogoutAlone, SessionIInv, [Next]_vars PROVE TokensLive'
<1> USE MaxOpsAssumption, MaxMonitorAssumption, AppAssumption
    DEF serverVars, chanVars, monVars, localVars, None, Worker, Monitor, LogoutPc
<1>0. LocalTypes /\ TokenTypes /\ MonitorTypes /\ LogoutIsAlone /\ TokenStored /\ TokensLive
  BY Parts DEF SessionIInv
<1> USE DEF LocalTypes, TokenTypes, MonitorTypes, Pc, LogoutIsAlone, TokenStored, TokensLive
<1>1. ASSUME NEW w \in Worker, ReadHeaders(w) PROVE TokensLive'
  BY <1>0, <1>1 DEF ReadHeaders, Goto
<1>2. ASSUME NEW w \in Worker, Accepted(w) PROVE TokensLive'
  <2>1. CASE op[w] = "call" /\ Continue(w, "offer")
    BY <1>0, <1>2, <2>1 DEF Accepted, Continue, Goto
  <2>2. CASE op[w] = "call" /\ Return(w)
    BY <1>0, <1>2, <2>2 DEF Accepted, Return, ReturnAll
  <2>3. CASE op[w] = "poll" /\ ReturnAll({w} \cup Owes(w))
    BY <1>0, <1>2, <2>3 DEF Accepted, ReturnAll, Owes
  <2> QED BY <1>2, <2>1, <2>2, <2>3 DEF Accepted
<1>3. ASSUME NEW w \in Worker, Rejected(w) PROVE TokensLive'
  BY <1>0, <1>3 DEF Rejected, Return, ReturnAll
<1>4. ASSUME NEW w \in Worker, Relogin(w) PROVE TokensLive'
  BY <1>0, <1>4 DEF Relogin, Goto
<1>5. ASSUME NEW w \in Worker, LoginOk(w) PROVE TokensLive'
  BY <1>0, <1>5 DEF LoginOk, Goto
<1>6. ASSUME NEW w \in Worker, LoginFails(w) PROVE TokensLive'
  BY <1>0, <1>6 DEF LoginFails, Return, ReturnAll
<1>7. ASSUME NEW w \in Worker, StoreToken(w) PROVE TokensLive'
  BY <1>0, <1>7 DEF StoreToken, Continue, Goto
<1>8. ASSUME NEW w \in Worker, FindMonitor(w) PROVE TokensLive'
  <2>1. /\ pc[w] = "findMonitor"
        /\ \/ tmQuit = None /\ Continue(w, "makeQuit")
           \/ tmQuit # None /\ Return(w)
           \/ tmQuit # None /\ Continue(w, "headers")
        /\ UNCHANGED <<token, serverVars, chanVars, monVars, owner, authErr, panicked>>
    BY <1>8 DEF FindMonitor, AfterLogin
  <2>2. CASE tmQuit = None /\ Continue(w, "makeQuit")
    BY <1>0, <2>1, <2>2 DEF Continue, Goto
  <2>3. CASE tmQuit # None /\ Return(w)
    BY <1>0, <2>1, <2>3 DEF Return, ReturnAll
  <2>4. CASE tmQuit # None /\ Continue(w, "headers")
    BY <1>0, <2>1, <2>4 DEF Continue, Goto
  <2> QED BY <2>1, <2>2, <2>3, <2>4
<1>9. ASSUME NEW w \in Worker, MakeQuit(w) PROVE TokensLive'
  BY <1>0, <1>9 DEF MakeQuit, Continue, Goto
<1>10. ASSUME NEW w \in Worker, Launch(w) PROVE TokensLive'
  <2>1. PICK m \in Monitor :
          /\ pc[w] = "launch" /\ mon[m] = "unborn"
          /\ mon' = [mon EXCEPT ![m] = "running"]
          /\ monQuit' = [monQuit EXCEPT ![m] = tmQuit]
          /\ Return(w) \/ Continue(w, "headers")
          /\ UNCHANGED <<token, serverVars, chanVars, owner, authErr, panicked>>
    BY <1>10 DEF Launch, AfterLogin
  <2>2. CASE Return(w)
    BY <1>0, <2>1, <2>2 DEF Return, ReturnAll
  <2>3. CASE Continue(w, "headers")
    BY <1>0, <2>1, <2>3 DEF Continue, Goto
  <2> QED BY <2>1, <2>2, <2>3
<1>11. ASSUME NEW w \in Worker, FindToken(w) PROVE TokensLive'
  <2>1. pc[w] = "findToken" /\ (Return(w) \/ Continue(w, "logoutHttp"))
        /\ UNCHANGED <<token, serverVars, chanVars, monVars, owner, authErr, panicked>>
    BY <1>11 DEF FindToken
  <2>2. CASE Return(w)
    BY <1>0, <2>1, <2>2 DEF Return, ReturnAll
  <2>3. CASE Continue(w, "logoutHttp")
    BY <1>0, <2>1, <2>3 DEF Continue, Goto
  <2> QED BY <2>1, <2>2, <2>3
<1>12. ASSUME NEW w \in Worker, LogoutHttp(w) PROVE TokensLive'
  BY <1>0, <1>12 DEF LogoutHttp, Continue, Goto
<1>13. ASSUME NEW w \in Worker, DropToken(w) PROVE TokensLive'
  BY <1>0, <1>13 DEF DropToken, Continue, Goto
<1>14. ASSUME NEW w \in Worker, StopMonitor(w) PROVE TokensLive'
  <2>1. /\ pc[w] = "stopMonitor"
        /\ \/ tmQuit = None /\ Return(w)
           \/ tmQuit # None /\ Continue(w, "closeQuit")
        /\ UNCHANGED <<token, serverVars, chanVars, monVars, owner, authErr, panicked>>
    BY <1>14 DEF StopMonitor
  <2>2. CASE tmQuit = None /\ Return(w)
    BY <1>0, <2>1, <2>2 DEF Return, ReturnAll
  <2>3. CASE tmQuit # None /\ Continue(w, "closeQuit")
    BY <1>0, <2>1, <2>3 DEF Continue, Goto
  <2> QED BY <2>1, <2>2, <2>3
<1>15. ASSUME NEW w \in Worker, CloseQuit(w) PROVE TokensLive'
  BY <1>0, <1>15 DEF CloseQuit, Continue, Goto
<1>16. ASSUME NEW w \in Worker, ClearQuit(w) PROVE TokensLive'
  BY <1>0, <1>16 DEF ClearQuit, Return, ReturnAll
<1>17. ASSUME NEW w \in App, StartLogin(w) PROVE TokensLive'
  BY <1>0, <1>17 DEF StartLogin, AppStarts, MayStart, Start, Goto, Busy
<1>18. ASSUME NEW w \in App, StartLogout(w) PROVE TokensLive'
  BY <1>0, <1>18 DEF StartLogout, AppStarts, MayStart, Start, Goto, Busy
<1>19. ASSUME NEW w \in App, StartCall(w) PROVE TokensLive'
  BY <1>0, <1>19 DEF StartCall, AppStarts, MayStart, Start, Goto, Busy
<1>20. ASSUME NEW m \in Monitor, StartPoll(m) PROVE TokensLive'
  BY <1>0, <1>20 DEF StartPoll, Start, Goto, Busy, Owes
<1>21. ASSUME NEW m \in Monitor, MonitorExits(m) PROVE TokensLive'
  BY <1>0, <1>21 DEF MonitorExits
<1>22. ASSUME NEW w \in App, NEW m \in Monitor, TakeTask(w, m) PROVE TokensLive'
  BY <1>0, <1>22 DEF TakeTask, Continue, Goto
<1>23. ASSUME Expire PROVE TokensLive'
  BY <1>0, <1>23 DEF Expire
<1>24. CASE UNCHANGED vars
  BY <1>0, <1>24 DEF vars
<1> QED
  BY <1>1, <1>2, <1>3, <1>4, <1>5, <1>6, <1>7, <1>8, <1>9, <1>10, <1>11, <1>12, <1>13, <1>14,
     <1>15, <1>16, <1>17, <1>18, <1>19, <1>20, <1>21, <1>22, <1>23, <1>24
     DEF Next, WorkerStep, Step, Takes, Polls, Exits

LEMMA SessionInitially == Init => SessionIInv
<1> SUFFICES ASSUME Init PROVE SessionIInv
  OBVIOUS
<1> USE AppAssumption DEF Init, None, LogoutPc
<1>1. TypeOK
  BY InitiallyTyped
<1>2. OpsMatchPlaces /\ LogoutIsAlone
  BY DEF OpsMatchPlaces, LogoutIsAlone, Worker
<1>3. TokenStored /\ ChannelHeld
  BY DEF TokenStored, ChannelHeld
<1>4. TokensLive
  BY DEF TokensLive
<1> QED BY <1>1, <1>2, <1>3, <1>4 DEF SessionIInv

\* SessionIInv holds in every state of a client that logs out alone.
THEOREM SessionInvariant == ASSUME LogoutAlone PROVE Spec => []SessionIInv
<1>1. SessionIInv /\ [Next]_vars => SessionIInv'
  <2> SUFFICES ASSUME SessionIInv, [Next]_vars PROVE SessionIInv'
    OBVIOUS
  <2>1. TypeOK'
    BY TypesKept DEF SessionIInv
  <2> QED
    BY <2>1, KeepsPlaces, KeepsAlone, KeepsToken, KeepsChannel, KeepsLive DEF SessionIInv
<1> QED BY <1>1, SessionInitially, PTL DEF Spec

\* A token means that a monitor serves asynchronous calls (api_user.go 76-78).
THEOREM TokenMeansMonitorHolds == ASSUME LogoutAlone PROVE Spec => []TokenMeansMonitor
<1>1. SessionIInv => TokenMeansMonitor
  BY DEF SessionIInv, ChannelHeld, TokenMeansMonitor, Settled, Serving, None
<1> QED BY <1>1, SessionInvariant, PTL

\* Logout lets go of the channel, so that the next login starts a monitor (api_user.go 84-93).
THEOREM NoTokenNoChannelHolds == ASSUME LogoutAlone PROVE Spec => []NoTokenNoChannel
<1>1. SessionIInv => NoTokenNoChannel
  BY DEF SessionIInv, ChannelHeld, NoTokenNoChannel, Settled
<1> QED BY <1>1, SessionInvariant, PTL

\* stopTaskMonitor closes no channel twice and never the nil channel (api_user.go 84-93).
THEOREM NeverPanics == ASSUME LogoutAlone PROVE Spec => []NoPanic
<1>1. SessionIInv => NoPanic
  BY DEF SessionIInv, ChannelHeld, NoPanic
<1> QED BY <1>1, SessionInvariant, PTL

\* While the server keeps its tokens, no call ends with HTTP 401 (talk_to_apstra.go).
THEOREM RetryIsEnough == ASSUME LogoutAlone PROVE Spec => []NoAuthErrWhileTokensLive
<1>1. SessionIInv => NoAuthErrWhileTokensLive
  BY DEF SessionIInv, TokensLive, NoAuthErrWhileTokensLive, TypeOK
<1> QED BY <1>1, SessionInvariant, PTL

-----------------------------------------------------------------------------
(* What EveryCallReturns says short of time: no call is left where nobody  *)
(* will ever answer it.                                                    *)

\* A request that carries a token, and a call that offers its task, were given it by a
\* session that goes on; the monitor that took a task runs until it has answered.
OwnersRun ==
  /\ \A w \in Worker : pc[w] = "offer" \/ (pc[w] = "http" /\ sent[w] # None) => token # None
  /\ \A w \in App : pc[w] = "wait" => owner[w] \in Monitor /\ mon[owner[w]] = "running"

\* A call that offers its task finds a monitor that listens, or a worker that is about to
\* launch one; a call that waits is waited for.
CallsAreServed ==
  \A w \in App :
    /\ pc[w] = "offer" => \/ \E m \in Monitor : Serving(m)
                         \/ \E v \in Worker : pc[v] \in {"findMonitor", "makeQuit", "launch"}
    /\ pc[w] = "wait" => \E m \in Monitor : mon[m] = "running" /\ w \in Owes(m)

\* No step leaves a call behind: a monitor exits when it owes nothing, and a logout begins
\* when nobody has a request under way.
LEMMA KeepsServed ==
  ASSUME LogoutAlone, SessionIInv, OwnersRun, [Next]_vars PROVE OwnersRun'
<1> USE MaxOpsAssumption, MaxMonitorAssumption, AppAssumption
    DEF serverVars, chanVars, monVars, localVars, None, Worker, Monitor, LogoutPc
<1>0. LocalTypes /\ TokenTypes /\ MonitorTypes /\ LogoutIsAlone /\ TokenStored /\ OwnersRun
  BY Parts DEF SessionIInv
<1> USE DEF LocalTypes, TokenTypes, MonitorTypes, Pc, LogoutIsAlone, TokenStored, OwnersRun
<1>1. ASSUME NEW w \in Worker, ReadHeaders(w) PROVE OwnersRun'
  BY <1>0, <1>1 DEF ReadHeaders, Goto
<1>2. ASSUME NEW w \in Worker, Accepted(w) PROVE OwnersRun'
  <2>1. CASE op[w] = "call" /\ Continue(w, "offer")
    BY <1>0, <1>2, <2>1 DEF Accepted, Continue, Goto
  <2>2. CASE op[w] = "call" /\ Return(w)
    BY <1>0, <1>2, <2>2 DEF Accepted, Return, ReturnAll
  <2>3. CASE op[w] = "poll" /\ ReturnAll({w} \cup Owes(w))
    BY <1>0, <1>2, <2>3 DEF Accepted, ReturnAll, Owes
  <2> QED BY <1>2, <2>1, <2>2, <2>3 DEF Accepted
<1>3. ASSUME NEW w \in Worker, Rejected(w) PROVE OwnersRun'
  BY <1>0, <1>3 DEF Rejected, Return, ReturnAll
<1>4. ASSUME NEW w \in Worker, Relogin(w) PROVE OwnersRun'
  BY <1>0, <1>4 DEF Relogin, Goto
<1>5. ASSUME NEW w \in Worker, LoginOk(w) PROVE OwnersRun'
  BY <1>0, <1>5 DEF LoginOk, Goto
<1>6. ASSUME NEW w \in Worker, LoginFails(w) PROVE OwnersRun'
  BY <1>0, <1>6 DEF LoginFails, Return, ReturnAll
<1>7. ASSUME NEW w \in Worker, StoreToken(w) PROVE OwnersRun'
  BY <1>0, <1>7 DEF StoreToken, Continue, Goto
<1>8. ASSUME NEW w \in Worker, FindMonitor(w) PROVE OwnersRun'
  <2>1. /\ pc[w] = "findMonitor"
        /\ \/ tmQuit = None /\ Continue(w, "makeQuit")
           \/ tmQuit # None /\ Return(w)
           \/ tmQuit # None /\ Continue(w, "headers")
        /\ UNCHANGED <<token, serverVars, chanVars, monVars, owner, authErr, panicked>>
    BY <1>8 DEF FindMonitor, AfterLogin
  <2>2. CASE tmQuit = None /\ Continue(w, "makeQuit")
    BY <1>0, <2>1, <2>2 DEF Continue, Goto
  <2>3. CASE tmQuit # None /\ Return(w)
    BY <1>0, <2>1, <2>3 DEF Return, ReturnAll
  <2>4. CASE tmQuit # None /\ Continue(w, "headers")
    BY <1>0, <2>1, <2>4 DEF Continue, Goto
  <2> QED BY <2>1, <2>2, <2>3, <2>4
<1>9. ASSUME NEW w \in Worker, MakeQuit(w) PROVE OwnersRun'
  BY <1>0, <1>9 DEF MakeQuit, Continue, Goto
<1>10. ASSUME NEW w \in Worker, Launch(w) PROVE OwnersRun'
  <2>1. PICK m \in Monitor :
          /\ pc[w] = "launch" /\ mon[m] = "unborn"
          /\ mon' = [mon EXCEPT ![m] = "running"]
          /\ monQuit' = [monQuit EXCEPT ![m] = tmQuit]
          /\ Return(w) \/ Continue(w, "headers")
          /\ UNCHANGED <<token, serverVars, chanVars, owner, authErr, panicked>>
    BY <1>10 DEF Launch, AfterLogin
  <2>2. CASE Return(w)
    BY <1>0, <2>1, <2>2 DEF Return, ReturnAll
  <2>3. CASE Continue(w, "headers")
    BY <1>0, <2>1, <2>3 DEF Continue, Goto
  <2> QED BY <2>1, <2>2, <2>3
<1>11. ASSUME NEW w \in Worker, FindToken(w) PROVE OwnersRun'
  <2>1. pc[w] = "findToken" /\ (Return(w) \/ Continue(w, "logoutHttp"))
        /\ UNCHANGED <<token, serverVars, chanVars, monVars, owner, authErr, panicked>>
    BY <1>11 DEF FindToken
  <2>2. CASE Return(w)
    BY <1>0, <2>1, <2>2 DEF Return, ReturnAll
  <2>3. CASE Continue(w, "logoutHttp")
    BY <1>0, <2>1, <2>3 DEF Continue, Goto
  <2> QED BY <2>1, <2>2, <2>3
<1>12. ASSUME NEW w \in Worker, LogoutHttp(w) PROVE OwnersRun'
  BY <1>0, <1>12 DEF LogoutHttp, Continue, Goto
<1>13. ASSUME NEW w \in Worker, DropToken(w) PROVE OwnersRun'
  BY <1>0, <1>13 DEF DropToken, Continue, Goto
<1>14. ASSUME NEW w \in Worker, StopMonitor(w) PROVE OwnersRun'
  <2>1. /\ pc[w] = "stopMonitor"
        /\ \/ tmQuit = None /\ Return(w)
           \/ tmQuit # None /\ Continue(w, "closeQuit")
        /\ UNCHANGED <<token, serverVars, chanVars, monVars, owner, authErr, panicked>>
    BY <1>14 DEF StopMonitor
  <2>2. CASE tmQuit = None /\ Return(w)
    BY <1>0, <2>1, <2>2 DEF Return, ReturnAll
  <2>3. CASE tmQuit # None /\ Continue(w, "closeQuit")
    BY <1>0, <2>1, <2>3 DEF Continue, Goto
  <2> QED BY <2>1, <2>2, <2>3
<1>15. ASSUME NEW w \in Worker, CloseQuit(w) PROVE OwnersRun'
  BY <1>0, <1>15 DEF CloseQuit, Continue, Goto
<1>16. ASSUME NEW w \in Worker, ClearQuit(w) PROVE OwnersRun'
  BY <1>0, <1>16 DEF ClearQuit, Return, ReturnAll
<1>17. ASSUME NEW w \in App, StartLogin(w) PROVE OwnersRun'
  BY <1>0, <1>17 DEF StartLogin, AppStarts, MayStart, Start, Goto, Busy
<1>18. ASSUME NEW w \in App, StartLogout(w) PROVE OwnersRun'
  BY <1>0, <1>18 DEF StartLogout, AppStarts, MayStart, Start, Goto, Busy
<1>19. ASSUME NEW w \in App, StartCall(w) PROVE OwnersRun'
  BY <1>0, <1>19 DEF StartCall, AppStarts, MayStart, Start, Goto, Busy
<1>20. ASSUME NEW m \in Monitor, StartPoll(m) PROVE OwnersRun'
  BY <1>0, <1>20 DEF StartPoll, Start, Goto, Busy, Owes
<1>21. ASSUME NEW m \in Monitor, MonitorExits(m) PROVE OwnersRun'
  BY <1>0, <1>21 DEF MonitorExits, Owes
<1>22. ASSUME NEW w \in App, NEW m \in Monitor, TakeTask(w, m) PROVE OwnersRun'
  BY <1>0, <1>22 DEF TakeTask, Continue, Goto
<1>23. ASSUME Expire PROVE OwnersRun'
  BY <1>0, <1>23 DEF Expire
<1>24. CASE UNCHANGED vars
  BY <1>0, <1>24 DEF vars
<1> QED
  BY <1>1, <1>2, <1>3, <1>4, <1>5, <1>6, <1>7, <1>8, <1>9, <1>10, <1>11, <1>12, <1>13, <1>14,
     <1>15, <1>16, <1>17, <1>18, <1>19, <1>20, <1>21, <1>22, <1>23, <1>24
     DEF Next, WorkerStep, Step, Takes, Polls, Exits

\* The task of an asynchronous call is never offered to nobody, nor forgotten by a monitor
\* that has left (talk_to_apstra.go, task_monitor.go), if the application logs out alone.
THEOREM EveryCallIsServed == ASSUME LogoutAlone PROVE Spec => []CallsAreServed
<1>1. Init => OwnersRun
  BY DEF Init, OwnersRun, Worker
<1>2. SessionIInv /\ OwnersRun /\ [Next]_vars => OwnersRun'
  BY KeepsServed
<1>3. SessionIInv /\ OwnersRun => CallsAreServed
  <2> SUFFICES ASSUME SessionIInv, OwnersRun, NEW w \in App
               PROVE  /\ pc[w] = "offer" =>
                           \/ \E m \in Monitor : Serving(m)
                           \/ \E v \in Worker : pc[v] \in {"findMonitor", "makeQuit", "launch"}
                      /\ pc[w] = "wait" => \E m \in Monitor : mon[m] = "running" /\ w \in Owes(m)
    BY DEF CallsAreServed
  <2>1. ASSUME pc[w] = "offer" PROVE \A v \in Worker : pc[v] \notin LogoutPc
    BY <2>1 DEF SessionIInv, LogoutIsAlone, LogoutPc, Worker
  <2>2. ASSUME pc[w] = "offer", \A v \in Worker : pc[v] \notin {"findMonitor", "makeQuit", "launch"}
        PROVE  \E m \in Monitor : Serving(m)
    <3>1. token # None /\ tmQuit # None /\ tmQuit \notin closed
      BY <2>1, <2>2 DEF SessionIInv, ChannelHeld, OwnersRun, LogoutPc, Worker
    <3> QED
      BY <2>1, <2>2, <3>1 DEF SessionIInv, ChannelHeld, Serving, LogoutPc
  <2>3. ASSUME pc[w] = "wait" PROVE \E m \in Monitor : mon[m] = "running" /\ w \in Owes(m)
    BY <2>3 DEF OwnersRun, Owes
  <2> QED BY <2>2, <2>3
<1> QED BY <1>1, <1>2, <1>3, SessionInvariant, PTL DEF Spec
=============================================================================
