------------------------------ MODULE MCClient ------------------------------
(* One run for components that do not interact, as in MCRequests: the login *)
(* session, the two lists edited under a lock, the reads and lookups, and   *)
(* the forms objects take on their way.  A behaviour belongs to one of them *)
(* ("part"); the others' variables stay as they were at the start.          *)
EXTENDS Session, RuleList, TemplateAssignments, Objects, ApplicationPoints,
        ConnectivityTemplate, WireTables, Conversions

VARIABLE part

CONSTANTS a1, a2, label, s1, s2, t1, t2, nA, nB, p1, p2, vlan, ctA

Symmetry   == Permutations({a1, a2})
MCPosition == {-1, 0, 1}
MCHome     == [n \in Primitive |-> ctA]

clientVars == <<part, vars, ruleVars, assignVars, objVars, pointVars, ctVars, wireVars, convVars>>

\* A part that does not run starts in one state.
ClientInit ==
  /\ part \in {"session", "rules", "assign", "object", "points", "ct", "wire", "conv"}
  /\ Init /\ RuleInit /\ AssignInit /\ CtInit
  /\ IF part = "object"
       THEN ObjInit
       ELSE /\ objects = [i \in ObjId |-> NoName] /\ api = CHOOSE a \in Apis : TRUE
            /\ objPc = "idle" /\ want = NoCall /\ listed = <<>> /\ toGet = <<>>
            /\ objResult = Gives("none", 0, NoName) /\ others = 0
            /\ had = {} /\ alone = {} /\ lacked = FALSE /\ vanished = FALSE
  /\ IF part = "points"
       THEN PointInit
       ELSE /\ points = <<>> /\ uses = [p \in Point |-> [c \in Ct |-> "unused"]]
            /\ pagePc = "idle" /\ asked = NoAsk /\ iterationCount = 0
            /\ filled = {} /\ mapped = NoMap /\ changes = 0
            /\ was = {} /\ always = {} /\ shifted = FALSE
  /\ IF part = "wire"
       THEN WireInit
       ELSE /\ wireKind = "VnType" /\ wirePc = "sent" /\ wireValue = "?"
            /\ wireWord = "newer" /\ wireOrigin = [side |-> "server", datum |-> "newer"]
  /\ IF part = "conv"
       THEN ConvInit
       ELSE /\ field = <<"DesignTag", "Label">> /\ stored = "usual" /\ held = "zero"
            /\ origin = "none" /\ convResult = "none"

ClientNext ==
  /\ UNCHANGED part
  /\ \/ /\ part = "session" /\ Next
        /\ UNCHANGED <<ruleVars, assignVars, objVars, pointVars, ctVars, wireVars, convVars>>
     \/ /\ part = "rules" /\ RuleNext
        /\ UNCHANGED <<vars, assignVars, objVars, pointVars, ctVars, wireVars, convVars>>
     \/ /\ part = "assign" /\ AssignNext
        /\ UNCHANGED <<vars, ruleVars, objVars, pointVars, ctVars, wireVars, convVars>>
     \/ /\ part = "object" /\ ObjNext
        /\ UNCHANGED <<vars, ruleVars, assignVars, pointVars, ctVars, wireVars, convVars>>
     \/ /\ part = "points" /\ PointNext
        /\ UNCHANGED <<vars, ruleVars, assignVars, objVars, ctVars, wireVars, convVars>>
     \/ /\ part = "ct" /\ CtNext
        /\ UNCHANGED <<vars, ruleVars, assignVars, objVars, pointVars, wireVars, convVars>>
     \/ /\ part = "wire" /\ WireNext
        /\ UNCHANGED <<vars, ruleVars, assignVars, objVars, pointVars, ctVars, convVars>>
     \/ /\ part = "conv" /\ ConvNext
        /\ UNCHANGED <<vars, ruleVars, assignVars, objVars, pointVars, ctVars, wireVars>>

ClientSpec == ClientInit /\ [][ClientNext]_clientVars
=============================================================================
