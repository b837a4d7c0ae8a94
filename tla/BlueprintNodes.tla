--------------------------- MODULE BlueprintNodes ---------------------------
(***************************************************************************)
(* Calls of a TwoStageL3ClosClient that read nodes of the blueprint's      *)
(* graph, decide, and write in a later request, while other clients change *)
(* the blueprint: SetNodeTags, DeleteGenericSystem, and the fabric settings*)
(* of Apstra 4.2.0, which are kept in four places.  One call at a time;    *)
(* "subject" says which of the three a behaviour is about.  The node IDs a *)
(* client has once read are kept (NodeIdsByType); they are guarded by a    *)
(* lock of NamedLock, which one call at a time never waits for.            *)
(***************************************************************************)
EXTENDS Naturals

CONSTANTS
  NodeTag,         (* tags a node may have                                  *)
  SysLink,         (* links a generic system may have                       *)
  Lag, NoLag,      (* aggregates those links may be members of, or none     *)
  MaxNodeChanges,  (* bound: changes made by other clients                  *)
  MaxNodeCalls     (* bound: calls                                          *)

ASSUME NoLagAssumption == NoLag \notin Lag

\* The fabric settings, by where 4.2.0 keeps them: those of the virtual network policy are in
\* three groups: one limit on routes, the overlay control protocol, and the rest ("vn").
Place == {"addressing", "vn", "sz", "affinity"}
Setting == Place \cup {"limits", "overlay"}
SettingsAt(p) == IF p = "vn" THEN {"vn", "limits", "overlay"} ELSE {p}

\* What a call sets is "new"; a limit may be unset.
Value == {"old", "new", "unset"}

VARIABLES
  subject,      (* "tags", "system" or "settings"                           *)
  nodeTags,     (* server: the node's tags                                  *)
  isNode,       (* server: the node, or the generic system, exists          *)
  sysLinks,     (* server: the system's links                               *)
  external,     (* server: the system is an external one                    *)
  lagOf,        (* server: the aggregate of each link                       *)
  withCt,       (* server: links and aggregates with a template assigned    *)
  settings,     (* server: the fabric settings                              *)
  policyNodes,  (* server: the policy nodes the blueprint has so far        *)
  apiVersion,   (* the server's version, as Client.apiVersion has it        *)
  nodeIds,      (* TwoStageL3ClosClient.nodeIdsByType: how many of each type*)
  nodePc, nodeCall, nodeRead, nodeResult,
  seen,         (* history: what was true at some moment of the call        *)
  regrouped,    (* history: links changed aggregates during the call        *)
  nodeChanges, nodeCalls

graphVars == <<nodeTags, isNode, sysLinks, external, lagOf, withCt, settings, policyNodes>>
stayVars  == <<subject, apiVersion>>
boundVars == <<nodeChanges, nodeCalls>>
nodeVars  == <<graphVars, stayVars, boundVars, nodeIds, nodePc, nodeCall, nodeRead, nodeResult,
               seen, regrouped>>

NoRead   == [tags |-> {}, links |-> {}, external |-> FALSE, detail |-> {}, lagErrs |-> {}, parts |-> <<>>]
Says(w)  == [what |-> w, links |-> {}]

\* What can be said of the blueprint at one moment.
NodeFacts ==
  CASE subject = "tags"     -> {<<"tag", t, t \in nodeTags>> : t \in NodeTag} \cup {<<"node", "is", isNode>>}
    [] subject = "system"   -> {<<"link", l, l \in sysLinks>> : l \in SysLink}
                               \cup {<<"ct", i, i \in withCt>> : i \in SysLink \cup Lag}
                               \cup {<<"node", "is", isNode>>, <<"node", "bare", sysLinks = {}>>}
    [] subject = "settings" -> {<<"set", s, settings[s]>> : s \in Setting}

\* Any blueprint, and a client that may have read the node IDs before the nodes were there.
NodeInit ==
  /\ subject \in {"tags", "system", "settings"}
  /\ nodeTags \in IF subject = "tags" THEN SUBSET NodeTag ELSE {{}}
  /\ isNode = TRUE
  /\ external \in IF subject = "system" THEN BOOLEAN ELSE {FALSE}
  /\ sysLinks \in IF subject = "system" THEN SUBSET SysLink ELSE {SysLink}
  /\ sysLinks # {} \/ external
  /\ lagOf \in IF subject = "system"
                 THEN [SysLink -> Lag \cup {NoLag}]
                 ELSE {[l \in SysLink |-> NoLag]}
  /\ withCt \in IF subject = "system"
                  THEN SUBSET ((sysLinks \cup {lagOf[l] : l \in sysLinks}) \ {NoLag})
                  ELSE {{}}
  /\ settings = [s \in Setting |-> "old"]
  /\ policyNodes \in IF subject = "settings" THEN {{}, {"vn", "sz"}} ELSE {{}}
  /\ apiVersion \in IF subject = "settings" THEN {"4.2.0", "later", "earlier"} ELSE {"4.2.0"}
  /\ nodeIds \in [{"vn", "sz"} -> {"absent", "none", "one"}]
  /\ \A k \in {"vn", "sz"} :
       /\ nodeIds[k] # "absent" => subject = "settings"
       /\ nodeIds[k] = "one" => k \in policyNodes
  /\ nodePc = "idle" /\ nodeCall = [op |-> "none"] /\ nodeRead = NoRead
  /\ nodeResult = Says("none") /\ seen = {} /\ regrouped = FALSE
  /\ nodeChanges = 0 /\ nodeCalls = 0

-----------------------------------------------------------------------------
(* The other clients, and the blueprint's construction.                    *)

Flip(set, e) == IF e \in set THEN set \ {e} ELSE set \cup {e}

OtherTags ==
  /\ subject = "tags" /\ isNode
  /\ \/ isNode' = TRUE /\ \E t \in NodeTag : nodeTags' = Flip(nodeTags, t)
     \/ isNode' = FALSE /\ nodeTags' = {}
  /\ UNCHANGED <<sysLinks, external, lagOf, withCt, settings, policyNodes, regrouped>>

\* A link comes or goes, and an internal system with its last one; a template is assigned
\* to a link or an aggregate, or taken away; the links become members of another aggregate.
OtherLinks ==
  /\ subject = "system" /\ isNode
  /\ \/ /\ \E l \in SysLink : sysLinks' = Flip(sysLinks, l)
        /\ withCt' = {i \in withCt : i \in sysLinks' \cup {lagOf[l] : l \in sysLinks'}}
        /\ isNode' = (external \/ sysLinks' # {})
        /\ UNCHANGED <<lagOf, regrouped>>
     \/ /\ \E i \in (sysLinks \cup {lagOf[l] : l \in sysLinks}) \ {NoLag} : withCt' = Flip(withCt, i)
        /\ UNCHANGED <<sysLinks, lagOf, isNode, regrouped>>
     \/ /\ \E l \in sysLinks, g \in Lag \cup {NoLag} : lagOf' = [lagOf EXCEPT ![l] = g]
        /\ withCt' = {i \in withCt : i \in sysLinks \cup {lagOf'[l] : l \in sysLinks}}
        /\ regrouped' = (regrouped \/ nodePc # "idle")
        /\ UNCHANGED <<sysLinks, isNode>>
  /\ UNCHANGED <<nodeTags, external, settings, policyNodes>>

OtherSettings ==
  /\ subject = "settings"
  /\ \/ /\ \E s \in Setting, v \in Value :
             (v = "unset" => s = "limits") /\ settings' = [settings EXCEPT ![s] = v]
        /\ UNCHANGED policyNodes
     \/ policyNodes' = {"vn", "sz"} /\ UNCHANGED settings
  /\ UNCHANGED <<nodeTags, isNode, sysLinks, external, lagOf, withCt, regrouped>>

Others ==
  /\ nodeChanges < MaxNodeChanges /\ nodeChanges' = nodeChanges + 1
  /\ OtherTags \/ OtherLinks \/ OtherSettings
  /\ graphVars' # graphVars
  /\ UNCHANGED <<stayVars, nodeCalls, nodeIds, nodePc, nodeCall, nodeRead, nodeResult>>
  /\ seen' = IF nodePc = "idle" THEN seen ELSE seen \cup NodeFacts'

-----------------------------------------------------------------------------
(* The calls.  Each step is one request, with what is decided from its     *)
(* reply.                                                                  *)

Goes(pc) == nodePc' = pc /\ UNCHANGED nodeResult
Ends(result) == nodePc' = "idle" /\ nodeResult' = result
Keeps == UNCHANGED <<stayVars, boundVars, nodeCall, regrouped>> /\ seen' = seen \cup NodeFacts'

Starts(call, pc) ==
  /\ nodePc = "idle" /\ nodeCalls < MaxNodeCalls /\ nodeCalls' = nodeCalls + 1
  /\ nodeCall' = call /\ nodeRead' = NoRead /\ nodeResult' = Says("none")
  /\ seen' = NodeFacts /\ regrouped' = FALSE
  /\ nodePc' = pc
  /\ UNCHANGED <<graphVars, stayVars, nodeChanges, nodeIds>>

CallSetNodeTags ==
  subject = "tags" /\ \E wanted \in SUBSET NodeTag : Starts([op |-> "setTags", tags |-> wanted], "query")

CallDeleteGenericSystem == subject = "system" /\ Starts([op |-> "deleteSystem"], "links")

\* SetFabricAddressingPolicy makes no request when none of its fields is given.
FirstPlace(given) == IF "addressing" \in given THEN "addressing" ELSE "vn"

\* SetFabricSettings, GetFabricSettings: one request or up to four places, by version; the
\* spine links must not be given
CallSettings ==
  /\ subject = "settings"
  /\ LET Start(first) == CASE apiVersion = "later"   -> "all"
                           [] apiVersion = "4.2.0"   -> first
                           [] apiVersion = "earlier" -> "refuse"
     IN  \/ \E given \in SUBSET Setting :
              Starts([op |-> "set", given |-> given], Start(FirstPlace(given)))
         \/ Starts([op |-> "set", given |-> {}], "refuse")
         \/ Starts([op |-> "get"], Start("addressing"))

CallRefresh == subject = "settings" /\ Starts([op |-> "refresh"], "refresh")

\* SetNodeTags that stops as soon as there is nothing to add or nothing to remove
NothingEither(current, wanted) == current \subseteq wanted \/ wanted \subseteq current

NothingToDo(current, wanted) == current = wanted

HasTags(current) ==
  IF NothingToDo(current, nodeCall.tags)
    THEN Ends(Says("nil")) /\ UNCHANGED nodeRead
    ELSE Goes("post") /\ nodeRead' = [nodeRead EXCEPT !.tags = current]

\* the query of GetNodeTags: without tags, it cannot tell a node from none
QueryTags ==
  /\ nodePc = "query"
  /\ IF nodeTags = {} THEN Goes("getNode") /\ UNCHANGED nodeRead ELSE HasTags(nodeTags)
  /\ UNCHANGED <<graphVars, nodeIds>> /\ Keeps

GetNode ==
  /\ nodePc = "getNode"
  /\ IF isNode THEN HasTags({}) ELSE Ends(Says("notFound")) /\ UNCHANGED nodeRead
  /\ UNCHANGED <<graphVars, nodeIds>> /\ Keeps

\* POST of the tags to add and to remove
PostTags ==
  /\ nodePc = "post"
  /\ IF isNode
       THEN /\ nodeTags' = (nodeTags \ (nodeRead.tags \ nodeCall.tags)) \cup (nodeCall.tags \ nodeRead.tags)
            /\ Ends(Says("nil"))
       ELSE UNCHANGED nodeTags /\ Ends(Says("notFound"))
  /\ UNCHANGED <<isNode, sysLinks, external, lagOf, withCt, settings, policyNodes, nodeIds, nodeRead>>
  /\ Keeps

QueryLinks ==
  /\ nodePc = "links"
  /\ IF isNode /\ sysLinks # {}
       THEN Goes("delete") /\ nodeRead' = [nodeRead EXCEPT !.links = sysLinks, !.external = external]
       ELSE Ends(Says("notFound")) /\ UNCHANGED nodeRead
  /\ UNCHANGED <<graphVars, nodeIds>> /\ Keeps

Members(g) == {l \in sysLinks : lagOf[l] = g}

\* DeleteLinksFromSystem: all the links go, or the server refuses and names the links with
\* a template, and the members of each aggregate with one that would go entirely
DeleteLinks ==
  /\ nodePc = "delete"
  /\ LET linkErrs == nodeRead.links \cap withCt
         lagErrs  == {Members(g) : g \in Lag \cap withCt} \cap ((SUBSET nodeRead.links) \ {{}})
     IN  CASE ~(nodeRead.links \subseteq sysLinks) ->
                Ends(Says("error")) /\ UNCHANGED <<sysLinks, isNode, nodeRead>>
           [] nodeRead.links \subseteq sysLinks /\ linkErrs \cup lagErrs # {} ->
                /\ UNCHANGED <<sysLinks, isNode>>
                /\ nodeRead' = [nodeRead EXCEPT !.detail = linkErrs, !.lagErrs = lagErrs]
                /\ IF lagErrs = {} THEN Ends([what |-> "ctAssigned", links |-> linkErrs]) ELSE Goes("lag")
           [] OTHER ->
                /\ sysLinks' = sysLinks \ nodeRead.links
                /\ isNode' = (external \/ sysLinks' # {})
                /\ IF nodeRead.external THEN Goes("external") ELSE Ends(Says("nil"))
                /\ UNCHANGED nodeRead
  /\ UNCHANGED <<nodeTags, external, lagOf, withCt, settings, policyNodes, nodeIds>> /\ Keeps

\* lagIdFromMemberIds: the aggregate the members are in by now
FindLag ==
  /\ nodePc = "lag"
  /\ \E members \in nodeRead.lagErrs :
       LET ids  == {g \in Lag : members \subseteq Members(g)}
           left == nodeRead.lagErrs \ {members}
           all  == nodeRead.detail \cup ids
       IN  /\ nodeRead' = [nodeRead EXCEPT !.detail = all, !.lagErrs = left]
           /\ CASE ids = {}                -> Ends(Says("error"))
                [] ids # {} /\ left = {}   -> Ends([what |-> "ctAssigned", links |-> all])
                [] ids # {} /\ left # {}   -> Goes("lag")
  /\ UNCHANGED <<graphVars, nodeIds>> /\ Keeps

\* DELETE of the external system, which is refused while it has links again
DeleteExternal ==
  /\ nodePc = "external"
  /\ isNode' = (isNode /\ sysLinks # {})
  /\ Ends(Says(CASE ~isNode                    -> "notFound"
                 [] isNode /\ sysLinks = {}    -> "nil"
                 [] isNode /\ sysLinks # {}    -> "error"))
  /\ UNCHANGED <<nodeTags, sysLinks, external, lagOf, withCt, settings, policyNodes, nodeIds, nodeRead>>
  /\ Keeps

\* NodeIdsByType: the server is asked once per type; not exactly one node is an error
NodeIdsByType(p) ==
  /\ nodePc = "ids" /\ nodeCall.op \in {"get", "set"}
  /\ p = IF nodeCall.op = "get" /\ "vn" \notin DOMAIN nodeRead.parts THEN "vn" ELSE "sz"
  /\ nodeIds' = [nodeIds EXCEPT ![p] =
                   IF @ # "absent" THEN @ ELSE IF p \in policyNodes THEN "one" ELSE "none"]
  /\ IF nodeIds'[p] = "one" THEN Goes(p) ELSE Ends(Says("count"))
  /\ UNCHANGED <<graphVars, nodeRead>> /\ Keeps

\* RefreshNodeIdsByType
RefreshNodeIds ==
  /\ nodePc = "refresh"
  /\ \E p \in {"vn", "sz"} :
       nodeIds' = [nodeIds EXCEPT ![p] = IF p \in policyNodes THEN "one" ELSE "none"]
  /\ Ends(Says("nil"))
  /\ UNCHANGED <<graphVars, nodeRead>> /\ Keeps

\* The request after that to p: two of the places are found by their node's ID when they are
\* read, one of them when it is written; footprint and affinity are written if given.
After(p) ==
  LET Visits(q) == nodeCall.op = "get" \/ q \in nodeCall.given
      last      == IF Visits("affinity") THEN "affinity" ELSE "idle"
  IN CASE p = "addressing" -> IF nodeCall.op = "get" THEN "ids" ELSE "vn"
       [] p = "vn"         -> IF Visits("sz") THEN "ids" ELSE last
       [] p = "sz"         -> last
       [] p = "affinity"   -> "idle"

Proceeds(pc) == IF pc = "idle" THEN Ends(Says("nil")) ELSE Goes(pc)

\* A PATCH sets what it sends.  The limits on routes have no omitempty: those not given are
\* sent as null, which the server may take for no limit or for no change.
Patch(sent, nulls) ==
  \E unset \in SUBSET nulls :
    settings' = [s \in Setting |-> CASE s \in sent         -> "new"
                                    [] s \in unset \ sent -> "unset"
                                    [] OTHER              -> settings[s]]

\* one PATCH of setFabricSettings420; setVirtualNetworkPolicy420 does not copy the overlay
\* control protocol
PatchPlace(p) ==
  /\ nodePc = p /\ nodeCall.op = "set"
  /\ Patch((nodeCall.given \cap SettingsAt(p)) \ {"overlay"},
           (SettingsAt(p) \cap {"limits"}) \ nodeCall.given)
  /\ Proceeds(After(p))
  /\ UNCHANGED <<nodeTags, isNode, sysLinks, external, lagOf, withCt, policyNodes, nodeIds, nodeRead>>
  /\ Keeps

\* one GET of getFabricSettings420
GetPlace(p) ==
  /\ nodePc = p /\ nodeCall.op = "get"
  /\ nodeRead' = [nodeRead EXCEPT !.parts = [s \in DOMAIN @ \cup SettingsAt(p) |->
                                                IF s \in SettingsAt(p) THEN settings[s] ELSE @[s]]]
  /\ Proceeds(After(p))
  /\ UNCHANGED <<graphVars, nodeIds>> /\ Keeps

\* setFabricSettings and getFabricSettings of the later versions: everything at once
AllPlaces ==
  /\ nodePc = "all"
  /\ CASE nodeCall.op = "set" -> /\ Patch(nodeCall.given, {"limits"} \ nodeCall.given)
                                 /\ UNCHANGED nodeRead
       [] nodeCall.op = "get" -> /\ nodeRead' = [nodeRead EXCEPT !.parts = settings]
                                 /\ UNCHANGED settings
  /\ Ends(Says("nil"))
  /\ UNCHANGED <<nodeTags, isNode, sysLinks, external, lagOf, withCt, policyNodes, nodeIds>> /\ Keeps

\* A request fails.  One that was carried out although it fails is the same to the call as
\* one that was not, followed by the same change made by another client.
NodeRequestFails ==
  /\ nodePc # "idle"
  /\ Ends(Says("error"))
  /\ UNCHANGED <<graphVars, nodeIds, nodeRead>> /\ Keeps

NodeNext ==
  \/ Others \/ NodeRequestFails
  \/ CallSetNodeTags \/ CallDeleteGenericSystem \/ CallSettings \/ CallRefresh
  \/ QueryTags \/ GetNode \/ PostTags
  \/ QueryLinks \/ DeleteLinks \/ FindLag \/ DeleteExternal
  \/ \E p \in {"vn", "sz"} : NodeIdsByType(p)
  \/ RefreshNodeIds
  \/ \E p \in Place : PatchPlace(p) \/ GetPlace(p)
  \/ AllPlaces

NodeSpec == NodeInit /\ [][NodeNext]_nodeVars

-----------------------------------------------------------------------------
(* Properties.                                                             *)

NodeTypeOK ==
  /\ nodeTags \in SUBSET NodeTag /\ sysLinks \in SUBSET SysLink
  /\ isNode \in BOOLEAN /\ external \in BOOLEAN /\ regrouped \in BOOLEAN
  /\ lagOf \in [SysLink -> Lag \cup {NoLag}] /\ withCt \in SUBSET (SysLink \cup Lag)
  /\ settings \in [Setting -> Value]
  /\ nodeIds \in [{"vn", "sz"} -> {"absent", "none", "one"}]

\* Given settings that are nevertheless not sent: setVirtualNetworkPolicy420
\* (two_stage_l3_clos_virtual_network_policy.go:59-72) copies every field but this one.
Unsent == IF apiVersion = "4.2.0" THEN {"overlay"} ELSE {}

\* What a call reports was so at some moment while it ran, however the blueprint changes
\* between its requests: a nil of SetNodeTags, that each tag was there or not as asked; of
\* DeleteGenericSystem, that every link it found was gone, and an external system with them;
\* of SetFabricSettings, that each setting given was in force, but for the overlay control
\* protocol in 4.2.0 (Unsent); of GetFabricSettings, that each setting returned was; "not
\* found", that there was no node or no link; and the links an error names, that they had a
\* template, unless links changed aggregates meanwhile.
AnswersWereTrue ==
  LET what == nodeResult.what
      op   == nodeCall.op
      Was(kind, thing, value) == <<kind, thing, value>> \in seen
  IN nodePc = "idle" =>
       /\ op = "setTags" /\ what = "nil" =>
            \A t \in NodeTag : Was("tag", t, t \in nodeCall.tags)
       /\ op = "deleteSystem" /\ what = "nil" =>
            /\ \A l \in nodeRead.links : Was("link", l, FALSE)
            /\ nodeRead.external => Was("node", "is", FALSE)
       /\ op = "set" /\ what = "nil" =>
            \A s \in nodeCall.given \ Unsent : Was("set", s, "new")
       /\ op = "get" /\ what = "nil" =>
            \A s \in Setting : Was("set", s, nodeRead.parts[s])
       /\ what = "notFound" => Was("node", "is", FALSE) \/ Was("node", "bare", TRUE)
       /\ what = "ctAssigned" /\ ~regrouped => \A i \in nodeResult.links : Was("ct", i, TRUE)
=============================================================================
