------------------------------ MODULE Objects ------------------------------
(***************************************************************************)
(* The objects of the server which a client creates, reads, updates,       *)
(* deletes and looks up by name, one request each, while other clients do  *)
(* the same.  The kinds of objects share their handlers' shape and differ  *)
(* in a few points, which the table below records kind by kind.  What an   *)
(* object contains is left out; a conversion of it that fails is one of    *)
(* the errors with which any operation may end.                            *)
(***************************************************************************)
EXTENDS Integers, Sequences, FiniteSets, SequencesExt

CONSTANTS
  ObjId,       (* the IDs the server may give                               *)
  ObjName,     (* names, labels: the server does not keep them unique       *)
  NoName,      (* none of them: the object does not exist                   *)
  MaxOthers    (* bound: changes by other clients during a behaviour        *)

ASSUME NoNameAssumption == NoName \notin ObjName

VARIABLES
  objects,    (* the server's objects: the name each ID has                 *)
  api,        (* the kind of object: an entry of the table                  *)
  objPc,      (* where the call is                                          *)
  want,       (* the call: [op, id, name]                                   *)
  listed,     (* what a lookup has read so far: sequence of [id, name]      *)
  toGet,      (* IDs a lookup still has to GET, in order                    *)
  objResult,  (* what the last call returned: [what, id, name]              *)
  others,     (* changes made by others                                     *)
  had,        (* history: IDs that had the wanted name during the call      *)
  alone,      (* history: those of them which were then the only one        *)
  lacked,     (* history: at some moment of the call none had it            *)
  vanished    (* history: an object was deleted during the call             *)

objHistory == <<had, alone, lacked, vanished>>
objVars == <<objects, api, objPc, want, listed, toGet, objResult, others, objHistory>>

NoCall == [op |-> "none", id |-> 0, name |-> NoName]
Gives(what, id, name) == [what |-> what, id |-> id, name |-> name]

Existing(o) == {i \in ObjId : o[i] # NoName}
Named(o, n) == {i \in ObjId : o[i] = n}
-----------------------------------------------------------------------------
(* The table of kinds.  ops: what the kind's handlers can do besides       *)
(* lookups (list the IDs, read all, read, create, update, delete).         *)
(* byName, what its lookup by name does:                                   *)
(*   "unique"    one list, from which more than one match is an error      *)
(*   "first"     one list, the first match in it                           *)
(*   "again"     as "unique", and then the object is read again by its ID  *)
(*   "gathered"  as "unique", with a list put together by reading each ID  *)
(*   "none"      there is no lookup                                        *)
(* plain: the operations that return the transport's error as it is, so    *)
(* that a missing object is not ErrNotfound.                               *)

Crud == {"ids", "all", "get", "new", "set", "del"}
NoList == Crud \ {"ids"}
Api(byName, ops, plain) == [byName |-> byName, ops |-> ops, plain |-> plain]

\* Design and platform objects.
AgentProfiles       == Api("unique",   Crud, {})
Agents              == Api("first",    Crud \ {"del"}, {})   \* deletion: module Polling
BlueprintStatuses   == Api("unique",   {"all", "get"}, {})
Configlets          == Api("unique",   Crud, {"del"})
DeviceProfiles      == Api("unique",   Crud, {})
InterfaceMaps       == Api("unique",   Crud, {"set", "del"})
LogicalDevices      == Api("unique",   Crud, {"set", "del"})
ModularProfiles     == Api("none",     {"get", "new", "set", "del"}, {})
PropertySets        == Api("gathered", Crud, {"del"})
RackTypes           == Api("first",    Crud, {})
StreamingConfigs    == Api("none",     Crud \ {"set"}, {})
Systems             == Api("none",     Crud \ {"new"}, {"set", "del"})
Tags                == Api("first",    Crud, {"del"})
TelemetryRegistry   == Api("none",     NoList, {})
Templates           == Api("unique",   {"ids", "all", "get"}, {})
TemplateLookup      == Api("unique",   {"get", "del"}, {})
RackBasedTemplates  == Api("none",     {"new", "set"}, {})
PodBasedTemplates   == Api("none",     {"new", "set"}, {"set"})
L3CollapsedTemplates == Api("none",    {"new", "set"}, {"set"})

\* Pools of resources.
AsnPools            == Api("unique",   Crud, {})
VniPools            == Api("unique",   Crud, {})
IntPools            == Api("none",     Crud, {})             \* what the three share
IntegerPools        == Api("unique",   {}, {})
IpPools             == Api("unique",   Crud, {})

\* Objects of intent-based analytics; their creation is in module Polling.
IbaDashboards       == Api("unique",   NoList \ {"new"}, {})
IbaPredefinedProbes == Api("first",    {"all"}, {})
IbaProbes           == Api("unique",   {"all", "get", "del"}, {})
IbaWidgets          == Api("unique",   NoList \ {"new"}, {})

\* Objects of a two-stage L3 Clos blueprint.
BlueprintConfiglets == Api("unique",   Crud, {"del"})
BlueprintPropertySets == Api("first",  NoList, {})
Policies            == Api("unique",   NoList, {})
RemoteGateways      == Api("unique",   NoList, {})
RoutingPolicies     == Api("unique",   NoList, {})
DefaultRoutingPolicy == Api("first",   {}, {})               \* by its type, not its name
RoutingZoneConstraints == Api("unique", NoList, {})
SecurityZones       == Api("first",    NoList, {})           \* by VRF name, in no order
VirtualNetworks     == Api("again",    Crud, {})
SubinterfaceLinks   == Api("none",     {"all"}, {})

\* Objects of a freeform blueprint.
AllocGroups         == Api("unique",   NoList, {})
ConfigTemplates     == Api("unique",   NoList, {})
GroupGenerators     == Api("unique",   NoList, {})
FreeformLinks       == Api("unique",   NoList, {})
FreeformPropertySets == Api("unique",  NoList, {})
RaGroupGenerators   == Api("none",     NoList, {})
LocalPoolGenerators == Api("none",     NoList, {})
RaLocalPools        == Api("none",     NoList, {})
RaResources         == Api("unique",   NoList, {})
ResourceGenerators  == Api("unique",   NoList, {})
RaGroups            == Api("unique",   NoList, {})
FreeformSystems     == Api("unique",   NoList, {})

Apis ==
  {AgentProfiles, Agents, BlueprintStatuses, Configlets, DeviceProfiles, InterfaceMaps,
   LogicalDevices, ModularProfiles, PropertySets, RackTypes, StreamingConfigs, Systems, Tags,
   TelemetryRegistry, Templates, TemplateLookup, RackBasedTemplates, PodBasedTemplates,
   L3CollapsedTemplates, AsnPools, VniPools, IntPools, IntegerPools, IpPools, IbaDashboards,
   IbaPredefinedProbes, IbaProbes, IbaWidgets, BlueprintConfiglets, BlueprintPropertySets,
   Policies, RemoteGateways, RoutingPolicies, DefaultRoutingPolicy, RoutingZoneConstraints,
   SecurityZones, VirtualNetworks, SubinterfaceLinks, AllocGroups, ConfigTemplates,
   GroupGenerators, FreeformLinks, FreeformPropertySets, RaGroupGenerators,
   LocalPoolGenerators, RaLocalPools, RaResources, ResourceGenerators, RaGroups,
   FreeformSystems}

-----------------------------------------------------------------------------
ObjInit ==
  /\ objects \in [ObjId -> ObjName \cup {NoName}] /\ IsFiniteSet(Existing(objects))
  /\ api \in Apis
  /\ objPc = "idle" /\ want = NoCall
  /\ listed = <<>> /\ toGet = <<>>
  /\ objResult = Gives("none", 0, NoName)
  /\ others = 0
  /\ had = {} /\ alone = {} /\ lacked = FALSE /\ vanished = FALSE

\* History of the call: what is true of the wanted name from the state o on.
Witness(o, name) ==
  LET now == Named(o, name)
  IN  /\ had' = had \cup now
      /\ alone' = alone \cup (IF Cardinality(now) = 1 THEN now ELSE {})
      /\ lacked' = (lacked \/ now = {})

\* Another client (or another goroutine of this one) makes, renames or deletes an object.
Other ==
  /\ others < MaxOthers
  /\ others' = others + 1
  /\ \E i \in ObjId, n \in ObjName \cup {NoName} :
       /\ n # objects[i]
       /\ objects' = [objects EXCEPT ![i] = n]
       /\ vanished' = (vanished \/ (n = NoName /\ objPc # "idle"))
  /\ IF objPc = "idle" THEN UNCHANGED <<had, alone, lacked>> ELSE Witness(objects', want.name)
  /\ UNCHANGED <<api, objPc, want, listed, toGet, objResult>>

\* A call of the client: one of the kind's operations, or a lookup by name.
CallObject ==
  /\ objPc = "idle"
  /\ \E op \in api.ops \cup (IF api.byName = "none" THEN {} ELSE {"byName"}), i \in ObjId, n \in ObjName :
       /\ op \in {"get", "del"} => n = CHOOSE x \in ObjName : TRUE
       /\ op \in {"new", "byName"} => i = CHOOSE x \in ObjId : TRUE
       /\ op \in {"ids", "all"} => /\ i = CHOOSE x \in ObjId : TRUE
                                  /\ n = CHOOSE x \in ObjName : TRUE
       /\ want' = [op |-> op, id |-> i, name |-> n]
  /\ objPc' = "request"
  /\ had' = Named(objects, want'.name)
  /\ alone' = IF Cardinality(had') = 1 THEN had' ELSE {}
  /\ lacked' = (had' = {})
  /\ vanished' = FALSE
  /\ objResult' = Gives("none", 0, NoName)
  /\ UNCHANGED <<objects, api, listed, toGet, others>>

\* The call returns.
ObjReturn(result) ==
  /\ objResult' = result
  /\ objPc' = "idle"
  /\ listed' = <<>> /\ toGet' = <<>> /\ want' = NoCall
  /\ had' = {} /\ alone' = {} /\ lacked' = FALSE /\ vanished' = FALSE
  /\ UNCHANGED <<api, others>>

\* A request fails, or what it returned cannot be converted.
ObjFails ==
  /\ objPc # "idle"
  /\ ObjReturn(Gives("error", 0, NoName))
  /\ UNCHANGED objects

\* convertTtaeToAceWherePossible, where the handler calls it
Missing(op) == Gives(IF op \in api.plain THEN "http404" ELSE "ErrNotfound", 0, NoName)

\* list and read all: one request, whose response is handed on
ReadMany ==
  /\ objPc = "request" /\ want.op \in {"ids", "all"}
  /\ ObjReturn(Gives("list", 0, NoName))
  /\ UNCHANGED objects

ReadOne ==
  /\ objPc = "request" /\ want.op = "get"
  /\ ObjReturn(IF objects[want.id] = NoName THEN Missing("get")
               ELSE Gives("object", want.id, objects[want.id]))
  /\ UNCHANGED objects

\* Create: the server picks the ID; its reply may be lost.
CreateOne ==
  /\ objPc = "request" /\ want.op = "new"
  /\ \E i \in ObjId \ Existing(objects) :
       /\ objects' = [objects EXCEPT ![i] = want.name]
       /\ \E r \in {Gives("created", i, want.name), Gives("error", 0, NoName)} : ObjReturn(r)

UpdateOne ==
  /\ objPc = "request" /\ want.op = "set"
  /\ IF objects[want.id] = NoName
       THEN ObjReturn(Missing("set")) /\ UNCHANGED objects
       ELSE /\ objects' = [objects EXCEPT ![want.id] = want.name]
            /\ \E r \in {"done", "error"} : ObjReturn(Gives(r, 0, NoName))

DeleteOne ==
  /\ objPc = "request" /\ want.op = "del"
  /\ IF objects[want.id] = NoName
       THEN ObjReturn(Missing("del")) /\ UNCHANGED objects
       ELSE /\ objects' = [objects EXCEPT ![want.id] = NoName]
            /\ \E r \in {"done", "error"} : ObjReturn(Gives(r, 0, NoName))
-----------------------------------------------------------------------------
(* Lookups by name.                                                        *)

\* Where the name is in the list.
Matches(list) == {k \in DOMAIN list : list[k].name = want.name}

\* The scan takes the last of several matches and does not report the others.
ScannedLast(list, first) ==
  IF Matches(list) = {} THEN Gives("ErrNotfound", 0, NoName)
  ELSE Gives("object", list[Max(Matches(list))].id, want.name)

\* What the loop over the list ends with: the first match, or an error when there is none,
\* or, unless the first match is enough, when there are several.
Scanned(list, first) ==
  LET m == Matches(list)
  IN  IF m = {} THEN Gives("ErrNotfound", 0, NoName)
      ELSE IF ~first /\ \E j, k \in m : j # k THEN Gives("ErrMultipleMatch", 0, NoName)
      ELSE Gives("object", list[Min(m)].id, want.name)

\* The list is read, in whatever order the server sends it, and scanned.
LookUp ==
  /\ objPc = "request" /\ want.op = "byName"
  /\ \E ids \in SetToSeqs(Existing(objects)) :
       LET all == [k \in DOMAIN ids |-> [id |-> ids[k], name |-> objects[ids[k]]]]
           found == Scanned(all, api.byName = "first")
       IN  \/ /\ api.byName = "gathered"
              /\ toGet' = ids
              /\ objPc' = "gather"
              /\ UNCHANGED <<api, want, listed, objResult, others, objHistory>>
           \/ /\ api.byName = "again" /\ found.what = "object"
              /\ want' = [want EXCEPT !.id = found.id]
              /\ objPc' = "again"
              /\ UNCHANGED <<api, listed, toGet, objResult, others, objHistory>>
           \/ /\ api.byName # "gathered" /\ ~(api.byName = "again" /\ found.what = "object")
              /\ ObjReturn(found)
  /\ UNCHANGED objects

\* getAllPropertySets: the next of the listed IDs is read; the list is scanned at the end.
Gather ==
  /\ objPc = "gather"
  /\ IF toGet = <<>> THEN ObjReturn(Scanned(listed, FALSE))
     ELSE IF objects[Head(toGet)] = NoName THEN ObjReturn(Missing("get"))
     ELSE /\ listed' = Append(listed, [id |-> Head(toGet), name |-> objects[Head(toGet)]])
          /\ toGet' = Tail(toGet)
          /\ UNCHANGED <<api, objPc, want, objResult, others, objHistory>>
  /\ UNCHANGED objects

\* getVirtualNetworkByName: the match is read again, by its ID.
ReadAgain ==
  /\ objPc = "again"
  /\ ObjReturn(IF objects[want.id] = NoName THEN Missing("get")
               ELSE Gives("object", want.id, objects[want.id]))
  /\ UNCHANGED objects

ObjNext ==
  \/ Other \/ CallObject \/ ObjFails
  \/ ReadMany \/ ReadOne \/ CreateOne \/ UpdateOne \/ DeleteOne
  \/ LookUp \/ Gather \/ ReadAgain

ObjSpec == ObjInit /\ [][ObjNext]_objVars
-----------------------------------------------------------------------------
(* Properties.                                                             *)

ObjTypeOK ==
  /\ objects \in [ObjId -> ObjName \cup {NoName}]
  /\ objPc \in {"idle", "request", "gather", "again"}
  /\ want.op \in Crud \cup {"none", "byName"}
  /\ toGet \in Seq(ObjId)
  /\ had \subseteq ObjId /\ alone \subseteq had

\* A lookup by name says what was true at some moment of the call, whatever others change
\* meanwhile: the object it returns bore the name, and bore it alone where several matches
\* are an error; ErrNotfound means that no object bore it, or that one was deleted before
\* it was read again.  Only a list gathered from several reads promises less: two objects
\* that trade names between the reads can both be missed, or both be seen.
LookupHonest ==
  [][want.op = "byName" /\ objPc # "idle" /\ objPc' = "idle" =>
       /\ objResult'.what = "object" =>
            /\ objResult'.id \in had
            /\ api.byName \in {"unique", "again"} => objResult'.id \in alone
       /\ objResult'.what = "ErrNotfound" =>
            \/ lacked \/ api.byName = "gathered"
            \/ vanished /\ api.byName = "again"]_objVars
=============================================================================
