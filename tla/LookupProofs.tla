---------------------------- MODULE LookupProofs ----------------------------
(***************************************************************************)
(* Reads that put an answer together: lookups by name, maps collected page *)
(* by page, and the trees of connectivity templates, found by following    *)
(* pointers.  They rest on lemmas about numbers and lists: whatever order  *)
(* the server sends, every object is in the list once, when a page is      *)
(* short nothing comes after it, and a primitive comes after its parent.   *)
(* The last part is about the layout of the trees: sums of widths.         *)
(***************************************************************************)
EXTENDS Objects, ApplicationPoints, ConnectivityTemplate, FiniteSetTheorems, SequenceTheorems, WellFoundedInduction, TLAPS

\* A set of numbers has a least one ...
LEMMA LeastNumber ==
  ASSUME NEW T, T \subseteq Nat, T # {}
  PROVE  \E x \in T : \A y \in T : x <= y
<1>1. PICK x \in T : \A y \in T : ~ (<<y, x>> \in OpToRel(<, Nat))
  BY NatLessThanWellFounded, WFMin
<1>2. ASSUME NEW y \in T, y < x PROVE FALSE
  <2>1. <<y, x>> \in Nat \X Nat
    BY <1>1
  <2>2. <<y, x>> \in OpToRel(<, Nat)
    BY <1>2, <2>1 DEF OpToRel
  <2> QED BY <1>1, <2>2
<1>3. \A y \in T : x <= y
  BY <1>2
<1> QED BY <1>3

\* ... and, if it has a bound, a greatest one.
LEMMA GreatestNumber ==
  ASSUME NEW T, T \subseteq Nat, T # {}, NEW b \in Nat, \A y \in T : y <= b
  PROVE  \E x \in T : \A y \in T : y <= x
<1> DEFINE D == {b - y : y \in T}
<1>1. D \subseteq Nat /\ D # {}
  <2>1. \A y \in T : y \in Nat /\ y <= b
    OBVIOUS
  <2>2. \A y \in T : b - y \in Nat
    BY <2>1
  <2>3. PICK y : y \in T
    OBVIOUS
  <2>4. b - y \in D
    BY <2>3
  <2> QED BY <2>2, <2>4
<1>2. PICK d \in D : \A e \in D : d <= e
  BY <1>1, LeastNumber
<1>3. PICK x \in T : d = b - x
  BY <1>2
<1>4. ASSUME NEW y \in T PROVE y <= x
  <2>1. b - y \in D
    OBVIOUS
  <2> QED BY <1>2, <1>3, <2>1
<1> QED BY <1>3, <1>4

\* SetToSeqs lists every element of a finite set once.
LEMMA ListsOf ==
  ASSUME NEW S, IsFiniteSet(S), NEW ids \in SetToSeqs(S)
  PROVE  /\ ids \in Seq(S) /\ DOMAIN ids \subseteq Nat
         /\ \A k \in DOMAIN ids : ids[k] \in S
         /\ \A s \in S : \E k \in DOMAIN ids : ids[k] = s
         /\ \A j, k \in DOMAIN ids : ids[j] = ids[k] => j = k
<1> DEFINE n == Cardinality(S)
<1>1. n \in Nat
  BY FS_CardinalityType
<1>2. ids \in [1..n -> S] /\ \A j, k \in 1..n : j # k => ids[j] # ids[k]
  BY DEF SetToSeqs
<1>3. ids \in Seq(S)
  BY <1>1, <1>2, SeqDef
<1>4. IsFiniteSet(1..n) /\ Cardinality(1..n) = n
  BY <1>1, FS_Interval
<1> HIDE DEF n
<1>5. ids \in Injection(1..n, S)
  BY <1>2 DEF Injection, IsInjective
<1>6. ids \in Surjection(1..n, S)
  BY <1>4, <1>5, FS_Injection DEF n
<1> QED BY <1>1, <1>2, <1>3, <1>6 DEF Surjection
-----------------------------------------------------------------------------
(* Numbering the elements of a finite set of numbers: Among(F, i) is the   *)
(* place of i among F.                                                     *)

UpTo(F, i) == {j \in F : j <= i}

LEMMA UpToIsFinite ==
  ASSUME NEW F, F \subseteq Nat, IsFiniteSet(F), NEW i \in Nat
  PROVE  IsFiniteSet(UpTo(F, i)) /\ Cardinality(UpTo(F, i)) \in Nat
<1>1. IsFiniteSet(UpTo(F, i))
  BY FS_Subset DEF UpTo
<1> QED BY <1>1, FS_CardinalityType

\* Every number from one to that of an element is the number of an element.
LEMMA EveryNumberTaken ==
  ASSUME NEW F, F \subseteq Nat, IsFiniteSet(F), NEW i \in F,
         NEW r \in Nat, r # 0, r <= Cardinality(UpTo(F, i))
  PROVE  \E j \in F : j <= i /\ Cardinality(UpTo(F, j)) = r
<1> DEFINE T == {j \in F : r <= Cardinality(UpTo(F, j))}
<1>1. T \subseteq Nat /\ i \in T
  OBVIOUS
<1>2. PICK j \in T : \A k \in T : j <= k
  BY <1>1, LeastNumber
<1>3. j \in F /\ j <= i /\ j \in Nat /\ r <= Cardinality(UpTo(F, j))
  BY <1>1, <1>2
<1> DEFINE B == {k \in F : k < j}
<1>4. UpTo(F, j) = B \cup {j} /\ j \notin B
  <2>1. \A k \in F : k \in Nat /\ (k <= j <=> k < j \/ k = j)
    BY <1>3
  <2>2. \A k : k \in UpTo(F, j) <=> k \in F /\ (k < j \/ k = j)
    BY <2>1 DEF UpTo
  <2>3. \A k : k \in B \cup {j} <=> k \in F /\ (k < j \/ k = j)
    BY <1>3
  <2>4. j \notin B
    BY <1>3
  <2> QED BY <2>2, <2>3, <2>4
<1>5. IsFiniteSet(B) /\ Cardinality(B) \in Nat
  BY FS_Subset, FS_CardinalityType
<1>6. Cardinality(UpTo(F, j)) = Cardinality(B) + 1
  <2> HIDE DEF B
  <2> QED BY <1>4, <1>5, FS_AddElement
<1>7. CASE Cardinality(UpTo(F, j)) = r
  BY <1>3, <1>7
<1>8. CASE Cardinality(UpTo(F, j)) # r
  <2>1. r <= Cardinality(B)
    BY <1>3, <1>5, <1>6, <1>8
  <2>2. B # {}
    BY <1>5, <2>1, FS_EmptySet
  <2>3. PICK k \in B : \A l \in B : l <= k
    <3>1. ASSUME NEW l \in B PROVE l \in Nat /\ l <= j
      <4>1. l \in Nat /\ l < j
        OBVIOUS
      <4> QED BY <1>3, <4>1
    <3> HIDE DEF B
    <3> QED BY <1>3, <2>2, <3>1, GreatestNumber
  <2>4. UpTo(F, k) = B
    <3>1. \A l \in F : l <= k <=> l < j
      <4>1. ASSUME NEW l \in F, l <= k PROVE l < j
        BY <1>3, <2>3, <4>1
      <4>2. ASSUME NEW l \in F, l < j PROVE l <= k
        BY <2>3, <4>2
      <4> QED BY <4>1, <4>2
    <3> QED BY <3>1 DEF UpTo
  <2>5. k \in T
    BY <2>1, <2>3, <2>4
  <2> QED BY <1>2, <1>3, <2>3, <2>5
<1> QED BY <1>7, <1>8

\* Those of F that have the n numbers after s.
Stretch(F, s, n) == {j \in F : Cardinality(UpTo(F, j)) - s \in 1..n}

\* A stretch of n numbers below that of an element has n elements.
LEMMA FullStretch ==
  ASSUME NEW F, F \subseteq Nat, IsFiniteSet(F), NEW i \in F,
         NEW s \in Nat, NEW n \in Nat, s + n <= Cardinality(UpTo(F, i))
  PROVE  IsFiniteSet(Stretch(F, s, n)) /\ n <= Cardinality(Stretch(F, s, n))
<1> DEFINE stretch == {j \in F : Cardinality(UpTo(F, j)) - s \in 1..n}
           g == [j \in stretch |-> Cardinality(UpTo(F, j)) - s]
<1>1. IsFiniteSet(stretch)
  BY FS_Subset
<1>2. ASSUME NEW r \in 1..n PROVE \E j \in stretch : g[j] = r
  <2>1. PICK j \in F : Cardinality(UpTo(F, j)) = s + r
    <3>1. s + r \in Nat /\ s + r # 0 /\ s + r <= Cardinality(UpTo(F, i))
      <4>1. r \in Nat /\ 1 <= r /\ r <= n
        OBVIOUS
      <4>2. Cardinality(UpTo(F, i)) \in Nat
        BY UpToIsFinite
      <4> QED BY <4>1, <4>2
    <3> QED BY <3>1, EveryNumberTaken
  <2> QED BY <2>1
<1>3. g \in [stretch -> 1..n]
  OBVIOUS
<1> HIDE DEF stretch, g
<1>4. g \in Surjection(stretch, 1..n)
  BY <1>2, <1>3 DEF Surjection
<1>5. Cardinality(1..n) <= Cardinality(stretch)
  BY <1>1, <1>4, FS_Surjection
<1>6. Cardinality(1..n) = n
  BY FS_Interval
<1> QED BY <1>1, <1>5, <1>6 DEF stretch, Stretch

\* Elements are numbered from one.
LEMMA NumberedFromOne ==
  ASSUME NEW F, F \subseteq Nat, IsFiniteSet(F), NEW i \in F
  PROVE  Cardinality(UpTo(F, i)) \in Nat \ {0}
<1>1. i \in UpTo(F, i)
  BY DEF UpTo
<1>2. Cardinality(UpTo(F, i)) # 0
  BY <1>1, UpToIsFinite, FS_EmptySet
<1> QED BY <1>2, UpToIsFinite

-----------------------------------------------------------------------------
(* Objects: what a lookup by name says.                                    *)

\* The call under way, and the list a lookup gathers.
CallShape ==
  /\ want = [op |-> want.op, id |-> want.id, name |-> want.name]
  /\ objPc # "idle" => want.name \in ObjName /\ want.id \in ObjId
  /\ IsFiniteSet(Existing(objects)) /\ api.ops \subseteq Crud

\* The history has kept up with the server.
HistoryIsUpToDate ==
  objPc # "idle" =>
    /\ Named(objects, want.name) \subseteq had
    /\ Cardinality(Named(objects, want.name)) = 1 => Named(objects, want.name) \subseteq alone
    /\ Named(objects, want.name) = {} => lacked

\* What was read before stays true of the history.
ReadEarlier ==
  /\ listed \in Seq([id : ObjId, name : ObjName \cup {NoName}])
  /\ objPc \in {"idle", "request"} => listed = <<>>
  /\ objPc = "gather" =>
       /\ api.byName = "gathered" /\ want.op = "byName"
       /\ \A k \in DOMAIN listed : listed[k].name = want.name => listed[k].id \in had
  /\ objPc = "again" =>
       /\ api.byName = "again" /\ want.op = "byName" /\ want.id \in alone
       /\ objects[want.id] = NoName => vanished

LookIInv == ObjTypeOK /\ CallShape /\ HistoryIsUpToDate /\ ReadEarlier

\* Of a list the scan takes an element with the name, the only one unless the first will do.
LEMMA ScanFinds ==
  ASSUME NEW list, NEW first, DOMAIN list \subseteq Nat
  PROVE  \/ /\ Scanned(list, first) = Gives("ErrNotfound", 0, NoName)
            /\ \A k \in DOMAIN list : list[k].name # want.name
         \/ Scanned(list, first) = Gives("ErrMultipleMatch", 0, NoName)
         \/ \E m \in DOMAIN list :
              /\ list[m].name = want.name
              /\ Scanned(list, first) = Gives("object", list[m].id, want.name)
              /\ ~first => \A k \in DOMAIN list : list[k].name = want.name => k = m
<1> DEFINE M == Matches(list)
<1>1. M \subseteq Nat /\ M = {k \in DOMAIN list : list[k].name = want.name}
  BY DEF Matches
<1>2. CASE M = {}
  BY <1>1, <1>2 DEF Scanned
<1>3. CASE M # {} /\ ~first /\ \E j, k \in M : j # k
  BY <1>3 DEF Scanned
<1>4. CASE M # {} /\ ~(~first /\ \E j, k \in M : j # k)
  <2>1. PICK m \in M : \A y \in M : m <= y
    BY <1>1, <1>4, LeastNumber
  <2>2. Min(M) \in M
    BY <2>1 DEF Min
  <2>3. Scanned(list, first) = Gives("object", list[Min(M)].id, want.name)
    BY <1>4 DEF Scanned
  <2> QED BY <1>1, <1>4, <2>2, <2>3
<1> QED BY <1>2, <1>3, <1>4

LEMMA OpsAreCrud == \A a \in Apis : a.ops \subseteq Crud
BY DEF Apis, Api, Crud, NoList, AgentProfiles, Agents, BlueprintStatuses, Configlets,
   DeviceProfiles, InterfaceMaps, LogicalDevices, ModularProfiles, PropertySets, RackTypes,
   StreamingConfigs, Systems, Tags, TelemetryRegistry, Templates, TemplateLookup,
   RackBasedTemplates, PodBasedTemplates, L3CollapsedTemplates, AsnPools, VniPools, IntPools,
   IntegerPools, IpPools, IbaDashboards, IbaPredefinedProbes, IbaProbes, IbaWidgets,
   BlueprintConfiglets, BlueprintPropertySets, Policies, RemoteGateways, RoutingPolicies,
   DefaultRoutingPolicy, RoutingZoneConstraints, SecurityZones, VirtualNetworks,
   SubinterfaceLinks, AllocGroups, ConfigTemplates, GroupGenerators, FreeformLinks,
   FreeformPropertySets, RaGroupGenerators, LocalPoolGenerators, RaLocalPools, RaResources,
   ResourceGenerators, RaGroups, FreeformSystems

LEMMA LookInitially == ObjInit => LookIInv
<1> SUFFICES ASSUME ObjInit PROVE LookIInv
  OBVIOUS
<1>1. ObjTypeOK
  <2>1. <<>> \in Seq(ObjId)
    BY EmptySeq
  <2> QED BY <2>1 DEF ObjInit, ObjTypeOK, NoCall
<1>2. CallShape
  BY OpsAreCrud DEF ObjInit, CallShape, NoCall
<1>3. HistoryIsUpToDate /\ ReadEarlier
  BY EmptySeq DEF ObjInit, HistoryIsUpToDate, ReadEarlier
<1> QED BY <1>1, <1>2, <1>3 DEF LookIInv

\* A call that has returned leaves nothing behind.
LEMMA ObjReturns ==
  ASSUME LookIInv, NEW result, ObjReturn(result),
         objects' \in [ObjId -> ObjName \cup {NoName}], IsFiniteSet(Existing(objects'))
  PROVE  LookIInv'
<1>1. <<>> \in Seq(ObjId)
  BY EmptySeq
<1>2. ObjTypeOK'
  BY <1>1 DEF LookIInv, ObjTypeOK, ObjReturn, NoCall
<1>3. CallShape'
  BY DEF LookIInv, CallShape, ObjReturn, NoCall
<1>4. HistoryIsUpToDate' /\ ReadEarlier'
  BY EmptySeq DEF HistoryIsUpToDate, ReadEarlier, ObjReturn
<1> QED BY <1>2, <1>3, <1>4 DEF LookIInv

\* One object made, renamed or deleted.
LEMMA OneChange ==
  ASSUME LookIInv, NEW i \in ObjId, NEW n \in ObjName \cup {NoName},
         objects' = [objects EXCEPT ![i] = n]
  PROVE  objects' \in [ObjId -> ObjName \cup {NoName}] /\ IsFiniteSet(Existing(objects'))
<1>1. objects' \in [ObjId -> ObjName \cup {NoName}]
  BY DEF LookIInv, ObjTypeOK
<1>2. Existing(objects') \subseteq Existing(objects) \cup {i}
  BY DEF LookIInv, ObjTypeOK, Existing
<1>3. IsFiniteSet(Existing(objects) \cup {i})
  BY FS_AddElement DEF LookIInv, CallShape
<1> QED BY <1>1, <1>2, <1>3, FS_Subset

\* The list as a server sends it that has the objects in the order ids.
Listing(ids) == [k \in DOMAIN ids |-> [id |-> ids[k], name |-> objects[ids[k]]]]

\* What the scan of one list finds is so at that moment.
LEMMA FoundInList ==
  ASSUME LookIInv, objPc # "idle", NEW ids \in SetToSeqs(Existing(objects)), NEW first
  PROVE  LET found == Scanned(Listing(ids), first)
         IN  /\ found.what = "object" =>
                  /\ found.id \in ObjId /\ objects[found.id] # NoName /\ found.id \in had
                  /\ ~first => found.id \in alone
             /\ found.what = "ErrNotfound" => lacked
<1> DEFINE found == Scanned(Listing(ids), first)
           now == Named(objects, want.name)
<1>1. /\ DOMAIN ids \subseteq Nat /\ \A k \in DOMAIN ids : ids[k] \in Existing(objects)
      /\ \A i \in Existing(objects) : \E k \in DOMAIN ids : ids[k] = i
  BY ListsOf DEF LookIInv, CallShape
<1>2. /\ DOMAIN Listing(ids) = DOMAIN ids
      /\ \A k \in DOMAIN ids : Listing(ids)[k].id = ids[k] /\ Listing(ids)[k].name = objects[ids[k]]
  BY DEF Listing
<1>3. now \subseteq Existing(objects)
  BY NoNameAssumption DEF LookIInv, CallShape, Named, Existing
<1>4. /\ now \subseteq had /\ (Cardinality(now) = 1 => now \subseteq alone) /\ (now = {} => lacked)
  BY DEF LookIInv, HistoryIsUpToDate
<1> HIDE DEF now
<1>5. CASE found = Gives("ErrNotfound", 0, NoName)
           /\ \A k \in DOMAIN ids : objects[ids[k]] # want.name
  <2>1. now = {}
    BY <1>1, <1>3, <1>5 DEF now, Named
  <2> QED BY <1>4, <1>5, <2>1 DEF Gives
<1>6. CASE found = Gives("ErrMultipleMatch", 0, NoName)
  BY <1>6 DEF Gives
<1>7. ASSUME NEW m \in DOMAIN ids, objects[ids[m]] = want.name,
             found = Gives("object", ids[m], want.name),
             ~first => \A k \in DOMAIN ids : objects[ids[k]] = want.name => k = m
      PROVE  /\ found.what = "object" =>
                  /\ found.id \in ObjId /\ objects[found.id] # NoName /\ found.id \in had
                  /\ ~first => found.id \in alone
             /\ found.what = "ErrNotfound" => lacked
  <2>1. ids[m] \in now /\ ids[m] \in ObjId /\ objects[ids[m]] # NoName
    BY <1>1, <1>7 DEF now, Named, Existing
  <2>2. found.what = "object" /\ found.id = ids[m]
    BY <1>7 DEF Gives
  <2>3. ASSUME ~first PROVE ids[m] \in alone
    <3>1. now = {ids[m]}
      BY <1>1, <1>3, <1>7, <2>1, <2>3 DEF now, Named
    <3>2. Cardinality(now) = 1
      BY <3>1, FS_Singleton
    <3> QED BY <1>4, <2>1, <3>2
  <2> QED BY <1>4, <2>1, <2>2, <2>3
<1>8. \/ /\ found = Gives("ErrNotfound", 0, NoName)
         /\ \A k \in DOMAIN ids : objects[ids[k]] # want.name
      \/ found = Gives("ErrMultipleMatch", 0, NoName)
      \/ \E m \in DOMAIN ids :
           /\ objects[ids[m]] = want.name /\ found = Gives("object", ids[m], want.name)
           /\ ~first => \A k \in DOMAIN ids : objects[ids[k]] = want.name => k = m
  BY <1>1, <1>2, ScanFinds
<1> QED BY <1>5, <1>6, <1>7, <1>8

LEMMA LookStep == LookIInv /\ [ObjNext]_objVars => LookIInv'
<1> SUFFICES ASSUME LookIInv, [ObjNext]_objVars PROVE LookIInv'
  OBVIOUS
<1> USE DEF LookIInv, ObjTypeOK, CallShape, HistoryIsUpToDate, ReadEarlier
<1>1. CASE Other
  <2>1. PICK i \in ObjId, n \in ObjName \cup {NoName} :
          /\ objects' = [objects EXCEPT ![i] = n]
          /\ vanished' = (vanished \/ (n = NoName /\ objPc # "idle"))
    BY <1>1 DEF Other
  <2>2. objects' \in [ObjId -> ObjName \cup {NoName}] /\ IsFiniteSet(Existing(objects'))
    BY <2>1, OneChange
  <2>3. UNCHANGED <<api, objPc, want, listed, toGet, objResult>>
    BY <1>1 DEF Other
  <2>4. CASE objPc = "idle"
    BY <1>1, <2>2, <2>3, <2>4 DEF Other
  <2>5. CASE objPc # "idle"
    <3> DEFINE now == Named(objects', want.name)
    <3>1. /\ had' = had \cup now /\ lacked' = (lacked \/ now = {})
          /\ alone' = alone \cup (IF Cardinality(now) = 1 THEN now ELSE {})
      BY <1>1, <2>5 DEF Other, Witness
    <3>2. now \subseteq ObjId
      BY DEF Named
    <3>3. had' \subseteq ObjId /\ alone' \subseteq had' /\ alone \subseteq alone' /\ had \subseteq had'
      BY <3>1, <3>2
    <3>4. ObjTypeOK' /\ CallShape'
      BY <2>2, <2>3, <3>3
    <3>5. HistoryIsUpToDate'
      BY <2>3, <3>1
    <3>6. ASSUME objPc = "again" PROVE objects'[want.id] = NoName => vanished'
      BY <2>1, <2>5, <3>6
    <3>7. ReadEarlier'
      BY <2>3, <3>3, <3>6
    <3> QED BY <3>4, <3>5, <3>7
  <2> QED BY <2>4, <2>5
<1>2. CASE CallObject
  <2>1. PICK op \in Crud \cup {"byName"}, i \in ObjId, n \in ObjName :
          want' = [op |-> op, id |-> i, name |-> n]
    BY <1>2 DEF CallObject
  <2>2. /\ objPc' = "request" /\ had' = Named(objects, want'.name)
        /\ alone' = (IF Cardinality(had') = 1 THEN had' ELSE {}) /\ lacked' = (had' = {})
        /\ UNCHANGED <<objects, api, listed, toGet, others>> /\ objPc = "idle"
    BY <1>2 DEF CallObject
  <2>3. Named(objects, want'.name) \subseteq ObjId
    BY DEF Named
  <2>4. ObjTypeOK' /\ CallShape'
    BY <2>1, <2>2, <2>3
  <2>5. HistoryIsUpToDate'
    BY <2>2
  <2>6. ReadEarlier'
    BY <2>2
  <2> QED BY <2>4, <2>5, <2>6
<1>3. CASE ObjFails
  BY <1>3, ObjReturns DEF ObjFails
<1>4. CASE ReadMany
  BY <1>4, ObjReturns DEF ReadMany
<1>5. CASE ReadOne
  BY <1>5, ObjReturns DEF ReadOne
<1>6. CASE CreateOne
  BY <1>6, ObjReturns, OneChange DEF CreateOne
<1>7. CASE UpdateOne
  <2>1. PICK result : ObjReturn(result)
    BY <1>7 DEF UpdateOne
  <2>2. UNCHANGED objects \/ objects' = [objects EXCEPT ![want.id] = want.name]
    BY <1>7 DEF UpdateOne
  <2>3. want.id \in ObjId /\ want.name \in ObjName
    BY <1>7 DEF UpdateOne
  <2> QED BY <2>1, <2>2, <2>3, ObjReturns, OneChange
<1>8. CASE DeleteOne
  <2>1. PICK result : ObjReturn(result)
    BY <1>8 DEF DeleteOne
  <2>2. UNCHANGED objects \/ objects' = [objects EXCEPT ![want.id] = NoName]
    BY <1>8 DEF DeleteOne
  <2>3. want.id \in ObjId /\ want.name \in ObjName
    BY <1>8 DEF DeleteOne
  <2> QED BY <2>1, <2>2, <2>3, ObjReturns, OneChange
<1>9. CASE LookUp
  <2>1. UNCHANGED objects /\ objPc = "request" /\ want.op = "byName" /\ listed = <<>>
    BY <1>9 DEF LookUp
  <2>2. PICK ids \in SetToSeqs(Existing(objects)) :
          LET found == Scanned(Listing(ids), api.byName = "first")
          IN  \/ /\ api.byName = "gathered" /\ toGet' = ids /\ objPc' = "gather"
                 /\ UNCHANGED <<api, want, listed, objResult, others, objHistory>>
              \/ /\ api.byName = "again" /\ found.what = "object"
                 /\ want' = [want EXCEPT !.id = found.id] /\ objPc' = "again"
                 /\ UNCHANGED <<api, listed, toGet, objResult, others, objHistory>>
              \/ ObjReturn(found)
    BY <1>9 DEF LookUp, Listing
  <2> DEFINE found == Scanned(Listing(ids), api.byName = "first")
  <2>3. ids \in Seq(ObjId)
    <3>1. Existing(objects) \subseteq ObjId
      BY DEF Existing
    <3> QED BY <3>1, ListsOf, SeqMonotonic
  <2>4. CASE ObjReturn(found)
    BY <2>1, <2>4, ObjReturns
  <2>5. CASE /\ api.byName = "gathered" /\ toGet' = ids /\ objPc' = "gather"
             /\ UNCHANGED <<api, want, listed, objResult, others, objHistory>>
    BY <2>1, <2>3, <2>5, EmptySeq DEF objHistory
  <2>6. CASE /\ api.byName = "again" /\ found.what = "object"
             /\ want' = [want EXCEPT !.id = found.id] /\ objPc' = "again"
             /\ UNCHANGED <<api, listed, toGet, objResult, others, objHistory>>
    <3>1. found.id \in alone /\ objects[found.id] # NoName /\ found.id \in ObjId
      BY <2>1, <2>6, FoundInList
    <3>2. /\ want'.op = want.op /\ want'.id = found.id /\ want'.name = want.name
          /\ want' = [op |-> want'.op, id |-> want'.id, name |-> want'.name]
      <4> HIDE DEF found
      <4> QED BY <2>6
    <3> HIDE DEF found
    <3> QED BY <2>1, <2>6, <3>1, <3>2 DEF objHistory
  <2> QED BY <2>2, <2>4, <2>5, <2>6
<1>10. CASE Gather
  <2>1. UNCHANGED objects /\ objPc = "gather"
    BY <1>10 DEF Gather
  <2>2. CASE \E result : ObjReturn(result)
    BY <2>1, <2>2, ObjReturns
  <2>3. CASE /\ toGet # <<>>
             /\ listed' = Append(listed, [id |-> Head(toGet), name |-> objects[Head(toGet)]])
             /\ toGet' = Tail(toGet)
             /\ UNCHANGED <<api, objPc, want, objResult, others, objHistory>>
    <3> DEFINE new == [id |-> Head(toGet), name |-> objects[Head(toGet)]]
    <3>1. Head(toGet) \in ObjId /\ toGet' \in Seq(ObjId)
      BY <2>3, HeadTailProperties
    <3>2. new \in [id : ObjId, name : ObjName \cup {NoName}]
      BY <3>1
    <3>3. /\ listed' \in Seq([id : ObjId, name : ObjName \cup {NoName}])
          /\ DOMAIN listed' = 1 .. Len(listed) + 1 /\ DOMAIN listed = 1 .. Len(listed)
          /\ Len(listed) \in Nat
          /\ \A k \in 1 .. Len(listed) : listed'[k] = listed[k]
          /\ listed'[Len(listed) + 1] = new
      <4> HIDE DEF new
      <4> QED BY <2>3, <3>2 DEF new
    <3>4. new.name = want.name => new.id \in had
      BY <2>1, <3>1 DEF Named
    <3>5. ASSUME NEW k \in DOMAIN listed', listed'[k].name = want.name PROVE listed'[k].id \in had
      <4>1. k \in DOMAIN listed \/ k = Len(listed) + 1
        BY <3>3, <3>5
      <4> HIDE DEF new
      <4> QED BY <2>1, <3>3, <3>4, <3>5, <4>1
    <3>6. ReadEarlier'
      BY <2>1, <2>3, <3>3, <3>5 DEF objHistory
    <3> QED BY <2>1, <2>3, <3>1, <3>6 DEF objHistory
  <2> QED BY <1>10, <2>2, <2>3 DEF Gather
<1>11. CASE ReadAgain
  BY <1>11, ObjReturns DEF ReadAgain
<1>12. CASE UNCHANGED objVars
  BY <1>12 DEF objVars, objHistory
<1> QED BY <1>1, <1>2, <1>3, <1>4, <1>5, <1>6, <1>7, <1>8, <1>9, <1>10, <1>11, <1>12 DEF ObjNext

\* A call that returns now says what was true while it ran.
LEMMA LookAnswers ==
  ASSUME LookIInv, [ObjNext]_objVars, want.op = "byName", objPc # "idle", objPc' = "idle"
  PROVE  /\ objResult'.what = "object" =>
              /\ objResult'.id \in had
              /\ api.byName \in {"unique", "again"} => objResult'.id \in alone
         /\ objResult'.what = "ErrNotfound" =>
              \/ lacked \/ api.byName = "gathered"
              \/ vanished /\ api.byName = "again"
<1>1. ~Other /\ ~CallObject /\ ~UNCHANGED objVars
  BY DEF Other, CallObject, objVars
<1>2. ~ReadMany /\ ~ReadOne /\ ~CreateOne /\ ~UpdateOne /\ ~DeleteOne
  BY DEF ReadMany, ReadOne, CreateOne, UpdateOne, DeleteOne
<1>3. CASE ObjFails
  BY <1>3 DEF ObjFails, ObjReturn, Gives
<1>4. CASE LookUp
  <2>1. PICK ids \in SetToSeqs(Existing(objects)) :
          /\ objResult' = Scanned(Listing(ids), api.byName = "first")
          /\ api.byName # "gathered"
    BY <1>4 DEF LookUp, Listing, ObjReturn
  <2> DEFINE found == Scanned(Listing(ids), api.byName = "first")
  <2>2. /\ found.what = "object" =>
             found.id \in had /\ (~(api.byName = "first") => found.id \in alone)
        /\ found.what = "ErrNotfound" => lacked
    BY FoundInList
  <2>3. objResult' = found
    BY <2>1
  <2> HIDE DEF found
  <2> QED BY <2>2, <2>3
<1>5. CASE Gather
  <2>1. api.byName = "gathered" /\ objPc = "gather"
    BY <1>5 DEF Gather, LookIInv, ReadEarlier
  <2>2. CASE objResult' = Missing("get")
    BY <2>1, <2>2 DEF Missing, Gives
  <2>3. CASE objResult' = Scanned(listed, FALSE)
    <3>1. DOMAIN listed \subseteq Nat
      BY DEF LookIInv, ReadEarlier
    <3>2. \A k \in DOMAIN listed : listed[k].name = want.name => listed[k].id \in had
      BY <2>1 DEF LookIInv, ReadEarlier
    <3> DEFINE found == Scanned(listed, FALSE)
    <3>3. \/ found \in {Gives("ErrNotfound", 0, NoName), Gives("ErrMultipleMatch", 0, NoName)}
          \/ \E m \in DOMAIN listed :
               listed[m].name = want.name /\ found = Gives("object", listed[m].id, want.name)
      BY <3>1, ScanFinds
    <3> HIDE DEF found
    <3>4. found.what = "object" => found.id \in had
      BY <3>2, <3>3 DEF Gives
    <3>5. objResult' = found
      BY <2>3 DEF found
    <3> QED BY <2>1, <3>4, <3>5
  <2> QED BY <1>5, <2>1, <2>2, <2>3 DEF Gather, ObjReturn
<1>6. CASE ReadAgain
  <2>1. /\ api.byName = "again" /\ want.id \in alone /\ alone \subseteq had
        /\ objects[want.id] = NoName => vanished
    BY <1>6 DEF ReadAgain, LookIInv, ReadEarlier, ObjTypeOK
  <2>2. CASE objects[want.id] = NoName
    BY <1>6, <2>1, <2>2 DEF ReadAgain, ObjReturn, Missing, Gives
  <2>3. CASE objects[want.id] # NoName
    BY <1>6, <2>1, <2>3 DEF ReadAgain, ObjReturn, Gives
  <2> QED BY <2>2, <2>3
<1> QED BY <1>1, <1>2, <1>3, <1>4, <1>5, <1>6 DEF ObjNext

\* Every variable of the lookups has its type.
THEOREM LookTypeCorrect == ObjSpec => []ObjTypeOK
<1>1. LookIInv => ObjTypeOK
  BY DEF LookIInv
<1> QED BY <1>1, LookInitially, LookStep, PTL DEF ObjSpec

\* A lookup by name says what was true at some moment of the call.
THEOREM LookupHonestHolds == ObjSpec => LookupHonest
<1>1. LookIInv /\ [ObjNext]_objVars =>
        [want.op = "byName" /\ objPc # "idle" /\ objPc' = "idle" =>
           /\ objResult'.what = "object" =>
                /\ objResult'.id \in had
                /\ api.byName \in {"unique", "again"} => objResult'.id \in alone
           /\ objResult'.what = "ErrNotfound" =>
                \/ lacked \/ api.byName = "gathered"
                \/ vanished /\ api.byName = "again"]_objVars
  BY LookAnswers
<1> QED BY <1>1, LookInitially, LookStep, PTL DEF ObjSpec, LookupHonest
-----------------------------------------------------------------------------
(* ApplicationPoints: a map collected page by page.                        *)

PointTypeOK ==
  /\ points \in Seq(Point)
  /\ uses \in [Point -> [Ct -> States \cup {"invalid"}]]
  /\ pagePc \in {"idle", "page"} /\ iterationCount \in Nat
  /\ pagePc = "page" => mapped = NoMap

\* What has been true of the server includes what is, and what was listed all the time is listed.
HistoryCovers ==
  pagePc = "page" => Facts(points, uses) \subseteq was /\ always \subseteq Listed(points, uses)

\* The call wants what the server says of the point p.
Wanted(p) == asked.force \/ p \in asked.interesting

\* The map has what was true, and unless the pages shifted, all that was wanted of their points.
Collected ==
  pagePc = "page" =>
    /\ filled \subseteq was
    /\ ~shifted =>
         \A i \in Found, c \in Ct :
           Number(i) <= iterationCount * PageSize /\ <<points[i], c>> \in always /\ Wanted(points[i])
             => \E f \in filled : f[1] = points[i] /\ f[2] = c

PointIInv == PointTypeOK /\ HistoryCovers /\ Collected

LEMMA PointInitially == PointInit => PointIInv
<1> SUFFICES ASSUME PointInit PROVE PointIInv
  OBVIOUS
<1>1. PICK S \in SUBSET Point : IsFiniteSet(S) /\ points \in SetToSeqs(S)
  BY DEF PointInit
<1>2. points \in Seq(Point)
  BY <1>1, ListsOf, SeqMonotonic
<1> QED BY <1>2 DEF PointInit, PointIInv, PointTypeOK, HistoryCovers, Collected

LEMMA PositionsAreNumbers ==
  ASSUME NEW s \in Seq(Point)
  PROVE  DOMAIN s \subseteq Nat /\ \A F \in SUBSET DOMAIN s : F \subseteq Nat /\ IsFiniteSet(F)
<1>1. DOMAIN s = 1..Len(s) /\ Len(s) \in Nat
  BY LenProperties
<1>2. IsFiniteSet(1..Len(s))
  BY <1>1, FS_Interval
<1> QED BY <1>1, <1>2, FS_Subset

\* What a page adds to the map.
LEMMA Filling ==
  ASSUME PointIInv, pagePc = "page", NEW page \in SUBSET Found
  PROVE  /\ FillMap(page) \subseteq was
         /\ \A f \in filled : \E g \in FillMap(page) : g[1] = f[1] /\ g[2] = f[2]
         /\ \A i \in page, c \in Ct : Wanted(points[i]) /\ <<points[i], c>> \in always =>
              \E g \in FillMap(page) : g[1] = points[i] /\ g[2] = c
<1> DEFINE taken == {p \in {points[i] : i \in page} : asked.force \/ p \in asked.interesting}
           new == {f \in Facts(points, uses) : f[1] \in taken}
<1>1. FillMap(page) = {f \in filled : ~\E g \in new : g[1] = f[1] /\ g[2] = f[2]} \cup new
  BY DEF FillMap
<1>2. new \subseteq was /\ filled \subseteq was
  BY DEF PointIInv, HistoryCovers, Collected
<1>3. ASSUME NEW i \in page, NEW c \in Ct, Wanted(points[i]), <<points[i], c>> \in always
      PROVE  \E g \in new : g[1] = points[i] /\ g[2] = c
  <2>1. <<points[i], c>> \in Listed(points, uses)
    BY <1>3 DEF PointIInv, HistoryCovers
  <2> DEFINE g == <<points[i], c, uses[points[i]][c]>>
  <2>2. g \in Facts(points, uses)
    BY <2>1 DEF Facts
  <2>3. g[1] \in taken
    BY <1>3 DEF Wanted
  <2> QED BY <2>2, <2>3
<1> HIDE DEF new
<1> QED BY <1>1, <1>2, <1>3

\* A page that is not full is the last one.
LEMMA NothingAfterShortPage ==
  ASSUME PointTypeOK, Cardinality(Page) < PageSize, NEW i \in Found
  PROVE  Number(i) <= iterationCount * PageSize \/ i \in Page
<1> DEFINE skip == iterationCount * PageSize
<1>1. Found \subseteq Nat /\ IsFiniteSet(Found)
  BY PositionsAreNumbers DEF PointTypeOK, Found
<1>2. \A j : Number(j) = Cardinality(UpTo(Found, j))
  BY DEF Number, UpTo
<1>3. Number(i) \in Nat /\ skip \in Nat /\ PageSize \in Nat
  <2>1. Cardinality(UpTo(Found, i)) \in Nat
    BY <1>1, NumberedFromOne
  <2>2. iterationCount \in Nat /\ PageSize \in Nat
    BY PageAssumption DEF PointTypeOK
  <2> QED BY <1>2, <2>1, <2>2
<1>4. Page = Stretch(Found, skip, PageSize)
  BY <1>2 DEF Page, Stretch
<1> HIDE DEF skip
<1>5. ASSUME skip + PageSize <= Number(i) PROVE FALSE
  <2>1. PageSize <= Cardinality(Page) /\ IsFiniteSet(Page)
    <3>1. skip + PageSize <= Cardinality(UpTo(Found, i))
      BY <1>2, <1>5
    <3> QED BY <1>1, <1>3, <1>4, <3>1, FullStretch
  <2>2. Cardinality(Page) \in Nat
    BY <2>1, FS_CardinalityType
  <2> QED BY <1>3, <2>1, <2>2
<1>6. Number(i) < skip + PageSize
  BY <1>3, <1>5
<1>7. Number(i) <= skip \/ Number(i) - skip \in 1..PageSize
  BY <1>3, <1>6
<1> QED BY <1>2, <1>4, <1>7 DEF skip, Page

LEMMA PointStep == PointIInv /\ [PointNext]_pointVars => PointIInv'
<1> SUFFICES ASSUME PointIInv, [PointNext]_pointVars PROVE PointIInv'
  OBVIOUS
<1> USE DEF PointIInv, PointTypeOK, HistoryCovers
<1>1. CASE AskPoints
  <2>1. /\ pagePc' = "page" /\ iterationCount' = 0 /\ filled' = {} /\ shifted' = FALSE
        /\ UNCHANGED <<points, uses>> /\ mapped' = NoMap
        /\ was' = Facts(points, uses) /\ always' = Listed(points, uses)
    BY <1>1 DEF AskPoints
  <2>2. PointTypeOK' /\ HistoryCovers'
    BY <2>1
  <2>3. ASSUME NEW i \in Found' PROVE ~(Number(i)' <= iterationCount' * PageSize)
    <3>1. Found' \subseteq Nat /\ IsFiniteSet(Found')
      <4>1. Found' \subseteq DOMAIN points
        BY <2>1 DEF Found
      <4> QED BY <4>1, PositionsAreNumbers
    <3>2. Number(i)' = Cardinality(UpTo(Found', i))
      BY DEF Number, UpTo
    <3>3. Number(i)' \in Nat \ {0}
      BY <2>3, <3>1, <3>2, NumberedFromOne
    <3> QED BY <2>1, <3>3, PageAssumption
  <2>4. Collected'
    BY <2>1, <2>3 DEF Collected
  <2> QED BY <2>2, <2>4
<1>2. CASE pagePc' = "idle" /\ UNCHANGED <<points, uses>> /\ iterationCount' = 0
  BY <1>2 DEF Collected
<1>3. CASE ReadPage
  <2>1. CASE LastPage(Cardinality(Page))
    BY <1>2, <1>3, <2>1 DEF ReadPage, PointsReturn
  <2>2. CASE ~LastPage(Cardinality(Page))
    <3>1. /\ filled' = FillMap(Page) /\ iterationCount' = iterationCount + 1 /\ pagePc = "page"
          /\ UNCHANGED <<points, uses, pagePc, asked, mapped, changes, was, always, shifted>>
      BY <1>3, <2>2 DEF ReadPage
    <3>2. PointTypeOK' /\ HistoryCovers'
      BY <3>1
    <3>3. Found' = Found /\ \A i : Number(i)' = Number(i)
      BY <3>1 DEF Found, Number
    <3>4. /\ FillMap(Page) \subseteq was
          /\ \A f \in filled : \E g \in FillMap(Page) : g[1] = f[1] /\ g[2] = f[2]
          /\ \A i \in Page, c \in Ct : Wanted(points[i]) /\ <<points[i], c>> \in always =>
               \E g \in FillMap(Page) : g[1] = points[i] /\ g[2] = c
      <4>1. Page \in SUBSET Found
        BY DEF Page
      <4> HIDE DEF PointIInv
      <4> QED BY <3>1, <4>1, Filling
    <3>5. ASSUME NEW i \in Found, Number(i) <= iterationCount' * PageSize
          PROVE  Number(i) <= iterationCount * PageSize \/ i \in Page
      <4>1. Number(i) \in Nat
        <5>1. Found \subseteq Nat /\ IsFiniteSet(Found)
          BY PositionsAreNumbers DEF Found
        <5>2. Number(i) = Cardinality(UpTo(Found, i))
          BY DEF Number, UpTo
        <5> QED BY <5>1, <5>2, NumberedFromOne
      <4>2. iterationCount' * PageSize = iterationCount * PageSize + PageSize
            /\ iterationCount * PageSize \in Nat /\ PageSize \in Nat
        BY <3>1, PageAssumption
      <4> DEFINE skip == iterationCount * PageSize
      <4>3. Number(i) <= skip \/ Number(i) - skip \in 1..PageSize
        <5> HIDE DEF skip
        <5> QED BY <3>5, <4>1, <4>2 DEF skip
      <4> QED BY <4>3 DEF Page
    <3>6. ASSUME ~shifted, NEW i \in Found, NEW c \in Ct, Number(i) <= iterationCount' * PageSize,
                 <<points[i], c>> \in always, Wanted(points[i])
          PROVE  \E f \in FillMap(Page) : f[1] = points[i] /\ f[2] = c
      <4>1. CASE i \in Page
        BY <3>4, <3>6, <4>1
      <4>2. CASE Number(i) <= iterationCount * PageSize
        <5>1. PICK f \in filled : f[1] = points[i] /\ f[2] = c
          BY <3>1, <3>6, <4>2 DEF Collected
        <5> QED BY <3>4, <5>1
      <4> QED BY <3>5, <3>6, <4>1, <4>2
    <3>7. Collected'
      BY <3>1, <3>3, <3>4, <3>6 DEF Collected, Wanted
    <3> QED BY <3>2, <3>7
  <2> QED BY <2>1, <2>2
<1>4. ASSUME Watch, points' \in Seq(Point), uses' \in [Point -> [Ct -> States \cup {"invalid"}]],
             shifted => shifted',
             pagePc = "page" => shifted' \/ (Found' = Found /\ points' = points)
      PROVE  PointIInv'
  <2>1. /\ UNCHANGED <<pagePc, asked, iterationCount, filled, mapped>>
        /\ pagePc = "page" => /\ was' = was \cup Facts(points', uses')
                              /\ always' = always \cap Listed(points', uses')
    BY <1>4 DEF Watch
  <2>2. PointTypeOK' /\ HistoryCovers'
    BY <1>4, <2>1
  <2>3. Collected'
    <3>1. Found' = Found => \A i : Number(i)' = Number(i)
      BY DEF Number
    <3> QED BY <1>4, <2>1, <3>1 DEF Collected, Wanted
  <2> QED BY <2>2, <2>3
<1>5. CASE PatchPoints
  <2>1. PICK p \in ToSet(points), new \in [Ct -> States \cup {"invalid"}] :
          /\ \A c \in Ct : (new[c] = "invalid") <=> (uses[p][c] = "invalid")
          /\ uses' = [uses EXCEPT ![p] = new]
    BY <1>5 DEF PatchPoints
  <2>2. Watch /\ UNCHANGED <<points, shifted>>
    BY <1>5 DEF PatchPoints
  <2>3. uses' \in [Point -> [Ct -> States \cup {"invalid"}]]
    BY <2>1
  <2>4. \A i \in DOMAIN points : points[i] \in Point
    BY LenProperties
  <2>5. \A q \in Point, c \in Ct : uses'[q][c] = "invalid" <=> uses[q][c] = "invalid"
    BY <2>1
  <2>6. UNCHANGED asked
    BY <2>2 DEF Watch
  <2>7. Found' = Found
    BY <2>2, <2>4, <2>5, <2>6 DEF Found
  <2> QED BY <1>4, <2>2, <2>3, <2>7
<1>6. CASE Revalidate
  <2>1. Watch /\ UNCHANGED points /\ shifted' = (shifted \/ pagePc = "page")
    BY <1>6 DEF Revalidate
  <2>2. uses' \in [Point -> [Ct -> States \cup {"invalid"}]]
    <3>1. PICK p \in ToSet(points), c \in Ct :
            uses' = [uses EXCEPT ![p][c] = IF @ = "invalid" THEN "unused" ELSE "invalid"]
      BY <1>6 DEF Revalidate
    <3>2. p \in Point
      BY LenProperties DEF ToSet
    <3> QED BY <3>1, <3>2 DEF States
  <2> QED BY <1>4, <2>1, <2>2
<1>7. CASE MovePoints
  <2>1. Watch /\ UNCHANGED uses /\ shifted' = (shifted \/ pagePc = "page")
    BY <1>7 DEF MovePoints
  <2>2. points' \in Seq(Point)
    <3>1. Len(points) \in Nat /\ DOMAIN points = 1..Len(points)
          /\ \A i \in 1..Len(points) : points[i] \in Point
      BY LenProperties
    <3>2. ASSUME NEW m \in Int, NEW n \in Int, 1 <= m, n <= Len(points)
          PROVE  SubSeq(points, m, n) \in Seq(Point)
      BY <3>1, <3>2, SubSeqProperties
    <3>3. ASSUME NEW p \in Point, NEW i \in 1..Len(points)+1 PROVE InsertAt(points, i, p) \in Seq(Point)
      <4>1. SubSeq(points, 1, i-1) \in Seq(Point) /\ SubSeq(points, i, Len(points)) \in Seq(Point)
        BY <3>1, <3>2
      <4>2. <<p>> \in Seq(Point)
        OBVIOUS
      <4> QED BY <4>1, <4>2, ConcatProperties DEF InsertAt
    <3>4. ASSUME NEW i \in 1..Len(points) PROVE RemoveAt(points, i) \in Seq(Point)
      <4>1. SubSeq(points, 1, i-1) \in Seq(Point) /\ SubSeq(points, i+1, Len(points)) \in Seq(Point)
        BY <3>1, <3>2
      <4> QED BY <4>1, ConcatProperties DEF RemoveAt
    <3> QED BY <1>7, <3>1, <3>3, <3>4 DEF MovePoints
  <2> QED BY <1>4, <2>1, <2>2
<1>8. CASE PageFails
  BY <1>2, <1>8 DEF PageFails, PointsReturn
<1>9. CASE UNCHANGED pointVars
  <2>1. Found' = Found /\ \A i : Number(i)' = Number(i)
    BY <1>9 DEF pointVars, Found, Number
  <2> QED BY <1>9, <2>1 DEF pointVars, Collected, Wanted
<1> QED BY <1>1, <1>3, <1>5, <1>6, <1>7, <1>8, <1>9 DEF PointNext

\* The map that the last page completes.
LEMMA MapIsComplete ==
  ASSUME PointIInv, [PointNext]_pointVars, pagePc = "page", mapped'.what = "map"
  PROVE  /\ mapped'.map \subseteq was
         /\ \A l \in always :
              /\ asked.force \/ l[1] \in asked.interesting
              /\ asked.ct \in {NoCt, l[2]}
              => shifted \/ \E f \in mapped'.map : f[1] = l[1] /\ f[2] = l[2]
<1>1. PointTypeOK /\ mapped = NoMap
  BY DEF PointIInv, PointTypeOK
<1>2. mapped' # mapped
  BY <1>1 DEF NoMap
<1>3. ~AskPoints /\ ~PageFails /\ ~Watch
  BY <1>2 DEF AskPoints, PageFails, PointsReturn, Watch
<1>4. ReadPage
  BY <1>2, <1>3 DEF PointNext, PatchPoints, Revalidate, MovePoints, pointVars
<1> DEFINE full == FillMap(Page)
<1>5. /\ LastPage(Cardinality(Page))
      /\ mapped' = [what |-> "map", map |-> {f \in full : asked.ct \in {NoCt, f[2]}}]
  BY <1>2, <1>4 DEF ReadPage, PointsReturn
<1>6. /\ full \subseteq was
      /\ \A f \in filled : \E g \in full : g[1] = f[1] /\ g[2] = f[2]
      /\ \A i \in Page, c \in Ct : Wanted(points[i]) /\ <<points[i], c>> \in always =>
           \E g \in full : g[1] = points[i] /\ g[2] = c
  <2>1. Page \in SUBSET Found
    BY DEF Page
  <2> QED BY <2>1, Filling
<1> HIDE DEF full
<1>7. mapped'.map = {f \in full : asked.ct \in {NoCt, f[2]}}
  BY <1>5
<1>8. ASSUME NEW l \in always, asked.force \/ l[1] \in asked.interesting, asked.ct \in {NoCt, l[2]}, ~shifted
      PROVE  \E f \in mapped'.map : f[1] = l[1] /\ f[2] = l[2]
  <2>1. l \in Listed(points, uses)
    BY DEF PointIInv, HistoryCovers
  <2>2. PICK i \in DOMAIN points : points[i] = l[1]
    BY <2>1 DEF Listed, ToSet
  <2>3. l = <<points[i], l[2]>> /\ l[2] \in Ct /\ uses[points[i]][l[2]] # "invalid"
    BY <2>1, <2>2 DEF Listed
  <2>4. i \in Found
    BY <1>8, <2>2, <2>3 DEF Found
  <2>5. Number(i) <= iterationCount * PageSize \/ i \in Page
    BY <1>1, <1>5, <2>4, NothingAfterShortPage DEF LastPage
  <2>6. Wanted(points[i])
    BY <1>8, <2>2 DEF Wanted
  <2>7. CASE i \in Page
    <3>1. PICK g \in full : g[1] = points[i] /\ g[2] = l[2]
      BY <1>6, <2>3, <2>6, <2>7
    <3> QED BY <1>7, <1>8, <2>2, <3>1
  <2>8. CASE Number(i) <= iterationCount * PageSize
    <3>1. PICK f \in filled : f[1] = points[i] /\ f[2] = l[2]
      BY <1>8, <2>3, <2>4, <2>6, <2>8 DEF PointIInv, Collected
    <3>2. PICK g \in full : g[1] = f[1] /\ g[2] = f[2]
      BY <1>6, <3>1
    <3> QED BY <1>7, <1>8, <2>2, <3>1, <3>2
  <2> QED BY <2>5, <2>7, <2>8
<1> QED BY <1>6, <1>7, <1>8

\* A map collected page by page is true, and complete unless the pages shifted.
THEOREM PagedReadCompleteHolds == PointSpec => PagedReadComplete
<1>1. PointIInv /\ [PointNext]_pointVars =>
        [pagePc = "page" /\ mapped'.what = "map" =>
           /\ mapped'.map \subseteq was
           /\ \A l \in always :
                /\ asked.force \/ l[1] \in asked.interesting
                /\ asked.ct \in {NoCt, l[2]}
                => shifted \/ \E f \in mapped'.map : f[1] = l[1] /\ f[2] = l[2]]_pointVars
  BY MapIsComplete
<1> QED BY <1>1, PointInitially, PointStep, PTL DEF PointSpec, PagedReadComplete
-----------------------------------------------------------------------------
(* ConnectivityTemplate: a tree is flattened to be written, and found      *)
(* again by following the pointers.                                        *)

\* The numbers of a finite set in their order.
LEMMA SortedLists ==
  ASSUME NEW n \in Nat, NEW S \in SUBSET (1..n)
  PROVE  /\ Sorted(S) \in Seq(S)
         /\ DOMAIN Sorted(S) = 1..Len(Sorted(S)) /\ Len(Sorted(S)) \in Nat
         /\ \A m \in S : \E i \in DOMAIN Sorted(S) : Sorted(S)[i] = m
         /\ \A i \in DOMAIN Sorted(S) : Sorted(S)[i] \in S
         /\ \A i, j \in DOMAIN Sorted(S) : Sorted(S)[i] = Sorted(S)[j] => i = j
<1> DEFINE c == Cardinality(S)
<1>1. S \subseteq Nat /\ IsFiniteSet(S) /\ c \in Nat
  <2>1. IsFiniteSet(1..n)
    BY FS_Interval
  <2>2. IsFiniteSet(S)
    BY <2>1, FS_Subset
  <2> QED BY <2>2, FS_CardinalityType
<1>2. Sorted(S) = [i \in 1..c |-> CHOOSE m \in S : Cardinality(UpTo(S, m)) = i]
  BY DEF Sorted, UpTo
<1>3. ASSUME NEW i \in 1..c PROVE \E m \in S : Cardinality(UpTo(S, m)) = i
  <2>1. S # {}
    BY <1>1, FS_EmptySet
  <2>2. PICK x \in S : \A y \in S : y <= x
    <3>1. \A y \in S : y <= n
      OBVIOUS
    <3> QED BY <1>1, <2>1, <3>1, GreatestNumber
  <2>3. UpTo(S, x) = S
    BY <2>2 DEF UpTo
  <2>4. i \in Nat /\ i # 0 /\ i <= Cardinality(UpTo(S, x))
    BY <1>1, <2>3
  <2> HIDE DEF c
  <2> QED BY <1>1, <2>4, EveryNumberTaken
<1> HIDE DEF c
<1>4. \A i \in 1..c : Sorted(S)[i] \in S /\ Cardinality(UpTo(S, Sorted(S)[i])) = i
  BY <1>2, <1>3
<1>5. DOMAIN Sorted(S) = 1..c /\ Sorted(S) \in [1..c -> S]
  <2>1. DOMAIN Sorted(S) = 1..c
    BY <1>2
  <2>2. Sorted(S) = [i \in 1..c |-> Sorted(S)[i]]
    BY <1>2
  <2> QED BY <1>4, <2>1, <2>2
<1>6. Sorted(S) \in Seq(S) /\ Len(Sorted(S)) = c
  BY <1>1, <1>5, SeqDef, LenProperties
<1>7. ASSUME NEW m \in S PROVE \E i \in 1..c : Sorted(S)[i] = m
  <2> DEFINE i == Cardinality(UpTo(S, m))
  <2>1. UpTo(S, m) \in SUBSET S
    BY DEF UpTo
  <2>2. i \in Nat \ {0} /\ i <= c
    BY <1>1, <2>1, FS_Subset, NumberedFromOne DEF c
  <2>3. i \in 1..c
    BY <1>1, <2>2
  <2>4. PICK y \in S : y = Sorted(S)[i] /\ Cardinality(UpTo(S, y)) = i
    BY <1>4, <2>3
  <2>5. y = m
    <3>1. IsFiniteSet(UpTo(S, m)) /\ IsFiniteSet(UpTo(S, y)) /\ m \in Nat /\ y \in Nat
      BY <1>1, UpToIsFinite
    <3>2. CASE m <= y
      <4>1. UpTo(S, m) \in SUBSET UpTo(S, y)
        <5>1. \A k \in S : k <= m => k <= y
          BY <1>1, <3>1, <3>2
        <5> QED BY <5>1 DEF UpTo
      <4>2. UpTo(S, m) = UpTo(S, y)
        BY <2>4, <3>1, <4>1, FS_Subset
      <4>3. y \in UpTo(S, y)
        BY <3>1 DEF UpTo
      <4>4. y <= m
        BY <4>2, <4>3 DEF UpTo
      <4> QED BY <3>1, <3>2, <4>4
    <3>3. CASE y <= m
      <4>1. UpTo(S, y) \in SUBSET UpTo(S, m)
        <5>1. \A k \in S : k <= y => k <= m
          BY <1>1, <3>1, <3>3
        <5> QED BY <5>1 DEF UpTo
      <4>2. UpTo(S, m) = UpTo(S, y)
        BY <2>4, <3>1, <4>1, FS_Subset
      <4>3. m \in UpTo(S, m)
        BY <3>1 DEF UpTo
      <4>4. m <= y
        BY <4>2, <4>3 DEF UpTo
      <4> QED BY <3>1, <3>3, <4>4
    <3> QED BY <3>1, <3>2, <3>3
  <2> QED BY <2>3, <2>4, <2>5
<1> QED BY <1>1, <1>4, <1>5, <1>6, <1>7

\* The children, the primitives and the pointers of the tree of ct in any forest p.
KidsIn(p, n)   == Sorted({m \in Primitive : p[m] = n})
DrawnIn(p, ct) == {n \in Primitive : Home[n] = ct /\ p[n] # Gone}
TreeIn(p, ct)  == UNION {Pointers(n, KidsIn(p, n)) : n \in {ct} \cup DrawnIn(p, ct)}

\* Every primitive is a child of its parent, once; those with children are in the tree.
LEMMA KidsAre ==
  ASSUME NEW p \in Trees, NEW n
  PROVE  /\ KidsIn(p, n) \in Seq(Primitive)
         /\ ToSet(KidsIn(p, n)) = {m \in Primitive : p[m] = n}
         /\ KidsIn(p, n) # <<>> => 1 \in DOMAIN KidsIn(p, n)
<1> DEFINE S == {m \in Primitive : p[m] = n}
<1>1. Cardinality(Primitive) \in Nat /\ S \in SUBSET (1..Cardinality(Primitive))
  BY HomeAssumption, FS_CardinalityType
<1> HIDE DEF S
<1>2. /\ Sorted(S) \in Seq(S)
      /\ DOMAIN Sorted(S) = 1..Len(Sorted(S)) /\ Len(Sorted(S)) \in Nat
      /\ \A m \in S : \E i \in DOMAIN Sorted(S) : Sorted(S)[i] = m
      /\ \A i \in DOMAIN Sorted(S) : Sorted(S)[i] \in S
  BY <1>1, SortedLists
<1>3. Sorted(S) \in Seq(Primitive)
  <2>1. S \subseteq Primitive
    BY DEF S
  <2> QED BY <1>2, <2>1, SeqMonotonic
<1>4. ToSet(Sorted(S)) = S
  BY <1>2 DEF ToSet
<1>5. Sorted(S) # <<>> => 1 \in DOMAIN Sorted(S)
  <2>1. Len(Sorted(S)) = 0 => Sorted(S) = <<>>
    BY <1>2, EmptySeq
  <2> QED BY <1>2, <2>1
<1> QED BY <1>3, <1>4, <1>5 DEF S, KidsIn

\* The children of a primitive of the tree, and of its root, are primitives of the tree.
LEMMA KidsAreDrawn ==
  ASSUME NEW p \in Trees, NEW ct \in Template, NEW n \in {ct} \cup DrawnIn(p, ct),
         NEW m \in Primitive, p[m] = n
  PROVE  m \in DrawnIn(p, ct) /\ (n \in Primitive => n < m)
<1>1. n # Gone /\ ct \notin Primitive
  BY HomeAssumption, GoneAssumption DEF DrawnIn
<1>2. p[m] = Home[m] \/ (p[m] \in Primitive /\ p[m] < m /\ Home[p[m]] = Home[m])
  BY <1>1 DEF Trees
<1>3. Home[m] \in Template /\ (n \in Primitive => n \notin Template)
  BY HomeAssumption
<1>4. n = ct \/ (n \in Primitive /\ Home[n] = ct)
  BY DEF DrawnIn
<1> QED BY <1>1, <1>2, <1>3, <1>4 DEF DrawnIn

CtTypeOK ==
  /\ parent \in Trees
  /\ visible \subseteq Template
  /\ pipelines \in [Primitive -> BOOLEAN \cup {NoPolicy}]
  /\ batches \in [Template \cup Primitive -> Seq(Primitive) \cup {NoPolicy}]
  /\ DOMAIN written = Template

\* The server has the tree of ct in p, besides other policies that nothing points at.
OnServer(ct, p) ==
  /\ batches[ct] = KidsIn(p, ct)
  /\ \A n \in DrawnIn(p, ct) :
       /\ n \in actuals
       /\ pipelines[n] = (KidsIn(p, n) # <<>>)
       /\ KidsIn(p, n) # <<>> => batches[n] = KidsIn(p, n)

ServerHasTree ==
  \A ct \in visible : \E p \in Trees : OnServer(ct, p) /\ TreeIn(p, ct) \in written[ct]

CtIInv == CtTypeOK /\ ServerHasTree /\ ReadsWhatWasWritten

LEMMA ChildrenType ==
  ASSUME CtTypeOK, NEW export, NEW n \in Template \cup Primitive
  PROVE  ToSet(Children(n, export)) \subseteq Primitive
<1>1. Children(n, export) \in Seq(Primitive)
  <2>1. <<>> \in Seq(Primitive)
    BY EmptySeq
  <2> QED BY <2>1 DEF Children, CtTypeOK
<1>2. \A i \in DOMAIN Children(n, export) : Children(n, export)[i] \in Primitive
  BY <1>1, ElementOfSeq, LenProperties
<1> QED BY <1>2 DEF ToSet

\* Below satisfies its recursive equation, also where batches that nothing points at any
\* more point in circles: what can be reached does.
LEMMA BelowIs ==
  ASSUME CtTypeOK, NEW export
  PROVE  Below(export) =
           [n \in Template \cup Primitive |->
              ToSet(Children(n, export)) \cup
              UNION {Below(export)[k] : k \in {m \in ToSet(Children(n, export)) : pipelines[m] # NoPolicy}}]
<1> DEFINE C(n) == ToSet(Children(n, export))
           N == Template \cup Primitive
           closed(n, X) == /\ C(n) \subseteq X
                           /\ \A k \in X : pipelines[k] # NoPolicy => C(k) \subseteq X
           reach == [n \in N |-> {m \in Primitive : \A X \in SUBSET Primitive : closed(n, X) => m \in X}]
           all(n) == C(n) \cup UNION {reach[k] : k \in {m \in C(n) : pipelines[m] # NoPolicy}}
<1>1. \A n \in N : C(n) \subseteq Primitive
  BY ChildrenType
<1> HIDE DEF C
<1>2. \A n \in N : \A m : m \in reach[n] <=>
        m \in Primitive /\ \A X \in SUBSET Primitive : closed(n, X) => m \in X
  OBVIOUS
<1>3. \A n \in N : reach[n] \subseteq Primitive /\ closed(n, reach[n])
  BY <1>1, <1>2
<1> HIDE DEF reach
<1>4. ASSUME NEW n \in N PROVE all(n) \subseteq reach[n]
  <2>1. C(n) \subseteq reach[n]
    BY <1>3
  <2>2. ASSUME NEW k \in C(n), pipelines[k] # NoPolicy PROVE reach[k] \subseteq reach[n]
    <3>1. k \in N
      BY <1>1
    <3>2. closed(k, reach[n])
      BY <1>3, <2>1, <2>2
    <3> QED BY <1>2, <1>3, <3>1, <3>2
  <2> QED BY <2>1, <2>2
<1>5. ASSUME NEW n \in N PROVE reach[n] \subseteq all(n)
  <2>1. all(n) \subseteq Primitive
    BY <1>1, <1>3
  <2>2. closed(n, all(n))
    <3>1. ASSUME NEW k \in all(n), pipelines[k] # NoPolicy PROVE C(k) \subseteq all(n)
      <4>1. CASE k \in C(n)
        <5>1. C(k) \subseteq reach[k]
          BY <1>1, <1>3, <4>1
        <5> QED BY <3>1, <4>1, <5>1
      <4>2. ASSUME NEW j \in C(n), pipelines[j] # NoPolicy, k \in reach[j] PROVE C(k) \subseteq all(n)
        <5>1. j \in N
          BY <1>1
        <5>2. C(k) \subseteq reach[j]
          BY <1>3, <3>1, <4>2, <5>1
        <5> QED BY <4>2, <5>2
      <4> QED BY <3>1, <4>1, <4>2
    <3> QED BY <3>1
  <2> HIDE DEF all
  <2> QED BY <1>2, <2>1, <2>2
<1>6. reach = [n \in N |-> all(n)]
  <2>1. \A n \in N : reach[n] = all(n)
    BY <1>4, <1>5
  <2>2. reach = [n \in N |-> reach[n]]
    BY DEF reach
  <2> HIDE DEF all
  <2> QED BY <2>1, <2>2
<1> HIDE DEF N
<1>7. reach = [n \in N |-> C(n) \cup UNION {reach[k] : k \in {m \in C(n) : pipelines[m] # NoPolicy}}]
  BY <1>6
<1> DEFINE eq(f) == f = [n \in N |-> C(n) \cup UNION {f[k] : k \in {m \in C(n) : pipelines[m] # NoPolicy}}]
<1>8. Below(export) = CHOOSE f : eq(f)
  BY DEF Below, C, N
<1>9. eq(reach)
  BY <1>7
<1>10. eq(Below(export))
  <2> HIDE DEF eq
  <2> QED BY <1>8, <1>9
<1> QED BY <1>10 DEF C, N

\* Where the server has the tree of ct in p, a read finds it: primitives of the tree only,
\* each through its parent; all of them, unless the export lacks the children of one.
LEMMA ReadFinds ==
  ASSUME CtTypeOK, NEW p \in Trees, NEW ct \in Template, OnServer(ct, p), NEW export
  PROVE  LET D == DrawnIn(p, ct)
             C(n) == Children(n, export)
             found == Below(export)[ct]
         IN  /\ \A n \in {ct} \cup D :
                  \/ C(n) = KidsIn(p, n)
                  \/ n \in D /\ export = Lacks("batch", n) /\ C(n) = <<>> /\ KidsIn(p, n) # <<>>
             /\ found \subseteq D
             /\ \A q \in found : \E r \in {ct} \cup found : q \in ToSet(C(r))
             /\ (\A n \in {ct} \cup D : C(n) = KidsIn(p, n)) => D \subseteq found
<1> DEFINE D == DrawnIn(p, ct)
           C(n) == Children(n, export)
           below == Below(export)
<1>1. D \subseteq Primitive /\ ct \notin Primitive /\ D \subseteq Nat
      /\ (\A n \in D : n <= Cardinality(Primitive)) /\ Cardinality(Primitive) \in Nat
  BY HomeAssumption, FS_CardinalityType DEF DrawnIn
<1>2. \A n \in {ct} \cup D :
        \/ C(n) = KidsIn(p, n)
        \/ n \in D /\ export = Lacks("batch", n) /\ C(n) = <<>> /\ KidsIn(p, n) # <<>>
  <2>1. \A n : KidsIn(p, n) # NoPolicy
    BY KidsAre, NoPolicyAssumption
  <2>2. C(ct) = KidsIn(p, ct)
    BY <1>1, <2>1 DEF Children, OnServer
  <2>3. ASSUME NEW n \in D, KidsIn(p, n) = <<>> PROVE C(n) = <<>>
    BY <1>1, <2>3 DEF Children, OnServer
  <2>4. ASSUME NEW n \in D, KidsIn(p, n) # <<>>
        PROVE  C(n) = IF export = Lacks("batch", n) THEN <<>> ELSE KidsIn(p, n)
    BY <1>1, <2>1, <2>4 DEF Children, OnServer
  <2> HIDE DEF C
  <2> QED BY <2>2, <2>3, <2>4
<1>3. ASSUME NEW n \in {ct} \cup D, NEW m \in ToSet(C(n)) PROVE p[m] = n /\ m \in D /\ (n \in D => n < m)
  <2>1. ToSet(KidsIn(p, n)) = {k \in Primitive : p[k] = n}
    BY KidsAre
  <2>2. ToSet(<<>>) = {}
    BY DEF ToSet
  <2>3. m \in Primitive /\ p[m] = n
    BY <1>2, <1>3, <2>1, <2>2
  <2> QED BY <1>1, <2>3, KidsAreDrawn
<1>4. \A n \in {ct} \cup D :
        below[n] = ToSet(C(n)) \cup UNION {below[k] : k \in {m \in ToSet(C(n)) : pipelines[m] # NoPolicy}}
  <2>1. \A n \in {ct} \cup D : n \in Template \cup Primitive
    BY <1>1
  <2> QED BY <2>1, BelowIs
<1>5. \A n \in D : pipelines[n] # NoPolicy
  BY NoPolicyAssumption DEF OnServer
<1> HIDE DEF C, D, below
<1> DEFINE Sound(n) == /\ below[n] \subseteq D
                       /\ \A q \in below[n] : \E r \in {n} \cup below[n] : q \in ToSet(C(r))
<1>6. ASSUME NEW n \in {ct} \cup D, \A k \in ToSet(C(n)) : Sound(k) PROVE Sound(n)
  <2>1. below[n] = ToSet(C(n)) \cup UNION {below[k] : k \in {m \in ToSet(C(n)) : pipelines[m] # NoPolicy}}
    BY <1>4
  <2>2. \A q \in below[n] : q \in ToSet(C(n)) \/ \E k \in ToSet(C(n)) : q \in below[k] /\ below[k] \subseteq below[n]
    BY <2>1
  <2>3. ToSet(C(n)) \subseteq below[n]
    BY <2>1
  <2>4. below[n] \subseteq D
    BY <1>3, <1>6, <2>2
  <2>5. ASSUME NEW q \in below[n] PROVE \E r \in {n} \cup below[n] : q \in ToSet(C(r))
    <3>1. CASE q \in ToSet(C(n))
      BY <3>1
    <3>2. ASSUME NEW k \in ToSet(C(n)), q \in below[k], below[k] \subseteq below[n]
          PROVE  \E r \in {n} \cup below[n] : q \in ToSet(C(r))
      BY <1>6, <2>3, <3>2
    <3> QED BY <2>2, <3>1, <3>2
  <2> QED BY <2>4, <2>5
<1>7. \A n \in D : Sound(n)
  <2> DEFINE Bad == {n \in D : ~Sound(n)}
  <2> SUFFICES ASSUME Bad # {} PROVE FALSE
    OBVIOUS
  <2>1. Bad \subseteq Nat /\ \A n \in Bad : n <= Cardinality(Primitive)
    BY <1>1
  <2> HIDE DEF Sound
  <2>2. PICK x \in Bad : \A y \in Bad : y <= x
    <3> HIDE DEF Bad
    <3> QED BY <1>1, <2>1, GreatestNumber
  <2>3. ASSUME NEW k \in ToSet(C(x)) PROVE Sound(k)
    <3>1. k \in D /\ x < k
      BY <1>3
    <3>2. x \in Nat /\ k \in Nat
      BY <1>1, <3>1
    <3> QED BY <2>2, <3>1, <3>2
  <2> QED BY <1>6, <2>3
<1>8. Sound(ct)
  <2> HIDE DEF Sound
  <2> QED BY <1>3, <1>6, <1>7
<1>9. ASSUME \A n \in {ct} \cup D : C(n) = KidsIn(p, n) PROVE D \subseteq below[ct]
  <2> DEFINE In(n) == n \in below[ct] /\ below[n] \subseteq below[ct]
             Missed == {n \in D : ~In(n)}
  <2>1. ASSUME NEW n \in {ct} \cup D, NEW m \in D, p[m] = n PROVE m \in below[n] /\ below[m] \subseteq below[n]
    <3>1. m \in ToSet(C(n))
      BY <1>1, <1>9, <2>1, KidsAre
    <3> QED BY <1>4, <1>5, <3>1
  <2> SUFFICES ASSUME Missed # {} PROVE FALSE
    OBVIOUS
  <2>2. PICK x \in Missed : \A y \in Missed : x <= y
    <3>1. Missed \subseteq Nat
      BY <1>1
    <3> HIDE DEF Missed
    <3> QED BY <3>1, LeastNumber
  <2>3. p[x] \in {ct} \cup D /\ (p[x] \in D => p[x] < x)
    <3>1. x \in Primitive /\ p[x] # Gone /\ Home[x] = ct
      BY DEF D, DrawnIn
    <3>2. p[x] = ct \/ (p[x] \in Primitive /\ p[x] < x /\ Home[p[x]] = ct /\ p[p[x]] # Gone)
      BY <3>1 DEF Trees
    <3>3. p[x] = ct => p[x] \notin D
      BY <1>1
    <3> QED BY <3>2, <3>3 DEF D, DrawnIn
  <2>4. CASE p[x] = ct
    BY <2>1, <2>3, <2>4
  <2>5. CASE p[x] \in D
    <3>1. p[x] \in Nat /\ x \in Nat /\ p[x] < x
      BY <1>1, <2>3, <2>5
    <3>2. In(p[x])
      BY <2>2, <2>5, <3>1
    <3>3. x \in below[p[x]] /\ below[x] \subseteq below[p[x]]
      BY <2>1, <2>5
    <3> QED BY <3>2, <3>3
  <2> QED BY <2>3, <2>4, <2>5
<1> QED BY <1>2, <1>8, <1>9 DEF C, D, below

\* The pointers that a read of ct follows.
Followed(ct, export) == UNION {Pointers(n, Children(n, export)) : n \in {ct} \cup Below(export)[ct]}

\* What is read is the tree, or the tree without the children of a primitive whose batch is
\* lacking; and every pointer that is followed leads from what has been reached.
LEMMA TreeRead ==
  ASSUME CtTypeOK, NEW p \in Trees, NEW ct \in Template, OnServer(ct, p), NEW export
  PROVE  /\ \/ Followed(ct, export) = TreeIn(p, ct)
            \/ /\ export.kind = "batch"
               /\ Followed(ct, export) \subseteq TreeIn(p, ct)
               /\ \E e \in TreeIn(p, ct) : e[1] = export.of
         /\ \A e \in Followed(ct, export) :
              /\ e[3] \in DrawnIn(p, ct)
              /\ e[1] = p[e[3]]
              /\ e[1] = ct \/ \E f \in Followed(ct, export) : f[3] = e[1]
<1> DEFINE D == DrawnIn(p, ct)
           C(n) == Children(n, export)
           found == Below(export)[ct]
           tree == UNION {Pointers(n, C(n)) : n \in {ct} \cup found}
<1>1. /\ \A n \in {ct} \cup D :
           \/ C(n) = KidsIn(p, n)
           \/ n \in D /\ export = Lacks("batch", n) /\ C(n) = <<>> /\ KidsIn(p, n) # <<>>
      /\ found \subseteq D
      /\ \A q \in found : \E r \in {ct} \cup found : q \in ToSet(C(r))
      /\ (\A n \in {ct} \cup D : C(n) = KidsIn(p, n)) => D \subseteq found
  BY ReadFinds
<1>2. ASSUME NEW n \in {ct} \cup D, NEW e \in Pointers(n, C(n))
      PROVE  e \in Pointers(n, KidsIn(p, n)) /\ e[1] = n /\ e[3] \in D /\ p[e[3]] = n
  <2>1. DOMAIN <<>> = {}
    OBVIOUS
  <2>2. C(n) = KidsIn(p, n)
    BY <1>1, <2>1 DEF Pointers
  <2>3. PICK i \in DOMAIN KidsIn(p, n) : e = <<n, i, KidsIn(p, n)[i]>>
    BY <2>2 DEF Pointers
  <2>4. KidsIn(p, n)[i] \in {m \in Primitive : p[m] = n}
    BY <2>3, KidsAre DEF ToSet
  <2> QED BY <2>2, <2>3, <2>4, KidsAreDrawn
<1>3. TreeIn(p, ct) = UNION {Pointers(n, KidsIn(p, n)) : n \in {ct} \cup D}
  BY DEF TreeIn
<1> HIDE DEF D, C, found
<1>4. tree \subseteq TreeIn(p, ct)
  BY <1>1, <1>2, <1>3
<1>5. ASSUME \A n \in {ct} \cup D : C(n) = KidsIn(p, n) PROVE tree = TreeIn(p, ct)
  <2>1. found = D
    BY <1>1, <1>5
  <2> QED BY <1>3, <1>5, <2>1
<1>6. ASSUME NEW n \in D, export = Lacks("batch", n), KidsIn(p, n) # <<>>
      PROVE  export.kind = "batch" /\ \E e \in TreeIn(p, ct) : e[1] = export.of
  <2>1. export.kind = "batch" /\ export.of = n
    BY <1>6 DEF Lacks
  <2>2. <<n, 1, KidsIn(p, n)[1]>> \in Pointers(n, KidsIn(p, n))
    BY <1>6, KidsAre DEF Pointers
  <2>3. <<n, 1, KidsIn(p, n)[1]>> \in TreeIn(p, ct)
    BY <1>3, <2>2
  <2> QED BY <2>1, <2>3
<1>7. ASSUME NEW e \in tree
      PROVE  e[3] \in D /\ e[1] = p[e[3]] /\ (e[1] = ct \/ \E f \in tree : f[3] = e[1])
  <2>1. PICK n \in {ct} \cup found : e \in Pointers(n, C(n))
    OBVIOUS
  <2>2. e[1] = n /\ e[3] \in D /\ p[e[3]] = n
    BY <1>1, <1>2, <2>1
  <2>3. ASSUME NEW q \in found PROVE \E f \in tree : f[3] = q
    <3>1. PICK r \in {ct} \cup found : q \in ToSet(C(r))
      BY <1>1
    <3>2. PICK i \in DOMAIN C(r) : C(r)[i] = q
      BY <3>1 DEF ToSet
    <3>3. <<r, i, q>> \in tree
      BY <3>2 DEF Pointers
    <3> QED BY <3>3
  <2> QED BY <2>1, <2>2, <2>3
<1>8. \/ tree = TreeIn(p, ct)
      \/ export.kind = "batch" /\ tree \subseteq TreeIn(p, ct) /\ \E e \in TreeIn(p, ct) : e[1] = export.of
  <2>1. CASE \A n \in {ct} \cup D : C(n) = KidsIn(p, n)
    BY <1>5, <2>1
  <2>2. CASE \E n \in D : export = Lacks("batch", n) /\ KidsIn(p, n) # <<>>
    BY <1>4, <1>6, <2>2
  <2> QED BY <1>1, <2>1, <2>2
<1>9. Followed(ct, export) = tree
  BY DEF Followed, C, found
<1> HIDE DEF tree
<1> QED BY <1>7, <1>8, <1>9 DEF D

\* A caller who holds what was read holds trees; those of other templates are as they were.
LEMMA HoldsTrees ==
  ASSUME CtTypeOK, NEW p \in Trees, NEW ct \in Template, NEW tree, Hold(ct, tree),
         \A e \in tree : /\ e[3] \in DrawnIn(p, ct)
                         /\ e[1] = p[e[3]]
                         /\ e[1] = ct \/ \E f \in tree : f[3] = e[1]
  PROVE  parent' \in Trees /\ \A n \in Primitive : Home[n] # ct => parent'[n] = parent[n]
<1> DEFINE reached == {e[3] : e \in tree}
<1>1. parent' = [n \in Primitive |->
        IF n \in reached THEN (CHOOSE e \in tree : e[3] = n)[1]
        ELSE IF Home[n] = ct THEN Gone ELSE parent[n]]
  BY DEF Hold
<1>2. \A n \in reached : n \in DrawnIn(p, ct) /\ (CHOOSE e \in tree : e[3] = n)[1] = p[n]
                          /\ (p[n] = ct \/ p[n] \in reached)
  <2> SUFFICES ASSUME NEW n \in reached
               PROVE  n \in DrawnIn(p, ct) /\ (CHOOSE e \in tree : e[3] = n)[1] = p[n]
                      /\ (p[n] = ct \/ p[n] \in reached)
    OBVIOUS
  <2> DEFINE d == CHOOSE e \in tree : e[3] = n
  <2>1. d \in tree /\ d[3] = n
    OBVIOUS
  <2> HIDE DEF d
  <2>2. n \in DrawnIn(p, ct) /\ d[1] = p[n] /\ (p[n] = ct \/ p[n] \in reached)
    BY <2>1
  <2> QED BY <2>2 DEF d
<1> HIDE DEF reached
<1>3. \A n \in Primitive : parent'[n] = IF n \in reached THEN p[n]
                                        ELSE IF Home[n] = ct THEN Gone ELSE parent[n]
  BY <1>1, <1>2
<1>4. p \in [Primitive -> Template \cup Primitive \cup {Gone}]
      /\ parent \in [Primitive -> Template \cup Primitive \cup {Gone}]
  BY DEF CtTypeOK, Trees
<1>5. parent' \in [Primitive -> Template \cup Primitive \cup {Gone}]
  <2>1. \A n \in Primitive : parent'[n] \in Template \cup Primitive \cup {Gone}
    BY <1>3, <1>4
  <2> QED BY <1>1, <2>1
<1>6. ASSUME NEW n \in Primitive
      PROVE  \/ parent'[n] \in {Gone, Home[n]}
             \/ /\ parent'[n] \in Primitive /\ parent'[n] < n /\ Home[parent'[n]] = Home[n]
                /\ parent'[parent'[n]] # Gone
  <2>1. CASE n \in reached
    <3>1. Home[n] = ct /\ p[n] # Gone /\ parent'[n] = p[n] /\ (p[n] = ct \/ p[n] \in reached)
      BY <1>2, <1>3, <2>1 DEF DrawnIn
    <3>2. CASE p[n] = ct
      BY <3>1, <3>2
    <3>3. CASE p[n] # ct
      <4>1. p[n] \in Primitive /\ p[n] < n /\ Home[p[n]] = Home[n] /\ p[p[n]] # Gone
        BY <3>1, <3>3 DEF Trees
      <4>2. parent'[p[n]] = p[p[n]]
        BY <1>3, <3>1, <3>3, <4>1
      <4> QED BY <3>1, <4>1, <4>2
    <3> QED BY <3>2, <3>3
  <2>2. CASE n \notin reached /\ Home[n] = ct
    BY <1>3, <2>2
  <2>3. CASE n \notin reached /\ Home[n] # ct
    <3>1. parent'[n] = parent[n]
      BY <1>3, <2>3
    <3>2. ASSUME parent[n] \in Primitive, Home[parent[n]] = Home[n] PROVE parent'[parent[n]] = parent[parent[n]]
      <4>1. parent[n] \notin reached
        BY <1>2, <2>3, <3>2 DEF DrawnIn
      <4> QED BY <1>3, <2>3, <3>2, <4>1
    <3>3. \/ parent[n] \in {Gone, Home[n]}
          \/ parent[n] \in Primitive /\ parent[n] < n /\ Home[parent[n]] = Home[n] /\ parent[parent[n]] # Gone
      BY DEF CtTypeOK, Trees
    <3> QED BY <3>1, <3>2, <3>3
  <2> QED BY <2>1, <2>2, <2>3
<1>7. \A n \in Primitive : Home[n] # ct => parent'[n] = parent[n]
  BY <1>2, <1>3 DEF DrawnIn
<1>8. parent' \in Trees
  BY <1>5, <1>6 DEF Trees
<1> QED BY <1>7, <1>8

\* What is sent is on the server afterwards, and the other templates are as they were.
LEMMA ImportPuts ==
  ASSUME CtTypeOK, NEW ct \in Template, Import(ct), NEW p \in Trees, p = parent
  PROVE  /\ OnServer(ct, p)'
         /\ \A c \in Template \ {ct}, q \in Trees : OnServer(c, q) => OnServer(c, q)'
         /\ visible' = visible \cup {ct}
         /\ pipelines' \in [Primitive -> BOOLEAN \cup {NoPolicy}]
         /\ batches' \in [Template \cup Primitive -> Seq(Primitive) \cup {NoPolicy}]
<1> DEFINE mine == {n \in Primitive : Home[n] = ct}
           sent == DrawnIn(p, ct)
<1>1. Drawn(ct) = sent /\ \A n : Kids(n) = KidsIn(p, n)
  BY DEF Drawn, DrawnIn, Kids, KidsIn
<1>2. sent \subseteq mine /\ ct \notin Primitive /\ Template \cap Primitive = {}
  BY HomeAssumption DEF DrawnIn
<1>3. PICK kept \in {{}, mine} :
        /\ actuals' = (actuals \ (mine \ kept)) \cup sent
        /\ pipelines' = [n \in Primitive |->
             IF n \in sent THEN n \in {m \in sent : KidsIn(p, m) # <<>>}
             ELSE IF Home[n] = ct /\ n \notin kept THEN NoPolicy ELSE pipelines[n]]
        /\ batches' = [n \in Template \cup Primitive |->
             IF n = ct \/ (n \in sent /\ KidsIn(p, n) # <<>>) THEN KidsIn(p, n)
             ELSE IF n \in Primitive /\ Home[n] = ct /\ n \notin kept THEN NoPolicy
             ELSE batches[n]]
  BY <1>1 DEF Import, SecondSubpolicy
<1>4. visible' = visible \cup {ct}
  BY DEF Import
<1>5. \A n : KidsIn(p, n) \in Seq(Primitive)
  BY KidsAre
<1>6. \A n \in Primitive : n \in sent => pipelines'[n] = (KidsIn(p, n) # <<>>)
  BY <1>3
<1>7. \A n \in Primitive : n \notin mine => pipelines'[n] = pipelines[n] /\ batches'[n] = batches[n]
                                            /\ (n \in actuals => n \in actuals')
  BY <1>2, <1>3
<1>8. \A n \in {ct} \cup sent : n = ct \/ KidsIn(p, n) # <<>> => batches'[n] = KidsIn(p, n)
  BY <1>2, <1>3
<1>9. \A n \in sent : n \in actuals'
  BY <1>3
<1>10. \A c \in Template \ {ct} : batches'[c] = batches[c]
  BY <1>2, <1>3
<1>11. pipelines' \in [Primitive -> BOOLEAN \cup {NoPolicy}]
  <2>1. \A n \in Primitive : pipelines[n] \in BOOLEAN \cup {NoPolicy}
    BY DEF CtTypeOK
  <2>2. \A n \in Primitive : (n \in {m \in sent : KidsIn(p, m) # <<>>}) \in BOOLEAN
    OBVIOUS
  <2> HIDE DEF sent
  <2> QED BY <1>3, <2>1, <2>2
<1>12. batches' \in [Template \cup Primitive -> Seq(Primitive) \cup {NoPolicy}]
  <2>1. \A n \in Template \cup Primitive : batches[n] \in Seq(Primitive) \cup {NoPolicy}
    BY DEF CtTypeOK
  <2> HIDE DEF sent
  <2> QED BY <1>3, <1>5, <2>1
<1>13. OnServer(ct, p)'
  BY <1>2, <1>6, <1>8, <1>9 DEF OnServer
<1>14. ASSUME NEW c \in Template \ {ct}, NEW q \in Trees, OnServer(c, q) PROVE OnServer(c, q)'
  <2>1. \A n \in DrawnIn(q, c) : n \in Primitive /\ n \notin mine
    BY DEF DrawnIn
  <2> QED BY <1>7, <1>10, <1>14, <2>1 DEF OnServer
<1> QED BY <1>4, <1>11, <1>12, <1>13, <1>14

LEMMA CtInitially == CtInit => CtIInv
<1> SUFFICES ASSUME CtInit PROVE CtIInv
  OBVIOUS
<1>1. CtTypeOK
  <2>1. parent \in Trees
    BY DEF CtInit, Trees
  <2> QED BY <2>1 DEF CtInit, CtTypeOK
<1>2. ServerHasTree /\ ReadsWhatWasWritten
  BY DEF CtInit, ServerHasTree, ReadsWhatWasWritten, NoResult
<1> QED BY <1>1, <1>2 DEF CtIInv

\* The server's side is as it was, for the templates that stay.
LEMMA KeepsTrees ==
  ASSUME ServerHasTree, NEW S, visible' = visible \ S,
         \A ct \in visible \ S : /\ batches'[ct] = batches[ct]
                                 /\ written[ct] \subseteq written'[ct]
                                 /\ \A n \in Primitive : Home[n] = ct =>
                                      /\ batches'[n] = batches[n]
                                      /\ pipelines'[n] = pipelines[n]
                                      /\ n \in actuals => n \in actuals'
  PROVE  ServerHasTree'
<1> SUFFICES ASSUME NEW ct \in visible \ S
             PROVE  \E p \in Trees : OnServer(ct, p)' /\ TreeIn(p, ct) \in written'[ct]
  BY DEF ServerHasTree
<1>1. PICK p \in Trees : OnServer(ct, p) /\ TreeIn(p, ct) \in written[ct]
  BY DEF ServerHasTree
<1>2. OnServer(ct, p)'
  BY <1>1 DEF OnServer, DrawnIn
<1> QED BY <1>1, <1>2

\* What a read returns and what it leaves the caller with.
LEMMA ReadKeepsOthers ==
  ASSUME CtIInv, ReadCt
  PROVE  /\ ReadsWhatWasWritten'
         /\ \/ UNCHANGED <<parent, positions>>
            \/ \E ct \in Template :
                 /\ parent' \in Trees
                 /\ \A n \in Primitive : Home[n] # ct => parent'[n] = parent[n]
                 /\ positions' = [n \in Primitive |-> IF Home[n] = ct THEN Unset ELSE positions[n]]
<1> USE DEF CtIInv
<1>1. PICK ct \in visible : \E export :
        /\ ctResult' = Polish(ct, export)
        /\ IF ctResult'.what = "tree"
             THEN /\ Hold(ct, ctResult'.tree)
                  /\ positions' = [n \in Primitive |-> IF Home[n] = ct THEN Unset ELSE positions[n]]
             ELSE UNCHANGED <<parent, positions>>
  BY DEF ReadCt
<1>2. PICK export :
        /\ ctResult' = Polish(ct, export)
        /\ IF ctResult'.what = "tree"
             THEN /\ Hold(ct, ctResult'.tree)
                  /\ positions' = [n \in Primitive |-> IF Home[n] = ct THEN Unset ELSE positions[n]]
             ELSE UNCHANGED <<parent, positions>>
  BY <1>1
<1>3. UNCHANGED written
  BY DEF ReadCt
<1>4. ct \in Template
  BY DEF CtTypeOK
<1>5. PICK p \in Trees : OnServer(ct, p) /\ TreeIn(p, ct) \in written[ct]
  BY DEF ServerHasTree
<1> DEFINE tree == Followed(ct, export)
<1>6. /\ \/ tree = TreeIn(p, ct)
         \/ /\ export.kind = "batch"
            /\ tree \subseteq TreeIn(p, ct)
            /\ \E e \in TreeIn(p, ct) : e[1] = export.of
      /\ \A e \in tree : /\ e[3] \in DrawnIn(p, ct)
                         /\ e[1] = p[e[3]]
                         /\ e[1] = ct \/ \E f \in tree : f[3] = e[1]
  BY <1>4, <1>5, TreeRead
<1>7. \/ ctResult' = [what |-> "error"]
      \/ ctResult' = [what |-> "tree", ct |-> ct, lacked |-> export, tree |-> tree]
  BY <1>2 DEF Polish, Followed
<1> HIDE DEF tree
<1>8. ReadsWhatWasWritten'
  BY <1>3, <1>5, <1>6, <1>7 DEF ReadsWhatWasWritten
<1>9. CASE ctResult' = [what |-> "error"]
  <2>1. UNCHANGED <<parent, positions>>
    BY <1>2, <1>9
  <2> QED BY <1>8, <2>1
<1>10. CASE ctResult' = [what |-> "tree", ct |-> ct, lacked |-> export, tree |-> tree]
  <2>1. Hold(ct, tree)
    BY <1>2, <1>10
  <2>2. parent' \in Trees /\ \A n \in Primitive : Home[n] # ct => parent'[n] = parent[n]
    BY <1>4, <1>6, <2>1, HoldsTrees
  <2>3. positions' = [n \in Primitive |-> IF Home[n] = ct THEN Unset ELSE positions[n]]
    BY <1>2, <1>10
  <2> QED BY <1>4, <1>8, <2>2, <2>3
<1> QED BY <1>7, <1>9, <1>10

LEMMA CtStep == CtIInv /\ [CtNext]_ctVars => CtIInv'
<1> SUFFICES ASSUME CtIInv, [CtNext]_ctVars PROVE CtIInv'
  OBVIOUS
<1> USE DEF CtIInv, serverPolicies
<1>0. ASSUME ctResult' = NoResult PROVE ReadsWhatWasWritten'
  BY <1>0 DEF ReadsWhatWasWritten, NoResult
<1>1. ASSUME UNCHANGED <<serverPolicies, written>> PROVE ServerHasTree'
  <2>1. visible' = visible \ {}
    BY <1>1
  <2> QED BY <1>1, <2>1, KeepsTrees
<1>2. CASE EditCt
  <2>1. parent' \in Trees
    BY <1>2 DEF EditCt
  <2> QED BY <1>0, <1>1, <1>2, <2>1 DEF EditCt, CtTypeOK
<1>3. CASE LayOut
  BY <1>0, <1>1, <1>3 DEF LayOut, CtTypeOK
<1>4. CASE WriteCt
  <2>1. PICK ct \in Template :
          \/ Import(ct) /\ written' = [written EXCEPT ![ct] = {TreeOf(ct)}]
          \/ /\ Import(ct) \/ UNCHANGED serverPolicies
             /\ written' = [written EXCEPT ![ct] = @ \cup {TreeOf(ct)}]
    BY <1>4 DEF WriteCt
  <2>2. PICK p \in Trees : p = parent
    BY DEF CtTypeOK
  <2>3. TreeOf(ct) = TreeIn(p, ct)
    BY <2>2 DEF TreeOf, TreeIn, Drawn, DrawnIn, Kids, KidsIn
  <2>4. UNCHANGED parent /\ ctResult' = NoResult
    BY <1>4 DEF WriteCt
  <2>5. DOMAIN written' = Template /\ \A c \in Template \ {ct} : written'[c] = written[c]
    BY <2>1 DEF CtTypeOK
  <2>6. CASE Import(ct)
    <3>1. /\ OnServer(ct, p)'
          /\ \A c \in Template \ {ct}, q \in Trees : OnServer(c, q) => OnServer(c, q)'
          /\ visible' = visible \cup {ct}
          /\ pipelines' \in [Primitive -> BOOLEAN \cup {NoPolicy}]
          /\ batches' \in [Template \cup Primitive -> Seq(Primitive) \cup {NoPolicy}]
      BY <2>2, <2>6, ImportPuts
    <3>2. CtTypeOK'
      BY <2>4, <2>5, <3>1 DEF CtTypeOK
    <3>3. TreeIn(p, ct) \in written'[ct]
      BY <2>1, <2>3 DEF CtTypeOK
    <3>4. ServerHasTree'
      <4> SUFFICES ASSUME NEW c \in visible'
                   PROVE  \E q \in Trees : OnServer(c, q)' /\ TreeIn(q, c) \in written'[c]
        BY DEF ServerHasTree
      <4>1. CASE c = ct
        BY <3>1, <3>3, <4>1
      <4>2. CASE c # ct
        <5>1. c \in visible /\ c \in Template \ {ct}
          BY <3>1, <4>2 DEF CtTypeOK
        <5>2. PICK q \in Trees : OnServer(c, q) /\ TreeIn(q, c) \in written[c]
          BY <5>1 DEF ServerHasTree
        <5> QED BY <2>5, <3>1, <5>1, <5>2
      <4> QED BY <4>1, <4>2
    <3> QED BY <1>0, <2>4, <3>2, <3>4
  <2>7. CASE UNCHANGED serverPolicies /\ written' = [written EXCEPT ![ct] = @ \cup {TreeOf(ct)}]
    <3>1. CtTypeOK'
      BY <2>4, <2>5, <2>7 DEF CtTypeOK
    <3>2. \A c \in Template : written[c] \subseteq written'[c]
      BY <2>7 DEF CtTypeOK
    <3>3. visible' = visible \ {} /\ visible \subseteq Template
      BY <2>7 DEF CtTypeOK
    <3>4. ServerHasTree'
      BY <2>7, <3>2, <3>3, KeepsTrees
    <3> QED BY <1>0, <2>4, <3>1, <3>4
  <2> QED BY <2>1, <2>6, <2>7
<1>5. CASE DeleteCt
  <2>1. PICK ct \in visible :
          /\ visible' = visible \ {ct}
          /\ actuals' = {n \in actuals : Home[n] # ct}
          /\ pipelines' = [n \in Primitive |-> IF Home[n] = ct THEN NoPolicy ELSE pipelines[n]]
          /\ batches' = [n \in Template \cup Primitive |->
               IF n = ct \/ (n \in Primitive /\ Home[n] = ct) THEN NoPolicy ELSE batches[n]]
          /\ written' = [written EXCEPT ![ct] = {}]
    BY <1>5 DEF DeleteCt
  <2>2. UNCHANGED parent /\ ctResult' = NoResult
    BY <1>5 DEF DeleteCt
  <2>3. CtTypeOK'
    BY <2>1, <2>2 DEF CtTypeOK
  <2>4. ServerHasTree'
    <3>1. \A c \in visible \ {ct} : c \in Template /\ c \notin Primitive /\ c # ct
      BY HomeAssumption DEF CtTypeOK
    <3>2. \A c \in visible \ {ct} : batches'[c] = batches[c] /\ written'[c] = written[c]
      BY <2>1, <3>1 DEF CtTypeOK
    <3>3. \A n \in Primitive : Home[n] # ct =>
            batches'[n] = batches[n] /\ pipelines'[n] = pipelines[n] /\ (n \in actuals => n \in actuals')
      <4>1. Template \cap Primitive = {} /\ ct \in Template
        BY HomeAssumption DEF CtTypeOK
      <4> QED BY <2>1, <4>1
    <3> DEFINE S == {ct}
    <3>4. ASSUME NEW c \in visible \ S
          PROVE  /\ batches'[c] = batches[c]
                 /\ written[c] \subseteq written'[c]
                 /\ \A n \in Primitive : Home[n] = c =>
                      /\ batches'[n] = batches[n]
                      /\ pipelines'[n] = pipelines[n]
                      /\ n \in actuals => n \in actuals'
      BY <3>1, <3>2, <3>3
    <3>5. visible' = visible \ S
      BY <2>1
    <3> HIDE DEF S
    <3> QED BY <3>4, <3>5, KeepsTrees
  <2> QED BY <1>0, <2>2, <2>3, <2>4
<1>6. CASE ReadCt
  <2>1. UNCHANGED <<serverPolicies, written>>
    BY <1>6 DEF ReadCt
  <2>2. ReadsWhatWasWritten' /\ parent' \in Trees
    BY <1>6, ReadKeepsOthers DEF CtTypeOK
  <2>3. CtTypeOK'
    BY <2>1, <2>2 DEF CtTypeOK
  <2> QED BY <1>1, <2>1, <2>2, <2>3
<1>7. CASE UNCHANGED ctVars
  <2>1. UNCHANGED <<parent, serverPolicies, written, ctResult>>
    BY <1>7 DEF ctVars
  <2>2. CtTypeOK' /\ ReadsWhatWasWritten'
    BY <2>1 DEF CtTypeOK, ReadsWhatWasWritten
  <2> QED BY <1>1, <2>1, <2>2
<1> QED BY <1>2, <1>3, <1>4, <1>5, <1>6, <1>7 DEF CtNext

\* A template that is read is the tree that was last written, except for the children of
\* one primitive whose batch the export lacks: GetConnectivityTemplate, polish and
\* parsePrimitiveTreeByPipelineId, for any number of templates and primitives, whatever was
\* moved or removed between the writes and whichever replies were lost.
THEOREM ReadsWhatWasWrittenHolds == CtSpec => []ReadsWhatWasWritten
<1>1. CtIInv => ReadsWhatWasWritten
  BY DEF CtIInv
<1> QED BY <1>1, CtInitially, CtStep, PTL DEF CtSpec
-----------------------------------------------------------------------------
(* Recursive functions.  The elements have ranks, and what the function is *)
(* at an element depends on what it is at elements of lower rank.          *)

\* What holds for an element when it holds for all of lower rank holds for all.
LEMMA InOrder ==
  ASSUME NEW N, NEW b \in Nat, NEW r \in [N -> 0..b], NEW X,
         \A n \in N : (\A k \in N : r[k] < r[n] => k \in X) => n \in X
  PROVE  N \subseteq X
<1> DEFINE R == {r[n] : n \in N \ X}
<1> SUFFICES ASSUME N \ X # {} PROVE FALSE
  OBVIOUS
<1>1. R \subseteq Nat /\ R # {}
  OBVIOUS
<1>2. PICK i \in R : \A j \in R : i <= j
  <2> HIDE DEF R
  <2> QED BY <1>1, LeastNumber
<1>3. PICK n \in N \ X : r[n] = i
  BY <1>2
<1>4. ASSUME NEW k \in N, r[k] < r[n] PROVE k \in X
  <2>1. k \notin X => r[n] <= r[k]
    BY <1>2, <1>3
  <2>2. r[k] \in Nat /\ r[n] \in Nat
    BY <1>3
  <2> QED BY <1>4, <2>1, <2>2
<1> QED BY <1>3, <1>4

LooksDown(G, N, V, r) ==
  /\ G \in [N -> [[N -> V] -> V]]
  /\ \A n \in N : \A f, g \in [N -> V] : (\A k \in N : r[k] < r[n] => f[k] = g[k]) => G[n][f] = G[n][g]

\* There is such a function: it is built rank by rank.
LEMMA Recursion ==
  ASSUME NEW N, NEW V, V # {}, NEW b \in Nat, NEW r \in [N -> 0..b], NEW G, LooksDown(G, N, V, r)
  PROVE  \E f \in [N -> V] : \A n \in N : f[n] = G[n][f]
<1> DEFINE upTo(i) == \E f \in [N -> V] : \A n \in N : r[n] < i => f[n] = G[n][f]
           I == 0..b + 1
           X == {i \in I : upTo(i)}
<1>0. /\ G \in [N -> [[N -> V] -> V]]
      /\ \A n \in N : \A f, g \in [N -> V] : (\A k \in N : r[k] < r[n] => f[k] = g[k]) => G[n][f] = G[n][g]
  BY DEF LooksDown
<1>1. upTo(0)
  <2>1. PICK v \in V : TRUE
    OBVIOUS
  <2>2. [n \in N |-> v] \in [N -> V] /\ \A n \in N : ~(r[n] < 0)
    OBVIOUS
  <2> QED BY <2>2
<1>2. ASSUME NEW i \in I, upTo(i) PROVE upTo(i + 1)
  <2>1. PICK f \in [N -> V] : \A n \in N : r[n] < i => f[n] = G[n][f]
    BY <1>2
  <2> DEFINE h == [n \in N |-> G[n][f]]
  <2>2. h \in [N -> V]
    BY <1>0
  <2>3. ASSUME NEW n \in N, r[n] < i + 1 PROVE h[n] = G[n][h]
    <3>1. \A k \in N : r[k] < r[n] => r[k] < i
      BY <2>3
    <3>2. \A k \in N : r[k] < r[n] => h[k] = f[k]
      BY <2>1, <3>1
    <3>3. h[n] = G[n][f]
      OBVIOUS
    <3> HIDE DEF h
    <3> QED BY <1>0, <2>2, <3>2, <3>3
  <2> HIDE DEF h
  <2> QED BY <2>2, <2>3
<1> HIDE DEF upTo
<1>3. I \subseteq X
  <2> DEFINE rank == [i \in I |-> i]
  <2>1. rank \in [I -> 0..b + 1] /\ b + 1 \in Nat
    OBVIOUS
  <2>2. ASSUME NEW i \in I, \A k \in I : rank[k] < rank[i] => k \in X PROVE i \in X
    <3>1. CASE i = 0
      BY <1>1, <3>1
    <3>2. CASE i # 0
      <4>1. i - 1 \in I /\ i - 1 < i /\ (i - 1) + 1 = i
        BY <3>2
      <4>2. upTo(i - 1)
        BY <2>2, <4>1
      <4> QED BY <1>2, <4>1, <4>2
    <3> QED BY <3>1, <3>2
  <2> DEFINE c == b + 1
  <2>3. rank \in [I -> 0..c] /\ c \in Nat
    BY <2>1
  <2> HIDE DEF X, I, rank, c
  <2> QED BY <2>2, <2>3, InOrder
<1>4. b + 1 \in I
  OBVIOUS
<1>5. PICK f \in [N -> V] : \A n \in N : r[n] < b + 1 => f[n] = G[n][f]
  BY <1>3, <1>4 DEF upTo
<1>6. \A n \in N : r[n] < b + 1
  OBVIOUS
<1> QED BY <1>5, <1>6
-----------------------------------------------------------------------------
(* Sums, which are folds.                                                  *)

Total(f, S) == FoldFunctionOnSet(+, 0, f, S)

OneOf(s) == CHOOSE x \in s : TRUE
SumFrom(f, s, g) == IF s = {} THEN 0 ELSE f[OneOf(s)] + g[s \ {OneOf(s)}]
Sums(f, S) == CHOOSE g : g = [s \in SUBSET S |-> SumFrom(f, s, g)]

LEMMA TotalIs ==
  ASSUME NEW f, NEW S
  PROVE  Total(f, S) = Sums(f, S)[S]
BY DEF Total, FoldFunctionOnSet, MapThenFoldSet, Sums, SumFrom, OneOf

\* Removing an element makes a set smaller.
LEMMA Smaller ==
  ASSUME NEW S, IsFiniteSet(S)
  PROVE  LET size == [s \in SUBSET S |-> Cardinality(s)]
         IN  /\ Cardinality(S) \in Nat /\ size \in [SUBSET S -> 0..Cardinality(S)]
             /\ \A s \in SUBSET S : \A x \in s : s \ {x} \in SUBSET S /\ size[s \ {x}] < size[s]
<1>1. \A s \in SUBSET S : IsFiniteSet(s) /\ Cardinality(s) \in Nat /\ Cardinality(s) <= Cardinality(S)
  BY FS_Subset, FS_CardinalityType
<1>2. \A s \in SUBSET S : \A x \in s : Cardinality(s \ {x}) < Cardinality(s)
  <2> SUFFICES ASSUME NEW s \in SUBSET S, NEW x \in s PROVE Cardinality(s \ {x}) < Cardinality(s)
    OBVIOUS
  <2>1. Cardinality(s \ {x}) = Cardinality(s) - 1
    BY <1>1, FS_RemoveElement
  <2> QED BY <1>1, <2>1
<1>3. Cardinality(S) \in Nat
  BY FS_CardinalityType
<1> QED BY <1>1, <1>2, <1>3

LEMMA SumsAre ==
  ASSUME NEW S, IsFiniteSet(S), NEW f, \A x \in S : f[x] \in Nat
  PROVE  /\ Sums(f, S) = [s \in SUBSET S |-> SumFrom(f, s, Sums(f, S))]
         /\ \A s \in SUBSET S : Sums(f, S)[s] \in Nat
<1> DEFINE N == SUBSET S
           size == [s \in N |-> Cardinality(s)]
           G == [s \in N |-> [g \in [N -> Nat] |-> SumFrom(f, s, g)]]
           b == Cardinality(S)
<1>1. /\ b \in Nat /\ size \in [N -> 0..b]
      /\ \A s \in N : \A x \in s : s \ {x} \in N /\ size[s \ {x}] < size[s]
  BY Smaller
<1>2. \A s \in N : s # {} => OneOf(s) \in s /\ OneOf(s) \in S /\ f[OneOf(s)] \in Nat
  BY DEF OneOf
<1> HIDE DEF N, size, b
<1>3. G \in [N -> [[N -> Nat] -> Nat]]
  <2>1. ASSUME NEW s \in N, NEW g \in [N -> Nat] PROVE SumFrom(f, s, g) \in Nat
    BY <1>1, <1>2 DEF SumFrom
  <2> QED BY <2>1
<1>4. ASSUME NEW s \in N, NEW g \in [N -> Nat], NEW h \in [N -> Nat],
             \A k \in N : size[k] < size[s] => g[k] = h[k]
      PROVE  G[s][g] = G[s][h]
  <2>1. SumFrom(f, s, g) = SumFrom(f, s, h)
    BY <1>1, <1>2, <1>4 DEF SumFrom
  <2> QED BY <2>1
<1>5. PICK g \in [N -> Nat] : \A s \in N : g[s] = G[s][g]
  <2>1. Nat # {}
    OBVIOUS
  <2>2. LooksDown(G, N, Nat, size)
    <3> HIDE DEF G
    <3> QED BY <1>3, <1>4 DEF LooksDown
  <2> HIDE DEF G
  <2> QED BY <1>1, <2>1, <2>2, Recursion
<1>6. g = [s \in N |-> SumFrom(f, s, g)]
  <2>1. \A s \in N : g[s] = SumFrom(f, s, g)
    BY <1>5
  <2> QED BY <2>1
<1> DEFINE sums == Sums(f, S)
<1>7. sums = [s \in N |-> SumFrom(f, s, sums)]
  <2> DEFINE eq(h) == h = [s \in N |-> SumFrom(f, s, h)]
  <2>1. sums = CHOOSE h : eq(h)
    BY DEF Sums, N
  <2>2. eq(g)
    BY <1>6
  <2> HIDE DEF eq, sums
  <2>3. eq(sums)
    BY <2>1, <2>2
  <2> QED BY <2>3 DEF eq
<1> HIDE DEF sums
<1> DEFINE X == {s \in N : sums[s] \in Nat}
<1>8. ASSUME NEW s \in N, \A k \in N : size[k] < size[s] => k \in X PROVE s \in X
  <2>1. sums[s] = SumFrom(f, s, sums)
    BY <1>7
  <2>2. CASE s = {}
    BY <2>1, <2>2 DEF SumFrom
  <2>3. CASE s # {}
    <3>1. s \ {OneOf(s)} \in N /\ sums[s \ {OneOf(s)}] \in Nat
      BY <1>1, <1>2, <1>8, <2>3
    <3> QED BY <1>2, <2>1, <2>3, <3>1 DEF SumFrom
  <2> QED BY <2>2, <2>3
<1>9. N \subseteq X
  <2> HIDE DEF X
  <2> QED BY <1>1, <1>8, InOrder
<1> QED BY <1>7, <1>9 DEF N, sums

\* The sum over a set depends on the values there only.
LEMMA SameSums ==
  ASSUME NEW T, IsFiniteSet(T), NEW g, \A x \in T : g[x] \in Nat,
         NEW S \in SUBSET T, NEW f, \A x \in S : f[x] = g[x]
  PROVE  \A s \in SUBSET S : Sums(f, S)[s] = Sums(g, T)[s]
<1> DEFINE N == SUBSET S
           size == [s \in N |-> Cardinality(s)]
           b == Cardinality(S)
           X == {s \in N : Sums(f, S)[s] = Sums(g, T)[s]}
<1>1. IsFiniteSet(S) /\ \A x \in S : f[x] \in Nat
  BY FS_Subset
<1>2. /\ b \in Nat /\ size \in [N -> 0..b]
      /\ \A s \in N : \A x \in s : s \ {x} \in N /\ size[s \ {x}] < size[s]
  BY <1>1, Smaller
<1>3. \A s \in N : Sums(f, S)[s] = SumFrom(f, s, Sums(f, S)) /\ Sums(g, T)[s] = SumFrom(g, s, Sums(g, T))
  <2>1. Sums(f, S) = [s \in SUBSET S |-> SumFrom(f, s, Sums(f, S))]
    BY <1>1, SumsAre
  <2>2. Sums(g, T) = [s \in SUBSET T |-> SumFrom(g, s, Sums(g, T))]
    BY SumsAre
  <2>3. \A s \in N : s \in SUBSET S /\ s \in SUBSET T
    OBVIOUS
  <2> QED BY <2>1, <2>2, <2>3
<1>4. ASSUME NEW s \in N, \A k \in N : size[k] < size[s] => k \in X PROVE s \in X
  <2>1. CASE s = {}
    BY <1>3, <2>1 DEF SumFrom
  <2>2. CASE s # {}
    <3>1. OneOf(s) \in s /\ OneOf(s) \in S
      BY <2>2 DEF OneOf
    <3>2. s \ {OneOf(s)} \in X
      BY <1>2, <1>4, <3>1
    <3>3. f[OneOf(s)] = g[OneOf(s)] /\ Sums(f, S)[s \ {OneOf(s)}] = Sums(g, T)[s \ {OneOf(s)}]
      BY <3>1, <3>2
    <3>4. SumFrom(f, s, Sums(f, S)) = SumFrom(g, s, Sums(g, T))
      BY <3>3 DEF SumFrom
    <3> QED BY <1>3, <3>4
  <2> QED BY <2>1, <2>2
<1>5. N \subseteq X
  <2> HIDE DEF X, N, size, b
  <2> QED BY <1>2, <1>4, InOrder
<1> QED BY <1>5

\* A sum is a natural number; it does not matter which element is added last.
LEMMA Totals ==
  ASSUME NEW S, IsFiniteSet(S), NEW f, \A x \in S : f[x] \in Nat
  PROVE  /\ Total(f, {}) = 0
         /\ \A s \in SUBSET S : Total(f, s) \in Nat /\ \A y \in s : Total(f, s) = Total(f, s \ {y}) + f[y]
<1> DEFINE N == SUBSET S
           size == [s \in N |-> Cardinality(s)]
           b == Cardinality(S)
           sums == Sums(f, S)
           X == {s \in N : \A y \in s : sums[s] = sums[s \ {y}] + f[y]}
<1>1. /\ b \in Nat /\ size \in [N -> 0..b]
      /\ \A s \in N : \A x \in s : s \ {x} \in N /\ size[s \ {x}] < size[s]
  BY Smaller
<1>2. \A s \in N : Total(f, s) = sums[s]
  BY TotalIs, SameSums
<1>3. \A s \in N : sums[s] \in Nat /\ sums[s] = SumFrom(f, s, sums)
  <2>1. sums = [s \in N |-> SumFrom(f, s, sums)] /\ \A s \in N : sums[s] \in Nat
    BY SumsAre
  <2> HIDE DEF sums
  <2> QED BY <2>1
<1>4. \A x \in S : f[x] \in Nat
  OBVIOUS
<1>5. {} \in N /\ \A s \in N : s \subseteq S
  OBVIOUS
<1> HIDE DEF N, size, b, sums
<1>6. ASSUME NEW s \in N, \A k \in N : size[k] < size[s] => k \in X PROVE s \in X
  <2> SUFFICES ASSUME NEW y \in s PROVE sums[s] = sums[s \ {y}] + f[y]
    OBVIOUS
  <2> DEFINE x == OneOf(s)
  <2>1. x \in s
    BY DEF OneOf
  <2>2. sums[s] = f[x] + sums[s \ {x}]
    BY <1>3 DEF SumFrom
  <2> HIDE DEF x
  <2>3. f[x] \in Nat /\ f[y] \in Nat /\ s \ {x} \in N /\ s \ {y} \in N
    BY <1>1, <1>4, <1>5, <2>1
  <2>4. CASE x = y
    BY <1>3, <2>2, <2>3, <2>4
  <2>5. CASE x # y
    <3>1. s \ {x} \in X /\ s \ {y} \in X
      BY <1>1, <1>6, <2>1
    <3>2. sums[s \ {x}] = sums[(s \ {x}) \ {y}] + f[y] /\ sums[s \ {y}] = sums[(s \ {y}) \ {x}] + f[x]
      BY <2>1, <2>5, <3>1
    <3>3. (s \ {x}) \ {y} = (s \ {y}) \ {x}
      OBVIOUS
    <3>4. (s \ {y}) \ {x} \in N
      BY <1>1, <2>1, <2>3, <2>5
    <3>5. sums[(s \ {y}) \ {x}] \in Nat
      BY <1>3, <3>4
    <3> DEFINE all == sums[s]
               noX == sums[s \ {x}]
               noY == sums[s \ {y}]
               rest == sums[(s \ {y}) \ {x}]
    <3>6. all = f[x] + noX /\ noX = rest + f[y] /\ noY = rest + f[x] /\ rest \in Nat
      BY <2>2, <3>2, <3>3, <3>5
    <3> HIDE DEF all, noX, noY, rest
    <3>7. all = noY + f[y]
      BY <2>3, <3>6
    <3> QED BY <3>7 DEF all, noY
  <2> QED BY <2>4, <2>5
<1>7. N \subseteq X
  <2> HIDE DEF X
  <2> QED BY <1>1, <1>6, InOrder
<1>8. Total(f, {}) = 0
  BY <1>2, <1>3, <1>5 DEF SumFrom
<1>9. \A s \in N : Total(f, s) \in Nat
  BY <1>2, <1>3
<1>10. ASSUME NEW s \in N, NEW y \in s PROVE Total(f, s) = Total(f, s \ {y}) + f[y]
  <2>1. s \ {y} \in N /\ s \in X
    BY <1>1, <1>7
  <2> QED BY <1>2, <2>1
<1> QED BY <1>8, <1>9, <1>10 DEF N

\* The sum over part of a set is no greater than that over the whole.
LEMMA PartOfTotal ==
  ASSUME NEW S, IsFiniteSet(S), NEW f, \A x \in S : f[x] \in Nat, NEW s \in SUBSET S
  PROVE  Total(f, s) <= Total(f, S)
<1> DEFINE N == SUBSET S
           b == Cardinality(S)
           rest == [t \in N |-> b - Cardinality(t)]
           X == {t \in N : Total(f, t) <= Total(f, S)}
<1>1. /\ b \in Nat /\ \A t \in N : Cardinality(t) \in 0..b
      /\ \A t \in N : \A x \in t : Cardinality(t \ {x}) < Cardinality(t)
  <2> DEFINE size == [t \in N |-> Cardinality(t)]
  <2>1. /\ b \in Nat /\ size \in [N -> 0..b]
        /\ \A t \in N : \A x \in t : t \ {x} \in N /\ size[t \ {x}] < size[t]
    BY Smaller
  <2>2. \A t \in N : size[t] = Cardinality(t)
    OBVIOUS
  <2> HIDE DEF N, size, b
  <2> QED BY <2>1, <2>2
<1>2. rest \in [N -> 0..b]
  <2>1. \A t \in N : b - Cardinality(t) \in 0..b
    BY <1>1
  <2> QED BY <2>1
<1>3. \A t \in N : Total(f, t) \in Nat /\ \A y \in t : Total(f, t) = Total(f, t \ {y}) + f[y]
  BY Totals
<1>4. \A x \in S : f[x] \in Nat
  OBVIOUS
<1>5. ASSUME NEW t \in N, \A k \in N : rest[k] < rest[t] => k \in X PROVE t \in X
  <2>1. CASE t = S
    BY <1>3, <2>1
  <2>2. CASE t # S
    <3>1. PICK y \in S : y \notin t
      BY <2>2
    <3> DEFINE u == t \cup {y}
    <3>2. u \in N /\ y \in u /\ u \ {y} = t
      BY <3>1
    <3>3. Cardinality(t) < Cardinality(u)
      BY <1>1, <3>2
    <3> HIDE DEF u
    <3>4. Cardinality(t) \in Nat /\ Cardinality(u) \in Nat /\ rest[u] < rest[t]
      BY <1>1, <3>2, <3>3
    <3>5. Total(f, u) <= Total(f, S) /\ Total(f, u) = Total(f, t) + f[y]
      BY <1>3, <1>5, <3>2, <3>4
    <3>6. Total(f, u) \in Nat /\ Total(f, t) \in Nat /\ Total(f, S) \in Nat /\ f[y] \in Nat
      BY <1>3, <3>2
    <3> QED BY <3>5, <3>6
  <2> QED BY <2>1, <2>2
<1>6. N \subseteq X
  <2> HIDE DEF X, N, rest, b
  <2> QED BY <1>1, <1>2, <1>5, InOrder
<1> QED BY <1>6
-----------------------------------------------------------------------------
(* The layout of a template: every tree has columns of its own.            *)

\* Parents come before their children, in the tree of the same template.
LEMMA ParentsFirst ==
  ASSUME NEW p \in Trees, NEW n \in Primitive
  PROVE  /\ n \in 1..Cardinality(Primitive) /\ Cardinality(Primitive) \in Nat /\ n \in Nat
         /\ Home[n] \in Template /\ Home[n] \notin Primitive /\ Gone \notin Primitive /\ Home[n] # Gone
         /\ \/ p[n] \in {Gone, Home[n]}
            \/ p[n] \in Primitive /\ p[n] < n /\ Home[p[n]] = Home[n] /\ p[p[n]] # Gone
<1>1. n \in 1..Cardinality(Primitive) /\ Cardinality(Primitive) \in Nat
  BY HomeAssumption, FS_CardinalityType
<1>2. Home[n] \in Template /\ Home[n] \notin Primitive /\ Gone \notin Primitive /\ Home[n] # Gone
  BY HomeAssumption, GoneAssumption
<1> QED BY <1>1, <1>2 DEF Trees

Numbered == [n \in Primitive |-> n]
Reversed == [n \in Primitive |-> Cardinality(Primitive) - n]

LEMMA Ranks ==
  /\ Cardinality(Primitive) \in Nat /\ Primitive \subseteq Nat
  /\ Numbered \in [Primitive -> 0..Cardinality(Primitive)]
  /\ Reversed \in [Primitive -> 0..Cardinality(Primitive)]
<1>1. Cardinality(Primitive) \in Nat /\ Primitive = 1..Cardinality(Primitive)
  BY HomeAssumption, FS_CardinalityType
<1>2. \A n \in Primitive : n \in 0..Cardinality(Primitive) /\ Cardinality(Primitive) - n \in 0..Cardinality(Primitive)
  BY <1>1
<1>3. Primitive \subseteq Nat
  BY <1>1
<1> QED BY <1>1, <1>2, <1>3 DEF Numbered, Reversed

\* What holds for a primitive when it holds for those before it holds for all ...
LEMMA FromTheTop ==
  ASSUME NEW X, \A n \in Primitive : (\A k \in Primitive : Numbered[k] < Numbered[n] => k \in X) => n \in X
  PROVE  Primitive \subseteq X
<1> DEFINE b == Cardinality(Primitive)
<1>1. b \in Nat /\ Numbered \in [Primitive -> 0..b]
  BY Ranks
<1> HIDE DEF b
<1> QED BY <1>1, InOrder

\* ... and so does what holds when it holds for those after it.
LEMMA FromTheBottom ==
  ASSUME NEW X, \A n \in Primitive : (\A k \in Primitive : Reversed[k] < Reversed[n] => k \in X) => n \in X
  PROVE  Primitive \subseteq X
<1> DEFINE b == Cardinality(Primitive)
<1>1. b \in Nat /\ Reversed \in [Primitive -> 0..b]
  BY Ranks
<1> HIDE DEF b
<1> QED BY <1>1, InOrder

\* The top-level primitive above each, in any forest.
AboveFrom(p, n, top) == IF p[n] \in Primitive THEN top[p[n]] ELSE n
AboveIn(p) == CHOOSE top : top = [n \in Primitive |-> AboveFrom(p, n, top)]

LEMMA AboveIs ==
  ASSUME NEW p \in Trees
  PROVE  \A n \in Primitive : /\ AboveIn(p)[n] = AboveFrom(p, n, AboveIn(p))
                              /\ AboveIn(p)[n] \in Primitive
                              /\ Home[AboveIn(p)[n]] = Home[n]
<1> DEFINE G == [n \in Primitive |-> [f \in [Primitive -> Primitive] |-> AboveFrom(p, n, f)]]
           above == AboveIn(p)
           b == Cardinality(Primitive)
<1>1. CASE Primitive = {}
  BY <1>1
<1>2. CASE Primitive # {}
  <2>1. \A n \in Primitive : p[n] \in Primitive => p[n] < n /\ Home[p[n]] = Home[n]
    BY ParentsFirst
  <2>2. LooksDown(G, Primitive, Primitive, Numbered)
    <3>1. \A n \in Primitive : \A f \in [Primitive -> Primitive] : AboveFrom(p, n, f) \in Primitive
      BY DEF AboveFrom
    <3>2. G \in [Primitive -> [[Primitive -> Primitive] -> Primitive]]
      BY <3>1
    <3>3. ASSUME NEW n \in Primitive, NEW f \in [Primitive -> Primitive], NEW g \in [Primitive -> Primitive],
                 \A k \in Primitive : Numbered[k] < Numbered[n] => f[k] = g[k]
          PROVE  G[n][f] = G[n][g]
      <4>1. AboveFrom(p, n, f) = AboveFrom(p, n, g)
        BY <2>1, <3>3 DEF AboveFrom, Numbered
      <4> QED BY <4>1
    <3> HIDE DEF G
    <3> QED BY <3>2, <3>3 DEF LooksDown
  <2>3. PICK f \in [Primitive -> Primitive] : \A n \in Primitive : f[n] = G[n][f]
    <3>1. b \in Nat /\ Numbered \in [Primitive -> 0..b]
      BY Ranks
    <3> DEFINE V == Primitive
    <3>2. V # {} /\ LooksDown(G, Primitive, V, Numbered)
      BY <1>2, <2>2
    <3> HIDE DEF G, b, V
    <3>3. \E f \in [Primitive -> V] : \A n \in Primitive : f[n] = G[n][f]
      BY <3>1, <3>2, Recursion
    <3> QED BY <3>3 DEF V
  <2>4. f = [n \in Primitive |-> AboveFrom(p, n, f)]
    <3>1. \A n \in Primitive : f[n] = AboveFrom(p, n, f)
      BY <2>3
    <3> QED BY <3>1
  <2>5. above = [n \in Primitive |-> AboveFrom(p, n, above)]
    <3> DEFINE eq(h) == h = [n \in Primitive |-> AboveFrom(p, n, h)]
    <3>1. above = CHOOSE h : eq(h)
      BY DEF AboveIn
    <3>2. eq(f)
      BY <2>4
    <3> HIDE DEF eq, above
    <3>3. eq(above)
      BY <3>1, <3>2
    <3> QED BY <3>3 DEF eq
  <2> HIDE DEF above
  <2> DEFINE X == {n \in Primitive : above[n] \in Primitive /\ Home[above[n]] = Home[n]}
  <2>6. ASSUME NEW n \in Primitive, \A k \in Primitive : Numbered[k] < Numbered[n] => k \in X PROVE n \in X
    <3>1. above[n] = AboveFrom(p, n, above)
      BY <2>5
    <3>2. CASE p[n] \in Primitive
      <4>1. p[n] \in X /\ Home[p[n]] = Home[n]
        BY <2>1, <2>6, <3>2 DEF Numbered
      <4> QED BY <3>1, <3>2, <4>1 DEF AboveFrom
    <3>3. CASE p[n] \notin Primitive
      BY <3>1, <3>3 DEF AboveFrom
    <3> QED BY <3>2, <3>3
  <2>7. Primitive \subseteq X
    <3> HIDE DEF X
    <3> QED BY <2>6, FromTheTop
  <2> QED BY <2>5, <2>7 DEF above
<1> QED BY <1>1, <1>2

\* Who is above a primitive depends on the trees of its template only.
LEMMA AboveStays ==
  ASSUME NEW p \in Trees, NEW q \in Trees, NEW ct, \A n \in Primitive : Home[n] # ct => q[n] = p[n]
  PROVE  \A n \in Primitive : Home[n] # ct => AboveIn(q)[n] = AboveIn(p)[n]
<1> DEFINE X == {n \in Primitive : Home[n] # ct => AboveIn(q)[n] = AboveIn(p)[n]}
<1>1. ASSUME NEW n \in Primitive, \A k \in Primitive : Numbered[k] < Numbered[n] => k \in X PROVE n \in X
  <2> SUFFICES ASSUME Home[n] # ct PROVE AboveIn(q)[n] = AboveIn(p)[n]
    OBVIOUS
  <2>1. AboveIn(q)[n] = AboveFrom(q, n, AboveIn(q)) /\ AboveIn(p)[n] = AboveFrom(p, n, AboveIn(p)) /\ q[n] = p[n]
    BY AboveIs
  <2>2. CASE p[n] \in Primitive
    <3>1. p[n] < n /\ Home[p[n]] = Home[n]
      BY <2>2, ParentsFirst
    <3>2. p[n] \in X
      BY <1>1, <2>2, <3>1 DEF Numbered
    <3> QED BY <2>1, <2>2, <3>1, <3>2 DEF AboveFrom
  <2>3. CASE p[n] \notin Primitive
    BY <2>1, <2>3 DEF AboveFrom
  <2> QED BY <2>2, <2>3
<1>2. Primitive \subseteq X
  <2> HIDE DEF X
  <2> QED BY <1>1, FromTheTop
<1> QED BY <1>2

KidSet(n) == {m \in Primitive : parent[m] = n}

LEMMA KidsOf ==
  ASSUME parent \in Trees, NEW n
  PROVE  /\ ToSet(Kids(n)) = KidSet(n) /\ KidSet(n) \subseteq Primitive /\ IsFiniteSet(KidSet(n))
         /\ Kids(n) = <<>> <=> KidSet(n) = {}
         /\ DOMAIN Kids(n) = 1..Len(Kids(n)) /\ Len(Kids(n)) \in Nat
         /\ \A m \in KidSet(n) : \E i \in DOMAIN Kids(n) : Kids(n)[i] = m
         /\ \A i \in DOMAIN Kids(n) : Kids(n)[i] \in Primitive
<1>1. Kids(n) = KidsIn(parent, n)
  BY DEF Kids, KidsIn
<1>2. Kids(n) \in Seq(Primitive) /\ ToSet(Kids(n)) = KidSet(n) /\ (Kids(n) # <<>> => 1 \in DOMAIN Kids(n))
  BY <1>1, KidsAre DEF KidSet
<1>3. \A m \in KidSet(n) : \E i \in DOMAIN Kids(n) : Kids(n)[i] = m
  BY <1>2 DEF ToSet
<1>4. \A i \in DOMAIN Kids(n) : Kids(n)[i] \in KidSet(n)
  BY <1>2 DEF ToSet
<1>5. DOMAIN Kids(n) = 1..Len(Kids(n)) /\ Len(Kids(n)) \in Nat
  BY <1>2, LenProperties
<1>6. KidSet(n) \subseteq Primitive /\ IsFiniteSet(KidSet(n))
  BY HomeAssumption, FS_Subset DEF KidSet
<1>7. Kids(n) = <<>> <=> KidSet(n) = {}
  <2>1. DOMAIN <<>> = {}
    OBVIOUS
  <2> QED BY <1>2, <1>3, <1>4, <2>1
<1> QED BY <1>2, <1>3, <1>4, <1>5, <1>6, <1>7

\* A tree is as wide as those of its children together, and never of no width.
WidthFrom(n, width) ==
  IF KidSet(n) = {} THEN 1 ELSE Total([m \in KidSet(n) |-> width[m]], KidSet(n))

LEMMA SumOfWidths ==
  ASSUME parent \in Trees, NEW n \in Primitive, NEW f, \A m \in KidSet(n) : f[m] \in Nat \ {0}
  PROVE  WidthFrom(n, f) \in Nat \ {0}
<1> DEFINE S == KidSet(n)
           g == [m \in S |-> f[m]]
<1>1. CASE S = {}
  BY <1>1 DEF WidthFrom
<1>2. CASE S # {}
  <2>1. IsFiniteSet(S) /\ \A m \in S : g[m] \in Nat /\ g[m] # 0
    BY KidsOf
  <2>2. PICK y \in S : TRUE
    BY <1>2
  <2>3. WidthFrom(n, f) = Total(g, S)
    BY <1>2 DEF WidthFrom
  <2> HIDE DEF S, g
  <2>4. \A s \in SUBSET S : Total(g, s) \in Nat /\ \A m \in s : Total(g, s) = Total(g, s \ {m}) + g[m]
    BY <2>1, Totals
  <2>5. Total(g, S) \in Nat /\ Total(g, S \ {y}) \in Nat /\ Total(g, S) = Total(g, S \ {y}) + g[y]
    BY <2>2, <2>4
  <2>6. Total(g, S) # 0
    BY <2>1, <2>2, <2>5
  <2> QED BY <2>3, <2>5, <2>6
<1> QED BY <1>1, <1>2

LEMMA WidthIs ==
  ASSUME parent \in Trees
  PROVE  \A n \in Primitive : WidthOf[n] = WidthFrom(n, WidthOf) /\ WidthOf[n] \in Nat \ {0}
<1> DEFINE V == Nat \ {0}
           G == [n \in Primitive |-> [f \in [Primitive -> V] |-> WidthFrom(n, f)]]
           b == Cardinality(Primitive)
           width == WidthOf
<1>1. \A n \in Primitive : \A m \in KidSet(n) : m \in Primitive /\ Reversed[m] < Reversed[n]
  <2> SUFFICES ASSUME NEW n \in Primitive, NEW m \in KidSet(n) PROVE m \in Primitive /\ Reversed[m] < Reversed[n]
    OBVIOUS
  <2>1. m \in Primitive /\ parent[m] = n
    BY DEF KidSet
  <2>2. n < m
    BY <2>1, ParentsFirst
  <2>3. b \in Nat /\ n \in Nat /\ m \in Nat
    BY <2>1, Ranks
  <2> QED BY <2>1, <2>2, <2>3 DEF Reversed
<1>2. LooksDown(G, Primitive, V, Reversed)
  <2>1. \A n \in Primitive : \A f \in [Primitive -> V] : WidthFrom(n, f) \in V
    BY <1>1, SumOfWidths
  <2>2. G \in [Primitive -> [[Primitive -> V] -> V]]
    BY <2>1
  <2>3. ASSUME NEW n \in Primitive, NEW f \in [Primitive -> V], NEW g \in [Primitive -> V],
               \A k \in Primitive : Reversed[k] < Reversed[n] => f[k] = g[k]
        PROVE  G[n][f] = G[n][g]
    <3>1. [m \in KidSet(n) |-> f[m]] = [m \in KidSet(n) |-> g[m]]
      BY <1>1, <2>3
    <3>2. WidthFrom(n, f) = WidthFrom(n, g)
      BY <3>1 DEF WidthFrom
    <3> QED BY <3>2
  <2> HIDE DEF G, V
  <2> QED BY <2>2, <2>3 DEF LooksDown
<1>3. PICK f \in [Primitive -> V] : \A n \in Primitive : f[n] = G[n][f]
  <2>1. V # {}
    OBVIOUS
  <2>2. b \in Nat /\ Reversed \in [Primitive -> 0..b]
    BY Ranks
  <2> HIDE DEF G, V, b
  <2> QED BY <1>2, <2>1, <2>2, Recursion
<1>4. f = [n \in Primitive |-> WidthFrom(n, f)]
  <2>1. \A n \in Primitive : f[n] = WidthFrom(n, f)
    BY <1>3
  <2> QED BY <2>1
<1>5. width = [n \in Primitive |-> WidthFrom(n, width)]
  <2> DEFINE eq(h) == h = [n \in Primitive |-> WidthFrom(n, h)]
  <2>1. \A n : Kids(n) = <<>> <=> KidSet(n) = {}
    BY KidsOf
  <2>2. \A n : ToSet(Kids(n)) = KidSet(n)
    BY KidsOf
  <2>3. \A h, n : WidthFrom(n, h) =
          IF Kids(n) = <<>> THEN 1
          ELSE FoldFunctionOnSet(+, 0, [m \in ToSet(Kids(n)) |-> h[m]], ToSet(Kids(n)))
    BY <2>1, <2>2 DEF WidthFrom, Total
  <2>4. width = CHOOSE h : eq(h)
    BY <2>3 DEF WidthOf
  <2>5. eq(f)
    BY <1>4
  <2> HIDE DEF eq, width
  <2>6. eq(width)
    BY <2>4, <2>5
  <2> QED BY <2>6 DEF eq
<1> HIDE DEF width
<1> DEFINE X == {n \in Primitive : width[n] \in V}
<1>6. ASSUME NEW n \in Primitive, \A k \in Primitive : Reversed[k] < Reversed[n] => k \in X PROVE n \in X
  <2>1. \A m \in KidSet(n) : width[m] \in Nat \ {0}
    BY <1>1, <1>6
  <2>2. WidthFrom(n, width) \in V
    BY <2>1, SumOfWidths
  <2> QED BY <1>5, <2>2
<1>7. Primitive \subseteq X
  <2> HIDE DEF X
  <2> QED BY <1>6, FromTheBottom
<1> QED BY <1>5, <1>7 DEF width

\* A fold of the values at a set is a fold of the function.
LEMMA TotalThere ==
  ASSUME NEW S, IsFiniteSet(S), NEW f, \A x \in S : f[x] \in Nat
  PROVE  Total([x \in S |-> f[x]], S) = Total(f, S)
<1> DEFINE g == [x \in S |-> f[x]]
<1>1. \A x \in S : g[x] = f[x]
  OBVIOUS
<1> HIDE DEF g
<1>2. Sums(g, S)[S] = Sums(f, S)[S]
  BY <1>1, SameSums
<1> QED BY <1>2, TotalIs DEF g

\* The siblings that are drawn left of n.
Elder(n) == {k \in KidSet(parent[n]) : k < n}

LEMMA Columns ==
  ASSUME parent \in Trees, NEW n \in Primitive, parent[n] \in Primitive
  PROVE  /\ Offset(Kids(parent[n]), n) = Total(WidthOf, Elder(n))
         /\ Total(WidthOf, Elder(n)) \in Nat
         /\ Total(WidthOf, Elder(n)) + WidthOf[n] <= WidthOf[parent[n]]
         /\ \A m \in KidSet(parent[n]) : n < m =>
              Total(WidthOf, Elder(n)) + WidthOf[n] <= Total(WidthOf, Elder(m))
<1> DEFINE S == KidSet(parent[n])
           E == Elder(n)
<1>1. ToSet(Kids(parent[n])) = S /\ S \subseteq Primitive /\ IsFiniteSet(S) /\ n \in S
  BY KidsOf DEF KidSet
<1>2. \A m \in Primitive : WidthOf[m] \in Nat /\ WidthOf[m] # 0
  BY WidthIs
<1>3. E \in SUBSET S /\ n \notin E /\ E \cup {n} \in SUBSET S /\ IsFiniteSet(E)
  <2>1. E \in SUBSET S /\ n \notin E
    BY Ranks DEF Elder
  <2>2. IsFiniteSet(E)
    BY <1>1, <2>1, FS_Subset
  <2> QED BY <1>1, <2>1, <2>2
<1>4. \A s \in SUBSET S : Total(WidthOf, s) \in Nat /\ \A y \in s : Total(WidthOf, s) = Total(WidthOf, s \ {y}) + WidthOf[y]
  <2> HIDE DEF S
  <2>1. \A m \in S : WidthOf[m] \in Nat
    BY <1>1, <1>2
  <2> QED BY <1>1, <2>1, Totals
<1>5. Total(WidthOf, E \cup {n}) = Total(WidthOf, E) + WidthOf[n]
  <2>1. (E \cup {n}) \ {n} = E
    BY <1>3
  <2>2. n \in E \cup {n}
    OBVIOUS
  <2> HIDE DEF E
  <2> QED BY <1>3, <1>4, <2>1, <2>2
<1>6. ASSUME NEW T \in SUBSET S, NEW s \in SUBSET T PROVE Total(WidthOf, s) <= Total(WidthOf, T)
  <2> HIDE DEF S
  <2>1. IsFiniteSet(T) /\ \A m \in T : WidthOf[m] \in Nat
    BY <1>1, <1>2, FS_Subset
  <2> QED BY <2>1, PartOfTotal
<1>7. Offset(Kids(parent[n]), n) = Total(WidthOf, E)
  <2>1. \A m \in E : WidthOf[m] \in Nat
    BY <1>1, <1>2, <1>3
  <2>2. Offset(Kids(parent[n]), n) = Total([m \in E |-> WidthOf[m]], E)
    BY <1>1 DEF Offset, Total, Elder
  <2> HIDE DEF E
  <2> QED BY <1>3, <2>1, <2>2, TotalThere
<1>8. WidthOf[parent[n]] = Total(WidthOf, S)
  <2>1. WidthOf[parent[n]] = WidthFrom(parent[n], WidthOf)
    BY WidthIs
  <2>2. WidthFrom(parent[n], WidthOf) = Total([m \in S |-> WidthOf[m]], S)
    BY <1>1 DEF WidthFrom
  <2>3. \A m \in S : WidthOf[m] \in Nat
    BY <1>1, <1>2
  <2> HIDE DEF S
  <2> QED BY <1>1, <2>1, <2>2, <2>3, TotalThere
<1>9. Total(WidthOf, E \cup {n}) <= Total(WidthOf, S)
  BY <1>3, <1>6
<1>10. ASSUME NEW m \in S, n < m PROVE Total(WidthOf, E \cup {n}) <= Total(WidthOf, Elder(m))
  <2>1. m \in Primitive /\ parent[m] = parent[n] /\ n \in Nat /\ m \in Nat /\ \A k \in S : k \in Nat
    BY <1>1, Ranks DEF KidSet
  <2>2. Elder(m) = {k \in S : k < m}
    BY <2>1 DEF Elder
  <2>3. \A k \in S : k < n => k < m
    BY <1>10, <2>1
  <2>4. E \cup {n} \in SUBSET Elder(m) /\ Elder(m) \in SUBSET S
    BY <1>1, <1>10, <2>2, <2>3 DEF Elder
  <2> QED BY <1>6, <2>4
<1>11. Total(WidthOf, E) \in Nat
  BY <1>3, <1>4
<1> HIDE DEF E, S
<1>12. \A m \in S : n < m => Total(WidthOf, E) + WidthOf[n] <= Total(WidthOf, Elder(m))
  BY <1>5, <1>10
<1>13. Total(WidthOf, E) + WidthOf[n] <= WidthOf[parent[n]]
  BY <1>5, <1>8, <1>9
<1> QED BY <1>7, <1>11, <1>12, <1>13 DEF E, S

\* The first tree starts at the left margin, the others somewhere right of it.
WidthUpTo(kids, i, width) ==
  IF i = 0 THEN 0
  ELSE LET w == WidthOf[kids[i]] IN width[i-1] + (IF w > width[i-1] THEN w ELSE 0)

LEMMA TopColumnIs ==
  ASSUME parent \in Trees, NEW ct
  PROVE  \A i \in DOMAIN Kids(ct) : TopColumn(Kids(ct))[i] \in Nat
<1> DEFINE kids == Kids(ct)
           l == Len(kids)
           N == 0..l
           r == [i \in N |-> i]
           G == [i \in N |-> [f \in [N -> Nat] |-> WidthUpTo(kids, i, f)]]
           width == CHOOSE f : f = [i \in N |-> WidthUpTo(kids, i, f)]
<1>1. l \in Nat /\ DOMAIN kids = 1..l /\ \A i \in 1..l : WidthOf[kids[i]] \in Nat
  BY KidsOf, WidthIs
<1>2. TopColumn(kids) = [i \in 1..l |-> width[i-1]]
  BY <1>1 DEF TopColumn, WidthUpTo
<1> HIDE DEF kids, l
<1>3. \A i \in N : i \in Nat /\ (i # 0 => i \in 1..l /\ i - 1 \in N /\ r[i-1] < r[i])
  BY <1>1
<1>4. r \in [N -> 0..l]
  OBVIOUS
<1> HIDE DEF N, r
<1>5. \A i \in N : \A f : (i # 0 => f[i-1] \in Nat) => WidthUpTo(kids, i, f) \in Nat
  BY <1>1, <1>3 DEF WidthUpTo
<1>6. LooksDown(G, N, Nat, r)
  <2>1. G \in [N -> [[N -> Nat] -> Nat]]
    BY <1>3, <1>5
  <2>2. ASSUME NEW i \in N, NEW f \in [N -> Nat], NEW g \in [N -> Nat],
               \A k \in N : r[k] < r[i] => f[k] = g[k]
        PROVE  G[i][f] = G[i][g]
    <3>1. WidthUpTo(kids, i, f) = WidthUpTo(kids, i, g)
      BY <1>3, <2>2 DEF WidthUpTo
    <3> QED BY <3>1
  <2> HIDE DEF G
  <2> QED BY <2>1, <2>2 DEF LooksDown
<1>7. PICK f \in [N -> Nat] : \A i \in N : f[i] = G[i][f]
  <2>1. Nat # {} /\ l \in Nat
    BY <1>1
  <2> HIDE DEF G
  <2> QED BY <1>4, <1>6, <2>1, Recursion
<1>8. f = [i \in N |-> WidthUpTo(kids, i, f)]
  <2>1. \A i \in N : f[i] = WidthUpTo(kids, i, f)
    BY <1>7
  <2> QED BY <2>1
<1>9. width = [i \in N |-> WidthUpTo(kids, i, width)]
  <2> DEFINE eq(h) == h = [i \in N |-> WidthUpTo(kids, i, h)]
  <2>1. width = CHOOSE h : eq(h)
    OBVIOUS
  <2>2. eq(f)
    BY <1>8
  <2> HIDE DEF eq, width
  <2>3. eq(width)
    BY <2>1, <2>2
  <2> QED BY <2>3 DEF eq
<1> HIDE DEF width
<1> DEFINE X == {i \in N : width[i] \in Nat}
<1>10. ASSUME NEW i \in N, \A k \in N : r[k] < r[i] => k \in X PROVE i \in X
  <2>1. i # 0 => width[i-1] \in Nat
    BY <1>3, <1>10
  <2>2. WidthUpTo(kids, i, width) \in Nat
    BY <1>5, <2>1
  <2> QED BY <1>9, <2>2
<1>11. N \subseteq X
  <2> HIDE DEF X
  <2> QED BY <1>1, <1>4, <1>10, InOrder
<1>12. ASSUME NEW i \in 1..l PROVE width[i-1] \in Nat
  <2>1. i - 1 \in N
    BY <1>1 DEF N
  <2> QED BY <1>11, <2>1
<1> QED BY <1>1, <1>2, <1>12 DEF kids

\* Where a primitive is drawn: at the top of its tree, or below its parent.
PlaceFrom(ct, n, at) ==
  IF parent[n] = ct
    THEN [x |-> xInitialPosition +
                  TopColumn(Kids(ct))[CHOOSE i \in DOMAIN Kids(ct) : Kids(ct)[i] = n] * xSpacing,
          y |-> yInitialPosition]
    ELSE [x |-> at[parent[n]].x + Offset(Kids(parent[n]), n) * xSpacing,
          y |-> at[parent[n]].y + ySpacing]

LEMMA PlacesAre ==
  ASSUME parent \in Trees, NEW ct \in Template
  PROVE  \A n \in Drawn(ct) : /\ PositionsOf(ct)[n] = PlaceFrom(ct, n, PositionsOf(ct))
                              /\ PositionsOf(ct)[n] \in [x : Nat, y : Nat]
                              /\ parent[n] # ct => parent[n] \in Drawn(ct) /\ parent[n] \in Primitive
<1> DEFINE N == Drawn(ct)
           V == [x : Nat, y : Nat]
           r == [n \in N |-> n]
           b == Cardinality(Primitive)
           G == [n \in N |-> [f \in [N -> V] |-> PlaceFrom(ct, n, f)]]
           at == PositionsOf(ct)
<1>1. \A n \in N : parent[n] # ct => parent[n] \in N /\ parent[n] \in Primitive /\ parent[n] < n
  BY ParentsFirst DEF Drawn
<1>2. \A n \in N : parent[n] = ct =>
        TopColumn(Kids(ct))[CHOOSE i \in DOMAIN Kids(ct) : Kids(ct)[i] = n] \in Nat
  <2> SUFFICES ASSUME NEW n \in N, parent[n] = ct
               PROVE  TopColumn(Kids(ct))[CHOOSE i \in DOMAIN Kids(ct) : Kids(ct)[i] = n] \in Nat
    OBVIOUS
  <2>1. n \in KidSet(ct)
    BY DEF Drawn, KidSet
  <2>2. \E i \in DOMAIN Kids(ct) : Kids(ct)[i] = n
    BY <2>1, KidsOf
  <2> QED BY <2>2, TopColumnIs
<1>3. \A n \in N : parent[n] # ct => Offset(Kids(parent[n]), n) \in Nat
  BY <1>1, Columns DEF Drawn
<1>4. b \in Nat /\ r \in [N -> 0..b]
  <2>1. b \in Nat /\ \A n \in N : n \in 0..b
    BY ParentsFirst, Ranks DEF Drawn
  <2> HIDE DEF b, N
  <2> QED BY <2>1
<1> HIDE DEF N, b
<1>5. \A n \in N : \A f : (parent[n] # ct => f[parent[n]] \in V) => PlaceFrom(ct, n, f) \in V
  <2> SUFFICES ASSUME NEW n \in N, NEW f, parent[n] # ct => f[parent[n]] \in V
               PROVE  PlaceFrom(ct, n, f) \in V
    OBVIOUS
  <2>1. CASE parent[n] = ct
    <3> DEFINE c == TopColumn(Kids(ct))[CHOOSE i \in DOMAIN Kids(ct) : Kids(ct)[i] = n]
    <3>1. c \in Nat
      BY <1>2, <2>1
    <3>2. PlaceFrom(ct, n, f) = [x |-> 290 + c * 200, y |-> 80]
      BY <2>1 DEF PlaceFrom, xInitialPosition, xSpacing, yInitialPosition
    <3> HIDE DEF c
    <3>3. 290 + c * 200 \in Nat
      BY <3>1
    <3> QED BY <3>2, <3>3
  <2>2. CASE parent[n] # ct
    <3> DEFINE c == Offset(Kids(parent[n]), n)
               a == f[parent[n]]
    <3>1. c \in Nat /\ a \in V
      BY <1>3, <2>2
    <3>2. PlaceFrom(ct, n, f) = [x |-> a.x + c * 200, y |-> a.y + 70]
      BY <2>2 DEF PlaceFrom, xSpacing, ySpacing
    <3> HIDE DEF c, a
    <3>3. a.x + c * 200 \in Nat /\ a.y + 70 \in Nat
      BY <3>1
    <3> QED BY <3>2, <3>3
  <2> QED BY <2>1, <2>2
<1>6. \A n \in N : parent[n] # ct => parent[n] \in N /\ r[parent[n]] < r[n]
  BY <1>1
<1>7. LooksDown(G, N, V, r)
  <2>1. G \in [N -> [[N -> V] -> V]]
    <3> HIDE DEF V, r
    <3>1. \A n \in N : \A f \in [N -> V] : PlaceFrom(ct, n, f) \in V
      BY <1>5, <1>6
    <3> QED BY <3>1
  <2>2. ASSUME NEW n \in N, NEW f \in [N -> V], NEW g \in [N -> V],
               \A k \in N : r[k] < r[n] => f[k] = g[k]
        PROVE  G[n][f] = G[n][g]
    <3>1. parent[n] # ct => f[parent[n]] = g[parent[n]]
      BY <1>6, <2>2
    <3>2. PlaceFrom(ct, n, f) = PlaceFrom(ct, n, g)
      BY <3>1 DEF PlaceFrom
    <3> HIDE DEF V
    <3> QED BY <3>2
  <2> HIDE DEF G, V, r
  <2> QED BY <2>1, <2>2 DEF LooksDown
<1>8. PICK f \in [N -> V] : \A n \in N : f[n] = G[n][f]
  <2>1. V # {}
    <3>1. [x |-> 0, y |-> 0] \in V
      OBVIOUS
    <3> QED BY <3>1
  <2> HIDE DEF G, V, r
  <2> QED BY <1>4, <1>7, <2>1, Recursion
<1> HIDE DEF V, r
<1>9. f = [n \in N |-> PlaceFrom(ct, n, f)]
  <2>1. \A n \in N : f[n] = PlaceFrom(ct, n, f)
    BY <1>8
  <2> QED BY <2>1
<1>10. at = [n \in N |-> PlaceFrom(ct, n, at)]
  <2> DEFINE eq(h) == h = [n \in N |-> PlaceFrom(ct, n, h)]
  <2>1. at = CHOOSE h : eq(h)
    BY DEF PositionsOf, PlaceFrom, N
  <2>2. eq(f)
    BY <1>9
  <2> HIDE DEF eq, at
  <2>3. eq(at)
    BY <2>1, <2>2
  <2> QED BY <2>3 DEF eq
<1> HIDE DEF at
<1> DEFINE X == {n \in N : at[n] \in V}
<1>11. ASSUME NEW n \in N, \A k \in N : r[k] < r[n] => k \in X PROVE n \in X
  <2>1. parent[n] # ct => at[parent[n]] \in V
    BY <1>6, <1>11
  <2>2. PlaceFrom(ct, n, at) \in V
    BY <1>5, <2>1
  <2> QED BY <1>10, <2>2
<1>12. N \subseteq X
  <2> HIDE DEF X
  <2> QED BY <1>4, <1>11, InOrder
<1>13. \A n \in N : at[n] = PlaceFrom(ct, n, at) /\ at[n] \in V
  BY <1>10, <1>12
<1> QED BY <1>1, <1>13 DEF N, V, at

\* The columns of m's tree and of n's do not overlap.
Apart(at, m, n) ==
  \/ at[m].x + WidthOf[m] * xSpacing <= at[n].x
  \/ at[n].x + WidthOf[n] * xSpacing <= at[m].x

\* In one row of one tree they never do, since they do not for the parents.
LEMMA RowsUnfold ==
  ASSUME parent \in Trees, NEW ct \in Template,
         NEW m \in Drawn(ct), NEW n \in Drawn(ct), m # n, AboveIn(parent)[m] = AboveIn(parent)[n]
  PROVE  PositionsOf(ct)[m] # PositionsOf(ct)[n]
<1> DEFINE D == Drawn(ct)
           at == PositionsOf(ct)
           W == WidthOf
           above == AboveIn(parent)
           X == {k \in Primitive : k \in D => \A l \in D :
                   k # l /\ above[k] = above[l] /\ at[k].y = at[l].y => Apart(at, k, l)}
<1>1. D \subseteq Primitive /\ ct \notin Primitive /\ \A k \in D : W[k] \in Nat /\ W[k] # 0
  BY HomeAssumption, WidthIs DEF Drawn
<1>2. \A k \in D : at[k].x \in Nat /\ at[k].y \in Nat /\ at[k] = PlaceFrom(ct, k, at)
                   /\ (parent[k] # ct => parent[k] \in D)
  BY PlacesAre
<1>3. \A k \in D : above[k] = IF parent[k] \in Primitive THEN above[parent[k]] ELSE k
  BY <1>1, AboveIs DEF AboveFrom
<1>4. \A k \in D : parent[k] = ct => at[k].y = 80
  <2> SUFFICES ASSUME NEW k \in D, parent[k] = ct PROVE at[k].y = 80
    OBVIOUS
  <2>1. PICK x : PlaceFrom(ct, k, at) = [x |-> x, y |-> 80]
    BY DEF PlaceFrom, yInitialPosition
  <2>2. at[k] = [x |-> x, y |-> 80]
    BY <1>2, <2>1
  <2> HIDE DEF at
  <2> QED BY <2>2
<1> DEFINE c(k) == Total(W, Elder(k))
<1>5. ASSUME NEW k \in D, parent[k] # ct
      PROVE  /\ parent[k] \in D /\ parent[k] \in Primitive /\ c(k) \in Nat
             /\ at[k].x = at[parent[k]].x + c(k) * 200
             /\ at[k].y = at[parent[k]].y + 70
             /\ c(k) + W[k] <= W[parent[k]]
             /\ \A l \in KidSet(parent[k]) : k < l => c(k) + W[k] <= c(l)
  <2>1. parent[k] \in D /\ parent[k] \in Primitive /\ k \in Primitive
    BY <1>1, <1>2, <1>5
  <2>2. Offset(Kids(parent[k]), k) = c(k)
    BY <2>1, Columns
  <2>3. at[k] = [x |-> at[parent[k]].x + c(k) * 200, y |-> at[parent[k]].y + 70]
    BY <1>2, <1>5, <2>2 DEF PlaceFrom, xSpacing, ySpacing
  <2> HIDE DEF at
  <2> QED BY <2>1, <2>3, Columns
<1> HIDE DEF D, at, W, above, c
<1>6. \A k \in D : at[k].y >= 80
  <2> DEFINE Y == {k \in Primitive : k \in D => at[k].y >= 80}
  <2>1. ASSUME NEW k \in Primitive, \A l \in Primitive : Numbered[l] < Numbered[k] => l \in Y PROVE k \in Y
    <3> SUFFICES ASSUME k \in D PROVE at[k].y >= 80
      OBVIOUS
    <3>1. CASE parent[k] = ct
      BY <1>4, <3>1
    <3>2. CASE parent[k] # ct
      <4>1. parent[k] \in D /\ parent[k] \in Primitive /\ at[k].y = at[parent[k]].y + 70
        BY <1>5, <3>2
      <4>2. parent[k] < k
        BY <4>1, ParentsFirst, <1>1
      <4>3. at[parent[k]].y >= 80 /\ at[parent[k]].y \in Nat
        BY <1>2, <2>1, <4>1, <4>2 DEF Numbered
      <4> QED BY <4>1, <4>3
    <3> QED BY <3>1, <3>2
  <2>2. Primitive \subseteq Y
    <3> HIDE DEF Y
    <3> QED BY <2>1, FromTheTop
  <2> QED BY <1>1, <2>2
<1>7. ASSUME NEW k \in D, NEW l \in D, parent[k] # ct, parent[l] # ct, parent[k] # parent[l],
             Apart(at, parent[k], parent[l])
      PROVE  Apart(at, k, l)
  <2> DEFINE p == parent[k]
             q == parent[l]
  <2>1. /\ p \in D /\ c(k) \in Nat /\ at[k].x = at[p].x + c(k) * 200 /\ c(k) + W[k] <= W[p]
        /\ q \in D /\ c(l) \in Nat /\ at[l].x = at[q].x + c(l) * 200 /\ c(l) + W[l] <= W[q]
    BY <1>5, <1>7
  <2>2. W[k] \in Nat /\ W[l] \in Nat /\ W[p] \in Nat /\ W[q] \in Nat /\ at[p].x \in Nat /\ at[q].x \in Nat
        /\ at[k].x \in Nat /\ at[l].x \in Nat
    BY <1>1, <1>2, <2>1
  <2>3. at[p].x + W[p] * 200 <= at[q].x \/ at[q].x + W[q] * 200 <= at[p].x
    BY <1>7 DEF Apart, xSpacing, W
  <2> HIDE DEF p, q
  <2>4. at[k].x + W[k] * 200 <= at[l].x \/ at[l].x + W[l] * 200 <= at[k].x
    BY <2>1, <2>2, <2>3
  <2> QED BY <2>4 DEF Apart, xSpacing, W
<1>8. ASSUME NEW k \in D, NEW l \in D, parent[k] # ct, parent[l] = parent[k], k < l
      PROVE  Apart(at, k, l)
  <2>1. l \in KidSet(parent[k])
    BY <1>1, <1>8 DEF KidSet
  <2>2. /\ c(k) \in Nat /\ at[k].x = at[parent[k]].x + c(k) * 200 /\ c(k) + W[k] <= c(l)
        /\ c(l) \in Nat /\ at[l].x = at[parent[k]].x + c(l) * 200
        /\ parent[k] \in D
    BY <1>5, <1>8, <2>1
  <2>3. W[k] \in Nat /\ at[parent[k]].x \in Nat /\ at[k].x \in Nat /\ at[l].x \in Nat
    BY <1>1, <1>2, <2>2
  <2>4. at[k].x + W[k] * 200 <= at[l].x
    BY <2>2, <2>3
  <2> QED BY <2>4 DEF Apart, xSpacing, W
<1>9. ASSUME NEW k \in Primitive, \A i \in Primitive : Numbered[i] < Numbered[k] => i \in X PROVE k \in X
  <2> SUFFICES ASSUME k \in D, NEW l \in D, k # l, above[k] = above[l], at[k].y = at[l].y
               PROVE  Apart(at, k, l)
    OBVIOUS
  <2>1. parent[k] # ct /\ parent[l] # ct
    <3>1. ASSUME NEW i \in D, parent[i] # ct PROVE at[i].y # 80
      <4>1. parent[i] \in D /\ at[i].y = at[parent[i]].y + 70
        BY <1>5, <3>1
      <4>2. at[parent[i]].y >= 80 /\ at[parent[i]].y \in Nat
        BY <1>2, <1>6, <4>1
      <4> QED BY <4>1, <4>2
    <3>2. parent[k] = ct <=> parent[l] = ct
      BY <1>4, <3>1
    <3>3. parent[k] = ct /\ parent[l] = ct => above[k] = k /\ above[l] = l
      BY <1>1, <1>3
    <3> QED BY <3>2, <3>3
  <2>2. CASE parent[k] = parent[l]
    <3>1. k \in Nat /\ l \in Nat
      BY <1>1, Ranks
    <3>2. k < l \/ l < k
      BY <3>1
    <3>3. Apart(at, l, k) => Apart(at, k, l)
      BY DEF Apart
    <3> QED BY <1>8, <2>1, <2>2, <3>2, <3>3
  <2>3. CASE parent[k] # parent[l]
    <3>1. /\ parent[k] \in D /\ parent[k] \in Primitive /\ at[k].y = at[parent[k]].y + 70
          /\ parent[l] \in D /\ parent[l] \in Primitive /\ at[l].y = at[parent[l]].y + 70
      BY <1>5, <2>1
    <3>2. at[parent[k]].y = at[parent[l]].y
      <4> DEFINE y == at[parent[k]].y
                 z == at[parent[l]].y
      <4>1. y \in Nat /\ z \in Nat
        BY <1>2, <3>1
      <4>2. y + 70 = z + 70
        BY <3>1
      <4> HIDE DEF y, z
      <4>3. y = z
        BY <4>1, <4>2
      <4> QED BY <4>3 DEF y, z
    <3>3. above[parent[k]] = above[parent[l]]
      BY <1>3, <3>1
    <3>4. parent[k] < k
      BY <1>1, <3>1, ParentsFirst
    <3>5. parent[k] \in X
      BY <1>9, <3>1, <3>4 DEF Numbered
    <3>6. Apart(at, parent[k], parent[l])
      BY <2>3, <3>1, <3>2, <3>3, <3>5
    <3> QED BY <1>7, <2>1, <2>3, <3>6
  <2> QED BY <2>2, <2>3
<1>10. Primitive \subseteq X
  <2> HIDE DEF X
  <2> QED BY <1>9, FromTheTop
<1>11. m \in D /\ n \in D /\ above[m] = above[n]
  BY DEF D, above
<1>12. at[m] = at[n] => Apart(at, m, n)
  BY <1>1, <1>10, <1>11
<1>13. Apart(at, m, n) => at[m] # at[n]
  <2>1. W[m] \in Nat /\ W[m] # 0 /\ W[n] \in Nat /\ W[n] # 0 /\ at[m].x \in Nat /\ at[n].x \in Nat
    BY <1>1, <1>2, <1>11
  <2>2. Apart(at, m, n) => at[m].x + W[m] * 200 <= at[n].x \/ at[n].x + W[n] * 200 <= at[m].x
    BY DEF Apart, xSpacing, W
  <2>3. Apart(at, m, n) => at[m].x # at[n].x
    BY <2>1, <2>2
  <2> QED BY <2>3
<1> QED BY <1>12, <1>13 DEF at

\* Only what is in a tree is drawn.
OnlyTreesDrawn == \A n \in Primitive : positions[n] # Unset => parent[n] # Gone

LayoutIInv == TreesUnfold /\ OnlyTreesDrawn

\* A new tree of a template is not drawn anywhere yet, and does not concern the others.
LEMMA OthersUnfold ==
  ASSUME LayoutIInv, parent \in Trees, parent' \in Trees, NEW ct,
         \A n \in Primitive : Home[n] # ct => parent'[n] = parent[n],
         positions' = [n \in Primitive |-> IF Home[n] = ct THEN Unset ELSE positions[n]]
  PROVE  LayoutIInv'
<1>1. \A n \in Primitive : positions'[n] # Unset => /\ Home[n] # ct /\ positions'[n] = positions[n]
                                                    /\ Above'[n] = Above[n] /\ parent'[n] = parent[n]
  <2>1. Above = AboveIn(parent) /\ Above' = AboveIn(parent')
    BY DEF Above, AboveIn, AboveFrom
  <2>2. \A n \in Primitive : Home[n] # ct => AboveIn(parent')[n] = AboveIn(parent)[n]
    BY AboveStays
  <2> QED BY <2>1, <2>2
<1>2. OnlyTreesDrawn'
  BY <1>1 DEF LayoutIInv, OnlyTreesDrawn
<1>3. TreesUnfold'
  <2> SUFFICES ASSUME NEW m \in Primitive, NEW n \in Primitive, m # n,
                      positions'[m] # Unset, positions'[n] # Unset, Above'[m] = Above'[n]
               PROVE  positions'[m] # positions'[n]
    BY DEF TreesUnfold
  <2>1. positions[m] # Unset /\ positions[n] # Unset /\ Above[m] = Above[n]
    BY <1>1
  <2>2. positions[m] # positions[n]
    BY <2>1 DEF LayoutIInv, TreesUnfold
  <2> QED BY <1>1, <2>2
<1> QED BY <1>2, <1>3 DEF LayoutIInv

LEMMA LayoutStep == CtIInv /\ LayoutIInv /\ [CtNext]_ctVars => LayoutIInv'
<1> SUFFICES ASSUME CtIInv, LayoutIInv, [CtNext]_ctVars PROVE LayoutIInv'
  OBVIOUS
<1>1. parent \in Trees
  BY DEF CtIInv, CtTypeOK
<1>2. ASSUME UNCHANGED <<parent, positions>> PROVE LayoutIInv'
  <2>1. Above' = Above
    BY <1>2 DEF Above
  <2> QED BY <1>2, <2>1 DEF LayoutIInv, OnlyTreesDrawn, TreesUnfold
<1>3. CASE EditCt
  <2>1. PICK ct \in Template :
          /\ parent' \in {p \in Trees : \A n \in Primitive : Home[n] # ct => p[n] = parent[n]}
          /\ positions' = [n \in Primitive |-> IF Home[n] = ct THEN Unset ELSE positions[n]]
    BY <1>3 DEF EditCt
  <2> QED BY <1>1, <2>1, OthersUnfold
<1>4. CASE LayOut
  <2>1. PICK ct \in Template :
          positions' = [n \in Primitive |-> IF n \in Drawn(ct) THEN PositionsOf(ct)[n] ELSE positions[n]]
    BY <1>4 DEF LayOut
  <2>2. UNCHANGED parent
    BY <1>4 DEF LayOut
  <2>3. OnlyTreesDrawn'
    BY <2>1, <2>2 DEF LayoutIInv, OnlyTreesDrawn, Drawn
  <2>4. TreesUnfold'
    <3> SUFFICES ASSUME NEW m \in Primitive, NEW n \in Primitive, m # n,
                        positions'[m] # Unset, positions'[n] # Unset, Above'[m] = Above'[n]
                 PROVE  positions'[m] # positions'[n]
      BY DEF TreesUnfold
    <3>1. Above = AboveIn(parent) /\ Above' = Above
      BY <2>2 DEF Above, AboveIn, AboveFrom
    <3>2. Home[m] = Home[n]
      BY <1>1, <3>1, AboveIs
    <3>3. CASE Home[m] = ct
      <4>1. m \in Drawn(ct) /\ n \in Drawn(ct)
        BY <2>2, <2>3, <3>2, <3>3 DEF OnlyTreesDrawn, Drawn
      <4>2. PositionsOf(ct)[m] # PositionsOf(ct)[n]
        BY <1>1, <3>1, <4>1, RowsUnfold
      <4> QED BY <2>1, <4>1, <4>2
    <3>4. CASE Home[m] # ct
      <4>1. positions'[m] = positions[m] /\ positions'[n] = positions[n]
        BY <2>1, <3>2, <3>4 DEF Drawn
      <4> QED BY <3>1, <4>1 DEF LayoutIInv, TreesUnfold
    <3> QED BY <3>3, <3>4
  <2> QED BY <2>3, <2>4 DEF LayoutIInv
<1>5. CASE ReadCt
  <2>1. \/ UNCHANGED <<parent, positions>>
        \/ \E ct \in Template :
             /\ parent' \in Trees
             /\ \A n \in Primitive : Home[n] # ct => parent'[n] = parent[n]
             /\ positions' = [n \in Primitive |-> IF Home[n] = ct THEN Unset ELSE positions[n]]
    BY <1>5, ReadKeepsOthers
  <2> QED BY <1>1, <1>2, <2>1, OthersUnfold
<1>6. WriteCt \/ DeleteCt \/ UNCHANGED ctVars => LayoutIInv'
  BY <1>2 DEF WriteCt, DeleteCt, ctVars
<1> QED BY <1>3, <1>4, <1>5, <1>6 DEF CtNext

\* Two primitives of one tree are never drawn in the same place: SetUserData and positions,
\* for trees of any number of primitives and any shape, built, moved about and read.
THEOREM TreesUnfoldHolds == CtSpec => []TreesUnfold
<1>1. CtInit => CtIInv /\ LayoutIInv
  <2>1. CtInit => LayoutIInv
    BY DEF CtInit, LayoutIInv, TreesUnfold, OnlyTreesDrawn
  <2> QED BY <2>1, CtInitially
<1>2. (CtIInv /\ LayoutIInv) /\ [CtNext]_ctVars => (CtIInv /\ LayoutIInv)'
  BY CtStep, LayoutStep
<1>3. LayoutIInv => TreesUnfold
  BY DEF LayoutIInv
<1> QED BY <1>1, <1>2, <1>3, PTL DEF CtSpec
=============================================================================
