-------------------------- MODULE ConversionProofs --------------------------
(***************************************************************************)
(* Values on their way between the server and the caller.  The words of an *)
(* enumeration mean the same at either end (WireTables), and a field of an *)
(* object is lost only where Conversions says so: an invariant tells which *)
(* kinds of conversions can lose a value, whatever struct the field is of, *)
(* and the table is gone through for the fields that have such a kind.     *)
(***************************************************************************)
EXTENDS WireTables, Conversions, TLAPS

-----------------------------------------------------------------------------
(* WireTables: the two tables of an enumeration are each other's inverse.  *)

Inverses(raw, words) ==
  /\ \A v \in DOMAIN raw : raw[v] \in DOMAIN words /\ words[raw[v]] = v
  /\ \A w \in DOMAIN words : words[w] \in DOMAIN raw /\ raw[words[w]] = w

LEMMA EnumerationsInvert ==
  ASSUME NEW k \in DOMAIN Parse
  PROVE  Inverses(Raw[k], Parse[k])
<1>1. /\ Inverses(RefDesign, RefDesignWords)
      /\ Inverses(DeployStatus, DeployStatusWords)
      /\ Inverses(PlatformOS, PlatformOSWords)
      /\ Inverses(ConfigletSection, ConfigletSectionWords)
      /\ Inverses(AccessRedundancy, AccessRedundancyWords)
      /\ Inverses(LeafRedundancy, LeafRedundancyWords)
      /\ Inverses(FabricConnectivityDesign, FabricConnectivityDesignWords)
  BY DEF Inverses, RefDesign, RefDesignWords, DeployStatus, DeployStatusWords, PlatformOS,
         PlatformOSWords, ConfigletSection, ConfigletSectionWords, AccessRedundancy,
         AccessRedundancyWords, LeafRedundancy, LeafRedundancyWords, FabricConnectivityDesign,
         FabricConnectivityDesignWords
<1>2. /\ Inverses(FeatureSwitch, FeatureSwitchWords)
      /\ Inverses(SystemManagementLevel, SystemManagementLevelWords)
      /\ Inverses(RackLinkAttachmentType, RackLinkAttachmentTypeWords)
      /\ Inverses(RackLinkLagMode, RackLinkLagModeWords)
      /\ Inverses(RackLinkSwitchPeer, RackLinkSwitchPeerWords)
      /\ Inverses(AntiAffinityMode, AntiAffinityModeWords)
      /\ Inverses(TemplateType, TemplateTypeWords)
  BY DEF Inverses, FeatureSwitch, FeatureSwitchWords, SystemManagementLevel,
         SystemManagementLevelWords, RackLinkAttachmentType, RackLinkAttachmentTypeWords,
         RackLinkLagMode, RackLinkLagModeWords, RackLinkSwitchPeer, RackLinkSwitchPeerWords,
         AntiAffinityMode, AntiAffinityModeWords, TemplateType, TemplateTypeWords
<1>3. /\ Inverses(AsnAllocationScheme, AsnAllocationSchemeWords)
      /\ Inverses(AddressingScheme, AddressingSchemeWords)
      /\ Inverses(OverlayControl, OverlayControlWords)
      /\ Inverses(TemplateCapability, TemplateCapabilityWords)
      /\ Inverses(PoolStatus, PoolStatusWords)
      /\ Inverses(AgentJobState, AgentJobStateWords)
      /\ Inverses(AgentJobType, AgentJobTypeWords)
  BY DEF Inverses, AsnAllocationScheme, AsnAllocationSchemeWords, AddressingScheme,
         AddressingSchemeWords, OverlayControl, OverlayControlWords, TemplateCapability,
         TemplateCapabilityWords, PoolStatus, PoolStatusWords, AgentJobState,
         AgentJobStateWords, AgentJobType, AgentJobTypeWords
<1>4. /\ Inverses(AgentPlatform, AgentPlatformWords)
      /\ Inverses(AgentCxnState, AgentCxnStateWords)
      /\ Inverses(SystemAdminState, SystemAdminStateWords)
      /\ Inverses(InterfaceType, InterfaceTypeWords)
      /\ Inverses(InterfaceOperationState, InterfaceOperationStateWords)
      /\ Inverses(LinkRole, LinkRoleWords)
      /\ Inverses(SystemNodeRole, SystemNodeRoleWords)
  BY DEF Inverses, AgentPlatform, AgentPlatformWords, AgentCxnState, AgentCxnStateWords,
         SystemAdminState, SystemAdminStateWords, InterfaceType, InterfaceTypeWords,
         InterfaceOperationState, InterfaceOperationStateWords, LinkRole, LinkRoleWords,
         SystemNodeRole, SystemNodeRoleWords
<1>5. /\ Inverses(LinkType, LinkTypeWords)
      /\ Inverses(CtPolicyTypeName, CtPolicyTypeNameWords)
      /\ Inverses(CtBgpPeerTo, CtBgpPeerToWords)
      /\ Inverses(CtIPv4Session, CtIPv4SessionWords)
      /\ Inverses(CtIPv6Session, CtIPv6SessionWords)
      /\ Inverses(CtIPv4AddressingType, CtIPv4AddressingTypeWords)
      /\ Inverses(CtIPv6AddressingType, CtIPv6AddressingTypeWords)
  BY DEF Inverses, LinkType, LinkTypeWords, CtPolicyTypeName, CtPolicyTypeNameWords,
         CtBgpPeerTo, CtBgpPeerToWords, CtIPv4Session, CtIPv4SessionWords, CtIPv6Session,
         CtIPv6SessionWords, CtIPv4AddressingType, CtIPv4AddressingTypeWords,
         CtIPv6AddressingType, CtIPv6AddressingTypeWords
<1>6. /\ Inverses(CtStatus, CtStatusWords)
      /\ Inverses(LockStatus, LockStatusWords)
      /\ Inverses(ResourceGroupName, ResourceGroupNameWords)
      /\ Inverses(ResourceType, ResourceTypeWords)
      /\ Inverses(RoutingPolicyType, RoutingPolicyTypeWords)
      /\ Inverses(PrefixFilterAction, PrefixFilterActionWords)
      /\ Inverses(RoutingPolicyImportPolicy, RoutingPolicyImportPolicyWords)
  BY DEF Inverses, CtStatus, CtStatusWords, LockStatus, LockStatusWords, ResourceGroupName,
         ResourceGroupNameWords, ResourceType, ResourceTypeWords, RoutingPolicyType,
         RoutingPolicyTypeWords, PrefixFilterAction, PrefixFilterActionWords,
         RoutingPolicyImportPolicy, RoutingPolicyImportPolicyWords
<1>7. /\ Inverses(SecurityZoneType, SecurityZoneTypeWords)
      /\ Inverses(SystemType, SystemTypeWords)
      /\ Inverses(SviIpRequirement, SviIpRequirementWords)
      /\ Inverses(Ipv4Mode, Ipv4ModeWords)
      /\ Inverses(Ipv6Mode, Ipv6ModeWords)
      /\ Inverses(VnType, VnTypeWords)
      /\ Inverses(SystemRole, SystemRoleWords)
  BY DEF Inverses, SecurityZoneType, SecurityZoneTypeWords, SystemType, SystemTypeWords,
         SviIpRequirement, SviIpRequirementWords, Ipv4Mode, Ipv4ModeWords, Ipv6Mode,
         Ipv6ModeWords, VnType, VnTypeWords, SystemRole, SystemRoleWords
<1> QED BY <1>1, <1>2, <1>3, <1>4, <1>5, <1>6, <1>7 DEF Raw, Parse

\* The enumerations without parse() have a word for each constant.
LEMMA SentOnly ==
  \A k \in DOMAIN RawOnly : \A a, b \in DOMAIN RawOnly[k] : RawOnly[k][a] = RawOnly[k][b] => a = b
<1>1. \A a, b \in DOMAIN NodeType : NodeType[a] = NodeType[b] => a = b
  BY DEF NodeType
<1>2. \A a, b \in DOMAIN RelationshipType : RelationshipType[a] = RelationshipType[b] => a = b
  BY DEF RelationshipType
<1>3. \A a, b \in DOMAIN BlueprintType : BlueprintType[a] = BlueprintType[b] => a = b
  BY DEF BlueprintType
<1> QED BY <1>1, <1>2, <1>3 DEF RawOnly

(* What the client holds, or has sent, follows from what the caller gave   *)
(* it; what it has read, from what the server sent.                        *)
FromClient ==
  wireOrigin.side = "client" =>
    /\ wirePc \in {"held", "sent"}
    /\ wireOrigin.datum \in DOMAIN Raw[wireKind] /\ wireValue = wireOrigin.datum
    /\ wirePc = "sent" => wireWord = Raw[wireKind][wireValue]

FromServer ==
  wireOrigin.side = "server" /\ wireOrigin.datum # "newer" =>
    /\ wirePc \in {"held", "sent"}
    /\ wireOrigin.datum \in DOMAIN Parse[wireKind] /\ wireWord = wireOrigin.datum
    /\ wirePc = "held" => wireValue = Parse[wireKind][wireWord]

WireIInv == wireKind \in DOMAIN Parse /\ FromClient /\ FromServer

\* The inductive invariant: at any time, and however often the object has gone to and fro,
\* the value and the word are those of its first appearance.
THEOREM WireInvariant == WireSpec => []WireIInv
<1>1. WireInit => WireIInv
  BY DEF WireInit, WireIInv, FromClient, FromServer
<1>2. WireIInv /\ [WireNext]_wireVars => WireIInv'
  <2> SUFFICES ASSUME WireIInv, [WireNext]_wireVars PROVE WireIInv'
    OBVIOUS
  <2>1. Inverses(Raw[wireKind], Parse[wireKind])
    BY EnumerationsInvert DEF WireIInv
  <2>2. CASE Encode
    BY <2>1, <2>2 DEF Encode, WireIInv, FromClient, FromServer, Inverses
  <2>3. CASE Decode
    BY <2>1, <2>3 DEF Decode, WireIInv, FromClient, FromServer, Inverses
  <2>4. CASE UNCHANGED wireVars
    BY <2>4 DEF wireVars, WireIInv, FromClient, FromServer
  <2> QED BY <2>2, <2>3, <2>4 DEF WireNext
<1> QED BY <1>1, <1>2, PTL DEF WireSpec

\* The tables of the client's enumerations, kept by hand in both directions, invert each
\* other: a constant that is sent is read back as itself, a known word is written back as it
\* was, and no constant that is only sent shares its word with another.
THEOREM TablesInvertHolds == WireSpec => []TablesInvert
<1>1. WireIInv => TablesInvert
  BY SentOnly DEF WireIInv, FromClient, FromServer, TablesInvert
<1> QED BY <1>1, WireInvariant, PTL

-----------------------------------------------------------------------------
(* Conversions, by the kind of the field: which ways of sending and        *)
(* reading can lose a value, whatever struct the field is of.              *)

SendKinds == {"always", "nonZero", "never", "server", "once", "cut", "cutOrPanic", "required",
              "default", "seconds", "refused", "copied", "sometimes", "misnamed", "bare", "sentBack"}
ReadKinds == {"all", "known", "loose", "never", "cut", "present", "panics", "other", "otherOrPanic",
              "partner", "unkept"}
Known(k) == k.sends \in SendKinds /\ k.reads \in ReadKinds

\* Read, if at all, as it is; read without a panic or an error unless it is odd.
Faithful == {"all", "known", "present", "panics"}
Total == {"all", "known", "panics", "loose", "cut"}

\* An update leaves a value alone that the caller has only read.
Kept(k, requests) ==
  \/ requests \cap {"put", "patch"} = {}
  \/ k.sends \in {"server", "once"}
  \/ k.sends \in {"never", "refused"} /\ "put" \notin requests
  \/ k.sends \in {"always", "nonZero", "required", "copied", "sentBack"} /\ k.reads \in Faithful
  \/ /\ k.sends \in {"nonZero", "sometimes"} /\ "put" \notin requests
     /\ k.reads \in Faithful \cup {"loose", "never"}

KeptUnlessOdd(k) ==
  /\ k.sends \in {"always", "nonZero", "required", "copied", "cut", "cutOrPanic"}
  /\ k.reads \in Faithful \cup {"loose", "cut"}

\* A value that the caller has set, and the server has taken, is what is read next.
Returned(k, requests) ==
  \/ k.sends = "server" \/ requests = {}
  \/ /\ \/ k.sends \in {"always", "required", "copied"}
        \/ k.sends \in {"nonZero", "sentBack"} /\ "patch" \notin requests
     /\ k.reads \in Total

ReturnedUnlessZero(k) ==
  /\ k.sends \in {"always", "required", "copied", "nonZero", "default", "refused"}
  /\ k.reads \in Total \cup {"present"}

ReturnedUnlessOdd(k) ==
  \/ k.sends \in {"always", "required", "copied", "cut", "cutOrPanic"} /\ k.reads \in Total
  \/ k.sends = "cutOrPanic" /\ k.reads = "present"

ReturnedUnlessEither(k) == k.sends = "seconds" /\ k.reads \in Total

MayPanic(k) ==
  k.sends \in {"cutOrPanic", "sentBack"} \/ k.reads \in {"present", "panics", "otherOrPanic", "unkept"}

-----------------------------------------------------------------------------
(* The table: a field whose kind can lose a value is one of those listed.  *)

Fine(p, k, requests) ==
  /\ \/ Kept(k, requests)
     \/ p \in Forgotten
     \/ KeptUnlessOdd(k) /\ p \in Rounded
  /\ \/ Returned(k, requests)
     \/ p \in WriteOnly
     \/ ReturnedUnlessZero(k) /\ p \in NeverCleared
     \/ ReturnedUnlessOdd(k) /\ p \in Rounded
     \/ ReturnedUnlessEither(k) /\ p \in NeverCleared /\ p \in Rounded
  /\ MayPanic(k) => p \in Dereferenced

InTable(s, n, requests) == <<s, n>> \in AllFields /\ Structs[s].ops = requests

FineRows(s, requests, rows) ==
  \A n \in DOMAIN rows :
     InTable(s, n, requests) => Known(rows[n]) /\ Fine(<<s, n>>, rows[n], requests)

FineStruct(s, fields) ==
  fields.ops \subseteq {"new", "put", "patch"} /\ FineRows(s, fields.ops, fields.rows)

LEMMA JoinRows ==
  ASSUME NEW s, NEW requests, NEW a, NEW b, FineRows(s, requests, a), FineRows(s, requests, b)
  PROVE  FineRows(s, requests, a ++ b)
BY DEF FineRows, ++

\* Some kinds are fine for any field.
Harmless(k, requests) == Known(k) /\ Kept(k, requests) /\ Returned(k, requests) /\ ~ MayPanic(k)

LEMMA OneRow ==
  ASSUME NEW s, NEW requests, NEW sends, NEW reads, NEW names,
         Harmless([sends |-> sends, reads |-> reads], requests)
  PROVE  FineRows(s, requests, Row(sends, reads, names))
BY DEF FineRows, Row, Harmless, Fine

LEMMA HarmlessRows ==
  ASSUME NEW s, NEW requests, NEW names
  PROVE  /\ FineRows(s, requests, Plain(names)) /\ FineRows(s, requests, Word(names))
         /\ FineRows(s, requests, Needed(names)) /\ FineRows(s, requests, Ref(names))
         /\ FineRows(s, requests, ReadOnly(names)) /\ FineRows(s, requests, ReadWord(names))
         /\ FineRows(s, requests, ReadLoose(names))
         /\ "patch" \notin requests =>
              FineRows(s, requests, Opt(names)) /\ FineRows(s, requests, OptWord(names))
<1> USE OneRow DEF Harmless, Known, SendKinds, ReadKinds, Kept, Returned, MayPanic, Faithful, Total
<1>1. FineRows(s, requests, Plain(names)) /\ FineRows(s, requests, Word(names))
  BY DEF Plain, Word
<1>2. FineRows(s, requests, Needed(names)) /\ FineRows(s, requests, Ref(names))
  BY DEF Needed, Ref
<1>3. /\ FineRows(s, requests, ReadOnly(names)) /\ FineRows(s, requests, ReadWord(names))
      /\ FineRows(s, requests, ReadLoose(names))
  BY DEF ReadOnly, ReadWord, ReadLoose
<1>4. ASSUME "patch" \notin requests
      PROVE  FineRows(s, requests, Opt(names)) /\ FineRows(s, requests, OptWord(names))
  BY <1>4 DEF Opt, OptWord
<1> QED BY <1>1, <1>2, <1>3, <1>4

\* Others are if the field is in one of the lists: those that cut a speed ...
LEMMA SpeedRows ==
  ASSUME NEW s, NEW requests, requests # {},
         NEW names, names \subseteq {"LinkPerSuperspineSpeed", "MeshLinkSpeed", "LinkPerSpineSpeed",
           "LeafLeafL3LinkSpeed", "LeafLeafLinkSpeed", "AccessAccessLinkSpeed", "LinkSpeed", "Speed"}
  PROVE  /\ FineRows(s, requests, Speed(names))
         /\ (\A n \in names : <<s, n>> \in Dereferenced) => FineRows(s, requests, NeedSpeed(names))
<1>1. \A n \in names : InTable(s, n, requests) => <<s, n>> \in Rounded
  BY DEF InTable, Rounded
<1> QED BY <1>1 DEF FineRows, Speed, NeedSpeed, Row, Known, SendKinds, ReadKinds, Fine, KeptUnlessOdd,
       ReturnedUnlessOdd, MayPanic, Faithful, Total

\* ... or any odd value when it is read, ...
LEMMA RoundedRows ==
  ASSUME NEW s, NEW requests, NEW sends, NEW reads, NEW names,
         sends \in {"always", "nonZero"}, reads \in {"loose", "cut"},
         sends = "always" \/ "patch" \notin requests,
         \A n \in names : <<s, n>> \in Rounded
  PROVE  FineRows(s, requests, Row(sends, reads, names))
BY DEF FineRows, Row, Known, SendKinds, ReadKinds, Fine, KeptUnlessOdd, Returned, MayPanic, Total

\* ... and those that send no zero value.
LEMMA UnclearedRows ==
  ASSUME NEW s, NEW requests, NEW sends, NEW reads, NEW names,
         "put" \notin requests, sends \in {"nonZero", "refused"}, reads \in {"all", "known", "loose"},
         \A n \in names : InTable(s, n, requests) => <<s, n>> \in NeverCleared
  PROVE  FineRows(s, requests, Row(sends, reads, names))
BY DEF FineRows, Row, Known, SendKinds, ReadKinds, Fine, Kept, ReturnedUnlessZero, MayPanic,
       Faithful, Total

\* Structs all of whose fields are of a harmless kind.
LEMMA OrdinaryStructs ==
  \A s \in {"AntiAffinityPolicy", "VirtualNetworkPolicy", "AsnAllocationPolicy", "Superspine",
            "TemplateRackBased", "TemplatePodBased", "CreateRackBasedTemplateRequest",
            "CreatePodBasedTemplateRequest", "GenericSystem", "RackTypeRequest", "RackType",
            "InterfaceMapMapping", "InterfaceMap", "LogicalDevicePanel", "LogicalDevice",
            "PortInfo", "Transformation", "DeviceProfile", "ModularDeviceProfile", "Configlet",
            "PropertySet", "DesignTag", "IntPoolRequest", "IntPool", "IntRange", "IpPool",
            "IbaDashboard", "AgentStatus", "AgentJobStatus", "TelemetryExtStatus",
            "SystemAgent", "SystemAgentConfig", "AgentProfileRead", "ManagedSystemInfo",
            "SystemStatus", "SystemUserConfig", "SystemConfig", "TelemetryServiceRegistryEntry",
            "Blueprint", "BlueprintDeployResponse", "BlueprintRevision", "ConfigTemplate",
            "FreeformGroupGenerator", "FreeformLink", "FreeformEndpoint",
            "FreeformRaGroupGenerator", "FreeformRaLocalIntPool", "FreeformRaResource",
            "FreeformRaGroup", "TwoStageL3ClosConfiglet", "TwoStageL3ClosPropertySet",
            "ResourceGroupAllocation", "PolicyRule",
            "TwoStageL3ClosSubinterface", "TwoStageL3ClosSubinterfaceLink", "SystemNodeInfo",
            "CablingMapLinkEndpointInterface", "CablingMapLinkEndpointSystem", "CablingMapLink",
            "LockInfo", "Anomaly", "ConnectivityTemplateState"} :
     FineStruct(s, Structs[s])
<1> USE JoinRows, HarmlessRows
    DEF FineStruct, Fields, Replaced, Patched, JustRead, Created, Settings
<1>1. /\ FineStruct("AntiAffinityPolicy", AntiAffinityPolicyFields)
      /\ FineStruct("VirtualNetworkPolicy", VirtualNetworkPolicyFields)
      /\ FineStruct("AsnAllocationPolicy", AsnAllocationPolicyFields)
      /\ FineStruct("Superspine", SuperspineFields)
      /\ FineStruct("TemplateRackBased", TemplateRackBasedFields)
  BY DEF AntiAffinityPolicyFields, VirtualNetworkPolicyFields, AsnAllocationPolicyFields,
         SuperspineFields, TemplateRackBasedFields
<1>2. /\ FineStruct("TemplatePodBased", TemplatePodBasedFields)
      /\ FineStruct("CreateRackBasedTemplateRequest", CreateRackBasedTemplateRequestFields)
      /\ FineStruct("CreatePodBasedTemplateRequest", CreatePodBasedTemplateRequestFields)
      /\ FineStruct("GenericSystem", GenericSystemFields)
      /\ FineStruct("RackTypeRequest", RackTypeRequestFields)
  BY DEF TemplatePodBasedFields, CreateRackBasedTemplateRequestFields,
         CreatePodBasedTemplateRequestFields, GenericSystemFields, RackTypeRequestFields
<1>3. /\ FineStruct("RackType", RackTypeFields)
      /\ FineStruct("InterfaceMapMapping", InterfaceMapMappingFields)
      /\ FineStruct("InterfaceMap", InterfaceMapFields)
      /\ FineStruct("LogicalDevicePanel", LogicalDevicePanelFields)
      /\ FineStruct("LogicalDevice", LogicalDeviceFields)
  BY DEF RackTypeFields, InterfaceMapMappingFields, InterfaceMapFields,
         LogicalDevicePanelFields, LogicalDeviceFields
<1>4. /\ FineStruct("PortInfo", PortInfoFields)
      /\ FineStruct("Transformation", TransformationFields)
      /\ FineStruct("DeviceProfile", DeviceProfileFields)
      /\ FineStruct("ModularDeviceProfile", ModularDeviceProfileFields)
      /\ FineStruct("Configlet", ConfigletFields)
  BY DEF PortInfoFields, TransformationFields, DeviceProfileFields, ModularDeviceProfileFields,
         ConfigletFields
<1>5. /\ FineStruct("PropertySet", PropertySetFields)
      /\ FineStruct("DesignTag", DesignTagFields)
      /\ FineStruct("IntPoolRequest", IntPoolRequestFields)
      /\ FineStruct("IntPool", IntPoolFields)
      /\ FineStruct("IntRange", IntRangeFields)
  BY DEF PropertySetFields, DesignTagFields, IntPoolRequestFields, IntPoolFields, IntRangeFields
<1>6. /\ FineStruct("IpPool", IpPoolFields)
      /\ FineStruct("IbaDashboard", IbaDashboardFields)
      /\ FineStruct("AgentStatus", AgentStatusFields)
      /\ FineStruct("AgentJobStatus", AgentJobStatusFields)
  BY DEF IpPoolFields, IbaDashboardFields, AgentStatusFields,
         AgentJobStatusFields
<1>7. /\ FineStruct("TelemetryExtStatus", TelemetryExtStatusFields)
      /\ FineStruct("SystemAgent", SystemAgentFields)
      /\ FineStruct("SystemAgentConfig", SystemAgentConfigFields)
      /\ FineStruct("AgentProfileRead", AgentProfileReadFields)
      /\ FineStruct("ManagedSystemInfo", ManagedSystemInfoFields)
  BY DEF TelemetryExtStatusFields, SystemAgentFields, SystemAgentConfigFields,
         AgentProfileReadFields, ManagedSystemInfoFields
<1>8. /\ FineStruct("SystemStatus", SystemStatusFields)
      /\ FineStruct("SystemUserConfig", SystemUserConfigFields)
      /\ FineStruct("SystemConfig", SystemConfigFields)
      /\ FineStruct("TelemetryServiceRegistryEntry", TelemetryServiceRegistryEntryFields)
      /\ FineStruct("Blueprint", BlueprintFields)
  BY DEF SystemStatusFields, SystemUserConfigFields, SystemConfigFields,
         TelemetryServiceRegistryEntryFields, BlueprintFields
<1>9. /\ FineStruct("BlueprintDeployResponse", BlueprintDeployResponseFields)
      /\ FineStruct("BlueprintRevision", BlueprintRevisionFields)
      /\ FineStruct("ConfigTemplate", ConfigTemplateFields)
      /\ FineStruct("FreeformGroupGenerator", FreeformGroupGeneratorFields)
      /\ FineStruct("FreeformLink", FreeformLinkFields)
  BY DEF BlueprintDeployResponseFields, BlueprintRevisionFields, ConfigTemplateFields,
         FreeformGroupGeneratorFields, FreeformLinkFields
<1>10. /\ FineStruct("FreeformEndpoint", FreeformEndpointFields)
       /\ FineStruct("FreeformRaGroupGenerator", FreeformRaGroupGeneratorFields)
       /\ FineStruct("FreeformRaLocalIntPool", FreeformRaLocalIntPoolFields)
       /\ FineStruct("FreeformRaResource", FreeformRaResourceFields)
       /\ FineStruct("FreeformRaGroup", FreeformRaGroupFields)
  BY DEF FreeformEndpointFields, FreeformRaGroupGeneratorFields, FreeformRaLocalIntPoolFields,
         FreeformRaResourceFields, FreeformRaGroupFields
<1>11. /\ FineStruct("TwoStageL3ClosConfiglet", TwoStageL3ClosConfigletFields)
       /\ FineStruct("TwoStageL3ClosPropertySet", TwoStageL3ClosPropertySetFields)
       /\ FineStruct("ResourceGroupAllocation", ResourceGroupAllocationFields)
       /\ FineStruct("PolicyRule", PolicyRuleFields)
  BY DEF TwoStageL3ClosConfigletFields, TwoStageL3ClosPropertySetFields,
         ResourceGroupAllocationFields, PolicyRuleFields
<1>12. /\ FineStruct("TwoStageL3ClosSubinterface", TwoStageL3ClosSubinterfaceFields)
       /\ FineStruct("TwoStageL3ClosSubinterfaceLink", TwoStageL3ClosSubinterfaceLinkFields)
       /\ FineStruct("SystemNodeInfo", SystemNodeInfoFields)
       /\ FineStruct("CablingMapLinkEndpointInterface", CablingMapLinkEndpointInterfaceFields)
  BY DEF TwoStageL3ClosSubinterfaceFields, TwoStageL3ClosSubinterfaceLinkFields,
         SystemNodeInfoFields, CablingMapLinkEndpointInterfaceFields
<1>13. /\ FineStruct("CablingMapLinkEndpointSystem", CablingMapLinkEndpointSystemFields)
       /\ FineStruct("CablingMapLink", CablingMapLinkFields)
       /\ FineStruct("LockInfo", LockInfoFields)
       /\ FineStruct("Anomaly", AnomalyFields)
       /\ FineStruct("ConnectivityTemplateState", ConnectivityTemplateStateFields)
  BY DEF CablingMapLinkEndpointSystemFields, CablingMapLinkFields, LockInfoFields,
         AnomalyFields, ConnectivityTemplateStateFields
<1> HIDE JoinRows, HarmlessRows DEF FineStruct
<1>14. \A s \in {"AntiAffinityPolicy", "VirtualNetworkPolicy", "AsnAllocationPolicy",
              "Superspine", "TemplateRackBased", "TemplatePodBased",
              "CreateRackBasedTemplateRequest", "CreatePodBasedTemplateRequest",
              "GenericSystem", "RackTypeRequest", "RackType", "InterfaceMapMapping",
              "InterfaceMap", "LogicalDevicePanel", "LogicalDevice", "PortInfo",
              "Transformation", "DeviceProfile", "ModularDeviceProfile", "Configlet"} :
         FineStruct(s, Structs[s])
  BY <1>1, <1>2, <1>3, <1>4 DEF Structs
<1>15. \A s \in {"PropertySet", "DesignTag", "IntPoolRequest", "IntPool", "IntRange", "IpPool",
              "IbaDashboard", "AgentStatus", "AgentJobStatus", "TelemetryExtStatus",
              "SystemAgent", "SystemAgentConfig", "AgentProfileRead", "ManagedSystemInfo",
              "SystemStatus", "SystemUserConfig", "SystemConfig",
              "TelemetryServiceRegistryEntry", "Blueprint"} :
         FineStruct(s, Structs[s])
  BY <1>5, <1>6, <1>7, <1>8 DEF Structs
<1>16. \A s \in {"BlueprintDeployResponse", "BlueprintRevision", "ConfigTemplate",
              "FreeformGroupGenerator", "FreeformLink", "FreeformEndpoint",
              "FreeformRaGroupGenerator", "FreeformRaLocalIntPool", "FreeformRaResource",
              "FreeformRaGroup", "TwoStageL3ClosConfiglet", "TwoStageL3ClosPropertySet",
              "ResourceGroupAllocation", "PolicyRule", "TwoStageL3ClosSubinterface",
              "TwoStageL3ClosSubinterfaceLink", "SystemNodeInfo",
              "CablingMapLinkEndpointInterface", "CablingMapLinkEndpointSystem",
              "CablingMapLink", "LockInfo", "Anomaly", "ConnectivityTemplateState"} :
         FineStruct(s, Structs[s])
  BY <1>9, <1>10, <1>11, <1>12, <1>13 DEF Structs
<1> QED BY <1>14, <1>15, <1>16

\* Speeds are sent in whole gigabits.
LEMMA StructsWithSpeeds ==
  \A s \in {"Spine", "CreateL3CollapsedTemplateRequest", "LeafSwitch", "AccessSwitch", "RackLink",
            "InterfaceMapInterface", "LogicalDevicePortGroup", "TransformInterface"} :
     FineStruct(s, Structs[s])
<1> USE JoinRows, HarmlessRows, SpeedRows DEF FineStruct, Fields, Replaced
<1>1. FineStruct("Spine", SpineFields)
  <2>1. FineRows("Spine", {"new", "put"}, Row("copied", "panics", {"LogicalDevice"}))
    BY DEF FineRows, Row, Known, SendKinds, ReadKinds, Fine, Kept, Returned, Faithful, Total,
           Dereferenced, Of
  <2> QED BY <2>1 DEF SpineFields
<1>2. FineStruct("CreateL3CollapsedTemplateRequest", CreateL3CollapsedTemplateRequestFields)
  <2>1. <<"CreateL3CollapsedTemplateRequest", "MeshLinkSpeed">> \in Dereferenced
    BY DEF Dereferenced, Of
  <2>2. FineRows("CreateL3CollapsedTemplateRequest", {"new", "put"},
                 Row("cutOrPanic", "present", {"MeshLinkSpeed"}))
    <3>1. ASSUME InTable("CreateL3CollapsedTemplateRequest", "MeshLinkSpeed", {"new", "put"})
          PROVE  <<"CreateL3CollapsedTemplateRequest", "MeshLinkSpeed">> \in Rounded
      BY <3>1 DEF InTable, Rounded
    <3> QED BY <2>1, <3>1 DEF FineRows, Row, Known, SendKinds, ReadKinds, Fine, KeptUnlessOdd,
               ReturnedUnlessOdd, Faithful
  <2> QED BY <2>2 DEF CreateL3CollapsedTemplateRequestFields
<1>3. FineStruct("LeafSwitch", LeafSwitchFields)
  BY DEF LeafSwitchFields
<1>4. FineStruct("AccessSwitch", AccessSwitchFields)
  <2>1. <<"AccessSwitch", "AccessAccessLinkSpeed">> \in Forgotten \cap WriteOnly
    BY DEF Forgotten, WriteOnly, Of
  <2>2. FineRows("AccessSwitch", {"new", "put"}, Row("cut", "partner", {"AccessAccessLinkSpeed"}))
    BY <2>1 DEF FineRows, Row, Known, SendKinds, ReadKinds, Fine, MayPanic
  <2> QED BY <2>2 DEF AccessSwitchFields
<1>5. FineStruct("RackLink", RackLinkFields)
  BY DEF RackLinkFields
<1>6. FineStruct("InterfaceMapInterface", InterfaceMapInterfaceFields)
  <2>1. <<"InterfaceMapInterface", "Speed">> \in Dereferenced
    BY DEF Dereferenced, Of
  <2> QED BY <2>1 DEF InterfaceMapInterfaceFields
<1>7. FineStruct("LogicalDevicePortGroup", LogicalDevicePortGroupFields)
  <2>1. <<"LogicalDevicePortGroup", "Speed">> \in Dereferenced
    BY DEF Dereferenced, Of
  <2> QED BY <2>1 DEF LogicalDevicePortGroupFields
<1>8. FineStruct("TransformInterface", TransformInterfaceFields)
  <2>1. <<"TransformInterface", "Speed">> \in Dereferenced
    BY DEF Dereferenced, Of
  <2> QED BY <2>1 DEF TransformInterfaceFields
<1> HIDE JoinRows, HarmlessRows, SpeedRows DEF FineStruct
<1> QED BY <1>1, <1>2, <1>3, <1>4, <1>5, <1>6, <1>7, <1>8 DEF Structs

\* What is left out of a PATCH when it is zero cannot be set to zero.
LEMMA StructsNotCleared ==
  \A s \in {"AgentPackages", "SystemAgentRequest", "AgentProfile", "FreeformInterface",
            "FreeformPropertySet", "FreeformRaLocalIntPoolGenerator", "FreeformResourceGenerator",
            "FreeformSystem", "TwoStageL3ClosFabricAddressingPolicy", "GenericSystemLoopback",
            "RoutingZoneConstraint"} :
     FineStruct(s, Structs[s])
<1> USE JoinRows, HarmlessRows, UnclearedRows DEF FineStruct, Fields, Patched, Settings, Opt, OptWord
<1>1. FineStruct("AgentPackages", AgentPackagesFields)
  <2>1. \A n, r : InTable("AgentPackages", n, r) => <<"AgentPackages", n>> \in NeverCleared
    BY DEF InTable, AllFields, FieldsOf, NeverCleared
  <2>2. <<"AgentPackages", "Packages">> \in Rounded
    BY DEF Rounded, Of
  <2>3. FineRows("AgentPackages", {"new", "patch"}, Row("nonZero", "cut", {"Packages"}))
    BY <2>1, <2>2 DEF FineRows, Row, Known, SendKinds, ReadKinds, Fine, KeptUnlessOdd,
         ReturnedUnlessZero, MayPanic, Total
  <2> QED BY <2>3 DEF AgentPackagesFields
<1>2. FineStruct("SystemAgentRequest", SystemAgentRequestFields)
  <2>1. \A n, r : InTable("SystemAgentRequest", n, r) => <<"SystemAgentRequest", n>> \in NeverCleared
    BY DEF InTable, AllFields, FieldsOf, NeverCleared
  <2>2. FineRows("SystemAgentRequest", {"new", "patch"},
                 OptSent({"JobOnCreate", "EnableMonitor", "Username", "Password"}))
    BY DEF FineRows, OptSent, Row, Known, SendKinds, ReadKinds, Fine, Kept, MayPanic, WriteOnly, Of
  <2>3. FineRows("SystemAgentRequest", {"new", "patch"}, Row("once", "loose", {"AgentTypeOffbox"}))
    BY DEF FineRows, Row, Known, SendKinds, ReadKinds, Fine, Kept, MayPanic, WriteOnly, Of
  <2>4. FineRows("SystemAgentRequest", {"new", "patch"}, Row("sometimes", "all", {"Platform"}))
    BY DEF FineRows, Row, Known, SendKinds, ReadKinds, Fine, Kept, MayPanic, WriteOnly, Of, Faithful
  <2> QED BY <2>1, <2>2, <2>3, <2>4 DEF SystemAgentRequestFields
<1>3. FineStruct("AgentProfile", AgentProfileFields)
  <2>1. \A n, r : InTable("AgentProfile", n, r) => <<"AgentProfile", n>> \in NeverCleared
    BY DEF InTable, AllFields, FieldsOf, NeverCleared
  <2>2. FineRows("AgentProfile", {"new", "patch"}, OptSent({"Username", "Password"}))
    BY DEF FineRows, OptSent, Row, Known, SendKinds, ReadKinds, Fine, Kept, MayPanic, WriteOnly, Of
  <2> QED BY <2>1, <2>2 DEF AgentProfileFields
<1>4. FineStruct("FreeformInterface", FreeformInterfaceFields)
  <2>1. <<"FreeformInterface", "IfName">> \in NeverCleared
    BY DEF NeverCleared, Of
  <2> QED BY <2>1 DEF FreeformInterfaceFields
<1>5. FineStruct("FreeformPropertySet", FreeformPropertySetFields)
  <2>1. <<"FreeformPropertySet", "Values">> \in NeverCleared
    BY DEF NeverCleared, Of
  <2> QED BY <2>1 DEF FreeformPropertySetFields
<1>6. FineStruct("FreeformRaLocalIntPoolGenerator", FreeformRaLocalIntPoolGeneratorFields)
  <2>1. <<"FreeformRaLocalIntPoolGenerator", "Chunks">> \in NeverCleared
    BY DEF NeverCleared, Of
  <2> QED BY <2>1 DEF FreeformRaLocalIntPoolGeneratorFields
<1>7. FineStruct("FreeformResourceGenerator", FreeformResourceGeneratorFields)
  <2>1. \A n, r : InTable("FreeformResourceGenerator", n, r) =>
          <<"FreeformResourceGenerator", n>> \in NeverCleared
    BY DEF InTable, AllFields, FieldsOf, NeverCleared
  <2> QED BY <2>1 DEF FreeformResourceGeneratorFields
<1>8. FineStruct("FreeformSystem", FreeformSystemFields)
  <2>1. \A n \in {"SystemId", "Hostname", "DeviceProfileId"} : <<"FreeformSystem", n>> \in NeverCleared
    BY DEF NeverCleared, Of
  <2> QED BY <2>1 DEF FreeformSystemFields
<1>9. FineStruct("TwoStageL3ClosFabricAddressingPolicy", TwoStageL3ClosFabricAddressingPolicyFields)
  <2>1. \A n, r : InTable("TwoStageL3ClosFabricAddressingPolicy", n, r) =>
          <<"TwoStageL3ClosFabricAddressingPolicy", n>> \in NeverCleared
    BY DEF InTable, AllFields, FieldsOf, NeverCleared
  <2> QED BY <2>1 DEF TwoStageL3ClosFabricAddressingPolicyFields
<1>10. FineStruct("GenericSystemLoopback", GenericSystemLoopbackFields)
  <2>1. <<"GenericSystemLoopback", "SecurityZoneId">> \in NeverCleared
    BY DEF NeverCleared, Of
  <2>2. \A n \in {"Ipv4Addr", "Ipv6Addr"} : <<"GenericSystemLoopback", n>> \in Rounded
    BY DEF Rounded, Of
  <2>3. FineRows("GenericSystemLoopback", {"patch"}, Row("never", "never", {"LoopbackId"}))
    BY DEF FineRows, Row, Known, SendKinds, ReadKinds, Fine, Kept, MayPanic, WriteOnly, Of
  <2> QED BY <2>1, <2>2, <2>3, RoundedRows DEF GenericSystemLoopbackFields, Network
<1>11. FineStruct("RoutingZoneConstraint", RoutingZoneConstraintFields)
  <2>1. <<"RoutingZoneConstraint", "Mode">> \in NeverCleared
    BY DEF NeverCleared, Of
  <2> QED BY <2>1 DEF RoutingZoneConstraintFields
<1> HIDE JoinRows, HarmlessRows, UnclearedRows DEF FineStruct
<1> QED BY <1>1, <1>2, <1>3, <1>4, <1>5, <1>6, <1>7, <1>8, <1>9, <1>10, <1>11 DEF Structs

\* The settings of a fabric, which different versions of the server keep in different places.
LEMMA FabricSettingsFine ==
  /\ FineStruct("FabricSettings", FabricSettingsFields)
  /\ FineStruct("VirtualNetworkPolicy420", VirtualNetworkPolicy420Fields)
<1> USE JoinRows, HarmlessRows, UnclearedRows DEF FineStruct, Fields, Settings, Opt, OptWord, OptLoose
<1>1. \A s \in {"FabricSettings", "VirtualNetworkPolicy420"} : \A n, r :
         InTable(s, n, r) /\ n \notin FabricLimits => <<s, n>> \in NeverCleared
  BY DEF InTable, AllFields, FieldsOf, NeverCleared
<1>2. /\ \A n \in FabricSettingsSent \cup FabricSwitches : n \notin FabricLimits
      /\ {"OverlayControlProtocol", "JunosEvpnRoutingInstanceVlanAware", "SpineLeafLinks",
          "SpineSuperspineLinks", "JunosEvpnRoutingInstanceType"} \cap FabricLimits = {}
  BY DEF FabricSettingsSent, FabricSwitches, FabricLimits
<1>3. FineRows("FabricSettings", {"patch"}, Row("nonZero", "present", {"AntiAffinityPolicy"}))
  <2>1. "AntiAffinityPolicy" \notin FabricLimits
    BY DEF FabricLimits
  <2>2. <<"FabricSettings", "AntiAffinityPolicy">> \in Dereferenced
    BY DEF Dereferenced, Of
  <2> QED BY <1>1, <2>1, <2>2 DEF FineRows, Row, Known, SendKinds, ReadKinds, Fine, Kept,
             ReturnedUnlessZero, Faithful
<1>4. FineRows("VirtualNetworkPolicy420", {"patch"}, Dropped({"OverlayControlProtocol"}))
  <2>1. <<"VirtualNetworkPolicy420", "OverlayControlProtocol">> \in WriteOnly
    BY DEF WriteOnly, Of
  <2> QED BY <2>1 DEF FineRows, Dropped, Row, Known, SendKinds, ReadKinds, Fine, Kept, MayPanic
<1>5. FineStruct("FabricSettings", FabricSettingsFields)
  BY <1>1, <1>2, <1>3 DEF FabricSettingsFields
<1>6. FineStruct("VirtualNetworkPolicy420", VirtualNetworkPolicy420Fields)
  BY <1>1, <1>2, <1>4 DEF VirtualNetworkPolicy420Fields
<1> QED BY <1>5, <1>6

\* The others that have a field of their own kind.
LEMMA OtherStructs ==
  \A s \in {"TemplateL3Collapsed", "DeviceProfileData", "IbaWidget", "BlueprintStatus",
            "FreeformAllocGroup", "RemoteGateway", "PrefixFilter", "DcRoutingPolicy", "SecurityZone",
            "VirtualNetwork", "IpSubnet", "SviIp", "Policy"} :
     FineStruct(s, Structs[s])
<1> USE JoinRows, HarmlessRows DEF FineStruct, Fields, Replaced, Patched, JustRead
<1>1. FineStruct("TemplateL3Collapsed", TemplateL3CollapsedFields)
  <2>1. FineRows("TemplateL3Collapsed", {}, Row("server", "present", {"MeshLinkSpeed"}))
    BY DEF FineRows, Row, Known, SendKinds, ReadKinds, Fine, Kept, Returned, Dereferenced, Of
  <2> QED BY <2>1 DEF TemplateL3CollapsedFields
<1>2. FineStruct("DeviceProfileData", DeviceProfileDataFields)
  <2>1. \A n, r : InTable("DeviceProfileData", n, r) =>
          <<"DeviceProfileData", n>> \in Forgotten \cap WriteOnly
    BY DEF InTable, AllFields, FieldsOf, Forgotten, WriteOnly, Of
  <2>2. ASSUME NEW n, InTable("DeviceProfileData", n, {"new", "put"})
        PROVE  /\ Known([sends |-> "misnamed", reads |-> "all"])
               /\ Fine(<<"DeviceProfileData", n>>, [sends |-> "misnamed", reads |-> "all"], {"new", "put"})
    BY <2>1, <2>2 DEF Known, SendKinds, ReadKinds, Fine, MayPanic
  <2>3. \A names : FineRows("DeviceProfileData", {"new", "put"}, Row("misnamed", "all", names))
    BY <2>2 DEF FineRows, Row
  <2> QED BY <2>3 DEF DeviceProfileDataFields
<1>3. FineStruct("IbaWidget", IbaWidgetFields)
  <2>1. FineRows("IbaWidget", {"new", "put"}, Row("seconds", "all", {"AggregationPeriod"}))
    <3>1. <<"IbaWidget", "AggregationPeriod">> \in Forgotten \cap NeverCleared \cap Rounded
      BY DEF Forgotten, NeverCleared, Rounded, Of
    <3> QED BY <3>1 DEF FineRows, Row, Known, SendKinds, ReadKinds, Fine, ReturnedUnlessEither,
               MayPanic, Total
  <2>2. FineRows("IbaWidget", {"new", "put"}, Row("seconds", "otherOrPanic", {"TimeSeriesDuration"}))
    BY DEF FineRows, Row, Known, SendKinds, ReadKinds, Fine, Forgotten, WriteOnly, Dereferenced, Of
  <2>3. FineRows("IbaWidget", {"new", "put"}, Row("server", "other", {"CreatedAt"}))
    BY OneRow DEF Harmless, Known, SendKinds, ReadKinds, Kept, Returned, MayPanic
  <2>4. FineRows("IbaWidget", {"new", "put"}, Row("server", "unkept", {"UpdatedAt"}))
    BY DEF FineRows, Row, Known, SendKinds, ReadKinds, Fine, Kept, Returned, Dereferenced, Of
  <2> QED BY <2>1, <2>2, <2>3, <2>4 DEF IbaWidgetFields
<1>4. FineStruct("BlueprintStatus", BlueprintStatusFields)
  <2>1. FineRows("BlueprintStatus", {}, Row("server", "never", {"DeploymentStatus", "AnomalyCounts"}))
    BY OneRow DEF Harmless, Known, SendKinds, ReadKinds, Kept, Returned, MayPanic
  <2> QED BY <2>1 DEF BlueprintStatusFields
<1>5. FineStruct("FreeformAllocGroup", FreeformAllocGroupFields)
  <2>1. FineRows("FreeformAllocGroup", {"new", "put"}, Row("once", "known", {"Type"}))
    BY DEF FineRows, Row, Known, SendKinds, ReadKinds, Fine, Kept, MayPanic, WriteOnly, Of
  <2> QED BY <2>1 DEF FreeformAllocGroupFields
<1>6. FineStruct("RemoteGateway", RemoteGatewayFields)
  <2>1. <<"RemoteGateway", "Password">> \in Forgotten \cap WriteOnly
    BY DEF Forgotten, WriteOnly, Of
  <2>2. FineRows("RemoteGateway", {"new", "put"}, Sent({"Password"}))
    BY <2>1 DEF FineRows, Sent, Row, Known, SendKinds, ReadKinds, Fine, MayPanic
  <2> QED BY <2>2 DEF RemoteGatewayFields
<1>7. FineStruct("PrefixFilter", PrefixFilterFields)
  <2>1. <<"PrefixFilter", "Prefix">> \in Rounded
    BY DEF Rounded, Of
  <2> QED BY <2>1, RoundedRows DEF PrefixFilterFields, Network
<1>8. FineStruct("DcRoutingPolicy", DcRoutingPolicyFields)
  <2>1. <<"DcRoutingPolicy", "AggregatePrefixes">> \in Rounded
    BY DEF Rounded, Of
  <2> QED BY <2>1, RoundedRows DEF DcRoutingPolicyFields, Network
<1>9. FineStruct("SecurityZone", SecurityZoneFields)
  <2>1. <<"SecurityZone", "JunosEvpnIrbMode">> \in Rounded
    BY DEF Rounded, Of
  <2> QED BY <2>1, RoundedRows DEF SecurityZoneFields, OptLoose
<1>10. FineStruct("VirtualNetwork", VirtualNetworkFields)
  <2>1. \A n \in {"Ipv4Subnet", "Ipv6Subnet", "VirtualGatewayIpv4", "VirtualGatewayIpv6",
                  "DhcpService"} : <<"VirtualNetwork", n>> \in Rounded
    BY DEF Rounded, Of
  <2> QED BY <2>1, RoundedRows DEF VirtualNetworkFields, OptLoose, Loose
<1>11. FineStruct("IpSubnet", IpSubnetFields)
  <2>1. <<"IpSubnet", "Network">> \in Rounded
    BY DEF Rounded, Of
  <2> QED BY <2>1, RoundedRows DEF IpSubnetFields, Network
<1>12. FineStruct("SviIp", SviIpFields)
  <2>1. \A n \in {"Ipv4Addr", "Ipv6Addr", "Ipv4Requirement", "Ipv6Requirement"} :
          <<"SviIp", n>> \in Forgotten \cap WriteOnly
    BY DEF Forgotten, WriteOnly, Of
  <2>2. /\ FineRows("SviIp", {"new", "put"}, Row("bare", "known", {"Ipv4Addr", "Ipv6Addr"}))
        /\ FineRows("SviIp", {"new", "put"}, OptSent({"Ipv4Requirement", "Ipv6Requirement"}))
    BY <2>1 DEF FineRows, OptSent, Row, Known, SendKinds, ReadKinds, Fine, MayPanic
  <2> QED BY <2>2 DEF SviIpFields
<1>13. FineStruct("Policy", PolicyFields)
  <2>1. FineRows("Policy", {"new", "put"},
                 Row("sentBack", "all", {"SrcApplicationPoint", "DstApplicationPoint"}))
    BY DEF FineRows, Row, Known, SendKinds, ReadKinds, Fine, Kept, Returned, Faithful, Total,
           Dereferenced, Of
  <2> QED BY <2>1 DEF PolicyFields
<1> HIDE JoinRows, HarmlessRows DEF FineStruct
<1> QED BY <1>1, <1>2, <1>3, <1>4, <1>5, <1>6, <1>7, <1>8, <1>9, <1>10, <1>11, <1>12, <1>13 DEF Structs

\* The attributes of primitives.
LEMMA AttachmentsFine == \A s \in Attachments : FineStruct(s, Structs[s])
<1>1. ASSUME NEW s \in Attachments, NEW names, NEW words, NEW addresses, NEW networks,
             \A n \in addresses \cup networks : <<s, n>> \in Rounded
      PROVE  FineStruct(s, Attributes(names, words, addresses, networks))
  <2>1. <<s, "Label">> \in Forgotten \cap WriteOnly
    <3>1. s # "IbaWidget"
      BY DEF Attachments
    <3>2. <<s, "Label">> \in Forgotten
      BY DEF Forgotten
    <3> QED BY <3>1, <3>2 DEF WriteOnly, Of
  <2>2. FineRows(s, {"new", "put"}, Row("never", "never", {"Label"}))
    BY <2>1 DEF FineRows, Row, Known, SendKinds, ReadKinds, Fine, MayPanic
  <2>3. FineRows(s, {"new", "put"}, Loose(addresses)) /\ FineRows(s, {"new", "put"}, Network(networks))
    BY <1>1, RoundedRows DEF Loose, Network
  <2> QED BY <2>2, <2>3, JoinRows, HarmlessRows DEF FineStruct, Attributes, Replaced, Fields
<1>2. /\ <<"AttachStaticRoute", "Network">> \in Rounded
      /\ \A n \in {"Network", "NextHop"} : <<"AttachCustomStaticRoute", n>> \in Rounded
      /\ \A n \in {"PrefixNeighborIpv4", "PrefixNeighborIpv6"} :
           <<"AttachBgpWithPrefixPeering", n>> \in Rounded
      /\ \A n \in {"Ipv4Addr", "Ipv6Addr"} : <<"AttachIpEndpointWithBgpNsxt", n>> \in Rounded
  BY DEF Rounded, Of
<1>3. /\ FineStruct("AttachSingleVlan", AttachSingleVlanFields)
      /\ FineStruct("AttachMultipleVlan", AttachMultipleVlanFields)
      /\ FineStruct("AttachLogicalLink", AttachLogicalLinkFields)
      /\ FineStruct("AttachExistingRoutingPolicy", AttachExistingRoutingPolicyFields)
      /\ FineStruct("AttachRoutingZoneConstraint", AttachRoutingZoneConstraintFields)
  BY <1>1 DEF Attachments, AttachSingleVlanFields, AttachMultipleVlanFields,
         AttachLogicalLinkFields, AttachExistingRoutingPolicyFields,
         AttachRoutingZoneConstraintFields
<1>4. /\ FineStruct("AttachStaticRoute", AttachStaticRouteFields)
      /\ FineStruct("AttachCustomStaticRoute", AttachCustomStaticRouteFields)
      /\ FineStruct("AttachIpEndpointWithBgpNsxt", AttachIpEndpointWithBgpNsxtFields)
  BY <1>1, <1>2 DEF Attachments, AttachStaticRouteFields, AttachCustomStaticRouteFields,
         AttachIpEndpointWithBgpNsxtFields
<1>5. /\ FineStruct("AttachBgpOverSubinterfacesOrSvi", AttachBgpOverSubinterfacesOrSviFields)
      /\ FineStruct("AttachBgpWithPrefixPeering", AttachBgpWithPrefixPeeringFields)
  BY <1>1, <1>2 DEF Attachments, AttachBgpOverSubinterfacesOrSviFields,
         AttachBgpWithPrefixPeeringFields
<1> QED BY <1>3, <1>4, <1>5 DEF Attachments, Structs

\* Structs that are only sent.
UnreadRows(s, rows) ==
  \A n \in DOMAIN rows : /\ Known(rows[n]) /\ rows[n].reads = "never"
                         /\ MayPanic(rows[n]) => <<s, n>> \in Dereferenced

UnreadStruct(s, fields) == fields.ops \subseteq {"new", "put", "patch"} /\ UnreadRows(s, fields.rows)

LEMMA UnreadStructs ==
  \A s \in {"BlueprintRequestFabricAddressingPolicy", "CreateBlueprintFromTemplateRequest",
            "LinkLagParams", "NewSystem", "CreateLinkRequest", "RackRequest"} :
     UnreadStruct(s, Structs[s])
<1>1. ASSUME NEW s, NEW a, NEW b, UnreadRows(s, a), UnreadRows(s, b) PROVE UnreadRows(s, a ++ b)
  BY <1>1 DEF UnreadRows, ++
<1>2. ASSUME NEW s, NEW sends \in SendKinds \ {"cutOrPanic", "sentBack"}, NEW names
      PROVE  UnreadRows(s, Row(sends, "never", names))
  BY <1>2 DEF UnreadRows, Row, Known, ReadKinds, MayPanic
<1>3. <<"NewSystem", "LogicalDevice">> \in Dereferenced
  BY DEF Dereferenced, Of
<1>4. UnreadRows("NewSystem", Row("cutOrPanic", "never", {"LogicalDevice"}))
  BY <1>3 DEF UnreadRows, Row, Known, SendKinds, ReadKinds
<1> USE <1>1, <1>2 DEF UnreadStruct, Fields, Created, Settings, Sent, OptSent, SendKinds
<1>5. UnreadStruct("BlueprintRequestFabricAddressingPolicy", BlueprintRequestFabricAddressingPolicyFields)
  BY DEF BlueprintRequestFabricAddressingPolicyFields
<1>6. UnreadStruct("CreateBlueprintFromTemplateRequest", CreateBlueprintFromTemplateRequestFields)
  BY DEF CreateBlueprintFromTemplateRequestFields
<1>7. UnreadStruct("LinkLagParams", LinkLagParamsFields)
  BY DEF LinkLagParamsFields
<1>8. UnreadStruct("NewSystem", NewSystemFields)
  BY <1>4 DEF NewSystemFields
<1>9. UnreadStruct("CreateLinkRequest", CreateLinkRequestFields)
  BY DEF CreateLinkRequestFields
<1>10. UnreadStruct("RackRequest", RackRequestFields)
  BY DEF RackRequestFields
<1> HIDE <1>1, <1>2 DEF UnreadStruct
<1> QED BY <1>5, <1>6, <1>7, <1>8, <1>9, <1>10 DEF Structs

LEMMA TableFine ==
  ASSUME NEW s \in DOMAIN Structs
  PROVE  FineStruct(s, Structs[s]) \/ UnreadStruct(s, Structs[s])
<1>1. FineStruct("FabricSettings", Structs["FabricSettings"])
  BY FabricSettingsFine DEF Structs
<1>2. FineStruct("VirtualNetworkPolicy420", Structs["VirtualNetworkPolicy420"])
  BY FabricSettingsFine DEF Structs
<1> QED BY <1>1, <1>2, OrdinaryStructs, StructsWithSpeeds, StructsNotCleared, OtherStructs,
       AttachmentsFine, UnreadStructs DEF Structs, Attachments

LEMMA FieldIsFine ==
  ASSUME field \in AllFields
  PROVE  /\ Known(Kind) /\ Ops \subseteq {"new", "put", "patch"}
         /\ Readable => Fine(field, Kind, Ops)
         /\ MayPanic(Kind) => field \in Dereferenced
<1>1. PICK s \in DOMAIN Structs : field \in {s} \X DOMAIN Structs[s].rows
  BY DEF AllFields, FieldsOf
<1>2. PICK n \in DOMAIN Structs[s].rows : field = <<s, n>>
  <2>1. \A D : field \in {s} \X D => field = <<s, field[2]>> /\ field[2] \in D
    OBVIOUS
  <2> QED BY <1>1, <2>1
<1>3. /\ Kind = Structs[s].rows[n] /\ Ops = Structs[s].ops
      /\ Readable <=> \E m \in DOMAIN Structs[s].rows : Structs[s].rows[m].reads # "never"
  BY <1>2 DEF Kind, Ops, Readable
<1>4. CASE FineStruct(s, Structs[s])
  BY <1>2, <1>3, <1>4 DEF FineStruct, FineRows, InTable, Fine
<1>5. CASE UnreadStruct(s, Structs[s])
  BY <1>2, <1>3, <1>5 DEF UnreadStruct, UnreadRows
<1> QED BY <1>4, <1>5, TableFine

-----------------------------------------------------------------------------
(* What the caller holds says what the server has.  If the caller has read *)
(* it, an update may since have changed what it does not keep; if the      *)
(* server has taken it, it is there unless a zero or odd value was lost.   *)

ReadIs ==
  origin = "read" =>
    /\ Exists /\ Readable
    /\ /\ Kind.sends \in {"always", "nonZero", "required", "copied", "sentBack"}
          /\ Kind.reads \in Faithful
       => stored = held
    /\ /\ Kind.sends \in {"nonZero", "sometimes"} /\ "put" \notin Ops
       /\ Kind.reads \in Faithful \cup {"loose", "never"}
       => held \in {stored, "zero"}
    /\ KeptUnlessOdd(Kind) => stored = held \/ "odd" \in {held, stored}

SetIs ==
  origin \in {"set", "written"} =>
    /\ Kind.sends # "server" /\ Ops # {}
    /\ held = "odd" => Kind.sends \in {"cut", "cutOrPanic", "seconds"}

WrittenIs ==
  origin = "written" =>
    /\ Exists
    /\ Kind.sends \in {"always", "required", "copied"} => stored = held
    /\ Kind.sends \in {"nonZero", "sentBack"} /\ (held # "zero" \/ "patch" \notin Ops) => stored = held
    /\ Kind.sends \in {"default", "refused"} /\ held # "zero" => stored = held
    /\ Kind.sends \in {"cut", "cutOrPanic"} /\ held # "odd" => stored = held
    /\ Kind.sends = "seconds" /\ held = "usual" => stored = held
    /\ Kind.sends = "cutOrPanic" => held # "zero"

ConvTypeOK ==
  /\ field \in AllFields
  /\ stored \in {Absent, "zero", "usual", "odd"} /\ held \in {"zero", "usual", "odd"}
  /\ origin \in {"none", "read", "set", "written", "stale"}

ConvIInv == ConvTypeOK /\ ReadIs /\ SetIs /\ WrittenIs /\ (origin = "stale" => Exists)

Values == {"zero", "usual", "odd"}

LEMMA PossibleValues == {"zero", "usual"} \subseteq Possible /\ Possible \subseteq Values
BY DEF Possible, Values

\* What readField, and the conversion before it, may make of the server's value.
LEMMA ReadValue ==
  ASSUME ConvTypeOK, Exists, Known(Kind), NEW r \in Reading
  PROVE  /\ r.value \in Values /\ r.result \in {"read", "error", "panic"}
         /\ r.result = "panic" => MayPanic(Kind)
         /\ r.result = "read" /\ Kind.reads \in Faithful => r.value = stored
         /\ r.result = "read" /\ Kind.reads \in {"loose", "never"} => r.value \in {stored, "zero"}
         /\ r.result = "read" /\ Kind.reads \in {"loose", "cut"} =>
              r.value = stored \/ "odd" \in {r.value, stored}
BY PossibleValues
   DEF Reading, ConvTypeOK, Exists, Absent, Values, MayPanic, Faithful, Known, ReadKinds

\* What a request may leave at the server.
LEMMA SendValue ==
  ASSUME ConvTypeOK, Known(Kind), NEW op \in {"new", "put", "patch"}, NEW r \in Sending(op)
  PROVE  /\ r.result \in {"written", "error", "panic"}
         /\ r.value \in Values \cup {stored}
         /\ r.value \in {held, stored, "zero", "usual"} \/ Kind.sends = "bare"
         /\ r.result # "written" => r.value = stored
         /\ r.result = "panic" => Kind.sends \in {"cutOrPanic", "sentBack"}
         /\ r.result = "written" /\ Kind.sends \in {"always", "required", "copied"} => r.value = held
         /\ r.result = "written" /\ Kind.sends \in {"nonZero", "sentBack"} =>
              r.value = IF held = "zero" THEN NotSent(op) ELSE held
         /\ r.result = "written" /\ Kind.sends = "sometimes" => r.value \in {NotSent(op), held}
         /\ r.result = "written" /\ Kind.sends = "sometimes" /\ held = "zero" => r.value = NotSent(op)
         /\ r.result = "written" /\ Kind.sends \in {"never", "refused"} => r.value = NotSent(op)
         /\ r.result = "written" /\ Kind.sends = "default" =>
              r.value = IF held = "zero" THEN "usual" ELSE held
         /\ r.result = "written" /\ Kind.sends \in {"cut", "cutOrPanic"} =>
              r.value = IF held = "odd" THEN "usual" ELSE held
         /\ r.result = "written" /\ Kind.sends \in {"server", "once"} /\ op # "new" => r.value = stored
         /\ r.result = "written" /\ Kind.sends = "seconds" => r.value = "usual"
         /\ r.result = "written" /\ Kind.sends = "cutOrPanic" => held # "zero"
         /\ Kind.sends = "refused" /\ r.result = "written" => held = "zero"
         /\ r.result = "written" /\ (op = "new" \/ Exists) => r.value \in Values
BY DEF Exists, Absent, Sending, NotSent, FirstValue, ConvTypeOK, Values, Known, SendKinds

LEMMA ReadKeeps ==
  ASSUME ConvIInv, Known(Kind), ReadField
  PROVE  ConvIInv'
<1>1. PICK r \in Reading : /\ convResult' = r.result /\ held' = r.value
                           /\ origin' = IF r.result = "read" THEN "read" ELSE "none"
  BY DEF ReadField
<1>2. UNCHANGED <<field, stored, Kind, Ops>> /\ Exists /\ Readable /\ Exists' /\ Readable'
  BY DEF ReadField, Kind, Ops, Exists, Readable
<1>3. ConvTypeOK
  BY DEF ConvIInv
<1>4. ConvTypeOK'
  BY <1>1, <1>2, <1>3, ReadValue DEF ConvTypeOK, Values
<1>5. ReadIs'
  BY <1>1, <1>2, <1>3, ReadValue DEF ReadIs, KeptUnlessOdd, Faithful
<1> QED BY <1>1, <1>4, <1>5 DEF ConvIInv, SetIs, WrittenIs

LEMMA SetKeeps ==
  ASSUME ConvIInv, SetField
  PROVE  ConvIInv'
<1>2. UNCHANGED <<field, stored, Kind, Ops>> 
  BY DEF SetField, Kind, Ops
<1>3. /\ held' \in Values /\ (held' = "odd" => Kind.sends \in {"cut", "cutOrPanic", "seconds"})
      /\ origin' = "set" /\ Ops # {} /\ Kind.sends # "server"
  BY DEF SetField, Settable, Values
<1>4. ConvTypeOK'
  BY <1>2, <1>3 DEF ConvIInv, ConvTypeOK, Values
<1> QED BY <1>2, <1>3, <1>4 DEF ConvIInv, SetIs, WrittenIs, ReadIs

LEMMA SendKeeps ==
  ASSUME ConvIInv, Known(Kind), NEW op \in {"new", "put", "patch"}, SendField(op)
  PROVE  ConvIInv'
<1>1. PICK r \in Sending(op) :
         /\ convResult' = r.result /\ stored' = r.value
         /\ origin' = IF origin = "set" /\ r.result = "written" THEN "written" ELSE origin
  BY DEF SendField
<1>2. /\ UNCHANGED <<field, held, Kind, Ops>> /\ op \in Ops
      /\ op = "new" <=> ~Exists
      /\ op = "new" \/ origin \in {"read", "set", "stale"}
  BY DEF SendField, Kind, Ops, Exists
<1>3. ConvTypeOK
  BY DEF ConvIInv
<1>4. ConvTypeOK'
  BY <1>1, <1>2, <1>3, SendValue DEF ConvTypeOK, Values
<1>5. Exists => Exists'
  BY <1>1, <1>2, <1>3, SendValue DEF Exists, ConvTypeOK, Values, Absent
<1>9. r.result = "written" => Exists'
  BY <1>1, <1>2, <1>3, SendValue DEF Exists, Values, Absent
<1>6. ReadIs'
  <2> SUFFICES ASSUME origin' = "read" PROVE ReadIs'
    BY DEF ReadIs
  <2>1. origin = "read" /\ Exists /\ Readable /\ op # "new"
    BY <1>1, <1>2 DEF ReadIs, ConvIInv
  <2>2. Readable'
    BY <1>2, <2>1 DEF Readable
  <2>3. ReadIs /\ Known(Kind)
    BY DEF ConvIInv
  <2> QED BY <1>1, <1>2, <1>3, <1>5, <2>1, <2>2, <2>3, SendValue
          DEF ReadIs, KeptUnlessOdd, Known, SendKinds, NotSent
<1>7. SetIs'
  BY <1>1, <1>2 DEF ConvIInv, SetIs
<1>8. WrittenIs'
  BY <1>1, <1>2, <1>3, <1>9, SendValue DEF ConvIInv, SetIs, WrittenIs, NotSent
<1> QED BY <1>1, <1>2, <1>4, <1>5, <1>6, <1>7, <1>8 DEF ConvIInv

LEMMA ChangeKeeps ==
  ASSUME ConvIInv, ServerChanges
  PROVE  ConvIInv'
<1>1. UNCHANGED <<field, held, Kind, Ops>> /\ stored' \in Values /\ Exists'
  BY PossibleValues DEF ServerChanges, Kind, Ops, Exists, Values, Absent
<1>2. origin' \in {"none", "set", "stale"} /\ (origin' = "set" => origin = "set")
  BY DEF ServerChanges, ConvIInv, ConvTypeOK
<1> QED BY <1>1, <1>2 DEF ConvIInv, ConvTypeOK, Values, ReadIs, SetIs, WrittenIs

LEMMA ConvInitial == ConvInit => ConvIInv
BY PossibleValues DEF ConvInit, ConvIInv, ConvTypeOK, Values, ReadIs, SetIs, WrittenIs

-----------------------------------------------------------------------------
(* What a step may do to a value.                                          *)

\* Where a value is lost, by the kind of the field alone: an update that changes what was
\* only read, a read that returns another value than was written, or a panic.
KindsStep ==
  /\ origin = "read" /\ origin' = "read" /\ stored' # stored =>
       Readable /\ ~ Kept(Kind, Ops) /\ ("odd" \in {held, stored} \/ ~ KeptUnlessOdd(Kind))
  /\ origin = "written" /\ origin' \in {"read", "none"} =>
       \/ origin' = "read" /\ held' = held
       \/ /\ Readable /\ ~ Returned(Kind, Ops)
          /\ held = "zero" \/ ~ ReturnedUnlessZero(Kind)
          /\ held = "odd" \/ ~ ReturnedUnlessOdd(Kind)
          /\ held \in {"zero", "odd"} \/ ~ ReturnedUnlessEither(Kind)
  /\ convResult' = "panic" => MayPanic(Kind)

\* A kind that reads everything reads the zero and the usual value as they are.
LEMMA ReadBack ==
  ASSUME stored \in {"zero", "usual"}, NEW r \in Reading,
         Kind.reads \in Total \/ (Kind.reads = "present" /\ stored # "zero")
  PROVE  r.result = "read" /\ r.value = stored
BY DEF Reading, Total

LEMMA ReadStep ==
  ASSUME ConvIInv, Known(Kind), ReadField
  PROVE  KindsStep
<1>1. PICK r \in Reading : /\ convResult' = r.result /\ held' = r.value
                           /\ origin' = IF r.result = "read" THEN "read" ELSE "none"
  BY DEF ReadField
<1>2. stored' = stored /\ Exists /\ Readable
  BY DEF ReadField
<1>3. ConvTypeOK
  BY DEF ConvIInv
<1>4. r.result = "panic" => MayPanic(Kind)
  BY <1>1, <1>2, <1>3, ReadValue
<1>5. ASSUME origin = "written",
             \/ Returned(Kind, Ops)
             \/ ReturnedUnlessZero(Kind) /\ held # "zero"
             \/ ReturnedUnlessOdd(Kind) /\ held # "odd"
             \/ ReturnedUnlessEither(Kind) /\ held = "usual"
      PROVE  r.result = "read" /\ r.value = held
  <2>1. held \in {"zero", "usual"} /\ stored = held
    BY <1>5, <1>3 DEF ConvIInv, ConvTypeOK, SetIs, WrittenIs, Returned, ReturnedUnlessZero,
         ReturnedUnlessOdd, ReturnedUnlessEither
  <2>2. Kind.reads \in Total \/ (Kind.reads = "present" /\ held # "zero")
    BY <1>5 DEF ConvIInv, SetIs, WrittenIs, Returned, ReturnedUnlessZero, ReturnedUnlessOdd,
         ReturnedUnlessEither
  <2> QED BY <2>1, <2>2, ReadBack
<1>6. held \in {"zero", "odd"} \/ held = "usual"
  BY <1>3 DEF ConvTypeOK
<1> QED BY <1>1, <1>2, <1>4, <1>5, <1>6 DEF KindsStep

LEMMA SendStep ==
  ASSUME ConvIInv, Known(Kind), NEW op \in {"new", "put", "patch"}, SendField(op)
  PROVE  KindsStep
<1>1. PICK r \in Sending(op) :
         /\ convResult' = r.result /\ stored' = r.value
         /\ origin' = IF origin = "set" /\ r.result = "written" THEN "written" ELSE origin
  BY DEF SendField
<1>2. /\ op \in Ops /\ held' = held
      /\ op = "new" <=> ~Exists
      /\ op = "new" \/ origin \in {"read", "set", "stale"}
  BY DEF SendField, Exists
<1>3. ConvTypeOK
  BY DEF ConvIInv
<1>4. r.result = "panic" => MayPanic(Kind)
  BY <1>3, SendValue DEF MayPanic
<1>5. ~ (origin = "written")
  BY <1>2 DEF ConvIInv, WrittenIs
<1>6. ASSUME origin = "read", stored' # stored
      PROVE  Readable /\ ~ Kept(Kind, Ops) /\ ("odd" \in {held, stored} \/ ~ KeptUnlessOdd(Kind))
  <2>1. op \in {"put", "patch"} /\ Readable /\ ReadIs
    BY <1>2, <1>6 DEF ConvIInv, ReadIs
  <2>2. r.result = "written" /\ r.value # stored
    BY <1>1, <1>3, <1>6, SendValue
  <2>3. ~ Kept(Kind, Ops)
    BY <1>2, <1>3, <1>6, <2>1, <2>2, SendValue DEF Kept, ReadIs, NotSent
  <2>4. KeptUnlessOdd(Kind) => "odd" \in {held, stored}
    BY <1>2, <1>3, <1>6, <2>1, <2>2, SendValue DEF KeptUnlessOdd, ReadIs, NotSent
  <2> QED BY <2>1, <2>3, <2>4
<1> QED BY <1>1, <1>4, <1>5, <1>6 DEF KindsStep

LEMMA ConvStep ==
  ASSUME ConvIInv, [ConvNext]_convVars
  PROVE  ConvIInv' /\ [KindsStep]_convVars
<1>1. Known(Kind) /\ Ops \subseteq {"new", "put", "patch"}
  BY FieldIsFine DEF ConvIInv, ConvTypeOK
<1>2. CASE ReadField
  BY <1>1, <1>2, ReadKeeps, ReadStep
<1>3. CASE SetField
  BY <1>3, SetKeeps DEF SetField, KindsStep, Runs
<1>4. CASE CreateField \/ UpdateField
  BY <1>1, <1>4, SendKeeps, SendStep DEF CreateField, UpdateField
<1>5. CASE ServerChanges
  BY <1>5, ChangeKeeps DEF ServerChanges, KindsStep, Runs
<1>6. CASE UNCHANGED convVars
  BY <1>6 DEF convVars, ConvIInv, ConvTypeOK, ReadIs, SetIs, WrittenIs, Kind, Ops, Exists, Readable
<1> QED BY <1>2, <1>3, <1>4, <1>5, <1>6 DEF ConvNext

\* The inductive invariant of the conversions: what the caller holds, and has had written,
\* says what the server has, up to what the field's kind loses.
THEOREM ConvInvariant == ConvSpec => []ConvIInv
BY ConvInitial, ConvStep, PTL DEF ConvSpec

\* The kind of the field decides: a conversion of a harmless kind loses nothing, in
\* whatever struct of the client it is used.
THEOREM KindsDecideHolds == ConvSpec => [][KindsStep]_convVars
BY ConvInvariant, ConvStep, PTL DEF ConvSpec

\* For every field of every struct in the table: only a field listed as forgotten or rounded
\* is changed by an update of what was read, only one listed as write-only, never cleared or
\* rounded is read otherwise than it was written, and only one listed as dereferenced panics.
THEOREM FieldsSurviveHolds == ConvSpec => FieldsSurvive
<1>1. ConvIInv /\ [ConvNext]_convVars /\ [KindsStep]_convVars =>
        [ /\ origin = "read" /\ origin' = "read" /\ stored' # stored =>
               \/ field \in Forgotten
               \/ "odd" \in {held, stored} /\ field \in Rounded
          /\ origin = "written" /\ origin' \in {"read", "none"} =>
               \/ origin' = "read" /\ held' = held
               \/ field \in WriteOnly
               \/ held = "zero" /\ field \in NeverCleared
               \/ held = "odd" /\ field \in Rounded
          /\ convResult' = "panic" => field \in Dereferenced ]_convVars
  BY FieldIsFine DEF ConvIInv, ConvTypeOK, KindsStep, Fine
<1> QED BY <1>1, ConvInvariant, KindsDecideHolds, PTL DEF FieldsSurvive, ConvSpec
====
