---------------------------- MODULE Conversions ----------------------------
(***************************************************************************)
(* What becomes of one field of an object on its way between the server    *)
(* and the caller.  A handler reads an object by turning JSON into a       *)
(* struct (polish, UnmarshalJSON) and writes it by turning a struct into   *)
(* JSON (raw, MarshalJSON); the table records for each field of each       *)
(* struct what either does with its value.  Of the values it tells apart   *)
(* only the zero value (empty, or a nil pointer), an ordinary one, and an  *)
(* odd one: a word the client has no constant for, a speed that is no      *)
(* whole number of gigabits, a network with host bits, an address without  *)
(* the prefix it should have, a package without a version.  The rows of a  *)
(* struct are about its own conversion: what is inside a field is lost     *)
(* with the field, and a struct that is held by a pointer is there.        *)
(***************************************************************************)

VARIABLES
  field,       (* the struct and the field looked at: <<struct, name>>      *)
  stored,      (* the server's value; Absent if the object does not exist   *)
  held,        (* the caller's value                                        *)
  origin,      (* where it is from: "none", "read", "set" by the caller,    *)
               (* "written" (set, and the server took it), "stale" (the     *)
               (* server's value has changed since)                         *)
  convResult   (* how the last call ended                                   *)

convVars == <<field, stored, held, origin, convResult>>

Absent == "absent"
-----------------------------------------------------------------------------
(* How a field is sent:                                                    *)
(*   "always"       as it is                                               *)
(*   "nonZero"      left out when zero (omitempty)                         *)
(*   "never"        left out, or sent as null, whatever the caller holds   *)
(*   "sometimes"    as "nonZero", or left out, as another field says       *)
(*   "misnamed"     by a name other than that by which it is read: left    *)
(*                  out for the server, unless it refuses the request      *)
(*   "bare"         left out when zero; the address without the prefix it  *)
(*                  is read with, which the server may add                 *)
(*   "server"       not sent: the server alone changes it                  *)
(*   "cut"          odd values as the usual one before them                *)
(*   "cutOrPanic"   the same, and a zero value is dereferenced             *)
(*   "required"     a zero value is an error                               *)
(*   "default"      a zero value as a usual one                            *)
(*   "seconds"      the same, and an odd one (parts of a second) is cut    *)
(*   "once"         as it is, by the request that creates the object only  *)
(*   "refused"      any value but zero is an error                         *)
(*   "copied"       by the ID of another object, which the client reads to *)
(*                  send a copy: an error if there is none                 *)
(*   "sentBack"     left out when zero; a call that edits another part of  *)
(*                  the object reads it first and dereferences it          *)
(* How it is read:                                                         *)
(*   "all"      as it is                "never"    not at all              *)
(*   "known"    an odd value, or one that cannot be parsed: error          *)
(*   "cut"      an odd one as usual     "partner"  or as zero, if another  *)
(*                                                 field is                *)
(*   "loose"    an odd value as zero    "present"  zero is dereferenced    *)
(*   "other"    from another field      "otherOrPanic"  and dereferenced   *)
(*   "panics"   an odd value's error is looked at after the value is used  *)
(*   "unkept"   not kept; an odd one is an error that names another field, *)
(*              which is dereferenced                                      *)

\* What is in both is as in the first: the @@ of module TLC, which proofs cannot expand.
a ++ b == [n \in DOMAIN a \cup DOMAIN b |-> IF n \in DOMAIN a THEN a[n] ELSE b[n]]

Row(sends, reads, names) == [n \in names |-> [sends |-> sends, reads |-> reads]]

Plain(names)     == Row("always", "all", names)
Word(names)      == Row("always", "known", names)
Loose(names)     == Row("always", "loose", names)
Sent(names)      == Row("always", "never", names)
Opt(names)       == Row("nonZero", "all", names)
OptWord(names)   == Row("nonZero", "known", names)
OptLoose(names)  == Row("nonZero", "loose", names)
OptSent(names)   == Row("nonZero", "never", names)
Dropped(names)   == Row("never", "all", names)
ReadOnly(names)  == Row("server", "all", names)
ReadWord(names)  == Row("server", "known", names)
ReadLoose(names) == Row("server", "loose", names)
Speed(names)     == Row("cut", "all", names)
NeedSpeed(names) == Row("cutOrPanic", "all", names)
Network(names)   == Row("always", "cut", names)
Needed(names)    == Row("required", "all", names)
Ref(names)       == Row("copied", "all", names)

\* What can be done with the object a struct is, or is part of.
Fields(requests, rows) == [ops |-> requests, rows |-> rows]
Replaced(rows) == Fields({"new", "put"}, rows)    \* PUT: what is not sent is reset
Patched(rows)  == Fields({"new", "patch"}, rows)  \* PATCH: it is kept
Settings(rows) == Fields({"patch"}, rows)
Created(rows)  == Fields({"new"}, rows)
JustRead(rows) == Fields({}, rows)

Stamps == {"Id", "CreatedAt", "LastModifiedAt"}
-----------------------------------------------------------------------------
\* Design: templates.
AntiAffinityPolicyFields == Replaced(
     Plain({"MaxLinksPerPort", "MaxLinksPerSlot", "MaxPerSystemLinksPerPort",
            "MaxPerSystemLinksPerSlot"})
  ++ Word({"Algorithm", "Mode"}))

VirtualNetworkPolicyFields == Replaced(OptWord({"OverlayControlProtocol"}))
AsnAllocationPolicyFields == Replaced(Word({"SpineAsnScheme"}))

SpineFields == Replaced(
     Plain({"Count", "LinkPerSuperspineCount"})
  ++ Speed({"LinkPerSuperspineSpeed"})
  ++ Ref({"Tags"})
  ++ Row("copied", "panics", {"LogicalDevice"}))

SuperspineFields == Replaced(
     Plain({"PlaneCount", "SuperspinePerPlane"}) ++ Ref({"Tags", "LogicalDevice"}))

TemplateRackBasedFields == JustRead(ReadOnly(Stamps) ++ ReadWord({"Capability", "RackInfo"}))
TemplatePodBasedFields == JustRead(ReadOnly(Stamps) ++ ReadWord({"Capability", "PodInfo"}))
TemplateL3CollapsedFields == JustRead(
     ReadOnly(Stamps) ++ ReadWord({"Capability"})
  ++ Row("server", "present", {"MeshLinkSpeed"}))

CreateRackBasedTemplateRequestFields == Replaced(
     Plain({"DisplayName", "DhcpServiceIntent"})
  ++ Opt({"AntiAffinityPolicy"})
  ++ Needed({"Spine", "AsnAllocationPolicy", "VirtualNetworkPolicy"})
  ++ Ref({"RackInfos"}))

CreatePodBasedTemplateRequestFields == Replaced(
     Plain({"DisplayName"})
  ++ Opt({"AntiAffinityPolicy"})
  ++ Needed({"Superspine"})
  ++ Ref({"PodInfos"}))

CreateL3CollapsedTemplateRequestFields == Replaced(
     Plain({"DisplayName", "MeshLinkCount", "RackTypeCounts", "DhcpServiceIntent",
            "VirtualNetworkPolicy"})
  ++ Opt({"AntiAffinityPolicy"})
  ++ Row("cutOrPanic", "present", {"MeshLinkSpeed"})
  ++ Ref({"RackTypeIds"}))

\* Design: rack types.  An unknown logical device or tag is an error.
LeafSwitchFields == Replaced(
     Plain({"Label", "LinkPerSpineCount", "LeafLeafL3LinkCount",
            "LeafLeafL3LinkPortChannelId", "LeafLeafLinkCount",
            "LeafLeafLinkPortChannelId", "MlagVlanId"})
  ++ Speed({"LinkPerSpineSpeed", "LeafLeafL3LinkSpeed", "LeafLeafLinkSpeed"})
  ++ OptWord({"RedundancyProtocol"})
  ++ Ref({"Tags", "LogicalDevice"}))

AccessSwitchFields == Replaced(
     Plain({"InstanceCount", "Label", "AccessAccessLinkCount"})
  ++ Row("cut", "partner", {"AccessAccessLinkSpeed"})
  ++ OptWord({"RedundancyProtocol"})
  ++ Ref({"Tags", "LogicalDevice"}))

\* A rack's links are written back without the speed.
RackLinkUnsent == Replaced(
     Plain({"Label", "LinkPerSwitchCount", "TargetSwitchLabel"})
  ++ Dropped({"LinkSpeed"})
  ++ Word({"AttachmentType", "LagMode"})
  ++ OptWord({"SwitchPeer"})
  ++ Ref({"Tags"}))

RackLinkFields == Replaced(
     Plain({"Label", "LinkPerSwitchCount", "TargetSwitchLabel"})
  ++ Speed({"LinkSpeed"})
  ++ Word({"AttachmentType", "LagMode"})
  ++ OptWord({"SwitchPeer"})
  ++ Ref({"Tags"}))

GenericSystemFields == Replaced(
     Plain({"Count", "Label", "PortChannelIdMin", "PortChannelIdMax"})
  ++ Word({"AsnDomain", "ManagementLevel", "Loopback"})
  ++ Ref({"Tags", "LogicalDevice"}))

RackTypeRequestFields == Replaced(
     Plain({"DisplayName", "Description"}) ++ Word({"FabricConnectivityDesign"}))
RackTypeFields == JustRead(ReadOnly(Stamps))

\* Design: interface maps, logical devices, device profiles.
InterfaceMapMappingFields == Replaced(Plain({"DPPortId", "DPTransformId",
  "DPInterfaceId", "LDPanel", "LDPort"}))
InterfaceMapInterfaceFields == Replaced(
     Plain({"Name", "Setting", "Position"})
  ++ Word({"Roles", "ActiveState"})
  ++ NeedSpeed({"Speed"}))
InterfaceMapFields == Replaced(
  Plain({"LogicalDeviceId", "DeviceProfileId", "Label"}) ++ ReadOnly(Stamps))

LogicalDevicePortGroupFields == Replaced(
  Plain({"Count"}) ++ NeedSpeed({"Speed"}) ++ Word({"Roles"}))
LogicalDevicePanelFields == Replaced(Plain({"PanelLayout", "PortIndexing"}))
LogicalDeviceFields == Replaced(Plain({"DisplayName"}) ++ ReadOnly(Stamps))

PortInfoFields == Replaced(Plain({"DisplayId", "PanelId", "SlotId", "ConnectorType",
  "RowId", "PortId", "FailureDomainId", "ColumnId"}))
TransformationFields == Replaced(Plain({"IsDefault", "TransformationId"}))
TransformInterfaceFields == Replaced(
  Plain({"State", "Setting", "Name", "InterfaceId"}) ++ NeedSpeed({"Speed"}))
\* The struct that is sent, unlike the one that is read, has no names for the server.
DeviceProfileDataFields == Replaced(Row("misnamed", "all",
  {"Label", "DeviceProfileType", "ChassisProfileId", "ChassisCount", "SlotCount",
   "HardwareCapabilities", "SoftwareCapabilities", "Ports", "Selector", "ChassisInfo",
   "LinecardsInfo", "SlotConfiguration"}))
DeviceProfileFields == JustRead(ReadOnly(Stamps))
ModularDeviceProfileFields == Replaced(
  Plain({"Label", "ChassisProfileId", "SlotConfigurations"}))

\* Design: configlets, property sets, tags, pools.
ConfigletFields == Replaced(
     Plain({"DisplayName", "TemplateText", "NegationTemplateText", "Filename"})
  ++ Word({"RefArchs", "ConfigStyle", "Section"})
  ++ ReadOnly(Stamps))
PropertySetFields == Replaced(
  Plain({"Label", "Values"}) ++ Opt({"Blueprints"}) ++ ReadWord({"CreatedAt", "UpdatedAt"}))
DesignTagFields == Replaced(Plain({"Label", "Description"}) ++ ReadOnly(Stamps))
IntPoolRequestFields == Replaced(Plain({"DisplayName", "Ranges"}) ++ Opt({"Tags"}))
IntPoolFields == JustRead(
     ReadOnly({"Id", "UsedPercentage", "CreatedAt", "LastModifiedAt"})
  ++ ReadWord({"Status", "Used", "Total"}))
IntRangeFields == JustRead(
  ReadOnly({"Status", "UsedPercentage", "First", "Last"}) ++ ReadWord({"Used", "Total"}))
IpPoolFields == Replaced(
     Plain({"DisplayName", "Tags"})
  ++ ReadOnly({"Id", "UsedPercentage", "CreatedAt", "LastModifiedAt"})
  ++ ReadWord({"Status", "Used", "Total"}))
IpSubnetFields == Replaced(
  Network({"Network"}) ++ ReadOnly({"Status", "UsedPercentage"}) ++ ReadWord({"Used", "Total"}))

\* Intent-based analytics.
IbaWidgetFields == Replaced(
     Plain({"Label", "ProbeId"})
  ++ Opt({"OrderBy", "StageName", "ShowContext", "Description", "AnomalousOnly",
          "SpotlightMode", "Filter", "DataSource", "MaxItems", "CombineGraphs",
          "VisibleColumns"})
  ++ Word({"Type"})
  ++ Row("seconds", "all", {"AggregationPeriod"})
  ++ Row("seconds", "otherOrPanic", {"TimeSeriesDuration"})
  ++ Row("server", "other", {"CreatedAt"})
  ++ Row("server", "unkept", {"UpdatedAt"})
  ++ ReadOnly({"Id", "UpdatedBy"}))
IbaDashboardFields == Replaced(
     Plain({"Label", "Description", "IbaWidgetGrid"})
  ++ Opt({"Default", "PredefinedDashboard", "UpdatedBy"})
  ++ ReadWord({"CreatedAt", "UpdatedAt"}))

\* Platform: agents, systems, blueprints, telemetry.
\* Of agents and agent profiles; the empty version of a package is sent as one.
AgentPackagesFields == Patched(Row("nonZero", "cut", {"Packages"}))
AgentStatusFields == JustRead(
     ReadOnly({"CurrentTask", "PendingType", "JobId", "PlatformVersion", "State",
               "SystemId", "HasCredential", "Error", "StatusMessage", "AosVersion",
               "PackagesInstalled"})
  ++ ReadWord({"OperationMode"})
  ++ ReadLoose({"ConnectionState", "Platform"}))
AgentJobStatusFields == JustRead(
     ReadOnly({"Started", "Finished", "HostId", "CurrentTask", "IsLogAvailable",
               "JobId", "Created", "Error"})
  ++ ReadLoose({"JobType", "State", "AgentTypeOffBox"}))
TelemetryExtStatusFields == JustRead(ReadOnly({"PackagesInstalled", "StatusMessage"}))
SystemAgentFields == JustRead(ReadOnly({"Id", "ContainerStatus", "DeviceFacts",
  "PlatformConfig", "PlatformStatus"}))
SystemAgentConfigFields == JustRead(
     ReadOnly({"Profile", "ForcePackageInstall", "InstallRequirements", "OpenOptions",
               "Label", "Platform", "ManagementIp", "Id"})
  ++ ReadLoose({"AgentTypeOffBox", "AllowedJobTypes"})
  ++ ReadWord({"OperationMode"}))
SystemAgentRequestFields == Patched(
     Opt({"ManagementIp", "Profile", "ForcePackageInstall", "InstallRequirements", "Label"})
  ++ OptWord({"OperationMode"})
  ++ Row("once", "loose", {"AgentTypeOffbox"})
  ++ Row("sometimes", "all", {"Platform"})   \* of agents that are off the box
  ++ OptSent({"JobOnCreate", "EnableMonitor", "Username", "Password"}))
AgentProfileFields == Patched(
     Opt({"Label", "Platform", "OpenOptions"})
  ++ OptSent({"Username", "Password"}))
AgentProfileReadFields == JustRead(ReadOnly({"Id", "HasUsername", "HasPassword"}))
ManagedSystemInfoFields == JustRead(ReadOnly({"ContainerStatus", "DeviceKey", "Facts",
  "Id", "Services"}))
SystemStatusFields == JustRead(
     ReadOnly({"AgentStartTime", "CommState", "DeviceStartTime", "ErrorMessage",
               "IsAcknowledged", "State"})
  ++ ReadWord({"OperationMode"}))
SystemUserConfigFields == Fields({"put"},
  Opt({"AosHclModel", "Location"}) ++ OptWord({"AdminState"}))
SystemConfigFields == JustRead(ReadOnly({"SystemId", "LastBootTime", "Deviated",
  "ErrorMessage", "ContiguousFailures", "UserGoldenConfigUpdateVersion",
  "UserFullConfigDeployVersion", "AosConfigVersion", "ExpectedConfig", "ActualConfig"}))
TelemetryServiceRegistryEntryFields == Replaced(
     Plain({"ServiceName", "ApplicationSchema", "Builtin", "Description"})
  ++ Word({"StorageSchemaPath"})
  ++ ReadOnly({"Version"}))
BlueprintFields == JustRead(
     ReadOnly({"Id", "Version", "LastModifiedAt", "Label", "Relationships", "Nodes",
               "SourceVersions"})
  ++ ReadWord({"Design"}))
BlueprintStatusFields == JustRead(
     ReadOnly({"Id", "Label", "Status", "HasUncommittedChanges", "Version",
               "LastModifiedAt", "SuperspineCount", "SpineCount", "LeafCount",
               "AccessCount", "GenericCount", "ExternalRouterCount", "L2ServerCount",
               "L3ServerCount", "RemoteGatewayCount", "BuildWarningsCount",
               "RootCauseCount", "TopLevelRootCauseCount", "BuildErrorsCount"})
  ++ ReadWord({"Design"})
  ++ Row("server", "never", {"DeploymentStatus", "AnomalyCounts"}))
BlueprintRequestFabricAddressingPolicyFields == Created(
  OptSent({"SpineSuperspineLinks", "SpineLeafLinks", "FabricL3Mtu"}))
CreateBlueprintFromTemplateRequestFields == Created(
  Sent({"RefDesign", "Label", "TemplateId"}) ++ OptSent({"FabricSettings"}))
BlueprintDeployResponseFields == JustRead(ReadOnly({"Version", "Error"}) ++ ReadWord({"Status"}))
BlueprintRevisionFields == JustRead(
     ReadOnly({"Description", "CreatedAt", "AutoSaved", "UserSaved", "User"})
  ++ ReadLoose({"UserIp"})
  ++ ReadWord({"RevisionId"}))
-----------------------------------------------------------------------------
\* Freeform blueprints.
FreeformAllocGroupFields == Replaced(
  Plain({"Name", "PoolIds"}) ++ Row("once", "known", {"Type"}))
ConfigTemplateFields == Patched(Plain({"Label", "Text", "Tags", "TemplateId"}))
FreeformGroupGeneratorFields == Patched(Plain({"ParentId", "Label", "Scope"}))
FreeformLinkFields == Patched(
     Plain({"Label", "Tags"})
  ++ ReadOnly({"AggregateLinkId", "Speed"}))
FreeformInterfaceFields == Patched(
     Opt({"IfName"})
  ++ Word({"Ipv4Address", "Ipv6Address"})
  ++ Plain({"TransformationId", "Tags"}))
FreeformEndpointFields == Created(Opt({"SystemId"}))
FreeformPropertySetFields == Patched(Plain({"SystemId", "Label"}) ++ Opt({"Values"}))
FreeformRaGroupGeneratorFields == Patched(Plain({"ParentId", "Label", "Scope"}))
FreeformRaLocalIntPoolGeneratorFields == Patched(
  Plain({"Label", "Scope"}) ++ Word({"ResourceType"}) ++ Opt({"Chunks"}))
FreeformRaLocalIntPoolFields == Patched(
  Plain({"Label", "OwnerId", "GeneratorId", "Chunks"}) ++ Word({"ResourceType"}))
FreeformRaResourceFields == Patched(
     Plain({"Label", "Value", "AllocatedFrom", "GroupId", "SubnetPrefixLen"})
  ++ Word({"ResourceType"})
  ++ ReadOnly({"GeneratorId"}))
FreeformResourceGeneratorFields == Patched(
  Opt({"Label", "AllocatedFrom", "Scope", "ScopeNodePoolLabel", "ContainerId",
       "SubnetPrefixLen"})
  ++ OptWord({"ResourceType"}))
FreeformRaGroupFields == Patched(Plain({"ParentId", "Label", "Tags", "Data", "GeneratorId"}))
FreeformSystemFields == Patched(
     Opt({"SystemId", "Hostname", "DeviceProfileId"})
  ++ Plain({"Label", "Tags"})
  ++ Word({"Type"}))
-----------------------------------------------------------------------------
\* Two-stage L3 Clos blueprints: settings.
TwoStageL3ClosConfigletFields == Replaced(Plain({"Label", "Condition"}) ++ ReadOnly({"Id"}))
TwoStageL3ClosPropertySetFields == JustRead(
  ReadOnly({"Id", "Label", "Stale", "Values", "ValuesYaml"}))
TwoStageL3ClosFabricAddressingPolicyFields == Settings(
  Opt({"Ipv6Enabled", "EsiMacMsb", "FabricL3Mtu"}))
FabricSettingsSent == {"DefaultSviL3Mtu", "EsiMacMsb", "ExternalRouterMtu", "FabricL3Mtu",
  "Ipv6Enabled", "JunosEvpnDuplicateMacRecoveryTime"}
FabricLimits == {"MaxEvpnRoutes", "MaxExternalRoutes", "MaxFabricRoutes", "MaxMlagRoutes"}
FabricSwitches == {"EvpnGenerateType5HostRoutes", "JunosEvpnMaxNexthopAndInterfaceNumber",
  "JunosExOverlayEcmp", "JunosGracefulRestart", "OptimiseSzFootprint"}
FabricSettingsFields == Settings(
     Opt(FabricSettingsSent)
  ++ Plain(FabricLimits)
  ++ OptLoose(FabricSwitches)
  ++ OptWord({"OverlayControlProtocol", "JunosEvpnRoutingInstanceVlanAware"})
  ++ Row("nonZero", "present", {"AntiAffinityPolicy"})
  ++ Row("refused", "known", {"SpineLeafLinks", "SpineSuperspineLinks"}))
\* The part of the settings that version 4.2.0 keeps in one node of the graph.
VirtualNetworkPolicy420Fields == Settings(
     Opt(FabricSettingsSent \ {"EsiMacMsb", "FabricL3Mtu", "Ipv6Enabled"})
  ++ Plain(FabricLimits)
  ++ Opt((FabricSwitches \ {"OptimiseSzFootprint"}) \cup {"JunosEvpnRoutingInstanceType"})
  ++ Dropped({"OverlayControlProtocol"}))
GenericSystemLoopbackFields == Settings(
     Network({"Ipv4Addr", "Ipv6Addr"})
  ++ Row("never", "never", {"LoopbackId"})
  ++ Opt({"SecurityZoneId"})
  ++ ReadOnly({"LoopbackNodeId"}))
LinkLagParamsFields == Settings(
     Row("default", "never", {"GroupLabel"}) ++ OptSent({"LagMode"}) ++ Sent({"Tags"}))
ResourceGroupAllocationFields == Fields({"put"},
  Plain({"PoolIds"}) ++ OptWord({"Name", "Type"}) ++ Word({"SecurityZoneId"}))

\* Two-stage L3 Clos blueprints: objects.
PolicyFields == Replaced(
     Plain({"Enabled", "Label", "Description", "Tags"})
  ++ Row("sentBack", "all", {"SrcApplicationPoint", "DstApplicationPoint"}))
PolicyRuleFields == Replaced(
     Plain({"Label", "Description"})
  ++ Word({"Protocol", "Action", "SrcPort", "DstPort"})
  ++ OptWord({"TcpStateQualifier"})
  ++ ReadOnly({"Id"}))
RemoteGatewayFields == Replaced(
     Plain({"LocalGwNodes", "GwAsn", "GwName"})
  ++ Word({"RouteTypes", "GwIp"})
  ++ Opt({"Ttl", "KeepaliveTimer", "HoldtimeTimer"})
  ++ Sent({"Password"}))
PrefixFilterFields == Replaced(
     Word({"Action"}) ++ Network({"Prefix"}) ++ Opt({"GeMask", "LeMask"}))
DcRoutingPolicyFields == Patched(
     Plain({"Label", "Description", "ExportPolicy", "ExpectDefaultIpv4Route",
            "ExpectDefaultIpv6Route"})
  ++ Word({"PolicyType", "ImportPolicy"})
  ++ Network({"AggregatePrefixes"}))
RoutingZoneConstraintFields == Patched(
  Plain({"Label", "MaxRoutingZones", "RoutingZoneIds"}) ++ OptWord({"Mode"}))
SecurityZoneFields == Replaced(
     Plain({"Label", "VrfName"})
  ++ Word({"SzType"})
  ++ Opt({"RoutingPolicyId", "RouteTarget", "RtPolicy", "VlanId", "VniId"})
  ++ OptLoose({"JunosEvpnIrbMode"}))
SviIpFields == Replaced(
     Plain({"SystemId"})
  ++ Row("bare", "known", {"Ipv4Addr", "Ipv6Addr"})
  ++ OptWord({"Ipv4Mode", "Ipv6Mode"})
  ++ OptSent({"Ipv4Requirement", "Ipv6Requirement"}))   \* the server does not tell them
VirtualNetworkFields == Replaced(
     Plain({"Ipv4Enabled", "Ipv6Enabled", "Label", "RtPolicy",
            "VirtualGatewayIpv4Enabled", "VirtualGatewayIpv6Enabled", "VnBindings"})
  ++ Opt({"L3Mtu", "ReservedVlanId", "RouteTarget", "SecurityZoneId"})
  ++ OptWord({"VnId", "VirtualMac"})
  ++ Row("nonZero", "cut", {"Ipv4Subnet", "Ipv6Subnet"})
  ++ OptLoose({"VirtualGatewayIpv4", "VirtualGatewayIpv6"})
  ++ Loose({"DhcpService"})
  ++ Word({"VnType"}))
TwoStageL3ClosSubinterfaceFields == Settings(
  Word({"Ipv4AddrType", "Ipv6AddrType", "Ipv4Addr", "Ipv6Addr"}))
TwoStageL3ClosSubinterfaceLinkFields == JustRead(
  ReadOnly({"Id", "VlanId", "SzId", "SzLabel"}) ++ ReadWord({"Role"}))
NewSystemFields == Created(
     Sent({"Type", "PortChannelIdMin", "PortChannelIdMax"})
  ++ OptSent({"Tags", "Label", "Hostname"})
  ++ Row("copied", "never", {"LogicalDeviceId"})
  ++ Row("cutOrPanic", "never", {"LogicalDevice"}))
CreateLinkRequestFields == Created(
  OptSent({"Tags", "GroupLabel", "LagMode", "TransformationId", "IfName"})
  ++ Sent({"SystemId"}))
SystemNodeInfoFields == JustRead(
     ReadOnly({"DeviceProfileId", "External", "GroupLabel", "Hostname", "Id",
               "InterfaceMapId", "Label", "LogicalDevice", "LoopbackId", "PodId",
               "PortChannelIdMax", "PortChannelIdMin", "RackId", "RedundancyGroupId",
               "Tags"})
  ++ ReadWord({"Asn", "DeployMode", "LoopbackIpv4", "LoopbackIpv6", "ManagementLevel",
               "Role"}))
CablingMapLinkEndpointInterfaceFields == JustRead(
  ReadOnly({"IfName", "PortChannelId", "Id"}) ++ ReadWord({"OperationState", "IfType", "LagMode"}))
CablingMapLinkEndpointSystemFields == JustRead(ReadOnly({"Id", "Label"}) ++ ReadWord({"Role"}))
CablingMapLinkFields == JustRead(
     ReadOnly({"TagLabels", "Speed", "AggregateLinkId", "GroupLabel", "Label", "Id"})
  ++ ReadWord({"Role", "Type"}))
LockInfoFields == JustRead(
     ReadOnly({"UserName", "FirstName", "LastName", "UserId", "PossibleOverride"})
  ++ ReadWord({"LockStatus"}))
RackRequestFields == Created(
  OptSent({"PodId"}) ++ Row("copied", "never", {"RackTypeId"}))
AnomalyFields == JustRead(ReadOnly({"AnomalyType", "Id", "LastModifiedAt", "Severity"})
  ++ ReadWord({"Actual", "Anomalous", "Properties"}))
ConnectivityTemplateStateFields == JustRead(
  ReadOnly({"Id", "AppPointsCount", "MissingAttributes"}) ++ ReadWord({"Status"}))

\* Attributes of connectivity templates' primitives: which of them raw() sends, and how
\* the raw structs' polish() reads them.  The label is neither sent nor read.
BgpSession == {"Bfd", "Holdtime", "Ipv4Safi", "Ipv6Safi", "Keepalive", "LocalAsn",
  "Password", "Ttl"}
Attributes(names, words, addresses, networks) ==
  Replaced(   Row("never", "never", {"Label"})
           ++ Word(words) ++ Loose(addresses) ++ Network(networks) ++ Plain(names))

AttachSingleVlanSent == {"VnNodeId", "Tagged"}
AttachMultipleVlanSent == {"UntaggedVnNodeId", "TaggedVnNodeIds"}
AttachLogicalLinkSent == {"SecurityZone", "Tagged", "Vlan", "IPv4AddressingType",
  "IPv6AddressingType", "L3Mtu"}
AttachStaticRouteSent == {"ShareIpEndpoint", "Network"}
AttachCustomStaticRouteSent == {"SecurityZone", "Network", "NextHop"}
AttachIpEndpointWithBgpNsxtSent == {"Asn", "Ipv4Addr", "Ipv6Addr", "NeighborAsnDynamic"} \cup BgpSession
AttachBgpOverSubinterfacesOrSviSent == {"NeighborAsnDynamic", "PeerFromLoopback",
  "PeerTo", "SessionAddressingIpv4", "SessionAddressingIpv6"} \cup BgpSession
AttachBgpWithPrefixPeeringSent == {"PrefixNeighborIpv4", "PrefixNeighborIpv6",
  "SessionAddressingIpv4", "SessionAddressingIpv6"} \cup BgpSession
AttachExistingRoutingPolicySent == {"RpToAttach"}
AttachRoutingZoneConstraintSent == {"RoutingZoneConstraint"}

AttachSingleVlanFields == Attributes(AttachSingleVlanSent, {"Tagged"}, {}, {})
AttachMultipleVlanFields == Attributes(AttachMultipleVlanSent, {}, {}, {})
AttachLogicalLinkFields == Attributes(AttachLogicalLinkSent,
  {"Tagged", "IPv4AddressingType", "IPv6AddressingType"}, {}, {})
AttachStaticRouteFields == Attributes(AttachStaticRouteSent, {}, {}, {"Network"})
AttachCustomStaticRouteFields == Attributes(AttachCustomStaticRouteSent,
  {}, {"NextHop"}, {"Network"})
AttachIpEndpointWithBgpNsxtFields == Attributes(AttachIpEndpointWithBgpNsxtSent,
  {"NeighborAsnDynamic"}, {"Ipv4Addr", "Ipv6Addr"}, {})
AttachBgpOverSubinterfacesOrSviFields == Attributes(AttachBgpOverSubinterfacesOrSviSent,
  {"NeighborAsnDynamic", "PeerFromLoopback", "PeerTo",
   "SessionAddressingIpv4", "SessionAddressingIpv6"}, {}, {})
AttachBgpWithPrefixPeeringFields == Attributes(AttachBgpWithPrefixPeeringSent,
  {}, {}, {"PrefixNeighborIpv4", "PrefixNeighborIpv6"})
AttachExistingRoutingPolicyFields == Attributes(AttachExistingRoutingPolicySent, {}, {}, {})
AttachRoutingZoneConstraintFields == Attributes(AttachRoutingZoneConstraintSent, {}, {}, {})
-----------------------------------------------------------------------------
Structs == [
  AntiAffinityPolicy |-> AntiAffinityPolicyFields,
  VirtualNetworkPolicy |-> VirtualNetworkPolicyFields,
  AsnAllocationPolicy |-> AsnAllocationPolicyFields, Spine |-> SpineFields,
  Superspine |-> SuperspineFields, TemplateRackBased |-> TemplateRackBasedFields,
  TemplatePodBased |-> TemplatePodBasedFields,
  TemplateL3Collapsed |-> TemplateL3CollapsedFields,
  CreateRackBasedTemplateRequest |-> CreateRackBasedTemplateRequestFields,
  CreatePodBasedTemplateRequest |-> CreatePodBasedTemplateRequestFields,
  CreateL3CollapsedTemplateRequest |-> CreateL3CollapsedTemplateRequestFields,
  LeafSwitch |-> LeafSwitchFields, AccessSwitch |-> AccessSwitchFields,
  RackLink |-> RackLinkFields, GenericSystem |-> GenericSystemFields,
  RackTypeRequest |-> RackTypeRequestFields, RackType |-> RackTypeFields,
  InterfaceMapMapping |-> InterfaceMapMappingFields,
  InterfaceMapInterface |-> InterfaceMapInterfaceFields, InterfaceMap |-> InterfaceMapFields,
  LogicalDevicePortGroup |-> LogicalDevicePortGroupFields,
  LogicalDevicePanel |-> LogicalDevicePanelFields, LogicalDevice |-> LogicalDeviceFields,
  PortInfo |-> PortInfoFields, Transformation |-> TransformationFields,
  TransformInterface |-> TransformInterfaceFields,
  DeviceProfileData |-> DeviceProfileDataFields, DeviceProfile |-> DeviceProfileFields,
  ModularDeviceProfile |-> ModularDeviceProfileFields, Configlet |-> ConfigletFields,
  PropertySet |-> PropertySetFields, DesignTag |-> DesignTagFields,
  IntPoolRequest |-> IntPoolRequestFields, IntPool |-> IntPoolFields,
  IntRange |-> IntRangeFields, IpPool |-> IpPoolFields, IpSubnet |-> IpSubnetFields,
  IbaWidget |-> IbaWidgetFields, IbaDashboard |-> IbaDashboardFields,
  AgentPackages |-> AgentPackagesFields, AgentStatus |-> AgentStatusFields,
  AgentJobStatus |-> AgentJobStatusFields, TelemetryExtStatus |-> TelemetryExtStatusFields,
  SystemAgent |-> SystemAgentFields, SystemAgentConfig |-> SystemAgentConfigFields,
  SystemAgentRequest |-> SystemAgentRequestFields, AgentProfile |-> AgentProfileFields,
  AgentProfileRead |-> AgentProfileReadFields, ManagedSystemInfo |-> ManagedSystemInfoFields,
  SystemStatus |-> SystemStatusFields, SystemUserConfig |-> SystemUserConfigFields,
  SystemConfig |-> SystemConfigFields,
  TelemetryServiceRegistryEntry |-> TelemetryServiceRegistryEntryFields,
  Blueprint |-> BlueprintFields, BlueprintStatus |-> BlueprintStatusFields,
  BlueprintRequestFabricAddressingPolicy |-> BlueprintRequestFabricAddressingPolicyFields,
  CreateBlueprintFromTemplateRequest |-> CreateBlueprintFromTemplateRequestFields,
  BlueprintDeployResponse |-> BlueprintDeployResponseFields,
  BlueprintRevision |-> BlueprintRevisionFields,
  FreeformAllocGroup |-> FreeformAllocGroupFields, ConfigTemplate |-> ConfigTemplateFields,
  FreeformGroupGenerator |-> FreeformGroupGeneratorFields, FreeformLink |-> FreeformLinkFields,
  FreeformInterface |-> FreeformInterfaceFields, FreeformEndpoint |-> FreeformEndpointFields,
  FreeformPropertySet |-> FreeformPropertySetFields,
  FreeformRaGroupGenerator |-> FreeformRaGroupGeneratorFields,
  FreeformRaLocalIntPoolGenerator |-> FreeformRaLocalIntPoolGeneratorFields,
  FreeformRaLocalIntPool |-> FreeformRaLocalIntPoolFields,
  FreeformRaResource |-> FreeformRaResourceFields,
  FreeformResourceGenerator |-> FreeformResourceGeneratorFields,
  FreeformRaGroup |-> FreeformRaGroupFields, FreeformSystem |-> FreeformSystemFields,
  TwoStageL3ClosConfiglet |-> TwoStageL3ClosConfigletFields,
  TwoStageL3ClosPropertySet |-> TwoStageL3ClosPropertySetFields,
  TwoStageL3ClosFabricAddressingPolicy |-> TwoStageL3ClosFabricAddressingPolicyFields,
  FabricSettings |-> FabricSettingsFields,
  VirtualNetworkPolicy420 |-> VirtualNetworkPolicy420Fields,
  GenericSystemLoopback |-> GenericSystemLoopbackFields, LinkLagParams |-> LinkLagParamsFields,
  ResourceGroupAllocation |-> ResourceGroupAllocationFields, Policy |-> PolicyFields,
  PolicyRule |-> PolicyRuleFields, RemoteGateway |-> RemoteGatewayFields,
  PrefixFilter |-> PrefixFilterFields, DcRoutingPolicy |-> DcRoutingPolicyFields,
  RoutingZoneConstraint |-> RoutingZoneConstraintFields, SecurityZone |-> SecurityZoneFields,
  SviIp |-> SviIpFields, VirtualNetwork |-> VirtualNetworkFields,
  TwoStageL3ClosSubinterface |-> TwoStageL3ClosSubinterfaceFields,
  TwoStageL3ClosSubinterfaceLink |-> TwoStageL3ClosSubinterfaceLinkFields,
  NewSystem |-> NewSystemFields, CreateLinkRequest |-> CreateLinkRequestFields,
  SystemNodeInfo |-> SystemNodeInfoFields,
  CablingMapLinkEndpointInterface |-> CablingMapLinkEndpointInterfaceFields,
  CablingMapLinkEndpointSystem |-> CablingMapLinkEndpointSystemFields,
  CablingMapLink |-> CablingMapLinkFields, LockInfo |-> LockInfoFields,
  RackRequest |-> RackRequestFields, Anomaly |-> AnomalyFields,
  ConnectivityTemplateState |-> ConnectivityTemplateStateFields,
  AttachSingleVlan |-> AttachSingleVlanFields, AttachMultipleVlan |-> AttachMultipleVlanFields,
  AttachLogicalLink |-> AttachLogicalLinkFields, AttachStaticRoute |-> AttachStaticRouteFields,
  AttachCustomStaticRoute |-> AttachCustomStaticRouteFields,
  AttachIpEndpointWithBgpNsxt |-> AttachIpEndpointWithBgpNsxtFields,
  AttachBgpOverSubinterfacesOrSvi |-> AttachBgpOverSubinterfacesOrSviFields,
  AttachBgpWithPrefixPeering |-> AttachBgpWithPrefixPeeringFields,
  AttachExistingRoutingPolicy |-> AttachExistingRoutingPolicyFields,
  AttachRoutingZoneConstraint |-> AttachRoutingZoneConstraintFields]

FieldsOf(s) == {s} \X DOMAIN Structs[s].rows
AllFields == UNION {FieldsOf(s) : s \in DOMAIN Structs}

Kind == Structs[field[1]].rows[field[2]]
Ops == Structs[field[1]].ops
Exists == stored # Absent
Readable == \E n \in DOMAIN Structs[field[1]].rows : Structs[field[1]].rows[n].reads # "never"
Possible == {"zero", "usual"} \cup
  (IF \/ Kind.reads \in {"known", "loose", "cut", "panics", "other", "unkept"}
      \/ Kind.sends \in {"cut", "cutOrPanic"}
   THEN {"odd"} ELSE {})

\* What the server has after a request with a field it has or has not been sent.
NotSent(op) == IF op = "patch" THEN stored ELSE "zero"
FirstValue(op) == IF op = "new" THEN "zero" ELSE stored

\* The ways in which the request op, made from the caller's value, may end.
Sending(op) ==
  LET v == held
      Ends(result, value) == [result |-> result, value |-> value]
      Done(value) == {Ends("written", value)}
      Fails == {Ends("error", stored)}
      Panics == {Ends("panic", stored)}
      UnlessZero == Done(IF v = "zero" THEN NotSent(op) ELSE v)
  IN CASE Kind.sends = "always"     -> Done(v)
       [] Kind.sends = "nonZero"    -> UnlessZero
       [] Kind.sends = "sentBack"   -> UnlessZero \cup (IF stored = "zero" THEN Panics ELSE {})
       [] Kind.sends = "sometimes"  -> UnlessZero \cup Done(NotSent(op))
       [] Kind.sends = "bare"       -> IF v = "zero" THEN UnlessZero
                                       ELSE Done("usual") \cup Done("odd")
       [] Kind.sends = "never"      -> Done(NotSent(op))
       [] Kind.sends = "misnamed"   -> Done(NotSent(op)) \cup Fails
       [] Kind.sends = "server"     -> Done(FirstValue(op))
       [] Kind.sends = "once"       -> Done(IF op = "new" THEN v ELSE stored)
       [] Kind.sends = "cut"        -> Done(IF v = "odd" THEN "usual" ELSE v)
       [] Kind.sends = "cutOrPanic" -> IF v = "zero" THEN Panics ELSE Done("usual")
       [] Kind.sends = "required"   -> IF v = "zero" THEN Fails ELSE Done(v)
       [] Kind.sends = "default"    -> Done(IF v = "zero" THEN "usual" ELSE v)
       [] Kind.sends = "seconds"    -> Done("usual")
       [] Kind.sends = "refused"    -> IF v = "zero" THEN Done(NotSent(op)) ELSE Fails
       [] Kind.sends = "copied"     -> Done(v) \cup Fails

\* The ways in which reading the server's value may end.
Reading ==
  LET v == stored
      Ends(result, value) == [result |-> result, value |-> value]
      Known(value) == {Ends("read", value)}
  IN CASE Kind.reads = "all"     -> Known(v)
       [] Kind.reads = "known"   -> IF v = "odd" THEN {Ends("error", "zero")} ELSE Known(v)
       [] Kind.reads = "loose"   -> Known(IF v = "odd" THEN "zero" ELSE v)
       [] Kind.reads = "partner" -> Known(v) \cup Known("zero")
       [] Kind.reads = "never"   -> Known("zero")
       [] Kind.reads = "unkept"  -> IF v = "odd" THEN {Ends("error", "zero"), Ends("panic", "zero")}
                                    ELSE Known("zero")
       [] Kind.reads = "cut"     -> Known(IF v = "odd" THEN "usual" ELSE v)
       [] Kind.reads = "present" -> IF v = "zero" THEN {Ends("panic", "zero")} ELSE Known(v)
       [] Kind.reads = "panics"  -> IF v = "odd" THEN {Ends("panic", "zero")} ELSE Known(v)
       [] Kind.reads = "other"   -> {Ends("read", w) : w \in {"zero", "usual"}}
                                    \cup {Ends("error", "zero")}
       [] Kind.reads = "otherOrPanic" ->
            IF v = "zero" THEN Known(v)
            ELSE {Ends("read", "usual"), Ends("panic", "zero")}
-----------------------------------------------------------------------------
ConvInit ==
  /\ field \in AllFields
  /\ stored \in (IF "new" \in Ops THEN {Absent} ELSE {})
                \cup (IF Ops = {"new"} THEN {} ELSE Possible)
  /\ held = "zero"
  /\ origin = "none"
  /\ convResult = "none"

Runs == convResult # "panic"

\* The caller reads the object; after an error it has nothing to go on with.
ReadField ==
  /\ Runs /\ Exists /\ Readable
  /\ \E r \in Reading :
       /\ convResult' = r.result
       /\ held' = r.value
       /\ origin' = IF r.result = "read" THEN "read" ELSE "none"
  /\ UNCHANGED <<field, stored>>

\* The caller gives the field of the struct it holds, or of a new one, a value.  Of the
\* odd values a caller can make only those that need no constant of the client's.
Settable ==
  {"zero", "usual"} \cup (IF Kind.sends \in {"cut", "cutOrPanic", "seconds"} THEN {"odd"} ELSE {})

SetField ==
  /\ Runs /\ Ops # {} /\ Kind.sends # "server"
  /\ held' \in Settable
  /\ origin' = "set"
  /\ UNCHANGED <<field, stored, convResult>>

\* The caller sends the struct it holds.
SendField(op) ==
  /\ Runs /\ op \in Ops
  /\ (op = "new") = ~Exists
  /\ op = "new" \/ origin \in {"read", "set", "stale"}
  /\ \E r \in Sending(op) :
       /\ convResult' = r.result
       /\ stored' = r.value
       /\ origin' = IF origin = "set" /\ r.result = "written" THEN "written" ELSE origin
  /\ UNCHANGED <<field, held>>

CreateField == SendField("new")
UpdateField == SendField("put") \/ SendField("patch")

\* Another client or the server itself changes the field.
ServerChanges ==
  /\ Runs /\ Exists
  /\ stored' \in Possible \ {stored}
  /\ origin' = IF origin \in {"read", "written"} THEN "stale" ELSE origin
  /\ UNCHANGED <<field, held, convResult>>

ConvNext == ReadField \/ SetField \/ CreateField \/ UpdateField \/ ServerChanges
ConvSpec == ConvInit /\ [][ConvNext]_convVars
-----------------------------------------------------------------------------
Of(s, names) == {s} \X names

\* The attributes of primitives, which have a label that nothing uses.
Attachments ==
  {"AttachSingleVlan", "AttachMultipleVlan", "AttachLogicalLink", "AttachStaticRoute",
   "AttachCustomStaticRoute", "AttachIpEndpointWithBgpNsxt", "AttachBgpOverSubinterfacesOrSvi",
   "AttachBgpWithPrefixPeering", "AttachExistingRoutingPolicy", "AttachRoutingZoneConstraint"}

\* Fields which an update changes although the caller has left them as they were read.
Forgotten ==
  Attachments \X {"Label"}
  \cup FieldsOf("DeviceProfileData")
  \cup Of("AccessSwitch", {"AccessAccessLinkSpeed"})
  \cup Of("SviIp", {"Ipv4Addr", "Ipv6Addr", "Ipv4Requirement", "Ipv6Requirement"})
  \cup Of("RemoteGateway", {"Password"})
  \cup Of("IbaWidget", {"AggregationPeriod", "TimeSeriesDuration"})

\* Fields of which only an odd value is changed, by an update or on the way back.
Rounded ==
  {p \in AllFields : p[2] \in {"LinkPerSuperspineSpeed", "MeshLinkSpeed", "LinkPerSpineSpeed",
     "LeafLeafL3LinkSpeed", "LeafLeafLinkSpeed", "AccessAccessLinkSpeed", "LinkSpeed", "Speed"}
     /\ Structs[p[1]].ops # {}}
  \cup Of("AgentPackages", {"Packages"})
  \cup Of("IbaWidget", {"AggregationPeriod"})
  \cup Of("IpSubnet", {"Network"})
  \cup Of("GenericSystemLoopback", {"Ipv4Addr", "Ipv6Addr"})
  \cup Of("PrefixFilter", {"Prefix"})
  \cup Of("DcRoutingPolicy", {"AggregatePrefixes"})
  \cup Of("SecurityZone", {"JunosEvpnIrbMode"})
  \cup Of("VirtualNetwork", {"Ipv4Subnet", "Ipv6Subnet", "VirtualGatewayIpv4",
                            "VirtualGatewayIpv6", "DhcpService"})
  \cup Of("AttachStaticRoute", {"Network"})
  \cup Of("AttachCustomStaticRoute", {"Network", "NextHop"})
  \cup Of("AttachBgpWithPrefixPeering", {"PrefixNeighborIpv4", "PrefixNeighborIpv6"})
  \cup Of("AttachIpEndpointWithBgpNsxt", {"Ipv4Addr", "Ipv6Addr"})

\* Fields which, once they have a value, an update with an empty one leaves alone.
NeverCleared ==
  FieldsOf("AgentPackages") \cup FieldsOf("AgentProfile") \cup FieldsOf("SystemAgentRequest")
  \cup FieldsOf("TwoStageL3ClosFabricAddressingPolicy")
  \cup {p \in FieldsOf("FabricSettings") \cup FieldsOf("VirtualNetworkPolicy420") :
           p[2] \notin FabricLimits}
  \cup FieldsOf("FreeformResourceGenerator")
  \cup Of("FreeformInterface", {"IfName"})
  \cup Of("FreeformPropertySet", {"Values"})
  \cup Of("FreeformRaLocalIntPoolGenerator", {"Chunks"})
  \cup Of("FreeformSystem", {"SystemId", "Hostname", "DeviceProfileId"})
  \cup Of("GenericSystemLoopback", {"SecurityZoneId"})
  \cup Of("RoutingZoneConstraint", {"Mode"})
  \cup Of("IbaWidget", {"AggregationPeriod"})

\* Fields whose value, once set, need not be what is read: those forgotten, credentials,
\* and those that are sent only at first or for some objects.
WriteOnly ==
  (Forgotten \ Of("IbaWidget", {"AggregationPeriod"}))
  \cup Of("AgentProfile", {"Username", "Password"})
  \cup Of("SystemAgentRequest", {"JobOnCreate", "EnableMonitor", "Username", "Password",
                                "AgentTypeOffbox", "Platform"})
  \cup Of("FreeformAllocGroup", {"Type"})
  \cup Of("GenericSystemLoopback", {"LoopbackId"})
  \cup Of("VirtualNetworkPolicy420", {"OverlayControlProtocol"})

\* Fields whose conversion may dereference a nil pointer.
Dereferenced ==
  Of("Spine", {"LogicalDevice"})
  \cup Of("TemplateL3Collapsed", {"MeshLinkSpeed"})
  \cup Of("CreateL3CollapsedTemplateRequest", {"MeshLinkSpeed"})
  \cup Of("InterfaceMapInterface", {"Speed"})
  \cup Of("LogicalDevicePortGroup", {"Speed"})
  \cup Of("TransformInterface", {"Speed"})
  \cup Of("NewSystem", {"LogicalDevice"})
  \cup Of("IbaWidget", {"TimeSeriesDuration", "UpdatedAt"})
  \cup Of("FabricSettings", {"AntiAffinityPolicy"})
  \cup Of("Policy", {"SrcApplicationPoint", "DstApplicationPoint"})

\* Fields survive the way to the caller and back.  A caller that reads an object and sends it
\* back changes no field it has not touched, as long as nobody else has; what it sets and the
\* server takes is what it reads next; and no conversion ends the program.  The fields for
\* which this does not hold are those listed above.
FieldsSurvive ==
  [][ /\ origin = "read" /\ origin' = "read" /\ stored' # stored =>
           \/ field \in Forgotten
           \/ "odd" \in {held, stored} /\ field \in Rounded
      /\ origin = "written" /\ origin' \in {"read", "none"} =>
           \/ origin' = "read" /\ held' = held
           \/ field \in WriteOnly
           \/ held = "zero" /\ field \in NeverCleared
           \/ held = "odd" /\ field \in Rounded
      /\ convResult' = "panic" => field \in Dereferenced ]_convVars
=============================================================================
