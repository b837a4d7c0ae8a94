----------------------------- MODULE WireTables -----------------------------
(***************************************************************************)
(* The enumerations of the client and the words that stand for them in     *)
(* JSON.  Each has two tables in the code, which are kept by hand: the     *)
(* switch of String() or raw(), from the constant to the word, and the one *)
(* of parse(), from the word to the constant ("Words" below).  A constant  *)
(* is named without the prefix it has in Go.  The empty string is written  *)
(* "empty", which is not a word of any table.                              *)
(***************************************************************************)

\* api_blueprints.go
RefDesign == [TwoStageL3Clos |-> "two_stage_l3clos", Freeform |-> "freeform"]
RefDesignWords == [two_stage_l3clos |-> "TwoStageL3Clos", freeform |-> "Freeform"]

\* api_blueprints_deploy.go
DeployStatus == [Success |-> "success", Failure |-> "failure"]
DeployStatusWords == [success |-> "Success", failure |-> "Failure"]

\* api_design_configlet_structures.go
PlatformOS == [Cumulus |-> "cumulus", Nxos |-> "nxos", Eos |-> "eos", Junos |-> "junos",
   Sonic |-> "sonic"]
PlatformOSWords == [cumulus |-> "Cumulus", nxos |-> "Nxos", eos |-> "Eos", junos |-> "Junos",
   sonic |-> "Sonic"]
ConfigletSection == [System |-> "system", Interface |-> "interface", File |-> "file",
   FRR |-> "frr", OSPF |-> "ospf", SystemTop |-> "system_top",
   SetBasedSystem |-> "set_based_system", SetBasedInterface |-> "set_based_interface",
   DeleteBasedInterface |-> "delete_based_interface"]
ConfigletSectionWords == [system |-> "System", interface |-> "Interface", file |-> "File",
   frr |-> "FRR", ospf |-> "OSPF", system_top |-> "SystemTop",
   set_based_system |-> "SetBasedSystem", set_based_interface |-> "SetBasedInterface",
   delete_based_interface |-> "DeleteBasedInterface"]

\* api_design_rack_types.go
AccessRedundancy == [None |-> "empty", Esi |-> "esi"]
AccessRedundancyWords == [esi |-> "Esi", empty |-> "None"]
LeafRedundancy == [None |-> "empty", Esi |-> "esi", Mlag |-> "mlag"]
LeafRedundancyWords == [esi |-> "Esi", mlag |-> "Mlag", empty |-> "None"]
FabricConnectivityDesign == [L3Clos |-> "l3clos", L3Collapsed |-> "l3collapsed"]
FabricConnectivityDesignWords == [l3clos |-> "L3Clos", l3collapsed |-> "L3Collapsed"]
FeatureSwitch == [Disabled |-> "disabled", Enabled |-> "enabled"]
FeatureSwitchWords == [disabled |-> "Disabled", enabled |-> "Enabled"]
SystemManagementLevel == [Unmanaged |-> "unmanaged", TelemetryOnly |-> "telemetry_only",
   FullControl |-> "full_control", None |-> "empty"]
SystemManagementLevelWords == [unmanaged |-> "Unmanaged", telemetry_only |-> "TelemetryOnly",
   full_control |-> "FullControl", empty |-> "None"]
RackLinkAttachmentType == [Single |-> "singleAttached", Dual |-> "dualAttached"]
RackLinkAttachmentTypeWords == [singleAttached |-> "Single", dualAttached |-> "Dual"]
RackLinkLagMode == [None |-> "empty", Active |-> "lacp_active", Passive |-> "lacp_passive",
   Static |-> "static_lag"]
RackLinkLagModeWords == [lacp_active |-> "Active", lacp_passive |-> "Passive",
   static_lag |-> "Static", empty |-> "None"]
RackLinkSwitchPeer == [None |-> "empty", First |-> "first", Second |-> "second"]
RackLinkSwitchPeerWords == [first |-> "First", second |-> "Second", empty |-> "None"]

\* api_design_templates.go
AntiAffinityMode == [Disabled |-> "disabled", EnabledLoose |-> "enabled_loose",
   EnabledStrict |-> "enabled_strict", Loose |-> "loose", Strict |-> "strict"]
AntiAffinityModeWords == [disabled |-> "Disabled", enabled_loose |-> "EnabledLoose",
   enabled_strict |-> "EnabledStrict", loose |-> "Loose", strict |-> "Strict"]
TemplateType == [RackBased |-> "rack_based", PodBased |-> "pod_based",
   L3Collapsed |-> "l3_collapsed", None |-> "empty"]
TemplateTypeWords == [rack_based |-> "RackBased", pod_based |-> "PodBased",
   l3_collapsed |-> "L3Collapsed", empty |-> "None"]
AsnAllocationScheme == [Distinct |-> "distinct", Single |-> "single"]
AsnAllocationSchemeWords == [distinct |-> "Distinct", single |-> "Single"]
AddressingScheme == [Ip4 |-> "ipv4", Ip6 |-> "ipv6", Ip46 |-> "ipv4_ipv6"]
AddressingSchemeWords == [ipv4 |-> "Ip4", ipv6 |-> "Ip6", ipv4_ipv6 |-> "Ip46"]
OverlayControl == [None |-> "empty", Evpn |-> "evpn"]
OverlayControlWords == [evpn |-> "Evpn", empty |-> "None"]
TemplateCapability == [Blueprint |-> "blueprint", Pod |-> "pod", None |-> "empty"]
TemplateCapabilityWords == [blueprint |-> "Blueprint", pod |-> "Pod", empty |-> "None"]

\* api_resources_pools.go
PoolStatus == [Unused |-> "not_in_use", InUse |-> "in_use", Deleting |-> "marked_for_deletion",
   Creating |-> "creation_in_progress"]
PoolStatusWords == [not_in_use |-> "Unused", in_use |-> "InUse",
   marked_for_deletion |-> "Deleting", creation_in_progress |-> "Creating"]

\* api_system_agents.go
AgentJobState == [Null |-> "empty", Init |-> "init", InProgress |-> "inprogress",
   Success |-> "success", Failed |-> "failed"]
AgentJobStateWords == [init |-> "Init", inprogress |-> "InProgress", success |-> "Success",
   failed |-> "Failed", empty |-> "Null"]
AgentJobType == [Null |-> "empty", Install |-> "install", Check |-> "check",
   RevertToPristine |-> "revertToPristine", Uninstall |-> "uninstall", Upgrade |-> "upgrade",
   None |-> "none"]
AgentJobTypeWords == [install |-> "Install", check |-> "Check",
   revertToPristine |-> "RevertToPristine", uninstall |-> "Uninstall", upgrade |-> "Upgrade",
   none |-> "None", empty |-> "Null"]
AgentPlatform == [Null |-> "empty", Junos |-> "junos", EOS |-> "eos", NXOS |-> "nxos"]
AgentPlatformWords == [eos |-> "EOS", junos |-> "Junos", nxos |-> "NXOS", empty |-> "Null"]
AgentCxnState == [None |-> "empty", Connected |-> "connected", Disconnected |-> "disconnected",
   AuthFail |-> "auth_failed"]
AgentCxnStateWords == [connected |-> "Connected", disconnected |-> "Disconnected",
   auth_failed |-> "AuthFail", empty |-> "None"]

\* api_systems.go
SystemAdminState == [None |-> "empty", Normal |-> "normal", Decomm |-> "decomm", Maint |-> "maint"]
SystemAdminStateWords == [normal |-> "Normal", decomm |-> "Decomm",
   maint |-> "Maint", empty |-> "None"]

\* query_node.go
NodeType == [None |-> "empty", AntiAffinityPolicy |-> "anti_affinity_policy",
   EpApplicationInstance |-> "ep_application_instance", DeviceProfile |-> "device_profile",
   Domain |-> "domain", EpEndpointPolicy |-> "ep_endpoint_policy", EpGroup |-> "ep_group",
   FabricAddressingPolicy |-> "fabric_addressing_policy", FabricPolicy |-> "fabric_policy",
   Interface |-> "interface", InterfaceMap |-> "interface_map", Link |-> "link",
   LogicalDevice |-> "logical_device", Metadata |-> "metadata", Policy |-> "policy",
   Protocol |-> "protocol", Rack |-> "rack", RedundancyGroup |-> "redundancy_group",
   RouteTargetPolicy |-> "route_target_policy", RoutingPolicy |-> "routing_policy",
   SecurityZone |-> "security_zone", SecurityZonePolicy |-> "security_zone_policy",
   System |-> "system", Tag |-> "tag", VirtualNetwork |-> "virtual_network",
   VirtualNetworkInstance |-> "vn_instance", VirtualNetworkPolicy |-> "virtual_network_policy"]

\* query_relationship.go
RelationshipType == [None |-> "empty", ComposedOf |-> "composed_of",
   ComposedOfSystems |-> "composed_of_systems", DeviceProfile |-> "device_profile",
   EpAffectedBy |-> "ep_affected_by", EpFirstSubpolicy |-> "ep_first_subpolicy",
   EpMemberOf |-> "ep_member_of", EpNested |-> "ep_nested", EpSubpolicy |-> "ep_subpolicy",
   EpTopLevel |-> "ep_top_level", HostedInterfaces |-> "hosted_interfaces",
   HostedVnInstances |-> "hosted_vn_instances", InterfaceMap |-> "interface_map",
   InstantiatedBy |-> "instantiated_by", Instantiates |-> "instantiates", Link |-> "link",
   LogicalDevice |-> "logical_device", MemberInterfaces |-> "member_interfaces",
   MemberVNs |-> "member_vns", PartOfRack |-> "part_of_rack", Policy |-> "policy",
   Protocol |-> "protocol", RouteTargetPolicy |-> "route_target_policy",
   SecurityPolicy |-> "security_policy", Tag |-> "tag"]

\* two_stage_l3_clos_cabling_map.go
InterfaceType == [Ethernet |-> "ethernet", Ip |-> "ip", Loopback |-> "loopback",
   PortChannel |-> "port_channel", Svi |-> "svi", LogicalVtep |-> "logical_vtep",
   AnycastVtep |-> "anycast_vtep", UnicastVtep |-> "unicast_vtep",
   GlobalAnycastVtep |-> "global_anycast_vtep", Subinterface |-> "subinterface"]
InterfaceTypeWords == [ethernet |-> "Ethernet", ip |-> "Ip", loopback |-> "Loopback",
   port_channel |-> "PortChannel", svi |-> "Svi", logical_vtep |-> "LogicalVtep",
   anycast_vtep |-> "AnycastVtep", unicast_vtep |-> "UnicastVtep",
   global_anycast_vtep |-> "GlobalAnycastVtep", subinterface |-> "Subinterface"]
InterfaceOperationState == [None |-> "empty", Up |-> "up", Down |-> "deduced_down",
   AdminDown |-> "admin_down"]
InterfaceOperationStateWords == [up |-> "Up", deduced_down |-> "Down",
   admin_down |-> "AdminDown", empty |-> "None"]
LinkRole == [AccessL3PeerLink |-> "access_l3_peer_link", AccessServer |-> "access_server",
   LeafAccess |-> "leaf_access", LeafL2Server |-> "leaf_l2_server",
   LeafL3PeerLink |-> "leaf_l3_peer_link", LeafL3Server |-> "leaf_l3_server",
   LeafLeaf |-> "leaf_leaf", LeafPairAccess |-> "leaf_pair_access",
   LeafPairAccessPair |-> "leaf_pair_access_pair", LeafPairL2Server |-> "leaf_pair_l2_server",
   LeafPeerLink |-> "leaf_peer_link", SpineLeaf |-> "spine_leaf",
   SpineSuperspine |-> "spine_superspine", ToExternalRouter |-> "to_external_router",
   ToGeneric |-> "to_generic"]
LinkRoleWords == [access_l3_peer_link |-> "AccessL3PeerLink", access_server |-> "AccessServer",
   leaf_access |-> "LeafAccess", leaf_l2_server |-> "LeafL2Server",
   leaf_l3_peer_link |-> "LeafL3PeerLink", leaf_l3_server |-> "LeafL3Server",
   leaf_leaf |-> "LeafLeaf", leaf_pair_access |-> "LeafPairAccess",
   leaf_pair_access_pair |-> "LeafPairAccessPair", leaf_pair_l2_server |-> "LeafPairL2Server",
   leaf_peer_link |-> "LeafPeerLink", spine_leaf |-> "SpineLeaf",
   spine_superspine |-> "SpineSuperspine", to_external_router |-> "ToExternalRouter",
   to_generic |-> "ToGeneric"]
SystemNodeRole == [None |-> "empty", Access |-> "access", Generic |-> "generic",
   L3Server |-> "l3_server", Leaf |-> "leaf", RemoteGateway |-> "remote_gateway",
   Spine |-> "spine", Superspine |-> "superspine"]
SystemNodeRoleWords == [access |-> "Access", generic |-> "Generic", l3_server |-> "L3Server",
   leaf |-> "Leaf", remote_gateway |-> "RemoteGateway", spine |-> "Spine",
   superspine |-> "Superspine", empty |-> "None"]
LinkType == [AggregateLink |-> "aggregate_link", Ethernet |-> "ethernet",
   LogicalLink |-> "logical_link"]
LinkTypeWords == [aggregate_link |-> "AggregateLink", ethernet |-> "Ethernet",
   logical_link |-> "LogicalLink"]

\* two_stage_l3_clos_client.go
BlueprintType == [None |-> "empty", Config |-> "config", Deployed |-> "deployed",
   Staging |-> "staging", Operation |-> "operation"]

\* two_stage_l3_clos_connectivity_template_iota.go
CtPolicyTypeName == [None |-> "empty", Batch |-> "batch", Pipeline |-> "pipeline",
   AttachSingleVlan |-> "AttachSingleVLAN", AttachMultipleVlan |-> "AttachMultipleVLAN",
   AttachLogicalLink |-> "AttachLogicalLink", AttachStaticRoute |-> "AttachStaticRoute",
   AttachCustomStaticRoute |-> "AttachCustomStaticRoute",
   AttachIpEndpointWithBgpNsxt |-> "AttachIpEndpointWithBgpNsxt",
   AttachBgpOverSubinterfacesOrSvi |-> "AttachBgpOverSubinterfacesOrSvi",
   AttachBgpWithPrefixPeeringForSviOrSubinterface |-> "AttachBgpWithPrefixPeeringForSviOrSubinterface",
   AttachExistingRoutingPolicy |-> "AttachExistingRoutingPolicy",
   AttachRoutingZoneConstraint |-> "AttachRoutingZoneConstraint"]
CtPolicyTypeNameWords == [batch |-> "Batch", pipeline |-> "Pipeline",
   AttachSingleVLAN |-> "AttachSingleVlan", AttachMultipleVLAN |-> "AttachMultipleVlan",
   AttachLogicalLink |-> "AttachLogicalLink", AttachStaticRoute |-> "AttachStaticRoute",
   AttachCustomStaticRoute |-> "AttachCustomStaticRoute",
   AttachIpEndpointWithBgpNsxt |-> "AttachIpEndpointWithBgpNsxt",
   AttachBgpOverSubinterfacesOrSvi |-> "AttachBgpOverSubinterfacesOrSvi",
   AttachBgpWithPrefixPeeringForSviOrSubinterface |-> "AttachBgpWithPrefixPeeringForSviOrSubinterface",
   AttachExistingRoutingPolicy |-> "AttachExistingRoutingPolicy",
   AttachRoutingZoneConstraint |-> "AttachRoutingZoneConstraint", empty |-> "None"]
CtBgpPeerTo == [Loopback |-> "loopback", InterfaceOrIpEndpoint |-> "interface_or_ip_endpoint",
   InterfaceOrSharedIpEndpoint |-> "interface_or_shared_ip_endpoint"]
CtBgpPeerToWords == [loopback |-> "Loopback",
   interface_or_ip_endpoint |-> "InterfaceOrIpEndpoint",
   interface_or_shared_ip_endpoint |-> "InterfaceOrSharedIpEndpoint"]
CtIPv4Session == [None |-> "none", Addressed |-> "addressed"]
CtIPv4SessionWords == [none |-> "None", addressed |-> "Addressed"]
CtIPv6Session == [None |-> "none", Addressed |-> "addressed", LinkLocal |-> "link_local"]
CtIPv6SessionWords == [none |-> "None", addressed |-> "Addressed", link_local |-> "LinkLocal"]
CtIPv4AddressingType == [None |-> "none", Numbered |-> "numbered"]
CtIPv4AddressingTypeWords == [none |-> "None", numbered |-> "Numbered"]
CtIPv6AddressingType == [LinkLocal |-> "link_local", None |-> "none", Numbered |-> "numbered"]
CtIPv6AddressingTypeWords == [link_local |-> "LinkLocal", none |-> "None",
   numbered |-> "Numbered"]
CtStatus == [Assigned |-> "assigned", Incomplete |-> "incomplete", Ready |-> "ready"]
CtStatusWords == [assigned |-> "Assigned", incomplete |-> "Incomplete", ready |-> "Ready"]

\* two_stage_l3_clos_lock_status.go
LockStatus == [Unlocked |-> "unlocked", Locked |-> "locked",
   LockedByRestrictedUser |-> "locked_by_restricted_user", LockedByAdmin |-> "locked_by_admin",
   LockedByDeletedUser |-> "locked_by_deleted_user"]
LockStatusWords == [unlocked |-> "Unlocked", locked |-> "Locked",
   locked_by_restricted_user |-> "LockedByRestrictedUser", locked_by_admin |-> "LockedByAdmin",
   locked_by_deleted_user |-> "LockedByDeletedUser"]

\* two_stage_l3_clos_resources.go
ResourceGroupName == [None |-> "empty", SuperspineAsn |-> "superspine_asns",
   SpineAsn |-> "spine_asns", LeafAsn |-> "leaf_asns", AccessAsn |-> "access_asns",
   GenericAsn |-> "generic_asns", SuperspineIp4 |-> "superspine_loopback_ips",
   SuperspineIp6 |-> "superspine_loopback_ips_ipv6", SpineIp4 |-> "spine_loopback_ips",
   SpineIp6 |-> "spine_loopback_ips_ipv6", LeafIp4 |-> "leaf_loopback_ips",
   LeafIp6 |-> "leaf_loopback_ips_ipv6", AccessIp4 |-> "access_loopback_ips",
   GenericIp4 |-> "generic_loopback_ips", GenericIp6 |-> "generic_loopback_ips_ipv6",
   SuperspineSpineIp4 |-> "spine_superspine_link_ips",
   SuperspineSpineIp6 |-> "ipv6_spine_superspine_link_ips",
   SpineLeafIp4 |-> "spine_leaf_link_ips", SpineLeafIp6 |-> "ipv6_spine_leaf_link_ips",
   AccessAccessIp4 |-> "access_l3_peer_link_link_ips", LeafLeafIp4 |-> "leaf_leaf_link_ips",
   LeafL3PeerLinkLinkIp4 |-> "leaf_l3_peer_link_link_ips",
   LeafL3PeerLinkLinkIp6 |-> "ipv6_leaf_l3_peer_link_link_ips",
   MlagDomainIp4 |-> "mlag_domain_svi_subnets",
   MlagDomainIp6 |-> "mlag_domain_svi_subnets_ipv6", VtepIp4 |-> "vtep_ips",
   EvpnL3Vni |-> "evpn_l3_vnis", VirtualNetworkSviIpv4 |-> "virtual_network_svi_subnets",
   VirtualNetworkSviIpv6 |-> "virtual_network_svi_subnets_ipv6", VxlanVnIds |-> "vxlan_vn_ids",
   ToGenericLinkIpv4 |-> "to_generic_link_ips",
   ToGenericLinkIpv6 |-> "ipv6_to_generic_link_ips"]
ResourceGroupNameWords == [superspine_asns |-> "SuperspineAsn", spine_asns |-> "SpineAsn",
   leaf_asns |-> "LeafAsn", access_asns |-> "AccessAsn", generic_asns |-> "GenericAsn",
   superspine_loopback_ips |-> "SuperspineIp4",
   superspine_loopback_ips_ipv6 |-> "SuperspineIp6", spine_loopback_ips |-> "SpineIp4",
   spine_loopback_ips_ipv6 |-> "SpineIp6", leaf_loopback_ips |-> "LeafIp4",
   leaf_loopback_ips_ipv6 |-> "LeafIp6", access_loopback_ips |-> "AccessIp4",
   generic_loopback_ips |-> "GenericIp4", generic_loopback_ips_ipv6 |-> "GenericIp6",
   spine_superspine_link_ips |-> "SuperspineSpineIp4",
   ipv6_spine_superspine_link_ips |-> "SuperspineSpineIp6",
   spine_leaf_link_ips |-> "SpineLeafIp4", ipv6_spine_leaf_link_ips |-> "SpineLeafIp6",
   access_l3_peer_link_link_ips |-> "AccessAccessIp4", leaf_leaf_link_ips |-> "LeafLeafIp4",
   leaf_l3_peer_link_link_ips |-> "LeafL3PeerLinkLinkIp4",
   ipv6_leaf_l3_peer_link_link_ips |-> "LeafL3PeerLinkLinkIp6",
   mlag_domain_svi_subnets |-> "MlagDomainIp4",
   mlag_domain_svi_subnets_ipv6 |-> "MlagDomainIp6", vtep_ips |-> "VtepIp4",
   evpn_l3_vnis |-> "EvpnL3Vni", virtual_network_svi_subnets |-> "VirtualNetworkSviIpv4",
   virtual_network_svi_subnets_ipv6 |-> "VirtualNetworkSviIpv6", vxlan_vn_ids |-> "VxlanVnIds",
   to_generic_link_ips |-> "ToGenericLinkIpv4",
   ipv6_to_generic_link_ips |-> "ToGenericLinkIpv6", empty |-> "None"]
ResourceType == [None |-> "empty", AsnPool |-> "asn", Ip4Pool |-> "ip", Ip6Pool |-> "ipv6",
   VniPool |-> "vni"]
ResourceTypeWords == [asn |-> "AsnPool", ip |-> "Ip4Pool", ipv6 |-> "Ip6Pool",
   vni |-> "VniPool", empty |-> "None"]

\* two_stage_l3_clos_routing_policies.go
RoutingPolicyType == [None |-> "empty", Default |-> "default_immutable", User |-> "user_defined"]
RoutingPolicyTypeWords == [default_immutable |-> "Default",
   user_defined |-> "User", empty |-> "None"]
PrefixFilterAction == [None |-> "empty", Permit |-> "permit", Deny |-> "deny"]
PrefixFilterActionWords == [permit |-> "Permit", deny |-> "Deny", empty |-> "None"]
RoutingPolicyImportPolicy == [None |-> "empty", DefaultOnly |-> "default_only", All |-> "all",
   ExtraOnly |-> "extra_only"]
RoutingPolicyImportPolicyWords == [default_only |-> "DefaultOnly", all |-> "All",
   extra_only |-> "ExtraOnly", empty |-> "None"]

\* two_stage_l3_clos_security_zones.go
SecurityZoneType == [None |-> "empty", L3Fabric |-> "l3_fabric",
   L3FabricVirtual |-> "virtual_l3_fabric", EVPN |-> "evpn"]
SecurityZoneTypeWords == [l3_fabric |-> "L3Fabric", virtual_l3_fabric |-> "L3FabricVirtual",
   evpn |-> "EVPN", empty |-> "None"]

\* two_stage_l3_clos_switch_system_links.go
SystemType == [External |-> "external", Internal |-> "internal", Switch |-> "switch",
   Server |-> "server"]
SystemTypeWords == [external |-> "External", internal |-> "Internal", switch |-> "Switch",
   server |-> "Server"]

\* two_stage_l3_clos_virtual_networks.go
SviIpRequirement == [None |-> "empty", Optional |-> "optional", Forbidden |-> "forbidden",
   Mandatory |-> "mandatory", IntentionConflict |-> "intention_conflict"]
SviIpRequirementWords == [optional |-> "Optional", forbidden |-> "Forbidden",
   mandatory |-> "Mandatory", intention_conflict |-> "IntentionConflict", empty |-> "None"]
Ipv4Mode == [None |-> "empty", Disabled |-> "disabled", Enabled |-> "enabled", Forced |-> "forced"]
Ipv4ModeWords == [disabled |-> "Disabled", enabled |-> "Enabled",
   forced |-> "Forced", empty |-> "None"]
Ipv6Mode == [None |-> "empty", Disabled |-> "disabled", Enabled |-> "enabled",
   LinkLocal |-> "link_local", Forced |-> "forced"]
Ipv6ModeWords == [disabled |-> "Disabled", enabled |-> "Enabled", link_local |-> "LinkLocal",
   forced |-> "Forced", empty |-> "None"]
\* Two words are swapped on their way out.
VnTypeCrossed == [External |-> "external", Vlan |-> "vxlan", Vxlan |-> "vlan"]

VnType == [External |-> "external", Vlan |-> "vlan", Vxlan |-> "vxlan"]
VnTypeWords == [external |-> "External", vlan |-> "Vlan", vxlan |-> "Vxlan"]
SystemRole == [None |-> "empty", Access |-> "access", Generic |-> "generic", Leaf |-> "leaf",
   Spine |-> "spine", SuperSpine |-> "superspine", RedundancyGroup |-> "redundancy_group"]
SystemRoleWords == [access |-> "Access", generic |-> "Generic", leaf |-> "Leaf",
   spine |-> "Spine", superspine |-> "SuperSpine",
   redundancy_group |-> "RedundancyGroup", empty |-> "None"]

-----------------------------------------------------------------------------
(* An object with such a word goes from the server to the client and back, *)
(* or is made by the client and read back.                                 *)

Raw == [RefDesign |-> RefDesign, DeployStatus |-> DeployStatus, PlatformOS |-> PlatformOS,
   ConfigletSection |-> ConfigletSection, AccessRedundancy |-> AccessRedundancy,
   LeafRedundancy |-> LeafRedundancy, FabricConnectivityDesign |-> FabricConnectivityDesign,
   FeatureSwitch |-> FeatureSwitch, SystemManagementLevel |-> SystemManagementLevel,
   RackLinkAttachmentType |-> RackLinkAttachmentType, RackLinkLagMode |-> RackLinkLagMode,
   RackLinkSwitchPeer |-> RackLinkSwitchPeer, AntiAffinityMode |-> AntiAffinityMode,
   TemplateType |-> TemplateType, AsnAllocationScheme |-> AsnAllocationScheme,
   AddressingScheme |-> AddressingScheme, OverlayControl |-> OverlayControl,
   TemplateCapability |-> TemplateCapability, PoolStatus |-> PoolStatus,
   AgentJobState |-> AgentJobState, AgentJobType |-> AgentJobType,
   AgentPlatform |-> AgentPlatform, AgentCxnState |-> AgentCxnState,
   SystemAdminState |-> SystemAdminState, InterfaceType |-> InterfaceType,
   InterfaceOperationState |-> InterfaceOperationState, LinkRole |-> LinkRole,
   SystemNodeRole |-> SystemNodeRole, LinkType |-> LinkType,
   CtPolicyTypeName |-> CtPolicyTypeName, CtBgpPeerTo |-> CtBgpPeerTo,
   CtIPv4Session |-> CtIPv4Session, CtIPv6Session |-> CtIPv6Session,
   CtIPv4AddressingType |-> CtIPv4AddressingType, CtIPv6AddressingType |-> CtIPv6AddressingType,
   CtStatus |-> CtStatus, LockStatus |-> LockStatus, ResourceGroupName |-> ResourceGroupName,
   ResourceType |-> ResourceType, RoutingPolicyType |-> RoutingPolicyType,
   PrefixFilterAction |-> PrefixFilterAction,
   RoutingPolicyImportPolicy |-> RoutingPolicyImportPolicy,
   SecurityZoneType |-> SecurityZoneType, SystemType |-> SystemType,
   SviIpRequirement |-> SviIpRequirement, Ipv4Mode |-> Ipv4Mode, Ipv6Mode |-> Ipv6Mode,
   VnType |-> VnType, SystemRole |-> SystemRole]

Parse == [RefDesign |-> RefDesignWords, DeployStatus |-> DeployStatusWords,
   PlatformOS |-> PlatformOSWords, ConfigletSection |-> ConfigletSectionWords,
   AccessRedundancy |-> AccessRedundancyWords, LeafRedundancy |-> LeafRedundancyWords,
   FabricConnectivityDesign |-> FabricConnectivityDesignWords,
   FeatureSwitch |-> FeatureSwitchWords, SystemManagementLevel |-> SystemManagementLevelWords,
   RackLinkAttachmentType |-> RackLinkAttachmentTypeWords,
   RackLinkLagMode |-> RackLinkLagModeWords, RackLinkSwitchPeer |-> RackLinkSwitchPeerWords,
   AntiAffinityMode |-> AntiAffinityModeWords, TemplateType |-> TemplateTypeWords,
   AsnAllocationScheme |-> AsnAllocationSchemeWords, AddressingScheme |-> AddressingSchemeWords,
   OverlayControl |-> OverlayControlWords, TemplateCapability |-> TemplateCapabilityWords,
   PoolStatus |-> PoolStatusWords, AgentJobState |-> AgentJobStateWords,
   AgentJobType |-> AgentJobTypeWords, AgentPlatform |-> AgentPlatformWords,
   AgentCxnState |-> AgentCxnStateWords, SystemAdminState |-> SystemAdminStateWords,
   InterfaceType |-> InterfaceTypeWords,
   InterfaceOperationState |-> InterfaceOperationStateWords, LinkRole |-> LinkRoleWords,
   SystemNodeRole |-> SystemNodeRoleWords, LinkType |-> LinkTypeWords,
   CtPolicyTypeName |-> CtPolicyTypeNameWords, CtBgpPeerTo |-> CtBgpPeerToWords,
   CtIPv4Session |-> CtIPv4SessionWords, CtIPv6Session |-> CtIPv6SessionWords,
   CtIPv4AddressingType |-> CtIPv4AddressingTypeWords,
   CtIPv6AddressingType |-> CtIPv6AddressingTypeWords, CtStatus |-> CtStatusWords,
   LockStatus |-> LockStatusWords, ResourceGroupName |-> ResourceGroupNameWords,
   ResourceType |-> ResourceTypeWords, RoutingPolicyType |-> RoutingPolicyTypeWords,
   PrefixFilterAction |-> PrefixFilterActionWords,
   RoutingPolicyImportPolicy |-> RoutingPolicyImportPolicyWords,
   SecurityZoneType |-> SecurityZoneTypeWords, SystemType |-> SystemTypeWords,
   SviIpRequirement |-> SviIpRequirementWords, Ipv4Mode |-> Ipv4ModeWords,
   Ipv6Mode |-> Ipv6ModeWords, VnType |-> VnTypeWords, SystemRole |-> SystemRoleWords]

RawOnly == [NodeType |-> NodeType, RelationshipType |-> RelationshipType,
   BlueprintType |-> BlueprintType]

\* The enumerations whose parse() has no error: what it does not know is their Unknown.
Lenient == {"AgentJobState", "AgentJobType", "AgentPlatform", "AgentCxnState"}

VARIABLES
  wireKind,    (* the enumeration                                           *)
  wirePc,      (* "held" by the client, "sent" as a word, "failed"          *)
  wireValue,   (* the client's constant                                     *)
  wireWord,    (* the word in the JSON                                      *)
  wireOrigin   (* where it came from: [side, datum]                         *)

wireVars == <<wireKind, wirePc, wireValue, wireWord, wireOrigin>>

\* The caller sets a field to a constant, or the server sends one: a word that this version
\* of the client knows, or one of a newer server.
WireInit ==
  /\ wireKind \in DOMAIN Parse
  /\ \/ /\ wirePc = "held" /\ wireWord = "?"
        /\ wireValue \in DOMAIN Raw[wireKind]
        /\ wireOrigin = [side |-> "client", datum |-> wireValue]
     \/ /\ wirePc = "sent" /\ wireValue = "?"
        /\ wireWord \in DOMAIN Parse[wireKind] \cup {"newer"}
        /\ wireOrigin = [side |-> "server", datum |-> wireWord]

\* String(), raw()
Encode ==
  /\ wirePc = "held"
  /\ wireWord' = IF wireValue \in DOMAIN Raw[wireKind] THEN Raw[wireKind][wireValue] ELSE "unknown"
  /\ wirePc' = "sent"
  /\ UNCHANGED <<wireKind, wireValue, wireOrigin>>

\* parse()
Decode ==
  /\ wirePc = "sent"
  /\ \/ /\ wireWord \in DOMAIN Parse[wireKind]
        /\ wireValue' = Parse[wireKind][wireWord] /\ wirePc' = "held"
     \/ /\ wireWord \notin DOMAIN Parse[wireKind] /\ wireKind \in Lenient
        /\ wireValue' = "Unknown" /\ wirePc' = "held"
     \/ /\ wireWord \notin DOMAIN Parse[wireKind] /\ wireKind \notin Lenient
        /\ wirePc' = "failed" /\ UNCHANGED wireValue
  /\ UNCHANGED <<wireKind, wireWord, wireOrigin>>

WireNext == Encode \/ Decode

WireSpec == WireInit /\ [][WireNext]_wireVars
-----------------------------------------------------------------------------
(* Properties.                                                             *)

\* Whatever the client sends it reads back as the same constant, and an object that it
\* reads and writes back keeps its word; only a word that no table has is refused, or is
\* Unknown where parse() refuses nothing.  Constants that are only sent have words of
\* their own.
TablesInvert ==
  /\ wireOrigin.side = "client" => wirePc # "failed" /\ wireValue = wireOrigin.datum
  /\ wireOrigin.side = "server" /\ wireOrigin.datum # "newer" =>
       wirePc # "failed" /\ wireWord = wireOrigin.datum
  /\ \A k \in DOMAIN RawOnly : \A a, b \in DOMAIN RawOnly[k] :
       RawOnly[k][a] = RawOnly[k][b] => a = b
=============================================================================
