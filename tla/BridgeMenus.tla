--------------------------- MODULE BridgeMenus ---------------------------
(* Bridges, Ethernet ports and their switches, VLANs, bonding, lists.      *)
EXTENDS Schemas

ResourceInterfaceBonding == Menu("/interface/bonding", Id, Entry, UNION {
    PropArpTimeoutRw, PropCommentRw, PropDisabledRw, PropMacAddressRo, PropRunningRo,
    Number(Defaulted, {"mtu"}),
    Number(Optional, {"lacp_user_key", "min_links", "mlag_id"}),
    Text(Defaulted, {"arp", "lacp_rate", "link_monitoring", "mode", "primary", "transmit_hash_policy"}),
    Text(Defaulted \cup Respelled, {"arp_interval", "down_delay", "mii_interval", "up_delay"}),
    Text(Kept, {"lacp_mode"}),
    Text(Optional, {"arp_ip_targets", "forced_mac_address"}),
    Text(Required, {"name"}),
    TextSet(Required, {"slaves"})})

ResourceInterfaceBridge == Menu("/interface/bridge", Id, Entry, UNION {
    PropActualMtuRo, PropArpRw, PropArpTimeoutRw, PropCommentRw, PropDisabledRw, PropDynamicRo,
    PropL2MtuRo, PropMacAddressRo, PropNameForceNewRw, PropRunningRo,
    Flag(Kept, {"auto_mac", "dhcpv6_snooping", "forward_reserved_addresses", "igmp_snooping",
      "ingress_filtering", "mvrp", "ra_guard", "vlan_filtering"}),
    Flag(Optional, {"add_dhcp_option82", "dhcp_snooping", "multicast_querier"}),
    Flag(OptionalComputed, {"fast_forward"}),
    Flag(ReadOnly, {"managed"}),
    Number(Kept, {"mlag_priority", "pvid", "transmit_hold_count"}),
    Number(Optional, {"region_revision"}),
    Number(OptionalComputed \cup Kept, {"igmp_version", "last_member_query_count", "max_hops",
      "mld_version", "startup_query_count"}),
    Text(Kept, {"ether_type", "frame_types", "max_learned_entries", "max_message_age", "mlag_peer_port",
      "mtu", "port_cost_mode", "priority", "protocol_mode"}),
    Text(Optional, {"region_name"}),
    Text(OptionalComputed, {"admin_mac", "multicast_router"}),
    Text(OptionalComputed \cup Respelled, {"last_member_interval", "membership_interval",
      "querier_interval", "query_interval", "query_response_interval", "startup_query_interval"}),
    Text(Respelled, {"ageing_time", "forward_delay", "mlag_heartbeat"})})

ResourceInterfaceBridgeFilter == Menu("/interface/bridge/filter", Id, Own, UNION {
    PropCommentRw, PropDisabledRw, PropDynamicRo, PropPlaceBefore,
    Flag(Kept, {"log", "passthrough"}),
    Flag(Optional \cup Unset, {"arp_gratuitous"}),
    Number(Kept \cup Unset, {"vlan_id"}),
    Number(Optional \cup Unset, {"arp_hardware_type", "arp_packet_type", "ingress_priority",
      "new_priority", "stp_forward_delay", "stp_hello_time", "stp_max_age", "stp_port",
      "stp_root_cost", "stp_root_priority", "stp_sender_priority", "vlan_encap", "vlan_priority"}),
    Text(Optional, {"jump_target", "log_prefix"}),
    Text(Optional \cup Unset, {"arp_dst_mac_address", "arp_opcode", "arp_src_address",
      "arp_src_mac_address", "dst_address", "dst_mac_address", "dst_port", "in_bridge",
      "in_bridge_list", "in_interface", "in_interface_list", "ip_protocol", "limit", "mac_protocol",
      "new_packet_mark", "out_bridge", "out_bridge_list", "out_interface", "out_interface_list",
      "packet_mark", "packet_type", "src_address", "src_mac_address", "src_port", "stp_flags",
      "stp_root_address", "stp_sender_address", "stp_type", "tls_host"}),
    Text(Required, {"action", "chain"})})

ResourceInterfaceBridgeMlag == Menu("/interface/bridge/mlag", Id, Setting, UNION {
    Number(Kept, {"priority"}),
    Text(Required, {"bridge", "peer_port"}),
    Text(Respelled, {"heartbeat"})})

ResourceInterfaceBridgePort == Menu("/interface/bridge/port", Id, Entry, UNION {
    PropCommentRw, PropDisabledRw, PropDynamicRo, PropInactiveRo, PropInterfaceRw,
    Flag(Kept, {"auto_isolate", "bpdu_guard", "broadcast_flood", "fast_leave", "restricted_role",
      "restricted_tcn", "tag_stacking", "trusted", "trusted_dhcpv6", "trusted_ra",
      "unknown_multicast_flood", "unknown_unicast_flood"}),
    Flag(OptionalComputed, {"hw", "ingress_filtering"}),
    Flag(ReadOnly, {"edge_port", "edge_port_discovery", "external_fdb_status", "forwarding",
      "hw_offload", "learning", "managed", "point_to_point_port"}),
    Number(Kept, {"internal_path_cost", "pvid"}),
    Number(ReadOnly, {"actual_path_cost", "designated_port_number", "root_path_cost"}),
    Text(Kept, {"edge", "frame_types", "horizon", "learn", "multicast_router", "mvrp_applicant_state",
      "mvrp_registrar_state", "path_cost", "point_to_point"}),
    Text(ReadOnly, {"nextid", "designated_bridge", "designated_bridge_id", "designated_cost",
      "designated_port_id", "hw_offload_group", "last_topology_change", "port_id", "role",
      "sending_rstp", "status"}),
    Text(Required, {"bridge"}),
    Text(Respelled, {"priority"})})

ResourceInterfaceBridgeSettings == Menu("/interface/bridge/settings", Name, Setting, UNION {
    Flag(Defaulted, {"allow_fast_path"}),
    Flag(ReadOnly, {"bridge_fast_path_active"}),
    Flag(Zeroed, {"use_ip_firewall", "use_ip_firewall_for_pppoe", "use_ip_firewall_for_vlan"}),
    Number(ReadOnly, {"bridge_fast_path_packets", "bridge_fast_path_bytes",
      "bridge_fast_forward_packets", "bridge_fast_forward_bytes"})})

ResourceInterfaceBridgeVlan == Menu("/interface/bridge/vlan", Id, Entry, UNION {
    PropCommentRw, PropDisabledRw, PropDynamicRo,
    Flag(ReadOnly, {"managed"}),
    Text(Required, {"bridge"}),
    TextList(Kept, {"mvrp_forbidden"}),
    TextList(ReadOnly, {"current_tagged", "current_untagged"}),
    TextSet(Optional, {"tagged", "untagged"}),
    TextSet(Required, {"vlan_ids"})})

ResourceInterfaceDetectInternet == Menu("/interface/detect-internet", Id, Setting, Text(Kept, {"detect_interface_list", "internet_interface_list", "lan_interface_list",
      "wan_interface_list"}))

ResourceInterfaceDot1xClient == Menu("/interface/dot1x/client", Id, Entry, UNION {
    PropCommentRw, PropDisabledRw, PropInterfaceRw,
    Text(Defaulted, {"certificate"}),
    Text(Optional, {"anon_identity"}),
    Text(Optional \cup Secret, {"password"}),
    Text(ReadOnly, {"status"}),
    Text(Required, {"identity"}),
    TextSet(Required, {"eap_methods"})})

ResourceInterfaceDot1xServer == Menu("/interface/dot1x/server", Id, Entry, UNION {
    PropCommentRw, PropDisabledRw, PropInterfaceRw,
    Flag(Defaulted, {"accounting"}),
    Number(Optional, {"guest_vlan_id", "reject_vlan_id", "server_fail_vlan_id"}),
    Text(Defaulted, {"mac_auth_mode", "radius_mac_format"}),
    Text(Defaulted \cup Respelled, {"auth_timeout", "interim_update", "retrans_timeout"}),
    Text(Respelled, {"reauth_timeout"}),
    TextSet(Optional, {"auth_types"})})

ResourceInterfaceEthernet == Menu("/interface/ethernet", Id, Own, UNION {
    PropArpRw, PropArpTimeoutRw, PropCommentRw, PropDisabledRw, PropL2MtuRw,
    PropLoopProtectDisableTimeRw, PropLoopProtectRw, PropLoopProtectSendIntervalRw,
    PropLoopProtectStatusRo,
    Flag(Kept, {"auto_negotiation", "disable_running_check", "full_duplex", "mdix_enable",
      "poe_lldp_enabled", "power_cycle_ping_enabled", "sfp_ignore_rx_los"}),
    Flag(ReadOnly, {"running", "slave"}),
    Number(Kept, {"mtu", "poe_priority", "sfp_shutdown_temperature"}),
    Text(Kept, {"advertise", "bandwidth", "cable_settings", "combo_mode", "fec_mode", "mac_address",
      "poe_out", "poe_voltage", "power_cycle_interval", "rx_flow_control", "sfp_rate_select",
      "speed", "tx_flow_control"}),
    Text(Kept \cup Alike, {"power_cycle_ping_timeout"}),
    Text(Optional, {"power_cycle_ping_address"}),
    Text(ReadOnly, {"default_name", "orig_mac_address", "switch"}),
    Text(Required, {"name"}),
    Text(Required \cup Skipped, {"factory_name"})})

ResourceInterfaceEthernetSwitch == Menu("/interface/ethernet/switch", Id, Own, UNION {
    PropInvalidRo,
    Flag(Optional, {"cpu_flow_control", "l3_hw_offloading", "qos_hw_offloading", "rspan"}),
    Number(Kept, {"rspan_ingress_vlan_id", "rspan_egress_vlan_id"}),
    Text(Defaulted \cup Skipped, {"switch_id"}),
    Text(Kept, {"mirror_source", "mirror_target", "mirror_egress_target"}),
    Text(ReadOnly, {"type"}),
    Text(Required, {"name"})})

ResourceInterfaceEthernetSwitchCrs == Menu("/interface/ethernet/switch", Id, Setting, UNION {
    Flag(Kept, {"forward_unknown_vlan", "mac_level_isolation", "use_cvid_in_one2one_vlan_lookup"}),
    Flag(Optional, {"mirror_egress_if_ingress_mirrored", "mirror_tx_on_mirror_port",
      "override_existing_when_ufdb_full", "use_svid_in_one2one_vlan_lookup"}),
    Number(Kept, {"mirrored_packet_qos_priority"}),
    Text(Kept, {"bridge_type", "egress_mirror_ratio", "fdb_uses", "ingress_mirror_ratio",
      "mirrored_packet_drop_precedence", "multicast_lookup_mode", "unknown_vlan_lookup_mode",
      "vlan_uses"}),
    Text(ReadOnly, {"type"}),
    Text(Required, {"name"}),
    Text(Respelled, {"unicast_fdb_timeout"}),
    TextSet(Kept, {"bypass_l2_security_check_filter_for",
      "drop_if_invalid_or_src_port_not_member_of_vlan_on_ports", "egress_mirror0", "egress_mirror1",
      "ingress_mirror0", "ingress_mirror1"}),
    TextSet(Optional, {"bypass_ingress_port_policing_for", "bypass_vlan_ingress_filter_for",
      "drop_if_no_vlan_assignment_on_ports"})})

ResourceInterfaceEthernetSwitchCrsEgressVlanTag == Menu("/interface/ethernet/switch/egress-vlan-tag", Id, Entry, UNION {
    PropCommentRw, PropDisabledRw, PropDynamicRo,
    Number(Kept, {"vlan_id"}),
    TextSet(Optional, {"tagged_ports"})})

ResourceInterfaceEthernetSwitchCrsEgressVlanTranslation == Menu("/interface/ethernet/switch/egress-vlan-translation", Id, Entry, UNION {
    PropCommentRw, PropDisabledRw, PropDynamicRo,
    Text(Kept, {"customer_dei", "customer_pcp", "customer_vid", "customer_vlan_format",
      "new_customer_vid", "new_service_vid", "service_dei", "service_pcp", "service_vid",
      "service_vlan_format"}),
    Text(Optional, {"pcp_propagation", "swap_vids"}),
    TextSet(Optional, {"ports"})})

ResourceInterfaceEthernetSwitchHost == Menu("/interface/ethernet/switch/host", Id, Entry, UNION {
    PropDynamicRo, PropInvalidRo,
    Flag(Optional, {"copy_to_cpu", "drop", "mirror", "redirect_to_cpu", "share_vlan_learned"}),
    Number(Kept, {"vlan_id"}),
    Text(Required, {"switch"}),
    Text(Required \cup Respelled, {"mac_address"}),
    TextList(Required, {"ports"})})

ResourceInterfaceEthernetSwitchCrsIngressVlanTranslation == Menu("/interface/ethernet/switch/ingress-vlan-translation", Id, Entry, UNION {
    PropCommentRw, PropDisabledRw, PropDynamicRo,
    Text(Kept, {"customer_dei", "customer_pcp", "customer_vid", "customer_vlan_format",
      "new_customer_vid", "new_service_vid", "service_dei", "service_pcp", "service_vid",
      "service_vlan_format"}),
    Text(Optional, {"pcp_propagation", "protocol", "sa_learning", "swap_vids"}),
    TextSet(Optional, {"ports"})})

ResourceInterfaceEthernetSwitchPort == Menu("/interface/ethernet/switch/port", Id, Own, UNION {
    PropInvalidRo, PropRunningRo,
    Flag(Kept, {"l3_hw_offloading"}),
    Flag(Optional, {"mirror_egress", "mirror_ingress"}),
    Text(Kept, {"default_vlan_id", "mirror_ingress_target", "vlan_header", "vlan_mode"}),
    Text(ReadOnly, {"switch"}),
    Text(Required \cup Skipped, {"name"})})

ResourceInterfaceEthernetSwitchPortIsolation == Menu("/interface/ethernet/switch/port-isolation", Id, Own, UNION {
    PropInvalidRo,
    Text(Optional \cup Unset, {"forwarding_override"}),
    Text(ReadOnly, {"switch"}),
    Text(Required \cup Skipped, {"name"})})

ResourceInterfaceEthernetSwitchRule == Menu("/interface/ethernet/switch/rule", Id, Entry, UNION {
    PropCommentRw, PropDisabledRw, PropDynamicRo, PropInvalidRo,
    Flag(Optional, {"copy_to_cpu", "mirror", "redirect_to_cpu"}),
    Number(Kept, {"new_vlan_id", "new_vlan_priority", "rate", "vlan_id"}),
    Number(Optional, {"dst_port", "dscp", "flow_label", "src_port", "traffic_class", "vlan_priority"}),
    Text(Optional, {"dst_address", "dst_address6", "dst_mac_address", "mac_protocol", "protocol",
      "src_address", "src_address6", "src_mac_address", "vlan_header"}),
    Text(Required, {"switch"}),
    TextList(Required, {"ports"}),
    TextSet(Optional, {"mirror_ports", "new_dst_ports"})})

ResourceInterfaceEthernetSwitchCrsVlan == Menu("/interface/ethernet/switch/vlan", Id, Entry, UNION {
    PropCommentRw, PropDisabledRw, PropDynamicRo,
    Flag(Kept, {"learn"}),
    Flag(Optional, {"flood", "ingress_mirror", "svl"}),
    Number(Required, {"vlan_id"}),
    Text(Kept, {"qos_group"}),
    Text(Optional, {"ports"})})

ResourceInterfaceEthernetSwitchVlan == Menu("/interface/ethernet/switch/vlan", Id, Entry, UNION {
    PropCommentRw, PropDisabledRw, PropInvalidRo,
    Flag(Kept, {"independent_learning"}),
    Number(Kept, {"vlan_id"}),
    Text(Required, {"switch"}),
    TextList(Required, {"ports"})})

ResourceInterfaceList == Menu("/interface/list", Id, Entry, UNION {
    PropCommentRw, PropDynamicRo, PropNameForceNewRw,
    Flag(ReadOnly, {"builtin"}),
    Text(Optional, {"exclude", "include"})})

ResourceInterfaceListMember == Menu("/interface/list/member", Id, Entry, UNION {
    PropCommentRw, PropDisabledRw,
    Flag(ReadOnly, {"dynamic"}),
    Text(ReadOnly, {"id"}),
    Text(Required, {"interface", "list"})})

ResourceInterfaceMacVlan == Menu("/interface/macvlan", Id, Entry, UNION {
    PropArpRw, PropArpTimeoutRw, PropCommentRw, PropDisabledRw, PropInterfaceRw, PropL2MtuRo,
    PropLoopProtectDisableTimeRw, PropLoopProtectRw, PropLoopProtectSendIntervalRw,
    PropNameForceNewRw, PropRunningRo,
    Flag(Kept, {"loop_protect_status"}),
    Text(Defaulted, {"mode"}),
    Text(OptionalComputed, {"mtu"}),
    Text(Respelled, {"mac_address"})})

ResourceInterfaceVeth == Menu("/interface/veth", Id, Entry, UNION {
    PropCommentRw, PropDisabledRw, PropRunningRo,
    Flag(Kept, {"dhcp"}),
    Text(Optional, {"gateway", "gateway6"}),
    Text(OptionalComputed \cup Respelled, {"mac_address"}),
    Text(Required, {"name"}),
    TextSet(Optional, {"address"})})

ResourceInterfaceVlan == Menu("/interface/vlan", Id, Entry, UNION {
    PropArpRw, PropArpTimeoutRw, PropCommentRw, PropDisabledRw, PropInterfaceRw, PropL2MtuRo,
    PropLoopProtectDisableTimeRw, PropLoopProtectRw, PropLoopProtectSendIntervalRw,
    PropLoopProtectStatusRo, PropMacAddressRo, PropNameForceNewRw, PropRunningRo,
    Flag(Kept, {"mvrp"}),
    Flag(Optional, {"use_service_tag", "hw_offloaded"}),
    Number(Kept, {"vlan_id"}),
    Text(OptionalComputed, {"mtu"})})

\* The menus of this group that the provider offers a resource for.
BridgeMenu == {ResourceInterfaceBonding, ResourceInterfaceBridge, ResourceInterfaceBridgeFilter,
    ResourceInterfaceBridgeMlag, ResourceInterfaceBridgePort, ResourceInterfaceBridgeSettings,
    ResourceInterfaceBridgeVlan, ResourceInterfaceDetectInternet, ResourceInterfaceDot1xClient,
    ResourceInterfaceDot1xServer, ResourceInterfaceEthernet, ResourceInterfaceEthernetSwitch,
    ResourceInterfaceEthernetSwitchCrs, ResourceInterfaceEthernetSwitchCrsEgressVlanTag,
    ResourceInterfaceEthernetSwitchCrsEgressVlanTranslation, ResourceInterfaceEthernetSwitchHost,
    ResourceInterfaceEthernetSwitchCrsIngressVlanTranslation, ResourceInterfaceEthernetSwitchPort,
    ResourceInterfaceEthernetSwitchPortIsolation, ResourceInterfaceEthernetSwitchRule,
    ResourceInterfaceEthernetSwitchCrsVlan, ResourceInterfaceEthernetSwitchVlan,
    ResourceInterfaceList, ResourceInterfaceListMember, ResourceInterfaceMacVlan,
    ResourceInterfaceVeth, ResourceInterfaceVlan}
=============================================================================
