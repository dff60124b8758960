--------------------------- MODULE FormerMenus ---------------------------
(* Schemas of earlier versions, kept to upgrade old states.                *)
EXTENDS Schemas, RoutingMenus

ResourceCapsManChannelV0 == Menu("/caps-man/channel", Name, Former, UNION {
    PropCommentRw, PropNameForceNewRw,
    Flag(Optional, {"save_selected", "skip_dfs_channels"}),
    Number(Optional, {"tx_power"}),
    Number(OptionalComputed, {"frequency"}),
    Text(Optional, {"band", "control_channel_width", "extension_channel", "reselect_interval",
      "secondary_frequency", "width"})})

ResourceCapsManChannelV1 == Menu("/caps-man/channel", Id, Former, UNION {
    PropCommentRw, PropNameForceNewRw,
    Flag(Optional, {"save_selected", "skip_dfs_channels"}),
    Number(Optional, {"tx_power"}),
    Number(OptionalComputed, {"frequency"}),
    Text(Optional, {"band", "control_channel_width", "extension_channel", "reselect_interval",
      "secondary_frequency", "width"})})

ResourceCapsManConfigurationV0 == Renaming(
  {<<<<"channel", "config">>, <<"channel">>>>, <<<<"datapath", "config">>, <<"datapath">>>>,
   <<<<"rates", "config">>, <<"rates">>>>, <<<<"security", "config">>, <<"security">>>>},
  Menu("/caps-man/configuration", Name, Former, UNION {
    PropCommentRw, PropNameForceNewRw,
    Flag(OptionalComputed, {"hide_ssid"}),
    Map(Optional, {"channel", "datapath", "rates", "security"}),
    Number(Optional, {"hw_retries", "max_sta_count"}),
    NumberList(Optional, {"rx_chains", "tx_chains"}),
    Text(Optional, {"country", "distance", "guard_interval", "hw_protection_mode", "installation",
      "keepalive_frames", "load_balancing_group", "mode", "multicast_helper", "ssid"}),
    Text(Respelled, {"disconnect_timeout", "frame_lifetime"})}))

ResourceCapsManDatapathV0 == Menu("/caps-man/datapath", Name, Former, UNION {
    PropCommentRw, PropNameForceNewRw,
    Flag(Optional, {"client_to_client_forwarding", "local_forwarding"}),
    Number(Kept, {"vlan_id"}),
    Number(Optional, {"bridge_cost", "bridge_horizon", "l2mtu", "mtu"}),
    Text(Optional, {"arp", "bridge", "interface_list", "openflow_switch", "vlan_mode"})})

ResourceCapsManProvisioningV0 == Menu("/caps-man/provisioning", Id, Former, UNION {
    PropCommentRw, PropDisabledRw,
    Text(Defaulted, {"action", "name_format", "radio_mac"}),
    Text(Optional, {"common_name_regexp", "hw_supported_modes", "identity_regexp", "ip_address_ranges",
      "name_prefix", "slave_configurations"}),
    Text(Required, {"master_configuration"})})

ResourceCapsManRatesV0 == Menu("/caps-man/rates", Name, Former, UNION {
    PropCommentRw, PropNameForceNewRw,
    Text(OptionalComputed, {"vht_basic_mcs", "vht_supported_mcs"}),
    TextSet(Optional, {"basic", "supported"}),
    TextSet(OptionalComputed, {"ht_basic_mcs", "ht_supported_mcs"})})

ResourceCapsManSecurityV0 == Menu("/caps-man/security", Name, Former, UNION {
    PropCommentRw, PropNameForceNewRw,
    Flag(Optional, {"disable_pmkid", "eap_radius_accounting"}),
    Text(Optional, {"eap_methods", "group_encryption", "tls_certificate", "tls_mode"}),
    Text(Optional \cup Secret, {"passphrase"}),
    Text(Respelled, {"group_key_update"}),
    TextSet(Optional, {"authentication_types", "encryption"})})

ResourceInterfaceBridgeV0 == Menu("/interface/bridge", Name, Former, UNION {
    PropActualMtuRo, PropArpRw, PropArpTimeoutRw, PropCommentRw, PropDisabledRw, PropL2MtuRo,
    PropMacAddressRo, PropNameForceNewRw, PropRunningRo,
    Flag(Defaulted, {"auto_mac"}),
    Flag(Optional, {"add_dhcp_option82", "dhcp_snooping", "multicast_querier"}),
    Flag(OptionalComputed, {"fast_forward"}),
    Flag(Zeroed, {"igmp_snooping", "ingress_filtering", "vlan_filtering"}),
    Number(Defaulted, {"pvid", "transmit_hold_count"}),
    Number(Optional, {"region_revision"}),
    Number(OptionalComputed, {"igmp_version", "last_member_query_count", "max_hops", "mld_version",
      "startup_query_count"}),
    Text(Defaulted, {"ageing_time", "ether_type", "forward_delay", "frame_types", "max_message_age",
      "mtu", "priority", "protocol_mode"}),
    Text(Optional, {"region_name"}),
    Text(OptionalComputed, {"admin_mac", "multicast_router"}),
    Text(OptionalComputed \cup Respelled, {"last_member_interval", "membership_interval",
      "querier_interval", "query_interval", "query_response_interval", "startup_query_interval"})})

ResourceInterfaceBridgeVlanV0 == Menu("/interface/bridge/vlan", Id, Former, UNION {
    PropCommentRw, PropDisabledRw, PropDynamicRo,
    Text(Required, {"bridge", "vlan_ids"}),
    TextList(Kept, {"mvrp_forbidden"}),
    TextList(Optional, {"tagged", "untagged"}),
    TextList(ReadOnly, {"current_tagged", "current_untagged"})})

ResourceInterfaceDot1xClientV0 == Menu("/interface/dot1x/client", Id, Former, UNION {
    PropCommentRw, PropDisabledRw, PropInterfaceRw,
    Text(Defaulted, {"certificate"}),
    Text(Optional, {"anon_identity"}),
    Text(Optional \cup Secret, {"password"}),
    Text(ReadOnly, {"status"}),
    Text(Required, {"eap_methods", "identity"})})

ResourceInterfaceDot1xServerV0 == Menu("/interface/dot1x/server", Id, Former, UNION {
    PropCommentRw, PropDisabledRw, PropInterfaceRw,
    Flag(Defaulted, {"accounting"}),
    Number(Optional, {"guest_vlan_id", "reject_vlan_id", "server_fail_vlan_id"}),
    Text(Defaulted, {"auth_types", "mac_auth_mode", "radius_mac_format"}),
    Text(Defaulted \cup Respelled, {"auth_timeout", "interim_update", "retrans_timeout"}),
    Text(Respelled, {"reauth_timeout"})})

ResourceInterfaceEoipV0 == Menu("/interface/eoip", Name, Former, UNION {
    PropActualMtuRo, PropAllowFastPathRw, PropArpRw, PropArpTimeoutRw, PropClampTcpMssRw, PropCommentRw,
    PropDisabledRw, PropDontFragmentRw, PropDscpRw, PropIpsecSecretRw, PropKeepaliveRw, PropL2MtuRo,
    PropLocalAddressRw, PropLoopProtectDisableTimeRw, PropLoopProtectRw,
    PropLoopProtectSendIntervalRw, PropLoopProtectStatusRo, PropMacAddressRo, PropNameForceNewRw,
    PropRemoteAddressRw, PropRunningRo,
    Number(Zeroed, {"tunnel_id"}),
    Text(OptionalComputed, {"mtu"})})

ResourceInterfaceGreV0 == Menu("/interface/gre", Name, Former, UNION {
    PropActualMtuRo, PropAllowFastPathRw, PropClampTcpMssRw, PropCommentRw, PropDisabledRw,
    PropDontFragmentRw, PropDscpRw, PropIpsecSecretRw, PropKeepaliveRw, PropL2MtuRo,
    PropLocalAddressRw, PropNameForceNewRw, PropRemoteAddressRw, PropRunningRo,
    Text(OptionalComputed, {"mtu"})})

ResourceInterfaceListV0 == Menu("/interface/list", Name, Former, UNION {
    PropCommentRw, PropDynamicRo, PropNameForceNewRw,
    Flag(ReadOnly, {"builtin"}),
    Text(Optional, {"exclude", "include"})})

ResourceOpenVPNServerV0 == Menu("/interface/ovpn-server/server", Id, Former, UNION {
    Flag(Kept, {"enabled"}),
    Flag(Optional, {"enable_tun_ipv6", "require_client_certificate"}),
    Number(Defaulted, {"ipv6_prefix_len", "max_mtu", "netmask", "port", "reneg_sec"}),
    Text(Defaulted, {"auth", "cipher", "default_profile", "mode", "protocol", "tun_server_ipv6"}),
    Text(Defaulted \cup Respelled, {"keepalive_timeout"}),
    Text(Optional, {"tls_version"}),
    Text(OptionalComputed, {"mac_address"}),
    Text(Required, {"certificate"}),
    Text(Zeroed, {"redirect_gateway"}),
    TextSet(Kept, {"push_routes"})})

ResourceInterfaceVlanV0 == Menu("/interface/vlan", Name, Former, UNION {
    PropArpRw, PropArpTimeoutRw, PropCommentRw, PropDisabledRw, PropInterfaceRw, PropL2MtuRo,
    PropLoopProtectDisableTimeRw, PropLoopProtectRw, PropLoopProtectSendIntervalRw,
    PropLoopProtectStatusRo, PropMacAddressRo, PropNameForceNewRw, PropRunningRo,
    Flag(Zeroed, {"use_service_tag"}),
    Number(Required, {"vlan_id"}),
    Text(OptionalComputed, {"mtu"})})

ResourceInterfaceVrrpV0 == Menu("/interface/vrrp", Name, Former, UNION {
    PropArpRw, PropArpTimeoutRw, PropCommentRw, PropDisabledRw, PropInterfaceRw, PropMacAddressRo,
    PropNameForceNewRw,
    Flag(Defaulted, {"preemption_mode"}),
    Flag(Optional, {"sync_connection_tracking"}),
    Flag(ReadOnly, {"invalid", "running"}),
    Number(Defaulted, {"priority", "version", "vrid"}),
    Text(Defaulted, {"authentication", "interval", "v3_protocol"}),
    Text(Optional, {"on_fail", "on_backup", "on_master", "remote_address"}),
    Text(Optional \cup Secret, {"password"}),
    Text(OptionalComputed, {"mtu"}),
    Text(OptionalComputed \cup Alike, {"group_master"})})

ResourceInterfaceWireguardV0 == Menu("/interface/wireguard", Name, Former, UNION {
    PropCommentRw, PropDisabledRw, PropNameForceNewRw, PropRunningRo,
    Number(Required, {"listen_port"}),
    Text(OptionalComputed, {"mtu"}),
    Text(OptionalComputed \cup Secret, {"private_key"}),
    Text(ReadOnly, {"public_key"})})

ResourceDhcpServerV0 == Menu("/ip/dhcp-server", Name, Former, UNION {
    PropCommentRw, PropDisabledRw, PropDynamicRo, PropInterfaceRw, PropInvalidRo, PropNameForceNewRw,
    Flag(Optional, {"add_arp", "allow_dual_stack_queue", "always_broadcast", "conflict_detection",
      "use_framed_as_classless"}),
    Number(Optional, {"client_mac_limit"}),
    Text(Defaulted, {"address_pool", "authoritative", "bootp_support", "lease_time", "use_radius"}),
    Text(Optional, {"bootp_lease_time", "delay_threshold", "dhcp_option_set", "insert_queue_before",
      "lease_script", "parent_queue", "relay", "src_address"})})

ResourceDhcpServerNetworkV0 == Menu("/ip/dhcp-server/network", Id, Former, UNION {
    PropCommentRw, PropDynamicRo,
    Flag(Optional, {"dns_none"}),
    Number(Zeroed, {"netmask"}),
    Text(Defaulted, {"gateway"}),
    Text(Optional, {"boot_file_name", "caps_manager", "dhcp_option", "dhcp_option_set", "dns_server",
      "domain", "next_server", "ntp_server", "wins_server"}),
    Text(Required, {"address"})})

ResourceDnsV0 == Menu("/ip/dns", Name, Former, UNION {
    PropVrfRw,
    Flag(Optional, {"allow_remote_requests", "verify_doh_cert"}),
    Number(OptionalComputed, {"cache_size", "doh_max_concurrent_queries", "doh_max_server_connections",
      "max_concurrent_queries", "max_concurrent_tcp_sessions", "max_udp_packet_size"}),
    Number(ReadOnly, {"cache_used"}),
    Text(Kept \cup Alike, {"address_list_extra_time"}),
    Text(Optional, {"servers", "use_doh_server"}),
    Text(OptionalComputed \cup Respelled, {"cache_max_ttl", "doh_timeout", "query_server_timeout",
      "query_total_timeout"}),
    Text(ReadOnly, {"dynamic_servers"})})

ResourceIPPoolV0 == Menu("/ip/pool", Name, Former, UNION {
    PropCommentRw, PropNameForceNewRw,
    Text(Optional, {"next_pool"}),
    TextList(Required, {"ranges"})})

ResourceRadiusV0 == Menu("/radius", Id, Former, UNION {
    PropCommentRw, PropDisabledRw,
    Flag(Zeroed, {"accounting_backup"}),
    Number(Defaulted, {"accounting_port", "authentication_port"}),
    Text(Defaulted, {"certificate", "protocol"}),
    Text(Defaulted \cup Respelled, {"timeout"}),
    Text(Optional, {"called_id", "domain", "realm", "service", "src_address"}),
    Text(Optional \cup Secret, {"secret"}),
    Text(Required, {"address"})})

ResourceRoutingOspfInterfaceTemplateV0 == Menu("/routing/ospf/interface-template", Id, Former, UNION {
    PropCommentRw, PropDisabledRw, PropInactiveRo,
    Flag(Zeroed \cup Unset, {"passive"}),
    Number(Defaulted, {"cost", "priority"}),
    Number(Optional, {"auth_id"}),
    Number(Zeroed, {"instance_id"}),
    Text(Defaulted, {"type"}),
    Text(Defaulted \cup Respelled, {"dead_interval", "hello_interval", "retransmit_interval",
      "transmit_delay"}),
    Text(Optional, {"auth", "network", "prefix_list", "vlink_neighbor_id", "vlink_transit_area"}),
    Text(Optional \cup Secret, {"authentication_key", "auth_key"}),
    Text(Required, {"area"}),
    TextSet(Optional, {"interfaces"})})

ResourceSNMPCommunityV0 == Menu("/snmp/community", Id, Former, UNION {
    PropCommentRw, PropDefaultRo, PropDisabledRw,
    Flag(Defaulted, {"read_access"}),
    Flag(Optional, {"write_access"}),
    Text(Defaulted, {"authentication_protocol", "encryption_protocol", "security"}),
    Text(Kept, {"addresses"}),
    Text(Optional, {"name"}),
    Text(Optional \cup Secret, {"authentication_password", "encryption_password"})})

ResourceSystemSchedulerV0 == Menu("/system/scheduler", Name, Former, UNION {
    PropCommentRw, PropDisabledRw, PropNameForceNewRw,
    Text(OptionalComputed, {"interval", "start_date", "start_time"}),
    Text(ReadOnly, {"next_run", "owner", "run_count"}),
    Text(Required, {"on_event"}),
    TextList(OptionalComputed, {"policy"})})

-----------------------------------------------------------------------------
\* What is done to a state of an earlier version.
ResourceCapsManChannelUpgrade ==
    [NameToId(ResourceCapsManChannelV0) EXCEPT !.lists = {"frequency", "secondary_frequency"}]
ResourceCapsManChannelSecondUpgrade ==
    ScalarToList(ResourceCapsManChannelV1, {"frequency", "secondary_frequency"})
ResourceCapsManConfigurationUpgrade == NameToId(ResourceCapsManConfigurationV0)
ResourceCapsManDatapathUpgrade == NameToId(ResourceCapsManDatapathV0)
ResourceCapsManProvisioningUpgrade ==
    ScalarToList(ResourceCapsManProvisioningV0, {"hw_supported_modes", "ip_address_ranges", "slave_configurations"})
ResourceCapsManRatesUpgrade == NameToId(ResourceCapsManRatesV0)
ResourceCapsManSecurityUpgrade == NameToId(ResourceCapsManSecurityV0)
ResourceInterfaceBridgeUpgrade == NameToId(ResourceInterfaceBridgeV0)
ResourceInterfaceBridgeVlanUpgrade == ScalarToList(ResourceInterfaceBridgeVlanV0, {"vlan_ids"})
ResourceInterfaceDot1xClientUpgrade == ScalarToList(ResourceInterfaceDot1xClientV0, {"eap_methods"})
ResourceInterfaceDot1xServerUpgrade == ScalarToList(ResourceInterfaceDot1xServerV0, {"auth_types"})
ResourceInterfaceEoipUpgrade == NameToId(ResourceInterfaceEoipV0)
ResourceInterfaceGreUpgrade == NameToId(ResourceInterfaceGreV0)
ResourceInterfaceListUpgrade == NameToId(ResourceInterfaceListV0)
ResourceInterfaceVlanUpgrade == NameToId(ResourceInterfaceVlanV0)
ResourceInterfaceVrrpUpgrade == NameToId(ResourceInterfaceVrrpV0)
ResourceInterfaceWireguardUpgrade == NameToId(ResourceInterfaceWireguardV0)
ResourceDhcpServerUpgrade == NameToId(ResourceDhcpServerV0)
ResourceDhcpServerNetworkUpgrade ==
    ScalarToList(ResourceDhcpServerNetworkV0, {"caps_manager", "dhcp_option", "dns_server", "ntp_server", "wins_server"})
ResourceDnsUpgrade == ScalarToList(ResourceDnsV0, {"servers"})
ResourceIPPoolUpgrade == NameToId(ResourceIPPoolV0)
ResourceOpenVPNServerUpgrade ==
    ScalarToList(ResourceOpenVPNServerV0, {"auth", "cipher", "redirect_gateway"})
ResourceRadiusUpgrade == ScalarToList(ResourceRadiusV0, {"service"})
ResourceRoutingBgpConnectionUpgrade ==
    ClearInjectedDefault(ResourceRoutingBgpConnection, {"add_path_out"})
ResourceRoutingBgpTemplateUpgrade ==
    ClearInjectedDefault(ResourceRoutingBgpTemplate, {"add_path_out"})
ResourceRoutingOspfInterfaceTemplateUpgrade ==
    ScalarToList(ResourceRoutingOspfInterfaceTemplateV0, {"networks"})
ResourceSNMPCommunityUpgrade == ScalarToList(ResourceSNMPCommunityV0, {"addresses"})
ResourceSystemSchedulerUpgrade == NameToId(ResourceSystemSchedulerV0)

\* The upgrades, but for the one of the clock, which SystemClock has.
StateUpgraders == {
    ResourceCapsManChannelUpgrade, ResourceCapsManChannelSecondUpgrade,
    ResourceCapsManConfigurationUpgrade,
    ResourceCapsManDatapathUpgrade, ResourceCapsManProvisioningUpgrade,
    ResourceCapsManRatesUpgrade, ResourceCapsManSecurityUpgrade, ResourceInterfaceBridgeUpgrade,
    ResourceInterfaceBridgeVlanUpgrade, ResourceInterfaceDot1xClientUpgrade,
    ResourceInterfaceDot1xServerUpgrade, ResourceInterfaceEoipUpgrade,
    ResourceInterfaceGreUpgrade, ResourceInterfaceListUpgrade, ResourceInterfaceVlanUpgrade,
    ResourceInterfaceVrrpUpgrade, ResourceInterfaceWireguardUpgrade, ResourceDhcpServerUpgrade,
    ResourceDhcpServerNetworkUpgrade, ResourceDnsUpgrade, ResourceIPPoolUpgrade,
    ResourceOpenVPNServerUpgrade, ResourceRadiusUpgrade, ResourceRoutingBgpConnectionUpgrade,
    ResourceRoutingBgpTemplateUpgrade, ResourceRoutingOspfInterfaceTemplateUpgrade,
    ResourceSNMPCommunityUpgrade, ResourceSystemSchedulerUpgrade}

=============================================================================
