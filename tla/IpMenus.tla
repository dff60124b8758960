--------------------------- MODULE IpMenus ---------------------------
(* IPv4 addressing, DHCP, DNS, routes and services.                        *)
EXTENDS Schemas

ResourceIPAddress == Menu("/ip/address", Id, Entry, UNION {
    PropCommentRw, PropDisabledRw, PropDynamicRo, PropInterfaceRw, PropInvalidRo, PropVrfRo,
    Flag(ReadOnly, {"slave"}),
    Text(OptionalComputed, {"network"}),
    Text(ReadOnly, {"actual_interface"}),
    Text(Required, {"address"})})

ResourceIpCloud == Menu("/ip/cloud", Id, Setting, UNION {
    Text(Alike, {"ddns_enabled"}),
    Text(Defaulted \cup Respelled, {"ddns_update_interval"}),
    Text(Kept, {"back_to_home_vpn", "update_time", "vpn_prefer_relay_code"}),
    Text(ReadOnly, {"dns_name", "public_address", "public_address_ipv6", "status", "warning"})})

ResourceIpCloudAdvanced == Menu("/ip/cloud/advanced", Id, Setting, Flag(Zeroed, {"use_local_address"}))

ResourceDhcpClient == Menu("/ip/dhcp-client", Id, Entry, UNION {
    PropCommentRw, PropDisabledRw, PropDynamicRo, PropInterfaceRw, PropInvalidRo,
    Flag(Defaulted, {"use_peer_dns", "use_peer_ntp"}),
    Flag(Kept, {"allow_reconfigure"}),
    Flag(Optional, {"use_reconfigure"}),
    Number(Defaulted \cup Alike, {"default_route_distance"}),
    Number(Kept, {"dscp", "vlan_priority"}),
    Text(Defaulted, {"dhcp_options"}),
    Text(Kept, {"check_gateway", "use_broadcast"}),
    Text(Optional, {"script"}),
    Text(OptionalComputed, {"add_default_route"}),
    Text(ReadOnly, {"address", "dhcp_server", "expires_after", "gateway", "name", "primary_dns",
      "primary_ntp", "secondary_dns", "secondary_ntp", "status"}),
    TextSet(Kept, {"default_route_tables"})})

ResourceDhcpClientOption == Menu("/ip/dhcp-client/option", Id, Entry, UNION {
    Number(Required, {"code"}),
    Text(Optional, {"value"}),
    Text(OptionalComputed, {"raw_value"}),
    Text(Required, {"name"})})

ResourceDhcpRelay == Menu("/ip/dhcp-relay", Id, Entry, UNION {
    PropDisabledRw, PropInvalidRo,
    Flag(Kept, {"add_relay_info"}),
    Text(Kept, {"dhcp_server_vrf", "local_address", "relay_info_remote_id"}),
    Text(Required, {"dhcp_server", "interface", "name"}),
    Text(Respelled, {"delay_threshold"})})

ResourceDhcpServer == Menu("/ip/dhcp-server", Id, Entry, UNION {
    PropCommentRw, PropDisabledRw, PropDynamicRo, PropInterfaceRw, PropInvalidRo, PropNameForceNewRw,
    Flag(Kept, {"add_dns_entries"}),
    Flag(Optional, {"add_arp", "allow_dual_stack_queue", "always_broadcast", "conflict_detection",
      "support_broadband_tr101", "use_framed_as_classless", "use_reconfigure"}),
    Number(Optional, {"client_mac_limit"}),
    Text(Kept, {"add_dns_entries_suffix", "address_pool", "authoritative", "bootp_support",
      "dynamic_lease_identifiers", "lease_time", "use_radius"}),
    Text(Optional, {"bootp_lease_time", "delay_threshold", "dhcp_option_set", "insert_queue_before",
      "lease_script", "parent_queue", "relay", "src_address"}),
    TextSet(Kept, {"address_lists"})})

ResourceDhcpServerConfig == Menu("/ip/dhcp-server/config", Id, Setting, UNION {
    Flag(Defaulted, {"accounting"}),
    Text(Defaulted, {"radius_password"}),
    Text(Defaulted \cup Respelled, {"interim_update", "store_leases_disk"})})

ResourceDhcpServerLease == Menu("/ip/dhcp-server/lease", Id, Entry, UNION {
    PropCommentRw, PropDisabledRw,
    Flag(Optional, {"allow_dual_stack_queue", "always_broadcast", "use_src_mac"}),
    Flag(ReadOnly, {"blocked", "dynamic"}),
    Flag(Zeroed, {"block_access"}),
    Text(Optional, {"address_lists", "client_id", "dhcp_option", "dhcp_option_set",
      "insert_queue_before", "lease_time", "rate_limit", "server"}),
    Text(ReadOnly, {"active_address", "active_agent_circuit_id", "active_agent_remote_id",
      "active_client_id", "active_hostname", "active_mac_address", "active_server",
      "agent_circuit_id", "agent_remote_id", "class_id", "expires_after", "host_name", "last_seen",
      "radius", "status", "src_mac_address"}),
    Text(Required, {"address"}),
    Text(Required \cup Alike, {"mac_address"})})

ResourceDhcpServerOptionMatcher == Menu("/ip/dhcp-server/matcher", Id, Entry, UNION {
    PropCommentRw, PropDisabledRw, PropNameForceNewRw,
    Number(Required, {"code"}),
    Text(Kept, {"address_pool", "matching_type", "option_set", "server", "value"})})

ResourceDhcpServerNetwork == Menu("/ip/dhcp-server/network", Id, Entry, UNION {
    PropCommentRw, PropDynamicRo,
    Flag(Optional, {"dns_none", "ntp_none"}),
    Number(Zeroed, {"netmask"}),
    Text(Defaulted, {"gateway"}),
    Text(Optional, {"boot_file_name", "dhcp_option_set", "domain", "next_server"}),
    Text(Required, {"address"}),
    TextList(Optional, {"caps_manager", "dhcp_option", "dns_server", "ntp_server", "wins_server"})})

ResourceDhcpServerOption == Menu("/ip/dhcp-server/option", Id, Entry, UNION {
    PropCommentRw,
    Flag(Optional, {"force"}),
    Number(Required, {"code"}),
    Text(ReadOnly, {"raw_value"}),
    Text(Required, {"name", "value"})})

ResourceDhcpServerOptionSets == Menu("/ip/dhcp-server/option/sets", Id, Entry, UNION {
    PropCommentRw,
    Text(Required, {"name", "options"})})

ResourceDns == Menu("/ip/dns", Name, Own, UNION {
    PropVrfRw,
    Flag(Optional, {"allow_remote_requests", "verify_doh_cert"}),
    Number(OptionalComputed, {"cache_size", "doh_max_concurrent_queries", "doh_max_server_connections",
      "max_concurrent_queries", "max_concurrent_tcp_sessions", "max_udp_packet_size"}),
    Number(ReadOnly, {"cache_used"}),
    Text(Kept \cup Alike, {"address_list_extra_time"}),
    Text(Optional, {"use_doh_server"}),
    Text(OptionalComputed \cup Respelled, {"cache_max_ttl", "doh_timeout", "query_server_timeout",
      "query_total_timeout"}),
    Text(ReadOnly, {"dynamic_servers"}),
    TextList(Optional, {"servers"}),
    TextSet(Kept, {"mdns_repeat_ifaces"})})

ResourceDnsAdlist == Menu("/ip/dns/adlist", Id, Entry, UNION {
    PropDisabledRw,
    Flag(Kept, {"ssl_verify"}),
    Text(Optional, {"file", "url"})})

ResourceIpDnsForwarders == Menu("/ip/dns/forwarders", Id, Entry, UNION {
    PropCommentRw, PropDisabledRw,
    Flag(Optional, {"verify_doh_cert"}),
    Text(Required, {"name"}),
    TextSet(Optional, {"dns_servers", "doh_servers"})})

ResourceDnsRecord == Menu("/ip/dns/static", Id, Entry, UNION {
    PropCommentRw, PropDisabledRw, PropDynamicRo,
    Flag(Optional, {"match_subdomain"}),
    Number(OptionalComputed, {"mx_preference", "srv_port", "srv_priority"}),
    Text(Optional, {"address", "address_list", "cname", "forward_to", "mx_exchange", "name", "ns",
      "regexp", "srv_target", "text"}),
    Text(OptionalComputed, {"srv_weight"}),
    Text(Required \cup ForceNew, {"type"}),
    Text(Respelled, {"ttl"})})

ResourceNatPmpSettings == Menu("/ip/nat-pmp", Id, Setting, Flag(Kept, {"enabled"}))

ResourceNatPmpInterfaces == Menu("/ip/nat-pmp/interfaces", Id, Entry, UNION {
    PropDisabledRw, PropDynamicRo,
    Text(Kept, {"forced_ip"}),
    Text(Kept \cup Unset, {"type"}),
    Text(Required, {"interface"})})

ResourceIpNeighborDiscoverySettings == Menu("/ip/neighbor/discovery-settings", Id, Setting, UNION {
    Flag(Kept, {"add_dns_entries", "dying_gasp", "lldp_dcbx", "lldp_mac_phy_config",
      "lldp_max_frame_size", "lldp_med", "lldp_poe_power", "lldp_vlan_info"}),
    Text(Kept, {"add_dns_entries_suffix", "discover_interface_list", "discover_interval",
      "lldp_med_net_policy_vlan", "mode"}),
    TextSet(Kept, {"protocol"})})

ResourceIPPool == Menu("/ip/pool", Id, Entry, UNION {
    PropCommentRw, PropNameForceNewRw,
    Text(Optional, {"next_pool"}),
    TextList(Required, {"ranges"})})

ResourceIPRoute == Menu("/ip/route", Id, Entry, UNION {
    PropCommentRw, PropDisabledRw, PropDynamicRo, PropHwOffloadedRo, PropInactiveRo,
    Flag(Kept, {"suppress_hw_offload"}),
    Flag(Optional, {"blackhole"}),
    Flag(ReadOnly, {"active", "connect", "dhcp", "ecmp", "static"}),
    Number(Defaulted, {"distance", "scope", "target_scope"}),
    Text(Defaulted, {"dst_address", "routing_table"}),
    Text(Optional, {"check_gateway", "pref_src"}),
    Text(OptionalComputed, {"vrf_interface"}),
    Text(ReadOnly, {"immediate_gw", "local_address"}),
    Text(Required, {"gateway"})})

ResourceIpService == Menu("/ip/service", Name, Own, UNION {
    PropDisabledRw, PropDynamicRo, PropInvalidRo, PropVrfRw,
    Number(Kept, {"max_sessions"}),
    Number(Required, {"port"}),
    Text(Kept, {"certificate", "tls_version"}),
    Text(ReadOnly, {"name", "proto"}),
    Text(Required, {"numbers"}),
    Text(Zeroed, {"address"})})

ResourceIpSettings == Menu("/ip/settings", Id, Setting, UNION {
    Flag(Kept, {"allow_fast_path", "ip_forward", "route_cache", "secure_redirects", "send_redirects",
      "tcp_syncookies"}),
    Flag(Optional, {"accept_redirects", "accept_source_route",
      "icmp_errors_use_inbound_interface_address"}),
    Number(Kept, {"icmp_rate_limit", "ipv4_fragment_time", "ipv4_high_fragment_thresh",
      "max_neighbor_entries"}),
    Text(Kept, {"icmp_rate_mask", "ipv4_multipath_hash_policy", "rp_filter", "tcp_timestamps"}),
    Text(Respelled, {"arp_timeout"})})

ResourceIpSMB == Menu("/ip/smb", Id, Setting, UNION {
    Text(Kept, {"enabled", "domain", "comment"}),
    Text(ReadOnly, {"status"}),
    TextSet(Kept, {"interfaces"})})

ResourceIpSSHServer == Menu("/ip/ssh", Id, Setting, UNION {
    Flag(Kept, {"always_allow_password_login"}),
    Flag(Optional, {"allow_none_crypto", "strong_crypto"}),
    Number(Kept, {"host_key_size"}),
    Text(Kept, {"ciphers", "forwarding_enabled", "host_key_type", "password_authentication",
      "publickey_authentication_options"})})

ResourceIpTFTP == Menu("/ip/tftp", Id, Entry, UNION {
    PropDisabledRw,
    Flag(Kept, {"allow", "allow_overwrite", "read_only"}),
    Flag(Optional, {"allow_rollover"}),
    Text(Kept, {"reading_window_size", "real_filename", "req_filename"}),
    TextSet(Kept, {"ip_addresses"})})

ResourceIpTFTPSettings == Menu("/ip/tftp/settings", Name, Setting, Number(Kept, {"max_block_size"}))

ResourceIpTrafficFlow == Menu("/ip/traffic-flow", Id, Setting, UNION {
    Flag(Kept, {"enabled"}),
    Flag(Optional, {"packet_sampling"}),
    Number(Optional, {"sampling_interval", "sampling_space"}),
    Text(Kept, {"cache_entries", "interfaces"}),
    Text(Respelled, {"active_flow_timeout", "inactive_flow_timeout"})})

ResourceIpTrafficFlowIpfix == Menu("/ip/traffic-flow/ipfix", Id, Setting, UNION {
    Text(Kept, {"bytes", "dst_address", "dst_address_mask", "dst_mac_address", "dst_port",
      "first_forwarded", "gateway", "icmp_code", "icmp_type", "igmp_type", "in_interface",
      "ip_header_length", "ip_total_lenght", "ipv6_flow_label", "is_multicast", "last_forwarded",
      "nat_dst_address", "nat_dst_port", "nat_src_address", "nat_src_port", "out_interface",
      "packets", "protocol", "src_address", "src_address_mask", "src_mac_address", "src_port",
      "sys_init_time", "tcp_ack_num", "tcp_flags", "tcp_seq_num", "tcp_window_size", "tos", "ttl",
      "udp_length"}),
    Text(Optional \cup Unset, {"nat_events"})})

ResourceIpTrafficFlowTarget == Menu("/ip/traffic-flow/target", Id, Entry, UNION {
    PropDisabledRw,
    Number(Kept, {"port", "v9_template_refresh"}),
    Text(Kept, {"src_address"}),
    Text(Optional, {"dst_address", "version"}),
    Text(Respelled, {"v9_template_timeout"})})

ResourceUPNPSettings == Menu("/ip/upnp", Id, Setting, UNION {
    Flag(Kept, {"enabled"}),
    Flag(Optional, {"allow_disable_external_interface", "show_dummy_rule"})})

ResourceUPNPInterfaces == Menu("/ip/upnp/interfaces", Id, Entry, UNION {
    PropDisabledRw, PropDynamicRo,
    Text(Kept, {"forced_ip"}),
    Text(Kept \cup Unset, {"type"}),
    Text(Required, {"interface"})})

ResourceIPVrf == Menu("/ip/vrf", Id, Entry, UNION {
    PropCommentRw, PropDisabledRw,
    Text(Required, {"name"}),
    TextSet(Required, {"interfaces"})})

\* The menus of this group that the provider offers a resource for.
IpMenu == {ResourceIPAddress, ResourceIpCloud, ResourceIpCloudAdvanced, ResourceDhcpClient,
    ResourceDhcpClientOption, ResourceDhcpRelay, ResourceDhcpServer, ResourceDhcpServerConfig,
    ResourceDhcpServerLease, ResourceDhcpServerOptionMatcher, ResourceDhcpServerNetwork,
    ResourceDhcpServerOption, ResourceDhcpServerOptionSets, ResourceDns, ResourceDnsAdlist,
    ResourceIpDnsForwarders, ResourceDnsRecord, ResourceNatPmpSettings, ResourceNatPmpInterfaces,
    ResourceIpNeighborDiscoverySettings, ResourceIPPool, ResourceIPRoute, ResourceIpService,
    ResourceIpSettings, ResourceIpSMB, ResourceIpSSHServer, ResourceIpTFTP, ResourceIpTFTPSettings,
    ResourceIpTrafficFlow, ResourceIpTrafficFlowIpfix, ResourceIpTrafficFlowTarget,
    ResourceUPNPSettings, ResourceUPNPInterfaces, ResourceIPVrf}
=============================================================================
