--------------------------- MODULE RoutingMenus ---------------------------
(* IPv6, and the routing protocols.                                        *)
EXTENDS Schemas

ResourceIPv6Address == Menu("/ipv6/address", Id, Entry, UNION {
    PropCommentRw, PropDisabledRw, PropDynamicRo, PropInterfaceRw, PropInvalidRo, PropVrfRo,
    Flag(Kept, {"auto_link_local"}),
    Flag(Optional, {"advertise", "eui_64", "no_dad"}),
    Flag(ReadOnly, {"deprecated", "global", "link_local", "slave"}),
    Text(Optional, {"from_pool"}),
    Text(OptionalComputed \cup Alike, {"address"}),
    Text(ReadOnly, {"actual_interface"})})

ResourceIPv6DhcpClient == Menu("/ipv6/dhcp-client", Id, Entry, UNION {
    PropCommentRw, PropDisabledRw, PropDynamicRo, PropInterfaceRw, PropInvalidRo,
    Flag(Defaulted, {"use_peer_dns"}),
    Flag(Kept, {"accept_prefix_without_address", "allow_reconfigure", "validate_server_duid"}),
    Flag(Optional, {"rapid_commit", "use_interface_duid"}),
    Flag(Zeroed, {"add_default_route"}),
    Number(Kept, {"default_route_distance"}),
    Number(Optional, {"pool_prefix_length"}),
    Text(Kept, {"check_gateway"}),
    Text(Optional, {"pool_name", "script"}),
    Text(OptionalComputed \cup Kept, {"prefix_hint"}),
    Text(ReadOnly, {"address", "dhcp_server_v6", "duid", "expires_after", "gateway", "prefix",
      "status"}),
    Text(Respelled, {"custom_iana_id", "custom_iapd_id"}),
    TextList(Required, {"request"}),
    TextSet(Kept, {"default_route_tables", "prefix_address_lists"}),
    TextSet(Optional, {"dhcp_options"})})

ResourceIPv6DhcpClientOption == Menu("/ipv6/dhcp-client/option", Id, Entry, UNION {
    Number(Required, {"code"}),
    Text(Optional, {"value"}),
    Text(ReadOnly, {"raw_value"}),
    Text(Required, {"name"})})

ResourceIpv6DhcpServer == Menu("/ipv6/dhcp-server", Id, Entry, UNION {
    PropCommentRw, PropDisabledRw, PropDynamicRo, PropInvalidRo,
    Flag(Kept, {"rapid_commit"}),
    Flag(Optional, {"allow_dual_stack_queue", "ignore_ia_na_bindings", "use_radius", "use_reconfigure"}),
    Number(Kept, {"preference", "route_distance"}),
    Text(Kept, {"insert_queue_before"}),
    Text(Optional, {"address_pool", "binding_script", "parent_queue", "prefix_pool"}),
    Text(ReadOnly, {"duid"}),
    Text(Required, {"interface", "name"}),
    Text(Respelled, {"lease_time"}),
    TextSet(Optional, {"address_lists", "dhcp_option"})})

ResourceIpv6DhcpServerOption == Menu("/ipv6/dhcp-server/option", Id, Entry, UNION {
    PropCommentRw,
    Number(Required, {"code"}),
    Text(Optional, {"value"}),
    Text(ReadOnly, {"raw_value"}),
    Text(Required, {"name"})})

ResourceIpv6DhcpServerOptionSets == Menu("/ipv6/dhcp-server/option/sets", Id, Entry, UNION {
    PropCommentRw,
    Text(Required, {"name"}),
    TextSet(Optional, {"options"})})

ResourceIPv6FirewallAddrList == Menu("/ipv6/firewall/address-list", Id, Entry, UNION {
    PropCommentRw, PropDisabledRw, PropDynamicRo,
    Text(Countdown, {"timeout"}),
    Text(ReadOnly, {"creation_time"}),
    Text(Required, {"list"}),
    Text(Required \cup Alike, {"address"})})

ResourceIPv6FirewallFilter == Menu("/ipv6/firewall/filter", Id, Entry, UNION {
    PropCommentRw, PropDisabledRw, PropDynamicRo, PropPlaceBefore,
    Flag(ReadOnly, {"invalid"}),
    Flag(Zeroed, {"log"}),
    Number(Optional, {"dscp", "ingress_priority", "priority", "random"}),
    Text(Alike, {"dst_address", "src_address"}),
    Text(Optional, {"connection_bytes", "connection_limit", "connection_mark", "connection_rate",
      "connection_state", "connection_type", "content", "dst_address_type", "dst_limit", "dst_port",
      "headers", "hop_limit", "icmp_options", "in_bridge_port", "in_interface", "ipsec_policy",
      "jump_target", "limit", "log_prefix", "nth", "out_bridge_port", "out_interface",
      "packet_mark", "packet_size", "per_connection_classifier", "port", "reject_with",
      "routing_mark", "src_address_type", "src_port", "src_mac_address", "tcp_flags", "tcp_mss",
      "time", "tls_host"}),
    Text(Optional \cup Unset, {"dst_address_list", "in_bridge_port_list", "in_interface_list",
      "out_bridge_port_list", "out_interface_list", "protocol", "src_address_list"}),
    Text(OptionalComputed, {"address_list_timeout"}),
    Text(Required, {"action", "chain"})})

ResourceIPv6FirewallMangle == Menu("/ipv6/firewall/mangle", Id, Own, UNION {
    PropCommentRw, PropDisabledRw, PropDynamicRo, PropPlaceBefore,
    Flag(OptionalComputed, {"passthrough"}),
    Flag(ReadOnly, {"invalid"}),
    Flag(Zeroed, {"log"}),
    Number(Optional, {"dscp", "ingress_priority", "new_dscp", "priority", "random"}),
    Text(Alike, {"dst_address", "src_address"}),
    Text(Optional, {"address_list", "connection_bytes", "connection_limit", "connection_mark",
      "connection_nat_state", "connection_rate", "connection_state", "connection_type", "content",
      "dst_address_type", "dst_limit", "dst_port", "icmp_options", "in_bridge_port", "ipsec_policy",
      "limit", "log_prefix", "new_connection_mark", "new_mss", "new_packet_mark", "new_priority",
      "new_routing_mark", "new_ttl", "nth", "out_bridge_port", "packet_mark", "packet_size",
      "per_connection_classifier", "port", "protocol", "routing_mark", "src_address_type",
      "src_port", "src_mac_address", "tcp_flags", "tcp_mss", "time", "tls_host", "ttl"}),
    Text(Optional \cup Unset, {"dst_address_list", "in_bridge_port_list", "in_interface",
      "in_interface_list", "out_bridge_port_list", "out_interface", "out_interface_list",
      "src_address_list"}),
    Text(OptionalComputed, {"address_list_timeout"}),
    Text(Required, {"action", "chain"})})

ResourceIPv6FirewallNat == Menu("/ipv6/firewall/nat", Id, Own, UNION {
    PropCommentRw, PropDisabledRw, PropDynamicRo, PropPlaceBefore,
    Flag(Kept, {"log", "randomise_ports"}),
    Flag(ReadOnly, {"invalid"}),
    Number(Optional, {"dscp", "ingress_priority", "priority", "random"}),
    Text(Alike, {"dst_address", "src_address"}),
    Text(Kept, {"address_list_timeout"}),
    Text(Optional, {"address_list", "connection_bytes", "connection_limit", "connection_mark",
      "connection_rate", "connection_type", "content", "dst_address_type", "dst_limit", "dst_port",
      "icmp_options", "in_bridge_port", "ipsec_policy", "jump_target", "limit", "log_prefix", "nth",
      "out_bridge_port", "packet_mark", "packet_size", "port", "protocol", "routing_mark",
      "src_address_type", "src_port", "src_mac_address", "tcp_mss", "time", "to_address",
      "to_ports", "ttl"}),
    Text(Optional \cup Unset, {"dst_address_list", "in_bridge_port_list", "in_interface",
      "in_interface_list", "out_bridge_port_list", "out_interface", "out_interface_list",
      "src_address_list"}),
    Text(Required, {"action", "chain"})})

ResourceIPv6NeighborDiscovery == Dropping(Menu("/ipv6/nd", Id, Entry, UNION {
    PropCommentRw, PropDefaultRo, PropDisabledRw, PropInvalidRo,
    Flag(Defaulted, {"advertise_dns", "advertise_mac_address"}),
    Flag(Optional, {"managed_address_configuration", "other_configuration"}),
    Number(Optional, {"hop_limit", "mtu"}),
    Text(Defaulted, {"ra_delay", "ra_interval", "ra_preference", "ra_lifetime"}),
    Text(Kept, {"reachable_time", "retransmit_interval"}),
    Text(Optional, {"dns_servers", "dns"}),
    Text(Required, {"interface"}),
    TextList(Kept, {"pref64"})}))

ResourceIpv6NdPrefix == Menu("/ipv6/nd/prefix", Id, Entry, UNION {
    PropCommentRw, PropDisabledRw, PropInvalidRo,
    Flag(Kept, {"autonomous", "on_link"}),
    Text(Kept, {"6to4_interface"}),
    Text(Required, {"interface", "prefix"}),
    Text(Respelled, {"preferred_lifetime", "valid_lifetime"})})

ResourceIpv6Pool == Menu("/ipv6/pool", Id, Entry, UNION {
    PropDynamicRo,
    Number(Required, {"prefix_length"}),
    Text(Kept, {"prefix"}),
    Text(Required, {"name"})})

ResourceIPv6Route == Menu("/ipv6/route", Id, Entry, UNION {
    PropCommentRw, PropDisabledRw, PropDynamicRo, PropHwOffloadedRo, PropInactiveRo,
    Flag(Optional, {"blackhole", "suppress_hw_offload"}),
    Flag(ReadOnly, {"active", "ecmp", "static"}),
    Number(Defaulted, {"distance", "scope", "target_scope"}),
    Text(Defaulted, {"routing_table"}),
    Text(Optional, {"check_gateway", "pref_src"}),
    Text(OptionalComputed, {"vrf_interface"}),
    Text(ReadOnly, {"immediate_gw"}),
    Text(Required, {"dst_address", "gateway"})})

ResourceIpv6Settings == Menu("/ipv6/settings", Id, Setting, UNION {
    Flag(Kept, {"allow_fast_path", "disable_link_local_address", "forward"}),
    Flag(Optional, {"disable_ipv6"}),
    Flag(ReadOnly, {"ipv6_fast_path_active", "ipv6_fasttrack_active"}),
    Number(Kept, {"max_neighbor_entries", "min_neighbor_entries", "soft_max_neighbor_entries"}),
    Text(Kept, {"accept_redirects", "accept_router_advertisements", "accept_router_advertisements_on",
      "multipath_hash_policy"}),
    Text(Respelled, {"stale_neighbor_detect_interval", "stale_neighbor_timeout"})})

ResourceRoutingBfdConfiguration == Menu("/routing/bfd/configuration", Id, Entry, UNION {
    PropDisabledRw, PropInactiveRo, PropVrfRw,
    Flag(Optional, {"forbid_bfd"}),
    Number(Optional, {"multiplier"}),
    Text(Optional, {"address_list"}),
    Text(Respelled, {"min_rx", "min_tx"}),
    TextSet(Optional, {"addresses", "interfaces"})})

BgpConnectionInput == UNION {
    Flag(Optional, {"ignore_as_path_len"}),
    Number(Optional, {"allow_as", "limit_process_routes_ipv4", "limit_process_routes_ipv6"}),
    Text(Kept, {"filter_communities", "filter_ext_communities", "filter_large_communities",
      "filter_nlri", "filter_unknown"}),
    Text(Optional, {"accept_communities", "accept_ext_communities", "accept_large_communities",
      "accept_nlri", "accept_unknown", "affinity", "filter"})}

BgpConnectionLocal == UNION {
    Number(Defaulted, {"port"}),
    Number(Optional, {"ttl"}),
    Text(Optional, {"address"}),
    Text(ReadOnly, {"default_address"}),
    Text(Required, {"role"})}

BgpConnectionOutput == UNION {
    Flag(Kept, {"as_override", "remove_private_as"}),
    Flag(Optional, {"keep_sent_attributes", "no_client_to_client_reflection", "no_early_cut"}),
    Number(Optional, {"default_prepend"}),
    Text(Kept, {"add_path"}),
    Text(Optional, {"affinity", "default_originate", "filter_chain", "filter_select", "network",
      "redistribute"})}

BgpConnectionRemote == UNION {
    Number(Defaulted, {"port"}),
    Number(Optional, {"ttl"}),
    Text(Optional, {"address", "allowed_as", "as"})}

ResourceRoutingBgpConnection == Menu("/routing/bgp/connection", Id, Entry, UNION {
    PropCommentRw, PropDisabledRw, PropVrfRw,
    Flag(Defaulted, {"connect", "listen"}),
    Flag(Optional, {"multihop", "use_bfd"}),
    Flag(ReadOnly, {"inactive"}),
    Text(Defaulted, {"address_families", "nexthop_choice"}),
    Text(Defaulted \cup Respelled \cup Unset, {"keepalive_time"}),
    Text(Kept, {"add_path_out", "instance"}),
    Text(Optional, {"cisco_vpls_nlri_len_fmt", "cluster_id", "router_id", "save_to"}),
    Text(Optional \cup Secret, {"tcp_md5_key"}),
    Text(OptionalComputed, {"routing_table"}),
    Text(OptionalComputed \cup Unset, {"hold_time"}),
    Text(Required, {"as", "name"}),
    TextSet(Optional, {"templates"}),
    Block(Optional, "input", BgpConnectionInput),
    Block(Optional, "local", BgpConnectionLocal),
    Block(OptionalComputed, "output", BgpConnectionOutput),
    Block(Optional, "remote", BgpConnectionRemote)})

BgpEvpnExport == TextSet(Optional, {"route_targets"})

BgpEvpnImport == TextSet(Optional, {"route_targets"})

ResourceRoutingBgpEvpn == Menu("/routing/bgp/evpn", Id, Entry, UNION {
    PropCommentRw, PropDisabledRw,
    Number(Optional, {"vni"}),
    Text(Optional, {"rd", "vrf"}),
    Text(Required, {"instance", "name"}),
    Block(Optional, "export", BgpEvpnExport),
    Block(Optional, "import", BgpEvpnImport)})

ResourceRoutingBgpInstance == Menu("/routing/bgp/instance", Id, Entry, UNION {
    PropCommentRw, PropDisabledRw, PropInactiveRo,
    Flag(Optional, {"ignore_as_path_len"}),
    Text(Optional, {"as", "cluster_id", "router_id", "routing_table", "vrf"}),
    Text(Required, {"name"})})

BgpTemplateInput == UNION {
    Flag(Optional, {"ignore_as_path_len"}),
    Number(Optional, {"allow_as", "limit_process_routes_ipv4", "limit_process_routes_ipv6"}),
    Text(Kept, {"filter_communities", "filter_ext_communities", "filter_large_communities",
      "filter_nlri", "filter_unknown"}),
    Text(Optional, {"accept_comunities", "accept_ext_communities", "accept_large_comunities",
      "accept_nlri", "accept_unknown", "affinity", "filter"})}

BgpTemplateOutput == UNION {
    Flag(Optional, {"keep_sent_attributes", "no_client_to_client_reflection", "no_early_cut"}),
    Number(Optional, {"default_prepend"}),
    Text(Kept, {"add_path"}),
    Text(Optional, {"affinity", "default_originate", "filter_chain", "filter_select", "network",
      "redistribute"})}

ResourceRoutingBgpTemplate == Menu("/routing/bgp/template", Id, Entry, UNION {
    PropCommentRw, PropDefaultRo, PropDisabledRw, PropVrfRw,
    Flag(Optional, {"as_override", "multihop", "remove_private_as", "use_bfd"}),
    Text(Defaulted, {"address_families", "nexthop_choice"}),
    Text(Defaulted \cup Respelled, {"keepalive_time"}),
    Text(Kept, {"add_path_out"}),
    Text(Optional, {"cisco_vpls_nlri_len_fmt", "cluster_id", "router_id", "save_to"}),
    Text(OptionalComputed, {"hold_time", "routing_table"}),
    Text(Required, {"as", "name"}),
    TextSet(Optional, {"templates"}),
    Block(Optional, "input", BgpTemplateInput),
    Block(OptionalComputed, "output", BgpTemplateOutput)})

BgpVpnExport == UNION {
    Text(Optional, {"filter_chain", "filter_select", "redistribute"}),
    TextSet(Optional, {"route_targets"})}

BgpVpnImport == UNION {
    Text(Optional, {"filter_chain", "router_id"}),
    TextSet(Optional, {"route_targets"})}

ResourceRoutingBgpVpn == Menu("/routing/bgp/vpn", Id, Entry, UNION {
    PropDisabledRw, PropInactiveRo, PropVrfRw,
    Text(Kept, {"label_allocation_policy"}),
    Text(Optional, {"instance"}),
    Text(Required, {"name", "route_distinguisher"}),
    Block(Optional, "export", BgpVpnExport),
    Block(Optional, "import", BgpVpnImport)})

ResourceRoutingFilterRule == Menu("/routing/filter/rule", Id, Entry, UNION {
    PropCommentRw, PropDisabledRw, PropInactiveRo,
    Text(Required, {"chain", "rule"})})

ResourceRoutingId == Renaming(
  {<<<<"router_id">>, <<"id">>>>},
  Menu("/routing/id", Id, Entry, UNION {
    PropCommentRw, PropDisabledRw, PropDynamicRo, PropInactiveRo,
    Text(Optional, {"router_id", "select_dynamic_id", "select_from_vrf"}),
    Text(ReadOnly, {"dynamic_id"}),
    Text(Required, {"name"})}))

ResourceRoutingIgmpProxyInterface == Menu("/routing/igmp-proxy/interface", Id, Entry, UNION {
    PropCommentRw, PropDisabledRw, PropInactiveRo, PropInterfaceRw,
    Flag(Optional, {"upstream"}),
    Number(Kept, {"threshold"}),
    TextSet(Optional, {"alternative_subnets"})})

ResourceRoutingOspfArea == Menu("/routing/ospf/area", Id, Entry, UNION {
    PropCommentRw, PropDisabledRw, PropInactiveRo, PropNameForceNewRw,
    Flag(Optional \cup Unset, {"no_summaries"}),
    Number(Optional, {"default_cost"}),
    Text(Defaulted, {"area_id", "type"}),
    Text(Optional, {"nssa_translate"}),
    Text(Required, {"instance"})})

ResourceRoutingOspfAreaRange == Menu("/routing/ospf/area/range", Id, Entry, UNION {
    PropCommentRw, PropDisabledRw,
    Flag(Kept, {"advertise"}),
    Number(Optional, {"cost"}),
    Text(Optional, {"prefix"}),
    Text(Required, {"area"})})

ResourceRoutingOspfInstance == Menu("/routing/ospf/instance", Id, Entry, UNION {
    PropCommentRw, PropDisabledRw, PropInactiveRo, PropNameForceNewRw, PropVrfRw,
    Number(Defaulted, {"version"}),
    Number(Optional, {"domain_tag"}),
    Text(Defaulted, {"router_id"}),
    Text(Optional, {"domain_id", "in_filter_chain", "mpls_te_address", "mpls_te_area",
      "originate_default", "out_filter_chain", "out_filter_select", "routing_table"}),
    TextSet(Optional, {"redistribute"})})

ResourceRoutingOspfInterfaceTemplate == Menu("/routing/ospf/interface-template", Id, Entry, UNION {
    PropCommentRw, PropDisabledRw, PropInactiveRo,
    Flag(Kept, {"use_bfd"}),
    Flag(Zeroed \cup Unset, {"passive"}),
    Number(Defaulted, {"cost", "priority"}),
    Number(Optional, {"auth_id"}),
    Number(Zeroed, {"instance_id"}),
    Text(Defaulted, {"type"}),
    Text(Defaulted \cup Respelled, {"dead_interval", "hello_interval", "retransmit_interval",
      "transmit_delay"}),
    Text(Optional, {"auth", "prefix_list", "vlink_neighbor_id", "vlink_transit_area"}),
    Text(Optional \cup Secret, {"authentication_key", "auth_key"}),
    Text(Required, {"area"}),
    TextSet(Optional, {"interfaces", "networks"})})

ResourceRoutingRule == Menu("/routing/rule", Id, Entry, UNION {
    PropCommentRw, PropDisabledRw, PropInactiveRo,
    Number(Optional, {"min_prefix"}),
    Text(Kept, {"action", "table"}),
    Text(Optional, {"dst_address", "interface", "routing_mark", "src_address"})})

ResourceRoutingTable == Menu("/routing/table", Id, Own, UNION {
    PropCommentRw, PropDisabledRw, PropDynamicRo, PropInvalidRo,
    Flag(Defaulted \cup ForceNew, {"fib"}),
    Text(Optional, {"name"})})

\* The menus of this group that the provider offers a resource for.
RoutingMenu == {ResourceIPv6Address, ResourceIPv6DhcpClient, ResourceIPv6DhcpClientOption,
    ResourceIpv6DhcpServer, ResourceIpv6DhcpServerOption, ResourceIpv6DhcpServerOptionSets,
    ResourceIPv6FirewallAddrList, ResourceIPv6FirewallFilter, ResourceIPv6FirewallMangle,
    ResourceIPv6FirewallNat, ResourceIPv6NeighborDiscovery, ResourceIpv6NdPrefix, ResourceIpv6Pool,
    ResourceIPv6Route, ResourceIpv6Settings, ResourceRoutingBfdConfiguration,
    ResourceRoutingBgpConnection, ResourceRoutingBgpEvpn, ResourceRoutingBgpInstance,
    ResourceRoutingBgpTemplate, ResourceRoutingBgpVpn, ResourceRoutingFilterRule, ResourceRoutingId,
    ResourceRoutingIgmpProxyInterface, ResourceRoutingOspfArea, ResourceRoutingOspfAreaRange,
    ResourceRoutingOspfInstance, ResourceRoutingOspfInterfaceTemplate, ResourceRoutingRule,
    ResourceRoutingTable}
=============================================================================
