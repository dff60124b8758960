--------------------------- MODULE DataSources ---------------------------
(* Data sources: lists and readings that nothing is written to.            *)
EXTENDS Schemas

DatasourceIPFirewall == Menu("(none)", Id, Reading, UNION {
    Block(OptionalComputed, "address_list", UNION {
        PropFilterRw,
        Flag(ReadOnly, {"disabled", "dynamic"}),
        Text(ReadOnly, {"id", "address", "comment", "creation_time", "list", "timeout"})}),
    Block(OptionalComputed, "mangle", UNION {
        PropFilterRw,
        Flag(ReadOnly, {"disabled", "dynamic", "fragment", "invalid", "log", "passthrough"}),
        Number(ReadOnly, {"bytes", "dscp", "ingress_priority", "new_dscp", "random"}),
        Text(ReadOnly, {"id", "action", "address_list", "address_list_timeout", "chain", "comment",
          "connection_bytes", "connection_limit", "connection_mark", "connection_nat_state",
          "connection_rate", "connection_state", "connection_type", "content", "dst_address",
          "dst_address_list", "dst_address_type", "dst_limit", "dst_port", "hotspot",
          "icmp_options", "in_bridge_port", "in_bridge_port_list", "in_interface",
          "in_interface_list", "ipsec_policy", "ipv4_options", "jump_target", "layer7_protocol",
          "limit", "log_prefix", "new_connection_mark", "new_mss", "new_packet_mark",
          "new_priority", "new_routing_mark", "new_ttl", "nth", "out_bridge_port",
          "out_bridge_port_list", "out_interface", "out_interface_list", "packet_mark",
          "packet_size", "per_connection_classifier", "port", "protocol", "psd", "routing_mark",
          "route_dst", "src_address", "src_address_list", "src_address_type", "src_port",
          "src_mac_address", "tcp_flags", "tcp_mss", "time", "tls_host", "ttl"})}),
    Block(OptionalComputed, "nat", UNION {
        PropFilterRw,
        Flag(ReadOnly, {"disabled", "dynamic", "fragment", "invalid", "log", "same_not_by_dst"}),
        Number(ReadOnly, {"bytes", "dscp", "ingress_priority", "priority", "random"}),
        Text(ReadOnly, {"id", "action", "address_list", "address_list_timeout", "chain", "comment",
          "connection_bytes", "connection_limit", "connection_mark", "connection_rate",
          "connection_type", "content", "dst_address", "dst_address_list", "dst_address_type",
          "dst_limit", "dst_port", "hotspot", "icmp_options", "in_bridge_port",
          "in_bridge_port_list", "in_interface", "in_interface_list", "ipsec_policy",
          "ipv4_options", "jump_target", "layer7_protocol", "limit", "log_prefix", "nth",
          "out_bridge_port", "out_bridge_port_list", "out_interface", "out_interface_list",
          "packet_mark", "packet_size", "per_connection_classifier", "port", "protocol", "psd",
          "routing_mark", "socks5_port", "socks5_server", "src_address", "src_address_list",
          "src_address_type", "src_port", "src_mac_address", "tcp_mss", "time", "to_addresses",
          "to_ports", "ttl"})}),
    Block(OptionalComputed, "rules", UNION {
        PropFilterRw,
        Flag(ReadOnly, {"disabled", "dynamic", "fragment", "invalid", "hw_offload", "log"}),
        Number(ReadOnly, {"bytes", "dscp", "ingress_priority", "priority", "random"}),
        Text(ReadOnly, {"id", "action", "address_list", "address_list_timeout", "chain", "comment",
          "connection_bytes", "connection_limit", "connection_mark", "connection_nat_state",
          "connection_rate", "connection_state", "connection_type", "content", "dst_address",
          "dst_address_list", "dst_address_type", "dst_limit", "dst_port", "hotspot",
          "icmp_options", "in_bridge_port", "in_bridge_port_list", "in_interface",
          "in_interface_list", "ipsec_policy", "ipv4_options", "jump_target", "layer7_protocol",
          "limit", "log_prefix", "nth", "out_bridge_port", "out_bridge_port_list", "out_interface",
          "out_interface_list", "packet_mark", "packet_size", "per_connection_classifier", "port",
          "protocol", "psd", "reject_with", "routing_table", "routing_mark", "src_address",
          "src_address_list", "src_address_type", "src_port", "src_mac_address", "tcp_flags",
          "tcp_mss", "time", "tls_host", "ttl"})})})

DatasourceIPv6Firewall == Menu("(none)", Id, Reading, UNION {
    Block(OptionalComputed, "mangle", UNION {
        PropFilterRw,
        Flag(ReadOnly, {"disabled", "dynamic", "invalid", "log", "passthrough"}),
        Number(ReadOnly, {"bytes", "dscp", "ingress_priority", "new_dscp", "priority", "random"}),
        Text(ReadOnly, {"id", "action", "address_list", "address_list_timeout", "chain", "comment",
          "connection_bytes", "connection_limit", "connection_mark", "connection_nat_state",
          "connection_rate", "connection_state", "connection_type", "content", "dst_address",
          "dst_address_list", "dst_address_type", "dst_limit", "dst_port", "icmp_options",
          "in_bridge_port", "in_bridge_port_list", "in_interface", "in_interface_list",
          "ipsec_policy", "jump_target", "limit", "log_prefix", "new_connection_mark", "new_mss",
          "new_packet_mark", "new_priority", "new_routing_mark", "new_ttl", "nth",
          "out_bridge_port", "out_bridge_port_list", "out_interface", "out_interface_list",
          "packet_mark", "packet_size", "per_connection_classifier", "port", "protocol",
          "routing_mark", "src_address", "src_address_list", "src_address_type", "src_port",
          "src_mac_address", "tcp_flags", "tcp_mss", "time", "tls_host", "ttl"})}),
    Block(OptionalComputed, "nat", UNION {
        PropFilterRw,
        Flag(ReadOnly, {"disabled", "dynamic", "invalid", "log"}),
        Number(ReadOnly, {"bytes", "dscp", "ingress_priority", "priority", "random"}),
        Text(ReadOnly, {"id", "action", "address_list", "address_list_timeout", "chain", "comment",
          "connection_bytes", "connection_limit", "connection_mark", "connection_rate",
          "connection_type", "content", "dst_address", "dst_address_list", "dst_address_type",
          "dst_limit", "dst_port", "icmp_options", "in_bridge_port", "in_bridge_port_list",
          "in_interface", "in_interface_list", "ipsec_policy", "jump_target", "limit", "log_prefix",
          "nth", "out_bridge_port", "out_bridge_port_list", "out_interface", "out_interface_list",
          "packet_mark", "packet_size", "per_connection_classifier", "port", "protocol",
          "routing_mark", "src_address", "src_address_list", "src_address_type", "src_port",
          "src_mac_address", "tcp_flags", "tcp_mss", "time", "tls_host", "to_address", "to_ports"})}),
    Block(OptionalComputed, "rules", UNION {
        PropFilterRw,
        Flag(ReadOnly, {"disabled", "dynamic", "invalid", "log"}),
        Number(ReadOnly, {"bytes", "dscp", "ingress_priority", "priority", "random"}),
        Text(ReadOnly, {"id", "action", "chain", "comment", "connection_bytes", "connection_limit",
          "connection_mark", "connection_nat_state", "connection_rate", "connection_state",
          "connection_type", "content", "dst_address", "dst_address_list", "dst_address_type",
          "dst_limit", "dst_port", "icmp_options", "in_bridge_port", "in_bridge_port_list",
          "in_interface", "in_interface_list", "ipsec_policy", "limit", "log_prefix", "nth",
          "out_bridge_port", "out_bridge_port_list", "out_interface", "out_interface_list",
          "packet_mark", "packet_size", "per_connection_classifier", "port", "protocol",
          "reject_with", "routing_table", "routing_mark", "src_address", "src_address_list",
          "src_address_type", "src_port", "src_mac_address", "tcp_flags", "tcp_mss", "time",
          "tls_host", "ttl"})})})

DatasourceWiFiEasyConnect == Menu("(none)", Id, Reading, UNION {
    Flag(Optional, {"hidden", "eap_anonymous"}),
    Text(Defaulted, {"type"}),
    Text(Optional, {"eap_method", "eap_identity", "eap_phase2"}),
    Text(ReadOnly, {"qr_code"}),
    Text(Required, {"ssid"}),
    Text(Required \cup Secret, {"password"})})

DatasourceX509 == Menu("(none)", Id, Reading, UNION {
    Flag(ReadOnly, {"authority"}),
    Number(ReadOnly, {"version"}),
    Text(ReadOnly, {"id", "akid", "common_name", "digest_algorithm", "fingerprint", "invalid_after",
      "invalid_before", "issuer", "key_type", "serial_number", "signature_algorithm", "skid",
      "subject", "subject_alt_name", "pem"}),
    Text(Required, {"data"})})

DatasourceFiles == Menu("/file", Id, Reading, UNION {
    PropFilterRw,
    Block(ReadOnly, "files", UNION {
        Number(ReadOnly, {"size"}),
        Text(ReadOnly, {"id", "contents", "creation_time", "last_modified", "name", "package_architecture",
          "package_built_time", "package_name", "package_version", "type"})})})

DatasourceInterfaces == Menu("/interface", Id, Reading, UNION {
    PropFilterRw,
    Block(ReadOnly, "interfaces", UNION {
        Flag(ReadOnly, {"dynamic", "disabled", "inactive", "running", "slave"}),
        Number(ReadOnly, {"actual_mtu", "l2mtu", "max_l2mtu"}),
        Text(ReadOnly, {"id", "default_name", "comment", "last_link_down_time", "last_link_up_time",
          "mac_address", "mtu", "name", "type"})})})

DatasourceInterfaceBridgeFilter == Menu("/interface/bridge/filter", Id, Reading, UNION {
    PropFilterRw,
    Block(ReadOnly, "filters", UNION {
        Flag(ReadOnly, {"dynamic", "invalid"}),
        Number(ReadOnly, {"bytes", "packets"}),
        Text(ReadOnly, {"id", "action", "in_interface", "chain", "comment", "mac_protocol"})})})

DatasourceIPAddresses == Menu("/ip/address", Id, Reading, UNION {
    PropFilterRw,
    Block(ReadOnly, "addresses", UNION {
        PropInterfaceRw,
        Flag(ReadOnly, {"disabled", "dynamic", "invalid", "slave"}),
        Text(ReadOnly, {"id", "actual_interface", "address", "comment", "network"})})})

DatasourceIpArp == Menu("/ip/arp", Id, Reading, UNION {
    PropFilterRw,
    Block(ReadOnly, "data", UNION {
        Flag(ReadOnly, {"dhcp", "complete", "disabled", "dynamic", "invalid", "published"}),
        Text(ReadOnly, {"id", "address", "interface", "mac_address"})})})

DatasourceIpDhcpServerLeases == Menu("/ip/dhcp-server/lease", Id, Reading, UNION {
    PropFilterRw,
    Block(ReadOnly, "data", UNION {
        Flag(ReadOnly, {"allow_dual_stack_queue", "blocked", "disabled", "dynamic", "radius"}),
        Text(ReadOnly, {"id", "active_client_id", "active_server", "active_address", "active_mac_address",
          "address", "address_lists", "age", "comment", "class_id", "client_id", "dhcp_option",
          "expires_after", "host_name", "last_seen", "mac_address", "server", "status"})})})

DatasourceIPRoutes == Menu("/ip/route", Id, Reading, UNION {
    PropFilterRw,
    Block(ReadOnly, "routes", UNION {
        Flag(ReadOnly, {"active", "blackhole", "connect", "dhcp", "disabled", "dynamic", "ecmp",
          "hw_offloaded", "inactive", "static", "suppress_hw_offload"}),
        Number(ReadOnly, {"distance", "scope", "target_scope"}),
        Text(ReadOnly, {"id", "comment", "dst_address", "gateway", "immediate_gw", "local_address",
          "pref_src", "routing_table", "vrf_interface"})})})

DatasourceIPServices == Menu("/ip/service", Id, Reading, UNION {
    PropFilterRw,
    Block(ReadOnly, "dynamic_services", UNION {
        Flag(ReadOnly, {"connection", "disabled", "dynamic"}),
        Number(ReadOnly, {"max_sessions", "port"}),
        Text(ReadOnly, {"id", "address", "certificate", "invalid", "local", "name", "proto", "remote",
          "tls_version", "vrf"})}),
    Block(ReadOnly, "services", UNION {
        Flag(ReadOnly, {"connection", "disabled", "dynamic"}),
        Number(ReadOnly, {"max_sessions", "port"}),
        Text(ReadOnly, {"id", "address", "certificate", "invalid", "name", "proto", "tls_version", "vrf"})})})

DatasourceIPv6Addresses == Menu("/ipv6/address", Id, Reading, UNION {
    PropFilterRw,
    Block(ReadOnly, "addresses", UNION {
        Flag(ReadOnly, {"advertise", "deprecated", "disabled", "dynamic", "eui_64", "invalid", "link_local",
          "no_dad", "slave"}),
        Text(ReadOnly, {"id", "actual_interface", "address", "comment", "from_pool", "interface"})})})

DatasourceSystemResource == Menu("/system/resource", Id, Reading, UNION {
    Number(ReadOnly, {"cpu_count", "total_hdd_space", "total_memory"}),
    Text(ReadOnly, {"architecture_name", "board_name", "build_time", "cpu", "factory_software",
      "platform", "version"})})

DatasourceSystemRouterboard == Menu("/system/routerboard", Id, Reading, UNION {
    Flag(ReadOnly, {"routerboard"}),
    Text(ReadOnly, {"board_name", "current_firmware", "factory_firmware", "firmware_type", "model",
      "revision", "serial_number", "upgrade_firmware"})})

\* The data sources of the provider.
DataSource == {DatasourceIPFirewall, DatasourceIPv6Firewall, DatasourceWiFiEasyConnect,
    DatasourceX509, DatasourceFiles, DatasourceInterfaces, DatasourceInterfaceBridgeFilter,
    DatasourceIPAddresses, DatasourceIpArp, DatasourceIpDhcpServerLeases, DatasourceIPRoutes,
    DatasourceIPServices, DatasourceIPv6Addresses, DatasourceSystemResource,
    DatasourceSystemRouterboard}
=============================================================================
