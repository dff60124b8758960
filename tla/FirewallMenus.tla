--------------------------- MODULE FirewallMenus ---------------------------
(* The IPv4 firewall, IPsec and the hotspot.                               *)
EXTENDS Schemas

ResourceIPFirewallAddrList == Menu("/ip/firewall/address-list", Id, Entry, UNION {
    PropCommentRw, PropDisabledRw, PropDynamicRo,
    Text(Countdown, {"timeout"}),
    Text(ReadOnly, {"creation_time"}),
    Text(Required, {"list"}),
    Text(Required \cup Alike, {"address"})})

ResourceIPConnectionTracking == Menu("/ip/firewall/connection/tracking", Name, Setting, UNION {
    Flag(Optional, {"liberal_tcp_tracking"}),
    Flag(ReadOnly, {"active_ipv4", "active_ipv6"}),
    Text(Kept, {"enabled", "generic_timeout", "icmp_timeout", "loose_tcp_tracking", "tcp_close_timeout",
      "tcp_close_wait_timeout", "tcp_established_timeout", "tcp_fin_wait_timeout",
      "tcp_last_ack_timeout", "tcp_max_retrans_timeout", "tcp_syn_received_timeout",
      "tcp_syn_sent_timeout", "tcp_time_wait_timeout", "tcp_unacked_timeout", "udp_stream_timeout",
      "udp_timeout"}),
    Text(ReadOnly, {"max_entries"})})

ResourceIPFirewallFilter == Menu("/ip/firewall/filter", Id, Own, UNION {
    PropCommentRw, PropDisabledRw, PropDynamicRo, PropPlaceBefore,
    Flag(Kept, {"log"}),
    Flag(Optional, {"fragment", "hw_offload"}),
    Flag(ReadOnly, {"invalid"}),
    Number(Optional, {"dscp", "ingress_priority", "priority", "random"}),
    Text(Alike \cup Unset, {"dst_address", "src_address"}),
    Text(Optional, {"address_list", "connection_bytes", "connection_limit", "connection_mark",
      "connection_nat_state", "connection_rate", "connection_state", "connection_type", "content",
      "dst_address_type", "dst_limit", "dst_port", "hotspot", "icmp_options", "in_bridge_port",
      "ipsec_policy", "ipv4_options", "jump_target", "layer7_protocol", "limit", "log_prefix",
      "nth", "out_bridge_port", "packet_mark", "packet_size", "per_connection_classifier", "port",
      "psd", "reject_with", "routing_table", "routing_mark", "src_address_type", "src_port",
      "src_mac_address", "tcp_flags", "tcp_mss", "time", "tls_host", "ttl"}),
    Text(Optional \cup Unset, {"dst_address_list", "in_bridge_port_list", "in_interface",
      "in_interface_list", "out_bridge_port_list", "out_interface", "out_interface_list",
      "protocol", "src_address_list"}),
    Text(Required, {"action", "chain"}),
    Text(Respelled, {"address_list_timeout"})})

ResourceIpFirewallLayer7Protocol == Menu("/ip/firewall/layer7-protocol", Id, Entry, Text(Optional, {"name", "regexp"}))

ResourceIPFirewallMangle == Menu("/ip/firewall/mangle", Id, Own, UNION {
    PropCommentRw, PropDisabledRw, PropDynamicRo, PropPlaceBefore,
    Flag(Optional, {"fragment"}),
    Flag(OptionalComputed, {"passthrough"}),
    Flag(ReadOnly, {"invalid"}),
    Flag(Zeroed, {"log"}),
    Number(Optional, {"dscp", "ingress_priority", "new_dscp", "random"}),
    Text(Alike \cup Unset, {"dst_address"}),
    Text(Defaulted, {"address_list_timeout"}),
    Text(Optional, {"address_list", "connection_bytes", "connection_limit", "connection_mark",
      "connection_nat_state", "connection_rate", "connection_state", "connection_type", "content",
      "dst_address_type", "dst_limit", "dst_port", "hotspot", "icmp_options", "in_bridge_port",
      "ipsec_policy", "ipv4_options", "jump_target", "layer7_protocol", "limit", "log_prefix",
      "new_connection_mark", "new_mss", "new_packet_mark", "new_priority", "new_routing_mark",
      "new_ttl", "nth", "out_bridge_port", "packet_mark", "packet_size",
      "per_connection_classifier", "port", "protocol", "psd", "routing_mark", "route_dst",
      "src_address_type", "src_port", "src_mac_address", "tcp_flags", "tcp_mss", "time", "tls_host",
      "ttl"}),
    Text(Optional \cup Unset, {"dst_address_list", "in_bridge_port_list", "in_interface",
      "in_interface_list", "out_bridge_port_list", "out_interface", "out_interface_list",
      "src_address", "src_address_list"}),
    Text(Required, {"action", "chain"})})

ResourceIPFirewallNat == Menu("/ip/firewall/nat", Id, Own, UNION {
    PropCommentRw, PropDisabledRw, PropDynamicRo, PropPlaceBefore,
    Flag(Kept, {"log", "randomise_ports"}),
    Flag(Optional, {"fragment", "same_not_by_dst"}),
    Flag(ReadOnly, {"invalid"}),
    Number(Kept, {"socks5_port"}),
    Number(Optional, {"dscp", "ingress_priority", "priority", "random"}),
    Text(Alike \cup Unset, {"dst_address", "src_address"}),
    Text(Kept, {"address_list_timeout", "socks5_server", "socksify_service"}),
    Text(Optional, {"address_list", "connection_bytes", "connection_limit", "connection_mark",
      "connection_rate", "connection_type", "content", "dst_address_type", "dst_limit", "dst_port",
      "hotspot", "icmp_options", "in_bridge_port", "ipsec_policy", "ipv4_options", "jump_target",
      "layer7_protocol", "limit", "log_prefix", "nth", "out_bridge_port", "packet_mark",
      "packet_size", "per_connection_classifier", "port", "protocol", "psd", "routing_mark",
      "src_address_type", "src_port", "src_mac_address", "tcp_mss", "time", "to_addresses",
      "to_ports", "ttl"}),
    Text(Optional \cup Unset, {"dst_address_list", "in_bridge_port_list", "in_interface",
      "in_interface_list", "out_bridge_port_list", "out_interface", "out_interface_list",
      "src_address_list"}),
    Text(Required, {"action", "chain"})})

ResourceIPFirewallRaw == Menu("/ip/firewall/raw", Id, Own, UNION {
    PropCommentRw, PropDisabledRw, PropDynamicRo, PropPlaceBefore,
    Flag(Kept, {"log"}),
    Flag(Optional, {"fragment"}),
    Flag(ReadOnly, {"invalid"}),
    Number(Optional, {"dscp", "ingress_priority", "priority", "random"}),
    Text(Alike \cup Unset, {"dst_address", "src_address"}),
    Text(Optional, {"address_list", "content", "dst_address_type", "dst_limit", "dst_port", "hotspot",
      "icmp_options", "in_bridge_port", "ipsec_policy", "ipv4_options", "jump_target", "limit",
      "log_prefix", "nth", "out_bridge_port", "packet_mark", "packet_size",
      "per_connection_classifier", "port", "psd", "src_address_type", "src_port", "src_mac_address",
      "tcp_flags", "tcp_mss", "time", "tls_host", "ttl"}),
    Text(Optional \cup Unset, {"dst_address_list", "in_bridge_port_list", "in_interface",
      "in_interface_list", "out_bridge_port_list", "out_interface", "out_interface_list",
      "protocol", "src_address_list"}),
    Text(Required, {"action", "chain"}),
    Text(Respelled, {"address_list_timeout"})})

ResourceIpHotspot == Menu("/ip/hotspot", Id, Entry, UNION {
    PropDisabledRw, PropInvalidRo,
    Text(Kept, {"addresses_per_mac", "profile"}),
    Text(Optional, {"address_pool"}),
    Text(Required, {"interface", "name"}),
    Text(Respelled, {"idle_timeout", "login_timeout"}),
    Text(Respelled \cup Skipped, {"keepalive_timeout"})})

ResourceIpHotspotIpBinding == Menu("/ip/hotspot/ip-binding", Id, Entry, UNION {
    PropCommentRw, PropDisabledRw,
    Text(Kept, {"server"}),
    Text(Optional, {"address", "mac_address", "to_address", "type"})})

ResourceIpHotspotProfile == Menu("/ip/hotspot/profile", Id, Entry, UNION {
    Flag(Kept, {"radius_accounting"}),
    Flag(Optional, {"https_redirect", "split_user_domain", "use_radius"}),
    Text(Kept, {"hotspot_address", "html_directory", "http_proxy", "mac_auth_mode", "nas_port_type",
      "radius_location_id", "radius_mac_format", "smtp_server", "ssl_certificate",
      "trial_user_profile"}),
    Text(Optional, {"dns_name", "html_directory_override", "radius_default_domain",
      "radius_location_name", "rate_limit"}),
    Text(Optional \cup Secret, {"mac_auth_password"}),
    Text(Required, {"name"}),
    Text(Respelled, {"http_cookie_lifetime", "radius_interim_update", "trial_uptime_limit",
      "trial_uptime_reset"}),
    TextSet(Kept, {"login_by"})})

ResourceIpHotspotServicePort == Menu("/ip/hotspot/service-port", Id, Own, UNION {
    PropDisabledRw,
    Text(ReadOnly, {"ports"}),
    Text(Required \cup Skipped, {"name"})})

ResourceIpHotspotUser == Menu("/ip/hotspot/user", Id, Entry, UNION {
    PropCommentRw, PropDefaultRo, PropDisabledRw, PropDynamicRo,
    Number(Optional, {"address", "limit_bytes_in", "limit_bytes_out", "limit_bytes_total",
      "limit_uptime", "mac_address"}),
    Text(Kept, {"profile", "server"}),
    Text(Optional, {"email", "routes"}),
    Text(Optional \cup Secret, {"password"}),
    Text(Required, {"name"})})

ResourceIpHotspotUserProfile == Menu("/ip/hotspot/user/profile", Id, Entry, UNION {
    PropDefaultRo,
    Flag(Kept, {"transparent_proxy"}),
    Flag(Optional, {"add_mac_cookie", "advertise"}),
    Text(Kept, {"advertise_timeout", "advertise_url", "idle_timeout", "open_status_page",
      "shared_users"}),
    Text(Kept \cup Unset, {"parent_queue", "queue_type"}),
    Text(Optional, {"address_list", "address_pool", "incoming_filter", "incoming_packet_mark",
      "on_login", "on_logout", "outgoing_filter", "outgoing_packet_mark", "rate_limit"}),
    Text(Optional \cup Unset, {"insert_queue_before"}),
    Text(Required, {"name"}),
    Text(Respelled, {"keepalive_timeout", "mac_cookie_timeout", "session_timeout",
      "status_autorefresh"}),
    TextSet(Kept, {"advertise_interval"})})

ResourceIpHotspotWalledGarden == Menu("/ip/hotspot/walled-garden", Id, Entry, UNION {
    PropCommentRw, PropDisabledRw, PropDynamicRo,
    Text(Kept, {"action"}),
    Text(Optional, {"dst_host", "dst_port", "method", "path", "server", "src_address"})})

ResourceIpHotspotWalledGardenIp == Menu("/ip/hotspot/walled-garden/ip", Id, Entry, UNION {
    PropCommentRw, PropDisabledRw, PropInvalidRo,
    Text(Kept, {"action"}),
    Text(Optional, {"dst_address", "dst_address_list", "dst_host", "dst_port", "protocol", "server",
      "src_address", "src_address_list"})})

ResourceIpIpsecIdentity == Menu("/ip/ipsec/identity", Id, Entry, UNION {
    PropCommentRw, PropDisabledRw, PropDynamicRo,
    Text(Kept, {"auth_method", "eap_methods", "generate_policy", "match_by", "mode_config", "my_id",
      "policy_template_group", "remote_id"}),
    Text(Optional, {"certificate", "key", "notrack_chain", "remote_certificate", "remote_key",
      "username"}),
    Text(Optional \cup Secret, {"password", "secret"}),
    Text(Required, {"peer"})})

ResourceIpIpsecKey == Menu("/ip/ipsec/key", Id, Own, UNION {
    Number(Required \cup Kept \cup ForceNew, {"key_size"}),
    Text(Required, {"name"})})

ResourceIpIpsecModeConfig == Menu("/ip/ipsec/mode-config", Id, Entry, UNION {
    Flag(Kept, {"responder", "system_dns"}),
    Number(Kept, {"address_prefix_length"}),
    Text(Kept, {"connection_mark", "use_responder_dns"}),
    Text(Optional, {"address", "address_pool", "src_address_list", "static_dns"}),
    Text(Required, {"name"}),
    TextSet(Optional, {"split_dns", "split_include"})})

ResourceIpIpsecPeer == Menu("/ip/ipsec/peer", Id, Entry, UNION {
    PropCommentRw, PropDisabledRw, PropDynamicRo,
    Flag(Kept, {"passive", "send_initial_contact"}),
    Flag(ReadOnly, {"responder"}),
    Number(Kept, {"port"}),
    Text(Kept, {"exchange_mode", "profile"}),
    Text(Optional, {"address", "local_address"}),
    Text(Required, {"name"})})

ResourceIpIpsecPolicy == Menu("/ip/ipsec/policy", Id, Entry, UNION {
    PropCommentRw, PropDisabledRw, PropDynamicRo, PropInvalidRo,
    Flag(Kept, {"tunnel"}),
    Flag(Optional, {"template"}),
    Flag(ReadOnly, {"active"}),
    Text(Kept, {"action", "dst_address", "dst_port", "group", "ipsec_protocols", "level", "proposal",
      "protocol", "src_address", "src_port"}),
    Text(Optional, {"peer"})})

ResourceIpIpsecPolicyGroup == Menu("/ip/ipsec/policy/group", Id, Entry, UNION {
    PropCommentRw, PropDefaultRo,
    Text(Required, {"name"})})

ResourceIpIpsecProfile == Menu("/ip/ipsec/profile", Id, Entry, UNION {
    Flag(Kept, {"nat_traversal"}),
    Number(Kept, {"dpd_maximum_failures"}),
    Number(Optional, {"lifebytes"}),
    Text(Kept, {"hash_algorithm", "proposal_check"}),
    Text(Optional, {"prf_algorithm"}),
    Text(Required, {"name"}),
    Text(Respelled, {"dpd_interval", "lifetime"}),
    TextSet(Kept, {"dh_group", "enc_algorithm"})})

ResourceIpIpsecProposal == Menu("/ip/ipsec/proposal", Id, Entry, UNION {
    PropCommentRw, PropDefaultRo, PropDisabledRw,
    Text(Kept, {"pfs_group"}),
    Text(Required, {"name"}),
    Text(Respelled, {"lifetime"}),
    TextSet(Kept, {"auth_algorithms", "enc_algorithms"})})

ResourceIpIpsecSettings == Menu("/ip/ipsec/settings", Id, Setting, UNION {
    Flag(Kept, {"accounting", "xauth_use_radius"}),
    Text(Respelled, {"interim_update"})})

\* The menus of this group that the provider offers a resource for.
FirewallMenu == {ResourceIPFirewallAddrList, ResourceIPConnectionTracking, ResourceIPFirewallFilter,
    ResourceIpFirewallLayer7Protocol, ResourceIPFirewallMangle, ResourceIPFirewallNat,
    ResourceIPFirewallRaw, ResourceIpHotspot, ResourceIpHotspotIpBinding, ResourceIpHotspotProfile,
    ResourceIpHotspotServicePort, ResourceIpHotspotUser, ResourceIpHotspotUserProfile,
    ResourceIpHotspotWalledGarden, ResourceIpHotspotWalledGardenIp, ResourceIpIpsecIdentity,
    ResourceIpIpsecKey, ResourceIpIpsecModeConfig, ResourceIpIpsecPeer, ResourceIpIpsecPolicy,
    ResourceIpIpsecPolicyGroup, ResourceIpIpsecProfile, ResourceIpIpsecProposal,
    ResourceIpIpsecSettings}
=============================================================================
