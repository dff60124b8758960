--------------------------- MODULE InterfaceMenus ---------------------------
(* Tunnels, VPNs and the other kinds of interface.                         *)
EXTENDS Schemas

ResourceWireguardKeys == Menu("/interface/wireguard/keys", Id, Own, UNION {
    Number(Defaulted \cup ForceNew, {"number"}),
    Block(ReadOnly \cup Secret, "keys", Text(ReadOnly, {"preshared", "private", "public"}))})

ResourceInterface6to4 == Menu("/interface/6to4", Id, Entry, UNION {
    PropActualMtuRo, PropClampTcpMssRw, PropCommentRw, PropDisabledRw, PropDontFragmentRw, PropDscpRw,
    PropIpsecSecretRw, PropKeepaliveRw, PropLocalAddressRw, PropRemoteAddressRw, PropRunningRo,
    Text(OptionalComputed, {"mtu"}),
    Text(Required, {"name"})})

ResourceInterfaceEoip == Menu("/interface/eoip", Id, Validated, UNION {
    PropActualMtuRo, PropAllowFastPathRw, PropArpRw, PropArpTimeoutRw, PropClampTcpMssRw, PropCommentRw,
    PropDisabledRw, PropDontFragmentRw, PropDscpRw, PropIpsecSecretRw, PropKeepaliveRw, PropL2MtuRo,
    PropLocalAddressRw, PropLoopProtectDisableTimeRw, PropLoopProtectRw,
    PropLoopProtectSendIntervalRw, PropLoopProtectStatusRo, PropMacAddressRo, PropNameForceNewRw,
    PropRemoteAddressRw, PropRunningRo,
    Number(Zeroed, {"tunnel_id"}),
    Text(OptionalComputed, {"mtu"})})

ResourceInterfaceGre == Menu("/interface/gre", Id, Validated, UNION {
    PropActualMtuRo, PropAllowFastPathRw, PropClampTcpMssRw, PropCommentRw, PropDisabledRw,
    PropDontFragmentRw, PropDscpRw, PropIpsecSecretRw, PropKeepaliveRw, PropL2MtuRo,
    PropLocalAddressRw, PropNameForceNewRw, PropRemoteAddressRw, PropRunningRo,
    Text(OptionalComputed, {"mtu"})})

ResourceInterfaceGre6 == Menu("/interface/gre6", Id, Entry, UNION {
    PropActualMtuRo, PropClampTcpMssRw, PropCommentRw, PropDisabledRw, PropDscpRw, PropIpsecSecretRw,
    PropKeepaliveRw, PropL2MtuRo, PropLocalAddressRw, PropNameForceNewRw, PropRemoteAddressRw,
    PropRunningRo,
    Text(OptionalComputed, {"mtu"})})

ResourceInterfaceIPIP == Menu("/interface/ipip", Id, Validated, UNION {
    PropActualMtuRo, PropAllowFastPathRw, PropClampTcpMssRw, PropCommentRw, PropDisabledRw,
    PropDontFragmentRw, PropDscpRw, PropIpsecSecretRw, PropKeepaliveRw, PropL2MtuRo,
    PropLocalAddressRw, PropRemoteAddressRw, PropRunningRo,
    Text(OptionalComputed, {"mtu"}),
    Text(Required, {"name"})})

ResourceInterfaceL2tpClient == Menu("/interface/l2tp-client", Id, Entry, UNION {
    PropAllowFastPathRw, PropCommentRw, PropDisabledRw, PropRunningRo,
    Flag(Kept, {"random_source_port"}),
    Flag(Optional, {"add_default_route", "dial_on_demand", "use_ipsec"}),
    Number(Kept, {"keepalive_timeout", "l2tpv3_cookie_length", "max_mru", "max_mtu"}),
    Number(Optional, {"default_route_distance"}),
    Text(Kept, {"l2tpv3_digest_hash", "l2tp_proto_version", "mrru", "profile", "use_peer_dns"}),
    Text(Optional, {"connect_to", "l2tpv3_circuit_id", "src_address", "user"}),
    Text(Optional \cup Secret, {"ipsec_secret", "password"}),
    Text(Required, {"name"}),
    TextSet(Kept, {"allow"})})

ResourceInterfaceL2tpServer == Menu("/interface/l2tp-server/server", Id, Setting, UNION {
    Flag(Kept, {"enabled", "use_ipsec", "allow_fast_path", "one_session_per_host"}),
    Number(Kept, {"max_mru", "max_mtu"}),
    Text(Defaulted \cup Respelled, {"keepalive_timeout"}),
    Text(Kept, {"default_profile", "mrru", "ipsec_secret", "accept_proto_version",
      "accept_pseudowire_type", "caller_id_type", "max_sessions", "l2tpv3_circuit_id",
      "l2tpv3_cookie_length", "l2tpv3_digest_hash", "l2tpv3_ether_interface_list"}),
    TextSet(Kept, {"authentication"})})

ResourceOpenVPNClient == Menu("/interface/ovpn-client", Id, Entry, UNION {
    PropCommentRw, PropDisabledRw, PropRunningRo,
    Flag(Kept, {"add_default_route", "route_nopull", "use_peer_dns", "verify_server_certificate"}),
    Flag(ReadOnly, {"hw_crypto"}),
    Number(Kept, {"max_mtu", "port"}),
    Text(Kept, {"auth", "certificate", "cipher", "mode", "profile", "protocol", "tls_version"}),
    Text(Optional \cup Secret, {"password"}),
    Text(Required, {"connect_to", "name"}),
    Text(Required \cup Kept, {"user"}),
    Text(Respelled, {"mac_address"})})

ResourceInterfaceOpenVPNServer == Menu("/interface/ovpn-server", Id, Entry, UNION {
    PropCommentRw, PropDisabledRw, PropRunningRo,
    Number(ReadOnly, {"mtu"}),
    Text(Optional, {"user"}),
    Text(ReadOnly, {"client_address", "encoding", "uptime"}),
    Text(Required, {"name"})})

ResourceOpenVPNServer == Menu("/interface/ovpn-server/server", Id, Setting, UNION {
    Flag(Kept, {"enabled"}),
    Flag(Zeroed, {"enable_tun_ipv6", "require_client_certificate"}),
    Number(Defaulted, {"ipv6_prefix_len", "max_mtu", "netmask", "port", "reneg_sec"}),
    Text(Defaulted, {"default_profile", "mode", "protocol", "tls_version", "tun_server_ipv6"}),
    Text(Defaulted \cup Respelled, {"keepalive_timeout"}),
    Text(Kept, {"certificate"}),
    Text(OptionalComputed, {"mac_address"}),
    TextSet(Kept, {"auth", "cipher", "push_routes", "redirect_gateway"})})

ResourceInterfacePPPoEClient == Menu("/interface/pppoe-client", Id, Entry, UNION {
    PropCommentRw, PropDisabledRw, PropInvalidRo, PropRunningRo,
    Flag(Zeroed, {"add_default_route", "dial_on_demand", "use_peer_dns"}),
    Number(Defaulted, {"default_route_distance", "keepalive_timeout"}),
    Text(Defaulted, {"max_mru", "max_mtu", "mrru", "profile"}),
    Text(Required, {"interface", "name"}),
    Text(Respelled, {"host_uniq"}),
    Text(Zeroed, {"ac_name", "service_name", "user"}),
    Text(Zeroed \cup Secret, {"password"}),
    TextSet(OptionalComputed, {"allow"})})

ResourceInterfacePppoeServer == Menu("/interface/pppoe-server", Id, Entry, UNION {
    PropCommentRw, PropDisabledRw, PropRunningRo,
    Flag(Optional, {"one_session_per_host"}),
    Number(Kept, {"max_mru", "max_mtu", "max_sessions"}),
    Number(Optional, {"pppoe_over_vlan_range"}),
    Text(Kept, {"default_profile", "mrru"}),
    Text(Optional, {"interface", "service", "service_name", "user"}),
    Text(Required, {"name"}),
    Text(Respelled, {"keepalive_timeout"}),
    TextSet(Kept, {"authentication"})})

ResourceInterfaceSSTPClient == Menu("/interface/sstp-client", Id, Entry, UNION {
    PropCommentRw, PropDisabledRw, PropRunningRo,
    Flag(Kept, {"add_default_route", "add_sni", "dial_on_demand",
      "verify_server_address_from_certificate", "verify_server_certificate", "pfs"}),
    Flag(ReadOnly, {"hw_crypto"}),
    Number(Kept, {"max_mru", "max_mtu"}),
    Text(Defaulted \cup Respelled, {"keepalive_timeout"}),
    Text(Kept, {"default_route_distance", "mrru", "proxy_port", "tls_version", "certificate",
      "http_proxy", "ciphers", "port", "profile"}),
    Text(Required, {"name", "user", "connect_to"}),
    Text(Required \cup Secret, {"password"}),
    TextSet(Kept, {"authentication"})})

ResourceInterfaceSSTPServer == Menu("/interface/sstp-server/server", Id, Setting, UNION {
    Flag(Kept, {"verify_client_certificate", "enabled", "pfs"}),
    Number(Kept, {"max_mru", "max_mtu"}),
    Text(Defaulted \cup Respelled, {"keepalive_timeout"}),
    Text(Kept, {"port", "certificate", "tls_version", "ciphers", "mrru", "default_profile"}),
    TextSet(Kept, {"authentication"})})

ResourceInterfaceVrrp == Menu("/interface/vrrp", Id, Validated, UNION {
    PropArpRw, PropArpTimeoutRw, PropCommentRw, PropDisabledRw, PropInterfaceRw, PropMacAddressRo,
    PropNameForceNewRw,
    Flag(Kept, {"preemption_mode"}),
    Flag(Optional, {"sync_connection_tracking"}),
    Flag(ReadOnly, {"invalid", "running"}),
    Number(Kept, {"connection_tracking_port", "priority", "version", "vrid"}),
    Number(ReadOnly, {"mtu"}),
    Text(Kept, {"authentication", "connection_tracking_mode", "interval", "v3_protocol"}),
    Text(Kept \cup Alike, {"group_authority", "group_master"}),
    Text(Optional, {"on_fail", "on_backup", "on_master", "remote_address"}),
    Text(Optional \cup Secret, {"password"})})

ResourceInterfaceVxlan == Menu("/interface/vxlan", Id, Entry, UNION {
    PropArpRw, PropArpTimeoutRw, PropCommentRw, PropDisabledRw, PropHwOffloadedRo, PropL2MtuRo,
    PropLoopProtectDisableTimeRw, PropLoopProtectRw, PropLoopProtectSendIntervalRw,
    PropLoopProtectStatusRo, PropRunningRo, PropVrfRw,
    Flag(Kept, {"allow_fast_path", "hw", "learning"}),
    Flag(Optional, {"checksum"}),
    Number(Kept, {"max_fdb_size", "port", "vni"}),
    Text(Kept, {"dont_fragment", "rem_csum", "vteps_ip_version"}),
    Text(Optional, {"group", "interface", "local_address"}),
    Text(OptionalComputed, {"mtu"}),
    Text(ReadOnly, {"ttl"}),
    Text(Required, {"name"}),
    Text(Respelled, {"mac_address"})})

ResourceInterfaceVxlanVteps == Menu("/interface/vxlan/vteps", Id, Entry, UNION {
    PropCommentRw, PropDisabledRw, PropHwOffloadedRo, PropInterfaceRw,
    Number(Kept, {"port"}),
    Text(Optional, {"remote_ip"})})

ResourceInterfaceWireguard == Menu("/interface/wireguard", Id, Entry, UNION {
    PropCommentRw, PropDisabledRw, PropNameForceNewRw, PropRunningRo,
    Number(Required, {"listen_port"}),
    Text(OptionalComputed, {"mtu"}),
    Text(OptionalComputed \cup Secret, {"private_key"}),
    Text(ReadOnly, {"public_key"})})

ResourceInterfaceWireguardPeer == Menu("/interface/wireguard/peers", Id, Entry, UNION {
    PropCommentRw, PropDisabledRw, PropDynamicRo, PropInterfaceRw,
    Flag(Kept, {"is_responder"}),
    Number(Kept, {"client_listen_port"}),
    Number(ReadOnly, {"current_endpoint_port"}),
    Text(Kept, {"client_allowed_address", "client_address", "client_dns", "client_endpoint", "name",
      "persistent_keepalive", "private_key"}),
    Text(Optional \cup Secret, {"preshared_key"}),
    Text(OptionalComputed, {"endpoint_address", "endpoint_port"}),
    Text(ReadOnly, {"current_endpoint_address", "last_handshake", "rx", "tx"}),
    Text(Required, {"public_key"}),
    Text(Respelled, {"client_keepalive"}),
    TextList(Required, {"allowed_address"})})

\* The menus of this group that the provider offers a resource for.
InterfaceMenu == {ResourceWireguardKeys, ResourceInterface6to4, ResourceInterfaceEoip,
    ResourceInterfaceGre, ResourceInterfaceGre6, ResourceInterfaceIPIP, ResourceInterfaceL2tpClient,
    ResourceInterfaceL2tpServer, ResourceOpenVPNClient, ResourceInterfaceOpenVPNServer,
    ResourceOpenVPNServer, ResourceInterfacePPPoEClient, ResourceInterfacePppoeServer,
    ResourceInterfaceSSTPClient, ResourceInterfaceSSTPServer, ResourceInterfaceVrrp,
    ResourceInterfaceVxlan, ResourceInterfaceVxlanVteps, ResourceInterfaceWireguard,
    ResourceInterfaceWireguardPeer}
=============================================================================
