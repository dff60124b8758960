--------------------------- MODULE SystemMenus ---------------------------
(* The system itself, users, queues, tools and containers.                 *)
EXTENDS Schemas

ResourceSystemCertificate == Menu("/certificate", Id, Own, UNION {
    Flag(Kept, {"trusted"}),
    Flag(ReadOnly, {"dsa", "digest_algorithm", "expired", "private_key"}),
    Number(Kept \cup ForceNew, {"days_valid"}),
    Text(Kept, {"trust_store"}),
    Text(Kept \cup ForceNew, {"country", "locality", "organization", "state", "subject_alt_name",
      "unit"}),
    Text(Optional \cup ForceNew, {"copy_from"}),
    Text(OptionalComputed \cup ForceNew, {"key_size"}),
    Text(ReadOnly, {"authority", "akid", "ca", "ca_crl_host", "ca_fingerprint", "crl", "expires_after",
      "fingerprint", "invalid_after", "invalid_before", "issued", "issuer", "key_type",
      "req_fingerprint", "revoked", "scep_url", "serial_number", "skid", "smart_card_key",
      "status"}),
    Text(ReadOnly \cup Secret, {"challenge_password"}),
    Text(Required, {"name"}),
    Text(Required \cup Kept \cup ForceNew, {"common_name"}),
    TextSet(Kept \cup ForceNew, {"key_usage"}),
    Block(Optional \cup ForceNew \cup Skipped, "import", UNION {
        Text(Optional \cup ForceNew, {"cert_file_content", "cert_file_name", "key_file_content",
          "key_file_name"}),
        Text(Optional \cup Secret, {"passphrase"})}),
    Block(Optional \cup ForceNew \cup Skipped, "sign", Text(Optional \cup ForceNew, {"ca", "ca_crl_host"})),
    Block(Optional \cup ForceNew \cup Skipped, "sign_via_scep", UNION {
        Flag(Defaulted \cup ForceNew, {"refresh"}),
        Flag(Optional \cup ForceNew, {"on_smart_card"}),
        Text(Optional \cup ForceNew, {"ca_identity"}),
        Text(Optional \cup Secret \cup ForceNew, {"challenge_password"}),
        Text(Required \cup ForceNew, {"scep_url"})})})

ResourceCertificateScepServer == Menu("/certificate/scep-server", Id, Entry, UNION {
    PropDisabledRw,
    Number(Kept, {"days_valid"}),
    Text(Kept, {"next_ca_cert"}),
    Text(Required, {"ca_cert", "path"}),
    Text(Respelled, {"request_lifetime"})})

ResourceContainer == Menu("/container", Id, Own, UNION {
    PropCommentRw,
    Flag(Defaulted \cup Skipped, {"running"}),
    Flag(Kept, {"check_certificate"}),
    Flag(Optional, {"logging", "start_on_boot"}),
    Text(Defaulted, {"stop_signal"}),
    Text(Kept, {"memory_high", "root_dir"}),
    Text(Optional, {"cmd", "dns", "domain_name", "entrypoint", "envlist", "file", "hostname", "user"}),
    Text(OptionalComputed, {"workdir"}),
    Text(ReadOnly, {"arch", "name", "os", "status", "tag"}),
    Text(Required, {"interface"}),
    Text(Respelled, {"auto_restart_interval"}),
    Text(Respelled \cup ForceNew, {"remote_image"}),
    TextSet(Kept, {"devices"}),
    TextSet(Optional, {"mounts"})})

ResourceContainerConfig == Menu("/container/config", Name, Setting, UNION {
    Text(Optional, {"registry_url", "username", "tmpdir", "layer_dir"}),
    Text(Optional \cup Secret, {"password"}),
    Text(Respelled, {"ram_high"})})

ResourceContainerEnvs == Menu("/container/envs", Id, Entry, Text(Required, {"name", "key", "value"}))

ResourceContainerMounts == Menu("/container/mounts", Name, Entry, Text(Required, {"name", "src", "dst"}))

ResourceDiskSettings == Menu("/disk/settings", Id, Setting, UNION {
    Flag(Kept, {"auto_smb_sharing", "auto_media_sharing"}),
    Text(Kept, {"auto_smb_user", "auto_media_interface", "default_mount_point_template"})})

ResourceFile == Menu("/file", Id, Own, UNION {
    Number(ReadOnly, {"size"}),
    Text(Optional \cup ForceNew, {"contents"}),
    Text(ReadOnly, {"creation_time", "last_modified", "package_architecture", "package_built_time",
      "package_name", "package_version", "type"}),
    Text(Required, {"name"})})

ResourceMoveItems == Menu("/path", Id, Own, UNION {
    Text(Optional, {"resource_name", "resource_path"}),
    TextList(Required, {"sequence"})})

ResourcePppAaa == Menu("/ppp/aaa", Id, Setting, UNION {
    Flag(Defaulted, {"accounting"}),
    Flag(Kept, {"enable_ipv6_accounting"}),
    Flag(Zeroed, {"use_circuit_id_in_nas_port_id", "use_radius"}),
    Text(Defaulted \cup Respelled, {"interim_update"})})

ResourcePPPProfile == Menu("/ppp/profile", Id, Entry, UNION {
    PropCommentRw, PropDefaultRo,
    Flag(Optional, {"dhcpv6_use_radius", "remote_ipv6_prefix_reuse"}),
    Number(Optional, {"bridge_horizon", "bridge_path_cost", "bridge_port_priority"}),
    Text(Defaulted, {"bridge_learning", "change_tcp_mss", "only_one", "use_compression",
      "use_encryption", "use_ipv6", "use_mpls", "use_upnp"}),
    Text(Optional, {"address_list", "bridge", "dhcpv6_pd_pool", "incoming_filter",
      "insert_queue_before", "interface_list", "local_address", "on_up", "on_down",
      "outgoing_filter", "parent_queue", "queue_type", "rate_limit", "remote_address",
      "remote_ipv6_prefix_pool"}),
    Text(Required, {"name"}),
    Text(Respelled, {"dhcpv6_lease_time", "idle_timeout", "session_timeout"}),
    TextSet(Optional, {"dns_server", "wins_server"})})

ResourcePPPSecret == Menu("/ppp/secret", Id, Entry, UNION {
    PropCommentRw, PropDisabledRw,
    Number(Zeroed, {"limit_bytes_in", "limit_bytes_out"}),
    Text(Defaulted, {"profile", "service"}),
    Text(Optional, {"caller_id", "local_address", "remote_address", "remote_ipv6_prefix"}),
    Text(Optional \cup Secret, {"password"}),
    Text(ReadOnly, {"last_caller_id", "last_disconnect_reason", "last_logged_out"}),
    Text(Required, {"name"}),
    TextSet(Optional, {"ipv6_routes", "routes"})})

ResourceQueueSimple == Menu("/queue/simple", Id, Entry, UNION {
    PropCommentRw, PropDisabledRw, PropDynamicRo, PropInvalidRo,
    Number(Optional, {"total_bucket_size", "total_burst_limit", "total_burst_threshold",
      "total_limit_at", "total_max_limit", "total_priority"}),
    Number(Respelled, {"total_burst_time"}),
    Text(Kept, {"bucket_size", "parent", "priority", "queue"}),
    Text(Optional, {"dst", "total_queue"}),
    Text(Required, {"name"}),
    Text(Respelled, {"burst_limit", "burst_threshold", "burst_time", "limit_at", "max_limit", "time"}),
    TextSet(Optional, {"packet_marks"}),
    TextSet(Required, {"target"})})

ResourceQueueTree == Menu("/queue/tree", Id, Entry, UNION {
    PropCommentRw, PropDisabledRw, PropDynamicRo, PropInvalidRo,
    Number(Kept, {"priority"}),
    Text(Kept, {"bucket_size", "queue"}),
    Text(Required, {"name", "parent"}),
    Text(Respelled, {"burst_limit", "burst_threshold", "burst_time", "limit_at", "max_limit"}),
    TextSet(Optional, {"packet_mark"})})

ResourceQueueType == Menu("/queue/type", Id, Entry, UNION {
    PropDefaultRo,
    Flag(Optional, {"codel_ecn", "fq_codel_ecn", "cake_autorate_ingress", "cake_nat", "cake_wash"}),
    Number(Kept, {"bfifo_limit", "mq_pfifo_limit", "pfifo_limit", "red_avg_packet", "red_burst",
      "red_limit", "red_max_threshold", "red_min_threshold", "sfq_allot", "sfq_perturb",
      "pcq_burst_threshold", "pcq_dst_address_mask", "pcq_dst_address6_mask", "pcq_limit",
      "pcq_src_address_mask", "pcq_src_address6_mask", "pcq_total_limit", "codel_limit",
      "fq_codel_flows", "fq_codel_limit", "fq_codel_memlimit", "fq_codel_quantum", "cake_overhead"}),
    Number(Optional, {"cake_memlimit", "cake_mpu"}),
    Number(Respelled, {"pcq_burst_rate", "pcq_rate", "codel_ce_threshold", "fq_codel_ce_threshold",
      "cake_bandwidth"}),
    Text(Kept, {"cake_ack_filter", "cake_diffserv", "cake_flowmode"}),
    Text(Optional, {"cake_atm", "cake_overhead_scheme", "cake_rtt_scheme"}),
    Text(Required, {"kind", "name"}),
    Text(Respelled, {"pcq_burst_time", "codel_interval", "codel_target", "fq_codel_interval",
      "fq_codel_target", "cake_rtt"}),
    TextSet(Kept, {"pcq_classifier"})})

ResourceRadius == Menu("/radius", Id, Entry, UNION {
    PropCommentRw, PropDisabledRw,
    Flag(Zeroed, {"accounting_backup"}),
    Number(Defaulted, {"accounting_port", "authentication_port"}),
    Text(Defaulted, {"certificate", "protocol"}),
    Text(Defaulted \cup Respelled, {"timeout"}),
    Text(Kept, {"require_message_auth"}),
    Text(Optional, {"called_id", "domain", "realm", "src_address"}),
    Text(Optional \cup Secret, {"secret"}),
    Text(ReadOnly, {"status"}),
    Text(Required, {"address"}),
    Text(Respelled, {"radsec_timeout"}),
    TextSet(Optional, {"service"})})

ResourceRadiusIncoming == Menu("/radius/incoming", Name, Setting, UNION {
    Flag(Zeroed, {"accept"}),
    Number(Defaulted, {"port"}),
    Text(Kept, {"vrf"})})

ResourceSNMP == Menu("/snmp", Id, Setting, UNION {
    PropVrfRw,
    Flag(Kept, {"enabled"}),
    Number(OptionalComputed, {"trap_version"}),
    Text(Alike, {"src_address"}),
    Text(Optional, {"contact", "engine_id_suffix", "location", "trap_interfaces"}),
    Text(OptionalComputed, {"trap_generators"}),
    Text(OptionalComputed \cup Secret, {"trap_community"}),
    Text(ReadOnly, {"engine_id"}),
    TextSet(Optional, {"trap_target"})})

ResourceSNMPCommunity == Menu("/snmp/community", Id, Entry, UNION {
    PropCommentRw, PropDefaultRo, PropDisabledRw,
    Flag(Defaulted, {"read_access"}),
    Flag(Optional, {"write_access"}),
    Text(Defaulted, {"authentication_protocol", "encryption_protocol", "security"}),
    Text(Optional, {"name"}),
    Text(Optional \cup Secret, {"authentication_password", "encryption_password"}),
    TextSet(Kept, {"addresses"})})

ResourceSystemClock == Menu("/system/clock", Id, Own, UNION {
    Flag(Kept, {"time_zone_autodetect"}),
    Flag(ReadOnly, {"dst_active"}),
    Text(Kept, {"date", "time", "time_zone_name"}),
    Text(ReadOnly, {"gmt_offset"})})

ResourceSystemIdentity == Menu("/system/identity", Name, Setting, Text(Required, {"name"}))

ResourceSystemLed == Menu("/system/leds", Id, Entry, UNION {
    PropDefaultRo, PropDisabledRw,
    Number(Kept, {"modem_signal_treshold"}),
    Text(Kept, {"interface", "type"}),
    TextList(Optional, {"leds"})})

ResourceSystemLedSettings == Menu("/system/leds/settings", Id, Setting, Text(Kept, {"all_leds_off"}))

ResourceSystemLogging == Menu("/system/logging", Id, Entry, UNION {
    PropDefaultRo, PropDisabledRw, PropInvalidRo,
    Flag(ReadOnly, {"managed"}),
    Text(Optional, {"regex"}),
    Text(Required, {"action"}),
    Text(Zeroed, {"prefix"}),
    TextSet(Optional, {"topics"})})

ResourceSystemLoggingAction == Menu("/system/logging/action", Id, Own, UNION {
    PropDefaultRo, PropVrfRw,
    Flag(Optional, {"bsd_syslog", "disk_stop_on_full", "email_start_tls", "memory_stop_on_full",
      "remember"}),
    Flag(ReadOnly, {"managed"}),
    Number(Kept, {"disk_file_count", "disk_lines_per_file", "memory_lines", "remote_port"}),
    Text(Kept, {"cef_event_delimiter", "disk_file_name", "remote", "remote_log_format",
      "remote_protocol", "src_address", "syslog_facility", "syslog_severity", "syslog_time_format"}),
    Text(Optional, {"email_to"}),
    Text(Required, {"name"}),
    Text(Required \cup Kept, {"target"})})

ResourceSystemNote == Menu("/system/note", Id, Setting, UNION {
    Flag(Kept, {"show_at_login", "show_at_cli_login"}),
    Text(Required \cup Kept, {"note"})})

ResourceSystemNtpClient == Menu("/system/ntp/client", Id, Setting, UNION {
    PropVrfRw,
    Flag(Kept, {"enabled"}),
    Text(Kept, {"mode"}),
    Text(ReadOnly, {"freq_drift", "status", "synced_server", "synced_stratum", "system_offset"}),
    TextSet(Kept, {"servers"})})

ResourceSystemNtpServer == Menu("/system/ntp/server", Id, Setting, UNION {
    PropVrfRw,
    Flag(Kept, {"broadcast", "enabled", "manycast", "multicast", "use_local_clock"}),
    Number(Kept, {"local_clock_stratum"}),
    Text(Kept, {"auth_key"}),
    Text(Optional, {"broadcast_addresses"})})

ResourceSystemPackageLocalUpdateSource == Menu("/system/package/local-update/update-package-source", Id, Entry, UNION {
    Text(Kept \cup Secret, {"password"}),
    Text(Optional, {"user"}),
    Text(Required, {"address"})})

ResourceSystemPackageUpdate == Menu("/system/package/update", Id, Setting, UNION {
    Text(Kept, {"channel"}),
    Text(ReadOnly, {"check_certificate", "installed_version", "ip_version", "latest_version", "mode",
      "status"})})

ResourceSystemRouterboardButtonMode == Menu("/system/routerboard/mode-button", Id, Setting, UNION {
    Flag(Kept, {"enabled"}),
    Text(Kept, {"hold_time", "on_event"})})

ResourceSystemRouterboardButtonReset == Menu("/system/routerboard/reset-button", Id, Setting, UNION {
    Flag(Kept, {"enabled"}),
    Text(Kept, {"hold_time", "on_event"})})

ResourceSystemRouterboardSettings == Menu("/system/routerboard/settings", Id, Setting, UNION {
    Flag(Kept, {"auto_upgrade", "enable_jumper_reset", "force_backup_booter", "regulatory_domain_ce",
      "silent_boot"}),
    Flag(Optional, {"disable_pci"}),
    Number(Kept, {"baud_rate"}),
    Text(Kept, {"boot_device", "boot_os", "boot_protocol", "cpu_frequency", "cpu_mode",
      "enter_setup_on", "memory_frequency", "memory_data_rate", "preboot_etherboot",
      "preboot_etherboot_server", "protected_routerboot"}),
    Text(Respelled, {"boot_delay", "init_delay", "reformat_hold_button", "reformat_hold_button_max"})})

ResourceSystemRouterboardUsb == Menu("/system/routerboard/usb", Id, Setting, Text(Kept, {"type", "usb_mode"}))

ResourceSystemRouterboardButtonWps == Menu("/system/routerboard/wps-button", Id, Setting, UNION {
    Flag(Kept, {"enabled"}),
    Text(Kept, {"hold_time", "on_event"})})

ResourceSystemScheduler == Menu("/system/scheduler", Id, Entry, UNION {
    PropCommentRw, PropDisabledRw, PropNameForceNewRw,
    Text(OptionalComputed, {"interval", "start_date", "start_time"}),
    Text(ReadOnly, {"next_run", "owner", "run_count"}),
    Text(Required, {"on_event"}),
    TextList(OptionalComputed, {"policy"})})

ResourceSystemScript == Menu("/system/script", Id, Own, UNION {
    PropCommentRw, PropInvalidRo,
    Flag(Optional, {"dont_require_permissions"}),
    Text(Optional \cup Skipped, {"launch_trigger"}),
    Text(ReadOnly, {"last_started", "owner", "run_count"}),
    Text(Required, {"name"}),
    Text(Required \cup Alike, {"source"}),
    TextSet(OptionalComputed, {"policy"})})

ResourceToolBandwidthServer == Menu("/tool/bandwidth-server", Id, Setting, UNION {
    Flag(Kept, {"authenticate", "enabled"}),
    Number(Kept, {"allocate_udp_ports_from", "max_sessions"}),
    TextSet(Optional, {"allowed_addresses4", "allowed_addresses6"})})

ResourceToolEmail == Menu("/tool/e-mail", Id, Setting, UNION {
    PropVrfRw,
    Text(Kept, {"from", "port", "server", "tls"}),
    Text(Optional, {"user"}),
    Text(Optional \cup Secret, {"password"}),
    Text(ReadOnly, {"last_status", "last_address"})})

ResourceToolGraphingInterface == Menu("/tool/graphing/interface", Id, Entry, UNION {
    PropDisabledRw, PropInterfaceRw,
    Flag(Kept, {"store_on_disk"}),
    Text(Kept, {"allow_address"})})

ResourceToolGraphingQueue == Menu("/tool/graphing/queue", Id, Entry, UNION {
    PropDisabledRw,
    Flag(Kept, {"allow_target", "store_on_disk"}),
    Text(Kept, {"allow_address"}),
    Text(Required, {"simple_queue"})})

ResourceToolGraphingResource == Menu("/tool/graphing/resource", Id, Entry, UNION {
    PropDisabledRw,
    Flag(Kept, {"store_on_disk"}),
    Text(Kept, {"allow_address"})})

ResourceToolMacServer == Menu("/tool/mac-server", Id, Setting, Text(Required, {"allowed_interface_list"}))

ResourceToolMacServerWinBox == Menu("/tool/mac-server/mac-winbox", Id, Setting, Text(Required, {"allowed_interface_list"}))

ResourceToolMacServerPing == Menu("/tool/mac-server/ping", Id, Setting, Flag(Kept, {"enabled"}))

ResourceToolNetwatch == Menu("/tool/netwatch", Id, Entry, UNION {
    PropCommentRw, PropDisabledRw,
    Decimal(Kept, {"thr_loss_percent"}),
    Flag(Kept, {"accept_icmp_time_exceeded"}),
    Flag(Optional, {"early_failure_detection", "early_success_detection"}),
    Number(Kept, {"packet_count", "packet_size", "thr_loss_count", "port", "http_code_min",
      "http_code_max"}),
    Number(Optional, {"ttl"}),
    Text(Kept, {"type", "record_type", "dns_server"}),
    Text(Optional, {"down_script", "src_address", "test_script", "up_script"}),
    Text(Required, {"host", "name"}),
    Text(Respelled, {"interval", "start_delay", "startup_delay", "timeout", "packet_interval",
      "thr_avg", "thr_jitter", "thr_max", "thr_stdev", "thr_tcp_conn_time", "thr_http_time"})})

ResourceToolSniffer == Menu("/tool/sniffer", Id, Own, UNION {
    PropRunningRo,
    Flag(Defaulted \cup Skipped, {"enabled"}),
    Flag(Kept, {"filter_stream", "memory_scroll"}),
    Flag(Optional, {"only_headers", "streaming_enabled"}),
    Number(Kept, {"file_limit", "max_packet_size", "memory_limit"}),
    NumberSet(Optional, {"filter_vlan"}),
    Text(Kept, {"filter_direction", "filter_operator_between_entries", "streaming_server"}),
    Text(Optional, {"file_name", "filter_cpu", "filter_size"}),
    TextSet(Optional, {"filter_dst_mac_address", "filter_dst_ip_address", "filter_dst_ipv6_address",
      "filter_dst_port", "filter_interface", "filter_ip_address", "filter_ipv6_address",
      "filter_ip_protocol", "filter_mac_address", "filter_mac_protocol", "filter_port",
      "filter_src_mac_address", "filter_src_ip_address", "filter_src_ipv6_address",
      "filter_src_port"})})

ResourceUser == Menu("/user", Id, Entry, UNION {
    PropCommentRw, PropDisabledRw,
    Flag(ReadOnly, {"expired"}),
    Text(Kept, {"inactivity_policy"}),
    Text(Optional, {"address"}),
    Text(Optional \cup Secret, {"password"}),
    Text(Required, {"group", "name"}),
    Text(Respelled, {"inactivity_timeout"})})

ResourceUserManagerSettings == Menu("/user-manager", Id, Setting, UNION {
    Flag(Kept, {"enabled"}),
    Flag(Zeroed, {"use_profiles"}),
    Number(Defaulted, {"accounting_port", "authentication_port"}),
    Text(Defaulted, {"certificate"}),
    Text(Kept, {"require_message_auth"})})

ResourceUserManagerAdvanced == Menu("/user-manager/advanced", Id, Setting, UNION {
    Flag(Zeroed, {"paypal_allow", "paypal_use_sandbox"}),
    Text(Defaulted, {"paypal_currency"}),
    Text(Optional, {"paypal_password", "paypal_signature", "paypal_user", "web_private_password",
      "web_private_username"})})

ResourceUserManagerAttribute == Menu("/user-manager/attribute", Id, Entry, UNION {
    PropDefaultRo,
    Number(Required, {"type_id"}),
    Text(Defaulted, {"value_type", "vendor_id"}),
    Text(ReadOnly, {"default_name", "standard_name"}),
    Text(Required, {"name"}),
    TextSet(Kept, {"packet_types"})})

ResourceUserManagerDatabase == Menu("/user-manager/database", Id, Setting, Text(Required, {"db_path"}))

ResourceUserManagerLimitation == Menu("/user-manager/limitation", Id, Entry, UNION {
    Number(Zeroed, {"download_limit", "rate_limit_burst_rx", "rate_limit_burst_tx",
      "rate_limit_burst_threshold_rx", "rate_limit_burst_threshold_tx", "rate_limit_min_rx",
      "rate_limit_min_tx", "rate_limit_priority", "rate_limit_rx", "rate_limit_tx",
      "transfer_limit", "upload_limit"}),
    Text(Defaulted, {"reset_counters_interval", "reset_counters_start_time"}),
    Text(Defaulted \cup Respelled, {"rate_limit_burst_time_rx", "rate_limit_burst_time_tx",
      "uptime_limit"}),
    Text(Required, {"name"})})

ResourceUserManagerProfile == Menu("/user-manager/profile", Id, Entry, UNION {
    Decimal(Zeroed, {"price"}),
    Text(Defaulted, {"override_shared_users", "starts_when", "validity"}),
    Text(Kept, {"name_for_users"}),
    Text(Required, {"name"})})

ResourceUserManagerProfileLimitation == Menu("/user-manager/profile-limitation", Id, Entry, UNION {
    Text(Defaulted \cup Respelled, {"from_time", "till_time"}),
    Text(Required, {"limitation", "profile"}),
    TextSet(Kept, {"weekdays"})})

ResourceUserManagerRouter == Menu("/user-manager/router", Id, Entry, UNION {
    PropDisabledRw,
    Number(Defaulted, {"coa_port"}),
    Text(Optional \cup Secret, {"shared_secret"}),
    Text(Required, {"address", "name"})})

ResourceUserManagerUser == Menu("/user-manager/user", Id, Entry, UNION {
    PropCommentRw, PropDisabledRw,
    Number(Defaulted, {"shared_users"}),
    Text(Kept, {"group"}),
    Text(Optional, {"caller_id", "otp_secret", "password"}),
    Text(Required, {"name"}),
    TextList(Optional, {"attributes"})})

ResourceUserManagerUserProfile == Menu("/user-manager/user-profile", Id, Entry, Text(Required, {"profile", "user"}))

ResourceUserManagerUserGroup == Menu("/user-manager/user/group", Id, Entry, UNION {
    PropDefaultRo,
    Text(ReadOnly, {"default_name"}),
    Text(Required, {"name"}),
    TextList(Optional, {"attributes"}),
    TextSet(Optional, {"inner_auths", "outer_auths"})})

ResourceUserAaa == Menu("/user/aaa", Id, Setting, UNION {
    Flag(Defaulted, {"accounting"}),
    Flag(Zeroed, {"use_radius"}),
    Text(Defaulted, {"default_group"}),
    Text(Defaulted \cup Respelled, {"interim_update"}),
    TextSet(Optional, {"exclude_groups"})})

ResourceUserGroup == Menu("/user/group", Id, Entry, UNION {
    PropCommentRw,
    Text(Defaulted, {"skin"}),
    Text(Required, {"name"}),
    TextSet(Granted \cup Unset, {"policy"})})

ResourceSystemUserSettings == Menu("/user/settings", Id, Setting, Number(Zeroed, {"minimum_categories", "minimum_password_length"}))

ResourceUserSshKeys == Renaming(
  {<<<<"rsa">>, <<"RSA">>>>},
  Menu("/user/ssh-keys", Id, Entry, UNION {
    PropCommentRw,
    Flag(ReadOnly, {"rsa"}),
    Number(ReadOnly, {"bits"}),
    Text(ReadOnly, {"key_type", "key_owner", "fingerprint"}),
    Text(Required, {"user"}),
    Text(Required \cup Secret \cup ForceNew, {"key"})}))

ResourceZerotier == Renaming(
  {<<<<"identity_public">>, <<"identity", "public">>>>},
  Menu("/zerotier", Id, Entry, UNION {
    PropCommentRw, PropDisabledRw,
    Flag(ReadOnly, {"online"}),
    Number(Defaulted, {"port", "route_distance"}),
    Text(Kept, {"identity"}),
    Text(ReadOnly, {"identity_public", "state"}),
    Text(Required, {"name"}),
    TextSet(Kept, {"interfaces"})}))

ResourceZerotierController == Menu("/zerotier/controller", Id, Entry, UNION {
    PropCommentRw, PropDisabledRw,
    Flag(Defaulted, {"broadcast", "private"}),
    Flag(ReadOnly, {"inactive"}),
    Flag(Zeroed, {"ip6_6plane", "ip6_rfc4193"}),
    Number(Defaulted, {"multicast_limit"}),
    Number(Kept, {"mtu"}),
    Text(Optional, {"ip_range", "ip6_range"}),
    Text(Required, {"instance", "name", "network"}),
    TextSet(Optional, {"routes"})})

ResourceZerotierInterface == Menu("/zerotier/interface", Id, Entry, UNION {
    PropArpTimeoutRw, PropCommentRw, PropDisabledRw, PropMacAddressRo, PropRunningRo,
    Flag(Kept, {"disable_running_check"}),
    Flag(ReadOnly, {"bridge", "dhcp"}),
    Flag(Zeroed, {"allow_default", "allow_global", "allow_managed"}),
    Number(ReadOnly, {"mtu"}),
    Text(ReadOnly, {"network_name", "status", "type"}),
    Text(Required, {"instance", "name", "network"})})

\* The menus of this group that the provider offers a resource for.
SystemMenu == {ResourceSystemCertificate, ResourceCertificateScepServer, ResourceContainer,
    ResourceContainerConfig, ResourceContainerEnvs, ResourceContainerMounts, ResourceDiskSettings,
    ResourceFile, ResourceMoveItems, ResourcePppAaa, ResourcePPPProfile, ResourcePPPSecret,
    ResourceQueueSimple, ResourceQueueTree, ResourceQueueType, ResourceRadius,
    ResourceRadiusIncoming, ResourceSNMP, ResourceSNMPCommunity, ResourceSystemClock,
    ResourceSystemIdentity, ResourceSystemLed, ResourceSystemLedSettings, ResourceSystemLogging,
    ResourceSystemLoggingAction, ResourceSystemNote, ResourceSystemNtpClient,
    ResourceSystemNtpServer, ResourceSystemPackageLocalUpdateSource, ResourceSystemPackageUpdate,
    ResourceSystemRouterboardButtonMode, ResourceSystemRouterboardButtonReset,
    ResourceSystemRouterboardSettings, ResourceSystemRouterboardUsb,
    ResourceSystemRouterboardButtonWps, ResourceSystemScheduler, ResourceSystemScript,
    ResourceToolBandwidthServer, ResourceToolEmail, ResourceToolGraphingInterface,
    ResourceToolGraphingQueue, ResourceToolGraphingResource, ResourceToolMacServer,
    ResourceToolMacServerWinBox, ResourceToolMacServerPing, ResourceToolNetwatch,
    ResourceToolSniffer, ResourceUser, ResourceUserManagerSettings, ResourceUserManagerAdvanced,
    ResourceUserManagerAttribute, ResourceUserManagerDatabase, ResourceUserManagerLimitation,
    ResourceUserManagerProfile, ResourceUserManagerProfileLimitation, ResourceUserManagerRouter,
    ResourceUserManagerUser, ResourceUserManagerUserProfile, ResourceUserManagerUserGroup,
    ResourceUserAaa, ResourceUserGroup, ResourceSystemUserSettings, ResourceUserSshKeys,
    ResourceZerotier, ResourceZerotierController, ResourceZerotierInterface}
=============================================================================
