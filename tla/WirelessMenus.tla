--------------------------- MODULE WirelessMenus ---------------------------
(* WiFi, wireless, 60 GHz, LTE and CAPsMAN.                                *)
EXTENDS Schemas

ResourceCapsManAaa == Menu("/caps-man/aaa", Name, Setting, UNION {
    Text(Defaulted, {"called_format", "mac_format", "mac_mode"}),
    Text(OptionalComputed, {"interim_update", "mac_caching"})})

ResourceCapsManAccessList == Menu("/caps-man/access-list", Id, Own, UNION {
    PropCommentRw, PropDisabledRw, PropPlaceBefore,
    Flag(Optional, {"client_to_client_forwarding", "radius_accounting"}),
    Number(Kept, {"vlan_id"}),
    Number(Optional, {"ap_tx_limit", "client_tx_limit"}),
    Text(Defaulted, {"signal_range", "time"}),
    Text(Defaulted \cup Respelled, {"allow_signal_out_of_range"}),
    Text(Optional, {"action", "mac_address", "mac_mask", "interface", "private_passphrase",
      "ssid_regexp", "vlan_mode"})})

ResourceCapsManChannel == Menu("/caps-man/channel", Id, Entry, UNION {
    PropCommentRw, PropNameForceNewRw,
    Flag(Optional, {"save_selected", "skip_dfs_channels"}),
    Number(Optional, {"tx_power"}),
    NumberList(Optional, {"frequency"}),
    Text(Optional, {"band", "control_channel_width", "extension_channel", "reselect_interval", "width"}),
    TextList(Optional, {"secondary_frequency"})})

ResourceCapsManConfiguration == Renaming(
  {<<<<"channel", "config">>, <<"channel">>>>, <<<<"datapath", "config">>, <<"datapath">>>>,
   <<<<"rates", "config">>, <<"rates">>>>, <<<<"security", "config">>, <<"security">>>>},
  Menu("/caps-man/configuration", Id, Entry, UNION {
    PropCommentRw, PropNameForceNewRw,
    Flag(OptionalComputed, {"hide_ssid"}),
    Map(Kept, {"channel", "datapath", "rates", "security"}),
    Number(Optional, {"hw_retries", "max_sta_count"}),
    NumberList(Optional, {"rx_chains", "tx_chains"}),
    Text(Optional, {"country", "distance", "guard_interval", "hw_protection_mode", "installation",
      "keepalive_frames", "load_balancing_group", "mode", "multicast_helper", "ssid"}),
    Text(Respelled, {"disconnect_timeout", "frame_lifetime"})}))

ResourceCapsManDatapath == Menu("/caps-man/datapath", Id, Entry, UNION {
    PropCommentRw, PropNameForceNewRw,
    Flag(Optional, {"client_to_client_forwarding", "local_forwarding"}),
    Number(Kept, {"vlan_id"}),
    Number(Optional, {"bridge_cost", "bridge_horizon", "l2mtu", "mtu"}),
    Text(Optional, {"arp", "bridge", "interface_list", "openflow_switch", "vlan_mode"})})

ResourceCapsManInterface == Renaming(
  {<<<<"channel", "config">>, <<"channel">>>>,
   <<<<"configuration", "config">>, <<"configuration">>>>,
   <<<<"datapath", "config">>, <<"datapath">>>>, <<<<"rates", "config">>, <<"rates">>>>,
   <<<<"security", "config">>, <<"security">>>>},
  Menu("/caps-man/interface", Id, Entry, UNION {
    PropArpTimeoutRw, PropCommentRw, PropDisabledRw, PropL2MtuRo,
    Flag(ReadOnly, {"bound", "inactive", "master", "running"}),
    Map(Kept, {"channel", "configuration", "datapath", "rates", "security"}),
    Text(Defaulted, {"master_interface"}),
    Text(Kept, {"mac_address", "radio_mac", "radio_name"}),
    Text(Required, {"name"})}))

ResourceCapsManManager == Menu("/caps-man/manager", Name, Setting, UNION {
    Flag(Kept, {"enabled"}),
    Flag(Optional, {"require_peer_certificate"}),
    Text(Defaulted, {"ca_certificate", "certificate", "upgrade_policy"}),
    Text(Optional, {"package_path"}),
    Text(ReadOnly, {"generated_ca_certificate", "generated_certificate"})})

ResourceCapsManManagerInterface == Menu("/caps-man/manager/interface", Id, Entry, UNION {
    PropCommentRw, PropDefaultRo, PropDisabledRw, PropDynamicRo, PropInterfaceRw,
    Flag(Optional, {"forbid"})})

ResourceCapsManProvisioning == Menu("/caps-man/provisioning", Id, Entry, UNION {
    PropCommentRw, PropDisabledRw,
    Text(Defaulted, {"action", "name_format", "radio_mac"}),
    Text(Optional, {"common_name_regexp", "identity_regexp", "name_prefix"}),
    Text(Required, {"master_configuration"}),
    TextSet(Optional, {"hw_supported_modes", "ip_address_ranges", "slave_configurations"})})

ResourceCapsManRates == Menu("/caps-man/rates", Id, Entry, UNION {
    PropCommentRw, PropNameForceNewRw,
    Text(OptionalComputed, {"vht_basic_mcs", "vht_supported_mcs"}),
    TextSet(Optional, {"basic", "supported"}),
    TextSet(OptionalComputed, {"ht_basic_mcs", "ht_supported_mcs"})})

ResourceCapsManSecurity == Menu("/caps-man/security", Id, Entry, UNION {
    PropCommentRw, PropNameForceNewRw,
    Flag(Optional, {"disable_pmkid", "eap_radius_accounting"}),
    Text(Optional, {"eap_methods", "group_encryption", "tls_certificate", "tls_mode"}),
    Text(Optional \cup Secret, {"passphrase"}),
    Text(Respelled, {"group_key_update"}),
    TextSet(Optional, {"authentication_types", "encryption"})})

ResourceInterfaceLte == Menu("/interface/lte", Id, Own, UNION {
    PropCommentRw, PropDisabledRw, PropInactiveRo, PropRunningRo,
    Flag(Kept, {"allow_roaming", "sms_read"}),
    Number(Optional, {"operator"}),
    NumberSet(Optional, {"band", "nr_band"}),
    Text(Kept, {"apn_profiles", "sms_protocol"}),
    Text(Optional, {"modem_init", "pin"}),
    Text(OptionalComputed, {"mtu"}),
    Text(ReadOnly, {"default_name"}),
    Text(Required, {"name"}),
    TextSet(Kept, {"network_mode"})})

ResourceInterfaceLteApn == Menu("/interface/lte/apn", Id, Entry, UNION {
    PropCommentRw, PropDefaultRo,
    Flag(Kept, {"add_default_route", "use_network_apn", "use_peer_dns"}),
    Number(Kept, {"default_route_distance"}),
    Number(Optional, {"number"}),
    Text(Kept, {"authentication", "ip_type", "passthrough_interface", "passthrough_mac",
      "passthrough_subnet_selection", "password", "user"}),
    Text(Optional, {"apn", "ipv6_interface"}),
    Text(Required, {"name"})})

ResourceInterfaceW60g == Menu("/interface/w60g", Id, Own, UNION {
    PropArpRw, PropArpTimeoutRw, PropCommentRw, PropDisabledRw, PropL2MtuRw, PropRunningRo,
    Flag(Kept, {"isolate_stations"}),
    Flag(Optional, {"mdmg_fix"}),
    Number(Kept \cup Skipped, {"tx_sector"}),
    Text(Kept, {"frequency", "mode", "put_stations_in_bridge", "region", "ssid"}),
    Text(Kept \cup Secret, {"password"}),
    Text(OptionalComputed, {"mtu"}),
    Text(Required, {"name"}),
    Text(Respelled, {"mac_address"}),
    TextSet(Kept, {"scan_list"})})

ResourceInterfaceW60gStation == Menu("/interface/w60g/station", Id, Entry, UNION {
    PropArpRw, PropArpTimeoutRw, PropDisabledRw, PropRunningRo,
    Text(Kept, {"put_in_bridge", "remote_address"}),
    Text(OptionalComputed, {"mtu"}),
    Text(Required, {"name"}),
    Text(Required \cup Kept, {"parent"}),
    Text(Required \cup Respelled, {"mac_address"})})

ResourceWifi == Renaming(
  {<<<<"aaa", "config">>, <<"aaa">>>>, <<<<"channel", "config">>, <<"channel">>>>,
   <<<<"configuration", "config">>, <<"configuration">>>>,
   <<<<"datapath", "config">>, <<"datapath">>>>,
   <<<<"interworking", "config">>, <<"interworking">>>>,
   <<<<"security", "config">>, <<"security">>>>, <<<<"steering", "config">>, <<"steering">>>>},
  Menu("/interface/wifi", Id, Entry, UNION {
    PropArpRw, PropArpTimeoutRw, PropCommentRw, PropDisabledRw, PropL2MtuRw,
    Flag(Kept, {"deprioritize_unii_3_4", "disable_running_check"}),
    Flag(ReadOnly, {"bound", "inactive", "master", "running"}),
    Map(Kept, {"aaa", "channel", "configuration", "datapath", "interworking", "security", "steering"}),
    Number(Kept, {"mtu"}),
    Text(Kept, {"mac_address"}),
    Text(Optional, {"master_interface"}),
    Text(ReadOnly, {"default_name", "radio_mac"}),
    Text(Required, {"name"})}))

ResourceWifiAaa == Menu("/interface/wifi/aaa", Id, Entry, UNION {
    PropCommentRw, PropDisabledRw,
    Text(Optional, {"called_format", "calling_format", "interim_update", "mac_caching",
      "nas_identifier", "password_format", "username_format"}),
    Text(Required, {"name"})})

ResourceWifiAccessList == Menu("/interface/wifi/access-list", Id, Own, UNION {
    PropCommentRw, PropDisabledRw, PropPlaceBefore,
    Flag(Optional, {"client_isolation", "radius_accounting"}),
    Number(Kept, {"vlan_id"}),
    Number(ReadOnly, {"match_count"}),
    Text(Defaulted, {"action"}),
    Text(Optional, {"allow_signal_out_of_range", "interface", "mac_address", "mac_address_mask",
      "passphrase", "signal_range", "ssid_regexp", "time"}),
    Text(ReadOnly, {"last_logged_in", "last_logged_out"})})

ResourceWifiCap == Menu("/interface/wifi/cap", Name, Setting, UNION {
    Flag(Kept, {"enabled"}),
    Flag(Optional, {"lock_to_caps_man", "slaves_static"}),
    Text(Optional, {"certificate", "slaves_datapath"}),
    Text(ReadOnly, {"current_caps_man_address", "current_caps_man_identity",
      "locked_caps_man_common_name", "requested_certificate"}),
    TextList(Optional, {"caps_man_addresses", "caps_man_certificate_common_names", "caps_man_names"}),
    TextSet(Optional, {"discovery_interfaces"})})

ResourceWifiCapsman == Menu("/interface/wifi/capsman", Name, Setting, UNION {
    Flag(Kept, {"enabled"}),
    Flag(Optional, {"require_peer_certificate"}),
    Text(Optional, {"ca_certificate", "certificate", "package_path", "upgrade_policy"}),
    Text(ReadOnly, {"generated_ca_certificate", "generated_certificate"}),
    TextList(Optional, {"interfaces"})})

ResourceWifiChannel == Menu("/interface/wifi/channel", Id, Entry, UNION {
    PropCommentRw, PropDisabledRw,
    Flag(Kept, {"deprioritize_unii_3_4"}),
    Text(Kept, {"reselect_interval", "reselect_time"}),
    Text(Optional, {"band", "skip_dfs_channels", "width"}),
    Text(Required, {"name"}),
    TextList(Optional, {"frequency", "secondary_frequency"})})

ResourceWifiConfiguration == Renaming(
  {<<<<"aaa", "config">>, <<"aaa">>>>, <<<<"channel", "config">>, <<"channel">>>>,
   <<<<"datapath", "config">>, <<"datapath">>>>,
   <<<<"interworking", "config">>, <<"interworking">>>>,
   <<<<"security", "config">>, <<"security">>>>, <<<<"steering", "config">>, <<"steering">>>>},
  Menu("/interface/wifi/configuration", Id, Entry, UNION {
    PropCommentRw, PropDisabledRw,
    Flag(Kept, {"deprioritize_unii_3_4"}),
    Flag(Optional, {"hide_ssid"}),
    Map(Kept, {"aaa", "channel", "datapath", "interworking", "security", "steering"}),
    Number(Optional, {"antenna_gain", "dtim_period", "tx_power"}),
    NumberSet(Optional, {"chains", "tx_chains"}),
    Text(Optional, {"country", "manager", "mode", "multicast_enhance", "qos_classifier", "ssid"}),
    Text(Required, {"name"}),
    Text(Respelled, {"beacon_interval"})}))

ResourceWifiDatapath == Menu("/interface/wifi/datapath", Id, Entry, UNION {
    PropCommentRw, PropDisabledRw,
    Flag(Optional, {"client_isolation"}),
    Number(Kept, {"vlan_id"}),
    Text(Kept, {"traffic_processing"}),
    Text(Optional, {"bridge", "bridge_cost", "bridge_horizon", "interface_list"}),
    Text(Required, {"name"})})

ResourceWifiInterworking == Menu("/interface/wifi/interworking", Id, Entry, UNION {
    PropCommentRw, PropDisabledRw,
    Flag(Optional, {"asra", "esr", "hotspot20", "hotspot20_dgaf", "internet", "uesa", "wan_at_capacity",
      "wan_symmetric"}),
    Number(Optional, {"wan_downlink", "wan_downlink_load", "wan_measurement_duration", "wan_uplink",
      "wan_uplink_load"}),
    NumberList(Optional, {"operational_classes"}),
    Text(Optional, {"3gpp_raw", "hessid", "ipv4_availability", "ipv6_availability", "network_type",
      "venue", "wan_status"}),
    Text(Required, {"name"}),
    TextList(Optional, {"3gpp_info", "authentication_types", "connection_capabilities", "domain_names",
      "operator_names", "realms", "realms_raw", "roaming_ois", "venue_names"})})

ResourceWifiProvisioning == Menu("/interface/wifi/provisioning", Id, Entry, UNION {
    PropCommentRw, PropDisabledRw,
    Text(Defaulted, {"action"}),
    Text(Kept, {"radio_mac", "slave_name_format"}),
    Text(Optional, {"common_name_regexp", "identity_regexp", "master_configuration", "name_format"}),
    TextList(Optional, {"address_ranges", "slave_configurations", "supported_bands"})})

ResourceWifiSecurity == Menu("/interface/wifi/security", Id, Entry, UNION {
    PropCommentRw, PropDisabledRw,
    Flag(Optional, {"disable_pmkid", "eap_accounting", "ft", "ft_over_ds", "ft_preserve_vlanid"}),
    NumberSet(Optional, {"dh_groups"}),
    Text(Optional, {"connect_group", "connect_priority", "eap_anonymous_identity",
      "eap_certificate_mode", "eap_password", "eap_tls_certificate", "eap_username",
      "ft_nas_identifier", "group_encryption", "management_encryption", "management_protection",
      "multi_passphrase_group", "owe_transition_interface", "passphrase",
      "sae_anti_clogging_threshold", "sae_max_failure_rate", "sae_pwe", "wps"}),
    Text(Required, {"name"}),
    Text(Respelled, {"ft_mobility_domain", "ft_r0_key_lifetime", "ft_reassociation_deadline",
      "group_key_update"}),
    TextSet(Optional, {"authentication_types", "eap_methods", "encryption"})})

ResourceWifiSecurityMultiPassphrase == Menu("/interface/wifi/security/multi-passphrase", Id, Entry, UNION {
    PropCommentRw, PropDisabledRw,
    Flag(Optional, {"isolation"}),
    Number(Kept, {"vlan_id"}),
    Text(Optional, {"expires"}),
    Text(Optional \cup Secret, {"passphrase"}),
    Text(Required, {"group"})})

ResourceWifiSteering == Menu("/interface/wifi/steering", Id, Entry, UNION {
    PropCommentRw, PropDisabledRw,
    Flag(Optional, {"rrm", "wnm"}),
    Text(Required, {"name"}),
    TextList(Optional, {"neighbor_group"})})

ResourceInterfaceWireless == Renaming(
  {<<<<"basic_rates_ag">>, <<"basic_rates_a/g">>>>,
   <<<<"supported_rates_ag">>, <<"supported_rates_a/g">>>>},
  Menu("/interface/wireless", Id, Own, UNION {
    PropCommentRw, PropDisabledRw, PropL2MtuRw, PropRunningRo,
    Flag(Kept, {"default_authentication", "default_forwarding"}),
    Flag(Optional, {"allow_sharedkey", "compression", "disable_running_check", "hide_ssid",
      "wds_ignore_ssid"}),
    Number(Kept, {"amsdu_limit", "amsdu_threshold", "antenna_gain", "hw_protection_threshold",
      "hw_retries", "max_station_count", "nv2_cell_radius", "nv2_downlink_ratio", "nv2_queue_count",
      "tdma_period_size", "vlan_id", "wds_default_cost"}),
    Number(Optional, {"default_ap_tx_limit", "default_client_tx_limit", "frame_lifetime",
      "frequency_offset", "periodic_calibration_interval", "tx_power"}),
    NumberSet(Kept, {"ampdu_priorities", "rx_chains", "tx_chains"}),
    Text(Kept, {"adaptive_noise_immunity", "arp", "arp_timeout", "band", "bridge_mode", "channel_width",
      "country", "distance", "frequency", "frequency_mode", "guard_interval",
      "hw_fragmentation_threshold", "hw_protection_mode", "installation", "interworking_profile",
      "keepalive_frames", "mode", "multicast_buffering", "multicast_helper",
      "noise_floor_threshold", "nv2_mode", "nv2_noise_floor_offset", "nv2_qos", "nv2_security",
      "preamble_mode", "proprietary_extensions", "rate_selection", "rate_set", "scan_list",
      "security_profile", "ssid", "skip_dfs_channels", "station_bridge_clone_mac",
      "station_roaming", "supported_rates_ag", "supported_rates_b", "tx_power_mode",
      "update_stats_interval", "vlan_mode", "vht_basic_mcs", "vht_supported_mcs", "wds_cost_range",
      "wds_default_bridge", "wds_mode", "wireless_protocol", "wmm_support", "wps_mode"}),
    Text(Kept \cup Secret, {"nv2_sync_secret"}),
    Text(Optional, {"antenna_mode", "area", "burst_time", "master_interface", "periodic_calibration",
      "prism_cardtype"}),
    Text(Optional \cup Secret, {"nv2_preshared_key"}),
    Text(Optional \cup Unset, {"secondary_frequency"}),
    Text(OptionalComputed, {"mtu"}),
    Text(ReadOnly, {"default_name", "interface_type", "radio_name"}),
    Text(Required, {"name"}),
    Text(Respelled, {"disconnect_timeout", "mac_address", "on_fail_retry_time"}),
    TextSet(Kept, {"basic_rates_ag", "basic_rates_b", "ht_basic_mcs", "ht_supported_mcs"})}))

ResourceInterfaceWirelessAccessList == Menu("/interface/wireless/access-list", Id, Entry, UNION {
    PropCommentRw, PropDisabledRw,
    Flag(Kept, {"authentication", "forwarding"}),
    Number(Kept, {"vlan_id"}),
    Number(Optional, {"ap_tx_limit", "client_tx_limit"}),
    Text(Kept, {"interface", "private_algo", "signal_range", "vlan_mode"}),
    Text(Optional, {"management_protection_key", "private_key", "private_pre_shared_key", "time"}),
    Text(Respelled, {"allow_signal_out_of_range", "mac_address"})})

ResourceInterfaceWirelessCap == Menu("/interface/wireless/cap", Name, Setting, UNION {
    Flag(Kept, {"enabled"}),
    Flag(Optional, {"lock_to_caps_man", "static_virtual"}),
    Text(Defaulted, {"bridge", "certificate"}),
    Text(ReadOnly, {"locked_caps_man_common_name", "requested_certificate"}),
    TextList(Optional, {"caps_man_addresses", "caps_man_certificate_common_names", "caps_man_names"}),
    TextSet(Optional, {"discovery_interfaces", "interfaces"})})

ResourceInterfaceWirelessConnectList == Renaming(
  {<<<<"three_gpp">>, <<"3gpp">>>>},
  Menu("/interface/wireless/connect-list", Id, Entry, UNION {
    PropCommentRw, PropDisabledRw, PropInterfaceRw,
    Flag(Kept, {"connect"}),
    Text(Kept, {"interworking", "iw_asra", "iw_esr", "iw_hessid", "iw_hotspot20", "iw_hotspot20_dgaf",
      "iw_internet", "iw_ipv4_availability", "iw_ipv6_availability", "iw_network_type",
      "iw_roaming_ois", "iw_uesa", "iw_venue", "security_profile", "signal_range",
      "wireless_protocol"}),
    Text(Optional, {"three_gpp", "area_prefix", "iw_authentication_types", "iw_connection_capabilities",
      "iw_realms", "ssid"}),
    Text(Respelled, {"allow_signal_out_of_range", "mac_address"})}))

ResourceInterfaceWirelessSecurityProfiles == Menu("/interface/wireless/security-profiles", Id, Entry, UNION {
    PropCommentRw, PropDefaultRo,
    Flag(Optional, {"disable_pmkid", "radius_eap_accounting", "radius_mac_accounting",
      "radius_mac_authentication"}),
    Text(Kept, {"eap_methods", "group_ciphers", "management_protection", "mode", "radius_called_format",
      "radius_mac_caching", "radius_mac_format", "radius_mac_mode", "static_algo_0",
      "static_algo_1", "static_algo_2", "static_algo_3", "static_sta_private_algo",
      "static_transmit_key", "tls_certificate", "tls_mode", "unicast_ciphers"}),
    Text(Kept \cup Secret, {"supplicant_identity"}),
    Text(Optional, {"mschapv2_password", "mschapv2_username"}),
    Text(Optional \cup Secret, {"management_protection_key", "static_key_0", "static_key_1",
      "static_key_2", "static_key_3", "static_sta_private_key", "wpa_pre_shared_key",
      "wpa2_pre_shared_key"}),
    Text(Required, {"name"}),
    Text(Respelled, {"group_key_update", "interim_update"}),
    TextSet(Kept, {"authentication_types"})})

\* The menus of this group that the provider offers a resource for.
WirelessMenu == {ResourceCapsManAaa, ResourceCapsManAccessList, ResourceCapsManChannel,
    ResourceCapsManConfiguration, ResourceCapsManDatapath,
    ResourceCapsManInterface, ResourceCapsManManager, ResourceCapsManManagerInterface,
    ResourceCapsManProvisioning, ResourceCapsManRates, ResourceCapsManSecurity,
    ResourceInterfaceLte, ResourceInterfaceLteApn, ResourceInterfaceW60g,
    ResourceInterfaceW60gStation, ResourceWifi, ResourceWifiAaa, ResourceWifiAccessList,
    ResourceWifiCap, ResourceWifiCapsman, ResourceWifiChannel, ResourceWifiConfiguration,
    ResourceWifiDatapath, ResourceWifiInterworking, ResourceWifiProvisioning, ResourceWifiSecurity,
    ResourceWifiSecurityMultiPassphrase, ResourceWifiSteering, ResourceInterfaceWireless,
    ResourceInterfaceWirelessAccessList, ResourceInterfaceWirelessCap,
    ResourceInterfaceWirelessConnectList, ResourceInterfaceWirelessSecurityProfiles}
=============================================================================
