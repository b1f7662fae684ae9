---------------------------- MODULE MCNativeCalls ----------------------------
(***************************************************************************)
(* The calls of every client of the native library, for TLC.               *)
(***************************************************************************)
EXTENDS NativeLibrary

deviceCalls == {
  idevice_new, idevice_from_fd, idevice_new_tcp_socket, idevice_get_type,
  idevice_rsd_checkin, idevice_start_session, idevice_free,
  idevice_stream_free, idevice_string_free, idevice_data_free,
  idevice_plist_array_free, idevice_outer_slice_free, idevice_error_free,
  idevice_init_logger}

providerCalls == {
  idevice_tcp_provider_new, idevice_provider_free, usbmuxd_provider_new,
  idevice_provider_get_pairing_file, idevice_pairing_file_read,
  idevice_pairing_file_from_bytes, idevice_pairing_file_serialize,
  idevice_pairing_file_free}

lockdownCalls == {
  lockdownd_connect, lockdownd_connect_rsd, lockdownd_new,
  lockdownd_start_session, lockdownd_start_service, lockdownd_pair,
  lockdownd_get_value, lockdownd_enter_recovery, lockdownd_set_value,
  lockdownd_client_free}

rsdCalls == {
  rsd_handshake_new, rsd_get_protocol_version, rsd_get_uuid,
  rsd_get_services, rsd_service_available, rsd_get_service_info,
  rsd_handshake_clone, rsd_free_string, rsd_free_service, rsd_free_services,
  rsd_handshake_free}

tunnelCalls == {
  core_device_proxy_connect, core_device_proxy_new, core_device_proxy_send,
  core_device_proxy_recv, core_device_proxy_get_client_parameters,
  core_device_proxy_get_server_address,
  core_device_proxy_get_server_rsd_port,
  core_device_proxy_create_tcp_adapter, core_device_proxy_free,
  adapter_free, adapter_connect, adapter_pcap, adapter_stream_close,
  adapter_close, adapter_send, adapter_recv, tunnel_create_usb,
  tunnel_pair_usb, tunnel_create_remotexpc, tunnel_create_rppairing,
  rppairing_pair_network, idevice_tcp_stack_into_sync_objects,
  idevice_tcp_feed_object_write, idevice_tcp_eat_object_read,
  idevice_free_tcp_feed_object, idevice_free_tcp_eat_object}

usbmuxdCalls == {
  idevice_usbmuxd_new_tcp_connection,
  idevice_usbmuxd_new_unix_socket_connection,
  idevice_usbmuxd_new_default_connection, idevice_usbmuxd_get_devices,
  idevice_usbmuxd_connect_to_device, idevice_usbmuxd_get_pair_record,
  idevice_usbmuxd_save_pair_record, idevice_usbmuxd_listen,
  idevice_usbmuxd_listener_handle_free, idevice_usbmuxd_listener_next,
  idevice_usbmuxd_get_buid, idevice_usbmuxd_connection_free,
  idevice_usbmuxd_tcp_addr_new, idevice_usbmuxd_unix_addr_new,
  idevice_usbmuxd_default_addr_new, idevice_usbmuxd_addr_free,
  idevice_usbmuxd_device_list_free, idevice_usbmuxd_device_free,
  idevice_usbmuxd_device_get_udid, idevice_usbmuxd_device_get_device_id,
  idevice_usbmuxd_device_get_connection_type}

pairingCalls == {
  rp_pairing_file_generate, rp_pairing_file_read,
  rp_pairing_file_from_bytes, rp_pairing_file_to_bytes,
  rp_pairing_file_write, rp_pairing_file_free, rppairing_peer_device_free,
  remote_pairing_lockdown_connect, remote_pairing_lockdown_new,
  remote_pairing_lockdown_attempt_pair_verify,
  remote_pairing_lockdown_validate_pairing, remote_pairing_lockdown_pair,
  remote_pairing_lockdown_connect_pairing,
  remote_pairing_lockdown_encryption_key, remote_pairing_lockdown_free}

streamCalls == {
  xf_rsd_connect_service, xf_stream_send, xf_stream_recv,
  xf_stream_read_exact, xf_stream_close, xf_rsd_advertised_services}

afcCalls == {
  afc_client_connect, afc_client_connect_rsd, afc2_client_connect,
  afc_client_new, afc_client_free, afc_list_directory, afc_make_directory,
  afc_get_file_info, afc_file_info_free, afc_get_device_info,
  afc_device_info_free, afc_remove_path, afc_remove_path_and_contents,
  afc_file_open, afc_file_close, afc_file_read, afc_file_read_entire,
  afc_file_seek, afc_file_tell, afc_file_write, afc_make_link,
  afc_rename_path, afc_file_read_data_free, xf_afc_connect_rsd,
  xf_afc_get_mtime, xf_afc_set_file_time, house_arrest_client_connect,
  house_arrest_client_connect_rsd, house_arrest_client_new,
  house_arrest_vend_container, house_arrest_vend_documents,
  house_arrest_client_free, crash_report_client_connect,
  crash_report_client_connect_rsd, crash_report_client_new,
  crash_report_client_ls, crash_report_client_pull,
  crash_report_client_remove, crash_report_client_to_afc,
  crash_report_flush, crash_report_client_free, AfcClient_get_file_hash,
  AfcClient_get_connection_info, File_lock, File_set_size}

misagentCalls == {
  misagent_connect, misagent_connect_rsd, misagent_install, misagent_remove,
  misagent_copy_all, misagent_free_profiles, misagent_client_free}

backupCalls == {
  mobilebackup2_connect, mobilebackup2_connect_rsd, mobilebackup2_new,
  mobilebackup2_client_free, mobilebackup2_backup, mobilebackup2_restore,
  mobilebackup2_change_password, mobilebackup2_disconnect,
  MobileBackup2Client_request_backup_info, MobileBackup2Client_list_backups,
  MobileBackup2Client_start_backup, MobileBackup2Client_start_restore,
  MobileBackup2Client_start_restore_with,
  MobileBackup2Client_info_from_path, MobileBackup2Client_list_from_path,
  MobileBackup2Client_unback_from_path,
  MobileBackup2Client_extract_from_path,
  MobileBackup2Client_erase_device_from_path,
  MobileBackup2Client_get_freespace,
  MobileBackup2Client_check_backup_encryption}

amfiCalls == {
  amfi_connect, amfi_connect_rsd, amfi_new,
  amfi_reveal_developer_mode_option_in_ui, amfi_enable_developer_mode,
  amfi_accept_developer_mode, amfi_client_free,
  AmfiClient_get_developer_mode_status, AmfiClient_trust_app_signer}

diagnosticsCalls == {
  diagnostics_relay_client_connect, diagnostics_relay_client_connect_rsd,
  diagnostics_relay_client_new, diagnostics_relay_client_ioregistry,
  diagnostics_relay_client_mobilegestalt, diagnostics_relay_client_gasguage,
  diagnostics_relay_client_nand, diagnostics_relay_client_all,
  diagnostics_relay_client_restart, diagnostics_relay_client_shutdown,
  diagnostics_relay_client_sleep, diagnostics_relay_client_wifi,
  diagnostics_relay_client_goodbye, diagnostics_relay_client_free}

companionCalls == {
  companion_proxy_connect, companion_proxy_connect_rsd, companion_proxy_new,
  companion_proxy_get_device_registry,
  companion_proxy_start_forwarding_service_port,
  companion_proxy_stop_forwarding_service_port, companion_proxy_client_free,
  CompanionProxy_get_value, CompanionProxy_listen_for_devices,
  CompanionProxyStream_next}

btCalls == {
  bt_packet_logger_connect, bt_packet_logger_connect_rsd,
  bt_packet_logger_new, bt_packet_logger_next_packet, bt_packet_free,
  bt_packet_logger_client_free}

pcapdCalls == {
  pcapd_connect, pcapd_connect_rsd, pcapd_new, pcapd_next_packet,
  pcapd_device_packet_free, pcapd_client_free}

syslogCalls == {
  syslog_relay_connect_tcp, syslog_relay_connect_rsd,
  syslog_relay_client_free, syslog_relay_next}

notificationCalls == {
  notification_proxy_connect, notification_proxy_connect_rsd,
  notification_proxy_new, notification_proxy_post,
  notification_proxy_observe, notification_proxy_observe_multiple,
  notification_proxy_receive, notification_proxy_receive_with_timeout,
  notification_proxy_free_string, notification_proxy_client_free,
  remote_notification_proxy_connect_rsd, remote_notification_proxy_new,
  remote_notification_proxy_post, remote_notification_proxy_observe,
  remote_notification_proxy_observe_multiple,
  remote_notification_proxy_receive, remote_notification_proxy_free,
  NotificationProxyClient_shutdown}

heartbeatCalls == {
  heartbeat_connect, heartbeat_connect_rsd, heartbeat_new,
  heartbeat_send_polo, heartbeat_get_marco, heartbeat_client_free}

preboardCalls == {
  preboard_service_connect, preboard_service_connect_rsd,
  preboard_service_new, preboard_service_create_stashbag,
  preboard_service_commit_stashbag, preboard_service_client_free}

screenshotCalls == {
  screenshotr_connect, screenshotr_connect_rsd, screenshotr_take_screenshot,
  screenshotr_screenshot_free, screenshotr_client_free}

locationCalls == {
  lockdown_location_simulation_connect, lockdown_location_simulation_new,
  lockdown_location_simulation_set, lockdown_location_simulation_clear,
  lockdown_location_simulation_free}

activationCalls == {
  mobileactivationd_connect, mobileactivationd_get_state,
  mobileactivationd_is_activated, mobileactivationd_deactivate,
  mobileactivationd_client_free,
  MobileActivationdClient_create_activation_info,
  MobileActivationdClient_create_session_info}

springboardCalls == {
  springboard_services_connect, springboard_services_connect_rsd,
  springboard_services_new, springboard_services_get_icon,
  springboard_services_get_home_screen_wallpaper_preview,
  springboard_services_get_lock_screen_wallpaper_preview,
  springboard_services_get_interface_orientation,
  springboard_services_get_homescreen_icon_metrics,
  springboard_services_free, SpringBoardServicesClient_get_icon_state,
  SpringBoardServicesClient_set_icon_state,
  SpringBoardServicesClient_set_icon_state_with_version}

installcoordinationCalls == {
  installcoordination_proxy_new, installcoordination_proxy_connect_rsd,
  installcoordination_proxy_uninstall_app,
  installcoordination_proxy_query_app_path,
  installcoordination_proxy_client_free}

traceCalls == {
  os_trace_relay_connect, os_trace_relay_connect_rsd, os_trace_relay_free,
  os_trace_relay_start_trace, os_trace_relay_receiver_free,
  os_trace_relay_get_pid_list, os_trace_relay_next, os_trace_relay_free_log,
  OsTraceRelayClient_create_archive}

installationCalls == {
  installation_proxy_connect, installation_proxy_connect_rsd,
  installation_proxy_new, installation_proxy_get_apps,
  installation_proxy_client_free, installation_proxy_install,
  installation_proxy_install_with_callback, installation_proxy_upgrade,
  installation_proxy_upgrade_with_callback, installation_proxy_uninstall,
  installation_proxy_uninstall_with_callback,
  installation_proxy_check_capabilities_match, installation_proxy_browse}

debuggerCalls == {
  debugserver_command_new, debugserver_command_free,
  debug_proxy_connect_rsd, debug_proxy_new, debug_proxy_free,
  debug_proxy_send_command, debug_proxy_read_response, debug_proxy_send_raw,
  debug_proxy_read, debug_proxy_set_argv, debug_proxy_send_ack,
  debug_proxy_send_nack, debug_proxy_set_ack_mode}

imagesCalls == {
  image_mounter_connect, image_mounter_connect_rsd, image_mounter_new,
  image_mounter_free, image_mounter_copy_devices,
  image_mounter_lookup_image, image_mounter_upload_image,
  image_mounter_mount_image, image_mounter_unmount_image,
  image_mounter_query_developer_mode_status, image_mounter_mount_developer,
  image_mounter_query_personalization_manifest, image_mounter_query_nonce,
  image_mounter_query_personalization_identifiers,
  image_mounter_roll_personalization_nonce,
  image_mounter_roll_cryptex_nonce, image_mounter_mount_personalized,
  image_mounter_mount_personalized_rsd,
  image_mounter_mount_personalized_with_callback_rsd,
  image_mounter_mount_personalized_with_callback}

recoveryCalls == {
  restore_service_new, restore_service_connect_rsd,
  restore_service_enter_recovery, restore_service_reboot,
  restore_service_get_preflightinfo, restore_service_get_nonces,
  restore_service_get_app_parameters, restore_service_restore_lang,
  restore_service_client_free, idevice_recovery_device_new,
  idevice_recovery_send_command, idevice_recovery_send_buffer,
  idevice_recovery_getenv, idevice_recovery_setenv,
  idevice_recovery_set_autoboot, idevice_recovery_finish_transfer,
  idevice_recovery_reboot, idevice_recovery_get_mode,
  idevice_recovery_get_info, idevice_recovery_device_free}

cryptexesCalls == {
  cryptexd_connect_rsd, cryptexd_new,
  cryptexd_read_personalization_identifiers, cryptexd_copy_installed,
  cryptexd_free_installed, cryptexd_free_installed_cryptex,
  cryptexd_get_nonce, cryptexd_cryptex_nonce, cryptexd_roll_nonce,
  cryptexd_uninstall, cryptexd_install, cryptexd_unwrap_nonce,
  cryptex1_assets_load, cryptex1_assets_from_parts,
  cryptex1_assets_nonce_domain, cryptex1_assets_free, cryptexd_install_ddi,
  cryptexd_installed_ddi, cryptexd_free}

appsCalls == {
  app_service_connect_rsd, app_service_new, app_service_free,
  app_service_list_apps, app_service_free_app_list, app_service_launch_app,
  app_service_free_launch_response, app_service_list_processes,
  app_service_free_process_list, app_service_uninstall_app,
  app_service_send_signal, app_service_free_signal_response,
  AppServiceClient_stream_apps}

configurationCalls == {
  configuration_service_connect_rsd, configuration_service_new,
  configuration_service_get_user_interface_style,
  configuration_service_set_user_interface_style,
  configuration_service_set_liquid_glass_opacity,
  configuration_service_get_color_filter,
  configuration_service_set_color_filter,
  configuration_service_get_device_text_size,
  configuration_service_set_device_text_size,
  configuration_service_get_reduce_motion,
  configuration_service_set_reduce_motion,
  configuration_service_get_reduce_transparency,
  configuration_service_set_reduce_transparency,
  configuration_service_get_show_borders,
  configuration_service_set_show_borders,
  configuration_service_set_increase_contrast, configuration_service_free}

sysdiagnoseCalls == {
  diagnostics_service_connect_rsd, diagnostics_service_new,
  diagnostics_service_capture_sysdiagnose, sysdiagnose_stream_next,
  diagnostics_service_free, sysdiagnose_stream_free}

iconsCalls == {
  icon_service_connect_rsd, icon_service_new, icon_service_fetch_icon,
  icon_service_free_icon, icon_service_free}

appFilesCalls == {
  file_service_connect_rsd, file_service_new, file_service_create_session,
  file_service_session_id, file_service_retrieve_directory_list,
  file_service_free_directory_list, file_service_retrieve_file,
  file_service_retrieve_file_with_stream, file_service_propose_empty_file,
  file_service_domain_from_name, file_service_free}

orientationCalls == {
  OrientationServiceClient_rotate}

pasteboardCalls == {
  PasteboardServiceClient_get_with_policy, PasteboardServiceClient_get,
  PasteboardServiceClient_set_text, PasteboardServiceClient_set_image,
  PasteboardServiceClient_resolve_raw, PasteboardServiceClient_resolve,
  PasteboardServiceClient_set_change_notifications,
  PasteboardServiceClient_recv_push}

scenariosCalls == {
  LocationServiceClient_available_location_scenarios}

captureCalls == {
  ScreenCaptureServiceClient_take_screenshot}

stdioCalls == {
  OpenStdioSocketClient_read_uuid}

displayCalls == {
  DisplayServiceClient_get_media_support_info,
  DisplayServiceClient_get_media_stream_server_status,
  DisplayServiceClient_stop_media_stream,
  DisplayServiceClient_start_video_output,
  DisplayServiceClient_start_media_stream}

indigoCalls == {
  IndigoHidClient_send_event, IndigoHidClient_send_button,
  IndigoHidClient_send_keyboard, IndigoHidClient_send_digitizer,
  IndigoHidClient_send_scroll, IndigoHidClient_send_vendor_defined}

hidCalls == {
  UniversalHidServiceClient_list_connected_services,
  UniversalHidServiceClient_create_main_keyboard,
  UniversalHidServiceClient_set_main_keyboard_usages,
  UniversalHidServiceClient_main_keyboard_key_down,
  UniversalHidServiceClient_main_keyboard_key_up,
  UniversalHidServiceClient_reset_main_keyboard,
  UniversalHidServiceClient_remove_main_keyboard,
  UniversalHidServiceClient_send_report,
  UniversalHidServiceClient_send_digitizer,
  UniversalHidServiceClient_send_touchscreen,
  UniversalHidServiceClient_send_multitouch,
  UniversalHidServiceClient_multi_tap, UniversalHidServiceClient_tap,
  UniversalHidServiceClient_drag}

dtxCalls == {
  remote_server_new, remote_server_connect_rsd, remote_server_free,
  RemoteServerClient_connect}

appListingCalls == {
  application_listing_new, application_listing_free,
  application_listing_get_apps}

conditionsCalls == {
  condition_inducer_new, condition_inducer_free,
  condition_inducer_group_free, condition_inducer_groups_free,
  condition_inducer_available_conditions, condition_inducer_enable,
  condition_inducer_disable}

deviceInfoCalls == {
  device_info_new, device_info_free, device_info_running_process_free,
  device_info_running_processes_free, device_info_running_processes,
  device_info_execname_for_pid, device_info_is_running_pid,
  device_info_hardware_information, device_info_network_information,
  device_info_mach_kernel_name, device_info_string_array_free,
  device_info_sysmon_process_attributes,
  device_info_sysmon_system_attributes, device_info_directory_listing,
  DeviceInfoClient_name_for_uid, DeviceInfoClient_name_for_gid}

energyCalls == {
  energy_monitor_new, energy_monitor_free, energy_monitor_start_sampling,
  energy_monitor_stop_sampling, energy_monitor_sample_attributes,
  energy_monitor_samples_free}

graphicsCalls == {
  graphics_sample_free, graphics_new, graphics_free,
  graphics_start_sampling, graphics_stop_sampling, graphics_next_sample}

simulatedPlaceCalls == {
  location_simulation_new, location_simulation_free,
  location_simulation_clear, location_simulation_set}

networkCalls == {
  network_monitor_event_free, network_monitor_new, network_monitor_free,
  network_monitor_start, network_monitor_stop, network_monitor_next_event}

appEventsCalls == {
  notifications_info_free, notifications_new, notifications_free,
  notifications_start, notifications_stop, notifications_get_next}

processesCalls == {
  process_control_new, process_control_free, process_control_launch_app,
  process_control_kill_app, process_control_disable_memory_limit}

screenshotsCalls == {
  screenshot_client_new, screenshot_client_free,
  screenshot_client_take_screenshot}

sysmonCalls == {
  sysmontap_new, sysmontap_free, sysmontap_set_config, sysmontap_start,
  sysmontap_stop, sysmontap_next_sample}

xctestCalls == {
  TestConfig_from_installation_proxy, XCUITestService_run}

wdaCalls == {
  wda_client_new, wda_client_free, wda_client_set_ports,
  wda_client_set_timeout_ms, wda_client_get_ports, wda_client_session_id,
  wda_client_status, wda_client_wait_until_ready, wda_client_start_session,
  wda_client_delete_session, wda_client_find_element,
  wda_client_find_elements, wda_client_string_array_free,
  wda_client_element_attribute, wda_client_element_text,
  wda_client_element_rect, wda_client_element_displayed,
  wda_client_element_enabled, wda_client_element_selected, wda_client_click,
  wda_client_send_keys, wda_client_press_button, wda_client_unlock,
  wda_client_swipe, wda_client_tap, wda_client_double_tap,
  wda_client_touch_and_hold, wda_client_scroll, wda_client_source,
  wda_client_screenshot, wda_client_window_size, wda_client_viewport_rect,
  wda_client_orientation, wda_client_launch_app, wda_client_activate_app,
  wda_client_terminate_app, wda_client_query_app_state,
  wda_client_background_app, wda_client_is_locked}

wdaBridgeCalls == {
  wda_bridge_start, wda_bridge_start_with_ports, wda_bridge_endpoints,
  wda_bridge_endpoints_free, wda_bridge_free,
  XCUITestService_run_until_wda_ready_with_bridge, WdaRunHandle_wait}

restoreCalls == {
  idevice_restored_connect, idevice_restored_connect_by_ecid,
  idevice_restored_get_ecid, idevice_restored_get_device_id,
  idevice_restored_free, idevice_restore_cancel_handle_new,
  idevice_restore_cancel_handle_free, idevice_restore_options_new,
  idevice_restore_run, idevice_ipsw_open, idevice_ipsw_build_manifest,
  idevice_ipsw_read_component, idevice_ipsw_read_file,
  idevice_ipsw_extract_to_file, idevice_ipsw_free,
  idevice_restore_select_build_identity, idevice_restore_component_path,
  idevice_restore_fetch_ap_ticket, idevice_img4_stitch_component,
  idevice_restore_boot_component_names,
  idevice_restore_build_preboard_manifest}

fdrCalls == {
  FdrClient_sync_handshake, FdrClient_run_fdr_listener,
  idevice_restore_fdr_start}

restorePortCalls == {
  idevice_restore_connect_usb_port}

MCMethods == [
  device |-> deviceCalls,
  provider |-> providerCalls,
  lockdown |-> lockdownCalls,
  rsd |-> rsdCalls,
  tunnel |-> tunnelCalls,
  usbmuxd |-> usbmuxdCalls,
  pairing |-> pairingCalls,
  stream |-> streamCalls,
  afc |-> afcCalls,
  misagent |-> misagentCalls,
  backup |-> backupCalls,
  amfi |-> amfiCalls,
  diagnostics |-> diagnosticsCalls,
  companion |-> companionCalls,
  bt |-> btCalls,
  pcapd |-> pcapdCalls,
  syslog |-> syslogCalls,
  notification |-> notificationCalls,
  heartbeat |-> heartbeatCalls,
  preboard |-> preboardCalls,
  screenshot |-> screenshotCalls,
  location |-> locationCalls,
  activation |-> activationCalls,
  springboard |-> springboardCalls,
  installcoordination |-> installcoordinationCalls,
  trace |-> traceCalls,
  installation |-> installationCalls,
  debugger |-> debuggerCalls,
  images |-> imagesCalls,
  recovery |-> recoveryCalls,
  cryptexes |-> cryptexesCalls,
  apps |-> appsCalls,
  configuration |-> configurationCalls,
  sysdiagnose |-> sysdiagnoseCalls,
  icons |-> iconsCalls,
  appFiles |-> appFilesCalls,
  orientation |-> orientationCalls,
  pasteboard |-> pasteboardCalls,
  scenarios |-> scenariosCalls,
  capture |-> captureCalls,
  stdio |-> stdioCalls,
  display |-> displayCalls,
  indigo |-> indigoCalls,
  hid |-> hidCalls,
  dtx |-> dtxCalls,
  appListing |-> appListingCalls,
  conditions |-> conditionsCalls,
  deviceInfo |-> deviceInfoCalls,
  energy |-> energyCalls,
  graphics |-> graphicsCalls,
  simulatedPlace |-> simulatedPlaceCalls,
  network |-> networkCalls,
  appEvents |-> appEventsCalls,
  processes |-> processesCalls,
  screenshots |-> screenshotsCalls,
  sysmon |-> sysmonCalls,
  xctest |-> xctestCalls,
  wda |-> wdaCalls,
  wdaBridge |-> wdaBridgeCalls,
  restore |-> restoreCalls,
  fdr |-> fdrCalls,
  restorePort |-> restorePortCalls]

===============================================================================
