--------------------------- MODULE CoreDeviceCalls ----------------------------
(***************************************************************************)
(* The services reached through the CoreDevice tunnel, which speak RemoteXPC: *)
(* an answer is the next message of the channel; and the C functions over them. *)
(***************************************************************************)
EXTENDS TransportCalls

(***************************************************************************)
(* One request and its answer.  A streamed answer comes in                 *)
(* parts, on the root channel (which is not told from the channel of the   *)
(* replies                                                                 *)
(* here), and ends with an error as soon as one part is bad.               *)
(***************************************************************************)
CoreDeviceServiceClient_new == RemoteXpcClient_new \o RemoteXpcClient_do_handshake
CoreDeviceServiceClient_invoke_inner ==
  RemoteXpcClient_send_object(1) \o RemoteXpcClient_recv \o Judge
CoreDeviceServiceClient_invoke == CoreDeviceServiceClient_invoke_inner
CoreDeviceServiceClient_invoke_with_plist == CoreDeviceServiceClient_invoke_inner
CoreDeviceServiceClient_invoke_with_plist_action ==
  CoreDeviceServiceClient_invoke_inner
CoreDeviceServiceClient_invoke_action_with_plist ==
  CoreDeviceServiceClient_invoke_inner
CoreDeviceServiceClient_invoke_streaming_with_plist == SendMany \o Drain(Judge)

RestoreServiceClient_new == RemoteXpcClient_new \o RemoteXpcClient_do_handshake
RestoreServiceClient_enter_recovery ==
  RemoteXpcClient_send_object(1) \o RemoteXpcClient_recv \o Judge
RestoreServiceClient_reboot == RestoreServiceClient_enter_recovery
RestoreServiceClient_get_preflightinfo == RestoreServiceClient_enter_recovery
RestoreServiceClient_get_nonces == RestoreServiceClient_enter_recovery
RestoreServiceClient_get_app_parameters == RestoreServiceClient_enter_recovery
RestoreServiceClient_restore_lang == RestoreServiceClient_enter_recovery

(***************************************************************************)
(* restore_service.rs                                                      *)
(***************************************************************************)
restore_service_new ==
  NotNull({"socket", "client"}) \o Take("socket") \o Live
    \o Fresh(RestoreServiceClient_new) \o Give("client")
restore_service_connect_rsd ==
  ConnectsRsd("provider", "handshake", "client", RestoreServiceClient_new)
restore_service_enter_recovery ==
  NotNull({"client"}) \o RestoreServiceClient_enter_recovery
restore_service_reboot == NotNull({"client"}) \o RestoreServiceClient_reboot
restore_service_get_preflightinfo ==
  NotNull({"client", "res"}) \o RestoreServiceClient_get_preflightinfo
    \o Put("res")
restore_service_get_nonces ==
  NotNull({"client", "res"}) \o RestoreServiceClient_get_nonces \o Put("res")
restore_service_get_app_parameters ==
  NotNull({"client", "res"}) \o RestoreServiceClient_get_app_parameters
    \o Put("res")
restore_service_restore_lang ==
  NotNull({"client", "language"}) \o Text \o RestoreServiceClient_restore_lang
restore_service_client_free == Frees("handle")

(***************************************************************************)
(* Cryptexes.  A client makes one call: the call moves it, and the         *)
(* connection is                                                           *)
(* dropped with it.  Installing the developer disk image makes its         *)
(* connections                                                             *)
(* itself and asks Apple for a ticket on the way.                          *)
(***************************************************************************)
CryptexdClient_new == RemoteXpcClient_new \o RemoteXpcClient_do_handshake
CryptexdClient_invoke ==
  RemoteXpcClient_send_object(1) \o RemoteXpcClient_recv \o Judge
CryptexdClient_read_personalization_identifiers == CryptexdClient_invoke \o Judge
CryptexdClient_copy_installed == CryptexdClient_invoke
CryptexdClient_get_nonce == CryptexdClient_invoke \o Judge
CryptexdClient_unwrap_nonce == Judge
CryptexdClient_cryptex_nonce ==
  CryptexdClient_get_nonce \o CryptexdClient_unwrap_nonce
CryptexdClient_roll_nonce == CryptexdClient_invoke
CryptexdClient_uninstall == CryptexdClient_invoke
CryptexdClient_install ==
  RemoteXpcClient_send_object(1) \o Loop(RemoteXpcClient_send_file_transfer)
    \o RemoteXpcClient_recv \o Judge
Cryptex1Assets_load == Loop(Await) \o Judge
Cryptex1Assets_nonce_domain == Judge
CryptexdClient_installed_ddi ==
  RsdHandshake_connect(CryptexdClient_new) \o CryptexdClient_copy_installed
CryptexdClient_install_ddi ==
  RsdHandshake_connect(CryptexdClient_new)
    \o CryptexdClient_read_personalization_identifiers
    \o RsdHandshake_connect(CryptexdClient_new)
    \o Cryptex1Assets_nonce_domain \o CryptexdClient_cryptex_nonce
    \o Judge \o Await \o Judge
    \o RsdHandshake_connect(CryptexdClient_new) \o CryptexdClient_install
    \o CryptexdClient_installed_ddi \o Judge

(***************************************************************************)
(* cryptexd.rs                                                             *)
(***************************************************************************)
cryptexd_connect_rsd ==
  ConnectsRsd("provider", "handshake", "handle", CryptexdClient_new)
cryptexd_new ==
  NotNull({"socket", "handle"}) \o Take("socket") \o Fresh(CryptexdClient_new)
    \o Give("handle")
cryptexd_read_personalization_identifiers ==
  NotNull({"handle", "identifiers"}) \o Take("handle")
    \o Fresh(CryptexdClient_read_personalization_identifiers) \o Invalidate
    \o Put("identifiers")
cryptexd_copy_installed ==
  NotNull({"handle", "cryptexes", "len"}) \o Take("handle")
    \o Fresh(CryptexdClient_copy_installed) \o Invalidate \o Judge
    \o Put("cryptexes")
cryptexd_free_installed == Frees("cryptexes")
cryptexd_free_installed_cryptex == Frees("cryptex")
cryptexd_get_nonce ==
  NotNull({"handle", "nonce", "nonce_len"}) \o Take("handle")
    \o Fresh(CryptexdClient_get_nonce) \o Invalidate \o Put("nonce")
cryptexd_cryptex_nonce ==
  NotNull({"handle", "nonce", "nonce_len"}) \o Take("handle")
    \o Fresh(CryptexdClient_cryptex_nonce) \o Invalidate \o Put("nonce")
cryptexd_roll_nonce ==
  NotNull({"handle"}) \o Take("handle") \o Fresh(CryptexdClient_roll_nonce)
    \o Invalidate
cryptexd_uninstall ==
  NotNull({"handle", "identifier"}) \o Text \o Opt("version", Text)
    \o Take("handle") \o Fresh(CryptexdClient_uninstall) \o Invalidate
cryptexd_install ==
  NotNull({"handle", "request"}) \o Valid \o Take("handle")
    \o Fresh(CryptexdClient_install) \o Invalidate
cryptexd_unwrap_nonce ==
  NotNull({"blob", "nonce", "nonce_len"}) \o CryptexdClient_unwrap_nonce
    \o Put("nonce")
cryptex1_assets_load ==
  NotNull({"restore_dir", "handle"}) \o Text \o Cryptex1Assets_load
    \o Give("handle")
cryptex1_assets_from_parts ==
  NotNull({"image", "trustcache", "info", "volumehash", "build_identity", "handle"})
    \o Valid \o Give("handle")
cryptex1_assets_nonce_domain ==
  NotNull({"handle", "nonce_domain"}) \o Cryptex1Assets_nonce_domain
cryptex1_assets_free == Frees("handle")
cryptexd_install_ddi ==
  NotNull({"provider", "handshake", "assets"})
    \o Fresh(CryptexdClient_install_ddi) \o Invalidate
    \o Opt("installed", Judge \o Put("installed"))
cryptexd_installed_ddi ==
  NotNull({"provider", "handshake", "installed"})
    \o Fresh(CryptexdClient_installed_ddi) \o Invalidate \o Maybe(Judge
    \o Put("installed"))
cryptexd_free == Frees("handle")

(***************************************************************************)
(* Applications, settings, diagnostics and icons.                          *)
(***************************************************************************)
AppServiceClient_new == CoreDeviceServiceClient_new
AppServiceClient_list_apps == CoreDeviceServiceClient_invoke_with_plist_action \o Judge
AppServiceClient_stream_apps == CoreDeviceServiceClient_invoke_streaming_with_plist
AppServiceClient_launch_application == CoreDeviceServiceClient_invoke_with_plist \o Judge
AppServiceClient_list_processes == CoreDeviceServiceClient_invoke \o Judge
AppServiceClient_uninstall_app == CoreDeviceServiceClient_invoke_with_plist
AppServiceClient_send_signal == CoreDeviceServiceClient_invoke_with_plist \o Judge

ConfigurationServiceClient_new == CoreDeviceServiceClient_new
ConfigurationServiceClient_invoke == CoreDeviceServiceClient_invoke
ConfigurationServiceClient_invoke_with == CoreDeviceServiceClient_invoke_with_plist
ConfigurationServiceClient_get_enabled == ConfigurationServiceClient_invoke \o Judge
ConfigurationServiceClient_set_enabled == ConfigurationServiceClient_invoke_with
ConfigurationServiceClient_get_user_interface_style ==
  ConfigurationServiceClient_invoke \o Judge
ConfigurationServiceClient_set_user_interface_style ==
  ConfigurationServiceClient_invoke_with
\* Out of range, or a strength without a filter: refused before it is sent.
ConfigurationServiceClient_set_liquid_glass_opacity ==
  Judge \o ConfigurationServiceClient_invoke_with
ConfigurationServiceClient_get_color_filter ==
  ConfigurationServiceClient_invoke \o Judge
ConfigurationServiceClient_set_color_filter ==
  Judge \o ConfigurationServiceClient_invoke_with
ConfigurationServiceClient_get_device_text_size ==
  ConfigurationServiceClient_invoke \o Judge
ConfigurationServiceClient_set_device_text_size ==
  ConfigurationServiceClient_invoke_with
ConfigurationServiceClient_get_reduce_motion == ConfigurationServiceClient_get_enabled
ConfigurationServiceClient_set_reduce_motion == ConfigurationServiceClient_set_enabled
ConfigurationServiceClient_set_increase_contrast == ConfigurationServiceClient_set_enabled
ConfigurationServiceClient_get_show_borders == ConfigurationServiceClient_get_enabled
ConfigurationServiceClient_set_show_borders == ConfigurationServiceClient_set_enabled
ConfigurationServiceClient_get_reduce_transparency ==
  ConfigurationServiceClient_get_enabled
ConfigurationServiceClient_set_reduce_transparency ==
  ConfigurationServiceClient_set_enabled

DiagnostisServiceClient_from_stream == CoreDeviceServiceClient_new
\* The archive is a file of its own channel; its stream borrows the client.
DiagnostisServiceClient_capture_sysdiagnose ==
  CoreDeviceServiceClient_invoke_with_plist \o Judge

IconServiceClient_new == CoreDeviceServiceClient_new
IconServiceClient_fetch_icon == CoreDeviceServiceClient_invoke_with_plist \o Judge

(***************************************************************************)
(* A slip in one of the functions below: the response is handed over       *)
(* before all of                                                           *)
(* it has been converted.                                                  *)
(***************************************************************************)
LaunchGivesFirst ==
  NotNull({"handle", "bundle_id", "response"}) \o Text
    \o AppServiceClient_launch_application \o Put("response") \o Judge

(***************************************************************************)
(* app_service.rs, configuration_service.rs, diagnosticsservice.rs,        *)
(* icon_service.rs                                                         *)
(***************************************************************************)
app_service_connect_rsd ==
  ConnectsRsd("provider", "handshake", "handle", AppServiceClient_new)
app_service_new ==
  NotNull({"socket", "handle"}) \o Take("socket")
    \o Fresh(AppServiceClient_new) \o Give("handle")
app_service_free == Frees("handle")
app_service_list_apps ==
  NotNull({"handle", "apps", "count"}) \o AppServiceClient_list_apps \o Judge
    \o Put("apps")
app_service_free_app_list == Frees("apps")
app_service_launch_app ==
  NotNull({"handle", "bundle_id", "response"}) \o Text
    \o AppServiceClient_launch_application \o Judge \o Put("response")
app_service_free_launch_response == Frees("response")
app_service_list_processes ==
  NotNull({"handle", "processes", "count"}) \o AppServiceClient_list_processes
    \o Judge \o Put("processes")
app_service_free_process_list == Frees("processes")
app_service_uninstall_app ==
  NotNull({"handle", "bundle_id"}) \o Text \o AppServiceClient_uninstall_app
app_service_send_signal ==
  NotNull({"handle", "response"}) \o AppServiceClient_send_signal \o Judge
    \o Put("response")
app_service_free_signal_response == Frees("response")

configuration_service_connect_rsd ==
  ConnectsRsd("provider", "handshake", "handle", ConfigurationServiceClient_new)
configuration_service_new ==
  NotNull({"socket", "handle"}) \o Take("socket")
    \o Fresh(ConfigurationServiceClient_new) \o Give("handle")
configuration_service_get_user_interface_style ==
  NotNull({"handle", "style"})
    \o ConfigurationServiceClient_get_user_interface_style
configuration_service_set_user_interface_style ==
  NotNull({"handle"}) \o ConfigurationServiceClient_set_user_interface_style
configuration_service_set_liquid_glass_opacity ==
  NotNull({"handle"}) \o ConfigurationServiceClient_set_liquid_glass_opacity
configuration_service_get_color_filter ==
  NotNull({"handle", "filter"}) \o ConfigurationServiceClient_get_color_filter
configuration_service_set_color_filter ==
  NotNull({"handle"}) \o Opt("filter_type", Text)
    \o ConfigurationServiceClient_set_color_filter
configuration_service_get_device_text_size ==
  NotNull({"handle", "size"})
    \o ConfigurationServiceClient_get_device_text_size \o Judge \o Put("size")
configuration_service_set_device_text_size ==
  NotNull({"handle", "size"}) \o Text
    \o ConfigurationServiceClient_set_device_text_size
configuration_service_get_reduce_motion ==
  NotNull({"handle", "enabled"})
    \o ConfigurationServiceClient_get_reduce_motion
configuration_service_set_reduce_motion ==
  NotNull({"handle"}) \o ConfigurationServiceClient_set_reduce_motion
configuration_service_get_reduce_transparency ==
  NotNull({"handle", "enabled"})
    \o ConfigurationServiceClient_get_reduce_transparency
configuration_service_set_reduce_transparency ==
  NotNull({"handle"}) \o ConfigurationServiceClient_set_reduce_transparency
configuration_service_get_show_borders ==
  NotNull({"handle", "enabled"})
    \o ConfigurationServiceClient_get_show_borders
configuration_service_set_show_borders ==
  NotNull({"handle"}) \o ConfigurationServiceClient_set_show_borders
configuration_service_set_increase_contrast ==
  NotNull({"handle"}) \o ConfigurationServiceClient_set_increase_contrast
configuration_service_free == Frees("handle")

diagnostics_service_connect_rsd ==
  ConnectsRsd("provider", "handshake", "handle", DiagnostisServiceClient_from_stream)
diagnostics_service_new ==
  NotNull({"socket", "handle"}) \o Take("socket")
    \o Fresh(DiagnostisServiceClient_from_stream) \o Give("handle")
diagnostics_service_capture_sysdiagnose ==
  NotNull({"handle", "preferred_filename", "expected_length", "stream_handle"})
    \o DiagnostisServiceClient_capture_sysdiagnose
    \o Put("preferred_filename") \o Put("stream_handle")
sysdiagnose_stream_next ==
  NotNull({"handle", "data", "len"}) \o RemoteXpcClient_iter_file_chunks
    \o Maybe(Put("data"))
diagnostics_service_free == Frees("handle")
sysdiagnose_stream_free == Frees("handle")

icon_service_connect_rsd ==
  ConnectsRsd("provider", "handshake", "handle", IconServiceClient_new)
icon_service_new ==
  NotNull({"socket", "handle"}) \o Take("socket")
    \o Fresh(IconServiceClient_new) \o Give("handle")
icon_service_fetch_icon ==
  NotNull({"handle", "icon"}) \o Valid \o Opt("bundle_identifier", Text)
    \o Opt("app_path", Text) \o IconServiceClient_fetch_icon \o Put("icon")
icon_service_free_icon == Frees("icon")
icon_service_free == Frees("handle")

(***************************************************************************)
(* Files of an application.  An exchange that fails or runs out of time    *)
(* leaves the                                                              *)
(* client without a connection, unless the failure is what the device      *)
(* answered.                                                               *)
(***************************************************************************)
FileServiceClient_invalidate_connection == Invalidate
FileServiceClient_new_with_timeout ==
  Within(RemoteXpcClient_new \o RemoteXpcClient_do_handshake, Fail)
FileServiceClient_new == FileServiceClient_new_with_timeout
FileServiceClient_send_receive ==
  Judge \o RemoteXpcClient_send_object(1) \o RemoteXpcClient_recv_any \o Judge
\* The last alternative is the error of the device.
FileServiceClient_finish_operation(operation) ==
  Within(operation, FileServiceClient_invalidate_connection \o Fail) \o Maybe(Fail)
FileServiceClient_session == Judge
FileServiceClient_create_session_inner == FileServiceClient_send_receive \o Judge
FileServiceClient_create_session ==
  FileServiceClient_finish_operation(FileServiceClient_create_session_inner)
FileServiceClient_retrieve_directory_list_inner ==
  FileServiceClient_send_receive \o Judge
FileServiceClient_retrieve_directory_list ==
  FileServiceClient_session
    \o FileServiceClient_finish_operation(FileServiceClient_retrieve_directory_list_inner)
FileServiceClient_retrieve_file_inner ==
  FileServiceClient_send_receive \o Judge \o Await \o Judge
FileServiceClient_retrieve_file ==
  FileServiceClient_session
    \o Within(FileServiceClient_retrieve_file_inner,
              FileServiceClient_invalidate_connection \o Fail)
FileServiceClient_propose_empty_file ==
  FileServiceClient_session \o FileServiceClient_send_receive
FileServiceClient_session_id == Either(<<>>, Fail)

(***************************************************************************)
(* file_service.rs                                                         *)
(***************************************************************************)
file_service_connect_rsd ==
  NotNull({"provider", "handshake", "handle"})
    \o Within(RsdHandshake_connect(FileServiceClient_new), Invalidate \o Fail)
    \o Give("handle")
file_service_new ==
  NotNull({"socket", "handle"}) \o Take("socket") \o Live
    \o Fresh(FileServiceClient_new) \o Give("handle")
file_service_create_session ==
  NotNull({"handle"}) \o Opt("identifier", Text)
    \o FileServiceClient_create_session \o Opt("session_id", Judge
    \o Put("session_id"))
file_service_session_id ==
  NotNull({"handle", "session_id"}) \o Maybe(Judge \o Put("session_id"))
file_service_retrieve_directory_list ==
  NotNull({"handle", "path", "entries", "len"}) \o Text
    \o FileServiceClient_retrieve_directory_list \o Put("entries")
file_service_free_directory_list == Frees("entries")
file_service_retrieve_file ==
  NotNull({"handle", "path", "adapter", "data", "len"}) \o Text
    \o FileServiceClient_retrieve_file \o Put("data")
file_service_retrieve_file_with_stream ==
  NotNull({"handle", "path", "data_stream", "data", "len"}) \o Text
    \o Take("data_stream") \o Valid \o FileServiceClient_retrieve_file
    \o Put("data")
file_service_propose_empty_file ==
  NotNull({"handle", "path"}) \o Text \o FileServiceClient_propose_empty_file
file_service_domain_from_name == Opt("name", <<>>)
file_service_free == Frees("handle")

(***************************************************************************)
(* The services without a C function: screen, input, pasteboard, location. *)
(***************************************************************************)
OrientationServiceClient_rotate ==
  RemoteXpcClient_send_object(1) \o RemoteXpcClient_recv \o Judge
PasteboardServiceClient_get_with_policy == OrientationServiceClient_rotate
PasteboardServiceClient_get == PasteboardServiceClient_get_with_policy
PasteboardServiceClient_set_text ==
  RemoteXpcClient_send_object(1) \o RemoteXpcClient_recv
PasteboardServiceClient_set_image == PasteboardServiceClient_set_text
PasteboardServiceClient_resolve_raw == PasteboardServiceClient_set_text
PasteboardServiceClient_resolve == PasteboardServiceClient_resolve_raw \o Judge
PasteboardServiceClient_set_change_notifications == RemoteXpcClient_send_object(0)
\* A push is not on the channel of the replies.
PasteboardServiceClient_recv_push == Await \o Judge
LocationServiceClient_available_location_scenarios ==
  CoreDeviceServiceClient_invoke \o Judge
ScreenCaptureServiceClient_take_screenshot ==
  CoreDeviceServiceClient_invoke_with_plist \o Judge
OpenStdioSocketClient_read_uuid == Hear

DisplayServiceClient_get_media_support_info == CoreDeviceServiceClient_invoke
DisplayServiceClient_get_media_stream_server_status == CoreDeviceServiceClient_invoke
DisplayServiceClient_stop_media_stream == CoreDeviceServiceClient_invoke
DisplayServiceClient_start_video_output == CoreDeviceServiceClient_invoke
DisplayServiceClient_start_media_stream == CoreDeviceServiceClient_invoke

IndigoHidClient_send_event == RemoteXpcClient_send_object(0)
IndigoHidClient_send_button == IndigoHidClient_send_event
IndigoHidClient_send_keyboard == IndigoHidClient_send_event
IndigoHidClient_send_digitizer == IndigoHidClient_send_event
IndigoHidClient_send_scroll == IndigoHidClient_send_event
IndigoHidClient_send_vendor_defined == IndigoHidClient_send_event

UniversalHidServiceClient_request ==
  RemoteXpcClient_send_object(1) \o RemoteXpcClient_recv
UniversalHidServiceClient_send == RemoteXpcClient_send_object(0)
UniversalHidServiceClient_connected_services_response ==
  UniversalHidServiceClient_request
UniversalHidServiceClient_list_hid_surfaces_on_wire ==
  UniversalHidServiceClient_connected_services_response \o Judge
UniversalHidServiceClient_confirm_main_keyboard_on_wire ==
  UniversalHidServiceClient_connected_services_response \o Judge
\* A keyboard whose identity is not confirmed is removed again.
UniversalHidServiceClient_create_main_keyboard_on_wire ==
  UniversalHidServiceClient_request \o Judge
    \o TryElse(UniversalHidServiceClient_confirm_main_keyboard_on_wire,
               Try(UniversalHidServiceClient_send) \o Fail)
UniversalHidServiceClient_replace_main_keyboard_usages_on_wire ==
  Judge \o UniversalHidServiceClient_send
UniversalHidServiceClient_reset_main_keyboard_on_wire ==
  Maybe(UniversalHidServiceClient_send)
UniversalHidServiceClient_remove_main_keyboard_on_wire ==
  Maybe(Try(UniversalHidServiceClient_send) \o UniversalHidServiceClient_send
          \o UniversalHidServiceClient_list_hid_surfaces_on_wire \o Judge)
UniversalHidServiceClient_list_connected_services ==
  UniversalHidServiceClient_connected_services_response \o Judge
UniversalHidServiceClient_create_main_keyboard ==
  UniversalHidServiceClient_create_main_keyboard_on_wire
UniversalHidServiceClient_set_main_keyboard_usages ==
  UniversalHidServiceClient_replace_main_keyboard_usages_on_wire
UniversalHidServiceClient_main_keyboard_key_down ==
  UniversalHidServiceClient_replace_main_keyboard_usages_on_wire
UniversalHidServiceClient_main_keyboard_key_up ==
  UniversalHidServiceClient_replace_main_keyboard_usages_on_wire
UniversalHidServiceClient_reset_main_keyboard ==
  UniversalHidServiceClient_reset_main_keyboard_on_wire
UniversalHidServiceClient_remove_main_keyboard ==
  UniversalHidServiceClient_remove_main_keyboard_on_wire
UniversalHidServiceClient_send_report == UniversalHidServiceClient_send
UniversalHidServiceClient_send_digitizer == UniversalHidServiceClient_send_report
UniversalHidServiceClient_send_touchscreen == UniversalHidServiceClient_send_report
UniversalHidServiceClient_send_multitouch ==
  Judge \o UniversalHidServiceClient_send_report
UniversalHidServiceClient_multi_tap ==
  UniversalHidServiceClient_send_multitouch \o UniversalHidServiceClient_send_multitouch
UniversalHidServiceClient_tap ==
  UniversalHidServiceClient_send_touchscreen \o UniversalHidServiceClient_send_touchscreen
UniversalHidServiceClient_drag ==
  UniversalHidServiceClient_send_touchscreen
    \o Loop(UniversalHidServiceClient_send_touchscreen)
    \o UniversalHidServiceClient_send_touchscreen
    \o UniversalHidServiceClient_send_touchscreen

===============================================================================
