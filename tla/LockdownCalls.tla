---------------------------- MODULE LockdownCalls -----------------------------
(***************************************************************************)
(* The services reached through lockdown that tell, ask and listen on one  *)
(* connection; and the C functions over them.                              *)
(***************************************************************************)
EXTENDS TransportCalls

(***************************************************************************)
(* Developer mode, diagnostics and the companion devices: every request    *)
(* has one                                                                 *)
(* answer, which is tested.                                                *)
(***************************************************************************)
AmfiClient_reveal_developer_mode_option_in_ui == Checked
AmfiClient_enable_developer_mode == Checked
AmfiClient_accept_developer_mode == Checked
AmfiClient_get_developer_mode_status == Checked
AmfiClient_trust_app_signer == Checked

DiagnosticsRelayClient_ioregistry == Checked
DiagnosticsRelayClient_mobilegestalt == Checked
DiagnosticsRelayClient_gasguage == Checked
DiagnosticsRelayClient_nand == Checked
DiagnosticsRelayClient_all == Checked
DiagnosticsRelayClient_restart == Checked
DiagnosticsRelayClient_shutdown == Checked
DiagnosticsRelayClient_sleep == Checked
DiagnosticsRelayClient_wifi == Checked
DiagnosticsRelayClient_goodbye == Checked

CompanionProxy_get_device_registry == Checked
CompanionProxy_get_value == Checked
CompanionProxy_start_forwarding_service_port == Checked
CompanionProxy_stop_forwarding_service_port == Checked
\* The client is moved: its connection becomes a stream of events.
CompanionProxy_listen_for_devices == Fresh(Tell)
CompanionProxyStream_next == Hear

(***************************************************************************)
(* A slip in a function below: the handle is taken before the pointers are *)
(* tested.                                                                 *)
(***************************************************************************)
AmfiNewTakesFirst == Take("socket") \o NotNull({"socket", "client"}) \o Give("client")

(***************************************************************************)
(* amfi.rs, diagnostics_relay.rs, companion_proxy.rs                       *)
(***************************************************************************)
amfi_connect == Connects("provider", "client")
amfi_connect_rsd ==
  ConnectsRsd("provider", "handshake", "client", Idevice_rsd_checkin)
amfi_new == Wraps("socket", "client")
amfi_reveal_developer_mode_option_in_ui ==
  NotNull({"client"}) \o AmfiClient_reveal_developer_mode_option_in_ui
amfi_enable_developer_mode ==
  NotNull({"client"}) \o AmfiClient_enable_developer_mode
amfi_accept_developer_mode ==
  NotNull({"client"}) \o AmfiClient_accept_developer_mode
amfi_client_free == Frees("handle")

diagnostics_relay_client_connect == Connects("provider", "client")
diagnostics_relay_client_connect_rsd ==
  ConnectsRsd("provider", "handshake", "client", Idevice_rsd_checkin)
diagnostics_relay_client_new == Wraps("socket", "client")
diagnostics_relay_client_ioregistry ==
  NotNull({"client"}) \o Opt("current_plane", Text) \o Opt("entry_name", Text)
    \o Opt("entry_class", Text) \o DiagnosticsRelayClient_ioregistry
    \o Maybe(Put("res"))
diagnostics_relay_client_mobilegestalt ==
  NotNull({"client"}) \o DiagnosticsRelayClient_mobilegestalt
    \o Maybe(Put("res"))
diagnostics_relay_client_gasguage ==
  NotNull({"client"}) \o DiagnosticsRelayClient_gasguage \o Maybe(Put("res"))
diagnostics_relay_client_nand ==
  NotNull({"client"}) \o DiagnosticsRelayClient_nand \o Maybe(Put("res"))
diagnostics_relay_client_all ==
  NotNull({"client"}) \o DiagnosticsRelayClient_all \o Maybe(Put("res"))
diagnostics_relay_client_restart ==
  NotNull({"client"}) \o DiagnosticsRelayClient_restart
diagnostics_relay_client_shutdown ==
  NotNull({"client"}) \o DiagnosticsRelayClient_shutdown
diagnostics_relay_client_sleep ==
  NotNull({"client"}) \o DiagnosticsRelayClient_sleep
diagnostics_relay_client_wifi ==
  NotNull({"client"}) \o DiagnosticsRelayClient_wifi \o Maybe(Put("res"))
diagnostics_relay_client_goodbye ==
  NotNull({"client"}) \o DiagnosticsRelayClient_goodbye
diagnostics_relay_client_free == Frees("handle")

companion_proxy_connect == Connects("provider", "client")
companion_proxy_connect_rsd ==
  ConnectsRsd("provider", "handshake", "client", Idevice_rsd_checkin)
companion_proxy_new == Wraps("socket", "client")
companion_proxy_get_device_registry ==
  NotNull({"client", "udids", "udids_len"})
    \o CompanionProxy_get_device_registry \o Put("udids")
companion_proxy_start_forwarding_service_port ==
  NotNull({"client", "local_port"})
    \o CompanionProxy_start_forwarding_service_port
companion_proxy_stop_forwarding_service_port ==
  NotNull({"client"}) \o CompanionProxy_stop_forwarding_service_port
companion_proxy_client_free == Frees("handle")

(***************************************************************************)
(* What the device sends unasked: Bluetooth packets, network packets, log  *)
(* lines,                                                                  *)
(* notifications and heartbeats.  A deadline cuts the wait for some of     *)
(* them.                                                                   *)
(***************************************************************************)
BtPacketLoggerClient_next_packet == Hear \o Judge \o Hear \o Judge
PcapdClient_next_packet == Hear \o Judge
SyslogRelayClient_next == Hear \o Judge

NotificationProxyClient_post_notification == Tell
NotificationProxyClient_observe_notification == Tell
NotificationProxyClient_observe_notifications ==
  Loop(NotificationProxyClient_observe_notification)
NotificationProxyClient_receive_notification == Hear \o Judge
NotificationProxyClient_receive_notification_with_timeout ==
  Cut(NotificationProxyClient_receive_notification, Fail)
NotificationProxyClient_shutdown == Send(1) \o Try(Recv)

RemoteNotificationProxyClient_new ==
  RemoteXpcClient_new \o RemoteXpcClient_do_handshake
RemoteNotificationProxyClient_post_notification == RemoteXpcClient_send_object(0)
RemoteNotificationProxyClient_observe_notification ==
  RemoteXpcClient_send_object(0)
RemoteNotificationProxyClient_observe_notifications ==
  Loop(RemoteNotificationProxyClient_observe_notification)
RemoteNotificationProxyClient_receive_notification == Hear \o Judge

HeartbeatClient_get_marco == Cut(Hear, Fail) \o Judge
HeartbeatClient_send_polo == Tell

(***************************************************************************)
(* bt_packet_logger.rs, pcapd.rs, syslog_relay.rs, notification_proxy.rs,  *)
(* heartbeat.rs                                                            *)
(***************************************************************************)
bt_packet_logger_connect == Connects("provider", "client")
bt_packet_logger_connect_rsd ==
  ConnectsRsd("provider", "handshake", "client", Idevice_rsd_checkin)
bt_packet_logger_new == Wraps("socket", "client")
bt_packet_logger_next_packet ==
  NotNull({"client", "packet"}) \o BtPacketLoggerClient_next_packet
    \o Maybe(Put("packet"))
bt_packet_free == Frees("handle")
bt_packet_logger_client_free == Frees("handle")

pcapd_connect == Connects("provider", "client")
pcapd_connect_rsd ==
  ConnectsRsd("provider", "handshake", "client", Idevice_rsd_checkin)
pcapd_new == Wraps("socket", "client")
pcapd_next_packet ==
  NotNull({"client", "packet"}) \o PcapdClient_next_packet \o Put("packet")
pcapd_device_packet_free == Frees("handle")
pcapd_client_free == Frees("handle")

syslog_relay_connect_tcp ==
  NotNull({"provider"})
    \o TryElse(IdeviceService_connect(<<>>), Free("provider") \o Fail)
    \o Give("client")
syslog_relay_connect_rsd ==
  ConnectsRsd("provider", "handshake", "client", Idevice_rsd_checkin)
syslog_relay_client_free == Frees("handle")
syslog_relay_next ==
  NotNull({"client", "log_message"}) \o SyslogRelayClient_next \o Judge
    \o Put("log_message")

notification_proxy_connect == Connects("provider", "client")
notification_proxy_connect_rsd ==
  ConnectsRsd("provider", "handshake", "client", Idevice_rsd_checkin)
notification_proxy_new == Wraps("socket", "client")
notification_proxy_post ==
  NotNull({"client", "name"}) \o Text
    \o NotificationProxyClient_post_notification
notification_proxy_observe ==
  NotNull({"client", "name"}) \o Text
    \o NotificationProxyClient_observe_notification
notification_proxy_observe_multiple ==
  NotNull({"client", "names"}) \o Loop(Text)
    \o NotificationProxyClient_observe_notifications
notification_proxy_receive ==
  NotNull({"client", "name_out"})
    \o NotificationProxyClient_receive_notification \o Judge
    \o Put("name_out")
notification_proxy_receive_with_timeout ==
  NotNull({"client", "name_out"})
    \o NotificationProxyClient_receive_notification_with_timeout \o Judge
    \o Put("name_out")
notification_proxy_free_string == Frees("s")
notification_proxy_client_free == Frees("handle")
remote_notification_proxy_connect_rsd ==
  ConnectsRsd("provider", "handshake", "client", RemoteNotificationProxyClient_new)
remote_notification_proxy_new ==
  NotNull({"socket", "client"}) \o Take("socket")
    \o Fresh(RemoteNotificationProxyClient_new) \o Give("client")
remote_notification_proxy_post ==
  NotNull({"client", "name"}) \o Text
    \o RemoteNotificationProxyClient_post_notification
remote_notification_proxy_observe ==
  NotNull({"client", "name"}) \o Text
    \o RemoteNotificationProxyClient_observe_notification
remote_notification_proxy_observe_multiple ==
  NotNull({"client", "names"}) \o Loop(Valid \o Text)
    \o RemoteNotificationProxyClient_observe_notifications
remote_notification_proxy_receive ==
  NotNull({"client", "name_out"})
    \o RemoteNotificationProxyClient_receive_notification \o Judge
    \o Put("name_out")
remote_notification_proxy_free == Frees("handle")

heartbeat_connect == Connects("provider", "client")
heartbeat_connect_rsd ==
  ConnectsRsd("provider", "handshake", "client", Idevice_rsd_checkin)
heartbeat_new == Wraps("socket", "client")
heartbeat_send_polo == NotNull({"client"}) \o HeartbeatClient_send_polo
heartbeat_get_marco ==
  NotNull({"client", "new_interval"}) \o HeartbeatClient_get_marco
heartbeat_client_free == Frees("handle")

(***************************************************************************)
(* Stashbags, screenshots, the simulated location, activation and the home *)
(* screen.                                                                 *)
(***************************************************************************)
\* Keeps listening for what the device does after it has answered, for a while.
PreboardServiceClient_create_stashbag ==
  Tell \o Loop(Cut(Hear, <<>>)) \o Either(Hear \o Judge, Fail)
PreboardServiceClient_commit_stashbag == Send(1) \o Cut(Recv, Fail) \o Judge

ScreenshotService_receive_dl_message == Hear \o Judge
ScreenshotService_send_dl_array(replies) == Send(replies)
ScreenshotService_dl_version_exchange ==
  ScreenshotService_receive_dl_message \o Judge
    \o ScreenshotService_send_dl_array(1)
    \o ScreenshotService_receive_dl_message \o Judge
ScreenshotService_take_screenshot ==
  ScreenshotService_send_dl_array(1)
    \o ScreenshotService_receive_dl_message \o Judge

LocationSimulationService_clear == Tell
LocationSimulationService_set == Tell

\* A connection of its own for every command; an older device answers for its
\* state through lockdown.
MobileActivationdClient_service_connect == IdeviceService_connect(<<>>)
MobileActivationdClient_send_command ==
  Fresh(MobileActivationdClient_service_connect \o Exchange) \o Invalidate
MobileActivationdClient_state ==
  TryElse(MobileActivationdClient_send_command \o Judge,
    Fresh(IdeviceProvider_connect \o IdeviceProvider_get_pairing_file
            \o LockdownClient_start_session \o LockdownClient_get_value \o Judge)
      \o Invalidate)
MobileActivationdClient_activated == MobileActivationdClient_state
MobileActivationdClient_deactivate == MobileActivationdClient_send_command
MobileActivationdClient_create_activation_info ==
  MobileActivationdClient_send_command \o Judge
MobileActivationdClient_create_session_info ==
  MobileActivationdClient_send_command \o Judge

SpringBoardServicesClient_get_icon_pngdata == Checked
SpringBoardServicesClient_get_icon_state == Checked
SpringBoardServicesClient_set_icon_state == Tell
SpringBoardServicesClient_set_icon_state_with_version == Tell
SpringBoardServicesClient_get_home_screen_wallpaper_preview_pngdata == Checked
SpringBoardServicesClient_get_lock_screen_wallpaper_preview_pngdata == Checked
SpringBoardServicesClient_get_interface_orientation == Checked
SpringBoardServicesClient_get_homescreen_icon_metrics == Exchange

InstallcoordinationProxy_from_stream ==
  RemoteXpcClient_new \o RemoteXpcClient_do_handshake
InstallcoordinationProxy_uninstall_app ==
  RemoteXpcClient_send_object(1) \o RemoteXpcClient_recv_root \o Judge
InstallcoordinationProxy_query_app_path ==
  RemoteXpcClient_send_object(1) \o RemoteXpcClient_recv_root \o Judge

(***************************************************************************)
(* preboard_service.rs, screenshotr.rs, location_simulation.rs,            *)
(* mobileactivationd.rs, springboardservices.rs,                           *)
(* installcoordination_proxy.rs                                            *)
(***************************************************************************)
preboard_service_connect == Connects("provider", "client")
preboard_service_connect_rsd ==
  ConnectsRsd("provider", "handshake", "client", Idevice_rsd_checkin)
preboard_service_new == Wraps("socket", "client")
preboard_service_create_stashbag ==
  NotNull({"client", "manifest", "out_outcome"})
    \o PreboardServiceClient_create_stashbag
preboard_service_commit_stashbag ==
  NotNull({"client", "manifest"}) \o PreboardServiceClient_commit_stashbag
preboard_service_client_free == Frees("handle")

(***************************************************************************)
(* A slip in a function below: a borrowed provider is freed when the       *)
(* connection fails.                                                       *)
(***************************************************************************)
ScreenshotrConnectFreesProvider ==
  NotNull({"provider", "client"})
    \o TryElse(IdeviceService_connect(ScreenshotService_dl_version_exchange),
         Free("provider") \o Fail)
    \o Give("client")

screenshotr_connect ==
  ConnectsTo("provider", "client", ScreenshotService_dl_version_exchange)
screenshotr_connect_rsd ==
  ConnectsRsd("provider", "handshake", "client", Idevice_rsd_checkin)
screenshotr_take_screenshot ==
  NotNull({"client", "screenshot"}) \o ScreenshotService_take_screenshot
    \o Put("screenshot")
screenshotr_screenshot_free == Free("screenshot")
screenshotr_client_free == Frees("handle")

lockdown_location_simulation_connect == Connects("provider", "handle")
lockdown_location_simulation_new == Wraps("socket", "client")
lockdown_location_simulation_set ==
  NotNull({"handle", "latitude", "longitude"})
    \o LocationSimulationService_set
lockdown_location_simulation_clear ==
  NotNull({"handle"}) \o LocationSimulationService_clear
lockdown_location_simulation_free == Frees("handle")

mobileactivationd_connect == NotNull({"provider", "client"}) \o Give("client")
mobileactivationd_get_state ==
  NotNull({"client", "state"}) \o MobileActivationdClient_state \o Judge
    \o Put("state")
mobileactivationd_is_activated ==
  NotNull({"client", "activated"}) \o MobileActivationdClient_activated
mobileactivationd_deactivate ==
  NotNull({"client"}) \o MobileActivationdClient_deactivate
mobileactivationd_client_free == Frees("handle")

springboard_services_connect ==
  NotNull({"provider", "client"})
    \o TryElse(IdeviceService_connect(<<>>), Free("provider") \o Fail)
    \o Give("client")
springboard_services_connect_rsd ==
  ConnectsRsd("provider", "handshake", "client", Idevice_rsd_checkin)
springboard_services_new ==
  NotNull({"socket"}) \o Take("socket") \o Give("client")
springboard_services_get_icon ==
  NotNull({"client", "out_result", "out_result_len"}) \o Valid
    \o SpringBoardServicesClient_get_icon_pngdata \o Put("out_result")
springboard_services_get_home_screen_wallpaper_preview ==
  NotNull({"client", "out_result", "out_result_len"})
    \o SpringBoardServicesClient_get_home_screen_wallpaper_preview_pngdata
    \o Put("out_result")
springboard_services_get_lock_screen_wallpaper_preview ==
  NotNull({"client", "out_result", "out_result_len"})
    \o SpringBoardServicesClient_get_lock_screen_wallpaper_preview_pngdata
    \o Put("out_result")
springboard_services_get_interface_orientation ==
  NotNull({"client", "out_orientation"})
    \o SpringBoardServicesClient_get_interface_orientation
springboard_services_get_homescreen_icon_metrics ==
  NotNull({"client", "res"})
    \o SpringBoardServicesClient_get_homescreen_icon_metrics \o Put("res")
springboard_services_free == Frees("handle")

installcoordination_proxy_new ==
  NotNull({"socket", "client"}) \o Take("socket") \o Live
    \o Fresh(InstallcoordinationProxy_from_stream) \o Give("client")
installcoordination_proxy_connect_rsd ==
  ConnectsRsd("provider", "handshake", "client", InstallcoordinationProxy_from_stream)
installcoordination_proxy_uninstall_app ==
  NotNull({"client", "bundle_id"}) \o Text
    \o InstallcoordinationProxy_uninstall_app
installcoordination_proxy_query_app_path ==
  NotNull({"client", "bundle_id", "path"}) \o Text
    \o InstallcoordinationProxy_query_app_path \o Judge \o Put("path")
installcoordination_proxy_client_free == Frees("handle")

===============================================================================
