------------------------------ MODULE DvtCalls --------------------------------
(***************************************************************************)
(* Instruments and XCTest, over the channels of one DTX connection (RemoteServer): *)
(* a reply is matched to its call, or queued on the channel it came on; and the C *)
(* functions over them.                                                    *)
(***************************************************************************)
EXTENDS TransportCalls

(***************************************************************************)
(* A channel has a queue of its own, so it starts with nothing owed on it. *)
(* What comes on it unasked is queued there too.                           *)
(***************************************************************************)
RemoteServerClient_read_message == Hear
RemoteServerClient_make_channel == Open
OwnedChannel_call_method(replies) == Send(replies)
OwnedChannel_read_message == Recv
OwnedChannel_call_method_with_reply == Await
RemoteServerClient_perform_handshake == Await
RemoteServerClient_wait_for_capabilities == Await
RemoteServerClient_wait_for_proxied_service_channel_code == Await
RemoteServerClient_wait_for_service_channel_code == Await
\* The first of two services that starts.
RemoteServerClient_connect ==
  Fresh(IdeviceProvider_connect \o IdeviceProvider_get_pairing_file
    \o LockdownClient_start_session
    \o TryElse(LockdownClient_start_service, LockdownClient_start_service)
    \o IdeviceProvider_connect
    \o Maybe(IdeviceProvider_get_pairing_file \o Idevice_start_session) \o Judge)

(***************************************************************************)
(* The instruments.                                                        *)
(***************************************************************************)
ApplicationListingClient_new == RemoteServerClient_make_channel
ApplicationListingClient_installed_applications ==
  OwnedChannel_call_method(1) \o OwnedChannel_read_message \o Judge

ConditionInducerClient_new == RemoteServerClient_make_channel
ConditionInducerClient_available_conditions ==
  OwnedChannel_call_method(1) \o OwnedChannel_read_message \o Judge
ConditionInducerClient_enable_condition ==
  OwnedChannel_call_method(1) \o OwnedChannel_read_message
ConditionInducerClient_disable_condition == OwnedChannel_call_method(0)

DeviceInfoClient_new == RemoteServerClient_make_channel
DeviceInfoClient_read_reply == OwnedChannel_read_message \o Judge
DeviceInfoClient_running_processes ==
  OwnedChannel_call_method(1) \o DeviceInfoClient_read_reply \o Judge
DeviceInfoClient_execname_for_pid ==
  OwnedChannel_call_method(1) \o DeviceInfoClient_read_reply \o Judge
DeviceInfoClient_is_running_pid ==
  OwnedChannel_call_method(1) \o DeviceInfoClient_read_reply \o Judge
DeviceInfoClient_hardware_information ==
  OwnedChannel_call_method(1) \o DeviceInfoClient_read_reply \o Judge
DeviceInfoClient_network_information ==
  OwnedChannel_call_method(1) \o DeviceInfoClient_read_reply \o Judge
DeviceInfoClient_mach_kernel_name ==
  OwnedChannel_call_method(1) \o DeviceInfoClient_read_reply \o Judge
DeviceInfoClient_sysmon_process_attributes ==
  OwnedChannel_call_method(1) \o DeviceInfoClient_read_reply \o Judge
DeviceInfoClient_sysmon_system_attributes ==
  OwnedChannel_call_method(1) \o DeviceInfoClient_read_reply \o Judge
DeviceInfoClient_directory_listing ==
  OwnedChannel_call_method(1) \o DeviceInfoClient_read_reply \o Judge
DeviceInfoClient_name_for_uid ==
  OwnedChannel_call_method(1) \o DeviceInfoClient_read_reply \o Judge
DeviceInfoClient_name_for_gid ==
  OwnedChannel_call_method(1) \o DeviceInfoClient_read_reply \o Judge

EnergyMonitorClient_new == RemoteServerClient_make_channel
EnergyMonitorClient_start_sampling == OwnedChannel_call_method(0)
EnergyMonitorClient_stop_sampling == OwnedChannel_call_method(0)
EnergyMonitorClient_sample_attributes ==
  OwnedChannel_call_method(1) \o OwnedChannel_read_message \o Judge
EnergySample_from_bytes == Judge

GraphicsClient_new == RemoteServerClient_make_channel
GraphicsClient_start_sampling ==
  OwnedChannel_call_method(1) \o OwnedChannel_read_message
GraphicsClient_stop_sampling == OwnedChannel_call_method(0)
\* What is not a sample is passed over, in this loop and in the next two.
GraphicsClient_sample == Loop(Hear) \o Hear

LocationSimulationClient_new == RemoteServerClient_make_channel
LocationSimulationClient_clear ==
  OwnedChannel_call_method(1) \o OwnedChannel_read_message
LocationSimulationClient_set ==
  OwnedChannel_call_method(1) \o OwnedChannel_read_message

NetworkMonitorClient_new == RemoteServerClient_make_channel
NetworkMonitorClient_start_monitoring == OwnedChannel_call_method(0)
NetworkMonitorClient_stop_monitoring == OwnedChannel_call_method(0)
NetworkMonitorClient_next_event == Loop(Hear) \o Hear

NotificationsClient_new == RemoteServerClient_make_channel
NotificationsClient_start_notifications ==
  OwnedChannel_call_method(0) \o OwnedChannel_call_method(0)
NotificationsClient_stop_notifications == NotificationsClient_start_notifications
NotificationsClient_get_notification == Hear \o Judge

ProcessControlClient_new == RemoteServerClient_make_channel
ProcessControlClient_launch_app == OwnedChannel_call_method_with_reply \o Judge
ProcessControlClient_launch_with_options ==
  OwnedChannel_call_method_with_reply \o Judge
ProcessControlClient_kill_app == OwnedChannel_call_method(0)
ProcessControlClient_disable_memory_limit ==
  OwnedChannel_call_method_with_reply \o Judge

ScreenshotClient_new == RemoteServerClient_make_channel
ScreenshotClient_take_screenshot ==
  OwnedChannel_call_method(1) \o OwnedChannel_read_message \o Judge

SysmontapClient_new == RemoteServerClient_make_channel
SysmontapClient_set_config == OwnedChannel_call_method(0)
\* The device acknowledges the start though no reply was asked for.
SysmontapClient_start == OwnedChannel_call_method(1) \o OwnedChannel_read_message
SysmontapClient_stop == OwnedChannel_call_method(0)
SysmontapClient_next_sample == Loop(Hear) \o Hear

(***************************************************************************)
(* The C functions.  Both ways to a server read the device's greeting      *)
(* before they                                                             *)
(* give it out; neither asks whether `handle` is null.                     *)
(***************************************************************************)
remote_server_new ==
  NotNull({"socket"}) \o Live \o Fresh(RemoteServerClient_read_message)
    \o Give("handle")
remote_server_connect_rsd ==
  NotNull({"provider", "handshake"})
    \o RsdHandshake_connect(RemoteServerClient_read_message) \o Give("handle")
remote_server_free == Frees("handle")

application_listing_new ==
  NotNull({"server", "handle"}) \o ApplicationListingClient_new
    \o Give("handle")
application_listing_free == Frees("handle")
application_listing_get_apps ==
  NotNull({"handle", "apps_out", "count_out"})
    \o ApplicationListingClient_installed_applications \o Put("apps_out")

condition_inducer_new ==
  NotNull({"server", "handle"}) \o ConditionInducerClient_new
    \o Give("handle")
condition_inducer_free == Frees("handle")
condition_inducer_group_free == Frees("group")
condition_inducer_groups_free == Frees("groups")
condition_inducer_available_conditions ==
  NotNull({"handle", "groups_out", "count_out"})
    \o ConditionInducerClient_available_conditions \o Put("groups_out")
condition_inducer_enable ==
  NotNull({"handle", "condition_identifier", "profile_identifier"}) \o Text
    \o Text \o ConditionInducerClient_enable_condition
condition_inducer_disable ==
  NotNull({"handle"}) \o ConditionInducerClient_disable_condition

device_info_new ==
  NotNull({"server", "handle"}) \o DeviceInfoClient_new \o Give("handle")
device_info_free == Frees("handle")
device_info_running_process_free == Frees("process")
device_info_running_processes_free == Frees("processes")
device_info_running_processes ==
  NotNull({"handle", "processes", "count"})
    \o DeviceInfoClient_running_processes \o Put("processes")
device_info_execname_for_pid ==
  NotNull({"handle", "name_out"}) \o DeviceInfoClient_execname_for_pid
    \o Judge \o Put("name_out")
device_info_is_running_pid ==
  NotNull({"handle", "result"}) \o DeviceInfoClient_is_running_pid
device_info_hardware_information ==
  NotNull({"handle", "plist_out"}) \o DeviceInfoClient_hardware_information
    \o Put("plist_out")
device_info_network_information ==
  NotNull({"handle", "plist_out"}) \o DeviceInfoClient_network_information
    \o Put("plist_out")
device_info_mach_kernel_name ==
  NotNull({"handle", "name_out"}) \o DeviceInfoClient_mach_kernel_name
    \o Judge \o Put("name_out")
device_info_string_array_free == Frees("strings")
device_info_sysmon_process_attributes ==
  NotNull({"handle", "attrs_out", "count_out"})
    \o DeviceInfoClient_sysmon_process_attributes \o Put("attrs_out")
device_info_sysmon_system_attributes ==
  NotNull({"handle", "attrs_out", "count_out"})
    \o DeviceInfoClient_sysmon_system_attributes \o Put("attrs_out")
device_info_directory_listing ==
  NotNull({"handle", "path", "entries_out", "count_out"}) \o Text
    \o DeviceInfoClient_directory_listing \o Put("entries_out")

energy_monitor_new ==
  NotNull({"server", "handle"}) \o EnergyMonitorClient_new \o Give("handle")
energy_monitor_free == Frees("handle")
energy_monitor_start_sampling ==
  NotNull({"handle"}) \o EnergyMonitorClient_start_sampling
energy_monitor_stop_sampling ==
  NotNull({"handle"}) \o EnergyMonitorClient_stop_sampling
energy_monitor_sample_attributes ==
  NotNull({"handle", "samples_out", "samples_count_out"})
    \o EnergyMonitorClient_sample_attributes \o EnergySample_from_bytes
    \o Put("samples_out")
energy_monitor_samples_free == Frees("samples")

graphics_sample_free == Frees("sample")
graphics_new ==
  NotNull({"server", "handle"}) \o GraphicsClient_new \o Give("handle")
graphics_free == Frees("handle")
graphics_start_sampling ==
  NotNull({"handle"}) \o GraphicsClient_start_sampling
graphics_stop_sampling == NotNull({"handle"}) \o GraphicsClient_stop_sampling
graphics_next_sample ==
  NotNull({"handle", "sample_out"}) \o GraphicsClient_sample
    \o Put("sample_out")

location_simulation_new ==
  NotNull({"server", "handle"}) \o LocationSimulationClient_new
    \o Give("handle")
location_simulation_free == Frees("handle")
location_simulation_clear ==
  NotNull({"handle"}) \o LocationSimulationClient_clear
location_simulation_set == NotNull({"handle"}) \o LocationSimulationClient_set

network_monitor_event_free == Frees("event")
network_monitor_new ==
  NotNull({"server", "handle"}) \o NetworkMonitorClient_new \o Give("handle")
network_monitor_free == Frees("handle")
network_monitor_start ==
  NotNull({"handle"}) \o NetworkMonitorClient_start_monitoring
network_monitor_stop ==
  NotNull({"handle"}) \o NetworkMonitorClient_stop_monitoring
network_monitor_next_event ==
  NotNull({"handle", "event_out"}) \o NetworkMonitorClient_next_event
    \o Put("event_out")

notifications_info_free == Frees("info")
notifications_new ==
  NotNull({"server", "handle"}) \o NotificationsClient_new \o Give("handle")
notifications_free == Frees("handle")
notifications_start ==
  NotNull({"handle"}) \o NotificationsClient_start_notifications
notifications_stop ==
  NotNull({"handle"}) \o NotificationsClient_stop_notifications
notifications_get_next ==
  NotNull({"handle", "info_out"}) \o NotificationsClient_get_notification
    \o Put("info_out")

process_control_new ==
  NotNull({"server", "handle"}) \o ProcessControlClient_new \o Give("handle")
process_control_free == Frees("handle")
process_control_launch_app ==
  NotNull({"handle", "bundle_id", "pid"}) \o Valid
    \o ProcessControlClient_launch_app
process_control_kill_app ==
  NotNull({"handle"}) \o ProcessControlClient_kill_app
process_control_disable_memory_limit ==
  NotNull({"handle"}) \o ProcessControlClient_disable_memory_limit

screenshot_client_new ==
  NotNull({"server", "handle"}) \o ScreenshotClient_new \o Give("handle")
screenshot_client_free == Frees("handle")
screenshot_client_take_screenshot ==
  NotNull({"handle", "data", "len"}) \o ScreenshotClient_take_screenshot
    \o Put("data")

sysmontap_new ==
  NotNull({"server", "handle"}) \o SysmontapClient_new \o Give("handle")
sysmontap_free == Frees("handle")
sysmontap_set_config ==
  NotNull({"handle", "config"}) \o Text \o Text \o SysmontapClient_set_config
sysmontap_start == NotNull({"handle"}) \o SysmontapClient_start
sysmontap_stop == NotNull({"handle"}) \o SysmontapClient_stop
sysmontap_next_sample ==
  NotNull({"handle"}) \o SysmontapClient_next_sample
    \o Opt("processes_out", Maybe(Put("processes_out")))
    \o Opt("system_out", Maybe(Put("system_out")))
    \o Opt("cpu_usage_out", Maybe(Put("cpu_usage_out")))

(***************************************************************************)
(* A test run.  It makes three DTX connections, through a CoreDevice       *)
(* tunnel from                                                             *)
(* iOS 17 on and through lockdown before, opens the channels of the test   *)
(* manager,                                                                *)
(* launches and authorizes the runner, and serves what the runner calls    *)
(* (RemoteServer has this part step by step).  Everything goes with the    *)
(* run.                                                                    *)
(* A bounded number of attempts is any number here.                        *)
(***************************************************************************)
TestConfig_from_installation_proxy == Await \o Judge
TestConfig_build_xctest_configuration == Judge
connect_dtx_service ==
  IdeviceProvider_connect \o IdeviceProvider_get_pairing_file
    \o LockdownClient_start_session
    \o Loop(Try(LockdownClient_start_service)) \o LockdownClient_start_service
    \o IdeviceProvider_connect
    \o Maybe(IdeviceProvider_get_pairing_file \o Idevice_start_session) \o Judge
    \o Maybe(Try(RemoteServerClient_wait_for_capabilities))
\* A handshake that fails is tried again on another connection.
rsd_connect ==
  Judge \o Loop(Open \o Try(RemoteServerClient_perform_handshake))
    \o Open \o RemoteServerClient_perform_handshake
connect_rsd_stack_once ==
  IdeviceService_connect(CoreDeviceProxy_new)
    \o CoreDeviceProxy_create_software_tunnel \o Open \o RsdHandshake_new
    \o TryElse(rsd_connect, connect_dtx_service) \o rsd_connect \o rsd_connect
connect_testmanagerd_rsd ==
  Loop(Try(connect_rsd_stack_once)) \o connect_rsd_stack_once
connect_testmanagerd ==
  Either(connect_testmanagerd_rsd,
         connect_dtx_service \o connect_dtx_service \o connect_dtx_service)
TestManagerProxy_open == RemoteServerClient_make_channel
init_ctrl_session == Maybe(Judge \o OwnedChannel_call_method_with_reply)
init_session == Judge \o Maybe(Judge \o OwnedChannel_call_method_with_reply)
authorize_test == OwnedChannel_call_method_with_reply \o Maybe(Judge)
\* The channel the runner opens back, proxied or plain: each is waited for.
wait_for_xctest_service_channel ==
  TryElse(RemoteServerClient_wait_for_proxied_service_channel_code,
    Either(RemoteServerClient_wait_for_service_channel_code, Fail))
wait_for_driver_channel == wait_for_xctest_service_channel
start_executing_test_plan == OwnedChannel_call_method_with_reply
initialize_testmanager_daemon_sessions == init_ctrl_session \o init_session
launch_runner == ProcessControlClient_launch_with_options
launch_and_authorize_test_runner == launch_runner \o authorize_test
start_test_plan_session == wait_for_driver_channel \o start_executing_test_plan
\* One call of the runner: its arguments and the listener may fail it.
dispatch_xct_message == Judge \o Maybe(Await) \o Judge
run_dispatch_loop ==
  Loop(Await \o Maybe(dispatch_xct_message \o Maybe(Await)))
    \o Await \o dispatch_xct_message \o Maybe(Await)
XCUITestService_run ==
  Fresh(IdeviceProvider_connect \o IdeviceProvider_get_pairing_file
    \o LockdownClient_start_session \o LockdownClient_get_value
    \o TestConfig_build_xctest_configuration \o connect_testmanagerd
    \o TestManagerProxy_open \o TestManagerProxy_open \o ProcessControlClient_new
    \o initialize_testmanager_daemon_sessions
    \o launch_and_authorize_test_runner \o start_test_plan_session
    \o Either(run_dispatch_loop, Fail)) \o Invalidate

===============================================================================
