--------------------------- MODULE TransportCalls -----------------------------
(***************************************************************************)
(* How a client gets its connection: a provider and lockdown, or an adapter *)
(* and the RSD handshake, under them usbmuxd, the CoreDevice tunnel, remote *)
(* pairing and RemoteXPC; and the C functions over them.                   *)
(***************************************************************************)
EXTENDS CallScript

Idevice_get_type == Checked
Idevice_rsd_checkin == Send(2) \o Recv \o Judge \o Recv \o Judge
\* The socket is moved into the TLS session and comes back when it is up.
Idevice_start_session == Judge \o TryElse(Await, Invalidate \o Fail)

LockdownClient_get_value == Checked
LockdownClient_set_value == Exchange
LockdownClient_remove_value == Checked
LockdownClient_unpair == Checked
LockdownClient_start_session ==
  Judge \o Try(LockdownClient_get_value) \o Checked \o Idevice_start_session
LockdownClient_stop_session == Checked
LockdownClient_start_service_with_escrow == Checked
LockdownClient_start_service == LockdownClient_start_service_with_escrow
LockdownClient_build_pair_request ==
  LockdownClient_get_value \o Judge \o LockdownClient_get_value \o Judge
\* A pending dialog is an answer: the request is sent again a second later.
LockdownClient_pair ==
  LockdownClient_build_pair_request \o Loop(Send(1) \o Recv) \o Checked
LockdownClient_pair_once == LockdownClient_build_pair_request \o Checked
LockdownClient_enter_recovery == Checked

(***************************************************************************)
(* The services of a device, over either way to reach them.                *)
(***************************************************************************)
UsbmuxdConnection_get_devices == Checked
UsbmuxdConnection_get_device == UsbmuxdConnection_get_devices \o Judge
UsbmuxdConnection_get_pair_record == Checked
UsbmuxdConnection_get_buid == Checked
UsbmuxdConnection_connect_to_device == Fresh(Checked)
UsbmuxdConnection_save_pair_record == Checked
UsbmuxdConnection_delete_pair_record == Checked
UsbmuxdConnection_listen == Checked
UsbmuxdListener_next == Loop(Hear) \o Hear \o Judge

\* Over TCP, or through usbmuxd, which also keeps the pairing file: a connection
\* of its own.
IdeviceProvider_connect == Open \o Maybe(UsbmuxdConnection_connect_to_device)
IdeviceProvider_get_pairing_file == Await

\* IdeviceService::connect; from_stream is the service's own.
IdeviceService_connect(from_stream) ==
  Fresh(IdeviceProvider_connect \o IdeviceProvider_get_pairing_file
    \o LockdownClient_start_session \o Try(LockdownClient_get_value)
    \o LockdownClient_start_service \o IdeviceProvider_connect
    \o Maybe(IdeviceProvider_get_pairing_file \o Idevice_start_session)
    \o from_stream)

\* RsdService::connect_rsd
RsdHandshake_connect(from_stream) == Judge \o Fresh(Open \o from_stream)

\* The C functions that connect a client.
ConnectsTo(provider, client, from_stream) ==
  NotNull({provider, client}) \o IdeviceService_connect(from_stream)
    \o Give(client)
Connects(provider, client) == ConnectsTo(provider, client, <<>>)
ConnectsRsd(adapter, handshake, client, from_stream) ==
  NotNull({adapter, handshake, client})
    \o RsdHandshake_connect(from_stream) \o Give(client)

(***************************************************************************)
(* RemoteXPC over HTTP/2: an answer is the next message of its channel.    *)
(***************************************************************************)
RemoteXpcClient_new == Tell
RemoteXpcClient_do_handshake == Tell
RemoteXpcClient_send_device_handshake == Send(1)
RemoteXpcClient_recv == Recv
RemoteXpcClient_recv_root == Recv
RemoteXpcClient_recv_any == Recv
RemoteXpcClient_send_object(replies) == Send(replies)
RemoteXpcClient_iter_file_chunks == Tell \o Hear \o Loop(Hear)
RemoteXpcClient_send_file_transfer == Tell
RsdHandshake_new ==
  RemoteXpcClient_new \o RemoteXpcClient_do_handshake
    \o RemoteXpcClient_send_device_handshake
    \o RemoteXpcClient_recv_root \o Judge

CdTunnel_handshake == Checked
CdTunnel_send_packet == Tell
CdTunnel_recv_packet == Hear
\* The socket is moved: it goes with a handshake that fails.
CoreDeviceProxy_new == Judge \o Fresh(CdTunnel_handshake)
CoreDeviceProxy_send == CdTunnel_send_packet
CoreDeviceProxy_recv == CdTunnel_recv_packet
CoreDeviceProxy_create_software_tunnel == Fresh(Judge)

(***************************************************************************)
(* Remote pairing: pair-verify, and pair-setup when it fails.              *)
(***************************************************************************)
RemotePairingClient_send_pairing_data(replies) == Send(replies)
RemotePairingClient_receive_pairing_data == Recv \o Judge
RemotePairingClient_send_pair_verified_failed == Tell
RemotePairingClient_attempt_pair_verify == Checked
RemotePairingClient_validate_pairing ==
  LET Round == RemotePairingClient_send_pairing_data(1)
                 \o RemotePairingClient_receive_pairing_data \o Judge
                 \o Maybe(RemotePairingClient_send_pair_verified_failed \o Fail)
  IN  Round \o Judge \o Round
\* A device that asks its user for consent says so before it answers.
RemotePairingClient_request_pair_consent ==
  Either(RemotePairingClient_send_pairing_data(2) \o Recv \o Judge,
         RemotePairingClient_send_pairing_data(1))
    \o RemotePairingClient_receive_pairing_data \o Judge
RemotePairingClient_init_srp_context ==
  Judge \o RemotePairingClient_send_pairing_data(1)
    \o RemotePairingClient_receive_pairing_data \o Judge
RemotePairingClient_save_pair_record_on_peer ==
  Judge \o RemotePairingClient_send_pairing_data(1)
    \o RemotePairingClient_receive_pairing_data \o Judge
RemotePairingClient_pair ==
  RemotePairingClient_request_pair_consent
    \o RemotePairingClient_init_srp_context
    \o RemotePairingClient_save_pair_record_on_peer \o Judge
\* Whatever makes pair-verify fail, pair-setup follows on the same connection.
RemotePairingClient_connect ==
  RemotePairingClient_attempt_pair_verify
    \o TryElse(RemotePairingClient_validate_pairing, RemotePairingClient_pair)
RemotePairingClient_send_receive_encrypted_request == Checked
RemotePairingClient_create_tcp_listener ==
  RemotePairingClient_send_receive_encrypted_request \o Judge
RemotePairingLockdownService_into_client == Judge
RpPairingFile_read_from_file == Judge
RpPairingFile_write_to_file == Judge
tls_psk_handshake ==
  SendMany \o Drain(Judge) \o Judge \o SendMany \o Drain(Judge)
connect_tls_psk_tunnel_native == Fresh(tls_psk_handshake \o Checked)

\* From the untrusted tunnel service to a pairing session.
UntrustedTunnelService ==
  RsdHandshake_new \o Judge \o Open \o RemoteXpcClient_new
    \o RemoteXpcClient_do_handshake \o Hear \o RemotePairingClient_connect
\* From a pairing session to an adapter and its RSD handshake.
finish_tunnel ==
  RemotePairingClient_create_tcp_listener \o Open
    \o connect_tls_psk_tunnel_native \o Judge \o Open \o RsdHandshake_new
\* From the CoreDevice proxy of a provider to its RSD.
ProxyTunnel ==
  IdeviceService_connect(CoreDeviceProxy_new)
    \o CoreDeviceProxy_create_software_tunnel \o Open

(***************************************************************************)
(* native/ffi/src/lib.rs, provider.rs, pairing_file.rs, errors.rs,         *)
(* logging.rs                                                              *)
(***************************************************************************)
idevice_new ==
  NotNull({"socket", "label", "idevice"}) \o Take("socket") \o Text
    \o Give("idevice")
idevice_from_fd ==
  NotNull({"label", "idevice"}) \o Valid \o Open \o Text \o Give("idevice")
idevice_new_tcp_socket ==
  NotNull({"addr", "label", "idevice"}) \o Text \o Valid \o Open
    \o Give("idevice")
idevice_get_type ==
  NotNull({"idevice", "device_type"}) \o Idevice_get_type \o Judge
    \o Put("device_type")
idevice_rsd_checkin == NotNull({"idevice"}) \o Idevice_rsd_checkin
idevice_start_session ==
  NotNull({"idevice", "pairing_file"}) \o Idevice_start_session
idevice_free == Frees("idevice")
idevice_stream_free == Frees("stream_handle")
idevice_string_free == Frees("string")
idevice_data_free == Frees("data")
idevice_plist_array_free == Frees("plists")
idevice_outer_slice_free == Frees("slice")

idevice_tcp_provider_new ==
  Valid \o Text \o Take("pairing_file") \o Give("provider")
idevice_provider_free == Frees("provider")
usbmuxd_provider_new ==
  NotNull({"addr", "udid", "label", "provider"}) \o Text \o Valid
    \o Take("addr") \o Give("provider")
idevice_provider_get_pairing_file ==
  IdeviceProvider_get_pairing_file \o Give("pairing_file")

idevice_pairing_file_read ==
  NotNull({"path", "pairing_file"}) \o Valid \o Judge \o Give("pairing_file")
idevice_pairing_file_from_bytes ==
  NotNull({"data", "pairing_file"}) \o Valid \o Judge \o Give("pairing_file")
idevice_pairing_file_serialize ==
  NotNull({"pairing_file", "data", "size"}) \o Judge \o Put("data")
idevice_pairing_file_free == Frees("pairing_file")

idevice_error_free == Frees("err")

idevice_init_logger == Opt("file_path", Maybe(Text \o Judge))

(***************************************************************************)
(* lockdown.rs: only this connect releases the provider it borrows, when   *)
(* it fails.                                                               *)
(***************************************************************************)
lockdownd_connect ==
  NotNull({"provider", "client"})
    \o TryElse(Fresh(IdeviceProvider_connect), Free("provider") \o Fail)
    \o Give("client")
lockdownd_connect_rsd ==
  ConnectsRsd("provider", "handshake", "client", Idevice_rsd_checkin)
lockdownd_new == Wraps("socket", "client")
lockdownd_start_session == LockdownClient_start_session
lockdownd_start_service ==
  NotNull({"identifier", "port", "ssl"}) \o LockdownClient_start_service
lockdownd_pair ==
  NotNull({"client", "host_id", "system_buid"}) \o Opt("host_name", Text)
    \o LockdownClient_pair \o Give("pairing_file")
lockdownd_get_value ==
  NotNull({"client", "out_plist"}) \o Opt("key", Text) \o Opt("domain", Text)
    \o LockdownClient_get_value \o Put("out_plist")
lockdownd_enter_recovery ==
  NotNull({"client"}) \o LockdownClient_enter_recovery
lockdownd_set_value ==
  NotNull({"client", "key", "value"}) \o Text \o Opt("domain", Text)
    \o LockdownClient_set_value
lockdownd_client_free == Frees("handle")

(***************************************************************************)
(* rsd.rs: the handshake reads the stream it takes and keeps nothing of    *)
(* it.                                                                     *)
(* "result" is a pointer the function returns.                             *)
(***************************************************************************)
rsd_handshake_new ==
  NotNull({"socket", "handle"}) \o Take("socket") \o Live
    \o Fresh(RsdHandshake_new) \o Invalidate \o Put("handle")
rsd_get_protocol_version == NotNull({"handle", "version"})
rsd_get_uuid == NotNull({"handle", "uuid"}) \o Judge \o Put("uuid")
rsd_get_services ==
  NotNull({"handle", "services"}) \o Judge \o Put("services")
rsd_service_available ==
  NotNull({"handle", "service_name", "available"}) \o Valid
rsd_get_service_info ==
  NotNull({"handle", "service_name", "service_info"}) \o Valid \o Judge
    \o Put("service_info")
rsd_handshake_clone == NotNull({"handshake"}) \o Put("result")
rsd_free_string == Frees("string")
rsd_free_service == Frees("service")
rsd_free_services == Frees("services")
rsd_handshake_free == Frees("handle")

(***************************************************************************)
(* core_device_proxy.rs, adapter.rs, tunnel_provider.rs,                   *)
(* tcp_object_stack.rs                                                     *)
(***************************************************************************)
core_device_proxy_connect ==
  ConnectsTo("provider", "client", CoreDeviceProxy_new)
core_device_proxy_new ==
  NotNull({"socket", "client"}) \o Take("socket") \o CoreDeviceProxy_new
    \o Give("client")
core_device_proxy_send == NotNull({"handle", "data"}) \o CoreDeviceProxy_send
core_device_proxy_recv ==
  NotNull({"handle", "data", "length"}) \o CoreDeviceProxy_recv \o Judge
core_device_proxy_get_client_parameters ==
  NotNull({"handle"}) \o Judge \o Put("address") \o Put("netmask")
core_device_proxy_get_server_address ==
  NotNull({"handle"}) \o Judge \o Put("address")
core_device_proxy_get_server_rsd_port == NotNull({"handle", "port"})
core_device_proxy_create_tcp_adapter ==
  NotNull({"handle", "adapter"}) \o Take("handle")
    \o CoreDeviceProxy_create_software_tunnel \o Give("adapter")
core_device_proxy_free == Frees("handle")
adapter_free == Frees("handle")

adapter_connect ==
  NotNull({"adapter_handle", "stream_handle"}) \o Fresh(Open)
    \o Put("stream_handle")
adapter_pcap == NotNull({"handle", "path"}) \o Text \o Await
adapter_stream_close == NotNull({"handle"})
adapter_close == NotNull({"handle"}) \o Try(Await)
adapter_send == NotNull({"handle", "data"}) \o Tell
adapter_recv == NotNull({"handle", "data", "length"}) \o Hear \o Judge

tunnel_create_usb ==
  NotNull({"lockdown_provider", "out_adapter", "out_handshake"})
    \o Fresh(ProxyTunnel \o RsdHandshake_new) \o Put("out_adapter")
    \o Put("out_handshake")
tunnel_pair_usb ==
  NotNull({"lockdown_provider", "hostname", "out_pairing_file"}) \o Text
    \o Fresh(ProxyTunnel \o UntrustedTunnelService) \o Invalidate
    \o Put("out_pairing_file")
tunnel_create_remotexpc ==
  NotNull({"addr", "hostname", "pairing_file", "out_adapter", "out_handshake"})
    \o Valid \o Text \o Fresh(Open \o UntrustedTunnelService \o finish_tunnel)
    \o Put("out_adapter") \o Put("out_handshake")
tunnel_create_rppairing ==
  NotNull({"addr", "hostname", "pairing_file", "out_adapter", "out_handshake"})
    \o Valid \o Text \o Fresh(Open \o RemotePairingClient_connect
    \o finish_tunnel) \o Put("out_adapter") \o Put("out_handshake")
rppairing_pair_network ==
  NotNull({"addr", "hostname", "pairing_file"}) \o Valid \o Text \o Fresh(Open
    \o RemotePairingClient_connect) \o Invalidate
    \o Opt("out_peer_device", Maybe(Put("out_peer_device")))

idevice_tcp_stack_into_sync_objects ==
  NotNull({"our_ip", "their_ip", "feeder", "adapter_handle"}) \o Valid
    \o Fresh(Open) \o Put("feeder") \o Put("tcp_receiver")
    \o Put("adapter_handle")
idevice_tcp_feed_object_write == NotNull({"object", "data"}) \o Tell
idevice_tcp_eat_object_read == Judge \o Maybe(Put("data"))
idevice_free_tcp_feed_object == Frees("object")
idevice_free_tcp_eat_object == Frees("object")

(***************************************************************************)
(* usbmuxd.rs: connect_to_device copies the connection out of the box with *)
(* ptr::read, drops the box with the connection in it, and uses the copy.  *)
(***************************************************************************)
idevice_usbmuxd_new_tcp_connection ==
  NotNull({"addr", "out"}) \o Valid \o Fresh(Open) \o Give("out")
idevice_usbmuxd_new_unix_socket_connection ==
  Valid \o Fresh(Open) \o Give("usbmuxd_connection")
idevice_usbmuxd_new_default_connection ==
  Valid \o Fresh(Open) \o Give("usbmuxd_connection")
idevice_usbmuxd_get_devices ==
  NotNull({"usbmuxd_conn"}) \o UsbmuxdConnection_get_devices \o Put("devices")
idevice_usbmuxd_connect_to_device ==
  NotNull({"usbmuxd_connection"}) \o Free("usbmuxd_connection")
    \o Take("usbmuxd_connection") \o Valid
    \o UsbmuxdConnection_connect_to_device \o Give("idevice")
idevice_usbmuxd_get_pair_record ==
  NotNull({"usbmuxd_conn"}) \o Valid \o UsbmuxdConnection_get_pair_record
    \o Give("pair_record")
idevice_usbmuxd_save_pair_record ==
  NotNull({"usbmuxd_conn", "pair_record"}) \o Valid
    \o UsbmuxdConnection_save_pair_record
idevice_usbmuxd_listen ==
  NotNull({"usbmuxd_conn", "stream_handle"}) \o UsbmuxdConnection_listen
    \o Give("stream_handle")
idevice_usbmuxd_listener_handle_free == Frees("stream_handle")
idevice_usbmuxd_listener_next ==
  NotNull({"stream_handle", "connect", "connection_device", "disconnection_id"})
    \o UsbmuxdListener_next \o Maybe(Put("connection_device"))
idevice_usbmuxd_get_buid ==
  NotNull({"usbmuxd_conn"}) \o UsbmuxdConnection_get_buid \o Judge
    \o Put("buid")
idevice_usbmuxd_connection_free == Frees("usbmuxd_connection")
idevice_usbmuxd_tcp_addr_new ==
  NotNull({"addr", "usbmuxd_addr"}) \o Valid \o Give("usbmuxd_addr")
idevice_usbmuxd_unix_addr_new == Valid \o Give("usbmuxd_addr")
idevice_usbmuxd_default_addr_new == Give("usbmuxd_addr")
idevice_usbmuxd_addr_free == Frees("usbmuxd_addr")
idevice_usbmuxd_device_list_free == Frees("devices")
idevice_usbmuxd_device_free == Frees("device")
idevice_usbmuxd_device_get_udid ==
  NotNull({"device"}) \o Judge \o Put("result")
idevice_usbmuxd_device_get_device_id == NotNull({"device"})
idevice_usbmuxd_device_get_connection_type == NotNull({"device"})

(***************************************************************************)
(* rp_pairing_file.rs, remote_pairing_lockdown.rs                          *)
(***************************************************************************)
rp_pairing_file_generate ==
  NotNull({"hostname", "out"}) \o Text \o Give("out")
rp_pairing_file_read ==
  NotNull({"path", "out"}) \o Text \o RpPairingFile_read_from_file
    \o Give("out")
rp_pairing_file_from_bytes == NotNull({"data", "out"}) \o Judge \o Give("out")
rp_pairing_file_to_bytes ==
  NotNull({"handle", "out_data", "out_len"}) \o Put("out_data")
rp_pairing_file_write ==
  NotNull({"handle", "path"}) \o Text \o RpPairingFile_write_to_file
rp_pairing_file_free == Frees("handle")
rppairing_peer_device_free == Frees("peer_device")

remote_pairing_lockdown_connect ==
  NotNull({"provider", "sending_host", "handle"}) \o Text
    \o IdeviceService_connect(<<>>)
    \o Fresh(RemotePairingLockdownService_into_client) \o Give("handle")
remote_pairing_lockdown_new ==
  NotNull({"socket", "sending_host", "handle"}) \o Text \o Take("socket")
    \o Fresh(RemotePairingLockdownService_into_client) \o Give("handle")
remote_pairing_lockdown_attempt_pair_verify ==
  NotNull({"handle", "handshake"}) \o RemotePairingClient_attempt_pair_verify
    \o Put("handshake")
remote_pairing_lockdown_validate_pairing ==
  NotNull({"handle", "pairing_file"}) \o RemotePairingClient_validate_pairing
remote_pairing_lockdown_pair ==
  NotNull({"handle", "pairing_file"}) \o Opt("pin", Text)
    \o RemotePairingClient_pair
remote_pairing_lockdown_connect_pairing ==
  NotNull({"handle", "pairing_file"}) \o Opt("pin", Text)
    \o RemotePairingClient_connect
remote_pairing_lockdown_encryption_key ==
  NotNull({"handle", "key", "key_len"}) \o Put("key")
remote_pairing_lockdown_free == Frees("handle")

(***************************************************************************)
(* A slip in the function below: a receive that is cut keeps its stream.   *)
(***************************************************************************)
StreamRecvKeepsSocket ==
  NotNull({"stream", "buffer", "out_length"}) \o Valid \o Live
    \o Within(Maybe(Hear), Fail)

(***************************************************************************)
(* xf_stream.rs: what fails or is cut by its deadline drops the stream; a   *)
(* receive that meets the end of the stream succeeds with nothing.         *)
(***************************************************************************)
xf_rsd_connect_service ==
  NotNull({"adapter", "handshake", "service_name", "out_stream"}) \o Valid
    \o Text \o Judge \o Within(Open \o Maybe(Idevice_rsd_checkin), Invalidate
    \o Fail) \o Give("out_stream")
xf_stream_send ==
  NotNull({"stream"}) \o Valid \o Live \o Maybe(Within(Tell, Invalidate
    \o Fail))
xf_stream_recv ==
  NotNull({"stream", "buffer", "out_length"}) \o Valid \o Live
    \o Within(Maybe(Hear), Invalidate \o Fail)
xf_stream_read_exact ==
  NotNull({"stream"}) \o Valid \o Live \o Maybe(Within(Hear, Invalidate
    \o Fail))
xf_stream_close ==
  Opt("stream", Take("stream") \o Valid \o Within(Maybe(Await), Invalidate
    \o Fail) \o Invalidate)
xf_rsd_advertised_services ==
  NotNull({"handshake", "out_data", "out_length"}) \o Judge \o Put("out_data")

===============================================================================
