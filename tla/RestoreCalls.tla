---------------------------- MODULE RestoreCalls ------------------------------
(***************************************************************************)
(* The restore of a device: the restored service and the loop that answers its *)
(* requests, the connections it has the host open (ASR, FDR, data ports), the *)
(* firmware archive, the signing requests and the devices in recovery mode; and *)
(* the C functions over them.                                              *)
(***************************************************************************)
EXTENDS TransportCalls

(***************************************************************************)
(* What a restore reads from the host: the archive, an image in it, the    *)
(* signature                                                               *)
(* servers.  None of these uses the connection of the restored client.     *)
(***************************************************************************)
HttpRequest_send_once == Await \o Judge \o Await
HttpRequest_send == Loop(HttpRequest_send_once) \o HttpRequest_send_once \o Judge
TSSRequest_send == HttpRequest_send \o Judge
TSSRequest_add_ap_manifest_tags == Judge
select_build_identity == Judge
extract_img4_ticket == Judge

Ipsw_new == Await
Ipsw_read_file == Judge \o Await \o Await
Ipsw_extract_to_writer == Judge \o Await \o Loop(Await) \o Await
Ipsw_open_entry_reader == Judge \o Await
Ipsw_build_manifest == Ipsw_read_file \o Judge
component_path == Judge
Ipsw_read_component == component_path \o Ipsw_read_file
stitch_component == Judge
build_preboard_manifest == Judge

(***************************************************************************)
(* The restored service.  After StartRestore the device speaks when it     *)
(* wants to;                                                               *)
(* reboot and goodbye take its next message for their answer.              *)
(***************************************************************************)
RestoredClient_query_type == Checked
RestoredClient_connect == RestoredClient_query_type
RestoredClient_query_value == Checked
RestoredClient_hardware_info == RestoredClient_query_value \o Judge
RestoredClient_ecid == RestoredClient_hardware_info \o Judge
\* Each device that is not the one is dropped with its connection.
RestoredClient_connect_by_ecid ==
  Loop(Try(Open \o Exchange)
         \o Loop(Try(Open \o UsbmuxdConnection_connect_to_device
                       \o RestoredClient_connect \o RestoredClient_ecid) \o Invalidate))
    \o Either(Open \o UsbmuxdConnection_connect_to_device
                \o RestoredClient_connect \o RestoredClient_ecid, Fail)
RestoredClient_start_restore == Tell
RestoredClient_reboot == Exchange
RestoredClient_goodbye == Exchange
RestoredClient_send == Tell
RestoredClient_recv == Hear \o Judge

(***************************************************************************)
(* The file system image goes to a port of its own, and the factory data   *)
(* over                                                                    *)
(* another: their messages are not the ones of the restored connection.    *)
(***************************************************************************)
AsrClient_recv_plist == Loop(Await) \o Judge
AsrClient_send_plist == Await
AsrClient_connect == AsrClient_recv_plist \o Judge
AsrClient_handle_oob == Judge \o Await \o Judge \o Await
AsrClient_perform_validation ==
  Await \o AsrClient_send_plist
    \o Loop(AsrClient_recv_plist \o AsrClient_handle_oob)
    \o AsrClient_recv_plist \o Judge
AsrClient_send_payload == Await \o Loop(Judge \o Await \o Await)
AsrClient_send_filesystem == AsrClient_perform_validation \o AsrClient_send_payload

FdrClient_recv_plist == Hear \o Hear \o Judge
FdrClient_send_plist == Judge \o Tell \o Tell
FdrClient_send_recv_plist == FdrClient_send_plist \o FdrClient_recv_plist
FdrClient_ctrl_handshake == Tell \o FdrClient_send_recv_plist \o Judge
FdrClient_sync_handshake == Tell \o FdrClient_recv_plist \o Judge
FdrClient_read_message_tag == Hear
\* A Ping is answered, and what the device says to the Pong is dropped.
FdrClient_handle_plist ==
  FdrClient_recv_plist \o Maybe(FdrClient_send_recv_plist)
\* It takes the connection over until one side closes it.
FdrClient_handle_proxy ==
  Hear \o Tell \o Maybe(Tell \o Maybe(Await \o Loop(Hear))) \o Invalidate
\* A Sync opens another listener on a connection of its own.
FdrClient_run_fdr_listener ==
  Loop(FdrClient_read_message_tag
         \o Either(Hear, Maybe(FdrClient_handle_plist)))
    \o FdrClient_read_message_tag \o FdrClient_handle_proxy

(***************************************************************************)
(* What the device asks for during a restore, and the answer.  An answer   *)
(* goes to the                                                             *)
(* restored connection, or to a data port the request names.               *)
(***************************************************************************)
personalize_path == Await \o stitch_component
personalize_named == component_path \o personalize_path
connect_data_port == Loop(Try(Await)) \o Await
url_asset_response == Judge \o HttpRequest_send
streamed_key_response == Judge \o HttpRequest_send

send_to_data_service == Either(Await \o Await, RestoredClient_send)
send_root_ticket == Judge \o send_to_data_service
send_buildidentity == Judge \o RestoredClient_send
send_component == personalize_named \o RestoredClient_send
send_nor ==
  component_path \o Loop(personalize_path) \o personalize_path \o send_to_data_service
send_fdr_trust_data == send_to_data_service
send_manifest == RestoredClient_send
send_image_data == Judge \o Loop(personalize_named) \o RestoredClient_send
send_url_asset == url_asset_response \o send_to_data_service
send_streamed_image_decryption_key == streamed_key_response \o send_to_data_service

sign_bbfw == Judge
send_baseband_data ==
  TSSRequest_send \o Judge \o component_path \o Await \o sign_bbfw \o send_to_data_service
get_device_generated_firmware_data == Judge \o TSSRequest_send \o Judge
send_firmware_updater_data ==
  Judge \o get_device_generated_firmware_data \o send_to_data_service

\* The 3 s wait is for the request of an asset; any other message of the device
\* that comes in the meantime is read and dropped, and so is an error.
BootSink_recv == RestoredClient_recv
stream_boot_object ==
  Loop(Judge \o Await \o RestoredClient_send)
    \o Maybe(Within(BootSink_recv, <<>>)
               \o Maybe(url_asset_response \o RestoredClient_send))
    \o Loop(Judge \o Await \o RestoredClient_send)
    \o RestoredClient_send
\* The same over a data port.
send_file_chunks ==
  Loop(Await) \o Maybe(Within(Await, <<>>) \o Maybe(url_asset_response \o Await)) \o Await
send_source_boot_object ==
  component_path \o Await
    \o Either(connect_data_port \o send_file_chunks, stream_boot_object)
send_boot_object ==
  Judge
    \o Either(send_source_boot_object,
         Either(Await, personalize_named)
           \o Either(Await \o send_file_chunks,
                     Loop(RestoredClient_send) \o RestoredClient_send))

(***************************************************************************)
(* The image is sent while the pump answers the device; the pump is        *)
(* dropped where it                                                        *)
(* stands when the transfer ends.  Inside the pump there is no image left  *)
(* to send.                                                                *)
(***************************************************************************)
answer_data_request ==
  Either(send_root_ticket, Either(send_buildidentity, Either(send_boot_object,
  Either(send_component, Either(send_nor, Either(send_firmware_updater_data,
  Either(send_baseband_data, Either(send_fdr_trust_data, Either(send_image_data,
  Either(send_manifest, Either(send_url_asset,
    Maybe(send_streamed_image_decryption_key))))))))))))
dispatch_without_filesystem == Either(answer_data_request, connect_data_port \o AsrClient_connect \o Fail)
run_transfer_pump ==
  Loop(Judge \o RestoredClient_recv \o Maybe(dispatch_without_filesystem))
send_filesystem ==
  connect_data_port \o AsrClient_connect \o Judge
    \o Cut(run_transfer_pump, <<>>) \o AsrClient_send_filesystem
dispatch == Either(answer_data_request, send_filesystem)

handle_bb_update_status == Judge
\* The final status is acknowledged; otherwise an error may end the restore.
handle_status == Judge
check_cancel == Judge
drive_restore ==
  Loop(check_cancel \o RestoredClient_recv
         \o Either(dispatch, Either(handle_bb_update_status,
              Either(handle_status, Maybe(RestoredClient_send)))))
    \o RestoredClient_recv \o Either(RestoredClient_send, Fail)
run_restore ==
  RestoredClient_start_restore
    \o TryElse(drive_restore,
         Maybe(Try(RestoredClient_reboot)) \o Try(RestoredClient_goodbye) \o Fail)
    \o Try(RestoredClient_goodbye)

(***************************************************************************)
(* A device in recovery or DFU mode is driven over USB; every transfer is  *)
(* a call of                                                               *)
(* the transport the caller brings.                                        *)
(***************************************************************************)
RecoveryDevice_configure == Await \o Await \o Maybe(Await)
RecoveryDevice_read_string_descriptor == Await \o Judge
RecoveryDevice_load_nonces_from_descriptor == Maybe(Try(RecoveryDevice_read_string_descriptor))
RecoveryDevice_new ==
  Judge \o Await \o RecoveryDevice_configure \o RecoveryDevice_load_nonces_from_descriptor
RecoveryDevice_send_command_with_request == Await
RecoveryDevice_send_command == RecoveryDevice_send_command_with_request
RecoveryDevice_finish_transfer == Await
RecoveryDevice_getenv == RecoveryDevice_send_command \o Await
RecoveryDevice_setenv == RecoveryDevice_send_command
RecoveryDevice_set_autoboot == RecoveryDevice_setenv \o RecoveryDevice_send_command
RecoveryDevice_reboot == RecoveryDevice_send_command
RecoveryDevice_send_buffer_recovery == Await \o Loop(Await \o Judge) \o Maybe(Await)
RecoveryDevice_dfu_status == Await \o Judge
\* An unexpected state is cleared or aborted, and the call fails all the same.
send_buffer_dfu ==
  Await \o Maybe(Await \o Fail) \o Loop(Await)
    \o Loop(RecoveryDevice_dfu_status) \o RecoveryDevice_dfu_status
    \o Await \o RecoveryDevice_dfu_status \o RecoveryDevice_dfu_status \o Await
RecoveryDevice_send_buffer == Either(RecoveryDevice_send_buffer_recovery, send_buffer_dfu)

(***************************************************************************)
(* restore.rs.  A progress callback and a cancel flag have no step of      *)
(* their own.                                                              *)
(***************************************************************************)
idevice_restored_connect ==
  NotNull({"idevice", "out_client"}) \o Take("idevice")
    \o Fresh(RestoredClient_connect) \o Give("out_client")
idevice_restored_connect_by_ecid ==
  NotNull({"addr", "out_client"}) \o Fresh(RestoredClient_connect_by_ecid)
    \o Give("out_client")
idevice_restored_get_ecid ==
  NotNull({"client", "out_ecid"}) \o RestoredClient_ecid
idevice_restored_get_device_id ==
  NotNull({"client", "out_device_id", "out_has_device_id"})
idevice_restored_free == Frees("client")
idevice_restore_connect_usb_port ==
  NotNull({"addr", "out_idevice"}) \o Fresh(Open
    \o UsbmuxdConnection_connect_to_device) \o Give("out_idevice")
idevice_restore_cancel_handle_new ==
  NotNull({"out_handle"}) \o Give("out_handle")
idevice_restore_cancel_handle_free == Frees("handle")
idevice_restore_options_new == NotNull({"out_options"}) \o Put("out_options")
idevice_restore_run ==
  NotNull({"client", "components", "data_ports"}) \o Judge \o run_restore
idevice_ipsw_open ==
  NotNull({"path", "out_ipsw"}) \o Await \o Ipsw_new \o Give("out_ipsw")
idevice_ipsw_build_manifest ==
  NotNull({"ipsw", "out_manifest"}) \o Ipsw_build_manifest
    \o Put("out_manifest")
idevice_ipsw_read_component ==
  NotNull({"ipsw", "name", "out_data", "out_len"}) \o Judge
    \o Ipsw_read_component \o Put("out_data")
idevice_ipsw_read_file ==
  NotNull({"ipsw", "path", "out_data", "out_len"}) \o Ipsw_read_file
    \o Put("out_data")
idevice_ipsw_extract_to_file ==
  NotNull({"ipsw", "entry_path", "dest_path"}) \o Await
    \o Ipsw_extract_to_writer
idevice_ipsw_free == Frees("ipsw")
idevice_restore_select_build_identity ==
  NotNull({"out_identity"}) \o Judge \o select_build_identity
    \o Put("out_identity")
idevice_restore_component_path ==
  NotNull({"name", "out_path"}) \o Judge \o component_path \o Put("out_path")
idevice_restore_fetch_ap_ticket ==
  NotNull({"out_ticket", "out_ticket_len"}) \o Judge
    \o TSSRequest_add_ap_manifest_tags \o TSSRequest_send \o Judge
    \o extract_img4_ticket \o Put("out_ticket")
idevice_img4_stitch_component ==
  NotNull({"im4p", "ticket", "out_data", "out_len"}) \o stitch_component
    \o Put("out_data")
idevice_restore_boot_component_names ==
  NotNull({"out_names"}) \o Judge \o Put("out_names")
idevice_restore_build_preboard_manifest ==
  NotNull({"out_data", "out_len"}) \o Judge \o build_preboard_manifest
    \o Put("out_data")
idevice_recovery_device_new ==
  NotNull({"transport", "out_device"}) \o RecoveryDevice_new
    \o Give("out_device")
idevice_recovery_send_command ==
  NotNull({"device", "command"}) \o RecoveryDevice_send_command_with_request
idevice_recovery_send_buffer ==
  NotNull({"device"}) \o Valid \o RecoveryDevice_send_buffer
idevice_recovery_getenv ==
  NotNull({"device", "name", "out_data", "out_len"}) \o RecoveryDevice_getenv
    \o Put("out_data")
idevice_recovery_setenv ==
  NotNull({"device", "name", "value"}) \o RecoveryDevice_setenv
idevice_recovery_set_autoboot ==
  NotNull({"device"}) \o RecoveryDevice_set_autoboot
idevice_recovery_finish_transfer ==
  NotNull({"device"}) \o RecoveryDevice_finish_transfer
idevice_recovery_reboot == NotNull({"device"}) \o RecoveryDevice_reboot
idevice_recovery_get_mode ==
  NotNull({"device", "out_product_id", "out_is_recovery"})
idevice_recovery_get_info == NotNull({"device"})
idevice_recovery_device_free == Frees("device")
idevice_restore_fdr_start ==
  NotNull({"connector"}) \o Loop(Try(Within(Open
    \o FdrClient_ctrl_handshake, Fail))) \o Fresh(Within(Open
    \o FdrClient_ctrl_handshake, Fail))

===============================================================================
