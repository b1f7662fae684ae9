------------------------------ MODULE FileCalls -------------------------------
(***************************************************************************)
(* The services that move files: AFC and the clients made from one,        *)
(* mobilebackup2 and misagent; and the C functions over them.              *)
(***************************************************************************)
EXTENDS TransportCalls

(***************************************************************************)
(* A slip in AfcClient_mk_dir: the status of the operation is not awaited.  *)
(***************************************************************************)
AfcMkDirUnanswered == Within(Send(1), Invalidate \o Fail)

(***************************************************************************)
(* Apple File Conduit.  What fails or takes longer than 15 seconds drops   *)
(* the connection.                                                         *)
(***************************************************************************)
AfcClient_send == Within(Send(1), Invalidate \o Fail)
AfcClient_read ==
  Within(Recv, Invalidate \o Fail) \o Maybe(Invalidate \o Fail) \o Judge
AfcClient_new_afc2 ==
  Fresh(IdeviceProvider_connect \o IdeviceProvider_get_pairing_file
    \o LockdownClient_start_session \o LockdownClient_start_service
    \o IdeviceProvider_connect
    \o Maybe(IdeviceProvider_get_pairing_file \o Idevice_start_session))
AfcClient_send_op == AfcClient_send \o AfcClient_read
AfcClient_list_dir == AfcClient_send \o AfcClient_read
AfcClient_mk_dir == AfcClient_send \o AfcClient_read
AfcClient_get_file_info_raw == AfcClient_send_op
AfcClient_get_file_info == AfcClient_get_file_info_raw \o Judge
AfcClient_get_device_info_raw == AfcClient_send_op
AfcClient_get_device_info == AfcClient_get_device_info_raw \o Judge
AfcClient_remove == AfcClient_send \o AfcClient_read
AfcClient_remove_all == AfcClient_send \o AfcClient_read
AfcClient_open == AfcClient_send \o AfcClient_read \o Judge
AfcClient_link == AfcClient_send \o AfcClient_read
AfcClient_rename == AfcClient_send \o AfcClient_read
AfcClient_get_file_hash == AfcClient_send_op
AfcClient_set_file_time == AfcClient_send_op
AfcClient_get_connection_info == AfcClient_send_op

\* An open file: one packet and its answer at a time.
File_send_packet == AfcClient_send \o AfcClient_read
File_seek_tell == File_send_packet \o Judge
File_seek == File_send_packet \o File_seek_tell
File_read_n == Loop(File_send_packet)
File_read ==
  File_seek_tell \o AfcClient_get_file_info \o Loop(File_read_n)
File_write == Loop(File_send_packet)
File_lock == File_send_packet
File_set_size == File_send_packet
File_close_inner == File_send_packet

(***************************************************************************)
(* Clients that are given an AFC connection or give theirs away.           *)
(***************************************************************************)
HouseArrestClient_vend == Fresh(Checked)
HouseArrestClient_vend_container == HouseArrestClient_vend
HouseArrestClient_vend_documents == HouseArrestClient_vend

CrashReportCopyMobileClient_ls == AfcClient_list_dir
\* The file is closed whether or not it could be read.
CrashReportCopyMobileClient_pull ==
  AfcClient_open \o TryElse(File_read, File_close_inner \o Fail)
    \o File_close_inner
CrashReportCopyMobileClient_remove == AfcClient_remove
flush_reports == Fresh(IdeviceService_connect(Hear \o Judge)) \o Invalidate

MisagentClient_install == Checked
MisagentClient_remove == Checked
MisagentClient_copy_all == Checked

(***************************************************************************)
(* mobilebackup2: the host asks for an operation, and then the device      *)
(* drives it.                                                              *)
(* A file the device uploads comes in blocks up to a last one.             *)
(***************************************************************************)
MobileBackup2Client_send_dl_array(replies) == Send(replies)
MobileBackup2Client_receive_dl_message == Hear \o Judge
MobileBackup2Client_dl_version_exchange ==
  MobileBackup2Client_receive_dl_message \o Judge
    \o MobileBackup2Client_send_dl_array(1)
    \o MobileBackup2Client_receive_dl_message \o Judge
MobileBackup2Client_send_device_link_message(replies) == Send(replies)
MobileBackup2Client_receive_device_link_message == Recv \o Judge
MobileBackup2Client_version_exchange ==
  MobileBackup2Client_send_device_link_message(1)
    \o MobileBackup2Client_receive_device_link_message \o Judge
MobileBackup2Client_from_stream ==
  MobileBackup2Client_dl_version_exchange \o MobileBackup2Client_version_exchange
MobileBackup2Client_send_request(replies) ==
  MobileBackup2Client_send_device_link_message(replies)
MobileBackup2Client_send_status_response == MobileBackup2Client_send_dl_array(0)

MobileBackup2Client_send_file_error == Tell
MobileBackup2Client_send_single_file ==
  Tell \o Either(MobileBackup2Client_send_file_error,
                 Loop(Tell) \o Either(MobileBackup2Client_send_file_error, Tell))
MobileBackup2Client_handle_download_files ==
  Loop(MobileBackup2Client_send_single_file) \o Tell
    \o MobileBackup2Client_send_status_response
MobileBackup2Client_handle_upload_files ==
  SendMany \o Drain(Judge) \o MobileBackup2Client_send_status_response
MobileBackup2Client_process_dl_loop ==
  Loop(MobileBackup2Client_receive_dl_message
         \o Either(MobileBackup2Client_handle_download_files,
              Either(MobileBackup2Client_handle_upload_files,
                     MobileBackup2Client_send_status_response)))
    \o MobileBackup2Client_receive_dl_message

MobileBackup2Client_request_backup_info ==
  MobileBackup2Client_send_device_link_message(1)
    \o MobileBackup2Client_receive_device_link_message \o Judge
MobileBackup2Client_list_backups == MobileBackup2Client_request_backup_info
MobileBackup2Client_start_backup ==
  MobileBackup2Client_send_request(1)
    \o MobileBackup2Client_receive_device_link_message \o Judge
MobileBackup2Client_start_restore == MobileBackup2Client_start_backup
MobileBackup2Client_start_restore_with == MobileBackup2Client_start_backup
\* Whose backup it is may be unknown, and its files may not be there.
MobileBackup2Client_backup_from_path ==
  Judge \o MobileBackup2Client_send_request(0) \o MobileBackup2Client_process_dl_loop
MobileBackup2Client_restore_from_path == MobileBackup2Client_backup_from_path
MobileBackup2Client_info_from_path ==
  Judge \o MobileBackup2Client_send_device_link_message(0)
    \o MobileBackup2Client_process_dl_loop \o Judge
MobileBackup2Client_list_from_path == MobileBackup2Client_info_from_path
MobileBackup2Client_unback_from_path == MobileBackup2Client_backup_from_path
MobileBackup2Client_extract_from_path ==
  Judge \o MobileBackup2Client_send_device_link_message(0)
    \o MobileBackup2Client_process_dl_loop
MobileBackup2Client_change_password_from_path ==
  MobileBackup2Client_extract_from_path
MobileBackup2Client_erase_device_from_path ==
  MobileBackup2Client_extract_from_path
\* Requests the host may not make.
MobileBackup2Client_get_freespace == Fail
MobileBackup2Client_check_backup_encryption == Fail
MobileBackup2Client_disconnect == MobileBackup2Client_send_dl_array(0)

(***************************************************************************)
(* afc.rs, the AFC calls of xf_stream.rs, house_arrest.rs,                 *)
(* crashreportcopymobile.rs                                                *)
(***************************************************************************)
afc_client_connect == Connects("provider", "client")
afc_client_connect_rsd ==
  ConnectsRsd("provider", "handshake", "client", Idevice_rsd_checkin)
afc2_client_connect ==
  NotNull({"provider", "client"}) \o AfcClient_new_afc2 \o Give("client")
afc_client_new == Wraps("socket", "client")
afc_client_free == Frees("handle")
afc_list_directory ==
  NotNull({"path", "entries", "count"}) \o AfcClient_list_dir
    \o Put("entries")
afc_make_directory == NotNull({"client", "path"}) \o Valid \o AfcClient_mk_dir
afc_get_file_info ==
  NotNull({"client", "path", "info"}) \o Valid \o AfcClient_get_file_info
    \o Put("info")
afc_file_info_free == Frees("info")
afc_get_device_info ==
  NotNull({"client", "info"}) \o AfcClient_get_device_info \o Put("info")
afc_device_info_free == Frees("info")
afc_remove_path == NotNull({"client", "path"}) \o Valid \o AfcClient_remove
afc_remove_path_and_contents ==
  NotNull({"client", "path"}) \o Valid \o AfcClient_remove_all
afc_file_open ==
  NotNull({"client", "path", "handle"}) \o Valid \o AfcClient_open
    \o Put("handle")
afc_file_close == NotNull({"handle"}) \o Take("handle") \o File_close_inner
afc_file_read ==
  NotNull({"handle", "data", "bytes_read"}) \o File_read_n \o Put("data")
afc_file_read_entire ==
  NotNull({"handle", "data", "length"}) \o File_read \o Put("data")
afc_file_seek == NotNull({"handle", "new_pos"}) \o Valid \o File_seek
afc_file_tell == NotNull({"handle", "pos"}) \o File_seek
afc_file_write == NotNull({"handle", "data"}) \o File_write
afc_make_link ==
  NotNull({"client", "target", "source"}) \o Valid \o AfcClient_link
afc_rename_path ==
  NotNull({"client", "source", "target"}) \o Valid \o AfcClient_rename
afc_file_read_data_free == Frees("data")

xf_afc_connect_rsd ==
  NotNull({"adapter", "handshake", "out_client"}) \o Valid
    \o Within(RsdHandshake_connect(Idevice_rsd_checkin), Invalidate \o Fail)
    \o Give("out_client")
xf_afc_get_mtime ==
  NotNull({"client", "path", "out_mtime_nanos"}) \o Text \o Valid
    \o Cut(AfcClient_get_file_info_raw, Invalidate \o Fail) \o Judge
xf_afc_set_file_time ==
  NotNull({"client", "path"}) \o Valid \o Text \o Valid
    \o Cut(AfcClient_set_file_time, Invalidate \o Fail)

house_arrest_client_connect == Connects("provider", "client")
house_arrest_client_connect_rsd ==
  ConnectsRsd("provider", "handshake", "client", Idevice_rsd_checkin)
house_arrest_client_new == Wraps("socket", "client")
house_arrest_vend_container ==
  NotNull({"client", "bundle_id", "afc_client"}) \o Take("client")
    \o HouseArrestClient_vend_container \o Give("afc_client")
house_arrest_vend_documents ==
  NotNull({"client", "bundle_id", "afc_client"}) \o Take("client")
    \o HouseArrestClient_vend_documents \o Give("afc_client")
house_arrest_client_free == Frees("handle")

crash_report_client_connect == Connects("provider", "client")
crash_report_client_connect_rsd ==
  ConnectsRsd("provider", "handshake", "client", Idevice_rsd_checkin)
crash_report_client_new == Wraps("socket", "client")
crash_report_client_ls ==
  NotNull({"client", "entries", "count"}) \o Opt("dir_path", Text)
    \o CrashReportCopyMobileClient_ls \o Put("entries")
crash_report_client_pull ==
  NotNull({"client", "log_name", "data", "length"}) \o Text
    \o CrashReportCopyMobileClient_pull \o Put("data")
crash_report_client_remove ==
  NotNull({"client", "log_name"}) \o Text
    \o CrashReportCopyMobileClient_remove
crash_report_client_to_afc == Wraps("client", "afc_client")
crash_report_flush == NotNull({"provider"}) \o flush_reports
crash_report_client_free == Frees("handle")

(***************************************************************************)
(* misagent.rs, mobilebackup2.rs                                           *)
(***************************************************************************)
misagent_connect == Connects("provider", "client")
misagent_connect_rsd ==
  ConnectsRsd("provider", "handshake", "client", Idevice_rsd_checkin)
misagent_install ==
  NotNull({"client", "profile_data"}) \o MisagentClient_install
misagent_remove == NotNull({"client", "profile_id"}) \o MisagentClient_remove
misagent_copy_all ==
  NotNull({"client", "out_profiles", "out_profiles_len", "out_count"})
    \o MisagentClient_copy_all \o Put("out_profiles")
    \o Put("out_profiles_len")
misagent_free_profiles ==
  Opt("profiles", Opt("lens", Maybe(Free("profiles") \o Free("lens"))))
misagent_client_free == Frees("handle")

mobilebackup2_connect ==
  ConnectsTo("provider", "client", MobileBackup2Client_from_stream)
mobilebackup2_connect_rsd ==
  ConnectsRsd("provider", "handshake", "client", Idevice_rsd_checkin
    \o MobileBackup2Client_from_stream)
mobilebackup2_new ==
  NotNull({"socket", "client"}) \o Take("socket")
    \o Fresh(MobileBackup2Client_from_stream) \o Give("client")
mobilebackup2_client_free == Frees("handle")
mobilebackup2_backup ==
  NotNull({"client", "backup_root", "delegate"})
    \o MobileBackup2Client_backup_from_path
    \o Opt("out_response", Maybe(Put("out_response")))
mobilebackup2_restore ==
  NotNull({"client", "backup_root", "delegate"})
    \o MobileBackup2Client_restore_from_path
    \o Opt("out_response", Maybe(Put("out_response")))
mobilebackup2_change_password ==
  NotNull({"client", "backup_root", "delegate"})
    \o MobileBackup2Client_change_password_from_path
mobilebackup2_disconnect ==
  NotNull({"client"}) \o MobileBackup2Client_disconnect

===============================================================================
