--------------------------- MODULE DeveloperCalls -----------------------------
(***************************************************************************)
(* What a developer's computer asks of a device through lockdown: log traces, *)
(* installation, the debugger and disk images; and the C functions over them. *)
(***************************************************************************)
EXTENDS TransportCalls

(***************************************************************************)
(* Log traces and application installation: answers that come in parts.  A *)
(* part                                                                    *)
(* that reports an error ends the call with the parts after it unread.     *)
(***************************************************************************)
\* The client is moved: its connection becomes the trace.
OsTraceRelayClient_start_trace == Fresh(Send(2) \o Hear \o Recv \o Judge)
OsTraceRelayClient_get_pid_list == Send(2) \o Hear \o Recv \o Judge
\* The archive ends when the device closes the connection.
OsTraceRelayClient_create_archive ==
  Send(2) \o Hear \o Judge \o Recv \o Judge \o Loop(Hear \o Judge \o Hear \o Await)
    \o Invalidate
OsTraceRelayReceiver_next == Hear \o Judge \o Hear \o Judge

InstallationProxyClient_get_apps == Checked
InstallationProxyClient_watch_completion == Drain(Judge)
InstallationProxyClient_install_with_callback ==
  SendMany \o InstallationProxyClient_watch_completion
InstallationProxyClient_install == InstallationProxyClient_install_with_callback
InstallationProxyClient_upgrade_with_callback ==
  SendMany \o InstallationProxyClient_watch_completion
InstallationProxyClient_upgrade == InstallationProxyClient_upgrade_with_callback
InstallationProxyClient_uninstall_with_callback ==
  SendMany \o InstallationProxyClient_watch_completion
InstallationProxyClient_uninstall ==
  InstallationProxyClient_uninstall_with_callback
InstallationProxyClient_check_capabilities_match == Checked
\* A part without a list ends it too.
InstallationProxyClient_browse ==
  SendMany \o Either(Drain(<<>>), Recv \o Loop(Recv))

(***************************************************************************)
(* os_trace_relay.rs, installation_proxy.rs                                *)
(***************************************************************************)
os_trace_relay_connect ==
  NotNull({"provider"})
    \o TryElse(IdeviceService_connect(<<>>), Free("provider") \o Fail)
    \o Give("client")
os_trace_relay_connect_rsd ==
  ConnectsRsd("provider", "handshake", "client", Idevice_rsd_checkin)
os_trace_relay_free == Frees("handle")
os_trace_relay_start_trace ==
  NotNull({"receiver", "client"}) \o Take("client")
    \o OsTraceRelayClient_start_trace \o Give("receiver")
os_trace_relay_receiver_free == Frees("handle")
os_trace_relay_get_pid_list == OsTraceRelayClient_get_pid_list \o Put("list")
os_trace_relay_next ==
  NotNull({"client"}) \o OsTraceRelayReceiver_next \o Put("log")
os_trace_relay_free_log == Frees("log")

installation_proxy_connect == Connects("provider", "client")
installation_proxy_connect_rsd ==
  ConnectsRsd("provider", "handshake", "client", Idevice_rsd_checkin)
installation_proxy_new == Wraps("socket", "client")
installation_proxy_get_apps ==
  NotNull({"client", "out_result", "out_result_len"})
    \o Opt("application_type", Text) \o InstallationProxyClient_get_apps
    \o Put("out_result")
installation_proxy_client_free == Frees("handle")
installation_proxy_install ==
  NotNull({"client", "package_path"}) \o InstallationProxyClient_install
installation_proxy_install_with_callback ==
  NotNull({"client", "package_path"})
    \o InstallationProxyClient_install_with_callback
installation_proxy_upgrade ==
  NotNull({"client", "package_path"}) \o InstallationProxyClient_upgrade
installation_proxy_upgrade_with_callback ==
  NotNull({"client", "package_path"})
    \o InstallationProxyClient_upgrade_with_callback
installation_proxy_uninstall ==
  NotNull({"client", "bundle_id"}) \o InstallationProxyClient_uninstall
installation_proxy_uninstall_with_callback ==
  NotNull({"client", "bundle_id"})
    \o InstallationProxyClient_uninstall_with_callback
installation_proxy_check_capabilities_match ==
  NotNull({"client", "out_result"})
    \o InstallationProxyClient_check_capabilities_match
installation_proxy_browse ==
  NotNull({"client", "out_result", "out_result_len"})
    \o InstallationProxyClient_browse \o Put("out_result")

(***************************************************************************)
(* The debugger: commands on a raw stream.  An answer that does not begin  *)
(* as the                                                                  *)
(* protocol says is left where it is, and the call returns no answer.      *)
(***************************************************************************)
DebugProxyClient_send_ack == Tell
DebugProxyClient_send_noack == Tell
\* With acknowledgements turned off the device sends the packet alone.
DebugProxyClient_read_response ==
  Either(Maybe(Hear \o Judge),
         Hear \o Maybe(Hear \o DebugProxyClient_send_ack \o Judge))
DebugProxyClient_send_command ==
  Either(Send(1) \o Maybe(Hear \o Judge),
         Send(2) \o Hear \o Maybe(Hear \o DebugProxyClient_send_ack \o Judge))
DebugProxyClient_send_raw == Tell
DebugProxyClient_read == Hear \o Judge
DebugProxyClient_set_argv == Judge \o Send(1) \o DebugProxyClient_read

debugserver_command_new == Opt("name", Maybe(Put("result")))
debugserver_command_free == Frees("command")
debug_proxy_connect_rsd ==
  NotNull({"provider", "handshake"}) \o RsdHandshake_connect(<<>>)
    \o Give("handle")
debug_proxy_new == Wraps("socket", "handle")
debug_proxy_free == Frees("handle")
debug_proxy_send_command ==
  NotNull({"handle", "command", "response"}) \o DebugProxyClient_send_command
    \o Judge \o Maybe(Put("response"))
debug_proxy_read_response ==
  NotNull({"handle", "response"}) \o DebugProxyClient_read_response \o Judge
    \o Maybe(Put("response"))
debug_proxy_send_raw ==
  NotNull({"handle", "data"}) \o DebugProxyClient_send_raw
debug_proxy_read ==
  NotNull({"handle", "response"}) \o DebugProxyClient_read \o Judge
    \o Put("response")
debug_proxy_set_argv ==
  NotNull({"handle", "response"}) \o DebugProxyClient_set_argv \o Judge
    \o Put("response")
debug_proxy_send_ack == NotNull({"handle"}) \o DebugProxyClient_send_ack
debug_proxy_send_nack == NotNull({"handle"}) \o DebugProxyClient_send_noack
debug_proxy_set_ack_mode == Opt("handle", <<>>)

(***************************************************************************)
(* Disk images.  A personalised image needs a manifest of the device: when *)
(* it has                                                                  *)
(* none the mounter asks Apple for one, over a connection it opens anew.   *)
(***************************************************************************)
ImageMounter_copy_devices == Checked
ImageMounter_lookup_image == Checked
ImageMounter_upload_image_with_progress ==
  Judge \o Checked \o Send(1) \o Recv \o Judge
ImageMounter_upload_image == ImageMounter_upload_image_with_progress
ImageMounter_mount_image == Checked
ImageMounter_unmount_image == Checked
ImageMounter_query_personalization_manifest == Checked
ImageMounter_query_developer_mode_status == Checked
ImageMounter_query_nonce == Checked
ImageMounter_query_personalization_identifiers == Checked
ImageMounter_roll_personalization_nonce == Tell
ImageMounter_roll_cryptex_nonce == Tell
ImageMounter_mount_developer ==
  ImageMounter_upload_image \o ImageMounter_mount_image
ImageMounter_get_manifest_from_tss ==
  ImageMounter_query_personalization_identifiers \o Judge
    \o ImageMounter_query_nonce \o Judge \o Await \o Judge
ImageMounter_mount_personalized_with_callback ==
  TryElse(ImageMounter_query_personalization_manifest,
          IdeviceService_connect(<<>>) \o Judge \o ImageMounter_get_manifest_from_tss)
    \o ImageMounter_upload_image_with_progress \o ImageMounter_mount_image
ImageMounter_mount_personalized == ImageMounter_mount_personalized_with_callback
ImageMounter_mount_personalized_with_callback_rsd ==
  TryElse(ImageMounter_query_personalization_manifest,
          RsdHandshake_connect(Idevice_rsd_checkin) \o Judge
            \o ImageMounter_get_manifest_from_tss)
    \o ImageMounter_upload_image_with_progress \o ImageMounter_mount_image
ImageMounter_mount_personalized_rsd ==
  ImageMounter_mount_personalized_with_callback_rsd

image_mounter_connect ==
  NotNull({"provider", "client"})
    \o TryElse(IdeviceService_connect(<<>>), Free("provider") \o Fail)
    \o Give("client")
image_mounter_connect_rsd ==
  ConnectsRsd("provider", "handshake", "client", Idevice_rsd_checkin)
image_mounter_new == NotNull({"socket"}) \o Take("socket") \o Give("client")
image_mounter_free == Frees("handle")
image_mounter_copy_devices == ImageMounter_copy_devices \o Put("devices")
image_mounter_lookup_image ==
  NotNull({"image_type", "signature", "signature_len"}) \o Valid
    \o ImageMounter_lookup_image \o Put("signature")
image_mounter_upload_image ==
  NotNull({"image_type", "image", "signature"}) \o Valid
    \o ImageMounter_upload_image
image_mounter_mount_image ==
  NotNull({"image_type", "signature"}) \o Valid
    \o Opt("info_plist", Take("info_plist")) \o ImageMounter_mount_image
image_mounter_unmount_image ==
  NotNull({"mount_path"}) \o Valid \o ImageMounter_unmount_image
image_mounter_query_developer_mode_status ==
  NotNull({"status"}) \o ImageMounter_query_developer_mode_status
image_mounter_mount_developer ==
  NotNull({"image", "signature"}) \o ImageMounter_mount_developer
image_mounter_query_personalization_manifest ==
  NotNull({"image_type", "signature", "manifest", "manifest_len"}) \o Valid
    \o ImageMounter_query_personalization_manifest \o Put("manifest")
image_mounter_query_nonce ==
  NotNull({"nonce", "nonce_len"}) \o Opt("personalized_image_type", Valid)
    \o ImageMounter_query_nonce \o Put("nonce")
image_mounter_query_personalization_identifiers ==
  NotNull({"identifiers"}) \o Opt("image_type", Valid)
    \o ImageMounter_query_personalization_identifiers \o Put("identifiers")
image_mounter_roll_personalization_nonce ==
  ImageMounter_roll_personalization_nonce
image_mounter_roll_cryptex_nonce == ImageMounter_roll_cryptex_nonce
image_mounter_mount_personalized ==
  NotNull({"provider", "image", "trust_cache", "build_manifest"})
    \o Opt("info_plist", Take("info_plist"))
    \o ImageMounter_mount_personalized
image_mounter_mount_personalized_rsd ==
  NotNull({"provider", "handshake", "image", "trust_cache", "build_manifest"})
    \o Opt("info_plist", Take("info_plist"))
    \o ImageMounter_mount_personalized_rsd
image_mounter_mount_personalized_with_callback_rsd ==
  NotNull({"provider", "handshake", "image", "trust_cache", "build_manifest"})
    \o Opt("info_plist", Take("info_plist"))
    \o ImageMounter_mount_personalized_with_callback_rsd
image_mounter_mount_personalized_with_callback ==
  NotNull({"provider", "image", "trust_cache", "build_manifest"})
    \o Opt("info_plist", Take("info_plist"))
    \o ImageMounter_mount_personalized_with_callback

===============================================================================
