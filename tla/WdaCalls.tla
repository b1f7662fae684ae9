------------------------------ MODULE WdaCalls --------------------------------
(***************************************************************************)
(* WebDriverAgent: HTTP requests to the runner of a test on the device, each over a *)
(* connection of its own; the bridge to it from localhost; and the C functions. *)
(***************************************************************************)
EXTENDS DvtCalls

(***************************************************************************)
(* A request is answered or its connection is lost with it.  The client of *)
(* a C                                                                     *)
(* function is built anew for each call, and without the session that its  *)
(* handle                                                                  *)
(* keeps: only the caller's session_id counts.                             *)
(***************************************************************************)
WdaClient_read_json_response == Recv \o Judge
WdaClient_request_json ==
  Fresh(IdeviceProvider_connect
    \o Within(Send(1) \o WdaClient_read_json_response, Fail)) \o Invalidate
WdaClient_require_session_id(request) == IfGiven("session_id", request, Fail)
\* What answers 404 is asked for again under another path.
OrWhenMissing(request, other) == TryElse(request, Either(other, Fail))
WdaClient_execute_mobile_method ==
  OrWhenMissing(WdaClient_request_json, WdaClient_request_json)
WdaClient_try_keys_endpoint(other) == OrWhenMissing(WdaClient_request_json, other)
WdaClient_perform_actions == WdaClient_request_json
WdaClient_perform_tap_actions == WdaClient_perform_actions
WdaClient_perform_touch_and_hold_actions == Judge \o WdaClient_perform_actions
WdaClient_element_bool_state ==
  WdaClient_require_session_id(WdaClient_request_json \o Judge)
WdaClient_execute_gesture == WdaClient_execute_mobile_method

WdaClient_status == WdaClient_request_json
WdaClient_wait_until_ready == Loop(Try(WdaClient_status)) \o WdaClient_status
WdaClient_start_session == WdaClient_request_json \o Judge
WdaClient_delete_session == WdaClient_request_json
WdaClient_find_element ==
  WdaClient_require_session_id(WdaClient_request_json \o Judge)
WdaClient_find_elements ==
  WdaClient_require_session_id(WdaClient_request_json \o Judge)
WdaClient_click == WdaClient_require_session_id(WdaClient_request_json)
WdaClient_element_attribute ==
  WdaClient_require_session_id(WdaClient_request_json \o Judge)
WdaClient_element_text == WdaClient_element_attribute \o Judge
WdaClient_element_rect ==
  WdaClient_require_session_id(WdaClient_request_json \o Judge)
WdaClient_element_displayed == WdaClient_element_bool_state
WdaClient_element_enabled == WdaClient_element_bool_state
WdaClient_element_selected == WdaClient_element_bool_state
WdaClient_press_button ==
  LET Home == Either(WdaClient_request_json, Fail)
  IN  IfGiven("session_id",
        OrWhenMissing(WdaClient_request_json, WdaClient_try_keys_endpoint(Home)),
        Home)
WdaClient_unlock ==
  IfGiven("session_id",
    OrWhenMissing(WdaClient_request_json, WdaClient_request_json),
    WdaClient_request_json)
WdaClient_source == WdaClient_request_json \o Judge
WdaClient_screenshot == WdaClient_request_json \o Judge
WdaClient_window_size ==
  WdaClient_require_session_id(WdaClient_request_json \o Judge)
WdaClient_send_keys ==
  WdaClient_require_session_id(
    OrWhenMissing(WdaClient_request_json, WdaClient_request_json))
WdaClient_swipe == WdaClient_require_session_id(WdaClient_request_json)
WdaClient_resolve_gesture_coordinates ==
  Judge \o Maybe(WdaClient_element_rect \o Judge)
WdaClient_tap ==
  WdaClient_require_session_id(
    OrWhenMissing(WdaClient_execute_gesture,
      WdaClient_resolve_gesture_coordinates \o WdaClient_perform_tap_actions))
WdaClient_double_tap ==
  WdaClient_require_session_id(
    OrWhenMissing(WdaClient_execute_gesture,
      WdaClient_resolve_gesture_coordinates \o WdaClient_perform_tap_actions))
WdaClient_touch_and_hold ==
  WdaClient_require_session_id(
    OrWhenMissing(WdaClient_execute_gesture,
      WdaClient_resolve_gesture_coordinates
        \o WdaClient_perform_touch_and_hold_actions))
WdaClient_scroll == WdaClient_require_session_id(WdaClient_execute_mobile_method)
WdaClient_viewport_rect ==
  WdaClient_require_session_id(WdaClient_execute_mobile_method \o Judge)
WdaClient_orientation ==
  WdaClient_require_session_id(WdaClient_request_json \o Judge)
WdaClient_launch_app ==
  WdaClient_require_session_id(WdaClient_execute_mobile_method \o Judge)
WdaClient_activate_app ==
  WdaClient_require_session_id(WdaClient_execute_mobile_method \o Judge)
WdaClient_terminate_app ==
  WdaClient_require_session_id(WdaClient_execute_mobile_method \o Judge)
WdaClient_query_app_state ==
  WdaClient_require_session_id(WdaClient_execute_mobile_method \o Judge)
WdaClient_background_app ==
  WdaClient_require_session_id(WdaClient_execute_mobile_method \o Judge)
WdaClient_is_locked ==
  WdaClient_require_session_id(WdaClient_execute_mobile_method \o Judge)

(***************************************************************************)
(* The bridge: a listener for each port of the device.  A runner started   *)
(* for it goes                                                             *)
(* on in a task of its own while the caller asks the device whether it is  *)
(* up.                                                                     *)
(***************************************************************************)
TcpPortForward_start == Await
WdaBridge_start_with_ports ==
  Try(IdeviceProvider_get_pairing_file)
    \o TcpPortForward_start \o TcpPortForward_start
WdaBridge_start == WdaBridge_start_with_ports
XCUITestService_run_until_wda_ready ==
  Judge \o Loop(Try(WdaClient_status)) \o Either(WdaClient_status, Fail)
XCUITestService_run_until_wda_ready_with_bridge ==
  XCUITestService_run_until_wda_ready \o WdaBridge_start_with_ports
WdaRunHandle_wait == Await

(***************************************************************************)
(* wda.rs and wda_bridge.rs.                                               *)
(***************************************************************************)
wda_client_new == Wraps("provider", "handle")
wda_client_free == Frees("handle")
wda_client_set_ports == NotNull({"handle"})
wda_client_set_timeout_ms == NotNull({"handle"})
wda_client_get_ports == NotNull({"handle", "out_http", "out_mjpeg"})
wda_client_session_id ==
  NotNull({"handle", "out_str"}) \o Maybe(Put("out_str"))
wda_client_status ==
  NotNull({"handle", "out_json"}) \o WdaClient_status \o Judge
    \o Put("out_json")
wda_client_wait_until_ready ==
  NotNull({"handle", "out_json"}) \o WdaClient_wait_until_ready \o Judge
    \o Put("out_json")
wda_client_start_session ==
  NotNull({"handle", "out_session_id"}) \o Opt("bundle_id", Text)
    \o WdaClient_start_session \o Put("out_session_id")
wda_client_delete_session ==
  NotNull({"handle", "session_id"}) \o Text \o WdaClient_delete_session
wda_client_find_element ==
  NotNull({"handle", "using", "value", "out_element_id"}) \o Text \o Text
    \o Opt("session_id", Text) \o WdaClient_find_element
    \o Put("out_element_id")
wda_client_find_elements ==
  NotNull({"handle", "using", "value", "out_array", "out_count"}) \o Text
    \o Text \o Opt("session_id", Text) \o WdaClient_find_elements
    \o Put("out_array")
wda_client_string_array_free == Frees("arr")
wda_client_element_attribute ==
  NotNull({"handle", "element_id", "name", "out_json"}) \o Text \o Text
    \o Opt("session_id", Text) \o WdaClient_element_attribute \o Judge
    \o Put("out_json")
wda_client_element_text ==
  NotNull({"handle", "element_id", "out_str"}) \o Text
    \o Opt("session_id", Text) \o WdaClient_element_text \o Put("out_str")
wda_client_element_rect ==
  NotNull({"handle", "element_id", "out_json"}) \o Text
    \o Opt("session_id", Text) \o WdaClient_element_rect \o Judge
    \o Put("out_json")
wda_client_element_displayed ==
  NotNull({"handle", "element_id", "out_bool"}) \o Text
    \o Opt("session_id", Text) \o WdaClient_element_displayed
wda_client_element_enabled ==
  NotNull({"handle", "element_id", "out_bool"}) \o Text
    \o Opt("session_id", Text) \o WdaClient_element_enabled
wda_client_element_selected ==
  NotNull({"handle", "element_id", "out_bool"}) \o Text
    \o Opt("session_id", Text) \o WdaClient_element_selected
wda_client_click ==
  NotNull({"handle", "element_id"}) \o Text \o Opt("session_id", Text)
    \o WdaClient_click
wda_client_send_keys ==
  NotNull({"handle", "text"}) \o Text \o Opt("session_id", Text)
    \o WdaClient_send_keys
wda_client_press_button ==
  NotNull({"handle", "name"}) \o Text \o Opt("session_id", Text)
    \o WdaClient_press_button
wda_client_unlock ==
  NotNull({"handle"}) \o Opt("session_id", Text) \o WdaClient_unlock
wda_client_swipe ==
  NotNull({"handle"}) \o Opt("session_id", Text) \o WdaClient_swipe
wda_client_tap ==
  NotNull({"handle"}) \o Opt("element_id", Text) \o Opt("session_id", Text)
    \o WdaClient_tap
wda_client_double_tap ==
  NotNull({"handle"}) \o Opt("element_id", Text) \o Opt("session_id", Text)
    \o WdaClient_double_tap
wda_client_touch_and_hold ==
  NotNull({"handle"}) \o Opt("element_id", Text) \o Opt("session_id", Text)
    \o WdaClient_touch_and_hold
wda_client_scroll ==
  NotNull({"handle"}) \o Opt("direction", Text) \o Opt("name", Text)
    \o Opt("predicate_string", Text) \o Opt("element_id", Text)
    \o Opt("session_id", Text) \o WdaClient_scroll
wda_client_source ==
  NotNull({"handle", "out_str"}) \o Opt("session_id", Text)
    \o WdaClient_source \o Put("out_str")
wda_client_screenshot ==
  NotNull({"handle", "out_bytes", "out_len"}) \o Opt("session_id", Text)
    \o WdaClient_screenshot \o Put("out_bytes")
wda_client_window_size ==
  NotNull({"handle", "out_json"}) \o Opt("session_id", Text)
    \o WdaClient_window_size \o Judge \o Put("out_json")
wda_client_viewport_rect ==
  NotNull({"handle", "out_json"}) \o Opt("session_id", Text)
    \o WdaClient_viewport_rect \o Judge \o Put("out_json")
wda_client_orientation ==
  NotNull({"handle", "out_str"}) \o Opt("session_id", Text)
    \o WdaClient_orientation \o Put("out_str")
wda_client_launch_app ==
  NotNull({"handle", "bundle_id", "out_json"}) \o Text
    \o Opt("session_id", Text) \o Opt("arguments", Valid \o Text)
    \o Opt("environment_json", Text \o Valid) \o WdaClient_launch_app \o Judge
    \o Put("out_json")
wda_client_activate_app ==
  NotNull({"handle", "bundle_id", "out_json"}) \o Text
    \o Opt("session_id", Text) \o WdaClient_activate_app \o Judge
    \o Put("out_json")
wda_client_terminate_app ==
  NotNull({"handle", "bundle_id", "out_bool"}) \o Text
    \o Opt("session_id", Text) \o WdaClient_terminate_app
wda_client_query_app_state ==
  NotNull({"handle", "bundle_id", "out_state"}) \o Text
    \o Opt("session_id", Text) \o WdaClient_query_app_state
wda_client_background_app ==
  NotNull({"handle", "out_json"}) \o Opt("session_id", Text)
    \o WdaClient_background_app \o Judge \o Put("out_json")
wda_client_is_locked ==
  NotNull({"handle", "out_bool"}) \o Opt("session_id", Text)
    \o WdaClient_is_locked

wda_bridge_start ==
  NotNull({"provider", "handle"}) \o Take("provider") \o WdaBridge_start
    \o Give("handle")
wda_bridge_start_with_ports ==
  NotNull({"provider", "handle"}) \o Take("provider")
    \o WdaBridge_start_with_ports \o Give("handle")
wda_bridge_endpoints ==
  NotNull({"handle", "out_endpoints"}) \o Put("out_endpoints")
wda_bridge_endpoints_free == Frees("endpoints")
wda_bridge_free == Frees("handle")

===============================================================================
