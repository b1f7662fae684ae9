---------------------------- MODULE NativeLibrary ---------------------------
(***************************************************************************)
(* What a caller of the native library relies on, whatever it calls and    *)
(* wherever the call fails: whose memory a handle is, and whose answer the *)
(* next message on a connection is.  The calls whose code breaks one of    *)
(* these rules are named; every other call is checked to keep it.          *)
(***************************************************************************)
EXTENDS NativeCalls, TransportCalls, FileCalls, LockdownCalls, DeveloperCalls,
        CoreDeviceCalls, DvtCalls, WdaCalls, RestoreCalls

CONSTANT MaxBurst  \* MaxBurst * MaxBurst steps reach all a call alone can do

Failed == result \in {"error", "refused"}

\* Box::from_raw runs before an argument is tested, so that a refused call has
\* freed the handle, or has kept it in an object nobody received.
TakesBeforeTesting ==
  {idevice_new, rsd_handshake_new, file_service_new,
   file_service_retrieve_file_with_stream, installcoordination_proxy_new,
   restore_service_new, idevice_usbmuxd_connect_to_device, xf_stream_close}

(***************************************************************************)
(* A call that is refused for its arguments (FfiInvalidArg and             *)
(* FfiInvalidString) has taken no handle, so that the caller may repeat    *)
(* it: the order of the null checks and of Box::from_raw in the C          *)
(* functions of native/ffi/src.                                            *)
(***************************************************************************)
RefusalTakesNothing ==
  result = "refused" /\ fn \notin TakesBeforeTesting => freed = {} /\ kept = {}

\* The connection is copied out of its box and the box is dropped with it: the
\* connection in use has been released.
TakesTwice == {idevice_usbmuxd_connect_to_device}

\* The provider is borrowed while the call goes well, and freed when it does not.
FreesWhatItBorrows ==
  {lockdownd_connect, syslog_relay_connect_tcp, springboard_services_connect,
   image_mounter_connect, os_trace_relay_connect}

(***************************************************************************)
(* A call that fails has released only handles it would have consumed had  *)
(* it succeeded, and nothing an object it made still owns: a caller frees  *)
(* what it only lent, once.  It is about the error arms of the C           *)
(* functions.                                                              *)
(***************************************************************************)
BorrowedSurvives ==
  /\ Failed /\ fn \notin FreesWhatItBorrows => freed \subseteq Consumes(fn)
  /\ fn \notin TakesTwice => freed \cap (kept \cup taken) = {}

(***************************************************************************)
(* A call that fails has handed out no object: a caller that frees its out *)
(* parameters after an error would free what was never its own, and one    *)
(* that does not would lose it.  It is about the conversions between the   *)
(* answer of the device and the out parameters.                            *)
(***************************************************************************)
FailureGivesNothing == Failed => given = {}

\* An answer, or the rest of one, stays on the stream when the call returns.
LeavesAnswers ==
  {heartbeat_get_marco, notification_proxy_receive_with_timeout,
   preboard_service_create_stashbag, preboard_service_commit_stashbag,
   debug_proxy_send_command, idevice_rsd_checkin,
   remote_pairing_lockdown_pair, remote_pairing_lockdown_connect_pairing,
   OsTraceRelayClient_create_archive, AppServiceClient_stream_apps,
   installation_proxy_browse, installation_proxy_install,
   installation_proxy_install_with_callback, installation_proxy_upgrade,
   installation_proxy_upgrade_with_callback, installation_proxy_uninstall,
   installation_proxy_uninstall_with_callback,
   mobilebackup2_backup, mobilebackup2_restore, mobilebackup2_change_password,
   MobileBackup2Client_info_from_path, MobileBackup2Client_list_from_path,
   MobileBackup2Client_erase_device_from_path,
   MobileBackup2Client_extract_from_path, MobileBackup2Client_unback_from_path}

(***************************************************************************)
(* A call that ends, well or not, on a connection that is still usable has *)
(* read what the device answers to it: the next call does not take an      *)
(* answer to this one for its own.  A stream that was cut inside a message *)
(* is dropped.  It is about every pair of a request and a reply, every     *)
(* reply in parts and every deadline of the library.  A call that read an  *)
(* answer of an earlier one is not judged for what it leaves.              *)
(***************************************************************************)
AnswersAreRead ==
  result # "none" /\ ~dead /\ ~crossed /\ fn \notin LeavesAnswers
    => \A i \in DOMAIN owed : owed[i] \notin {"part", "last", "torn"}

(***************************************************************************)
(* How the code of the calls is ordered.                                   *)
(***************************************************************************)
\* P has every step of the scripts over it, however deep.
Complete(P) ==
  \A t \in P :
    /\ t.op # "else"
    /\ t.op \in Blocks => t.do \in Seq(P)
    /\ t.op \in {"opt", "either", "try"} => t.or \in Seq(P)
    /\ t.op = "send" => t.n \in Nat

\* No step of the script, however deep, is one of the operations.
Avoids(s, ops) ==
  LET P == AllSteps(s)
  IN  s \in Seq(P) /\ Complete(P) /\ \A t \in P : t.op \notin ops

\* Up to some step one group of operations is avoided, from there on another.
InPhases(s, first, second) ==
  \E k \in 0..Len(s) :
    Avoids(SubSeq(s, 1, k), first) /\ Avoids(SubSeq(s, k + 1, Len(s)), second)

Refusing == {"notNull", "valid", "text", "live"}
Failing  == Refusing \cup {"open", "send", "sendMany", "recv", "hear", "drain"}
                     \cup {"await", "judge", "fail"}

\* The arguments are tested before a handle is taken.
TestsFirst(s) == InPhases(s, {"take", "free"}, Refusing)

\* Nothing is handed out before the last step that can fail, in the call or in
\* each branch of its last step.
GivesLast(s) ==
  LET Ordered(b) == InPhases(b, {"give", "put"}, Failing)
  IN  \/ Ordered(s)
      \/ /\ s # <<>> /\ s[Len(s)].op \in {"opt", "either"}
         /\ Avoids(SubSeq(s, 1, Len(s) - 1), {"give", "put"})
         /\ Ordered(s[Len(s)].do) /\ Ordered(s[Len(s)].or)

\* What is released on an error is released on success too.
LendsOnly(s) ==
  \A t \in AllSteps(s) : t.op \in {"take", "free"} => t.arg \in Consumes(s)

\* A handle that is moved on is not freed as well, nor taken once it is given.
TakesOnce(s) ==
  /\ InPhases(s, {"give"}, {"take"})
  /\ \A t, u \in AllSteps(s) : t.op = "take" /\ u.op = "free" => t.arg # u.arg

(***************************************************************************)
(* What a call asks and reads when it is alone: every way its steps can go *)
(* on a stream nobody has used, and what is known of the stream there.     *)
(***************************************************************************)
\* There are n whole answers to read; there is one in parts; the stream begins
\* inside a message; nothing is known of it; it was dropped.
Owing(n) == [is |-> "owing", n |-> n]
InParts  == [is |-> "parts", n |-> 0]
Torn     == [is |-> "torn", n |-> 0]
Unsure   == [is |-> "unsure", n |-> 0]
Gone     == [is |-> "gone", n |-> 0]

\* After the next message was read, and it was the call's own.
Read(w) ==
  CASE w.is = "owing"  -> {Owing(n) : n \in {m \in 0..MaxOwed : m + 1 = w.n}}
    [] w.is = "parts"  -> {InParts, Owing(0)}
    [] w.is = "unsure" -> {Unsure}
    [] OTHER           -> {}

\* After a request that n messages answer.
Asked(w, n) ==
  CASE w.is = "owing" -> {Owing(m) : m \in {w.n + n} \cap 0..MaxOwed}
    [] w.is = "gone"  -> {}
    [] OTHER          -> {IF n = 0 \/ w = Torn THEN w ELSE Unsure}

\* After a request that is answered in parts.
AskedMany(w) ==
  CASE w = Owing(0) -> {InParts}
    [] w = Torn     -> {Torn}
    [] w = Gone     -> {}
    [] OTHER        -> {Unsure}

\* Where an error leads from the steps r, and where a deadline does.
Raised(r) ==
  LET H == {i \in DOMAIN r : r[i].op = "else" /\ r[i].by # "cut"}
  IN  IF H = {} THEN {<<>>}
      ELSE {r[i].or \o SubSeq(r, i + 1, Len(r)) : i \in {j \in H : \A k \in H : j <= k}}

CutOff(r) ==
  {r[i].or \o SubSeq(r, i + 1, Len(r)) :
     i \in {j \in DOMAIN r : r[j].op = "else" /\ r[j].by # "none"}}

\* The steps left, and what is known of the stream, after the first of r.
Moves(r, w) ==
  LET t == r[1]
      q == Tail(r)
      Fails(W) == Raised(r) \X W
      Cuts(W)  == CutOff(r) \X W
      Reads(W) == Fails({Gone}) \cup Cuts({w, Torn}) \cup W
  IN  CASE t.op \in Refusing -> {q, <<>>} \X {w}
        [] t.op \in {"take", "free", "give", "put", "else"} -> {<<q, w>>}
        [] t.op = "open" -> {<<q, Owing(0)>>} \cup Fails({Gone}) \cup Cuts({w})
        [] t.op = "send" -> ({q} \X Asked(w, t.n)) \cup Fails({Gone}) \cup Cuts({w})
        [] t.op = "sendMany" -> ({q} \X AskedMany(w)) \cup Fails({Gone})
        [] t.op = "recv" -> Reads((Raised(r) \cup {q}) \X Read(w))
        [] t.op = "hear" -> Reads({q} \X (Read(w) \cup ({w} \cap {Owing(0)})))
        [] t.op = "drain" ->
             Reads(({t.do \o q} \X (Read(w) \ {InParts}))
                     \cup ({t.do \o r} \X (Read(w) \cap {InParts, Unsure})))
        [] t.op = "invalidate" -> {<<q, Gone>>}
        [] t.op = "await" -> {<<q, w>>} \cup Fails({w}) \cup Cuts({w})
        [] t.op = "judge" -> {<<q, w>>} \cup Fails({w})
        [] t.op = "fail" -> Fails({w})
        [] t.op \in {"opt", "either"} -> {t.do \o q, t.or \o q} \X {w}
        [] t.op = "loop" -> {t.do \o r, q} \X {w}
        [] t.op = "try" ->
             {t.do \o <<[op |-> "else", or |-> t.or, by |-> t.by]>> \o q} \X {w}

Onwards(c) == {c} \cup IF c[1] = <<>> THEN {} ELSE Moves(c[1], c[2])

\* Nothing more can be reached from S.
Closed(S) == \A c \in S : Onwards(c) \subseteq S

Burst(S) ==
  LET After[n \in 0..MaxBurst] ==
        IF n = 0 THEN S ELSE UNION {Onwards(c) : c \in After[n - 1]}
  IN  IF Closed(S) THEN S ELSE After[MaxBurst]

\* All of it, by bursts of steps until there is nothing new.
Alone(s) ==
  LET After[n \in 0..MaxBurst] ==
        IF n = 0 THEN {s} \X {Owing(0), Gone}
        ELSE UNION {Burst(S) : S \in {After[n - 1]}}
  IN  After[MaxBurst]

\* A call that is alone has read what it asked for when it ends.
ReadsAnswers(s) ==
  LET R == Alone(s)
  IN  /\ {s} \X {Owing(0), Gone} \subseteq R
      /\ Closed(R)
      /\ \A c \in R : c[1] = <<>> => c[2] \in {Owing(0), Gone}

\* A call without an exemption keeps every order.
InOrder(s) ==
  /\ Avoids(s, {})
  /\ s \in TakesBeforeTesting \/ TestsFirst(s)
  /\ s \in FreesWhatItBorrows \/ LendsOnly(s)
  /\ s \in TakesTwice \/ TakesOnce(s)
  /\ GivesLast(s)
  /\ s \in LeavesAnswers \/ ReadsAnswers(s)

(***************************************************************************)
(* The order the C functions keep, and every call that begins has: its     *)
(* arguments are tested before a handle is taken or freed; no handle is    *)
(* both taken and freed, and none is taken once an object was handed out;  *)
(* objects are handed out after the last step that can fail; an error      *)
(* releases no more than success does; and when the call is alone it reads *)
(* what it asked for.  Whether the device is asked before a handle is      *)
(* taken or after is left open.  It is about the text of every function of *)
(* native/ffi/src and of every method of native/idevice/src, and is what   *)
(* the four properties rest on.                                            *)
(***************************************************************************)
CallsInOrder == result = "none" /\ rest = fn => InOrder(fn)

MethodsInOrder == \A c \in DOMAIN Methods : \A s \in Methods[c] : InOrder(s)

=============================================================================
