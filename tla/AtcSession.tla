----------------------------- MODULE AtcSession -----------------------------
(***************************************************************************)
(* One request for file moves: retryATCPreparation around                  *)
(* runKnownFilePairsOnce or runATCOnce.  An attempt opens a tunnel and a   *)
(* stream, follows the synchronization protocol up to the asset manifest   *)
(* and sends one FileComplete per move.  The device is external: it says   *)
(* whatever it likes whenever it likes, truthful or not, or stays silent,  *)
(* and the connection may break at any time.                               *)
(***************************************************************************)
EXTENDS Naturals, Sequences

CONSTANTS MaxPairs,  \* moves of one request, at most 8 in the code
          Budget,    \* messages one waitFor can read before its deadline
          MaxInbox   \* messages the device can have under way

ASSUME PairsAssumption == MaxPairs \in Nat \ {0}
ASSUME BudgetAssumption == Budget \in Nat \ {0}

VARIABLES
  req,     \* the request: number of moves, runATC or runKnownFilePairs, tunnelFactory or not
  attempt, \* atcSyncAttempt
  phase,   \* where the attempt is; while it waits or sends, the message's name
  next,    \* the next move of this attempt
  moveAttempted, \* atcMoveAttempted
  ok,      \* the attempt's result
  failure, \* transport: native Socket or Timeout; other: anything else; none
  left,    \* messages left until the deadline of the current waitFor
  tunnels, \* tunnels open for this service
  dev,     \* what the device is ready for
  inbox,   \* its messages that were not read yet
  announced, \* auxiliary: how many of Announcements it has sent in this session
  got,     \* auxiliary: the moves the device was handed, in order
  blame,   \* auxiliary: something else than the transport went wrong in this attempt
  result   \* of the request

host == <<attempt, phase, next, moveAttempted, ok, failure, left, tunnels>>
vars == <<req, host, dev, inbox, announced, got, blame, result>>

Waits == {"SyncAllowed", "ReadyForSync", "AssetManifest"}
Sends == {"HostInfo", "RequestingSync", "FinishedSyncingMetadata"}
Phases == {"begin", "connect", "FileComplete", "close", "VerifyLink", "retry", "done"}
            \cup Waits \cup Sends

\* The device's messages.  Refused is SyncFailed with a code other than 4,
\* Cancelled with code 4; Partial is a manifest without all assets.
Messages == {"Ping", "SyncAllowed", "ReadyForSync", "AssetManifest", "Partial",
             "Refused", "Cancelled", "SyncFinished", "Other"}
DevStates == {"closed", "hello", "allowed", "hosted", "requested", "ready", "metadata",
              "manifest"}

\* What the device announces in the course of a session, in this order.
Announcements == <<"SyncAllowed", "ReadyForSync", "AssetManifest">>

Request == [pairs : 1..MaxPairs, linking : BOOLEAN, fresh : BOOLEAN]

-----------------------------------------------------------------------------
(***************************************************************************)
(* Policies                                                                *)
(***************************************************************************)
MaxAttempts == 3

\* Mutant: a manifest replaces ReadyForSync.
DecisionLax(wanted, name) ==
  CASE name = "Ping" -> "pong"
    [] name \in {"Refused", "SyncFinished"} -> "reject"
    [] name = "Cancelled" -> IF wanted = "AssetManifest" THEN "reject" ELSE "continue"
    [] name = wanted \/ name \in {"AssetManifest", "Partial"} -> "accept"
    [] OTHER -> "continue"

\* Mutant: every SyncFailed ends the session.
DecisionStrict(wanted, name) ==
  CASE name = "Ping" -> "pong"
    [] name \in {"Refused", "Cancelled", "SyncFinished"} -> "reject"
    [] name = wanted \/ (name = "Partial" /\ wanted = "AssetManifest") -> "accept"
    [] OTHER -> "continue"

\* XFATCDecisionForMessage: a cancellation is what is left of an earlier
\* session unless the manifest is awaited.
DecisionForMessage(wanted, name) ==
  CASE name = "Ping" -> "pong"
    [] name \in {"Refused", "SyncFinished"} -> "reject"
    [] name = "Cancelled" -> IF wanted = "AssetManifest" THEN "reject" ELSE "continue"
    [] name = wanted \/ (name = "Partial" /\ wanted = "AssetManifest") -> "accept"
    [] OTHER -> "continue"

\* Mutant: one attempt too many.
ShouldRetryOnceMore ==
  /\ attempt <= MaxAttempts /\ req.fresh
  /\ failure = "transport" /\ ~moveAttempted

\* XFATCShouldRetryPreparation.
ShouldRetry ==
  /\ attempt < MaxAttempts /\ req.fresh
  /\ failure = "transport" /\ ~moveAttempted

-----------------------------------------------------------------------------
(***************************************************************************)
(* An attempt                                                              *)
(***************************************************************************)
Init ==
  /\ req \in {r \in Request : r.linking => r.pairs = 1}
  /\ attempt = 1 /\ phase = "begin" /\ next = 1 /\ moveAttempted = FALSE
  /\ ok = FALSE /\ failure = "none" /\ left = Budget /\ tunnels = 0
  /\ dev = "closed" /\ inbox = <<>> /\ announced = 0 /\ got = <<>> /\ blame = FALSE
  /\ result = "running"

\* The attempt fails; its stream and tunnel will be closed.
Break(why) ==
  /\ phase' = "close"
  /\ failure' = why
  /\ UNCHANGED <<req, attempt, next, moveAttempted, ok, left, tunnels, result>>

\* The classes of errors: XFATCPreparationTransportFailure tells the first one.
Errors == {"transport", "other"}
Fault(why) == blame' = (blame \/ why # "transport")

\* The checks before the session, then openServiceTunnel.  What fails here
\* leaves no tunnel behind.
OpenTunnel ==
  /\ phase = "begin"
  /\ \/ /\ tunnels' = tunnels + 1
        /\ phase' = "connect"
        /\ UNCHANGED <<failure, blame>>
     \/ /\ \E why \in Errors : failure' = why /\ Fault(why)
        /\ phase' = "retry"
        /\ UNCHANGED tunnels
  /\ UNCHANGED <<req, attempt, next, moveAttempted, ok, left, dev, inbox, announced, got, result>>

\* Mutant: the tunnel of a service that does not answer stays open.
ConnectServiceLeaking ==
  /\ phase = "connect"
  /\ \/ /\ phase' = "SyncAllowed" /\ left' = Budget
        /\ dev' = "hello" /\ inbox' = <<>> /\ announced' = 0
        /\ UNCHANGED <<tunnels, failure, blame>>
     \/ /\ \E why \in Errors : failure' = why /\ Fault(why)
        /\ phase' = "retry"
        /\ UNCHANGED <<tunnels, left, dev, inbox, announced>>
  /\ UNCHANGED <<req, attempt, next, moveAttempted, ok, got, result>>

\* xf_rsd_connect_service.
ConnectService ==
  /\ phase = "connect"
  /\ \/ /\ phase' = "SyncAllowed" /\ left' = Budget
        /\ dev' = "hello" /\ inbox' = <<>> /\ announced' = 0
        /\ UNCHANGED <<tunnels, failure, blame>>
     \/ /\ \E why \in Errors : failure' = why /\ Fault(why)
        /\ phase' = "retry" /\ tunnels' = tunnels - 1
        /\ UNCHANGED <<left, dev, inbox, announced>>
  /\ UNCHANGED <<req, attempt, next, moveAttempted, ok, got, result>>

\* What follows an accepted message, and what follows a sent one.
AfterWait(wanted) ==
  CASE wanted = "SyncAllowed" -> "HostInfo"
    [] wanted = "ReadyForSync" -> "FinishedSyncingMetadata"
    [] OTHER -> "FileComplete"
AfterSend(name) ==
  CASE name = "HostInfo" -> "RequestingSync"
    [] name = "RequestingSync" -> "ReadyForSync"
    [] OTHER -> "AssetManifest"

\* Mutant: the deadline is not checked while messages arrive.
WaitForUnbounded ==
  /\ phase \in Waits /\ inbox # <<>>
  /\ inbox' = Tail(inbox)
  /\ LET name == Head(inbox)
         decision == DecisionForMessage(phase, name)
     IN \/ /\ decision = "accept" /\ name # "Partial"
           /\ phase' = AfterWait(phase)
           /\ UNCHANGED <<req, attempt, next, moveAttempted, ok, failure, left, tunnels,
                          blame, result>>
        \/ /\ decision = "reject" \/ name = "Partial"
           /\ Break("other") /\ UNCHANGED blame
        \/ /\ decision \in {"continue", "pong"} /\ name # "Partial"
           /\ UNCHANGED <<req, host, blame, result>>
  /\ UNCHANGED <<dev, announced, got>>

\* One iteration of waitFor's loop; a manifest is checked as soon as it is
\* accepted.  A Ping is answered; the answer fails like any other message.
WaitFor ==
  /\ phase \in Waits /\ inbox # <<>> /\ left > 0
  /\ inbox' = Tail(inbox)
  /\ LET name == Head(inbox)
         decision == DecisionForMessage(phase, name)
     IN \/ /\ decision = "accept" /\ name # "Partial"
           /\ phase' = AfterWait(phase)
           /\ left' = Budget
           /\ UNCHANGED <<req, attempt, next, moveAttempted, ok, failure, tunnels, blame, result>>
        \/ /\ decision = "reject" \/ (decision = "accept" /\ name = "Partial")
           /\ Break("other") /\ UNCHANGED blame
        \/ /\ decision \in {"continue", "pong"}
           /\ left' = left - 1
           /\ UNCHANGED <<req, attempt, phase, next, moveAttempted, ok, failure, tunnels,
                          blame, result>>
        \/ /\ decision = "pong"
           /\ Break("transport") /\ UNCHANGED blame
  /\ UNCHANGED <<dev, announced, got>>

\* The deadline of a waitFor: its own error, not a native one.
WaitExpired ==
  /\ phase \in Waits /\ left = 0
  /\ Break("other") /\ Fault("other")
  /\ UNCHANGED <<dev, inbox, announced, got>>

\* A read times out, at the latest after 12 s of silence, the connection
\* breaks, or what arrives is not a message.
ReceiveFails ==
  /\ phase \in Waits /\ left > 0
  /\ \E why \in Errors : Break(why) /\ Fault(why)
  /\ UNCHANGED <<dev, inbox, announced, got>>

\* The state in which the device waits for a message of the host, and the one
\* the message takes it to.  It ignores a message it does not wait for.
ReadyFor(name) ==
  CASE name = "HostInfo" -> "allowed"
    [] name = "RequestingSync" -> "hosted"
    [] name = "FinishedSyncingMetadata" -> "ready"
    [] OTHER -> "manifest"
Accepts(d, name) ==
  CASE d # ReadyFor(name) -> d
    [] name = "HostInfo" -> "hosted"
    [] name = "RequestingSync" -> "requested"
    [] name = "FinishedSyncingMetadata" -> "metadata"
    [] OTHER -> d

\* sendDictionary.  A send that fails may have delivered the message.  Before
\* HostInfo the authentication token is obtained, which fails without a
\* native error.
SendMessage ==
  /\ phase \in Sends
  /\ \/ /\ dev' = Accepts(dev, phase)
        /\ phase' = AfterSend(phase)
        /\ left' = Budget
        /\ UNCHANGED <<req, attempt, next, moveAttempted, ok, failure, tunnels, blame, result>>
     \/ /\ dev' \in {dev, Accepts(dev, phase)}
        /\ Break("transport") /\ UNCHANGED blame
     \/ /\ phase = "HostInfo"
        /\ dev' = dev
        /\ Break("other") /\ Fault("other")
  /\ UNCHANGED <<inbox, announced, got>>

\* Mutant: the flag is set after the message was sent.
SendFileCompleteLate ==
  /\ phase = "FileComplete" /\ next <= req.pairs
  /\ \/ /\ dev' = Accepts(dev, "FileComplete")
        /\ got' = Append(got, next)
        /\ next' = next + 1 /\ moveAttempted' = TRUE
        /\ UNCHANGED <<attempt, phase, ok, failure, left, tunnels, blame>>
     \/ /\ \/ dev' = Accepts(dev, "FileComplete") /\ got' = Append(got, next)
           \/ UNCHANGED <<dev, got>>
        /\ phase' = "close" /\ failure' = "transport"
        /\ UNCHANGED <<attempt, next, moveAttempted, ok, left, tunnels, blame>>
  /\ UNCHANGED <<req, inbox, announced, result>>

\* One FileComplete.  The flag is set before the send, a failed or partial
\* one included.
SendFileComplete ==
  /\ phase = "FileComplete" /\ next <= req.pairs
  /\ moveAttempted' = TRUE
  /\ \/ /\ dev' = Accepts(dev, "FileComplete")
        /\ got' = Append(got, next)
        /\ next' = next + 1
        /\ UNCHANGED <<phase, failure>>
     \/ /\ \/ dev' = Accepts(dev, "FileComplete") /\ got' = Append(got, next)
           \/ UNCHANGED <<dev, got>>
        /\ phase' = "close" /\ failure' = "transport"
        /\ UNCHANGED next
  /\ UNCHANGED <<req, attempt, ok, left, tunnels, inbox, announced, blame, result>>

\* The checks before a FileComplete fail: the link, the absence of the
\* destination, the journal.  Some of them fail with the AFC connection.
CheckFails ==
  /\ phase = "FileComplete" /\ next <= req.pairs
  /\ \E why \in Errors : Break(why) /\ Fault(why)
  /\ UNCHANGED <<dev, inbox, announced, got>>

AllSent ==
  /\ phase = "FileComplete" /\ next > req.pairs
  /\ ok' = TRUE
  /\ phase' = "close"
  /\ UNCHANGED <<req, attempt, next, moveAttempted, failure, left, tunnels, dev, inbox,
                 announced, got, blame, result>>

\* closeATC, closeKnownFile: on every path.
CloseStream ==
  /\ phase = "close"
  /\ tunnels' = tunnels - 1
  /\ dev' = "closed"
  /\ inbox' = <<>>
  /\ phase' = IF ok /\ req.linking THEN "VerifyLink" ELSE "retry"
  /\ UNCHANGED <<req, attempt, next, moveAttempted, ok, failure, left, announced, got, blame,
                 result>>

\* runATCOnce looks the link up after the session, for 15 s.
VerifyLink ==
  /\ phase = "VerifyLink"
  /\ phase' = "retry"
  /\ \/ UNCHANGED <<ok, failure, blame>>
     \/ /\ \E why \in Errors : failure' = why /\ Fault(why)
        /\ ok' = FALSE
  /\ UNCHANGED <<req, attempt, next, moveAttempted, left, tunnels, dev, inbox, announced, got,
                 result>>

\* The tail of retryATCPreparation's loop.
Retry ==
  /\ phase = "retry" /\ ~ok /\ ShouldRetry
  /\ attempt' = attempt + 1
  /\ phase' = "begin" /\ next' = 1 /\ moveAttempted' = FALSE /\ failure' = "none"
  /\ blame' = FALSE
  /\ UNCHANGED <<req, ok, left, tunnels, dev, inbox, announced, got, result>>

Finish ==
  /\ phase = "retry" /\ (ok \/ ~ShouldRetry)
  /\ phase' = "done"
  /\ result' = IF ok THEN "ok" ELSE IF moveAttempted THEN "failed" ELSE "untouched"
  /\ UNCHANGED <<req, attempt, next, moveAttempted, ok, failure, left, tunnels, dev, inbox,
                 announced, got, blame>>

-----------------------------------------------------------------------------
(***************************************************************************)
(* The device                                                              *)
(***************************************************************************)
\* What spoils the session: a refusal or an end at any time and, once
\* ReadyForSync was announced, a cancellation or a manifest without all assets.
\* A cancellation before is what is left of an earlier session.
Spoils(name) ==
  \/ name \in {"Refused", "SyncFinished"}
  \/ name \in {"Cancelled", "Partial"} /\ announced >= 2

Say(name) ==
  /\ dev # "closed" /\ Len(inbox) < MaxInbox
  /\ inbox' = Append(inbox, name)
  /\ announced' = IF announced < 3 /\ name = Announcements[announced + 1]
                  THEN announced + 1 ELSE announced
  /\ blame' = (blame \/ Spoils(name))
  /\ UNCHANGED <<req, host, got, result>>

\* The device proceeds, and says so.
Allow == dev = "hello" /\ Say("SyncAllowed") /\ dev' = "allowed"
BeReady == dev = "requested" /\ Say("ReadyForSync") /\ dev' = "ready"
ListAssets == dev = "metadata" /\ Say("AssetManifest") /\ dev' = "manifest"

\* Anything else, at any time: pings, what is left of an earlier session,
\* refusals and cancellations, repetitions, and announcements that come before
\* the message they are the answer to.
Chatter ==
  /\ \E name \in Messages :
       /\ ~ \/ dev = "hello" /\ name = "SyncAllowed"
            \/ dev = "requested" /\ name = "ReadyForSync"
            \/ dev = "metadata" /\ name = "AssetManifest"
       /\ Say(name)
  /\ UNCHANGED dev

Host ==
  \/ OpenTunnel \/ ConnectService \/ WaitFor \/ WaitExpired \/ ReceiveFails
  \/ SendMessage \/ SendFileComplete \/ CheckFails \/ AllSent
  \/ CloseStream \/ VerifyLink \/ Retry \/ Finish

Device == Allow \/ BeReady \/ ListAssets \/ Chatter

Next == Host \/ Device

\* The worker thread runs and every read has a deadline; the device owes
\* nothing.
Spec == Init /\ [][Next]_vars /\ WF_vars(Host)

-----------------------------------------------------------------------------
(***************************************************************************)
(* Properties                                                              *)
(***************************************************************************)
\* Every variable holds a value of its type; in particular there are at most
\* three attempts and a request never hands over more moves than it has.
TypeOK ==
  /\ req \in Request
  /\ attempt \in 1..MaxAttempts /\ phase \in Phases /\ next \in 1..(MaxPairs + 1)
  /\ moveAttempted \in BOOLEAN /\ ok \in BOOLEAN
  /\ failure \in {"none", "transport", "other"} /\ left \in 0..Budget /\ tunnels \in 0..1
  /\ dev \in DevStates /\ inbox \in Seq(Messages) /\ announced \in 0..3 /\ blame \in BOOLEAN
  /\ got \in Seq(1..MaxPairs)
  /\ result \in {"running", "ok", "failed", "untouched"}

\* How many announcements the device's state stands for: a device that announces
\* only what it is has announced as many.
Standing(d) ==
  CASE d \in {"closed", "hello"} -> 0
    [] d \in {"allowed", "hosted", "requested"} -> 1
    [] d \in {"ready", "metadata"} -> 2
    [] OTHER -> 3

\* "ReadyForSync is required before metadata.  A manifest cannot replace it":
\* whatever the device sends when, the host introduces itself only after
\* SyncAllowed, sends its metadata only after a ReadyForSync that followed it, and
\* a FileComplete only after a complete manifest that followed both, all three
\* of this session.  The host knows of the device only what it says, so a message
\* reaches a device that does not wait for it only if the device announced more
\* than it was ready for, such as a manifest before it had the metadata.
InProtocol ==
  /\ phase \in {"HostInfo", "RequestingSync", "ReadyForSync"} => announced >= 1
  /\ phase \in {"FinishedSyncingMetadata", "AssetManifest"} => announced >= 2
  /\ phase = "FileComplete" => announced = 3
  /\ phase \in Sends \cup {"FileComplete"} =>
       dev = ReadyFor(phase) \/ announced > Standing(dev)

\* "Each attempt closes its stream and tunnel": there is one tunnel at a time,
\* and none is left when the request ends.
NoTunnelLeft == tunnels <= 1 /\ (result # "running" => tunnels = 0)

\* A request that failed before its first move, although only the transport
\* went wrong in its last attempt, was tried three times.  In particular a
\* cancellation left over from an earlier session does not end it earlier.
TransportIsRetried ==
  result = "untouched" /\ req.fresh /\ ~blame => attempt = MaxAttempts

\* "Un timeout despues de intentar FileComplete no autoriza repetir el
\* movimiento": over all attempts the device is handed the moves in order and
\* each at most once, and a request that reports that nothing was sent is right.
MS == INSTANCE MoveSession WITH asked <- req.pairs
MovesOnce == MS!Spec

\* A request ends, with a device that is silent or that never stops sending.
RequestEnds == <>(result # "running")
=============================================================================
