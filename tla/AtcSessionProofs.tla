-------------------------- MODULE AtcSessionProofs --------------------------
(***************************************************************************)
(* AtcSession for every number of moves, deadline and behaviour of the     *)
(* device: it implements MoveSession, keeps the protocol, gives its tunnel *)
(* back, and repeats what only the transport failed.                       *)
(***************************************************************************)
EXTENDS AtcSession, TLAPS

\* Before the first FileComplete of an attempt, and after its last.
EarlyPhases == {"begin", "connect"} \cup Waits \cup Sends
LatePhases == {"close", "VerifyLink", "retry", "done"}

\* The types the argument needs.
RequestType ==
  /\ req.pairs \in Nat /\ got \in Seq(Nat) /\ next \in Nat
  /\ phase \in EarlyPhases \cup {"FileComplete"} \cup LatePhases

\* The flag covers every handed-over move, of this attempt and of earlier
\* ones; while moves are sent, the next one is the one after the last handed
\* over; only an attempt that handed over all of them is successful.
SessionInv ==
  /\ result = "running" <=> phase # "done"
  /\ ~moveAttempted => got = <<>>
  /\ phase \in EarlyPhases => next = 1 /\ ~moveAttempted /\ ~ok
  /\ phase = "FileComplete" => ~ok /\ next = Len(got) + 1 /\ next <= req.pairs + 1
  /\ ok => Len(got) = req.pairs

Inv == RequestType /\ SessionInv

\* Everything the abstract specification sees stays as it is.
Invisible == UNCHANGED <<req, got, result>>

-----------------------------------------------------------------------------
\* Init establishes the invariant and is an initial state of MoveSession.
LEMMA SessionInit == Init => Inv /\ MS!Init
<1> SUFFICES ASSUME Init PROVE Inv /\ MS!Init
  OBVIOUS
<1>1. req.pairs \in Nat
  BY PairsAssumption DEF Init, Request
<1>2. /\ next = 1 /\ got = <<>> /\ moveAttempted = FALSE /\ ok = FALSE
      /\ phase = "begin" /\ result = "running"
  BY DEF Init
<1>3. RequestType
  BY <1>1, <1>2 DEF RequestType, EarlyPhases
<1>4. SessionInv
  BY <1>2 DEF SessionInv
<1> QED BY <1>1, <1>2, <1>3, <1>4 DEF Inv, MS!Init

\* The steps that neither send a move nor end the request are invisible, and
\* preserve the invariant.
LEMMA HostSteps ==
  ASSUME Inv,
         OpenTunnel \/ ConnectService \/ WaitFor \/ WaitExpired \/ ReceiveFails
           \/ SendMessage \/ CheckFails \/ AllSent \/ CloseStream \/ VerifyLink \/ Retry
  PROVE  Inv' /\ Invisible
<1> USE DEF Inv, RequestType, SessionInv, EarlyPhases, LatePhases, Waits, Sends, Invisible
<1>1. CASE OpenTunnel
  BY <1>1 DEF OpenTunnel
<1>2. CASE ConnectService
  BY <1>2 DEF ConnectService
<1>3. CASE WaitFor
  BY <1>3 DEF WaitFor, Break, AfterWait
<1>4. CASE WaitExpired \/ ReceiveFails
  BY <1>4 DEF WaitExpired, ReceiveFails, Break
<1>5. CASE SendMessage
  BY <1>5 DEF SendMessage, Break, AfterSend
<1>6. CASE CheckFails
  BY <1>6 DEF CheckFails, Break
<1>7. CASE AllSent
  BY <1>7 DEF AllSent
<1>8. CASE CloseStream
  BY <1>8 DEF CloseStream
<1>9. CASE VerifyLink
  <2>1. /\ phase = "VerifyLink" /\ phase' = "retry" /\ (ok' => ok)
        /\ UNCHANGED <<req, next, moveAttempted, got, result>>
    BY <1>9 DEF VerifyLink
  <2>2. RequestType'
    BY <2>1
  <2>3. SessionInv'
    BY <2>1
  <2> QED BY <2>1, <2>2, <2>3
<1>10. CASE Retry
  BY <1>10 DEF Retry, ShouldRetry
<1> QED BY <1>1, <1>2, <1>3, <1>4, <1>5, <1>6, <1>7, <1>8, <1>9, <1>10

\* The device's own steps touch nothing the invariant speaks of.
LEMMA DeviceSteps == ASSUME Inv, Device PROVE Inv' /\ Invisible
BY DEF Device, Allow, BeReady, ListAssets, Chatter, Say, host,
       Inv, RequestType, SessionInv, EarlyPhases, LatePhases, Waits, Sends, Invisible

\* A FileComplete hands over the next move, if it reaches the device at all.
LEMMA SendStep ==
  ASSUME Inv, SendFileComplete
  PROVE  Inv' /\ (MS!HandOver \/ Invisible)
<1>1. /\ phase = "FileComplete" /\ next <= req.pairs /\ next = Len(got) + 1 /\ ~ok
      /\ result = "running" /\ UNCHANGED <<req, ok, result>> /\ moveAttempted' = TRUE
  BY DEF SendFileComplete, Inv, SessionInv
<1>2. next \in Nat /\ req.pairs \in Nat /\ got \in Seq(Nat)
  BY DEF Inv, RequestType
<1>3. Len(Append(got, next)) = Len(got) + 1 /\ Append(got, next) \in Seq(Nat) /\ Len(got) \in Nat
  BY <1>2
<1>4. CASE /\ phase' = "close" /\ next' = next
           /\ got' = got \/ got' = Append(got, next)
  <2>1. RequestType'
    BY <1>1, <1>2, <1>3, <1>4 DEF RequestType, LatePhases
  <2>2. SessionInv'
    BY <1>1, <1>4 DEF SessionInv, EarlyPhases, Waits, Sends
  <2>3. MS!HandOver \/ Invisible
    BY <1>1, <1>2, <1>3, <1>4 DEF Invisible, MS!HandOver
  <2> QED BY <2>1, <2>2, <2>3 DEF Inv
<1>5. CASE got' = Append(got, next) /\ next' = next + 1 /\ phase' = phase
  BY <1>1, <1>2, <1>3, <1>5
     DEF Inv, RequestType, SessionInv, EarlyPhases, LatePhases, Waits, Sends, MS!HandOver
<1> QED BY <1>4, <1>5 DEF SendFileComplete

\* The result is what MoveSession allows: ok after all moves, untouched only
\* when nothing was handed over.
LEMMA FinishStep == ASSUME Inv, Finish PROVE Inv' /\ MS!End
BY DEF Finish, Inv, RequestType, SessionInv, EarlyPhases, LatePhases, Waits, Sends, MS!End

\* "Un timeout despues de intentar FileComplete no autoriza repetir el
\* movimiento", for every number of moves and attempts the policy allows: over
\* all attempts of retryATCPreparation the device is handed the moves in order
\* and each at most once, and what the request reports is right.
THEOREM MovesOnceAlways == Spec => MovesOnce
<1>1. Inv /\ [Next]_vars => Inv' /\ [MS!Next]_<<req.pairs, got, result>>
  <2> SUFFICES ASSUME Inv, [Next]_vars
               PROVE  Inv' /\ [MS!Next]_<<req.pairs, got, result>>
    OBVIOUS
  <2>1. CASE UNCHANGED vars
    BY <2>1 DEF vars, host, Inv, RequestType, SessionInv
  <2>2. CASE Invisible /\ Inv'
    BY <2>2 DEF Invisible
  <2>3. CASE SendFileComplete
    BY <2>3, SendStep DEF Invisible, MS!Next
  <2>4. CASE Finish
    BY <2>4, FinishStep DEF MS!Next
  <2> QED BY <2>1, <2>2, <2>3, <2>4, HostSteps, DeviceSteps DEF Next, Host
<1> QED BY <1>1, SessionInit, PTL DEF Spec, MovesOnce, MS!Spec

-----------------------------------------------------------------------------
(***************************************************************************)
(* An attempt keeps the order of the protocol and gives its tunnel back.   *)
(* The host learns of the device from the messages only, which it reads in *)
(* the order they were sent: what it may still come to accept was          *)
(* announced after what it has accepted.                                   *)
(***************************************************************************)
Has(name) == \E i \in 1..Len(inbox) : inbox[i] = name
Ahead(a, b) == \E i, j \in 1..Len(inbox) : i < j /\ inbox[i] = a /\ inbox[j] = b
AheadOf(a, b, c) ==
  \E i, j, k \in 1..Len(inbox) : i < j /\ j < k /\ inbox[i] = a /\ inbox[j] = b /\ inbox[k] = c

\* A tunnel is open from openServiceTunnel to the close of the stream.
TunnelPhases == {"connect", "FileComplete", "close"} \cup Waits \cup Sends
TunnelsByPhase ==
  /\ tunnels = IF phase \in TunnelPhases THEN 1 ELSE 0
  /\ result # "running" => phase = "done"

\* After SyncAllowed was accepted, and after ReadyForSync was.
Allowed == {"HostInfo", "RequestingSync", "ReadyForSync"}
Ready == {"FinishedSyncingMetadata", "AssetManifest"}

\* How far the host's messages may have taken the device.
DevByPhase ==
  /\ phase \in {"SyncAllowed", "HostInfo"} => dev \in {"hello", "allowed"}
  /\ phase = "RequestingSync" => dev = "hosted"
  /\ phase \in {"ReadyForSync", "FinishedSyncingMetadata"} => dev \in {"requested", "ready"}
  /\ phase \in {"AssetManifest", "FileComplete"} =>
       dev \in {"requested", "ready", "metadata", "manifest"}
  /\ dev = "hello" => announced = 0

\* The host may come to accept ReadyForSync; it may come to read a message while
\* it waits for the manifest.
MayBeReady ==
  \/ phase = "SyncAllowed" /\ Ahead("SyncAllowed", "ReadyForSync")
  \/ phase \in Allowed /\ Has("ReadyForSync")
MayDecide(name) ==
  \/ phase = "SyncAllowed" /\ AheadOf("SyncAllowed", "ReadyForSync", name)
  \/ phase \in Allowed /\ Ahead("ReadyForSync", name)
  \/ phase \in Ready /\ Has(name)

\* What was accepted, or may be, was announced.
UnderWay ==
  /\ phase = "SyncAllowed" /\ Has("SyncAllowed") => announced >= 1
  /\ phase \in Allowed => announced >= 1
  /\ MayBeReady \/ phase \in Ready => announced >= 2
  /\ MayDecide("AssetManifest") \/ phase = "FileComplete" => announced = 3

ProtocolInv == TypeOK /\ TunnelsByPhase /\ DevByPhase /\ UnderWay
-----------------------------------------------------------------------------
(* The inbox.                                                              *)

\* Reading takes the first message; the others keep their order.
LEMMA Read ==
  ASSUME inbox \in Seq(Messages), inbox # <<>>, inbox' = Tail(inbox)
  PROVE  /\ inbox' \in Seq(Messages) /\ Head(inbox) = inbox[1] /\ inbox[1] \in Messages
         /\ \A name : Has(name)' => Has(name)
         /\ Has(inbox[1])
         /\ \A i \in 1..Len(inbox') : inbox'[i] = inbox[i + 1] /\ i + 1 \in 1..Len(inbox)
<1>1. /\ inbox' \in Seq(Messages) /\ Head(inbox) = inbox[1] /\ inbox[1] \in Messages
      /\ 1 \in 1..Len(inbox)
      /\ \A i \in 1..Len(inbox') : inbox'[i] = inbox[i + 1] /\ i + 1 \in 1..Len(inbox)
  OBVIOUS
<1> QED BY <1>1 DEF Has

\* What the device says comes last.
LEMMA Said ==
  ASSUME inbox \in Seq(Messages), NEW name \in Messages, inbox' = Append(inbox, name)
  PROVE  /\ inbox' \in Seq(Messages) /\ Len(inbox) \in Nat /\ Len(inbox') = Len(inbox) + 1
         /\ \A i \in 1..Len(inbox) : inbox'[i] = inbox[i]
         /\ inbox'[Len(inbox) + 1] = name
         /\ \A n : Has(n)' => Has(n) \/ n = name
<1>1. /\ inbox' \in Seq(Messages) /\ Len(inbox) \in Nat /\ Len(inbox') = Len(inbox) + 1
      /\ \A i \in 1..Len(inbox) : inbox'[i] = inbox[i]
      /\ inbox'[Len(inbox) + 1] = name
  OBVIOUS
<1>2. ASSUME NEW n, Has(n)', n # name PROVE Has(n)
  <2>1. PICK i \in 1..(Len(inbox) + 1) : inbox'[i] = n
    BY <1>1, <1>2 DEF Has
  <2>2. i \in 1..Len(inbox)
    BY <1>1, <1>2, <2>1
  <2> QED BY <1>1, <2>1, <2>2 DEF Has
<1> QED BY <1>1, <1>2

\* Reading takes a message from the front only.
LEMMA ReadKeeps ==
  ASSUME inbox \in Seq(Messages), inbox # <<>>, inbox' = Tail(inbox)
  PROVE  /\ \A a, b : Ahead(a, b)' => Ahead(a, b)
         /\ \A a, b, c : AheadOf(a, b, c)' => AheadOf(a, b, c)
         /\ \A b : Has(b)' => Ahead(inbox[1], b)
         /\ \A b, c : Ahead(b, c)' => AheadOf(inbox[1], b, c)
<1>1. /\ \A i \in 1..Len(inbox') : inbox'[i] = inbox[i + 1] /\ i + 1 \in 1..Len(inbox)
      /\ 1 \in 1..Len(inbox) /\ Len(inbox') \in Nat
  BY Read
<1>2. ASSUME NEW a, NEW b, Ahead(a, b)' PROVE Ahead(a, b) /\ AheadOf(inbox[1], a, b)
  <2>1. PICK i \in 1..Len(inbox'), j \in 1..Len(inbox') :
          i < j /\ inbox'[i] = a /\ inbox'[j] = b
    BY <1>2 DEF Ahead
  <2>2. /\ i + 1 \in 1..Len(inbox) /\ j + 1 \in 1..Len(inbox) /\ 1 < i + 1 /\ i + 1 < j + 1
        /\ inbox[i + 1] = a /\ inbox[j + 1] = b
    BY <1>1, <2>1
  <2>3. Ahead(a, b)
    BY <2>2 DEF Ahead
  <2>4. AheadOf(inbox[1], a, b)
    BY <1>1, <2>2 DEF AheadOf
  <2> QED BY <2>3, <2>4
<1>3. ASSUME NEW b, Has(b)' PROVE Ahead(inbox[1], b)
  <2>1. PICK i \in 1..Len(inbox') : inbox'[i] = b
    BY <1>3 DEF Has
  <2>2. i + 1 \in 1..Len(inbox) /\ 1 < i + 1 /\ inbox[i + 1] = b
    BY <1>1, <2>1
  <2> QED BY <1>1, <2>2 DEF Ahead
<1>4. ASSUME NEW a, NEW b, NEW c, AheadOf(a, b, c)' PROVE AheadOf(a, b, c)
  <2>1. PICK i \in 1..Len(inbox'), j \in 1..Len(inbox'), k \in 1..Len(inbox') :
          i < j /\ j < k /\ inbox'[i] = a /\ inbox'[j] = b /\ inbox'[k] = c
    BY <1>4 DEF AheadOf
  <2>2. /\ i + 1 \in 1..Len(inbox) /\ j + 1 \in 1..Len(inbox) /\ k + 1 \in 1..Len(inbox)
        /\ i + 1 < j + 1 /\ j + 1 < k + 1
        /\ inbox[i + 1] = a /\ inbox[j + 1] = b /\ inbox[k + 1] = c
    BY <1>1, <2>1
  <2> QED BY <2>2 DEF AheadOf
<1> QED BY <1>2, <1>3, <1>4

\* A new message is behind all others.
LEMMA SaidBehind ==
  ASSUME inbox \in Seq(Messages), NEW name \in Messages, inbox' = Append(inbox, name)
  PROVE  /\ \A a, b : Ahead(a, b)' => Ahead(a, b) \/ (b = name /\ Has(a))
         /\ \A a, b, c : AheadOf(a, b, c)' => AheadOf(a, b, c) \/ (c = name /\ Ahead(a, b))
<1>1. /\ Len(inbox) \in Nat /\ Len(inbox') = Len(inbox) + 1
      /\ \A i \in 1..Len(inbox) : inbox'[i] = inbox[i]
      /\ inbox'[Len(inbox) + 1] = name
  BY Said
<1>2. ASSUME NEW a, NEW b, Ahead(a, b)' PROVE Ahead(a, b) \/ (b = name /\ Has(a))
  <2>1. PICK i \in 1..Len(inbox'), j \in 1..Len(inbox') :
          i < j /\ inbox'[i] = a /\ inbox'[j] = b
    BY <1>2 DEF Ahead
  <2>2. i \in 1..Len(inbox) /\ inbox[i] = a
    BY <1>1, <2>1
  <2>3. CASE j \in 1..Len(inbox)
    <3>1. inbox[j] = b
      BY <1>1, <2>1, <2>3
    <3> QED BY <2>1, <2>2, <2>3, <3>1 DEF Ahead
  <2>4. CASE j = Len(inbox) + 1
    BY <1>1, <2>1, <2>2, <2>4 DEF Has
  <2> QED BY <1>1, <2>1, <2>3, <2>4
<1>3. ASSUME NEW a, NEW b, NEW c, AheadOf(a, b, c)'
      PROVE  AheadOf(a, b, c) \/ (c = name /\ Ahead(a, b))
  <2>1. PICK i \in 1..Len(inbox'), j \in 1..Len(inbox'), k \in 1..Len(inbox') :
          i < j /\ j < k /\ inbox'[i] = a /\ inbox'[j] = b /\ inbox'[k] = c
    BY <1>3 DEF AheadOf
  <2>2. i \in 1..Len(inbox) /\ inbox[i] = a /\ j \in 1..Len(inbox) /\ inbox[j] = b
    BY <1>1, <2>1
  <2>3. CASE k \in 1..Len(inbox)
    <3>1. inbox[k] = c
      BY <1>1, <2>1, <2>3
    <3> QED BY <2>1, <2>2, <2>3, <3>1 DEF AheadOf
  <2>4. CASE k = Len(inbox) + 1
    BY <1>1, <2>1, <2>2, <2>4 DEF Ahead
  <2> QED BY <1>1, <2>1, <2>3, <2>4
<1> QED BY <1>2, <1>3

\* A message is accepted only by the wait that is for it.
LEMMA AcceptedIsWanted ==
  ASSUME NEW wanted, NEW name, DecisionForMessage(wanted, name) = "accept", name # "Partial"
  PROVE  name = wanted
BY DEF DecisionForMessage
-----------------------------------------------------------------------------
(* The steps.                                                              *)

LEMMA ProtocolInit == Init => ProtocolInv
<1> SUFFICES ASSUME Init PROVE ProtocolInv
  OBVIOUS
<1>1. /\ phase = "begin" /\ dev = "closed" /\ inbox = <<>> /\ announced = 0 /\ tunnels = 0 /\ result = "running"
  BY DEF Init
<1>2. TypeOK
  <2>1. /\ left \in 0..Budget /\ next \in 1..(MaxPairs + 1) /\ attempt \in 1..3 /\ tunnels \in 0..1
        /\ announced \in 0..3
    BY PairsAssumption, BudgetAssumption DEF Init
  <2>2. phase \in Phases /\ dev \in DevStates
    BY <1>1 DEF Phases, DevStates
  <2>3. req \in Request /\ inbox \in Seq(Messages) /\ got \in Seq(1..MaxPairs)
    BY DEF Init
  <2> QED BY <2>1, <2>2, <2>3 DEF Init, TypeOK, MaxAttempts
<1>3. TunnelsByPhase /\ DevByPhase
  BY <1>1 DEF TunnelsByPhase, TunnelPhases, Waits, Sends, DevByPhase
<1>4. UnderWay
  BY <1>1 DEF UnderWay, MayBeReady, MayDecide, Allowed, Ready
<1> QED BY <1>1, <1>2, <1>3, <1>4 DEF ProtocolInv

\* A fault is a fault or not.
LEMMA FaultTyped ==
  ASSUME NEW why, Fault(why)
  PROVE  blame' \in BOOLEAN
BY DEF Fault

\* The types, and the tunnel, for the host's steps.
LEMMA HostTypes ==
  ASSUME ProtocolInv, Host
  PROVE  TypeOK' /\ TunnelsByPhase'
<1> USE PairsAssumption, BudgetAssumption
    DEF ProtocolInv, TypeOK, TunnelsByPhase, TunnelPhases, Phases, Waits, Sends, Errors,
        Request, MaxAttempts
<1>1. CASE OpenTunnel
  <2>1. blame' \in BOOLEAN
    BY <1>1, FaultTyped DEF OpenTunnel
  <2>2. failure' \in {"none", "transport", "other"}
    BY <1>1 DEF OpenTunnel
  <2>3. tunnels = 0
    BY <1>1 DEF OpenTunnel
  <2>4. (phase' = "connect" /\ tunnels' = 1) \/ (phase' = "retry" /\ tunnels' = 0)
    BY <1>1, <2>3 DEF OpenTunnel
  <2> QED BY <1>1, <2>1, <2>2, <2>4 DEF OpenTunnel
<1>2. CASE ConnectService
  <2>1. blame' \in BOOLEAN
    BY <1>2, FaultTyped DEF ConnectService
  <2>2. failure' \in {"none", "transport", "other"}
    BY <1>2 DEF ConnectService
  <2>3. tunnels = 1
    BY <1>2 DEF ConnectService
  <2>4. (phase' = "SyncAllowed" /\ tunnels' = 1) \/ (phase' = "retry" /\ tunnels' = 0)
    BY <1>2, <2>3 DEF ConnectService
  <2>5. dev' \in DevStates /\ inbox' \in Seq(Messages)
    <3>1. "hello" \in DevStates /\ <<>> \in Seq(Messages)
      BY DEF DevStates
    <3>2. (dev' = dev /\ inbox' = inbox) \/ (dev' = "hello" /\ inbox' = <<>>)
      BY <1>2 DEF ConnectService
    <3> QED BY <3>1, <3>2
  <2>6. left' \in 0..Budget /\ announced' \in 0..3
    BY <1>2 DEF ConnectService
  <2> QED BY <1>2, <2>1, <2>2, <2>4, <2>5, <2>6 DEF ConnectService
<1>3. CASE WaitFor
  <2>1. inbox' \in Seq(Messages)
    BY <1>3, Read DEF WaitFor
  <2>2. phase \in Waits /\ AfterWait(phase) \in Phases \cap TunnelPhases
    BY <1>3 DEF WaitFor, AfterWait
  <2>3. /\ phase' \in {phase, AfterWait(phase), "close"} /\ left > 0
        /\ left' \in {Budget, left, left - 1}
        /\ failure' \in {failure, "transport", "other"}
    BY <1>3 DEF WaitFor, Break
  <2>4. UNCHANGED <<req, attempt, next, moveAttempted, ok, tunnels, blame, result, dev, announced,
                  got>>
    BY <1>3 DEF WaitFor, Break
  <2>5. left' \in 0..Budget
    BY <2>3
  <2> QED BY <2>1, <2>2, <2>3, <2>4, <2>5
<1>4. CASE WaitExpired \/ ReceiveFails
  <2>1. blame' \in BOOLEAN
    BY <1>4, FaultTyped DEF WaitExpired, ReceiveFails
  <2> QED BY <1>4, <2>1 DEF WaitExpired, ReceiveFails, Break
<1>5. CASE SendMessage
  <2>1. blame' \in BOOLEAN
    BY <1>5, FaultTyped DEF SendMessage
  <2>2. dev' \in DevStates
    BY <1>5 DEF SendMessage, Accepts, DevStates
  <2>3. /\ left' \in 0..Budget /\ failure' \in {"none", "transport", "other"}
        /\ phase' \in Phases /\ phase' \in TunnelPhases /\ phase \in TunnelPhases
    BY <1>5 DEF SendMessage, Break, AfterSend
  <2>4. UNCHANGED <<req, attempt, next, moveAttempted, ok, tunnels, result, inbox, announced, got>>
    BY <1>5 DEF SendMessage, Break
  <2> QED BY <1>5, <2>1, <2>2, <2>3, <2>4 DEF SendMessage
<1>6. CASE SendFileComplete
  <2>1. next \in 1..MaxPairs
    BY <1>6 DEF SendFileComplete
  <2>2. Append(got, next) \in Seq(1..MaxPairs)
    BY <2>1
  <2>3. dev' \in DevStates
    BY <1>6 DEF SendFileComplete, Accepts, DevStates
  <2>4. next' = next \/ next' = next + 1
    BY <1>6 DEF SendFileComplete
  <2>5. next' \in 1..(MaxPairs + 1)
    BY <2>1, <2>4
  <2>6. got' \in Seq(1..MaxPairs)
    BY <1>6, <2>2 DEF SendFileComplete
  <2>7. /\ moveAttempted' = TRUE /\ failure' \in {failure, "transport"}
        /\ phase = "FileComplete" /\ phase' \in {"FileComplete", "close"}
    BY <1>6 DEF SendFileComplete
  <2>8. UNCHANGED <<req, attempt, ok, left, tunnels, inbox, announced, blame, result>>
    BY <1>6 DEF SendFileComplete
  <2> QED BY <2>3, <2>5, <2>6, <2>7, <2>8
<1>7. CASE CheckFails
  <2>1. blame' \in BOOLEAN
    BY <1>7, FaultTyped DEF CheckFails
  <2> QED BY <1>7, <2>1 DEF CheckFails, Break
<1>8. CASE AllSent
  BY <1>8 DEF AllSent
<1>9. CASE CloseStream
  BY <1>9 DEF CloseStream, DevStates
<1>10. CASE VerifyLink
  <2>1. blame' \in BOOLEAN
    BY <1>10, FaultTyped DEF VerifyLink
  <2> QED BY <1>10, <2>1 DEF VerifyLink
<1>11. CASE Retry
  <2>1. attempt' = attempt + 1 /\ attempt < 3 /\ attempt \in 1..3
    BY <1>11 DEF Retry, ShouldRetry
  <2>2. attempt' \in 1..3
    BY <2>1
  <2>3. /\ phase = "retry" /\ phase' = "begin" /\ next' = 1 /\ moveAttempted' = FALSE
        /\ failure' = "none" /\ blame' = FALSE
        /\ UNCHANGED <<req, ok, left, tunnels, dev, inbox, announced, got, result>>
    BY <1>11 DEF Retry
  <2>4. next' \in 1..(MaxPairs + 1)
    BY <2>3
  <2>5. tunnels = 0 /\ result = "running"
    BY <2>3
  <2> QED BY <2>2, <2>3, <2>4, <2>5
<1>12. CASE Finish
  BY <1>12 DEF Finish
<1> QED BY <1>1, <1>2, <1>3, <1>4, <1>5, <1>6, <1>7, <1>8, <1>9, <1>10, <1>11, <1>12 DEF Host

\* Where the protocol has no expectation of the device.
Apart == {"begin", "connect", "close", "VerifyLink", "retry", "done"}

\* The host leaves the protocol.
LEMMA LeaveStep ==
  ASSUME ProtocolInv, phase' \in Apart, UNCHANGED <<dev, announced>>
  PROVE  DevByPhase' /\ UnderWay'
BY DEF ProtocolInv, DevByPhase, UnderWay, MayBeReady, MayDecide, Allowed, Ready, Apart

\* Reading brings nothing new into sight: what is read after an accepted message
\* was behind it before.
LEMMA WaitSees ==
  ASSUME ProtocolInv, WaitFor
  PROVE  (MayBeReady' => MayBeReady) /\ \A name : MayDecide(name)' => MayDecide(name)
<1>1. inbox \in Seq(Messages) /\ inbox # <<>> /\ inbox' = Tail(inbox) /\ phase \in Waits
  BY DEF ProtocolInv, TypeOK, WaitFor
<1>2. /\ \A a, b : Ahead(a, b)' => Ahead(a, b)
      /\ \A a, b, c : AheadOf(a, b, c)' => AheadOf(a, b, c)
      /\ \A b : Has(b)' => Ahead(inbox[1], b)
      /\ \A b, c : Ahead(b, c)' => AheadOf(inbox[1], b, c)
      /\ \A b : Has(b)' => Has(b)
      /\ Head(inbox) = inbox[1]
  BY <1>1, Read, ReadKeeps
<1>3. CASE phase' = phase \/ phase' = "close"
  BY <1>2, <1>3 DEF MayBeReady, MayDecide, Allowed, Ready
<1>4. CASE phase' = AfterWait(phase) /\ inbox[1] = phase
  BY <1>1, <1>2, <1>4 DEF MayBeReady, MayDecide, Allowed, Ready, AfterWait, Waits
<1> QED BY <1>2, <1>3, <1>4, AcceptedIsWanted DEF WaitFor, Break

LEMMA WaitStep ==
  ASSUME ProtocolInv, WaitFor
  PROVE  DevByPhase' /\ UnderWay'
<1>1. /\ inbox \in Seq(Messages) /\ inbox # <<>> /\ inbox' = Tail(inbox)
      /\ UNCHANGED <<dev, announced>> /\ phase \in Waits
  BY DEF ProtocolInv, TypeOK, WaitFor
<1>2. Has(inbox[1]) /\ Head(inbox) = inbox[1] /\ \A name : Has(name)' => Has(name)
  BY <1>1, Read
<1>3. (MayBeReady' => MayBeReady) /\ \A name : MayDecide(name)' => MayDecide(name)
  BY WaitSees
<1>4. CASE phase' = phase \/ phase' = "close"
  BY <1>1, <1>2, <1>3, <1>4 DEF ProtocolInv, DevByPhase, UnderWay, Allowed, Ready, Waits
<1>5. CASE phase' = AfterWait(phase) /\ inbox[1] = phase
  <2>1. CASE phase = "SyncAllowed"
    BY <1>1, <1>2, <1>3, <1>5, <2>1
       DEF ProtocolInv, DevByPhase, UnderWay, Allowed, Ready, AfterWait
  <2>2. CASE phase = "ReadyForSync"
    <3>1. announced >= 2
      BY <1>2, <1>5, <2>2 DEF ProtocolInv, UnderWay, MayBeReady, Allowed
    <3> QED BY <1>1, <1>3, <1>5, <2>2, <3>1
            DEF ProtocolInv, DevByPhase, UnderWay, Allowed, Ready, AfterWait
  <2>3. CASE phase = "AssetManifest"
    <3>1. announced = 3
      BY <1>2, <1>5, <2>3 DEF ProtocolInv, UnderWay, MayDecide, Ready
    <3> QED BY <1>1, <1>3, <1>5, <2>3, <3>1
            DEF ProtocolInv, DevByPhase, UnderWay, Allowed, Ready, AfterWait
  <2> QED BY <1>1, <2>1, <2>2, <2>3 DEF Waits
<1> QED BY <1>2, <1>4, <1>5, AcceptedIsWanted DEF WaitFor, Break

\* A send keeps in sight what is under way.
LEMMA SendSees ==
  ASSUME SendMessage \/ SendFileComplete
  PROVE  (MayBeReady' => MayBeReady) /\ \A name : MayDecide(name)' => MayDecide(name)
<1>1. /\ inbox' = inbox
      /\ \/ phase \in Allowed /\ phase' \in Allowed \cup {"close"}
         \/ phase \in Ready /\ phase' \in Ready \cup {"close"}
         \/ phase' \in {"FileComplete", "close"}
  BY DEF SendMessage, SendFileComplete, Break, AfterSend, Sends, Allowed, Ready
<1> QED BY <1>1 DEF MayBeReady, MayDecide, Has, Ahead, AheadOf, Allowed, Ready

LEMMA SendInOrder ==
  ASSUME ProtocolInv, SendMessage
  PROVE  DevByPhase' /\ UnderWay'
<1>1. inbox' = inbox /\ announced' = announced /\ phase \in Sends
  BY DEF SendMessage
<1>2. (MayBeReady' => MayBeReady) /\ \A name : MayDecide(name)' => MayDecide(name)
  BY SendSees
<1>3. CASE dev' = Accepts(dev, phase) /\ phase' = AfterSend(phase)
  BY <1>1, <1>2, <1>3
     DEF ProtocolInv, DevByPhase, UnderWay, Sends, Accepts, ReadyFor, AfterSend, Allowed, Ready
<1>4. CASE dev' \in {dev, Accepts(dev, phase)} /\ phase' = "close"
  BY <1>1, <1>2, <1>4
     DEF ProtocolInv, DevByPhase, UnderWay, Sends, Accepts, ReadyFor, Allowed, Ready
<1> QED BY <1>3, <1>4 DEF SendMessage, Break

LEMMA MoveStep ==
  ASSUME ProtocolInv, SendFileComplete
  PROVE  DevByPhase' /\ UnderWay'
<1>1. /\ phase = "FileComplete" /\ phase' \in {"FileComplete", "close"}
      /\ UNCHANGED <<inbox, announced>> /\ dev' \in {dev, Accepts(dev, "FileComplete")}
  BY DEF SendFileComplete
<1>2. dev' = dev
  BY <1>1 DEF Accepts, ReadyFor
<1> QED BY <1>1, <1>2, SendSees DEF ProtocolInv, DevByPhase, UnderWay, Allowed, Ready

LEMMA HostStep ==
  ASSUME ProtocolInv, Host
  PROVE  ProtocolInv'
<1>1. DevByPhase' /\ UnderWay'
  <2>1. CASE OpenTunnel \/ WaitExpired \/ ReceiveFails \/ CheckFails \/ AllSent
               \/ VerifyLink \/ Retry \/ Finish
    BY <2>1, LeaveStep DEF OpenTunnel, WaitExpired, ReceiveFails, CheckFails, AllSent, VerifyLink,
                           Retry, Finish, Break, Apart
  <2>2. CASE ConnectService
    <3>1. CASE phase' = "SyncAllowed" /\ dev' = "hello" /\ inbox' = <<>> /\ announced' = 0
      BY <3>1 DEF DevByPhase, UnderWay, MayBeReady, MayDecide, Allowed, Ready, Has, Ahead, AheadOf
    <3>2. CASE phase' = "retry" /\ UNCHANGED <<dev, announced>>
      BY <3>2, LeaveStep DEF Apart
    <3> QED BY <2>2, <3>1, <3>2 DEF ConnectService
  <2>3. CASE CloseStream
    <3>1. dev' = "closed" /\ phase' \in {"VerifyLink", "retry"}
      BY <2>3 DEF CloseStream
    <3> QED BY <3>1 DEF DevByPhase, UnderWay, MayBeReady, MayDecide, Allowed, Ready
  <2> QED BY <2>1, <2>2, <2>3, WaitStep, SendInOrder, MoveStep DEF Host
<1> QED BY <1>1, HostTypes DEF ProtocolInv

\* A message that the host may come to act upon counts as an announcement, or
\* as what spoils the session, when it is sent.
LEMMA SaySees ==
  ASSUME ProtocolInv, NEW name \in Messages, Say(name)
  PROVE  /\ MayBeReady' => MayBeReady \/ (name = "ReadyForSync" /\ announced >= 1)
         /\ \A n : MayDecide(n)' => MayDecide(n) \/ (n = name /\ announced >= 2)
<1>1. inbox' = Append(inbox, name) /\ phase' = phase /\ inbox \in Seq(Messages)
  BY DEF Say, host, ProtocolInv, TypeOK
<1>2. /\ \A n : Has(n)' => Has(n) \/ n = name
      /\ \A a, b : Ahead(a, b)' => Ahead(a, b) \/ (b = name /\ Has(a))
      /\ \A a, b, c : AheadOf(a, b, c)' => AheadOf(a, b, c) \/ (c = name /\ Ahead(a, b))
  BY <1>1, Said, SaidBehind
<1>3. MayBeReady' => MayBeReady \/ (name = "ReadyForSync" /\ announced >= 1)
  BY <1>1, <1>2 DEF ProtocolInv, UnderWay, MayBeReady
<1>4. ASSUME NEW n, MayDecide(n)'
      PROVE  MayDecide(n) \/ (n = name /\ announced >= 2)
  BY <1>1, <1>2, <1>4 DEF ProtocolInv, UnderWay, MayBeReady, MayDecide
<1> QED BY <1>3, <1>4

\* What the device says, and what becomes of it.
LEMMA DeviceSays ==
  ASSUME ProtocolInv, Device
  PROVE  \E name \in Messages :
           /\ Say(name)
           /\ \/ dev' = dev /\ ~(dev = "hello" /\ name = "SyncAllowed")
              \/ dev = "hello" /\ dev' = "allowed"
              \/ dev = "requested" /\ dev' = "ready"
              \/ dev = "metadata" /\ dev' = "manifest"
BY DEF Device, Allow, BeReady, ListAssets, Chatter, Messages

LEMMA DeviceStep ==
  ASSUME ProtocolInv, Device
  PROVE  ProtocolInv'
<1>1. PICK name \in Messages :
        /\ Say(name)
        /\ \/ dev' = dev /\ ~(dev = "hello" /\ name = "SyncAllowed")
           \/ dev = "hello" /\ dev' = "allowed"
           \/ dev = "requested" /\ dev' = "ready"
           \/ dev = "metadata" /\ dev' = "manifest"
  BY DeviceSays
<1>2. /\ inbox' = Append(inbox, name) /\ UNCHANGED <<req, host, got, result>>
      /\ inbox \in Seq(Messages) /\ announced \in 0..3 /\ blame \in BOOLEAN
      /\ announced' = IF announced < 3 /\ name = Announcements[announced + 1]
                      THEN announced + 1 ELSE announced
  BY <1>1 DEF Say, ProtocolInv, TypeOK
<1>3. inbox' \in Seq(Messages) /\ \A n : Has(n)' => Has(n) \/ n = name
  BY <1>2, Said
<1>4. /\ announced' \in 0..3 /\ announced' >= announced
      /\ name = "SyncAllowed" => announced' >= 1
      /\ name = "ReadyForSync" /\ announced >= 1 => announced' >= 2
      /\ name = "AssetManifest" /\ announced >= 2 => announced' = 3
      /\ announced = 0 /\ name # "SyncAllowed" => announced' = 0
  BY <1>2 DEF Announcements
<1>5. TypeOK' /\ TunnelsByPhase'
  <2>1. dev' \in DevStates
    BY <1>1 DEF DevStates, ProtocolInv, TypeOK
  <2>2. blame' \in BOOLEAN
    BY <1>1 DEF Say
  <2> QED BY <1>2, <1>3, <1>4, <2>1, <2>2 DEF ProtocolInv, TypeOK, TunnelsByPhase, host
<1>6. DevByPhase'
  BY <1>1, <1>2, <1>4 DEF ProtocolInv, DevByPhase, host
<1>7. UnderWay'
  <2>1. phase' = phase
    BY <1>2 DEF host
  <2>2. /\ MayBeReady' => MayBeReady \/ (name = "ReadyForSync" /\ announced >= 1)
        /\ MayDecide("AssetManifest")' =>
             MayDecide("AssetManifest") \/ (name = "AssetManifest" /\ announced >= 2)
    BY <1>1, SaySees
  <2> QED BY <1>2, <1>3, <1>4, <2>1, <2>2 DEF ProtocolInv, UnderWay
<1> QED BY <1>5, <1>6, <1>7 DEF ProtocolInv
-----------------------------------------------------------------------------
(* The invariant and the theorems.                                         *)

\* The invariant holds in every state an attempt reaches.
THEOREM ProtocolInvariant == Spec => []ProtocolInv
<1>1. ProtocolInv /\ [Next]_vars => ProtocolInv'
  <2>1. ASSUME ProtocolInv, UNCHANGED vars PROVE ProtocolInv'
    BY <2>1 DEF vars, host, ProtocolInv, TypeOK, TunnelsByPhase, DevByPhase, UnderWay,
                MayBeReady, MayDecide, Has, Ahead, AheadOf
  <2> QED BY <2>1, HostStep, DeviceStep DEF Next
<1> QED BY <1>1, ProtocolInit, PTL DEF Spec

\* Type correctness of a request: at most three attempts, at most the moves it
\* has, one tunnel.
THEOREM TypeCorrect == Spec => []TypeOK
<1>1. ProtocolInv => TypeOK
  BY DEF ProtocolInv
<1> QED BY <1>1, ProtocolInvariant, PTL

\* "ReadyForSync is required before metadata.  A manifest cannot replace it":
\* with the decision table of XFATCDecisionForMessage and the order of waits and
\* sends, whatever the device sends whenever it likes, the metadata follow a
\* ReadyForSync that followed a SyncAllowed, and a FileComplete follows a complete
\* manifest that followed both; and a message reaches a device that does not wait
\* for it only if the device itself announced more than it was ready for.
THEOREM ProtocolKept == Spec => []InProtocol
<1>1. ProtocolInv => InProtocol
  <2> SUFFICES ASSUME ProtocolInv PROVE InProtocol
    OBVIOUS
  <2>1. /\ phase \in {"HostInfo", "RequestingSync", "ReadyForSync"} => announced >= 1
        /\ phase \in {"FinishedSyncingMetadata", "AssetManifest"} => announced >= 2
        /\ phase = "FileComplete" => announced = 3
    BY DEF ProtocolInv, UnderWay, Allowed, Ready
  <2>2. ASSUME phase \in Sends \cup {"FileComplete"}, dev # ReadyFor(phase)
        PROVE  announced > Standing(dev)
    BY <2>1, <2>2 DEF ProtocolInv, TypeOK, DevByPhase, Sends, ReadyFor, Standing
  <2> QED BY <2>1, <2>2 DEF InProtocol
<1> QED BY <1>1, ProtocolInvariant, PTL

\* "Each attempt closes its stream and tunnel": on every path of an attempt,
\* a connection that is refused included.
THEOREM TunnelsGivenBack == Spec => []NoTunnelLeft
<1>1. ProtocolInv => NoTunnelLeft
  BY DEF ProtocolInv, TunnelsByPhase, TunnelPhases, Waits, Sends, NoTunnelLeft
<1> QED BY <1>1, ProtocolInvariant, PTL

-----------------------------------------------------------------------------
(***************************************************************************)
(* A request is tried again as long as only the transport failed.  What    *)
(* ends an attempt for another reason is the device's doing or a fault of  *)
(* the host's, never a message that an earlier session left behind.        *)
(***************************************************************************)
\* Nothing is under way between two sessions.
QuietPhases == {"begin", "connect", "VerifyLink", "retry", "done"}
QuietBetween == phase \in QuietPhases => inbox = <<>> /\ dev = "closed"

\* A refusal under way, or an end, is the device's doing.
DeviceBlamed == \A name \in {"Refused", "SyncFinished"} : Has(name) => blame

\* A cancellation of an earlier session is read before ReadyForSync: none is
\* met by the wait for the manifest.
StaleIsRead == \A name \in {"Cancelled", "Partial"} : MayDecide(name) => blame

\* What an attempt without blame failed of.
FailedOfTransport ==
  phase \in {"close", "VerifyLink", "retry"} /\ ~ok /\ ~blame => failure = "transport"

RetryInv ==
  QuietBetween /\ DeviceBlamed /\ StaleIsRead /\ FailedOfTransport /\ TransportIsRetried

\* Leaving the protocol with the inbox as it was: only the failure counts.
LEMMA FailureRetry ==
  ASSUME ProtocolInv, RetryInv, phase \notin QuietPhases,
         phase' = "close", UNCHANGED <<dev, inbox, result, req, attempt>>,
         blame => blame', ~blame' => failure' = "transport"
  PROVE  RetryInv'
<1>1. result = "running"
  BY DEF ProtocolInv, TunnelsByPhase, QuietPhases
<1>2. QuietBetween' /\ FailedOfTransport' /\ TransportIsRetried'
  BY <1>1 DEF QuietBetween, QuietPhases, FailedOfTransport, TransportIsRetried
<1>3. DeviceBlamed' /\ StaleIsRead'
  BY DEF RetryInv, DeviceBlamed, StaleIsRead, MayDecide, Allowed, Ready, Has
<1> QED BY <1>2, <1>3 DEF RetryInv

\* A message that makes a wait fail was sent in this session, and was blamed.
LEMMA RejectedIsBlamed ==
  ASSUME ProtocolInv, RetryInv, phase \in Waits, NEW name, Has(name),
         \/ DecisionForMessage(phase, name) = "reject"
         \/ DecisionForMessage(phase, name) = "accept" /\ name = "Partial"
  PROVE  blame
<1>1. CASE name \in {"Refused", "SyncFinished"}
  BY <1>1 DEF RetryInv, DeviceBlamed
<1>2. CASE name \notin {"Refused", "SyncFinished"}
  <2>1. name \in {"Cancelled", "Partial"} /\ phase = "AssetManifest"
    BY <1>2 DEF DecisionForMessage, Waits
  <2> QED BY <2>1 DEF RetryInv, StaleIsRead, MayDecide, Ready
<1> QED BY <1>1, <1>2

\* Reading a message.
LEMMA WaitRetry ==
  ASSUME ProtocolInv, RetryInv, WaitFor
  PROVE  RetryInv'
<1>1. /\ inbox \in Seq(Messages) /\ inbox # <<>> /\ inbox' = Tail(inbox)
      /\ phase \in Waits /\ UNCHANGED <<dev, blame, result, req, attempt>>
  BY DEF ProtocolInv, TypeOK, WaitFor, Break
<1>2. (\A name : Has(name)' => Has(name)) /\ Has(inbox[1]) /\ Head(inbox) = inbox[1]
  BY <1>1, Read
<1>3. result = "running" /\ phase \notin QuietPhases
  BY <1>1 DEF ProtocolInv, TunnelsByPhase, QuietPhases, Waits
<1>4. DeviceBlamed' /\ TransportIsRetried'
  BY <1>1, <1>2, <1>3 DEF RetryInv, DeviceBlamed, TransportIsRetried
<1>5. QuietBetween' /\ FailedOfTransport'
  <2>1. phase' \notin QuietPhases
    BY <1>1 DEF WaitFor, Break, AfterWait, QuietPhases, Waits
  <2>2. phase' = "close" => blame \/ failure' = "transport"
    <3>1. CASE \/ DecisionForMessage(phase, inbox[1]) = "reject"
               \/ DecisionForMessage(phase, inbox[1]) = "accept" /\ inbox[1] = "Partial"
      BY <1>1, <1>2, <3>1, RejectedIsBlamed
    <3>2. CASE ~ \/ DecisionForMessage(phase, inbox[1]) = "reject"
                 \/ DecisionForMessage(phase, inbox[1]) = "accept" /\ inbox[1] = "Partial"
      BY <1>1, <1>2, <3>2 DEF WaitFor, Break, AfterWait, Waits
    <3> QED BY <3>1, <3>2
  <2>3. phase' \notin {"VerifyLink", "retry"}
    BY <2>1 DEF QuietPhases
  <2> QED BY <1>1, <2>1, <2>2, <2>3 DEF QuietBetween, FailedOfTransport
<1>6. StaleIsRead'
  BY <1>1, WaitSees DEF RetryInv, StaleIsRead
<1> QED BY <1>4, <1>5, <1>6 DEF RetryInv

\* Sending a message of the protocol, or a move.
LEMMA SendRetry ==
  ASSUME ProtocolInv, RetryInv, SendMessage \/ SendFileComplete
  PROVE  RetryInv'
<1>1. /\ phase \in Sends \cup {"FileComplete"} /\ phase \notin QuietPhases
      /\ UNCHANGED <<inbox, req, attempt, result>>
      /\ \A name : Has(name)' <=> Has(name)
  BY DEF SendMessage, SendFileComplete, Break, Sends, QuietPhases, Has
<1>2. result = "running"
  BY <1>1 DEF ProtocolInv, TunnelsByPhase, QuietPhases, Sends
<1>3. blame => blame'
  BY DEF SendMessage, SendFileComplete, Fault
<1>4. phase' = "close" /\ ~blame' => failure' = "transport"
  BY DEF SendMessage, SendFileComplete, Break, Fault, AfterSend, Sends
<1>5. phase' \notin QuietPhases
  BY <1>1 DEF SendMessage, SendFileComplete, Break, AfterSend, Sends, QuietPhases
<1>6. QuietBetween' /\ FailedOfTransport' /\ TransportIsRetried'
  BY <1>1, <1>2, <1>4, <1>5
     DEF QuietBetween, FailedOfTransport, QuietPhases, TransportIsRetried
<1>7. DeviceBlamed' /\ StaleIsRead'
  BY <1>1, <1>3, SendSees DEF RetryInv, DeviceBlamed, StaleIsRead
<1> QED BY <1>6, <1>7 DEF RetryInv

\* The steps between two sessions.
LEMMA OutsideRetry ==
  ASSUME ProtocolInv, RetryInv,
         OpenTunnel \/ ConnectService \/ VerifyLink \/ Retry \/ Finish
  PROVE  RetryInv'
<1>1. inbox = <<>> /\ dev = "closed"
  BY DEF RetryInv, QuietBetween, QuietPhases, OpenTunnel, ConnectService, VerifyLink, Retry, Finish
<1>2. inbox' = <<>> /\ dev' \in {"closed", "hello"}
  BY <1>1 DEF OpenTunnel, ConnectService, VerifyLink, Retry, Finish
<1>3. DeviceBlamed' /\ StaleIsRead'
  BY <1>2 DEF DeviceBlamed, StaleIsRead, MayDecide, Has, Ahead, AheadOf
<1>4. QuietBetween'
  BY <1>1 DEF QuietBetween, QuietPhases, OpenTunnel, ConnectService, VerifyLink, Retry, Finish
<1>5. FailedOfTransport'
  BY DEF RetryInv, FailedOfTransport, OpenTunnel, ConnectService, VerifyLink, Retry, Finish, Fault
<1>6. TransportIsRetried'
  <2>1. CASE Finish
    <3>1. /\ phase = "retry" /\ UNCHANGED <<ok, moveAttempted, attempt, req, blame>>
          /\ ok \/ ~ShouldRetry
          /\ result' = IF ok THEN "ok" ELSE IF moveAttempted THEN "failed" ELSE "untouched"
      BY <2>1 DEF Finish
    <3>2. attempt \in 1..3 /\ MaxAttempts = 3
      BY DEF ProtocolInv, TypeOK, MaxAttempts
    <3>3. ASSUME result' = "untouched", req.fresh, ~blame PROVE attempt = 3
      <4>1. ~ok /\ ~moveAttempted /\ failure = "transport"
        BY <3>1, <3>3 DEF RetryInv, FailedOfTransport
      <4>2. ~(attempt < 3)
        BY <3>1, <3>2, <3>3, <4>1 DEF ShouldRetry
      <4> QED BY <3>2, <4>2
    <3> QED BY <3>1, <3>2, <3>3 DEF TransportIsRetried
  <2>2. CASE ~Finish
    <3>1. result' = result /\ phase # "done"
      BY <2>2 DEF OpenTunnel, ConnectService, VerifyLink, Retry
    <3> QED BY <3>1 DEF ProtocolInv, TunnelsByPhase, TransportIsRetried
  <2> QED BY <2>1, <2>2
<1> QED BY <1>3, <1>4, <1>5, <1>6 DEF RetryInv

LEMMA HostRetry ==
  ASSUME ProtocolInv, RetryInv, Host
  PROVE  RetryInv'
<1>1. CASE WaitExpired \/ ReceiveFails \/ CheckFails
  <2>1. /\ phase \notin QuietPhases /\ phase' = "close"
        /\ UNCHANGED <<dev, inbox, result, req, attempt>>
        /\ blame => blame'
        /\ ~blame' => failure' = "transport"
    BY <1>1 DEF WaitExpired, ReceiveFails, CheckFails, Break, Fault, QuietPhases, Waits
  <2> QED BY <2>1, FailureRetry
<1>2. CASE AllSent
  <2>1. /\ phase = "FileComplete" /\ phase' = "close" /\ ok'
        /\ UNCHANGED <<dev, inbox, result, req, attempt, blame>>
    BY <1>2 DEF AllSent
  <2> QED BY <2>1
          DEF ProtocolInv, TunnelsByPhase, RetryInv, QuietBetween, QuietPhases, DeviceBlamed,
              StaleIsRead, MayDecide, Allowed, Ready, FailedOfTransport, TransportIsRetried, Has
<1>3. CASE CloseStream
  <2>1. /\ phase = "close" /\ phase' \in {"VerifyLink", "retry"} /\ inbox' = <<>> /\ dev' = "closed"
        /\ UNCHANGED <<ok, failure, blame, result, req, attempt>>
    BY <1>3 DEF CloseStream
  <2> QED BY <2>1
          DEF ProtocolInv, TunnelsByPhase, RetryInv, QuietBetween, QuietPhases, DeviceBlamed,
              StaleIsRead, MayDecide, Allowed, Ready, FailedOfTransport, TransportIsRetried, Has
<1> QED BY <1>1, <1>2, <1>3, WaitRetry, SendRetry, OutsideRetry DEF Host

\* What the device says, and when it is to blame for it.
LEMMA DeviceRetry ==
  ASSUME ProtocolInv, RetryInv, Device
  PROVE  RetryInv'
<1>1. PICK name \in Messages : Say(name)
  BY DeviceSays
<1>2. /\ inbox' = Append(inbox, name) /\ inbox \in Seq(Messages)
      /\ UNCHANGED <<req, host, result>> /\ dev # "closed"
      /\ blame' = (blame \/ Spoils(name))
  BY <1>1 DEF Say, ProtocolInv, TypeOK
<1>3. \A n : Has(n)' => Has(n) \/ n = name
  BY <1>2, Said
<1>4. phase \notin QuietPhases /\ result = "running"
  BY <1>2 DEF RetryInv, QuietBetween, QuietPhases, ProtocolInv, TunnelsByPhase
<1>5. blame => blame'
  BY <1>2
<1>6. QuietBetween' /\ FailedOfTransport' /\ TransportIsRetried'
  BY <1>2, <1>4, <1>5
     DEF host, RetryInv, QuietBetween, FailedOfTransport, TransportIsRetried
<1>7. DeviceBlamed'
  <2>1. name \in {"Refused", "SyncFinished"} => blame'
    BY <1>2 DEF Spoils
  <2> QED BY <1>3, <1>5, <2>1 DEF RetryInv, DeviceBlamed
<1>8. StaleIsRead'
  <2>1. ASSUME NEW n \in {"Cancelled", "Partial"}, MayDecide(n)' PROVE blame'
    <3>1. CASE MayDecide(n)
      BY <1>5, <3>1 DEF RetryInv, StaleIsRead
    <3>2. CASE n = name /\ announced >= 2
      BY <1>2, <2>1, <3>2 DEF Spoils
    <3> QED BY <1>1, <2>1, <3>1, <3>2, SaySees
  <2> QED BY <2>1 DEF StaleIsRead
<1> QED BY <1>6, <1>7, <1>8 DEF RetryInv

\* For every number of moves and every deadline, and however many messages are
\* under way: a request that ends before its first FileComplete, when in its
\* last attempt nothing but the transport failed, was tried three times
\* (retryATCPreparation with XFATCShouldRetryPreparation).  The cancellations
\* an earlier session left in the stream are no reason to give up sooner.
THEOREM TransportAlwaysRetried == Spec => []TransportIsRetried
<1>1. Init => RetryInv
  BY DEF Init, RetryInv, QuietBetween, QuietPhases, DeviceBlamed, StaleIsRead, MayDecide,
         Allowed, Ready, Has, FailedOfTransport, TransportIsRetried
<1>2. ProtocolInv /\ RetryInv /\ [Next]_vars => RetryInv'
  <2>1. ASSUME RetryInv, UNCHANGED vars PROVE RetryInv'
    BY <2>1 DEF vars, host, RetryInv, QuietBetween, DeviceBlamed, StaleIsRead, MayDecide,
                Has, Ahead, AheadOf, FailedOfTransport, TransportIsRetried
  <2> QED BY <2>1, HostRetry, DeviceRetry DEF Next
<1>3. RetryInv => TransportIsRetried
  BY DEF RetryInv
<1> QED BY <1>1, <1>2, <1>3, ProtocolInvariant, PTL DEF Spec
=============================================================================
