---------------------------- MODULE RemoteServer ----------------------------
(***************************************************************************)
(* The remote server client of the instruments services: one connection to *)
(* the device shared by several tasks.  A reader task takes every message  *)
(* off the wire and hands it to the call that waits for it, to a handler,  *)
(* or to the queue of its channel; the other tasks send requests, read     *)
(* queues and wait for channels, for the capabilities of the peer and for  *)
(* the end of the connection.                                              *)
(*                                                                         *)
(* One action is what happens under one lock, or between two awaits.  A    *)
(* tokio Notify keeps no permit for notify_waiters: only the tasks that    *)
(* are already parked on it are woken, so looking at the state, looking at *)
(* `closed` and parking are three actions of a waiting task.               *)
(***************************************************************************)
EXTENDS Integers, Sequences, FiniteSets

CONSTANTS
  Tasks,        (* tasks that hold the client or one of its channels        *)
  Ops,          (* task -> the operations it may start                      *)
  MaxOps,       (* bound on the operations of one task                      *)
  MaxCode,      (* bound on channel codes; the remote side's are negative   *)
  MaxId,        (* bound on message identifiers                             *)
  MaxReceived,  (* bound on messages the device sends                       *)
  Identifiers,  (* channel identifiers the device may ask for               *)
  Proxied,      (* those of the form dtxproxy:first:second                  *)
  Registered,   (* those with an incoming channel initializer               *)
  MayDrop       (* whether the client may be dropped while channels live on *)

ASSUME BoundsAssumption ==
  /\ MaxCode \in Nat \ {0}
  /\ MaxId \in Nat
  /\ MaxReceived \in Nat
  /\ Registered \subseteq Identifiers
  /\ Proxied \subseteq Identifiers
  /\ MayDrop \in BOOLEAN

OpNames == {"call", "post", "open", "driver", "code", "read", "caps", "handshake",
            "disconnect", "plan", "handle", "unhandle"}

ASSUME OpsAssumption ==
  \A t \in Tasks :
    Ops[t] \subseteq [op : OpNames, chan : -MaxCode..MaxCode, timed : BOOLEAN]

Codes == -MaxCode..MaxCode
NoChannel == [identifier |-> "none", remote |-> FALSE]

VARIABLES
  channels,   \* code -> number of its queue, 0 when the code is not registered
  queues,     \* every ChannelQueue made so far; a removed one may still be held
  metadata,   \* code -> identifier and side, NoChannel when absent
  pending,    \* identifier -> whether pending_replies holds its sender
  handlers,   \* codes with an incoming handler
  caps,       \* supported_identifiers: "Pending", "Skipped" or "Received"
  closed,     \* the closed flag
  ids,        \* current_message: the last identifier taken
  codes,      \* the last channel code taken
  reader,     \* where the reader task is, and the channel request it serves
  task,       \* what each task is doing
  device      \* what the device did and knows

shared == <<channels, queues, metadata, pending, handlers, caps, closed>>
vars == <<shared, ids, codes, reader, task, device>>

Idle == [op |-> "none", chan |-> 0, timed |-> FALSE]
NoTask == [at |-> "idle", op |-> Idle, id |-> 0, queue |-> 0, woke |-> {},
           got |-> "none", res |-> "none", ran |-> 0]

(* RemoteServerShared::new: the control channel is there from the start.   *)
Init ==
  /\ channels = [c \in Codes |-> IF c = 0 THEN 1 ELSE 0]
  /\ queues = << <<>> >>
  /\ metadata = [c \in Codes |->
                   IF c = 0 THEN [identifier |-> "ctrl", remote |-> FALSE]
                            ELSE NoChannel]
  /\ pending = [i \in 1..MaxId |-> FALSE]
  /\ handlers = {}
  /\ caps = "Pending"
  /\ closed = FALSE
  /\ ids = 0
  /\ codes = 0
  /\ reader = [at |-> "read", chan |-> 0, id |-> "none"]
  /\ task = [t \in Tasks |-> NoTask]
  /\ device = [asked |-> {}, acked |-> {}, unserved |-> {}, sent |-> 0]

-----------------------------------------------------------------------------
(* Helpers.                                                                *)

(* The tasks parked on a Notify: of a queue, of the registry, of the       *)
(* capabilities.  All of them are parked on closed_notify as well, and a   *)
(* test plan watches it from its disconnect waiter besides.                *)
Parked == {t \in Tasks : task[t].at = "parked"}
OnQueue(q) == {t \in Parked : task[t].op.op \in {"read", "plan"} /\ task[t].queue = q}
OnRegistry == {t \in Parked : task[t].op.op \in {"code", "driver"}}
OnHandshake == {t \in Parked : task[t].op.op \in {"caps", "handshake"}}
Watching == {t \in Tasks : task[t].op.op = "plan" /\ task[t].at \notin {"watch", "enlist"}}

(* notify_waiters wakes those who are there and nobody who comes later.    *)
notify_waiters(waiting, how) ==
  task' = [t \in Tasks |-> IF t \in waiting
                             THEN [task[t] EXCEPT !.woke = @ \cup {how}]
                             ELSE task[t]]

Starting(t, at, o) == [NoTask EXCEPT !.at = at, !.op = o, !.ran = task[t].ran + 1]

(* An operation returns.  What a test plan reports is kept; the result of  *)
(* the others is their caller's affair.                                    *)
Finish(t, res) ==
  task' = [task EXCEPT ![t] = [NoTask EXCEPT !.ran = task[t].ran,
                                 !.res = IF task[t].op.op = "plan" THEN res ELSE "none"]]

(* An operation of one step.                                               *)
Passes(t) == task' = [task EXCEPT ![t] = [NoTask EXCEPT !.ran = task[t].ran + 1]]

(* A task that has nothing under way may begin another operation.          *)
Ready(t) == task[t].at = "idle" /\ task[t].ran < MaxOps

Goto(t, at) == task' = [task EXCEPT ![t].at = at]

(* Mutants: a queue counted twice; a queue made for local channels only.   *)
EnsureCountsTwice(c) ==
  IF channels[c] # 0
    THEN UNCHANGED <<channels, queues>>
    ELSE /\ queues' = Append(queues, <<>>)
         /\ channels' = [channels EXCEPT ![c] = Len(queues) + 2]

EnsureLocalOnly(c) ==
  IF channels[c] # 0 \/ c < 0
    THEN UNCHANGED <<channels, queues>>
    ELSE /\ queues' = Append(queues, <<>>)
         /\ channels' = [channels EXCEPT ![c] = Len(queues) + 1]

(* channels.entry(code).or_insert_with(ChannelQueue::default).             *)
ensure_channel_registered(c) ==
  IF channels[c] # 0
    THEN UNCHANGED <<channels, queues>>
    ELSE /\ queues' = Append(queues, <<>>)
         /\ channels' = [channels EXCEPT ![c] = Len(queues) + 1]

(* Messages are queued for the channel they name; an unknown one is        *)
(* dropped.  The readers parked on the queue are notified.                 *)
enqueue_message(c, m) ==
  LET q == channels[c] IN
  IF q = 0
    THEN UNCHANGED <<queues, task>>
    ELSE /\ queues' = [queues EXCEPT ![q] = Append(@, m)]
         /\ notify_waiters(OnQueue(q), "data")

-----------------------------------------------------------------------------
(* The tasks: an operation starts.                                         *)

(* Where each operation begins.  A read, a wait for a channel or for the   *)
(* capabilities looks first; disconnect_waiter only tests the flag; a test *)
(* plan polls its disconnect waiter, then reads.                           *)
Entry(op) ==
  CASE op \in {"read", "code", "driver", "caps"} -> "look"
    [] op = "disconnect" -> "check"
    [] op = "plan" -> "watch"

Start(t, o) ==
  /\ Ready(t)
  /\ o.op \in {"read", "code", "driver", "caps", "disconnect", "plan"}
  /\ task' = [task EXCEPT ![t] = Starting(t, Entry(o.op), o)]
  /\ UNCHANGED <<shared, ids, codes, reader, device>>

(* call_method_with_reply takes its identifier from the counter.           *)
(* call_method writes at once and leaves the reply to the channel's queue. *)
StartCall(t, o) ==
  /\ Ready(t)
  /\ ids < MaxId
  /\ ids' = ids + 1
  /\ \/ /\ o.op = "call"
        /\ task' = [task EXCEPT ![t] = [Starting(t, "insert", o) EXCEPT !.id = ids + 1]]
        /\ UNCHANGED device
     \/ /\ o.op = "post"
        /\ \/ /\ Passes(t)
              /\ device' = [device EXCEPT !.asked = @ \cup {[id |-> ids + 1, chan |-> o.chan]}]
           \/ Passes(t) /\ UNCHANGED device
  /\ UNCHANGED <<shared, codes, reader>>

(* set_incoming_handler and clear_incoming_handler of an owned channel.    *)
SetHandler(t, o) ==
  /\ Ready(t)
  /\ \/ o.op = "handle" /\ handlers' = handlers \cup {o.chan} /\ UNCHANGED device
     \/ /\ o.op = "unhandle"
        /\ handlers' = handlers \ {o.chan}
        /\ device' = [device EXCEPT !.unserved = @ \cup {o.chan}]
  /\ Passes(t)
  /\ UNCHANGED <<channels, queues, metadata, pending, caps, closed,
                 ids, codes, reader>>

(* make_channel: a code is taken, its metadata registered and announced,   *)
(* its queue made, and the request sent as a call on channel 0.            *)
MakeChannel(t, o) ==
  \/ /\ Ready(t) /\ o.op = "open"
     /\ codes < MaxCode
     /\ codes' = codes + 1
     /\ metadata' = [metadata EXCEPT
                       ![codes + 1] = [identifier |-> "local", remote |-> FALSE]]
     /\ task' = [s \in Tasks |->
                   IF s = t THEN Starting(t, "ensure", [o EXCEPT !.chan = codes + 1])
                   ELSE IF s \in OnRegistry THEN [task[s] EXCEPT !.woke = @ \cup {"data"}]
                   ELSE task[s]]
     /\ UNCHANGED <<channels, queues, ids, device>>
  \/ /\ task[t].at = "ensure" /\ o = task[t].op
     /\ ids < MaxId
     /\ ensure_channel_registered(o.chan)
     /\ ids' = ids + 1
     /\ task' = [task EXCEPT ![t].at = "insert", ![t].id = ids + 1]
     /\ UNCHANGED <<metadata, codes, device>>

(* perform_handshake reads supported_identifiers, lets go of the lock, and *)
(* writes it under the lock again; then it sends its own capabilities.     *)
(* Without capabilities of its own it is Skipped.                          *)
PerformHandshake(t, o) ==
  \/ /\ Ready(t) /\ o.op = "handshake"
     /\ task' = [task EXCEPT ![t] = [Starting(t, "set", o) EXCEPT !.got = caps]]
     /\ UNCHANGED <<caps, ids>>
  \/ /\ task[t].at = "set" /\ o = task[t].op
     /\ \/ caps' = "Skipped" /\ Finish(t, "skipped") /\ UNCHANGED ids
        \/ /\ ids < MaxId
           /\ caps' = IF task[t].got = "Received" THEN "Received" ELSE "Pending"
           /\ ids' = ids + 1
           /\ Goto(t, "hello")
  \/ /\ task[t].at = "hello" /\ o = task[t].op
     /\ \/ Finish(t, "write failed")
        \/ IF task[t].got = "Received" THEN Finish(t, "ok") ELSE Goto(t, "look")
     /\ UNCHANGED <<caps, ids>>

-----------------------------------------------------------------------------
(* The tasks: a call and its reply.                                        *)

(* The channel a correlated request goes to: make_channel asks on channel 0. *)
RequestChannel(t) == IF task[t].op.op = "open" THEN 0 ELSE task[t].op.chan

(* Mutant: the request is written before its sender is registered.         *)
SendWritesFirst(t) ==
  \/ /\ task[t].at = "insert"
     /\ \/ /\ device' = [device EXCEPT !.asked = @ \cup {[id |-> task[t].id, chan |-> RequestChannel(t)]}]
           /\ Goto(t, "write")
        \/ Finish(t, "write failed") /\ UNCHANGED device
     /\ UNCHANGED pending
  \/ /\ task[t].at = "write"
     /\ pending' = [pending EXCEPT ![task[t].id] = TRUE]
     /\ Goto(t, "await")
     /\ UNCHANGED device

(* send_method: the sender goes into pending_replies, and only then is the *)
(* request written.  A write that fails takes the sender out again.        *)
send_method(t) ==
  \/ /\ task[t].at = "insert"
     /\ pending' = [pending EXCEPT ![task[t].id] = TRUE]
     /\ Goto(t, "write")
     /\ UNCHANGED device
  \/ /\ task[t].at = "write"
     /\ \/ /\ device' = [device EXCEPT !.asked = @ \cup {[id |-> task[t].id, chan |-> RequestChannel(t)]}]
           /\ Goto(t, "await")
           /\ UNCHANGED pending
        \/ /\ pending' = [pending EXCEPT ![task[t].id] = FALSE]
           /\ Finish(t, "write failed")
           /\ UNCHANGED device

(* wait_for_reply: the reply, or an error once the sender is gone; which   *)
(* error is told by `closed`, read after the sender was dropped.           *)
(* make_channel then wants a reply without a payload.                      *)
wait_for_reply(t) ==
  /\ task[t].at = "await"
  /\ \/ /\ task[t].got # "none"
        /\ Finish(t, IF task[t].op.op = "open" /\ task[t].got = "payload"
                       THEN "unexpected" ELSE "ok")
     \/ /\ task[t].got = "none" /\ ~pending[task[t].id]
        /\ Finish(t, IF closed THEN "closed" ELSE "unexpected")

Call(t) ==
  \/ /\ send_method(t)
     /\ UNCHANGED <<channels, queues, metadata, handlers, caps, closed,
                    ids, codes, reader>>
  \/ /\ wait_for_reply(t)
     /\ UNCHANGED <<shared, ids, codes, reader, device>>

-----------------------------------------------------------------------------
(* The tasks: waiting.  Look at the state, then at the flag, then park.    *)

(* What a test plan does with a message: it ends with the finishing one,   *)
(* goes on reading after another, fails when the listener or a reply does. *)
run_dispatch_loop(t, m) ==
  \/ Finish(t, "failed")
  \/ IF m.kind = "finish" THEN Finish(t, "finished") ELSE Goto(t, "look")

(* read_message takes the queue of the channel and its first message; a    *)
(* channel that is not registered is an error.                             *)
LookAtQueue(t) ==
  LET q == channels[task[t].op.chan] IN
  \/ /\ q = 0
     /\ Finish(t, "unknown channel")
     /\ UNCHANGED queues
  \/ /\ q # 0
     /\ queues[q] = <<>>
     /\ task' = [task EXCEPT ![t].at = "check", ![t].queue = q]
     /\ UNCHANGED queues
  \/ /\ q # 0
     /\ queues[q] # <<>>
     /\ queues' = [queues EXCEPT ![q] = Tail(@)]
     /\ IF task[t].op.op = "plan" THEN run_dispatch_loop(t, Head(queues[q]))
                                  ELSE Finish(t, "message")

(* wait_for_registered_channel_code: a channel the remote side opened      *)
(* under a plain identifier; wait_for_proxied_channel_code: one that it    *)
(* opened under a proxy identifier.                                        *)
find_registered_channel_code(names) ==
  {c \in Codes : metadata[c].remote /\ metadata[c].identifier \in names}

LookAtRegistry(t) ==
  IF find_registered_channel_code(IF task[t].op.op = "driver" THEN Proxied
                                  ELSE Identifiers \ Proxied) # {}
    THEN Finish(t, "ok") ELSE Goto(t, "check")

(* wait_for_capabilities and the handshake: the capabilities, or that they *)
(* were skipped.                                                           *)
LookAtCapabilities(t) ==
  CASE caps = "Received" -> Finish(t, "ok")
    [] caps = "Skipped"  -> Finish(t, IF task[t].op.op = "caps" THEN "unexpected" ELSE "skipped")
    [] caps = "Pending"  -> Goto(t, "check")

Look(t) ==
  /\ task[t].at = "look"
  /\ \/ task[t].op.op \in {"read", "plan"} /\ LookAtQueue(t)
     \/ task[t].op.op \in {"code", "driver"} /\ LookAtRegistry(t) /\ UNCHANGED queues
     \/ task[t].op.op \in {"caps", "handshake"} /\ LookAtCapabilities(t) /\ UNCHANGED queues
  /\ UNCHANGED <<channels, metadata, pending, handlers, caps, closed,
                 ids, codes, reader, device>>

(* How a wait ends once the connection is closed.                          *)
ClosedResult(o) == IF o.op = "disconnect" THEN "ok" ELSE "closed"

Check(t) ==
  /\ task[t].at = "check"
  /\ IF closed THEN Finish(t, ClosedResult(task[t].op)) ELSE Goto(t, "park")
  /\ UNCHANGED <<shared, ids, codes, reader, device>>

(* From here on, and not before, a notification finds the task.            *)
Park(t) ==
  /\ task[t].at = "park"
  /\ Goto(t, "parked")
  /\ UNCHANGED <<shared, ids, codes, reader, device>>

(* The select polls its branches in any order: with several notifications  *)
(* in, any of them may end the wait.                                       *)
Resume(t) ==
  /\ task[t].at = "parked"
  /\ \/ /\ "data" \in task[t].woke
        /\ task' = [task EXCEPT ![t].at = "look", ![t].woke = @ \cap {"gone"}]
     \/ "closed" \in task[t].woke /\ Finish(t, ClosedResult(task[t].op))
     \/ "gone" \in task[t].woke /\ Finish(t, "disconnected")
  /\ UNCHANGED <<shared, ids, codes, reader, device>>

(* crate::time::timeout around the wait.  The wait for the driver channel  *)
(* goes on with the plain identifiers when the proxied ones did not come.  *)
Timeout(t) ==
  /\ task[t].at = "parked"
  /\ task[t].op.timed
  /\ IF task[t].op.op = "driver"
       THEN task' = [task EXCEPT ![t].at = "look", ![t].op.op = "code", ![t].woke = {}]
       ELSE Finish(t, "timeout")
  /\ UNCHANGED <<shared, ids, codes, reader, device>>

(* run_dispatch_loop_until_done_or_disconnect polls the disconnect waiter  *)
(* next to the dispatch loop: it tests the flag and enlists.               *)
Watch(t) ==
  /\ \/ /\ task[t].at = "watch"
        /\ IF closed THEN Finish(t, "disconnected") ELSE Goto(t, "enlist")
     \/ /\ task[t].at = "enlist"
        /\ Goto(t, "look")
  /\ UNCHANGED <<shared, ids, codes, reader, device>>

-----------------------------------------------------------------------------
(* The reader task.                                                        *)

Receive == /\ reader.at = "read"
           /\ device.sent < MaxReceived
Sent == device.sent + 1

(* The channels the device speaks of: those it was acknowledged and those  *)
(* the client asked for.                                                   *)
Known == device.acked \cup 1..codes

(* dispatch_pending_reply: a reply goes to the sender registered for its   *)
(* identifier; one that nobody registered for is queued for its channel.   *)
dispatch_pending_reply(r, what) ==
  IF pending[r.id]
    THEN /\ pending' = [pending EXCEPT ![r.id] = FALSE]
         /\ task' = [t \in Tasks |->
                       IF task[t].at = "await" /\ task[t].id = r.id
                         THEN [task[t] EXCEPT !.got = what] ELSE task[t]]
         /\ UNCHANGED queues
    ELSE /\ enqueue_message(r.chan, [kind |-> "reply", id |-> r.id])
         /\ UNCHANGED pending

ReadReply ==
  /\ Receive
  /\ \E r \in device.asked, what \in {"empty", "payload"} :
       /\ dispatch_pending_reply(r, what)
       /\ device' = [device EXCEPT !.asked = @ \ {r}, !.sent = Sent]
  /\ UNCHANGED <<channels, metadata, handlers, caps, closed, ids, codes, reader>>

(* dispatch_to_handler: a handler may take the message, and its answer is  *)
(* written as well as it can be; a message it leaves is queued.            *)
ReadInvoke ==
  /\ Receive
  /\ \E c \in Known \cup {0}, kind \in {"invoke", "finish"} :
       \/ enqueue_message(c, [kind |-> kind, id |-> 0])
       \/ c \in handlers /\ UNCHANGED <<queues, task>>
  /\ device' = [device EXCEPT !.sent = Sent]
  /\ UNCHANGED <<channels, metadata, pending, handlers, caps, closed,
                 ids, codes, reader>>

(* _notifyOfPublishedCapabilities: is recorded, announced, and queued on   *)
(* the control channel for the callers that read it there.                 *)
ReadCapabilities ==
  /\ Receive
  /\ caps' = "Received"
  /\ queues' = [queues EXCEPT ![channels[0]] = Append(@, [kind |-> "caps", id |-> 0])]
  /\ notify_waiters(OnHandshake \cup OnQueue(channels[0]), "data")
  /\ device' = [device EXCEPT !.sent = Sent]
  /\ UNCHANGED <<channels, metadata, pending, handlers, closed, ids, codes, reader>>

(* _channelCanceled: takes the channel out of the three maps (the code is  *)
(* used as it was sent) and announces it to those who wait for the         *)
(* registry; those who read the channel stay on its old queue.             *)
remove_channel ==
  \/ /\ Receive
     /\ \E c \in Known :
          /\ handlers' = handlers \ {c}
          /\ channels' = [channels EXCEPT ![c] = 0]
          /\ reader' = [reader EXCEPT !.at = "unregister", !.chan = c]
          /\ device' = [device EXCEPT !.sent = Sent, !.acked = @ \ {c}]
     /\ UNCHANGED <<metadata, task>>
  \/ /\ reader.at = "unregister"
     /\ metadata' = [metadata EXCEPT ![reader.chan] = NoChannel]
     /\ notify_waiters(OnRegistry, "data")
     /\ reader' = [reader EXCEPT !.at = "read"]
     /\ UNCHANGED <<handlers, channels, device>>

ReadCancel ==
  /\ remove_channel
  /\ UNCHANGED <<queues, pending, caps, closed, ids, codes>>

(* _requestChannelWithCode:identifier: registers and announces the         *)
(* channel, makes its queue, runs the initializer of the identifier, which *)
(* installs a handler or fails, and only then acknowledges the channel.    *)
(* An acknowledgement that cannot be written closes the client.            *)
ServeRequest ==
  \/ /\ Receive
     /\ \E c \in -MaxCode..-1, i \in Identifiers :
          /\ metadata[c] = NoChannel
          /\ metadata' = [metadata EXCEPT ![c] = [identifier |-> i, remote |-> TRUE]]
          /\ reader' = [at |-> "ensure", chan |-> c, id |-> i]
     /\ notify_waiters(OnRegistry, "data")
     /\ device' = [device EXCEPT !.sent = Sent]
     /\ UNCHANGED <<channels, queues, handlers, closed>>
  \/ /\ reader.at = "ensure"
     /\ ensure_channel_registered(reader.chan)
     /\ reader' = [reader EXCEPT !.at = "initialize"]
     /\ UNCHANGED <<metadata, handlers, closed, task, device>>
  \/ /\ reader.at = "initialize"
     /\ \/ /\ reader.id \in Registered
           /\ handlers' = handlers \cup {reader.chan}
           /\ device' = [device EXCEPT !.unserved = @ \ {reader.chan}]
        \/ /\ UNCHANGED handlers
           /\ device' = [device EXCEPT !.unserved = @ \cup {reader.chan}]
     /\ reader' = [reader EXCEPT !.at = "acknowledge"]
     /\ UNCHANGED <<channels, queues, metadata, closed, task>>
  \/ /\ reader.at = "acknowledge"
     /\ \/ /\ device' = [device EXCEPT !.acked = @ \cup {reader.chan}]
           /\ reader' = [reader EXCEPT !.at = "read"]
           /\ UNCHANGED closed
        \/ /\ closed' = TRUE
           /\ reader' = [reader EXCEPT !.at = "refused"]
           /\ UNCHANGED device
     /\ UNCHANGED <<channels, queues, metadata, handlers, task>>

ReadRequest ==
  /\ ServeRequest
  /\ UNCHANGED <<pending, caps, ids, codes>>

(* closed_notify.notify_waiters: the parked tasks, and the test plans that *)
(* enlisted their disconnect waiter.                                       *)
NotifyClosed(next) ==
  /\ task' = [t \in Tasks |->
                [task[t] EXCEPT !.woke = @ \cup (IF t \in Parked THEN {"closed"} ELSE {})
                                           \cup (IF t \in Watching THEN {"gone"} ELSE {})]]
  /\ reader' = [reader EXCEPT !.at = next]

(* Mutant: the pending replies are left where they are.                    *)
KeepPendingReplies == UNCHANGED pending

(* The connection ends, or a message cannot be parsed: the senders of the  *)
(* pending replies are dropped, then the flag is set, then the waiters are *)
(* notified, and the reader is gone.                                       *)
fail_pending_replies == pending' = [i \in 1..MaxId |-> FALSE]

ReaderExits ==
  /\ \/ /\ reader.at = "read"
        /\ reader' = [reader EXCEPT !.at = "fail"]
        /\ UNCHANGED <<pending, closed, task>>
     \/ /\ reader.at = "fail"
        /\ fail_pending_replies
        /\ reader' = [reader EXCEPT !.at = "close"]
        /\ UNCHANGED <<closed, task>>
     \/ /\ reader.at = "close"
        /\ closed' = TRUE
        /\ reader' = [reader EXCEPT !.at = "notify"]
        /\ UNCHANGED <<pending, task>>
     \/ /\ reader.at = "notify"
        /\ NotifyClosed("gone")
        /\ UNCHANGED <<pending, closed>>
     \/ /\ reader.at = "refused"
        /\ NotifyClosed("read")
        /\ UNCHANGED <<pending, closed>>
  /\ UNCHANGED <<channels, queues, metadata, handlers, caps, ids, codes, device>>

(* Dropping the client aborts the reader at whatever await it stands; the  *)
(* owned channels keep the shared state.                                   *)
DropClient ==
  /\ MayDrop
  /\ reader.at \in {"read", "unregister", "ensure", "initialize", "acknowledge", "fail"}
  /\ reader' = [reader EXCEPT !.at = "aborted"]
  /\ UNCHANGED <<shared, ids, codes, task, device>>

-----------------------------------------------------------------------------
Begin(t) ==
  \E o \in Ops[t] :
    \/ Start(t, o)
    \/ StartCall(t, o)
    \/ SetHandler(t, o)

Open(t) == \E o \in Ops[t] : /\ MakeChannel(t, o)
                          /\ UNCHANGED <<pending, handlers, caps, closed, reader>>

Handshake(t) == \E o \in Ops[t] :
  /\ PerformHandshake(t, o)
  /\ UNCHANGED <<channels, queues, metadata, pending, handlers, closed,
                 codes, reader, device>>

Wait(t) == Look(t) \/ Check(t) \/ Park(t) \/ Resume(t) \/ Timeout(t) \/ Watch(t)

Read == ReadReply \/ ReadInvoke \/ ReadCapabilities \/ ReadCancel \/ ReadRequest

Next == \/ \E t \in Tasks : Begin(t) \/ Open(t) \/ Handshake(t) \/ Call(t) \/ Wait(t)
        \/ Read
        \/ ReaderExits
        \/ DropClient

Spec == Init /\ [][Next]_vars

(* Every task that is not idle runs again, and so does the reader once it  *)
(* has something to finish: both are tasks of a multi-threaded runtime,    *)
(* and no action of theirs but the first waits for anyone.  Nothing is     *)
(* assumed of the device, of new operations, or of dropping the client.    *)
ReaderRuns == reader.at # "read" /\ (ReaderExits \/ ReadCancel \/ ReadRequest)

Fairness ==
  /\ WF_vars(ReaderRuns)
  /\ \A t \in Tasks :
       WF_vars(task[t].at # "idle" /\ (Open(t) \/ Handshake(t) \/ Call(t) \/ Wait(t)))

FairSpec == Spec /\ Fairness

-----------------------------------------------------------------------------
(* Type invariant.                                                         *)
Results == {"none", "ok", "message", "closed", "timeout", "unexpected", "skipped",
            "write failed", "unknown channel", "finished", "failed", "disconnected"}
Places == {"idle", "look", "check", "park", "parked", "watch", "enlist", "insert",
           "write", "await", "ensure", "set", "hello"}
Messages == [kind : {"reply", "invoke", "finish", "caps"}, id : 0..MaxId]

TypeOK ==
  /\ queues \in Seq(Seq(Messages))
  /\ channels \in [Codes -> 0..Len(queues)]
  /\ channels[0] # 0
  /\ metadata \in [Codes -> [identifier : Identifiers \cup {"none", "ctrl", "local"},
                             remote : BOOLEAN]]
  /\ pending \in [1..MaxId -> BOOLEAN]
  /\ handlers \subseteq Codes
  /\ caps \in {"Pending", "Skipped", "Received"}
  /\ closed \in BOOLEAN
  /\ ids \in 0..MaxId
  /\ codes \in 0..MaxCode
  /\ reader.at \in {"read", "unregister", "ensure", "initialize", "acknowledge",
                    "refused", "fail", "close", "notify", "gone", "aborted"}
  /\ \A t \in Tasks :
       /\ task[t].at \in Places
       /\ task[t].id \in 0..MaxId
       /\ task[t].queue \in 0..Len(queues)
       /\ task[t].woke \subseteq {"data", "closed", "gone"}
       /\ task[t].res \in Results
  /\ device.asked \subseteq [id : 1..MaxId, chan : Codes]
  /\ device.sent \in 0..MaxReceived

(* A reply belongs to the call that asked for it: while a task waits for   *)
(* the reply to its request, that reply is in no queue, where another      *)
(* reader would take it and the task would wait for ever.  The sender is   *)
(* registered before the request is written because the reader may see the *)
(* reply before the writer runs again.                                     *)
ReplyReachesItsCall ==
  \A t \in Tasks, q \in 1..Len(queues) : \A k \in 1..Len(queues[q]) :
    task[t].at \in {"insert", "write", "await"} =>
      queues[q][k] # [kind |-> "reply", id |-> task[t].id]

(* A channel the device knows to be acknowledged has its metadata, its     *)
(* queue and, unless the initializer failed or the handler was cleared     *)
(* since, its handler: nothing the device sends on it is dropped.          *)
AckedIsServed ==
  \A c \in device.acked :
    /\ channels[c] # 0
    /\ metadata[c] # NoChannel
    /\ metadata[c].identifier \in Registered /\ c \notin device.unserved => c \in handlers

(* Every wait that has an end comes to it: a call whose sender is pending  *)
(* when the reader stops gets its error, a task parked when the end of the *)
(* connection is announced is woken, and a wait with a timeout is over in  *)
(* the end.                                                                *)
Ending(t) ==
  \/ task[t].at = "await" /\ reader.at = "fail"
  \/ task[t].at = "parked" /\ (reader.at = "notify" \/ task[t].op.timed)

WaitsEnd ==
  \A t \in Tasks :
    Ending(t) ~> /\ task[t].at # "parked"
                 /\ task[t].at = "await" => reader.at = "aborted"

(* The comment of the test plan's loop: when the runner ends its           *)
(* connection before the finishing message was delivered, the run ends     *)
(* with TestRunnerDisconnected.                                            *)
DisconnectIsSurfaced ==
  [][\A t \in Tasks :
       task[t].op.op = "plan" /\ task[t].at # "idle" /\ task'[t].at = "idle"
         => task'[t].res # "closed"]_vars

=============================================================================
