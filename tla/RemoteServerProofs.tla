------------------------- MODULE RemoteServerProofs -------------------------
(***************************************************************************)
(* The reply to a request reaches the call that sent it.  The argument     *)
(* follows the identifier of a request: it is new when it is taken, it has *)
(* a sender in pending_replies before the device hears of it, and as long  *)
(* as the reader takes messages off the wire the sender is there until the *)
(* reply was given to it.  The second part follows a channel the device    *)
(* opens: it is served before it is acknowledged.                          *)
(***************************************************************************)
EXTENDS RemoteServer, TLAPS

\* What TypeOK does not say of the records, and of the codes the device opens.
ReaderPlaces == {"read", "unregister", "ensure", "initialize", "acknowledge",
                 "refused", "fail", "close", "notify", "gone", "aborted"}
Gots == {"none", "empty", "payload", "Pending", "Skipped", "Received"}
Operations == [op : OpNames \cup {"none"}, chan : Codes, timed : BOOLEAN]
TaskRecord == [at : Places, op : Operations, id : 0..MaxId, queue : Nat,
               woke : SUBSET {"data", "closed", "gone"}, got : Gots,
               res : Results, ran : Int]
Remote == -MaxCode..-1
Request == [id : 1..MaxId, chan : Codes]
Metadata == [identifier : Identifiers \cup {"none", "ctrl", "local"}, remote : BOOLEAN]

TasksTyped == task \in [Tasks -> TaskRecord]

QueuesTyped ==
  /\ queues \in Seq(Seq(Messages))
  /\ channels \in [Codes -> 0..Len(queues)]
  /\ channels[0] # 0
  /\ \A t \in Tasks : task[t].queue \in 0..Len(queues)

ReaderTyped ==
  /\ reader \in [at : ReaderPlaces, chan : Codes, id : Identifiers \cup {"none"}]
  /\ reader.at \in {"ensure", "initialize", "acknowledge"} => reader.chan \in Remote

DeviceTyped ==
  device \in [asked : SUBSET Request, acked : SUBSET Remote,
              unserved : SUBSET Codes, sent : 0..MaxReceived]

SharedTyped ==
  /\ metadata \in [Codes -> Metadata]
  /\ pending \in [1..MaxId -> BOOLEAN]
  /\ handlers \subseteq Codes
  /\ caps \in {"Pending", "Skipped", "Received"}
  /\ closed \in BOOLEAN
  /\ ids \in 0..MaxId
  /\ codes \in 0..MaxCode

Calling(t) == task[t].at \in {"insert", "write", "await"}

CallsTyped == \A t \in Tasks : Calling(t) => task[t].id \in 1..MaxId

Typed == /\ TasksTyped /\ QueuesTyped /\ ReaderTyped
         /\ DeviceTyped /\ SharedTyped /\ CallsTyped

-----------------------------------------------------------------------------
\* The reader takes no more messages.
Over == reader.at \in {"close", "notify", "gone"}

Asked(i) == \E r \in device.asked : r.id = i
Queued(i) == \E q \in 1..Len(queues) : \E k \in 1..Len(queues[q]) :
               queues[q][k] = [kind |-> "reply", id |-> i]

\* Identifiers are taken in order, and no two requests share one.
IdsTaken ==
  /\ \A t \in Tasks : Calling(t) => task[t].id <= ids
  /\ \A i \in 1..MaxId : Asked(i) \/ Queued(i) => i <= ids
IdsDiffer ==
  /\ \A s, t \in Tasks : Calling(s) /\ Calling(t) /\ task[s].id = task[t].id => s = t
  /\ \A r, s \in device.asked : r.id = s.id => r = s

\* The device hears of a request once its sender is registered, and the
\* sender stays until the reply was given to it or the reader is done.
SenderOf(t) ==
  /\ task[t].at \in {"ensure", "insert", "write"} => task[t].got = "none"
  /\ task[t].at \in {"insert", "write"} => ~Asked(task[t].id)
  /\ task[t].at = "write" => pending[task[t].id] \/ Over
  /\ task[t].at = "await" =>
       \/ task[t].got = "none" /\ (pending[task[t].id] \/ Over)
       \/ task[t].got # "none" /\ ~Asked(task[t].id)

SenderThere == \A t \in Tasks : SenderOf(t)

NotQueued == \A t \in Tasks : Calling(t) => ~Queued(task[t].id)

CorrInv == Typed /\ IdsTaken /\ IdsDiffer /\ SenderThere /\ NotQueued
-----------------------------------------------------------------------------
(* Lemmas about queues and notifications.                                  *)

\* The parts of a task that matter to its call are as they were.
SameCalls ==
  \A t \in Tasks : /\ task'[t].at = task[t].at /\ task'[t].id = task[t].id
                  /\ task'[t].got = task[t].got /\ task'[t].queue = task[t].queue

\* A notification changes nothing but who is woken.
LEMMA NotifyTasks ==
  ASSUME TasksTyped, NEW W, NEW how \in {"data", "closed", "gone"}, notify_waiters(W, how)
  PROVE  TasksTyped' /\ SameCalls
BY DEF TasksTyped, TaskRecord, notify_waiters, SameCalls

\* A message put at the end of a queue is the only one that is new.
LEMMA EnqueueOne ==
  ASSUME queues \in Seq(Seq(Messages)), NEW q \in 1..Len(queues), NEW m \in Messages,
         queues' = [queues EXCEPT ![q] = Append(@, m)]
  PROVE  /\ queues' \in Seq(Seq(Messages)) /\ Len(queues') = Len(queues)
         /\ \A i : Queued(i)' => Queued(i) \/ m = [kind |-> "reply", id |-> i]
<1>1. queues' \in Seq(Seq(Messages)) /\ Len(queues') = Len(queues)
  OBVIOUS
<1>2. \A p \in 1..Len(queues) : p # q => queues'[p] = queues[p]
  OBVIOUS
<1>3. /\ Len(queues'[q]) = Len(queues[q]) + 1
      /\ \A k \in 1..Len(queues[q]) : queues'[q][k] = queues[q][k]
      /\ queues'[q][Len(queues[q]) + 1] = m
      /\ Len(queues[q]) \in Nat
  OBVIOUS
<1>4. ASSUME NEW i, Queued(i)', m # [kind |-> "reply", id |-> i]
      PROVE  Queued(i)
  <2>1. PICK p \in 1..Len(queues) : \E k \in 1..Len(queues'[p]) :
                queues'[p][k] = [kind |-> "reply", id |-> i]
    BY <1>1, <1>4 DEF Queued
  <2>2. PICK k \in 1..Len(queues'[p]) : queues'[p][k] = [kind |-> "reply", id |-> i]
    BY <2>1
  <2>3. k \in 1..Len(queues[p]) /\ queues[p][k] = [kind |-> "reply", id |-> i]
    BY <1>2, <1>3, <1>4, <2>2
  <2> QED BY <2>3 DEF Queued
<1> QED BY <1>1, <1>4

\* Taking the first message brings nothing new.
LEMMA DequeueOne ==
  ASSUME queues \in Seq(Seq(Messages)), NEW q \in 1..Len(queues), queues[q] # <<>>,
         queues' = [queues EXCEPT ![q] = Tail(@)]
  PROVE  /\ queues' \in Seq(Seq(Messages)) /\ Len(queues') = Len(queues)
         /\ \A i : Queued(i)' => Queued(i)
<1>1. queues' \in Seq(Seq(Messages)) /\ Len(queues') = Len(queues)
  OBVIOUS
<1>2. \A p \in 1..Len(queues) : p # q => queues'[p] = queues[p]
  OBVIOUS
<1>3. /\ Len(queues'[q]) = Len(queues[q]) - 1
      /\ \A k \in 1..Len(queues'[q]) : queues'[q][k] = queues[q][k + 1]
      /\ Len(queues[q]) \in Nat
  OBVIOUS
<1>4. ASSUME NEW i, Queued(i)' PROVE Queued(i)
  <2>1. PICK p \in 1..Len(queues) : \E k \in 1..Len(queues'[p]) :
                queues'[p][k] = [kind |-> "reply", id |-> i]
    BY <1>1, <1>4 DEF Queued
  <2>2. PICK k \in 1..Len(queues'[p]) : queues'[p][k] = [kind |-> "reply", id |-> i]
    BY <2>1
  <2>3. CASE p = q
    <3>1. k + 1 \in 1..Len(queues[p]) /\ queues[p][k + 1] = [kind |-> "reply", id |-> i]
      BY <1>3, <2>2, <2>3
    <3> QED BY <3>1 DEF Queued
  <2>4. CASE p # q
    BY <1>2, <2>2, <2>4 DEF Queued
  <2> QED BY <2>3, <2>4
<1> QED BY <1>1, <1>4

\* A new queue is empty.
LEMMA QueueMade ==
  ASSUME QueuesTyped, NEW c \in Codes, ensure_channel_registered(c),
         \A t \in Tasks : task'[t].queue = task[t].queue
  PROVE  QueuesTyped' /\ \A i : Queued(i)' => Queued(i)
<1>1. CASE channels[c] # 0
  BY <1>1 DEF QueuesTyped, ensure_channel_registered, Queued
<1>2. CASE channels[c] = 0
  <2>1. queues' = Append(queues, <<>>) /\ channels' = [channels EXCEPT ![c] = Len(queues) + 1]
    BY <1>2 DEF ensure_channel_registered
  <2>2. queues \in Seq(Seq(Messages)) /\ <<>> \in Seq(Messages)
    BY DEF QueuesTyped
  <2>3. /\ queues' \in Seq(Seq(Messages)) /\ Len(queues') = Len(queues) + 1
        /\ \A p \in 1..Len(queues) : queues'[p] = queues[p]
        /\ queues'[Len(queues) + 1] = <<>> /\ Len(queues) \in Nat
    BY <2>1, <2>2
  <2>4. QueuesTyped'
    <3> DEFINE n == Len(queues)
    <3>1. n \in Nat /\ Len(queues') = n + 1 /\ channels' = [channels EXCEPT ![c] = n + 1]
      BY <2>1, <2>3
    <3>2. /\ channels \in [Codes -> 0..n] /\ channels[0] # 0
          /\ \A t \in Tasks : task'[t].queue \in 0..n
      BY DEF QueuesTyped
    <3> HIDE DEF n
    <3>3. channels' \in [Codes -> 0..(n + 1)] /\ channels'[0] # 0
      BY <3>1, <3>2
    <3>4. \A t \in Tasks : task'[t].queue \in 0..(n + 1)
      BY <3>1, <3>2
    <3> QED BY <2>3, <3>1, <3>3, <3>4 DEF QueuesTyped
  <2>5. ASSUME NEW i, Queued(i)' PROVE Queued(i)
    <3>1. PICK p \in 1..(Len(queues) + 1) : \E k \in 1..Len(queues'[p]) :
                queues'[p][k] = [kind |-> "reply", id |-> i]
      BY <2>3, <2>5 DEF Queued
    <3>2. p # Len(queues) + 1
      BY <2>3, <3>1
    <3>3. p \in 1..Len(queues)
      BY <2>3, <3>2
    <3>4. queues'[p] = queues[p]
      BY <2>3, <3>3
    <3> QED BY <3>1, <3>3, <3>4 DEF Queued
  <2> QED BY <2>4, <2>5
<1> QED BY <1>1, <1>2

\* A message queued for its channel, known or not.
LEMMA Enqueued ==
  ASSUME TasksTyped, QueuesTyped, NEW c \in Codes, NEW m \in Messages,
         enqueue_message(c, m), channels' = channels
  PROVE  /\ TasksTyped' /\ QueuesTyped' /\ SameCalls
         /\ \A i : Queued(i)' => Queued(i) \/ m = [kind |-> "reply", id |-> i]
<1>1. CASE channels[c] = 0
  BY <1>1 DEF enqueue_message, TasksTyped, QueuesTyped, SameCalls, Queued
<1>2. CASE channels[c] # 0
  <2> DEFINE q == channels[c]
  <2>1. q \in 1..Len(queues)
    BY <1>2 DEF QueuesTyped
  <2>2. queues' = [queues EXCEPT ![q] = Append(@, m)] /\ notify_waiters(OnQueue(q), "data")
    BY <1>2 DEF enqueue_message
  <2>3. TasksTyped' /\ SameCalls
    BY <2>2, NotifyTasks
  <2>4. /\ queues' \in Seq(Seq(Messages)) /\ Len(queues') = Len(queues)
        /\ \A i : Queued(i)' => Queued(i) \/ m = [kind |-> "reply", id |-> i]
    <3> HIDE DEF q
    <3> QED BY <2>1, <2>2, EnqueueOne DEF QueuesTyped
  <2>5. QueuesTyped'
    BY <2>3, <2>4 DEF QueuesTyped, SameCalls
  <2> QED BY <2>3, <2>4, <2>5
<1> QED BY <1>1, <1>2
-----------------------------------------------------------------------------
(* Lemmas about steps that leave the calls alone.                          *)

Others(t) == \A s \in Tasks \ {t} : task'[s] = task[s]

\* A task that has nothing under way.
LEMMA NoTaskTyped ==
  ASSUME BoundsAssumption
  PROVE  NoTask \in TaskRecord
<1>1. 0 \in 0..MaxId /\ 0 \in Codes
  BY DEF BoundsAssumption, Codes
<1>2. Idle \in Operations
  BY <1>1 DEF Idle, Operations
<1>3. "idle" \in Places /\ "none" \in Gots /\ "none" \in Results
  BY DEF Places, Gots, Results
<1> QED BY <1>1, <1>2, <1>3 DEF NoTask, TaskRecord

LEMMA EndRecord ==
  ASSUME NEW r \in TaskRecord, NEW n \in Int, NEW x \in Results
  PROVE  /\ [r EXCEPT !.ran = n, !.res = x] \in TaskRecord
         /\ [r EXCEPT !.ran = n, !.res = x].at = r.at
         /\ [r EXCEPT !.ran = n, !.res = x].queue = r.queue
         /\ [r EXCEPT !.ran = n] \in TaskRecord
         /\ [r EXCEPT !.ran = n].at = r.at
         /\ [r EXCEPT !.ran = n].queue = r.queue
BY DEF TaskRecord

LEMMA FinishOne ==
  ASSUME BoundsAssumption, TasksTyped, NEW t \in Tasks, NEW res \in Results, Finish(t, res)
  PROVE  TasksTyped' /\ Others(t) /\ task'[t].at = "idle" /\ task'[t].queue = 0
<1> DEFINE x == IF task[t].op.op = "plan" THEN res ELSE "none"
           r == [NoTask EXCEPT !.ran = task[t].ran, !.res = x]
<1>1. task[t].ran \in Int /\ x \in Results
  BY DEF TasksTyped, TaskRecord, Results
<1>2. NoTask.at = "idle" /\ NoTask.queue = 0
  BY DEF NoTask
<1>3. r \in TaskRecord /\ r.at = "idle" /\ r.queue = 0
  <2> HIDE DEF x
  <2> QED BY <1>1, <1>2, NoTaskTyped, EndRecord
<1>4. task' = [task EXCEPT ![t] = r]
  BY DEF Finish
<1> HIDE DEF r
<1> QED BY <1>3, <1>4 DEF TasksTyped, Others

LEMMA GotoOne ==
  ASSUME TasksTyped, NEW t \in Tasks, NEW at \in Places, Goto(t, at)
  PROVE  /\ TasksTyped' /\ Others(t) /\ task'[t].at = at /\ task'[t].id = task[t].id
         /\ task'[t].got = task[t].got /\ task'[t].queue = task[t].queue
BY DEF TasksTyped, TaskRecord, Goto, Others

LEMMA StartingOne ==
  ASSUME BoundsAssumption, TasksTyped, NEW t \in Tasks, NEW a \in Places, NEW o \in Operations,
         NEW s, s = Starting(t, a, o)
  PROVE  s \in TaskRecord /\ s.at = a /\ s.op = o /\ s.queue = 0 /\ s.got = "none"
<1> DEFINE n == task[t].ran + 1
           r == NoTask
<1>1. n \in Int
  BY DEF TasksTyped, TaskRecord
<1>2. r \in TaskRecord /\ r.queue = 0 /\ r.got = "none"
  BY NoTaskTyped DEF NoTask
<1>3. s = [r EXCEPT !.at = a, !.op = o, !.ran = n]
  BY DEF Starting
<1> HIDE DEF n, r
<1>4. s \in TaskRecord /\ s.at = a /\ s.op = o /\ s.queue = r.queue /\ s.got = r.got
  BY <1>1, <1>2, <1>3 DEF TaskRecord
<1> QED BY <1>2, <1>4

LEMMA PassesOne ==
  ASSUME BoundsAssumption, TasksTyped, NEW t \in Tasks, Passes(t)
  PROVE  TasksTyped' /\ Others(t) /\ task'[t].at = "idle" /\ task'[t].queue = 0
<1> DEFINE r == [NoTask EXCEPT !.ran = task[t].ran + 1]
<1>1. task[t].ran + 1 \in Int
  BY DEF TasksTyped, TaskRecord
<1>2. NoTask.at = "idle" /\ NoTask.queue = 0
  BY DEF NoTask
<1>3. r \in TaskRecord /\ r.at = "idle" /\ r.queue = 0
  <2> DEFINE n == task[t].ran + 1
  <2>1. n \in Int /\ r = [NoTask EXCEPT !.ran = n]
    BY <1>1
  <2> HIDE DEF n, r
  <2>2. "none" \in Results
    BY DEF Results
  <2> QED BY <1>2, <2>1, <2>2, NoTaskTyped, EndRecord
<1>4. task' = [task EXCEPT ![t] = r]
  BY DEF Passes
<1> HIDE DEF r
<1> QED BY <1>3, <1>4 DEF TasksTyped, Others

\* The operations of a task are well formed.
LEMMA OpTyped ==
  ASSUME OpsAssumption, NEW t \in Tasks, NEW o \in Ops[t]
  PROVE  o \in Operations
BY DEF OpsAssumption, Operations, Codes

\* A step that brings no request, no reply and no call.
LEMMA Frame ==
  ASSUME CorrInv, Typed', ids <= ids', device'.asked = device.asked, pending' = pending,
         \A i : Queued(i)' => Queued(i),
         \A t \in Tasks : Calling(t)' => /\ task'[t].at = task[t].at
                                        /\ task'[t].id = task[t].id
                                        /\ task'[t].got = task[t].got,
         \A t \in Tasks : task'[t].at = "ensure" => task'[t].got = "none",
         Over => Over'
  PROVE  CorrInv'
<1> USE DEF Calling, Asked
<1>1. ids \in Int /\ ids' \in Int /\ \A t \in Tasks : task[t].id \in Int
  BY DEF CorrInv, Typed, SharedTyped, TasksTyped, TaskRecord
<1>2. IdsTaken'
  BY <1>1 DEF CorrInv, IdsTaken
<1>3. IdsDiffer'
  BY DEF CorrInv, IdsDiffer
<1>4. SenderThere'
  BY DEF CorrInv, SenderThere, SenderOf
<1>5. NotQueued'
  BY DEF CorrInv, NotQueued
<1> QED BY <1>2, <1>3, <1>4, <1>5 DEF CorrInv

CallPlaces == {"ensure", "insert", "write", "await"}

\* A task goes on outside its calls, or starts or ends an operation.
LEMMA OneTask ==
  ASSUME CorrInv, NEW t \in Tasks, TasksTyped', Others(t),
         task'[t].at \notin CallPlaces, task'[t].queue \in 0..Len(queues),
         channels' = channels, queues' \in Seq(Seq(Messages)), Len(queues') = Len(queues),
         \A i : Queued(i)' => Queued(i),
         reader' = reader, DeviceTyped', device'.asked = device.asked,
         SharedTyped', pending' = pending, ids <= ids'
  PROVE  CorrInv'
<1>1. QueuesTyped'
  BY DEF CorrInv, Typed, QueuesTyped, Others
<1>2. ReaderTyped' /\ (Over => Over')
  BY DEF CorrInv, Typed, ReaderTyped, Over
<1>3. \A s \in Tasks : Calling(s)' => s # t /\ task'[s] = task[s]
  BY DEF Calling, Others, CallPlaces
<1>4. CallsTyped'
  BY <1>3 DEF CorrInv, Typed, CallsTyped, Calling
<1>5. \A s \in Tasks : task'[s].at = "ensure" => task'[s].got = "none"
  BY DEF CorrInv, SenderThere, SenderOf, Others, CallPlaces
<1> QED
  <2>1. Typed'
    BY <1>1, <1>2, <1>4 DEF Typed
  <2> QED BY <1>2, <1>3, <1>5, <2>1, Frame
LEMMA OneTaskOnly ==
  ASSUME CorrInv, NEW t \in Tasks, TasksTyped', Others(t),
         task'[t].at \notin CallPlaces, task'[t].queue \in 0..Len(queues),
         UNCHANGED <<shared, ids, codes, reader, device>>
  PROVE  CorrInv'
<1>1. DeviceTyped' /\ SharedTyped'
  BY DEF CorrInv, Typed, DeviceTyped, SharedTyped, shared
<1>2. /\ queues' = queues /\ channels' = channels /\ queues \in Seq(Seq(Messages))
      /\ \A i : Queued(i)' => Queued(i)
  BY DEF CorrInv, Typed, QueuesTyped, shared, Queued
<1>3. ids \in Int /\ ids' = ids /\ pending' = pending /\ device'.asked = device.asked /\ reader' = reader
  BY DEF CorrInv, Typed, SharedTyped, shared
<1> QED BY <1>1, <1>2, <1>3, OneTask

-----------------------------------------------------------------------------
(* The steps of the tasks that wait.                                       *)

\* An operation that looks, tests the flag or watches begins.
LEMMA StartStep ==
  ASSUME BoundsAssumption, OpsAssumption, CorrInv,
         NEW t \in Tasks, NEW o \in Ops[t], Start(t, o)
  PROVE  CorrInv'
<1> DEFINE a == Entry(o.op)
           s == Starting(t, a, o)
<1>1. a \in Places /\ a \notin CallPlaces
  BY DEF Start, Entry, Places, CallPlaces
<1>2. o \in Operations
  BY OpTyped
<1>3. s \in TaskRecord /\ s.at = a /\ s.queue = 0
  <2> HIDE DEF a
  <2> QED BY <1>1, <1>2, StartingOne DEF CorrInv, Typed
<1>4. task' = [task EXCEPT ![t] = s] /\ UNCHANGED <<shared, ids, codes, reader, device>>
  BY DEF Start
<1> HIDE DEF a, s
<1>5. TasksTyped' /\ Others(t) /\ task'[t] = s
  BY <1>3, <1>4 DEF CorrInv, Typed, TasksTyped, Others
<1>6. 0 \in 0..Len(queues)
  BY DEF CorrInv, Typed, QueuesTyped
<1> QED BY <1>1, <1>3, <1>4, <1>5, <1>6, OneTaskOnly

\* The task returns.
LEMMA FinishStep ==
  ASSUME BoundsAssumption, CorrInv, NEW t \in Tasks, NEW res \in Results, Finish(t, res),
         UNCHANGED <<shared, ids, codes, reader, device>>
  PROVE  CorrInv'
<1>1. TasksTyped' /\ Others(t) /\ task'[t].at = "idle" /\ task'[t].queue = 0
  BY FinishOne DEF CorrInv, Typed
<1>2. 0 \in 0..Len(queues) /\ "idle" \notin CallPlaces
  BY DEF CorrInv, Typed, QueuesTyped, CallPlaces
<1> QED BY <1>1, <1>2, OneTaskOnly

\* The task goes on.
LEMMA GotoStep ==
  ASSUME CorrInv, NEW t \in Tasks, NEW a \in Places \ CallPlaces, Goto(t, a),
         UNCHANGED <<shared, ids, codes, reader, device>>
  PROVE  CorrInv'
<1>1. TasksTyped' /\ Others(t) /\ task'[t].at = a /\ task'[t].queue = task[t].queue
  BY GotoOne DEF CorrInv, Typed
<1>2. task[t].queue \in 0..Len(queues)
  BY DEF CorrInv, Typed, QueuesTyped
<1> QED BY <1>1, <1>2, OneTaskOnly

LEMMA CheckStep ==
  ASSUME BoundsAssumption, CorrInv, NEW t \in Tasks, Check(t)
  PROVE  CorrInv'
<1>1. ClosedResult(task[t].op) \in Results /\ "park" \in Places \ CallPlaces
  BY DEF ClosedResult, Results, Places, CallPlaces
<1> QED BY <1>1, FinishStep, GotoStep DEF Check

LEMMA ParkStep ==
  ASSUME CorrInv, NEW t \in Tasks, Park(t)
  PROVE  CorrInv'
<1>1. "parked" \in Places \ CallPlaces
  BY DEF Places, CallPlaces
<1> QED BY <1>1, GotoStep DEF Park

LEMMA WatchStep ==
  ASSUME BoundsAssumption, CorrInv, NEW t \in Tasks, Watch(t)
  PROVE  CorrInv'
<1>1. "disconnected" \in Results /\ {"enlist", "look"} \subseteq Places \ CallPlaces
  BY DEF Results, Places, CallPlaces
<1> QED BY <1>1, FinishStep, GotoStep DEF Watch

LEMMA ResumeStep ==
  ASSUME BoundsAssumption, CorrInv, NEW t \in Tasks, Resume(t)
  PROVE  CorrInv'
<1>1. CASE task' = [task EXCEPT ![t].at = "look", ![t].woke = @ \cap {"gone"}]
  <2>1. /\ TasksTyped' /\ Others(t) /\ task'[t].at = "look"
        /\ task'[t].queue = task[t].queue
    <3> DEFINE s == [task[t] EXCEPT !.at = "look", !.woke = @ \cap {"gone"}]
    <3>1. task \in [Tasks -> TaskRecord] /\ task[t] \in TaskRecord
      BY DEF CorrInv, Typed, TasksTyped
    <3>2. s \in TaskRecord /\ s.at = "look" /\ s.queue = task[t].queue
      BY <3>1 DEF TaskRecord, Places
    <3>3. task' = [task EXCEPT ![t] = s]
      BY <1>1
    <3> HIDE DEF s
    <3> QED BY <3>1, <3>2, <3>3 DEF TasksTyped, Others
  <2>2. "look" \notin CallPlaces /\ task[t].queue \in 0..Len(queues)
    BY DEF CorrInv, Typed, QueuesTyped, CallPlaces
  <2> QED BY <2>1, <2>2, OneTaskOnly DEF Resume
<1>2. CASE Finish(t, ClosedResult(task[t].op))
  <2>1. ClosedResult(task[t].op) \in Results
    BY DEF ClosedResult, Results
  <2> QED BY <1>2, <2>1, FinishStep DEF Resume
<1>3. CASE Finish(t, "disconnected")
  <2>1. "disconnected" \in Results
    BY DEF Results
  <2> QED BY <1>3, <2>1, FinishStep DEF Resume
<1> QED BY <1>1, <1>2, <1>3 DEF Resume

LEMMA TimeoutStep ==
  ASSUME BoundsAssumption, CorrInv, NEW t \in Tasks, Timeout(t)
  PROVE  CorrInv'
<1>1. CASE task[t].op.op = "driver"
  <2>1. task' = [task EXCEPT ![t].at = "look", ![t].op.op = "code", ![t].woke = {}]
    BY <1>1 DEF Timeout
  <2>2. /\ TasksTyped' /\ Others(t) /\ task'[t].at = "look"
        /\ task'[t].queue = task[t].queue
    <3> DEFINE o == [task[t].op EXCEPT !.op = "code"]
               r == [task[t] EXCEPT !.at = "look", !.op = o, !.woke = {}]
    <3>1. task[t] \in TaskRecord /\ task \in [Tasks -> TaskRecord]
      BY DEF CorrInv, Typed, TasksTyped
    <3>2. o \in Operations
      BY <3>1 DEF TaskRecord, Operations, OpNames
    <3>3. task' = [task EXCEPT ![t] = r]
      BY <2>1, <3>1 DEF TaskRecord
    <3> HIDE DEF o
    <3>4. r \in TaskRecord /\ r.at = "look" /\ r.queue = task[t].queue
      BY <3>1, <3>2 DEF TaskRecord, Places
    <3> HIDE DEF r
    <3> QED BY <3>1, <3>3, <3>4 DEF TasksTyped, Others
  <2>3. "look" \notin CallPlaces /\ task[t].queue \in 0..Len(queues)
    BY DEF CorrInv, Typed, QueuesTyped, CallPlaces
  <2> QED BY <2>2, <2>3, OneTaskOnly DEF Timeout
<1>2. CASE task[t].op.op # "driver"
  <2>1. "timeout" \in Results
    BY DEF Results
  <2> QED BY <1>2, <2>1, FinishStep DEF Timeout
<1> QED BY <1>1, <1>2
\* A waiting task looks at its queue: with a message it takes it.
LEMMA LookAtQueueStep ==
  ASSUME BoundsAssumption, CorrInv, NEW t \in Tasks, LookAtQueue(t),
         UNCHANGED <<channels, metadata, pending, handlers, caps, closed,
                     ids, codes, reader, device>>
  PROVE  CorrInv'
<1> DEFINE q == channels[task[t].op.chan]
<1>1. TasksTyped /\ QueuesTyped /\ DeviceTyped' /\ SharedTyped' /\ ids \in Int
  BY DEF CorrInv, Typed, DeviceTyped, SharedTyped
<1>2. q \in 0..Len(queues) /\ Len(queues) \in Nat
  BY <1>1 DEF TasksTyped, TaskRecord, QueuesTyped, Operations
<1>3. {"unknown channel", "message", "failed", "finished"} \subseteq Results
  BY DEF Results
<1>4. "look" \in Places \ CallPlaces /\ "check" \in Places \ CallPlaces
      /\ "idle" \notin CallPlaces
  BY DEF Places, CallPlaces
<1>5. CASE q = 0 /\ Finish(t, "unknown channel") /\ UNCHANGED queues
  BY <1>3, <1>5, FinishStep DEF shared
<1>6. CASE q # 0 /\ task' = [task EXCEPT ![t].at = "check", ![t].queue = q] /\ UNCHANGED queues
  <2> HIDE DEF q
  <2>1. TasksTyped' /\ Others(t) /\ task'[t].at = "check" /\ task'[t].queue = q
    <3> DEFINE r == [task[t] EXCEPT !.at = "check", !.queue = q]
    <3>1. q \in Nat /\ task[t] \in TaskRecord
      BY <1>1, <1>2 DEF TasksTyped
    <3>2. r \in TaskRecord /\ r.at = "check" /\ r.queue = q
      BY <1>4, <3>1 DEF TaskRecord
    <3>3. task' = [task EXCEPT ![t] = r]
      BY <1>6
    <3> HIDE DEF r
    <3> QED BY <1>1, <3>2, <3>3 DEF TasksTyped, Others
  <2> QED BY <1>2, <1>4, <1>6, <2>1, OneTaskOnly DEF shared
<1>7. CASE /\ q # 0 /\ queues[q] # <<>>
           /\ queues' = [queues EXCEPT ![q] = Tail(@)]
           /\ \/ \E res \in Results : Finish(t, res)
              \/ Goto(t, "look")
  <2> HIDE DEF q
  <2>1. q \in 1..Len(queues) /\ queues \in Seq(Seq(Messages))
    BY <1>1, <1>2, <1>7 DEF QueuesTyped
  <2>2. /\ queues' \in Seq(Seq(Messages)) /\ Len(queues') = Len(queues)
        /\ \A i : Queued(i)' => Queued(i)
    BY <1>7, <2>1, DequeueOne
  <2>3. /\ TasksTyped' /\ Others(t) /\ task'[t].at \notin CallPlaces
        /\ task'[t].queue \in 0..Len(queues)
    <3>1. task[t].queue \in 0..Len(queues) /\ 0 \in 0..Len(queues)
      BY <1>1, <1>2 DEF QueuesTyped
    <3>2. CASE \E res \in Results : Finish(t, res)
      BY <1>1, <1>4, <3>1, <3>2, FinishOne
    <3>3. CASE Goto(t, "look")
      BY <1>1, <1>4, <3>1, <3>3, GotoOne
    <3> QED BY <1>7, <3>2, <3>3
  <2> QED BY <1>1, <2>2, <2>3, OneTask
<1> QED
  <2>1. ASSUME NEW m, run_dispatch_loop(t, m)
        PROVE  (\E res \in Results : Finish(t, res)) \/ Goto(t, "look")
    BY <1>3, <2>1 DEF run_dispatch_loop
  <2> QED BY <1>3, <1>5, <1>6, <1>7, <2>1 DEF LookAtQueue

LEMMA LookStep ==
  ASSUME BoundsAssumption, CorrInv, NEW t \in Tasks, Look(t)
  PROVE  CorrInv'
<1>1. {"ok", "unexpected", "skipped"} \subseteq Results /\ "check" \in Places \ CallPlaces
  BY DEF Results, Places, CallPlaces
<1>2. CASE LookAtQueue(t)
  BY <1>2, LookAtQueueStep DEF Look
<1>3. CASE LookAtRegistry(t) /\ UNCHANGED queues
  BY <1>1, <1>3, FinishStep, GotoStep DEF Look, LookAtRegistry, shared
<1>4. CASE LookAtCapabilities(t) /\ UNCHANGED queues
  <2>1. (\E res \in Results : Finish(t, res)) \/ Goto(t, "check")
    BY <1>1, <1>4 DEF LookAtCapabilities, CorrInv, Typed, SharedTyped
  <2> QED BY <1>1, <1>4, <2>1, FinishStep, GotoStep DEF Look, shared
<1> QED BY <1>2, <1>3, <1>4 DEF Look

LEMMA WaitStep ==
  ASSUME BoundsAssumption, CorrInv, NEW t \in Tasks, Wait(t)
  PROVE  CorrInv'
BY LookStep, CheckStep, ParkStep, ResumeStep, TimeoutStep, WatchStep DEF Wait
-----------------------------------------------------------------------------
(* The steps of calls.                                                     *)

\* Everything of a task but its identifier.
LEMMA IdRecord ==
  ASSUME NEW r \in TaskRecord, NEW i \in 0..MaxId, NEW s, s = [r EXCEPT !.id = i]
  PROVE  /\ s \in TaskRecord /\ s.id = i
         /\ s.at = r.at /\ s.got = r.got /\ s.queue = r.queue /\ s.op = r.op
BY DEF TaskRecord

\* A call takes the next identifier: nobody has it, nobody asked for it.
LEMMA NewCall ==
  ASSUME CorrInv, Typed', NEW t \in Tasks, ids' = ids + 1,
         task'[t].at = "insert", task'[t].id = ids + 1, task'[t].got = "none",
         \A s \in Tasks \ {t} : /\ task'[s].at = task[s].at /\ task'[s].id = task[s].id
                               /\ task'[s].got = task[s].got,
         device' = device, pending' = pending, reader' = reader,
         \A i : Queued(i)' => Queued(i)
  PROVE  CorrInv'
<1> USE DEF Calling, Asked
<1>1. /\ ids \in Int /\ ids + 1 \in 1..MaxId /\ \A s \in Tasks : task[s].id \in Int
      /\ \A r \in device.asked : r.id \in 1..MaxId
  BY DEF CorrInv, Typed, SharedTyped, TasksTyped, TaskRecord, DeviceTyped, Request
<1>2. ~Asked(ids + 1) /\ ~Queued(ids + 1)
  BY <1>1 DEF CorrInv, IdsTaken
<1>3. IdsTaken'
  BY <1>1 DEF CorrInv, IdsTaken
<1>4. IdsDiffer'
  BY <1>1 DEF CorrInv, IdsTaken, IdsDiffer
<1>5. SenderThere'
  BY <1>2 DEF CorrInv, SenderThere, SenderOf, Over
<1>6. NotQueued'
  BY <1>2 DEF CorrInv, NotQueued
<1> QED BY <1>3, <1>4, <1>5, <1>6 DEF CorrInv

\* call_method writes a request nobody waits for.
LEMMA PostStep ==
  ASSUME BoundsAssumption, CorrInv, NEW t \in Tasks, NEW c \in Codes, ids < MaxId,
         ids' = ids + 1, Passes(t),
         device' = [device EXCEPT !.asked = @ \cup {[id |-> ids + 1, chan |-> c]}],
         UNCHANGED <<shared, codes, reader>>
  PROVE  CorrInv'
<1> USE DEF Calling, Asked
<1>1. /\ ids \in Int /\ ids + 1 \in 1..MaxId /\ \A s \in Tasks : task[s].id \in Int
      /\ \A r \in device.asked : r.id \in 1..MaxId
  BY DEF CorrInv, Typed, SharedTyped, TasksTyped, TaskRecord, DeviceTyped, Request
<1>2. TasksTyped' /\ Others(t) /\ task'[t].at = "idle" /\ task'[t].queue = 0
  BY PassesOne DEF CorrInv, Typed
<1>3. device'.asked = device.asked \cup {[id |-> ids + 1, chan |-> c]} /\ DeviceTyped'
  <2> DEFINE new == [id |-> ids + 1, chan |-> c]
  <2>1. new \in Request
    BY <1>1 DEF Request
  <2>2. device \in [asked : SUBSET Request, acked : SUBSET Remote,
                    unserved : SUBSET Codes, sent : 0..MaxReceived]
    BY DEF CorrInv, Typed, DeviceTyped
  <2> HIDE DEF new
  <2> QED BY <2>1, <2>2 DEF DeviceTyped, new
<1>4. /\ queues' = queues /\ pending' = pending /\ reader' = reader
      /\ \A i : Queued(i)' <=> Queued(i)
  BY DEF shared, Queued
<1>5. \A s \in Tasks : Calling(s)' => Calling(s) /\ task'[s] = task[s]
  BY <1>2 DEF Others
<1>6. Typed'
  <2>1. QueuesTyped'
    <3>1. \A s \in Tasks : task'[s].queue \in 0..Len(queues)
      BY <1>2 DEF CorrInv, Typed, QueuesTyped, Others
    <3> QED BY <3>1 DEF CorrInv, Typed, QueuesTyped, shared
  <2>2. ReaderTyped' /\ SharedTyped' /\ CallsTyped'
    BY <1>1, <1>5 DEF CorrInv, Typed, ReaderTyped, SharedTyped, CallsTyped, shared
  <2> QED BY <1>2, <1>3, <2>1, <2>2 DEF Typed
<1>7. \A i : Asked(i)' <=> Asked(i) \/ i = ids + 1
  <2> DEFINE new == [id |-> ids + 1, chan |-> c]
  <2>1. new.id = ids + 1 /\ device'.asked = device.asked \cup {new}
    BY <1>3
  <2> HIDE DEF new
  <2> QED BY <2>1
<1>8. IdsTaken'
  BY <1>1, <1>4, <1>5, <1>7 DEF CorrInv, IdsTaken
<1>9. IdsDiffer'
  BY <1>1, <1>3, <1>5, <1>7 DEF CorrInv, IdsTaken, IdsDiffer
<1>10. SenderThere'
  <2>1. \A s \in Tasks : Calling(s) => task[s].id # ids + 1
    BY <1>1 DEF CorrInv, IdsTaken
  <2>2. \A s \in Tasks : task'[s].at \in CallPlaces => task'[s] = task[s]
    BY <1>2 DEF Others, CallPlaces
  <2> QED BY <1>4, <1>7, <2>1, <2>2 DEF CorrInv, SenderThere, SenderOf, Over, CallPlaces
<1>11. NotQueued'
  BY <1>4, <1>5 DEF CorrInv, NotQueued
<1> QED BY <1>6, <1>8, <1>9, <1>10, <1>11 DEF CorrInv
LEMMA StartCallStep ==
  ASSUME BoundsAssumption, OpsAssumption, CorrInv,
         NEW t \in Tasks, NEW o \in Ops[t], StartCall(t, o)
  PROVE  CorrInv'
<1>1. o \in Operations /\ o.chan \in Codes /\ MaxId \in Nat
  BY OpTyped DEF Operations, BoundsAssumption
<1>2. ids \in 0..MaxId /\ ids < MaxId /\ ids' = ids + 1 /\ TasksTyped
  BY DEF StartCall, CorrInv, Typed, SharedTyped
<1>3. CASE /\ task' = [task EXCEPT ![t] = [Starting(t, "insert", o) EXCEPT !.id = ids + 1]]
           /\ UNCHANGED device
  <2> DEFINE r == Starting(t, "insert", o)
             s == [r EXCEPT !.id = ids + 1]
  <2>1. r \in TaskRecord /\ r.at = "insert" /\ r.queue = 0 /\ r.got = "none"
    <3>1. "insert" \in Places
      BY DEF Places
    <3> QED BY <1>1, <1>2, <3>1, StartingOne
  <2>2. ids + 1 \in 1..MaxId
    BY <1>1, <1>2
  <2> HIDE DEF r
  <2>3. /\ s \in TaskRecord /\ s.id = ids + 1
        /\ s.at = "insert" /\ s.got = "none" /\ s.queue = 0
    BY <2>1, <2>2, IdRecord
  <2>4. task' = [task EXCEPT ![t] = s]
    BY <1>3 DEF r
  <2> HIDE DEF s
  <2>5. TasksTyped' /\ Others(t) /\ task'[t] = s
    BY <1>2, <2>3, <2>4 DEF TasksTyped, Others
  <2>6. Typed'
    <3>1. \A u \in Tasks : task'[u].queue \in 0..Len(queues)
      BY <2>3, <2>5 DEF CorrInv, Typed, QueuesTyped, Others
    <3>2. QueuesTyped'
      BY <3>1 DEF CorrInv, Typed, QueuesTyped, StartCall, shared
    <3>3. ReaderTyped' /\ DeviceTyped' /\ SharedTyped'
      BY <1>2, <1>3, <2>2 DEF CorrInv, Typed, ReaderTyped, DeviceTyped, SharedTyped,
                         StartCall, shared
    <3>4. CallsTyped'
      BY <2>2, <2>3, <2>5 DEF CorrInv, Typed, CallsTyped, Calling, Others
    <3> QED BY <2>5, <3>2, <3>3, <3>4 DEF Typed
  <2>7. pending' = pending /\ reader' = reader /\ \A i : Queued(i)' => Queued(i)
    BY DEF StartCall, shared, Queued
  <2> QED BY <1>2, <1>3, <2>3, <2>5, <2>6, <2>7, NewCall DEF Others
<1>4. CASE /\ Passes(t)
           /\ device' = [device EXCEPT !.asked = @ \cup {[id |-> ids + 1, chan |-> o.chan]}]
  BY <1>1, <1>2, <1>4, PostStep DEF StartCall
<1>5. CASE Passes(t) /\ UNCHANGED device
  <2>1. TasksTyped' /\ Others(t) /\ task'[t].at = "idle" /\ task'[t].queue = 0
    BY <1>2, <1>5, PassesOne
  <2>2. "idle" \notin CallPlaces /\ 0 \in 0..Len(queues) /\ queues \in Seq(Seq(Messages))
    BY DEF CallPlaces, CorrInv, Typed, QueuesTyped
  <2>3. DeviceTyped' /\ SharedTyped'
    BY <1>1, <1>2, <1>5 DEF CorrInv, Typed, DeviceTyped, SharedTyped, StartCall, shared
  <2>4. /\ pending' = pending /\ reader' = reader /\ channels' = channels /\ queues' = queues
        /\ \A i : Queued(i)' => Queued(i)
    BY DEF StartCall, shared, Queued
  <2>5. device'.asked = device.asked /\ ids <= ids'
    BY <1>2, <1>5
  <2> QED BY <2>1, <2>2, <2>3, <2>4, <2>5, OneTask
<1> QED BY <1>3, <1>4, <1>5 DEF StartCall

LEMMA SetHandlerStep ==
  ASSUME BoundsAssumption, OpsAssumption, CorrInv,
         NEW t \in Tasks, NEW o \in Ops[t], SetHandler(t, o)
  PROVE  CorrInv'
<1>1. o.chan \in Codes
  BY OpTyped DEF Operations
<1>2. TasksTyped' /\ Others(t) /\ task'[t].at = "idle" /\ task'[t].queue = 0
  BY PassesOne DEF SetHandler, CorrInv, Typed
<1>3. "idle" \notin CallPlaces /\ 0 \in 0..Len(queues) /\ queues \in Seq(Seq(Messages))
  BY DEF CallPlaces, CorrInv, Typed, QueuesTyped
<1>4. handlers' \subseteq Codes
  BY <1>1 DEF SetHandler, CorrInv, Typed, SharedTyped
<1>5. SharedTyped' /\ ids <= ids'
  BY <1>4 DEF CorrInv, Typed, SharedTyped, SetHandler
<1>6. DeviceTyped' /\ device'.asked = device.asked
  <2>1. CASE device' = device
    BY <2>1 DEF CorrInv, Typed, DeviceTyped
  <2>2. CASE device' = [device EXCEPT !.unserved = @ \cup {o.chan}]
    BY <1>1, <2>2 DEF CorrInv, Typed, DeviceTyped
  <2> QED BY <2>1, <2>2 DEF SetHandler
<1>7. /\ pending' = pending /\ reader' = reader /\ channels' = channels /\ queues' = queues
      /\ \A i : Queued(i)' => Queued(i)
  BY DEF SetHandler, Queued
<1> QED BY <1>2, <1>3, <1>5, <1>6, <1>7, OneTask

LEMMA BeginStep ==
  ASSUME BoundsAssumption, OpsAssumption, CorrInv, NEW t \in Tasks, Begin(t)
  PROVE  CorrInv'
BY StartStep, StartCallStep, SetHandlerStep DEF Begin
\* make_channel registers and announces the code it took.
LEMMA OpenFirst ==
  ASSUME BoundsAssumption, OpsAssumption, CorrInv, NEW t \in Tasks, NEW o \in Ops[t],
         codes < MaxCode, codes' = codes + 1,
         metadata' = [metadata EXCEPT ![codes + 1] = [identifier |-> "local", remote |-> FALSE]],
         task' = [s \in Tasks |->
                   IF s = t THEN Starting(t, "ensure", [o EXCEPT !.chan = codes + 1])
                   ELSE IF s \in OnRegistry THEN [task[s] EXCEPT !.woke = @ \cup {"data"}]
                   ELSE task[s]],
         UNCHANGED <<channels, queues, ids, device, pending, handlers, caps, closed, reader>>
  PROVE  CorrInv'
<1> DEFINE p == [o EXCEPT !.chan = codes + 1]
           r == Starting(t, "ensure", p)
<1>1. codes \in 0..MaxCode /\ MaxCode \in Nat /\ codes + 1 \in Codes /\ TasksTyped
  BY DEF CorrInv, Typed, SharedTyped, BoundsAssumption, Codes
<1>2. p \in Operations
  BY <1>1, OpTyped DEF Operations
<1>3. r \in TaskRecord /\ r.at = "ensure" /\ r.queue = 0 /\ r.got = "none"
  <2>1. "ensure" \in Places
    BY DEF Places
  <2> HIDE DEF p
  <2> QED BY <1>1, <1>2, <2>1, StartingOne
<1>4. task' = [s \in Tasks |->
                IF s = t THEN r
                ELSE IF s \in OnRegistry THEN [task[s] EXCEPT !.woke = @ \cup {"data"}]
                ELSE task[s]]
  OBVIOUS
<1> HIDE DEF r, p
<1>5. TasksTyped' /\ task'[t] = r
  BY <1>1, <1>3, <1>4 DEF TasksTyped, TaskRecord
<1>6. \A s \in Tasks \ {t} : /\ task'[s].at = task[s].at /\ task'[s].id = task[s].id
                            /\ task'[s].got = task[s].got /\ task'[s].queue = task[s].queue
  BY <1>1, <1>4 DEF TasksTyped, TaskRecord
<1>7. metadata' \in [Codes -> Metadata]
  <2> DEFINE m == [identifier |-> "local", remote |-> FALSE]
  <2>1. m \in Metadata
    BY DEF Metadata
  <2> HIDE DEF m
  <2>2. metadata' = [metadata EXCEPT ![codes + 1] = m]
    BY DEF m
  <2> QED BY <1>1, <2>1, <2>2 DEF CorrInv, Typed, SharedTyped
<1>8. Typed'
  <2>1. \A s \in Tasks : task'[s].queue \in 0..Len(queues)
    <3>1. 0 \in 0..Len(queues) /\ \A s \in Tasks : task[s].queue \in 0..Len(queues)
      BY DEF CorrInv, Typed, QueuesTyped
    <3> QED BY <1>3, <1>5, <1>6, <3>1
  <2>2. QueuesTyped'
    BY <2>1 DEF CorrInv, Typed, QueuesTyped
  <2>3. ReaderTyped' /\ DeviceTyped'
    BY DEF CorrInv, Typed, ReaderTyped, DeviceTyped
  <2>4. SharedTyped'
    BY <1>1, <1>7 DEF CorrInv, Typed, SharedTyped
  <2>5. CallsTyped'
    BY <1>3, <1>5, <1>6 DEF CorrInv, Typed, CallsTyped, Calling
  <2> QED BY <1>5, <2>2, <2>3, <2>4, <2>5 DEF Typed
<1>9. /\ \A s \in Tasks : Calling(s)' => /\ task'[s].at = task[s].at
                                       /\ task'[s].id = task[s].id
                                       /\ task'[s].got = task[s].got
      /\ \A s \in Tasks : task'[s].at = "ensure" => task'[s].got = "none"
  BY <1>3, <1>5, <1>6 DEF Calling, CorrInv, SenderThere, SenderOf
<1>10. ids \in Int /\ (\A i : Queued(i)' => Queued(i)) /\ (Over => Over')
  BY DEF CorrInv, Typed, SharedTyped, Queued, Over
<1> QED BY <1>8, <1>9, <1>10, Frame

\* It makes the queue and takes the identifier of its request.
LEMMA OpenSecond ==
  ASSUME BoundsAssumption, CorrInv, NEW t \in Tasks, task[t].at = "ensure", ids < MaxId,
         ensure_channel_registered(task[t].op.chan), ids' = ids + 1,
         task' = [task EXCEPT ![t].at = "insert", ![t].id = ids + 1],
         UNCHANGED <<metadata, codes, device, pending, handlers, caps, closed, reader>>
  PROVE  CorrInv'
<1>1. /\ ids \in 0..MaxId /\ MaxId \in Nat /\ ids + 1 \in 1..MaxId
      /\ task \in [Tasks -> TaskRecord] /\ task[t].got = "none"
  BY DEF CorrInv, Typed, SharedTyped, TasksTyped, BoundsAssumption, SenderThere, SenderOf
<1>2. task[t].op.chan \in Codes
  BY <1>1 DEF TaskRecord, Operations
<1>3. /\ TasksTyped' /\ Others(t)
      /\ task'[t].at = "insert" /\ task'[t].id = ids + 1
      /\ task'[t].got = "none" /\ task'[t].queue = task[t].queue
  <2> DEFINE r == [task[t] EXCEPT !.at = "insert", !.id = ids + 1]
  <2>1. "insert" \in Places /\ ids + 1 \in 0..MaxId
    BY <1>1 DEF Places
  <2>2. /\ r \in TaskRecord /\ r.at = "insert" /\ r.id = ids + 1
        /\ r.got = task[t].got /\ r.queue = task[t].queue
    BY <1>1, <2>1 DEF TaskRecord
  <2>3. task' = [task EXCEPT ![t] = r]
    OBVIOUS
  <2> HIDE DEF r
  <2> QED BY <1>1, <2>2, <2>3 DEF TasksTyped, Others
<1>4. QueuesTyped' /\ \A i : Queued(i)' => Queued(i)
  <2>1. \A s \in Tasks : task'[s].queue = task[s].queue
    BY <1>3 DEF Others
  <2> QED BY <1>2, <2>1, QueueMade DEF CorrInv, Typed
<1>5. Typed'
  <2>1. ReaderTyped' /\ DeviceTyped' /\ SharedTyped'
    BY <1>1 DEF CorrInv, Typed, ReaderTyped, DeviceTyped, SharedTyped
  <2>2. CallsTyped'
    BY <1>1, <1>3 DEF CorrInv, Typed, CallsTyped, Calling, Others
  <2> QED BY <1>3, <1>4, <2>1, <2>2 DEF Typed
<1> QED BY <1>3, <1>4, <1>5, NewCall DEF Others

LEMMA OpenStep ==
  ASSUME BoundsAssumption, OpsAssumption, CorrInv, NEW t \in Tasks, Open(t)
  PROVE  CorrInv'
BY OpenFirst, OpenSecond DEF Open, MakeChannel

\* The handshake reads the capabilities, writes them, and says its own.
LEMMA HandshakeStep ==
  ASSUME BoundsAssumption, OpsAssumption, CorrInv, NEW t \in Tasks, Handshake(t)
  PROVE  CorrInv'
<1>1. PICK o \in Ops[t] :
        /\ PerformHandshake(t, o)
        /\ UNCHANGED <<channels, queues, metadata, pending, handlers, closed,
                       codes, reader, device>>
  BY DEF Handshake
<1>2. /\ o \in Operations /\ TasksTyped /\ ids \in 0..MaxId /\ MaxId \in Nat
      /\ caps \in {"Pending", "Skipped", "Received"}
      /\ task[t].queue \in 0..Len(queues) /\ 0 \in 0..Len(queues)
  BY OpTyped DEF CorrInv, Typed, SharedTyped, QueuesTyped, BoundsAssumption
<1>3. /\ {"set", "hello", "look"} \subseteq Places \ CallPlaces /\ "idle" \notin CallPlaces
      /\ {"skipped", "write failed", "ok"} \subseteq Results
  BY DEF Places, CallPlaces, Results
<1>4. /\ TasksTyped' /\ Others(t)
      /\ task'[t].at \notin CallPlaces /\ task'[t].queue \in 0..Len(queues)
  <2>1. CASE task' = [task EXCEPT ![t] = [Starting(t, "set", o) EXCEPT !.got = caps]]
    <3> DEFINE r == Starting(t, "set", o)
               s == [r EXCEPT !.got = caps]
    <3>1. r \in TaskRecord /\ r.at = "set" /\ r.queue = 0
      <4>1. "set" \in Places
        BY DEF Places
      <4> QED BY <1>2, <4>1, StartingOne
    <3>2. task' = [task EXCEPT ![t] = s]
      BY <2>1
    <3> HIDE DEF r
    <3>3. s \in TaskRecord /\ s.at = "set" /\ s.queue = 0
      BY <1>2, <3>1 DEF TaskRecord, Gots
    <3> HIDE DEF s
    <3> QED BY <1>2, <1>3, <3>2, <3>3 DEF TasksTyped, Others
  <2>2. CASE \E res \in Results : Finish(t, res)
    BY <1>2, <1>3, <2>2, FinishOne
  <2>3. CASE \E a \in {"hello", "look"} : Goto(t, a)
    <3>1. PICK a \in {"hello", "look"} : Goto(t, a)
      BY <2>3
    <3>2. a \in Places /\ a \notin CallPlaces
      BY <3>1 DEF Places, CallPlaces
    <3>3. TasksTyped' /\ Others(t) /\ task'[t].at = a /\ task'[t].queue = task[t].queue
      BY <1>2, <3>1, <3>2, GotoOne
    <3> QED BY <1>2, <3>2, <3>3
  <2> QED BY <1>1, <1>3, <2>1, <2>2, <2>3 DEF PerformHandshake
<1>5. caps' \in {"Pending", "Skipped", "Received"} /\ ids' \in 0..MaxId /\ ids <= ids'
  <2>1. CASE UNCHANGED <<caps, ids>>
    BY <1>2, <2>1
  <2>2. CASE caps' = "Skipped" /\ UNCHANGED ids
    BY <1>2, <2>2
  <2>3. CASE /\ ids < MaxId /\ ids' = ids + 1
             /\ caps' = IF task[t].got = "Received" THEN "Received" ELSE "Pending"
    <3>1. caps' \in {"Pending", "Skipped", "Received"}
      BY <2>3
    <3> QED BY <1>2, <2>3, <3>1
  <2> QED BY <1>1, <2>1, <2>2, <2>3 DEF PerformHandshake
<1>6. SharedTyped' /\ DeviceTyped' /\ queues' \in Seq(Seq(Messages))
      /\ \A i : Queued(i)' => Queued(i)
  BY <1>1, <1>5 DEF CorrInv, Typed, SharedTyped, DeviceTyped, QueuesTyped, Queued
<1> QED BY <1>1, <1>4, <1>5, <1>6, OneTask
\* The sender is registered.
LEMMA InsertStep ==
  ASSUME CorrInv, NEW t \in Tasks, task[t].at = "insert",
         pending' = [pending EXCEPT ![task[t].id] = TRUE], Goto(t, "write"),
         UNCHANGED <<channels, queues, metadata, handlers, caps, closed,
                     ids, codes, reader, device>>
  PROVE  CorrInv'
<1>1. /\ TasksTyped' /\ Others(t) /\ task'[t].at = "write" /\ task'[t].id = task[t].id
      /\ task'[t].got = task[t].got /\ task'[t].queue = task[t].queue
  <2>1. "write" \in Places
    BY DEF Places
  <2> QED BY <2>1, GotoOne DEF CorrInv, Typed
<1>2. task[t].id \in 1..MaxId /\ pending \in [1..MaxId -> BOOLEAN]
  BY DEF CorrInv, Typed, CallsTyped, Calling, SharedTyped
<1>3. /\ pending' \in [1..MaxId -> BOOLEAN] /\ pending'[task[t].id]
      /\ \A i \in 1..MaxId : pending[i] => pending'[i]
  BY <1>2
<1>4. /\ \A s \in Tasks : task'[s].id = task[s].id /\ (Calling(s)' <=> Calling(s))
      /\ \A s \in Tasks : task'[s].got = task[s].got /\ task'[s].queue = task[s].queue
  BY <1>1 DEF Others, Calling
<1>5. \A i : (Asked(i)' <=> Asked(i)) /\ (Queued(i)' <=> Queued(i))
  BY DEF Asked, Queued
<1>6. Typed'
  <2>1. QueuesTyped'
    BY <1>4 DEF CorrInv, Typed, QueuesTyped
  <2>2. ReaderTyped' /\ DeviceTyped' /\ SharedTyped' /\ CallsTyped'
    BY <1>3, <1>4 DEF CorrInv, Typed, ReaderTyped, DeviceTyped, SharedTyped, CallsTyped
  <2> QED BY <1>1, <2>1, <2>2 DEF Typed
<1>7. IdsTaken' /\ IdsDiffer' /\ NotQueued'
  BY <1>4, <1>5 DEF CorrInv, IdsTaken, IdsDiffer, NotQueued
<1>8. SenderThere'
  <2>1. \A s \in Tasks : Calling(s) => task[s].id \in 1..MaxId
    BY DEF CorrInv, Typed, CallsTyped
  <2>2. task[t].got = "none" /\ ~Asked(task[t].id)
    BY DEF CorrInv, SenderThere, SenderOf
  <2>3. \A s \in Tasks \ {t} : task'[s] = task[s]
    BY <1>1 DEF Others
  <2> QED BY <1>1, <1>3, <1>5, <2>1, <2>2, <2>3 DEF CorrInv, SenderThere, SenderOf, Over, Calling
<1> QED BY <1>6, <1>7, <1>8 DEF CorrInv

\* The device hears of the request.
LEMMA WriteStep ==
  ASSUME BoundsAssumption, CorrInv, NEW t \in Tasks, task[t].at = "write", NEW c \in Codes,
         device' = [device EXCEPT !.asked = @ \cup {[id |-> task[t].id, chan |-> c]}],
         Goto(t, "await"),
         UNCHANGED <<shared, ids, codes, reader>>
  PROVE  CorrInv'
<1> DEFINE new == [id |-> task[t].id, chan |-> c]
<1>1. /\ TasksTyped' /\ Others(t) /\ task'[t].at = "await" /\ task'[t].id = task[t].id
      /\ task'[t].got = task[t].got /\ task'[t].queue = task[t].queue
  <2>1. "await" \in Places
    BY DEF Places
  <2> QED BY <2>1, GotoOne DEF CorrInv, Typed
<1>2. /\ task[t].id \in 1..MaxId /\ task[t].id <= ids /\ task[t].got = "none"
      /\ ~Asked(task[t].id) /\ (pending[task[t].id] \/ Over)
  BY DEF CorrInv, Typed, CallsTyped, Calling, IdsTaken, SenderThere, SenderOf
<1>3. new \in Request /\ new.id = task[t].id
  BY <1>2 DEF Request
<1>4. device' = [device EXCEPT !.asked = @ \cup {new}]
  OBVIOUS
<1> HIDE DEF new
<1>5. device'.asked = device.asked \cup {new} /\ DeviceTyped'
  BY <1>3, <1>4 DEF CorrInv, Typed, DeviceTyped
<1>6. \A i : Asked(i)' <=> Asked(i) \/ i = task[t].id
  BY <1>3, <1>5 DEF Asked
<1>7. /\ \A s \in Tasks : task'[s].id = task[s].id /\ (Calling(s)' <=> Calling(s))
      /\ \A s \in Tasks : task'[s].got = task[s].got /\ task'[s].queue = task[s].queue
  BY <1>1 DEF Others, Calling
<1>8. pending' = pending /\ (Over' <=> Over) /\ \A i : (Queued(i)' <=> Queued(i))
  BY DEF Queued, Over, shared
<1>9. Typed'
  <2>1. QueuesTyped'
    BY <1>7 DEF CorrInv, Typed, QueuesTyped, shared
  <2>2. ReaderTyped' /\ SharedTyped' /\ CallsTyped'
    BY <1>7 DEF CorrInv, Typed, ReaderTyped, SharedTyped, CallsTyped, shared
  <2> QED BY <1>1, <1>5, <2>1, <2>2 DEF Typed
<1>10. IdsTaken' /\ NotQueued'
  BY <1>2, <1>6, <1>7, <1>8 DEF CorrInv, IdsTaken, NotQueued
<1>11. IdsDiffer'
  BY <1>2, <1>3, <1>5, <1>7 DEF CorrInv, IdsDiffer, Asked
<1>12. SenderThere'
  <2>1. ASSUME NEW s \in Tasks, s # t PROVE SenderOf(s)'
    <3>1. task'[s] = task[s] /\ (Calling(s) => task[s].id # task[t].id)
      BY <1>1, <2>1 DEF CorrInv, IdsDiffer, Others, Calling
    <3>2. SenderOf(s)
      BY DEF CorrInv, SenderThere
    <3>3. CASE ~Calling(s)
      BY <3>1, <3>2, <3>3 DEF SenderOf, Calling
    <3>4. CASE Calling(s)
      <4>1. Asked(task[s].id)' <=> Asked(task[s].id)
        BY <1>6, <3>1, <3>4
      <4> QED BY <1>8, <3>1, <3>2, <3>4, <4>1 DEF SenderOf, Calling
    <3> QED BY <3>3, <3>4
  <2>2. SenderOf(t)'
    BY <1>1, <1>2, <1>8 DEF SenderOf
  <2> QED BY <2>1, <2>2 DEF SenderThere
<1> QED BY <1>9, <1>10, <1>11, <1>12 DEF CorrInv

\* A call ends: its sender, if there is one, is its own.
LEMMA CallEnds ==
  ASSUME BoundsAssumption, CorrInv, NEW t \in Tasks, Calling(t), NEW res \in Results,
         Finish(t, res),
         pending' = pending \/ pending' = [pending EXCEPT ![task[t].id] = FALSE],
         UNCHANGED <<channels, queues, metadata, handlers, caps, closed,
                     ids, codes, reader, device>>
  PROVE  CorrInv'
<1>1. TasksTyped' /\ Others(t) /\ task'[t].at = "idle" /\ task'[t].queue = 0
  BY FinishOne DEF CorrInv, Typed
<1>2. task[t].id \in 1..MaxId /\ pending \in [1..MaxId -> BOOLEAN]
  BY DEF CorrInv, Typed, CallsTyped, SharedTyped
<1>3. /\ pending' \in [1..MaxId -> BOOLEAN]
      /\ \A i \in 1..MaxId : i # task[t].id /\ pending[i] => pending'[i]
  BY <1>2
<1>4. \A s \in Tasks : task'[s].at \in CallPlaces => s # t /\ task'[s] = task[s]
  BY <1>1 DEF Others, CallPlaces
<1>5. \A s \in Tasks : Calling(s)' => s # t /\ Calling(s) /\ task'[s] = task[s]
  BY <1>4 DEF Calling, CallPlaces
<1>6. \A s \in Tasks : s # t /\ Calling(s) => task[s].id # task[t].id /\ task[s].id \in 1..MaxId
  BY DEF CorrInv, IdsDiffer, Typed, CallsTyped
<1>7. \A i : (Asked(i)' <=> Asked(i)) /\ (Queued(i)' <=> Queued(i))
  BY DEF Asked, Queued
<1>8. Typed'
  <2>1. QueuesTyped'
    <3>1. \A s \in Tasks : task'[s].queue \in 0..Len(queues)
      BY <1>1 DEF CorrInv, Typed, QueuesTyped, Others
    <3> QED BY <3>1 DEF CorrInv, Typed, QueuesTyped
  <2>2. ReaderTyped' /\ DeviceTyped' /\ SharedTyped' /\ CallsTyped'
    BY <1>3, <1>5 DEF CorrInv, Typed, ReaderTyped, DeviceTyped, SharedTyped, CallsTyped
  <2> QED BY <1>1, <2>1, <2>2 DEF Typed
<1>9. IdsTaken' /\ IdsDiffer' /\ NotQueued'
  BY <1>5, <1>7 DEF CorrInv, IdsTaken, IdsDiffer, NotQueued
<1>10. SenderThere'
  BY <1>3, <1>4, <1>6, <1>7 DEF CorrInv, SenderThere, SenderOf, Over, Calling, CallPlaces
<1> QED BY <1>8, <1>9, <1>10 DEF CorrInv

LEMMA CallStep ==
  ASSUME BoundsAssumption, CorrInv, NEW t \in Tasks, Call(t)
  PROVE  CorrInv'
<1>1. {"write failed", "unexpected", "ok", "closed"} \subseteq Results
  BY DEF Results
<1>2. RequestChannel(t) \in Codes
  BY DEF RequestChannel, CorrInv, Typed, TasksTyped, TaskRecord, Operations, Codes,
         BoundsAssumption
<1>3. CASE send_method(t) /\ UNCHANGED <<channels, queues, metadata, handlers, caps, closed,
                                         ids, codes, reader>>
  BY <1>1, <1>2, <1>3, InsertStep, WriteStep, CallEnds DEF send_method, shared, Calling
<1>4. CASE wait_for_reply(t) /\ UNCHANGED <<shared, ids, codes, reader, device>>
  <2>1. \E res \in Results : Finish(t, res)
    BY <1>1, <1>4 DEF wait_for_reply
  <2> QED BY <1>4, <2>1, CallEnds DEF wait_for_reply, shared, Calling
<1> QED BY <1>3, <1>4 DEF Call
-----------------------------------------------------------------------------
(* The steps of the reader.                                                *)

\* A step of the reader that gives nobody a reply.
LEMMA Quiet ==
  ASSUME CorrInv, TasksTyped', SameCalls, QueuesTyped', ReaderTyped', DeviceTyped',
         SharedTyped', device'.asked = device.asked, pending' = pending, ids' = ids,
         \A i : Queued(i)' => Queued(i), Over => Over'
  PROVE  CorrInv'
<1>1. Typed'
  BY DEF CorrInv, Typed, CallsTyped, Calling, SameCalls
<1>2. ids \in Int /\ \A t \in Tasks : task'[t].at = "ensure" => task'[t].got = "none"
  BY DEF CorrInv, Typed, SharedTyped, SenderThere, SenderOf, SameCalls
<1> QED BY <1>1, <1>2, Frame DEF SameCalls, Calling

\* Another message was received.
LEMMA SentOne ==
  ASSUME BoundsAssumption, DeviceTyped, Receive, NEW d, d = [device EXCEPT !.sent = Sent]
  PROVE  /\ d \in [asked : SUBSET Request, acked : SUBSET Remote,
                    unserved : SUBSET Codes, sent : 0..MaxReceived]
         /\ d.asked = device.asked /\ d.acked = device.acked /\ d.unserved = device.unserved
BY DEF DeviceTyped, Receive, Sent, BoundsAssumption

\* A reply is given to a task.
LEMMA GivenOne ==
  ASSUME NEW x \in TaskRecord, NEW what \in {"empty", "payload"}
  PROVE  /\ [x EXCEPT !.got = what] \in TaskRecord
         /\ [x EXCEPT !.got = what].at = x.at /\ [x EXCEPT !.got = what].id = x.id
         /\ [x EXCEPT !.got = what].queue = x.queue /\ [x EXCEPT !.got = what].got = what
<1>1. what \in Gots
  BY DEF Gots
<1> QED BY <1>1 DEF TaskRecord

\* The reply is taken off the wire once.  It goes to its sender, or, when
\* nobody waits for it, to the queue of its channel.
LEMMA ReplyStep ==
  ASSUME BoundsAssumption, CorrInv, Receive, NEW r \in device.asked,
         NEW what \in {"empty", "payload"}, dispatch_pending_reply(r, what),
         device' = [device EXCEPT !.asked = @ \ {r}, !.sent = Sent],
         UNCHANGED <<channels, metadata, handlers, caps, closed, ids, codes, reader>>
  PROVE  CorrInv'
<1>1. /\ r \in Request /\ r.id \in 1..MaxId /\ r.chan \in Codes /\ r.id <= ids
      /\ ids \in Int /\ pending \in [1..MaxId -> BOOLEAN] /\ ~Over
      /\ TasksTyped /\ QueuesTyped
  BY DEF CorrInv, Typed, DeviceTyped, Request, IdsTaken, Asked, SharedTyped, Receive, Over
<1>2. DeviceTyped' /\ device'.asked = device.asked \ {r}
  <2> DEFINE n == Sent
  <2>1. n \in 0..MaxReceived
    BY DEF CorrInv, Typed, DeviceTyped, Receive, Sent, BoundsAssumption
  <2>2. device \in [asked : SUBSET Request, acked : SUBSET Remote,
                    unserved : SUBSET Codes, sent : 0..MaxReceived]
    BY DEF CorrInv, Typed, DeviceTyped
  <2>3. device' = [device EXCEPT !.asked = @ \ {r}, !.sent = n]
    OBVIOUS
  <2> HIDE DEF n
  <2> QED BY <2>1, <2>2, <2>3 DEF DeviceTyped
<1>3. \A i : Asked(i)' <=> Asked(i) /\ i # r.id
  BY <1>2 DEF Asked, CorrInv, IdsDiffer
<1>4. /\ TasksTyped' /\ QueuesTyped' /\ pending' \in [1..MaxId -> BOOLEAN]
      /\ \A t \in Tasks : /\ task'[t].at = task[t].at /\ task'[t].id = task[t].id
                         /\ \/ task'[t].got = task[t].got
                            \/ task[t].at = "await" /\ task[t].id = r.id
                                 /\ task'[t].got # "none"
      /\ \A i \in 1..MaxId : i # r.id => pending'[i] = pending[i]
      /\ \A i : Queued(i)' => Queued(i) \/ (i = r.id /\ ~pending[r.id])
      /\ \A t \in Tasks : task[t].at = "await" /\ task[t].id = r.id /\ pending[r.id]
                         => task'[t].got # "none"
      /\ ~pending[r.id] => pending' = pending
  <2>1. CASE pending[r.id]
    <3>1. /\ pending' = [pending EXCEPT ![r.id] = FALSE] /\ UNCHANGED queues
          /\ task' = [t \in Tasks |->
                        IF task[t].at = "await" /\ task[t].id = r.id
                          THEN [task[t] EXCEPT !.got = what] ELSE task[t]]
      BY <2>1 DEF dispatch_pending_reply
    <3>2. /\ TasksTyped'
          /\ \A t \in Tasks : /\ task'[t].at = task[t].at /\ task'[t].id = task[t].id
                             /\ task'[t].queue = task[t].queue
                             /\ task'[t].got = IF task[t].at = "await" /\ task[t].id = r.id
                                                 THEN what ELSE task[t].got
      <4>1. ASSUME NEW t \in Tasks
            PROVE  /\ task'[t] \in TaskRecord
                   /\ task'[t].at = task[t].at /\ task'[t].id = task[t].id
                   /\ task'[t].queue = task[t].queue
                   /\ task'[t].got = IF task[t].at = "await" /\ task[t].id = r.id
                                       THEN what ELSE task[t].got
        <5> DEFINE x == task[t]
                   y == [x EXCEPT !.got = what]
        <5>1. x \in TaskRecord
          BY <1>1 DEF TasksTyped
        <5>2. task'[t] = IF x.at = "await" /\ x.id = r.id THEN y ELSE x
          BY <3>1
        <5> HIDE DEF x
        <5>3. y \in TaskRecord /\ y.at = x.at /\ y.id = x.id /\ y.queue = x.queue /\ y.got = what
          BY <5>1, GivenOne
        <5> HIDE DEF y
        <5>4. /\ task'[t] \in TaskRecord
              /\ task'[t].at = x.at /\ task'[t].id = x.id /\ task'[t].queue = x.queue
              /\ task'[t].got = IF x.at = "await" /\ x.id = r.id THEN what ELSE x.got
          BY <5>1, <5>2, <5>3
        <5> QED BY <5>4 DEF x
      <4>2. TasksTyped'
        BY <3>1, <4>1 DEF TasksTyped
      <4> QED BY <4>1, <4>2
    <3>3. QueuesTyped' /\ \A i : Queued(i)' <=> Queued(i)
      BY <1>1, <3>1, <3>2 DEF QueuesTyped, Queued
    <3>4. what # "none"
      OBVIOUS
    <3>5. /\ pending' \in [1..MaxId -> BOOLEAN]
          /\ \A i \in 1..MaxId : i # r.id => pending'[i] = pending[i]
      BY <1>1, <3>1
    <3> QED BY <2>1, <3>2, <3>3, <3>4, <3>5
  <2>2. CASE ~pending[r.id]
    <3> DEFINE m == [kind |-> "reply", id |-> r.id]
    <3>1. m \in Messages /\ \A i : m = [kind |-> "reply", id |-> i] => i = r.id
      BY <1>1 DEF Messages
    <3>2. enqueue_message(r.chan, m) /\ pending' = pending /\ channels' = channels
      BY <2>2 DEF dispatch_pending_reply
    <3> HIDE DEF m
    <3>3. /\ TasksTyped' /\ QueuesTyped' /\ SameCalls
          /\ \A i : Queued(i)' => Queued(i) \/ m = [kind |-> "reply", id |-> i]
      BY <1>1, <3>1, <3>2, Enqueued
    <3> QED BY <1>1, <2>2, <3>1, <3>2, <3>3 DEF SameCalls
  <2> QED BY <2>1, <2>2
<1>5. \A t \in Tasks : Calling(t)' <=> Calling(t)
  BY <1>4 DEF Calling
<1>6. Typed'
  <2>1. ReaderTyped' /\ SharedTyped'
    BY <1>4 DEF CorrInv, Typed, ReaderTyped, SharedTyped
  <2>2. CallsTyped'
    BY <1>4, <1>5 DEF CorrInv, Typed, CallsTyped
  <2> QED BY <1>2, <1>4, <2>1, <2>2 DEF Typed
<1>7. IdsTaken'
  BY <1>1, <1>3, <1>4, <1>5 DEF CorrInv, IdsTaken
<1>8. IdsDiffer'
  BY <1>2, <1>4, <1>5 DEF CorrInv, IdsDiffer
<1>9. Asked(r.id)
  BY DEF Asked
<1>10. ASSUME NEW t \in Tasks PROVE SenderOf(t)'
  <2>1. SenderOf(t) /\ (Calling(t) => task[t].id \in 1..MaxId)
    BY DEF CorrInv, SenderThere, Typed, CallsTyped
  <2>2. Asked(task[t].id)' => Asked(task[t].id) /\ task[t].id # r.id
    BY <1>3, <1>4
  <2>3. CASE task[t].at # "await"
    <3>1. task'[t].at = task[t].at /\ task'[t].id = task[t].id /\ task'[t].got = task[t].got
      BY <1>4, <2>3
    <3>2. task[t].at \in {"insert", "write"} => task[t].id # r.id
      BY <1>9, <2>1 DEF SenderOf
    <3> QED BY <1>1, <1>4, <2>1, <2>2, <2>3, <3>1, <3>2 DEF SenderOf, Calling
  <2>4. CASE task[t].at = "await" /\ task[t].id # r.id
    <3>1. task'[t].at = task[t].at /\ task'[t].id = task[t].id /\ task'[t].got = task[t].got
      BY <1>4, <2>4
    <3> QED BY <1>1, <1>4, <2>1, <2>2, <2>4, <3>1 DEF SenderOf, Calling
  <2>5. CASE task[t].at = "await" /\ task[t].id = r.id
    <3>1. pending[r.id]
      BY <1>1, <1>9, <2>1, <2>5 DEF SenderOf
    <3>2. task'[t].got # "none" /\ task'[t].at = "await" /\ task'[t].id = r.id
      BY <1>4, <2>5, <3>1
    <3>3. ~Asked(r.id)'
      BY <1>3
    <3> QED BY <3>2, <3>3 DEF SenderOf
  <2> QED BY <2>3, <2>4, <2>5
<1>11. NotQueued'
  <2>1. ASSUME NEW t \in Tasks, Calling(t), task[t].id = r.id PROVE pending[r.id]
    <3>1. SenderOf(t)
      BY DEF CorrInv, SenderThere
    <3> QED BY <1>1, <1>9, <2>1, <3>1 DEF SenderOf, Calling
  <2> QED BY <1>4, <1>5, <2>1 DEF CorrInv, NotQueued
<1> QED BY <1>6, <1>7, <1>8, <1>10, <1>11 DEF CorrInv, SenderThere
LEMMA ReadReplyStep ==
  ASSUME BoundsAssumption, CorrInv, ReadReply
  PROVE  CorrInv'
BY ReplyStep DEF ReadReply

\* The channels the device speaks of have a code.
LEMMA KnownCodes ==
  ASSUME BoundsAssumption, DeviceTyped, SharedTyped
  PROVE  Known \subseteq Codes \ {0} /\ 0 \in Codes
BY DEF BoundsAssumption, DeviceTyped, SharedTyped, Known, Codes, Remote

LEMMA ReadInvokeStep ==
  ASSUME BoundsAssumption, CorrInv, ReadInvoke
  PROVE  CorrInv'
<1>1. /\ Receive /\ device' = [device EXCEPT !.sent = Sent]
      /\ UNCHANGED <<channels, metadata, pending, handlers, caps, closed, ids, codes, reader>>
  BY DEF ReadInvoke
<1>2. TasksTyped /\ QueuesTyped /\ ReaderTyped /\ DeviceTyped /\ SharedTyped /\ 0 \in 0..MaxId
  BY DEF CorrInv, Typed, BoundsAssumption
<1>3. DeviceTyped' /\ device'.asked = device.asked
  BY <1>1, <1>2, SentOne DEF DeviceTyped
<1>4. TasksTyped' /\ QueuesTyped' /\ SameCalls /\ \A i : Queued(i)' => Queued(i)
  <2>1. PICK c \in Known \cup {0}, kind \in {"invoke", "finish"} :
               \/ enqueue_message(c, [kind |-> kind, id |-> 0])
               \/ c \in handlers /\ UNCHANGED <<queues, task>>
    BY DEF ReadInvoke
  <2>2. CASE UNCHANGED <<queues, task>>
    BY <1>1, <1>2, <2>2 DEF TasksTyped, QueuesTyped, SameCalls, Queued
  <2>3. CASE enqueue_message(c, [kind |-> kind, id |-> 0])
    <3> DEFINE m == [kind |-> kind, id |-> 0]
    <3>1. m \in Messages /\ \A i : m # [kind |-> "reply", id |-> i]
      BY <1>2 DEF Messages
    <3>2. c \in Codes
      BY <1>2, KnownCodes
    <3>3. enqueue_message(c, m)
      BY <2>3
    <3> HIDE DEF m
    <3> QED BY <1>1, <1>2, <3>1, <3>2, <3>3, Enqueued
  <2> QED BY <2>1, <2>2, <2>3
<1>5. ReaderTyped' /\ SharedTyped' /\ (Over => Over')
  BY <1>1, <1>2 DEF ReaderTyped, SharedTyped, Over
<1> QED BY <1>1, <1>3, <1>4, <1>5, Quiet

LEMMA ReadCapabilitiesStep ==
  ASSUME BoundsAssumption, CorrInv, ReadCapabilities
  PROVE  CorrInv'
<1>1. /\ Receive /\ device' = [device EXCEPT !.sent = Sent] /\ caps' = "Received"
      /\ UNCHANGED <<channels, metadata, pending, handlers, closed, ids, codes, reader>>
  BY DEF ReadCapabilities
<1>2. TasksTyped /\ QueuesTyped /\ ReaderTyped /\ DeviceTyped /\ SharedTyped
      /\ 0 \in 0..MaxId /\ 0 \in Codes
  BY DEF CorrInv, Typed, BoundsAssumption, Codes
<1>3. DeviceTyped' /\ device'.asked = device.asked
  BY <1>1, <1>2, SentOne DEF DeviceTyped
<1>4. TasksTyped' /\ SameCalls
  BY <1>2, NotifyTasks DEF ReadCapabilities
<1>5. QueuesTyped' /\ \A i : Queued(i)' => Queued(i)
  <2> DEFINE m == [kind |-> "caps", id |-> 0]
             q == channels[0]
  <2>1. m \in Messages /\ \A i : m # [kind |-> "reply", id |-> i]
    BY <1>2 DEF Messages
  <2>2. q \in 1..Len(queues) /\ queues \in Seq(Seq(Messages))
    BY <1>2 DEF QueuesTyped
  <2>3. queues' = [queues EXCEPT ![q] = Append(@, m)]
    BY DEF ReadCapabilities
  <2> HIDE DEF m, q
  <2>4. /\ queues' \in Seq(Seq(Messages)) /\ Len(queues') = Len(queues)
        /\ \A i : Queued(i)' => Queued(i)
    BY <2>1, <2>2, <2>3, EnqueueOne
  <2> QED BY <1>1, <1>2, <1>4, <2>4 DEF QueuesTyped, SameCalls
<1>6. ReaderTyped' /\ SharedTyped' /\ (Over => Over')
  BY <1>1, <1>2 DEF ReaderTyped, SharedTyped, Over
<1> QED BY <1>1, <1>3, <1>4, <1>5, <1>6, Quiet

\* The reader goes on to another place.
LEMMA ReaderGoes ==
  ASSUME ReaderTyped, NEW at \in ReaderPlaces, NEW c \in Codes,
         at \notin {"ensure", "initialize", "acknowledge"} \/ c \in Remote,
         reader' = [reader EXCEPT !.at = at, !.chan = c]
  PROVE  ReaderTyped' /\ reader'.at = at
BY DEF ReaderTyped

LEMMA ReadCancelStep ==
  ASSUME BoundsAssumption, CorrInv, ReadCancel
  PROVE  CorrInv'
<1>1. UNCHANGED <<queues, pending, caps, closed, ids, codes>>
  BY DEF ReadCancel
<1>2. TasksTyped /\ QueuesTyped /\ ReaderTyped /\ DeviceTyped /\ SharedTyped
  BY DEF CorrInv, Typed
<1>3. ~Over
  BY DEF ReadCancel, remove_channel, Receive, Over
<1>4. \A i : Queued(i)' => Queued(i)
  BY <1>1 DEF Queued
<1>5. CASE /\ Receive
           /\ \E c \in Known :
                /\ handlers' = handlers \ {c}
                /\ channels' = [channels EXCEPT ![c] = 0]
                /\ reader' = [reader EXCEPT !.at = "unregister", !.chan = c]
                /\ device' = [device EXCEPT !.sent = Sent, !.acked = @ \ {c}]
           /\ UNCHANGED <<metadata, task>>
  <2>1. PICK c \in Known :
                /\ handlers' = handlers \ {c}
                /\ channels' = [channels EXCEPT ![c] = 0]
                /\ reader' = [reader EXCEPT !.at = "unregister", !.chan = c]
                /\ device' = [device EXCEPT !.sent = Sent, !.acked = @ \ {c}]
    BY <1>5
  <2>2. c \in Codes /\ c # 0 /\ 0 \in Codes
    BY <1>2, KnownCodes
  <2>3. TasksTyped' /\ SameCalls /\ task' = task
    BY <1>2, <1>5 DEF TasksTyped, SameCalls
  <2>4. QueuesTyped'
    <3> DEFINE n == Len(queues)
    <3>1. n \in Nat /\ channels \in [Codes -> 0..n] /\ channels[0] # 0
      BY <1>2 DEF QueuesTyped
    <3>2. Len(queues') = n
      BY <1>1
    <3> HIDE DEF n
    <3>3. channels' \in [Codes -> 0..n] /\ channels'[0] # 0
      BY <2>1, <2>2, <3>1
    <3>4. \A t \in Tasks : task'[t].queue \in 0..n
      BY <1>2, <2>3 DEF QueuesTyped, n
    <3> QED BY <1>1, <1>2, <3>2, <3>3, <3>4 DEF QueuesTyped
  <2>5. ReaderTyped'
    <3>1. "unregister" \in ReaderPlaces
      BY DEF ReaderPlaces
    <3> QED BY <1>2, <2>1, <2>2, <3>1, ReaderGoes
  <2>6. DeviceTyped' /\ device'.asked = device.asked
    <3> DEFINE n == Sent
    <3>1. n \in 0..MaxReceived
      BY <1>2, <1>5 DEF DeviceTyped, Receive, Sent, BoundsAssumption
    <3>2. device' = [device EXCEPT !.sent = n, !.acked = @ \ {c}]
      BY <2>1
    <3> HIDE DEF n
    <3> QED BY <1>2, <3>1, <3>2 DEF DeviceTyped
  <2>7. SharedTyped'
    BY <1>1, <1>2, <1>5, <2>1 DEF SharedTyped
  <2> QED BY <1>1, <1>3, <1>4, <2>3, <2>4, <2>5, <2>6, <2>7, Quiet
<1>6. CASE /\ reader.at = "unregister"
           /\ metadata' = [metadata EXCEPT ![reader.chan] = NoChannel]
           /\ notify_waiters(OnRegistry, "data")
           /\ reader' = [reader EXCEPT !.at = "read"]
           /\ UNCHANGED <<handlers, channels, device>>
  <2>1. TasksTyped' /\ SameCalls
    BY <1>2, <1>6, NotifyTasks
  <2>2. QueuesTyped'
    BY <1>1, <1>2, <1>6, <2>1 DEF QueuesTyped, SameCalls
  <2>3. ReaderTyped' /\ DeviceTyped'
    <3>1. "read" \in ReaderPlaces
      BY DEF ReaderPlaces
    <3> QED BY <1>2, <1>6, <3>1 DEF ReaderTyped, DeviceTyped
  <2>4. SharedTyped'
    <3> DEFINE x == NoChannel
    <3>1. x \in Metadata
      BY DEF NoChannel, Metadata
    <3>2. metadata' = [metadata EXCEPT ![reader.chan] = x]
      BY <1>6
    <3> HIDE DEF x
    <3>3. metadata' \in [Codes -> Metadata]
      BY <1>2, <3>1, <3>2 DEF SharedTyped
    <3> QED BY <1>1, <1>2, <1>6, <3>3 DEF SharedTyped
  <2> QED BY <1>1, <1>3, <1>4, <1>6, <2>1, <2>2, <2>3, <2>4, Quiet
<1> QED BY <1>5, <1>6 DEF ReadCancel, remove_channel
LEMMA ReadRequestStep ==
  ASSUME BoundsAssumption, CorrInv, ReadRequest
  PROVE  CorrInv'
<1>1. UNCHANGED <<pending, caps, ids, codes>>
  BY DEF ReadRequest
<1>2. TasksTyped /\ QueuesTyped /\ ReaderTyped /\ DeviceTyped /\ SharedTyped
  BY DEF CorrInv, Typed
<1>3. ~Over
  BY DEF ReadRequest, ServeRequest, Receive, Over
<1>4. {"read", "ensure", "initialize", "acknowledge", "refused"} \subseteq ReaderPlaces
  BY DEF ReaderPlaces
<1>5. Remote \subseteq Codes
  BY DEF Remote, Codes, BoundsAssumption
<1>6. CASE /\ Receive
           /\ \E c \in -MaxCode..-1, i \in Identifiers :
                /\ metadata[c] = NoChannel
                /\ metadata' = [metadata EXCEPT ![c] = [identifier |-> i, remote |-> TRUE]]
                /\ reader' = [at |-> "ensure", chan |-> c, id |-> i]
           /\ notify_waiters(OnRegistry, "data")
           /\ device' = [device EXCEPT !.sent = Sent]
           /\ UNCHANGED <<channels, queues, handlers, closed>>
  <2>1. PICK c \in Remote, i \in Identifiers :
                /\ metadata' = [metadata EXCEPT ![c] = [identifier |-> i, remote |-> TRUE]]
                /\ reader' = [at |-> "ensure", chan |-> c, id |-> i]
    BY <1>6 DEF Remote
  <2>2. TasksTyped' /\ SameCalls
    BY <1>2, <1>6, NotifyTasks
  <2>3. QueuesTyped' /\ \A j : Queued(j)' => Queued(j)
    BY <1>2, <1>6, <2>2 DEF QueuesTyped, SameCalls, Queued
  <2>4. DeviceTyped' /\ device'.asked = device.asked
    BY <1>2, <1>6, SentOne DEF DeviceTyped
  <2>5. ReaderTyped'
    BY <1>4, <1>5, <2>1 DEF ReaderTyped
  <2>6. SharedTyped'
    <3> DEFINE x == [identifier |-> i, remote |-> TRUE]
    <3>1. x \in Metadata
      BY DEF Metadata
    <3>2. metadata' = [metadata EXCEPT ![c] = x]
      BY <2>1
    <3> HIDE DEF x
    <3>3. metadata' \in [Codes -> Metadata]
      BY <1>2, <3>1, <3>2 DEF SharedTyped
    <3> QED BY <1>1, <1>2, <1>6, <3>3 DEF SharedTyped
  <2> QED BY <1>1, <1>3, <2>2, <2>3, <2>4, <2>5, <2>6, Quiet
<1>7. CASE /\ reader.at = "ensure"
           /\ ensure_channel_registered(reader.chan)
           /\ reader' = [reader EXCEPT !.at = "initialize"]
           /\ UNCHANGED <<metadata, handlers, closed, task, device>>
  <2>1. TasksTyped' /\ SameCalls
    BY <1>2, <1>7 DEF TasksTyped, SameCalls
  <2>2. reader.chan \in Remote
    BY <1>2, <1>7 DEF ReaderTyped
  <2>3. QueuesTyped' /\ \A j : Queued(j)' => Queued(j)
    BY <1>2, <1>5, <1>7, <2>2, QueueMade
  <2>4. ReaderTyped'
    BY <1>2, <1>4, <1>7, <2>2 DEF ReaderTyped
  <2>5. DeviceTyped' /\ SharedTyped'
    BY <1>1, <1>2, <1>7 DEF DeviceTyped, SharedTyped
  <2> QED BY <1>1, <1>3, <1>7, <2>1, <2>3, <2>4, <2>5, Quiet
<1>8. CASE /\ reader.at = "initialize"
           /\ \/ /\ handlers' = handlers \cup {reader.chan}
                 /\ device' = [device EXCEPT !.unserved = @ \ {reader.chan}]
              \/ /\ UNCHANGED handlers
                 /\ device' = [device EXCEPT !.unserved = @ \cup {reader.chan}]
           /\ reader' = [reader EXCEPT !.at = "acknowledge"]
           /\ UNCHANGED <<channels, queues, metadata, closed, task>>
  <2>1. TasksTyped' /\ SameCalls /\ QueuesTyped' /\ \A j : Queued(j)' => Queued(j)
    BY <1>2, <1>8 DEF TasksTyped, SameCalls, QueuesTyped, Queued
  <2>2. reader.chan \in Remote /\ reader.chan \in Codes
    BY <1>2, <1>5, <1>8 DEF ReaderTyped
  <2>3. ReaderTyped'
    BY <1>2, <1>4, <1>8, <2>2 DEF ReaderTyped
  <2>4. DeviceTyped' /\ device'.asked = device.asked
    BY <1>2, <1>8, <2>2 DEF DeviceTyped
  <2>5. SharedTyped'
    BY <1>1, <1>2, <1>8, <2>2 DEF SharedTyped
  <2> QED BY <1>1, <1>3, <2>1, <2>3, <2>4, <2>5, Quiet
<1>9. CASE /\ reader.at = "acknowledge"
           /\ \/ /\ device' = [device EXCEPT !.acked = @ \cup {reader.chan}]
                 /\ reader' = [reader EXCEPT !.at = "read"]
                 /\ UNCHANGED closed
              \/ /\ closed' = TRUE
                 /\ reader' = [reader EXCEPT !.at = "refused"]
                 /\ UNCHANGED device
           /\ UNCHANGED <<channels, queues, metadata, handlers, task>>
  <2>1. TasksTyped' /\ SameCalls /\ QueuesTyped' /\ \A j : Queued(j)' => Queued(j)
    BY <1>2, <1>9 DEF TasksTyped, SameCalls, QueuesTyped, Queued
  <2>2. reader.chan \in Remote
    BY <1>2, <1>9 DEF ReaderTyped
  <2>3. ReaderTyped'
    BY <1>2, <1>4, <1>9 DEF ReaderTyped
  <2>4. DeviceTyped' /\ device'.asked = device.asked
    BY <1>2, <1>9, <2>2 DEF DeviceTyped
  <2>5. SharedTyped'
    BY <1>1, <1>2, <1>9 DEF SharedTyped
  <2> QED BY <1>1, <1>3, <2>1, <2>3, <2>4, <2>5, Quiet
<1> QED BY <1>6, <1>7, <1>8, <1>9 DEF ReadRequest, ServeRequest

\* The end of the connection is announced to whoever waits.
LEMMA NotifyClosedTasks ==
  ASSUME TasksTyped, NEW at, NotifyClosed(at)
  PROVE  TasksTyped' /\ SameCalls
<1> DEFINE g(t) == (IF t \in Parked THEN {"closed"} ELSE {})
                     \cup (IF t \in Watching THEN {"gone"} ELSE {})
<1>1. \A t \in Tasks : g(t) \subseteq {"data", "closed", "gone"}
  OBVIOUS
<1>2. task' = [t \in Tasks |-> [task[t] EXCEPT !.woke = @ \cup g(t)]]
  <2>1. \A t \in Tasks : task[t].woke \cup g(t)
          = task[t].woke \cup (IF t \in Parked THEN {"closed"} ELSE {})
                         \cup (IF t \in Watching THEN {"gone"} ELSE {})
    OBVIOUS
  <2> QED BY <2>1 DEF NotifyClosed
<1> HIDE DEF g
<1> QED BY <1>1, <1>2 DEF TasksTyped, TaskRecord, SameCalls

\* The reader ends: no sender is left, and no request is answered any more.
LEMMA ReaderExitsStep ==
  ASSUME BoundsAssumption, CorrInv, ReaderExits
  PROVE  CorrInv'
<1>1. UNCHANGED <<channels, queues, metadata, handlers, caps, ids, codes, device>>
  BY DEF ReaderExits
<1>2. /\ TasksTyped /\ QueuesTyped /\ ReaderTyped /\ DeviceTyped /\ SharedTyped
      /\ IdsTaken /\ IdsDiffer /\ SenderThere /\ NotQueued /\ CallsTyped
  BY DEF CorrInv, Typed
<1>3. {"read", "fail", "close", "notify", "gone"} \subseteq ReaderPlaces
  BY DEF ReaderPlaces
<1>4. DeviceTyped' /\ (\A i : Queued(i)' <=> Queued(i)) /\ (\A i : Asked(i)' <=> Asked(i))
  BY <1>1, <1>2 DEF DeviceTyped, Queued, Asked
<1>5. TasksTyped' /\ SameCalls
  <2>1. CASE UNCHANGED task
    BY <1>2, <2>1 DEF TasksTyped, SameCalls
  <2>2. CASE \E at : NotifyClosed(at)
    BY <1>2, <2>2, NotifyClosedTasks
  <2> QED BY <2>1, <2>2 DEF ReaderExits
<1>6. QueuesTyped'
  BY <1>1, <1>2, <1>5 DEF QueuesTyped, SameCalls
<1>7. ReaderTyped'
  <2>1. \E at \in {"read", "fail", "close", "notify", "gone"} : reader' = [reader EXCEPT !.at = at]
    BY DEF ReaderExits, NotifyClosed
  <2> QED BY <1>2, <1>3, <2>1 DEF ReaderTyped
<1>8. SharedTyped'
  <2>1. closed' \in BOOLEAN /\ pending' \in [1..MaxId -> BOOLEAN]
    BY <1>2 DEF ReaderExits, fail_pending_replies, SharedTyped
  <2> QED BY <1>1, <1>2, <2>1 DEF SharedTyped
<1>9. CASE pending' = pending
  <2>1. Over => Over'
    BY <1>2 DEF ReaderExits, NotifyClosed, Over, ReaderTyped
  <2> QED BY <1>1, <1>4, <1>5, <1>6, <1>7, <1>8, <1>9, <2>1, Quiet
<1>10. CASE /\ reader.at = "fail"
            /\ fail_pending_replies
            /\ reader' = [reader EXCEPT !.at = "close"]
            /\ UNCHANGED <<closed, task>>
  <2>1. Over'
    BY <1>2, <1>10 DEF Over, ReaderTyped
  <2>2. Typed'
    BY <1>2, <1>4, <1>5, <1>6, <1>7, <1>8, <1>10 DEF Typed, CallsTyped, Calling
  <2>3. IdsTaken' /\ IdsDiffer' /\ NotQueued'
    BY <1>1, <1>2, <1>4, <1>10 DEF IdsTaken, IdsDiffer, NotQueued, Calling
  <2>4. SenderThere'
    BY <1>2, <1>4, <1>10, <2>1 DEF SenderThere, SenderOf
  <2> QED BY <2>2, <2>3, <2>4 DEF CorrInv
<1> QED BY <1>9, <1>10 DEF ReaderExits

LEMMA DropClientStep ==
  ASSUME CorrInv, DropClient
  PROVE  CorrInv'
<1>1. UNCHANGED <<shared, ids, codes, task, device>> /\ ~Over
  BY DEF DropClient, Over
<1>2. TasksTyped /\ QueuesTyped /\ ReaderTyped /\ DeviceTyped /\ SharedTyped
  BY DEF CorrInv, Typed
<1>3. TasksTyped' /\ SameCalls /\ QueuesTyped' /\ \A i : Queued(i)' => Queued(i)
  BY <1>1, <1>2 DEF shared, TasksTyped, SameCalls, QueuesTyped, Queued
<1>4. ReaderTyped'
  <2>1. "aborted" \in ReaderPlaces
    BY DEF ReaderPlaces
  <2> QED BY <1>2, <2>1 DEF DropClient, ReaderTyped
<1>5. DeviceTyped' /\ SharedTyped'
  BY <1>1, <1>2 DEF shared, DeviceTyped, SharedTyped
<1> QED BY <1>1, <1>3, <1>4, <1>5, Quiet DEF shared
-----------------------------------------------------------------------------
(* The invariant and the theorems.                                         *)

LEMMA InitCorr ==
  ASSUME BoundsAssumption, Init
  PROVE  CorrInv
<1>1. 0 \in 0..MaxId /\ 0 \in Codes /\ 0 \in 0..MaxCode /\ 0 \in 0..MaxReceived
  BY DEF BoundsAssumption, Codes
<1>2. \A t \in Tasks : task[t] = NoTask
  BY DEF Init
<1>3. NoTask.at = "idle" /\ NoTask.queue = 0
  BY DEF NoTask
<1>4. TasksTyped
  BY <1>2, NoTaskTyped DEF Init, TasksTyped
<1>5. queues \in Seq(Seq(Messages)) /\ Len(queues) = 1 /\ queues[1] = <<>>
  <2>1. <<>> \in Seq(Messages)
    OBVIOUS
  <2> QED BY <2>1 DEF Init
<1>6. QueuesTyped
  <2>1. channels \in [Codes -> 0..1] /\ channels[0] # 0
    BY <1>1 DEF Init
  <2>2. \A t \in Tasks : task[t].queue \in 0..1
    BY <1>2, <1>3
  <2> QED BY <1>5, <2>1, <2>2 DEF QueuesTyped
<1>7. ReaderTyped
  <2>1. "read" \in ReaderPlaces
    BY DEF ReaderPlaces
  <2> QED BY <1>1, <2>1 DEF Init, ReaderTyped
<1>8. DeviceTyped
  BY <1>1 DEF Init, DeviceTyped
<1>9. SharedTyped
  <2>1. metadata \in [Codes -> Metadata]
    <3>1. NoChannel \in Metadata /\ [identifier |-> "ctrl", remote |-> FALSE] \in Metadata
      BY DEF NoChannel, Metadata
    <3> QED BY <3>1 DEF Init
  <2> QED BY <1>1, <2>1 DEF Init, SharedTyped
<1>10. \A t \in Tasks : ~Calling(t) /\ task[t].at # "ensure"
  BY <1>2, <1>3 DEF Calling
<1>11. \A i : ~Asked(i) /\ ~Queued(i)
  BY <1>5 DEF Init, Asked, Queued
<1>12. Typed /\ IdsTaken /\ NotQueued
  BY <1>4, <1>6, <1>7, <1>8, <1>9, <1>10, <1>11 DEF Typed, CallsTyped, IdsTaken, NotQueued
<1>13. IdsDiffer
  BY <1>10 DEF Init, IdsDiffer
<1>14. SenderThere
  BY <1>10 DEF SenderThere, SenderOf, Calling
<1> QED BY <1>12, <1>13, <1>14 DEF CorrInv

LEMMA NextCorr ==
  ASSUME BoundsAssumption, OpsAssumption, CorrInv, [Next]_vars
  PROVE  CorrInv'
<1>1. ASSUME NEW t \in Tasks, Begin(t) \/ Open(t) \/ Handshake(t) \/ Call(t) \/ Wait(t)
      PROVE  CorrInv'
  BY <1>1, BeginStep, OpenStep, HandshakeStep, CallStep, WaitStep
<1>2. CASE Read
  BY <1>2, ReadReplyStep, ReadInvokeStep, ReadCapabilitiesStep, ReadCancelStep,
     ReadRequestStep DEF Read
<1>3. CASE ReaderExits
  BY <1>3, ReaderExitsStep
<1>4. CASE DropClient
  BY <1>4, DropClientStep
<1>5. CASE UNCHANGED vars
  <2>1. TasksTyped' /\ SameCalls /\ QueuesTyped' /\ ReaderTyped' /\ DeviceTyped' /\ SharedTyped'
    BY <1>5 DEF vars, shared, CorrInv, Typed, TasksTyped, SameCalls, QueuesTyped, ReaderTyped,
                DeviceTyped, SharedTyped
  <2>2. (\A i : Queued(i)' => Queued(i)) /\ (Over => Over')
    BY <1>5 DEF vars, shared, Queued, Over
  <2> QED BY <1>5, <2>1, <2>2, Quiet DEF vars, shared
<1> QED BY <1>1, <1>2, <1>3, <1>4, <1>5 DEF Next

\* Every state the client reaches has the invariant, whatever the tasks, their
\* operations and the bounds are.
THEOREM CorrInvariant == Spec => []CorrInv
<1>1. Init => CorrInv
  BY InitCorr, BoundsAssumption
<1>2. CorrInv /\ [Next]_vars => CorrInv'
  BY NextCorr, BoundsAssumption, OpsAssumption
<1> QED BY <1>1, <1>2, PTL DEF Spec

\* Type correctness: the registry, the queues, the pending replies and the
\* tasks keep their shape through every handler of the reader and every
\* operation of the client.
THEOREM TypeCorrect == Spec => []TypeOK
<1>1. CorrInv => TypeOK
  <2> SUFFICES ASSUME CorrInv PROVE TypeOK
    OBVIOUS
  <2>1. \A t \in Tasks :
          /\ task[t].at \in Places /\ task[t].id \in 0..MaxId
          /\ task[t].woke \subseteq {"data", "closed", "gone"} /\ task[t].res \in Results
    BY DEF CorrInv, Typed, TasksTyped, TaskRecord
  <2>2. /\ queues \in Seq(Seq(Messages)) /\ channels \in [Codes -> 0..Len(queues)]
        /\ channels[0] # 0 /\ \A t \in Tasks : task[t].queue \in 0..Len(queues)
    BY DEF CorrInv, Typed, QueuesTyped
  <2>3. reader.at \in ReaderPlaces
    BY DEF CorrInv, Typed, ReaderTyped
  <2>4. device.asked \subseteq Request /\ device.sent \in 0..MaxReceived
    BY DEF CorrInv, Typed, DeviceTyped
  <2>5. SharedTyped
    BY DEF CorrInv, Typed
  <2> QED BY <2>1, <2>2, <2>3, <2>4, <2>5 DEF TypeOK, SharedTyped, Metadata, Request, ReaderPlaces
<1> QED BY <1>1, CorrInvariant, PTL

\* While a call waits for its reply, no queue holds that reply: send_method
\* registers the sender before it writes, and dispatch_pending_reply queues
\* a reply for its channel only when nobody is registered for it.
THEOREM ReplyCorrelation == Spec => []ReplyReachesItsCall
<1>1. CorrInv => ReplyReachesItsCall
  BY DEF CorrInv, NotQueued, Queued, Calling, ReplyReachesItsCall
<1> QED BY <1>1, CorrInvariant, PTL

-----------------------------------------------------------------------------
(***************************************************************************)
(* A channel the device opens is served from its acknowledgement on.  The  *)
(* reader prepares it in steps, each under a lock of its own, so the       *)
(* invariant says how far the preparation has come at every place of the   *)
(* reader, and that the tasks, which use the same maps, take nothing away. *)
(***************************************************************************)

Serving == reader.at \in {"ensure", "initialize", "acknowledge"}

\* How far the channel under way is prepared; the one that is taken out of
\* the maps is no longer acknowledged.
Prepared ==
  /\ Serving => /\ metadata[reader.chan] = [identifier |-> reader.id, remote |-> TRUE]
                /\ reader.chan \notin device.acked
  /\ reader.at \in {"initialize", "acknowledge"} => channels[reader.chan] # 0
  /\ reader.at = "acknowledge" =>
       (reader.id \in Registered /\ reader.chan \notin device.unserved
          => reader.chan \in handlers)
  /\ reader.at = "unregister" => reader.chan \notin device.acked

ServedInv == AckedIsServed /\ Prepared
-----------------------------------------------------------------------------
(* Steps that take nothing from a channel of the remote side.              *)

\* What the remote side opened stays, but for a handler that is cleared.
Keeps ==
  /\ device'.acked = device.acked
  /\ \A c \in Remote :
       /\ metadata'[c] = metadata[c]
       /\ channels[c] # 0 => channels'[c] # 0
       /\ c \notin device'.unserved =>
            c \notin device.unserved /\ (c \in handlers => c \in handlers')

\* The reader stays, or goes where it serves no channel.
Leaves == reader' = reader \/ reader'.at \notin {"ensure", "initialize", "acknowledge", "unregister"}

LEMMA ServedFrame ==
  ASSUME CorrInv, ServedInv, Keeps, Leaves
  PROVE  ServedInv'
<1>1. device.acked \subseteq Remote /\ (Serving => reader.chan \in Remote)
  BY DEF CorrInv, Typed, DeviceTyped, ReaderTyped, Serving
<1>2. AckedIsServed'
  BY <1>1 DEF ServedInv, AckedIsServed, Keeps
<1>3. Prepared'
  <2>1. CASE reader' = reader
    BY <1>1, <2>1 DEF ServedInv, Prepared, Keeps, Serving
  <2>2. CASE reader'.at \notin {"ensure", "initialize", "acknowledge", "unregister"}
    BY <2>2 DEF Prepared, Serving
  <2> QED BY <2>1, <2>2 DEF Leaves
<1> QED BY <1>2, <1>3 DEF ServedInv

\* A queue is made where there is none, and is never number 0.
LEMMA EnsureKeeps ==
  ASSUME QueuesTyped, NEW c \in Codes, ensure_channel_registered(c)
  PROVE  /\ channels'[c] # 0
         /\ \A d \in Codes : channels[d] # 0 => channels'[d] # 0
<1>1. CASE channels[c] # 0
  BY <1>1 DEF ensure_channel_registered
<1>2. CASE channels[c] = 0
  <2> DEFINE n == Len(queues)
  <2>1. n \in Nat /\ channels \in [Codes -> 0..n]
    BY DEF QueuesTyped
  <2>2. channels' = [channels EXCEPT ![c] = n + 1]
    BY <1>2 DEF ensure_channel_registered
  <2> HIDE DEF n
  <2> QED BY <2>1, <2>2
<1> QED BY <1>1, <1>2

\* The codes of the device are below those of the client.
LEMMA RemoteCodes ==
  ASSUME BoundsAssumption, CorrInv
  PROVE  /\ Remote \subseteq Codes /\ \A c \in Remote : c # codes + 1
         /\ metadata \in [Codes -> Metadata]
         /\ device \in [asked : SUBSET Request, acked : SUBSET Remote,
                        unserved : SUBSET Codes, sent : 0..MaxReceived]
BY DEF BoundsAssumption, CorrInv, Typed, SharedTyped, DeviceTyped, Remote, Codes
-----------------------------------------------------------------------------
(* The tasks.                                                              *)

LEMMA BeginServed ==
  ASSUME BoundsAssumption, OpsAssumption, CorrInv, ServedInv, NEW t \in Tasks, Begin(t)
  PROVE  ServedInv'
<1>1. PICK o \in Ops[t] : Start(t, o) \/ StartCall(t, o) \/ SetHandler(t, o)
  BY DEF Begin
<1>2. device \in [asked : SUBSET Request, acked : SUBSET Remote,
                  unserved : SUBSET Codes, sent : 0..MaxReceived]
  BY RemoteCodes
<1>3. CASE Start(t, o)
  BY <1>3, ServedFrame DEF Start, shared, Keeps, Leaves
<1>4. CASE StartCall(t, o)
  <2>1. device'.acked = device.acked /\ device'.unserved = device.unserved
    BY <1>2, <1>4 DEF StartCall
  <2>2. Keeps /\ Leaves
    BY <1>4, <2>1 DEF StartCall, shared, Keeps, Leaves
  <2> QED BY <2>2, ServedFrame
<1>5. CASE SetHandler(t, o)
  <2>1. /\ device'.acked = device.acked
        /\ \/ handlers' = handlers \cup {o.chan} /\ device' = device
           \/ handlers' = handlers \ {o.chan} /\ device'.unserved = device.unserved \cup {o.chan}
    BY <1>2, <1>5 DEF SetHandler
  <2>2. Keeps /\ Leaves
    BY <1>5, <2>1 DEF SetHandler, Keeps, Leaves
  <2> QED BY <2>2, ServedFrame
<1> QED BY <1>1, <1>3, <1>4, <1>5

LEMMA OpenServed ==
  ASSUME BoundsAssumption, OpsAssumption, CorrInv, ServedInv, NEW t \in Tasks, Open(t)
  PROVE  ServedInv'
<1>1. PICK o \in Ops[t] : MakeChannel(t, o) /\ UNCHANGED <<pending, handlers, caps, closed, reader>>
  BY DEF Open
<1>2. CASE /\ metadata' = [metadata EXCEPT
                             ![codes + 1] = [identifier |-> "local", remote |-> FALSE]]
           /\ UNCHANGED <<channels, queues, ids, device>>
  <2> DEFINE x == [identifier |-> "local", remote |-> FALSE]
             n == codes + 1
  <2>1. metadata' = [metadata EXCEPT ![n] = x] /\ \A c \in Remote : c # n
    BY <1>2, RemoteCodes
  <2> HIDE DEF x, n
  <2>2. \A c \in Remote : metadata'[c] = metadata[c]
    BY <2>1, RemoteCodes
  <2> QED BY <1>1, <1>2, <2>2, ServedFrame DEF Keeps, Leaves
<1>3. CASE /\ ensure_channel_registered(o.chan)
           /\ UNCHANGED <<metadata, codes, device>>
  <2>1. o.chan \in Codes /\ QueuesTyped
    BY OpTyped DEF Operations, CorrInv, Typed
  <2>2. \A c \in Remote : channels[c] # 0 => channels'[c] # 0
    BY <1>3, <2>1, EnsureKeeps, RemoteCodes
  <2> QED BY <1>1, <1>3, <2>2, ServedFrame DEF Keeps, Leaves
<1> QED BY <1>1, <1>2, <1>3 DEF MakeChannel

LEMMA TaskServed ==
  ASSUME BoundsAssumption, OpsAssumption, CorrInv, ServedInv, NEW t \in Tasks,
         Begin(t) \/ Open(t) \/ Handshake(t) \/ Call(t) \/ Wait(t)
  PROVE  ServedInv'
<1>1. CASE Handshake(t)
  BY <1>1, ServedFrame DEF Handshake, Keeps, Leaves
<1>2. CASE Call(t)
  <2>1. device'.acked = device.acked /\ device'.unserved = device.unserved
    BY <1>2, RemoteCodes DEF Call, send_method
  <2>2. Keeps /\ Leaves
    BY <1>2, <2>1 DEF Call, shared, Keeps, Leaves
  <2> QED BY <2>2, ServedFrame
<1>3. CASE Wait(t)
  <2>1. UNCHANGED <<channels, metadata, handlers, reader, device>>
    BY <1>3 DEF Wait, Look, Check, Park, Resume, Timeout, Watch, shared
  <2> QED BY <2>1, ServedFrame DEF Keeps, Leaves
<1> QED BY <1>1, <1>2, <1>3, BeginServed, OpenServed
-----------------------------------------------------------------------------
(* The reader.                                                             *)

LEMMA MessageServed ==
  ASSUME BoundsAssumption, CorrInv, ServedInv, ReadReply \/ ReadInvoke \/ ReadCapabilities
  PROVE  ServedInv'
<1>1. device'.acked = device.acked /\ device'.unserved = device.unserved
  BY RemoteCodes DEF ReadReply, ReadInvoke, ReadCapabilities
<1>2. UNCHANGED <<channels, metadata, handlers, reader>>
  BY DEF ReadReply, ReadInvoke, ReadCapabilities
<1> QED BY <1>1, <1>2, ServedFrame DEF Keeps, Leaves

\* The channel goes out of the maps after it is no longer acknowledged.
LEMMA CancelServed ==
  ASSUME BoundsAssumption, CorrInv, ServedInv, ReadCancel
  PROVE  ServedInv'
<1>1. /\ channels \in [Codes -> 0..Len(queues)] /\ metadata \in [Codes -> Metadata]
      /\ device.acked \subseteq Codes
      /\ reader \in [at : ReaderPlaces, chan : Codes, id : Identifiers \cup {"none"}]
  BY RemoteCodes DEF CorrInv, Typed, QueuesTyped, ReaderTyped
<1>2. CASE /\ \E c \in Known :
                /\ handlers' = handlers \ {c}
                /\ channels' = [channels EXCEPT ![c] = 0]
                /\ reader' = [reader EXCEPT !.at = "unregister", !.chan = c]
                /\ device' = [device EXCEPT !.sent = Sent, !.acked = @ \ {c}]
           /\ UNCHANGED metadata
  <2>1. PICK c \in Known :
                /\ handlers' = handlers \ {c}
                /\ channels' = [channels EXCEPT ![c] = 0]
                /\ reader' = [reader EXCEPT !.at = "unregister", !.chan = c]
                /\ device' = [device EXCEPT !.sent = Sent, !.acked = @ \ {c}]
    BY <1>2
  <2>2. /\ device'.acked = device.acked \ {c} /\ device'.unserved = device.unserved
        /\ reader'.at = "unregister" /\ reader'.chan = c
    <3> DEFINE n == Sent
    <3>1. device' = [device EXCEPT !.sent = n, !.acked = @ \ {c}]
      BY <2>1
    <3> HIDE DEF n
    <3> QED BY <1>1, <2>1, <3>1, RemoteCodes
  <2>3. AckedIsServed'
    BY <1>1, <1>2, <2>1, <2>2 DEF ServedInv, AckedIsServed
  <2> QED BY <2>2, <2>3 DEF ServedInv, Prepared, Serving
<1>3. CASE /\ reader.at = "unregister"
           /\ metadata' = [metadata EXCEPT ![reader.chan] = NoChannel]
           /\ reader' = [reader EXCEPT !.at = "read"]
           /\ UNCHANGED <<handlers, channels, device>>
  <2> DEFINE x == NoChannel
  <2>1. metadata' = [metadata EXCEPT ![reader.chan] = x] /\ reader'.at = "read"
    BY <1>1, <1>3
  <2> HIDE DEF x
  <2>2. \A c \in device.acked : metadata'[c] = metadata[c]
    BY <1>1, <1>3, <2>1 DEF ServedInv, Prepared
  <2>3. AckedIsServed'
    BY <1>3, <2>2 DEF ServedInv, AckedIsServed
  <2> QED BY <2>1, <2>3 DEF ServedInv, Prepared, Serving
<1> QED BY <1>2, <1>3 DEF ReadCancel, remove_channel

\* A request is served in steps; the acknowledgement is the last one.
LEMMA RequestServed ==
  ASSUME BoundsAssumption, CorrInv, ServedInv, ReadRequest
  PROVE  ServedInv'
<1>1. /\ metadata \in [Codes -> Metadata] /\ device.acked \subseteq Remote
      /\ Remote \subseteq Codes /\ QueuesTyped
      /\ reader \in [at : ReaderPlaces, chan : Codes, id : Identifiers \cup {"none"}]
      /\ (Serving => reader.chan \in Remote)
  BY RemoteCodes DEF CorrInv, Typed, ReaderTyped, Serving
<1>2. CASE /\ \E c \in -MaxCode..-1, i \in Identifiers :
                /\ metadata[c] = NoChannel
                /\ metadata' = [metadata EXCEPT ![c] = [identifier |-> i, remote |-> TRUE]]
                /\ reader' = [at |-> "ensure", chan |-> c, id |-> i]
           /\ device' = [device EXCEPT !.sent = Sent]
           /\ UNCHANGED <<channels, queues, handlers, closed>>
  <2>1. PICK c \in Remote, i \in Identifiers :
                /\ metadata[c] = NoChannel
                /\ metadata' = [metadata EXCEPT ![c] = [identifier |-> i, remote |-> TRUE]]
                /\ reader' = [at |-> "ensure", chan |-> c, id |-> i]
    BY <1>2 DEF Remote
  <2> DEFINE x == [identifier |-> i, remote |-> TRUE]
  <2>2. /\ device'.acked = device.acked /\ device'.unserved = device.unserved
        /\ reader'.at = "ensure" /\ reader'.chan = c /\ reader'.id = i
    BY <1>2, <2>1, RemoteCodes
  <2>3. c \notin device.acked
    BY <2>1 DEF ServedInv, AckedIsServed
  <2>4. metadata' = [metadata EXCEPT ![c] = x]
    BY <2>1
  <2> HIDE DEF x
  <2>5. metadata'[c] = x /\ \A d \in device.acked : metadata'[d] = metadata[d]
    BY <1>1, <2>3, <2>4
  <2>6. AckedIsServed'
    BY <1>2, <2>2, <2>5 DEF ServedInv, AckedIsServed
  <2> QED BY <2>2, <2>3, <2>5, <2>6 DEF ServedInv, Prepared, Serving, x
<1>3. CASE /\ reader.at = "ensure"
           /\ ensure_channel_registered(reader.chan)
           /\ reader' = [reader EXCEPT !.at = "initialize"]
           /\ UNCHANGED <<metadata, handlers, closed, task, device>>
  <2>1. channels'[reader.chan] # 0 /\ \A d \in Codes : channels[d] # 0 => channels'[d] # 0
    BY <1>1, <1>3, EnsureKeeps
  <2>2. reader'.at = "initialize" /\ reader'.chan = reader.chan /\ reader'.id = reader.id
    BY <1>1, <1>3
  <2>3. AckedIsServed'
    BY <1>1, <1>3, <2>1 DEF ServedInv, AckedIsServed
  <2> QED BY <1>3, <2>1, <2>2, <2>3 DEF ServedInv, Prepared, Serving
<1>4. CASE /\ reader.at = "initialize"
           /\ \/ /\ reader.id \in Registered
                 /\ handlers' = handlers \cup {reader.chan}
                 /\ device' = [device EXCEPT !.unserved = @ \ {reader.chan}]
              \/ /\ UNCHANGED handlers
                 /\ device' = [device EXCEPT !.unserved = @ \cup {reader.chan}]
           /\ reader' = [reader EXCEPT !.at = "acknowledge"]
           /\ UNCHANGED <<channels, queues, metadata, closed, task>>
  <2>1. reader'.at = "acknowledge" /\ reader'.chan = reader.chan /\ reader'.id = reader.id
    BY <1>1, <1>4
  <2>2. /\ device'.acked = device.acked
        /\ \/ /\ handlers' = handlers \cup {reader.chan}
              /\ device'.unserved = device.unserved \ {reader.chan}
           \/ /\ handlers' = handlers
              /\ device'.unserved = device.unserved \cup {reader.chan}
    BY <1>4, RemoteCodes
  <2>3. reader.chan \notin device.acked
    BY <1>4 DEF ServedInv, Prepared, Serving
  <2>4. AckedIsServed'
    BY <1>4, <2>2, <2>3 DEF ServedInv, AckedIsServed
  <2>5. reader.chan \notin device'.unserved => reader.chan \in handlers'
    BY <2>2
  <2> QED BY <1>4, <2>1, <2>2, <2>4, <2>5 DEF ServedInv, Prepared, Serving
<1>5. CASE /\ reader.at = "acknowledge"
           /\ \/ /\ device' = [device EXCEPT !.acked = @ \cup {reader.chan}]
                 /\ reader' = [reader EXCEPT !.at = "read"]
                 /\ UNCHANGED closed
              \/ /\ closed' = TRUE
                 /\ reader' = [reader EXCEPT !.at = "refused"]
                 /\ UNCHANGED device
           /\ UNCHANGED <<channels, queues, metadata, handlers, task>>
  <2>1. reader'.at \in {"read", "refused"}
    BY <1>1, <1>5
  <2>2. CASE UNCHANGED device
    BY <1>5, <2>1, <2>2, ServedFrame DEF Keeps, Leaves
  <2>3. CASE device' = [device EXCEPT !.acked = @ \cup {reader.chan}]
    <3>1. /\ device'.acked = device.acked \cup {reader.chan}
          /\ device'.unserved = device.unserved
      BY <2>3, RemoteCodes
    <3>2. /\ channels[reader.chan] # 0
          /\ metadata[reader.chan] = [identifier |-> reader.id, remote |-> TRUE]
          /\ reader.id \in Registered /\ reader.chan \notin device.unserved
               => reader.chan \in handlers
      BY <1>5 DEF ServedInv, Prepared, Serving
    <3>3. metadata[reader.chan] # NoChannel /\ metadata[reader.chan].identifier = reader.id
      BY <3>2 DEF NoChannel
    <3>4. AckedIsServed'
      BY <1>5, <3>1, <3>2, <3>3 DEF ServedInv, AckedIsServed
    <3> QED BY <2>1, <3>4 DEF ServedInv, Prepared, Serving
  <2> QED BY <1>5, <2>2, <2>3
<1> QED BY <1>2, <1>3, <1>4, <1>5 DEF ReadRequest, ServeRequest

LEMMA ReaderEndServed ==
  ASSUME BoundsAssumption, CorrInv, ServedInv, ReaderExits \/ DropClient
  PROVE  ServedInv'
<1>1. UNCHANGED <<channels, metadata, handlers, device>>
  BY DEF ReaderExits, DropClient, shared
<1>2. reader'.at \in {"fail", "close", "notify", "gone", "read", "aborted"}
  BY DEF ReaderExits, NotifyClosed, DropClient, CorrInv, Typed, ReaderTyped
<1> QED BY <1>1, <1>2, ServedFrame DEF Keeps, Leaves
-----------------------------------------------------------------------------
(* The invariant and the theorem.                                          *)

LEMMA NextServed ==
  ASSUME BoundsAssumption, OpsAssumption, CorrInv, ServedInv, [Next]_vars
  PROVE  ServedInv'
<1>1. CASE UNCHANGED vars
  BY <1>1, ServedFrame DEF vars, shared, Keeps, Leaves
<1>2. CASE Read
  BY <1>2, MessageServed, CancelServed, RequestServed DEF Read
<1>3. CASE ReaderExits \/ DropClient
  BY <1>3, ReaderEndServed
<1> QED BY <1>1, <1>2, <1>3, TaskServed DEF Next

\* A channel whose opening the client has acknowledged has its metadata, its
\* queue and, unless its initializer failed or a task cleared it, its handler:
\* _requestChannelWithCode:identifier: registers all of them before it
\* acknowledges, and _channelCanceled: ends the channel for the device first.
THEOREM AckedChannelsServed == Spec => []AckedIsServed
<1>1. Init => ServedInv
  BY DEF Init, ServedInv, AckedIsServed, Prepared, Serving
<1>2. CorrInv /\ ServedInv /\ [Next]_vars => ServedInv'
  BY NextServed, BoundsAssumption, OpsAssumption
<1>3. ServedInv => AckedIsServed
  BY DEF ServedInv
<1> QED BY <1>1, <1>2, <1>3, CorrInvariant, PTL DEF Spec
=============================================================================
