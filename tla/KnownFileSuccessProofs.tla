----------------------- MODULE KnownFileSuccessProofs -----------------------
(***************************************************************************)
(* What a call of KnownFileTxn that reports success has done: the payload  *)
(* of a write is in place, a read left the original in place, a deletion   *)
(* kept both copies.                                                       *)
(***************************************************************************)
EXTENDS KnownFileOutcomeProofs

-----------------------------------------------------------------------------
(***************************************************************************)
(* What a write puts in place                                              *)
(***************************************************************************)
\* A write whose payload may be on its way to the application.
Writing ==
  /\ pc # "idle" /\ active # NoJournal /\ call.prepared
  /\ \/ call.kind = "replace"
     \/ call.kind = "createProbe" /\ mode = "op" /\ pc \in NewPcs \cup {"opened"}

\* Nothing but the payload.
Ours(content) == content \in {Absent, call.data}

\* Labels before the placement is announced, before the payload was read back,
\* and those of a creation only.
UnplacedPcs   == TakingPcs \cup {"stage", "write", "create"}
UnverifiedPcs == (TakingPcs \cup NewPcs) \ {"commitNew", "sendNew", "waitNew", "mismatch"}
CreationPcs   == {"create", "sendCreation", "waitCreation", "sendReadBack"}

\* A call at its own labels is prepared, and a write has its payload.
OwnPrepared ==
  /\ pc \notin {"idle", "finish"} /\ mode = "op" => call.prepared
  /\ pc # "idle" /\ call.kind \in {"replace", "createProbe"} => call.data # Absent

\* The journal of a write.
WriteJournal ==
  Writing =>
    /\ call.data # Absent
    /\ call.kind = "createProbe" =>
         /\ active.operation = "createProbe" /\ active.newDigest = call.data
         /\ ~active.returnOriginalIntent /\ ~active.originalReturned
    /\ pc \in UnplacedPcs => ~active.incomingPlaceIntent /\ ~active.verifyMoveIntent /\ mode = "op"
    /\ pc \in UnverifiedPcs => ~active.newVerified /\ ~active.committed
    /\ pc \in {"commitNew", "sendNew", "waitNew"} => active.newVerified
    /\ pc \in CreationPcs => active.operation # "replace"
    /\ pc \in {"sendCreation", "waitCreation", "sendReadBack", "interrupted"} =>
         active.incomingPlaceIntent
    /\ active.operation = "replace" /\ (\/ pc \in NewPcs \/ active.newVerified
                                        \/ active.incomingPlaceIntent \/ active.verifyMoveIntent) =>
         taken # Absent
    /\ active.operation # "replace" /\ (\/ active.verifyMoveIntent \/ active.newVerified
                                        \/ verify # Absent /\ pc # "opened") =>
         active.incomingPlaceIntent
    /\ active.committed => verify = Absent
    /\ pc = "opened" => verify = Absent
    /\ pc = "create" => incoming = call.data

\* The application's path and the slots while it runs.
WriteContent ==
  Writing /\ ~active.returnOriginalIntent =>
    /\ (active.operation # "replace" /\ pc # "opened") \/ taken # Absent => Ours(target) \/ own
    /\ Ours(verify) \/ verifyOwn
    /\ active.incomingPlaceIntent => Ours(incoming)
    /\ active.newVerified =>
         verify # Absent \/ ((target # Absent \/ own) /\ ~UnderWay("readBack"))

\* The payload of a replacement is gone from its slot when its read-back is
\* awaited, and a recovery that saw the slot empty can rely on it.
WriteSlots ==
  Writing /\ active.operation = "replace" =>
    /\ active.newVerified => incoming = Absent
    /\ pc \in {"waitVerify", "readVerify", "resendReadBack", "rewaitVerify", "rereadVerify"} =>
         incoming = Absent
    /\ mode = "finish" /\ pc \in SeenPcs /\ ~seen.incoming => incoming = Absent
    /\ mode = "finish" /\ pc = "slots" /\ active.newVerified => ~seen.incoming
    /\ mode = "finish" /\ pc \in {"slots", "probe", "classify"} /\ active.newVerified
         /\ ~seen.verify => verify = Absent

WriteInv == OwnPrepared /\ WriteJournal /\ WriteContent /\ WriteSlots


\* The move a device executes, and what is left of the queue.
LEMMA HeadMove ==
  ASSUME moves \in Queues, moves # <<>>, moves' = Tail(moves)
  PROVE  /\ \A m \in Moves : UnderWay(m)' => UnderWay(m)
         /\ Head(moves) \in Moves /\ UnderWay(Head(moves))
         /\ Head(moves) # "place" => ~UnderWay("readBack")'
         /\ Head(moves) = "toOriginal" => moves = <<"toOriginal">>
<1>1. /\ \A m \in Moves : UnderWay(m)' => UnderWay(m)
      /\ UnderWay(Head(moves))
  BY QueueParts DEF UnderWay
<1>2. CASE moves = <<"place", "readBack">>
  <2>1. Head(moves) = "place"
    BY <1>2
  <2> QED BY <1>1, <2>1 DEF Moves
<1>3. CASE \E m \in Moves : moves = <<m>>
  <2>1. PICK m \in Moves : moves = <<m>>
    BY <1>3
  <2>2. moves' = <<>> /\ Head(moves) = m
    BY <2>1
  <2>3. ~UnderWay("readBack")'
    BY <2>2 DEF UnderWay
  <2> QED BY <1>1, <2>1, <2>2, <2>3
<1> QED BY <1>2, <1>3 DEF Queues

\* Setting the result of a call leaves the rest of it alone.
LEMMA ResultOnly ==
  ASSUME TypeInv, call' \in {call, [call EXCEPT !.ok = TRUE], [call EXCEPT !.ok = FALSE]}
  PROVE  call'.kind = call.kind /\ call'.data = call.data /\ call'.prepared = call.prepared
BY CallFields

\* A failure keeps it.
LEMMA FailWrite ==
  ASSUME IInv, PromiseInv, AheadInv, OwnInv, WriteInv, pc \notin {"idle", "finish", "report"},
         Fail
  PROVE  WriteInv'
<1> USE NoJournalAssumption
    DEF WriteInv, OwnPrepared, WriteJournal, WriteContent, WriteSlots, Writing, Ours,
        UnplacedPcs, UnverifiedPcs, CreationPcs, TakingPcs, OwnInv, AgreePayload,
        OwnMode, OwnReplace, OwnJournal, Agree, NewPcs, SeenPcs, PlacingPcs, OpenPcs,
        Pcs, SendPcs, WaitPcs, RecoveryPcs, OtherPcs, Goto, IInv, TypeInv, JournalThere,
        ModeOK, RecoverOnlyPcs, Creating, PromiseInv, AheadInv, AgreeIntents
<1>1. pc \in Pcs
  BY DEF TypeOK
<1>2. /\ pc' \in {"finish", "report"}
      /\ UNCHANGED <<target, original, incoming, verify, snapshot, moves, taken, back,
                      own, verifyOwn, active, journal, mode, seen>>
  BY DEF Fail, FailLabel, device, local, aux
<1>3. call'.kind = call.kind /\ call'.data = call.data /\ call'.prepared = call.prepared
  BY CallFields DEF Fail
<1>4. OwnPrepared'
  BY <1>1, <1>2, <1>3 DEF Fail, FailLabel
<1>5. WriteJournal'
  BY <1>1, <1>2, <1>3
<1>6. WriteContent'
  BY <1>1, <1>2, <1>3 DEF UnderWay, LabelsOK
<1>7. WriteSlots'
  BY <1>1, <1>2, <1>3
<1> QED BY <1>4, <1>5, <1>6, <1>7

\* The steps of a call keep what is said of the payload.
LEMMA CallStepWrite ==
  ASSUME IInv, IInv', PromiseInv, PromiseInv', AheadInv, AheadInv', OwnInv, OwnInv', WriteInv,
         CallStep
  PROVE  WriteInv'
<1> USE NoJournalAssumption
    DEF WriteInv, OwnPrepared, WriteJournal, WriteContent, WriteSlots, Writing, Ours,
        UnplacedPcs, UnverifiedPcs, CreationPcs, TakingPcs, OwnInv, AgreePayload,
        OwnMode, OwnReplace, OwnJournal, Agree, NewPcs, SeenPcs, PlacingPcs, OpenPcs,
        Pcs, SendPcs, WaitPcs, RecoveryPcs, OtherPcs, Goto, IInv, TypeInv, JournalThere,
        ModeOK, RecoverOnlyPcs, Creating, PromiseInv, AheadInv, AgreeIntents
<1>1. CASE PrepareKnownFile
  <2>1. /\ pc = "prepare" /\ pc' \in {"opened", "finish"} /\ mode' = "op"
        /\ journal' = FreshJournal(call.kind, call.data) /\ active' = journal'
        /\ \/ pc' = "opened" /\ call' = [call EXCEPT !.prepared = TRUE]
           \/ pc' = "finish" /\ call' = call
        /\ moves' = <<>> /\ incoming' = Absent /\ verify' = Absent /\ taken' = Absent
    BY <1>1 DEF PrepareKnownFile, Save, Session
  <2>2. call'.kind = call.kind /\ call'.data = call.data
    BY <2>1, CallFields
  <2>3. ~call.prepared
    BY <2>1
  <2>4. OwnPrepared'
    BY <2>1, <2>2, CallFields
  <2>5. CASE pc' = "finish"
    <3>1. ~Writing'
      BY <2>1, <2>3, <2>5
    <3> QED BY <2>4, <3>1
  <2>6. CASE pc' = "opened"
    <3>1. WriteJournal'
      BY <2>1, <2>2, <2>4, <2>6 DEF FreshJournal
    <3>2. WriteContent'
      BY <2>1, <2>2, <2>6 DEF FreshJournal
    <3>3. WriteSlots'
      BY <2>1, <2>2, <2>6 DEF FreshJournal
    <3> QED BY <2>4, <3>1, <3>2, <3>3
  <2> QED BY <2>1, <2>5, <2>6
<1>2. CASE OpenReplace
  <2>1. pc = "opened" /\ journal \in Journal /\ active \in Journal /\ taken = Absent
        /\ active.operation = "replace" /\ call.kind = "replace"
    BY <1>2, JournalType DEF OpenReplace, CustodyInv, OneOriginal, BeforePcs, LabelsOK
  <2>2. CASE pc' = "stage" /\ Save([journal EXCEPT !.operation = "create"]) /\ target = Absent
    <3>1. journal' \in Journal /\ active' = journal'
      BY <2>1, <2>2, JournalUpdates DEF Save
    <3>2. journal'.operation = "create" /\ SameExcept(journal', journal, {"operation"})
      BY <2>1, <2>2 DEF Save, Journal, SameExcept
    <3>3. UNCHANGED <<call, mode, moves, target, incoming, verify, taken, own, verifyOwn, seen>>
      BY <1>2, <2>2 DEF OpenReplace, Save, device
    <3>11. OwnPrepared'
      BY <2>1, <2>2, <3>1, <3>2, <3>3 DEF SameExcept
    <3>12. WriteJournal'
      BY <2>1, <2>2, <3>1, <3>2, <3>3 DEF SameExcept
    <3>13. WriteContent'
      BY <2>1, <2>2, <3>1, <3>2, <3>3 DEF SameExcept, UnderWay
    <3>14. WriteSlots'
      BY <2>1, <2>2, <3>1, <3>2, <3>3 DEF SameExcept
    <3> QED BY <3>11, <3>12, <3>13, <3>14
  <2>3. CASE pc' = "observe" /\ UNCHANGED <<active, journal>>
    <3>1. UNCHANGED <<call, mode, moves, target, incoming, verify, taken, own, verifyOwn, seen>>
      BY <1>2, <2>3 DEF OpenReplace, device
    <3>11. OwnPrepared'
      BY <2>1, <2>3, <3>1
    <3>12. WriteJournal'
      BY <2>1, <2>3, <3>1
    <3>13. WriteContent'
      BY <2>1, <2>3, <3>1 DEF UnderWay
    <3>14. WriteSlots'
      BY <2>1, <2>3, <3>1
    <3> QED BY <3>11, <3>12, <3>13, <3>14
  <2> QED BY <1>2, <2>2, <2>3 DEF OpenReplace, ConfirmsAbsence
<1>3. CASE OpenCreateProbe
  <2>1. CASE Fail
    BY <1>3, <2>1, FailWrite DEF OpenCreateProbe
  <2>2. CASE pc' = "stage" /\ target = Absent
    <3>1. /\ pc = "opened" /\ call.kind = "createProbe" /\ taken = Absent
          /\ UNCHANGED <<active, journal, call, mode, moves, target, incoming, verify, taken,
                        own, verifyOwn, seen>>
      BY <1>3, <2>2
         DEF OpenCreateProbe, device, local, Fail, FailLabel, CustodyInv, OneOriginal, BeforePcs
    <3>11. OwnPrepared'
      BY <2>2, <3>1
    <3>12. WriteJournal'
      BY <2>2, <3>1
    <3>13. WriteContent'
      BY <2>2, <3>1 DEF UnderWay
    <3>14. WriteSlots'
      BY <2>2, <3>1
    <3> QED BY <3>11, <3>12, <3>13, <3>14
  <2> QED BY <1>3, <2>1, <2>2 DEF OpenCreateProbe, ConfirmsAbsence
<1>4. CASE OpenReadOrDelete
  <2>1. OwnPrepared'
    BY <1>4, JournalType, CallFields, CallType DEF OpenReadOrDelete, Step, device, local, aux
  <2>2. WriteJournal'
    BY <1>4, JournalType, CallFields, CallType DEF OpenReadOrDelete, Step, device, local, aux
  <2>3. WriteContent'
    BY <1>4, JournalType, CallFields, CallType
       DEF OpenReadOrDelete, Step, device, local, aux, UnderWay
  <2>4. WriteSlots'
    BY <1>4, JournalType, CallFields, CallType DEF OpenReadOrDelete, Step, device, local, aux
  <2> QED BY <2>1, <2>2, <2>3, <2>4
<1>5. CASE ObserveKnownOriginal
  <2>1. CASE Fail
    BY <1>5, <2>1, FailWrite DEF ObserveKnownOriginal
  <2>2. CASE Record([journal EXCEPT !.originalMoveIntent = TRUE], "sendOriginal") /\ ~Fail
    <3>1. /\ active' = journal' /\ journal' = [journal EXCEPT !.originalMoveIntent = TRUE]
          /\ pc' = "sendOriginal"
          /\ UNCHANGED <<target, original, incoming, verify, snapshot, moves, taken, back,
                      own, verifyOwn, mode, call, seen>>
      BY <1>5, <2>2 DEF ObserveKnownOriginal, Record, Save, device, aux
    <3>2. /\ pc = "observe"
      BY <1>5, <2>2 DEF ObserveKnownOriginal
    <3>3. journal \in Journal /\ journal # NoJournal
      BY <3>2, JournalType
    <3>4. /\ journal'.originalMoveIntent = TRUE
          /\ SameExcept(journal', journal, {"originalMoveIntent"})
      BY <3>1, <3>3, FieldUpdates
    <3>11. OwnPrepared'
      BY <3>1, <3>2, <3>3, <3>4 DEF SameExcept
    <3>12. WriteJournal'
      BY <3>1, <3>2, <3>3, <3>4 DEF SameExcept
    <3>13. WriteContent'
      BY <3>1, <3>2, <3>3, <3>4 DEF SameExcept, UnderWay
    <3>14. WriteSlots'
      BY <3>1, <3>2, <3>3, <3>4 DEF SameExcept
    <3> QED BY <3>11, <3>12, <3>13, <3>14
  <2> QED BY <1>5, <2>1, <2>2 DEF ObserveKnownOriginal
<1>6. CASE SendOriginal
  <2>1. OwnPrepared'
    BY <1>6, JournalType, CallFields, CallType DEF SendOriginal, Send, Session, local, slots
  <2>2. WriteJournal'
    BY <1>6, JournalType, CallFields, CallType DEF SendOriginal, Send, Session, local, slots
  <2>3. WriteContent'
    BY <1>6, JournalType, CallFields, CallType
       DEF SendOriginal, Send, Session, local, slots, UnderWay
  <2>4. WriteSlots'
    BY <1>6, JournalType, CallFields, CallType DEF SendOriginal, Send, Session, local, slots
  <2> QED BY <2>1, <2>2, <2>3, <2>4
<1>7. CASE WaitOriginal
  <2>1. /\ active' = journal' /\ journal' = [journal EXCEPT !.originalObserved = TRUE]
        /\ pc' = "readOriginal" /\ pc = "waitOriginal"
        /\ UNCHANGED <<target, original, incoming, verify, snapshot, moves, taken, back,
                      own, verifyOwn, mode, call, seen>>
    BY <1>7 DEF WaitOriginal, Record, Save, device, aux
  <2>2. journal \in Journal /\ journal # NoJournal
    BY <2>1, JournalType
  <2>3. journal'.originalObserved = TRUE /\ SameExcept(journal', journal, {"originalObserved"})
    BY <2>1, <2>2, FieldUpdates
  <2>11. OwnPrepared'
    BY <1>7, <2>1, <2>2, <2>3 DEF SameExcept, WaitOriginal
  <2>12. WriteJournal'
    BY <1>7, <2>1, <2>2, <2>3 DEF SameExcept, WaitOriginal
  <2>13. WriteContent'
    BY <1>7, <2>1, <2>2, <2>3 DEF SameExcept, WaitOriginal, UnderWay
  <2>14. WriteSlots'
    BY <1>7, <2>1, <2>2, <2>3 DEF SameExcept, WaitOriginal
  <2> QED BY <2>11, <2>12, <2>13, <2>14
<1>8. CASE ReadOriginal
  <2>1. OwnPrepared'
    BY <1>8, JournalType, CallFields, CallType DEF ReadOriginal, device, aux
  <2>2. WriteJournal'
    BY <1>8, JournalType, CallFields, CallType DEF ReadOriginal, device, aux
  <2>3. WriteContent'
    BY <1>8, JournalType, CallFields, CallType DEF ReadOriginal, device, aux, UnderWay
  <2>4. WriteSlots'
    BY <1>8, JournalType, CallFields, CallType DEF ReadOriginal, device, aux
  <2> QED BY <2>1, <2>2, <2>3, <2>4
<1>9. CASE PersistKnownOriginal
  <2>1. journal \in Journal /\ active \in Journal /\ pc = "persist"
    BY <1>9, JournalType DEF PersistKnownOriginal
  <2>2. SameExcept([journal EXCEPT !.captured = snapshot], journal, {"captured"})
    BY <2>1 DEF SameExcept, Journal
  <2>3. SameExcept(journal', journal, {"captured"}) /\ active' = journal'
    BY <1>9, <2>2 DEF PersistKnownOriginal, Save
  <2>4. /\ call'.kind = call.kind /\ call'.data = call.data /\ call'.prepared = call.prepared
        /\ UNCHANGED <<mode, moves, target, incoming, verify, taken, own, verifyOwn, seen>>
        /\ pc' \in {"checkReturn", "stage", "commitDelete", "finish"}
        /\ call.kind = "replace" => pc' = "stage"
    BY <1>9, CallFields DEF PersistKnownOriginal, device, aux
  <2>5. /\ mode = "op"
        /\ taken # Absent
        /\ active.operation = call.kind
        /\ call.kind # "createProbe"
    BY <2>1 DEF CustodyInv, CustodyOK, Staged, LabelsOK
  <2>11. OwnPrepared'
    BY <2>1, <2>3, <2>4, <2>5 DEF SameExcept
  <2>12. WriteJournal'
    BY <2>1, <2>3, <2>4, <2>5 DEF SameExcept
  <2>13. WriteContent'
    BY <2>1, <2>3, <2>4, <2>5 DEF SameExcept, UnderWay
  <2>14. WriteSlots'
    BY <2>1, <2>3, <2>4, <2>5 DEF SameExcept
  <2> QED BY <2>11, <2>12, <2>13, <2>14
<1>10. CASE ReadWithoutData
  <2>1. journal \in Journal /\ active \in Journal
    BY <1>10, JournalType DEF ReadWithoutData
  <2>2. SameExcept([journal EXCEPT !.captured = snapshot], journal, {"captured"})
    BY <2>1 DEF SameExcept, Journal
  <2>3. /\ journal' \in {journal, [journal EXCEPT !.captured = snapshot]}
        /\ active' \in {active, journal'}
        /\ pc \in {"readOriginal", "persist"} /\ pc' = "checkReturn" /\ call.kind = "read"
        /\ UNCHANGED <<device, snapshot, mode, call, seen, calm, aux>>
    BY <1>10 DEF ReadWithoutData
  <2>4. SameExcept(journal', journal, {"captured"})
    <3>1. SameExcept(journal, journal, {"captured"})
      BY DEF SameExcept
    <3> QED BY <2>2, <2>3, <3>1
  <2>5. active' = active \/ active' = journal'
    BY <2>3
  <2> QED BY <2>1, <2>3, <2>4, <2>5 DEF SameExcept, device, aux
<1>11. CASE CheckReturn
  <2>1. CASE Fail
    BY <1>11, <2>1, FailWrite DEF CheckReturn
  <2>2. CASE Save([journal EXCEPT !.returnOriginalIntent = TRUE]) /\ ~Fail
    <3>1. /\ active' = journal' /\ journal' = [journal EXCEPT !.returnOriginalIntent = TRUE]
          /\ pc' = "sendReturn"
          /\ UNCHANGED <<target, original, incoming, verify, snapshot, moves, taken, back,
                      own, verifyOwn, mode, call, seen>>
      BY <1>11, <2>2 DEF CheckReturn, Record, Save, device, aux
    <3>2. /\ pc = "checkReturn"
      BY <1>11, <2>2 DEF CheckReturn
    <3>3. journal \in Journal /\ journal # NoJournal
      BY <3>2, JournalType
    <3>4. /\ journal'.returnOriginalIntent = TRUE
          /\ SameExcept(journal', journal, {"returnOriginalIntent"})
      BY <3>1, <3>3, FieldUpdates
    <3>11. OwnPrepared'
      BY <3>1, <3>2, <3>3, <3>4 DEF SameExcept
    <3>12. WriteJournal'
      BY <3>1, <3>2, <3>3, <3>4 DEF SameExcept
    <3>13. WriteContent'
      BY <3>1, <3>2, <3>3, <3>4 DEF SameExcept, UnderWay
    <3>14. WriteSlots'
      BY <3>1, <3>2, <3>3, <3>4 DEF SameExcept
    <3> QED BY <3>11, <3>12, <3>13, <3>14
  <2> QED BY <1>11, <2>1, <2>2 DEF CheckReturn
<1>12. CASE ForceReturn
  <2>1. OwnPrepared'
    BY <1>12, JournalType, CallFields, CallType DEF ForceReturn, Save, device
  <2>2. WriteJournal'
    BY <1>12, JournalType, CallFields, CallType DEF ForceReturn, Save, device
  <2>3. WriteContent'
    BY <1>12, JournalType, CallFields, CallType DEF ForceReturn, Save, device, UnderWay
  <2>4. WriteSlots'
    BY <1>12, JournalType, CallFields, CallType DEF ForceReturn, Save, device
  <2> QED BY <2>1, <2>2, <2>3, <2>4
<1>13. CASE SendReturn
  <2>1. OwnPrepared'
    BY <1>13, JournalType, CallFields, CallType DEF SendReturn, Send, Session, local, slots
  <2>2. WriteJournal'
    BY <1>13, JournalType, CallFields, CallType DEF SendReturn, Send, Session, local, slots
  <2>3. WriteContent'
    BY <1>13, JournalType, CallFields, CallType
       DEF SendReturn, Send, Session, local, slots, UnderWay
  <2>4. WriteSlots'
    BY <1>13, JournalType, CallFields, CallType DEF SendReturn, Send, Session, local, slots
  <2> QED BY <2>1, <2>2, <2>3, <2>4
<1>14. CASE WaitReturn
  <2>1. /\ active' = journal' /\ journal' = [journal EXCEPT !.originalReturned = TRUE]
        /\ pc' = IF mode = "op" THEN "finish" ELSE "recovered"
        /\ UNCHANGED <<target, original, incoming, verify, snapshot, moves, taken, back,
                      own, verifyOwn, mode, call, seen>>
        /\ pc = "waitReturn" /\ original = Absent
    BY <1>14 DEF WaitReturn, Record, Save, device, aux
  <2>2. journal \in Journal /\ journal # NoJournal
    BY <2>1, JournalType
  <2>3. /\ journal' \in Journal
        /\ journal'.originalReturned = TRUE
        /\ SameExcept(journal', journal, {"originalReturned"})
    BY <2>1, <2>2, FieldUpdates, JournalUpdates
  <2>11. OwnPrepared'
    BY <2>1, <2>2, <2>3 DEF SameExcept
  <2>12. WriteJournal'
    BY <2>1, <2>2, <2>3 DEF SameExcept
  <2>13. WriteContent'
    BY <2>1, <2>2, <2>3 DEF SameExcept, UnderWay
  <2>14. WriteSlots'
    BY <2>1, <2>2, <2>3 DEF SameExcept
  <2> QED BY <2>11, <2>12, <2>13, <2>14
<1>15. CASE Stage
  <2>1. /\ active' = journal' /\ journal' = [journal EXCEPT !.newDigest = call.data]
        /\ pc' = "write" /\ pc = "stage"
        /\ UNCHANGED <<target, original, incoming, verify, snapshot, moves, taken, back,
                      own, verifyOwn, mode, call, seen>>
    BY <1>15 DEF Stage, Record, Save, device, aux
  <2>2. journal \in Journal /\ journal # NoJournal /\ call.data \in File
    BY <2>1, JournalType, CallType
  <2>3. journal'.newDigest = call.data /\ SameExcept(journal', journal, {"newDigest"})
    <3>1. LET i == [journal EXCEPT !.newDigest = call.data]
          IN  i.newDigest = call.data /\ SameExcept(i, journal, {"newDigest"})
      BY <2>2, FieldUpdates
    <3> QED BY <2>1, <3>1
  <2>11. OwnPrepared'
    BY <2>1, <2>2, <2>3 DEF SameExcept
  <2>12. WriteJournal'
    BY <2>1, <2>2, <2>3 DEF SameExcept
  <2>13. WriteContent'
    BY <2>1, <2>2, <2>3 DEF SameExcept, UnderWay
  <2>14. WriteSlots'
    BY <2>1, <2>2, <2>3 DEF SameExcept
  <2> QED BY <2>11, <2>12, <2>13, <2>14
<1>16. CASE WriteKnownIncoming
  <2>1. call'.kind = call.kind /\ call'.data = call.data /\ call'.prepared = call.prepared
    <3>1. call' \in {call, [call EXCEPT !.ok = FALSE]}
      BY <1>16 DEF WriteKnownIncoming
    <3> QED BY <3>1, ResultOnly
  <2>11. OwnPrepared'
    BY <2>1, <1>16, JournalType, CallFields, CallType DEF WriteKnownIncoming, local, aux
  <2>12. WriteJournal'
    BY <2>1, <1>16, JournalType, CallFields, CallType DEF WriteKnownIncoming, local, aux
  <2>13. WriteContent'
    BY <2>1, <1>16, JournalType, CallFields, CallType
       DEF WriteKnownIncoming, local, aux, UnderWay
  <2>14. WriteSlots'
    BY <2>1, <1>16, JournalType, CallFields, CallType DEF WriteKnownIncoming, local, aux
  <2> QED BY <2>11, <2>12, <2>13, <2>14
<1>17. CASE Place
  <2>1. CASE Fail
    BY <1>17, <2>1, FailWrite DEF Place
  <2>2. CASE /\ Record([journal EXCEPT !.incomingPlaceIntent = TRUE,
                                     !.verifyMoveIntent = TRUE], "sendPlacement")
             /\ ~Fail
    <3>1. /\ active' = journal'
          /\ journal' = [journal EXCEPT !.incomingPlaceIntent = TRUE, !.verifyMoveIntent = TRUE]
          /\ pc' = "sendPlacement"
          /\ UNCHANGED <<target, original, incoming, verify, snapshot, moves, taken, back,
                      own, verifyOwn, mode, call, seen>>
      BY <1>17, <2>2 DEF Place, Record, Save, device, aux
    <3>2. /\ pc = "place"
          /\ verify = Absent
          /\ incoming = journal.newDigest
      BY <1>17, <2>2 DEF Place
    <3>3. journal \in Journal /\ journal # NoJournal
      BY <3>2, JournalType
    <3>4. /\ journal'.incomingPlaceIntent = TRUE
          /\ journal'.verifyMoveIntent = TRUE
          /\ SameExcept(journal', journal, {"incomingPlaceIntent", "verifyMoveIntent"})
      BY <3>1, <3>3, FieldUpdates
    <3>11. OwnPrepared'
      BY <3>1, <3>2, <3>3, <3>4 DEF SameExcept
    <3>12. WriteJournal'
      BY <3>1, <3>2, <3>3, <3>4 DEF SameExcept
    <3>13. WriteContent'
      BY <3>1, <3>2, <3>3, <3>4 DEF SameExcept, UnderWay
    <3>14. WriteSlots'
      BY <3>1, <3>2, <3>3, <3>4 DEF SameExcept
    <3> QED BY <3>11, <3>12, <3>13, <3>14
  <2> QED BY <1>17, <2>1, <2>2 DEF Place
<1>18. CASE SendPlacement
  <2>1. call'.kind = call.kind /\ call'.data = call.data /\ call'.prepared = call.prepared
    <3>1. call' \in {call, [call EXCEPT !.ok = FALSE]}
      BY <1>18 DEF SendPlacement
    <3> QED BY <3>1, ResultOnly
  <2>11. OwnPrepared'
    BY <2>1, <1>18, JournalType, CallFields, CallType
       DEF SendPlacement, FailLabel, Session, local, aux, slots
  <2>12. WriteJournal'
    BY <2>1, <1>18, JournalType, CallFields, CallType
       DEF SendPlacement, FailLabel, Session, local, aux, slots
  <2>13. WriteContent'
    BY <2>1, <1>18, JournalType, CallFields, CallType
       DEF SendPlacement, FailLabel, Session, local, aux, slots, UnderWay
  <2>14. WriteSlots'
    BY <2>1, <1>18, JournalType, CallFields, CallType
       DEF SendPlacement, FailLabel, Session, local, aux, slots
  <2> QED BY <2>11, <2>12, <2>13, <2>14
<1>19. CASE WaitIncoming
  <2>1. OwnPrepared'
    BY <1>19, JournalType, CallFields, CallType DEF WaitIncoming, Step, device, local, aux
  <2>2. WriteJournal'
    BY <1>19, JournalType, CallFields, CallType DEF WaitIncoming, Step, device, local, aux
  <2>3. WriteContent'
    BY <1>19, JournalType, CallFields, CallType
       DEF WaitIncoming, Step, device, local, aux, UnderWay
  <2>4. WriteSlots'
    BY <1>19, JournalType, CallFields, CallType DEF WaitIncoming, Step, device, local, aux
  <2> QED BY <2>1, <2>2, <2>3, <2>4
<1>20. CASE WaitVerify
  <2>1. OwnPrepared'
    BY <1>20, JournalType, CallFields, CallType DEF WaitVerify, Step, device, local, aux
  <2>2. WriteJournal'
    BY <1>20, JournalType, CallFields, CallType DEF WaitVerify, Step, device, local, aux
  <2>3. WriteContent'
    BY <1>20, JournalType, CallFields, CallType
       DEF WaitVerify, Step, device, local, aux, UnderWay
  <2>4. WriteSlots'
    BY <1>20, JournalType, CallFields, CallType DEF WaitVerify, Step, device, local, aux
  <2> QED BY <2>1, <2>2, <2>3, <2>4
<1>21. CASE ReadVerify
  <2>1. CASE Fail
    BY <1>21, <2>1, FailWrite DEF ReadVerify
  <2>2. CASE Record([journal EXCEPT !.newVerified = TRUE], "commitNew") /\ ~Fail
    <3>1. /\ active' = journal' /\ journal' = [journal EXCEPT !.newVerified = TRUE]
          /\ pc' = "commitNew"
          /\ UNCHANGED <<target, original, incoming, verify, snapshot, moves, taken, back,
                      own, verifyOwn, mode, call, seen>>
      BY <1>21, <2>2 DEF ReadVerify, Record, Save, device, aux
    <3>2. /\ pc = "readVerify"
          /\ verify = journal.newDigest
          /\ verify # Absent
      BY <1>21, <2>2 DEF ReadVerify
    <3>3. journal \in Journal /\ journal # NoJournal
      BY <3>2, JournalType
    <3>4. journal'.newVerified = TRUE /\ SameExcept(journal', journal, {"newVerified"})
      BY <3>1, <3>3, FieldUpdates
    <3>11. OwnPrepared'
      BY <3>1, <3>2, <3>3, <3>4 DEF SameExcept
    <3>12. WriteJournal'
      BY <3>1, <3>2, <3>3, <3>4 DEF SameExcept
    <3>13. WriteContent'
      BY <3>1, <3>2, <3>3, <3>4 DEF SameExcept, UnderWay
    <3>14. WriteSlots'
      BY <3>1, <3>2, <3>3, <3>4 DEF SameExcept
    <3> QED BY <3>11, <3>12, <3>13, <3>14
  <2> QED BY <1>21, <2>1, <2>2 DEF ReadVerify
<1>22. CASE CommitNew
  <2>1. /\ active' = journal' /\ journal' = [journal EXCEPT !.returnNewIntent = TRUE]
        /\ pc' = "sendNew" /\ pc = "commitNew"
        /\ UNCHANGED <<target, original, incoming, verify, snapshot, moves, taken, back,
                      own, verifyOwn, mode, call, seen>>
    BY <1>22 DEF CommitNew, Record, Save, device, aux
  <2>2. journal \in Journal /\ journal # NoJournal
    BY <2>1, JournalType
  <2>3. journal'.returnNewIntent = TRUE /\ SameExcept(journal', journal, {"returnNewIntent"})
    BY <2>1, <2>2, FieldUpdates
  <2>11. OwnPrepared'
    BY <1>22, <2>1, <2>2, <2>3 DEF SameExcept, CommitNew
  <2>12. WriteJournal'
    BY <1>22, <2>1, <2>2, <2>3 DEF SameExcept, CommitNew
  <2>13. WriteContent'
    BY <1>22, <2>1, <2>2, <2>3 DEF SameExcept, CommitNew, UnderWay
  <2>14. WriteSlots'
    BY <1>22, <2>1, <2>2, <2>3 DEF SameExcept, CommitNew
  <2> QED BY <2>11, <2>12, <2>13, <2>14
<1>23. CASE SendNew
  <2>1. CASE Fail
    BY <1>23, <2>1, FailWrite DEF SendNew, Send
  <2>2. CASE Send("sendNew", "return", "waitNew")
    <3>1. /\ pc = "sendNew" /\ pc' = "waitNew" /\ moves' = <<"return">>
          /\ UNCHANGED <<active, journal, call, mode, target, incoming, verify, taken,
                        own, verifyOwn, seen>>
      BY <2>2 DEF Send, slots, local
    <3>2. ~UnderWay("readBack")'
      BY <3>1 DEF UnderWay
    <3>3. OwnPrepared' /\ WriteJournal'
      BY <3>1
    <3>4. WriteContent'
      BY <3>1, <3>2
    <3>5. WriteSlots'
      BY <3>1
    <3> QED BY <3>3, <3>4, <3>5
  <2> QED BY <1>23, <2>1, <2>2 DEF SendNew
<1>24. CASE WaitNew
  <2>1. /\ active' = journal' /\ journal' = [journal EXCEPT !.committed = TRUE]
        /\ pc' = (IF mode = "op" THEN "finish" ELSE IF Creating THEN "recovered" ELSE "probe")
        /\ pc = "waitNew" /\ verify = Absent
        /\ UNCHANGED <<target, original, incoming, verify, snapshot, moves, taken, back,
                      own, verifyOwn, mode>>
        /\ call' \in {call, [call EXCEPT !.ok = TRUE]}
    BY <1>24 DEF WaitNew, Save, device, aux
  <2>2. journal \in Journal /\ journal # NoJournal
    BY <2>1, JournalType
  <2>3. journal'.committed = TRUE /\ SameExcept(journal', journal, {"committed"})
    BY <2>1, <2>2, FieldUpdates
  <2>4. ~seen'.incoming /\ ~seen'.verify
    BY <1>24 DEF WaitNew, TypeOK, Seen
  <2>5. call'.kind = call.kind /\ call'.data = call.data /\ call'.prepared = call.prepared
    BY <2>1, CallFields
  <2>11. OwnPrepared'
    BY <2>1, <2>2, <2>3, <2>4, <2>5 DEF SameExcept
  <2>12. WriteJournal'
    BY <2>1, <2>2, <2>3, <2>4, <2>5 DEF SameExcept
  <2>13. WriteContent'
    BY <2>1, <2>2, <2>3, <2>4, <2>5 DEF SameExcept, UnderWay
  <2>14. WriteSlots'
    BY <2>1, <2>2, <2>3, <2>4, <2>5 DEF SameExcept
  <2> QED BY <2>11, <2>12, <2>13, <2>14
<1>25. CASE Create
  <2>1. /\ active' = journal' /\ journal' = [journal EXCEPT !.incomingPlaceIntent = TRUE]
        /\ pc' = "sendCreation" /\ pc = "create"
        /\ UNCHANGED <<target, original, incoming, verify, snapshot, moves, taken, back,
                      own, verifyOwn, mode, call, seen>>
    BY <1>25 DEF Create, Record, Save, device, aux
  <2>2. journal \in Journal /\ journal # NoJournal
    BY <2>1, JournalType
  <2>3. /\ journal'.incomingPlaceIntent = TRUE
        /\ SameExcept(journal', journal, {"incomingPlaceIntent"})
    BY <2>1, <2>2, FieldUpdates
  <2>11. OwnPrepared'
    BY <1>25, <2>1, <2>2, <2>3 DEF SameExcept, Create
  <2>12. WriteJournal'
    BY <1>25, <2>1, <2>2, <2>3 DEF SameExcept, Create
  <2>13. WriteContent'
    BY <1>25, <2>1, <2>2, <2>3 DEF SameExcept, Create, UnderWay
  <2>14. WriteSlots'
    BY <1>25, <2>1, <2>2, <2>3 DEF SameExcept, Create
  <2> QED BY <2>11, <2>12, <2>13, <2>14
<1>26. CASE SendCreation
  <2>1. CASE Fail
    BY <1>26, <2>1, FailWrite DEF SendCreation, Send
  <2>2. CASE Send("sendCreation", "place", "waitCreation")
    <3>1. /\ pc = "sendCreation" /\ pc' = "waitCreation" /\ moves' = <<"place">>
          /\ UNCHANGED <<active, journal, call, mode, target, incoming, verify, taken,
                        own, verifyOwn, seen>>
      BY <2>2 DEF Send, slots, local
    <3>2. ~UnderWay("readBack")'
      BY <3>1 DEF UnderWay
    <3>3. OwnPrepared' /\ WriteJournal'
      BY <3>1
    <3>4. WriteContent'
      BY <3>1, <3>2
    <3>5. WriteSlots'
      BY <3>1
    <3> QED BY <3>3, <3>4, <3>5
  <2> QED BY <1>26, <2>1, <2>2 DEF SendCreation
<1>27. CASE WaitCreation
  <2>1. /\ active' = journal' /\ journal' = [journal EXCEPT !.verifyMoveIntent = TRUE]
        /\ pc' = "sendReadBack" /\ pc = "waitCreation"
        /\ UNCHANGED <<target, original, incoming, verify, snapshot, moves, taken, back,
                      own, verifyOwn, mode, call, seen>>
    BY <1>27 DEF WaitCreation, Record, Save, device, aux
  <2>2. journal \in Journal /\ journal # NoJournal
    BY <2>1, JournalType
  <2>3. journal'.verifyMoveIntent = TRUE /\ SameExcept(journal', journal, {"verifyMoveIntent"})
    BY <2>1, <2>2, FieldUpdates
  <2>11. OwnPrepared'
    BY <1>27, <2>1, <2>2, <2>3 DEF SameExcept, WaitCreation
  <2>12. WriteJournal'
    BY <1>27, <2>1, <2>2, <2>3 DEF SameExcept, WaitCreation
  <2>13. WriteContent'
    BY <1>27, <2>1, <2>2, <2>3 DEF SameExcept, WaitCreation, UnderWay
  <2>14. WriteSlots'
    BY <1>27, <2>1, <2>2, <2>3 DEF SameExcept, WaitCreation
  <2> QED BY <2>11, <2>12, <2>13, <2>14
<1>28. CASE SendReadBack
  <2>1. OwnPrepared'
    BY <1>28, JournalType, CallFields, CallType DEF SendReadBack, Send, Session, local, slots
  <2>2. WriteJournal'
    BY <1>28, JournalType, CallFields, CallType DEF SendReadBack, Send, Session, local, slots
  <2>3. WriteContent'
    BY <1>28, JournalType, CallFields, CallType
       DEF SendReadBack, Send, Session, local, slots, UnderWay
  <2>4. WriteSlots'
    BY <1>28, JournalType, CallFields, CallType DEF SendReadBack, Send, Session, local, slots
  <2> QED BY <2>1, <2>2, <2>3, <2>4
<1>29. CASE CommitDelete
  <2>1. OwnPrepared'
    BY <1>29, JournalType, CallFields, CallType DEF CommitDelete, Save, device, aux
  <2>2. WriteJournal'
    BY <1>29, JournalType, CallFields, CallType DEF CommitDelete, Save, device, aux
  <2>3. WriteContent'
    BY <1>29, JournalType, CallFields, CallType DEF CommitDelete, Save, device, aux, UnderWay
  <2>4. WriteSlots'
    BY <1>29, JournalType, CallFields, CallType DEF CommitDelete, Save, device, aux
  <2> QED BY <2>1, <2>2, <2>3, <2>4
<1>30. CASE CommitDeleteRefused
  <2>1. OwnPrepared'
    BY <1>30, JournalType, CallFields, CallType
       DEF CommitDeleteRefused, Fail, FailLabel, device, local, aux
  <2>2. WriteJournal'
    BY <1>30, JournalType, CallFields, CallType
       DEF CommitDeleteRefused, Fail, FailLabel, device, local, aux
  <2>3. WriteContent'
    BY <1>30, JournalType, CallFields, CallType
       DEF CommitDeleteRefused, Fail, FailLabel, device, local, aux, UnderWay
  <2>4. WriteSlots'
    BY <1>30, JournalType, CallFields, CallType
       DEF CommitDeleteRefused, Fail, FailLabel, device, local, aux
  <2> QED BY <2>1, <2>2, <2>3, <2>4
<1>31. CASE Finish
  <2>1. OwnPrepared'
    BY <1>31, JournalType, CallFields, CallType DEF Finish, device, aux
  <2>2. WriteJournal'
    BY <1>31, JournalType, CallFields, CallType DEF Finish, device, aux
  <2>3. WriteContent'
    BY <1>31, JournalType, CallFields, CallType DEF Finish, device, aux, UnderWay
  <2>4. WriteSlots'
    BY <1>31, JournalType, CallFields, CallType DEF Finish, device, aux
  <2> QED BY <2>1, <2>2, <2>3, <2>4
<1>32. CASE Report
  <2>1. OwnPrepared'
    BY <1>32, JournalType, CallFields, CallType DEF Report, device, aux
  <2>2. WriteJournal'
    BY <1>32, JournalType, CallFields, CallType DEF Report, device, aux
  <2>3. WriteContent'
    BY <1>32, JournalType, CallFields, CallType DEF Report, device, aux, UnderWay
  <2>4. WriteSlots'
    BY <1>32, JournalType, CallFields, CallType DEF Report, device, aux
  <2> QED BY <2>1, <2>2, <2>3, <2>4
<1> QED
  BY <1>1, <1>2, <1>3, <1>4, <1>5, <1>6, <1>7, <1>8, <1>9, <1>10, <1>11, <1>12, <1>13, <1>14,
       <1>15, <1>16, <1>17, <1>18, <1>19, <1>20, <1>21, <1>22, <1>23, <1>24, <1>25, <1>26,
       <1>27, <1>28, <1>29, <1>30, <1>31, <1>32
     DEF CallStep

\* So do the steps of a recovery, which resumes a placement or gives it up.
LEMMA RecoveryStepWrite ==
  ASSUME IInv, IInv', PromiseInv, PromiseInv', AheadInv, AheadInv', OwnInv, OwnInv', WriteInv,
         RecoveryStep
  PROVE  WriteInv'
<1> USE NoJournalAssumption
    DEF WriteInv, OwnPrepared, WriteJournal, WriteContent, WriteSlots, Writing, Ours,
        UnplacedPcs, UnverifiedPcs, CreationPcs, TakingPcs, OwnInv, AgreePayload,
        OwnMode, OwnReplace, OwnJournal, Agree, NewPcs, SeenPcs, PlacingPcs, OpenPcs,
        Pcs, SendPcs, WaitPcs, RecoveryPcs, OtherPcs, Goto, IInv, TypeInv, JournalThere,
        ModeOK, RecoverOnlyPcs, Creating, PromiseInv, AheadInv, AgreeIntents
<1>1. CASE RecoverCreate
  <2>1. CASE Fail
    BY <1>1, <2>1, FailWrite DEF RecoverCreate
  <2>2. CASE Record([journal EXCEPT !.newVerified = TRUE], "commitNew") /\ ~Fail
    <3>1. /\ active' = journal' /\ journal' = [journal EXCEPT !.newVerified = TRUE]
          /\ pc' = "commitNew"
          /\ UNCHANGED <<target, original, incoming, verify, snapshot, moves, taken, back,
                      own, verifyOwn, mode, call, seen>>
      BY <1>1, <2>2 DEF RecoverCreate, Record, Save, device, aux
    <3>2. /\ pc = "recover"
          /\ journal.operation = "create"
          /\ ~journal.committed
          /\ verify # Absent
          /\ verify = journal.newDigest
      BY <1>1, <2>2 DEF RecoverCreate, Record, Step, Fail, FailLabel, local
    <3>3. journal \in Journal /\ journal # NoJournal
      BY <3>2, JournalType
    <3>4. journal'.newVerified = TRUE /\ SameExcept(journal', journal, {"newVerified"})
      BY <3>1, <3>3, FieldUpdates
    <3>11. OwnPrepared'
      BY <3>1, <3>2, <3>3, <3>4 DEF SameExcept
    <3>12. WriteJournal'
      BY <3>1, <3>2, <3>3, <3>4 DEF SameExcept
    <3>13. WriteContent'
      BY <3>1, <3>2, <3>3, <3>4 DEF SameExcept, UnderWay
    <3>14. WriteSlots'
      BY <3>1, <3>2, <3>3, <3>4 DEF SameExcept
    <3> QED BY <3>11, <3>12, <3>13, <3>14
  <2>3. CASE /\ verify = Absent
             /\ journal.newVerified
             /\ Record([journal EXCEPT !.committed = TRUE], "recovered")
             /\ ~Fail
    <3>1. /\ active' = journal' /\ journal' = [journal EXCEPT !.committed = TRUE]
          /\ pc' = "recovered"
          /\ UNCHANGED <<target, original, incoming, verify, snapshot, moves, taken, back,
                      own, verifyOwn, mode, call, seen>>
      BY <1>1, <2>3 DEF RecoverCreate, Record, Save, device, aux
    <3>2. /\ pc = "recover"
          /\ journal.operation = "create"
          /\ verify = Absent /\ journal.newVerified
      BY <1>1, <2>3 DEF RecoverCreate
    <3>3. journal \in Journal /\ journal # NoJournal
      BY <3>2, JournalType
    <3>4. journal'.committed = TRUE /\ SameExcept(journal', journal, {"committed"})
      BY <3>1, <3>3, FieldUpdates
    <3>11. OwnPrepared'
      BY <3>1, <3>2, <3>3, <3>4 DEF SameExcept
    <3>12. WriteJournal'
      BY <3>1, <3>2, <3>3, <3>4 DEF SameExcept
    <3>13. WriteContent'
      BY <3>1, <3>2, <3>3, <3>4 DEF SameExcept, UnderWay
    <3>14. WriteSlots'
      BY <3>1, <3>2, <3>3, <3>4 DEF SameExcept
    <3> QED BY <3>11, <3>12, <3>13, <3>14
  <2>4. CASE pc' = "recovered" /\ UNCHANGED local
    <3>1. /\ UNCHANGED <<target, original, verify, snapshot, moves, taken, back, own, verifyOwn,
                        active, journal, mode, call, seen>>
          /\ incoming' \in {incoming, Absent}
      BY <1>1, <2>4 DEF RecoverCreate, Step, Record, Fail, FailLabel, device, local, aux
    <3>2. pc = "recover" /\ journal.operation = "create"
      BY <1>1 DEF RecoverCreate
    <3>11. OwnPrepared'
      BY <2>4, <3>1, <3>2 DEF local
    <3>12. WriteJournal'
      BY <2>4, <3>1, <3>2 DEF local
    <3>13. WriteContent'
      BY <2>4, <3>1, <3>2 DEF local, UnderWay
    <3>14. WriteSlots'
      BY <2>4, <3>1, <3>2 DEF local
    <3> QED BY <3>11, <3>12, <3>13, <3>14
  <2> QED BY <1>1, <2>1, <2>2, <2>3, <2>4 DEF RecoverCreate, Step
<1>2. CASE RecoverCreateProbe
  <2>1. OwnPrepared'
    BY <1>2, JournalType, CallFields, CallType DEF RecoverCreateProbe, local, aux
  <2>2. WriteJournal'
    BY <1>2, JournalType, CallFields, CallType DEF RecoverCreateProbe, local, aux
  <2>3. WriteContent'
    BY <1>2, JournalType, CallFields, CallType DEF RecoverCreateProbe, local, aux, UnderWay
  <2>4. WriteSlots'
    BY <1>2, JournalType, CallFields, CallType DEF RecoverCreateProbe, local, aux
  <2> QED BY <2>1, <2>2, <2>3, <2>4
<1>3. CASE RecoverKnownFile
  <2>1. CASE Fail
    BY <1>3, <2>1, FailWrite DEF RecoverKnownFile
  <2>2. CASE pc' = "recovered" /\ ~Fail
    <3>1. UNCHANGED <<target, original, incoming, verify, snapshot, moves, taken, back,
                      own, verifyOwn, active, journal, mode, call>>
      BY <1>3, <2>2 DEF RecoverKnownFile, Step, device, local, aux
    <3>2. /\ pc = "recover"
          /\ pc' = "recovered"
          /\ ~journal.originalMoveIntent
      BY <1>3, <2>2 DEF RecoverKnownFile, Step
    <3>11. OwnPrepared'
      BY <3>1, <3>2 DEF SameExcept
    <3>12. WriteJournal'
      BY <3>1, <3>2 DEF SameExcept
    <3>13. WriteContent'
      BY <3>1, <3>2 DEF SameExcept, UnderWay
    <3>14. WriteSlots'
      BY <3>1, <3>2 DEF SameExcept
    <3> QED BY <3>11, <3>12, <3>13, <3>14
  <2>3. CASE pc' = "slots" /\ ~Fail
    <3>1. UNCHANGED <<target, original, incoming, verify, snapshot, moves, taken, back,
                      own, verifyOwn, active, journal, mode, call>>
      BY <1>3, <2>3 DEF RecoverKnownFile, Step, device, local, aux
    <3>2. /\ pc = "recover"
          /\ pc' = "slots"
          /\ ~Creating
          /\ seen' = [original |-> original # Absent, incoming |-> incoming # Absent,
                      verify |-> verify # Absent, target |-> Unknown]
      BY <1>3, <2>3 DEF RecoverKnownFile, Step
    <3>11. OwnPrepared'
      BY <3>1, <3>2 DEF SameExcept
    <3>12. WriteJournal'
      BY <3>1, <3>2 DEF SameExcept
    <3>13. WriteContent'
      BY <3>1, <3>2 DEF SameExcept, UnderWay
    <3>14. WriteSlots'
      BY <3>1, <3>2 DEF SameExcept
    <3> QED BY <3>11, <3>12, <3>13, <3>14
  <2> QED BY <1>3, <2>1, <2>2, <2>3 DEF RecoverKnownFile, Step
<1>4. CASE RecoverSlots
  <2>1. CASE Fail
    BY <1>4, <2>1, FailWrite DEF RecoverSlots
  <2>2. CASE Step("interrupted") /\ ResumeReadBack(journal) /\ ~Fail
    <3>1. UNCHANGED <<target, original, incoming, verify, snapshot, moves, taken, back,
                      own, verifyOwn, active, journal, mode, call>>
      BY <1>4, <2>2 DEF RecoverSlots, Step, device, local, aux, ResumeReadBack, Resumable
    <3>2. /\ pc = "slots"
          /\ pc' = "interrupted"
          /\ seen' = seen
          /\ journal.operation = "replace"
          /\ ~journal.newVerified
          /\ journal.incomingPlaceIntent
          /\ ~seen.incoming
      BY <1>4, <2>2 DEF RecoverSlots, Step, ResumeReadBack, Resumable
    <3>11. OwnPrepared'
      BY <3>1, <3>2 DEF SameExcept
    <3>12. WriteJournal'
      BY <3>1, <3>2 DEF SameExcept
    <3>13. WriteContent'
      BY <3>1, <3>2 DEF SameExcept, UnderWay
    <3>14. WriteSlots'
      BY <3>1, <3>2 DEF SameExcept
    <3> QED BY <3>11, <3>12, <3>13, <3>14
  <2>3. CASE Step("place") /\ ResumePlacement(journal) /\ ~Fail
    <3>1. UNCHANGED <<target, original, incoming, verify, snapshot, moves, taken, back,
                      own, verifyOwn, active, journal, mode, call>>
      BY <1>4, <2>3 DEF RecoverSlots, Step, device, local, aux, ResumePlacement, Resumable
    <3>2. /\ pc = "slots"
          /\ pc' = "place"
          /\ seen' = seen
          /\ journal.operation = "replace"
          /\ journal.incomingPlaceIntent
          /\ seen.incoming
          /\ ~journal.committed
      BY <1>4, <2>3 DEF RecoverSlots, Step, ResumePlacement, Resumable
    <3>11. OwnPrepared'
      BY <3>1, <3>2 DEF SameExcept
    <3>12. WriteJournal'
      BY <3>1, <3>2 DEF SameExcept
    <3>13. WriteContent'
      BY <3>1, <3>2 DEF SameExcept, UnderWay
    <3>14. WriteSlots'
      BY <3>1, <3>2 DEF SameExcept
    <3> QED BY <3>11, <3>12, <3>13, <3>14
  <2>4. CASE Record([journal EXCEPT !.newVerified = TRUE], "commitNew") /\ ~Fail
    <3>1. /\ active' = journal' /\ journal' = [journal EXCEPT !.newVerified = TRUE]
          /\ pc' = "commitNew"
          /\ UNCHANGED <<target, original, incoming, verify, snapshot, moves, taken, back,
                      own, verifyOwn, mode, call, seen>>
      BY <1>4, <2>4 DEF RecoverSlots, Record, Save, device, aux
    <3>2. /\ pc = "slots"
          /\ journal.operation = "replace"
          /\ ~seen.incoming
          /\ journal.incomingPlaceIntent
          /\ ~journal.committed
          /\ verify = journal.newDigest
      BY <1>4, <2>4
         DEF RecoverSlots, ResumeReturn, Resumable, Record, Step, ResumePlacement,
             ResumeReadBack
    <3>3. journal \in Journal /\ journal # NoJournal
      BY <3>2, JournalType
    <3>4. journal'.newVerified = TRUE /\ SameExcept(journal', journal, {"newVerified"})
      BY <3>1, <3>3, FieldUpdates
    <3>11. OwnPrepared'
      BY <3>1, <3>2, <3>3, <3>4 DEF SameExcept
    <3>12. WriteJournal'
      BY <3>1, <3>2, <3>3, <3>4 DEF SameExcept
    <3>13. WriteContent'
      BY <3>1, <3>2, <3>3, <3>4 DEF SameExcept, UnderWay
    <3>14. WriteSlots'
      BY <3>1, <3>2, <3>3, <3>4 DEF SameExcept
    <3> QED BY <3>11, <3>12, <3>13, <3>14
  <2>5. CASE pc' \in {"classify", "probe"} /\ ~Fail
    <3>1. UNCHANGED <<target, original, incoming, verify, snapshot, moves, taken, back,
                      own, verifyOwn, active, journal, mode, call>>
      BY <1>4, <2>5 DEF RecoverSlots, Step, device, local, aux, Record
    <3>2. /\ pc = "slots"
          /\ pc' \in {"classify", "probe"}
          /\ seen' = seen
          /\ journal.operation = "delete" => pc' = "classify"
      BY <1>4, <2>5 DEF RecoverSlots, Step, Record
    <3>11. OwnPrepared'
      BY <3>1, <3>2 DEF SameExcept
    <3>12. WriteJournal'
      BY <3>1, <3>2 DEF SameExcept
    <3>13. WriteContent'
      BY <3>1, <3>2 DEF SameExcept, UnderWay
    <3>14. WriteSlots'
      BY <3>1, <3>2 DEF SameExcept
    <3> QED BY <3>11, <3>12, <3>13, <3>14
  <2> QED BY <1>4, <2>1, <2>2, <2>3, <2>4, <2>5 DEF RecoverSlots, Step
<1>5. CASE Interrupted
  <2>1. CASE Fail
    BY <1>5, <2>1, FailWrite DEF Interrupted
  <2>2. CASE Record([journal EXCEPT !.verifyMoveIntent = TRUE], "resendReadBack") /\ ~Fail
    <3>1. /\ active' = journal' /\ journal' = [journal EXCEPT !.verifyMoveIntent = TRUE]
          /\ pc' = "resendReadBack"
          /\ UNCHANGED <<target, original, incoming, verify, snapshot, moves, taken, back,
                      own, verifyOwn, mode, call, seen>>
      BY <1>5, <2>2 DEF Interrupted, Record, Save, device, aux
    <3>2. /\ pc = "interrupted"
          /\ incoming = Absent
      BY <1>5, <2>2 DEF Interrupted, BothOriginalsValid
    <3>3. journal \in Journal /\ journal # NoJournal
      BY <3>2, JournalType
    <3>4. /\ journal'.verifyMoveIntent = TRUE
          /\ SameExcept(journal', journal, {"verifyMoveIntent"})
      BY <3>1, <3>3, FieldUpdates
    <3>11. OwnPrepared'
      BY <3>1, <3>2, <3>3, <3>4 DEF SameExcept
    <3>12. WriteJournal'
      BY <3>1, <3>2, <3>3, <3>4 DEF SameExcept
    <3>13. WriteContent'
      BY <3>1, <3>2, <3>3, <3>4 DEF SameExcept, UnderWay
    <3>14. WriteSlots'
      BY <3>1, <3>2, <3>3, <3>4 DEF SameExcept
    <3> QED BY <3>11, <3>12, <3>13, <3>14
  <2> QED BY <1>5, <2>1, <2>2 DEF Interrupted
<1>6. CASE ResendReadBack
  <2>1. OwnPrepared'
    BY <1>6, JournalType, CallFields, CallType DEF ResendReadBack, Send, Session, local, slots
  <2>2. WriteJournal'
    BY <1>6, JournalType, CallFields, CallType DEF ResendReadBack, Send, Session, local, slots
  <2>3. WriteContent'
    BY <1>6, JournalType, CallFields, CallType
       DEF ResendReadBack, Send, Session, local, slots, UnderWay
  <2>4. WriteSlots'
    BY <1>6, JournalType, CallFields, CallType DEF ResendReadBack, Send, Session, local, slots
  <2> QED BY <2>1, <2>2, <2>3, <2>4
<1>7. CASE RewaitVerify
  <2>1. OwnPrepared'
    BY <1>7, JournalType, CallFields, CallType DEF RewaitVerify, Step, device, local, aux
  <2>2. WriteJournal'
    BY <1>7, JournalType, CallFields, CallType DEF RewaitVerify, Step, device, local, aux
  <2>3. WriteContent'
    BY <1>7, JournalType, CallFields, CallType
       DEF RewaitVerify, Step, device, local, aux, UnderWay
  <2>4. WriteSlots'
    BY <1>7, JournalType, CallFields, CallType DEF RewaitVerify, Step, device, local, aux
  <2> QED BY <2>1, <2>2, <2>3, <2>4
<1>8. CASE RereadVerify
  <2>1. CASE Record([journal EXCEPT !.newVerified = TRUE], "commitNew")
    <3>1. /\ active' = journal' /\ journal' = [journal EXCEPT !.newVerified = TRUE]
          /\ pc' = "commitNew"
          /\ UNCHANGED <<target, original, incoming, verify, snapshot, moves, taken, back,
                      own, verifyOwn, mode, call, seen>>
      BY <1>8, <2>1 DEF RereadVerify, Record, Save, device, aux
    <3>2. /\ pc = "rereadVerify"
          /\ verify = journal.newDigest
      BY <1>8, <2>1 DEF RereadVerify, Record, Goto
    <3>3. journal \in Journal /\ journal # NoJournal
      BY <3>2, JournalType
    <3>4. journal'.newVerified = TRUE /\ SameExcept(journal', journal, {"newVerified"})
      BY <3>1, <3>3, FieldUpdates
    <3>11. OwnPrepared'
      BY <3>1, <3>2, <3>3, <3>4 DEF SameExcept
    <3>12. WriteJournal'
      BY <3>1, <3>2, <3>3, <3>4 DEF SameExcept
    <3>13. WriteContent'
      BY <3>1, <3>2, <3>3, <3>4 DEF SameExcept, UnderWay
    <3>14. WriteSlots'
      BY <3>1, <3>2, <3>3, <3>4 DEF SameExcept
    <3> QED BY <3>11, <3>12, <3>13, <3>14
  <2>2. CASE Record([journal EXCEPT !.readBackMismatch = TRUE], "mismatch")
    <3>1. /\ active' = journal' /\ journal' = [journal EXCEPT !.readBackMismatch = TRUE]
          /\ pc' = "mismatch"
          /\ UNCHANGED <<target, original, incoming, verify, snapshot, moves, taken, back,
                      own, verifyOwn, mode, call, seen>>
      BY <1>8, <2>2 DEF RereadVerify, Record, Save, device, aux
    <3>2. /\ pc = "rereadVerify"
      BY <1>8, <2>2 DEF RereadVerify
    <3>3. journal \in Journal /\ journal # NoJournal
      BY <3>2, JournalType
    <3>4. /\ journal'.readBackMismatch = TRUE
          /\ SameExcept(journal', journal, {"readBackMismatch"})
      BY <3>1, <3>3, FieldUpdates
    <3>11. OwnPrepared'
      BY <3>1, <3>2, <3>3, <3>4 DEF SameExcept
    <3>12. WriteJournal'
      BY <3>1, <3>2, <3>3, <3>4 DEF SameExcept
    <3>13. WriteContent'
      BY <3>1, <3>2, <3>3, <3>4 DEF SameExcept, UnderWay
    <3>14. WriteSlots'
      BY <3>1, <3>2, <3>3, <3>4 DEF SameExcept
    <3> QED BY <3>11, <3>12, <3>13, <3>14
  <2> QED BY <1>8, <2>1, <2>2 DEF RereadVerify
<1>9. CASE Mismatch
  <2>1. OwnPrepared'
    BY <1>9, JournalType, CallFields, CallType DEF Mismatch, FailLabel, Session, local, slots
  <2>2. WriteJournal'
    BY <1>9, JournalType, CallFields, CallType DEF Mismatch, FailLabel, Session, local, slots
  <2>3. WriteContent'
    BY <1>9, JournalType, CallFields, CallType
       DEF Mismatch, FailLabel, Session, local, slots, UnderWay
  <2>4. WriteSlots'
    BY <1>9, JournalType, CallFields, CallType DEF Mismatch, FailLabel, Session, local, slots
  <2> QED BY <2>1, <2>2, <2>3, <2>4
<1>10. CASE ProbeTarget
  <2>1. CASE Fail
    BY <1>10, <2>1, FailWrite DEF ProbeTarget
  <2>2. CASE ~Fail
    <3>1. PICK presence \in Presence :
            /\ seen' = [seen EXCEPT !.target = presence]
            /\ pc' = (IF ~SafeOriginalReturn(journal, presence) THEN "classify"
                     ELSE IF seen.incoming THEN "discard" ELSE "checkReturn")
      BY <1>10, <2>2 DEF ProbeTarget
    <3>2. /\ UNCHANGED <<target, original, incoming, verify, snapshot, moves, taken, back,
                        own, verifyOwn, active, journal, mode, call>>
          /\ pc = "probe"
      BY <1>10, <2>2 DEF ProbeTarget, device, local, aux
    <3>3. /\ seen'.original = seen.original
          /\ seen'.incoming = seen.incoming
          /\ seen'.verify = seen.verify
      BY <3>1 DEF TypeOK, Seen
    <3>4. \/ pc' = "classify"
          \/ /\ pc' \in {"discard", "checkReturn"} /\ seen.original /\ ~journal.originalReturned
             /\ ~journal.newVerified /\ ~journal.committed
      BY <3>1 DEF SafeOriginalReturn
    <3>11. OwnPrepared'
      BY <3>2, <3>3, <3>4
    <3>12. WriteJournal'
      BY <3>2, <3>3, <3>4
    <3>13. WriteContent'
      BY <3>2, <3>3, <3>4 DEF UnderWay
    <3>14. WriteSlots'
      BY <3>2, <3>3, <3>4
    <3> QED BY <3>11, <3>12, <3>13, <3>14
  <2> QED BY <2>1, <2>2
<1>11. CASE Discard
  <2>1. OwnPrepared'
    BY <1>11, JournalType, CallFields, CallType DEF Discard, Step, device, local, aux
  <2>2. WriteJournal'
    BY <1>11, JournalType, CallFields, CallType DEF Discard, Step, device, local, aux
  <2>3. WriteContent'
    BY <1>11, JournalType, CallFields, CallType DEF Discard, Step, device, local, aux, UnderWay
  <2>4. WriteSlots'
    BY <1>11, JournalType, CallFields, CallType DEF Discard, Step, device, local, aux
  <2> QED BY <2>1, <2>2, <2>3, <2>4
<1>12. CASE Discarded
  <2>1. /\ active' = journal' /\ journal' = [journal EXCEPT !.incomingPlaceIntent = FALSE]
        /\ pc' = "checkReturn" /\ pc = "discarded"
        /\ UNCHANGED <<target, original, incoming, verify, snapshot, moves, taken, back,
                      own, verifyOwn, mode, call, seen>>
    BY <1>12 DEF Discarded, Record, Save, device, aux
  <2>2. journal \in Journal /\ journal # NoJournal
    BY <2>1, JournalType
  <2>3. /\ journal'.incomingPlaceIntent = FALSE
        /\ SameExcept(journal', journal, {"incomingPlaceIntent"})
    BY <2>1, <2>2, FieldUpdates
  <2>4. active.operation \notin {"create", "createProbe"}
    BY <2>1 DEF LabelsOK
  <2>11. OwnPrepared'
    BY <2>1, <2>2, <2>3, <2>4 DEF SameExcept
  <2>12. WriteJournal'
    BY <2>1, <2>2, <2>3, <2>4 DEF SameExcept
  <2>13. WriteContent'
    BY <2>1, <2>2, <2>3, <2>4 DEF SameExcept, UnderWay
  <2>14. WriteSlots'
    BY <2>1, <2>2, <2>3, <2>4 DEF SameExcept
  <2> QED BY <2>11, <2>12, <2>13, <2>14
<1>13. CASE CloseDelete
  <2>1. CASE Fail
    BY <1>13, <2>1, FailWrite DEF CloseDelete
  <2>2. CASE Step("recovered") /\ ~Fail
    <3>1. UNCHANGED <<target, original, incoming, verify, snapshot, moves, taken, back,
                      own, verifyOwn, active, journal, mode, call>>
      BY <1>13, <2>2
         DEF CloseDelete, Step, device, local, aux, BothOriginalsValid, LocalOriginalValid,
             Fail, FailLabel
    <3>2. /\ pc = "classify"
          /\ pc' = "recovered"
          /\ journal.operation = "delete"
          /\ journal.committed
          /\ journal.captured # Absent
          /\ snapshot = journal.captured
      BY <1>13, <2>2
         DEF CloseDelete, Step, BothOriginalsValid, LocalOriginalValid, Fail, FailLabel
    <3>11. OwnPrepared'
      BY <3>1, <3>2 DEF SameExcept
    <3>12. WriteJournal'
      BY <3>1, <3>2 DEF SameExcept
    <3>13. WriteContent'
      BY <3>1, <3>2 DEF SameExcept, UnderWay
    <3>14. WriteSlots'
      BY <3>1, <3>2 DEF SameExcept
    <3> QED BY <3>11, <3>12, <3>13, <3>14
  <2> QED BY <1>13, <2>1, <2>2 DEF CloseDelete
<1>14. CASE CloseReturned
  <2>1. CASE Fail
    BY <1>14, <2>1, FailWrite DEF CloseReturned
  <2>2. CASE Step("recovered") /\ ~Fail
    <3>1. UNCHANGED <<target, original, incoming, verify, snapshot, moves, taken, back,
                      own, verifyOwn, active, journal, mode, call>>
      BY <1>14, <2>2 DEF CloseReturned, Step, device, local, aux, OpenReturn, Record, Save
    <3>2. /\ pc = "classify"
          /\ pc' = "recovered"
          /\ ~seen.original
          /\ journal.originalReturned \/ (journal.originalObserved /\ journal.returnOriginalIntent)
      BY <1>14, <2>2 DEF CloseReturned, Step, OpenReturn, Record, Save
    <3>11. OwnPrepared'
      BY <3>1, <3>2 DEF SameExcept
    <3>12. WriteJournal'
      BY <3>1, <3>2 DEF SameExcept
    <3>13. WriteContent'
      BY <3>1, <3>2 DEF SameExcept, UnderWay
    <3>14. WriteSlots'
      BY <3>1, <3>2 DEF SameExcept
    <3> QED BY <3>11, <3>12, <3>13, <3>14
  <2>3. CASE Record([journal EXCEPT !.originalReturned = TRUE], "recovered") /\ ~Fail
    <3>1. /\ active' = journal' /\ journal' = [journal EXCEPT !.originalReturned = TRUE]
          /\ pc' = "recovered"
          /\ UNCHANGED <<target, original, incoming, verify, snapshot, moves, taken, back,
                      own, verifyOwn, mode, call, seen>>
      BY <1>14, <2>3 DEF CloseReturned, Record, Save, device, aux
    <3>2. /\ pc = "classify"
          /\ ~seen.original
          /\ journal.originalReturned \/ (journal.originalObserved /\ journal.returnOriginalIntent)
          /\ ~(journal.operation = "delete" /\ journal.committed)
      BY <1>14, <2>3 DEF CloseReturned, OpenReturn, Record, Step
    <3>3. journal \in Journal /\ journal # NoJournal
      BY <3>2, JournalType
    <3>4. /\ journal'.originalReturned = TRUE
          /\ SameExcept(journal', journal, {"originalReturned"})
      BY <3>1, <3>3, FieldUpdates
    <3>11. OwnPrepared'
      BY <3>1, <3>2, <3>3, <3>4 DEF SameExcept
    <3>12. WriteJournal'
      BY <3>1, <3>2, <3>3, <3>4 DEF SameExcept
    <3>13. WriteContent'
      BY <3>1, <3>2, <3>3, <3>4 DEF SameExcept, UnderWay
    <3>14. WriteSlots'
      BY <3>1, <3>2, <3>3, <3>4 DEF SameExcept
    <3> QED BY <3>11, <3>12, <3>13, <3>14
  <2> QED BY <1>14, <2>1, <2>2, <2>3 DEF CloseReturned
<1>15. CASE ConfirmCommit
  <2>1. CASE Record([journal EXCEPT !.committed = TRUE], "classify")
    <3>1. /\ active' = journal' /\ journal' = [journal EXCEPT !.committed = TRUE]
          /\ pc' = "classify"
          /\ UNCHANGED <<target, original, incoming, verify, snapshot, moves, taken, back,
                      own, verifyOwn, mode, call, seen>>
      BY <1>15, <2>1 DEF ConfirmCommit, Record, Save, device, aux
    <3>2. /\ pc = "classify"
          /\ journal.operation # "delete"
          /\ journal.returnNewIntent
          /\ journal.newVerified
          /\ ~seen.verify
      BY <1>15, <2>1 DEF ConfirmCommit, OpenCommit
    <3>3. journal \in Journal /\ journal # NoJournal
      BY <3>2, JournalType
    <3>4. journal'.committed = TRUE /\ SameExcept(journal', journal, {"committed"})
      BY <3>1, <3>3, FieldUpdates
    <3>5. active.operation \notin {"create", "createProbe"}
      BY <3>2 DEF LabelsOK
    <3>11. OwnPrepared'
      BY <3>1, <3>2, <3>3, <3>4, <3>5 DEF SameExcept
    <3>12. WriteJournal'
      BY <3>1, <3>2, <3>3, <3>4, <3>5 DEF SameExcept
    <3>13. WriteContent'
      BY <3>1, <3>2, <3>3, <3>4, <3>5 DEF SameExcept, UnderWay
    <3>14. WriteSlots'
      BY <3>1, <3>2, <3>3, <3>4, <3>5 DEF SameExcept
    <3> QED BY <3>11, <3>12, <3>13, <3>14
  <2> QED BY <1>15, <2>1 DEF ConfirmCommit
<1>16. CASE CloseCommitted
  <2>1. CASE Fail
    BY <1>16, <2>1, FailWrite DEF CloseCommitted
  <2>2. CASE (Step("recovered") \/ Step("dropOriginal")) /\ ~Fail
    <3>1. UNCHANGED <<target, original, incoming, verify, snapshot, moves, taken, back,
                      own, verifyOwn, active, journal, mode, call>>
      BY <1>16, <2>2
         DEF CloseCommitted, Step, device, local, aux, LocalOriginalValid, Fail, FailLabel
    <3>2. /\ pc = "classify"
          /\ pc' = "dropOriginal" \/ (pc' = "recovered" /\ ~seen.original)
          /\ journal.committed
          /\ journal.captured # Absent
          /\ snapshot = journal.captured
          /\ journal.operation # "delete"
      BY <1>16, <2>2 DEF CloseCommitted, Step, LocalOriginalValid, Fail, FailLabel
    <3>11. OwnPrepared'
      BY <3>1, <3>2 DEF SameExcept
    <3>12. WriteJournal'
      BY <3>1, <3>2 DEF SameExcept
    <3>13. WriteContent'
      BY <3>1, <3>2 DEF SameExcept, UnderWay
    <3>14. WriteSlots'
      BY <3>1, <3>2 DEF SameExcept
    <3> QED BY <3>11, <3>12, <3>13, <3>14
  <2> QED BY <1>16, <2>1, <2>2 DEF CloseCommitted
<1>17. CASE DropOriginal
  <2>1. OwnPrepared'
    BY <1>17, JournalType, CallFields, CallType DEF DropOriginal, local, aux
  <2>2. WriteJournal'
    BY <1>17, JournalType, CallFields, CallType DEF DropOriginal, local, aux
  <2>3. WriteContent'
    BY <1>17, JournalType, CallFields, CallType DEF DropOriginal, local, aux, UnderWay
  <2>4. WriteSlots'
    BY <1>17, JournalType, CallFields, CallType DEF DropOriginal, local, aux
  <2> QED BY <2>1, <2>2, <2>3, <2>4
<1>18. CASE RestoreOrPend
  <2>1. CASE Fail
    BY <1>18, <2>1, FailWrite DEF RestoreOrPend
  <2>2. CASE Record([journal EXCEPT !.originalObserved = TRUE], "forceReturn") /\ ~Fail
    <3>1. /\ active' = journal' /\ journal' = [journal EXCEPT !.originalObserved = TRUE]
          /\ pc' = "forceReturn"
          /\ UNCHANGED <<target, original, incoming, verify, snapshot, moves, taken, back,
                      own, verifyOwn, mode, call, seen>>
      BY <1>18, <2>2 DEF RestoreOrPend, Record, Save, device, aux
    <3>2. /\ pc = "classify"
          /\ seen.original
          /\ ~journal.committed
          /\ mode = "restore"
      BY <1>18, <2>2 DEF RestoreOrPend, Explicit
    <3>3. journal \in Journal /\ journal # NoJournal
      BY <3>2, JournalType
    <3>4. /\ journal'.originalObserved = TRUE
          /\ SameExcept(journal', journal, {"originalObserved"})
      BY <3>1, <3>3, FieldUpdates
    <3>11. OwnPrepared'
      BY <3>1, <3>2, <3>3, <3>4 DEF SameExcept
    <3>12. WriteJournal'
      BY <3>1, <3>2, <3>3, <3>4 DEF SameExcept
    <3>13. WriteContent'
      BY <3>1, <3>2, <3>3, <3>4 DEF SameExcept, UnderWay
    <3>14. WriteSlots'
      BY <3>1, <3>2, <3>3, <3>4 DEF SameExcept
    <3> QED BY <3>11, <3>12, <3>13, <3>14
  <2> QED BY <1>18, <2>1, <2>2 DEF RestoreOrPend
<1>19. CASE RestoreRecovered
  <2>1. OwnPrepared'
    BY <1>19, JournalType, CallFields, CallType DEF RestoreRecovered, device, aux
  <2>2. WriteJournal'
    BY <1>19, JournalType, CallFields, CallType DEF RestoreRecovered, device, aux
  <2>3. WriteContent'
    BY <1>19, JournalType, CallFields, CallType DEF RestoreRecovered, device, aux, UnderWay
  <2>4. WriteSlots'
    BY <1>19, JournalType, CallFields, CallType DEF RestoreRecovered, device, aux
  <2> QED BY <2>1, <2>2, <2>3, <2>4
<1>20. CASE CleanGeneratedStage
  <2>1. OwnPrepared'
    BY <1>20, JournalType, CallFields, CallType DEF CleanGeneratedStage, local, aux, slots
  <2>2. WriteJournal'
    BY <1>20, JournalType, CallFields, CallType DEF CleanGeneratedStage, local, aux, slots
  <2>3. WriteContent'
    BY <1>20, JournalType, CallFields, CallType
       DEF CleanGeneratedStage, local, aux, slots, UnderWay
  <2>4. WriteSlots'
    BY <1>20, JournalType, CallFields, CallType DEF CleanGeneratedStage, local, aux, slots
  <2> QED BY <2>1, <2>2, <2>3, <2>4
<1>21. CASE RemoveActive
  <2>1. /\ active' = NoJournal /\ pc' \in {"prepare", "report"} /\ mode' = mode
        /\ pc = "close" /\ call'.kind = call.kind /\ call'.data = call.data
    BY <1>21, CallFields DEF RemoveActive, TypeOK, Call
  <2> QED BY <2>1
<1> QED
  BY <1>1, <1>2, <1>3, <1>4, <1>5, <1>6, <1>7, <1>8, <1>9, <1>10, <1>11, <1>12, <1>13, <1>14,
       <1>15, <1>16, <1>17, <1>18, <1>19, <1>20, <1>21
     DEF RecoveryStep

\* So do a crash, the device and the application.
LEMMA OtherStepWrite ==
  ASSUME IInv, IInv', PromiseInv, PromiseInv', AheadInv, AheadInv', OwnInv, OwnInv', WriteInv,
         [Next]_vars, ~CallStep, ~RecoveryStep
  PROVE  WriteInv'
<1> USE NoJournalAssumption
    DEF WriteInv, OwnPrepared, WriteJournal, WriteContent, WriteSlots, Writing, Ours,
        UnplacedPcs, UnverifiedPcs, CreationPcs, TakingPcs, OwnInv, AgreePayload,
        OwnMode, OwnReplace, OwnJournal, Agree, NewPcs, SeenPcs, PlacingPcs, OpenPcs,
        Pcs, SendPcs, WaitPcs, RecoveryPcs, OtherPcs, Goto, IInv, TypeInv, JournalThere,
        ModeOK, RecoverOnlyPcs, Creating, PromiseInv, AheadInv, AgreeIntents
<1>1. ASSUME NEW k \in Kinds, NEW d \in File, BeginCall(k, d) PROVE WriteInv'
  BY <1>1, AbsentAssumption DEF BeginCall, DataOf, device, aux
<1>2. CASE BeginRestore
  <2>1. OwnPrepared'
    BY <1>2, JournalType, CallFields, CallType DEF BeginRestore, device, aux, NoCall
  <2>2. WriteJournal'
    BY <1>2, JournalType, CallFields, CallType DEF BeginRestore, device, aux, NoCall
  <2>3. WriteContent'
    BY <1>2, JournalType, CallFields, CallType DEF BeginRestore, device, aux, NoCall, UnderWay
  <2>4. WriteSlots'
    BY <1>2, JournalType, CallFields, CallType DEF BeginRestore, device, aux, NoCall
  <2> QED BY <2>1, <2>2, <2>3, <2>4
<1>3. CASE IoError
  <2>1. CASE Fail
    BY <1>3, <2>1, FailWrite DEF IoError
  <2>2. CASE pc \in {"discard", "discarded"} /\ Step("classify")
    <3>1. /\ pc' = "classify"
          /\ UNCHANGED <<active, journal, call, mode, moves, target, incoming, verify, taken,
                        own, verifyOwn, seen>>
      BY <2>2 DEF Step, device, local, aux
    <3>2. Writing => ~active.newVerified
      BY <2>2
    <3>11. OwnPrepared'
      BY <2>2, <3>1, <3>2
    <3>12. WriteJournal'
      BY <2>2, <3>1, <3>2
    <3>13. WriteContent'
      BY <2>2, <3>1, <3>2 DEF UnderWay
    <3>14. WriteSlots'
      BY <2>2, <3>1, <3>2
    <3> QED BY <3>11, <3>12, <3>13, <3>14
  <2> QED BY <1>3, <2>1, <2>2 DEF IoError
<1>4. CASE WaitTimeout
  <2>1. OwnPrepared'
    BY <1>4, JournalType, CallFields, CallType
       DEF WaitTimeout, Fail, FailLabel, device, local, aux
  <2>2. WriteJournal'
    BY <1>4, JournalType, CallFields, CallType
       DEF WaitTimeout, Fail, FailLabel, device, local, aux
  <2>3. WriteContent'
    BY <1>4, JournalType, CallFields, CallType
       DEF WaitTimeout, Fail, FailLabel, device, local, aux, UnderWay
  <2>4. WriteSlots'
    BY <1>4, JournalType, CallFields, CallType
       DEF WaitTimeout, Fail, FailLabel, device, local, aux
  <2> QED BY <2>1, <2>2, <2>3, <2>4
<1>5. CASE Crash
  <2>1. OwnPrepared'
    BY <1>5, JournalType, CallFields, CallType DEF Crash, device, aux, NoCall
  <2>2. WriteJournal'
    BY <1>5, JournalType, CallFields, CallType DEF Crash, device, aux, NoCall
  <2>3. WriteContent'
    BY <1>5, JournalType, CallFields, CallType DEF Crash, device, aux, NoCall, UnderWay
  <2>4. WriteSlots'
    BY <1>5, JournalType, CallFields, CallType DEF Crash, device, aux, NoCall
  <2> QED BY <2>1, <2>2, <2>3, <2>4
<1>6. CASE ExecuteMove
  <2>1. /\ moves \in Queues /\ moves # <<>> /\ moves' = Tail(moves)
        /\ UNCHANGED <<active, journal, pc, mode, call, seen, snapshot>>
    BY <1>6 DEF ExecuteMove, TypeOK, local, worker
  <2>2. /\ \A m \in Moves : UnderWay(m)' => UnderWay(m)
        /\ Head(moves) \in Moves /\ UnderWay(Head(moves))
        /\ Head(moves) # "place" => ~UnderWay("readBack")'
        /\ Head(moves) = "toOriginal" => moves = <<"toOriginal">>
    BY <2>1, HeadMove
  <2>3. "readBack" \in Moves
    BY DEF Moves
  <2>4. OwnPrepared'
    BY <2>1
  <2>5. CASE UNCHANGED <<target, original, incoming, verify, taken, own, verifyOwn>>
    BY <2>1, <2>2, <2>3, <2>4, <2>5
  <2>6. CASE Head(moves) = "toOriginal" /\ Source("toOriginal") # Absent
    <3>1. /\ target' = Absent /\ taken' # Absent /\ own' = FALSE
          /\ UNCHANGED <<incoming, verify, verifyOwn>>
      BY <1>6, <2>6 DEF ExecuteMove, FillsTarget
    <3>2. taken = Absent
      BY <2>2, <2>6 DEF CustodyInv, OneOriginal
    <3>3. Writing => active.operation = "replace" /\ ~active.newVerified
      <4>1. active # NoJournal => active.operation \notin {"create", "createProbe"}
        BY <2>2, <2>6 DEF FlagsOK, Untaken
      <4> QED BY <3>2, <4>1
    <3>4. WriteJournal'
      BY <2>1, <3>1
    <3>5. WriteContent'
      BY <2>1, <3>1, <3>3
    <3>6. WriteSlots'
      BY <2>1, <3>1
    <3> QED BY <2>4, <3>4, <3>5, <3>6
  <2>7. CASE Head(moves) = "fromOriginal"
    <3>1. /\ UNCHANGED <<incoming, verify, verifyOwn, taken>>
      BY <1>6, <2>7 DEF ExecuteMove
    <3>2. active # NoJournal => active.returnOriginalIntent
      BY <2>2, <2>7 DEF AnnouncedOK
    <3>3. WriteJournal' /\ WriteSlots'
      BY <2>1, <3>1
    <3>4. WriteContent'
      BY <2>1, <3>2
    <3> QED BY <2>4, <3>3, <3>4
  <2>8. CASE Head(moves) = "place" /\ incoming # Absent
    <3>1. \/ UNCHANGED <<target, original, incoming, verify, taken, own, verifyOwn>>
          \/ target' = incoming /\ incoming' = Absent /\ UNCHANGED <<verify, verifyOwn, taken>>
      BY <1>6, <2>8 DEF ExecuteMove, Source, FillsTarget
    <3>2. active # NoJournal => active.incomingPlaceIntent
      BY <2>2, <2>8 DEF AnnouncedOK
    <3>3. CASE /\ target' = incoming
               /\ incoming' = Absent
               /\ UNCHANGED <<verify, verifyOwn, taken>>
      <4>1. WriteJournal' /\ WriteSlots'
        BY <2>1, <3>2, <3>3
      <4>2. WriteContent'
        BY <2>1, <2>2, <2>3, <2>8, <3>2, <3>3
      <4> QED BY <2>4, <4>1, <4>2
    <3> QED BY <2>5, <3>1, <3>3
  <2>9. CASE Head(moves) = "readBack" /\ target # Absent
    <3>1. /\ target' = Absent /\ verify' = target /\ verifyOwn' = own
          /\ UNCHANGED <<incoming, taken>>
      BY <1>6, <2>9 DEF ExecuteMove, Source, FillsTarget
    <3>2. active # NoJournal => active.verifyMoveIntent
      BY <2>2, <2>9 DEF AnnouncedOK
    <3>3. Writing => pc # "opened"
      BY <3>2
    <3>4. Writing => /\ active.operation = "replace" => taken # Absent
                     /\ active.operation # "replace" => active.incomingPlaceIntent
      BY <3>2
    <3>5. Writing /\ active.newVerified => verify # Absent /\ ~active.committed
      <4>1. ASSUME Writing, active.newVerified PROVE ~active.returnOriginalIntent
        BY <4>1
      <4> QED BY <2>2, <2>9, <4>1
    <3>6. Writing => ~active.committed
      BY <3>5
    <3>7. WriteJournal'
      BY <2>1, <3>1, <3>3, <3>4, <3>6
    <3>8. WriteContent'
      BY <2>1, <2>9, <3>1, <3>3, <3>4
    <3>9. WriteSlots'
      BY <2>1, <3>1, <3>5
    <3> QED BY <2>4, <3>7, <3>8, <3>9
  <2>10. CASE Head(moves) = "return" /\ verify # Absent
    <3>1. \/ UNCHANGED <<target, original, incoming, verify, taken, own, verifyOwn>>
          \/ /\ target' = verify /\ verify' = Absent /\ (verifyOwn => own')
             /\ UNCHANGED <<incoming, verifyOwn, taken>>
      BY <1>6, <2>10 DEF ExecuteMove, Source, FillsTarget
    <3>2. CASE /\ target' = verify /\ verify' = Absent /\ (verifyOwn => own')
               /\ UNCHANGED <<incoming, verifyOwn, taken>>
      <4>1. WriteJournal' /\ WriteSlots'
        BY <2>1, <3>2
      <4>2. WriteContent'
        BY <2>1, <2>2, <2>10, <3>2
      <4> QED BY <2>4, <4>1, <4>2
    <3> QED BY <2>5, <3>1, <3>2
  <2>11. \/ UNCHANGED <<target, original, incoming, verify, taken, own, verifyOwn>>
         \/ Source(Head(moves)) # Absent
    BY <1>6 DEF ExecuteMove
  <2> QED BY <2>2, <2>5, <2>6, <2>7, <2>8, <2>9, <2>10, <2>11 DEF Moves, Source
<1>7. CASE DropMove
  <2>1. OwnPrepared'
    BY <1>7, JournalType, CallFields, CallType DEF DropMove, local, worker, aux, slots
  <2>2. WriteJournal'
    BY <1>7, JournalType, CallFields, CallType DEF DropMove, local, worker, aux, slots
  <2>3. WriteContent'
    BY <1>7, JournalType, CallFields, CallType DEF DropMove, local, worker, aux, slots, UnderWay
  <2>4. WriteSlots'
    BY <1>7, JournalType, CallFields, CallType DEF DropMove, local, worker, aux, slots
  <2> QED BY <2>1, <2>2, <2>3, <2>4
<1>8. CASE AppWrites
  <2>1. OwnPrepared'
    BY <1>8, JournalType, CallFields, CallType DEF AppWrites, local, worker, slots
  <2>2. WriteJournal'
    BY <1>8, JournalType, CallFields, CallType DEF AppWrites, local, worker, slots
  <2>3. WriteContent'
    BY <1>8, JournalType, CallFields, CallType DEF AppWrites, local, worker, slots, UnderWay
  <2>4. WriteSlots'
    BY <1>8, JournalType, CallFields, CallType DEF AppWrites, local, worker, slots
  <2> QED BY <2>1, <2>2, <2>3, <2>4
<1>9. CASE Settle
  <2>1. OwnPrepared'
    BY <1>9, JournalType, CallFields, CallType DEF Settle, device, local, worker, aux
  <2>2. WriteJournal'
    BY <1>9, JournalType, CallFields, CallType DEF Settle, device, local, worker, aux
  <2>3. WriteContent'
    BY <1>9, JournalType, CallFields, CallType DEF Settle, device, local, worker, aux, UnderWay
  <2>4. WriteSlots'
    BY <1>9, JournalType, CallFields, CallType DEF Settle, device, local, worker, aux
  <2> QED BY <2>1, <2>2, <2>3, <2>4
<1>10. CASE UNCHANGED vars
  BY <1>10 DEF vars, device, local, worker, aux, UnderWay
<1> QED
  BY <1>1, <1>2, <1>3, <1>4, <1>5, <1>6, <1>7, <1>8, <1>9, <1>10
     DEF Next, Begin, Worker, Device

LEMMA WriteInvariant == Spec => []WriteInv
<1>1. Init => WriteInv
  BY DEF Init, WriteInv, OwnPrepared, WriteJournal, WriteContent, WriteSlots, Writing, NoCall
<1>2. ASSUME IInv, IInv', PromiseInv, PromiseInv', AheadInv, AheadInv', OwnInv, OwnInv',
             WriteInv, [Next]_vars
      PROVE  WriteInv'
  BY <1>2, CallStepWrite, RecoveryStepWrite, OtherStepWrite
<1> QED BY <1>1, <1>2, PromiseInvariant, AheadInvariant, OwnInvariant, PTL DEF Spec

-----------------------------------------------------------------------------
(***************************************************************************)
(* What a call that succeeds leaves                                        *)
(***************************************************************************)
\* Labels a call gets to after its success.
SettlingPcs == {"idle", "finish", "report", "recover", "slots", "probe", "classify",
                "recovered", "close"}

\* A write that succeeded: its payload is in place, or waits to replace itself.
WriteDone ==
  call.kind \in {"replace", "createProbe"} /\ call.ok =>
    /\ pc \in SettlingPcs \cup {"dropOriginal"} /\ call.prepared
    /\ target = call.data \/ own
    /\ Ours(incoming) /\ Ours(verify)
    /\ ~UnderWay("readBack") /\ ~UnderWay("toOriginal") /\ ~UnderWay("fromOriginal")
    /\ active # NoJournal =>
         /\ active.committed /\ active.operation \in {"replace", "create", "createProbe"}
         /\ ~active.originalReturned /\ ~active.returnOriginalIntent

\* A deletion that succeeded has both copies, and nothing moves.
DeleteDone ==
  /\ pc \in PlacingPcs /\ mode = "op" => call.kind # "delete"
  /\ call.kind = "delete" /\ call.data = Absent /\ call.ok =>
       /\ pc \in DecidedPcs
       /\ taken # Absent /\ original = taken /\ snapshot = taken /\ moves = <<>>
       /\ active # NoJournal => active.operation = "delete" /\ active.committed

\* A read that has its data succeeds once the original is back.
Returning(content) ==
  \/ ~back /\ original = taken /\ moves \in {<<>>, content}
  \/ back /\ original = Absent /\ moves = <<>> /\ (target = taken \/ own)
ReadDone ==
  /\ pc \in TakingPcs => ~back
  /\ call.kind = "read" /\ call.ok =>
       /\ pc \in SettlingPcs \cup {"checkReturn", "sendReturn", "waitReturn"}
       /\ taken # Absent
       /\ active # NoJournal => active.operation = "read"
       /\ pc \in {"checkReturn", "sendReturn"} => ~back /\ original = taken /\ moves = <<>>
       /\ pc = "waitReturn" => Returning(<<"fromOriginal">>)
       /\ pc \in SettlingPcs =>
            /\ back /\ original = Absent /\ moves = <<>> /\ (target = taken \/ own)
            /\ active # NoJournal => active.originalReturned
            /\ pc \in {"slots", "probe", "classify"} => ~seen.original

\* What a call that reports success has done.
DoneInv == WriteDone /\ DeleteDone /\ ReadDone

\* A call that fails has not succeeded.
LEMMA FailDone ==
  ASSUME IInv, DoneInv, pc \notin {"idle", "finish", "report"}, Fail
  PROVE  DoneInv'
<1> USE NoJournalAssumption
    DEF DoneInv, WriteDone, DeleteDone, ReadDone, SettlingPcs, Returning, Ours,
        DecidedPcs, TakingPcs, OwnInv, OwnMode, NewPcs, PlacingPcs, OpenPcs, Pcs,
        SendPcs, WaitPcs, RecoveryPcs, OtherPcs, Goto, IInv, TypeInv, JournalThere,
        ModeOK, RecoverOnlyPcs, Creating, PromiseInv, AheadInv, Agree, AgreeIntents
<1>1. pc' \in {"finish", "report"} /\ ~call'.ok
  BY CallFields DEF Fail, FailLabel
<1> QED BY <1>1

\* A call sets its result to success where it has done its work.
LEMMA CallStepDone ==
  ASSUME IInv, IInv', PromiseInv, PromiseInv', AheadInv, OwnInv, WriteInv, DoneInv, CallStep
  PROVE  DoneInv'
<1> USE NoJournalAssumption
    DEF DoneInv, WriteDone, DeleteDone, ReadDone, SettlingPcs, Returning, Ours,
        DecidedPcs, TakingPcs, OwnInv, OwnMode, NewPcs, PlacingPcs, OpenPcs, Pcs,
        SendPcs, WaitPcs, RecoveryPcs, OtherPcs, Goto, IInv, TypeInv, JournalThere,
        ModeOK, RecoverOnlyPcs, Creating, PromiseInv, AheadInv, Agree, AgreeIntents
<1>1. CASE PrepareKnownFile
  <2>1. WriteDone'
    BY <1>1, JournalType, CallFields, CallType DEF PrepareKnownFile, Save, Session, UnderWay
  <2>2. DeleteDone'
    BY <1>1, JournalType, CallFields, CallType DEF PrepareKnownFile, Save, Session
  <2>3. ReadDone'
    BY <1>1, JournalType, CallFields, CallType DEF PrepareKnownFile, Save, Session
  <2> QED BY <2>1, <2>2, <2>3
<1>2. CASE OpenReplace
  <2>1. WriteDone'
    BY <1>2, JournalType, CallFields, CallType DEF OpenReplace, Save, device, UnderWay
  <2>2. DeleteDone'
    BY <1>2, JournalType, CallFields, CallType DEF OpenReplace, Save, device
  <2>3. ReadDone'
    BY <1>2, JournalType, CallFields, CallType DEF OpenReplace, Save, device
  <2> QED BY <2>1, <2>2, <2>3
<1>3. CASE OpenCreateProbe
  <2>1. WriteDone'
    BY <1>3, JournalType, CallFields, CallType
       DEF OpenCreateProbe, Fail, FailLabel, device, local, aux, UnderWay
  <2>2. DeleteDone'
    BY <1>3, JournalType, CallFields, CallType
       DEF OpenCreateProbe, Fail, FailLabel, device, local, aux
  <2>3. ReadDone'
    BY <1>3, JournalType, CallFields, CallType
       DEF OpenCreateProbe, Fail, FailLabel, device, local, aux
  <2> QED BY <2>1, <2>2, <2>3
<1>4. CASE OpenReadOrDelete
  <2>1. /\ pc = "opened" /\ pc' \in {"finish", "observe"} /\ call.kind \in {"read", "delete"}
        /\ pc' = "finish" => call.kind = "delete" /\ call.data # Absent
        /\ pc' = "observe" => call' = call
        /\ call' \in {call, [call EXCEPT !.ok = TRUE]}
        /\ back' = back
    BY <1>4 DEF OpenReadOrDelete, Step, aux
  <2>2. call'.kind = call.kind /\ call'.data = call.data
    BY <2>1, CallFields
  <2>3. WriteDone'
    BY <2>1, <2>2
  <2>4. DeleteDone'
    BY <2>1, <2>2
  <2>5. ReadDone'
    BY <2>1, <2>2
  <2> QED BY <2>3, <2>4, <2>5
<1>5. CASE ObserveKnownOriginal
  <2>1. CASE Fail
    BY <1>5, <2>1, FailDone DEF ObserveKnownOriginal
  <2>2. CASE Record([journal EXCEPT !.originalMoveIntent = TRUE], "sendOriginal") /\ ~Fail
    <3>1. /\ active' = journal' /\ journal' = [journal EXCEPT !.originalMoveIntent = TRUE]
          /\ pc' = "sendOriginal"
          /\ UNCHANGED <<target, original, incoming, verify, snapshot, moves, taken, back,
                      own, verifyOwn, mode, call, seen>>
      BY <1>5, <2>2 DEF ObserveKnownOriginal, Record, Save, device, aux
    <3>2. /\ pc = "observe"
      BY <1>5, <2>2 DEF ObserveKnownOriginal
    <3>3. journal \in Journal /\ journal # NoJournal
      BY <3>2, JournalType
    <3>4. /\ journal'.originalMoveIntent = TRUE
          /\ SameExcept(journal', journal, {"originalMoveIntent"})
      BY <3>1, <3>3, FieldUpdates
    <3>11. WriteDone'
      BY <3>1, <3>2, <3>3, <3>4 DEF SameExcept, UnderWay
    <3>12. DeleteDone'
      BY <3>1, <3>2, <3>3, <3>4 DEF SameExcept
    <3>13. ReadDone'
      BY <3>1, <3>2, <3>3, <3>4 DEF SameExcept
    <3> QED BY <3>11, <3>12, <3>13
  <2> QED BY <1>5, <2>1, <2>2 DEF ObserveKnownOriginal
<1>6. CASE SendOriginal
  <2>1. WriteDone'
    BY <1>6, JournalType, CallFields, CallType
       DEF SendOriginal, Send, Session, local, slots, UnderWay
  <2>2. DeleteDone'
    BY <1>6, JournalType, CallFields, CallType DEF SendOriginal, Send, Session, local, slots
  <2>3. ReadDone'
    BY <1>6, JournalType, CallFields, CallType DEF SendOriginal, Send, Session, local, slots
  <2> QED BY <2>1, <2>2, <2>3
<1>7. CASE WaitOriginal
  <2>1. /\ active' = journal' /\ journal' = [journal EXCEPT !.originalObserved = TRUE]
        /\ pc' = "readOriginal" /\ pc = "waitOriginal"
        /\ UNCHANGED <<target, original, incoming, verify, snapshot, moves, taken, back,
                      own, verifyOwn, mode, call, seen>>
    BY <1>7 DEF WaitOriginal, Record, Save, device, aux
  <2>2. journal \in Journal /\ journal # NoJournal
    BY <2>1, JournalType
  <2>3. journal'.originalObserved = TRUE /\ SameExcept(journal', journal, {"originalObserved"})
    BY <2>1, <2>2, FieldUpdates
  <2>11. WriteDone'
    BY <1>7, <2>1, <2>2, <2>3 DEF SameExcept, WaitOriginal, UnderWay
  <2>12. DeleteDone'
    BY <1>7, <2>1, <2>2, <2>3 DEF SameExcept, WaitOriginal
  <2>13. ReadDone'
    BY <1>7, <2>1, <2>2, <2>3 DEF SameExcept, WaitOriginal
  <2> QED BY <2>11, <2>12, <2>13
<1>8. CASE ReadOriginal
  <2>1. WriteDone'
    BY <1>8, JournalType, CallFields, CallType DEF ReadOriginal, device, aux, UnderWay
  <2>2. DeleteDone'
    BY <1>8, JournalType, CallFields, CallType DEF ReadOriginal, device, aux
  <2>3. ReadDone'
    BY <1>8, JournalType, CallFields, CallType DEF ReadOriginal, device, aux
  <2> QED BY <2>1, <2>2, <2>3
<1>9. CASE PersistKnownOriginal
  <2>1. journal \in Journal /\ active \in Journal /\ pc = "persist"
    BY <1>9, JournalType DEF PersistKnownOriginal
  <2>2. SameExcept([journal EXCEPT !.captured = snapshot], journal, {"captured"})
    BY <2>1 DEF SameExcept, Journal
  <2>3. SameExcept(journal', journal, {"captured"}) /\ active' = journal'
    BY <1>9, <2>2 DEF PersistKnownOriginal, Save
  <2>4. /\ call'.kind = call.kind /\ call'.ok = (call.kind = "read")
        /\ UNCHANGED <<mode, moves, target, original, incoming, verify, taken, own, back, seen>>
        /\ pc' \in {"checkReturn", "stage", "commitDelete", "finish"}
        /\ call.kind = "read" => pc' = "checkReturn"
        /\ pc' = "stage" => call.kind # "delete"
    BY <1>9, CallFields DEF PersistKnownOriginal, device, aux
  <2>5. mode = "op" /\ taken # Absent /\ (original = taken \/ back)
    BY <2>1 DEF CustodyInv, CustodyOK, Staged
  <2>6. moves = <<>>
    BY <2>1, <2>5 DEF DeleteOK, CustodyInv, OneOriginal
  <2>7. call.kind = "read" => journal.operation = "read"
    BY <2>1 DEF LabelsOK
  <2>11. WriteDone'
    BY <2>1, <2>3, <2>4, <2>5, <2>6, <2>7 DEF SameExcept, UnderWay
  <2>12. DeleteDone'
    BY <2>1, <2>3, <2>4, <2>5, <2>6, <2>7 DEF SameExcept
  <2>13. ReadDone'
    BY <2>1, <2>3, <2>4, <2>5, <2>6, <2>7 DEF SameExcept
  <2> QED BY <2>11, <2>12, <2>13
<1>10. CASE ReadWithoutData
  <2>1. journal \in Journal /\ active \in Journal
    BY <1>10, JournalType DEF ReadWithoutData
  <2>2. SameExcept([journal EXCEPT !.captured = snapshot], journal, {"captured"})
    BY <2>1 DEF SameExcept, Journal
  <2>3. /\ journal' \in {journal, [journal EXCEPT !.captured = snapshot]}
        /\ active' \in {active, journal'}
        /\ pc \in {"readOriginal", "persist"} /\ pc' = "checkReturn" /\ call.kind = "read"
        /\ UNCHANGED <<device, snapshot, mode, call, seen, calm, aux>>
    BY <1>10 DEF ReadWithoutData
  <2>4. SameExcept(journal', journal, {"captured"})
    <3>1. SameExcept(journal, journal, {"captured"})
      BY DEF SameExcept
    <3> QED BY <2>2, <2>3, <3>1
  <2>5. active' = active \/ active' = journal'
    BY <2>3
  <2> QED BY <2>1, <2>3, <2>4, <2>5 DEF SameExcept, device, aux
<1>11. CASE CheckReturn
  <2>1. CASE Fail
    BY <1>11, <2>1, FailDone DEF CheckReturn
  <2>2. CASE Save([journal EXCEPT !.returnOriginalIntent = TRUE]) /\ ~Fail
    <3>1. /\ active' = journal' /\ journal' = [journal EXCEPT !.returnOriginalIntent = TRUE]
          /\ pc' = "sendReturn"
          /\ UNCHANGED <<target, original, incoming, verify, snapshot, moves, taken, back,
                      own, verifyOwn, mode, call, seen>>
      BY <1>11, <2>2 DEF CheckReturn, Record, Save, device, aux
    <3>2. /\ pc = "checkReturn"
      BY <1>11, <2>2 DEF CheckReturn
    <3>3. journal \in Journal /\ journal # NoJournal
      BY <3>2, JournalType
    <3>4. /\ journal'.returnOriginalIntent = TRUE
          /\ SameExcept(journal', journal, {"returnOriginalIntent"})
      BY <3>1, <3>3, FieldUpdates
    <3>11. WriteDone'
      BY <3>1, <3>2, <3>3, <3>4 DEF SameExcept, UnderWay
    <3>12. DeleteDone'
      BY <3>1, <3>2, <3>3, <3>4 DEF SameExcept
    <3>13. ReadDone'
      BY <3>1, <3>2, <3>3, <3>4 DEF SameExcept
    <3> QED BY <3>11, <3>12, <3>13
  <2> QED BY <1>11, <2>1, <2>2 DEF CheckReturn
<1>12. CASE ForceReturn
  <2>1. WriteDone'
    BY <1>12, JournalType, CallFields, CallType DEF ForceReturn, Save, device, UnderWay
  <2>2. DeleteDone'
    BY <1>12, JournalType, CallFields, CallType DEF ForceReturn, Save, device
  <2>3. ReadDone'
    BY <1>12, JournalType, CallFields, CallType DEF ForceReturn, Save, device
  <2> QED BY <2>1, <2>2, <2>3
<1>13. CASE SendReturn
  <2>1. WriteDone'
    BY <1>13, JournalType, CallFields, CallType
       DEF SendReturn, Send, Session, local, slots, UnderWay
  <2>2. DeleteDone'
    BY <1>13, JournalType, CallFields, CallType DEF SendReturn, Send, Session, local, slots
  <2>3. ReadDone'
    BY <1>13, JournalType, CallFields, CallType DEF SendReturn, Send, Session, local, slots
  <2> QED BY <2>1, <2>2, <2>3
<1>14. CASE WaitReturn
  <2>1. /\ active' = journal' /\ journal' = [journal EXCEPT !.originalReturned = TRUE]
        /\ pc' \in {"finish", "recovered"} /\ pc = "waitReturn" /\ original = Absent
        /\ UNCHANGED <<target, original, incoming, verify, snapshot, moves, taken, back,
                      own, verifyOwn, mode, call, seen>>
    BY <1>14 DEF WaitReturn, Record, Save, device, aux
  <2>2. journal \in Journal /\ journal # NoJournal
    BY <2>1, JournalType
  <2>3. journal'.originalReturned = TRUE /\ SameExcept(journal', journal, {"originalReturned"})
    BY <2>1, <2>2, FieldUpdates
  <2>11. WriteDone'
    BY <2>1, <2>2, <2>3 DEF SameExcept, UnderWay
  <2>12. DeleteDone'
    BY <2>1, <2>2, <2>3 DEF SameExcept
  <2>13. ReadDone'
    BY <2>1, <2>2, <2>3 DEF SameExcept
  <2> QED BY <2>11, <2>12, <2>13
<1>15. CASE Stage
  <2>1. /\ active' = journal' /\ journal' = [journal EXCEPT !.newDigest = call.data]
        /\ pc' = "write" /\ pc = "stage"
        /\ UNCHANGED <<target, original, incoming, verify, snapshot, moves, taken, back,
                      own, verifyOwn, mode, call, seen>>
    BY <1>15 DEF Stage, Record, Save, device, aux
  <2>2. journal \in Journal /\ journal # NoJournal /\ call.data \in File
    BY <2>1, JournalType, CallType
  <2>3. journal'.newDigest = call.data /\ SameExcept(journal', journal, {"newDigest"})
    <3>1. LET i == [journal EXCEPT !.newDigest = call.data]
          IN  i.newDigest = call.data /\ SameExcept(i, journal, {"newDigest"})
      BY <2>2, FieldUpdates
    <3> QED BY <2>1, <3>1
  <2>11. WriteDone'
    BY <2>1, <2>2, <2>3 DEF SameExcept, UnderWay
  <2>12. DeleteDone'
    BY <2>1, <2>2, <2>3 DEF SameExcept
  <2>13. ReadDone'
    BY <2>1, <2>2, <2>3 DEF SameExcept
  <2> QED BY <2>11, <2>12, <2>13
<1>16. CASE WriteKnownIncoming
  <2>1. WriteDone'
    BY <1>16, JournalType, CallFields, CallType DEF WriteKnownIncoming, local, aux, UnderWay
  <2>2. DeleteDone'
    BY <1>16, JournalType, CallFields, CallType DEF WriteKnownIncoming, local, aux
  <2>3. ReadDone'
    BY <1>16, JournalType, CallFields, CallType DEF WriteKnownIncoming, local, aux
  <2> QED BY <2>1, <2>2, <2>3
<1>17. CASE Place
  <2>1. CASE Fail
    BY <1>17, <2>1, FailDone DEF Place
  <2>2. CASE /\ Record([journal EXCEPT !.incomingPlaceIntent = TRUE,
                                     !.verifyMoveIntent = TRUE], "sendPlacement")
             /\ ~Fail
    <3>1. /\ active' = journal'
          /\ journal' = [journal EXCEPT !.incomingPlaceIntent = TRUE, !.verifyMoveIntent = TRUE]
          /\ pc' = "sendPlacement"
          /\ UNCHANGED <<target, original, incoming, verify, snapshot, moves, taken, back,
                      own, verifyOwn, mode, call, seen>>
      BY <1>17, <2>2 DEF Place, Record, Save, device, aux
    <3>2. /\ pc = "place"
          /\ verify = Absent
          /\ incoming = journal.newDigest
      BY <1>17, <2>2 DEF Place
    <3>3. journal \in Journal /\ journal # NoJournal
      BY <3>2, JournalType
    <3>4. /\ journal'.incomingPlaceIntent = TRUE
          /\ journal'.verifyMoveIntent = TRUE
          /\ SameExcept(journal', journal, {"incomingPlaceIntent", "verifyMoveIntent"})
      BY <3>1, <3>3, FieldUpdates
    <3>11. WriteDone'
      BY <3>1, <3>2, <3>3, <3>4 DEF SameExcept, UnderWay
    <3>12. DeleteDone'
      BY <3>1, <3>2, <3>3, <3>4 DEF SameExcept
    <3>13. ReadDone'
      BY <3>1, <3>2, <3>3, <3>4 DEF SameExcept
    <3> QED BY <3>11, <3>12, <3>13
  <2> QED BY <1>17, <2>1, <2>2 DEF Place
<1>18. CASE SendPlacement
  <2>1. WriteDone'
    BY <1>18, JournalType, CallFields, CallType
       DEF SendPlacement, FailLabel, Session, local, aux, slots, UnderWay
  <2>2. DeleteDone'
    BY <1>18, JournalType, CallFields, CallType
       DEF SendPlacement, FailLabel, Session, local, aux, slots
  <2>3. ReadDone'
    BY <1>18, JournalType, CallFields, CallType
       DEF SendPlacement, FailLabel, Session, local, aux, slots
  <2> QED BY <2>1, <2>2, <2>3
<1>19. CASE WaitIncoming
  <2>1. WriteDone'
    BY <1>19, JournalType, CallFields, CallType
       DEF WaitIncoming, Step, device, local, aux, UnderWay
  <2>2. DeleteDone'
    BY <1>19, JournalType, CallFields, CallType DEF WaitIncoming, Step, device, local, aux
  <2>3. ReadDone'
    BY <1>19, JournalType, CallFields, CallType DEF WaitIncoming, Step, device, local, aux
  <2> QED BY <2>1, <2>2, <2>3
<1>20. CASE WaitVerify
  <2>1. WriteDone'
    BY <1>20, JournalType, CallFields, CallType
       DEF WaitVerify, Step, device, local, aux, UnderWay
  <2>2. DeleteDone'
    BY <1>20, JournalType, CallFields, CallType DEF WaitVerify, Step, device, local, aux
  <2>3. ReadDone'
    BY <1>20, JournalType, CallFields, CallType DEF WaitVerify, Step, device, local, aux
  <2> QED BY <2>1, <2>2, <2>3
<1>21. CASE ReadVerify
  <2>1. CASE Fail
    BY <1>21, <2>1, FailDone DEF ReadVerify
  <2>2. CASE Record([journal EXCEPT !.newVerified = TRUE], "commitNew") /\ ~Fail
    <3>1. /\ active' = journal' /\ journal' = [journal EXCEPT !.newVerified = TRUE]
          /\ pc' = "commitNew"
          /\ UNCHANGED <<target, original, incoming, verify, snapshot, moves, taken, back,
                      own, verifyOwn, mode, call, seen>>
      BY <1>21, <2>2 DEF ReadVerify, Record, Save, device, aux
    <3>2. /\ pc = "readVerify"
          /\ verify = journal.newDigest
          /\ verify # Absent
      BY <1>21, <2>2 DEF ReadVerify
    <3>3. journal \in Journal /\ journal # NoJournal
      BY <3>2, JournalType
    <3>4. journal'.newVerified = TRUE /\ SameExcept(journal', journal, {"newVerified"})
      BY <3>1, <3>3, FieldUpdates
    <3>11. WriteDone'
      BY <3>1, <3>2, <3>3, <3>4 DEF SameExcept, UnderWay
    <3>12. DeleteDone'
      BY <3>1, <3>2, <3>3, <3>4 DEF SameExcept
    <3>13. ReadDone'
      BY <3>1, <3>2, <3>3, <3>4 DEF SameExcept
    <3> QED BY <3>11, <3>12, <3>13
  <2> QED BY <1>21, <2>1, <2>2 DEF ReadVerify
<1>22. CASE CommitNew
  <2>1. /\ active' = journal' /\ journal' = [journal EXCEPT !.returnNewIntent = TRUE]
        /\ pc' = "sendNew" /\ pc = "commitNew"
        /\ UNCHANGED <<target, original, incoming, verify, snapshot, moves, taken, back,
                      own, verifyOwn, mode, call, seen>>
    BY <1>22 DEF CommitNew, Record, Save, device, aux
  <2>2. journal \in Journal /\ journal # NoJournal
    BY <2>1, JournalType
  <2>3. journal'.returnNewIntent = TRUE /\ SameExcept(journal', journal, {"returnNewIntent"})
    BY <2>1, <2>2, FieldUpdates
  <2>11. WriteDone'
    BY <1>22, <2>1, <2>2, <2>3 DEF SameExcept, CommitNew, UnderWay
  <2>12. DeleteDone'
    BY <1>22, <2>1, <2>2, <2>3 DEF SameExcept, CommitNew
  <2>13. ReadDone'
    BY <1>22, <2>1, <2>2, <2>3 DEF SameExcept, CommitNew
  <2> QED BY <2>11, <2>12, <2>13
<1>23. CASE SendNew
  <2>1. WriteDone'
    BY <1>23, JournalType, CallFields, CallType
       DEF SendNew, Fail, FailLabel, Send, Session, device, local, aux, slots, UnderWay
  <2>2. DeleteDone'
    BY <1>23, JournalType, CallFields, CallType
       DEF SendNew, Fail, FailLabel, Send, Session, device, local, aux, slots
  <2>3. ReadDone'
    BY <1>23, JournalType, CallFields, CallType
       DEF SendNew, Fail, FailLabel, Send, Session, device, local, aux, slots
  <2> QED BY <2>1, <2>2, <2>3
<1>24. CASE WaitNew
  <2>1. /\ active' = journal' /\ journal' = [journal EXCEPT !.committed = TRUE]
        /\ pc = "waitNew" /\ verify = Absent
        /\ UNCHANGED <<target, original, incoming, verify, snapshot, moves, taken, back,
                      own, verifyOwn, mode>>
        /\ call' = (IF mode = "op" THEN [call EXCEPT !.ok = TRUE] ELSE call)
        /\ mode = "op" => pc' = "finish"
    BY <1>24 DEF WaitNew, Save, device, aux
  <2>2. journal \in Journal /\ journal # NoJournal /\ active # NoJournal
    BY <2>1, JournalType
  <2>3. journal'.committed = TRUE /\ SameExcept(journal', journal, {"committed"})
    BY <2>1, <2>2, FieldUpdates
  <2>4. call'.kind = call.kind /\ call'.data = call.data /\ call'.prepared = call.prepared
    BY <2>1, CallFields
  <2>5. CASE mode # "op"
    BY <2>1, <2>5
  <2>6. CASE mode = "op" /\ call.kind \in {"replace", "createProbe"}
    <3>1. /\ Writing
          /\ active.newVerified
          /\ ~active.returnOriginalIntent
          /\ ~active.originalReturned
          /\ active.operation \in {"replace", "create", "createProbe"}
      BY <2>1, <2>2, <2>6
         DEF WriteInv, OwnPrepared, Writing, WriteJournal, OwnReplace, OwnJournal
    <3>2. /\ target = call.data \/ own
          /\ Ours(incoming) /\ Ours(verify) /\ ~UnderWay("readBack")
      BY <2>1, <3>1 DEF WriteInv, WriteJournal, WriteContent, WriteSlots
    <3>3. ~UnderWay("toOriginal") /\ ~UnderWay("fromOriginal")
      <4>1. moves # <<"toOriginal">>
        <5>1. CASE active.operation = "replace"
          BY <2>1, <3>1, <5>1 DEF WriteInv, WriteJournal, CustodyInv, OneOriginal
        <5>2. CASE active.operation \in {"create", "createProbe"}
          BY <2>2, <5>2 DEF FlagsOK, Untaken
        <5> QED BY <3>1, <5>1, <5>2
      <4>2. UnderWay("toOriginal") => moves = <<"toOriginal">>
        BY QueueAlone DEF TypeOK, UnderWay
      <4>3. UnderWay("fromOriginal") => active.returnOriginalIntent
        BY <2>2 DEF AnnouncedOK
      <4> QED BY <3>1, <4>1, <4>2, <4>3
    <3>4. WriteDone'
      <4>1. call'.ok /\ pc' = "finish" /\ call'.prepared
        BY <2>1, <2>4, <2>6, <3>1, CallFields DEF Writing
      <4>2. target' = call'.data \/ own'
        BY <2>1, <2>4, <3>2
      <4>3. Ours(incoming)' /\ Ours(verify)'
        BY <2>1, <2>4, <3>2
      <4>4. ~UnderWay("readBack")' /\ ~UnderWay("toOriginal")' /\ ~UnderWay("fromOriginal")'
        BY <2>1, <3>2, <3>3 DEF UnderWay
      <4>5. /\ active'.committed /\ active'.operation \in {"replace", "create", "createProbe"}
            /\ ~active'.originalReturned /\ ~active'.returnOriginalIntent
        <5>1. /\ journal.operation = active.operation
              /\ journal.originalReturned = active.originalReturned
              /\ journal.returnOriginalIntent = active.returnOriginalIntent
          BY <2>1
        <5> QED BY <2>1, <2>3, <3>1, <5>1 DEF SameExcept
      <4> QED BY <4>1, <4>2, <4>3, <4>4, <4>5
    <3> QED BY <2>1, <2>4, <2>6, <3>4
  <2>7. CASE mode = "op" /\ call.kind \notin {"replace", "createProbe"}
    <3>1. call.kind \notin {"read", "delete"}
      BY <2>1, <2>2, <2>7, JournalType DEF LabelsOK
    <3> QED BY <2>1, <2>4, <2>7, <3>1
  <2> QED BY <2>5, <2>6, <2>7
<1>25. CASE Create
  <2>1. /\ active' = journal' /\ journal' = [journal EXCEPT !.incomingPlaceIntent = TRUE]
        /\ pc' = "sendCreation" /\ pc = "create"
        /\ UNCHANGED <<target, original, incoming, verify, snapshot, moves, taken, back,
                      own, verifyOwn, mode, call, seen>>
    BY <1>25 DEF Create, Record, Save, device, aux
  <2>2. journal \in Journal /\ journal # NoJournal
    BY <2>1, JournalType
  <2>3. /\ journal'.incomingPlaceIntent = TRUE
        /\ SameExcept(journal', journal, {"incomingPlaceIntent"})
    BY <2>1, <2>2, FieldUpdates
  <2>11. WriteDone'
    BY <1>25, <2>1, <2>2, <2>3 DEF SameExcept, Create, UnderWay
  <2>12. DeleteDone'
    BY <1>25, <2>1, <2>2, <2>3 DEF SameExcept, Create
  <2>13. ReadDone'
    BY <1>25, <2>1, <2>2, <2>3 DEF SameExcept, Create
  <2> QED BY <2>11, <2>12, <2>13
<1>26. CASE SendCreation
  <2>1. WriteDone'
    BY <1>26, JournalType, CallFields, CallType
       DEF SendCreation, Fail, FailLabel, Send, Session, device, local, aux, slots, UnderWay
  <2>2. DeleteDone'
    BY <1>26, JournalType, CallFields, CallType
       DEF SendCreation, Fail, FailLabel, Send, Session, device, local, aux, slots
  <2>3. ReadDone'
    BY <1>26, JournalType, CallFields, CallType
       DEF SendCreation, Fail, FailLabel, Send, Session, device, local, aux, slots
  <2> QED BY <2>1, <2>2, <2>3
<1>27. CASE WaitCreation
  <2>1. /\ active' = journal' /\ journal' = [journal EXCEPT !.verifyMoveIntent = TRUE]
        /\ pc' = "sendReadBack" /\ pc = "waitCreation"
        /\ UNCHANGED <<target, original, incoming, verify, snapshot, moves, taken, back,
                      own, verifyOwn, mode, call, seen>>
    BY <1>27 DEF WaitCreation, Record, Save, device, aux
  <2>2. journal \in Journal /\ journal # NoJournal
    BY <2>1, JournalType
  <2>3. journal'.verifyMoveIntent = TRUE /\ SameExcept(journal', journal, {"verifyMoveIntent"})
    BY <2>1, <2>2, FieldUpdates
  <2>11. WriteDone'
    BY <1>27, <2>1, <2>2, <2>3 DEF SameExcept, WaitCreation, UnderWay
  <2>12. DeleteDone'
    BY <1>27, <2>1, <2>2, <2>3 DEF SameExcept, WaitCreation
  <2>13. ReadDone'
    BY <1>27, <2>1, <2>2, <2>3 DEF SameExcept, WaitCreation
  <2> QED BY <2>11, <2>12, <2>13
<1>28. CASE SendReadBack
  <2>1. WriteDone'
    BY <1>28, JournalType, CallFields, CallType
       DEF SendReadBack, Send, Session, local, slots, UnderWay
  <2>2. DeleteDone'
    BY <1>28, JournalType, CallFields, CallType DEF SendReadBack, Send, Session, local, slots
  <2>3. ReadDone'
    BY <1>28, JournalType, CallFields, CallType DEF SendReadBack, Send, Session, local, slots
  <2> QED BY <2>1, <2>2, <2>3
<1>29. CASE CommitDelete
  <2>1. WriteDone'
    BY <1>29, JournalType, CallFields, CallType DEF CommitDelete, Save, device, aux, UnderWay
  <2>2. DeleteDone'
    <3>1. /\ pc = "commitDelete" /\ pc' = "finish" /\ active' = journal'
          /\ \E absence \in BOOLEAN :
               journal' = [journal EXCEPT !.committed = TRUE, !.targetAbsenceConfirmed = absence]
          /\ UNCHANGED <<original, snapshot, moves, taken>>
      BY <1>29 DEF CommitDelete, Save, device, aux
    <3>2. journal \in Journal /\ journal # NoJournal
      BY <3>1, JournalType
    <3>3. journal'.committed = TRUE /\ journal'.operation = "delete" /\ journal' \in Journal
      BY <3>1, <3>2 DEF Journal, DeleteOK
    <3>6. journal' # NoJournal
      BY <3>3
    <3>4. taken' # Absent /\ original' = taken' /\ snapshot' = taken'
      BY <3>1, <3>3, <3>6 DEF CommittedDeleteRetained
    <3>5. moves = <<>>
      BY <3>1, <3>4 DEF DeleteOK, CustodyInv, OneOriginal
    <3> QED BY <3>1, <3>3, <3>4, <3>5, <3>6
  <2>3. ReadDone'
    BY <1>29, JournalType, CallFields, CallType DEF CommitDelete, Save, device, aux
  <2> QED BY <2>1, <2>2, <2>3
<1>30. CASE CommitDeleteRefused
  <2>1. WriteDone'
    BY <1>30, JournalType, CallFields, CallType
       DEF CommitDeleteRefused, Fail, FailLabel, device, local, aux, UnderWay
  <2>2. DeleteDone'
    BY <1>30, JournalType, CallFields, CallType
       DEF CommitDeleteRefused, Fail, FailLabel, device, local, aux
  <2>3. ReadDone'
    BY <1>30, JournalType, CallFields, CallType
       DEF CommitDeleteRefused, Fail, FailLabel, device, local, aux
  <2> QED BY <2>1, <2>2, <2>3
<1>31. CASE Finish
  <2>1. WriteDone'
    BY <1>31, JournalType, CallFields, CallType DEF Finish, device, aux, UnderWay
  <2>2. DeleteDone'
    BY <1>31, JournalType, CallFields, CallType DEF Finish, device, aux
  <2>3. ReadDone'
    BY <1>31, JournalType, CallFields, CallType DEF Finish, device, aux
  <2> QED BY <2>1, <2>2, <2>3
<1>32. CASE Report
  <2>1. WriteDone'
    BY <1>32, JournalType, CallFields, CallType DEF Report, device, aux, UnderWay
  <2>2. DeleteDone'
    BY <1>32, JournalType, CallFields, CallType DEF Report, device, aux
  <2>3. ReadDone'
    BY <1>32, JournalType, CallFields, CallType DEF Report, device, aux
  <2> QED BY <2>1, <2>2, <2>3
<1> QED
  BY <1>1, <1>2, <1>3, <1>4, <1>5, <1>6, <1>7, <1>8, <1>9, <1>10, <1>11, <1>12, <1>13, <1>14,
       <1>15, <1>16, <1>17, <1>18, <1>19, <1>20, <1>21, <1>22, <1>23, <1>24, <1>25, <1>26,
       <1>27, <1>28, <1>29, <1>30, <1>31, <1>32
     DEF CallStep

\* A recovery undoes nothing a successful call has done.
LEMMA RecoveryStepDone ==
  ASSUME IInv, IInv', PromiseInv, PromiseInv', AheadInv, OwnInv, WriteInv, DoneInv, RecoveryStep
  PROVE  DoneInv'
<1> USE NoJournalAssumption
    DEF DoneInv, WriteDone, DeleteDone, ReadDone, SettlingPcs, Returning, Ours,
        DecidedPcs, TakingPcs, OwnInv, OwnMode, NewPcs, PlacingPcs, OpenPcs, Pcs,
        SendPcs, WaitPcs, RecoveryPcs, OtherPcs, Goto, IInv, TypeInv, JournalThere,
        ModeOK, RecoverOnlyPcs, Creating, PromiseInv, AheadInv, Agree, AgreeIntents
<1>1. CASE RecoverCreate
  <2>1. CASE Fail
    BY <1>1, <2>1, FailDone DEF RecoverCreate
  <2>2. CASE Record([journal EXCEPT !.newVerified = TRUE], "commitNew") /\ ~Fail
    <3>1. /\ active' = journal' /\ journal' = [journal EXCEPT !.newVerified = TRUE]
          /\ pc' = "commitNew"
          /\ UNCHANGED <<target, original, incoming, verify, snapshot, moves, taken, back,
                      own, verifyOwn, mode, call, seen>>
      BY <1>1, <2>2 DEF RecoverCreate, Record, Save, device, aux
    <3>2. /\ pc = "recover"
          /\ journal.operation = "create"
          /\ ~journal.committed
          /\ verify # Absent
          /\ verify = journal.newDigest
      BY <1>1, <2>2 DEF RecoverCreate, Record, Step, Fail, FailLabel, local
    <3>3. journal \in Journal /\ journal # NoJournal
      BY <3>2, JournalType
    <3>4. journal'.newVerified = TRUE /\ SameExcept(journal', journal, {"newVerified"})
      BY <3>1, <3>3, FieldUpdates
    <3>11. WriteDone'
      BY <3>1, <3>2, <3>3, <3>4 DEF SameExcept, UnderWay
    <3>12. DeleteDone'
      BY <3>1, <3>2, <3>3, <3>4 DEF SameExcept
    <3>13. ReadDone'
      BY <3>1, <3>2, <3>3, <3>4 DEF SameExcept
    <3> QED BY <3>11, <3>12, <3>13
  <2>3. CASE /\ verify = Absent
             /\ journal.newVerified
             /\ Record([journal EXCEPT !.committed = TRUE], "recovered")
             /\ ~Fail
    <3>1. /\ active' = journal' /\ journal' = [journal EXCEPT !.committed = TRUE]
          /\ pc' = "recovered"
          /\ UNCHANGED <<target, original, incoming, verify, snapshot, moves, taken, back,
                      own, verifyOwn, mode, call, seen>>
      BY <1>1, <2>3 DEF RecoverCreate, Record, Save, device, aux
    <3>2. /\ pc = "recover"
          /\ journal.operation = "create"
          /\ verify = Absent /\ journal.newVerified
      BY <1>1, <2>3 DEF RecoverCreate
    <3>3. journal \in Journal /\ journal # NoJournal
      BY <3>2, JournalType
    <3>4. journal'.committed = TRUE /\ SameExcept(journal', journal, {"committed"})
      BY <3>1, <3>3, FieldUpdates
    <3>11. WriteDone'
      BY <3>1, <3>2, <3>3, <3>4 DEF SameExcept, UnderWay
    <3>12. DeleteDone'
      BY <3>1, <3>2, <3>3, <3>4 DEF SameExcept
    <3>13. ReadDone'
      BY <3>1, <3>2, <3>3, <3>4 DEF SameExcept
    <3> QED BY <3>11, <3>12, <3>13
  <2>4. CASE pc' = "recovered" /\ UNCHANGED local
    <3>1. /\ UNCHANGED <<target, original, verify, snapshot, moves, taken, back, own, verifyOwn,
                        active, journal, mode, call, seen>>
          /\ incoming' \in {incoming, Absent}
      BY <1>1, <2>4 DEF RecoverCreate, Step, Record, Fail, FailLabel, device, local, aux
    <3>2. pc = "recover" /\ journal.operation = "create"
      BY <1>1 DEF RecoverCreate
    <3>3. WriteDone'
      BY <2>4, <3>1, <3>2 DEF UnderWay
    <3>4. DeleteDone'
      BY <2>4, <3>1, <3>2
    <3>5. ReadDone'
      BY <2>4, <3>1, <3>2
    <3> QED BY <3>3, <3>4, <3>5
  <2> QED BY <1>1, <2>1, <2>2, <2>3, <2>4 DEF RecoverCreate, Step
<1>2. CASE RecoverCreateProbe
  <2>1. WriteDone'
    BY <1>2, JournalType, CallFields, CallType DEF RecoverCreateProbe, local, aux, UnderWay
  <2>2. DeleteDone'
    BY <1>2, JournalType, CallFields, CallType DEF RecoverCreateProbe, local, aux
  <2>3. ReadDone'
    BY <1>2, JournalType, CallFields, CallType DEF RecoverCreateProbe, local, aux
  <2> QED BY <2>1, <2>2, <2>3
<1>3. CASE RecoverKnownFile
  <2>1. CASE Fail
    BY <1>3, <2>1, FailDone DEF RecoverKnownFile
  <2>2. CASE pc' = "recovered" /\ ~Fail
    <3>1. UNCHANGED <<target, original, incoming, verify, snapshot, moves, taken, back,
                      own, verifyOwn, active, journal, mode, call>>
      BY <1>3, <2>2 DEF RecoverKnownFile, Step, device, local, aux
    <3>2. /\ pc = "recover"
          /\ pc' = "recovered"
          /\ ~journal.originalMoveIntent
      BY <1>3, <2>2 DEF RecoverKnownFile, Step
    <3>11. WriteDone'
      BY <3>1, <3>2 DEF UnderWay
    <3>12. DeleteDone'
      BY <3>1, <3>2
    <3>13. ReadDone'
      BY <3>1, <3>2
    <3> QED BY <3>11, <3>12, <3>13
  <2>3. CASE pc' = "slots" /\ ~Fail
    <3>1. UNCHANGED <<target, original, incoming, verify, snapshot, moves, taken, back,
                      own, verifyOwn, active, journal, mode, call>>
      BY <1>3, <2>3 DEF RecoverKnownFile, Step, device, local, aux
    <3>2. /\ pc = "recover"
          /\ pc' = "slots"
          /\ ~Creating
          /\ seen' = [original |-> original # Absent, incoming |-> incoming # Absent,
                      verify |-> verify # Absent, target |-> Unknown]
      BY <1>3, <2>3 DEF RecoverKnownFile, Step
    <3>11. WriteDone'
      BY <3>1, <3>2 DEF UnderWay
    <3>12. DeleteDone'
      BY <3>1, <3>2
    <3>13. ReadDone'
      BY <3>1, <3>2
    <3> QED BY <3>11, <3>12, <3>13
  <2> QED BY <1>3, <2>1, <2>2, <2>3 DEF RecoverKnownFile, Step
<1>4. CASE RecoverSlots
  <2>1. CASE Fail
    BY <1>4, <2>1, FailDone DEF RecoverSlots
  <2>2. CASE Step("interrupted") /\ ResumeReadBack(journal) /\ ~Fail
    <3>1. UNCHANGED <<target, original, incoming, verify, snapshot, moves, taken, back,
                      own, verifyOwn, active, journal, mode, call>>
      BY <1>4, <2>2 DEF RecoverSlots, Step, device, local, aux, ResumeReadBack, Resumable
    <3>2. /\ pc = "slots"
          /\ pc' = "interrupted"
          /\ seen' = seen
          /\ journal.operation = "replace"
          /\ ~journal.newVerified
          /\ journal.incomingPlaceIntent
          /\ ~seen.incoming
          /\ ~journal.committed
      BY <1>4, <2>2 DEF RecoverSlots, Step, ResumeReadBack, Resumable
    <3>11. WriteDone'
      BY <3>1, <3>2 DEF UnderWay
    <3>12. DeleteDone'
      BY <3>1, <3>2
    <3>13. ReadDone'
      BY <3>1, <3>2
    <3> QED BY <3>11, <3>12, <3>13
  <2>3. CASE Step("place") /\ ResumePlacement(journal) /\ ~Fail
    <3>1. UNCHANGED <<target, original, incoming, verify, snapshot, moves, taken, back,
                      own, verifyOwn, active, journal, mode, call>>
      BY <1>4, <2>3 DEF RecoverSlots, Step, device, local, aux, ResumePlacement, Resumable
    <3>2. /\ pc = "slots"
          /\ pc' = "place"
          /\ seen' = seen
          /\ journal.operation = "replace"
          /\ journal.incomingPlaceIntent
          /\ seen.incoming
          /\ ~journal.committed
      BY <1>4, <2>3 DEF RecoverSlots, Step, ResumePlacement, Resumable
    <3>11. WriteDone'
      BY <3>1, <3>2 DEF UnderWay
    <3>12. DeleteDone'
      BY <3>1, <3>2
    <3>13. ReadDone'
      BY <3>1, <3>2
    <3> QED BY <3>11, <3>12, <3>13
  <2>4. CASE Record([journal EXCEPT !.newVerified = TRUE], "commitNew") /\ ~Fail
    <3>1. /\ active' = journal' /\ journal' = [journal EXCEPT !.newVerified = TRUE]
          /\ pc' = "commitNew"
          /\ UNCHANGED <<target, original, incoming, verify, snapshot, moves, taken, back,
                      own, verifyOwn, mode, call, seen>>
      BY <1>4, <2>4 DEF RecoverSlots, Record, Save, device, aux
    <3>2. /\ pc = "slots"
          /\ journal.operation = "replace"
          /\ ~seen.incoming
          /\ journal.incomingPlaceIntent
          /\ ~journal.committed
      BY <1>4, <2>4
         DEF RecoverSlots, ResumeReturn, Resumable, Record, Step, ResumePlacement,
             ResumeReadBack
    <3>3. journal \in Journal /\ journal # NoJournal
      BY <3>2, JournalType
    <3>4. journal'.newVerified = TRUE /\ SameExcept(journal', journal, {"newVerified"})
      BY <3>1, <3>3, FieldUpdates
    <3>11. WriteDone'
      BY <3>1, <3>2, <3>3, <3>4 DEF SameExcept, UnderWay
    <3>12. DeleteDone'
      BY <3>1, <3>2, <3>3, <3>4 DEF SameExcept
    <3>13. ReadDone'
      BY <3>1, <3>2, <3>3, <3>4 DEF SameExcept
    <3> QED BY <3>11, <3>12, <3>13
  <2>5. CASE pc' \in {"classify", "probe"} /\ ~Fail
    <3>1. UNCHANGED <<target, original, incoming, verify, snapshot, moves, taken, back,
                      own, verifyOwn, active, journal, mode, call>>
      BY <1>4, <2>5 DEF RecoverSlots, Step, device, local, aux, Record
    <3>2. /\ pc = "slots"
          /\ pc' \in {"classify", "probe"}
          /\ seen' = seen
          /\ journal.operation = "delete" => pc' = "classify"
      BY <1>4, <2>5 DEF RecoverSlots, Step, Record
    <3>11. WriteDone'
      BY <3>1, <3>2 DEF UnderWay
    <3>12. DeleteDone'
      BY <3>1, <3>2
    <3>13. ReadDone'
      BY <3>1, <3>2
    <3> QED BY <3>11, <3>12, <3>13
  <2> QED BY <1>4, <2>1, <2>2, <2>3, <2>4, <2>5 DEF RecoverSlots, Step
<1>5. CASE Interrupted
  <2>1. CASE Fail
    BY <1>5, <2>1, FailDone DEF Interrupted
  <2>2. CASE Record([journal EXCEPT !.verifyMoveIntent = TRUE], "resendReadBack") /\ ~Fail
    <3>1. /\ active' = journal' /\ journal' = [journal EXCEPT !.verifyMoveIntent = TRUE]
          /\ pc' = "resendReadBack"
          /\ UNCHANGED <<target, original, incoming, verify, snapshot, moves, taken, back,
                      own, verifyOwn, mode, call, seen>>
      BY <1>5, <2>2 DEF Interrupted, Record, Save, device, aux
    <3>2. /\ pc = "interrupted"
          /\ incoming = Absent
      BY <1>5, <2>2 DEF Interrupted, BothOriginalsValid
    <3>3. journal \in Journal /\ journal # NoJournal
      BY <3>2, JournalType
    <3>4. /\ journal'.verifyMoveIntent = TRUE
          /\ SameExcept(journal', journal, {"verifyMoveIntent"})
      BY <3>1, <3>3, FieldUpdates
    <3>11. WriteDone'
      BY <3>1, <3>2, <3>3, <3>4 DEF SameExcept, UnderWay
    <3>12. DeleteDone'
      BY <3>1, <3>2, <3>3, <3>4 DEF SameExcept
    <3>13. ReadDone'
      BY <3>1, <3>2, <3>3, <3>4 DEF SameExcept
    <3> QED BY <3>11, <3>12, <3>13
  <2> QED BY <1>5, <2>1, <2>2 DEF Interrupted
<1>6. CASE ResendReadBack
  <2>1. WriteDone'
    BY <1>6, JournalType, CallFields, CallType
       DEF ResendReadBack, Send, Session, local, slots, UnderWay
  <2>2. DeleteDone'
    BY <1>6, JournalType, CallFields, CallType DEF ResendReadBack, Send, Session, local, slots
  <2>3. ReadDone'
    BY <1>6, JournalType, CallFields, CallType DEF ResendReadBack, Send, Session, local, slots
  <2> QED BY <2>1, <2>2, <2>3
<1>7. CASE RewaitVerify
  <2>1. WriteDone'
    BY <1>7, JournalType, CallFields, CallType
       DEF RewaitVerify, Step, device, local, aux, UnderWay
  <2>2. DeleteDone'
    BY <1>7, JournalType, CallFields, CallType DEF RewaitVerify, Step, device, local, aux
  <2>3. ReadDone'
    BY <1>7, JournalType, CallFields, CallType DEF RewaitVerify, Step, device, local, aux
  <2> QED BY <2>1, <2>2, <2>3
<1>8. CASE RereadVerify
  <2>1. CASE Record([journal EXCEPT !.newVerified = TRUE], "commitNew")
    <3>1. /\ active' = journal' /\ journal' = [journal EXCEPT !.newVerified = TRUE]
          /\ pc' = "commitNew"
          /\ UNCHANGED <<target, original, incoming, verify, snapshot, moves, taken, back,
                      own, verifyOwn, mode, call, seen>>
      BY <1>8, <2>1 DEF RereadVerify, Record, Save, device, aux
    <3>2. /\ pc = "rereadVerify"
      BY <1>8, <2>1 DEF RereadVerify
    <3>3. journal \in Journal /\ journal # NoJournal
      BY <3>2, JournalType
    <3>4. journal'.newVerified = TRUE /\ SameExcept(journal', journal, {"newVerified"})
      BY <3>1, <3>3, FieldUpdates
    <3>11. WriteDone'
      BY <3>1, <3>2, <3>3, <3>4 DEF SameExcept, UnderWay
    <3>12. DeleteDone'
      BY <3>1, <3>2, <3>3, <3>4 DEF SameExcept
    <3>13. ReadDone'
      BY <3>1, <3>2, <3>3, <3>4 DEF SameExcept
    <3> QED BY <3>11, <3>12, <3>13
  <2>2. CASE Record([journal EXCEPT !.readBackMismatch = TRUE], "mismatch")
    <3>1. /\ active' = journal' /\ journal' = [journal EXCEPT !.readBackMismatch = TRUE]
          /\ pc' = "mismatch"
          /\ UNCHANGED <<target, original, incoming, verify, snapshot, moves, taken, back,
                      own, verifyOwn, mode, call, seen>>
      BY <1>8, <2>2 DEF RereadVerify, Record, Save, device, aux
    <3>2. /\ pc = "rereadVerify"
      BY <1>8, <2>2 DEF RereadVerify
    <3>3. journal \in Journal /\ journal # NoJournal
      BY <3>2, JournalType
    <3>4. /\ journal'.readBackMismatch = TRUE
          /\ SameExcept(journal', journal, {"readBackMismatch"})
      BY <3>1, <3>3, FieldUpdates
    <3>11. WriteDone'
      BY <3>1, <3>2, <3>3, <3>4 DEF SameExcept, UnderWay
    <3>12. DeleteDone'
      BY <3>1, <3>2, <3>3, <3>4 DEF SameExcept
    <3>13. ReadDone'
      BY <3>1, <3>2, <3>3, <3>4 DEF SameExcept
    <3> QED BY <3>11, <3>12, <3>13
  <2> QED BY <1>8, <2>1, <2>2 DEF RereadVerify
<1>9. CASE Mismatch
  <2>1. WriteDone'
    BY <1>9, JournalType, CallFields, CallType
       DEF Mismatch, FailLabel, Session, local, slots, UnderWay
  <2>2. DeleteDone'
    BY <1>9, JournalType, CallFields, CallType DEF Mismatch, FailLabel, Session, local, slots
  <2>3. ReadDone'
    BY <1>9, JournalType, CallFields, CallType DEF Mismatch, FailLabel, Session, local, slots
  <2> QED BY <2>1, <2>2, <2>3
<1>10. CASE ProbeTarget
  <2>1. CASE Fail
    BY <1>10, <2>1, FailDone DEF ProbeTarget
  <2>2. CASE ~Fail
    <3>1. PICK presence \in Presence :
            /\ seen' = [seen EXCEPT !.target = presence]
            /\ pc' = (IF ~SafeOriginalReturn(journal, presence) THEN "classify"
                     ELSE IF seen.incoming THEN "discard" ELSE "checkReturn")
      BY <1>10, <2>2 DEF ProbeTarget
    <3>2. /\ UNCHANGED <<target, original, incoming, verify, snapshot, moves, taken, back,
                        own, verifyOwn, active, journal, mode, call>>
          /\ pc = "probe"
      BY <1>10, <2>2 DEF ProbeTarget, device, local, aux
    <3>3. /\ seen'.original = seen.original
          /\ seen'.incoming = seen.incoming
          /\ seen'.verify = seen.verify
      BY <3>1 DEF TypeOK, Seen
    <3>4. \/ pc' = "classify"
          \/ /\ pc' \in {"discard", "checkReturn"} /\ seen.original /\ ~journal.originalReturned
             /\ ~journal.newVerified /\ ~journal.committed
      BY <3>1 DEF SafeOriginalReturn
    <3>11. WriteDone'
      BY <3>2, <3>3, <3>4 DEF UnderWay
    <3>12. DeleteDone'
      BY <3>2, <3>3, <3>4
    <3>13. ReadDone'
      BY <3>2, <3>3, <3>4
    <3> QED BY <3>11, <3>12, <3>13
  <2> QED BY <2>1, <2>2
<1>11. CASE Discard
  <2>1. WriteDone'
    BY <1>11, JournalType, CallFields, CallType DEF Discard, Step, device, local, aux, UnderWay
  <2>2. DeleteDone'
    BY <1>11, JournalType, CallFields, CallType DEF Discard, Step, device, local, aux
  <2>3. ReadDone'
    BY <1>11, JournalType, CallFields, CallType DEF Discard, Step, device, local, aux
  <2> QED BY <2>1, <2>2, <2>3
<1>12. CASE Discarded
  <2>1. /\ active' = journal' /\ journal' = [journal EXCEPT !.incomingPlaceIntent = FALSE]
        /\ pc' = "checkReturn" /\ pc = "discarded"
        /\ UNCHANGED <<target, original, incoming, verify, snapshot, moves, taken, back,
                      own, verifyOwn, mode, call, seen>>
    BY <1>12 DEF Discarded, Record, Save, device, aux
  <2>2. journal \in Journal /\ journal # NoJournal
    BY <2>1, JournalType
  <2>3. /\ journal'.incomingPlaceIntent = FALSE
        /\ SameExcept(journal', journal, {"incomingPlaceIntent"})
    BY <2>1, <2>2, FieldUpdates
  <2>11. WriteDone'
    BY <2>1, <2>2, <2>3 DEF SameExcept, UnderWay
  <2>12. DeleteDone'
    BY <2>1, <2>2, <2>3 DEF SameExcept
  <2>13. ReadDone'
    BY <2>1, <2>2, <2>3 DEF SameExcept
  <2> QED BY <2>11, <2>12, <2>13
<1>13. CASE CloseDelete
  <2>1. CASE Fail
    BY <1>13, <2>1, FailDone DEF CloseDelete
  <2>2. CASE Step("recovered") /\ ~Fail
    <3>1. UNCHANGED <<target, original, incoming, verify, snapshot, moves, taken, back,
                      own, verifyOwn, active, journal, mode, call>>
      BY <1>13, <2>2
         DEF CloseDelete, Step, device, local, aux, BothOriginalsValid, LocalOriginalValid,
             Fail, FailLabel
    <3>2. /\ pc = "classify"
          /\ pc' = "recovered"
          /\ journal.operation = "delete"
          /\ journal.committed
          /\ journal.captured # Absent
          /\ snapshot = journal.captured
      BY <1>13, <2>2
         DEF CloseDelete, Step, BothOriginalsValid, LocalOriginalValid, Fail, FailLabel
    <3>11. WriteDone'
      BY <3>1, <3>2 DEF UnderWay
    <3>12. DeleteDone'
      BY <3>1, <3>2
    <3>13. ReadDone'
      BY <3>1, <3>2
    <3> QED BY <3>11, <3>12, <3>13
  <2> QED BY <1>13, <2>1, <2>2 DEF CloseDelete
<1>14. CASE CloseReturned
  <2>1. CASE Fail
    BY <1>14, <2>1, FailDone DEF CloseReturned
  <2>2. CASE Step("recovered") /\ ~Fail
    <3>1. UNCHANGED <<target, original, incoming, verify, snapshot, moves, taken, back,
                      own, verifyOwn, active, journal, mode, call>>
      BY <1>14, <2>2 DEF CloseReturned, Step, device, local, aux, OpenReturn, Record, Save
    <3>2. /\ pc = "classify"
          /\ pc' = "recovered"
          /\ ~seen.original
          /\ journal.originalReturned \/ (journal.originalObserved /\ journal.returnOriginalIntent)
      BY <1>14, <2>2 DEF CloseReturned, Step, OpenReturn, Record, Save
    <3>11. WriteDone'
      BY <3>1, <3>2 DEF UnderWay
    <3>12. DeleteDone'
      BY <3>1, <3>2
    <3>13. ReadDone'
      BY <3>1, <3>2
    <3> QED BY <3>11, <3>12, <3>13
  <2>3. CASE Record([journal EXCEPT !.originalReturned = TRUE], "recovered") /\ ~Fail
    <3>1. /\ active' = journal' /\ journal' = [journal EXCEPT !.originalReturned = TRUE]
          /\ pc' = "recovered"
          /\ UNCHANGED <<target, original, incoming, verify, snapshot, moves, taken, back,
                      own, verifyOwn, mode, call, seen>>
      BY <1>14, <2>3 DEF CloseReturned, Record, Save, device, aux
    <3>2. /\ pc = "classify"
          /\ ~seen.original
          /\ journal.originalReturned \/ (journal.originalObserved /\ journal.returnOriginalIntent)
          /\ ~(journal.operation = "delete" /\ journal.committed)
      BY <1>14, <2>3 DEF CloseReturned, OpenReturn, Record, Step
    <3>3. journal \in Journal /\ journal # NoJournal
      BY <3>2, JournalType
    <3>4. /\ journal'.originalReturned = TRUE
          /\ SameExcept(journal', journal, {"originalReturned"})
      BY <3>1, <3>3, FieldUpdates
    <3>11. WriteDone'
      BY <3>1, <3>2, <3>3, <3>4 DEF SameExcept, UnderWay
    <3>12. DeleteDone'
      BY <3>1, <3>2, <3>3, <3>4 DEF SameExcept
    <3>13. ReadDone'
      BY <3>1, <3>2, <3>3, <3>4 DEF SameExcept
    <3> QED BY <3>11, <3>12, <3>13
  <2> QED BY <1>14, <2>1, <2>2, <2>3 DEF CloseReturned
<1>15. CASE ConfirmCommit
  <2>1. CASE Record([journal EXCEPT !.committed = TRUE], "classify")
    <3>1. /\ active' = journal' /\ journal' = [journal EXCEPT !.committed = TRUE]
          /\ pc' = "classify"
          /\ UNCHANGED <<target, original, incoming, verify, snapshot, moves, taken, back,
                      own, verifyOwn, mode, call, seen>>
      BY <1>15, <2>1 DEF ConfirmCommit, Record, Save, device, aux
    <3>2. /\ pc = "classify"
          /\ journal.operation # "delete"
          /\ journal.returnNewIntent
          /\ journal.newVerified
          /\ ~seen.verify
      BY <1>15, <2>1 DEF ConfirmCommit, OpenCommit
    <3>3. journal \in Journal /\ journal # NoJournal
      BY <3>2, JournalType
    <3>4. journal'.committed = TRUE /\ SameExcept(journal', journal, {"committed"})
      BY <3>1, <3>3, FieldUpdates
    <3>11. WriteDone'
      BY <3>1, <3>2, <3>3, <3>4 DEF SameExcept, UnderWay
    <3>12. DeleteDone'
      BY <3>1, <3>2, <3>3, <3>4 DEF SameExcept
    <3>13. ReadDone'
      BY <3>1, <3>2, <3>3, <3>4 DEF SameExcept
    <3> QED BY <3>11, <3>12, <3>13
  <2> QED BY <1>15, <2>1 DEF ConfirmCommit
<1>16. CASE CloseCommitted
  <2>1. CASE Fail
    BY <1>16, <2>1, FailDone DEF CloseCommitted
  <2>2. CASE (Step("recovered") \/ Step("dropOriginal")) /\ ~Fail
    <3>1. UNCHANGED <<target, original, incoming, verify, snapshot, moves, taken, back,
                      own, verifyOwn, active, journal, mode, call>>
      BY <1>16, <2>2
         DEF CloseCommitted, Step, device, local, aux, LocalOriginalValid, Fail, FailLabel
    <3>2. /\ pc = "classify"
          /\ pc' = "dropOriginal" \/ (pc' = "recovered" /\ ~seen.original)
          /\ journal.committed
          /\ journal.captured # Absent
          /\ snapshot = journal.captured
          /\ journal.operation # "delete"
      BY <1>16, <2>2 DEF CloseCommitted, Step, LocalOriginalValid, Fail, FailLabel
    <3>3. active # NoJournal /\ active.committed /\ active.operation \notin {"read", "delete"}
      BY <3>2 DEF FlagsOK
    <3>11. WriteDone'
      BY <3>1, <3>2, <3>3 DEF UnderWay
    <3>12. DeleteDone'
      BY <3>1, <3>2, <3>3
    <3>13. ReadDone'
      BY <3>1, <3>2, <3>3
    <3> QED BY <3>11, <3>12, <3>13
  <2> QED BY <1>16, <2>1, <2>2 DEF CloseCommitted
<1>17. CASE DropOriginal
  <2>1. WriteDone'
    BY <1>17, JournalType, CallFields, CallType DEF DropOriginal, local, aux, UnderWay
  <2>2. DeleteDone'
    BY <1>17, JournalType, CallFields, CallType DEF DropOriginal, local, aux
  <2>3. ReadDone'
    BY <1>17, JournalType, CallFields, CallType DEF DropOriginal, local, aux
  <2> QED BY <2>1, <2>2, <2>3
<1>18. CASE RestoreOrPend
  <2>1. CASE Fail
    BY <1>18, <2>1, FailDone DEF RestoreOrPend
  <2>2. CASE Record([journal EXCEPT !.originalObserved = TRUE], "forceReturn") /\ ~Fail
    <3>1. /\ active' = journal' /\ journal' = [journal EXCEPT !.originalObserved = TRUE]
          /\ pc' = "forceReturn"
          /\ UNCHANGED <<target, original, incoming, verify, snapshot, moves, taken, back,
                      own, verifyOwn, mode, call, seen>>
      BY <1>18, <2>2 DEF RestoreOrPend, Record, Save, device, aux
    <3>2. /\ pc = "classify"
          /\ seen.original
          /\ ~journal.committed
          /\ mode = "restore"
      BY <1>18, <2>2 DEF RestoreOrPend, Explicit
    <3>3. journal \in Journal /\ journal # NoJournal
      BY <3>2, JournalType
    <3>4. /\ journal'.originalObserved = TRUE
          /\ SameExcept(journal', journal, {"originalObserved"})
      BY <3>1, <3>3, FieldUpdates
    <3>11. WriteDone'
      BY <3>1, <3>2, <3>3, <3>4 DEF SameExcept, UnderWay
    <3>12. DeleteDone'
      BY <3>1, <3>2, <3>3, <3>4 DEF SameExcept
    <3>13. ReadDone'
      BY <3>1, <3>2, <3>3, <3>4 DEF SameExcept
    <3> QED BY <3>11, <3>12, <3>13
  <2> QED BY <1>18, <2>1, <2>2 DEF RestoreOrPend
<1>19. CASE RestoreRecovered
  <2>1. /\ mode = "restore" /\ pc # "idle" /\ call.kind = "restore"
        /\ call' \in {call, [call EXCEPT !.ok = TRUE], [call EXCEPT !.ok = FALSE]}
        /\ pc' \notin TakingPcs \cup PlacingPcs
    BY <1>19 DEF RestoreRecovered, Explicit
  <2>2. call'.kind = "restore"
    BY <2>1, CallFields
  <2> QED BY <2>1, <2>2
<1>20. CASE CleanGeneratedStage
  <2>1. WriteDone'
    BY <1>20, JournalType, CallFields, CallType
       DEF CleanGeneratedStage, local, aux, slots, UnderWay
  <2>2. DeleteDone'
    BY <1>20, JournalType, CallFields, CallType DEF CleanGeneratedStage, local, aux, slots
  <2>3. ReadDone'
    BY <1>20, JournalType, CallFields, CallType DEF CleanGeneratedStage, local, aux, slots
  <2> QED BY <2>1, <2>2, <2>3
<1>21. CASE RemoveActive
  <2>1. /\ pc = "close" /\ pc' \in {"prepare", "report"} /\ active' = NoJournal
        /\ UNCHANGED <<target, original, incoming, verify, snapshot, moves, taken, back,
                       own, mode, seen>>
        /\ mode # "prepare" => pc' = "report"
    BY <1>21 DEF RemoveActive, device, aux
  <2>2. /\ call'.kind = call.kind /\ call'.data = call.data /\ call'.prepared = call.prepared
        /\ call'.ok = (IF mode = "prepare" THEN call.kind = "list"
                       ELSE call.ok \/ CompletedWriteMatches(journal))
    BY <1>21, CallFields DEF RemoveActive, TypeOK, Call
  <2>3. CASE mode # "prepare" /\ CompletedWriteMatches(journal)
    <3>1. /\ Writing /\ active.newVerified /\ active.committed /\ ~active.returnOriginalIntent
          /\ call.kind = "replace" /\ call.prepared
      BY <2>1, <2>3 DEF CompletedWriteMatches, Writing, AgreePayload, OwnReplace, OwnJournal
    <3>2. /\ target = call.data \/ own
          /\ Ours(incoming) /\ Ours(verify) /\ ~UnderWay("readBack")
      BY <2>1, <3>1 DEF WriteInv, WriteJournal, WriteContent, WriteSlots
    <3>3. ~UnderWay("toOriginal") /\ ~UnderWay("fromOriginal")
      <4>1. moves # <<"toOriginal">>
        BY <3>1
           DEF FlagsOK, Untaken, WriteInv, WriteJournal, CustodyInv, OneOriginal, Writing,
               OwnReplace, OwnJournal
      <4>2. UnderWay("toOriginal") => moves = <<"toOriginal">>
        BY QueueAlone DEF TypeOK, UnderWay
      <4>3. UnderWay("fromOriginal") => active.returnOriginalIntent
        BY <2>1 DEF AnnouncedOK
      <4> QED BY <3>1, <4>1, <4>2, <4>3
    <3> QED BY <2>1, <2>2, <2>3, <3>1, <3>2, <3>3 DEF UnderWay
  <2>4. CASE ~(mode # "prepare" /\ CompletedWriteMatches(journal))
    <3>11. WriteDone'
      BY <2>1, <2>2, <2>4 DEF UnderWay
    <3>12. DeleteDone'
      BY <2>1, <2>2, <2>4
    <3>13. ReadDone'
      BY <2>1, <2>2, <2>4
    <3> QED BY <3>11, <3>12, <3>13
  <2> QED BY <2>3, <2>4
<1> QED
  BY <1>1, <1>2, <1>3, <1>4, <1>5, <1>6, <1>7, <1>8, <1>9, <1>10, <1>11, <1>12, <1>13, <1>14,
       <1>15, <1>16, <1>17, <1>18, <1>19, <1>20, <1>21
     DEF RecoveryStep

\* Nor does a crash or a move that is still under way.
LEMMA OtherStepDone ==
  ASSUME IInv, IInv', PromiseInv, PromiseInv', AheadInv, OwnInv, WriteInv, DoneInv,
         [Next]_vars, ~CallStep, ~RecoveryStep
  PROVE  DoneInv'
<1> USE NoJournalAssumption
    DEF DoneInv, WriteDone, DeleteDone, ReadDone, SettlingPcs, Returning, Ours,
        DecidedPcs, TakingPcs, OwnInv, OwnMode, NewPcs, PlacingPcs, OpenPcs, Pcs,
        SendPcs, WaitPcs, RecoveryPcs, OtherPcs, Goto, IInv, TypeInv, JournalThere,
        ModeOK, RecoverOnlyPcs, Creating, PromiseInv, AheadInv, Agree, AgreeIntents
<1>1. ASSUME NEW k \in Kinds, NEW d \in File, BeginCall(k, d) PROVE DoneInv'
  BY <1>1 DEF BeginCall, device, aux
<1>2. CASE BeginRestore
  <2>1. WriteDone'
    BY <1>2, JournalType, CallFields, CallType DEF BeginRestore, device, aux, NoCall, UnderWay
  <2>2. DeleteDone'
    BY <1>2, JournalType, CallFields, CallType DEF BeginRestore, device, aux, NoCall
  <2>3. ReadDone'
    BY <1>2, JournalType, CallFields, CallType DEF BeginRestore, device, aux, NoCall
  <2> QED BY <2>1, <2>2, <2>3
<1>3. CASE IoError
  <2>1. WriteDone'
    BY <1>3, JournalType, CallFields, CallType
       DEF IoError, Step, Fail, FailLabel, device, local, aux, UnderWay
  <2>2. DeleteDone'
    BY <1>3, JournalType, CallFields, CallType
       DEF IoError, Step, Fail, FailLabel, device, local, aux
  <2>3. ReadDone'
    BY <1>3, JournalType, CallFields, CallType
       DEF IoError, Step, Fail, FailLabel, device, local, aux
  <2> QED BY <2>1, <2>2, <2>3
<1>4. CASE WaitTimeout
  <2>1. WriteDone'
    BY <1>4, JournalType, CallFields, CallType
       DEF WaitTimeout, Fail, FailLabel, device, local, aux, UnderWay
  <2>2. DeleteDone'
    BY <1>4, JournalType, CallFields, CallType
       DEF WaitTimeout, Fail, FailLabel, device, local, aux
  <2>3. ReadDone'
    BY <1>4, JournalType, CallFields, CallType
       DEF WaitTimeout, Fail, FailLabel, device, local, aux
  <2> QED BY <2>1, <2>2, <2>3
<1>5. CASE Crash
  <2>1. WriteDone'
    BY <1>5, JournalType, CallFields, CallType DEF Crash, device, aux, NoCall, UnderWay
  <2>2. DeleteDone'
    BY <1>5, JournalType, CallFields, CallType DEF Crash, device, aux, NoCall
  <2>3. ReadDone'
    BY <1>5, JournalType, CallFields, CallType DEF Crash, device, aux, NoCall
  <2> QED BY <2>1, <2>2, <2>3
<1>6. CASE ExecuteMove
  <2>1. /\ moves \in Queues /\ moves # <<>> /\ moves' = Tail(moves)
        /\ UNCHANGED <<active, journal, pc, mode, call, seen, snapshot>>
    BY <1>6 DEF ExecuteMove, TypeOK, local, worker
  <2>2. /\ \A m \in Moves : UnderWay(m)' => UnderWay(m)
        /\ Head(moves) \in Moves /\ UnderWay(Head(moves))
    BY <2>1, HeadMove
  <2>3. {"toOriginal", "fromOriginal", "readBack"} \subseteq Moves
    BY DEF Moves
  <2>4. DeleteDone'
    BY <2>1
  <2>5. ASSUME WriteDone, call.kind \in {"replace", "createProbe"}, call.ok
        PROVE  WriteDone'
    <3>1. Head(moves) \in {"place", "return"}
      BY <2>2, <2>5 DEF Moves
    <3>2. CASE Head(moves) = "place"
      <4>1. \/ UNCHANGED <<target, incoming, verify>> /\ own' = own
            \/ target' = incoming /\ incoming' = Absent /\ verify' = verify /\ incoming # Absent
        BY <1>6, <3>2 DEF ExecuteMove, Source, FillsTarget
      <4> QED BY <2>1, <2>2, <2>3, <2>5, <4>1
    <3>3. CASE Head(moves) = "return"
      <4>1. \/ UNCHANGED <<target, incoming, verify>> /\ own' = own
            \/ target' = verify /\ verify' = Absent /\ incoming' = incoming /\ verify # Absent
        BY <1>6, <3>3 DEF ExecuteMove, Source, FillsTarget
      <4> QED BY <2>1, <2>2, <2>3, <2>5, <4>1
    <3> QED BY <3>1, <3>2, <3>3
  <2>6. pc \in TakingPcs => ~back'
    <3>1. pc \in TakingPcs => moves = <<"toOriginal">>
      BY <2>1 DEF DeleteOK, CustodyInv, OneOriginal, BeforePcs
    <3>2. moves = <<"toOriginal">> => Head(moves) = "toOriginal"
      OBVIOUS
    <3> QED BY <1>6, <3>1, <3>2 DEF ExecuteMove
  <2>7. ASSUME call.kind = "read", call.ok
        PROVE  ReadDone'
    <3>1. pc = "waitReturn" /\ Returning(<<"fromOriginal">>) /\ moves = <<"fromOriginal">>
      BY <2>1, <2>7
    <3>2. /\ moves' = <<>>
          /\ Head(moves) = "fromOriginal"
          /\ ~back
          /\ original = taken
          /\ taken # Absent
      BY <2>1, <2>7, <3>1
    <3>3. \/ UNCHANGED <<original, taken, back>>
          \/ original' = Absent /\ target' = original /\ back' /\ taken' = taken
      <4>1. CASE original # Absent /\ link
        BY <1>6, <3>2, <4>1 DEF ExecuteMove, Source, FillsTarget
      <4>2. CASE ~(original # Absent /\ link)
        BY <1>6, <3>2, <4>2 DEF ExecuteMove, Source, FillsTarget, TypeOK
      <4> QED BY <4>1, <4>2
    <3> QED BY <2>1, <2>7, <3>1, <3>2, <3>3
  <2> QED BY <2>1, <2>4, <2>5, <2>6, <2>7
<1>7. CASE DropMove
  <2>1. WriteDone'
    <3>1. /\ moves # <<>> /\ moves' = Tail(moves)
          /\ UNCHANGED <<target, incoming, verify, own, active, pc, call>>
      BY <1>7 DEF DropMove, local, worker, aux, slots
    <3>2. \A m \in Moves : UnderWay(m)' => UnderWay(m)
      BY <3>1, HeadMove DEF TypeOK
    <3>3. {"readBack", "toOriginal", "fromOriginal"} \subseteq Moves
      BY DEF Moves
    <3> QED BY <3>1, <3>2, <3>3
  <2>2. DeleteDone'
    BY <1>7, JournalType, CallFields, CallType DEF DropMove, local, worker, aux, slots
  <2>3. ReadDone'
    BY <1>7, JournalType, CallFields, CallType DEF DropMove, local, worker, aux, slots
  <2> QED BY <2>1, <2>2, <2>3
<1>8. CASE AppWrites
  <2>1. WriteDone'
    BY <1>8, JournalType, CallFields, CallType DEF AppWrites, local, worker, slots, UnderWay
  <2>2. DeleteDone'
    BY <1>8, JournalType, CallFields, CallType DEF AppWrites, local, worker, slots
  <2>3. ReadDone'
    BY <1>8, JournalType, CallFields, CallType DEF AppWrites, local, worker, slots
  <2> QED BY <2>1, <2>2, <2>3
<1>9. CASE Settle
  <2>1. WriteDone'
    BY <1>9, JournalType, CallFields, CallType DEF Settle, device, local, worker, aux, UnderWay
  <2>2. DeleteDone'
    BY <1>9, JournalType, CallFields, CallType DEF Settle, device, local, worker, aux
  <2>3. ReadDone'
    BY <1>9, JournalType, CallFields, CallType DEF Settle, device, local, worker, aux
  <2> QED BY <2>1, <2>2, <2>3
<1>10. CASE UNCHANGED vars
  BY <1>10 DEF vars, device, local, worker, aux, UnderWay
<1> QED
  BY <1>1, <1>2, <1>3, <1>4, <1>5, <1>6, <1>7, <1>8, <1>9, <1>10
     DEF Next, Begin, Worker, Device

LEMMA DoneInvariant == Spec => []DoneInv
<1>1. Init => DoneInv
  BY DEF Init, DoneInv, WriteDone, DeleteDone, ReadDone, TakingPcs, PlacingPcs, NoCall
<1>2. ASSUME IInv, IInv', PromiseInv, PromiseInv', AheadInv, OwnInv, WriteInv,
             DoneInv, [Next]_vars
      PROVE  DoneInv'
  BY <1>2, CallStepDone, RecoveryStepDone, OtherStepDone
<1> QED BY <1>1, <1>2, PromiseInvariant, AheadInvariant, OwnInvariant, WriteInvariant,
     PTL DEF Spec

\* A call that reports success has done what it reports, whatever the device
\* executed or dropped, wherever the process died before and however many
\* recoveries it took: the payload of a write is at the path of the
\* application, a read left the original there and a deletion kept both copies,
\* unless the application wrote since.
THEOREM SuccessfulCall == Spec => []SuccessIsInPlace
<1>1. DoneInv => SuccessIsInPlace
  BY DEF DoneInv, WriteDone, DeleteDone, ReadDone, SettlingPcs, SuccessIsInPlace
<1> QED BY <1>1, DoneInvariant, PTL
=============================================================================
