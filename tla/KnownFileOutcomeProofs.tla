------------------- MODULE KnownFileOutcomeProofs -------------------
(***************************************************************************)
(* What the journal and the reported outcome of a known-file call promise. *)
(* WriteAhead: every move was announced in the journal before it was       *)
(* queued.  The argument (AheadInv): the journal on disk and the one in    *)
(* memory announce the same moves while a transaction is open, and each    *)
(* label that queues a move has its announcement.                          *)
(* FailureLeavesOriginal: a replacement that fails and leaves no journal   *)
(* took nothing, or put it back.  The argument (OwnInv): a journal is      *)
(* closed for one of three reasons, and the third, a committed payload     *)
(* that was verified, makes the call succeed.                              *)
(* NoBlindOverwrite: a return of an original or a creation replaces only   *)
(* what the application wrote after the check.  The argument (BlindInv):   *)
(* the path was free when the move was queued, and no other move that      *)
(* fills it is under way.                                                  *)
(* KeepsCustody: KnownFileTxn implements FileCustody.  Whatever the        *)
(* engine, the device and the application do, the owner of the file sees   *)
(* its bytes taken at most once, answered for, and given back or kept on   *)
(* purpose.  A copy is there by OneOriginal and OriginalNeverLost, and the *)
(* journal is closed only where nothing is owed (PromiseInv).  What        *)
(* remains is that bytes that were kept on purpose never go back later:    *)
(* once a replacement may be taken for committed no return of its original *)
(* is under way (DutyInv).                                                 *)
(***************************************************************************)
EXTENDS KnownFileCustodyProofs

-----------------------------------------------------------------------------
(***************************************************************************)
(* What is announced                                                       *)
(***************************************************************************)
\* The announcements on disk are those in memory.
AgreeIntents ==
  pc \in OpenPcs =>
    /\ active.returnOriginalIntent = journal.returnOriginalIntent
    /\ active.incomingPlaceIntent = journal.incomingPlaceIntent
    /\ active.verifyMoveIntent = journal.verifyMoveIntent
    /\ active.readBackMismatch = journal.readBackMismatch
    /\ mode # "op" => active.captured = journal.captured

\* A move the device may still execute.
UnderWay(m) == \E i \in DOMAIN moves : moves[i] = m

\* What is about to be sent is announced.
SendingOK ==
  /\ pc \in {"sendReturn", "waitReturn"} => active.returnOriginalIntent
  /\ pc = "sendPlacement" => active.incomingPlaceIntent /\ active.verifyMoveIntent
  /\ pc = "sendCreation" => active.incomingPlaceIntent
  /\ pc \in {"sendReadBack", "resendReadBack"} => active.verifyMoveIntent
  /\ pc = "sendNew" => active.returnNewIntent
  /\ pc = "mismatch" => active.readBackMismatch

\* What is under way is announced, a placement until its source is gone.
AnnouncedOK ==
  active # NoJournal =>
    /\ UnderWay("toOriginal") => active.originalMoveIntent
    /\ UnderWay("fromOriginal") => active.returnOriginalIntent
    /\ UnderWay("readBack") => active.verifyMoveIntent
    /\ UnderWay("return") => active.returnNewIntent \/ active.readBackMismatch
    /\ UnderWay("place") => active.incomingPlaceIntent \/ incoming = Absent

\* No original is on its way when the journal goes, and none after.
ClosingOK ==
  /\ pc \in {"recovered", "close"} \/ active = NoJournal =>
       original = Absent \/ ~UnderWay("fromOriginal")
  /\ active = NoJournal => ~UnderWay("toOriginal")
  /\ pc = "discarded" => incoming = Absent
  /\ pc \in {"stage", "write"} => ~UnderWay("place")
  /\ pc \in SeenPcs /\ mode # "op" /\ ~Creating /\ ~seen.original
     /\ (active.originalObserved \/ active.originalReturned \/ active.captured # Absent)
       => original = Absent

\* What is announced, inductively.
AheadInv == AgreeIntents /\ SendingOK /\ AnnouncedOK /\ ClosingOK

\* Two journals that differ at most in the fields F.
SameExcept(i, j, F) ==
  /\ "operation" \notin F => i.operation = j.operation
  /\ "newDigest" \notin F => i.newDigest = j.newDigest
  /\ "captured" \notin F => i.captured = j.captured
  /\ "originalMoveIntent" \notin F => i.originalMoveIntent = j.originalMoveIntent
  /\ "originalObserved" \notin F => i.originalObserved = j.originalObserved
  /\ "originalReturned" \notin F => i.originalReturned = j.originalReturned
  /\ "committed" \notin F => i.committed = j.committed
  /\ "returnNewIntent" \notin F => i.returnNewIntent = j.returnNewIntent
  /\ "returnOriginalIntent" \notin F => i.returnOriginalIntent = j.returnOriginalIntent
  /\ "incomingPlaceIntent" \notin F => i.incomingPlaceIntent = j.incomingPlaceIntent
  /\ "verifyMoveIntent" \notin F => i.verifyMoveIntent = j.verifyMoveIntent
  /\ "newVerified" \notin F => i.newVerified = j.newVerified
  /\ "readBackMismatch" \notin F => i.readBackMismatch = j.readBackMismatch

\* What setting one or two fields of a journal changes.
LEMMA FieldUpdates ==
  \A j \in Journal :
    /\ \A d \in File : LET i == [j EXCEPT !.newDigest = d]
                       IN i.newDigest = d /\ SameExcept(i, j, {"newDigest"})
    /\ LET i == [j EXCEPT !.originalMoveIntent = TRUE]
       IN i.originalMoveIntent = TRUE /\ SameExcept(i, j, {"originalMoveIntent"})
    /\ LET i == [j EXCEPT !.originalObserved = TRUE]
       IN i.originalObserved = TRUE /\ SameExcept(i, j, {"originalObserved"})
    /\ LET i == [j EXCEPT !.originalReturned = TRUE]
       IN i.originalReturned = TRUE /\ SameExcept(i, j, {"originalReturned"})
    /\ LET i == [j EXCEPT !.committed = TRUE]
       IN i.committed = TRUE /\ SameExcept(i, j, {"committed"})
    /\ LET i == [j EXCEPT !.returnNewIntent = TRUE]
       IN i.returnNewIntent = TRUE /\ SameExcept(i, j, {"returnNewIntent"})
    /\ LET i == [j EXCEPT !.returnOriginalIntent = TRUE]
       IN i.returnOriginalIntent = TRUE /\ SameExcept(i, j, {"returnOriginalIntent"})
    /\ LET i == [j EXCEPT !.incomingPlaceIntent = TRUE]
       IN i.incomingPlaceIntent = TRUE /\ SameExcept(i, j, {"incomingPlaceIntent"})
    /\ LET i == [j EXCEPT !.incomingPlaceIntent = FALSE]
       IN i.incomingPlaceIntent = FALSE /\ SameExcept(i, j, {"incomingPlaceIntent"})
    /\ LET i == [j EXCEPT !.verifyMoveIntent = TRUE]
       IN i.verifyMoveIntent = TRUE /\ SameExcept(i, j, {"verifyMoveIntent"})
    /\ LET i == [j EXCEPT !.newVerified = TRUE]
       IN i.newVerified = TRUE /\ SameExcept(i, j, {"newVerified"})
    /\ LET i == [j EXCEPT !.readBackMismatch = TRUE]
       IN i.readBackMismatch = TRUE /\ SameExcept(i, j, {"readBackMismatch"})
    /\ LET i == [j EXCEPT !.incomingPlaceIntent = TRUE, !.verifyMoveIntent = TRUE]
       IN /\ i.incomingPlaceIntent = TRUE /\ i.verifyMoveIntent = TRUE
          /\ SameExcept(i, j, {"incomingPlaceIntent", "verifyMoveIntent"})
  BY DEF Journal, SameExcept

\* A failure keeps what was announced.
LEMMA FailAhead ==
  ASSUME IInv, PromiseInv, AheadInv, pc # "idle", Fail
  PROVE  AheadInv'
<1> USE NoJournalAssumption
    DEF AheadInv, AgreeIntents, UnderWay, SendingOK, AnnouncedOK, ClosingOK, PromiseInv, Agree,
        FlagsOK, LabelsOK, SeenOK, DeleteOK,
        CommittedDeleteRetained, FillsTarget,
        Untaken, GivenUp, NewPcs, SeenPcs, DecidedPcs, TakingPcs, PlacingPcs, OpenPcs, Pcs,
        SendPcs, WaitPcs, RecoveryPcs, OtherPcs, Goto, IInv, TypeInv, JournalThere, ModeOK,
        RecoverOnlyPcs, CustodyInv, OneOriginal, BeforePcs, Creating
<1> QED BY DEF Fail, FailLabel, device, local, aux

\* A move of an original to FileOriginal is queued alone.
LEMMA QueueAlone ==
  ASSUME NEW q \in Queues, NEW i \in DOMAIN q
  PROVE  q[i] \in Moves /\ (q[i] = "toOriginal" => q = <<"toOriginal">>)
<1>1. CASE q = <<"place", "readBack">>
  BY <1>1 DEF Moves
<1>2. CASE \E m \in Moves : q = <<m>>
  BY <1>2
<1>3. CASE q = <<>>
  BY <1>3
<1> QED BY <1>1, <1>2, <1>3 DEF Queues

\* Every step of a call announces a move before it sends it.
LEMMA CallStepAhead ==
  ASSUME IInv, IInv', PromiseInv, PromiseInv', AheadInv, CallStep
  PROVE  AheadInv'
<1> USE NoJournalAssumption
    DEF AheadInv, AgreeIntents, UnderWay, SendingOK, AnnouncedOK, ClosingOK, PromiseInv, Agree,
        FlagsOK, LabelsOK, SeenOK, DeleteOK,
        CommittedDeleteRetained, FillsTarget,
        Untaken, GivenUp, NewPcs, SeenPcs, DecidedPcs, TakingPcs, PlacingPcs, OpenPcs, Pcs,
        SendPcs, WaitPcs, RecoveryPcs, OtherPcs, Goto, IInv, TypeInv, JournalThere, ModeOK,
        RecoverOnlyPcs, CustodyInv, OneOriginal, BeforePcs, Creating
<1>1. CASE PrepareKnownFile
  BY <1>1, JournalType, CallType DEF PrepareKnownFile, Save, Session
<1>2. CASE OpenReplace
  BY <1>2, JournalType, CallType DEF OpenReplace, Save, device
<1>3. CASE OpenCreateProbe
  BY <1>3, JournalType, CallType DEF OpenCreateProbe, Fail, FailLabel, device, local, aux
<1>4. CASE OpenReadOrDelete
  BY <1>4, JournalType, CallType DEF OpenReadOrDelete, Step, device, local, aux
<1>5. CASE ObserveKnownOriginal
  <2>1. CASE Fail
    BY <1>5, <2>1, FailAhead DEF ObserveKnownOriginal
  <2>2. CASE Record([journal EXCEPT !.originalMoveIntent = TRUE], "sendOriginal") /\ ~Fail
    <3>1. /\ active' = journal' /\ journal' = [journal EXCEPT !.originalMoveIntent = TRUE]
          /\ pc' = "sendOriginal"
          /\ UNCHANGED <<target, original, incoming, verify, snapshot, moves, taken, back,
                      own, verifyOwn, mode, call, seen>>
      BY <1>5, <2>2 DEF ObserveKnownOriginal, Record, Save, device, aux
    <3>2. /\ pc = "observe"
      BY <1>5, <2>2 DEF ObserveKnownOriginal
    <3>3. journal \in Journal /\ journal # NoJournal
      BY <3>2, JournalType
    <3>4. /\ journal'.originalMoveIntent = TRUE
          /\ SameExcept(journal', journal, {"originalMoveIntent"})
      BY <3>1, <3>3, FieldUpdates
    <3> QED BY <3>1, <3>2, <3>3, <3>4 DEF SameExcept
  <2> QED BY <1>5, <2>1, <2>2 DEF ObserveKnownOriginal
<1>6. CASE SendOriginal
  BY <1>6, JournalType, CallType DEF SendOriginal, Send, Session, local, slots
<1>7. CASE WaitOriginal
  <2>1. /\ active' = journal' /\ journal' = [journal EXCEPT !.originalObserved = TRUE]
        /\ pc' = "readOriginal" /\ pc = "waitOriginal"
        /\ UNCHANGED <<target, original, incoming, verify, snapshot, moves, taken, back,
                      own, verifyOwn, mode, call, seen>>
    BY <1>7 DEF WaitOriginal, Record, Save, device, aux
  <2>2. journal \in Journal /\ journal # NoJournal
    BY <2>1, JournalType
  <2>3. journal'.originalObserved = TRUE /\ SameExcept(journal', journal, {"originalObserved"})
    BY <2>1, <2>2, FieldUpdates
  <2> QED BY <1>7, <2>1, <2>2, <2>3 DEF WaitOriginal, SameExcept
<1>8. CASE ReadOriginal
  BY <1>8, JournalType, CallType DEF ReadOriginal, device, aux
<1>9. CASE PersistKnownOriginal
  BY <1>9, JournalType, CallType DEF PersistKnownOriginal, Save, device, aux
<1>10. CASE ReadWithoutData
  <2>1. journal \in Journal /\ active \in Journal
    BY <1>10, JournalType DEF ReadWithoutData
  <2>2. SameExcept([journal EXCEPT !.captured = snapshot], journal, {"captured"})
    BY <2>1 DEF SameExcept, Journal
  <2>3. /\ journal' \in {journal, [journal EXCEPT !.captured = snapshot]}
        /\ active' \in {active, journal'}
        /\ pc \in {"readOriginal", "persist"} /\ pc' = "checkReturn" /\ call.kind = "read"
        /\ UNCHANGED <<device, snapshot, mode, call, seen, calm, aux>>
    BY <1>10 DEF ReadWithoutData
  <2>4. SameExcept(journal', journal, {"captured"})
    <3>1. SameExcept(journal, journal, {"captured"})
      BY DEF SameExcept
    <3> QED BY <2>2, <2>3, <3>1
  <2>5. active' = active \/ active' = journal'
    BY <2>3
  <2> QED BY <2>1, <2>3, <2>4, <2>5 DEF SameExcept, device, aux
<1>11. CASE CheckReturn
  <2>1. CASE Fail
    BY <1>11, <2>1, FailAhead DEF CheckReturn
  <2>2. CASE Save([journal EXCEPT !.returnOriginalIntent = TRUE]) /\ ~Fail
    <3>1. /\ active' = journal' /\ journal' = [journal EXCEPT !.returnOriginalIntent = TRUE]
          /\ pc' = "sendReturn"
          /\ UNCHANGED <<target, original, incoming, verify, snapshot, moves, taken, back,
                      own, verifyOwn, mode, call, seen>>
      BY <1>11, <2>2 DEF CheckReturn, Record, Save, device, aux
    <3>2. /\ pc = "checkReturn"
      BY <1>11, <2>2 DEF CheckReturn
    <3>3. journal \in Journal /\ journal # NoJournal
      BY <3>2, JournalType
    <3>4. /\ journal'.returnOriginalIntent = TRUE
          /\ SameExcept(journal', journal, {"returnOriginalIntent"})
      BY <3>1, <3>3, FieldUpdates
    <3> QED BY <3>1, <3>2, <3>3, <3>4 DEF SameExcept
  <2> QED BY <1>11, <2>1, <2>2 DEF CheckReturn
<1>12. CASE ForceReturn
  BY <1>12, JournalType, CallType DEF ForceReturn, Save, device
<1>13. CASE SendReturn
  BY <1>13, JournalType, CallType DEF SendReturn, Send, Session, local, slots
<1>14. CASE WaitReturn
  <2>1. /\ active' = journal' /\ journal' = [journal EXCEPT !.originalReturned = TRUE]
        /\ pc' = IF mode = "op" THEN "finish" ELSE "recovered"
        /\ UNCHANGED <<target, original, incoming, verify, snapshot, moves, taken, back,
                      own, verifyOwn, mode, call, seen>>
        /\ pc = "waitReturn" /\ original = Absent
    BY <1>14 DEF WaitReturn, Record, Save, device, aux
  <2>2. journal \in Journal /\ journal # NoJournal
    BY <2>1, JournalType
  <2>3. /\ journal' \in Journal /\ journal'.originalReturned = TRUE
        /\ SameExcept(journal', journal, {"originalReturned"})
    BY <2>1, <2>2, FieldUpdates, JournalUpdates
  <2>4. AgreeIntents'
    BY <2>1, <2>2, <2>3 DEF SameExcept
  <2>5. SendingOK' /\ AnnouncedOK'
    BY <2>1, <2>2, <2>3 DEF SameExcept
  <2>6. ClosingOK'
    BY <2>1, <2>2, <2>3 DEF SameExcept
  <2> QED BY <2>4, <2>5, <2>6
<1>15. CASE Stage
  <2>1. /\ active' = journal' /\ journal' = [journal EXCEPT !.newDigest = call.data]
        /\ pc' = "write" /\ pc = "stage"
        /\ UNCHANGED <<target, original, incoming, verify, snapshot, moves, taken, back,
                      own, verifyOwn, mode, call, seen>>
    BY <1>15 DEF Stage, Record, Save, device, aux
  <2>2. journal \in Journal /\ journal # NoJournal /\ call.data \in File
    BY <2>1, JournalType, CallType
  <2>3. journal'.newDigest = call.data /\ SameExcept(journal', journal, {"newDigest"})
    BY <2>1, <2>2, FieldUpdates
  <2> QED BY <2>1, <2>2, <2>3 DEF SameExcept
<1>16. CASE WriteKnownIncoming
  BY <1>16, JournalType, CallType DEF WriteKnownIncoming, local, aux
<1>17. CASE Place
  <2>1. CASE Fail
    BY <1>17, <2>1, FailAhead DEF Place
  <2>2. CASE /\ Record([journal EXCEPT !.incomingPlaceIntent = TRUE,
                                     !.verifyMoveIntent = TRUE], "sendPlacement")
             /\ ~Fail
    <3>1. /\ /\ active' = journal'
          /\ journal' = [journal EXCEPT !.incomingPlaceIntent = TRUE, !.verifyMoveIntent = TRUE]
          /\ pc' = "sendPlacement"
          /\ UNCHANGED <<target, original, incoming, verify, snapshot, moves, taken, back,
                      own, verifyOwn, mode, call, seen>>
      BY <1>17, <2>2 DEF Place, Record, Save, device, aux
    <3>2. /\ pc = "place"
          /\ verify = Absent
          /\ incoming = journal.newDigest
      BY <1>17, <2>2 DEF Place
    <3>3. journal \in Journal /\ journal # NoJournal
      BY <3>2, JournalType
    <3>4. /\ journal'.incomingPlaceIntent = TRUE /\ journal'.verifyMoveIntent = TRUE
          /\ SameExcept(journal', journal, {"incomingPlaceIntent", "verifyMoveIntent"})
      BY <3>1, <3>3, FieldUpdates
    <3> QED BY <3>1, <3>2, <3>3, <3>4 DEF SameExcept
  <2> QED BY <1>17, <2>1, <2>2 DEF Place
<1>18. CASE SendPlacement
  BY <1>18, JournalType, CallType DEF SendPlacement, FailLabel, Session, local, aux, slots
<1>19. CASE WaitIncoming
  BY <1>19, JournalType, CallType DEF WaitIncoming, Step, device, local, aux
<1>20. CASE WaitVerify
  BY <1>20, JournalType, CallType DEF WaitVerify, Step, device, local, aux
<1>21. CASE ReadVerify
  <2>1. CASE Fail
    BY <1>21, <2>1, FailAhead DEF ReadVerify
  <2>2. CASE Record([journal EXCEPT !.newVerified = TRUE], "commitNew") /\ ~Fail
    <3>1. /\ active' = journal' /\ journal' = [journal EXCEPT !.newVerified = TRUE]
          /\ pc' = "commitNew"
          /\ UNCHANGED <<target, original, incoming, verify, snapshot, moves, taken, back,
                      own, verifyOwn, mode, call, seen>>
      BY <1>21, <2>2 DEF ReadVerify, Record, Save, device, aux
    <3>2. /\ pc = "readVerify"
          /\ verify = journal.newDigest
          /\ verify # Absent
      BY <1>21, <2>2 DEF ReadVerify
    <3>3. journal \in Journal /\ journal # NoJournal
      BY <3>2, JournalType
    <3>4. journal'.newVerified = TRUE /\ SameExcept(journal', journal, {"newVerified"})
      BY <3>1, <3>3, FieldUpdates
    <3> QED BY <3>1, <3>2, <3>3, <3>4 DEF SameExcept
  <2> QED BY <1>21, <2>1, <2>2 DEF ReadVerify
<1>22. CASE CommitNew
  <2>1. /\ active' = journal' /\ journal' = [journal EXCEPT !.returnNewIntent = TRUE]
        /\ pc' = "sendNew" /\ pc = "commitNew"
        /\ UNCHANGED <<target, original, incoming, verify, snapshot, moves, taken, back,
                      own, verifyOwn, mode, call, seen>>
    BY <1>22 DEF CommitNew, Record, Save, device, aux
  <2>2. journal \in Journal /\ journal # NoJournal
    BY <2>1, JournalType
  <2>3. journal'.returnNewIntent = TRUE /\ SameExcept(journal', journal, {"returnNewIntent"})
    BY <2>1, <2>2, FieldUpdates
  <2> QED BY <1>22, <2>1, <2>2, <2>3 DEF CommitNew, SameExcept
<1>23. CASE SendNew
  BY <1>23, JournalType, CallType DEF SendNew, Fail, FailLabel, Send, Session, device, local, aux,
     slots
<1>24. CASE WaitNew
  <2>1. /\ active' = journal' /\ journal' = [journal EXCEPT !.committed = TRUE]
        /\ pc' = (IF mode = "op" THEN "finish" ELSE IF Creating THEN "recovered" ELSE "probe")
        /\ pc = "waitNew" /\ verify = Absent
        /\ UNCHANGED <<target, original, incoming, verify, snapshot, moves, taken, back,
                      own, verifyOwn, mode>>
        /\ call' = (IF mode = "op" THEN [call EXCEPT !.ok = TRUE] ELSE call)
    BY <1>24 DEF WaitNew, Save, device, aux
  <2>2. journal \in Journal /\ journal # NoJournal
    BY <2>1, JournalType
  <2>3. /\ journal' \in Journal /\ journal'.committed = TRUE
        /\ SameExcept(journal', journal, {"committed"})
    BY <2>1, <2>2, FieldUpdates, JournalUpdates
  <2>4. seen'.original = seen.original /\ ~seen'.incoming /\ ~seen'.verify
    BY <1>24 DEF WaitNew, TypeOK, Seen
  <2>5. AgreeIntents' /\ SendingOK' /\ AnnouncedOK'
    BY <2>1, <2>2, <2>3 DEF SameExcept
  <2>6. active' # NoJournal /\ UNCHANGED <<moves, original, mode>>
    BY <2>1, <2>3
  <2>7. CASE mode = "op"
    <3> QED BY <2>1, <2>5, <2>6, <2>7
  <2>8. CASE mode # "op" /\ Creating
    <3>1. original = Absent /\ pc' = "recovered"
      BY <2>1, <2>8
    <3> QED BY <2>5, <2>6, <3>1
  <2>9. CASE mode # "op" /\ ~Creating
    <3>1. pc' = "probe" /\ active'.captured = active.captured
          /\ active'.originalObserved = active.originalObserved
          /\ active'.originalReturned = active.originalReturned
      BY <2>1, <2>2, <2>3, <2>9 DEF SameExcept
    <3>2. ClosingOK'
      BY <2>1, <2>3, <2>4, <2>6, <2>9, <3>1
    <3> QED BY <2>5, <3>2
  <2> QED BY <2>7, <2>8, <2>9
<1>25. CASE Create
  <2>1. /\ active' = journal' /\ journal' = [journal EXCEPT !.incomingPlaceIntent = TRUE]
        /\ pc' = "sendCreation" /\ pc = "create"
        /\ UNCHANGED <<target, original, incoming, verify, snapshot, moves, taken, back,
                      own, verifyOwn, mode, call, seen>>
    BY <1>25 DEF Create, Record, Save, device, aux
  <2>2. journal \in Journal /\ journal # NoJournal
    BY <2>1, JournalType
  <2>3. /\ journal'.incomingPlaceIntent = TRUE
        /\ SameExcept(journal', journal, {"incomingPlaceIntent"})
    BY <2>1, <2>2, FieldUpdates
  <2> QED BY <1>25, <2>1, <2>2, <2>3 DEF Create, SameExcept
<1>26. CASE SendCreation
  BY <1>26, JournalType, CallType DEF SendCreation, Fail, FailLabel, Send, Session, device, local,
     aux, slots
<1>27. CASE WaitCreation
  <2>1. /\ active' = journal' /\ journal' = [journal EXCEPT !.verifyMoveIntent = TRUE]
        /\ pc' = "sendReadBack" /\ pc = "waitCreation"
        /\ UNCHANGED <<target, original, incoming, verify, snapshot, moves, taken, back,
                      own, verifyOwn, mode, call, seen>>
    BY <1>27 DEF WaitCreation, Record, Save, device, aux
  <2>2. journal \in Journal /\ journal # NoJournal
    BY <2>1, JournalType
  <2>3. journal'.verifyMoveIntent = TRUE /\ SameExcept(journal', journal, {"verifyMoveIntent"})
    BY <2>1, <2>2, FieldUpdates
  <2> QED BY <1>27, <2>1, <2>2, <2>3 DEF WaitCreation, SameExcept
<1>28. CASE SendReadBack
  BY <1>28, JournalType, CallType DEF SendReadBack, Send, Session, local, slots
<1>29. CASE CommitDelete
  BY <1>29, JournalType, CallType DEF CommitDelete, Save, device, aux
<1>30. CASE CommitDeleteRefused
  BY <1>30, JournalType, CallType DEF CommitDeleteRefused, Fail, FailLabel, device, local, aux
<1>31. CASE Finish
  BY <1>31, JournalType, CallType DEF Finish, device, aux
<1>32. CASE Report
  BY <1>32, JournalType, CallType DEF Report, device, aux
<1> QED
  BY <1>1, <1>2, <1>3, <1>4, <1>5, <1>6, <1>7, <1>8, <1>9, <1>10, <1>11, <1>12, <1>13, <1>14,
     <1>15, <1>16, <1>17, <1>18, <1>19, <1>20, <1>21, <1>22, <1>23, <1>24, <1>25, <1>26, <1>27,
     <1>28, <1>29, <1>30, <1>31, <1>32
     DEF CallStep

\* So does every step of a recovery, and none drops the announcement of a move
\* that is still under way.
LEMMA RecoveryStepAhead ==
  ASSUME IInv, IInv', PromiseInv, PromiseInv', AheadInv, RecoveryStep
  PROVE  AheadInv'
<1> USE NoJournalAssumption
    DEF AheadInv, AgreeIntents, UnderWay, SendingOK, AnnouncedOK, ClosingOK, PromiseInv, Agree,
        FlagsOK, LabelsOK, SeenOK, DeleteOK,
        CommittedDeleteRetained, FillsTarget,
        Untaken, GivenUp, NewPcs, SeenPcs, DecidedPcs, TakingPcs, PlacingPcs, OpenPcs, Pcs,
        SendPcs, WaitPcs, RecoveryPcs, OtherPcs, Goto, IInv, TypeInv, JournalThere, ModeOK,
        RecoverOnlyPcs, CustodyInv, OneOriginal, BeforePcs, Creating
<1>1. CASE RecoverCreate
  <2>1. CASE Fail
    BY <1>1, <2>1, FailAhead DEF RecoverCreate
  <2>2. CASE Record([journal EXCEPT !.newVerified = TRUE], "commitNew") /\ ~Fail
    <3>1. /\ active' = journal' /\ journal' = [journal EXCEPT !.newVerified = TRUE]
          /\ pc' = "commitNew"
          /\ UNCHANGED <<target, original, incoming, verify, snapshot, moves, taken, back,
                      own, verifyOwn, mode, call, seen>>
      BY <1>1, <2>2 DEF RecoverCreate, Record, Save, device, aux
    <3>2. /\ pc = "recover"
          /\ journal.operation = "create"
          /\ ~journal.committed
          /\ verify # Absent
          /\ verify = journal.newDigest
      BY <1>1, <2>2 DEF RecoverCreate, Record, Step, Fail, FailLabel, local
    <3>3. journal \in Journal /\ journal # NoJournal
      BY <3>2, JournalType
    <3>4. journal'.newVerified = TRUE /\ SameExcept(journal', journal, {"newVerified"})
      BY <3>1, <3>3, FieldUpdates
    <3> QED BY <3>1, <3>2, <3>3, <3>4 DEF SameExcept
  <2>3. CASE /\ verify = Absent /\ journal.newVerified
             /\ Record([journal EXCEPT !.committed = TRUE], "recovered") /\ ~Fail
    <3>1. /\ active' = journal' /\ journal' = [journal EXCEPT !.committed = TRUE]
          /\ pc' = "recovered"
          /\ UNCHANGED <<target, original, incoming, verify, snapshot, moves, taken, back,
                      own, verifyOwn, mode, call, seen>>
      BY <1>1, <2>3 DEF RecoverCreate, Record, Save, device, aux
    <3>2. /\ pc = "recover"
          /\ journal.operation = "create"
          /\ verify = Absent /\ journal.newVerified
      BY <1>1, <2>3 DEF RecoverCreate
    <3>3. journal \in Journal /\ journal # NoJournal
      BY <3>2, JournalType
    <3>4. journal'.committed = TRUE /\ SameExcept(journal', journal, {"committed"})
      BY <3>1, <3>3, FieldUpdates
    <3> QED BY <3>1, <3>2, <3>3, <3>4 DEF SameExcept
  <2>4. CASE pc' = "recovered" /\ UNCHANGED local
    <3>1. /\ UNCHANGED <<target, original, verify, snapshot, moves, taken, back, own, verifyOwn,
                        active, journal, mode, call, seen>>
          /\ incoming' \in {incoming, Absent}
      BY <1>1, <2>4 DEF RecoverCreate, Step, Record, Fail, FailLabel, device, local, aux
    <3>2. pc = "recover" /\ journal.operation = "create"
      BY <1>1 DEF RecoverCreate
    <3> QED BY <2>4, <3>1, <3>2
  <2> QED BY <1>1, <2>1, <2>2, <2>3, <2>4 DEF RecoverCreate, Step
<1>2. CASE RecoverCreateProbe
  BY <1>2, JournalType, CallType DEF RecoverCreateProbe, local, aux
<1>3. CASE RecoverKnownFile
  <2>1. CASE Fail
    BY <1>3, <2>1, FailAhead DEF RecoverKnownFile
  <2>2. CASE pc' = "recovered" /\ ~Fail
    <3>1. UNCHANGED <<target, original, incoming, verify, snapshot, moves, taken, back,
                      own, verifyOwn, active, journal, mode, call>>
      BY <1>3, <2>2 DEF RecoverKnownFile, Step, device, local, aux
    <3>2. /\ pc = "recover"
          /\ pc' = "recovered"
          /\ ~journal.originalMoveIntent
      BY <1>3, <2>2 DEF RecoverKnownFile, Step
    <3> QED BY <3>1, <3>2
  <2>3. CASE pc' = "slots" /\ ~Fail
    <3>1. UNCHANGED <<target, original, incoming, verify, snapshot, moves, taken, back,
                      own, verifyOwn, active, journal, mode, call>>
      BY <1>3, <2>3 DEF RecoverKnownFile, Step, device, local, aux
    <3>2. /\ pc = "recover"
          /\ pc' = "slots"
          /\ ~Creating
          /\ seen' = [original |-> original # Absent, incoming |-> incoming # Absent,
                      verify |-> verify # Absent, target |-> Unknown]
      BY <1>3, <2>3 DEF RecoverKnownFile, Step
    <3>3. AgreeIntents'
      BY <3>1, <3>2
    <3>4. SendingOK' /\ AnnouncedOK'
      BY <3>1, <3>2
    <3>5. ClosingOK'
      BY <3>1, <3>2
    <3> QED BY <3>3, <3>4, <3>5
  <2> QED BY <1>3, <2>1, <2>2, <2>3 DEF RecoverKnownFile, Step
<1>4. CASE RecoverSlots
  <2>1. CASE Fail
    BY <1>4, <2>1, FailAhead DEF RecoverSlots
  <2>2. CASE Step("interrupted") /\ ResumeReadBack(journal) /\ ~Fail
    <3>1. UNCHANGED <<target, original, incoming, verify, snapshot, moves, taken, back,
                      own, verifyOwn, active, journal, mode, call>>
      BY <1>4, <2>2 DEF RecoverSlots, Step, device, local, aux, ResumeReadBack, Resumable
    <3>2. /\ pc = "slots"
          /\ pc' = "interrupted"
          /\ seen' = seen
          /\ journal.operation = "replace"
          /\ ~journal.newVerified
          /\ ~seen.incoming
      BY <1>4, <2>2 DEF RecoverSlots, Step, ResumeReadBack, Resumable
    <3> QED BY <3>1, <3>2
  <2>3. CASE Step("place") /\ ResumePlacement(journal) /\ ~Fail
    <3>1. UNCHANGED <<target, original, incoming, verify, snapshot, moves, taken, back,
                      own, verifyOwn, active, journal, mode, call>>
      BY <1>4, <2>3 DEF RecoverSlots, Step, device, local, aux, ResumePlacement, Resumable
    <3>2. /\ pc = "slots"
          /\ pc' = "place"
          /\ seen' = seen
          /\ journal.operation = "replace"
          /\ journal.incomingPlaceIntent
          /\ seen.incoming
          /\ ~journal.committed
      BY <1>4, <2>3 DEF RecoverSlots, Step, ResumePlacement, Resumable
    <3>3. AgreeIntents'
      BY <3>1, <3>2
    <3>4. SendingOK' /\ AnnouncedOK'
      BY <3>1, <3>2
    <3>5. ClosingOK'
      BY <3>1, <3>2
    <3> QED BY <3>3, <3>4, <3>5
  <2>4. CASE Record([journal EXCEPT !.newVerified = TRUE], "commitNew") /\ ~Fail
    <3>1. /\ active' = journal' /\ journal' = [journal EXCEPT !.newVerified = TRUE]
          /\ pc' = "commitNew"
          /\ UNCHANGED <<target, original, incoming, verify, snapshot, moves, taken, back,
                      own, verifyOwn, mode, call, seen>>
      BY <1>4, <2>4 DEF RecoverSlots, Record, Save, device, aux
    <3>2. /\ pc = "slots"
          /\ journal.operation = "replace"
          /\ ~seen.incoming
          /\ journal.incomingPlaceIntent
          /\ ~journal.committed
      BY <1>4, <2>4 DEF RecoverSlots, ResumeReturn, Resumable, Record, Step, ResumePlacement,
         ResumeReadBack
    <3>3. journal \in Journal /\ journal # NoJournal
      BY <3>2, JournalType
    <3>4. journal'.newVerified = TRUE /\ SameExcept(journal', journal, {"newVerified"})
      BY <3>1, <3>3, FieldUpdates
    <3> QED BY <3>1, <3>2, <3>3, <3>4 DEF SameExcept
  <2>5. CASE pc' \in {"classify", "probe"} /\ ~Fail
    <3>1. UNCHANGED <<target, original, incoming, verify, snapshot, moves, taken, back,
                      own, verifyOwn, active, journal, mode, call>>
      BY <1>4, <2>5 DEF RecoverSlots, Step, device, local, aux, Record
    <3>2. /\ pc = "slots"
          /\ pc' \in {"classify", "probe"}
          /\ seen' = seen
          /\ journal.operation = "delete" => pc' = "classify"
      BY <1>4, <2>5 DEF RecoverSlots, Step, Record
    <3> QED BY <3>1, <3>2
  <2> QED BY <1>4, <2>1, <2>2, <2>3, <2>4, <2>5 DEF RecoverSlots, Step
<1>5. CASE Interrupted
  <2>1. CASE Fail
    BY <1>5, <2>1, FailAhead DEF Interrupted
  <2>2. CASE Record([journal EXCEPT !.verifyMoveIntent = TRUE], "resendReadBack") /\ ~Fail
    <3>1. /\ active' = journal' /\ journal' = [journal EXCEPT !.verifyMoveIntent = TRUE]
          /\ pc' = "resendReadBack"
          /\ UNCHANGED <<target, original, incoming, verify, snapshot, moves, taken, back,
                      own, verifyOwn, mode, call, seen>>
      BY <1>5, <2>2 DEF Interrupted, Record, Save, device, aux
    <3>2. /\ pc = "interrupted"
          /\ incoming = Absent
      BY <1>5, <2>2 DEF Interrupted, BothOriginalsValid
    <3>3. journal \in Journal /\ journal # NoJournal
      BY <3>2, JournalType
    <3>4. journal'.verifyMoveIntent = TRUE /\ SameExcept(journal', journal, {"verifyMoveIntent"})
      BY <3>1, <3>3, FieldUpdates
    <3> QED BY <3>1, <3>2, <3>3, <3>4 DEF SameExcept
  <2> QED BY <1>5, <2>1, <2>2 DEF Interrupted
<1>6. CASE ResendReadBack
  BY <1>6, JournalType, CallType DEF ResendReadBack, Send, Session, local, slots
<1>7. CASE RewaitVerify
  BY <1>7, JournalType, CallType DEF RewaitVerify, Step, device, local, aux
<1>8. CASE RereadVerify
  <2>1. CASE Record([journal EXCEPT !.newVerified = TRUE], "commitNew")
    <3>1. /\ active' = journal' /\ journal' = [journal EXCEPT !.newVerified = TRUE]
          /\ pc' = "commitNew"
          /\ UNCHANGED <<target, original, incoming, verify, snapshot, moves, taken, back,
                      own, verifyOwn, mode, call, seen>>
      BY <1>8, <2>1 DEF RereadVerify, Record, Save, device, aux
    <3>2. /\ pc = "rereadVerify"
      BY <1>8, <2>1 DEF RereadVerify
    <3>3. journal \in Journal /\ journal # NoJournal
      BY <3>2, JournalType
    <3>4. journal'.newVerified = TRUE /\ SameExcept(journal', journal, {"newVerified"})
      BY <3>1, <3>3, FieldUpdates
    <3> QED BY <3>1, <3>2, <3>3, <3>4 DEF SameExcept
  <2>2. CASE Record([journal EXCEPT !.readBackMismatch = TRUE], "mismatch")
    <3>1. /\ active' = journal' /\ journal' = [journal EXCEPT !.readBackMismatch = TRUE]
          /\ pc' = "mismatch"
          /\ UNCHANGED <<target, original, incoming, verify, snapshot, moves, taken, back,
                      own, verifyOwn, mode, call, seen>>
      BY <1>8, <2>2 DEF RereadVerify, Record, Save, device, aux
    <3>2. /\ pc = "rereadVerify"
      BY <1>8, <2>2 DEF RereadVerify
    <3>3. journal \in Journal /\ journal # NoJournal
      BY <3>2, JournalType
    <3>4. journal'.readBackMismatch = TRUE /\ SameExcept(journal', journal, {"readBackMismatch"})
      BY <3>1, <3>3, FieldUpdates
    <3> QED BY <3>1, <3>2, <3>3, <3>4 DEF SameExcept
  <2> QED BY <1>8, <2>1, <2>2 DEF RereadVerify
<1>9. CASE Mismatch
  BY <1>9, JournalType, CallType DEF Mismatch, FailLabel, Session, local, slots
<1>10. CASE ProbeTarget
  <2>1. CASE Fail
    BY <1>10, <2>1, FailAhead DEF ProbeTarget
  <2>2. CASE ~Fail
    <3>1. PICK presence \in Presence :
            /\ seen' = [seen EXCEPT !.target = presence]
            /\ pc' = (IF ~SafeOriginalReturn(journal, presence) THEN "classify"
                     ELSE IF seen.incoming THEN "discard" ELSE "checkReturn")
      BY <1>10, <2>2 DEF ProbeTarget
    <3>2. /\ UNCHANGED <<target, original, incoming, verify, snapshot, moves, taken, back,
                        own, verifyOwn, active, journal, mode, call>>
          /\ pc = "probe"
      BY <1>10, <2>2 DEF ProbeTarget, device, local, aux
    <3>3. /\ seen'.original = seen.original /\ seen'.incoming = seen.incoming
          /\ seen'.verify = seen.verify
      BY <3>1 DEF TypeOK, Seen
    <3>4. \/ pc' = "classify"
          \/ /\ pc' \in {"discard", "checkReturn"} /\ seen.original /\ ~journal.originalReturned
             /\ ~journal.newVerified /\ ~journal.committed
      BY <3>1 DEF SafeOriginalReturn
    <3> QED BY <3>2, <3>3, <3>4
  <2> QED BY <2>1, <2>2
<1>11. CASE Discard
  BY <1>11, JournalType, CallType DEF Discard, Step, device, local, aux
<1>12. CASE Discarded
  <2>1. /\ active' = journal' /\ journal' = [journal EXCEPT !.incomingPlaceIntent = FALSE]
        /\ pc' = "checkReturn" /\ pc = "discarded"
        /\ UNCHANGED <<target, original, incoming, verify, snapshot, moves, taken, back,
                      own, verifyOwn, mode, call, seen>>
    BY <1>12 DEF Discarded, Record, Save, device, aux
  <2>2. journal \in Journal /\ journal # NoJournal
    BY <2>1, JournalType
  <2>3. /\ journal'.incomingPlaceIntent = FALSE
        /\ SameExcept(journal', journal, {"incomingPlaceIntent"})
    BY <2>1, <2>2, FieldUpdates
  <2> QED BY <2>1, <2>2, <2>3 DEF SameExcept
<1>13. CASE CloseDelete
  <2>1. CASE Fail
    BY <1>13, <2>1, FailAhead DEF CloseDelete
  <2>2. CASE Step("recovered") /\ ~Fail
    <3>1. UNCHANGED <<target, original, incoming, verify, snapshot, moves, taken, back,
                      own, verifyOwn, active, journal, mode, call>>
      BY <1>13, <2>2 DEF CloseDelete, Step, device, local, aux, BothOriginalsValid,
         LocalOriginalValid, Fail, FailLabel
    <3>2. /\ pc = "classify"
          /\ pc' = "recovered"
          /\ journal.operation = "delete"
          /\ journal.committed
          /\ journal.captured # Absent
          /\ snapshot = journal.captured
      BY <1>13, <2>2
         DEF CloseDelete, Step, BothOriginalsValid, LocalOriginalValid, Fail, FailLabel
    <3> QED BY <3>1, <3>2
  <2> QED BY <1>13, <2>1, <2>2 DEF CloseDelete
<1>14. CASE CloseReturned
  <2>1. CASE Fail
    BY <1>14, <2>1, FailAhead DEF CloseReturned
  <2>2. CASE Step("recovered") /\ ~Fail
    <3>1. UNCHANGED <<target, original, incoming, verify, snapshot, moves, taken, back,
                      own, verifyOwn, active, journal, mode, call>>
      BY <1>14, <2>2 DEF CloseReturned, Step, device, local, aux, OpenReturn, Record, Save
    <3>2. /\ pc = "classify"
          /\ pc' = "recovered"
          /\ ~seen.original
          /\ journal.originalReturned \/ (journal.originalObserved /\ journal.returnOriginalIntent)
      BY <1>14, <2>2 DEF CloseReturned, Step, OpenReturn, Record, Save
    <3> QED BY <3>1, <3>2
  <2>3. CASE Record([journal EXCEPT !.originalReturned = TRUE], "recovered") /\ ~Fail
    <3>1. /\ active' = journal' /\ journal' = [journal EXCEPT !.originalReturned = TRUE]
          /\ pc' = "recovered"
          /\ UNCHANGED <<target, original, incoming, verify, snapshot, moves, taken, back,
                      own, verifyOwn, mode, call, seen>>
      BY <1>14, <2>3 DEF CloseReturned, Record, Save, device, aux
    <3>2. /\ pc = "classify"
          /\ ~seen.original
          /\ journal.originalReturned \/ (journal.originalObserved /\ journal.returnOriginalIntent)
          /\ ~(journal.operation = "delete" /\ journal.committed)
      BY <1>14, <2>3 DEF CloseReturned, OpenReturn, Record, Step
    <3>3. journal \in Journal /\ journal # NoJournal
      BY <3>2, JournalType
    <3>4. journal'.originalReturned = TRUE /\ SameExcept(journal', journal, {"originalReturned"})
      BY <3>1, <3>3, FieldUpdates
    <3> QED BY <3>1, <3>2, <3>3, <3>4 DEF SameExcept
  <2> QED BY <1>14, <2>1, <2>2, <2>3 DEF CloseReturned
<1>15. CASE ConfirmCommit
  <2>1. CASE Record([journal EXCEPT !.committed = TRUE], "classify")
    <3>1. /\ active' = journal' /\ journal' = [journal EXCEPT !.committed = TRUE]
          /\ pc' = "classify"
          /\ UNCHANGED <<target, original, incoming, verify, snapshot, moves, taken, back,
                      own, verifyOwn, mode, call, seen>>
      BY <1>15, <2>1 DEF ConfirmCommit, Record, Save, device, aux
    <3>2. /\ pc = "classify"
          /\ journal.operation # "delete"
          /\ journal.returnNewIntent
          /\ journal.newVerified
          /\ ~seen.verify
      BY <1>15, <2>1 DEF ConfirmCommit, OpenCommit
    <3>3. journal \in Journal /\ journal # NoJournal
      BY <3>2, JournalType
    <3>4. journal'.committed = TRUE /\ SameExcept(journal', journal, {"committed"})
      BY <3>1, <3>3, FieldUpdates
    <3> QED BY <3>1, <3>2, <3>3, <3>4 DEF SameExcept
  <2> QED BY <1>15, <2>1 DEF ConfirmCommit
<1>16. CASE CloseCommitted
  <2>1. CASE Fail
    BY <1>16, <2>1, FailAhead DEF CloseCommitted
  <2>2. CASE (Step("recovered") \/ Step("dropOriginal")) /\ ~Fail
    <3>1. UNCHANGED <<target, original, incoming, verify, snapshot, moves, taken, back,
                      own, verifyOwn, active, journal, mode, call>>
      BY <1>16, <2>2 DEF CloseCommitted, Step, device, local, aux, LocalOriginalValid, Fail,
         FailLabel
    <3>2. /\ pc = "classify"
          /\ pc' = "dropOriginal" \/ (pc' = "recovered" /\ ~seen.original)
          /\ journal.committed
          /\ journal.captured # Absent
          /\ snapshot = journal.captured
          /\ journal.operation # "delete"
      BY <1>16, <2>2 DEF CloseCommitted, Step, LocalOriginalValid, Fail, FailLabel
    <3> QED BY <3>1, <3>2
  <2> QED BY <1>16, <2>1, <2>2 DEF CloseCommitted
<1>17. CASE DropOriginal
  BY <1>17, JournalType, CallType DEF DropOriginal, local, aux
<1>18. CASE RestoreOrPend
  <2>1. CASE Fail
    BY <1>18, <2>1, FailAhead DEF RestoreOrPend
  <2>2. CASE Record([journal EXCEPT !.originalObserved = TRUE], "forceReturn") /\ ~Fail
    <3>1. /\ active' = journal' /\ journal' = [journal EXCEPT !.originalObserved = TRUE]
          /\ pc' = "forceReturn"
          /\ UNCHANGED <<target, original, incoming, verify, snapshot, moves, taken, back,
                      own, verifyOwn, mode, call, seen>>
      BY <1>18, <2>2 DEF RestoreOrPend, Record, Save, device, aux
    <3>2. /\ pc = "classify"
          /\ seen.original
          /\ ~journal.committed
          /\ Explicit
      BY <1>18, <2>2 DEF RestoreOrPend
    <3>3. journal \in Journal /\ journal # NoJournal
      BY <3>2, JournalType
    <3>4. journal'.originalObserved = TRUE /\ SameExcept(journal', journal, {"originalObserved"})
      BY <3>1, <3>3, FieldUpdates
    <3> QED BY <3>1, <3>2, <3>3, <3>4 DEF SameExcept
  <2> QED BY <1>18, <2>1, <2>2 DEF RestoreOrPend
<1>19. CASE RestoreRecovered
  BY <1>19, JournalType, CallType DEF RestoreRecovered, device, aux
<1>20. CASE CleanGeneratedStage
  BY <1>20, JournalType, CallType DEF CleanGeneratedStage, local, aux, slots
<1>21. CASE RemoveActive
  <2>1. /\ pc = "close" /\ pc' \in {"prepare", "report"} /\ active' = NoJournal
        /\ UNCHANGED <<original, incoming, moves, taken, mode, seen>>
    BY <1>21 DEF RemoveActive, device, aux
  <2>2. UnderWay("toOriginal") => moves = <<"toOriginal">>
    BY <2>1, QueueAlone DEF TypeOK
  <2>3. ~UnderWay("toOriginal")
    BY <2>1, <2>2
  <2> QED BY <2>1, <2>3
<1> QED
  BY <1>1, <1>2, <1>3, <1>4, <1>5, <1>6, <1>7, <1>8, <1>9, <1>10, <1>11, <1>12, <1>13, <1>14,
     <1>15, <1>16, <1>17, <1>18, <1>19, <1>20, <1>21
     DEF RecoveryStep

\* The device, the clock and the worker's ends keep what was announced.
LEMMA OtherStepAhead ==
  ASSUME IInv, IInv', PromiseInv, PromiseInv', AheadInv, [Next]_vars, ~CallStep, ~RecoveryStep
  PROVE  AheadInv'
<1> USE NoJournalAssumption
    DEF AheadInv, AgreeIntents, UnderWay, SendingOK, AnnouncedOK, ClosingOK, PromiseInv, Agree,
        FlagsOK, LabelsOK, SeenOK, DeleteOK,
        CommittedDeleteRetained, FillsTarget,
        Untaken, GivenUp, NewPcs, SeenPcs, DecidedPcs, TakingPcs, PlacingPcs, OpenPcs, Pcs,
        SendPcs, WaitPcs, RecoveryPcs, OtherPcs, Goto, IInv, TypeInv, JournalThere, ModeOK,
        RecoverOnlyPcs, CustodyInv, OneOriginal, BeforePcs, Creating
<1>1. ASSUME NEW k \in Kinds, NEW d \in File, BeginCall(k, d) PROVE AheadInv'
  BY <1>1 DEF BeginCall, device, aux
<1>2. CASE BeginRestore
  BY <1>2, JournalType, CallType DEF BeginRestore, device, aux, NoCall
<1>3. CASE IoError
  BY <1>3, JournalType, CallType DEF IoError, Step, Fail, FailLabel, device, local, aux
<1>4. CASE WaitTimeout
  BY <1>4, JournalType, CallType DEF WaitTimeout, Fail, FailLabel, device, local, aux
<1>5. CASE Crash
  BY <1>5, JournalType, CallType DEF Crash, device, aux, NoCall
<1>6. CASE ExecuteMove
  <2>1. /\ moves \in Queues /\ moves # <<>> /\ moves' = Tail(moves)
        /\ UNCHANGED <<snapshot, active, journal, pc, mode, call, seen>>
    BY <1>6 DEF ExecuteMove, TypeOK, local, worker
  <2>2. /\ moves' # <<"toOriginal">> /\ (Head(moves) = "toOriginal" => moves = <<"toOriginal">>)
        /\ {moves'[i] : i \in DOMAIN moves'} \subseteq {moves[i] : i \in DOMAIN moves}
        /\ Head(moves) \in {moves[i] : i \in DOMAIN moves}
    BY <2>1, QueueEnds, QueueParts
  <2>3. /\ original' = original \/ original' = Absent \/ Head(moves) = "toOriginal"
        /\ incoming' = incoming \/ incoming' = Absent
        /\ Head(moves) # "toOriginal" => taken' = taken
    BY <1>6 DEF ExecuteMove
  <2>4. \A m \in Moves : UnderWay(m)' => UnderWay(m)
    BY <2>2
  <2>5. AgreeIntents' /\ SendingOK'
    BY <2>1
  <2>6. AnnouncedOK'
    BY <2>1, <2>3, <2>4 DEF Moves
  <2>7. CASE Head(moves) # "toOriginal"
    <3>1. ClosingOK'
      BY <2>1, <2>3, <2>4, <2>7 DEF Moves
    <3> QED BY <2>5, <2>6, <3>1
  <2>8. CASE Head(moves) = "toOriginal"
    <3>1. moves' = <<>> /\ moves = <<"toOriginal">> /\ taken = Absent
      BY <2>1, <2>2, <2>8
    <3>2. ClosingOK'
      BY <2>1, <2>3, <3>1
    <3> QED BY <2>5, <2>6, <3>2
  <2> QED BY <2>7, <2>8
<1>7. CASE DropMove
  BY <1>7, JournalType, CallType DEF DropMove, local, worker, aux, slots
<1>8. CASE AppWrites
  BY <1>8, JournalType, CallType DEF AppWrites, local, worker, slots
<1>9. CASE Settle
  BY <1>9, JournalType, CallType DEF Settle, device, local, worker, aux
<1>10. CASE UNCHANGED vars
  BY <1>10 DEF vars, device, local, worker, aux
<1> QED
  BY <1>1, <1>2, <1>3, <1>4, <1>5, <1>6, <1>7, <1>8, <1>9, <1>10
     DEF Next, Begin, Worker, Device

\* The inductive invariant of the announcements.
LEMMA AheadInvariant == Spec => []AheadInv
<1>1. Init => AheadInv
  BY DEF Init, AheadInv, AgreeIntents, UnderWay, SendingOK, AnnouncedOK, ClosingOK, OpenPcs, Pcs,
         SeenPcs, NewPcs, PlacingPcs
<1>2. IInv /\ IInv' /\ PromiseInv /\ PromiseInv' /\ AheadInv /\ [Next]_vars => AheadInv'
  BY CallStepAhead, RecoveryStepAhead, OtherStepAhead
<1> QED BY <1>1, <1>2, PromiseInvariant, PTL DEF Spec

\* The write-ahead rule of saveJournal: a move the device may still execute is
\* announced by the journal on disk, and no move of an original outlives its
\* transaction's journal.
THEOREM AnnouncedFirst == Spec => []WriteAhead
<1>1. IInv /\ AheadInv => WriteAhead
  <2> SUFFICES ASSUME IInv, AheadInv, NEW i \in DOMAIN moves, Source(moves[i]) # Absent
               PROVE  IF active = NoJournal THEN moves[i] \notin {"toOriginal", "fromOriginal"}
                      ELSE CASE moves[i] = "toOriginal" -> active.originalMoveIntent
                             [] moves[i] = "fromOriginal" -> active.returnOriginalIntent
                             [] moves[i] = "place" -> active.incomingPlaceIntent
                             [] moves[i] = "readBack" -> active.verifyMoveIntent
                             [] OTHER -> active.returnNewIntent \/ active.readBackMismatch
    BY DEF WriteAhead
  <2>1. UnderWay(moves[i])
    BY DEF UnderWay
  <2>2. moves[i] \in Moves
    BY QueueAlone DEF IInv, TypeInv, TypeOK
  <2>3. CASE active = NoJournal
    BY <2>1, <2>3 DEF AheadInv, ClosingOK, Source
  <2>4. CASE active # NoJournal
    BY <2>1, <2>2, <2>4 DEF AheadInv, AnnouncedOK, Source, Moves
  <2> QED BY <2>3, <2>4
<1> QED BY <1>1, CustodyInvariant, AheadInvariant, PTL

-----------------------------------------------------------------------------
(***************************************************************************)
(* What a replacement that fails leaves                                    *)
(***************************************************************************)
\* The payload named on disk is the one named in memory.
AgreePayload ==
  pc \in OpenPcs =>
    /\ active.newDigest = journal.newDigest /\ active.newVerified = journal.newVerified

\* A call that has its own transaction no longer recovers an earlier one.
OwnMode == pc # "idle" /\ call.prepared => mode \in {"op", "finish"}

\* The transaction of a replacement that is still open.
OwnReplace ==
  /\ pc # "idle" /\ call.prepared /\ call.kind = "replace"
  /\ active # NoJournal

\* Its journal names its payload, is verified before it commits, and gives up
\* the payload before it returns the original.
OwnJournal ==
  OwnReplace =>
    /\ active.operation \in {"replace", "create"}
    /\ active.newDigest \in {Absent, call.data}
    /\ active.incomingPlaceIntent \/ active.newVerified \/ pc \in NewPcs \ {"stage"} =>
         active.newDigest = call.data
    /\ active.committed \/ pc \in {"commitNew", "sendNew", "waitNew"} => active.newVerified
    /\ pc \in {"checkReturn", "discard", "discarded", "sendReturn", "waitReturn"} =>
         ~active.newVerified /\ mode = "finish"
    /\ pc # "forceReturn"
    /\ active.returnOriginalIntent =>
         ~active.newVerified /\ pc \in {"sendReturn", "waitReturn", "recovered", "close", "report"}
    /\ active.originalReturned => back /\ pc \in {"recovered", "close", "report"}

\* A failed replacement without a journal.
FailureOK ==
  call.kind = "replace" /\ call.prepared /\ ~call.ok /\ active = NoJournal
    => taken = Absent \/ back

OwnInv == AgreePayload /\ OwnMode /\ OwnJournal /\ FailureOK

\* What setting a result or the mark of a prepared call leaves alone.
LEMMA CallFields ==
  ASSUME TypeInv
  PROVE  /\ \A b \in BOOLEAN :
              LET c == [call EXCEPT !.ok = b]
              IN  /\ c.kind = call.kind /\ c.data = call.data
                  /\ c.prepared = call.prepared /\ c.ok = b
         /\ LET c == [call EXCEPT !.prepared = TRUE]
            IN  c.kind = call.kind /\ c.data = call.data /\ c.prepared /\ c.ok = call.ok
  BY DEF TypeInv, TypeOK, Call

\* A call that fails keeps the invariant: it changes its own label only.
LEMMA FailOwn ==
  ASSUME IInv, PromiseInv, OwnInv, pc \notin {"idle", "finish", "report"}, Fail
  PROVE  OwnInv'
<1> USE NoJournalAssumption
    DEF OwnInv, AgreePayload, OwnMode, OwnReplace, OwnJournal, FailureOK, Agree, NewPcs,
        PlacingPcs,
        OpenPcs, Pcs, SendPcs, WaitPcs, RecoveryPcs, OtherPcs, Goto, IInv, TypeInv, JournalThere,
        ModeOK, RecoverOnlyPcs, Creating, PromiseInv, AheadInv, AgreeIntents
<1>1. pc \in Pcs
  BY DEF TypeOK
<1> QED BY <1>1, CallFields DEF Fail, FailLabel, device, local, aux

\* What each action of the body of a call does to it.
LEMMA CallStepOwn ==
  ASSUME IInv, IInv', PromiseInv, PromiseInv', AheadInv, OwnInv, CallStep
  PROVE  OwnInv'
<1> USE NoJournalAssumption
    DEF OwnInv, AgreePayload, OwnMode, OwnReplace, OwnJournal, FailureOK, Agree, NewPcs,
        PlacingPcs,
        OpenPcs, Pcs, SendPcs, WaitPcs, RecoveryPcs, OtherPcs, Goto, IInv, TypeInv, JournalThere,
        ModeOK, RecoverOnlyPcs, Creating, PromiseInv, AheadInv, AgreeIntents
<1>1. CASE PrepareKnownFile
  <2>1. /\ pc = "prepare" /\ pc' \in {"opened", "finish"} /\ mode' = "op"
        /\ journal' = FreshJournal(call.kind, call.data) /\ active' = journal'
        /\ call' \in {call, [call EXCEPT !.prepared = TRUE]}
    BY <1>1 DEF PrepareKnownFile, Save
  <2>2. call'.kind = call.kind /\ call'.data = call.data
    BY <2>1, CallFields
  <2>3. active' # NoJournal
    <3>1. call.kind \in Operations
      BY <2>1 DEF PreparesCall
    <3>2. FreshJournal(call.kind, call.data) \in Journal
      BY <3>1, CallType DEF FreshJournal, Journal, File
    <3> QED BY <2>1, <3>2
  <2>4. AgreePayload' /\ OwnMode' /\ FailureOK'
    BY <2>1, <2>3
  <2>5. OwnJournal'
    BY <2>1, <2>2 DEF FreshJournal
  <2> QED BY <2>4, <2>5
<1>2. CASE OpenReplace
  <2>1. pc = "opened" /\ journal \in Journal /\ active \in Journal
    BY <1>2, JournalType DEF OpenReplace
  <2>2. CASE pc' = "stage" /\ Save([journal EXCEPT !.operation = "create"])
    <3>0. journal' \in Journal
      BY <2>1, <2>2, JournalUpdates DEF Save
    <3>1. journal'.operation = "create" /\ SameExcept(journal', journal, {"operation"})
      BY <2>1, <2>2 DEF Save, Journal, SameExcept
    <3>2. active' = journal' /\ UNCHANGED <<call, mode, taken, back>>
      BY <1>2, <2>2 DEF OpenReplace, Save, device
    <3>3. AgreePayload' /\ OwnMode' /\ FailureOK'
      BY <2>1, <2>2, <3>0, <3>2
    <3>4. OwnJournal'
      BY <2>1, <2>2, <3>1, <3>2 DEF SameExcept
    <3> QED BY <3>3, <3>4
  <2>3. CASE pc' = "observe" /\ UNCHANGED <<active, journal>>
    BY <1>2, <2>1, <2>3 DEF OpenReplace, device
  <2> QED BY <1>2, <2>2, <2>3 DEF OpenReplace
<1>3. CASE OpenCreateProbe
  BY <1>3, JournalType, CallFields DEF OpenCreateProbe, Fail, FailLabel, device, local, aux
<1>4. CASE OpenReadOrDelete
  BY <1>4, JournalType, CallFields DEF OpenReadOrDelete, Step, device, local, aux
<1>5. CASE ObserveKnownOriginal
  <2>1. CASE Fail
    BY <1>5, <2>1, FailOwn DEF ObserveKnownOriginal
  <2>2. CASE Record([journal EXCEPT !.originalMoveIntent = TRUE], "sendOriginal") /\ ~Fail
    <3>1. /\ active' = journal' /\ journal' = [journal EXCEPT !.originalMoveIntent = TRUE]
          /\ pc' = "sendOriginal"
          /\ UNCHANGED <<target, original, incoming, verify, snapshot, moves, taken, back,
                      own, verifyOwn, mode, call, seen>>
      BY <1>5, <2>2 DEF ObserveKnownOriginal, Record, Save, device, aux
    <3>2. /\ pc = "observe"
      BY <1>5, <2>2 DEF ObserveKnownOriginal
    <3>3. journal \in Journal /\ journal # NoJournal
      BY <3>2, JournalType
    <3>4. /\ journal'.originalMoveIntent = TRUE
          /\ SameExcept(journal', journal, {"originalMoveIntent"})
      BY <3>1, <3>3, FieldUpdates
    <3>5. AgreePayload' /\ OwnMode' /\ FailureOK'
      BY <3>1, <3>2, <3>3, <3>4 DEF SameExcept
    <3>6. OwnJournal'
      BY <3>1, <3>2, <3>3, <3>4 DEF SameExcept
    <3> QED BY <3>5, <3>6
  <2> QED BY <1>5, <2>1, <2>2 DEF ObserveKnownOriginal
<1>6. CASE SendOriginal
  BY <1>6, JournalType, CallFields DEF SendOriginal, Send, Session, local, slots
<1>7. CASE WaitOriginal
  <2>1. /\ active' = journal' /\ journal' = [journal EXCEPT !.originalObserved = TRUE]
        /\ pc' = "readOriginal" /\ pc = "waitOriginal"
        /\ UNCHANGED <<target, original, incoming, verify, snapshot, moves, taken, back,
                      own, verifyOwn, mode, call, seen>>
    BY <1>7 DEF WaitOriginal, Record, Save, device, aux
  <2>2. journal \in Journal /\ journal # NoJournal
    BY <2>1, JournalType
  <2>3. journal'.originalObserved = TRUE /\ SameExcept(journal', journal, {"originalObserved"})
    BY <2>1, <2>2, FieldUpdates
  <2> QED BY <1>7, <2>1, <2>2, <2>3 DEF WaitOriginal, SameExcept
<1>8. CASE ReadOriginal
  BY <1>8, JournalType, CallFields DEF ReadOriginal, device, aux
<1>9. CASE PersistKnownOriginal
  BY <1>9, JournalType, CallFields DEF PersistKnownOriginal, Save, device, aux
<1>10. CASE ReadWithoutData
  <2>1. journal \in Journal /\ active \in Journal
    BY <1>10, JournalType DEF ReadWithoutData
  <2>2. SameExcept([journal EXCEPT !.captured = snapshot], journal, {"captured"})
    BY <2>1 DEF SameExcept, Journal
  <2>3. /\ journal' \in {journal, [journal EXCEPT !.captured = snapshot]}
        /\ active' \in {active, journal'}
        /\ pc \in {"readOriginal", "persist"} /\ pc' = "checkReturn" /\ call.kind = "read"
        /\ UNCHANGED <<device, snapshot, mode, call, seen, calm, aux>>
    BY <1>10 DEF ReadWithoutData
  <2>4. SameExcept(journal', journal, {"captured"})
    BY <2>2, <2>3 DEF SameExcept
  <2>5. active' = active \/ active' = journal'
    BY <2>3
  <2> QED BY <2>1, <2>3, <2>4, <2>5 DEF SameExcept, device, aux
<1>11. CASE CheckReturn
  <2>1. CASE Fail
    BY <1>11, <2>1, FailOwn DEF CheckReturn
  <2>2. CASE Save([journal EXCEPT !.returnOriginalIntent = TRUE]) /\ ~Fail
    <3>1. /\ active' = journal' /\ journal' = [journal EXCEPT !.returnOriginalIntent = TRUE]
          /\ pc' = "sendReturn"
          /\ UNCHANGED <<target, original, incoming, verify, snapshot, moves, taken, back,
                      own, verifyOwn, mode, call, seen>>
      BY <1>11, <2>2 DEF CheckReturn, Record, Save, device, aux
    <3>2. /\ pc = "checkReturn"
      BY <1>11, <2>2 DEF CheckReturn
    <3>3. journal \in Journal /\ journal # NoJournal
      BY <3>2, JournalType
    <3>4. /\ journal'.returnOriginalIntent = TRUE
          /\ SameExcept(journal', journal, {"returnOriginalIntent"})
      BY <3>1, <3>3, FieldUpdates
    <3>5. AgreePayload' /\ OwnMode' /\ FailureOK'
      BY <3>1, <3>2, <3>3, <3>4 DEF SameExcept
    <3>6. OwnJournal'
      BY <3>1, <3>2, <3>3, <3>4 DEF SameExcept
    <3> QED BY <3>5, <3>6
  <2> QED BY <1>11, <2>1, <2>2 DEF CheckReturn
<1>12. CASE ForceReturn
  <2>1. /\ journal \in Journal /\ pc = "forceReturn" /\ pc' = "sendReturn"
        /\ journal' = [journal EXCEPT !.returnOriginalIntent = TRUE] /\ active' = journal'
        /\ UNCHANGED <<mode, call, taken, back>>
    BY <1>12, JournalType DEF ForceReturn, Save, device
  <2>2. journal' \in Journal /\ ~OwnReplace
    BY <2>1, JournalUpdates
  <2>3. AgreePayload' /\ OwnMode' /\ FailureOK'
    BY <2>1, <2>2
  <2>4. OwnJournal'
    BY <2>1, <2>2
  <2> QED BY <2>3, <2>4
<1>13. CASE SendReturn
  BY <1>13, JournalType, CallFields DEF SendReturn, Send, Session, local, slots
<1>14. CASE WaitReturn
  <2>1. /\ active' = journal' /\ journal' = [journal EXCEPT !.originalReturned = TRUE]
        /\ pc' = IF mode = "op" THEN "finish" ELSE "recovered"
        /\ UNCHANGED <<mode, call, taken, back>>
        /\ pc = "waitReturn" /\ original = Absent
    BY <1>14 DEF WaitReturn, Record, Save, device, aux
  <2>2. journal \in Journal /\ journal # NoJournal
    BY <2>1, JournalType
  <2>3. journal' \in Journal /\ SameExcept(journal', journal, {"originalReturned"})
    BY <2>1, <2>2, FieldUpdates, JournalUpdates
  <2>4. OwnReplace => back
    BY <2>1 DEF LabelsOK, FlagsOK, GivenUp
  <2>5. AgreePayload' /\ OwnMode' /\ FailureOK'
    BY <2>1, <2>2, <2>3 DEF SameExcept
  <2>6. OwnJournal'
    BY <2>1, <2>2, <2>3, <2>4 DEF SameExcept
  <2> QED BY <2>5, <2>6
<1>15. CASE Stage
  <2>1. /\ active' = journal' /\ journal' = [journal EXCEPT !.newDigest = call.data]
        /\ pc' = "write" /\ pc = "stage"
        /\ UNCHANGED <<target, original, incoming, verify, snapshot, moves, taken, back,
                      own, verifyOwn, mode, call, seen>>
    BY <1>15 DEF Stage, Record, Save, device, aux
  <2>2. journal \in Journal /\ journal # NoJournal /\ call.data \in File
    BY <2>1, JournalType, CallType
  <2>3. journal'.newDigest = call.data /\ SameExcept(journal', journal, {"newDigest"})
    BY <2>1, <2>2, FieldUpdates
  <2>5. AgreePayload' /\ OwnMode' /\ FailureOK'
    BY <2>1, <2>2, <2>3 DEF SameExcept
  <2>6. OwnJournal'
    BY <2>1, <2>2, <2>3 DEF SameExcept
  <2> QED BY <2>5, <2>6
<1>16. CASE WriteKnownIncoming
  <2>1. /\ pc = "write" /\ pc' \in {"place", "create", "finish"}
        /\ pc' = "place" => journal.operation = "replace"
        /\ pc' = "create" => journal.operation # "replace"
        /\ UNCHANGED <<active, journal, snapshot, mode, taken, back, own, seen>>
        /\ call' \in {call, [call EXCEPT !.ok = FALSE]}
    BY <1>16 DEF WriteKnownIncoming, local, aux
  <2>2. call'.kind = call.kind /\ call'.data = call.data /\ call'.prepared = call.prepared
    BY <2>1, CallFields
  <2>3. AgreePayload' /\ OwnMode' /\ FailureOK'
    BY <1>16, <2>1, <2>2, JournalType, CallFields DEF WriteKnownIncoming
  <2>4. OwnJournal'
    BY <2>1, <2>2, JournalType
  <2> QED BY <2>3, <2>4
<1>17. CASE Place
  <2>1. CASE Fail
    BY <1>17, <2>1, FailOwn DEF Place
  <2>2. CASE /\ Record([journal EXCEPT !.incomingPlaceIntent = TRUE,
                                     !.verifyMoveIntent = TRUE], "sendPlacement")
             /\ ~Fail
    <3>1. /\ active' = journal'
          /\ journal' = [journal EXCEPT !.incomingPlaceIntent = TRUE, !.verifyMoveIntent = TRUE]
          /\ pc' = "sendPlacement"
          /\ UNCHANGED <<target, original, incoming, verify, snapshot, moves, taken, back,
                      own, verifyOwn, mode, call, seen>>
      BY <1>17, <2>2 DEF Place, Record, Save, device, aux
    <3>2. /\ pc = "place"
          /\ verify = Absent
          /\ incoming = journal.newDigest
      BY <1>17, <2>2 DEF Place
    <3>3. journal \in Journal /\ journal # NoJournal
      BY <3>2, JournalType
    <3>4. /\ journal'.incomingPlaceIntent = TRUE
          /\ journal'.verifyMoveIntent = TRUE
          /\ SameExcept(journal', journal, {"incomingPlaceIntent", "verifyMoveIntent"})
      BY <3>1, <3>3, FieldUpdates
    <3>5. AgreePayload' /\ OwnMode' /\ FailureOK'
      BY <3>1, <3>2, <3>3, <3>4 DEF SameExcept
    <3>6. OwnJournal'
      BY <3>1, <3>2, <3>3, <3>4 DEF SameExcept
    <3> QED BY <3>5, <3>6
  <2> QED BY <1>17, <2>1, <2>2 DEF Place
<1>18. CASE SendPlacement
  BY <1>18, JournalType, CallFields DEF SendPlacement, FailLabel, Session, local, aux, slots
<1>19. CASE WaitIncoming
  BY <1>19, JournalType, CallFields DEF WaitIncoming, Step, device, local, aux
<1>20. CASE WaitVerify
  BY <1>20, JournalType, CallFields DEF WaitVerify, Step, device, local, aux
<1>21. CASE ReadVerify
  <2>1. CASE Fail
    BY <1>21, <2>1, FailOwn DEF ReadVerify
  <2>2. CASE Record([journal EXCEPT !.newVerified = TRUE], "commitNew") /\ ~Fail
    <3>1. /\ active' = journal' /\ journal' = [journal EXCEPT !.newVerified = TRUE]
          /\ pc' = "commitNew"
          /\ UNCHANGED <<target, original, incoming, verify, snapshot, moves, taken, back,
                      own, verifyOwn, mode, call, seen>>
      BY <1>21, <2>2 DEF ReadVerify, Record, Save, device, aux
    <3>2. /\ pc = "readVerify"
          /\ verify = journal.newDigest
          /\ verify # Absent
      BY <1>21, <2>2 DEF ReadVerify
    <3>3. journal \in Journal /\ journal # NoJournal
      BY <3>2, JournalType
    <3>4. journal'.newVerified = TRUE /\ SameExcept(journal', journal, {"newVerified"})
      BY <3>1, <3>3, FieldUpdates
    <3>5. AgreePayload' /\ OwnMode' /\ FailureOK'
      BY <3>1, <3>2, <3>3, <3>4 DEF SameExcept
    <3>6. OwnJournal'
      BY <3>1, <3>2, <3>3, <3>4 DEF SameExcept
    <3> QED BY <3>5, <3>6
  <2> QED BY <1>21, <2>1, <2>2 DEF ReadVerify
<1>22. CASE CommitNew
  <2>1. /\ active' = journal' /\ journal' = [journal EXCEPT !.returnNewIntent = TRUE]
        /\ pc' = "sendNew" /\ pc = "commitNew"
        /\ UNCHANGED <<target, original, incoming, verify, snapshot, moves, taken, back,
                      own, verifyOwn, mode, call, seen>>
    BY <1>22 DEF CommitNew, Record, Save, device, aux
  <2>2. journal \in Journal /\ journal # NoJournal
    BY <2>1, JournalType
  <2>3. journal'.returnNewIntent = TRUE /\ SameExcept(journal', journal, {"returnNewIntent"})
    BY <2>1, <2>2, FieldUpdates
  <2> QED BY <1>22, <2>1, <2>2, <2>3 DEF CommitNew, SameExcept
<1>23. CASE SendNew
  <2>1. CASE Fail
    BY <1>23, <2>1, FailOwn DEF SendNew, Send, Session
  <2>2. CASE Send("sendNew", "return", "waitNew") /\ ~Fail
    BY <1>23, <2>2, JournalType, CallFields DEF Send, Session, local, slots
  <2> QED BY <1>23, <2>1, <2>2 DEF SendNew
<1>24. CASE WaitNew
  <2>1. /\ active' = journal' /\ journal' = [journal EXCEPT !.committed = TRUE]
        /\ pc = "waitNew" /\ pc' \in {"finish", "recovered", "probe"}
        /\ UNCHANGED <<taken, back, mode>>
        /\ call' \in {call, [call EXCEPT !.ok = TRUE]}
    BY <1>24 DEF WaitNew, Save, device, aux
  <2>2. journal \in Journal /\ journal # NoJournal /\ active \in Journal
    BY <2>1, JournalType
  <2>3. /\ journal' \in Journal
        /\ journal'.committed = TRUE
        /\ SameExcept(journal', journal, {"committed"})
    BY <2>1, <2>2, FieldUpdates, JournalUpdates
  <2>4. call'.kind = call.kind /\ call'.data = call.data /\ call'.prepared = call.prepared
    BY <2>1, CallFields
  <2>5. AgreePayload' /\ OwnMode' /\ FailureOK'
    BY <2>1, <2>3, <2>4
  <2>6. OwnJournal'
    BY <2>1, <2>2, <2>3, <2>4 DEF SameExcept
  <2> QED BY <2>5, <2>6
<1>25. CASE Create
  <2>1. /\ active' = journal' /\ journal' = [journal EXCEPT !.incomingPlaceIntent = TRUE]
        /\ pc' = "sendCreation" /\ pc = "create"
        /\ UNCHANGED <<target, original, incoming, verify, snapshot, moves, taken, back,
                      own, verifyOwn, mode, call, seen>>
    BY <1>25 DEF Create, Record, Save, device, aux
  <2>2. journal \in Journal /\ journal # NoJournal
    BY <2>1, JournalType
  <2>3. /\ journal'.incomingPlaceIntent = TRUE
        /\ SameExcept(journal', journal, {"incomingPlaceIntent"})
    BY <2>1, <2>2, FieldUpdates
  <2> QED BY <1>25, <2>1, <2>2, <2>3 DEF Create, SameExcept
<1>26. CASE SendCreation
  <2>1. CASE Fail
    BY <1>26, <2>1, FailOwn DEF SendCreation, Send, Session
  <2>2. CASE Send("sendCreation", "place", "waitCreation") /\ ~Fail
    BY <1>26, <2>2, JournalType, CallFields DEF Send, Session, local, slots
  <2> QED BY <1>26, <2>1, <2>2 DEF SendCreation
<1>27. CASE WaitCreation
  <2>1. /\ active' = journal' /\ journal' = [journal EXCEPT !.verifyMoveIntent = TRUE]
        /\ pc' = "sendReadBack" /\ pc = "waitCreation"
        /\ UNCHANGED <<target, original, incoming, verify, snapshot, moves, taken, back,
                      own, verifyOwn, mode, call, seen>>
    BY <1>27 DEF WaitCreation, Record, Save, device, aux
  <2>2. journal \in Journal /\ journal # NoJournal
    BY <2>1, JournalType
  <2>3. journal'.verifyMoveIntent = TRUE /\ SameExcept(journal', journal, {"verifyMoveIntent"})
    BY <2>1, <2>2, FieldUpdates
  <2> QED BY <1>27, <2>1, <2>2, <2>3 DEF WaitCreation, SameExcept
<1>28. CASE SendReadBack
  BY <1>28, JournalType, CallFields DEF SendReadBack, Send, Session, local, slots
<1>29. CASE CommitDelete
  BY <1>29, JournalType, CallFields DEF CommitDelete, Save, device, aux
<1>30. CASE CommitDeleteRefused
  BY <1>30, JournalType, CallFields DEF CommitDeleteRefused, Fail, FailLabel, device, local, aux
<1>31. CASE Finish
  BY <1>31, JournalType, CallFields DEF Finish, device, aux
<1>32. CASE Report
  BY <1>32, JournalType, CallFields DEF Report, device, aux
<1> QED
  BY <1>1, <1>2, <1>3, <1>4, <1>5, <1>6, <1>7, <1>8, <1>9, <1>10, <1>11, <1>12, <1>13, <1>14,
      <1>15, <1>16, <1>17, <1>18, <1>19, <1>20, <1>21, <1>22, <1>23, <1>24, <1>25, <1>26,
      <1>27, <1>28, <1>29, <1>30, <1>31, <1>32
     DEF CallStep

\* What each action of a recovery does to it.
LEMMA RecoveryStepOwn ==
  ASSUME IInv, IInv', PromiseInv, PromiseInv', AheadInv, OwnInv, RecoveryStep
  PROVE  OwnInv'
<1> USE NoJournalAssumption
    DEF OwnInv, AgreePayload, OwnMode, OwnReplace, OwnJournal, FailureOK, Agree, NewPcs,
        PlacingPcs,
        OpenPcs, Pcs, SendPcs, WaitPcs, RecoveryPcs, OtherPcs, Goto, IInv, TypeInv, JournalThere,
        ModeOK, RecoverOnlyPcs, Creating, PromiseInv, AheadInv, AgreeIntents
<1>1. CASE RecoverCreate
  <2>1. CASE Fail
    BY <1>1, <2>1, FailOwn DEF RecoverCreate
  <2>2. CASE Record([journal EXCEPT !.newVerified = TRUE], "commitNew") /\ ~Fail
    <3>1. /\ active' = journal' /\ journal' = [journal EXCEPT !.newVerified = TRUE]
          /\ pc' = "commitNew"
          /\ UNCHANGED <<target, original, incoming, verify, snapshot, moves, taken, back,
                      own, verifyOwn, mode, call, seen>>
      BY <1>1, <2>2 DEF RecoverCreate, Record, Save, device, aux
    <3>2. /\ pc = "recover"
          /\ journal.operation = "create"
          /\ ~journal.committed
          /\ verify # Absent
          /\ verify = journal.newDigest
      BY <1>1, <2>2 DEF RecoverCreate, Record, Step, Fail, FailLabel, local
    <3>3. journal \in Journal /\ journal # NoJournal
      BY <3>2, JournalType
    <3>4. journal'.newVerified = TRUE /\ SameExcept(journal', journal, {"newVerified"})
      BY <3>1, <3>3, FieldUpdates
    <3>5. AgreePayload' /\ OwnMode' /\ FailureOK'
      BY <3>1, <3>2, <3>3, <3>4 DEF SameExcept
    <3>6. OwnJournal'
      BY <3>1, <3>2, <3>3, <3>4 DEF SameExcept
    <3> QED BY <3>5, <3>6
  <2>3. CASE /\ verify = Absent
             /\ journal.newVerified
             /\ Record([journal EXCEPT !.committed = TRUE], "recovered")
             /\ ~Fail
    <3>1. /\ active' = journal' /\ journal' = [journal EXCEPT !.committed = TRUE]
          /\ pc' = "recovered"
          /\ UNCHANGED <<target, original, incoming, verify, snapshot, moves, taken, back,
                      own, verifyOwn, mode, call, seen>>
      BY <1>1, <2>3 DEF RecoverCreate, Record, Save, device, aux
    <3>2. /\ pc = "recover"
          /\ journal.operation = "create"
          /\ verify = Absent /\ journal.newVerified
      BY <1>1, <2>3 DEF RecoverCreate
    <3>3. journal \in Journal /\ journal # NoJournal
      BY <3>2, JournalType
    <3>4. journal'.committed = TRUE /\ SameExcept(journal', journal, {"committed"})
      BY <3>1, <3>3, FieldUpdates
    <3>5. AgreePayload' /\ OwnMode' /\ FailureOK'
      BY <3>1, <3>2, <3>3, <3>4 DEF SameExcept
    <3>6. OwnJournal'
      BY <3>1, <3>2, <3>3, <3>4 DEF SameExcept
    <3> QED BY <3>5, <3>6
  <2>4. CASE pc' = "recovered" /\ UNCHANGED local
    <3>1. /\ UNCHANGED <<target, original, verify, snapshot, moves, taken, back, own, verifyOwn,
                        active, journal, mode, call, seen>>
          /\ incoming' \in {incoming, Absent}
      BY <1>1, <2>4 DEF RecoverCreate, Step, Record, Fail, FailLabel, device, local, aux
    <3>2. pc = "recover" /\ journal.operation = "create"
      BY <1>1 DEF RecoverCreate
    <3> QED BY <2>4, <3>1, <3>2
  <2> QED BY <1>1, <2>1, <2>2, <2>3, <2>4 DEF RecoverCreate, Step
<1>2. CASE RecoverCreateProbe
  BY <1>2, JournalType, CallFields DEF RecoverCreateProbe, local, aux
<1>3. CASE RecoverKnownFile
  <2>1. CASE Fail
    BY <1>3, <2>1, FailOwn DEF RecoverKnownFile
  <2>2. CASE pc' = "recovered" /\ ~Fail
    <3>1. UNCHANGED <<target, original, incoming, verify, snapshot, moves, taken, back,
                      own, verifyOwn, active, journal, mode, call>>
      BY <1>3, <2>2 DEF RecoverKnownFile, Step, device, local, aux
    <3>2. /\ pc = "recover"
          /\ pc' = "recovered"
          /\ ~journal.originalMoveIntent
      BY <1>3, <2>2 DEF RecoverKnownFile, Step
    <3> QED BY <3>1, <3>2
  <2>3. CASE pc' = "slots" /\ ~Fail
    <3>1. UNCHANGED <<target, original, incoming, verify, snapshot, moves, taken, back,
                      own, verifyOwn, active, journal, mode, call>>
      BY <1>3, <2>3 DEF RecoverKnownFile, Step, device, local, aux
    <3>2. /\ pc = "recover"
          /\ pc' = "slots"
          /\ ~Creating
          /\ seen' = [original |-> original # Absent, incoming |-> incoming # Absent,
                      verify |-> verify # Absent, target |-> Unknown]
      BY <1>3, <2>3 DEF RecoverKnownFile, Step
    <3> QED BY <3>1, <3>2
  <2> QED BY <1>3, <2>1, <2>2, <2>3 DEF RecoverKnownFile, Step
<1>4. CASE RecoverSlots
  <2>1. CASE Fail
    BY <1>4, <2>1, FailOwn DEF RecoverSlots
  <2>2. CASE Step("interrupted") /\ ResumeReadBack(journal) /\ ~Fail
    <3>1. UNCHANGED <<target, original, incoming, verify, snapshot, moves, taken, back,
                      own, verifyOwn, active, journal, mode, call>>
      BY <1>4, <2>2 DEF RecoverSlots, Step, device, local, aux, ResumeReadBack, Resumable
    <3>2. /\ pc = "slots"
          /\ pc' = "interrupted"
          /\ seen' = seen
          /\ journal.operation = "replace"
          /\ ~journal.newVerified
          /\ journal.incomingPlaceIntent
          /\ ~seen.incoming
      BY <1>4, <2>2 DEF RecoverSlots, Step, ResumeReadBack, Resumable
    <3> QED BY <3>1, <3>2
  <2>3. CASE Step("place") /\ ResumePlacement(journal) /\ ~Fail
    <3>1. UNCHANGED <<target, original, incoming, verify, snapshot, moves, taken, back,
                      own, verifyOwn, active, journal, mode, call>>
      BY <1>4, <2>3 DEF RecoverSlots, Step, device, local, aux, ResumePlacement, Resumable
    <3>2. /\ pc = "slots"
          /\ pc' = "place"
          /\ seen' = seen
          /\ journal.operation = "replace"
          /\ journal.incomingPlaceIntent
          /\ seen.incoming
          /\ ~journal.committed
      BY <1>4, <2>3 DEF RecoverSlots, Step, ResumePlacement, Resumable
    <3> QED BY <3>1, <3>2
  <2>4. CASE Record([journal EXCEPT !.newVerified = TRUE], "commitNew") /\ ~Fail
    <3>1. /\ active' = journal' /\ journal' = [journal EXCEPT !.newVerified = TRUE]
          /\ pc' = "commitNew"
          /\ UNCHANGED <<target, original, incoming, verify, snapshot, moves, taken, back,
                      own, verifyOwn, mode, call, seen>>
      BY <1>4, <2>4 DEF RecoverSlots, Record, Save, device, aux
    <3>2. /\ pc = "slots"
          /\ journal.operation = "replace"
          /\ ~seen.incoming
          /\ journal.incomingPlaceIntent
          /\ ~journal.committed
      BY <1>4, <2>4
         DEF RecoverSlots, ResumeReturn, Resumable, Record, Step, ResumePlacement, ResumeReadBack
    <3>3. journal \in Journal /\ journal # NoJournal
      BY <3>2, JournalType
    <3>4. journal'.newVerified = TRUE /\ SameExcept(journal', journal, {"newVerified"})
      BY <3>1, <3>3, FieldUpdates
    <3>5. AgreePayload' /\ OwnMode' /\ FailureOK'
      BY <3>1, <3>2, <3>3, <3>4 DEF SameExcept
    <3>6. OwnJournal'
      BY <3>1, <3>2, <3>3, <3>4 DEF SameExcept
    <3> QED BY <3>5, <3>6
  <2>5. CASE pc' \in {"classify", "probe"} /\ ~Fail
    <3>1. UNCHANGED <<target, original, incoming, verify, snapshot, moves, taken, back,
                      own, verifyOwn, active, journal, mode, call>>
      BY <1>4, <2>5 DEF RecoverSlots, Step, device, local, aux, Record
    <3>2. /\ pc = "slots"
          /\ pc' \in {"classify", "probe"}
          /\ seen' = seen
          /\ journal.operation = "delete" => pc' = "classify"
      BY <1>4, <2>5 DEF RecoverSlots, Step, Record
    <3> QED BY <3>1, <3>2
  <2> QED BY <1>4, <2>1, <2>2, <2>3, <2>4, <2>5 DEF RecoverSlots, Step
<1>5. CASE Interrupted
  <2>1. CASE Fail
    BY <1>5, <2>1, FailOwn DEF Interrupted
  <2>2. CASE Record([journal EXCEPT !.verifyMoveIntent = TRUE], "resendReadBack") /\ ~Fail
    <3>1. /\ active' = journal' /\ journal' = [journal EXCEPT !.verifyMoveIntent = TRUE]
          /\ pc' = "resendReadBack"
          /\ UNCHANGED <<target, original, incoming, verify, snapshot, moves, taken, back,
                      own, verifyOwn, mode, call, seen>>
      BY <1>5, <2>2 DEF Interrupted, Record, Save, device, aux
    <3>2. /\ pc = "interrupted"
          /\ incoming = Absent
      BY <1>5, <2>2 DEF Interrupted, BothOriginalsValid
    <3>3. journal \in Journal /\ journal # NoJournal
      BY <3>2, JournalType
    <3>4. journal'.verifyMoveIntent = TRUE /\ SameExcept(journal', journal, {"verifyMoveIntent"})
      BY <3>1, <3>3, FieldUpdates
    <3>5. AgreePayload' /\ OwnMode' /\ FailureOK'
      BY <3>1, <3>2, <3>3, <3>4 DEF SameExcept
    <3>6. OwnJournal'
      BY <3>1, <3>2, <3>3, <3>4 DEF SameExcept
    <3> QED BY <3>5, <3>6
  <2> QED BY <1>5, <2>1, <2>2 DEF Interrupted
<1>6. CASE ResendReadBack
  BY <1>6, JournalType, CallFields DEF ResendReadBack, Send, Session, local, slots
<1>7. CASE RewaitVerify
  BY <1>7, JournalType, CallFields DEF RewaitVerify, Step, device, local, aux
<1>8. CASE RereadVerify
  <2>1. CASE Record([journal EXCEPT !.newVerified = TRUE], "commitNew")
    <3>1. /\ active' = journal' /\ journal' = [journal EXCEPT !.newVerified = TRUE]
          /\ pc' = "commitNew"
          /\ UNCHANGED <<target, original, incoming, verify, snapshot, moves, taken, back,
                      own, verifyOwn, mode, call, seen>>
      BY <1>8, <2>1 DEF RereadVerify, Record, Save, device, aux
    <3>2. /\ pc = "rereadVerify"
      BY <1>8, <2>1 DEF RereadVerify
    <3>3. journal \in Journal /\ journal # NoJournal
      BY <3>2, JournalType
    <3>4. journal'.newVerified = TRUE /\ SameExcept(journal', journal, {"newVerified"})
      BY <3>1, <3>3, FieldUpdates
    <3>5. AgreePayload' /\ OwnMode' /\ FailureOK'
      BY <3>1, <3>2, <3>3, <3>4 DEF SameExcept
    <3>6. OwnJournal'
      BY <3>1, <3>2, <3>3, <3>4 DEF SameExcept
    <3> QED BY <3>5, <3>6
  <2>2. CASE Record([journal EXCEPT !.readBackMismatch = TRUE], "mismatch")
    <3>1. /\ active' = journal' /\ journal' = [journal EXCEPT !.readBackMismatch = TRUE]
          /\ pc' = "mismatch"
          /\ UNCHANGED <<target, original, incoming, verify, snapshot, moves, taken, back,
                      own, verifyOwn, mode, call, seen>>
      BY <1>8, <2>2 DEF RereadVerify, Record, Save, device, aux
    <3>2. /\ pc = "rereadVerify"
      BY <1>8, <2>2 DEF RereadVerify
    <3>3. journal \in Journal /\ journal # NoJournal
      BY <3>2, JournalType
    <3>4. journal'.readBackMismatch = TRUE /\ SameExcept(journal', journal, {"readBackMismatch"})
      BY <3>1, <3>3, FieldUpdates
    <3>5. AgreePayload' /\ OwnMode' /\ FailureOK'
      BY <3>1, <3>2, <3>3, <3>4 DEF SameExcept
    <3>6. OwnJournal'
      BY <3>1, <3>2, <3>3, <3>4 DEF SameExcept
    <3> QED BY <3>5, <3>6
  <2> QED BY <1>8, <2>1, <2>2 DEF RereadVerify
<1>9. CASE Mismatch
  BY <1>9, JournalType, CallFields DEF Mismatch, FailLabel, Session, local, slots
<1>10. CASE ProbeTarget
  <2>1. CASE Fail
    BY <1>10, <2>1, FailOwn DEF ProbeTarget
  <2>2. CASE ~Fail
    <3>1. PICK presence \in Presence :
            /\ seen' = [seen EXCEPT !.target = presence]
            /\ pc' = (IF ~SafeOriginalReturn(journal, presence) THEN "classify"
                     ELSE IF seen.incoming THEN "discard" ELSE "checkReturn")
      BY <1>10, <2>2 DEF ProbeTarget
    <3>2. /\ UNCHANGED <<target, original, incoming, verify, snapshot, moves, taken, back,
                        own, verifyOwn, active, journal, mode, call>>
          /\ pc = "probe"
      BY <1>10, <2>2 DEF ProbeTarget, device, local, aux
    <3>3. /\ seen'.original = seen.original
          /\ seen'.incoming = seen.incoming
          /\ seen'.verify = seen.verify
      BY <3>1 DEF TypeOK, Seen
    <3>4. \/ pc' = "classify"
          \/ /\ pc' \in {"discard", "checkReturn"} /\ seen.original /\ ~journal.originalReturned
             /\ ~journal.newVerified /\ ~journal.committed
      BY <3>1 DEF SafeOriginalReturn
    <3> QED BY <3>2, <3>3, <3>4
  <2> QED BY <2>1, <2>2
<1>11. CASE Discard
  BY <1>11, JournalType, CallFields DEF Discard, Step, device, local, aux
<1>12. CASE Discarded
  <2>1. /\ active' = journal' /\ journal' = [journal EXCEPT !.incomingPlaceIntent = FALSE]
        /\ pc' = "checkReturn" /\ pc = "discarded"
        /\ UNCHANGED <<target, original, incoming, verify, snapshot, moves, taken, back,
                      own, verifyOwn, mode, call, seen>>
    BY <1>12 DEF Discarded, Record, Save, device, aux
  <2>2. journal \in Journal /\ journal # NoJournal
    BY <2>1, JournalType
  <2>3. /\ journal'.incomingPlaceIntent = FALSE
        /\ SameExcept(journal', journal, {"incomingPlaceIntent"})
    BY <2>1, <2>2, FieldUpdates
  <2>5. AgreePayload' /\ OwnMode' /\ FailureOK'
    BY <2>1, <2>2, <2>3 DEF SameExcept
  <2>6. OwnJournal'
    BY <2>1, <2>2, <2>3 DEF SameExcept
  <2> QED BY <2>5, <2>6
<1>13. CASE CloseDelete
  <2>1. CASE Fail
    BY <1>13, <2>1, FailOwn DEF CloseDelete
  <2>2. CASE Step("recovered") /\ ~Fail
    <3>1. UNCHANGED <<target, original, incoming, verify, snapshot, moves, taken, back,
                      own, verifyOwn, active, journal, mode, call>>
      BY <1>13, <2>2
         DEF CloseDelete, Step, device, local, aux, BothOriginalsValid, LocalOriginalValid,
             Fail, FailLabel
    <3>2. /\ pc = "classify"
          /\ pc' = "recovered"
          /\ journal.operation = "delete"
          /\ journal.committed
          /\ journal.captured # Absent
          /\ snapshot = journal.captured
      BY <1>13, <2>2
         DEF CloseDelete, Step, BothOriginalsValid, LocalOriginalValid, Fail, FailLabel
    <3> QED BY <3>1, <3>2
  <2> QED BY <1>13, <2>1, <2>2 DEF CloseDelete
<1>14. CASE CloseReturned
  <2>1. CASE Fail
    BY <1>14, <2>1, FailOwn DEF CloseReturned
  <2>2. CASE Step("recovered") /\ ~Fail
    <3>1. UNCHANGED <<target, original, incoming, verify, snapshot, moves, taken, back,
                      own, verifyOwn, active, journal, mode, call>>
      BY <1>14, <2>2 DEF CloseReturned, Step, device, local, aux, OpenReturn, Record, Save
    <3>2. /\ pc = "classify"
          /\ pc' = "recovered"
          /\ ~seen.original
          /\ journal.originalReturned \/ (journal.originalObserved /\ journal.returnOriginalIntent)
      BY <1>14, <2>2 DEF CloseReturned, Step, OpenReturn, Record, Save
    <3> QED BY <3>1, <3>2
  <2>3. CASE Record([journal EXCEPT !.originalReturned = TRUE], "recovered") /\ ~Fail
    <3>1. /\ active' = journal' /\ journal' = [journal EXCEPT !.originalReturned = TRUE]
          /\ pc' = "recovered"
          /\ UNCHANGED <<target, original, incoming, verify, snapshot, moves, taken, back,
                      own, verifyOwn, mode, call, seen>>
      BY <1>14, <2>3 DEF CloseReturned, Record, Save, device, aux
    <3>2. /\ pc = "classify"
          /\ ~seen.original
          /\ journal.originalReturned \/ (journal.originalObserved /\ journal.returnOriginalIntent)
          /\ ~(journal.operation = "delete" /\ journal.committed)
      BY <1>14, <2>3 DEF CloseReturned, OpenReturn, Record, Step
    <3>3. journal \in Journal /\ journal # NoJournal
      BY <3>2, JournalType
    <3>4. journal'.originalReturned = TRUE /\ SameExcept(journal', journal, {"originalReturned"})
      BY <3>1, <3>3, FieldUpdates
    <3>5. AgreePayload' /\ OwnMode' /\ FailureOK'
      BY <3>1, <3>2, <3>3, <3>4 DEF SameExcept
    <3>6. OwnJournal'
      BY <3>1, <3>2, <3>3, <3>4 DEF SameExcept
    <3> QED BY <3>5, <3>6
  <2> QED BY <1>14, <2>1, <2>2, <2>3 DEF CloseReturned
<1>15. CASE ConfirmCommit
  <2>1. CASE Record([journal EXCEPT !.committed = TRUE], "classify")
    <3>1. /\ active' = journal' /\ journal' = [journal EXCEPT !.committed = TRUE]
          /\ pc' = "classify"
          /\ UNCHANGED <<target, original, incoming, verify, snapshot, moves, taken, back,
                      own, verifyOwn, mode, call, seen>>
      BY <1>15, <2>1 DEF ConfirmCommit, Record, Save, device, aux
    <3>2. /\ pc = "classify"
          /\ journal.operation # "delete"
          /\ journal.returnNewIntent
          /\ journal.newVerified
          /\ ~seen.verify
      BY <1>15, <2>1 DEF ConfirmCommit, OpenCommit
    <3>3. journal \in Journal /\ journal # NoJournal
      BY <3>2, JournalType
    <3>4. journal'.committed = TRUE /\ SameExcept(journal', journal, {"committed"})
      BY <3>1, <3>3, FieldUpdates
    <3>5. AgreePayload' /\ OwnMode' /\ FailureOK'
      BY <3>1, <3>2, <3>3, <3>4 DEF SameExcept
    <3>6. OwnJournal'
      BY <3>1, <3>2, <3>3, <3>4 DEF SameExcept
    <3> QED BY <3>5, <3>6
  <2> QED BY <1>15, <2>1 DEF ConfirmCommit
<1>16. CASE CloseCommitted
  <2>1. CASE Fail
    BY <1>16, <2>1, FailOwn DEF CloseCommitted
  <2>2. CASE (Step("recovered") \/ Step("dropOriginal")) /\ ~Fail
    <3>1. UNCHANGED <<target, original, incoming, verify, snapshot, moves, taken, back,
                      own, verifyOwn, active, journal, mode, call>>
      BY <1>16, <2>2
         DEF CloseCommitted, Step, device, local, aux, LocalOriginalValid, Fail, FailLabel
    <3>2. /\ pc = "classify"
          /\ pc' = "dropOriginal" \/ (pc' = "recovered" /\ ~seen.original)
          /\ journal.committed
          /\ journal.captured # Absent
          /\ snapshot = journal.captured
          /\ journal.operation # "delete"
      BY <1>16, <2>2 DEF CloseCommitted, Step, LocalOriginalValid, Fail, FailLabel
    <3> QED BY <3>1, <3>2
  <2> QED BY <1>16, <2>1, <2>2 DEF CloseCommitted
<1>17. CASE DropOriginal
  BY <1>17, JournalType, CallFields DEF DropOriginal, local, aux
<1>18. CASE RestoreOrPend
  <2>1. CASE Fail
    BY <1>18, <2>1, FailOwn DEF RestoreOrPend
  <2>2. CASE Record([journal EXCEPT !.originalObserved = TRUE], "forceReturn") /\ ~Fail
    <3>1. /\ active' = journal' /\ journal' = [journal EXCEPT !.originalObserved = TRUE]
          /\ pc' = "forceReturn"
          /\ UNCHANGED <<target, original, incoming, verify, snapshot, moves, taken, back,
                      own, verifyOwn, mode, call, seen>>
      BY <1>18, <2>2 DEF RestoreOrPend, Record, Save, device, aux
    <3>2. /\ pc = "classify"
          /\ seen.original
          /\ ~journal.committed
          /\ mode = "restore"
      BY <1>18, <2>2 DEF RestoreOrPend, Explicit
    <3>3. journal \in Journal /\ journal # NoJournal
      BY <3>2, JournalType
    <3>4. journal'.originalObserved = TRUE /\ SameExcept(journal', journal, {"originalObserved"})
      BY <3>1, <3>3, FieldUpdates
    <3>5. AgreePayload' /\ OwnMode' /\ FailureOK'
      BY <3>1, <3>2, <3>3, <3>4 DEF SameExcept
    <3>6. OwnJournal'
      BY <3>1, <3>2, <3>3, <3>4 DEF SameExcept
    <3> QED BY <3>5, <3>6
  <2> QED BY <1>18, <2>1, <2>2 DEF RestoreOrPend
<1>19. CASE RestoreRecovered
  <2>1. /\ pc = "recovered" /\ mode = "restore" /\ mode' = "finish" /\ pc' = "recover"
        /\ journal' = active /\ active' = active /\ call' = [call EXCEPT !.ok = TRUE]
    BY <1>19 DEF RestoreRecovered, Explicit
  <2>2. ~call.prepared /\ call'.prepared = call.prepared
    BY <2>1, CallFields
  <2> QED BY <2>1, <2>2
<1>20. CASE CleanGeneratedStage
  BY <1>20, JournalType, CallFields DEF CleanGeneratedStage, local, aux, slots
<1>21. CASE RemoveActive
  <2>1. /\ pc = "close" /\ pc' \in {"prepare", "report"} /\ active' = NoJournal
        /\ UNCHANGED <<taken, back, mode>>
    BY <1>21 DEF RemoveActive, device, aux
  <2>2. /\ call'.kind = call.kind /\ call'.data = call.data /\ call'.prepared = call.prepared
        /\ mode # "prepare" /\ CompletedWriteMatches(journal) => call'.ok
    BY <1>21, CallFields DEF RemoveActive, TypeOK, Call
  <2>3. AgreePayload' /\ OwnMode' /\ OwnJournal'
    BY <2>1, <2>2
  <2>4. OwnReplace => taken = Absent \/ back \/ CompletedWriteMatches(journal)
    BY <2>1 DEF LabelsOK, FlagsOK, Untaken, GivenUp, CompletedWriteMatches
  <2>5. FailureOK'
    BY <2>1, <2>2, <2>4
  <2> QED BY <2>3, <2>5
<1> QED
  BY <1>1, <1>2, <1>3, <1>4, <1>5, <1>6, <1>7, <1>8, <1>9, <1>10, <1>11, <1>12, <1>13, <1>14,
      <1>15, <1>16, <1>17, <1>18, <1>19, <1>20, <1>21
     DEF RecoveryStep

\* The callers, the worker and the device.
LEMMA OtherStepOwn ==
  ASSUME IInv, IInv', PromiseInv, PromiseInv', AheadInv, OwnInv, [Next]_vars, ~CallStep,
           ~RecoveryStep
  PROVE  OwnInv'
<1> USE NoJournalAssumption
    DEF OwnInv, AgreePayload, OwnMode, OwnReplace, OwnJournal, FailureOK, Agree, NewPcs,
        PlacingPcs,
        OpenPcs, Pcs, SendPcs, WaitPcs, RecoveryPcs, OtherPcs, Goto, IInv, TypeInv, JournalThere,
        ModeOK, RecoverOnlyPcs, Creating, PromiseInv, AheadInv, AgreeIntents
<1>1. ASSUME NEW k \in Kinds, NEW d \in File, BeginCall(k, d) PROVE OwnInv'
  BY <1>1 DEF BeginCall, device, aux
<1>2. CASE BeginRestore
  BY <1>2, JournalType, CallFields DEF BeginRestore, device, aux, NoCall
<1>3. CASE IoError
  <2>1. CASE Fail
    BY <1>3, <2>1, FailOwn DEF IoError
  <2>2. CASE pc \in {"discard", "discarded"} /\ Step("classify")
    BY <2>2 DEF Step, device, local, aux
  <2> QED BY <1>3, <2>1, <2>2 DEF IoError
<1>4. CASE WaitTimeout
  BY <1>4, JournalType, CallFields DEF WaitTimeout, Fail, FailLabel, device, local, aux
<1>5. CASE Crash
  BY <1>5, JournalType, CallFields DEF Crash, device, aux, NoCall
<1>6. CASE ExecuteMove
  <2>1. /\ moves \in Queues /\ moves # <<>>
        /\ UNCHANGED <<active, journal, pc, mode, call>>
        /\ back => back'
        /\ taken' = taken \/ Head(moves) = "toOriginal"
    BY <1>6 DEF ExecuteMove, TypeOK, local, worker
  <2>2. Head(moves) = "toOriginal" => active # NoJournal
    BY <2>1, QueueParts DEF ClosingOK, UnderWay
  <2> QED BY <2>1, <2>2
<1>7. CASE DropMove
  BY <1>7, JournalType, CallFields DEF DropMove, local, worker, aux, slots
<1>8. CASE AppWrites
  BY <1>8, JournalType, CallFields DEF AppWrites, local, worker, slots
<1>9. CASE Settle
  BY <1>9, JournalType, CallFields DEF Settle, device, local, worker, aux
<1>10. CASE UNCHANGED vars
  BY <1>10 DEF vars, device, local, worker, aux
<1> QED
  BY <1>1, <1>2, <1>3, <1>4, <1>5, <1>6, <1>7, <1>8, <1>9, <1>10
     DEF Next, Begin, Worker, Device

\* The inductive invariant of the replacements.
LEMMA OwnInvariant == Spec => []OwnInv
<1>1. Init => OwnInv
  BY DEF Init, OwnInv, AgreePayload, OwnMode, OwnReplace, OwnJournal, FailureOK, OpenPcs, NoCall
<1>2. IInv /\ IInv' /\ PromiseInv /\ PromiseInv' /\ AheadInv /\ OwnInv /\ [Next]_vars => OwnInv'
  BY CallStepOwn, RecoveryStepOwn, OtherStepOwn
<1> QED BY <1>1, <1>2, PromiseInvariant, AheadInvariant, PTL DEF Spec

\* A replacement that reports failure and leaves no journal changed nothing for
\* good: the original was never taken or went back.
THEOREM FailedReplacement == Spec => []FailureLeavesOriginal
<1>1. OwnInv => FailureLeavesOriginal
  BY DEF OwnInv, FailureOK, FailureLeavesOriginal
<1> QED BY <1>1, OwnInvariant, PTL

-----------------------------------------------------------------------------
(***************************************************************************)
(* What an automatic move replaces                                         *)
(***************************************************************************)
\* No move of the payload's slots fills the path of the application: it is not
\* under way, or it has nothing to move.
NothingPlaced ==
  /\ UnderWay("place") => incoming = Absent
  /\ UnderWay("return") => verify = Absent

\* The path is free, or the original is no longer there to be moved to it.
FreeForOriginal == target = Absent \/ original = Absent

\* While the return of an original or a creation is under way, or a return is
\* about to be sent, the path is free unless the application wrote, or the
\* user confirmed.
PathOK ==
  /\ active # NoJournal /\ ~excused =>
       /\ UnderWay("fromOriginal") \/ pc = "sendReturn" => FreeForOriginal
       /\ active.operation \in {"create", "createProbe"} /\ target # Absent =>
            ~UnderWay("place") /\ ~UnderWay("return")

\* What the worker knows of the moves under way at the labels before a return
\* and around a placement.
ReturningOK ==
  /\ pc \in {"checkReturn", "discarded"} => NothingPlaced
  /\ pc = "sendReturn" => NothingPlaced \/ excused
  /\ pc = "forceReturn" => Explicit
  /\ pc = "waitNew" => ~UnderWay("place")
  /\ pc \in {"place", "sendPlacement"} => ~Creating

\* Labels between the look at the slots and the check before a return.
LookedPcs == {"slots", "probe", "discard"}

\* What a recovery saw in the slots of the payload stays so while nothing is sent.
LookOK ==
  pc \in LookedPcs =>
    /\ ~seen.incoming /\ UnderWay("place") => incoming = Absent
    /\ ~seen.verify /\ UnderWay("return") => verify = Absent
    /\ pc = "discard" => ~seen.verify

\* Labels at which an absent path is told from a missing link.
LinkedPcs == TakingPcs \cup {"discard", "discarded", "checkReturn"}
LinkThere == pc \in LinkedPcs => link

BlindInv == PathOK /\ ReturningOK /\ LookOK /\ LinkThere

\* Labels that promise something of the path, of the slots or of the link.
PathPcs == {"checkReturn", "discarded", "sendReturn", "forceReturn", "waitNew", "place",
            "sendPlacement"} \cup LookedPcs

\* A step that fills neither the path nor a slot, and enters no such label.
Undisturbed ==
  /\ UNCHANGED <<target, original, moves, excused>>
  /\ incoming' \in {incoming, Absent} /\ verify' \in {verify, Absent}
  /\ active' # NoJournal => active # NoJournal /\ active'.operation = active.operation
  /\ pc' \notin PathPcs
  /\ pc' \in LinkedPcs => pc \in LinkedPcs /\ link' = link

\* It keeps what is said of the path.
LEMMA UndisturbedBlind ==
  ASSUME BlindInv, Undisturbed
  PROVE  BlindInv'
<1>1. PathOK'
  BY DEF BlindInv, PathOK, Undisturbed, FreeForOriginal, UnderWay, PathPcs
<1>2. ReturningOK' /\ LookOK'
  BY DEF Undisturbed, ReturningOK, LookOK, PathPcs
<1>3. LinkThere'
  BY DEF BlindInv, LinkThere, Undisturbed
<1> QED BY <1>1, <1>2, <1>3 DEF BlindInv

\* A step that only moves the worker.
LEMMA StepBlind ==
  ASSUME BlindInv, NEW label, Step(label), label \notin PathPcs,
         label \in LinkedPcs => pc \in LinkedPcs
  PROVE  BlindInv'
<1>1. Undisturbed
  BY DEF Undisturbed, Step, Goto, device, local, aux
<1> QED BY <1>1, UndisturbedBlind

\* A failure.
LEMMA FailBlind ==
  ASSUME BlindInv, Fail
  PROVE  BlindInv'
<1>1. Undisturbed
  BY DEF Undisturbed, Fail, FailLabel, Goto, device, local, aux, PathPcs, LookedPcs, LinkedPcs,
         TakingPcs
<1> QED BY <1>1, UndisturbedBlind

\* A step that saves another state of the same transaction.
LEMMA RecordBlind ==
  ASSUME IInv, PromiseInv, BlindInv, pc \in OpenPcs, NEW j, NEW label, Record(j, label),
         SameFile(j, journal), label \notin PathPcs, label \in LinkedPcs => pc \in LinkedPcs
  PROVE  BlindInv'
<1>1. active' = j /\ j.operation = active.operation /\ active # NoJournal
  BY DEF Record, Save, SameFile, PromiseInv, Agree, IInv, TypeInv, JournalThere
<1>2. Undisturbed
  BY <1>1 DEF Undisturbed, Record, Goto, device, aux
<1> QED BY <1>2, UndisturbedBlind

\* The journal on disk and the one in memory are of the same operation, and
\* what is saved of it is of this operation too.
LEMMA SavedOperation ==
  ASSUME IInv, PromiseInv, pc \in OpenPcs
  PROVE  /\ journal \in Journal /\ active \in Journal
         /\ active.operation = journal.operation
         /\ active # NoJournal
  BY JournalType DEF IInv, TypeInv, JournalThere, PromiseInv, Agree

\* What is under way after the device has executed or dropped a move.
LEMMA TailMoves ==
  ASSUME moves \in Queues, moves # <<>>, moves' = Tail(moves)
  PROVE  /\ \A m \in FillsTarget : ~UnderWay(m)'
         /\ Head(moves) \in Moves /\ UnderWay(Head(moves))
<1>1. CASE moves = <<"place", "readBack">>
  <2>1. Head(moves) = "place" /\ moves' = <<"readBack">> /\ moves[1] = "place"
    BY <1>1
  <2> QED BY <1>1, <2>1 DEF Moves, UnderWay, FillsTarget
<1>2. CASE \E m \in Moves : moves = <<m>>
  <2>1. PICK m \in Moves : moves = <<m>>
    BY <1>2
  <2>2. moves' = <<>> /\ Head(moves) = m /\ moves[1] = m
    BY <2>1
  <2> QED BY <2>1, <2>2 DEF UnderWay
<1> QED BY <1>1, <1>2 DEF Queues

\* The steps of a call.
LEMMA CallStepBlind ==
  ASSUME IInv, PromiseInv, AheadInv, BlindInv, CallStep
  PROVE  BlindInv'
<1> USE NoJournalAssumption DEF PathPcs, LookedPcs, LinkedPcs, TakingPcs, OpenPcs, Pcs, SendPcs,
        WaitPcs, RecoveryPcs, OtherPcs
<1>t. TypeOK
  BY DEF IInv, TypeInv
<1>s. ASSUME NEW m \in Moves \ FillsTarget, NEW from, NEW label,
             Send(from, m, label), excused' = excused, label \notin PathPcs,
             label \in LinkedPcs => from \in LinkedPcs
      PROVE  BlindInv'
  <2>1. /\ moves' = <<m>> /\ m \notin FillsTarget
        /\ UNCHANGED <<target, original, link, active, excused>>
        /\ pc = from /\ pc' = label
    BY <1>s DEF Send, Goto, slots, local
  <2>2. \A f \in FillsTarget : ~UnderWay(f)'
    BY <2>1 DEF UnderWay
  <2> QED BY <1>s, <2>1, <2>2
          DEF BlindInv, PathOK, ReturningOK, LookOK, LinkThere, FillsTarget
<1>f. ASSUME pc' \notin PathPcs, pc' \notin LinkedPcs, UNCHANGED <<device, active, excused>>
      PROVE  BlindInv'
  <2>1. Undisturbed
    BY <1>f DEF Undisturbed, device
  <2> QED BY <2>1, UndisturbedBlind
<1>1. CASE PrepareKnownFile
  <2>1. /\ moves' = <<>> /\ pc' \in {"opened", "finish"} /\ (pc' = "opened" => link')
    BY <1>1 DEF PrepareKnownFile, Session, Goto
  <2>2. \A m : ~UnderWay(m)'
    BY <2>1 DEF UnderWay
  <2> QED BY <2>1, <2>2 DEF BlindInv, PathOK, ReturningOK, LookOK, LinkThere
<1>2. CASE OpenReplace
  <2>1. CASE ConfirmsAbsence /\ Goto("stage") /\ UNCHANGED device
    <3>1. target' = Absent /\ pc' = "stage"
      BY <2>1 DEF ConfirmsAbsence, Goto, device
    <3> QED BY <3>1 DEF BlindInv, PathOK, ReturningOK, LookOK, LinkThere, FreeForOriginal
  <2>2. CASE Goto("observe") /\ UNCHANGED <<device, active, excused>>
    <3>1. Undisturbed
      BY <1>2, <2>2 DEF Undisturbed, Goto, device, OpenReplace
    <3> QED BY <3>1, UndisturbedBlind
  <2> QED BY <1>2, <2>1, <2>2 DEF OpenReplace
<1>3. CASE OpenCreateProbe
  <2>1. CASE Fail
    BY <2>1, FailBlind
  <2>2. CASE ConfirmsAbsence /\ Goto("stage") /\ UNCHANGED device
    <3>1. target' = Absent /\ pc' = "stage"
      BY <2>2 DEF ConfirmsAbsence, Goto, device
    <3> QED BY <3>1 DEF BlindInv, PathOK, ReturningOK, LookOK, LinkThere, FreeForOriginal
  <2> QED BY <1>3, <2>1, <2>2 DEF OpenCreateProbe
<1>4. CASE OpenReadOrDelete
  <2>1. CASE Step("observe")
    BY <1>4, <2>1, StepBlind DEF OpenReadOrDelete
  <2>2. CASE Goto("finish") /\ UNCHANGED <<device, local, aux>>
    BY <1>f, <2>2 DEF Goto, local, aux
  <2> QED BY <1>4, <2>1, <2>2 DEF OpenReadOrDelete
<1>5. CASE ObserveKnownOriginal
  <2>1. CASE Fail
    BY <2>1, FailBlind
  <2>2. CASE Record([journal EXCEPT !.originalMoveIntent = TRUE], "sendOriginal")
    BY <1>5, <2>2, RecordBlind, SavedOperation, JournalKeeps DEF ObserveKnownOriginal
  <2> QED BY <1>5, <2>1, <2>2 DEF ObserveKnownOriginal
<1>6. CASE SendOriginal
  BY <1>6, <1>s DEF SendOriginal, Moves, FillsTarget
<1>7. CASE WaitOriginal
  BY <1>7, RecordBlind, SavedOperation, JournalKeeps DEF WaitOriginal
<1>8. CASE ReadOriginal
  <2>1. Undisturbed
    BY <1>8 DEF ReadOriginal, Undisturbed, Goto, device, aux
  <2> QED BY <2>1, UndisturbedBlind
<1>9. ASSUME pc \in {"readOriginal", "persist"}, pc' = "checkReturn",
             UNCHANGED <<device, aux>>, active'.operation = active.operation
      PROVE  BlindInv'
  <2>1. /\ link' /\ UNCHANGED <<target, original, incoming, verify, moves, excused>>
        /\ moves \in {<<>>, <<"toOriginal">>} /\ active # NoJournal
    BY <1>9, SavedOperation DEF BlindInv, LinkThere, device, aux, PromiseInv, DeleteOK
  <2>2. \A m \in FillsTarget : ~UnderWay(m)'
    BY <2>1 DEF UnderWay, FillsTarget
  <2> QED BY <1>9, <2>1, <2>2
          DEF BlindInv, PathOK, ReturningOK, NothingPlaced, LookOK, LinkThere, FillsTarget
<1>10. CASE PersistKnownOriginal
  <2>1. /\ active'.operation = active.operation /\ UNCHANGED <<device, aux>> /\ pc = "persist"
        /\ pc' \in {"checkReturn", "stage", "commitDelete", "finish"} /\ active # NoJournal
    BY <1>10, SavedOperation DEF PersistKnownOriginal, Save, Journal, Goto
  <2>2. CASE pc' = "checkReturn"
    BY <1>9, <2>1, <2>2
  <2>3. CASE pc' # "checkReturn"
    <3>1. Undisturbed
      BY <2>1, <2>3 DEF Undisturbed, device, aux
    <3> QED BY <3>1, UndisturbedBlind
  <2> QED BY <2>2, <2>3
<1>11. CASE ReadWithoutData
  <2>1. [journal EXCEPT !.captured = snapshot].operation = journal.operation
        /\ active.operation = journal.operation
    BY <1>11, SavedOperation DEF ReadWithoutData, Journal
  <2>2. /\ pc \in {"readOriginal", "persist"} /\ pc' = "checkReturn" /\ UNCHANGED <<device, aux>>
        /\ active' \in {active, [journal EXCEPT !.captured = snapshot]}
    BY <1>11 DEF ReadWithoutData, Goto
  <2> QED BY <1>9, <2>1, <2>2
<1>12. CASE CheckReturn
  <2>1. CASE Fail
    BY <2>1, FailBlind
  <2>2. CASE SeesAbsent /\ Save([journal EXCEPT !.returnOriginalIntent = TRUE])
             /\ Goto("sendReturn") /\ UNCHANGED device
    <3>1. link
      BY <1>12 DEF CheckReturn, BlindInv, LinkThere
    <3>2. target' = Absent /\ pc' = "sendReturn" /\ pc = "checkReturn"
          /\ UNCHANGED <<moves, incoming, verify>>
      BY <1>12, <2>2, <3>1 DEF CheckReturn, SeesAbsent, Goto, device
    <3> QED BY <3>2 DEF BlindInv, PathOK, FreeForOriginal, ReturningOK, NothingPlaced, UnderWay,
                        LookOK, LinkThere
  <2> QED BY <1>12, <2>1, <2>2 DEF CheckReturn
<1>13. CASE ForceReturn
  <2>1. excused' = TRUE /\ pc' = "sendReturn"
    BY <1>13 DEF ForceReturn, BlindInv, ReturningOK, Goto, Explicit
  <2> QED BY <2>1 DEF BlindInv, PathOK, ReturningOK, LookOK, LinkThere
<1>14. CASE SendReturn
  <2>1. /\ moves' = <<"fromOriginal">> /\ pc' = "waitReturn" /\ pc = "sendReturn"
        /\ UNCHANGED <<target, original, active, excused>>
    BY <1>14 DEF SendReturn, Send, Goto, slots, local
  <2>2. ~UnderWay("place")' /\ ~UnderWay("return")'
    BY <2>1 DEF UnderWay
  <2> QED BY <2>1, <2>2 DEF BlindInv, PathOK, FreeForOriginal, ReturningOK, LookOK, LinkThere
<1>15. CASE WaitReturn
  BY <1>15, RecordBlind, SavedOperation, JournalKeeps DEF WaitReturn
<1>16. CASE Stage
  BY <1>16, <1>t, RecordBlind, SavedOperation, JournalKeeps, CallType DEF Stage, IInv
<1>17. CASE WriteKnownIncoming
  <2>1. /\ UNCHANGED <<target, original, moves, active, journal, excused>> /\ pc = "write"
        /\ pc' \in {"place", "create", "finish"}
        /\ pc' = "place" => journal.operation = "replace"
    BY <1>17 DEF WriteKnownIncoming, Goto, local, aux
  <2> QED BY <2>1 DEF BlindInv, PathOK, FreeForOriginal, ReturningOK, Creating, LookOK, LinkThere,
                      UnderWay
<1>18. CASE Place
  <2>1. CASE Fail
    BY <2>1, FailBlind
  <2>2. CASE Record([journal EXCEPT !.incomingPlaceIntent = TRUE, !.verifyMoveIntent = TRUE],
                    "sendPlacement")
    <3>1. /\ pc = "place" /\ journal \in Journal /\ active.operation = journal.operation
          /\ active # NoJournal
      BY <1>18, SavedOperation DEF Place
    <3>2. /\ journal'.operation = journal.operation /\ active' = journal'
          /\ pc' = "sendPlacement" /\ UNCHANGED <<target, original, moves, excused>>
      BY <2>2, <3>1, JournalKeeps DEF Record, Save, SameFile, Goto, device, aux
    <3> QED BY <3>1, <3>2 DEF BlindInv, PathOK, FreeForOriginal, ReturningOK, Creating, LookOK,
                              LinkThere, UnderWay
  <2> QED BY <1>18, <2>1, <2>2 DEF Place
<1>19. CASE SendPlacement
  <2>1. /\ UNCHANGED <<target, original, active, excused>> /\ pc = "sendPlacement"
        /\ moves' \in {<<"place", "readBack">>, <<"place">>}
        /\ pc' \in {"waitIncoming", "finish", "report"}
    BY <1>19 DEF SendPlacement, FailLabel, Goto, slots, local, aux
  <2>2. ~UnderWay("fromOriginal")'
    BY <2>1 DEF UnderWay
  <2>3. active.operation \notin {"create", "createProbe"}
    BY <2>1, SavedOperation DEF BlindInv, ReturningOK, Creating
  <2> QED BY <2>1, <2>2, <2>3 DEF BlindInv, PathOK, ReturningOK, LookOK, LinkThere
<1>20. CASE WaitIncoming
  BY <1>20, StepBlind DEF WaitIncoming
<1>21. CASE WaitVerify
  BY <1>21, StepBlind DEF WaitVerify
<1>22. CASE ReadVerify
  <2>1. CASE Fail
    BY <2>1, FailBlind
  <2>2. CASE Record([journal EXCEPT !.newVerified = TRUE], "commitNew")
    BY <1>22, <2>2, RecordBlind, SavedOperation, JournalKeeps DEF ReadVerify
  <2> QED BY <1>22, <2>1, <2>2 DEF ReadVerify
<1>23. CASE CommitNew
  BY <1>23, RecordBlind, SavedOperation, JournalKeeps DEF CommitNew
<1>24. CASE SendNew
  <2>1. CASE Fail
    BY <2>1, FailBlind
  <2>2. CASE ~Fail
    <3>1. /\ UNCHANGED <<target, original, active>> /\ pc = "sendNew"
          /\ moves' = <<"return">> /\ pc' = "waitNew"
          /\ excused' = (excused /\ ~Creating) /\ (Creating => target = Absent)
      BY <1>24, <2>2 DEF SendNew, Send, ConfirmsAbsence, Goto, slots, local
    <3>2. ~UnderWay("fromOriginal")' /\ ~UnderWay("place")'
      BY <3>1 DEF UnderWay
    <3>3. Creating <=> active.operation \in {"create", "createProbe"}
      BY <3>1, SavedOperation DEF Creating
    <3> QED BY <3>1, <3>2, <3>3 DEF BlindInv, PathOK, ReturningOK, LookOK, LinkThere
  <2> QED BY <2>1, <2>2
<1>25. CASE WaitNew
  <2>1. /\ pc = "waitNew" /\ verify = Absent /\ UNCHANGED <<device, excused>>
        /\ active'.operation = active.operation /\ active # NoJournal
        /\ pc' \in {"finish", "recovered", "probe"}
        /\ seen' = [seen EXCEPT !.incoming = FALSE, !.verify = FALSE]
    BY <1>25, SavedOperation, JournalKeeps DEF WaitNew, Save, SameFile, Goto, aux
  <2>2. ~UnderWay("place")' /\ verify' = Absent
    BY <2>1 DEF BlindInv, ReturningOK, UnderWay, device
  <2>3. PathOK'
    BY <2>1 DEF BlindInv, PathOK, FreeForOriginal, UnderWay, device
  <2> QED BY <2>1, <2>2, <2>3 DEF BlindInv, ReturningOK, LookOK, LinkThere
<1>26. CASE Create
  BY <1>26, RecordBlind, SavedOperation, JournalKeeps DEF Create
<1>27. CASE SendCreation
  <2>1. CASE Fail
    BY <2>1, FailBlind
  <2>2. CASE ~Fail
    <3>1. target' = Absent /\ pc' = "waitCreation"
      BY <1>27, <2>2 DEF SendCreation, Send, ConfirmsAbsence, Goto
    <3> QED BY <3>1 DEF BlindInv, PathOK, FreeForOriginal, ReturningOK, LookOK, LinkThere
  <2> QED BY <2>1, <2>2
<1>28. CASE WaitCreation
  BY <1>28, RecordBlind, SavedOperation, JournalKeeps DEF WaitCreation
<1>29. CASE SendReadBack
  BY <1>29, <1>s DEF SendReadBack, Moves, FillsTarget
<1>30. CASE CommitDelete
  <2>1. /\ active'.operation = active.operation /\ UNCHANGED <<device, excused>>
        /\ pc' = "finish" /\ active # NoJournal
    BY <1>30, SavedOperation DEF CommitDelete, Save, Journal, Goto, aux
  <2>2. Undisturbed
    BY <2>1 DEF Undisturbed, device
  <2> QED BY <2>2, UndisturbedBlind
<1>31. CASE CommitDeleteRefused
  BY <1>31, FailBlind DEF CommitDeleteRefused
<1>32. CASE Finish
  BY <1>f, <1>32 DEF Finish, Goto, aux
<1>33. CASE Report
  BY <1>f, <1>33 DEF Report, Goto, aux
<1> QED
  BY <1>1, <1>2, <1>3, <1>4, <1>5, <1>6, <1>7, <1>8, <1>10, <1>11, <1>12, <1>13, <1>14, <1>15,
     <1>16, <1>17, <1>18, <1>19, <1>20, <1>21, <1>22, <1>23, <1>24, <1>25, <1>26, <1>27, <1>28,
     <1>29, <1>30, <1>31, <1>32, <1>33 DEF CallStep

\* The steps of a recovery.
LEMMA RecoveryStepBlind ==
  ASSUME IInv, PromiseInv, AheadInv, BlindInv, RecoveryStep
  PROVE  BlindInv'
<1> USE NoJournalAssumption DEF PathPcs, LookedPcs, LinkedPcs, TakingPcs, OpenPcs, Pcs, SendPcs,
        WaitPcs, RecoveryPcs, OtherPcs
<1>t. TypeOK
  BY DEF IInv, TypeInv
<1>d. ASSUME UNCHANGED <<target, original, moves, active, excused>>, pc' = "recovered",
             incoming' \in {incoming, Absent}, verify' \in {verify, Absent}
      PROVE  BlindInv'
  <2>1. Undisturbed
    BY <1>d DEF Undisturbed
  <2> QED BY <2>1, UndisturbedBlind
\* A step that looks at the slots, or at what was seen of them.
<1>l. ASSUME UNCHANGED <<device, active, excused>>, pc' \in LookedPcs,
             pc' = "discard" => link, pc' = "discard" => ~seen'.verify,
             ~seen'.incoming /\ UnderWay("place") => incoming = Absent,
             ~seen'.verify /\ UnderWay("return") => verify = Absent
      PROVE  BlindInv'
  <2>1. PathOK'
    BY <1>l DEF BlindInv, PathOK, FreeForOriginal, UnderWay, device
  <2>2. LookOK'
    BY <1>l DEF LookOK, UnderWay, device
  <2>3. ReturningOK' /\ LinkThere'
    BY <1>l DEF ReturningOK, LinkThere, device
  <2> QED BY <2>1, <2>2, <2>3 DEF BlindInv
\* A step that goes to the check before a return.
<1>c. ASSUME UNCHANGED <<target, original, moves, verify, link, excused>>,
             incoming' \in {incoming, Absent}, active # NoJournal,
             active'.operation = active.operation,
             pc' \in {"checkReturn", "discarded"}, link, NothingPlaced'
      PROVE  BlindInv'
  BY <1>c DEF BlindInv, PathOK, FreeForOriginal, ReturningOK, LookOK, LinkThere, UnderWay
<1>1. CASE RecoverCreate
  <2>1. CASE Fail
    BY <2>1, FailBlind
  <2>2. CASE Step("recovered")
    BY <2>2, StepBlind
  <2>3. CASE Record([journal EXCEPT !.newVerified = TRUE], "commitNew")
    BY <1>1, <2>3, RecordBlind, SavedOperation, JournalKeeps DEF RecoverCreate
  <2>4. CASE Record([journal EXCEPT !.committed = TRUE], "recovered")
    BY <1>1, <2>4, RecordBlind, SavedOperation, JournalKeeps DEF RecoverCreate
  <2>5. CASE incoming' = Absent /\ Goto("recovered")
             /\ UNCHANGED <<target, original, verify, moves, local, aux>>
    BY <1>d, <2>5 DEF Goto, local, aux
  <2> QED BY <1>1, <2>1, <2>2, <2>3, <2>4, <2>5 DEF RecoverCreate
<1>2. CASE RecoverCreateProbe
  BY <1>2, <1>d DEF RecoverCreateProbe, Goto, local, aux
<1>3. CASE RecoverKnownFile
  <2>1. CASE Fail
    BY <2>1, FailBlind
  <2>2. CASE Step("recovered")
    BY <2>2, StepBlind
  <2>3. CASE ~Fail /\ ~Step("recovered")
    <3>1. /\ UNCHANGED <<device, active, excused>> /\ pc' = "slots"
          /\ seen'.incoming = (incoming # Absent) /\ seen'.verify = (verify # Absent)
      BY <1>3, <2>3 DEF RecoverKnownFile, Goto, local, aux
    <3> QED BY <1>l, <3>1
  <2> QED BY <2>1, <2>2, <2>3
<1>4. CASE RecoverSlots
  <2>1. CASE Fail
    BY <2>1, FailBlind
  <2>2. CASE Step("interrupted") \/ Step("classify")
    BY <2>2, StepBlind
  <2>3. CASE Record([journal EXCEPT !.newVerified = TRUE], "commitNew")
    BY <1>4, <2>3, RecordBlind, SavedOperation, JournalKeeps DEF RecoverSlots
  <2>4. CASE Step("place") /\ ResumePlacement(journal)
    <3>1. /\ UNCHANGED <<device, active, journal, excused>> /\ pc' = "place"
          /\ journal.operation = "replace"
      BY <2>4 DEF Step, Goto, local, aux, ResumePlacement, Resumable
    <3>2. PathOK'
      BY <3>1 DEF BlindInv, PathOK, FreeForOriginal, UnderWay, device
    <3> QED BY <3>1, <3>2 DEF BlindInv, ReturningOK, Creating, LookOK, LinkThere
  <2>5. CASE Step("probe")
    <3>1. UNCHANGED <<device, active, excused, seen>> /\ pc' = "probe" /\ pc = "slots"
      BY <1>4, <2>5 DEF RecoverSlots, Step, Goto, local, aux
    <3> QED BY <1>l, <3>1 DEF BlindInv, LookOK
  <2> QED BY <1>4, <2>1, <2>2, <2>3, <2>4, <2>5 DEF RecoverSlots
<1>5. CASE Interrupted
  <2>1. CASE Fail
    BY <2>1, FailBlind
  <2>2. CASE Record([journal EXCEPT !.verifyMoveIntent = TRUE], "resendReadBack")
    BY <1>5, <2>2, RecordBlind, SavedOperation, JournalKeeps DEF Interrupted
  <2> QED BY <1>5, <2>1, <2>2 DEF Interrupted
<1>6. CASE ResendReadBack
  <2>1. /\ moves' = <<"readBack">> /\ UNCHANGED <<target, original, active, excused>>
        /\ pc' = "rewaitVerify"
    BY <1>6 DEF ResendReadBack, Send, Goto, slots, local
  <2>2. \A f \in FillsTarget : ~UnderWay(f)'
    BY <2>1 DEF UnderWay, FillsTarget
  <2> QED BY <2>1, <2>2 DEF BlindInv, PathOK, ReturningOK, LookOK, LinkThere, FillsTarget
<1>7. CASE RewaitVerify
  BY <1>7, StepBlind DEF RewaitVerify
<1>8. CASE RereadVerify
  <2>1. CASE Record([journal EXCEPT !.newVerified = TRUE], "commitNew")
    BY <1>8, <2>1, RecordBlind, SavedOperation, JournalKeeps DEF RereadVerify
  <2>2. CASE Record([journal EXCEPT !.readBackMismatch = TRUE], "mismatch")
    BY <1>8, <2>2, RecordBlind, SavedOperation, JournalKeeps DEF RereadVerify
  <2> QED BY <1>8, <2>1, <2>2 DEF RereadVerify
<1>9. CASE Mismatch
  <2>1. pc' \in {"finish", "report"} /\ UNCHANGED <<target, original, incoming, verify, active>>
    BY <1>9 DEF Mismatch, FailLabel, Goto, slots, local
  <2>2. CASE target' = Absent
    BY <2>1, <2>2 DEF BlindInv, PathOK, FreeForOriginal, ReturningOK, LookOK, LinkThere
  <2>3. CASE UNCHANGED <<moves, excused>>
    <3>1. Undisturbed
      BY <2>1, <2>3 DEF Undisturbed
    <3> QED BY <3>1, UndisturbedBlind
  <2> QED BY <1>9, <2>1, <2>2, <2>3 DEF Mismatch, ConfirmsAbsence
<1>10. CASE ProbeTarget
  <2>1. CASE Fail
    BY <2>1, FailBlind
  <2>2. CASE ~Fail
    <3>1. PICK presence \in Presence :
            /\ seen' = [seen EXCEPT !.target = presence]
            /\ pc' = (IF ~SafeOriginalReturn(journal, presence) THEN "classify"
                     ELSE IF seen.incoming THEN "discard" ELSE "checkReturn")
      BY <1>10, <2>2 DEF ProbeTarget, Goto
    <3>2. UNCHANGED <<device, local, excused>> /\ link /\ pc = "probe"
      BY <1>10, <2>2 DEF ProbeTarget, aux
    <3>3. seen'.incoming = seen.incoming /\ seen'.verify = seen.verify
      BY <1>t, <3>1 DEF TypeOK, Seen
    <3>4. CASE pc' = "classify"
      <4>1. Undisturbed
        BY <3>2, <3>4, SavedOperation DEF Undisturbed, device, local
      <4> QED BY <4>1, UndisturbedBlind
    <3>5. CASE pc' = "discard"
      BY <1>l, <3>1, <3>2, <3>3, <3>5 DEF BlindInv, LookOK, SafeOriginalReturn, local
    <3>6. CASE pc' = "checkReturn"
      <4>1. ~seen.incoming /\ ~seen.verify
        BY <3>1, <3>6 DEF SafeOriginalReturn
      <4>2. NothingPlaced'
        BY <3>2, <4>1 DEF BlindInv, LookOK, NothingPlaced, UnderWay, device
      <4> QED BY <1>c, <3>2, <3>6, <4>2, SavedOperation DEF device, local
    <3> QED BY <3>1, <3>4, <3>5, <3>6
  <2> QED BY <2>1, <2>2
<1>11. CASE Discard
  <2>1. /\ UNCHANGED <<target, original, moves, verify, link, excused, active>> /\ pc = "discard"
        /\ link /\ active # NoJournal /\ (UnderWay("return") => verify = Absent)
    BY <1>11, SavedOperation DEF Discard, Step, device, local, aux, BlindInv, LookOK, LinkThere
  <2>2. CASE Step("classify")
    BY <2>2, StepBlind
  <2>3. CASE incoming' = Absent /\ pc' \in {"checkReturn", "discarded"}
    <3>1. NothingPlaced'
      BY <2>1, <2>3 DEF NothingPlaced, UnderWay
    <3> QED BY <1>c, <2>1, <2>3, <3>1
  <2> QED BY <1>11, <2>2, <2>3 DEF Discard, Step, Goto, device
<1>12. CASE Discarded
  <2>1. /\ UNCHANGED <<target, original, incoming, moves, verify, link, excused>>
        /\ pc = "discarded" /\ pc' = "checkReturn" /\ active # NoJournal
        /\ active'.operation = active.operation
    BY <1>12, SavedOperation, JournalKeeps
       DEF Discarded, Record, Save, SameFile, Goto, device, aux
  <2>2. link /\ NothingPlaced'
    BY <2>1 DEF BlindInv, ReturningOK, NothingPlaced, LinkThere, UnderWay
  <2> QED BY <1>c, <2>1, <2>2
<1>13. CASE CloseDelete
  <2>1. Fail \/ Step("recovered")
    BY <1>13 DEF CloseDelete
  <2> QED BY <2>1, FailBlind, StepBlind
<1>14. CASE CloseReturned
  <2>1. \/ Fail \/ Step("recovered")
        \/ Record([journal EXCEPT !.originalReturned = TRUE], "recovered")
    BY <1>14 DEF CloseReturned
  <2>2. CASE Record([journal EXCEPT !.originalReturned = TRUE], "recovered")
    BY <1>14, <2>2, RecordBlind, SavedOperation, JournalKeeps DEF CloseReturned
  <2> QED BY <2>1, <2>2, FailBlind, StepBlind
<1>15. CASE ConfirmCommit
  BY <1>15, RecordBlind, SavedOperation, JournalKeeps DEF ConfirmCommit
<1>16. CASE CloseCommitted
  <2>1. Fail \/ Step("dropOriginal") \/ Step("recovered")
    BY <1>16 DEF CloseCommitted
  <2> QED BY <2>1, FailBlind, StepBlind
<1>17. CASE DropOriginal
  <2>1. /\ UNCHANGED <<target, moves, active, excused>> /\ original' = Absent
        /\ pc' = "recovered"
    BY <1>17 DEF DropOriginal, Goto, local, aux
  <2> QED BY <2>1 DEF BlindInv, PathOK, FreeForOriginal, ReturningOK, LookOK, LinkThere, UnderWay
<1>18. CASE RestoreOrPend
  <2>1. CASE Fail
    BY <2>1, FailBlind
  <2>2. CASE ~Fail
    <3>1. /\ Explicit /\ pc = "classify" /\ journal \in Journal
          /\ Record([journal EXCEPT !.originalObserved = TRUE], "forceReturn")
      BY <1>18, <2>2, SavedOperation DEF RestoreOrPend
    <3>2. /\ UNCHANGED <<target, original, moves, excused>> /\ pc' = "forceReturn" /\ Explicit'
          /\ active'.operation = active.operation /\ active # NoJournal
      BY <3>1, SavedOperation, JournalKeeps
         DEF Record, Save, SameFile, Goto, Explicit, device, aux
    <3> QED BY <3>2 DEF BlindInv, PathOK, FreeForOriginal, ReturningOK, LookOK, LinkThere, UnderWay
  <2> QED BY <2>1, <2>2
<1>19. CASE RestoreRecovered
  <2>1. Undisturbed
    BY <1>19, SavedOperation DEF RestoreRecovered, Undisturbed, Goto, device, aux
  <2> QED BY <2>1, UndisturbedBlind
<1>20. CASE CleanGeneratedStage
  <2>1. Undisturbed
    BY <1>20, SavedOperation DEF CleanGeneratedStage, Undisturbed, Goto, slots, local, aux
  <2> QED BY <2>1, UndisturbedBlind
<1>21. CASE RemoveActive
  <2>1. Undisturbed
    BY <1>21 DEF RemoveActive, Undisturbed, Goto, device, aux
  <2> QED BY <2>1, UndisturbedBlind
<1> QED
  BY <1>1, <1>2, <1>3, <1>4, <1>5, <1>6, <1>7, <1>8, <1>9, <1>10, <1>11, <1>12, <1>13, <1>14,
     <1>15, <1>16, <1>17, <1>18, <1>19, <1>20, <1>21 DEF RecoveryStep

\* The beginning of a call, failures, the device and the application.
LEMMA OtherStepBlind ==
  ASSUME IInv, PromiseInv, AheadInv, BlindInv, [Next]_vars, ~CallStep, ~RecoveryStep
  PROVE  BlindInv'
<1> USE NoJournalAssumption DEF PathPcs, LookedPcs, LinkedPcs, TakingPcs
<1>t. TypeOK
  BY DEF IInv, TypeInv
<1>b. ASSUME UNCHANGED <<device, active, excused>>,
             pc' \in {"idle", "recover", "report", "prepare"}
      PROVE  BlindInv'
  <2>1. Undisturbed
    BY <1>b DEF Undisturbed, device
  <2> QED BY <2>1, UndisturbedBlind
<1>1. ASSUME NEW k \in Kinds, NEW d \in File, BeginCall(k, d)
      PROVE  BlindInv'
  BY <1>1, <1>b DEF BeginCall, Goto, aux
<1>2. CASE BeginRestore
  BY <1>2, <1>b DEF BeginRestore, Goto, aux
<1>3. CASE IoError
  <2>1. Step("classify") \/ Fail
    BY <1>3 DEF IoError
  <2> QED BY <2>1, StepBlind, FailBlind
<1>4. CASE WaitTimeout
  BY <1>4, FailBlind DEF WaitTimeout
<1>5. CASE Crash
  BY <1>5, <1>b DEF Crash, Goto, aux
<1>m. ASSUME moves # <<>>, moves' = Tail(moves), UNCHANGED <<link, local, worker, excused>>,
             pc = "sendReturn" /\ active # NoJournal /\ ~excused => FreeForOriginal'
      PROVE  BlindInv'
  <2>1. \A m \in FillsTarget : ~UnderWay(m)'
    BY <1>m, <1>t, TailMoves DEF TypeOK
  <2>2. UNCHANGED <<pc, mode, seen, active, journal, link>>
    BY <1>m DEF local, worker
  <2>3. PathOK'
    BY <1>m, <2>1, <2>2 DEF PathOK, FillsTarget
  <2>4. ReturningOK' /\ LookOK'
    BY <2>1, <2>2 DEF BlindInv, ReturningOK, NothingPlaced, LookOK, Explicit, Creating, FillsTarget
  <2>5. LinkThere'
    BY <2>2 DEF BlindInv, LinkThere
  <2> QED BY <2>3, <2>4, <2>5 DEF BlindInv
<1>6. CASE ExecuteMove
  <2>1. Head(moves) \in Moves /\ UnderWay(Head(moves)) /\ moves # <<>> /\ moves' = Tail(moves)
    BY <1>6, <1>t, TailMoves DEF ExecuteMove, TypeOK
  <2>2. ASSUME pc = "sendReturn", active # NoJournal, ~excused
        PROVE  FreeForOriginal'
    <3>1. FreeForOriginal /\ NothingPlaced
      BY <2>2 DEF BlindInv, PathOK, ReturningOK
    <3>2. CASE Head(moves) \in {"place", "return"}
      <4>1. Source(Head(moves)) = Absent
        BY <2>1, <3>1, <3>2 DEF NothingPlaced, Source
      <4>2. target' = target /\ original' = original
        BY <1>6, <4>1 DEF ExecuteMove
      <4> QED BY <3>1, <4>2 DEF FreeForOriginal
    <3>3. CASE Head(moves) = "fromOriginal"
      BY <1>6, <3>1, <3>3 DEF ExecuteMove, FreeForOriginal, Source
    <3>4. CASE Head(moves) \in {"toOriginal", "readBack"}
      BY <1>6, <3>1, <3>4 DEF ExecuteMove, FreeForOriginal, Source, FillsTarget
    <3> QED BY <2>1, <3>2, <3>3, <3>4 DEF Moves
  <2> QED BY <1>6, <1>m, <2>1, <2>2 DEF ExecuteMove
<1>7. CASE DropMove
  <2>1. UNCHANGED <<target, original, excused>>
    BY <1>7 DEF DropMove, slots, aux
  <2> QED BY <1>7, <1>m, <2>1 DEF DropMove, BlindInv, PathOK, FreeForOriginal
<1>8. CASE AppWrites
  <2>1. /\ UNCHANGED <<original, incoming, verify, link, moves, active, journal, pc, mode, seen>>
        /\ excused' = TRUE
    BY <1>8 DEF AppWrites, slots, local, worker
  <2> QED BY <2>1 DEF BlindInv, PathOK, ReturningOK, NothingPlaced, Explicit, Creating, LookOK,
                      LinkThere, UnderWay
<1>9. CASE UNCHANGED <<device, local, worker, aux>>
  BY <1>9 DEF BlindInv, PathOK, FreeForOriginal, ReturningOK, NothingPlaced, Explicit, Creating,
              LookOK, LinkThere, UnderWay, device, local, worker, aux
<1>10. CASE Settle
  BY <1>9, <1>10 DEF Settle
<1>11. CASE UNCHANGED vars
  BY <1>9, <1>11 DEF vars
<1> QED
  BY <1>1, <1>2, <1>3, <1>4, <1>5, <1>6, <1>7, <1>8, <1>10, <1>11
     DEF Next, Begin, Worker, Device

\* What is said of the path holds throughout.
LEMMA BlindInvariant == Spec => []BlindInv
<1>1. Init => BlindInv
  BY DEF Init, BlindInv, PathOK, ReturningOK, LookOK, LookedPcs, LinkThere, LinkedPcs, TakingPcs
<1>2. IInv /\ PromiseInv /\ AheadInv /\ BlindInv /\ [Next]_vars => BlindInv'
  BY CallStepBlind, RecoveryStepBlind, OtherStepBlind
<1> QED
  BY <1>1, <1>2, PromiseInvariant, AheadInvariant, PTL DEF Spec

\* The rest of a queue is shorter.
LEMMA TailShorter == \A q \in Queues : q # <<>> => Tail(q) # q
<1> SUFFICES ASSUME NEW q \in Queues, q # <<>>
             PROVE  Tail(q) # q
  OBVIOUS
<1>1. CASE q = <<"place", "readBack">>
  BY <1>1
<1>2. CASE \E m \in Moves : q = <<m>>
  BY <1>2
<1> QED BY <1>1, <1>2 DEF Queues

\* Only the device and the application change the path.
LEMMA OnlyDeviceFills ==
  ASSUME [Next]_vars, target' # target
  PROVE  ExecuteMove \/ AppWrites
<1> USE DEF device, local, aux, slots, Step, Record, Fail, Send
<1>1. ~CallStep
  BY DEF CallStep, PrepareKnownFile, OpenReplace, OpenCreateProbe, OpenReadOrDelete,
         ObserveKnownOriginal, SendOriginal, WaitOriginal, ReadOriginal, PersistKnownOriginal,
         ReadWithoutData, CheckReturn, ForceReturn, SendReturn, WaitReturn, Stage,
         WriteKnownIncoming, Place, SendPlacement, WaitIncoming, WaitVerify, ReadVerify,
         CommitNew, SendNew, WaitNew, Create, SendCreation, WaitCreation, SendReadBack,
         CommitDelete, CommitDeleteRefused, Finish, Report
<1>2. ~RecoveryStep
  BY DEF RecoveryStep, RecoverCreate, RecoverCreateProbe, RecoverKnownFile, RecoverSlots,
         Interrupted, ResendReadBack, RewaitVerify, RereadVerify, Mismatch, ProbeTarget, Discard,
         Discarded, CloseDelete, CloseReturned, ConfirmCommit, CloseCommitted, DropOriginal,
         RestoreOrPend, RestoreRecovered, CleanGeneratedStage, RemoveActive
<1> QED
  BY <1>1, <1>2 DEF Next, Begin, BeginCall, BeginRestore, Worker, Device, IoError, WaitTimeout,
                    Crash, DropMove, Settle, vars

\* Automatic returns of an original and creations never overwrite content that
\* was at the path when it was checked: only what the application wrote after
\* the check, or what the user confirmed, is replaced.
THEOREM NeverOverwritesBlindly == Spec => NoBlindOverwrite
<1> DEFINE Overwrites ==
      /\ moves # <<>> /\ moves' = Tail(moves) /\ target # Absent /\ target' # target
      /\ active # NoJournal
      /\ \/ Head(moves) = "fromOriginal"
         \/ Head(moves) \in {"place", "return"} /\ active.operation \in {"create", "createProbe"}
\* Only the device changes the path of the application and the queue.
<1>1. IInv /\ [Next]_vars /\ moves # <<>> /\ moves' = Tail(moves) /\ target' # target
      => ExecuteMove
  <2> SUFFICES ASSUME IInv, [Next]_vars, moves # <<>>, moves' = Tail(moves), target' # target,
                      ~ExecuteMove
               PROVE  FALSE
    OBVIOUS
  <2>1. Tail(moves) # moves
    BY TailShorter DEF IInv, TypeInv, TypeOK
  <2>2. CASE AppWrites
    BY <2>1, <2>2 DEF AppWrites
  <2>3. CASE ~AppWrites
    BY <2>3, OnlyDeviceFills
  <2> QED BY <2>2, <2>3
<1>2. IInv /\ BlindInv /\ [Next]_vars => (Overwrites => excused)
  <2> SUFFICES ASSUME IInv, BlindInv, [Next]_vars, Overwrites
               PROVE  excused
    OBVIOUS
  <2>1. ExecuteMove /\ UnderWay(Head(moves))
    BY <1>1, TailMoves DEF IInv, TypeInv, TypeOK
  <2>2. CASE Head(moves) = "fromOriginal"
    <3>1. original # Absent
      BY <2>1, <2>2 DEF ExecuteMove, Source
    <3> QED BY <2>1, <2>2, <3>1 DEF BlindInv, PathOK, FreeForOriginal
  <2>3. CASE Head(moves) \in {"place", "return"} /\ active.operation \in {"create", "createProbe"}
    BY <2>1, <2>3 DEF BlindInv, PathOK
  <2> QED BY <2>2, <2>3
<1>3. IInv /\ BlindInv /\ [Next]_vars => [Overwrites => excused]_vars
  BY <1>2
<1> QED
  BY <1>3, PromiseInvariant, BlindInvariant, PTL DEF Spec, NoBlindOverwrite

-----------------------------------------------------------------------------
(***************************************************************************)
(* The return of an original and the end of a replacement                  *)
(***************************************************************************)
\* The transaction on disk replaces a file that exists.
Replacing == active # NoJournal /\ active.operation = "replace"

\* An original is on its way back to the application.
ReturnUnderWay == UnderWay("fromOriginal") /\ original # Absent

\* Labels after the placement was announced, labels at which the payload has
\* left its slot, those between the look at the slots and the decision, those
\* of a return, and those of a creation.
PlacedPcs  == NewPcs \ {"stage", "write", "place"}
EmptiedPcs == {"waitVerify", "readVerify", "resendReadBack", "rewaitVerify", "rereadVerify",
               "commitNew", "sendNew", "waitNew"}
SlotPcs    == {"slots", "probe", "discard", "discarded", "classify"}
ReturnPcs  == {"checkReturn", "discard", "discarded", "forceReturn", "sendReturn", "waitReturn"}
MakingPcs  == {"create", "sendCreation", "waitCreation", "sendReadBack"}

\* Nothing is given back before it was taken, and new content is announced
\* only for an original that was taken and captured.
TakenFirst ==
  /\ taken = Absent => ~back
  /\ Replacing =>
       /\ pc \in NewPcs \/ active.newVerified => taken # Absent
       /\ pc \in NewPcs \/ active.returnNewIntent => active.captured # Absent
       /\ pc \in NewPcs => journal.captured # Absent

\* The steps of a replacement follow each other, and a recovery that looks at
\* the slots sees how far it got.
InOrder ==
  /\ active # NoJournal /\ active.returnNewIntent => active.operation \notin {"read", "delete"}
  /\ Replacing =>
       /\ active.returnNewIntent => active.newVerified /\ active.incomingPlaceIntent
       /\ active.committed => active.returnNewIntent
       /\ pc \in PlacedPcs => active.incomingPlaceIntent
       /\ pc \in {"commitNew", "sendNew"} => active.newVerified
       /\ pc = "waitNew" => active.returnNewIntent
       /\ active.newVerified \/ pc \in EmptiedPcs => incoming = Absent
       /\ pc \in TakingPcs \cup {"stage", "write"} => ~active.newVerified
       /\ pc \in SlotPcs /\ ~seen.incoming => incoming = Absent
       /\ pc \in SlotPcs /\ active.newVerified => ~seen.incoming
       /\ pc \in {"discard", "discarded"} => ~active.newVerified
       /\ pc \in {"probe", "classify"} /\ active.returnNewIntent /\ ~active.committed =>
            ~seen.verify
       /\ pc \notin MakingPcs

\* An original is taken and returned only while the transaction is open, and as long as it is
\* under way the payload is not taken for returned.
ReturnAlone ==
  /\ active # NoJournal /\ pc \in TakingPcs \cup ReturnPcs =>
       ~active.committed /\ ~active.returnNewIntent
  /\ Replacing /\ ReturnUnderWay =>
       /\ ~active.committed
       /\ active.returnNewIntent \/ pc = "commitNew" => verify # Absent
       /\ pc \in SlotPcs => (seen.verify <=> verify # Absent)
       /\ pc \notin {"waitIncoming", "waitVerify", "readVerify", "rewaitVerify", "rereadVerify",
                     "waitNew"}

DutyInv == TakenFirst /\ InOrder /\ ReturnAlone

\* Labels that promise something of a replacement or of a return.
DutyPcs == NewPcs \cup SlotPcs

\* The journal after a step says no more of the payload than before.
SameDuty ==
  active' # NoJournal =>
    /\ active # NoJournal
    /\ active'.operation = active.operation /\ active'.committed = active.committed
    /\ active'.newVerified = active.newVerified
    /\ active'.returnNewIntent = active.returnNewIntent
    /\ active.returnNewIntent =>
         /\ active.incomingPlaceIntent => active'.incomingPlaceIntent
         /\ active.captured # Absent => active'.captured # Absent

\* A step that changes nothing a replacement or a return relies on.
Uninvolved ==
  /\ SameDuty
  /\ UNCHANGED <<taken, back, verify>>
  /\ incoming' \in {incoming, Absent} /\ original' \in {original, Absent}
  /\ UnderWay("fromOriginal")' => UnderWay("fromOriginal")
  /\ pc' \notin DutyPcs
  /\ pc' \in TakingPcs => pc \in TakingPcs
  /\ pc' \in ReturnPcs => ~active.committed /\ ~active.returnNewIntent

\* It keeps what is said of both.
LEMMA UninvolvedDuty ==
  ASSUME DutyInv, Uninvolved
  PROVE  DutyInv'
<1> USE DEF DutyInv, Uninvolved, SameDuty, DutyPcs, Replacing, SlotPcs, ReturnPcs
<1>1. TakenFirst'
  BY DEF TakenFirst
<1>2. InOrder'
  BY DEF InOrder, PlacedPcs, EmptiedPcs, MakingPcs, NewPcs, PlacingPcs, TakingPcs
<1>3. ReturnAlone'
  BY DEF ReturnAlone, ReturnUnderWay, NewPcs, PlacingPcs
<1> QED BY <1>1, <1>2, <1>3

\* A step that only moves the worker.
LEMMA StepDuty ==
  ASSUME DutyInv, NEW label, Step(label), label \notin DutyPcs,
         label \in TakingPcs => pc \in TakingPcs, label \notin ReturnPcs
  PROVE  DutyInv'
<1>1. Uninvolved
  BY DEF Uninvolved, SameDuty, Step, Goto, device, local, aux, UnderWay
<1> QED BY <1>1, UninvolvedDuty

\* A failure.
LEMMA FailDuty ==
  ASSUME DutyInv, Fail
  PROVE  DutyInv'
<1>1. Uninvolved
  BY DEF Uninvolved, SameDuty, Fail, FailLabel, Goto, device, local, aux, UnderWay, DutyPcs, NewPcs,
         PlacingPcs, SlotPcs, ReturnPcs, TakingPcs
<1> QED BY <1>1, UninvolvedDuty

\* The journal on disk is the one in memory as far as a replacement goes.
LEMMA SavedJournal ==
  ASSUME IInv, PromiseInv, AheadInv, OwnInv, pc \in OpenPcs
  PROVE  /\ journal \in Journal /\ active \in Journal /\ active # NoJournal
         /\ active.operation = journal.operation /\ active.committed = journal.committed
         /\ active.newVerified = journal.newVerified
         /\ active.returnNewIntent = journal.returnNewIntent
         /\ active.incomingPlaceIntent = journal.incomingPlaceIntent
         /\ mode # "op" => active.captured = journal.captured
  BY SavedOperation DEF PromiseInv, Agree, AheadInv, AgreeIntents, OwnInv, AgreePayload

\* A step that saves another state of the same transaction.
LEMMA RecordDuty ==
  ASSUME IInv, PromiseInv, AheadInv, OwnInv, DutyInv, pc \in OpenPcs, NEW j, NEW label,
         Record(j, label),
         SameExcept(j, journal, {"originalMoveIntent", "originalObserved", "originalReturned"}),
         mode # "op" \/ ~active.returnNewIntent,
         label \notin DutyPcs, label \in TakingPcs => pc \in TakingPcs, label \notin ReturnPcs
  PROVE  DutyInv'
<1>1. active' = j /\ SameDuty
  BY SavedJournal DEF Record, Save, SameExcept, SameDuty
<1>2. Uninvolved
  BY <1>1 DEF Uninvolved, Record, Goto, device, aux, UnderWay
<1> QED BY <1>2, UninvolvedDuty

\* The steps of a call.
LEMMA CallStepDuty ==
  ASSUME IInv, PromiseInv, AheadInv, OwnInv, DutyInv, CallStep
  PROVE  DutyInv'
<1> USE NoJournalAssumption DEF DutyPcs, NewPcs, PlacingPcs, SlotPcs, ReturnPcs, TakingPcs, OpenPcs,
        Pcs, SendPcs, WaitPcs, RecoveryPcs, OtherPcs
<1>t. TypeOK
  BY DEF IInv, TypeInv
\* A step that leaves the journal on disk and the files alone.
<1>f. ASSUME pc' \notin DutyPcs, pc' \notin ReturnPcs, pc' \in TakingPcs => pc \in TakingPcs,
             UNCHANGED <<original, incoming, verify, moves, active, taken, back>>
      PROVE  DutyInv'
  <2>1. Uninvolved
    BY <1>f DEF Uninvolved, SameDuty, UnderWay
  <2> QED BY <2>1, UninvolvedDuty
\* A move that leaves the engine's slots for the last time.
<1>s. ASSUME NEW m \in Moves \ {"fromOriginal"}, moves' = <<m>>,
             pc' \notin DutyPcs, pc' \notin ReturnPcs, pc' \in TakingPcs => pc \in TakingPcs,
             UNCHANGED <<original, incoming, verify, active, taken, back>>
      PROVE  DutyInv'
  <2>1. ~UnderWay("fromOriginal")'
    BY <1>s DEF UnderWay
  <2>2. Uninvolved
    BY <1>s, <2>1 DEF Uninvolved, SameDuty
  <2> QED BY <2>2, UninvolvedDuty
<1>1. CASE PrepareKnownFile
  <2>1. /\ active' = FreshJournal(call.kind, call.data) /\ original' = Absent /\ incoming' = Absent
        /\ taken' = Absent /\ back' = FALSE /\ pc' \in {"opened", "finish"}
    BY <1>1 DEF PrepareKnownFile, Save, Goto
  <2>2. ~active'.newVerified /\ ~active'.returnNewIntent /\ ~active'.committed
    BY <2>1 DEF FreshJournal
  <2> QED BY <2>1, <2>2 DEF DutyInv, TakenFirst, InOrder, ReturnAlone, ReturnUnderWay, Replacing,
                            PlacedPcs, EmptiedPcs, MakingPcs
<1>2. CASE OpenReplace
  <2>1. CASE Save([journal EXCEPT !.operation = "create"]) /\ Goto("stage")
    <3>1. /\ active'.operation = "create" /\ pc' = "stage" /\ UNCHANGED <<taken, back>>
      BY <1>2, <2>1, SavedJournal DEF OpenReplace, Save, Goto, Journal
    <3> QED BY <3>1 DEF DutyInv, TakenFirst, InOrder, ReturnAlone, Replacing
  <2>2. CASE Goto("observe") /\ UNCHANGED active
    BY <1>2, <1>f, <2>2 DEF OpenReplace, Goto, device
  <2> QED BY <1>2, <2>1, <2>2 DEF OpenReplace
<1>3. CASE OpenCreateProbe
  <2>1. CASE Fail
    BY <2>1, FailDuty
  <2>2. CASE Goto("stage") /\ UNCHANGED <<device, local, taken, back>>
    <3>1. active.operation = "createProbe"
      BY <1>3, SavedJournal DEF OpenCreateProbe, PromiseInv, LabelsOK
    <3> QED BY <2>2, <3>1
            DEF DutyInv, TakenFirst, InOrder, ReturnAlone, Replacing, Goto, local, device
  <2> QED BY <1>3, <2>1, <2>2 DEF OpenCreateProbe
<1>4. CASE OpenReadOrDelete
  <2>1. CASE Step("observe")
    BY <1>4, <2>1, StepDuty DEF OpenReadOrDelete
  <2>2. CASE Goto("finish") /\ UNCHANGED <<device, local, aux>>
    BY <1>f, <2>2 DEF Goto, device, local, aux
  <2> QED BY <1>4, <2>1, <2>2 DEF OpenReadOrDelete
<1>5. CASE ObserveKnownOriginal
  <2>1. CASE Fail
    BY <2>1, FailDuty
  <2>2. CASE Record([journal EXCEPT !.originalMoveIntent = TRUE], "sendOriginal")
    <3>1. pc = "observe" /\ ~active.returnNewIntent /\ journal \in Journal
      BY <1>5, SavedJournal DEF ObserveKnownOriginal, DutyInv, ReturnAlone
    <3>2. SameExcept([journal EXCEPT !.originalMoveIntent = TRUE], journal, {"originalMoveIntent"})
      BY <3>1, FieldUpdates
    <3> QED BY <2>2, <3>1, <3>2, RecordDuty DEF SameExcept
  <2> QED BY <1>5, <2>1, <2>2 DEF ObserveKnownOriginal
<1>6. CASE SendOriginal
  BY <1>6, <1>s DEF SendOriginal, Send, Goto, Moves, slots, local
<1>7. CASE WaitOriginal
  <2>1. /\ pc = "waitOriginal" /\ ~active.returnNewIntent /\ journal \in Journal
        /\ Record([journal EXCEPT !.originalObserved = TRUE], "readOriginal")
    BY <1>7, SavedJournal DEF WaitOriginal, DutyInv, ReturnAlone
  <2>2. SameExcept([journal EXCEPT !.originalObserved = TRUE], journal, {"originalObserved"})
    BY <2>1, FieldUpdates
  <2> QED BY <2>1, <2>2, RecordDuty DEF SameExcept
<1>8. CASE ReadOriginal
  BY <1>8, <1>f DEF ReadOriginal, Goto, device, aux
\* The journal that says what was captured.
<1>c. ASSUME pc \in {"readOriginal", "persist"}
      PROVE  LET j == [journal EXCEPT !.captured = snapshot]
             IN  /\ j.operation = active.operation /\ j.captured = snapshot /\ ~j.committed
                 /\ ~j.returnNewIntent /\ j.newVerified = active.newVerified
                 /\ active # NoJournal /\ ~active.committed /\ ~active.returnNewIntent
                 /\ active.operation = call.kind /\ taken # Absent
  BY <1>c, SavedJournal DEF Journal, DutyInv, ReturnAlone, PromiseInv, LabelsOK
<1>9. CASE PersistKnownOriginal
  <2>1. /\ pc = "persist" /\ active' = [journal EXCEPT !.captured = snapshot] /\ active' = journal'
        /\ UNCHANGED <<original, incoming, verify, moves, taken, back>>
        /\ pc' \in {"checkReturn", "stage", "commitDelete", "finish"}
    BY <1>9 DEF PersistKnownOriginal, Save, Goto, device, aux
  <2>2. snapshot # Absent
    BY <2>1 DEF PromiseInv, DeleteOK
  <2>3. Replacing' => Replacing /\ ~active.newVerified
    BY <1>c, <2>1 DEF DutyInv, InOrder, Replacing
  <2> QED BY <1>c, <2>1, <2>2, <2>3
          DEF DutyInv, TakenFirst, InOrder, ReturnAlone, ReturnUnderWay, UnderWay, Replacing,
              PlacedPcs, EmptiedPcs, MakingPcs
<1>10. CASE ReadWithoutData
  <2>1. /\ pc \in {"readOriginal", "persist"} /\ pc' = "checkReturn" /\ call.kind = "read"
        /\ active' \in {active, [journal EXCEPT !.captured = snapshot]}
        /\ UNCHANGED <<original, incoming, verify, moves, taken, back>>
    BY <1>10 DEF ReadWithoutData, Goto, device, aux
  <2>2. active'.operation = "read" /\ ~active'.committed /\ ~active'.returnNewIntent
    BY <1>c, <2>1
  <2> QED BY <2>1, <2>2 DEF DutyInv, TakenFirst, InOrder, ReturnAlone, Replacing
\* The return of an original changes nothing else.
<1>r. ASSUME pc \in ReturnPcs, Save([journal EXCEPT !.returnOriginalIntent = TRUE]),
             pc' = "sendReturn", UNCHANGED <<device, taken, back>>
      PROVE  DutyInv'
  <2>1. ~active.committed /\ ~active.returnNewIntent
    BY <1>r, SavedJournal DEF DutyInv, ReturnAlone
  <2>2. SameExcept([journal EXCEPT !.returnOriginalIntent = TRUE], journal,
                   {"returnOriginalIntent"})
    BY <1>r, SavedJournal, FieldUpdates
  <2>3. SameDuty
    BY <1>r, <2>1, <2>2, SavedJournal DEF SameDuty, SameExcept, Save
  <2>4. Uninvolved
    BY <1>r, <2>1, <2>3 DEF Uninvolved, UnderWay, device
  <2> QED BY <2>4, UninvolvedDuty
<1>11. CASE CheckReturn
  <2>1. CASE Fail
    BY <2>1, FailDuty
  <2>2. CASE ~Fail
    BY <1>11, <1>r, <2>2 DEF CheckReturn, Goto
  <2> QED BY <2>1, <2>2
<1>12. CASE ForceReturn
  BY <1>12, <1>r DEF ForceReturn, Goto
<1>13. CASE SendReturn
  <2>1. /\ pc = "sendReturn" /\ pc' = "waitReturn"
        /\ UNCHANGED <<original, incoming, verify, active, journal, taken, back>>
    BY <1>13 DEF SendReturn, Send, Goto, slots, local
  <2> QED BY <2>1 DEF DutyInv, TakenFirst, InOrder, ReturnAlone, Replacing, PlacedPcs, EmptiedPcs,
                      MakingPcs
<1>14. CASE WaitReturn
  <2>1. pc = "waitReturn" /\ ~active.returnNewIntent /\ journal \in Journal
    BY <1>14, SavedJournal DEF WaitReturn, DutyInv, ReturnAlone
  <2>2. PICK label \in {"finish", "recovered"} :
          Record([journal EXCEPT !.originalReturned = TRUE], label)
    BY <1>14 DEF WaitReturn
  <2>3. SameExcept([journal EXCEPT !.originalReturned = TRUE], journal, {"originalReturned"})
    BY <2>1, FieldUpdates
  <2> QED BY <2>1, <2>2, <2>3, RecordDuty DEF SameExcept
\* What is saved on the way of a payload to the application, and what is known there.
<1>n. ASSUME pc \in NewPcs
      PROVE  /\ journal \in Journal /\ active # NoJournal /\ active.operation = journal.operation
             /\ active.operation \notin {"read", "delete"}
             /\ Replacing => journal.captured # Absent
  BY <1>n, SavedJournal DEF PromiseInv, LabelsOK, DutyInv, TakenFirst
<1>15. CASE Stage
  <2>1. /\ pc = "stage" /\ pc' = "write" /\ active' = [journal EXCEPT !.newDigest = call.data]
        /\ journal' = active'
        /\ UNCHANGED <<original, incoming, verify, moves, taken, back>>
    BY <1>15 DEF Stage, Record, Save, Goto, device, aux
  <2>2. SameExcept(active', journal, {"newDigest"})
    BY <1>n, <1>t, <2>1, FieldUpdates DEF TypeOK, Call
  <2> QED BY <1>n, <2>1, <2>2, SavedJournal
          DEF DutyInv, TakenFirst, InOrder, ReturnAlone, ReturnUnderWay, UnderWay, Replacing,
              PlacedPcs, EmptiedPcs, MakingPcs, SameExcept
<1>16. CASE WriteKnownIncoming
  <2>1. /\ pc = "write" /\ pc' \in {"place", "create", "finish"}
        /\ pc' = "create" => journal.operation # "replace"
        /\ UNCHANGED <<original, verify, moves, active, journal, taken, back>>
    BY <1>16 DEF WriteKnownIncoming, Goto, local, aux
  <2> QED BY <1>n, <2>1
          DEF DutyInv, TakenFirst, InOrder, ReturnAlone, ReturnUnderWay, UnderWay, Replacing,
              PlacedPcs, EmptiedPcs, MakingPcs
<1>17. CASE Place
  <2>1. CASE Fail
    BY <2>1, FailDuty
  <2>2. CASE ~Fail
    <3>1. /\ pc = "place" /\ pc' = "sendPlacement" /\ journal' = active'
          /\ active' = [journal EXCEPT !.incomingPlaceIntent = TRUE, !.verifyMoveIntent = TRUE]
          /\ UNCHANGED <<original, incoming, verify, moves, taken, back>>
      BY <1>17, <2>2 DEF Place, Record, Save, Goto, device, aux
    <3>2. /\ SameExcept(active', journal, {"incomingPlaceIntent", "verifyMoveIntent"})
          /\ active'.incomingPlaceIntent = TRUE
      BY <1>n, <3>1, FieldUpdates
    <3> QED BY <1>n, <3>1, <3>2, SavedJournal
            DEF DutyInv, TakenFirst, InOrder, ReturnAlone, ReturnUnderWay, UnderWay, Replacing,
                PlacedPcs, EmptiedPcs, MakingPcs, SameExcept
  <2> QED BY <2>1, <2>2
<1>18. CASE SendPlacement
  <2>1. /\ pc = "sendPlacement" /\ pc' \in {"waitIncoming", "finish", "report"}
        /\ moves' \in {<<"place", "readBack">>, <<"place">>}
        /\ UNCHANGED <<original, incoming, verify, active, journal, taken, back>>
    BY <1>18 DEF SendPlacement, FailLabel, Goto, slots, local, aux
  <2>2. ~UnderWay("fromOriginal")'
    BY <2>1 DEF UnderWay
  <2> QED BY <2>1, <2>2
          DEF DutyInv, TakenFirst, InOrder, ReturnAlone, ReturnUnderWay, Replacing,
              PlacedPcs, EmptiedPcs, MakingPcs
<1>19. CASE WaitIncoming \/ WaitVerify
  <2>1. /\ \/ pc = "waitIncoming" /\ pc' = "waitVerify" /\ incoming = Absent
           \/ pc = "waitVerify" /\ pc' = "readVerify"
        /\ UNCHANGED <<device, active, journal, taken, back>>
    BY <1>19 DEF WaitIncoming, WaitVerify, Step, Goto, local, aux
  <2> QED BY <2>1
          DEF DutyInv, TakenFirst, InOrder, ReturnAlone, ReturnUnderWay, UnderWay, Replacing,
              PlacedPcs, EmptiedPcs, MakingPcs, device
<1>20. CASE ReadVerify
  <2>1. CASE Fail
    BY <2>1, FailDuty
  <2>2. CASE ~Fail
    <3>1. /\ pc = "readVerify" /\ pc' = "commitNew" /\ journal' = active'
          /\ active' = [journal EXCEPT !.newVerified = TRUE] /\ UNCHANGED <<device, taken, back>>
      BY <1>20, <2>2 DEF ReadVerify, Record, Save, Goto, aux
    <3>2. SameExcept(active', journal, {"newVerified"}) /\ active'.newVerified = TRUE
      BY <1>n, <3>1, FieldUpdates
    <3> QED BY <1>n, <3>1, <3>2, SavedJournal
            DEF DutyInv, TakenFirst, InOrder, ReturnAlone, ReturnUnderWay, UnderWay, Replacing,
                PlacedPcs, EmptiedPcs, MakingPcs, SameExcept, device
  <2> QED BY <2>1, <2>2
<1>21. CASE CommitNew
  <2>1. /\ pc = "commitNew" /\ pc' = "sendNew" /\ journal' = active'
        /\ active' = [journal EXCEPT !.returnNewIntent = TRUE] /\ UNCHANGED <<device, taken, back>>
    BY <1>21 DEF CommitNew, Record, Save, Goto, aux
  <2>2. SameExcept(active', journal, {"returnNewIntent"}) /\ active'.returnNewIntent = TRUE
    BY <1>n, <2>1, FieldUpdates
  <2> QED BY <1>n, <2>1, <2>2, SavedJournal
          DEF DutyInv, TakenFirst, InOrder, ReturnAlone, ReturnUnderWay, UnderWay, Replacing,
              PlacedPcs, EmptiedPcs, MakingPcs, SameExcept, device
<1>22. CASE SendNew
  <2>1. CASE Fail
    BY <2>1, FailDuty
  <2>2. CASE ~Fail
    <3>1. /\ pc = "sendNew" /\ pc' = "waitNew" /\ moves' = <<"return">> /\ active.returnNewIntent
          /\ UNCHANGED <<original, incoming, verify, active, journal, taken, back>>
      BY <1>22, <2>2 DEF SendNew, Send, Goto, slots, local, AheadInv, SendingOK
    <3>2. ~UnderWay("fromOriginal")'
      BY <3>1 DEF UnderWay
    <3> QED BY <3>1, <3>2
            DEF DutyInv, TakenFirst, InOrder, ReturnAlone, ReturnUnderWay, Replacing,
                PlacedPcs, EmptiedPcs, MakingPcs
  <2> QED BY <2>1, <2>2
<1>23. CASE WaitNew
  <2>1. /\ pc = "waitNew" /\ pc' \in {"finish", "recovered", "probe"} /\ journal' = active'
        /\ active' = [journal EXCEPT !.committed = TRUE] /\ UNCHANGED <<device, taken, back>>
    BY <1>23 DEF WaitNew, Save, Goto, aux
  <2>2. ~seen'.incoming /\ ~seen'.verify
    BY <1>23, <1>t DEF WaitNew, TypeOK, Seen
  <2>3. SameExcept(active', journal, {"committed"}) /\ active'.committed = TRUE
    BY <1>n, <2>1, FieldUpdates
  <2> QED BY <1>n, <2>1, <2>2, <2>3, SavedJournal
          DEF DutyInv, TakenFirst, InOrder, ReturnAlone, ReturnUnderWay, UnderWay, Replacing,
              PlacedPcs, EmptiedPcs, MakingPcs, SameExcept, device
\* A creation replaces nothing.
<1>m. ASSUME pc \in MakingPcs, pc' \in NewPcs, active'.operation = active.operation,
             active'.returnNewIntent = active.returnNewIntent, UNCHANGED <<taken, back>>
      PROVE  DutyInv'
  <2>1. active # NoJournal /\ ~Replacing /\ ~Replacing'
    BY <1>m, SavedJournal DEF DutyInv, InOrder, MakingPcs, Replacing
  <2> QED BY <1>m, <2>1 DEF DutyInv, TakenFirst, InOrder, ReturnAlone
<1>24. CASE Create
  <2>1. /\ pc = "create" /\ pc' = "sendCreation"
        /\ active' = [journal EXCEPT !.incomingPlaceIntent = TRUE] /\ UNCHANGED <<taken, back>>
    BY <1>24 DEF Create, Record, Save, Goto, aux
  <2>2. SameExcept(active', journal, {"incomingPlaceIntent"})
    BY <1>n, <2>1, FieldUpdates
  <2> QED BY <1>m, <2>1, <2>2, SavedJournal DEF SameExcept, MakingPcs
<1>25. CASE SendCreation
  <2>1. CASE Fail
    BY <2>1, FailDuty
  <2>2. CASE ~Fail
    BY <1>25, <1>m, <2>2 DEF SendCreation, Send, Goto, MakingPcs, local
  <2> QED BY <2>1, <2>2
<1>26. CASE WaitCreation
  <2>1. /\ pc = "waitCreation" /\ pc' = "sendReadBack"
        /\ active' = [journal EXCEPT !.verifyMoveIntent = TRUE] /\ UNCHANGED <<taken, back>>
    BY <1>26 DEF WaitCreation, Record, Save, Goto, aux
  <2>2. SameExcept(active', journal, {"verifyMoveIntent"})
    BY <1>n, <2>1, FieldUpdates
  <2> QED BY <1>m, <2>1, <2>2, SavedJournal DEF SameExcept, MakingPcs
<1>27. CASE SendReadBack
  BY <1>27, <1>m DEF SendReadBack, Send, Goto, MakingPcs, local
<1>28. CASE CommitDelete
  <2>1. PICK absence \in BOOLEAN :
          Save([journal EXCEPT !.committed = TRUE, !.targetAbsenceConfirmed = absence])
    BY <1>28 DEF CommitDelete
  <2>2. journal \in Journal /\ pc' = "finish" /\ journal.operation = "delete"
        /\ active.operation = "delete" /\ UNCHANGED <<device, taken, back>>
        /\ active.returnNewIntent = journal.returnNewIntent /\ active # NoJournal
    BY <1>28, SavedJournal DEF CommitDelete, Goto, PromiseInv, DeleteOK, aux
  <2>3. active'.operation = "delete" /\ active'.returnNewIntent = active.returnNewIntent
    BY <2>1, <2>2 DEF Save, Journal
  <2> QED BY <2>2, <2>3 DEF DutyInv, TakenFirst, InOrder, ReturnAlone, Replacing
<1>29. CASE CommitDeleteRefused
  BY <1>29, FailDuty DEF CommitDeleteRefused
<1>30. CASE Finish
  BY <1>30, <1>f DEF Finish, Goto, device, aux
<1>31. CASE Report
  BY <1>31, <1>f DEF Report, Goto, device, aux
<1> QED
  BY <1>1, <1>2, <1>3, <1>4, <1>5, <1>6, <1>7, <1>8, <1>9, <1>10, <1>11, <1>12, <1>13, <1>14,
     <1>15, <1>16, <1>17, <1>18, <1>19, <1>20, <1>21, <1>22, <1>23, <1>24, <1>25, <1>26, <1>27,
     <1>28, <1>29, <1>30, <1>31 DEF CallStep

\* The steps of a recovery.
LEMMA RecoveryStepDuty ==
  ASSUME IInv, PromiseInv, AheadInv, OwnInv, DutyInv, RecoveryStep
  PROVE  DutyInv'
<1> USE NoJournalAssumption DEF DutyPcs, NewPcs, PlacingPcs, SlotPcs, ReturnPcs, TakingPcs, OpenPcs,
        Pcs, SendPcs, WaitPcs, RecoveryPcs, OtherPcs
<1>t. TypeOK
  BY DEF IInv, TypeInv
\* A recovery does not run the body of a call.
<1>o. mode # "op" \/ pc \in NewPcs \cup ReturnPcs
  BY DEF RecoveryStep, IInv, ModeOK, RecoverOnlyPcs, RecoverCreate, RecoverCreateProbe,
         RecoverKnownFile, RecoverSlots, Interrupted, ResendReadBack, RewaitVerify, RereadVerify,
         Mismatch, ProbeTarget, Discard, Discarded, CloseDelete, CloseReturned, ConfirmCommit,
         CloseCommitted, DropOriginal, RestoreOrPend, RestoreRecovered, CleanGeneratedStage,
         RemoveActive, Send
<1>e. pc \in OpenPcs
  BY DEF RecoveryStep, RecoverCreate, RecoverCreateProbe,
         RecoverKnownFile, RecoverSlots, Interrupted, ResendReadBack, RewaitVerify, RereadVerify,
         Mismatch, ProbeTarget, Discard, Discarded, CloseDelete, CloseReturned, ConfirmCommit,
         CloseCommitted, DropOriginal, RestoreOrPend, RestoreRecovered, CleanGeneratedStage,
         RemoveActive, Send
<1>j. /\ journal \in Journal /\ active # NoJournal
      /\ active.operation = journal.operation /\ active.committed = journal.committed
      /\ active.newVerified = journal.newVerified
      /\ active.returnNewIntent = journal.returnNewIntent
      /\ active.incomingPlaceIntent = journal.incomingPlaceIntent
      /\ mode # "op" => active.captured = journal.captured
  BY <1>e, SavedJournal
\* A captured original was taken.
<1>k. journal.captured # Absent => taken # Absent
  BY <1>j DEF IInv, CustodyInv, OneOriginal
\* A transaction that replaces nothing.
<1>m. ASSUME ~Replacing, active'.operation = active.operation, active' # NoJournal,
             active'.returnNewIntent => active.returnNewIntent \/ Creating,
             UNCHANGED <<taken, back>>, pc' \notin TakingPcs \cup ReturnPcs
      PROVE  DutyInv'
  BY <1>m, <1>j DEF DutyInv, TakenFirst, InOrder, ReturnAlone, Replacing, Creating
<1>1. CASE RecoverCreate
  <2>1. CASE Fail
    BY <2>1, FailDuty
  <2>2. CASE Step("recovered")
    BY <2>2, StepDuty
  <2>3. CASE \/ Record([journal EXCEPT !.newVerified = TRUE], "commitNew")
             \/ Record([journal EXCEPT !.committed = TRUE], "recovered")
    <3>1. /\ active' \in {[journal EXCEPT !.newVerified = TRUE],
                          [journal EXCEPT !.committed = TRUE]}
          /\ pc' \in {"commitNew", "recovered"} /\ UNCHANGED <<taken, back>>
      BY <2>3 DEF Record, Save, Goto, aux
    <3>2. SameExcept(active', journal, {"newVerified", "committed"})
      <4>1. SameExcept([journal EXCEPT !.newVerified = TRUE], journal, {"newVerified"})
        BY <1>j, FieldUpdates
      <4>2. SameExcept([journal EXCEPT !.committed = TRUE], journal, {"committed"})
        BY <1>j, FieldUpdates
      <4>3. CASE active' = [journal EXCEPT !.newVerified = TRUE]
        BY <4>1, <4>3 DEF SameExcept
      <4>4. CASE active' = [journal EXCEPT !.committed = TRUE]
        BY <4>2, <4>4 DEF SameExcept
      <4> QED BY <3>1, <4>3, <4>4
    <3>3. active' \in Journal
      BY <1>j, <3>1, JournalUpdates
    <3>4. active' # NoJournal /\ active'.operation = "create"
          /\ active'.returnNewIntent = active.returnNewIntent
      BY <1>1, <1>j, <3>2, <3>3 DEF RecoverCreate, SameExcept
    <3> QED BY <1>1, <1>j, <1>m, <3>1, <3>4 DEF RecoverCreate, Replacing
  <2>4. CASE incoming' = Absent /\ Goto("recovered") /\ UNCHANGED <<local, aux>>
    BY <1>1, <1>j, <1>m, <2>4 DEF RecoverCreate, Goto, local, aux, Replacing
  <2> QED BY <1>1, <2>1, <2>2, <2>3, <2>4 DEF RecoverCreate
<1>2. CASE RecoverCreateProbe
  BY <1>2, <1>j, <1>m DEF RecoverCreateProbe, Goto, local, aux, Replacing
<1>3. CASE RecoverKnownFile
  <2>1. CASE Fail
    BY <2>1, FailDuty
  <2>2. CASE Step("recovered")
    BY <2>2, StepDuty
  <2>3. CASE ~Fail /\ ~Step("recovered")
    <3>1. /\ UNCHANGED <<device, active, journal, taken, back>> /\ pc' = "slots"
          /\ seen'.incoming = (incoming # Absent) /\ seen'.verify = (verify # Absent)
      BY <1>3, <2>3 DEF RecoverKnownFile, Goto, local, aux
    <3> QED BY <3>1 DEF DutyInv, TakenFirst, InOrder, ReturnAlone, ReturnUnderWay, UnderWay,
                        Replacing, PlacedPcs, EmptiedPcs, MakingPcs, device
  <2> QED BY <2>1, <2>2, <2>3
<1>4. CASE RecoverSlots
  <2>0. pc = "slots" /\ mode # "op"
    BY <1>4, <1>o DEF RecoverSlots
  <2>1. CASE Fail
    BY <2>1, FailDuty
  <2>2. CASE Step("interrupted") /\ ResumeReadBack(journal)
    <3>1. /\ UNCHANGED <<device, active, journal, taken, back>> /\ pc' = "interrupted"
          /\ journal.operation = "replace" /\ journal.incomingPlaceIntent
          /\ journal.captured # Absent
      BY <2>2 DEF Step, Goto, local, aux, ResumeReadBack, Resumable
    <3> QED BY <1>j, <1>k, <2>0, <3>1
            DEF DutyInv, TakenFirst, InOrder, ReturnAlone, ReturnUnderWay, UnderWay,
                Replacing, PlacedPcs, EmptiedPcs, MakingPcs, device
  <2>3. CASE Step("place") /\ ResumePlacement(journal)
    <3>1. /\ UNCHANGED <<device, active, journal, taken, back>> /\ pc' = "place"
          /\ journal.operation = "replace" /\ journal.incomingPlaceIntent
          /\ journal.captured # Absent
      BY <2>3 DEF Step, Goto, local, aux, ResumePlacement, Resumable
    <3> QED BY <1>j, <1>k, <2>0, <3>1
            DEF DutyInv, TakenFirst, InOrder, ReturnAlone, ReturnUnderWay, UnderWay,
                Replacing, PlacedPcs, EmptiedPcs, MakingPcs, device
  <2>4. CASE Record([journal EXCEPT !.newVerified = TRUE], "commitNew") /\ ResumeReturn(journal)
    <3>1. /\ journal.operation = "replace" /\ journal.incomingPlaceIntent
          /\ journal.captured # Absent /\ ~journal.committed /\ seen.verify /\ ~seen.incoming
          /\ UNCHANGED <<device, taken, back>> /\ pc' = "commitNew" /\ active' = journal'
          /\ journal' = [journal EXCEPT !.newVerified = TRUE]
      BY <2>4 DEF Record, Save, Goto, aux, ResumeReturn, Resumable
    <3>2. SameExcept(active', journal, {"newVerified"}) /\ active'.newVerified = TRUE
      BY <1>j, <3>1, FieldUpdates
    <3> QED BY <1>j, <1>k, <2>0, <3>1, <3>2
            DEF DutyInv, TakenFirst, InOrder, ReturnAlone, ReturnUnderWay, UnderWay,
                Replacing, PlacedPcs, EmptiedPcs, MakingPcs, device, SameExcept
  <2>5. CASE Step("classify") /\ journal.operation = "delete"
    BY <1>j, <1>m, <2>5 DEF Step, Goto, local, aux, Replacing
  <2>6. CASE Step("probe") /\ ~ResumeReturn(journal)
    <3>1. UNCHANGED <<device, active, journal, seen, taken, back>> /\ pc' = "probe"
      BY <2>6 DEF Step, Goto, local, aux
    <3>2. Replacing /\ active.returnNewIntent /\ ~active.committed => ~seen.verify
      <4>1. SUFFICES ASSUME Replacing, active.returnNewIntent, ~active.committed
                     PROVE  ~seen.verify
        OBVIOUS
      <4>2. Resumable(journal) /\ ~seen.incoming
        BY <1>j, <2>0, <4>1 DEF DutyInv, TakenFirst, InOrder, Resumable, Replacing
      <4> QED BY <2>6, <4>2 DEF ResumeReturn
    <3> QED BY <2>0, <3>1, <3>2
            DEF DutyInv, TakenFirst, InOrder, ReturnAlone, ReturnUnderWay, UnderWay,
                Replacing, PlacedPcs, EmptiedPcs, MakingPcs, device
  <2> QED BY <1>4, <2>1, <2>2, <2>3, <2>4, <2>5, <2>6 DEF RecoverSlots
<1>5. CASE Interrupted
  <2>1. CASE Fail
    BY <2>1, FailDuty
  <2>2. CASE ~Fail
    <3>1. /\ pc = "interrupted" /\ pc' = "resendReadBack" /\ incoming = Absent /\ active' = journal'
          /\ journal' = [journal EXCEPT !.verifyMoveIntent = TRUE]
          /\ UNCHANGED <<device, taken, back>>
      BY <1>5, <2>2 DEF Interrupted, Record, Save, Goto, aux
    <3>2. SameExcept(active', journal, {"verifyMoveIntent"})
      BY <1>j, <3>1, FieldUpdates
    <3> QED BY <1>j, <3>1, <3>2
            DEF DutyInv, TakenFirst, InOrder, ReturnAlone, ReturnUnderWay, UnderWay,
                Replacing, PlacedPcs, EmptiedPcs, MakingPcs, device, SameExcept
  <2> QED BY <2>1, <2>2
<1>6. CASE ResendReadBack
  <2>1. /\ moves' = <<"readBack">> /\ pc = "resendReadBack" /\ pc' = "rewaitVerify"
        /\ UNCHANGED <<original, incoming, verify, active, journal, taken, back>>
    BY <1>6 DEF ResendReadBack, Send, Goto, slots, local
  <2>2. ~UnderWay("fromOriginal")'
    BY <2>1 DEF UnderWay
  <2> QED BY <2>1, <2>2 DEF DutyInv, TakenFirst, InOrder, ReturnAlone, ReturnUnderWay,
                            Replacing, PlacedPcs, EmptiedPcs, MakingPcs
<1>7. CASE RewaitVerify
  <2>1. /\ pc = "rewaitVerify" /\ pc' = "rereadVerify"
        /\ UNCHANGED <<device, active, journal, taken, back>>
    BY <1>7 DEF RewaitVerify, Step, Goto, local, aux
  <2> QED BY <2>1 DEF DutyInv, TakenFirst, InOrder, ReturnAlone, ReturnUnderWay, UnderWay,
                      Replacing, PlacedPcs, EmptiedPcs, MakingPcs, device
<1>8. CASE RereadVerify
  <2>1. /\ pc = "rereadVerify" /\ active' = journal' /\ UNCHANGED <<device, taken, back>>
        /\ \/ journal' = [journal EXCEPT !.newVerified = TRUE] /\ pc' = "commitNew"
           \/ journal' = [journal EXCEPT !.readBackMismatch = TRUE] /\ pc' = "mismatch"
    <3>1. CASE Record([journal EXCEPT !.newVerified = TRUE], "commitNew")
      BY <1>8, <3>1 DEF RereadVerify, Record, Save, Goto, aux
    <3>2. CASE Record([journal EXCEPT !.readBackMismatch = TRUE], "mismatch")
      BY <1>8, <3>2 DEF RereadVerify, Record, Save, Goto, aux
    <3> QED BY <1>8, <3>1, <3>2 DEF RereadVerify
  <2>2. CASE journal' = [journal EXCEPT !.newVerified = TRUE] /\ pc' = "commitNew"
    <3>1. SameExcept(active', journal, {"newVerified"}) /\ active'.newVerified = TRUE
      BY <1>j, <2>1, <2>2, FieldUpdates
    <3> QED BY <1>j, <2>1, <2>2, <3>1
            DEF DutyInv, TakenFirst, InOrder, ReturnAlone, ReturnUnderWay, UnderWay,
                Replacing, PlacedPcs, EmptiedPcs, MakingPcs, device, SameExcept
  <2>3. CASE journal' = [journal EXCEPT !.readBackMismatch = TRUE] /\ pc' = "mismatch"
    <3>1. SameExcept(active', journal, {"readBackMismatch"})
      BY <1>j, <2>1, <2>3, FieldUpdates
    <3> QED BY <1>j, <2>1, <2>3, <3>1
            DEF DutyInv, TakenFirst, InOrder, ReturnAlone, ReturnUnderWay, UnderWay,
                Replacing, PlacedPcs, EmptiedPcs, MakingPcs, device, SameExcept
  <2> QED BY <2>1, <2>2, <2>3
<1>9. CASE Mismatch
  <2>1. /\ pc' \in {"finish", "report"} /\ moves' \in {moves, <<"return">>}
        /\ UNCHANGED <<original, incoming, verify, active, taken, back>>
    BY <1>9 DEF Mismatch, FailLabel, Goto, slots, local
  <2>2. UnderWay("fromOriginal")' => UnderWay("fromOriginal")
    BY <2>1 DEF UnderWay
  <2>3. Uninvolved
    BY <2>1, <2>2 DEF Uninvolved, SameDuty
  <2> QED BY <2>3, UninvolvedDuty
<1>10. CASE ProbeTarget
  <2>1. CASE Fail
    BY <2>1, FailDuty
  <2>2. CASE ~Fail
    <3>1. PICK presence \in Presence :
            /\ seen' = [seen EXCEPT !.target = presence]
            /\ pc' = (IF ~SafeOriginalReturn(journal, presence) THEN "classify"
                     ELSE IF seen.incoming THEN "discard" ELSE "checkReturn")
      BY <1>10, <2>2 DEF ProbeTarget, Goto
    <3>2. UNCHANGED <<device, active, journal, taken, back>> /\ pc = "probe"
      BY <1>10, <2>2 DEF ProbeTarget, local, aux
    <3>3. seen'.incoming = seen.incoming /\ seen'.verify = seen.verify
      BY <1>t, <3>1 DEF TypeOK, Seen
    <3>4. pc' # "classify" => ~journal.newVerified /\ ~journal.returnNewIntent /\ ~journal.committed
      BY <3>1 DEF SafeOriginalReturn
    <3>5. pc' \in {"classify", "discard", "checkReturn"}
      BY <3>1
    <3> QED BY <1>j, <3>2, <3>3, <3>4, <3>5
            DEF DutyInv, TakenFirst, InOrder, ReturnAlone, ReturnUnderWay, UnderWay,
                Replacing, PlacedPcs, EmptiedPcs, MakingPcs, device
  <2> QED BY <2>1, <2>2
<1>11. CASE Discard
  <2>1. /\ pc = "discard" /\ pc' \in {"checkReturn", "discarded", "classify"}
        /\ incoming' \in {incoming, Absent}
        /\ UNCHANGED <<original, verify, moves, active, journal, seen, taken, back>>
    BY <1>11 DEF Discard, Step, Goto, device, local, aux
  <2> QED BY <1>j, <2>1
          DEF DutyInv, TakenFirst, InOrder, ReturnAlone, ReturnUnderWay, UnderWay,
              Replacing, PlacedPcs, EmptiedPcs, MakingPcs
<1>12. CASE Discarded
  <2>1. /\ pc = "discarded" /\ pc' = "checkReturn" /\ active' = journal'
        /\ journal' = [journal EXCEPT !.incomingPlaceIntent = FALSE]
        /\ UNCHANGED <<device, taken, back>>
    BY <1>12 DEF Discarded, Record, Save, Goto, aux
  <2>2. SameExcept(active', journal, {"incomingPlaceIntent"})
    BY <1>j, <2>1, FieldUpdates
  <2>3. ~active.committed /\ ~active.returnNewIntent
    BY <1>j, <2>1 DEF DutyInv, ReturnAlone
  <2>4. Uninvolved
    BY <1>j, <2>1, <2>2, <2>3 DEF Uninvolved, SameDuty, SameExcept, UnderWay, device
  <2> QED BY <2>4, UninvolvedDuty
<1>13. CASE CloseDelete
  <2>1. Fail \/ Step("recovered")
    BY <1>13 DEF CloseDelete
  <2> QED BY <2>1, FailDuty, StepDuty
<1>14. CASE CloseReturned
  <2>1. \/ Fail \/ Step("recovered")
        \/ Record([journal EXCEPT !.originalReturned = TRUE], "recovered")
    BY <1>14 DEF CloseReturned
  <2>2. CASE Record([journal EXCEPT !.originalReturned = TRUE], "recovered")
    <3>1. SameExcept([journal EXCEPT !.originalReturned = TRUE], journal, {"originalReturned"})
      BY <1>j, FieldUpdates
    <3>2. mode # "op"
      BY <1>14, <1>o DEF CloseReturned
    <3> QED BY <1>e, <2>2, <3>1, <3>2, RecordDuty DEF SameExcept
  <2> QED BY <2>1, <2>2, FailDuty, StepDuty
<1>15. CASE ConfirmCommit
  <2>1. /\ pc = "classify" /\ pc' = "classify" /\ active' = journal'
        /\ journal' = [journal EXCEPT !.committed = TRUE]
        /\ UNCHANGED <<device, seen, taken, back>>
        /\ journal.newVerified /\ journal.returnNewIntent /\ ~seen.verify /\ ~seen.incoming
    BY <1>15 DEF ConfirmCommit, Record, Save, Goto, aux, OpenCommit
  <2>2. SameExcept(active', journal, {"committed"}) /\ active'.committed = TRUE
    BY <1>j, <2>1, FieldUpdates
  <2>3. TakenFirst'
    BY <1>j, <1>o, <2>1, <2>2 DEF DutyInv, TakenFirst, Replacing, SameExcept
  <2>4. InOrder'
    BY <1>j, <2>1, <2>2 DEF DutyInv, InOrder, Replacing, SameExcept, PlacedPcs, EmptiedPcs,
                            MakingPcs, device
  <2>5. Replacing /\ ReturnUnderWay => FALSE
    BY <1>j, <2>1 DEF DutyInv, ReturnAlone
  <2>6. ReturnAlone'
    BY <1>j, <2>1, <2>2, <2>5 DEF ReturnAlone, ReturnUnderWay, UnderWay, Replacing, device,
                                  SameExcept
  <2> QED BY <2>3, <2>4, <2>6 DEF DutyInv
<1>16. CASE CloseCommitted
  <2>1. Fail \/ Step("dropOriginal") \/ Step("recovered")
    BY <1>16 DEF CloseCommitted
  <2> QED BY <2>1, FailDuty, StepDuty
<1>u. ASSUME UNCHANGED <<incoming, verify, moves, taken, back>>, original' \in {original, Absent},
             active' \in {active, NoJournal},
             pc' \in {"recovered", "recover", "close", "prepare", "report"}
      PROVE  DutyInv'
  <2>1. Uninvolved
    BY <1>u DEF Uninvolved, SameDuty, UnderWay
  <2> QED BY <2>1, UninvolvedDuty
<1>17. CASE DropOriginal
  BY <1>17, <1>u DEF DropOriginal, Goto, local, aux
<1>18. CASE RestoreOrPend
  <2>1. CASE Fail
    BY <2>1, FailDuty
  <2>2. CASE ~Fail
    <3>1. /\ pc = "classify" /\ pc' = "forceReturn" /\ active' = journal'
          /\ journal' = [journal EXCEPT !.originalObserved = TRUE]
          /\ UNCHANGED <<device, taken, back>> /\ ~journal.committed
          /\ journal.operation = "delete" \/ ~OpenCommit
      BY <1>18, <2>2 DEF RestoreOrPend, Record, Save, Goto, aux
    <3>2. SameExcept(active', journal, {"originalObserved"})
      BY <1>j, <3>1, FieldUpdates
    <3>3. ~active.returnNewIntent
      <4>1. SUFFICES ASSUME active.returnNewIntent
                     PROVE  FALSE
        OBVIOUS
      <4>2. active.operation = "replace"
        BY <1>j, <3>1, <4>1 DEF DutyInv, InOrder, PromiseInv, LabelsOK, Creating, Journal,
                                Operations
      <4>3. OpenCommit
        BY <1>j, <3>1, <4>1, <4>2 DEF DutyInv, InOrder, Replacing, OpenCommit
      <4> QED BY <1>j, <3>1, <4>2, <4>3
    <3>4. Uninvolved
      BY <1>j, <3>1, <3>2, <3>3 DEF Uninvolved, SameDuty, SameExcept, UnderWay, device
    <3> QED BY <3>4, UninvolvedDuty
  <2> QED BY <2>1, <2>2
<1>19. CASE RestoreRecovered
  BY <1>19, <1>u DEF RestoreRecovered, Goto, device, aux
<1>20. CASE CleanGeneratedStage
  BY <1>20, <1>u DEF CleanGeneratedStage, Goto, slots, local, aux
<1>21. CASE RemoveActive
  BY <1>21, <1>u DEF RemoveActive, Goto, device, aux
<1> QED
  BY <1>1, <1>2, <1>3, <1>4, <1>5, <1>6, <1>7, <1>8, <1>9, <1>10, <1>11, <1>12, <1>13, <1>14,
     <1>15, <1>16, <1>17, <1>18, <1>19, <1>20, <1>21 DEF RecoveryStep

\* The beginning of a call, failures, the device and the application.
LEMMA OtherStepDuty ==
  ASSUME IInv, PromiseInv, AheadInv, OwnInv, DutyInv, [Next]_vars, ~CallStep, ~RecoveryStep
  PROVE  DutyInv'
<1> USE NoJournalAssumption DEF DutyPcs, NewPcs, PlacingPcs, SlotPcs, ReturnPcs, TakingPcs
<1>t. TypeOK
  BY DEF IInv, TypeInv
<1>b. ASSUME UNCHANGED <<device, active, taken, back>>,
             pc' \in {"idle", "recover", "report", "prepare"}
      PROVE  DutyInv'
  <2>1. Uninvolved
    BY <1>b DEF Uninvolved, SameDuty, UnderWay, device
  <2> QED BY <2>1, UninvolvedDuty
<1>1. ASSUME NEW k \in Kinds, NEW d \in File, BeginCall(k, d)
      PROVE  DutyInv'
  BY <1>1, <1>b DEF BeginCall, Goto, aux
<1>2. CASE BeginRestore
  BY <1>2, <1>b DEF BeginRestore, Goto, aux
<1>3. CASE IoError
  <2>1. CASE Fail
    BY <2>1, FailDuty
  <2>2. CASE pc \in {"discard", "discarded"} /\ Step("classify")
    <3>1. UNCHANGED <<device, active, journal, seen, taken, back>> /\ pc' = "classify"
      BY <2>2 DEF Step, Goto, local, aux
    <3> QED BY <2>2, <3>1
            DEF DutyInv, TakenFirst, InOrder, ReturnAlone, ReturnUnderWay, UnderWay,
                Replacing, PlacedPcs, EmptiedPcs, MakingPcs, device
  <2> QED BY <1>3, <2>1, <2>2 DEF IoError
<1>4. CASE WaitTimeout
  BY <1>4, FailDuty DEF WaitTimeout
<1>5. CASE Crash
  BY <1>5, <1>b DEF Crash, Goto, aux
\* A move that was executed or dropped does not return an original any more.
<1>m. ASSUME moves # <<>>, moves' = Tail(moves), UNCHANGED <<active, journal, pc, mode, seen>>,
             incoming' \in {incoming, Absent}, taken # Absent => taken' = taken,
             back' /\ ~back => taken # Absent
      PROVE  DutyInv'
  <2>1. ~UnderWay("fromOriginal")'
    BY <1>m, <1>t, TailMoves DEF TypeOK, FillsTarget
  <2> QED BY <1>m, <2>1
          DEF DutyInv, TakenFirst, InOrder, ReturnAlone, ReturnUnderWay, Replacing, PlacedPcs,
              EmptiedPcs, MakingPcs
<1>6. CASE ExecuteMove
  <2>1. /\ moves # <<>> /\ moves' = Tail(moves) /\ UNCHANGED <<active, journal, pc, mode, seen>>
        /\ incoming' \in {incoming, Absent} /\ (taken # Absent => taken' = taken)
    BY <1>6 DEF ExecuteMove, local, worker
  <2>2. back' /\ ~back => original # Absent
    BY <1>6 DEF ExecuteMove, Source
  <2>3. original # Absent => taken # Absent
    BY DEF IInv, CustodyInv, OneOriginal
  <2> QED BY <1>m, <2>1, <2>2, <2>3
<1>7. CASE DropMove
  BY <1>7, <1>m DEF DropMove, slots, local, worker, aux
<1>8. CASE AppWrites
  <2>1. UNCHANGED <<original, incoming, verify, moves, active, journal, pc, seen, taken, back>>
    BY <1>8 DEF AppWrites, slots, local, worker
  <2> QED BY <2>1
          DEF DutyInv, TakenFirst, InOrder, ReturnAlone, ReturnUnderWay, UnderWay,
              Replacing, PlacedPcs, EmptiedPcs, MakingPcs
<1>9. CASE UNCHANGED <<device, local, worker, aux>>
  BY <1>9 DEF DutyInv, TakenFirst, InOrder, ReturnAlone, ReturnUnderWay, UnderWay, Replacing,
              PlacedPcs, EmptiedPcs, MakingPcs, device, local, worker, aux
<1>10. CASE Settle
  BY <1>9, <1>10 DEF Settle
<1>11. CASE UNCHANGED vars
  BY <1>9, <1>11 DEF vars
<1> QED
  BY <1>1, <1>2, <1>3, <1>4, <1>5, <1>6, <1>7, <1>8, <1>10, <1>11
     DEF Next, Begin, Worker, Device

\* A return of an original never meets the end of a replacement.
LEMMA DutyInvariant == Spec => []DutyInv
<1>1. Init => DutyInv
  BY DEF Init, DutyInv, TakenFirst, InOrder, ReturnAlone, Replacing, TakingPcs, ReturnPcs
<1>2. IInv /\ PromiseInv /\ AheadInv /\ OwnInv /\ DutyInv /\ [Next]_vars => DutyInv'
  BY CallStepDuty, RecoveryStepDuty, OtherStepDuty
<1> QED
  BY <1>1, <1>2, PromiseInvariant, AheadInvariant, OwnInvariant, PTL DEF Spec

-----------------------------------------------------------------------------
(***************************************************************************)
(* Every step is a step of a custodian                                     *)
(***************************************************************************)
\* After a step the copies are copies of what was taken, and there is one while
\* the application does not have its bytes.
LEMMA CopiesThere ==
  ASSUME IInv'
  PROVE  Custody!Copied
  BY DEF IInv, CustodyInv, OneOriginal, OriginalNeverLost, CustodyStatus, Custody!Copied

\* The transaction stays what it is, committed or not.
SameTransaction ==
  \/ active = NoJournal /\ active' = NoJournal
  \/ /\ active # NoJournal /\ active' # NoJournal
     /\ active'.operation = active.operation \/ {active'.operation, active.operation} \subseteq
                                                  {"replace", "create"}
     /\ active'.committed = active.committed

\* Then only copies are made or given up.
LEMMA OnlyCopies ==
  ASSUME IInv', SameTransaction, UNCHANGED <<taken, back>>
  PROVE  Custody!Copy
<1>1. CustodyKind' = CustodyKind /\ CustodyStatus' = CustodyStatus
  BY DEF SameTransaction, CustodyKind, CustodyStatus
<1> QED BY <1>1, CopiesThere DEF Custody!Copy

\* A transaction that is committed in a step is released from what it holds.
LEMMA CommitStep ==
  ASSUME IInv', PromiseInv', active # NoJournal, active' # NoJournal,
         active'.operation = active.operation, active'.committed = TRUE,
         UNCHANGED <<taken, back>>
  PROVE  Custody!Release \/ Custody!Copy
<1>1. CustodyKind' = CustodyKind
  BY DEF CustodyKind
<1>2. CustodyKind # "read" /\ CustodyKind # "none"
  BY DEF PromiseInv, FlagsOK, CustodyKind
<1>3. CustodyKind \in {"write", "delete"}
  BY <1>2 DEF CustodyKind
<1>4. CustodyStatus' = CustodyStatus \/ (CustodyStatus = "held" /\ CustodyStatus' = "released")
  BY DEF CustodyStatus
<1> QED BY <1>1, <1>3, <1>4, CopiesThere DEF Custody!Copy, Custody!Release

\* What a step saves of a journal without committing it.
Saved(j) ==
  {[j EXCEPT !.originalMoveIntent = TRUE], [j EXCEPT !.originalObserved = TRUE],
   [j EXCEPT !.originalReturned = TRUE], [j EXCEPT !.returnOriginalIntent = TRUE],
   [j EXCEPT !.incomingPlaceIntent = TRUE], [j EXCEPT !.incomingPlaceIntent = FALSE],
   [j EXCEPT !.incomingPlaceIntent = TRUE, !.verifyMoveIntent = TRUE],
   [j EXCEPT !.verifyMoveIntent = TRUE], [j EXCEPT !.newVerified = TRUE],
   [j EXCEPT !.returnNewIntent = TRUE], [j EXCEPT !.readBackMismatch = TRUE],
   [j EXCEPT !.newDigest = call.data], [j EXCEPT !.captured = snapshot]}

\* It is a journal of the same operation, committed or not as before.
LEMMA SavedSame ==
  ASSUME TypeOK, NEW j \in Journal, NEW i \in Saved(j)
  PROVE  i \in Journal /\ i.operation = j.operation /\ i.committed = j.committed
<1>1. call.data \in File /\ snapshot \in File
  BY DEF TypeOK, Call
<1>2. i \in Journal
  <2>1. /\ [j EXCEPT !.originalMoveIntent = TRUE] \in Journal
        /\ [j EXCEPT !.originalObserved = TRUE] \in Journal
        /\ [j EXCEPT !.originalReturned = TRUE] \in Journal
        /\ [j EXCEPT !.returnOriginalIntent = TRUE] \in Journal
        /\ [j EXCEPT !.incomingPlaceIntent = TRUE] \in Journal
        /\ [j EXCEPT !.incomingPlaceIntent = FALSE] \in Journal
        /\ [j EXCEPT !.incomingPlaceIntent = TRUE, !.verifyMoveIntent = TRUE] \in Journal
        /\ [j EXCEPT !.verifyMoveIntent = TRUE] \in Journal
        /\ [j EXCEPT !.newVerified = TRUE] \in Journal
        /\ [j EXCEPT !.returnNewIntent = TRUE] \in Journal
        /\ [j EXCEPT !.readBackMismatch = TRUE] \in Journal
    BY JournalUpdates, Zenon
  <2>2. [j EXCEPT !.newDigest = call.data] \in Journal /\ [j EXCEPT !.captured = snapshot] \in Journal
    BY <1>1, JournalUpdates, Zenon
  <2> QED BY <2>1, <2>2, Zenon DEF Saved
<1>3. i.operation = j.operation /\ i.committed = j.committed
  BY DEF Saved, Journal
<1> QED BY <1>2, <1>3

\* The two journals are of the same transaction.
LEMMA OneTransaction ==
  ASSUME IInv, PromiseInv, pc \in OpenPcs
  PROVE  /\ journal \in Journal /\ active # NoJournal
         /\ active.operation = journal.operation /\ active.committed = journal.committed
  BY SavedOperation DEF PromiseInv, Agree

\* A step that saves nothing, or nothing but such a journal, at most copies.
LEMMA KeptStep ==
  ASSUME IInv, IInv', PromiseInv, UNCHANGED <<taken, back>>,
         active' = active \/ (pc \in OpenPcs /\ active' \in Saved(journal))
  PROVE  Custody!Next
<1>1. CASE active' = active
  BY <1>1, OnlyCopies DEF SameTransaction, Custody!Next
<1>2. CASE pc \in OpenPcs /\ active' \in Saved(journal)
  <2>1. /\ active' \in Journal /\ active'.operation = active.operation
        /\ active'.committed = active.committed /\ active # NoJournal
    BY <1>2, OneTransaction, SavedSame DEF IInv, TypeInv
  <2>2. SameTransaction
    BY <2>1, NoJournalAssumption DEF SameTransaction
  <2> QED BY <2>2, OnlyCopies DEF Custody!Next
<1> QED BY <1>1, <1>2

\* A step that commits.
LEMMA CommitsStep ==
  ASSUME IInv, IInv', PromiseInv, PromiseInv', UNCHANGED <<taken, back>>, pc \in OpenPcs,
         active' = [journal EXCEPT !.committed = TRUE]
  PROVE  Custody!Next
<1>1. journal \in Journal /\ active.operation = journal.operation /\ active # NoJournal
  BY OneTransaction
<1>2. [journal EXCEPT !.committed = TRUE] \in Journal
  BY <1>1, JournalUpdates
<1>3. active'.operation = active.operation /\ active'.committed = TRUE /\ active' # NoJournal
  BY <1>1, <1>2, NoJournalAssumption DEF Journal
<1> QED BY <1>1, <1>3, CommitStep DEF Custody!Next

\* The steps of a call: they begin a transaction, commit it, or copy.
LEMMA CallStepCustodian ==
  ASSUME IInv, IInv', PromiseInv, PromiseInv', DutyInv, CallStep
  PROVE  Custody!Next
<1> USE NoJournalAssumption DEF OpenPcs, Pcs, SendPcs, WaitPcs, RecoveryPcs, OtherPcs
<1>t. TypeOK
  BY DEF IInv, TypeInv
<1>j. pc \in OpenPcs =>
        /\ journal \in Journal /\ active # NoJournal
        /\ active.operation = journal.operation /\ active.committed = journal.committed
  BY SavedOperation DEF PromiseInv, Agree
<1>k. ASSUME UNCHANGED <<active, taken, back>>
      PROVE  Custody!Next
  BY <1>k, KeptStep
<1>r. ASSUME pc \in OpenPcs, UNCHANGED <<taken, back>>, active' \in Saved(journal)
      PROVE  Custody!Next
  BY <1>r, KeptStep
<1>1. CASE PrepareKnownFile
  <2>1. active = NoJournal /\ active' = FreshJournal(call.kind, call.data)
        /\ call.kind \in Operations
        /\ original' = Absent /\ snapshot' = Absent /\ taken' = Absent
    BY <1>1, <1>t DEF PrepareKnownFile, Save, PromiseInv, Agree, IInv, TypeInv, PreparesCall
  <2>2. active' # NoJournal
    <3>1. FreshJournal(call.kind, call.data) \in Journal
      BY <1>t, <2>1 DEF FreshJournal, Journal, TypeOK, Call, File
    <3> QED BY <2>1, <3>1
  <2>3. CustodyKind = "none" /\ CustodyKind' \in {"read", "write", "delete"}
    BY <2>1, <2>2 DEF CustodyKind
  <2>4. CustodyStatus' = "theirs"
    BY <2>1 DEF CustodyStatus
  <2>5. ({original, snapshot} \ {Absent})' = {}
    BY <2>1
  <2> QED BY <2>1, <2>3, <2>4, <2>5 DEF Custody!Next, Custody!Begin
<1>2. CASE \/ OpenCreateProbe \/ OpenReadOrDelete \/ SendOriginal \/ ReadOriginal \/ SendReturn
           \/ WriteKnownIncoming \/ SendPlacement \/ WaitIncoming \/ WaitVerify \/ SendNew
           \/ SendCreation \/ SendReadBack \/ CommitDeleteRefused \/ Finish \/ Report
  <2>1. UNCHANGED <<active, taken, back>>
    BY <1>2 DEF OpenCreateProbe, OpenReadOrDelete, SendOriginal, ReadOriginal, SendReturn,
                WriteKnownIncoming, SendPlacement, WaitIncoming, WaitVerify, SendNew, SendCreation,
                SendReadBack, CommitDeleteRefused, Finish, Report, Send, Step, Fail, local, aux
  <2> QED BY <1>k, <2>1
<1>f. CASE Fail
  BY <1>f, <1>k DEF Fail, local, aux
<1>3. CASE OpenReplace
  <2>1. CASE Save([journal EXCEPT !.operation = "create"])
    <3>1. /\ pc = "opened" /\ UNCHANGED <<taken, back>> /\ journal.operation = "replace"
          /\ active' = [journal EXCEPT !.operation = "create"]
      BY <1>3, <2>1 DEF OpenReplace, Save, PromiseInv, LabelsOK, TakingPcs
    <3>2. journal \in Journal /\ active.committed = journal.committed
      BY <3>1, OneTransaction
    <3>3. [journal EXCEPT !.operation = "create"] \in Journal
      BY <3>2, JournalUpdates
    <3>4. /\ active'.operation = "create" /\ active'.committed = active.committed
          /\ active' # NoJournal
      BY <3>1, <3>2, <3>3 DEF Journal
    <3>5. SameTransaction
      BY <3>1, <3>4, OneTransaction DEF SameTransaction
    <3> QED BY <3>1, <3>5, OnlyCopies DEF Custody!Next
  <2>2. CASE UNCHANGED <<active, taken, back>>
    BY <1>k, <2>2
  <2> QED BY <1>3, <2>1, <2>2 DEF OpenReplace
<1>4. CASE ObserveKnownOriginal /\ ~Fail
  <2>1. pc = "observe" /\ Record([journal EXCEPT !.originalMoveIntent = TRUE], "sendOriginal")
    BY <1>4 DEF ObserveKnownOriginal
  <2> QED BY <1>r, <2>1 DEF Record, Save, aux, Saved
<1>5. CASE WaitOriginal
  BY <1>r, <1>5 DEF WaitOriginal, Record, Save, aux, Saved
<1>6. CASE PersistKnownOriginal
  BY <1>r, <1>6 DEF PersistKnownOriginal, Save, aux, Saved
<1>7. CASE ReadWithoutData
  <2>1. CASE UNCHANGED active
    BY <1>k, <1>7, <2>1 DEF ReadWithoutData, aux
  <2>2. CASE active' = [journal EXCEPT !.captured = snapshot]
    <3>1. pc \in OpenPcs /\ UNCHANGED <<taken, back>>
      BY <1>7 DEF ReadWithoutData, aux
    <3> QED BY <1>r, <2>2, <3>1 DEF Saved
  <2> QED BY <1>7, <2>1, <2>2 DEF ReadWithoutData
<1>8. CASE CheckReturn /\ ~Fail
  <2>1. /\ pc = "checkReturn" /\ UNCHANGED <<taken, back>>
        /\ active' = [journal EXCEPT !.returnOriginalIntent = TRUE]
    BY <1>8 DEF CheckReturn, Save
  <2> QED BY <1>r, <2>1 DEF Saved
<1>9. CASE ForceReturn
  <2>1. /\ pc = "forceReturn" /\ UNCHANGED <<taken, back>>
        /\ active' = [journal EXCEPT !.returnOriginalIntent = TRUE]
    BY <1>9 DEF ForceReturn, Save
  <2> QED BY <1>r, <2>1 DEF Saved
<1>10. CASE WaitReturn
  <2>1. /\ pc = "waitReturn" /\ UNCHANGED <<taken, back>>
        /\ active' = [journal EXCEPT !.originalReturned = TRUE]
    BY <1>10 DEF WaitReturn, Record, Save, aux
  <2> QED BY <1>r, <2>1 DEF Saved
<1>11. CASE Stage
  <2>1. /\ pc = "stage" /\ UNCHANGED <<taken, back>>
        /\ active' = [journal EXCEPT !.newDigest = call.data]
    BY <1>11 DEF Stage, Record, Save, aux
  <2> QED BY <1>r, <2>1 DEF Saved
<1>12. CASE Place /\ ~Fail
  <2>1. /\ pc = "place" /\ UNCHANGED <<taken, back>>
        /\ active' = [journal EXCEPT !.incomingPlaceIntent = TRUE, !.verifyMoveIntent = TRUE]
    BY <1>12 DEF Place, Record, Save, aux
  <2> QED BY <1>r, <2>1 DEF Saved
<1>13. CASE ReadVerify /\ ~Fail
  <2>1. /\ pc = "readVerify" /\ UNCHANGED <<taken, back>>
        /\ active' = [journal EXCEPT !.newVerified = TRUE]
    BY <1>13 DEF ReadVerify, Record, Save, aux
  <2> QED BY <1>r, <2>1 DEF Saved
<1>14. CASE CommitNew
  <2>1. /\ pc = "commitNew" /\ UNCHANGED <<taken, back>>
        /\ active' = [journal EXCEPT !.returnNewIntent = TRUE]
    BY <1>14 DEF CommitNew, Record, Save, aux
  <2> QED BY <1>r, <2>1 DEF Saved
<1>15. CASE Create
  <2>1. /\ pc = "create" /\ UNCHANGED <<taken, back>>
        /\ active' = [journal EXCEPT !.incomingPlaceIntent = TRUE]
    BY <1>15 DEF Create, Record, Save, aux
  <2> QED BY <1>r, <2>1 DEF Saved
<1>16. CASE WaitCreation
  <2>1. /\ pc = "waitCreation" /\ UNCHANGED <<taken, back>>
        /\ active' = [journal EXCEPT !.verifyMoveIntent = TRUE]
    BY <1>16 DEF WaitCreation, Record, Save, aux
  <2> QED BY <1>r, <2>1 DEF Saved
<1>17. CASE WaitNew
  <2>1. /\ pc = "waitNew" /\ UNCHANGED <<taken, back>>
        /\ active' = [journal EXCEPT !.committed = TRUE]
    BY <1>17 DEF WaitNew, Save, aux
  <2> QED BY <2>1, CommitsStep
<1>18. CASE CommitDelete
  <2>1. PICK absence \in BOOLEAN :
          Save([journal EXCEPT !.committed = TRUE, !.targetAbsenceConfirmed = absence])
    BY <1>18 DEF CommitDelete
  <2>2. pc = "commitDelete" /\ UNCHANGED <<taken, back>>
    BY <1>18 DEF CommitDelete, aux
  <2>3. [journal EXCEPT !.committed = TRUE, !.targetAbsenceConfirmed = absence] \in Journal
    BY <2>2, OneTransaction, JournalUpdates
  <2>4. active'.operation = active.operation /\ active'.committed = TRUE /\ active' # NoJournal
    BY <2>1, <2>2, <2>3, OneTransaction DEF Save, Journal
  <2> QED BY <2>2, <2>4, OneTransaction, CommitStep DEF Custody!Next
<1> QED
  BY <1>f, <1>1, <1>2, <1>3, <1>4, <1>5, <1>6, <1>7, <1>8, <1>9, <1>10, <1>11, <1>12, <1>13, <1>14,
     <1>15, <1>16, <1>17, <1>18 DEF CallStep

\* The journal is removed when nothing is held.
LEMMA CloseStep ==
  ASSUME IInv, IInv', PromiseInv, RemoveActive
  PROVE  Custody!Close
<1>1. /\ pc = "close" /\ active' = NoJournal /\ UNCHANGED <<original, snapshot, taken, back>>
      /\ active # NoJournal
  BY OneTransaction
     DEF RemoveActive, device, aux, OpenPcs, Pcs, SendPcs, WaitPcs, RecoveryPcs, OtherPcs
<1>2. taken = Absent \/ back \/ active.committed
  BY <1>1 DEF PromiseInv, LabelsOK, Untaken, GivenUp
<1>3. CustodyStatus' = CustodyStatus /\ CustodyStatus # "held"
  BY <1>1, <1>2 DEF CustodyStatus
<1>4. CustodyKind' = "none" /\ CustodyKind # "none"
  BY <1>1 DEF CustodyKind
<1> QED BY <1>1, <1>3, <1>4 DEF Custody!Close

\* The steps of a recovery: they commit, close or copy.
LEMMA RecoveryStepCustodian ==
  ASSUME IInv, IInv', PromiseInv, PromiseInv', RecoveryStep
  PROVE  Custody!Next
<1> USE DEF OpenPcs, Pcs, SendPcs, WaitPcs, RecoveryPcs, OtherPcs
<1>k. ASSUME UNCHANGED <<active, taken, back>>
      PROVE  Custody!Next
  BY <1>k, KeptStep
<1>r. ASSUME pc \in OpenPcs, UNCHANGED <<taken, back>>, active' \in Saved(journal)
      PROVE  Custody!Next
  BY <1>r, KeptStep
<1>f. CASE Fail
  BY <1>f, <1>k DEF Fail, local, aux
<1>s. ASSUME NEW label, Step(label)
      PROVE  Custody!Next
  BY <1>s, <1>k DEF Step, local, aux
<1>1. CASE \/ RecoverCreateProbe \/ RecoverKnownFile \/ ResendReadBack \/ RewaitVerify \/ Mismatch
           \/ ProbeTarget \/ Discard \/ CloseDelete \/ CloseCommitted \/ DropOriginal
           \/ RestoreRecovered \/ CleanGeneratedStage
  <2>1. UNCHANGED <<active, taken, back>>
    BY <1>1 DEF RecoverCreateProbe, RecoverKnownFile, ResendReadBack, RewaitVerify, Mismatch,
                ProbeTarget, Discard, CloseDelete, CloseCommitted, DropOriginal,
                RestoreRecovered, CleanGeneratedStage, Send, Step, Fail, local, aux
  <2> QED BY <1>k, <2>1
<1>2. CASE RecoverCreate
  <2>1. CASE Record([journal EXCEPT !.newVerified = TRUE], "commitNew")
    BY <1>r, <1>2, <2>1 DEF RecoverCreate, Record, Save, aux, Saved
  <2>2. CASE Record([journal EXCEPT !.committed = TRUE], "recovered")
    BY <1>2, <2>2, CommitsStep DEF RecoverCreate, Record, Save, aux
  <2>3. CASE UNCHANGED <<local, aux>>
    BY <1>k, <2>3 DEF local, aux
  <2> QED BY <1>2, <1>f, <1>s, <2>1, <2>2, <2>3 DEF RecoverCreate
<1>3. CASE RecoverSlots
  <2>1. CASE Record([journal EXCEPT !.newVerified = TRUE], "commitNew")
    BY <1>r, <1>3, <2>1 DEF RecoverSlots, Record, Save, aux, Saved
  <2> QED BY <1>3, <1>f, <1>s, <2>1 DEF RecoverSlots
<1>4. CASE Interrupted
  <2>1. CASE Record([journal EXCEPT !.verifyMoveIntent = TRUE], "resendReadBack")
    BY <1>r, <1>4, <2>1 DEF Interrupted, Record, Save, aux, Saved
  <2> QED BY <1>4, <1>f, <2>1 DEF Interrupted
<1>5. CASE RereadVerify
  <2>1. CASE Record([journal EXCEPT !.newVerified = TRUE], "commitNew")
    BY <1>r, <1>5, <2>1 DEF RereadVerify, Record, Save, aux, Saved
  <2>2. CASE Record([journal EXCEPT !.readBackMismatch = TRUE], "mismatch")
    BY <1>r, <1>5, <2>2 DEF RereadVerify, Record, Save, aux, Saved
  <2> QED BY <1>5, <2>1, <2>2 DEF RereadVerify
<1>6. CASE Discarded
  BY <1>r, <1>6 DEF Discarded, Record, Save, aux, Saved
<1>7. CASE CloseReturned
  <2>1. CASE Record([journal EXCEPT !.originalReturned = TRUE], "recovered")
    BY <1>r, <1>7, <2>1 DEF CloseReturned, Record, Save, aux, Saved
  <2> QED BY <1>7, <1>f, <1>s, <2>1 DEF CloseReturned
<1>8. CASE ConfirmCommit
  BY <1>8, CommitsStep DEF ConfirmCommit, Record, Save, aux
<1>9. CASE RestoreOrPend
  <2>1. CASE Record([journal EXCEPT !.originalObserved = TRUE], "forceReturn")
    BY <1>r, <1>9, <2>1 DEF RestoreOrPend, Record, Save, aux, Saved
  <2> QED BY <1>9, <1>f, <2>1 DEF RestoreOrPend
<1>10. CASE RemoveActive
  BY <1>10, CloseStep DEF Custody!Next
<1> QED
  BY <1>1, <1>2, <1>3, <1>4, <1>5, <1>6, <1>7, <1>8, <1>9, <1>10 DEF RecoveryStep

\* The device takes, returns or drops; nobody else but the engine is a custodian.
LEMMA DeviceCustodian ==
  ASSUME IInv, IInv', PromiseInv, AheadInv, DutyInv, ExecuteMove
  PROVE  Custody!Next
<1>1. moves \in Queues /\ moves # <<>> /\ active' = active /\ original \in File
  BY DEF ExecuteMove, IInv, TypeInv, TypeOK, local
<1>2. Head(moves) \in Moves /\ UnderWay(Head(moves))
  BY <1>1, TailMoves DEF ExecuteMove
<1>h. CustodyKind' = CustodyKind
  BY <1>1 DEF CustodyKind
<1>3. CASE UNCHANGED <<taken, back>>
  BY <1>1, <1>3, KeptStep
\* An original is taken.
<1>4. CASE taken' # taken
  <2>m. Head(moves) = "toOriginal" /\ taken = Absent
    BY <1>4 DEF ExecuteMove
  <2>t. taken' = target /\ target # Absent
    BY <1>4, <2>m DEF ExecuteMove, Source
  <2>b. back' = back
    BY <1>4, <2>m DEF ExecuteMove, IInv, TypeInv, TypeOK
  <2>1. Head(moves) = "toOriginal" /\ taken = Absent /\ taken' # Absent /\ back' = back
    BY <2>m, <2>t, <2>b
  <2>2. active # NoJournal /\ ~back
    BY <1>2, <2>1 DEF AheadInv, ClosingOK, DutyInv, TakenFirst
  <2>3. moves = <<"toOriginal">>
    BY <1>1, <1>2, <2>1, QueueAlone DEF UnderWay
  <2>4. ~active.committed
    <3>1. SUFFICES ASSUME active.committed
                   PROVE  FALSE
      OBVIOUS
    <3>2. active.operation = "replace"
      BY <2>1, <2>2, <2>3, <3>1
         DEF PromiseInv, FlagsOK, CommittedDeleteRetained, Untaken, IInv, TypeInv, TypeOK, Journal,
             Operations
    <3> QED BY <2>1, <2>2, <3>1, <3>2 DEF DutyInv, TakenFirst, InOrder, Replacing
  <2>5. CustodyStatus = "theirs" /\ CustodyStatus' = "held" /\ CustodyKind # "none"
    BY <1>1, <2>1, <2>2, <2>4 DEF CustodyStatus, CustodyKind
  <2> QED BY <1>h, <2>1, <2>5, CopiesThere DEF Custody!Take, Custody!Next
\* It is returned.
<1>5. CASE taken' = taken /\ back' # back
  <2>1. Head(moves) = "fromOriginal" /\ original # Absent /\ ~back /\ back'
    BY <1>5 DEF ExecuteMove, Source, IInv, TypeInv, TypeOK
  <2>2. taken # Absent /\ ReturnUnderWay
    BY <1>2, <2>1 DEF IInv, CustodyInv, OneOriginal, ReturnUnderWay
  <2>3. active # NoJournal
    BY <1>2, <2>1 DEF AheadInv, ClosingOK
  <2>4. ~active.committed
    <3>1. SUFFICES ASSUME active.committed
                   PROVE  FALSE
      OBVIOUS
    <3>2. active.operation = "replace"
      BY <1>2, <2>1, <2>2, <2>3, <3>1
         DEF PromiseInv, FlagsOK, CommittedDeleteRetained, Untaken, IInv, TypeInv, TypeOK, Journal,
             Operations, UnderWay, FillsTarget
    <3> QED BY <2>2, <2>3, <3>1, <3>2 DEF DutyInv, ReturnAlone, Replacing
  <2>5. CustodyStatus = "held" /\ CustodyStatus' = "returned" /\ CustodyKind # "none"
    BY <1>1, <1>5, <2>1, <2>2, <2>3, <2>4 DEF CustodyStatus, CustodyKind
  <2> QED BY <1>5, <1>h, <2>5, CopiesThere DEF Custody!Return, Custody!Next
<1> QED BY <1>3, <1>4, <1>5

\* Every step of the transaction is a step of a custodian.
LEMMA StepCustodian ==
  ASSUME IInv, IInv', PromiseInv, PromiseInv', AheadInv, DutyInv, [Next]_vars
  PROVE  [Custody!Next]_(Custody!vars)
<1>1. CASE CallStep \/ RecoveryStep
  BY <1>1, CallStepCustodian, RecoveryStepCustodian
<1>2. CASE ExecuteMove
  BY <1>2, DeviceCustodian
<1>3. CASE \/ Begin \/ IoError \/ WaitTimeout \/ DropMove \/ Crash \/ AppWrites \/ Settle
           \/ UNCHANGED vars
  <2>1. UNCHANGED <<active, taken, back>>
    BY <1>3 DEF Begin, BeginCall, BeginRestore, IoError, WaitTimeout, DropMove, Crash, AppWrites,
                Settle, Step, Fail, vars, local, aux
  <2> QED BY <2>1, KeptStep
<1> QED BY <1>1, <1>2, <1>3 DEF Next, Worker, Device

\* The engine is a custodian of the file: whatever fails, crashes or comes late, it
\* takes the bytes of the application at most once in a transaction, has a copy of
\* them until it gave them back or committed, never gives back what is committed,
\* and removes no journal while it still answers for them.
THEOREM CustodyKept == Spec => KeepsCustody
<1>1. Init => Custody!Init
  BY DEF Init, Custody!Init, CustodyKind, CustodyStatus
<1>2. /\ IInv /\ IInv' /\ PromiseInv /\ PromiseInv' /\ AheadInv /\ DutyInv /\ [Next]_vars
      => [Custody!Next]_(Custody!vars)
  BY StepCustodian
<1> QED
  BY <1>1, <1>2, PromiseInvariant, AheadInvariant, DutyInvariant, PTL
     DEF Spec, KeepsCustody, Custody!Spec
=============================================================================
