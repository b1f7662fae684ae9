----------------------- MODULE KnownFileCustodyProofs -----------------------
(***************************************************************************)
(* Theorems about the known-file transaction, for every set of contents,   *)
(* every set of calls and every combination of faults: its types, and that *)
(* the original is never lost.  The argument: there is one original per    *)
(* transaction, every copy is a copy of it (OneOriginal), and the two      *)
(* steps that give a copy up, DropOriginal and Report, run only where the  *)
(* other copy is there or the original is back (CustodyOK).  Which step    *)
(* can follow which depends on the code that runs it (ModeOK) and, for a   *)
(* read, on whose transaction is being recovered (ReadJournal).            *)
(***************************************************************************)
EXTENDS KnownFileTxn, TLAPS

-----------------------------------------------------------------------------
(***************************************************************************)
(* Type correctness                                                        *)
(***************************************************************************)
\* Labels at which a transaction is open.
OpenPcs == Pcs \ {"idle", "prepare", "report", "finish"}

\* A worker inside a transaction has its journal, on disk and in memory.
JournalThere == pc \in OpenPcs => active # NoJournal /\ journal # NoJournal

\* Only calls that open a transaction of their own are prepared.
PreparesCall ==
  /\ pc = "prepare" => call.kind \in Operations
  /\ pc # "idle" /\ mode = "prepare" => call.kind # "restore"

\* The inductive form of TypeOK: a step may update the journal in memory only
\* because it is there.
TypeInv == TypeOK /\ JournalThere /\ PreparesCall

\* What saveJournal writes after setting one or two keys is a journal.
LEMMA JournalUpdates ==
  \A j \in Journal :
    /\ [j EXCEPT !.operation = "create"] \in Journal
    /\ \A d \in File : [j EXCEPT !.newDigest = d] \in Journal
    /\ \A d \in File : [j EXCEPT !.captured = d] \in Journal
    /\ [j EXCEPT !.originalMoveIntent = TRUE] \in Journal
    /\ [j EXCEPT !.originalObserved = TRUE] \in Journal
    /\ [j EXCEPT !.returnOriginalIntent = TRUE] \in Journal
    /\ [j EXCEPT !.originalReturned = TRUE] \in Journal
    /\ [j EXCEPT !.incomingPlaceIntent = TRUE] \in Journal
    /\ [j EXCEPT !.incomingPlaceIntent = FALSE] \in Journal
    /\ [j EXCEPT !.verifyMoveIntent = TRUE] \in Journal
    /\ [j EXCEPT !.incomingPlaceIntent = TRUE, !.verifyMoveIntent = TRUE] \in Journal
    /\ [j EXCEPT !.newVerified = TRUE] \in Journal
    /\ [j EXCEPT !.returnNewIntent = TRUE] \in Journal
    /\ [j EXCEPT !.committed = TRUE] \in Journal
    /\ [j EXCEPT !.readBackMismatch = TRUE] \in Journal
    /\ \A b \in BOOLEAN : [j EXCEPT !.committed = TRUE, !.targetAbsenceConfirmed = b] \in Journal
<1> TAKE j \in Journal
<1>1. [j EXCEPT !.operation = "create"] \in Journal
  BY DEF Journal, Operations
<1>2. \A d \in File : [j EXCEPT !.newDigest = d] \in Journal
  BY DEF Journal
<1>3. \A d \in File : [j EXCEPT !.captured = d] \in Journal
  BY DEF Journal
<1>4. [j EXCEPT !.originalMoveIntent = TRUE] \in Journal
  BY DEF Journal
<1>5. [j EXCEPT !.originalObserved = TRUE] \in Journal
  BY DEF Journal
<1>6. [j EXCEPT !.returnOriginalIntent = TRUE] \in Journal
  BY DEF Journal
<1>7. [j EXCEPT !.originalReturned = TRUE] \in Journal
  BY DEF Journal
<1>8. [j EXCEPT !.incomingPlaceIntent = TRUE] \in Journal
  BY DEF Journal
<1>9. [j EXCEPT !.incomingPlaceIntent = FALSE] \in Journal
  BY DEF Journal
<1>10. [j EXCEPT !.verifyMoveIntent = TRUE] \in Journal
  BY DEF Journal
<1>11. [j EXCEPT !.incomingPlaceIntent = TRUE, !.verifyMoveIntent = TRUE] \in Journal
  BY DEF Journal
<1>12. [j EXCEPT !.newVerified = TRUE] \in Journal
  BY DEF Journal
<1>13. [j EXCEPT !.returnNewIntent = TRUE] \in Journal
  BY DEF Journal
<1>14. [j EXCEPT !.committed = TRUE] \in Journal
  BY DEF Journal
<1>15. [j EXCEPT !.readBackMismatch = TRUE] \in Journal
  BY DEF Journal
<1>16. \A b \in BOOLEAN : [j EXCEPT !.committed = TRUE, !.targetAbsenceConfirmed = b] \in Journal
  BY DEF Journal
<1> QED
  BY <1>1, <1>2, <1>3, <1>4, <1>5, <1>6, <1>7, <1>8, <1>9, <1>10, <1>11, <1>12, <1>13, <1>14, <1>15, <1>16

\* A worker inside a transaction works on a journal.
LEMMA JournalType ==
  ASSUME TypeInv, pc \in OpenPcs
  PROVE  journal \in Journal /\ active \in Journal
  BY DEF TypeInv, TypeOK, JournalThere

\* What a call becomes when its result is set.
LEMMA CallType ==
  ASSUME TypeInv
  PROVE  /\ call.data \in File /\ call.kind \in Kinds
         /\ \A b \in BOOLEAN : /\ [call EXCEPT !.ok = b] \in Call
                               /\ [call EXCEPT !.ok = b].kind = call.kind
         /\ [call EXCEPT !.prepared = TRUE] \in Call
         /\ [call EXCEPT !.prepared = TRUE].kind = call.kind
         /\ NoCall(call.kind) \in Call
  BY DEF TypeInv, TypeOK, Call, NoCall, File

\* What recoverKnownFile remembers of its lookups.
LEMMA SeenType ==
  ASSUME TypeInv
  PROVE  /\ NothingSeen \in Seen
         /\ [seen EXCEPT !.incoming = FALSE, !.verify = FALSE] \in Seen
         /\ \A p \in Presence : [seen EXCEPT !.target = p] \in Seen
  BY DEF TypeInv, TypeOK, Seen, NothingSeen, Presence, Unknown

\* The queues a device can have, and what is left of one after a move.
LEMMA QueueType ==
  /\ \A m \in Moves : <<m>> \in Queues
  /\ <<"place", "readBack">> \in Queues
  /\ \A q \in Queues : q # <<>> => Tail(q) \in Queues /\ Head(q) \in Moves
<1>1. /\ \A m \in Moves : <<m>> \in Queues
      /\ <<"place", "readBack">> \in Queues /\ <<>> \in Queues
  BY DEF Queues
<1>2. \A q \in Queues : q # <<>> => Tail(q) \in Queues /\ Head(q) \in Moves
  <2> SUFFICES ASSUME NEW q \in Queues, q # <<>>
               PROVE  Tail(q) \in Queues /\ Head(q) \in Moves
    OBVIOUS
  <2>1. CASE q = <<"place", "readBack">>
    <3>1. Tail(q) = <<"readBack">> /\ Head(q) = "place"
      BY <2>1
    <3> QED BY <3>1, <1>1 DEF Moves
  <2>2. CASE \E m \in Moves : q = <<m>>
    <3>1. PICK m \in Moves : q = <<m>>
      BY <2>2
    <3>2. Tail(q) = <<>> /\ Head(q) = m
      BY <3>1
    <3> QED BY <3>2, <1>1
  <2> QED BY <2>1, <2>2 DEF Queues
<1> QED BY <1>1, <1>2

\* A step that only moves the program counter keeps the types.
LEMMA StepType ==
  ASSUME TypeInv, pc \in OpenPcs, NEW label \in Pcs \ {"prepare"}, Step(label)
  PROVE  TypeInv'
  BY DEF TypeInv, TypeOK, JournalThere, PreparesCall, OpenPcs, Step, Goto, device, local, aux

\* A step that saves a journal keeps the types.
LEMMA RecordType ==
  ASSUME TypeInv, pc \in OpenPcs, NEW j \in Journal, NEW label \in Pcs \ {"prepare"},
         Record(j, label)
  PROVE  TypeInv'
  BY NoJournalAssumption
     DEF TypeInv, TypeOK, JournalThere, PreparesCall, OpenPcs, Record, Save, Goto, device, aux

\* A failure keeps the types.
LEMMA FailType ==
  ASSUME TypeInv, pc # "idle", Fail
  PROVE  TypeInv'
<1>1. call' \in Call /\ call'.kind = call.kind
  BY CallType DEF Fail
<1>2. pc' \in {"finish", "report"}
  BY DEF Fail, FailLabel, Goto
<1>3. pc' \in Pcs /\ pc' \notin OpenPcs /\ pc' # "prepare"
  BY <1>2 DEF Pcs, OtherPcs, OpenPcs
<1> QED
  BY <1>1, <1>3 DEF TypeInv, TypeOK, JournalThere, PreparesCall, Fail, device, local, aux

\* A step inside a transaction that leaves the device alone keeps the types.
LEMMA LocalStepType ==
  ASSUME TypeInv, pc \in OpenPcs, pc' \in Pcs \ {"prepare"},
         mode' \in Modes, call' \in Call, seen' \in Seen,
         mode' = mode \/ mode' # "prepare", call'.kind = call.kind,
         journal' \in Journal, active' \in Journal, snapshot' \in File, excused' \in BOOLEAN,
         UNCHANGED <<target, original, incoming, verify, link, moves, calm,
                     taken, back, own, verifyOwn>>
  PROVE  TypeInv'
  BY NoJournalAssumption DEF TypeInv, TypeOK, JournalThere, PreparesCall, OpenPcs

\* A step inside a transaction that leaves the journal alone keeps the types.
LEMMA DeviceStepType ==
  ASSUME TypeInv, pc \in OpenPcs, pc' \in Pcs \ {"prepare"},
         call' \in Call, call'.kind = call.kind, excused' \in BOOLEAN,
         original' \in File, incoming' \in File, verify' \in File,
         link' \in BOOLEAN, moves' \in Queues,
         UNCHANGED <<target, active, journal, snapshot, mode, seen, calm,
                     taken, back, own, verifyOwn>>
  PROVE  TypeInv'
  BY DEF TypeInv, TypeOK, JournalThere, PreparesCall, OpenPcs

\* The steps of a call keep the types.
LEMMA CallStepType ==
  ASSUME TypeInv, CallStep
  PROVE  TypeInv'
<1> USE DEF OpenPcs, Pcs, SendPcs, WaitPcs, RecoveryPcs, OtherPcs
<1>1. CASE PrepareKnownFile
  <2>1. call.kind \in Operations
    BY <1>1 DEF PrepareKnownFile, TypeInv, PreparesCall
  <2>2. FreshJournal(call.kind, call.data) \in Journal
    BY <2>1, CallType DEF FreshJournal, Journal, File
  <2>3. journal' \in Journal /\ active' \in Journal
    BY <1>1, <2>2 DEF PrepareKnownFile, Save
  <2>4. call' \in Call /\ pc' \in Pcs \ {"prepare"} /\ mode' \in Modes /\ link' \in BOOLEAN
    BY <1>1, CallType DEF PrepareKnownFile, TypeInv, TypeOK, Goto, Modes
  <2> QED
    BY <1>1, <2>3, <2>4, NoJournalAssumption DEF PrepareKnownFile, TypeInv, TypeOK, JournalThere, PreparesCall, File
<1>2. CASE OpenReplace
  <2>1. journal \in Journal /\ active \in Journal
    BY <1>2, JournalType DEF OpenReplace
  <2>2. journal' \in Journal /\ active' \in Journal
    BY <1>2, <2>1, JournalUpdates DEF OpenReplace, Save
  <2> QED
    BY <1>2, <2>2, LocalStepType DEF OpenReplace, TypeInv, TypeOK, Goto, device
<1>3. CASE OpenCreateProbe
  BY <1>3, LocalStepType, FailType, JournalType
     DEF OpenCreateProbe, TypeInv, TypeOK, Goto, device, local
<1>4. CASE OpenReadOrDelete
  BY <1>4, LocalStepType, StepType, JournalType, CallType
     DEF OpenReadOrDelete, TypeInv, TypeOK, Goto, device, local, aux
<1>5. CASE ObserveKnownOriginal
  BY <1>5, RecordType, FailType, JournalUpdates, JournalType
     DEF ObserveKnownOriginal
<1>6. CASE SendOriginal
  BY <1>6, DeviceStepType, QueueType
     DEF SendOriginal, TypeInv, TypeOK, Goto, Send, slots, local, Moves
<1>7. CASE WaitOriginal
  BY <1>7, RecordType, FailType, JournalUpdates, JournalType
     DEF WaitOriginal
<1>8. CASE ReadOriginal
  BY <1>8, LocalStepType, JournalUpdates, JournalType
     DEF ReadOriginal, TypeInv, TypeOK, Goto, Save, Explicit, device, aux
<1>9. CASE PersistKnownOriginal
  BY <1>9, LocalStepType, JournalUpdates, JournalType, CallType
     DEF PersistKnownOriginal, TypeInv, TypeOK, Goto, Save, device, aux
<1>10. CASE ReadWithoutData
  <2>1. pc \in {"readOriginal", "persist"}
    BY <1>10 DEF ReadWithoutData
  <2>2. journal \in Journal /\ active \in Journal /\ snapshot \in File
    BY <2>1, JournalType DEF TypeInv, TypeOK
  <2>3. [journal EXCEPT !.captured = snapshot] \in Journal
    BY <2>2, JournalUpdates
  <2>4. journal' \in Journal /\ active' \in Journal
    BY <1>10, <2>2, <2>3 DEF ReadWithoutData
  <2> QED
    BY <1>10, <2>4, LocalStepType DEF ReadWithoutData, TypeInv, TypeOK, Goto, device, aux
<1>11. CASE CheckReturn
  BY <1>11, LocalStepType, JournalUpdates, JournalType, FailType
     DEF CheckReturn, TypeInv, TypeOK, Goto, Save, device
<1>12. CASE ForceReturn
  BY <1>12, LocalStepType, JournalUpdates, JournalType
     DEF ForceReturn, TypeInv, TypeOK, Goto, Save, Explicit, device, aux
<1>13. CASE SendReturn
  BY <1>13, DeviceStepType, QueueType
     DEF SendReturn, TypeInv, TypeOK, Goto, Send, slots, local, Moves
<1>14. CASE WaitReturn
  BY <1>14, RecordType, FailType, JournalUpdates, JournalType
     DEF WaitReturn
<1>15. CASE Stage
  BY <1>15, RecordType, JournalUpdates, JournalType, CallType
     DEF Stage
<1>16. CASE WriteKnownIncoming
  BY <1>16, DeviceStepType, CallType
     DEF WriteKnownIncoming, TypeInv, TypeOK, Goto, local, aux, File
<1>17. CASE Place
  BY <1>17, RecordType, FailType, JournalUpdates, JournalType
     DEF Place
<1>18. CASE SendPlacement
  BY <1>18, DeviceStepType, QueueType, CallType
     DEF SendPlacement, TypeInv, TypeOK, Goto, FailLabel, slots, local, aux, Moves
<1>19. CASE WaitIncoming
  BY <1>19, StepType, FailType
     DEF WaitIncoming
<1>20. CASE WaitVerify
  BY <1>20, StepType, FailType
     DEF WaitVerify
<1>21. CASE ReadVerify
  BY <1>21, RecordType, FailType, JournalUpdates, JournalType
     DEF ReadVerify
<1>22. CASE CommitNew
  BY <1>22, RecordType, FailType, JournalUpdates, JournalType
     DEF CommitNew
<1>23. CASE SendNew
  BY <1>23, DeviceStepType, QueueType, FailType
     DEF SendNew, TypeInv, TypeOK, Goto, Send, slots, local, Moves
<1>24. CASE WaitNew
  BY <1>24, LocalStepType, JournalUpdates, JournalType, CallType, SeenType
     DEF WaitNew, TypeInv, TypeOK, Goto, Save, device, aux
<1>25. CASE Create
  BY <1>25, RecordType, FailType, JournalUpdates, JournalType
     DEF Create
<1>26. CASE SendCreation
  BY <1>26, DeviceStepType, QueueType, FailType
     DEF SendCreation, TypeInv, TypeOK, Goto, Send, slots, local, Moves
<1>27. CASE WaitCreation
  BY <1>27, RecordType, FailType, JournalUpdates, JournalType
     DEF WaitCreation
<1>28. CASE SendReadBack
  BY <1>28, DeviceStepType, QueueType
     DEF SendReadBack, TypeInv, TypeOK, Goto, Send, slots, local, Moves
<1>29. CASE CommitDelete
  <2>1. journal \in Journal
    BY <1>29, JournalType DEF CommitDelete
  <2>2. journal' \in Journal /\ active' \in Journal
    BY <1>29, <2>1, JournalUpdates DEF CommitDelete, Save
  <2> QED
    BY <1>29, <2>2, LocalStepType, CallType DEF CommitDelete, TypeInv, TypeOK, Goto, device, aux
<1>30. CASE CommitDeleteRefused
  BY <1>30, StepType, FailType
     DEF CommitDeleteRefused
<1>31. CASE Finish
  BY <1>31 DEF Finish, TypeInv, TypeOK, JournalThere, PreparesCall, Goto, Modes, device, aux
<1>32. CASE Report
  BY <1>32 DEF Report, TypeInv, TypeOK, JournalThere, PreparesCall, Goto, File, device, aux
<1> QED
  BY <1>1, <1>2, <1>3, <1>4, <1>5, <1>6, <1>7, <1>8, <1>9, <1>10, <1>11, <1>12, <1>13, <1>14,
     <1>15, <1>16, <1>17, <1>18, <1>19, <1>20, <1>21, <1>22, <1>23, <1>24, <1>25, <1>26,
     <1>27, <1>28, <1>29, <1>30, <1>31, <1>32 DEF CallStep

\* The steps of a recovery keep the types.
LEMMA RecoveryStepType ==
  ASSUME TypeInv, RecoveryStep
  PROVE  TypeInv'
<1> USE DEF OpenPcs, Pcs, SendPcs, WaitPcs, RecoveryPcs, OtherPcs
<1>1. CASE RecoverCreate
  BY <1>1, DeviceStepType, StepType, RecordType, FailType, JournalUpdates, JournalType
     DEF RecoverCreate, TypeInv, TypeOK, Goto, local, aux, File
<1>2. CASE RecoverCreateProbe
  BY <1>2, DeviceStepType
     DEF RecoverCreateProbe, TypeInv, TypeOK, Goto, slots, local, aux, File
<1>3. CASE RecoverKnownFile
  <2>1. CASE Step("recovered")
    BY <1>3, <2>1, StepType DEF RecoverKnownFile
  <2>2. CASE Fail
    BY <1>3, <2>2, FailType DEF RecoverKnownFile
  <2>3. CASE /\ seen' = [original |-> original # Absent, incoming |-> incoming # Absent,
                         verify |-> verify # Absent, target |-> Unknown]
             /\ Goto("slots")
             /\ UNCHANGED <<device, local, mode, call, calm, aux>>
    <3>1. seen' \in Seen
      BY <2>3 DEF Seen, Presence, Unknown
    <3> QED
      BY <1>3, <2>3, <3>1, LocalStepType, JournalType
         DEF RecoverKnownFile, TypeInv, TypeOK, Goto, device, local, aux
  <2> QED BY <1>3, <2>1, <2>2, <2>3 DEF RecoverKnownFile
<1>4. CASE RecoverSlots
  BY <1>4, StepType, RecordType, FailType, JournalUpdates, JournalType
     DEF RecoverSlots
<1>5. CASE Interrupted
  BY <1>5, RecordType, FailType, JournalUpdates, JournalType
     DEF Interrupted
<1>6. CASE ResendReadBack
  BY <1>6, DeviceStepType, QueueType
     DEF ResendReadBack, TypeInv, TypeOK, Goto, Send, slots, local, Moves
<1>7. CASE RewaitVerify
  BY <1>7, StepType, FailType
     DEF RewaitVerify
<1>8. CASE RereadVerify
  BY <1>8, RecordType, FailType, JournalUpdates, JournalType
     DEF RereadVerify
<1>9. CASE Mismatch
  BY <1>9, DeviceStepType, QueueType, CallType
     DEF Mismatch, TypeInv, TypeOK, Goto, FailLabel, slots, local, aux, Moves
<1>10. CASE ProbeTarget
  BY <1>10, LocalStepType, FailType, JournalType, SeenType
     DEF ProbeTarget, TypeInv, TypeOK, Goto, device, local, aux
<1>11. CASE Discard
  BY <1>11, DeviceStepType, StepType
     DEF Discard, TypeInv, TypeOK, Goto, local, aux, File
<1>12. CASE Discarded
  BY <1>12, RecordType, FailType, JournalUpdates, JournalType
     DEF Discarded
<1>13. CASE CloseDelete
  BY <1>13, StepType, FailType
     DEF CloseDelete
<1>14. CASE CloseReturned
  BY <1>14, StepType, RecordType, FailType, JournalUpdates, JournalType
     DEF CloseReturned
<1>15. CASE ConfirmCommit
  BY <1>15, RecordType, FailType, JournalUpdates, JournalType
     DEF ConfirmCommit
<1>16. CASE CloseCommitted
  BY <1>16, StepType, FailType
     DEF CloseCommitted
<1>17. CASE DropOriginal
  BY <1>17, DeviceStepType
     DEF DropOriginal, TypeInv, TypeOK, Goto, slots, local, aux, File
<1>18. CASE RestoreOrPend
  BY <1>18, StepType, RecordType, FailType, JournalUpdates, JournalType
     DEF RestoreOrPend
<1>19. CASE RestoreRecovered
  BY <1>19, LocalStepType, JournalType, CallType
     DEF RestoreRecovered, TypeInv, TypeOK, Goto, Modes, device, aux
<1>20. CASE CleanGeneratedStage
  BY <1>20, DeviceStepType
     DEF CleanGeneratedStage, TypeInv, TypeOK, Goto, slots, local, aux, File
<1>21. CASE RemoveActive
  <2>1. call' \in Call
    BY <1>21, CallType DEF RemoveActive, CompletedWriteMatches, TypeInv, TypeOK, Call
  <2>2. pc' \in {"prepare", "report"}
    BY <1>21 DEF RemoveActive, Goto
  <2>3. call'.kind = call.kind
    BY <1>21 DEF RemoveActive, TypeInv, TypeOK, Call
  <2>4. pc' = "prepare" => call.kind \in Operations
    BY <1>21, CallType, KindsAssumption
       DEF RemoveActive, Goto, TypeInv, PreparesCall, Operations
  <2> QED
    BY <1>21, <2>1, <2>2, <2>3, <2>4
       DEF RemoveActive, TypeInv, TypeOK, JournalThere, PreparesCall, device, aux
<1> QED
  BY <1>1, <1>2, <1>3, <1>4, <1>5, <1>6, <1>7, <1>8, <1>9, <1>10, <1>11, <1>12, <1>13, <1>14,
     <1>15, <1>16, <1>17, <1>18, <1>19, <1>20, <1>21 DEF RecoveryStep

\* All other steps keep the types.
LEMMA OtherStepType ==
  ASSUME TypeInv, [Next]_vars, ~CallStep, ~RecoveryStep
  PROVE  TypeInv'
<1> USE DEF OpenPcs, Pcs, SendPcs, WaitPcs, RecoveryPcs, OtherPcs
<1>1. ASSUME NEW k \in Kinds, NEW d \in File, BeginCall(k, d) PROVE TypeInv'
  <2>1. call' \in Call /\ call'.kind = k
    BY <1>1 DEF BeginCall, Call, DataOf
  <2>2. k \in Operations \cup {"list"}
    BY <1>1, KindsAssumption DEF BeginCall, Operations
  <2>3. pc' \in {"recover", "report", "prepare"}
    BY <1>1 DEF BeginCall, Goto
  <2>4. pc' = "recover" => active # NoJournal
    BY <1>1 DEF BeginCall, Goto
  <2>5. pc' = "prepare" => k \in Operations
    BY <1>1, <2>2 DEF BeginCall, Goto
  <2> QED
    BY <1>1, <2>1, <2>3, <2>4, <2>5
       DEF BeginCall, TypeInv, TypeOK, JournalThere, PreparesCall, Modes, device, aux
<1>2. CASE BeginRestore
  <2>1. call' \in Call
    BY <1>2 DEF BeginRestore, NoCall, Call, File
  <2> QED
    BY <1>2, <2>1 DEF BeginRestore, Goto, TypeInv, TypeOK, JournalThere, PreparesCall, Modes, device, aux
<1>3. CASE IoError
  BY <1>3, StepType, FailType
     DEF IoError
<1>4. CASE WaitTimeout
  BY <1>4, StepType, FailType
     DEF WaitTimeout
<1>5. CASE Crash
  BY <1>5, CallType, SeenType DEF Crash, TypeInv, TypeOK, JournalThere, PreparesCall, Goto, Modes, device, aux
<1>6. CASE ExecuteMove
  <2>1. moves' \in Queues /\ Head(moves) \in Moves
    BY <1>6, QueueType DEF ExecuteMove, TypeInv, TypeOK
  <2>2. Source(Head(moves)) \in File
    BY DEF Source, TypeInv, TypeOK
  <2>3. /\ target' \in File /\ original' \in File /\ incoming' \in File /\ verify' \in File
        /\ taken' \in File
    BY <1>6, <2>2 DEF ExecuteMove, TypeInv, TypeOK, File
  <2>4. back' \in BOOLEAN /\ own' \in BOOLEAN /\ verifyOwn' \in BOOLEAN
    BY <1>6 DEF ExecuteMove, TypeInv, TypeOK
  <2> QED
    BY <1>6, <2>1, <2>3, <2>4 DEF ExecuteMove, TypeInv, TypeOK, JournalThere, PreparesCall, local, worker
<1>7. CASE DropMove
  BY <1>7, QueueType DEF DropMove, TypeInv, TypeOK, JournalThere, PreparesCall, slots, local, worker, aux
<1>8. CASE AppWrites
  BY <1>8 DEF AppWrites, TypeInv, TypeOK, JournalThere, PreparesCall, slots, local, worker
<1>9. CASE Settle
  BY <1>9 DEF Settle, TypeInv, TypeOK, JournalThere, PreparesCall, device, local, worker, aux
<1>10. CASE UNCHANGED vars
  BY <1>10 DEF vars, TypeInv, TypeOK, JournalThere, PreparesCall, device, local, worker, aux
<1> QED
  BY <1>1, <1>2, <1>3, <1>4, <1>5, <1>6, <1>7, <1>8, <1>9, <1>10 DEF Next, Begin, Worker, Device

\* Every step keeps the types.
LEMMA TypeStep == TypeInv /\ [Next]_vars => TypeInv'
  BY CallStepType, RecoveryStepType, OtherStepType

\* The initial states have their types.
LEMMA TypeInit == Init => TypeInv
<1> SUFFICES ASSUME Init PROVE TypeInv
  OBVIOUS
<1>1. call \in Call
  BY DEF Init, NoCall, Call, File
<1>2. seen \in Seen /\ moves \in Queues /\ mode \in Modes
  BY DEF Init, Seen, NothingSeen, Presence, Unknown, Queues, Modes
<1> QED
  BY <1>1, <1>2 DEF Init, TypeInv, TypeOK, JournalThere, PreparesCall, OpenPcs, Pcs, File

\* Type correctness of the transaction: whatever the calls and the faults, the
\* queue holds the moves of one session and no step updates a journal that is
\* not there.
THEOREM TypeCorrect == Spec => []TypeOK
<1>1. TypeInv => TypeOK
  BY DEF TypeInv
<1> QED
  BY <1>1, TypeInit, TypeStep, PTL DEF Spec

-----------------------------------------------------------------------------
(***************************************************************************)
(* The inductive invariant                                                 *)
(***************************************************************************)
\* Labels only a recovery reaches.
RecoverOnlyPcs == RecoveryPcs \cup {"interrupted", "resendReadBack", "rewaitVerify",
                                    "rereadVerify", "mismatch", "forceReturn"}
\* Labels only the body of a call reaches.
TakingPcs == {"opened", "observe", "sendOriginal", "waitOriginal", "readOriginal", "persist"}
\* Labels at which new content is on its way to the application.
PlacingPcs == {"stage", "write", "place", "create", "commitNew"} \cup
              {"sendPlacement", "sendNew", "sendCreation", "sendReadBack"} \cup
              {"waitIncoming", "waitCreation", "waitVerify", "waitNew", "readVerify"}

\* Which code runs where.
ModeOK ==
  /\ pc \in RecoverOnlyPcs => mode # "op"
  /\ pc \in TakingPcs \cup {"commitDelete"} => mode = "op"
  /\ pc = "prepare" => mode = "prepare" /\ ~call.ok
  /\ pc # "idle" /\ mode = "restore" => call.kind = "restore"
  /\ pc \in PlacingPcs /\ mode = "op" => call.kind # "read"
  /\ pc = "commitDelete" => call.kind = "delete"

\* A read that is in its own transaction, and one that has its data.
InRead  == pc # "idle" /\ call.kind = "read" /\ (mode = "op" \/ call.ok)
HasData == pc # "idle" /\ call.kind = "read" /\ call.ok

\* Its journal is the journal of a read.
ReadJournal ==
  InRead => \A j \in {active, journal} : j # NoJournal => j.operation = "read"

\* Labels before the original is moved.
BeforePcs == {"opened", "observe", "sendOriginal"}

\* There is one original per transaction, and every copy is a copy of it.
OneOriginal ==
  /\ original # Absent => original = taken
  /\ snapshot # Absent => snapshot = taken
  /\ \A j \in {active, journal} : j # NoJournal /\ j.captured # Absent => j.captured = taken
  /\ moves = <<"toOriginal">> => taken = Absent
  /\ pc \in BeforePcs => taken = Absent /\ moves = <<>>

\* The original was taken, and is staged or was moved back.
Staged == taken # Absent /\ (original = taken \/ back)

\* Where a copy is about to be made or given up the other one is there.
CustodyOK ==
  /\ pc = "persist" => Staged
  /\ HasData => Staged
  /\ pc = "dropOriginal" => /\ journal.captured # Absent /\ snapshot = journal.captured
                            /\ journal.operation # "read"

CustodyInv == ReadJournal /\ OneOriginal /\ CustodyOK /\ OriginalNeverLost

IInv == TypeInv /\ ModeOK /\ CustodyInv

-----------------------------------------------------------------------------
(***************************************************************************)
(* Steps that neither make nor give up a copy                              *)
(***************************************************************************)

\* Every journal after the step has the original, respectively the operation,
\* of a journal before it.
KeepsCaptured ==
  \A j \in {active', journal'} :
    j # NoJournal => \E i \in {active, journal} : i # NoJournal /\ j.captured = i.captured
KeepsOperation ==
  \A j \in {active', journal'} :
    j # NoJournal => \E i \in {active, journal} : i # NoJournal /\ j.operation = i.operation

\* The step changes no copy of the original and enters none of the labels at
\* which the invariant asks for one.
Quiet ==
  /\ UNCHANGED <<original, snapshot, taken, back>>
  /\ moves' = moves \/ moves' # <<"toOriginal">>
  /\ pc' \in BeforePcs => pc \in BeforePcs /\ moves' = moves
  /\ pc' \in {"persist", "dropOriginal"} => UNCHANGED <<pc, journal>>
  /\ HasData' => HasData
  /\ InRead' => InRead /\ KeepsOperation
  /\ KeepsCaptured

\* Such a step keeps the original in custody.
LEMMA QuietCustody ==
  ASSUME CustodyInv, Quiet
  PROVE  CustodyInv'
<1>1. ReadJournal'
  BY DEF CustodyInv, ReadJournal, Quiet, KeepsOperation
<1>2. OneOriginal'
  BY DEF CustodyInv, OneOriginal, Quiet, KeepsCaptured
<1>3. CustodyOK'
  BY DEF CustodyInv, CustodyOK, Quiet, Staged
<1>4. OriginalNeverLost'
  BY DEF CustodyInv, OriginalNeverLost, Quiet
<1> QED BY <1>1, <1>2, <1>3, <1>4 DEF CustodyInv

\* A step that only moves the program counter is quiet.
LEMMA StepCustody ==
  ASSUME CustodyInv, pc \in OpenPcs, NEW label, Step(label),
         label \notin BeforePcs \cup {"persist", "dropOriginal"}
  PROVE  CustodyInv'
<1>1. Quiet
  BY DEF Quiet, InRead, HasData, KeepsOperation, KeepsCaptured, OpenPcs, Step, Goto,
         device, local, aux
<1> QED BY <1>1, QuietCustody

\* Two journals of the same operation on the same original.
SameFile(i, j) == i.operation = j.operation /\ i.captured = j.captured

\* A step that saves another state of the same transaction is quiet.
LEMMA RecordCustody ==
  ASSUME TypeInv, CustodyInv, pc \in OpenPcs, NEW j, NEW label, Record(j, label),
         label \notin BeforePcs \cup {"persist", "dropOriginal"}, SameFile(j, journal)
  PROVE  CustodyInv'
<1>1. journal # NoJournal
  BY DEF TypeInv, JournalThere
<1>2. KeepsOperation /\ KeepsCaptured
  BY <1>1 DEF SameFile, KeepsOperation, KeepsCaptured, Record, Save
<1>3. Quiet
  BY <1>2 DEF Quiet, InRead, HasData, OpenPcs, Record, Goto, device, aux
<1> QED BY <1>3, QuietCustody

\* A failure is quiet.
LEMMA FailCustody ==
  ASSUME TypeInv, CustodyInv, pc # "idle", Fail
  PROVE  CustodyInv'
<1>1. call'.kind = call.kind /\ call'.ok = FALSE
  BY DEF Fail, TypeInv, TypeOK, Call
<1>2. pc' \in {"finish", "report"}
  BY DEF Fail, FailLabel, Goto
<1>3. Quiet
  BY <1>1, <1>2
     DEF Quiet, BeforePcs, InRead, HasData, KeepsOperation, KeepsCaptured, Fail, device,
         local, aux
<1> QED BY <1>3, QuietCustody

\* The intents and results a journal collects do not change its file.
LEMMA JournalKeeps ==
  \A j \in Journal :
    /\ \A d \in File : SameFile([j EXCEPT !.newDigest = d], j)
    /\ SameFile([j EXCEPT !.originalMoveIntent = TRUE], j)
    /\ SameFile([j EXCEPT !.originalObserved = TRUE], j)
    /\ SameFile([j EXCEPT !.returnOriginalIntent = TRUE], j)
    /\ SameFile([j EXCEPT !.originalReturned = TRUE], j)
    /\ SameFile([j EXCEPT !.incomingPlaceIntent = TRUE], j)
    /\ SameFile([j EXCEPT !.verifyMoveIntent = TRUE], j)
    /\ SameFile([j EXCEPT !.newVerified = TRUE], j)
    /\ SameFile([j EXCEPT !.returnNewIntent = TRUE], j)
    /\ SameFile([j EXCEPT !.committed = TRUE], j)
    /\ SameFile([j EXCEPT !.readBackMismatch = TRUE], j)
    /\ SameFile([j EXCEPT !.incomingPlaceIntent = FALSE], j)
    /\ SameFile([j EXCEPT !.incomingPlaceIntent = TRUE, !.verifyMoveIntent = TRUE], j)
  BY DEF Journal, SameFile

\* The move of an original is the last of its session.
LEMMA QueueEnds ==
  ASSUME NEW q \in Queues, q # <<>>
  PROVE  Tail(q) # <<"toOriginal">> /\ (Head(q) = "toOriginal" => q = <<"toOriginal">>)
<1>1. CASE q = <<"place", "readBack">>
  <2>1. Tail(q) = <<"readBack">> /\ Head(q) = "place"
    BY <1>1
  <2> QED BY <2>1
<1>2. CASE \E m \in Moves : q = <<m>>
  <2>1. PICK m \in Moves : q = <<m>>
    BY <1>2
  <2>2. Tail(q) = <<>> /\ Head(q) = m
    BY <2>1
  <2> QED BY <2>1, <2>2
<1> QED BY <1>1, <1>2 DEF Queues

-----------------------------------------------------------------------------
(***************************************************************************)
(* Every step keeps the invariant                                          *)
(***************************************************************************)
\* The steps of a call keep the modes.
LEMMA CallStepMode ==
  ASSUME TypeInv, ModeOK, CallStep
  PROVE  ModeOK'
<1> USE DEF ModeOK, RecoverOnlyPcs, TakingPcs, PlacingPcs, RecoveryPcs
<1>1. CASE PrepareKnownFile
  BY <1>1, CallType DEF PrepareKnownFile, Goto
<1>2. CASE OpenReplace
  BY <1>2 DEF OpenReplace, Goto
<1>3. CASE OpenCreateProbe
  BY <1>3, CallType DEF OpenCreateProbe, Fail, Goto, FailLabel
<1>4. CASE OpenReadOrDelete
  BY <1>4, CallType DEF OpenReadOrDelete, Step, Goto
<1>5. CASE ObserveKnownOriginal
  BY <1>5, CallType DEF ObserveKnownOriginal, Record, Fail, FailLabel, Goto
<1>6. CASE SendOriginal
  BY <1>6 DEF SendOriginal, Send, Goto
<1>7. CASE WaitOriginal
  BY <1>7 DEF WaitOriginal, Record, Goto
<1>8. CASE ReadOriginal
  BY <1>8 DEF ReadOriginal, Goto
<1>9. CASE PersistKnownOriginal
  BY <1>9, CallType DEF PersistKnownOriginal, Goto
<1>10. CASE ReadWithoutData
  BY <1>10 DEF ReadWithoutData, Goto
<1>11. CASE CheckReturn
  BY <1>11, CallType DEF CheckReturn, Fail, Goto, FailLabel
<1>12. CASE ForceReturn
  BY <1>12 DEF ForceReturn, Goto, Explicit
<1>13. CASE SendReturn
  BY <1>13 DEF SendReturn, Send, Goto
<1>14. CASE WaitReturn
  BY <1>14 DEF WaitReturn, Record, Goto
<1>15. CASE Stage
  BY <1>15 DEF Stage, Record, Goto
<1>16. CASE WriteKnownIncoming
  BY <1>16, CallType DEF WriteKnownIncoming, Goto
<1>17. CASE Place
  BY <1>17, CallType DEF Place, Record, Fail, FailLabel, Goto
<1>18. CASE SendPlacement
  BY <1>18, CallType DEF SendPlacement, FailLabel, Goto
<1>19. CASE WaitIncoming
  BY <1>19 DEF WaitIncoming, Step, Goto
<1>20. CASE WaitVerify
  BY <1>20 DEF WaitVerify, Step, Goto
<1>21. CASE ReadVerify
  BY <1>21, CallType DEF ReadVerify, Record, Fail, FailLabel, Goto
<1>22. CASE CommitNew
  BY <1>22 DEF CommitNew, Record, Goto
<1>23. CASE SendNew
  BY <1>23, CallType DEF SendNew, Send, Fail, FailLabel, Goto
<1>24. CASE WaitNew
  BY <1>24, CallType DEF WaitNew, Goto
<1>25. CASE Create
  BY <1>25 DEF Create, Record, Goto
<1>26. CASE SendCreation
  BY <1>26, CallType DEF SendCreation, Send, Fail, FailLabel, Goto
<1>27. CASE WaitCreation
  BY <1>27 DEF WaitCreation, Record, Goto
<1>28. CASE SendReadBack
  BY <1>28 DEF SendReadBack, Send, Goto
<1>29. CASE CommitDelete
  BY <1>29, CallType DEF CommitDelete, Goto
<1>30. CASE CommitDeleteRefused
  BY <1>30, CallType DEF CommitDeleteRefused, Fail, FailLabel, Goto
<1>31. CASE Finish
  BY <1>31 DEF Finish, Goto
<1>32. CASE Report
  BY <1>32 DEF Report, Goto
<1> QED
  BY <1>1, <1>2, <1>3, <1>4, <1>5, <1>6, <1>7, <1>8, <1>9, <1>10, <1>11, <1>12, <1>13,
     <1>14, <1>15, <1>16, <1>17, <1>18, <1>19, <1>20, <1>21, <1>22, <1>23, <1>24, <1>25,
     <1>26, <1>27, <1>28, <1>29, <1>30, <1>31, <1>32
     DEF CallStep

\* The steps of a recovery keep the modes.
LEMMA RecoveryStepMode ==
  ASSUME TypeInv, ModeOK, RecoveryStep
  PROVE  ModeOK'
<1> USE DEF ModeOK, RecoverOnlyPcs, TakingPcs, PlacingPcs, RecoveryPcs
<1>1. CASE RecoverCreate
  BY <1>1, CallType DEF RecoverCreate, Step, Record, Fail, Goto, FailLabel
<1>2. CASE RecoverCreateProbe
  BY <1>2 DEF RecoverCreateProbe, Goto
<1>3. CASE RecoverKnownFile
  BY <1>3, CallType DEF RecoverKnownFile, Step, Fail, Goto, Explicit, FailLabel
<1>4. CASE RecoverSlots
  BY <1>4, CallType DEF RecoverSlots, Step, Record, Fail, FailLabel, Goto
<1>5. CASE Interrupted
  BY <1>5, CallType DEF Interrupted, Record, Fail, FailLabel, Goto
<1>6. CASE ResendReadBack
  BY <1>6 DEF ResendReadBack, Send, Goto
<1>7. CASE RewaitVerify
  BY <1>7 DEF RewaitVerify, Step, Goto
<1>8. CASE RereadVerify
  BY <1>8 DEF RereadVerify, Record, Goto
<1>9. CASE Mismatch
  BY <1>9, CallType DEF Mismatch, FailLabel, Goto
<1>10. CASE ProbeTarget
  BY <1>10, CallType DEF ProbeTarget, Fail, Goto, FailLabel
<1>11. CASE Discard
  BY <1>11 DEF Discard, Step, Goto
<1>12. CASE Discarded
  BY <1>12 DEF Discarded, Record, Goto
<1>13. CASE CloseDelete
  BY <1>13, CallType DEF CloseDelete, Step, Fail, FailLabel, Goto
<1>14. CASE CloseReturned
  BY <1>14, CallType DEF CloseReturned, Step, Record, Fail, FailLabel, Goto
<1>15. CASE ConfirmCommit
  BY <1>15 DEF ConfirmCommit, Record, Goto
<1>16. CASE CloseCommitted
  BY <1>16, CallType DEF CloseCommitted, Step, Fail, FailLabel, Goto
<1>17. CASE DropOriginal
  BY <1>17 DEF DropOriginal, Goto
<1>18. CASE RestoreOrPend
  BY <1>18, CallType DEF RestoreOrPend, Record, Fail, Explicit, FailLabel, Goto
<1>19. CASE RestoreRecovered
  BY <1>19, CallType DEF RestoreRecovered, Goto, Explicit
<1>20. CASE CleanGeneratedStage
  BY <1>20 DEF CleanGeneratedStage, Goto, Explicit
<1>21. CASE RemoveActive
  <2>1. pc = "close" /\ mode' = mode /\ call'.kind = call.kind
    BY <1>21 DEF RemoveActive, TypeInv, TypeOK, Call
  <2>2. CASE mode = "prepare" /\ call.kind # "list"
    BY <1>21, <2>1, <2>2 DEF RemoveActive, Goto, TypeInv, TypeOK, Call
  <2>3. CASE ~(mode = "prepare" /\ call.kind # "list")
    BY <1>21, <2>1, <2>3 DEF RemoveActive, Goto
  <2> QED BY <2>2, <2>3
<1> QED
  BY <1>1, <1>2, <1>3, <1>4, <1>5, <1>6, <1>7, <1>8, <1>9, <1>10, <1>11, <1>12, <1>13,
     <1>14, <1>15, <1>16, <1>17, <1>18, <1>19, <1>20, <1>21
     DEF RecoveryStep

\* All other steps keep the modes.
LEMMA OtherStepMode ==
  ASSUME TypeInv, ModeOK, [Next]_vars, ~CallStep, ~RecoveryStep
  PROVE  ModeOK'
<1> USE DEF ModeOK, RecoverOnlyPcs, TakingPcs, PlacingPcs, RecoveryPcs
<1>1. ASSUME NEW k \in Kinds, NEW d \in File, BeginCall(k, d) PROVE ModeOK'
  BY <1>1 DEF BeginCall, Goto
<1>2. CASE BeginRestore
  BY <1>2 DEF BeginRestore, NoCall, Goto
<1>3. CASE IoError
  BY <1>3, CallType DEF IoError, Step, Fail, FailLabel, Goto
<1>4. CASE WaitTimeout
  BY <1>4, CallType DEF WaitTimeout, WaitPcs, Fail, FailLabel, Goto
<1>5. CASE Crash
  BY <1>5, CallType DEF Crash, Goto
<1>6. CASE ExecuteMove
  BY <1>6 DEF ExecuteMove, worker
<1>7. CASE DropMove
  BY <1>7 DEF DropMove, worker
<1>8. CASE AppWrites
  BY <1>8 DEF AppWrites, worker
<1>9. CASE Settle
  BY <1>9 DEF Settle, worker
<1>10. CASE UNCHANGED vars
  BY <1>10 DEF vars, worker
<1> QED
  BY <1>1, <1>2, <1>3, <1>4, <1>5, <1>6, <1>7, <1>8, <1>9, <1>10
     DEF Next, Begin, Worker, Device

\* The steps of a call keep the original in custody.
LEMMA CallStepCustody ==
  ASSUME TypeInv, ModeOK, CustodyInv, CallStep
  PROVE  CustodyInv'
<1> USE DEF BeforePcs, OpenPcs, Pcs, SendPcs, WaitPcs, RecoveryPcs, OtherPcs, Goto
<1>1. CASE PrepareKnownFile
  <2>1. /\ original' = Absent /\ snapshot' = Absent /\ taken' = Absent /\ moves' = <<>>
        /\ pc' \in {"opened", "finish"}
    BY <1>1 DEF PrepareKnownFile, Session
  <2>2. /\ active' = journal' /\ journal'.captured = Absent
        /\ journal'.operation = call.kind
    BY <1>1 DEF PrepareKnownFile, Save, FreshJournal
  <2>3. ~call.ok /\ ~call'.ok /\ call'.kind = call.kind
    BY <1>1 DEF PrepareKnownFile, ModeOK, TypeInv, TypeOK, Call
  <2>4. ReadJournal'
    BY <2>2, <2>3 DEF ReadJournal, InRead
  <2>5. OneOriginal'
    BY <2>1, <2>2 DEF OneOriginal
  <2>6. CustodyOK' /\ OriginalNeverLost'
    BY <2>1, <2>3 DEF CustodyOK, HasData, OriginalNeverLost
  <2> QED BY <2>4, <2>5, <2>6 DEF CustodyInv
<1>2. CASE OpenReplace
  <2>1. journal \in Journal /\ active \in Journal /\ journal # NoJournal
    BY <1>2, JournalType, NoJournalAssumption DEF OpenReplace
  <2>2. KeepsCaptured
    BY <1>2, <2>1 DEF OpenReplace, Save, KeepsCaptured, Journal
  <2>3. Quiet
    BY <1>2, <2>2 DEF OpenReplace, Quiet, InRead, HasData, device
  <2> QED BY <2>3, QuietCustody
<1>3. CASE OpenCreateProbe
  <2>1. CASE Fail
    BY <1>3, <2>1, FailCustody DEF OpenCreateProbe
  <2>2. CASE ~Fail
    BY <1>3, <2>2, QuietCustody
       DEF OpenCreateProbe, Quiet, InRead, HasData, KeepsCaptured, KeepsOperation,
           device, local
  <2> QED BY <2>1, <2>2
<1>4. CASE OpenReadOrDelete
  <2>1. call.kind = "delete" => call'.kind = "delete"
    BY <1>4 DEF OpenReadOrDelete, Step, TypeInv, TypeOK, Call
  <2>2. Quiet
    BY <1>4, <2>1
       DEF OpenReadOrDelete, Step, Quiet, InRead, HasData, KeepsCaptured, KeepsOperation,
           device, local, aux
  <2> QED BY <2>2, QuietCustody
<1>5. CASE ObserveKnownOriginal
  <2>1. CASE Fail
    BY <1>5, <2>1, FailCustody DEF ObserveKnownOriginal
  <2>2. CASE Record([journal EXCEPT !.originalMoveIntent = TRUE], "sendOriginal")
    <3>1. journal # NoJournal /\ journal \in Journal
      BY <1>5, JournalType, NoJournalAssumption DEF ObserveKnownOriginal
    <3>2. KeepsCaptured /\ KeepsOperation
      BY <2>2, <3>1, JournalKeeps DEF SameFile, Record, Save, KeepsCaptured, KeepsOperation
    <3>3. Quiet
      BY <1>5, <2>2, <3>2
         DEF ObserveKnownOriginal, Record, Quiet, InRead, HasData, device, aux
    <3> QED BY <3>3, QuietCustody
  <2> QED BY <1>5, <2>1, <2>2 DEF ObserveKnownOriginal
<1>6. CASE SendOriginal
  <2>1. taken = Absent
    BY <1>6 DEF SendOriginal, Send, CustodyInv, OneOriginal
  <2>2. /\ UNCHANGED <<original, snapshot, active, journal, mode, call, taken, back>>
        /\ pc' = "waitOriginal" /\ pc = "sendOriginal"
    BY <1>6 DEF SendOriginal, Send, slots, local
  <2> QED
    BY <2>1, <2>2
       DEF CustodyInv, ReadJournal, OneOriginal, CustodyOK, OriginalNeverLost, InRead,
           HasData, Staged
<1>7. CASE WaitOriginal
  BY <1>7, RecordCustody, FailCustody, JournalKeeps, JournalType
     DEF WaitOriginal
<1>8. CASE ReadOriginal
  <2>1. /\ UNCHANGED <<original, active, journal, mode, call, taken, back, moves>>
        /\ pc' = "persist" /\ pc = "readOriginal" /\ snapshot' = original /\ original # Absent
    BY <1>8 DEF ReadOriginal, device, aux
  <2>2. original = taken
    BY <2>1 DEF CustodyInv, OneOriginal
  <2> QED
    BY <2>1, <2>2
       DEF CustodyInv, ReadJournal, OneOriginal, CustodyOK, OriginalNeverLost, InRead,
           HasData, Staged
<1>9. CASE PersistKnownOriginal \/ (ReadWithoutData /\ pc = "persist")
  <2>1. journal \in Journal /\ active \in Journal /\ journal # NoJournal /\ active # NoJournal
    BY <1>9, JournalType, NoJournalAssumption DEF PersistKnownOriginal
  <2>2. /\ UNCHANGED <<original, snapshot, mode, taken, back, moves>> /\ call'.kind = call.kind
        /\ pc = "persist" /\ pc' \in {"checkReturn", "stage", "commitDelete", "finish"}
        /\ (call'.ok => call.ok \/ call.kind = "read")
    BY <1>9 DEF PersistKnownOriginal, ReadWithoutData, device, aux, TypeInv, TypeOK, Call
  <2>3. /\ journal' \in {journal, [journal EXCEPT !.captured = snapshot]}
        /\ active' \in {active, journal'}
    BY <1>9 DEF PersistKnownOriginal, ReadWithoutData, Save
  <2>4. \A j \in {active', journal'} : /\ j.operation \in {active.operation, journal.operation}
                                       /\ j.captured \in {active.captured, journal.captured, snapshot}
    BY <2>1, <2>3 DEF Journal
  <2>5. mode = "op" /\ Staged
    BY <2>2 DEF ModeOK, TakingPcs, CustodyInv, CustodyOK
  <2>6. ReadJournal'
    BY <2>1, <2>2, <2>4, <2>5 DEF CustodyInv, ReadJournal, InRead
  <2>7. OneOriginal'
    BY <2>1, <2>2, <2>4 DEF CustodyInv, OneOriginal
  <2>8. CustodyOK'
    BY <2>2, <2>5 DEF CustodyOK, HasData, Staged
  <2>9. OriginalNeverLost'
    BY <2>2 DEF CustodyInv, OriginalNeverLost
  <2> QED BY <2>6, <2>7, <2>8, <2>9 DEF CustodyInv
<1>10. CASE ReadWithoutData /\ pc # "persist"
  <2>1. Quiet
    BY <1>10
       DEF ReadWithoutData, Quiet, InRead, HasData, KeepsCaptured, KeepsOperation,
           device, aux
  <2> QED BY <2>1, QuietCustody
<1>11. CASE CheckReturn
  <2>1. CASE Fail
    BY <1>11, <2>1, FailCustody DEF CheckReturn
  <2>2. CASE ~Fail
    <3>1. journal \in Journal /\ journal # NoJournal
      BY <1>11, JournalType, NoJournalAssumption DEF CheckReturn
    <3>2. KeepsCaptured /\ KeepsOperation
      <4>1. Save([journal EXCEPT !.returnOriginalIntent = TRUE])
        BY <1>11, <2>2 DEF CheckReturn
      <4> QED BY <3>1, <4>1, JournalKeeps DEF SameFile, Save, KeepsCaptured, KeepsOperation
    <3>3. Quiet
      BY <1>11, <2>2, <3>2 DEF CheckReturn, Quiet, InRead, HasData, device
    <3> QED BY <3>3, QuietCustody
  <2> QED BY <2>1, <2>2
<1>12. CASE ForceReturn
  <2>1. journal \in Journal /\ journal # NoJournal
    BY <1>12, JournalType, NoJournalAssumption DEF ForceReturn
  <2>2. KeepsCaptured /\ KeepsOperation
    BY <1>12, <2>1, JournalKeeps
       DEF SameFile, ForceReturn, Save, KeepsCaptured, KeepsOperation
  <2>3. Quiet
    BY <1>12, <2>2 DEF ForceReturn, Quiet, InRead, HasData, device
  <2> QED BY <2>3, QuietCustody
<1>13. CASE SendReturn
  <2>1. Quiet
    BY <1>13 DEF SendReturn, Quiet, InRead, HasData, KeepsCaptured, KeepsOperation,
       Send, slots, local
  <2> QED BY <2>1, QuietCustody
<1>14. CASE WaitReturn
  BY <1>14, RecordCustody, FailCustody, JournalKeeps, JournalType
     DEF WaitReturn
<1>15. CASE Stage
  BY <1>15, RecordCustody, JournalKeeps, JournalType, CallType
     DEF Stage
<1>16. CASE WriteKnownIncoming
  <2>1. Quiet
    BY <1>16 DEF WriteKnownIncoming, Quiet, InRead, HasData, KeepsCaptured, KeepsOperation,
       local, aux, TypeInv, TypeOK, Call
  <2> QED BY <2>1, QuietCustody
<1>17. CASE Place
  BY <1>17, RecordCustody, FailCustody, JournalKeeps, JournalType
     DEF Place
<1>18. CASE SendPlacement
  <2>1. Quiet
    BY <1>18 DEF SendPlacement, Quiet, InRead, HasData, KeepsCaptured, KeepsOperation,
       FailLabel, slots, local, aux, TypeInv, TypeOK, Call
  <2> QED BY <2>1, QuietCustody
<1>19. CASE WaitIncoming
  BY <1>19, StepCustody, FailCustody
     DEF WaitIncoming
<1>20. CASE WaitVerify
  BY <1>20, StepCustody, FailCustody
     DEF WaitVerify
<1>21. CASE ReadVerify
  BY <1>21, RecordCustody, FailCustody, JournalKeeps, JournalType
     DEF ReadVerify
<1>22. CASE CommitNew
  BY <1>22, RecordCustody, FailCustody, JournalKeeps, JournalType
     DEF CommitNew
<1>23. CASE SendNew
  <2>1. CASE Fail
    BY <1>23, <2>1, FailCustody DEF SendNew, Send
  <2>2. CASE Send("sendNew", "return", "waitNew")
    BY <2>2, QuietCustody
       DEF Send, Quiet, InRead, HasData, KeepsCaptured, KeepsOperation, slots, local
  <2> QED BY <1>23, <2>1, <2>2 DEF SendNew
<1>24. CASE WaitNew
  <2>1. journal \in Journal /\ journal # NoJournal
    BY <1>24, JournalType, NoJournalAssumption DEF WaitNew
  <2>2. KeepsCaptured /\ KeepsOperation
    BY <1>24, <2>1, JournalKeeps DEF SameFile, WaitNew, Save, KeepsCaptured, KeepsOperation
  <2>3. /\ call'.kind = call.kind
        /\ mode = "op" => call.kind # "read"
        /\ mode # "op" => call' = call
    BY <1>24 DEF WaitNew, ModeOK, PlacingPcs, TypeInv, TypeOK, Call
  <2>4. Quiet
    BY <1>24, <2>2, <2>3 DEF WaitNew, Quiet, InRead, HasData, device, aux
  <2> QED BY <2>4, QuietCustody
<1>25. CASE Create
  BY <1>25, RecordCustody, FailCustody, JournalKeeps, JournalType
     DEF Create
<1>26. CASE SendCreation
  <2>1. CASE Fail
    BY <1>26, <2>1, FailCustody DEF SendCreation, Send
  <2>2. CASE Send("sendCreation", "place", "waitCreation")
    BY <2>2, QuietCustody
       DEF Send, Quiet, InRead, HasData, KeepsCaptured, KeepsOperation, slots, local
  <2> QED BY <1>26, <2>1, <2>2 DEF SendCreation
<1>27. CASE WaitCreation
  BY <1>27, RecordCustody, FailCustody, JournalKeeps, JournalType
     DEF WaitCreation
<1>28. CASE SendReadBack
  <2>1. Quiet
    BY <1>28 DEF SendReadBack, Quiet, InRead, HasData, KeepsCaptured, KeepsOperation,
       Send, slots, local
  <2> QED BY <2>1, QuietCustody
<1>29. CASE CommitDelete
  <2>1. journal \in Journal /\ journal # NoJournal
    BY <1>29, JournalType, NoJournalAssumption DEF CommitDelete
  <2>2. journal'.captured = journal.captured /\ active' = journal'
    BY <1>29, <2>1 DEF CommitDelete, Save, Journal
  <2>3. KeepsCaptured
    BY <2>1, <2>2 DEF KeepsCaptured
  <2>4. call'.kind = "delete"
    BY <1>29 DEF CommitDelete, ModeOK, TypeInv, TypeOK, Call
  <2>5. Quiet
    BY <1>29, <2>3, <2>4 DEF CommitDelete, Quiet, InRead, HasData, device, aux
  <2> QED BY <2>5, QuietCustody
<1>30. CASE CommitDeleteRefused
  BY <1>30, StepCustody, FailCustody
     DEF CommitDeleteRefused
<1>31. CASE Finish
  <2>1. Quiet
    BY <1>31 DEF Finish, Quiet, InRead, HasData, KeepsCaptured, KeepsOperation,
       device, aux
  <2> QED BY <2>1, QuietCustody
<1>32. CASE Report
  <2>1. /\ UNCHANGED <<original, active, taken, back, moves>> /\ pc' = "idle" /\ journal' = NoJournal
        /\ snapshot' = IF call.kind = "read" /\ call.ok THEN Absent ELSE snapshot
        /\ pc = "report"
    BY <1>32 DEF Report, device, aux
  <2> QED
    BY <2>1
       DEF CustodyInv, ReadJournal, OneOriginal, CustodyOK, OriginalNeverLost, InRead,
           HasData, Staged
<1> QED
  BY <1>1, <1>2, <1>3, <1>4, <1>5, <1>6, <1>7, <1>8, <1>9, <1>10, <1>11, <1>12, <1>13,
     <1>14, <1>15, <1>16, <1>17, <1>18, <1>19, <1>20, <1>21, <1>22, <1>23, <1>24, <1>25,
     <1>26, <1>27, <1>28, <1>29, <1>30, <1>31, <1>32
     DEF CallStep

\* The steps of a recovery keep the original in custody.
LEMMA RecoveryStepCustody ==
  ASSUME TypeInv, ModeOK, CustodyInv, RecoveryStep
  PROVE  CustodyInv'
<1> USE DEF BeforePcs, OpenPcs, Pcs, SendPcs, WaitPcs, RecoveryPcs, OtherPcs, Goto
<1>1. CASE RecoverCreate
  <2>1. CASE UNCHANGED <<active, journal, mode, call>> /\ ~Fail /\ pc' = "recovered"
    <3>1. Quiet
      BY <1>1, <2>1
         DEF RecoverCreate, Step, Record, Quiet, InRead, HasData, KeepsCaptured,
             KeepsOperation, device, local, aux
    <3> QED BY <3>1, QuietCustody
  <2>2. CASE Fail
    BY <1>1, <2>2, FailCustody DEF RecoverCreate
  <2>3. CASE \/ Record([journal EXCEPT !.newVerified = TRUE], "commitNew")
             \/ Record([journal EXCEPT !.committed = TRUE], "recovered")
    BY <1>1, <2>3, RecordCustody, JournalKeeps, JournalType DEF RecoverCreate
  <2> QED BY <1>1, <2>1, <2>2, <2>3 DEF RecoverCreate, Step, local
<1>2. CASE RecoverCreateProbe
  <2>1. Quiet
    BY <1>2 DEF RecoverCreateProbe, Quiet, InRead, HasData, KeepsCaptured, KeepsOperation,
       slots, local, aux
  <2> QED BY <2>1, QuietCustody
<1>3. CASE RecoverKnownFile
  <2>1. CASE Fail
    BY <1>3, <2>1, FailCustody DEF RecoverKnownFile
  <2>2. CASE ~Fail
    BY <1>3, <2>2, QuietCustody
       DEF RecoverKnownFile, Step, Quiet, InRead, HasData, KeepsCaptured, KeepsOperation,
           device, local, aux
  <2> QED BY <2>1, <2>2
<1>4. CASE RecoverSlots
  BY <1>4, StepCustody, RecordCustody, FailCustody, JournalKeeps, JournalType
     DEF RecoverSlots
<1>5. CASE Interrupted
  BY <1>5, RecordCustody, FailCustody, JournalKeeps, JournalType
     DEF Interrupted
<1>6. CASE ResendReadBack
  <2>1. Quiet
    BY <1>6 DEF ResendReadBack, Quiet, InRead, HasData, KeepsCaptured, KeepsOperation,
       Send, slots, local
  <2> QED BY <2>1, QuietCustody
<1>7. CASE RewaitVerify
  BY <1>7, StepCustody, FailCustody
     DEF RewaitVerify
<1>8. CASE RereadVerify
  BY <1>8, RecordCustody, FailCustody, JournalKeeps, JournalType
     DEF RereadVerify
<1>9. CASE Mismatch
  <2>1. Quiet
    BY <1>9 DEF Mismatch, Quiet, InRead, HasData, KeepsCaptured, KeepsOperation,
       FailLabel, slots, local, TypeInv, TypeOK, Call
  <2> QED BY <2>1, QuietCustody
<1>10. CASE ProbeTarget
  <2>1. CASE Fail
    BY <1>10, <2>1, FailCustody DEF ProbeTarget
  <2>2. CASE ~Fail
    BY <1>10, <2>2, QuietCustody
       DEF ProbeTarget, Quiet, InRead, HasData, KeepsCaptured, KeepsOperation, device,
           local, aux
  <2> QED BY <2>1, <2>2
<1>11. CASE Discard
  BY <1>11, QuietCustody
     DEF Discard, Step, Quiet, InRead, HasData, KeepsCaptured, KeepsOperation, device,
         local, aux
<1>12. CASE Discarded
  BY <1>12, RecordCustody, FailCustody, JournalKeeps, JournalType
     DEF Discarded
<1>13. CASE CloseDelete
  BY <1>13, StepCustody, FailCustody
     DEF CloseDelete
<1>14. CASE CloseReturned
  BY <1>14, StepCustody, RecordCustody, FailCustody, JournalKeeps, JournalType
     DEF CloseReturned
<1>15. CASE ConfirmCommit
  BY <1>15, RecordCustody, FailCustody, JournalKeeps, JournalType
     DEF ConfirmCommit
<1>16. CASE CloseCommitted
  <2>1. CASE Fail
    BY <1>16, <2>1, FailCustody DEF CloseCommitted
  <2>2. CASE Step("recovered")
    BY <1>16, <2>2, StepCustody DEF CloseCommitted
  <2>3. CASE Step("dropOriginal") /\ ~Fail
    <3>1. LocalOriginalValid(journal) /\ journal.operation # "read"
      BY <1>16, <2>3 DEF CloseCommitted, ClassifyFileRecovery, ClassifyRead, ObservationOf,
         WriteCommitted, Pending, ReadReturnConfirmed, OriginalRestoreCandidate, Step
    <3>2. /\ UNCHANGED <<original, snapshot, active, journal, mode, call, taken, back, moves>>
          /\ pc' = "dropOriginal" /\ pc = "classify"
      BY <1>16, <2>3 DEF CloseCommitted, Step, device, local, aux
    <3> QED
      BY <3>1, <3>2
         DEF LocalOriginalValid, CustodyInv, ReadJournal, OneOriginal, CustodyOK,
             OriginalNeverLost, InRead, HasData, Staged
  <2> QED BY <1>16, <2>1, <2>2, <2>3 DEF CloseCommitted
<1>17. CASE DropOriginal
  <2>1. /\ UNCHANGED <<snapshot, active, journal, mode, call, taken, back, moves>> /\ original' = Absent
        /\ pc' = "recovered" /\ pc = "dropOriginal"
    BY <1>17 DEF DropOriginal, local, aux
  <2>2. journal # NoJournal
    BY <2>1, JournalType, NoJournalAssumption
  <2>3. snapshot = taken /\ ~InRead
    BY <2>1, <2>2 DEF CustodyInv, CustodyOK, OneOriginal, ReadJournal
  <2> QED
    BY <2>1, <2>3
       DEF CustodyInv, ReadJournal, OneOriginal, CustodyOK, OriginalNeverLost, InRead,
           HasData, Staged
<1>18. CASE RestoreOrPend
  BY <1>18, StepCustody, RecordCustody, FailCustody, JournalKeeps, JournalType
     DEF RestoreOrPend
<1>19. CASE RestoreRecovered
  <2>1. Quiet
    BY <1>19
       DEF RestoreRecovered, Quiet, InRead, HasData, KeepsCaptured, KeepsOperation,
           device, aux,
       Explicit, ModeOK, TypeInv, TypeOK, Call
  <2> QED BY <2>1, QuietCustody
<1>20. CASE CleanGeneratedStage
  <2>1. Quiet
    BY <1>20 DEF CleanGeneratedStage, Quiet, InRead, HasData, KeepsCaptured, KeepsOperation,
       slots, local, aux
  <2> QED BY <2>1, QuietCustody
<1>21. CASE RemoveActive
  <2>1. Quiet
    BY <1>21 DEF RemoveActive, Quiet, InRead, HasData, KeepsCaptured, KeepsOperation,
       CompletedWriteMatches, device, aux, TypeInv, TypeOK, Call
  <2> QED BY <2>1, QuietCustody
<1> QED
  BY <1>1, <1>2, <1>3, <1>4, <1>5, <1>6, <1>7, <1>8, <1>9, <1>10, <1>11, <1>12, <1>13,
     <1>14, <1>15, <1>16, <1>17, <1>18, <1>19, <1>20, <1>21
     DEF RecoveryStep

\* Failures, crashes, moves and the application keep the original in custody.
LEMMA OtherStepCustody ==
  ASSUME TypeInv, ModeOK, CustodyInv, [Next]_vars, ~CallStep, ~RecoveryStep
  PROVE  CustodyInv'
<1> USE DEF BeforePcs, OpenPcs, Pcs, SendPcs, WaitPcs, RecoveryPcs, OtherPcs, Goto
<1>1. ASSUME NEW k \in Kinds, NEW d \in File, BeginCall(k, d) PROVE CustodyInv'
  <2>1. Quiet
    BY <1>1
       DEF BeginCall, Quiet, InRead, HasData, KeepsCaptured, KeepsOperation, device, aux
  <2> QED BY <2>1, QuietCustody
<1>2. CASE BeginRestore
  <2>1. Quiet
    BY <1>2 DEF BeginRestore, Quiet, InRead, HasData, KeepsCaptured, KeepsOperation,
       NoCall, device, aux
  <2> QED BY <2>1, QuietCustody
<1>3. CASE IoError
  BY <1>3, StepCustody, FailCustody
     DEF IoError
<1>4. CASE WaitTimeout
  BY <1>4, StepCustody, FailCustody
     DEF WaitTimeout
<1>5. CASE Crash
  <2>1. Quiet
    BY <1>5 DEF Crash, Quiet, InRead, HasData, KeepsCaptured, KeepsOperation,
       NoCall, device, aux
  <2> QED BY <2>1, QuietCustody
<1>6. CASE ExecuteMove
  <2>1. /\ moves \in Queues /\ moves # <<>> /\ moves' = Tail(moves)
        /\ UNCHANGED <<snapshot, active, journal, pc, mode, call>>
    BY <1>6 DEF ExecuteMove, TypeInv, TypeOK, local, worker
  <2>2. moves' # <<"toOriginal">> /\ (Head(moves) = "toOriginal" => moves = <<"toOriginal">>)
    BY <2>1, QueueEnds
  <2>3. pc \notin BeforePcs
    BY <2>1 DEF CustodyInv, OneOriginal
  <2>4. ReadJournal'
    BY <2>1 DEF CustodyInv, ReadJournal, InRead
  <2>5. CASE Head(moves) = "toOriginal"
    <3>1. taken = Absent
      BY <2>2, <2>5 DEF CustodyInv, OneOriginal
    <3>2. original = Absent /\ snapshot = Absent
      BY <3>1 DEF CustodyInv, OneOriginal
    <3>3. \A j \in {active, journal} : j # NoJournal => j.captured = Absent
      BY <3>1 DEF CustodyInv, OneOriginal
    <3>4. pc \notin {"persist", "dropOriginal"} /\ ~HasData
      BY <3>1, <3>3, JournalType, NoJournalAssumption DEF CustodyInv, CustodyOK, Staged
    <3>5. original' = taken'
      BY <1>6, <2>5, <3>1, <3>2 DEF ExecuteMove
    <3> QED
      BY <2>1, <2>2, <2>3, <2>4, <3>2, <3>3, <3>4, <3>5
         DEF CustodyInv, OneOriginal, CustodyOK, HasData, OriginalNeverLost
  <2>6. CASE Head(moves) # "toOriginal"
    <3>1. taken' = taken /\ (original' = original \/ (original' = Absent /\ back'))
      BY <1>6, <2>6 DEF ExecuteMove
    <3>2. back => back'
      BY <1>6 DEF ExecuteMove
    <3>3. OneOriginal'
      BY <2>1, <2>2, <2>3, <3>1 DEF CustodyInv, OneOriginal
    <3>4. CustodyOK'
      BY <2>1, <3>1, <3>2 DEF CustodyInv, CustodyOK, HasData, Staged
    <3>5. OriginalNeverLost'
      BY <2>1, <3>1, <3>2 DEF CustodyInv, OriginalNeverLost
    <3> QED BY <2>4, <3>3, <3>4, <3>5 DEF CustodyInv
  <2> QED BY <2>5, <2>6
<1>7. CASE DropMove
  <2>1. /\ moves \in Queues /\ moves # <<>> /\ moves' = Tail(moves)
    BY <1>7 DEF DropMove, TypeInv, TypeOK
  <2>2. moves' # <<"toOriginal">> /\ pc \notin BeforePcs
    BY <2>1, QueueEnds DEF CustodyInv, OneOriginal
  <2>3. Quiet
    BY <1>7, <2>2
       DEF DropMove, Quiet, InRead, HasData, KeepsCaptured, KeepsOperation, slots, local,
           worker, aux
  <2> QED BY <2>3, QuietCustody
<1>8. CASE AppWrites
  <2>1. Quiet
    BY <1>8 DEF AppWrites, Quiet, InRead, HasData, KeepsCaptured, KeepsOperation,
       slots, local, worker
  <2> QED BY <2>1, QuietCustody
<1>9. CASE Settle
  <2>1. Quiet
    BY <1>9 DEF Settle, Quiet, InRead, HasData, KeepsCaptured, KeepsOperation,
       device, local, worker, aux
  <2> QED BY <2>1, QuietCustody
<1>10. CASE UNCHANGED vars
  <2>1. Quiet
    BY <1>10
       DEF vars, Quiet, InRead, HasData, KeepsCaptured, KeepsOperation, device, local,
           worker, aux
  <2> QED BY <2>1, QuietCustody
<1> QED
  BY <1>1, <1>2, <1>3, <1>4, <1>5, <1>6, <1>7, <1>8, <1>9, <1>10
     DEF Next, Begin, Worker, Device

-----------------------------------------------------------------------------
\* The inductive invariant holds.
LEMMA CustodyInvariant == Spec => []IInv
<1>1. Init => IInv
  <2>1. Init => TypeInv
    BY TypeInit
  <2>2. Init => ModeOK
    BY DEF Init, ModeOK, RecoverOnlyPcs, TakingPcs, PlacingPcs, RecoveryPcs
  <2>3. Init => CustodyInv
    BY DEF Init, CustodyInv, ReadJournal, InRead, OneOriginal, BeforePcs, CustodyOK,
           HasData,
           OriginalNeverLost
  <2> QED BY <2>1, <2>2, <2>3 DEF IInv
<1>2. IInv /\ [Next]_vars => IInv'
  <2> SUFFICES ASSUME IInv, [Next]_vars PROVE IInv'
    OBVIOUS
  <2>1. TypeInv'
    BY TypeStep DEF IInv
  <2>2. ModeOK'
    BY CallStepMode, RecoveryStepMode, OtherStepMode DEF IInv
  <2>3. CustodyInv'
    BY CallStepCustody, RecoveryStepCustody, OtherStepCustody DEF IInv
  <2> QED BY <2>1, <2>2, <2>3 DEF IInv
<1> QED
  BY <1>1, <1>2, PTL DEF Spec

\* The content a transaction takes out of the application is never lost: until
\* FileOriginal is moved back it is in FileOriginal or in the fsynced local
\* copy, for every set of contents and calls and whatever fails when.
THEOREM OriginalKept == Spec => []OriginalNeverLost
<1>1. IInv => OriginalNeverLost
  BY DEF IInv, CustodyInv
<1> QED
  BY <1>1, CustodyInvariant, PTL

-----------------------------------------------------------------------------
(***************************************************************************)
(* What the journal promises.  Two more properties need to know what the   *)
(* flags on disk say of the original: a committed deletion keeps both      *)
(* copies, and the journal leaves the disk only when the transaction is    *)
(* settled.  PromiseInv relates the flags (FlagsOK), the labels (LabelsOK) *)
(* and what a recovery saw of the slots (SeenOK) to where the original is. *)
(***************************************************************************)
\* The journal on disk and the one in memory differ at most in what was
\* captured; a new transaction starts without one.
Agree ==
  /\ pc \in OpenPcs =>
       /\ active.operation = journal.operation /\ active.committed = journal.committed
       /\ active.originalMoveIntent = journal.originalMoveIntent
       /\ active.originalObserved = journal.originalObserved
       /\ active.originalReturned = journal.originalReturned
       /\ active.returnNewIntent = journal.returnNewIntent
  /\ pc = "prepare" => active = NoJournal

\* The original is not on its way to FileOriginal and never was.
Untaken == taken = Absent /\ moves # <<"toOriginal">>
\* The original went back, or the local copy outlives the committed transaction.
GivenUp == taken # Absent /\ (back \/ (active.committed /\ snapshot = taken))

\* What the flags on disk say of the original.
FlagsOK ==
  /\ active # NoJournal =>
       /\ active.operation \in {"create", "createProbe"} => Untaken
       /\ ~active.originalMoveIntent => Untaken
       /\ active.originalObserved => taken # Absent
       /\ active.committed \/ active.returnNewIntent => active.operation # "read"
       /\ taken # Absent => original = taken \/ GivenUp
       /\ active.originalReturned => GivenUp

\* Labels at which new content is on its way, in a call or in a recovery.
NewPcs ==
  PlacingPcs \cup {"interrupted", "resendReadBack", "rewaitVerify", "rereadVerify", "mismatch"}
\* Labels at which a recovery relies on the slots it saw.
SeenPcs == NewPcs \cup {"slots", "probe", "discard", "discarded", "classify"}

\* What the worker knows at its label.
LabelsOK ==
  /\ pc \in TakingPcs => journal.operation = call.kind
  /\ pc \in TakingPcs \ {"opened"} => call.kind \in {"read", "replace", "delete"}
  /\ pc = "sendOriginal" => active.originalMoveIntent
  /\ pc \in {"readOriginal", "persist", "checkReturn", "forceReturn", "sendReturn",
             "waitReturn", "discard", "discarded"} => taken # Absent
  /\ pc \in NewPcs => journal.operation \notin {"read", "delete"}
  /\ pc \in {"slots", "probe", "discard", "discarded", "classify"} => ~Creating
  /\ pc = "dropOriginal" => active.committed /\ taken # Absent /\ snapshot = taken
  /\ pc \in {"recovered", "close"} => Untaken \/ GivenUp

\* What a recovery saw of FileOriginal stays good for its decision.
SeenOK ==
  pc \in SeenPcs /\ mode # "op" /\ ~Creating =>
    /\ seen.original => taken # Absent
    /\ ~seen.original /\ active.originalObserved => GivenUp

\* A deletion takes its decision with both copies in place and no move on its
\* way to the application, and no step from there on undoes it.
DecidedPcs ==
  {"idle", "finish", "report", "recover", "slots", "classify", "recovered", "close"}
DeleteOK ==
  /\ pc \in {"waitOriginal", "readOriginal", "persist", "commitDelete"} =>
       moves \in {<<>>, <<"toOriginal">>}
  /\ pc \in {"persist", "commitDelete"} => snapshot # Absent
  /\ pc = "commitDelete" => journal.captured = snapshot /\ journal.operation = "delete"
  /\ active # NoJournal /\ active.operation = "delete" /\ active.committed
       => pc \in DecidedPcs

PromiseInv == Agree /\ FlagsOK /\ LabelsOK /\ SeenOK /\ DeleteOK /\ CommittedDeleteRetained

\* Two journals that promise the same.
SameFlags(i, j) ==
  /\ SameFile(i, j) /\ i.committed = j.committed
  /\ i.originalMoveIntent = j.originalMoveIntent /\ i.originalObserved = j.originalObserved
  /\ i.originalReturned = j.originalReturned /\ i.returnNewIntent = j.returnNewIntent

\* The updates that promise nothing new.
LEMMA NeutralUpdates ==
  \A j \in Journal :
    /\ \A d \in File : SameFlags([j EXCEPT !.newDigest = d], j)
    /\ SameFlags([j EXCEPT !.returnOriginalIntent = TRUE], j)
    /\ SameFlags([j EXCEPT !.incomingPlaceIntent = TRUE], j)
    /\ SameFlags([j EXCEPT !.incomingPlaceIntent = FALSE], j)
    /\ SameFlags([j EXCEPT !.verifyMoveIntent = TRUE], j)
    /\ SameFlags([j EXCEPT !.newVerified = TRUE], j)
    /\ SameFlags([j EXCEPT !.readBackMismatch = TRUE], j)
    /\ SameFlags([j EXCEPT !.incomingPlaceIntent = TRUE, !.verifyMoveIntent = TRUE], j)
  BY DEF Journal, SameFlags, SameFile


\* The updates that promise something.
LEMMA PromiseUpdates ==
  \A j \in Journal :
    /\ LET i == [j EXCEPT !.originalMoveIntent = TRUE]
       IN /\ SameFile(i, j) /\ i.originalMoveIntent
          /\ i.originalObserved = j.originalObserved
          /\ i.originalReturned = j.originalReturned
          /\ i.committed = j.committed
          /\ i.returnNewIntent = j.returnNewIntent
    /\ LET i == [j EXCEPT !.originalObserved = TRUE]
       IN /\ SameFile(i, j) /\ i.originalObserved
          /\ i.originalMoveIntent = j.originalMoveIntent
          /\ i.originalReturned = j.originalReturned
          /\ i.committed = j.committed
          /\ i.returnNewIntent = j.returnNewIntent
    /\ LET i == [j EXCEPT !.originalReturned = TRUE]
       IN /\ SameFile(i, j) /\ i.originalReturned
          /\ i.originalMoveIntent = j.originalMoveIntent
          /\ i.originalObserved = j.originalObserved
          /\ i.committed = j.committed
          /\ i.returnNewIntent = j.returnNewIntent
    /\ LET i == [j EXCEPT !.committed = TRUE]
       IN /\ SameFile(i, j) /\ i.committed
          /\ i.originalMoveIntent = j.originalMoveIntent
          /\ i.originalObserved = j.originalObserved
          /\ i.originalReturned = j.originalReturned
          /\ i.returnNewIntent = j.returnNewIntent
    /\ LET i == [j EXCEPT !.returnNewIntent = TRUE]
       IN /\ SameFile(i, j) /\ i.returnNewIntent
          /\ i.originalMoveIntent = j.originalMoveIntent
          /\ i.originalObserved = j.originalObserved
          /\ i.originalReturned = j.originalReturned
          /\ i.committed = j.committed
  BY DEF Journal, SameFile

\* Two journals that differ at most in what was captured.
SameButCaptured(i, j) ==
  /\ i.operation = j.operation /\ i.committed = j.committed
  /\ i.originalMoveIntent = j.originalMoveIntent /\ i.originalObserved = j.originalObserved
  /\ i.originalReturned = j.originalReturned /\ i.returnNewIntent = j.returnNewIntent

\* Every move of a queue's rest is a move of the queue.
LEMMA QueueParts ==
  ASSUME NEW q \in Queues, q # <<>>
  PROVE  /\ Head(q) \in {q[i] : i \in DOMAIN q}
         /\ {Tail(q)[i] : i \in DOMAIN Tail(q)} \subseteq {q[i] : i \in DOMAIN q}
<1>1. CASE q = <<"place", "readBack">>
  BY <1>1
<1>2. CASE \E m \in Moves : q = <<m>>
  <2>1. PICK m \in Moves : q = <<m>>
    BY <1>2
  <2>2. Tail(q) = <<>> /\ Head(q) = m
    BY <2>1
  <2> QED BY <2>1, <2>2
<1> QED BY <1>1, <1>2 DEF Queues

\* A failure keeps every promise.
LEMMA FailPromise ==
  ASSUME IInv, PromiseInv, pc # "idle", Fail
  PROVE  PromiseInv'
<1> USE NoJournalAssumption
    DEF PromiseInv, Agree, FlagsOK, LabelsOK, SeenOK, DeleteOK, CommittedDeleteRetained,
        Untaken, GivenUp, NewPcs, SeenPcs, DecidedPcs, TakingPcs, PlacingPcs, OpenPcs, Pcs,
        SendPcs, WaitPcs, RecoveryPcs, OtherPcs, Goto, IInv, TypeInv, JournalThere, ModeOK,
        RecoverOnlyPcs, CustodyInv, OneOriginal, BeforePcs, Creating
<1> QED BY DEF Fail, FailLabel, device, local, aux

\* The steps of a call keep every promise.
LEMMA CallStepPromise ==
  ASSUME IInv, IInv', PromiseInv, CallStep
  PROVE  PromiseInv'
<1> USE NoJournalAssumption
    DEF PromiseInv, Agree, FlagsOK, LabelsOK, SeenOK, DeleteOK, CommittedDeleteRetained,
        Untaken, GivenUp, NewPcs, SeenPcs, DecidedPcs, TakingPcs, PlacingPcs, OpenPcs, Pcs,
        SendPcs, WaitPcs, RecoveryPcs, OtherPcs, Goto, IInv, TypeInv, JournalThere, ModeOK,
        RecoverOnlyPcs, CustodyInv, OneOriginal, BeforePcs, Creating
<1>1. CASE PrepareKnownFile
  <2>1. /\ active' = journal' /\ taken' = Absent /\ original' = Absent /\ snapshot' = Absent
        /\ moves' = <<>>
        /\ pc' \in {"opened", "finish"} /\ mode' = "op" /\ call'.kind = call.kind
        /\ journal' = FreshJournal(call.kind, call.data)
    BY <1>1, CallType DEF PrepareKnownFile, Save, Session
  <2>2. /\ journal'.operation = call.kind /\ ~journal'.committed
        /\ ~journal'.originalMoveIntent /\ ~journal'.originalObserved
        /\ ~journal'.originalReturned
        /\ ~journal'.returnNewIntent
    BY <2>1 DEF FreshJournal
  <2> QED BY <2>1, <2>2
<1>2. CASE OpenReplace
  <2>1. CASE pc' = "observe"
    BY <1>2, <2>1 DEF OpenReplace, device
  <2>2. CASE pc' = "stage"
    <3>1. /\ journal \in Journal /\ active' = journal'
          /\ journal' = [journal EXCEPT !.operation = "create"]
      BY <1>2, <2>2, JournalType DEF OpenReplace, Save
    <3>2. /\ journal'.operation = "create" /\ journal'.committed = journal.committed
          /\ journal'.originalMoveIntent = journal.originalMoveIntent
          /\ journal'.originalObserved = journal.originalObserved
          /\ journal'.originalReturned = journal.originalReturned
          /\ journal'.returnNewIntent = journal.returnNewIntent
      BY <3>1 DEF Journal
    <3> QED BY <1>2, <2>2, <3>1, <3>2 DEF OpenReplace, device
  <2> QED BY <1>2, <2>1, <2>2 DEF OpenReplace
<1>3. CASE OpenCreateProbe
  <2>1. CASE Fail
    BY <1>3, <2>1, FailPromise DEF OpenCreateProbe
  <2>2. CASE pc' = "stage" /\ UNCHANGED <<device, local, mode, call, seen, taken, back>>
    BY <1>3, <2>2 DEF OpenCreateProbe, device, local
  <2> QED BY <1>3, <2>1, <2>2 DEF OpenCreateProbe
<1>4. CASE OpenReadOrDelete
  BY <1>4, CallType DEF OpenReadOrDelete, Step, device, local, aux
<1>5. CASE ObserveKnownOriginal
  <2>1. CASE Fail
    BY <1>5, <2>1, FailPromise DEF ObserveKnownOriginal
  <2>2. CASE Record([journal EXCEPT !.originalMoveIntent = TRUE], "sendOriginal") /\ ~Fail
    <3>1. /\ active' = journal'
          /\ journal' = [journal EXCEPT !.originalMoveIntent = TRUE]
          /\ pc' = "sendOriginal"
          /\ UNCHANGED <<original, snapshot, moves, taken, back, mode, call, seen>>
      BY <2>2 DEF Record, Save, device, aux
    <3>2. pc = "observe"
      BY <1>5, <2>2 DEF ObserveKnownOriginal
    <3>3. journal \in Journal /\ journal # NoJournal
      BY <3>2, JournalType
    <3>4. SameFile(journal', journal) /\ journal'.originalMoveIntent
          /\ journal'.originalObserved = journal.originalObserved
          /\ journal'.originalReturned = journal.originalReturned
          /\ journal'.committed = journal.committed
          /\ journal'.returnNewIntent = journal.returnNewIntent
      BY <3>1, <3>3, NeutralUpdates, PromiseUpdates
    <3> QED BY <3>1, <3>2, <3>3, <3>4 DEF SameFlags, SameFile
  <2> QED BY <1>5, <2>1, <2>2 DEF ObserveKnownOriginal
<1>6. CASE SendOriginal
  BY <1>6 DEF SendOriginal, Send, Session, local, slots
<1>7. CASE WaitOriginal
  BY <1>7, NeutralUpdates, JournalType
     DEF WaitOriginal, SameFlags, SameFile, Record, Save, device, aux
<1>8. CASE ReadOriginal
  BY <1>8 DEF ReadOriginal, device, aux
<1>9. CASE PersistKnownOriginal
  BY <1>9, NeutralUpdates, JournalType, CallType
     DEF PersistKnownOriginal, SameFlags, SameFile, Save, device, aux
<1>10. CASE ReadWithoutData
  <2>1. journal \in Journal /\ active \in Journal
    BY <1>10, JournalType DEF ReadWithoutData
  <2>2. SameButCaptured([journal EXCEPT !.captured = snapshot], journal)
    BY <2>1 DEF SameButCaptured, Journal
  <2>3. /\ journal' \in {journal, [journal EXCEPT !.captured = snapshot]}
        /\ active' \in {active, journal'}
        /\ pc \in {"readOriginal", "persist"} /\ pc' = "checkReturn"
        /\ UNCHANGED <<device, snapshot, mode, call, seen, calm, aux>>
    BY <1>10 DEF ReadWithoutData
  <2>4. SameButCaptured(journal', active) /\ SameButCaptured(active', active)
    <3>1. SameButCaptured(active, active) /\ SameButCaptured(journal, active)
      BY <2>3 DEF SameButCaptured
    <3>2. SameButCaptured([journal EXCEPT !.captured = snapshot], active)
      BY <2>2, <3>1 DEF SameButCaptured
    <3> QED BY <2>3, <3>1, <3>2
  <2> QED BY <2>1, <2>3, <2>4 DEF SameButCaptured, device, aux
<1>11. CASE CheckReturn
  <2>1. CASE Fail
    BY <1>11, <2>1, FailPromise DEF CheckReturn
  <2>2. CASE ~Fail
    <3>1. /\ active' = journal'
          /\ journal' = [journal EXCEPT !.returnOriginalIntent = TRUE]
          /\ pc' = "sendReturn"
          /\ UNCHANGED <<original, snapshot, moves, taken, back, mode, call, seen>>
          /\ pc = "checkReturn"
      BY <1>11, <2>2 DEF CheckReturn, Save, device
    <3>2. journal \in Journal /\ journal # NoJournal
      BY <3>1, JournalType
    <3>3. SameFlags(journal', journal)
      BY <3>1, <3>2, NeutralUpdates
    <3> QED BY <3>1, <3>2, <3>3 DEF SameFlags, SameFile
  <2> QED BY <2>1, <2>2
<1>12. CASE ForceReturn
  BY <1>12, NeutralUpdates, JournalType DEF ForceReturn, SameFlags, SameFile, Save, device
<1>13. CASE SendReturn
  BY <1>13 DEF SendReturn, Send, Session, local, slots
<1>14. CASE WaitReturn
  BY <1>14, NeutralUpdates, JournalType
     DEF WaitReturn, SameFlags, SameFile, Record, Save, device, aux
<1>15. CASE Stage
  BY <1>15, NeutralUpdates, JournalType
     DEF Stage, SameFlags, SameFile, Record, Save, device, aux
<1>16. CASE WriteKnownIncoming
  BY <1>16, CallType DEF WriteKnownIncoming, local, aux
<1>17. CASE Place
  <2>1. CASE Fail
    BY <1>17, <2>1, FailPromise DEF Place
  <2>2. CASE /\ Record([journal EXCEPT !.incomingPlaceIntent = TRUE, !.verifyMoveIntent = TRUE], "sendPlacement")
             /\ ~Fail
    <3>1. /\ active' = journal'
          /\ journal' = [journal EXCEPT !.incomingPlaceIntent = TRUE, !.verifyMoveIntent = TRUE]
          /\ pc' = "sendPlacement"
          /\ UNCHANGED <<original, snapshot, moves, taken, back, mode, call, seen>>
      BY <2>2 DEF Record, Save, device, aux
    <3>2. pc = "place"
      BY <1>17, <2>2 DEF Place
    <3>3. journal \in Journal /\ journal # NoJournal
      BY <3>2, JournalType
    <3>4. SameFlags(journal', journal)
      BY <3>1, <3>3, NeutralUpdates, PromiseUpdates
    <3> QED BY <3>1, <3>2, <3>3, <3>4 DEF SameFlags, SameFile
  <2> QED BY <1>17, <2>1, <2>2 DEF Place
<1>18. CASE SendPlacement
  BY <1>18, CallType DEF SendPlacement, FailLabel, Session, local, aux, slots
<1>19. CASE WaitIncoming
  BY <1>19 DEF WaitIncoming, Step, device, local, aux
<1>20. CASE WaitVerify
  BY <1>20 DEF WaitVerify, Step, device, local, aux
<1>21. CASE ReadVerify
  <2>1. CASE Fail
    BY <1>21, <2>1, FailPromise DEF ReadVerify
  <2>2. CASE Record([journal EXCEPT !.newVerified = TRUE], "commitNew") /\ ~Fail
    <3>1. /\ active' = journal' /\ journal' = [journal EXCEPT !.newVerified = TRUE]
          /\ pc' = "commitNew"
          /\ UNCHANGED <<original, snapshot, moves, taken, back, mode, call, seen>>
      BY <2>2 DEF Record, Save, device, aux
    <3>2. pc = "readVerify"
      BY <1>21, <2>2 DEF ReadVerify
    <3>3. journal \in Journal /\ journal # NoJournal
      BY <3>2, JournalType
    <3>4. SameFlags(journal', journal)
      BY <3>1, <3>3, NeutralUpdates, PromiseUpdates
    <3> QED BY <3>1, <3>2, <3>3, <3>4 DEF SameFlags, SameFile
  <2> QED BY <1>21, <2>1, <2>2 DEF ReadVerify
<1>22. CASE CommitNew
  <2>1. /\ active' = journal' /\ journal' = [journal EXCEPT !.returnNewIntent = TRUE]
        /\ pc' = "sendNew"
        /\ UNCHANGED <<original, snapshot, moves, taken, back, mode, call, seen>>
        /\ pc = "commitNew"
    BY <1>22 DEF CommitNew, Record, Save, device, aux
  <2>2. journal \in Journal /\ journal # NoJournal
    BY <2>1, JournalType
  <2>3. SameFile(journal', journal) /\ journal'.returnNewIntent
        /\ journal'.originalMoveIntent = journal.originalMoveIntent
        /\ journal'.originalObserved = journal.originalObserved
        /\ journal'.originalReturned = journal.originalReturned
        /\ journal'.committed = journal.committed
    BY <2>1, <2>2, PromiseUpdates
  <2> QED BY <2>1, <2>2, <2>3 DEF SameFile
<1>23. CASE SendNew
  BY <1>23, CallType DEF SendNew, Fail, FailLabel, Send, Session, device, local, aux, slots
<1>24. CASE WaitNew
  BY <1>24, NeutralUpdates, JournalType, CallType
     DEF WaitNew, SameFlags, SameFile, Save, device, aux
<1>25. CASE Create
  BY <1>25, NeutralUpdates, JournalType
     DEF Create, SameFlags, SameFile, Record, Save, device, aux
<1>26. CASE SendCreation
  BY <1>26, CallType
     DEF SendCreation, Fail, FailLabel, Send, Session, device, local, aux, slots
<1>27. CASE WaitCreation
  BY <1>27, NeutralUpdates, JournalType
     DEF WaitCreation, SameFlags, SameFile, Record, Save, device, aux
<1>28. CASE SendReadBack
  BY <1>28 DEF SendReadBack, Send, Session, local, slots
<1>29. CASE CommitDelete
  BY <1>29, NeutralUpdates, JournalType, CallType
     DEF CommitDelete, SameFlags, SameFile, Save, device, aux
<1>30. CASE CommitDeleteRefused
  BY <1>30, CallType DEF CommitDeleteRefused, Fail, FailLabel, device, local, aux
<1>31. CASE Finish
  BY <1>31 DEF Finish, device, aux
<1>32. CASE Report
  <2>1. /\ taken' = taken /\ original' = original /\ back' = back /\ active' = active
        /\ moves' = moves /\ pc' = "idle" /\ pc = "report"
    BY <1>32 DEF Report, device, aux
  <2>2. CASE snapshot' = snapshot
    BY <2>1, <2>2
  <2>3. CASE call.kind = "read" /\ call.ok
    <3>1. active # NoJournal => active.operation = "read"
      BY <2>1, <2>3 DEF ReadJournal, InRead
    <3> QED BY <2>1, <3>1
  <2> QED BY <1>32, <2>2, <2>3 DEF Report
<1> QED
  BY <1>1, <1>2, <1>3, <1>4, <1>5, <1>6, <1>7, <1>8, <1>9, <1>10, <1>11, <1>12, <1>13,
     <1>14, <1>15, <1>16, <1>17, <1>18, <1>19, <1>20, <1>21, <1>22, <1>23, <1>24, <1>25,
     <1>26, <1>27, <1>28, <1>29, <1>30, <1>31, <1>32
     DEF CallStep

\* The steps of a recovery keep every promise.
LEMMA RecoveryStepPromise ==
  ASSUME IInv, IInv', PromiseInv, RecoveryStep
  PROVE  PromiseInv'
<1> USE NoJournalAssumption
    DEF PromiseInv, Agree, FlagsOK, LabelsOK, SeenOK, DeleteOK, CommittedDeleteRetained,
        Untaken, GivenUp, NewPcs, SeenPcs, DecidedPcs, TakingPcs, PlacingPcs, OpenPcs, Pcs,
        SendPcs, WaitPcs, RecoveryPcs, OtherPcs, Goto, IInv, TypeInv, JournalThere, ModeOK,
        RecoverOnlyPcs, CustodyInv, OneOriginal, BeforePcs, Creating
<1>1. CASE RecoverCreate
  <2>1. CASE Fail
    BY <1>1, <2>1, FailPromise DEF RecoverCreate
  <2>2. CASE Record([journal EXCEPT !.newVerified = TRUE], "commitNew")
    <3>1. /\ active' = journal' /\ journal' = [journal EXCEPT !.newVerified = TRUE]
          /\ UNCHANGED <<original, snapshot, moves, taken, back, mode, call, seen>>
          /\ pc' = "commitNew"
      BY <2>2 DEF Record, Save, device, aux
    <3>2. pc = "recover" /\ journal.operation = "create"
      BY <1>1 DEF RecoverCreate
    <3>3. journal \in Journal /\ journal # NoJournal
      BY <3>2, JournalType
    <3>4. SameFlags(journal', journal)
      BY <3>1, <3>3, NeutralUpdates
    <3> QED BY <3>1, <3>2, <3>3, <3>4 DEF SameFlags, SameFile
  <2>3. CASE Record([journal EXCEPT !.committed = TRUE], "recovered")
    <3>1. /\ active' = journal' /\ journal' = [journal EXCEPT !.committed = TRUE]
          /\ UNCHANGED <<original, snapshot, moves, taken, back, mode, call, seen>>
          /\ pc' = "recovered"
      BY <2>3 DEF Record, Save, device, aux
    <3>2. pc = "recover" /\ journal.operation = "create"
      BY <1>1 DEF RecoverCreate
    <3>3. journal \in Journal /\ journal # NoJournal
      BY <3>2, JournalType
    <3>4. /\ SameFile(journal', journal) /\ journal'.committed
          /\ journal'.originalMoveIntent = journal.originalMoveIntent
          /\ journal'.originalObserved = journal.originalObserved
          /\ journal'.originalReturned = journal.originalReturned
          /\ journal'.returnNewIntent = journal.returnNewIntent
      BY <3>1, <3>3, PromiseUpdates
    <3> QED BY <3>1, <3>2, <3>3, <3>4 DEF SameFile
  <2>4. CASE pc' = "recovered" /\ UNCHANGED local
    <3>1. UNCHANGED <<original, snapshot, moves, taken, back, active, journal, mode, call, seen>>
      BY <1>1, <2>4 DEF RecoverCreate, Step, Record, Fail, FailLabel, device, local, aux
    <3>2. pc = "recover" /\ journal.operation = "create"
      BY <1>1 DEF RecoverCreate
    <3> QED BY <2>4, <3>1, <3>2
  <2> QED
    BY <1>1, <2>1, <2>2, <2>3, <2>4 DEF RecoverCreate, Step
<1>2. CASE RecoverCreateProbe
  BY <1>2 DEF RecoverCreateProbe, local, aux
<1>3. CASE RecoverKnownFile
  <2>1. CASE Fail
    BY <1>3, <2>1, FailPromise DEF RecoverKnownFile
  <2>2. CASE pc' = "recovered" /\ ~Fail
    <3>1. UNCHANGED <<original, snapshot, moves, taken, back, active, journal, mode, call>>
      BY <1>3, <2>2 DEF RecoverKnownFile, Step, device, local, aux
    <3>2. pc = "recover" /\ pc' = "recovered" /\ ~journal.originalMoveIntent
      BY <1>3, <2>2 DEF RecoverKnownFile, Step
    <3> QED BY <3>1, <3>2
  <2>3. CASE pc' = "slots" /\ ~Fail
    <3>1. UNCHANGED <<original, snapshot, moves, taken, back, active, journal, mode, call>>
      BY <1>3, <2>3 DEF RecoverKnownFile, Step, device, local, aux
    <3>2. /\ pc = "recover" /\ pc' = "slots" /\ ~Creating
          /\ seen'.original = (original # Absent)
      BY <1>3, <2>3 DEF RecoverKnownFile, Step
    <3> QED BY <3>1, <3>2
  <2> QED BY <1>3, <2>1, <2>2, <2>3 DEF RecoverKnownFile, Step
<1>4. CASE RecoverSlots
  <2>1. CASE Fail
    BY <1>4, <2>1, FailPromise DEF RecoverSlots
  <2>2. CASE Step("interrupted") /\ ResumeReadBack(journal) /\ ~Fail
    <3>1. UNCHANGED <<original, snapshot, moves, taken, back, active, journal, mode, call>>
      BY <1>4, <2>2 DEF RecoverSlots, Step, device, local, aux
    <3>2. /\ pc = "slots" /\ pc' = "interrupted" /\ seen' = seen
          /\ journal.operation = "replace"
      BY <1>4, <2>2 DEF RecoverSlots, Step, ResumeReadBack, Resumable
    <3> QED BY <3>1, <3>2
  <2>3. CASE Step("place") /\ ResumePlacement(journal) /\ ~Fail
    <3>1. UNCHANGED <<original, snapshot, moves, taken, back, active, journal, mode, call>>
      BY <1>4, <2>3 DEF RecoverSlots, Step, device, local, aux
    <3>2. pc = "slots" /\ pc' = "place" /\ seen' = seen /\ journal.operation = "replace"
      BY <1>4, <2>3 DEF RecoverSlots, Step, ResumePlacement, Resumable
    <3> QED BY <3>1, <3>2
  <2>4. CASE Record([journal EXCEPT !.newVerified = TRUE], "commitNew") /\ ~Fail
    <3>1. /\ active' = journal' /\ journal' = [journal EXCEPT !.newVerified = TRUE]
          /\ pc' = "commitNew"
          /\ UNCHANGED <<original, snapshot, moves, taken, back, mode, call, seen>>
      BY <2>4 DEF Record, Save, device, aux
    <3>2. pc = "slots" /\ journal.operation = "replace"
      BY <1>4, <2>4
         DEF RecoverSlots, ResumeReturn, Resumable, Record, Step, ResumePlacement,
             ResumeReadBack
    <3>3. journal \in Journal /\ journal # NoJournal
      BY <3>2, JournalType
    <3>4. SameFlags(journal', journal)
      BY <3>1, <3>3, NeutralUpdates, PromiseUpdates
    <3> QED BY <3>1, <3>2, <3>3, <3>4 DEF SameFlags, SameFile
  <2>5. CASE pc' \in {"classify", "probe"} /\ ~Fail
    <3>1. UNCHANGED <<original, snapshot, moves, taken, back, active, journal, mode, call>>
      BY <1>4, <2>5 DEF RecoverSlots, Step, Record, device, local, aux
    <3>2. /\ pc = "slots" /\ pc' \in {"classify", "probe"} /\ seen' = seen
          /\ (journal.operation = "delete" => pc' = "classify")
      BY <1>4, <2>5 DEF RecoverSlots, Step, Record
    <3> QED BY <3>1, <3>2
  <2> QED BY <1>4, <2>1, <2>2, <2>3, <2>4, <2>5 DEF RecoverSlots, Step
<1>5. CASE Interrupted
  <2>1. CASE Fail
    BY <1>5, <2>1, FailPromise DEF Interrupted
  <2>2. CASE Record([journal EXCEPT !.verifyMoveIntent = TRUE], "resendReadBack") /\ ~Fail
    <3>1. /\ active' = journal' /\ journal' = [journal EXCEPT !.verifyMoveIntent = TRUE]
          /\ pc' = "resendReadBack"
          /\ UNCHANGED <<original, snapshot, moves, taken, back, mode, call, seen>>
      BY <2>2 DEF Record, Save, device, aux
    <3>2. pc = "interrupted"
      BY <1>5, <2>2 DEF Interrupted
    <3>3. journal \in Journal /\ journal # NoJournal
      BY <3>2, JournalType
    <3>4. SameFlags(journal', journal)
      BY <3>1, <3>3, NeutralUpdates, PromiseUpdates
    <3> QED BY <3>1, <3>2, <3>3, <3>4 DEF SameFlags, SameFile
  <2> QED BY <1>5, <2>1, <2>2 DEF Interrupted
<1>6. CASE ResendReadBack
  BY <1>6 DEF ResendReadBack, Send, Session, local, slots
<1>7. CASE RewaitVerify
  BY <1>7 DEF RewaitVerify, Step, device, local, aux
<1>8. CASE RereadVerify
  <2>1. CASE Fail
    BY <1>8, <2>1, FailPromise DEF RereadVerify
  <2>2. CASE Record([journal EXCEPT !.newVerified = TRUE], "commitNew") /\ ~Fail
    <3>1. /\ active' = journal' /\ journal' = [journal EXCEPT !.newVerified = TRUE]
          /\ pc' = "commitNew"
          /\ UNCHANGED <<original, snapshot, moves, taken, back, mode, call, seen>>
      BY <2>2 DEF Record, Save, device, aux
    <3>2. pc = "rereadVerify"
      BY <1>8, <2>2 DEF RereadVerify
    <3>3. journal \in Journal /\ journal # NoJournal
      BY <3>2, JournalType
    <3>4. SameFlags(journal', journal)
      BY <3>1, <3>3, NeutralUpdates, PromiseUpdates
    <3> QED BY <3>1, <3>2, <3>3, <3>4 DEF SameFlags, SameFile
  <2>3. CASE Record([journal EXCEPT !.readBackMismatch = TRUE], "mismatch") /\ ~Fail
    <3>1. /\ active' = journal' /\ journal' = [journal EXCEPT !.readBackMismatch = TRUE]
          /\ pc' = "mismatch"
          /\ UNCHANGED <<original, snapshot, moves, taken, back, mode, call, seen>>
      BY <2>3 DEF Record, Save, device, aux
    <3>2. pc = "rereadVerify"
      BY <1>8, <2>3 DEF RereadVerify
    <3>3. journal \in Journal /\ journal # NoJournal
      BY <3>2, JournalType
    <3>4. SameFlags(journal', journal)
      BY <3>1, <3>3, NeutralUpdates, PromiseUpdates
    <3> QED BY <3>1, <3>2, <3>3, <3>4 DEF SameFlags, SameFile
  <2> QED BY <1>8, <2>1, <2>2, <2>3 DEF RereadVerify
<1>9. CASE Mismatch
  BY <1>9, CallType DEF Mismatch, FailLabel, Session, local, slots
<1>10. CASE ProbeTarget
  <2>1. CASE Fail
    BY <1>10, <2>1, FailPromise DEF ProbeTarget
  <2>2. CASE ~Fail
    <3>1. PICK presence \in Presence :
            /\ seen' = [seen EXCEPT !.target = presence]
            /\ pc' = (IF ~SafeOriginalReturn(journal, presence) THEN "classify"
                     ELSE IF seen.incoming THEN "discard" ELSE "checkReturn")
      BY <1>10, <2>2 DEF ProbeTarget
    <3>2. /\ UNCHANGED <<original, snapshot, moves, taken, back, active, journal, mode, call>>
          /\ pc = "probe"
      BY <1>10, <2>2 DEF ProbeTarget, device, local, aux
    <3>3. seen'.original = seen.original
      BY <3>1 DEF TypeOK, Seen
    <3>4. pc' = "classify" \/ (pc' \in {"discard", "checkReturn"} /\ seen.original)
      BY <3>1 DEF SafeOriginalReturn
    <3> QED BY <3>2, <3>3, <3>4
  <2> QED BY <2>1, <2>2
<1>11. CASE Discard
  BY <1>11 DEF Discard, Step, device, local, aux
<1>12. CASE Discarded
  BY <1>12, NeutralUpdates, JournalType
     DEF Discarded, SameFlags, SameFile, Record, Save, device, aux
<1>13. CASE CloseDelete
  <2>1. CASE Fail
    BY <1>13, <2>1, FailPromise DEF CloseDelete
  <2>2. CASE Step("recovered") /\ ~Fail
    <3>1. UNCHANGED <<original, snapshot, moves, taken, back, active, journal, mode, call>>
      BY <1>13, <2>2 DEF CloseDelete, Step, device, local, aux
    <3>2. /\ pc = "classify" /\ pc' = "recovered" /\ journal.committed
          /\ journal.captured # Absent /\ snapshot = journal.captured
      BY <1>13, <2>2
         DEF CloseDelete, Step, BothOriginalsValid, LocalOriginalValid, Fail, FailLabel
    <3>3. taken # Absent /\ snapshot = taken
      BY <3>1, <3>2, JournalType
    <3> QED BY <3>1, <3>2, <3>3
  <2> QED BY <1>13, <2>1, <2>2 DEF CloseDelete
<1>14. CASE CloseReturned
  <2>1. CASE Fail
    BY <1>14, <2>1, FailPromise DEF CloseReturned
  <2>2. CASE Step("recovered") /\ ~Fail
    <3>1. UNCHANGED <<original, snapshot, moves, taken, back, active, journal, mode, call>>
      BY <1>14, <2>2 DEF CloseReturned, Step, device, local, aux
    <3>2. /\ pc = "classify" /\ pc' = "recovered" /\ ~seen.original
          /\ (journal.originalReturned \/ journal.originalObserved)
      BY <1>14, <2>2 DEF CloseReturned, Step, OpenReturn
    <3> QED BY <3>1, <3>2
  <2>3. CASE Record([journal EXCEPT !.originalReturned = TRUE], "recovered") /\ ~Fail
    <3>1. /\ active' = journal' /\ journal' = [journal EXCEPT !.originalReturned = TRUE]
          /\ pc' = "recovered"
          /\ UNCHANGED <<original, snapshot, moves, taken, back, mode, call, seen>>
      BY <2>3 DEF Record, Save, device, aux
    <3>2. /\ pc = "classify" /\ ~seen.original
          /\ (journal.originalObserved \/ journal.originalReturned)
          /\ ~(journal.operation = "delete" /\ journal.committed)
      BY <1>14, <2>3 DEF CloseReturned, OpenReturn, Record, Step
    <3>3. journal \in Journal /\ journal # NoJournal
      BY <3>2, JournalType
    <3>4. SameFile(journal', journal) /\ journal'.originalReturned
          /\ journal'.originalMoveIntent = journal.originalMoveIntent
          /\ journal'.originalObserved = journal.originalObserved
          /\ journal'.committed = journal.committed
          /\ journal'.returnNewIntent = journal.returnNewIntent
      BY <3>1, <3>3, NeutralUpdates, PromiseUpdates
    <3> QED BY <3>1, <3>2, <3>3, <3>4 DEF SameFlags, SameFile
  <2> QED BY <1>14, <2>1, <2>2, <2>3 DEF CloseReturned
<1>15. CASE ConfirmCommit
  <2>1. CASE Fail
    BY <1>15, <2>1, FailPromise DEF ConfirmCommit
  <2>2. CASE Record([journal EXCEPT !.committed = TRUE], "classify") /\ ~Fail
    <3>1. /\ active' = journal' /\ journal' = [journal EXCEPT !.committed = TRUE]
          /\ pc' = "classify"
          /\ UNCHANGED <<original, snapshot, moves, taken, back, mode, call, seen>>
      BY <2>2 DEF Record, Save, device, aux
    <3>2. pc = "classify" /\ journal.operation # "delete" /\ journal.returnNewIntent
      BY <1>15, <2>2 DEF ConfirmCommit, OpenCommit
    <3>3. journal \in Journal /\ journal # NoJournal
      BY <3>2, JournalType
    <3>4. SameFile(journal', journal) /\ journal'.committed
          /\ journal'.originalMoveIntent = journal.originalMoveIntent
          /\ journal'.originalObserved = journal.originalObserved
          /\ journal'.originalReturned = journal.originalReturned
          /\ journal'.returnNewIntent = journal.returnNewIntent
      BY <3>1, <3>3, NeutralUpdates, PromiseUpdates
    <3> QED BY <3>1, <3>2, <3>3, <3>4 DEF SameFlags, SameFile
  <2> QED BY <1>15, <2>1, <2>2 DEF ConfirmCommit
<1>16. CASE CloseCommitted
  <2>1. CASE Fail
    BY <1>16, <2>1, FailPromise DEF CloseCommitted
  <2>2. CASE (Step("recovered") \/ Step("dropOriginal")) /\ ~Fail
    <3>1. UNCHANGED <<original, snapshot, moves, taken, back, active, journal, mode, call>>
      BY <1>16, <2>2 DEF CloseCommitted, Step, device, local, aux
    <3>2. /\ pc = "classify" /\ pc' \in {"recovered", "dropOriginal"}
          /\ journal.committed /\ journal.captured # Absent
          /\ snapshot = journal.captured /\ journal.operation # "delete"
      BY <1>16, <2>2 DEF CloseCommitted, Step, LocalOriginalValid, Fail, FailLabel
    <3>3. taken # Absent /\ snapshot = taken
      BY <3>1, <3>2, JournalType
    <3> QED BY <3>1, <3>2, <3>3
  <2> QED BY <1>16, <2>1, <2>2 DEF CloseCommitted
<1>17. CASE DropOriginal
  BY <1>17 DEF DropOriginal, local, aux
<1>18. CASE RestoreOrPend
  <2>1. CASE Fail
    BY <1>18, <2>1, FailPromise DEF RestoreOrPend
  <2>2. CASE Record([journal EXCEPT !.originalObserved = TRUE], "forceReturn") /\ ~Fail
    <3>1. /\ active' = journal' /\ journal' = [journal EXCEPT !.originalObserved = TRUE]
          /\ pc' = "forceReturn"
          /\ UNCHANGED <<original, snapshot, moves, taken, back, mode, call, seen>>
      BY <2>2 DEF Record, Save, device, aux
    <3>2. pc = "classify" /\ seen.original /\ ~journal.committed
      BY <1>18, <2>2 DEF RestoreOrPend
    <3>3. journal \in Journal /\ journal # NoJournal
      BY <3>2, JournalType
    <3>4. SameFile(journal', journal) /\ journal'.originalObserved
          /\ journal'.originalMoveIntent = journal.originalMoveIntent
          /\ journal'.originalReturned = journal.originalReturned
          /\ journal'.committed = journal.committed
          /\ journal'.returnNewIntent = journal.returnNewIntent
      BY <3>1, <3>3, NeutralUpdates, PromiseUpdates
    <3> QED BY <3>1, <3>2, <3>3, <3>4 DEF SameFlags, SameFile
  <2> QED BY <1>18, <2>1, <2>2 DEF RestoreOrPend
<1>19. CASE RestoreRecovered
  BY <1>19, CallType DEF RestoreRecovered, device, aux
<1>20. CASE CleanGeneratedStage
  BY <1>20 DEF CleanGeneratedStage, local, aux, slots
<1>21. CASE RemoveActive
  BY <1>21, CallType DEF RemoveActive, device, aux
<1> QED
  BY <1>1, <1>2, <1>3, <1>4, <1>5, <1>6, <1>7, <1>8, <1>9, <1>10, <1>11, <1>12, <1>13,
     <1>14, <1>15, <1>16, <1>17, <1>18, <1>19, <1>20, <1>21
     DEF RecoveryStep

\* Failures, crashes, moves and the application keep every promise.
LEMMA OtherStepPromise ==
  ASSUME IInv, IInv', PromiseInv, [Next]_vars, ~CallStep, ~RecoveryStep
  PROVE  PromiseInv'
<1> USE NoJournalAssumption
    DEF PromiseInv, Agree, FlagsOK, LabelsOK, SeenOK, DeleteOK, CommittedDeleteRetained,
        Untaken, GivenUp, NewPcs, SeenPcs, DecidedPcs, TakingPcs, PlacingPcs, OpenPcs, Pcs,
        SendPcs, WaitPcs, RecoveryPcs, OtherPcs, Goto, IInv, TypeInv, JournalThere, ModeOK,
        RecoverOnlyPcs, CustodyInv, OneOriginal, BeforePcs, Creating
<1>1. ASSUME NEW k \in Kinds, NEW d \in File, BeginCall(k, d) PROVE PromiseInv'
  BY <1>1 DEF BeginCall, device, aux
<1>2. CASE BeginRestore
  BY <1>2 DEF BeginRestore, device, aux, NoCall
<1>3. CASE IoError
  BY <1>3, CallType DEF IoError, Step, Fail, FailLabel, device, local, aux
<1>4. CASE WaitTimeout
  BY <1>4, CallType DEF WaitTimeout, Fail, FailLabel, device, local, aux
<1>5. CASE Crash
  BY <1>5 DEF Crash, device, aux, NoCall
<1>6. CASE ExecuteMove
  <2>1. /\ moves \in Queues /\ moves # <<>> /\ moves' = Tail(moves)
        /\ UNCHANGED <<snapshot, active, journal, pc, mode, call, seen>>
    BY <1>6 DEF ExecuteMove, TypeOK, local, worker
  <2>2. /\ moves' # <<"toOriginal">>
        /\ (Head(moves) = "toOriginal" => moves = <<"toOriginal">>)
    BY <2>1, QueueEnds
  <2>3. CASE Head(moves) = "toOriginal"
    <3>1. taken = Absent /\ original = Absent /\ moves = <<"toOriginal">>
      BY <2>2, <2>3
    <3>2. original' = taken' /\ back' = back
      <4>1. back' = back
        BY <1>6, <2>3 DEF ExecuteMove, TypeOK
      <4>2. original' = taken'
        BY <1>6, <2>3, <3>1 DEF ExecuteMove
      <4> QED BY <4>1, <4>2
    <3>3. moves' = <<>>
      BY <2>1, <3>1
    <3>4. Agree' /\ FlagsOK' /\ LabelsOK' /\ SeenOK'
      BY <2>1, <3>1, <3>2, <3>3
    <3> QED BY <2>1, <3>1, <3>2, <3>3, <3>4
  <2>4. CASE Head(moves) # "toOriginal"
    <3>1. /\ taken' = taken /\ (original' = original \/ (original' = Absent /\ back'))
          /\ (back => back')
      BY <1>6, <2>4 DEF ExecuteMove
    <3>2. (back' = back /\ original' = original) \/ Head(moves) = "fromOriginal"
      BY <1>6, <2>4 DEF ExecuteMove, TypeOK
    <3>3. Agree' /\ FlagsOK' /\ LabelsOK' /\ SeenOK'
      BY <2>1, <2>2, <3>1
    <3>4. moves = <<"toOriginal">> => Head(moves) = "toOriginal"
      OBVIOUS
    <3>5. moves = <<>> \/ moves # <<"toOriginal">>
      BY <2>4, <3>4
    <3>6. Head(moves) \in {moves[i] : i \in DOMAIN moves}
          /\ {moves'[i] : i \in DOMAIN moves'} \subseteq {moves[i] : i \in DOMAIN moves}
      BY <2>1, QueueParts
    <3>7. DeleteOK'
      BY <2>1, <3>5, <2>4
    <3>8. CommittedDeleteRetained'
      <4>1. active # NoJournal /\ active.operation = "delete" /\ active.committed
              => /\ taken # Absent /\ original = taken /\ snapshot = taken
                 /\ \A i \in DOMAIN moves : moves[i] \notin FillsTarget
        OBVIOUS
      <4>2. (\A i \in DOMAIN moves : moves[i] \notin FillsTarget)
              => \A i \in DOMAIN moves' : moves'[i] \notin FillsTarget
        BY <3>6
      <4>3. (\A i \in DOMAIN moves : moves[i] \notin FillsTarget)
              => Head(moves) # "fromOriginal"
        <5>1. PICK i \in DOMAIN moves : Head(moves) = moves[i]
          BY <3>6
        <5> QED BY <5>1 DEF FillsTarget
      <4> QED BY <2>1, <3>1, <3>2, <4>1, <4>2, <4>3
    <3> QED BY <3>3, <3>7, <3>8
  <2> QED BY <2>3, <2>4
<1>7. CASE DropMove
  <2>1. /\ moves \in Queues /\ moves # <<>> /\ moves' = Tail(moves)
        /\ UNCHANGED <<snapshot, active, journal, pc, mode, call, seen, taken, original, back>>
    BY <1>7 DEF DropMove, TypeOK, local, worker, slots, aux
  <2>2. /\ moves' # <<"toOriginal">>
        /\ {moves'[i] : i \in DOMAIN moves'} \subseteq {moves[i] : i \in DOMAIN moves}
    BY <2>1, QueueEnds, QueueParts
  <2>3. Agree' /\ FlagsOK' /\ LabelsOK' /\ SeenOK' /\ CommittedDeleteRetained'
    BY <2>1, <2>2
  <2>4. moves = <<"toOriginal">> => moves' = <<>>
    BY <2>1
  <2>5. DeleteOK'
    BY <2>1, <2>4
  <2> QED BY <2>3, <2>5
<1>8. CASE AppWrites
  BY <1>8 DEF AppWrites, local, worker, slots
<1>9. CASE Settle
  BY <1>9 DEF Settle, device, local, worker, aux
<1>10. CASE UNCHANGED vars
  BY <1>10 DEF vars, device, local, worker, aux
<1> QED
  BY <1>1, <1>2, <1>3, <1>4, <1>5, <1>6, <1>7, <1>8, <1>9, <1>10
     DEF Next, Begin, Worker, Device


-----------------------------------------------------------------------------
\* The journal leaves the disk only when RemoveActive removes it.
LEMMA OnlyRemoveActive ==
  ASSUME IInv, PromiseInv, IInv', [Next]_vars, active # NoJournal, active' = NoJournal
  PROVE  RemoveActive
<1> USE NoJournalAssumption
    DEF IInv, TypeInv, JournalThere, OpenPcs, Pcs, SendPcs, WaitPcs, RecoveryPcs, OtherPcs,
        Goto
<1>1. pc \in OpenPcs => journal \in Journal
  BY JournalType
<1>2. pc # "prepare" /\ pc' \notin OpenPcs
  BY DEF PromiseInv, Agree
<1>3. ~CallStep
  <2>1. ~PrepareKnownFile
    BY <1>2 DEF PrepareKnownFile
  <2>2. ~ \/ OpenReplace \/ OpenCreateProbe \/ OpenReadOrDelete \/ ObserveKnownOriginal
          \/ SendOriginal \/ WaitOriginal \/ ReadOriginal
    BY <1>2
       DEF OpenReplace, OpenCreateProbe, OpenReadOrDelete, ObserveKnownOriginal, SendOriginal,
           WaitOriginal, ReadOriginal, Send, Record, Step, Fail, local
  <2>3. ~PersistKnownOriginal
    <3>1. SUFFICES ASSUME PersistKnownOriginal PROVE FALSE
      OBVIOUS
    <3>2. active' = [journal EXCEPT !.captured = snapshot] /\ pc = "persist"
      BY <3>1 DEF PersistKnownOriginal, Save
    <3>3. journal \in Journal /\ snapshot \in File
      BY <1>1, <3>2 DEF TypeOK
    <3>4. [journal EXCEPT !.captured = snapshot] \in Journal
      BY <3>3, JournalUpdates
    <3>5. active' \in Journal
      BY <3>2, <3>4
    <3> QED BY <3>5
  <2>4. ~ \/ ReadWithoutData \/ CheckReturn \/ ForceReturn \/ SendReturn
          \/ Stage \/ WriteKnownIncoming \/ Place \/ SendPlacement \/ WaitIncoming
    BY <1>2
       DEF ReadWithoutData, CheckReturn, ForceReturn, SendReturn, Stage, WriteKnownIncoming,
           Place, SendPlacement, WaitIncoming, Send, Record, Step, Fail, local
  <2>5. ~WaitReturn
    BY <1>1, JournalUpdates DEF WaitReturn, Record, Save
  <2>6. ~ \/ WaitVerify \/ ReadVerify \/ CommitNew \/ SendNew \/ Create \/ SendCreation
          \/ WaitCreation \/ SendReadBack
    BY <1>2
       DEF WaitVerify, ReadVerify, CommitNew, SendNew, Create, SendCreation, WaitCreation,
           SendReadBack, Send, Record, Step, Fail, local
  <2>7. ~WaitNew
    BY <1>1, JournalUpdates DEF WaitNew, Save
  <2>8. ~CommitDelete
    <3>1. SUFFICES ASSUME CommitDelete PROVE FALSE
      OBVIOUS
    <3>2. PICK absence \in BOOLEAN :
            Save([journal EXCEPT !.committed = TRUE, !.targetAbsenceConfirmed = absence])
      BY <3>1 DEF CommitDelete
    <3>3. journal \in Journal
      BY <1>1, <3>1 DEF CommitDelete
    <3> QED BY <3>2, <3>3, JournalUpdates DEF Save
  <2>9. ~ \/ CommitDeleteRefused \/ Finish \/ Report
    BY <1>2 DEF CommitDeleteRefused, Finish, Report, Fail, local
  <2> QED
    BY <2>1, <2>2, <2>3, <2>4, <2>5, <2>6, <2>7, <2>8, <2>9 DEF CallStep
<1>4. RecoveryStep => RemoveActive
  <2>1. ~ \/ RecoverCreate \/ RecoverCreateProbe \/ RecoverKnownFile
    BY <1>2 DEF RecoverCreate, RecoverCreateProbe, RecoverKnownFile, Record, Step, Fail, local
  <2>2. ~ \/ RecoverSlots \/ Interrupted \/ ResendReadBack \/ RewaitVerify \/ RereadVerify
          \/ Mismatch \/ ProbeTarget
    BY <1>2
       DEF RecoverSlots, Interrupted, ResendReadBack, RewaitVerify, RereadVerify, Mismatch,
           ProbeTarget, Send, Record, Step, Fail, local
  <2>3. ~ \/ Discard \/ Discarded \/ CloseDelete \/ CloseReturned \/ ConfirmCommit
          \/ CloseCommitted
    BY <1>2
       DEF Discard, Discarded, CloseDelete, CloseReturned, ConfirmCommit, CloseCommitted,
           Record, Step, Fail, local
  <2>4. ~ \/ DropOriginal \/ RestoreOrPend \/ RestoreRecovered \/ CleanGeneratedStage
    BY <1>2
       DEF DropOriginal, RestoreOrPend, RestoreRecovered, CleanGeneratedStage, Record, Step,
           Fail, local
  <2> QED BY <2>1, <2>2, <2>3, <2>4 DEF RecoveryStep
<1>5. ~ \/ Begin \/ IoError \/ WaitTimeout \/ Device \/ Crash \/ AppWrites \/ Settle
        \/ UNCHANGED vars
  BY DEF Begin, BeginCall, BeginRestore, IoError, WaitTimeout, Device, ExecuteMove, DropMove,
         Crash, AppWrites, Settle, Step, Fail, vars, local
<1> QED BY <1>3, <1>4, <1>5 DEF Next, Worker

\* The inductive invariant of the promises.
LEMMA PromiseInvariant == Spec => [](IInv /\ PromiseInv)
<1>1. Init => PromiseInv
  BY DEF Init, PromiseInv, Agree, OpenPcs, FlagsOK, LabelsOK, SeenOK, DeleteOK,
         CommittedDeleteRetained, TakingPcs, NewPcs, PlacingPcs, SeenPcs
<1>2. IInv /\ PromiseInv /\ [Next]_vars /\ IInv' => PromiseInv'
  BY CallStepPromise, RecoveryStepPromise, OtherStepPromise
<1> QED BY <1>1, <1>2, CustodyInvariant, PTL DEF Spec

\* "A delete decision must never trigger automatic restoration": once the
\* journal on disk holds a committed deletion both copies of the original stay
\* and no move to the application's path is on its way.
THEOREM DeleteRetained == Spec => []CommittedDeleteRetained
<1>1. PromiseInv => CommittedDeleteRetained
  BY DEF PromiseInv
<1> QED BY <1>1, PromiseInvariant, PTL

\* removeActiveAtPath ends a transaction only when it is settled: the original
\* was never taken, is back, or outlives the committed decision in the
\* local copy.
THEOREM JournalClosesOnlySettled == Spec => JournalClosesSettled
<1>1. ASSUME IInv, PromiseInv, IInv', [Next]_vars
      PROVE  [ active # NoJournal /\ (active' = NoJournal \/ pc = "prepare")
               => taken = Absent \/ back \/ (active.committed /\ snapshot = taken) ]_vars
  <2>1. pc # "prepare" \/ active = NoJournal
    BY <1>1 DEF PromiseInv, Agree
  <2>2. CASE RemoveActive
    BY <1>1, <2>2 DEF RemoveActive, PromiseInv, LabelsOK, Untaken, GivenUp
  <2> QED BY <1>1, <2>1, <2>2, OnlyRemoveActive
<1> QED BY <1>1, PromiseInvariant, PTL DEF Spec, JournalClosesSettled
=============================================================================
