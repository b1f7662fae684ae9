---------------------------- MODULE KnownFileTxn ----------------------------
(***************************************************************************)
(* The known-file transaction of XFATCDirectory.m.  One worker thread      *)
(* serves one call at a time: read, replace, createProbe, delete, list and *)
(* restore.  A call moves a file of an application into an owned backup    *)
(* directory and back, journalling every intent in active.plist before the *)
(* move it announces, so that a later call can recover an interrupted one. *)
(*                                                                         *)
(* The device executes the moves it is sent (FileComplete messages)        *)
(* asynchronously and in order, and may drop them.  The application that   *)
(* owns the file may write it at any time.  The process may die at any     *)
(* step: everything in memory is lost, the journal, the local snapshot and *)
(* the device's files stay.                                                *)
(***************************************************************************)
EXTENDS Naturals, Sequences, FileRecovery

CONSTANTS Bytes,     \* contents a file can have; equal digests are equal contents
          Absent,    \* no file
          NoJournal, \* no active.plist
          Kinds,     \* the calls this instance may make
          Faults     \* what may go wrong in this instance

ASSUME AbsentAssumption == Absent \notin Bytes
ASSUME KindsAssumption ==
  Kinds \subseteq {"read", "replace", "createProbe", "delete", "list", "restore"}
ASSUME FaultsAssumption ==
  Faults \subseteq {"io",     \* a call to the device or to the local disk fails
                    "denied", \* the device refuses to show the application's path
                    "drop",   \* the device drops a move
                    "crash",  \* the process dies
                    "write"}  \* the application writes or removes its file

File == Bytes \cup {Absent}

VARIABLES
  target,    \* the application's file
  original,  \* FileOriginal in the owned backup directory
  incoming,  \* FileIncoming
  verify,    \* FileVerify
  link,      \* the generated link through which the target is addressed
  snapshot,  \* <token>-original.bin, fsynced local copy
  active,    \* active.plist on disk
  journal,   \* self.journal in memory
  moves,     \* FileComplete messages the device has not executed yet
  pc,        \* where the worker is
  mode,      \* which code runs the current function, see Modes
  call,      \* arguments and result of the current (when idle: last) call
  seen,      \* what recoverKnownFile observed, used after later steps
  calm,      \* from now on nothing fails and the application is closed
  taken,     \* auxiliary: the content the transaction moved out of the target
  back,      \* auxiliary: FileOriginal was moved back to the target
  own,       \* auxiliary: what the target holds was put there by the application
  verifyOwn, \* auxiliary: what FileVerify holds was put there by the application
  excused    \* auxiliary: the application wrote after the engine last saw the target
             \* absent, or the user confirmed overwriting the target

device == <<target, original, incoming, verify, link, moves>>
local  == <<snapshot, active, journal>>
worker == <<pc, mode, call, seen>>
aux    == <<taken, back, own, verifyOwn, excused>>
slots  == <<original, incoming, verify>>
vars   == <<device, local, worker, aux, calm>>

-----------------------------------------------------------------------------
(***************************************************************************)
(* Data                                                                    *)
(***************************************************************************)
Operations == {"read", "replace", "createProbe", "delete", "create"}

\* The knownFile dictionary of the journal.  A digest is the content itself,
\* Absent when the key is not there; captured holds originalCaptured and
\* originalDigest, which are always set together, newDigest the payload's.
Journal ==
  [operation : Operations, newDigest : File, captured : File,
   originalMoveIntent : BOOLEAN, originalObserved : BOOLEAN,
   returnOriginalIntent : BOOLEAN, originalReturned : BOOLEAN,
   incomingPlaceIntent : BOOLEAN, verifyMoveIntent : BOOLEAN,
   newVerified : BOOLEAN, returnNewIntent : BOOLEAN,
   committed : BOOLEAN, readBackMismatch : BOOLEAN,
   targetAbsenceConfirmed : BOOLEAN]

ASSUME NoJournalAssumption == NoJournal \notin Journal

\* The journal prepareKnownFile writes.  The marker of a creation probe is a
\* function of its path (XFProbeContents), so it is known from the start.
FreshJournal(kind, data) ==
  [operation |-> kind,
   newDigest |-> IF kind = "createProbe" THEN data ELSE Absent,
   captured |-> Absent,
   originalMoveIntent |-> FALSE, originalObserved |-> FALSE,
   returnOriginalIntent |-> FALSE, originalReturned |-> FALSE,
   incomingPlaceIntent |-> FALSE, verifyMoveIntent |-> FALSE,
   newVerified |-> FALSE, returnNewIntent |-> FALSE,
   committed |-> FALSE, readBackMismatch |-> FALSE,
   targetAbsenceConfirmed |-> FALSE]

\* FileComplete messages, by source and destination.
\*   toOriginal:   target  -> FileOriginal     fromOriginal: FileOriginal -> target
\*   place:        FileIncoming -> target      readBack:     target -> FileVerify
\*   return:       FileVerify -> target
Moves == {"toOriginal", "fromOriginal", "place", "readBack", "return"}
Queues == {<<>>, <<"place", "readBack">>} \cup {<<m>> : m \in Moves}
FillsTarget == {"fromOriginal", "place", "return"}
Source(m) ==
  CASE m = "fromOriginal" -> original
    [] m = "place" -> incoming
    [] m = "return" -> verify
    [] OTHER -> target

\* op: the body of a call.  prepare, finish: recoverPendingTransaction run by
\* prepareKnownFile or by finishKnownFileWithError.  restore:
\* recoverPendingKnownFileAtPath, the restoration the user confirmed.
Modes == {"op", "prepare", "finish", "restore"}
Explicit == mode = "restore"

Call == [kind : Kinds, data : File, ok : BOOLEAN, prepared : BOOLEAN]
NoCall(k) == [kind |-> k, data |-> Absent, ok |-> FALSE, prepared |-> FALSE]

Seen == [original : BOOLEAN, incoming : BOOLEAN, verify : BOOLEAN, target : Presence]
NothingSeen == [original |-> FALSE, incoming |-> FALSE, verify |-> FALSE, target |-> Unknown]

SendPcs == {"sendOriginal", "sendReturn", "sendPlacement", "sendNew",
            "sendCreation", "sendReadBack", "resendReadBack"}
WaitPcs == {"waitOriginal", "waitReturn", "waitIncoming", "waitCreation",
            "waitVerify", "rewaitVerify", "waitNew"}
RecoveryPcs == {"recover", "slots", "interrupted", "probe", "discard",
                "discarded", "classify", "dropOriginal", "recovered", "close"}
OtherPcs == {"prepare", "opened", "observe", "readOriginal", "persist",
             "checkReturn", "forceReturn", "stage", "write", "place", "create",
             "readVerify", "rereadVerify", "mismatch", "commitNew",
             "commitDelete", "finish", "report"}
Pcs == {"idle"} \cup SendPcs \cup WaitPcs \cup RecoveryPcs \cup OtherPcs

-----------------------------------------------------------------------------
(***************************************************************************)
(* Building blocks                                                         *)
(***************************************************************************)
Goto(label) == pc' = label

\* saveJournal: an atomic, fsynced write of active.plist.  A save that fails
\* leaves the old or the new file behind; the first is an IoError before the
\* step, the second an IoError after it.
Save(j) == journal' = j /\ active' = j

\* A step that changes nothing but the journal and the program counter.
Record(j, label) ==
  /\ Save(j)
  /\ Goto(label)
  /\ UNCHANGED <<device, snapshot, mode, call, seen, calm, aux>>

\* A step that only moves the program counter.
Step(label) ==
  /\ Goto(label)
  /\ UNCHANGED <<device, local, mode, call, seen, calm, aux>>

\* Mutant: a failed recovery is started again at once.
FailLabelRetrying == IF call.kind # "list" THEN "finish" ELSE "report"

\* "return NO" from the function the worker is in.  The body of a call and
\* its preparation end in finishKnownFileWithError; a failed recovery ends
\* the call, and so does a listing that cannot recover.
FailLabel ==
  IF mode \in {"op", "prepare"} /\ call.kind # "list" THEN "finish" ELSE "report"
Fail ==
  /\ Goto(FailLabel)
  /\ call' = [call EXCEPT !.ok = FALSE]
  /\ UNCHANGED <<device, local, mode, seen, calm, aux>>

\* Whether a fault can still happen.
May(fault) == ~calm /\ fault \in Faults

\* afc_get_file_info on the destination.  A destination the device will not
\* show is denied (106/10), which never counts as absence; a missing link is
\* reported exactly like a missing file (106/8).
MayBeDenied == May("denied")
SeesAbsent  == target = Absent \/ ~link
SeesPresent == target # Absent /\ link

\* XFProbeAFCConfirmsAbsence as requireProbeDestinationAbsent uses it: the
\* link is verified on both sides of the probe.
ConfirmsAbsence == link /\ target = Absent

\* A new ATC session.  The device serves one at a time, so the handshake of
\* the next one ends only after the moves of the last one were executed or
\* dropped.
Session == moves = <<>>

\* validatedLocalOriginal: the local copy is the content the journal names.
LocalOriginalValid(j) == j.captured # Absent /\ snapshot = j.captured
\* The local copy and FileOriginal are both the content the journal names.
BothOriginalsValid(j) == LocalOriginalValid(j) /\ original = j.captured

-----------------------------------------------------------------------------
(***************************************************************************)
(* Entering and preparing a call                                           *)
(***************************************************************************)
Init ==
  /\ target \in File
  /\ original = Absent /\ incoming = Absent /\ verify = Absent
  /\ link = FALSE /\ moves = <<>>
  /\ snapshot = Absent /\ active = NoJournal /\ journal = NoJournal
  /\ pc = "idle" /\ mode = "op" /\ seen = NothingSeen /\ calm = FALSE
  /\ \E k \in Kinds : call = NoCall(k)
  /\ taken = Absent /\ back = FALSE
  /\ own = TRUE /\ verifyOwn = FALSE /\ excused = FALSE

\* The data a call takes: the new content of a replacement, the marker of a
\* creation probe, the marker deleteTestAbsoluteFile expects (Absent for a
\* plain deletion).
DataOf(kind) ==
  CASE kind \in {"replace", "createProbe"} -> Bytes
    [] kind = "delete" -> File
    [] OTHER -> {Absent}

\* Every call but restore starts with recoverPendingTransaction.
BeginCall(kind, data) ==
  /\ pc = "idle"
  /\ kind \in Kinds \ {"restore"}
  /\ data \in DataOf(kind)
  /\ call' = [kind |-> kind, data |-> data, ok |-> active = NoJournal /\ kind = "list",
              prepared |-> FALSE]
  /\ journal' = active
  /\ mode' = "prepare"
  /\ Goto(IF active # NoJournal THEN "recover"
          ELSE IF kind = "list" THEN "report" ELSE "prepare")
  /\ UNCHANGED <<device, snapshot, active, seen, calm, aux>>

\* recoverPendingKnownFileAtPath refuses when there is no journal and when
\* the journal is already committed.
BeginRestore ==
  /\ pc = "idle"
  /\ "restore" \in Kinds
  /\ active # NoJournal
  /\ call' = NoCall("restore")
  /\ journal' = active
  /\ mode' = "restore"
  /\ Goto(IF active.committed THEN "report" ELSE "recover")
  /\ UNCHANGED <<device, snapshot, active, seen, calm, aux>>

\* prepareKnownFile: a new token, hence an empty backup directory and an
\* unused snapshot name; what earlier tokens kept stays where it is.  It ends
\* with a session that puts the link in place, and may fail before that.
PrepareKnownFile ==
  /\ pc = "prepare"
  /\ Session
  /\ Save(FreshJournal(call.kind, call.data))
  /\ original' = Absent /\ incoming' = Absent /\ verify' = Absent
  /\ snapshot' = Absent /\ taken' = Absent /\ back' = FALSE
  /\ mode' = "op"
  /\ \/ link' = TRUE /\ call' = [call EXCEPT !.prepared = TRUE] /\ Goto("opened")
     \/ May("io") /\ link' = FALSE /\ call' = call /\ Goto("finish")
  /\ UNCHANGED <<target, moves, seen, calm, own, verifyOwn, excused>>

\* replaceAbsoluteFile creates only where absence is confirmed; any other
\* answer, a denied or failed query included, takes the existing-file route.
OpenReplace ==
  /\ pc = "opened" /\ call.kind = "replace"
  /\ \/ /\ ConfirmsAbsence
        /\ Save([journal EXCEPT !.operation = "create"])
        /\ Goto("stage")
        /\ excused' = FALSE
     \/ /\ SeesPresent \/ MayBeDenied
        /\ Goto("observe")
        /\ UNCHANGED <<active, journal, excused>>
  /\ UNCHANGED <<device, snapshot, mode, call, seen, calm, taken, back, own, verifyOwn>>

\* createTestAbsoluteFile.
OpenCreateProbe ==
  /\ pc = "opened" /\ call.kind = "createProbe"
  /\ \/ /\ ConfirmsAbsence
        /\ Goto("stage")
        /\ excused' = FALSE
        /\ UNCHANGED <<device, local, mode, call, seen, calm, taken, back, own, verifyOwn>>
     \/ /\ SeesPresent \/ MayBeDenied
        /\ Fail

\* Mutant: an absent path is a success for every deletion.
OpenReadOrDeleteLax ==
  /\ pc = "opened" /\ call.kind \in {"read", "delete"}
  /\ \/ /\ call.kind = "delete" /\ ConfirmsAbsence
        /\ call' = [call EXCEPT !.ok = TRUE]
        /\ Goto("finish")
        /\ UNCHANGED <<device, local, mode, seen, calm, aux>>
     \/ Step("observe")

\* readAbsoluteFile, and deleteAbsoluteFile, which is done at once when the
\* marker it was asked to delete is confirmed absent.
OpenReadOrDelete ==
  /\ pc = "opened" /\ call.kind \in {"read", "delete"}
  /\ \/ /\ call.kind = "delete" /\ call.data # Absent /\ ConfirmsAbsence
        /\ call' = [call EXCEPT !.ok = TRUE]
        /\ Goto("finish")
        /\ UNCHANGED <<device, local, mode, seen, calm, aux>>
     \/ /\ call.data = Absent \/ SeesPresent \/ MayBeDenied
        /\ Step("observe")

-----------------------------------------------------------------------------
(***************************************************************************)
(* Taking the original                                                     *)
(***************************************************************************)
\* Mutant: the intent is only set in memory.
ObserveKnownOriginalUnsaved ==
  /\ pc = "observe"
  /\ SeesPresent \/ MayBeDenied
  /\ journal' = [journal EXCEPT !.originalMoveIntent = TRUE]
  /\ Goto("sendOriginal")
  /\ UNCHANGED <<device, snapshot, active, mode, call, seen, calm, aux>>

\* observeKnownOriginal, up to the durable intent.
ObserveKnownOriginal ==
  /\ pc = "observe"
  /\ \/ /\ SeesPresent \/ MayBeDenied
        /\ Record([journal EXCEPT !.originalMoveIntent = TRUE], "sendOriginal")
     \/ SeesAbsent /\ Fail

\* runKnownFilePairs with one pair.  The link is verified right before a move
\* into the application's path is sent.
Send(from, m, label) ==
  /\ pc = from
  /\ Session
  /\ m \in FillsTarget => link
  /\ moves' = <<m>>
  /\ Goto(label)
  /\ UNCHANGED <<target, slots, link, local, mode, call, seen, calm,
                 taken, back, own, verifyOwn>>

SendOriginal ==
  /\ Send("sendOriginal", "toOriginal", "waitOriginal")
  /\ UNCHANGED excused

WaitOriginal ==
  /\ pc = "waitOriginal" /\ original # Absent
  /\ Record([journal EXCEPT !.originalObserved = TRUE], "readOriginal")

\* readKnownStage, then the local half of persistKnownOriginal: the snapshot
\* is written without overwriting and fsynced before the journal names it.
ReadOriginal ==
  /\ pc = "readOriginal" /\ original # Absent
  /\ snapshot' = original
  /\ Goto("persist")
  /\ UNCHANGED <<device, active, journal, mode, call, seen, calm, aux>>

\* The journal half of persistKnownOriginal.  readAbsoluteFile now has its
\* data; deleteAbsoluteFile stops when the content is not the marker it expects.
PersistKnownOriginal ==
  /\ pc = "persist"
  /\ Save([journal EXCEPT !.captured = snapshot])
  /\ call' = [call EXCEPT !.ok = (call.kind = "read")]
  /\ Goto(CASE call.kind = "read" -> "checkReturn"
            [] call.kind = "replace" -> "stage"
            [] call.kind = "delete" /\ call.data \in {Absent, snapshot} -> "commitDelete"
            [] OTHER -> "finish")
  /\ UNCHANGED <<device, snapshot, mode, seen, calm, aux>>

\* readAbsoluteFile returns the original even when reading or capturing it
\* failed; the journal in memory may then know more than the one on disk.
ReadWithoutData ==
  /\ call.kind = "read"
  /\ \/ pc = "readOriginal" /\ UNCHANGED <<active, journal>>
     \/ pc = "persist" /\ May("io") /\ UNCHANGED <<active, journal>>
     \/ /\ pc = "persist" /\ May("io")
        /\ journal' = [journal EXCEPT !.captured = snapshot]
        /\ active' \in {active, journal'}
  /\ Goto("checkReturn")
  /\ UNCHANGED <<device, snapshot, mode, call, seen, calm, aux>>

-----------------------------------------------------------------------------
(***************************************************************************)
(* Returning the original                                                  *)
(***************************************************************************)
\* Mutant: the intent is only set in memory.
CheckReturnUnsaved ==
  /\ pc = "checkReturn" /\ SeesAbsent
  /\ journal' = [journal EXCEPT !.returnOriginalIntent = TRUE]
  /\ excused' = FALSE
  /\ Goto("sendReturn")
  /\ UNCHANGED <<device, snapshot, active, mode, call, seen, calm, taken, back, own, verifyOwn>>

\* returnKnownOriginal with requireDestinationAbsent.
CheckReturn ==
  /\ pc = "checkReturn"
  /\ \/ /\ SeesAbsent
        /\ Save([journal EXCEPT !.returnOriginalIntent = TRUE])
        /\ excused' = FALSE
        /\ Goto("sendReturn")
        /\ UNCHANGED <<device, snapshot, mode, call, seen, calm,
                       taken, back, own, verifyOwn>>
     \/ SeesPresent /\ Fail

\* returnKnownOriginal without it: only the restoration the user confirmed.
ForceReturn ==
  /\ pc = "forceReturn"
  /\ Save([journal EXCEPT !.returnOriginalIntent = TRUE])
  /\ excused' = Explicit
  /\ Goto("sendReturn")
  /\ UNCHANGED <<device, snapshot, mode, call, seen, calm, taken, back, own, verifyOwn>>

SendReturn ==
  /\ Send("sendReturn", "fromOriginal", "waitReturn")
  /\ UNCHANGED excused

WaitReturn ==
  /\ pc = "waitReturn" /\ original = Absent
  /\ Record([journal EXCEPT !.originalReturned = TRUE],
            IF mode = "op" THEN "finish" ELSE "recovered")

-----------------------------------------------------------------------------
(***************************************************************************)
(* Placing new content                                                     *)
(***************************************************************************)
\* The payload is identified in the journal before it is staged.
Stage ==
  /\ pc = "stage"
  /\ Record([journal EXCEPT !.newDigest = call.data], "write")

\* writeKnownIncoming: not atomic, so an interrupted one leaves any content.
WriteKnownIncoming ==
  /\ pc = "write" /\ incoming = Absent
  /\ \/ /\ incoming' = call.data
        /\ Goto(IF journal.operation = "replace" THEN "place" ELSE "create")
        /\ call' = call
     \/ /\ May("io")
        /\ incoming' \in Bytes
        /\ Goto("finish")
        /\ call' = [call EXCEPT !.ok = FALSE]
  /\ UNCHANGED <<target, original, verify, link, moves, local, mode, seen, calm, aux>>

\* placePreparedReplacementData, up to its durable intents.
Place ==
  /\ pc = "place"
  /\ IF link /\ verify = Absent /\ incoming = journal.newDigest /\ incoming # Absent
     THEN Record([journal EXCEPT !.incomingPlaceIntent = TRUE,
                                 !.verifyMoveIntent = TRUE], "sendPlacement")
     ELSE Fail

\* Mutant: the file is moved back before it was verified.
SendPlacementUnverified ==
  /\ pc = "sendPlacement" /\ Session /\ link
  /\ moves' = <<"place", "readBack", "return">>
  /\ Goto("waitIncoming")
  /\ UNCHANGED <<target, slots, link, local, mode, call, seen, calm, aux>>

\* Two FileComplete messages in one session; it can break between them.
SendPlacement ==
  /\ pc = "sendPlacement" /\ Session /\ link
  /\ \/ /\ moves' = <<"place", "readBack">>
        /\ Goto("waitIncoming")
        /\ call' = call
     \/ /\ May("io")
        /\ moves' = <<"place">>
        /\ Goto(FailLabel)
        /\ call' = [call EXCEPT !.ok = FALSE]
  /\ UNCHANGED <<target, slots, link, local, mode, seen, calm, aux>>

WaitIncoming ==
  /\ pc = "waitIncoming" /\ incoming = Absent
  /\ Step("waitVerify")

WaitVerify ==
  /\ pc = "waitVerify" /\ verify # Absent
  /\ Step("readVerify")

\* The content read back from the application's path must be the payload.
ReadVerify ==
  /\ pc = "readVerify"
  /\ IF verify = journal.newDigest /\ verify # Absent
     THEN Record([journal EXCEPT !.newVerified = TRUE], "commitNew")
     ELSE Fail

\* returnKnownReplacement, up to its durable intent.
CommitNew ==
  /\ pc = "commitNew" /\ journal.newVerified
  /\ Record([journal EXCEPT !.returnNewIntent = TRUE], "sendNew")

\* A link that is gone stops the return; creations also check the destination
\* again right before the message.
Creating == journal.operation \in {"create", "createProbe"}
SendNew ==
  \/ /\ Send("sendNew", "return", "waitNew")
     /\ Creating => ConfirmsAbsence
     /\ excused' = (excused /\ ~Creating)
  \/ /\ pc = "sendNew" /\ Session
     /\ ~link \/ (Creating /\ SeesPresent)
     /\ Fail

WaitNew ==
  /\ pc = "waitNew" /\ verify = Absent
  /\ Save([journal EXCEPT !.committed = TRUE])
  /\ call' = IF mode = "op" THEN [call EXCEPT !.ok = TRUE] ELSE call
  /\ Goto(IF mode = "op" THEN "finish"
          ELSE IF Creating THEN "recovered" ELSE "probe")
  /\ seen' = [seen EXCEPT !.incoming = FALSE, !.verify = FALSE]
  /\ UNCHANGED <<device, snapshot, mode, calm, aux>>

\* createPreparedFileWithData and createTestAbsoluteFile place and read back
\* in two sessions.
Create ==
  /\ pc = "create"
  /\ Record([journal EXCEPT !.incomingPlaceIntent = TRUE], "sendCreation")

SendCreation ==
  \/ /\ Send("sendCreation", "place", "waitCreation")
     /\ ConfirmsAbsence
     /\ excused' = FALSE
  \/ /\ pc = "sendCreation" /\ Session /\ SeesPresent
     /\ Fail

WaitCreation ==
  /\ pc = "waitCreation" /\ incoming = Absent
  /\ Record([journal EXCEPT !.verifyMoveIntent = TRUE], "sendReadBack")

SendReadBack ==
  /\ Send("sendReadBack", "readBack", "waitVerify")
  /\ UNCHANGED excused

-----------------------------------------------------------------------------
(***************************************************************************)
(* Committing a deletion                                                   *)
(***************************************************************************)
\* The tail of deleteAbsoluteFile: knownTargetAbsenceAfterMove, the two other
\* slots, FileOriginal read again, the classifier, and the durable decision.
CommitDelete ==
  /\ pc = "commitDelete"
  /\ \E absence \in BOOLEAN :
       /\ IF absence THEN ConfirmsAbsence ELSE MayBeDenied
       /\ LET obs == [operation |-> "delete", original |-> Present,
                      incoming |-> Missing, verify |-> Missing,
                      target |-> IF absence THEN Missing ELSE Unknown,
                      originalCaptured |-> TRUE, replacementVerified |-> FALSE,
                      returnOriginalIntent |-> FALSE, placementIntent |-> FALSE,
                      returnReplacementIntent |-> FALSE, committed |-> TRUE]
          IN /\ incoming = Absent /\ verify = Absent
             /\ original = journal.captured
             /\ ClassifyFileRecovery(obs) = DeleteCommitted
       /\ Save([journal EXCEPT !.committed = TRUE, !.targetAbsenceConfirmed = absence])
  /\ call' = [call EXCEPT !.ok = TRUE]
  /\ Goto("finish")
  /\ UNCHANGED <<device, snapshot, mode, seen, calm, aux>>

\* The path is occupied, or a slot is not what it has to be.
CommitDeleteRefused ==
  /\ pc = "commitDelete"
  /\ \/ SeesPresent
     \/ incoming # Absent \/ verify # Absent \/ original # journal.captured
  /\ Fail

-----------------------------------------------------------------------------
(***************************************************************************)
(* finishKnownFileWithError and the end of a call                          *)
(***************************************************************************)
Finish ==
  /\ pc = "finish"
  /\ Goto(IF active = NoJournal THEN "report" ELSE "recover")
  /\ journal' = active
  /\ mode' = "finish"
  /\ UNCHANGED <<device, snapshot, active, call, seen, calm, aux>>

\* readAbsoluteFile removes the snapshot of a read that succeeded.
Report ==
  /\ pc = "report"
  /\ Goto("idle")
  /\ journal' = NoJournal
  /\ snapshot' = IF call.kind = "read" /\ call.ok THEN Absent ELSE snapshot
  /\ UNCHANGED <<device, active, mode, call, seen, calm, aux>>

-----------------------------------------------------------------------------
(***************************************************************************)
(* recoverKnownFile                                                        *)
(***************************************************************************)
\* operation create: only a creation that was never placed is taken back; one
\* whose read-back is staged is completed; anything in between stays pending.
RecoverCreate ==
  /\ pc = "recover" /\ journal.operation = "create"
  /\ LET j == journal
         returned == verify = Absent /\ j.newVerified /\ j.returnNewIntent
     IN \/ /\ j.committed
           /\ Step("recovered")
        \/ /\ ~j.committed /\ verify # Absent /\ verify = j.newDigest
           /\ Record([j EXCEPT !.newVerified = TRUE], "commitNew")
        \/ /\ ~j.committed /\ returned /\ incoming = Absent
           /\ Record([j EXCEPT !.committed = TRUE], "recovered")
        \/ /\ ~j.committed /\ verify = Absent /\ ~returned /\ ~j.incomingPlaceIntent
           /\ incoming \in {Absent, j.newDigest}
           /\ incoming' = Absent
           /\ Goto("recovered")
           /\ UNCHANGED <<target, original, verify, link, moves, local,
                          mode, call, seen, calm, aux>>
        \/ /\ ~j.committed
           /\ \/ verify \notin {Absent, j.newDigest}
              \/ returned /\ incoming # Absent
              \/ verify = Absent /\ ~returned /\ j.incomingPlaceIntent
              \/ /\ verify = Absent /\ ~returned /\ ~j.incomingPlaceIntent
                 /\ incoming \notin {Absent, j.newDigest}
           /\ Fail

\* operation createProbe: staged bytes that are the marker are removed, any
\* other are kept; the application's path is never touched.
RecoverCreateProbe ==
  /\ pc = "recover" /\ journal.operation = "createProbe"
  /\ incoming' = IF incoming = journal.newDigest THEN Absent ELSE incoming
  /\ verify' = IF verify = journal.newDigest THEN Absent ELSE verify
  /\ Goto("recovered")
  /\ UNCHANGED <<target, original, link, moves, local, mode, call, seen, calm, aux>>

\* read, replace, delete: nothing to do before a move was authorized; nothing
\* done automatically after the read-back showed foreign bytes; otherwise the
\* three slots are looked up.
RecoverKnownFile ==
  /\ pc = "recover" /\ ~Creating
  /\ IF ~journal.originalMoveIntent THEN Step("recovered")
     ELSE IF journal.readBackMismatch /\ ~Explicit THEN Fail
     ELSE /\ seen' = [original |-> original # Absent, incoming |-> incoming # Absent,
                      verify |-> verify # Absent, target |-> Unknown]
          /\ Goto("slots")
          /\ UNCHANGED <<device, local, mode, call, calm, aux>>

\* A replacement whose placement was announced and whose original is captured.
Resumable(j) ==
  /\ j.operation = "replace" /\ j.incomingPlaceIntent /\ j.captured # Absent
  /\ ~j.committed

\* The first placement may have completed before the read-back was sent.
ResumeReadBack(j) ==
  /\ ~Explicit /\ Resumable(j) /\ ~j.originalReturned
  /\ ~j.newVerified /\ ~j.returnNewIntent
  /\ ~seen.incoming /\ ~seen.verify /\ seen.original
\* The placement was announced and the payload is still staged.
ResumePlacement(j) ==
  /\ ~Explicit /\ Resumable(j) /\ ~j.originalReturned
  /\ seen.incoming /\ ~seen.verify /\ seen.original
\* The read-back is staged.
ResumeReturn(j) == Resumable(j) /\ seen.verify /\ ~seen.incoming

RecoverSlots ==
  /\ pc = "slots"
  /\ LET j == journal
     IN \/ ResumeReadBack(j) /\ Step("interrupted")
        \/ /\ ResumePlacement(j)
           /\ IF BothOriginalsValid(j) /\ incoming = j.newDigest
              THEN Step("place") ELSE Fail
        \/ /\ ResumeReturn(j)
           /\ IF verify = j.newDigest
              THEN Record([j EXCEPT !.newVerified = TRUE], "commitNew") ELSE Fail
        \/ /\ ~ResumeReadBack(j) /\ ~ResumePlacement(j) /\ ~ResumeReturn(j)
           /\ Step(IF j.operation = "delete" THEN "classify" ELSE "probe")

\* readBackInterruptedReplacement.
Interrupted ==
  /\ pc = "interrupted"
  /\ IF BothOriginalsValid(journal) /\ link /\ incoming = Absent /\ verify = Absent
     THEN Record([journal EXCEPT !.verifyMoveIntent = TRUE], "resendReadBack")
     ELSE Fail

ResendReadBack ==
  /\ Send("resendReadBack", "readBack", "rewaitVerify")
  /\ UNCHANGED excused

RewaitVerify ==
  /\ pc = "rewaitVerify" /\ verify # Absent
  /\ Step("rereadVerify")

RereadVerify ==
  /\ pc = "rereadVerify"
  /\ IF verify = journal.newDigest
     THEN Record([journal EXCEPT !.newVerified = TRUE], "commitNew")
     ELSE Record([journal EXCEPT !.readBackMismatch = TRUE], "mismatch")

\* The foreign bytes go back only where absence is confirmed; either way the
\* recovery stops here.
Mismatch ==
  /\ pc = "mismatch"
  /\ \/ /\ Session /\ ConfirmsAbsence
        /\ moves' = <<"return">>
        /\ excused' = FALSE
     \/ /\ SeesPresent \/ MayBeDenied
        /\ UNCHANGED <<moves, excused>>
  /\ Goto(FailLabel)
  /\ call' = [call EXCEPT !.ok = FALSE]
  /\ UNCHANGED <<target, slots, link, local, mode, seen, calm,
                 taken, back, own, verifyOwn>>

\* The original may go back automatically: it is captured and staged, nothing
\* new was verified, and the application's path was just seen absent.
SafeOriginalReturn(j, presence) ==
  /\ j.operation \in {"read", "replace"}
  /\ j.captured # Absent /\ j.originalMoveIntent /\ ~j.originalReturned
  /\ seen.original /\ ~seen.verify /\ presence = Missing
  /\ ~j.newVerified /\ ~j.returnNewIntent /\ ~j.committed
  /\ original = j.captured

\* The target is looked up through the verified link; a denied lookup leaves
\* it Unknown.
ProbeTarget ==
  /\ pc = "probe"
  /\ \/ ~link /\ Fail
     \/ /\ link
        /\ \E presence \in Presence :
             /\ CASE presence = Missing -> target = Absent
                  [] presence = Present -> target # Absent
                  [] OTHER -> MayBeDenied
             /\ seen' = [seen EXCEPT !.target = presence]
             /\ Goto(IF ~SafeOriginalReturn(journal, presence) THEN "classify"
                     ELSE IF seen.incoming THEN "discard" ELSE "checkReturn")
        /\ UNCHANGED <<device, local, mode, call, calm, aux>>

\* discardKnownIncomingForAutomaticRecovery; when the staged bytes cannot be
\* identified the automatic return is given up, not the recovery.
Discard ==
  /\ pc = "discard"
  /\ IF incoming = Absent THEN Step("checkReturn")
     ELSE IF incoming = journal.newDigest
     THEN /\ incoming' = Absent
          /\ Goto("discarded")
          /\ UNCHANGED <<target, original, verify, link, moves, local,
                         mode, call, seen, calm, aux>>
     ELSE Step("classify")

Discarded ==
  /\ pc = "discarded"
  /\ Record([journal EXCEPT !.incomingPlaceIntent = FALSE], "checkReturn")

\* What the tail of recoverKnownFile knows, as the classifier's argument.
PresenceOf(b) == IF b THEN Present ELSE Missing
AbsentOrUnknown(b) == IF b THEN Unknown ELSE Missing
ObservationOf(j) ==
  [operation |-> j.operation,
   original |-> PresenceOf(seen.original),
   incoming |-> AbsentOrUnknown(seen.incoming),
   verify |-> AbsentOrUnknown(seen.verify),
   target |-> IF j.operation = "delete" THEN Unknown ELSE seen.target,
   originalCaptured |-> j.captured # Absent,
   replacementVerified |-> j.operation = "replace" /\ j.newVerified,
   returnOriginalIntent |-> j.operation = "read" /\ j.originalReturned,
   placementIntent |-> j.operation = "replace" /\ j.incomingPlaceIntent,
   returnReplacementIntent |-> j.operation = "replace" /\ j.returnNewIntent,
   committed |-> j.committed]

\* Mutant: a deletion gives up the staged copy like a replacement.
CloseDeleteDropping ==
  /\ pc = "classify" /\ journal.operation = "delete" /\ journal.committed
  /\ Step("dropOriginal")

\* A committed deletion publishes its receipt and keeps both copies.
CloseDelete ==
  /\ pc = "classify" /\ journal.operation = "delete" /\ journal.committed
  /\ IF /\ BothOriginalsValid(journal)
        /\ ClassifyFileRecovery(ObservationOf(journal)) = DeleteCommitted
     THEN Step("recovered") ELSE Fail

OpenReturn == journal.returnOriginalIntent /\ journal.originalObserved
OpenCommit == journal.newVerified /\ journal.returnNewIntent /\ ~seen.verify /\ ~seen.incoming

\* Mutant: the intent to return is taken for the return.
CloseReturnedOnIntent ==
  /\ pc = "classify"
  /\ ~(journal.operation = "delete" /\ journal.committed)
  /\ OpenReturn
  /\ Record([journal EXCEPT !.originalReturned = TRUE], "recovered")

\* The original is known to be back, or its return is confirmed now by the
\* disappearance of its source.
CloseReturned ==
  /\ pc = "classify"
  /\ ~(journal.operation = "delete" /\ journal.committed)
  /\ ~seen.original
  /\ \/ /\ journal.originalReturned
        /\ IF /\ journal.operation = "read" /\ journal.captured # Absent
              /\ ClassifyFileRecovery(ObservationOf(journal)) # ReadReturnConfirmed
           THEN Fail ELSE Step("recovered")
     \/ /\ ~journal.originalReturned /\ OpenReturn
        /\ Record([journal EXCEPT !.originalReturned = TRUE], "recovered")

Returned == ~seen.original /\ (journal.originalReturned \/ OpenReturn)

\* The replacement's return is confirmed by the disappearance of its source.
ConfirmCommit ==
  /\ pc = "classify" /\ ~Returned
  /\ journal.operation # "delete" /\ ~journal.committed /\ OpenCommit
  /\ Record([journal EXCEPT !.committed = TRUE], "classify")

\* A committed replacement needs both copies intact, then gives up the staged one.
CloseCommitted ==
  /\ pc = "classify" /\ ~Returned
  /\ journal.operation # "delete" /\ journal.committed
  /\ IF /\ LocalOriginalValid(journal)
        /\ seen.original => original = journal.captured
        /\ ClassifyFileRecovery(ObservationOf(journal)) = WriteCommitted
     THEN Step(IF seen.original THEN "dropOriginal" ELSE "recovered")
     ELSE Fail

DropOriginal ==
  /\ pc = "dropOriginal"
  /\ original' = Absent
  /\ Goto("recovered")
  /\ UNCHANGED <<target, incoming, verify, link, moves, local, mode, call, seen, calm, aux>>

\* Mutant: the automatic recovery restores like the confirmed one.
RestoreOrPendForcing ==
  /\ pc = "classify" /\ ~Returned /\ ~journal.committed
  /\ journal.operation = "delete" \/ ~OpenCommit
  /\ IF seen.original /\ journal.captured \in {Absent, original}
     THEN Record([journal EXCEPT !.originalObserved = TRUE], "forceReturn")
     ELSE Fail

\* Mutant: a recreated file makes the staged original obsolete.
RestoreOrPendObsolete ==
  /\ pc = "classify" /\ ~Returned /\ ~journal.committed
  /\ journal.operation = "delete" \/ ~OpenCommit
  /\ IF seen.original /\ seen.target = Present THEN Step("recovered") ELSE Fail

\* Mutant: only a captured original is restored.
RestoreOrPendCaptured ==
  /\ pc = "classify" /\ ~Returned /\ ~journal.committed
  /\ journal.operation = "delete" \/ ~OpenCommit
  /\ IF Explicit /\ seen.original /\ journal.captured = original
     THEN Record([journal EXCEPT !.originalObserved = TRUE], "forceReturn")
     ELSE Fail

\* Mutant: the confirmed restoration does not look at the commit.
RestoreOrPendCommitted ==
  /\ pc = "classify" /\ ~Returned
  /\ IF Explicit /\ seen.original /\ journal.captured \in {Absent, original}
     THEN Record([journal EXCEPT !.originalObserved = TRUE], "forceReturn")
     ELSE Fail

\* Neither returned nor committed: the confirmed restoration puts a staged
\* original back whatever the path holds; an automatic one stays pending.
RestoreOrPend ==
  /\ pc = "classify" /\ ~Returned /\ ~journal.committed
  /\ journal.operation = "delete" \/ ~OpenCommit
  /\ IF Explicit /\ seen.original /\ journal.captured \in {Absent, original}
     THEN Record([journal EXCEPT !.originalObserved = TRUE], "forceReturn")
     ELSE Fail

-----------------------------------------------------------------------------
(***************************************************************************)
(* The rest of finishRecovery                                              *)
(***************************************************************************)
\* The explicit restoration is followed by an automatic recovery.
RestoreRecovered ==
  /\ pc = "recovered" /\ Explicit
  /\ journal' = active
  /\ mode' = "finish"
  /\ call' = [call EXCEPT !.ok = TRUE]
  /\ Goto("recover")
  /\ UNCHANGED <<device, snapshot, active, seen, calm, aux>>

\* restoreBooks, then the cleanup of what the transaction generated, the link
\* included.  An incomplete cleanup is recorded and does not stop the recovery.
CleanGeneratedStage ==
  /\ pc = "recovered" /\ ~Explicit
  /\ \/ link' = FALSE
     \/ May("io") /\ link' = link
  /\ Goto("close")
  /\ UNCHANGED <<target, slots, moves, local, mode, call, seen, calm, aux>>

\* Mutants: any recovery of the same payload counts; none does.
CompletedWriteAssumed(j) == call.kind = "replace" /\ j.newDigest = call.data
CompletedWriteIgnored(j) == FALSE

\* completedWriteMatchesToken: the recovery that ends a replacement may have
\* completed it.
CompletedWriteMatches(j) ==
  /\ call.kind = "replace" /\ call.prepared
  /\ j.operation \in {"replace", "create"} /\ j.newDigest = call.data
  /\ j.newVerified /\ j.committed /\ ~j.originalReturned

\* The receipt of a replacement, then the removal of active.plist.
RemoveActive ==
  /\ pc = "close"
  /\ active' = NoJournal /\ journal' = NoJournal
  /\ call' = [call EXCEPT !.ok = IF mode = "prepare" THEN call.kind = "list"
                                 ELSE @ \/ CompletedWriteMatches(journal)]
  /\ Goto(IF mode = "prepare" /\ call.kind # "list" THEN "prepare" ELSE "report")
  /\ UNCHANGED <<device, snapshot, mode, seen, calm, aux>>

-----------------------------------------------------------------------------
(***************************************************************************)
(* The environment                                                         *)
(***************************************************************************)
\* Mutant: the move of an original is repeated after an error.
IoErrorReplaying ==
  /\ May("io")
  /\ pc \notin {"idle", "report", "finish"}
  /\ IF pc = "waitOriginal" THEN Step("sendOriginal") ELSE Fail

\* Any call to the device or to the local disk fails.  Inside the automatic
\* return a failure gives up the return, not the recovery.
IoError ==
  /\ May("io")
  /\ pc \notin {"idle", "report", "finish"}
  /\ IF pc \in {"discard", "discarded"} THEN Step("classify") ELSE Fail

\* waitKnownFile gives up after 15 s.
WaitTimeout ==
  /\ pc \in WaitPcs /\ moves = <<>>
  /\ ~ CASE pc = "waitOriginal" -> original # Absent
         [] pc = "waitReturn" -> original = Absent
         [] pc \in {"waitIncoming", "waitCreation"} -> incoming = Absent
         [] pc = "waitNew" -> verify = Absent
         [] OTHER -> verify # Absent
  /\ Fail

\* The process dies.
Crash ==
  /\ May("crash")
  /\ pc # "idle"
  /\ Goto("idle")
  /\ journal' = NoJournal
  /\ call' = NoCall(call.kind)
  /\ mode' = "op" /\ seen' = NothingSeen
  /\ UNCHANGED <<device, snapshot, active, calm, aux>>

\* The device executes the next move.  A move whose source is not there, or
\* whose destination lies behind a link that was removed meanwhile, does
\* nothing; a destination that is there is overwritten.
ExecuteMove ==
  /\ moves # <<>>
  /\ moves' = Tail(moves)
  /\ LET m == Head(moves)
         content == Source(m)
         works == content # Absent /\ (m \in FillsTarget => link)
     IN /\ target' = IF ~works THEN target
                     ELSE IF m \in FillsTarget THEN content ELSE Absent
        /\ original' = IF ~works \/ m \notin {"toOriginal", "fromOriginal"} THEN original
                       ELSE IF m = "toOriginal" THEN content ELSE Absent
        /\ incoming' = IF works /\ m = "place" THEN Absent ELSE incoming
        /\ verify' = IF ~works \/ m \notin {"readBack", "return"} THEN verify
                     ELSE IF m = "readBack" THEN content ELSE Absent
        /\ taken' = IF works /\ m = "toOriginal" /\ taken = Absent THEN content ELSE taken
        /\ back' = (back \/ (works /\ m = "fromOriginal"))
        /\ own' = (IF works THEN m = "return" /\ verifyOwn ELSE own)
        /\ verifyOwn' = (IF works /\ m = "readBack" THEN own ELSE verifyOwn)
  /\ UNCHANGED <<link, local, worker, calm, excused>>

\* The device drops the next move.
DropMove ==
  /\ May("drop")
  /\ moves # <<>>
  /\ moves' = Tail(moves)
  /\ UNCHANGED <<target, slots, link, local, worker, calm, aux>>

\* The application writes or removes its file.
AppWrites ==
  /\ May("write")
  /\ \E b \in File \ {target} : target' = b
  /\ own' = TRUE /\ excused' = TRUE
  /\ UNCHANGED <<slots, link, moves, local, worker, calm, taken, back, verifyOwn>>

\* The services become healthy and the application is closed, for good.
Settle ==
  /\ ~calm
  /\ calm' = TRUE
  /\ UNCHANGED <<device, local, worker, aux>>

-----------------------------------------------------------------------------
CallStep ==
  \/ PrepareKnownFile \/ OpenReplace \/ OpenCreateProbe \/ OpenReadOrDelete
  \/ ObserveKnownOriginal \/ SendOriginal \/ WaitOriginal \/ ReadOriginal
  \/ PersistKnownOriginal \/ ReadWithoutData
  \/ CheckReturn \/ ForceReturn \/ SendReturn \/ WaitReturn
  \/ Stage \/ WriteKnownIncoming \/ Place \/ SendPlacement \/ WaitIncoming
  \/ WaitVerify \/ ReadVerify \/ CommitNew \/ SendNew \/ WaitNew
  \/ Create \/ SendCreation \/ WaitCreation \/ SendReadBack
  \/ CommitDelete \/ CommitDeleteRefused \/ Finish \/ Report

RecoveryStep ==
  \/ RecoverCreate \/ RecoverCreateProbe \/ RecoverKnownFile \/ RecoverSlots
  \/ Interrupted \/ ResendReadBack \/ RewaitVerify \/ RereadVerify \/ Mismatch
  \/ ProbeTarget \/ Discard \/ Discarded
  \/ CloseDelete \/ CloseReturned \/ ConfirmCommit \/ CloseCommitted
  \/ DropOriginal \/ RestoreOrPend
  \/ RestoreRecovered \/ CleanGeneratedStage \/ RemoveActive

Worker == CallStep \/ RecoveryStep \/ IoError \/ WaitTimeout

Begin == (\E k \in Kinds : \E d \in File : BeginCall(k, d)) \/ BeginRestore

Device == ExecuteMove \/ DropMove

Next == Begin \/ Worker \/ Device \/ Crash \/ AppWrites \/ Settle

Spec == Init /\ [][Next]_vars

\* The worker thread runs, every wait has a deadline and the device gets to
\* every move it was sent.
FairSpec == Spec /\ WF_vars(Worker) /\ WF_vars(Device)

\* In addition the user keeps reconnecting, which recovers a pending journal,
\* and confirms the restoration whenever it is offered.
RetrySpec ==
  /\ FairSpec
  /\ SF_vars(\E d \in File : BeginCall("list", d))
  /\ SF_vars(BeginRestore)
-----------------------------------------------------------------------------
(***************************************************************************)
(* Properties                                                              *)
(***************************************************************************)
\* Every variable holds a value of its type: the files, the journal on disk
\* and in memory, the queue of one session at most, the worker's state.
TypeOK ==
  /\ target \in File /\ original \in File /\ incoming \in File /\ verify \in File
  /\ link \in BOOLEAN /\ snapshot \in File
  /\ active \in Journal \cup {NoJournal} /\ journal \in Journal \cup {NoJournal}
  /\ moves \in Queues
  /\ pc \in Pcs /\ mode \in Modes /\ call \in Call /\ seen \in Seen
  /\ calm \in BOOLEAN /\ taken \in File /\ back \in BOOLEAN
  /\ own \in BOOLEAN /\ verifyOwn \in BOOLEAN /\ excused \in BOOLEAN

\* The content a transaction took out of the application is never lost: until
\* FileOriginal is moved back to the application it is in FileOriginal or in
\* the fsynced local snapshot, whatever crashes, drops and writes happen.
OriginalNeverLost ==
  taken # Absent /\ ~back => taken \in {original, snapshot}

\* The write-ahead rule of saveJournal: a move the device may still execute is
\* announced by the journal on disk, so that the recovery after a crash knows
\* of it, and no move of an original outlives the journal of its transaction.
WriteAhead ==
  \A i \in DOMAIN moves :
    Source(moves[i]) # Absent =>
      IF active = NoJournal THEN moves[i] \notin {"toOriginal", "fromOriginal"}
      ELSE CASE moves[i] = "toOriginal" -> active.originalMoveIntent
             [] moves[i] = "fromOriginal" -> active.returnOriginalIntent
             [] moves[i] = "place" -> active.incomingPlaceIntent
             [] moves[i] = "readBack" -> active.verifyMoveIntent
             [] OTHER -> active.returnNewIntent \/ active.readBackMismatch

\* "A delete decision must never trigger automatic restoration": once a
\* deletion is committed on disk both copies of the original stay, and no move
\* to the application's path is on its way, in recovery or out of it.
CommittedDeleteRetained ==
  active # NoJournal /\ active.operation = "delete" /\ active.committed
    => /\ taken # Absent /\ original = taken /\ snapshot = taken
       /\ \A i \in DOMAIN moves : moves[i] \notin FillsTarget

\* A write that reports success left its payload at the application's path,
\* and a read that reports success left the original there, unless what is
\* there now was put there by the application itself.  A deletion that reports
\* success kept both copies of what it took.
SuccessIsInPlace ==
  pc = "idle" /\ call.ok =>
    /\ call.kind \in {"replace", "createProbe"} =>
         target = call.data \/ own
    /\ call.kind = "read" => taken # Absent /\ (target = taken \/ own)
    /\ call.kind = "delete" /\ call.data = Absent =>
         taken # Absent /\ original = taken /\ snapshot = taken

\* A replacement that reports failure and leaves no pending journal behind
\* changed nothing for good: the original was never taken or is back.
FailureLeavesOriginal ==
  pc = "idle" /\ call.kind = "replace" /\ call.prepared /\ ~call.ok
    /\ active = NoJournal
    => taken = Absent \/ back

\* Automatic returns of an original and creations never overwrite content that
\* was there when the destination was checked: such a move replaces a file
\* only if the application wrote it after the check or the user confirmed it.
NoBlindOverwrite ==
  [][ /\ moves # <<>> /\ moves' = Tail(moves) /\ target # Absent /\ target' # target
      /\ active # NoJournal
      /\ \/ Head(moves) = "fromOriginal"
         \/ Head(moves) \in {"place", "return"} /\ active.operation \in {"create", "createProbe"}
      => excused ]_vars

\* The journal of a transaction leaves the disk only when the transaction is
\* settled: the original was never taken, is back at the application, or the
\* transaction is committed and the local copy of the original is intact.
JournalClosesSettled ==
  [][ active # NoJournal /\ (active' = NoJournal \/ pc = "prepare")
      => \/ taken = Absent
         \/ back
         \/ active.committed /\ snapshot = taken ]_vars

\* What the owner of the file sees of a transaction: what it is for, and who
\* answers for the bytes it took.
CustodyKind ==
  IF active = NoJournal THEN "none"
  ELSE IF active.operation \in {"read", "delete"} THEN active.operation
  ELSE "write"
CustodyStatus ==
  IF taken = Absent THEN "theirs"
  ELSE IF back THEN "returned"
  ELSE IF active = NoJournal THEN "released"
  ELSE IF active.committed THEN "released"
  ELSE "held"

\* The engine is a custodian of the file: it takes the bytes at most once in
\* a transaction, has a copy until it gave them back or committed, gives back
\* only what is not committed, and closes no journal it still answers for.
Custody == INSTANCE FileCustody WITH kind <- CustodyKind, content <- taken,
             status <- CustodyStatus, copies <- {original, snapshot} \ {Absent}
KeepsCustody == Custody!Spec

\* Every call returns: no wait, session or recovery hangs the worker.
CallsReturn == (pc # "idle") ~> (pc = "idle")

\* "Volver a conectar completa la limpieza pendiente": once the services are
\* healthy a committed deletion is closed by reconnecting.
CommittedDeleteCloses ==
  (calm /\ active # NoJournal /\ active.operation = "delete" /\ active.committed)
    ~> (active = NoJournal)

\* "A verified return plus missing owned sources still permits closing a
\* committed transaction": with healthy services and the new content in place,
\* reconnecting closes a committed replacement.
CommittedReplaceCloses ==
  (calm /\ active # NoJournal /\ active.operation = "replace" /\ active.committed
        /\ verify = Absent /\ incoming = Absent /\ target # Absent)
    ~> (active = NoJournal)

\* "Si una etapa falla antes de colocar el reemplazo [...] la recuperacion
\* devuelve automaticamente el original": an operation that was interrupted
\* with its original staged and intact and no placement announced ends, with
\* healthy services, the application closed and the restoration confirmed
\* whenever it is offered.
StagedIsRecovered ==
  (/\ calm /\ active # NoJournal
   /\ ~active.committed /\ link
   /\ original # Absent /\ active.captured \in {Absent, original}
   /\ ~active.incomingPlaceIntent)
    ~> (active = NoJournal)

\* "Si el destino cambio [...] conserva el estado y deja disponible la
\* restauracion manual": after a foreign read-back the confirmed restoration,
\* once the original is back, ends the operation.
ManualRestoreEnds ==
  (/\ calm /\ active # NoJournal
   /\ active.readBackMismatch /\ active.originalReturned /\ link)
    ~> (active = NoJournal)

\* "Restaurar original pendiente: usalo [...] si una operacion quedo
\* interrumpida antes de completarse": with healthy services, the application
\* closed and the restoration confirmed, an operation that was interrupted
\* before it completed ends.
InterruptedIsRecoverable ==
  (/\ calm /\ active # NoJournal
   /\ ~active.committed /\ ~active.originalReturned /\ link)
    ~> (active = NoJournal)
=============================================================================
