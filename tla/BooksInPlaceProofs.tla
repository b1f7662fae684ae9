------------------------- MODULE BooksInPlaceProofs -------------------------
(***************************************************************************)
(* The Books library gets back what it was, for every set of tracked files *)
(* and of contents.  What a recovery does depends on the journal and the   *)
(* marker alone, so the invariant relates these to the files: the marker   *)
(* and the flags cover every byte of the engine that is still there, and   *)
(* once they no longer do every file is back.                              *)
(***************************************************************************)
EXTENDS BooksInPlace, TLAPS

Clean(p) == file[p] \notin {Ours, Torn}

\* As it was when it was copied, or as the daemon wrote it since.
Same(p) == file[p] = pre[p] \/ p \in touched

\* The journal in memory is the one on disk once the copies are taken.
JournalOK ==
  /\ pc = "snapshot" => active = NoJournal /\ marker = "none" /\ journal \in Journal
                        /\ ~journal.inPlace /\ ~journal.writeStarted /\ ~journal.restored
  /\ pc \notin {"idle", "snapshot"} => active \in Journal /\ journal = active

\* What the journal on disk says of the library, wherever the worker is.
DiskOK ==
  active # NoJournal =>
    /\ active.writeStarted => active.inPlace
    /\ ~active.inPlace => marker = "none"
    /\ ~active.writeStarted \/ active.restored => \A p \in Tracked : Same(p)

\* How far a publication has come.
OwnPcs == {"mkroot", "openMarker", "writeMarker", "mksync", "mksync2", "intent"}
BeforePcs == {"check", "isolate", "begin", "install"} \cup OwnPcs
PublishOK ==
  /\ pc = "snapshot" => \A p \in Tracked \ todo : Same(p)
  /\ pc \in BeforePcs => ~active.writeStarted /\ ~active.restored
  /\ pc \in OwnPcs => active.inPlace

\* How far a restoration has come.
FilePcs == {"openFile", "writeFile", "removeFile", "checkFile"}
Changing == active.writeStarted /\ ~active.restored /\ marker = "own"
RestoreOK ==
  /\ pc \in FilePcs \cup {"openManifest", "writeManifest"} => Changing
  /\ pc = "restore" /\ todo # {} => Changing
  /\ pc = "restore" => \A p \in Tracked \ todo : Clean(p) /\ Same(p)
  /\ pc \in FilePcs => \A p \in Tracked \ (todo \cup {at}) : Clean(p) /\ Same(p)
  /\ pc \in {"dropMarker", "dropSync", "dropRoot", "close"} => active.restored
  /\ pc \in {"dropSync", "dropRoot", "close"} => marker = "none"

\* What the engine is about to replace is saved, unless it came just now.
SavedOK ==
  /\ pc \in {"openFile", "removeFile"} /\ file[at] \in Bytes => at \in touched \/ file[at] \in changes
  /\ pc = "writeFile" /\ file[at] \in Bytes => at \in touched

BooksInv == /\ TypeOK /\ snap = pre /\ JournalOK /\ OursIsRecorded
            /\ DiskOK /\ PublishOK /\ RestoreOK /\ SavedOK
-----------------------------------------------------------------------------
LEMMA BooksInit == Init => BooksInv
<1> SUFFICES ASSUME Init PROVE BooksInv
  OBVIOUS
<1> USE PathsAssumption, ContentAssumption
<1>1. TypeOK
  <2>1. file \in [Tracked -> File] /\ Manifest \in Tracked
    BY DEF Init, File
  <2> QED BY <2>1 DEF Init, TypeOK, Pcs
<1>2. OursIsRecorded
  BY DEF Init, OursIsRecorded
<1> QED BY <1>1, <1>2 DEF Init, BooksInv, JournalOK, DiskOK, PublishOK, BeforePcs, OwnPcs,
          RestoreOK, FilePcs, SavedOK

\* The journal after a flag was set is a journal with this flag.
LEMMA Flagged ==
  ASSUME NEW j \in Journal
  PROVE  /\ [j EXCEPT !.isolation = TRUE] \in Journal
         /\ [j EXCEPT !.inPlace = TRUE] \in Journal
         /\ [j EXCEPT !.syncCreated = TRUE] \in Journal
         /\ [j EXCEPT !.writeStarted = TRUE] \in Journal
         /\ [j EXCEPT !.restored = TRUE] \in Journal
         /\ j # NoJournal
BY NoBooksJournalAssumption DEF Journal

-----------------------------------------------------------------------------
(* The steps.                                                              *)

\* A call that fails leaves everything to the recovery.
LEMMA FailStep ==
  ASSUME BooksInv, Fail
  PROVE  BooksInv'
<1> USE DEF BooksInv, Fail, books, local
<1>1. TypeOK'
  <2>1. journal' \in Journal \cup {NoJournal} /\ pc' \in Pcs
    BY DEF TypeOK, Pcs, RecoveryPcs, Goto
  <2> QED BY <2>1 DEF TypeOK
<1>2. JournalOK'
  BY DEF JournalOK, TypeOK, Goto
<1>3. OursIsRecorded' /\ DiskOK' /\ (snap = pre)'
  BY DEF OursIsRecorded, DiskOK, Same
<1>4. PublishOK' /\ RestoreOK' /\ SavedOK'
  BY DEF PublishOK, RestoreOK, SavedOK, BeforePcs, OwnPcs, FilePcs, Goto
<1> QED BY <1>1, <1>2, <1>3, <1>4

\* The steps of a publication.  The copies are taken while no journal is on disk,
\* so no byte of the engine is copied; from the intent to the check the flag
\* and the marker cover the manifest.
LEMMA PublishStep ==
  ASSUME BooksInv,
         SnapshotFile \/ SnapshotDone \/ CheckLibrary \/ IsolateBooks
           \/ BeginBooksInPlace \/ MakeRoot \/ OpenMarker \/ WriteMarker \/ RecordSync
           \/ MakeSync \/ InstallWorkingBooks \/ WriteIntent \/ OpenManifest
           \/ WriteManifest \/ CheckManifest \/ Synchronize
  PROVE  BooksInv'
<1> USE DEF BooksInv, TypeOK, JournalOK, OursIsRecorded, DiskOK, PublishOK, RestoreOK,
        SavedOK, Pcs, ForwardPcs, RecoveryPcs, BeforePcs, OwnPcs, FilePcs,
        Same, Goto, Keep, Step, books, local
<1>1. CASE SnapshotFile
  BY <1>1, ContentAssumption DEF SnapshotFile, File
<1>2. CASE SnapshotDone
  BY <1>2 DEF SnapshotDone, Record, Save
<1>3. CASE CheckLibrary
  <2>1. TypeOK' /\ JournalOK'
    BY <1>3, Flagged, FailStep DEF CheckLibrary, Record, Save
  <2>2. (OursIsRecorded /\ DiskOK /\ PublishOK /\ RestoreOK /\ SavedOK /\ snap = pre)'
    BY <1>3, FailStep, NoBooksJournalAssumption DEF CheckLibrary, Record, Save, Journal, Changing, Clean
  <2> QED BY <2>1, <2>2
<1>4. CASE IsolateBooks
  BY <1>4 DEF IsolateBooks
<1>5. CASE BeginBooksInPlace
  <2>1. TypeOK' /\ JournalOK'
    BY <1>5, Flagged, FailStep DEF BeginBooksInPlace, Record, Save
  <2>2. (OursIsRecorded /\ DiskOK /\ PublishOK /\ RestoreOK /\ SavedOK /\ snap = pre)'
    BY <1>5, FailStep, NoBooksJournalAssumption DEF BeginBooksInPlace, Record, Save, Journal, Changing, Clean
  <2> QED BY <2>1, <2>2
<1>6. CASE MakeRoot
  BY <1>6 DEF MakeRoot
<1>7. CASE OpenMarker
  BY <1>7 DEF OpenMarker
<1>8. CASE WriteMarker
  BY <1>8 DEF WriteMarker
<1>9. CASE RecordSync
  <2>1. TypeOK' /\ JournalOK'
    BY <1>9, Flagged, FailStep DEF RecordSync, Record, Save, AfterBegin
  <2>2. (OursIsRecorded /\ DiskOK /\ PublishOK /\ RestoreOK /\ SavedOK /\ snap = pre)'
    BY <1>9, FailStep, NoBooksJournalAssumption DEF RecordSync, Record, Save, Journal, Changing, Clean, AfterBegin
  <2> QED BY <2>1, <2>2
<1>10. CASE MakeSync
  BY <1>10 DEF MakeSync, AfterBegin
<1>11. CASE InstallWorkingBooks
  BY <1>11 DEF InstallWorkingBooks
<1>12. CASE WriteIntent
  <2>1. TypeOK' /\ JournalOK'
    BY <1>12, Flagged, FailStep DEF WriteIntent, Record, Save
  <2>2. (OursIsRecorded /\ DiskOK /\ PublishOK /\ RestoreOK /\ SavedOK /\ snap = pre)'
    BY <1>12, FailStep, NoBooksJournalAssumption DEF WriteIntent, Record, Save, Journal, Changing, Clean
  <2> QED BY <2>1, <2>2
<1>13. CASE OpenManifest
  BY <1>13, PathsAssumption, NoBooksJournalAssumption
        DEF OpenManifest, Put, File, Changing
<1>14. CASE WriteManifest
  BY <1>14, PathsAssumption, NoBooksJournalAssumption
        DEF WriteManifest, Put, File, Changing
<1>15. CASE CheckManifest
  BY <1>15, FailStep DEF CheckManifest
<1>16. CASE Synchronize
  BY <1>16 DEF Synchronize
<1> QED BY <1>1, <1>2, <1>3, <1>4, <1>5, <1>6, <1>7, <1>8, <1>9, <1>10, <1>11, <1>12,
        <1>13, <1>14, <1>15, <1>16

\* The steps of a recovery.  A file is put back while the flags cover it; when
\* they no longer do, no file is left to put back.
LEMMA RecoverStep ==
  ASSUME BooksInv,
         RestoreBooks \/ RestoreBooksInPlace \/ RestoreFile \/ OpenFile \/ WriteFile
           \/ RemoveFile \/ CheckFile \/ FilesRestored \/ DropMarker \/ DropSync
           \/ DropRoot \/ CloseJournal
  PROVE  BooksInv'
<1> USE DEF BooksInv, TypeOK, JournalOK, OursIsRecorded, DiskOK, PublishOK, RestoreOK,
        SavedOK, Pcs, RecoveryPcs, BeforePcs, OwnPcs, FilePcs,
        Same, Goto, Keep, Step, books, local
<1>1. CASE RestoreBooks
  <2>1. TypeOK' /\ JournalOK'
    <3>1. CASE Fail
      BY <3>1, FailStep
    <3>2. CASE journal' = [journal EXCEPT !.restored = TRUE] /\ ~Fail
      BY <1>1, <3>2, Flagged DEF RestoreBooks, Record, Save
    <3> QED BY <1>1, <3>1, <3>2 DEF RestoreBooks, Record, Save
  <2>2. (OursIsRecorded /\ DiskOK /\ PublishOK /\ RestoreOK /\ SavedOK /\ snap = pre)'
    BY <1>1, FailStep, NoBooksJournalAssumption DEF RestoreBooks, Record, Save, Journal, Changing, Clean
  <2> QED BY <2>1, <2>2
<1>2. CASE RestoreBooksInPlace
  BY <1>2, FailStep, NoBooksJournalAssumption
        DEF RestoreBooksInPlace, MarkerRefused, Changing, Clean
<1>3. CASE RestoreFile
  BY <1>3, ContentAssumption DEF RestoreFile, SaveChanges, Exists, Changing, Clean
<1>4. CASE OpenFile
  BY <1>4, ContentAssumption, NoBooksJournalAssumption
        DEF OpenFile, Put, File, Changing, Clean
<1>5. CASE WriteFile
  BY <1>5, ContentAssumption DEF WriteFile, Put, File, Changing, Clean
<1>6. CASE RemoveFile
  BY <1>6, ContentAssumption DEF RemoveFile, Put, File, Changing, Clean
<1>7. CASE CheckFile
  BY <1>7, FailStep, ContentAssumption DEF CheckFile, Changing, Clean
<1>8. CASE FilesRestored
  <2>1. TypeOK' /\ JournalOK'
    BY <1>8, Flagged, FailStep DEF FilesRestored, Record, Save
  <2>2. (OursIsRecorded /\ DiskOK /\ PublishOK /\ RestoreOK /\ SavedOK /\ snap = pre)'
    BY <1>8, FailStep, NoBooksJournalAssumption DEF FilesRestored, Record, Save, Journal, Changing, Clean
  <2> QED BY <2>1, <2>2
<1>9. CASE DropMarker
  BY <1>9 DEF DropMarker
<1>10. CASE DropSync
  BY <1>10 DEF DropSync
<1>11. CASE DropRoot
  BY <1>11 DEF DropRoot
<1>12. CASE CloseJournal
  BY <1>12 DEF CloseJournal
<1> QED BY <1>1, <1>2, <1>3, <1>4, <1>5, <1>6, <1>7, <1>8, <1>9, <1>10, <1>11, <1>12

\* The call begins, the process dies, the daemon writes.
LEMMA OtherStep ==
  ASSUME BooksInv,
         BeginCall \/ BeginRecovery \/ Crash \/ DaemonWrites \/ DaemonMakes \/ Settle
  PROVE  BooksInv'
<1> USE DEF BooksInv, TypeOK, JournalOK, OursIsRecorded, DiskOK, PublishOK, RestoreOK,
        SavedOK, Pcs, ForwardPcs, RecoveryPcs, BeforePcs, OwnPcs, FilePcs,
        Same, Goto, Keep, Step, books, local
<1>1. CASE BeginCall
  BY <1>1 DEF BeginCall, Journal
<1>2. CASE BeginRecovery
  BY <1>2 DEF BeginRecovery
<1>3. CASE Crash
  BY <1>3 DEF Crash
<1>4. CASE DaemonWrites
  <2>1. file' \in [Tracked -> File] /\ stamp' \in BOOLEAN /\ touched' \subseteq Tracked
    <3>1. PICK p \in Tracked, b \in Bytes \cup {Absent} :
            file' = [file EXCEPT ![p] = b] /\ touched' = touched \cup {p}
      BY <1>4 DEF DaemonWrites
    <3>2. file' \in [Tracked -> File] /\ touched' \subseteq Tracked
      BY <3>1 DEF File
    <3>3. stamp' \in BOOLEAN
      BY <1>4 DEF DaemonWrites
    <3> QED BY <3>2, <3>3
  <2>2. TypeOK' /\ JournalOK'
    BY <1>4, <2>1 DEF DaemonWrites
  <2>3. OursIsRecorded'
    BY <1>4, ContentAssumption DEF DaemonWrites
  <2>4. DiskOK' /\ PublishOK'
    BY <1>4 DEF DaemonWrites
  <2>5. RestoreOK'
    BY <1>4, ContentAssumption DEF DaemonWrites, Changing, Clean
  <2>6. SavedOK' /\ (snap = pre)'
    BY <1>4 DEF DaemonWrites
  <2> QED BY <2>2, <2>3, <2>4, <2>5, <2>6
<1>5. CASE DaemonMakes
  <2>1. TypeOK' /\ JournalOK'
    BY <1>5 DEF DaemonMakes
  <2>2. (OursIsRecorded /\ DiskOK /\ PublishOK /\ RestoreOK /\ SavedOK /\ snap = pre)'
    BY <1>5 DEF DaemonMakes, Changing, Clean
  <2> QED BY <2>1, <2>2
<1>6. CASE Settle
  BY <1>6 DEF Settle, Changing, Clean
<1> QED BY <1>1, <1>2, <1>3, <1>4, <1>5, <1>6
-----------------------------------------------------------------------------
(* The invariant and the theorems.                                         *)

LEMMA BooksNext == BooksInv /\ [Next]_vars => BooksInv'
<1> SUFFICES ASSUME BooksInv, [Next]_vars PROVE BooksInv'
  OBVIOUS
<1>1. CASE Publish
  BY <1>1, PublishStep DEF Publish
<1>2. CASE Recover
  BY <1>2, RecoverStep DEF Recover
<1>3. CASE IoError
  BY <1>3, FailStep DEF IoError
<1>4. CASE BeginCall \/ BeginRecovery \/ Crash \/ DaemonWrites \/ DaemonMakes \/ Settle
  BY <1>4, OtherStep
<1>5. CASE UNCHANGED vars
  BY <1>5 DEF vars, books, local, BooksInv, TypeOK, JournalOK, OursIsRecorded, DiskOK, PublishOK,
              RestoreOK, SavedOK, Same, Changing, Clean
<1> QED BY <1>1, <1>2, <1>3, <1>4, <1>5 DEF Next, Worker

\* The invariant holds in every state the library and the engine reach.
THEOREM BooksInvariant == Spec => []BooksInv
BY BooksInit, BooksNext, PTL DEF Spec

\* The copies hold what the daemon wrote, never a byte of the engine: they are
\* taken only when nothing of an earlier transaction is left.
THEOREM TypeCorrect == Spec => []TypeOK
<1>1. BooksInv => TypeOK
  BY DEF BooksInv
<1> QED BY <1>1, BooksInvariant, PTL

\* "Persist synchronization write intent before touching original manifest":
\* while a byte of the engine is in a tracked file, the journal on disk and the
\* marker say so.
THEOREM OursAlwaysRecorded == Spec => []OursIsRecorded
<1>1. BooksInv => OursIsRecorded
  BY DEF BooksInv
<1> QED BY <1>1, BooksInvariant, PTL

\* Only the end of a recovery gives the journal up.
LEMMA OnlyCloseEnds ==
  ASSUME BooksInv, [Next]_vars, active # NoJournal, active' = NoJournal
  PROVE  CloseJournal
<1>1. ~Publish
  BY Flagged DEF BooksInv, JournalOK, Publish, SnapshotFile, SnapshotDone, CheckLibrary, IsolateBooks,
     BeginBooksInPlace, MakeRoot, OpenMarker, WriteMarker, RecordSync, MakeSync, InstallWorkingBooks,
     WriteIntent, OpenManifest, WriteManifest, CheckManifest, Synchronize, AfterBegin, Put, Fail,
     Step, Record, Save, Keep
<1>2. Recover => CloseJournal
  BY Flagged DEF BooksInv, JournalOK, Recover, RestoreBooks, RestoreBooksInPlace, RestoreFile,
     OpenFile, WriteFile, RemoveFile, CheckFile, FilesRestored, DropMarker, DropSync, DropRoot, Put,
     Fail, Step, Record, Save, Keep
<1>3. ~IoError /\ ~BeginCall /\ ~BeginRecovery /\ ~Crash
  BY DEF IoError, Fail, BeginCall, BeginRecovery, Crash
<1>4. ~DaemonWrites /\ ~DaemonMakes /\ ~Settle /\ ~UNCHANGED vars
  BY DEF DaemonWrites, DaemonMakes, Settle, vars
<1> QED BY <1>1, <1>2, <1>3, <1>4 DEF Next, Worker

\* "Tracked synchronization state restored": a transaction ends with every
\* tracked file as it was, but for what the daemon wrote.
THEOREM LibraryGivenBack == Spec => LibraryRestored
<1>1. BooksInv /\ [Next]_vars =>
        [ active # NoJournal /\ active' = NoJournal
          => marker = "none" /\ \A p \in Tracked : file[p] = pre[p] \/ p \in touched ]_vars
  <2> SUFFICES ASSUME BooksInv, [Next]_vars, active # NoJournal, active' = NoJournal
               PROVE  marker = "none" /\ \A p \in Tracked : file[p] = pre[p] \/ p \in touched
    OBVIOUS
  <2>1. pc = "close"
    BY OnlyCloseEnds DEF CloseJournal
  <2> QED BY <2>1 DEF BooksInv, RestoreOK, DiskOK, Same
<1> QED BY <1>1, BooksInvariant, PTL DEF Spec, LibraryRestored

\* A recovery replaces a file of the daemon only at its file steps.
LEMMA WhoReplaces ==
  ASSUME BooksInv, [Next]_vars, NEW p \in Tracked, pc \in RecoveryPcs, file'[p] # file[p],
         p \notin touched'
  PROVE  (OpenFile \/ WriteFile \/ RemoveFile) /\ p = at
<1>1. ~Publish
  BY DEF Publish, RecoveryPcs, SnapshotFile, SnapshotDone, CheckLibrary, IsolateBooks,
     BeginBooksInPlace, MakeRoot, OpenMarker, WriteMarker, RecordSync, MakeSync, InstallWorkingBooks,
     WriteIntent, OpenManifest, WriteManifest, CheckManifest, Synchronize
<1>2. Recover => (OpenFile \/ WriteFile \/ RemoveFile) /\ p = at
  BY DEF BooksInv, TypeOK, Recover, RestoreBooks, RestoreBooksInPlace, RestoreFile, OpenFile, WriteFile,
     RemoveFile, CheckFile, FilesRestored, DropMarker, DropSync, DropRoot, CloseJournal, Put, Fail,
     Step, Record, books
<1>3. ~IoError /\ ~BeginCall /\ ~BeginRecovery /\ ~Crash
  BY DEF IoError, Fail, BeginCall, BeginRecovery, Crash, books
<1>4. ~DaemonWrites
  BY DEF DaemonWrites, BooksInv, TypeOK
<1>5. ~DaemonMakes /\ ~Settle /\ ~UNCHANGED vars
  BY DEF DaemonMakes, Settle, vars, books
<1> QED BY <1>1, <1>2, <1>3, <1>4, <1>5 DEF Next, Worker

\* "Preserve daemon-written bytes before restoring any synchronization file":
\* what the daemon wrote is saved before it is replaced.
THEOREM DaemonBytesSaved == Spec => DaemonBytesKept
<1>1. BooksInv /\ [Next]_vars =>
        [ \A p \in Tracked :
            pc \in RecoveryPcs /\ file[p] \in Bytes /\ file'[p] # file[p]
              /\ p \notin touched'
            => file[p] \in changes ]_vars
  <2> SUFFICES ASSUME BooksInv, [Next]_vars, NEW p \in Tracked, pc \in RecoveryPcs,
                      file[p] \in Bytes, file'[p] # file[p], p \notin touched'
               PROVE  file[p] \in changes
    OBVIOUS
  <2>1. (OpenFile \/ WriteFile \/ RemoveFile) /\ p = at
    BY WhoReplaces
  <2>2. p \notin touched
    BY <2>1 DEF OpenFile, WriteFile, RemoveFile, Put
  <2> QED BY <2>1, <2>2 DEF BooksInv, SavedOK, OpenFile, WriteFile, RemoveFile
<1> QED BY <1>1, BooksInvariant, PTL DEF Spec, DaemonBytesKept
=============================================================================
