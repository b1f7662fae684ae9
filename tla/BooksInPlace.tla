---------------------------- MODULE BooksInPlace ----------------------------
(***************************************************************************)
(* The Books library as transport.  Every listing and every known-file     *)
(* transaction publishes its asset list in Books/Sync/Books.plist, so it   *)
(* first copies the tracked synchronization files, marks Books as its own, *)
(* writes the manifest and puts everything back in the end, or in a later  *)
(* recovery.  Writes to the device are not atomic: opening a file for      *)
(* writing empties it.  The synchronization daemon writes the same files.  *)
(***************************************************************************)
EXTENDS Naturals, FiniteSets

CONSTANTS Tracked,   \* XFATCTrackedFiles
          InSync,    \* those under Books/Sync
          Manifest,  \* Books/Sync/Books.plist
          Bytes,     \* contents the daemon writes
          Ours,      \* the content of the published manifest
          Torn,      \* what an interrupted write leaves
          Absent,    \* no file
          NoJournal, \* no active.plist
          Faults     \* what may go wrong in this instance

ASSUME PathsAssumption == InSync \subseteq Tracked /\ Manifest \in InSync
ASSUME ContentAssumption ==
  /\ Bytes \cap {Ours, Torn, Absent} = {}
  /\ Ours # Torn /\ Ours # Absent /\ Torn # Absent
ASSUME BooksFaultsAssumption == Faults \subseteq {"io", "crash", "daemon"}

File == Bytes \cup {Ours, Torn, Absent}

VARIABLES
  root,    \* Books exists
  sync,    \* Books/Sync exists
  file,    \* the tracked files
  marker,  \* Books/XitForgeOwner.plist: none, torn or own
  stamp,   \* the modification time of Books is the one snapshotBooks saw
  snap,    \* the fsynced <token>-preimage-<i>.bin
  changes, \* the contents in <token>-sync-change-<uuid>.bin
  active,  \* active.plist on disk
  journal, \* self.journal in memory
  pc,      \* where the worker is
  todo,    \* the tracked files the current loop has not handled yet
  at,      \* the tracked file being restored
  calm,    \* from now on nothing fails and the daemon is quiet
  pre,     \* auxiliary: the tracked files when they were copied
  touched  \* auxiliary: files the daemon wrote after the engine copied or restored them

books == <<root, sync, file, marker, stamp>>
local == <<snap, changes>>
vars  == <<books, local, active, journal, pc, todo, at, calm, pre, touched>>

\* The keys of the journal that speak of Books: booksOriginallyPresent,
\* booksIsolationStarted, booksInPlace, inPlaceSyncCreated,
\* inPlaceManifestWriteStarted, booksRestored.
Journal == [present : BOOLEAN, isolation : BOOLEAN, inPlace : BOOLEAN,
            syncCreated : BOOLEAN, writeStarted : BOOLEAN, restored : BOOLEAN]

ASSUME NoBooksJournalAssumption == NoJournal \notin Journal

ForwardPcs == {"snapshot", "check", "isolate", "begin", "mkroot", "openMarker", "writeMarker",
               "mksync", "mksync2", "install", "intent", "openManifest", "writeManifest",
               "checkManifest", "sync"}
RecoveryPcs == {"recover", "restore", "openFile", "writeFile", "checkFile", "removeFile",
                "dropMarker", "dropSync", "dropRoot", "close"}
Pcs == {"idle"} \cup ForwardPcs \cup RecoveryPcs

-----------------------------------------------------------------------------
May(fault) == ~calm /\ fault \in Faults

Goto(label) == pc' = label
Save(j) == journal' = j /\ active' = j
Keep == UNCHANGED <<active, journal>>

\* A step that only moves on, and one that also saves the journal.
Step(label) == Goto(label) /\ Keep /\ UNCHANGED <<books, local, todo, at, calm, pre, touched>>
Record(j, label) ==
  Goto(label) /\ Save(j) /\ UNCHANGED <<books, local, todo, at, calm, pre, touched>>

\* A call that fails runs recoverPendingTransaction, which reads the journal
\* from the disk; a recovery that fails ends the call.
Fail ==
  /\ Goto(IF pc \in ForwardPcs /\ active # NoJournal THEN "recover" ELSE "idle")
  /\ journal' = IF pc \in ForwardPcs THEN active ELSE journal
  /\ UNCHANGED <<books, local, active, todo, at, calm, pre, touched>>

\* preimageMatches: the modification time of Books and every tracked file.
PreimageMatches == root /\ stamp /\ file = snap

Exists(p) == file[p] # Absent
SyncEmpty == \A p \in InSync : ~Exists(p)
RootEmpty == ~sync /\ marker = "none" /\ \A p \in Tracked : ~Exists(p)

-----------------------------------------------------------------------------
(***************************************************************************)
(* Publishing the manifest                                                 *)
(***************************************************************************)
Init ==
  /\ root \in BOOLEAN /\ sync \in BOOLEAN /\ (sync => root)
  /\ file \in [Tracked -> Bytes \cup {Absent}]
  /\ \A p \in Tracked : Exists(p) => root
  /\ \A p \in InSync : Exists(p) => sync
  /\ marker = "none" /\ stamp = TRUE
  /\ snap = file /\ pre = file /\ changes = {} /\ touched = {}
  /\ active = NoJournal /\ journal = NoJournal
  /\ pc = "idle" /\ todo = {} /\ at = Manifest /\ calm = FALSE

\* A call with no pending journal.  recoverRegisteredBooksMarker lets it pass
\* only when no marker is there.
BeginCall ==
  /\ pc = "idle" /\ active = NoJournal /\ marker = "none"
  /\ journal' = [present |-> root, isolation |-> FALSE, inPlace |-> FALSE,
                 syncCreated |-> FALSE, writeStarted |-> FALSE, restored |-> FALSE]
  /\ todo' = Tracked /\ stamp' = TRUE /\ changes' = {}
  /\ Goto("snapshot")
  /\ UNCHANGED <<root, sync, file, marker, snap, active, at, calm, pre, touched>>

\* snapshotBooks, one file after the other.
SnapshotFile ==
  /\ pc = "snapshot"
  /\ \E p \in todo :
       /\ snap' = [snap EXCEPT ![p] = file[p]]
       /\ pre' = [pre EXCEPT ![p] = file[p]]
       /\ todo' = todo \ {p} /\ touched' = touched \ {p}
  /\ UNCHANGED <<books, changes, active, journal, pc, at, calm>>

SnapshotDone == pc = "snapshot" /\ todo = {} /\ Record(journal, "check")

\* The check of prepareKnownFile and listAbsoluteDirectory before Books is
\* touched.
CheckLibrary ==
  /\ pc = "check"
  /\ \/ /\ IF journal.present THEN PreimageMatches ELSE ~root
        /\ Record([journal EXCEPT !.isolation = TRUE], "isolate")
     \/ /\ ~(IF journal.present THEN PreimageMatches ELSE ~root)
        /\ Fail

IsolateBooks == pc = "isolate" /\ Step(IF journal.present THEN "begin" ELSE "install")

\* beginBooksInPlace up to its durable flag.
BeginBooksInPlace ==
  /\ pc = "begin"
  /\ \/ /\ marker = "none" /\ (IF journal.present THEN PreimageMatches ELSE ~root)
        /\ Record([journal EXCEPT !.inPlace = TRUE], "mkroot")
     \/ /\ marker # "none" \/ ~(IF journal.present THEN PreimageMatches ELSE ~root)
        /\ Fail

\* makeOwnedDirectory accepts a directory that appeared meanwhile.
MakeRoot ==
  /\ pc = "mkroot"
  /\ root' = TRUE
  /\ Goto("openMarker") /\ Keep
  /\ UNCHANGED <<sync, file, marker, stamp, local, todo, at, calm, pre, touched>>

\* writeOwned: an open that empties the file, then the write.
OpenMarker ==
  /\ pc = "openMarker"
  /\ marker' = "torn" /\ stamp' = FALSE
  /\ Goto("writeMarker") /\ Keep
  /\ UNCHANGED <<root, sync, file, local, todo, at, calm, pre, touched>>

WriteMarker ==
  /\ pc = "writeMarker"
  /\ marker' = "own"
  /\ Goto("mksync") /\ Keep
  /\ UNCHANGED <<root, sync, file, stamp, local, todo, at, calm, pre, touched>>

AfterBegin == IF journal.present THEN "install" ELSE "intent"

RecordSync ==
  /\ pc = "mksync"
  /\ \/ sync /\ Step(AfterBegin)
     \/ ~sync /\ Record([journal EXCEPT !.syncCreated = TRUE], "mksync2")

MakeSync ==
  /\ pc = "mksync2"
  /\ sync' = TRUE
  /\ Goto(AfterBegin) /\ Keep
  /\ UNCHANGED <<root, file, marker, stamp, local, todo, at, calm, pre, touched>>

\* installWorkingBooks begins here when there was no library to isolate.
InstallWorkingBooks == pc = "install" /\ Step(IF journal.inPlace THEN "intent" ELSE "begin")

\* Mutant: the manifest is written first.
WriteIntentLate ==
  /\ pc = "intent"
  /\ \/ marker = "own" /\ Step("openManifest")
     \/ marker # "own" /\ Fail

\* The durable intent, before the first byte of the manifest changes.
WriteIntent ==
  /\ pc = "intent"
  /\ \/ marker = "own" /\ Record([journal EXCEPT !.writeStarted = TRUE], "openManifest")
     \/ marker # "own" /\ Fail

\* writeBooksBytes: open, write, read back.
Put(p, content, label) ==
  /\ file' = [file EXCEPT ![p] = content]
  /\ Goto(label) /\ Keep
  /\ UNCHANGED <<root, sync, marker, stamp, local, todo, at, calm, pre, touched>>

OpenManifest == pc = "openManifest" /\ Put(Manifest, Torn, "writeManifest")
WriteManifest == pc = "writeManifest" /\ Put(Manifest, Ours, "checkManifest")

CheckManifest ==
  /\ pc = "checkManifest"
  /\ \/ file[Manifest] = Ours /\ Step("sync")
     \/ file[Manifest] # Ours /\ Fail

\* The sessions of the call; the call then ends in a recovery.
Synchronize == pc = "sync" /\ Step("recover")

-----------------------------------------------------------------------------
(***************************************************************************)
(* finishRecovery                                                          *)
(***************************************************************************)
\* A later call, or the app after a crash.
BeginRecovery ==
  /\ pc = "idle" /\ active # NoJournal
  /\ journal' = active
  /\ Goto("recover")
  /\ UNCHANGED <<books, local, active, todo, at, calm, pre, touched>>

\* restoreBooks while Books was not used in place yet: an original library
\* must be found unchanged; where there was none only an empty directory is
\* removed.
RestoreBooks ==
  /\ pc = "recover" /\ ~journal.inPlace
  /\ \/ /\ ~journal.isolation \/ (journal.present /\ PreimageMatches)
           \/ (~journal.present /\ ~root)
        /\ Record([journal EXCEPT !.restored = TRUE], "close")
     \/ /\ journal.isolation /\ ~journal.present /\ root /\ ~journal.restored /\ RootEmpty
        /\ root' = FALSE
        /\ Save([journal EXCEPT !.restored = TRUE])
        /\ Goto("close")
        /\ UNCHANGED <<sync, file, marker, stamp, local, todo, at, calm, pre, touched>>
     \/ /\ journal.isolation
        /\ IF journal.present THEN ~PreimageMatches
           ELSE root /\ (journal.restored \/ ~RootEmpty)
        /\ Fail

\* Mutant: the flag that the files are back is not consulted.
MarkerRefusedStrict == marker = "torn" \/ (marker = "none" /\ journal.writeStarted)

\* A marker that is not ours, or that vanished while files were still changed.
MarkerRefused ==
  \/ marker = "torn"
  \/ marker = "none" /\ journal.writeStarted /\ ~journal.restored

\* Mutant: only the file the engine wrote is put back.
RestoreBooksInPlaceManifest ==
  /\ pc = "recover" /\ journal.inPlace
  /\ \/ MarkerRefused /\ Fail
     \/ /\ ~MarkerRefused
        /\ IF journal.writeStarted /\ ~journal.restored
           THEN todo' = {Manifest} /\ touched' = {}
           ELSE todo' = {} /\ UNCHANGED touched
        /\ Goto("restore") /\ Keep
        /\ UNCHANGED <<books, local, at, calm, pre>>

\* restoreBooksInPlace up to its loop.
RestoreBooksInPlace ==
  /\ pc = "recover" /\ journal.inPlace
  /\ \/ MarkerRefused /\ Fail
     \/ /\ ~MarkerRefused
        /\ IF journal.writeStarted /\ ~journal.restored
           THEN todo' = Tracked /\ touched' = {}
           ELSE todo' = {} /\ UNCHANGED touched
        /\ Goto("restore") /\ Keep
        /\ UNCHANGED <<books, local, at, calm, pre>>

\* Mutant: what is there is not saved.
SaveChangesNot(p) == changes

\* Mutant: nothing is read where no file is.
SaveChangesAlways(p) == changes \cup {file[p]}

\* The bytes a file holds are kept before it is restored.
SaveChanges(p) == IF Exists(p) THEN changes \cup {file[p]} ELSE changes

\* One iteration: a file that differs from its copy is saved, then written
\* back or removed.
RestoreFile ==
  /\ pc = "restore"
  /\ \E p \in todo :
       /\ at' = p /\ todo' = todo \ {p} /\ touched' = touched \ {p}
       /\ IF file[p] = snap[p] THEN UNCHANGED <<changes, pc>>
          ELSE /\ changes' = SaveChanges(p)
               /\ Goto(IF snap[p] = Absent THEN "removeFile" ELSE "openFile")
  /\ UNCHANGED <<books, snap, active, journal, calm, pre>>

OpenFile == pc = "openFile" /\ Put(at, Torn, "writeFile")
WriteFile == pc = "writeFile" /\ Put(at, snap[at], "checkFile")
RemoveFile == pc = "removeFile" /\ Put(at, Absent, "checkFile")

CheckFile ==
  /\ pc = "checkFile"
  /\ \/ file[at] = snap[at] /\ Step("restore")
     \/ file[at] # snap[at] /\ Fail

\* "Persist restoration before removing our marker".
FilesRestored ==
  /\ pc = "restore" /\ todo = {}
  /\ Record([journal EXCEPT !.restored = TRUE], "dropMarker")

DropMarker ==
  /\ pc = "dropMarker"
  /\ marker' = "none" /\ stamp' = FALSE
  /\ Goto("dropSync") /\ Keep
  /\ UNCHANGED <<root, sync, file, local, todo, at, calm, pre, touched>>

\* Directories the transaction created are removed if they are empty.
DropSync ==
  /\ pc = "dropSync"
  /\ sync' = (sync /\ ~(journal.syncCreated /\ SyncEmpty))
  /\ Goto("dropRoot") /\ Keep
  /\ UNCHANGED <<root, file, marker, stamp, local, todo, at, calm, pre, touched>>

DropRoot ==
  /\ pc = "dropRoot"
  /\ root' = (root /\ ~(~journal.present /\ RootEmpty))
  /\ Goto("close") /\ Keep
  /\ UNCHANGED <<sync, file, marker, stamp, local, todo, at, calm, pre, touched>>

\* The rest of finishRecovery.
CloseJournal ==
  /\ pc = "close"
  /\ active' = NoJournal /\ journal' = NoJournal
  /\ Goto("idle")
  /\ UNCHANGED <<books, local, todo, at, calm, pre, touched>>

-----------------------------------------------------------------------------
(***************************************************************************)
(* The environment                                                         *)
(***************************************************************************)
IoError == May("io") /\ pc # "idle" /\ Fail

Crash ==
  /\ May("crash") /\ pc # "idle"
  /\ Goto("idle") /\ journal' = NoJournal
  /\ UNCHANGED <<books, local, active, todo, at, calm, pre, touched>>

\* The daemon writes or removes a tracked file.
DaemonWrites ==
  /\ May("daemon")
  /\ \E p \in Tracked : \E b \in Bytes \cup {Absent} :
       /\ root /\ (p \in InSync => sync) /\ b # file[p]
       /\ file' = [file EXCEPT ![p] = b]
       /\ touched' = touched \cup {p}
  /\ stamp' \in {stamp, FALSE}
  /\ UNCHANGED <<root, sync, marker, local, active, journal, pc, todo, at, calm, pre>>

\* The daemon creates the directories.
DaemonMakes ==
  /\ May("daemon") /\ ~sync
  /\ root' = TRUE /\ sync' \in BOOLEAN /\ stamp' = FALSE
  /\ UNCHANGED <<file, marker, local, active, journal, pc, todo, at, calm, pre, touched>>

Settle == ~calm /\ calm' = TRUE /\ UNCHANGED <<books, local, active, journal, pc, todo, at, pre, touched>>

Publish ==
  \/ SnapshotFile \/ SnapshotDone \/ CheckLibrary \/ IsolateBooks \/ BeginBooksInPlace
  \/ MakeRoot \/ OpenMarker \/ WriteMarker \/ RecordSync \/ MakeSync \/ InstallWorkingBooks
  \/ WriteIntent \/ OpenManifest \/ WriteManifest \/ CheckManifest \/ Synchronize

Recover ==
  \/ RestoreBooks \/ RestoreBooksInPlace \/ RestoreFile \/ OpenFile \/ WriteFile \/ RemoveFile
  \/ CheckFile \/ FilesRestored \/ DropMarker \/ DropSync \/ DropRoot \/ CloseJournal

Worker == Publish \/ Recover \/ IoError
Next == BeginCall \/ BeginRecovery \/ Worker \/ Crash \/ DaemonWrites \/ DaemonMakes \/ Settle

\* The worker thread runs and the user keeps reconnecting.
Spec == Init /\ [][Next]_vars /\ WF_vars(Worker) /\ WF_vars(BeginRecovery)

-----------------------------------------------------------------------------
(***************************************************************************)
(* Properties                                                              *)
(***************************************************************************)
\* Every variable holds a value of its type: the library, its copies, both
\* journals and the worker.
TypeOK ==
  /\ root \in BOOLEAN /\ sync \in BOOLEAN /\ stamp \in BOOLEAN /\ calm \in BOOLEAN
  /\ file \in [Tracked -> File] /\ marker \in {"none", "torn", "own"}
  /\ snap \in [Tracked -> Bytes \cup {Absent}] /\ pre \in [Tracked -> Bytes \cup {Absent}]
  /\ changes \subseteq File \ {Absent}
  /\ active \in Journal \cup {NoJournal} /\ journal \in Journal \cup {NoJournal}
  /\ pc \in Pcs /\ todo \subseteq Tracked /\ at \in Tracked /\ touched \subseteq Tracked

\* "Persist synchronization write intent before touching original manifest":
\* while a tracked file holds the engine's manifest or a half-written one, the
\* journal on disk says so and the marker is there, so that the next recovery
\* restores it, whatever crashes and errors happened.
OursIsRecorded ==
  \A p \in Tracked : file[p] \in {Ours, Torn} =>
    active # NoJournal /\ active.writeStarted /\ ~active.restored /\ marker = "own"

\* "Tracked synchronization state restored": when the transaction ends, every
\* tracked file is what it was when it was copied, except one the daemon wrote
\* after the engine had restored it, or before the engine wrote anything.
LibraryRestored ==
  [][ active # NoJournal /\ active' = NoJournal
      => marker = "none" /\ \A p \in Tracked : file[p] = pre[p] \/ p \in touched ]_vars

\* "Preserve daemon-written bytes before restoring any synchronization file":
\* a restoration that replaces what the daemon wrote keeps a copy, unless the
\* daemon wrote it while the engine was at this very file.
DaemonBytesKept ==
  [][ \A p \in Tracked :
        pc \in RecoveryPcs /\ file[p] \in Bytes /\ file'[p] # file[p]
          /\ p \notin touched'
        => file[p] \in changes ]_vars

\* "El estado temporal se recuperara antes del siguiente intento": with healthy
\* services reconnecting ends a pending transaction.  Left out are a marker
\* whose write was interrupted and a library that changed between the copy
\* and the durable booksInPlace flag, which the code keeps for inspection.
BooksRecovers ==
  (/\ calm /\ active # NoJournal /\ marker # "torn"
   /\ active.inPlace \/ ~active.isolation)
    ~> (active = NoJournal)
=============================================================================
