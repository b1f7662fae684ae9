--------------------------- MODULE DirectTransfer ---------------------------
(***************************************************************************)
(* The direct routes of XFATCDirectWrite.inc and XFATCDirectDelete.inc,    *)
(* which the panel's activations and deletions take.  A call stages the    *)
(* downloaded content under a new token, publishes the list of moves in    *)
(* Books/Sync/Books.plist, has the device place the generated link and     *)
(* make one move, and cleans up in line.  Nothing is recovered later: what *)
(* a crash or a failure leaves behind stays, under its own token.          *)
(***************************************************************************)
EXTENDS Naturals

CONSTANTS Bytes,  \* contents of the application's file
          Lists,  \* contents the daemon gives to Books.plist
          Ours,   \* the list published under the current token
          Stale,  \* a list published under an earlier token
          Torn,   \* what an interrupted write of the list leaves
          Absent, \* no file
          NoMove, \* no late move
          Kinds,  \* the calls this instance may make
          Faults  \* what may go wrong in this instance

ASSUME DirectContentAssumption ==
  /\ Lists \cap {Ours, Stale, Torn, Absent} = {}
  /\ Ours \notin {Stale, Torn, Absent} /\ Stale \notin {Torn, Absent} /\ Torn # Absent
  /\ Bytes \cap {Absent, NoMove} = {} /\ Absent # NoMove
ASSUME DirectKindsAssumption == Kinds \subseteq {"write", "delete"}
ASSUME DirectFaultsAssumption ==
  Faults \subseteq {"io",     \* a call to the device fails
                    "denied", \* the device refuses to show the application's path
                    "drop",   \* the device drops a move
                    "slow",   \* the device takes longer than the engine waits
                    "crash",  \* the process dies
                    "write",  \* the application writes or removes its file
                    "daemon"} \* the daemon writes or removes the list

File == Bytes \cup {Absent}

VARIABLES
  target,   \* the application's file
  incoming, \* FileIncoming of the current token: what is sent, or the Trash slot
  staged,   \* the link where StreamingZip put it
  link,     \* the link where it is used
  list,     \* Books/Sync/Books.plist
  move,     \* the FileComplete of the current token the device has not executed
  late,     \* what such a move of an earlier token will leave at the target
  pc,       \* where the worker is
  call,     \* arguments and result (applied, deleted) of the current or last call
  previous, \* previousManifest; Absent stands for manifestAbsent
  touched,  \* manifestTouched
  warned,   \* lastWarning
  calm,     \* from now on nothing fails and nobody else writes
  own,      \* auxiliary: the application wrote its file after the call last saw it or sent its move
  foreign,  \* auxiliary: the daemon wrote the list after the call last read it
  cleaned   \* auxiliary: the call removed its link

device == <<target, incoming, staged, link, move, late>>
memory == <<call, previous, touched, warned>>
aux    == <<own, foreign, cleaned>>
vars   == <<device, list, pc, memory, calm, aux>>

Call == [kind : Kinds, data : File, ok : BOOLEAN]
MovesSent == {"none", "link", "place", "trash"}
WorkPcs == {"prepare", "incoming", "look", "open", "write", "check", "sendLink", "waitLink",
            "sendPlace", "waitPlaced", "probe", "sendTrash", "waitTrash", "unlink"}
CleanupPcs == {"restore", "reopen", "rewrite", "remove", "recheck",
               "cleanLink", "cleanStage", "return"}
Pcs == {"idle"} \cup WorkPcs \cup CleanupPcs

-----------------------------------------------------------------------------
May(fault) == ~calm /\ fault \in Faults
Goto(label) == pc' = label

\* A step that only moves on, and one that decides the call.
Step(label) == Goto(label) /\ UNCHANGED <<device, list, memory, calm, aux>>
Conclude(result) ==
  /\ Goto("restore")
  /\ call' = [call EXCEPT !.ok = result]
  /\ UNCHANGED <<device, list, previous, touched, warned, calm, aux>>

\* A break out of the body: the @finally block still runs.
Fail == Conclude(FALSE)

\* The device serves one session at a time, after the moves of the last one.
Session == move = "none" /\ late = NoMove

\* The AssetManifest lists what Books.plist listed when the session began.
Refused == list # Ours

-----------------------------------------------------------------------------
(***************************************************************************)
(* The body of a call                                                      *)
(***************************************************************************)
Init ==
  /\ target \in File /\ list \in Lists \cup {Absent}
  /\ incoming = Absent /\ staged = FALSE /\ link = FALSE
  /\ move = "none" /\ late = NoMove
  /\ pc = "idle" /\ previous = Absent /\ touched = FALSE /\ warned = FALSE /\ calm = FALSE
  /\ \E k \in Kinds : call = [kind |-> k, data |-> Absent, ok |-> FALSE]
  /\ own = TRUE /\ foreign = FALSE /\ cleaned = FALSE

\* What a move of the token that is now given up will leave at the target.
Outstanding ==
  CASE move = "none" -> late
    [] move = "place" /\ link /\ incoming # Absent -> incoming
    [] move = "trash" -> Absent
    [] OTHER -> NoMove

\* Mutant: the identifiers of the list do not depend on the token.
RenewedTokenless == list

\* Under a new token the list of an earlier call is just another list.
Renewed == IF list = Ours THEN Stale ELSE list

\* A call starts with a new token; what earlier tokens left stays.
BeginCall(kind, data) ==
  /\ pc = "idle"
  /\ kind \in Kinds /\ (IF kind = "write" THEN data \in Bytes ELSE data = Absent)
  /\ call' = [kind |-> kind, data |-> data, ok |-> FALSE]
  /\ late' = Outstanding /\ move' = "none"
  /\ incoming' = Absent /\ staged' = FALSE /\ link' = FALSE
  /\ list' = Renewed
  /\ touched' = FALSE /\ warned' = FALSE /\ cleaned' = FALSE
  /\ Goto("prepare")
  /\ UNCHANGED <<target, previous, calm, own, foreign>>

\* prepareDirectWrite.
PrepareDirectWrite ==
  /\ pc = "prepare"
  /\ staged' = TRUE
  /\ Goto(IF call.kind = "write" THEN "incoming" ELSE "look")
  /\ UNCHANGED <<target, incoming, link, move, late, list, memory, calm, aux>>

WriteKnownIncoming ==
  /\ pc = "incoming"
  /\ incoming' = call.data
  /\ Goto("look")
  /\ UNCHANGED <<target, staged, link, move, late, list, memory, calm, aux>>

\* Mutant: a list the engine left behind is not accepted.
LookStrict ==
  /\ pc = "look"
  /\ \/ /\ list \notin {Stale, Torn}
        /\ previous' = list /\ touched' = TRUE /\ foreign' = FALSE
        /\ Goto("open")
        /\ UNCHANGED <<device, list, call, warned, calm, own, cleaned>>
     \/ list \in {Stale, Torn} /\ Fail

\* The list is copied in memory, whatever it is.
Look ==
  /\ pc = "look"
  /\ previous' = list /\ touched' = TRUE /\ foreign' = FALSE
  /\ Goto("open")
  /\ UNCHANGED <<device, list, call, warned, calm, own, cleaned>>

\* writeBooksBytes: an open that empties the file, the write, the read-back.
Put(content, label) ==
  /\ list' = content
  /\ Goto(label)
  /\ UNCHANGED <<device, memory, calm, aux>>
OpenList == pc = "open" /\ Put(Torn, "write")
WriteList == pc = "write" /\ Put(Ours, "check")
CheckList ==
  /\ pc = "check"
  /\ IF list = Ours THEN Step("sendLink") ELSE Fail

\* A FileComplete is sent in a session of its own, if the device lists it.
Send(m, label) ==
  /\ Session
  /\ \/ /\ move' = m
        /\ Goto(label)
        /\ own' = (own /\ m = "link")
        /\ UNCHANGED <<target, incoming, staged, link, late, list, memory, calm, foreign, cleaned>>
     \/ Refused /\ Fail

\* runATC.
SendLink == pc = "sendLink" /\ Send("link", "waitLink")
WaitLink ==
  /\ pc = "waitLink" /\ link
  /\ Step(IF call.kind = "write" THEN "sendPlace" ELSE "probe")

\* runKnownFilePairs looks at the link again just before it sends.
SendPlace ==
  /\ pc = "sendPlace"
  /\ \/ link /\ Send("place", "waitPlaced")
     \/ ~link /\ Fail

\* Mutant: the accepted FileComplete counts as the transfer.
WaitPlacedAssumed == pc = "waitPlaced" /\ Conclude(TRUE)

\* "FileComplete plus confirmed removal of its source".
WaitPlaced == pc = "waitPlaced" /\ incoming = Absent /\ Conclude(TRUE)

\* A deletion is done when there is nothing; a denied query goes on.
ProbeTarget ==
  /\ pc = "probe"
  /\ \/ /\ target = Absent
        /\ own' = FALSE
        /\ Goto("restore")
        /\ call' = [call EXCEPT !.ok = TRUE]
        /\ UNCHANGED <<device, list, previous, touched, warned, calm, foreign, cleaned>>
     \/ (target # Absent \/ May("denied")) /\ Step("sendTrash")

SendTrash ==
  /\ pc = "sendTrash"
  /\ \/ incoming = Absent /\ Send("trash", "waitTrash")
     \/ incoming # Absent /\ Fail
WaitTrash == pc = "waitTrash" /\ incoming # Absent /\ Step("unlink")
Unlink ==
  /\ pc = "unlink"
  /\ incoming' = Absent
  /\ Goto("restore")
  /\ call' = [call EXCEPT !.ok = TRUE]
  /\ UNCHANGED <<target, staged, link, move, late, list, previous, touched, warned, calm, aux>>

-----------------------------------------------------------------------------
(***************************************************************************)
(* The @finally block                                                      *)
(***************************************************************************)
\* A part of the cleanup that does not succeed leaves a warning.
Warn ==
  /\ warned' = TRUE
  /\ Goto("cleanLink")
  /\ UNCHANGED <<device, list, call, previous, touched, calm, aux>>

\* Mutant: the list is only put back after a success.
RestoreListIfApplied ==
  /\ pc = "restore"
  /\ \/ /\ touched /\ call.ok /\ list = Ours
        /\ foreign' = FALSE
        /\ Goto(IF previous = Absent THEN "remove" ELSE "reopen")
        /\ UNCHANGED <<device, list, memory, calm, own, cleaned>>
     \/ touched /\ list \notin {Ours, Absent} /\ Warn
     \/ (~touched \/ ~call.ok \/ list = Absent) /\ Step("cleanLink")

\* Mutant: the list is read and put back without comparing.
RestoreListAlways ==
  /\ pc = "restore"
  /\ \/ /\ touched
        /\ foreign' = FALSE
        /\ Goto(IF previous = Absent THEN "remove" ELSE "reopen")
        /\ UNCHANGED <<device, list, memory, calm, own, cleaned>>
     \/ ~touched /\ Step("cleanLink")

\* The published list is put back; any other one is left alone.
RestoreList ==
  /\ pc = "restore"
  /\ \/ /\ touched /\ list = Ours
        /\ foreign' = FALSE
        /\ Goto(IF previous = Absent THEN "remove" ELSE "reopen")
        /\ UNCHANGED <<device, list, memory, calm, own, cleaned>>
     \/ touched /\ list \notin {Ours, Absent} /\ Warn
     \/ (~touched \/ list = Absent) /\ Step("cleanLink")

ReopenList == pc = "reopen" /\ Put(Torn, "rewrite")
RewriteList == pc = "rewrite" /\ Put(previous, "recheck")
RemoveList == pc = "remove" /\ Put(Absent, "recheck")
RecheckList ==
  /\ pc = "recheck"
  /\ IF list = previous THEN Step("cleanLink") ELSE Warn

\* Mutant: only the staging directory is removed.
CleanLinkNot == pc = "cleanLink" /\ Step("cleanStage")

\* cleanGeneratedStage removes the link where it is used, then the staged one.
CleanLink ==
  /\ pc = "cleanLink"
  /\ link' = FALSE
  /\ Goto("cleanStage")
  /\ UNCHANGED <<target, incoming, staged, move, late, list, memory, calm, aux>>
CleanStage ==
  /\ pc = "cleanStage"
  /\ staged' = FALSE /\ cleaned' = TRUE
  /\ Goto("return")
  /\ UNCHANGED <<target, incoming, link, move, late, list, memory, calm, own, foreign>>

Return == pc = "return" /\ Step("idle")

-----------------------------------------------------------------------------
(***************************************************************************)
(* The environment                                                         *)
(***************************************************************************)
\* A call to the device fails: in the body it ends the body, in the cleanup it
\* ends that part of the cleanup.
IoError ==
  /\ May("io")
  /\ \/ pc \in WorkPcs /\ Fail
     \/ pc \in {"reopen", "rewrite", "remove", "recheck"} /\ Warn
     \/ pc = "restore" /\ touched /\ Warn
     \/ pc \in {"cleanLink", "cleanStage"} /\ Step("return")

\* Mutant: the move is sent again.
WaitTimeoutResending ==
  /\ move = "none" \/ May("slow")
  /\ \/ pc = "waitLink" /\ ~link /\ Step("sendLink")
     \/ pc = "waitPlaced" /\ incoming # Absent /\ Step("sendPlace")
     \/ pc = "waitTrash" /\ incoming = Absent /\ Step("sendTrash")

\* runATC and waitKnownFile give up after 15 s.
WaitTimeout ==
  /\ \/ pc = "waitLink" /\ ~link
     \/ pc = "waitPlaced" /\ incoming # Absent
     \/ pc = "waitTrash" /\ incoming = Absent
  /\ move = "none" \/ May("slow")
  /\ Fail

\* The process dies.  The journal of a direct call, direct-<token>.plist, is
\* never read back.
Crash ==
  /\ May("crash") /\ pc # "idle"
  /\ Goto("idle")
  /\ call' = [call EXCEPT !.ok = FALSE]
  /\ UNCHANGED <<device, list, previous, touched, warned, calm, aux>>

\* The device executes the move.  Placing goes through the link; the Trash
\* slot is filled from the application's own path.
ExecuteMove ==
  /\ move # "none" /\ move' = "none"
  /\ \/ /\ move = "link"
        /\ link' = (link \/ staged) /\ staged' = FALSE
        /\ UNCHANGED <<target, incoming, own>>
     \/ /\ move = "place" /\ link /\ incoming # Absent
        /\ target' = incoming /\ incoming' = Absent /\ own' = FALSE
        /\ UNCHANGED <<staged, link>>
     \/ /\ move = "trash" /\ target # Absent
        /\ incoming' = target /\ target' = Absent /\ own' = FALSE
        /\ UNCHANGED <<staged, link>>
     \/ /\ \/ move = "place" /\ (~link \/ incoming = Absent)
           \/ move = "trash" /\ target = Absent
        /\ UNCHANGED <<target, incoming, staged, link, own>>
  /\ UNCHANGED <<late, list, pc, memory, calm, foreign, cleaned>>

ExecuteLate ==
  /\ late # NoMove /\ late' = NoMove
  /\ target' = late /\ own' = FALSE
  /\ UNCHANGED <<incoming, staged, link, move, list, pc, memory, calm, foreign, cleaned>>

DropMove ==
  /\ May("drop")
  /\ move # "none" \/ late # NoMove
  /\ move' = "none" /\ late' = NoMove
  /\ UNCHANGED <<target, incoming, staged, link, list, pc, memory, calm, aux>>

AppWrites ==
  /\ May("write")
  /\ \E b \in File \ {target} : target' = b
  /\ own' = TRUE
  /\ UNCHANGED <<incoming, staged, link, move, late, list, pc, memory, calm, foreign, cleaned>>

DaemonWrites ==
  /\ May("daemon")
  /\ \E l \in (Lists \cup {Absent}) \ {list} : list' = l
  /\ foreign' = TRUE
  /\ UNCHANGED <<device, pc, memory, calm, own, cleaned>>

Settle == ~calm /\ calm' = TRUE /\ UNCHANGED <<device, list, pc, memory, aux>>

Body ==
  \/ PrepareDirectWrite \/ WriteKnownIncoming \/ Look \/ OpenList \/ WriteList \/ CheckList
  \/ SendLink \/ WaitLink \/ SendPlace \/ WaitPlaced
  \/ ProbeTarget \/ SendTrash \/ WaitTrash \/ Unlink
Cleanup ==
  \/ RestoreList \/ ReopenList \/ RewriteList \/ RemoveList \/ RecheckList
  \/ CleanLink \/ CleanStage \/ Return
Worker == Body \/ Cleanup \/ IoError \/ WaitTimeout
Device == ExecuteMove \/ ExecuteLate \/ DropMove

Next ==
  \/ \E k \in Kinds : \E d \in File : BeginCall(k, d)
  \/ Worker \/ Device \/ Crash \/ AppWrites \/ DaemonWrites \/ Settle

\* The worker thread runs and the device gets to every move it was sent.
Spec == Init /\ [][Next]_vars /\ WF_vars(Worker) /\ WF_vars(Device)

-----------------------------------------------------------------------------
(***************************************************************************)
(* Properties                                                              *)
(***************************************************************************)
\* Every variable holds a value of its type; what a call remembers as the
\* earlier list is never the list it is about to publish.
TypeOK ==
  /\ target \in File /\ incoming \in File /\ staged \in BOOLEAN /\ link \in BOOLEAN
  /\ list \in Lists \cup {Ours, Stale, Torn, Absent}
  /\ previous \in Lists \cup {Stale, Torn, Absent}
  /\ move \in MovesSent /\ late \in File \cup {NoMove}
  /\ pc \in Pcs /\ call \in Call
  /\ touched \in BOOLEAN /\ warned \in BOOLEAN /\ calm \in BOOLEAN
  /\ own \in BOOLEAN /\ foreign \in BOOLEAN /\ cleaned \in BOOLEAN

\* "FileComplete plus confirmed removal of its source proves transfer
\* completion": a call that reports success left its payload, or nothing, at
\* the application's path, unless the application wrote there since.  No late
\* move of an earlier call undoes it.
SuccessIsApplied ==
  pc = "idle" /\ call.ok => target = call.data \/ own

\* "Release this operation's transport metadata inline": a call that returns
\* without a warning left the list as it found it, whatever failed, unless the
\* daemon changed it meanwhile.
ListRestored ==
  pc = "return" /\ touched /\ ~warned => list = previous \/ foreign

\* "El manifiesto de sincronizacion cambio; se conservo su estado actual": the
\* cleanup replaces what the daemon wrote only if it was written after the
\* cleanup looked.
DaemonListKept ==
  [][ /\ pc \in CleanupPcs
      /\ list \in Lists \cup {Absent} /\ list' # list /\ ~foreign'
      => list = previous ]_vars

\* "Never touch the target again": once the link of a failed write is removed,
\* a move of it that the device still has does nothing.
FailedWriteIsOver ==
  [][ cleaned /\ call.kind = "write" /\ move # "none" /\ move' = "none"
      => target' = target ]_vars

\* Every call returns, with a device that drops or delays its moves.
CallReturns == (pc # "idle") ~> (pc = "idle")

\* "Never create a mandatory recovery task for a future Home tap": whatever
\* crashes, failures and late moves left behind, a call that starts when the
\* services are healthy succeeds.
NextCallSucceeds == (calm /\ pc = "prepare") ~> (pc = "idle" /\ call.ok)
=============================================================================
