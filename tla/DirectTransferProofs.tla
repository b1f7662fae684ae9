------------------------ MODULE DirectTransferProofs ------------------------
(***************************************************************************)
(* A direct call that reports success is right.  The argument follows the  *)
(* one move of a call: until it is executed the payload is in the slot     *)
(* (Staged), once it is the target has it (Landed), and at the point where *)
(* the engine believes in it no other move is under way (Alone).           *)
(***************************************************************************)
EXTENDS DirectTransfer, TLAPS

\* Labels after the first session, which drained every earlier token's move.
AlonePcs == {"waitLink", "sendPlace", "waitPlaced", "probe", "sendTrash", "waitTrash", "unlink"}
\* Labels between the staging of a payload and its move.
StagedPcs == {"open", "write", "check", "sendLink", "waitLink", "look"}

\* The application's file is what the call wants, unless it was written since.
Done == target = call.data \/ own

\* No move of an earlier call can arrive any more, and of this one only the
\* move the label speaks of.
Alone ==
  /\ pc \in AlonePcs => late = NoMove
  /\ pc \in {"waitLink", "sendPlace", "probe", "sendTrash"} => move \in {"none", "link"}
  /\ pc = "waitPlaced" => move \in {"none", "place"}
  /\ pc = "waitTrash" => move \in {"none", "trash"}
  /\ pc = "unlink" => move = "none"
  /\ pc \in WorkPcs \ AlonePcs => move = "none"

\* What the slot holds before the move.
Staged ==
  /\ call.kind = "write" /\ pc \in StagedPcs \cup {"sendPlace"} => incoming = call.data
  /\ pc \in {"incoming", "sendPlace", "waitPlaced"} => call.kind = "write"
  /\ pc \in {"probe", "sendTrash", "waitTrash", "unlink"} => call.data = Absent
  /\ call.kind = "write" => pc = "idle" \/ call.data \in Bytes
  /\ call.kind # "write" => call.data = Absent

\* What holds once the move was executed.
Landed ==
  /\ pc = "waitPlaced" => /\ incoming = Absent => Done
                          /\ move = "place" => incoming = call.data
  /\ pc = "waitTrash" => /\ incoming # Absent => Done
                         /\ move = "trash" => incoming = Absent
  /\ pc = "unlink" => Done
  /\ call.ok => /\ pc \in CleanupPcs \cup {"idle"}
                /\ move \in {"none", "link"} /\ late = NoMove
                /\ Done

\* The types the argument needs.
Types == pc \in Pcs /\ call \in Call

SuccessInv == Types /\ Alone /\ Staged /\ Landed

-----------------------------------------------------------------------------
LEMMA SuccessInit == Init => SuccessInv
BY DEF Init, SuccessInv, Types, Call, File, Pcs, Alone, Staged, Landed, Done, AlonePcs, StagedPcs,
       WorkPcs, CleanupPcs

\* The body of a call, up to the session of its move.
LEMMA StagingSteps ==
  ASSUME SuccessInv,
         PrepareDirectWrite \/ WriteKnownIncoming \/ Look \/ OpenList \/ WriteList \/ CheckList
  PROVE  SuccessInv'
<1> USE DEF SuccessInv, Types, Call, Pcs, Alone, Staged, Landed, Done, AlonePcs, StagedPcs,
            WorkPcs, CleanupPcs, Goto, Step, Conclude, Fail, Put, device, memory, aux
<1>1. CASE PrepareDirectWrite
  BY <1>1 DEF PrepareDirectWrite
<1>2. CASE WriteKnownIncoming
  BY <1>2 DEF WriteKnownIncoming
<1>3. CASE Look
  BY <1>3 DEF Look
<1>4. CASE OpenList \/ WriteList \/ CheckList
  BY <1>4 DEF OpenList, WriteList, CheckList
<1> QED BY <1>1, <1>2, <1>3, <1>4

\* The sessions: each one starts after every earlier move.
LEMMA SendingSteps ==
  ASSUME SuccessInv, SendLink \/ WaitLink \/ SendPlace \/ SendTrash
  PROVE  SuccessInv'
<1> USE DirectContentAssumption
    DEF SuccessInv, Types, Call, Pcs, Alone, Staged, Landed, Done, AlonePcs, StagedPcs,
        WorkPcs, CleanupPcs, Goto, Step, Conclude, Fail, Send, Session, device, memory, aux
<1>1. CASE SendLink
  BY <1>1 DEF SendLink
<1>2. CASE WaitLink
  BY <1>2 DEF WaitLink
<1>3. CASE SendPlace
  <2>1. CASE Fail
    BY <1>3, <2>1 DEF SendPlace
  <2>2. CASE ~Fail
    BY <1>3, <2>2 DEF SendPlace
  <2> QED BY <2>1, <2>2
<1>4. CASE SendTrash
  BY <1>4 DEF SendTrash
<1> QED BY <1>1, <1>2, <1>3, <1>4

\* The steps that decide a call.
LEMMA DecidingSteps ==
  ASSUME SuccessInv,
         WaitPlaced \/ ProbeTarget \/ WaitTrash \/ Unlink \/ IoError \/ WaitTimeout \/ Crash
  PROVE  SuccessInv'
<1> USE DirectContentAssumption
    DEF SuccessInv, Types, Call, Pcs, Alone, Staged, Landed, Done, AlonePcs, StagedPcs,
        WorkPcs, CleanupPcs, Goto, Step, Conclude, Fail, Warn, device, memory, aux
<1>1. CASE WaitPlaced
  BY <1>1 DEF WaitPlaced
<1>2. CASE ProbeTarget
  BY <1>2 DEF ProbeTarget
<1>3. CASE WaitTrash \/ Unlink
  BY <1>3 DEF WaitTrash, Unlink
<1>4. CASE IoError
  <2>1. CASE pc \in WorkPcs /\ Fail
    BY <2>1
  <2>2. CASE pc \in CleanupPcs /\ (Warn \/ Step("return"))
    BY <2>2
  <2> QED BY <1>4, <2>1, <2>2 DEF IoError
<1>5. CASE WaitTimeout
  BY <1>5 DEF WaitTimeout
<1>6. CASE Crash
  BY <1>6 DEF Crash
<1> QED BY <1>1, <1>2, <1>3, <1>4, <1>5, <1>6

\* The cleanup touches neither the target nor what decides the call.
LEMMA CleanupSteps ==
  ASSUME SuccessInv, Cleanup
  PROVE  SuccessInv'
<1> USE DEF SuccessInv, Types, Call, Pcs, Alone, Staged, Landed, Done, AlonePcs, StagedPcs,
            WorkPcs, CleanupPcs, Goto, Step, Warn, Put, device, memory, aux
<1>1. CASE RestoreList \/ RecheckList
  BY <1>1 DEF RestoreList, RecheckList
<1>2. CASE ReopenList \/ RewriteList \/ RemoveList
  BY <1>2 DEF ReopenList, RewriteList, RemoveList
<1>3. CASE CleanLink \/ CleanStage \/ Return
  BY <1>3 DEF CleanLink, CleanStage, Return
<1> QED BY <1>1, <1>2, <1>3 DEF Cleanup

\* A new call gives up the moves of the last one.
LEMMA BeginStep ==
  ASSUME SuccessInv, NEW k \in Kinds, NEW d \in File, BeginCall(k, d)
  PROVE  SuccessInv'
BY DEF SuccessInv, Types, Call, Pcs, Alone, Staged, Landed, Done, AlonePcs, StagedPcs,
       WorkPcs, CleanupPcs, Goto, BeginCall, device, memory, aux

\* The device, the application and the daemon.
LEMMA EnvironmentSteps ==
  ASSUME SuccessInv, Device \/ AppWrites \/ DaemonWrites \/ Settle
  PROVE  SuccessInv'
<1> USE DirectContentAssumption
    DEF SuccessInv, Types, Call, Pcs, Alone, Staged, Landed, Done, AlonePcs, StagedPcs,
        WorkPcs, CleanupPcs, device, memory, aux
<1>1. CASE ExecuteMove
  BY <1>1 DEF ExecuteMove
<1>2. CASE ExecuteLate
  BY <1>2 DEF ExecuteLate
<1>3. CASE DropMove
  BY <1>3 DEF DropMove
<1>4. CASE AppWrites \/ DaemonWrites \/ Settle
  BY <1>4 DEF AppWrites, DaemonWrites, Settle
<1> QED BY <1>1, <1>2, <1>3, <1>4 DEF Device

LEMMA SuccessNext == SuccessInv /\ [Next]_vars => SuccessInv'
<1> SUFFICES ASSUME SuccessInv, [Next]_vars PROVE SuccessInv'
  OBVIOUS
<1>1. CASE UNCHANGED vars
  BY <1>1 DEF vars, device, memory, aux, SuccessInv, Types, Alone, Staged, Landed, Done
<1>2. CASE Next
  BY <1>2, StagingSteps, SendingSteps, DecidingSteps, CleanupSteps, BeginStep, EnvironmentSteps
     DEF Next, Worker, Body
<1> QED BY <1>1, <1>2

\* A direct write or deletion that reports success (writeDownloadedAbsoluteFile,
\* deleteConfiguredAbsoluteFile returning YES) has its effect at the target,
\* whatever earlier calls, crashes and late moves did.
THEOREM SuccessIsReal == Spec => []SuccessIsApplied
<1>1. SuccessInv => SuccessIsApplied
  BY DEF SuccessInv, Landed, Done, SuccessIsApplied
<1> QED BY <1>1, SuccessInit, SuccessNext, PTL DEF Spec
-----------------------------------------------------------------------------
(***************************************************************************)
(* The list of moves and the link.  The cleanup acts on what it read one   *)
(* call earlier, so the invariant says what the list is between its steps, *)
(* unless the daemon wrote it, and what a move that is still under way     *)
(* finds.                                                                  *)
(***************************************************************************)
\* Before the list is published it is not the list of this token.
ListBefore == pc \in {"prepare", "incoming", "look"} => list # Ours

\* From the copy on, a list that is missing was missing; at the cleanup the list
\* is the step the cleanup has come to, or the daemon's.
ListDuring ==
  /\ touched /\ pc \in WorkPcs \cup {"restore"} /\ list = Absent => previous = Absent \/ foreign
  /\ pc \in {"reopen", "remove"} => list = Ours \/ foreign
  /\ pc = "rewrite" => list = Torn \/ foreign
  /\ touched /\ ~warned /\ pc \in {"cleanLink", "cleanStage", "return"} => list = previous \/ foreign

\* A placement that is still under way after the link was removed finds none.
LinkGone ==
  /\ cleaned => pc \in {"return", "idle"}
  /\ (cleaned \/ pc = "cleanStage") /\ move = "place" => ~link
  /\ call.kind = "write" => /\ move # "trash"
                            /\ pc \notin {"probe", "sendTrash", "waitTrash", "unlink"}

CleanupInv == TypeOK /\ ListBefore /\ ListDuring /\ LinkGone

LEMMA FileTyped == Absent \in File /\ Bytes \subseteq File
BY DEF File

LEMMA CleanupInit == Init => CleanupInv
<1> SUFFICES ASSUME Init PROVE CleanupInv
  OBVIOUS
<1>1. TypeOK
  <2>1. call \in Call
    BY FileTyped DEF Init, Call
  <2> QED BY <2>1, FileTyped DEF Init, TypeOK, MovesSent, Pcs
<1>2. ListBefore /\ ListDuring /\ LinkGone
  BY DEF Init, ListBefore, ListDuring, LinkGone, WorkPcs
<1> QED BY <1>1, <1>2 DEF CleanupInv

\* A result ends the body and changes nothing else.
LEMMA ConcludeStep ==
  ASSUME CleanupInv, pc \in WorkPcs, NEW r \in BOOLEAN, Conclude(r)
  PROVE  CleanupInv'
<1>1. /\ pc' = "restore" /\ call' = [call EXCEPT !.ok = r] /\ call \in Call
      /\ UNCHANGED <<device, list, previous, touched, warned, calm, aux>>
  BY DEF Conclude, Goto, CleanupInv, TypeOK
<1>2. call' \in Call /\ call'.kind = call.kind
  BY <1>1 DEF Call
<1>3. TypeOK'
  BY <1>1, <1>2 DEF CleanupInv, TypeOK, Pcs, CleanupPcs, device, aux
<1>4. ListBefore' /\ ListDuring' /\ LinkGone'
  BY <1>1, <1>2 DEF CleanupInv, ListBefore, ListDuring, LinkGone, WorkPcs, device, aux
<1> QED BY <1>3, <1>4 DEF CleanupInv

LEMMA FailStep ==
  ASSUME CleanupInv, pc \in WorkPcs, Fail
  PROVE  CleanupInv'
BY ConcludeStep DEF Fail

\* A warning, which skips to the removal of the link.
LEMMA WarnStep ==
  ASSUME CleanupInv, pc \in CleanupPcs \ {"return"}, Warn
  PROVE  CleanupInv'
<1>1. TypeOK'
  BY DEF CleanupInv, TypeOK, Warn, Goto, device, aux, Pcs, CleanupPcs
<1>2. ListBefore' /\ ListDuring' /\ LinkGone'
  BY DEF CleanupInv, ListBefore, ListDuring, LinkGone, Warn, Goto, device, aux, WorkPcs,
         CleanupPcs
<1> QED BY <1>1, <1>2 DEF CleanupInv

\* The body of a call.
LEMMA BodySteps ==
  ASSUME CleanupInv, Body
  PROVE  CleanupInv'
<1> USE DEF Goto, device, memory, aux
<1>1. CASE PrepareDirectWrite
  <2>1. TypeOK'
    BY <1>1 DEF PrepareDirectWrite, CleanupInv, TypeOK, Pcs, WorkPcs
  <2>2. ListBefore' /\ ListDuring' /\ LinkGone'
    BY <1>1 DEF PrepareDirectWrite, CleanupInv, ListBefore, ListDuring, LinkGone, WorkPcs
  <2> QED BY <2>1, <2>2 DEF CleanupInv
<1>2. CASE WriteKnownIncoming
  <2>1. TypeOK'
    BY <1>2 DEF WriteKnownIncoming, CleanupInv, TypeOK, Pcs, WorkPcs, Call
  <2>2. ListBefore' /\ ListDuring' /\ LinkGone'
    BY <1>2 DEF WriteKnownIncoming, CleanupInv, ListBefore, ListDuring, LinkGone, WorkPcs
  <2> QED BY <2>1, <2>2 DEF CleanupInv
<1>3. CASE Look
  <2>1. TypeOK'
    BY <1>3 DEF Look, CleanupInv, TypeOK, ListBefore, Pcs, WorkPcs
  <2>2. ListBefore' /\ ListDuring' /\ LinkGone'
    BY <1>3 DEF Look, CleanupInv, ListBefore, ListDuring, LinkGone
  <2> QED BY <2>1, <2>2 DEF CleanupInv
<1>4. CASE OpenList
  <2>1. TypeOK'
    BY <1>4 DEF OpenList, CleanupInv, TypeOK, Pcs, WorkPcs, Put
  <2>2. ListBefore' /\ ListDuring' /\ LinkGone'
    BY <1>4, DirectContentAssumption
       DEF OpenList, CleanupInv, ListBefore, ListDuring, LinkGone, Put
  <2> QED BY <2>1, <2>2 DEF CleanupInv
<1>5. CASE WriteList
  <2>1. TypeOK'
    BY <1>5 DEF WriteList, CleanupInv, TypeOK, Pcs, WorkPcs, Put
  <2>2. ListBefore' /\ ListDuring' /\ LinkGone'
    BY <1>5, DirectContentAssumption
       DEF WriteList, CleanupInv, ListBefore, ListDuring, LinkGone, Put
  <2> QED BY <2>1, <2>2 DEF CleanupInv
<1>6. CASE CheckList
  <2>1. TypeOK'
    BY <1>6, FailStep DEF CheckList, CleanupInv, TypeOK, Pcs, WorkPcs, Step
  <2>2. ListBefore' /\ ListDuring' /\ LinkGone'
    BY <1>6, FailStep
       DEF CheckList, CleanupInv, ListBefore, ListDuring, LinkGone, WorkPcs, Step
  <2> QED BY <2>1, <2>2 DEF CleanupInv
<1>7. CASE SendLink
  <2>1. TypeOK'
    BY <1>7, FailStep DEF SendLink, CleanupInv, TypeOK, Pcs, WorkPcs, Send, MovesSent
  <2>2. ListBefore' /\ ListDuring' /\ LinkGone'
    BY <1>7, FailStep
       DEF SendLink, CleanupInv, ListBefore, ListDuring, LinkGone, WorkPcs, Send
  <2> QED BY <2>1, <2>2 DEF CleanupInv
<1>8. CASE WaitLink
  <2>1. TypeOK'
    BY <1>8 DEF WaitLink, CleanupInv, TypeOK, Pcs, WorkPcs, Step
  <2>2. ListBefore' /\ ListDuring' /\ LinkGone'
    BY <1>8 DEF WaitLink, CleanupInv, ListBefore, ListDuring, LinkGone, WorkPcs, Step
  <2> QED BY <2>1, <2>2 DEF CleanupInv
<1>9. CASE SendPlace
  <2>1. TypeOK'
    <3>1. CASE Fail
      BY <1>9, <3>1, FailStep DEF SendPlace, CleanupInv, WorkPcs
    <3>2. CASE ~Fail
      <4>1. move' \in MovesSent /\ pc' \in Pcs /\ own' \in BOOLEAN
        BY <1>9, <3>2 DEF SendPlace, Send, MovesSent, Pcs, WorkPcs, CleanupInv, TypeOK
      <4> QED BY <1>9, <3>2, <4>1 DEF SendPlace, Send, CleanupInv, TypeOK
    <3> QED BY <3>1, <3>2
  <2>2. ListBefore' /\ ListDuring' /\ LinkGone'
    BY <1>9, FailStep
       DEF SendPlace, CleanupInv, ListBefore, ListDuring, LinkGone, WorkPcs, Send
  <2> QED BY <2>1, <2>2 DEF CleanupInv
<1>10. CASE WaitPlaced
  <2>1. TypeOK'
    BY <1>10, ConcludeStep DEF WaitPlaced, CleanupInv, WorkPcs
  <2>2. ListBefore' /\ ListDuring' /\ LinkGone'
    BY <1>10, ConcludeStep DEF WaitPlaced, CleanupInv, WorkPcs
  <2> QED BY <2>1, <2>2 DEF CleanupInv
<1>11. CASE ProbeTarget
  <2>1. /\ pc = "probe" /\ pc' \in {"restore", "sendTrash"} /\ pc' \in Pcs
        /\ call' \in {call, [call EXCEPT !.ok = TRUE]}
        /\ UNCHANGED <<device, list, previous, touched, warned, calm, foreign, cleaned>>
    BY <1>11 DEF ProbeTarget, Pcs, WorkPcs, CleanupPcs, Step
  <2>2. call \in Call /\ call' \in Call /\ call'.kind = call.kind
    BY <2>1 DEF Call, CleanupInv, TypeOK
  <2>3. TypeOK'
    <3>1. own' \in BOOLEAN
      BY <1>11 DEF ProbeTarget, Step, CleanupInv, TypeOK
    <3> QED BY <2>1, <2>2, <3>1 DEF CleanupInv, TypeOK
  <2>4. ListBefore' /\ ListDuring' /\ LinkGone'
    BY <2>1, <2>2 DEF CleanupInv, ListBefore, ListDuring, LinkGone, WorkPcs
  <2> QED BY <2>3, <2>4 DEF CleanupInv
<1>12. CASE SendTrash
  <2>1. TypeOK'
    <3>1. CASE Fail
      BY <1>12, <3>1, FailStep DEF SendTrash, CleanupInv, WorkPcs
    <3>2. CASE ~Fail
      <4>1. move' \in MovesSent /\ pc' \in Pcs /\ own' \in BOOLEAN
        BY <1>12, <3>2 DEF SendTrash, Send, MovesSent, Pcs, WorkPcs, CleanupInv, TypeOK
      <4> QED BY <1>12, <3>2, <4>1 DEF SendTrash, Send, CleanupInv, TypeOK
    <3> QED BY <3>1, <3>2
  <2>2. ListBefore' /\ ListDuring' /\ LinkGone'
    BY <1>12, FailStep
       DEF SendTrash, CleanupInv, ListBefore, ListDuring, LinkGone, WorkPcs, Send
  <2> QED BY <2>1, <2>2 DEF CleanupInv
<1>13. CASE WaitTrash
  <2>1. TypeOK'
    BY <1>13 DEF WaitTrash, CleanupInv, TypeOK, Pcs, WorkPcs, Step
  <2>2. ListBefore' /\ ListDuring' /\ LinkGone'
    BY <1>13 DEF WaitTrash, CleanupInv, ListBefore, ListDuring, LinkGone, WorkPcs, Step
  <2> QED BY <2>1, <2>2 DEF CleanupInv
<1>14. CASE Unlink
  <2>1. TypeOK'
    <3>1. call' \in Call
      BY <1>14 DEF Unlink, CleanupInv, TypeOK, Call
    <3> QED BY <1>14, <3>1, FileTyped DEF Unlink, CleanupInv, TypeOK, Pcs, CleanupPcs
  <2>2. ListBefore' /\ ListDuring' /\ LinkGone'
    BY <1>14 DEF Unlink, CleanupInv, ListBefore, ListDuring, LinkGone, WorkPcs
  <2> QED BY <2>1, <2>2 DEF CleanupInv
<1> QED BY <1>1, <1>2, <1>3, <1>4, <1>5, <1>6, <1>7, <1>8, <1>9, <1>10, <1>11,
        <1>12, <1>13, <1>14 DEF Body

\* The cleanup.
LEMMA CleanupRuns ==
  ASSUME CleanupInv, Cleanup
  PROVE  CleanupInv'
<1> USE DEF Goto, device, memory, aux
<1>1. CASE RestoreList
  <2>1. TypeOK'
    <3>1. CASE Warn
      BY <1>1, <3>1, WarnStep DEF RestoreList, CleanupInv, CleanupPcs
    <3>2. CASE ~Warn
      <4>1. pc' \in Pcs /\ foreign' \in BOOLEAN
        BY <1>1, <3>2 DEF RestoreList, Step, Pcs, CleanupPcs, CleanupInv, TypeOK
      <4> QED BY <1>1, <3>2, <4>1 DEF RestoreList, Step, CleanupInv, TypeOK
    <3> QED BY <3>1, <3>2
  <2>2. ListBefore' /\ ListDuring' /\ LinkGone'
    BY <1>1, WarnStep
       DEF RestoreList, CleanupInv, ListBefore, ListDuring, LinkGone, WorkPcs, CleanupPcs, Step
  <2> QED BY <2>1, <2>2 DEF CleanupInv
<1>2. CASE ReopenList
  <2>1. TypeOK'
    BY <1>2 DEF ReopenList, CleanupInv, TypeOK, Pcs, CleanupPcs, Put
  <2>2. ListBefore' /\ ListDuring' /\ LinkGone'
    BY <1>2, DirectContentAssumption
       DEF ReopenList, CleanupInv, ListBefore, ListDuring, LinkGone, Put
  <2> QED BY <2>1, <2>2 DEF CleanupInv
<1>3. CASE RewriteList
  <2>1. TypeOK'
    BY <1>3 DEF RewriteList, CleanupInv, TypeOK, Pcs, CleanupPcs, Put
  <2>2. ListBefore' /\ ListDuring' /\ LinkGone'
    BY <1>3 DEF RewriteList, CleanupInv, ListBefore, ListDuring, LinkGone, Put
  <2> QED BY <2>1, <2>2 DEF CleanupInv
<1>4. CASE RemoveList
  <2>1. TypeOK'
    BY <1>4 DEF RemoveList, CleanupInv, TypeOK, Pcs, CleanupPcs, Put
  <2>2. ListBefore' /\ ListDuring' /\ LinkGone'
    BY <1>4 DEF RemoveList, CleanupInv, ListBefore, ListDuring, LinkGone, WorkPcs, Put
  <2> QED BY <2>1, <2>2 DEF CleanupInv
<1>5. CASE RecheckList
  <2>1. TypeOK'
    BY <1>5, WarnStep DEF RecheckList, CleanupInv, TypeOK, Pcs, CleanupPcs, Step
  <2>2. ListBefore' /\ ListDuring' /\ LinkGone'
    BY <1>5, WarnStep
       DEF RecheckList, CleanupInv, ListBefore, ListDuring, LinkGone, CleanupPcs, Step
  <2> QED BY <2>1, <2>2 DEF CleanupInv
<1>6. CASE CleanLink
  <2>1. TypeOK'
    <3>1. link' \in BOOLEAN /\ pc' \in Pcs
      BY <1>6 DEF CleanLink, Pcs, CleanupPcs
    <3> QED BY <1>6, <3>1 DEF CleanLink, CleanupInv, TypeOK
  <2>2. ListBefore' /\ ListDuring' /\ LinkGone'
    BY <1>6 DEF CleanLink, CleanupInv, ListBefore, ListDuring, LinkGone, WorkPcs
  <2> QED BY <2>1, <2>2 DEF CleanupInv
<1>7. CASE CleanStage
  <2>1. TypeOK'
    <3>1. pc' \in Pcs /\ staged' \in BOOLEAN /\ cleaned' \in BOOLEAN
      BY <1>7 DEF CleanStage, Pcs, CleanupPcs
    <3> QED BY <1>7, <3>1 DEF CleanStage, CleanupInv, TypeOK
  <2>2. ListBefore' /\ ListDuring' /\ LinkGone'
    BY <1>7 DEF CleanStage, CleanupInv, ListBefore, ListDuring, LinkGone, WorkPcs
  <2> QED BY <2>1, <2>2 DEF CleanupInv
<1>8. CASE Return
  <2>1. TypeOK'
    BY <1>8 DEF Return, CleanupInv, TypeOK, Pcs, Step
  <2>2. ListBefore' /\ ListDuring' /\ LinkGone'
    BY <1>8 DEF Return, CleanupInv, ListBefore, ListDuring, LinkGone, WorkPcs, Step
  <2> QED BY <2>1, <2>2 DEF CleanupInv
<1> QED BY <1>1, <1>2, <1>3, <1>4, <1>5, <1>6, <1>7, <1>8 DEF Cleanup

\* The other ways a call is interrupted.
LEMMA OtherEnds ==
  ASSUME CleanupInv, IoError \/ WaitTimeout \/ Crash
  PROVE  CleanupInv'
<1> USE DEF Goto, device, memory, aux
<1>1. CASE IoError
  <2>1. TypeOK'
    BY <1>1, FailStep, WarnStep DEF IoError, CleanupInv, TypeOK, Pcs, CleanupPcs, Step
  <2>2. ListBefore' /\ ListDuring' /\ LinkGone'
    BY <1>1, FailStep, WarnStep
       DEF IoError, CleanupInv, ListBefore, ListDuring, LinkGone, WorkPcs, CleanupPcs, Step
  <2> QED BY <2>1, <2>2 DEF CleanupInv
<1>2. CASE WaitTimeout
  <2>1. TypeOK'
    BY <1>2, FailStep DEF WaitTimeout, CleanupInv, WorkPcs
  <2>2. ListBefore' /\ ListDuring' /\ LinkGone'
    BY <1>2, FailStep DEF WaitTimeout, CleanupInv, WorkPcs
  <2> QED BY <2>1, <2>2 DEF CleanupInv
<1>3. CASE Crash
  <2>1. TypeOK'
    <3>1. call' \in Call
      BY <1>3 DEF Crash, CleanupInv, TypeOK, Call
    <3> QED BY <1>3, <3>1 DEF Crash, CleanupInv, TypeOK, Pcs
  <2>2. ListBefore' /\ ListDuring' /\ LinkGone'
    BY <1>3 DEF Crash, CleanupInv, ListBefore, ListDuring, LinkGone, WorkPcs
  <2> QED BY <2>1, <2>2 DEF CleanupInv
<1> QED BY <1>1, <1>2, <1>3

\* A new call, the device, the application and the daemon.  Under a new token the
\* list of an earlier one is not ours.
LEMMA OtherSteps ==
  ASSUME CleanupInv,
         (\E k \in Kinds : \E d \in File : BeginCall(k, d)) \/ Device \/ AppWrites \/ DaemonWrites
           \/ Settle
  PROVE  CleanupInv'
<1> USE DEF Goto, device, memory, aux
<1>1. ASSUME NEW k \in Kinds, NEW d \in File, BeginCall(k, d) PROVE CleanupInv'
  <2>1. call' \in Call
    BY <1>1 DEF BeginCall, Call
  <2>2. late' \in File \cup {NoMove} /\ list' \in Lists \cup {Ours, Stale, Torn, Absent} /\ list' # Ours
    BY <1>1, FileTyped, DirectContentAssumption
       DEF BeginCall, Outstanding, Renewed, CleanupInv, TypeOK
  <2>3. TypeOK'
    BY <1>1, <2>1, <2>2, FileTyped
       DEF BeginCall, CleanupInv, TypeOK, MovesSent, Pcs, WorkPcs
  <2>4. ListBefore' /\ ListDuring' /\ LinkGone'
    BY <1>1, <2>2 DEF BeginCall, ListBefore, ListDuring, LinkGone
  <2> QED BY <2>3, <2>4 DEF CleanupInv
<1>2. CASE ExecuteMove
  <2>1. TypeOK'
    <3>1. target' \in File /\ incoming' \in File /\ move' \in MovesSent
      BY <1>2, FileTyped DEF ExecuteMove, CleanupInv, TypeOK, MovesSent
    <3>2. staged' \in BOOLEAN /\ link' \in BOOLEAN /\ own' \in BOOLEAN
      BY <1>2 DEF ExecuteMove, CleanupInv, TypeOK
    <3> QED BY <1>2, <3>1, <3>2 DEF ExecuteMove, CleanupInv, TypeOK
  <2>2. ListBefore' /\ ListDuring' /\ LinkGone'
    BY <1>2 DEF ExecuteMove, CleanupInv, ListBefore, ListDuring, LinkGone
  <2> QED BY <2>1, <2>2 DEF CleanupInv
<1>3. CASE ExecuteLate
  <2>1. TypeOK'
    <3>1. target' \in File /\ late' \in File \cup {NoMove} /\ own' \in BOOLEAN
      BY <1>3 DEF ExecuteLate, CleanupInv, TypeOK
    <3> QED BY <1>3, <3>1 DEF ExecuteLate, CleanupInv, TypeOK
  <2>2. ListBefore' /\ ListDuring' /\ LinkGone'
    BY <1>3 DEF ExecuteLate, CleanupInv, ListBefore, ListDuring, LinkGone
  <2> QED BY <2>1, <2>2 DEF CleanupInv
<1>4. CASE DropMove
  <2>1. TypeOK'
    BY <1>4 DEF DropMove, CleanupInv, TypeOK, MovesSent
  <2>2. ListBefore' /\ ListDuring' /\ LinkGone'
    BY <1>4 DEF DropMove, CleanupInv, ListBefore, ListDuring, LinkGone
  <2> QED BY <2>1, <2>2 DEF CleanupInv
<1>5. CASE AppWrites
  <2>1. TypeOK'
    BY <1>5 DEF AppWrites, CleanupInv, TypeOK
  <2>2. ListBefore' /\ ListDuring' /\ LinkGone'
    BY <1>5 DEF AppWrites, CleanupInv, ListBefore, ListDuring, LinkGone
  <2> QED BY <2>1, <2>2 DEF CleanupInv
<1>6. CASE DaemonWrites
  <2>1. TypeOK'
    BY <1>6 DEF DaemonWrites, CleanupInv, TypeOK
  <2>2. ListBefore' /\ ListDuring' /\ LinkGone'
    BY <1>6, DirectContentAssumption
       DEF DaemonWrites, CleanupInv, ListBefore, ListDuring, LinkGone
  <2> QED BY <2>1, <2>2 DEF CleanupInv
<1>7. CASE Settle
  <2>1. TypeOK'
    BY <1>7 DEF Settle, CleanupInv, TypeOK
  <2>2. ListBefore' /\ ListDuring' /\ LinkGone'
    BY <1>7 DEF Settle, CleanupInv, ListBefore, ListDuring, LinkGone
  <2> QED BY <2>1, <2>2 DEF CleanupInv
<1> QED BY <1>1, <1>2, <1>3, <1>4, <1>5, <1>6, <1>7 DEF Device

THEOREM CleanupInvariant == Spec => []CleanupInv
<1>1. CleanupInv /\ [Next]_vars => CleanupInv'
  <2> SUFFICES ASSUME CleanupInv, [Next]_vars PROVE CleanupInv'
    OBVIOUS
  <2>1. CASE UNCHANGED vars
    BY <2>1
       DEF vars, device, memory, aux, CleanupInv, TypeOK, ListBefore, ListDuring, LinkGone
  <2>2. CASE Next
    BY <2>2, BodySteps, CleanupRuns, OtherEnds, OtherSteps
       DEF CleanupInv, Next, Worker
  <2> QED BY <2>1, <2>2
<1> QED BY <1>1, CleanupInit, PTL DEF Spec

\* What a call remembers as the earlier list is never the list it publishes.
THEOREM TypeCorrect == Spec => []TypeOK
<1>1. CleanupInv => TypeOK
  BY DEF CleanupInv
<1> QED BY <1>1, CleanupInvariant, PTL

\* "Release this operation's transport metadata inline": without a warning the
\* list is as the call found it, unless the daemon changed it.
THEOREM ListGivenBack == Spec => []ListRestored
<1>1. CleanupInv => ListRestored
  BY DEF CleanupInv, ListDuring, ListRestored
<1> QED BY <1>1, CleanupInvariant, PTL

\* The cleanup replaces a list of the daemon only if it was written after the
\* cleanup looked.
THEOREM DaemonListSafe == Spec => DaemonListKept
<1>1. CleanupInv /\ [Next]_vars =>
        [ /\ pc \in CleanupPcs
          /\ list \in Lists \cup {Absent} /\ list' # list /\ ~foreign'
          => list = previous ]_vars
  <2> SUFFICES ASSUME CleanupInv, [Next]_vars, pc \in CleanupPcs, list \in Lists \cup {Absent},
                      list' # list, ~foreign'
               PROVE  list = previous
    OBVIOUS
  <2>1. ReopenList \/ RewriteList \/ RemoveList
    <3>1. ~Body
      BY DEF CleanupPcs, Body, PrepareDirectWrite, WriteKnownIncoming, Look, OpenList, WriteList,
             CheckList, SendLink, WaitLink, SendPlace, WaitPlaced, ProbeTarget, SendTrash, WaitTrash,
             Unlink
    <3>2. ~(RestoreList \/ RecheckList \/ CleanLink \/ CleanStage \/ Return)
      BY DEF RestoreList, RecheckList, CleanLink, CleanStage, Return, Step, Warn
    <3>3. ~IoError /\ ~WaitTimeout /\ ~Crash
      BY DEF IoError, WaitTimeout, Crash, Step, Warn, Fail, Conclude
    <3>4. ~\E k \in Kinds : \E d \in File : BeginCall(k, d)
      BY DEF BeginCall, CleanupPcs
    <3>5. ~Device /\ ~AppWrites /\ ~DaemonWrites /\ ~Settle /\ ~UNCHANGED vars
      BY DEF Device, ExecuteMove, ExecuteLate, DropMove, AppWrites, DaemonWrites, Settle, vars
    <3> QED BY <3>1, <3>2, <3>3, <3>4, <3>5 DEF Next, Worker, Cleanup
  <2>2. foreign' = foreign
    BY <2>1 DEF ReopenList, RewriteList, RemoveList, Put, aux
  <2> QED BY <2>1, <2>2, DirectContentAssumption
       DEF CleanupInv, ListDuring, ReopenList, RewriteList, RemoveList
<1> QED BY <1>1, CleanupInvariant, PTL DEF Spec, DaemonListKept

\* "Never touch the target again": after a failed write removed its link, the
\* move the device still has leaves the target alone.
THEOREM FailedWriteEnds == Spec => FailedWriteIsOver
<1>1. CleanupInv /\ [Next]_vars =>
        [ cleaned /\ call.kind = "write" /\ move # "none" /\ move' = "none"
          => target' = target ]_vars
  <2> SUFFICES ASSUME CleanupInv, [Next]_vars, cleaned, call.kind = "write", move # "none",
                      move' = "none"
               PROVE  target' = target
    OBVIOUS
  <2>1. move \in {"link", "place"} /\ (move = "place" => ~link) /\ pc \in {"return", "idle"}
    BY DEF CleanupInv, TypeOK, MovesSent, LinkGone
  <2>2. CASE Body
    BY <2>1, <2>2
       DEF Body, PrepareDirectWrite, WriteKnownIncoming, Look, OpenList, WriteList,
       CheckList, SendLink, WaitLink, SendPlace, WaitPlaced, ProbeTarget, SendTrash, WaitTrash, Unlink
  <2>3. CASE Cleanup \/ IoError \/ WaitTimeout \/ Crash
    BY <2>1, <2>3
       DEF Cleanup, RestoreList, ReopenList, RewriteList, RemoveList, RecheckList,
       CleanLink, CleanStage, Return, IoError, WaitTimeout, Crash, Step, Warn, Put, Fail, Conclude,
       device, WorkPcs
  <2>4. CASE Device
    BY <2>1, <2>4 DEF Device, ExecuteMove, ExecuteLate, DropMove
  <2>5. CASE \E k \in Kinds : \E d \in File : BeginCall(k, d)
    BY <2>5 DEF BeginCall
  <2>6. CASE AppWrites \/ DaemonWrites \/ Settle \/ UNCHANGED vars
    BY <2>6 DEF AppWrites, DaemonWrites, Settle, vars, device
  <2> QED BY <2>2, <2>3, <2>4, <2>5, <2>6 DEF Next, Worker
<1> QED BY <1>1, CleanupInvariant, PTL DEF Spec, FailedWriteIsOver
=============================================================================
