---------------------------- MODULE FileRecovery ----------------------------
(***************************************************************************)
(* The evidence classifier of XFATCFileRecovery.h.  It performs no I/O: it *)
(* maps what was freshly observed of the three staging slots and of the    *)
(* application path, together with the facts of the durable journal, to    *)
(* one decision.                                                           *)
(***************************************************************************)

\* XFATCFilePresence.  Unknown stands for every permission, transport or
\* parse failure and for foreign or changed files.
Unknown == "Unknown"
Missing == "Missing"
Present == "Present"
Presence == {Unknown, Missing, Present}

\* XFATCFileRecoveryOperation.
RecoveryOperation == {"read", "replace", "delete"}

\* XFATCFileRecoveryObservation.
Observation ==
  [operation : RecoveryOperation,
   original : Presence, incoming : Presence, verify : Presence, target : Presence,
   originalCaptured : BOOLEAN, replacementVerified : BOOLEAN,
   returnOriginalIntent : BOOLEAN, placementIntent : BOOLEAN,
   returnReplacementIntent : BOOLEAN, committed : BOOLEAN]

\* XFATCFileRecoveryDecision.
Pending                  == "Pending"
ReadReturnConfirmed      == "ReadReturnConfirmed"
WriteCommitted           == "WriteCommitted"
OriginalRestoreCandidate == "OriginalRestoreCandidate"
DeleteCommitted          == "DeleteCommitted"
Decision == {Pending, ReadReturnConfirmed, WriteCommitted,
             OriginalRestoreCandidate, DeleteCommitted}

\* The first guard of the classifier: every staging slot was really observed
\* and the original has a durable local copy.
Evident(s) ==
  /\ Unknown \notin {s.original, s.incoming, s.verify}
  /\ s.originalCaptured

\* No fact about a replacement is recorded.
NoReplacement(s) ==
  /\ ~s.placementIntent
  /\ ~s.returnReplacementIntent
  /\ ~s.replacementVerified

\* Mutant: a denied lookup of the application's path is not accepted.
ClassifyDeleteStrict(s) ==
  IF s.committed /\ s.original = Present /\ s.target = Missing
  THEN DeleteCommitted
  ELSE Pending

ClassifyDelete(s) ==
  IF /\ s.committed
     /\ s.original = Present
     /\ s.incoming = Missing
     /\ s.verify = Missing
     /\ s.target # Present
     /\ ~s.returnOriginalIntent
     /\ NoReplacement(s)
  THEN DeleteCommitted
  ELSE Pending

ClassifyRead(s) ==
  IF \/ s.incoming # Missing
     \/ s.verify # Missing
     \/ ~NoReplacement(s)
     \/ s.committed
  THEN Pending
  ELSE IF /\ s.original = Missing
          /\ s.returnOriginalIntent
          /\ s.target # Missing
       THEN ReadReturnConfirmed
  ELSE IF s.original = Present /\ s.target = Missing
       THEN OriginalRestoreCandidate
       ELSE Pending

ClassifyReplace(s) ==
  IF s.returnOriginalIntent THEN Pending
  ELSE IF /\ s.committed /\ s.placementIntent
          /\ s.replacementVerified /\ s.returnReplacementIntent
          /\ s.incoming = Missing /\ s.verify = Missing
          /\ s.target # Missing
       THEN WriteCommitted
  ELSE IF /\ ~s.committed /\ NoReplacement(s)
          /\ s.original = Present /\ s.verify = Missing
          /\ s.target = Missing
       THEN OriginalRestoreCandidate
       ELSE Pending

\* XFATCClassifyFileRecovery.
ClassifyFileRecovery(s) ==
  IF ~Evident(s) THEN Pending
  ELSE IF s.operation = "delete" THEN ClassifyDelete(s)
  ELSE IF s.operation = "read" THEN ClassifyRead(s)
  ELSE ClassifyReplace(s)
=============================================================================
