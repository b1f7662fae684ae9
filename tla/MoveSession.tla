---------------------------- MODULE MoveSession -----------------------------
(***************************************************************************)
(* What the rest of the engine relies on when it asks for file moves:      *)
(* runKnownFilePairs and runATC either move nothing and say so, or hand    *)
(* the device the moves that were asked for, in order, each of them once,  *)
(* possibly stopping early.                                                *)
(***************************************************************************)
EXTENDS Naturals, Sequences

VARIABLES asked,  \* number of moves asked for
          got,    \* indices of the moves the device was handed, in order
          result  \* running, ok, failed, or untouched: failed and nothing was sent

Results == {"running", "ok", "failed", "untouched"}

Init == asked \in Nat /\ got = <<>> /\ result = "running"

HandOver ==
  /\ result = "running" /\ Len(got) < asked
  /\ got' = Append(got, Len(got) + 1)
  /\ UNCHANGED <<asked, result>>

End ==
  /\ result = "running"
  /\ \/ result' = "ok" /\ Len(got) = asked
     \/ result' = "failed"
     \/ result' = "untouched" /\ got = <<>>
  /\ UNCHANGED <<asked, got>>

Next == HandOver \/ End

Spec == Init /\ [][Next]_<<asked, got, result>>
=============================================================================
