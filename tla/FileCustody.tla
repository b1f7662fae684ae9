----------------------------- MODULE FileCustody -----------------------------
(***************************************************************************)
(* What the owner of a file relies on when the engine works on it: each    *)
(* transaction takes the file at most once, answers for the bytes it took  *)
(* until it has put them back or was told to keep them, and is not closed  *)
(* before.  A reader always gets the file back; what a deletion has taken  *)
(* for good never comes back by itself.                                    *)
(***************************************************************************)
CONSTANT Absent

VARIABLES kind,     \* of the open transaction: read, write or delete; none
          content,  \* the bytes the last transaction took, Absent before
          status,   \* who answers for them
          copies    \* the bytes the engine has in safe places

vars == <<kind, content, status, copies>>

\* theirs: nothing was taken.  held: the engine has to give the bytes back or
\* to be told to keep them.  returned: they went back.  released: the
\* transaction is committed, and a copy is kept.
Statuses == {"theirs", "held", "returned", "released"}

Init == kind = "none" /\ content = Absent /\ status = "theirs" /\ copies = {}

\* Every copy is a copy of what was taken, and there is one as long as the
\* application does not have it.
Copied ==
  /\ copies' \subseteq {content'}
  /\ status' \in {"held", "released"} => content' \in copies'

Begin ==
  /\ kind = "none"
  /\ kind' \in {"read", "write", "delete"}
  /\ content' = Absent /\ status' = "theirs" /\ copies' = {}

Take ==
  /\ kind # "none" /\ status = "theirs"
  /\ content' # Absent /\ status' = "held"
  /\ Copied
  /\ UNCHANGED kind

Return ==
  /\ kind # "none"
  /\ status = "held"
  /\ status' = "returned"
  /\ Copied
  /\ UNCHANGED <<kind, content>>

Release ==
  /\ kind \in {"write", "delete"} /\ status = "held"
  /\ status' = "released"
  /\ Copied
  /\ UNCHANGED <<kind, content>>

\* A copy is made, or one that is not the last is given up.
Copy == Copied /\ UNCHANGED <<kind, content, status>>

Close ==
  /\ kind # "none" /\ status # "held"
  /\ kind' = "none"
  /\ UNCHANGED <<content, status, copies>>

Next == Begin \/ Take \/ Return \/ Release \/ Copy \/ Close

Spec == Init /\ [][Next]_vars
=============================================================================
