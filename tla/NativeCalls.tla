----------------------------- MODULE NativeCalls ----------------------------
(***************************************************************************)
(* What a program that uses the native library does: it makes one call     *)
(* after another on the handles and the connection of one client.  A call  *)
(* runs its script (CallScript).  Rust drops on return what the frame of   *)
(* the call still owns; the handles of a C function were allocated by an   *)
(* earlier call and belong to the caller until a step takes them.          *)
(***************************************************************************)
EXTENDS CallScript, SequencesExt

CONSTANTS
  Methods,     \* for each client, the scripts of its calls
  MaxOwed,     \* most replies the device owes on one connection
  MaxParts,    \* most parts of one reply in parts
  MaxNesting   \* how deep the blocks of a script are nested

ASSUME CallBounds == MaxOwed \in Nat /\ MaxParts \in Nat

VARIABLES
  client,      \* the client in use
  fn,          \* the script of the call
  rest,        \* the steps the call still has
  null,        \* the pointer arguments the caller left null
  taken,       \* handles the frame of the call owns
  kept,        \* handles an object the call made owns
  freed,       \* handles whose memory the call has released
  given,       \* out parameters that hold an allocated object
  result,      \* of the call: none, ok, refused or error
  owed,        \* messages the device has sent or will send, in order
  dead,        \* the transport has failed or was dropped
  crossed      \* the call has read an answer to an earlier one

vars == <<client, fn, rest, null, taken, kept, freed, given, result,
          owed, dead, crossed>>

frame == <<taken, kept, freed, given>>
conn  == <<owed, dead, crossed>>

Messages == {"part", "last", "oldPart", "oldLast", "torn"}

\* The steps of a script and, level by level, those Inside(t) of each step t.
Down(s, Inside(_)) ==
  LET Level[n \in 0..MaxNesting] ==
        IF n = 0 THEN Range(s)
        ELSE LET outer == Level[n - 1] IN outer \cup UNION {Inside(t) : t \in outer}
  IN  Level[MaxNesting]

Blocks == {"opt", "either", "loop", "try", "drain"}
Body(t)    == IF t.op \in Blocks THEN Range(t.do) ELSE {}
Other(t)   == IF t.op \in {"opt", "either"} THEN Range(t.or) ELSE {}
Handler(t) == IF t.op = "try" THEN Range(t.or) ELSE {}

\* Every step a script can run when no step of it fails, and every step it has.
StepsOf(s)  == LET Inside(t) == Body(t) \cup Other(t) IN Down(s, Inside)
AllSteps(s) == LET Inside(t) == Body(t) \cup Other(t) \cup Handler(t) IN Down(s, Inside)

\* The handles a script consumes when it succeeds.
Consumes(s) == {t.arg : t \in {u \in StepsOf(s) : u.op \in {"take", "free"}}}

\* The arguments the code of a script asks about.
Nullable(s) == UNION {t.args : t \in {u \in StepsOf(s) : u.op = "notNull"}}
                 \cup {t.arg : t \in {u \in StepsOf(s) : u.op = "opt"}}

Step == rest[1]

Running(op) == result = "none" /\ rest # <<>> /\ Step.op = op

Continue == rest' = Tail(rest) /\ UNCHANGED <<client, fn, null, result>>

(***************************************************************************)
(* How a call ends.  `?` leaves the innermost fallible block that handles  *)
(* the error, or the function.                                             *)
(***************************************************************************)
Guards == {i \in DOMAIN rest : rest[i].op = "else"}

Handlers == {i \in Guards : rest[i].by # "cut"}

Leave(r) ==
  /\ result' = r
  /\ rest' = <<>>
  /\ freed' = freed \cup taken
  /\ taken' = {}
  /\ UNCHANGED <<client, fn, null, kept, given>>

To(i) ==
  /\ rest' = rest[i].or \o SubSeq(rest, i + 1, Len(rest))
  /\ UNCHANGED <<client, fn, null, result>>
  /\ UNCHANGED frame

FailsHere ==
  \/ Handlers = {} /\ Leave("error")
  \/ \E i \in Handlers : (\A j \in Handlers : i <= j) /\ To(i)

Timed == {i \in Guards : rest[i].by # "none"}

Init ==
  /\ client \in DOMAIN Methods
  /\ fn = <<>> /\ rest = <<>> /\ null = {}
  /\ taken = {} /\ kept = {} /\ freed = {} /\ given = {}
  /\ result = "ok"
  /\ owed = <<>> /\ dead = FALSE /\ crossed = FALSE

Aged == [i \in DOMAIN owed |->
           IF owed[i] \in {"part", "oldPart"} THEN "oldPart" ELSE "oldLast"]

\* The caller makes a call, with at most one pointer left null.
Call ==
  /\ result # "none"
  /\ \E s \in Methods[client] :
       /\ fn' = s
       /\ rest' = s
       /\ \E n \in {{}} \cup {{a} : a \in Nullable(s)} : null' = n
  /\ result' = "none"
  /\ taken' = {} /\ kept' = {} /\ freed' = {} /\ given' = {}
  /\ owed' = Aged
  /\ crossed' = FALSE
  /\ UNCHANGED <<client, dead>>

\* The caller opens another connection.
Reopen ==
  /\ result # "none"
  /\ owed # <<>> \/ dead
  /\ owed' = <<>> /\ dead' = FALSE
  /\ UNCHANGED <<client, fn, rest, null, result, frame, crossed>>

Return ==
  /\ result = "none"
  /\ rest = <<>>
  /\ Leave("ok")
  /\ UNCHANGED conn

Refuse(op) ==
  /\ Running(op)
  /\ Leave("refused")
  /\ UNCHANGED conn

ArgumentNull == Refuse("notNull") /\ Step.args \cap null # {}

ArgumentsGiven ==
  /\ Running("notNull")
  /\ Step.args \cap null = {}
  /\ Continue
  /\ UNCHANGED <<frame, conn>>

ArgumentBad == Refuse("valid") \/ Refuse("text") \/ (dead /\ Refuse("live"))

ArgumentGood ==
  /\ Running("valid") \/ Running("text") \/ (~dead /\ Running("live"))
  /\ Continue
  /\ UNCHANGED <<frame, conn>>

TakeHandle ==
  /\ Running("take")
  /\ taken' = taken \cup {Step.arg}
  /\ Continue
  /\ UNCHANGED <<kept, freed, given, conn>>

FreeHandle ==
  /\ Running("free")
  /\ freed' = freed \cup {Step.arg}
  /\ Continue
  /\ UNCHANGED <<taken, kept, given, conn>>

\* An object takes what the frame owns with it; a plain value does not.
GiveOut ==
  /\ Running("give")
  /\ given' = given \cup {Step.arg}
  /\ kept' = kept \cup taken
  /\ taken' = {}
  /\ Continue
  /\ UNCHANGED <<freed, conn>>

PutOut ==
  /\ Running("put")
  /\ given' = given \cup {Step.arg}
  /\ Continue
  /\ UNCHANGED <<taken, kept, freed, conn>>

(***************************************************************************)
(* The connection.  The device answers what it was asked in order, on one  *)
(* stream, and nothing in a message says which request it answers.         *)
(***************************************************************************)
Reading == Running("recv") \/ Running("hear") \/ Running("drain")

ConnectionFails ==
  /\ Running("open") \/ Running("send") \/ Running("sendMany") \/ Reading
  /\ dead' = TRUE
  /\ owed' = <<>>
  /\ FailsHere
  /\ UNCHANGED crossed

OpenConnection ==
  /\ Running("open")
  /\ dead' = FALSE
  /\ owed' = <<>>
  /\ Continue
  /\ UNCHANGED <<frame, crossed>>

Sends(replies) ==
  /\ ~dead
  /\ Len(owed) + Len(replies) <= MaxOwed
  /\ owed' = owed \o replies
  /\ Continue
  /\ UNCHANGED <<frame, dead, crossed>>

SendRequest ==
  \/ Running("send") /\ Sends([i \in 1..Step.n |-> "last"])
  \/ /\ Running("sendMany")
     /\ \E n \in 1..MaxParts :
          Sends([i \in 1..n |-> IF i = n THEN "last" ELSE "part"])

\* The next message is taken off the stream.
Takes ==
  /\ owed # <<>>
  /\ owed' = Tail(owed)
  /\ crossed' = (crossed \/ owed[1] \in {"oldPart", "oldLast", "torn"})
  /\ UNCHANGED dead

ReadReply ==
  /\ Running("recv") \/ Running("hear")
  /\ Takes
  /\ Continue
  /\ UNCHANGED frame

\* It is malformed, or an error of the device.
ReadRefusal ==
  /\ Running("recv")
  /\ Takes
  /\ FailsHere

\* A message nobody asked for.
ReadEvent ==
  /\ Running("hear")
  /\ ~dead /\ owed = <<>>
  /\ Continue
  /\ UNCHANGED <<frame, conn>>

ReadPart ==
  /\ Running("drain")
  /\ Takes
  /\ rest' = Step.do \o (IF owed[1] \in {"last", "oldLast", "torn"} THEN Tail(rest) ELSE rest)
  /\ UNCHANGED <<client, fn, null, result, frame>>

DropConnection ==
  /\ Running("invalidate")
  /\ dead' = TRUE
  /\ owed' = <<>>
  /\ Continue
  /\ UNCHANGED <<frame, crossed>>

\* The deadline around a block cuts it at whatever it is waiting for.  A read
\* that is dropped between a header and its body leaves the body behind.
DeadlinePasses ==
  /\ Reading \/ Running("open") \/ Running("send") \/ Running("await")
  /\ \E i \in Timed : To(i)
  /\ \/ owed' = owed
     \/ /\ Reading
        /\ owed # <<>> \/ Running("hear")
        /\ owed' = <<"torn">> \o (IF owed = <<>> THEN owed ELSE Tail(owed))
  /\ UNCHANGED <<dead, crossed>>

(***************************************************************************)
(* Control.                                                                *)
(***************************************************************************)
GoesOn ==
  /\ Running("await") \/ Running("judge") \/ Running("else")
  /\ Continue
  /\ UNCHANGED <<frame, conn>>

Errs ==
  /\ Running("await") \/ Running("judge") \/ Running("fail")
  /\ FailsHere
  /\ UNCHANGED conn

RunsOn(steps) ==
  /\ rest' = steps
  /\ UNCHANGED <<client, fn, null, result, frame, conn>>

Branch ==
  \/ /\ Running("opt")
     /\ RunsOn((IF Step.arg \in null THEN Step.or ELSE Step.do) \o Tail(rest))
  \/ /\ Running("either")
     /\ \/ RunsOn(Step.do \o Tail(rest))
        \/ RunsOn(Step.or \o Tail(rest))
  \/ /\ Running("loop")
     /\ \/ RunsOn(Step.do \o rest)
        \/ RunsOn(Tail(rest))
  \/ /\ Running("try")
     /\ RunsOn(Step.do \o <<[op |-> "else", or |-> Step.or, by |-> Step.by]>>
                     \o Tail(rest))

Next ==
  \/ Call \/ Reopen \/ Return
  \/ ArgumentNull \/ ArgumentsGiven \/ ArgumentBad \/ ArgumentGood
  \/ TakeHandle \/ FreeHandle \/ GiveOut \/ PutOut
  \/ OpenConnection \/ ConnectionFails \/ SendRequest \/ ReadReply \/ ReadRefusal \/ ReadEvent
  \/ ReadPart \/ DropConnection \/ DeadlinePasses
  \/ GoesOn \/ Errs \/ Branch

Spec == Init /\ [][Next]_vars

=============================================================================
