----------------------------- MODULE CallScript -----------------------------
(***************************************************************************)
(* The vocabulary in which the native calls are written: the library's     *)
(* client methods (native/idevice/src) and the C functions over them       *)
(* (native/ffi/src).  A call is a script, a sequence of steps in the order *)
(* of its code.  What the code does to a handle, to the request and reply  *)
(* stream of its connection and to the order of its early returns is kept; *)
(* the bytes of a message are not.  NativeCalls gives every step its       *)
(* meaning.  C statements over a foreign object (`vec![]`, a field read)   *)
(* have no step.                                                           *)
(***************************************************************************)
EXTENDS Naturals, Sequences, FiniteSets

(***************************************************************************)
(* Arguments and handles of a C function.                                  *)
(***************************************************************************)
NotNull(args) == <<[op |-> "notNull", args |-> args]>>  \* return FfiInvalidArg
Valid         == <<[op |-> "valid"]>>       \* another test: FfiInvalidArg
Text          == <<[op |-> "text"]>>        \* to_str(): FfiInvalidString
Take(h)       == <<[op |-> "take", arg |-> h]>>   \* Box::from_raw(h), moved on
Free(h)       == <<[op |-> "free", arg |-> h]>>   \* drop(Box::from_raw(h))
Give(out)     == <<[op |-> "give", arg |-> out]>> \* *out = the new object
Put(out)      == <<[op |-> "put",  arg |-> out]>> \* *out = an allocated value

(***************************************************************************)
(* The connection of a client.                                             *)
(***************************************************************************)
Open            == <<[op |-> "open"]>>        \* a new connection
Send(replies)   == <<[op |-> "send", n |-> replies]>>  \* the device owes them
SendMany        == <<[op |-> "sendMany"]>>    \* a reply in parts, the last marked
Recv            == <<[op |-> "recv"]>>        \* the next message, `?`
Hear            == <<[op |-> "hear"]>>        \* one the device sends unasked
Drain(body)     == <<[op |-> "drain", do |-> body]>>  \* every part, body on each
Live            == <<[op |-> "live"]>>        \* FfiInvalidArg when it was dropped
Invalidate      == <<[op |-> "invalidate"]>>  \* the socket is dropped
Await           == <<[op |-> "await"]>>       \* a fallible call of its own channel

(***************************************************************************)
(* Control.                                                                *)
(***************************************************************************)
Judge           == <<[op |-> "judge"]>>       \* what was read may be refused, `?`
Fail            == <<[op |-> "fail"]>>
IfGiven(p, s, t) ==                           \* if !p.is_null() { s } else { t }
  <<[op |-> "opt", arg |-> p, do |-> s, or |-> t]>>
Opt(p, s)       == IfGiven(p, s, <<>>)
Either(s, t)    == <<[op |-> "either", do |-> s, or |-> t]>> \* a branch on data
Maybe(s)        == Either(s, <<>>)
Loop(s)         == <<[op |-> "loop", do |-> s]>>
TryElse(s, h)   == <<[op |-> "try", do |-> s, or |-> h, by |-> "none"]>>
Try(s)          == TryElse(s, <<>>)           \* let _ = s
\* A deadline cuts the block: h follows a cut and an error, or a cut alone.
Within(s, h)    == <<[op |-> "try", do |-> s, or |-> h, by |-> "deadline"]>>
Cut(s, h)       == <<[op |-> "try", do |-> s, or |-> h, by |-> "cut"]>>

(***************************************************************************)
(* The forms most of the code has.                                         *)
(***************************************************************************)
Tell            == Send(0)                    \* a message nothing answers
Exchange        == Send(1) \o Recv            \* send_plist; read_plist
Checked         == Exchange \o Judge          \* and the answer is tested

\* A connection that does not outlive the failure of what opens it.
Fresh(s)        == TryElse(s, Invalidate \o Fail)

Frees(h)        == Opt(h, Free(h))            \* if !h.is_null() { drop(h) }
Wraps(h, out)   == NotNull({h, out}) \o Take(h) \o Give(out)

=============================================================================
