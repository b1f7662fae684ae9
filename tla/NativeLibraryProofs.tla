------------------------- MODULE NativeLibraryProofs -------------------------
(***************************************************************************)
(* Theorems about the calls of the native library, for every set of        *)
(* clients and every script: what the order of a script's text says about  *)
(* every way its steps can run.  The scripts are known only through        *)
(* MethodsInOrder, which TLC checks of the text of every call when it      *)
(* checks CallsInOrder.                                                    *)
(*                                                                         *)
(* The argument.  Running a script never brings a step it does not have    *)
(* (StaysInside), and a script in two phases, some steps of A and then     *)
(* some of B, stays in two phases however it branches, repeats and handles *)
(* its errors (StaysPhased): once it has run a step that A does not have,  *)
(* only steps of B are left (SecondPhase).  Every step of the              *)
(* specification begins a call, ends one, goes on with it or leaves it     *)
(* alone (EveryStep).  With that each property has an inductive invariant  *)
(* that splits what is left of the call in two phases.                     *)
(*                                                                         *)
(* The last property counts: a call reads as many answers as it asked for. *)
(* Its text is run alone (Alone), and the invariant KnowsItsAnswers says   *)
(* that a call among others, on a stream with old messages, goes no way    *)
(* its text cannot go alone, and finds its stream as known there (Fits),   *)
(* until it reads what is not its own.                                     *)
(***************************************************************************)
EXTENDS NativeLibrary, TLAPS, SequenceTheorems

(***************************************************************************)
(* The steps a call has left.                                              *)
(***************************************************************************)
\* What a fallible block leaves behind to be run when it fails.
Marker(t) == [op |-> "else", or |-> t.or, by |-> t.by]

\* P has every step that running a step of P brings.
Runs(P) ==
  \A t \in P :
    /\ t.op \in Blocks => t.do \in Seq(P)
    /\ t.op \in {"opt", "either", "else"} => t.or \in Seq(P)
    /\ t.op = "try" => Marker(t) \in P

Marked(P) == P \cup {Marker(t) : t \in {u \in P : u.op = "try"}}

\* An error is handled behind one of the blocks that r still has to leave.
Handled(r, q) ==
  \E i \in DOMAIN r : r[i].op = "else" /\ q = r[i].or \o SubSeq(r, i + 1, Len(r))

\* The call goes on from the steps r with the steps q.
Follows(r, q) ==
  \/ q = Tail(r)
  \/ Handled(r, q)
  \/ r[1].op \in Blocks /\ q = r[1].do \o Tail(r)
  \/ r[1].op \in {"loop", "drain"} /\ q = r[1].do \o r
  \/ r[1].op \in {"opt", "either"} /\ q = r[1].or \o Tail(r)
  \/ r[1].op = "try" /\ q = r[1].do \o <<Marker(r[1])>> \o Tail(r)

\* The steps are some of A, then some of B.
Phased(A, B, r) == \E a \in Seq(A), b \in Seq(B) : r = a \o b

(***************************************************************************)
(* Sequences.                                                              *)
(***************************************************************************)
\* A step in front of some others: what is first and what comes after.
LEMMA HeadAndTail ==
  ASSUME NEW S, NEW s \in Seq(S), s # <<>>
  PROVE  s[1] \in S /\ Tail(s) \in Seq(S) /\ 1 \in DOMAIN s /\ Len(s) \in Nat /\ Len(s) >= 1
<1>1. Len(s) \in Nat \ {0} /\ DOMAIN s = 1..Len(s)
  BY EmptySeq, LenProperties
<1>2. s[1] \in S
  BY <1>1, ElementOfSeq
<1> QED
  BY <1>1, <1>2, HeadTailProperties

\* x is what the sequence s has behind position i.
Behind(s, i, x) == Len(x) = Len(s) - i /\ \A j \in 1..(Len(s) - i) : x[j] = s[i + j]

\* What comes after a position of a sequence has the sequence's elements.
LEMMA After ==
  ASSUME NEW S, NEW s \in Seq(S), NEW i \in DOMAIN s
  PROVE  /\ s[i] \in S /\ i \in 1..Len(s)
         /\ SubSeq(s, i + 1, Len(s)) \in Seq(S)
         /\ Behind(s, i, SubSeq(s, i + 1, Len(s)))
<1> DEFINE m == i + 1
           n == Len(s)
           x == SubSeq(s, m, n)
<1>1. n \in Nat /\ DOMAIN s = 1..n /\ i \in 1..n
  BY LenProperties
<1>2. m \in Int /\ n \in Int /\ m <= n + 1
  BY <1>1
<1>3. \A j \in m..n : s[j] \in S
  <2>1. \A j \in m..n : j \in 1..n
    BY <1>1
  <2> QED
    BY <2>1, ElementOfSeq
<1> HIDE DEF m, n
<1>4. /\ x \in Seq(S)
      /\ Len(x) = IF m <= n THEN n - m + 1 ELSE 0
      /\ \A j \in 1..(n - m + 1) : x[j] = s[m + j - 1]
  BY <1>2, <1>3, SubSeqProperties
<1> HIDE DEF x
<1>5. n - m + 1 = n - i /\ \A j \in 1..(n - i) : m + j - 1 = i + j
  BY <1>1 DEF m
<1>6. Len(x) = n - i /\ \A j \in 1..(n - i) : x[j] = s[i + j]
  BY <1>2, <1>4, <1>5
<1>7. s[i] \in S
  BY <1>1, ElementOfSeq DEF n
<1> QED
  BY <1>1, <1>4, <1>6, <1>7 DEF x, m, n, Behind

\* Both parts of a sequence made of two are sequences over the union.
LEMMA Widen ==
  ASSUME NEW A, NEW B, NEW a \in Seq(A), NEW b \in Seq(B)
  PROVE  a \in Seq(A \cup B) /\ b \in Seq(A \cup B) /\ a \o b \in Seq(A \cup B)
<1>1. a \in Seq(A \cup B) /\ b \in Seq(A \cup B)
  BY SeqMonotonic
<1> QED
  BY <1>1, ConcatProperties

\* The tail of two parts whose first has a step is the tail of the first and
\* the second.
LEMMA TailOfTwo ==
  ASSUME NEW A, NEW B, NEW a \in Seq(A), NEW b \in Seq(B), a # <<>>
  PROVE  Tail(a \o b) = Tail(a) \o b /\ (a \o b)[1] = a[1] /\ a \o b # <<>>
<1> DEFINE S == A \cup B
           r == a \o b
<1>1. a \in Seq(S) /\ b \in Seq(S) /\ r \in Seq(S)
  BY Widen
<1>2. Len(a) \in Nat /\ Len(b) \in Nat /\ Len(a) >= 1
  <2>1. Len(a) >= 1
    <3>1. Len(a) \in Nat \ {0}
      BY <1>1, EmptySeq
    <3> QED
      BY <3>1
  <2>2. Len(a) \in Nat /\ Len(b) \in Nat
    BY LenProperties
  <2> QED
    BY <2>1, <2>2
<1>3. /\ Len(r) = Len(a) + Len(b)
      /\ \A i \in 1..(Len(a) + Len(b)) : r[i] = IF i <= Len(a) THEN a[i] ELSE b[i - Len(a)]
  BY <1>1, ConcatProperties
<1>4. r # <<>> /\ r[1] = a[1]
  BY <1>1, <1>2, <1>3, EmptySeq
<1>5. /\ Tail(r) \in Seq(S) /\ Len(Tail(r)) = Len(r) - 1
      /\ \A i \in 1..Len(Tail(r)) : Tail(r)[i] = r[i + 1]
  BY <1>1, <1>4, HeadTailProperties
<1>6. /\ Tail(a) \in Seq(S) /\ Len(Tail(a)) = Len(a) - 1
      /\ \A i \in 1..Len(Tail(a)) : Tail(a)[i] = a[i + 1]
  BY <1>1, HeadTailProperties
<1>7. /\ Tail(a) \o b \in Seq(S)
      /\ Len(Tail(a) \o b) = Len(Tail(a)) + Len(b)
      /\ \A i \in 1..(Len(Tail(a)) + Len(b)) :
           (Tail(a) \o b)[i] = IF i <= Len(Tail(a)) THEN Tail(a)[i] ELSE b[i - Len(Tail(a))]
  BY <1>1, <1>6, ConcatProperties
<1>8. \A i \in 1..Len(Tail(r)) : Tail(r)[i] = (Tail(a) \o b)[i]
  <2> TAKE i \in 1..Len(Tail(r))
  <2>1. Tail(r)[i] = r[i + 1] /\ i + 1 \in 1..(Len(a) + Len(b)) /\ i \in 1..(Len(Tail(a)) + Len(b))
    BY <1>2, <1>3, <1>5, <1>6
  <2>2. CASE i <= Len(Tail(a))
    BY <2>1, <2>2, <1>2, <1>3, <1>6, <1>7
  <2>3. CASE ~(i <= Len(Tail(a)))
    BY <2>1, <2>3, <1>2, <1>3, <1>6, <1>7
  <2> QED
    BY <2>2, <2>3
<1>9. Len(Tail(r)) = Len(Tail(a) \o b)
  BY <1>2, <1>3, <1>5, <1>6, <1>7
<1>10. Tail(r) = Tail(a) \o b
  BY <1>5, <1>7, <1>8, <1>9, SeqEqual
<1> QED
  BY <1>4, <1>10

\* A position of a \o b is in the first part and the second stays whole behind
\* it, or it is in the second.
InFirst(a, b, i) ==
  /\ i \in DOMAIN a /\ (a \o b)[i] = a[i]
  /\ SubSeq(a \o b, i + 1, Len(a \o b)) = SubSeq(a, i + 1, Len(a)) \o b

InSecond(a, b, i) ==
  \E j \in DOMAIN b :
    /\ (a \o b)[i] = b[j]
    /\ SubSeq(a \o b, i + 1, Len(a \o b)) = SubSeq(b, j + 1, Len(b))

\* What comes after a position of two parts: the position is in the first part
\* and the second stays whole, or it is in the second.
LEMMA AfterTwo ==
  ASSUME NEW A, NEW B, NEW a \in Seq(A), NEW b \in Seq(B), NEW i \in DOMAIN (a \o b)
  PROVE  InFirst(a, b, i) \/ InSecond(a, b, i)
<1> DEFINE S == A \cup B
           r == a \o b
           left == SubSeq(r, i + 1, Len(r))
<1>1. a \in Seq(S) /\ b \in Seq(S) /\ r \in Seq(S)
  BY Widen
<1>2. /\ Len(a) \in Nat /\ Len(b) \in Nat
      /\ DOMAIN a = 1..Len(a) /\ DOMAIN b = 1..Len(b) /\ DOMAIN r = 1..Len(r)
  BY <1>1, LenProperties
<1>3. /\ Len(r) = Len(a) + Len(b)
      /\ \A j \in 1..(Len(a) + Len(b)) : r[j] = IF j <= Len(a) THEN a[j] ELSE b[j - Len(a)]
  BY <1>1, ConcatProperties
<1>4. i \in 1..Len(r)
  BY <1>2
<1>5. left \in Seq(S) /\ Len(left) = Len(r) - i /\ \A j \in 1..(Len(r) - i) : left[j] = r[i + j]
  <2>1. i \in DOMAIN r
    OBVIOUS
  <2> HIDE DEF r
  <2>2. left \in Seq(S) /\ Behind(r, i, left)
    BY <1>1, <2>1, After
  <2> QED
    BY <2>2 DEF Behind
<1> HIDE DEF r, left
<1>6. left \in Seq(S)
  BY <1>5
<1>7. Len(left) = Len(r) - i /\ \A j \in 1..Len(left) : left[j] = r[i + j]
  BY <1>5
<1>8. CASE i <= Len(a)
  <2> DEFINE x == SubSeq(a, i + 1, Len(a))
  <2>1. i \in 1..Len(a) /\ i \in DOMAIN a /\ r[i] = a[i]
    BY <1>2, <1>3, <1>4, <1>8
  <2>3. x \in Seq(S) /\ Len(x) = Len(a) - i /\ \A j \in 1..(Len(a) - i) : x[j] = a[i + j]
    <3>1. x \in Seq(S) /\ Behind(a, i, x)
      BY <1>1, <2>1, After
    <3> QED
      BY <3>1 DEF Behind
  <2> HIDE DEF x
  <2>4. Len(x) = Len(a) - i /\ \A j \in 1..Len(x) : x[j] = a[i + j]
    BY <2>3
  <2>5. /\ x \o b \in Seq(S)
        /\ Len(x \o b) = Len(x) + Len(b)
        /\ \A j \in 1..(Len(x) + Len(b)) : (x \o b)[j] = IF j <= Len(x) THEN x[j] ELSE b[j - Len(x)]
    BY <1>1, <2>3, ConcatProperties
  <2>6. Len(left) = Len(x \o b)
    BY <1>2, <1>3, <1>7, <2>1, <2>4, <2>5
  <2>7. \A j \in 1..Len(left) : left[j] = (x \o b)[j]
    <3> TAKE j \in 1..Len(left)
    <3>1. left[j] = r[i + j] /\ i + j \in 1..(Len(a) + Len(b)) /\ j \in 1..(Len(x) + Len(b))
      BY <1>2, <1>3, <1>7, <2>1, <2>4
    <3>2. CASE j <= Len(x)
      BY <3>1, <3>2, <1>2, <1>3, <2>1, <2>4, <2>5
    <3>3. CASE ~(j <= Len(x))
      <4>1. (x \o b)[j] = b[j - Len(x)]
        BY <3>1, <3>3, <2>5
      <4>3. r[i + j] = b[i + j - Len(a)]
        <5>1. ~(i + j <= Len(a))
          BY <3>1, <3>3, <1>2, <2>1, <2>4
        <5> QED
          BY <3>1, <5>1, <1>3
      <4>2. j - Len(x) = i + j - Len(a)
        BY <1>2, <2>1, <2>4
      <4> QED
        BY <3>1, <4>1, <4>2, <4>3
    <3> QED
      BY <3>2, <3>3
  <2>8. left = x \o b
    BY <1>6, <2>5, <2>6, <2>7, SeqEqual
  <2> QED
    BY <2>1, <2>8 DEF r, left, x, InFirst
<1>9. CASE ~(i <= Len(a))
  <2> DEFINE k == i - Len(a)
             x == SubSeq(b, k + 1, Len(b))
  <2>1. k \in 1..Len(b) /\ k \in DOMAIN b /\ r[i] = b[k]
    BY <1>2, <1>3, <1>4, <1>9
  <2> HIDE DEF k
  <2>3. x \in Seq(S) /\ Len(x) = Len(b) - k /\ \A j \in 1..(Len(b) - k) : x[j] = b[k + j]
    <3>1. x \in Seq(S) /\ Behind(b, k, x)
      BY <1>1, <2>1, After
    <3> QED
      BY <3>1 DEF Behind
  <2> HIDE DEF x
  <2>4. Len(x) = Len(b) - k /\ \A j \in 1..Len(x) : x[j] = b[k + j]
    BY <2>3
  <2>5. Len(left) = Len(x)
    BY <1>2, <1>3, <1>4, <1>7, <2>1, <2>4 DEF k
  <2>6. \A j \in 1..Len(left) : left[j] = x[j]
    <3> TAKE j \in 1..Len(left)
    <3>1. left[j] = r[i + j] /\ i + j \in 1..(Len(a) + Len(b)) /\ ~(i + j <= Len(a))
      BY <1>2, <1>3, <1>4, <1>7, <1>9
    <3>2. r[i + j] = b[i + j - Len(a)] /\ x[j] = b[k + j]
      BY <3>1, <1>3, <2>4, <2>5
    <3>3. i + j - Len(a) = k + j
      BY <1>2, <1>4 DEF k
    <3> QED
      BY <3>1, <3>2, <3>3
  <2>7. left = x
    BY <1>6, <2>3, <2>5, <2>6, SeqEqual
  <2> QED
    BY <2>1, <2>7 DEF r, left, x, InSecond
<1> QED
  BY <1>8, <1>9

(***************************************************************************)
(* Running keeps to the steps of the script, and to their phases.          *)
(***************************************************************************)
\* The steps of a script and the markers of its fallible blocks are all that
\* running it brings.
LEMMA MarkedRuns ==
  ASSUME NEW P, Complete(P)
  PROVE  Runs(Marked(P)) /\ P \subseteq Marked(P)
<1>1. P \subseteq Marked(P)
  BY DEF Marked
<1>2. ASSUME NEW t \in Marked(P)
      PROVE  /\ t.op \in Blocks => t.do \in Seq(Marked(P))
             /\ t.op \in {"opt", "either", "else"} => t.or \in Seq(Marked(P))
             /\ t.op = "try" => Marker(t) \in Marked(P)
  <2>1. CASE t \in P
    <3>1. /\ t.op # "else"
          /\ t.op \in Blocks => t.do \in Seq(P)
          /\ t.op \in {"opt", "either", "try"} => t.or \in Seq(P)
      BY <2>1 DEF Complete
    <3>2. t.op \in Blocks => t.do \in Seq(Marked(P))
      BY <1>1, <3>1, SeqMonotonic
    <3>3. t.op \in {"opt", "either"} => t.or \in Seq(Marked(P))
      BY <1>1, <3>1, SeqMonotonic
    <3>4. t.op = "try" => Marker(t) \in Marked(P)
      BY <2>1 DEF Marked
    <3> QED
      BY <3>1, <3>2, <3>3, <3>4
  <2>2. CASE t \notin P
    <3>1. PICK u \in P : u.op = "try" /\ t = Marker(u)
      BY <2>2 DEF Marked
    <3>2. t.op = "else" /\ t.or = u.or
      BY <3>1 DEF Marker
    <3>3. u.or \in Seq(P)
      BY <3>1 DEF Complete
    <3>4. u.or \in Seq(Marked(P))
      BY <1>1, <3>3, SeqMonotonic
    <3> QED
      BY <3>2, <3>4 DEF Blocks
  <2> QED
    BY <2>1, <2>2
<1> QED
  BY <1>1, <1>2 DEF Runs

\* Two such sets of steps make one.
LEMMA RunsTogether ==
  ASSUME NEW P, NEW Q, Runs(P), Runs(Q)
  PROVE  Runs(P \cup Q)
<1>1. ASSUME NEW t \in P \cup Q, NEW S, t \in S, Runs(S), S \subseteq P \cup Q
      PROVE  /\ t.op \in Blocks => t.do \in Seq(P \cup Q)
             /\ t.op \in {"opt", "either", "else"} => t.or \in Seq(P \cup Q)
             /\ t.op = "try" => Marker(t) \in P \cup Q
  <2>1. /\ t.op \in Blocks => t.do \in Seq(S)
        /\ t.op \in {"opt", "either", "else"} => t.or \in Seq(S)
        /\ t.op = "try" => Marker(t) \in S
    BY <1>1 DEF Runs
  <2>2. Seq(S) \subseteq Seq(P \cup Q)
    BY <1>1, SeqMonotonic
  <2> QED
    BY <1>1, <2>1, <2>2
<1>2. ASSUME NEW t \in P \cup Q
      PROVE  /\ t.op \in Blocks => t.do \in Seq(P \cup Q)
             /\ t.op \in {"opt", "either", "else"} => t.or \in Seq(P \cup Q)
             /\ t.op = "try" => Marker(t) \in P \cup Q
  <2>1. CASE t \in P
    BY <2>1, <1>1
  <2>2. CASE t \in Q
    BY <2>2, <1>1
  <2> QED
    BY <2>1, <2>2
<1> QED
  BY <1>2 DEF Runs

\* A handler and the steps behind it are steps of the script.
LEMMA HandlerInside ==
  ASSUME NEW P, Runs(P), NEW r \in Seq(P), NEW q, Handled(r, q)
  PROVE  q \in Seq(P)
<1>1. PICK i \in DOMAIN r : r[i].op = "else" /\ q = r[i].or \o SubSeq(r, i + 1, Len(r))
  BY DEF Handled
<1>2. r[i] \in P /\ SubSeq(r, i + 1, Len(r)) \in Seq(P)
  BY <1>1, After
<1>3. r[i].or \in Seq(P)
  BY <1>1, <1>2 DEF Runs
<1> QED
  BY <1>1, <1>2, <1>3, ConcatProperties

\* A call never has a step left that its script does not have.
LEMMA StaysInside ==
  ASSUME NEW P, Runs(P), NEW r \in Seq(P), r # <<>>, NEW q, Follows(r, q)
  PROVE  q \in Seq(P)
<1>1. r[1] \in P /\ Tail(r) \in Seq(P)
  BY HeadAndTail
<1>2. CASE q = Tail(r)
  BY <1>1, <1>2
<1>3. CASE Handled(r, q)
  BY <1>3, HandlerInside
<1>4. CASE r[1].op \in Blocks /\ q = r[1].do \o Tail(r)
  <2>1. r[1].do \in Seq(P)
    BY <1>1, <1>4 DEF Runs
  <2> QED
    BY <1>1, <1>4, <2>1, ConcatProperties
<1>5. CASE r[1].op \in {"loop", "drain"} /\ q = r[1].do \o r
  <2>1. r[1].do \in Seq(P)
    BY <1>1, <1>5 DEF Runs, Blocks
  <2> QED
    BY <1>5, <2>1, ConcatProperties
<1>6. CASE r[1].op \in {"opt", "either"} /\ q = r[1].or \o Tail(r)
  <2>1. r[1].or \in Seq(P)
    BY <1>1, <1>6 DEF Runs
  <2> QED
    BY <1>1, <1>6, <2>1, ConcatProperties
<1>7. CASE r[1].op = "try" /\ q = r[1].do \o <<Marker(r[1])>> \o Tail(r)
  <2>1. r[1].do \in Seq(P) /\ Marker(r[1]) \in P
    BY <1>1, <1>7 DEF Runs, Blocks
  <2>2. <<Marker(r[1])>> \in Seq(P)
    BY <2>1
  <2>3. r[1].do \o <<Marker(r[1])>> \in Seq(P)
    BY <2>1, <2>2, ConcatProperties
  <2> QED
    BY <1>1, <1>7, <2>3, ConcatProperties
<1> QED
  BY <1>2, <1>3, <1>4, <1>5, <1>6, <1>7 DEF Follows

\* Some steps of A are left, and all of b.
InFrontOf(A, b, q) == \E x \in Seq(A) : q = x \o b

\* While steps of the first part are left, only they change, unless an error
\* is handled by the second.
LEMMA FirstPartRuns ==
  ASSUME NEW A, Runs(A), NEW B, NEW a \in Seq(A), a # <<>>, NEW b \in Seq(B),
         NEW q, Follows(a \o b, q)
  PROVE  InFrontOf(A, b, q) \/ Handled(b, q)
<1> DEFINE r == a \o b
           S == A \cup B
<1>1. a[1] \in A /\ Tail(a) \in Seq(A)
  BY HeadAndTail
<1>2. Tail(r) = Tail(a) \o b /\ r[1] = a[1] /\ r # <<>>
  BY TailOfTwo
<1>3. a \in Seq(S) /\ b \in Seq(S) /\ Seq(A) \subseteq Seq(S)
  <2>1. A \subseteq S /\ B \subseteq S
    OBVIOUS
  <2> QED
    BY <2>1, SeqMonotonic
<1>4. ASSUME NEW x \in Seq(A), NEW y \in Seq(A), q = x \o (y \o b)
      PROVE  InFrontOf(A, b, q)
  <2>1. x \in Seq(S) /\ y \in Seq(S)
    BY <1>3
  <2>2. (x \o y) \o b = x \o (y \o b)
    BY <1>3, <2>1, ConcatAssociative
  <2>3. x \o y \in Seq(A)
    BY ConcatProperties
  <2> QED
    BY <1>4, <2>2, <2>3 DEF InFrontOf
<1> HIDE DEF r, S
<1>5. CASE q = Tail(r)
  BY <1>1, <1>2, <1>5 DEF InFrontOf
<1>6. CASE Handled(r, q)
  <2>1. PICK i \in DOMAIN r : r[i].op = "else" /\ q = r[i].or \o SubSeq(r, i + 1, Len(r))
    BY <1>6 DEF Handled
  <2>2. InFirst(a, b, i) \/ InSecond(a, b, i)
    <3>1. i \in DOMAIN (a \o b)
      BY <2>1 DEF r
    <3> QED
      BY <3>1, AfterTwo
  <2>3. CASE InFirst(a, b, i)
    <3>1. i \in DOMAIN a /\ r[i] = a[i] /\ SubSeq(r, i + 1, Len(r)) = SubSeq(a, i + 1, Len(a)) \o b
      BY <2>3 DEF InFirst, r
    <3>2. a[i] \in A /\ SubSeq(a, i + 1, Len(a)) \in Seq(A)
      BY <3>1, After
    <3>3. a[i].or \in Seq(A)
      BY <2>1, <3>1, <3>2 DEF Runs
    <3> QED
      BY <1>4, <2>1, <3>1, <3>2, <3>3
  <2>4. CASE InSecond(a, b, i)
    <3>1. PICK j \in DOMAIN b : r[i] = b[j] /\ SubSeq(r, i + 1, Len(r)) = SubSeq(b, j + 1, Len(b))
      BY <2>4 DEF InSecond, r
    <3> QED
      BY <2>1, <3>1 DEF Handled
  <2> QED
    BY <2>2, <2>3, <2>4
<1>7. CASE r[1].op \in Blocks /\ q = r[1].do \o Tail(r)
  <2>1. r[1].do \in Seq(A)
    BY <1>1, <1>2, <1>7 DEF Runs
  <2> QED
    BY <1>1, <1>2, <1>4, <1>7, <2>1
<1>8. CASE r[1].op \in {"loop", "drain"} /\ q = r[1].do \o r
  <2>1. r[1].do \in Seq(A)
    BY <1>1, <1>2, <1>8 DEF Runs, Blocks
  <2>2. q = r[1].do \o (a \o b)
    BY <1>8 DEF r
  <2> QED
    BY <1>4, <2>1, <2>2
<1>9. CASE r[1].op \in {"opt", "either"} /\ q = r[1].or \o Tail(r)
  <2>1. r[1].or \in Seq(A)
    BY <1>1, <1>2, <1>9 DEF Runs
  <2> QED
    BY <1>1, <1>2, <1>4, <1>9, <2>1
<1>10. CASE r[1].op = "try" /\ q = r[1].do \o <<Marker(r[1])>> \o Tail(r)
  <2>1. r[1].do \in Seq(A) /\ Marker(r[1]) \in A
    BY <1>1, <1>2, <1>10 DEF Runs, Blocks
  <2>2. <<Marker(r[1])>> \in Seq(A)
    BY <2>1
  <2>3. r[1].do \o <<Marker(r[1])>> \in Seq(A)
    BY <2>1, <2>2, ConcatProperties
  <2> QED
    BY <1>1, <1>2, <1>4, <1>10, <2>3
<1> QED
  BY <1>5, <1>6, <1>7, <1>8, <1>9, <1>10 DEF Follows, r

\* A call that has begun its second phase stays in it, and one in its first
\* goes on to the second.
LEMMA StaysPhased ==
  ASSUME NEW A, NEW B, Runs(A), Runs(B), NEW r, r # <<>>, Phased(A, B, r),
         NEW q, Follows(r, q)
  PROVE  Phased(A, B, q)
<1>1. PICK a \in Seq(A), b \in Seq(B) : r = a \o b
  BY DEF Phased
<1>2. ASSUME q \in Seq(B) PROVE Phased(A, B, q)
  <2>1. <<>> \in Seq(A) /\ <<>> \o q = q
    BY <1>2, ConcatEmptySeq, EmptySeq
  <2> QED
    BY <1>2, <2>1 DEF Phased
<1>3. CASE a = <<>>
  <2>1. r = b
    BY <1>1, <1>3, ConcatEmptySeq
  <2>2. q \in Seq(B)
    BY <1>1, <2>1, StaysInside
  <2> QED
    BY <1>2, <2>2
<1>4. CASE a # <<>>
  <2>1. InFrontOf(A, b, q) \/ Handled(b, q)
    <3>1. Follows(a \o b, q)
      BY <1>1
    <3> QED
      BY <1>1, <1>4, <3>1, FirstPartRuns
  <2>2. CASE Handled(b, q)
    BY <1>1, <1>2, <2>2, HandlerInside
  <2>3. CASE InFrontOf(A, b, q)
    BY <1>1, <2>3 DEF InFrontOf, Phased
  <2> QED
    BY <2>1, <2>2, <2>3
<1> QED
  BY <1>3, <1>4

\* A step the first phase does not have belongs to the second.
LEMMA SecondPhase ==
  ASSUME NEW A, NEW B, NEW r, r # <<>>, Phased(A, B, r), r[1] \notin A
  PROVE  r \in Seq(B)
<1>1. PICK a \in Seq(A), b \in Seq(B) : r = a \o b
  BY DEF Phased
<1>2. CASE a = <<>>
  BY <1>1, <1>2, ConcatEmptySeq
<1>3. CASE a # <<>>
  <2>1. r[1] = a[1] /\ a[1] \in A
    BY <1>1, <1>3, TailOfTwo, HeadAndTail
  <2> QED
    BY <2>1
<1> QED
  BY <1>2, <1>3

\* A script in two phases begins phased.
LEMMA BeginsPhased ==
  ASSUME NEW s, NEW S, s \in Seq(S), NEW first, NEW second, InPhases(s, first, second),
         "else" \notin first \cup second
  PROVE  \E A, B : /\ Runs(A) /\ \A t \in A : t.op \notin first
                   /\ Runs(B) /\ \A t \in B : t.op \notin second
                   /\ Phased(A, B, s)
<1>1. PICK k \in 0..Len(s) :
        Avoids(SubSeq(s, 1, k), first) /\ Avoids(SubSeq(s, k + 1, Len(s)), second)
  BY DEF InPhases
<1> DEFINE a == SubSeq(s, 1, k)
           b == SubSeq(s, k + 1, Len(s))
           P == AllSteps(a)
           Q == AllSteps(b)
<1>2. a \in Seq(P) /\ Complete(P) /\ \A t \in P : t.op \notin first
  BY <1>1 DEF Avoids
<1>3. b \in Seq(Q) /\ Complete(Q) /\ \A t \in Q : t.op \notin second
  BY <1>1 DEF Avoids
<1>4. a \o b = s
  <2>1. Len(s) \in Nat
    BY LenProperties
  <2>2. 1 \in 1..(Len(s) + 1) /\ k \in (1 - 1)..Len(s) /\ Len(s) \in k..Len(s)
    BY <2>1
  <2>3. SubSeq(s, 1, k) \o SubSeq(s, k + 1, Len(s)) = SubSeq(s, 1, Len(s))
    BY <2>2, ConcatAdjacentSubSeq
  <2> QED
    BY <2>3, SubSeqFull
<1> HIDE DEF a, b, P, Q
<1>5. ASSUME NEW X, NEW ops, "else" \notin ops, \A t \in X : t.op \notin ops
      PROVE  \A t \in Marked(X) : t.op \notin ops
  BY <1>5 DEF Marked, Marker
<1>6. /\ Runs(Marked(P)) /\ P \subseteq Marked(P)
      /\ Runs(Marked(Q)) /\ Q \subseteq Marked(Q)
  BY <1>2, <1>3, MarkedRuns
<1>7. a \in Seq(Marked(P)) /\ b \in Seq(Marked(Q))
  BY <1>2, <1>3, <1>6, SeqMonotonic
<1>8. Phased(Marked(P), Marked(Q), s)
  BY <1>4, <1>7 DEF Phased
<1>9. (\A t \in Marked(P) : t.op \notin first) /\ (\A t \in Marked(Q) : t.op \notin second)
  BY <1>2, <1>3, <1>5
<1> QED
  BY <1>6, <1>8, <1>9

(***************************************************************************)
(* What a step does to the call and to the handles.                        *)
(***************************************************************************)
\* A call begins with its script and an empty frame.
Begins ==
  /\ result # "none" /\ result' = "none"
  /\ client' = client /\ fn' \in Methods[client] /\ rest' = fn'
  /\ taken' = {} /\ kept' = {} /\ freed' = {} /\ given' = {}

\* A call ends.
Ends ==
  /\ result = "none"
  /\ \/ rest = <<>> /\ Leave("ok")
     \/ rest # <<>> /\ Step.op \in Refusing /\ Leave("refused")
     \/ rest # <<>> /\ Step.op \in Failing /\ Leave("error")

\* What the step does to the handles.
Handles ==
  \/ UNCHANGED frame
  \/ /\ Step.op = "take" /\ taken' = taken \cup {Step.arg}
     /\ UNCHANGED <<kept, freed, given>>
  \/ /\ Step.op = "free" /\ freed' = freed \cup {Step.arg}
     /\ UNCHANGED <<taken, kept, given>>
  \/ /\ Step.op = "give" /\ given' = given \cup {Step.arg}
     /\ kept' = kept \cup taken /\ taken' = {} /\ UNCHANGED freed
  \/ /\ Step.op = "put" /\ given' = given \cup {Step.arg}
     /\ UNCHANGED <<taken, kept, freed>>

\* A call goes on.
GoesAhead ==
  /\ result = "none" /\ rest # <<>>
  /\ Follows(rest, rest')
  /\ UNCHANGED <<client, fn, null, result>>
  /\ Handles

\* Only the connection changes, or nothing.
Idles == UNCHANGED <<client, fn, rest, null, result>> /\ UNCHANGED frame

\* A step that continues, one that jumps to a handler and one that fails.
LEMMA HowSteps ==
  ASSUME NEW op, Running(op)
  PROVE  /\ Continue /\ Handles => GoesAhead
         /\ \A i \in Guards : To(i) => GoesAhead
         /\ FailsHere /\ op \in Failing => Ends \/ GoesAhead
<1>1. result = "none" /\ rest # <<>> /\ Step.op = op
  BY DEF Running
<1>2. Continue /\ Handles => GoesAhead
  BY <1>1 DEF Continue, GoesAhead, Follows
<1>3. ASSUME NEW i \in Guards, To(i) PROVE GoesAhead
  <2>1. i \in DOMAIN rest /\ rest[i].op = "else"
    BY <1>3 DEF Guards
  <2>2. rest' = rest[i].or \o SubSeq(rest, i + 1, Len(rest))
    BY <1>3 DEF To
  <2>3. Handled(rest, rest')
    BY <2>1, <2>2 DEF Handled
  <2>4. UNCHANGED <<client, fn, null, result>> /\ UNCHANGED frame
    BY <1>3 DEF To
  <2> QED
    BY <1>1, <2>3, <2>4 DEF GoesAhead, Follows, Handles
<1>4. ASSUME FailsHere, op \in Failing PROVE Ends \/ GoesAhead
  <2>1. CASE Handlers = {} /\ Leave("error")
    BY <1>1, <1>4, <2>1 DEF Ends
  <2>2. CASE \E i \in Handlers : (\A j \in Handlers : i <= j) /\ To(i)
    BY <1>3, <2>2 DEF Handlers
  <2> QED
    BY <1>4, <2>1, <2>2 DEF FailsHere
<1> QED
  BY <1>2, <1>3, <1>4

\* The steps the conditional and the fallible blocks go on with.
LEMMA BlocksGoAhead == Branch => GoesAhead
<1> SUFFICES ASSUME Branch PROVE GoesAhead
  OBVIOUS
<1>1. result = "none" /\ rest # <<>>
  BY DEF Branch, Running
<1>2. UNCHANGED <<client, fn, null, result>> /\ UNCHANGED frame
  BY DEF Branch, RunsOn
<1>3. Follows(rest, rest')
  <2>1. CASE /\ Running("opt")
             /\ RunsOn((IF Step.arg \in null THEN Step.or ELSE Step.do) \o Tail(rest))
    <3>1. rest' = Step.or \o Tail(rest) \/ rest' = Step.do \o Tail(rest)
      BY <2>1 DEF RunsOn
    <3> QED
      BY <2>1, <3>1 DEF Running, Follows, Step, Blocks
  <2>2. CASE /\ Running("either")
             /\ RunsOn(Step.do \o Tail(rest)) \/ RunsOn(Step.or \o Tail(rest))
    BY <2>2 DEF Running, Follows, Step, Blocks, RunsOn
  <2>3. CASE /\ Running("loop")
             /\ RunsOn(Step.do \o rest) \/ RunsOn(Tail(rest))
    BY <2>3 DEF Running, Follows, Step, Blocks, RunsOn
  <2>4. CASE /\ Running("try")
             /\ RunsOn(Step.do \o <<[op |-> "else", or |-> Step.or, by |-> Step.by]>> \o Tail(rest))
    BY <2>4 DEF Running, Follows, Step, Marker, RunsOn
  <2> QED
    BY <2>1, <2>2, <2>3, <2>4 DEF Branch
<1> QED
  BY <1>1, <1>2, <1>3 DEF GoesAhead, Handles

\* Every step of the specification is one of the four.
LEMMA EveryStep == [Next]_vars => Begins \/ Ends \/ GoesAhead \/ Idles
<1> USE DEF frame, conn
<1>1. Call => Begins
  BY DEF Call, Begins
<1>2. Reopen => Idles
  BY DEF Reopen, Idles
<1>3. Return => Ends
  BY DEF Return, Ends
<1>4. ASSUME NEW op \in Refusing, Refuse(op) PROVE Ends
  BY <1>4 DEF Refuse, Running, Ends
<1>5. ArgumentNull => Ends
  BY <1>4 DEF ArgumentNull, Refusing
<1>6. ArgumentBad => Ends
  BY <1>4 DEF ArgumentBad, Refusing
<1>7. ArgumentsGiven => GoesAhead
  BY HowSteps DEF ArgumentsGiven, Handles
<1>8. ArgumentGood => GoesAhead
  BY HowSteps DEF ArgumentGood, Handles
<1>9. TakeHandle => GoesAhead
  BY HowSteps DEF TakeHandle, Handles, Running
<1>10. FreeHandle => GoesAhead
  BY HowSteps DEF FreeHandle, Handles, Running
<1>11. GiveOut => GoesAhead
  BY HowSteps DEF GiveOut, Handles, Running
<1>12. PutOut => GoesAhead
  BY HowSteps DEF PutOut, Handles, Running
<1>13. ConnectionFails => Ends \/ GoesAhead
  BY HowSteps DEF ConnectionFails, Reading, Failing
<1>14. OpenConnection => GoesAhead
  BY HowSteps DEF OpenConnection, Handles
<1>15. SendRequest => GoesAhead
  BY HowSteps DEF SendRequest, Sends, Handles
<1>16. ReadReply => GoesAhead
  BY HowSteps DEF ReadReply, Handles
<1>17. ReadRefusal => Ends \/ GoesAhead
  BY HowSteps DEF ReadRefusal, Failing
<1>18. ReadEvent => GoesAhead
  BY HowSteps DEF ReadEvent, Handles
<1>19. ReadPart => GoesAhead
  <2> SUFFICES ASSUME ReadPart PROVE GoesAhead
    OBVIOUS
  <2>1. Running("drain") /\ UNCHANGED <<client, fn, null, result, frame>>
    BY DEF ReadPart
  <2>2. rest' = Step.do \o Tail(rest) \/ rest' = Step.do \o rest
    BY DEF ReadPart
  <2>3. Follows(rest, rest')
    BY <2>1, <2>2 DEF Running, Follows, Step, Blocks
  <2> QED
    BY <2>1, <2>3 DEF Running, GoesAhead, Handles
<1>20. DropConnection => GoesAhead
  BY HowSteps DEF DropConnection, Handles
<1>21. DeadlinePasses => GoesAhead
  <2> SUFFICES ASSUME DeadlinePasses PROVE GoesAhead
    OBVIOUS
  <2>1. PICK op \in Failing : Running(op)
    BY DEF DeadlinePasses, Reading, Failing
  <2>2. PICK i \in Timed : To(i)
    BY DEF DeadlinePasses
  <2>3. i \in Guards
    BY DEF Timed
  <2> QED
    BY <2>1, <2>2, <2>3, HowSteps
<1>22. GoesOn => GoesAhead
  BY HowSteps DEF GoesOn, Handles
<1>23. Errs => Ends \/ GoesAhead
  BY HowSteps DEF Errs, Failing
<1>24. UNCHANGED vars => Idles
  BY DEF vars, Idles
<1> QED
  BY <1>1, <1>2, <1>3, <1>5, <1>6, <1>7, <1>8, <1>9, <1>10, <1>11, <1>12, <1>13, <1>14,
     <1>15, <1>16, <1>17, <1>18, <1>19, <1>20, <1>21, <1>22, <1>23, <1>24, BlocksGoAhead
     DEF Next

(***************************************************************************)
(* The calls begin in order.                                               *)
(***************************************************************************)
\* The call under way is one of the client's.
MakesCalls == client \in DOMAIN Methods /\ (result = "none" => fn \in Methods[client])

\* Every call under way is one of the client's methods.
LEMMA CallsAreMethods == Spec => []MakesCalls
<1>1. Init => MakesCalls
  BY DEF Init, MakesCalls
<1>2. MakesCalls /\ [Next]_vars => MakesCalls'
  <2> SUFFICES ASSUME MakesCalls, [Next]_vars PROVE MakesCalls'
    OBVIOUS
  <2>1. Begins \/ Ends \/ GoesAhead \/ Idles
    BY EveryStep
  <2>2. CASE Begins
    BY <2>2 DEF Begins, MakesCalls
  <2>3. CASE Ends
    BY <2>3 DEF Ends, Leave, MakesCalls
  <2>4. CASE GoesAhead
    BY <2>4 DEF GoesAhead, MakesCalls
  <2>5. CASE Idles
    BY <2>5 DEF Idles, MakesCalls
  <2> QED
    BY <2>1, <2>2, <2>3, <2>4, <2>5
<1> QED
  BY <1>1, <1>2, PTL DEF Spec

\* Clients whose methods are in order only ever begin calls in order.
LEMMA CallsBeginInOrder ==
  ASSUME MethodsInOrder
  PROVE  Spec => []CallsInOrder
<1>1. MakesCalls => CallsInOrder
  BY DEF MakesCalls, CallsInOrder, MethodsInOrder
<1> QED
  BY <1>1, CallsAreMethods, PTL

(***************************************************************************)
(* A refused call takes nothing.                                           *)
(***************************************************************************)
\* While a call runs, its remaining steps split in a part A that touches no
\* handle and a part B that tests no argument, and no handle is touched as
\* long as steps of A may be left.
Untouched(A, B) ==
  /\ Runs(A) /\ \A t \in A : t.op \notin {"take", "free"}
  /\ Runs(B) /\ \A t \in B : t.op \notin Refusing
  /\ Phased(A, B, rest)
  /\ rest \in Seq(B) \/ (taken = {} /\ kept = {} /\ freed = {})

TestsGoFirst ==
  /\ result = "none" /\ fn \notin TakesBeforeTesting => \E A, B : Untouched(A, B)
  /\ RefusalTakesNothing

\* Every step keeps the tests in front of the handles.
LEMMA TestsGoFirstStays ==
  ASSUME MethodsInOrder, MakesCalls, TestsGoFirst, [Next]_vars
  PROVE  TestsGoFirst'
<1>1. CASE Begins
  <2>1. fn' \in Methods[client] /\ client \in DOMAIN Methods
    BY <1>1 DEF Begins, MakesCalls
  <2>2. InOrder(fn')
    BY <2>1 DEF MethodsInOrder
  <2>3. ASSUME fn' \notin TakesBeforeTesting PROVE \E A, B : Untouched(A, B)'
    <3>1. InPhases(fn', {"take", "free"}, Refusing) /\ fn' \in Seq(AllSteps(fn'))
      BY <2>2, <2>3 DEF InOrder, TestsFirst, Avoids
    <3>2. "else" \notin {"take", "free"} \cup Refusing
      BY DEF Refusing
    <3>3. \E A, B : /\ Runs(A) /\ \A t \in A : t.op \notin {"take", "free"}
                    /\ Runs(B) /\ \A t \in B : t.op \notin Refusing
                    /\ Phased(A, B, fn')
      BY <3>1, <3>2, BeginsPhased
    <3> QED
      BY <1>1, <3>3 DEF Begins, Untouched
  <2>4. (fn \notin TakesBeforeTesting => \E A, B : Untouched(A, B))'
    BY <2>3
  <2>5. RefusalTakesNothing'
    BY <1>1 DEF Begins, RefusalTakesNothing
  <2> QED
    BY <2>4, <2>5 DEF TestsGoFirst
<1>2. CASE Ends
  <2>1. result = "none" /\ result' # "none" /\ fn' = fn /\ kept' = kept /\ freed' = freed \cup taken
    BY <1>2 DEF Ends, Leave
  <2>2. ASSUME result' = "refused", fn \notin TakesBeforeTesting
        PROVE  freed' = {} /\ kept' = {}
    <3>1. rest # <<>> /\ Step.op \in Refusing
      BY <1>2, <2>2 DEF Ends, Leave
    <3>2. PICK A, B : Untouched(A, B)
      BY <2>1, <2>2 DEF TestsGoFirst
    <3>3. rest \notin Seq(B)
      BY <3>1, <3>2, HeadAndTail DEF Untouched, Step
    <3> QED
      BY <2>1, <3>2, <3>3 DEF Untouched
  <2> QED
    BY <2>1, <2>2 DEF TestsGoFirst, RefusalTakesNothing
<1>3. CASE GoesAhead
  <2>1. result = "none" /\ result' = "none" /\ fn' = fn /\ rest # <<>> /\ Follows(rest, rest')
    BY <1>3 DEF GoesAhead
  <2>2. ASSUME NEW A, NEW B, Untouched(A, B) PROVE Untouched(A, B)'
    <3>1. Phased(A, B, rest')
      BY <2>1, <2>2, StaysPhased DEF Untouched
    <3>2. CASE rest \in Seq(B)
      <4>1. rest' \in Seq(B)
        BY <2>1, <2>2, <3>2, StaysInside DEF Untouched
      <4> QED
        BY <2>2, <3>1, <4>1 DEF Untouched
    <3>3. CASE rest \notin Seq(B)
      <4>1. Step \in A
        BY <2>1, <2>2, <3>3, SecondPhase DEF Untouched, Step
      <4>2. Step.op \notin {"take", "free"}
        BY <2>2, <4>1 DEF Untouched
      <4>3. taken' = {} /\ kept' = {} /\ freed' = {}
        BY <1>3, <2>2, <3>3, <4>2 DEF GoesAhead, Handles, frame, Untouched
      <4> QED
        BY <2>2, <3>1, <4>3 DEF Untouched
    <3> QED
      BY <3>2, <3>3
  <2>3. (result = "none" /\ fn \notin TakesBeforeTesting => \E A, B : Untouched(A, B))'
    BY <2>1, <2>2 DEF TestsGoFirst
  <2> QED
    BY <2>1, <2>3 DEF TestsGoFirst, RefusalTakesNothing
<1>4. CASE Idles
  BY <1>4 DEF Idles, frame, TestsGoFirst, Untouched, RefusalTakesNothing
<1> QED
  BY <1>1, <1>2, <1>3, <1>4, EveryStep

\* Whatever the clients and their methods: a call that is refused for its
\* arguments has taken no handle, if the methods keep the order of the C
\* functions (NotNull, then Box::from_raw).
THEOREM RefusalsTakeNothing ==
  ASSUME MethodsInOrder
  PROVE  Spec => []RefusalTakesNothing
<1>1. Init => TestsGoFirst
  BY DEF Init, TestsGoFirst, RefusalTakesNothing
<1>2. MakesCalls /\ TestsGoFirst /\ [Next]_vars => TestsGoFirst'
  BY TestsGoFirstStays
<1>3. TestsGoFirst => RefusalTakesNothing
  BY DEF TestsGoFirst
<1> QED
  BY <1>1, <1>2, <1>3, CallsAreMethods, PTL DEF Spec

(***************************************************************************)
(* A failed call hands out nothing.                                        *)
(***************************************************************************)
\* The last step chooses between two scripts in phases.
LastChooses(A, B, r) ==
  \E a \in Seq(A), t \in {r[Len(r)]} :
    /\ r = a \o <<t>> /\ t.op \in {"opt", "either"}
    /\ Phased(A, B, t.do) /\ Phased(A, B, t.or)

\* While a call runs, its remaining steps split in a part A that hands out
\* nothing and a part B that cannot fail, as a whole or in each branch of their
\* last step, and nothing is handed out as long as steps of A may be left.
Ungiven(A, B) ==
  /\ Runs(A) /\ \A t \in A : t.op \notin {"give", "put"}
  /\ Runs(B) /\ \A t \in B : t.op \notin Failing
  /\ \/ Phased(A, B, rest) /\ (rest \in Seq(B) \/ given = {})
     \/ LastChooses(A, B, rest) /\ given = {}

GivesComeLast ==
  /\ result = "none" => \E A, B : Ungiven(A, B)
  /\ FailureGivesNothing

\* Phases may be widened.
LEMMA PhasedWiden ==
  ASSUME NEW A, NEW B, NEW P, NEW Q, A \subseteq P, B \subseteq Q, NEW r, Phased(A, B, r)
  PROVE  Phased(P, Q, r)
<1>1. PICK a \in Seq(A), b \in Seq(B) : r = a \o b
  BY DEF Phased
<1>2. a \in Seq(P) /\ b \in Seq(Q)
  BY <1>1, SeqMonotonic
<1> QED
  BY <1>1, <1>2 DEF Phased

\* A sequence is what comes before its last element, and that element.
LEMMA BeforeLast ==
  ASSUME NEW S, NEW s \in Seq(S), s # <<>>
  PROVE  s = SubSeq(s, 1, Len(s) - 1) \o <<s[Len(s)]>> /\ s[Len(s)] \in S
<1>1. Len(s) \in Nat \ {0}
  BY EmptySeq
<1>2. 1 \in 1..Len(s) /\ Len(s) \in 1..Len(s)
  BY <1>1
<1>3. SubSeq(s, 1, Len(s)) = SubSeq(s, 1, Len(s) - 1) \o <<s[Len(s)]>>
  BY <1>2, SubSeqRecursiveSecond
<1> QED
  BY <1>2, <1>3, SubSeqFull, ElementOfSeq

\* A script that hands out last begins that way.
LEMMA BeginsUngiven ==
  ASSUME NEW s, InOrder(s)
  PROVE  \E A, B : /\ Runs(A) /\ \A t \in A : t.op \notin {"give", "put"}
                   /\ Runs(B) /\ \A t \in B : t.op \notin Failing
                   /\ Phased(A, B, s) \/ LastChooses(A, B, s)
<1> DEFINE S == AllSteps(s)
           Splits(r, A, B) == /\ Runs(A) /\ \A t \in A : t.op \notin {"give", "put"}
                              /\ Runs(B) /\ \A t \in B : t.op \notin Failing
                              /\ Phased(A, B, r)
<1>1. s \in Seq(S) /\ Complete(S) /\ GivesLast(s)
  BY DEF InOrder, Avoids
<1> HIDE DEF S
<1>2. "else" \notin {"give", "put"} \cup Failing
  BY DEF Failing, Refusing
<1>3. ASSUME NEW r \in Seq(S), InPhases(r, {"give", "put"}, Failing)
      PROVE  \E A, B : Splits(r, A, B)
  BY <1>2, <1>3, BeginsPhased
<1>4. CASE InPhases(s, {"give", "put"}, Failing)
  BY <1>1, <1>3, <1>4
<1>5. CASE /\ s # <<>> /\ s[Len(s)].op \in {"opt", "either"}
           /\ Avoids(SubSeq(s, 1, Len(s) - 1), {"give", "put"})
           /\ InPhases(s[Len(s)].do, {"give", "put"}, Failing)
           /\ InPhases(s[Len(s)].or, {"give", "put"}, Failing)
  <2> DEFINE t == s[Len(s)]
             a == SubSeq(s, 1, Len(s) - 1)
             P == AllSteps(a)
             M == Marked(P)
  <2>1. s = a \o <<t>> /\ t \in S
    BY <1>1, <1>5, BeforeLast
  <2>2. a \in Seq(P) /\ Complete(P) /\ \A u \in P : u.op \notin {"give", "put"}
    BY <1>5 DEF Avoids
  <2> HIDE DEF a, P
  <2>3. Runs(M) /\ P \subseteq M
    BY <2>2, MarkedRuns
  <2>4. \A u \in M : u.op \notin {"give", "put"}
    BY <2>2 DEF Marked, Marker
  <2>5. t.do \in Seq(S) /\ t.or \in Seq(S)
    BY <1>1, <1>5, <2>1 DEF Complete, Blocks
  <2>6. PICK A1, B1 : Splits(t.do, A1, B1)
    BY <1>3, <1>5, <2>5
  <2>7. PICK A2, B2 : Splits(t.or, A2, B2)
    BY <1>3, <1>5, <2>5
  <2> DEFINE A == M \cup (A1 \cup A2)
             B == B1 \cup B2
  <2>8. Runs(A) /\ Runs(B)
    BY <2>3, <2>6, <2>7, RunsTogether
  <2>9. (\A u \in A : u.op \notin {"give", "put"}) /\ (\A u \in B : u.op \notin Failing)
    BY <2>4, <2>6, <2>7
  <2>10. Phased(A, B, t.do) /\ Phased(A, B, t.or)
    <3>1. A1 \subseteq A /\ A2 \subseteq A /\ B1 \subseteq B /\ B2 \subseteq B
      OBVIOUS
    <3> QED
      BY <2>6, <2>7, <3>1, PhasedWiden
  <2>11. a \in Seq(A)
    BY <2>2, <2>3, SeqMonotonic
  <2> HIDE DEF A, B
  <2>12. LastChooses(A, B, s)
    BY <1>5, <2>1, <2>10, <2>11 DEF LastChooses
  <2> QED
    BY <2>8, <2>9, <2>12
<1> QED
  BY <1>1, <1>4, <1>5 DEF GivesLast

\* The last step is one of the first part, or the choice itself, which leaves
\* one of the two scripts.
LEMMA StaysUngiven ==
  ASSUME NEW A, NEW B, Runs(A), Runs(B), NEW r, LastChooses(A, B, r), NEW q, Follows(r, q)
  PROVE  /\ r # <<>>
         /\ r[1] \in A \/ r[1].op \in {"opt", "either"}
         /\ Phased(A, B, q) \/ LastChooses(A, B, q)
<1>1. PICK a \in Seq(A), t \in {r[Len(r)]} :
        /\ r = a \o <<t>> /\ t.op \in {"opt", "either"}
        /\ Phased(A, B, t.do) /\ Phased(A, B, t.or)
  BY DEF LastChooses
<1> HIDE DEF LastChooses
<1>2. <<t>> \in Seq({t}) /\ Len(<<t>>) = 1 /\ <<t>>[1] = t /\ DOMAIN <<t>> = {1}
  OBVIOUS
<1>3. ~Handled(<<t>>, q)
  BY <1>1, <1>2 DEF Handled
<1>4. CASE a # <<>>
  <2>1. r # <<>> /\ r[1] \in A
    <3>1. (a \o <<t>>)[1] = a[1] /\ a \o <<t>> # <<>>
      BY <1>2, <1>4, TailOfTwo
    <3>2. a[1] \in A
      BY <1>4, HeadAndTail
    <3> QED
      BY <1>1, <3>1, <3>2
  <2>2. InFrontOf(A, <<t>>, q)
    <3>1. Follows(a \o <<t>>, q)
      BY <1>1
    <3> QED
      BY <1>2, <1>3, <1>4, <3>1, FirstPartRuns
  <2>3. PICK x \in Seq(A) : q = x \o <<t>>
    BY <2>2 DEF InFrontOf
  <2>4. q[Len(q)] = t
    <3> DEFINE S == A \cup {t}
    <3>1. x \in Seq(S) /\ <<t>> \in Seq(S)
      BY <1>2, Widen
    <3>2. Len(x) \in Nat
      BY LenProperties
    <3>3. /\ Len(x \o <<t>>) = Len(x) + 1
          /\ \A i \in 1..(Len(x) + 1) :
               (x \o <<t>>)[i] = IF i <= Len(x) THEN x[i] ELSE <<t>>[i - Len(x)]
      <4> HIDE DEF S
      <4> QED
        BY <1>2, <3>1, ConcatProperties
    <3>4. (x \o <<t>>)[Len(x) + 1] = <<t>>[1]
      BY <3>2, <3>3
    <3> QED
      BY <1>2, <2>3, <3>3, <3>4
  <2>5. LastChooses(A, B, q)
    BY <1>1, <2>3, <2>4 DEF LastChooses
  <2> QED
    BY <2>1, <2>5
<1>5. CASE a = <<>>
  <2>1. r = <<t>>
    BY <1>1, <1>2, <1>5, ConcatEmptySeq
  <2>2. r # <<>> /\ r[1] = t /\ Tail(r) = <<>>
    BY <2>1
  <2>3. Phased(A, B, <<>>)
    <3>1. <<>> \in Seq(A) /\ <<>> \in Seq(B) /\ <<>> \o <<>> = <<>>
      BY EmptySeq, ConcatEmptySeq
    <3> QED
      BY <3>1 DEF Phased
  <2>4. t.do \o <<>> = t.do /\ t.or \o <<>> = t.or
    <3>1. ASSUME NEW p, Phased(A, B, p) PROVE p \o <<>> = p
      <4>1. PICK y \in Seq(A), z \in Seq(B) : p = y \o z
        BY <3>1 DEF Phased
      <4>2. p \in Seq(A \cup B)
        BY <4>1, Widen
      <4> QED
        BY <4>2, ConcatEmptySeq
    <3> QED
      BY <1>1, <3>1
  <2>5. q = <<>> \/ q = t.do \/ q = t.or
    <3>1. t.op \notin {"loop", "drain", "try"}
      BY <1>1
    <3>2. ~Handled(r, q)
      BY <1>3, <2>1
    <3> QED
      BY <2>2, <2>4, <3>1, <3>2 DEF Follows
  <2> QED
    BY <1>1, <2>2, <2>3, <2>5
<1> QED
  BY <1>4, <1>5

\* Every step keeps what is handed out behind what can fail.
LEMMA GivesComeLastStays ==
  ASSUME MethodsInOrder, MakesCalls, GivesComeLast, [Next]_vars
  PROVE  GivesComeLast'
<1>1. CASE Begins
  <2>1. fn' \in Methods[client] /\ client \in DOMAIN Methods
    BY <1>1 DEF Begins, MakesCalls
  <2>2. InOrder(fn')
    BY <2>1 DEF MethodsInOrder
  <2>3. \E A, B : /\ Runs(A) /\ \A t \in A : t.op \notin {"give", "put"}
                  /\ Runs(B) /\ \A t \in B : t.op \notin Failing
                  /\ Phased(A, B, fn') \/ LastChooses(A, B, fn')
    BY <2>2, BeginsUngiven
  <2>4. \E A, B : Ungiven(A, B)'
    BY <1>1, <2>3 DEF Begins, Ungiven
  <2>5. FailureGivesNothing'
    BY <1>1 DEF Begins, FailureGivesNothing, Failed
  <2> QED
    BY <2>4, <2>5 DEF GivesComeLast
<1>2. CASE Ends
  <2>1. result = "none" /\ result' # "none" /\ given' = given
    BY <1>2 DEF Ends, Leave
  <2>2. ASSUME Failed' PROVE given = {}
    <3>1. rest # <<>> /\ Step.op \in Failing
      BY <1>2, <2>2 DEF Ends, Leave, Failed, Failing
    <3>2. PICK A, B : Ungiven(A, B)
      BY <2>1 DEF GivesComeLast
    <3>3. rest \notin Seq(B)
      BY <3>1, <3>2, HeadAndTail DEF Ungiven, Step
    <3> QED
      BY <3>2, <3>3 DEF Ungiven
  <2> QED
    BY <2>1, <2>2 DEF GivesComeLast, FailureGivesNothing
<1>3. CASE GoesAhead
  <2>1. result = "none" /\ result' = "none" /\ rest # <<>> /\ Follows(rest, rest')
    BY <1>3 DEF GoesAhead
  <2>2. ASSUME NEW A, NEW B, Ungiven(A, B) PROVE Ungiven(A, B)'
    <3>1. Runs(A) /\ Runs(B)
      BY <2>2 DEF Ungiven
    <3>2. CASE rest \in Seq(B) /\ Phased(A, B, rest)
      <4>1. rest' \in Seq(B) /\ Phased(A, B, rest')
        BY <2>1, <3>1, <3>2, StaysInside, StaysPhased
      <4> QED
        BY <2>2, <4>1 DEF Ungiven
    <3>3. CASE given = {} /\ rest \notin Seq(B) /\ Phased(A, B, rest)
      <4>1. Phased(A, B, rest')
        BY <2>1, <3>1, <3>3, StaysPhased
      <4>2. Step \in A
        BY <2>1, <3>3, SecondPhase DEF Step
      <4>3. Step.op \notin {"give", "put"}
        BY <2>2, <4>2 DEF Ungiven
      <4>4. given' = {}
        BY <1>3, <3>3, <4>3 DEF GoesAhead, Handles, frame
      <4> QED
        BY <2>2, <4>1, <4>4 DEF Ungiven
    <3>4. CASE given = {} /\ LastChooses(A, B, rest)
      <4>1. /\ Step \in A \/ Step.op \in {"opt", "either"}
            /\ Phased(A, B, rest') \/ LastChooses(A, B, rest')
        BY <2>1, <3>1, <3>4, StaysUngiven DEF Step
      <4>2. Step.op \notin {"give", "put"}
        BY <2>2, <4>1 DEF Ungiven
      <4>3. given' = {}
        BY <1>3, <3>4, <4>2 DEF GoesAhead, Handles, frame
      <4> QED
        BY <2>2, <4>1, <4>3 DEF Ungiven
    <3> QED
      BY <2>2, <3>2, <3>3, <3>4 DEF Ungiven
  <2>3. (result = "none" => \E A, B : Ungiven(A, B))'
    BY <2>1, <2>2 DEF GivesComeLast
  <2> QED
    BY <2>1, <2>3 DEF GivesComeLast, FailureGivesNothing, Failed
<1>4. CASE Idles
  BY <1>4 DEF Idles, frame, GivesComeLast, Ungiven, FailureGivesNothing, Failed
<1> QED
  BY <1>1, <1>2, <1>3, <1>4, EveryStep

\* Whatever the clients and their methods: a call that fails has handed out no
\* object, if the methods give only behind their last fallible step.
THEOREM FailuresGiveNothing ==
  ASSUME MethodsInOrder
  PROVE  Spec => []FailureGivesNothing
<1>1. Init => GivesComeLast
  BY DEF Init, GivesComeLast, FailureGivesNothing, Failed
<1>2. MakesCalls /\ GivesComeLast /\ [Next]_vars => GivesComeLast'
  BY GivesComeLastStays
<1>3. GivesComeLast => FailureGivesNothing
  BY DEF GivesComeLast
<1> QED
  BY <1>1, <1>2, <1>3, CallsAreMethods, PTL DEF Spec

(***************************************************************************)
(* A failed call releases only what it would have consumed, once.          *)
(***************************************************************************)
\* The handles of the call are those its script consumes.
Lends(P) ==
  /\ Runs(P) /\ rest \in Seq(P)
  /\ \A t \in P : t.op \in {"take", "free"} => t.arg \in Consumes(fn)
  /\ freed \cup taken \subseteq Consumes(fn)

\* The handles taken and the handles freed are others, and once an object was
\* given what the frame owned, nothing more is taken.
TakenOnce(P, A, B) ==
  /\ Runs(P) /\ rest \in Seq(P)
  /\ Runs(A) /\ \A t \in A : t.op \notin {"give"}
  /\ Runs(B) /\ \A t \in B : t.op \notin {"take"}
  /\ Phased(A, B, rest)
  /\ \A t, u \in P : t.op = "take" /\ u.op = "free" => t.arg # u.arg
  /\ \A h \in taken \cup kept : \E t \in P : t.op = "take" /\ t.arg = h
  /\ \A h \in freed : \E t \in P : t.op = "free" /\ t.arg = h
  /\ kept = {} \/ (rest \in Seq(B) /\ taken = {})

BorrowsAndTakes ==
  /\ result = "none" /\ fn \notin FreesWhatItBorrows => \E P : Lends(P)
  /\ result = "none" /\ fn \notin TakesTwice => \E P, A, B : TakenOnce(P, A, B)
  /\ result # "none" => taken = {}
  /\ BorrowedSurvives

\* A call begins with an empty frame and the order of its script.
LEMMA BorrowsAndTakesBegins ==
  ASSUME MethodsInOrder, MakesCalls, Begins
  PROVE  BorrowsAndTakes'
<1> DEFINE S == AllSteps(fn')
<1>1. fn' \in Methods[client] /\ client \in DOMAIN Methods
  BY DEF Begins, MakesCalls
<1>2. InOrder(fn')
  BY <1>1 DEF MethodsInOrder
<1>3. fn' \in Seq(S) /\ Complete(S)
  BY <1>2 DEF InOrder, Avoids
<1>4. /\ rest' = fn' /\ result' = "none"
      /\ taken' = {} /\ kept' = {} /\ freed' = {} /\ given' = {}
  BY DEF Begins
<1>5. PICK M : M = Marked(S)
  OBVIOUS
<1>6. Runs(M) /\ rest' \in Seq(M)
  BY <1>3, <1>4, <1>5, MarkedRuns, SeqMonotonic
<1>7. \A t \in M : t.op # "else" => t \in S
  BY <1>5 DEF Marked, Marker
<1>8. ASSUME fn' \notin FreesWhatItBorrows PROVE Lends(M)'
  <2>1. \A t \in S : t.op \in {"take", "free"} => t.arg \in Consumes(fn')
    BY <1>2, <1>8 DEF InOrder, LendsOnly
  <2>2. \A t \in M : t.op \in {"take", "free"} => t.arg \in Consumes(fn')
    <3> HIDE DEF S
    <3> QED
      BY <1>7, <2>1
  <2>3. freed' \cup taken' \subseteq Consumes(fn')
    BY <1>4
  <2> QED
    BY <1>6, <2>2, <2>3 DEF Lends
<1>9. ASSUME fn' \notin TakesTwice PROVE \E P, A, B : TakenOnce(P, A, B)'
  <2>1. /\ InPhases(fn', {"give"}, {"take"})
        /\ \A t, u \in S : t.op = "take" /\ u.op = "free" => t.arg # u.arg
    BY <1>2, <1>9 DEF InOrder, TakesOnce
  <2>2. PICK A, B : /\ Runs(A) /\ \A t \in A : t.op \notin {"give"}
                    /\ Runs(B) /\ \A t \in B : t.op \notin {"take"}
                    /\ Phased(A, B, fn')
    <3>1. "else" \notin {"give"} \cup {"take"}
      OBVIOUS
    <3> QED
      BY <1>3, <2>1, <3>1, BeginsPhased
  <2>3. \A t, u \in M : t.op = "take" /\ u.op = "free" => t.arg # u.arg
    <3> HIDE DEF S
    <3> QED
      BY <1>7, <2>1
  <2>4. TakenOnce(M, A, B)'
    BY <1>4, <1>6, <2>2, <2>3 DEF TakenOnce
  <2> QED
    BY <2>4
<1>10. BorrowedSurvives'
  BY <1>4 DEF BorrowedSurvives, Failed
<1>11. (result = "none" /\ fn \notin FreesWhatItBorrows => \E P : Lends(P))'
  BY <1>8
<1>12. (result = "none" /\ fn \notin TakesTwice => \E P, A, B : TakenOnce(P, A, B))'
  BY <1>9
<1> QED
  BY <1>4, <1>10, <1>11, <1>12 DEF BorrowsAndTakes

\* A call that ends releases what its frame owns, and an object keeps its own.
LEMMA BorrowsAndTakesEnds ==
  ASSUME BorrowsAndTakes, Ends
  PROVE  BorrowsAndTakes'
<1>1. /\ result = "none" /\ result' # "none" /\ fn' = fn
      /\ kept' = kept /\ freed' = freed \cup taken /\ taken' = {}
  BY DEF Ends, Leave
<1>2. ASSUME fn \notin FreesWhatItBorrows PROVE freed' \subseteq Consumes(fn)
  <2>1. PICK P : Lends(P)
    BY <1>1, <1>2 DEF BorrowsAndTakes
  <2> QED
    BY <1>1, <2>1 DEF Lends
<1>3. ASSUME fn \notin TakesTwice PROVE freed' \cap (kept' \cup taken') = {}
  <2>1. PICK P, A, B : TakenOnce(P, A, B)
    BY <1>1, <1>3 DEF BorrowsAndTakes
  <2>2. freed \cap kept = {}
    BY <2>1 DEF TakenOnce
  <2>3. taken \cap kept = {}
    BY <2>1 DEF TakenOnce
  <2> QED
    BY <1>1, <2>2, <2>3
<1> QED
  BY <1>1, <1>2, <1>3 DEF BorrowsAndTakes, BorrowedSurvives

\* Every step of a call touches the handles as its script says.
LEMMA BorrowsAndTakesGoesOn ==
  ASSUME BorrowsAndTakes, GoesAhead
  PROVE  BorrowsAndTakes'
<1>1. result = "none" /\ result' = "none" /\ fn' = fn /\ rest # <<>> /\ Follows(rest, rest')
  BY DEF GoesAhead
<1>2. ASSUME NEW P, Lends(P) PROVE Lends(P)'
  <2>1. Runs(P) /\ rest \in Seq(P)
    BY <1>2 DEF Lends
  <2>2. rest' \in Seq(P)
    BY <1>1, <2>1, StaysInside
  <2>3. Step \in P
    BY <1>1, <2>1, HeadAndTail DEF Step
  <2>4. Step.op \in {"take", "free"} => Step.arg \in Consumes(fn)
    BY <1>2, <2>3 DEF Lends
  <2>5. freed' \cup taken' \subseteq Consumes(fn)
    BY <1>2, <2>4 DEF Lends, GoesAhead, Handles, frame
  <2> QED
    BY <1>1, <1>2, <2>2, <2>5 DEF Lends
<1>3. ASSUME NEW P, NEW A, NEW B, TakenOnce(P, A, B) PROVE TakenOnce(P, A, B)'
  <2>1. Runs(P) /\ rest \in Seq(P) /\ Runs(A) /\ Runs(B) /\ Phased(A, B, rest)
    BY <1>3 DEF TakenOnce
  <2>2. rest' \in Seq(P) /\ Phased(A, B, rest')
    BY <1>1, <2>1, StaysInside, StaysPhased
  <2>3. rest \in Seq(B) => rest' \in Seq(B) /\ Step \in B
    BY <1>1, <2>1, StaysInside, HeadAndTail DEF Step
  <2>4. rest \notin Seq(B) => Step \in A
    BY <1>1, <2>1, SecondPhase DEF Step
  <2>5. Step \in P
    BY <1>1, <2>1, HeadAndTail DEF Step
  <2>6. \A h \in taken' \cup kept' : \E t \in P : t.op = "take" /\ t.arg = h
    BY <1>3, <2>5 DEF TakenOnce, GoesAhead, Handles, frame
  <2>7. \A h \in freed' : \E t \in P : t.op = "free" /\ t.arg = h
    BY <1>3, <2>5 DEF TakenOnce, GoesAhead, Handles, frame
  <2>8. kept' = {} \/ (rest' \in Seq(B) /\ taken' = {})
    <3>1. Step.op = "take" => kept = {}
      BY <1>3, <2>3 DEF TakenOnce
    <3>2. Step.op = "give" => rest' \in Seq(B)
      BY <1>3, <2>3, <2>4 DEF TakenOnce
    <3> QED
      BY <1>3, <2>3, <3>1, <3>2 DEF TakenOnce, GoesAhead, Handles, frame
  <2> QED
    BY <1>3, <2>2, <2>6, <2>7, <2>8 DEF TakenOnce
<1>4. (result = "none" /\ fn \notin FreesWhatItBorrows => \E P : Lends(P))'
  BY <1>1, <1>2 DEF BorrowsAndTakes
<1>5. (result = "none" /\ fn \notin TakesTwice => \E P, A, B : TakenOnce(P, A, B))'
  BY <1>1, <1>3 DEF BorrowsAndTakes
<1>6. BorrowedSurvives'
  <2>1. ~Failed'
    BY <1>1 DEF Failed
  <2>2. ASSUME fn' \notin TakesTwice PROVE freed' \cap (kept' \cup taken') = {}
    <3>1. PICK P, A, B : TakenOnce(P, A, B)'
      BY <1>1, <1>5, <2>2
    <3> QED
      BY <3>1 DEF TakenOnce
  <2> QED
    BY <2>1, <2>2 DEF BorrowedSurvives
<1> QED
  BY <1>1, <1>4, <1>5, <1>6 DEF BorrowsAndTakes

\* Whatever the clients and their methods: a call that fails has released only
\* handles its success consumes, and no call has released a handle that it or
\* an object it made still owns.
THEOREM BorrowedAlwaysSurvives ==
  ASSUME MethodsInOrder
  PROVE  Spec => []BorrowedSurvives
<1>1. Init => BorrowsAndTakes
  BY DEF Init, BorrowsAndTakes, BorrowedSurvives, Failed
<1>2. MakesCalls /\ BorrowsAndTakes /\ [Next]_vars => BorrowsAndTakes'
  <2> SUFFICES ASSUME MakesCalls, BorrowsAndTakes, [Next]_vars PROVE BorrowsAndTakes'
    OBVIOUS
  <2>1. CASE Begins
    BY <2>1, BorrowsAndTakesBegins
  <2>2. CASE Ends
    BY <2>2, BorrowsAndTakesEnds
  <2>3. CASE GoesAhead
    BY <2>3, BorrowsAndTakesGoesOn
  <2>4. CASE Idles
    BY <2>4 DEF Idles, frame, BorrowsAndTakes, Lends, TakenOnce, BorrowedSurvives, Failed
  <2> QED
    BY <2>1, <2>2, <2>3, <2>4, EveryStep
<1>3. BorrowsAndTakes => BorrowedSurvives
  BY DEF BorrowsAndTakes
<1> QED
  BY <1>1, <1>2, <1>3, CallsAreMethods, PTL DEF Spec

(***************************************************************************)
(* A call reads the answers it asked for.                                  *)
(***************************************************************************)
Old == {"oldPart", "oldLast"}

\* The last n messages of the stream are whole answers, those before are old.
Owes(n) ==
  /\ n \in 0..MaxOwed /\ n <= Len(owed)
  /\ \A i \in 1..Len(owed) :
       /\ i <= Len(owed) - n => owed[i] \in Old
       /\ i > Len(owed) - n => owed[i] = "last"

\* The stream ends with an answer in parts, and what is before it is old.
OwesParts ==
  /\ Len(owed) > 0 /\ owed[Len(owed)] = "last"
  /\ \A i \in 1..Len(owed) : i < Len(owed) => owed[i] \in Old \cup {"part"}

\* What is known of the stream, w, is true of it.
Fits(w) ==
  \/ w = Unsure
  \/ w = Torn /\ Len(owed) > 0 /\ owed[1] = "torn"
  \/ w = Gone /\ dead /\ \A i \in 1..Len(owed) : owed[i] \in Old \cup {"torn"}
  \/ w = InParts /\ ~dead /\ OwesParts
  \/ \E n \in 0..MaxOwed : w = Owing(n) /\ ~dead /\ Owes(n)

\* What is known of a stream is of one of five kinds.
LEMMA Kinds ==
  /\ Unsure.is = "unsure" /\ Torn.is = "torn" /\ Gone.is = "gone" /\ InParts.is = "parts"
  /\ \A n : Owing(n).is = "owing" /\ Owing(n).n = n
BY DEF Unsure, Torn, Gone, InParts, Owing

\* The first of the messages is taken off the stream.
LEMMA TakesOne ==
  ASSUME owed \in Seq(Messages), Takes
  PROVE  /\ owed' \in Seq(Messages) /\ Len(owed) \in Nat /\ Len(owed') = Len(owed) - 1
         /\ Len(owed') \in Nat /\ Len(owed) > 0
         /\ \A i \in 1..Len(owed') : owed'[i] = owed[i + 1]
         /\ dead' = dead
         /\ ~crossed' => ~crossed /\ owed[1] \notin Old \cup {"torn"}
<1>1. owed # <<>> /\ owed' = Tail(owed) /\ dead' = dead
  BY DEF Takes
<1>2. /\ owed' \in Seq(Messages) /\ Len(owed') = Len(owed) - 1
      /\ \A i \in 1..Len(owed') : owed'[i] = owed[i + 1]
  BY <1>1, HeadTailProperties
<1>3. Len(owed) \in Nat /\ Len(owed') \in Nat
  BY <1>2, LenProperties
<1>4. Len(owed) > 0
  BY <1>1, <1>3, EmptySeq
<1>5. ~crossed' => ~crossed /\ owed[1] \notin Old \cup {"torn"}
  BY DEF Takes, Old
<1> QED
  BY <1>1, <1>2, <1>3, <1>4, <1>5

\* A message that is read is the next one of what the call is owed.
LEMMA ReadsNext ==
  ASSUME owed \in Seq(Messages), Takes, ~crossed', NEW w, Fits(w)
  PROVE  \E v \in Read(w) :
           /\ Fits(v)'
           /\ IF owed[1] \in {"last", "oldLast", "torn"} THEN v # InParts ELSE v \in {InParts, Unsure}
<1> DEFINE Right(v) ==
      /\ v \in Read(w) /\ Fits(v)'
      /\ IF owed[1] \in {"last", "oldLast", "torn"} THEN v # InParts ELSE v \in {InParts, Unsure}
<1>1. /\ Len(owed) \in Nat /\ Len(owed') = Len(owed) - 1 /\ Len(owed') \in Nat /\ Len(owed) > 0
      /\ \A i \in 1..Len(owed') : owed'[i] = owed[i + 1]
      /\ dead' = dead /\ owed[1] \notin Old \cup {"torn"}
  BY TakesOne
<1>2. CASE w = Unsure
  <2>1. Right(Unsure)
    BY <1>2, Kinds DEF Read, Fits, Unsure, InParts
  <2> QED
    BY <2>1
<1>3. CASE w = Torn /\ Len(owed) > 0 /\ owed[1] = "torn"
  BY <1>1, <1>3
<1>4. CASE w = Gone /\ dead /\ \A i \in 1..Len(owed) : owed[i] \in Old \cup {"torn"}
  BY <1>1, <1>4
<1>5. CASE w = InParts /\ ~dead /\ OwesParts
  <2>1. Read(w) = {InParts, Owing(0)}
    BY <1>5, Kinds DEF Read
  <2>2. CASE owed[1] = "last"
    <3>1. Len(owed) = 1
      BY <1>1, <1>5, <2>2 DEF OwesParts, Old
    <3>2. Owes(0)'
      BY <1>1, <3>1, CallBounds DEF Owes
    <3>3. Right(Owing(0))
      BY <1>1, <1>5, <2>1, <2>2, <3>2, Kinds, CallBounds DEF Fits
    <3> QED
      BY <3>3
  <2>3. CASE owed[1] # "last"
    <3>1. Len(owed) > 1 /\ owed[1] = "part"
      BY <1>1, <1>5, <2>3 DEF OwesParts
    <3>2. OwesParts'
      BY <1>1, <1>5, <3>1 DEF OwesParts
    <3>3. Right(InParts)
      BY <1>1, <1>5, <2>1, <3>1, <3>2 DEF Fits
    <3> QED
      BY <3>3
  <2> QED
    BY <2>2, <2>3
<1>6. ASSUME NEW n \in 0..MaxOwed, w = Owing(n), ~dead, Owes(n)
      PROVE  \E v : Right(v)
  <2>1. n > 0 /\ owed[1] = "last"
    BY <1>1, <1>6, CallBounds DEF Owes
  <2>2. n - 1 \in 0..MaxOwed /\ (n - 1) + 1 = n
    BY <2>1, CallBounds
  <2>3. Owing(n - 1) \in Read(w)
    BY <1>6, <2>2, Kinds DEF Read
  <2>4. Owes(n - 1)'
    BY <1>1, <1>6, <2>1, <2>2, CallBounds DEF Owes
  <2>5. Fits(Owing(n - 1))'
    BY <1>1, <1>6, <2>2, <2>4 DEF Fits
  <2>6. Right(Owing(n - 1))
    BY <2>1, <2>3, <2>5, Kinds
  <2> QED
    BY <2>6
<1> QED
  BY <1>2, <1>3, <1>4, <1>5, <1>6 DEF Fits

\* A stream that was cut inside a message begins with the rest of it.
LEMMA CutInside ==
  ASSUME owed \in Seq(Messages),
         owed' = <<"torn">> \o (IF owed = <<>> THEN owed ELSE Tail(owed))
  PROVE  owed' \in Seq(Messages) /\ Fits(Torn)'
<1> DEFINE x == IF owed = <<>> THEN owed ELSE Tail(owed)
<1>1. x \in Seq(Messages)
  BY HeadTailProperties
<1>2. <<"torn">> \in Seq(Messages) /\ Len(<<"torn">>) = 1 /\ <<"torn">>[1] = "torn"
  BY DEF Messages
<1>3. Len(x) \in Nat
  BY <1>1, LenProperties
<1> HIDE DEF x
<1>4. /\ <<"torn">> \o x \in Seq(Messages) /\ Len(<<"torn">> \o x) = 1 + Len(x)
      /\ (<<"torn">> \o x)[1] = "torn"
  BY <1>1, <1>2, <1>3, ConcatProperties
<1> QED
  BY <1>3, <1>4 DEF Fits, x

\* The replies to a request come after what the stream holds.
LEMMA SendsMore ==
  ASSUME owed \in Seq(Messages), NEW k \in Nat, NEW r \in Seq(Messages), Len(r) = k, Sends(r)
  PROVE  /\ owed' \in Seq(Messages) /\ Len(owed) \in Nat /\ Len(owed') \in Nat
         /\ Len(owed') = Len(owed) + k /\ Len(owed') <= MaxOwed
         /\ \A i \in 1..Len(owed) : owed'[i] = owed[i]
         /\ \A i \in 1..k : owed'[Len(owed) + i] = r[i]
         /\ ~dead /\ ~dead' /\ crossed' = crossed
<1>1. /\ owed' = owed \o r /\ ~dead /\ dead' = dead /\ crossed' = crossed
      /\ Len(owed) + Len(r) <= MaxOwed
  BY DEF Sends
<1>2. Len(owed) \in Nat
  BY LenProperties
<1>3. /\ owed' \in Seq(Messages) /\ Len(owed') = Len(owed) + k
      /\ \A i \in 1..(Len(owed) + k) :
            owed'[i] = IF i <= Len(owed) THEN owed[i] ELSE r[i - Len(owed)]
  BY <1>1, ConcatProperties
<1>4. \A i \in 1..Len(owed) : owed'[i] = owed[i]
  BY <1>2, <1>3
<1>5. \A i \in 1..k : owed'[Len(owed) + i] = r[i]
  BY <1>2, <1>3
<1> QED
  BY <1>1, <1>2, <1>3, <1>4, <1>5

\* A request the device answers with n messages leaves n more to read.
LEMMA AskedFits ==
  ASSUME owed \in Seq(Messages), NEW n \in Nat, NEW r \in Seq(Messages), Len(r) = n,
         \A i \in 1..n : r[i] = "last", Sends(r), NEW w, Fits(w)
  PROVE  \E v \in Asked(w, n) : Fits(v)'
<1>1. /\ owed' \in Seq(Messages) /\ Len(owed) \in Nat /\ Len(owed') \in Nat
      /\ Len(owed') = Len(owed) + n /\ Len(owed') <= MaxOwed
      /\ \A i \in 1..Len(owed) : owed'[i] = owed[i]
      /\ \A i \in 1..n : owed'[Len(owed) + i] = r[i]
      /\ ~dead /\ ~dead'
  BY SendsMore
<1>2. CASE w = Unsure
  <2>1. Unsure \in Asked(w, n)
    BY <1>2, Kinds DEF Asked
  <2> QED
    BY <2>1 DEF Fits
<1>3. CASE w = Torn /\ Len(owed) > 0 /\ owed[1] = "torn"
  <2>1. Torn \in Asked(w, n)
    BY <1>3, Kinds DEF Asked
  <2>2. Len(owed') > 0 /\ owed'[1] = "torn"
    BY <1>1, <1>3
  <2> QED
    BY <2>1, <2>2 DEF Fits
<1>4. CASE w = Gone /\ dead
  BY <1>1, <1>4
<1>5. CASE w = InParts /\ ~dead /\ OwesParts
  <2>1. CASE n = 0
    <3>1. InParts \in Asked(w, n)
      BY <1>5, <2>1, Kinds DEF Asked
    <3>2. OwesParts'
      BY <1>1, <1>5, <2>1 DEF OwesParts
    <3> QED
      BY <1>1, <3>1, <3>2 DEF Fits
  <2>2. CASE n # 0
    <3>1. Unsure \in Asked(w, n)
      BY <1>5, <2>2, Kinds DEF Asked
    <3> QED
      BY <3>1 DEF Fits
  <2> QED
    BY <2>1, <2>2
<1>6. ASSUME NEW m \in 0..MaxOwed, w = Owing(m), ~dead, Owes(m)
      PROVE  \E v \in Asked(w, n) : Fits(v)'
  <2>1. m <= Len(owed) /\ m \in Nat
    BY <1>6, CallBounds DEF Owes
  <2>2. m + n \in 0..MaxOwed
    BY <1>1, <2>1, CallBounds
  <2>3. Owing(m + n) \in Asked(w, n)
    BY <1>6, <2>2, Kinds DEF Asked
  <2>4. ASSUME NEW i \in 1..Len(owed')
        PROVE  /\ i <= Len(owed') - (m + n) => owed'[i] \in Old
               /\ i > Len(owed') - (m + n) => owed'[i] = "last"
    <3>1. CASE i <= Len(owed)
      <4>1. owed'[i] = owed[i] /\ i \in 1..Len(owed)
        BY <1>1, <3>1
      <4>2. Len(owed') - (m + n) = Len(owed) - m
        BY <1>1, <2>1
      <4>3. /\ i <= Len(owed) - m => owed[i] \in Old
            /\ i > Len(owed) - m => owed[i] = "last"
        BY <1>6, <4>1 DEF Owes
      <4> QED
        BY <4>1, <4>2, <4>3
    <3>2. CASE i > Len(owed)
      <4>1. i - Len(owed) \in 1..n /\ Len(owed) + (i - Len(owed)) = i
        BY <1>1, <3>2
      <4>2. owed'[i] = "last"
        BY <1>1, <4>1
      <4> QED
        BY <1>1, <2>1, <3>2, <4>2
    <3> QED
      BY <1>1, <3>1, <3>2
  <2>5. Owes(m + n)'
    BY <1>1, <2>1, <2>2, <2>4 DEF Owes
  <2> QED
    BY <1>1, <2>2, <2>3, <2>5 DEF Fits
<1> QED
  BY <1>2, <1>3, <1>4, <1>5, <1>6 DEF Fits

\* A request that is answered in parts leaves one such answer.
LEMMA AskedManyFits ==
  ASSUME owed \in Seq(Messages), NEW n \in 1..MaxParts, NEW r \in Seq(Messages), Len(r) = n,
         \A i \in 1..n : r[i] = (IF i = n THEN "last" ELSE "part"),
         Sends(r), NEW w, Fits(w)
  PROVE  \E v \in AskedMany(w) : Fits(v)'
<1>1. n \in Nat /\ n > 0
  BY CallBounds
<1>2. /\ owed' \in Seq(Messages) /\ Len(owed) \in Nat /\ Len(owed') \in Nat
      /\ Len(owed') = Len(owed) + n /\ Len(owed') <= MaxOwed
      /\ \A i \in 1..Len(owed) : owed'[i] = owed[i]
      /\ \A i \in 1..n : owed'[Len(owed) + i] = r[i]
      /\ ~dead /\ ~dead'
  BY <1>1, SendsMore
<1>3. w # Gone
  <2>1. ~(w = Gone /\ dead)
    BY <1>2
  <2>2. ASSUME w = Gone PROVE FALSE
    BY <2>1, <2>2, Kinds DEF Fits
  <2> QED
    BY <2>2
<1>4. CASE w = Torn
  <2>1. AskedMany(w) = {Torn}
    BY <1>4, Kinds DEF AskedMany
  <2>2. Len(owed) > 0 /\ owed[1] = "torn"
    BY <1>4, Kinds DEF Fits
  <2>3. Len(owed') > 0 /\ owed'[1] = "torn"
    BY <1>1, <1>2, <2>2
  <2> QED
    BY <2>1, <2>3 DEF Fits
<1>5. CASE w = Owing(0)
  <2>1. AskedMany(w) = {InParts}
    BY <1>5, Kinds DEF AskedMany
  <2>2. Owes(0)
    <3>1. PICK m \in 0..MaxOwed : w = Owing(m) /\ Owes(m)
      BY <1>5, Kinds DEF Fits
    <3>2. m = 0
      BY <1>5, <3>1, Kinds
    <3> QED
      BY <3>1, <3>2
  <2>3. \A i \in 1..Len(owed) : owed[i] \in Old
    BY <1>2, <2>2 DEF Owes
  <2>4. owed'[Len(owed')] = "last"
    BY <1>1, <1>2
  <2>5. ASSUME NEW i \in 1..Len(owed'), i < Len(owed') PROVE owed'[i] \in Old \cup {"part"}
    <3>1. CASE i <= Len(owed)
      BY <1>2, <2>3, <3>1
    <3>2. CASE i > Len(owed)
      <4>1. i - Len(owed) \in 1..n /\ Len(owed) + (i - Len(owed)) = i /\ i - Len(owed) # n
        BY <1>1, <1>2, <2>5, <3>2
      <4> QED
        BY <1>2, <4>1
    <3> QED
      BY <1>2, <3>1, <3>2
  <2>6. OwesParts'
    BY <1>1, <1>2, <2>4, <2>5 DEF OwesParts
  <2> QED
    BY <1>2, <2>1, <2>6 DEF Fits
<1>6. CASE w \notin {Owing(0), Torn, Gone}
  <2>1. AskedMany(w) = {Unsure}
    BY <1>6 DEF AskedMany
  <2> QED
    BY <2>1 DEF Fits
<1> QED
  BY <1>3, <1>4, <1>5, <1>6

\* The stream of a call that begins holds only old messages.
LEMMA AgedFits ==
  ASSUME owed \in Seq(Messages), owed' = Aged, dead' = dead
  PROVE  owed' \in Seq(Messages) /\ (Fits(Owing(0))' \/ Fits(Gone)')
<1>1. Len(owed) \in Nat /\ DOMAIN owed = 1..Len(owed)
  BY LenProperties
<1>2. \A i \in 1..Len(owed) : owed'[i] \in Old
  BY <1>1 DEF Aged, Old
<1>3. owed' \in [1..Len(owed) -> Messages]
  BY <1>1 DEF Aged, Messages
<1>4. owed' \in Seq(Messages)
  BY <1>1, <1>3, SeqDef
<1>5. Len(owed') = Len(owed)
  <2>1. DOMAIN owed' = 1..Len(owed)
    BY <1>3
  <2> QED
    BY <1>1, <1>4, <2>1, LenProperties
<1>6. CASE dead
  <2>1. dead'
    BY <1>6
  <2>2. \A i \in 1..Len(owed') : owed'[i] \in Old \cup {"torn"}
    BY <1>2, <1>5
  <2> QED
    BY <1>4, <2>1, <2>2 DEF Fits
<1>7. CASE ~dead
  <2>1. Owes(0)'
    BY <1>1, <1>2, <1>5, CallBounds DEF Owes
  <2>2. ~dead'
    BY <1>7
  <2> QED
    BY <1>4, <2>1, <2>2, CallBounds DEF Fits
<1> QED
  BY <1>4, <1>6, <1>7

\* A stream that is new holds nothing, and one that is gone neither.
LEMMA EmptyFits ==
  ASSUME owed' = <<>>
  PROVE  /\ owed' \in Seq(Messages)
         /\ dead' => Fits(Gone)'
         /\ ~dead' => Fits(Owing(0))'
<1>1. owed' \in Seq(Messages) /\ Len(owed') = 0
  OBVIOUS
<1>2. Owes(0)'
  BY <1>1, CallBounds DEF Owes
<1> QED
  BY <1>1, <1>2, CallBounds DEF Fits

\* What is true of a stream that nothing touches remains true.
LEMMA SameFits ==
  ASSUME owed' = owed, dead' = dead, NEW w, Fits(w)
  PROVE  Fits(w)'
BY DEF Fits, Owes, OwesParts

\* An error leads where the text says, out of the call or to a handler.
LEMMA ErrorsLead ==
  ASSUME FailsHere
  PROVE  rest' \in Raised(rest) /\ (result' = result \/ rest' = <<>>) /\ fn' = fn
<1> DEFINE H == {i \in DOMAIN rest : rest[i].op = "else" /\ rest[i].by # "cut"}
<1>1. Handlers = H
  BY DEF Handlers, Guards
<1>2. CASE Handlers = {} /\ Leave("error")
  BY <1>1, <1>2 DEF Raised, Leave
<1>3. CASE \E i \in Handlers : (\A j \in Handlers : i <= j) /\ To(i)
  <2>1. PICK i \in Handlers : (\A j \in Handlers : i <= j) /\ To(i)
    BY <1>3
  <2>2. i \in {j \in H : \A k \in H : j <= k} /\ H # {}
    BY <1>1, <2>1
  <2>3. rest' = rest[i].or \o SubSeq(rest, i + 1, Len(rest)) /\ fn' = fn /\ result' = result
    BY <2>1 DEF To
  <2>4. rest' \in Raised(rest)
    BY <2>2, <2>3 DEF Raised
  <2> QED
    BY <2>3, <2>4
<1> QED
  BY <1>2, <1>3 DEF FailsHere

\* And so does a deadline.
LEMMA DeadlinesLead ==
  ASSUME NEW i \in Timed, To(i)
  PROVE  rest' \in CutOff(rest) /\ result' = result /\ fn' = fn
<1>1. i \in {j \in DOMAIN rest : rest[j].op = "else" /\ rest[j].by # "none"}
  BY DEF Timed, Guards
<1>2. rest' = rest[i].or \o SubSeq(rest, i + 1, Len(rest)) /\ fn' = fn /\ result' = result
  BY DEF To
<1> QED
  BY <1>1, <1>2 DEF CutOff

\* The step is one the text has, and what is known of the stream stays true.
Leads(w) == \E v : <<rest', v>> \in Moves(rest, w) /\ Fits(v)'

\* A step of the call that leaves the connection alone.
LEMMA StepAlone ==
  ASSUME NEW w, Fits(w), owed' = owed, dead' = dead, <<rest', w>> \in Moves(rest, w)
  PROVE  Leads(w)
BY SameFits DEF Leads

\* Tests, handles and objects, and the ends of blocks.
LEMMA QuietLeads ==
  ASSUME NEW w, Fits(w), UNCHANGED conn, NEW op, rest # <<>>, Step.op = op,
         op \in Refusing \cup {"take", "free", "give", "put", "else", "await", "judge"},
         rest' = Tail(rest) \/ (op \in Refusing /\ rest' = <<>>)
  PROVE  Leads(w)
<1>1. rest[1].op = op
  BY DEF Step
<1>2. <<rest', w>> \in Moves(rest, w)
  BY <1>1 DEF Moves, Refusing
<1> QED
  BY <1>2, StepAlone DEF conn

\* The conditional and the fallible blocks.
LEMMA BranchLeads ==
  ASSUME NEW w, Fits(w), Branch
  PROVE  Leads(w)
<1>1. UNCHANGED conn
  BY DEF Branch, RunsOn
<1>2. <<rest', w>> \in Moves(rest, w)
  <2>1. CASE /\ Running("opt")
             /\ RunsOn((IF Step.arg \in null THEN Step.or ELSE Step.do) \o Tail(rest))
    <3>1. rest' = Step.or \o Tail(rest) \/ rest' = Step.do \o Tail(rest)
      BY <2>1 DEF RunsOn
    <3>2. rest[1].op = "opt"
      BY <2>1 DEF Running, Step
    <3> QED
      BY <3>1, <3>2 DEF Moves, Refusing, Step
  <2>2. CASE /\ Running("either")
             /\ RunsOn(Step.do \o Tail(rest)) \/ RunsOn(Step.or \o Tail(rest))
    BY <2>2 DEF Running, Step, Moves, Refusing, RunsOn
  <2>3. CASE /\ Running("loop")
             /\ RunsOn(Step.do \o rest) \/ RunsOn(Tail(rest))
    BY <2>3 DEF Running, Step, Moves, Refusing, RunsOn
  <2>4. CASE /\ Running("try")
             /\ RunsOn(Step.do \o <<[op |-> "else", or |-> Step.or, by |-> Step.by]>> \o Tail(rest))
    BY <2>4 DEF Running, Step, Moves, Refusing, RunsOn
  <2> QED
    BY <2>1, <2>2, <2>3, <2>4 DEF Branch
<1> QED
  BY <1>1, <1>2, StepAlone DEF conn

\* An error that leaves the connection as it is.
LEMMA ErrsLeads ==
  ASSUME NEW w, Fits(w), Errs
  PROVE  Leads(w)
<1>1. rest' \in Raised(rest) /\ UNCHANGED conn
  BY ErrorsLead DEF Errs
<1>2. rest[1].op \in {"await", "judge", "fail"}
  BY DEF Errs, Running, Step
<1>3. <<rest', w>> \in Moves(rest, w)
  BY <1>1, <1>2 DEF Moves, Refusing
<1> QED
  BY <1>1, <1>3, StepAlone DEF conn

\* A connection that fails is gone, one that is opened or dropped is known.
LEMMA ConnectionLeads ==
  ASSUME NEW w, ConnectionFails \/ OpenConnection \/ DropConnection
  PROVE  Leads(w)
<1>1. CASE ConnectionFails
  <2>1. rest' \in Raised(rest) /\ dead' /\ owed' = <<>>
    BY <1>1, ErrorsLead DEF ConnectionFails
  <2>2. rest[1].op \in {"open", "send", "sendMany", "recv", "hear", "drain"}
    BY <1>1 DEF ConnectionFails, Reading, Running, Step
  <2>3. <<rest', Gone>> \in Moves(rest, w)
    BY <2>1, <2>2 DEF Moves, Refusing
  <2> QED
    BY <2>1, <2>3, EmptyFits DEF Leads
<1>2. CASE OpenConnection
  <2>1. rest' = Tail(rest) /\ ~dead' /\ owed' = <<>> /\ rest[1].op = "open"
    BY <1>2 DEF OpenConnection, Running, Step, Continue
  <2>2. <<rest', Owing(0)>> \in Moves(rest, w)
    BY <2>1 DEF Moves, Refusing
  <2> QED
    BY <2>1, <2>2, EmptyFits DEF Leads
<1>3. CASE DropConnection
  <2>1. rest' = Tail(rest) /\ dead' /\ owed' = <<>> /\ rest[1].op = "invalidate"
    BY <1>3 DEF DropConnection, Running, Step, Continue
  <2>2. <<rest', Gone>> \in Moves(rest, w)
    BY <2>1 DEF Moves, Refusing
  <2> QED
    BY <2>1, <2>2, EmptyFits DEF Leads
<1> QED
  BY <1>1, <1>2, <1>3

\* A request leaves its answers to be read.
LEMMA SendLeads ==
  ASSUME owed \in Seq(Messages), NEW w, Fits(w), SendRequest,
         Step.op = "send" => Step.n \in Nat
  PROVE  Leads(w) /\ owed' \in Seq(Messages)
<1>1. CASE Running("send") /\ Sends([i \in 1..Step.n |-> "last"])
  <2> DEFINE r == [i \in 1..Step.n |-> "last"]
  <2>1. rest[1].op = "send" /\ Step = rest[1] /\ Step.n \in Nat
    BY <1>1 DEF Running, Step
  <2>2. r \in Seq(Messages) /\ Len(r) = Step.n /\ \A i \in 1..Step.n : r[i] = "last"
    BY <2>1 DEF Messages
  <2>3. Sends(r) /\ rest' = Tail(rest)
    BY <1>1 DEF Sends, Continue
  <2> HIDE DEF r
  <2>4. PICK v \in Asked(w, Step.n) : Fits(v)'
    BY <2>1, <2>2, <2>3, AskedFits
  <2>5. <<rest', v>> \in Moves(rest, w)
    BY <2>1, <2>3, <2>4 DEF Moves, Refusing
  <2>6. owed' \in Seq(Messages)
    BY <2>1, <2>2, <2>3, SendsMore
  <2> QED
    BY <2>4, <2>5, <2>6 DEF Leads
<1>2. ASSUME Running("sendMany"), NEW n \in 1..MaxParts,
             Sends([i \in 1..n |-> IF i = n THEN "last" ELSE "part"])
      PROVE  Leads(w) /\ owed' \in Seq(Messages)
  <2> DEFINE r == [i \in 1..n |-> IF i = n THEN "last" ELSE "part"]
  <2>1. rest[1].op = "sendMany" /\ n \in Nat
    BY <1>2, CallBounds DEF Running, Step
  <2>2. /\ r \in Seq(Messages) /\ Len(r) = n
        /\ \A i \in 1..n : r[i] = (IF i = n THEN "last" ELSE "part")
    BY <2>1 DEF Messages
  <2>3. Sends(r) /\ rest' = Tail(rest)
    BY <1>2 DEF Sends, Continue
  <2> HIDE DEF r
  <2>4. PICK v \in AskedMany(w) : Fits(v)'
    BY <2>2, <2>3, AskedManyFits
  <2>5. <<rest', v>> \in Moves(rest, w)
    BY <2>1, <2>3, <2>4 DEF Moves, Refusing
  <2>6. owed' \in Seq(Messages)
    BY <2>1, <2>2, <2>3, SendsMore
  <2> QED
    BY <2>4, <2>5, <2>6 DEF Leads
<1> QED
  BY <1>1, <1>2 DEF SendRequest

\* What is read is the answer the call expects next.
LEMMA ReadLeads ==
  ASSUME owed \in Seq(Messages), NEW w, Fits(w), ReadReply \/ ReadRefusal \/ ReadPart, ~crossed'
  PROVE  Leads(w)
<1>1. Takes
  BY DEF ReadReply, ReadRefusal, ReadPart
<1>2. PICK v \in Read(w) :
        /\ Fits(v)'
        /\ IF owed[1] \in {"last", "oldLast", "torn"} THEN v # InParts ELSE v \in {InParts, Unsure}
  BY <1>1, ReadsNext
<1>3. CASE ReadReply
  <2>1. rest' = Tail(rest) /\ rest[1].op \in {"recv", "hear"}
    BY <1>3 DEF ReadReply, Running, Step, Continue
  <2>2. <<rest', v>> \in Moves(rest, w)
    BY <1>2, <2>1 DEF Moves, Refusing
  <2> QED
    BY <1>2, <2>2 DEF Leads
<1>4. CASE ReadRefusal
  <2>1. rest' \in Raised(rest) /\ rest[1].op = "recv"
    BY <1>4, ErrorsLead DEF ReadRefusal, Running, Step
  <2>2. <<rest', v>> \in Moves(rest, w)
    BY <1>2, <2>1 DEF Moves, Refusing
  <2> QED
    BY <1>2, <2>2 DEF Leads
<1>5. CASE ReadPart
  <2>1. rest[1].op = "drain" /\ Step = rest[1]
    BY <1>5 DEF ReadPart, Running, Step
  <2>2. CASE owed[1] \in {"last", "oldLast", "torn"}
    <3>1. rest' = rest[1].do \o Tail(rest)
      BY <1>5, <2>1, <2>2 DEF ReadPart
    <3>2. v \in Read(w) \ {InParts}
      BY <1>2, <2>2
    <3>3. <<rest', v>> \in Moves(rest, w)
      BY <2>1, <3>1, <3>2 DEF Moves, Refusing
    <3> QED
      BY <1>2, <3>3 DEF Leads
  <2>3. CASE owed[1] \notin {"last", "oldLast", "torn"}
    <3>1. rest' = rest[1].do \o rest
      BY <1>5, <2>1, <2>3 DEF ReadPart
    <3>2. v \in Read(w) \cap {InParts, Unsure}
      BY <1>2, <2>3
    <3>3. <<rest', v>> \in Moves(rest, w)
      BY <2>1, <3>1, <3>2 DEF Moves, Refusing
    <3> QED
      BY <1>2, <3>3 DEF Leads
  <2> QED
    BY <2>2, <2>3
<1> QED
  BY <1>3, <1>4, <1>5

\* A message nobody asked for comes when nothing is owed.
LEMMA EventLeads ==
  ASSUME NEW w, Fits(w), ReadEvent
  PROVE  Leads(w)
<1>1. ~dead /\ owed = <<>> /\ UNCHANGED conn /\ rest' = Tail(rest) /\ rest[1].op = "hear"
  BY DEF ReadEvent, Running, Step, Continue
<1>2. Len(owed) = 0
  BY <1>1
<1>3. w \in {Unsure, Owing(0)}
  <2>1. ASSUME NEW n \in 0..MaxOwed, w = Owing(n), Owes(n) PROVE n = 0
    BY <1>2, <2>1, CallBounds DEF Owes
  <2>2. ~OwesParts
    BY <1>2 DEF OwesParts
  <2> QED
    BY <1>1, <1>2, <2>1, <2>2 DEF Fits
<1>4. w \in Read(w) \cup ({w} \cap {Owing(0)})
  BY <1>3, Kinds DEF Read
<1>5. <<rest', w>> \in Moves(rest, w)
  BY <1>1, <1>4 DEF Moves, Refusing
<1> QED
  BY <1>1, <1>5, StepAlone DEF conn

\* A deadline leaves the stream as it is, or cut inside a message.
LEMMA DeadlineLeads ==
  ASSUME owed \in Seq(Messages), NEW w, Fits(w), DeadlinePasses
  PROVE  Leads(w) /\ owed' \in Seq(Messages)
<1>1. PICK i \in Timed : To(i)
  BY DEF DeadlinePasses
<1>2. rest' \in CutOff(rest)
  BY <1>1, DeadlinesLead
<1>3. dead' = dead
  BY DEF DeadlinePasses
<1>4. rest[1].op \in {"recv", "hear", "drain", "open", "send", "await"}
  BY DEF DeadlinePasses, Reading, Running, Step
<1>5. CASE owed' = owed
  <2>1. <<rest', w>> \in Moves(rest, w)
    BY <1>2, <1>4 DEF Moves, Refusing
  <2> QED
    BY <1>3, <1>5, <2>1, StepAlone
<1>6. CASE Reading /\ owed' = <<"torn">> \o (IF owed = <<>> THEN owed ELSE Tail(owed))
  <2>1. rest[1].op \in {"recv", "hear", "drain"}
    BY <1>6 DEF Reading, Running, Step
  <2>2. <<rest', Torn>> \in Moves(rest, w)
    BY <1>2, <2>1 DEF Moves, Refusing
  <2> QED
    BY <1>6, <2>2, CutInside DEF Leads
<1> QED
  BY <1>5, <1>6 DEF DeadlinePasses

\* Every step of a call is one its text has.
LEMMA StepLeads ==
  ASSUME owed \in Seq(Messages), NEW w, Fits(w), Next, ~crossed',
         result = "none", rest # <<>>, Step.op = "send" => Step.n \in Nat
  PROVE  Leads(w)
<1> USE DEF Running
<1>1. ~Call /\ ~Reopen /\ ~Return
  BY DEF Call, Reopen, Return
<1>2. ASSUME NEW op \in Refusing, Refuse(op) PROVE Leads(w)
  <2>1. Step.op = op /\ rest' = <<>> /\ UNCHANGED conn
    BY <1>2 DEF Refuse, Leave
  <2> QED
    BY <2>1, QuietLeads
<1>3. CASE ArgumentNull \/ ArgumentBad
  BY <1>2, <1>3 DEF ArgumentNull, ArgumentBad, Refusing
<1>4. CASE ArgumentsGiven
  BY <1>4, QuietLeads DEF ArgumentsGiven, Continue, Refusing
<1>5. CASE ArgumentGood
  <2>1. Step.op \in Refusing /\ rest' = Tail(rest) /\ UNCHANGED conn
    BY <1>5 DEF ArgumentGood, Continue, Refusing
  <2> QED
    BY <2>1, QuietLeads
<1>6. CASE TakeHandle \/ FreeHandle \/ GiveOut \/ PutOut
  <2>1. Step.op \in {"take", "free", "give", "put"} /\ rest' = Tail(rest) /\ UNCHANGED conn
    BY <1>6 DEF TakeHandle, FreeHandle, GiveOut, PutOut, Continue
  <2> QED
    BY <2>1, QuietLeads
<1>7. CASE OpenConnection \/ ConnectionFails \/ DropConnection
  BY <1>7, ConnectionLeads
<1>8. CASE SendRequest
  BY <1>8, SendLeads
<1>9. CASE ReadReply \/ ReadRefusal \/ ReadPart
  BY <1>9, ReadLeads
<1>10. CASE ReadEvent
  BY <1>10, EventLeads
<1>11. CASE DeadlinePasses
  BY <1>11, DeadlineLeads
<1>12. CASE GoesOn
  <2>1. Step.op \in {"await", "judge", "else"} /\ rest' = Tail(rest) /\ UNCHANGED conn
    BY <1>12 DEF GoesOn, Continue
  <2> QED
    BY <2>1, QuietLeads
<1>13. CASE Errs
  BY <1>13, ErrsLeads
<1>14. CASE Branch
  BY <1>14, BranchLeads
<1> QED
  BY <1>1, <1>3, <1>4, <1>5, <1>6, <1>7, <1>8, <1>9, <1>10, <1>11, <1>12, <1>13, <1>14
     DEF Next

\* The steps left to a call are such that a request counts its answers.
Asks(P) ==
  /\ Runs(P) /\ rest \in Seq(P)
  /\ \A t \in P : t.op = "send" => t.n \in Nat

\* The stream is a list of messages, and a call that has read no answer of an
\* earlier one knows what it holds of its own: as much as when it is alone.
KnowsItsAnswers ==
  /\ owed \in Seq(Messages)
  /\ result = "none" => \E P : Asks(P)
  /\ ~crossed /\ fn \notin LeavesAnswers =>
       IF result = "none" THEN \E w : <<rest, w>> \in Alone(fn) /\ Fits(w)
       ELSE Fits(Owing(0)) \/ Fits(Gone)

\* A call that runs has a next step that counts its answers.
LEMMA NextAsks ==
  ASSUME KnowsItsAnswers, result = "none", rest # <<>>
  PROVE  Step.op = "send" => Step.n \in Nat
<1>1. PICK P : Asks(P)
  BY DEF KnowsItsAnswers
<1>2. Step \in P
  BY <1>1, HeadAndTail DEF Asks, Step
<1> QED
  BY <1>1, <1>2 DEF Asks

\* The stream remains a list of messages.
LEMMA StreamStays ==
  ASSUME KnowsItsAnswers, [Next]_vars
  PROVE  owed' \in Seq(Messages)
<1>1. owed \in Seq(Messages)
  BY DEF KnowsItsAnswers
<1>2. CASE Call
  BY <1>1, <1>2, AgedFits DEF Call
<1>3. CASE UNCHANGED owed
  BY <1>1, <1>3
<1>4. CASE Reopen \/ ConnectionFails \/ OpenConnection \/ DropConnection
  <2>1. owed' = <<>>
    BY <1>4 DEF Reopen, ConnectionFails, OpenConnection, DropConnection
  <2> QED
    BY <2>1, EmptyFits
<1>5. CASE SendRequest
  <2>1. result = "none" /\ rest # <<>>
    BY <1>5 DEF SendRequest, Running
  <2>2. Fits(Unsure)
    BY DEF Fits
  <2> QED
    BY <1>1, <1>5, <2>1, <2>2, NextAsks, SendLeads
<1>6. CASE ReadReply \/ ReadRefusal \/ ReadPart
  BY <1>1, <1>6, TakesOne DEF ReadReply, ReadRefusal, ReadPart
<1>7. CASE DeadlinePasses
  <2>1. Fits(Unsure)
    BY DEF Fits
  <2> QED
    BY <1>1, <1>7, <2>1, DeadlineLeads
<1>8. CASE \/ Return \/ ArgumentNull \/ ArgumentsGiven \/ ArgumentBad \/ ArgumentGood
           \/ TakeHandle \/ FreeHandle \/ GiveOut \/ PutOut \/ ReadEvent \/ GoesOn \/ Errs \/ Branch
           \/ UNCHANGED vars
  BY <1>3, <1>8 DEF Return, ArgumentNull, ArgumentsGiven, ArgumentBad, ArgumentGood, Refuse,
     TakeHandle, FreeHandle, GiveOut, PutOut, ReadEvent, GoesOn, Errs, Branch, RunsOn, conn, vars
<1> QED
  BY <1>2, <1>4, <1>5, <1>6, <1>7, <1>8 DEF Next

\* A call begins with its text on a stream that holds only old messages.
LEMMA KnowsItsAnswersBegins ==
  ASSUME MethodsInOrder, MakesCalls, KnowsItsAnswers, Call
  PROVE  KnowsItsAnswers'
<1> DEFINE S == AllSteps(fn')
<1>1. Begins
  BY DEF Call, Begins
<1>2. rest' = fn' /\ result' = "none" /\ fn' \in Methods[client] /\ client \in DOMAIN Methods
  BY <1>1 DEF Begins, MakesCalls
<1>3. InOrder(fn')
  BY <1>2 DEF MethodsInOrder
<1>4. owed' \in Seq(Messages) /\ (Fits(Owing(0))' \/ Fits(Gone)')
  BY AgedFits DEF Call, KnowsItsAnswers
<1>5. \E P : Asks(P)'
  <2>1. fn' \in Seq(S) /\ Complete(S)
    BY <1>3 DEF InOrder, Avoids
  <2>2. PICK M : M = Marked(S)
    OBVIOUS
  <2>3. Runs(M) /\ rest' \in Seq(M)
    BY <1>2, <2>1, <2>2, MarkedRuns, SeqMonotonic
  <2>4. \A t \in S : t.op = "send" => t.n \in Nat
    BY <2>1 DEF Complete
  <2>5. \A t \in M : t.op = "send" => t.n \in Nat
    <3> HIDE DEF S
    <3>1. \A t \in M : t.op # "else" => t \in S
      BY <2>2 DEF Marked, Marker
    <3> QED
      BY <2>4, <3>1
  <2>6. Asks(M)'
    BY <2>3, <2>5 DEF Asks
  <2> QED
    BY <2>6
<1>6. ASSUME fn' \notin LeavesAnswers
      PROVE  \E w : <<rest', w>> \in Alone(fn') /\ Fits(w)'
  <2>1. {fn'} \X {Owing(0), Gone} \subseteq Alone(fn')
    BY <1>3, <1>6 DEF InOrder, ReadsAnswers
  <2>2. <<rest', Owing(0)>> \in Alone(fn') /\ <<rest', Gone>> \in Alone(fn')
    BY <1>2, <2>1
  <2> QED
    BY <1>4, <2>2
<1> QED
  BY <1>2, <1>4, <1>5, <1>6 DEF KnowsItsAnswers

\* A call that is not exempt runs within what its text can do alone.
LEMMA WithinItsText ==
  ASSUME MethodsInOrder, MakesCalls, result = "none", fn \notin LeavesAnswers
  PROVE  /\ \A r, q, w, v :
              r # <<>> /\ <<r, w>> \in Alone(fn) /\ <<q, v>> \in Moves(r, w)
                => <<q, v>> \in Alone(fn)
         /\ \A w : <<<<>>, w>> \in Alone(fn) => w \in {Owing(0), Gone}
<1>1. ReadsAnswers(fn)
  BY DEF MakesCalls, MethodsInOrder, InOrder
<1>2. PICK R : R = Alone(fn)
  OBVIOUS
<1>3. Closed(R) /\ \A c \in R : c[1] = <<>> => c[2] \in {Owing(0), Gone}
  BY <1>1, <1>2 DEF ReadsAnswers
<1>4. ASSUME NEW r, NEW q, NEW w, NEW v, r # <<>>, <<r, w>> \in R, <<q, v>> \in Moves(r, w)
      PROVE  <<q, v>> \in R
  <2>1. Onwards(<<r, w>>) \subseteq R
    BY <1>3, <1>4 DEF Closed
  <2>2. <<q, v>> \in Onwards(<<r, w>>)
    BY <1>4 DEF Onwards
  <2> QED
    BY <2>1, <2>2
<1>5. ASSUME NEW w, <<<<>>, w>> \in R PROVE w \in {Owing(0), Gone}
  BY <1>3, <1>5
<1> QED
  BY <1>2, <1>4, <1>5

\* What a step of a call that runs leaves known.
LEMMA KnowsItsAnswersGoesOn ==
  ASSUME MethodsInOrder, MakesCalls, KnowsItsAnswers, Next, result = "none"
  PROVE  KnowsItsAnswers'
<1>1. owed' \in Seq(Messages)
  BY StreamStays
<1>2. ~Call /\ ~Reopen
  BY DEF Call, Reopen
<1>3. Ends \/ GoesAhead \/ Idles
  BY EveryStep DEF Begins
<1>4. fn' = fn /\ (result' = "none" \/ rest' = <<>>)
  BY <1>3 DEF Ends, Leave, GoesAhead, Idles
<1>5. result' = "none" => \E P : Asks(P)'
  <2> SUFFICES ASSUME result' = "none" PROVE \E P : Asks(P)'
    OBVIOUS
  <2>1. PICK P : Asks(P)
    BY DEF KnowsItsAnswers
  <2>2. CASE GoesAhead
    <3>1. rest' \in Seq(P)
      BY <2>1, <2>2, StaysInside DEF GoesAhead, Asks
    <3>2. Asks(P)'
      BY <2>1, <3>1 DEF Asks
    <3> QED
      BY <3>2
  <2>3. CASE Idles
    <3>1. Asks(P)'
      BY <2>1, <2>3 DEF Asks, Idles
    <3> QED
      BY <3>1
  <2> QED
    BY <1>3, <2>2, <2>3 DEF Ends, Leave
<1>6. ASSUME ~crossed', fn \notin LeavesAnswers
      PROVE  IF result' = "none" THEN \E w : <<rest', w>> \in Alone(fn') /\ Fits(w)'
             ELSE Fits(Owing(0))' \/ Fits(Gone)'
  <2>1. ~crossed
    BY <1>2, <1>6 DEF Next, Return, ArgumentNull, ArgumentsGiven, ArgumentBad, ArgumentGood, Refuse,
       TakeHandle, FreeHandle, GiveOut, PutOut, OpenConnection, ConnectionFails, SendRequest,
       Sends, ReadReply, ReadRefusal, ReadEvent, ReadPart, Takes, DropConnection,
       DeadlinePasses, GoesOn, Errs, Branch, RunsOn, conn
  <2>2. PICK w : <<rest, w>> \in Alone(fn) /\ Fits(w)
    BY <1>6, <2>1 DEF KnowsItsAnswers
  <2>3. CASE rest = <<>>
    <3>1. w \in {Owing(0), Gone}
      BY <1>6, <2>2, <2>3, WithinItsText
    <3>2. Return
      BY <1>2, <2>3 DEF Next, ArgumentNull, ArgumentsGiven, ArgumentBad, ArgumentGood, Refuse,
         TakeHandle, FreeHandle, GiveOut, PutOut, OpenConnection, ConnectionFails, SendRequest,
         Reading, ReadReply, ReadRefusal, ReadEvent, ReadPart, DropConnection, DeadlinePasses,
         GoesOn, Errs, Branch, Running
    <3>3. result' # "none" /\ owed' = owed /\ dead' = dead
      BY <3>2 DEF Return, Leave, conn
    <3> QED
      BY <2>2, <3>1, <3>3, SameFits
  <2>4. CASE rest # <<>>
    <3>1. Leads(w)
      BY <1>6, <2>2, <2>4, NextAsks, StepLeads DEF KnowsItsAnswers
    <3>2. PICK v : <<rest', v>> \in Moves(rest, w) /\ Fits(v)'
      BY <3>1 DEF Leads
    <3>3. <<rest', v>> \in Alone(fn)
      BY <1>6, <2>2, <2>4, <3>2, WithinItsText
    <3>4. rest' = <<>> => v \in {Owing(0), Gone}
      BY <1>6, <3>3, WithinItsText
    <3> QED
      BY <1>4, <3>2, <3>3, <3>4
  <2> QED
    BY <2>3, <2>4
<1> QED
  BY <1>1, <1>4, <1>5, <1>6 DEF KnowsItsAnswers

(***************************************************************************)
(* Whatever the clients, their methods and the order of their calls: a     *)
(* call that ends on a connection still usable has read what the device    *)
(* answers to it, if its text does so when it runs alone.                  *)
(***************************************************************************)
THEOREM AnswersAlwaysRead ==
  ASSUME MethodsInOrder
  PROVE  Spec => []AnswersAreRead
<1>1. Init => KnowsItsAnswers
  <2> SUFFICES ASSUME Init PROVE KnowsItsAnswers
    OBVIOUS
  <2>1. owed = <<>> /\ ~dead /\ result = "ok"
    BY DEF Init
  <2>2. owed \in Seq(Messages) /\ Len(owed) = 0
    BY <2>1
  <2>3. Fits(Owing(0))
    BY <2>1, <2>2, CallBounds DEF Fits, Owes
  <2> QED
    BY <2>1, <2>2, <2>3 DEF KnowsItsAnswers
<1>2. MakesCalls /\ KnowsItsAnswers /\ [Next]_vars => KnowsItsAnswers'
  <2> SUFFICES ASSUME MakesCalls, KnowsItsAnswers, [Next]_vars PROVE KnowsItsAnswers'
    OBVIOUS
  <2>1. CASE Call
    BY <2>1, KnowsItsAnswersBegins
  <2>2. CASE Next /\ result = "none"
    BY <2>2, KnowsItsAnswersGoesOn
  <2>3. CASE Reopen
    <3>1. owed' = <<>> /\ ~dead' /\ result' # "none"
      BY <2>3 DEF Reopen
    <3>2. owed' \in Seq(Messages) /\ Fits(Owing(0))'
      BY <3>1, EmptyFits
    <3> QED
      BY <3>1, <3>2 DEF KnowsItsAnswers
  <2>4. CASE UNCHANGED vars
    BY <2>4 DEF vars, KnowsItsAnswers, Asks, Fits, Owes, OwesParts
  <2>5. Call \/ Reopen \/ UNCHANGED vars \/ (Next /\ result = "none")
    BY DEF Next, Return, ArgumentNull, ArgumentsGiven, ArgumentBad, ArgumentGood, Refuse,
       TakeHandle, FreeHandle, GiveOut, PutOut, OpenConnection, ConnectionFails, SendRequest,
       Reading, ReadReply, ReadRefusal, ReadEvent, ReadPart, DropConnection, DeadlinePasses,
       GoesOn, Errs, Branch, Running
  <2> QED
    BY <2>1, <2>2, <2>3, <2>4, <2>5
<1>3. KnowsItsAnswers => AnswersAreRead
  <2> SUFFICES ASSUME KnowsItsAnswers, result # "none", ~dead, ~crossed, fn \notin LeavesAnswers,
                      NEW i \in DOMAIN owed
               PROVE  owed[i] \notin {"part", "last", "torn"}
    BY DEF AnswersAreRead
  <2>1. Fits(Owing(0)) \/ Fits(Gone)
    BY DEF KnowsItsAnswers
  <2>2. Owes(0)
    BY <2>1, Kinds DEF Fits
  <2>3. i \in 1..Len(owed) /\ Len(owed) \in Nat
    BY LenProperties DEF KnowsItsAnswers
  <2> QED
    BY <2>2, <2>3 DEF Owes, Old
<1> QED
  BY <1>1, <1>2, <1>3, CallsAreMethods, PTL DEF Spec

=============================================================================
