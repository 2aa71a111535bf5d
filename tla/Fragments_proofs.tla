-------------------------- MODULE Fragments_proofs --------------------------
(***************************************************************************)
(* Lemmas about Fragments, for any senders, messages and header widths:    *)
(* sequence and message numbers up to their modulus, what the first k      *)
(* fragments of a message are, what parse_report makes of them, and what   *)
(* a row of fragments does to a reassembly buffer.                         *)
(***************************************************************************)
EXTENDS Fragments, SequenceTheorems, TLAPS

Collects == [src : Senders, msg : Nat, idx : Nat]

BufferType == [data : Seq(Collects), expected_seq : Nat,
               message_number : -1..(MsgNums - 1), started : BOOLEAN]

\* The fragments that p sends.
Sent(p, f) == /\ f = Fragment(p, f.msg, f.idx)
              /\ f.msg \in DOMAIN Size[p] /\ f.idx \in 0..(Size[p][f.msg] - 1)

\* The first k fragments of p's message m.
FirstOf(p, m, k) == [i \in 1..k |-> Fragment(p, m, i - 1)]

(***************************************************************************)
(* Queues, for any elements                                                *)
(***************************************************************************)
\* Taking the head off a queue removes one occurrence of it.
LEMMA TailFacts ==
    ASSUME NEW S, NEW s \in Seq(S), s # <<>>
    PROVE  /\ Tail(s) \in Seq(S) /\ Head(s) \in S
           /\ ToSet(s) = {Head(s)} \cup ToSet(Tail(s))
           /\ IsInjective(s) => IsInjective(Tail(s)) /\ Head(s) \notin ToSet(Tail(s))
<1>1. Len(s) \in Nat /\ Len(s) >= 1 /\ Head(s) = s[1] /\ Head(s) \in S
  OBVIOUS
<1>2. Tail(s) \in Seq(S) /\ Len(Tail(s)) = Len(s) - 1
  OBVIOUS
<1>3. \A i \in 1..Len(Tail(s)) : Tail(s)[i] = s[i + 1]
  OBVIOUS
<1>4. DOMAIN s = 1..Len(s) /\ DOMAIN Tail(s) = 1..(Len(s) - 1)
  BY <1>2
<1>5. ToSet(s) = {Head(s)} \cup ToSet(Tail(s))
  <2>1. ASSUME NEW x \in ToSet(s) PROVE x \in {Head(s)} \cup ToSet(Tail(s))
    <3>1. PICK i \in 1..Len(s) : x = s[i]
      BY <1>4 DEF ToSet
    <3>2. CASE i = 1
      BY <3>1, <3>2, <1>1
    <3>3. CASE i # 1
      <4>1. i - 1 \in 1..(Len(s) - 1) /\ Tail(s)[i - 1] = s[i]
        BY <3>3, <1>1, <1>2, <1>3
      <4> QED BY <4>1, <3>1, <1>4 DEF ToSet
    <3> QED BY <3>2, <3>3
  <2>2. Head(s) \in ToSet(s)
    BY <1>1, <1>4 DEF ToSet
  <2>3. ASSUME NEW x \in ToSet(Tail(s)) PROVE x \in ToSet(s)
    <3>1. PICK i \in 1..(Len(s) - 1) : x = s[i + 1]
      BY <1>2, <1>3, <1>4 DEF ToSet
    <3> QED BY <3>1, <1>1, <1>4 DEF ToSet
  <2> QED BY <2>1, <2>2, <2>3
<1>6. ASSUME IsInjective(s)
      PROVE  IsInjective(Tail(s)) /\ Head(s) \notin ToSet(Tail(s))
  BY <1>1, <1>2, <1>3, <1>4, <1>6 DEF IsInjective, ToSet
<1> QED BY <1>1, <1>2, <1>5, <1>6

\* Appending an element that is not in the queue keeps it free of duplicates.
LEMMA AppendFacts ==
    ASSUME NEW S, NEW s \in Seq(S), NEW x \in S
    PROVE  /\ Append(s, x) \in Seq(S) /\ Append(s, x) # <<>>
           /\ ToSet(Append(s, x)) = ToSet(s) \cup {x}
           /\ IsInjective(s) /\ x \notin ToSet(s) => IsInjective(Append(s, x))
           /\ s # <<>> => Head(Append(s, x)) = Head(s)
           /\ s = <<>> => Head(Append(s, x)) = x
<1> DEFINE t == Append(s, x)
<1>1. /\ t \in Seq(S) /\ Len(t) = Len(s) + 1 /\ Len(s) \in Nat
      /\ t[Len(s) + 1] = x
      /\ \A i \in 1..Len(s) : t[i] = s[i]
  OBVIOUS
<1>2. DOMAIN s = 1..Len(s) /\ DOMAIN t = 1..(Len(s) + 1)
  BY <1>1
<1>3. ToSet(t) = ToSet(s) \cup {x}
  <2>1. ASSUME NEW y \in ToSet(t) PROVE y \in ToSet(s) \cup {x}
    <3>1. PICK i \in 1..(Len(s) + 1) : y = t[i]
      BY <1>2 DEF ToSet
    <3>2. CASE i = Len(s) + 1
      BY <3>1, <3>2, <1>1
    <3>3. CASE i # Len(s) + 1
      <4>1. i \in 1..Len(s)
        BY <3>3, <1>1
      <4> QED BY <4>1, <3>1, <1>1, <1>2 DEF ToSet
    <3> QED BY <3>2, <3>3
  <2>2. ASSUME NEW y \in ToSet(s) PROVE y \in ToSet(t)
    <3>1. PICK i \in 1..Len(s) : y = s[i]
      BY <1>2 DEF ToSet
    <3>2. i \in 1..(Len(s) + 1) /\ y = t[i]
      BY <3>1, <1>1
    <3> QED BY <3>2, <1>2 DEF ToSet
  <2>3. x \in ToSet(t)
    <3>1. Len(s) + 1 \in DOMAIN t /\ t[Len(s) + 1] = x
      BY <1>1, <1>2
    <3> QED BY <3>1 DEF ToSet
  <2> QED BY <2>1, <2>2, <2>3
<1>4. IsInjective(s) /\ x \notin ToSet(s) => IsInjective(t)
  BY <1>1, <1>2 DEF IsInjective, ToSet
<1>5. s # <<>> => Head(t) = Head(s)
  OBVIOUS
<1>6. s = <<>> => Head(t) = x
  OBVIOUS
<1> HIDE DEF t
<1> QED
  <2>1. t \in Seq(S) /\ t # <<>>
    BY <1>1
  <2> QED BY <2>1, <1>3, <1>4, <1>5, <1>6 DEF t

\* Showing each element of a queue by g goes with taking and appending.
LEMMA ShownFacts ==
    ASSUME NEW S, NEW T, NEW g \in [S -> T], NEW s \in Seq(S)
    PROVE  LET Shown(q) == [i \in DOMAIN q |-> g[q[i]]]
           IN  /\ Len(Shown(s)) = Len(s)
               /\ s = <<>> <=> Shown(s) = <<>>
               /\ \A x \in S : Shown(Append(s, x)) = Append(Shown(s), g[x])
               /\ s # <<>> => /\ Shown(Tail(s)) = Tail(Shown(s))
                              /\ Head(Shown(s)) = g[Head(s)]
<1> DEFINE Shown(q) == [i \in DOMAIN q |-> g[q[i]]]
<1>1. ASSUME NEW q \in Seq(S)
      PROVE  /\ Shown(q) \in Seq(T) /\ Len(Shown(q)) = Len(q)
             /\ \A i \in 1..Len(q) : Shown(q)[i] = g[q[i]]
  BY <1>1
<1> HIDE DEF Shown
<1>2. s = <<>> <=> Shown(s) = <<>>
  BY <1>1
<1>3. ASSUME NEW x \in S PROVE Shown(Append(s, x)) = Append(Shown(s), g[x])
  <2>1. /\ Append(s, x) \in Seq(S) /\ Len(Append(s, x)) = Len(s) + 1 /\ Len(s) \in Nat
        /\ \A i \in 1..Len(s) : Append(s, x)[i] = s[i]
        /\ Append(s, x)[Len(s) + 1] = x
    OBVIOUS
  <2>2. /\ Shown(s) \in Seq(T) /\ Len(Shown(s)) = Len(s) /\ g[x] \in T
        /\ \A i \in 1..Len(s) : Shown(s)[i] = g[s[i]]
    BY <1>1
  <2> DEFINE a == Append(s, x)
             b == Append(Shown(s), g[x])
  <2>3. /\ b \in Seq(T) /\ Len(b) = Len(s) + 1 /\ b[Len(s) + 1] = g[x]
        /\ \A i \in 1..Len(s) : b[i] = g[s[i]]
    BY <2>1, <2>2
  <2>4. /\ Shown(a) \in Seq(T) /\ Len(Shown(a)) = Len(s) + 1
        /\ \A i \in 1..(Len(s) + 1) : Shown(a)[i] = g[a[i]]
    BY <2>1, <1>1
  <2>5. \A i \in 1..(Len(s) + 1) : Shown(a)[i] = b[i]
    <3> TAKE i \in 1..(Len(s) + 1)
    <3>1. CASE i = Len(s) + 1
      BY <3>1, <2>1, <2>3, <2>4
    <3>2. CASE i # Len(s) + 1
      <4>1. i \in 1..Len(s)
        BY <3>2, <2>1
      <4> QED BY <4>1, <2>1, <2>3, <2>4
    <3> QED BY <3>1, <3>2
  <2> HIDE DEF a, b
  <2>6. Shown(a) = b
    BY <2>3, <2>4, <2>5, SeqEqual
  <2> QED BY <2>6 DEF a, b
<1>4. ASSUME s # <<>>
      PROVE  Shown(Tail(s)) = Tail(Shown(s)) /\ Head(Shown(s)) = g[Head(s)]
  <2>1. /\ Tail(s) \in Seq(S) /\ Len(Tail(s)) = Len(s) - 1 /\ Len(s) \in Nat /\ Len(s) >= 1
        /\ \A i \in 1..(Len(s) - 1) : Tail(s)[i] = s[i + 1]
        /\ Head(s) = s[1]
    BY <1>4
  <2>2. /\ Shown(s) \in Seq(T) /\ Len(Shown(s)) = Len(s)
        /\ \A i \in 1..Len(s) : Shown(s)[i] = g[s[i]]
    BY <1>1
  <2> DEFINE a == Tail(s)
             b == Tail(Shown(s))
  <2>3. Head(Shown(s)) = g[Head(s)]
    BY <2>1, <2>2
  <2>4. /\ b \in Seq(T) /\ Len(b) = Len(s) - 1
        /\ \A i \in 1..(Len(s) - 1) : b[i] = Shown(s)[i + 1]
    BY <2>1, <2>2
  <2>5. /\ Shown(a) \in Seq(T) /\ Len(Shown(a)) = Len(s) - 1
        /\ \A i \in 1..(Len(s) - 1) : Shown(a)[i] = g[a[i]]
    BY <2>1, <1>1
  <2>6. \A i \in 1..(Len(s) - 1) : Shown(a)[i] = b[i]
    BY <2>1, <2>2, <2>4, <2>5
  <2> HIDE DEF a, b
  <2>7. Shown(a) = b
    BY <2>4, <2>5, <2>6, SeqEqual
  <2> QED BY <2>3, <2>7 DEF a, b
<1>5. Len(Shown(s)) = Len(s)
  BY <1>1
<1> QED BY <1>2, <1>3, <1>4, <1>5 DEF Shown

(***************************************************************************)
(* Numbers in headers                                                      *)
(***************************************************************************)
LEMMA Division ==
    ASSUME NEW a \in Nat, NEW k \in Nat \ {0}
    PROVE  a = k * (a \div k) + (a % k) /\ a \div k \in Int /\ a % k \in 0..(k - 1)
OBVIOUS

LEMMA NoSmallMultiple ==
    ASSUME NEW x \in Int, NEW k \in Nat \ {0}, 0 < k * x, k * x < k
    PROVE  FALSE
<1>1. x > 0
  OBVIOUS
<1>2. k * x >= k
  BY <1>1
<1> QED BY <1>2

\* Numbers less than a modulus apart are told apart by it.
LEMMA ModApart ==
    ASSUME NEW a \in Nat, NEW b \in Nat, NEW k \in Nat \ {0}, a < b, b < a + k
    PROVE  a % k # b % k
<1> SUFFICES ASSUME a % k = b % k PROVE FALSE
  OBVIOUS
<1> DEFINE x == (b \div k) - (a \div k)
<1>1. /\ a = k * (a \div k) + (a % k) /\ a \div k \in Int
      /\ b = k * (b \div k) + (b % k) /\ b \div k \in Int
      /\ a % k \in Int
  BY Division
<1>2. b - a = k * (b \div k) - k * (a \div k)
  BY <1>1
<1>3. k * (b \div k) - k * (a \div k) = k * x
  BY <1>1
<1>4. x \in Int
  BY <1>1
<1> HIDE DEF x
<1> QED BY <1>2, <1>3, <1>4, NoSmallMultiple

(***************************************************************************)
(* Messages                                                                *)
(***************************************************************************)
LEMMA SizeFacts ==
    ASSUME NEW p \in Senders, NEW m \in DOMAIN Size[p]
    PROVE  Size[p][m] \in Nat \ {0} /\ m \in Nat \ {0}
<1>1. Size[p] \in Seq(Nat \ {0})
  BY FragmentsAssumption
<1> QED BY <1>1

LEMMA SentFacts ==
    ASSUME NEW p \in Senders, NEW f, Sent(p, f)
    PROVE  /\ f \in Collects /\ f.src = p /\ f.msg \in DOMAIN Size[p]
           /\ f.msg \in Nat \ {0} /\ f.idx \in Nat /\ f.idx < Size[p][f.msg]
           /\ Size[p][f.msg] \in Nat \ {0}
           /\ f = Fragment(p, f.msg, f.idx)
           /\ IsFirst(f) <=> f.idx = 0
           /\ IsLast(f) <=> f.idx + 1 = Size[p][f.msg]
           /\ SeqNum(f) = f.idx % SeqNums /\ MsgNum(f) = f.msg % MsgNums
           /\ MsgNum(f) \in 0..(MsgNums - 1)
<1>1. f = Fragment(p, f.msg, f.idx) /\ f.msg \in DOMAIN Size[p]
      /\ f.idx \in 0..(Size[p][f.msg] - 1)
  BY DEF Sent
<1>2. Size[p][f.msg] \in Nat \ {0} /\ f.msg \in Nat \ {0}
  BY <1>1, SizeFacts
<1>3. f.src = p
  BY <1>1 DEF Fragment
<1>4. f \in Collects
  BY <1>1, <1>2 DEF Fragment, Collects
<1>5. f.msg % MsgNums \in 0..(MsgNums - 1)
  BY <1>2, Division, FragmentsAssumption
<1> QED BY <1>1, <1>2, <1>3, <1>4, <1>5 DEF IsFirst, IsLast, SeqNum, MsgNum

\* What follows a fragment is the next one of its message, or the first one of
\* the next message.
LEMMA FollowingFacts ==
    ASSUME NEW p \in Senders, NEW f, Sent(p, f)
    PROVE  /\ IsLast(f) => Following(f) = Fragment(p, f.msg + 1, 0)
           /\ ~IsLast(f) => Following(f) = Fragment(p, f.msg, f.idx + 1)
                            /\ f.idx + 1 < Size[p][f.msg]
           /\ Following(f) \in Collects
<1>1. /\ f = Fragment(p, f.msg, f.idx) /\ f.src = p /\ f.msg \in Nat /\ f.idx \in Nat
      /\ f.idx < Size[p][f.msg] /\ Size[p][f.msg] \in Nat
      /\ IsLast(f) <=> f.idx + 1 = Size[p][f.msg]
  BY SentFacts
<1>2. [f EXCEPT !.idx = @ + 1] = Fragment(p, f.msg, f.idx + 1)
  BY <1>1 DEF Fragment
<1> QED BY <1>1, <1>2 DEF Following, Fragment, Collects

LEMMA FirstOfFacts ==
    ASSUME NEW p \in Senders, NEW m \in Nat, NEW k \in Nat
    PROVE  /\ FirstOf(p, m, k) \in Seq(Collects) /\ Len(FirstOf(p, m, k)) = k
           /\ \A i \in 1..k : FirstOf(p, m, k)[i] = Fragment(p, m, i - 1)
           /\ FirstOf(p, m, 0) = <<>>
           /\ Append(FirstOf(p, m, k), Fragment(p, m, k)) = FirstOf(p, m, k + 1)
<1>1. \A i \in 1..k : Fragment(p, m, i - 1) \in Collects
  BY DEF Fragment, Collects
<1>2. /\ FirstOf(p, m, k) \in Seq(Collects) /\ Len(FirstOf(p, m, k)) = k
      /\ \A i \in 1..k : FirstOf(p, m, k)[i] = Fragment(p, m, i - 1)
  BY <1>1 DEF FirstOf
<1>3. FirstOf(p, m, 0) = <<>>
  BY DEF FirstOf
<1>4. Append(FirstOf(p, m, k), Fragment(p, m, k)) = FirstOf(p, m, k + 1)
  <2>1. /\ FirstOf(p, m, k + 1) \in Seq(Collects) /\ Len(FirstOf(p, m, k + 1)) = k + 1
        /\ \A i \in 1..(k + 1) : FirstOf(p, m, k + 1)[i] = Fragment(p, m, i - 1)
    <3>1. \A i \in 1..(k + 1) : Fragment(p, m, i - 1) \in Collects
      BY DEF Fragment, Collects
    <3> QED BY <3>1 DEF FirstOf
  <2>2. Fragment(p, m, k) \in Collects
    BY DEF Fragment, Collects
  <2> DEFINE a == Append(FirstOf(p, m, k), Fragment(p, m, k))
  <2>3. /\ a \in Seq(Collects) /\ Len(a) = k + 1
        /\ \A i \in 1..(k + 1) : a[i] = Fragment(p, m, i - 1)
    BY <1>2, <2>2
  <2> HIDE DEF a
  <2>4. a = FirstOf(p, m, k + 1)
    BY <2>1, <2>3, SeqEqual
  <2> QED BY <2>4 DEF a
<1> QED BY <1>2, <1>3, <1>4

\* parse_report knows a whole message, and makes nothing of a truncated one.
LEMMA ParseFacts ==
    ASSUME NEW p \in Senders, NEW m \in DOMAIN Size[p], NEW k \in 1..Size[p][m]
    PROVE  /\ FirstOf(p, m, k) # <<>> /\ FirstOf(p, m, k)[1] = Fragment(p, m, 0)
           /\ k = Size[p][m] => /\ ParseReport(FirstOf(p, m, k)) = {<<p, m>> \notin Garbage}
                                /\ IsWhole(FirstOf(p, m, k))
           /\ k # Size[p][m] => ParseReport(FirstOf(p, m, k)) = {FALSE}
<1> DEFINE d == FirstOf(p, m, k)
           n == Size[p][m]
<1>1. n \in Nat \ {0} /\ m \in Nat /\ k \in Nat /\ k >= 1 /\ k <= n
  BY SizeFacts
<1>2. d \in Seq(Collects) /\ Len(d) = k /\ \A i \in 1..k : d[i] = Fragment(p, m, i - 1)
  BY <1>1, FirstOfFacts
<1>3. Message(p, m) = FirstOf(p, m, n)
  BY DEF Message, FirstOf
<1> HIDE DEF d, n
<1>4. /\ Message(p, m) \in Seq(Collects) /\ Len(Message(p, m)) = n
      /\ \A i \in 1..n : Message(p, m)[i] = Fragment(p, m, i - 1)
  <2>1. n \in Nat /\ m \in Nat
    BY <1>1
  <2>2. /\ FirstOf(p, m, n) \in Seq(Collects) /\ Len(FirstOf(p, m, n)) = n
        /\ \A i \in 1..n : FirstOf(p, m, n)[i] = Fragment(p, m, i - 1)
    BY <2>1, FirstOfFacts
  <2> QED BY <2>2, <1>3
<1>5. d # <<>> /\ d[1] = Fragment(p, m, 0) /\ d[1].src = p /\ d[1].msg = m
  BY <1>1, <1>2 DEF Fragment
<1>6. k = n => d = Message(p, m)
  BY <1>3 DEF d
<1>7. k # n => d # Message(p, m)
  BY <1>1, <1>2, <1>4
<1>8. k # n => IsStrictPrefix(d, Message(p, m))
  <2> SUFFICES ASSUME k # n PROVE IsStrictPrefix(d, Message(p, m))
    OBVIOUS
  <2>1. SubSeq(d, 1, k) = d
    BY <1>1, <1>2
  <2>2. /\ SubSeq(Message(p, m), 1, k) \in Seq(Collects)
        /\ Len(SubSeq(Message(p, m), 1, k)) = k
        /\ \A i \in 1..k : SubSeq(Message(p, m), 1, k)[i] = Message(p, m)[i]
    BY <1>1, <1>4
  <2>3. SubSeq(Message(p, m), 1, k) = d
    BY <1>1, <1>2, <1>4, <2>2
  <2> QED BY <1>1, <1>2, <1>4, <1>7, <2>1, <2>3 DEF IsStrictPrefix, IsPrefix
<1>9. k = n => ParseReport(d) = {<<p, m>> \notin Garbage} /\ IsWhole(d)
  <2> SUFFICES ASSUME k = n PROVE ParseReport(d) = {<<p, m>> \notin Garbage} /\ IsWhole(d)
    OBVIOUS
  <2>1. d = Message(d[1].src, d[1].msg) /\ <<d[1].src, d[1].msg>> = <<p, m>>
    BY <1>5, <1>6
  <2>2. ~IsStrictPrefix(d, Message(d[1].src, d[1].msg))
    BY <2>1 DEF IsStrictPrefix
  <2>3. ParseReport(d) = {<<d[1].src, d[1].msg>> \notin Garbage}
    BY <1>5, <2>1, <2>2, Zenon DEF ParseReport
  <2> QED BY <1>5, <2>1, <2>3 DEF IsWhole
<1>10. k # n => ParseReport(d) = {FALSE}
  <2> SUFFICES ASSUME k # n PROVE ParseReport(d) = {FALSE}
    OBVIOUS
  <2>1. d # Message(d[1].src, d[1].msg) /\ IsStrictPrefix(d, Message(d[1].src, d[1].msg))
    BY <1>5, <1>7, <1>8
  <2> QED BY <1>5, <2>1, Zenon DEF ParseReport
<1> QED BY <1>5, <1>9, <1>10 DEF d, n

LEMMA ParseIsBoolean ==
    ASSUME NEW d
    PROVE  ParseReport(d) \subseteq BOOLEAN
<1> DEFINE p == d[1].src
           m == d[1].msg
<1>1. CASE d = <<>>
  BY <1>1 DEF ParseReport
<1>2. CASE d # <<>> /\ d = Message(p, m)
  <2>1. ~IsStrictPrefix(d, Message(p, m))
    BY <1>2 DEF IsStrictPrefix
  <2>2. ParseReport(d) = {<<p, m>> \notin Garbage}
    BY <1>2, <2>1, Zenon DEF ParseReport
  <2> QED BY <2>2
<1>3. CASE d # <<>> /\ d # Message(p, m) /\ IsStrictPrefix(d, Message(p, m))
  <2>1. ParseReport(d) = {FALSE}
    BY <1>3, Zenon DEF ParseReport
  <2> QED BY <2>1
<1>4. CASE d # <<>> /\ d # Message(p, m) /\ ~IsStrictPrefix(d, Message(p, m))
  <2>1. ParseReport(d) = BOOLEAN
    BY <1>4, Zenon DEF ParseReport
  <2> QED BY <2>1
<1> QED BY <1>1, <1>2, <1>3, <1>4

(***************************************************************************)
(* The reassembly buffer                                                   *)
(***************************************************************************)
\* The buffer with f at its end, and the next fragment expected.
Longer(b, f) == [b EXCEPT !.data = Append(@, f), !.expected_seq = @ + 1]

\* The open buffer b holds the first k fragments of p's message m.
Holds(b, p, m, k) ==
    /\ b.started /\ b.message_number = m % MsgNums
    /\ b.expected_seq = k /\ b.data = FirstOf(p, m, k)

LEMMA FreshFacts == Fresh \in BufferType /\ ~Fresh.started
<1>1. -1 \in -1..(MsgNums - 1)
  BY FragmentsAssumption
<1>2. <<>> \in Seq(Collects)
  OBVIOUS
<1> QED BY <1>1, <1>2 DEF Fresh, BufferType

LEMMA BufferFacts ==
    ASSUME NEW b \in BufferType, NEW f \in Collects
    PROVE  /\ Reset(b) \in BufferType /\ ~Reset(b).started
           /\ Longer(b, f) \in BufferType
           /\ Longer(b, f).started = b.started
           /\ Longer(b, f).message_number = b.message_number
           /\ Longer(b, f).expected_seq = b.expected_seq + 1
           /\ Longer(b, f).data = Append(b.data, f)
<1>1. <<>> \in Seq(Collects) /\ Append(b.data, f) \in Seq(Collects) /\ b.expected_seq + 1 \in Nat
  BY DEF BufferType
<1>2. Reset(b) \in BufferType /\ ~Reset(b).started
  BY <1>1 DEF Reset, BufferType
<1>3. /\ Longer(b, f) \in BufferType
      /\ Longer(b, f).started = b.started
      /\ Longer(b, f).message_number = b.message_number
      /\ Longer(b, f).expected_seq = b.expected_seq + 1
      /\ Longer(b, f).data = Append(b.data, f)
  BY <1>1 DEF Longer, BufferType
<1> QED BY <1>2, <1>3

LEMMA OpenedFacts ==
    ASSUME NEW b \in BufferType, NEW p \in Senders, NEW f, Sent(p, f)
    PROVE  /\ Opened(b, f) \in BufferType
           /\ ~IsFirst(f) => Opened(b, f) = b
           /\ ~Orphan(b, f) => /\ Opened(b, f).started
                               /\ Opened(b, f).message_number = f.msg % MsgNums
           /\ IsFirst(f) => ~Orphan(b, f) /\ Holds(Opened(b, f), p, f.msg, 0)
<1>1. /\ f \in Collects /\ f.msg \in Nat /\ MsgNum(f) = f.msg % MsgNums
      /\ MsgNum(f) \in 0..(MsgNums - 1) /\ MsgNums \in Nat \ {0}
  BY SentFacts, FragmentsAssumption
<1>2. Reset(b) \in BufferType
  BY <1>1, BufferFacts
<1>3. FirstOf(p, f.msg, 0) = <<>>
  BY <1>1, FirstOfFacts
<1>4. CASE IsFirst(f)
  <2>1. Opened(b, f) = [Reset(b) EXCEPT !.started = TRUE, !.message_number = MsgNum(f)]
    BY <1>4 DEF Opened
  <2>2. /\ Opened(b, f) \in BufferType /\ Opened(b, f).started
        /\ Opened(b, f).message_number = MsgNum(f)
        /\ Opened(b, f).expected_seq = Reset(b).expected_seq
        /\ Opened(b, f).data = Reset(b).data
    <3>1. MsgNum(f) \in -1..(MsgNums - 1)
      BY <1>1
    <3> QED BY <1>2, <2>1, <3>1 DEF BufferType
  <2>3. Reset(b).expected_seq = 0 /\ Reset(b).data = <<>>
    BY DEF Reset, BufferType
  <2>4. ~Orphan(b, f)
    BY <1>4 DEF Orphan
  <2> QED BY <1>1, <1>3, <1>4, <2>2, <2>3, <2>4 DEF Holds
<1>5. CASE ~IsFirst(f)
  BY <1>1, <1>5 DEF Opened, Orphan, BufferType
<1> QED BY <1>4, <1>5

\* The next fragment of a row is kept by a buffer that holds the row so far.
LEMMA RowIsKept ==
    ASSUME NEW b \in BufferType, NEW p \in Senders, NEW f, Sent(p, f),
           IsFirst(f) \/ Holds(b, p, f.msg, f.idx)
    PROVE  /\ ~Orphan(b, f) /\ Expected(Opened(b, f), f)
           /\ Longer(Opened(b, f), f) \in BufferType
           /\ Holds(Longer(Opened(b, f), f), p, f.msg, f.idx + 1)
<1>1. /\ f \in Collects /\ f.msg \in Nat /\ f.idx \in Nat /\ f = Fragment(p, f.msg, f.idx)
      /\ MsgNum(f) = f.msg % MsgNums /\ SeqNum(f) = f.idx % SeqNums
      /\ IsFirst(f) <=> f.idx = 0
  BY SentFacts
<1>2. Opened(b, f) \in BufferType
  BY OpenedFacts
<1>3. ~Orphan(b, f) /\ Holds(Opened(b, f), p, f.msg, f.idx)
  <2>1. CASE IsFirst(f)
    <3>1. ~Orphan(b, f) /\ Holds(Opened(b, f), p, f.msg, 0)
      BY <2>1, OpenedFacts
    <3> QED BY <1>1, <2>1, <3>1
  <2>2. CASE ~IsFirst(f)
    <3>1. Opened(b, f) = b
      BY <2>2, OpenedFacts
    <3>2. ~Orphan(b, f)
      BY <1>1, <2>2 DEF Orphan, Holds
    <3> QED BY <2>2, <3>1, <3>2
  <2> QED BY <2>1, <2>2
<1>4. Expected(Opened(b, f), f)
  BY <1>1, <1>3 DEF Expected, Holds
<1>5. Append(FirstOf(p, f.msg, f.idx), f) = FirstOf(p, f.msg, f.idx + 1)
  <2>1. f.msg \in Nat /\ f.idx \in Nat
    BY <1>1
  <2>2. Append(FirstOf(p, f.msg, f.idx), Fragment(p, f.msg, f.idx)) = FirstOf(p, f.msg, f.idx + 1)
    BY <2>1, FirstOfFacts
  <2>3. f = Fragment(p, f.msg, f.idx)
    BY <1>1
  <2> QED BY <2>2, <2>3, Zenon
<1>6. /\ Longer(Opened(b, f), f) \in BufferType
      /\ Longer(Opened(b, f), f).started = Opened(b, f).started
      /\ Longer(Opened(b, f), f).message_number = Opened(b, f).message_number
      /\ Longer(Opened(b, f), f).expected_seq = Opened(b, f).expected_seq + 1
      /\ Longer(Opened(b, f), f).data = Append(Opened(b, f).data, f)
  BY <1>1, <1>2, BufferFacts
<1>7. Holds(Longer(Opened(b, f), f), p, f.msg, f.idx + 1)
  BY <1>3, <1>5, <1>6 DEF Holds
<1> QED BY <1>3, <1>4, <1>6, <1>7

(***************************************************************************)
(* Rows.  The history variables heard and run say how many fragments of    *)
(* the message heard of last came in a row.                                *)
(***************************************************************************)
\* The buffer b holds the row that the bystander has noted, if one is under way.
RowIsHeld(b, p, h, r) ==
    r > 0 => /\ h \in DOMAIN Size[p] /\ r <= Size[p][h]
             /\ r < Size[p][h] => Holds(b, p, h, r)

\* What InARow makes of f: the row goes on and is held, or there is none.
LEMMA RowFacts ==
    ASSUME NEW b \in BufferType, NEW p \in Senders, NEW f, Sent(p, f),
           NEW h \in Nat, NEW r \in Nat, RowIsHeld(b, p, h, r)
    PROVE  LET row == InARow(f, h, r)
           IN  /\ row \in {0, f.idx + 1}
               /\ row > 0 => IsFirst(f) \/ (h = f.msg /\ r = f.idx /\ Holds(b, p, f.msg, f.idx))
               /\ IsFirst(f) \/ (h = f.msg /\ r = f.idx) => row = f.idx + 1
               /\ row = Size[p][f.msg] => row > 0 /\ IsLast(f)
               /\ row <= Size[p][f.msg]
<1> DEFINE row == InARow(f, h, r)
<1>1. /\ f.idx \in Nat /\ f.msg \in DOMAIN Size[p] /\ f.idx < Size[p][f.msg]
      /\ Size[p][f.msg] \in Nat \ {0} /\ f.msg \in Nat
      /\ IsFirst(f) <=> f.idx = 0
      /\ IsLast(f) <=> f.idx + 1 = Size[p][f.msg]
  BY SentFacts
<1>2. /\ IsFirst(f) => row = 1
      /\ ~IsFirst(f) /\ h = f.msg /\ r = f.idx => row = f.idx + 1
      /\ ~IsFirst(f) /\ ~(h = f.msg /\ r = f.idx) => row = 0
  BY DEF InARow
<1> HIDE DEF row
<1>3. ~IsFirst(f) /\ h = f.msg /\ r = f.idx => Holds(b, p, f.msg, f.idx)
  BY <1>1 DEF RowIsHeld
<1>4. /\ row \in {0, f.idx + 1}
      /\ row > 0 => IsFirst(f) \/ (h = f.msg /\ r = f.idx /\ Holds(b, p, f.msg, f.idx))
      /\ IsFirst(f) \/ (h = f.msg /\ r = f.idx) => row = f.idx + 1
  BY <1>1, <1>2, <1>3
<1>5. /\ row = Size[p][f.msg] => row > 0 /\ IsLast(f)
      /\ row <= Size[p][f.msg]
  BY <1>1, <1>4
<1> QED BY <1>4, <1>5 DEF row

(***************************************************************************)
(* Order.  Without strays the fragments of a sender come in the order in   *)
(* which it sends them, and some not at all.                               *)
(***************************************************************************)
\* f is what p sends next, h the message it was heard of last.  An open buffer
\* is of that message, and while it goes on the buffer either holds all of it
\* that was sent, a row of r, or waits for a fragment that is past.
Ordered(b, p, h, r, f) ==
    /\ h <= f.msg
    /\ h = f.msg => f.idx > 0
    /\ h > 0 /\ f.idx > 0 => f.msg < h + MsgNums
    /\ b.started =>
          /\ h > 0 /\ b.message_number = h % MsgNums
          /\ h = f.msg =>
                \/ b.expected_seq = f.idx /\ b.data = FirstOf(p, h, f.idx) /\ r = f.idx
                \/ /\ b.expected_seq < f.idx
                   /\ \E k \in 1..(f.idx - 1) : b.data = FirstOf(p, h, k)

\* A fragment that is no orphan is the next of a row that the buffer holds, or
\* the buffer holds a shorter part of its message and does not expect it.
LEMMA RowOrBehind ==
    ASSUME NEW b \in BufferType, NEW p \in Senders, NEW f, Sent(p, f),
           NEW h \in Nat, NEW r \in Nat, Ordered(b, p, h, r, f),
           Size[p][f.msg] <= SeqNums, ~Orphan(b, f)
    PROVE  \/ IsFirst(f) \/ (h = f.msg /\ r = f.idx /\ Holds(b, p, f.msg, f.idx))
           \/ /\ ~IsFirst(f) /\ h = f.msg /\ Opened(b, f) = b /\ ~Expected(b, f)
              /\ b.started /\ b.message_number = f.msg % MsgNums
              /\ b.expected_seq < f.idx
              /\ \E k \in 1..(f.idx - 1) : b.data = FirstOf(p, f.msg, k)
<1>1. /\ f.msg \in Nat \ {0} /\ f.idx \in Nat /\ f.idx < Size[p][f.msg]
      /\ Size[p][f.msg] \in Nat
      /\ IsFirst(f) <=> f.idx = 0
      /\ SeqNum(f) = f.idx % SeqNums /\ MsgNum(f) = f.msg % MsgNums
  BY SentFacts
<1>2. SeqNums \in Nat \ {0} /\ MsgNums \in Nat \ {0} /\ b.expected_seq \in Nat
  BY FragmentsAssumption DEF BufferType
<1> SUFFICES ASSUME ~IsFirst(f)
             PROVE  \/ h = f.msg /\ r = f.idx /\ Holds(b, p, f.msg, f.idx)
                    \/ /\ h = f.msg /\ Opened(b, f) = b /\ ~Expected(b, f)
                       /\ b.started /\ b.message_number = f.msg % MsgNums
                       /\ b.expected_seq < f.idx
                       /\ \E k \in 1..(f.idx - 1) : b.data = FirstOf(p, f.msg, k)
  OBVIOUS
<1>3. b.started /\ b.message_number = f.msg % MsgNums
  BY <1>1 DEF Orphan
<1>4. h > 0 /\ h % MsgNums = f.msg % MsgNums /\ h <= f.msg /\ f.msg < h + MsgNums
  BY <1>1, <1>3 DEF Ordered
<1>5. h = f.msg
  BY <1>1, <1>2, <1>4, ModApart
<1>6. CASE b.expected_seq = f.idx /\ b.data = FirstOf(p, h, f.idx) /\ r = f.idx
  BY <1>3, <1>5, <1>6 DEF Holds
<1>7. CASE /\ b.expected_seq < f.idx
           /\ \E k \in 1..(f.idx - 1) : b.data = FirstOf(p, h, k)
  <2>1. f.idx < b.expected_seq + SeqNums
    BY <1>1, <1>2
  <2>2. f.idx % SeqNums # b.expected_seq % SeqNums
    BY <1>1, <1>2, <1>7, <2>1, ModApart
  <2>3. ~Expected(b, f)
    BY <1>1, <2>2 DEF Expected
  <2>4. Opened(b, f) = b
    BY OpenedFacts
  <2> QED BY <1>3, <1>5, <1>7, <2>3, <2>4
<1> QED BY <1>3, <1>5, <1>6, <1>7 DEF Ordered

\* How a buffer is left in order: it is closed, holds the row up to f, or waits
\* for a fragment that is past.
LEMMA ArrivalKeepsOrder ==
    ASSUME NEW n \in BufferType, NEW p \in Senders, NEW f, Sent(p, f), NEW r \in Nat,
           \/ ~n.started
           \/ Holds(n, p, f.msg, f.idx + 1) /\ r = f.idx + 1
           \/ /\ n.started /\ n.message_number = f.msg % MsgNums
              /\ n.expected_seq <= f.idx
              /\ \E k \in 1..f.idx : n.data = FirstOf(p, f.msg, k)
    PROVE  Ordered(n, p, f.msg, r, Following(f))
<1>1. /\ f.msg \in Nat \ {0} /\ f.idx \in Nat /\ MsgNums \in Nat \ {0}
      /\ n.expected_seq \in Nat
  BY SentFacts, FragmentsAssumption DEF BufferType
<1>2. n.started => n.message_number = f.msg % MsgNums
  BY DEF Holds
<1>3. CASE IsLast(f)
  <2>1. Following(f) = Fragment(p, f.msg + 1, 0)
    BY <1>3, FollowingFacts
  <2>2. Following(f).msg = f.msg + 1 /\ Following(f).idx = 0
    BY <2>1 DEF Fragment
  <2> QED BY <1>1, <1>2, <2>2 DEF Ordered
<1>4. CASE ~IsLast(f)
  <2>1. Following(f) = Fragment(p, f.msg, f.idx + 1)
    BY <1>4, FollowingFacts
  <2>2. Following(f).msg = f.msg /\ Following(f).idx = f.idx + 1
    BY <2>1 DEF Fragment
  <2>3. n.started =>
           \/ n.expected_seq = f.idx + 1 /\ n.data = FirstOf(p, f.msg, f.idx + 1) /\ r = f.idx + 1
           \/ /\ n.expected_seq < f.idx + 1
              /\ \E k \in 1..f.idx : n.data = FirstOf(p, f.msg, k)
    BY <1>1 DEF Holds
  <2>4. (f.idx + 1) - 1 = f.idx
    BY <1>1
  <2> QED BY <1>1, <1>2, <2>2, <2>3, <2>4 DEF Ordered
<1> QED BY <1>3, <1>4

\* A fragment that is lost leaves the buffer waiting for it.
LEMMA LossKeepsOrder ==
    ASSUME NEW b \in BufferType, NEW p \in Senders, NEW f, Sent(p, f),
           NEW h \in Nat, NEW r \in Nat, Ordered(b, p, h, r, f),
           h > 0 /\ IsFirst(f) => f.msg < h + MsgNums
    PROVE  Ordered(b, p, h, r, Following(f))
<1>1. /\ f.msg \in Nat \ {0} /\ f.idx \in Nat /\ MsgNums \in Nat \ {0}
      /\ b.expected_seq \in Nat
      /\ IsFirst(f) <=> f.idx = 0
  BY SentFacts, FragmentsAssumption DEF BufferType
<1>2. CASE IsLast(f)
  <2>1. Following(f) = Fragment(p, f.msg + 1, 0)
    BY <1>2, FollowingFacts
  <2>2. Following(f).msg = f.msg + 1 /\ Following(f).idx = 0
    BY <2>1 DEF Fragment
  <2> QED BY <1>1, <2>2 DEF Ordered
<1>3. CASE ~IsLast(f)
  <2>1. Following(f) = Fragment(p, f.msg, f.idx + 1)
    BY <1>3, FollowingFacts
  <2>2. Following(f).msg = f.msg /\ Following(f).idx = f.idx + 1
    BY <2>1 DEF Fragment
  <2>3. h > 0 => f.msg < h + MsgNums
    BY <1>1 DEF Ordered
  <2>4. b.started => h > 0 /\ b.message_number = h % MsgNums
    BY DEF Ordered
  <2>5. b.started /\ h = f.msg =>
           /\ b.expected_seq < f.idx + 1
           /\ \E k \in 1..f.idx : b.data = FirstOf(p, h, k)
    <3> SUFFICES ASSUME b.started, h = f.msg
                 PROVE  /\ b.expected_seq < f.idx + 1
                        /\ \E k \in 1..f.idx : b.data = FirstOf(p, h, k)
      OBVIOUS
    <3>1. f.idx > 0
      BY DEF Ordered
    <3>2. CASE b.expected_seq = f.idx /\ b.data = FirstOf(p, h, f.idx)
      BY <1>1, <3>1, <3>2
    <3>3. CASE b.expected_seq < f.idx /\ \E k \in 1..(f.idx - 1) : b.data = FirstOf(p, h, k)
      <4>1. PICK k \in 1..(f.idx - 1) : b.data = FirstOf(p, h, k)
        BY <3>3
      <4>2. k \in 1..f.idx
        BY <1>1
      <4> QED BY <1>1, <3>3, <4>1, <4>2
    <3> QED BY <3>2, <3>3 DEF Ordered
  <2>6. (f.idx + 1) - 1 = f.idx /\ f.idx + 1 > 0
    BY <1>1
  <2>7. h <= f.msg
    BY DEF Ordered
  <2> QED BY <2>2, <2>3, <2>4, <2>5, <2>6, <2>7 DEF Ordered
<1> QED BY <1>2, <1>3
=============================================================================
