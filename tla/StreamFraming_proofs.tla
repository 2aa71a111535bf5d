------------------------ MODULE StreamFraming_proofs ------------------------
(***************************************************************************)
(* Proofs about StreamFraming, for any replies and any number of them: how *)
(* try_consume and the loop around it cut the stream, when every reply is  *)
(* a response of the protocol (IsResponse), and whatever the CBOR decoder  *)
(* makes of bytes, as long as it reads from the left (ReadsFromTheLeft).   *)
(* The lemmas go from one response, over the loop, to the stream.          *)
(***************************************************************************)
EXTENDS StreamFraming, FiniteSetTheorems, SequenceTheorems, WellFoundedInduction, TLAPS

Byte == 0..255

(***************************************************************************)
(* Induction over a bounded range, on a set of numbers, and the functions  *)
(* that a step at a time defines.                                          *)
(***************************************************************************)
\* Every set of numbers has a least one.
LEMMA LeastNatural ==
    ASSUME NEW S \in SUBSET Nat, S # {}
    PROVE  \E a \in S : \A b \in S : a <= b
<1>1. IsWellFoundedOn(OpToRel(<, Nat), Nat)
  BY NatLessThanWellFounded
<1> DEFINE R == OpToRel(<, Nat)
<1>2. \A x, y \in Nat : y < x => <<y, x>> \in R
  BY DEF OpToRel
<1> HIDE DEF R
<1>3. IsWellFoundedOn(R, Nat)
  BY <1>1 DEF R
<1>4. \E x \in S : \A y \in S : ~(<<y, x>> \in R)
  BY <1>3, WFMin
<1>5. PICK x \in S : \A y \in S : ~(<<y, x>> \in R)
  BY <1>4
<1>6. \A y \in S : x <= y
  <2> TAKE y \in S
  <2>1. x \in Nat /\ y \in Nat /\ ~(y < x)
    BY <1>2, <1>5
  <2> QED BY <2>1
<1> QED BY <1>6

\* A set that holds 0 and, with a number, the next one up to n, holds all of them.
LEMMA UpTo ==
    ASSUME NEW n \in Nat, NEW S, 0 \in S, \A k \in 1..n : k - 1 \in S => k \in S
    PROVE  \A k \in 0..n : k \in S
<1> DEFINE Missing == {k \in 0..n : k \notin S}
<1> SUFFICES ASSUME Missing # {}
             PROVE  FALSE
  OBVIOUS
<1>1. Missing \in SUBSET Nat
  OBVIOUS
<1>2. PICK a \in Missing : \A b \in Missing : a <= b
  BY <1>1, LeastNatural
<1>3. a \in 1..n /\ a - 1 \in 0..n
  BY <1>2
<1>4. a - 1 \in S
  BY <1>2, <1>3
<1> QED BY <1>2, <1>3, <1>4

\* f tells the first n steps of G from a.
Computes(f, n, a, G) == f[0] = a /\ \A k \in 1..n : f[k] = G[k][f[k - 1]]

\* What a step at a time computes is a function.
LEMMA Iterated ==
    ASSUME NEW n \in Nat, NEW D, NEW a \in D, NEW G \in [Nat -> [D -> D]]
    PROVE  \E f \in [0..n -> D] : Computes(f, n, a, G)
<1> DEFINE S == {m \in 0..n : \E f \in [0..m -> D] : Computes(f, m, a, G)}
<1>1. 0 \in S
  <2> DEFINE f == [k \in 0..0 |-> a]
  <2>1. f \in [0..0 -> D] /\ Computes(f, 0, a, G)
    BY DEF Computes
  <2> HIDE DEF f
  <2> QED BY <2>1
<1>2. ASSUME NEW m \in 1..n, m - 1 \in S
      PROVE  m \in S
  <2>1. PICK f \in [0..(m - 1) -> D] : Computes(f, m - 1, a, G)
    BY <1>2
  <2> DEFINE g == [k \in 0..m |-> IF k = m THEN G[m][f[m - 1]] ELSE f[k]]
  <2>2. g \in [0..m -> D]
    OBVIOUS
  <2>3. Computes(g, m, a, G)
    <3>1. g[0] = a
      BY <2>1 DEF Computes
    <3>2. ASSUME NEW k \in 1..m
          PROVE  g[k] = G[k][g[k - 1]]
      <4>1. g[k - 1] = f[k - 1]
        OBVIOUS
      <4>2. CASE k = m
        BY <4>1, <4>2
      <4>3. CASE k # m
        <5>1. k \in 1..(m - 1) /\ g[k] = f[k]
          BY <4>3
        <5> QED BY <2>1, <4>1, <5>1 DEF Computes
      <4> QED BY <4>2, <4>3
    <3> QED BY <3>1, <3>2 DEF Computes
  <2> HIDE DEF g
  <2> QED BY <2>2, <2>3
<1>3. \A m \in 0..n : m \in S
  <2> HIDE DEF S
  <2> QED BY <1>1, <1>2, UpTo
<1> QED BY <1>3

(***************************************************************************)
(* The decoder                                                             *)
(***************************************************************************)
\* The three outcomes differ.
LEMMA Outcomes ==
    /\ Eof.kind = "eof" /\ Malformed.kind = "malformed"
    /\ \A n : Item(n).kind = "item" /\ Item(n).end = n
    /\ Eof # Malformed /\ \A n : Item(n) # Eof /\ Item(n) # Malformed
<1>1. Eof.kind = "eof" /\ Malformed.kind = "malformed"
  BY DEF Eof, Malformed
<1>2. \A n : Item(n).kind = "item" /\ Item(n).end = n
  BY DEF Item
<1>3. Eof # Malformed
  BY <1>1
<1>4. \A n : Item(n) # Eof /\ Item(n) # Malformed
  BY <1>1, <1>2
<1> QED BY <1>1, <1>2, <1>3, <1>4

\* What follows an offset, of a beginning and of the whole.
LEMMA AfterFacts ==
    ASSUME NEW r \in Seq(Byte), NEW u \in Seq(Byte), NEW k \in 0..Len(r)
    PROVE  /\ After(r, k) \in Seq(Byte) /\ Len(After(r, k)) = Len(r) - k
           /\ After(r \o u, k) \in Seq(Byte)
           /\ IsPrefix(After(r, k), After(r \o u, k))
<1> DEFINE x == After(r, k)
           t == r \o u
           y == After(t, k)
           n == Len(r) - k
<1>1. /\ t \in Seq(Byte) /\ Len(t) = Len(r) + Len(u) /\ Len(r) \in Nat /\ Len(u) \in Nat
      /\ \A i \in 1..Len(r) : t[i] = r[i]
  OBVIOUS
<1> HIDE DEF t
<1>2. k \in Nat /\ k <= Len(r) /\ k <= Len(t) /\ n \in Nat
  BY <1>1
<1>3. x \in Seq(Byte) /\ Len(x) = n /\ \A i \in 1..n : x[i] = r[k + i]
  BY <1>1, <1>2 DEF After
<1>4. y \in Seq(Byte) /\ Len(y) = n + Len(u) /\ \A i \in 1..n : y[i] = t[k + i]
  BY <1>1, <1>2 DEF After
<1> HIDE DEF x, y, n
<1>5. \A i \in 1..n : x[i] = y[i]
  <2>1. \A i \in 1..n : k + i \in 1..Len(r)
    BY <1>1, <1>2 DEF n
  <2> QED BY <1>1, <1>3, <1>4, <2>1
<1>6. SubSeq(x, 1, n) = SubSeq(y, 1, n) /\ n <= Len(y)
  BY <1>1, <1>2, <1>3, <1>4, <1>5
<1>7. IsPrefix(x, y)
  BY <1>3, <1>6 DEF IsPrefix
<1> QED BY <1>3, <1>4, <1>7 DEF x, y, t, n

(***************************************************************************)
(* One response                                                            *)
(***************************************************************************)
\* The outcomes of try_consume.
LEMMA TryConsumeFacts ==
    ASSUME NEW bytes \in Seq(Byte)
    PROVE  LET offset == IF HasMarker(bytes) THEN 2 ELSE 1
               item   == Decode(After(bytes, offset))
           IN  /\ LoneError(bytes) => TryConsume(bytes) = Response(bytes)
               /\ Len(bytes) < 2 /\ ~LoneError(bytes) => TryConsume(bytes) = Nothing(0)
               /\ Len(bytes) = 2 /\ HasMarker(bytes) => TryConsume(bytes) = Response(bytes)
               /\ Len(bytes) >= 2 /\ ~(Len(bytes) = 2 /\ HasMarker(bytes)) =>
                     /\ item = Eof => TryConsume(bytes) = Nothing(0)
                     /\ \A e : item = Item(e)
                           => TryConsume(bytes) = Response(SubSeq(bytes, 1, offset + e))
<1> DEFINE offset == IF HasMarker(bytes) THEN 2 ELSE 1
           item   == Decode(After(bytes, offset))
           n == Len(bytes)
           rest == CASE item = Eof       -> Nothing(0)
                     [] item = Malformed -> Nothing(Len(bytes))
                     [] OTHER -> Response(SubSeq(bytes, 1, offset + item.end))
           lone == LoneError(bytes)
           marked == HasMarker(bytes)
           got == TryConsume(bytes)
<1>1. got = CASE lone -> Response(bytes)
              [] n < 2 /\ ~lone -> Nothing(0)
              [] n = 2 /\ marked -> Response(bytes)
              [] OTHER -> rest
  BY DEF TryConsume, HasMarker
<1>2. n \in Nat /\ (lone => n = 1)
  BY DEF LoneError
<1> HIDE DEF got, rest, lone, marked, n
<1>3. CASE lone
  <2>1. ~(n < 2 /\ ~lone) /\ ~(n = 2 /\ marked) /\ ~(n >= 2)
    BY <1>2, <1>3
  <2>2. got = Response(bytes)
    BY <1>1, <1>3, <2>1
  <2> QED BY <1>3, <2>1, <2>2 DEF n, got, lone, marked
<1>4. CASE n < 2 /\ ~lone
  <2>1. ~(n = 2 /\ marked)
    BY <1>2, <1>4
  <2>2. got = Nothing(0)
    BY <1>1, <1>4, <2>1
  <2> QED BY <1>2, <1>4, <2>2 DEF n, got, lone
<1>5. CASE n = 2 /\ marked
  <2>1. ~lone /\ ~(n < 2 /\ ~lone)
    BY <1>2, <1>5
  <2>2. got = Response(bytes)
    BY <1>1, <1>5, <2>1
  <2> QED BY <1>2, <1>5, <2>1, <2>2 DEF n, got, lone, marked
<1>6. CASE n >= 2 /\ ~(n = 2 /\ marked)
  <2>1. ~lone /\ ~(n < 2 /\ ~lone)
    BY <1>2, <1>6
  <2>2. got = rest
    BY <1>1, <1>6, <2>1
  <2>3. item = Eof => got = Nothing(0)
    BY <2>2, Outcomes DEF rest
  <2>4. ASSUME NEW e, item = Item(e)
        PROVE  got = Response(SubSeq(bytes, 1, offset + e))
    <3> HIDE DEF item, offset
    <3>1. item # Eof /\ item # Malformed /\ item.end = e
      BY <2>4, Outcomes
    <3>2. rest = Response(SubSeq(bytes, 1, offset + item.end))
      BY <3>1 DEF rest
    <3> QED BY <2>2, <3>1, <3>2
  <2> QED BY <1>2, <1>6, <2>1, <2>3, <2>4 DEF n, got, lone, marked
<1> QED
  <2>1. lone \/ (n < 2 /\ ~lone) \/ (n = 2 /\ marked) \/ (n >= 2 /\ ~(n = 2 /\ marked))
    BY <1>2
  <2> QED BY <1>3, <1>4, <1>5, <1>6, <2>1

\* A response at the head of the buffer is taken off it, whatever follows, if
\* nothing follows one that has no data.
LEMMA WholeIsConsumed ==
    ASSUME NEW r \in Seq(Byte), NEW u \in Seq(Byte), IsResponse(r), Bare(r) => u = <<>>,
           ReadsFromTheLeft(Seq(Byte))
    PROVE  TryConsume(r \o u) = Response(r)
<1> DEFINE t == r \o u
           n == Len(r)
           offset == IF HasMarker(r) THEN 2 ELSE 1
<1>1. t \in Seq(Byte) /\ Len(t) \in Nat /\ n \in Nat /\ n <= Len(t)
      /\ (\A i \in 1..n : t[i] = r[i]) /\ (u = <<>> => t = r) /\ (Len(t) = n => t = r)
  OBVIOUS
<1>2. CASE n = 1 /\ r[1] >= BAD_REQUEST
  <2>1. t = r
    BY <1>1, <1>2 DEF Bare
  <2>2. LoneError(r)
    BY <1>2 DEF LoneError
  <2> QED BY <2>1, <2>2, TryConsumeFacts
<1>3. CASE n = 2 /\ HasMarker(r)
  <2>1. t = r
    BY <1>1, <1>3 DEF Bare
  <2> QED BY <1>3, <2>1, TryConsumeFacts
<1>4. CASE /\ n > 1 /\ ~Bare(r)
           /\ Decode(After(r, offset)) = Item(n - offset)
  <2>1. HasMarker(t) = HasMarker(r)
    <3>1. t[2] = r[2] /\ Len(t) >= 2 /\ n >= 2
      BY <1>1, <1>4
    <3> QED BY <3>1 DEF HasMarker
  <2>2. Len(t) >= 2 /\ ~(Len(t) = 2 /\ HasMarker(t))
    <3>1. Len(t) >= 2
      BY <1>1, <1>4
    <3>2. ASSUME Len(t) = 2, HasMarker(t)
          PROVE  FALSE
      <4>1. n > 1 /\ n <= 2 /\ n \in Nat
        BY <1>1, <1>4, <3>2
      <4>2. n = 2
        <5> HIDE DEF n
        <5> QED BY <4>1
      <4>3. HasMarker(r)
        BY <2>1, <3>2
      <4> QED BY <1>4, <4>2, <4>3 DEF Bare
    <3> QED BY <3>1, <3>2
  <2>3. Decode(After(t, offset)) = Item(n - offset)
    <3>1. offset \in 0..n
      BY <1>1, <1>4
    <3> HIDE DEF t, offset
    <3>2. /\ After(r, offset) \in Seq(Byte) /\ After(t, offset) \in Seq(Byte)
          /\ IsPrefix(After(r, offset), After(t, offset))
      BY <3>1, AfterFacts DEF t
    <3>3. Decode(After(r, offset)) # Eof
      BY <1>4, Outcomes
    <3> QED BY <1>4, <3>2, <3>3 DEF ReadsFromTheLeft
  <2>4. TryConsume(t) = Response(SubSeq(t, 1, n))
    <3>1. offset = IF HasMarker(t) THEN 2 ELSE 1
      BY <2>1
    <3>2. offset + (n - offset) = n
      BY <1>1
    <3> HIDE DEF t, offset
    <3>3. TryConsume(t) = Response(SubSeq(t, 1, offset + (n - offset)))
      BY <1>1, <2>2, <2>3, <3>1, TryConsumeFacts
    <3> QED BY <3>2, <3>3
  <2>5. SubSeq(t, 1, n) = r
    OBVIOUS
  <2> QED BY <2>4, <2>5
<1> QED BY <1>2, <1>3, <1>4 DEF IsResponse

\* The beginning of a response is left in the buffer, but for the two that look
\* like a response themselves: the status of an error, and a status and a marker.
LEMMA PartIsLeft ==
    ASSUME NEW r \in Seq(Byte), NEW n \in 0..(Len(r) - 1), IsResponse(r),
           n = 1 => r[1] < BAD_REQUEST, n = 2 => ~HasMarker(r),
           ReadsFromTheLeft(Seq(Byte))
    PROVE  TryConsume(SubSeq(r, 1, n)) = Nothing(0)
<1> DEFINE p == SubSeq(r, 1, n)
           u == SubSeq(r, n + 1, Len(r))
           offset == IF HasMarker(r) THEN 2 ELSE 1
<1>1. /\ p \in Seq(Byte) /\ u \in Seq(Byte) /\ r = p \o u /\ Len(p) = n
      /\ n \in Nat /\ Len(r) \in Nat /\ n < Len(r)
      /\ \A i \in 1..n : p[i] = r[i]
  OBVIOUS
<1>2. \A i \in 1..Len(r) : r[i] \in Nat
  <2>1. \A i \in 1..Len(r) : r[i] \in Byte
    OBVIOUS
  <2>2. \A b \in Byte : b \in Nat
    BY DEF Byte
  <2> QED BY <2>1, <2>2
<1> HIDE DEF p, u
<1>3. CASE n < 2
  <2>1. ~LoneError(p)
    <3> SUFFICES ASSUME n = 1, p[1] >= BAD_REQUEST
                 PROVE  FALSE
      BY <1>1 DEF LoneError
    <3>1. p[1] = r[1] /\ r[1] \in Nat
      BY <1>1, <1>2
    <3> QED BY <3>1 DEF BAD_REQUEST
  <2> QED BY <1>1, <1>3, <2>1, TryConsumeFacts DEF p
<1>4. CASE n >= 2
  <2>1. HasMarker(p) = HasMarker(r)
    <3>1. p[2] = r[2] /\ Len(p) >= 2 /\ Len(r) >= 2
      BY <1>1, <1>4
    <3> QED BY <3>1 DEF HasMarker
  <2>2. Len(p) >= 2 /\ ~(Len(p) = 2 /\ HasMarker(p))
    BY <1>1, <1>4, <2>1
  <2>3. Decode(After(r, offset)) = Item(Len(r) - offset)
    BY <1>1, <1>4 DEF IsResponse
  <2>4. offset \in 0..n /\ offset \in Nat /\ offset = IF HasMarker(p) THEN 2 ELSE 1
    BY <1>1, <1>4, <2>1
  <2>5. Decode(After(p, offset)) = Eof
    <3> HIDE DEF offset
    <3> SUFFICES ASSUME Decode(After(p, offset)) # Eof
                 PROVE  FALSE
      OBVIOUS
    <3>1. /\ After(p, offset) \in Seq(Byte) /\ Len(After(p, offset)) = n - offset
          /\ After(r, offset) \in Seq(Byte)
          /\ IsPrefix(After(p, offset), After(r, offset))
      BY <1>1, <2>4, AfterFacts
    <3>2. /\ Decode(After(r, offset)) = Decode(After(p, offset))
          /\ Decode(After(p, offset)) \in {Eof, Malformed} \cup {Item(i) : i \in 1..(n - offset)}
      BY <3>1 DEF ReadsFromTheLeft
    <3>3. PICK i \in 1..(n - offset) : Item(i) = Item(Len(r) - offset)
      BY <2>3, <3>2, Outcomes
    <3>4. i = Len(r) - offset
      BY <3>3, Outcomes
    <3> QED BY <1>1, <2>4, <3>3, <3>4
  <2> HIDE DEF offset
  <2> QED BY <1>1, <2>2, <2>4, <2>5, TryConsumeFacts DEF p
<1> QED BY <1>1, <1>3, <1>4

\* An empty buffer yields nothing.
LEMMA NothingInNothing ==
    TryConsume(<<>>) = Nothing(0)
<1>1. <<>> \in Seq(Byte) /\ Len(<<>>) < 2 /\ ~LoneError(<<>>)
  BY DEF LoneError
<1> QED BY <1>1, TryConsumeFacts

\* RemoveFirst takes out the first occurrence, if there is one.
LEMMA RemoveFirstFacts ==
    ASSUME NEW S, NEW s \in Seq(S), NEW e
    PROVE  /\ (\A i \in 1..Len(s) : s[i] # e) => RemoveFirst(s, e) = s
           /\ s # <<>> /\ s[1] = e => RemoveFirst(s, e) = SubSeq(s, 2, Len(s))
<1>1. (\A i \in 1..Len(s) : s[i] # e) => RemoveFirst(s, e) = s
  BY DEF RemoveFirst
<1>2. ASSUME s # <<>>, s[1] = e
      PROVE  RemoveFirst(s, e) = SubSeq(s, 2, Len(s))
  <2> DEFINE I == {i \in 1..Len(s) : s[i] = e}
             first == SelectInSeq(s, LAMBDA v : v = e)
  <2>1. 1 \in 1..Len(s) /\ 1 \in I /\ \A i \in I : 1 <= i
    BY <1>2
  <2>2. first = Min(I)
    BY <2>1 DEF SelectInSeq
  <2>3. Min(I) = 1
    <3> HIDE DEF I
    <3>1. \E x \in I : \A y \in I : x =< y
      BY <2>1
    <3> DEFINE m == Min(I)
    <3>2. m \in I /\ \A y \in I : m =< y
      BY <3>1 DEF Min
    <3>3. m <= 1 /\ 1 <= m /\ m \in Nat
      BY <2>1, <3>2 DEF I
    <3> HIDE DEF m
    <3>4. m = 1
      BY <3>3
    <3> QED BY <3>4 DEF m
  <2>4. RemoveFirst(s, e) = SubSeq(s, 1, first - 1) \o SubSeq(s, first + 1, Len(s))
    BY <2>1 DEF RemoveFirst, RemoveAt
  <2>5. first = 1
    BY <2>2, <2>3
  <2> HIDE DEF first
  <2>6. RemoveFirst(s, e) = SubSeq(s, 1, 0) \o SubSeq(s, 2, Len(s))
    BY <2>4, <2>5
  <2>7. SubSeq(s, 1, 0) = <<>> /\ SubSeq(s, 2, Len(s)) \in Seq(S)
    BY <2>1
  <2> QED BY <2>6, <2>7
<1> QED BY <1>1, <1>2

\* A response without data leaves nothing to parse.
LEMMA BareIsClean ==
    ASSUME NEW r \in Seq(Byte), Bare(r)
    PROVE  Payload(r) = <<>> /\ ~Spoils(r)
<1>1. Payload(r) = <<>>
  <2>1. \A s \in Seq(Byte) : Len(s) = 0 => s = <<>>
    OBVIOUS
  <2>2. CASE Len(r) = 1
    <3> DEFINE s == Tail(r)
    <3>1. s \in Seq(Byte) /\ Len(s) = 0
      BY <2>2
    <3> HIDE DEF s
    <3>2. \A i \in 1..Len(s) : s[i] # CBOR_NULL
      BY <3>1
    <3>3. RemoveFirst(s, CBOR_NULL) = s
      BY <3>1, <3>2, RemoveFirstFacts
    <3> QED BY <2>1, <3>1, <3>3 DEF Payload, s
  <2>3. CASE Len(r) = 2 /\ HasMarker(r)
    <3> DEFINE s == Tail(r)
    <3>1. s \in Seq(Byte) /\ Len(s) = 1 /\ s[1] = r[2]
      <4>1. Len(r) = 2
        BY <2>3
      <4>2. r # <<>>
        BY <4>1
      <4>3. \A i \in 1..(Len(r) - 1) : Tail(r)[i] = r[i + 1]
        BY <4>2
      <4>4. Tail(r) \in Seq(Byte) /\ Len(Tail(r)) = Len(r) - 1
        BY <4>2
      <4> QED BY <4>1, <4>3, <4>4
    <3> HIDE DEF s
    <3>2. s # <<>> /\ s[1] = CBOR_NULL
      BY <2>3, <3>1 DEF HasMarker
    <3>3. RemoveFirst(s, CBOR_NULL) = SubSeq(s, 2, 1)
      BY <3>1, <3>2, RemoveFirstFacts
    <3>4. SubSeq(s, 2, 1) = <<>>
      BY <3>1
    <3> QED BY <3>3, <3>4 DEF Payload, s
  <2> QED BY <2>2, <2>3 DEF Bare
<1> QED BY <1>1 DEF Spoils, Raises

\* What _parse_binary makes of a response is its status, and its data unless a
\* null byte of the data was taken for the marker.
LEMMA ParseFacts ==
    ASSUME NEW r \in Seq(Byte), IsResponse(r)
    PROVE  /\ ParseBinary(r).status = r[1]
           /\ ~NullInData(r) => ParseBinary(r) = Meaning(r)
<1> DEFINE n == Len(r)
           payload == Payload(r)
           item == Decode(payload)
           data == IF payload = <<>> THEN <<>>
                   ELSE IF item = Eof THEN <<"error">>
                   ELSE SubSeq(payload, 1, item.end)
           meant == IF HasMarker(r) THEN SubSeq(r, 3, n) ELSE Tail(r)
           offset == IF HasMarker(r) THEN 2 ELSE 1
<1>1. n \in Nat /\ n >= 1 /\ r # <<>>
  <2>1. n = 1 \/ n = 2 \/ n > 1
    BY DEF IsResponse
  <2>2. n >= 1 /\ n \in Nat
    BY <2>1
  <2> QED BY <2>2
<1>2. ParseBinary(r) = [status |-> r[1], data |-> data]
  BY <1>1 DEF ParseBinary
<1>3. ASSUME ~NullInData(r)
      PROVE  data = meant
  <2>1. payload = meant /\ meant \in Seq(Byte)
    <3>1. Tail(r) \in Seq(Byte) /\ Len(Tail(r)) = n - 1 /\ \A i \in 1..(n - 1) : Tail(r)[i] = r[i + 1]
      BY <1>1
    <3>2. CASE HasMarker(r)
      <4>1. n >= 2 /\ Tail(r) # <<>> /\ Tail(r)[1] = CBOR_NULL
        BY <1>1, <3>1, <3>2 DEF HasMarker
      <4>2. payload = SubSeq(Tail(r), 2, n - 1)
        BY <3>1, <4>1, RemoveFirstFacts DEF Payload
      <4>3. SubSeq(Tail(r), 2, n - 1) = SubSeq(r, 3, n)
        BY <1>1, <4>1
      <4>4. SubSeq(r, 3, n) \in Seq(Byte)
        BY <1>1, <4>1
      <4> QED BY <3>2, <4>2, <4>3, <4>4
    <3>3. CASE ~HasMarker(r)
      <4>1. \A i \in 1..(n - 1) : Tail(r)[i] # CBOR_NULL
        <5> SUFFICES ASSUME NEW i \in 1..(n - 1), Tail(r)[i] = CBOR_NULL
                     PROVE  FALSE
          OBVIOUS
        <5>1. i + 1 \in DOMAIN r /\ r[i + 1] = CBOR_NULL
          BY <1>1, <3>1
        <5>2. CBOR_NULL \in ToSet(r)
          BY <5>1 DEF ToSet
        <5> QED BY <1>3, <3>3, <5>2 DEF NullInData
      <4>2. payload = Tail(r)
        BY <3>1, <4>1, RemoveFirstFacts DEF Payload
      <4> QED BY <3>1, <3>3, <4>2
    <3> QED BY <3>2, <3>3
  <2>2. CASE Bare(r)
    BY <2>1, <2>2, BareIsClean
  <2>3. CASE ~Bare(r)
    <3>1. n > 1 /\ Decode(After(r, offset)) = Item(n - offset)
      BY <2>3 DEF IsResponse, Bare
    <3>2. offset \in 0..n /\ offset \in Nat /\ n > offset
      <4>1. CASE HasMarker(r)
        <5>1. n # 2
          BY <2>3, <4>1 DEF Bare
        <5>2. n > 2 /\ 2 \in 0..n
          <6> HIDE DEF n, offset
          <6>1. n > 1
            BY <3>1
          <6> QED BY <1>1, <5>1, <6>1
        <5> QED BY <4>1, <5>2
      <4>2. CASE ~HasMarker(r)
        <5>1. n > 1 /\ 1 \in 0..n
          BY <1>1, <3>1
        <5> QED BY <4>2, <5>1
      <4> QED BY <4>1, <4>2
    <3>3. meant = SubSeq(r, offset + 1, n)
      BY <1>1
    <3>4. Decode(meant) = Item(n - offset)
      BY <3>1, <3>3 DEF After
    <3>5. Len(meant) = n - offset /\ meant # <<>>
      <4> HIDE DEF offset, meant
      <4>1. Len(SubSeq(r, offset + 1, n)) = n - offset
        BY <1>1, <3>2
      <4>2. Len(meant) = n - offset /\ n - offset # 0
        <5> HIDE DEF n
        <5> QED BY <1>1, <3>2, <3>3, <4>1
      <4> QED BY <4>2
    <3>6. SubSeq(meant, 1, n - offset) = meant
      <4> HIDE DEF offset, meant
      <4> QED BY <2>1, <3>5
    <3> HIDE DEF meant, offset, payload
    <3>7. item # Eof /\ item.end = n - offset
      BY <2>1, <3>4, Outcomes
    <3> QED BY <2>1, <3>5, <3>6, <3>7
  <2> QED BY <2>2, <2>3
<1> HIDE DEF data
<1>4. ParseBinary(r).status = r[1]
  BY <1>2
<1>5. ~NullInData(r) => ParseBinary(r) = Meaning(r)
  BY <1>2, <1>3 DEF Meaning
<1> QED BY <1>4, <1>5

(***************************************************************************)
(* The stream of replies                                                   *)
(***************************************************************************)
\* The offset of the i-th element in the flattening of s.
StartIn(s, i) == Len(FlattenSeq(SubSeq(s, 1, i - 1)))

\* f[k] is the flattening of the first k elements of s.
Flattens(s, f) ==
    /\ f[0] = <<>>
    /\ \A k \in 1..Len(s) : f[k] = f[k - 1] \o s[k]

\* s and t agree on their first m elements.
SameUpTo(s, t, m) == \A k \in 1..m : s[k] = t[k]

\* FlattenSeq appends one element after the other.
LEMMA FlattenUnrolled ==
    ASSUME NEW S, NEW s \in Seq(Seq(S))
    PROVE  \E f \in [0..Len(s) -> Seq(S)] : Flattens(s, f) /\ FlattenSeq(s) = f[Len(s)]
<1> DEFINE n == Len(s)
           G == [k \in Nat |-> [x \in Seq(S) |-> IF k \in 1..n THEN x \o s[k] ELSE x]]
           Body(f) == [i \in 1..n |-> IF i = 1 THEN s[i] ELSE f[i - 1] \o s[i]]
<1>1. n \in Nat /\ <<>> \in Seq(S) /\ \A k \in 1..n : s[k] \in Seq(S)
  OBVIOUS
<1>2. G \in [Nat -> [Seq(S) -> Seq(S)]]
  <2>1. \A k \in Nat, x \in Seq(S) : (IF k \in 1..n THEN x \o s[k] ELSE x) \in Seq(S)
    BY <1>1
  <2> QED BY <2>1
<1>3. PICK f \in [0..n -> Seq(S)] : Computes(f, n, <<>>, G)
  <2> HIDE DEF G, n, Body
  <2> QED BY <1>1, <1>2, Iterated
<1>4. f[0] = <<>> /\ \A k \in 1..n : f[k] = f[k - 1] \o s[k]
  <2> SUFFICES ASSUME NEW k \in 1..n PROVE f[k] = f[k - 1] \o s[k]
    BY <1>3 DEF Computes
  <2>1. k \in Nat /\ k - 1 \in 0..n
    BY <1>1
  <2>2. f[k - 1] \in Seq(S)
    BY <1>3, <2>1
  <2>3. G[k][f[k - 1]] = f[k - 1] \o s[k]
    BY <2>1, <2>2
  <2> QED BY <1>3, <2>3 DEF Computes
<1> HIDE DEF G, n
<1>5. CASE n = 0
  <2> USE DEF n
  <2>1. FlattenSeq(s) = s /\ s = <<>>
    BY <1>5 DEF FlattenSeq
  <2> QED BY <1>3, <1>4, <1>5, <2>1 DEF Flattens
<1>6. CASE n # 0
  <2> DEFINE h == CHOOSE g : g = Body(g)
  <2>1. FlattenSeq(s) = h[n]
    BY <1>6 DEF FlattenSeq, n
  <2>0. f[1] = s[1]
    <3>1. 1 \in 1..n /\ 1 - 1 = 0
      BY <1>1, <1>6
    <3>2. f[1] = <<>> \o s[1]
      BY <1>4, <3>1
    <3>3. \A x \in Seq(S) : <<>> \o x = x
      OBVIOUS
    <3> QED BY <1>1, <3>1, <3>2, <3>3
  <2> DEFINE g == [i \in 1..n |-> f[i]]
  <2>2. g = Body(g)
    <3>1. ASSUME NEW i \in 1..n
          PROVE  g[i] = Body(g)[i]
      <4>1. CASE i = 1
        BY <2>0, <4>1
      <4>2. CASE i # 1
        <5>1. i - 1 \in 1..n
          BY <1>1, <4>2
        <5>2. g[i - 1] = f[i - 1]
          BY <5>1
        <5> QED BY <1>4, <4>2, <5>2
      <4> QED BY <4>1, <4>2
    <3>2. DOMAIN g = 1..n /\ DOMAIN Body(g) = 1..n
      OBVIOUS
    <3> QED BY <3>1, <3>2
  <2>3. h = Body(h)
    <3> HIDE DEF Body, g
    <3>1. \E x : x = Body(x)
      BY <2>2
    <3> QED BY <3>1
  <2>4. \A i \in 1..n : h[i] = IF i = 1 THEN s[i] ELSE h[i - 1] \o s[i]
    <3> HIDE DEF h
    <3> QED BY <2>3
  <2> DEFINE Q == {k \in 0..n : k = 0 \/ h[k] = f[k]}
  <2>5. 0 \in Q
    BY <1>1
  <2>6. ASSUME NEW k \in 1..n, k - 1 \in Q
        PROVE  k \in Q
    <3> HIDE DEF h
    <3>1. CASE k = 1
      <4>1. h[1] = s[1]
        BY <2>4, <3>1
      <4> QED BY <1>1, <2>0, <3>1, <4>1
    <3>2. CASE k # 1
      <4>1. k - 1 # 0 /\ h[k - 1] = f[k - 1]
        BY <2>6, <3>2
      <4>2. h[k] = h[k - 1] \o s[k] /\ f[k] = f[k - 1] \o s[k]
        BY <1>4, <2>4, <3>2
      <4>3. h[k] = f[k] /\ k \in 0..n
        BY <1>1, <4>1, <4>2
      <4> QED BY <4>3
    <3> QED BY <3>1, <3>2
  <2>7. \A k \in 0..n : k \in Q
    <3> HIDE DEF Q
    <3> QED BY <1>1, <2>5, <2>6, UpTo
  <2>8. h[n] = f[n]
    <3> HIDE DEF h
    <3> QED BY <1>1, <1>6, <2>7
  <2> QED BY <1>3, <1>4, <2>1, <2>8 DEF Flattens, n
<1> QED BY <1>5, <1>6

\* The sequence that Flattens describes is unique.
LEMMA SamePrefixes ==
    ASSUME NEW s, NEW t, Len(s) \in Nat, Len(t) \in Nat,
           NEW f, NEW g, Flattens(s, f), Flattens(t, g),
           NEW m \in Nat, m <= Len(s), m <= Len(t), SameUpTo(s, t, m)
    PROVE  \A k \in 0..m : f[k] = g[k]
<1> DEFINE Q == {k \in 0..m : f[k] = g[k]}
<1>1. 0 \in Q
  BY DEF Flattens
<1>2. ASSUME NEW k \in 1..m, k - 1 \in Q
      PROVE  k \in Q
  <2>1. f[k - 1] = g[k - 1]
    BY <1>2
  <2>2. k \in 1..Len(s) /\ k \in 1..Len(t) /\ k \in 0..m
    OBVIOUS
  <2>3. f[k] = f[k - 1] \o s[k] /\ g[k] = g[k - 1] \o t[k]
    BY <2>2 DEF Flattens
  <2>4. f[k] = g[k]
    BY <2>1, <2>3 DEF SameUpTo
  <2> QED BY <2>2, <2>4
<1>3. \A k \in 0..m : k \in Q
  <2>1. m \in Nat
    OBVIOUS
  <2> HIDE DEF Q
  <2> QED BY <1>1, <1>2, <2>1, UpTo
<1> QED BY <1>3

\* The stream up to a reply is the flattening of the replies before it.
LEMMA FlattenPrefix ==
    ASSUME NEW S, NEW s \in Seq(Seq(S)), NEW f, Flattens(s, f), NEW k \in 0..Len(s)
    PROVE  FlattenSeq(SubSeq(s, 1, k)) = f[k]
<1> DEFINE t == SubSeq(s, 1, k)
<1>1. t \in Seq(Seq(S)) /\ Len(t) = k /\ \A i \in 1..k : s[i] = t[i]
  OBVIOUS
<1> HIDE DEF t
<1>2. PICK g \in [0..Len(t) -> Seq(S)] : Flattens(t, g) /\ FlattenSeq(t) = g[Len(t)]
  BY <1>1, FlattenUnrolled
<1>3. \A i \in 0..k : f[i] = g[i]
  <2>1. k <= Len(t) /\ k <= Len(s) /\ k \in Nat /\ Len(t) \in Nat /\ Len(s) \in Nat
    BY <1>1
  <2>2. SameUpTo(s, t, k) /\ Flattens(t, g)
    BY <1>1, <1>2 DEF SameUpTo
  <2> QED BY <2>1, <2>2, SamePrefixes
<1> QED BY <1>1, <1>2, <1>3 DEF t

\* Where each reply lies in the stream.
LEMMA StreamFacts ==
    ASSUME NEW S, NEW s \in Seq(Seq(S))
    PROVE  /\ FlattenSeq(s) \in Seq(S)
           /\ StartIn(s, 1) = 0
           /\ StartIn(s, Len(s) + 1) = Len(FlattenSeq(s))
           /\ \A i \in 1..(Len(s) + 1) : StartIn(s, i) \in Nat
           /\ \A i \in 1..Len(s) :
                 /\ StartIn(s, i + 1) = StartIn(s, i) + Len(s[i])
                 /\ \A q \in 1..Len(s[i]) : FlattenSeq(s)[StartIn(s, i) + q] = s[i][q]
           /\ \A i \in 1..(Len(s) + 1) : \A j \in i..(Len(s) + 1) : StartIn(s, i) <= StartIn(s, j)
<1> DEFINE n == Len(s)
<1>1. PICK f \in [0..n -> Seq(S)] : Flattens(s, f) /\ FlattenSeq(s) = f[n]
  BY FlattenUnrolled
<1>2. n \in Nat /\ \A k \in 1..n : s[k] \in Seq(S)
  OBVIOUS
<1>3. \A k \in 0..n : StartIn(s, k + 1) = Len(f[k])
  <2> SUFFICES ASSUME NEW k \in 0..n PROVE StartIn(s, k + 1) = Len(f[k])
    OBVIOUS
  <2>1. (k + 1) - 1 = k
    OBVIOUS
  <2>2. FlattenSeq(SubSeq(s, 1, k)) = f[k]
    BY <1>1, FlattenPrefix
  <2> QED BY <2>1, <2>2 DEF StartIn
<1>4. \A k \in 0..n : f[k] \in Seq(S) /\ Len(f[k]) \in Nat
  BY <1>1
<1>5. f[0] = <<>> /\ \A k \in 1..n : f[k] = f[k - 1] \o s[k]
  BY <1>1 DEF Flattens
<1> HIDE DEF n
<1>6. ASSUME NEW k \in 1..n
      PROVE  /\ Len(f[k]) = Len(f[k - 1]) + Len(s[k])
             /\ \A q \in 1..Len(f[k - 1]) : f[k][q] = f[k - 1][q]
             /\ \A q \in 1..Len(s[k]) : f[k][Len(f[k - 1]) + q] = s[k][q]
  <2> DEFINE a == f[k - 1]
             b == s[k]
  <2>1. k - 1 \in 0..n
    BY <1>2
  <2>2. a \in Seq(S) /\ b \in Seq(S) /\ f[k] = a \o b
    BY <1>2, <1>4, <1>5, <2>1
  <2> HIDE DEF a, b
  <2>3. /\ Len(a \o b) = Len(a) + Len(b)
        /\ \A q \in 1..Len(a) : (a \o b)[q] = a[q]
        /\ \A q \in 1..Len(b) : (a \o b)[Len(a) + q] = b[q]
    BY <2>2
  <2> QED BY <2>2, <2>3 DEF a, b
<1>7. ASSUME NEW k \in 0..n
      PROVE  \A j \in k..n : /\ Len(f[k]) <= Len(f[j])
                             /\ \A q \in 1..Len(f[k]) : f[j][q] = f[k][q]
  <2> DEFINE Q == {j \in 0..n : j >= k =>
                      /\ Len(f[k]) <= Len(f[j])
                      /\ \A q \in 1..Len(f[k]) : f[j][q] = f[k][q]}
  <2>1. 0 \in Q
    BY <1>2, <1>4
  <2>2. ASSUME NEW j \in 1..n, j - 1 \in Q
        PROVE  j \in Q
    <3>1. j \in 0..n /\ j - 1 \in 0..n
      BY <1>2
    <3>2. CASE j > k
      <4>1. j - 1 >= k
        BY <1>2, <3>2
      <4>2. /\ Len(f[k]) <= Len(f[j - 1])
            /\ \A q \in 1..Len(f[k]) : f[j - 1][q] = f[k][q]
        BY <2>2, <4>1
      <4>3. /\ Len(f[j]) = Len(f[j - 1]) + Len(s[j])
            /\ \A q \in 1..Len(f[j - 1]) : f[j][q] = f[j - 1][q]
        BY <1>6
      <4>4. Len(s[j]) \in Nat /\ Len(f[j - 1]) \in Nat /\ Len(f[k]) \in Nat
        BY <1>2, <1>4, <3>1
      <4>5. Len(f[k]) <= Len(f[j])
        <5>1. \A x, y, z \in Nat : x <= y => x <= y + z
          OBVIOUS
        <5> QED BY <4>2, <4>3, <4>4, <5>1
      <4>6. \A q \in 1..Len(f[k]) : f[j][q] = f[k][q]
        BY <4>2, <4>3, <4>4
      <4> QED BY <3>1, <4>5, <4>6
    <3>3. CASE j = k
      BY <1>4, <3>1, <3>3
    <3>4. CASE j < k
      BY <1>2, <3>1, <3>4
    <3> QED BY <1>2, <3>1, <3>2, <3>3, <3>4
  <2>3. \A j \in 0..n : j \in Q
    <3> HIDE DEF Q
    <3> QED BY <1>2, <2>1, <2>2, UpTo
  <2> QED BY <1>2, <2>3
<1>8. FlattenSeq(s) \in Seq(S)
  BY <1>1, <1>2, <1>4
<1>9. StartIn(s, 1) = 0
  <2>1. 0 \in 0..n /\ 0 + 1 = 1
    BY <1>2
  <2>2. StartIn(s, 0 + 1) = Len(f[0])
    BY <1>3, <2>1
  <2> QED BY <1>5, <2>1, <2>2
<1>10. StartIn(s, n + 1) = Len(FlattenSeq(s))
  BY <1>1, <1>2, <1>3
<1>11. \A i \in 1..(n + 1) : i - 1 \in 0..n /\ StartIn(s, i) = Len(f[i - 1])
  <2> SUFFICES ASSUME NEW i \in 1..(n + 1)
               PROVE  i - 1 \in 0..n /\ StartIn(s, i) = Len(f[i - 1])
    OBVIOUS
  <2>1. i - 1 \in 0..n /\ (i - 1) + 1 = i
    BY <1>2
  <2>2. StartIn(s, (i - 1) + 1) = Len(f[i - 1])
    BY <1>3, <2>1
  <2> QED BY <2>1, <2>2
<1>12. \A i \in 1..(n + 1) : StartIn(s, i) \in Nat
  BY <1>4, <1>11
<1>13. ASSUME NEW i \in 1..n
       PROVE  /\ StartIn(s, i + 1) = StartIn(s, i) + Len(s[i])
              /\ \A q \in 1..Len(s[i]) : FlattenSeq(s)[StartIn(s, i) + q] = s[i][q]
  <2>1. i \in 0..n /\ i \in 1..(n + 1) /\ i - 1 \in 0..n /\ n \in i..n
    BY <1>2
  <2>2. StartIn(s, i + 1) = Len(f[i]) /\ StartIn(s, i) = Len(f[i - 1])
    BY <1>3, <1>11, <2>1
  <2>3. StartIn(s, i + 1) = StartIn(s, i) + Len(s[i])
    BY <1>6, <2>2
  <2>4. ASSUME NEW q \in 1..Len(s[i])
        PROVE  FlattenSeq(s)[StartIn(s, i) + q] = s[i][q]
    <3> DEFINE p == Len(f[i - 1]) + q
    <3>1. Len(f[i - 1]) \in Nat /\ Len(s[i]) \in Nat
      BY <1>2, <1>4, <2>1
    <3>2. p \in 1..Len(f[i])
      <4>1. \A x, y \in Nat : \A z \in 1..y : x + z \in 1..(x + y)
        OBVIOUS
      <4>2. Len(f[i]) = Len(f[i - 1]) + Len(s[i])
        BY <1>6
      <4> QED BY <3>1, <4>1, <4>2
    <3>3. f[n][p] = f[i][p]
      <4> HIDE DEF p
      <4> QED BY <1>7, <2>1, <3>2
    <3>4. f[i][p] = s[i][q]
      BY <1>6
    <3> QED BY <1>1, <2>2, <3>3, <3>4 DEF n
  <2> QED BY <2>3, <2>4
<1>14. ASSUME NEW i \in 1..(n + 1), NEW j \in i..(n + 1)
       PROVE  StartIn(s, i) <= StartIn(s, j)
  <2>1. j \in 1..(n + 1) /\ i - 1 \in 0..n /\ j - 1 \in (i - 1)..n
    BY <1>2
  <2>2. Len(f[i - 1]) <= Len(f[j - 1])
    BY <1>7, <2>1
  <2> QED BY <1>11, <2>1, <2>2
<1> QED BY <1>8, <1>9, <1>10, <1>12, <1>13, <1>14 DEF n

(***************************************************************************)
(* The loop around try_consume                                             *)
(***************************************************************************)
\* Bytes that begin where a reply does are the reply and what follows it, or the
\* beginning of the reply.
LEMMA SliceFacts ==
    ASSUME NEW S, NEW T \in Seq(S), NEW r \in Seq(S), NEW a \in Nat,
           a + Len(r) <= Len(T), \A q \in 1..Len(r) : T[a + q] = r[q],
           NEW to \in a..Len(T)
    PROVE  /\ to >= a + Len(r) =>
                 SubSeq(T, a + 1, to) = r \o SubSeq(T, a + Len(r) + 1, to)
           /\ to < a + Len(r) => SubSeq(T, a + 1, to) = SubSeq(r, 1, to - a)
<1> DEFINE x == SubSeq(T, a + 1, to)
           n == Len(r)
<1>1. /\ x \in Seq(S) /\ Len(x) = to - a /\ to \in Nat /\ n \in Nat /\ Len(T) \in Nat
      /\ \A q \in 1..(to - a) : x[q] = T[a + q]
  OBVIOUS
<1>2. ASSUME to >= a + n
      PROVE  x = r \o SubSeq(T, a + n + 1, to)
  <2> DEFINE u == SubSeq(T, a + n + 1, to)
             y == r \o u
  <2>1. /\ u \in Seq(S) /\ Len(u) = to - (a + n)
        /\ \A q \in 1..(to - (a + n)) : u[q] = T[a + n + q]
    BY <1>1, <1>2
  <2> HIDE DEF u
  <2>2. /\ y \in Seq(S) /\ Len(y) = n + Len(u)
        /\ (\A q \in 1..n : y[q] = r[q]) /\ (\A q \in 1..Len(u) : y[n + q] = u[q])
    BY <2>1
  <2> HIDE DEF y, x, n
  <2>3. Len(y) = to - a
    BY <1>1, <1>2, <2>1, <2>2
  <2>4. ASSUME NEW q \in 1..(to - a)
        PROVE  x[q] = y[q]
    <3>1. CASE q <= n
      BY <1>1, <2>2, <3>1 DEF n
    <3>2. CASE q > n
      <4> DEFINE p == q - n
      <4>1. p \in 1..Len(u) /\ p \in 1..(to - (a + n)) /\ n + p = q /\ a + n + p = a + q
        BY <1>1, <1>2, <2>1, <3>2
      <4> HIDE DEF p
      <4>2. y[q] = u[p] /\ u[p] = T[a + n + p]
        BY <2>1, <2>2, <4>1
      <4> QED BY <1>1, <4>1, <4>2
    <3> QED BY <1>1, <3>1, <3>2
  <2>5. x = y
    BY <1>1, <2>2, <2>3, <2>4, SeqEqual
  <2> QED BY <2>5 DEF y, u
<1>3. ASSUME to < a + n
      PROVE  x = SubSeq(r, 1, to - a)
  <2> DEFINE y == SubSeq(r, 1, to - a)
  <2>1. y \in Seq(S) /\ Len(y) = to - a /\ \A q \in 1..(to - a) : y[q] = r[q]
    BY <1>1, <1>3
  <2> HIDE DEF y, x, n
  <2>2. \A q \in 1..(to - a) : q \in 1..n
    BY <1>1, <1>3
  <2>3. \A q \in 1..(to - a) : x[q] = y[q]
    BY <1>1, <2>1, <2>2 DEF n
  <2>4. x = y
    BY <1>1, <2>1, <2>3, SeqEqual
  <2> QED BY <2>4 DEF y
<1> QED BY <1>2, <1>3

\* A function on 1..k+1 is the sequence of its first k values and the last one.
LEMMA AppendNext ==
    ASSUME NEW k \in Nat, NEW f, f = [i \in 1..(k + 1) |-> f[i]]
    PROVE  Append([i \in 1..k |-> f[i]], f[k + 1]) = f
<1> DEFINE R == {f[i] : i \in 1..(k + 1)}
           g == [i \in 1..k |-> f[i]]
           y == Append(g, f[k + 1])
<1>1. k + 1 \in 1..(k + 1) /\ k + 1 \in Nat /\ \A i \in 1..k : i \in 1..(k + 1)
  OBVIOUS
<1>2. \A i \in 1..(k + 1) : f[i] \in R
  OBVIOUS
<1> HIDE DEF R
<1>3. f \in [1..(k + 1) -> R] /\ g \in [1..k -> R]
  BY <1>1, <1>2
<1>4. f \in Seq(R) /\ Len(f) = k + 1
  BY <1>1, <1>3
<1>5. g \in Seq(R) /\ Len(g) = k
  BY <1>3
<1>6. \A i \in 1..k : g[i] = f[i]
  OBVIOUS
<1> HIDE DEF g
<1>7. y \in Seq(R) /\ Len(y) = k + 1 /\ y[k + 1] = f[k + 1] /\ \A i \in 1..k : y[i] = g[i]
  BY <1>1, <1>2, <1>5
<1> HIDE DEF y
<1>8. ASSUME NEW i \in 1..(k + 1)
      PROVE  y[i] = f[i]
  <2>1. i = k + 1 \/ i \in 1..k
    OBVIOUS
  <2> QED BY <1>6, <1>7, <2>1
<1>9. y = f
  BY <1>4, <1>7, <1>8, SeqEqual
<1> QED BY <1>9 DEF y, g

\* Dropping a prefix leaves what follows it.
LEMMA DropFacts ==
    ASSUME NEW S, NEW r \in Seq(S), NEW u \in Seq(S)
    PROVE  SubSeq(r \o u, Len(r) + 1, Len(r \o u)) = u
<1> DEFINE x == SubSeq(r \o u, Len(r) + 1, Len(r \o u))
<1>1. x \in Seq(S) /\ Len(x) = Len(u) /\ \A i \in 1..Len(u) : x[i] = u[i]
  OBVIOUS
<1> HIDE DEF x
<1>2. x = u
  BY <1>1, SeqEqual
<1> QED BY <1>2 DEF x

\* A status is an error, or not.
LEMMA StatusFacts ==
    \A b \in Byte : b >= BAD_REQUEST \/ b < BAD_REQUEST
BY DEF Byte, BAD_REQUEST

\* KindCut, for one reply and the bytes up to an offset.
Cut(r, start, to) ==
    /\ r[1] >= BAD_REQUEST /\ Len(r) > 1 => to # start + 1
    /\ HasMarker(r) /\ Len(r) > 2        => to # start + 2
    /\ Bare(r)                           => to <= start + Len(r)

\* The state of the loop when the replies c+1..d have been taken off the bytes
\* between the start of reply c+1 and the last one received.
Taken(s, c, to, d, raised) ==
    [rest      |-> SubSeq(FlattenSeq(s), StartIn(s, d + 1) + 1, to),
     responses |-> [i \in 1..(d - c) |-> ParseBinary(s[c + i])],
     raised    |-> raised]

\* Reply d+1 is there, and _parse_binary raises from it.
Stuck(s, to, d) == d < Len(s) /\ to >= StartIn(s, d + 2) /\ Spoils(s[d + 1])

\* A pass of the loop that gets no response.
LEMMA TakeNothing ==
    \A rest, found, b :
        LET At(raised) == [rest |-> rest, responses |-> found, raised |-> raised]
        IN  /\ TryConsume(rest) = Nothing(0) => Take(At(b)) = At(FALSE)
            /\ TryConsume(rest) = Raised => Take(At(b)) = At(TRUE)
<1> TAKE rest, found, b
<1> DEFINE st == [rest |-> rest, responses |-> found, raised |-> b]
<1>1. st.rest = rest
  OBVIOUS
<1>2. ASSUME NEW c, TryConsume(rest).found = FALSE, TryConsume(rest).raised = c
      PROVE  Take(st) = [rest |-> rest, responses |-> found, raised |-> c]
  <2>1. Take(st) = [st EXCEPT !.raised = c]
    BY <1>1, <1>2 DEF Take
  <2> QED BY <2>1
<1>3. Nothing(0).found = FALSE /\ Nothing(0).raised = FALSE
      /\ Raised.found = FALSE /\ Raised.raised = TRUE
  BY DEF Nothing, Raised
<1> QED BY <1>2, <1>3

\* The length of a slice between two offsets.
LEMMA SliceLength ==
    ASSUME NEW S, NEW T \in Seq(S), NEW a \in Nat, NEW b \in a..Len(T)
    PROVE  SubSeq(T, a + 1, b) \in Seq(S) /\ Len(SubSeq(T, a + 1, b)) = b - a
OBVIOUS

\* A pass of the loop takes the next reply, if all of it is there and does not
\* raise, and leaves what there is of it otherwise.
LEMMA TakeFacts ==
    ASSUME NEW s \in Seq(Seq(Byte)), NEW c \in 0..Len(s), NEW d \in c..Len(s),
           NEW to \in StartIn(s, d + 1)..Len(FlattenSeq(s)), NEW raised,
           \A i \in 1..Len(s) : IsResponse(s[i]), ReadsFromTheLeft(Seq(Byte)),
           d < Len(s) => Cut(s[d + 1], StartIn(s, d + 1), to) \/ Stuck(s, to, d)
    PROVE  /\ (d = Len(s) \/ to < StartIn(s, d + 2))
                 => Take(Taken(s, c, to, d, raised)) = Taken(s, c, to, d, FALSE)
           /\ Stuck(s, to, d)
                 => Take(Taken(s, c, to, d, raised)) = Taken(s, c, to, d, TRUE)
           /\ (d < Len(s) /\ to >= StartIn(s, d + 2) /\ ~Spoils(s[d + 1]))
                 => Take(Taken(s, c, to, d, raised)) = Taken(s, c, to, d + 1, FALSE)
<1> DEFINE T == FlattenSeq(s)
           n == Len(s)
           a == StartIn(s, d + 1)
           rest == SubSeq(T, a + 1, to)
           found == [i \in 1..(d - c) |-> ParseBinary(s[c + i])]
           st == Taken(s, c, to, d, raised)
<1>1. \A b : Taken(s, c, to, d, b) = [rest |-> rest, responses |-> found, raised |-> b]
  BY DEF Taken
<1>2. n \in Nat /\ c \in Nat /\ d \in Nat /\ c <= d /\ d <= n /\ d + 1 \in 1..(n + 1)
      /\ \A i \in 1..n : s[i] \in Seq(Byte)
  OBVIOUS
<1>3. T \in Seq(Byte) /\ a \in Nat /\ Len(T) \in Nat /\ to \in Nat /\ a <= to /\ to <= Len(T)
  <2>1. T \in Seq(Byte) /\ a \in Nat
    BY <1>2, StreamFacts
  <2>2. Len(T) \in Nat
    BY <2>1
  <2> HIDE DEF T, a
  <2> QED BY <2>1, <2>2 DEF T, a
<1> HIDE DEF n, found, st
<1>4. /\ TryConsume(rest) = Nothing(0) => Take(st) = Taken(s, c, to, d, FALSE)
      /\ TryConsume(rest) = Raised => Take(st) = Taken(s, c, to, d, TRUE)
  <2>1. st = [rest |-> rest, responses |-> found, raised |-> raised]
    BY <1>1 DEF st
  <2> HIDE DEF rest, st
  <2>2. /\ TryConsume(rest) = Nothing(0)
              => Take(st) = [rest |-> rest, responses |-> found, raised |-> FALSE]
        /\ TryConsume(rest) = Raised
              => Take(st) = [rest |-> rest, responses |-> found, raised |-> TRUE]
    BY <2>1, TakeNothing
  <2> QED BY <1>1, <2>2
<1>5. ASSUME d = n
      PROVE  TryConsume(rest) = Nothing(0)
  <2>1. a = Len(T)
    BY <1>5, StreamFacts DEF n
  <2>2. rest = <<>>
    <3> HIDE DEF T, a
    <3>1. a + 1 > to
      BY <1>3, <2>1
    <3> QED BY <1>3, <3>1
  <2> QED BY <2>2, NothingInNothing
<1>6. ASSUME d < n
      PROVE  /\ to < StartIn(s, d + 2) => TryConsume(rest) = Nothing(0)
             /\ (to >= StartIn(s, d + 2) /\ Spoils(s[d + 1])) => TryConsume(rest) = Raised
             /\ (to >= StartIn(s, d + 2) /\ ~Spoils(s[d + 1]))
                   => Take(st) = Taken(s, c, to, d + 1, FALSE)
  <2> DEFINE r == s[d + 1]
             b == StartIn(s, d + 2)
  <2>1. d + 1 \in 1..n /\ (d + 1) + 1 = d + 2 /\ d + 2 \in 1..(n + 1) /\ d + 1 \in (c + 1)..n
    BY <1>2, <1>6
  <2>2. /\ r \in Seq(Byte) /\ IsResponse(r) /\ Len(r) \in Nat
        /\ Cut(r, a, to) \/ (Spoils(r) /\ to >= b)
    BY <1>2, <1>6, <2>1 DEF n, Stuck
  <2>3. b = a + Len(r) /\ \A q \in 1..Len(r) : T[a + q] = r[q]
    <3>1. /\ StartIn(s, (d + 1) + 1) = a + Len(r)
          /\ \A q \in 1..Len(r) : T[a + q] = r[q]
      BY <2>1, StreamFacts DEF n
    <3> QED BY <2>1, <3>1
  <2>4. b <= Len(T) /\ b \in Nat
    <3>0. b \in Nat
      BY <2>1, StreamFacts DEF n
    <3>1. StartIn(s, n + 1) = Len(T) /\ n + 1 \in (d + 2)..(n + 1)
      BY <1>2, <2>1, StreamFacts DEF n
    <3>2. b <= StartIn(s, n + 1)
      BY <2>1, <3>1, StreamFacts DEF n
    <3> QED BY <3>0, <3>1, <3>2
  <2> HIDE DEF T, a, b, r
  <2>5. /\ to >= b => rest = r \o SubSeq(T, b + 1, to)
        /\ to < b => rest = SubSeq(r, 1, to - a)
    <3>1. to \in a..Len(T)
      BY <1>3
    <3> QED BY <1>3, <2>2, <2>3, <2>4, <3>1, SliceFacts
  <2>6. ASSUME to < b
        PROVE  TryConsume(rest) = Nothing(0)
    <3> DEFINE m == to - a
    <3>0. Cut(r, a, to)
      BY <1>3, <2>2, <2>4, <2>6
    <3>1. m \in 0..(Len(r) - 1)
      BY <1>3, <2>2, <2>3, <2>6
    <3>2. ASSUME m = 1
          PROVE  r[1] < BAD_REQUEST
      <4>1. to = a + 1 /\ Len(r) > 1
        BY <1>3, <2>2, <3>1, <3>2
      <4>2. ~(r[1] >= BAD_REQUEST)
        BY <3>0, <4>1 DEF Cut
      <4>3. r[1] \in Byte
        BY <2>2, <4>1
      <4> QED BY <4>2, <4>3, StatusFacts
    <3>3. ASSUME m = 2
          PROVE  ~HasMarker(r)
      <4>1. to = a + 2 /\ Len(r) > 2
        BY <1>3, <2>2, <3>1, <3>3
      <4> QED BY <3>0, <4>1 DEF Cut
    <3> HIDE DEF m
    <3>4. TryConsume(SubSeq(r, 1, m)) = Nothing(0)
      BY <2>2, <3>1, <3>2, <3>3, PartIsLeft
    <3> QED BY <2>5, <2>6, <3>4 DEF m
  <2>7. ASSUME to >= b
        PROVE  TryConsume(rest) = Response(r) /\ rest = r \o SubSeq(T, b + 1, to)
               /\ SubSeq(T, b + 1, to) \in Seq(Byte)
    <3> DEFINE u == SubSeq(T, b + 1, to)
    <3>1. rest = r \o u /\ u \in Seq(Byte)
      <4>1. u \in Seq(Byte)
        BY <1>3, <2>4
      <4> QED BY <2>5, <2>7, <4>1
    <3>2. Bare(r) => u = <<>>
      <4> SUFFICES ASSUME Bare(r) PROVE u = <<>>
        OBVIOUS
      <4>0. Cut(r, a, to)
        BY <2>2, BareIsClean
      <4>1. to = b
        BY <1>3, <2>2, <2>3, <2>7, <4>0 DEF Cut
      <4>2. b + 1 > to
        BY <1>3, <4>1
      <4> QED BY <1>3, <3>1, <4>2
    <3> HIDE DEF u
    <3>3. TryConsume(rest) = Response(r)
      BY <2>2, <3>1, <3>2, WholeIsConsumed
    <3> QED BY <3>1, <3>3 DEF u
  <2>8. ASSUME to >= b, Spoils(r)
        PROVE  TryConsume(rest) = Raised
    BY <2>7, <2>8 DEF Response, Spoils
  <2>9. ASSUME to >= b, ~Spoils(r)
        PROVE  Take(st) = Taken(s, c, to, d + 1, FALSE)
    <3> DEFINE u == SubSeq(T, b + 1, to)
    <3>1. rest = r \o u /\ u \in Seq(Byte)
      BY <2>7, <2>9
    <3>3. TryConsume(rest) = Response(r)
      BY <2>7, <2>9
    <3> HIDE DEF u
    <3>4. SubSeq(rest, Len(r) + 1, Len(rest)) = u
      <4> HIDE DEF rest
      <4> QED BY <2>2, <3>1, DropFacts
    <3>5. Take(st) = [rest |-> u, responses |-> Append(found, ParseBinary(r)), raised |-> FALSE]
      <4> HIDE DEF rest
      <4>1. TryConsume(rest).found /\ TryConsume(rest).consumed = Len(r)
            /\ TryConsume(rest).response = ParseBinary(r)
        BY <2>9, <3>3 DEF Response, Spoils
      <4>2. st.rest = rest /\ st.responses = found
        BY <1>1 DEF st
      <4> QED BY <3>4, <4>1, <4>2 DEF Take
    <3>6. Append(found, ParseBinary(r)) = [i \in 1..((d + 1) - c) |-> ParseBinary(s[c + i])]
      <4> DEFINE k == d - c
                 more == [i \in 1..(k + 1) |-> ParseBinary(s[c + i])]
      <4>1. k \in Nat /\ (d + 1) - c = k + 1 /\ c + (k + 1) = d + 1
        BY <1>2
      <4>2. found = [i \in 1..k |-> ParseBinary(s[c + i])]
        BY DEF found
      <4> HIDE DEF k
      <4>3. k + 1 \in 1..(k + 1) /\ \A i \in 1..k : i \in 1..(k + 1)
        BY <4>1
      <4>4. more[k + 1] = ParseBinary(r)
        BY <4>1, <4>3 DEF r
      <4>5. found = [i \in 1..k |-> more[i]]
        BY <4>2, <4>3
      <4> HIDE DEF more, found
      <4>6. DOMAIN more = 1..(k + 1) /\ more = [i \in 1..(k + 1) |-> more[i]]
        BY DEF more
      <4>7. Append(found, ParseBinary(r)) = more
        BY <4>1, <4>4, <4>5, <4>6, AppendNext
      <4> QED BY <4>1, <4>7 DEF more
    <3>7. Taken(s, c, to, d + 1, FALSE)
            = [rest |-> u, responses |-> Append(found, ParseBinary(r)), raised |-> FALSE]
      BY <2>1, <3>6 DEF Taken, u, T, b
    <3> QED BY <3>5, <3>7
  <2> QED BY <2>6, <2>8, <2>9 DEF b, r
<1>7. d = n \/ d < n
  BY <1>2
<1>8. ASSUME d = n \/ to < StartIn(s, d + 2)
      PROVE  Take(st) = Taken(s, c, to, d, FALSE)
  BY <1>4, <1>5, <1>6, <1>7, <1>8
<1>9. ASSUME Stuck(s, to, d)
      PROVE  Take(st) = Taken(s, c, to, d, TRUE)
  BY <1>4, <1>6, <1>9 DEF n, Stuck
<1> QED BY <1>6, <1>8, <1>9 DEF n, st

\* A response has a status.
LEMMA ResponseIsNotEmpty ==
    ASSUME NEW r \in Seq(Byte), IsResponse(r)
    PROVE  Len(r) \in Nat /\ Len(r) >= 1 /\ r # <<>>
<1>1. Len(r) = 1 \/ Len(r) = 2 \/ Len(r) > 1
  BY DEF IsResponse
<1>2. Len(r) >= 1 /\ Len(r) \in Nat
  BY <1>1
<1> QED BY <1>2

\* Each reply takes at least a byte of the stream.
LEMMA StartGrows ==
    ASSUME NEW s \in Seq(Seq(Byte)), \A i \in 1..Len(s) : IsResponse(s[i]),
           NEW c \in 0..Len(s)
    PROVE  \A d \in c..Len(s) : StartIn(s, d + 1) >= StartIn(s, c + 1) + (d - c)
<1> DEFINE n == Len(s)
           At(i) == StartIn(s, i + 1)
           Q == {d \in 0..n : d >= c => At(d) >= At(c) + (d - c)}
<1>1. n \in Nat /\ \A i \in 1..n : s[i] \in Seq(Byte)
  OBVIOUS
<1>2. \A i \in 0..n : At(i) \in Nat
  <2> SUFFICES ASSUME NEW i \in 0..n PROVE At(i) \in Nat
    OBVIOUS
  <2>1. i + 1 \in 1..(n + 1)
    BY <1>1
  <2> QED BY <2>1, StreamFacts
<1>3. \A i \in 1..n : At(i) >= At(i - 1) + 1
  <2> SUFFICES ASSUME NEW i \in 1..n PROVE At(i) >= At(i - 1) + 1
    OBVIOUS
  <2>1. (i - 1) + 1 = i /\ i - 1 \in 0..n
    BY <1>1
  <2>2. At(i) = At(i - 1) + Len(s[i])
    BY <2>1, StreamFacts
  <2>3. Len(s[i]) \in Nat /\ Len(s[i]) >= 1
    BY <1>1, ResponseIsNotEmpty
  <2>4. At(i - 1) \in Nat
    BY <1>2, <2>1
  <2> HIDE DEF At
  <2> QED BY <2>2, <2>3, <2>4
<1> HIDE DEF At, n
<1>4. 0 \in Q
  BY <1>1, <1>2 DEF n
<1>5. ASSUME NEW d \in 1..n, d - 1 \in Q
      PROVE  d \in Q
  <2>1. d \in 0..n /\ d - 1 \in 0..n /\ c \in 0..n
    BY <1>1 DEF n
  <2>2. At(d) \in Nat /\ At(d - 1) \in Nat /\ At(c) \in Nat /\ At(d) >= At(d - 1) + 1
    BY <1>2, <1>3, <2>1
  <2>3. CASE d > c
    <3>1. At(d - 1) >= At(c) + ((d - 1) - c)
      BY <1>5, <2>1, <2>3
    <3>2. At(d) >= At(c) + (d - c)
      BY <2>1, <2>2, <3>1
    <3> QED BY <2>1, <3>2
  <2>4. CASE d = c
    BY <2>1, <2>2, <2>4
  <2>5. CASE d < c
    BY <2>1, <2>5
  <2> QED BY <2>1, <2>3, <2>4, <2>5
<1>6. \A d \in 0..n : d \in Q
  <2> HIDE DEF Q
  <2> QED BY <1>1, <1>4, <1>5, UpTo
<1> QED BY <1>1, <1>6 DEF At, n

\* The loop takes every reply that has arrived up to one from which
\* _parse_binary raises, and no more.
LEMMA SplitFacts ==
    ASSUME NEW s \in Seq(Seq(Byte)), NEW c \in 0..Len(s),
           NEW to \in StartIn(s, c + 1)..Len(FlattenSeq(s)),
           \A i \in 1..Len(s) : IsResponse(s[i]), ReadsFromTheLeft(Seq(Byte)),
           Stuck(s, to, c) \/ \A i \in (c + 1)..Len(s) : Cut(s[i], StartIn(s, i), to)
    PROVE  \E d \in c..Len(s) :
              /\ StartIn(s, d + 1) <= to
              /\ d = Len(s) \/ to < StartIn(s, d + 2) \/ Stuck(s, to, d)
              /\ \A i \in (c + 1)..d : ~Spoils(s[i])
              /\ Split(SubSeq(FlattenSeq(s), StartIn(s, c + 1) + 1, to))
                    = Taken(s, c, to, d, IF Stuck(s, to, d) THEN TRUE ELSE FALSE)
<1> DEFINE T == FlattenSeq(s)
           n == Len(s)
           a == StartIn(s, c + 1)
           bytes == SubSeq(T, a + 1, to)
           m == Len(bytes)
           Ends == {d \in c..n : d = n \/ to < StartIn(s, d + 2) \/ Stuck(s, to, d)}
<1>1. n \in Nat /\ c \in Nat /\ n \in c..n /\ c + 1 \in 1..(n + 1)
      /\ \A i \in 1..n : s[i] \in Seq(Byte)
  OBVIOUS
<1>2. T \in Seq(Byte) /\ a \in Nat /\ Len(T) \in Nat /\ to \in Nat /\ a <= to /\ to <= Len(T)
  <2>1. T \in Seq(Byte) /\ a \in Nat
    BY <1>1, StreamFacts
  <2>2. Len(T) \in Nat
    BY <2>1
  <2> HIDE DEF T, a
  <2> QED BY <2>1, <2>2 DEF T, a
<1>3. bytes \in Seq(Byte) /\ m = to - a /\ m \in Nat
  <2> HIDE DEF T, a
  <2> QED BY <1>2
<1> HIDE DEF n
<1>4. PICK d \in Ends : \A e \in Ends : d <= e
  <2>1. Ends \in SUBSET Nat /\ Ends # {}
    <3>1. \A e \in c..n : e \in Nat
      BY <1>1
    <3>2. n \in Ends
      BY <1>1
    <3> QED BY <3>1, <3>2
  <2> HIDE DEF Ends
  <2> QED BY <2>1, LeastNatural
<1>5. d \in Nat /\ c <= d /\ d <= n /\ d \in c..n
  BY <1>1, <1>4
<1>6. \A e \in c..n : e < d => e < n /\ to >= StartIn(s, e + 2) /\ ~Spoils(s[e + 1])
                                    /\ ~Stuck(s, to, e)
  <2> SUFFICES ASSUME NEW e \in c..n, e < d
               PROVE  e < n /\ to >= StartIn(s, e + 2) /\ ~Spoils(s[e + 1]) /\ ~Stuck(s, to, e)
    OBVIOUS
  <2>1. e \notin Ends
    BY <1>1, <1>4, <1>5
  <2>2. e # n /\ ~(to < StartIn(s, e + 2)) /\ ~Stuck(s, to, e)
    BY <2>1
  <2>3. e < n /\ e + 2 \in 1..(n + 1)
    BY <1>1, <2>2
  <2>4. StartIn(s, e + 2) \in Nat
    BY <2>3, StreamFacts DEF n
  <2>5. to >= StartIn(s, e + 2)
    BY <1>2, <2>2, <2>4
  <2> QED BY <2>2, <2>3, <2>5 DEF Stuck, n
<1>7. \A e \in c..d : StartIn(s, e + 1) <= to
  <2> SUFFICES ASSUME NEW e \in c..d PROVE StartIn(s, e + 1) <= to
    OBVIOUS
  <2>1. CASE e = c
    BY <1>2, <2>1
  <2>2. CASE e # c
    <3>1. e - 1 \in c..n /\ e - 1 < d /\ (e - 1) + 2 = e + 1
      BY <1>1, <1>5, <2>2
    <3>2. to >= StartIn(s, (e - 1) + 2)
      BY <1>6, <3>1
    <3>3. e + 1 \in 1..(n + 1)
      BY <1>1, <1>5
    <3>4. StartIn(s, e + 1) \in Nat
      BY <3>3, StreamFacts DEF n
    <3> QED BY <1>2, <3>1, <3>2, <3>4
  <2> QED BY <2>1, <2>2
<1> DEFINE St(e) == Taken(s, c, to, e, FALSE)
           raised == IF Stuck(s, to, d) THEN TRUE ELSE FALSE
           End == Taken(s, c, to, d, raised)
<1>cut. \A e \in c..d : e < n => Cut(s[e + 1], StartIn(s, e + 1), to) \/ Stuck(s, to, e)
  <2> SUFFICES ASSUME NEW e \in c..d, e < n
               PROVE  Cut(s[e + 1], StartIn(s, e + 1), to) \/ Stuck(s, to, e)
    OBVIOUS
  <2>1. CASE Stuck(s, to, c)
    <3>1. e = c
      <4>1. ~(c < d)
        BY <1>1, <1>6, <2>1
      <4> QED BY <1>1, <1>5, <4>1
    <3> QED BY <2>1, <3>1
  <2>2. CASE \A i \in (c + 1)..Len(s) : Cut(s[i], StartIn(s, i), to)
    <3>1. e + 1 \in (c + 1)..Len(s)
      BY <1>1, <1>5 DEF n
    <3> QED BY <2>2, <3>1
  <2> QED BY <2>1, <2>2
<1>at. \A e \in c..d : to \in StartIn(s, e + 1)..Len(FlattenSeq(s)) /\ e \in c..Len(s)
  <2> SUFFICES ASSUME NEW e \in c..d
               PROVE  to \in StartIn(s, e + 1)..Len(FlattenSeq(s)) /\ e \in c..Len(s)
    OBVIOUS
  <2>1. e + 1 \in 1..(n + 1) /\ e \in c..n
    BY <1>1, <1>5
  <2>2. StartIn(s, e + 1) \in Nat
    BY <2>1, StreamFacts DEF n
  <2> QED BY <1>2, <1>7, <2>1, <2>2 DEF n
<1>8. /\ \A e \in c..d : e < d => Take(St(e)) = St(e + 1)
      /\ Take(St(d)) = End /\ Take(End) = End
  <2>1. ASSUME NEW e \in c..d, e < d
        PROVE  Take(St(e)) = St(e + 1)
    <3>0. e \in c..n
      BY <1>1, <1>5
    <3>1. e < n /\ to >= StartIn(s, e + 2) /\ ~Spoils(s[e + 1])
      BY <1>6, <2>1, <3>0
    <3>2. Cut(s[e + 1], StartIn(s, e + 1), to) \/ Stuck(s, to, e)
      BY <1>cut, <3>1
    <3> QED BY <1>at, <3>1, <3>2, TakeFacts DEF n
  <2>2. ASSUME NEW b
        PROVE  Take(Taken(s, c, to, d, b)) = End
    <3>1. d \in c..d
      BY <1>1, <1>5
    <3>2. d < n => Cut(s[d + 1], StartIn(s, d + 1), to) \/ Stuck(s, to, d)
      BY <1>cut, <3>1
    <3>3. CASE Stuck(s, to, d)
      <4>1. Take(Taken(s, c, to, d, b)) = Taken(s, c, to, d, TRUE)
        BY <1>at, <3>1, <3>2, <3>3, TakeFacts DEF n
      <4> QED BY <3>3, <4>1
    <3>4. CASE ~Stuck(s, to, d)
      <4>1. d = n \/ to < StartIn(s, d + 2)
        BY <1>4, <3>4
      <4>2. Take(Taken(s, c, to, d, b)) = Taken(s, c, to, d, FALSE)
        BY <1>at, <3>1, <3>2, <4>1, TakeFacts DEF n
      <4> QED BY <3>4, <4>2
    <3> QED BY <3>3, <3>4
  <2> QED BY <2>1, <2>2
<1>9. St(c) = [rest |-> bytes, responses |-> <<>>, raised |-> FALSE]
  <2>1. c - c = 0
    BY <1>1
  <2>2. [i \in 1..(c - c) |-> ParseBinary(s[c + i])] = <<>>
    BY <2>1
  <2> QED BY <2>2 DEF Taken
<1> DEFINE Body(f) == [k \in 0..m |->
                          IF k = 0 THEN [rest |-> bytes, responses |-> <<>>, raised |-> FALSE]
                          ELSE Take(f[k - 1])]
           Reach(k) == IF c + k <= d THEN St(c + k) ELSE End
           f == [k \in 0..m |-> Reach(k)]
           h == Loop(bytes)
<1> HIDE DEF St, End, m, Ends, bytes
<1>10. f = Body(f)
  <2>1. ASSUME NEW k \in 0..m
        PROVE  f[k] = Body(f)[k]
    <3>1. CASE k = 0
      <4>1. Reach(0) = St(c)
        BY <1>1, <1>5
      <4> HIDE DEF Reach
      <4> QED BY <1>9, <3>1, <4>1
    <3>2. CASE k # 0
      <4>1. k \in Nat /\ k - 1 \in 0..m /\ k - 1 \in Nat
        BY <1>3, <3>2
      <4>2. f[k] = Reach(k) /\ f[k - 1] = Reach(k - 1)
        BY <4>1
      <4>3. Take(Reach(k - 1)) = Reach(k)
        <5>1. CASE c + k <= d
          <6>2. c + (k - 1) \in c..d /\ c + (k - 1) < d /\ (c + (k - 1)) + 1 = c + k
            BY <1>1, <1>5, <4>1, <5>1
          <6>1. Reach(k) = St(c + k) /\ Reach(k - 1) = St(c + (k - 1))
            BY <5>1, <6>2
          <6> HIDE DEF Reach
          <6> QED BY <1>8, <6>1, <6>2
        <5>2. CASE ~(c + k <= d)
          <6>1. Reach(k) = End
            BY <5>2
          <6>2. Reach(k - 1) = St(d) \/ Reach(k - 1) = End
            <7>1. c + (k - 1) <= d => c + (k - 1) = d
              BY <1>1, <1>5, <4>1, <5>2
            <7> QED BY <7>1
          <6> HIDE DEF Reach
          <6> QED BY <1>8, <6>1, <6>2
        <5> QED BY <5>1, <5>2
      <4> HIDE DEF f, Reach
      <4> QED BY <3>2, <4>2, <4>3
    <3> QED BY <3>1, <3>2
  <2>2. DOMAIN f = 0..m /\ DOMAIN Body(f) = 0..m
    OBVIOUS
  <2>3. f = [k \in 0..m |-> f[k]]
    OBVIOUS
  <2> QED BY <2>1, <2>2, <2>3
<1>11. h = Body(h)
  <2> DEFINE g == CHOOSE x : x = Body(x)
  <2>1. h = g
    BY DEF Loop, m
  <2> HIDE DEF Body, h, f
  <2>2. g = Body(g)
    BY <1>10
  <2> QED BY <2>1, <2>2
<1>12. h[0] = f[0] /\ \A k \in 1..m : h[k] = Take(h[k - 1]) /\ f[k] = Take(f[k - 1])
  <2> HIDE DEF h, f
  <2>1. 0 \in 0..m /\ \A k \in 1..m : k \in 0..m /\ k # 0
    BY <1>3
  <2>2. h[0] = Body(h)[0] /\ f[0] = Body(f)[0]
    BY <1>10, <1>11
  <2>3. \A k \in 1..m : h[k] = Body(h)[k] /\ f[k] = Body(f)[k]
    BY <1>10, <1>11
  <2> QED BY <2>1, <2>2, <2>3
<1> DEFINE Q == {k \in 0..m : h[k] = f[k]}
<1>13. \A k \in 0..m : k \in Q
  <2> HIDE DEF h, f
  <2>1. 0 \in Q
    BY <1>3, <1>12
  <2>2. \A k \in 1..m : k - 1 \in Q => k \in Q
    BY <1>3, <1>12
  <2> HIDE DEF Q
  <2> QED BY <1>3, <2>1, <2>2, UpTo
<1>14. Split(bytes) = End
  <2>1. m \in 0..m
    BY <1>3
  <2>2. Split(bytes) = f[m]
    <3>1. h[m] = f[m]
      BY <1>13, <2>1
    <3> QED BY <3>1 DEF Split, m
  <2>3. d \in c..d
    BY <1>1, <1>5
  <2>4. StartIn(s, d + 1) >= a + (d - c) /\ StartIn(s, d + 1) <= to /\ StartIn(s, d + 1) \in Nat
    <3>1. StartIn(s, d + 1) >= a + (d - c)
      BY <1>5, StartGrows DEF n
    <3>2. d + 1 \in 1..(n + 1)
      BY <1>1, <1>5
    <3>3. StartIn(s, d + 1) \in Nat
      BY <3>2, StreamFacts DEF n
    <3> QED BY <1>7, <2>3, <3>1, <3>3
  <2>5. CASE Stuck(s, to, d)
    <3>1. d < n /\ to >= StartIn(s, d + 2)
      BY <2>5 DEF Stuck, n
    <3>2. d + 1 \in c..n /\ (d + 1) + 1 = d + 2 /\ d + 2 \in 1..(n + 1)
      BY <1>1, <1>5, <3>1
    <3>3. StartIn(s, (d + 1) + 1) >= a + ((d + 1) - c)
      BY <3>2, StartGrows DEF n
    <3>4. StartIn(s, d + 2) \in Nat
      BY <3>2, StreamFacts DEF n
    <3> HIDE DEF a
    <3>5. to >= a + ((d + 1) - c)
      BY <1>1, <1>2, <1>5, <3>1, <3>2, <3>3, <3>4
    <3>6. ~(c + m <= d)
      BY <1>1, <1>2, <1>3, <1>5, <3>5
    <3>7. Reach(m) = End
      BY <3>6
    <3> HIDE DEF Reach
    <3> QED BY <2>1, <2>2, <3>7
  <2>6. CASE ~Stuck(s, to, d)
    <3> HIDE DEF a
    <3>1. c + m >= d
      BY <1>1, <1>2, <1>3, <1>5, <2>4
    <3>2. c + m <= d => c + m = d
      BY <1>1, <1>3, <1>5, <3>1
    <3>3. St(d) = End
      BY <2>6 DEF St, End
    <3>4. Reach(m) = End
      BY <3>2, <3>3
    <3> HIDE DEF Reach
    <3> QED BY <2>1, <2>2, <3>4
  <2> QED BY <2>5, <2>6
<1>15. StartIn(s, d + 1) <= to /\ (d = n \/ to < StartIn(s, d + 2) \/ Stuck(s, to, d))
  <2>1. d \in c..d
    BY <1>1, <1>5
  <2> QED BY <1>4, <1>7, <2>1 DEF Ends
<1>16. ASSUME NEW i \in (c + 1)..d
       PROVE  ~Spoils(s[i])
  <2> DEFINE e == i - 1
  <2>1. e \in c..n /\ e < d /\ e + 1 = i
    BY <1>1, <1>5
  <2> HIDE DEF e
  <2> QED BY <1>6, <2>1
<1> QED BY <1>5, <1>14, <1>15, <1>16 DEF End, n, bytes

(***************************************************************************)
(* The invariant                                                           *)
(***************************************************************************)
\* Everything is a part of the stream: the responses on the queue are those of
\* the first replies, none of which raises; the buffer holds what has arrived of
\* the next one and, if that one raises, behind it.  The reader task has ended when
\* that reply is there, and its buffer is gone.
FramingInv ==
    LET stream == FlattenSeq(sent)
        done   == Len(parsed)
        stuck  == Stuck(sent, Received, done)
    IN  /\ sent \in Seq(Replies) /\ Len(sent) <= MaxReplies
        /\ pending \in Seq(0..255) /\ Len(pending) <= Len(stream)
        /\ pending = SubSeq(stream, Received + 1, Len(stream))
        /\ done \in 0..Len(sent)
        /\ parsed = [i \in 1..done |-> ParseBinary(sent[i])]
        /\ Start(done + 1) <= Received
        /\ done = Len(sent) \/ Received < Start(done + 2) \/ stuck
        /\ \A i \in 1..done : ~Spoils(sent[i])
        /\ client \in {"async", "sync"}
        /\ reading = IF client = "async" /\ stuck THEN FALSE ELSE TRUE
        /\ buffer = IF reading THEN SubSeq(stream, Start(done + 1) + 1, Received) ELSE <<>>

\* The bytes a device may send.
LEMMA ReplyFacts ==
    ASSUME NEW r \in Replies
    PROVE  r \in Seq(Byte) /\ r # <<>>
BY FramingAssumption DEF Byte

\* What the device has sent is sequences of bytes.
LEMMA SentIsBytes ==
    ASSUME NEW s \in Seq(Replies)
    PROVE  s \in Seq(Seq(Byte))
<1>1. \A i \in 1..Len(s) : s[i] \in Seq(Byte)
  BY ReplyFacts
<1>2. s \in [1..Len(s) -> Seq(Byte)] /\ Len(s) \in Nat
  BY <1>1
<1> HIDE DEF Byte
<1> QED BY <1>2

\* One more reply lengthens the stream, and moves none of those before it.
LEMMA StreamGrows ==
    ASSUME NEW S, NEW s \in Seq(Seq(S)), NEW r \in Seq(S)
    PROVE  /\ FlattenSeq(Append(s, r)) = FlattenSeq(s) \o r
           /\ \A i \in 1..(Len(s) + 1) : StartIn(Append(s, r), i) = StartIn(s, i)
<1> DEFINE t == Append(s, r)
           n == Len(s)
<1>1. /\ t \in Seq(Seq(S)) /\ Len(t) = n + 1 /\ n \in Nat
      /\ t[n + 1] = r /\ \A i \in 1..n : t[i] = s[i]
  OBVIOUS
<1>2. \A i \in 1..(n + 1) : SubSeq(t, 1, i - 1) = SubSeq(s, 1, i - 1)
  <2> SUFFICES ASSUME NEW i \in 1..(n + 1)
               PROVE  SubSeq(t, 1, i - 1) = SubSeq(s, 1, i - 1)
    OBVIOUS
  <2> DEFINE x == SubSeq(t, 1, i - 1)
             y == SubSeq(s, 1, i - 1)
             k == i - 1
  <2>1. k \in 0..n
    BY <1>1
  <2> HIDE DEF t
  <2>2. /\ x \in Seq(Seq(S)) /\ Len(x) = k /\ \A j \in 1..k : x[j] = t[j]
        /\ y \in Seq(Seq(S)) /\ Len(y) = k /\ \A j \in 1..k : y[j] = s[j]
    BY <1>1, <2>1
  <2> HIDE DEF x, y, k, n
  <2>3. \A j \in 1..k : x[j] = y[j]
    <3>1. \A j \in 1..k : j \in 1..n
      BY <1>1, <2>1
    <3> QED BY <1>1, <2>2, <3>1
  <2>4. x = y
    BY <2>2, <2>3, SeqEqual
  <2> QED BY <2>4 DEF x, y
<1>3. \A i \in 1..(n + 1) : StartIn(t, i) = StartIn(s, i)
  BY <1>2 DEF StartIn
<1> HIDE DEF t
<1>4. FlattenSeq(t) = FlattenSeq(s) \o r
  <2>1. PICK f \in [0..n -> Seq(S)] : Flattens(s, f) /\ FlattenSeq(s) = f[n]
    BY FlattenUnrolled
  <2>2. PICK g \in [0..Len(t) -> Seq(S)] : Flattens(t, g) /\ FlattenSeq(t) = g[Len(t)]
    BY <1>1, FlattenUnrolled
  <2> HIDE DEF n
  <2>3. n \in 0..n /\ n + 1 \in 1..(n + 1) /\ (n + 1) - 1 = n /\ n <= Len(t)
        /\ n + 1 \in Nat
    BY <1>1
  <2>4. \A k \in 0..n : f[k] = g[k]
    <3>1. n = Len(s) /\ Len(s) \in Nat /\ Len(t) \in Nat /\ n <= Len(s)
      BY <1>1 DEF n
    <3>2. SameUpTo(s, t, n)
      BY <1>1 DEF SameUpTo
    <3>3. Flattens(s, f) /\ Flattens(t, g) /\ n \in Nat /\ n <= Len(t)
      BY <1>1, <2>1, <2>2, <2>3
    <3>4. \A m \in Nat : m <= Len(s) /\ m <= Len(t) /\ SameUpTo(s, t, m)
                            => \A k \in 0..m : f[k] = g[k]
      BY <3>1, <3>3, SamePrefixes
    <3> QED BY <3>1, <3>2, <3>3, <3>4
  <2>5. g[n + 1] = g[n] \o r
    BY <1>1, <2>2, <2>3 DEF Flattens
  <2> QED BY <1>1, <2>1, <2>2, <2>3, <2>4, <2>5
<1> QED BY <1>3, <1>4 DEF t

\* The elements of a concatenation.
LEMMA ConcatElements ==
    ASSUME NEW R, NEW g \in Seq(R), NEW h \in Seq(R)
    PROVE  /\ g \o h \in Seq(R) /\ Len(g \o h) = Len(g) + Len(h)
           /\ \A i \in 1..Len(g) : (g \o h)[i] = g[i]
           /\ \A i \in 1..Len(h) : (g \o h)[Len(g) + i] = h[i]
OBVIOUS

\* A function on 1..d, cut after c and put together again.
LEMMA ConcatFacts ==
    ASSUME NEW c \in Nat, NEW d \in Nat, c <= d, NEW f, f = [i \in 1..d |-> f[i]]
    PROVE  [i \in 1..c |-> f[i]] \o [i \in 1..(d - c) |-> f[c + i]] = f
<1> DEFINE R == {f[i] : i \in 1..d}
           g == [i \in 1..c |-> f[i]]
           k == d - c
           h == [i \in 1..k |-> f[c + i]]
           y == g \o h
<1>1. k \in Nat /\ c + k = d /\ (\A i \in 1..c : i \in 1..d) /\ \A i \in 1..k : c + i \in 1..d
  OBVIOUS
<1> HIDE DEF k
<1>2. \A i \in 1..d : f[i] \in R
  OBVIOUS
<1> HIDE DEF R
<1>3. f \in [1..d -> R] /\ g \in [1..c -> R]
  BY <1>1, <1>2
<1>4. h \in [1..k -> R]
  <2>1. \A i \in 1..k : f[c + i] \in R
    BY <1>1, <1>2
  <2> QED BY <2>1
<1>5. f \in Seq(R) /\ Len(f) = d /\ g \in Seq(R) /\ Len(g) = c
  BY <1>3
<1>6. h \in Seq(R) /\ Len(h) = k
  <2> HIDE DEF h
  <2> QED BY <1>1, <1>4
<1>7. (\A i \in 1..c : g[i] = f[i]) /\ \A i \in 1..k : h[i] = f[c + i]
  OBVIOUS
<1> HIDE DEF g, h
<1>8. y \in Seq(R) /\ Len(y) = d /\ (\A i \in 1..c : y[i] = g[i]) /\ \A i \in 1..k : y[c + i] = h[i]
  BY <1>1, <1>5, <1>6, ConcatElements
<1> HIDE DEF y
<1>9. ASSUME NEW i \in 1..d
      PROVE  y[i] = f[i]
  <2>1. CASE i <= c
    <3>1. i \in 1..c
      BY <2>1
    <3> QED BY <1>7, <1>8, <3>1
  <2>2. CASE i > c
    <3> DEFINE j == i - c
    <3>1. j \in 1..k /\ c + j = i
      BY <1>1, <2>2
    <3> HIDE DEF j
    <3>2. y[c + j] = h[j] /\ h[j] = f[c + j]
      BY <1>7, <1>8, <3>1
    <3> QED BY <3>1, <3>2
  <2> QED BY <2>1, <2>2
<1>10. y = f
  BY <1>5, <1>8, <1>9, SeqEqual
<1> QED BY <1>10 DEF y, g, h, k

\* What the invariant says of numbers and types.
LEMMA InvFacts ==
    ASSUME FramingInv
    PROVE  LET stream == FlattenSeq(sent)
               done   == Len(parsed)
               n      == Len(sent)
           IN  /\ sent \in Seq(Seq(Byte)) /\ stream \in Seq(Byte) /\ pending \in Seq(Byte)
               /\ n \in Nat /\ done \in Nat /\ done <= n /\ Len(stream) \in Nat
               /\ Received \in Nat /\ Received <= Len(stream)
               /\ Len(pending) = Len(stream) - Received
               /\ Start(done + 1) \in Nat /\ Start(done + 1) <= Received
               /\ \A i \in 1..(n + 1) : Start(i) = StartIn(sent, i) /\ Start(i) \in Nat
               /\ \A i \in 1..n : IsResponse(sent[i]) => Start(i + 1) > Start(i)
<1> DEFINE stream == FlattenSeq(sent)
           done   == Len(parsed)
           n      == Len(sent)
<1>1. sent \in Seq(Replies) /\ done \in 0..n /\ Start(done + 1) <= Received
      /\ pending = SubSeq(stream, Received + 1, Len(stream)) /\ Len(pending) <= Len(stream)
  BY DEF FramingInv
<1>2. sent \in Seq(Seq(Byte)) /\ n \in Nat
  BY <1>1, SentIsBytes
<1>3. done \in Nat /\ done <= n /\ done + 1 \in 1..(n + 1)
  BY <1>1, <1>2
<1>4. \A i : Start(i) = StartIn(sent, i)
  BY DEF Start, StartIn
<1>5. stream \in Seq(Byte) /\ \A i \in 1..(n + 1) : StartIn(sent, i) \in Nat
  BY <1>2, StreamFacts
<1>6. Len(stream) \in Nat
  BY <1>5
<1>7. Start(done + 1) \in Nat
  BY <1>3, <1>4, <1>5
<1>8. Received = Len(stream) - Len(pending)
  BY DEF Received
<1>9. pending \in Seq(Byte) /\ Received \in Nat /\ Received <= Len(stream)
      /\ Len(pending) = Len(stream) - Received
  <2>1. pending \in Seq(Byte)
    BY DEF FramingInv, Byte
  <2> DEFINE m == Len(pending)
  <2>2. m \in Nat /\ m <= Len(stream)
    BY <1>1, <2>1
  <2> HIDE DEF m, stream
  <2>3. Received = Len(stream) - m
    BY <1>8 DEF m
  <2>4. Received \in Nat /\ Received <= Len(stream) /\ m = Len(stream) - Received
    BY <1>6, <2>2, <2>3
  <2> QED BY <2>1, <2>4 DEF m
<1>10. ASSUME NEW i \in 1..n, IsResponse(sent[i])
       PROVE  Start(i + 1) > Start(i)
  <2>1. sent[i] \in Seq(Byte) /\ i \in 1..(n + 1)
    BY <1>2
  <2>2. Len(sent[i]) \in Nat /\ Len(sent[i]) >= 1
    BY <1>10, <2>1, ResponseIsNotEmpty
  <2>3. StartIn(sent, i + 1) = StartIn(sent, i) + Len(sent[i]) /\ StartIn(sent, i) \in Nat
    BY <1>2, <2>1, StreamFacts
  <2> QED BY <1>4, <2>2, <2>3
<1> QED BY <1>1, <1>2, <1>3, <1>4, <1>5, <1>6, <1>7, <1>9, <1>10

\* Slices of a stream that grows.
LEMMA GrownSlices ==
    ASSUME NEW S, NEW T \in Seq(S), NEW r \in Seq(S), NEW k \in 0..Len(T), NEW a \in 0..k
    PROVE  /\ SubSeq(T \o r, k + 1, Len(T \o r)) = SubSeq(T, k + 1, Len(T)) \o r
           /\ SubSeq(T \o r, a + 1, k) = SubSeq(T, a + 1, k)
<1> DEFINE U == T \o r
           n == Len(T)
<1>1. /\ U \in Seq(S) /\ Len(U) = n + Len(r) /\ n \in Nat /\ Len(r) \in Nat
      /\ (\A i \in 1..n : U[i] = T[i]) /\ \A i \in 1..Len(r) : U[n + i] = r[i]
  BY ConcatElements
<1>2. k \in Nat /\ a \in Nat /\ a <= k /\ k <= n
  OBVIOUS
<1> HIDE DEF U
<1>3. SubSeq(U, k + 1, Len(U)) = SubSeq(T, k + 1, n) \o r
  <2> DEFINE x == SubSeq(U, k + 1, Len(U))
             g == SubSeq(T, k + 1, n)
             y == g \o r
  <2>1. x \in Seq(S) /\ Len(x) = Len(U) - k /\ \A i \in 1..(Len(U) - k) : x[i] = U[k + i]
    <3>1. k <= Len(U) /\ Len(U) \in Nat
      BY <1>1, <1>2
    <3> HIDE DEF n
    <3> QED BY <1>1, <1>2, <3>1
  <2>2. g \in Seq(S) /\ Len(g) = n - k /\ \A i \in 1..(n - k) : g[i] = T[k + i]
    BY <1>2
  <2> HIDE DEF x, g, n
  <2>3. /\ y \in Seq(S) /\ Len(y) = (n - k) + Len(r)
        /\ (\A i \in 1..(n - k) : y[i] = g[i]) /\ \A i \in 1..Len(r) : y[(n - k) + i] = r[i]
    <3>1. /\ y \in Seq(S) /\ Len(y) = Len(g) + Len(r)
          /\ (\A i \in 1..Len(g) : y[i] = g[i]) /\ \A i \in 1..Len(r) : y[Len(g) + i] = r[i]
      <4>1. g \in Seq(S)
        BY <2>2
      <4> QED BY <4>1, ConcatElements
    <3>2. Len(g) = n - k
      BY <2>2
    <3> HIDE DEF y
    <3> QED BY <3>1, <3>2
  <2> HIDE DEF y
  <2>4. Len(x) = Len(y)
    BY <1>1, <1>2, <2>1, <2>3
  <2>5. ASSUME NEW i \in 1..Len(x)
        PROVE  x[i] = y[i]
    <3>1. i \in 1..(Len(U) - k) /\ x[i] = U[k + i]
      BY <2>1
    <3>2. CASE i <= n - k
      <4>1. i \in 1..(n - k) /\ k + i \in 1..n
        BY <1>1, <1>2, <3>1, <3>2
      <4>2. U[k + i] = T[k + i]
        BY <1>1, <4>1
      <4> QED BY <2>2, <2>3, <3>1, <4>1, <4>2
    <3>3. CASE i > n - k
      <4> DEFINE j == i - (n - k)
      <4>1. j \in 1..Len(r) /\ (n - k) + j = i /\ n + j = k + i
        BY <1>1, <1>2, <3>1, <3>3
      <4> HIDE DEF j
      <4>2. y[i] = r[j]
        BY <2>3, <4>1
      <4>3. U[n + j] = r[j]
        BY <1>1, <4>1
      <4> QED BY <3>1, <4>1, <4>2, <4>3
    <3> QED BY <1>1, <1>2, <3>1, <3>2, <3>3
  <2>6. x = y
    BY <2>1, <2>3, <2>4, <2>5, SeqEqual
  <2> QED BY <2>6 DEF x, y, g
<1>4. SubSeq(U, a + 1, k) = SubSeq(T, a + 1, k)
  <2> DEFINE x == SubSeq(U, a + 1, k)
             y == SubSeq(T, a + 1, k)
  <2>1. x \in Seq(S) /\ Len(x) = k - a /\ \A i \in 1..(k - a) : x[i] = U[a + i]
    <3>1. k <= Len(U) /\ Len(U) \in Nat
      BY <1>1, <1>2
    <3> HIDE DEF n
    <3> QED BY <1>1, <1>2, <3>1
  <2>2. y \in Seq(S) /\ Len(y) = k - a /\ \A i \in 1..(k - a) : y[i] = T[a + i]
    BY <1>2
  <2> HIDE DEF x, y, n
  <2>3. ASSUME NEW i \in 1..(k - a)
        PROVE  x[i] = y[i]
    <3>1. a + i \in 1..n
      BY <1>1, <1>2
    <3>2. U[a + i] = T[a + i]
      BY <1>1, <3>1
    <3> QED BY <2>1, <2>2, <3>2
  <2>4. x = y
    BY <2>1, <2>2, <2>3, SeqEqual
  <2> QED BY <2>4 DEF x, y
<1> QED BY <1>3, <1>4 DEF U

\* A chunk moves the boundary between what has arrived and what has not.
LEMMA MovedSlices ==
    ASSUME NEW S, NEW T \in Seq(S), NEW k \in 0..Len(T), NEW a \in 0..k,
           NEW n \in 0..(Len(T) - k)
    PROVE  LET p == SubSeq(T, k + 1, Len(T))
           IN  /\ SubSeq(T, a + 1, k) \o SubSeq(p, 1, n) = SubSeq(T, a + 1, k + n)
               /\ SubSeq(p, n + 1, Len(p)) = SubSeq(T, k + n + 1, Len(T))
<1> DEFINE m == Len(T)
           p == SubSeq(T, k + 1, m)
           b == SubSeq(T, a + 1, k)
           c == SubSeq(p, 1, n)
           y == b \o c
           x == SubSeq(T, a + 1, k + n)
           q == SubSeq(p, n + 1, Len(p))
           z == SubSeq(T, k + n + 1, m)
<1>1. m \in Nat /\ k \in Nat /\ a \in Nat /\ n \in Nat /\ a <= k /\ k <= m /\ k + n <= m
      /\ k + n \in Nat
  OBVIOUS
<1>2. p \in Seq(S) /\ Len(p) = m - k /\ \A i \in 1..(m - k) : p[i] = T[k + i]
  BY <1>1
<1>3. b \in Seq(S) /\ Len(b) = k - a /\ \A i \in 1..(k - a) : b[i] = T[a + i]
  BY <1>1
<1>4. x \in Seq(S) /\ Len(x) = (k + n) - a /\ \A i \in 1..((k + n) - a) : x[i] = T[a + i]
  BY <1>1
<1>5. z \in Seq(S) /\ Len(z) = m - (k + n) /\ \A i \in 1..(m - (k + n)) : z[i] = T[(k + n) + i]
  BY <1>1
<1> HIDE DEF p, b, x, z, m
<1>6. n <= Len(p)
  BY <1>1, <1>2
<1>7. c \in Seq(S) /\ Len(c) = n /\ \A i \in 1..n : c[i] = p[i]
  BY <1>1, <1>2, <1>6
<1>8. q \in Seq(S) /\ Len(q) = (m - k) - n /\ \A i \in 1..((m - k) - n) : q[i] = p[n + i]
  BY <1>1, <1>2, <1>6
<1> HIDE DEF c, q
<1>9. /\ y \in Seq(S) /\ Len(y) = (k - a) + n
      /\ (\A i \in 1..(k - a) : y[i] = b[i]) /\ \A i \in 1..n : y[(k - a) + i] = c[i]
  <2>1. /\ y \in Seq(S) /\ Len(y) = Len(b) + Len(c)
        /\ (\A i \in 1..Len(b) : y[i] = b[i]) /\ \A i \in 1..Len(c) : y[Len(b) + i] = c[i]
    <3>1. b \in Seq(S) /\ c \in Seq(S)
      BY <1>3, <1>7
    <3> QED BY <3>1, ConcatElements
  <2>2. Len(b) = k - a /\ Len(c) = n
    BY <1>3, <1>7
  <2> HIDE DEF y
  <2> QED BY <2>1, <2>2
<1> HIDE DEF y
<1>10. y = x
  <2>1. Len(y) = Len(x)
    BY <1>1, <1>4, <1>9
  <2>2. ASSUME NEW i \in 1..Len(y)
        PROVE  y[i] = x[i]
    <3>1. i \in 1..((k + n) - a) /\ x[i] = T[a + i]
      BY <1>4, <2>1
    <3>2. CASE i <= k - a
      <4>1. i \in 1..(k - a)
        BY <1>1, <3>1, <3>2
      <4> QED BY <1>3, <1>9, <3>1, <4>1
    <3>3. CASE i > k - a
      <4> DEFINE j == i - (k - a)
      <4>1. j \in 1..n /\ (k - a) + j = i /\ k + j = a + i /\ j \in 1..(m - k)
        BY <1>1, <3>1, <3>3
      <4> HIDE DEF j
      <4>2. y[i] = c[j] /\ c[j] = p[j] /\ p[j] = T[k + j]
        BY <1>2, <1>7, <1>9, <4>1
      <4> QED BY <3>1, <4>1, <4>2
    <3> QED BY <1>1, <3>1, <3>2, <3>3
  <2> QED BY <1>4, <1>9, <2>1, <2>2, SeqEqual
<1>11. q = z
  <2>1. Len(q) = Len(z)
    BY <1>1, <1>5, <1>8
  <2>2. ASSUME NEW i \in 1..Len(q)
        PROVE  q[i] = z[i]
    <3>1. i \in 1..((m - k) - n) /\ i \in 1..(m - (k + n)) /\ n + i \in 1..(m - k)
          /\ k + (n + i) = (k + n) + i
      BY <1>1, <1>8
    <3>2. q[i] = p[n + i] /\ p[n + i] = T[k + (n + i)] /\ z[i] = T[(k + n) + i]
      BY <1>2, <1>5, <1>8, <3>1
    <3> QED BY <3>1, <3>2
  <2> QED BY <1>5, <1>8, <2>1, <2>2, SeqEqual
<1> QED BY <1>10, <1>11 DEF y, x, b, c, q, z, p, m

\* The invariant with its parts spelled out for the next state.
LEMMA InvPrime ==
    ASSUME NEW n, n = Len(parsed'), NEW T, T = FlattenSeq(sent'),
           NEW k, k = Len(T) - Len(pending'),
           sent' \in Seq(Replies), Len(sent') <= MaxReplies,
           pending' \in Seq(0..255), Len(pending') <= Len(T),
           pending' = SubSeq(T, k + 1, Len(T)),
           n \in 0..Len(sent'), parsed' = [i \in 1..n |-> ParseBinary(sent'[i])],
           StartIn(sent', n + 1) <= k,
           n = Len(sent') \/ k < StartIn(sent', n + 2) \/ Stuck(sent', k, n),
           \A i \in 1..n : ~Spoils(sent'[i]),
           client' \in {"async", "sync"},
           reading' = IF client' = "async" /\ Stuck(sent', k, n) THEN FALSE ELSE TRUE,
           buffer' = IF reading' THEN SubSeq(T, StartIn(sent', n + 1) + 1, k) ELSE <<>>
    PROVE  FramingInv'
<1>1. Received' = k
  BY DEF Received
<1>2. \A i : Start(i)' = StartIn(sent', i)
  BY DEF Start, StartIn
<1>3. Stuck(sent, Received, Len(parsed))' = Stuck(sent', k, n)
  BY <1>1 DEF Stuck, StartIn, Spoils, Raises, Payload
<1> HIDE DEF Stuck
<1> QED BY <1>1, <1>2, <1>3 DEF FramingInv

\* A device that sends a reply.
LEMMA SendKeeps ==
    ASSUME FramingInv, NEW r \in Replies, IsResponse(r), Send(r)
    PROVE  FramingInv'
<1> DEFINE T == FlattenSeq(sent)
           U == FlattenSeq(sent')
           n == Len(sent)
           d == Len(parsed)
           k == Received
           L == Len(r)
<1>1. /\ sent' = Append(sent, r) /\ pending' = pending \o r
      /\ buffer' = buffer /\ parsed' = parsed /\ n < MaxReplies
      /\ client' = client /\ reading' = reading
  BY DEF Send
<1>2. /\ sent \in Seq(Replies) /\ pending = SubSeq(T, k + 1, Len(T))
      /\ d \in 0..n /\ parsed = [i \in 1..d |-> ParseBinary(sent[i])]
      /\ d = n \/ k < Start(d + 2) \/ Stuck(sent, k, d)
      /\ \A i \in 1..d : ~Spoils(sent[i])
      /\ client \in {"async", "sync"}
      /\ reading = IF client = "async" /\ Stuck(sent, k, d) THEN FALSE ELSE TRUE
      /\ buffer = IF reading THEN SubSeq(T, Start(d + 1) + 1, k) ELSE <<>>
  BY DEF FramingInv
<1>3. /\ sent \in Seq(Seq(Byte)) /\ T \in Seq(Byte) /\ pending \in Seq(Byte)
      /\ n \in Nat /\ d \in Nat /\ d <= n /\ Len(T) \in Nat
      /\ k \in Nat /\ k <= Len(T) /\ Len(pending) = Len(T) - k
      /\ Start(d + 1) \in Nat /\ Start(d + 1) <= k
      /\ \A i \in 1..(n + 1) : Start(i) = StartIn(sent, i) /\ Start(i) \in Nat
  BY InvFacts
<1>4. r \in Seq(Byte) /\ L \in Nat /\ L >= 1
  BY ReplyFacts, ResponseIsNotEmpty
<1>5. U = T \o r /\ \A i \in 1..(n + 1) : StartIn(sent', i) = StartIn(sent, i)
  BY <1>1, <1>3, <1>4, StreamGrows
<1> HIDE DEF T, k
<1>6. Len(U) = Len(T) + L /\ Len(pending') = Len(pending) + L
  <2>1. T \in Seq(Byte) /\ pending \in Seq(Byte) /\ r \in Seq(Byte)
    BY <1>3, <1>4
  <2>2. Len(T \o r) = Len(T) + Len(r) /\ Len(pending \o r) = Len(pending) + Len(r)
    BY <2>1, ConcatElements
  <2> QED BY <1>1, <1>5, <2>2
<1>7. k = Len(U) - Len(pending') /\ Len(pending') <= Len(U)
  BY <1>3, <1>4, <1>6
<1>8. pending' \in Seq(0..255)
  BY <1>1, <1>3, <1>4 DEF Byte
<1> HIDE DEF U, L
<1>9. /\ pending' = SubSeq(U, k + 1, Len(U))
      /\ buffer' = IF reading' THEN SubSeq(U, Start(d + 1) + 1, k) ELSE <<>>
  <2>1. k \in 0..Len(T) /\ Start(d + 1) \in 0..k
    BY <1>3
  <2>2. /\ SubSeq(U, k + 1, Len(U)) = SubSeq(T, k + 1, Len(T)) \o r
        /\ SubSeq(U, Start(d + 1) + 1, k) = SubSeq(T, Start(d + 1) + 1, k)
    BY <1>3, <1>4, <1>5, <2>1, GrownSlices
  <2> QED BY <1>1, <1>2, <2>2
<1>10. sent' \in Seq(Replies) /\ Len(sent') = n + 1 /\ Len(sent') <= MaxReplies
       /\ sent'[n + 1] = r /\ \A i \in 1..n : sent'[i] = sent[i]
  <2>1. /\ Append(sent, r) \in Seq(Replies) /\ Len(Append(sent, r)) = n + 1
        /\ Append(sent, r)[n + 1] = r /\ \A i \in 1..n : Append(sent, r)[i] = sent[i]
    BY <1>2
  <2>2. n + 1 <= MaxReplies
    BY <1>1, <1>3, FramingAssumption
  <2> QED BY <1>1, <2>1, <2>2
<1> HIDE DEF n, d
<1>11. d \in 0..Len(sent') /\ d + 1 \in 1..(n + 1) /\ StartIn(sent', d + 1) = Start(d + 1)
  BY <1>3, <1>5, <1>10
<1>12. parsed' = [i \in 1..d |-> ParseBinary(sent'[i])]
  <2>1. \A i \in 1..d : i \in 1..n
    BY <1>3
  <2> QED BY <1>1, <1>2, <1>10, <2>1
<1>13. /\ d # n => (Stuck(sent', k, d) <=> Stuck(sent, k, d))
       /\ d # n => k < StartIn(sent', d + 2) \/ Stuck(sent', k, d)
       /\ d = n => k < StartIn(sent', d + 2) /\ ~Stuck(sent', k, d) /\ ~Stuck(sent, k, d)
  <2>1. ASSUME d = n
        PROVE  k < StartIn(sent', d + 2) /\ ~Stuck(sent', k, d) /\ ~Stuck(sent, k, d)
    <3>1. sent' \in Seq(Seq(Byte))
      BY <1>10, SentIsBytes
    <3>2. n + 1 \in 1..Len(sent') /\ (n + 1) + 1 = d + 2
      BY <1>3, <1>10, <2>1
    <3>3. StartIn(sent', (n + 1) + 1) = StartIn(sent', n + 1) + Len(sent'[n + 1])
      BY <3>1, <3>2, StreamFacts
    <3>4. StartIn(sent, n + 1) = Len(T)
      BY <1>3, StreamFacts DEF n, T
    <3>5. StartIn(sent', n + 1) = Len(T)
      BY <1>5, <1>11, <2>1, <3>4
    <3>6. StartIn(sent', d + 2) = Len(T) + L
      BY <1>10, <3>2, <3>3, <3>5 DEF L
    <3>7. k < StartIn(sent', d + 2) /\ StartIn(sent', d + 2) \in Nat
      BY <1>3, <1>4, <3>6
    <3>8. ~Stuck(sent', k, d)
      BY <1>3, <3>7 DEF Stuck
    <3>9. ~Stuck(sent, k, d)
      BY <1>3, <2>1 DEF Stuck, n
    <3> QED BY <3>7, <3>8, <3>9
  <2>2. ASSUME d # n
        PROVE  /\ (Stuck(sent', k, d) <=> Stuck(sent, k, d))
               /\ k < StartIn(sent', d + 2) \/ Stuck(sent', k, d)
    <3>1. d + 2 \in 1..(n + 1) /\ d + 1 \in 1..n /\ d < n /\ d < n + 1
      BY <1>3, <2>2
    <3>2. StartIn(sent', d + 2) = Start(d + 2) /\ StartIn(sent, d + 2) = Start(d + 2)
      BY <1>3, <1>5, <3>1
    <3>3. sent'[d + 1] = sent[d + 1]
      BY <1>10, <3>1
    <3>4. d < Len(sent) /\ d < Len(sent')
      BY <1>10, <3>1 DEF n
    <3>5. (Stuck(sent', k, d) <=> Stuck(sent, k, d))
      BY <3>2, <3>3, <3>4 DEF Stuck
    <3> QED BY <1>2, <2>2, <3>2, <3>5
  <2> QED BY <2>1, <2>2
<1>14. d = Len(parsed')
  BY <1>1 DEF d
<1>15. StartIn(sent', d + 1) <= k
       /\ buffer' = IF reading' THEN SubSeq(U, StartIn(sent', d + 1) + 1, k) ELSE <<>>
  BY <1>3, <1>9, <1>11
<1>16. \A i \in 1..d : ~Spoils(sent'[i])
  <2>1. \A i \in 1..d : i \in 1..n
    BY <1>3
  <2> QED BY <1>2, <1>10, <2>1
<1>17. /\ client' \in {"async", "sync"}
       /\ reading' = IF client' = "async" /\ Stuck(sent', k, d) THEN FALSE ELSE TRUE
  <2>1. CASE Stuck(sent', k, d)
    <3>1. Stuck(sent, k, d)
      BY <1>13, <2>1
    <3> QED BY <1>1, <1>2, <2>1, <3>1
  <2>2. CASE ~Stuck(sent', k, d)
    <3>1. ~Stuck(sent, k, d)
      BY <1>13, <2>2
    <3> QED BY <1>1, <1>2, <2>2, <3>1
  <2> QED BY <2>1, <2>2
<1>18. d = Len(sent') \/ k < StartIn(sent', d + 2) \/ Stuck(sent', k, d)
  BY <1>13
<1> QED BY <1>7, <1>8, <1>9, <1>10, <1>11, <1>12, <1>14, <1>15, <1>16, <1>17, <1>18, InvPrime DEF U

\* A chunk that arrives.
LEMMA ChunkKeeps ==
    ASSUME FramingInv, \A r \in Replies : IsResponse(r), ReadsFromTheLeft(Seq(Byte)),
           NEW m \in 1..Len(pending), Chunk(m)
    PROVE  FramingInv'
<1> DEFINE T == FlattenSeq(sent)
           n == Len(sent)
           c == Len(parsed)
           k == Received
           a == Start(c + 1)
           to == k + m
           bytes == buffer \o SubSeq(pending, 1, m)
           ends == Split(bytes).raised /\ client = "async"
<1>1. /\ KindCut(k, to) /\ sent' = sent /\ pending' = SubSeq(pending, m + 1, Len(pending))
      /\ buffer' = (IF ends THEN <<>> ELSE Split(bytes).rest)
      /\ parsed' = parsed \o Split(bytes).responses
      /\ reading /\ reading' = ~ends /\ client' = client
  BY DEF Chunk
<1>2. /\ sent \in Seq(Replies) /\ n <= MaxReplies
      /\ pending = SubSeq(T, k + 1, Len(T))
      /\ c \in 0..n /\ parsed = [i \in 1..c |-> ParseBinary(sent[i])]
      /\ c = n \/ k < Start(c + 2) \/ Stuck(sent, k, c)
      /\ \A i \in 1..c : ~Spoils(sent[i])
      /\ client \in {"async", "sync"}
      /\ buffer = SubSeq(T, a + 1, k)
  BY <1>1 DEF FramingInv
<1>3. /\ sent \in Seq(Seq(Byte)) /\ T \in Seq(Byte) /\ pending \in Seq(Byte)
      /\ n \in Nat /\ c \in Nat /\ c <= n /\ Len(T) \in Nat
      /\ k \in Nat /\ k <= Len(T) /\ Len(pending) = Len(T) - k
      /\ a \in Nat /\ a <= k
      /\ \A i \in 1..(n + 1) : Start(i) = StartIn(sent, i) /\ Start(i) \in Nat
  BY InvFacts
<1> HIDE DEF T, k, a
<1>4. m \in Nat /\ to \in Nat /\ to <= Len(T) /\ k < to
  BY <1>3
<1>5. bytes = SubSeq(T, a + 1, to) /\ pending' = SubSeq(T, to + 1, Len(T))
  <2>1. k \in 0..Len(T) /\ a \in 0..k /\ m \in 0..(Len(T) - k)
    BY <1>3
  <2> QED BY <1>1, <1>2, <1>3, <2>1, MovedSlices
<1> HIDE DEF to, bytes
<1>6. pending' \in Seq(0..255) /\ Len(pending') <= Len(T) /\ to = Len(T) - Len(pending')
  <2>1. pending' \in Seq(Byte) /\ Len(pending') = Len(T) - to
    <3>1. to \in Nat /\ Len(T) \in to..Len(T)
      BY <1>3, <1>4
    <3> QED BY <1>3, <1>5, <3>1, SliceLength
  <2> QED BY <1>3, <1>4, <2>1 DEF Byte
<1>7. \A i \in 1..n : IsResponse(sent[i]) /\ sent[i] \in Seq(Byte)
  BY <1>2, <1>3
<1> HIDE DEF n, c
<1>8. ASSUME NEW i \in (c + 1)..n, ~Stuck(sent, k, c)
      PROVE  Cut(sent[i], StartIn(sent, i), to)
  <2>1. i \in 1..n /\ i \in DOMAIN sent /\ i \in 1..(n + 1) /\ i + 1 \in 1..(n + 1)
        /\ c # n /\ c + 2 \in 1..(n + 1) /\ i + 1 \in (c + 2)..(n + 1)
    <3>1. i \in 1..n
      BY <1>3
    <3>2. i \in DOMAIN sent
      BY <1>2, <3>1 DEF n
    <3> QED BY <1>3, <3>1, <3>2
  <2> DEFINE r == sent[i]
             s == Start(i)
             e == s + Len(r)
  <2>2. /\ r[1] >= BAD_REQUEST /\ Len(r) > 1 => to # s + 1
        /\ HasMarker(r) /\ Len(r) > 2 => to # s + 2
        /\ Bare(r) => k >= e \/ to <= e
    BY <1>1, <2>1 DEF KindCut
  <2>3. s = StartIn(sent, i)
    BY <1>3, <2>1
  <2>4. k < e
    <3>1. StartIn(sent, c + 2) <= StartIn(sent, i + 1)
      BY <1>3, <2>1, StreamFacts DEF n
    <3>2. StartIn(sent, i + 1) = e
      <4>1. StartIn(sent, i + 1) = StartIn(sent, i) + Len(sent[i])
        BY <1>3, <2>1, StreamFacts DEF n
      <4> QED BY <2>3, <4>1
    <3>3. k < StartIn(sent, c + 2) /\ StartIn(sent, c + 2) \in Nat
      BY <1>2, <1>3, <1>8, <2>1
    <3>4. StartIn(sent, i + 1) \in Nat
      BY <1>3, <2>1
    <3> HIDE DEF e
    <3> QED BY <1>3, <3>1, <3>2, <3>3, <3>4
  <2>5. e \in Nat
    <3>1. Len(r) \in Nat
      BY <1>7, <2>1
    <3> QED BY <1>3, <2>1, <3>1
  <2>6. Bare(r) => to <= e
    <3> HIDE DEF e, r
    <3> QED BY <1>3, <2>2, <2>4, <2>5
  <2> QED BY <2>2, <2>3, <2>6 DEF Cut
<1>9. a = StartIn(sent, c + 1) /\ to \in StartIn(sent, c + 1)..Len(FlattenSeq(sent))
  <2>1. c + 1 \in 1..(n + 1)
    BY <1>3
  <2>2. a = StartIn(sent, c + 1)
    BY <1>3, <2>1 DEF a, c
  <2>3. to \in a..Len(T)
    BY <1>3, <1>4
  <2> QED BY <2>2, <2>3 DEF T
<1>kept. Stuck(sent, k, c) => Stuck(sent, to, c)
  <2> SUFFICES ASSUME Stuck(sent, k, c) PROVE Stuck(sent, to, c)
    OBVIOUS
  <2>1. c < n /\ k >= StartIn(sent, c + 2) /\ Spoils(sent[c + 1])
    BY DEF Stuck, n
  <2>2. c + 2 \in 1..(n + 1)
    BY <1>3, <2>1
  <2>3. StartIn(sent, c + 2) \in Nat
    BY <1>3, <2>2
  <2>4. to >= StartIn(sent, c + 2)
    BY <1>3, <1>4, <2>1, <2>3
  <2> QED BY <2>1, <2>4 DEF Stuck, n
<1>10. PICK d \in c..n :
          /\ StartIn(sent, d + 1) <= to
          /\ d = n \/ to < StartIn(sent, d + 2) \/ Stuck(sent, to, d)
          /\ \A i \in (c + 1)..d : ~Spoils(sent[i])
          /\ Split(bytes) = Taken(sent, c, to, d, IF Stuck(sent, to, d) THEN TRUE ELSE FALSE)
  <2>1. bytes = SubSeq(FlattenSeq(sent), StartIn(sent, c + 1) + 1, to)
    BY <1>5, <1>9 DEF T
  <2>2. c \in 0..Len(sent) /\ n = Len(sent)
    BY <1>3 DEF n
  <2>3. \A i \in 1..Len(sent) : IsResponse(sent[i])
    BY <1>7 DEF n
  <2>4. Stuck(sent, to, c) \/ \A i \in (c + 1)..Len(sent) : Cut(sent[i], StartIn(sent, i), to)
    BY <1>8, <1>kept DEF n
  <2> QED BY <1>3, <1>9, <2>1, <2>2, <2>3, <2>4, SplitFacts
<1>11. d \in Nat /\ c <= d /\ d \in 0..n
  BY <1>3
<1>split. /\ Split(bytes).rest = SubSeq(FlattenSeq(sent), StartIn(sent, d + 1) + 1, to)
       /\ Split(bytes).responses = [i \in 1..(d - c) |-> ParseBinary(sent[c + i])]
       /\ Split(bytes).raised = IF Stuck(sent, to, d) THEN TRUE ELSE FALSE
  <2> DEFINE stuck == IF Stuck(sent, to, d) THEN TRUE ELSE FALSE
  <2>1. Split(bytes) = Taken(sent, c, to, d, stuck)
    BY <1>10
  <2> HIDE DEF stuck
  <2>2. Split(bytes).raised = stuck
    BY <2>1 DEF Taken
  <2>3. /\ Split(bytes).rest = SubSeq(FlattenSeq(sent), StartIn(sent, d + 1) + 1, to)
        /\ Split(bytes).responses = [i \in 1..(d - c) |-> ParseBinary(sent[c + i])]
    <3>1. /\ Taken(sent, c, to, d, stuck).rest
               = SubSeq(FlattenSeq(sent), StartIn(sent, d + 1) + 1, to)
          /\ Taken(sent, c, to, d, stuck).responses
               = [i \in 1..(d - c) |-> ParseBinary(sent[c + i])]
      <4> DEFINE rest == SubSeq(FlattenSeq(sent), StartIn(sent, d + 1) + 1, to)
                 found == [i \in 1..(d - c) |-> ParseBinary(sent[c + i])]
      <4>1. Taken(sent, c, to, d, stuck) = [rest |-> rest, responses |-> found, raised |-> stuck]
        BY DEF Taken
      <4> HIDE DEF rest, found
      <4>2. Taken(sent, c, to, d, stuck).rest = rest /\ Taken(sent, c, to, d, stuck).responses = found
        BY <4>1
      <4> QED BY <4>2 DEF rest, found
    <3> QED BY <2>1, <3>1
  <2>4. stuck = IF Stuck(sent, to, d) THEN TRUE ELSE FALSE
    BY DEF stuck
  <2> QED BY <2>2, <2>3, <2>4
<1>12. /\ reading' = IF client' = "async" /\ Stuck(sent', to, d) THEN FALSE ELSE TRUE
       /\ buffer' = IF reading' THEN SubSeq(T, StartIn(sent, d + 1) + 1, to) ELSE <<>>
  <2>1. CASE Stuck(sent, to, d)
    BY <1>1, <1>split, <2>1 DEF T
  <2>2. CASE ~Stuck(sent, to, d)
    BY <1>1, <1>split, <2>2 DEF T
  <2> QED BY <2>1, <2>2
<1>13. parsed' = [i \in 1..d |-> ParseBinary(sent[i])]
  <2> DEFINE f == [i \in 1..d |-> ParseBinary(sent[i])]
  <2>1. parsed = [i \in 1..c |-> f[i]]
    BY <1>2, <1>3, <1>11
  <2>2. Split(bytes).responses = [i \in 1..(d - c) |-> f[c + i]]
    <3>1. \A i \in 1..(d - c) : c + i \in 1..d
      BY <1>3, <1>11
    <3> QED BY <1>split, <3>1
  <2>3. f = [i \in 1..d |-> f[i]]
    OBVIOUS
  <2>4. parsed' = [i \in 1..c |-> f[i]] \o [i \in 1..(d - c) |-> f[c + i]]
    BY <1>1, <2>1, <2>2
  <2> HIDE DEF f
  <2>5. parsed' = f
    <3>1. c \in Nat /\ d \in Nat /\ c <= d
      BY <1>3, <1>11
    <3>2. [i \in 1..c |-> f[i]] \o [i \in 1..(d - c) |-> f[c + i]] = f
      BY <2>3, <3>1, ConcatFacts
    <3> QED BY <2>4, <3>2
  <2> QED BY <2>5 DEF f
<1>14. d = Len(parsed')
  BY <1>11, <1>13
<1>15. sent' \in Seq(Replies) /\ Len(sent') = n /\ n <= MaxReplies /\ T = FlattenSeq(sent')
       /\ client' \in {"async", "sync"}
  BY <1>1, <1>2 DEF n, T
<1>clean. \A i \in 1..d : ~Spoils(sent'[i])
  <2> SUFFICES ASSUME NEW i \in 1..d PROVE ~Spoils(sent[i])
    BY <1>1
  <2>1. i \in 1..c \/ i \in (c + 1)..d
    BY <1>3, <1>11
  <2> QED BY <1>2, <1>10, <2>1
<1>16. /\ StartIn(sent', d + 1) <= to
       /\ d = Len(sent') \/ to < StartIn(sent', d + 2) \/ Stuck(sent', to, d)
       /\ buffer' = IF reading' THEN SubSeq(T, StartIn(sent', d + 1) + 1, to) ELSE <<>>
       /\ parsed' = [i \in 1..d |-> ParseBinary(sent'[i])]
  BY <1>1, <1>10, <1>12, <1>13, <1>15
<1> QED BY <1>5, <1>6, <1>11, <1>12, <1>14, <1>15, <1>16, <1>clean, InvPrime

\* Before the first reply, all sequences are empty.
LEMMA InvHoldsAtFirst ==
    Init => FramingInv
<1> SUFFICES ASSUME Init PROVE FramingInv
  OBVIOUS
<1>1. sent = <<>> /\ pending = <<>> /\ buffer = <<>> /\ parsed = <<>>
      /\ client \in {"async", "sync"} /\ reading = TRUE
  BY DEF Init
<1>2. FlattenSeq(sent) = <<>> /\ FlattenSeq(<<>>) = <<>>
  BY <1>1 DEF FlattenSeq
<1>3. Received = 0
  BY <1>1, <1>2 DEF Received
<1>4. Start(1) = 0
  <2>1. sent \in Seq(Seq(Byte))
    BY <1>1
  <2>2. StartIn(sent, 1) = 0
    BY <2>1, StreamFacts
  <2> QED BY <2>2 DEF Start, StartIn
<1>5. sent \in Seq(Replies) /\ Len(sent) = 0 /\ 0 <= MaxReplies
  BY <1>1, FramingAssumption
<1>6. pending \in Seq(0..255) /\ Len(pending) = 0 /\ pending = SubSeq(<<>>, 0 + 1, 0)
  BY <1>1
<1>7. Len(parsed) = 0 /\ parsed = [i \in 1..0 |-> ParseBinary(sent[i])]
  BY <1>1
<1>8. buffer = SubSeq(<<>>, 0 + 1, 0)
  BY <1>1
<1>9. ~Stuck(sent, Received, Len(parsed))
  BY <1>5, <1>7 DEF Stuck
<1> QED BY <1>1, <1>2, <1>3, <1>4, <1>5, <1>6, <1>7, <1>8, <1>9 DEF FramingInv

\* Every step keeps the invariant.
LEMMA InvIsKept ==
    ASSUME \A r \in Replies : IsResponse(r), ReadsFromTheLeft(Seq(Byte))
    PROVE  FramingInv /\ [Next]_vars => FramingInv'
<1> SUFFICES ASSUME FramingInv, [Next]_vars
             PROVE  FramingInv'
  OBVIOUS
<1>1. ASSUME NEW r \in Replies, Send(r)
      PROVE  FramingInv'
  BY <1>1, SendKeeps
<1>2. ASSUME NEW m \in 1..Len(pending), Chunk(m)
      PROVE  FramingInv'
  BY <1>2, ChunkKeeps
<1>3. CASE UNCHANGED vars
  BY <1>3 DEF vars, FramingInv, Received, Start, Stuck, StartIn, Spoils, Raises, Payload
<1> QED BY <1>1, <1>2, <1>3 DEF Next

\* Whatever a working device sends, however it is cut, and whatever the decoder
\* makes of its bytes, the queue, the buffer and what is on its way are the stream
\* of replies, cut at the end of a reply and at the last byte that arrived; behind
\* a reply from which _parse_binary raises nothing is parsed.
THEOREM FramingInvariant ==
    ASSUME \A r \in Replies : IsResponse(r), ReadsFromTheLeft(Seq(0..255))
    PROVE  Spec => []FramingInv
<1>1. Init => FramingInv
  BY InvHoldsAtFirst
<1>2. FramingInv /\ [Next]_vars => FramingInv'
  BY InvIsKept DEF Byte
<1> QED BY <1>1, <1>2, PTL DEF Spec

\* Where the reply that is arriving lies, and what there is of it.
LEMMA ArrivingFacts ==
    ASSUME FramingInv
    PROVE  /\ buffer \in Seq(Byte)
           /\ Len(parsed) = Len(sent) => buffer = <<>>
           /\ Len(parsed) # Len(sent) =>
                 LET next == sent[Len(parsed) + 1]
                 IN  /\ Len(parsed) + 1 \in 1..Len(sent)
                     /\ ~Stuck(sent, Received, Len(parsed)) =>
                           Len(buffer) < Len(next) /\ buffer = SubSeq(next, 1, Len(buffer))
                     /\ Stuck(sent, Received, Len(parsed)) =>
                           \/ client = "async" /\ buffer = <<>> /\ Spoils(next)
                           \/ client = "sync" /\ IsPrefix(next, buffer) /\ Spoils(next)
<1> DEFINE T == FlattenSeq(sent)
           n == Len(sent)
           d == Len(parsed)
           k == Received
           a == Start(d + 1)
<1>1. /\ d = n \/ k < Start(d + 2) \/ Stuck(sent, k, d)
      /\ client \in {"async", "sync"}
      /\ reading = IF client = "async" /\ Stuck(sent, k, d) THEN FALSE ELSE TRUE
      /\ buffer = IF reading THEN SubSeq(T, a + 1, k) ELSE <<>>
  BY DEF FramingInv
<1>2. /\ sent \in Seq(Seq(Byte)) /\ T \in Seq(Byte)
      /\ n \in Nat /\ d \in Nat /\ d <= n /\ Len(T) \in Nat
      /\ k \in Nat /\ k <= Len(T) /\ a \in Nat /\ a <= k
      /\ \A i \in 1..(n + 1) : Start(i) = StartIn(sent, i) /\ Start(i) \in Nat
  BY InvFacts
<1> HIDE DEF T, k, a, d
<1>3. SubSeq(T, a + 1, k) \in Seq(Byte) /\ Len(SubSeq(T, a + 1, k)) = k - a
  <2>1. k \in a..Len(T)
    BY <1>2
  <2> QED BY <1>2, <2>1, SliceLength
<1>4. ASSUME d = n
      PROVE  buffer = <<>>
  <2>1. a = Len(T)
    <3>1. StartIn(sent, n + 1) = Len(T)
      BY <1>2, StreamFacts DEF T
    <3>2. n + 1 \in 1..(n + 1)
      BY <1>2
    <3>3. a = Start(n + 1)
      BY <1>4 DEF a
    <3> QED BY <1>2, <3>1, <3>2, <3>3
  <2>2. Len(SubSeq(T, a + 1, k)) = 0
    BY <1>2, <1>3, <2>1
  <2>3. \A s \in Seq(Byte) : Len(s) = 0 => s = <<>>
    OBVIOUS
  <2> QED BY <1>1, <1>3, <2>2, <2>3
<1>5. ASSUME d # n
      PROVE  LET r == sent[d + 1]
             IN  /\ d + 1 \in 1..n
                 /\ ~Stuck(sent, k, d) =>
                       Len(buffer) < Len(r) /\ buffer = SubSeq(r, 1, Len(buffer))
                 /\ Stuck(sent, k, d) =>
                       \/ client = "async" /\ buffer = <<>> /\ Spoils(r)
                       \/ client = "sync" /\ IsPrefix(r, buffer) /\ Spoils(r)
  <2> DEFINE r == sent[d + 1]
  <2>1. d + 1 \in 1..n /\ d + 1 \in 1..(n + 1) /\ (d + 1) + 1 = d + 2 /\ d + 2 \in 1..(n + 1)
    BY <1>2, <1>5
  <2>2. r \in Seq(Byte) /\ Len(r) \in Nat
    BY <1>2, <2>1
  <2>3. a = StartIn(sent, d + 1) /\ Start(d + 2) = StartIn(sent, d + 2)
    BY <1>2, <2>1 DEF a
  <2>4. StartIn(sent, (d + 1) + 1) = StartIn(sent, d + 1) + Len(r)
        /\ \A q \in 1..Len(r) : T[a + q] = r[q]
    BY <1>2, <2>1, <2>3, StreamFacts DEF T
  <2>5. Start(d + 2) = a + Len(r) /\ StartIn(sent, d + 2) = a + Len(r)
    BY <2>1, <2>3, <2>4
  <2>6. a + Len(r) <= Len(T)
    <3>1. StartIn(sent, n + 1) = Len(T) /\ n + 1 \in (d + 2)..(n + 1)
      BY <1>2, <2>1, StreamFacts DEF T
    <3>2. StartIn(sent, d + 2) <= StartIn(sent, n + 1)
      BY <1>2, <2>1, <3>1, StreamFacts
    <3> QED BY <2>3, <2>5, <3>1, <3>2
  <2>7. /\ k >= a + Len(r) =>
              SubSeq(T, a + 1, k) = r \o SubSeq(T, a + Len(r) + 1, k)
        /\ k < a + Len(r) => SubSeq(T, a + 1, k) = SubSeq(r, 1, k - a)
    <3>1. k \in a..Len(T) /\ a \in Nat /\ T \in Seq(Byte)
      BY <1>2
    <3>2. \A q \in 1..Len(r) : T[a + q] = r[q]
      BY <2>4
    <3> HIDE DEF r
    <3> QED BY <2>2, <2>6, <3>1, <3>2, SliceFacts
  <2>8. ASSUME ~Stuck(sent, k, d)
        PROVE  Len(buffer) < Len(r) /\ buffer = SubSeq(r, 1, Len(buffer))
    <3>1. k < a + Len(r) /\ reading
      BY <1>1, <1>5, <2>5, <2>8
    <3>2. k - a < Len(r)
      <4> HIDE DEF r
      <4> QED BY <1>2, <2>2, <3>1
    <3> QED BY <1>1, <1>3, <2>7, <3>1, <3>2
  <2>9. ASSUME Stuck(sent, k, d)
        PROVE  \/ client = "async" /\ buffer = <<>> /\ Spoils(r)
               \/ client = "sync" /\ IsPrefix(r, buffer) /\ Spoils(r)
    <3>1. k >= a + Len(r) /\ Spoils(r)
      BY <2>5, <2>9 DEF Stuck
    <3>2. CASE client = "async"
      BY <1>1, <2>9, <3>1, <3>2
    <3>3. CASE client = "sync"
      <4> DEFINE u == SubSeq(T, a + Len(r) + 1, k)
      <4>1. buffer = r \o u
        BY <1>1, <2>7, <3>1, <3>3
      <4>2. u \in Seq(Byte)
        <5> HIDE DEF r
        <5> QED BY <1>2, <2>2, <3>1
      <4> HIDE DEF u, r
      <4>3. /\ r \o u \in Seq(Byte) /\ Len(r \o u) = Len(r) + Len(u) /\ Len(u) \in Nat
            /\ \A i \in 1..Len(r) : (r \o u)[i] = r[i]
        BY <2>2, <4>2, ConcatElements
      <4>4. SubSeq(r, 1, Len(r)) = SubSeq(r \o u, 1, Len(r)) /\ Len(r) <= Len(r \o u)
        BY <2>2, <4>3
      <4>5. IsPrefix(r, buffer)
        BY <4>1, <4>4 DEF IsPrefix
      <4> QED BY <3>1, <3>3, <4>5
    <3> QED BY <1>1, <3>2, <3>3
  <2> QED BY <2>1, <2>8, <2>9
<1>6. buffer \in Seq(Byte)
  BY <1>1, <1>3
<1> QED BY <1>4, <1>5, <1>6 DEF d, k

\* A response on the queue is its reply, as the device meant it.
LEMMA ParsedFacts ==
    ASSUME FramingInv, \A r \in Replies : IsResponse(r), NEW i \in DOMAIN parsed
    PROVE  /\ i \in 1..Len(parsed) /\ i \in 1..Len(sent)
           /\ sent[i] \in Replies /\ sent[i] \in Seq(Byte) /\ sent[i] # <<>>
           /\ parsed[i].status = sent[i][1]
           /\ ~NullInData(sent[i]) => parsed[i] = Meaning(sent[i])
<1> DEFINE d == Len(parsed)
<1>1. /\ sent \in Seq(Replies) /\ d \in 0..Len(sent)
      /\ parsed = [j \in 1..d |-> ParseBinary(sent[j])]
  BY DEF FramingInv
<1> HIDE DEF d
<1>2. Len(sent) \in Nat /\ d \in Nat /\ d <= Len(sent)
  BY <1>1
<1>3. i \in 1..d
  BY <1>1
<1>4. i \in 1..Len(sent) /\ parsed[i] = ParseBinary(sent[i])
  BY <1>1, <1>2, <1>3
<1>5. sent[i] \in Replies
  BY <1>1, <1>4
<1>6. sent[i] \in Seq(Byte) /\ sent[i] # <<>> /\ IsResponse(sent[i])
  BY <1>5, ReplyFacts
<1> QED BY <1>3, <1>4, <1>5, <1>6, ParseFacts DEF d

\* The buffer never holds as much as the longest reply, and the reader keeps
\* reading, unless _parse_binary raises from a reply; a status is a byte.
THEOREM FramingTypeCorrect ==
    ASSUME \A r \in Replies : IsResponse(r), ReadsFromTheLeft(Seq(0..255))
    PROVE  Spec => []TypeOK
<1>1. FramingInv => TypeOK
  <2> SUFFICES ASSUME FramingInv PROVE TypeOK
    OBVIOUS
  <2>1. sent \in Seq(Replies) /\ Len(sent) <= MaxReplies /\ pending \in Seq(0..255)
    BY DEF FramingInv
  <2>2. buffer \in Seq(0..255)
    BY ArrivingFacts DEF Byte
  <2>5. ASSUME Stuck(sent, Received, Len(parsed))
        PROVE  ~Clean(Len(sent))
    <3> DEFINE i == Len(parsed) + 1
    <3>1. Len(parsed) \in Nat /\ Len(sent) \in Nat
      BY InvFacts
    <3>2. Len(parsed) < Len(sent) /\ Spoils(sent[i])
      BY <2>5 DEF Stuck
    <3>3. i \in 1..Len(sent)
      BY <3>1, <3>2
    <3> HIDE DEF i
    <3> QED BY <3>2, <3>3 DEF Clean
  <2>6. /\ client \in {"async", "sync"}
        /\ reading = IF client = "async" /\ Stuck(sent, Received, Len(parsed)) THEN FALSE ELSE TRUE
    BY DEF FramingInv
  <2>7. reading \in BOOLEAN /\ (~reading => client = "async" /\ ~Clean(Len(sent)))
    BY <2>5, <2>6
  <2>3. \/ \E r \in Replies : Len(buffer) < Len(r)
        \/ client = "sync" /\ ~Clean(Len(sent))
    <3>1. CASE Len(parsed) = Len(sent) \/ buffer = <<>>
      <4>1. PICK r \in Replies : TRUE
        BY FramingAssumption
      <4>2. Len(r) \in Nat /\ Len(r) >= 1
        BY ReplyFacts, ResponseIsNotEmpty
      <4>3. Len(buffer) = 0
        BY <3>1, ArrivingFacts
      <4> QED BY <4>2, <4>3
    <3>3. CASE Stuck(sent, Received, Len(parsed)) /\ Len(parsed) # Len(sent) /\ buffer # <<>>
      <4>1. client = "sync"
        BY <3>3, ArrivingFacts
      <4> QED BY <2>5, <3>3, <4>1
    <3>2. CASE ~Stuck(sent, Received, Len(parsed)) /\ Len(parsed) # Len(sent)
      <4> DEFINE i == Len(parsed) + 1
      <4>1. i \in 1..Len(sent) /\ Len(buffer) < Len(sent[i])
        BY <3>2, ArrivingFacts
      <4> HIDE DEF i
      <4>2. sent[i] \in Replies
        BY <2>1, <4>1
      <4> QED BY <4>1, <4>2
    <3> QED BY <3>1, <3>2, <3>3
  <2>4. ASSUME NEW i \in DOMAIN parsed
        PROVE  parsed[i].status \in 0..255
    <3>1. sent[i] \in Seq(Byte) /\ sent[i] # <<>> /\ parsed[i].status = sent[i][1]
      BY ParsedFacts
    <3>2. sent[i][1] \in Byte
      BY <3>1
    <3> QED BY <3>1, <3>2 DEF Byte
  <2> QED BY <2>1, <2>2, <2>3, <2>4, <2>6, <2>7 DEF TypeOK
<1> QED BY <1>1, FramingInvariant, PTL

\* A reply is parsed once, in order, with the meaning the device gave it, and as
\* soon as it is complete, up to the first one from which _parse_binary raises: by
\* try_consume and the loop around it, in both clients, for any replies that are
\* responses, any decoder that reads them from the left, and any cuts but those
\* that try_consume takes for an end.
THEOREM RepliesParsedOnceInOrder ==
    ASSUME \A r \in Replies : IsResponse(r), ReadsFromTheLeft(Seq(0..255))
    PROVE  Spec => []EachReplyOnceInOrder
<1>1. FramingInv => EachReplyOnceInOrder
  <2> SUFFICES ASSUME FramingInv PROVE EachReplyOnceInOrder
    OBVIOUS
  <2> DEFINE n == Len(sent)
             d == Len(parsed)
             k == Received
  <2>1. /\ sent \in Seq(Seq(Byte)) /\ n \in Nat /\ d \in Nat /\ d <= n
        /\ k \in Nat /\ Start(d + 1) <= k
        /\ \A i \in 1..(n + 1) : Start(i) = StartIn(sent, i) /\ Start(i) \in Nat
    BY InvFacts
  <2>2. (d = n \/ k < Start(d + 2) \/ Stuck(sent, k, d)) /\ \A i \in 1..d : ~Spoils(sent[i])
    BY DEF FramingInv
  <2> HIDE DEF k, d
  <2>3. {i \in WhollyReceived : Clean(i)} = 1..d
    <3>1. ASSUME NEW i \in 1..n
          PROVE  (Start(i) + Len(sent[i]) <= k /\ Clean(i)) <=> i <= d
      <4>1. i \in 1..(n + 1) /\ i + 1 \in 1..(n + 1)
        BY <2>1
      <4>2. Start(i) + Len(sent[i]) = Start(i + 1)
        <5>1. StartIn(sent, i + 1) = StartIn(sent, i) + Len(sent[i])
          BY <2>1, StreamFacts
        <5> QED BY <2>1, <4>1, <5>1
      <4>3. CASE i <= d
        <5>1. d + 1 \in (i + 1)..(n + 1) /\ d + 1 \in 1..(n + 1)
          BY <2>1, <4>3
        <5>2. StartIn(sent, i + 1) <= StartIn(sent, d + 1)
          BY <2>1, <4>1, <5>1, StreamFacts
        <5>3. Start(i + 1) <= Start(d + 1) /\ Start(i + 1) \in Nat /\ Start(d + 1) \in Nat
          BY <2>1, <4>1, <5>1, <5>2
        <5>4. Start(i) + Len(sent[i]) <= k
          BY <2>1, <4>2, <5>3
        <5>5. Clean(i)
          <6>1. \A j \in 1..i : j \in 1..d
            BY <2>1, <4>3
          <6> QED BY <2>2, <6>1 DEF Clean
        <5> QED BY <4>3, <5>4, <5>5
      <4>4. CASE i > d
        <5>1. d # n /\ d + 2 \in 1..(n + 1) /\ i + 1 \in (d + 2)..(n + 1)
          BY <2>1, <4>4
        <5>2. StartIn(sent, d + 2) <= StartIn(sent, i + 1)
          BY <2>1, <5>1, StreamFacts
        <5>3. Start(d + 2) <= Start(i + 1) /\ Start(i + 1) \in Nat /\ Start(d + 2) \in Nat
          BY <2>1, <4>1, <5>1, <5>2
        <5>4. CASE k < Start(d + 2)
          <6>1. ~(Start(i + 1) <= k)
            BY <2>1, <5>1, <5>3, <5>4
          <6> QED BY <2>1, <4>2, <4>4, <6>1
        <5>5. CASE Stuck(sent, k, d)
          <6>1. Spoils(sent[d + 1]) /\ d + 1 \in 1..i
            BY <2>1, <4>4, <5>5 DEF Stuck
          <6>2. ~Clean(i)
            BY <6>1 DEF Clean
          <6> QED BY <2>1, <4>4, <6>2
        <5> QED BY <2>2, <5>1, <5>4, <5>5
      <4> QED BY <2>1, <4>3, <4>4
    <3>2. DOMAIN sent = 1..n
      BY <2>1
    <3>3. {i \in WhollyReceived : Clean(i)} = {i \in 1..n : i <= d}
      BY <3>1, <3>2 DEF WhollyReceived, k
    <3> QED BY <2>1, <3>3
  <2>4. Cardinality({i \in WhollyReceived : Clean(i)}) = d
    <3>1. Cardinality(1..d) = IF 1 > d THEN 0 ELSE d - 1 + 1
      BY <2>1, FS_Interval
    <3>2. Cardinality(1..d) = d
      BY <2>1, <3>1
    <3> QED BY <2>3, <3>2
  <2>5. ASSUME NEW i \in DOMAIN parsed
        PROVE  /\ parsed[i].status = sent[i][1]
               /\ ~NullInData(sent[i]) => parsed[i] = Meaning(sent[i])
    BY ParsedFacts
  <2> QED BY <2>4, <2>5 DEF EachReplyOnceInOrder, d
<1> QED BY <1>1, FramingInvariant, PTL

\* The buffer holds the beginning of the reply that is arriving, and nothing of
\* an earlier one: the loop drops all that a response took.  Only a reply from
\* which _parse_binary raises stays, in the receive thread's buffer.
THEOREM BufferIsNextReply ==
    ASSUME \A r \in Replies : IsResponse(r), ReadsFromTheLeft(Seq(0..255))
    PROVE  Spec => []BufferHoldsNextReply
<1>1. FramingInv => BufferHoldsNextReply
  <2> DEFINE r == sent[Len(parsed) + 1]
  <2> SUFFICES ASSUME FramingInv, buffer # <<>>
               PROVE  /\ Len(parsed) < Len(sent)
                      /\ \/ IsStrictPrefix(buffer, r)
                         \/ client = "sync" /\ Spoils(r) /\ IsPrefix(r, buffer)
    BY DEF BufferHoldsNextReply
  <2>1. Len(parsed) # Len(sent) /\ Len(parsed) + 1 \in 1..Len(sent) /\ buffer \in Seq(Byte)
    BY ArrivingFacts
  <2>2. Len(parsed) < Len(sent)
    <3>1. Len(parsed) \in Nat /\ Len(sent) \in Nat
      BY InvFacts
    <3> QED BY <2>1, <3>1
  <2>3. r \in Seq(Byte)
    BY <2>1, InvFacts
  <2>4. CASE Stuck(sent, Received, Len(parsed))
    <3>1. client = "sync" /\ Spoils(r) /\ IsPrefix(r, buffer)
      BY <2>1, <2>4, ArrivingFacts
    <3> QED BY <2>2, <3>1
  <2>5. CASE ~Stuck(sent, Received, Len(parsed))
    <3>1. Len(buffer) < Len(r) /\ buffer = SubSeq(r, 1, Len(buffer))
      BY <2>1, <2>5, ArrivingFacts
    <3> HIDE DEF r
    <3>2. Len(buffer) \in Nat /\ Len(r) \in Nat
      BY <2>1, <2>3
    <3>3. SubSeq(buffer, 1, Len(buffer)) = buffer
      BY <2>1
    <3>4. IsPrefix(buffer, r) /\ buffer # r
      BY <3>1, <3>2, <3>3 DEF IsPrefix
    <3> QED BY <2>2, <3>4 DEF IsStrictPrefix
  <2> QED BY <2>4, <2>5
<1> QED BY <1>1, FramingInvariant, PTL
=============================================================================
