------------------------- MODULE SchemaWalk_proofs --------------------------
(***************************************************************************)
(* Proofs about SchemaWalk, for any device, kind of link and bounds: its   *)
(* types; that one late response gives no node the name, type and access   *)
(* of another, and on the TCP link puts none where it does not belong; and *)
(* that a walk with no late response ends with the tree of the device.     *)
(*                                                                         *)
(* The first inductive invariant, IInv, goes by the responses that are     *)
(* under way: Trail lines up what they answer, from the head of the queue  *)
(* over the wire to the requests the device has not answered.  TrailOK     *)
(* says that one late response leaves at most one too many in it, which    *)
(* answers the request before: so the client that waits for metadata takes *)
(* them, or ids, which are no metadata (AnswerOK), and what it has matches *)
(* the ids it has (LabelsOK).  RequestOK, FramesOK and PiecesOK say what   *)
(* the walk asks, what its frames hold, and when odd lines may be about.   *)
(*                                                                         *)
(* The second, WInv, goes by the calls under way.  Each frame is for the   *)
(* member that the frame before it is at (StackTrue); the objects whose    *)
(* requests got no answer are behind the walk, or the one it is at         *)
(* (SpoiltTrue); so the tree that there is, frame by frame, is the part of *)
(* the reference that lies before the walk (MadeTrue), and a frame that is *)
(* through its members completes it.  ComingTrue says that a request is    *)
(* answered, or its object is spoilt; LagTrue and PlacedTrue, that a TCP   *)
(* client that is one response behind makes no nodes but of the metadata   *)
(* that it had before.  The reference is a recursive function: BelowFixed  *)
(* shows that there is one, as no group is below itself.  It descends as   *)
(* the client does; FoundIsThere shows that this is the device's tree, but *)
(* for the records that the client leaves out.                             *)
(***************************************************************************)
EXTENDS SchemaWalk, SequenceTheorems, WellFoundedInduction, TLAPS

(***************************************************************************)
(* The inductive invariant                                                 *)
(***************************************************************************)
Asking == {"call", "wait", "join", "handle"}

Places == Asking \cup {"new", "walk", "done", "raised", "closing", "closed"}

\* What the clients ask: the ids of one group at a time.
Questions == {q \in Requests : q.what = "ids" => Len(q.names) = 1}

\* What the queue holds, and what the wire does.
Parsed == [to : Questions, form : {"content", "wrong", "error"}]
              \cup [to : {None}, form : {"wrong", "error"}]

OnWire == [to : Questions, form : {"content", "error", "piece"}]
              \cup [to : {None}, form : {"noise", "garbled", "log"}]

FrameType == [group : Elements, under : Seq(Objects), ids : Seq(Elements),
              md : Seq(Elements), i : Nat \ {0}, walked : BOOLEAN]

NodeType == [id : Objects, md : Objects \cup {None}, under : Seq(Objects)]

Simple ==
    /\ kind \in Kinds /\ pc \in Places
    /\ request \in Questions /\ asked \in Seq(Questions)
    /\ wire \in Seq(OnWire) /\ queue \in Seq(Parsed) /\ answer \in Parsed \cup {None}
    /\ thread \in {"receive", "ended"}
    /\ running \in BOOLEAN /\ broken \in BOOLEAN /\ odd \in BOOLEAN
    /\ faults \in 0..MaxFaults /\ late \in 0..MaxLate
    /\ spoilt \subseteq Objects
    /\ tree \in Seq(NodeType) /\ stack \in Seq(FrameType)

\* What a client asks for, and which frame it asks for.
RequestOK ==
    /\ kind = "serial" => request.what = "get" /\ stack = <<>>
    /\ kind # "serial" => request.what \in {"ids", "metadata"}
    /\ kind = "text" => request.what = "ids"
    /\ pc = "new" => request.what # "metadata"
    /\ request.what = "get" => \E i \in DOMAIN Gets : request = GetOf(Gets[i])
    /\ kind # "serial" /\ pc \in Asking \cup {"new"} =>
          /\ stack # <<>>
          /\ request.what = "ids" => Top.md = <<>>
          /\ request.what = "metadata" => request.names = Top.ids

\* A frame that is gone through has metadata, or has them before it is.
FramesOK ==
    kind # "text" =>
        \A j \in DOMAIN stack :
            j < Len(stack) \/ pc = "walk" => Len(stack[j].ids) <= Len(stack[j].md)

\* Half a line, or what a line that is no response was taken for, is there only
\* after such a line.
PiecesOK ==
    /\ odd => Serial
    /\ ~odd => /\ \A i \in DOMAIN wire : wire[i].form \notin {"piece", "log"}
               /\ \A i \in DOMAIN queue : queue[i].form # "wrong" /\ queue[i].to # None
               /\ answer # None => answer.form # "wrong" /\ answer.to # None

\* What the responses under way answer, or will: the next one to be taken first.
To(s) == [i \in DOMAIN s |-> s[i].to]

Line(q, w, a) == To(q) \o To(w) \o a

Trail == Line(queue, wire, asked)

Answered(P) == {i \in DOMAIN P : P[i] # None}

AtMostNone(P) == Answered(P) = {}
AtMostOne(P)  == \A i, j \in Answered(P) : i = j
AtMostTwo(P)  == \A i, j, k \in Answered(P) : ~(i < j /\ j < k)

\* One response that was late puts the walk behind by one at most.
Mild == late <= 1 /\ ~odd

\* The responses under way while the client waits for the one to q.
Behind(P, q, l) ==
    /\ AtMostTwo(P) /\ (l = 0 => AtMostOne(P))
    /\ l = 0 => \A i \in Answered(P) : P[i] = q
    /\ \A i, j \in Answered(P) : i < j => P[j] = q
    /\ q.what = "metadata" => \A i \in Answered(P) : P[i] = q \/ P[i].what = "ids"

\* Those under way while it does not wait.
Rest(P, l) == AtMostOne(P) /\ (l = 0 => AtMostNone(P))

TrailOK ==
    Mild =>
        /\ pc = "wait" => Behind(Trail, request, late)
        /\ pc # "wait" => Rest(Trail, late)
        /\ pc \in {"join", "handle"} => \A i \in Answered(Trail) : Trail[i] = request
        /\ pc = "call" /\ request.what = "metadata" =>
              \A i \in Answered(Trail) : Trail[i].what = "ids"

AnswerOK ==
    Mild /\ pc \in {"join", "handle"} /\ answer # None =>
        \/ answer.to = request
        \/ late = 1 /\ (request.what = "metadata" => answer.to.what = "ids")

\* Metadata that are at hand are those of the ids beside them.
LabelsOK ==
    Mild =>
        /\ \A j \in DOMAIN stack : \A i \in DOMAIN stack[j].md :
              i \in DOMAIN stack[j].ids /\ stack[j].md[i].is = "metadata"
                  => stack[j].md[i].of = stack[j].ids[i].of
        /\ (kind = "serial" => late = 0) => \A i \in DOMAIN tree : tree[i].md = tree[i].id

IInv == Simple /\ RequestOK /\ FramesOK /\ PiecesOK /\ TrailOK /\ AnswerOK /\ LabelsOK

(***************************************************************************)
(* The responses under way                                                 *)
(***************************************************************************)
\* What is on its way answers questions, or nothing.
Sent == [to : Questions \cup {None},
         form : {"content", "wrong", "error", "piece", "noise", "garbled", "log"}]

Asked == Questions \cup {None}

\* The elements of a concatenation.
LEMMA ConcatElements ==
    ASSUME NEW R, NEW g \in Seq(R), NEW h \in Seq(R)
    PROVE  /\ g \o h \in Seq(R) /\ Len(g \o h) = Len(g) + Len(h)
           /\ \A i \in 1..Len(g) : (g \o h)[i] = g[i]
           /\ \A i \in 1..Len(h) : (g \o h)[Len(g) + i] = h[i]
OBVIOUS

\* None is no request.
LEMMA NoneIsNoQuestion == None \notin Questions
BY SchemaWalkAssumption DEF Questions

\* The first element of a queue, and the others.
LEMMA HeadAndTail ==
    ASSUME NEW S, NEW s \in Seq(S), s # <<>>
    PROVE  /\ Len(s) \in Nat /\ Len(s) >= 1 /\ s[1] = Head(s) /\ Head(s) \in S
           /\ Tail(s) \in Seq(S) /\ Len(Tail(s)) = Len(s) - 1
           /\ \A i \in 1..(Len(s) - 1) : Tail(s)[i] = s[i + 1]
OBVIOUS

\* The last element of a queue, and the others.
LEMMA LastAndFront ==
    ASSUME NEW S, NEW s \in Seq(S), NEW x \in S
    PROVE  /\ Len(s) \in Nat /\ Append(s, x) \in Seq(S) /\ Len(Append(s, x)) = Len(s) + 1
           /\ \A i \in 1..Len(s) : Append(s, x)[i] = s[i]
           /\ Append(s, x)[Len(s) + 1] = x
OBVIOUS

\* An element that goes from the head of one sequence to the end of the one before.
LEMMA HandedOn ==
    ASSUME NEW S, NEW x \in Seq(S), NEW y \in Seq(S), y # <<>>
    PROVE  Append(x, Head(y)) \o Tail(y) = x \o y
<1> DEFINE e == Head(y)
           t == Tail(y)
           g == Append(x, e)
           X == g \o t
           P == x \o y
<1>1. /\ Len(y) \in Nat /\ Len(y) >= 1 /\ y[1] = e /\ e \in S
      /\ t \in Seq(S) /\ Len(t) = Len(y) - 1
      /\ \A i \in 1..(Len(y) - 1) : t[i] = y[i + 1]
  BY HeadAndTail
<1> HIDE DEF e, t
<1>2. /\ Len(x) \in Nat /\ g \in Seq(S) /\ Len(g) = Len(x) + 1
      /\ \A i \in 1..Len(x) : g[i] = x[i]
      /\ g[Len(x) + 1] = e
  BY <1>1, LastAndFront
<1> HIDE DEF g
<1>3. /\ X \in Seq(S) /\ Len(X) = Len(g) + Len(t)
      /\ \A i \in 1..Len(g) : X[i] = g[i]
      /\ \A i \in 1..Len(t) : X[Len(g) + i] = t[i]
  <2>1. g \in Seq(S) /\ t \in Seq(S)
    BY <1>1, <1>2
  <2> QED BY <2>1, ConcatElements
<1>4. /\ P \in Seq(S) /\ Len(P) = Len(x) + Len(y)
      /\ \A i \in 1..Len(x) : P[i] = x[i]
      /\ \A i \in 1..Len(y) : P[Len(x) + i] = y[i]
  BY ConcatElements
<1> HIDE DEF X, P
<1>5. ASSUME NEW i \in 1..Len(X)
      PROVE  X[i] = P[i]
  <2>1. CASE i <= Len(x)
    <3>1. i \in 1..Len(x) /\ i \in 1..Len(g)
      BY <1>2, <2>1
    <3> QED BY <1>2, <1>3, <1>4, <3>1
  <2>2. CASE i = Len(x) + 1
    <3>1. i \in 1..Len(g) /\ 1 \in 1..Len(y)
      BY <1>1, <1>2, <2>2
    <3>2. X[i] = g[i] /\ P[Len(x) + 1] = y[1]
      BY <1>3, <1>4, <3>1
    <3> QED BY <1>1, <1>2, <2>2, <3>2
  <2>3. CASE i > Len(x) + 1
    <3> DEFINE k == i - Len(x) - 1
    <3>1. k \in 1..Len(t) /\ k \in 1..(Len(y) - 1) /\ k + 1 \in 1..Len(y)
      BY <1>1, <1>2, <1>3, <2>3
    <3>2. i = Len(g) + k /\ i = Len(x) + (k + 1)
      BY <1>1, <1>2, <2>3
    <3> HIDE DEF k
    <3>3. X[i] = t[k] /\ P[i] = y[k + 1] /\ t[k] = y[k + 1]
      BY <1>1, <1>3, <1>4, <3>1, <3>2
    <3> QED BY <3>3
  <2> QED BY <1>1, <1>2, <1>3, <2>1, <2>2, <2>3
<1>6. Len(X) = Len(P)
  BY <1>1, <1>2, <1>3, <1>4
<1> QED BY <1>3, <1>4, <1>5, <1>6, SeqEqual DEF X, P, g, e, t

\* What a queue of responses answers.
LEMMA ToFacts ==
    ASSUME NEW s \in Seq(Sent)
    PROVE  /\ To(s) \in Seq(Asked) /\ Len(To(s)) = Len(s)
           /\ \A i \in 1..Len(s) : To(s)[i] = s[i].to
           /\ s # <<>> => To(s) # <<>> /\ Head(To(s)) = Head(s).to /\ To(Tail(s)) = Tail(To(s))
           /\ To(<<>>) = <<>>
           /\ \A r \in Sent : To(Append(s, r)) = Append(To(s), r.to)
<1>1. ASSUME NEW u \in Seq(Sent)
      PROVE  /\ To(u) \in Seq(Asked) /\ Len(To(u)) = Len(u)
             /\ \A i \in 1..Len(u) : To(u)[i] = u[i].to
  <2>1. \A i \in 1..Len(u) : u[i] \in Sent
    OBVIOUS
  <2>2. \A i \in 1..Len(u) : u[i].to \in Asked
    BY <2>1 DEF Sent, Asked
  <2> QED BY <2>2 DEF To
<1>2. ASSUME s # <<>>
      PROVE  To(s) # <<>> /\ Head(To(s)) = Head(s).to /\ To(Tail(s)) = Tail(To(s))
  <2> DEFINE x == To(s)
             t == Tail(s)
             y == To(t)
  <2>1. /\ Len(s) \in Nat /\ Len(s) >= 1 /\ s[1] = Head(s)
        /\ t \in Seq(Sent) /\ Len(t) = Len(s) - 1
        /\ \A i \in 1..(Len(s) - 1) : t[i] = s[i + 1]
    BY <1>2, HeadAndTail
  <2>2. x \in Seq(Asked) /\ Len(x) = Len(s) /\ \A i \in 1..Len(s) : x[i] = s[i].to
    BY <1>1
  <2>3. y \in Seq(Asked) /\ Len(y) = Len(t) /\ \A i \in 1..Len(t) : y[i] = t[i].to
    BY <1>1, <2>1, Zenon
  <2> HIDE DEF x, y, t
  <2>4. x # <<>>
    BY <2>1, <2>2
  <2>5. /\ x[1] = Head(x)
        /\ Tail(x) \in Seq(Asked) /\ Len(Tail(x)) = Len(x) - 1
        /\ \A i \in 1..(Len(x) - 1) : Tail(x)[i] = x[i + 1]
    BY <2>2, <2>4, HeadAndTail
  <2>6. Head(x) = Head(s).to
    BY <2>1, <2>2, <2>5
  <2>7. \A i \in 1..Len(y) : y[i] = Tail(x)[i]
    <3> TAKE i \in 1..Len(y)
    <3>1. i \in 1..(Len(s) - 1) /\ i \in 1..Len(t) /\ i + 1 \in 1..Len(s) /\ i \in 1..(Len(x) - 1)
      BY <2>1, <2>2, <2>3
    <3>2. y[i] = t[i].to /\ t[i] = s[i + 1]
      BY <2>1, <2>3, <3>1
    <3>3. Tail(x)[i] = x[i + 1] /\ x[i + 1] = s[i + 1].to
      BY <2>2, <2>5, <3>1
    <3> QED BY <3>2, <3>3
  <2>8. y = Tail(x)
    BY <2>1, <2>2, <2>3, <2>5, <2>7, SeqEqual
  <2> QED BY <2>4, <2>6, <2>8 DEF x, y, t
<1>3. To(<<>>) = <<>>
  <2>1. <<>> \in Seq(Sent) /\ Len(<<>>) = 0
    OBVIOUS
  <2>2. To(<<>>) \in Seq(Asked) /\ Len(To(<<>>)) = 0
    BY <1>1, <2>1
  <2> QED BY <2>2
<1>4. ASSUME NEW r \in Sent
      PROVE  To(Append(s, r)) = Append(To(s), r.to)
  <2> DEFINE x == To(s)
             t == Append(s, r)
             y == To(t)
             z == Append(x, r.to)
  <2>1. /\ Len(s) \in Nat /\ t \in Seq(Sent) /\ Len(t) = Len(s) + 1
        /\ \A i \in 1..Len(s) : t[i] = s[i]
        /\ t[Len(s) + 1] = r
    BY LastAndFront
  <2>2. x \in Seq(Asked) /\ Len(x) = Len(s) /\ \A i \in 1..Len(s) : x[i] = s[i].to
    BY <1>1
  <2>3. y \in Seq(Asked) /\ Len(y) = Len(t) /\ \A i \in 1..Len(t) : y[i] = t[i].to
    BY <1>1, <2>1
  <2>4. r.to \in Asked
    BY DEF Sent, Asked
  <2> HIDE DEF x, y, t
  <2>5. /\ z \in Seq(Asked) /\ Len(z) = Len(x) + 1
        /\ \A i \in 1..Len(x) : z[i] = x[i]
        /\ z[Len(x) + 1] = r.to
    BY <2>2, <2>4, LastAndFront
  <2> HIDE DEF z
  <2>6. \A i \in 1..Len(y) : y[i] = z[i]
    <3> TAKE i \in 1..Len(y)
    <3>1. i \in 1..Len(t) /\ (i \in 1..Len(s) \/ i = Len(s) + 1)
      BY <2>1, <2>3
    <3> QED BY <2>1, <2>2, <2>3, <2>5, <3>1
  <2>7. y = z
    BY <2>1, <2>2, <2>3, <2>5, <2>6, SeqEqual
  <2> QED BY <2>7 DEF x, y, z, t
<1> QED BY <1>1, <1>2, <1>3, <1>4

\* X is P without some of its elements, or with some that answer nothing.
Within(X, P) ==
    \E h \in [Answered(X) -> Answered(P)] :
        /\ \A i, j \in Answered(X) : i < j => h[i] < h[j]
        /\ \A i \in Answered(X) : X[i] = P[h[i]]

\* An element less.
LEMMA WithoutOne ==
    ASSUME NEW S, NEW P \in Seq(S), NEW X \in Seq(S), NEW k \in 1..Len(P),
           Len(X) = Len(P) - 1,
           \A i \in 1..(k - 1) : X[i] = P[i],
           \A i \in k..Len(X) : X[i] = P[i + 1]
    PROVE  Within(X, P)
<1> DEFINE h == [i \in Answered(X) |-> IF i < k THEN i ELSE i + 1]
<1>1. DOMAIN P = 1..Len(P) /\ DOMAIN X = 1..Len(X) /\ Len(P) \in Nat
  OBVIOUS
<1>2. ASSUME NEW i \in Answered(X)
      PROVE  i \in Nat /\ h[i] \in Answered(P) /\ X[i] = P[h[i]]
  <2>1. i \in 1..Len(X) /\ X[i] # None
    BY <1>1 DEF Answered
  <2>2. CASE i < k
    BY <1>1, <2>1, <2>2 DEF Answered
  <2>3. CASE ~(i < k)
    BY <1>1, <2>1, <2>3 DEF Answered
  <2> QED BY <2>1, <2>2, <2>3
<1>3. h \in [Answered(X) -> Answered(P)]
  BY <1>2
<1>4. \A i, j \in Answered(X) : i < j => h[i] < h[j]
  BY <1>2
<1> HIDE DEF h
<1> QED BY <1>2, <1>3, <1>4 DEF Within

\* One more that answers nothing.
LEMMA WithNoise ==
    ASSUME NEW S, NEW P \in Seq(S), NEW X \in Seq(S), NEW k \in 1..Len(X),
           Len(X) = Len(P) + 1, X[k] = None,
           \A i \in 1..(k - 1) : X[i] = P[i],
           \A i \in k..Len(P) : X[i + 1] = P[i]
    PROVE  Within(X, P)
<1> DEFINE h == [i \in Answered(X) |-> IF i < k THEN i ELSE i - 1]
<1>1. DOMAIN P = 1..Len(P) /\ DOMAIN X = 1..Len(X) /\ Len(P) \in Nat
  OBVIOUS
<1>2. ASSUME NEW i \in Answered(X)
      PROVE  i \in Nat /\ i # k /\ h[i] \in Answered(P) /\ X[i] = P[h[i]]
  <2>1. i \in 1..Len(X) /\ X[i] # None /\ i # k
    BY <1>1 DEF Answered
  <2>2. CASE i < k
    BY <1>1, <2>1, <2>2 DEF Answered
  <2>3. CASE i > k
    <3>1. i - 1 \in k..Len(P) /\ i - 1 \in 1..Len(P) /\ (i - 1) + 1 = i
      BY <1>1, <2>1, <2>3
    <3>2. X[i] = P[i - 1]
      BY <3>1
    <3> QED BY <1>1, <2>1, <2>3, <3>1, <3>2 DEF Answered
  <2> QED BY <2>1, <2>2, <2>3
<1>3. h \in [Answered(X) -> Answered(P)]
  BY <1>2
<1>4. \A i, j \in Answered(X) : i < j => h[i] < h[j]
  BY <1>2
<1> HIDE DEF h
<1> QED BY <1>2, <1>3, <1>4 DEF Within

\* The first ones.
LEMMA WithinPrefix ==
    ASSUME NEW S, NEW P \in Seq(S), NEW X \in Seq(S), Len(X) <= Len(P),
           \A i \in 1..Len(X) : X[i] = P[i]
    PROVE  Within(X, P)
<1> DEFINE h == [i \in Answered(X) |-> i]
<1>1. \A i \in Answered(X) : i \in Nat /\ i \in Answered(P) /\ X[i] = P[i]
  BY DEF Answered
<1>2. h \in [Answered(X) -> Answered(P)]
  BY <1>1
<1>3. \A i, j \in Answered(X) : i < j => h[i] < h[j]
  OBVIOUS
<1>4. \A i \in Answered(X) : X[i] = P[h[i]]
  BY <1>1
<1> HIDE DEF h
<1> QED BY <1>2, <1>3, <1>4 DEF Within

\* An element less, in the middle.
LEMMA WithoutHead ==
    ASSUME NEW S, NEW z \in Seq(S), NEW y \in Seq(S), NEW c \in Seq(S), y # <<>>
    PROVE  Within((z \o Tail(y)) \o c, (z \o y) \o c)
<1> DEFINE t == Tail(y)
           u == z \o t
           v == z \o y
           X == u \o c
           P == v \o c
           k == Len(z) + 1
<1>1. /\ Len(y) \in Nat /\ Len(y) >= 1 /\ Len(z) \in Nat /\ Len(c) \in Nat
      /\ t \in Seq(S) /\ Len(t) = Len(y) - 1
      /\ \A i \in 1..(Len(y) - 1) : t[i] = y[i + 1]
  BY HeadAndTail
<1> HIDE DEF t
<1>2. /\ u \in Seq(S) /\ Len(u) = Len(z) + Len(t)
      /\ \A i \in 1..Len(z) : u[i] = z[i]
      /\ \A i \in 1..Len(t) : u[Len(z) + i] = t[i]
  <2>1. t \in Seq(S)
    BY <1>1
  <2> QED BY <2>1, ConcatElements
<1>3. /\ v \in Seq(S) /\ Len(v) = Len(z) + Len(y)
      /\ \A i \in 1..Len(z) : v[i] = z[i]
      /\ \A i \in 1..Len(y) : v[Len(z) + i] = y[i]
  BY ConcatElements
<1> HIDE DEF u, v
<1>4. /\ X \in Seq(S) /\ Len(X) = Len(u) + Len(c)
      /\ \A i \in 1..Len(u) : X[i] = u[i]
      /\ \A i \in 1..Len(c) : X[Len(u) + i] = c[i]
  <2>1. u \in Seq(S)
    BY <1>2
  <2> QED BY <2>1, ConcatElements
<1>5. /\ P \in Seq(S) /\ Len(P) = Len(v) + Len(c)
      /\ \A i \in 1..Len(v) : P[i] = v[i]
      /\ \A i \in 1..Len(c) : P[Len(v) + i] = c[i]
  <2>1. v \in Seq(S)
    BY <1>3
  <2> QED BY <2>1, ConcatElements
<1> HIDE DEF X, P
<1>6. Len(u) = Len(v) - 1 /\ Len(X) = Len(P) - 1 /\ k \in 1..Len(P) /\ Len(u) \in Nat
  BY <1>1, <1>2, <1>3, <1>4, <1>5
<1>7. \A i \in 1..(k - 1) : X[i] = P[i]
  <2> TAKE i \in 1..(k - 1)
  <2>1. i \in 1..Len(z) /\ i \in 1..Len(u) /\ i \in 1..Len(v)
    BY <1>1, <1>2, <1>3
  <2> QED BY <1>2, <1>3, <1>4, <1>5, <2>1
<1>8. \A i \in k..Len(X) : X[i] = P[i + 1]
  <2> TAKE i \in k..Len(X)
  <2>1. CASE i <= Len(u)
    <3> DEFINE j == i - Len(z)
    <3>1. /\ j \in 1..Len(t) /\ j \in 1..(Len(y) - 1) /\ j + 1 \in 1..Len(y)
          /\ i = Len(z) + j /\ i + 1 = Len(z) + (j + 1)
          /\ i \in 1..Len(u) /\ i + 1 \in 1..Len(v)
      BY <1>1, <1>2, <1>3, <2>1
    <3> HIDE DEF j
    <3>2. X[i] = u[i] /\ u[i] = t[j]
      BY <1>2, <1>4, <3>1
    <3>3. P[i + 1] = v[i + 1] /\ v[i + 1] = y[j + 1]
      BY <1>3, <1>5, <3>1
    <3> QED BY <1>1, <3>1, <3>2, <3>3
  <2>2. CASE ~(i <= Len(u))
    <3> DEFINE j == i - Len(u)
    <3>1. j \in 1..Len(c) /\ i = Len(u) + j /\ i + 1 = Len(v) + j
      BY <1>1, <1>4, <1>6, <2>2
    <3> HIDE DEF j
    <3> QED BY <1>4, <1>5, <3>1
  <2> QED BY <2>1, <2>2
<1>9. Within(X, P)
  <2> HIDE DEF k
  <2> QED BY <1>4, <1>5, <1>6, <1>7, <1>8, WithoutOne
<1> QED BY <1>9 DEF X, P, u, v, t

\* One more that answers nothing, in the middle.
LEMMA WithNoiseBetween ==
    ASSUME NEW S, NEW z \in Seq(S), NEW c \in Seq(S), None \in S
    PROVE  Within(Append(z, None) \o c, z \o c)
<1> DEFINE u == Append(z, None)
           X == u \o c
           P == z \o c
           k == Len(z) + 1
<1>1. /\ Len(z) \in Nat /\ Len(c) \in Nat
      /\ u \in Seq(S) /\ Len(u) = Len(z) + 1
      /\ \A i \in 1..Len(z) : u[i] = z[i]
      /\ u[Len(z) + 1] = None
  BY LastAndFront
<1> HIDE DEF u
<1>2. /\ X \in Seq(S) /\ Len(X) = Len(u) + Len(c)
      /\ \A i \in 1..Len(u) : X[i] = u[i]
      /\ \A i \in 1..Len(c) : X[Len(u) + i] = c[i]
  <2>1. u \in Seq(S)
    BY <1>1
  <2> QED BY <2>1, ConcatElements
<1>3. /\ P \in Seq(S) /\ Len(P) = Len(z) + Len(c)
      /\ \A i \in 1..Len(z) : P[i] = z[i]
      /\ \A i \in 1..Len(c) : P[Len(z) + i] = c[i]
  BY ConcatElements
<1> HIDE DEF X, P
<1>4. Len(X) = Len(P) + 1 /\ k \in 1..Len(X) /\ k \in 1..Len(u)
  BY <1>1, <1>2, <1>3
<1>5. X[k] = None
  BY <1>1, <1>2, <1>4
<1>6. \A i \in 1..(k - 1) : X[i] = P[i]
  <2> TAKE i \in 1..(k - 1)
  <2>1. i \in 1..Len(z) /\ i \in 1..Len(u)
    BY <1>1
  <2> QED BY <1>1, <1>2, <1>3, <2>1
<1>7. \A i \in k..Len(P) : X[i + 1] = P[i]
  <2> TAKE i \in k..Len(P)
  <2> DEFINE j == i - Len(z)
  <2>1. j \in 1..Len(c) /\ i = Len(z) + j /\ i + 1 = Len(u) + j
    BY <1>1, <1>3
  <2> HIDE DEF j
  <2> QED BY <1>2, <1>3, <2>1
<1>8. Within(X, P)
  <2> HIDE DEF k
  <2> QED BY <1>2, <1>3, <1>4, <1>5, <1>6, <1>7, WithNoise
<1> QED BY <1>8 DEF X, P, u

\* The last ones.
LEMMA WithinSuffix ==
    ASSUME NEW S, NEW z \in Seq(S), NEW c \in Seq(S)
    PROVE  Within(c, z \o c)
<1> DEFINE P == z \o c
           h == [i \in Answered(c) |-> Len(z) + i]
<1>1. /\ P \in Seq(S) /\ Len(P) = Len(z) + Len(c)
      /\ \A i \in 1..Len(c) : P[Len(z) + i] = c[i]
  BY ConcatElements
<1> HIDE DEF P
<1>2. ASSUME NEW i \in Answered(c)
      PROVE  i \in Nat /\ Len(z) + i \in Answered(P) /\ c[i] = P[Len(z) + i]
  <2>1. i \in 1..Len(c) /\ c[i] # None /\ Len(z) \in Nat
    BY DEF Answered
  <2>2. Len(z) + i \in 1..Len(P)
    BY <1>1, <2>1
  <2> QED BY <1>1, <2>1, <2>2 DEF Answered
<1>3. h \in [Answered(c) -> Answered(P)]
  BY <1>2
<1>4. \A i, j \in Answered(c) : i < j => h[i] < h[j]
  BY <1>2
<1>5. \A i \in Answered(c) : c[i] = P[h[i]]
  BY <1>2
<1> HIDE DEF h
<1>6. Within(c, P)
  BY <1>3, <1>4, <1>5 DEF Within
<1> QED BY <1>6 DEF P

\* What is left out puts nobody behind.
LEMMA WithinKeeps ==
    ASSUME NEW S, NEW P \in Seq(S), NEW X \in Seq(S), Within(X, P), NEW q, NEW l
    PROVE  /\ Behind(P, q, l) => Behind(X, q, l)
           /\ Rest(P, l) => Rest(X, l)
           /\ \A i \in Answered(X) : \E j \in Answered(P) : X[i] = P[j]
<1>1. PICK h \in [Answered(X) -> Answered(P)] :
         /\ \A i, j \in Answered(X) : i < j => h[i] < h[j]
         /\ \A i \in Answered(X) : X[i] = P[h[i]]
  BY DEF Within
<1>2. \A i \in Answered(X) : h[i] \in Answered(P) /\ i \in Int /\ h[i] \in Int
  <2>1. DOMAIN X \subseteq Int /\ DOMAIN P \subseteq Int
    OBVIOUS
  <2> QED BY <1>1, <2>1 DEF Answered
<1>3. AtMostTwo(P) => AtMostTwo(X)
  BY <1>1, <1>2 DEF AtMostTwo
<1>4. AtMostNone(P) => AtMostNone(X)
  BY <1>2 DEF AtMostNone
<1>5. AtMostOne(P) => AtMostOne(X)
  <2> SUFFICES ASSUME AtMostOne(P), NEW i \in Answered(X), NEW j \in Answered(X)
               PROVE  i = j
    BY DEF AtMostOne
  <2>1. h[i] = h[j]
    BY <1>2 DEF AtMostOne
  <2>2. ~(i < j) /\ ~(j < i)
    BY <1>1, <1>2, <2>1
  <2> QED BY <1>2, <2>2
<1>6. \A i \in Answered(X) : X[i] = P[h[i]]
  BY <1>1
<1>7. (\A i, j \in Answered(P) : i < j => P[j] = q)
          => \A i, j \in Answered(X) : i < j => X[j] = q
  BY <1>1, <1>2
<1>8. /\ (\A i \in Answered(P) : P[i] = q) => \A i \in Answered(X) : X[i] = q
      /\ (\A i \in Answered(P) : P[i] = q \/ P[i].what = "ids") =>
             \A i \in Answered(X) : X[i] = q \/ X[i].what = "ids"
  BY <1>2, <1>6
<1>9. Behind(P, q, l) => Behind(X, q, l)
  BY <1>3, <1>5, <1>7, <1>8 DEF Behind
<1>10. Rest(P, l) => Rest(X, l)
  BY <1>4, <1>5 DEF Rest
<1> QED BY <1>2, <1>6, <1>9, <1>10

(***************************************************************************)
(* The link                                                                *)
(***************************************************************************)
\* A sequence over a set is one over every larger set.
LEMMA SeqGrows ==
    ASSUME NEW A, NEW B, A \subseteq B, NEW s \in Seq(A)
    PROVE  s \in Seq(B)
OBVIOUS

\* What is on its way, and what it answers.
LEMMA SentFacts ==
    /\ Parsed \subseteq Sent /\ OnWire \subseteq Sent /\ Questions \subseteq Asked
    /\ None \in Asked
BY DEF Parsed, OnWire, Sent, Asked

\* The responses under way, as one sequence.
LEMMA LineFacts ==
    ASSUME NEW q \in Seq(Parsed), NEW w \in Seq(OnWire), NEW a \in Seq(Questions)
    PROVE  /\ q \in Seq(Sent) /\ w \in Seq(Sent) /\ a \in Seq(Asked)
           /\ To(q) \in Seq(Asked) /\ To(w) \in Seq(Asked)
           /\ Line(q, w, a) \in Seq(Asked)
<1>1. q \in Seq(Sent) /\ w \in Seq(Sent) /\ a \in Seq(Asked)
  BY SentFacts, SeqGrows
<1>2. To(q) \in Seq(Asked) /\ To(w) \in Seq(Asked)
  BY <1>1, ToFacts
<1>3. To(q) \o To(w) \in Seq(Asked)
  BY <1>2, ConcatElements
<1>4. (To(q) \o To(w)) \o a \in Seq(Asked)
  BY <1>1, <1>3, ConcatElements
<1> QED BY <1>1, <1>2, <1>4 DEF Line

LEMMA TrailFacts ==
    ASSUME Simple
    PROVE  /\ queue \in Seq(Sent) /\ wire \in Seq(Sent) /\ asked \in Seq(Asked)
           /\ To(queue) \in Seq(Asked) /\ To(wire) \in Seq(Asked)
           /\ Trail \in Seq(Asked)
<1>1. queue \in Seq(Parsed) /\ wire \in Seq(OnWire) /\ asked \in Seq(Questions)
  BY DEF Simple
<1> QED BY <1>1, LineFacts DEF Trail

\* The same in the next state.
LEMMA TrailFactsNext ==
    ASSUME Simple'
    PROVE  Trail' \in Seq(Asked)
<1>1. queue' \in Seq(Parsed) /\ wire' \in Seq(OnWire) /\ asked' \in Seq(Questions)
  BY DEF Simple
<1> QED BY <1>1, LineFacts DEF Trail

\* What follows from the invariant when the walk stands still, and the responses
\* under way are those that were, or fewer.
LEMMA LinkKeepsTrail ==
    ASSUME TrailOK, Trail \in Seq(Asked), Trail' \in Seq(Asked), Within(Trail', Trail),
           UNCHANGED <<pc, request, late>>, odd => odd'
    PROVE  TrailOK'
<1> SUFFICES ASSUME Mild'
             PROVE  /\ pc = "wait" => Behind(Trail', request, late)
                    /\ pc # "wait" => Rest(Trail', late)
                    /\ pc \in {"join", "handle"} => \A i \in Answered(Trail') : Trail'[i] = request
                    /\ pc = "call" /\ request.what = "metadata" =>
                          \A i \in Answered(Trail') : Trail'[i].what = "ids"
  BY DEF TrailOK
<1>1. Mild
  BY DEF Mild
<1>2. /\ Behind(Trail, request, late) => Behind(Trail', request, late)
      /\ Rest(Trail, late) => Rest(Trail', late)
      /\ (\A i \in Answered(Trail) : Trail[i] = request)
             => \A i \in Answered(Trail') : Trail'[i] = request
      /\ (\A i \in Answered(Trail) : Trail[i].what = "ids")
             => \A i \in Answered(Trail') : Trail'[i].what = "ids"
  <2> DEFINE P == Trail
             X == Trail'
             q == request
             l == late
  <2>1. P \in Seq(Asked) /\ X \in Seq(Asked) /\ Within(X, P)
    OBVIOUS
  <2> HIDE DEF P, X, q, l
  <2>2. Behind(P, q, l) => Behind(X, q, l)
    BY <2>1, WithinKeeps
  <2>3. Rest(P, l) => Rest(X, l)
    BY <2>1, WithinKeeps
  <2>4. \A i \in Answered(X) : \E j \in Answered(P) : X[i] = P[j]
    BY <2>1 DEF Within
  <2> QED BY <2>2, <2>3, <2>4 DEF P, X, q, l
<1> QED BY <1>1, <1>2 DEF TrailOK

\* An answer takes the place of its request.
LEMMA AnswerInPlace ==
    ASSUME Simple, asked # <<>>, NEW r \in Sent, r.to = Head(asked)
    PROVE  Line(queue, Append(wire, r), Tail(asked)) = Trail
<1> DEFINE x == To(queue)
           y == To(wire)
           a == asked
<1>1. x \in Seq(Asked) /\ y \in Seq(Asked) /\ a \in Seq(Asked) /\ a # <<>>
  BY TrailFacts
<1>2. To(Append(wire, r)) = Append(y, Head(a))
  BY TrailFacts, ToFacts
<1>3. Line(queue, Append(wire, r), Tail(asked)) = (x \o Append(y, Head(a))) \o Tail(a)
  BY <1>2 DEF Line
<1>4. Trail = (x \o y) \o a
  BY DEF Trail, Line
<1> HIDE DEF x, y, a
<1>5. Head(a) \in Asked /\ Tail(a) \in Seq(Asked) /\ Append(y, Head(a)) \in Seq(Asked)
  BY <1>1
<1>6. (x \o Append(y, Head(a))) \o Tail(a) = x \o (Append(y, Head(a)) \o Tail(a))
  <2> DEFINE g == Append(y, Head(a))
             u == Tail(a)
  <2>1. g \in Seq(Asked) /\ u \in Seq(Asked) /\ x \in Seq(Asked)
    BY <1>1, <1>5
  <2> HIDE DEF g, u
  <2>2. (x \o g) \o u = x \o (g \o u)
    <3> HIDE DEF Asked
    <3> QED BY <2>1, ConcatAssociative
  <2> QED BY <2>2 DEF g, u
<1>7. Append(y, Head(a)) \o Tail(a) = y \o a
  BY <1>1, HandedOn
<1>8. x \o (y \o a) = (x \o y) \o a
  BY <1>1, ConcatAssociative
<1> QED BY <1>3, <1>4, <1>6, <1>7, <1>8

\* A response that is parsed keeps its place.
LEMMA ParsedInPlace ==
    ASSUME Simple, wire # <<>>, NEW r \in Sent, r.to = Head(wire).to
    PROVE  Line(Append(queue, r), Tail(wire), asked) = Trail
<1> DEFINE x == To(queue)
           y == To(wire)
<1>1. x \in Seq(Asked) /\ y \in Seq(Asked)
  BY TrailFacts
<1>2. To(Append(queue, r)) = Append(x, r.to)
  BY TrailFacts, ToFacts
<1>3. y # <<>> /\ Head(y) = r.to /\ To(Tail(wire)) = Tail(y)
  BY TrailFacts, ToFacts
<1>4. Line(Append(queue, r), Tail(wire), asked) = (Append(x, Head(y)) \o Tail(y)) \o asked
  BY <1>2, <1>3 DEF Line
<1>5. Trail = (x \o y) \o asked
  BY DEF Trail, Line
<1> HIDE DEF x, y
<1>6. Append(x, Head(y)) \o Tail(y) = x \o y
  BY <1>1, <1>3, HandedOn
<1> QED BY <1>4, <1>5, <1>6

\* What is lost on the wire, or before the device answers it, is one less.
LEMMA LostOnTheWay ==
    ASSUME Simple
    PROVE  /\ wire # <<>> => Within(Line(queue, Tail(wire), asked), Trail)
           /\ asked # <<>> => Within(Line(queue, wire, Tail(asked)), Trail)
           /\ Within(Line(queue, <<>>, <<>>), Trail)
           /\ Within(Line(<<>>, wire, asked), Trail)
<1> DEFINE x == To(queue)
           y == To(wire)
           a == asked
<1>1. /\ x \in Seq(Asked) /\ y \in Seq(Asked) /\ a \in Seq(Asked)
      /\ To(<<>>) = <<>>
      /\ wire # <<>> => y # <<>> /\ To(Tail(wire)) = Tail(y)
  BY TrailFacts, ToFacts
<1>2. Trail = (x \o y) \o a
  BY DEF Trail, Line
<1>3. /\ wire # <<>> => Line(queue, Tail(wire), asked) = (x \o Tail(y)) \o a
      /\ Line(queue, wire, Tail(asked)) = (x \o y) \o Tail(a)
      /\ Line(queue, <<>>, <<>>) = (x \o <<>>) \o <<>>
      /\ Line(<<>>, wire, asked) = (<<>> \o y) \o a
  BY <1>1 DEF Line
<1> HIDE DEF x, y, a
<1>4. x \o y \in Seq(Asked)
  BY <1>1, ConcatElements
<1>5. ASSUME wire # <<>>
      PROVE  Within((x \o Tail(y)) \o a, (x \o y) \o a)
  BY <1>1, <1>5, WithoutHead
<1>6. ASSUME a # <<>>
      PROVE  Within((x \o y) \o Tail(a), (x \o y) \o a)
  <2>1. Within(((x \o y) \o Tail(a)) \o <<>>, ((x \o y) \o a) \o <<>>)
    <3>1. <<>> \in Seq(Asked)
      OBVIOUS
    <3> QED BY <1>1, <1>4, <1>6, <3>1, WithoutHead
  <2>2. Tail(a) \in Seq(Asked)
    BY <1>1, <1>6
  <2>3. (x \o y) \o Tail(a) \in Seq(Asked) /\ (x \o y) \o a \in Seq(Asked)
    BY <1>1, <1>4, <2>2, ConcatElements
  <2> QED BY <2>1, <2>3, ConcatEmptySeq
<1>7. (x \o <<>>) \o <<>> = x /\ <<>> \o y = y
  BY <1>1, ConcatEmptySeq
<1>8. Within(x, (x \o y) \o a)
  <2>1. (x \o y) \o a = x \o (y \o a) /\ y \o a \in Seq(Asked)
    BY <1>1, ConcatAssociative, ConcatElements
  <2>2. /\ x \o (y \o a) \in Seq(Asked) /\ Len(x \o (y \o a)) = Len(x) + Len(y \o a)
        /\ \A i \in 1..Len(x) : (x \o (y \o a))[i] = x[i]
    BY <1>1, <2>1, ConcatElements
  <2>3. Len(x) <= Len(x \o (y \o a))
    BY <1>1, <2>1, <2>2
  <2> QED BY <1>1, <2>1, <2>2, <2>3, WithinPrefix
<1>9. Within(y \o a, (x \o y) \o a)
  <2>1. (x \o y) \o a = x \o (y \o a) /\ y \o a \in Seq(Asked)
    BY <1>1, ConcatAssociative, ConcatElements
  <2> QED BY <1>1, <2>1, WithinSuffix
<1> QED BY <1>2, <1>3, <1>5, <1>6, <1>7, <1>8, <1>9 DEF a

\* Noise answers nothing.
LEMMA NoiseOnTheWay ==
    ASSUME Simple, NEW r \in Sent, r.to = None
    PROVE  Within(Line(queue, Append(wire, r), asked), Trail)
<1> DEFINE x == To(queue)
           y == To(wire)
           a == asked
<1>1. /\ x \in Seq(Asked) /\ y \in Seq(Asked) /\ a \in Seq(Asked)
      /\ To(Append(wire, r)) = Append(y, None)
  BY TrailFacts, ToFacts
<1>2. /\ Trail = (x \o y) \o a
      /\ Line(queue, Append(wire, r), asked) = (x \o Append(y, None)) \o a
  BY <1>1 DEF Trail, Line
<1> HIDE DEF x, y, a
<1>3. x \o y \in Seq(Asked) /\ <<None>> \in Seq(Asked) /\ None \in Asked
  BY <1>1, SentFacts, ConcatElements
<1>4. Append(y, None) = y \o <<None>> /\ Append(x \o y, None) = (x \o y) \o <<None>>
  BY <1>1, <1>3, AppendIsConcat
<1>5. x \o (y \o <<None>>) = (x \o y) \o <<None>>
  BY <1>1, <1>3, ConcatAssociative
<1>6. Within(Append(x \o y, None) \o a, (x \o y) \o a)
  BY <1>1, <1>3, WithNoiseBetween
<1> QED BY <1>2, <1>4, <1>5, <1>6

(***************************************************************************)
(* The receive thread, the device and the network                          *)
(***************************************************************************)
\* A step of the link keeps what the invariant says of the walk.
LEMMA LinkKeepsWalk ==
    ASSUME IInv, UNCHANGED <<walk, late, kind>>, odd => odd'
    PROVE  RequestOK' /\ FramesOK' /\ AnswerOK' /\ LabelsOK'
<1>1. UNCHANGED <<pc, request, answer, stack, tree, late, kind>>
  BY DEF walk
<1>2. RequestOK' /\ FramesOK'
  BY <1>1 DEF IInv, RequestOK, FramesOK, Top
<1>3. AnswerOK' /\ LabelsOK'
  BY <1>1 DEF IInv, AnswerOK, LabelsOK, Mild
<1> QED BY <1>2, <1>3

\* What _parse_text makes of a line that is no noise.
LEMMA ParseTextFacts ==
    ASSUME NEW r \in OnWire, r.form \notin {"noise", "garbled"}, NEW p \in ParseText(r)
    PROVE  /\ p \in Parsed /\ p.to = r.to
           /\ r.form \notin {"piece", "log"} => p.form # "wrong" /\ p.to # None
<1>1. CASE r \in [to : Questions, form : {"content", "error", "piece"}]
  <2>1. CASE r.form = "piece"
    <3>1. PICK form \in {"content", "wrong", "error"} : p = [r EXCEPT !.form = form]
      BY <2>1 DEF ParseText
    <3> QED BY <1>1, <2>1, <3>1 DEF Parsed
  <2>2. CASE r.form # "piece"
    <3>1. p = r /\ r.to # None
      BY <1>1, <2>2, NoneIsNoQuestion DEF ParseText
    <3> QED BY <1>1, <2>2, <3>1 DEF Parsed
  <2> QED BY <2>1, <2>2
<1>2. CASE r \in [to : {None}, form : {"noise", "garbled", "log"}]
  <2>1. r.form = "log"
    BY <1>2
  <2>2. PICK form \in {"wrong", "error"} : p = [r EXCEPT !.form = form]
    BY <2>1 DEF ParseText
  <2> QED BY <1>2, <2>1, <2>2 DEF Parsed
<1> QED BY <1>1, <1>2 DEF OnWire

LEMMA ReceiveLoopKeeps ==
    ASSUME IInv, ReceiveLoop, UNCHANGED <<walk, late>>
    PROVE  IInv'
<1>1. /\ UNCHANGED <<pc, request, answer, stack, tree, late>>
      /\ UNCHANGED <<kind, asked, broken, running, faults, spoilt, odd>>
      /\ thread' \in {"receive", "ended"}
  BY DEF walk, ReceiveLoop
<1>2. /\ Simple /\ PiecesOK /\ TrailOK
      /\ wire \in Seq(OnWire) /\ queue \in Seq(Parsed)
  BY DEF IInv, Simple
<1>3. CASE wire = <<>>
  <2>1. wire' = wire /\ queue' = queue
    BY <1>3 DEF ReceiveLoop
  <2>2. Simple' /\ PiecesOK'
    BY <1>1, <1>2, <2>1 DEF Simple, PiecesOK, Serial
  <2>3. TrailOK'
    BY <1>1, <1>2, <2>1 DEF TrailOK, Trail, Line, To, Mild
  <2> QED BY <1>1, <2>2, <2>3, LinkKeepsWalk DEF IInv, walk
<1>4. CASE wire # <<>>
  <2> DEFINE r == Head(wire)
  <2>1. /\ r \in OnWire /\ wire' = Tail(wire) /\ queue' \in HandleMessage(r)
        /\ wire' \in Seq(OnWire) /\ r = wire[1] /\ 1 \in DOMAIN wire
    BY <1>2, <1>4 DEF ReceiveLoop
  <2>2. \A i \in DOMAIN wire' : i + 1 \in DOMAIN wire /\ wire'[i] = wire[i + 1]
    BY <1>2, <1>4, <2>1
  <2> HIDE DEF r
  <2>3. CASE r.form \in {"noise", "garbled"}
    <3>1. queue' = queue
      BY <2>1, <2>3 DEF HandleMessage
    <3>2. Simple'
      BY <1>1, <1>2, <2>1, <3>1 DEF Simple
    <3>3. PiecesOK'
      BY <1>1, <1>2, <2>2, <3>1 DEF PiecesOK, Serial
    <3>4. Within(Trail', Trail)
      BY <1>1, <1>2, <1>4, <2>1, <3>1, LostOnTheWay DEF Trail
    <3>5. Trail \in Seq(Asked) /\ Trail' \in Seq(Asked)
      BY <1>2, <3>2, TrailFacts, TrailFactsNext
    <3> QED BY <1>1, <1>2, <3>2, <3>3, <3>4, <3>5, LinkKeepsTrail, LinkKeepsWalk DEF IInv, walk
  <2>4. CASE r.form \notin {"noise", "garbled"}
    <3>1. PICK p \in ParseText(r) : queue' = Append(queue, p)
      BY <2>1, <2>4 DEF HandleMessage
    <3>2. /\ p \in Parsed /\ p.to = r.to
          /\ r.form \notin {"piece", "log"} => p.form # "wrong" /\ p.to # None
      BY <2>1, <2>4, ParseTextFacts
    <3>3. /\ queue' \in Seq(Parsed)
          /\ \A i \in DOMAIN queue' : (i \in DOMAIN queue /\ queue'[i] = queue[i]) \/ queue'[i] = p
      BY <1>2, <3>1, <3>2
    <3>4. Simple'
      BY <1>1, <1>2, <2>1, <3>3 DEF Simple
    <3>5. PiecesOK'
      BY <1>1, <1>2, <2>1, <2>2, <3>2, <3>3 DEF PiecesOK, Serial
    <3>6. Trail' = Trail
      <4>1. p \in Sent
        BY <3>2, SentFacts
      <4> QED BY <1>1, <1>2, <1>4, <2>1, <3>1, <3>2, <4>1, ParsedInPlace DEF Trail, r
    <3>7. TrailOK'
      BY <1>1, <1>2, <3>6 DEF TrailOK, Mild
    <3> QED BY <1>1, <3>4, <3>5, <3>7, LinkKeepsWalk DEF IInv, walk
  <2> QED BY <2>3, <2>4
<1> QED BY <1>3, <1>4

\* What a device, a network or the bus does to the link, if the types are kept and
\* fewer responses are under way.
LEMMA EnvironmentKeepsRest ==
    ASSUME IInv, UNCHANGED <<walk, late, kind>>, odd => odd', Simple', PiecesOK',
           Within(Trail', Trail) \/ Trail' = Trail \/ odd'
    PROVE  IInv'
<1>1. UNCHANGED <<pc, request, late>>
  BY DEF walk
<1>2. Trail \in Seq(Asked) /\ Trail' \in Seq(Asked) /\ TrailOK
  BY TrailFacts, TrailFactsNext DEF IInv
<1>3. TrailOK'
  <2>1. CASE Within(Trail', Trail)
    BY <1>1, <1>2, <2>1, LinkKeepsTrail
  <2>2. CASE Trail' = Trail
    BY <1>1, <1>2, <2>2 DEF TrailOK, Mild
  <2>3. CASE odd'
    BY <2>3 DEF TrailOK, Mild
  <2> QED BY <2>1, <2>2, <2>3
<1> QED BY <1>3, LinkKeepsWalk DEF IInv

\* A response of the device, or what is left of it.
LEMMA AboutIsObject ==
    ASSUME NEW q \in Questions
    PROVE  q.about \in Objects
BY DEF Questions, Requests

LEMMA AnswersKeeps ==
    ASSUME IInv, asked # <<>>, asked' = Tail(asked), UNCHANGED <<walk, late, kind, queue, odd>>,
           UNCHANGED <<broken, running, thread>>, faults' \in 0..MaxFaults,
           spoilt' \subseteq Objects,
           NEW form \in {"content", "error"},
           wire' = Append(wire, Response(Head(asked), form))
    PROVE  IInv'
<1> DEFINE r == Response(Head(asked), form)
<1>1. /\ Simple /\ PiecesOK /\ asked \in Seq(Questions) /\ wire \in Seq(OnWire)
  BY DEF IInv, Simple
<1>2. Head(asked) \in Questions /\ asked' \in Seq(Questions)
  BY <1>1
<1>3. r \in OnWire /\ r.to = Head(asked) /\ r.form \notin {"piece", "log"}
  BY <1>2 DEF Response, OnWire
<1> HIDE DEF r
<1>4. /\ wire' \in Seq(OnWire)
      /\ \A i \in DOMAIN wire' : (i \in DOMAIN wire /\ wire'[i] = wire[i]) \/ wire'[i] = r
  BY <1>1, <1>3 DEF r
<1>5. Simple'
  BY <1>1, <1>2, <1>4 DEF Simple, walk
<1>6. PiecesOK'
  BY <1>1, <1>3, <1>4 DEF PiecesOK, Serial, walk
<1>7. Trail' = Trail
  <2>1. r \in Sent
    BY <1>3, SentFacts
  <2> QED BY <1>1, <1>3, <2>1, AnswerInPlace DEF Trail, r
<1> QED BY <1>5, <1>6, <1>7, EnvironmentKeepsRest

\* A request or a response that is lost.
LEMMA LossKeeps ==
    ASSUME IInv, UNCHANGED <<walk, late, kind, queue, odd>>, UNCHANGED <<running, thread>>,
           broken' \in BOOLEAN, faults' \in 0..MaxFaults, spoilt' \subseteq Objects,
           \/ asked # <<>> /\ asked' = Tail(asked) /\ wire' = wire
           \/ wire # <<>> /\ wire' = Tail(wire) /\ asked' = asked
           \/ asked' = <<>> /\ wire' = <<>>
    PROVE  IInv'
<1>1. Simple /\ PiecesOK /\ asked \in Seq(Questions) /\ wire \in Seq(OnWire)
  BY DEF IInv, Simple
<1>2. asked' \in Seq(Questions) /\ wire' \in Seq(OnWire)
  <2>1. /\ asked # <<>> => Tail(asked) \in Seq(Questions)
        /\ wire # <<>> => Tail(wire) \in Seq(OnWire)
        /\ <<>> \in Seq(Questions) /\ <<>> \in Seq(OnWire)
    BY <1>1
  <2> QED BY <1>1, <2>1
<1>3. Simple'
  BY <1>1, <1>2 DEF Simple, walk
<1>4. \A i \in DOMAIN wire' : \E j \in DOMAIN wire : wire'[i] = wire[j]
  <2>1. CASE wire' = wire
    BY <2>1
  <2>2. CASE wire # <<>> /\ wire' = Tail(wire)
    <3>1. \A i \in DOMAIN wire' : i + 1 \in DOMAIN wire /\ wire'[i] = wire[i + 1]
      BY <1>1, <2>2
    <3> QED BY <3>1
  <2>3. CASE wire' = <<>>
    BY <2>3
  <2> QED BY <2>1, <2>2, <2>3
<1>5. PiecesOK'
  BY <1>1, <1>4 DEF PiecesOK, Serial, walk
<1>6. Within(Trail', Trail)
  BY <1>1, LostOnTheWay DEF Trail
<1> QED BY <1>3, <1>5, <1>6, EnvironmentKeepsRest

\* A line that is cut.
LEMMA CutsKeeps ==
    ASSUME IInv, Cuts, UNCHANGED <<walk, late>>
    PROVE  IInv'
<1> DEFINE piece == Response(Head(asked), "piece")
           two == [i \in 1..2 |-> piece]
<1>1. /\ Simple /\ PiecesOK /\ asked \in Seq(Questions) /\ wire \in Seq(OnWire)
      /\ faults \in 0..MaxFaults /\ MaxFaults \in Nat
  BY SchemaWalkAssumption DEF IInv, Simple
<1>2. /\ asked # <<>> /\ asked' = Tail(asked) /\ wire' = wire \o two /\ odd' = TRUE /\ Serial
      /\ faults < MaxFaults /\ faults' = faults + 1
      /\ UNCHANGED <<kind, broken, running, thread, queue, spoilt>>
  BY DEF Cuts, Fault
<1>3. piece \in OnWire /\ asked' \in Seq(Questions)
  BY <1>1, <1>2 DEF Response, OnWire
<1> HIDE DEF piece
<1>4. two \in Seq(OnWire)
  BY <1>3
<1> HIDE DEF two
<1>5. wire' \in Seq(OnWire) /\ faults' \in 0..MaxFaults
  BY <1>1, <1>2, <1>4
<1>6. Simple'
  BY <1>1, <1>2, <1>3, <1>5 DEF Simple, walk
<1>7. PiecesOK'
  BY <1>2 DEF PiecesOK, Serial
<1> QED BY <1>2, <1>6, <1>7, EnvironmentKeepsRest

\* A line that is no response.
LEMMA BabblesKeeps ==
    ASSUME IInv, Babbles, UNCHANGED <<walk, late>>
    PROVE  IInv'
<1>1. PICK form \in {"noise", "garbled", "log"} :
         wire' = Append(wire, Response(None, form)) /\ odd' = (odd \/ form = "log")
  BY DEF Babbles
<1> DEFINE r == Response(None, form)
<1>2. /\ Simple /\ PiecesOK /\ wire \in Seq(OnWire)
      /\ faults \in 0..MaxFaults /\ MaxFaults \in Nat
  BY SchemaWalkAssumption DEF IInv, Simple
<1>3. /\ faults < MaxFaults /\ faults' = faults + 1
      /\ UNCHANGED <<kind, asked, broken, running, thread, queue, spoilt>> /\ Serial
      /\ odd' \in BOOLEAN /\ (odd => odd')
  <2>1. odd \in BOOLEAN
    BY <1>2 DEF Simple
  <2> QED BY <1>1, <2>1 DEF Babbles, Fault
<1>4. r \in OnWire /\ r.to = None /\ (~odd' => r.form \notin {"piece", "log"})
  BY <1>1 DEF Response, OnWire
<1> HIDE DEF r
<1>5. /\ wire' \in Seq(OnWire) /\ faults' \in 0..MaxFaults
      /\ \A i \in DOMAIN wire' : (i \in DOMAIN wire /\ wire'[i] = wire[i]) \/ wire'[i] = r
  BY <1>1, <1>2, <1>3, <1>4 DEF r
<1>6. Simple'
  BY <1>2, <1>3, <1>5 DEF Simple, walk
<1>7. PiecesOK'
  BY <1>2, <1>3, <1>4, <1>5 DEF PiecesOK, Serial, walk
<1>8. Within(Trail', Trail)
  <2>1. r \in Sent
    BY <1>4, SentFacts
  <2> QED BY <1>1, <1>2, <1>3, <1>4, <2>1, NoiseOnTheWay DEF Trail, r
<1> QED BY <1>3, <1>6, <1>7, <1>8, EnvironmentKeepsRest

LEMMA EnvironmentKeeps ==
    ASSUME IInv, Environment, UNCHANGED <<walk, late>>
    PROVE  IInv'
<1>1. /\ Simple /\ spoilt \subseteq Objects /\ broken \in BOOLEAN
      /\ asked \in Seq(Questions) /\ wire \in Seq(OnWire)
      /\ faults \in 0..MaxFaults /\ MaxFaults \in Nat
  BY SchemaWalkAssumption DEF IInv, Simple
<1>2. CASE Answers
  <2>1. PICK form \in {"content", "error"} : wire' = Append(wire, Response(Head(asked), form))
    BY <1>2 DEF Answers
  <2> QED BY <1>1, <1>2, <2>1, AnswersKeeps DEF Answers
<1>3. CASE Vanishes
  BY <1>1, <1>3, LossKeeps DEF Vanishes
<1>4. CASE Loses
  <2>1. /\ asked # <<>> /\ asked' = Tail(asked) /\ faults' \in 0..MaxFaults
        /\ spoilt' = spoilt \cup {Head(asked).about}
        /\ UNCHANGED <<kind, broken, running, thread, queue, odd>>
        /\ wire' = wire \/ wire' = Append(wire, Response(Head(asked), "error"))
    BY <1>1, <1>4 DEF Loses, Fault
  <2>2. Head(asked) \in Questions
    BY <1>1, <2>1
  <2>3. spoilt' \subseteq Objects
    BY <1>1, <2>1, <2>2, AboutIsObject
  <2>4. CASE wire' = wire
    BY <1>1, <2>1, <2>3, <2>4, LossKeeps
  <2>5. CASE wire' = Append(wire, Response(Head(asked), "error"))
    BY <1>1, <2>1, <2>3, <2>5, AnswersKeeps
  <2> QED BY <2>1, <2>4, <2>5
<1>5. CASE Cuts
  BY <1>5, CutsKeeps
<1>6. CASE Babbles
  BY <1>6, BabblesKeeps
<1>7. CASE Breaks
  <2>1. /\ faults' \in 0..MaxFaults /\ broken' = TRUE /\ asked' = <<>> /\ wire' = <<>>
        /\ spoilt' = spoilt \cup {asked[i].about : i \in DOMAIN asked}
                        \cup {wire[i].to.about : i \in {j \in DOMAIN wire : wire[j].to # None}}
        /\ UNCHANGED <<kind, running, thread, queue, odd>>
    BY <1>1, <1>7 DEF Breaks, Fault
  <2>2. \A i \in DOMAIN asked : asked[i].about \in Objects
    BY <1>1, AboutIsObject
  <2>3. ASSUME NEW i \in DOMAIN wire, wire[i].to # None
        PROVE  wire[i].to.about \in Objects
    <3>1. wire[i] \in OnWire
      BY <1>1
    <3>2. wire[i].to \in Questions
      BY <2>3, <3>1 DEF OnWire
    <3> QED BY <3>2, AboutIsObject
  <2>4. spoilt' \subseteq Objects
    BY <1>1, <2>1, <2>2, <2>3
  <2> QED BY <1>1, <2>1, <2>4, LossKeeps
<1> QED BY <1>2, <1>3, <1>4, <1>5, <1>6, <1>7 DEF Environment

(***************************************************************************)
(* The walk                                                                *)
(***************************************************************************)
\* What a response lists.
LEMMA DataFacts ==
    ASSUME NEW r \in Parsed, r.form = "content"
    PROVE  /\ Data(r) \in Seq(Elements)
           /\ r.to.what = "ids" => \A i \in DOMAIN Data(r) : Data(r)[i].is = "id"
           /\ r.to.what # "ids" =>
                 /\ Len(Data(r)) = Len(r.to.names)
                 /\ \A i \in 1..Len(r.to.names) : Data(r)[i] = Metadata(r.to.names[i].of)
<1> DEFINE q == r.to
<1>1. q \in Questions /\ q \in Requests /\ q.names \in Seq(Elements)
  BY DEF Parsed, Questions, Requests
<1>2. CASE q.what = "ids"
  <2> DEFINE g == q.names[1].of
             c == Children[g]
  <2>1. Len(q.names) = 1 /\ q.names[1] \in Elements
    BY <1>1, <1>2 DEF Questions
  <2>2. g \in Objects
    BY <2>1 DEF Elements
  <2>3. c \in Seq(Objects)
    BY <2>2, SchemaWalkAssumption
  <2>4. Data(r) = [i \in DOMAIN c |-> Id(c[i])]
    BY <1>2 DEF Data
  <2> HIDE DEF c
  <2>5. \A i \in DOMAIN c : Id(c[i]) \in Elements /\ Id(c[i]).is = "id"
    BY <2>3 DEF Id, Elements
  <2>6. DOMAIN c = 1..Len(c) /\ Len(c) \in Nat
    BY <2>3
  <2>7. Data(r) \in Seq(Elements) /\ DOMAIN Data(r) = DOMAIN c
    BY <2>4, <2>5, <2>6
  <2> QED BY <1>2, <2>4, <2>5, <2>7
<1>3. CASE q.what # "ids"
  <2> DEFINE n == q.names
  <2>1. Data(r) = [i \in DOMAIN n |-> Metadata(n[i].of)]
    BY <1>3 DEF Data
  <2>2. n \in Seq(Elements) /\ DOMAIN n = 1..Len(n) /\ Len(n) \in Nat
    BY <1>1
  <2> HIDE DEF n
  <2>3. \A i \in DOMAIN n : Metadata(n[i].of) \in Elements
    <3> TAKE i \in DOMAIN n
    <3>1. n[i] \in Elements
      BY <2>2
    <3> QED BY <3>1 DEF Metadata, Elements
  <2>4. Data(r) \in Seq(Elements) /\ Len(Data(r)) = Len(n)
    BY <2>1, <2>2, <2>3
  <2>5. \A i \in 1..Len(n) : Data(r)[i] = Metadata(n[i].of)
    BY <2>1, <2>2
  <2> QED BY <1>3, <2>4, <2>5 DEF n
<1> QED BY <1>2, <1>3

\* The values of an answer, and what a value of a text client is.
LEMMA ValuesFacts ==
    ASSUME Simple, PiecesOK
    PROVE  /\ ~Serial \/ Status = "content" => Values \in Seq(Elements)
           /\ Values # <<>> => Values[1].of \in Objects \cup {None}
           /\ HasContent => answer # None /\ answer \in Parsed /\ Values = Data(answer)
           /\ HasContent /\ ~odd => answer.form = "content"
           /\ ~HasContent => Values = <<>>
<1>1. answer \in Parsed \cup {None}
  BY DEF Simple
<1>2. CASE ~HasContent
  <2>1. Values = <<>> /\ Status # "content"
    BY <1>2 DEF Values, HasContent
  <2> QED BY <1>2, <2>1
<1>3. CASE HasContent
  <2>1. answer # None
    BY <1>3, SchemaWalkAssumption DEF HasContent, Status
  <2>2. answer \in Parsed /\ Values = Data(answer) /\ Status = answer.form
    BY <1>1, <1>3, <2>1 DEF Values, Status
  <2>3. CASE answer.form = "wrong"
    <3>1. Values = <<Metadata(None)>>
      BY <2>2, <2>3 DEF Data
    <3>2. Values[1].of = None
      BY <3>1 DEF Metadata
    <3>3. odd /\ Serial
      BY <2>1, <2>3 DEF PiecesOK, Simple
    <3> QED BY <1>3, <2>1, <2>2, <2>3, <3>2, <3>3
  <2>4. CASE answer.form = "content"
    <3>1. Values \in Seq(Elements)
      BY <2>2, <2>4, DataFacts
    <3>2. Values # <<>> => Values[1] \in Elements
      BY <3>1
    <3>3. Values # <<>> => Values[1].of \in Objects
      BY <3>2 DEF Elements
    <3> QED BY <1>3, <2>1, <2>2, <2>4, <3>1, <3>3
  <2> QED BY <1>3, <2>2, <2>3, <2>4 DEF HasContent
<1> QED BY <1>2, <1>3

\* The calls of the walk under way, and the innermost one.
LEMMA StackFacts ==
    ASSUME Simple, stack # <<>>
    PROVE  /\ Len(stack) \in Nat /\ Len(stack) >= 1 /\ stack \in Seq(FrameType)
           /\ Top = stack[Len(stack)] /\ Top \in FrameType
           /\ Front(stack) \in Seq(FrameType) /\ Len(Front(stack)) = Len(stack) - 1
           /\ \A j \in 1..(Len(stack) - 1) : Front(stack)[j] = stack[j]
<1> DEFINE n == Len(stack)
           f == SubSeq(stack, 1, n - 1)
<1>1. /\ stack \in Seq(FrameType) /\ n \in Nat /\ n >= 1
      /\ \A i \in 1..n : stack[i] \in FrameType
  BY DEF Simple
<1>2. Top = stack[n]
  BY DEF Top, Last
<1>3. f \in Seq(FrameType) /\ Len(f) = n - 1 /\ \A j \in 1..(n - 1) : f[j] = stack[j]
  <2>1. 1 \in Int /\ n - 1 \in Int /\ \A i \in 1..(n - 1) : stack[i] \in FrameType
    BY <1>1
  <2>2. /\ f \in Seq(FrameType)
        /\ Len(f) = IF 1 <= n - 1 THEN (n - 1) - 1 + 1 ELSE 0
        /\ \A j \in 1..((n - 1) - 1 + 1) : f[j] = stack[1 + j - 1]
    BY <2>1, SubSeqProperties
  <2> HIDE DEF f, n
  <2>3. Len(f) = n - 1
    <3>1. n = 1 \/ n - 1 >= 1
      BY <1>1
    <3> QED BY <1>1, <2>2, <3>1
  <2>4. \A j \in 1..(n - 1) : f[j] = stack[j]
    BY <1>1, <2>2
  <2> QED BY <2>2, <2>3, <2>4
<1>4. Front(stack) = f
  BY DEF Front
<1> HIDE DEF f
<1>5. Top \in FrameType
  BY <1>1, <1>2
<1> QED BY <1>1, <1>2, <1>3, <1>4, <1>5

\* Another frame in the place of the innermost one.
LEMMA NewTop ==
    ASSUME Simple, stack # <<>>, NEW f \in FrameType
    PROVE  LET s == [stack EXCEPT ![Len(stack)] = f]
           IN  /\ s \in Seq(FrameType) /\ Len(s) = Len(stack) /\ s # <<>>
               /\ s[Len(stack)] = f /\ Last(s) = f
               /\ \A j \in 1..(Len(stack) - 1) : s[j] = stack[j]
<1>1. stack \in Seq(FrameType) /\ Len(stack) \in Nat /\ Len(stack) >= 1
  BY StackFacts
<1> DEFINE s == [stack EXCEPT ![Len(stack)] = f]
<1>2. /\ s \in Seq(FrameType) /\ Len(s) = Len(stack)
      /\ s[Len(stack)] = f
      /\ \A j \in 1..(Len(stack) - 1) : s[j] = stack[j]
  BY <1>1
<1> HIDE DEF s
<1>3. s # <<>> /\ Last(s) = f
  BY <1>1, <1>2 DEF Last
<1> QED BY <1>2, <1>3 DEF s

\* A step of the walk that leaves the responses under way alone: what is left to
\* show is what the walk asks, and what it has.
LEMMA WalkStep ==
    ASSUME IInv, UNCHANGED <<kind, asked, wire, broken, queue, faults, spoilt, odd, late, answer>>,
           running' \in BOOLEAN, thread' \in {"receive", "ended"},
           pc # "wait", pc' \in Places \ {"wait", "join", "handle"},
           request' \in Questions, tree' \in Seq(NodeType), stack' \in Seq(FrameType),
           pc' = "call" /\ request'.what = "metadata"
               => pc = "handle" /\ request.what = "ids",
           RequestOK', FramesOK', LabelsOK'
    PROVE  IInv'
<1>1. Simple /\ PiecesOK /\ TrailOK
  BY DEF IInv
<1>2. Simple'
  BY <1>1 DEF Simple
<1>3. PiecesOK'
  BY <1>1 DEF PiecesOK, Serial
<1>4. Trail' = Trail
  BY DEF Trail, Line, To
<1>5. TrailOK'
  BY <1>1, <1>4 DEF TrailOK, Mild
<1>6. AnswerOK'
  BY DEF AnswerOK
<1> QED BY <1>2, <1>3, <1>5, <1>6 DEF IInv

\* Leaving the innermost call, or changing its frame, keeps what was shown.
LEMMA ReturnsKeeps ==
    ASSUME IInv, UNCHANGED <<kind, link, late, answer, request, tree>>, stack # <<>>,
           stack' = Front(stack), pc' = "walk", pc \in {"walk", "handle"}
    PROVE  IInv'
<1>1. /\ Simple /\ RequestOK /\ FramesOK /\ LabelsOK /\ stack' \in Seq(FrameType)
      /\ Len(stack) \in Nat /\ Len(stack) >= 1 /\ Len(stack') = Len(stack) - 1
      /\ \A j \in 1..(Len(stack) - 1) : stack'[j] = stack[j]
      /\ kind # "serial"
  <2>1. kind # "serial"
    BY DEF IInv, RequestOK
  <2> QED BY <2>1, StackFacts DEF IInv
<1>2. \A j \in DOMAIN stack' : j \in DOMAIN stack /\ j < Len(stack) /\ stack'[j] = stack[j]
  <2>1. DOMAIN stack' = 1..Len(stack') /\ DOMAIN stack = 1..Len(stack)
    BY <1>1 DEF Simple
  <2> QED BY <1>1, <2>1
<1>3. RequestOK'
  BY <1>1 DEF RequestOK, Asking
<1>4. FramesOK'
  BY <1>1, <1>2 DEF FramesOK
<1>5. LabelsOK'
  BY <1>1, <1>2 DEF LabelsOK, Mild, link
<1>6. /\ UNCHANGED <<kind, asked, wire, broken, queue, faults, spoilt, odd, late, answer>>
      /\ running' \in BOOLEAN /\ thread' \in {"receive", "ended"}
      /\ pc # "wait" /\ pc' \in Places \ {"wait", "join", "handle"} /\ pc' # "call"
      /\ request' \in Questions /\ tree' \in Seq(NodeType) /\ stack' \in Seq(FrameType)
  BY <1>1 DEF Simple, link, Places
<1> QED BY <1>3, <1>4, <1>5, <1>6, WalkStep

LEMMA ReturnKeeps ==
    ASSUME IInv, Return
    PROVE  IInv'
BY ReturnsKeeps DEF Return, link

LEMMA HandleNamesKeeps ==
    ASSUME IInv, HandleNames
    PROVE  IInv'
<1>1. /\ Simple /\ RequestOK /\ FramesOK /\ LabelsOK /\ PiecesOK
      /\ pc = "handle" /\ kind = "text" /\ stack # <<>>
      /\ UNCHANGED <<link, answer, tree, late>>
  BY DEF IInv, HandleNames, RequestOK, Asking
<1>2. CASE Status = "content" /\ Values # <<>>
  <2> DEFINE f == [Top EXCEPT !.ids = Values]
  <2>1. /\ pc' = "walk" /\ stack' = [stack EXCEPT ![Len(stack)].ids = Values]
        /\ request' = request
    BY <1>2 DEF HandleNames
  <2>2. Values \in Seq(Elements)
    BY <1>1, <1>2, ValuesFacts
  <2>3. Top \in FrameType /\ Top = stack[Len(stack)] /\ Top.md = <<>>
    BY <1>1, StackFacts DEF RequestOK, Asking
  <2>4. f \in FrameType /\ f.md = Top.md
    BY <2>2, <2>3 DEF FrameType
  <2>5. stack' = [stack EXCEPT ![Len(stack)] = f]
    BY <2>1, <2>3
  <2> HIDE DEF f
  <2>6. /\ stack' \in Seq(FrameType) /\ Len(stack') = Len(stack)
        /\ stack'[Len(stack)] = f
        /\ \A j \in 1..(Len(stack) - 1) : stack'[j] = stack[j]
    BY <1>1, <2>4, <2>5, NewTop
  <2>7. RequestOK'
    BY <1>1, <2>1 DEF RequestOK, Asking, link
  <2>8. FramesOK'
    BY <1>1 DEF FramesOK, link
  <2>9. LabelsOK'
    BY <1>1, <2>3, <2>4, <2>6 DEF LabelsOK, Mild, link
  <2> QED BY <1>1, <2>1, <2>6, <2>7, <2>8, <2>9, WalkStep DEF Simple, link, Places
<1>3. CASE ~(Status = "content" /\ Values # <<>>)
  BY <1>1, <1>3, ReturnsKeeps DEF HandleNames, Returns, link
<1> QED BY <1>2, <1>3

LEMMA HandleIdsKeeps ==
    ASSUME IInv, HandleIds
    PROVE  IInv'
<1>1. /\ Simple /\ RequestOK /\ FramesOK /\ LabelsOK /\ PiecesOK
      /\ pc = "handle" /\ request.what = "ids" /\ kind # "text" /\ kind # "serial"
      /\ stack # <<>> /\ request \in Questions
      /\ UNCHANGED <<link, answer, tree, late>>
  BY DEF IInv, HandleIds, RequestOK, Asking, Simple
<1>2. CASE Values # <<>>
  <2> DEFINE f == [Top EXCEPT !.ids = Values]
  <2>1. /\ pc' = "call" /\ stack' = [stack EXCEPT ![Len(stack)].ids = Values]
        /\ request' = MetadataOf(request.about, Values)
    BY <1>2 DEF HandleIds
  <2>2. Values \in Seq(Elements)
    BY <1>1, ValuesFacts DEF Serial
  <2>3. Top \in FrameType /\ Top = stack[Len(stack)] /\ Top.md = <<>>
    BY <1>1, StackFacts DEF RequestOK, Asking
  <2>4. f \in FrameType /\ f.md = <<>> /\ f.ids = Values
    BY <2>2, <2>3 DEF FrameType
  <2>5. stack' = [stack EXCEPT ![Len(stack)] = f]
    BY <2>1, <2>3
  <2> HIDE DEF f
  <2>6. /\ stack' \in Seq(FrameType) /\ Len(stack') = Len(stack) /\ stack' # <<>>
        /\ stack'[Len(stack)] = f /\ Last(stack') = f
        /\ \A j \in 1..(Len(stack) - 1) : stack'[j] = stack[j]
    BY <1>1, <2>4, <2>5, NewTop
  <2>7. /\ request' \in Questions /\ request'.what = "metadata" /\ request'.names = Values
    BY <1>1, <2>1, <2>2, AboutIsObject DEF MetadataOf, Request, Questions, Requests
  <2>8. RequestOK'
    BY <1>1, <2>1, <2>4, <2>6, <2>7 DEF RequestOK, Asking, link, Top
  <2>9. FramesOK'
    BY <1>1, <2>1, <2>6 DEF FramesOK, link
  <2>10. LabelsOK'
    <3>1. \A j \in DOMAIN stack' : \/ j \in DOMAIN stack /\ stack'[j] = stack[j]
                                   \/ stack'[j].md = <<>>
      BY <1>1, <2>4, <2>6, StackFacts
    <3>2. DOMAIN <<>> = {}
      OBVIOUS
    <3> QED BY <1>1, <3>1, <3>2 DEF LabelsOK, Mild, link
  <2>11. /\ UNCHANGED <<kind, asked, wire, broken, queue, faults, spoilt, odd, late, answer>>
         /\ running' \in BOOLEAN /\ thread' \in {"receive", "ended"}
         /\ pc # "wait" /\ pc' \in Places \ {"wait", "join", "handle"}
         /\ tree' \in Seq(NodeType)
    BY <1>1, <2>1 DEF Simple, link, Places, Asking
  <2> QED BY <1>1, <2>6, <2>7, <2>8, <2>9, <2>10, <2>11, WalkStep
<1>3. CASE Values = <<>>
  BY <1>1, <1>3, ReturnsKeeps DEF HandleIds, Returns, link
<1> QED BY <1>2, <1>3

LEMMA HandleMetadataKeeps ==
    ASSUME IInv, HandleMetadata
    PROVE  IInv'
<1>1. /\ Simple /\ RequestOK /\ FramesOK /\ LabelsOK /\ PiecesOK /\ AnswerOK
      /\ pc = "handle" /\ request.what = "metadata" /\ kind # "text" /\ kind # "serial"
      /\ stack # <<>> /\ request \in Questions /\ request.names = Top.ids
      /\ UNCHANGED <<link, answer, tree, late>>
  BY DEF IInv, HandleMetadata, RequestOK, Asking, Simple
<1>2. CASE HasContent /\ ~Returns
  <2> DEFINE f == [Top EXCEPT !.md = Values]
  <2>1. /\ pc' = IF Len(Values) < Len(Top.ids) THEN "raised" ELSE "walk"
        /\ stack' = [stack EXCEPT ![Len(stack)].md = Values]
        /\ request' = request
    BY <1>2 DEF HandleMetadata
  <2>2. /\ Values \in Seq(Elements) /\ Values = Data(answer) /\ answer \in Parsed
        /\ answer # None /\ (~odd => answer.form = "content")
    BY <1>1, <1>2, ValuesFacts DEF Serial
  <2>3. Top \in FrameType /\ Top = stack[Len(stack)]
    BY <1>1, StackFacts
  <2>4. f \in FrameType /\ f.md = Values /\ f.ids = Top.ids
    BY <2>2, <2>3 DEF FrameType
  <2>5. stack' = [stack EXCEPT ![Len(stack)] = f]
    BY <2>1, <2>3
  <2> HIDE DEF f
  <2>6. /\ stack' \in Seq(FrameType) /\ Len(stack') = Len(stack) /\ stack' # <<>>
        /\ stack'[Len(stack)] = f /\ Last(stack') = f
        /\ \A j \in 1..(Len(stack) - 1) : stack'[j] = stack[j]
    BY <1>1, <2>4, <2>5, NewTop
  <2>7. \A j \in DOMAIN stack' : \/ j \in DOMAIN stack /\ j < Len(stack) /\ stack'[j] = stack[j]
                                 \/ j = Len(stack) /\ stack'[j] = f
    BY <1>1, <2>6, StackFacts
  <2>8. RequestOK'
    BY <1>1, <2>1 DEF RequestOK, Asking, link
  <2>9. FramesOK'
    <3>1. Len(Values) \in Nat /\ Len(Top.ids) \in Nat
      BY <2>2, <2>3 DEF FrameType
    <3>2. pc' = "walk" => Len(f.ids) <= Len(f.md)
      BY <2>1, <2>4, <3>1
    <3>3. Len(stack) \in Nat /\ DOMAIN stack \subseteq Int
      BY <1>1, StackFacts
    <3> QED BY <1>1, <2>6, <2>7, <3>2, <3>3 DEF FramesOK, link
  <2>10. ASSUME Mild, NEW i \in DOMAIN f.md, i \in DOMAIN f.ids, f.md[i].is = "metadata"
         PROVE  f.md[i].of = f.ids[i].of
    <3>1. answer.form = "content"
      BY <2>2, <2>10 DEF Mild
    <3>2. CASE answer.to = request
      <4>1. i \in 1..Len(request.names)
        BY <1>1, <2>3, <2>4, <2>10 DEF FrameType
      <4>2. Values[i] = Metadata(request.names[i].of)
        BY <1>1, <2>2, <3>1, <3>2, <4>1, DataFacts
      <4> QED BY <1>1, <2>4, <4>2 DEF Metadata
    <3>3. CASE answer.to.what = "ids"
      <4>1. Values[i].is = "id"
        BY <2>2, <2>4, <2>10, <3>1, <3>3, DataFacts
      <4> QED BY <2>4, <2>10, <4>1
    <3> QED BY <1>1, <2>2, <2>10, <3>2, <3>3 DEF AnswerOK
  <2>11. LabelsOK'
    BY <1>1, <2>7, <2>10 DEF LabelsOK, Mild, link
  <2>12. /\ UNCHANGED <<kind, asked, wire, broken, queue, faults, spoilt, odd, late, answer>>
         /\ running' \in BOOLEAN /\ thread' \in {"receive", "ended"}
         /\ pc # "wait" /\ pc' \in Places \ {"wait", "join", "handle"} /\ pc' # "call"
         /\ request' \in Questions /\ tree' \in Seq(NodeType) /\ stack' \in Seq(FrameType)
    BY <1>1, <2>1, <2>6 DEF Simple, link, Places
  <2> QED BY <2>8, <2>9, <2>11, <2>12, WalkStep
<1>3. CASE Returns
  BY <1>1, <1>3, ReturnsKeeps DEF Returns, link
<1> QED BY <1>2, <1>3 DEF HandleMetadata

\* A frame that goes to its next child.
LEMMA StepFacts ==
    ASSUME NEW f \in FrameType
    PROVE  /\ Step(f) \in FrameType /\ Step(f).ids = f.ids /\ Step(f).md = f.md
           /\ [f EXCEPT !.walked = TRUE] \in FrameType
           /\ [f EXCEPT !.walked = TRUE].ids = f.ids /\ [f EXCEPT !.walked = TRUE].md = f.md
<1>1. /\ f.i \in Nat \ {0} /\ f.i + 1 \in Nat \ {0}
  BY DEF FrameType
<1> QED BY <1>1 DEF FrameType, Step

\* The ids and metadata of the frame that the walk is in.
LEMMA WalksFacts ==
    ASSUME IInv, Walks
    PROVE  /\ Simple /\ RequestOK /\ FramesOK /\ LabelsOK
           /\ UNCHANGED <<link, answer, late>>
           /\ pc = "walk" /\ stack # <<>> /\ kind # "serial"
           /\ Top \in FrameType /\ Top = stack[Len(stack)]
           /\ Top.i \in DOMAIN Top.ids /\ Top.ids[Top.i] \in Elements
           /\ Top.ids[Top.i].of \in Objects
           /\ Top.group \in Elements /\ Top.group.of \in Objects /\ Top.under \in Seq(Objects)
           /\ Append(Top.under, Top.group.of) \in Seq(Objects)
           /\ kind # "text" => Top.i \in DOMAIN Top.md /\ Top.md[Top.i] \in Elements
                                 /\ Top.md[Top.i].of \in Objects
           /\ Len(stack) \in Nat /\ Len(stack) >= 1 /\ DOMAIN stack = 1..Len(stack)
<1>1. /\ Simple /\ RequestOK /\ FramesOK /\ LabelsOK
      /\ UNCHANGED <<link, answer, late>>
      /\ pc = "walk" /\ stack # <<>> /\ kind # "serial" /\ Top.i <= Len(Top.ids)
  BY DEF IInv, Walks, RequestOK
<1>2. /\ Top \in FrameType /\ Top = stack[Len(stack)]
      /\ Len(stack) \in Nat /\ Len(stack) >= 1 /\ DOMAIN stack = 1..Len(stack)
  BY <1>1, StackFacts
<1>3. /\ Top.i \in Nat \ {0} /\ Top.ids \in Seq(Elements) /\ Top.md \in Seq(Elements)
      /\ Top.group \in Elements /\ Top.under \in Seq(Objects)
  BY <1>2 DEF FrameType
<1>4. \A e \in Elements : e.of \in Objects
  BY DEF Elements
<1>5. Top.i \in DOMAIN Top.ids /\ Top.ids[Top.i] \in Elements
  BY <1>1, <1>3
<1>6. Append(Top.under, Top.group.of) \in Seq(Objects)
  BY <1>3, <1>4
<1>7. ASSUME kind # "text"
      PROVE  Top.i \in DOMAIN Top.md /\ Top.md[Top.i] \in Elements
  <2>1. Len(Top.ids) <= Len(Top.md)
    BY <1>1, <1>2, <1>7 DEF FramesOK
  <2>2. Top.i \in 1..Len(Top.md)
    BY <1>1, <1>3, <2>1
  <2> QED BY <1>3, <2>2
<1> QED BY <1>1, <1>2, <1>3, <1>4, <1>5, <1>6, <1>7

NextChild == stack' = [stack EXCEPT ![Len(stack)] = Step(@)]

\* Going on with the next child, with the nodes that were made on the way.
LEMMA StepKeeps ==
    ASSUME IInv, Walks, pc' = "walk", request' = request, tree' \in Seq(NodeType), NextChild,
           Mild => \A i \in DOMAIN tree' : \/ i \in DOMAIN tree /\ tree'[i] = tree[i]
                                           \/ tree'[i].md = tree'[i].id
    PROVE  IInv'
<1> DEFINE f == Step(Top)
<1>1. /\ Simple /\ RequestOK /\ FramesOK /\ LabelsOK
      /\ UNCHANGED <<link, answer, late>>
      /\ pc = "walk" /\ stack # <<>> /\ kind # "serial"
      /\ Top \in FrameType /\ Top = stack[Len(stack)]
      /\ Len(stack) \in Nat /\ Len(stack) >= 1 /\ DOMAIN stack = 1..Len(stack)
  BY WalksFacts
<1>2. f \in FrameType /\ f.ids = Top.ids /\ f.md = Top.md
  BY <1>1, StepFacts
<1>3. stack' = [stack EXCEPT ![Len(stack)] = f]
  BY <1>1 DEF NextChild
<1> HIDE DEF f
<1>4. /\ stack' \in Seq(FrameType) /\ Len(stack') = Len(stack)
      /\ stack'[Len(stack)] = f
      /\ \A j \in 1..(Len(stack) - 1) : stack'[j] = stack[j]
  BY <1>1, <1>2, <1>3, NewTop
<1>5. /\ DOMAIN stack' = DOMAIN stack
      /\ \A j \in DOMAIN stack : stack'[j].ids = stack[j].ids /\ stack'[j].md = stack[j].md
  <2>1. DOMAIN stack' = 1..Len(stack')
    BY <1>4
  <2>2. \A j \in DOMAIN stack : j \in 1..(Len(stack) - 1) \/ j = Len(stack)
    BY <1>1
  <2> QED BY <1>1, <1>2, <1>4, <2>1, <2>2
<1>6. RequestOK'
  BY <1>1 DEF RequestOK, Asking, link
<1>7. FramesOK'
  BY <1>1, <1>4, <1>5 DEF FramesOK, link
<1>8. LabelsOK'
  BY <1>1, <1>5 DEF LabelsOK, Mild, link
<1>9. /\ UNCHANGED <<kind, asked, wire, broken, queue, faults, spoilt, odd, late, answer>>
      /\ running' \in BOOLEAN /\ thread' \in {"receive", "ended"}
      /\ pc # "wait" /\ pc' \in Places \ {"wait", "join", "handle"} /\ pc' # "call"
      /\ request' \in Questions /\ tree' \in Seq(NodeType) /\ stack' \in Seq(FrameType)
  BY <1>1, <1>4 DEF Simple, link, Places
<1> QED BY <1>6, <1>7, <1>8, <1>9, WalkStep

LEMMA NoMetadataKeeps ==
    ASSUME IInv, NoMetadata
    PROVE  IInv'
<1>1. Walks /\ pc' = "walk" /\ request' = request /\ tree' = tree /\ NextChild
  BY DEF NoMetadata, Walks, NextChild
<1>2. tree \in Seq(NodeType)
  BY DEF IInv, Simple
<1> QED BY <1>1, <1>2, StepKeeps

LEMMA MakeNodeKeeps ==
    ASSUME IInv, MakeNode
    PROVE  IInv'
<1>1. /\ Simple /\ RequestOK /\ FramesOK /\ LabelsOK
      /\ UNCHANGED <<link, answer, late>>
      /\ pc = "walk" /\ stack # <<>> /\ kind # "serial" /\ kind # "text"
      /\ Top = stack[Len(stack)] /\ Len(stack) \in DOMAIN stack
      /\ Top.i \in DOMAIN Top.ids /\ Top.ids[Top.i].of \in Objects
      /\ Append(Top.under, Top.group.of) \in Seq(Objects)
      /\ Top.i \in DOMAIN Top.md /\ Top.md[Top.i].of \in Objects
      /\ Top.md[Top.i].is = "metadata" /\ request' = request /\ Walks
  BY WalksFacts DEF MakeNode
<1>2. CASE Top.ids[Top.i].is # "id"
  <2>1. pc' = "raised" /\ UNCHANGED <<tree, stack>>
    BY <1>2 DEF MakeNode
  <2>2. RequestOK' /\ FramesOK' /\ LabelsOK'
    BY <1>1, <2>1 DEF RequestOK, FramesOK, LabelsOK, Mild, Asking, link
  <2> QED BY <1>1, <2>1, <2>2, WalkStep DEF Simple, link, Places
<1>3. CASE Top.ids[Top.i].is = "id"
  <2> DEFINE node == SchemaNode(Top.ids[Top.i].of, Top.md[Top.i].of,
                                Append(Top.under, Top.group.of))
  <2>1. tree' = Append(tree, node) /\ pc' = pc /\ NextChild
    BY <1>3 DEF MakeNode, NextChild
  <2>2. node \in NodeType /\ node.md = Top.md[Top.i].of /\ node.id = Top.ids[Top.i].of
    BY <1>1 DEF SchemaNode, NodeType
  <2>3. Mild => node.md = node.id
    BY <1>1, <2>2 DEF LabelsOK
  <2> HIDE DEF node
  <2>4. /\ tree' \in Seq(NodeType)
        /\ \A i \in DOMAIN tree' : (i \in DOMAIN tree /\ tree'[i] = tree[i]) \/ tree'[i] = node
    BY <1>1, <2>1, <2>2 DEF Simple
  <2> QED BY <1>1, <2>1, <2>3, <2>4, StepKeeps
<1> QED BY <1>2, <1>3

\* A call for a child, from the frame f to the frame g.
Calls(f, g) == stack' = Append([stack EXCEPT ![Len(stack)] = f], g)

\* A call asks for the ids of the child, and leaves the frame it is made from.
LEMMA CallsKeeps ==
    ASSUME IInv, Walks, pc' = "call", request' \in Questions, request'.what = "ids",
           tree' \in Seq(NodeType),
           Mild => \A i \in DOMAIN tree' : \/ i \in DOMAIN tree /\ tree'[i] = tree[i]
                                           \/ tree'[i].md = tree'[i].id,
           NEW f \in FrameType, f.ids = Top.ids, f.md = Top.md,
           NEW g \in FrameType, g.md = <<>>, Calls(f, g)
    PROVE  IInv'
<1> DEFINE s == [stack EXCEPT ![Len(stack)] = f]
<1>1. /\ Simple /\ RequestOK /\ FramesOK /\ LabelsOK
      /\ UNCHANGED <<link, answer, late>>
      /\ pc = "walk" /\ stack # <<>> /\ kind # "serial"
      /\ Top \in FrameType /\ Top = stack[Len(stack)]
      /\ Len(stack) \in Nat /\ Len(stack) >= 1 /\ DOMAIN stack = 1..Len(stack)
  BY WalksFacts
<1>2. /\ s \in Seq(FrameType) /\ Len(s) = Len(stack) /\ s[Len(stack)] = f
      /\ \A j \in 1..(Len(stack) - 1) : s[j] = stack[j]
  BY <1>1, NewTop
<1>3. stack' = Append(s, g)
  BY DEF Calls
<1> HIDE DEF s
<1>4. /\ stack' \in Seq(FrameType) /\ Len(stack') = Len(stack) + 1
      /\ \A j \in 1..Len(s) : stack'[j] = s[j]
      /\ stack'[Len(stack) + 1] = g
  BY <1>2, <1>3, LastAndFront
<1>5. DOMAIN stack' = 1..(Len(stack) + 1)
  BY <1>4
<1>6. \A j \in DOMAIN stack' :
         \/ /\ j \in DOMAIN stack /\ j < Len(stack')
            /\ stack'[j].ids = stack[j].ids /\ stack'[j].md = stack[j].md
         \/ j = Len(stack') /\ stack'[j] = g
  <2> TAKE j \in DOMAIN stack'
  <2>1. j \in 1..(Len(stack) - 1) \/ j = Len(stack) \/ j = Len(stack) + 1
    BY <1>1, <1>5
  <2>2. CASE j \in 1..(Len(stack) - 1)
    BY <1>1, <1>2, <1>4, <2>2
  <2>3. CASE j = Len(stack)
    <3>1. Len(stack) \in 1..Len(s)
      BY <1>1, <1>2
    <3>2. stack'[Len(stack)] = f
      BY <1>2, <1>4, <3>1
    <3>3. j \in DOMAIN stack /\ j < Len(stack')
      BY <1>1, <1>4, <2>3
    <3>4. stack'[j] = f /\ stack[j] = Top
      BY <1>1, <2>3, <3>2
    <3> QED BY <3>3, <3>4
  <2>4. CASE j = Len(stack) + 1
    BY <1>4, <2>4
  <2> QED BY <2>1, <2>2, <2>3, <2>4
<1>7. stack' # <<>> /\ Last(stack') = g
  BY <1>1, <1>4 DEF Last
<1>8. RequestOK'
  BY <1>1, <1>7 DEF RequestOK, Asking, link, Top
<1>9. FramesOK'
  <2>1. /\ kind' = kind
        /\ \A j \in DOMAIN stack : kind # "text" => Len(stack[j].ids) <= Len(stack[j].md)
    BY <1>1 DEF FramesOK, link
  <2>2. pc' # "walk" /\ Len(stack') \in Int
    BY <1>1, <1>4
  <2> QED BY <1>6, <2>1, <2>2 DEF FramesOK
<1>10. LabelsOK'
  <2>1. DOMAIN <<>> = {}
    OBVIOUS
  <2> QED BY <1>1, <1>6, <2>1 DEF LabelsOK, Mild, link
<1>11. /\ UNCHANGED <<kind, asked, wire, broken, queue, faults, spoilt, odd, late, answer>>
       /\ running' \in BOOLEAN /\ thread' \in {"receive", "ended"}
       /\ pc # "wait" /\ pc' \in Places \ {"wait", "join", "handle"}
  BY <1>1 DEF Simple, link, Places, Asking
<1> QED BY <1>4, <1>8, <1>9, <1>10, <1>11, WalkStep

\* The frame and the request of a call for the child x.
LEMMA NewCall ==
    ASSUME NEW x \in Elements, NEW under \in Seq(Objects)
    PROVE  /\ Frame(x, under) \in FrameType /\ Frame(x, under).md = <<>>
           /\ IdsOf(x.of, x) \in Questions /\ IdsOf(x.of, x).what = "ids"
<1>1. x.of \in Objects /\ <<x>> \in Seq(Elements) /\ Len(<<x>>) = 1
  BY DEF Elements
<1>2. IdsOf(x.of, x) \in Questions /\ IdsOf(x.of, x).what = "ids"
  BY <1>1 DEF IdsOf, Request, Questions, Requests
<1>3. Frame(x, under) \in FrameType /\ Frame(x, under).md = <<>>
  <2>1. <<>> \in Seq(Elements) /\ 1 \in Nat \ {0}
    OBVIOUS
  <2> QED BY <2>1 DEF Frame, FrameType
<1> QED BY <1>2, <1>3

LEMMA DescendKeeps ==
    ASSUME IInv, Descend
    PROVE  IInv'
<1> DEFINE x == Top.ids[Top.i]
           f == [Top EXCEPT !.walked = TRUE]
           g == Frame(x, Append(Top.under, Top.group.of))
<1>1. /\ Simple /\ Walks /\ Top \in FrameType /\ Top = stack[Len(stack)]
      /\ x \in Elements /\ Append(Top.under, Top.group.of) \in Seq(Objects)
  BY WalksFacts DEF Descend
<1>2. /\ pc' = "call" /\ request' = IdsOf(x.of, x) /\ tree' = tree
      /\ stack' = Append([stack EXCEPT ![Len(stack)].walked = TRUE], g)
  BY DEF Descend
<1>3. f \in FrameType /\ f.ids = Top.ids /\ f.md = Top.md
  BY <1>1, StepFacts
<1>4. Calls(f, g)
  BY <1>1, <1>2 DEF Calls
<1> HIDE DEF f
<1>5. g \in FrameType /\ g.md = <<>> /\ request' \in Questions /\ request'.what = "ids"
  BY <1>1, <1>2, NewCall
<1> HIDE DEF g
<1>6. tree' \in Seq(NodeType) /\ \A i \in DOMAIN tree' : i \in DOMAIN tree /\ tree'[i] = tree[i]
  BY <1>1, <1>2 DEF Simple
<1> QED BY <1>1, <1>2, <1>3, <1>4, <1>5, <1>6, CallsKeeps

LEMMA PrintChildKeeps ==
    ASSUME IInv, PrintChild
    PROVE  IInv'
<1> DEFINE o == Top.ids[Top.i].of
           under == Append(Top.under, Top.group.of)
           x == PathTo(o)
           f == Step(Top)
           g == Frame(x, under)
           node == SchemaNode(o, o, under)
<1>1. /\ Simple /\ Walks /\ Top \in FrameType /\ Top = stack[Len(stack)]
      /\ o \in Objects /\ under \in Seq(Objects)
  BY WalksFacts DEF PrintChild
<1>2. /\ pc' = "call" /\ request' = IdsOf(o, x) /\ tree' = Append(tree, node)
      /\ stack' = Append([stack EXCEPT ![Len(stack)] = Step(@)], g)
  BY DEF PrintChild
<1>3. x \in Elements /\ x.of = o
  BY <1>1 DEF PathTo, Id, Nowhere, Elements
<1>4. f \in FrameType /\ f.ids = Top.ids /\ f.md = Top.md
  BY <1>1, StepFacts
<1>5. Calls(f, g)
  BY <1>1, <1>2 DEF Calls
<1>6. node \in NodeType /\ node.md = node.id
  BY <1>1 DEF SchemaNode, NodeType
<1> HIDE DEF f, node, x
<1>7. g \in FrameType /\ g.md = <<>> /\ request' \in Questions /\ request'.what = "ids"
  BY <1>1, <1>2, <1>3, NewCall
<1> HIDE DEF g
<1>8. /\ tree' \in Seq(NodeType)
      /\ \A i \in DOMAIN tree' : (i \in DOMAIN tree /\ tree'[i] = tree[i]) \/ tree'[i] = node
  BY <1>1, <1>2, <1>6 DEF Simple
<1> QED BY <1>1, <1>2, <1>4, <1>5, <1>6, <1>7, <1>8, CallsKeeps

\* A step that only changes where the application is.
LEMMA OnlyPlace ==
    ASSUME IInv, UNCHANGED <<kind, asked, wire, broken, queue, faults, spoilt, odd, late, answer>>,
           UNCHANGED <<request, stack, tree>>,
           running' \in BOOLEAN, thread' \in {"receive", "ended"}, pc # "wait",
           \/ pc' \in {"done", "raised", "closing", "closed"}
           \/ pc = "new" /\ pc' = "call"
    PROVE  IInv'
<1>1. Simple /\ RequestOK /\ FramesOK /\ LabelsOK
  BY DEF IInv
<1>2. RequestOK' /\ FramesOK' /\ LabelsOK'
  BY <1>1 DEF RequestOK, FramesOK, LabelsOK, Mild, Asking, Top
<1>3. pc' \in Places \ {"wait", "join", "handle"} /\ (pc' = "call" => request'.what # "metadata")
  BY <1>1 DEF RequestOK, Places, Asking
<1>4. request' \in Questions /\ tree' \in Seq(NodeType) /\ stack' \in Seq(FrameType)
  BY <1>1 DEF Simple
<1> QED BY <1>2, <1>3, <1>4, WalkStep

LEMMA ConnectKeeps ==
    ASSUME IInv, Connect
    PROVE  IInv'
<1>1. Simple
  BY DEF IInv
<1>2. /\ pc = "new" /\ pc' \in {"closed", "call"}
      /\ running' \in BOOLEAN /\ thread' \in {"receive", "ended"}
      /\ UNCHANGED <<kind, asked, wire, broken, queue, faults, spoilt, odd, late, answer>>
      /\ UNCHANGED <<request, stack, tree>>
  BY <1>1 DEF Connect, start_receiving, network, Simple
<1> QED BY <1>2, OnlyPlace

LEMMA LeavesKeeps ==
    ASSUME IInv, Finish \/ Disconnect \/ Close
    PROVE  IInv'
<1>1. Simple
  BY DEF IInv
<1>2. /\ pc # "wait" /\ pc' \in {"done", "closing", "closed"}
      /\ running' \in BOOLEAN /\ thread' \in {"receive", "ended"}
      /\ UNCHANGED <<kind, asked, wire, broken, queue, faults, spoilt, odd, late, answer>>
      /\ UNCHANGED <<request, stack, tree>>
  BY <1>1 DEF Finish, Disconnect, Close, link, network, Simple
<1> QED BY <1>2, OnlyPlace

LEMMA JoinedKeeps ==
    ASSUME IInv, Joined
    PROVE  IInv'
<1>1. /\ Simple /\ RequestOK /\ FramesOK /\ LabelsOK /\ PiecesOK /\ TrailOK /\ AnswerOK
      /\ pc = "join" /\ pc' = "handle"
      /\ UNCHANGED <<kind, asked, wire, broken, running, thread, queue, faults, spoilt, odd>>
      /\ UNCHANGED <<request, answer, stack, tree, late>>
  BY DEF IInv, Joined, link
<1>2. Simple' /\ RequestOK' /\ FramesOK' /\ LabelsOK' /\ PiecesOK'
  BY <1>1 DEF Simple, RequestOK, FramesOK, LabelsOK, PiecesOK, Serial, Mild, Places, Asking, Top
<1>3. Trail' = Trail
  BY <1>1 DEF Trail, Line, To
<1>4. TrailOK' /\ AnswerOK'
  BY <1>1, <1>3 DEF TrailOK, AnswerOK, Mild
<1> QED BY <1>2, <1>4 DEF IInv

\* The value of one object, for it if the response was the one to its request.
LEMMA HandleGetKeeps ==
    ASSUME IInv, HandleGet
    PROVE  IInv'
<1> DEFINE o == request.about
           next == CHOOSE i \in DOMAIN Gets : Gets[i] = o
           node == SchemaNode(o, Values[1].of, <<>>)
<1>1. /\ Simple /\ RequestOK /\ FramesOK /\ LabelsOK /\ PiecesOK /\ AnswerOK
      /\ pc = "handle" /\ request.what = "get" /\ kind = "serial" /\ stack = <<>>
      /\ UNCHANGED <<link, answer, stack, late>>
  BY DEF IInv, HandleGet, RequestOK
<1>2. Gets \in Seq(Objects)
  BY <1>1, SchemaWalkAssumption DEF Simple
<1>3. PICK k \in DOMAIN Gets : request = GetOf(Gets[k])
  BY <1>1 DEF RequestOK
<1>4. /\ o = Gets[k] /\ o \in Objects
      /\ request.names = <<Id(o)>>
  BY <1>2, <1>3 DEF GetOf, Request
<1>5. next \in DOMAIN Gets
  BY <1>3, <1>4
<1>6. /\ tree' = IF Values = <<>> THEN tree ELSE Append(tree, node)
      /\ \/ next = Len(Gets) /\ pc' = "done" /\ request' = request
         \/ next # Len(Gets) /\ pc' = "call" /\ request' = GetOf(Gets[next + 1])
  BY DEF HandleGet
<1> HIDE DEF next, o
<1>7. /\ pc' \in {"done", "call"} /\ request' \in Questions /\ request'.what = "get"
      /\ \E i \in DOMAIN Gets : request' = GetOf(Gets[i])
  <2>1. CASE next = Len(Gets)
    BY <1>1, <1>3, <1>6, <2>1 DEF Simple
  <2>2. CASE next # Len(Gets)
    <3>1. next + 1 \in DOMAIN Gets
      BY <1>2, <1>5, <2>2
    <3>2. Gets[next + 1] \in Objects
      BY <1>2, <3>1
    <3>3. GetOf(Gets[next + 1]) \in Questions /\ GetOf(Gets[next + 1]).what = "get"
      BY <3>2 DEF GetOf, Request, Id, Elements, Questions, Requests
    <3> QED BY <1>6, <2>2, <3>1, <3>3
  <2> QED BY <2>1, <2>2
<1>8. Values # <<>> => node \in NodeType /\ node.id = o /\ node.md = Values[1].of
  BY <1>1, <1>4, ValuesFacts DEF SchemaNode, NodeType
<1>9. ASSUME Mild, late = 0, Values # <<>>
      PROVE  Values[1].of = o
  <2>1. /\ answer # None /\ answer \in Parsed /\ answer.form = "content"
        /\ Values = Data(answer)
    BY <1>1, <1>9, ValuesFacts DEF Mild
  <2>2. answer.to = request
    BY <1>1, <1>9, <2>1 DEF AnswerOK
  <2>3. 1 \in 1..Len(request.names) /\ request.names[1].of = o
    BY <1>4 DEF Id
  <2>4. Values[1] = Metadata(o)
    BY <1>1, <2>1, <2>2, <2>3, DataFacts
  <2> QED BY <2>4 DEF Metadata
<1> HIDE DEF node
<1>10. /\ tree' \in Seq(NodeType)
       /\ \A i \in DOMAIN tree' : \/ i \in DOMAIN tree /\ tree'[i] = tree[i]
                                  \/ Values # <<>> /\ tree'[i] = node
  BY <1>1, <1>6, <1>8 DEF Simple
<1>11. RequestOK'
  BY <1>1, <1>7 DEF RequestOK, Asking, link
<1>12. FramesOK'
  BY <1>1 DEF FramesOK, link
<1>13. LabelsOK'
  BY <1>1, <1>8, <1>9, <1>10 DEF LabelsOK, Mild, link
<1>14. /\ UNCHANGED <<kind, asked, wire, broken, queue, faults, spoilt, odd, late, answer>>
       /\ running' \in BOOLEAN /\ thread' \in {"receive", "ended"}
       /\ pc # "wait" /\ pc' \in Places \ {"wait", "join", "handle"}
       /\ stack' \in Seq(FrameType)
  BY <1>1, <1>7 DEF Simple, link, Places, Asking
<1> QED BY <1>7, <1>10, <1>11, <1>12, <1>13, <1>14, WalkStep

\* A request is put behind what is still to come.
LEMMA AskedLast ==
    ASSUME NEW S, NEW P \in Seq(S), NEW q \in S, NEW l, Rest(P, l),
           q.what = "metadata" => \A i \in Answered(P) : P[i].what = "ids"
    PROVE  Behind(P, q, l) /\ Behind(Append(P, q), q, l)
<1> DEFINE X == Append(P, q)
           n == Len(P)
<1>1. /\ n \in Nat /\ Len(X) = n + 1 /\ DOMAIN P = 1..n /\ DOMAIN X = 1..(n + 1)
      /\ \A i \in 1..n : X[i] = P[i]
      /\ X[n + 1] = q
  OBVIOUS
<1> HIDE DEF X, n
<1>2. \A i \in Answered(X) : i \in 1..(n + 1) /\ (i = n + 1 \/ (i < n + 1 /\ i \in Answered(P)))
  BY <1>1 DEF Answered
<1>3. \A i \in Answered(X) : IF i = n + 1 THEN X[i] = q ELSE X[i] = P[i]
  BY <1>1, <1>2
<1>4. \A i, j \in Answered(P) : i = j /\ i \in 1..n
  BY <1>1 DEF Rest, AtMostOne, Answered
<1>5. l = 0 => Answered(P) = {}
  BY DEF Rest, AtMostNone
<1>6. Behind(P, q, l)
  BY <1>4, <1>5 DEF Behind, AtMostTwo, AtMostOne
<1>7. Behind(X, q, l)
  <2>1. AtMostTwo(X)
    <3> SUFFICES ASSUME NEW i \in Answered(X), NEW j \in Answered(X), NEW k \in Answered(X),
                        i < j, j < k
                 PROVE  FALSE
      BY DEF AtMostTwo
    <3> QED BY <1>1, <1>2, <1>4
  <2>2. l = 0 => AtMostOne(X) /\ \A i \in Answered(X) : X[i] = q
    BY <1>2, <1>3, <1>5 DEF AtMostOne
  <2>3. ASSUME NEW i \in Answered(X), NEW j \in Answered(X), i < j
        PROVE  X[j] = q
    <3>1. j = n + 1
      BY <1>1, <1>2, <1>4, <2>3
    <3> QED BY <1>1, <3>1
  <2>4. q.what = "metadata" => \A i \in Answered(X) : X[i] = q \/ X[i].what = "ids"
    BY <1>2, <1>3
  <2> QED BY <2>1, <2>2, <2>3, <2>4 DEF Behind
<1> QED BY <1>6, <1>7 DEF X

\* What is under way when a request is sent, and with the request.
LEMMA KeptFacts ==
    ASSUME Simple, TrailOK
    PROVE  LET P == Line(Kept, wire, asked)
           IN  /\ Kept \in Seq(Parsed)
               /\ \A i \in DOMAIN Kept : i \in DOMAIN queue /\ Kept[i] = queue[i]
               /\ P \in Seq(Asked)
               /\ \A q : Line(Kept, wire, Append(asked, q)) = Append(P, q) \/ q \notin Asked
               /\ Mild /\ pc = "call" =>
                     /\ Rest(P, late)
                     /\ request.what = "metadata" => \A i \in Answered(P) : P[i].what = "ids"
<1> DEFINE P == Line(Kept, wire, asked)
           T == Trail
<1>1. queue \in Seq(Parsed) /\ wire \in Seq(OnWire) /\ asked \in Seq(Questions)
  BY DEF Simple
<1>2. Kept \in Seq(Parsed) /\ \A i \in DOMAIN Kept : i \in DOMAIN queue /\ Kept[i] = queue[i]
  BY <1>1 DEF Kept
<1>3. To(Kept) \in Seq(Asked) /\ To(wire) \in Seq(Asked) /\ asked \in Seq(Asked) /\ P \in Seq(Asked)
  BY <1>1, <1>2, LineFacts
<1>4. ASSUME NEW q \in Asked
      PROVE  Line(Kept, wire, Append(asked, q)) = Append(P, q)
  <2> DEFINE z == To(Kept) \o To(wire)
             a == asked
  <2>1. z \in Seq(Asked) /\ a \in Seq(Asked) /\ <<q>> \in Seq(Asked)
    BY <1>3, ConcatElements
  <2>2. P = z \o a /\ Line(Kept, wire, Append(asked, q)) = z \o Append(a, q)
    BY DEF Line
  <2> HIDE DEF z, a, P
  <2>3. z \o a \in Seq(Asked)
    BY <2>1, ConcatElements
  <2>4. Append(a, q) = a \o <<q>> /\ Append(z \o a, q) = (z \o a) \o <<q>>
    BY <2>1, <2>3, AppendIsConcat
  <2>5. (z \o a) \o <<q>> = z \o (a \o <<q>>)
    BY <2>1, ConcatAssociative
  <2> QED BY <2>2, <2>4, <2>5
<1>5. P = T \/ Within(P, T)
  BY LostOnTheWay DEF Kept, Trail
<1>6. T \in Seq(Asked)
  BY TrailFacts
<1>7. Mild /\ pc = "call" =>
         /\ Rest(T, late)
         /\ request.what = "metadata" => \A i \in Answered(T) : T[i].what = "ids"
  BY DEF TrailOK
<1> HIDE DEF P, T
<1>8. Mild /\ pc = "call" =>
         /\ Rest(P, late)
         /\ request.what = "metadata" => \A i \in Answered(P) : P[i].what = "ids"
  <2>1. CASE P = T
    BY <1>7, <2>1
  <2>2. CASE Within(P, T)
    <3>1. Rest(T, late) => Rest(P, late)
      BY <1>3, <1>6, <2>2, WithinKeeps
    <3>2. \A i \in Answered(P) : \E j \in Answered(T) : P[i] = T[j]
      BY <1>3, <1>6, <2>2, WithinKeeps
    <3> QED BY <1>7, <3>1, <3>2
  <2> QED BY <1>5, <2>1, <2>2
<1> QED BY <1>2, <1>3, <1>4, <1>8 DEF P

LEMMA SendKeeps ==
    ASSUME IInv, Send
    PROVE  IInv'
<1> DEFINE P == Line(Kept, wire, asked)
           l == late
           q == request
<1>1. /\ Simple /\ RequestOK /\ FramesOK /\ LabelsOK /\ PiecesOK /\ TrailOK
      /\ pc = "call" /\ pc' \in {"wait", "raised"} /\ queue' = Kept
      /\ running' \in BOOLEAN /\ thread' \in {"receive", "ended"}
      /\ \/ asked' = asked
         \/ asked' = Append(asked, request) /\ pc' = "wait"
      /\ spoilt' = spoilt \/ spoilt' = spoilt \cup {request.about}
      /\ UNCHANGED <<kind, wire, broken, faults, odd, request, answer, stack, tree, late>>
  BY DEF IInv, Send, Transmit, TransmitRaises, Opens, start_receiving, network, Simple
<1>2. /\ Kept \in Seq(Parsed) /\ \A i \in DOMAIN Kept : i \in DOMAIN queue /\ Kept[i] = queue[i]
      /\ P \in Seq(Asked)
      /\ q \in Asked => Line(Kept, wire, Append(asked, q)) = Append(P, q)
      /\ Mild => Rest(P, l) /\ (q.what = "metadata" => \A i \in Answered(P) : P[i].what = "ids")
  BY <1>1, KeptFacts
<1>3. q \in Questions /\ q \in Asked /\ request.about \in Objects
  BY <1>1, SentFacts, AboutIsObject DEF Simple
<1>4. Simple'
  <2>1. asked' \in Seq(Questions)
    <3>1. asked \in Seq(Questions) /\ Append(asked, request) \in Seq(Questions)
      BY <1>1, <1>3 DEF Simple
    <3> QED BY <1>1, <3>1
  <2>2. spoilt' \subseteq Objects
    BY <1>1, <1>3 DEF Simple
  <2> QED BY <1>1, <1>2, <2>1, <2>2 DEF Simple, Places, Asking
<1>5. RequestOK'
  BY <1>1 DEF RequestOK, Asking, Top
<1>6. FramesOK' /\ LabelsOK'
  BY <1>1 DEF FramesOK, LabelsOK, Mild
<1>7. PiecesOK'
  BY <1>1, <1>2 DEF PiecesOK, Serial
<1>8. AnswerOK'
  BY <1>1 DEF AnswerOK
<1>9. Trail' = P \/ (Trail' = Append(P, q) /\ pc' = "wait")
  BY <1>1, <1>2, <1>3 DEF Trail, Line, To
<1> HIDE DEF P
<1>10. Mild => Behind(P, q, l) /\ Behind(Append(P, q), q, l)
  <2> HIDE DEF q, l
  <2> QED BY <1>2, <1>3, AskedLast
<1>11. TrailOK'
  BY <1>1, <1>2, <1>9, <1>10 DEF TrailOK, Mild
<1> QED BY <1>4, <1>5, <1>6, <1>7, <1>8, <1>11 DEF IInv

\* The first response that is under way is taken for the one to q.
LEMMA Taken ==
    ASSUME NEW S, NEW P \in Seq(S), NEW X \in Seq(S), NEW q, NEW l,
           Len(P) = 1 + Len(X), \A i \in 1..Len(X) : P[1 + i] = X[i],
           P[1] # None, Behind(P, q, l)
    PROVE  /\ Rest(X, l)
           /\ \A i \in Answered(X) : X[i] = q
           /\ l = 0 => P[1] = q
           /\ q.what = "metadata" => P[1] = q \/ P[1].what = "ids"
<1>1. Len(X) \in Nat /\ DOMAIN P = 1..(1 + Len(X)) /\ DOMAIN X = 1..Len(X)
  OBVIOUS
<1>2. 1 \in Answered(P)
  BY <1>1 DEF Answered
<1>3. \A i \in Answered(X) : /\ i \in Nat /\ 1 + i > 1
                             /\ 1 + i \in Answered(P) /\ X[i] = P[1 + i]
  BY <1>1 DEF Answered
<1>4. /\ AtMostTwo(P) /\ (l = 0 => AtMostOne(P))
      /\ l = 0 => \A i \in Answered(P) : P[i] = q
      /\ \A i, j \in Answered(P) : i < j => P[j] = q
      /\ q.what = "metadata" => \A i \in Answered(P) : P[i] = q \/ P[i].what = "ids"
  BY DEF Behind
<1>5. AtMostOne(X)
  <2> SUFFICES ASSUME NEW i \in Answered(X), NEW j \in Answered(X), i < j
               PROVE  FALSE
    BY <1>3 DEF AtMostOne
  <2> QED BY <1>2, <1>3, <1>4 DEF AtMostTwo
<1>6. l = 0 => AtMostNone(X)
  <2> SUFFICES ASSUME l = 0, NEW i \in Answered(X)
               PROVE  FALSE
    BY DEF AtMostNone
  <2>1. 1 = 1 + i
    BY <1>2, <1>3, <1>4 DEF AtMostOne
  <2> QED BY <1>3, <2>1
<1>7. \A i \in Answered(X) : X[i] = q
  BY <1>2, <1>3, <1>4
<1> QED BY <1>2, <1>4, <1>5, <1>6, <1>7 DEF Rest

\* What is under way when the first one is taken.
LEMMA TakenFromLine ==
    ASSUME Simple, queue # <<>>
    PROVE  LET X == Line(Tail(queue), wire, asked)
           IN  /\ X \in Seq(Asked) /\ Len(Trail) = 1 + Len(X)
               /\ \A i \in 1..Len(X) : Trail[1 + i] = X[i]
               /\ Trail[1] = Head(queue).to
<1> DEFINE x == To(queue)
           y == To(wire)
           a == asked
           t == Tail(x)
           X == (t \o y) \o a
           h == <<Head(x)>>
<1>1. /\ x \in Seq(Asked) /\ y \in Seq(Asked) /\ a \in Seq(Asked)
      /\ x # <<>> /\ Head(x) = Head(queue).to /\ To(Tail(queue)) = t
  BY TrailFacts, ToFacts
<1>2. Line(Tail(queue), wire, asked) = X
  BY <1>1 DEF Line
<1>3. Trail = (x \o y) \o a
  BY DEF Trail, Line
<1> HIDE DEF x, y, a
<1>4. Head(x) \in Asked /\ t \in Seq(Asked) /\ h \in Seq(Asked) /\ x = h \o t
  BY <1>1
<1> HIDE DEF t
<1>5. t \o y \in Seq(Asked) /\ X \in Seq(Asked)
  <2>1. t \o y \in Seq(Asked)
    BY <1>1, <1>4, ConcatElements
  <2> QED BY <1>1, <2>1, ConcatElements
<1> HIDE DEF h
<1>6. (x \o y) \o a = h \o X
  <2>1. (h \o t) \o y = h \o (t \o y)
    <3>1. h \in Seq(Asked) /\ t \in Seq(Asked) /\ y \in Seq(Asked)
      BY <1>1, <1>4
    <3> HIDE DEF Asked
    <3> QED BY <3>1, ConcatAssociative
  <2> DEFINE u == t \o y
  <2>2. h \in Seq(Asked) /\ u \in Seq(Asked) /\ a \in Seq(Asked)
    BY <1>1, <1>4, <1>5
  <2> HIDE DEF u, X
  <2>3. (h \o u) \o a = h \o (u \o a)
    BY <2>2, ConcatAssociative
  <2> QED BY <1>4, <2>1, <2>3 DEF u, X
<1> HIDE DEF X
<1>7. /\ Len(h \o X) = Len(h) + Len(X)
      /\ \A i \in 1..Len(h) : (h \o X)[i] = h[i]
      /\ \A i \in 1..Len(X) : (h \o X)[Len(h) + i] = X[i]
  BY <1>4, <1>5, ConcatElements
<1>8. Len(h) = 1 /\ h[1] = Head(x)
  BY DEF h
<1> QED BY <1>1, <1>2, <1>3, <1>5, <1>6, <1>7, <1>8

\* What does not depend on the response that a call takes.
LEMMA ReceivedKeeps ==
    ASSUME IInv, NEW r \in Parsed \cup {None}, Received(r), late' \in 0..MaxLate, late' >= late,
           queue' \in Seq(Parsed),
           \A i \in DOMAIN queue' : \E k \in DOMAIN queue : queue'[i] = queue[k],
           ~odd /\ r # None => r.form # "wrong" /\ r.to # None,
           TrailOK', AnswerOK'
    PROVE  IInv'
<1>1. /\ Simple /\ RequestOK /\ FramesOK /\ LabelsOK /\ PiecesOK
      /\ pc = "wait" /\ pc' \in {"join", "handle"} /\ answer' = r /\ running' \in BOOLEAN
      /\ UNCHANGED <<kind, asked, wire, broken, faults, spoilt, odd, thread, request, stack, tree>>
  BY DEF IInv, Received, network, Simple
<1>2. late \in Nat /\ late' \in Nat
  BY <1>1, SchemaWalkAssumption DEF Simple
<1>3. Simple'
  BY <1>1 DEF Simple, Places, Asking
<1>4. RequestOK' /\ FramesOK'
  BY <1>1 DEF RequestOK, FramesOK, Asking, Top
<1>5. PiecesOK'
  BY <1>1 DEF PiecesOK, Serial
<1>6. LabelsOK'
  BY <1>1, <1>2 DEF LabelsOK, Mild
<1> QED BY <1>3, <1>4, <1>5, <1>6 DEF IInv

LEMMA GetResponseKeeps ==
    ASSUME IInv, GetResponse
    PROVE  IInv'
<1> DEFINE r == Head(queue)
           X == Line(Tail(queue), wire, asked)
           q == request
           l == late
           P == Trail
<1>1. /\ Simple /\ PiecesOK /\ TrailOK /\ queue # <<>> /\ queue' = Tail(queue)
      /\ Received(r) /\ late' = late /\ queue \in Seq(Parsed) /\ pc = "wait"
      /\ late \in 0..MaxLate
  BY DEF IInv, GetResponse, Received, Simple
<1>2. /\ r \in Parsed /\ r = queue[1] /\ 1 \in DOMAIN queue
      /\ queue' \in Seq(Parsed)
      /\ \A i \in DOMAIN queue' : i + 1 \in DOMAIN queue /\ queue'[i] = queue[i + 1]
  BY <1>1
<1>3. /\ X \in Seq(Asked) /\ Len(P) = 1 + Len(X)
      /\ \A i \in 1..Len(X) : P[1 + i] = X[i]
      /\ P[1] = r.to /\ P \in Seq(Asked)
  BY <1>1, TakenFromLine, TrailFacts
<1>4. Mild => P[1] # None
  BY <1>1, <1>2, <1>3 DEF PiecesOK, Mild
<1>5. Mild => Behind(P, q, l)
  BY <1>1 DEF TrailOK
<1>6. /\ pc' \in {"join", "handle"} /\ answer' = r
      /\ UNCHANGED <<kind, asked, wire, odd, request>>
  BY <1>1 DEF Received, network
<1>7. Trail' = X /\ request' = q /\ late' = l /\ (Mild' <=> Mild)
  BY <1>1, <1>6 DEF Trail, Line, To, Mild
<1>8. Mild => /\ Rest(X, l) /\ \A i \in Answered(X) : X[i] = q
              /\ l = 0 => r.to = q
              /\ q.what = "metadata" => r.to = q \/ r.to.what = "ids"
  <2> HIDE DEF X, q, l, P
  <2> QED BY <1>3, <1>4, <1>5, Taken
<1>9. TrailOK'
  BY <1>6, <1>7, <1>8 DEF TrailOK
<1>10. AnswerOK'
  <2>1. Mild => l = 0 \/ l = 1
    BY <1>1, SchemaWalkAssumption DEF Mild
  <2> QED BY <1>6, <1>7, <1>8, <2>1 DEF AnswerOK
<1>11. ~odd => r.form # "wrong" /\ r.to # None
  BY <1>1, <1>2 DEF PiecesOK
<1>12. late' >= late /\ late' \in 0..MaxLate
  BY <1>1, SchemaWalkAssumption
<1> QED BY <1>1, <1>2, <1>9, <1>10, <1>11, <1>12, ReceivedKeeps

LEMMA TimeOutKeeps ==
    ASSUME IInv, TimeOut
    PROVE  IInv'
<1>1. /\ Simple /\ PiecesOK /\ TrailOK /\ queue = <<>> /\ queue' = queue
      /\ late' = IF asked = <<>> /\ wire = <<>> THEN late ELSE late + 1
      /\ late' <= MaxLate /\ Received(None) /\ queue \in Seq(Parsed) /\ pc = "wait"
      /\ late \in Nat /\ MaxLate \in Nat
  BY SchemaWalkAssumption DEF IInv, TimeOut, Received, Simple
<1>2. late' \in 0..MaxLate /\ late' >= late
  BY <1>1
<1>3. /\ pc' \in {"join", "handle"} /\ answer' = None
      /\ UNCHANGED <<kind, asked, wire, odd, request>>
  BY <1>1 DEF Received, network
<1>4. Trail' = Trail
  BY <1>1, <1>3 DEF Trail, Line, To
<1>5. AnswerOK'
  BY <1>3 DEF AnswerOK
<1>6. TrailOK'
  <2>1. CASE asked = <<>> /\ wire = <<>>
    <3>1. Trail = <<>>
      <4>1. queue \in Seq(Sent) /\ To(<<>>) = <<>>
        BY <1>1, TrailFacts, ToFacts
      <4> QED BY <1>1, <2>1, <4>1 DEF Trail, Line
    <3>2. Answered(Trail) = {}
      BY <3>1 DEF Answered
    <3> QED BY <1>3, <1>4, <3>2 DEF TrailOK, Rest, AtMostOne, AtMostNone
  <2>2. CASE ~(asked = <<>> /\ wire = <<>>)
    <3>1. late' = late + 1 /\ late' # 0
      BY <1>1, <2>2
    <3>2. Mild' => late = 0 /\ Mild
      BY <1>1, <1>3, <3>1 DEF Mild
    <3>3. Mild' => AtMostOne(Trail) /\ \A i \in Answered(Trail) : Trail[i] = request
      BY <1>1, <3>2 DEF TrailOK, Behind
    <3> QED BY <1>3, <1>4, <3>1, <3>3 DEF TrailOK, Rest
  <2> QED BY <2>1, <2>2
<1>7. \A i \in DOMAIN queue' : \E k \in DOMAIN queue : queue'[i] = queue[k]
  BY <1>1
<1> QED BY <1>1, <1>2, <1>5, <1>6, <1>7, ReceivedKeeps

(***************************************************************************)
(* The invariant holds                                                     *)
(***************************************************************************)
LEMMA InitInvariant ==
    ASSUME Init
    PROVE  IInv
<1>1. /\ kind \in Kinds /\ asked = <<>> /\ wire = <<>> /\ queue = <<>>
      /\ broken = FALSE /\ running = FALSE /\ thread = "ended"
      /\ faults = 0 /\ spoilt = {} /\ odd = FALSE
      /\ pc = "new" /\ answer = None /\ tree = <<>> /\ late = 0
  BY DEF Init, LinkInit
<1>2. /\ request \in Questions /\ stack \in Seq(FrameType)
      /\ RequestOK /\ FramesOK
      /\ \A j \in DOMAIN stack : stack[j].md = <<>>
  <2>1. CASE kind = "serial"
    <3>1. request = GetOf(Gets[1]) /\ stack = <<>>
      BY <2>1 DEF Init
    <3>2. 1 \in DOMAIN Gets /\ Gets[1] \in Objects
      BY <1>1, <2>1, SchemaWalkAssumption
    <3>3. request \in Questions /\ request.what = "get"
      BY <3>1, <3>2 DEF GetOf, Request, Id, Elements, Questions, Requests
    <3>4. stack \in Seq(FrameType) /\ DOMAIN stack = {}
      BY <3>1
    <3>5. RequestOK
      BY <2>1, <3>1, <3>2, <3>3 DEF RequestOK
    <3> QED BY <3>3, <3>4, <3>5 DEF FramesOK
  <2>2. CASE kind # "serial"
    <3> DEFINE x == Id(Root[kind])
               f == Frame(x, <<>>)
    <3>1. request = IdsOf(Root[kind], x) /\ stack = <<f>>
      BY <2>2 DEF Init
    <3>2. x \in Elements /\ x.of = Root[kind] /\ <<>> \in Seq(Objects)
      BY <1>1, <2>2, SchemaWalkAssumption DEF Id, Elements
    <3>3. /\ f \in FrameType /\ f.md = <<>>
          /\ request \in Questions /\ request.what = "ids"
      BY <3>1, <3>2, NewCall
    <3>4. f.ids = <<>>
      BY DEF Frame
    <3> HIDE DEF f, x
    <3>5. /\ stack \in Seq(FrameType) /\ DOMAIN stack = {1} /\ Len(stack) = 1 /\ stack[1] = f
          /\ stack # <<>> /\ Last(stack) = f
      BY <3>1, <3>3 DEF Last
    <3>6. RequestOK
      BY <1>1, <2>2, <3>3, <3>5 DEF RequestOK, Top
    <3>7. FramesOK
      BY <3>3, <3>4, <3>5 DEF FramesOK
    <3> QED BY <3>3, <3>5, <3>6, <3>7
  <2> QED BY <2>1, <2>2
<1>3. Simple
  <2>1. 0 \in 0..MaxFaults /\ 0 \in 0..MaxLate
    BY SchemaWalkAssumption
  <2>2. /\ asked \in Seq(Questions) /\ wire \in Seq(OnWire) /\ queue \in Seq(Parsed)
        /\ tree \in Seq(NodeType)
    BY <1>1
  <2> QED BY <1>1, <1>2, <2>1, <2>2 DEF Simple, Places, Asking
<1>4. PiecesOK
  BY <1>1 DEF PiecesOK
<1>5. TrailOK
  <2>1. queue \in Seq(Sent) /\ To(<<>>) = <<>>
    BY <1>3, TrailFacts, ToFacts
  <2>2. Trail = <<>>
    BY <1>1, <2>1 DEF Trail, Line
  <2>3. Answered(Trail) = {}
    BY <2>2 DEF Answered
  <2> QED BY <1>1, <2>3 DEF TrailOK, Rest, AtMostOne, AtMostNone
<1>6. AnswerOK
  BY <1>1 DEF AnswerOK
<1>7. LabelsOK
  <2>1. DOMAIN <<>> = {}
    OBVIOUS
  <2> QED BY <1>1, <1>2, <2>1 DEF LabelsOK
<1> QED BY <1>2, <1>3, <1>4, <1>5, <1>6, <1>7 DEF IInv

LEMMA StutterInvariant ==
    ASSUME IInv, UNCHANGED vars
    PROVE  IInv'
<1>1. /\ UNCHANGED <<kind, asked, wire, broken, running, thread, queue, faults, spoilt, odd>>
      /\ UNCHANGED <<pc, request, answer, stack, tree, late>>
  BY DEF vars, link, walk
<1>2. Simple' /\ RequestOK' /\ FramesOK' /\ PiecesOK'
  BY <1>1 DEF IInv, Simple, RequestOK, FramesOK, PiecesOK, Serial, Top
<1>3. Trail' = Trail
  BY <1>1 DEF Trail, Line, To
<1>4. TrailOK' /\ AnswerOK' /\ LabelsOK'
  BY <1>1, <1>3 DEF IInv, TrailOK, AnswerOK, LabelsOK, Mild
<1> QED BY <1>2, <1>4 DEF IInv

LEMMA NextInvariant ==
    ASSUME IInv, [Next]_vars
    PROVE  IInv'
<1>1. CASE Main
  <2>1. CASE Connect
    BY <2>1, ConnectKeeps
  <2>2. CASE Send
    BY <2>2, SendKeeps
  <2>3. CASE GetResponse
    BY <2>3, GetResponseKeeps
  <2>4. CASE TimeOut
    BY <2>4, TimeOutKeeps
  <2>5. CASE Joined
    BY <2>5, JoinedKeeps
  <2>6. CASE HandleGet
    BY <2>6, HandleGetKeeps
  <2>7. CASE HandleIds
    BY <2>7, HandleIdsKeeps
  <2>8. CASE HandleMetadata
    BY <2>8, HandleMetadataKeeps
  <2>9. CASE NoMetadata
    BY <2>9, NoMetadataKeeps
  <2>10. CASE Descend
    BY <2>10, DescendKeeps
  <2>11. CASE MakeNode
    BY <2>11, MakeNodeKeeps
  <2>12. CASE HandleNames
    BY <2>12, HandleNamesKeeps
  <2>13. CASE PrintChild
    BY <2>13, PrintChildKeeps
  <2>14. CASE Return
    BY <2>14, ReturnKeeps
  <2>15. CASE Finish \/ Disconnect \/ Close
    BY <2>15, LeavesKeeps
  <2> QED BY <1>1, <2>1, <2>2, <2>3, <2>4, <2>5, <2>6, <2>7, <2>8, <2>9, <2>10, <2>11,
             <2>12, <2>13, <2>14, <2>15 DEF Main
<1>2. CASE ReceiveLoop /\ UNCHANGED <<walk, late>>
  BY <1>2, ReceiveLoopKeeps
<1>3. CASE Environment /\ UNCHANGED <<walk, late>>
  BY <1>3, EnvironmentKeeps
<1>4. CASE UNCHANGED vars
  BY <1>4, StutterInvariant
<1> QED BY <1>1, <1>2, <1>3, <1>4 DEF Next

\* The inductive invariant: what the responses under way answer, for which
\* request the walk is waiting, and what it has made of those it took.
THEOREM WalkInvariant == Spec => []IInv
<1>1. Init => IInv
  BY InitInvariant
<1>2. IInv /\ [Next]_vars => IInv'
  BY NextInvariant
<1> QED BY <1>1, <1>2, PTL DEF Spec

\* Every variable has its type, and _walk_schema never reads beyond the metadata
\* that it has for the children of a group.
THEOREM WalkTypeCorrect == Spec => []TypeOK
<1>1. IInv => TypeOK
  <2> SUFFICES ASSUME IInv
               PROVE  TypeOK
    OBVIOUS
  <2>1. Simple /\ FramesOK
    BY DEF IInv
  <2>2. asked \in Seq(Requests) /\ request \in Requests
    <3>1. Questions \subseteq Requests
      BY DEF Questions
    <3>2. asked \in Seq(Questions)
      BY <2>1 DEF Simple
    <3>3. asked \in Seq(Requests)
      BY <3>1, <3>2, SeqGrows
    <3> QED BY <2>1, <3>1, <3>3 DEF Simple
  <2>3. wire \in Seq(Responses) /\ queue \in Seq(Responses) /\ answer \in Responses \cup {None}
    <3>1. Sent \subseteq Responses /\ Parsed \subseteq Sent
      BY DEF Sent, Parsed, Responses, Questions
    <3>2. wire \in Seq(Sent) /\ queue \in Seq(Sent)
      BY <2>1, TrailFacts
    <3>3. wire \in Seq(Responses) /\ queue \in Seq(Responses)
      BY <3>1, <3>2, SeqGrows
    <3> QED BY <2>1, <3>1, <3>3 DEF Simple
  <2>4. kind # "text" /\ pc = "walk" /\ stack # <<>> => Len(Top.ids) <= Len(Top.md)
    <3>1. stack # <<>> => Top = stack[Len(stack)] /\ Len(stack) \in DOMAIN stack
      BY <2>1, StackFacts
    <3> QED BY <2>1, <3>1 DEF FramesOK
  <2>5. /\ tree \in Seq([id : Objects, md : Objects \cup {None}, under : Seq(Objects)])
        /\ stack \in Seq([group : Elements, under : Seq(Objects), ids : Seq(Elements),
                          md : Seq(Elements), i : Nat \ {0}, walked : BOOLEAN])
    BY <2>1 DEF Simple, NodeType, FrameType
  <2> QED BY <2>1, <2>2, <2>3, <2>4, <2>5 DEF TypeOK, Simple, Places, Asking
<1> QED BY <1>1, WalkInvariant, PTL

\* One late response never gives a node of discover_schema() the name, type and
\* access of another object, and on the serial link without one get() never
\* returns the value of another: for every device, every order of its answers and
\* every loss.
THEOREM OneLateLabels == Spec => []OneLateMislabelsNothing
<1>1. IInv => OneLateMislabelsNothing
  BY SchemaWalkAssumption DEF IInv, Simple, LabelsOK, Mild, OneLateMislabelsNothing
<1> QED BY <1>1, WalkInvariant, PTL

(***************************************************************************)
(* Recursive functions                                                     *)
(***************************************************************************)
LEMMA Least ==
    ASSUME NEW S \in SUBSET Nat, S # {}
    PROVE  \E n \in S : \A m \in S : n <= m
<1>1. IsWellFoundedOn(OpToRel(<, Nat), Nat)
  BY NatLessThanWellFounded
<1>2. PICK n \in S : \A m \in S : ~(<<m, n>> \in OpToRel(<, Nat))
  <2> HIDE DEF OpToRel
  <2> DEFINE R == OpToRel(<, Nat)
  <2>1. IsWellFoundedOn(R, Nat)  BY <1>1
  <2> HIDE DEF R
  <2>2. \E n \in S : \A m \in S : ~(<<m, n>> \in R)
    BY <2>1, WFMin
  <2> QED BY <2>2 DEF R
<1>3. \A m \in S : ~(m < n)
  BY <1>2 DEF OpToRel
<1> QED
  BY <1>3

\* A recursion over O: B computes the value of o from those of the arguments that R
\* relates with o, and R has no cycles and no end.
Computes(B, R, O, V) ==
    /\ B \in [O \X [O -> V] -> V]
    /\ \A S \in SUBSET O : S # {} => \E o \in S : \A c \in S : <<c, o>> \notin R
    /\ \A o \in O : \A f, g \in [O -> V] :
          (\A c \in O : <<c, o>> \in R => f[c] = g[c]) => B[<<o, f>>] = B[<<o, g>>]

Solvable(B, O, V) == \E f \in [O -> V] : \A o \in O : f[o] = B[<<o, f>>]

\* A recursion that always ends has a solution: the partial ones agree, and so does
\* their union, which is all of it.
LEMMA Recursion ==
    ASSUME NEW O, NEW R, NEW V, NEW B, V # {}, Computes(B, R, O, V)
    PROVE  Solvable(B, O, V)
<1> USE DEF Computes, Solvable
<1> DEFINE Whole(D) == \A o \in D : \A c \in O : <<c, o>> \in R => c \in D
           Solves(f, D) == Whole(D) /\ \A o \in D : f[o] = B[<<o, f>>]
           Solved == {o \in O : \E D \in SUBSET O, f \in [O -> V] : o \in D /\ Solves(f, D)}
<1>0. ASSUME NEW o \in O, NEW f \in [O -> V], NEW g \in [O -> V],
             \A c \in O : <<c, o>> \in R => f[c] = g[c]
      PROVE  B[<<o, f>>] = B[<<o, g>>]
  BY <1>0
<1>1. ASSUME NEW D1 \in SUBSET O, NEW D2 \in SUBSET O, NEW f1 \in [O -> V], NEW f2 \in [O -> V],
             Solves(f1, D1), Solves(f2, D2)
      PROVE  \A o \in D1 \cap D2 : f1[o] = f2[o]
  <2> DEFINE S == {o \in D1 \cap D2 : f1[o] # f2[o]}
  <2> SUFFICES ASSUME S # {} PROVE FALSE
    OBVIOUS
  <2>1. PICK o \in S : \A c \in S : <<c, o>> \notin R
    OBVIOUS
  <2>2. \A c \in O : <<c, o>> \in R => f1[c] = f2[c]
    BY <1>1, <2>1
  <2>3. B[<<o, f1>>] = B[<<o, f2>>]
    BY <2>1, <2>2
  <2> QED
    BY <1>1, <2>1, <2>3
<1>2. PICK v0 \in V : TRUE
  OBVIOUS
<1> DEFINE Val(o) == CHOOSE v \in V : \E D \in SUBSET O, f \in [O -> V] :
                         o \in D /\ Solves(f, D) /\ f[o] = v
           h == [o \in O |-> IF o \in Solved THEN Val(o) ELSE v0]
<1>3. ASSUME NEW D \in SUBSET O, NEW f \in [O -> V], Solves(f, D)
      PROVE  \A o \in D : o \in Solved /\ h[o] = f[o]
  <2> SUFFICES ASSUME NEW o \in D PROVE o \in Solved /\ h[o] = f[o]
    OBVIOUS
  <2>1. o \in Solved
    BY <1>3
  <2>2. \E v \in V : \E E \in SUBSET O, g \in [O -> V] : o \in E /\ Solves(g, E) /\ g[o] = v
    BY <1>3
  <2>3. \E E \in SUBSET O, g \in [O -> V] : o \in E /\ Solves(g, E) /\ g[o] = Val(o)
    <3> HIDE DEF Solves
    <3> QED BY <2>2
  <2>4. Val(o) = f[o]
    <3>1. PICK E \in SUBSET O, g \in [O -> V] : o \in E /\ Solves(g, E) /\ g[o] = Val(o)
      BY <2>3
    <3>2. o \in E \cap D
      BY <3>1
    <3> HIDE DEF Solves, Val
    <3>3. g[o] = f[o]
      BY <1>1, <1>3, <3>1, <3>2
    <3> QED
      BY <3>1, <3>3
  <2> QED
    BY <2>1, <2>4
<1>4. h \in [O -> V]
  <2>1. ASSUME NEW o \in Solved PROVE Val(o) \in V
    <3>1. PICK D \in SUBSET O, f \in [O -> V] : o \in D /\ Solves(f, D)
      BY <2>1
    <3>2. h[o] = f[o]
      <4> HIDE DEF Solves, h, Solved
      <4> QED BY <1>3, <3>1
    <3>3. h[o] = Val(o)
      BY <2>1
    <3> QED
      BY <3>1, <3>2, <3>3
  <2> QED
    BY <1>2, <2>1
<1>5. Solves(h, Solved)
  <2>1. ASSUME NEW o \in Solved
        PROVE  h[o] = B[<<o, h>>] /\ \A c \in O : <<c, o>> \in R => c \in Solved
    <3>1. PICK D \in SUBSET O, f \in [O -> V] : o \in D /\ Solves(f, D)
      BY <2>1
    <3>2. \A c \in D : c \in Solved /\ h[c] = f[c]
      BY <1>3, <3>1
    <3>3. \A c \in O : <<c, o>> \in R => c \in D
      BY <3>1
    <3>4. B[<<o, h>>] = B[<<o, f>>]
      <4>1. o \in O
        OBVIOUS
      <4> HIDE DEF h, Solved, Solves, Computes, Solvable
      <4>2. \A c \in O : <<c, o>> \in R => h[c] = f[c]
        BY <3>2, <3>3
      <4> QED BY <1>0, <1>4, <4>1, <4>2
    <3> QED
      BY <3>1, <3>2, <3>3, <3>4
  <2> HIDE DEF h, Solved
  <2> QED
    BY <2>1
<1>6. Solved = O
  <2> SUFFICES ASSUME O \ Solved # {} PROVE FALSE
    OBVIOUS
  <2>1. PICK o \in O \ Solved : \A c \in O \ Solved : <<c, o>> \notin R
    <3> HIDE DEF Solved
    <3> QED OBVIOUS
  <2> DEFINE g == [h EXCEPT ![o] = B[<<o, h>>]]
  <2>2. \A c \in O : <<c, o>> \in R => c \in Solved
    BY <2>1
  <2>3. g \in [O -> V] /\ g[o] = B[<<o, h>>] /\ \A c \in O : c # o => g[c] = h[c]
    <3> HIDE DEF h
    <3> QED BY <1>4
  <2>4. ASSUME NEW c \in Solved \cup {o} PROVE g[c] = B[<<c, g>>]
    <3>0. c \in O /\ h \in [O -> V]
      BY <1>4
    <3>1. \A d \in O : <<d, c>> \in R => d \in Solved
      BY <1>5, <2>2
    <3>2. \A d \in O : <<d, c>> \in R => g[d] = h[d]
      <4> HIDE DEF g, h
      <4> QED BY <2>1, <2>3, <3>1
    <3>3. B[<<c, g>>] = B[<<c, h>>]
      <4> HIDE DEF g, h, Solved, Solves, Computes, Solvable
      <4> QED BY <1>0, <2>3, <3>0, <3>2
    <3> HIDE DEF g, h
    <3>4. CASE c = o
      BY <2>3, <3>3, <3>4
    <3>5. CASE c \in Solved
      <4>1. c # o BY <2>1, <3>5
      <4>2. h[c] = B[<<c, h>>] BY <1>5, <3>5
      <4> QED BY <2>3, <3>0, <3>3, <4>1, <4>2
    <3> QED BY <3>4, <3>5
  <2> HIDE DEF g, h
  <2>5. Whole(Solved \cup {o})
    BY <1>5, <2>2
  <2>6. Solved \cup {o} \in SUBSET O
    OBVIOUS
  <2>7. Solves(g, Solved \cup {o})
    <3> HIDE DEF Solved
    <3> QED BY <2>4, <2>5
  <2>8. o \in Solved
    <3> DEFINE E == Solved \cup {o}
    <3>1. o \in E /\ E \in SUBSET O /\ Solves(g, E) BY <2>6, <2>7
    <3> HIDE DEF E, Solves
    <3> QED BY <2>3, <3>1
  <2> QED
    BY <2>1, <2>8
<1> QED
  <2> HIDE DEF h, Solved
  <2>1. h \in [O -> V] /\ \A o \in O : h[o] = B[<<o, h>>]
    BY <1>4, <1>5, <1>6
  <2> QED BY <2>1

\* What a recursive function over 1..n is: the CHOOSE is of one there is.
LEMMA Flattened ==
    ASSUME NEW N, NEW s \in Seq(Seq(N))
    PROVE  \E F \in [0..Len(s) -> Seq(N)] :
              /\ F[0] = <<>>
              /\ \A i \in 1..Len(s) : F[i] = F[i - 1] \o s[i]
              /\ FlattenSeq(s) = F[Len(s)]
<1>1. CASE Len(s) = 0
  <2>1. s = <<>> /\ FlattenSeq(s) = <<>>
    BY <1>1 DEF FlattenSeq
  <2> DEFINE F == [i \in {0} |-> <<>>]
  <2>2. F \in [0..Len(s) -> Seq(N)] /\ F[0] = <<>>
    BY <1>1
  <2>3. 1..Len(s) = {} /\ FlattenSeq(s) = F[Len(s)]
    BY <1>1, <2>1
  <2> HIDE DEF F
  <2> QED
    BY <2>2, <2>3
<1>2. CASE Len(s) > 0
  <2> DEFINE n == Len(s)
             Is(f) == f = [i \in 1..n |-> IF i = 1 THEN s[i] ELSE f[i - 1] \o s[i]]
             B == [x \in (1..n) \X [1..n -> Seq(N)] |->
                     IF x[1] = 1 THEN s[1] ELSE x[2][x[1] - 1] \o s[x[1]]]
             R == {x \in (1..n) \X (1..n) : x[1] = x[2] - 1}
  <2>0. n \in Nat /\ n > 0 /\ \A i \in 1..n : s[i] \in Seq(N)
    BY <1>2
  <2> HIDE DEF n
  <2>1. B \in [(1..n) \X [1..n -> Seq(N)] -> Seq(N)]
    <3> SUFFICES ASSUME NEW i \in 1..n, NEW f \in [1..n -> Seq(N)]
                 PROVE  (IF i = 1 THEN s[1] ELSE f[i - 1] \o s[i]) \in Seq(N)
      OBVIOUS
    <3>1. CASE i = 1 BY <2>0, <3>1
    <3>2. CASE i # 1
      <4>1. f[i - 1] \in Seq(N) /\ s[i] \in Seq(N) BY <2>0, <3>2
      <4> QED BY <3>2, <4>1
    <3> QED BY <3>1, <3>2
  <2>2. ASSUME NEW S \in SUBSET (1..n), S # {}
        PROVE  \E o \in S : \A c \in S : <<c, o>> \notin R
    <3>1. S \in SUBSET Nat
      BY <2>0, <2>2
    <3>2. PICK o \in S : \A c \in S : o <= c
      BY <2>2, <3>1, Least
    <3> QED
      BY <2>0, <3>1, <3>2
  <2>3. ASSUME NEW i \in 1..n, NEW f \in [1..n -> Seq(N)], NEW g \in [1..n -> Seq(N)],
               \A c \in 1..n : <<c, i>> \in R => f[c] = g[c]
        PROVE  B[<<i, f>>] = B[<<i, g>>]
    <3>1. CASE i = 1 BY <3>1
    <3>2. CASE i # 1
      <4>1. i - 1 \in 1..n /\ <<i - 1, i>> \in R BY <2>0, <3>2
      <4>2. f[i - 1] = g[i - 1] BY <2>3, <4>1
      <4> QED BY <3>2, <4>2
    <3> QED BY <3>1, <3>2
  <2>4. PICK f \in [1..n -> Seq(N)] : \A i \in 1..n : f[i] = B[<<i, f>>]
    <3> DEFINE O == 1..n
               V == Seq(N)
    <3>1. V # {}
      <4>1. <<>> \in Seq(N) OBVIOUS
      <4> QED BY <4>1
    <3>2. Computes(B, R, O, V)
      BY <2>1, <2>2, <2>3 DEF Computes
    <3>3. Solvable(B, O, V)
      <4> HIDE DEF O, V, R, B
      <4> QED BY <3>1, <3>2, Recursion
    <3> QED BY <3>3 DEF Solvable
  <2>5. Is(f)
    <3>1. \A i \in 1..n : f[i] = IF i = 1 THEN s[i] ELSE f[i - 1] \o s[i]
      BY <2>4
    <3>2. f = [i \in 1..n |-> f[i]]
      BY <2>4
    <3> HIDE DEF n
    <3> QED BY <3>1, <3>2
  <2> DEFINE c == CHOOSE g : Is(g)
  <2>6. Is(c)
    <3> HIDE DEF Is
    <3> QED BY <2>5
  <2>7. FlattenSeq(s) = c[n]
    BY <1>2 DEF FlattenSeq, n
  <2> HIDE DEF c
  <2>8. c = f
    <3> DEFINE S == {i \in 1..n : c[i] # f[i]}
    <3>1. S = {}
      <4> SUFFICES ASSUME S # {} PROVE FALSE
        OBVIOUS
      <4>1. S \in SUBSET Nat
        BY <2>0
      <4>2. PICK i \in S : \A j \in S : i <= j
        <5> HIDE DEF S
        <5> QED BY <4>1, Least
      <4>3. CASE i = 1 BY <2>5, <2>6, <4>2, <4>3
      <4>4. CASE i # 1
        <5>1. i - 1 \in 1..n /\ i - 1 \notin S BY <2>0, <4>2, <4>4
        <5>2. c[i - 1] = f[i - 1] BY <5>1
        <5>3. i \in 1..n BY <4>2
        <5>4. c[i] = c[i - 1] \o s[i] BY <2>6, <4>4, <5>3
        <5>5. f[i] = f[i - 1] \o s[i] BY <2>5, <4>4, <5>3
        <5> QED BY <4>2, <5>2, <5>4, <5>5
      <4> QED BY <4>3, <4>4
    <3>2. \A i \in 1..n : c[i] = f[i]
      BY <3>1
    <3>3. DOMAIN c = 1..n /\ c = [i \in 1..n |-> c[i]]
      BY <2>6
    <3>4. f = [i \in 1..n |-> f[i]]
      BY <2>4
    <3> QED BY <3>2, <3>3, <3>4
  <2> DEFINE F == [i \in 0..n |-> IF i = 0 THEN <<>> ELSE f[i]]
  <2>9. F \in [0..n -> Seq(N)]
    <3>1. \A i \in 0..n : i # 0 => i \in 1..n BY <2>0
    <3> QED BY <2>4, <3>1
  <2>10. ASSUME NEW i \in 1..n PROVE F[i] = F[i - 1] \o s[i]
    <3>0. i - 1 \in 0..n /\ i \in 0..n /\ i # 0 BY <2>0
    <3>1. CASE i = 1
      <4>1. F[i - 1] = <<>> /\ F[i] = s[i] BY <2>0, <2>5, <3>0, <3>1
      <4>2. s[i] \in Seq(N) BY <2>0
      <4>3. <<>> \o s[i] = s[i] BY <4>2
      <4> HIDE DEF F
      <4> QED BY <4>1, <4>3
    <3>2. CASE i # 1
      <4>1. i - 1 # 0 BY <3>0, <3>2
      <4>2. F[i] = f[i] /\ F[i - 1] = f[i - 1] BY <3>0, <4>1
      <4>3. f[i] = f[i - 1] \o s[i] BY <2>5, <3>2
      <4> QED BY <4>2, <4>3
    <3> QED BY <3>1, <3>2
  <2>11. F[0] = <<>> /\ F[n] = f[n]
    BY <2>0
  <2> QED
    <3> HIDE DEF F
    <3>1. /\ F[0] = <<>>
          /\ \A i \in 1..n : F[i] = F[i - 1] \o s[i]
          /\ FlattenSeq(s) = F[n]
      BY <2>7, <2>8, <2>10, <2>11
    <3>2. /\ F \in [0..Len(s) -> Seq(N)] /\ F[0] = <<>>
          /\ \A i \in 1..Len(s) : F[i] = F[i - 1] \o s[i]
          /\ FlattenSeq(s) = F[Len(s)]
      BY <2>9, <3>1 DEF n
    <3> QED BY <3>2
<1> QED
  <2>1. Len(s) = 0 \/ Len(s) > 0 OBVIOUS
  <2> QED BY <1>1, <1>2, <2>1

\* Its value for one more element.
LEMMA FlattenStep ==
    ASSUME NEW N, NEW e, NEW k \in Nat, \A i \in 1..(k + 1) : e[i] \in Seq(N)
    PROVE  /\ FlattenSeq([i \in 1..k |-> e[i]]) \in Seq(N)
           /\ FlattenSeq([i \in 1..(k + 1) |-> e[i]])
                  = FlattenSeq([i \in 1..k |-> e[i]]) \o e[k + 1]
<1> DEFINE s == [i \in 1..k |-> e[i]]
           t == [i \in 1..(k + 1) |-> e[i]]
<1>1. s \in Seq(Seq(N)) /\ Len(s) = k /\ t \in Seq(Seq(N)) /\ Len(t) = k + 1
  OBVIOUS
<1>2. (\A i \in 1..k : s[i] = e[i]) /\ \A i \in 1..(k + 1) : t[i] = e[i]
  OBVIOUS
<1> HIDE DEF s, t
<1>3. PICK F \in [0..k -> Seq(N)] :
         F[0] = <<>> /\ (\A i \in 1..k : F[i] = F[i - 1] \o s[i]) /\ FlattenSeq(s) = F[k]
  BY <1>1, Flattened
<1>4. PICK G \in [0..(k + 1) -> Seq(N)] :
         /\ G[0] = <<>> /\ FlattenSeq(t) = G[k + 1]
         /\ \A i \in 1..(k + 1) : G[i] = G[i - 1] \o t[i]
  <2>1. \E G \in [0..Len(t) -> Seq(N)] :
           /\ G[0] = <<>>
           /\ \A i \in 1..Len(t) : G[i] = G[i - 1] \o t[i]
           /\ FlattenSeq(t) = G[Len(t)]
    BY <1>1, Flattened
  <2> QED BY <1>1, <2>1
<1>5. \A i \in 0..k : F[i] = G[i]
  <2> DEFINE S == {i \in 0..k : F[i] # G[i]}
  <2> SUFFICES ASSUME S # {} PROVE FALSE
    OBVIOUS
  <2>1. S \in SUBSET Nat
    OBVIOUS
  <2>2. PICK i \in S : \A j \in S : i <= j
    <3> HIDE DEF S
    <3> QED BY <2>1, Least
  <2>3. i # 0
    BY <1>3, <1>4
  <2>4. i \in 1..k /\ i \in 1..(k + 1) /\ i - 1 \in 0..k /\ i - 1 \notin S
    BY <2>2, <2>3
  <2>5. F[i - 1] = G[i - 1] /\ s[i] = t[i]
    BY <1>2, <2>4
  <2> QED
    BY <1>3, <1>4, <2>2, <2>4, <2>5
<1>6. G[k + 1] = G[k] \o t[k + 1] /\ G[k] = F[k] /\ t[k + 1] = e[k + 1]
  <2>1. k + 1 \in 1..(k + 1) /\ k \in 0..k /\ (k + 1) - 1 = k
    OBVIOUS
  <2> QED BY <1>2, <1>4, <1>5, <2>1
<1> QED
  <2>1. F[k] \in Seq(N) BY <1>3
  <2> QED BY <1>3, <1>4, <1>6, <2>1 DEF s, t

(***************************************************************************)
(* The device's tree                                                       *)
(***************************************************************************)
\* The members of the groups of a set are in it too.
Closed(D) == \A g \in D : \A i \in DOMAIN Children[g] : Children[g][i] \in D

\* An object and what it has below it.
Subtree(g) == {o \in Objects : \A D \in SUBSET Objects : g \in D /\ Closed(D) => o \in D}

\* The members of a group are objects.
LEMMA MembersAre ==
    ASSUME NEW g \in Objects
    PROVE  /\ Children[g] \in Seq(Objects) /\ Len(Children[g]) \in Nat
           /\ DOMAIN Children[g] = 1..Len(Children[g])
           /\ \A i \in DOMAIN Children[g] : Children[g][i] \in Objects
<1>1. Children[g] \in Seq(Objects)
  BY SchemaWalkAssumption
<1> QED BY <1>1

\* An object is in its subtree, and what is below it is too.
LEMMA SubtreeFacts ==
    ASSUME NEW g \in Objects
    PROVE  /\ g \in Subtree(g) /\ Subtree(g) \subseteq Objects /\ Closed(Subtree(g))
           /\ \A D \in SUBSET Objects : g \in D /\ Closed(D) => Subtree(g) \subseteq D
<1>1. Closed(Subtree(g))
  <2> SUFFICES ASSUME NEW o \in Subtree(g), NEW i \in DOMAIN Children[o]
               PROVE  Children[o][i] \in Subtree(g)
    BY DEF Closed
  <2>1. Children[o][i] \in Objects
    BY MembersAre DEF Subtree
  <2>2. ASSUME NEW D \in SUBSET Objects, g \in D, Closed(D)
        PROVE  Children[o][i] \in D
    BY <2>2 DEF Subtree, Closed
  <2> QED BY <2>1, <2>2 DEF Subtree
<1> QED BY <1>1 DEF Subtree

\* What is below a member is below the group.
LEMMA SubtreeOfMember ==
    ASSUME NEW g \in Objects, NEW o \in Subtree(g)
    PROVE  /\ Subtree(o) \subseteq Subtree(g)
           /\ \A i \in DOMAIN Children[o] :
                 /\ Children[o][i] \in Subtree(g)
                 /\ Subtree(Children[o][i]) \subseteq Subtree(g)
<1>1. o \in Objects /\ Closed(Subtree(g)) /\ Subtree(g) \in SUBSET Objects
  BY SubtreeFacts
<1>2. \A p \in Subtree(g) : Subtree(p) \subseteq Subtree(g)
  <2> TAKE p \in Subtree(g)
  <2>1. p \in Objects
    BY <1>1
  <2> QED BY <1>1, <2>1, SubtreeFacts
<1>3. \A i \in DOMAIN Children[o] : Children[o][i] \in Subtree(g)
  BY <1>1 DEF Closed
<1> QED BY <1>2, <1>3

\* What is in a subtree is its root, or a member of something in it.
LEMMA SubtreeParent ==
    ASSUME NEW g \in Objects, NEW o \in Subtree(g), o # g
    PROVE  \E p \in Subtree(g) : \E i \in DOMAIN Children[p] : Children[p][i] = o
<1> SUFFICES ASSUME \A p \in Subtree(g) : \A i \in DOMAIN Children[p] : Children[p][i] # o
             PROVE  FALSE
  OBVIOUS
<1> DEFINE D == Subtree(g) \ {o}
<1>1. D \in SUBSET Objects /\ g \in D
  BY SubtreeFacts
<1>2. Closed(D)
  BY SubtreeFacts DEF Closed
<1> QED BY <1>1, <1>2, SubtreeFacts

\* A member's group is the only one it is in.
LEMMA OneParent ==
    ASSUME NEW p \in Objects, NEW i \in DOMAIN Children[p],
           NEW q \in Objects, NEW j \in DOMAIN Children[q], Children[p][i] = Children[q][j]
    PROVE  p = q /\ i = j
BY DeviceAssumption

\* The group of a member of a subtree is in it, unless that is its root.
LEMMA MembersGroup ==
    ASSUME NEW g \in Objects, NEW p \in Objects, NEW i \in DOMAIN Children[p],
           Children[p][i] \in Subtree(g), Children[p][i] # g
    PROVE  p \in Subtree(g)
<1>1. PICK q \in Subtree(g) : \E j \in DOMAIN Children[q] : Children[q][j] = Children[p][i]
  BY SubtreeParent
<1>2. q \in Objects
  BY SubtreeFacts
<1> QED BY <1>1, <1>2, OneParent

\* No group is below its own members.
LEMMA NoCycle ==
    ASSUME NEW g \in Objects, NEW i \in DOMAIN Children[g]
    PROVE  g \notin Subtree(Children[g][i])
<1> DEFINE S == {o \in Objects : \E k \in DOMAIN Children[o] : o \in Subtree(Children[o][k])}
<1>1. S = {}
  <2> SUFFICES ASSUME S # {} PROVE FALSE
    OBVIOUS
  <2>1. PICK o \in S : \A k \in DOMAIN Children[o] : Children[o][k] \notin S
    <3> DEFINE X == S
    <3>1. X \in SUBSET Objects /\ X # {}
      OBVIOUS
    <3> HIDE DEF X
    <3>2. \E o \in X : \A k \in DOMAIN Children[o] : Children[o][k] \notin X
      BY <3>1, DeviceAssumption
    <3> QED BY <3>2 DEF X
  <2>2. PICK k \in DOMAIN Children[o] : o \in Subtree(Children[o][k])
    OBVIOUS
  <2> DEFINE c == Children[o][k]
  <2>3. o \in Objects /\ c \in Objects /\ c \notin S
    BY <2>1, MembersAre
  <2>4. \E j \in DOMAIN Children[c] : c \in Subtree(Children[c][j])
    <3>1. CASE o = c
      BY <2>2, <3>1
    <3>2. CASE o # c
      <4> DEFINE D == {c} \cup {x \in Subtree(c) : \E j \in DOMAIN Children[c] :
                                                      x \in Subtree(Children[c][j])}
      <4>1. D \in SUBSET Objects /\ c \in D
        BY <2>3, SubtreeFacts
      <4>2. Closed(D)
        <5> SUFFICES ASSUME NEW x \in D, NEW m \in DOMAIN Children[x]
                     PROVE  Children[x][m] \in D
          BY DEF Closed
        <5>1. x \in Objects /\ x \in Subtree(c)
          BY <2>3, <4>1, SubtreeFacts
        <5>2. Children[x][m] \in Subtree(c) /\ Children[x][m] \in Objects
          BY <2>3, <5>1, SubtreeOfMember, MembersAre
        <5>3. CASE x = c
          BY <5>2, <5>3, SubtreeFacts
        <5>4. CASE x # c
          <6>1. PICK j \in DOMAIN Children[c] : x \in Subtree(Children[c][j])
            BY <5>4
          <6>2. Children[c][j] \in Objects
            BY <2>3, MembersAre
          <6>3. Children[x][m] \in Subtree(Children[c][j])
            BY <6>1, <6>2, SubtreeOfMember
          <6> QED BY <5>2, <6>3
        <5> QED BY <5>3, <5>4
      <4>3. o \in D
        <5>1. Subtree(c) \subseteq D
          BY <2>3, <4>1, <4>2, SubtreeFacts
        <5> QED BY <2>2, <5>1
      <4>4. PICK j \in DOMAIN Children[c] : o \in Subtree(Children[c][j])
        BY <3>2, <4>3
      <4>5. Children[c][j] \in Objects
        BY <2>3, MembersAre
      <4>6. c \in Subtree(Children[c][j])
        BY <4>4, <4>5, SubtreeOfMember
      <4> QED BY <4>6
    <3> QED BY <3>1, <3>2
  <2> QED BY <2>3, <2>4
<1> QED BY <1>1

\* The subtrees of two members of a group have nothing in common.
LEMMA SiblingsApart ==
    ASSUME NEW g \in Objects, NEW i \in DOMAIN Children[g], NEW j \in DOMAIN Children[g], i # j
    PROVE  Subtree(Children[g][i]) \cap Subtree(Children[g][j]) = {}
<1> DEFINE a == Children[g][i]
           b == Children[g][j]
           D == Subtree(a) \ Subtree(b)
<1>1. a \in Objects /\ b \in Objects /\ a # b /\ g \notin Subtree(a) /\ g \notin Subtree(b)
  BY MembersAre, NoCycle, OneParent
<1>2. a \notin Subtree(b)
  <2>1. a \in Subtree(b) => g \in Subtree(b)
    BY <1>1, MembersGroup
  <2> QED BY <1>1, <2>1
<1>3. Closed(D)
  <2> SUFFICES ASSUME NEW x \in D, NEW m \in DOMAIN Children[x]
               PROVE  Children[x][m] \in D
    BY DEF Closed
  <2>1. x \in Objects /\ Children[x][m] \in Subtree(a)
    BY <1>1, SubtreeFacts, SubtreeOfMember
  <2>2. ASSUME Children[x][m] \in Subtree(b)
        PROVE  FALSE
    <3>1. CASE Children[x][m] = b
      <4>1. x = g
        BY <2>1, <3>1, OneParent
      <4> QED BY <1>1, <4>1
    <3>2. CASE Children[x][m] # b
      <4>1. x \in Subtree(b)
        BY <1>1, <2>1, <2>2, <3>2, MembersGroup
      <4> QED BY <4>1
    <3> QED BY <3>1, <3>2
  <2> QED BY <2>1, <2>2
<1>4. Subtree(a) \subseteq D
  <2>1. D \in SUBSET Objects /\ a \in D
    BY <1>1, <1>2, SubtreeFacts
  <2> QED BY <1>1, <1>3, <2>1, SubtreeFacts
<1> QED BY <1>4

Positions == Objects \X Seq(Objects)

\* What a walk makes of a member and of what it has below itself: an asynchronous
\* client does not go into a record.
Seen(k, below, o, under) ==
    LET node == <<SchemaNode(o, o, under)>>
        rest == IF Type[o] = "record" /\ k = "async" THEN <<>> ELSE below[o, under]
    IN  IF k = "text" THEN node \o rest ELSE rest \o node

\* Of the members of a group under others, if nothing is made of those of "without".
Found(k, without) ==
    LET below[p \in Objects \X Seq(Objects)] ==
            IF p[1] \in without THEN <<>>
            ELSE FlattenSeq([i \in DOMAIN Children[p[1]] |->
                                Seen(k, below, Children[p[1]][i], Append(p[2], p[1]))])
    IN  below

\* Of the device.
Traversal(k, without) ==
    IF k = "serial"
    THEN FlattenSeq([i \in DOMAIN Gets |->
            IF Gets[i] \in without THEN <<>> ELSE <<SchemaNode(Gets[i], Gets[i], <<>>)>>])
    ELSE Found(k, without)[Root[k], <<>>]

Parts(k, S, g, u, n) ==
    FlattenSeq([i \in 1..n |-> Seen(k, Found(k, S), Children[g][i], Append(u, g))])

\* A flattened sequence of sequences of nodes is one of nodes.
LEMMA FlattenType ==
    ASSUME NEW N, NEW s \in Seq(Seq(N))
    PROVE  FlattenSeq(s) \in Seq(N)
<1>1. PICK F \in [0..Len(s) -> Seq(N)] : FlattenSeq(s) = F[Len(s)]
  BY Flattened
<1> QED BY <1>1

\* Sequences of one node, or of none.
LEMMA SmallSequences ==
    ASSUME NEW N, NEW e \in N
    PROVE  <<e>> \in Seq(N) /\ <<>> \in Seq(N) /\ \A s \in Seq(N) : Append(s, e) \in Seq(N)
OBVIOUS

\* The empty sequence has no elements.
LEMMA NoElements ==
    ASSUME NEW N
    PROVE  <<>> \in Seq(N)
OBVIOUS

\* A function over 1..n is a sequence.
LEMMA FromElements ==
    ASSUME NEW N, NEW n \in Nat, NEW s, s = [i \in 1..n |-> s[i]], \A i \in 1..n : s[i] \in N
    PROVE  s \in Seq(N) /\ Len(s) = n
OBVIOUS

\* The place of a member: it, and the groups above it.
LEMMA PlaceOfMember ==
    ASSUME NEW p \in Positions
    PROVE  /\ p[1] \in Objects /\ p[2] \in Seq(Objects) /\ Append(p[2], p[1]) \in Seq(Objects)
           /\ \A i \in DOMAIN Children[p[1]] :
                 <<Children[p[1]][i], Append(p[2], p[1])>> \in Positions
<1>1. p[1] \in Objects /\ p[2] \in Seq(Objects)
  BY DEF Positions
<1>2. Append(p[2], p[1]) \in Seq(Objects)
  BY <1>1, SmallSequences
<1>3. \A i \in DOMAIN Children[p[1]] : Children[p[1]][i] \in Objects
  BY <1>1, MembersAre
<1> QED BY <1>1, <1>2, <1>3 DEF Positions

\* The nodes of a member, if those below it are nodes.
LEMMA PartType ==
    ASSUME NEW k, NEW f, NEW o \in Objects, NEW u \in Seq(Objects), f[o, u] \in Seq(NodeType)
    PROVE  /\ Seen(k, f, o, u) \in Seq(NodeType)
           /\ SchemaNode(o, o, u) \in NodeType
<1> DEFINE node == <<SchemaNode(o, o, u)>>
           rest == IF Type[o] = "record" /\ k = "async" THEN <<>> ELSE f[o, u]
<1>1. SchemaNode(o, o, u) \in NodeType
  BY DEF SchemaNode, NodeType
<1>2. node \in Seq(NodeType) /\ <<>> \in Seq(NodeType)
  BY <1>1, SmallSequences
<1>3. rest \in Seq(NodeType)
  BY <1>2
<1>4. Seen(k, f, o, u) = IF k = "text" THEN node \o rest ELSE rest \o node
  BY DEF Seen
<1> HIDE DEF node, rest
<1>5. node \o rest \in Seq(NodeType) /\ rest \o node \in Seq(NodeType)
  BY <1>2, <1>3, ConcatElements
<1> QED BY <1>1, <1>4, <1>5

BelowOf(k, S, f, p) ==
    IF p[1] \in S THEN <<>>
    ELSE FlattenSeq([i \in DOMAIN Children[p[1]] |->
                        Seen(k, f, Children[p[1]][i], Append(p[2], p[1]))])

\* It is made of the values at the places of the members.
LEMMA BelowOfFacts ==
    ASSUME NEW k, NEW S, NEW p \in Positions, NEW f,
           \A i \in DOMAIN Children[p[1]] :
              f[Children[p[1]][i], Append(p[2], p[1])] \in Seq(NodeType)
    PROVE  /\ BelowOf(k, S, f, p) \in Seq(NodeType)
           /\ \A g : (\A i \in DOMAIN Children[p[1]] :
                          g[Children[p[1]][i], Append(p[2], p[1])]
                              = f[Children[p[1]][i], Append(p[2], p[1])])
                     => BelowOf(k, S, g, p) = BelowOf(k, S, f, p)
<1> DEFINE o == p[1]
           u == Append(p[2], p[1])
           s == [i \in DOMAIN Children[o] |-> Seen(k, f, Children[o][i], u)]
<1>1. o \in Objects /\ u \in Seq(Objects) /\ <<>> \in Seq(NodeType)
  <2>1. <<>> \in Seq(NodeType)
    BY NoElements
  <2> QED BY <2>1, PlaceOfMember
<1>2. /\ DOMAIN Children[o] = 1..Len(Children[o]) /\ Len(Children[o]) \in Nat
      /\ \A i \in DOMAIN Children[o] : Children[o][i] \in Objects
  BY <1>1, MembersAre
<1>3. \A i \in DOMAIN Children[o] : Seen(k, f, Children[o][i], u) \in Seq(NodeType)
  <2> TAKE i \in DOMAIN Children[o]
  <2> DEFINE c == Children[o][i]
  <2>1. c \in Objects /\ f[c, u] \in Seq(NodeType)
    BY <1>2
  <2> HIDE DEF c, u
  <2> QED BY <1>1, <2>1, PartType DEF c
<1>4. s \in Seq(Seq(NodeType))
  <2> DEFINE n == Len(Children[o])
  <2>1. n \in Nat /\ s = [i \in 1..n |-> s[i]]
    BY <1>2
  <2>2. \A i \in 1..n : s[i] \in Seq(NodeType)
    BY <1>2, <1>3
  <2> HIDE DEF s, n
  <2> DEFINE N == Seq(NodeType)
  <2> HIDE DEF N
  <2> QED BY <2>1, <2>2, FromElements DEF N
<1>5. FlattenSeq(s) \in Seq(NodeType)
  <2> HIDE DEF s
  <2> QED BY <1>4, FlattenType
<1>6. BelowOf(k, S, f, p) = IF o \in S THEN <<>> ELSE FlattenSeq(s)
  BY DEF BelowOf
<1>7. ASSUME NEW g, \A i \in DOMAIN Children[o] : g[Children[o][i], u] = f[Children[o][i], u]
      PROVE  BelowOf(k, S, g, p) = BelowOf(k, S, f, p)
  <2>1. \A i \in DOMAIN Children[o] : Seen(k, g, Children[o][i], u) = Seen(k, f, Children[o][i], u)
    BY <1>7 DEF Seen
  <2>2. [i \in DOMAIN Children[o] |-> Seen(k, g, Children[o][i], u)] = s
    BY <2>1
  <2> QED BY <2>2 DEF BelowOf
<1>8. BelowOf(k, S, f, p) \in Seq(NodeType)
  BY <1>1, <1>5, <1>6
<1> QED BY <1>7, <1>8

\* The recursion has a solution, and Found is one.
LEMMA BelowFixed ==
    ASSUME NEW k, NEW S
    PROVE  \A p \in Positions : /\ Found(k, S)[p] = BelowOf(k, S, Found(k, S), p)
                              /\ Found(k, S)[p] \in Seq(NodeType)
<1> DEFINE V == Seq(NodeType)
           B == [x \in Positions \X [Positions -> V] |-> BelowOf(k, S, x[2], x[1])]
           R == {x \in Positions \X Positions : \E i \in DOMAIN Children[x[2][1]] :
                                               x[1][1] = Children[x[2][1]][i]}
<1>1. ASSUME NEW p \in Positions, NEW i \in DOMAIN Children[p[1]]
      PROVE  <<Children[p[1]][i], Append(p[2], p[1])>> \in Positions
  BY PlaceOfMember
<1>2. ASSUME NEW D \in SUBSET Positions, D # {}
      PROVE  \E o \in D : \A c \in D : <<c, o>> \notin R
  <2> DEFINE E == {p[1] : p \in D}
  <2>1. E \in SUBSET Objects /\ E # {}
    BY <1>2 DEF Positions
  <2>2. PICK o \in E : \A i \in DOMAIN Children[o] : Children[o][i] \notin E
    <3> HIDE DEF E
    <3> QED BY <2>1, DeviceAssumption
  <2>3. PICK p \in D : p[1] = o
    BY <2>2
  <2>4. \A c \in D : c[1] \in E
    OBVIOUS
  <2> HIDE DEF E
  <2>5. ASSUME NEW c \in D, <<c, p>> \in R
        PROVE  FALSE
    <3>1. \E i \in DOMAIN Children[p[1]] : c[1] = Children[p[1]][i]
      BY <2>5
    <3> QED BY <2>2, <2>3, <2>4, <3>1
  <2> HIDE DEF R
  <2> QED BY <2>5
<1>3. ASSUME NEW p \in Positions, NEW f \in [Positions -> V]
      PROVE  /\ BelowOf(k, S, f, p) \in V
             /\ \A g \in [Positions -> V] :
                   (\A c \in Positions : <<c, p>> \in R => f[c] = g[c])
                       => BelowOf(k, S, f, p) = BelowOf(k, S, g, p)
  <2>1. \A i \in DOMAIN Children[p[1]] :
           /\ <<Children[p[1]][i], Append(p[2], p[1])>> \in Positions
           /\ <<<<Children[p[1]][i], Append(p[2], p[1])>>, p>> \in R
    BY <1>1
  <2>2. \A i \in DOMAIN Children[p[1]] : f[Children[p[1]][i], Append(p[2], p[1])] \in V
    BY <2>1
  <2>3. BelowOf(k, S, f, p) \in V
    BY <2>2, BelowOfFacts
  <2>4. ASSUME NEW g \in [Positions -> V], \A c \in Positions : <<c, p>> \in R => f[c] = g[c]
        PROVE  BelowOf(k, S, f, p) = BelowOf(k, S, g, p)
    <3>1. \A i \in DOMAIN Children[p[1]] : g[Children[p[1]][i], Append(p[2], p[1])]
                                              = f[Children[p[1]][i], Append(p[2], p[1])]
      <4> HIDE DEF R
      <4> QED BY <2>1, <2>4
    <3> QED BY <2>2, <3>1, BelowOfFacts
  <2> QED BY <2>3, <2>4
<1>4. PICK f \in [Positions -> V] : \A p \in Positions : f[p] = B[<<p, f>>]
  <2>1. V # {}
    <3>1. <<>> \in V
      OBVIOUS
    <3> QED BY <3>1
  <2>2. Computes(B, R, Positions, V)
    <3>1. B \in [Positions \X [Positions -> V] -> V]
      <4> HIDE DEF V
      <4> QED BY <1>3
    <3>2. \A p \in Positions : \A g, h \in [Positions -> V] :
             (\A c \in Positions : <<c, p>> \in R => g[c] = h[c]) => B[<<p, g>>] = B[<<p, h>>]
      <4> HIDE DEF V, R
      <4> QED BY <1>3
    <3> HIDE DEF B, R, V
    <3> QED BY <1>2, <3>1, <3>2 DEF Computes
  <2> HIDE DEF V, B, R
  <2>3. Solvable(B, Positions, V)
    BY <2>1, <2>2, Recursion
  <2> QED BY <2>3 DEF Solvable
<1> DEFINE Is(h) == h = [p \in Positions |-> BelowOf(k, S, h, p)]
           b == CHOOSE h : Is(h)
<1>5. Is(f)
  <2>1. \A p \in Positions : f[p] = BelowOf(k, S, f, p)
    <3> HIDE DEF V
    <3> QED BY <1>4
  <2> HIDE DEF V
  <2> QED BY <1>4, <2>1
<1>6. Is(b)
  <2> HIDE DEF Is
  <2> QED BY <1>5
<1>7. Found(k, S) = b
  BY DEF Found, BelowOf, Positions
<1> HIDE DEF b
<1>8. \A p \in Positions : b[p] = BelowOf(k, S, b, p)
  BY <1>6
<1>9. \A p \in Positions : b[p] \in V
  <2> DEFINE D == {p \in Positions : b[p] \notin V}
  <2> SUFFICES ASSUME D # {} PROVE FALSE
    OBVIOUS
  <2>1. PICK p \in D : \A c \in D : <<c, p>> \notin R
    <3> DEFINE E == D
    <3>1. E \in SUBSET Positions /\ E # {}
      OBVIOUS
    <3> HIDE DEF E, R
    <3>2. \E o \in E : \A c \in E : <<c, o>> \notin R
      BY <1>2, <3>1
    <3> QED BY <3>2 DEF E
  <2>2. \A i \in DOMAIN Children[p[1]] : b[Children[p[1]][i], Append(p[2], p[1])] \in V
    <3> TAKE i \in DOMAIN Children[p[1]]
    <3> DEFINE c == <<Children[p[1]][i], Append(p[2], p[1])>>
    <3>1. c \in Positions /\ <<c, p>> \in R
      BY <1>1
    <3> HIDE DEF c, R
    <3>2. b[c] \in V
      BY <2>1, <3>1
    <3> QED BY <3>2 DEF c
  <2>3. BelowOf(k, S, b, p) \in V
    BY <2>2, BelowOfFacts
  <2> QED BY <1>8, <2>3
<1> QED BY <1>7, <1>8, <1>9

\* The nodes below a group under others.
NodesOf(k, S, g, u) == Found(k, S)[g, u]

\* The nodes of the i-th member of a group under others.
Member(k, S, g, u, i) == Seen(k, Found(k, S), Children[g][i], Append(u, g))

\* What is below a group are nodes.
LEMMA BelowType ==
    ASSUME NEW k, NEW S, NEW g \in Objects, NEW u \in Seq(Objects)
    PROVE  NodesOf(k, S, g, u) \in Seq(NodeType)
<1>1. <<g, u>> \in Positions
  BY DEF Positions
<1> DEFINE p == <<g, u>>
<1> HIDE DEF p
<1>2. Found(k, S)[p] \in Seq(NodeType)
  BY <1>1, BelowFixed DEF p
<1> QED BY <1>2 DEF p, NodesOf

\* So is a member with what is below it.
LEMMA MemberType ==
    ASSUME NEW k, NEW S, NEW g \in Objects, NEW u \in Seq(Objects), NEW i \in 1..Len(Children[g])
    PROVE  /\ Children[g][i] \in Objects /\ i \in DOMAIN Children[g]
           /\ Append(u, g) \in Seq(Objects)
           /\ NodesOf(k, S, Children[g][i], Append(u, g)) \in Seq(NodeType)
           /\ Member(k, S, g, u, i) \in Seq(NodeType)
           /\ SchemaNode(Children[g][i], Children[g][i], Append(u, g)) \in NodeType
<1> DEFINE c == Children[g][i]
           v == Append(u, g)
           b == Found(k, S)
<1>1. c \in Objects /\ i \in DOMAIN Children[g]
  BY MembersAre
<1>2. v \in Seq(Objects)
  BY SmallSequences
<1> HIDE DEF c, v
<1>3. b[c, v] \in Seq(NodeType)
  <2>1. NodesOf(k, S, c, v) \in Seq(NodeType)
    BY <1>1, <1>2, BelowType
  <2> QED BY <2>1 DEF NodesOf
<1> HIDE DEF b
<1>4. Seen(k, b, c, v) \in Seq(NodeType) /\ SchemaNode(c, c, v) \in NodeType
  BY <1>1, <1>2, <1>3, PartType
<1> QED BY <1>1, <1>2, <1>3, <1>4 DEF Member, NodesOf, b, c, v

\* The nodes of the first members, one member more each time.
LEMMA PartsStep ==
    ASSUME NEW k, NEW S, NEW g \in Objects, NEW u \in Seq(Objects), NEW n \in Nat,
           n <= Len(Children[g])
    PROVE  /\ Parts(k, S, g, u, n) \in Seq(NodeType)
           /\ n = 0 => Parts(k, S, g, u, n) = <<>>
           /\ n # 0 => Parts(k, S, g, u, n) = Parts(k, S, g, u, n - 1) \o Member(k, S, g, u, n)
<1> DEFINE N == NodeType
           e == [i \in 1..Len(Children[g]) |-> Member(k, S, g, u, i)]
           s == [i \in 1..n |-> Member(k, S, g, u, i)]
           t == [i \in 1..(n - 1) |-> Member(k, S, g, u, i)]
<1>0. Len(Children[g]) \in Nat
  BY MembersAre
<1>1. /\ Parts(k, S, g, u, n) = FlattenSeq(s)
      /\ Parts(k, S, g, u, n - 1) = FlattenSeq(t)
  BY DEF Parts, Member
<1>2. \A i \in 1..Len(Children[g]) : e[i] \in Seq(N) /\ e[i] = Member(k, S, g, u, i)
  BY MemberType
<1>3. s = [i \in 1..n |-> e[i]] /\ t = [i \in 1..(n - 1) |-> e[i]]
  <2>1. \A i \in 1..n : i \in 1..Len(Children[g])
    BY <1>0
  <2>2. \A i \in 1..(n - 1) : i \in 1..n
    OBVIOUS
  <2>3. \A i \in 1..n : Member(k, S, g, u, i) = e[i]
    BY <1>2, <2>1
  <2> HIDE DEF e
  <2> QED BY <2>2, <2>3
<1> HIDE DEF N, e, s, t
<1>4. \A i \in 1..n : s[i] = e[i] /\ e[i] \in Seq(N)
  BY <1>0, <1>2, <1>3
<1>5. CASE n = 0
  <2>1. s = <<>>
    BY <1>3, <1>5
  <2>2. FlattenSeq(s) = <<>>
    BY <2>1 DEF FlattenSeq
  <2> QED BY <1>1, <1>5, <2>2, NoElements
<1>6. CASE n # 0
  <2> DEFINE m == n - 1
  <2>1. m \in Nat /\ m + 1 = n /\ \A i \in 1..(m + 1) : e[i] \in Seq(N)
    BY <1>4, <1>6
  <2>2. n \in 1..Len(Children[g])
    BY <1>0, <1>6
  <2> HIDE DEF m
  <2>3. /\ FlattenSeq([i \in 1..m |-> e[i]]) \in Seq(N)
        /\ FlattenSeq([i \in 1..(m + 1) |-> e[i]]) = FlattenSeq([i \in 1..m |-> e[i]]) \o e[m + 1]
    BY <2>1, FlattenStep
  <2>4. FlattenSeq(t) \in Seq(N) /\ FlattenSeq(s) = FlattenSeq(t) \o e[n]
    BY <1>3, <2>1, <2>3 DEF m
  <2>5. FlattenSeq(t) \o e[n] \in Seq(N)
    <3>1. e[n] \in Seq(N)
      BY <1>2, <2>2
    <3> QED BY <2>4, <3>1, ConcatElements
  <2>6. e[n] = Member(k, S, g, u, n)
    BY <1>2, <2>2
  <2> QED BY <1>1, <1>6, <2>4, <2>5, <2>6 DEF N
<1> QED BY <1>5, <1>6

\* What is below a group.
LEMMA BelowIs ==
    ASSUME NEW k, NEW S, NEW g \in Objects, NEW u \in Seq(Objects)
    PROVE  /\ g \in S \/ Children[g] = <<>> => NodesOf(k, S, g, u) = <<>>
           /\ g \notin S => NodesOf(k, S, g, u) = Parts(k, S, g, u, Len(Children[g]))
<1>1. <<g, u>> \in Positions
  BY DEF Positions
<1> DEFINE p == <<g, u>>
           b == Found(k, S)
<1>2. p[1] = g /\ p[2] = u
  OBVIOUS
<1> HIDE DEF p
<1>3. b[p] = BelowOf(k, S, b, p)
  BY <1>1, BelowFixed DEF p
<1>4. b[p] = IF g \in S THEN <<>>
             ELSE FlattenSeq([i \in DOMAIN Children[g] |->
                                 Seen(k, b, Children[g][i], Append(u, g))])
  BY <1>2, <1>3 DEF BelowOf
<1>5. DOMAIN Children[g] = 1..Len(Children[g])
  BY MembersAre
<1>6. g \notin S => b[p] = Parts(k, S, g, u, Len(Children[g]))
  BY <1>4, <1>5 DEF Parts
<1>7. ASSUME Children[g] = <<>>, g \notin S
      PROVE  b[p] = <<>>
  <2>1. Len(Children[g]) = 0
    BY <1>7
  <2>2. Parts(k, S, g, u, 0) = <<>>
    <3>1. 0 \in Nat /\ 0 <= Len(Children[g])
      BY <2>1
    <3> QED BY <3>1, PartsStep
  <2> QED BY <1>6, <1>7, <2>1, <2>2
<1> QED BY <1>4, <1>6, <1>7 DEF p, NodesOf

Agree(S, T, X) == \A o \in X : o \in S <=> o \in T

SameMembers(k, S, T, g, u, n) ==
    \A i \in 1..n : NodesOf(k, S, Children[g][i], Append(u, g))
                        = NodesOf(k, T, Children[g][i], Append(u, g))

\* What lies elsewhere changes nothing.
LEMMA PartsLocal ==
    ASSUME NEW k, NEW S, NEW T, NEW g \in Objects, NEW u \in Seq(Objects),
           NEW n, SameMembers(k, S, T, g, u, n)
    PROVE  Parts(k, S, g, u, n) = Parts(k, T, g, u, n)
<1>1. \A i \in 1..n : Seen(k, Found(k, S), Children[g][i], Append(u, g))
                          = Seen(k, Found(k, T), Children[g][i], Append(u, g))
  BY DEF Seen, SameMembers, NodesOf
<1>2. [i \in 1..n |-> Seen(k, Found(k, S), Children[g][i], Append(u, g))]
          = [i \in 1..n |-> Seen(k, Found(k, T), Children[g][i], Append(u, g))]
  BY <1>1
<1> QED BY <1>2 DEF Parts

\* The same for what is below a group.
LEMMA BelowLocal ==
    ASSUME NEW k, NEW S, NEW T, NEW g \in Objects, NEW u \in Seq(Objects),
           Agree(S, T, Subtree(g))
    PROVE  NodesOf(k, S, g, u) = NodesOf(k, T, g, u)
<1> DEFINE D == {o \in Subtree(g) :
                    \E v \in Seq(Objects) : NodesOf(k, S, o, v) # NodesOf(k, T, o, v)}
<1>1. D = {}
  <2> SUFFICES ASSUME D # {} PROVE FALSE
    OBVIOUS
  <2>1. D \in SUBSET Objects
    BY SubtreeFacts
  <2>2. PICK o \in D : \A i \in DOMAIN Children[o] : Children[o][i] \notin D
    <3> HIDE DEF D
    <3> QED BY <2>1, DeviceAssumption
  <2>3. PICK v \in Seq(Objects) : NodesOf(k, S, o, v) # NodesOf(k, T, o, v)
    BY <2>2
  <2>4. o \in Objects /\ o \in Subtree(g) /\ (o \in S <=> o \in T)
    BY <2>1, <2>2 DEF D, Agree
  <2> HIDE DEF D
  <2> DEFINE w == Append(v, o)
             n == Len(Children[o])
  <2>5. w \in Seq(Objects) /\ n \in Nat /\ DOMAIN Children[o] = 1..n
    BY <2>4, SmallSequences, MembersAre
  <2>6. \A i \in 1..n : NodesOf(k, S, Children[o][i], w) = NodesOf(k, T, Children[o][i], w)
    <3> TAKE i \in 1..n
    <3>1. Children[o][i] \in Subtree(g) /\ Children[o][i] \notin D
      BY <2>2, <2>4, <2>5, SubtreeOfMember
    <3> HIDE DEF w
    <3> QED BY <2>5, <3>1 DEF D
  <2>7. Parts(k, S, o, v, n) = Parts(k, T, o, v, n)
    <3>1. SameMembers(k, S, T, o, v, n)
      BY <2>6 DEF SameMembers
    <3> HIDE DEF n
    <3> QED BY <2>4, <3>1, PartsLocal
  <2>8. /\ o \in S => NodesOf(k, S, o, v) = <<>>
        /\ o \in T => NodesOf(k, T, o, v) = <<>>
        /\ o \notin S => NodesOf(k, S, o, v) = Parts(k, S, o, v, n)
        /\ o \notin T => NodesOf(k, T, o, v) = Parts(k, T, o, v, n)
    <3>1. v \in Seq(Objects) /\ o \in Objects
      BY <2>4
    <3> HIDE DEF n
    <3> QED BY <2>4, <3>1, BelowIs DEF n
  <2>9. CASE o \in S
    <3>1. o \in T
      BY <2>4, <2>9
    <3> QED BY <2>3, <2>8, <2>9, <3>1
  <2>10. CASE o \notin S
    <3>1. o \notin T
      BY <2>4, <2>10
    <3> QED BY <2>3, <2>7, <2>8, <2>10, <3>1
  <2> QED BY <2>9, <2>10
<1>2. g \in Subtree(g)
  BY SubtreeFacts
<1> QED BY <1>1, <1>2

NotBelow(x, g, n) == \A i \in 1..n : x \notin Subtree(Children[g][i])

\* A group that is none of those of the members, nor below them, adds nothing to them.
LEMMA PartsWithout ==
    ASSUME NEW k, NEW S, NEW x, NEW g \in Objects, NEW u \in Seq(Objects),
           NEW n \in Nat, n <= Len(Children[g]), NotBelow(x, g, n)
    PROVE  Parts(k, S \cup {x}, g, u, n) = Parts(k, S, g, u, n)
<1> DEFINE W == S \cup {x}
<1>1. \A i \in 1..n : NodesOf(k, W, Children[g][i], Append(u, g))
                          = NodesOf(k, S, Children[g][i], Append(u, g))
  <2> TAKE i \in 1..n
  <2> DEFINE c == Children[g][i]
             v == Append(u, g)
  <2>1. c \in Objects /\ v \in Seq(Objects)
    <3>1. DOMAIN Children[g] = 1..Len(Children[g]) /\ Len(Children[g]) \in Nat
      BY MembersAre
    <3> QED BY <3>1, MembersAre, SmallSequences
  <2>2. Agree(W, S, Subtree(c))
    BY DEF Agree, NotBelow
  <2> HIDE DEF c, v, W
  <2>3. NodesOf(k, W, c, v) = NodesOf(k, S, c, v)
    BY <2>1, <2>2, BelowLocal
  <2> QED BY <2>3 DEF c, v
<1> HIDE DEF W
<1>2. Parts(k, W, g, u, n) = Parts(k, S, g, u, n)
  <2>1. SameMembers(k, W, S, g, u, n)
    BY <1>1 DEF SameMembers
  <2> QED BY <2>1, PartsLocal
<1> QED BY <1>2 DEF W

\* Every node of a member is one of the group's.
LEMMA NodesOfMember ==
    ASSUME NEW k, NEW S, NEW g \in Objects, NEW u \in Seq(Objects), g \notin S,
           NEW i \in 1..Len(Children[g]), NEW j \in 1..Len(Member(k, S, g, u, i))
    PROVE  Contains(NodesOf(k, S, g, u), Member(k, S, g, u, i)[j])
<1> DEFINE n == Len(Children[g])
           x == Member(k, S, g, u, i)[j]
           P(m) == Parts(k, S, g, u, m)
           D == {m \in i..n : ~Contains(P(m), x)}
<1>0. n \in Nat /\ i \in Nat /\ i >= 1 /\ i <= n
  BY MembersAre
<1> HIDE DEF n
<1>1. D = {}
  <2> SUFFICES ASSUME D # {} PROVE FALSE
    OBVIOUS
  <2>1. D \in SUBSET Nat
    BY <1>0
  <2>2. PICK m \in D : \A l \in D : m <= l
    <3> HIDE DEF D
    <3> QED BY <2>1, Least
  <2>3. m \in Nat /\ m # 0 /\ m - 1 \in Nat /\ m <= n /\ m - 1 <= n /\ m \in 1..n /\ m >= i
    BY <1>0
  <2>4. /\ P(m) = P(m - 1) \o Member(k, S, g, u, m)
        /\ P(m - 1) \in Seq(NodeType) /\ Member(k, S, g, u, m) \in Seq(NodeType)
    BY <2>3, PartsStep, MemberType DEF n
  <2> DEFINE a == P(m - 1)
             b == Member(k, S, g, u, m)
  <2> HIDE DEF a, b, P
  <2>5. /\ Len(a \o b) = Len(a) + Len(b) /\ Len(a) \in Nat /\ Len(b) \in Nat
        /\ \A l \in 1..Len(a) : (a \o b)[l] = a[l]
        /\ \A l \in 1..Len(b) : (a \o b)[Len(a) + l] = b[l]
    <3>1. a \in Seq(NodeType) /\ b \in Seq(NodeType)
      BY <2>4 DEF a, b
    <3> HIDE DEF NodeType
    <3> QED BY <3>1, ConcatElements
  <2>6. CASE m = i
    <3>1. j \in 1..Len(b) /\ b[j] = x
      BY <2>6 DEF b
    <3>2. Len(a) + j \in 1..Len(a \o b) /\ (a \o b)[Len(a) + j] = x
      BY <2>5, <3>1
    <3>3. Contains(a \o b, x)
      BY <3>2 DEF Contains
    <3> QED BY <2>2, <2>4, <3>3 DEF a, b
  <2>7. CASE m # i
    <3>1. m - 1 \in i..n /\ m - 1 \notin D
      BY <1>0, <2>2, <2>3, <2>7
    <3>2. Contains(a, x)
      BY <3>1 DEF a
    <3>3. PICK l \in 1..Len(a) : a[l] = x
      BY <3>2 DEF Contains
    <3>4. l \in 1..Len(a \o b) /\ (a \o b)[l] = x
      BY <2>5, <3>3
    <3>5. Contains(a \o b, x)
      BY <3>4 DEF Contains
    <3> QED BY <2>2, <2>4, <3>5 DEF a, b
  <2> QED BY <2>6, <2>7
<1>2. Contains(P(n), x)
  <2>1. n \in i..n
    BY <1>0
  <2> HIDE DEF P
  <2> QED BY <1>1, <2>1
<1>3. NodesOf(k, S, g, u) = P(n)
  BY BelowIs DEF n
<1> QED BY <1>2, <1>3

(***************************************************************************)
(* The inductive invariant of the walk                                     *)
(***************************************************************************)
\* No response was late, and every line was one: whatever is asked is answered by its
\* own response, or by none.
Clean == late = 0 /\ ~odd

Walking == Asking \cup {"new", "walk"}

\* The ids and the metadata of the members of a group.
Kids(g)   == [i \in DOMAIN Children[g] |-> Id(Children[g][i])]
Labels(g) == [i \in DOMAIN Children[g] |-> Metadata(Children[g][i])]

\* The member that a call is under way for, and the groups that are above it.
At(k, f)     == IF k = "text" THEN f.i - 1 ELSE f.i
Callee(k, f) == Children[f.group.of][At(k, f)]
Deeper(f)    == Append(f.under, f.group.of)

\* A record, whose members the asynchronous client does not ask for.
Skips(k, o) == Type[o] = "record" /\ k = "async"

\* A frame that has what it asked for.
Entered(k, S, f) ==
    /\ f.group.of \notin S /\ f.ids = Kids(f.group.of)
    /\ k # "text" => f.md = Labels(f.group.of)

\* The frame f waits for its call of g, or goes through its members, or asks for them.
Suspended(k, S, f, g) ==
    /\ Entered(k, S, f)
    /\ f.walked = (k # "text")
    /\ At(k, f) \in 1..Len(Children[f.group.of])
    /\ ~Skips(k, Callee(k, f))
    /\ g.group = Id(Callee(k, f)) /\ g.under = Deeper(f)

Underway(k, S, f) ==
    /\ Entered(k, S, f)
    /\ f.i <= Len(Children[f.group.of]) + 1
    /\ f.walked => /\ k # "text" /\ f.i <= Len(Children[f.group.of])
                   /\ ~Skips(k, Children[f.group.of][f.i])

Asks(f, q) ==
    /\ f.i = 1 /\ ~f.walked
    /\ \/ q = IdsOf(f.group.of, Id(f.group.of)) /\ f.ids = <<>>
       \/ q = MetadataOf(f.group.of, Kids(f.group.of)) /\ f.ids = Kids(f.group.of)

\* Each frame of a stack is for a member of the group of the one before.
Chain(k, S, s) ==
    /\ s[1].group = Id(Root[k]) /\ s[1].under = <<>>
    /\ \A j \in 1..(Len(s) - 1) : Suspended(k, S, s[j], s[j + 1])
    /\ \A j \in 1..(Len(s) - 1) : \A m \in (j + 1)..Len(s) :
          s[m].group.of \in Subtree(Callee(k, s[j]))

StackTrue ==
    Clean /\ pc \in Walking /\ stack # <<>> =>
        /\ Chain(kind, spoilt, stack)
        /\ pc = "walk" => Underway(kind, spoilt, Top)
        /\ pc # "walk" => Asks(Top, request)

\* The members of a frame that are done with, and what lies below them.
Passed(k, s, j) ==
    IF j < Len(s) THEN At(k, s[j]) - 1
    ELSE IF s[j].walked THEN s[j].i ELSE s[j].i - 1

BelowPassed(k, s, o) ==
    \E j \in 1..Len(s) : \E m \in 1..Passed(k, s, j) :
        o \in Subtree(Children[s[j].group.of][m])

\* What was spoilt is what the walk is at, or behind it.
SpoiltTrue ==
    Clean /\ pc \in Walking /\ stack # <<>> =>
        \A o \in spoilt : o = Top.group.of \/ BelowPassed(kind, stack, o)

\* The nodes that a frame has made before its call, and while it has none under way.
Made(k, S, f) ==
    Parts(k, S, f.group.of, f.under, At(k, f) - 1)
        \o (IF k = "text" THEN <<SchemaNode(Callee(k, f), Callee(k, f), Deeper(f))>> ELSE <<>>)

MadeSoFar(k, S, f) ==
    Parts(k, S, f.group.of, f.under, f.i - 1)
        \o (IF f.walked THEN NodesOf(k, S, Children[f.group.of][f.i], Deeper(f)) ELSE <<>>)

\* Those that the first n frames have made.
MadeAbove(k, S, s, n) == FlattenSeq([j \in 1..n |-> Made(k, S, s[j])])

\* The tree that there is is the part of the device's up to where the walk is.
MadeTrue ==
    Clean =>
        /\ pc \in Walking /\ stack # <<>> =>
              tree = MadeAbove(kind, spoilt, stack, Len(stack) - 1) \o MadeSoFar(kind, spoilt, Top)
        /\ pc = "done" \/ (pc = "walk" /\ stack = <<>>) => tree = Traversal(kind, spoilt)

\* What a text client has when it has asked for the first n objects.
Got(S, n) ==
    FlattenSeq([i \in 1..n |->
        IF Gets[i] \in S THEN <<>> ELSE <<SchemaNode(Gets[i], Gets[i], <<>>)>>])

GetsTrue ==
    Clean /\ kind = "serial" /\ pc \in Asking \cup {"new"} =>
        \E m \in DOMAIN Gets :
            /\ request = GetOf(Gets[m]) /\ tree = Got(spoilt, m - 1)
            /\ \A o \in spoilt : \E i \in 1..m : o = Gets[i]

\* Something is on its way that will answer.
Proper(r) == r.form = "content"

Coming ==
    \/ asked # <<>>
    \/ \E i \in DOMAIN wire : Proper(wire[i])
    \/ \E i \in DOMAIN queue : Proper(queue[i])

ComingTrue ==
    Clean =>
        /\ pc \in {"new", "call"} => request.about \notin spoilt
        /\ pc = "wait" => (request.about \in spoilt <=> ~Coming)
        /\ pc \in {"join", "handle"} =>
              (request.about \in spoilt <=> ~(answer # None /\ Proper(answer)))

\* A CAN link is open while its client waits, and only a serial line has noise.
LinkTrue ==
    /\ kind = "can" /\ pc = "wait" => running /\ thread = "receive"
    /\ ~Serial => \A i \in DOMAIN wire : wire[i].to # None

\* After one late response the TCP client stays behind by one: it takes for its
\* metadata the response to the request for ids.
Lagging == kind = "tcp" /\ late = 1 /\ spoilt = {}

LagTrue ==
    Lagging =>
        /\ pc = "wait" => \E a, b \in Answered(Trail) :
              a < b /\ (request.what = "metadata" => Trail[a].what = "ids")
        /\ pc # "wait" => Answered(Trail) # {}
        /\ pc \in {"join", "handle"} /\ request.what = "metadata" /\ answer # None
              => answer.to.what = "ids"

\* Every node of a is one of b.
Among(a, b) == \A i \in DOMAIN a : Contains(b, a[i])

\* What a frame will make belongs to the tree, if its metadata are those of its members.
Placed(k, f) ==
    /\ Among(NodesOf(k, {}, f.group.of, f.under), Traversal(k, {}))
    /\ \A i \in DOMAIN f.md : f.md[i].is = "metadata" /\ i \in DOMAIN f.ids
                                 => f.ids = Kids(f.group.of)

\* The nodes that the TCP client has made, and those it may make.
Sound == kind = "tcp" /\ late <= 1 /\ spoilt = {}

PlacedTrue ==
    Sound => /\ Among(tree, Traversal(kind, {}))
             /\ \A j \in DOMAIN stack : Placed(kind, stack[j])

WInv == LinkTrue /\ ComingTrue /\ StackTrue /\ SpoiltTrue /\ MadeTrue /\ GetsTrue
            /\ LagTrue /\ PlacedTrue

(***************************************************************************)
(* Frames                                                                  *)
(***************************************************************************)
\* What the frames of a stack are.
LEMMA FrameFacts ==
    ASSUME NEW f \in FrameType
    PROVE  /\ f.group \in Elements /\ f.group.of \in Objects /\ f.under \in Seq(Objects)
           /\ f.i \in Nat /\ f.i >= 1 /\ f.walked \in BOOLEAN
           /\ f.ids \in Seq(Elements) /\ f.md \in Seq(Elements)
           /\ Deeper(f) \in Seq(Objects)
           /\ Len(Children[f.group.of]) \in Nat
           /\ DOMAIN Children[f.group.of] = 1..Len(Children[f.group.of])
<1>1. /\ f.group \in Elements /\ f.under \in Seq(Objects)
      /\ f.i \in Nat /\ f.i >= 1 /\ f.walked \in BOOLEAN
      /\ f.ids \in Seq(Elements) /\ f.md \in Seq(Elements)
  BY DEF FrameType
<1>2. f.group.of \in Objects
  BY <1>1 DEF Elements
<1>3. Deeper(f) \in Seq(Objects)
  BY <1>1, <1>2, SmallSequences DEF Deeper
<1> QED BY <1>1, <1>2, <1>3, MembersAre

\* What a frame waits for.
LEMMA SuspendedFacts ==
    ASSUME NEW k, NEW S, NEW f \in FrameType, NEW g \in FrameType, Suspended(k, S, f, g)
    PROVE  /\ At(k, f) \in DOMAIN Children[f.group.of] /\ At(k, f) \in Nat /\ At(k, f) >= 1
           /\ At(k, f) <= Len(Children[f.group.of])
           /\ Callee(k, f) \in Objects /\ g.group.of = Callee(k, f) /\ g.group.is = "id"
           /\ Callee(k, f) \in Subtree(Callee(k, f))
           /\ f.group.of \notin Subtree(Callee(k, f))
           /\ \A i \in 1..(At(k, f) - 1) :
                 /\ i \in DOMAIN Children[f.group.of] /\ Children[f.group.of][i] \in Objects
                 /\ Subtree(Callee(k, f)) \cap Subtree(Children[f.group.of][i]) = {}
<1> DEFINE p == f.group.of
           a == At(k, f)
<1>1. /\ p \in Objects /\ Len(Children[p]) \in Nat
      /\ DOMAIN Children[p] = 1..Len(Children[p])
  BY FrameFacts
<1>2. a \in DOMAIN Children[p] /\ Callee(k, f) = Children[p][a] /\ g.group = Id(Callee(k, f))
  BY <1>1 DEF Suspended, Callee
<1> HIDE DEF p, a
<1>3. Callee(k, f) \in Objects /\ p \notin Subtree(Callee(k, f)) /\ a \in Nat /\ a >= 1
      /\ a <= Len(Children[p])
  BY <1>1, <1>2, MembersAre, NoCycle
<1>4. Callee(k, f) \in Subtree(Callee(k, f))
  BY <1>3, SubtreeFacts
<1>5. ASSUME NEW i \in 1..(a - 1)
      PROVE  /\ i \in DOMAIN Children[p] /\ Children[p][i] \in Objects
             /\ Subtree(Callee(k, f)) \cap Subtree(Children[p][i]) = {}
  <2>1. i \in DOMAIN Children[p] /\ i # a
    BY <1>1, <1>3
  <2>2. Children[p][i] \in Objects
    BY <1>1, <2>1, MembersAre
  <2>3. Subtree(Children[p][a]) \cap Subtree(Children[p][i]) = {}
    BY <1>1, <1>2, <2>1, SiblingsApart
  <2> QED BY <1>2, <2>1, <2>2, <2>3
<1>6. g.group.of = Callee(k, f) /\ g.group.is = "id"
  BY <1>2 DEF Id
<1> QED BY <1>2, <1>3, <1>4, <1>5, <1>6 DEF p, a

\* The frames of a chain, two by two.
LEMMA ChainFacts ==
    ASSUME NEW k, NEW S, NEW s \in Seq(FrameType), s # <<>>, Chain(k, S, s)
    PROVE  /\ Len(s) \in Nat /\ Len(s) >= 1 /\ Last(s) = s[Len(s)]
           /\ \A j \in 1..Len(s) : s[j] \in FrameType
           /\ \A j \in 1..(Len(s) - 1) :
                 /\ j \in 1..Len(s) /\ j + 1 \in 1..Len(s) /\ Len(s) \in (j + 1)..Len(s)
                 /\ Suspended(k, S, s[j], s[j + 1])
                 /\ \A m \in (j + 1)..Len(s) : s[m].group.of \in Subtree(Callee(k, s[j]))
                 /\ Last(s).group.of \in Subtree(Callee(k, s[j]))
           /\ Last(s).group = Id(Last(s).group.of)
<1>1. /\ Len(s) \in Nat /\ Len(s) >= 1 /\ Last(s) = s[Len(s)]
      /\ \A j \in 1..Len(s) : s[j] \in FrameType
  BY DEF Last
<1>2. ASSUME NEW j \in 1..(Len(s) - 1)
      PROVE  /\ j \in 1..Len(s) /\ j + 1 \in 1..Len(s) /\ Len(s) \in (j + 1)..Len(s)
             /\ Suspended(k, S, s[j], s[j + 1])
             /\ \A m \in (j + 1)..Len(s) : s[m].group.of \in Subtree(Callee(k, s[j]))
             /\ s[Len(s)].group.of \in Subtree(Callee(k, s[j]))
  <2>1. j \in 1..Len(s) /\ j + 1 \in 1..Len(s) /\ Len(s) \in (j + 1)..Len(s)
    BY <1>1
  <2> QED BY <2>1 DEF Chain
<1>3. Last(s).group = Id(Last(s).group.of)
  <2>1. CASE Len(s) = 1
    <3>1. s[1].group = Id(Root[k])
      BY DEF Chain
    <3> QED BY <1>1, <2>1, <3>1 DEF Id
  <2>2. CASE Len(s) # 1
    <3> DEFINE j == Len(s) - 1
    <3>1. j \in 1..(Len(s) - 1) /\ j + 1 = Len(s)
      <4>1. \A n \in Nat : n >= 1 /\ n # 1 => n - 1 \in 1..(n - 1) /\ (n - 1) + 1 = n
        OBVIOUS
      <4> QED BY <1>1, <2>2, <4>1
    <3> HIDE DEF j
    <3>2. Suspended(k, S, s[j], s[j + 1])
      BY <1>2, <3>1
    <3> QED BY <1>1, <3>1, <3>2 DEF Suspended, Id
  <2> QED BY <2>1, <2>2
<1> QED BY <1>1, <1>2, <1>3

\* Another frame in the place of the innermost one, one more, or one less.
Replaced(s, t, f) ==
    Len(t) = Len(s) /\ t[Len(s)] = f /\ \A j \in 1..(Len(s) - 1) : t[j] = s[j]

Pushed(s, t, f, g) ==
    /\ Len(t) = Len(s) + 1 /\ t[Len(s)] = f /\ t[Len(s) + 1] = g
    /\ \A j \in 1..(Len(s) - 1) : t[j] = s[j]

Popped(s, t) == Len(t) = Len(s) - 1 /\ \A j \in 1..(Len(s) - 1) : t[j] = s[j]

SameGroup(f, g) == f.group = g.group /\ f.under = g.under

\* A chain stays one if another frame for the same group takes the innermost place,
LEMMA ChainReplaced ==
    ASSUME NEW k, NEW S, NEW s \in Seq(FrameType), s # <<>>, Chain(k, S, s),
           NEW t \in Seq(FrameType), NEW f \in FrameType, Replaced(s, t, f), SameGroup(f, Last(s))
    PROVE  Chain(k, S, t)
<1>1. /\ Len(s) \in Nat /\ Len(s) >= 1 /\ Last(s) = s[Len(s)] /\ Len(t) = Len(s)
      /\ t[Len(s)] = f /\ \A j \in 1..(Len(s) - 1) : t[j] = s[j]
  BY ChainFacts DEF Replaced
<1>2. \A j \in 1..Len(s) : t[j].group = s[j].group /\ t[j].under = s[j].under
  BY <1>1 DEF SameGroup
<1>3. t[1].group = Id(Root[k]) /\ t[1].under = <<>>
  BY <1>1, <1>2 DEF Chain
<1>4. ASSUME NEW j \in 1..(Len(s) - 1)
      PROVE  /\ Suspended(k, S, t[j], t[j + 1])
             /\ \A m \in (j + 1)..Len(s) : t[m].group.of \in Subtree(Callee(k, t[j]))
  <2>1. /\ Suspended(k, S, s[j], s[j + 1]) /\ j + 1 \in 1..Len(s)
        /\ \A m \in (j + 1)..Len(s) : s[m].group.of \in Subtree(Callee(k, s[j]))
    BY ChainFacts
  <2>2. t[j] = s[j] /\ t[j + 1].group = s[j + 1].group /\ t[j + 1].under = s[j + 1].under
    BY <1>1, <1>2, <2>1
  <2>3. Suspended(k, S, t[j], t[j + 1])
    BY <2>1, <2>2 DEF Suspended
  <2>4. \A m \in (j + 1)..Len(s) : t[m].group = s[m].group
    BY <1>1, <1>2
  <2> QED BY <2>1, <2>2, <2>3, <2>4
<1> QED BY <1>1, <1>3, <1>4 DEF Chain

\* if it calls for the member that it is at,
LEMMA ChainPushed ==
    ASSUME NEW k, NEW S, NEW s \in Seq(FrameType), s # <<>>, Chain(k, S, s),
           NEW t \in Seq(FrameType), NEW f \in FrameType, NEW g \in FrameType,
           Pushed(s, t, f, g), SameGroup(f, Last(s)), Suspended(k, S, f, g)
    PROVE  Chain(k, S, t)
<1> DEFINE n == Len(s)
<1>1. /\ n \in Nat /\ n >= 1 /\ Last(s) = s[n] /\ Len(t) = n + 1
      /\ t[n] = f /\ t[n + 1] = g /\ \A j \in 1..(n - 1) : t[j] = s[j]
  BY ChainFacts DEF Pushed
<1>2. \A j \in 1..n : t[j].group = s[j].group /\ t[j].under = s[j].under
  BY <1>1 DEF SameGroup
<1>3. t[1].group = Id(Root[k]) /\ t[1].under = <<>>
  BY <1>1, <1>2 DEF Chain
<1>4. /\ g.group.of = Callee(k, f) /\ Callee(k, f) \in Objects
      /\ Callee(k, f) \in Subtree(Callee(k, f)) /\ At(k, f) \in DOMAIN Children[f.group.of]
  BY SuspendedFacts
<1>5. ASSUME NEW j \in 1..n
      PROVE  /\ Suspended(k, S, t[j], t[j + 1])
             /\ \A m \in (j + 1)..(n + 1) : t[m].group.of \in Subtree(Callee(k, t[j]))
  <2>1. CASE j = n
    <3>1. \A m \in (j + 1)..(n + 1) : m = n + 1
      BY <1>1, <2>1
    <3> QED BY <1>1, <1>4, <2>1, <3>1
  <2>2. CASE j # n
    <3>0. j \in 1..(n - 1)
      BY <1>1, <2>2
    <3>1. /\ Suspended(k, S, s[j], s[j + 1]) /\ j + 1 \in 1..n
          /\ \A m \in (j + 1)..n : s[m].group.of \in Subtree(Callee(k, s[j]))
          /\ Last(s).group.of \in Subtree(Callee(k, s[j]))
          /\ s[j] \in FrameType /\ s[j + 1] \in FrameType
      BY <3>0, ChainFacts
    <3>2. t[j] = s[j] /\ t[j + 1].group = s[j + 1].group /\ t[j + 1].under = s[j + 1].under
      BY <1>1, <1>2, <3>0, <3>1
    <3>3. Suspended(k, S, t[j], t[j + 1])
      BY <3>1, <3>2 DEF Suspended
    <3>4. \A m \in (j + 1)..n : t[m].group = s[m].group
      BY <1>1, <1>2
    <3>5. Callee(k, s[j]) \in Objects
      BY <3>1, SuspendedFacts
    <3>6. g.group.of \in Subtree(Callee(k, s[j]))
      <4>1. f.group.of \in Subtree(Callee(k, s[j]))
        BY <3>1 DEF SameGroup
      <4> QED BY <1>4, <3>5, <4>1, SubtreeOfMember DEF Callee
    <3>7. \A m \in (j + 1)..(n + 1) : m \in (j + 1)..n \/ m = n + 1
      BY <1>1
    <3> QED BY <1>1, <3>1, <3>2, <3>3, <3>4, <3>6, <3>7
  <2> QED BY <2>1, <2>2
<1>6. Len(t) - 1 = n
  BY <1>1
<1> HIDE DEF n
<1> QED BY <1>1, <1>3, <1>5, <1>6 DEF Chain

\* and if a call returns.
LEMMA ChainPopped ==
    ASSUME NEW k, NEW S, NEW s \in Seq(FrameType), s # <<>>, Chain(k, S, s),
           NEW t \in Seq(FrameType), Popped(s, t), t # <<>>
    PROVE  /\ Chain(k, S, t) /\ Last(t) = s[Len(s) - 1] /\ Len(s) - 1 \in 1..(Len(s) - 1)
           /\ Suspended(k, S, Last(t), Last(s))
<1> DEFINE n == Len(s)
<1>1. /\ n \in Nat /\ n >= 1 /\ Last(s) = s[n] /\ Len(t) = n - 1 /\ Len(t) \in Nat
      /\ \A j \in 1..(n - 1) : t[j] = s[j]
  BY ChainFacts DEF Popped
<1>2. n - 1 >= 1 /\ n - 1 \in 1..(n - 1) /\ (n - 1) + 1 = n /\ Last(t) = s[n - 1]
  BY <1>1 DEF Last
<1>3. t[1].group = Id(Root[k]) /\ t[1].under = <<>>
  BY <1>1, <1>2 DEF Chain
<1>4. ASSUME NEW j \in 1..(Len(t) - 1)
      PROVE  /\ Suspended(k, S, t[j], t[j + 1])
             /\ \A m \in (j + 1)..Len(t) : t[m].group.of \in Subtree(Callee(k, t[j]))
  <2>1. j \in 1..(n - 1) /\ j + 1 \in 1..(n - 1)
        /\ \A m \in (j + 1)..Len(t) : m \in (j + 1)..n /\ m \in 1..(n - 1)
    BY <1>1
  <2>2. /\ Suspended(k, S, s[j], s[j + 1])
        /\ \A m \in (j + 1)..n : s[m].group.of \in Subtree(Callee(k, s[j]))
    BY <2>1, ChainFacts
  <2> QED BY <1>1, <2>1, <2>2
<1>5. Suspended(k, S, s[n - 1], s[n])
  BY <1>2, ChainFacts
<1> QED BY <1>1, <1>2, <1>3, <1>4, <1>5 DEF Chain

\* The nodes a frame has made.
LEMMA MadeType ==
    ASSUME NEW k, NEW S, NEW f \in FrameType, NEW g \in FrameType, Suspended(k, S, f, g)
    PROVE  Made(k, S, f) \in Seq(NodeType)
<1> DEFINE p == f.group.of
           a == At(k, f)
           c == Callee(k, f)
           d == Deeper(f)
           rest == IF k = "text" THEN <<SchemaNode(c, c, d)>> ELSE <<>>
<1>1. /\ p \in Objects /\ f.under \in Seq(Objects) /\ d \in Seq(Objects)
      /\ a \in Nat /\ a >= 1 /\ a <= Len(Children[p]) /\ c \in Objects
      /\ Len(Children[p]) \in Nat
  BY FrameFacts, SuspendedFacts
<1> HIDE DEF p, a, c, d
<1>2. a - 1 \in Nat /\ a - 1 <= Len(Children[p])
  BY <1>1
<1>3. Parts(k, S, p, f.under, a - 1) \in Seq(NodeType)
  BY <1>1, <1>2, PartsStep
<1>4. SchemaNode(c, c, d) \in NodeType
  BY <1>1 DEF SchemaNode, NodeType
<1>5. rest \in Seq(NodeType)
  BY <1>4, SmallSequences
<1> HIDE DEF rest
<1>6. Parts(k, S, p, f.under, a - 1) \o rest \in Seq(NodeType)
  BY <1>3, <1>5, ConcatElements
<1> QED BY <1>6 DEF Made, p, a, c, d, rest

\* Those that the frames above the innermost one have made.
LEMMA MadeAboveStep ==
    ASSUME NEW k, NEW S, NEW s \in Seq(FrameType), s # <<>>, Chain(k, S, s),
           NEW n \in 0..(Len(s) - 1)
    PROVE  /\ MadeAbove(k, S, s, n) \in Seq(NodeType)
           /\ n = 0 => MadeAbove(k, S, s, n) = <<>>
           /\ n # 0 => /\ Made(k, S, s[n]) \in Seq(NodeType)
                       /\ MadeAbove(k, S, s, n) = MadeAbove(k, S, s, n - 1) \o Made(k, S, s[n])
<1> DEFINE N == NodeType
           e == [j \in 1..(Len(s) - 1) |-> Made(k, S, s[j])]
<1>0. Len(s) \in Nat /\ Len(s) >= 1 /\ n \in Nat
  BY ChainFacts
<1>1. \A j \in 1..(Len(s) - 1) : Made(k, S, s[j]) \in Seq(N)
  <2> TAKE j \in 1..(Len(s) - 1)
  <2>1. Suspended(k, S, s[j], s[j + 1]) /\ s[j] \in FrameType /\ s[j + 1] \in FrameType
    BY ChainFacts
  <2> QED BY <2>1, MadeType
<1>2. \A j \in 1..n : j \in 1..(Len(s) - 1)
  BY <1>0
<1>3. \A j \in 1..n : e[j] = Made(k, S, s[j]) /\ e[j] \in Seq(N)
  BY <1>1, <1>2
<1> HIDE DEF N, e
<1>4. [j \in 1..n |-> Made(k, S, s[j])] = [j \in 1..n |-> e[j]]
  BY <1>3
<1>5. CASE n = 0
  <2>1. [j \in 1..n |-> e[j]] = <<>>
    BY <1>5
  <2>2. MadeAbove(k, S, s, n) = <<>>
    BY <1>4, <2>1 DEF MadeAbove, FlattenSeq
  <2> QED BY <1>5, <2>2, NoElements
<1>6. CASE n # 0
  <2> DEFINE m == n - 1
  <2>1. m \in Nat /\ m + 1 = n /\ n \in 1..n
    BY <1>0, <1>6
  <2>2. \A j \in 1..m : j \in 1..n
    BY <2>1
  <2>3. [j \in 1..m |-> Made(k, S, s[j])] = [j \in 1..m |-> e[j]]
    <3> HIDE DEF m
    <3> QED BY <1>3, <2>2
  <2>4. MadeAbove(k, S, s, n - 1) = FlattenSeq([j \in 1..m |-> e[j]])
    BY <2>3 DEF MadeAbove
  <2>5. MadeAbove(k, S, s, n) = FlattenSeq([j \in 1..(m + 1) |-> e[j]])
    BY <1>4, <2>1 DEF MadeAbove
  <2> HIDE DEF m
  <2>6. /\ FlattenSeq([i \in 1..m |-> e[i]]) \in Seq(N)
        /\ FlattenSeq([i \in 1..(m + 1) |-> e[i]]) = FlattenSeq([i \in 1..m |-> e[i]]) \o e[m + 1]
    <3>1. \A j \in 1..(m + 1) : e[j] \in Seq(N)
      BY <1>3, <2>1
    <3> QED BY <2>1, <3>1, FlattenStep
  <2>7. e[n] = Made(k, S, s[n]) /\ e[n] \in Seq(N)
    BY <1>3, <2>1
  <2>8. MadeAbove(k, S, s, n) \in Seq(N)
    <3>1. FlattenSeq([i \in 1..m |-> e[i]]) \o e[n] \in Seq(N)
      BY <2>6, <2>7, ConcatElements
    <3> QED BY <2>1, <2>5, <2>6, <3>1
  <2> QED BY <1>6, <2>1, <2>4, <2>5, <2>6, <2>7, <2>8 DEF N
<1> QED BY <1>5, <1>6

SamePrefix(s, t, n) == \A j \in 1..n : t[j] = s[j]

\* What frames have made depends on them alone.
LEMMA MadeAboveSame ==
    ASSUME NEW k, NEW S, NEW s, NEW t, NEW n, SamePrefix(s, t, n)
    PROVE  MadeAbove(k, S, t, n) = MadeAbove(k, S, s, n)
<1>1. \A j \in 1..n : Made(k, S, t[j]) = Made(k, S, s[j])
  BY DEF SamePrefix
<1>2. [j \in 1..n |-> Made(k, S, t[j])] = [j \in 1..n |-> Made(k, S, s[j])]
  BY <1>1
<1> QED BY <1>2 DEF MadeAbove

\* What happens to the object the walk is at changes nothing that was made.
LEMMA MadeWithout ==
    ASSUME NEW k, NEW S, NEW x, NEW f \in FrameType, NEW g \in FrameType,
           Suspended(k, S, f, g), x \in Subtree(Callee(k, f))
    PROVE  /\ Suspended(k, S \cup {x}, f, g)
           /\ Made(k, S \cup {x}, f) = Made(k, S, f)
<1> DEFINE p == f.group.of
           m == At(k, f) - 1
<1>1. /\ p \in Objects /\ f.under \in Seq(Objects) /\ Len(Children[p]) \in Nat
      /\ At(k, f) \in Nat /\ At(k, f) >= 1 /\ At(k, f) <= Len(Children[p])
      /\ p \notin Subtree(Callee(k, f))
      /\ \A i \in 1..m : Subtree(Callee(k, f)) \cap Subtree(Children[p][i]) = {}
  BY FrameFacts, SuspendedFacts
<1>2. m \in Nat /\ m <= Len(Children[p])
  BY <1>1
<1> HIDE DEF p, m
<1>3. NotBelow(x, p, m)
  BY <1>1 DEF NotBelow
<1>4. Parts(k, S \cup {x}, p, f.under, m) = Parts(k, S, p, f.under, m)
  BY <1>1, <1>2, <1>3, PartsWithout
<1>5. Made(k, S \cup {x}, f) = Made(k, S, f)
  BY <1>4 DEF Made, p, m
<1>6. p \notin S \cup {x}
  BY <1>1 DEF Suspended, Entered, p
<1> QED BY <1>5, <1>6 DEF Suspended, Entered, p

\* So does the chain stay one.
LEMMA ChainSpoilt ==
    ASSUME NEW k, NEW S, NEW s \in Seq(FrameType), s # <<>>, Chain(k, S, s),
           NEW x, x = Last(s).group.of
    PROVE  /\ Chain(k, S \cup {x}, s)
           /\ MadeAbove(k, S \cup {x}, s, Len(s) - 1) = MadeAbove(k, S, s, Len(s) - 1)
<1> DEFINE T == S \cup {x}
<1>1. ASSUME NEW j \in 1..(Len(s) - 1)
      PROVE  Suspended(k, T, s[j], s[j + 1]) /\ Made(k, T, s[j]) = Made(k, S, s[j])
  <2>1. /\ Suspended(k, S, s[j], s[j + 1]) /\ s[j] \in FrameType /\ s[j + 1] \in FrameType
        /\ x \in Subtree(Callee(k, s[j]))
    BY ChainFacts
  <2> QED BY <2>1, MadeWithout
<1> HIDE DEF T
<1>2. Chain(k, T, s)
  BY <1>1 DEF Chain
<1>3. [j \in 1..(Len(s) - 1) |-> Made(k, T, s[j])] = [j \in 1..(Len(s) - 1) |-> Made(k, S, s[j])]
  BY <1>1
<1>4. MadeAbove(k, T, s, Len(s) - 1) = MadeAbove(k, S, s, Len(s) - 1)
  BY <1>3 DEF MadeAbove
<1> QED BY <1>2, <1>4 DEF T

\* A frame that asks has made nothing yet.
LEMMA MadeByNone ==
    ASSUME NEW k, NEW S, NEW f \in FrameType, f.i = 1, ~f.walked
    PROVE  MadeSoFar(k, S, f) = <<>>
<1>1. f.group.of \in Objects /\ f.under \in Seq(Objects) /\ Len(Children[f.group.of]) \in Nat
  BY FrameFacts
<1>2. Parts(k, S, f.group.of, f.under, 0) = <<>>
  <2>1. 0 \in Nat /\ 0 <= Len(Children[f.group.of])
    BY <1>1
  <2> QED BY <1>1, <2>1, PartsStep
<1> QED BY <1>2 DEF MadeSoFar

\* A frame that has gone through its members has made what is below its group.
LEMMA MadeByAll ==
    ASSUME NEW k, NEW S, NEW f \in FrameType, Underway(k, S, f), f.i > Len(f.ids)
    PROVE  MadeSoFar(k, S, f) = NodesOf(k, S, f.group.of, f.under)
<1> DEFINE p == f.group.of
           n == Len(Children[p])
<1>1. /\ p \in Objects /\ f.under \in Seq(Objects) /\ n \in Nat /\ f.i \in Nat
      /\ DOMAIN Children[p] = 1..n
  BY FrameFacts
<1>2. p \notin S /\ f.ids = Kids(p) /\ f.i <= n + 1 /\ (f.walked => f.i <= n)
  BY DEF Underway, Entered
<1> HIDE DEF n, p
<1>3. Len(Kids(p)) = n
  BY <1>1 DEF Kids
<1>4. f.i = n + 1 /\ ~f.walked
  BY <1>1, <1>2, <1>3
<1>5. Parts(k, S, p, f.under, n) \in Seq(NodeType)
  <2>1. n <= Len(Children[p])
    BY <1>1 DEF n
  <2> QED BY <1>1, <2>1, PartsStep
<1>6. NodesOf(k, S, p, f.under) = Parts(k, S, p, f.under, n)
  BY <1>1, <1>2, BelowIs DEF n
<1>7. f.i - 1 = n
  BY <1>1, <1>4
<1> QED BY <1>4, <1>5, <1>6, <1>7, ConcatEmptySeq DEF MadeSoFar, p

\* The nodes of the member that a frame is at, when those below it are made.
LEMMA MemberIs ==
    ASSUME NEW k, NEW S, NEW g \in Objects, NEW u \in Seq(Objects), NEW i \in 1..Len(Children[g])
    PROVE  LET o == Children[g][i]
               below == NodesOf(k, S, o, Append(u, g))
               node == SchemaNode(o, o, Append(u, g))
           IN  /\ below \in Seq(NodeType) /\ node \in NodeType
               /\ ~Skips(k, o) => Member(k, S, g, u, i) = IF k = "text" THEN <<node>> \o below
                                                          ELSE below \o <<node>>
               /\ (Skips(k, o) \/ below = <<>>) /\ k # "text" => Member(k, S, g, u, i) = <<node>>
<1> DEFINE o == Children[g][i]
           below == NodesOf(k, S, o, Append(u, g))
           node == SchemaNode(o, o, Append(u, g))
<1>1. below \in Seq(NodeType) /\ node \in NodeType
  BY MemberType DEF NodesOf
<1>2. Member(k, S, g, u, i) =
        LET rest == IF Skips(k, o) THEN <<>> ELSE below
        IN  IF k = "text" THEN <<node>> \o rest ELSE rest \o <<node>>
  BY DEF Member, Seen, Skips, NodesOf
<1> HIDE DEF o, below, node
<1>3. <<>> \o <<node>> = <<node>>
  <2>1. <<node>> \in Seq(NodeType)
    BY <1>1, SmallSequences
  <2> QED BY <2>1, ConcatEmptySeq
<1> QED BY <1>1, <1>2, <1>3 DEF o, below, node

(***************************************************************************)
(* What is under way                                                       *)
(***************************************************************************)
\* Where the responses under way are, if every line was one.
LEMMA TrailElements ==
    ASSUME Simple, PiecesOK, ~odd
    PROVE  /\ Len(queue) \in Nat /\ Len(wire) \in Nat /\ Len(asked) \in Nat
           /\ DOMAIN queue = 1..Len(queue) /\ DOMAIN wire = 1..Len(wire)
           /\ DOMAIN asked = 1..Len(asked)
           /\ \A i \in 1..Len(queue) :
                 i \in Answered(Trail) /\ Trail[i] = queue[i].to /\ queue[i] \in Parsed
           /\ \A i \in 1..Len(wire) :
                 /\ Trail[Len(queue) + i] = wire[i].to /\ wire[i] \in OnWire
                 /\ wire[i].to # None => Len(queue) + i \in Answered(Trail)
           /\ \A i \in 1..Len(asked) :
                 LET j == Len(queue) + Len(wire) + i
                 IN  j \in Answered(Trail) /\ Trail[j] = asked[i] /\ asked[i] \in Questions
           /\ \A i \in Answered(Trail) :
                 \/ i \in 1..Len(queue)
                 \/ \E j \in 1..Len(wire) : wire[j].to # None /\ i = Len(queue) + j
                 \/ \E j \in 1..Len(asked) : i = Len(queue) + Len(wire) + j
<1> DEFINE x == To(queue)
           y == To(wire)
           a == asked
           z == x \o y
           P == z \o a
<1>1. /\ queue \in Seq(Parsed) /\ wire \in Seq(OnWire) /\ a \in Seq(Questions)
      /\ queue \in Seq(Sent) /\ wire \in Seq(Sent) /\ a \in Seq(Asked)
  BY TrailFacts DEF Simple
<1>2. /\ x \in Seq(Asked) /\ Len(x) = Len(queue) /\ \A i \in 1..Len(queue) : x[i] = queue[i].to
      /\ y \in Seq(Asked) /\ Len(y) = Len(wire) /\ \A i \in 1..Len(wire) : y[i] = wire[i].to
  BY <1>1, ToFacts
<1>3. /\ Len(queue) \in Nat /\ Len(wire) \in Nat /\ Len(a) \in Nat
      /\ DOMAIN queue = 1..Len(queue) /\ DOMAIN wire = 1..Len(wire) /\ DOMAIN a = 1..Len(a)
      /\ \A i \in 1..Len(queue) : queue[i] \in Parsed
      /\ \A i \in 1..Len(wire) : wire[i] \in OnWire
      /\ \A i \in 1..Len(a) : a[i] \in Questions
  BY <1>1
<1>4. Trail = P
  BY DEF Trail, Line
<1> HIDE DEF x, y, a
<1>5. /\ z \in Seq(Asked) /\ Len(z) = Len(x) + Len(y)
      /\ \A i \in 1..Len(x) : z[i] = x[i]
      /\ \A i \in 1..Len(y) : z[Len(x) + i] = y[i]
  <2>1. x \in Seq(Asked) /\ y \in Seq(Asked)
    BY <1>2
  <2> QED BY <2>1, ConcatElements
<1> HIDE DEF z
<1>6. /\ P \in Seq(Asked) /\ Len(P) = Len(z) + Len(a)
      /\ \A i \in 1..Len(z) : P[i] = z[i]
      /\ \A i \in 1..Len(a) : P[Len(z) + i] = a[i]
  <2>1. z \in Seq(Asked) /\ a \in Seq(Asked)
    BY <1>1, <1>5
  <2> QED BY <2>1, ConcatElements
<1> HIDE DEF P
<1>7. DOMAIN P = 1..(Len(queue) + Len(wire) + Len(a))
  BY <1>2, <1>3, <1>5, <1>6
<1>8. ASSUME NEW i \in 1..Len(queue)
      PROVE  i \in Answered(P) /\ P[i] = queue[i].to
  <2>1. i \in 1..Len(x) /\ i \in 1..Len(z)
    BY <1>2, <1>3, <1>5
  <2>2. P[i] = queue[i].to
    BY <1>2, <1>5, <1>6, <2>1
  <2>3. queue[i].to # None
    BY <1>3 DEF PiecesOK
  <2>4. i \in DOMAIN P
    BY <1>3, <1>7
  <2> QED BY <2>2, <2>3, <2>4 DEF Answered
<1>9. ASSUME NEW i \in 1..Len(wire)
      PROVE  /\ P[Len(queue) + i] = wire[i].to
             /\ wire[i].to # None => Len(queue) + i \in Answered(P)
  <2>1. i \in 1..Len(y) /\ Len(x) + i \in 1..Len(z) /\ Len(x) = Len(queue)
    BY <1>2, <1>3, <1>5
  <2>2. P[Len(queue) + i] = wire[i].to
    BY <1>2, <1>5, <1>6, <2>1
  <2>3. Len(queue) + i \in DOMAIN P
    BY <1>3, <1>7
  <2> QED BY <2>2, <2>3 DEF Answered
<1>10. ASSUME NEW i \in 1..Len(a)
       PROVE  LET j == Len(queue) + Len(wire) + i
              IN  j \in Answered(P) /\ P[j] = a[i]
  <2> DEFINE j == Len(queue) + Len(wire) + i
  <2>1. j = Len(z) + i
    BY <1>2, <1>5
  <2>2. j \in DOMAIN P
    BY <1>3, <1>7
  <2> HIDE DEF j
  <2>3. P[j] = a[i]
    BY <1>6, <2>1
  <2>4. a[i] # None
    BY <1>3, NoneIsNoQuestion
  <2>5. j \in Answered(P)
    BY <2>2, <2>3, <2>4 DEF Answered
  <2> QED BY <2>3, <2>5 DEF j
<1>11. ASSUME NEW i \in Answered(P)
       PROVE  \/ i \in 1..Len(queue)
              \/ \E j \in 1..Len(wire) : wire[j].to # None /\ i = Len(queue) + j
              \/ \E j \in 1..Len(a) : i = Len(queue) + Len(wire) + j
  <2>1. i \in 1..(Len(queue) + Len(wire) + Len(a)) /\ P[i] # None
    BY <1>7 DEF Answered
  <2>2. CASE i > Len(queue) /\ i <= Len(queue) + Len(wire)
    <3> DEFINE j == i - Len(queue)
    <3>1. j \in 1..Len(wire) /\ i = Len(queue) + j
      BY <1>3, <2>1, <2>2
    <3> HIDE DEF j
    <3>2. wire[j].to # None
      BY <1>9, <2>1, <3>1
    <3> QED BY <3>1, <3>2
  <2>3. CASE i > Len(queue) + Len(wire)
    <3> DEFINE j == i - Len(queue) - Len(wire)
    <3>1. j \in 1..Len(a) /\ i = Len(queue) + Len(wire) + j
      BY <1>3, <2>1, <2>3
    <3> HIDE DEF j
    <3> QED BY <3>1
  <2> QED BY <1>3, <2>1, <2>2, <2>3
<1> QED BY <1>3, <1>4, <1>8, <1>9, <1>10, <1>11 DEF a

\* In a clean walk that does not wait nothing is under way.
LEMMA NothingComes ==
    ASSUME IInv, Clean, pc # "wait"
    PROVE  asked = <<>> /\ queue = <<>> /\ \A i \in DOMAIN wire : wire[i].to = None
<1>1. Simple /\ PiecesOK /\ ~odd /\ TrailOK /\ late = 0 /\ Mild
  BY SchemaWalkAssumption DEF IInv, Clean, Mild
<1>2. Answered(Trail) = {}
  BY <1>1 DEF TrailOK, Rest, AtMostNone
<1>3. Len(queue) = 0 /\ Len(asked) = 0
  <2>1. Len(queue) # 0 => 1 \in 1..Len(queue)
    BY <1>1, TrailElements
  <2>2. Len(asked) # 0 => 1 \in 1..Len(asked)
    BY <1>1, TrailElements
  <2> QED BY <1>1, <1>2, <2>1, <2>2, TrailElements
<1>4. queue \in Seq(Parsed) /\ asked \in Seq(Questions)
  BY <1>1 DEF Simple
<1>5. queue = <<>> /\ asked = <<>>
  BY <1>3, <1>4
<1> QED BY <1>1, <1>2, <1>5, TrailElements

\* In one that waits, one thing at most is, and it is for the request.
LEMMA OneComes ==
    ASSUME IInv, Clean, pc = "wait"
    PROVE  /\ \A i \in DOMAIN asked : asked[i] = request /\ i = 1 /\ queue = <<>>
                                      /\ \A j \in DOMAIN wire : wire[j].to = None
           /\ \A i \in DOMAIN wire : wire[i].to # None =>
                 /\ wire[i].to = request /\ queue = <<>>
                 /\ \A j \in DOMAIN wire : j # i => wire[j].to = None
           /\ \A i \in DOMAIN queue : queue[i].to = request /\ i = 1
<1>1. Simple /\ PiecesOK /\ ~odd /\ TrailOK /\ late = 0 /\ Mild
  BY SchemaWalkAssumption DEF IInv, Clean, Mild
<1>2. AtMostOne(Trail) /\ \A i \in Answered(Trail) : Trail[i] = request
  BY <1>1 DEF TrailOK, Behind
<1>3. \A i, j \in Answered(Trail) : i = j
  BY <1>2 DEF AtMostOne
<1>4. queue # <<>> => 1 \in 1..Len(queue)
  BY <1>1, TrailElements, HeadAndTail DEF Simple
<1>5. /\ \A i \in 1..Len(queue) : i \in Nat /\ i >= 1 /\ i <= Len(queue)
      /\ \A i \in 1..Len(wire) : i \in Nat /\ i >= 1 /\ i <= Len(wire)
      /\ \A i \in 1..Len(asked) : i \in Nat /\ i >= 1
      /\ Len(queue) \in Nat /\ Len(wire) \in Nat
  BY <1>1, TrailElements
<1>6. ASSUME NEW i \in DOMAIN asked
      PROVE  asked[i] = request /\ i = 1 /\ queue = <<>>
             /\ \A j \in DOMAIN wire : wire[j].to = None
  <2> DEFINE m == Len(queue) + Len(wire) + i
  <2>1. i \in 1..Len(asked) /\ m \in Answered(Trail) /\ Trail[m] = asked[i]
    BY <1>1, TrailElements
  <2>2. i = 1
    <3>1. 1 \in 1..Len(asked) /\ i \in Nat /\ i >= 1
      BY <1>1, <2>1, TrailElements
    <3>2. Len(queue) + Len(wire) + 1 \in Answered(Trail)
      BY <1>1, <3>1, TrailElements
    <3>3. Len(queue) + Len(wire) + 1 = m
      BY <1>3, <2>1, <3>2
    <3> QED BY <1>5, <3>1, <3>3
  <2>3. queue = <<>>
    <3>1. queue # <<>> => 1 \in Answered(Trail) /\ m > 1
      BY <1>1, <1>4, <1>5, <2>1, TrailElements
    <3> QED BY <1>3, <2>1, <3>1
  <2>4. ASSUME NEW j \in DOMAIN wire, wire[j].to # None
        PROVE  FALSE
    <3>1. j \in 1..Len(wire) /\ Len(queue) + j \in Answered(Trail)
      BY <1>1, <2>4, TrailElements
    <3>2. Len(queue) + j = m
      BY <1>3, <2>1, <3>1
    <3> QED BY <1>5, <2>1, <3>1, <3>2
  <2> QED BY <1>2, <2>1, <2>2, <2>3, <2>4
<1>7. ASSUME NEW i \in DOMAIN wire, wire[i].to # None
      PROVE  wire[i].to = request /\ queue = <<>>
             /\ \A j \in DOMAIN wire : j # i => wire[j].to = None
  <2>1. /\ i \in 1..Len(wire) /\ Len(queue) + i \in Answered(Trail)
        /\ Trail[Len(queue) + i] = wire[i].to
    BY <1>1, <1>7, TrailElements
  <2>2. queue = <<>>
    <3>1. queue # <<>> => 1 \in Answered(Trail) /\ Len(queue) + i > 1
      BY <1>1, <1>4, <1>5, <2>1, TrailElements
    <3> QED BY <1>3, <2>1, <3>1
  <2>3. ASSUME NEW j \in DOMAIN wire, j # i, wire[j].to # None
        PROVE  FALSE
    <3>1. j \in 1..Len(wire) /\ Len(queue) + j \in Answered(Trail)
      BY <1>1, <2>3, TrailElements
    <3>2. Len(queue) + j = Len(queue) + i
      BY <1>3, <2>1, <3>1
    <3> QED BY <1>5, <2>1, <2>3, <3>1, <3>2
  <2> QED BY <1>2, <2>1, <2>2, <2>3
<1>8. ASSUME NEW i \in DOMAIN queue
      PROVE  queue[i].to = request /\ i = 1
  <2>1. i \in 1..Len(queue) /\ i \in Answered(Trail) /\ Trail[i] = queue[i].to
    BY <1>1, TrailElements
  <2>2. 1 \in 1..Len(queue)
    BY <1>5, <2>1
  <2>3. 1 \in Answered(Trail)
    BY <1>1, <2>2, TrailElements
  <2> QED BY <1>2, <1>3, <2>1, <2>3
<1> QED BY <1>6, <1>7, <1>8

(***************************************************************************)
(* Steps that leave the calls alone                                        *)
(***************************************************************************)
LEMMA GetsFacts ==
    ASSUME "serial" \in Kinds
    PROVE  /\ Gets \in Seq(Objects) /\ Len(Gets) \in Nat /\ Len(Gets) >= 1
           /\ DOMAIN Gets = 1..Len(Gets) /\ 1 \in DOMAIN Gets
           /\ \A i \in DOMAIN Gets : Gets[i] \in Objects
           /\ \A i, j \in DOMAIN Gets : Gets[i] = Gets[j] => i = j
<1>1. Gets \in Seq(Objects) /\ Gets # <<>>
  BY SchemaWalkAssumption
<1>2. /\ Len(Gets) \in Nat /\ Len(Gets) >= 1
      /\ DOMAIN Gets = 1..Len(Gets) /\ 1 \in DOMAIN Gets
      /\ \A i \in DOMAIN Gets : Gets[i] \in Objects
  BY <1>1
<1> QED BY <1>1, <1>2, DeviceAssumption

\* What a text client has for one object.
Value(S, o) == IF o \in S THEN <<>> ELSE <<SchemaNode(o, o, <<>>)>>

\* What it has, for one object more.
LEMMA GotStep ==
    ASSUME "serial" \in Kinds, NEW S, NEW n \in Nat, n <= Len(Gets)
    PROVE  /\ Got(S, n) \in Seq(NodeType)
           /\ n = 0 => Got(S, n) = <<>>
           /\ n # 0 => Got(S, n) = Got(S, n - 1) \o Value(S, Gets[n])
<1> DEFINE N == NodeType
           e == [i \in DOMAIN Gets |-> Value(S, Gets[i])]
<1>0. /\ Len(Gets) \in Nat /\ DOMAIN Gets = 1..Len(Gets)
      /\ \A i \in DOMAIN Gets : Gets[i] \in Objects
  BY GetsFacts
<1>1. \A i \in DOMAIN Gets : Value(S, Gets[i]) \in Seq(N)
  <2> TAKE i \in DOMAIN Gets
  <2> DEFINE o == Gets[i]
             x == SchemaNode(o, o, <<>>)
  <2>1. o \in Objects /\ <<>> \in Seq(Objects) /\ <<>> \in Seq(N)
    BY <1>0, NoElements
  <2> HIDE DEF o
  <2>2. x \in N
    BY <2>1 DEF SchemaNode, NodeType
  <2> HIDE DEF x, N
  <2>3. <<x>> \in Seq(N)
    BY <2>2, SmallSequences
  <2> QED BY <2>1, <2>3 DEF Value, x, o
<1>2. \A i \in 1..n : i \in DOMAIN Gets
  BY <1>0
<1>3. \A i \in 1..n : e[i] = Value(S, Gets[i]) /\ e[i] \in Seq(N)
  BY <1>1, <1>2
<1> HIDE DEF N, e
<1>4. Got(S, n) = FlattenSeq([i \in 1..n |-> e[i]])
  <2>1. [i \in 1..n |-> Value(S, Gets[i])] = [i \in 1..n |-> e[i]]
    BY <1>3
  <2> QED BY <2>1 DEF Got, Value
<1>5. CASE n = 0
  <2>1. [i \in 1..n |-> e[i]] = <<>>
    BY <1>5
  <2>2. Got(S, n) = <<>>
    BY <1>4, <2>1 DEF FlattenSeq
  <2> QED BY <1>5, <2>2, NoElements
<1>6. CASE n # 0
  <2> DEFINE m == n - 1
  <2>1. m \in Nat /\ m + 1 = n /\ n \in 1..n
    BY <1>6
  <2>2. \A i \in 1..m : i \in 1..n
    BY <2>1
  <2>3. Got(S, n - 1) = FlattenSeq([i \in 1..m |-> e[i]])
    <3>1. [i \in 1..m |-> Value(S, Gets[i])] = [i \in 1..m |-> e[i]]
      <4> HIDE DEF m
      <4> QED BY <1>3, <2>2
    <3> QED BY <3>1 DEF Got, Value
  <2>4. Got(S, n) = FlattenSeq([i \in 1..(m + 1) |-> e[i]])
    BY <1>4, <2>1
  <2> HIDE DEF m
  <2>5. /\ FlattenSeq([i \in 1..m |-> e[i]]) \in Seq(N)
        /\ FlattenSeq([i \in 1..(m + 1) |-> e[i]]) = FlattenSeq([i \in 1..m |-> e[i]]) \o e[m + 1]
    <3>1. \A i \in 1..(m + 1) : e[i] \in Seq(N)
      BY <1>3, <2>1
    <3> QED BY <2>1, <3>1, FlattenStep
  <2>6. e[n] = Value(S, Gets[n]) /\ e[n] \in Seq(N)
    BY <1>3, <2>1
  <2>7. Got(S, n) \in Seq(N)
    <3>1. FlattenSeq([i \in 1..m |-> e[i]]) \o e[n] \in Seq(N)
      BY <2>5, <2>6, ConcatElements
    <3> QED BY <2>1, <2>4, <2>5, <3>1
  <2> QED BY <1>6, <2>1, <2>3, <2>4, <2>5, <2>6, <2>7 DEF N
<1> QED BY <1>5, <1>6

\* What happens to the request for one object changes nothing before it.
LEMMA GotWithout ==
    ASSUME "serial" \in Kinds, NEW S, NEW m \in DOMAIN Gets
    PROVE  Got(S \cup {Gets[m]}, m - 1) = Got(S, m - 1)
<1>1. \A i \in 1..(m - 1) : i \in DOMAIN Gets /\ i # m
  BY GetsFacts
<1>2. \A i \in 1..(m - 1) : Gets[i] # Gets[m]
  BY <1>1, GetsFacts
<1>3. [i \in 1..(m - 1) |-> Value(S \cup {Gets[m]}, Gets[i])]
          = [i \in 1..(m - 1) |-> Value(S, Gets[i])]
  BY <1>2 DEF Value
<1> QED BY <1>3 DEF Got, Value

\* The walk goes on with what it asks, and nothing of it was spoilt but that.
LEMMA SpoiltKeeps ==
    ASSUME IInv, WInv, UNCHANGED <<kind, request, stack, tree>>, Clean' => Clean,
           Clean' => \/ pc' = pc /\ spoilt' = spoilt
                     \/ /\ pc \in Asking \cup {"new"} /\ pc' \in Asking \cup {"new"}
                        /\ spoilt' = spoilt \/ spoilt' = spoilt \cup {request.about}
    PROVE  StackTrue' /\ SpoiltTrue' /\ MadeTrue' /\ GetsTrue'
<1>1. StackTrue /\ SpoiltTrue /\ MadeTrue /\ GetsTrue /\ Simple /\ RequestOK
  BY DEF IInv, WInv
<1>2. CASE ~Clean'
  BY <1>2 DEF StackTrue, SpoiltTrue, MadeTrue, GetsTrue
<1>3. CASE Clean' /\ pc' = pc /\ spoilt' = spoilt
  <2>1. Clean /\ UNCHANGED <<kind, request, stack, tree, pc, spoilt>>
    BY <1>3
  <2>2. StackTrue' /\ SpoiltTrue'
    BY <1>1, <2>1 DEF StackTrue, SpoiltTrue, Top
  <2>3. MadeTrue' /\ GetsTrue'
    BY <1>1, <2>1 DEF MadeTrue, GetsTrue, Top
  <2> QED BY <2>2, <2>3
<1>4. CASE /\ Clean' /\ pc \in Asking \cup {"new"} /\ pc' \in Asking \cup {"new"}
           /\ spoilt' = spoilt \/ spoilt' = spoilt \cup {request.about}
  <2> DEFINE S == spoilt
             T == spoilt'
             n == Len(stack) - 1
  <2>1. Clean /\ pc \in Walking /\ pc' \in Walking /\ pc # "walk" /\ pc' # "walk" /\ pc' # "done"
    BY <1>4 DEF Walking, Asking
  <2>2. Top' = Top
    BY DEF Top
  <2>3. ASSUME stack # <<>>
        PROVE  /\ Chain(kind, T, stack)
               /\ MadeAbove(kind, T, stack, n) = MadeAbove(kind, S, stack, n)
               /\ MadeSoFar(kind, T, Top) = MadeSoFar(kind, S, Top)
               /\ Asks(Top, request) /\ request.about = Top.group.of
    <3>1. Chain(kind, S, stack) /\ Asks(Top, request)
      BY <1>1, <2>1, <2>3 DEF StackTrue
    <3>2. Top \in FrameType /\ stack \in Seq(FrameType)
      BY <1>1, <2>3, StackFacts
    <3>3. request.about = Top.group.of
      BY <3>1 DEF Asks, IdsOf, MetadataOf, Request
    <3>4. MadeSoFar(kind, T, Top) = MadeSoFar(kind, S, Top)
      BY <3>1, <3>2, MadeByNone DEF Asks
    <3>5. CASE T = S
      BY <3>1, <3>3, <3>4, <3>5
    <3>6. CASE T = S \cup {request.about}
      <4> DEFINE x == Last(stack).group.of
      <4>1. x = request.about
        BY <3>3 DEF Top
      <4> HIDE DEF x, n
      <4>2. /\ Chain(kind, S \cup {x}, stack)
            /\ MadeAbove(kind, S \cup {x}, stack, Len(stack) - 1)
                   = MadeAbove(kind, S, stack, Len(stack) - 1)
        BY <2>3, <3>1, <3>2, ChainSpoilt DEF x
      <4> QED BY <3>1, <3>3, <3>4, <3>6, <4>1, <4>2 DEF n
    <3> QED BY <1>4, <3>5, <3>6
  <2>4. StackTrue'
    BY <2>1, <2>2, <2>3 DEF StackTrue
  <2>5. SpoiltTrue'
    <3> SUFFICES ASSUME stack # <<>>, NEW o \in T
                 PROVE  o = Top.group.of \/ BelowPassed(kind, stack, o)
      BY <2>1, <2>2 DEF SpoiltTrue
    <3>1. o \in S \/ o = request.about
      BY <1>4
    <3> QED BY <1>1, <2>1, <2>3, <3>1 DEF SpoiltTrue
  <2>6. MadeTrue'
    BY <1>1, <2>1, <2>2, <2>3 DEF MadeTrue
  <2>7. GetsTrue'
    <3> SUFFICES ASSUME kind = "serial"
                 PROVE  \E m \in DOMAIN Gets :
                           /\ request = GetOf(Gets[m]) /\ tree = Got(T, m - 1)
                           /\ \A o \in T : \E i \in 1..m : o = Gets[i]
      BY DEF GetsTrue
    <3>1. PICK m \in DOMAIN Gets :
             /\ request = GetOf(Gets[m]) /\ tree = Got(S, m - 1)
             /\ \A o \in S : \E i \in 1..m : o = Gets[i]
      BY <1>1, <1>4, <2>1 DEF GetsTrue
    <3>2. "serial" \in Kinds /\ m \in 1..m
      <4>1. "serial" \in Kinds
        BY <1>1 DEF Simple
      <4> QED BY <4>1, GetsFacts
    <3>3. request.about = Gets[m]
      BY <3>1 DEF GetOf, Request
    <3>4. Got(T, m - 1) = Got(S, m - 1)
      BY <1>4, <3>2, <3>3, GotWithout
    <3>5. \A o \in T : o \in S \/ o = Gets[m]
      BY <1>4, <3>3
    <3> QED BY <3>1, <3>2, <3>4, <3>5
  <2> QED BY <2>4, <2>5, <2>6, <2>7
<1> QED BY <1>2, <1>3, <1>4

\* Nodes stay where they are.
LEMMA PlacedKeeps ==
    ASSUME PlacedTrue, UNCHANGED <<kind, stack, tree>>, late' <= 1 => late <= 1,
           spoilt' = {} => spoilt = {}
    PROVE  PlacedTrue'
BY DEF PlacedTrue, Sound

\* A step of the walk leaves the responses under way alone.
LEMMA WalkKeepsLink ==
    ASSUME WInv, UNCHANGED <<kind, asked, wire, queue, spoilt, late>>,
           pc # "wait", pc' # "wait",
           pc' \in {"join", "handle"} =>
               pc \in {"join", "handle"} /\ UNCHANGED <<request, answer>>
    PROVE  LinkTrue' /\ LagTrue'
<1>1. LinkTrue /\ LagTrue
  BY DEF WInv
<1>2. LinkTrue'
  BY <1>1 DEF LinkTrue, Serial
<1>3. Trail' = Trail
  BY DEF Trail, Line, To
<1>4. Lagging' = Lagging
  BY DEF Lagging
<1>5. LagTrue'
  BY <1>1, <1>3, <1>4 DEF LagTrue
<1> QED BY <1>2, <1>5

(***************************************************************************)
(* Steps of the link                                                       *)
(***************************************************************************)
\* While the walk waits, what is asked is answered; or it never will be.
LEMMA LinkStep ==
    ASSUME IInv, WInv, UNCHANGED <<walk, late, kind>>, spoilt \subseteq spoilt', odd => odd',
           LinkTrue', Lagging' => Trail' = Trail,
           Clean' => \/ spoilt' = spoilt /\ (pc = "wait" => (Coming' <=> Coming))
                     \/ pc = "wait" /\ spoilt' = spoilt \cup {request.about} /\ ~Coming'
    PROVE  WInv'
<1>1. LinkTrue /\ ComingTrue /\ LagTrue /\ PlacedTrue /\ Simple
  BY DEF WInv, IInv
<1>2. UNCHANGED <<pc, request, answer, stack, tree, late, kind>>
  BY DEF walk
<1>3. Clean' => Clean
  BY <1>1, <1>2 DEF Clean, Simple
<1>4. StackTrue' /\ SpoiltTrue' /\ MadeTrue' /\ GetsTrue'
  <2>1. Clean' => \/ pc' = pc /\ spoilt' = spoilt
                  \/ /\ pc \in Asking \cup {"new"} /\ pc' \in Asking \cup {"new"}
                     /\ spoilt' = spoilt \/ spoilt' = spoilt \cup {request.about}
    BY <1>2 DEF Asking
  <2> QED BY <1>2, <1>3, <2>1, SpoiltKeeps
<1>5. ComingTrue'
  <2> SUFFICES ASSUME Clean'
               PROVE  /\ pc \in {"new", "call"} => request.about \notin spoilt'
                      /\ pc = "wait" => (request.about \in spoilt' <=> ~Coming')
                      /\ pc \in {"join", "handle"} =>
                            (request.about \in spoilt' <=> ~(answer # None /\ Proper(answer)))
    BY <1>2 DEF ComingTrue
  <2>1. CASE spoilt' = spoilt /\ (pc = "wait" => (Coming' <=> Coming))
    BY <1>1, <1>3, <2>1 DEF ComingTrue
  <2>2. CASE pc = "wait" /\ spoilt' = spoilt \cup {request.about} /\ ~Coming'
    BY <2>2
  <2> QED BY <2>1, <2>2
<1>6. LagTrue'
  <2>1. Lagging' => Lagging
    BY <1>2 DEF Lagging
  <2> QED BY <1>1, <1>2, <2>1 DEF LagTrue
<1>7. PlacedTrue'
  <2>1. (late' <= 1 => late <= 1) /\ (spoilt' = {} => spoilt = {})
    BY <1>2
  <2> QED BY <1>1, <1>2, <2>1, PlacedKeeps
<1> QED BY <1>4, <1>5, <1>6, <1>7 DEF WInv

\* What answers nothing is noise.
LEMMA NoiseIsImproper ==
    ASSUME NEW r \in OnWire, r.to = None
    PROVE  ~Proper(r)
BY NoneIsNoQuestion DEF OnWire, Proper

\* What is asked is understood while no response was late.
LEMMA RequestUnderstood ==
    ASSUME IInv, WInv, Clean, pc = "wait"
    PROVE  Understands(request)
<1>1. RequestOK /\ Simple /\ StackTrue
  BY DEF IInv, WInv
<1>2. CASE kind = "serial"
  <2>1. PICK i \in DOMAIN Gets : request = GetOf(Gets[i])
    BY <1>1, <1>2 DEF RequestOK
  <2>2. request.names = <<Id(Gets[i])>>
    BY <2>1 DEF GetOf, Request
  <2>3. DOMAIN request.names = {1} /\ request.names[1].is = "id"
    BY <2>2 DEF Id
  <2> QED BY <2>3 DEF Understands
<1>3. CASE kind # "serial"
  <2>1. stack # <<>> /\ Asks(Top, request) /\ Top \in FrameType
    BY <1>1, <1>3, StackFacts DEF RequestOK, StackTrue, Walking, Asking
  <2> DEFINE g == Top.group.of
  <2>2. CASE request = IdsOf(g, Id(g))
    <3>1. request.names = <<Id(g)>>
      BY <2>2 DEF IdsOf, Request
    <3>2. DOMAIN request.names = {1} /\ request.names[1].is = "id"
      BY <3>1 DEF Id
    <3> QED BY <3>2 DEF Understands
  <2>3. CASE request = MetadataOf(g, Kids(g))
    <3>1. request.names = Kids(g)
      BY <2>3 DEF MetadataOf, Request
    <3> QED BY <3>1 DEF Understands, Kids, Id
  <2> QED BY <2>1, <2>2, <2>3 DEF Asks
<1> QED BY <1>2, <1>3

\* An answer is on its way to the client that waits for it.
LEMMA AnswersTrue ==
    ASSUME IInv, WInv, Answers, UNCHANGED <<walk, late>>
    PROVE  WInv'
<1> DEFINE r == Response(Head(asked), IF Understands(Head(asked)) THEN "content" ELSE "error")
<1>1. /\ Simple /\ LinkTrue /\ asked # <<>> /\ asked' = Tail(asked) /\ wire' = Append(wire, r)
      /\ UNCHANGED <<kind, broken, running, thread, queue, faults, spoilt, odd>>
      /\ asked \in Seq(Questions) /\ wire \in Seq(OnWire) /\ UNCHANGED <<pc, late, request>>
  BY DEF Answers, IInv, WInv, Simple, walk
<1>2. Head(asked) \in Questions /\ Head(asked) = asked[1] /\ 1 \in DOMAIN asked
  BY <1>1
<1>3. r \in OnWire /\ r.to = Head(asked) /\ r.to # None /\ r \in Sent
  BY <1>2, NoneIsNoQuestion, SentFacts DEF OnWire, Response
<1>4. Trail' = Trail
  BY <1>1, <1>3, AnswerInPlace DEF Trail
<1>5. /\ Len(wire) \in Nat /\ DOMAIN wire = 1..Len(wire) /\ DOMAIN wire' = 1..(Len(wire) + 1)
      /\ \A i \in 1..Len(wire) : wire'[i] = wire[i]
      /\ wire'[Len(wire) + 1] = r /\ Len(wire) + 1 \in DOMAIN wire'
  <2> HIDE DEF r
  <2> QED BY <1>1, <1>3
<1>6. LinkTrue'
  <2> HIDE DEF r
  <2>1. ~Serial => \A i \in DOMAIN wire' : wire'[i].to # None
    <3> SUFFICES ASSUME ~Serial, NEW i \in DOMAIN wire' PROVE wire'[i].to # None
      OBVIOUS
    <3>1. i \in 1..Len(wire) \/ i = Len(wire) + 1
      BY <1>5
    <3> QED BY <1>1, <1>3, <1>5, <3>1 DEF LinkTrue
  <2> QED BY <1>1, <2>1 DEF LinkTrue, Serial
<1>7. ASSUME Clean', pc = "wait"
      PROVE  Coming' /\ Coming
  <2>1. Clean
    BY <1>1, <1>7 DEF Clean
  <2>2. Head(asked) = request
    BY <1>2, <1>7, <2>1, OneComes
  <2>3. Proper(r)
    BY <1>7, <2>1, <2>2, RequestUnderstood DEF Response, Proper
  <2> HIDE DEF r
  <2> QED BY <1>1, <1>5, <2>3 DEF Coming
<1> QED BY <1>1, <1>4, <1>6, <1>7, LinkStep DEF walk

\* The receive thread takes what is on the wire, in its order.
LEMMA ReceiveLoopTrue ==
    ASSUME IInv, WInv, ReceiveLoop, UNCHANGED <<walk, late>>
    PROVE  WInv'
<1> DEFINE r == Head(wire)
<1>1. /\ Simple /\ PiecesOK /\ LinkTrue /\ thread = "receive"
      /\ IF wire = <<>> THEN UNCHANGED <<wire, queue>>
         ELSE queue' \in HandleMessage(r) /\ wire' = Tail(wire)
      /\ thread' = (IF running THEN "receive" ELSE "ended")
      /\ UNCHANGED <<kind, asked, broken, running, faults, spoilt, odd>>
      /\ wire \in Seq(OnWire) /\ queue \in Seq(Parsed) /\ UNCHANGED <<pc, late, request>>
  BY DEF ReceiveLoop, IInv, WInv, Simple, walk
<1>2. ASSUME wire # <<>>
      PROVE  /\ r \in OnWire /\ r = wire[1] /\ wire' = Tail(wire) /\ wire' \in Seq(OnWire)
             /\ Len(wire) \in Nat /\ Len(wire) >= 1 /\ Len(wire') = Len(wire) - 1
             /\ DOMAIN wire = 1..Len(wire) /\ DOMAIN wire' = 1..(Len(wire) - 1)
             /\ \A i \in 1..(Len(wire) - 1) : wire'[i] = wire[i + 1]
  <2>1. wire \in Seq(OnWire) /\ wire' = Tail(wire)
    BY <1>1, <1>2
  <2>2. /\ Len(wire) \in Nat /\ Len(wire) >= 1 /\ wire[1] = Head(wire) /\ Head(wire) \in OnWire
        /\ Tail(wire) \in Seq(OnWire) /\ Len(Tail(wire)) = Len(wire) - 1
        /\ \A i \in 1..(Len(wire) - 1) : Tail(wire)[i] = wire[i + 1]
    BY <1>2, <2>1, HeadAndTail
  <2>3. DOMAIN wire = 1..Len(wire) /\ DOMAIN Tail(wire) = 1..(Len(wire) - 1)
    BY <2>1, <2>2
  <2> QED BY <2>1, <2>2, <2>3
<1>3. CASE wire = <<>>
  <2>1. UNCHANGED <<wire, queue>>
    BY <1>1, <1>3
  <2>2. Trail' = Trail
    BY <1>1, <2>1 DEF Trail, Line, To
  <2>3. LinkTrue'
    BY <1>1, <2>1 DEF LinkTrue, Serial
  <2>4. Coming' <=> Coming
    BY <1>1, <2>1 DEF Coming
  <2> QED BY <1>1, <2>2, <2>3, <2>4, LinkStep
<1>4. CASE wire # <<>> /\ r.form \in {"noise", "garbled"}
  <2>1. queue' = queue
    BY <1>1, <1>4 DEF HandleMessage
  <2>2. r.to = None /\ ~Proper(r) /\ 1 \in DOMAIN wire
    BY <1>2, <1>4 DEF OnWire, Proper
  <2>3. Serial
    BY <1>1, <1>2, <1>4, <2>2 DEF LinkTrue
  <2>4. ~Lagging' /\ LinkTrue'
    BY <1>1, <2>3 DEF Serial, Lagging, LinkTrue
  <2>5. Coming' <=> Coming
    <3>1. ASSUME NEW i \in DOMAIN wire, Proper(wire[i])
          PROVE  \E j \in DOMAIN wire' : Proper(wire'[j])
      <4>1. i # 1 /\ i \in 1..Len(wire)
        BY <1>2, <1>4, <2>2, <3>1
      <4>2. i - 1 \in 1..(Len(wire) - 1) /\ (i - 1) + 1 = i
        BY <1>2, <1>4, <4>1
      <4>3. wire'[i - 1] = wire[i] /\ i - 1 \in DOMAIN wire'
        BY <1>2, <1>4, <4>2
      <4> QED BY <3>1, <4>3
    <3>2. ASSUME NEW i \in DOMAIN wire', Proper(wire'[i])
          PROVE  \E j \in DOMAIN wire : Proper(wire[j])
      <4>1. i + 1 \in DOMAIN wire /\ wire'[i] = wire[i + 1]
        BY <1>2, <1>4
      <4> QED BY <3>2, <4>1
    <3> QED BY <1>1, <2>1, <3>1, <3>2 DEF Coming
  <2> QED BY <1>1, <2>4, <2>5, LinkStep
<1>5. CASE wire # <<>> /\ r.form \notin {"noise", "garbled"}
  <2>1. PICK p \in ParseText(r) : queue' = Append(queue, p)
    BY <1>1, <1>5 DEF HandleMessage
  <2>2. p \in Parsed /\ p.to = r.to
    BY <1>2, <1>5, <2>1, ParseTextFacts
  <2>3. Trail' = Trail
    <3>1. p \in Sent
      BY <2>2, SentFacts
    <3> QED BY <1>1, <1>2, <1>5, <2>1, <2>2, <3>1, ParsedInPlace DEF Trail
  <2>4. LinkTrue'
    <3>1. ~Serial => \A i \in DOMAIN wire' : wire'[i].to # None
      <4> SUFFICES ASSUME ~Serial, NEW i \in DOMAIN wire' PROVE wire'[i].to # None
        OBVIOUS
      <4>1. i + 1 \in DOMAIN wire /\ wire'[i] = wire[i + 1]
        BY <1>2, <1>5
      <4> QED BY <1>1, <4>1 DEF LinkTrue
    <3> QED BY <1>1, <3>1 DEF LinkTrue, Serial
  <2>5. ASSUME Clean'
        PROVE  Coming' <=> Coming
    <3>1. ~odd
      BY <1>1, <2>5 DEF Clean
    <3>2. r.form \notin {"piece", "log"}
      BY <1>1, <1>2, <1>5, <3>1 DEF PiecesOK
    <3>3. p = r
      BY <2>1, <3>2 DEF ParseText
    <3>4. /\ Len(queue) \in Nat /\ DOMAIN queue = 1..Len(queue)
          /\ DOMAIN queue' = 1..(Len(queue) + 1) /\ queue'[Len(queue) + 1] = p
          /\ \A i \in 1..Len(queue) : queue'[i] = queue[i]
      BY <1>1, <2>1, <2>2
    <3>5. ASSUME Coming
          PROVE  Coming'
      <4>1. CASE asked # <<>>
        BY <1>1, <4>1 DEF Coming
      <4>2. ASSUME NEW i \in DOMAIN queue, Proper(queue[i])
            PROVE  Coming'
        <5>1. i \in DOMAIN queue' /\ queue'[i] = queue[i]
          BY <3>4
        <5> QED BY <4>2, <5>1 DEF Coming
      <4>3. ASSUME NEW i \in DOMAIN wire, Proper(wire[i])
            PROVE  Coming'
        <5>1. CASE i = 1
          <6>1. Len(queue) + 1 \in DOMAIN queue' /\ queue'[Len(queue) + 1] = wire[i]
            BY <1>2, <1>5, <3>3, <3>4, <5>1
          <6> QED BY <4>3, <6>1 DEF Coming
        <5>2. CASE i # 1
          <6>1. i - 1 \in 1..(Len(wire) - 1) /\ (i - 1) + 1 = i
            BY <1>2, <1>5, <5>2
          <6>2. wire'[i - 1] = wire[i] /\ i - 1 \in DOMAIN wire'
            BY <1>2, <1>5, <6>1
          <6> QED BY <4>3, <6>2 DEF Coming
        <5> QED BY <5>1, <5>2
      <4> QED BY <3>5, <4>1, <4>2, <4>3 DEF Coming
    <3>6. ASSUME Coming'
          PROVE  Coming
      <4>1. CASE asked # <<>>
        BY <4>1 DEF Coming
      <4>2. ASSUME NEW i \in DOMAIN queue', Proper(queue'[i])
            PROVE  Coming
        <5>1. CASE i \in DOMAIN queue
          BY <3>4, <4>2, <5>1 DEF Coming
        <5>2. CASE i = Len(queue) + 1
          <6>1. 1 \in DOMAIN wire /\ queue'[i] = wire[1]
            BY <1>2, <1>5, <3>3, <3>4, <5>2
          <6> QED BY <4>2, <6>1 DEF Coming
        <5> QED BY <3>4, <5>1, <5>2
      <4>3. ASSUME NEW i \in DOMAIN wire', Proper(wire'[i])
            PROVE  Coming
        <5>1. i + 1 \in DOMAIN wire /\ wire'[i] = wire[i + 1]
          BY <1>2, <1>5
        <5> QED BY <4>3, <5>1 DEF Coming
      <4> QED BY <1>1, <3>6, <4>1, <4>2, <4>3 DEF Coming
    <3> QED BY <3>5, <3>6
  <2> QED BY <1>1, <2>3, <2>4, <2>5, LinkStep
<1> QED BY <1>3, <1>4, <1>5

\* An element of a sequence that loses its head.
LEMMA TailElement ==
    ASSUME NEW S, NEW s \in Seq(S), s # <<>>, NEW i \in DOMAIN Tail(s)
    PROVE  Tail(s)[i] = s[i + 1] /\ i + 1 \in DOMAIN s
OBVIOUS

\* A request that is lost spoils its object.
LEMMA VanishesTrue ==
    ASSUME IInv, WInv, Vanishes, UNCHANGED <<walk, late>>
    PROVE  WInv'
<1>1. /\ Simple /\ LinkTrue /\ kind = "can" /\ thread = "ended"
      /\ wire # <<>> /\ wire' = Tail(wire) /\ wire \in Seq(OnWire)
      /\ UNCHANGED <<kind, asked, broken, running, thread, queue, faults, spoilt, odd>>
      /\ UNCHANGED <<pc, late, request>>
  BY DEF Vanishes, IInv, WInv, Simple, walk
<1>2. pc # "wait"
  BY <1>1 DEF LinkTrue
<1>3. ~Serial /\ ~Lagging'
  BY <1>1 DEF Serial, Lagging
<1>4. \A i \in DOMAIN wire' : wire'[i].to # None
  <2> TAKE i \in DOMAIN wire'
  <2>1. wire'[i] = wire[i + 1] /\ i + 1 \in DOMAIN wire
    BY <1>1, TailElement
  <2> QED BY <1>1, <1>3, <2>1 DEF LinkTrue
<1>5. LinkTrue'
  BY <1>1, <1>2, <1>4 DEF LinkTrue
<1> QED BY <1>1, <1>2, <1>3, <1>5, LinkStep

\* A line that is no response answers nothing.
LEMMA BabblesTrue ==
    ASSUME IInv, WInv, Babbles, UNCHANGED <<walk, late>>
    PROVE  WInv'
<1>1. PICK form \in {"noise", "garbled", "log"} :
         wire' = Append(wire, Response(None, form)) /\ odd' = (odd \/ form = "log")
  BY DEF Babbles
<1> DEFINE r == Response(None, form)
<1>2. /\ Simple /\ LinkTrue /\ Serial /\ wire' = Append(wire, r) /\ wire \in Seq(OnWire)
      /\ UNCHANGED <<kind, asked, broken, running, thread, queue, spoilt>> /\ (odd => odd')
      /\ UNCHANGED <<pc, late, request>>
  BY <1>1 DEF Babbles, IInv, WInv, Simple, walk
<1>3. LinkTrue' /\ ~Lagging'
  BY <1>2 DEF LinkTrue, Serial, Lagging
<1>4. ~Proper(r) /\ r \in OnWire
  BY <1>1 DEF Proper, Response, OnWire
<1> HIDE DEF r
<1>5. /\ Len(wire) \in Nat /\ DOMAIN wire = 1..Len(wire) /\ DOMAIN wire' = 1..(Len(wire) + 1)
      /\ \A i \in 1..Len(wire) : wire'[i] = wire[i] /\ i \in 1..(Len(wire) + 1)
      /\ wire'[Len(wire) + 1] = r
  BY <1>2, <1>4
<1>6. Coming' <=> Coming
  <2>1. ASSUME NEW i \in DOMAIN wire', Proper(wire'[i])
        PROVE  i \in DOMAIN wire /\ Proper(wire[i])
    <3>1. i # Len(wire) + 1
      BY <1>4, <1>5, <2>1
    <3> QED BY <1>5, <2>1, <3>1
  <2>2. ASSUME NEW i \in DOMAIN wire, Proper(wire[i])
        PROVE  i \in DOMAIN wire' /\ Proper(wire'[i])
    BY <1>5, <2>2
  <2> QED BY <1>2, <2>1, <2>2 DEF Coming
<1> QED BY <1>2, <1>3, <1>6, LinkStep

\* After a line was cut nothing is clean.
LEMMA CutsTrue ==
    ASSUME IInv, WInv, Cuts, UNCHANGED <<walk, late>>
    PROVE  WInv'
<1>1. /\ LinkTrue /\ Serial /\ odd' = TRUE /\ UNCHANGED <<kind, running, thread, spoilt, pc, late>>
  BY DEF Cuts, IInv, WInv, walk
<1>2. LinkTrue' /\ ~Lagging' /\ ~Clean'
  BY <1>1 DEF LinkTrue, Serial, Lagging, Clean
<1> QED BY <1>1, <1>2, LinkStep

\* Nothing that is under way answers, and nothing was lost on the way of the TCP client.
LEMMA LosesTrue ==
    ASSUME IInv, WInv, Loses, UNCHANGED <<walk, late>>
    PROVE  WInv'
<1> DEFINE r == Response(Head(asked), "error")
<1>1. /\ Simple /\ LinkTrue /\ asked # <<>> /\ asked' = Tail(asked)
      /\ spoilt' = spoilt \cup {Head(asked).about}
      /\ wire' = wire \/ wire' = Append(wire, r)
      /\ UNCHANGED <<kind, broken, running, thread, queue, odd>>
      /\ asked \in Seq(Questions) /\ wire \in Seq(OnWire) /\ UNCHANGED <<pc, late, request>>
  BY DEF Loses, IInv, WInv, Simple, walk
<1>2. Head(asked) \in Questions /\ Head(asked) = asked[1] /\ 1 \in DOMAIN asked
  BY <1>1
<1>3. r \in OnWire /\ r.to # None /\ ~Proper(r)
  BY <1>2, NoneIsNoQuestion DEF OnWire, Response, Proper
<1> HIDE DEF r
<1>4. ASSUME NEW i \in DOMAIN wire'
      PROVE  (i \in DOMAIN wire /\ wire'[i] = wire[i]) \/ wire'[i] = r
  <2>1. CASE wire' = wire
    BY <2>1
  <2>2. CASE wire' = Append(wire, r)
    BY <1>1, <1>3, <2>2
  <2> QED BY <1>1, <2>1, <2>2
<1>5. LinkTrue'
  <2>1. ~Serial => \A i \in DOMAIN wire' : wire'[i].to # None
    BY <1>1, <1>3, <1>4 DEF LinkTrue
  <2> QED BY <1>1, <2>1 DEF LinkTrue, Serial
<1>6. ~Lagging'
  BY <1>1 DEF Lagging
<1>7. ASSUME Clean'
      PROVE  pc = "wait" /\ Head(asked) = request /\ ~Coming'
  <2>1. Clean
    BY <1>1, <1>7 DEF Clean
  <2>2. pc = "wait"
    BY <1>1, <2>1, NothingComes
  <2>3. /\ \A i \in DOMAIN asked : asked[i] = request /\ i = 1 /\ queue = <<>>
                                   /\ \A j \in DOMAIN wire : wire[j].to = None
    BY <2>1, <2>2, OneComes
  <2>4. asked' = <<>>
    <3>1. Len(asked) \in Nat /\ Len(asked) >= 1 /\ Len(asked) \in DOMAIN asked
      BY <1>1
    <3>2. Len(asked) = 1
      BY <2>3, <3>1
    <3> QED BY <1>1, <3>2
  <2>5. \A i \in DOMAIN wire' : ~Proper(wire'[i])
    <3> TAKE i \in DOMAIN wire'
    <3>1. CASE i \in DOMAIN wire /\ wire'[i] = wire[i]
      <4>1. wire[i].to = None /\ wire[i] \in OnWire
        BY <1>1, <1>2, <2>3, <3>1
      <4> QED BY <3>1, <4>1, NoiseIsImproper
    <3> QED BY <1>3, <1>4, <3>1
  <2>6. \A i \in DOMAIN queue' : ~Proper(queue'[i])
    BY <1>1, <1>2, <2>3
  <2> QED BY <1>2, <2>2, <2>3, <2>4, <2>5, <2>6 DEF Coming
<1> QED BY <1>1, <1>5, <1>6, <1>7, LinkStep

\* A connection that breaks takes everything under way along.
LEMMA BreaksTrue ==
    ASSUME IInv, WInv, Breaks, UNCHANGED <<walk, late>>
    PROVE  WInv'
<1> DEFINE A == {asked[i].about : i \in DOMAIN asked}
           B == {wire[i].to.about : i \in {j \in DOMAIN wire : wire[j].to # None}}
<1>1. /\ Simple /\ LinkTrue /\ asked' = <<>> /\ wire' = <<>>
      /\ spoilt' = spoilt \cup A \cup B
      /\ UNCHANGED <<kind, running, thread, queue, odd>>
      /\ asked \in Seq(Questions) /\ wire \in Seq(OnWire) /\ UNCHANGED <<pc, late, request>>
  BY DEF Breaks, IInv, WInv, Simple, walk
<1>2. DOMAIN asked = {} <=> asked = <<>>
  BY <1>1
<1>3. DOMAIN wire = {} <=> wire = <<>>
  BY <1>1
<1>4. LinkTrue'
  <2>1. DOMAIN wire' = {}
    BY <1>1
  <2> QED BY <1>1, <2>1 DEF LinkTrue, Serial
<1>5. Lagging' => Trail' = Trail
  <2> SUFFICES ASSUME Lagging' PROVE Trail' = Trail
    OBVIOUS
  <2>1. A = {} /\ B = {} /\ kind = "tcp"
    BY <1>1 DEF Lagging
  <2>2. asked = <<>>
    <3>1. DOMAIN asked = {}
      BY <2>1
    <3> QED BY <1>2, <3>1
  <2>3. wire = <<>>
    <3>1. \A i \in DOMAIN wire : wire[i].to # None
      BY <1>1, <2>1 DEF LinkTrue, Serial
    <3>2. DOMAIN wire = {}
      BY <2>1, <3>1
    <3> QED BY <1>3, <3>2
  <2> QED BY <1>1, <2>2, <2>3 DEF Trail, Line, To
<1>6. ASSUME Clean'
      PROVE  \/ spoilt' = spoilt /\ (pc = "wait" => (Coming' <=> Coming))
             \/ pc = "wait" /\ spoilt' = spoilt \cup {request.about} /\ ~Coming'
  <2>1. Clean
    BY <1>1, <1>6 DEF Clean
  <2>2. CASE asked = <<>> /\ \A i \in DOMAIN wire : wire[i].to = None
    <3>1. A = {} /\ B = {}
      BY <1>2, <2>2
    <3>2. \A i \in DOMAIN wire : ~Proper(wire[i])
      <4> TAKE i \in DOMAIN wire
      <4>1. wire[i] \in OnWire /\ wire[i].to = None
        BY <1>1, <2>2
      <4> QED BY <4>1, NoiseIsImproper
    <3>3. DOMAIN wire' = {}
      BY <1>1
    <3>4. Coming' <=> Coming
      BY <1>1, <2>2, <3>2, <3>3 DEF Coming
    <3> QED BY <1>1, <3>1, <3>4
  <2>3. CASE ~(asked = <<>> /\ \A i \in DOMAIN wire : wire[i].to = None)
    <3>1. pc = "wait"
      BY <2>1, <2>3, NothingComes
    <3>2. /\ \A i \in DOMAIN asked : asked[i] = request /\ queue = <<>>
          /\ \A i \in DOMAIN wire : wire[i].to # None => wire[i].to = request /\ queue = <<>>
      BY <2>1, <3>1, OneComes
    <3>3. queue = <<>> /\ A \cup B = {request.about}
      BY <1>2, <2>3, <3>2
    <3>4. ~Coming'
      BY <1>1, <3>3 DEF Coming
    <3> QED BY <1>1, <3>1, <3>3, <3>4
  <2> QED BY <2>2, <2>3
<1> HIDE DEF A, B
<1> QED BY <1>1, <1>4, <1>5, <1>6, LinkStep

\* Whatever the device and the network do.
LEMMA EnvironmentTrue ==
    ASSUME IInv, WInv, Environment, UNCHANGED <<walk, late>>
    PROVE  WInv'
BY AnswersTrue, VanishesTrue, LosesTrue, CutsTrue, BabblesTrue, BreaksTrue DEF Environment

(***************************************************************************)
(* A request and its response                                              *)
(***************************************************************************)
\* Of a walk that has stopped little is said.
LEMMA StoppedTrue ==
    ASSUME pc' \in {"raised", "closing", "closed"}
    PROVE  ComingTrue' /\ StackTrue' /\ SpoiltTrue' /\ MadeTrue' /\ GetsTrue'
BY DEF ComingTrue, StackTrue, SpoiltTrue, MadeTrue, GetsTrue, Walking, Asking

\* A step that stops the walk, or closes what it has left behind.
LEMMA LeavesTrue ==
    ASSUME WInv, UNCHANGED <<kind, asked, wire, queue, spoilt, odd, late>>,
           UNCHANGED <<request, answer, stack, tree>>,
           pc # "wait", pc' \in {"raised", "closing", "closed"}
    PROVE  WInv'
<1>1. LinkTrue' /\ LagTrue'
  BY WalkKeepsLink
<1>2. PlacedTrue'
  BY PlacedKeeps DEF WInv
<1> QED BY <1>1, <1>2, StoppedTrue DEF WInv

\* The constructor leaves the first request to be sent.
LEMMA ConnectTrue ==
    ASSUME IInv, WInv, Connect
    PROVE  WInv'
<1>1. /\ pc = "new" /\ pc' = (IF broken THEN "closed" ELSE "call")
      /\ UNCHANGED <<kind, asked, wire, broken, faults, spoilt, odd, queue>>
      /\ UNCHANGED <<request, answer, stack, tree, late>>
  BY DEF Connect, network
<1>2. CASE pc' = "closed"
  BY <1>1, <1>2, LeavesTrue
<1>3. CASE pc' = "call"
  <2>1. LinkTrue' /\ LagTrue'
    BY <1>1, <1>3, WalkKeepsLink
  <2>2. PlacedTrue'
    BY <1>1, PlacedKeeps DEF WInv
  <2>3. Clean' => Clean
    BY <1>1 DEF Clean
  <2>4. StackTrue' /\ SpoiltTrue' /\ MadeTrue' /\ GetsTrue'
    BY <1>1, <1>3, <2>3, SpoiltKeeps DEF Asking
  <2>5. ComingTrue'
    BY <1>1, <1>3, <2>3 DEF ComingTrue, WInv
  <2> QED BY <2>1, <2>2, <2>4, <2>5 DEF WInv
<1> QED BY <1>1, <1>2, <1>3

\* disconnect() comes after the walk.
LEMMA DisconnectTrue ==
    ASSUME IInv, WInv, Disconnect \/ Close
    PROVE  WInv'
<1>1. /\ pc # "wait" /\ pc' \in {"closing", "closed"}
      /\ UNCHANGED <<kind, asked, wire, queue, spoilt, odd, late, request, answer, stack, tree>>
  BY DEF Disconnect, Close, network, link
<1> QED BY <1>1, LeavesTrue

\* A walk that has nothing left to do has made all the nodes.
LEMMA FinishTrue ==
    ASSUME IInv, WInv, Finish
    PROVE  WInv'
<1>1. /\ pc = "walk" /\ stack = <<>> /\ pc' = "done"
      /\ UNCHANGED <<kind, asked, wire, queue, spoilt, odd, late, request, answer, stack, tree>>
  BY DEF Finish, link
<1>2. LinkTrue' /\ LagTrue'
  BY <1>1, WalkKeepsLink
<1>3. PlacedTrue'
  BY <1>1, PlacedKeeps DEF WInv
<1>4. MadeTrue'
  BY <1>1 DEF MadeTrue, WInv, Clean, Walking, Asking
<1>5. ComingTrue' /\ StackTrue' /\ SpoiltTrue' /\ GetsTrue'
  BY <1>1 DEF ComingTrue, StackTrue, SpoiltTrue, GetsTrue, Walking, Asking
<1> QED BY <1>2, <1>3, <1>4, <1>5 DEF WInv

\* The answer of a CAN client is handled when its thread has ended.
LEMMA JoinedTrue ==
    ASSUME IInv, WInv, Joined
    PROVE  WInv'
<1>1. /\ pc = "join" /\ pc' = "handle"
      /\ UNCHANGED <<kind, asked, wire, queue, spoilt, odd, late, request, answer, stack, tree>>
  BY DEF Joined, link
<1>2. LinkTrue' /\ LagTrue'
  BY <1>1, WalkKeepsLink
<1>3. PlacedTrue'
  BY <1>1, PlacedKeeps DEF WInv
<1>4. Clean' => Clean
  BY <1>1 DEF Clean
<1>5. StackTrue' /\ SpoiltTrue' /\ MadeTrue' /\ GetsTrue'
  BY <1>1, <1>4, SpoiltKeeps DEF Asking
<1>6. ComingTrue'
  BY <1>1, <1>4 DEF ComingTrue, WInv
<1> QED BY <1>2, <1>3, <1>5, <1>6 DEF WInv

\* What was asked and lost is not answered, and everything else is going to be.
LEMMA SendTrue ==
    ASSUME IInv, WInv, Send
    PROVE  WInv'
<1>1. /\ Simple /\ TrailOK /\ PiecesOK /\ LinkTrue /\ ComingTrue /\ LagTrue
      /\ pc = "call" /\ queue' = Kept /\ Opens
      /\ UNCHANGED <<kind, wire, odd, request, answer, stack, tree, late>>
      /\ \/ /\ pc' = "wait"
            /\ asked' = IF broken THEN asked ELSE Append(asked, request)
            /\ spoilt' = IF broken THEN spoilt \cup {request.about} ELSE spoilt
         \/ pc' = "raised" /\ UNCHANGED <<asked, spoilt>>
  BY DEF Send, Transmit, TransmitRaises, IInv, WInv, network
<1>2. PlacedTrue'
  <2>1. spoilt' = {} => spoilt = {}
    BY <1>1
  <2> QED BY <1>1, <2>1, PlacedKeeps DEF WInv
<1>3. LinkTrue'
  BY <1>1 DEF LinkTrue, Opens, start_receiving, Serial
<1>4. kind = "tcp" => Kept = queue
  BY DEF Kept
<1>5. CASE pc' = "raised" /\ UNCHANGED <<asked, spoilt>>
  <2>1. LagTrue'
    <3> SUFFICES ASSUME Lagging' PROVE Answered(Trail') # {}
      BY <1>5 DEF LagTrue
    <3>1. Lagging /\ UNCHANGED <<queue, wire, asked>>
      BY <1>1, <1>4, <1>5 DEF Lagging
    <3>2. Trail' = Trail
      BY <3>1 DEF Trail, Line, To
    <3> QED BY <1>1, <3>1, <3>2 DEF LagTrue
  <2> QED BY <1>2, <1>3, <1>5, <2>1, StoppedTrue DEF WInv
<1>6. CASE /\ pc' = "wait"
           /\ asked' = IF broken THEN asked ELSE Append(asked, request)
           /\ spoilt' = IF broken THEN spoilt \cup {request.about} ELSE spoilt
  <2>1. Clean' => Clean
    BY <1>1 DEF Clean
  <2>2. StackTrue' /\ SpoiltTrue' /\ MadeTrue' /\ GetsTrue'
    BY <1>1, <1>6, <2>1, SpoiltKeeps DEF Asking
  <2>3. ComingTrue'
    <3> SUFFICES ASSUME Clean'
                 PROVE  request.about \in spoilt' <=> ~Coming'
      BY <1>1, <1>6 DEF ComingTrue
    <3>1. /\ asked = <<>> /\ queue = <<>> /\ request.about \notin spoilt
          /\ \A i \in DOMAIN wire : wire[i].to = None
      BY <1>1, <2>1, NothingComes DEF ComingTrue
    <3>2. queue' = <<>>
      BY <1>1, <3>1 DEF Kept
    <3>3. \A i \in DOMAIN wire' : ~Proper(wire'[i])
      <4> TAKE i \in DOMAIN wire'
      <4>1. wire'[i] \in OnWire /\ wire'[i].to = None
        BY <1>1, <3>1 DEF Simple
      <4> QED BY <4>1, NoiseIsImproper
    <3>4. CASE broken
      BY <1>6, <3>1, <3>2, <3>3, <3>4 DEF Coming
    <3>5. CASE ~broken
      <4>1. asked' # <<>>
        BY <1>6, <3>1, <3>5
      <4> QED BY <1>6, <3>1, <3>5, <4>1 DEF Coming
    <3> QED BY <3>4, <3>5
  <2>4. LagTrue'
    <3> SUFFICES ASSUME Lagging'
                 PROVE  \E a, b \in Answered(Trail') :
                           a < b /\ (request.what = "metadata" => Trail'[a].what = "ids")
      BY <1>1, <1>6 DEF LagTrue
    <3>1. ~broken /\ spoilt' = {}
      BY <1>6 DEF Lagging
    <3>2. Lagging /\ UNCHANGED queue /\ asked' = Append(asked, request) /\ Mild
      BY <1>1, <1>4, <1>6, <3>1 DEF Lagging, Mild, PiecesOK, Serial
    <3>3. /\ request \in Questions /\ request # None /\ request \in Asked
          /\ Trail \in Seq(Asked)
      BY <1>1, TrailFacts, NoneIsNoQuestion, SentFacts DEF Simple
    <3>4. Trail' = Append(Trail, request)
      <4>1. Line(Kept, wire, Append(asked, request)) = Append(Line(Kept, wire, asked), request)
        BY <1>1, <3>3, KeptFacts
      <4>2. Kept = queue
        BY <1>4, <3>2 DEF Lagging
      <4> QED BY <1>1, <3>2, <4>1, <4>2 DEF Trail, Line, To
    <3>5. PICK a \in Answered(Trail) : TRUE
      BY <1>1, <3>2 DEF LagTrue
    <3> DEFINE b == Len(Trail) + 1
    <3>6. /\ a \in DOMAIN Trail /\ Trail[a] # None
          /\ request.what = "metadata" => Trail[a].what = "ids"
      BY <1>1, <3>2, <3>5 DEF TrailOK, Answered
    <3>7. /\ a \in DOMAIN Trail' /\ b \in DOMAIN Trail' /\ a < b
          /\ Trail'[a] = Trail[a] /\ Trail'[b] = request
      BY <3>3, <3>4, <3>6
    <3> HIDE DEF b
    <3>8. a \in Answered(Trail') /\ b \in Answered(Trail')
      BY <3>3, <3>6, <3>7 DEF Answered
    <3> QED BY <3>6, <3>7, <3>8
  <2> QED BY <1>2, <1>3, <2>2, <2>3, <2>4 DEF WInv
<1> QED BY <1>1, <1>5, <1>6

\* What is the same in both ways to get an answer.
LEMMA ReceivedTrue ==
    ASSUME IInv, WInv, NEW r, Received(r), late' \in {late, late + 1}, queue' \in Seq(Parsed),
           Clean' => (request.about \in spoilt <=> ~(r # None /\ Proper(r))),
           LagTrue'
    PROVE  WInv'
<1>1. /\ Simple /\ LinkTrue /\ pc = "wait" /\ pc' \in {"join", "handle"} /\ answer' = r
      /\ UNCHANGED <<kind, asked, wire, broken, faults, spoilt, odd, request, stack, tree>>
      /\ late \in Nat
  BY SchemaWalkAssumption DEF Received, IInv, WInv, Simple, network
<1>2. Clean' => Clean
  <2>1. ASSUME late' = 0 PROVE late = 0
    BY <1>1, <2>1
  <2> QED BY <1>1, <2>1 DEF Clean
<1>3. StackTrue' /\ SpoiltTrue' /\ MadeTrue' /\ GetsTrue'
  BY <1>1, <1>2, SpoiltKeeps DEF Asking
<1>4. ComingTrue'
  BY <1>1 DEF ComingTrue
<1>5. LinkTrue'
  BY <1>1 DEF LinkTrue, Serial
<1>6. PlacedTrue'
  <2>1. late' <= 1 => late <= 1
    BY <1>1
  <2> QED BY <1>1, <2>1, PlacedKeeps DEF WInv
<1> QED BY <1>3, <1>4, <1>5, <1>6 DEF WInv

\* No answer is not one.
LEMMA NoneIsNoAnswer == None \notin Parsed
BY SchemaWalkAssumption DEF Parsed, Questions

\* A response is the one to the request, or, after a late one, to the one before.
LEMMA GetResponseTrue ==
    ASSUME IInv, WInv, GetResponse
    PROVE  WInv'
<1> DEFINE r == Head(queue)
           X == Line(Tail(queue), wire, asked)
<1>1. /\ Simple /\ TrailOK /\ PiecesOK /\ LagTrue /\ ComingTrue
      /\ queue # <<>> /\ queue' = Tail(queue) /\ Received(r) /\ late' = late /\ late \in Nat
      /\ queue \in Seq(Parsed) /\ wire \in Seq(OnWire)
  BY SchemaWalkAssumption DEF GetResponse, IInv, WInv, Simple
<1>2. /\ pc = "wait" /\ pc' \in {"join", "handle"} /\ answer' = r
      /\ UNCHANGED <<kind, asked, wire, spoilt, odd, request>>
  BY <1>1 DEF Received, network
<1>3. /\ r = queue[1] /\ r \in Parsed /\ 1 \in DOMAIN queue /\ queue' \in Seq(Parsed)
      /\ r # None /\ (~odd => r.to # None)
  <2>1. r = queue[1] /\ r \in Parsed /\ 1 \in DOMAIN queue /\ queue' \in Seq(Parsed)
    BY <1>1
  <2> HIDE DEF r
  <2>2. ~odd => r.to # None
    BY <1>1, <2>1 DEF PiecesOK
  <2> QED BY <2>1, <2>2, NoneIsNoAnswer
<1>4. ASSUME Clean'
      PROVE  request.about \in spoilt <=> ~(r # None /\ Proper(r))
  <2>1. Clean
    BY <1>1, <1>2, <1>4 DEF Clean
  <2>2. /\ \A i \in DOMAIN queue : i = 1
        /\ \A i \in DOMAIN asked : queue = <<>>
        /\ \A i \in DOMAIN wire : wire[i].to # None => queue = <<>>
    BY <1>2, <2>1, OneComes
  <2>3. asked = <<>>
    <3>1. asked \in Seq(Questions) /\ DOMAIN asked = {}
      BY <1>1, <2>2 DEF Simple
    <3> QED BY <3>1
  <2>4. \A i \in DOMAIN wire : ~Proper(wire[i])
    <3> TAKE i \in DOMAIN wire
    <3>1. wire[i] \in OnWire /\ wire[i].to = None
      BY <1>1, <2>2
    <3> QED BY <3>1, NoiseIsImproper
  <2>5. Coming <=> Proper(r)
    <3> HIDE DEF r
    <3> QED BY <1>3, <2>2, <2>3, <2>4 DEF Coming
  <2>6. request.about \in spoilt <=> ~Coming
    BY <1>1, <1>2, <2>1 DEF ComingTrue
  <2> QED BY <1>3, <2>5, <2>6
<1>5. LagTrue'
  <2> SUFFICES ASSUME Lagging'
               PROVE  /\ Answered(Trail') # {}
                      /\ request.what = "metadata" => r.to.what = "ids"
    BY <1>2 DEF LagTrue
  <2>1. Lagging /\ Mild
    BY <1>1, <1>2 DEF Lagging, Mild, PiecesOK, Serial
  <2>2. PICK a, b \in Answered(Trail) :
           a < b /\ (request.what = "metadata" => Trail[a].what = "ids")
    BY <1>1, <1>2, <2>1 DEF LagTrue
  <2>3. /\ X \in Seq(Asked) /\ Len(Trail) = 1 + Len(X) /\ Trail \in Seq(Asked)
        /\ \A i \in 1..Len(X) : Trail[1 + i] = X[i]
        /\ Trail[1] = r.to
    BY <1>1, TakenFromLine, TrailFacts
  <2>4. Trail' = X
    BY <1>1, <1>2 DEF Trail, Line, To
  <2> HIDE DEF X, r
  <2>5. /\ a \in 1..Len(Trail) /\ b \in 1..Len(Trail) /\ Trail[a] # None /\ Trail[b] # None
        /\ Len(X) \in Nat /\ DOMAIN Trail = 1..Len(Trail) /\ DOMAIN X = 1..Len(X)
    BY <2>2, <2>3 DEF Answered
  <2> DEFINE c == b - 1
  <2>6. c \in 1..Len(X) /\ 1 + c = b
    BY <2>2, <2>3, <2>5
  <2> HIDE DEF c
  <2>7. c \in Answered(X)
    BY <2>3, <2>5, <2>6 DEF Answered
  <2>8. 1 \in Answered(Trail)
    BY <1>3, <2>1, <2>3, <2>5 DEF Answered, Mild
  <2>9. a = 1
    <3>1. AtMostTwo(Trail)
      BY <1>1, <1>2, <2>1 DEF TrailOK, Behind
    <3>2. ~(1 < a /\ a < b)
      BY <2>2, <2>8, <3>1 DEF AtMostTwo
    <3> QED BY <2>2, <2>5, <3>2
  <2> QED BY <2>2, <2>3, <2>4, <2>7, <2>9
<1> QED BY <1>1, <1>3, <1>4, <1>5, ReceivedTrue

\* A timeout that is not late is one for what was lost.
LEMMA TimeOutTrue ==
    ASSUME IInv, WInv, TimeOut
    PROVE  WInv'
<1>1. /\ Simple /\ PiecesOK /\ LagTrue /\ ComingTrue /\ LinkTrue
      /\ queue = <<>> /\ queue' = queue /\ Received(None)
      /\ late' = (IF asked = <<>> /\ wire = <<>> THEN late ELSE late + 1)
      /\ late \in Nat
      /\ queue \in Seq(Parsed) /\ wire \in Seq(OnWire) /\ asked \in Seq(Questions)
  BY SchemaWalkAssumption DEF TimeOut, IInv, WInv, Simple
<1>2. /\ pc = "wait" /\ pc' \in {"join", "handle"} /\ answer' = None
      /\ UNCHANGED <<kind, asked, wire, spoilt, odd, request>>
  BY <1>1 DEF Received, network
<1>3. ASSUME Clean'
      PROVE  request.about \in spoilt
  <2>1. asked = <<>> /\ wire = <<>> /\ late = 0
    BY <1>1, <1>3 DEF Clean
  <2>2. Clean
    BY <1>2, <1>3, <2>1 DEF Clean
  <2>3. ~Coming
    BY <1>1, <2>1 DEF Coming
  <2> QED BY <1>1, <1>2, <2>2, <2>3 DEF ComingTrue
<1>4. LagTrue'
  <2> SUFFICES ASSUME Lagging' PROVE Answered(Trail') # {}
    BY <1>2 DEF LagTrue
  <2>1. Trail' = Trail /\ ~odd
    BY <1>1, <1>2 DEF Trail, Line, To, Lagging, PiecesOK, Serial
  <2>2. CASE late' = late
    <3>1. Lagging
      BY <1>2, <2>2 DEF Lagging
    <3> QED BY <1>1, <1>2, <2>1, <3>1 DEF LagTrue
  <2>3. CASE late' # late
    <3>1. asked # <<>> \/ wire # <<>>
      BY <1>1, <2>3
    <3>2. CASE asked # <<>>
      <4>1. 1 \in 1..Len(asked)
        BY <1>1, <3>2
      <4>2. Len(queue) + Len(wire) + 1 \in Answered(Trail)
        BY <1>1, <2>1, <4>1, TrailElements
      <4> QED BY <2>1, <4>2
    <3>3. CASE wire # <<>>
      <4>1. 1 \in 1..Len(wire) /\ 1 \in DOMAIN wire
        BY <1>1, <3>3
      <4>2. wire[1].to # None
        BY <1>1, <1>2, <4>1 DEF LinkTrue, Serial, Lagging
      <4>3. Len(queue) + 1 \in Answered(Trail)
        BY <1>1, <2>1, <4>1, <4>2, TrailElements
      <4> QED BY <2>1, <4>3
    <3> QED BY <3>1, <3>2, <3>3
  <2> QED BY <2>2, <2>3
<1> QED BY <1>1, <1>3, <1>4, ReceivedTrue

\* In a clean walk a request has its own response, or its object is spoilt.
LEMMA OwnAnswer ==
    ASSUME IInv, WInv, Clean, pc = "handle"
    PROVE  /\ request.about \notin spoilt =>
                 /\ answer # None /\ answer \in Parsed /\ answer.to = request
                 /\ Status = "content" /\ HasContent /\ Values = Data(answer)
                 /\ answer.form = "content"
           /\ request.about \in spoilt => Status # "content" /\ ~HasContent /\ Values = <<>>
<1>1. /\ Simple /\ PiecesOK /\ AnswerOK /\ ComingTrue /\ Mild /\ late = 0 /\ ~odd
  BY SchemaWalkAssumption DEF IInv, WInv, Clean, Mild
<1>2. /\ answer \in Parsed \cup {None}
      /\ request.about \in spoilt <=> ~(answer # None /\ Proper(answer))
  BY <1>1 DEF Simple, ComingTrue, Clean
<1>3. CASE answer # None /\ Proper(answer)
  <2>1. answer.to = request
    BY <1>1, <1>3 DEF AnswerOK
  <2>2. answer.form = "content" /\ Status = "content" /\ HasContent
    BY <1>3 DEF Proper, Status, HasContent
  <2> QED BY <1>2, <1>3, <2>1, <2>2 DEF Values
<1>4. CASE ~(answer # None /\ Proper(answer))
  <2>1. Status # "content" /\ Status # "wrong"
    <3>1. CASE answer = None
      BY <3>1, SchemaWalkAssumption DEF Status
    <3>2. CASE answer # None
      <4>1. answer \in Parsed /\ answer.form # "content" /\ answer.form # "wrong"
        BY <1>1, <1>2, <1>4, <3>2 DEF PiecesOK, Proper
      <4> QED BY <3>2, <4>1 DEF Status
    <3> QED BY <3>1, <3>2
  <2> QED BY <1>2, <1>4, <2>1 DEF HasContent, Values
<1> QED BY <1>3, <1>4

\* What a text client is to get is what it has when it asked for everything.
LEMMA ReferenceOfGets ==
    ASSUME NEW S, "serial" \in Kinds
    PROVE  Traversal("serial", S) = Got(S, Len(Gets))
<1>1. DOMAIN Gets = 1..Len(Gets)
  BY GetsFacts
<1> QED BY <1>1 DEF Traversal, Got

\* Its values are those of the objects it has asked for.
LEMMA HandleGetTrue ==
    ASSUME IInv, WInv, HandleGet
    PROVE  WInv'
<1> DEFINE o == request.about
           next == CHOOSE i \in DOMAIN Gets : Gets[i] = o
           tree1 == IF Values = <<>> THEN tree
                    ELSE Append(tree, SchemaNode(o, Values[1].of, <<>>))
<1>1. /\ Simple /\ RequestOK /\ GetsTrue /\ pc = "handle" /\ request.what = "get"
      /\ tree' = tree1
      /\ \/ next = Len(Gets) /\ pc' = "done" /\ request' = request
         \/ next # Len(Gets) /\ pc' = "call" /\ request' = GetOf(Gets[next + 1])
      /\ UNCHANGED <<kind, asked, wire, queue, spoilt, odd, late, answer, stack>>
  BY DEF HandleGet, IInv, WInv, link
<1>2. kind = "serial" /\ stack = <<>> /\ "serial" \in Kinds
  BY <1>1 DEF RequestOK, Simple
<1>3. LinkTrue' /\ LagTrue'
  <2> HIDE DEF tree1, next
  <2> QED BY <1>1, WalkKeepsLink
<1>4. PlacedTrue' /\ StackTrue' /\ SpoiltTrue'
  BY <1>1, <1>2 DEF PlacedTrue, Sound, StackTrue, SpoiltTrue
<1>5. CASE ~Clean'
  <2>1. ComingTrue' /\ MadeTrue' /\ GetsTrue'
    BY <1>5 DEF ComingTrue, MadeTrue, GetsTrue
  <2> QED BY <1>3, <1>4, <2>1 DEF WInv
<1>6. CASE Clean'
  <2>1. Clean
    BY <1>1, <1>6 DEF Clean
  <2>2. PICK m \in DOMAIN Gets :
           /\ request = GetOf(Gets[m]) /\ tree = Got(spoilt, m - 1)
           /\ \A x \in spoilt : \E i \in 1..m : x = Gets[i]
    BY <1>1, <1>2, <2>1 DEF GetsTrue, Asking
  <2>3. /\ o = Gets[m] /\ m \in 1..Len(Gets) /\ Len(Gets) \in Nat /\ o \in Objects
        /\ request.names = <<Id(o)>>
    BY <1>2, <2>2, GetsFacts DEF GetOf, Request
  <2>4. next = m
    <3>1. \A i \in DOMAIN Gets : Gets[i] = o => i = m
      BY <1>2, <2>3, GetsFacts
    <3> QED BY <2>3, <3>1
  <2>5. /\ Got(spoilt, m - 1) \in Seq(NodeType)
        /\ Got(spoilt, m) = Got(spoilt, m - 1) \o Value(spoilt, Gets[m])
    <3>1. /\ m \in Nat /\ m # 0 /\ m <= Len(Gets) /\ m - 1 \in Nat /\ m - 1 <= Len(Gets)
      BY <2>3
    <3> QED BY <1>2, <3>1, GotStep
  <2>6. tree' = Got(spoilt, m)
    <3>1. CASE o \in spoilt
      <4>1. Values = <<>>
        BY <1>1, <2>1, <3>1, OwnAnswer
      <4>2. Value(spoilt, Gets[m]) = <<>>
        BY <2>3, <3>1 DEF Value
      <4>3. tree \in Seq(NodeType)
        BY <1>1 DEF Simple
      <4> QED BY <1>1, <2>2, <2>5, <4>1, <4>2, <4>3
    <3>2. CASE o \notin spoilt
      <4>1. answer.to = request /\ Values = Data(answer) /\ answer.form # "wrong"
        BY <1>1, <2>1, <3>2, OwnAnswer
      <4>2. Values = [i \in DOMAIN request.names |-> Metadata(request.names[i].of)]
        BY <1>1, <4>1 DEF Data
      <4>3. Values # <<>> /\ Values[1].of = o
        <5>1. DOMAIN request.names = {1} /\ request.names[1].of = o
          BY <2>3 DEF Id
        <5>2. DOMAIN Values = {1}
          BY <4>2, <5>1
        <5> QED BY <4>2, <5>1, <5>2 DEF Metadata
      <4> DEFINE x == SchemaNode(o, o, <<>>)
      <4>4. tree' = Append(tree, x) /\ Value(spoilt, Gets[m]) = <<x>>
        BY <1>1, <2>3, <3>2, <4>3 DEF Value
      <4>5. x \in NodeType /\ tree \in Seq(NodeType)
        <5>1. <<>> \in Seq(Objects)
          BY NoElements
        <5> QED BY <1>1, <2>3, <5>1 DEF SchemaNode, NodeType, Simple
      <4> HIDE DEF x
      <4>6. Append(tree, x) = tree \o <<x>>
        BY <4>5
      <4> QED BY <2>2, <2>5, <4>4, <4>6
    <3> QED BY <3>1, <3>2
  <2> HIDE DEF tree1, next
  <2>7. MadeTrue'
    <3> SUFFICES ASSUME pc' = "done" PROVE tree' = Traversal(kind, spoilt)
      BY <1>1, <1>2 DEF MadeTrue
    <3>1. m = Len(Gets)
      BY <1>1, <2>4
    <3> QED BY <1>2, <2>6, <3>1, ReferenceOfGets
  <2>8. CASE pc' = "done"
    <3>1. ComingTrue' /\ GetsTrue'
      BY <2>8 DEF ComingTrue, GetsTrue, Asking
    <3> QED BY <1>3, <1>4, <2>7, <3>1 DEF WInv
  <2>9. CASE pc' = "call"
    <3> DEFINE n == m + 1
    <3>1. n \in 1..Len(Gets) /\ n - 1 = m /\ request' = GetOf(Gets[n])
      BY <1>1, <2>3, <2>4, <2>9
    <3>2. n \in DOMAIN Gets /\ \A i \in 1..m : i \in DOMAIN Gets /\ i # n /\ i \in 1..n
      BY <1>2, <2>3, <3>1, GetsFacts
    <3> HIDE DEF n
    <3>3. \A i \in 1..m : Gets[i] # Gets[n]
      BY <1>2, <3>2, GetsFacts
    <3>4. request'.about \notin spoilt
      <4>1. request'.about = Gets[n]
        BY <3>1 DEF GetOf, Request
      <4> QED BY <2>2, <3>3, <4>1
    <3>5. ComingTrue'
      BY <1>1, <2>9, <3>4 DEF ComingTrue
    <3>6. \A x \in spoilt : \E i \in 1..n : x = Gets[i]
      BY <2>2, <3>2
    <3>7. GetsTrue'
      BY <1>1, <2>6, <3>1, <3>2, <3>6 DEF GetsTrue
    <3> QED BY <1>3, <1>4, <2>7, <3>5, <3>7 DEF WInv
  <2> QED BY <1>1, <2>8, <2>9
<1> QED BY <1>5, <1>6

(***************************************************************************)
(* Steps of the walk within a frame                                        *)
(***************************************************************************)
LEMMA ConcatThree ==
    ASSUME NEW N, NEW a \in Seq(N), NEW b \in Seq(N), NEW c \in Seq(N)
    PROVE  (a \o b) \o c = a \o (b \o c) /\ b \o c \in Seq(N)
OBVIOUS

\* What the frame has made are nodes.
LEMMA MadeSoFarType ==
    ASSUME NEW k, NEW S, NEW f \in FrameType, Underway(k, S, f) \/ (f.i = 1 /\ ~f.walked)
    PROVE  MadeSoFar(k, S, f) \in Seq(NodeType)
<1> DEFINE p == f.group.of
           u == f.under
           n == Len(Children[p])
           rest == IF f.walked THEN NodesOf(k, S, Children[p][f.i], Deeper(f)) ELSE <<>>
<1>1. CASE f.i = 1 /\ ~f.walked
  BY <1>1, MadeByNone, NoElements
<1>2. CASE Underway(k, S, f)
  <2>1. p \in Objects /\ u \in Seq(Objects) /\ n \in Nat /\ f.i \in Nat /\ f.i >= 1
    BY FrameFacts
  <2>2. f.i <= n + 1 /\ (f.walked => f.i <= n)
    BY <1>2 DEF Underway
  <2> DEFINE m == f.i - 1
  <2>3. m \in Nat /\ m <= n /\ (f.walked => f.i \in 1..n)
    BY <2>1, <2>2
  <2>4. rest \in Seq(NodeType)
    <3>1. CASE f.walked
      BY <2>1, <2>3, <3>1, MemberType DEF Deeper
    <3>2. CASE ~f.walked
      BY <3>2, NoElements
    <3> QED BY <3>1, <3>2
  <2> HIDE DEF m
  <2>5. Parts(k, S, p, u, m) \in Seq(NodeType)
    BY <2>1, <2>3, PartsStep
  <2> HIDE DEF rest, p, u, n
  <2>6. Parts(k, S, p, u, m) \o rest \in Seq(NodeType)
    BY <2>4, <2>5, ConcatElements
  <2> QED BY <2>6 DEF MadeSoFar, rest, p, u, n, m
<1> QED BY <1>1, <1>2

\* The members that a frame is done with, if it is the innermost one.
Done(f) == IF f.walked THEN f.i ELSE f.i - 1

\* The frame f is the innermost one after a step that makes the nodes X.
Onward(k, S, f, X) ==
    /\ pc' = "walk" => Underway(k, S, f)
    /\ pc' = "call" => Asks(f, request') /\ request'.about \notin S
    /\ Done(Top) <= Done(f)
    /\ MadeSoFar(k, S, f) = MadeSoFar(k, S, Top) \o X

\* What the innermost frame is, asking or going through its members.
LEMMA TopFacts ==
    ASSUME IInv, WInv, Clean, pc \in Walking, stack # <<>>
    PROVE  /\ Chain(kind, spoilt, stack) /\ Top \in FrameType /\ stack \in Seq(FrameType)
           /\ Top = stack[Len(stack)] /\ Last(stack) = Top
           /\ Underway(kind, spoilt, Top) \/ (Top.i = 1 /\ ~Top.walked)
           /\ Done(Top) \in Nat /\ Done(Top) <= Len(Children[Top.group.of])
           /\ \A i \in 1..Done(Top) : i \in DOMAIN Children[Top.group.of]
           /\ MadeSoFar(kind, spoilt, Top) \in Seq(NodeType)
           /\ MadeAbove(kind, spoilt, stack, Len(stack) - 1) \in Seq(NodeType)
<1>1. StackTrue /\ Simple
  BY DEF IInv, WInv
<1>2. Chain(kind, spoilt, stack) /\ Top \in FrameType /\ stack \in Seq(FrameType)
  BY <1>1, StackFacts DEF StackTrue
<1>3. Top = stack[Len(stack)] /\ Last(stack) = Top /\ Len(stack) \in Nat /\ Len(stack) >= 1
  BY <1>1, StackFacts DEF Top
<1>4. Underway(kind, spoilt, Top) \/ (Top.i = 1 /\ ~Top.walked)
  BY <1>1 DEF StackTrue, Asks
<1>5. /\ Top.i \in Nat /\ Top.i >= 1 /\ Len(Children[Top.group.of]) \in Nat
      /\ DOMAIN Children[Top.group.of] = 1..Len(Children[Top.group.of])
  BY <1>2, FrameFacts
<1>6. /\ Done(Top) \in Nat /\ Done(Top) <= Len(Children[Top.group.of])
      /\ \A i \in 1..Done(Top) : i \in DOMAIN Children[Top.group.of]
  BY <1>4, <1>5 DEF Done, Underway
<1>7. MadeSoFar(kind, spoilt, Top) \in Seq(NodeType)
  BY <1>2, <1>4, MadeSoFarType
<1>8. MadeAbove(kind, spoilt, stack, Len(stack) - 1) \in Seq(NodeType)
  <2>1. Len(stack) - 1 \in 0..(Len(stack) - 1)
    BY <1>3
  <2> QED BY <1>2, <2>1, MadeAboveStep
<1> QED BY <1>2, <1>3, <1>4, <1>6, <1>7, <1>8

\* A step that changes the innermost frame only, and makes the nodes X.
LEMMA FrameChanged ==
    ASSUME IInv, IInv', WInv, kind # "serial", stack # <<>>,
           NEW f \in FrameType, stack' = [stack EXCEPT ![Len(stack)] = f], SameGroup(f, Top),
           UNCHANGED <<kind, asked, wire, queue, spoilt, odd, late, answer>>,
           pc \in {"handle", "walk"}, pc' \in {"call", "walk"},
           NEW X \in Seq(NodeType), tree' = tree \o X,
           Clean => Onward(kind, spoilt, f, X), PlacedTrue'
    PROVE  WInv'
<1> DEFINE s == stack
           t == stack'
           n == Len(stack)
           S == spoilt
<1>1. Simple /\ MadeTrue /\ SpoiltTrue
  BY DEF IInv, WInv
<1>2. /\ t \in Seq(FrameType) /\ Len(t) = n /\ t # <<>> /\ t[n] = f /\ Last(t) = f /\ Top' = f
      /\ Replaced(s, t, f) /\ \A j \in 1..(n - 1) : t[j] = s[j]
  BY <1>1, NewTop DEF Top, Replaced
<1>0. n \in Nat /\ n >= 1
  BY <1>1, StackFacts
<1>3. LinkTrue' /\ LagTrue'
  BY WalkKeepsLink
<1>4. GetsTrue'
  BY DEF GetsTrue
<1>5. CASE ~Clean'
  <2>1. ComingTrue' /\ StackTrue' /\ SpoiltTrue' /\ MadeTrue'
    BY <1>5 DEF ComingTrue, StackTrue, SpoiltTrue, MadeTrue
  <2> QED BY <1>3, <1>4, <2>1 DEF WInv
<1>6. CASE Clean'
  <2>1. Clean /\ pc \in Walking /\ pc' \in Walking /\ Onward(kind, S, f, X)
    BY <1>6 DEF Clean, Walking, Asking
  <2>2. /\ Chain(kind, S, s) /\ s \in Seq(FrameType) /\ Last(s) = Top /\ Top \in FrameType
        /\ MadeSoFar(kind, S, Top) \in Seq(NodeType)
        /\ MadeAbove(kind, S, s, n - 1) \in Seq(NodeType)
    BY <2>1, TopFacts
  <2>3. ComingTrue'
    BY <2>1 DEF ComingTrue, Onward
  <2>4. StackTrue'
    <3>1. Chain(kind, S, t)
      BY <1>2, <2>2, ChainReplaced
    <3> QED BY <1>2, <2>1, <3>1 DEF StackTrue, Onward
  <2>5. SpoiltTrue'
    <3> SUFFICES ASSUME NEW o \in S
                 PROVE  o = f.group.of \/ BelowPassed(kind, t, o)
      BY <1>2 DEF SpoiltTrue
    <3>1. o = Top.group.of \/ BelowPassed(kind, s, o)
      BY <1>1, <2>1 DEF SpoiltTrue
    <3>2. CASE o = Top.group.of
      BY <3>2 DEF SameGroup
    <3>3. CASE BelowPassed(kind, s, o)
      <4>1. PICK j \in 1..n : \E m \in 1..Passed(kind, s, j) :
                                 o \in Subtree(Children[s[j].group.of][m])
        BY <3>3 DEF BelowPassed
      <4>2. PICK m \in 1..Passed(kind, s, j) : o \in Subtree(Children[s[j].group.of][m])
        BY <4>1
      <4>3. s[j].group = t[j].group /\ m \in 1..Passed(kind, t, j)
        <5>1. CASE j < n
          <6>0. j \in 1..(n - 1)
            <7> HIDE DEF n
            <7> QED BY <1>0, <5>1
          <6>1. t[j] = s[j]
            BY <1>2, <6>0, Zenon
          <6> QED BY <1>2, <5>1, <6>1, <4>2, Zenon DEF Passed
        <5>2. CASE j = n
          <6>1. s[j] = Top /\ t[j] = f
            BY <1>2, <2>1, <5>2, TopFacts
          <6>0. ~(j < n)
            <7> HIDE DEF n
            <7> QED BY <1>0, <5>2
          <6>2. Passed(kind, s, j) = Done(Top) /\ Passed(kind, t, j) = Done(f)
            <7>1. ~(j < Len(s)) /\ ~(j < Len(t))
              BY <1>2, <6>0
            <7> HIDE DEF s, t, n
            <7> QED BY <6>1, <7>1 DEF Passed, Done
          <6>3. Done(f) \in Int /\ Done(Top) \in Int /\ Done(Top) <= Done(f)
            <7>1. f.i \in Nat /\ Top.i \in Nat
              BY <2>2, FrameFacts
            <7> QED BY <2>1, <7>1 DEF Onward, Done
          <6> QED BY <4>2, <6>1, <6>2, <6>3 DEF SameGroup
        <5> QED BY <5>1, <5>2, <1>1, StackFacts
      <4> QED BY <1>2, <4>2, <4>3, Zenon DEF BelowPassed
    <3> QED BY <3>1, <3>2, <3>3
  <2>6. MadeTrue'
    <3> SUFFICES tree' = MadeAbove(kind, S, t, n - 1) \o MadeSoFar(kind, S, f)
      BY <1>2 DEF MadeTrue
    <3>1. tree = MadeAbove(kind, S, s, n - 1) \o MadeSoFar(kind, S, Top)
      BY <1>1, <2>1 DEF MadeTrue
    <3>2. SamePrefix(s, t, n - 1)
      BY <1>2, Zenon DEF SamePrefix
    <3>3. MadeAbove(kind, S, t, n - 1) = MadeAbove(kind, S, s, n - 1)
      BY <3>2, MadeAboveSame
    <3> DEFINE A == MadeAbove(kind, S, s, n - 1)
               B == MadeSoFar(kind, S, Top)
    <3>4. (A \o B) \o X = A \o (B \o X)
      <4> HIDE DEF A, B
      <4>1. A \in Seq(NodeType) /\ B \in Seq(NodeType)
        BY <2>2 DEF A, B
      <4> QED BY <4>1, ConcatThree
    <3> QED BY <2>1, <3>1, <3>3, <3>4 DEF Onward
  <2> QED BY <1>3, <1>4, <2>3, <2>4, <2>5, <2>6 DEF WInv
<1> QED BY <1>5, <1>6

\* What a device answers to a request for ids, and for metadata.
LEMMA OwnData ==
    ASSUME NEW r, r.form = "content", NEW g \in Objects
    PROVE  /\ r.to = IdsOf(g, Id(g)) => Data(r) = Kids(g)
           /\ r.to = MetadataOf(g, Kids(g)) => Data(r) = Labels(g)
<1>1. CASE r.to = IdsOf(g, Id(g))
  <2>1. r.to.what = "ids" /\ r.to.names = <<Id(g)>>
    BY <1>1 DEF IdsOf, Request
  <2>2. r.to.names[1].of = g
    BY <2>1 DEF Id
  <2>3. r.to # MetadataOf(g, Kids(g))
    BY <2>1 DEF MetadataOf, Request
  <2> QED BY <2>1, <2>2, <2>3 DEF Data, Kids
<1>2. CASE r.to = MetadataOf(g, Kids(g))
  <2>1. r.to.what = "metadata" /\ r.to.names = Kids(g)
    BY <1>2 DEF MetadataOf, Request
  <2>2. /\ DOMAIN Kids(g) = DOMAIN Children[g]
        /\ \A i \in DOMAIN Children[g] : Kids(g)[i].of = Children[g][i]
    BY DEF Kids, Id
  <2>3. Data(r) = [i \in DOMAIN Kids(g) |-> Metadata(Kids(g)[i].of)]
    BY <2>1 DEF Data
  <2>4. [i \in DOMAIN Kids(g) |-> Metadata(Kids(g)[i].of)] = Labels(g)
    BY <2>2 DEF Labels
  <2>5. r.to # IdsOf(g, Id(g))
    BY <2>1 DEF IdsOf, Request
  <2> QED BY <2>3, <2>4, <2>5
<1> QED BY <1>1, <1>2

\* The ids and the metadata of the members, one by one.
LEMMA KidsFacts ==
    ASSUME NEW g \in Objects
    PROVE  /\ Kids(g) \in Seq(Elements) /\ Labels(g) \in Seq(Elements)
           /\ Len(Kids(g)) = Len(Children[g]) /\ Len(Labels(g)) = Len(Children[g])
           /\ DOMAIN Kids(g) = DOMAIN Children[g] /\ DOMAIN Labels(g) = DOMAIN Children[g]
           /\ \A i \in DOMAIN Children[g] : /\ Kids(g)[i] = Id(Children[g][i])
                                            /\ Labels(g)[i] = Metadata(Children[g][i])
           /\ Kids(g) = <<>> <=> Children[g] = <<>>
<1> DEFINE n == Len(Children[g])
<1>1. /\ Children[g] \in Seq(Objects) /\ n \in Nat /\ DOMAIN Children[g] = 1..n
      /\ \A i \in 1..n : Children[g][i] \in Objects
  BY MembersAre
<1>2. \A o \in Objects : Id(o) \in Elements /\ Metadata(o) \in Elements
  BY DEF Id, Metadata, Elements
<1>3. /\ Kids(g) = [i \in 1..n |-> Id(Children[g][i])]
      /\ Labels(g) = [i \in 1..n |-> Metadata(Children[g][i])]
  BY <1>1 DEF Kids, Labels
<1> HIDE DEF n
<1>4. /\ Kids(g) = [i \in 1..n |-> Kids(g)[i]] /\ Labels(g) = [i \in 1..n |-> Labels(g)[i]]
      /\ \A i \in 1..n : Kids(g)[i] \in Elements /\ Labels(g)[i] \in Elements
  BY <1>1, <1>2, <1>3
<1>5. /\ Kids(g) \in Seq(Elements) /\ Len(Kids(g)) = n
      /\ Labels(g) \in Seq(Elements) /\ Len(Labels(g)) = n
  BY <1>1, <1>4, FromElements
<1>6. Kids(g) = <<>> <=> n = 0
  BY <1>5
<1>7. Children[g] = <<>> <=> n = 0
  BY <1>1 DEF n
<1> QED BY <1>1, <1>3, <1>5, <1>6, <1>7 DEF n

\* The TCP client's nodes stay among the device's when the innermost frame changes.
LEMMA PlacedFrame ==
    ASSUME Simple, PlacedTrue, stack # <<>>, NEW f \in FrameType,
           stack' = [stack EXCEPT ![Len(stack)] = f], UNCHANGED <<kind, spoilt, late>>,
           Sound => Placed(kind, f) /\ Among(tree', Traversal(kind, {}))
    PROVE  PlacedTrue'
<1> DEFINE t == stack'
           n == Len(stack)
<1>1. /\ n \in Nat /\ n >= 1 /\ stack \in Seq(FrameType)
      /\ t \in Seq(FrameType) /\ Len(t) = n /\ t[n] = f
      /\ \A j \in 1..(n - 1) : t[j] = stack[j]
  BY NewTop, StackFacts
<1> HIDE DEF t
<1>2. DOMAIN stack = 1..n /\ DOMAIN t = 1..n
  BY <1>1
<1> HIDE DEF n
<1> SUFFICES ASSUME Sound, NEW j \in DOMAIN t PROVE Placed(kind, t[j])
  BY DEF PlacedTrue, Sound, t
<1>5. j = n \/ j \in 1..(n - 1)
  BY <1>1, <1>2
<1>3. \A i \in DOMAIN stack : Placed(kind, stack[i])
  BY DEF PlacedTrue
<1>4. j \in DOMAIN stack
  BY <1>2
<1> QED BY <1>1, <1>3, <1>4, <1>5

\* What is known of the innermost frame and the tree then.
LEMMA PlacedTop ==
    ASSUME Simple, PlacedTrue, Sound, stack # <<>>
    PROVE  Placed(kind, Top) /\ Among(tree, Traversal(kind, {}))
<1>1. Top = stack[Len(stack)] /\ Len(stack) \in DOMAIN stack
  BY StackFacts
<1> QED BY <1>1 DEF PlacedTrue

\* A frame with other ids, or metadata, but the same group.
LEMMA PlacedAnew ==
    ASSUME NEW k, NEW f \in FrameType, NEW g \in FrameType, Placed(k, f), SameGroup(g, f),
           \A i \in DOMAIN g.md : g.md[i].is = "metadata" /\ i \in DOMAIN g.ids
                                    => g.ids = Kids(g.group.of)
    PROVE  Placed(k, g)
BY DEF Placed, SameGroup

\* A frame that asks.
LEMMA AskingTop ==
    ASSUME IInv, WInv, pc = "handle", kind # "serial"
    PROVE  /\ stack # <<>> /\ Simple /\ Top \in FrameType /\ Top.group.of \in Objects
           /\ Top.under \in Seq(Objects)
           /\ Clean => MadeSoFar(kind, spoilt, Top) = <<>>
           /\ Clean => /\ Asks(Top, request) /\ request.about = Top.group.of
                       /\ request.what = "ids" => request = IdsOf(Top.group.of, Id(Top.group.of))
                       /\ request.what = "metadata" =>
                             request = MetadataOf(Top.group.of, Kids(Top.group.of))
                                /\ Top.ids = Kids(Top.group.of)
<1>1. Simple /\ RequestOK /\ StackTrue /\ pc \in Asking /\ pc \in Walking /\ pc # "walk"
  BY DEF IInv, WInv, Asking, Walking
<1>2. stack # <<>> /\ Top \in FrameType
  BY <1>1, StackFacts DEF RequestOK
<1>3. Top.group.of \in Objects /\ Top.under \in Seq(Objects)
  BY <1>2, FrameFacts
<1>4. Clean => Asks(Top, request)
  BY <1>1, <1>2 DEF StackTrue
<1>5. ASSUME Clean
      PROVE  MadeSoFar(kind, spoilt, Top) = <<>>
  BY <1>2, <1>4, <1>5, MadeByNone DEF Asks
<1>6. \A g, s : IdsOf(g, s).what = "ids" /\ MetadataOf(g, s).what = "metadata"
                /\ IdsOf(g, s).about = g /\ MetadataOf(g, s).about = g
  BY DEF IdsOf, MetadataOf, Request
<1> QED BY <1>1, <1>2, <1>3, <1>4, <1>5, <1>6 DEF Asks

\* A step that makes no node.
LEMMA NoNodes ==
    ASSUME Simple
    PROVE  /\ <<>> \in Seq(NodeType) /\ tree = tree \o <<>>
           /\ \A m \in Seq(NodeType) : m \o <<>> = m /\ <<>> \o m = m
<1>1. tree \in Seq(NodeType)
  BY DEF Simple
<1> HIDE DEF NodeType
<1> QED BY <1>1, ConcatEmptySeq, NoElements

\* The list of the ids of a group is the one of its members.
LEMMA HandleIdsTrue ==
    ASSUME IInv, IInv', WInv, HandleIds, Values # <<>>
    PROVE  WInv'
<1> DEFINE g == Top.group.of
           f == [Top EXCEPT !.ids = Values]
<1>1. /\ pc = "handle" /\ request.what = "ids" /\ kind # "text" /\ kind # "serial"
      /\ pc' = "call" /\ stack' = [stack EXCEPT ![Len(stack)].ids = Values]
      /\ request' = MetadataOf(request.about, Values)
      /\ UNCHANGED <<kind, asked, wire, queue, spoilt, odd, late, answer, tree>>
      /\ Simple /\ PiecesOK /\ RequestOK /\ PlacedTrue
  BY DEF HandleIds, IInv, RequestOK, WInv, link
<1>2. /\ stack # <<>> /\ Top \in FrameType /\ g \in Objects /\ Top = stack[Len(stack)]
      /\ Top.md = <<>>
  BY <1>1, AskingTop, StackFacts DEF RequestOK, Asking
<1>3. Values \in Seq(Elements)
  BY <1>1, ValuesFacts DEF Serial
<1>4. /\ f \in FrameType /\ f.md = <<>> /\ f.ids = Values /\ SameGroup(f, Top)
      /\ f.group = Top.group /\ f.i = Top.i /\ f.walked = Top.walked /\ f.under = Top.under
  BY <1>2, <1>3 DEF FrameType, SameGroup
<1>5. stack' = [stack EXCEPT ![Len(stack)] = f]
  BY <1>1, <1>2
<1> HIDE DEF f
<1>6. ASSUME Clean
      PROVE  Onward(kind, spoilt, f, <<>>)
  <2>1. /\ Asks(Top, request) /\ request.about = g /\ request = IdsOf(g, Id(g))
        /\ MadeSoFar(kind, spoilt, Top) = <<>>
    BY <1>1, <1>6, AskingTop
  <2>2. g \notin spoilt /\ answer.to = request /\ answer.form = "content" /\ Values = Data(answer)
    BY <1>1, <1>6, <2>1, OwnAnswer
  <2>3. Values = Kids(g)
    BY <1>2, <2>1, <2>2, OwnData
  <2>4. request' = MetadataOf(g, Kids(g)) /\ request'.about = g
    BY <1>1, <2>1, <2>3 DEF MetadataOf, Request
  <2>5. Asks(f, request')
    BY <1>4, <2>1, <2>3, <2>4 DEF Asks
  <2>6. MadeSoFar(kind, spoilt, f) = <<>>
    BY <1>4, <2>5, MadeByNone DEF Asks
  <2>7. Done(f) = Done(Top) /\ Done(f) = 0
    BY <1>4, <2>5 DEF Done, Asks
  <2>8. <<>> \o <<>> = <<>>
    OBVIOUS
  <2> QED BY <1>1, <2>1, <2>2, <2>4, <2>5, <2>6, <2>7, <2>8 DEF Onward
<1>7. PlacedTrue'
  <2>1. Sound => Placed(kind, f) /\ Among(tree', Traversal(kind, {}))
    <3> SUFFICES ASSUME Sound PROVE Placed(kind, f) /\ Among(tree', Traversal(kind, {}))
      OBVIOUS
    <3>1. Placed(kind, Top) /\ Among(tree, Traversal(kind, {}))
      BY <1>1, <1>2, PlacedTop
    <3>2. DOMAIN f.md = {}
      BY <1>4
    <3> QED BY <1>1, <1>2, <1>4, <3>1, <3>2, PlacedAnew
  <2> QED BY <1>1, <1>2, <1>4, <1>5, <2>1, PlacedFrame
<1>8. <<>> \in Seq(NodeType) /\ tree' = tree \o <<>>
  BY <1>1, NoNodes
<1> QED BY <1>1, <1>2, <1>4, <1>5, <1>6, <1>7, <1>8, FrameChanged

\* So is the list of the names.
LEMMA HandleNamesTrue ==
    ASSUME IInv, IInv', WInv, HandleNames, Status = "content", Values # <<>>
    PROVE  WInv'
<1> DEFINE g == Top.group.of
           f == [Top EXCEPT !.ids = Values]
<1>1. /\ pc = "handle" /\ kind = "text" /\ kind # "serial" /\ request.what = "ids"
      /\ pc' = "walk" /\ stack' = [stack EXCEPT ![Len(stack)].ids = Values]
      /\ request' = request
      /\ UNCHANGED <<kind, asked, wire, queue, spoilt, odd, late, answer, tree>>
      /\ Simple /\ PiecesOK /\ RequestOK
  BY DEF HandleNames, IInv, RequestOK, link
<1>2. stack # <<>> /\ Top \in FrameType /\ g \in Objects /\ Top = stack[Len(stack)]
  BY <1>1, AskingTop, StackFacts
<1>3. Values \in Seq(Elements)
  BY <1>1, ValuesFacts
<1>4. /\ f \in FrameType /\ f.ids = Values /\ SameGroup(f, Top) /\ f.group = Top.group
      /\ f.i = Top.i /\ f.walked = Top.walked /\ f.under = Top.under
  BY <1>2, <1>3 DEF FrameType, SameGroup
<1>5. stack' = [stack EXCEPT ![Len(stack)] = f]
  BY <1>1, <1>2
<1> HIDE DEF f
<1>6. ASSUME Clean
      PROVE  Onward(kind, spoilt, f, <<>>)
  <2>1. /\ Asks(Top, request) /\ request.about = g /\ request = IdsOf(g, Id(g))
        /\ MadeSoFar(kind, spoilt, Top) = <<>>
    BY <1>1, <1>6, AskingTop
  <2>2. g \notin spoilt /\ answer.to = request /\ answer.form = "content" /\ Values = Data(answer)
    BY <1>1, <1>6, <2>1, OwnAnswer
  <2>3. Values = Kids(g)
    BY <1>2, <2>1, <2>2, OwnData
  <2>4. f.i = 1 /\ ~f.walked
    BY <1>4, <2>1 DEF Asks
  <2>5. Underway(kind, spoilt, f)
    <3>1. Len(Children[g]) \in Nat
      BY <1>2, MembersAre
    <3>2. f.i <= Len(Children[g]) + 1
      BY <2>4, <3>1
    <3> QED BY <1>1, <1>4, <2>2, <2>3, <2>4, <3>2 DEF Underway, Entered
  <2>6. MadeSoFar(kind, spoilt, f) = <<>>
    BY <1>4, <2>4, MadeByNone
  <2>7. Done(f) = Done(Top) /\ Done(f) = 0
    BY <1>4, <2>4 DEF Done
  <2>8. <<>> \o <<>> = <<>>
    OBVIOUS
  <2> QED BY <1>1, <2>1, <2>5, <2>6, <2>7, <2>8 DEF Onward
<1>7. PlacedTrue'
  BY <1>1 DEF PlacedTrue, Sound
<1>8. <<>> \in Seq(NodeType) /\ tree' = tree \o <<>>
  BY <1>1, NoNodes
<1> QED BY <1>1, <1>2, <1>4, <1>5, <1>6, <1>7, <1>8, FrameChanged

\* The metadata are those of the members; after a late response they are ids.
LEMMA HandleMetadataTrue ==
    ASSUME IInv, IInv', WInv, HandleMetadata, HasContent,
           stack' = [stack EXCEPT ![Len(stack)].md = Values], UNCHANGED request,
           pc' = IF Len(Values) < Len(Top.ids) THEN "raised" ELSE "walk"
    PROVE  WInv'
<1> DEFINE g == Top.group.of
           f == [Top EXCEPT !.md = Values]
<1>1. /\ pc = "handle" /\ request.what = "metadata" /\ kind # "text" /\ kind # "serial"
      /\ UNCHANGED <<kind, asked, wire, queue, spoilt, odd, late, answer, tree, request>>
      /\ Simple /\ PiecesOK /\ RequestOK /\ PlacedTrue /\ LagTrue
      /\ stack' = [stack EXCEPT ![Len(stack)].md = Values] /\ pc' \in {"raised", "walk"}
  BY DEF HandleMetadata, IInv, RequestOK, WInv, link
<1>2. stack # <<>> /\ Top \in FrameType /\ g \in Objects /\ Top = stack[Len(stack)]
  BY <1>1, AskingTop, StackFacts
<1>3. /\ Values \in Seq(Elements) /\ Values = Data(answer) /\ answer \in Parsed
      /\ answer # None /\ (~odd => answer.form = "content")
  BY <1>1, ValuesFacts DEF Serial
<1>4. /\ f \in FrameType /\ f.md = Values /\ f.ids = Top.ids /\ SameGroup(f, Top)
      /\ f.group = Top.group /\ f.i = Top.i /\ f.walked = Top.walked /\ f.under = Top.under
  BY <1>2, <1>3 DEF FrameType, SameGroup
<1>5. stack' = [stack EXCEPT ![Len(stack)] = f]
  BY <1>1, <1>2
<1> HIDE DEF f
<1>6. PlacedTrue'
  <2>1. Sound => Placed(kind, f) /\ Among(tree', Traversal(kind, {}))
    <3> SUFFICES ASSUME Sound PROVE Placed(kind, f) /\ Among(tree', Traversal(kind, {}))
      OBVIOUS
    <3>1. Placed(kind, Top) /\ Among(tree, Traversal(kind, {}))
      BY <1>1, <1>2, PlacedTop
    <3>2. ASSUME NEW i \in DOMAIN f.md, f.md[i].is = "metadata"
          PROVE  f.ids = Kids(f.group.of)
      <4>1. ~odd /\ kind = "tcp" /\ (late = 0 \/ late = 1) /\ spoilt = {}
        BY <1>1, SchemaWalkAssumption DEF Sound, PiecesOK, Serial, Simple
      <4>2. CASE late = 0
        <5>1. Clean
          BY <4>1, <4>2 DEF Clean
        <5> QED BY <1>1, <1>4, <5>1, AskingTop
      <4>3. CASE late = 1
        <5>1. Lagging
          BY <4>1, <4>3 DEF Lagging
        <5>2. answer.to.what = "ids"
          BY <1>1, <1>3, <5>1 DEF LagTrue
        <5>3. f.md[i].is = "id"
          BY <1>3, <1>4, <3>2, <4>1, <5>2, DataFacts
        <5> QED BY <3>2, <5>3
      <4> QED BY <4>1, <4>2, <4>3
    <3> QED BY <1>1, <1>2, <1>4, <3>1, <3>2, PlacedAnew
  <2> QED BY <1>1, <1>2, <1>4, <1>5, <2>1, PlacedFrame
<1>7. CASE pc' = "raised"
  <2>1. LinkTrue' /\ LagTrue'
    BY <1>1, <1>7, WalkKeepsLink
  <2> QED BY <1>6, <1>7, <2>1, StoppedTrue DEF WInv
<1>8. CASE pc' = "walk"
  <2>1. ASSUME Clean
        PROVE  Onward(kind, spoilt, f, <<>>)
    <3>1. /\ Asks(Top, request) /\ request.about = g /\ request = MetadataOf(g, Kids(g))
          /\ Top.ids = Kids(g) /\ MadeSoFar(kind, spoilt, Top) = <<>>
      BY <1>1, <2>1, AskingTop
    <3>2. g \notin spoilt /\ answer.to = request /\ answer.form = "content"
      BY <1>1, <2>1, <3>1, OwnAnswer
    <3>3. Values = Labels(g)
      BY <1>2, <1>3, <3>1, <3>2, OwnData
    <3>4. f.i = 1 /\ ~f.walked
      BY <1>4, <3>1 DEF Asks
    <3>5. Underway(kind, spoilt, f)
      <4>1. Len(Children[g]) \in Nat
        BY <1>2, MembersAre
      <4>2. f.i <= Len(Children[g]) + 1
        BY <3>4, <4>1
      <4> QED BY <1>4, <3>1, <3>2, <3>3, <3>4, <4>2 DEF Underway, Entered
    <3>6. MadeSoFar(kind, spoilt, f) = <<>>
      BY <1>4, <3>4, MadeByNone
    <3>7. Done(f) = Done(Top) /\ Done(f) = 0
      BY <1>4, <3>4 DEF Done
    <3>8. <<>> \o <<>> = <<>>
      OBVIOUS
    <3> QED BY <1>8, <3>1, <3>5, <3>6, <3>7, <3>8 DEF Onward
  <2>2. <<>> \in Seq(NodeType) /\ tree' = tree \o <<>>
    BY <1>1, NoNodes
  <2> QED BY <1>1, <1>2, <1>4, <1>5, <1>6, <1>8, <2>1, <2>2, FrameChanged
<1> QED BY <1>1, <1>7, <1>8

\* The member that a frame is at, when it has gone through those before it.
LEMMA AtMember ==
    ASSUME IInv, WInv, Clean, Walks
    PROVE  LET g == Top.group.of
               o == Children[g][Top.i]
           IN  /\ Underway(kind, spoilt, Top) /\ g \in Objects /\ g \notin spoilt
               /\ Top.i \in 1..Len(Children[g]) /\ Top.i \in DOMAIN Children[g]
               /\ Len(Children[g]) \in Nat /\ o \in Objects
               /\ Top.ids = Kids(g) /\ Top.ids[Top.i] = Id(o)
               /\ kind # "text" => Top.md = Labels(g) /\ Top.md[Top.i] = Metadata(o)
<1> DEFINE g == Top.group.of
<1>1. /\ Simple /\ StackTrue /\ pc = "walk" /\ pc \in Walking /\ stack # <<>> /\ Top \in FrameType
      /\ Top.i \in DOMAIN Top.ids
  BY WalksFacts DEF WInv, Walking
<1>2. Underway(kind, spoilt, Top) /\ g \in Objects /\ g \notin spoilt
  BY <1>1, FrameFacts DEF StackTrue, Underway, Entered
<1>3. Top.ids = Kids(g) /\ (kind # "text" => Top.md = Labels(g))
  BY <1>2 DEF Underway, Entered
<1> HIDE DEF g
<1>4. /\ Len(Children[g]) \in Nat /\ DOMAIN Children[g] = 1..Len(Children[g])
      /\ \A i \in DOMAIN Children[g] : Children[g][i] \in Objects
      /\ DOMAIN Kids(g) = DOMAIN Children[g]
      /\ \A i \in DOMAIN Children[g] : /\ Kids(g)[i] = Id(Children[g][i])
                                       /\ Labels(g)[i] = Metadata(Children[g][i])
  BY <1>2, MembersAre, KidsFacts
<1> QED BY <1>1, <1>2, <1>3, <1>4 DEF g

\* An object that is not asked for what it has below itself has nothing there, or is a record.
LEMMA NotAsked ==
    ASSUME NEW o \in Objects
    PROVE  /\ ~Recurses(Type[o]) => Skips(kind, o) \/ Children[o] = <<>>
           /\ Recurses(Type[o]) => ~Skips(kind, o)
<1>1. Children[o] # <<>> => Type[o] \in {"group", "record", "function"}
  BY DeviceAssumption
<1> QED BY <1>1 DEF Recurses, Skips, SyncTypes, AsyncTypes

\* The next member, and the same one when a call for it returns.
LEMMA StepSame ==
    ASSUME NEW f \in FrameType
    PROVE  LET s == Step(f)
               w == [f EXCEPT !.walked = TRUE]
           IN  /\ s \in FrameType /\ s.ids = f.ids /\ s.md = f.md /\ SameGroup(s, f)
               /\ s.group = f.group /\ s.under = f.under /\ s.i = f.i + 1 /\ s.walked = FALSE
               /\ w \in FrameType /\ w.ids = f.ids /\ w.md = f.md /\ SameGroup(w, f)
               /\ w.group = f.group /\ w.under = f.under /\ w.i = f.i /\ w.walked = TRUE
<1>1. /\ Step(f).ids = f.ids /\ Step(f).md = f.md /\ Step(f).group = f.group
      /\ Step(f).under = f.under /\ Step(f).i = f.i + 1 /\ Step(f).walked = FALSE
  BY DEF FrameType, Step
<1>2. LET w == [f EXCEPT !.walked = TRUE]
      IN  /\ w.ids = f.ids /\ w.md = f.md /\ w.group = f.group
          /\ w.under = f.under /\ w.i = f.i /\ w.walked = TRUE
  BY DEF FrameType
<1> QED BY <1>1, <1>2, StepFacts DEF SameGroup

\* Metadata are missing only after a response that was late, or an odd line.
LEMMA NoMetadataTrue ==
    ASSUME IInv, IInv', WInv, NoMetadata
    PROVE  WInv'
<1> DEFINE f == Step(Top)
<1>1. /\ Simple /\ PlacedTrue /\ pc = "walk" /\ kind # "serial" /\ kind # "text" /\ stack # <<>>
      /\ Top \in FrameType /\ Top = stack[Len(stack)] /\ Top.md[Top.i].is # "metadata" /\ Walks
      /\ UNCHANGED <<kind, asked, wire, queue, spoilt, odd, late, answer, pc, request, tree>>
      /\ stack' = [stack EXCEPT ![Len(stack)] = Step(@)]
  BY WalksFacts DEF NoMetadata, WInv, link
<1>2. /\ f \in FrameType /\ f.ids = Top.ids /\ f.md = Top.md /\ SameGroup(f, Top)
      /\ f.group = Top.group
  BY <1>1, StepSame
<1>3. stack' = [stack EXCEPT ![Len(stack)] = f]
  BY <1>1
<1> HIDE DEF f
<1>4. ~Clean
  <2>1. Metadata(Children[Top.group.of][Top.i]).is = "metadata"
    BY DEF Metadata
  <2> QED BY <1>1, <2>1, AtMember
<1>5. PlacedTrue'
  <2>1. Sound => Placed(kind, f) /\ Among(tree', Traversal(kind, {}))
    <3> SUFFICES ASSUME Sound PROVE Placed(kind, f) /\ Among(tree', Traversal(kind, {}))
      OBVIOUS
    <3>1. Placed(kind, Top) /\ Among(tree, Traversal(kind, {}))
      BY <1>1, PlacedTop
    <3>2. Placed(kind, f)
      BY <1>1, <1>2, <3>1, PlacedAnew DEF Placed
    <3> QED BY <1>1, <3>1, <3>2
  <2> QED BY <1>1, <1>2, <1>3, <2>1, PlacedFrame
<1>6. <<>> \in Seq(NodeType) /\ tree' = tree \o <<>>
  BY <1>1, NoNodes
<1> QED BY <1>1, <1>2, <1>3, <1>4, <1>5, <1>6, FrameChanged

\* A member that is at hand of the TCP client, and what is below it, is the group's.
LEMMA PlacedMember ==
    ASSUME NEW f \in FrameType, Placed("tcp", f), NEW i \in DOMAIN Children[f.group.of]
    PROVE  LET o == Children[f.group.of][i]
           IN  /\ Contains(Traversal("tcp", {}), SchemaNode(o, o, Deeper(f)))
               /\ Among(NodesOf("tcp", {}, o, Deeper(f)), Traversal("tcp", {}))
<1> DEFINE g == f.group.of
           u == f.under
           o == Children[g][i]
           node == SchemaNode(o, o, Append(u, g))
           below == NodesOf("tcp", {}, o, Append(u, g))
           M == Member("tcp", {}, g, u, i)
           G == NodesOf("tcp", {}, g, u)
           R == Traversal("tcp", {})
<1>1. g \in Objects /\ u \in Seq(Objects) /\ i \in 1..Len(Children[g])
  BY FrameFacts
<1>2. below \in Seq(NodeType) /\ node \in NodeType /\ M = below \o <<node>>
  <2>1. ~Skips("tcp", o)
    BY DEF Skips
  <2> QED BY <1>1, <2>1, MemberIs
<1>3. \A j \in 1..Len(M) : Contains(G, M[j])
  BY <1>1, NodesOfMember
<1>4. Among(G, R)
  BY DEF Placed
<1> HIDE DEF g, u, o, node, below, M, G, R
<1>5. \A x : Contains(G, x) => Contains(R, x)
  BY <1>4 DEF Among, Contains
<1>6. /\ Len(below) \in Nat /\ DOMAIN below = 1..Len(below)
      /\ \A j \in 1..Len(below) : j \in 1..Len(M) /\ M[j] = below[j]
      /\ Len(below) + 1 \in 1..Len(M) /\ M[Len(below) + 1] = node
  <2>1. <<node>> \in Seq(NodeType) /\ Len(<<node>>) = 1 /\ <<node>>[1] = node /\ 1 \in 1..1
    BY <1>2
  <2>2. Len(below) \in Nat /\ DOMAIN below = 1..Len(below)
    BY <1>2
  <2>3. /\ Len(M) = Len(below) + Len(<<node>>)
        /\ \A j \in 1..Len(below) : M[j] = below[j]
        /\ \A j \in 1..Len(<<node>>) : M[Len(below) + j] = <<node>>[j]
    BY <1>2, <2>1, ConcatElements
  <2> QED BY <2>1, <2>2, <2>3
<1>7. Contains(R, node) /\ Among(below, R)
  <2>1. Contains(R, node)
    BY <1>3, <1>5, <1>6
  <2>2. \A j \in DOMAIN below : Contains(R, below[j])
    BY <1>3, <1>5, <1>6
  <2> QED BY <2>1, <2>2 DEF Among
<1> QED BY <1>7 DEF g, u, o, node, below, R, Deeper

\* One node more.
LEMMA AmongAppend ==
    ASSUME NEW a \in Seq(NodeType), NEW x \in NodeType, NEW b, Among(a, b), Contains(b, x)
    PROVE  Among(Append(a, x), b)
<1> SUFFICES ASSUME NEW i \in DOMAIN Append(a, x) PROVE Contains(b, Append(a, x)[i])
  BY DEF Among
<1> HIDE DEF NodeType
<1>1. (i \in DOMAIN a /\ Append(a, x)[i] = a[i]) \/ Append(a, x)[i] = x
  OBVIOUS
<1> QED BY <1>1 DEF Among

\* The node of a member is made after those below it.
LEMMA MakeNodeTrue ==
    ASSUME IInv, IInv', WInv, MakeNode
    PROVE  WInv'
<1> DEFINE g == Top.group.of
           u == Top.under
           i == Top.i
           f == Step(Top)
           node == SchemaNode(Top.ids[i].of, Top.md[i].of, Append(u, g))
<1>1. /\ Simple /\ PlacedTrue /\ LabelsOK /\ PiecesOK
      /\ pc = "walk" /\ kind # "serial" /\ kind # "text" /\ stack # <<>>
      /\ Top \in FrameType /\ Top = stack[Len(stack)] /\ Walks /\ Len(stack) \in DOMAIN stack
      /\ Top.md[i].is = "metadata"
      /\ Top.walked \/ ~Recurses(Type[Top.md[i].of])
      /\ Top.i \in DOMAIN Top.ids /\ Top.i \in DOMAIN Top.md
      /\ Top.ids[i].of \in Objects /\ Top.md[i].of \in Objects /\ Append(u, g) \in Seq(Objects)
      /\ UNCHANGED <<kind, asked, wire, queue, spoilt, odd, late, answer, request>>
  BY WalksFacts DEF MakeNode, WInv, IInv, link
<1>2. CASE Top.ids[i].is # "id"
  <2>1. pc' = "raised" /\ UNCHANGED <<tree, stack>>
    BY <1>2 DEF MakeNode
  <2> QED BY <1>1, <2>1, LeavesTrue
<1>3. CASE Top.ids[i].is = "id"
  <2>1. tree' = Append(tree, node) /\ stack' = [stack EXCEPT ![Len(stack)] = Step(@)] /\ pc' = pc
    BY <1>3 DEF MakeNode
  <2>2. node \in NodeType
    BY <1>1 DEF SchemaNode, NodeType
  <2>3. /\ f \in FrameType /\ f.ids = Top.ids /\ f.md = Top.md /\ SameGroup(f, Top)
        /\ f.group = Top.group /\ f.under = u /\ f.i = i + 1 /\ f.walked = FALSE
    BY <1>1, StepSame
  <2>4. stack' = [stack EXCEPT ![Len(stack)] = f]
    BY <1>1, <2>1
  <2>5. <<node>> \in Seq(NodeType) /\ tree' = tree \o <<node>>
    <3>1. tree \in Seq(NodeType)
      BY <1>1 DEF Simple
    <3> HIDE DEF node, NodeType
    <3> QED BY <2>1, <2>2, <3>1
  <2>6. PlacedTrue'
    <3>1. Sound => Placed(kind, f) /\ Among(tree', Traversal(kind, {}))
      <4> SUFFICES ASSUME Sound PROVE Placed(kind, f) /\ Among(tree', Traversal(kind, {}))
        OBVIOUS
      <4>1. Placed(kind, Top) /\ Among(tree, Traversal(kind, {})) /\ kind = "tcp" /\ Mild
        BY <1>1, PlacedTop DEF Sound, Mild, PiecesOK, Serial
      <4>2. Placed(kind, f)
        BY <1>1, <2>3, <4>1, PlacedAnew DEF Placed
      <4>3. Top.ids = Kids(g) /\ Top.md[i].of = Top.ids[i].of
        <5>1. Top.ids = Kids(Top.group.of)
          BY <1>1, <4>1 DEF Placed
        <5>2. stack[Len(stack)].md[i].of = stack[Len(stack)].ids[i].of
          BY <1>1, <4>1 DEF LabelsOK
        <5> QED BY <1>1, <5>1, <5>2
      <4>4. i \in DOMAIN Children[g] /\ Top.ids[i].of = Children[g][i]
        <5>1. g \in Objects
          BY <1>1, FrameFacts
        <5>2. /\ DOMAIN Kids(g) = DOMAIN Children[g]
              /\ \A j \in DOMAIN Children[g] : Kids(g)[j] = Id(Children[g][j])
          BY <5>1, KidsFacts
        <5>3. i \in DOMAIN Top.ids
          BY <1>1
        <5> HIDE DEF g, i
        <5>4. i \in DOMAIN Children[g] /\ Top.ids[i] = Id(Children[g][i])
          BY <4>3, <5>2, <5>3
        <5> QED BY <5>4 DEF Id
      <4>5. Contains(Traversal(kind, {}), node)
        <5>1. node = SchemaNode(Children[g][i], Children[g][i], Deeper(Top))
          BY <4>3, <4>4 DEF Deeper
        <5> HIDE DEF node
        <5> QED BY <1>1, <4>1, <4>4, <5>1, PlacedMember
      <4>6. tree \in Seq(NodeType)
        BY <1>1 DEF Simple
      <4> HIDE DEF node
      <4> QED BY <2>1, <2>2, <4>1, <4>2, <4>5, <4>6, AmongAppend
    <3> HIDE DEF node, f
    <3> QED BY <1>1, <2>3, <2>4, <3>1, PlacedFrame
  <2>7. ASSUME Clean
        PROVE  Onward(kind, spoilt, f, <<node>>)
    <3> DEFINE o == Children[g][i]
               n == Len(Children[g])
    <3>1. /\ Underway(kind, spoilt, Top) /\ g \in Objects /\ i \in 1..n /\ n \in Nat
          /\ o \in Objects /\ Top.ids = Kids(g) /\ Top.ids[i] = Id(o)
          /\ Top.md[i] = Metadata(o)
      BY <1>1, <2>7, AtMember
    <3>2. node = SchemaNode(o, o, Append(u, g)) /\ u \in Seq(Objects)
      BY <1>1, <3>1, FrameFacts DEF Id, Metadata
    <3>3. Underway(kind, spoilt, f)
      <4>1. f.i <= n + 1
        BY <2>3, <3>1
      <4> QED BY <2>3, <3>1, <4>1 DEF Underway, Entered
    <3>4. Done(Top) <= Done(f)
      <4>1. i \in Nat
        BY <3>1
      <4> HIDE DEF i
      <4> QED BY <2>3, <4>1 DEF Done, i
    <3> DEFINE P == Parts(kind, spoilt, g, u, i - 1)
               below == NodesOf(kind, spoilt, o, Append(u, g))
               rest == IF Top.walked THEN below ELSE <<>>
               M == Member(kind, spoilt, g, u, i)
    <3>5. below \in Seq(NodeType) /\ M = rest \o <<node>>
      <4>1. /\ below \in Seq(NodeType)
            /\ ~Skips(kind, o) => M = below \o <<node>>
            /\ Skips(kind, o) \/ below = <<>> => M = <<node>>
        <5> DEFINE x == SchemaNode(o, o, Append(u, g))
        <5>1. /\ below \in Seq(NodeType)
              /\ ~Skips(kind, o) => M = IF kind = "text" THEN <<x>> \o below ELSE below \o <<x>>
              /\ (Skips(kind, o) \/ below = <<>>) /\ kind # "text" => M = <<x>>
          <6>1. g \in Objects /\ u \in Seq(Objects) /\ i \in 1..Len(Children[g])
            BY <3>1, <3>2
          <6> HIDE DEF g, u, i
          <6> QED BY <6>1, MemberIs
        <5>2. x = node /\ kind # "text"
          BY <1>1, <3>2
        <5> HIDE DEF x, node, M, below, o
        <5> QED BY <5>1, <5>2
      <4>2. CASE Top.walked
        <5>1. ~Skips(kind, o)
          BY <3>1, <4>2 DEF Underway
        <5> QED BY <4>1, <4>2, <5>1, Zenon
      <4>3. CASE ~Top.walked
        <5>1. ~Recurses(Type[o])
          BY <1>1, <3>1, <4>3 DEF Metadata
        <5>2. Skips(kind, o) \/ Children[o] = <<>>
          BY <3>1, <5>1, NotAsked
        <5>3. Children[o] = <<>> => below = <<>>
          <6>1. Append(u, g) \in Seq(Objects)
            BY <1>1
          <6> QED BY <3>1, <6>1, BelowIs
        <5>4. M = <<node>>
          BY <4>1, <5>2, <5>3
        <5> HIDE DEF node, M, NodeType
        <5>5. <<>> \o <<node>> = <<node>>
          OBVIOUS
        <5> QED BY <4>1, <4>3, <5>4, <5>5
      <4> QED BY <4>2, <4>3, Zenon
    <3>6. P \in Seq(NodeType) /\ Parts(kind, spoilt, g, u, i) = P \o M
      <4>1. i \in Nat /\ i <= n /\ i # 0 /\ i - 1 \in Nat /\ i - 1 <= n
        BY <3>1
      <4> QED BY <3>1, <3>2, <4>1, PartsStep
    <3>7. MadeSoFar(kind, spoilt, Top) = P \o rest
      BY DEF MadeSoFar, Deeper
    <3>8. MadeSoFar(kind, spoilt, f) = P \o M
      <4>1. f.i - 1 = i /\ f.group.of = g
        BY <2>3, <3>1
      <4>2. MadeSoFar(kind, spoilt, f) = Parts(kind, spoilt, g, u, i) \o <<>>
        BY <2>3, <4>1 DEF MadeSoFar
      <4>3. Parts(kind, spoilt, g, u, i) \in Seq(NodeType)
        <5>1. i \in Nat /\ i <= n
          BY <3>1
        <5> QED BY <3>1, <3>2, <5>1, PartsStep
      <4> QED BY <1>1, <3>6, <4>2, <4>3, NoNodes
    <3>9. (P \o rest) \o <<node>> = P \o (rest \o <<node>>)
      <4>1. rest \in Seq(NodeType)
        BY <3>5, NoElements
      <4> HIDE DEF P, rest, node
      <4> QED BY <2>5, <3>6, <4>1, ConcatThree
    <3> HIDE DEF P, rest, node, M
    <3>10. MadeSoFar(kind, spoilt, f) = MadeSoFar(kind, spoilt, Top) \o <<node>>
      BY <3>5, <3>7, <3>8, <3>9
    <3>11. pc' = "walk"
      BY <1>1, <2>1
    <3> HIDE DEF f
    <3> QED BY <3>3, <3>4, <3>10, <3>11 DEF Onward
  <2>8. pc' = "walk"
    BY <1>1, <2>1
  <2> HIDE DEF f, node
  <2> QED BY <1>1, <2>3, <2>4, <2>5, <2>6, <2>7, <2>8, FrameChanged
<1> QED BY <1>2, <1>3

(***************************************************************************)
(* Calls of the walk, and their ends                                       *)
(***************************************************************************)
\* The stack when there is one frame more.
LEMMA PushedFacts ==
    ASSUME Simple, stack # <<>>, NEW f \in FrameType, NEW g \in FrameType, Calls(f, g)
    PROVE  /\ stack' \in Seq(FrameType) /\ stack' # <<>> /\ Len(stack') = Len(stack) + 1
           /\ Pushed(stack, stack', f, g) /\ Last(stack') = g
           /\ Len(stack) \in Nat /\ Len(stack) >= 1
<1> DEFINE s == [stack EXCEPT ![Len(stack)] = f]
           n == Len(stack)
<1>1. /\ s \in Seq(FrameType) /\ Len(s) = n /\ s[n] = f
      /\ \A j \in 1..(n - 1) : s[j] = stack[j]
      /\ n \in Nat /\ n >= 1
  BY NewTop, StackFacts
<1>2. stack' = Append(s, g)
  BY DEF Calls
<1> HIDE DEF s
<1>3. /\ Append(s, g) \in Seq(FrameType) /\ Len(Append(s, g)) = Len(s) + 1
      /\ \A i \in 1..Len(s) : Append(s, g)[i] = s[i]
      /\ Append(s, g)[Len(s) + 1] = g
  BY <1>1, LastAndFront
<1> HIDE DEF n
<1>4. /\ stack' \in Seq(FrameType) /\ Len(stack') = n + 1
      /\ \A i \in 1..n : stack'[i] = s[i]
      /\ stack'[n + 1] = g
  BY <1>1, <1>2, <1>3
<1>5. stack' # <<>>
  BY <1>1, <1>4
<1>6. stack'[n] = f /\ \A j \in 1..(n - 1) : stack'[j] = stack[j]
  BY <1>1, <1>4
<1>7. Last(stack') = g
  BY <1>4 DEF Last
<1> QED BY <1>1, <1>4, <1>5, <1>6, <1>7 DEF Pushed, n

\* Nothing was spoilt of a member that the walk comes to.
LEMMA NextUnspoilt ==
    ASSUME IInv, WInv, Clean, Walks, ~Top.walked
    PROVE  Children[Top.group.of][Top.i] \notin spoilt
<1> DEFINE g == Top.group.of
           i == Top.i
           o == Children[g][i]
           s == stack
           n == Len(stack)
<1>1. SpoiltTrue /\ pc \in Walking /\ stack # <<>> /\ Simple
  BY WalksFacts DEF WInv, Walking
<1>2. /\ g \in Objects /\ g \notin spoilt /\ i \in DOMAIN Children[g] /\ o \in Objects
      /\ i \in 1..Len(Children[g]) /\ DOMAIN Children[g] = 1..Len(Children[g])
  BY AtMember, MembersAre
<1>3. /\ Chain(kind, spoilt, s) /\ s \in Seq(FrameType) /\ Last(s) = Top
      /\ n \in Nat /\ n >= 1 /\ s[n] = Top
  BY <1>1, TopFacts, StackFacts
<1> SUFFICES ASSUME o \in spoilt PROVE FALSE
  OBVIOUS
<1>4. BelowPassed(kind, s, o)
  <2>1. o = g \/ BelowPassed(kind, s, o)
    BY <1>1 DEF SpoiltTrue
  <2> QED BY <1>2, <2>1
<1>5. PICK j \in 1..n : \E m \in 1..Passed(kind, s, j) :
                           o \in Subtree(Children[s[j].group.of][m])
  BY <1>4 DEF BelowPassed
<1>6. PICK m \in 1..Passed(kind, s, j) : o \in Subtree(Children[s[j].group.of][m])
  BY <1>5
<1>7. o \in Subtree(o) /\ o \in Subtree(g)
  BY <1>2, SubtreeFacts, SubtreeOfMember
<1>8. CASE j = n
  <2>1. Passed(kind, s, j) = i - 1
    <3>1. ~(j < Len(s)) /\ s[j] = Top
      BY <1>3, <1>8
    <3> QED BY <3>1 DEF Passed
  <2>2. m \in 1..(i - 1) /\ o \in Subtree(Children[g][m])
    BY <1>3, <1>6, <1>8, <2>1
  <2> HIDE DEF i, g
  <2>3. m \in DOMAIN Children[g] /\ m # i
    BY <1>2, <2>2
  <2>4. Subtree(Children[g][m]) \cap Subtree(Children[g][i]) = {}
    BY <1>2, <2>3, SiblingsApart
  <2> QED BY <1>7, <2>2, <2>4
<1>9. CASE j # n
  <2>1. j \in 1..(n - 1) /\ j < Len(s)
    <3> HIDE DEF n, s
    <3>1. j \in 1..(n - 1) /\ j < n
      BY <1>3, <1>9
    <3> QED BY <3>1 DEF n, s
  <2>2. /\ s[j] \in FrameType /\ s[j + 1] \in FrameType /\ Suspended(kind, spoilt, s[j], s[j + 1])
        /\ g \in Subtree(Callee(kind, s[j]))
    BY <1>3, <2>1, ChainFacts
  <2> DEFINE c == Callee(kind, s[j])
  <2>3. m \in 1..(At(kind, s[j]) - 1)
    BY <1>6, <2>1 DEF Passed
  <2>4. /\ c \in Objects
        /\ Subtree(c) \cap Subtree(Children[s[j].group.of][m]) = {}
    BY <2>2, <2>3, SuspendedFacts
  <2>5. Subtree(g) \subseteq Subtree(c)
    BY <2>2, <2>4, SubtreeOfMember
  <2> QED BY <1>6, <1>7, <2>4, <2>5
<1> QED BY <1>8, <1>9

\* The frame f calls g, after it has made the nodes X.
CallsFor(k, S, f, g, X) ==
    /\ Suspended(k, S, f, g) /\ At(k, f) = Top.i /\ ~Top.walked
    /\ Asks(g, request') /\ request'.about = Children[Top.group.of][Top.i]
    /\ Made(k, S, f) = MadeSoFar(k, S, Top) \o X

\* A call: the caller is as it was, and the callee asks.
LEMMA CallsTrue ==
    ASSUME IInv, IInv', WInv, Walks, NEW f \in FrameType, NEW g \in FrameType, Calls(f, g),
           SameGroup(f, Top), pc' = "call", NEW X \in Seq(NodeType), tree' = tree \o X,
           Clean => CallsFor(kind, spoilt, f, g, X), PlacedTrue'
    PROVE  WInv'
<1> DEFINE s == stack
           t == stack'
           n == Len(stack)
           S == spoilt
<1>1. /\ Simple /\ MadeTrue /\ SpoiltTrue /\ stack # <<>> /\ kind # "serial" /\ pc = "walk"
      /\ UNCHANGED <<kind, asked, wire, queue, spoilt, odd, late, answer>>
  BY WalksFacts DEF WInv, link
<1>2. /\ t \in Seq(FrameType) /\ t # <<>> /\ Len(t) = n + 1 /\ Pushed(s, t, f, g) /\ Last(t) = g
      /\ n \in Nat /\ n >= 1 /\ Top' = g
  BY <1>1, PushedFacts DEF Top
<1>3. LinkTrue' /\ LagTrue'
  BY <1>1, WalkKeepsLink
<1>4. GetsTrue'
  BY <1>1 DEF GetsTrue
<1>5. CASE ~Clean'
  <2>1. ComingTrue' /\ StackTrue' /\ SpoiltTrue' /\ MadeTrue'
    BY <1>5 DEF ComingTrue, StackTrue, SpoiltTrue, MadeTrue
  <2> QED BY <1>3, <1>4, <2>1 DEF WInv
<1>6. CASE Clean'
  <2>1. Clean /\ pc \in Walking /\ pc' \in Walking /\ CallsFor(kind, S, f, g, X)
    BY <1>1, <1>6 DEF Clean, Walking, Asking
  <2>2. /\ Chain(kind, S, s) /\ s \in Seq(FrameType) /\ Last(s) = Top /\ Top \in FrameType
        /\ Top = s[n]
        /\ MadeSoFar(kind, S, Top) \in Seq(NodeType)
        /\ MadeAbove(kind, S, s, n - 1) \in Seq(NodeType)
    BY <1>1, <2>1, TopFacts
  <2>3. ComingTrue'
    <3>1. request'.about \notin S
      BY <2>1, NextUnspoilt DEF CallsFor
    <3> QED BY <1>1, <3>1 DEF ComingTrue
  <2>4. Chain(kind, S, t)
    BY <1>1, <1>2, <2>1, <2>2, ChainPushed DEF CallsFor
  <2>5. StackTrue'
    BY <1>1, <1>2, <2>1, <2>4 DEF StackTrue, CallsFor
  <2>6. /\ t[n] = f /\ \A j \in 1..(n - 1) : t[j] = s[j]
    BY <1>2 DEF Pushed
  <2>7. SpoiltTrue'
    <3> SUFFICES ASSUME NEW o \in S
                 PROVE  BelowPassed(kind, t, o)
      BY <1>1 DEF SpoiltTrue
    <3>1. o # Top.group.of
      BY <2>1, AtMember
    <3>2. BelowPassed(kind, s, o)
      BY <1>1, <2>1, <3>1 DEF SpoiltTrue
    <3>3. PICK j \in 1..n : \E m \in 1..Passed(kind, s, j) :
                               o \in Subtree(Children[s[j].group.of][m])
      BY <3>2 DEF BelowPassed
    <3>4. PICK m \in 1..Passed(kind, s, j) : o \in Subtree(Children[s[j].group.of][m])
      BY <3>3
    <3>5. s[j].group = t[j].group /\ Passed(kind, t, j) = Passed(kind, s, j)
      <4>1. j < Len(t) /\ Len(s) = n
        <5> HIDE DEF n, t
        <5>1. j < Len(t)
          BY <1>2
        <5> QED BY <5>1 DEF n, t
      <4>2. CASE j = n
        <5>1. ~(j < Len(s)) /\ s[j] = Top /\ t[j] = f
          <6>1. ~(n < n)
            <7> HIDE DEF n
            <7> QED BY <1>2
          <6> QED BY <2>2, <2>6, <4>2, <6>1
        <5> HIDE DEF s, t, n
        <5>2. Passed(kind, s, j) = Top.i - 1 /\ Passed(kind, t, j) = Top.i - 1
          BY <2>1, <4>1, <5>1 DEF Passed, CallsFor
        <5> QED BY <5>1, <5>2 DEF SameGroup
      <4>3. CASE j # n
        <5>1. j \in 1..(n - 1) /\ j < n
          <6> HIDE DEF n
          <6> QED BY <1>2, <4>3
        <5>2. t[j] = s[j] /\ j < Len(s)
          BY <2>6, <5>1
        <5> HIDE DEF s, t, n
        <5> QED BY <4>1, <5>2 DEF Passed
      <4> QED BY <4>2, <4>3
    <3>6. j \in 1..Len(t)
      <4> HIDE DEF n, t
      <4> QED BY <1>2
    <3> HIDE DEF s, t, n
    <3> QED BY <3>4, <3>5, <3>6 DEF BelowPassed
  <2>8. MadeTrue'
    <3>1. tree = MadeAbove(kind, S, s, n - 1) \o MadeSoFar(kind, S, Top)
      BY <1>1, <2>1 DEF MadeTrue
    <3>2. SamePrefix(s, t, n - 1)
      BY <2>6 DEF SamePrefix
    <3>3. MadeAbove(kind, S, t, n - 1) = MadeAbove(kind, S, s, n - 1)
      BY <3>2, MadeAboveSame
    <3>4. /\ MadeAbove(kind, S, t, n) = MadeAbove(kind, S, t, n - 1) \o Made(kind, S, f)
          /\ MadeAbove(kind, S, t, n) \in Seq(NodeType)
      <4>1. n \in 0..(Len(t) - 1) /\ n # 0
        <5> HIDE DEF n, t
        <5> QED BY <1>2
      <4> HIDE DEF n, t
      <4> QED BY <1>2, <2>4, <2>6, <4>1, MadeAboveStep
    <3>5. MadeSoFar(kind, S, g) = <<>>
      BY <2>1, MadeByNone DEF CallsFor, Asks
    <3> DEFINE A == MadeAbove(kind, S, s, n - 1)
               B == MadeSoFar(kind, S, Top)
               C == MadeAbove(kind, S, t, n)
    <3>6. (A \o B) \o X = A \o (B \o X)
      <4> HIDE DEF A, B
      <4>1. A \in Seq(NodeType) /\ B \in Seq(NodeType)
        BY <2>2 DEF A, B
      <4> QED BY <4>1, ConcatThree
    <3>7. tree' = C
      BY <2>1, <3>1, <3>3, <3>4, <3>6 DEF CallsFor
    <3>8. C = C \o <<>>
      <4> HIDE DEF C
      <4>1. C \in Seq(NodeType)
        BY <3>4 DEF C
      <4> QED BY <1>1, <4>1, NoNodes
    <3>9. Len(t) - 1 = n
      <4> HIDE DEF n, t
      <4> QED BY <1>2
    <3> HIDE DEF C
    <3>10. tree' = MadeAbove(kind, S, t, n) \o MadeSoFar(kind, S, g)
      BY <3>5, <3>7, <3>8 DEF C
    <3>11. pc' # "done" /\ ~(pc' = "walk")
      OBVIOUS
    <3> QED BY <1>1, <1>2, <3>9, <3>10, <3>11 DEF MadeTrue
  <2> QED BY <1>3, <1>4, <2>3, <2>5, <2>7, <2>8 DEF WInv
<1> QED BY <1>5, <1>6

\* Both frames are in their places, so all are.
LEMMA PlacedCalls ==
    ASSUME Simple, PlacedTrue, stack # <<>>, NEW f \in FrameType, NEW g \in FrameType,
           Calls(f, g), UNCHANGED <<kind, spoilt, late, tree>>,
           Sound => Placed(kind, f) /\ Placed(kind, g)
    PROVE  PlacedTrue'
<1> DEFINE t == stack'
           n == Len(stack)
<1>1. /\ n \in Nat /\ n >= 1 /\ stack \in Seq(FrameType)
      /\ t \in Seq(FrameType) /\ Len(t) = n + 1 /\ t[n] = f /\ t[n + 1] = g
      /\ \A j \in 1..(n - 1) : t[j] = stack[j]
  BY PushedFacts, StackFacts DEF Pushed
<1> HIDE DEF t
<1>2. DOMAIN stack = 1..n /\ DOMAIN t = 1..(n + 1)
  BY <1>1
<1> HIDE DEF n
<1> SUFFICES ASSUME Sound, NEW j \in DOMAIN t PROVE Placed(kind, t[j])
  BY DEF PlacedTrue, Sound, t
<1>3. j = n \/ j = n + 1 \/ j \in 1..(n - 1)
  BY <1>1, <1>2
<1>4. \A i \in 1..(n - 1) : i \in DOMAIN stack
  BY <1>1, <1>2
<1>5. \A i \in DOMAIN stack : Placed(kind, stack[i])
  BY DEF PlacedTrue
<1> QED BY <1>1, <1>3, <1>4, <1>5

\* The call of a child is for one that the device has there.
LEMMA DescendTrue ==
    ASSUME IInv, IInv', WInv, Descend
    PROVE  WInv'
<1> DEFINE g == Top.group.of
           i == Top.i
           x == Top.ids[i]
           f == [Top EXCEPT !.walked = TRUE]
           c == Frame(x, Append(Top.under, g))
<1>1. /\ Simple /\ PlacedTrue /\ Walks /\ pc = "walk" /\ kind # "serial" /\ kind # "text"
      /\ stack # <<>> /\ Top \in FrameType /\ Top = stack[Len(stack)]
      /\ Top.md[i].is = "metadata" /\ ~Top.walked /\ Recurses(Type[Top.md[i].of])
      /\ i \in DOMAIN Top.ids /\ i \in DOMAIN Top.md /\ x \in Elements
      /\ Append(Top.under, g) \in Seq(Objects) /\ g \in Objects
      /\ request' = IdsOf(x.of, x) /\ pc' = "call" /\ tree' = tree
      /\ UNCHANGED <<kind, asked, wire, queue, spoilt, odd, late, answer>>
  BY WalksFacts, FrameFacts DEF Descend, WInv, link
<1>2. /\ f \in FrameType /\ f.ids = Top.ids /\ f.md = Top.md /\ SameGroup(f, Top)
      /\ f.group = Top.group /\ f.under = Top.under /\ f.i = Top.i /\ f.walked = TRUE
  BY <1>1, StepSame
<1>3. c \in FrameType /\ c.md = <<>>
  BY <1>1, NewCall
<1>4. /\ c.group = x /\ c.under = Append(Top.under, g) /\ c.ids = <<>> /\ c.i = 1
      /\ c.walked = FALSE
  BY DEF Frame
<1>5. Calls(f, c)
  <2>1. [stack EXCEPT ![Len(stack)].walked = TRUE] = [stack EXCEPT ![Len(stack)] = f]
    BY <1>1
  <2>2. stack' = Append([stack EXCEPT ![Len(stack)].walked = TRUE], c)
    BY DEF Descend
  <2> HIDE DEF f, c
  <2> QED BY <2>1, <2>2 DEF Calls
<1> HIDE DEF f, c
<1>6. ASSUME Clean
      PROVE  CallsFor(kind, spoilt, f, c, <<>>)
  <2> DEFINE o == Children[g][i]
  <2>1. /\ Underway(kind, spoilt, Top) /\ i \in 1..Len(Children[g]) /\ o \in Objects
        /\ x = Id(o) /\ Top.md[i] = Metadata(o)
    BY <1>1, <1>6, AtMember
  <2>2. At(kind, f) = i /\ Callee(kind, f) = o /\ f.group.of = g
    BY <1>1, <1>2 DEF At, Callee
  <2>3. Entered(kind, spoilt, f)
    BY <1>2, <2>1 DEF Underway, Entered
  <2>4. ~Skips(kind, o)
    <3>1. Recurses(Type[o])
      <4>1. Top.md[i].of = o
        BY <2>1 DEF Metadata
      <4> HIDE DEF o, i
      <4> QED BY <1>1, <4>1
    <3> QED BY <2>1, <3>1, NotAsked
  <2>5. Suspended(kind, spoilt, f, c)
    BY <1>1, <1>2, <1>4, <2>1, <2>2, <2>3, <2>4 DEF Suspended, Deeper
  <2>6. x.of = o
    BY <2>1 DEF Id
  <2>7. Asks(c, request') /\ request'.about = o
    BY <1>1, <1>4, <2>1, <2>6 DEF Asks, IdsOf, Request
  <2>8. Made(kind, spoilt, f) = MadeSoFar(kind, spoilt, Top) \o <<>>
    <3> DEFINE P == Parts(kind, spoilt, g, Top.under, i - 1)
    <3>1. Made(kind, spoilt, f) = P \o <<>>
      BY <1>1, <1>2, <2>2 DEF Made
    <3>2. MadeSoFar(kind, spoilt, Top) = P \o <<>>
      BY <1>1 DEF MadeSoFar
    <3>3. MadeSoFar(kind, spoilt, Top) \in Seq(NodeType)
      BY <1>1, <2>1, MadeSoFarType
    <3> HIDE DEF P
    <3> QED BY <1>1, <3>1, <3>2, <3>3, NoNodes
  <2> QED BY <1>1, <2>2, <2>5, <2>7, <2>8 DEF CallsFor
<1>7. PlacedTrue'
  <2>1. ASSUME Sound
        PROVE  Placed(kind, f) /\ Placed(kind, c)
    <3>1. Placed(kind, Top) /\ kind = "tcp"
      BY <1>1, <2>1, PlacedTop DEF Sound
    <3>2. Placed(kind, f)
      BY <1>1, <1>2, <3>1, PlacedAnew DEF Placed
    <3>3. Top.ids = Kids(g)
      BY <1>1, <3>1 DEF Placed
    <3>4. i \in DOMAIN Children[g] /\ x.of = Children[g][i]
      <4>1. /\ DOMAIN Kids(g) = DOMAIN Children[g]
            /\ \A j \in DOMAIN Children[g] : Kids(g)[j] = Id(Children[g][j])
        BY <1>1, KidsFacts
      <4>2. i \in DOMAIN Top.ids
        BY <1>1
      <4> HIDE DEF g, i
      <4>3. i \in DOMAIN Children[g] /\ Top.ids[i] = Id(Children[g][i])
        BY <3>3, <4>1, <4>2
      <4> QED BY <4>3 DEF Id
    <3>5. Among(NodesOf("tcp", {}, x.of, Deeper(Top)), Traversal("tcp", {}))
      BY <1>1, <3>1, <3>4, PlacedMember
    <3>6. DOMAIN c.md = {}
      BY <1>3
    <3>7. Placed(kind, c)
      BY <1>4, <3>1, <3>5, <3>6 DEF Placed, Deeper
    <3> QED BY <3>2, <3>7
  <2> HIDE DEF g, i, x
  <2> QED BY <1>1, <1>2, <1>3, <1>5, <2>1, PlacedCalls
<1>8. <<>> \in Seq(NodeType) /\ tree' = tree \o <<>>
  BY <1>1, NoNodes
<1> HIDE DEF g, i, x
<1> QED BY <1>1, <1>2, <1>3, <1>5, <1>6, <1>7, <1>8, CallsTrue

\* A name that is printed is one that the device has there, and so is its path.
LEMMA PrintChildTrue ==
    ASSUME IInv, IInv', WInv, PrintChild
    PROVE  WInv'
<1> DEFINE g == Top.group.of
           i == Top.i
           o == Top.ids[i].of
           u == Append(Top.under, g)
           x == PathTo(o)
           node == SchemaNode(o, o, u)
           f == Step(Top)
           c == Frame(x, u)
<1>1. /\ Simple /\ Walks /\ pc = "walk" /\ kind = "text" /\ stack # <<>>
      /\ Top \in FrameType /\ Top = stack[Len(stack)]
      /\ i \in DOMAIN Top.ids /\ o \in Objects /\ u \in Seq(Objects) /\ g \in Objects
      /\ tree' = Append(tree, node) /\ request' = IdsOf(o, x) /\ pc' = "call"
      /\ UNCHANGED <<kind, asked, wire, queue, spoilt, odd, late, answer>>
  BY WalksFacts, FrameFacts DEF PrintChild, link
<1>2. /\ f \in FrameType /\ f.ids = Top.ids /\ f.md = Top.md /\ SameGroup(f, Top)
      /\ f.group = Top.group /\ f.under = Top.under /\ f.i = i + 1 /\ f.walked = FALSE
  BY <1>1, StepSame
<1>3. x \in Elements
  BY <1>1 DEF PathTo, Id, Nowhere, Elements
<1>4. c \in FrameType
  <2> HIDE DEF x, u
  <2> QED BY <1>1, <1>3, NewCall
<1>5. c.group = x /\ c.under = u /\ c.ids = <<>> /\ c.i = 1 /\ c.walked = FALSE
  BY DEF Frame
<1>6. Calls(f, c)
  <2>1. stack' = Append([stack EXCEPT ![Len(stack)] = Step(@)], c)
    BY DEF PrintChild
  <2> HIDE DEF c
  <2> QED BY <1>1, <2>1 DEF Calls
<1>7. node \in NodeType
  BY <1>1 DEF SchemaNode, NodeType
<1>8. <<node>> \in Seq(NodeType) /\ tree' = tree \o <<node>>
  <2>1. tree \in Seq(NodeType) /\ tree' = Append(tree, node)
    BY <1>1 DEF Simple
  <2> HIDE DEF node, NodeType
  <2> QED BY <1>7, <2>1
<1> HIDE DEF f, c
<1>9. ASSUME Clean
      PROVE  CallsFor(kind, spoilt, f, c, <<node>>)
  <2> DEFINE m == Children[g][i]
  <2>1. /\ Underway(kind, spoilt, Top) /\ i \in 1..Len(Children[g]) /\ m \in Objects
        /\ Top.ids[i] = Id(m) /\ i \in DOMAIN Children[g]
    BY <1>1, <1>9, AtMember
  <2>2. o = m
    BY <2>1 DEF Id
  <2>3. x = Id(o)
    <3>1. Top.group = Id(g)
      <4>1. Chain(kind, spoilt, stack) /\ stack \in Seq(FrameType) /\ Last(stack) = Top
        BY <1>1, <1>9, TopFacts DEF Walking
      <4> QED BY <1>1, <4>1, ChainFacts
    <3>2. Top.group.is = "id"
      BY <3>1 DEF Id
    <3>3. Contains(Children[g], o)
      BY <2>1, <2>2 DEF Contains
    <3> QED BY <3>2, <3>3 DEF PathTo
  <2>4. i \in Nat
    BY <2>1
  <2>5. At(kind, f) = i
    <3> HIDE DEF i
    <3> QED BY <1>1, <1>2, <2>4 DEF At
  <2>6. Callee(kind, f) = m /\ f.group.of = g /\ Deeper(f) = u
    BY <1>2, <2>5 DEF Callee, Deeper
  <2>7. Entered(kind, spoilt, f)
    BY <1>1, <1>2, <2>1 DEF Underway, Entered
  <2>8. ~Skips(kind, m)
    BY <1>1 DEF Skips
  <2>9. Suspended(kind, spoilt, f, c)
    BY <1>1, <1>2, <1>5, <2>1, <2>2, <2>3, <2>5, <2>6, <2>7, <2>8 DEF Suspended
  <2>10. Asks(c, request') /\ request'.about = m
    <3>1. c.group.of = o
      BY <1>5, <2>3 DEF Id
    <3> HIDE DEF x, o
    <3> QED BY <1>1, <1>5, <2>2, <2>3, <3>1 DEF Asks, IdsOf, Request
  <2>11. ~Top.walked
    BY <1>1, <2>1 DEF Underway
  <2>12. Made(kind, spoilt, f) = MadeSoFar(kind, spoilt, Top) \o <<node>>
    <3> DEFINE P == Parts(kind, spoilt, g, Top.under, i - 1)
    <3>1. Made(kind, spoilt, f) = P \o <<node>>
      BY <1>1, <1>2, <2>2, <2>5, <2>6 DEF Made
    <3>2. MadeSoFar(kind, spoilt, Top) = P \o <<>>
      BY <2>11 DEF MadeSoFar
    <3>3. P \in Seq(NodeType)
      <4>1. i - 1 \in Nat /\ i - 1 <= Len(Children[g])
        <5>1. Len(Children[g]) \in Nat
          BY <1>1, MembersAre
        <5> QED BY <2>1, <5>1
      <4> QED BY <1>1, <4>1, FrameFacts, PartsStep
    <3> HIDE DEF P, node
    <3> QED BY <1>1, <3>1, <3>2, <3>3, NoNodes
  <2> HIDE DEF x, node
  <2> QED BY <2>5, <2>9, <2>10, <2>11, <2>12 DEF CallsFor
<1>10. PlacedTrue'
  BY <1>1 DEF PlacedTrue, Sound
<1> HIDE DEF g, i, o, u, x, node
<1> QED BY <1>1, <1>2, <1>4, <1>6, <1>8, <1>9, <1>10, CallsTrue

\* A frame that returns has made what is below its group.
LEMMA ReturnsTrue ==
    ASSUME IInv, IInv', WInv, stack # <<>>, stack' = Front(stack), kind # "serial",
           UNCHANGED <<kind, asked, wire, queue, spoilt, odd, late, answer, request, tree>>,
           pc \in {"handle", "walk"}, pc' = "walk",
           Clean => MadeSoFar(kind, spoilt, Top)
                        = NodesOf(kind, spoilt, Top.group.of, Top.under)
    PROVE  WInv'
<1> DEFINE s == stack
           t == stack'
           n == Len(stack)
           S == spoilt
<1>1. /\ Simple /\ MadeTrue /\ SpoiltTrue /\ PlacedTrue /\ StackTrue
      /\ n \in Nat /\ n >= 1 /\ s \in Seq(FrameType) /\ t \in Seq(FrameType) /\ Len(t) = n - 1
      /\ Top = s[n] /\ Last(s) = Top /\ Top \in FrameType
      /\ \A j \in 1..(n - 1) : t[j] = s[j]
  BY StackFacts DEF WInv, IInv, Top
<1>2. LinkTrue' /\ LagTrue'
  BY WalkKeepsLink
<1>3. GetsTrue' /\ ComingTrue'
  BY DEF GetsTrue, ComingTrue
<1>4. PlacedTrue'
  <2> HIDE DEF t
  <2>1. DOMAIN s = 1..n /\ DOMAIN t = 1..(n - 1)
    BY <1>1
  <2>2. \A j \in DOMAIN t : j \in DOMAIN s /\ t[j] = s[j]
    <3> HIDE DEF s, n
    <3> QED BY <1>1, <2>1
  <2>3. Sound => \A j \in DOMAIN s : Placed(kind, s[j])
    BY <1>1 DEF PlacedTrue
  <2>4. Sound => Among(tree, Traversal(kind, {}))
    BY <1>1 DEF PlacedTrue
  <2> HIDE DEF s
  <2>5. Sound => \A j \in DOMAIN t : Placed(kind, t[j])
    BY <2>2, <2>3
  <2> QED BY <2>4, <2>5 DEF PlacedTrue, Sound, t
<1>5. CASE ~Clean'
  <2>1. StackTrue' /\ SpoiltTrue' /\ MadeTrue'
    BY <1>5 DEF StackTrue, SpoiltTrue, MadeTrue
  <2> QED BY <1>2, <1>3, <1>4, <2>1 DEF WInv
<1>6. CASE Clean'
  <2> DEFINE A == MadeAbove(kind, S, s, n - 1)
             B == NodesOf(kind, S, Top.group.of, Top.under)
  <2>1. Clean /\ pc \in Walking /\ pc' \in Walking
    BY <1>6 DEF Clean, Walking, Asking
  <2>2. /\ Chain(kind, S, s) /\ Done(Top) \in Nat
        /\ \A i \in 1..Done(Top) : i \in DOMAIN Children[Top.group.of]
        /\ MadeSoFar(kind, S, Top) \in Seq(NodeType) /\ A \in Seq(NodeType)
    BY <2>1, TopFacts
  <2>3. tree = A \o B /\ B \in Seq(NodeType)
    BY <1>1, <2>1, <2>2 DEF MadeTrue
  <2>4. CASE t = <<>>
    <3>1. n = 1
      BY <1>1, <2>4
    <3>2. A = <<>>
      <4>1. n - 1 \in 0..(Len(s) - 1) /\ n - 1 = 0
        BY <3>1
      <4> QED BY <1>1, <2>2, <4>1, MadeAboveStep
    <3>3. tree = B
      <4> HIDE DEF A, B
      <4> QED BY <1>1, <2>3, <3>2, NoNodes
    <3>4. Top.group = Id(Root[kind]) /\ Top.under = <<>>
      BY <1>1, <2>2, <3>1 DEF Chain
    <3>5. B = Traversal(kind, S)
      <4>1. Top.group.of = Root[kind]
        BY <3>4 DEF Id
      <4> HIDE DEF s, n
      <4> QED BY <3>4, <4>1 DEF Traversal, NodesOf
    <3>6. MadeTrue'
      BY <2>4, <3>3, <3>5 DEF MadeTrue
    <3>7. StackTrue' /\ SpoiltTrue'
      BY <2>4 DEF StackTrue, SpoiltTrue
    <3> QED BY <1>2, <1>3, <1>4, <3>6, <3>7 DEF WInv
  <2>5. CASE t # <<>>
    <3> DEFINE f == Last(t)
               o == Callee(kind, f)
    <3>1. Popped(s, t)
      BY <1>1 DEF Popped
    <3>2. /\ Chain(kind, S, t) /\ f = s[n - 1] /\ n - 1 \in 1..(n - 1)
          /\ Suspended(kind, S, f, Top)
      BY <1>1, <2>2, <2>5, <3>1, ChainPopped
    <3>3. f \in FrameType /\ t[n - 1] = f /\ Top' = f
      BY <1>1, <3>2, ChainFacts DEF Top
    <3> HIDE DEF f
    <3> DEFINE g == f.group.of
               u == f.under
               i == f.i
               m == Len(Children[g])
    <3>4. /\ At(kind, f) \in 1..m /\ At(kind, f) \in DOMAIN Children[g] /\ o \in Objects
          /\ Top.group.of = o /\ ~Skips(kind, o) /\ f.walked = (kind # "text")
          /\ Entered(kind, S, f) /\ Top.under = Append(u, g)
      <4>1. Top \in FrameType /\ f \in FrameType /\ Suspended(kind, S, f, Top)
        BY <1>1, <3>2, <3>3
      <4> HIDE DEF s, t, n, S
      <4>2. /\ At(kind, f) \in DOMAIN Children[g] /\ At(kind, f) \in Nat /\ At(kind, f) >= 1
            /\ At(kind, f) <= m /\ o \in Objects /\ Top.group.of = o
        BY <4>1, SuspendedFacts
      <4>3. /\ ~Skips(kind, o) /\ f.walked = (kind # "text")
            /\ Entered(kind, S, f) /\ Top.under = Append(u, g) /\ At(kind, f) \in 1..m
        BY <4>1 DEF Suspended, Deeper
      <4> QED BY <4>2, <4>3
    <3>5. g \in Objects /\ u \in Seq(Objects) /\ i \in Nat /\ i >= 1 /\ m \in Nat
      BY <3>3, FrameFacts
    <3>6. At(kind, f) = IF kind = "text" THEN i - 1 ELSE i
      BY DEF At
    <3>7. Underway(kind, S, f)
      <4>1. i <= m + 1 /\ (kind # "text" => i <= m)
        <5> HIDE DEF i, m
        <5> QED BY <3>4, <3>5, <3>6
      <4>2. kind # "text" => o = Children[g][i]
        BY <3>6 DEF Callee
      <4> QED BY <3>4, <4>1, <4>2 DEF Underway
    <3>8. Done(f) = At(kind, f)
      BY <3>4, <3>6 DEF Done
    <3>9. StackTrue'
      BY <3>2, <3>3, <3>7 DEF StackTrue
    <3>10. SpoiltTrue'
      <4> SUFFICES ASSUME NEW x \in S
                   PROVE  BelowPassed(kind, t, x)
        BY DEF SpoiltTrue
      <4> DEFINE c == n - 1
      <4>1. c \in 1..Len(t) /\ Len(t) = c /\ ~(c < Len(t))
        <5> HIDE DEF n, t
        <5> QED BY <1>1, <3>2
      <4>2. Passed(kind, t, c) = At(kind, f) /\ t[c] = f
        BY <3>3, <3>8, <4>1 DEF Passed, Done
      <4>3. ASSUME x \in Subtree(o)
            PROVE  BelowPassed(kind, t, x)
        <5>1. At(kind, f) \in 1..At(kind, f)
          BY <3>4
        <5>2. x \in Subtree(Children[t[c].group.of][At(kind, f)])
          BY <4>2, <4>3 DEF Callee
        <5> HIDE DEF c, t
        <5> QED BY <4>1, <4>2, <5>1, <5>2 DEF BelowPassed
      <4>4. x = Top.group.of \/ BelowPassed(kind, s, x)
        BY <1>1, <2>1 DEF SpoiltTrue
      <4>5. CASE x = Top.group.of
        BY <3>4, <4>3, <4>5, SubtreeFacts
      <4>6. CASE BelowPassed(kind, s, x)
        <5>1. PICK j \in 1..n : \E k \in 1..Passed(kind, s, j) :
                                   x \in Subtree(Children[s[j].group.of][k])
          BY <4>6 DEF BelowPassed
        <5>2. PICK k \in 1..Passed(kind, s, j) : x \in Subtree(Children[s[j].group.of][k])
          BY <5>1
        <5>3. CASE j = n
          <6>1. ~(j < Len(s)) /\ s[j] = Top
            <7>1. ~(n < n)
              <8> HIDE DEF n
              <8> QED BY <1>1
            <7> QED BY <1>1, <5>3, <7>1
          <6>2. Passed(kind, s, j) = Done(Top)
            BY <6>1 DEF Passed, Done
          <6>3. k \in DOMAIN Children[o] /\ x \in Subtree(Children[o][k])
            BY <2>2, <3>4, <5>2, <6>1, <6>2
          <6>4. Subtree(Children[o][k]) \subseteq Subtree(o)
            BY <3>4, <6>3, SubtreeFacts, SubtreeOfMember
          <6> QED BY <4>3, <6>3, <6>4
        <5>4. CASE j # n
          <6>1. j \in 1..c /\ j < n
            <7> HIDE DEF n
            <7> QED BY <1>1, <5>4
          <6>2. t[j] = s[j] /\ j \in 1..Len(t) /\ j < Len(s)
            BY <1>1, <4>1, <6>1
          <6>3. Passed(kind, s, j) = At(kind, s[j]) - 1
            BY <6>2 DEF Passed
          <6>4. k \in 1..Passed(kind, t, j)
            <7>1. CASE j < Len(t)
              BY <5>2, <6>2, <6>3, <7>1 DEF Passed
            <7>2. CASE ~(j < Len(t))
              <8>1. j = c
                <9> HIDE DEF c, t
                <9> QED BY <4>1, <6>2, <7>2
              <8>2. s[j] = f
                BY <3>2, <8>1
              <8> QED BY <3>4, <4>2, <5>2, <6>3, <8>1, <8>2
            <7> QED BY <7>1, <7>2
          <6> HIDE DEF t, s, c
          <6> QED BY <5>2, <6>2, <6>4 DEF BelowPassed
        <5> QED BY <5>3, <5>4
      <4> QED BY <4>4, <4>5, <4>6
    <3>11. MadeTrue'
      <4> DEFINE c == n - 1
                 D == MadeAbove(kind, S, s, c - 1)
                 node == SchemaNode(o, o, Append(u, g))
                 P == Parts(kind, S, g, u, At(kind, f) - 1)
                 M == Member(kind, S, g, u, At(kind, f))
      <4>1. c \in Nat /\ c # 0 /\ c \in 0..(Len(s) - 1) /\ c - 1 \in 0..(Len(s) - 1) /\ Len(t) = c
        <5> HIDE DEF n, t
        <5>1. c \in Nat /\ c # 0 /\ c \in 0..(n - 1) /\ c - 1 \in 0..(n - 1) /\ Len(t) = c
          BY <1>1, <3>2
        <5> QED BY <5>1 DEF n
      <4>2. A = D \o Made(kind, S, f) /\ Made(kind, S, f) \in Seq(NodeType) /\ D \in Seq(NodeType)
        <5>1. /\ A = D \o Made(kind, S, s[c]) /\ Made(kind, S, s[c]) \in Seq(NodeType)
          BY <1>1, <2>2, <4>1, MadeAboveStep
        <5>2. D \in Seq(NodeType)
          BY <1>1, <2>2, <4>1, MadeAboveStep
        <5> QED BY <3>2, <5>1, <5>2
      <4>3. SamePrefix(s, t, c - 1)
        <5>1. \A j \in 1..(c - 1) : j \in 1..(n - 1)
          BY <4>1
        <5> QED BY <1>1, <5>1 DEF SamePrefix
      <4>4. MadeAbove(kind, S, t, Len(t) - 1) = D
        BY <4>1, <4>3, MadeAboveSame
      <4>5. /\ B \in Seq(NodeType) /\ node \in NodeType
            /\ M = IF kind = "text" THEN <<node>> \o B ELSE B \o <<node>>
        <5> DEFINE a == At(kind, f)
        <5>1. a \in 1..Len(Children[g]) /\ o = Children[g][a] /\ ~Skips(kind, Children[g][a])
          BY <3>4 DEF Callee
        <5>2. B = NodesOf(kind, S, Children[g][a], Append(u, g))
          BY <3>4, <5>1
        <5> DEFINE x == Children[g][a]
                   below == NodesOf(kind, S, x, Append(u, g))
                   made == SchemaNode(x, x, Append(u, g))
        <5>3. /\ below \in Seq(NodeType) /\ made \in NodeType
              /\ ~Skips(kind, x) =>
                    Member(kind, S, g, u, a) = IF kind = "text" THEN <<made>> \o below
                                               ELSE below \o <<made>>
          <6>1. g \in Objects /\ u \in Seq(Objects) /\ a \in 1..Len(Children[g])
            BY <3>5, <5>1
          <6> HIDE DEF g, u, a, S
          <6> QED BY <6>1, MemberIs
        <5>4. below = B /\ made = node /\ M = Member(kind, S, g, u, a) /\ ~Skips(kind, x)
          BY <5>1, <5>2
        <5> HIDE DEF a, g, u, B, o, M, below, made, node, x
        <5> QED BY <5>3, <5>4
      <4>6. P \in Seq(NodeType) /\ Parts(kind, S, g, u, At(kind, f)) = P \o M
        <5> DEFINE a == At(kind, f)
        <5>1. a \in Nat /\ a # 0 /\ a <= m /\ a - 1 \in Nat /\ a - 1 <= m
          BY <3>4, <3>5
        <5> DEFINE before == Parts(kind, S, g, u, a - 1)
                   all    == Parts(kind, S, g, u, a)
                   own    == Member(kind, S, g, u, a)
        <5>2. before \in Seq(NodeType) /\ all = before \o own
          <6>1. g \in Objects /\ u \in Seq(Objects) /\ a <= Len(Children[g])
            BY <3>5, <5>1
          <6> HIDE DEF g, u, a, S
          <6> QED BY <5>1, <6>1, PartsStep
        <5>3. before = P /\ all = Parts(kind, S, g, u, At(kind, f)) /\ own = M
          OBVIOUS
        <5> HIDE DEF before, all, own, P, M
        <5> QED BY <5>2, <5>3
      <4>7. Made(kind, S, f) \o B = MadeSoFar(kind, S, f)
        <5>1. CASE kind = "text"
          <6>1. Made(kind, S, f) = P \o <<node>>
            BY <5>1 DEF Made, Deeper
          <6>2. M = <<node>> \o B /\ <<node>> \in Seq(NodeType)
            <7> HIDE DEF node, B, M, NodeType
            <7> QED BY <4>5, <5>1
          <6>3. MadeSoFar(kind, S, f) = Parts(kind, S, g, u, At(kind, f)) \o <<>>
            BY <3>4, <3>6, <5>1 DEF MadeSoFar
          <6> HIDE DEF P, M, B, node
          <6>4. (P \o <<node>>) \o B = P \o M /\ M \in Seq(NodeType)
            <7> DEFINE x == <<node>>
            <7>1. P \in Seq(NodeType) /\ x \in Seq(NodeType) /\ B \in Seq(NodeType)
              BY <4>5, <4>6, <6>2
            <7> HIDE DEF x, NodeType
            <7>2. (P \o x) \o B = P \o (x \o B) /\ x \o B \in Seq(NodeType)
              BY <7>1, ConcatThree
            <7> QED BY <6>2, <7>2 DEF x
          <6>5. P \o M \in Seq(NodeType)
            BY <4>6, <6>4, ConcatElements
          <6> QED BY <1>1, <4>6, <6>1, <6>3, <6>4, <6>5, NoNodes
        <5>2. CASE kind # "text"
          <6>1. Made(kind, S, f) = P \o <<>>
            BY <5>2 DEF Made
          <6>2. MadeSoFar(kind, S, f) = P \o B
            <7>1. o = Children[g][i] /\ P = Parts(kind, S, g, u, i - 1) /\ f.walked
              BY <3>4, <3>6, <5>2 DEF Callee
            <7>2. B = NodesOf(kind, S, Children[g][i], Deeper(f))
              BY <3>4, <7>1 DEF Deeper
            <7> HIDE DEF B, P
            <7> QED BY <7>1, <7>2 DEF MadeSoFar
          <6> HIDE DEF P
          <6> QED BY <1>1, <4>6, <6>1, <6>2, NoNodes
        <5> QED BY <5>1, <5>2
      <4>8. tree = D \o MadeSoFar(kind, S, f)
        <5> DEFINE K == Made(kind, S, f)
        <5>1. K \in Seq(NodeType) /\ A = D \o K /\ K \o B = MadeSoFar(kind, S, f)
          BY <4>2, <4>7
        <5>3. D \in Seq(NodeType) /\ K \in Seq(NodeType) /\ B \in Seq(NodeType)
          BY <2>3, <4>2
        <5> HIDE DEF K, D, B, A
        <5>2. (D \o K) \o B = D \o (K \o B)
          <6> HIDE DEF NodeType
          <6> QED BY <5>3, ConcatThree
        <5> QED BY <2>3, <5>1, <5>2
      <4> HIDE DEF D, c
      <4> QED BY <2>5, <3>3, <4>4, <4>8 DEF MadeTrue
    <3> QED BY <1>2, <1>3, <1>4, <3>9, <3>10, <3>11 DEF WInv
  <2> QED BY <2>4, <2>5
<1> QED BY <1>5, <1>6

\* A walk that has gone through all the members of a group.
LEMMA ReturnTrue ==
    ASSUME IInv, IInv', WInv, Return
    PROVE  WInv'
<1>1. /\ pc = "walk" /\ stack # <<>> /\ Top.i > Len(Top.ids)
      /\ stack' = Front(stack) /\ pc' = "walk"
      /\ UNCHANGED <<kind, asked, wire, queue, spoilt, odd, late, answer, request, tree>>
      /\ Simple /\ RequestOK /\ StackTrue
  BY DEF Return, link, IInv, WInv
<1>2. kind # "serial" /\ Top \in FrameType
  BY <1>1, StackFacts DEF RequestOK
<1>3. ASSUME Clean
      PROVE  MadeSoFar(kind, spoilt, Top) = NodesOf(kind, spoilt, Top.group.of, Top.under)
  <2>1. Underway(kind, spoilt, Top)
    BY <1>1, <1>3 DEF StackTrue, Walking
  <2> QED BY <1>1, <1>2, <2>1, MadeByAll
<1> QED BY <1>1, <1>2, <1>3, ReturnsTrue

\* A group that the client learns nothing of, or that has no members.
LEMMA GivenUpTrue ==
    ASSUME IInv, IInv', WInv, pc = "handle", Returns, kind # "serial",
           UNCHANGED <<kind, asked, wire, queue, spoilt, odd, late, answer, tree>>,
           Clean => Top.group.of \in spoilt \/ Children[Top.group.of] = <<>>
    PROVE  WInv'
<1>1. /\ stack # <<>> /\ Top.group.of \in Objects /\ Top.under \in Seq(Objects)
      /\ Clean => MadeSoFar(kind, spoilt, Top) = <<>>
      /\ stack' = Front(stack) /\ pc' = "walk" /\ request' = request
  BY AskingTop DEF Returns
<1>2. Clean => MadeSoFar(kind, spoilt, Top) = NodesOf(kind, spoilt, Top.group.of, Top.under)
  BY <1>1, BelowIs
<1> QED BY <1>1, <1>2, ReturnsTrue

\* No ids are either those of a group without members or none at all.
LEMMA NoIdsTrue ==
    ASSUME IInv, WInv, Clean, pc = "handle", request.what = "ids", kind # "serial",
           Values = <<>> \/ Status # "content"
    PROVE  Top.group.of \in spoilt \/ Children[Top.group.of] = <<>>
<1> DEFINE g == Top.group.of
<1>1. g \in Objects /\ request.about = g /\ request = IdsOf(g, Id(g))
  BY AskingTop
<1>2. ASSUME g \notin spoilt
      PROVE  Children[g] = <<>>
  <2>1. /\ answer.to = request /\ answer.form = "content" /\ Status = "content"
        /\ Values = Data(answer)
    BY <1>1, <1>2, OwnAnswer
  <2>2. Values = Kids(g)
    BY <1>1, <2>1, OwnData
  <2> QED BY <1>1, <2>1, <2>2, KidsFacts
<1> QED BY <1>2

\* The handlers of the responses, whichever way they go.
LEMMA HandlesTrue ==
    ASSUME IInv, IInv', WInv, HandleIds \/ HandleNames \/ HandleMetadata
    PROVE  WInv'
<1>1. RequestOK /\ Simple
  BY DEF IInv
<1>2. CASE HandleIds
  <2>1. CASE Values # <<>>
    BY <1>2, <2>1, HandleIdsTrue
  <2>2. CASE Values = <<>>
    <3>1. /\ pc = "handle" /\ request.what = "ids" /\ kind # "serial" /\ Returns
          /\ UNCHANGED <<kind, asked, wire, queue, spoilt, odd, late, answer, tree>>
      BY <1>1, <1>2, <2>2 DEF HandleIds, link, RequestOK
    <3> QED BY <2>2, <3>1, NoIdsTrue, GivenUpTrue
  <2> QED BY <2>1, <2>2
<1>3. CASE HandleNames
  <2>1. CASE Status = "content" /\ Values # <<>>
    BY <1>3, <2>1, HandleNamesTrue
  <2>2. CASE ~(Status = "content" /\ Values # <<>>)
    <3>1. /\ pc = "handle" /\ request.what = "ids" /\ kind # "serial" /\ Returns
          /\ UNCHANGED <<kind, asked, wire, queue, spoilt, odd, late, answer, tree>>
      BY <1>1, <1>3, <2>2 DEF HandleNames, link, RequestOK
    <3> QED BY <2>2, <3>1, NoIdsTrue, GivenUpTrue
  <2> QED BY <2>1, <2>2
<1>4. CASE HandleMetadata
  <2>1. /\ pc = "handle" /\ request.what = "metadata" /\ kind # "serial"
        /\ UNCHANGED <<kind, asked, wire, queue, spoilt, odd, late, answer, tree>>
    BY <1>1, <1>4 DEF HandleMetadata, link, RequestOK
  <2>2. CASE ~HasContent /\ Returns
    <3>1. Clean => Top.group.of \in spoilt
      BY <2>1, <2>2, AskingTop, OwnAnswer
    <3> QED BY <2>1, <2>2, <3>1, GivenUpTrue
  <2>3. CASE ~(~HasContent /\ Returns)
    <3>1. /\ HasContent /\ stack' = [stack EXCEPT ![Len(stack)].md = Values] /\ UNCHANGED request
          /\ pc' = IF Len(Values) < Len(Top.ids) THEN "raised" ELSE "walk"
      BY <1>4, <2>3 DEF HandleMetadata
    <3> QED BY <1>4, <3>1, HandleMetadataTrue
  <2> QED BY <2>2, <2>3
<1> QED BY <1>2, <1>3, <1>4

\* Whatever step the walk or its link takes.
LEMMA MainTrue ==
    ASSUME IInv, IInv', WInv, Main
    PROVE  WInv'
<1>1. CASE Connect \/ Joined
  BY <1>1, ConnectTrue, JoinedTrue
<1>2. CASE Send
  BY <1>2, SendTrue
<1>3. CASE GetResponse \/ TimeOut
  BY <1>3, GetResponseTrue, TimeOutTrue
<1>4. CASE HandleGet
  BY <1>4, HandleGetTrue
<1>5. CASE HandleIds \/ HandleNames \/ HandleMetadata
  BY <1>5, HandlesTrue
<1>6. CASE NoMetadata
  BY <1>6, NoMetadataTrue
<1>7. CASE MakeNode
  BY <1>7, MakeNodeTrue
<1>8. CASE Descend \/ PrintChild
  BY <1>8, DescendTrue, PrintChildTrue
<1>9. CASE Return
  BY <1>9, ReturnTrue
<1>10. CASE Finish
  BY <1>10, FinishTrue
<1>11. CASE Disconnect \/ Close
  BY <1>11, DisconnectTrue
<1> QED BY <1>1, <1>2, <1>3, <1>4, <1>5, <1>6, <1>7, <1>8, <1>9, <1>10, <1>11 DEF Main

\* The walk starts with one frame, which asks, and no node.
LEMMA InitTrue ==
    ASSUME Init
    PROVE  WInv
<1>1. /\ kind \in Kinds /\ asked = <<>> /\ wire = <<>> /\ queue = <<>> /\ spoilt = {} /\ ~odd
      /\ pc = "new" /\ tree = <<>> /\ late = 0
  BY DEF Init, LinkInit
<1>2. LinkTrue /\ ComingTrue /\ LagTrue
  <2>1. DOMAIN wire = {}
    BY <1>1
  <2> QED BY <1>1, <2>1 DEF LinkTrue, ComingTrue, LagTrue, Lagging
<1>3. pc \in Walking /\ pc # "walk" /\ pc # "done" /\ DOMAIN tree = {}
  BY <1>1 DEF Walking
<1>4. CASE kind = "serial"
  <2>1. request = GetOf(Gets[1]) /\ stack = <<>> /\ "serial" \in Kinds
    BY <1>1, <1>4 DEF Init
  <2>2. StackTrue /\ SpoiltTrue /\ MadeTrue /\ PlacedTrue
    BY <1>3, <1>4, <2>1 DEF StackTrue, SpoiltTrue, MadeTrue, PlacedTrue, Sound
  <2>3. GetsTrue
    <3>1. 1 \in DOMAIN Gets /\ Got(spoilt, 1 - 1) = <<>>
      <4>1. 0 \in Nat /\ 0 <= Len(Gets) /\ 1 - 1 = 0
        BY <2>1, GetsFacts
      <4> QED BY <2>1, <4>1, GetsFacts, GotStep
    <3> QED BY <1>1, <2>1, <3>1 DEF GetsTrue
  <2> QED BY <1>2, <2>2, <2>3 DEF WInv
<1>5. CASE kind # "serial"
  <2> DEFINE r == Root[kind]
             x == Id(r)
             f == Frame(x, <<>>)
  <2>1. request = IdsOf(r, x) /\ stack = <<f>>
    BY <1>5 DEF Init
  <2>2. x \in Elements /\ x.of = r /\ r \in Objects /\ <<>> \in Seq(Objects)
    BY <1>1, <1>5, SchemaWalkAssumption DEF Id, Elements
  <2>3. f \in FrameType
    BY <2>2, NewCall
  <2>4. f.group = x /\ f.under = <<>> /\ f.ids = <<>> /\ f.md = <<>> /\ f.i = 1 /\ f.walked = FALSE
    BY DEF Frame
  <2> HIDE DEF f
  <2>5. Len(stack) = 1 /\ stack[1] = f /\ stack # <<>> /\ Top = f /\ DOMAIN stack = {1}
    BY <2>1 DEF Last, Top
  <2>6. stack \in Seq(FrameType)
    BY <2>1, <2>3
  <2>7. Chain(kind, spoilt, stack)
    <3>1. 1..(Len(stack) - 1) = {}
      BY <2>5
    <3> QED BY <2>4, <2>5, <3>1 DEF Chain
  <2>8. StackTrue
    <3>1. Asks(Top, request)
      BY <2>1, <2>2, <2>4, <2>5 DEF Asks
    <3> QED BY <1>3, <2>7, <3>1 DEF StackTrue
  <2>9. SpoiltTrue /\ GetsTrue
    BY <1>1, <1>5 DEF SpoiltTrue, GetsTrue
  <2>10. MadeTrue
    <3>1. MadeSoFar(kind, spoilt, Top) = <<>>
      BY <2>3, <2>4, <2>5, MadeByNone
    <3>2. MadeAbove(kind, spoilt, stack, Len(stack) - 1) = <<>>
      <4>1. Len(stack) - 1 = 0 /\ 0 \in 0..(Len(stack) - 1)
        BY <2>5
      <4> QED BY <2>5, <2>6, <2>7, <4>1, MadeAboveStep
    <3>3. <<>> \o <<>> = <<>>
      OBVIOUS
    <3> QED BY <1>1, <1>3, <2>5, <3>1, <3>2, <3>3 DEF MadeTrue
  <2>11. PlacedTrue
    <3>1. Among(tree, Traversal(kind, {}))
      BY <1>3 DEF Among
    <3>2. Traversal(kind, {}) = NodesOf(kind, {}, r, <<>>)
      BY <1>5 DEF Traversal, NodesOf
    <3>3. NodesOf(kind, {}, r, <<>>) \in Seq(NodeType)
      BY <2>2, BelowType DEF NodesOf
    <3>4. Among(Traversal(kind, {}), Traversal(kind, {}))
      BY <3>2, <3>3 DEF Among, Contains
    <3>5. Placed(kind, f)
      <4>1. DOMAIN f.md = {}
        BY <2>4
      <4> QED BY <2>2, <2>4, <3>2, <3>4, <4>1 DEF Placed
    <3> QED BY <2>5, <3>1, <3>5 DEF PlacedTrue
  <2> QED BY <1>2, <2>8, <2>9, <2>10, <2>11 DEF WInv
<1> QED BY <1>4, <1>5

\* A step that changes nothing.
LEMMA StutterTrue ==
    ASSUME WInv, UNCHANGED vars
    PROVE  WInv'
<1>1. /\ UNCHANGED <<kind, asked, wire, broken, running, thread, queue, faults, spoilt, odd>>
      /\ UNCHANGED <<pc, request, answer, stack, tree, late>>
  BY DEF vars, link, walk
<1>2. Top' = Top /\ Clean' = Clean /\ Coming' = Coming /\ Trail' = Trail /\ Lagging' = Lagging
  BY <1>1 DEF Top, Clean, Coming, Trail, Line, To, Lagging
<1>3. LinkTrue' /\ ComingTrue' /\ LagTrue'
  BY <1>1, <1>2 DEF WInv, LinkTrue, ComingTrue, LagTrue, Serial
<1>4. StackTrue' /\ SpoiltTrue' /\ MadeTrue' /\ GetsTrue'
  BY <1>1, <1>2 DEF WInv, StackTrue, SpoiltTrue, MadeTrue, GetsTrue
<1>5. PlacedTrue'
  BY <1>1 DEF WInv, PlacedTrue, Sound
<1> QED BY <1>3, <1>4, <1>5 DEF WInv

\* Whatever step the walk, its receive thread or the device takes.
LEMMA NextTrue ==
    ASSUME IInv, WInv, [Next]_vars
    PROVE  WInv'
<1>1. IInv'
  BY NextInvariant
<1>2. CASE Main
  BY <1>1, <1>2, MainTrue
<1>3. CASE ReceiveLoop /\ UNCHANGED <<walk, late>>
  BY <1>3, ReceiveLoopTrue
<1>4. CASE Environment /\ UNCHANGED <<walk, late>>
  BY <1>4, EnvironmentTrue
<1>5. CASE UNCHANGED vars
  BY <1>5, StutterTrue
<1> QED BY <1>2, <1>3, <1>4, <1>5 DEF Next

\* The inductive invariant of where the walk is: each frame is for a member of the
\* group of the one before, what was spoilt is behind it, and the tree that there
\* is is the part of the device's up to there.
THEOREM WalkIsTrue == Spec => []WInv
<1>1. Init => WInv
  BY InitTrue
<1>2. IInv /\ WInv /\ [Next]_vars => WInv'
  BY NextTrue
<1> QED BY <1>1, <1>2, WalkInvariant, PTL DEF Spec

(***************************************************************************)
(* What a walk finds, and what the device has                              *)
(***************************************************************************)
BelowFor(k, S, f, p) ==
    IF p[1] \in S THEN <<>>
    ELSE FlattenSeq([i \in DOMAIN Children[p[1]] |->
                        Part(k, f, Children[p[1]][i], Append(p[2], p[1]))])

\* The recursion that Below is has a solution too: what a client finds that goes into
\* every record.
LEMMA BelowSolves ==
    ASSUME NEW k, NEW S, NEW p \in Positions
    PROVE  Below(k, S)[p] = BelowFor(k, S, Below(k, S), p)
<1> DEFINE c == IF k = "text" THEN "text" ELSE "tcp"
           F == Found(c, S)
           f == [q \in Positions |-> F[q]]
           Is(h) == h = [q \in Positions |-> BelowFor(k, S, h, q)]
           b == CHOOSE h : Is(h)
<1>1. ASSUME NEW h, NEW o, NEW u
      PROVE  Part(k, h, o, u) = Seen(c, h, o, u)
  BY DEF Part, Seen
<1>2. ASSUME NEW h, NEW q
      PROVE  BelowFor(k, S, h, q) = BelowOf(c, S, h, q)
  <2> DEFINE x == [i \in DOMAIN Children[q[1]] |-> Part(k, h, Children[q[1]][i], Append(q[2], q[1]))]
             y == [i \in DOMAIN Children[q[1]] |-> Seen(c, h, Children[q[1]][i], Append(q[2], q[1]))]
  <2> HIDE DEF c
  <2>1. x = y
    BY <1>1
  <2>2. BelowFor(k, S, h, q) = IF q[1] \in S THEN <<>> ELSE FlattenSeq(x)
    BY DEF BelowFor
  <2>3. BelowOf(c, S, h, q) = IF q[1] \in S THEN <<>> ELSE FlattenSeq(y)
    BY DEF BelowOf
  <2> QED BY <2>1, <2>2, <2>3
<1>3. \A q \in Positions : F[q] = BelowOf(c, S, F, q) /\ F[q] \in Seq(NodeType)
  BY BelowFixed
<1> HIDE DEF c, F
<1>4. ASSUME NEW q \in Positions
      PROVE  f[q] = BelowFor(k, S, f, q)
  <2>1. \A i \in DOMAIN Children[q[1]] :
           LET m == <<Children[q[1]][i], Append(q[2], q[1])>>
           IN  f[m] = F[m] /\ F[m] \in Seq(NodeType)
    BY <1>3, PlaceOfMember
  <2> HIDE DEF f
  <2>2. BelowOf(c, S, f, q) = BelowOf(c, S, F, q)
    BY <2>1, BelowOfFacts
  <2>3. f[q] = F[q]
    BY DEF f
  <2> QED BY <1>2, <1>3, <2>2, <2>3
<1>5. Is(f)
  <2> HIDE DEF F
  <2> QED BY <1>4
<1>6. Is(b)
  <2> HIDE DEF Is, f
  <2> QED BY <1>5
<1>7. Below(k, S) = b
  BY DEF Below, BelowFor, Positions
<1> HIDE DEF b
<1>8. b[p] = BelowFor(k, S, b, p)
  BY <1>6
<1> QED BY <1>7, <1>8

\* So a walk finds what the device has, but for what is below the records that its
\* client leaves out.
LEMMA FoundIsThere ==
    ASSUME NEW k \in Kinds \ {"serial"}, NEW S
    PROVE  NodesOf(k, S, Root[k], <<>>) = Below(k, S \cup LeftOut(k))[Root[k], <<>>]
<1> DEFINE W == S \cup LeftOut(k)
           R == Root[k]
           H(o, u) == Below(k, W)[o, u]
           D == {o \in Subtree(R) :
                    o \notin LeftOut(k) /\ \E v \in Seq(Objects) : NodesOf(k, S, o, v) # H(o, v)}
<1>1. R \in Objects /\ R \in Subtree(R) /\ Subtree(R) \subseteq Objects
  <2>1. R \in Objects
    BY SchemaWalkAssumption
  <2> HIDE DEF R
  <2> QED BY <2>1, SubtreeFacts
<1>2. /\ R \notin LeftOut(k)
      /\ \A o \in Objects : o # R => (Skips(k, o) <=> o \in LeftOut(k))
  BY DEF LeftOut, Skips
<1> HIDE DEF R
<1>3. ASSUME NEW o \in Objects, NEW v \in Seq(Objects)
      PROVE  /\ o \in W => H(o, v) = <<>>
             /\ o \notin W => H(o, v) = FlattenSeq([i \in DOMAIN Children[o] |->
                                        Part(k, Below(k, W), Children[o][i], Append(v, o))])
  <2> DEFINE p == <<o, v>>
  <2>1. p \in Positions /\ p[1] = o /\ p[2] = v
    BY DEF Positions
  <2> HIDE DEF p, W
  <2>2. Below(k, W)[p] = BelowFor(k, W, Below(k, W), p)
    BY <2>1, BelowSolves
  <2> QED BY <2>1, <2>2 DEF BelowFor, p
<1>4. D = {}
  <2> SUFFICES ASSUME D # {} PROVE FALSE
    OBVIOUS
  <2>1. D \in SUBSET Objects
    BY <1>1
  <2>2. PICK o \in D : \A i \in DOMAIN Children[o] : Children[o][i] \notin D
    <3> HIDE DEF D
    <3> QED BY <2>1, DeviceAssumption
  <2>3. PICK v \in Seq(Objects) : NodesOf(k, S, o, v) # H(o, v)
    BY <2>2
  <2>4. o \in Objects /\ o \in Subtree(R) /\ (o \in W <=> o \in S)
    BY <2>1, <2>2
  <2> HIDE DEF W
  <2> DEFINE u == Append(v, o)
             n == Len(Children[o])
             x == [i \in 1..n |-> Seen(k, Found(k, S), Children[o][i], u)]
             y == [i \in 1..n |-> Part(k, Below(k, W), Children[o][i], u)]
  <2>5. u \in Seq(Objects) /\ n \in Nat /\ DOMAIN Children[o] = 1..n
    BY <2>4, SmallSequences, MembersAre
  <2>6. ASSUME NEW i \in 1..n
        PROVE  Seen(k, Found(k, S), Children[o][i], u) = Part(k, Below(k, W), Children[o][i], u)
    <3> DEFINE m == Children[o][i]
               node == SchemaNode(m, m, u)
               found == NodesOf(k, S, m, u)
    <3>1. m \in Objects /\ m \in Subtree(R) /\ m \notin D
      BY <1>1, <2>2, <2>4, <2>5, MembersAre, SubtreeOfMember
    <3>2. m # R
      BY <2>4, <2>5, NoCycle
    <3>3. /\ Seen(k, Found(k, S), m, u) =
                LET rest == IF Skips(k, m) THEN <<>> ELSE found
                IN  IF k = "text" THEN <<node>> \o rest ELSE rest \o <<node>>
          /\ Part(k, Below(k, W), m, u) =
                IF k = "text" THEN <<node>> \o H(m, u) ELSE H(m, u) \o <<node>>
      BY DEF Seen, Part, Skips, NodesOf
    <3>4. CASE m \in LeftOut(k)
      <4>1. Skips(k, m) /\ H(m, u) = <<>>
        BY <1>2, <1>3, <2>5, <3>1, <3>2, <3>4 DEF W
      <4> HIDE DEF u, node, found, H
      <4> QED BY <3>3, <4>1
    <3>5. CASE m \notin LeftOut(k)
      <4>1. ~Skips(k, m)
        BY <1>2, <3>1, <3>2, <3>5
      <4>2. found = H(m, u)
        BY <2>5, <3>1, <3>5
      <4> HIDE DEF u, node, found, H
      <4> QED BY <3>3, <4>1, <4>2
    <3> QED BY <3>4, <3>5
  <2>7. x = y
    <3> HIDE DEF n, u
    <3> QED BY <2>6
  <2>8. CASE o \in S
    <3>1. NodesOf(k, S, o, v) = <<>> /\ H(o, v) = <<>>
      BY <1>3, <2>4, <2>8, BelowIs
    <3> QED BY <2>3, <3>1
  <2>9. CASE o \notin S
    <3>1. NodesOf(k, S, o, v) = FlattenSeq(x)
      BY <2>4, <2>9, BelowIs DEF Parts
    <3>2. H(o, v) = FlattenSeq(y)
      <4>1. H(o, v) = FlattenSeq([i \in DOMAIN Children[o] |->
                                    Part(k, Below(k, W), Children[o][i], u)])
        BY <1>3, <2>4, <2>9
      <4> HIDE DEF H, u, n
      <4> QED BY <2>5, <4>1
    <3> HIDE DEF x, y, H
    <3> QED BY <2>3, <2>7, <3>1, <3>2
  <2> QED BY <2>8, <2>9
<1>5. <<>> \in Seq(Objects)
  BY NoElements
<1> QED BY <1>1, <1>2, <1>4, <1>5 DEF R

LEMMA TraversalIsReference ==
    ASSUME NEW k \in Kinds, NEW S
    PROVE  Traversal(k, S) = Reference(k, S \cup LeftOut(k))
<1>1. CASE k = "serial"
  <2>1. S \cup LeftOut(k) = S
    BY <1>1 DEF LeftOut
  <2>2. Traversal(k, S) = Reference(k, S)
    BY <1>1 DEF Traversal, Reference
  <2> QED BY <2>1, <2>2
<1>2. CASE k # "serial"
  BY <1>2, FoundIsThere DEF Traversal, Reference, NodesOf
<1> QED BY <1>1, <1>2

\* If no response was late or cut, and no line that is none was taken for one,
\* discover_schema(), get() and the walk of the command line end with the device's
\* tree, in order, without what lies below a group that was lost or refused, or below
\* a record if the client is the asynchronous one: for every device, however deep, and
\* every order of answers, losses and refusals.
THEOREM TreeOfTheDevice == Spec => []TreeIsTheDevices
<1>1. IInv /\ WInv => TreeIsTheDevices
  <2> SUFFICES ASSUME IInv, WInv, pc = "done", Clean
               PROVE  tree = Reference(kind, spoilt \cup LeftOut(kind))
    BY DEF TreeIsTheDevices, Clean
  <2>1. kind \in Kinds
    BY DEF IInv, Simple
  <2>2. tree = Traversal(kind, spoilt)
    BY DEF WInv, MadeTrue
  <2> QED BY <2>1, <2>2, TraversalIsReference
<1> QED BY <1>1, WalkInvariant, WalkIsTrue, PTL

\* After one late response, nothing that discover_schema() of the TCP client puts
\* in the tree is out of its place.
THEOREM OneLatePlaces == Spec => []OneLateMisplacesNothing
<1>1. IInv /\ WInv => OneLateMisplacesNothing
  <2> SUFFICES ASSUME IInv, WInv, Sound
               PROVE  Among(tree, Reference(kind, {}))
    BY DEF Sound, Among, OneLateMisplacesNothing
  <2>1. kind \in Kinds /\ kind = "tcp"
    BY DEF IInv, Simple, Sound
  <2>2. LeftOut(kind) = {}
    BY <2>1 DEF LeftOut
  <2>3. Traversal(kind, {}) = Reference(kind, {})
    BY <2>1, <2>2, TraversalIsReference
  <2>4. Among(tree, Traversal(kind, {}))
    BY DEF WInv, PlacedTrue
  <2> QED BY <2>3, <2>4
<1> QED BY <1>1, WalkInvariant, WalkIsTrue, PTL
=============================================================================
