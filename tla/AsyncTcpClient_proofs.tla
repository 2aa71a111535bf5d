------------------------ MODULE AsyncTcpClient_proofs ------------------------
(***************************************************************************)
(* Proofs about AsyncTcpClient, for any set of calls.                      *)
(***************************************************************************)
EXTENDS AsyncTcpClient, SequenceTheorems, TLAPS

(***************************************************************************)
(* Queues, for any elements                                                *)
(***************************************************************************)
\* Taking the head off a queue removes one occurrence of it.
LEMMA TailFacts ==
    ASSUME NEW S, NEW s \in Seq(S), s # <<>>
    PROVE  /\ Tail(s) \in Seq(S) /\ Head(s) \in S
           /\ ToSet(s) = {Head(s)} \cup ToSet(Tail(s))
           /\ IsInjective(s) => IsInjective(Tail(s)) /\ Head(s) \notin ToSet(Tail(s))
<1>1. Len(s) \in Nat /\ Len(s) >= 1 /\ Head(s) = s[1] /\ Head(s) \in S
  OBVIOUS
<1>2. Tail(s) \in Seq(S) /\ Len(Tail(s)) = Len(s) - 1
  OBVIOUS
<1>3. \A i \in 1..Len(Tail(s)) : Tail(s)[i] = s[i + 1]
  OBVIOUS
<1>4. DOMAIN s = 1..Len(s) /\ DOMAIN Tail(s) = 1..(Len(s) - 1)
  BY <1>2
<1>5. ToSet(s) = {Head(s)} \cup ToSet(Tail(s))
  <2>1. ASSUME NEW x \in ToSet(s) PROVE x \in {Head(s)} \cup ToSet(Tail(s))
    <3>1. PICK i \in 1..Len(s) : x = s[i]
      BY <1>4 DEF ToSet
    <3>2. CASE i = 1
      BY <3>1, <3>2, <1>1
    <3>3. CASE i # 1
      <4>1. i - 1 \in 1..(Len(s) - 1) /\ Tail(s)[i - 1] = s[i]
        BY <3>3, <1>1, <1>2, <1>3
      <4> QED BY <4>1, <3>1, <1>4 DEF ToSet
    <3> QED BY <3>2, <3>3
  <2>2. Head(s) \in ToSet(s)
    BY <1>1, <1>4 DEF ToSet
  <2>3. ASSUME NEW x \in ToSet(Tail(s)) PROVE x \in ToSet(s)
    <3>1. PICK i \in 1..(Len(s) - 1) : x = s[i + 1]
      BY <1>2, <1>3, <1>4 DEF ToSet
    <3> QED BY <3>1, <1>1, <1>4 DEF ToSet
  <2> QED BY <2>1, <2>2, <2>3
<1>6. ASSUME IsInjective(s)
      PROVE  IsInjective(Tail(s)) /\ Head(s) \notin ToSet(Tail(s))
  BY <1>1, <1>2, <1>3, <1>4, <1>6 DEF IsInjective, ToSet
<1> QED BY <1>1, <1>2, <1>5, <1>6

\* Appending an element that is not in the queue keeps it free of duplicates.
LEMMA AppendFacts ==
    ASSUME NEW S, NEW s \in Seq(S), NEW x \in S
    PROVE  /\ Append(s, x) \in Seq(S) /\ Append(s, x) # <<>>
           /\ ToSet(Append(s, x)) = ToSet(s) \cup {x}
           /\ IsInjective(s) /\ x \notin ToSet(s) => IsInjective(Append(s, x))
           /\ s # <<>> => Head(Append(s, x)) = Head(s)
           /\ s = <<>> => Head(Append(s, x)) = x
<1> DEFINE t == Append(s, x)
<1>1. /\ t \in Seq(S) /\ Len(t) = Len(s) + 1 /\ Len(s) \in Nat
      /\ t[Len(s) + 1] = x
      /\ \A i \in 1..Len(s) : t[i] = s[i]
  OBVIOUS
<1>2. DOMAIN s = 1..Len(s) /\ DOMAIN t = 1..(Len(s) + 1)
  BY <1>1
<1>3. ToSet(t) = ToSet(s) \cup {x}
  <2>1. ASSUME NEW y \in ToSet(t) PROVE y \in ToSet(s) \cup {x}
    <3>1. PICK i \in 1..(Len(s) + 1) : y = t[i]
      BY <1>2 DEF ToSet
    <3>2. CASE i = Len(s) + 1
      BY <3>1, <3>2, <1>1
    <3>3. CASE i # Len(s) + 1
      <4>1. i \in 1..Len(s)
        BY <3>3, <1>1
      <4> QED BY <4>1, <3>1, <1>1, <1>2 DEF ToSet
    <3> QED BY <3>2, <3>3
  <2>2. ASSUME NEW y \in ToSet(s) PROVE y \in ToSet(t)
    <3>1. PICK i \in 1..Len(s) : y = s[i]
      BY <1>2 DEF ToSet
    <3>2. i \in 1..(Len(s) + 1) /\ y = t[i]
      BY <3>1, <1>1
    <3> QED BY <3>2, <1>2 DEF ToSet
  <2>3. x \in ToSet(t)
    <3>1. Len(s) + 1 \in DOMAIN t /\ t[Len(s) + 1] = x
      BY <1>1, <1>2
    <3> QED BY <3>1 DEF ToSet
  <2> QED BY <2>1, <2>2, <2>3
<1>4. IsInjective(s) /\ x \notin ToSet(s) => IsInjective(t)
  BY <1>1, <1>2 DEF IsInjective, ToSet
<1>5. s # <<>> => Head(t) = Head(s)
  OBVIOUS
<1>6. s = <<>> => Head(t) = x
  OBVIOUS
<1> HIDE DEF t
<1> QED
  <2>1. t \in Seq(S) /\ t # <<>>
    BY <1>1
  <2> QED BY <2>1, <1>3, <1>4, <1>5, <1>6 DEF t

\* Moving the first n elements of one queue to the end of another loses none
\* and duplicates none.
LEMMA MoveFacts ==
    ASSUME NEW S, NEW q \in Seq(S), NEW f \in Seq(S), NEW n \in 1..Len(f),
           IsInjective(q), IsInjective(f), ToSet(q) \cap ToSet(f) = {}
    PROVE  LET p == q \o SubSeq(f, 1, n)
               r == SubSeq(f, n + 1, Len(f))
           IN  /\ p \in Seq(S) /\ r \in Seq(S)
               /\ ToSet(p) \cup ToSet(r) = ToSet(q) \cup ToSet(f)
               /\ ToSet(p) \cap ToSet(r) = {}
               /\ ToSet(q) \subseteq ToSet(p) /\ ToSet(r) \subseteq ToSet(f)
               /\ IsInjective(p) /\ IsInjective(r)
<1> DEFINE a == SubSeq(f, 1, n)
           r == SubSeq(f, n + 1, Len(f))
           p == q \o a
<1>1. n \in Nat /\ Len(f) \in Nat /\ 1 <= n /\ n <= Len(f) /\ Len(q) \in Nat
  OBVIOUS
<1>2. a \in Seq(S) /\ Len(a) = n /\ \A i \in 1..n : a[i] = f[i]
  BY <1>1
<1>3. r \in Seq(S) /\ Len(r) = Len(f) - n /\ \A i \in 1..(Len(f) - n) : r[i] = f[n + i]
  BY <1>1
<1>4. /\ p \in Seq(S) /\ Len(p) = Len(q) + n
      /\ \A i \in 1..Len(q) : p[i] = q[i]
      /\ \A i \in 1..n : p[Len(q) + i] = f[i]
  BY <1>1, <1>2
<1> HIDE DEF a, r, p
<1>5. /\ DOMAIN q = 1..Len(q) /\ DOMAIN f = 1..Len(f)
      /\ DOMAIN p = 1..(Len(q) + n) /\ DOMAIN r = 1..(Len(f) - n)
  BY <1>1, <1>3, <1>4
<1>6. \A i \in 1..(Len(q) + n) : i > Len(q) => i - Len(q) \in 1..n /\ p[i] = f[i - Len(q)]
  <2> TAKE i \in 1..(Len(q) + n)
  <2> HAVE i > Len(q)
  <2>1. i - Len(q) \in 1..n /\ Len(q) + (i - Len(q)) = i
    BY <1>1
  <2> QED BY <2>1, <1>4
<1>7. ToSet(q) \subseteq ToSet(p)
  BY <1>1, <1>4, <1>5 DEF ToSet
<1>8. ToSet(r) \subseteq ToSet(f)
  <2>1. \A i \in 1..(Len(f) - n) : n + i \in 1..Len(f) /\ r[i] = f[n + i]
    BY <1>1, <1>3
  <2> QED BY <2>1, <1>5 DEF ToSet
<1>9. ASSUME NEW i \in 1..(Len(q) + n) PROVE p[i] \in ToSet(q) \cup {f[j] : j \in 1..n}
  <2>1. CASE i <= Len(q)
    <3>1. i \in 1..Len(q) /\ p[i] = q[i]
      BY <2>1, <1>1, <1>4
    <3> QED BY <3>1, <1>5 DEF ToSet
  <2>2. CASE i > Len(q)
    BY <2>2, <1>6
  <2> QED BY <2>1, <2>2, <1>1
<1>10. ToSet(p) = ToSet(q) \cup {f[j] : j \in 1..n}
  <2>1. \A j \in 1..n : Len(q) + j \in 1..(Len(q) + n) /\ p[Len(q) + j] = f[j]
    BY <1>1, <1>4
  <2> QED BY <2>1, <1>5, <1>7, <1>9 DEF ToSet
<1>11. ToSet(r) = {f[j] : j \in (n + 1)..Len(f)}
  <2>1. \A j \in (n + 1)..Len(f) : j - n \in 1..(Len(f) - n) /\ r[j - n] = f[j]
    <3> TAKE j \in (n + 1)..Len(f)
    <3>1. j - n \in 1..(Len(f) - n) /\ n + (j - n) = j
      BY <1>1
    <3> QED BY <3>1, <1>3
  <2>2. \A i \in 1..(Len(f) - n) : n + i \in (n + 1)..Len(f) /\ r[i] = f[n + i]
    BY <1>1, <1>3
  <2> QED BY <2>1, <2>2, <1>5 DEF ToSet
<1>12. ToSet(f) = {f[j] : j \in 1..n} \cup {f[j] : j \in (n + 1)..Len(f)}
  <2>1. \A j \in 1..Len(f) : j \in 1..n \/ j \in (n + 1)..Len(f)
    BY <1>1
  <2>2. \A j \in 1..n : j \in 1..Len(f)
    BY <1>1
  <2>3. \A j \in (n + 1)..Len(f) : j \in 1..Len(f)
    BY <1>1
  <2> QED BY <2>1, <2>2, <2>3, <1>5 DEF ToSet
<1>13. {f[j] : j \in 1..n} \cap {f[j] : j \in (n + 1)..Len(f)} = {}
  <2>1. ASSUME NEW i \in 1..n, NEW j \in (n + 1)..Len(f) PROVE f[i] # f[j]
    <3>1. i \in DOMAIN f /\ j \in DOMAIN f /\ i # j
      BY <1>1, <1>5
    <3> QED BY <3>1 DEF IsInjective
  <2> QED BY <2>1
<1>14. IsInjective(r)
  <2>1. \A i \in 1..(Len(f) - n) : n + i \in 1..Len(f) /\ r[i] = f[n + i]
    BY <1>1, <1>3
  <2>2. ASSUME NEW i \in DOMAIN r, NEW j \in DOMAIN r, r[i] = r[j] PROVE i = j
    <3>1. n + i = n + j
      BY <2>1, <2>2, <1>5 DEF IsInjective
    <3> QED BY <3>1, <1>1, <1>5
  <2> QED BY <2>2 DEF IsInjective
<1>15. IsInjective(p)
  <2> SUFFICES ASSUME NEW i \in 1..(Len(q) + n), NEW j \in 1..(Len(q) + n), p[i] = p[j]
               PROVE  i = j
    BY <1>5 DEF IsInjective
  <2>1. \A k \in 1..(Len(q) + n) : k <= Len(q) => k \in DOMAIN q /\ p[k] = q[k]
    BY <1>1, <1>4, <1>5
  <2>2. \A k \in 1..(Len(q) + n) : k > Len(q) => k - Len(q) \in DOMAIN f /\ p[k] = f[k - Len(q)]
    BY <1>1, <1>5, <1>6
  <2>3. CASE i <= Len(q) /\ j <= Len(q)
    BY <2>1, <2>3 DEF IsInjective
  <2>4. CASE i > Len(q) /\ j > Len(q)
    <3>1. i - Len(q) = j - Len(q)
      BY <2>2, <2>4 DEF IsInjective
    <3> QED BY <3>1, <1>1
  <2>5. ASSUME NEW k \in 1..(Len(q) + n), NEW l \in 1..(Len(q) + n),
               k <= Len(q), l > Len(q)
        PROVE  p[k] # p[l]
    <3>1. p[k] \in ToSet(q)
      BY <2>1, <2>5 DEF ToSet
    <3>2. p[l] \in ToSet(f)
      BY <2>2, <2>5 DEF ToSet
    <3> QED BY <3>1, <3>2
  <2>6. i \in Nat /\ j \in Nat
    BY <1>1
  <2> QED BY <2>3, <2>4, <2>5, <2>6, <1>1
<1> QED
  BY <1>3, <1>4, <1>7, <1>8, <1>10, <1>11, <1>12, <1>13, <1>14, <1>15 DEF a, r, p

(***************************************************************************)
(* The calls                                                               *)
(***************************************************************************)
\* The ways a call can end are told apart by their records.
LEMMA OutcomeFacts ==
    /\ \A k : Returned(k) # Pending \/ k = "pending"
    /\ \A r : Reply(r) # Pending
    /\ \A k, r : Returned(k) # Reply(r)
    /\ \A r, s : Reply(r) = Reply(s) => r = s
    /\ \A k, l : Returned(k) = Returned(l) => k = l
    /\ \A k : Returned(k).kind = k
    /\ \A r : Reply(r).kind = "reply"
    /\ Pending.kind = "pending"
    /\ Pending \in Outcomes /\ Returned("None") \in Outcomes
    /\ \A k \in Failures : Returned(k) \in Outcomes
    /\ \A r \in Calls : Reply(r) \in Outcomes
<1>1. \A k : Returned(k) # Pending \/ k = "pending"
  BY DEF Returned, Pending
<1>2. \A r : Reply(r) # Pending
  BY DEF Reply, Pending
<1>3. \A k, r : Returned(k) # Reply(r)
  BY DEF Reply, Returned
<1>4. \A r, s : Reply(r) = Reply(s) => r = s
  <2> TAKE r, s
  <2>1. Reply(r).to = r /\ Reply(s).to = s
    BY DEF Reply
  <2> QED BY <2>1
<1>5. \A k : Returned(k).kind = k
  BY DEF Returned
<1>6. \A k, l : Returned(k) = Returned(l) => k = l
  <2> TAKE k, l
  <2>1. Returned(k).kind = k /\ Returned(l).kind = l
    BY <1>5
  <2> QED BY <2>1
<1>7. Pending.kind = "pending" /\ \A r : Reply(r).kind = "reply"
  BY DEF Pending, Reply
<1>8. /\ Pending \in Outcomes /\ Returned("None") \in Outcomes
      /\ \A k \in Failures : Returned(k) \in Outcomes
      /\ \A r \in Calls : Reply(r) \in Outcomes
  BY DEF Outcomes
<1> QED BY <1>1, <1>2, <1>3, <1>4, <1>5, <1>6, <1>7, <1>8

(***************************************************************************)
(* Type correctness and the lock.  Neither is inductive without the other: *)
(* a call that leaves takes itself off the head of the lock's queue.       *)
(***************************************************************************)
InLine(c) == pc[c] \in OnWire \cup {"queued"}

LockInv == TypeOK /\ OneRequestAtATime

\* A call whose turn it is, holding the lock with queue behind it.
Turn(c, queue) ==
    /\ queue \in Seq(Calls) /\ queue # <<>> /\ Head(queue) = c
    /\ IsInjective(queue)
    /\ pc[c] \in {"new", "queued"}
    /\ ToSet(queue) = {c} \cup {d \in Calls : InLine(d)}
    /\ \A d \in Calls : pc[d] \notin OnWire

LEMMA BeginsTurn ==
    ASSUME LockInv, NEW c \in Calls, pc[c] = "new", lockq = <<>>
    PROVE  Turn(c, <<c>>)
<1>1. <<c>> \in Seq(Calls) /\ <<c>> # <<>> /\ Head(<<c>>) = c
  OBVIOUS
<1>3. ToSet(<<>>) = {}
  BY DEF ToSet
<1>4. ToSet(<<c>>) = {c} /\ IsInjective(<<c>>)
  BY DEF ToSet, IsInjective
<1>5. {d \in Calls : InLine(d)} = {}
  BY <1>3 DEF LockInv, OneRequestAtATime, InLine
<1> QED BY <1>1, <1>4, <1>5 DEF Turn, InLine

LEMMA ResumesTurn ==
    ASSUME LockInv, NEW c \in Calls, pc[c] = "queued", HoldsLock(c)
    PROVE  Turn(c, lockq)
<1>1. lockq \in Seq(Calls) /\ lockq # <<>> /\ Head(lockq) = c
  BY DEF LockInv, TypeOK, HoldsLock
<1>2. IsInjective(lockq) /\ ToSet(lockq) = {d \in Calls : InLine(d)}
  BY DEF LockInv, OneRequestAtATime, InLine
<1>3. \A d \in Calls : pc[d] \notin OnWire
  BY <1>1 DEF LockInv, OneRequestAtATime, HoldsLock, OnWire
<1> QED BY <1>1, <1>2, <1>3 DEF Turn, InLine

\* A call with the lock that leaves hands it to the next in line.
LEMMA LeaveKeepsLock ==
    ASSUME LockInv, NEW c \in Calls, NEW o \in Outcomes, o # Pending,
           NEW queue \in Seq(Calls), queue # <<>>, Head(queue) = c,
           IsInjective(queue),
           ToSet(queue) = {c} \cup {d \in Calls : InLine(d)},
           \A d \in Calls : pc[d] \in OnWire => d = c,
           Leave(c, o, Tail(queue))
    PROVE  /\ lockq' \in Seq(Calls)
           /\ pc' \in [Calls -> {"new", "queued", "done"} \cup OnWire]
           /\ outcome' \in [Calls -> Outcomes]
           /\ \A d \in Calls : pc'[d] = "done" <=> outcome'[d] # Pending
           /\ OneRequestAtATime'
<1>1. /\ Tail(queue) \in Seq(Calls) /\ IsInjective(Tail(queue))
      /\ ToSet(queue) = {c} \cup ToSet(Tail(queue)) /\ c \notin ToSet(Tail(queue))
  BY TailFacts
<1>2. /\ lockq' = Tail(queue)
      /\ pc' = [pc EXCEPT ![c] = "done"]
      /\ outcome' = [outcome EXCEPT ![c] = o]
  BY DEF Leave
<1>3. /\ pc \in [Calls -> {"new", "queued", "done"} \cup OnWire]
      /\ outcome \in [Calls -> Outcomes]
      /\ \A d \in Calls : pc[d] = "done" <=> outcome[d] # Pending
  BY DEF LockInv, TypeOK
<1>4. /\ pc'[c] = "done" /\ outcome'[c] = o
      /\ \A d \in Calls \ {c} : pc'[d] = pc[d] /\ outcome'[d] = outcome[d]
  BY <1>2, <1>3
<1>5. /\ pc' \in [Calls -> {"new", "queued", "done"} \cup OnWire]
      /\ outcome' \in [Calls -> Outcomes]
  BY <1>2, <1>3
<1>6. \A d \in Calls : pc'[d] = "done" <=> outcome'[d] # Pending
  BY <1>3, <1>4
<1>7. \A d \in Calls : pc'[d] \notin OnWire
  BY <1>4 DEF OnWire
<1>8. ToSet(lockq') = {d \in Calls : pc'[d] \in OnWire \cup {"queued"}}
  BY <1>1, <1>2, <1>4 DEF InLine, OnWire
<1>9. OneRequestAtATime'
  BY <1>1, <1>2, <1>7, <1>8 DEF OneRequestAtATime
<1> QED BY <1>1, <1>2, <1>5, <1>6, <1>9

LEMMA TransmitKeepsLock ==
    ASSUME LockInv, NEW c \in Calls, NEW queue, Turn(c, queue),
           Transmit(c, queue), UNCHANGED <<client, link, fromDevice>>
    PROVE  LockInv'
<1> USE DEF LockInv
<1>1. /\ UNCHANGED <<closed, writer, opening, closing, reader, reopened, link, fromDevice>>
      /\ rx_queue' = <<>>
  BY DEF Transmit, DrainQueue, client
<1>2. \A d \in Calls : pc[d] \in OnWire => d = c
  BY DEF Turn
<1>3. CASE \E k \in Failures : /\ Leave(c, Returned(k), Tail(queue))
                               /\ UNCHANGED <<toDevice, inFlight>>
  <2>1. PICK k \in Failures : Leave(c, Returned(k), Tail(queue))
    BY <1>3
  <2>2. Returned(k) \in Outcomes /\ Returned(k) # Pending
    BY OutcomeFacts DEF Failures
  <2>3. /\ lockq' \in Seq(Calls)
        /\ pc' \in [Calls -> {"new", "queued", "done"} \cup OnWire]
        /\ outcome' \in [Calls -> Outcomes]
        /\ \A d \in Calls : pc'[d] = "done" <=> outcome'[d] # Pending
        /\ OneRequestAtATime'
    BY <1>2, <2>1, <2>2, LeaveKeepsLock DEF Turn
  <2> QED BY <1>1, <1>3, <2>3 DEF TypeOK
<1>4. CASE /\ toDevice' = IF link = "up" THEN Append(toDevice, c) ELSE toDevice
           /\ inFlight' = [inFlight EXCEPT
                             ![c] = ToSet(fromDevice) \cup ToSet(toDevice)]
           /\ pc' = [pc EXCEPT ![c] = "draining"]
           /\ lockq' = queue
           /\ UNCHANGED outcome
  <2>1. /\ toDevice' \in Seq(Calls) /\ lockq' \in Seq(Calls)
        /\ pc' \in [Calls -> {"new", "queued", "done"} \cup OnWire]
    BY <1>4 DEF TypeOK, Turn, OnWire
  <2>2. ToSet(fromDevice) \cup ToSet(toDevice) \in SUBSET Calls
    BY DEF TypeOK, ToSet
  <2>3. inFlight' \in [Calls -> SUBSET Calls]
    BY <1>4, <2>2 DEF TypeOK
  <2>4. pc'[c] = "draining" /\ \A d \in Calls \ {c} : pc'[d] = pc[d]
    BY <1>4 DEF TypeOK
  <2>5. \A d \in Calls : pc'[d] = "done" <=> outcome'[d] # Pending
    BY <1>4, <2>4 DEF TypeOK, Turn
  <2>6. TypeOK'
    BY <1>1, <1>4, <2>1, <2>3, <2>5 DEF TypeOK
  <2>7. ToSet(lockq') = {d \in Calls : pc'[d] \in OnWire \cup {"queued"}}
    BY <1>4, <2>4 DEF Turn, InLine, OnWire
  <2>8. \A d \in Calls : pc'[d] \in OnWire => d = c
    BY <2>4 DEF Turn
  <2>9. OneRequestAtATime'
    BY <1>4, <2>7, <2>8 DEF OneRequestAtATime, Turn, HoldsLock
  <2> QED BY <2>6, <2>9
<1> QED BY <1>3, <1>4 DEF Transmit, Failures

LEMMA LockInit == Init => LockInv
<1> SUFFICES ASSUME Init PROVE LockInv
  OBVIOUS
<1>1. Pending \in Outcomes
  BY OutcomeFacts
<1>2. TypeOK
  <2>1. /\ closed \in BOOLEAN /\ writer \in BOOLEAN /\ opening \in BOOLEAN
        /\ closing \in BOOLEAN /\ reopened \in BOOLEAN
    BY DEF Init
  <2>2. <<>> \in Seq(Calls)
    OBVIOUS
  <2>3. /\ rx_queue \in Seq(Calls) /\ lockq \in Seq(Calls)
        /\ toDevice \in Seq(Calls) /\ fromDevice \in Seq(Calls)
    BY <2>2 DEF Init
  <2>4. /\ pc \in [Calls -> {"new", "queued", "done"} \cup OnWire]
        /\ outcome \in [Calls -> Outcomes] /\ inFlight \in [Calls -> SUBSET Calls]
        /\ \A c \in Calls : pc[c] = "new" /\ outcome[c] = Pending
    BY <1>1 DEF Init
  <2> QED BY <2>1, <2>3, <2>4 DEF Init, TypeOK
<1>3. ToSet(lockq) = {} /\ IsInjective(lockq)
  BY DEF Init, ToSet, IsInjective
<1>4. \A c \in Calls : pc[c] \notin OnWire \cup {"queued"}
  BY DEF Init, OnWire
<1> QED BY <1>2, <1>3, <1>4 DEF LockInv, OneRequestAtATime

\* A call on the wire that leaves: the shape of DrainRaises, GetReply, TimeOut.
LEMMA LeaverKeepsLock ==
    ASSUME LockInv, NEW c \in Calls, pc[c] \in OnWire,
           NEW o \in Outcomes, o # Pending, Leave(c, o, Tail(lockq)),
           rx_queue' \in Seq(Calls), UNCHANGED <<inFlight, client, wire>>
    PROVE  LockInv'
<1>1. lockq \in Seq(Calls) /\ lockq # <<>> /\ Head(lockq) = c /\ IsInjective(lockq)
  BY DEF LockInv, TypeOK, OneRequestAtATime, HoldsLock
<1>2. ToSet(lockq) = {c} \cup {d \in Calls : InLine(d)}
  BY DEF LockInv, OneRequestAtATime, InLine
<1>3. \A d \in Calls : pc[d] \in OnWire => d = c
  BY <1>1 DEF LockInv, OneRequestAtATime, HoldsLock
<1>4. /\ lockq' \in Seq(Calls)
      /\ pc' \in [Calls -> {"new", "queued", "done"} \cup OnWire]
      /\ outcome' \in [Calls -> Outcomes]
      /\ \A d \in Calls : pc'[d] = "done" <=> outcome'[d] # Pending
      /\ OneRequestAtATime'
  BY <1>1, <1>2, <1>3, LeaveKeepsLock
<1> QED BY <1>4 DEF LockInv, TypeOK, client, wire

LEMMA LockStep == LockInv /\ [Next]_vars => LockInv'
<1> SUFFICES ASSUME LockInv, [Next]_vars PROVE LockInv'
  OBVIOUS
<1> USE DEF LockInv
<1>1. CASE Lifecycle
  <2>1. /\ closed' \in BOOLEAN /\ writer' \in BOOLEAN /\ opening' \in BOOLEAN
        /\ closing' \in BOOLEAN /\ reopened' \in BOOLEAN
    <3>1. CASE ConnectBegin
      BY <3>1 DEF ConnectBegin, TypeOK
    <3>2. CASE ConnectDone
      BY <3>2 DEF ConnectDone, TypeOK
    <3>3. CASE ConnectFail
      BY <3>3 DEF ConnectFail, TypeOK
    <3>4. CASE CloseBegin
      BY <3>4 DEF CloseBegin, ReleaseWriter, TypeOK
    <3>5. CASE CloseFinish
      BY <3>5 DEF CloseFinish, ReleaseWriter, TypeOK
    <3> QED BY <1>1, <3>1, <3>2, <3>3, <3>4, <3>5 DEF Lifecycle
  <2>3. /\ link' \in {"down", "up", "eof", "lost"}
        /\ reader' \in {"none", "running", "ended"}
        /\ toDevice' \in Seq(Calls) /\ fromDevice' \in Seq(Calls)
    <3>1. <<>> \in Seq(Calls)
      OBVIOUS
    <3> QED BY <1>1, <3>1 DEF Lifecycle, ConnectBegin, ConnectDone, ConnectFail,
               CloseBegin, CloseFinish, ReleaseWriter, TypeOK, calls, wire
  <2>2. UNCHANGED <<pc, lockq>>
    BY <1>1 DEF Lifecycle, ConnectBegin, ConnectDone, ConnectFail, CloseBegin,
                CloseFinish, calls
  <2>4. UNCHANGED <<rx_queue, outcome, inFlight>>
    BY <1>1 DEF Lifecycle, ConnectBegin, ConnectDone, ConnectFail, CloseBegin,
                CloseFinish, calls
  <2>5. TypeOK'
    BY <2>1, <2>2, <2>3, <2>4 DEF TypeOK
  <2> QED BY <2>2, <2>5 DEF OneRequestAtATime, HoldsLock
<1>2. ASSUME NEW c \in Calls, Begin(c) PROVE LockInv'
  <2>1. pc[c] = "new" /\ UNCHANGED <<client, link, fromDevice>>
    BY <1>2 DEF Begin
  <2>2. CASE /\ Leave(c, Returned("RuntimeError"), lockq)
             /\ UNCHANGED <<rx_queue, inFlight, toDevice>>
    <3>1. Returned("RuntimeError") \in Outcomes /\ Returned("RuntimeError") # Pending
      BY OutcomeFacts DEF Failures
    <3>2. /\ pc' = [pc EXCEPT ![c] = "done"] /\ lockq' = lockq
          /\ outcome' = [outcome EXCEPT ![c] = Returned("RuntimeError")]
      BY <2>2 DEF Leave
    <3>3. TypeOK'
      BY <2>1, <2>2, <3>1, <3>2 DEF TypeOK, client
    <3>4. \A d \in Calls : pc'[d] \in OnWire \cup {"queued"} <=> pc[d] \in OnWire \cup {"queued"}
      BY <2>1, <3>2 DEF TypeOK, OnWire
    <3>5. \A d \in Calls : pc'[d] \in OnWire => pc[d] \in OnWire
      BY <2>1, <3>2 DEF TypeOK, OnWire
    <3> QED BY <3>2, <3>3, <3>4, <3>5 DEF OneRequestAtATime, HoldsLock
  <2>3. CASE /\ lockq # <<>>
             /\ pc' = [pc EXCEPT ![c] = "queued"]
             /\ lockq' = Append(lockq, c)
             /\ UNCHANGED <<rx_queue, outcome, inFlight, toDevice>>
    <3>1. TypeOK'
      BY <2>1, <2>3 DEF TypeOK, client
    <3>2. c \notin ToSet(lockq)
      BY <2>1 DEF OneRequestAtATime, OnWire
    <3>3. /\ ToSet(lockq') = ToSet(lockq) \cup {c} /\ IsInjective(lockq')
          /\ Head(lockq') = Head(lockq) /\ lockq' # <<>>
      BY <2>3, <3>2, AppendFacts DEF TypeOK, OneRequestAtATime
    <3>4. \A d \in Calls : pc'[d] \in OnWire \cup {"queued"}
                             <=> d = c \/ pc[d] \in OnWire \cup {"queued"}
      BY <2>1, <2>3 DEF TypeOK, OnWire
    <3>5. \A d \in Calls : pc'[d] \in OnWire => pc[d] \in OnWire
      BY <2>1, <2>3 DEF TypeOK, OnWire
    <3> QED BY <2>3, <3>1, <3>3, <3>4, <3>5 DEF OneRequestAtATime, HoldsLock
  <2>4. CASE lockq = <<>> /\ Transmit(c, <<c>>)
    BY <2>1, <2>4, BeginsTurn, TransmitKeepsLock
  <2> QED BY <1>2, <2>2, <2>3, <2>4 DEF Begin
<1>3. ASSUME NEW c \in Calls, Resume(c) PROVE LockInv'
  BY <1>3, ResumesTurn, TransmitKeepsLock DEF Resume
<1>4. ASSUME NEW c \in Calls, Drained(c) PROVE LockInv'
  <2>1. TypeOK'
    BY <1>4 DEF Drained, TypeOK, OnWire, client, wire
  <2>2. \A d \in Calls : pc'[d] \in OnWire <=> pc[d] \in OnWire
    BY <1>4 DEF Drained, TypeOK, OnWire
  <2>3. \A d \in Calls : pc'[d] = "queued" <=> pc[d] = "queued"
    BY <1>4 DEF Drained, TypeOK
  <2> QED BY <1>4, <2>1, <2>2, <2>3 DEF Drained, OneRequestAtATime, HoldsLock
<1>5. ASSUME NEW c \in Calls, DrainRaises(c) PROVE LockInv'
  <2>1. /\ Returned("ConnectionResetError") \in Outcomes
        /\ Returned("ConnectionResetError") # Pending
    BY OutcomeFacts DEF Failures
  <2> QED BY <1>5, <2>1, LeaverKeepsLock DEF DrainRaises, OnWire, TypeOK
<1>6. ASSUME NEW c \in Calls, GetReply(c) PROVE LockInv'
  <2>1. rx_queue' \in Seq(Calls) /\ Head(rx_queue) \in Calls
    BY <1>6, TailFacts DEF GetReply, TypeOK
  <2>2. Reply(Head(rx_queue)) \in Outcomes /\ Reply(Head(rx_queue)) # Pending
    BY <2>1, OutcomeFacts
  <2> QED BY <1>6, <2>1, <2>2, LeaverKeepsLock DEF GetReply, OnWire
<1>7. ASSUME NEW c \in Calls, TimeOut(c) PROVE LockInv'
  <2>1. Returned("None") \in Outcomes /\ Returned("None") # Pending
    BY OutcomeFacts
  <2> QED BY <1>7, <2>1, LeaverKeepsLock DEF TimeOut, OnWire, TypeOK
<1>8. CASE Receive
  <2>1. PICK n \in 1..Len(fromDevice) :
           /\ rx_queue' = rx_queue \o SubSeq(fromDevice, 1, n)
           /\ fromDevice' = SubSeq(fromDevice, n + 1, Len(fromDevice))
    BY <1>8 DEF Receive
  <2>2. rx_queue' \in Seq(Calls) /\ fromDevice' \in Seq(Calls)
    BY <2>1 DEF TypeOK
  <2> QED BY <1>8, <2>2 DEF Receive, TypeOK, client, OneRequestAtATime, HoldsLock
<1>9. CASE ReaderEnds
  BY <1>9 DEF ReaderEnds, TypeOK, calls, wire, OneRequestAtATime, HoldsLock
<1>10. CASE DeviceReplies
  <2>1. toDevice' \in Seq(Calls) /\ fromDevice' \in Seq(Calls)
    BY <1>10 DEF DeviceReplies, TypeOK
  <2> QED BY <1>10, <2>1 DEF DeviceReplies, TypeOK, client, calls, OneRequestAtATime, HoldsLock
<1>11. CASE DeviceIsSilent
  <2>1. toDevice' \in Seq(Calls)
    BY <1>11 DEF DeviceIsSilent, TypeOK
  <2> QED BY <1>11, <2>1 DEF DeviceIsSilent, TypeOK, client, calls, OneRequestAtATime, HoldsLock
<1>12. CASE PeerCloses
  BY <1>12 DEF PeerCloses, TypeOK, client, calls, OneRequestAtATime, HoldsLock
<1>13. CASE PeerResets
  <2>1. TypeOK'
    BY <1>13 DEF PeerResets, TypeOK, client, OnWire
  <2>2. \A d \in Calls : pc'[d] \in OnWire <=> pc[d] \in OnWire
    BY <1>13 DEF PeerResets, TypeOK, OnWire
  <2>3. \A d \in Calls : pc'[d] = "queued" <=> pc[d] = "queued"
    BY <1>13 DEF PeerResets, TypeOK
  <2> QED BY <1>13, <2>1, <2>2, <2>3 DEF PeerResets, OneRequestAtATime, HoldsLock
<1>14. CASE UNCHANGED vars
  BY <1>14 DEF vars, client, calls, wire, TypeOK, OneRequestAtATime, HoldsLock
<1> QED BY <1>1, <1>2, <1>3, <1>4, <1>5, <1>6, <1>7, <1>8, <1>9, <1>10, <1>11,
           <1>12, <1>13, <1>14 DEF Next, Rpc, Environment

\* Every reachable state is type-correct, whatever the calls.
THEOREM TypeCorrect == Spec => []TypeOK
<1>1. LockInv => TypeOK
  BY DEF LockInv
<1> QED BY <1>1, LockInit, LockStep, PTL DEF Spec

\* "The lock keeps one request in flight at a time" (the class's docstring).
THEOREM OneAtATime == Spec => []OneRequestAtATime
<1>1. LockInv => OneRequestAtATime
  BY DEF LockInv
<1> QED BY <1>1, LockInit, LockStep, PTL DEF Spec

(***************************************************************************)
(* The pipeline of replies.  No two of its queues share a reply, nothing   *)
(* in it belongs to a call that never wrote its request, and nothing that  *)
(* was given to a call is still in it.                                     *)
(***************************************************************************)
Sent(c) == pc[c] \in OnWire \cup {"done"}

PipelineInv ==
    /\ IsInjective(rx_queue) /\ IsInjective(fromDevice) /\ IsInjective(toDevice)
    /\ ToSet(rx_queue) \cap ToSet(fromDevice) = {}
    /\ ToSet(rx_queue) \cap ToSet(toDevice) = {}
    /\ ToSet(fromDevice) \cap ToSet(toDevice) = {}
    /\ \A r \in InPipeline : Sent(r)
    /\ \A c, r \in Calls : outcome[c] = Reply(r) => Sent(r)
    /\ NoReplyTwice

\* A call on the wire owns every reply in the pipeline that was not on its way
\* when it wrote its request.
StaleInv ==
    /\ \A c \in Calls : pc[c] \in OnWire => InPipeline \subseteq {c} \cup inFlight[c]
    /\ StaleRepliesAreDrained

NoTimeout == \A c \in Calls : outcome[c] # Returned("None")

\* As long as no call timed out, the pipeline beyond the queue holds at most
\* the reply of the call on the wire; and a broken call has nothing there.
MixupInv ==
    /\ \A c \in Calls : pc[c] = "broken" =>
          c \notin ToSet(fromDevice) \cup ToSet(toDevice)
    /\ NoTimeout =>
          /\ \A c \in Calls : pc[c] \in OnWire => InPipeline \subseteq {c}
          /\ \A r \in ToSet(fromDevice) \cup ToSet(toDevice) : pc[r] \in OnWire
          /\ \A c, r \in Calls : outcome[c] = Reply(r) => r = c

\* How connect() and close() keep the connection's parts together.
LifecycleInv ==
    /\ opening => ~writer
    /\ closing => closed /\ writer /\ reader = "ended"
    /\ ~writer => reader # "running" /\ link = "down" /\ toDevice = <<>>
    /\ closed /\ ~closing /\ ~reopened => ~writer
    /\ \A c \in Calls : pc[c] = "queued" => writer \/ closed
    /\ AttributeErrorOnlyIfClosed

ReplyInv == PipelineInv /\ StaleInv /\ MixupInv

Beyond == ToSet(fromDevice) \cup ToSet(toDevice)

NoDuplicates ==
    /\ IsInjective(rx_queue) /\ IsInjective(fromDevice) /\ IsInjective(toDevice)
    /\ ToSet(rx_queue) \cap ToSet(fromDevice) = {}
    /\ ToSet(rx_queue) \cap ToSet(toDevice) = {}
    /\ ToSet(fromDevice) \cap ToSet(toDevice) = {}

(***************************************************************************)
(* Every step is one of three kinds, as far as replies are concerned: it   *)
(* gives none and sends no request, it sends one, or it gives one.         *)
(***************************************************************************)
Quiet ==
    /\ NoDuplicates'
    /\ Beyond' \subseteq Beyond /\ InPipeline' \subseteq InPipeline
    /\ inFlight' = inFlight
    /\ \A d \in Calls :
          /\ \/ outcome'[d] = outcome[d]
             \/ outcome[d] = Pending /\ \A r \in Calls : outcome'[d] # Reply(r)
          /\ Sent(d) => Sent(d)'
          /\ pc'[d] \in OnWire => pc[d] \in OnWire
          /\ (pc[d] \in OnWire /\ pc'[d] \notin OnWire)
                => d \notin Beyond' \/ outcome'[d] = Returned("None")
          /\ pc'[d] = "broken" => pc[d] = "broken" \/ Beyond' = {}

Sends(c) ==
    /\ pc[c] \in {"new", "queued"} /\ pc'[c] = "draining"
    /\ \A d \in Calls : pc[d] \notin OnWire
    /\ \A d \in Calls \ {c} : pc'[d] = pc[d]
    /\ outcome' = outcome
    /\ inFlight' = [inFlight EXCEPT ![c] = Beyond]
    /\ InPipeline' \subseteq Beyond \cup {c}
    /\ Beyond' \subseteq Beyond \cup {c}
    /\ NoDuplicates'

Gives(c, r) ==
    /\ pc[c] = "awaiting" /\ HoldsLock(c)
    /\ pc' = [pc EXCEPT ![c] = "done"]
    /\ outcome[c] = Pending
    /\ outcome' = [outcome EXCEPT ![c] = Reply(r)]
    /\ inFlight' = inFlight
    /\ r \in ToSet(rx_queue) /\ InPipeline' = InPipeline \ {r} /\ Beyond' = Beyond
    /\ NoDuplicates'

LEMMA QuietKeepsReplies == LockInv /\ ReplyInv /\ Quiet => ReplyInv'
<1> SUFFICES ASSUME LockInv, ReplyInv, Quiet PROVE ReplyInv'
  OBVIOUS
<1> USE OutcomeFacts
<1>1. \A d, r \in Calls : outcome'[d] = Reply(r) => outcome[d] = Reply(r)
  BY DEF Quiet
<1>2. \A d \in Calls : Sent(d) => Sent(d)'
  BY DEF Quiet
<1>3. InPipeline \subseteq Calls /\ Beyond \subseteq InPipeline
  BY DEF LockInv, TypeOK, InPipeline, Beyond, ToSet
<1>4. PipelineInv'
  <2>1. \A r \in InPipeline' : Sent(r)'
    BY <1>2, <1>3 DEF Quiet, ReplyInv, PipelineInv
  <2>2. \A c, r \in Calls : outcome'[c] = Reply(r) => Sent(r)'
    BY <1>1, <1>2 DEF ReplyInv, PipelineInv
  <2>3. NoReplyTwice'
    BY <1>1 DEF ReplyInv, PipelineInv, NoReplyTwice, Quiet
  <2> QED BY <2>1, <2>2, <2>3 DEF Quiet, NoDuplicates, PipelineInv
<1>5. StaleInv'
  BY <1>1 DEF Quiet, ReplyInv, StaleInv, StaleRepliesAreDrained
<1>6. MixupInv'
  <2>1. \A c \in Calls : pc'[c] = "broken" => c \notin Beyond'
    BY DEF Quiet, ReplyInv, MixupInv, Beyond
  <2>2. NoTimeout' => NoTimeout
    BY DEF Quiet, NoTimeout
  <2>3. ASSUME NoTimeout'
        PROVE  /\ \A c \in Calls : pc'[c] \in OnWire => InPipeline' \subseteq {c}
               /\ \A r \in Beyond' : pc'[r] \in OnWire
               /\ \A c, r \in Calls : outcome'[c] = Reply(r) => r = c
    <3>1. \A r \in Beyond : pc[r] \in OnWire
      BY <2>2, <2>3 DEF ReplyInv, MixupInv, Beyond
    <3>2. \A r \in Beyond' : pc'[r] \in OnWire
      BY <1>3, <2>3, <3>1 DEF Quiet, NoTimeout
    <3> QED BY <1>1, <2>2, <2>3, <3>2 DEF Quiet, ReplyInv, MixupInv
  <2> QED BY <2>1, <2>3 DEF MixupInv, Beyond
<1> QED BY <1>4, <1>5, <1>6 DEF ReplyInv

LEMMA SendKeepsReplies ==
    ASSUME LockInv, ReplyInv, NEW c \in Calls, Sends(c)
    PROVE  ReplyInv'
<1> USE OutcomeFacts
<1>1. Beyond \subseteq Calls /\ Beyond \subseteq InPipeline /\ Beyond' \subseteq InPipeline'
  BY DEF LockInv, TypeOK, InPipeline, Beyond, ToSet
<1>2. ~Sent(c) /\ c \notin InPipeline /\ \A d \in Calls : outcome[d] # Reply(c)
  BY DEF Sends, ReplyInv, PipelineInv, Sent, OnWire
<1>3. \A d \in Calls : Sent(d) => Sent(d)'
  BY <1>2 DEF Sends, Sent, OnWire
<1>4. Sent(c)' /\ pc'[c] \in OnWire
  BY DEF Sends, Sent, OnWire
<1>5. PipelineInv'
  <2>1. \A r \in InPipeline' : Sent(r)'
    BY <1>1, <1>3, <1>4 DEF Sends, ReplyInv, PipelineInv
  <2>2. \A d, r \in Calls : outcome'[d] = Reply(r) => Sent(r)'
    BY <1>3 DEF Sends, ReplyInv, PipelineInv
  <2>3. NoReplyTwice'
    BY <1>1, <1>2 DEF Sends, ReplyInv, PipelineInv, NoReplyTwice
  <2> QED BY <2>1, <2>2, <2>3 DEF Sends, NoDuplicates, PipelineInv
<1>6. \A d \in Calls : pc'[d] \in OnWire => d = c
  BY DEF Sends
<1>7. StaleInv'
  <2>1. inFlight'[c] = Beyond /\ \A d \in Calls \ {c} : inFlight'[d] = inFlight[d]
    BY DEF Sends, LockInv, TypeOK
  <2>2. outcome[c] = Pending
    BY DEF LockInv, TypeOK, Sends
  <2>3. StaleRepliesAreDrained'
    BY <2>1, <2>2 DEF Sends, ReplyInv, StaleInv, StaleRepliesAreDrained
  <2>4. InPipeline' \subseteq {c} \cup inFlight'[c]
    BY <2>1 DEF Sends
  <2> QED BY <1>6, <2>3, <2>4 DEF StaleInv
<1>8. MixupInv'
  <2>1. \A d \in Calls : pc'[d] # "broken"
    BY <1>6 DEF Sends, OnWire
  <2>2. ASSUME NoTimeout'
        PROVE  /\ \A d \in Calls : pc'[d] \in OnWire => InPipeline' \subseteq {d}
               /\ \A r \in Beyond' : pc'[r] \in OnWire
               /\ \A d, r \in Calls : outcome'[d] = Reply(r) => r = d
    <3>1. NoTimeout
      BY <2>2 DEF NoTimeout, Sends
    <3>2. Beyond = {}
      BY <1>1, <3>1 DEF Sends, ReplyInv, MixupInv, Beyond
    <3>3. InPipeline' \subseteq {c} /\ Beyond' \subseteq {c}
      BY <3>2 DEF Sends
    <3>4. \A d, r \in Calls : outcome'[d] = Reply(r) => r = d
      BY <3>1 DEF Sends, ReplyInv, MixupInv
    <3> QED BY <1>4, <1>6, <3>3, <3>4
  <2> QED BY <2>1, <2>2 DEF MixupInv, Beyond
<1> QED BY <1>5, <1>7, <1>8 DEF ReplyInv

LEMMA GiveKeepsReplies ==
    ASSUME LockInv, ReplyInv, NEW c \in Calls, NEW r \in Calls, Gives(c, r)
    PROVE  ReplyInv'
<1> USE OutcomeFacts
<1>1. Beyond \subseteq InPipeline /\ InPipeline \subseteq Calls /\ r \in InPipeline
  BY DEF LockInv, TypeOK, InPipeline, Beyond, ToSet, Gives
<1>2. /\ pc'[c] = "done" /\ outcome'[c] = Reply(r)
      /\ \A d \in Calls \ {c} : pc'[d] = pc[d] /\ outcome'[d] = outcome[d]
  BY DEF Gives, LockInv, TypeOK
<1>3. \A d \in Calls : pc'[d] \notin OnWire
  BY <1>2 DEF Gives, LockInv, OneRequestAtATime, HoldsLock, OnWire
<1>4. \A d \in Calls : Sent(d) => Sent(d)'
  BY <1>2 DEF Sent
<1>5. Sent(r)
  BY <1>1 DEF ReplyInv, PipelineInv
<1>6. \A d \in Calls : outcome[d] # Reply(r)
  BY <1>1 DEF ReplyInv, PipelineInv, NoReplyTwice
<1>7. PipelineInv'
  <2>1. \A x \in InPipeline' : Sent(x)'
    BY <1>1, <1>4 DEF Gives, ReplyInv, PipelineInv
  <2>2. \A d, x \in Calls : outcome'[d] = Reply(x) => Sent(x)'
    BY <1>2, <1>4, <1>5 DEF ReplyInv, PipelineInv
  <2>3. NoReplyTwice'
    <3>1. \A d, x \in Calls : outcome'[d] = Reply(x) => x \notin InPipeline'
      BY <1>2 DEF Gives, ReplyInv, PipelineInv, NoReplyTwice
    <3>2. \A d, e, x \in Calls :
             outcome'[d] = Reply(x) /\ outcome'[e] = Reply(x) => d = e
      BY <1>2, <1>6 DEF ReplyInv, PipelineInv, NoReplyTwice
    <3> QED BY <3>1, <3>2 DEF NoReplyTwice
  <2> QED BY <2>1, <2>2, <2>3 DEF Gives, NoDuplicates, PipelineInv
<1>8. StaleInv'
  <2>1. r = c \/ r \in inFlight[c]
    BY <1>1 DEF Gives, ReplyInv, StaleInv, OnWire
  <2>2. StaleRepliesAreDrained'
    BY <1>2, <2>1 DEF Gives, ReplyInv, StaleInv, StaleRepliesAreDrained
  <2> QED BY <1>3, <2>2 DEF StaleInv
<1>9. MixupInv'
  <2>1. ASSUME NoTimeout'
        PROVE  /\ Beyond' = {}
               /\ \A d, x \in Calls : outcome'[d] = Reply(x) => x = d
    <3>1. NoTimeout
      BY <1>2, <2>1 DEF NoTimeout, Gives
    <3>2. InPipeline \subseteq {c}
      BY <3>1 DEF ReplyInv, MixupInv, Gives, OnWire
    <3>3. r = c
      BY <1>1, <3>2
    <3>4. Beyond = {}
      BY <1>1, <3>2, <3>3 DEF Gives, ReplyInv, PipelineInv, Beyond
    <3>5. \A d, x \in Calls : outcome'[d] = Reply(x) => x = d
      BY <1>2, <3>1, <3>3 DEF ReplyInv, MixupInv
    <3> QED BY <3>4, <3>5 DEF Gives
  <2> QED BY <1>3, <2>1 DEF MixupInv, Beyond, OnWire
<1> QED BY <1>7, <1>8, <1>9 DEF ReplyInv

Kind == \/ Quiet
        \/ \E c \in Calls : Sends(c)
        \/ \E c, r \in Calls : Gives(c, r)

LEMMA TransmitKind ==
    ASSUME LockInv, ReplyInv, NEW c \in Calls, NEW queue, Turn(c, queue),
           Transmit(c, queue), UNCHANGED fromDevice
    PROVE  Quiet \/ Sends(c)
<1> USE OutcomeFacts
<1>1. ToSet(rx_queue') = {} /\ IsInjective(rx_queue')
  BY DEF Transmit, DrainQueue, ToSet, IsInjective
<1>2. NoDuplicates
  BY DEF ReplyInv, PipelineInv, NoDuplicates
<1>3. ~Sent(c) /\ pc[c] \in {"new", "queued"} /\ outcome[c] = Pending
  BY DEF Turn, Sent, OnWire, LockInv, TypeOK
<1>4. c \notin Beyond
  BY <1>3 DEF ReplyInv, PipelineInv, InPipeline, Beyond
<1>5. CASE \E k \in Failures : /\ Leave(c, Returned(k), Tail(queue))
                               /\ UNCHANGED <<toDevice, inFlight>>
  <2>1. PICK k \in Failures : Leave(c, Returned(k), Tail(queue))
    BY <1>5
  <2>2. /\ pc'[c] = "done" /\ outcome'[c] = Returned(k)
        /\ \A d \in Calls \ {c} : pc'[d] = pc[d] /\ outcome'[d] = outcome[d]
    BY <2>1 DEF Leave, LockInv, TypeOK
  <2>3. NoDuplicates' /\ Beyond' = Beyond /\ InPipeline' \subseteq InPipeline
    BY <1>1, <1>2, <1>5 DEF NoDuplicates, Beyond, InPipeline
  <2>4. Quiet
    BY <1>3, <1>5, <2>2, <2>3 DEF Quiet, Sent, OnWire
  <2> QED BY <2>4
<1>6. CASE /\ toDevice' = IF link = "up" THEN Append(toDevice, c) ELSE toDevice
           /\ inFlight' = [inFlight EXCEPT
                             ![c] = ToSet(fromDevice) \cup ToSet(toDevice)]
           /\ pc' = [pc EXCEPT ![c] = "draining"]
           /\ UNCHANGED outcome
  <2>1. toDevice \in Seq(Calls)
    BY DEF LockInv, TypeOK
  <2>2. /\ ToSet(Append(toDevice, c)) = ToSet(toDevice) \cup {c}
        /\ IsInjective(Append(toDevice, c))
    BY <1>2, <1>4, <2>1, AppendFacts DEF NoDuplicates, Beyond
  <2>3. ToSet(toDevice') \subseteq ToSet(toDevice) \cup {c} /\ IsInjective(toDevice')
    BY <1>2, <1>6, <2>2 DEF NoDuplicates
  <2>4. NoDuplicates'
    BY <1>1, <1>2, <1>4, <2>3 DEF NoDuplicates, Beyond
  <2>5. Beyond' \subseteq Beyond \cup {c} /\ InPipeline' = Beyond'
    BY <1>1, <2>3 DEF Beyond, InPipeline
  <2>6. Sends(c)
    BY <1>3, <1>6, <2>4, <2>5 DEF Sends, Turn, LockInv, TypeOK, Beyond
  <2> QED BY <2>6
<1> QED BY <1>5, <1>6 DEF Transmit, Failures

\* A step that leaves the pipeline as it is, or cuts it, and ends no more than
\* a call that has nothing beyond the queue.
LEMMA StillQuiet ==
    ASSUME LockInv, ReplyInv, UNCHANGED <<rx_queue, inFlight>>,
           \/ UNCHANGED <<fromDevice, toDevice>>
           \/ toDevice' = <<>> /\ fromDevice' \in {fromDevice, <<>>},
           \A d \in Calls :
              /\ \/ outcome'[d] = outcome[d]
                 \/ outcome[d] = Pending /\ \A r \in Calls : outcome'[d] # Reply(r)
              /\ Sent(d) => Sent(d)'
              /\ pc'[d] \in OnWire => pc[d] \in OnWire
              /\ (pc[d] \in OnWire /\ pc'[d] \notin OnWire)
                    => pc[d] = "broken" \/ outcome'[d] = Returned("None")
              /\ pc'[d] = "broken" =>
                    \/ pc[d] = "broken"
                    \/ fromDevice' = <<>> /\ toDevice' = <<>>
    PROVE  Quiet
<1>1. ToSet(<<>>) = {} /\ IsInjective(<<>>)
  BY DEF ToSet, IsInjective
<1>2. NoDuplicates
  BY DEF ReplyInv, PipelineInv, NoDuplicates
<1>3. NoDuplicates' /\ Beyond' \subseteq Beyond /\ InPipeline' \subseteq InPipeline
  BY <1>1, <1>2 DEF NoDuplicates, Beyond, InPipeline
<1>4. \A d \in Calls : pc[d] = "broken" => d \notin Beyond'
  BY <1>3 DEF ReplyInv, MixupInv, Beyond
<1>5. fromDevice' = <<>> /\ toDevice' = <<>> => Beyond' = {}
  BY <1>1 DEF Beyond
<1> QED BY <1>3, <1>4, <1>5 DEF Quiet

LEMMA StepKind == LockInv /\ ReplyInv /\ [Next]_vars => Kind
<1> SUFFICES ASSUME LockInv, ReplyInv, [Next]_vars PROVE Kind
  OBVIOUS
<1> USE OutcomeFacts DEF Kind
<1>1. /\ NoDuplicates
      /\ pc \in [Calls -> {"new", "queued", "done"} \cup OnWire]
      /\ outcome \in [Calls -> Outcomes]
      /\ rx_queue \in Seq(Calls) /\ fromDevice \in Seq(Calls) /\ toDevice \in Seq(Calls)
      /\ \A d \in Calls : pc[d] = "done" <=> outcome[d] # Pending
  BY DEF ReplyInv, PipelineInv, NoDuplicates, LockInv, TypeOK
<1>2. CASE UNCHANGED vars
  BY <1>2, StillQuiet DEF vars, calls, wire, Sent
<1>3. CASE Lifecycle
  <2>1. UNCHANGED calls
    BY <1>3 DEF Lifecycle, ConnectBegin, ConnectDone, ConnectFail, CloseBegin, CloseFinish
  <2>2. \/ UNCHANGED <<fromDevice, toDevice>>
        \/ toDevice' = <<>> /\ fromDevice' = <<>>
    BY <1>3 DEF Lifecycle, ConnectBegin, ConnectDone, ConnectFail, CloseBegin,
                CloseFinish, ReleaseWriter, wire
  <2> QED BY <2>1, <2>2, StillQuiet DEF calls, Sent
<1>4. ASSUME NEW c \in Calls, Begin(c) PROVE Kind
  <2>1. pc[c] = "new" /\ UNCHANGED fromDevice
    BY <1>4 DEF Begin
  <2>2. CASE lockq = <<>> /\ Transmit(c, <<c>>)
    BY <2>1, <2>2, BeginsTurn, TransmitKind
  <2>3. CASE /\ Leave(c, Returned("RuntimeError"), lockq)
             /\ UNCHANGED <<rx_queue, inFlight, toDevice>>
    <3>1. /\ pc'[c] = "done" /\ outcome'[c] = Returned("RuntimeError")
          /\ \A d \in Calls \ {c} : pc'[d] = pc[d] /\ outcome'[d] = outcome[d]
      BY <1>1, <2>3 DEF Leave
    <3>2. outcome[c] = Pending /\ pc[c] \notin OnWire
      BY <1>1, <2>1 DEF OnWire
    <3>3. Quiet
      BY <2>1, <2>3, <3>1, <3>2, StillQuiet DEF Sent, OnWire
    <3> QED BY <3>3
  <2>4. CASE /\ pc' = [pc EXCEPT ![c] = "queued"]
             /\ UNCHANGED <<rx_queue, outcome, inFlight, toDevice>>
    <3>1. pc'[c] = "queued" /\ \A d \in Calls \ {c} : pc'[d] = pc[d]
      BY <1>1, <2>4
    <3>2. Quiet
      BY <2>1, <2>4, <3>1, StillQuiet DEF Sent, OnWire
    <3> QED BY <3>2
  <2> QED BY <1>4, <2>2, <2>3, <2>4 DEF Begin
<1>5. ASSUME NEW c \in Calls, Resume(c) PROVE Kind
  BY <1>5, ResumesTurn, TransmitKind DEF Resume
<1>6. ASSUME NEW c \in Calls, Drained(c) PROVE Kind
  <2>1. pc[c] = "draining" /\ pc'[c] = "awaiting" /\ \A d \in Calls \ {c} : pc'[d] = pc[d]
    BY <1>1, <1>6 DEF Drained
  <2>2. Quiet
    BY <1>6, <2>1, StillQuiet DEF Drained, wire, Sent, OnWire
  <2> QED BY <2>2
<1>7. ASSUME NEW c \in Calls, NEW k \in {"None", "ConnectionResetError"},
             Leave(c, Returned(k), Tail(lockq)),
             pc[c] \in OnWire, k = "ConnectionResetError" => pc[c] = "broken",
             UNCHANGED <<rx_queue, inFlight, client, wire>>
      PROVE  Kind
  <2>1. /\ pc'[c] = "done" /\ outcome'[c] = Returned(k)
        /\ \A d \in Calls \ {c} : pc'[d] = pc[d] /\ outcome'[d] = outcome[d]
    BY <1>1, <1>7 DEF Leave
  <2>2. outcome[c] = Pending
    BY <1>1, <1>7 DEF OnWire
  <2>3. Quiet
    BY <1>7, <2>1, <2>2, StillQuiet DEF wire, Sent, OnWire
  <2> QED BY <2>3
<1>8. ASSUME NEW c \in Calls, GetReply(c) PROVE Kind
  <2> DEFINE r == Head(rx_queue)
  <2>1. /\ r \in Calls /\ ToSet(rx_queue) = {r} \cup ToSet(Tail(rx_queue))
        /\ IsInjective(Tail(rx_queue)) /\ r \notin ToSet(Tail(rx_queue))
    BY <1>1, <1>8, TailFacts DEF GetReply, NoDuplicates
  <2>2. /\ rx_queue' = Tail(rx_queue) /\ UNCHANGED <<inFlight, fromDevice, toDevice>>
        /\ pc' = [pc EXCEPT ![c] = "done"]
        /\ outcome' = [outcome EXCEPT ![c] = Reply(r)]
        /\ pc[c] = "awaiting"
    BY <1>8 DEF GetReply, Leave, wire
  <2>3. NoDuplicates' /\ Beyond' = Beyond
    BY <1>1, <2>1, <2>2 DEF NoDuplicates, Beyond
  <2>4. InPipeline' = InPipeline \ {r}
    BY <1>1, <2>1, <2>2 DEF InPipeline, NoDuplicates
  <2>5. HoldsLock(c) /\ outcome[c] = Pending
    BY <1>1, <2>2 DEF LockInv, OneRequestAtATime, OnWire
  <2>6. Gives(c, r)
    BY <2>1, <2>2, <2>3, <2>4, <2>5 DEF Gives
  <2> QED BY <2>1, <2>6
<1>9. CASE Receive
  <2>1. PICK n \in 1..Len(fromDevice) :
           /\ rx_queue' = rx_queue \o SubSeq(fromDevice, 1, n)
           /\ fromDevice' = SubSeq(fromDevice, n + 1, Len(fromDevice))
    BY <1>9 DEF Receive
  <2>2. UNCHANGED <<pc, outcome, inFlight, toDevice>>
    BY <1>9 DEF Receive
  <2>3. /\ ToSet(rx_queue') \cup ToSet(fromDevice') = ToSet(rx_queue) \cup ToSet(fromDevice)
        /\ ToSet(rx_queue') \cap ToSet(fromDevice') = {}
        /\ ToSet(fromDevice') \subseteq ToSet(fromDevice)
        /\ IsInjective(rx_queue') /\ IsInjective(fromDevice')
    BY <1>1, <2>1, MoveFacts DEF NoDuplicates
  <2>4. NoDuplicates'
    BY <1>1, <2>2, <2>3 DEF NoDuplicates
  <2>5. Beyond' \subseteq Beyond /\ InPipeline' = InPipeline
    BY <2>2, <2>3 DEF Beyond, InPipeline
  <2>6. Quiet
    BY <2>2, <2>4, <2>5 DEF Quiet, Sent
  <2> QED BY <2>6
<1>10. CASE ReaderEnds
  BY <1>10, StillQuiet DEF ReaderEnds, calls, wire, Sent
<1>11. ASSUME toDevice # <<>>, toDevice' = Tail(toDevice),
              fromDevice' \in {fromDevice, Append(fromDevice, Head(toDevice))},
              UNCHANGED <<pc, outcome, inFlight, rx_queue>>
       PROVE  Kind
  <2> DEFINE h == Head(toDevice)
  <2>1. /\ h \in Calls /\ ToSet(toDevice) = {h} \cup ToSet(Tail(toDevice))
        /\ IsInjective(Tail(toDevice)) /\ h \notin ToSet(Tail(toDevice))
    BY <1>1, <1>11, TailFacts DEF NoDuplicates
  <2>2. /\ ToSet(Append(fromDevice, h)) = ToSet(fromDevice) \cup {h}
        /\ IsInjective(Append(fromDevice, h))
    BY <1>1, <2>1, AppendFacts DEF NoDuplicates
  <2>5. /\ ToSet(fromDevice') \subseteq ToSet(fromDevice) \cup {h}
        /\ IsInjective(fromDevice')
    BY <1>1, <1>11, <2>2 DEF NoDuplicates
  <2>6. /\ ToSet(toDevice') = ToSet(toDevice) \ {h} /\ IsInjective(toDevice')
        /\ h \in ToSet(toDevice)
    BY <1>11, <2>1
  <2>7. rx_queue' = rx_queue
    BY <1>11
  <2>3. NoDuplicates' /\ Beyond' \subseteq Beyond /\ InPipeline' \subseteq InPipeline
    <3> HIDE DEF h
    <3> QED BY <1>1, <2>5, <2>6, <2>7 DEF NoDuplicates, Beyond, InPipeline
  <2>4. Quiet
    BY <1>11, <2>3 DEF Quiet, Sent
  <2> QED BY <2>4
<1>12. CASE PeerCloses
  BY <1>12, StillQuiet DEF PeerCloses, calls, Sent
<1>13. CASE PeerResets
  <2>1. \A d \in Calls : pc'[d] = IF pc[d] = "draining" THEN "broken" ELSE pc[d]
    BY <1>13 DEF PeerResets
  <2>2. Quiet
    BY <1>13, <2>1, StillQuiet DEF PeerResets, Sent, OnWire
  <2> QED BY <2>2
<1>14. ASSUME NEW c \in Calls, DrainRaises(c) PROVE Kind
  BY <1>7, <1>14 DEF DrainRaises, OnWire
<1>15. ASSUME NEW c \in Calls, TimeOut(c) PROVE Kind
  BY <1>7, <1>15 DEF TimeOut, OnWire
<1>16. CASE DeviceReplies \/ DeviceIsSilent
  BY <1>11, <1>16 DEF DeviceReplies, DeviceIsSilent, calls
<1> QED
  BY <1>2, <1>3, <1>4, <1>5, <1>6, <1>8, <1>9, <1>10, <1>12, <1>13, <1>14, <1>15,
     <1>16 DEF Next, Rpc, Environment

LEMMA ReplyInit == Init => ReplyInv
<1> SUFFICES ASSUME Init PROVE ReplyInv
  OBVIOUS
<1>1. ToSet(<<>>) = {} /\ IsInjective(<<>>)
  BY DEF ToSet, IsInjective
<1>2. InPipeline = {} /\ \A c, r \in Calls : outcome[c] # Reply(r)
  BY <1>1, OutcomeFacts DEF Init, InPipeline
<1>3. PipelineInv
  BY <1>1, <1>2 DEF Init, PipelineInv, NoReplyTwice
<1>4. StaleInv
  BY <1>2 DEF StaleInv, StaleRepliesAreDrained
<1>5. MixupInv
  BY <1>1, <1>2 DEF Init, MixupInv
<1> QED BY <1>3, <1>4, <1>5 DEF ReplyInv

LEMMA ReplyStep == LockInv /\ ReplyInv /\ [Next]_vars => ReplyInv'
  BY StepKind, QuietKeepsReplies, SendKeepsReplies, GiveKeepsReplies DEF Kind

LEMMA ReplyAlways == Spec => [](LockInv /\ ReplyInv)
  BY LockInit, LockStep, ReplyInit, ReplyStep, PTL DEF Spec

\* A reply is given to one call and is then gone from every queue.
THEOREM RepliesGivenOnce == Spec => []NoReplyTwice
<1>1. ReplyInv => NoReplyTwice
  BY DEF ReplyInv, PipelineInv
<1> QED BY <1>1, ReplyAlways, PTL

\* A reply that waited on the queue before a call wrote its request is never
\* that call's result.
THEOREM DrainWorks == Spec => []StaleRepliesAreDrained
<1>1. ReplyInv => StaleRepliesAreDrained
  BY DEF ReplyInv, StaleInv
<1> QED BY <1>1, ReplyAlways, PTL

\* Without a timeout no call is ever given another call's reply.
THEOREM NoMixupWithoutTimeout == Spec => []MixupNeedsTimeout
<1>1. ReplyInv => MixupNeedsTimeout
  BY DEF ReplyInv, MixupInv, MixupNeedsTimeout, NoTimeout
<1> QED BY <1>1, ReplyAlways, PTL

(***************************************************************************)
(* connect() and close().                                                  *)
(***************************************************************************)
LEMMA LifecycleStep == LockInv /\ LifecycleInv /\ [Next]_vars => LifecycleInv'
<1> SUFFICES ASSUME LockInv, LifecycleInv, [Next]_vars PROVE LifecycleInv'
  OBVIOUS
<1> USE OutcomeFacts
<1>1. CASE UNCHANGED vars
  BY <1>1 DEF vars, client, calls, wire, LifecycleInv, AttributeErrorOnlyIfClosed
<1>2. CASE Lifecycle
  <2>1. UNCHANGED <<pc, outcome>>
    BY <1>2 DEF Lifecycle, ConnectBegin, ConnectDone, ConnectFail, CloseBegin,
                CloseFinish, calls
  <2>2. CASE ConnectBegin
    BY <2>1, <2>2 DEF ConnectBegin, wire, LifecycleInv, AttributeErrorOnlyIfClosed
  <2>3. CASE ConnectDone
    BY <2>1, <2>3 DEF ConnectDone, LifecycleInv, AttributeErrorOnlyIfClosed
  <2>4. CASE ConnectFail
    BY <2>1, <2>4 DEF ConnectFail, wire, LifecycleInv, AttributeErrorOnlyIfClosed
  <2>5. CASE CloseBegin
    BY <2>1, <2>5 DEF CloseBegin, ReleaseWriter, wire, LifecycleInv,
                      AttributeErrorOnlyIfClosed
  <2>6. CASE CloseFinish
    BY <2>1, <2>6 DEF CloseFinish, ReleaseWriter, LifecycleInv, AttributeErrorOnlyIfClosed
  <2> QED BY <1>2, <2>2, <2>3, <2>4, <2>5, <2>6 DEF Lifecycle
<1>3. ASSUME UNCHANGED <<client, link>>, writer \/ toDevice' = toDevice,
             \A c \in Calls :
                /\ pc'[c] = "queued" => pc[c] = "queued" \/ writer
                /\ \/ outcome'[c] = outcome[c]
                   \/ outcome'[c] # Returned("AttributeError")
                   \/ ~writer /\ pc[c] = "queued"
      PROVE  LifecycleInv'
  BY <1>3 DEF client, LifecycleInv, AttributeErrorOnlyIfClosed
<1>4. ASSUME NEW c \in Calls, NEW queue, Transmit(c, queue),
             pc[c] = "queued" \/ writer, UNCHANGED <<client, link>>
      PROVE  LifecycleInv'
  <2>1. \A d \in Calls \ {c} : pc'[d] = pc[d] /\ outcome'[d] = outcome[d]
    BY <1>4 DEF Transmit, Leave, LockInv, TypeOK
  <2>2. pc'[c] # "queued"
    BY <1>4 DEF Transmit, Leave, LockInv, TypeOK
  <2>3. \/ outcome'[c] = outcome[c]
        \/ outcome'[c] = Returned("ConnectionResetError")
        \/ ~writer /\ pc[c] = "queued"
    BY <1>4 DEF Transmit, Leave, LockInv, TypeOK
  <2>4. writer \/ toDevice' = toDevice
    BY <1>4 DEF Transmit
  <2> QED BY <1>3, <1>4, <2>1, <2>2, <2>3, <2>4
<1>5. ASSUME NEW c \in Calls, Begin(c) PROVE LifecycleInv'
  <2>1. CASE writer /\ Transmit(c, <<c>>)
    BY <1>4, <1>5, <2>1 DEF Begin
  <2>2. CASE /\ Leave(c, Returned("RuntimeError"), lockq)
             /\ UNCHANGED <<rx_queue, inFlight, toDevice>>
    BY <1>3, <1>5, <2>2 DEF Begin, Leave, LockInv, TypeOK
  <2>3. CASE /\ writer /\ pc' = [pc EXCEPT ![c] = "queued"]
             /\ UNCHANGED <<rx_queue, outcome, inFlight, toDevice>>
    BY <1>3, <1>5, <2>3 DEF Begin, LockInv, TypeOK
  <2> QED BY <1>5, <2>1, <2>2, <2>3 DEF Begin
<1>6. ASSUME NEW c \in Calls, Resume(c) PROVE LifecycleInv'
  BY <1>4, <1>6 DEF Resume
<1>7. ASSUME NEW c \in Calls, NEW o, Leave(c, o, Tail(lockq)),
             o # Returned("AttributeError"), UNCHANGED <<client, wire>>
      PROVE  LifecycleInv'
  BY <1>3, <1>7 DEF Leave, wire, LockInv, TypeOK
<1>8. ASSUME NEW c \in Calls, DrainRaises(c) \/ GetReply(c) \/ TimeOut(c)
      PROVE  LifecycleInv'
  <2>1. PICK o \in {Returned("ConnectionResetError"), Returned("None"),
                    Reply(Head(rx_queue))} :
           Leave(c, o, Tail(lockq)) /\ UNCHANGED <<client, wire>>
    BY <1>8 DEF DrainRaises, GetReply, TimeOut
  <2>2. o # Returned("AttributeError")
    BY DEF Returned, Reply
  <2> QED BY <1>7, <2>1, <2>2
<1>9. ASSUME NEW c \in Calls, Drained(c) PROVE LifecycleInv'
  BY <1>3, <1>9 DEF Drained, wire, LockInv, TypeOK
<1>10. CASE Receive
  BY <1>3, <1>10 DEF Receive
<1>11. CASE ReaderEnds
  BY <1>11 DEF ReaderEnds, calls, wire, LifecycleInv, AttributeErrorOnlyIfClosed
<1>12. CASE Environment
  <2>1. writer /\ UNCHANGED <<client, outcome>> /\ (link' = link \/ writer)
    BY <1>12 DEF Environment, DeviceReplies, DeviceIsSilent, PeerCloses, PeerResets,
                 calls, LifecycleInv
  <2>2. \A d \in Calls : pc'[d] = "queued" => pc[d] = "queued"
    BY <1>12 DEF Environment, DeviceReplies, DeviceIsSilent, PeerCloses, PeerResets,
                 calls, LockInv, TypeOK
  <2> QED BY <2>1, <2>2 DEF client, LifecycleInv, AttributeErrorOnlyIfClosed
<1> QED
  BY <1>1, <1>2, <1>5, <1>6, <1>8, <1>9, <1>10, <1>11, <1>12 DEF Next, Rpc

LEMMA LifecycleAlways == Spec => []LifecycleInv
<1>1. Init => LifecycleInv
  BY OutcomeFacts DEF Init, LifecycleInv, AttributeErrorOnlyIfClosed
<1> QED BY <1>1, LockInit, LockStep, LifecycleStep, PTL DEF Spec

\* When close() has returned, nothing of the connection is left, unless it
\* overlooked a connect() that finished later.
THEOREM CloseIsComplete == Spec => []CloseReleasesConnection
<1>1. LifecycleInv => CloseReleasesConnection
  BY DEF LifecycleInv, CloseReleasesConnection
<1> QED BY <1>1, LifecycleAlways, PTL

\* A call that waited for the lock loses its writer to close() only.
THEOREM AttributeErrorMeansClosed == Spec => []AttributeErrorOnlyIfClosed
<1>1. LifecycleInv => AttributeErrorOnlyIfClosed
  BY DEF LifecycleInv
<1> QED BY <1>1, LifecycleAlways, PTL

(***************************************************************************)
(* The client implements the service of RpcService.                        *)
(***************************************************************************)
LEMMA AnswerFacts ==
    ASSUME NEW c \in Calls
    PROVE  /\ outcome[c] = Pending => Answer(c) = Service!Open
           /\ \A k \in Failures : outcome[c] = Returned(k) => Answer(c) = Service!Error
           /\ outcome[c] = Returned("None") => Answer(c) = Service!Nothing
           /\ \A r \in Calls : outcome[c] = Reply(r) => Answer(c) = Service!ReplyTo(r)
<1>1. /\ Pending.kind = "pending" /\ \A k : Returned(k).kind = k
      /\ \A r : Reply(r).kind = "reply"
  BY OutcomeFacts
<1>2. outcome[c] = Pending => Answer(c) = Service!Open
  BY <1>1 DEF Answer, Failures, Service!Open
<1>3. \A k \in Failures : outcome[c] = Returned(k) => Answer(c) = Service!Error
  BY <1>1 DEF Answer, Failures, Service!Error
<1>4. outcome[c] = Returned("None") => Answer(c) = Service!Nothing
  <2> SUFFICES ASSUME outcome[c] = Returned("None") PROVE Answer(c) = Service!Nothing
    OBVIOUS
  <2>1. outcome[c].kind = "None"
    BY <1>1
  <2>2. Answer(c) = outcome[c]
    BY <2>1 DEF Answer, Failures
  <2> QED BY <2>2 DEF Returned, Service!Nothing
<1>5. \A r \in Calls : outcome[c] = Reply(r) => Answer(c) = Service!ReplyTo(r)
  <2> SUFFICES ASSUME NEW r \in Calls, outcome[c] = Reply(r)
               PROVE  Answer(c) = Service!ReplyTo(r)
    OBVIOUS
  <2>1. outcome[c].kind = "reply"
    BY <1>1
  <2>2. Answer(c) = outcome[c]
    BY <2>1 DEF Answer, Failures
  <2> QED BY <2>2 DEF Reply, Service!ReplyTo
<1> QED BY <1>2, <1>3, <1>4, <1>5

LEMMA AnswerFactsNext ==
    ASSUME NEW c \in Calls
    PROVE  /\ \A k \in Failures : outcome'[c] = Returned(k) => Answer(c)' = Service!Error
           /\ outcome'[c] = Returned("None") => Answer(c)' = Service!Nothing
           /\ \A r \in Calls : outcome'[c] = Reply(r) => Answer(c)' = Service!ReplyTo(r)
           /\ outcome'[c] = outcome[c] => Answer(c)' = Answer(c)
<1>1. /\ \A k : Returned(k).kind = k
      /\ \A r : Reply(r).kind = "reply"
  BY OutcomeFacts
<1>2. \A k \in Failures : outcome'[c] = Returned(k) => Answer(c)' = Service!Error
  BY <1>1 DEF Answer, Failures, Service!Error
<1>3. outcome'[c] = Returned("None") => Answer(c)' = Service!Nothing
  <2> SUFFICES ASSUME outcome'[c] = Returned("None") PROVE Answer(c)' = Service!Nothing
    OBVIOUS
  <2>1. outcome'[c].kind = "None"
    BY <1>1
  <2>2. Answer(c)' = outcome'[c]
    BY <2>1 DEF Answer, Failures
  <2> QED BY <2>2 DEF Returned, Service!Nothing
<1>4. \A r \in Calls : outcome'[c] = Reply(r) => Answer(c)' = Service!ReplyTo(r)
  <2> SUFFICES ASSUME NEW r \in Calls, outcome'[c] = Reply(r)
               PROVE  Answer(c)' = Service!ReplyTo(r)
    OBVIOUS
  <2>1. outcome'[c].kind = "reply"
    BY <1>1
  <2>2. Answer(c)' = outcome'[c]
    BY <2>1 DEF Answer, Failures
  <2> QED BY <2>2 DEF Reply, Service!ReplyTo
<1>5. outcome'[c] = outcome[c] => Answer(c)' = Answer(c)
  BY DEF Answer
<1> QED BY <1>2, <1>3, <1>4, <1>5

\* What a step does to one call, seen by the service.
SameStage == [c \in Calls |-> Stage(c)]' = [c \in Calls |-> Stage(c)]
SameAnswer == [c \in Calls |-> Answer(c)]' = [c \in Calls |-> Answer(c)]

LEMMA QuietForService ==
    ASSUME \A c \in Calls : Stage(c)' = Stage(c) /\ outcome'[c] = outcome[c],
           InPipeline' \subseteq InPipeline
    PROVE  Service!Lose
<1>1. \A c \in Calls : Answer(c)' = Answer(c)
  BY AnswerFactsNext
<1>2. SameStage /\ SameAnswer
  BY <1>1 DEF SameStage, SameAnswer
<1> QED BY <1>2 DEF SameStage, SameAnswer, Service!Lose

LEMMA EndForService ==
    ASSUME NEW c \in Calls, NEW a, Stage(c)' = "ended", Answer(c)' = a,
           \A d \in Calls \ {c} : pc'[d] = pc[d] /\ outcome'[d] = outcome[d]
    PROVE  Service!End(c, a)
<1>1. \A d \in Calls \ {c} : Stage(d)' = Stage(d) /\ Answer(d)' = Answer(d)
  BY AnswerFactsNext DEF Stage
<1>2. [d \in Calls |-> Stage(d)]' = [[d \in Calls |-> Stage(d)] EXCEPT ![c] = "ended"]
  BY <1>1
<1>3. [d \in Calls |-> Answer(d)]' = [[d \in Calls |-> Answer(d)] EXCEPT ![c] = a]
  BY <1>1
<1> QED BY <1>2, <1>3 DEF Service!End

LEMMA TransmitForService ==
    ASSUME LockInv, ReplyInv, NEW c \in Calls, NEW queue, Turn(c, queue),
           Transmit(c, queue), UNCHANGED fromDevice
    PROVE  Service!Serve(c) \/ Service!Fail(c)
<1>1. Stage(c) \in {"new", "waiting"} /\ \A d \in Calls : Stage(d) # "serving"
  BY DEF Turn, Stage, OnWire
<1>2. ToSet(rx_queue') = {} /\ toDevice \in Seq(Calls)
  BY DEF Transmit, DrainQueue, ToSet, LockInv, TypeOK
<1>3. CASE \E k \in Failures : /\ Leave(c, Returned(k), Tail(queue))
                               /\ UNCHANGED <<toDevice, inFlight>>
  <2>1. PICK k \in Failures : Leave(c, Returned(k), Tail(queue))
    BY <1>3
  <2>2. /\ pc'[c] = "done" /\ outcome'[c] = Returned(k)
        /\ \A d \in Calls \ {c} : pc'[d] = pc[d] /\ outcome'[d] = outcome[d]
    BY <2>1 DEF Leave, LockInv, TypeOK
  <2>3. Stage(c)' = "ended" /\ Answer(c)' = Service!Error
    BY <2>2, AnswerFactsNext DEF Stage, OnWire
  <2>4. Service!End(c, Service!Error)
    BY <2>2, <2>3, EndForService
  <2>5. InPipeline' \subseteq InPipeline
    BY <1>2, <1>3 DEF InPipeline
  <2>6. Service!Fail(c)
    BY <1>1, <2>4, <2>5 DEF Service!Fail
  <2> QED BY <2>6
<1>4. CASE /\ toDevice' = IF link = "up" THEN Append(toDevice, c) ELSE toDevice
           /\ pc' = [pc EXCEPT ![c] = "draining"]
           /\ UNCHANGED outcome
  <2>1. ToSet(toDevice') \subseteq ToSet(toDevice) \cup {c}
    BY <1>2, <1>4, AppendFacts
  <2>2. InPipeline' \subseteq InPipeline \cup {c}
    BY <1>2, <2>1 DEF InPipeline
  <2>3. pc'[c] = "draining" /\ \A d \in Calls \ {c} : pc'[d] = pc[d]
    BY <1>4 DEF LockInv, TypeOK
  <2>4. Stage(c)' = "serving" /\ \A d \in Calls \ {c} : Stage(d)' = Stage(d)
    BY <2>3 DEF Stage, OnWire
  <2>5. SameAnswer
    BY <1>4, AnswerFactsNext DEF SameAnswer
  <2>6. [d \in Calls |-> Stage(d)]' = [[d \in Calls |-> Stage(d)] EXCEPT ![c] = "serving"]
    BY <2>4
  <2>7. Service!StartServing(c)
    BY <1>1, <2>2, <2>5, <2>6 DEF Service!StartServing, Service!Serving, SameAnswer
  <2>8. Service!Serve(c)
    BY <1>1, <2>7 DEF Service!Serve
  <2> QED BY <2>8
<1> QED BY <1>3, <1>4 DEF Transmit, Failures

LEMMA ServiceInit == Init => Service!ServiceInit
<1> SUFFICES ASSUME Init PROVE Service!ServiceInit
  OBVIOUS
<1>1. \A c \in Calls : Stage(c) = "new" /\ Answer(c) = Service!Open
  <2> TAKE c \in Calls
  <2>1. pc[c] = "new" /\ outcome[c] = Pending
    BY DEF Init
  <2>2. Stage(c) = "new"
    BY <2>1 DEF Stage, OnWire
  <2> QED BY <2>1, <2>2, AnswerFacts
<1>2. InPipeline = {}
  BY DEF Init, InPipeline, ToSet
<1> QED BY <1>1, <1>2 DEF Service!ServiceInit

LEMMA ServiceStep ==
    LockInv /\ ReplyInv /\ [Next]_vars => [Service!ServiceNext]_(Service!svars)
<1> SUFFICES ASSUME LockInv, ReplyInv, [Next]_vars
             PROVE  [Service!ServiceNext]_(Service!svars)
  OBVIOUS
<1>1. /\ NoDuplicates
      /\ pc \in [Calls -> {"new", "queued", "done"} \cup OnWire]
      /\ outcome \in [Calls -> Outcomes]
      /\ rx_queue \in Seq(Calls) /\ fromDevice \in Seq(Calls) /\ toDevice \in Seq(Calls)
  BY DEF ReplyInv, PipelineInv, NoDuplicates, LockInv, TypeOK
<1>2. ASSUME Service!Lose PROVE [Service!ServiceNext]_(Service!svars)
  BY <1>2 DEF Service!ServiceNext
<1>3. ASSUME NEW c \in Calls,
             \/ Service!Ask(c) \/ Service!Serve(c) \/ Service!GiveUp(c)
             \/ Service!Fail(c) \/ \E r \in Calls : Service!Give(c, r)
      PROVE  [Service!ServiceNext]_(Service!svars)
  BY <1>3 DEF Service!ServiceNext
<1>4. ASSUME UNCHANGED <<pc, outcome>>, InPipeline' \subseteq InPipeline
      PROVE  Service!Lose
  BY <1>4, QuietForService DEF Stage
<1>5. CASE UNCHANGED vars
  BY <1>2, <1>4, <1>5 DEF vars, calls, wire, InPipeline
<1>6. CASE Lifecycle
  <2>1. UNCHANGED calls
    BY <1>6 DEF Lifecycle, ConnectBegin, ConnectDone, ConnectFail, CloseBegin, CloseFinish
  <2>2. \/ UNCHANGED <<fromDevice, toDevice>>
        \/ toDevice' = <<>> /\ fromDevice' = <<>>
    BY <1>6 DEF Lifecycle, ConnectBegin, ConnectDone, ConnectFail, CloseBegin,
                CloseFinish, ReleaseWriter, wire
  <2>3. ToSet(<<>>) = {}
    BY DEF ToSet
  <2>4. InPipeline' \subseteq InPipeline
    BY <2>1, <2>2, <2>3 DEF calls, InPipeline
  <2> QED BY <1>2, <1>4, <2>1, <2>4 DEF calls
<1>7. ASSUME NEW c \in Calls, Begin(c) PROVE [Service!ServiceNext]_(Service!svars)
  <2>1. pc[c] = "new" /\ UNCHANGED fromDevice
    BY <1>7 DEF Begin
  <2>2. CASE lockq = <<>> /\ Transmit(c, <<c>>)
    BY <1>3, <2>1, <2>2, BeginsTurn, TransmitForService
  <2>3. CASE /\ Leave(c, Returned("RuntimeError"), lockq)
             /\ UNCHANGED <<rx_queue, inFlight, toDevice>>
    <3>1. /\ pc'[c] = "done" /\ outcome'[c] = Returned("RuntimeError")
          /\ \A d \in Calls \ {c} : pc'[d] = pc[d] /\ outcome'[d] = outcome[d]
      BY <1>1, <2>3 DEF Leave
    <3>2. Stage(c)' = "ended" /\ Answer(c)' = Service!Error
      BY <3>1, AnswerFactsNext DEF Stage, OnWire, Failures
    <3>3. Service!End(c, Service!Error)
      BY <3>1, <3>2, EndForService
    <3>4. Service!Fail(c)
      BY <2>1, <2>3, <3>3 DEF Service!Fail, Stage, InPipeline
    <3> QED BY <1>3, <3>4
  <2>4. CASE /\ pc' = [pc EXCEPT ![c] = "queued"]
             /\ UNCHANGED <<rx_queue, outcome, inFlight, toDevice>>
    <3>1. pc'[c] = "queued" /\ \A d \in Calls \ {c} : pc'[d] = pc[d]
      BY <1>1, <2>4
    <3>2. Stage(c) = "new" /\ Stage(c)' = "waiting"
          /\ \A d \in Calls \ {c} : Stage(d)' = Stage(d)
      BY <2>1, <3>1 DEF Stage, OnWire
    <3>3. [d \in Calls |-> Stage(d)]' = [[d \in Calls |-> Stage(d)] EXCEPT ![c] = "waiting"]
      BY <3>2
    <3>4. SameAnswer
      BY <2>4, AnswerFactsNext DEF SameAnswer
    <3>5. InPipeline' = InPipeline
      BY <2>1, <2>4 DEF InPipeline
    <3>6. Service!Ask(c)
      BY <3>2, <3>3, <3>4, <3>5 DEF Service!Ask, SameAnswer
    <3> QED BY <1>3, <3>6
  <2> QED BY <1>7, <2>2, <2>3, <2>4 DEF Begin
<1>8. ASSUME NEW c \in Calls, Resume(c) PROVE [Service!ServiceNext]_(Service!svars)
  BY <1>3, <1>8, ResumesTurn, TransmitForService DEF Resume
<1>9. ASSUME NEW c \in Calls, Drained(c) PROVE [Service!ServiceNext]_(Service!svars)
  <2>1. pc[c] = "draining" /\ pc'[c] = "awaiting" /\ \A d \in Calls \ {c} : pc'[d] = pc[d]
    BY <1>1, <1>9 DEF Drained
  <2>2. \A d \in Calls : Stage(d)' = Stage(d)
    BY <2>1 DEF Stage, OnWire
  <2>3. Service!Lose
    BY <1>9, <2>2, QuietForService DEF Drained, wire, InPipeline
  <2> QED BY <1>2, <2>3
<1>10. ASSUME NEW c \in Calls, NEW o, Leave(c, o, Tail(lockq)), pc[c] \in OnWire
       PROVE  /\ Stage(c) = "serving" /\ Stage(c)' = "ended" /\ outcome'[c] = o
              /\ \A d \in Calls \ {c} : pc'[d] = pc[d] /\ outcome'[d] = outcome[d]
  BY <1>1, <1>10 DEF Leave, Stage, OnWire
<1>11. ASSUME NEW c \in Calls, DrainRaises(c) PROVE [Service!ServiceNext]_(Service!svars)
  <2>1. /\ Leave(c, Returned("ConnectionResetError"), Tail(lockq)) /\ pc[c] \in OnWire
        /\ InPipeline' = InPipeline
    BY <1>11 DEF DrainRaises, OnWire, wire, InPipeline
  <2>2. Answer(c)' = Service!Error
    BY <1>10, <2>1, AnswerFactsNext DEF Failures
  <2>3. Service!End(c, Service!Error)
    BY <1>10, <2>1, <2>2, EndForService
  <2>4. Service!Fail(c)
    BY <1>10, <2>1, <2>3 DEF Service!Fail
  <2> QED BY <1>3, <2>4
<1>12. ASSUME NEW c \in Calls, TimeOut(c) PROVE [Service!ServiceNext]_(Service!svars)
  <2>1. /\ Leave(c, Returned("None"), Tail(lockq)) /\ pc[c] \in OnWire
        /\ InPipeline' = InPipeline
    BY <1>12 DEF TimeOut, OnWire, wire, InPipeline
  <2>2. Answer(c)' = Service!Nothing
    BY <1>10, <2>1, AnswerFactsNext
  <2>3. Service!End(c, Service!Nothing)
    BY <1>10, <2>1, <2>2, EndForService
  <2>4. Service!GiveUp(c)
    BY <1>10, <2>1, <2>3 DEF Service!GiveUp, Service!Serving
  <2> QED BY <1>3, <2>4
<1>13. ASSUME NEW c \in Calls, GetReply(c) PROVE [Service!ServiceNext]_(Service!svars)
  <2> DEFINE r == Head(rx_queue)
  <2>1. /\ r \in Calls /\ ToSet(rx_queue) = {r} \cup ToSet(Tail(rx_queue))
        /\ r \notin ToSet(Tail(rx_queue))
    BY <1>1, <1>13, TailFacts DEF GetReply, NoDuplicates
  <2>2. /\ rx_queue' = Tail(rx_queue) /\ UNCHANGED <<fromDevice, toDevice>>
        /\ Leave(c, Reply(r), Tail(lockq)) /\ pc[c] \in OnWire
    BY <1>13 DEF GetReply, OnWire, wire
  <2>3. InPipeline' = InPipeline \ {r} /\ r \in InPipeline
    BY <1>1, <2>1, <2>2 DEF InPipeline, NoDuplicates
  <2>4. Answer(c)' = Service!ReplyTo(r)
    BY <1>10, <2>1, <2>2, AnswerFactsNext
  <2>5. Service!End(c, Service!ReplyTo(r))
    BY <1>10, <2>2, <2>4, EndForService
  <2>6. Service!Give(c, r)
    BY <1>10, <2>2, <2>3, <2>5 DEF Service!Give, Service!Serving
  <2> QED BY <1>3, <2>1, <2>6
<1>14. CASE Receive
  <2>1. UNCHANGED <<pc, outcome>>
    BY <1>14 DEF Receive
  <2>2. InPipeline' \subseteq InPipeline
    <3>1. PICK n \in 1..Len(fromDevice) :
             /\ rx_queue' = rx_queue \o SubSeq(fromDevice, 1, n)
             /\ fromDevice' = SubSeq(fromDevice, n + 1, Len(fromDevice))
      BY <1>14 DEF Receive
    <3>2. ToSet(rx_queue') \cup ToSet(fromDevice') = ToSet(rx_queue) \cup ToSet(fromDevice)
      BY <1>1, <3>1, MoveFacts DEF NoDuplicates
    <3>3. toDevice' = toDevice
      BY <1>14 DEF Receive
    <3> QED BY <3>2, <3>3 DEF InPipeline
  <2> QED BY <1>2, <1>4, <2>1, <2>2
<1>15. CASE ReaderEnds
  BY <1>2, <1>4, <1>15 DEF ReaderEnds, calls, wire, InPipeline
<1>16. CASE DeviceReplies \/ DeviceIsSilent
  <2> DEFINE h == Head(toDevice)
  <2>1. UNCHANGED <<pc, outcome, rx_queue>>
    BY <1>16 DEF DeviceReplies, DeviceIsSilent, calls
  <2>2. ToSet(toDevice) = {h} \cup ToSet(Tail(toDevice)) /\ h \in Calls
    BY <1>1, <1>16, TailFacts DEF DeviceReplies, DeviceIsSilent
  <2>3. ToSet(Append(fromDevice, h)) = ToSet(fromDevice) \cup {h}
    BY <1>1, <2>2, AppendFacts
  <2>4. /\ toDevice' = Tail(toDevice)
        /\ fromDevice' \in {fromDevice, Append(fromDevice, h)}
    BY <1>16 DEF DeviceReplies, DeviceIsSilent
  <2>5. InPipeline' \subseteq InPipeline
    <3>1. ToSet(fromDevice') \subseteq ToSet(fromDevice) \cup {h}
      BY <2>3, <2>4
    <3>2. h \in ToSet(toDevice) /\ ToSet(toDevice') \subseteq ToSet(toDevice)
      BY <2>2, <2>4
    <3> HIDE DEF h
    <3> QED BY <2>1, <3>1, <3>2 DEF InPipeline
  <2> QED BY <1>2, <1>4, <2>1, <2>5
<1>17. CASE PeerCloses \/ PeerResets
  <2>1. ToSet(<<>>) = {}
    BY DEF ToSet
  <2>2. InPipeline' \subseteq InPipeline /\ outcome' = outcome
    BY <1>17, <2>1 DEF PeerCloses, PeerResets, calls, InPipeline
  <2>3. \A d \in Calls : Stage(d)' = Stage(d)
    BY <1>17 DEF PeerCloses, PeerResets, calls, Stage, OnWire
  <2> QED BY <1>2, <2>2, <2>3, QuietForService
<1> QED
  BY <1>5, <1>6, <1>7, <1>8, <1>9, <1>11, <1>12, <1>13, <1>14, <1>15, <1>16, <1>17
     DEF Next, Rpc, Environment

\* Seen by its callers the client is the one-at-a-time service of RpcService.
THEOREM ClientImplementsService == Spec => ImplementsService
<1>1. Spec => Service!Service
  BY ServiceInit, ServiceStep, ReplyAlways, PTL DEF Spec, Service!Service
<1> QED BY <1>1 DEF ImplementsService
=============================================================================
