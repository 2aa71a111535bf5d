------------------------- MODULE UdpReceiver_proofs -------------------------
(***************************************************************************)
(* Proofs about UdpReceiver, for any senders, messages and queue size.     *)
(*                                                                         *)
(* The first part holds whatever the network does: types, and that no      *)
(* report whose fragments arrived in a row is lost.  Its invariant is that *)
(* the buffer of a sender holds the row that the bystander has noted.      *)
(***************************************************************************)
EXTENDS UdpReceiver, Fragments_proofs

ReportType == [src : Senders, data : Seq(Collects)]

\* TypeOK, with its sets named.
Typed ==
    /\ open \in BOOLEAN
    /\ buffers \in [Senders -> BufferType]
    /\ queue \in Seq(ReportType) /\ Len(queue) <= QueueSize
    /\ dropped \in Nat
    /\ at \in [Senders -> Collects]
    /\ starts \in 0..MaxStarts /\ strays \in 0..MaxStrays
    /\ taken \in Seq(ReportType) /\ forgotten \in Nat
    /\ heard \in [Senders -> Nat] /\ run \in [Senders -> Nat]
    /\ whole \in Nat /\ newest \in [Senders -> Nat]

Count == Len(taken) + Len(queue) + dropped + forgotten

\* What p sends next is a fragment of a message, or its messages have run out.
AtOK ==
    \A p \in Senders :
        /\ at[p] = Fragment(p, at[p].msg, at[p].idx) /\ at[p].msg \in Nat \ {0}
        /\ at[p].idx \in Nat
        /\ at[p].msg \in DOMAIN Size[p] => at[p].idx < Size[p][at[p].msg]

RowsOK == \A p \in Senders : RowIsHeld(buffers[p], p, heard[p], run[p])

RowInv == Typed /\ AtOK /\ RowsOK /\ NothingLost

(***************************************************************************)
(* Helpers                                                                 *)
(***************************************************************************)
LEMMA TypeFacts ==
    ASSUME Typed
    PROVE  /\ \A p \in Senders : buffers[p] \in BufferType
           /\ buffers \in [Senders -> BufferType]
           /\ queue \in Seq(ReportType) /\ taken \in Seq(ReportType)
           /\ Len(queue) \in Nat /\ Len(taken) \in Nat
           /\ heard \in [Senders -> Nat] /\ run \in [Senders -> Nat]
           /\ newest \in [Senders -> Nat]
           /\ dropped \in Nat /\ forgotten \in Nat /\ whole \in Nat
           /\ QueueSize \in Nat \ {0}
<1>1. queue \in Seq(ReportType) /\ taken \in Seq(ReportType)
  BY DEF Typed
<1>2. Len(queue) \in Nat /\ Len(taken) \in Nat
  BY <1>1
<1> QED BY <1>2, UdpReceiverAssumption DEF Typed

LEMMA SentIsSent ==
    ASSUME AtOK, NEW p \in Senders, at[p].msg \in DOMAIN Size[p]
    PROVE  Sent(p, at[p])
<1>1. Size[p][at[p].msg] \in Nat \ {0}
  BY SizeFacts
<1> QED BY <1>1 DEF AtOK, Sent

\* A report goes to the queue, or is counted.
LEMMA PutFacts ==
    ASSUME Typed, NEW r \in ReportType, Put(r)
    PROVE  /\ queue' \in Seq(ReportType) /\ Len(queue') <= QueueSize /\ dropped' \in Nat
           /\ Len(queue') + dropped' = Len(queue) + dropped + 1
           /\ \/ Len(queue) < QueueSize /\ queue' = Append(queue, r) /\ dropped' = dropped
              \/ Len(queue) >= QueueSize /\ queue' = queue /\ dropped' = dropped + 1
<1>1. /\ queue \in Seq(ReportType) /\ Len(queue) \in Nat /\ dropped \in Nat
      /\ Len(queue) <= QueueSize /\ QueueSize \in Nat
  BY TypeFacts DEF Typed
<1>2. Append(queue, r) \in Seq(ReportType) /\ Len(Append(queue, r)) = Len(queue) + 1
  BY <1>1
<1>3. CASE Len(queue) < QueueSize
  <2>1. queue' = Append(queue, r) /\ dropped' = dropped
    BY <1>3 DEF Put
  <2>2. queue' \in Seq(ReportType) /\ Len(queue') = Len(queue) + 1
    BY <1>2, <2>1
  <2> QED BY <1>1, <1>3, <2>1, <2>2
<1>4. CASE ~(Len(queue) < QueueSize)
  <2>1. queue' = queue /\ dropped' = dropped + 1
    BY <1>4 DEF Put
  <2> QED BY <1>1, <1>4, <2>1
<1> QED BY <1>3, <1>4

LEMMA ExtendedFacts ==
    ASSUME NEW o \in BufferType, NEW f \in Collects
    PROVE  /\ Extended(o, f) \in BufferType
           /\ Extended(o, f).started = o.started
           /\ Extended(o, f).message_number = o.message_number
           /\ Extended(o, f).expected_seq = o.expected_seq + 1
           /\ Expected(o, f) => Extended(o, f) = Longer(o, f)
           /\ ~Expected(o, f) => Extended(o, f).data = o.data
<1>1. CASE Expected(o, f)
  <2>1. Extended(o, f) = Longer(o, f)
    BY <1>1 DEF Extended, Longer
  <2> QED BY <1>1, <2>1, BufferFacts
<1>2. CASE ~Expected(o, f)
  <2>1. Extended(o, f) = [o EXCEPT !.data = o.data, !.expected_seq = o.expected_seq + 1]
    BY <1>2 DEF Extended
  <2>2. o.expected_seq + 1 \in Nat
    BY DEF BufferType
  <2>3. /\ Extended(o, f) \in BufferType
        /\ Extended(o, f).started = o.started
        /\ Extended(o, f).message_number = o.message_number
        /\ Extended(o, f).expected_seq = o.expected_seq + 1
        /\ Extended(o, f).data = o.data
    BY <2>1, <2>2 DEF BufferType
  <2> QED BY <1>2, <2>3
<1> QED BY <1>1, <1>2

(***************************************************************************)
(* What datagram_received does                                             *)
(***************************************************************************)
\* The buffer is reset or has f, and whether there is a report is up to it.
Received(p, f, b, e, n) ==
    /\ buffers' = [buffers EXCEPT ![p] = n]
    /\ \/ /\ Orphan(b, f) /\ n = Reset(b)
          /\ UNCHANGED <<queue, dropped, newest>>
       \/ /\ ~Orphan(b, f) /\ ~IsLast(f) /\ n = e
          /\ UNCHANGED <<queue, dropped, newest>>
       \/ /\ ~Orphan(b, f) /\ IsLast(f) /\ n = Reset(e)
          /\ \/ /\ TRUE \in ParseReport(e.data)
                /\ Put([src |-> p, data |-> e.data])
                /\ newest' = [newest EXCEPT ![p] = f.msg]
             \/ /\ FALSE \in ParseReport(e.data)
                /\ UNCHANGED <<queue, dropped, newest>>

LEMMA ReceivedFacts ==
    ASSUME Typed, NEW p \in Senders, NEW f, Sent(p, f), datagram_received(f)
    PROVE  \E b, o, e, n \in BufferType :
              /\ b = buffers[p] /\ o = Opened(b, f) /\ e = Extended(o, f)
              /\ Received(p, f, b, e, n)
<1>1. f \in Collects /\ f.src = p /\ Key(f) = p
  BY SentFacts DEF Key
<1>2. PICK b \in BufferType : b = buffers[p]
  BY TypeFacts
<1>3. PICK o \in BufferType : o = Opened(b, f)
  BY OpenedFacts
<1>4. PICK e \in BufferType : e = Extended(o, f)
  BY <1>1, ExtendedFacts
<1>5. Reset(b) \in BufferType /\ Reset(e) \in BufferType
  BY <1>1, BufferFacts
<1>6. \/ /\ Orphan(b, f)
         /\ buffers' = [buffers EXCEPT ![p] = Reset(b)]
         /\ UNCHANGED <<queue, dropped, newest>>
      \/ /\ ~Orphan(b, f) /\ ~IsLast(f)
         /\ buffers' = [buffers EXCEPT ![p] = e]
         /\ UNCHANGED <<queue, dropped, newest>>
      \/ /\ ~Orphan(b, f) /\ IsLast(f)
         /\ buffers' = [buffers EXCEPT ![p] = Reset(e)]
         /\ Report(f, e.data)
  BY <1>1, <1>2, <1>3, <1>4, Zenon DEF datagram_received
<1>7. ASSUME Report(f, e.data)
      PROVE  \/ /\ TRUE \in ParseReport(e.data)
                /\ Put([src |-> p, data |-> e.data])
                /\ newest' = [newest EXCEPT ![p] = f.msg]
             \/ /\ FALSE \in ParseReport(e.data)
                /\ UNCHANGED <<queue, dropped, newest>>
  <2>1. PICK parses \in ParseReport(e.data) :
           IF parses
           THEN /\ Put([src |-> p, data |-> e.data])
                /\ newest' = [newest EXCEPT ![p] = f.msg]
           ELSE UNCHANGED <<queue, dropped, newest>>
    BY <1>1, <1>7 DEF Report
  <2>2. parses \in BOOLEAN
    BY <2>1, ParseIsBoolean
  <2>3. CASE parses = TRUE
    BY <2>1, <2>3, Zenon
  <2>4. CASE parses = FALSE
    BY <2>1, <2>4, Zenon
  <2> QED BY <2>2, <2>3, <2>4
<1>8. \E n \in BufferType : Received(p, f, b, e, n)
  BY <1>5, <1>6, <1>7 DEF Received
<1> QED BY <1>2, <1>3, <1>4, <1>8

(***************************************************************************)
(* An arrival, in order or stray                                           *)
(***************************************************************************)
\* The sum that Count is, with one report more in two of its terms together.
LEMMA OneMore ==
    ASSUME NEW a \in Nat, NEW b \in Nat, NEW c \in Nat, NEW d \in Nat,
           NEW b1 \in Nat, NEW c1 \in Nat, b1 + c1 = b + c + 1
    PROVE  a + b1 + c1 + d = a + b + c + d + 1
OBVIOUS

LEMMA ArrivalKeepsRows ==
    ASSUME RowInv, NEW p \in Senders, NEW f, Sent(p, f), datagram_received(f), Note(f)
    PROVE  /\ buffers' \in [Senders -> BufferType]
           /\ queue' \in Seq(ReportType) /\ Len(queue') <= QueueSize /\ dropped' \in Nat
           /\ heard' \in [Senders -> Nat] /\ run' \in [Senders -> Nat] /\ whole' \in Nat
           /\ newest' \in [Senders -> Nat]
           /\ taken' = taken /\ forgotten' = forgotten
           /\ RowsOK' /\ NothingLost'
<1>1. /\ Typed /\ RowIsHeld(buffers[p], p, heard[p], run[p]) /\ whole <= Count
      /\ heard[p] \in Nat /\ run[p] \in Nat
  BY TypeFacts DEF RowInv, RowsOK, NothingLost, Count
<1>2. /\ f \in Collects /\ f.src = p /\ f.msg \in DOMAIN Size[p] /\ f.msg \in Nat
      /\ f.idx \in Nat /\ Size[p][f.msg] \in Nat \ {0}
      /\ IsLast(f) <=> f.idx + 1 = Size[p][f.msg]
  BY SentFacts
<1>3. PICK b, o, e, n \in BufferType :
         /\ b = buffers[p] /\ o = Opened(b, f) /\ e = Extended(o, f)
         /\ Received(p, f, b, e, n)
  BY <1>1, ReceivedFacts
<1> DEFINE row == InARow(f, heard[p], run[p])
<1>4. /\ row \in {0, f.idx + 1}
      /\ row > 0 => IsFirst(f) \/ (heard[p] = f.msg /\ run[p] = f.idx /\ Holds(b, p, f.msg, f.idx))
      /\ row = Size[p][f.msg] => row > 0 /\ IsLast(f)
      /\ row <= Size[p][f.msg]
  BY <1>1, <1>3, RowFacts
<1>5. /\ heard' = [heard EXCEPT ![p] = f.msg] /\ run' = [run EXCEPT ![p] = row]
      /\ whole' = IF row = Size[p][f.msg] /\ <<p, f.msg>> \notin Garbage
                  THEN whole + 1 ELSE whole
      /\ taken' = taken /\ forgotten' = forgotten
  BY <1>2 DEF Note
<1> HIDE DEF row
<1>6. row > 0 => ~Orphan(b, f) /\ Holds(e, p, f.msg, f.idx + 1) /\ row = f.idx + 1
  <2> SUFFICES ASSUME row > 0
               PROVE  ~Orphan(b, f) /\ Holds(e, p, f.msg, f.idx + 1) /\ row = f.idx + 1
    OBVIOUS
  <2>1. IsFirst(f) \/ Holds(b, p, f.msg, f.idx)
    BY <1>4
  <2>2. /\ ~Orphan(b, f) /\ Expected(o, f)
        /\ Holds(Longer(o, f), p, f.msg, f.idx + 1)
    BY <1>3, <2>1, RowIsKept
  <2>3. e = Longer(o, f)
    BY <1>2, <1>3, <2>2, ExtendedFacts
  <2> QED BY <1>4, <2>2, <2>3
<1>7. /\ buffers' = [buffers EXCEPT ![p] = n] /\ buffers \in [Senders -> BufferType]
      /\ heard \in [Senders -> Nat] /\ run \in [Senders -> Nat] /\ row \in Nat
      /\ newest \in [Senders -> Nat] /\ whole \in Nat
  <2>1. buffers' = [buffers EXCEPT ![p] = n]
    BY <1>3 DEF Received
  <2>2. row \in Nat
    BY <1>2, <1>4
  <2> QED BY <1>1, <2>1, <2>2, TypeFacts
<1>8. buffers' \in [Senders -> BufferType] /\ heard' \in [Senders -> Nat]
      /\ run' \in [Senders -> Nat] /\ whole' \in Nat
  BY <1>2, <1>5, <1>7
<1>9. RowsOK'
  <2> SUFFICES ASSUME NEW q \in Senders
               PROVE  RowIsHeld(buffers'[q], q, heard'[q], run'[q])
    BY DEF RowsOK
  <2>1. CASE q # p
    <3>1. buffers'[q] = buffers[q] /\ heard'[q] = heard[q] /\ run'[q] = run[q]
      BY <1>5, <1>7, <2>1
    <3> QED BY <3>1 DEF RowInv, RowsOK
  <2>2. CASE q = p
    <3>1. buffers'[p] = n /\ heard'[p] = f.msg /\ run'[p] = row
      BY <1>5, <1>7
    <3>2. row > 0 /\ row < Size[p][f.msg] => Holds(n, p, f.msg, row)
      <4> SUFFICES ASSUME row > 0, row < Size[p][f.msg] PROVE Holds(n, p, f.msg, row)
        OBVIOUS
      <4>1. ~IsLast(f) /\ ~Orphan(b, f) /\ Holds(e, p, f.msg, row)
        BY <1>2, <1>6
      <4>2. n = e
        BY <1>3, <4>1 DEF Received
      <4> QED BY <4>1, <4>2
    <3> QED BY <1>2, <1>4, <2>2, <3>1, <3>2 DEF RowIsHeld
  <2> QED BY <2>1, <2>2
<1>10. [src |-> p, data |-> e.data] \in ReportType
  BY DEF BufferType, ReportType
<1>11. \/ /\ Put([src |-> p, data |-> e.data]) /\ newest' = [newest EXCEPT ![p] = f.msg]
       \/ /\ UNCHANGED <<queue, dropped, newest>>
          /\ ~(row = Size[p][f.msg] /\ <<p, f.msg>> \notin Garbage)
  <2> SUFFICES ASSUME row = Size[p][f.msg], <<p, f.msg>> \notin Garbage
               PROVE  Put([src |-> p, data |-> e.data]) /\ newest' = [newest EXCEPT ![p] = f.msg]
    BY <1>3 DEF Received
  <2>1. IsLast(f) /\ ~Orphan(b, f) /\ e.data = FirstOf(p, f.msg, Size[p][f.msg])
    BY <1>2, <1>4, <1>6 DEF Holds
  <2>2. Size[p][f.msg] \in 1..Size[p][f.msg]
    BY <1>2
  <2>3. ParseReport(FirstOf(p, f.msg, Size[p][f.msg])) = {<<p, f.msg>> \notin Garbage}
    BY <1>2, <2>2, ParseFacts
  <2>4. FALSE \notin ParseReport(e.data)
    BY <2>1, <2>3
  <2> QED BY <1>3, <2>1, <2>4 DEF Received
<1>12. CASE Put([src |-> p, data |-> e.data]) /\ newest' = [newest EXCEPT ![p] = f.msg]
  <2>1. /\ queue' \in Seq(ReportType) /\ Len(queue') <= QueueSize /\ dropped' \in Nat
        /\ Len(queue') + dropped' = Len(queue) + dropped + 1
    BY <1>1, <1>10, <1>12, PutFacts
  <2>2. whole' <= Count + 1
    BY <1>1, <1>5, <1>7, TypeFacts DEF Count
  <2>3. Len(queue') \in Nat /\ Len(queue) \in Nat /\ Len(taken) \in Nat
        /\ forgotten \in Nat /\ dropped \in Nat
    BY <1>1, <2>1, TypeFacts
  <2>4. NothingLost'
    <3>1. Count' = Count + 1
      <4>1. taken' = taken /\ forgotten' = forgotten
        BY <1>5
      <4>2. Count' = Len(taken) + Len(queue') + dropped' + forgotten
        BY <4>1 DEF Count
      <4>3. dropped' \in Nat /\ Len(queue') + dropped' = Len(queue) + dropped + 1
        BY <2>1
      <4>4. Len(taken) + Len(queue') + dropped' + forgotten
               = Len(taken) + Len(queue) + dropped + forgotten + 1
        BY <2>3, <4>3, OneMore, SMTT(20)
      <4> QED BY <4>2, <4>4 DEF Count
    <3>2. whole' <= Count'
      BY <2>2, <3>1
    <3> QED BY <3>2 DEF NothingLost, Count
  <2>5. newest' \in [Senders -> Nat]
    BY <1>2, <1>7, <1>12
  <2> QED BY <1>5, <1>8, <1>9, <2>1, <2>4, <2>5
<1>13. CASE /\ UNCHANGED <<queue, dropped, newest>>
            /\ ~(row = Size[p][f.msg] /\ <<p, f.msg>> \notin Garbage)
  <2>1. whole' = whole
    BY <1>5, <1>13
  <2>2. NothingLost'
    <3>1. Count' = Count
      BY <1>5, <1>13 DEF Count
    <3>2. whole <= Count
      BY <1>1
    <3>3. whole' <= Count'
      BY <2>1, <3>1, <3>2
    <3> QED BY <3>3 DEF NothingLost, Count
  <2>3. queue \in Seq(ReportType) /\ Len(queue) <= QueueSize /\ dropped \in Nat
    BY <1>1, TypeFacts DEF Typed
  <2> QED BY <1>5, <1>7, <1>8, <1>9, <1>13, <2>2, <2>3
<1> QED BY <1>11, <1>12, <1>13

(***************************************************************************)
(* Every step keeps the row                                                *)
(***************************************************************************)
LEMMA SendsKeepsAt ==
    ASSUME Typed, AtOK, NEW p \in Senders, Sends(p)
    PROVE  AtOK' /\ at' \in [Senders -> Collects]
<1>1. Sent(p, at[p])
  BY SentIsSent DEF Sends
<1>2. at \in [Senders -> Collects] /\ at' = [at EXCEPT ![p] = Following(at[p])]
  BY DEF Typed, Sends
<1>3. /\ IsLast(at[p]) => Following(at[p]) = Fragment(p, at[p].msg + 1, 0)
      /\ ~IsLast(at[p]) => /\ Following(at[p]) = Fragment(p, at[p].msg, at[p].idx + 1)
                           /\ at[p].idx + 1 < Size[p][at[p].msg]
      /\ Following(at[p]) \in Collects
  BY <1>1, FollowingFacts
<1>4. at' \in [Senders -> Collects]
  BY <1>2, <1>3 
<1>5. AtOK'
  <2> SUFFICES ASSUME NEW q \in Senders
               PROVE  /\ at'[q] = Fragment(q, at'[q].msg, at'[q].idx) /\ at'[q].msg \in Nat \ {0}
                      /\ at'[q].idx \in Nat
                      /\ at'[q].msg \in DOMAIN Size[q] => at'[q].idx < Size[q][at'[q].msg]
    BY DEF AtOK
  <2>1. CASE q # p
    BY <1>2, <2>1 DEF AtOK
  <2>2. CASE q = p /\ IsLast(at[p])
    <3>1. at'[p] = Fragment(p, at[p].msg + 1, 0) /\ at[p].msg \in Nat
      BY <1>2, <1>3, <2>2 DEF AtOK
    <3>2. at'[p].msg = at[p].msg + 1 /\ at'[p].idx = 0
      BY <3>1 DEF Fragment
    <3>3. at'[p].msg \in DOMAIN Size[p] => Size[p][at'[p].msg] \in Nat \ {0}
      BY SizeFacts
    <3> QED BY <2>2, <3>1, <3>2, <3>3
  <2>3. CASE q = p /\ ~IsLast(at[p])
    <3>1. at'[p] = Fragment(p, at[p].msg, at[p].idx + 1)
          /\ at[p].msg \in Nat \ {0} /\ at[p].idx \in Nat
      BY <1>2, <1>3, <2>3 DEF AtOK
    <3>2. at'[p].msg = at[p].msg /\ at'[p].idx = at[p].idx + 1
      BY <3>1 DEF Fragment
    <3> QED BY <1>3, <2>3, <3>1, <3>2
  <2> QED BY <2>1, <2>2, <2>3
<1> QED BY <1>4, <1>5

LEMMA RowInvInductive == RowInv /\ [Next]_vars => RowInv'
<1> SUFFICES ASSUME RowInv, [Next]_vars PROVE RowInv'
  OBVIOUS
<1>1. Typed /\ AtOK /\ RowsOK /\ NothingLost
  BY DEF RowInv
<1>3. ASSUME NEW p \in Senders, Arrive(p) PROVE RowInv'
  <2>1. Sent(p, at[p])
    BY <1>1, <1>3, SentIsSent DEF Arrive, Sends
  <2>2. AtOK' /\ at' \in [Senders -> Collects]
    BY <1>1, <1>3, SendsKeepsAt DEF Arrive
  <2>3. datagram_received(at[p]) /\ Note(at[p]) /\ UNCHANGED <<open, starts, strays>>
    BY <1>3 DEF Arrive
  <2>4. Typed'
    BY <1>1, <2>1, <2>2, <2>3, ArrivalKeepsRows DEF Typed
  <2> QED BY <2>1, <2>2, <2>3, <2>4, ArrivalKeepsRows DEF RowInv
<1>4. ASSUME NEW p \in Senders, Lose(p) PROVE RowInv'
  <2>1. AtOK' /\ at' \in [Senders -> Collects]
    BY <1>1, <1>4, SendsKeepsAt DEF Lose
  <2>2. UNCHANGED <<receiver, starts, strays, history>>
    BY <1>4 DEF Lose
  <2> QED BY <1>1, <2>1, <2>2 DEF RowInv, Typed, RowsOK, NothingLost, receiver, history
<1>5. ASSUME NEW p \in Senders, Stray(p) PROVE RowInv'
  <2>1. PICK m \in DOMAIN Size[p] : \E i \in 0..(Size[p][m] - 1) :
           datagram_received(Fragment(p, m, i)) /\ Note(Fragment(p, m, i))
    BY <1>5 DEF Stray
  <2>2. PICK i \in 0..(Size[p][m] - 1) :
           datagram_received(Fragment(p, m, i)) /\ Note(Fragment(p, m, i))
    BY <2>1
  <2>3. Sent(p, Fragment(p, m, i))
    BY DEF Sent, Fragment
  <2>4. strays' \in 0..MaxStrays /\ UNCHANGED <<open, at, starts>>
    BY <1>1, <1>5, UdpReceiverAssumption DEF Stray, Typed
  <2>5. Typed'
    BY <1>1, <2>2, <2>3, <2>4, ArrivalKeepsRows DEF Typed
  <2>6. AtOK'
    BY <1>1, <2>4 DEF AtOK
  <2> QED BY <2>2, <2>3, <2>5, <2>6, ArrivalKeepsRows DEF RowInv
<1>6. CASE start
  <2>1. buffers' = [p \in Senders |-> Fresh] /\ Fresh \in BufferType
    BY <1>6, FreshFacts DEF start
  <2>2. Typed'
    BY <1>1, <1>6, <2>1, UdpReceiverAssumption DEF Typed, start
  <2>3. RowsOK'
    BY <1>6 DEF start, RowsOK, RowIsHeld
  <2>4. NothingLost'
    BY <1>1, <1>6, TypeFacts DEF NothingLost, start
  <2>5. AtOK'
    BY <1>1, <1>6 DEF AtOK, start
  <2> QED BY <2>2, <2>3, <2>4, <2>5 DEF RowInv
<1>7. CASE close
  BY <1>1, <1>7 DEF RowInv, Typed, AtOK, RowsOK, NothingLost, close, network, history
<1>8. CASE anext
  <2>1. /\ queue # <<>> /\ queue' = Tail(queue) /\ taken' = Append(taken, Head(queue))
        /\ UNCHANGED <<open, buffers, dropped, network, forgotten, heard, run, whole, newest>>
    BY <1>8 DEF anext
  <2>2. /\ queue' \in Seq(ReportType) /\ taken' \in Seq(ReportType)
        /\ Len(queue') = Len(queue) - 1 /\ Len(taken') = Len(taken) + 1
        /\ Len(queue) \in Nat /\ Len(taken) \in Nat /\ Len(queue) <= QueueSize
    BY <1>1, <2>1, TypeFacts DEF Typed
  <2>3. Typed'
    BY <1>1, <2>1, <2>2, UdpReceiverAssumption DEF Typed, network
  <2>4. NothingLost'
    BY <1>1, <2>1, <2>2, TypeFacts DEF NothingLost
  <2> QED BY <1>1, <2>1, <2>3, <2>4 DEF RowInv, AtOK, RowsOK, network
<1>9. CASE UNCHANGED vars
  BY <1>1, <1>9 DEF RowInv, Typed, AtOK, RowsOK, NothingLost, vars, receiver, network, history
<1> QED BY <1>3, <1>4, <1>5, <1>6, <1>7, <1>8, <1>9 DEF Next

LEMMA RowInvInit == Init => RowInv
<1> SUFFICES ASSUME Init PROVE RowInv
  OBVIOUS
<1>1. Fresh \in BufferType
  BY FreshFacts
<1>2. \A p \in Senders : Fragment(p, 1, 0) \in Collects
  BY DEF Fragment, Collects
<1>3. Typed
  <2>1. buffers \in [Senders -> BufferType] /\ at \in [Senders -> Collects]
    BY <1>1, <1>2 DEF Init
  <2>2. /\ queue \in Seq(ReportType) /\ Len(queue) <= QueueSize
        /\ taken \in Seq(ReportType)
    <3>1. <<>> \in Seq(ReportType) /\ Len(<<>>) = 0
      OBVIOUS
    <3> QED BY <3>1, UdpReceiverAssumption DEF Init
  <2>3. starts \in 0..MaxStarts /\ strays \in 0..MaxStrays
    BY UdpReceiverAssumption DEF Init
  <2>4. /\ heard \in [Senders -> Nat] /\ run \in [Senders -> Nat]
        /\ newest \in [Senders -> Nat]
    BY DEF Init
  <2>5. open \in BOOLEAN /\ dropped \in Nat /\ forgotten \in Nat /\ whole \in Nat
    BY DEF Init
  <2> QED BY <2>1, <2>2, <2>3, <2>4, <2>5 DEF Typed
<1>4. AtOK
  <2> SUFFICES ASSUME NEW p \in Senders
               PROVE  /\ at[p] = Fragment(p, at[p].msg, at[p].idx) /\ at[p].msg \in Nat \ {0}
                      /\ at[p].idx \in Nat
                      /\ at[p].msg \in DOMAIN Size[p] => at[p].idx < Size[p][at[p].msg]
    BY DEF AtOK
  <2>1. at[p] = Fragment(p, 1, 0) /\ at[p].msg = 1 /\ at[p].idx = 0
    BY DEF Init, Fragment
  <2>2. at[p].msg \in DOMAIN Size[p] => Size[p][at[p].msg] \in Nat \ {0}
    BY SizeFacts
  <2> QED BY <2>1, <2>2
<1>5. RowsOK /\ NothingLost
  BY DEF Init, RowsOK, RowIsHeld, NothingLost
<1> QED BY <1>3, <1>4, <1>5 DEF RowInv

THEOREM RowInvariant == Spec => []RowInv
BY RowInvInit, RowInvInductive, PTL DEF Spec

\* Every variable has its type and the queue is bounded, whatever arrives.
THEOREM UdpTypeCorrect == Spec => []TypeOK
<1>1. RowInv => TypeOK
  <2>1. Collected = Collects
    BY DEF Collected, Collects
  <2> QED BY <2>1 DEF RowInv, Typed, TypeOK, BufferType, ReportType
<1> QED BY <1>1, RowInvariant, PTL

\* A report whose fragments arrived in a row is yielded, queued or counted as
\* dropped, for any messages and header widths, with any number of losses,
\* strays and restarts: nothing is assumed of the network.
THEOREM UdpNothingLost == Spec => []NothingLost
<1>1. RowInv => NothingLost
  BY DEF RowInv
<1> QED BY <1>1, RowInvariant, PTL

(***************************************************************************)
(* In order.  The second part assumes what the code relies on: fragments   *)
(* do not arrive twice or late, and numbers in headers do not wrap within  *)
(* a message or a loss.                                                    *)
(***************************************************************************)
Tame ==
    /\ MaxStrays = 0
    /\ MaxLost < MsgNums
    /\ \A p \in Senders : \A m \in DOMAIN Size[p] : Size[p][m] <= SeqNums

OrderOK ==
    \A p \in Senders : /\ Ordered(buffers[p], p, heard[p], run[p], at[p])
                       /\ newest[p] < at[p].msg

OrderInv == RowInv /\ OrderOK /\ OnlyWholeReports

\* The report that p's message m makes.
WholeReport(p, m) == [src |-> p, data |-> FirstOf(p, m, Size[p][m])]

LEMMA WholeFacts ==
    ASSUME NEW p \in Senders, NEW m \in DOMAIN Size[p]
    PROVE  /\ WholeReport(p, m) \in ReportType
           /\ WholeReport(p, m).src = p /\ WholeReport(p, m).data[1].msg = m
           /\ IsWhole(WholeReport(p, m).data)
           /\ ParseReport(FirstOf(p, m, Size[p][m])) = {<<p, m>> \notin Garbage}
<1>1. Size[p][m] \in Nat \ {0} /\ m \in Nat
  BY SizeFacts
<1>2. Size[p][m] \in 1..Size[p][m]
  BY <1>1
<1>3. IsWhole(FirstOf(p, m, Size[p][m])) /\ FirstOf(p, m, Size[p][m])[1] = Fragment(p, m, 0)
  BY <1>2, ParseFacts
<1>4. FirstOf(p, m, Size[p][m]) \in Seq(Collects)
  BY <1>1, FirstOfFacts
<1>5. ParseReport(FirstOf(p, m, Size[p][m])) = {<<p, m>> \notin Garbage}
  BY <1>2, ParseFacts
<1> QED BY <1>3, <1>4, <1>5 DEF WholeReport, ReportType, Fragment

\* The next fragment makes a report if it ends a row, and nothing otherwise.
LEMMA ArrivalInOrder ==
    ASSUME Tame, RowInv, OrderOK, NEW p \in Senders, Arrive(p)
    PROVE  /\ OrderOK'
           /\ taken' = taken /\ forgotten' = forgotten
           /\ \/ /\ at[p].msg \in DOMAIN Size[p] /\ newest[p] < at[p].msg
                 /\ Put(WholeReport(p, at[p].msg))
                 /\ newest' = [newest EXCEPT ![p] = at[p].msg]
                 /\ whole' = whole + 1
              \/ UNCHANGED <<queue, dropped, newest, whole>>
<1> DEFINE f == at[p]
           row == InARow(f, heard[p], run[p])
<1>1. /\ Typed /\ RowIsHeld(buffers[p], p, heard[p], run[p])
      /\ heard[p] \in Nat /\ run[p] \in Nat /\ newest[p] < f.msg
      /\ Ordered(buffers[p], p, heard[p], run[p], f)
  BY TypeFacts DEF RowInv, RowsOK, OrderOK
<1>2. /\ Sent(p, f) /\ datagram_received(f) /\ Note(f)
      /\ at' = [at EXCEPT ![p] = Following(f)]
      /\ at \in [Senders -> Collects]
  BY <1>1, SentIsSent DEF RowInv, Arrive, Sends, Typed
<1> HIDE DEF f
<1>3. /\ f.src = p /\ f.msg \in DOMAIN Size[p] /\ f.msg \in Nat /\ f \in Collects
      /\ f.idx \in Nat /\ f.idx < Size[p][f.msg] /\ Size[p][f.msg] \in Nat \ {0}
      /\ IsFirst(f) <=> f.idx = 0
      /\ IsLast(f) <=> f.idx + 1 = Size[p][f.msg]
  BY <1>2, SentFacts
<1>4. PICK b, o, e, n \in BufferType :
         /\ b = buffers[p] /\ o = Opened(b, f) /\ e = Extended(o, f)
         /\ Received(p, f, b, e, n)
  BY <1>1, <1>2, ReceivedFacts
<1>5. /\ row \in {0, f.idx + 1}
      /\ IsFirst(f) \/ (heard[p] = f.msg /\ run[p] = f.idx) => row = f.idx + 1
      /\ row = Size[p][f.msg] => row > 0 /\ IsLast(f)
      /\ row > 0 => IsFirst(f) \/ (heard[p] = f.msg /\ run[p] = f.idx /\ Holds(b, p, f.msg, f.idx))
  BY <1>1, <1>2, <1>4, RowFacts
<1>6. /\ heard' = [heard EXCEPT ![p] = f.msg] /\ run' = [run EXCEPT ![p] = row]
      /\ whole' = IF row = Size[p][f.msg] /\ <<p, f.msg>> \notin Garbage
                  THEN whole + 1 ELSE whole
      /\ taken' = taken /\ forgotten' = forgotten
  BY <1>2, <1>3 DEF Note
<1> HIDE DEF row
<1>7. /\ buffers' = [buffers EXCEPT ![p] = n] /\ buffers \in [Senders -> BufferType]
      /\ heard \in [Senders -> Nat] /\ run \in [Senders -> Nat]
      /\ newest \in [Senders -> Nat]
  <2>1. buffers' = [buffers EXCEPT ![p] = n]
    BY <1>4 DEF Received
  <2> QED BY <1>1, <2>1, TypeFacts
<1>8. Size[p][f.msg] <= SeqNums
  BY <1>3 DEF Tame
<1>9. row \in Nat
  BY <1>3, <1>5
<1>10. ~Orphan(b, f) =>
          \/ Holds(e, p, f.msg, f.idx + 1) /\ row = f.idx + 1
          \/ /\ e.started /\ e.message_number = f.msg % MsgNums /\ e.expected_seq <= f.idx
             /\ row # Size[p][f.msg]
             /\ \E k \in 1..(f.idx - 1) : e.data = FirstOf(p, f.msg, k)
  <2> SUFFICES ASSUME ~Orphan(b, f)
               PROVE  \/ Holds(e, p, f.msg, f.idx + 1) /\ row = f.idx + 1
                      \/ /\ e.started /\ e.message_number = f.msg % MsgNums
                         /\ e.expected_seq <= f.idx
                         /\ row # Size[p][f.msg]
                         /\ \E k \in 1..(f.idx - 1) : e.data = FirstOf(p, f.msg, k)
    OBVIOUS
  <2>1. CASE IsFirst(f) \/ (heard[p] = f.msg /\ run[p] = f.idx /\ Holds(b, p, f.msg, f.idx))
    <3>1. Expected(o, f) /\ Holds(Longer(o, f), p, f.msg, f.idx + 1)
      BY <1>2, <1>4, <2>1, RowIsKept
    <3>2. e = Longer(o, f)
      BY <1>3, <1>4, <3>1, ExtendedFacts
    <3> QED BY <1>5, <2>1, <3>1, <3>2
  <2>2. CASE /\ ~IsFirst(f) /\ heard[p] = f.msg /\ o = b /\ ~Expected(b, f)
             /\ b.started /\ b.message_number = f.msg % MsgNums
             /\ b.expected_seq < f.idx
             /\ \E k \in 1..(f.idx - 1) : b.data = FirstOf(p, f.msg, k)
    <3>1. /\ e.started = b.started /\ e.message_number = b.message_number
          /\ e.expected_seq = b.expected_seq + 1 /\ e.data = b.data
      <4>1. e = Extended(b, f) /\ ~Expected(b, f)
        BY <1>4, <2>2
      <4> QED BY <1>3, <4>1, ExtendedFacts
    <3>2. b.expected_seq \in Nat
      BY DEF BufferType
    <3>3. e.expected_seq <= f.idx
      BY <1>3, <2>2, <3>1, <3>2
    <3>4. row # Size[p][f.msg]
      <4> SUFFICES ASSUME row = Size[p][f.msg] PROVE FALSE
        OBVIOUS
      <4>1. Holds(b, p, f.msg, f.idx)
        BY <1>5, <2>2
      <4> QED BY <1>3, <2>2, <3>2, <4>1 DEF Holds
    <3> QED BY <2>2, <3>1, <3>3, <3>4
  <2> QED BY <1>1, <1>2, <1>4, <1>8, <2>1, <2>2, RowOrBehind
<1>11. OrderOK'
  <2>1. /\ n \in BufferType
        /\ \/ ~n.started
           \/ Holds(n, p, f.msg, f.idx + 1) /\ row = f.idx + 1
           \/ /\ n.started /\ n.message_number = f.msg % MsgNums
              /\ n.expected_seq <= f.idx
              /\ \E k \in 1..f.idx : n.data = FirstOf(p, f.msg, k)
    <3>1. ~Reset(b).started /\ ~Reset(e).started
      BY <1>3, BufferFacts
    <3>2. n = Reset(b) \/ n = Reset(e) \/ (n = e /\ ~Orphan(b, f))
      BY <1>4 DEF Received
    <3>3. 1..(f.idx - 1) \subseteq 1..f.idx
      BY <1>3
    <3> QED BY <1>10, <3>1, <3>2, <3>3
  <2>2. Ordered(n, p, f.msg, row, Following(f))
    BY <1>2, <1>9, <2>1, ArrivalKeepsOrder
  <2>3. /\ newest' = newest \/ newest' = [newest EXCEPT ![p] = f.msg]
        /\ newest' = [newest EXCEPT ![p] = f.msg] => IsLast(f) \/ newest[p] = f.msg
    BY <1>4, <1>7 DEF Received
  <2>4. newest'[p] < Following(f).msg
    <3>1. IsLast(f) => Following(f) = Fragment(p, f.msg + 1, 0)
      BY <1>2, FollowingFacts
    <3>2. ~IsLast(f) => Following(f) = Fragment(p, f.msg, f.idx + 1)
      BY <1>2, FollowingFacts
    <3>3. /\ IsLast(f) => Following(f).msg = f.msg + 1
          /\ ~IsLast(f) => Following(f).msg = f.msg
      BY <3>1, <3>2 DEF Fragment
    <3>4. newest[p] \in Nat /\ newest[p] < f.msg
      BY <1>1, <1>7 DEF f
    <3>5. newest'[p] = newest[p] \/ (newest'[p] = f.msg /\ IsLast(f))
      BY <1>3, <1>7, <2>3, <3>4
    <3> QED BY <1>3, <3>3, <3>4, <3>5
  <2> SUFFICES ASSUME NEW q \in Senders
               PROVE  /\ Ordered(buffers'[q], q, heard'[q], run'[q], at'[q])
                      /\ newest'[q] < at'[q].msg
    BY DEF OrderOK
  <2>5. CASE q # p
    <3>1. /\ buffers'[q] = buffers[q] /\ heard'[q] = heard[q] /\ run'[q] = run[q]
          /\ at'[q] = at[q] /\ newest'[q] = newest[q]
      BY <1>2, <1>6, <1>7, <2>3, <2>5
    <3> QED BY <3>1 DEF OrderOK
  <2>6. CASE q = p
    <3>1. buffers'[p] = n /\ heard'[p] = f.msg /\ run'[p] = row /\ at'[p] = Following(f)
      BY <1>2, <1>6, <1>7
    <3> QED BY <2>2, <2>4, <2>6, <3>1
  <2> QED BY <2>5, <2>6
<1>12. \/ /\ f.msg \in DOMAIN Size[p] /\ newest[p] < f.msg
          /\ Put(WholeReport(p, f.msg))
          /\ newest' = [newest EXCEPT ![p] = f.msg]
          /\ whole' = whole + 1
       \/ UNCHANGED <<queue, dropped, newest, whole>>
  <2>1. CASE ~IsLast(f) \/ Orphan(b, f)
    <3>1. UNCHANGED <<queue, dropped, newest>>
      BY <1>4, <2>1 DEF Received
    <3>2. row # Size[p][f.msg]
      <4> SUFFICES ASSUME row = Size[p][f.msg] PROVE FALSE
        OBVIOUS
      <4>1. ~Orphan(b, f)
        BY <1>2, <1>5, RowIsKept
      <4> QED BY <1>5, <2>1, <4>1
    <3> QED BY <1>6, <3>1, <3>2
  <2>2. CASE IsLast(f) /\ ~Orphan(b, f)
    <3> DEFINE N == Size[p][f.msg]
    <3>1. f.idx + 1 = N /\ N \in 1..N
      BY <1>3, <2>2
    <3>2. \/ /\ TRUE \in ParseReport(e.data)
             /\ Put([src |-> p, data |-> e.data])
             /\ newest' = [newest EXCEPT ![p] = f.msg]
          \/ /\ FALSE \in ParseReport(e.data)
             /\ UNCHANGED <<queue, dropped, newest>>
      BY <1>4, <2>2 DEF Received
    <3>3. CASE Holds(e, p, f.msg, f.idx + 1) /\ row = f.idx + 1
      <4>1. e.data = FirstOf(p, f.msg, N) /\ row = N
        BY <3>1, <3>3 DEF Holds
      <4>2. ParseReport(e.data) = {<<p, f.msg>> \notin Garbage}
        <5>1. ParseReport(FirstOf(p, f.msg, N)) = {<<p, f.msg>> \notin Garbage}
          BY <1>3, WholeFacts
        <5> QED BY <4>1, <5>1
      <4>3. CASE <<p, f.msg>> \in Garbage
        <5>1. UNCHANGED <<queue, dropped, newest>>
          BY <3>2, <4>2, <4>3
        <5> QED BY <1>6, <4>3, <5>1
      <4>4. CASE <<p, f.msg>> \notin Garbage
        <5>1. Put([src |-> p, data |-> e.data]) /\ newest' = [newest EXCEPT ![p] = f.msg]
          BY <3>2, <4>2, <4>4
        <5>2. [src |-> p, data |-> e.data] = WholeReport(p, f.msg)
          BY <4>1 DEF WholeReport
        <5>3. whole' = whole + 1
          BY <1>6, <4>1, <4>4
        <5>4. newest[p] < f.msg
          BY <1>1 DEF f
        <5>5. Put(WholeReport(p, f.msg))
          BY <5>1, <5>2
        <5> QED BY <1>3, <5>1, <5>3, <5>4, <5>5
      <4> QED BY <4>3, <4>4
    <3>4. CASE /\ row # N
               /\ \E k \in 1..(f.idx - 1) : e.data = FirstOf(p, f.msg, k)
      <4>1. PICK k \in 1..(f.idx - 1) : e.data = FirstOf(p, f.msg, k)
        BY <3>4
      <4>2. k \in 1..N /\ k # N
        BY <1>3, <3>1
      <4>3. ParseReport(e.data) = {FALSE}
        <5>1. ParseReport(FirstOf(p, f.msg, k)) = {FALSE}
          BY <1>3, <4>2, ParseFacts
        <5> QED BY <4>1, <5>1
      <4>4. UNCHANGED <<queue, dropped, newest>>
        BY <3>2, <4>3
      <4> QED BY <1>6, <3>4, <4>4
    <3> QED BY <1>10, <2>2, <3>3, <3>4
  <2> QED BY <2>1, <2>2
<1> QED BY <1>6, <1>11, <1>12 DEF f

LEMMA LossInOrder ==
    ASSUME Tame, RowInv, OrderOK, NEW p \in Senders, Lose(p)
    PROVE  OrderOK'
<1>1. /\ Typed /\ Sent(p, at[p]) /\ buffers[p] \in BufferType
      /\ heard[p] \in Nat /\ run[p] \in Nat
      /\ Ordered(buffers[p], p, heard[p], run[p], at[p])
  BY SentIsSent, TypeFacts DEF RowInv, OrderOK, Lose, Sends
<1>2. /\ at' = [at EXCEPT ![p] = Following(at[p])] /\ at \in [Senders -> Collects]
      /\ UNCHANGED <<buffers, heard, run, newest>>
      /\ heard[p] > 0 /\ IsFirst(at[p]) => at[p].msg <= heard[p] + MaxLost
  BY <1>1 DEF Lose, Sends, Typed, receiver, history
<1>3. heard[p] > 0 /\ IsFirst(at[p]) => at[p].msg < heard[p] + MsgNums
  <2>1. at[p].msg \in Nat
    BY <1>1, SentFacts
  <2> QED BY <1>1, <1>2, <2>1, UdpReceiverAssumption, FragmentsAssumption DEF Tame
<1>4. Ordered(buffers[p], p, heard[p], run[p], Following(at[p]))
  BY <1>1, <1>3, LossKeepsOrder
<1>5. newest[p] < Following(at[p]).msg
  <2>1. /\ Following(at[p]) = Fragment(p, at[p].msg + 1, 0)
           \/ Following(at[p]) = Fragment(p, at[p].msg, at[p].idx + 1)
        /\ at[p].msg \in Nat
    BY <1>1, FollowingFacts, SentFacts
  <2>2. Following(at[p]).msg \in {at[p].msg, at[p].msg + 1}
    BY <2>1 DEF Fragment
  <2>3. newest[p] \in Nat /\ newest[p] < at[p].msg
    BY <1>1, TypeFacts DEF OrderOK
  <2> QED BY <2>1, <2>2, <2>3
<1> SUFFICES ASSUME NEW q \in Senders
             PROVE  /\ Ordered(buffers'[q], q, heard'[q], run'[q], at'[q])
                    /\ newest'[q] < at'[q].msg
  BY DEF OrderOK
<1>6. CASE q # p
  <2>1. at'[q] = at[q]
    BY <1>2, <1>6
  <2> QED BY <1>2, <2>1 DEF OrderOK
<1>7. CASE q = p
  <2>1. at'[p] = Following(at[p])
    BY <1>2
  <2> QED BY <1>2, <1>4, <1>5, <1>7, <2>1
<1> QED BY <1>6, <1>7

LEMMA OrderInvInductive == Tame /\ OrderInv /\ [Next]_vars => OrderInv'
<1> SUFFICES ASSUME Tame, OrderInv, [Next]_vars PROVE OrderInv'
  OBVIOUS
<1>1. RowInv /\ OrderOK /\ OnlyWholeReports /\ Typed /\ AtOK /\ RowInv'
  BY RowInvInductive DEF OrderInv, RowInv
<1>2. /\ queue \in Seq(ReportType) /\ taken \in Seq(ReportType)
      /\ Len(queue) \in Nat /\ Len(taken) \in Nat /\ dropped \in Nat /\ forgotten \in Nat
      /\ whole \in Nat
      /\ \A r \in ToSet(taken) \cup ToSet(queue) : IsWhole(r.data)
      /\ Count <= whole
  BY <1>1, TypeFacts DEF OnlyWholeReports, Reports, Count
<1>3. ASSUME UNCHANGED <<queue, taken, dropped, forgotten, whole>> PROVE OnlyWholeReports'
  BY <1>2, <1>3 DEF OnlyWholeReports, Reports, Count
<1>4. ASSUME NEW p \in Senders, Arrive(p) PROVE OrderInv'
  <2>1. /\ OrderOK' /\ taken' = taken /\ forgotten' = forgotten
        /\ \/ /\ at[p].msg \in DOMAIN Size[p]
              /\ Put(WholeReport(p, at[p].msg)) /\ whole' = whole + 1
           \/ UNCHANGED <<queue, dropped, newest, whole>>
    BY <1>1, <1>4, ArrivalInOrder
  <2>2. CASE UNCHANGED <<queue, dropped, newest, whole>>
    BY <1>1, <1>3, <2>1, <2>2 DEF OrderInv
  <2>3. CASE /\ at[p].msg \in DOMAIN Size[p]
             /\ Put(WholeReport(p, at[p].msg)) /\ whole' = whole + 1
    <3> DEFINE r == WholeReport(p, at[p].msg)
    <3>1. r \in ReportType /\ IsWhole(r.data)
      BY <2>3, WholeFacts
    <3> HIDE DEF r
    <3>2. /\ Len(queue') + dropped' = Len(queue) + dropped + 1
          /\ queue' \in Seq(ReportType) /\ dropped' \in Nat
          /\ queue' = Append(queue, r) \/ queue' = queue
      BY <1>1, <2>3, <3>1, PutFacts DEF r
    <3>3. ToSet(queue') \subseteq ToSet(queue) \cup {r}
      <4>1. ToSet(Append(queue, r)) = ToSet(queue) \cup {r}
        BY <1>2, <3>1, AppendFacts
      <4> QED BY <3>2, <4>1
    <3>4. \A x \in Reports' : IsWhole(x.data)
      BY <1>2, <2>1, <3>1, <3>3 DEF Reports
    <3>5. Count' <= whole'
      <4>1. Count' = Len(taken) + Len(queue') + dropped' + forgotten
        BY <2>1 DEF Count
      <4>2. /\ Len(queue') \in Nat /\ dropped' \in Nat
            /\ Len(queue') + dropped' = Len(queue) + dropped + 1
            /\ Len(queue) \in Nat /\ Len(taken) \in Nat /\ dropped \in Nat /\ forgotten \in Nat
        BY <1>2, <3>2
      <4>3. Len(taken) + Len(queue') + dropped' + forgotten
               = Len(taken) + Len(queue) + dropped + forgotten + 1
        BY <4>2
      <4>4. Len(taken) + Len(queue) + dropped + forgotten <= whole
        BY <1>2 DEF Count
      <4> QED BY <1>2, <2>3, <4>1, <4>3, <4>4
    <3> QED BY <1>1, <2>1, <3>4, <3>5 DEF OrderInv, OnlyWholeReports, Count
  <2> QED BY <2>1, <2>2, <2>3
<1>5. ASSUME NEW p \in Senders, Lose(p) PROVE OrderInv'
  <2>1. OrderOK'
    BY <1>1, <1>5, LossInOrder
  <2>2. UNCHANGED <<queue, taken, dropped, forgotten, whole>>
    BY <1>5 DEF Lose, receiver, history
  <2> QED BY <1>1, <1>3, <2>1, <2>2 DEF OrderInv
<1>6. ASSUME NEW p \in Senders, Stray(p) PROVE OrderInv'
  <2>1. strays \in 0..0 /\ strays < 0
    BY <1>1, <1>6 DEF Stray, Tame, Typed
  <2> QED BY <2>1
<1>7. CASE start
  <2>1. /\ buffers' = [p \in Senders |-> Fresh] /\ heard' = [p \in Senders |-> 0]
        /\ UNCHANGED <<queue, at, taken, whole, newest>>
        /\ dropped' = 0 /\ forgotten' = forgotten + dropped
    BY <1>7 DEF start
  <2>2. OrderOK'
    <3> SUFFICES ASSUME NEW q \in Senders
                 PROVE  /\ Ordered(buffers'[q], q, heard'[q], run'[q], at'[q])
                        /\ newest'[q] < at'[q].msg
      BY DEF OrderOK
    <3>1. buffers'[q] = Fresh /\ heard'[q] = 0 /\ at'[q] = at[q] /\ newest'[q] = newest[q]
      BY <2>1
    <3>2. at[q].msg \in Nat \ {0}
      BY <1>1 DEF AtOK
    <3> QED BY <1>1, <3>1, <3>2, FreshFacts DEF OrderOK, Ordered
  <2>3. Count' = Count
    BY <1>2, <2>1 DEF Count
  <2>4. Count' <= whole' /\ Reports' = Reports
    BY <1>2, <2>1, <2>3 DEF Reports
  <2>5. OnlyWholeReports'
    BY <1>1, <2>4 DEF OnlyWholeReports, Count
  <2> QED BY <1>1, <2>2, <2>5 DEF OrderInv
<1>8. CASE close
  <2>1. OrderOK'
    BY <1>1, <1>8 DEF close, OrderOK, network, history
  <2>2. UNCHANGED <<queue, taken, dropped, forgotten, whole>>
    BY <1>8 DEF close, history
  <2> QED BY <1>1, <1>3, <2>1, <2>2 DEF OrderInv
<1>9. CASE anext
  <2>1. /\ queue # <<>> /\ queue' = Tail(queue) /\ taken' = Append(taken, Head(queue))
        /\ UNCHANGED <<open, buffers, dropped, network, forgotten, heard, run, whole, newest>>
    BY <1>9 DEF anext
  <2>2. OrderOK'
    BY <1>1, <2>1 DEF OrderOK, network
  <2>3. /\ Head(queue) \in ReportType /\ ToSet(queue) = {Head(queue)} \cup ToSet(queue')
        /\ ToSet(taken') = ToSet(taken) \cup {Head(queue)}
    <3>1. Head(queue) \in ReportType /\ ToSet(queue) = {Head(queue)} \cup ToSet(Tail(queue))
      BY <1>2, <2>1, TailFacts
    <3>2. ToSet(Append(taken, Head(queue))) = ToSet(taken) \cup {Head(queue)}
      BY <1>2, <3>1, AppendFacts
    <3> QED BY <2>1, <3>1, <3>2
  <2>4. Reports' = Reports
    BY <2>3 DEF Reports
  <2>5. Count' = Count
    <3>1. Len(taken') = Len(taken) + 1 /\ Len(queue') = Len(queue) - 1
      BY <1>2, <2>1
    <3>2. UNCHANGED <<dropped, forgotten>>
      BY <2>1
    <3>3. Len(taken') + Len(queue') + dropped' + forgotten'
             = Len(taken) + Len(queue) + dropped + forgotten
      BY <1>2, <3>1, <3>2
    <3> QED BY <3>3 DEF Count
  <2>6. whole' = whole
    BY <2>1
  <2>7. OnlyWholeReports'
    BY <1>1, <2>4, <2>5, <2>6 DEF OnlyWholeReports, Count
  <2> QED BY <1>1, <2>2, <2>7 DEF OrderInv
<1>10. CASE UNCHANGED vars
  <2>1. OrderOK'
    BY <1>1, <1>10 DEF vars, receiver, network, history, OrderOK
  <2>2. UNCHANGED <<queue, taken, dropped, forgotten, whole>>
    BY <1>10 DEF vars, receiver, history
  <2> QED BY <1>1, <1>3, <2>1, <2>2 DEF OrderInv
<1> QED BY <1>4, <1>5, <1>6, <1>7, <1>8, <1>9, <1>10 DEF Next

LEMMA OrderInvInit == Init => OrderInv
<1> SUFFICES ASSUME Init PROVE OrderInv
  OBVIOUS
<1>1. RowInv
  BY RowInvInit
<1>2. OrderOK
  <2> SUFFICES ASSUME NEW p \in Senders
               PROVE  /\ Ordered(buffers[p], p, heard[p], run[p], at[p])
                      /\ newest[p] < at[p].msg
    BY DEF OrderOK
  <2>1. /\ buffers[p] = Fresh /\ heard[p] = 0 /\ newest[p] = 0
        /\ at[p] = Fragment(p, 1, 0) /\ at[p].msg = 1
    BY DEF Init, Fragment
  <2> QED BY <2>1, FreshFacts DEF Ordered
<1>3. OnlyWholeReports
  <2>1. ToSet(<<>>) = {}
    BY DEF ToSet
  <2> QED BY <2>1 DEF Init, OnlyWholeReports, Reports
<1> QED BY <1>1, <1>2, <1>3 DEF OrderInv

\* What is yielded or waits is a whole message, and nothing else was counted as
\* dropped, however many fragments are lost: for any messages of no more
\* fragments than there are sequence numbers, if fewer messages of a sender are
\* lost in a row than there are message numbers and nothing arrives twice or late.
THEOREM UdpOnlyWholeReports == ASSUME Tame PROVE Spec => []OnlyWholeReports
<1>1. OrderInv /\ [Next]_vars => OrderInv'
  BY OrderInvInductive
<1>2. OrderInv => OnlyWholeReports
  BY DEF OrderInv
<1> QED BY <1>1, <1>2, OrderInvInit, PTL DEF Spec

(***************************************************************************)
(* The receiver implements the service of module ReportStream              *)
(***************************************************************************)
Shown(q) == [i \in DOMAIN q |-> <<q[i].src, q[i].data[1].msg>>]

LEMMA ShownReports ==
    ASSUME NEW q \in Seq(ReportType)
    PROVE  /\ Len(Shown(q)) = Len(q)
           /\ q = <<>> <=> Shown(q) = <<>>
           /\ \A r \in ReportType : Shown(Append(q, r)) = Append(Shown(q), <<r.src, r.data[1].msg>>)
           /\ q # <<>> => /\ Shown(Tail(q)) = Tail(Shown(q))
                          /\ Head(Shown(q)) = <<Head(q).src, Head(q).data[1].msg>>
                          /\ Head(q) \in ReportType
<1> DEFINE T == {<<r.src, r.data[1].msg>> : r \in ReportType}
           g == [r \in ReportType |-> <<r.src, r.data[1].msg>>]
           Image(s) == [i \in DOMAIN s |-> g[s[i]]]
<1>1. g \in [ReportType -> T]
  OBVIOUS
<1>2. ASSUME NEW s \in Seq(ReportType) PROVE Shown(s) = Image(s)
  BY <1>2 DEF Shown
<1>3. \A r \in ReportType : g[r] = <<r.src, r.data[1].msg>>
  OBVIOUS
<1>4. \A r \in ReportType : Append(q, r) \in Seq(ReportType)
  OBVIOUS
<1>5. q # <<>> => Tail(q) \in Seq(ReportType) /\ Head(q) \in ReportType
  OBVIOUS
<1> HIDE DEF T, g
<1>6. /\ Len(Image(q)) = Len(q)
      /\ q = <<>> <=> Image(q) = <<>>
      /\ \A r \in ReportType : Image(Append(q, r)) = Append(Image(q), g[r])
      /\ q # <<>> => Image(Tail(q)) = Tail(Image(q)) /\ Head(Image(q)) = g[Head(q)]
  BY <1>1, ShownFacts
<1> HIDE DEF Image
<1> QED BY <1>2, <1>3, <1>4, <1>5, <1>6

LEMMA StreamInitially == Init => Stream!StreamInit
<1>1. Shown(<<>>) = <<>>
  BY DEF Shown
<1> QED BY <1>1 DEF Init, Stream!StreamInit, Shown

LEMMA StreamStep ==
    Tame /\ OrderInv /\ [Next]_vars => [Stream!StreamNext]_(Stream!rvars)
<1> SUFFICES ASSUME Tame, OrderInv, [Next]_vars
             PROVE  Stream!StreamNext \/ UNCHANGED Stream!rvars
  OBVIOUS
<1>1. RowInv /\ OrderOK /\ Typed
  BY DEF OrderInv, RowInv
<1>2. /\ queue \in Seq(ReportType) /\ taken \in Seq(ReportType)
      /\ Len(queue) \in Nat /\ dropped \in Nat /\ forgotten \in Nat
  BY <1>1, TypeFacts
<1>3. ASSUME UNCHANGED <<queue, taken, newest>>, dropped' + forgotten' = dropped + forgotten
      PROVE  UNCHANGED Stream!rvars
  BY <1>3 DEF Stream!rvars
<1>4. ASSUME NEW p \in Senders, Arrive(p) PROVE Stream!StreamNext \/ UNCHANGED Stream!rvars
  <2> DEFINE m == at[p].msg
             r == WholeReport(p, m)
  <2>1. /\ taken' = taken /\ forgotten' = forgotten
        /\ \/ /\ m \in DOMAIN Size[p] /\ newest[p] < m
              /\ Put(r) /\ newest' = [newest EXCEPT ![p] = m]
           \/ UNCHANGED <<queue, dropped, newest, whole>>
    BY <1>1, <1>4, ArrivalInOrder
  <2>2. CASE UNCHANGED <<queue, dropped, newest, whole>>
    BY <1>3, <2>1, <2>2
  <2>3. CASE /\ m \in DOMAIN Size[p] /\ newest[p] < m
             /\ Put(r) /\ newest' = [newest EXCEPT ![p] = m]
    <3>1. /\ r \in ReportType /\ <<r.src, r.data[1].msg>> = <<p, m>>
          /\ m \in Nat /\ newest[p] \in Nat
      BY <1>1, <2>3, WholeFacts, SizeFacts, TypeFacts
    <3> HIDE DEF m, r
    <3>2. \/ Len(queue) < QueueSize /\ queue' = Append(queue, r) /\ dropped' = dropped
          \/ Len(queue) >= QueueSize /\ queue' = queue /\ dropped' = dropped + 1
      BY <1>1, <2>3, <3>1, PutFacts
    <3>3. /\ Len(Shown(queue)) = Len(queue)
          /\ Shown(Append(queue, r)) = Append(Shown(queue), <<p, m>>)
      BY <1>2, <3>1, ShownReports
    <3>4. <<p, m>> \in Messages
      BY <2>3 DEF Messages
    <3>5. m > newest[p]
      BY <2>3, <3>1
    <3>6. \/ /\ Len(Shown(queue)) < QueueSize
             /\ Shown(queue') = Append(Shown(queue), <<p, m>>)
             /\ dropped' + forgotten' = dropped + forgotten
          \/ /\ Len(Shown(queue)) >= QueueSize
             /\ dropped' + forgotten' = dropped + forgotten + 1
             /\ Shown(queue') = Shown(queue)
      <4>1. forgotten' = forgotten
        BY <2>1
      <4>2. CASE Len(queue) < QueueSize /\ queue' = Append(queue, r) /\ dropped' = dropped
        BY <3>3, <4>1, <4>2
      <4>3. CASE Len(queue) >= QueueSize /\ queue' = queue /\ dropped' = dropped + 1
        <5>1. dropped' + forgotten' = dropped + forgotten + 1
          BY <1>2, <4>1, <4>3
        <5>2. Len(Shown(queue)) >= QueueSize /\ Shown(queue') = Shown(queue)
          BY <3>3, <4>3
        <5> QED BY <5>1, <5>2
      <4> QED BY <3>2, <4>2, <4>3
    <3>7. Shown(taken') = Shown(taken)
      BY <2>1
    <3>8. \E x \in Messages :
             /\ x[2] > newest[x[1]] /\ newest' = [newest EXCEPT ![x[1]] = x[2]]
             /\ \/ /\ Len(Shown(queue)) < QueueSize
                   /\ Shown(queue') = Append(Shown(queue), <<x[1], x[2]>>)
                   /\ dropped' + forgotten' = dropped + forgotten
                \/ /\ Len(Shown(queue)) >= QueueSize
                   /\ dropped' + forgotten' = dropped + forgotten + 1
                   /\ Shown(queue') = Shown(queue)
             /\ Shown(taken') = Shown(taken)
      <4>1. <<p, m>>[1] = p /\ <<p, m>>[2] = m
        OBVIOUS
      <4> WITNESS <<p, m>> \in Messages
      <4> QED BY <2>3, <3>5, <3>6, <3>7, <4>1
    <3>9. Stream!StreamNext
      BY <3>8 DEF Stream!StreamNext, Stream!Offer, Shown
    <3> QED BY <3>9
  <2> QED BY <2>1, <2>2, <2>3
<1>5. ASSUME NEW p \in Senders, Lose(p) PROVE UNCHANGED Stream!rvars
  BY <1>3, <1>5 DEF Lose, receiver, history
<1>6. ASSUME NEW p \in Senders, Stray(p) PROVE FALSE
  <2>1. strays \in 0..0 /\ strays < 0
    BY <1>1, <1>6 DEF Stray, Tame, Typed
  <2> QED BY <2>1
<1>7. CASE start
  BY <1>2, <1>3, <1>7 DEF start
<1>8. CASE close
  BY <1>3, <1>8 DEF close, history
<1>9. CASE anext
  <2>1. /\ queue # <<>> /\ queue' = Tail(queue) /\ taken' = Append(taken, Head(queue))
        /\ UNCHANGED <<dropped, forgotten, newest>>
    BY <1>9 DEF anext
  <2>2. /\ Shown(queue) # <<>> /\ Shown(queue') = Tail(Shown(queue))
        /\ Head(Shown(queue)) = <<Head(queue).src, Head(queue).data[1].msg>>
        /\ Head(queue) \in ReportType
    BY <1>2, <2>1, ShownReports
  <2>3. Shown(taken') = Append(Shown(taken), Head(Shown(queue)))
    <3> DEFINE x == Head(queue)
    <3>1. x \in ReportType /\ taken' = Append(taken, x)
      BY <2>1, <2>2
    <3> HIDE DEF x
    <3>2. Shown(Append(taken, x)) = Append(Shown(taken), <<x.src, x.data[1].msg>>)
      BY <1>2, <3>1, ShownReports
    <3>3. Head(Shown(queue)) = <<x.src, x.data[1].msg>>
      BY <2>2 DEF x
    <3> QED BY <3>1, <3>2, <3>3
  <2>4. Stream!Yield
    BY <2>1, <2>2, <2>3 DEF Stream!Yield, Shown
  <2> QED BY <2>4 DEF Stream!StreamNext
<1>10. CASE UNCHANGED vars
  BY <1>3, <1>10 DEF vars, receiver, history
<1> QED BY <1>4, <1>5, <1>6, <1>7, <1>8, <1>9, <1>10 DEF Next

\* The reports of a sender are yielded in the order in which it made them, each
\* at most once, and a full queue drops the new one: with losses and restarts.
THEOREM UdpImplementsStream == ASSUME Tame PROVE Spec => ImplementsStream
<1>1. OrderInv /\ [Next]_vars => OrderInv' /\ [Stream!StreamNext]_(Stream!rvars)
  BY OrderInvInductive, StreamStep
<1> QED BY <1>1, OrderInvInit, StreamInitially, PTL DEF Spec, ImplementsStream, Stream!Stream

(***************************************************************************)
(* Strays.  The third part assumes only that no two messages of a sender   *)
(* have one number.                                                        *)
(***************************************************************************)
Numbered == \A p \in Senders : Len(Size[p]) <= MsgNums

Of(d, p, m) == \A i \in DOMAIN d : d[i].src = p /\ d[i].msg = m

\* A buffer of p holds fragments of the message it is open for, or nothing.
HoldsOne(b, p) ==
    /\ ~b.started => b.data = <<>>
    /\ b.started => \E m \in DOMAIN Size[p] : /\ b.message_number = m % MsgNums
                                              /\ Of(b.data, p, m)

BuffersPure == \A p \in Senders : HoldsOne(buffers[p], p)

ReportsPure == \A r \in Reports : \E p \in Senders : \E m : Of(r.data, p, m)

PureInv == RowInv /\ BuffersPure /\ ReportsPure

LEMMA SameMessage ==
    ASSUME Numbered, NEW p \in Senders, NEW m \in DOMAIN Size[p], NEW k \in DOMAIN Size[p],
           m % MsgNums = k % MsgNums
    PROVE  m = k
<1>1. /\ m \in Nat \ {0} /\ k \in Nat \ {0} /\ MsgNums \in Nat \ {0}
      /\ m <= Len(Size[p]) /\ k <= Len(Size[p]) /\ Len(Size[p]) \in Nat
  <2>1. Size[p] \in Seq(Nat \ {0})
    BY FragmentsAssumption
  <2> QED BY <2>1, FragmentsAssumption
<1>2. Len(Size[p]) <= MsgNums
  BY DEF Numbered
<1>3. ~(m < k)
  <2> SUFFICES ASSUME m < k PROVE FALSE
    OBVIOUS
  <2>1. k < m + MsgNums
    BY <1>1, <1>2
  <2> QED BY <1>1, <2>1, ModApart
<1>4. ~(k < m)
  <2> SUFFICES ASSUME k < m PROVE FALSE
    OBVIOUS
  <2>1. m < k + MsgNums
    BY <1>1, <1>2
  <2> QED BY <1>1, <2>1, ModApart
<1> QED BY <1>1, <1>3, <1>4

LEMMA OfAppend ==
    ASSUME NEW d \in Seq(Collects), NEW p, NEW m, Of(d, p, m),
           NEW f \in Collects, f.src = p, f.msg = m
    PROVE  Of(Append(d, f), p, m)
<1>1. /\ Append(d, f) \in Seq(Collects) /\ Len(Append(d, f)) = Len(d) + 1 /\ Len(d) \in Nat
      /\ Append(d, f)[Len(d) + 1] = f
      /\ \A i \in 1..Len(d) : Append(d, f)[i] = d[i]
  OBVIOUS
<1>2. DOMAIN Append(d, f) = 1..(Len(d) + 1) /\ DOMAIN d = 1..Len(d)
  BY <1>1
<1> SUFFICES ASSUME NEW i \in 1..(Len(d) + 1)
             PROVE  Append(d, f)[i].src = p /\ Append(d, f)[i].msg = m
  BY <1>2 DEF Of
<1>3. CASE i = Len(d) + 1
  BY <1>1, <1>3
<1>4. CASE i # Len(d) + 1
  <2>1. i \in DOMAIN d /\ Append(d, f)[i] = d[i]
    BY <1>1, <1>2, <1>4
  <2> QED BY <2>1 DEF Of
<1> QED BY <1>3, <1>4

\* Any fragment, whenever it comes, is put to its own message only.
LEMMA ArrivalKeepsPure ==
    ASSUME Numbered, Typed, BuffersPure, ReportsPure,
           NEW p \in Senders, NEW f, Sent(p, f), datagram_received(f), Note(f)
    PROVE  BuffersPure' /\ ReportsPure'
<1>1. /\ f \in Collects /\ f.src = p /\ f.msg \in DOMAIN Size[p]
      /\ MsgNum(f) = f.msg % MsgNums
  BY SentFacts
<1>2. PICK b, o, e, n \in BufferType :
         /\ b = buffers[p] /\ o = Opened(b, f) /\ e = Extended(o, f)
         /\ Received(p, f, b, e, n)
  BY ReceivedFacts
<1>3. HoldsOne(b, p)
  BY <1>2 DEF BuffersPure
<1>4. ~Orphan(b, f) => /\ Of(e.data, p, f.msg) /\ e.started
                       /\ e.message_number = f.msg % MsgNums
  <2> SUFFICES ASSUME ~Orphan(b, f)
               PROVE  /\ Of(e.data, p, f.msg) /\ e.started
                      /\ e.message_number = f.msg % MsgNums
    OBVIOUS
  <2>1. o.started /\ o.message_number = f.msg % MsgNums
    BY <1>2, OpenedFacts
  <2>2. Of(o.data, p, f.msg)
    <3>1. CASE IsFirst(f)
      <4>1. o.data = FirstOf(p, f.msg, 0)
        BY <1>2, <3>1, OpenedFacts DEF Holds
      <4>2. o.data = <<>>
        BY <4>1 DEF FirstOf
      <4> QED BY <4>2 DEF Of
    <3>2. CASE ~IsFirst(f)
      <4>1. o = b
        BY <1>2, <3>2, OpenedFacts
      <4>2. PICK m \in DOMAIN Size[p] : b.message_number = m % MsgNums /\ Of(b.data, p, m)
        BY <1>3, <2>1, <4>1 DEF HoldsOne
      <4>3. m = f.msg
        BY <1>1, <2>1, <4>1, <4>2, SameMessage
      <4> QED BY <4>1, <4>2, <4>3
    <3> QED BY <3>1, <3>2
  <2>3. /\ e.started = o.started /\ e.message_number = o.message_number
        /\ e.data \in {o.data, Append(o.data, f)}
    <3>1. Longer(o, f).data = Append(o.data, f)
      BY <1>1, BufferFacts
    <3> QED BY <1>1, <1>2, <3>1, ExtendedFacts
  <2>4. o.data \in Seq(Collects)
    BY DEF BufferType
  <2> QED BY <1>1, <2>1, <2>2, <2>3, <2>4, OfAppend
<1>5. HoldsOne(n, p)
  <2>1. \A c \in BufferType : Reset(c).data = <<>> /\ ~Reset(c).started
    BY DEF Reset, BufferType
  <2>2. CASE n = Reset(b) \/ n = Reset(e)
    BY <2>1, <2>2 DEF HoldsOne
  <2>3. CASE n = e /\ ~Orphan(b, f)
    BY <1>1, <1>4, <2>3 DEF HoldsOne
  <2> QED BY <1>2, <2>2, <2>3 DEF Received
<1>6. BuffersPure'
  <2>1. buffers' = [buffers EXCEPT ![p] = n] /\ buffers \in [Senders -> BufferType]
    BY <1>2, TypeFacts DEF Received
  <2> SUFFICES ASSUME NEW q \in Senders PROVE HoldsOne(buffers'[q], q)
    BY DEF BuffersPure
  <2>2. CASE q # p
    <3>1. buffers'[q] = buffers[q]
      BY <2>1, <2>2
    <3> QED BY <3>1 DEF BuffersPure
  <2>3. CASE q = p
    <3>1. buffers'[q] = n
      BY <2>1, <2>3
    <3> QED BY <1>5, <2>3, <3>1
  <2> QED BY <2>2, <2>3
<1>7. ReportsPure'
  <2> DEFINE r == [src |-> p, data |-> e.data]
  <2>1. \/ UNCHANGED <<queue, dropped, newest>>
        \/ ~Orphan(b, f) /\ Put(r)
    BY <1>2 DEF Received
  <2>2. taken' = taken
    BY DEF Note
  <2>3. CASE UNCHANGED <<queue, dropped, newest>>
    BY <2>2, <2>3 DEF ReportsPure, Reports
  <2>4. CASE ~Orphan(b, f) /\ Put(r)
    <3>1. r \in ReportType /\ r.data = e.data
      BY DEF ReportType, BufferType
    <3> HIDE DEF r
    <3>2. queue' = Append(queue, r) \/ queue' = queue
      BY <2>4, <3>1, PutFacts
    <3>3. ToSet(Append(queue, r)) = ToSet(queue) \cup {r}
      BY <3>1, TypeFacts, AppendFacts
    <3>4. Reports' \subseteq Reports \cup {r}
      BY <2>2, <3>2, <3>3 DEF Reports
    <3>5. Of(r.data, p, f.msg)
      BY <1>4, <2>4, <3>1
    <3> QED BY <3>4, <3>5 DEF ReportsPure
  <2> QED BY <2>1, <2>3, <2>4
<1> QED BY <1>6, <1>7

LEMMA PureInvInductive == Numbered /\ PureInv /\ [Next]_vars => PureInv'
<1> SUFFICES ASSUME Numbered, PureInv, [Next]_vars PROVE PureInv'
  OBVIOUS
<1>1. RowInv /\ Typed /\ AtOK /\ BuffersPure /\ ReportsPure /\ RowInv'
  BY RowInvInductive DEF PureInv, RowInv
<1>2. ASSUME UNCHANGED <<queue, taken>> PROVE ReportsPure'
  BY <1>1, <1>2 DEF ReportsPure, Reports
<1>3. ASSUME UNCHANGED buffers PROVE BuffersPure'
  BY <1>1, <1>3 DEF BuffersPure
<1>4. ASSUME NEW p \in Senders, Arrive(p) PROVE PureInv'
  <2>1. Sent(p, at[p]) /\ datagram_received(at[p]) /\ Note(at[p])
    BY <1>1, <1>4, SentIsSent DEF Arrive, Sends
  <2> QED BY <1>1, <2>1, ArrivalKeepsPure DEF PureInv
<1>5. ASSUME NEW p \in Senders, Lose(p) PROVE PureInv'
  BY <1>1, <1>2, <1>3, <1>5 DEF PureInv, Lose, receiver, history
<1>6. ASSUME NEW p \in Senders, Stray(p) PROVE PureInv'
  <2>1. PICK m \in DOMAIN Size[p] : \E i \in 0..(Size[p][m] - 1) :
           datagram_received(Fragment(p, m, i)) /\ Note(Fragment(p, m, i))
    BY <1>6 DEF Stray
  <2>2. PICK i \in 0..(Size[p][m] - 1) :
           datagram_received(Fragment(p, m, i)) /\ Note(Fragment(p, m, i))
    BY <2>1
  <2>3. Sent(p, Fragment(p, m, i))
    BY DEF Sent, Fragment
  <2> QED BY <1>1, <2>2, <2>3, ArrivalKeepsPure DEF PureInv
<1>7. CASE start
  <2>1. buffers' = [p \in Senders |-> Fresh] /\ UNCHANGED <<queue, taken>>
    BY <1>7 DEF start
  <2>2. BuffersPure'
    BY <2>1 DEF BuffersPure, HoldsOne, Fresh
  <2> QED BY <1>1, <1>2, <2>1, <2>2 DEF PureInv
<1>8. CASE close
  BY <1>1, <1>2, <1>3, <1>8 DEF PureInv, close, history
<1>9. CASE anext
  <2>1. /\ queue # <<>> /\ queue' = Tail(queue) /\ taken' = Append(taken, Head(queue))
        /\ buffers' = buffers
    BY <1>9 DEF anext
  <2>2. Reports' = Reports
    <3>1. /\ queue \in Seq(ReportType) /\ taken \in Seq(ReportType)
      BY <1>1, TypeFacts
    <3>2. Head(queue) \in ReportType /\ ToSet(queue) = {Head(queue)} \cup ToSet(Tail(queue))
      BY <2>1, <3>1, TailFacts
    <3>3. ToSet(Append(taken, Head(queue))) = ToSet(taken) \cup {Head(queue)}
      BY <3>1, <3>2, AppendFacts
    <3> QED BY <2>1, <3>2, <3>3 DEF Reports
  <2>3. ReportsPure'
    BY <1>1, <2>2 DEF ReportsPure
  <2> QED BY <1>1, <1>3, <2>1, <2>3 DEF PureInv
<1>10. CASE UNCHANGED vars
  BY <1>1, <1>2, <1>3, <1>10 DEF PureInv, vars, receiver, history
<1> QED BY <1>4, <1>5, <1>6, <1>7, <1>8, <1>9, <1>10 DEF Next

LEMMA PureInvInit == Init => PureInv
<1> SUFFICES ASSUME Init PROVE PureInv
  OBVIOUS
<1>1. BuffersPure
  BY DEF Init, BuffersPure, HoldsOne, Fresh
<1>2. ToSet(<<>>) = {}
  BY DEF ToSet
<1>3. ReportsPure
  BY <1>2 DEF Init, ReportsPure, Reports
<1> QED BY <1>1, <1>3, RowInvInit DEF PureInv

\* Whatever is lost, repeated or late, no buffer and no report holds fragments
\* of two senders or of two messages, while no two messages of a sender have one
\* number.
THEOREM UdpNeverMixed == ASSUME Numbered PROVE Spec => []NeverMixed
<1>1. PureInv /\ [Next]_vars => PureInv'
  BY PureInvInductive
<1>2. PureInv => NeverMixed
  <2> SUFFICES ASSUME PureInv,
                      NEW d \in {buffers[p].data : p \in Senders} \cup {r.data : r \in Reports}
               PROVE  \E p \in Senders : \E m : Of(d, p, m)
    BY DEF NeverMixed, Of
  <2>1. CASE d \in {r.data : r \in Reports}
    BY <2>1 DEF PureInv, ReportsPure
  <2>2. ASSUME NEW p \in Senders, d = buffers[p].data PROVE \E m : Of(d, p, m)
    <3>1. HoldsOne(buffers[p], p)
      BY DEF PureInv, BuffersPure
    <3>2. CASE buffers[p].started
      BY <2>2, <3>1, <3>2 DEF HoldsOne
    <3>3. CASE ~buffers[p].started
      BY <2>2, <3>1, <3>3 DEF HoldsOne, Of
    <3> QED BY <3>2, <3>3
  <2> QED BY <2>1, <2>2
<1> QED BY <1>1, <1>2, PureInvInit, PTL DEF Spec
=============================================================================
