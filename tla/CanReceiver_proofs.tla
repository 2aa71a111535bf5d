------------------------- MODULE CanReceiver_proofs -------------------------
(***************************************************************************)
(* Proofs about CanReceiver, for any streams, nodes, messages and queue    *)
(* size.                                                                   *)
(***************************************************************************)
EXTENDS CanReceiver, Fragments_proofs

ReportType == [src : Sources, data : Seq(Collects)]

(***************************************************************************)
(* Types                                                                   *)
(***************************************************************************)
\* TypeOK, with its sets named.
Typed ==
    /\ open \in BOOLEAN /\ consuming \in BOOLEAN
    /\ buffers \in [Sources -> BufferType]
    /\ queue \in Seq(ReportType) /\ Len(queue) <= QueueSize
    /\ at \in [Senders -> Collects] /\ starts \in 0..MaxStarts
    /\ taken \in Seq(ReportType) /\ lost \in Nat
    /\ heard \in [Senders -> Nat] /\ run \in [Senders -> Nat]
    /\ whole \in Nat /\ newest \in [Senders -> Nat]

Count == Len(taken) + Len(queue) + lost

\* What p sends next is a frame of a message, or its messages have run out.
AtOK ==
    \A p \in Senders :
        /\ at[p] = Fragment(p, at[p].msg, at[p].idx) /\ at[p].msg \in Nat \ {0}
        /\ at[p].idx \in Nat
        /\ at[p].msg \in DOMAIN Size[p] => at[p].idx < Size[p][at[p].msg]

TypeInv == Typed /\ AtOK

LEMMA TypeFacts ==
    ASSUME Typed
    PROVE  /\ \A n \in Sources : buffers[n] \in BufferType
           /\ buffers \in [Sources -> BufferType]
           /\ queue \in Seq(ReportType) /\ taken \in Seq(ReportType)
           /\ Len(queue) \in Nat /\ Len(taken) \in Nat
           /\ heard \in [Senders -> Nat] /\ run \in [Senders -> Nat]
           /\ newest \in [Senders -> Nat]
           /\ lost \in Nat /\ whole \in Nat
           /\ QueueSize \in Nat \ {0}
           /\ \A p \in Senders : SourceOf[p] \in Sources
<1>1. queue \in Seq(ReportType) /\ taken \in Seq(ReportType)
  BY DEF Typed
<1>2. Len(queue) \in Nat /\ Len(taken) \in Nat
  BY <1>1
<1>3. \A p \in Senders : SourceOf[p] \in Sources
  BY DEF Sources
<1> QED BY <1>2, <1>3, CanReceiverAssumption DEF Typed

LEMMA SentIsSent ==
    ASSUME AtOK, NEW p \in Senders, at[p].msg \in DOMAIN Size[p]
    PROVE  Sent(p, at[p])
<1>1. Size[p][at[p].msg] \in Nat \ {0}
  BY SizeFacts
<1> QED BY <1>1 DEF AtOK, Sent

\* A report goes to the queue, or is counted.
LEMMA EnqueueFacts ==
    ASSUME Typed, NEW r \in ReportType, Enqueue(r)
    PROVE  /\ queue' \in Seq(ReportType) /\ Len(queue') <= QueueSize /\ lost' \in Nat
           /\ Len(queue') + lost' = Len(queue) + lost + 1
           /\ \/ Len(queue) < QueueSize /\ queue' = Append(queue, r) /\ lost' = lost
              \/ Len(queue) >= QueueSize /\ queue' = queue /\ lost' = lost + 1
<1>1. /\ queue \in Seq(ReportType) /\ Len(queue) \in Nat /\ lost \in Nat
      /\ Len(queue) <= QueueSize /\ QueueSize \in Nat
  BY TypeFacts DEF Typed
<1>2. Append(queue, r) \in Seq(ReportType) /\ Len(Append(queue, r)) = Len(queue) + 1
  BY <1>1
<1>3. CASE Len(queue) < QueueSize
  <2>1. queue' = Append(queue, r) /\ lost' = lost
    BY <1>3 DEF Enqueue
  <2>2. queue' \in Seq(ReportType) /\ Len(queue') = Len(queue) + 1
    BY <1>2, <2>1
  <2> QED BY <1>1, <1>3, <2>1, <2>2
<1>4. CASE ~(Len(queue) < QueueSize)
  <2>1. queue' = queue /\ lost' = lost + 1
    BY <1>4 DEF Enqueue
  <2> QED BY <1>1, <1>4, <2>1
<1> QED BY <1>3, <1>4


\* parse_report decides whether there is a report.
LEMMA ReportFacts ==
    ASSUME NEW p \in Senders, NEW f \in Collects, f.src = p, NEW d, Report(f, d)
    PROVE  /\ \/ /\ TRUE \in ParseReport(d)
                 /\ Enqueue([src |-> SourceOf[p], data |-> d])
                 /\ newest' = [newest EXCEPT ![p] = f.msg]
              \/ /\ FALSE \in ParseReport(d)
                 /\ UNCHANGED <<queue, lost, newest>>
           /\ consuming' = consuming \/ consuming' \in BOOLEAN
<1>1. PICK parses \in ParseReport(d) :
         IF parses
         THEN /\ Enqueue([src |-> SourceOf[p], data |-> d])
              /\ newest' = [newest EXCEPT ![p] = f.msg]
              /\ UNCHANGED consuming
         ELSE /\ consuming' \in BOOLEAN
              /\ UNCHANGED <<queue, lost, newest>>
  BY DEF Report
<1>2. parses \in BOOLEAN
  BY <1>1, ParseIsBoolean
<1>3. CASE parses = TRUE
  BY <1>1, <1>3, Zenon
<1>4. CASE parses = FALSE
  BY <1>1, <1>4, Zenon
<1> QED BY <1>2, <1>3, <1>4

\* What HandleMultiFrame makes of the buffer b of p's node: n.
Handled(p, f, b, o, e, n) ==
    /\ buffers' = [buffers EXCEPT ![SourceOf[p]] = n]
    /\ \/ /\ Orphan(b, f) /\ n = Reset(b)
          /\ UNCHANGED <<consuming, queue, lost, newest>>
       \/ /\ ~Orphan(b, f) /\ ~Expected(o, f) /\ n = o
          /\ UNCHANGED <<consuming, queue, lost, newest>>
       \/ /\ ~Orphan(b, f) /\ Expected(o, f) /\ ~IsLast(f) /\ n = e
          /\ UNCHANGED <<consuming, queue, lost, newest>>
       \/ /\ ~Orphan(b, f) /\ Expected(o, f) /\ IsLast(f) /\ n = Reset(e)
          /\ Report(f, e.data)

LEMMA HandledFacts ==
    ASSUME Typed, NEW p \in Senders \ Singles, NEW f, Sent(p, f), HandleMessage(f)
    PROVE  \E b, o, e, n \in BufferType :
              /\ b = buffers[SourceOf[p]] /\ o = Opened(b, f) /\ e = Longer(o, f)
              /\ Handled(p, f, b, o, e, n)
<1>1. f \in Collects /\ f.src = p /\ HandleMultiFrame(f)
  BY SentFacts DEF HandleMessage
<1>2. PICK b \in BufferType : b = buffers[SourceOf[p]]
  BY TypeFacts
<1>3. PICK o \in BufferType : o = Opened(b, f)
  BY OpenedFacts
<1>4. PICK e \in BufferType : e = Longer(o, f)
  BY <1>1, BufferFacts
<1>5. e = [o EXCEPT !.data = Append(@, f), !.expected_seq = @ + 1]
  BY <1>4 DEF Longer
<1>6. Reset(b) \in BufferType /\ Reset(e) \in BufferType
  BY <1>1, BufferFacts
<1>7. \/ /\ Orphan(b, f)
         /\ buffers' = [buffers EXCEPT ![SourceOf[p]] = Reset(b)]
         /\ UNCHANGED <<consuming, queue, lost, newest>>
      \/ /\ ~Orphan(b, f) /\ (~Expected(o, f) \/ ~IsLast(f))
         /\ buffers' = [buffers EXCEPT ![SourceOf[p]] = IF Expected(o, f) THEN e ELSE o]
         /\ UNCHANGED <<consuming, queue, lost, newest>>
      \/ /\ ~Orphan(b, f) /\ Expected(o, f) /\ IsLast(f)
         /\ buffers' = [buffers EXCEPT ![SourceOf[p]] = Reset(e)]
         /\ Report(f, e.data)
  BY <1>1, <1>2, <1>3, <1>5, Zenon DEF HandleMultiFrame
<1>8. \E n \in BufferType : Handled(p, f, b, o, e, n)
  <2>1. CASE Orphan(b, f)
    BY <1>6, <1>7, <2>1 DEF Handled
  <2>2. CASE ~Orphan(b, f) /\ ~Expected(o, f)
    BY <1>7, <2>2 DEF Handled
  <2>3. CASE ~Orphan(b, f) /\ Expected(o, f)
    BY <1>6, <1>7, <2>3 DEF Handled
  <2> QED BY <2>1, <2>2, <2>3
<1> QED BY <1>2, <1>3, <1>4, <1>8

LEMMA SendsKeepsAt ==
    ASSUME Typed, AtOK, NEW p \in Senders, Sends(p)
    PROVE  AtOK' /\ at' \in [Senders -> Collects]
<1>1. Sent(p, at[p])
  BY SentIsSent DEF Sends
<1>2. at \in [Senders -> Collects] /\ at' = [at EXCEPT ![p] = Following(at[p])]
  BY DEF Typed, Sends
<1>3. /\ IsLast(at[p]) => Following(at[p]) = Fragment(p, at[p].msg + 1, 0)
      /\ ~IsLast(at[p]) => /\ Following(at[p]) = Fragment(p, at[p].msg, at[p].idx + 1)
                           /\ at[p].idx + 1 < Size[p][at[p].msg]
      /\ Following(at[p]) \in Collects
  BY <1>1, FollowingFacts
<1>4. at' \in [Senders -> Collects]
  BY <1>2, <1>3 
<1>5. AtOK'
  <2> SUFFICES ASSUME NEW q \in Senders
               PROVE  /\ at'[q] = Fragment(q, at'[q].msg, at'[q].idx) /\ at'[q].msg \in Nat \ {0}
                      /\ at'[q].idx \in Nat
                      /\ at'[q].msg \in DOMAIN Size[q] => at'[q].idx < Size[q][at'[q].msg]
    BY DEF AtOK
  <2>1. CASE q # p
    BY <1>2, <2>1 DEF AtOK
  <2>2. CASE q = p /\ IsLast(at[p])
    <3>1. at'[p] = Fragment(p, at[p].msg + 1, 0) /\ at[p].msg \in Nat
      BY <1>2, <1>3, <2>2 DEF AtOK
    <3>2. at'[p].msg = at[p].msg + 1 /\ at'[p].idx = 0
      BY <3>1 DEF Fragment
    <3>3. at'[p].msg \in DOMAIN Size[p] => Size[p][at'[p].msg] \in Nat \ {0}
      BY SizeFacts
    <3> QED BY <2>2, <3>1, <3>2, <3>3
  <2>3. CASE q = p /\ ~IsLast(at[p])
    <3>1. at'[p] = Fragment(p, at[p].msg, at[p].idx + 1)
          /\ at[p].msg \in Nat \ {0} /\ at[p].idx \in Nat
      BY <1>2, <1>3, <2>3 DEF AtOK
    <3>2. at'[p].msg = at[p].msg /\ at'[p].idx = at[p].idx + 1
      BY <3>1 DEF Fragment
    <3> QED BY <1>3, <2>3, <3>1, <3>2
  <2> QED BY <2>1, <2>2, <2>3
<1> QED BY <1>4, <1>5


\* A frame leaves the types, whoever it is from.
LEMMA ArrivalKeepsTypes ==
    ASSUME Typed, AtOK, NEW p \in Senders, Arrive(p)
    PROVE  Typed' /\ AtOK'
<1> DEFINE f == at[p]
           row == InARow(f, heard[p], run[p])
<1>1. /\ Sent(p, f) /\ HandleMessage(f) /\ Note(f) /\ UNCHANGED <<open, starts>>
      /\ AtOK' /\ at' \in [Senders -> Collects]
  BY SentIsSent, SendsKeepsAt DEF Arrive, Sends
<1> HIDE DEF f
<1>2. f \in Collects /\ f.src = p /\ f.msg \in Nat /\ f.idx \in Nat
  BY <1>1, SentFacts
<1>3. /\ buffers \in [Sources -> BufferType] /\ queue \in Seq(ReportType)
      /\ Len(queue) <= QueueSize /\ lost \in Nat /\ SourceOf[p] \in Sources
      /\ newest \in [Senders -> Nat] /\ heard \in [Senders -> Nat]
      /\ run \in [Senders -> Nat] /\ whole \in Nat /\ consuming \in BOOLEAN
  BY TypeFacts DEF Typed
<1>4. row \in Nat
  <2>1. row \in {0, 1, f.idx + 1}
    BY DEF InARow
  <2> QED BY <1>2, <2>1
<1>5. /\ heard' = [heard EXCEPT ![p] = f.msg] /\ run' = [run EXCEPT ![p] = row]
      /\ whole' \in {whole, whole + 1} /\ taken' = taken
  BY <1>1, <1>2 DEF Note
<1> HIDE DEF row
<1>6. heard' \in [Senders -> Nat] /\ run' \in [Senders -> Nat] /\ whole' \in Nat
  BY <1>2, <1>3, <1>4, <1>5
<1>7. ASSUME NEW d \in Seq(Collects), Report(f, d)
      PROVE  /\ queue' \in Seq(ReportType) /\ Len(queue') <= QueueSize /\ lost' \in Nat
             /\ newest' \in [Senders -> Nat]
             /\ consuming' = consuming \/ consuming' \in BOOLEAN
  <2>1. [src |-> SourceOf[p], data |-> d] \in ReportType
    BY <1>3, <1>7 DEF ReportType
  <2>2. CASE /\ Enqueue([src |-> SourceOf[p], data |-> d])
             /\ newest' = [newest EXCEPT ![p] = f.msg]
    <3>1. queue' \in Seq(ReportType) /\ Len(queue') <= QueueSize /\ lost' \in Nat
      BY <2>1, <2>2, EnqueueFacts
    <3>2. newest' \in [Senders -> Nat]
      BY <1>2, <1>3, <2>2
    <3>3. consuming' = consuming \/ consuming' \in BOOLEAN
      BY <1>2, <1>7, ReportFacts
    <3> QED BY <3>1, <3>2, <3>3
  <2>3. consuming' = consuming \/ consuming' \in BOOLEAN
    BY <1>2, <1>7, ReportFacts
  <2>4. CASE UNCHANGED <<queue, lost, newest>>
    BY <1>3, <2>3, <2>4
  <2>5. \/ /\ Enqueue([src |-> SourceOf[p], data |-> d])
           /\ newest' = [newest EXCEPT ![p] = f.msg]
        \/ UNCHANGED <<queue, lost, newest>>
    BY <1>2, <1>7, ReportFacts
  <2> QED BY <2>2, <2>4, <2>5
<1>8. /\ consuming' \in BOOLEAN
      /\ queue' \in Seq(ReportType) /\ Len(queue') <= QueueSize /\ lost' \in Nat
      /\ newest' \in [Senders -> Nat] /\ buffers' \in [Sources -> BufferType]
  <2>1. CASE p \in Singles
    <3>1. Report(f, <<f>>) /\ buffers' = buffers
      BY <1>1, <1>2, <2>1 DEF HandleMessage
    <3>2. <<f>> \in Seq(Collects)
      BY <1>2
    <3>3. consuming' = consuming \/ consuming' \in BOOLEAN
      BY <1>7, <3>1, <3>2
    <3>4. consuming' \in BOOLEAN
      BY <1>3, <3>3
    <3> QED BY <1>3, <1>7, <3>1, <3>2, <3>4
  <2>2. CASE p \notin Singles
    <3>1. PICK b, o, e, n \in BufferType : Handled(p, f, b, o, e, n)
      BY <1>1, <2>2, HandledFacts
    <3>2. buffers' \in [Sources -> BufferType]
      BY <1>3, <3>1 DEF Handled
    <3>3. CASE UNCHANGED <<consuming, queue, lost, newest>>
      BY <1>3, <3>2, <3>3
    <3>4. CASE Report(f, e.data)
      <4>1. e.data \in Seq(Collects)
        BY DEF BufferType
      <4>2. consuming' = consuming \/ consuming' \in BOOLEAN
        BY <1>7, <3>4, <4>1
      <4>3. consuming' \in BOOLEAN
        BY <1>3, <4>2
      <4> QED BY <1>7, <3>2, <3>4, <4>1, <4>3
    <3> QED BY <3>1, <3>3, <3>4 DEF Handled
  <2> QED BY <2>1, <2>2
<1> QED BY <1>1, <1>5, <1>6, <1>8 DEF Typed

LEMMA TypeInvInductive == TypeInv /\ [Next]_vars => TypeInv'
<1> SUFFICES ASSUME TypeInv, [Next]_vars PROVE TypeInv'
  OBVIOUS
<1>1. Typed /\ AtOK
  BY DEF TypeInv
<1>2. ASSUME NEW p \in Senders, Arrive(p) PROVE TypeInv'
  BY <1>1, <1>2, ArrivalKeepsTypes DEF TypeInv
<1>3. ASSUME NEW p \in Senders, Miss(p) PROVE TypeInv'
  <2>1. AtOK' /\ at' \in [Senders -> Collects]
    BY <1>1, <1>3, SendsKeepsAt DEF Miss
  <2>2. UNCHANGED <<receiver, starts, history>>
    BY <1>3 DEF Miss
  <2> QED BY <1>1, <2>1, <2>2 DEF TypeInv, Typed, receiver, history
<1>4. CASE start
  <2>1. starts' \in 0..MaxStarts /\ open' \in BOOLEAN /\ consuming' \in BOOLEAN
        /\ UNCHANGED <<buffers, queue, at, history>>
    BY <1>1, <1>4, CanReceiverAssumption DEF start, Typed
  <2> QED BY <1>1, <2>1 DEF TypeInv, Typed, AtOK, history
<1>5. CASE close
  BY <1>1, <1>5 DEF TypeInv, Typed, AtOK, close, bus, history
<1>6. CASE anext
  <2>1. /\ queue # <<>> /\ queue' = Tail(queue) /\ taken' = Append(taken, Head(queue))
        /\ UNCHANGED <<open, consuming, buffers, bus, lost, heard, run, whole, newest>>
    BY <1>6 DEF anext
  <2>2. /\ queue' \in Seq(ReportType) /\ taken' \in Seq(ReportType)
        /\ Len(queue') = Len(queue) - 1 /\ Len(queue) \in Nat /\ Len(queue) <= QueueSize
    BY <1>1, <2>1, TypeFacts DEF Typed
  <2>3. Typed'
    BY <1>1, <2>1, <2>2, CanReceiverAssumption DEF Typed, bus
  <2> QED BY <1>1, <2>1, <2>3 DEF TypeInv, AtOK, bus
<1>7. CASE Terminates
  BY <1>1, <1>7 DEF TypeInv, Typed, AtOK, Terminates, bus, history
<1>8. CASE UNCHANGED vars
  BY <1>1, <1>8 DEF TypeInv, Typed, AtOK, vars, receiver, bus, history
<1> QED BY <1>2, <1>3, <1>4, <1>5, <1>6, <1>7, <1>8 DEF Next

LEMMA TypeInvInit == Init => TypeInv
<1> SUFFICES ASSUME Init PROVE TypeInv
  OBVIOUS
<1>1. Typed
  <2>1. buffers \in [Sources -> BufferType]
    BY FreshFacts DEF Init
  <2>2. at \in [Senders -> Collects]
    <3>1. \A p \in Senders : Fragment(p, 1, 0) \in Collects
      BY DEF Fragment, Collects
    <3> QED BY <3>1 DEF Init
  <2>3. queue \in Seq(ReportType) /\ Len(queue) <= QueueSize /\ taken \in Seq(ReportType)
    <3>1. <<>> \in Seq(ReportType) /\ Len(<<>>) = 0
      OBVIOUS
    <3> QED BY <3>1, CanReceiverAssumption DEF Init
  <2>4. starts \in 0..MaxStarts
    BY CanReceiverAssumption DEF Init
  <2>5. /\ heard \in [Senders -> Nat] /\ run \in [Senders -> Nat]
        /\ newest \in [Senders -> Nat]
    BY DEF Init
  <2>6. open \in BOOLEAN /\ consuming \in BOOLEAN /\ lost \in Nat /\ whole \in Nat
    BY DEF Init
  <2> QED BY <2>1, <2>2, <2>3, <2>4, <2>5, <2>6 DEF Typed
<1>2. AtOK
  <2> SUFFICES ASSUME NEW p \in Senders
               PROVE  /\ at[p] = Fragment(p, at[p].msg, at[p].idx) /\ at[p].msg \in Nat \ {0}
                      /\ at[p].idx \in Nat
                      /\ at[p].msg \in DOMAIN Size[p] => at[p].idx < Size[p][at[p].msg]
    BY DEF AtOK
  <2>1. at[p] = Fragment(p, 1, 0) /\ at[p].msg = 1 /\ at[p].idx = 0
    BY DEF Init, Fragment
  <2>2. at[p].msg \in DOMAIN Size[p] => Size[p][at[p].msg] \in Nat \ {0}
    BY SizeFacts
  <2> QED BY <2>1, <2>2
<1> QED BY <1>1, <1>2 DEF TypeInv

\* Every variable has its type and the queue is bounded, for any streams on any
\* nodes and whatever is missed.
THEOREM CanTypeCorrect == Spec => []TypeOK
<1>1. TypeInv => TypeOK
  <2>1. Collected = Collects
    BY DEF Collected, Collects
  <2> QED BY <2>1 DEF TypeInv, Typed, TypeOK, BufferType, ReportType
<1> QED BY <1>1, TypeInvInit, TypeInvInductive, PTL DEF Spec

(***************************************************************************)
(* Rows.  A node sends the frames of one multi-frame report after those of *)
(* the other; only then does the buffer of a node belong to a stream.      *)
(***************************************************************************)
OneStreamPerNode ==
    \A p, q \in Senders \ Singles : SourceOf[p] = SourceOf[q] => p = q

\* The buffer of p's node holds the row that the bystander has noted.
RowsOK == \A p \in Senders \ Singles : RowIsHeld(buffers[SourceOf[p]], p, heard[p], run[p])

RowInv == Typed /\ AtOK /\ RowsOK /\ NothingLost

\* The report that p's message m makes.
WholeReport(p, m) == [src |-> SourceOf[p], data |-> FirstOf(p, m, Size[p][m])]

LEMMA WholeFacts ==
    ASSUME NEW p \in Senders, NEW m \in DOMAIN Size[p]
    PROVE  /\ WholeReport(p, m) \in ReportType
           /\ WholeReport(p, m).data[1].src = p /\ WholeReport(p, m).data[1].msg = m
           /\ IsWhole(WholeReport(p, m).data)
           /\ ParseReport(FirstOf(p, m, Size[p][m])) = {<<p, m>> \notin Garbage}
<1>1. Size[p][m] \in Nat \ {0} /\ m \in Nat /\ SourceOf[p] \in Sources
  BY SizeFacts DEF Sources
<1>2. Size[p][m] \in 1..Size[p][m]
  BY <1>1
<1>3. IsWhole(FirstOf(p, m, Size[p][m])) /\ FirstOf(p, m, Size[p][m])[1] = Fragment(p, m, 0)
  BY <1>2, ParseFacts
<1>4. FirstOf(p, m, Size[p][m]) \in Seq(Collects)
  BY <1>1, FirstOfFacts
<1>5. ParseReport(FirstOf(p, m, Size[p][m])) = {<<p, m>> \notin Garbage}
  BY <1>2, ParseFacts
<1> QED BY <1>1, <1>3, <1>4, <1>5 DEF WholeReport, ReportType, Fragment

\* A single-frame report is whole.
LEMMA SingleFacts ==
    ASSUME NEW p \in Singles, NEW f, Sent(p, f), NEW h, NEW r, p \in Senders
    PROVE  /\ Size[p][f.msg] = 1 /\ <<f>> = FirstOf(p, f.msg, Size[p][f.msg])
           /\ IsLast(f) /\ InARow(f, h, r) = 1
<1>1. /\ f.msg \in DOMAIN Size[p] /\ f.msg \in Nat /\ f.idx \in Nat
      /\ f.idx < Size[p][f.msg] /\ Size[p][f.msg] \in Nat
      /\ f = Fragment(p, f.msg, f.idx)
      /\ IsFirst(f) <=> f.idx = 0
      /\ IsLast(f) <=> f.idx + 1 = Size[p][f.msg]
  BY SentFacts
<1>2. Size[p][f.msg] = 1
  BY <1>1, CanReceiverAssumption
<1>3. f.idx = 0 /\ f = Fragment(p, f.msg, 0)
  BY <1>1, <1>2
<1>4. FirstOf(p, f.msg, 1) = <<f>>
  <2>1. 0 \in Nat /\ f.msg \in Nat
    BY <1>1
  <2>2. /\ FirstOf(p, f.msg, 0) = <<>>
        /\ Append(FirstOf(p, f.msg, 0), Fragment(p, f.msg, 0)) = FirstOf(p, f.msg, 0 + 1)
    BY <2>1, FirstOfFacts
  <2>3. FirstOf(p, f.msg, 1) = Append(<<>>, f)
    <3>1. 0 + 1 = 1
      OBVIOUS
    <3> QED BY <1>3, <2>2, <3>1, Zenon
  <2>4. Append(<<>>, f) = <<f>>
    OBVIOUS
  <2> QED BY <2>3, <2>4, Zenon
<1>5. InARow(f, h, r) = 1
  BY <1>1, <1>3 DEF InARow
<1> QED BY <1>1, <1>2, <1>3, <1>4, <1>5

\* A message whose frames came in a row makes its report.
LEMMA ArrivalKeepsRows ==
    ASSUME OneStreamPerNode, RowInv, NEW p \in Senders, Arrive(p)
    PROVE  /\ RowsOK'
           /\ \/ \E d \in Seq(Collects) : Enqueue([src |-> SourceOf[p], data |-> d])
              \/ UNCHANGED <<queue, lost, whole>>
           /\ whole' \in {whole, whole + 1} /\ taken' = taken
<1> DEFINE f == at[p]
           row == InARow(f, heard[p], run[p])
           done == row = Size[p][f.msg] /\ <<p, f.msg>> \notin Garbage
<1>1. Typed /\ AtOK /\ RowsOK /\ heard[p] \in Nat /\ run[p] \in Nat
  BY TypeFacts DEF RowInv
<1>2. Sent(p, f) /\ HandleMessage(f) /\ Note(f)
  BY <1>1, SentIsSent DEF Arrive, Sends
<1> HIDE DEF f
<1>3. /\ f.src = p /\ f.msg \in DOMAIN Size[p] /\ f.msg \in Nat /\ f \in Collects
      /\ f.idx \in Nat /\ f.idx < Size[p][f.msg] /\ Size[p][f.msg] \in Nat \ {0}
      /\ IsLast(f) <=> f.idx + 1 = Size[p][f.msg]
  BY <1>2, SentFacts
<1>4. /\ heard' = [heard EXCEPT ![p] = f.msg] /\ run' = [run EXCEPT ![p] = row]
      /\ whole' = IF done THEN whole + 1 ELSE whole
      /\ taken' = taken
  BY <1>2, <1>3 DEF Note
<1>5. /\ buffers \in [Sources -> BufferType] /\ heard \in [Senders -> Nat]
      /\ run \in [Senders -> Nat] /\ SourceOf[p] \in Sources
  BY <1>1, TypeFacts
<1> HIDE DEF row, done
<1>6. CASE p \in Singles
  <2>1. Report(f, <<f>>) /\ buffers' = buffers
    BY <1>2, <1>3, <1>6 DEF HandleMessage
  <2>2. RowsOK'
    <3> SUFFICES ASSUME NEW q \in Senders \ Singles
                 PROVE  RowIsHeld(buffers'[SourceOf[q]], q, heard'[q], run'[q])
      BY DEF RowsOK
    <3>1. heard'[q] = heard[q] /\ run'[q] = run[q]
      BY <1>4, <1>5, <1>6
    <3> QED BY <1>1, <2>1, <3>1 DEF RowsOK
  <2>3. ParseReport(<<f>>) = {<<p, f.msg>> \notin Garbage}
    <3>1. <<f>> = FirstOf(p, f.msg, Size[p][f.msg])
      BY <1>2, <1>6, SingleFacts
    <3>2. ParseReport(FirstOf(p, f.msg, Size[p][f.msg])) = {<<p, f.msg>> \notin Garbage}
      BY <1>3, WholeFacts
    <3> QED BY <3>1, <3>2
  <2>4. <<f>> \in Seq(Collects)
    BY <1>3
  <2>5. CASE <<p, f.msg>> \in Garbage
    <3>1. UNCHANGED <<queue, lost>>
      BY <1>3, <2>1, <2>3, <2>5, ReportFacts
    <3> QED BY <1>4, <2>2, <2>5, <3>1 DEF done
  <2>6. CASE <<p, f.msg>> \notin Garbage
    <3>1. Enqueue([src |-> SourceOf[p], data |-> <<f>>])
      BY <1>3, <2>1, <2>3, <2>6, ReportFacts
    <3> QED BY <1>4, <2>2, <2>4, <3>1
  <2> QED BY <2>5, <2>6
<1>7. CASE p \notin Singles
  <2>1. PICK b, o, e, n \in BufferType :
           /\ b = buffers[SourceOf[p]] /\ o = Opened(b, f) /\ e = Longer(o, f)
           /\ Handled(p, f, b, o, e, n)
    BY <1>1, <1>2, <1>7, HandledFacts
  <2>2. RowIsHeld(b, p, heard[p], run[p])
    BY <1>1, <1>7, <2>1 DEF RowsOK
  <2>3. /\ row \in {0, f.idx + 1}
        /\ row > 0 => IsFirst(f) \/ (heard[p] = f.msg /\ run[p] = f.idx /\ Holds(b, p, f.msg, f.idx))
        /\ row = Size[p][f.msg] => row > 0 /\ IsLast(f)
        /\ row <= Size[p][f.msg]
    BY <1>1, <1>2, <2>1, <2>2, RowFacts DEF row
  <2>4. row > 0 => /\ ~Orphan(b, f) /\ Expected(o, f)
                   /\ Holds(e, p, f.msg, f.idx + 1) /\ row = f.idx + 1
    <3> SUFFICES ASSUME row > 0
                 PROVE  /\ ~Orphan(b, f) /\ Expected(o, f)
                        /\ Holds(e, p, f.msg, f.idx + 1) /\ row = f.idx + 1
      OBVIOUS
    <3>1. IsFirst(f) \/ Holds(b, p, f.msg, f.idx)
      BY <2>3
    <3> QED BY <1>2, <2>1, <2>3, <3>1, RowIsKept
  <2>5. buffers' = [buffers EXCEPT ![SourceOf[p]] = n]
    BY <2>1 DEF Handled
  <2>6. RowsOK'
    <3> SUFFICES ASSUME NEW q \in Senders \ Singles
                 PROVE  RowIsHeld(buffers'[SourceOf[q]], q, heard'[q], run'[q])
      BY DEF RowsOK
    <3>1. CASE q # p
      <4>1. SourceOf[q] # SourceOf[p]
        BY <1>7, <3>1 DEF OneStreamPerNode
      <4>2. buffers'[SourceOf[q]] = buffers[SourceOf[q]] /\ heard'[q] = heard[q] /\ run'[q] = run[q]
        BY <1>4, <1>5, <2>5, <3>1, <4>1, TypeFacts
      <4> QED BY <1>1, <4>2 DEF RowsOK
    <3>2. CASE q = p
      <4>1. buffers'[SourceOf[p]] = n /\ heard'[p] = f.msg /\ run'[p] = row
        BY <1>4, <1>5, <2>5
      <4>2. row > 0 /\ row < Size[p][f.msg] => Holds(n, p, f.msg, row)
        <5> SUFFICES ASSUME row > 0, row < Size[p][f.msg] PROVE Holds(n, p, f.msg, row)
          OBVIOUS
        <5>1. /\ ~IsLast(f) /\ ~Orphan(b, f) /\ Expected(o, f)
              /\ Holds(e, p, f.msg, row)
          BY <1>3, <2>4
        <5>2. n = e
          BY <2>1, <5>1 DEF Handled
        <5> QED BY <5>1, <5>2
      <4> QED BY <1>3, <2>3, <3>2, <4>1, <4>2 DEF RowIsHeld
    <3> QED BY <3>1, <3>2
  <2>7. CASE done
    <3>1. /\ IsLast(f) /\ ~Orphan(b, f) /\ Expected(o, f)
          /\ e.data = FirstOf(p, f.msg, Size[p][f.msg])
      BY <1>3, <2>3, <2>4, <2>7 DEF Holds, done
    <3>2. ParseReport(e.data) = {TRUE}
      <4>1. ParseReport(FirstOf(p, f.msg, Size[p][f.msg])) = {<<p, f.msg>> \notin Garbage}
        BY <1>3, WholeFacts
      <4> QED BY <2>7, <3>1, <4>1 DEF done
    <3>3. Report(f, e.data)
      BY <2>1, <3>1 DEF Handled
    <3>4. Enqueue([src |-> SourceOf[p], data |-> e.data])
      BY <1>3, <3>2, <3>3, ReportFacts
    <3>5. e.data \in Seq(Collects)
      BY DEF BufferType
    <3> QED BY <1>4, <2>6, <3>4, <3>5
  <2>8. CASE ~done
    <3>1. whole' = whole
      BY <1>4, <2>8
    <3>2. CASE Report(f, e.data)
      <4>1. e.data \in Seq(Collects)
        BY DEF BufferType
      <4>2. \/ Enqueue([src |-> SourceOf[p], data |-> e.data])
            \/ UNCHANGED <<queue, lost>>
        BY <1>3, <3>2, ReportFacts
      <4> QED BY <1>4, <2>6, <3>1, <4>1, <4>2
    <3>3. CASE UNCHANGED <<consuming, queue, lost, newest>>
      BY <1>4, <2>6, <3>1, <3>3
    <3> QED BY <2>1, <3>2, <3>3 DEF Handled
  <2> QED BY <2>7, <2>8
<1> QED BY <1>6, <1>7

LEMMA RowInvInductive == OneStreamPerNode /\ RowInv /\ [Next]_vars => RowInv'
<1> SUFFICES ASSUME OneStreamPerNode, RowInv, [Next]_vars PROVE RowInv'
  OBVIOUS
<1>1. Typed /\ AtOK /\ RowsOK /\ NothingLost /\ Typed' /\ AtOK'
  BY TypeInvInductive DEF RowInv, TypeInv
<1>2. /\ Len(queue) \in Nat /\ Len(taken) \in Nat /\ lost \in Nat /\ whole \in Nat
      /\ queue \in Seq(ReportType) /\ taken \in Seq(ReportType)
      /\ whole <= Count
  BY <1>1, TypeFacts DEF NothingLost, Count
<1>3. ASSUME NEW p \in Senders, Arrive(p) PROVE RowInv'
  <2>1. /\ RowsOK'
        /\ \/ \E d \in Seq(Collects) : Enqueue([src |-> SourceOf[p], data |-> d])
           \/ UNCHANGED <<queue, lost, whole>>
        /\ whole' \in {whole, whole + 1} /\ taken' = taken
    BY <1>3, ArrivalKeepsRows
  <2>2. ASSUME NEW r \in ReportType, Enqueue(r) PROVE whole' <= Count'
    <3>1. Len(queue') + lost' = Len(queue) + lost + 1 /\ Len(queue') \in Nat /\ lost' \in Nat
      <4>1. /\ Len(queue') + lost' = Len(queue) + lost + 1
            /\ queue' \in Seq(ReportType) /\ lost' \in Nat
        BY <1>1, <2>2, EnqueueFacts
      <4> QED BY <4>1
    <3>2. Count' = Len(taken) + Len(queue') + lost'
      BY <2>1 DEF Count
    <3>3. Count' = Count + 1 /\ Count \in Nat
      <4>1. /\ Len(taken) + Len(queue') + lost' = Len(taken) + Len(queue) + lost + 1
            /\ Len(taken) + Len(queue) + lost \in Nat
        BY <1>2, <3>1
      <4> QED BY <3>2, <4>1 DEF Count
    <3> QED BY <1>2, <2>1, <3>3
  <2>3. whole' <= Count'
    <3>1. CASE \E d \in Seq(Collects) : Enqueue([src |-> SourceOf[p], data |-> d])
      <4>1. PICK d \in Seq(Collects) : Enqueue([src |-> SourceOf[p], data |-> d])
        BY <3>1
      <4>2. [src |-> SourceOf[p], data |-> d] \in ReportType
        BY DEF ReportType, Sources
      <4> QED BY <2>2, <4>1, <4>2
    <3>2. CASE UNCHANGED <<queue, lost, whole>>
      <4>1. Count' = Count
        BY <2>1, <3>2 DEF Count
      <4> QED BY <1>2, <3>2, <4>1
    <3> QED BY <2>1, <3>1, <3>2
  <2> QED BY <1>1, <2>1, <2>3 DEF RowInv, NothingLost, Count
<1>4. ASSUME NEW p \in Senders, Miss(p) PROVE RowInv'
  <2>1. UNCHANGED <<receiver, history>>
    BY <1>4 DEF Miss
  <2> QED BY <1>1, <2>1 DEF RowInv, RowsOK, NothingLost, receiver, history
<1>5. CASE start
  BY <1>1, <1>5 DEF RowInv, RowsOK, NothingLost, start, history
<1>6. CASE close
  BY <1>1, <1>6 DEF RowInv, RowsOK, NothingLost, close, history
<1>7. CASE anext
  <2>1. /\ queue # <<>> /\ queue' = Tail(queue) /\ taken' = Append(taken, Head(queue))
        /\ UNCHANGED <<open, consuming, buffers, bus, lost, heard, run, whole, newest>>
    BY <1>7 DEF anext
  <2>2. Len(taken') = Len(taken) + 1 /\ Len(queue') = Len(queue) - 1
    BY <1>2, <2>1
  <2>3. NothingLost'
    BY <1>1, <1>2, <2>1, <2>2 DEF NothingLost
  <2> QED BY <1>1, <2>1, <2>3 DEF RowInv, RowsOK
<1>8. CASE Terminates
  BY <1>1, <1>8 DEF RowInv, RowsOK, NothingLost, Terminates, history
<1>9. CASE UNCHANGED vars
  BY <1>1, <1>9 DEF RowInv, RowsOK, NothingLost, vars, receiver, history
<1> QED BY <1>3, <1>4, <1>5, <1>6, <1>7, <1>8, <1>9 DEF Next

LEMMA RowInvInit == Init => RowInv
<1> SUFFICES ASSUME Init PROVE RowInv
  OBVIOUS
<1>1. Typed /\ AtOK
  BY TypeInvInit DEF TypeInv
<1>2. RowsOK /\ NothingLost
  BY DEF Init, RowsOK, RowIsHeld, NothingLost
<1> QED BY <1>1, <1>2 DEF RowInv

\* A report whose frames arrived in a row is yielded, waits or was dropped on a
\* full queue, whatever is missed and with any number of restarts: if a node
\* does not send the frames of two multi-frame reports in turns.
THEOREM CanNothingLost == ASSUME OneStreamPerNode PROVE Spec => []NothingLost
<1>1. RowInv /\ [Next]_vars => RowInv'
  BY RowInvInductive
<1>2. RowInv => NothingLost
  BY DEF RowInv
<1> QED BY <1>1, <1>2, RowInvInit, PTL DEF Spec

(***************************************************************************)
(* Holes.  What a buffer holds, whatever was missed: frames in the order   *)
(* in which they were sent, whose numbers continue each other.             *)
(***************************************************************************)
\* f was sent before g, of the same stream.
Before(f, g) == f.msg < g.msg \/ (f.msg = g.msg /\ f.idx < g.idx)

\* What NoNarrowHole says of neighbours in a report.
Meets(f, g) == f.src = g.src => (g = Following(f) /\ ~IsLast(f)) \/ CameRound(f, g)

NoHole(d) == \A i \in 1..(Len(d) - 1) : Meets(d[i], d[i + 1])

\* What a report of NoNarrowHole is.
Bounded(d) == d # <<>> /\ IsFirst(Head(d)) /\ IsLast(Last(d)) /\ NoHole(d)

\* The buffer expects the number of its next frame, and its frames were sent before
\* what the streams send next: a.
Continues(b, a) ==
    /\ b.data # <<>> /\ IsFirst(Head(b.data)) /\ NoHole(b.data)
    /\ b.expected_seq = Len(b.data)
    /\ \A i \in 1..Len(b.data) : /\ SeqNum(b.data[i]) = (i - 1) % SeqNums
                                 /\ MsgNum(b.data[i]) = b.message_number
                                 /\ Before(b.data[i], a[b.data[i].src])

HoleInv ==
    /\ TypeInv
    /\ \A n \in Sources : buffers[n].started => Continues(buffers[n], at)
    /\ \A p \in Senders : newest[p] < at[p].msg
    /\ \A r \in Reports : Bounded(r.data)

\* Numbers that continue each other are in order, or have come round.
LEMMA NextNumber ==
    ASSUME NEW a \in Nat, NEW c \in Nat, NEW n \in Nat, NEW k \in Nat \ {0},
           a % k = n % k, c % k = (n + 1) % k, a < c
    PROVE  c = a + 1 \/ c > a + k
<1> SUFFICES ASSUME a + 1 < c, c <= a + k PROVE FALSE
  OBVIOUS
<1> DEFINE x == (c \div k) - ((n + 1) \div k)
           y == (n \div k) - (a \div k)
<1>1. /\ a = k * (a \div k) + (a % k) /\ a \div k \in Int /\ a % k \in Int
      /\ n = k * (n \div k) + (n % k) /\ n \div k \in Int
  BY Division
<1>2. /\ c = k * (c \div k) + (c % k) /\ c \div k \in Int /\ c % k \in Int
      /\ n + 1 \in Nat
  BY Division
<1>3. n + 1 = k * ((n + 1) \div k) + ((n + 1) % k) /\ (n + 1) \div k \in Int
  BY <1>2, Division
<1>4. n - a = k * (n \div k) - k * (a \div k)
  BY <1>1
<1>5. c - (n + 1) = k * (c \div k) - k * ((n + 1) \div k)
  BY <1>2, <1>3
<1>6. x \in Int /\ y \in Int
  BY <1>1, <1>2, <1>3
<1>7. k * (n \div k) - k * (a \div k) = k * y
  BY <1>1
<1>8. k * (c \div k) - k * ((n + 1) \div k) = k * x
  BY <1>2, <1>3
<1> HIDE DEF x, y
<1>9. c - (a + 1) = k * x + k * y
  BY <1>4, <1>5, <1>7, <1>8
<1>10. k * x + k * y = k * (x + y) /\ x + y \in Int
  BY <1>6
<1>11. 0 < c - (a + 1) /\ c - (a + 1) < k
  OBVIOUS
<1> QED BY <1>9, <1>10, <1>11, NoSmallMultiple

\* A frame that the buffer expects meets the last one that it holds.
LEMMA ExpectedMeets ==
    ASSUME NEW p \in Senders, NEW f, Sent(p, f), NEW g \in Collects, g.src = p,
           Before(g, f), MsgNum(g) = MsgNum(f),
           NEW n \in Nat, SeqNum(g) = n % SeqNums, SeqNum(f) = (n + 1) % SeqNums
    PROVE  Meets(g, f)
<1>1. /\ f \in Collects /\ f.src = p /\ f.msg \in Nat /\ f.idx \in Nat
      /\ f.idx < Size[p][f.msg] /\ Size[p][f.msg] \in Nat
      /\ f = Fragment(p, f.msg, f.idx)
  BY SentFacts
<1>2. /\ g.msg \in Nat /\ g.idx \in Nat /\ g = Fragment(p, g.msg, g.idx)
      /\ SeqNums \in Nat \ {0} /\ MsgNums \in Nat \ {0}
  BY FragmentsAssumption DEF Collects, Fragment
<1>3. CASE g.msg < f.msg
  <2>1. g.msg % MsgNums = f.msg % MsgNums
    BY DEF MsgNum
  <2>2. ~(f.msg < g.msg + MsgNums)
    BY <1>1, <1>2, <1>3, <2>1, ModApart
  <2>3. f.msg >= g.msg + MsgNums
    BY <1>1, <1>2, <2>2
  <2> QED BY <2>3 DEF Meets, CameRound
<1>4. CASE g.msg = f.msg /\ g.idx < f.idx
  <2>1. g.idx % SeqNums = n % SeqNums /\ f.idx % SeqNums = (n + 1) % SeqNums
    BY DEF SeqNum
  <2>2. f.idx = g.idx + 1 \/ f.idx > g.idx + SeqNums
    BY <1>1, <1>2, <1>4, <2>1, NextNumber
  <2>3. CASE f.idx > g.idx + SeqNums
    BY <1>4, <2>3 DEF Meets, CameRound
  <2>4. CASE f.idx = g.idx + 1
    <3>1. ~IsLast(g)
      BY <1>1, <1>2, <1>4, <2>4 DEF IsLast
    <3>2. Sent(p, g)
      BY <1>1, <1>2, <1>4, SentFacts DEF Sent
    <3>3. Following(g) = Fragment(p, g.msg, g.idx + 1)
      BY <3>1, <3>2, FollowingFacts
    <3>4. f = Following(g)
      BY <1>1, <1>4, <2>4, <3>3
    <3> QED BY <3>1, <3>4 DEF Meets
  <2> QED BY <2>2, <2>3, <2>4
<1> QED BY <1>3, <1>4 DEF Before

\* What p sends after f comes after f, and after what came before it.
LEMMA FollowingIsLater ==
    ASSUME NEW p \in Senders, NEW f, Sent(p, f)
    PROVE  /\ Before(f, Following(f)) /\ Following(f).msg >= f.msg
           /\ \A g \in Collects : Before(g, f) => Before(g, Following(f))
           /\ IsLast(f) => f.msg < Following(f).msg
<1>1. f.msg \in Nat /\ f.idx \in Nat
  BY SentFacts
<1>2. \/ Following(f).msg = f.msg + 1 /\ Following(f).idx = 0
      \/ ~IsLast(f) /\ Following(f).msg = f.msg /\ Following(f).idx = f.idx + 1
  <2>1. /\ IsLast(f) => Following(f) = Fragment(p, f.msg + 1, 0)
        /\ ~IsLast(f) => Following(f) = Fragment(p, f.msg, f.idx + 1)
    BY FollowingFacts
  <2> QED BY <2>1 DEF Fragment
<1>3. \A g \in Collects : g.msg \in Nat /\ g.idx \in Nat
  BY DEF Collects
<1> QED BY <1>1, <1>2, <1>3 DEF Before

\* A buffer that the stream's next frame does not touch stays what it is.
LEMMA SendingContinues ==
    ASSUME TypeInv, NEW p \in Senders, Sends(p), NEW b \in BufferType, Continues(b, at)
    PROVE  Continues(b, at')
<1>1. /\ Sent(p, at[p]) /\ at \in [Senders -> Collects]
      /\ at' = [at EXCEPT ![p] = Following(at[p])]
  BY SentIsSent DEF TypeInv, Typed, Sends
<1>2. ASSUME NEW i \in 1..Len(b.data) PROVE Before(b.data[i], at'[b.data[i].src])
  <2>1. b.data[i] \in Collects /\ b.data[i].src \in Senders
    <3>1. b.data \in Seq(Collects)
      BY DEF BufferType
    <3>2. b.data[i] \in Collects
      BY <3>1
    <3> QED BY <3>2 DEF Collects
  <2>2. Before(b.data[i], at[b.data[i].src])
    BY DEF Continues
  <2>3. CASE b.data[i].src = p
    BY <1>1, <2>1, <2>2, <2>3, FollowingIsLater
  <2>4. CASE b.data[i].src # p
    BY <1>1, <2>1, <2>2, <2>4
  <2> QED BY <2>3, <2>4
<1> QED BY <1>2 DEF Continues

\* The last element of a sequence, and the first one, with one more.
LEMMA LastFacts ==
    ASSUME NEW S, NEW s \in Seq(S), NEW x \in S
    PROVE  /\ Append(s, x) \in Seq(S) /\ Append(s, x) # <<>>
           /\ Len(Append(s, x)) = Len(s) + 1 /\ Len(s) \in Nat
           /\ \A i \in 1..Len(s) : Append(s, x)[i] = s[i] /\ s[i] \in S
           /\ Append(s, x)[Len(s) + 1] = x /\ Last(Append(s, x)) = x
           /\ s # <<>> => Head(Append(s, x)) = Head(s)
           /\ s = <<>> => Head(Append(s, x)) = x
<1>1. /\ Append(s, x) \in Seq(S) /\ Append(s, x) # <<>>
      /\ Len(Append(s, x)) = Len(s) + 1 /\ Len(s) \in Nat
      /\ \A i \in 1..Len(s) : Append(s, x)[i] = s[i] /\ s[i] \in S
      /\ Append(s, x)[Len(s) + 1] = x
  OBVIOUS
<1>2. Last(Append(s, x)) = x
  BY <1>1 DEF Last
<1>3. /\ s # <<>> => Head(Append(s, x)) = Head(s)
      /\ s = <<>> => Head(Append(s, x)) = x
  OBVIOUS
<1> QED BY <1>1, <1>2, <1>3

\* The frame that a buffer expects continues it.
LEMMA FrameContinues ==
    ASSUME TypeInv, NEW p \in Senders, Sends(p), NEW b \in BufferType,
           b.started => Continues(b, at),
           ~Orphan(b, at[p]), Expected(Opened(b, at[p]), at[p])
    PROVE  LET e == Longer(Opened(b, at[p]), at[p])
           IN  /\ Continues(e, at') /\ IsFirst(Head(e.data)) /\ NoHole(e.data)
               /\ e.data # <<>> /\ Last(e.data) = at[p] /\ e.data \in Seq(Collects)
<1> DEFINE f == at[p]
           o == Opened(b, f)
           e == Longer(o, f)
           k == Len(o.data)
<1>1. /\ Sent(p, f) /\ at \in [Senders -> Collects]
      /\ at' = [at EXCEPT ![p] = Following(f)]
  BY SentIsSent DEF TypeInv, Typed, Sends
<1>2. /\ f \in Collects /\ f.src = p /\ (IsFirst(f) <=> f.idx = 0)
      /\ MsgNum(f) = f.msg % MsgNums
  BY <1>1, SentFacts
<1>3. /\ o \in BufferType /\ o.started /\ o.message_number = f.msg % MsgNums
      /\ ~IsFirst(f) => o = b
      /\ IsFirst(f) => Holds(o, p, f.msg, 0)
  BY <1>1, OpenedFacts
<1>4. Expected(o, f) /\ SeqNums \in Nat \ {0}
  BY FragmentsAssumption
<1>5. Before(f, at'[p])
  <2>1. at'[p] = Following(f)
    BY <1>1
  <2> QED BY <1>1, <2>1, FollowingIsLater
<1>6. IsFirst(f) => o.data = <<>> /\ o.expected_seq = 0
  BY <1>1, <1>2, <1>3, FirstOfFacts, SentFacts DEF Holds
<1>7. ~IsFirst(f) => Continues(o, at) /\ Continues(o, at')
  <2> SUFFICES ASSUME ~IsFirst(f) PROVE Continues(o, at) /\ Continues(o, at')
    OBVIOUS
  <2>1. b.started /\ o = b
    BY <1>3 DEF Orphan
  <2>2. Continues(b, at)
    BY <2>1
  <2>3. Continues(b, at')
    BY <2>2, SendingContinues
  <2> QED BY <2>1, <2>2, <2>3
<1> HIDE DEF f, o
<1>8. /\ e \in BufferType /\ e.started
      /\ e.message_number = o.message_number /\ e.expected_seq = o.expected_seq + 1
      /\ e.data = Append(o.data, f) /\ o.data \in Seq(Collects)
  <2>1. o.data \in Seq(Collects)
    BY <1>3 DEF BufferType
  <2> QED BY <1>2, <1>3, <2>1, BufferFacts
<1> HIDE DEF e
<1>9. /\ e.data \in Seq(Collects) /\ e.data # <<>>
      /\ Len(e.data) = k + 1 /\ k \in Nat
      /\ \A i \in 1..k : e.data[i] = o.data[i] /\ o.data[i] \in Collects
      /\ e.data[k + 1] = f /\ Last(e.data) = f
      /\ o.data # <<>> => Head(e.data) = Head(o.data)
      /\ o.data = <<>> => Head(e.data) = f
  <2> DEFINE d == o.data
  <2>1. d \in Seq(Collects)
    BY <1>8
  <2> HIDE DEF d
  <2>2. /\ Append(d, f) \in Seq(Collects) /\ Append(d, f) # <<>>
        /\ Len(Append(d, f)) = Len(d) + 1 /\ Len(d) \in Nat
        /\ \A i \in 1..Len(d) : Append(d, f)[i] = d[i] /\ d[i] \in Collects
        /\ Append(d, f)[Len(d) + 1] = f /\ Last(Append(d, f)) = f
        /\ d # <<>> => Head(Append(d, f)) = Head(d)
        /\ d = <<>> => Head(Append(d, f)) = f
    BY <1>2, <2>1, LastFacts
  <2>3. e.data = Append(d, f)
    BY <1>8 DEF d
  <2> QED BY <2>2, <2>3 DEF d
<1>10. /\ o.expected_seq = k
       /\ IsFirst(Head(e.data))
       /\ SeqNum(f) = k % SeqNums
  <2>1. CASE IsFirst(f)
    <3>1. o.data = <<>> /\ o.expected_seq = 0 /\ k = 0
      BY <1>6, <2>1
    <3> QED BY <1>4, <1>9, <2>1, <3>1 DEF Expected
  <2>2. CASE ~IsFirst(f)
    <3>1. o.data # <<>> /\ IsFirst(Head(o.data)) /\ o.expected_seq = k
      BY <1>7, <2>2 DEF Continues
    <3> QED BY <1>4, <1>9, <3>1 DEF Expected
  <2> QED BY <2>1, <2>2
<1> HIDE DEF k
<1>11. \A i \in 1..k : ~IsFirst(f) /\ Continues(o, at) /\ Continues(o, at')
  BY <1>6, <1>7 DEF k
<1>12. NoHole(e.data)
  <2> SUFFICES ASSUME NEW i \in 1..k PROVE Meets(e.data[i], e.data[i + 1])
    BY <1>9 DEF NoHole
  <2>1. Continues(o, at) /\ e.data[i] = o.data[i] /\ o.data[i] \in Collects
    BY <1>9, <1>11
  <2>2. CASE i # k
    <3>1. i \in 1..(Len(o.data) - 1) /\ i + 1 \in 1..k
      BY <1>9, <2>2 DEF k
    <3>2. Meets(o.data[i], o.data[i + 1]) /\ e.data[i + 1] = o.data[i + 1]
      BY <1>9, <2>1, <3>1 DEF Continues, NoHole
    <3> QED BY <2>1, <3>2
  <2>3. CASE i = k
    <3>1. /\ SeqNum(o.data[k]) = (k - 1) % SeqNums
          /\ MsgNum(o.data[k]) = o.message_number
          /\ Before(o.data[k], at[o.data[k].src])
      BY <2>1, <2>3 DEF Continues, k
    <3>2. k - 1 \in Nat /\ (k - 1) + 1 = k
      BY <1>9, <2>3
    <3>3. CASE o.data[k].src = p
      <4>1. Before(o.data[k], f) /\ MsgNum(o.data[k]) = MsgNum(f)
        BY <1>2, <1>3, <3>1, <3>3 DEF f
      <4>2. SeqNum(f) = ((k - 1) + 1) % SeqNums
        BY <1>10, <3>2
      <4> QED BY <1>1, <1>9, <2>1, <2>3, <3>1, <3>2, <3>3, <4>1, <4>2, ExpectedMeets
    <3>4. CASE o.data[k].src # p
      <4>1. e.data[i] = o.data[k] /\ e.data[i + 1] = f
        BY <1>9, <2>1, <2>3
      <4> QED BY <1>2, <3>4, <4>1 DEF Meets
    <3> QED BY <3>3, <3>4
  <2> QED BY <2>2, <2>3
<1>13. ASSUME NEW i \in 1..(k + 1)
       PROVE  /\ SeqNum(e.data[i]) = (i - 1) % SeqNums
              /\ MsgNum(e.data[i]) = e.message_number
              /\ Before(e.data[i], at'[e.data[i].src])
  <2>1. CASE i = k + 1
    <3>1. i - 1 = k /\ e.data[i] = f
      BY <1>9, <2>1
    <3>2. Before(f, at'[f.src])
      BY <1>2, <1>5
    <3> QED BY <1>2, <1>3, <1>8, <1>10, <3>1, <3>2
  <2>2. CASE i # k + 1
    <3>1. i \in 1..k
      BY <1>9, <2>2
    <3>2. Continues(o, at') /\ e.data[i] = o.data[i] /\ i \in 1..Len(o.data)
      BY <1>9, <1>11, <3>1 DEF k
    <3> QED BY <1>8, <3>2 DEF Continues
  <2> QED BY <2>1, <2>2
<1>14. Continues(e, at')
  BY <1>8, <1>9, <1>10, <1>12, <1>13 DEF Continues
<1> QED BY <1>9, <1>10, <1>12, <1>14 DEF e, o, f

\* What the next frame does to the buffers, and the report that it makes.
LEMMA ArrivalIsBounded ==
    ASSUME HoleInv, NEW p \in Senders, Arrive(p)
    PROVE  /\ \A n \in Sources : buffers'[n].started => Continues(buffers'[n], at')
           /\ taken' = taken
           /\ \/ /\ \E d \in Seq(Collects) :
                       /\ Bounded(d) /\ Last(d) = at[p]
                       /\ Enqueue([src |-> SourceOf[p], data |-> d])
                 /\ newest' = [newest EXCEPT ![p] = at[p].msg]
                 /\ IsLast(at[p])
              \/ UNCHANGED <<queue, lost, newest>>
<1> DEFINE f == at[p]
           made == /\ \E d \in Seq(Collects) :
                         /\ Bounded(d) /\ Last(d) = f
                         /\ Enqueue([src |-> SourceOf[p], data |-> d])
                   /\ newest' = [newest EXCEPT ![p] = f.msg]
                   /\ IsLast(f)
           none == UNCHANGED <<queue, lost, newest>>
           steady(n) == buffers'[n].started => Continues(buffers'[n], at')
<1>1. /\ Sent(p, f) /\ HandleMessage(f) /\ Sends(p) /\ taken' = taken
      /\ TypeInv /\ Typed /\ AtOK
  BY SentIsSent DEF HoleInv, TypeInv, Arrive, Sends, Note
<1>2. /\ buffers \in [Sources -> BufferType] /\ SourceOf[p] \in Sources
      /\ f \in Collects /\ f.src = p /\ f.idx \in Nat
  BY <1>1, TypeFacts, SentFacts
<1>3. ASSUME NEW n \in Sources, buffers'[n] = buffers[n] PROVE steady(n)
  <2>1. \A x \in BufferType : Continues(x, at) => Continues(x, at')
    BY <1>1, SendingContinues
  <2>2. buffers[n] \in BufferType
    BY <1>2
  <2> QED BY <1>3, <2>1, <2>2 DEF HoleInv
<1>4. ASSUME NEW d \in Seq(Collects), Report(f, d), Bounded(d), Last(d) = f, IsLast(f)
      PROVE  made \/ none
  <2>1. \/ /\ Enqueue([src |-> SourceOf[p], data |-> d])
           /\ newest' = [newest EXCEPT ![p] = f.msg]
        \/ none
    BY <1>2, <1>4, ReportFacts
  <2> QED BY <1>4, <2>1
<1> HIDE DEF f
<1>5. CASE p \in Singles
  <2>1. Report(f, <<f>>) /\ buffers' = buffers
    BY <1>1, <1>2, <1>5 DEF HandleMessage
  <2>2. /\ <<f>> \in Seq(Collects) /\ <<f>> # <<>> /\ Len(<<f>>) = 1
        /\ Head(<<f>>) = f /\ Last(<<f>>) = f
    BY <1>2 DEF Last
  <2>3. IsFirst(f) /\ IsLast(f)
    <3>1. /\ IsFirst(f) <=> f.idx = 0
          /\ IsLast(f) <=> f.idx + 1 = Size[p][f.msg]
          /\ f.idx < Size[p][f.msg]
      BY <1>1, SentFacts
    <3>2. Size[p][f.msg] = 1
      BY <1>1, <1>5, SingleFacts
    <3> QED BY <1>2, <3>1, <3>2
  <2>4. Bounded(<<f>>)
    BY <2>2, <2>3 DEF Bounded, NoHole
  <2>5. made \/ none
    BY <1>4, <2>1, <2>2, <2>3, <2>4
  <2> QED BY <1>1, <1>3, <2>1, <2>5 DEF f
<1>6. CASE p \notin Singles
  <2>1. PICK b, o, e, n \in BufferType :
           /\ b = buffers[SourceOf[p]] /\ o = Opened(b, f) /\ e = Longer(o, f)
           /\ Handled(p, f, b, o, e, n)
    BY <1>1, <1>6, HandledFacts
  <2>2. b.started => Continues(b, at)
    BY <1>2, <2>1 DEF HoleInv
  <2>3. buffers' = [buffers EXCEPT ![SourceOf[p]] = n]
    BY <2>1 DEF Handled
  <2>4. ~Reset(b).started /\ ~Reset(e).started
    BY <1>2, BufferFacts
  <2>5. ~Orphan(b, f) /\ Expected(o, f) =>
           /\ Continues(e, at') /\ NoHole(e.data) /\ IsFirst(Head(e.data))
           /\ e.data # <<>> /\ Last(e.data) = f /\ e.data \in Seq(Collects)
    BY <1>1, <2>1, <2>2, FrameContinues DEF f
  <2>6. (n.started => Continues(n, at')) /\ (made \/ none)
    <3>1. CASE Orphan(b, f)
      BY <2>1, <2>4, <3>1 DEF Handled
    <3>2. CASE ~Orphan(b, f) /\ ~Expected(o, f)
      <4>1. n = o /\ none
        BY <2>1, <3>2 DEF Handled
      <4>2. ~IsFirst(f)
        <5>1. IsFirst(f) => Holds(o, p, f.msg, 0) /\ Expected(o, f)
          BY <1>1, <2>1, OpenedFacts, RowIsKept
        <5> QED BY <3>2, <5>1
      <4>3. o = b /\ b.started
        BY <1>1, <2>1, <3>2, <4>2, OpenedFacts DEF Orphan
      <4>4. Continues(b, at')
        BY <1>1, <2>2, <4>3, SendingContinues
      <4> QED BY <4>1, <4>3, <4>4
    <3>3. CASE ~Orphan(b, f) /\ Expected(o, f) /\ ~IsLast(f)
      <4>1. n = e /\ none
        BY <2>1, <3>3 DEF Handled
      <4> QED BY <2>5, <3>3, <4>1
    <3>4. CASE ~Orphan(b, f) /\ Expected(o, f) /\ IsLast(f)
      <4>1. n = Reset(e) /\ Report(f, e.data)
        BY <2>1, <3>4 DEF Handled
      <4>2. Bounded(e.data) /\ Last(e.data) = f /\ e.data \in Seq(Collects)
        BY <2>5, <3>4 DEF Bounded
      <4> QED BY <1>4, <2>4, <3>4, <4>1, <4>2
    <3> QED BY <3>1, <3>2, <3>3, <3>4
  <2>7. ASSUME NEW x \in Sources PROVE steady(x)
    <3>1. CASE x = SourceOf[p]
      BY <1>2, <2>3, <2>6, <3>1
    <3>2. CASE x # SourceOf[p]
      BY <1>2, <1>3, <2>3, <3>2
    <3> QED BY <3>1, <3>2
  <2> QED BY <1>1, <2>6, <2>7 DEF f
<1> QED BY <1>5, <1>6

LEMMA HoleInvInductive == HoleInv /\ [Next]_vars => HoleInv'
<1> SUFFICES ASSUME HoleInv, [Next]_vars PROVE HoleInv'
  OBVIOUS
<1>1. TypeInv /\ TypeInv' /\ Typed /\ AtOK
  BY TypeInvInductive DEF HoleInv, TypeInv
<1>2. /\ queue \in Seq(ReportType) /\ taken \in Seq(ReportType)
      /\ newest \in [Senders -> Nat] /\ at \in [Senders -> Collects]
      /\ buffers \in [Sources -> BufferType]
      /\ \A r \in ToSet(taken) \cup ToSet(queue) : Bounded(r.data)
  BY <1>1, TypeFacts DEF HoleInv, Reports, Typed
<1>3. ASSUME UNCHANGED <<buffers, at, newest>>, UNCHANGED <<queue, taken>>
      PROVE  HoleInv'
  BY <1>1, <1>3 DEF HoleInv, Reports
<1>4. ASSUME NEW p \in Senders, Sends(p), \A q \in Senders : q # p => newest'[q] = newest[q],
             newest'[p] = newest[p] \/ (newest'[p] = at[p].msg /\ IsLast(at[p]))
      PROVE  \A q \in Senders : newest'[q] < at'[q].msg
  <2>1. Sent(p, at[p]) /\ at' = [at EXCEPT ![p] = Following(at[p])]
    BY <1>1, <1>4, SentIsSent DEF Sends
  <2>2. /\ Following(at[p]).msg >= at[p].msg /\ at[p].msg \in Nat
        /\ IsLast(at[p]) => at[p].msg < Following(at[p]).msg
        /\ Following(at[p]).msg \in Nat
    BY <2>1, FollowingIsLater, FollowingFacts, SentFacts DEF Collects
  <2> TAKE q \in Senders
  <2>3. newest[q] < at[q].msg /\ newest[q] \in Nat
    BY <1>2 DEF HoleInv
  <2>4. CASE q # p
    <3>1. at'[q] = at[q]
      BY <1>2, <2>1, <2>4
    <3> QED BY <1>4, <2>3, <2>4, <3>1
  <2>5. CASE q = p
    <3>1. at'[p] = Following(at[p])
      BY <1>2, <2>1
    <3> QED BY <1>4, <2>2, <2>3, <2>5, <3>1
  <2> QED BY <2>4, <2>5
<1>5. ASSUME NEW p \in Senders, Arrive(p) PROVE HoleInv'
  <2>1. /\ \A n \in Sources : buffers'[n].started => Continues(buffers'[n], at')
        /\ taken' = taken
        /\ \/ /\ \E d \in Seq(Collects) :
                    /\ Bounded(d) /\ Last(d) = at[p]
                    /\ Enqueue([src |-> SourceOf[p], data |-> d])
              /\ newest' = [newest EXCEPT ![p] = at[p].msg]
              /\ IsLast(at[p])
           \/ UNCHANGED <<queue, lost, newest>>
    BY <1>5, ArrivalIsBounded
  <2>2. Sends(p)
    BY <1>5 DEF Arrive
  <2>3. \A q \in Senders : newest'[q] < at'[q].msg
    BY <1>2, <1>4, <2>1, <2>2
  <2>4. CASE UNCHANGED <<queue, lost, newest>>
    BY <1>1, <2>1, <2>3, <2>4 DEF HoleInv, Reports
  <2>5. CASE \E d \in Seq(Collects) :
                /\ Bounded(d) /\ Enqueue([src |-> SourceOf[p], data |-> d])
    <3>1. PICK d \in Seq(Collects) :
             /\ Bounded(d) /\ Enqueue([src |-> SourceOf[p], data |-> d])
      BY <2>5
    <3> DEFINE r == [src |-> SourceOf[p], data |-> d]
    <3>2. r \in ReportType /\ Bounded(r.data)
      BY <1>1, <3>1, TypeFacts DEF ReportType
    <3> HIDE DEF r
    <3>3. queue' = Append(queue, r) \/ queue' = queue
      BY <1>1, <3>1, <3>2, EnqueueFacts DEF r
    <3>4. ToSet(Append(queue, r)) = ToSet(queue) \cup {r}
      BY <1>2, <3>2, AppendFacts
    <3>5. \A x \in Reports' : Bounded(x.data)
      BY <1>2, <2>1, <3>2, <3>3, <3>4 DEF Reports
    <3> QED BY <1>1, <2>1, <2>3, <3>5 DEF HoleInv
  <2> QED BY <2>1, <2>4, <2>5
<1>6. ASSUME NEW p \in Senders, Miss(p) PROVE HoleInv'
  <2>1. Sends(p) /\ UNCHANGED <<buffers, queue, taken, newest>>
    BY <1>6 DEF Miss, receiver, history
  <2>2. \A n \in Sources : buffers'[n].started => Continues(buffers'[n], at')
    <3>1. \A x \in BufferType : Continues(x, at) => Continues(x, at')
      BY <1>1, <2>1, SendingContinues
    <3> QED BY <1>2, <2>1, <3>1 DEF HoleInv
  <2>3. \A q \in Senders : newest'[q] < at'[q].msg
    BY <1>4, <2>1
  <2> QED BY <1>1, <1>2, <2>1, <2>2, <2>3 DEF HoleInv, Reports
<1>7. CASE Terminates
  BY <1>3, <1>7 DEF Terminates, bus, history
<1>8. CASE start
  BY <1>3, <1>8 DEF start, history
<1>9. CASE close
  BY <1>3, <1>9 DEF close, bus, history
<1>10. CASE anext
  <2>1. /\ queue # <<>> /\ queue' = Tail(queue) /\ taken' = Append(taken, Head(queue))
        /\ UNCHANGED <<open, consuming, buffers, bus, lost, heard, run, whole, newest>>
    BY <1>10 DEF anext
  <2>2. Head(queue) \in ReportType /\ ToSet(queue) = {Head(queue)} \cup ToSet(Tail(queue))
    BY <1>2, <2>1, TailFacts
  <2>3. ToSet(Append(taken, Head(queue))) = ToSet(taken) \cup {Head(queue)}
    BY <1>2, <2>2, AppendFacts
  <2>4. Reports' = Reports
    BY <2>1, <2>2, <2>3 DEF Reports
  <2> QED BY <1>1, <2>1, <2>4 DEF HoleInv, bus
<1>11. CASE UNCHANGED vars
  BY <1>3, <1>11 DEF vars, receiver, bus, history
<1> QED BY <1>5, <1>6, <1>7, <1>8, <1>9, <1>10, <1>11 DEF Next

LEMMA HoleInvInit == Init => HoleInv
<1> SUFFICES ASSUME Init PROVE HoleInv
  OBVIOUS
<1>1. \A n \in Sources : ~buffers[n].started
  BY FreshFacts DEF Init
<1>2. \A p \in Senders : newest[p] < at[p].msg
  BY DEF Init, Fragment
<1>3. Reports = {}
  BY DEF Init, Reports, ToSet
<1> QED BY <1>1, <1>2, <1>3, TypeInvInit DEF HoleInv

\* However many frames are missed, also while the receiver is closed or its task
\* has ended, however long messages are and however many streams a node has: a
\* report goes from a first frame to a last one, and a hole between two frames of
\* one stream is at least SeqNums frames or MsgNums messages wide.
THEOREM CanNoNarrowHole == Spec => []NoNarrowHole
<1>1. HoleInv => NoNarrowHole
  BY DEF HoleInv, NoNarrowHole, Bounded, NoHole, Meets
<1> QED BY <1>1, HoleInvInit, HoleInvInductive, PTL DEF Spec

(***************************************************************************)
(* The receiver implements the service of module ReportStream              *)
(***************************************************************************)
Shown(q) == [i \in DOMAIN q |-> LastOf(q[i])]

LEMMA ShownReports ==
    ASSUME NEW q \in Seq(ReportType)
    PROVE  /\ Len(Shown(q)) = Len(q)
           /\ q = <<>> <=> Shown(q) = <<>>
           /\ \A r \in ReportType : Shown(Append(q, r)) = Append(Shown(q), LastOf(r))
           /\ q # <<>> => /\ Shown(Tail(q)) = Tail(Shown(q))
                          /\ Head(Shown(q)) = LastOf(Head(q))
                          /\ Head(q) \in ReportType
<1> DEFINE T == {LastOf(r) : r \in ReportType}
           g == [r \in ReportType |-> LastOf(r)]
           Image(s) == [i \in DOMAIN s |-> g[s[i]]]
<1>1. g \in [ReportType -> T]
  OBVIOUS
<1>2. ASSUME NEW s \in Seq(ReportType) PROVE Shown(s) = Image(s)
  BY <1>2 DEF Shown
<1>3. \A r \in ReportType : g[r] = LastOf(r)
  OBVIOUS
<1>4. \A r \in ReportType : Append(q, r) \in Seq(ReportType)
  OBVIOUS
<1>5. q # <<>> => Tail(q) \in Seq(ReportType) /\ Head(q) \in ReportType
  OBVIOUS
<1> HIDE DEF T, g
<1>6. /\ Len(Image(q)) = Len(q)
      /\ q = <<>> <=> Image(q) = <<>>
      /\ \A r \in ReportType : Image(Append(q, r)) = Append(Image(q), g[r])
      /\ q # <<>> => Image(Tail(q)) = Tail(Image(q)) /\ Head(Image(q)) = g[Head(q)]
  BY <1>1, ShownFacts
<1> HIDE DEF Image
<1> QED BY <1>2, <1>3, <1>4, <1>5, <1>6

LEMMA StreamInitially == Init => Stream!StreamInit
<1>1. Shown(<<>>) = <<>>
  BY DEF Shown
<1> QED BY <1>1 DEF Init, Stream!StreamInit, Shown

LEMMA StreamStep ==
    HoleInv /\ [Next]_vars => [Stream!StreamNext]_(Stream!rvars)
<1> SUFFICES ASSUME HoleInv, [Next]_vars
             PROVE  Stream!StreamNext \/ UNCHANGED Stream!rvars
  OBVIOUS
<1>1. Typed /\ AtOK
  BY DEF HoleInv, TypeInv
<1>2. queue \in Seq(ReportType) /\ taken \in Seq(ReportType) /\ Len(queue) \in Nat
  BY <1>1, TypeFacts
<1>3. ASSUME UNCHANGED <<queue, taken, newest, lost>> PROVE UNCHANGED Stream!rvars
  BY <1>3 DEF Stream!rvars
<1>4. ASSUME NEW p \in Senders, Arrive(p) PROVE Stream!StreamNext \/ UNCHANGED Stream!rvars
  <2> DEFINE m == at[p].msg
  <2>1. /\ taken' = taken
        /\ \/ /\ \E d \in Seq(Collects) :
                    /\ Last(d) = at[p] /\ Enqueue([src |-> SourceOf[p], data |-> d])
              /\ newest' = [newest EXCEPT ![p] = m]
           \/ UNCHANGED <<queue, lost, newest>>
    BY <1>4, ArrivalIsBounded
  <2>2. CASE UNCHANGED <<queue, lost, newest>>
    BY <1>3, <2>1, <2>2
  <2>3. CASE /\ \E d \in Seq(Collects) :
                   /\ Last(d) = at[p] /\ Enqueue([src |-> SourceOf[p], data |-> d])
             /\ newest' = [newest EXCEPT ![p] = m]
    <3>1. PICK d \in Seq(Collects) :
             /\ Last(d) = at[p] /\ Enqueue([src |-> SourceOf[p], data |-> d])
      BY <2>3
    <3> DEFINE r == [src |-> SourceOf[p], data |-> d]
    <3>2. Sent(p, at[p])
      BY <1>1, <1>4, SentIsSent DEF Arrive, Sends
    <3>3. r \in ReportType /\ LastOf(r) = <<p, m>>
      BY <1>1, <3>1, <3>2, TypeFacts, SentFacts DEF ReportType, LastOf
    <3>4. m > newest[p] /\ m \in DOMAIN Size[p]
      BY <1>1, <3>2, SentFacts, TypeFacts DEF HoleInv
    <3> HIDE DEF m, r
    <3>5. \/ Len(queue) < QueueSize /\ queue' = Append(queue, r) /\ lost' = lost
          \/ Len(queue) >= QueueSize /\ queue' = queue /\ lost' = lost + 1
      BY <1>1, <3>1, <3>3, EnqueueFacts DEF r
    <3>6. /\ Len(Shown(queue)) = Len(queue)
          /\ Shown(Append(queue, r)) = Append(Shown(queue), <<p, m>>)
      BY <1>2, <3>3, ShownReports
    <3>7. <<p, m>> \in Messages
      BY <3>4 DEF Messages
    <3>8. \/ /\ Len(Shown(queue)) < QueueSize
             /\ Shown(queue') = Append(Shown(queue), <<p, m>>)
             /\ lost' = lost
          \/ /\ Len(Shown(queue)) >= QueueSize
             /\ lost' = lost + 1
             /\ Shown(queue') = Shown(queue)
      BY <3>5, <3>6
    <3>9. Shown(taken') = Shown(taken)
      BY <2>1
    <3>10. \E x \in Messages :
             /\ x[2] > newest[x[1]] /\ newest' = [newest EXCEPT ![x[1]] = x[2]]
             /\ \/ /\ Len(Shown(queue)) < QueueSize
                   /\ Shown(queue') = Append(Shown(queue), <<x[1], x[2]>>)
                   /\ lost' = lost
                \/ /\ Len(Shown(queue)) >= QueueSize
                   /\ lost' = lost + 1
                   /\ Shown(queue') = Shown(queue)
             /\ Shown(taken') = Shown(taken)
      <4>1. <<p, m>>[1] = p /\ <<p, m>>[2] = m
        OBVIOUS
      <4> WITNESS <<p, m>> \in Messages
      <4> QED BY <2>3, <3>4, <3>7, <3>8, <3>9, <4>1
    <3>11. Stream!StreamNext
      BY <3>10 DEF Stream!StreamNext, Stream!Offer, Shown
    <3> QED BY <3>11
  <2> QED BY <2>1, <2>2, <2>3
<1>5. ASSUME NEW p \in Senders, Miss(p) PROVE UNCHANGED Stream!rvars
  BY <1>3, <1>5 DEF Miss, receiver, history
<1>6. CASE start
  BY <1>3, <1>6 DEF start, history
<1>7. CASE close
  BY <1>3, <1>7 DEF close, history
<1>8. CASE anext
  <2>1. /\ queue # <<>> /\ queue' = Tail(queue) /\ taken' = Append(taken, Head(queue))
        /\ UNCHANGED <<lost, newest>>
    BY <1>8 DEF anext
  <2> DEFINE x == Head(queue)
  <2>2. /\ Shown(queue) # <<>> /\ Shown(queue') = Tail(Shown(queue))
        /\ Head(Shown(queue)) = LastOf(x)
        /\ x \in ReportType /\ taken' = Append(taken, x)
    BY <1>2, <2>1, ShownReports
  <2> HIDE DEF x
  <2>3. Shown(taken') = Append(Shown(taken), Head(Shown(queue)))
    <3>1. Shown(Append(taken, x)) = Append(Shown(taken), LastOf(x))
      BY <1>2, <2>2, ShownReports
    <3> QED BY <2>2, <3>1
  <2>4. Stream!Yield
    BY <2>1, <2>2, <2>3 DEF Stream!Yield, Shown
  <2> QED BY <2>4 DEF Stream!StreamNext
<1>9. CASE Terminates
  BY <1>3, <1>9 DEF Terminates, history
<1>10. CASE UNCHANGED vars
  BY <1>3, <1>10 DEF vars, receiver, history
<1> QED BY <1>4, <1>5, <1>6, <1>7, <1>8, <1>9, <1>10 DEF Next

\* Of the reports of a stream each is yielded at most once, in the order in which
\* the last frames were sent, and a full queue drops the new one: whatever is
\* missed, with any number of streams on a node, and over close() and start().
THEOREM CanImplementsStream == Spec => ImplementsStream
<1>1. HoleInv /\ [Next]_vars => HoleInv' /\ [Stream!StreamNext]_(Stream!rvars)
  BY HoleInvInductive, StreamStep
<1> QED BY <1>1, HoleInvInit, StreamInitially, PTL DEF Spec, ImplementsStream, Stream!Stream
=============================================================================
