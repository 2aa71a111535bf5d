---------------------------- MODULE UdpReceiver ----------------------------
(***************************************************************************)
(* AsyncThingSetUDPReceiver and _UdpReceiverProtocol                       *)
(* (transport/async_udp.py): datagrams of several senders are reassembled  *)
(* into reports, which wait in a bounded queue for the consumer.           *)
(*                                                                         *)
(* A sender broadcasts the fragments of its messages one after the other.  *)
(* Each arrives or is lost; MaxStrays times a fragment arrives once more   *)
(* or late, which together with a loss makes any reordering.               *)
(***************************************************************************)
EXTENDS Fragments

CONSTANTS
    QueueSize,          \* queue_size
    MaxStarts,          \* bound: calls of start()
    MaxStrays,          \* bound: fragments that arrive again, or late
    MaxLost             \* bound: messages of one sender lost in a row

ASSUME UdpReceiverAssumption ==
    /\ QueueSize \in Nat \ {0}
    /\ MaxStarts \in Nat /\ MaxStrays \in Nat /\ MaxLost \in Nat

VARIABLES
    open,               \* self._transport is not None
    buffers,            \* the protocol's _buffers, fresh for absent senders
    queue,              \* self._queue
    dropped,            \* the protocol's dropped
    at,                 \* at[p]: the fragment p sends next
    starts,             \* calls of start() so far
    strays,             \* strays so far
    taken,              \* history: what __anext__ returned
    forgotten,          \* history: dropped, as counted before the last start()
    heard,              \* history: heard[p]: the message p was heard of last
    run,                \* history: run[p]: fragments of it that came in a row
    whole,              \* history: reports whose fragments all came in a row
    newest              \* history: newest[p]: p's latest message to be a report

receiver == <<open, buffers, queue, dropped>>
network  == <<at, starts, strays>>
history  == <<taken, forgotten, heard, run, whole, newest>>
vars     == <<receiver, network, history>>

Init ==
    /\ open = FALSE
    /\ buffers = [p \in Senders |-> Fresh]
    /\ queue = <<>> /\ dropped = 0
    /\ at = [p \in Senders |-> Fragment(p, 1, 0)]
    /\ starts = 0 /\ strays = 0
    /\ taken = <<>> /\ forgotten = 0
    /\ heard = [p \in Senders |-> 0]
    /\ run = [p \in Senders |-> 0]
    /\ whole = 0
    /\ newest = [p \in Senders |-> 0]

(***************************************************************************)
(* datagram_received                                                       *)
(***************************************************************************)
\* Mutant: one buffer for all ports.
KeyIgnoresPort(f) == CHOOSE p \in Senders : TRUE

\* The buffer of the sender's (ip, port).
Key(f) == f.src

\* Mutant: a fragment out of sequence is kept.
ExtendedAnyway(b, f) ==
    [b EXCEPT !.data = Append(@, f), !.expected_seq = @ + 1]

\* The fragment is kept if it is the expected one; in either case the next one
\* is expected from here.
Extended(b, f) ==
    [b EXCEPT !.data = IF Expected(b, f) THEN Append(@, f) ELSE @,
              !.expected_seq = @ + 1]

\* Mutant: the oldest report makes room.
PutDropsOldest(report) ==
    IF Len(queue) < QueueSize
    THEN queue' = Append(queue, report) /\ UNCHANGED dropped
    ELSE queue' = Append(Tail(queue), report) /\ dropped' = dropped + 1

\* Mutant: the queue has no bound.
PutUnbounded(report) == queue' = Append(queue, report) /\ UNCHANGED dropped

\* put_nowait, or QueueFull
Put(report) ==
    IF Len(queue) < QueueSize
    THEN queue' = Append(queue, report) /\ UNCHANGED dropped
    ELSE dropped' = dropped + 1 /\ UNCHANGED queue

Report(f, data) ==
    \E parses \in ParseReport(data) :
        IF parses
        THEN /\ Put([src |-> Key(f), data |-> data])
             /\ newest' = [newest EXCEPT ![f.src] = f.msg]
        ELSE UNCHANGED <<queue, dropped, newest>>

datagram_received(f) ==
    LET b == buffers[Key(f)]
        e == Extended(Opened(b, f), f)
        Store(n) == buffers' = [buffers EXCEPT ![Key(f)] = n]
    IN  \/ /\ Orphan(b, f)
           /\ Store(Reset(b))
           /\ UNCHANGED <<queue, dropped, newest>>
        \/ /\ ~Orphan(b, f) /\ ~IsLast(f)
           /\ Store(e)
           /\ UNCHANGED <<queue, dropped, newest>>
        \/ /\ ~Orphan(b, f) /\ IsLast(f)
           /\ Store(Reset(e))
           /\ Report(f, e.data)

\* What a bystander notes of an arrival: did every fragment of the message come
\* in a row?
Note(f) ==
    LET row == InARow(f, heard[f.src], run[f.src])
    IN  /\ heard' = [heard EXCEPT ![f.src] = f.msg]
        /\ run' = [run EXCEPT ![f.src] = row]
        /\ whole' = IF row = Size[f.src][f.msg] /\ <<f.src, f.msg>> \notin Garbage
                    THEN whole + 1 ELSE whole
        /\ UNCHANGED <<taken, forgotten>>

(***************************************************************************)
(* The senders and the network                                             *)
(***************************************************************************)
Sends(p) ==
    /\ at[p].msg \in DOMAIN Size[p]
    /\ at' = [at EXCEPT ![p] = Following(at[p])]

Arrive(p) ==
    /\ open
    /\ Sends(p)
    /\ datagram_received(at[p])
    /\ Note(at[p])
    /\ UNCHANGED <<open, starts, strays>>

\* Lost on the way, or nobody listens.
Lose(p) ==
    /\ Sends(p)
    /\ heard[p] > 0 /\ IsFirst(at[p]) => at[p].msg <= heard[p] + MaxLost
    /\ UNCHANGED <<receiver, starts, strays, history>>

\* A fragment sent earlier arrives again, or late.
Stray(p) ==
    /\ open /\ strays < MaxStrays
    /\ strays' = strays + 1
    /\ \E m \in DOMAIN Size[p] : \E i \in 0..(Size[p][m] - 1) :
          /\ m < at[p].msg \/ (m = at[p].msg /\ i < at[p].idx)
          /\ datagram_received(Fragment(p, m, i))
          /\ Note(Fragment(p, m, i))
    /\ UNCHANGED <<open, at, starts>>

(***************************************************************************)
(* The application.  start() makes a new protocol object: its buffers are  *)
(* empty and its counter is zero, while the queue stays.                   *)
(***************************************************************************)
start ==
    /\ ~open /\ starts < MaxStarts
    /\ starts' = starts + 1
    /\ open' = TRUE
    /\ buffers' = [p \in Senders |-> Fresh]
    /\ dropped' = 0
    /\ forgotten' = forgotten + dropped
    /\ heard' = [p \in Senders |-> 0]
    /\ run' = [p \in Senders |-> 0]
    /\ UNCHANGED <<queue, at, strays, taken, whole, newest>>

close ==
    /\ open
    /\ open' = FALSE
    /\ UNCHANGED <<buffers, queue, dropped, network, history>>

\* __anext__ does not look whether the receiver is open.
anext ==
    /\ queue # <<>>
    /\ queue' = Tail(queue)
    /\ taken' = Append(taken, Head(queue))
    /\ UNCHANGED <<open, buffers, dropped, network, forgotten, heard, run, whole, newest>>

Next ==
    \/ \E p \in Senders : Arrive(p) \/ Lose(p) \/ Stray(p)
    \/ start \/ close \/ anext

Spec == Init /\ [][Next]_vars

(***************************************************************************)
(* Properties                                                              *)
(***************************************************************************)
Collected == [src : Senders, msg : Nat, idx : Nat]

Reports == ToSet(taken) \cup ToSet(queue)

\* Every variable has its type; the queue is bounded.
TypeOK ==
    /\ open \in BOOLEAN
    /\ buffers \in [Senders -> [data : Seq(Collected), expected_seq : Nat,
                                message_number : -1..(MsgNums - 1), started : BOOLEAN]]
    /\ queue \in Seq([src : Senders, data : Seq(Collected)]) /\ Len(queue) <= QueueSize
    /\ dropped \in Nat
    /\ at \in [Senders -> Collected]
    /\ starts \in 0..MaxStarts /\ strays \in 0..MaxStrays
    /\ taken \in Seq([src : Senders, data : Seq(Collected)]) /\ forgotten \in Nat
    /\ heard \in [Senders -> Nat] /\ run \in [Senders -> Nat]
    /\ whole \in Nat /\ newest \in [Senders -> Nat]

\* A report whose fragments arrived in a row is yielded, waits in the queue or
\* was counted as dropped: whatever the same sender sent, lost or repeated
\* before, whatever other senders send in between, and across restarts.
NothingLost == whole <= Len(taken) + Len(queue) + dropped + forgotten

\* However many fragments are lost, a truncated message is not mistaken for a
\* report, and nothing is counted as dropped that was not a whole report.
OnlyWholeReports ==
    /\ \A r \in Reports : IsWhole(r.data)
    /\ Len(taken) + Len(queue) + dropped + forgotten <= whole

\* The README: "interleaved multi-frame reports from multiple publishers don't
\* corrupt each other".  Neither do the messages of one sender: duplicates and
\* late fragments spoil the message they belong to and no other.
NeverMixed ==
    \A data \in {buffers[p].data : p \in Senders} \cup {r.data : r \in Reports} :
        \A i, j \in DOMAIN data : /\ data[i].src = data[j].src
                                  /\ data[i].msg = data[j].msg

\* Without strays the receiver is the service of module ReportStream.
Stream == INSTANCE ReportStream WITH
    Reports <- Messages,
    queue <- [i \in DOMAIN queue |-> <<queue[i].src, queue[i].data[1].msg>>],
    taken <- [i \in DOMAIN taken |-> <<taken[i].src, taken[i].data[1].msg>>],
    lost  <- dropped + forgotten

ImplementsStream == Stream!Stream
=============================================================================
