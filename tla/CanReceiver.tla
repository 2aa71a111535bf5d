---------------------------- MODULE CanReceiver ----------------------------
(***************************************************************************)
(* AsyncThingSetCANReportReceiver (transport/async_can.py): frames on a    *)
(* CAN bus are reassembled into reports, which wait in a bounded queue.    *)
(*                                                                         *)
(* Fragments!Senders are streams: what one device sends one after the      *)
(* other.  Several streams may have one source address.  The bus does not  *)
(* reorder or repeat; the receiver misses frames while its task does not   *)
(* run, and others if MissesFrames.                                        *)
(***************************************************************************)
EXTENDS Fragments

CONSTANTS
    SourceOf,           \* SourceOf[p]: the node address in stream p's CAN ids
    Singles,            \* the streams of single-frame reports
    MissesFrames,       \* an open receiver may miss a frame
    QueueSize,          \* queue_size
    MaxStarts           \* bound: calls of start()

ASSUME CanReceiverAssumption ==
    /\ DOMAIN SourceOf = Senders
    /\ Singles \subseteq Senders
    /\ \A p \in Singles : \A m \in DOMAIN Size[p] : Size[p][m] = 1
    /\ MissesFrames \in BOOLEAN
    /\ QueueSize \in Nat \ {0} /\ MaxStarts \in Nat

Sources == {SourceOf[p] : p \in Senders}

VARIABLES
    open,               \* self._can_bus is not None
    consuming,          \* self._task runs
    buffers,            \* self._buffers, fresh for absent sources
    queue,              \* self._queue
    at,                 \* at[p]: the frame p sends next
    starts,             \* calls of start() so far
    taken,              \* history: what __anext__ returned
    lost,               \* history: reports dropped on a full queue
    heard,              \* history: heard[p]: the message p was heard of last
    run,                \* history: run[p]: frames of it that came in a row
    whole,              \* history: reports whose frames all came in a row
    newest              \* history: newest[p]: p's latest message to be a report

receiver == <<open, consuming, buffers, queue>>
bus      == <<at, starts>>
history  == <<taken, lost, heard, run, whole, newest>>
vars     == <<receiver, bus, history>>

Init ==
    /\ open = FALSE /\ consuming = FALSE
    /\ buffers = [n \in Sources |-> Fresh]
    /\ queue = <<>>
    /\ at = [p \in Senders |-> Fragment(p, 1, 0)]
    /\ starts = 0
    /\ taken = <<>> /\ lost = 0
    /\ heard = [p \in Senders |-> 0]
    /\ run = [p \in Senders |-> 0]
    /\ whole = 0
    /\ newest = [p \in Senders |-> 0]

(***************************************************************************)
(* _handle_message                                                         *)
(***************************************************************************)
\* Mutant: the oldest report makes room.
EnqueueDropsOldest(report) ==
    IF Len(queue) < QueueSize
    THEN queue' = Append(queue, report) /\ UNCHANGED lost
    ELSE queue' = Append(Tail(queue), report) /\ lost' = lost + 1

\* Mutant: the queue has no bound.
EnqueueUnbounded(report) == queue' = Append(queue, report) /\ UNCHANGED lost

\* put_nowait, or a warning
Enqueue(report) ==
    IF Len(queue) < QueueSize
    THEN queue' = Append(queue, report) /\ UNCHANGED lost
    ELSE lost' = lost + 1 /\ UNCHANGED queue

\* A payload that is no report is dropped, or raises something else than a decode
\* error, which ends the task.
Report(f, data) ==
    \E parses \in ParseReport(data) :
        IF parses
        THEN /\ Enqueue([src |-> SourceOf[f.src], data |-> data])
             /\ newest' = [newest EXCEPT ![f.src] = f.msg]
             /\ UNCHANGED consuming
        ELSE /\ consuming' \in BOOLEAN
             /\ UNCHANGED <<queue, lost, newest>>

\* Mutant: an unexpected frame advances the count, as over UDP.
HandleMultiFrameAdvances(f) ==
    LET n == SourceOf[f.src]
        b == Opened(buffers[n], f)
        e == [b EXCEPT !.data = Append(@, f), !.expected_seq = @ + 1]
        Store(new) == buffers' = [buffers EXCEPT ![n] = new]
    IN  \/ /\ Orphan(buffers[n], f)
           /\ Store(Reset(buffers[n]))
           /\ UNCHANGED <<consuming, queue, lost, newest>>
        \/ /\ ~Orphan(buffers[n], f) /\ ~IsLast(f)
           /\ Store(e)
           /\ UNCHANGED <<consuming, queue, lost, newest>>
        \/ /\ ~Orphan(buffers[n], f) /\ IsLast(f)
           /\ Store(Reset(e))
           /\ Report(f, e.data)

\* A frame that is not the expected one is skipped, a last one too: the buffer
\* goes on waiting.
HandleMultiFrame(f) ==
    LET n == SourceOf[f.src]
        b == Opened(buffers[n], f)
        e == [b EXCEPT !.data = Append(@, f), !.expected_seq = @ + 1]
        Store(new) == buffers' = [buffers EXCEPT ![n] = new]
    IN  \/ /\ Orphan(buffers[n], f)
           /\ Store(Reset(buffers[n]))
           /\ UNCHANGED <<consuming, queue, lost, newest>>
        \/ /\ ~Orphan(buffers[n], f) /\ (~Expected(b, f) \/ ~IsLast(f))
           /\ Store(IF Expected(b, f) THEN e ELSE b)
           /\ UNCHANGED <<consuming, queue, lost, newest>>
        \/ /\ ~Orphan(buffers[n], f) /\ Expected(b, f) /\ IsLast(f)
           /\ Store(Reset(e))
           /\ Report(f, e.data)

\* Mutant: a single-frame report clears the buffer of its source.
HandleMessageResets(f) ==
    \/ /\ f.src \in Singles
       /\ Report(f, <<f>>)
       /\ buffers' = [buffers EXCEPT ![SourceOf[f.src]] = Reset(@)]
    \/ f.src \notin Singles /\ HandleMultiFrame(f)

\* A single-frame report does not touch the buffer of its source.
HandleMessage(f) ==
    \/ f.src \in Singles /\ Report(f, <<f>>) /\ UNCHANGED buffers
    \/ f.src \notin Singles /\ HandleMultiFrame(f)

\* What a bystander notes of a frame: did all of its message come in a row?
Note(f) ==
    LET row == InARow(f, heard[f.src], run[f.src])
    IN  /\ heard' = [heard EXCEPT ![f.src] = f.msg]
        /\ run' = [run EXCEPT ![f.src] = row]
        /\ whole' = IF row = Size[f.src][f.msg] /\ <<f.src, f.msg>> \notin Garbage
                    THEN whole + 1 ELSE whole
        /\ UNCHANGED taken

(***************************************************************************)
(* The devices and the bus                                                 *)
(***************************************************************************)
Sends(p) ==
    /\ at[p].msg \in DOMAIN Size[p]
    /\ at' = [at EXCEPT ![p] = Following(at[p])]

Arrive(p) ==
    /\ consuming
    /\ Sends(p)
    /\ HandleMessage(at[p])
    /\ Note(at[p])
    /\ UNCHANGED <<open, starts>>

Miss(p) ==
    /\ ~consuming \/ MissesFrames
    /\ Sends(p)
    /\ UNCHANGED <<receiver, starts, history>>

\* get_message() raises: the task ends, and the receiver stays open without it.
Terminates ==
    /\ consuming
    /\ consuming' = FALSE
    /\ UNCHANGED <<open, buffers, queue, bus, history>>

(***************************************************************************)
(* The application.  The buffers belong to the receiver and outlive close. *)
(***************************************************************************)
start ==
    /\ ~open /\ starts < MaxStarts
    /\ starts' = starts + 1
    /\ open' = TRUE /\ consuming' = TRUE
    /\ UNCHANGED <<buffers, queue, at, history>>

close ==
    /\ open
    /\ open' = FALSE /\ consuming' = FALSE
    /\ UNCHANGED <<buffers, queue, bus, history>>

anext ==
    /\ queue # <<>>
    /\ queue' = Tail(queue)
    /\ taken' = Append(taken, Head(queue))
    /\ UNCHANGED <<open, consuming, buffers, bus, lost, heard, run, whole, newest>>

Next ==
    \/ \E p \in Senders : Arrive(p) \/ Miss(p)
    \/ Terminates \/ start \/ close \/ anext

Spec == Init /\ [][Next]_vars

(***************************************************************************)
(* Properties                                                              *)
(***************************************************************************)
Collected == [src : Senders, msg : Nat, idx : Nat]

Reports == ToSet(taken) \cup ToSet(queue)

\* Every variable has its type; the queue is bounded.
TypeOK ==
    /\ open \in BOOLEAN /\ consuming \in BOOLEAN
    /\ buffers \in [Sources -> [data : Seq(Collected), expected_seq : Nat,
                                message_number : -1..(MsgNums - 1), started : BOOLEAN]]
    /\ queue \in Seq([src : Sources, data : Seq(Collected)]) /\ Len(queue) <= QueueSize
    /\ at \in [Senders -> Collected] /\ starts \in 0..MaxStarts
    /\ taken \in Seq([src : Sources, data : Seq(Collected)]) /\ lost \in Nat
    /\ heard \in [Senders -> Nat] /\ run \in [Senders -> Nat]
    /\ whole \in Nat /\ newest \in [Senders -> Nat]

\* A report whose frames arrived in a row is yielded, waits in the queue or was
\* dropped on a full queue: whatever was missed before, whatever other nodes
\* send, and with single-frame reports of the same node in between.
NothingLost == whole <= Len(taken) + Len(queue) + lost

\* In the header of g are the numbers that the one of Following(f) has, because so
\* much was sent in between that they came round.
CameRound(f, g) ==
    \/ g.msg = f.msg /\ g.idx > f.idx + SeqNums
    \/ g.msg >= f.msg + MsgNums

\* However many frames are missed, also while the receiver is closed or its task
\* has ended, and however long messages are: a report goes from a first frame to a
\* last one, and where it has a hole, SeqNums frames or MsgNums messages in a row
\* were missed at least.  Of two multi-frame streams of one node it says what
\* neighbours of one stream are.
NoNarrowHole ==
    \A r \in Reports :
        /\ r.data # <<>> /\ IsFirst(Head(r.data)) /\ IsLast(Last(r.data))
        /\ \A i \in 1..(Len(r.data) - 1) :
              LET f == r.data[i]
                  g == r.data[i + 1]
              IN  f.src = g.src => (g = Following(f) /\ ~IsLast(f)) \/ CameRound(f, g)

\* The receiver is the service of module ReportStream: a report is the one whose
\* last frame completed it.
LastOf(r) == <<Last(r.data).src, Last(r.data).msg>>

Stream == INSTANCE ReportStream WITH
    Reports <- Messages,
    queue <- [i \in DOMAIN queue |-> LastOf(queue[i])],
    taken <- [i \in DOMAIN taken |-> LastOf(taken[i])]

ImplementsStream == Stream!Stream

\* The comment in _handle_multi_frame: "We joined mid-stream - every frame
\* mismatches until the next FIRST resets us cleanly": no report is put together
\* from two messages of a stream.
JoinsMidStreamCleanly ==
    \A r \in Reports : \A i, j \in DOMAIN r.data :
        r.data[i].src = r.data[j].src => r.data[i].msg = r.data[j].msg
=============================================================================
