--------------------------- MODULE AsyncTcpClient ---------------------------
(***************************************************************************)
(* AsyncThingSetTCP (transport/async_tcp.py): the coroutines that call     *)
(* _rpc, the reader task, connect() and close(), on one asyncio event      *)
(* loop, with the TCP connection and the device at its other end.          *)
(*                                                                         *)
(* An action is the code between two suspension points of a coroutine: the *)
(* event loop interleaves nothing within it.  A message is the call it     *)
(* belongs to: the request of c on toDevice, the reply to c on fromDevice  *)
(* and on rx_queue.  How bytes become replies is module StreamFraming.     *)
(***************************************************************************)
EXTENDS Naturals, Sequences, SequencesExt

CONSTANT Calls          \* the calls of _rpc made during the client's life

VARIABLES
    closed,             \* self._closed
    writer,             \* self._writer is not None
    opening,            \* connect() is awaiting open_connection
    closing,            \* close() is awaiting the cancelled reader task
    reader,             \* the reader task: none, running or ended
    rx_queue,           \* self._rx_queue
    lockq,              \* self._lock: its holder, then the waiters in order
    pc,                 \* pc[c]: where call c is suspended
    outcome,            \* outcome[c]: what _rpc returned or raised
    link,               \* the connection: down, up, eof (peer closed) or lost
    toDevice,           \* requests the device has not taken yet
    fromDevice,         \* replies the reader task has not read yet
    inFlight,           \* history: replies still on their way when c was sent
    reopened            \* history: a connect() finished after close() began

client == <<closed, writer, opening, closing, reader, reopened>>
calls  == <<rx_queue, lockq, pc, outcome, inFlight>>
wire   == <<link, toDevice, fromDevice>>
vars   == <<client, calls, wire>>

Pending      == [kind |-> "pending"]
Returned(k)  == [kind |-> k]
Reply(r)     == [kind |-> "reply", to |-> r]

Failures == {"RuntimeError", "AttributeError", "ConnectionResetError"}
Outcomes == {Pending, Returned("None")} \cup {Returned(k) : k \in Failures}
            \cup {Reply(r) : r \in Calls}

Init ==
    /\ closed = FALSE /\ writer = FALSE
    /\ opening = FALSE /\ closing = FALSE
    /\ reader = "none"
    /\ rx_queue = <<>> /\ lockq = <<>>
    /\ pc = [c \in Calls |-> "new"]
    /\ outcome = [c \in Calls |-> Pending]
    /\ link = "down" /\ toDevice = <<>> /\ fromDevice = <<>>
    /\ inFlight = [c \in Calls |-> {}]
    /\ reopened = FALSE

(***************************************************************************)
(* connect() and close().  connect() looks at the writer only, not at      *)
(* closed; close() does its work once and looks at neither of the two      *)
(* suspension points of connect().                                         *)
(***************************************************************************)
ConnectBegin ==
    /\ ~writer /\ ~opening
    /\ opening' = TRUE
    /\ UNCHANGED <<closed, writer, closing, reader, reopened, calls, wire>>

ConnectDone ==
    /\ opening
    /\ opening' = FALSE
    /\ writer' = TRUE
    /\ reader' = "running"
    /\ reopened' = (reopened \/ closed)
    /\ link' = "up" /\ toDevice' = <<>> /\ fromDevice' = <<>>
    /\ UNCHANGED <<closed, closing, calls>>

ConnectFail ==
    /\ opening
    /\ opening' = FALSE
    /\ UNCHANGED <<closed, writer, closing, reader, reopened, calls, wire>>

ReleaseWriter ==
    /\ writer' = FALSE
    /\ link' = "down" /\ toDevice' = <<>> /\ fromDevice' = <<>>

CloseBegin ==
    /\ ~closed
    /\ closed' = TRUE
    /\ \/ /\ reader = "running"
          /\ reader' = "ended"
          /\ closing' = TRUE
          /\ UNCHANGED <<writer, wire>>
       \/ /\ reader # "running"
          /\ ReleaseWriter
          /\ UNCHANGED <<reader, closing>>
    /\ UNCHANGED <<opening, reopened, calls>>

\* Mutant: the reader task is joined and the writer forgotten.
CloseFinishLeaks ==
    /\ closing
    /\ closing' = FALSE
    /\ UNCHANGED <<closed, writer, opening, reader, reopened, calls, wire>>

CloseFinish ==
    /\ closing
    /\ closing' = FALSE
    /\ ReleaseWriter
    /\ UNCHANGED <<closed, opening, reader, reopened, calls>>

(***************************************************************************)
(* _rpc                                                                    *)
(***************************************************************************)
\* The call ends with o and gives the lock to the first waiter.
Leave(c, o, queue) ==
    /\ pc' = [pc EXCEPT ![c] = "done"]
    /\ outcome' = [outcome EXCEPT ![c] = o]
    /\ lockq' = queue

\* Mutant: replies left over from an earlier call stay in the queue.
NoDrain == UNCHANGED rx_queue

\* Throw away what came after an earlier call timed out.
DrainQueue == rx_queue' = <<>>

\* The body of "async with self._lock" up to its first suspension: drain the
\* queue, write the request, and suspend in writer.drain().
Transmit(c, queue) ==
    /\ DrainQueue
    /\ \/ /\ ~writer
          /\ Leave(c, Returned("AttributeError"), Tail(queue))
          /\ UNCHANGED <<toDevice, inFlight>>
       \/ /\ writer /\ link = "lost"
          /\ Leave(c, Returned("ConnectionResetError"), Tail(queue))
          /\ UNCHANGED <<toDevice, inFlight>>
       \/ /\ writer /\ link # "lost"
          /\ toDevice' = IF link = "up" THEN Append(toDevice, c) ELSE toDevice
          /\ inFlight' = [inFlight EXCEPT
                            ![c] = ToSet(fromDevice) \cup ToSet(toDevice)]
          /\ pc' = [pc EXCEPT ![c] = "draining"]
          /\ lockq' = queue
          /\ UNCHANGED outcome

\* Mutant: a call does not wait for its turn.
BeginUnlocked(c) ==
    /\ pc[c] = "new"
    /\ \/ /\ closed \/ ~writer
          /\ Leave(c, Returned("RuntimeError"), lockq)
          /\ UNCHANGED <<rx_queue, inFlight, toDevice>>
       \/ /\ ~closed /\ writer
          /\ Transmit(c, <<c>> \o lockq)
    /\ UNCHANGED <<client, link, fromDevice>>

\* The check at the top of _rpc, then the lock: a free lock is taken without
\* suspending, so the call goes on to its write in the same step.
Begin(c) ==
    /\ pc[c] = "new"
    /\ \/ /\ closed \/ ~writer
          /\ Leave(c, Returned("RuntimeError"), lockq)
          /\ UNCHANGED <<rx_queue, inFlight, toDevice>>
       \/ /\ ~closed /\ writer /\ lockq # <<>>
          /\ pc' = [pc EXCEPT ![c] = "queued"]
          /\ lockq' = Append(lockq, c)
          /\ UNCHANGED <<rx_queue, outcome, inFlight, toDevice>>
       \/ /\ ~closed /\ writer /\ lockq = <<>>
          /\ Transmit(c, <<c>>)
    /\ UNCHANGED <<client, link, fromDevice>>

HoldsLock(c) == lockq # <<>> /\ Head(lockq) = c

Resume(c) ==
    /\ pc[c] = "queued" /\ HoldsLock(c)
    /\ Transmit(c, lockq)
    /\ UNCHANGED <<client, link, fromDevice>>

Drained(c) ==
    /\ pc[c] = "draining"
    /\ pc' = [pc EXCEPT ![c] = "awaiting"]
    /\ UNCHANGED <<rx_queue, lockq, outcome, inFlight, client, wire>>

\* The connection was lost while drain() was suspended.
DrainRaises(c) ==
    /\ pc[c] = "broken"
    /\ Leave(c, Returned("ConnectionResetError"), Tail(lockq))
    /\ UNCHANGED <<rx_queue, inFlight, client, wire>>

\* Mutant: the reply is looked at and stays on the queue.
GetReplyPeeks(c) ==
    /\ pc[c] = "awaiting" /\ rx_queue # <<>>
    /\ Leave(c, Reply(Head(rx_queue)), Tail(lockq))
    /\ UNCHANGED <<rx_queue, inFlight, client, wire>>

GetReply(c) ==
    /\ pc[c] = "awaiting" /\ rx_queue # <<>>
    /\ rx_queue' = Tail(rx_queue)
    /\ Leave(c, Reply(Head(rx_queue)), Tail(lockq))
    /\ UNCHANGED <<inFlight, client, wire>>

\* Mutant: a call that times out keeps the lock.
TimeOutKeepsLock(c) ==
    /\ pc[c] = "awaiting"
    /\ Leave(c, Returned("None"), lockq)
    /\ UNCHANGED <<rx_queue, inFlight, client, wire>>

\* Mutant: the timeout is swallowed and the call has no result.
TimeOutNoResult(c) ==
    /\ pc[c] = "awaiting"
    /\ Leave(c, Pending, Tail(lockq))
    /\ UNCHANGED <<rx_queue, inFlight, client, wire>>

\* wait_for gives up.  It may do so in the same turn of the loop in which a
\* reply reached the queue: that reply stays there.
TimeOut(c) ==
    /\ pc[c] = "awaiting"
    /\ Leave(c, Returned("None"), Tail(lockq))
    /\ UNCHANGED <<rx_queue, inFlight, client, wire>>

(***************************************************************************)
(* _reader_loop                                                            *)
(***************************************************************************)
\* One chunk holds one reply or several; each is put on the queue without a
\* suspension, since the queue has no bound.
Receive ==
    /\ reader = "running" /\ link # "lost"
    /\ \E n \in 1..Len(fromDevice) :
          /\ rx_queue' = rx_queue \o SubSeq(fromDevice, 1, n)
          /\ fromDevice' = SubSeq(fromDevice, n + 1, Len(fromDevice))
    /\ UNCHANGED <<client, lockq, pc, outcome, inFlight, link, toDevice>>

\* Mutant: the end of the stream also forgets the writer.
ReaderEndsDropsWriter ==
    /\ reader = "running"
    /\ \/ link = "lost"
       \/ link = "eof" /\ fromDevice = <<>>
    /\ reader' = "ended"
    /\ writer' = FALSE
    /\ UNCHANGED <<closed, opening, closing, reopened, calls, wire>>

\* An empty chunk (the peer closed) or an exception (the connection is lost)
\* ends the task; the writer stays set.
ReaderEnds ==
    /\ reader = "running"
    /\ \/ link = "lost"
       \/ link = "eof" /\ fromDevice = <<>>
    /\ reader' = "ended"
    /\ UNCHANGED <<closed, writer, opening, closing, reopened, calls, wire>>

(***************************************************************************)
(* The device and the network.                                             *)
(***************************************************************************)
DeviceReplies ==
    /\ link = "up" /\ toDevice # <<>>
    /\ toDevice' = Tail(toDevice)
    /\ fromDevice' = Append(fromDevice, Head(toDevice))
    /\ UNCHANGED <<client, calls, link>>

\* A gateway whose CAN side does not answer, say.
DeviceIsSilent ==
    /\ link = "up" /\ toDevice # <<>>
    /\ toDevice' = Tail(toDevice)
    /\ UNCHANGED <<client, calls, link, fromDevice>>

PeerCloses ==
    /\ link = "up"
    /\ link' = "eof" /\ toDevice' = <<>>
    /\ UNCHANGED <<client, calls, fromDevice>>

PeerResets ==
    /\ link \in {"up", "eof"}
    /\ link' = "lost" /\ toDevice' = <<>> /\ fromDevice' = <<>>
    /\ pc' = [c \in Calls |-> IF pc[c] = "draining" THEN "broken" ELSE pc[c]]
    /\ UNCHANGED <<client, rx_queue, lockq, outcome, inFlight>>

Lifecycle == ConnectBegin \/ ConnectDone \/ ConnectFail \/ CloseBegin \/ CloseFinish

Rpc(c) ==
    Begin(c) \/ Resume(c) \/ Drained(c) \/ DrainRaises(c) \/ GetReply(c) \/ TimeOut(c)

Environment == DeviceReplies \/ DeviceIsSilent \/ PeerCloses \/ PeerResets

Next == Lifecycle \/ (\E c \in Calls : Rpc(c)) \/ Receive \/ ReaderEnds \/ Environment

Spec == Init /\ [][Next]_vars

(***************************************************************************)
(* The event loop runs every coroutine that can run, timers fire, and the  *)
(* kernel takes what is written.  Nothing is assumed of the device, of the *)
(* network's delivery, or of connect().                                    *)
(***************************************************************************)
Fairness ==
    /\ \A c \in Calls : /\ WF_vars(Resume(c))
                        /\ WF_vars(Drained(c))
                        /\ WF_vars(DrainRaises(c))
                        /\ WF_vars(TimeOut(c))
    /\ WF_vars(CloseFinish)

FairSpec == Spec /\ Fairness

(***************************************************************************)
(* Properties                                                              *)
(***************************************************************************)
OnWire == {"draining", "awaiting", "broken"}

InPipeline == ToSet(rx_queue) \cup ToSet(fromDevice) \cup ToSet(toDevice)

\* Every variable has its type, and a call has a result exactly when it ended.
TypeOK ==
    /\ closed \in BOOLEAN /\ writer \in BOOLEAN
    /\ opening \in BOOLEAN /\ closing \in BOOLEAN /\ reopened \in BOOLEAN
    /\ reader \in {"none", "running", "ended"}
    /\ rx_queue \in Seq(Calls) /\ lockq \in Seq(Calls)
    /\ pc \in [Calls -> {"new", "queued", "done"} \cup OnWire]
    /\ outcome \in [Calls -> Outcomes]
    /\ link \in {"down", "up", "eof", "lost"}
    /\ toDevice \in Seq(Calls) /\ fromDevice \in Seq(Calls)
    /\ inFlight \in [Calls -> SUBSET Calls]
    /\ \A c \in Calls : pc[c] = "done" <=> outcome[c] # Pending

\* "the lock keeps one request in flight at a time": the calls between their
\* write and their result are the lock's holder alone, whatever timeouts,
\* failures and closes came before, and everyone else inside _rpc is in line.
OneRequestAtATime ==
    /\ IsInjective(lockq)
    /\ ToSet(lockq) = {c \in Calls : pc[c] \in OnWire \cup {"queued"}}
    /\ \A c \in Calls : pc[c] \in OnWire => HoldsLock(c)

\* No reply is given to two calls, and none that was given is still on its way
\* (a reply peeked at, or put back when a timeout races its arrival).
NoReplyTwice ==
    \A c, d, r \in Calls :
        outcome[c] = Reply(r) => /\ r \notin InPipeline
                                 /\ outcome[d] = Reply(r) => c = d

\* Without correlation IDs a call may be given another call's reply.  That
\* needs a timeout somewhere before: lost connections, unanswered calls, close()
\* and reconnecting never shift replies by themselves.
MixupNeedsTimeout ==
    (\A c \in Calls : outcome[c] # Returned("None"))
        => \A c, r \in Calls : outcome[c] = Reply(r) => r = c

\* What the drain at the top of a call is for: a reply that had reached the
\* queue when a call wrote its request is never that call's result; a wrong
\* reply was still between device and reader task then.
StaleRepliesAreDrained ==
    \A c, r \in Calls : outcome[c] = Reply(r) => r = c \/ r \in inFlight[c]

\* After close() has finished nothing of the connection is left, and nothing
\* more is sent by the calls that were waiting for the lock; unless a connect()
\* that close() overlooked finished later.
CloseReleasesConnection ==
    (closed /\ ~closing /\ ~reopened)
        => /\ ~writer /\ reader # "running" /\ link = "down"
           /\ toDevice = <<>>

\* A call finds no writer after it waited for the lock only on a closed client,
\* not because the peer went away.
AttributeErrorOnlyIfClosed ==
    \A c \in Calls : outcome[c] = Returned("AttributeError") => closed

\* Seen by its callers, the client is the service of module RpcService.
Stage(c) ==
    CASE pc[c] = "new"     -> "new"
      [] pc[c] = "queued"  -> "waiting"
      [] pc[c] \in OnWire  -> "serving"
      [] OTHER             -> "ended"

Answer(c) ==
    CASE outcome[c].kind \in Failures  -> [kind |-> "error"]
      [] outcome[c].kind = "pending"   -> [kind |-> "open"]
      [] OTHER                         -> outcome[c]

Service == INSTANCE RpcService WITH
    stage  <- [c \in Calls |-> Stage(c)],
    answer <- [c \in Calls |-> Answer(c)],
    owed   <- InPipeline

ImplementsService == Service!Service

\* Whatever the device and the network do, a call of _rpc ends.
EveryCallReturns == \A c \in Calls : pc[c] # "new" ~> pc[c] = "done"
=============================================================================
