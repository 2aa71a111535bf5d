---------------------------- MODULE ReportStream ----------------------------
(***************************************************************************)
(* What a report receiver promises to "async for ... in receiver", with no *)
(* fragments and no reassembly: each report is yielded at most once, the   *)
(* reports of one sender in the order it made them, and a report that is   *)
(* made while the queue is full is dropped, not one that is in the queue.  *)
(***************************************************************************)
EXTENDS Naturals, Sequences

CONSTANTS
    Senders,
    Reports,            \* <<p, m>>: the m-th message of p
    QueueSize

VARIABLES
    queue,              \* reports waiting for the consumer
    taken,              \* reports yielded so far
    newest,             \* newest[p]: the latest report of p that was complete
    lost                \* how many were dropped

rvars == <<queue, taken, newest, lost>>

StreamInit ==
    /\ queue = <<>> /\ taken = <<>>
    /\ newest = [p \in Senders |-> 0]
    /\ lost = 0

\* A report of p, later than all p made before, is complete.
Offer(p, m) ==
    /\ m > newest[p]
    /\ newest' = [newest EXCEPT ![p] = m]
    /\ \/ /\ Len(queue) < QueueSize
          /\ queue' = Append(queue, <<p, m>>)
          /\ UNCHANGED lost
       \/ /\ Len(queue) >= QueueSize
          /\ lost' = lost + 1
          /\ UNCHANGED queue
    /\ UNCHANGED taken

Yield ==
    /\ queue # <<>>
    /\ taken' = Append(taken, Head(queue))
    /\ queue' = Tail(queue)
    /\ UNCHANGED <<newest, lost>>

StreamNext == Yield \/ \E r \in Reports : Offer(r[1], r[2])

Stream == StreamInit /\ [][StreamNext]_rvars
=============================================================================
