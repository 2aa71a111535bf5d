----------------------------- MODULE Fragments -----------------------------
(***************************************************************************)
(* The fragments in which ThingSet devices broadcast their reports, and    *)
(* what both report receivers (transport/async_udp.py and                  *)
(* transport/async_can.py) do with one in the same way: the reassembly     *)
(* buffer, and parse_report on what it collected.                          *)
(*                                                                         *)
(* A payload is the sequence of fragments it consists of.  The header      *)
(* carries the sequence number and the message number only up to a modulus *)
(* (16 and 256 over UDP, 16 and 4 over CAN).                               *)
(***************************************************************************)
EXTENDS Integers, Sequences, SequencesExt

CONSTANTS
    Senders,            \* the devices, or the (ip, port) they send from
    Size,               \* Size[p][m]: fragments of p's m-th message
    Garbage,            \* <<p, m>>: no report, parse_report returns None
    SeqNums,            \* sequence numbers in a header
    MsgNums             \* message numbers in a header

ASSUME FragmentsAssumption ==
    /\ Size \in [Senders -> Seq(Nat \ {0})]
    /\ SeqNums \in Nat \ {0} /\ MsgNums \in Nat \ {0}

Messages == UNION {{p} \X DOMAIN Size[p] : p \in Senders}

Fragment(p, m, i) == [src |-> p, msg |-> m, idx |-> i]

SeqNum(f)  == f.idx % SeqNums
MsgNum(f)  == f.msg % MsgNums
IsFirst(f) == f.idx = 0
IsLast(f)  == f.idx + 1 = Size[f.src][f.msg]

\* The payload of p's m-th message.
Message(p, m) == [i \in 1..Size[p][m] |-> Fragment(p, m, i - 1)]

\* What a device sends after f.
Following(f) == IF IsLast(f) THEN Fragment(f.src, f.msg + 1, 0)
                ELSE [f EXCEPT !.idx = @ + 1]

\* How many fragments of its message came in a row with f, if the last one
\* before it was of message heard and made a row of length run.
InARow(f, heard, run) ==
    CASE IsFirst(f) -> 1
      [] ~IsFirst(f) /\ heard = f.msg /\ run = f.idx -> f.idx + 1
      [] OTHER -> 0

(***************************************************************************)
(* _ReassemblyBuffer                                                       *)
(***************************************************************************)
Fresh == [data |-> <<>>, expected_seq |-> 0, message_number |-> -1, started |-> FALSE]

\* Mutant: the count goes on from where it was.
ResetKeepsSeq(b) == [b EXCEPT !.data = <<>>, !.started = FALSE]

Reset(b) == [b EXCEPT !.data = <<>>, !.expected_seq = 0, !.started = FALSE]

\* Mutant: any open buffer will do.
OrphanIgnoresNumber(b, f) == ~IsFirst(f) /\ ~b.started

\* A fragment from the middle of a message that this buffer does not hold.
Orphan(b, f) == ~IsFirst(f) /\ (~b.started \/ b.message_number # MsgNum(f))

Opened(b, f) ==
    IF IsFirst(f) THEN [Reset(b) EXCEPT !.started = TRUE, !.message_number = MsgNum(f)]
    ELSE b

Expected(b, f) == SeqNum(f) = b.expected_seq % SeqNums

(***************************************************************************)
(* Whether parse_report may return a report.  A strict prefix of a CBOR    *)
(* item is never one, so a truncated message is None; a payload with a     *)
(* hole or with fragments of several messages parses or not, depending on  *)
(* bytes that are not modelled.                                            *)
(***************************************************************************)
ParseReport(data) ==
    IF data = <<>> THEN {FALSE}
    ELSE LET p == data[1].src
             m == data[1].msg
         IN  CASE data = Message(p, m)               -> {<<p, m>> \notin Garbage}
               [] IsStrictPrefix(data, Message(p, m)) -> {FALSE}
               [] OTHER                              -> BOOLEAN

IsWhole(data) == data # <<>> /\ data = Message(data[1].src, data[1].msg)
=============================================================================
