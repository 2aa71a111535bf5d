--------------------------- MODULE StreamFraming ---------------------------
(***************************************************************************)
(* How the TCP transports cut a byte stream into responses: try_consume    *)
(* and _parse_binary of _protocol.py, called in a loop by                  *)
(* AsyncThingSetTCP._reader_loop and by _TcpLink._handle_message on a      *)
(* buffer that grows by whatever chunk the network delivers.               *)
(*                                                                         *)
(* Bytes are their values.  The cbor2 library is external: Decode(bytes)   *)
(* says what cbor2.load does with a stream of those bytes, which is to     *)
(* load an item and stop at its end, to meet the end of the stream         *)
(* (CBORDecodeEOF), or to refuse them (any other CBORDecodeError).         *)
(***************************************************************************)
EXTENDS Naturals, FiniteSets, Sequences, SequencesExt

CONSTANTS
    Replies,            \* the byte sequences a device may answer with
    MaxReplies,         \* how many it sends
    Decode(_)           \* cbor2.load and cbor2.loads, on a sequence of bytes

ASSUME FramingAssumption ==
    /\ MaxReplies \in Nat
    /\ Replies # {} /\ Replies \subseteq Seq(0..255) \ {<<>>}

VARIABLES
    client,             \* "async": AsyncThingSetTCP; "sync": _TcpLink
    sent,               \* the replies the device has sent
    pending,            \* bytes the client has not received
    buffer,             \* buffer / self._rx_buffer
    parsed,             \* the responses put on the queue
    reading             \* the reader task, or the receive thread, is running

vars == <<client, sent, pending, buffer, parsed, reading>>

BAD_REQUEST == 160      \* the least error status
CBOR_NULL   == 246

(***************************************************************************)
(* What cbor2 may answer, and what is asked of it: that it reads from the  *)
(* left, so that bytes behind an item, or behind the ones it refuses,      *)
(* change nothing.                                                         *)
(***************************************************************************)
Eof       == [kind |-> "eof"]
Malformed == [kind |-> "malformed"]
Item(n)   == [kind |-> "item", end |-> n]

ReadsFromTheLeft(S) ==
    \A s \in S :
        /\ Decode(s) \in {Eof, Malformed} \cup {Item(n) : n \in 1..Len(s)}
        /\ Decode(s) # Eof => \A t \in S : IsPrefix(s, t) => Decode(t) = Decode(s)

After(bytes, offset) == SubSeq(bytes, offset + 1, Len(bytes))

\* Mutant: the marker is left in front of the data.
ParseBinaryKeepsMarker(data) == [status |-> Head(data), data |-> Tail(data)]

(***************************************************************************)
(* _parse_binary: the status, and the data after the first null byte has   *)
(* been taken out.  Data that stops short of an item's end is kept as the  *)
(* exception.  Data that cbor2 refuses is not: that exception is not       *)
(* caught, and leaves try_consume as well.                                 *)
(***************************************************************************)
Payload(data) == RemoveFirst(Tail(data), CBOR_NULL)

Raises(data) == Payload(data) # <<>> /\ Decode(Payload(data)) = Malformed

ParseBinary(data) ==
    LET payload == Payload(data)
    IN  [status |-> Head(data),
         data   |-> IF payload = <<>> THEN <<>>
                    ELSE IF Decode(payload) = Eof THEN <<"error">>
                    ELSE SubSeq(payload, 1, Decode(payload).end)]

(***************************************************************************)
(* try_consume                                                             *)
(***************************************************************************)
Nothing(n) == [found |-> FALSE, raised |-> FALSE, consumed |-> n]
Raised     == [found |-> FALSE, raised |-> TRUE, consumed |-> 0]

Response(data) ==
    IF Raises(data) THEN Raised
    ELSE [found |-> TRUE, raised |-> FALSE, consumed |-> Len(data),
          response |-> ParseBinary(data)]

\* Mutant: a lone error status waits for more bytes.
TryConsumeNoBareError(bytes) ==
    LET marked == Len(bytes) >= 2 /\ bytes[2] = CBOR_NULL
        offset == IF marked THEN 2 ELSE 1
        item   == Decode(After(bytes, offset))
    IN  CASE Len(bytes) < 2 -> Nothing(0)
          [] Len(bytes) = 2 /\ marked -> Response(bytes)
          [] OTHER -> CASE item = Eof       -> Nothing(0)
                        [] item = Malformed -> Nothing(Len(bytes))
                        [] OTHER -> Response(SubSeq(bytes, 1, offset + item.end))

LoneError(bytes) == Len(bytes) = 1 /\ bytes[1] >= BAD_REQUEST

TryConsume(bytes) ==
    LET marked == Len(bytes) >= 2 /\ bytes[2] = CBOR_NULL
        offset == IF marked THEN 2 ELSE 1
        item   == Decode(After(bytes, offset))
    IN  CASE LoneError(bytes) -> Response(bytes)
          [] Len(bytes) < 2 /\ ~LoneError(bytes) -> Nothing(0)
          [] Len(bytes) = 2 /\ marked -> Response(bytes)
          [] OTHER -> CASE item = Eof       -> Nothing(0)
                        [] item = Malformed -> Nothing(Len(bytes))
                        [] OTHER -> Response(SubSeq(bytes, 1, offset + item.end))

(***************************************************************************)
(* The loop around try_consume: it stops at the first buffer that yields   *)
(* no response, or from which it raises, and drops bytes only when it got  *)
(* one.                                                                    *)
(***************************************************************************)
\* Mutant: one response is taken from a chunk.
SplitOnce(bytes) ==
    LET got == TryConsume(bytes)
    IN  IF got.found THEN [rest      |-> SubSeq(bytes, got.consumed + 1, Len(bytes)),
                           responses |-> <<got.response>>, raised |-> FALSE]
        ELSE [rest |-> bytes, responses |-> <<>>, raised |-> got.raised]

Take(s) ==
    LET got == TryConsume(s.rest)
    IN  IF ~got.found THEN [s EXCEPT !.raised = got.raised]
        ELSE [rest      |-> SubSeq(s.rest, got.consumed + 1, Len(s.rest)),
              responses |-> Append(s.responses, got.response),
              raised    |-> FALSE]

Loop(bytes) ==
    LET loop[k \in 0..Len(bytes)] ==
            IF k = 0 THEN [rest |-> bytes, responses |-> <<>>, raised |-> FALSE]
            ELSE Take(loop[k - 1])
    IN  loop

Split(bytes) == Loop(bytes)[Len(bytes)]

(***************************************************************************)
(* The cuts that try_consume takes for the end of a response are left out: *)
(* the second byte of an error, and the first one after a null marker,     *)
(* come with what they follow, and nothing comes with the end of a reply   *)
(* that has no data.                                                       *)
(***************************************************************************)
HasMarker(r) == Len(r) >= 2 /\ r[2] = CBOR_NULL
Bare(r)      == Len(r) = 1 \/ (Len(r) = 2 /\ HasMarker(r))

Start(i) == Len(FlattenSeq(SubSeq(sent, 1, i - 1)))

KindCut(from, to) ==
    \A i \in DOMAIN sent :
        LET r == sent[i]
            s == Start(i)
            e == s + Len(r)
        IN  /\ r[1] >= BAD_REQUEST /\ Len(r) > 1 => to # s + 1
            /\ HasMarker(r) /\ Len(r) > 2 => to # s + 2
            /\ Bare(r) => from >= e \/ to <= e

Received == Len(FlattenSeq(sent)) - Len(pending)

Init ==
    /\ client \in {"async", "sync"}
    /\ sent = <<>> /\ pending = <<>> /\ buffer = <<>> /\ parsed = <<>>
    /\ reading = TRUE

Send(r) ==
    /\ Len(sent) < MaxReplies
    /\ sent' = Append(sent, r)
    /\ pending' = pending \o r
    /\ UNCHANGED <<client, buffer, parsed, reading>>

\* An exception ends the reader task, and its buffer with it.  The receive thread
\* logs it and goes on, with the buffer as it was.
Chunk(n) ==
    /\ reading
    /\ KindCut(Received, Received + n)
    /\ pending' = SubSeq(pending, n + 1, Len(pending))
    /\ LET done == Split(buffer \o SubSeq(pending, 1, n))
           ends == done.raised /\ client = "async"
       IN  /\ buffer' = IF ends THEN <<>> ELSE done.rest
           /\ parsed' = parsed \o done.responses
           /\ reading' = ~ends
    /\ UNCHANGED <<client, sent>>

Next ==
    \/ \E r \in Replies : Send(r)
    \/ \E n \in 1..Len(pending) : Chunk(n)

Spec == Init /\ [][Next]_vars

(***************************************************************************)
(* Properties                                                              *)
(***************************************************************************)
\* What the device meant: the status, and the data after the marker.
Meaning(r) == [status |-> r[1],
               data   |-> IF HasMarker(r) THEN SubSeq(r, 3, Len(r)) ELSE Tail(r)]

\* A response of the protocol, which a device that works sends: an error status,
\* a status and the marker, or a status, perhaps the marker, and one CBOR item.
IsResponse(r) ==
    \/ Len(r) = 1 /\ r[1] >= BAD_REQUEST
    \/ Len(r) = 2 /\ HasMarker(r)
    \/ /\ Len(r) > 1 /\ ~Bare(r)
       /\ LET offset == IF HasMarker(r) THEN 2 ELSE 1
          IN  Decode(After(r, offset)) = Item(Len(r) - offset)

\* A reply without a marker, whose data holds a null byte: _parse_binary takes
\* that byte for the marker.
NullInData(r) == ~HasMarker(r) /\ CBOR_NULL \in ToSet(r)

\* Such a reply, if what is left of its data is not CBOR either: no response comes
\* of it, nor of any reply behind it.
Spoils(r) == Raises(r)

WhollyReceived == {i \in DOMAIN sent : Start(i) + Len(sent[i]) <= Received}

Clean(n) == \A i \in 1..n : ~Spoils(sent[i])

\* Buffers hold bytes, the queue holds responses; the buffer never holds more
\* than the longest reply lacks one byte of, unless a reply of the device makes the
\* receive thread raise, and only the reader task ever ends, by such a reply.
TypeOK ==
    /\ client \in {"async", "sync"} /\ reading \in BOOLEAN
    /\ sent \in Seq(Replies) /\ Len(sent) <= MaxReplies
    /\ pending \in Seq(0..255) /\ buffer \in Seq(0..255)
    /\ \/ \E r \in Replies : Len(buffer) < Len(r)
       \/ client = "sync" /\ ~Clean(Len(sent))
    /\ \A i \in DOMAIN parsed : parsed[i].status \in 0..255
    /\ ~reading => client = "async" /\ ~Clean(Len(sent))

\* Each reply is parsed once, in order, as the device meant it, and as soon as
\* its last byte is here (a caller is waiting for it with a timeout), however data
\* is cut, and however replies share a chunk: up to the first reply from which
\* _parse_binary raises, and none behind that one.
EachReplyOnceInOrder ==
    /\ Len(parsed) = Cardinality({i \in WhollyReceived : Clean(i)})
    /\ \A i \in DOMAIN parsed :
          /\ parsed[i].status = sent[i][1]
          /\ ~NullInData(sent[i]) => parsed[i] = Meaning(sent[i])

\* What is left in the buffer is the beginning of the reply that is arriving;
\* nothing of an earlier reply lingers there to spoil the next one.  A reply from
\* which _parse_binary raises stays in the receive thread's buffer, whole, with
\* everything that comes behind it.
BufferHoldsNextReply ==
    buffer # <<>> =>
        LET next == sent[Len(parsed) + 1]
        IN  /\ Len(parsed) < Len(sent)
            /\ \/ IsStrictPrefix(buffer, next)
               \/ client = "sync" /\ Spoils(next) /\ IsPrefix(next, buffer)

\* try_consume: "On malformed CBOR the whole buffer is consumed to resync", and
\* consumed "is the number of leading bytes the caller should drop": none are
\* left that it said to drop.
ConsumedIsDropped == TryConsume(buffer).consumed = 0
=============================================================================
