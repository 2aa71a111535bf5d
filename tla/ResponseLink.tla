---------------------------- MODULE ResponseLink ----------------------------
(***************************************************************************)
(* The way of a request to the device and of its response back into the    *)
(* queue that the client reads: the connection, the device, and the        *)
(* receive thread of ThingSetTransport (transport/transport.py) with the   *)
(* _handle_message of the link that inherits it.                           *)
(*                                                                         *)
(* The kinds of link differ in when the thread runs and what is thrown     *)
(* away before a request: "tcp" (_TcpLink) and "serial" (_SerialLink) read *)
(* from connect() to disconnect() and throw nothing away; "can"            *)
(* (_IsotpLink) is made anew for every request and ends with its response; *)
(* "async" (AsyncThingSetTCP, see AsyncTcpClient) empties its queue.       *)
(* Bytes are cut into responses by StreamFraming; here a message is whole, *)
(* but for the lines of a serial port that come slower than read_until()   *)
(* waits.  A serial port also carries lines that are no response; those    *)
(* that do not begin as the filter expects are taken for one.  "text" is   *)
(* the serial link too, where another walk uses it.                        *)
(***************************************************************************)
EXTENDS Integers, Sequences

CONSTANTS
    Children,           \* Children[o]: the ids of o's members, in order
    MaxFaults,          \* bound: what the network and the device do wrong
    None

VARIABLES
    kind,
    asked,              \* requests that the device has not answered
    wire,               \* messages on their way to the client
    broken,             \* the connection is gone
    running, thread,    \* _running, and where _thread is
    queue,              \* _queue
    faults,             \* number of faults
    spoilt,             \* history: objects whose requests got no proper answer
    odd                 \* history: a line was cut by the read timeout, or one that is
                        \* no response was not filtered

network == <<asked, wire, broken, faults, spoilt, odd>>
link    == <<kind, asked, wire, broken, running, thread, queue, faults, spoilt, odd>>

(***************************************************************************)
(* A request names objects; a response lists ids or metadata of objects.   *)
(* "about" is the object on whose behalf it was sent.                      *)
(***************************************************************************)
Request(what, about, names) == [what |-> what, about |-> about, names |-> names]

Id(o)       == [is |-> "id", of |-> o]
Nowhere(o)  == [is |-> "nowhere", of |-> o]     \* a path that ends in o's name
Metadata(o) == [is |-> "metadata", of |-> o]

Response(q, form) == [to |-> q, form |-> form]

\* What a device answers to: a request for something that is no id is an error.
Understands(q) == \A i \in DOMAIN q.names : q.names[i].is = "id"

\* The members of one object, or the metadata (or value) of each one named; or a
\* value that is no object's.
Data(r) ==
    IF r.form = "wrong" THEN <<Metadata(None)>>
    ELSE IF r.to.what = "ids"
    THEN [i \in DOMAIN Children[r.to.names[1].of] |-> Id(Children[r.to.names[1].of][i])]
    ELSE [i \in DOMAIN r.to.names |-> Metadata(r.to.names[i].of)]

LinkInit ==
    /\ asked = <<>> /\ wire = <<>> /\ broken = FALSE
    /\ running = FALSE /\ thread = "ended"
    /\ queue = <<>>
    /\ faults = 0 /\ spoilt = {} /\ odd = FALSE

start_receiving ==
    /\ ~running
    /\ running' = TRUE /\ thread' = "receive"

(***************************************************************************)
(* _send                                                                   *)
(***************************************************************************)
\* Mutant: a response that comes late is thrown away before the next request.
KeptNever == <<>>

\* Responses to earlier requests that are here already.
Kept == IF kind \in {"can", "async"} THEN <<>> ELSE queue

\* An _IsotpLink is made, bound and starts its thread.
Opens == IF kind = "can" THEN start_receiving ELSE UNCHANGED <<running, thread>>

\* On a broken connection the request is lost.  _IsotpLink.send gives up after
\* ten attempts, which is a request that is lost too (Loses).
Transmit(q) ==
    /\ queue' = Kept
    /\ Opens
    /\ asked' = IF broken THEN asked ELSE Append(asked, q)
    /\ spoilt' = IF broken THEN spoilt \cup {q.about} ELSE spoilt
    /\ UNCHANGED <<kind, wire, broken, faults, odd>>

\* OSError.  Of a CAN client the new link stays behind, with its thread.
TransmitRaises ==
    /\ broken
    /\ queue' = Kept
    /\ Opens
    /\ UNCHANGED <<kind, network>>

(***************************************************************************)
(* The receive thread                                                      *)
(***************************************************************************)
\* What _parse_text makes of a line.  One that is no response may have hexadecimal
\* digits where the status is, and what follows is no JSON, which is no value.  A
\* piece of one may show the status or not, and the value or part of it.
ParseText(r) ==
    IF r.form \notin {"piece", "log"} THEN {r}
    ELSE {[r EXCEPT !.form = form] :
             form \in {"wrong", "error"} \cup (IF r.form = "piece" THEN {"content"} ELSE {})}

\* What the queue may be then.  A line that begins with "thingset", "uart" or an
\* escape is filtered, and one that cannot be decoded raises.
HandleMessage(r) ==
    IF r.form \in {"noise", "garbled"} THEN {queue}
    ELSE {Append(queue, parsed) : parsed \in ParseText(r)}

\* One turn of the loop: a message, or nothing before receive() times out or
\* raises.  An exception is logged and the loop goes on.
ReceiveLoop ==
    /\ thread = "receive"
    /\ IF wire = <<>>
       THEN UNCHANGED <<wire, queue>>
       ELSE queue' \in HandleMessage(Head(wire)) /\ wire' = Tail(wire)
    /\ thread' = IF running THEN "receive" ELSE "ended"
    /\ UNCHANGED <<kind, asked, broken, running, faults, spoilt, odd>>

(***************************************************************************)
(* The device and the network                                              *)
(***************************************************************************)
Answers ==
    /\ asked # <<>>
    /\ asked' = Tail(asked)
    /\ wire' = Append(wire, Response(Head(asked),
                          IF Understands(Head(asked)) THEN "content" ELSE "error"))
    /\ UNCHANGED <<kind, broken, running, thread, queue, faults, spoilt, odd>>

\* Between two requests no socket of a CAN client is bound.
Vanishes ==
    /\ kind = "can" /\ thread = "ended" /\ wire # <<>>
    /\ wire' = Tail(wire)
    /\ UNCHANGED <<kind, asked, broken, running, thread, queue, faults, spoilt, odd>>

Serial == kind \in {"serial", "text"}

Fault == faults < MaxFaults /\ faults' = faults + 1

\* The request or its response is lost, or the device answers with an error.
Loses ==
    /\ Fault /\ asked # <<>>
    /\ asked' = Tail(asked)
    /\ spoilt' = spoilt \cup {Head(asked).about}
    /\ \/ UNCHANGED wire
       \/ wire' = Append(wire, Response(Head(asked), "error"))
    /\ UNCHANGED <<kind, broken, running, thread, queue, odd>>

\* The response is a line that arrives in two pieces.
Cuts ==
    /\ Serial /\ Fault /\ asked # <<>>
    /\ asked' = Tail(asked)
    /\ wire' = wire \o [i \in 1..2 |-> Response(Head(asked), "piece")]
    /\ odd' = TRUE
    /\ UNCHANGED <<kind, broken, running, thread, queue, spoilt>>

\* A line that is no response: one that the filter knows, one that cannot be
\* decoded, or another, like the end of a shell's line, a log's line or an empty one.
Babbles ==
    /\ Serial /\ running /\ Fault
    /\ \E form \in {"noise", "garbled", "log"} :
          /\ wire' = Append(wire, Response(None, form))
          /\ odd' = (odd \/ form = "log")
    /\ UNCHANGED <<kind, asked, broken, running, thread, queue, spoilt>>

Breaks ==
    /\ ~broken /\ Fault
    /\ broken' = TRUE
    /\ asked' = <<>> /\ wire' = <<>>
    /\ spoilt' = spoilt \cup {asked[i].about : i \in DOMAIN asked}
                        \cup {wire[i].to.about : i \in {j \in DOMAIN wire : wire[j].to # None}}
    /\ UNCHANGED <<kind, running, thread, queue, odd>>

Environment == Answers \/ Vanishes \/ Loses \/ Cuts \/ Babbles \/ Breaks
=============================================================================
