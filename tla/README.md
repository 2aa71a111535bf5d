# python-thingset, modelled in TLA+

ThingSet is a protocol for reading, writing and calling objects on embedded
devices. `python_thingset` holds clients for it over TCP, serial lines and CAN
(request and response, one at a time, no correlation IDs on the wire), and two
receivers for the reports that devices broadcast over UDP and CAN. This
directory holds TLA+ models of the parts whose correctness depends on the order
in which things happen, TLC configurations that check them, and TLAPS proofs.

## The system

| Component | Source (`src/python_thingset/`) | State | Operations |
|---|---|---|---|
| Async TCP client | `transport/async_tcp.py` | `_closed`, `_writer`, `_reader_task`, `_rx_queue`, `_lock` | `connect`, `close`, `_rpc`, reader task |
| Framing of binary responses | `_protocol.py` (`try_consume`, `_parse_binary`) and its two callers | the receive buffer | one call per chunk |
| UDP report receiver | `transport/async_udp.py` | `_transport`, a reassembly buffer per sender, `_queue`, `dropped` | `start`, `close`, `datagram_received`, `__anext__` |
| CAN report receiver | `transport/async_can.py` | `_can_bus`, a reassembly buffer per source, `_queue`, task | `start`, `close`, `_consume_frames`, `__anext__` |
| Report parsing | `_protocol.py` (`parse_report`, `build_single_frame_report`), `report.py` | none | pure |
| Sync TCP and serial clients | `transport/transport.py`, `tcp.py`, `serial.py` | `_running`, thread, queue, buffer | connect, send, receive thread, `get_response` |
| Sync CAN client | `transport/can.py`, `id.py` | address claim state, filters, timer, one ISO-TP link per request | constructor, claim handler, timer, send, receive |
| Client flow and schema walk | `client.py`, `async_client.py`, `schema.py`, `response.py` | the tree under construction | `fetch`, `get`, `update`, `exec`, `discover_schema` |
| Sniffers' schema caches | `../examples/async_*_sniffer.py` | trees, ids seen, background tasks, shared client and lock | fetch, resolve, close |
| Encoders | `encoders/*.py` | none | pure |
| Command line | `cli.py` | none | one request, or a walk over the paths of a serial device |

How they interact. A client method encodes a request, hands it to its transport
and turns the parsed response into a `ThingSetResponse`. The async TCP client
does so from any number of coroutines on one event loop, with a reader task that
feeds a queue. The sync transports have a receive thread that feeds a queue, and
no lock. The report receivers share the reassembly design (buffer per sender,
sequence and message numbers in a header) and a bounded queue from which the
application iterates; they differ in what they do with a fragment that is not
the expected one. The sniffers run a receiver and fetch schemas with a client in
the background.

What is hard, and what makes each component correct:

- *Async TCP client.* Coroutines interleave at every `await`; a reply may come
  late, after its caller has timed out; the connection may be lost, or closed by
  either side, between any two steps. Correct: one request on the wire at a time;
  a reply goes to one call only and, as far as possible without correlation IDs,
  to the right one; every call ends; nothing is left after `close()`.
- *Framing.* Chunks end anywhere. Correct: each response is parsed once, in
  order, when its last byte is there, and nothing of it stays in the buffer.
- *Receivers.* Fragments are lost, repeated, reordered and interleaved; numbers
  in headers wrap; the consumer is slow; the receiver is restarted. Correct:
  only whole messages are reported, none that arrived undisturbed is lost
  without being counted, order per sender is kept, senders do not disturb each
  other.
- *Sync links.* A thread and a caller share a queue that nothing empties before
  a request; the thread must survive what it cannot read and end when it is
  told. Correct: a call that no response was late for gets its own, and
  `disconnect()` ends.
- *CAN address claim.* Constructor, receive thread and timer thread share
  `is_connected`, `node_addr`, the timer and the filters without a lock, and
  several nodes do so on one bus. Correct: an address belongs to one node, the
  application is told its address and keeps it, the constructor ends.
- *Schema walk.* Requests that fail or are answered late in the middle of a
  recursive walk. Correct: the tree is the device's, but for what lies below a
  request that failed, and one late response cannot mislabel it.
- *Schema caches.* Background tasks share one client; worker threads outlive the
  timeout of the coroutine that started them. Correct: a source is decorated
  with its own names, one worker at a time uses the client, every fetch ends.

`PROJECT.json` lists the hazards line by line with the properties that cover
them, the source lines of each definition, and for each property a mutant: a
changed definition under which TLC finds the property violated. Mutants stand
directly before the definition they replace and are used by no specification.

## Modules

| Module | What it is |
|---|---|
| `AsyncTcpClient` | `AsyncThingSetTCP`, its callers, the connection and the device |
| `RpcService` | abstract: calls are served one at a time, a reply goes to one call |
| `AsyncTcpClient_proofs` | theorems about `AsyncTcpClient`, for any set of calls |
| `StreamFraming`, `MCStreamFraming` | `try_consume`, `_parse_binary` and the loop around them, on bytes; the replies the runs use |
| `StreamFraming_proofs` | theorems about `StreamFraming`, for any replies that are responses |
| `Fragments` | fragments, the reassembly buffer and `parse_report`, shared by both receivers |
| `ReportStream` | abstract: each report at most once, in order per sender, the newest is dropped when the queue is full |
| `Fragments_proofs` | lemmas about collecting fragments: what one in its place, out of place or lost does to a buffer |
| `UdpReceiver`, `MCUdpReceiver` | `_UdpReceiverProtocol` and `AsyncThingSetUDPReceiver` with senders and network |
| `CanReceiver`, `MCCanReceiver` | `AsyncThingSetCANReportReceiver` with nodes and bus |
| `UdpReceiver_proofs`, `CanReceiver_proofs` | theorems about both receivers, for any senders, messages and header widths |
| `AddressClaim`, `MCAddressClaim` | `ThingSetCAN`'s address claim: constructors, receive threads and timer threads of several nodes on one bus |
| `AddressClaim_proofs` | theorems about `AddressClaim`, for any nodes, addresses and devices |
| `ResponseLink` | a request's way to the device and its response's way into the queue: `ThingSetTransport` with the link that inherits it |
| `SchemaWalk`, `MCSchemaWalk` | `discover_schema()` of both clients, `get()` of the text client and the command line's walk over paths, over `ResponseLink`; the device the run uses |
| `SchemaWalk_proofs` | theorems about `SchemaWalk`, for any device and every kind of link |
| `SchemaCache` | the `_SchemaCache` of both sniffers: tasks, lock, shared client and worker threads |
| `SchemaCache_proofs` | theorems about `SchemaCache`, for any sources and ids |

`SchemaWalk` composes the client with `ResponseLink`: its steps leave the other's
variables alone, or move them by the other's operators. `AsyncTcpClient`
implements `RpcService`; `UdpReceiver` and `CanReceiver` both
implement `ReportStream`. Each is checked as a `PROPERTY` with a refinement
mapping, and each is proved too.

### AsyncTcpClient

A message is the call it belongs to. An action is the code between two
suspension points, since the event loop interleaves nothing within it:

| Action | Code |
|---|---|
| `ConnectBegin`, `ConnectDone`, `ConnectFail` | `connect()` before and after `await opened` |
| `CloseBegin`, `CloseFinish` | `close()` up to `await task`, and after it |
| `Begin` | `_rpc` up to its first suspension: the check, then a place in line for the lock, or drain and write |
| `Resume` | the lock is free: drain and write |
| `Drained`, `DrainRaises` | `await drain()` returns or raises |
| `GetReply`, `TimeOut` | `wait_for(queue.get())` returns or gives up |
| `Receive`, `ReaderEnds` | `_reader_loop` takes a chunk; ends at EOF or on an exception |
| `DeviceReplies`, `DeviceIsSilent`, `PeerCloses`, `PeerResets` | the device and the network |

The asyncio lock hands itself to its waiters in order and a free lock is taken
without suspending; `lockq` is holder and waiters. `inFlight` and `reopened` are
history: what was still on its way when a call sent its request, and whether a
`connect()` finished after `close()` began. `connect()` is entered by one
coroutine at a time. The bytes of replies are `StreamFraming`'s matter.

### StreamFraming

Bytes are their values, since the code's decisions depend on them. The cbor2
library is the parameter `Decode`: for a sequence of bytes it says whether
`cbor2.load` loads an item and where that ends, meets the end of the data
(`CBORDecodeEOF`), or refuses them (any other `CBORDecodeError`). The runs give it
a decoder for the definite lengths of CBOR in every width (`CborDecode`, in
`MCStreamFraming`). `client` says whose loop it is. `_parse_binary` catches only
`CBORDecodeEOF`, so `try_consume` may raise (`Raises`): then the reader task of the
async client ends, with its buffer (`reading`), while the receive thread of the
sync one logs the exception and goes on with the bytes still in the buffer, from
which it raises again at every later chunk.
The network cuts anywhere but at the three places where `try_consume` cannot
tell a whole response from part of one (`KindCut`): after an error status that has more to come, after a
null marker that has data to come, and it ends a chunk with a reply that has no
data. One `Chunk` is one `read`/`recv` and the whole loop of its caller.

### Fragments, UdpReceiver, CanReceiver

A payload is the sequence of its fragments; a header carries sequence and
message numbers modulo `SeqNums` and `MsgNums`. `ParseReport` gives the possible
verdicts: a whole message is a report unless it is garbage, a strict prefix never
is, and any other payload may parse or not. On CAN a payload that is no report may also
end the receiver's task (`Report`), as a read error may (`Terminates`): the receiver
then stays open and misses everything until it is closed and started again. A sender sends its messages in order;
`Arrive` delivers the next fragment and `Lose` (`Miss` on CAN) drops it. `Stray`
delivers an earlier fragment again, or late if it was lost, so loss and strays
together make every reordering. `datagram_received` and `HandleMessage` are the
whole handlers, from header to queue. They differ where the code does: UDP counts
a fragment out of sequence as seen, CAN does not; UDP makes new buffers with each
`start()`, CAN keeps them; UDP counts dropped reports, CAN does not. In
`CanReceiver` a sender is a stream, and `SourceOf` gives the node it belongs to,
so that one node can have several. The queue of python-can's reader is left out:
a frame goes from the bus through `_consume_frames` in one step, and what a
closing receiver has not taken counts as missed. `asyncio.Queue` with size zero,
which has no bound, is not a value of `QueueSize`. Datagrams too short to have a
payload and frames of other types change nothing and are left out.

History variables: `taken` (what the consumer got), `run` (how many fragments of
a message came in a row), `whole` (how many reports came that way), `heard`,
`newest`, and `forgotten` (what `dropped` was before the last `start()`; on CAN
`lost`). `NothingLost` over UDP counts `forgotten` too: `start()` makes a new
protocol object, whose count begins at zero (see below).

### AddressClaim

One step is a stretch of one thread's code with at most one access that another
thread could come in front of or behind:

| Action | Code |
|---|---|
| `MainSends`, `MainCreates`, `MainStarts` | the constructor in `_negotiate_address`: discovery frame, `Timer(...)`, `start()` |
| `MainReturns`, `MainTimesOut` | its poll of `is_connected`, its deadline |
| `Disconnect` | `disconnect()` |
| `HandleMessage` | the receive thread takes a frame and `_handle_message` goes through the filters; a connected node answers |
| `GivesUp`, `RecvSends`, `RecvCreates`, `RecvStarts` | `_address_claim_handler` of a node that is not connected: cancel, then `_negotiate_address` for the next address |
| `Fire`, `Connects`, `NamesItself`, `Announces` | timers run out; `_address_claim_complete` |
| `Answers` | a device answers for the address it holds |

`can.Bus.send` may raise, in the constructor (which then raises), in the claim
handler (the receive loop swallows it, and the node is left without a timer or
without having answered) and in the timer thread (which ends unannounced). It does
for the nodes in `Refusing`, whenever it likes (`SendRaises`, `DiscoveryRaises`).

A `threading.Timer` is cancelled without effect when it has fired, never calls
back when cancelled before or after `start()`, and raises when started twice, also
if it was cancelled in between; the model
keeps every timer that was made. Identifiers are pairs of target and source.
`refused`, `early`, `tardy` and `together` are history: nodes whose bus refused a
frame, nodes whose answer came before their
timer existed, nodes that gave up when the timer they cancelled had run out
already, and pairs of nodes whose timers ran out at the same time; the properties
say what goes wrong only then.

### ResponseLink and SchemaWalk

`kind` chooses one of four clients, or (`text`) the serial one as `thingset schema`
uses it. They differ where the code does: TCP and
serial keep what is in the queue when they send, the async client empties it,
CAN makes a new link with a new queue and thread for each request. A message is
whole, and its content is what the device would say to the request it answers;
responses carry no number, so the client takes whatever comes. The device and the
network lose, refuse, delay and cut (serial) responses, and break the connection. A
serial line also carries lines that are no response (`Babbles`): those the filter
of `_SerialLink._handle_message` knows, those that cannot be decoded, and others,
which are parsed and queued as a response to nobody (`ParseText`). `odd` is
history: such a line, or a piece of a line, came. `TimeOut` may fire whenever the queue is empty, so a
response may be late in every way. The recursion of `_walk_schema` is a stack of
frames; the two walkers differ in the types they descend into (`Recurses`) and in
nothing else; so the async one does not find what is below a record. `HandleNames` and `PrintChild` are `_schema_text`, which prints each
name of a list and asks for what is below it; a path that the device does not
have (`Nowhere`), because the list answered another request, gets an error.
`spoilt` and `late` are history: objects whose requests got no
proper answer, and timeouts before a response that was to come. `Reference` is
the tree of the device (of `text`, what is printed): `Below` computes it from
`Children` alone, by recursion over the device's groups (`Part`), where the walk
keeps a stack; `LeftOut` names the records below which the async client finds
nothing. `DeviceAssumption` says what makes it a tree: an object is a member
of one group at most and once, no group is below itself, only groups, records and
functions have members. It also limits `Gets`: a text client gets no object twice,
since `spoilt` notes objects and not requests.

### SchemaCache

A step of a task is what it does between two `await`s; a step of a worker is one
access to the client. `Report` is one report of a source with `maybe_start_fetch`
and `maybe_resolve_unknowns`; `Starts`, `Acquires`, `Connected` lead a task to its
request; `WorkerBinds`, `WorkerSends`, `WorkerReceives`, `WorkerRaises` are
`ThingSetCAN._send` and `_recv` in the worker thread; `FetchSucceeds`,
`ResolveSucceeds`, `Fails`, `TimesOut` end a task; `Close` is `close()`.
`isotp` is the one `_isotp` attribute that all workers share: its device, and how
many requests it has not answered. On UDP each task has a client of its own and
the coroutine ends with its timeout. `origin` collects the sources whose answers
went into a tree; `overtaken` says that a worker was given up while it ran.

## What is checked

| Run | Question | Bounds | Distinct states |
|---|---|---|---|
| `tcp` | all of `AsyncTcpClient`, safety, refinement, and that every call ends | 3 calls | 39,921 |
| `framing` | each reply once, in order, nothing left behind, up to one from which `_parse_binary` raises | 2 kinds of client, 11 replies, 3 sent | 29,074 |
| `framing_resync` | *violated*: what `try_consume` says to drop is dropped | 3 replies, 2 sent | |
| `udp_lossy` | whole reports only, order, bounded queue | 2 senders, 6 messages, 2 starts, queue of 2 | 36,918 |
| `udp_faulty` | messages and senders stay apart under strays, none that came in a row is lost | 2 senders, 3 messages, 3 strays, 2 starts | 71,197 |
| `can` | no hole but where numbers came round, order, bounded queue, none lost, with single-frame reports of the same node | 3 streams, 2 nodes, 7 messages, 2 starts, queue of 1 | 493,692 |
| `can_restarted` | *violated*: joining mid-stream is clean | 1 stream, 2 starts, no frame missed while open | |
| `claim` | who may own which address, the application keeps its own, every constructor ends, claims that answer claims die out | 2 nodes that want the first of 3 addresses, of which devices hold two; frames of one of them may be refused | 466,722 |
| `claim_ready` | *violated*: a client that was returned has an address | 2 nodes that want the address of a device, 2 addresses | |
| `walk` | the tree is the device's, late responses mislabel nothing, every walk and `disconnect()` ends | 5 kinds of client, 8 objects (4 below the path walk's root), 2 faults, 3 late responses | 706,288 |
| `cache` | a source's tree is its own, every fetch settles | 2 sources, 1 unknown id, 2 requests per walk | 91,034 |
| `cache_overlap` | *violated*: fetches are serialised | the same, CAN | |

Why the bounds are enough. Three calls are a holder, a waiter and one whose late
reply arrives; a fourth adds no relation between two calls that three lack. Three
replies of each form put every form before and after every other, with one more
to show what lingers. The senders' messages cover SINGLE, FIRST/LAST and
FIRST/CONSECUTIVE/LAST, message numbers wrap within the run (`MsgNums = 2`), and
in `udp_faulty` and `can` sequence numbers do (four and five fragments, `SeqNums = 3`).
Queues of one and two fill up. `MaxStarts`, `MaxStrays`, `MaxReplies` and the lengths
of `Size` bound the runs. Over UDP `MaxLost` is an assumption about the network:
fewer messages of a sender are lost in a row than there are message numbers (256),
and in `udp_lossy` messages have at most `SeqNums` fragments, because the code does
not notice a hole of exactly `SeqNums` fragments. Over CAN numbers come round after
four messages and sixteen frames (128 bytes, or 1024 with CAN FD), which real
traffic does, so nothing bounds what is missed: `NoNarrowHole` says that a report
has no hole but one of `SeqNums` frames or `MsgNums` messages at least, which is all
the header shows. Two nodes and a device are every role an address claim has: one that
holds, one that asks, one that asks at the same time. The address both want is
held, the next is free, so they collide there, and the one after it is held
again, so a node that gives up after the collision asks a device once more; the
bus is full for the last. A third client adds no role, and with three claims can
answer claims for as long as a callback is slow, so the queues of the bus have no
bound; one of the two meets refused frames, any number of them, and one does not; the exemptions (`Crossed`, `together`) do not count on there being two.
The device of `walk` has a group in the root, a
function in the group, an argument in the function, a record and a value, so
every type is descended into or not, and what follows a subtree is there to be
mislabelled; two faults and three late responses reach more than the properties
allow (two late responses do mislabel), and a line that is no response may come behind any request. A fetch and a resolve of two sources are
four tasks, enough for one to overtake and one to wait. `CHECK_DEADLOCK` is off
because calls, replies, messages and reports run out.

Fairness. `FairSpec` lets each call go on when it can: the event loop runs what
is runnable (`Resume`, `DrainRaises`), timers fire (`TimeOut`), the kernel takes
the few bytes of a request (`Drained`), and a cancelled task ends
(`CloseFinish`). Nothing is assumed of the device, of delivery, or of `connect()`:
`EveryCallReturns` holds against a device that never answers. The
receivers have no liveness to state: a report is yielded when the consumer
asks for it, and `close()` wakes no consumer, as documented. In `AddressClaim`
each thread is scheduled, timers fire and devices answer; `Quiet` is an
assumption about time: half a second is longer than any frame takes or any
handler runs, so a timer fires only when nothing is under way (two timers may
fire at once), and the constructor's ten seconds are longer than everything. In
`SchemaWalk` the caller and the receive thread are scheduled, and a device
answers or its answer is lost: `WalkEnds` rests on `get_response`'s timeout, and
holds when the connection breaks. In `SchemaCache` the event loop and the worker
threads run; the sniffer need not close and sources need not report.

### Where code and comments disagree

The violation runs each check what a comment or docstring says.

1. `framing_resync`: after malformed CBOR the buffer is never cleared. Both
   callers leave their loop on `resp is None` before they drop `consumed` bytes.
2. `can_restarted`: the CAN receiver keeps half-collected messages over
   `close()` and `start()` and continues them with frames of another message.
3. `claim_ready`: `is_connected` is set before `node_addr`, so the constructor
   can return a client without an address.
4. `cache_overlap`: `wait_for` cannot stop a worker thread; after a timeout two
   workers use one `ThingSetCAN`, and answers of one source get into the tree of
   another.

Seen while modelling, without a run of their own:

- A call on a connection that was reset raises and does not time out
  (`async_tcp.py:120`).
- A response is returned for a message whose data is yet to come if the network
  cuts behind the null marker (`_protocol.py:156`).
- `CBORDecodeError` from `_parse_binary` leaves `try_consume` (`_protocol.py:198-201`),
  where its docstring (lines 157-158) says that malformed CBOR is consumed. A reply
  that is CBOR, has no marker, and holds a null byte without which it is malformed is
  enough: `TypeOK`, `EachReplyOnceInOrder` and `BufferHoldsNextReply` of `framing`
  say what is left of the connection then.
- Of two UDP fragments that change places the buffer keeps a payload with a hole
  (`async_udp.py:111`).
- `start()` of the UDP receiver begins `dropped` at zero again, which the class calls
  cumulative (`async_udp.py:79-82`, `190-192`).
- Two multi-frame reports of one CAN node in lockstep are mixed (`async_can.py:253`).
- The async walker does not descend into records, where the sync one does
  (`client.py:19-23`) and `async_client.py:8` says that it mirrors the sync surface:
  `TreeIsTheDevices` exempts what is below them (`LeftOut`).
- The serial filter knows three beginnings of lines (`serial.py:48-55`); any other
  line that is no response, such as the Zephyr log line that `cli.py:96` names or an
  empty one, is queued as a response, and the client is one behind from then on:
  `TreeIsTheDevices` and `OneLateMislabelsNothing` exempt such walks (`odd`).
- If `send()` raises in the claim handler, no timer is left, and the constructor
  times out although addresses are free (`can.py:229`): `TimesOutOnlyIfFull` exempts
  such nodes (`refused`).
- A node that gives up its address while the timer of its first claim is still at
  work is connected again by that timer, ignores the answer to its second claim, and
  takes an address that a device holds (`can.py:271`): `HeldAddressesAreLeft` exempts
  it (`tardy`).

## What is proved

`AsyncTcpClient_proofs` proves every safety property of the `tcp` run and its
refinement for any set `Calls`, finite or not, with no assumption about it. The
argument has three layers:

- `LockInv` is `TypeOK` with `OneRequestAtATime`, inductive together: the line
  for the lock has no duplicates, holds exactly the calls that wait or are on the
  wire, and only its head is on the wire. It is what makes `Tail(lockq)` in
  `Leave` right: the one that leaves is the head.
- `ReplyInv` follows the replies on their way, in three parts. `PipelineInv`: the
  three queues between device and caller have no duplicates and are disjoint, and
  what is in them was sent and not handed out. `StaleInv`: while a call is on the
  wire, what is in the queues is its own reply or was in flight when it wrote its
  request. `MixupInv`: as long as no call timed out, only the reply of the call on
  the wire is on its way. The safety properties about replies are conjuncts of
  these or follow from them. None is inductive alone: they say nothing of replies
  that nobody has been given yet.
- `LifecycleInv` ties reader, writer and link together through `connect()` and
  `close()`.

The invariants are checked by TLC on the instance of the `tcp` run before they
are proved. `ClientImplementsService` maps each action to an action of
`RpcService` or a stutter, under these invariants. `TailFacts`, `AppendFacts` and
`MoveFacts` say what taking the head of a queue, appending, and moving a chunk to
the next queue do to its elements and to duplicates; the other modules with proofs
state what they need of it again.

`SchemaCache_proofs` proves both invariants of the `cache` run for any sources,
unknown ids and number of requests (`SchemaCacheAssumption` is all it uses). Its
inductive invariant `IInv` has a part for each hazard: `LockOK`, that the lock is
a queue without duplicates of exactly the tasks that have asked for it, and the
one inside is its head, which is what makes `Tail(lock)` right when a task ends;
`JobOK`, that what a task was spawned for is marked in `_trees`, `_fetching` or
`_resolved_ids`, so no later report spawns it again; `OwnOK`, that as long as no
worker was given up there is one worker, it belongs to the task inside, and the
shared link is bound to its device. `TreeIsItsOwn` alone is not inductive: it says
nothing of what a task has heard but not stored, nor of whose link it is.
`CacheOneWorker` states how far the claim that `cache_overlap` refutes does hold.

`UdpReceiver_proofs` and `CanReceiver_proofs` prove the safety properties of the
receivers' runs and that both implement `ReportStream`, for any senders,
messages, garbage, queue size and header widths, with any number of losses and
restarts. What they assume differs:

- `TypeOK` and, over UDP, `NothingLost` assume nothing: strays may spoil a
  message, but one whose fragments came in a row is reported or counted. The
  invariant (`RowInv`) is that the buffer of a sender holds the row its bystander
  noted (`heard`, `run`), unless it was complete. Over CAN this needs
  `OneStreamPerNode`: a node does not send two multi-frame reports in turns
  (single-frame ones may come in between), because one buffer serves the node.
- `OnlyWholeReports` and the refinement over UDP assume `Tame`: nothing arrives
  twice or late, and numbers do not wrap within a message or a gap (`Size` at most
  `SeqNums`, `MaxLost < MsgNums`), as in the instance of `udp_lossy`. The invariant is
  `Ordered`: an open buffer holds everything that was sent of its message so far, or
  it waits for a fragment that is past and will never take another one.
  `OnlyWholeReports` alone says nothing of buffers. The wrap is where this would
  fail: after exactly `SeqNums` fragments the code's comparison holds again.
- `NeverMixed` over UDP assumes `Numbered`, that a sender has no two messages with
  one number, and no more: strays and restarts may happen as they like, so a
  buffer may have holes but never two messages in it.
- `NoNarrowHole` and the refinement over CAN assume nothing, of the streams of a
  node neither. The invariant `HoleInv` says the same of the buffers: what is
  collected begins with a first frame, has no hole but where the numbers came
  round (`NoHole`), and ends before the frame its stream sends next; a buffer that
  is open expects as many frames as it holds. `ExpectedMeets` is the arithmetic: a
  later frame with the expected numbers is the following one, or the numbers came
  round in between.

The refinements map every arrival to `Put` of `ReportStream` or to a stutter:
what is reported is newer than what was reported before of the same sender
(`newest[p] < at[p].msg`). Over CAN a report with a hole is the one that its last
frame completed (`LastOf`). `Fragments_proofs` holds lemmas about `Holds` and
`Ordered`: what a fragment in its place, out of its place, or lost does to them.

`AddressClaim_proofs` proves the five safety properties of the `claim` run for any
nodes, addresses, and devices that hold some of them (`AddressClaimAssumption`:
there is an address, and `None` is none), and whichever frames the bus refuses. Its invariant `IInv` has four parts
besides the types:

- `PlaceOK`: `_addr_claim_timer` is the newest timer, whichever thread made it, so
  `start()` and `cancel()` never meet `None` where the code does not expect it.
- `TimerOK` and `FilterOK`: unless the handler of a node once gave up too late
  (`tardy`), all its older timers are cancelled or stopped, and `is_connected`, `node_addr`,
  the filters and the thread that is about to start a timer agree with the state
  of the newest one. `TimesOutOnlyIfFull` and `AddressIsKept` follow from it.
- `AnswersOK`: a node that listens for claims of an address, and whose timer has
  not run out, is going to be told if a device or an announced node has that
  address: the device or the node has its question, or the answer is in its queue
  or in its handler. This is what `HeldAddressesAreLeft` lacks to be inductive.
  Of an announced node it is said only if the bus took whatever that one sent: the
  frame refused may be its announcement or its answer.
- `ClaimsOK`: whose timer has run out has an address that no device holds and no
  other node has, but one whose timer ran out at the same time. `Fire` establishes
  it: when a timer runs out nothing is on its way (`Quiet`), so whoever would have
  been told is not seeking any more.

The steps are sorted by what they may do to questions and answers (`Heeds`, `Asks`,
`Announced`, `DeviceReplies`, `NodesReply`): an action of one node is shown to keep
these five, and `AnswersPreserved` draws the conclusion for all nodes once. Nodes in
`early`, `tardy` or `refused` are exempt where the properties exempt them, and
nowhere else.
That a timer fires only when nothing is under way is the assumption about time
that the model makes in `Quiet`, and the proofs rest on it.

`StreamFraming_proofs` proves the three properties of the `framing` run for any set
of replies and any number of them, cut and merged in every way `KindCut` allows, and
for both clients. There are two hypotheses. Each reply is a response of the protocol
(`IsResponse`): an error status alone, a status and the marker, or a status, perhaps
the marker, and one CBOR item that ends where the reply does. And the decoder reads
from the left (`ReadsFromTheLeft`): bytes behind an item, or behind those it refuses,
change nothing. That is all that is assumed of cbor2, so lengths and nesting are
whatever it reads. The replies and the decoder of the run are such
(`WellFormedAssumption`, `DecoderAssumption`, which TLC evaluates), the replies of
`framing_resync` are not. A reply that is a response may still make `_parse_binary`
raise (`Spoils`); the theorems speak of what comes before the first of these, and of
what it leaves behind. The invariant `FramingInv`
says that everything is one stream, the replies in a row: the queue holds the
responses to the first `Len(parsed)` of them, the buffer the slice from there to
the last byte received, which is less than the next reply, and `pending` what is
left; or that reply has arrived whole and `_parse_binary` raises from it, and the
sync client holds it with all that came behind it. `TypeOK` and
`BufferHoldsNextReply` say less of what is queued, and
`EachReplyOnceInOrder` says nothing of the buffer: none is inductive.
The lemmas climb from one item to the loop:

- `Outcomes` and `TryConsumeFacts`: what the decoder and `try_consume` may answer.
  `ParseFacts`: what `_parse_binary` makes of a response, and when it raises.
- `WholeIsConsumed` and `PartIsLeft`: a response at the head of the buffer is taken
  off it whole, and the beginning of one is left alone, but for the two beginnings
  that are responses themselves. Here `KindCut` is needed, and nowhere else.
- `SplitFacts`: the loop takes every reply that has arrived, and no more.

`Loop` and the community modules' `FlattenSeq` are recursive functions on
`0..n`. The prover has no induction theorem it can instantiate, so `LeastNatural`
shows that a nonempty set of numbers has a least element, `UpTo`
turns this into induction on a set of numbers, and `Iterated` shows that a function
defined a step at a time exists, which is what lets the definition (a `CHOOSE`) be
unrolled.

`SchemaWalk_proofs` proves the four invariants of the `walk` run for any device
(`Children`, `Type`, `Root`, `Gets`), any kinds of link and any bounds, under
`SchemaWalkAssumption` and `DeviceAssumption`. For `TypeOK` and
`OneLateMislabelsNothing` it argues about what is under way, because responses
carry no number: `Trail` lines up what the responses in the queue, those on the wire
and the unanswered requests belong to, in the order in which the client will take
them. The device answers in order and the receive thread parses in order, so a step
of the link leaves `Trail` as it is or takes something out (`Within`,
`LinkKeepsTrail`); a request is put at its end (`AskedLast`), a response is taken
from its head (`Taken`), and a timeout that was late leaves one in it. The inductive
invariant `IInv` then has, as long as at most one response was late and no line was
odd (cut, or wrongly taken for a response):

- `TrailOK`: nothing is under way between two calls, or at most one response if one
  was late; during a call there is at most that one before its own. If the client
  waits for metadata, the one too many answers a request for ids: the client asked
  for the ids of that group just before, and the same the other way round.
- `AnswerOK`: what a call was given is its own response, or, after a late one, ids
  for metadata.
- `LabelsOK`: the metadata of every frame on the stack belong to the ids beside
  them, and so do those of every node. Ids are no metadata, so the wrong response
  makes no node at all (`NoMetadata`).

`RequestOK` ties the request to the innermost frame, `FramesOK` says that a frame
that is gone through has metadata for each of its ids (why `md[i]` never reads
beyond the list, the last part of `TypeOK`), and `PiecesOK` that half a line, or one
to nobody that is not filtered, is there only if `odd` says so. `OneLateMislabelsNothing` speaks of the finished nodes
only and is far from inductive.

`TreeIsTheDevices` and `OneLateMisplacesNothing` take a second invariant, `WInv`,
about where the walk is: the one says something of the end only, the other nothing
of the frames that are going to make nodes. Its parts, the first four as long as no
response was late and no line was odd:

- `StackTrue`: each frame is for the member that the frame before it is at, has the
  ids and metadata of its group or is asking for them, and all frames after a member
  are in the subtree of that member. `GetsTrue` is the same for `get()`.
- `ComingTrue`: of a call that is under way, something proper will come, or its
  object is spoilt. With `AnswerOK` this says that whatever answers a call answers
  it as the device would. `LinkTrue` rules out what would spoil nothing and still
  not answer.
- `SpoiltTrue`: what was spoilt is the group the walk is at, or lies below a member
  it has passed. So a fault never changes what is yet to come of the reference:
  the subtrees of two members have nothing in common.
- `MadeTrue`: the tree is, frame by frame, the part of `Reference` that comes before
  the walk. Returning from a call completes the part of one member (`ReturnsTrue`),
  and returning from the first frame completes the reference.
- `LagTrue`: a TCP client that has had one late response, and lost nothing, stays
  one response behind: what it takes for metadata is the answer to its request for
  ids. `PlacedTrue`: so it makes no nodes but of metadata that it had before, and
  these, and all that its frames may yet make, are in the reference.

The reference is a recursive function over a tree of any depth and width. There is
no induction theorem to instantiate here either, so `Least` states that a set of
objects has a member with nothing of the set below it (from `WFMin`), `Recursion`
that a recursion along a well-founded relation has a solution, `BelowFixed` that
`Below` is one, and `BelowLocal` that it depends on `without` only inside the
subtree it is about. The walk is compared with `Traversal`, which descends as the
client does; `TraversalIsReference` shows that it is the device's tree without what
lies below `LeftOut`, since two functions that solve one recursion are equal where
there is no lower object at which they differ (`FoundIsThere`). `Flattened` and `FlattenStep` unroll `FlattenSeq` an element at
a time.

Every invariant that a run expects to hold is proved. Only model-checked:
`EveryCallReturns`, `ConstructorEnds`, `AnswersDieOut`, `WalkEnds` and
`EveryFetchSettles`, because liveness is out of the prover's reach.

## Plan

Done: every module of the plan (`AsyncTcpClient` with `RpcService`,
`StreamFraming`, `UdpReceiver`, `CanReceiver`, `AddressClaim`, the sync links with
`SchemaWalk`, `SchemaCache`), and the proofs of `AsyncTcpClient`, `SchemaCache`,
`UdpReceiver`, `CanReceiver`, `AddressClaim`, `StreamFraming` and `SchemaWalk` with
three refinements, of every invariant that holds. Left: concurrent `connect()` and
concurrent UDP `start()`, which nothing in the repository calls: `async with` enters
each once.

Runs are limited to the questions worth asking; as later modules come, the runs
that state the least are replaced.

## Not modelled

The encoders are pure conversions with no state, as are the command line's
arguments and output and most of the text format (`ParseText` says what a cut line
may become). `update` and
`exec` are one request and its response, which `fetch` shows. Socket options,
logging, debug output and what the sniffers print change no state the models
have. A constructor of `ThingSetCAN` that raises leaves its threads behind and is
not followed. A filter that was attached twice counts once (`AddressClaim`).
ISO-TP, asyncio, threading, python-can and cbor2 are external (cbor2 is a parameter
of `StreamFraming`); what the code
relies on is modelled where it is used. What each component lacks is in
`PROJECT.json` under "components".
