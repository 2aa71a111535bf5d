---------------------------- MODULE AddressClaim ----------------------------
(***************************************************************************)
(* How ThingSetCAN (transport/can.py) claims a node address: nodes on one  *)
(* CAN bus, each with the thread that runs the constructor, the receive    *)
(* thread of _CanLink, and one timer thread per threading.Timer.  The      *)
(* three share is_connected, node_addr, the timer and the filters, and no  *)
(* lock.                                                                   *)
(*                                                                         *)
(* An action is a stretch of one thread's code with at most one access     *)
(* that another thread's step could come in front of or behind.  A frame   *)
(* is its target and source address: both kinds of frame are network       *)
(* management with the same priority, and the bits between are masked out. *)
(* A frame that the bus does not refuse reaches every client on it.        *)
(***************************************************************************)
EXTENDS Integers, Sequences

CONSTANTS
    Nodes,              \* the clients on the bus
    Desired,            \* Desired[n]: the addr n is constructed with
    MaxAddr,            \* MAX_ADDR
    Held,               \* addresses of devices, which answer for them
    Refusing,           \* the clients whose bus may refuse a frame
    None

ASSUME AddressClaimAssumption ==
    /\ MaxAddr \in Nat \ {0}
    /\ Held \subseteq 0..(MaxAddr - 1) /\ Refusing \subseteq Nodes
    /\ Desired \in [Nodes -> 0..(MaxAddr - 1)]
    /\ None \notin Nat

VARIABLES
    main,               \* main[n]: where the constructor is, or how it ended
    recv,               \* recv[n]: where the claim handler is, and its frame
    timers,             \* timers[n]: every Timer made so far
    current,            \* current[n]: _addr_claim_timer, 0 for None
    is_connected,
    node_addr,
    taken,              \* _taken_node_addrs
    filters,            \* _CanLink._rx_filters
    rx,                 \* rx[n]: frames the receive thread has not taken yet
    asked,              \* held addresses that were asked for and not answered
    refused,            \* history: nodes whose bus refused a frame
    early,              \* history: nodes that gave up before their timer existed
    tardy,              \* history: nodes that gave up when it had run out already
    together            \* history: pairs whose timers ran out at the same time

threads == <<main, recv, timers, current>>
shared  == <<is_connected, node_addr, taken, filters>>
bus     == <<rx, asked, refused>>
history == <<early, tardy, together>>
vars    == <<threads, shared, bus, history>>

(***************************************************************************)
(* Identifiers (id.py) and filters                                         *)
(***************************************************************************)
Addresses == 0..(MaxAddr - 1)           \* range(MIN_ADDR, MAX_ADDR)
Anonymous == MaxAddr + 1                \* SRC_ADDR_ANON
Broadcast == MaxAddr + 2                \* SRC_ADDR_BCAST

Frame(target, source) == [target |-> target, source |-> source]

Discovery(a) == Frame(a, Anonymous)
Claim(a)     == Frame(Broadcast, a)

\* A claim filter compares target and source, a discovery filter the target.
\* filters[n] is a set: a filter attached twice, which happens to a node that
\* takes an address once more after it had to leave it, calls its handler twice
\* in the program and once here.
ClaimFilter(a)     == [frame |-> Claim(a), fields |-> {"target", "source"}]
DiscoveryFilter(a) == [frame |-> Discovery(a), fields |-> {"target"}]

Passes(f, n) == \E r \in filters[n] : \A k \in r.fields : f[k] = r.frame[k]

Init ==
    /\ main = [n \in Nodes |-> "new"]
    /\ recv = [n \in Nodes |-> [at |-> "idle", frame |-> Claim(0)]]
    /\ timers = [n \in Nodes |-> <<>>]
    /\ current = [n \in Nodes |-> 0]
    /\ is_connected = [n \in Nodes |-> FALSE]
    /\ node_addr = [n \in Nodes |-> None]
    /\ taken = [n \in Nodes |-> {}]
    /\ filters = [n \in Nodes |-> {}]
    /\ rx = [n \in Nodes |-> <<>>] /\ asked = {} /\ refused = {}
    /\ early = {} /\ tardy = {} /\ together = {}

OnBus(n) == main[n] \notin {"new", "closed"}

\* n sends f: the others on the bus receive it, and a device whose address is
\* asked for will answer.  pending is rx with what n has already taken from it.
Send(n, f, pending) ==
    /\ rx' = [m \in Nodes |-> IF m # n /\ OnBus(m) THEN Append(pending[m], f)
                                                    ELSE pending[m]]
    /\ asked' = asked \cup ({f.target} \cap Held)
    /\ UNCHANGED refused

\* Bus.send raises: the frame is on no bus.
SendRaises(n, pending) ==
    /\ n \in Refusing
    /\ refused' = refused \cup {n}
    /\ rx' = pending
    /\ UNCHANGED asked

SetTimer(n, i, state) == timers' = [timers EXCEPT ![n][i].state = state]

\* threading.Timer: "cancelled" before its start, or "stopped" after it, it never
\* calls back; a callback that has begun is not called off.
CancelTimer(n) ==
    LET state == timers[n][current[n]].state
    IN  timers' = CASE state = "made"    -> [timers EXCEPT ![n][current[n]].state = "cancelled"]
                    [] state = "waiting" -> [timers EXCEPT ![n][current[n]].state = "stopped"]
                    [] OTHER             -> timers

(***************************************************************************)
(* _negotiate_address, in either thread, in its three steps                *)
(***************************************************************************)
Listen(n, a) ==
    /\ is_connected' = [is_connected EXCEPT ![n] = FALSE]
    /\ filters' = [filters EXCEPT ![n] = @ \cup {ClaimFilter(a)}]
    /\ UNCHANGED <<node_addr, taken, timers, current>>

SendDiscovery(n, a) == Listen(n, a) /\ Send(n, Discovery(a), rx)

\* The filter stays; there will be no timer.
DiscoveryRaises(n, a) == Listen(n, a) /\ SendRaises(n, rx)

CreateTimer(n, a) ==
    /\ timers' = [timers EXCEPT ![n] = Append(@, [addr |-> a, state |-> "made"])]
    /\ current' = [current EXCEPT ![n] = Len(timers[n]) + 1]
    /\ UNCHANGED <<shared, bus>>

\* start() of whatever timer _addr_claim_timer is by now.
StartTimer(n) ==
    /\ timers[n][current[n]].state \in {"made", "cancelled"}
    /\ SetTimer(n, current[n],
                IF timers[n][current[n]].state = "made" THEN "waiting" ELSE "stopped")
    /\ UNCHANGED <<current, shared, bus>>

\* RuntimeError: threads can only be started once.
StartRaises(n) ==
    /\ timers[n][current[n]].state \notin {"made", "cancelled"}
    /\ UNCHANGED <<timers, current, shared, bus>>

(***************************************************************************)
(* The constructor and disconnect()                                        *)
(***************************************************************************)
MainGoes(n, from, to) ==
    /\ main[n] = from
    /\ main' = [main EXCEPT ![n] = to]
    /\ UNCHANGED <<recv, history>>

\* Mutant: the timer is started before there is one.
MainSendsStarts(n) == MainGoes(n, "new", "start") /\ SendDiscovery(n, Desired[n])

MainSends(n) ==
    \/ MainGoes(n, "new", "create") /\ SendDiscovery(n, Desired[n])
    \/ MainGoes(n, "new", "raised") /\ DiscoveryRaises(n, Desired[n])

MainCreates(n) == MainGoes(n, "create", "start") /\ CreateTimer(n, Desired[n])

MainStarts(n) ==
    \/ MainGoes(n, "start", "poll") /\ StartTimer(n)
    \/ MainGoes(n, "start", "raised") /\ StartRaises(n)

MainReturns(n) ==
    /\ MainGoes(n, "poll", "ready")
    /\ is_connected[n]
    /\ UNCHANGED <<timers, current, shared, bus>>

\* Nothing of n is under way: no frame, no handler, no timer.
Settled(n) ==
    /\ rx[n] = <<>> /\ recv[n].at = "idle" /\ asked = {}
    /\ \A i \in DOMAIN timers[n] : timers[n][i].state \in {"made", "cancelled", "stopped", "done"}

\* Mutant: the constructor waits without a deadline.
MainWaits(n) ==
    /\ MainGoes(n, "poll", "poll")
    /\ ~is_connected[n]
    /\ UNCHANGED <<timers, current, shared, bus>>

\* The deadline: CONNECT_TIMEOUT_MS is long enough for whatever is under way.
MainTimesOut(n) ==
    /\ MainGoes(n, "poll", "timed out")
    /\ ~is_connected[n] /\ Settled(n)
    /\ UNCHANGED <<timers, current, shared, bus>>

\* stop_receiving() joins the receive thread.  is_connected stays as it is.
Disconnect(n) ==
    /\ MainGoes(n, "ready", "closed")
    /\ recv[n].at = "idle"
    /\ filters' = [filters EXCEPT ![n] = {}]
    /\ CancelTimer(n)
    /\ rx' = [rx EXCEPT ![n] = <<>>]
    /\ UNCHANGED <<current, is_connected, node_addr, taken, asked, refused>>

(***************************************************************************)
(* The receive thread: _handle_message and _address_claim_handler          *)
(***************************************************************************)
\* A timer whose callback has begun is not cancelled any more.
TooLate == {"fired", "connected", "named", "done"}

NotesCrossing(n) ==
    /\ early' = IF current[n] = 0 THEN early \cup {n} ELSE early
    /\ tardy' = IF current[n] # 0 /\ timers[n][current[n]].state \in TooLate
                THEN tardy \cup {n} ELSE tardy
    /\ UNCHANGED together

RecvGoes(n, to) == recv' = [recv EXCEPT ![n].at = to]

Taken(n) == [rx EXCEPT ![n] = Tail(@)]

\* Mutant: a connected node does not defend its address.
HandleMessageIgnores(n) ==
    /\ OnBus(n) /\ recv[n].at = "idle" /\ rx[n] # <<>>
    /\ LET f == Head(rx[n])
       IN  /\ recv' = [recv EXCEPT ![n] = IF Passes(f, n) /\ ~is_connected[n]
                                          THEN [at |-> "taken", frame |-> f] ELSE @]
           /\ rx' = Taken(n)
    /\ UNCHANGED <<main, timers, current, shared, asked, refused, history>>

\* A frame that no filter lets through is dropped.  A connected node claims its
\* address; the f-string of the log raises if it has none yet, send() may raise,
\* and the receive loop goes on.
HandleMessage(n) ==
    /\ OnBus(n) /\ recv[n].at = "idle" /\ rx[n] # <<>>
    /\ LET f == Head(rx[n])
       IN  \/ /\ ~Passes(f, n) \/ (is_connected[n] /\ node_addr[n] = None)
              /\ rx' = Taken(n)
              /\ UNCHANGED <<recv, asked, refused>>
           \/ /\ Passes(f, n) /\ is_connected[n] /\ node_addr[n] # None
              /\ Send(n, Claim(node_addr[n]), Taken(n)) \/ SendRaises(n, Taken(n))
              /\ UNCHANGED recv
           \/ /\ Passes(f, n) /\ ~is_connected[n]
              /\ recv' = [recv EXCEPT ![n] = [at |-> "taken", frame |-> f]]
              /\ rx' = Taken(n)
              /\ UNCHANGED <<asked, refused>>
    /\ UNCHANGED <<main, timers, current, shared, history>>

\* Mutant: the handler leaves the timer alone.
GivesUpKeepsTimer(n) ==
    /\ recv[n].at = "taken" /\ current[n] # 0
    /\ taken' = [taken EXCEPT ![n] = @ \cup {recv[n].frame.source}]
    /\ RecvGoes(n, IF Addresses \subseteq taken'[n] THEN "idle" ELSE "send")
    /\ NotesCrossing(n)
    /\ UNCHANGED <<main, timers, current, is_connected, node_addr, filters, bus>>

\* Mutant: the handler does not look for another address.
GivesUpForGood(n) ==
    /\ recv[n].at = "taken" /\ current[n] # 0
    /\ CancelTimer(n)
    /\ filters' = [filters EXCEPT ![n] = @ \ {ClaimFilter(recv[n].frame.source)}]
    /\ taken' = [taken EXCEPT ![n] = @ \cup {recv[n].frame.source}]
    /\ RecvGoes(n, "idle")
    /\ NotesCrossing(n)
    /\ UNCHANGED <<main, current, is_connected, node_addr, bus>>

\* Cancel the timer and look for another address.  Without a timer yet cancel()
\* is an AttributeError; without an address left it is an IOError.
GivesUp(n) ==
    /\ recv[n].at = "taken"
    /\ IF current[n] = 0
       THEN /\ RecvGoes(n, "idle")
            /\ UNCHANGED <<timers, filters, taken>>
       ELSE /\ CancelTimer(n)
            /\ filters' = [filters EXCEPT ![n] = @ \ {ClaimFilter(recv[n].frame.source)}]
            /\ taken' = [taken EXCEPT ![n] = @ \cup {recv[n].frame.source}]
            /\ RecvGoes(n, IF Addresses \subseteq taken'[n] THEN "idle" ELSE "send")
    /\ NotesCrossing(n)
    /\ UNCHANGED <<main, current, is_connected, node_addr, bus>>

\* The next address is chosen and remembered in recv[n].frame.  An exception of
\* send() is swallowed by the receive loop: no timer is left.
RecvSends(n) ==
    /\ recv[n].at = "send"
    /\ LET free == Addresses \ taken[n]
           next == CHOOSE a \in free : \A b \in free : a <= b
       IN  \/ /\ recv' = [recv EXCEPT ![n] = [at |-> "create", frame |-> Discovery(next)]]
              /\ SendDiscovery(n, next)
           \/ RecvGoes(n, "idle") /\ DiscoveryRaises(n, next)
    /\ UNCHANGED <<main, history>>

RecvCreates(n) ==
    /\ recv[n].at = "create"
    /\ RecvGoes(n, "start")
    /\ CreateTimer(n, recv[n].frame.target)
    /\ UNCHANGED <<main, history>>

RecvStarts(n) ==
    /\ recv[n].at = "start"
    /\ RecvGoes(n, "idle")
    /\ StartTimer(n) \/ StartRaises(n)
    /\ UNCHANGED <<main, history>>

(***************************************************************************)
(* The timer threads: _address_claim_complete                              *)
(***************************************************************************)
Waiting == UNION {{<<n, i>> : i \in {j \in DOMAIN timers[n] :
                                        timers[n][j].state = "waiting"}} : n \in Nodes}

\* Half a second is long: every frame sent meanwhile has arrived and been
\* handled, every callback that had begun has ended, and so has the negotiation
\* of every constructor.
Quiet ==
    /\ asked = {}
    /\ \A n \in Nodes :
          /\ recv[n].at = "idle" /\ rx[n] = <<>> /\ main[n] \notin {"create", "start"}
          /\ \A i \in DOMAIN timers[n] :
                timers[n][i].state \notin {"fired", "connected", "named"}

\* The timers in S run out at about the same time.
Fire ==
    /\ Quiet
    /\ \E S \in (SUBSET Waiting) \ {{}} :
          /\ timers' = [n \in Nodes |-> [i \in DOMAIN timers[n] |->
                IF <<n, i>> \in S THEN [timers[n][i] EXCEPT !.state = "fired"]
                                 ELSE timers[n][i]]]
          /\ together' = together \cup
                {t \in SUBSET Nodes : \E p, q \in S : p[1] # q[1] /\ t = {p[1], q[1]}}
    /\ UNCHANGED <<main, recv, current, shared, bus, early, tardy>>

CompleteGoes(n, i, from, to) ==
    /\ timers[n][i].state = from
    /\ SetTimer(n, i, to)
    /\ UNCHANGED <<main, recv, current, history>>

Connects(n, i) ==
    /\ CompleteGoes(n, i, "fired", "connected")
    /\ is_connected' = [is_connected EXCEPT ![n] = TRUE]
    /\ UNCHANGED <<node_addr, taken, filters, bus>>

NamesItself(n, i) ==
    /\ CompleteGoes(n, i, "connected", "named")
    /\ node_addr' = [node_addr EXCEPT ![n] = timers[n][i].addr]
    /\ UNCHANGED <<is_connected, taken, filters, bus>>

\* Mutant: the claim filter of the address that is now n's own stays.
AnnouncesKeepsFilter(n, i) ==
    /\ CompleteGoes(n, i, "named", "done")
    /\ taken' = [taken EXCEPT ![n] = {}]
    /\ filters' = [filters EXCEPT ![n] = @ \cup {DiscoveryFilter(node_addr[n])}]
    /\ IF OnBus(n) THEN Send(n, Claim(node_addr[n]), rx) ELSE UNCHANGED bus
    /\ UNCHANGED <<is_connected, node_addr>>

\* When send() raises, as it does on a bus that was shut down, the timer thread
\* ends and the claim is not announced.
Announces(n, i) ==
    /\ CompleteGoes(n, i, "named", "done")
    /\ taken' = [taken EXCEPT ![n] = {}]
    /\ filters' = [filters EXCEPT ![n] = (@ \ {ClaimFilter(node_addr[n])})
                                         \cup {DiscoveryFilter(node_addr[n])}]
    /\ \/ OnBus(n) /\ Send(n, Claim(node_addr[n]), rx)
       \/ OnBus(n) /\ SendRaises(n, rx)
       \/ ~OnBus(n) /\ UNCHANGED bus
    /\ UNCHANGED <<is_connected, node_addr>>

\* A device answers for its address.
Answers(a) ==
    /\ a \in asked
    /\ asked' = asked \ {a}
    /\ rx' = [m \in Nodes |-> IF OnBus(m) THEN Append(rx[m], Claim(a)) ELSE rx[m]]
    /\ UNCHANGED <<threads, shared, refused, history>>

Main(n) ==
    MainSends(n) \/ MainCreates(n) \/ MainStarts(n) \/ MainReturns(n) \/ MainTimesOut(n)

Receive(n) ==
    HandleMessage(n) \/ GivesUp(n) \/ RecvSends(n) \/ RecvCreates(n) \/ RecvStarts(n)

Timer(n) ==
    \E i \in DOMAIN timers[n] :
        Connects(n, i) \/ NamesItself(n, i) \/ Announces(n, i)

Next ==
    \/ \E n \in Nodes : Main(n) \/ Receive(n) \/ Timer(n) \/ Disconnect(n)
    \/ Fire
    \/ \E a \in Held : Answers(a)

Spec == Init /\ [][Next]_vars

(***************************************************************************)
(* Threads are scheduled, timers fire and devices answer; nobody has to    *)
(* disconnect.                                                             *)
(***************************************************************************)
Fairness ==
    /\ \A n \in Nodes : WF_vars(Main(n)) /\ WF_vars(Receive(n)) /\ WF_vars(Timer(n))
    /\ WF_vars(Fire)
    /\ \A a \in Held : WF_vars(Answers(a))

FairSpec == Spec /\ Fairness

(***************************************************************************)
(* Properties                                                              *)
(***************************************************************************)
Frames == [target : 0..Broadcast, source : 0..Broadcast]

TimerStates ==
    {"made", "waiting", "cancelled", "stopped", "fired", "connected", "named", "done"}

\* Every variable has its type, and a step that starts or cancels a timer finds
\* one.
TypeOK ==
    /\ main \in [Nodes -> {"new", "create", "start", "poll", "ready", "raised",
                           "timed out", "closed"}]
    /\ recv \in [Nodes -> [at : {"idle", "taken", "send", "create", "start"},
                           frame : Frames]]
    /\ timers \in [Nodes -> Seq([addr : Addresses, state : TimerStates])]
    /\ \A n \in Nodes : current[n] \in 0..Len(timers[n])
    /\ is_connected \in [Nodes -> BOOLEAN]
    /\ node_addr \in [Nodes -> Addresses \cup {None}]
    /\ taken \in [Nodes -> SUBSET (Addresses \cup {Anonymous})]
    /\ filters \in [Nodes -> SUBSET [frame : Frames, fields : SUBSET {"target", "source"}]]
    /\ rx \in [Nodes -> Seq(Frames)] /\ asked \subseteq Held
    /\ refused \subseteq Refusing /\ early \cup tardy \subseteq Nodes /\ together \subseteq SUBSET Nodes
    /\ \A n \in Nodes : main[n] = "start" \/ recv[n].at = "start" => current[n] > 0

\* A node that listens as the owner of an address.
Owns(n, a) ==
    OnBus(n) /\ is_connected[n] /\ node_addr[n] = a /\ DiscoveryFilter(a) \in filters[n]

\* Nodes whose handler crossed with the timer it should have cancelled.
Crossed == early \cup tardy

\* An address that a device answers for is not taken, also when frames are
\* refused, unless the handler crossed with the timer.  A handler that came too
\* late asks for the next address, while the callback of the first timer sets
\* is_connected: then no answer is heeded.
HeldAddressesAreLeft ==
    \A n \in Nodes, a \in Held : Owns(n, a) => n \in Crossed

\* Two nodes own one address only if the timers of both ran out before either
\* had announced its claim, a handler crossed with its timer, or the bus refused
\* the announcement or the answer of one: else whoever asks later is told, and
\* whoever still waits gives way to an announcement.
OneOwnerPerAddress ==
    \A n, m \in Nodes : \A a \in Addresses :
        n # m /\ Owns(n, a) /\ Owns(m, a)
            => {n, m} \in together \/ {n, m} \cap (Crossed \cup refused) # {}

\* While the bus takes every frame of the node, its constructor times out only if
\* the bus is full, whatever starts, cancels and answers cross.  (The IOError of
\* the handler is swallowed by the receive thread, but so is what send() raises.)
\* A node that gave up too late may have had its list emptied by the callback.
TimesOutOnlyIfFull ==
    \A n \in Nodes :
        main[n] = "timed out" => Addresses \subseteq taken[n] \/ n \in tardy \cup refused

\* An address that the application was given is not taken away from it while it
\* uses the client, unless the handler crossed with the timer.
AddressIsKept ==
    [][\A n \in Nodes :
          /\ main[n] = "ready" /\ main'[n] = "ready"
          /\ node_addr[n] # None /\ node_addr'[n] # node_addr[n]
          => n \in Crossed]_vars

\* Every constructor returns or raises: no node waits for a claim that nobody
\* will answer or for a timer that nobody started.
ConstructorEnds ==
    \A n \in Nodes : main[n] = "new" ~> main[n] \notin {"new", "create", "start", "poll"}

\* A connected node answers whatever passes its filters, so a claim may answer a
\* claim.  Two nodes that own one address, or left a filter behind for the
\* address they gave up, do not go on doing so for ever: again and again the bus
\* is silent.
AnswersDieOut == []<>(\A n \in Nodes : rx[n] = <<>>)

\* "Without this, callers would race _send against a still-None node_addr": when
\* the constructor has returned, the client has an address.
ReadyHasAddress == \A n \in Nodes : main[n] = "ready" => node_addr[n] # None
=============================================================================
