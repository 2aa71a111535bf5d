----------------------------- MODULE SchemaCache -----------------------------
(***************************************************************************)
(* The _SchemaCache of the two example sniffers (examples/                 *)
(* async_can_sniffer.py and async_udp_sniffer.py): a background task       *)
(* fetches the schema of each source that reports, others resolve ids that *)
(* the schema does not have.                                               *)
(*                                                                         *)
(* On CAN all tasks share one ThingSetCAN and a lock, and each request     *)
(* runs in a worker thread, which wait_for() cannot stop.  On UDP every    *)
(* task has its own AsyncThingSetTCP and no thread: its coroutine is       *)
(* cancelled.  A step of a task is what it does from one await to the      *)
(* next; a step of a worker is one access to the client.                   *)
(***************************************************************************)
EXTENDS Integers, Sequences, FiniteSets

CONSTANTS
    Variants,           \* "can" and "udp"
    Sources,            \* the nodes, or (IP, EUI) pairs, that report
    Unknown,            \* ids in their reports that no schema has
    Rounds,             \* the requests that a discover_schema makes
    None

ASSUME SchemaCacheAssumption ==
    /\ Variants \subseteq {"can", "udp"}
    /\ Rounds \in Nat \ {0}

VARIABLES
    variant,
    sniffer,            \* "listening" or "closed"
    trees,              \* _trees: "absent", "failed" (None) or "cached"
    origin,             \* the sources whose answers are in a tree
    fetching,           \* _fetching
    resolved_ids,       \* _resolved_ids
    tasks,              \* every task made so far, with its worker
    lock,               \* _client_lock: its holder, then those that wait
    client,             \* whether _client is there
    isotp,              \* the client's _isotp: its device, and what it was asked
    overtaken           \* history: a worker was given up while it ran

cache == <<trees, origin, fetching, resolved_ids>>
vars  == <<variant, sniffer, cache, tasks, lock, client, isotp, overtaken>>

Init ==
    /\ variant \in Variants
    /\ sniffer = "listening"
    /\ trees = [s \in Sources |-> "absent"]
    /\ origin = [s \in Sources |-> {}]
    /\ fetching = {}
    /\ resolved_ids = [s \in Sources |-> {}]
    /\ tasks = <<>> /\ lock = <<>> /\ client = FALSE
    /\ isotp = None
    /\ overtaken = FALSE

(***************************************************************************)
(* Reports                                                                 *)
(***************************************************************************)
Task(what, s, ids) ==
    [what |-> what, source |-> s, ids |-> ids, at |-> "new",
     worker |-> "none", left |-> 0, heard |-> {}]

\* Mutant: a fetch under way does not count.
HasTree(s) == trees[s] # "absent"

has_entry(s) == trees[s] # "absent" \/ s \in fetching

\* The tasks they spawn.
maybe_start_fetch(s) == IF has_entry(s) THEN <<>> ELSE <<Task("fetch", s, {})>>

maybe_resolve_unknowns(s, ids) ==
    LET to_resolve == ids \ resolved_ids[s]
    IN  IF trees[s] # "cached" \/ to_resolve = {} THEN <<>>
        ELSE <<Task("resolve", s, to_resolve)>>

\* The tasks are spawned, and what they ask for is marked.
Spawned(s, fetch, resolve) ==
    /\ tasks' = tasks \o fetch \o resolve
    /\ fetching' = IF fetch = <<>> THEN fetching ELSE fetching \cup {s}
    /\ resolved_ids' = IF resolve = <<>> THEN resolved_ids
                       ELSE [resolved_ids EXCEPT ![s] = @ \cup resolve[1].ids]

\* A report of s with ids that no schema has.  Ids nested in its values are looked
\* up later in the same turn of the loop, as those of a second report would be.
Report(s, ids) ==
    /\ sniffer = "listening"
    /\ Spawned(s, maybe_start_fetch(s), maybe_resolve_unknowns(s, ids))
    /\ UNCHANGED <<variant, sniffer, trees, origin, lock, client, isotp, overtaken>>

(***************************************************************************)
(* _fetch and _resolve up to the request                                   *)
(***************************************************************************)
At(t, place) == t \in DOMAIN tasks /\ tasks[t].at = place

FirstStep == IF variant = "udp" THEN "send" ELSE "bind"

\* to_thread(), or the coroutine that wait_for() starts.
Requesting(task) ==
    [task EXCEPT !.at = "requesting", !.worker = FirstStep,
                 !.left = IF task.what = "fetch" THEN Rounds ELSE 1]

\* _ensure_client, with the lock held.
Ensured(task) == IF client THEN Requesting(task) ELSE [task EXCEPT !.at = "connecting"]

Elsewhere == UNCHANGED <<variant, sniffer, cache, isotp, overtaken>>

\* Mutant: nobody waits for the lock.
StartsUnlocked(t) ==
    /\ At(t, "new")
    /\ IF variant = "udp"
       THEN tasks' = [tasks EXCEPT ![t] = Requesting(@)] /\ UNCHANGED lock
       ELSE lock' = Append(lock, t) /\ tasks' = [tasks EXCEPT ![t] = Ensured(@)]
    /\ UNCHANGED client /\ Elsewhere

Starts(t) ==
    /\ At(t, "new")
    /\ IF variant = "udp"
       THEN tasks' = [tasks EXCEPT ![t] = Requesting(@)] /\ UNCHANGED lock
       ELSE /\ lock' = Append(lock, t)
            /\ tasks' = [tasks EXCEPT ![t] = IF lock = <<>> THEN Ensured(@)
                                             ELSE [@ EXCEPT !.at = "waiting"]]
    /\ UNCHANGED client /\ Elsewhere

Acquires(t) ==
    /\ At(t, "waiting") /\ Head(lock) = t
    /\ tasks' = [tasks EXCEPT ![t] = Ensured(@)]
    /\ UNCHANGED <<lock, client>> /\ Elsewhere

\* The constructor of ThingSetCAN has claimed an address (see AddressClaim).
Connected(t) ==
    /\ At(t, "connecting")
    /\ client' = TRUE
    /\ tasks' = [tasks EXCEPT ![t] = Requesting(@)]
    /\ UNCHANGED lock /\ Elsewhere

(***************************************************************************)
(* The worker: ThingSetCAN._send and _recv for each request in turn.  The  *)
(* worker of a task that was given up goes on.                             *)
(***************************************************************************)
Works(t) == tasks[t].worker \in {"bind", "send", "recv"}

Worker(t, step) == t \in DOMAIN tasks /\ tasks[t].worker = step

Goes(t, step) == tasks' = [tasks EXCEPT ![t].worker = step]

Alone == UNCHANGED <<variant, sniffer, cache, lock, client, overtaken>>

\* A new _IsotpLink takes the place of the one before.
WorkerBinds(t) ==
    /\ Worker(t, "bind") /\ Goes(t, "send")
    /\ isotp' = [device |-> tasks[t].source, asked |-> 0, open |-> TRUE]
    /\ Alone

\* The link that is there by now; a closed one raises (WorkerRaises).
WorkerSends(t) ==
    /\ Worker(t, "send") /\ Goes(t, "recv")
    /\ IF variant = "udp" THEN UNCHANGED isotp
       ELSE isotp.open /\ isotp' = [isotp EXCEPT !.asked = @ + 1]
    /\ Alone

\* get_response of the link that is there by now: the answer of the device that
\* this link goes to, or nothing; then the link is closed.
WorkerReceives(t) ==
    /\ Worker(t, "recv")
    /\ \E heard \in {{}, IF variant = "udp" THEN {tasks[t].source}
                         ELSE IF isotp.asked = 0 THEN {} ELSE {isotp.device}} :
          /\ tasks' = [tasks EXCEPT
                ![t].heard = @ \cup heard,
                ![t].left = @ - 1,
                ![t].worker = IF tasks[t].left = 1 THEN "done" ELSE FirstStep]
          /\ isotp' = IF variant = "udp" THEN isotp
                      ELSE [isotp EXCEPT !.asked = IF heard = {} THEN @ ELSE @ - 1,
                                         !.open = FALSE]
    /\ Alone

\* An OSError of the socket, or what the walk raises (see SchemaWalk).
WorkerRaises(t) ==
    /\ Worker(t, "send") /\ Goes(t, "raised")
    /\ UNCHANGED isotp
    /\ Alone

(***************************************************************************)
(* _fetch and _resolve after the request                                   *)
(***************************************************************************)
\* "async with" gives the lock to the task that waits longest.
Ended(t, task) ==
    /\ tasks' = [tasks EXCEPT ![t] = [task EXCEPT !.at = "ended"]]
    /\ lock' = IF variant = "udp" THEN lock ELSE Tail(lock)
    /\ UNCHANGED <<variant, sniffer, resolved_ids, client, isotp>>

Answered(t, what) ==
    /\ At(t, "requesting") /\ Worker(t, "done") /\ tasks[t].what = what
    /\ Ended(t, tasks[t])
    /\ UNCHANGED overtaken

\* The tree is cached as the walk returned it, an empty one too.
FetchSucceeds(t) ==
    /\ Answered(t, "fetch")
    /\ LET s == tasks[t].source
       IN  /\ trees' = [trees EXCEPT ![s] = "cached"]
           /\ origin' = [origin EXCEPT ![s] = tasks[t].heard]
           /\ fetching' = fetching \ {s}

\* What metadata there are go into the tree.
ResolveSucceeds(t) ==
    /\ Answered(t, "resolve")
    /\ origin' = [origin EXCEPT ![tasks[t].source] = @ \cup tasks[t].heard]
    /\ UNCHANGED <<trees, fetching>>

\* A fetch that fails leaves None in _trees, a resolve leaves nothing.
Failed(t) ==
    /\ IF tasks[t].what = "fetch"
       THEN /\ trees' = [trees EXCEPT ![tasks[t].source] = "failed"]
            /\ fetching' = fetching \ {tasks[t].source}
       ELSE UNCHANGED <<trees, fetching>>
    /\ UNCHANGED origin

Fails(t) ==
    /\ At(t, "connecting") \/ (At(t, "requesting") /\ Worker(t, "raised"))
    /\ Ended(t, tasks[t])
    /\ Failed(t)
    /\ UNCHANGED overtaken

\* Mutant: the lock is kept by a task that has timed out.
TimesOutKeepsLock(t) ==
    /\ At(t, "requesting") /\ Works(t)
    /\ tasks' = [tasks EXCEPT ![t].at = "ended"]
    /\ Failed(t)
    /\ UNCHANGED <<variant, sniffer, resolved_ids, lock, client, isotp, overtaken>>

\* wait_for() raises TimeoutError; a coroutine ends with it, a thread does not.
TimesOut(t) ==
    /\ At(t, "requesting") /\ Works(t)
    /\ Ended(t, IF variant = "udp" THEN [tasks[t] EXCEPT !.worker = "none"] ELSE tasks[t])
    /\ Failed(t)
    /\ overtaken' = (overtaken \/ variant = "can")

(***************************************************************************)
(* close() on CAN, and the end of asyncio.run() on UDP                     *)
(***************************************************************************)
Cancelled(task) ==
    [task EXCEPT !.at = "ended", !.worker = IF variant = "udp" THEN "none" ELSE @]

\* Every task is cancelled at its await and awaited, then the client is
\* disconnected.  CancelledError is no Exception: only "finally" is carried out,
\* and of a task that has not begun not even that.  A client that is still under
\* construction in its thread is nobody's from now on.
Close ==
    /\ sniffer = "listening"
    /\ sniffer' = "closed"
    /\ tasks' = [t \in DOMAIN tasks |-> Cancelled(tasks[t])]
    /\ fetching' = {tasks[t].source : t \in {u \in DOMAIN tasks :
                                             At(u, "new") /\ tasks[u].what = "fetch"}}
    /\ lock' = <<>> /\ client' = FALSE
    /\ UNCHANGED <<variant, trees, origin, resolved_ids, isotp, overtaken>>

TaskStep(t) ==
    \/ Starts(t) \/ Acquires(t) \/ Connected(t)
    \/ FetchSucceeds(t) \/ ResolveSucceeds(t) \/ Fails(t) \/ TimesOut(t)

WorkerStep(t) ==
    WorkerBinds(t) \/ WorkerSends(t) \/ WorkerReceives(t) \/ WorkerRaises(t)

Next ==
    \/ \E s \in Sources : \E ids \in SUBSET Unknown : Report(s, ids)
    \/ \E t \in DOMAIN tasks : TaskStep(t) \/ WorkerStep(t)
    \/ Close

Spec == Init /\ [][Next]_vars

\* At most this many tasks are ever made: one per source and per unknown id.
Jobs == 1..(Cardinality(Sources) * (1 + Cardinality(Unknown)))

\* The event loop and the worker threads run.
Fairness == \A t \in Jobs : WF_vars(TaskStep(t)) /\ WF_vars(WorkerStep(t))

FairSpec == Spec /\ Fairness

(***************************************************************************)
(* Properties                                                              *)
(***************************************************************************)
\* Every variable has its type, the lock is held by the task that connects or
\* uses the client, no source or id is asked about twice, and after close() there
\* is no client and no task.
TypeOK ==
    /\ variant \in Variants /\ sniffer \in {"listening", "closed"}
    /\ trees \in [Sources -> {"absent", "failed", "cached"}]
    /\ origin \in [Sources -> SUBSET Sources]
    /\ fetching \subseteq Sources
    /\ resolved_ids \in [Sources -> SUBSET Unknown]
    /\ tasks \in Seq([what : {"fetch", "resolve"}, source : Sources, ids : SUBSET Unknown,
                      at : {"new", "waiting", "connecting", "requesting", "ended"},
                      worker : {"none", "bind", "send", "recv", "done", "raised"},
                      left : 0..Rounds, heard : SUBSET Sources])
    /\ lock \in Seq(DOMAIN tasks) /\ client \in BOOLEAN
    /\ isotp \in {None} \cup [device : Sources, asked : Nat, open : BOOLEAN] /\ overtaken \in BOOLEAN
    /\ \A t \in DOMAIN tasks :
          variant = "can" /\ tasks[t].at \in {"connecting", "requesting"}
              => lock # <<>> /\ Head(lock) = t
    /\ \A t, u \in DOMAIN tasks :
          t # u /\ tasks[t].what = tasks[u].what /\ tasks[t].source = tasks[u].source
              => tasks[t].what = "resolve" /\ tasks[t].ids \cap tasks[u].ids = {}
    /\ sniffer = "closed" => ~client /\ \A t \in DOMAIN tasks : tasks[t].at = "ended"

\* A source is decorated with answers of that source and no other, as long as no
\* request on the shared client was given up while its worker ran.
TreeIsItsOwn == ~overtaken => \A s \in Sources : origin[s] \subseteq {s}

\* A fetch that was begun ends, by a tree or by None, unless the sniffer closes.
EveryFetchSettles ==
    \A s \in Sources : s \in fetching ~> s \notin fetching \/ sniffer = "closed"

\* "An asyncio.Lock serialises overlapping fetches because ThingSetCAN re-binds
\* its ISO-TP socket per request and is not concurrent-safe": there is never more
\* than one worker inside the client.
FetchesAreSerialised ==
    variant = "can" =>
        Cardinality({t \in DOMAIN tasks : Works(t)}) <= 1
=============================================================================
