----------------------------- MODULE SchemaWalk -----------------------------
(***************************************************************************)
(* discover_schema() of ThingSetClient and AsyncThingSetClient (client.py, *)
(* async_client.py) over a link, as it walks the object tree of a device   *)
(* with two fetches per group; get() of the text client, which has no      *)
(* metadata to walk; and the walk over paths that the command line (cli.py)*)
(* does with the text client.  Responses carry no number: a call takes     *)
(* whatever the queue holds.  A recursion is a stack of frames.            *)
(***************************************************************************)
EXTENDS ResponseLink, SequencesExt

CONSTANTS
    Root,               \* Root[k]: the root_id that a client of kind k is given
    Type,               \* Type[o]: what the metadata of o says it is
    Gets,               \* what a text client gets, in order
    Kinds,              \* the kinds of client
    MaxLate             \* bound: responses that come after their timeout

Objects == DOMAIN Children

Elements == [is : {"id", "metadata", "nowhere"}, of : Objects]
Requests == [what : {"ids", "metadata", "get"}, about : Objects, names : Seq(Elements)]

\* A device has a tree of objects, a client starts at one of them, and a text
\* client gets at least one.
ASSUME SchemaWalkAssumption ==
    /\ Children \in [Objects -> Seq(Objects)]
    /\ None \notin Requests /\ None \notin {"content", "wrong", "error"}
    /\ None \notin [to : Requests \cup {None}, form : {"content", "wrong", "error"}]
    /\ Kinds \subseteq {"tcp", "serial", "can", "async", "text"}
    /\ \A k \in Kinds \ {"serial"} : Root[k] \in Objects
    /\ "serial" \in Kinds => Gets \in Seq(Objects) /\ Gets # <<>>
    /\ MaxFaults \in Nat /\ MaxLate \in Nat

\* An object is a member of one group at most, and once; no group is below itself;
\* only these types have members; and a text client gets nothing twice.
ASSUME DeviceAssumption ==
    /\ \A p, q \in Objects : \A i \in DOMAIN Children[p], j \in DOMAIN Children[q] :
          Children[p][i] = Children[q][j] => p = q /\ i = j
    /\ \A S \in SUBSET Objects :
          S # {} => \E o \in S : \A i \in DOMAIN Children[o] : Children[o][i] \notin S
    /\ \A o \in Objects : Children[o] # <<>> => Type[o] \in {"group", "record", "function"}
    /\ \A i, j \in DOMAIN Gets : Gets[i] = Gets[j] => i = j

VARIABLES
    pc,                 \* where the application's thread is
    request,            \* the request to send, or sent
    answer,             \* what _recv returned
    stack,              \* calls of the walk under way, the innermost last
    tree,               \* nodes in the order in which they were made or printed
    late                \* history: timeouts before a response that was to come

walk == <<pc, request, answer, stack, tree>>
vars == <<link, walk, late>>

\* A node: its id, the object whose name, type and access it has, and the ids of
\* the groups above it.  by_id and by_path hold the last node of an id or path.
SchemaNode(id, md, under) == [id |-> id, md |-> md, under |-> under]

IdsOf(g, x)      == Request("ids", g, <<x>>)
MetadataOf(g, s) == Request("metadata", g, s)
GetOf(o)         == Request("get", o, <<Id(o)>>)

Frame(x, under) == [group |-> x, under |-> under, ids |-> <<>>, md |-> <<>>,
                    i |-> 1, walked |-> FALSE]

\* The types whose children are fetched.
SyncTypes  == {"group", "record", "function"}
AsyncTypes == {"group", "function"}

\* Mutant: the arguments of functions are left out.
RecursesNoFunctions(type) == type \in SyncTypes \ {"function"}

Recurses(type) == type \in (IF kind = "async" THEN AsyncTypes ELSE SyncTypes)

Top == Last(stack)

Init ==
    /\ kind \in Kinds
    /\ LinkInit
    /\ pc = "new" /\ answer = None /\ tree = <<>> /\ late = 0
    /\ IF kind = "serial"
       THEN request = GetOf(Gets[1]) /\ stack = <<>>
       ELSE /\ request = IdsOf(Root[kind], Id(Root[kind]))
            /\ stack = <<Frame(Id(Root[kind]), <<>>)>>

\* The constructor, which raises if there is nothing to connect to.  The one of a
\* CAN client is AddressClaim: it has no link until there is a request.
Connect ==
    /\ pc = "new"
    /\ pc' = IF broken THEN "closed" ELSE "call"
    /\ IF broken \/ kind = "can" THEN UNCHANGED <<running, thread>> ELSE start_receiving
    /\ UNCHANGED <<kind, network, queue, request, answer, stack, tree, late>>

(***************************************************************************)
(* A request and its response                                              *)
(***************************************************************************)
Send ==
    /\ pc = "call"
    /\ \/ Transmit(request) /\ pc' = "wait"
       \/ TransmitRaises /\ pc' = "raised"
    /\ UNCHANGED <<request, answer, stack, tree, late>>

\* _IsotpLink.get_response disconnects whether there was a response or not.
Received(r) ==
    /\ pc = "wait"
    /\ answer' = r
    /\ IF kind = "can" THEN pc' = "join" /\ running' = FALSE
                       ELSE pc' = "handle" /\ UNCHANGED running
    /\ UNCHANGED <<kind, network, thread, request, stack, tree>>

GetResponse ==
    /\ queue # <<>>
    /\ queue' = Tail(queue)
    /\ Received(Head(queue))
    /\ UNCHANGED late

\* A timeout is late if anything is still to come; how often that is, is bounded.
TimeOut ==
    /\ queue = <<>>
    /\ late' = IF asked = <<>> /\ wire = <<>> THEN late ELSE late + 1
    /\ late' <= MaxLate
    /\ Received(None)
    /\ UNCHANGED queue

Joined ==
    /\ pc = "join" /\ thread = "ended"
    /\ pc' = "handle"
    /\ UNCHANGED <<link, request, answer, stack, tree, late>>

\* _to_response: no response has no status.
Status == IF answer = None THEN None ELSE answer.form

\* At most CONTENT; a status that is another one of these is no different.
HasContent == Status \in {"content", "wrong"}

Values == IF HasContent THEN Data(answer) ELSE <<>>

(***************************************************************************)
(* get(): one object after the other                                       *)
(***************************************************************************)
HandleGet ==
    /\ pc = "handle" /\ request.what = "get"
    /\ LET o    == request.about
           next == CHOOSE i \in DOMAIN Gets : Gets[i] = o
       IN  /\ tree' = IF Values = <<>> THEN tree
                      ELSE Append(tree, SchemaNode(o, Values[1].of, <<>>))
           /\ IF next = Len(Gets) THEN pc' = "done" /\ UNCHANGED request
              ELSE pc' = "call" /\ request' = GetOf(Gets[next + 1])
    /\ UNCHANGED <<link, answer, stack, late>>

(***************************************************************************)
(* _walk_schema                                                            *)
(***************************************************************************)
Returns == pc' = "walk" /\ stack' = Front(stack) /\ UNCHANGED request

\* Whatever the list holds is taken for the ids of the children.
HandleIds ==
    /\ pc = "handle" /\ request.what = "ids" /\ kind # "text"
    /\ IF Values = <<>> THEN Returns
       ELSE /\ pc' = "call"
            /\ stack' = [stack EXCEPT ![Len(stack)].ids = Values]
            /\ request' = MetadataOf(request.about, Values)
    /\ UNCHANGED <<link, answer, tree, late>>

\* Mutant: a list that is too short is used as far as it goes.
HandleMetadataShort ==
    /\ pc = "handle" /\ request.what = "metadata"
    /\ IF ~HasContent THEN Returns
       ELSE pc' = "walk" /\ stack' = [stack EXCEPT ![Len(stack)].md = Values] /\ UNCHANGED request
    /\ UNCHANGED <<link, answer, tree, late>>

\* parsed.data[idx] raises if the list is shorter than the one of the ids.
HandleMetadata ==
    /\ pc = "handle" /\ request.what = "metadata"
    /\ \/ ~HasContent /\ Returns
       \/ /\ HasContent
          /\ pc' = IF Len(Values) < Len(Top.ids) THEN "raised" ELSE "walk"
          /\ stack' = [stack EXCEPT ![Len(stack)].md = Values]
          /\ UNCHANGED request
    /\ UNCHANGED <<link, answer, tree, late>>

Step(frame) == [frame EXCEPT !.i = @ + 1, !.walked = FALSE]

Walks ==
    /\ pc = "walk" /\ stack # <<>>
    /\ Top.i <= Len(Top.ids)
    /\ UNCHANGED <<link, answer, late>>

NoMetadata ==
    /\ Walks /\ kind # "text" /\ Top.md[Top.i].is # "metadata"
    /\ stack' = [stack EXCEPT ![Len(stack)] = Step(@)]
    /\ UNCHANGED <<pc, request, tree>>

\* A call of _walk_schema for a child.
Descend ==
    /\ Walks /\ kind # "text" /\ Top.md[Top.i].is = "metadata"
    /\ ~Top.walked /\ Recurses(Type[Top.md[Top.i].of])
    /\ LET id == Top.ids[Top.i]
       IN  /\ stack' = Append([stack EXCEPT ![Len(stack)].walked = TRUE],
                              Frame(id, Append(Top.under, Top.group.of)))
           /\ request' = IdsOf(id.of, id)
    /\ pc' = "call"
    /\ UNCHANGED tree

\* A node is made when its children are.  An id that is a map is no key of by_id.
MakeNode ==
    /\ Walks /\ kind # "text" /\ Top.md[Top.i].is = "metadata"
    /\ Top.walked \/ ~Recurses(Type[Top.md[Top.i].of])
    /\ IF Top.ids[Top.i].is # "id"
       THEN pc' = "raised" /\ UNCHANGED <<tree, stack>>
       ELSE /\ tree' = Append(tree, SchemaNode(Top.ids[Top.i].of, Top.md[Top.i].of,
                                               Append(Top.under, Top.group.of)))
            /\ stack' = [stack EXCEPT ![Len(stack)] = Step(@)]
            /\ UNCHANGED pc
    /\ UNCHANGED request

\* Mutant: the metadata of the children are what the caller goes on with.
ReturnKeepsMetadata ==
    /\ pc = "walk" /\ stack # <<>> /\ Top.i > Len(Top.ids)
    /\ IF Len(stack) = 1 THEN stack' = <<>>
       ELSE stack' = [Front(stack) EXCEPT ![Len(stack) - 1].md =
                        [i \in DOMAIN @ |-> IF i \in DOMAIN Top.md THEN Top.md[i] ELSE @[i]]]
    /\ UNCHANGED <<link, pc, request, answer, tree, late>>

Return ==
    /\ pc = "walk" /\ stack # <<>> /\ Top.i > Len(Top.ids)
    /\ stack' = Front(stack)
    /\ UNCHANGED <<link, pc, request, answer, tree, late>>

(***************************************************************************)
(* _schema_text of the command line                                        *)
(***************************************************************************)
\* Only a list has children.
HandleNames ==
    /\ pc = "handle" /\ kind = "text"
    /\ IF Status = "content" /\ Values # <<>>
       THEN pc' = "walk" /\ stack' = [stack EXCEPT ![Len(stack)].ids = Values] /\ UNCHANGED request
       ELSE Returns
    /\ UNCHANGED <<link, answer, tree, late>>

\* The path "object_id/child", which is one of the device's only if the list was
\* the answer to object_id.
PathTo(o) == IF Top.group.is = "id" /\ Contains(Children[Top.group.of], o)
             THEN Id(o) ELSE Nowhere(o)

\* Every name is printed, and asked for its own children.
PrintChild ==
    /\ Walks /\ kind = "text"
    /\ LET o     == Top.ids[Top.i].of
           under == Append(Top.under, Top.group.of)
       IN  /\ tree' = Append(tree, SchemaNode(o, o, under))
           /\ stack' = Append([stack EXCEPT ![Len(stack)] = Step(@)], Frame(PathTo(o), under))
           /\ request' = IdsOf(o, PathTo(o))
    /\ pc' = "call"

Finish ==
    /\ pc = "walk" /\ stack = <<>>
    /\ pc' = "done"
    /\ UNCHANGED <<link, request, answer, stack, tree, late>>

(***************************************************************************)
(* disconnect(), when the application leaves the with statement            *)
(***************************************************************************)
\* Mutant: the thread is not told to stop.
DisconnectKeepsRunning ==
    /\ pc \in {"done", "raised"}
    /\ pc' = IF kind = "can" THEN "closed" ELSE "closing"
    /\ UNCHANGED <<link, request, answer, stack, tree, late>>

\* ThingSetCAN.disconnect leaves _isotp alone: it has ended with its response.
Disconnect ==
    /\ pc \in {"done", "raised"}
    /\ IF kind = "can" THEN pc' = "closed" /\ UNCHANGED running
                       ELSE pc' = "closing" /\ running' = FALSE
    /\ UNCHANGED <<kind, network, thread, queue, request, answer, stack, tree, late>>

Close ==
    /\ pc = "closing" /\ thread = "ended"
    /\ pc' = "closed"
    /\ UNCHANGED <<link, request, answer, stack, tree, late>>

Main ==
    \/ Connect \/ Send \/ GetResponse \/ TimeOut \/ Joined
    \/ HandleGet \/ HandleIds \/ HandleMetadata
    \/ NoMetadata \/ Descend \/ MakeNode \/ HandleNames \/ PrintChild \/ Return \/ Finish
    \/ Disconnect \/ Close

Next ==
    \/ Main
    \/ (ReceiveLoop \/ Environment) /\ UNCHANGED <<walk, late>>

\* Threads are scheduled; a device answers or its answer is lost.
Fairness ==
    /\ WF_vars(Main)
    /\ WF_vars(ReceiveLoop /\ UNCHANGED <<walk, late>>)
    /\ WF_vars((Answers \/ Vanishes) /\ UNCHANGED <<walk, late>>)

Spec == Init /\ [][Next]_vars /\ Fairness

(***************************************************************************)
(* Properties                                                              *)
(***************************************************************************)
Responses ==
    [to : Requests \cup {None},
     form : {"content", "wrong", "error", "piece", "noise", "garbled", "log"}]

\* Every variable has its type, and metadata are at hand for every id of a group
\* whose children are gone through.
TypeOK ==
    /\ kind \in Kinds /\ pc \in {"new", "call", "wait", "join", "handle", "walk", "done", "raised",
                                 "closing", "closed"}
    /\ asked \in Seq(Requests) /\ request \in Requests
    /\ wire \in Seq(Responses) /\ queue \in Seq(Responses)
    /\ answer \in Responses \cup {None}
    /\ thread \in {"receive", "ended"} /\ {running, broken, odd} \subseteq BOOLEAN
    /\ faults \in 0..MaxFaults /\ late \in 0..MaxLate
    /\ spoilt \subseteq Objects
    /\ tree \in Seq([id : Objects, md : Objects \cup {None}, under : Seq(Objects)])
    /\ stack \in Seq([group : Elements, under : Seq(Objects), ids : Seq(Elements),
                      md : Seq(Elements), i : Nat \ {0}, walked : BOOLEAN])
    /\ kind # "text" /\ pc = "walk" /\ stack # <<>> => Len(Top.ids) <= Len(Top.md)

\* The nodes of a member and of what it has below itself: children first, or
\* parents first as they are printed.
Part(k, below, o, under) ==
    LET node == <<SchemaNode(o, o, under)>>
    IN  IF k = "text" THEN node \o below[o, under] ELSE below[o, under] \o node

\* The nodes below a group under others, without what lies below the objects of
\* "without".
Below(k, without) ==
    LET below[p \in Objects \X Seq(Objects)] ==
            IF p[1] \in without THEN <<>>
            ELSE FlattenSeq([i \in DOMAIN Children[p[1]] |->
                                Part(k, below, Children[p[1]][i], Append(p[2], p[1]))])
    IN  below

\* What the device has for a client of kind k.
Reference(k, without) ==
    IF k = "serial"
    THEN FlattenSeq([i \in DOMAIN Gets |->
            IF Gets[i] \in without THEN <<>> ELSE <<SchemaNode(Gets[i], Gets[i], <<>>)>>])
    ELSE Below(k, without)[Root[k], <<>>]

\* The records whose members a client of kind k does not find out: async_client.py
\* asks for those of groups and functions only, where client.py asks for all.
LeftOut(k) ==
    IF k = "async" THEN {o \in Objects \ {Root[k]} : Type[o] = "record"} ELSE {}

\* If no response was late or cut, and no other line taken for one, the tree that
\* discover_schema() returns is the device's, in order, without what lies below a
\* group whose requests were lost or refused, or below a record if the client is
\* the asynchronous one; and get() returned each value: the receive thread survives
\* what it filters and what it cannot decode, and no response is lost or taken for
\* another.
TreeIsTheDevices ==
    pc = "done" /\ late = 0 /\ ~odd => tree = Reference(kind, spoilt \cup LeftOut(kind))

\* One late response never gives a node the name, type and access of another,
\* on any binary link: the next request that is answered with the wrong response
\* is one for ids if that was for metadata, and the other way round.  get() returns
\* no value of another object if no response is late or cut and no other line is
\* taken for one.
OneLateMislabelsNothing ==
    late <= (IF kind = "serial" THEN 0 ELSE 1) /\ ~odd
        => \A i \in DOMAIN tree : tree[i].md = tree[i].id

\* On the TCP link, which throws nothing away, one late response does not put a
\* node where it does not belong either, if nothing is lost: from then on every
\* call takes the response to the one before.
OneLateMisplacesNothing ==
    kind = "tcp" /\ late <= 1 /\ spoilt = {}
        => \A i \in DOMAIN tree : Contains(Reference(kind, {}), tree[i])

\* Every walk ends, by a tree or an exception, and so does disconnect(); then the
\* receive thread has ended, unless an exception of _IsotpLink.send left it.
WalkEnds ==
    <>[](pc = "closed" /\ (thread = "ended" \/ (kind = "can" /\ broken)))
=============================================================================
