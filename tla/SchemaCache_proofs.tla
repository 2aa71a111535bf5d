------------------------- MODULE SchemaCache_proofs -------------------------
(***************************************************************************)
(* Proofs about SchemaCache, for any sources, ids and number of requests:  *)
(* its type invariant, that the trees hold what their own source answered, *)
(* and how long the lock keeps workers apart.                              *)
(*                                                                         *)
(* The inductive invariant has five parts.  Simple is the types.  WorkOK   *)
(* says that a worker has requests left and, on CAN, a link once it has    *)
(* bound one.  LockOK says that the lock is a queue of exactly the tasks   *)
(* that have asked for it, with the one inside at its head.  JobOK says    *)
(* that whatever a task was spawned for is marked in the cache, and        *)
(* OwnOK that, while no worker was given up, there is one worker and the   *)
(* link is its own.                                                        *)
(***************************************************************************)
EXTENDS SchemaCache, SequencesExt, SequenceTheorems, TLAPS

TaskType ==
    [what : {"fetch", "resolve"}, source : Sources, ids : SUBSET Unknown,
     at : {"new", "waiting", "connecting", "requesting", "ended"},
     worker : {"none", "bind", "send", "recv", "done", "raised"},
     left : 0..Rounds, heard : SUBSET Sources]

Link == [device : Sources, asked : Nat, open : BOOLEAN]

Simple ==
    /\ variant \in Variants /\ sniffer \in {"listening", "closed"}
    /\ trees \in [Sources -> {"absent", "failed", "cached"}]
    /\ origin \in [Sources -> SUBSET Sources]
    /\ fetching \subseteq Sources
    /\ resolved_ids \in [Sources -> SUBSET Unknown]
    /\ tasks \in Seq(TaskType)
    /\ lock \in Seq(DOMAIN tasks) /\ client \in BOOLEAN
    /\ isotp \in {None} \cup Link /\ overtaken \in BOOLEAN

WorkOK ==
    \A t \in DOMAIN tasks :
        /\ Works(t) => tasks[t].left >= 1
        /\ variant = "can" /\ tasks[t].worker \in {"send", "recv"} => isotp \in Link

Inside(t) == tasks[t].at \in {"connecting", "requesting"}

LockOK ==
    /\ variant = "can" =>
          /\ IsInjective(lock)
          /\ \A t \in DOMAIN tasks :
                /\ t \in ToSet(lock) <=> tasks[t].at = "waiting" \/ Inside(t)
                /\ Inside(t) => lock # <<>> /\ Head(lock) = t
    /\ variant = "udp" =>
          /\ lock = <<>>
          /\ \A t \in DOMAIN tasks : tasks[t].at \notin {"waiting", "connecting"}

JobOK ==
    /\ \A t, u \in DOMAIN tasks :
          t # u /\ tasks[t].what = tasks[u].what /\ tasks[t].source = tasks[u].source
              => tasks[t].what = "resolve" /\ tasks[t].ids \cap tasks[u].ids = {}
    /\ \A t \in DOMAIN tasks :
          /\ sniffer = "listening" /\ tasks[t].what = "fetch"
                => trees[tasks[t].source] # "absent" \/ tasks[t].source \in fetching
          /\ tasks[t].what = "resolve" => tasks[t].ids \subseteq resolved_ids[tasks[t].source]

ClosedOK ==
    sniffer = "closed" => ~client /\ \A t \in DOMAIN tasks : tasks[t].at = "ended"

OwnOK ==
    ~overtaken =>
        /\ \A t \in DOMAIN tasks : tasks[t].heard \subseteq {tasks[t].source}
        /\ \A s \in Sources : origin[s] \subseteq {s}
        /\ variant = "can" =>
              /\ \A t, u \in DOMAIN tasks : Works(t) /\ Works(u) => t = u
              /\ \A t \in DOMAIN tasks :
                    /\ Works(t) /\ sniffer = "listening" => tasks[t].at = "requesting"
                    /\ tasks[t].worker \in {"send", "recv"} => isotp.device = tasks[t].source

IInv == Simple /\ WorkOK /\ LockOK /\ JobOK /\ ClosedOK /\ OwnOK

(***************************************************************************)
(* Helpers                                                                 *)
(***************************************************************************)
\* Taking the head off a queue removes one occurrence of it.
LEMMA TailFacts ==
    ASSUME NEW S, NEW s \in Seq(S), s # <<>>
    PROVE  /\ Tail(s) \in Seq(S) /\ Head(s) \in S
           /\ ToSet(s) = {Head(s)} \cup ToSet(Tail(s))
           /\ IsInjective(s) => IsInjective(Tail(s)) /\ Head(s) \notin ToSet(Tail(s))
<1>1. Len(s) \in Nat /\ Len(s) >= 1 /\ Head(s) = s[1] /\ Head(s) \in S
  OBVIOUS
<1>2. Tail(s) \in Seq(S) /\ Len(Tail(s)) = Len(s) - 1
  OBVIOUS
<1>3. \A i \in 1..Len(Tail(s)) : Tail(s)[i] = s[i + 1]
  OBVIOUS
<1>4. DOMAIN s = 1..Len(s) /\ DOMAIN Tail(s) = 1..(Len(s) - 1)
  BY <1>2
<1>5. ToSet(s) = {Head(s)} \cup ToSet(Tail(s))
  <2>1. ASSUME NEW x \in ToSet(s) PROVE x \in {Head(s)} \cup ToSet(Tail(s))
    <3>1. PICK i \in 1..Len(s) : x = s[i]
      BY <1>4 DEF ToSet
    <3>2. CASE i = 1
      BY <3>1, <3>2, <1>1
    <3>3. CASE i # 1
      <4>1. i - 1 \in 1..(Len(s) - 1) /\ Tail(s)[i - 1] = s[i]
        BY <3>3, <1>1, <1>2, <1>3
      <4> QED BY <4>1, <3>1, <1>4 DEF ToSet
    <3> QED BY <3>2, <3>3
  <2>2. Head(s) \in ToSet(s)
    BY <1>1, <1>4 DEF ToSet
  <2>3. ASSUME NEW x \in ToSet(Tail(s)) PROVE x \in ToSet(s)
    <3>1. PICK i \in 1..(Len(s) - 1) : x = s[i + 1]
      BY <1>2, <1>3, <1>4 DEF ToSet
    <3> QED BY <3>1, <1>1, <1>4 DEF ToSet
  <2> QED BY <2>1, <2>2, <2>3
<1>6. ASSUME IsInjective(s)
      PROVE  IsInjective(Tail(s)) /\ Head(s) \notin ToSet(Tail(s))
  BY <1>1, <1>2, <1>3, <1>4, <1>6 DEF IsInjective, ToSet
<1> QED BY <1>1, <1>2, <1>5, <1>6

\* Appending an element that is not in the queue keeps it free of duplicates.
LEMMA AppendFacts ==
    ASSUME NEW S, NEW s \in Seq(S), NEW x \in S
    PROVE  /\ Append(s, x) \in Seq(S) /\ Append(s, x) # <<>>
           /\ ToSet(Append(s, x)) = ToSet(s) \cup {x}
           /\ IsInjective(s) /\ x \notin ToSet(s) => IsInjective(Append(s, x))
           /\ s # <<>> => Head(Append(s, x)) = Head(s)
           /\ s = <<>> => Head(Append(s, x)) = x
<1> DEFINE t == Append(s, x)
<1>1. /\ t \in Seq(S) /\ Len(t) = Len(s) + 1 /\ Len(s) \in Nat
      /\ t[Len(s) + 1] = x
      /\ \A i \in 1..Len(s) : t[i] = s[i]
  OBVIOUS
<1>2. DOMAIN s = 1..Len(s) /\ DOMAIN t = 1..(Len(s) + 1)
  BY <1>1
<1>3. ToSet(t) = ToSet(s) \cup {x}
  <2>1. ASSUME NEW y \in ToSet(t) PROVE y \in ToSet(s) \cup {x}
    <3>1. PICK i \in 1..(Len(s) + 1) : y = t[i]
      BY <1>2 DEF ToSet
    <3>2. CASE i = Len(s) + 1
      BY <3>1, <3>2, <1>1
    <3>3. CASE i # Len(s) + 1
      <4>1. i \in 1..Len(s)
        BY <3>3, <1>1
      <4> QED BY <4>1, <3>1, <1>1, <1>2 DEF ToSet
    <3> QED BY <3>2, <3>3
  <2>2. ASSUME NEW y \in ToSet(s) PROVE y \in ToSet(t)
    <3>1. PICK i \in 1..Len(s) : y = s[i]
      BY <1>2 DEF ToSet
    <3>2. i \in 1..(Len(s) + 1) /\ y = t[i]
      BY <3>1, <1>1
    <3> QED BY <3>2, <1>2 DEF ToSet
  <2>3. x \in ToSet(t)
    <3>1. Len(s) + 1 \in DOMAIN t /\ t[Len(s) + 1] = x
      BY <1>1, <1>2
    <3> QED BY <3>1 DEF ToSet
  <2> QED BY <2>1, <2>2, <2>3
<1>4. IsInjective(s) /\ x \notin ToSet(s) => IsInjective(t)
  BY <1>1, <1>2 DEF IsInjective, ToSet
<1>5. s # <<>> => Head(t) = Head(s)
  OBVIOUS
<1>6. s = <<>> => Head(t) = x
  OBVIOUS
<1> HIDE DEF t
<1> QED
  <2>1. t \in Seq(S) /\ t # <<>>
    BY <1>1
  <2> QED BY <2>1, <1>3, <1>4, <1>5, <1>6 DEF t

\* A sequence over a set is one over every larger set.
LEMMA SeqGrows ==
    ASSUME NEW A, NEW B, A \subseteq B, NEW s \in Seq(A)
    PROVE  s \in Seq(B)
OBVIOUS

\* A task's record after each of the changes that a step makes to it.
LEMMA RecordFacts ==
    ASSUME NEW x \in TaskType, variant \in {"can", "udp"}
    PROVE  /\ Requesting(x) \in TaskType
           /\ Requesting(x).what = x.what /\ Requesting(x).source = x.source
           /\ Requesting(x).ids = x.ids /\ Requesting(x).heard = x.heard
           /\ Requesting(x).at = "requesting" /\ Requesting(x).worker = FirstStep
           /\ Requesting(x).left >= 1
<1>1. Rounds \in Nat /\ Rounds >= 1
  BY SchemaCacheAssumption
<1>2. FirstStep \in {"none", "bind", "send", "recv", "done", "raised"}
  BY DEF FirstStep
<1> DEFINE n == IF x.what = "fetch" THEN Rounds ELSE 1
<1>3. n \in 0..Rounds /\ n >= 1
  BY <1>1
<1>4. Requesting(x) = [x EXCEPT !.at = "requesting", !.worker = FirstStep, !.left = n]
  BY DEF Requesting
<1> HIDE DEF n
<1> QED BY <1>2, <1>3, <1>4 DEF TaskType

(***************************************************************************)
(* What a step that writes one task's record leaves alone                  *)
(***************************************************************************)
Writes(t) ==
    /\ t \in DOMAIN tasks /\ DOMAIN tasks' = DOMAIN tasks
    /\ tasks' \in Seq(TaskType) /\ tasks'[t] \in TaskType
    /\ \A u \in DOMAIN tasks : u # t => tasks'[u] = tasks[u]
    /\ tasks'[t].what = tasks[t].what
    /\ tasks'[t].source = tasks[t].source
    /\ tasks'[t].ids = tasks[t].ids

\* The task t starts its request.
Begins(t) ==
    /\ tasks'[t].at = "requesting" /\ tasks'[t].worker = FirstStep
    /\ tasks'[t].left >= 1 /\ tasks'[t].heard = tasks[t].heard

\* The task t goes to another place, and its worker stays where it is.
Moves(t, place) ==
    /\ tasks'[t].at = place /\ tasks'[t].worker = tasks[t].worker
    /\ tasks'[t].left = tasks[t].left /\ tasks'[t].heard = tasks[t].heard

\* The worker of t goes on, and the task stays where it is.
Works1(t, step) ==
    /\ tasks'[t].at = tasks[t].at /\ tasks'[t].worker = step
    /\ tasks'[t].left = tasks[t].left /\ tasks'[t].heard = tasks[t].heard

LEMMA TaskFacts ==
    ASSUME Simple, NEW t \in DOMAIN tasks
    PROVE  tasks[t] \in TaskType /\ variant \in {"can", "udp"}
<1>1. tasks \in Seq(TaskType) /\ variant \in Variants
  BY DEF Simple
<1> QED BY <1>1, SchemaCacheAssumption

LEMMA WritesFacts ==
    ASSUME Simple, NEW t \in DOMAIN tasks, NEW r \in TaskType,
           tasks' = [tasks EXCEPT ![t] = r],
           r.what = tasks[t].what, r.source = tasks[t].source, r.ids = tasks[t].ids
    PROVE  Writes(t) /\ tasks'[t] = r
<1>1. tasks \in Seq(TaskType) /\ DOMAIN tasks = 1..Len(tasks)
  BY DEF Simple
<1>2. /\ tasks' \in Seq(TaskType) /\ Len(tasks') = Len(tasks)
      /\ \A u \in 1..Len(tasks) : tasks'[u] = IF u = t THEN r ELSE tasks[u]
  BY <1>1, ExceptSeq
<1>3. DOMAIN tasks' = DOMAIN tasks
  BY <1>1, <1>2
<1> QED BY <1>1, <1>2, <1>3 DEF Writes

LEMMA BeginsFacts ==
    ASSUME Simple, NEW t \in DOMAIN tasks,
           tasks' = [tasks EXCEPT ![t] = Requesting(tasks[t])]
    PROVE  Writes(t) /\ Begins(t)
<1>1. tasks[t] \in TaskType /\ variant \in {"can", "udp"}
  BY TaskFacts
<1> DEFINE r == Requesting(tasks[t])
<1>2. /\ r \in TaskType
      /\ r.what = tasks[t].what /\ r.source = tasks[t].source /\ r.ids = tasks[t].ids
      /\ r.heard = tasks[t].heard
      /\ r.at = "requesting" /\ r.worker = FirstStep /\ r.left >= 1
  BY <1>1, RecordFacts
<1>3. tasks' = [tasks EXCEPT ![t] = r]
  OBVIOUS
<1> HIDE DEF r
<1>4. Writes(t) /\ tasks'[t] = r
  BY <1>2, <1>3, WritesFacts
<1> QED BY <1>2, <1>4 DEF Begins

LEMMA MovesFacts ==
    ASSUME Simple, NEW t \in DOMAIN tasks,
           NEW place \in {"new", "waiting", "connecting", "requesting", "ended"},
           tasks' = [tasks EXCEPT ![t] = [tasks[t] EXCEPT !.at = place]]
    PROVE  Writes(t) /\ Moves(t, place)
<1> DEFINE r == [tasks[t] EXCEPT !.at = place]
<1>1. tasks[t] \in TaskType
  BY TaskFacts
<1>2. /\ r \in TaskType
      /\ r.what = tasks[t].what /\ r.source = tasks[t].source /\ r.ids = tasks[t].ids
      /\ r.heard = tasks[t].heard /\ r.left = tasks[t].left
      /\ r.worker = tasks[t].worker /\ r.at = place
  BY <1>1 DEF TaskType
<1>3. tasks' = [tasks EXCEPT ![t] = r]
  OBVIOUS
<1> HIDE DEF r
<1>4. Writes(t) /\ tasks'[t] = r
  BY <1>2, <1>3, WritesFacts
<1> QED BY <1>2, <1>4 DEF Moves

LEMMA GoesFacts ==
    ASSUME Simple, NEW t \in DOMAIN tasks,
           NEW step \in {"none", "bind", "send", "recv", "done", "raised"}, Goes(t, step)
    PROVE  Writes(t) /\ Works1(t, step)
<1> DEFINE r == [tasks[t] EXCEPT !.worker = step]
<1>1. tasks[t] \in TaskType
  BY TaskFacts
<1>2. /\ r \in TaskType
      /\ r.what = tasks[t].what /\ r.source = tasks[t].source /\ r.ids = tasks[t].ids
      /\ r.heard = tasks[t].heard /\ r.left = tasks[t].left
      /\ r.worker = step /\ r.at = tasks[t].at
  BY <1>1 DEF TaskType
<1>3. tasks' = [tasks EXCEPT ![t] = r]
  BY DEF Goes
<1> HIDE DEF r
<1>4. Writes(t) /\ tasks'[t] = r
  BY <1>2, <1>3, WritesFacts
<1> QED BY <1>2, <1>4 DEF Works1

\* A step of one task keeps what the tasks were spawned for marked in the cache.
LEMMA JobsStay ==
    ASSUME JobOK, Simple, NEW t \in DOMAIN tasks, Writes(t),
           sniffer' = sniffer, resolved_ids' = resolved_ids,
           \A s \in Sources : trees[s] # "absent" \/ s \in fetching
                              => trees'[s] # "absent" \/ s \in fetching'
    PROVE  JobOK'
<1>1. /\ DOMAIN tasks' = DOMAIN tasks
      /\ \A u \in DOMAIN tasks : /\ tasks'[u].what = tasks[u].what
                                 /\ tasks'[u].source = tasks[u].source
                                 /\ tasks'[u].ids = tasks[u].ids
  BY DEF Writes
<1>2. \A u \in DOMAIN tasks : tasks[u].source \in Sources
  BY TaskFacts DEF TaskType
<1> QED BY <1>1, <1>2 DEF JobOK

(***************************************************************************)
(* The steps that lead a task to its request                               *)
(***************************************************************************)
\* A task that is first at the lock, or needs none, starts its request.
LEMMA BeginsPreserves ==
    ASSUME IInv, NEW t \in DOMAIN tasks, Writes(t), Begins(t), tasks[t].at # "ended",
           Elsewhere, lock' \in Seq(DOMAIN tasks), client' \in BOOLEAN, LockOK',
           variant = "can" => \A u \in DOMAIN tasks : u # t => tasks[u].at # "requesting"
    PROVE  IInv'
<1>1. variant \in {"can", "udp"} /\ sniffer = "listening"
  BY TaskFacts DEF IInv, Simple, ClosedOK
<1>2. Simple'
  BY DEF IInv, Simple, Writes, Elsewhere, cache
<1>3. \A u \in DOMAIN tasks : u # t => tasks'[u] = tasks[u] /\ (Works(u)' <=> Works(u))
  BY DEF Writes, Works
<1>4. tasks'[t].worker = IF variant = "udp" THEN "send" ELSE "bind"
  BY DEF Begins, FirstStep
<1>5. WorkOK'
  <2> SUFFICES ASSUME NEW u \in DOMAIN tasks
               PROVE  /\ Works(u)' => tasks'[u].left >= 1
                      /\ variant = "can" /\ tasks'[u].worker \in {"send", "recv"} => isotp \in Link
    BY DEF WorkOK, Writes, Elsewhere
  <2>1. CASE u = t
    BY <2>1, <1>4 DEF Begins
  <2>2. CASE u # t
    BY <2>2, <1>3 DEF IInv, WorkOK
  <2> QED BY <2>1, <2>2
<1>6. JobOK'
  BY JobsStay DEF IInv, Elsewhere, cache
<1>7. ClosedOK'
  BY <1>1 DEF ClosedOK, Elsewhere
<1>8. OwnOK'
  <2> SUFFICES ASSUME ~overtaken PROVE OwnOK'
    BY DEF OwnOK, Elsewhere
  <2>1. \A u \in DOMAIN tasks : tasks'[u].heard \subseteq {tasks'[u].source}
    BY <1>3 DEF IInv, OwnOK, Begins, Writes
  <2>2. \A s \in Sources : origin'[s] \subseteq {s}
    BY DEF IInv, OwnOK, Elsewhere, cache
  <2>3. CASE variant = "can"
    <3>1. \A u \in DOMAIN tasks : u # t => ~Works(u) /\ ~(Works(u)')
      BY <2>3, <1>1, <1>3 DEF IInv, OwnOK
    <3>2. \A u \in DOMAIN tasks : tasks'[u].worker \notin {"send", "recv"}
      BY <3>1, <2>3, <1>4 DEF Works
    <3> QED BY <2>1, <2>2, <3>1, <3>2 DEF OwnOK, Writes, Begins
  <2>4. CASE variant = "udp"
    BY <2>1, <2>2, <2>4 DEF OwnOK, Writes, Elsewhere
  <2> QED BY <2>3, <2>4, <1>1
<1> QED BY <1>2, <1>5, <1>6, <1>7, <1>8 DEF IInv

\* A task goes on to wait for the lock, or for the client.
LEMMA MovesPreserves ==
    ASSUME IInv, NEW t \in DOMAIN tasks, NEW place, Writes(t), Moves(t, place),
           tasks[t].at \in {"new", "waiting"}, variant = "can",
           Elsewhere, lock' \in Seq(DOMAIN tasks), client' \in BOOLEAN, LockOK'
    PROVE  IInv'
<1>1. sniffer = "listening"
  BY DEF IInv, Simple, ClosedOK
<1>2. Simple'
  BY DEF IInv, Simple, Writes, Elsewhere, cache
<1>3. \A u \in DOMAIN tasks : /\ u # t => tasks'[u] = tasks[u]
                              /\ tasks'[u].worker = tasks[u].worker
                              /\ tasks'[u].left = tasks[u].left
                              /\ tasks'[u].heard = tasks[u].heard
                              /\ tasks'[u].source = tasks[u].source
                              /\ Works(u)' <=> Works(u)
  BY DEF Writes, Moves, Works
<1>4. WorkOK'
  BY <1>3 DEF IInv, WorkOK, Writes, Elsewhere
<1>5. JobOK'
  BY JobsStay DEF IInv, Elsewhere, cache
<1>6. ClosedOK'
  BY <1>1 DEF ClosedOK, Elsewhere
<1>7. OwnOK'
  <2> SUFFICES ASSUME ~overtaken PROVE OwnOK'
    BY DEF OwnOK, Elsewhere
  <2>1. ~(Works(t)') \/ variant # "can"
    BY <1>1, <1>3 DEF IInv, OwnOK
  <2>2. /\ DOMAIN tasks' = DOMAIN tasks
        /\ variant' = "can" /\ sniffer' = sniffer /\ origin' = origin /\ isotp' = isotp
    BY DEF Writes, Elsewhere, cache
  <2>3. \A u \in DOMAIN tasks : tasks'[u].heard \subseteq {tasks'[u].source}
    BY <1>3 DEF IInv, OwnOK
  <2>4. \A u, v \in DOMAIN tasks : Works(u)' /\ Works(v)' => u = v
    BY <1>3 DEF IInv, OwnOK
  <2>5. \A u \in DOMAIN tasks : Works(u)' /\ sniffer' = "listening" => tasks'[u].at = "requesting"
    BY <1>3, <2>1, <2>2 DEF IInv, OwnOK
  <2>6. \A u \in DOMAIN tasks :
           tasks'[u].worker \in {"send", "recv"} => isotp'.device = tasks'[u].source
    BY <1>3, <2>2 DEF IInv, OwnOK
  <2> QED BY <2>2, <2>3, <2>4, <2>5, <2>6 DEF IInv, OwnOK
<1> QED BY <1>2, <1>4, <1>5, <1>6, <1>7 DEF IInv

LEMMA EnsuredPreserves ==
    ASSUME IInv, NEW t \in DOMAIN tasks, tasks[t].at \in {"new", "waiting"},
           tasks' = [tasks EXCEPT ![t] = Ensured(tasks[t])], variant = "can",
           Elsewhere, lock' \in Seq(DOMAIN tasks), client' = client,
           IsInjective(lock'), lock' # <<>>, Head(lock') = t,
           ToSet(lock') = ToSet(lock) \cup {t},
           \A u \in DOMAIN tasks : u # t => ~Inside(u)
    PROVE  IInv'
<1>1. Simple
  BY DEF IInv
<1>2. ASSUME Writes(t), tasks'[t].at \in {"connecting", "requesting"} PROVE LockOK'
  <2>1. \A u \in DOMAIN tasks : u # t => tasks'[u] = tasks[u] /\ (Inside(u)' <=> Inside(u))
    BY <1>2 DEF Writes, Inside
  <2>2. Inside(t)'
    BY <1>2 DEF Inside
  <2>3. variant' = "can"
    BY DEF Elsewhere
  <2>4. \A u \in DOMAIN tasks : u # t => (u \in ToSet(lock) <=> tasks[u].at = "waiting" \/ Inside(u))
    BY DEF IInv, LockOK
  <2> QED BY <1>2, <2>1, <2>2, <2>3, <2>4 DEF LockOK, Writes
<1>3. client' \in BOOLEAN
  BY <1>1 DEF Simple
<1>4. CASE client
  <2>1. Writes(t) /\ Begins(t)
    BY <1>1, <1>4, BeginsFacts DEF Ensured
  <2>2. LockOK'
    BY <1>2, <2>1 DEF Begins
  <2> QED BY <1>3, <2>1, <2>2, BeginsPreserves DEF Inside
<1>5. CASE ~client
  <2>1. Writes(t) /\ Moves(t, "connecting")
    BY <1>1, <1>5, MovesFacts DEF Ensured
  <2>2. LockOK'
    BY <1>2, <2>1 DEF Moves
  <2> QED BY <1>3, <2>1, <2>2, MovesPreserves
<1> QED BY <1>4, <1>5

LEMMA StartsPreserves ==
    ASSUME IInv, NEW t, Starts(t)
    PROVE  IInv'
<1>1. t \in DOMAIN tasks /\ tasks[t].at = "new" /\ Elsewhere /\ client' = client
  BY DEF Starts, At
<1>2. Simple /\ variant \in {"can", "udp"} /\ client \in BOOLEAN /\ lock \in Seq(DOMAIN tasks)
  BY <1>1, TaskFacts DEF IInv, Simple
<1>3. CASE variant = "udp"
  <2>1. tasks' = [tasks EXCEPT ![t] = Requesting(tasks[t])] /\ lock' = lock
    BY <1>3 DEF Starts
  <2>2. Writes(t) /\ Begins(t)
    BY <1>1, <1>2, <2>1, BeginsFacts
  <2>3. LockOK'
    BY <1>1, <1>3, <2>1, <2>2 DEF IInv, LockOK, Writes, Begins, Elsewhere
  <2> QED BY <1>1, <1>2, <1>3, <2>1, <2>2, <2>3, BeginsPreserves
<1>4. CASE variant = "can"
  <2>1. /\ lock' = Append(lock, t)
        /\ tasks' = [tasks EXCEPT ![t] = IF lock = <<>> THEN Ensured(tasks[t])
                                         ELSE [tasks[t] EXCEPT !.at = "waiting"]]
    BY <1>4 DEF Starts
  <2>2. IsInjective(lock) /\ t \notin ToSet(lock)
    BY <1>1, <1>4 DEF IInv, LockOK, Inside
  <2>3. /\ lock' \in Seq(DOMAIN tasks) /\ lock' # <<>> /\ IsInjective(lock')
        /\ ToSet(lock') = ToSet(lock) \cup {t}
        /\ lock # <<>> => Head(lock') = Head(lock)
        /\ lock = <<>> => Head(lock') = t
    BY <1>1, <1>2, <2>1, <2>2, AppendFacts
  <2>4. CASE lock = <<>>
    <3>1. \A u \in DOMAIN tasks : ~Inside(u)
      BY <1>4, <2>4 DEF IInv, LockOK
    <3>2. tasks' = [tasks EXCEPT ![t] = Ensured(tasks[t])]
      BY <2>1, <2>4
    <3> QED BY <1>1, <1>4, <2>3, <2>4, <3>1, <3>2, EnsuredPreserves
  <2>5. CASE lock # <<>>
    <3>1. tasks' = [tasks EXCEPT ![t] = [tasks[t] EXCEPT !.at = "waiting"]]
      BY <2>1, <2>5
    <3>2. Writes(t) /\ Moves(t, "waiting")
      BY <1>1, <1>2, <3>1, MovesFacts
    <3>3. \A u \in DOMAIN tasks : u # t => tasks'[u] = tasks[u] /\ (Inside(u)' <=> Inside(u))
      BY <3>2 DEF Writes, Inside
    <3>4. ~Inside(t)' /\ tasks'[t].at = "waiting"
      BY <3>2 DEF Moves, Inside
    <3>5. variant' = "can" /\ DOMAIN tasks' = DOMAIN tasks
      BY <1>1, <1>4, <3>2 DEF Elsewhere, Writes
    <3>6. LockOK'
      <4>1. ASSUME NEW u \in DOMAIN tasks
            PROVE  /\ u \in ToSet(lock') <=> tasks'[u].at = "waiting" \/ Inside(u)'
                   /\ Inside(u)' => lock' # <<>> /\ Head(lock') = u
        <5>1. CASE u = t
          BY <5>1, <3>4, <2>3
        <5>2. CASE u # t
          BY <5>2, <3>3, <2>3, <2>5, <1>4 DEF IInv, LockOK
        <5> QED BY <5>1, <5>2
      <4> QED BY <4>1, <2>3, <3>5 DEF LockOK
    <3> QED BY <1>1, <1>2, <1>4, <2>3, <3>2, <3>6, MovesPreserves
  <2> QED BY <2>4, <2>5
<1> QED BY <1>2, <1>3, <1>4

LEMMA AcquiresPreserves ==
    ASSUME IInv, NEW t, Acquires(t)
    PROVE  IInv'
<1>1. /\ t \in DOMAIN tasks /\ tasks[t].at = "waiting" /\ Elsewhere /\ client' = client
      /\ lock' = lock /\ Head(lock) = t
      /\ tasks' = [tasks EXCEPT ![t] = Ensured(tasks[t])]
  BY DEF Acquires, At
<1>2. Simple /\ lock \in Seq(DOMAIN tasks) /\ variant = "can"
  BY <1>1, TaskFacts DEF IInv, Simple, LockOK
<1>3. IsInjective(lock) /\ t \in ToSet(lock)
  BY <1>1, <1>2 DEF IInv, LockOK
<1>4. lock # <<>>
  BY <1>3 DEF ToSet
<1>5. \A u \in DOMAIN tasks : u # t => ~Inside(u)
  BY <1>1, <1>2 DEF IInv, LockOK
<1>6. ToSet(lock') = ToSet(lock) \cup {t}
  BY <1>1, <1>3
<1> QED BY <1>1, <1>2, <1>3, <1>4, <1>5, <1>6, EnsuredPreserves

LEMMA ConnectedPreserves ==
    ASSUME IInv, NEW t, Connected(t)
    PROVE  IInv'
<1>1. /\ t \in DOMAIN tasks /\ tasks[t].at = "connecting" /\ Elsewhere /\ client' = TRUE
      /\ lock' = lock
      /\ tasks' = [tasks EXCEPT ![t] = Requesting(tasks[t])]
  BY DEF Connected, At
<1>2. Simple /\ lock \in Seq(DOMAIN tasks) /\ variant = "can"
  BY <1>1, TaskFacts DEF IInv, Simple, LockOK
<1>3. Writes(t) /\ Begins(t)
  BY <1>1, <1>2, BeginsFacts
<1>4. Inside(t) /\ \A u \in DOMAIN tasks : u # t => ~Inside(u)
  BY <1>1, <1>2 DEF IInv, LockOK, Inside
<1>5. \A u \in DOMAIN tasks : /\ Inside(u)' <=> Inside(u)
                              /\ tasks'[u].at = "waiting" <=> tasks[u].at = "waiting"
  BY <1>1, <1>3 DEF Inside, Writes, Begins
<1>6. LockOK'
  BY <1>1, <1>2, <1>3, <1>5 DEF IInv, LockOK, Writes, Elsewhere
<1> QED BY <1>1, <1>2, <1>3, <1>4, <1>6, BeginsPreserves DEF Inside

(***************************************************************************)
(* The worker's steps                                                      *)
(***************************************************************************)
LEMMA WorkPreserves ==
    ASSUME IInv, NEW t \in DOMAIN tasks, Writes(t), Works(t), Alone,
           tasks'[t].at = tasks[t].at,
           Works(t)' => tasks'[t].left >= 1,
           isotp' \in {None} \cup Link, isotp \in Link => isotp' \in Link,
           variant = "can" /\ tasks'[t].worker \in {"send", "recv"} => isotp' \in Link,
           ~overtaken => tasks'[t].heard \subseteq {tasks[t].source},
           ~overtaken /\ variant = "can" /\ tasks'[t].worker \in {"send", "recv"}
               => isotp'.device = tasks[t].source
    PROVE  IInv'
<1>1. Simple'
  BY DEF IInv, Simple, Writes, Alone, cache
<1>2. /\ DOMAIN tasks' = DOMAIN tasks
      /\ \A u \in DOMAIN tasks : u # t => tasks'[u] = tasks[u] /\ (Works(u)' <=> Works(u))
  BY DEF Writes, Works
<1>3. \A u \in DOMAIN tasks : tasks'[u].at = tasks[u].at /\ (Inside(u)' <=> Inside(u))
  BY <1>2 DEF Inside
<1>4. WorkOK'
  <2> SUFFICES ASSUME NEW u \in DOMAIN tasks
               PROVE  /\ Works(u)' => tasks'[u].left >= 1
                      /\ variant = "can" /\ tasks'[u].worker \in {"send", "recv"} => isotp' \in Link
    BY <1>2 DEF WorkOK, Alone
  <2>1. CASE u = t
    BY <2>1
  <2>2. CASE u # t
    BY <2>2, <1>2 DEF IInv, WorkOK
  <2> QED BY <2>1, <2>2
<1>5. LockOK'
  BY <1>2, <1>3 DEF IInv, LockOK, Alone
<1>6. JobOK'
  BY JobsStay DEF IInv, Alone, cache
<1>7. ClosedOK'
  BY <1>2, <1>3 DEF IInv, ClosedOK, Alone
<1>8. OwnOK'
  <2> SUFFICES ASSUME ~overtaken PROVE OwnOK'
    BY DEF OwnOK, Alone
  <2>1. \A u \in DOMAIN tasks : tasks'[u].heard \subseteq {tasks'[u].source}
    BY <1>2 DEF IInv, OwnOK, Writes
  <2>2. \A s \in Sources : origin'[s] \subseteq {s}
    BY DEF IInv, OwnOK, Alone, cache
  <2>3. CASE variant = "can"
    <3>1. \A u \in DOMAIN tasks : u # t => ~Works(u) /\ ~(Works(u)')
      BY <2>3, <1>2 DEF IInv, OwnOK
    <3>2. \A u \in DOMAIN tasks : tasks'[u].worker \in {"send", "recv"} => u = t
      BY <3>1 DEF Works
    <3>3. sniffer = "listening" => tasks[t].at = "requesting"
      BY <2>3 DEF IInv, OwnOK
    <3>4. sniffer' = sniffer /\ variant' = variant /\ tasks'[t].source = tasks[t].source
      BY DEF Alone, Writes
    <3>5. \A u, v \in DOMAIN tasks : Works(u)' /\ Works(v)' => u = v
      BY <3>1
    <3>6. \A u \in DOMAIN tasks :
             /\ Works(u)' /\ sniffer' = "listening" => tasks'[u].at = "requesting"
             /\ tasks'[u].worker \in {"send", "recv"} => isotp'.device = tasks'[u].source
      <4> TAKE u \in DOMAIN tasks
      <4>1. CASE u = t
        BY <4>1, <2>3, <3>3, <3>4
      <4>2. CASE u # t
        BY <4>2, <3>1, <3>2
      <4> QED BY <4>1, <4>2
    <3> QED BY <2>1, <2>2, <3>5, <3>6, <1>2 DEF OwnOK
  <2>4. CASE variant # "can"
    BY <1>2, <2>1, <2>2, <2>4 DEF OwnOK, Alone
  <2> QED BY <2>3, <2>4
<1> QED BY <1>1, <1>4, <1>5, <1>6, <1>7, <1>8 DEF IInv

LEMMA WorkerStepPreserves ==
    ASSUME IInv, NEW t, WorkerStep(t)
    PROVE  IInv'
<1>1. t \in DOMAIN tasks /\ Works(t) /\ Alone
  BY DEF WorkerStep, WorkerBinds, WorkerSends, WorkerReceives, WorkerRaises, Worker, Works
<1>2. /\ Simple /\ tasks[t] \in TaskType /\ variant \in {"can", "udp"}
      /\ isotp \in {None} \cup Link /\ tasks[t].left >= 1
      /\ variant = "can" /\ tasks[t].worker \in {"send", "recv"} => isotp \in Link
      /\ tasks[t].source \in Sources /\ tasks[t].heard \subseteq Sources
      /\ ~overtaken => tasks[t].heard \subseteq {tasks[t].source}
      /\ ~overtaken /\ variant = "can" /\ tasks[t].worker \in {"send", "recv"}
            => isotp.device = tasks[t].source
  <2>1. Simple /\ WorkOK /\ OwnOK
    BY DEF IInv
  <2>2. tasks[t] \in TaskType /\ variant \in {"can", "udp"}
    BY <1>1, <2>1, TaskFacts
  <2> QED BY <1>1, <2>1, <2>2 DEF Simple, WorkOK, OwnOK, TaskType
<1>3. CASE WorkerBinds(t)
  <2>1. Goes(t, "send") /\ isotp' = [device |-> tasks[t].source, asked |-> 0, open |-> TRUE]
    BY <1>3 DEF WorkerBinds
  <2>2. Writes(t) /\ Works1(t, "send")
    BY <1>1, <1>2, <2>1, GoesFacts
  <2>3. isotp' \in Link /\ isotp'.device = tasks[t].source
    BY <1>2, <2>1 DEF Link
  <2> QED BY <1>1, <1>2, <2>2, <2>3, WorkPreserves DEF Works1
<1>4. CASE WorkerSends(t)
  <2>1. Goes(t, "recv") /\ tasks[t].worker = "send"
    BY <1>4 DEF WorkerSends, Worker
  <2>2. Writes(t) /\ Works1(t, "recv")
    BY <1>1, <1>2, <2>1, GoesFacts
  <2>3. variant = "udp" => isotp' = isotp
    BY <1>4 DEF WorkerSends
  <2>4. variant = "can" => isotp' = [isotp EXCEPT !.asked = @ + 1] /\ isotp \in Link
    BY <1>2, <1>4, <2>1 DEF WorkerSends
  <2>5. isotp' \in {None} \cup Link /\ (isotp \in Link => isotp' \in Link)
        /\ (variant = "can" => isotp' \in Link /\ isotp'.device = isotp.device)
    BY <1>2, <2>3, <2>4 DEF Link
  <2> QED BY <1>1, <1>2, <2>1, <2>2, <2>5, WorkPreserves DEF Works1
<1>5. CASE WorkerReceives(t)
  <2>1. PICK heard \in {{}, IF variant = "udp" THEN {tasks[t].source}
                            ELSE IF isotp.asked = 0 THEN {} ELSE {isotp.device}} :
          /\ tasks' = [tasks EXCEPT
                ![t].heard = @ \cup heard,
                ![t].left = @ - 1,
                ![t].worker = IF tasks[t].left = 1 THEN "done" ELSE FirstStep]
          /\ isotp' = IF variant = "udp" THEN isotp
                      ELSE [isotp EXCEPT !.asked = IF heard = {} THEN @ ELSE @ - 1,
                                         !.open = FALSE]
    BY <1>5 DEF WorkerReceives
  <2>2. tasks[t].worker = "recv"
    BY <1>5 DEF WorkerReceives, Worker
  <2> DEFINE step == IF tasks[t].left = 1 THEN "done" ELSE FirstStep
             more == tasks[t].heard \cup heard
             fewer == tasks[t].left - 1
             r == [tasks[t] EXCEPT !.heard = more, !.left = fewer, !.worker = step]
  <2>3. heard \subseteq Sources /\ (~overtaken => heard \subseteq {tasks[t].source})
    BY <1>2, <2>1, <2>2 DEF Link
  <2>4. step \in {"none", "bind", "send", "recv", "done", "raised"}
    BY DEF FirstStep
  <2>5. tasks[t].left \in 1..Rounds /\ Rounds \in Nat
    BY <1>2, SchemaCacheAssumption DEF TaskType
  <2>6. more \in SUBSET Sources /\ fewer \in 0..Rounds
    BY <1>2, <2>3, <2>5
  <2> HIDE DEF step, more, fewer
  <2>7. /\ r \in TaskType
        /\ r.what = tasks[t].what /\ r.source = tasks[t].source /\ r.ids = tasks[t].ids
        /\ r.heard = more /\ r.left = fewer
        /\ r.worker = step /\ r.at = tasks[t].at
    BY <1>2, <2>4, <2>6 DEF TaskType
  <2>8. tasks' = [tasks EXCEPT ![t] = r]
    BY <2>1 DEF step, more, fewer
  <2> HIDE DEF r
  <2>9. Writes(t) /\ tasks'[t] = r
    BY <1>1, <1>2, <2>7, <2>8, WritesFacts
  <2>10. Works(t)' => tasks'[t].left >= 1
    BY <2>5, <2>7, <2>9 DEF Works, step, fewer
  <2>11. isotp' \in {None} \cup Link /\ (isotp \in Link => isotp' \in Link)
         /\ (variant = "can" => isotp' \in Link /\ isotp'.device = isotp.device)
    <3>1. CASE variant = "udp"
      BY <1>2, <2>1, <3>1
    <3>2. CASE variant = "can"
      <4> DEFINE n == IF heard = {} THEN isotp.asked ELSE isotp.asked - 1
      <4>1. isotp \in Link /\ isotp' = [isotp EXCEPT !.asked = n, !.open = FALSE]
        BY <1>2, <2>1, <2>2, <3>2
      <4>2. n \in Nat
        <5>1. isotp.asked \in Nat
          BY <4>1 DEF Link
        <5>2. heard # {} => isotp.asked # 0
          BY <2>1, <3>2
        <5> QED BY <5>1, <5>2
      <4> HIDE DEF n
      <4> QED BY <4>1, <4>2 DEF Link
    <3> QED BY <1>2, <3>1, <3>2
  <2>12. ~overtaken => tasks'[t].heard \subseteq {tasks[t].source}
    BY <1>2, <2>3, <2>7, <2>9 DEF more
  <2> QED BY <1>1, <1>2, <2>2, <2>7, <2>9, <2>10, <2>11, <2>12, WorkPreserves
<1>6. CASE WorkerRaises(t)
  <2>1. Goes(t, "raised") /\ isotp' = isotp
    BY <1>6 DEF WorkerRaises
  <2>2. Writes(t) /\ Works1(t, "raised")
    BY <1>1, <1>2, <2>1, GoesFacts
  <2>3. ~Works(t)' /\ tasks'[t].worker \notin {"send", "recv"}
    BY <2>2 DEF Works, Works1
  <2> QED BY <1>1, <1>2, <2>1, <2>2, <2>3, WorkPreserves DEF Works1
<1> QED BY <1>3, <1>4, <1>5, <1>6 DEF WorkerStep

(***************************************************************************)
(* The steps that end a task                                               *)
(***************************************************************************)
\* A fetch leaves a tree or None, so a tree is never fetched twice.
Settles(t) ==
    \/ /\ tasks[t].what = "fetch"
       /\ \E tree \in {"failed", "cached"} :
             trees' = [trees EXCEPT ![tasks[t].source] = tree]
       /\ fetching' = fetching \ {tasks[t].source}
    \/ UNCHANGED <<trees, fetching>>

\* What a task heard goes into its own source's tree, if anywhere.
Decorates(t) ==
    \/ UNCHANGED origin
    \/ origin' = [origin EXCEPT ![tasks[t].source] = tasks[t].heard]
    \/ origin' = [origin EXCEPT ![tasks[t].source] = @ \cup tasks[t].heard]

LEMMA EndsPreserves ==
    ASSUME IInv, NEW t \in DOMAIN tasks, Writes(t), Inside(t),
           tasks'[t].at = "ended", tasks'[t].heard = tasks[t].heard,
           tasks'[t].left = tasks[t].left,
           tasks'[t].worker \in {tasks[t].worker, "none"},
           lock' = IF variant = "udp" THEN lock ELSE Tail(lock),
           UNCHANGED <<variant, sniffer, resolved_ids, client, isotp>>,
           Settles(t), Decorates(t),
           overtaken' \in BOOLEAN, ~overtaken' => ~overtaken,
           ~overtaken' /\ variant = "can" => ~Works(t)
    PROVE  IInv'
<1>1. /\ Simple /\ tasks[t] \in TaskType /\ variant \in {"can", "udp"}
      /\ tasks[t].source \in Sources /\ tasks[t].heard \subseteq Sources
  BY TaskFacts DEF IInv, TaskType
<1>2. sniffer = "listening"
  BY DEF IInv, Simple, ClosedOK, Inside
<1>3. /\ DOMAIN tasks' = DOMAIN tasks
      /\ \A u \in DOMAIN tasks : /\ u # t => tasks'[u] = tasks[u]
                                 /\ u # t => (Inside(u)' <=> Inside(u))
                                 /\ Works(u)' => Works(u)
                                 /\ tasks'[u].worker \in {"send", "recv"}
                                        => tasks'[u].worker = tasks[u].worker
                                 /\ tasks'[u].left = tasks[u].left
                                 /\ tasks'[u].heard = tasks[u].heard
                                 /\ tasks'[u].source = tasks[u].source
  BY DEF Writes, Works, Inside
<1>4. variant = "can" => /\ lock \in Seq(DOMAIN tasks) /\ lock # <<>> /\ Head(lock) = t
                         /\ IsInjective(lock)
                         /\ lock' \in Seq(DOMAIN tasks) /\ IsInjective(lock')
                         /\ ToSet(lock) = {t} \cup ToSet(lock') /\ t \notin ToSet(lock')
  <2> SUFFICES ASSUME variant = "can"
               PROVE  /\ lock \in Seq(DOMAIN tasks) /\ lock # <<>> /\ Head(lock) = t
                      /\ IsInjective(lock)
                      /\ lock' \in Seq(DOMAIN tasks) /\ IsInjective(lock')
                      /\ ToSet(lock) = {t} \cup ToSet(lock') /\ t \notin ToSet(lock')
    OBVIOUS
  <2>1. lock \in Seq(DOMAIN tasks) /\ lock # <<>> /\ Head(lock) = t /\ IsInjective(lock)
    BY DEF IInv, Simple, LockOK
  <2>2. lock' = Tail(lock)
    OBVIOUS
  <2> QED BY <2>1, <2>2, TailFacts
<1>5. Simple'
  <2>1. trees' \in [Sources -> {"absent", "failed", "cached"}] /\ fetching' \subseteq Sources
    BY <1>1 DEF Simple, Settles
  <2>2. origin' \in [Sources -> SUBSET Sources]
    BY <1>1 DEF Simple, Decorates
  <2>3. lock' \in Seq(DOMAIN tasks)
    BY <1>1, <1>4 DEF Simple
  <2> QED BY <1>1, <1>3, <2>1, <2>2, <2>3 DEF Simple, Writes
<1>6. WorkOK'
  BY <1>3 DEF IInv, WorkOK
<1>7. LockOK'
  <2>1. CASE variant = "udp"
    BY <1>3, <2>1 DEF IInv, LockOK, Inside
  <2>2. CASE variant = "can"
    <3>1. \A u \in DOMAIN tasks : u # t => ~Inside(u) /\ ~(Inside(u)')
      BY <1>3, <1>4, <2>2 DEF IInv, LockOK
    <3>2. ~(Inside(t)') /\ tasks'[t].at # "waiting"
      BY DEF Inside
    <3>3. ASSUME NEW u \in DOMAIN tasks
          PROVE  /\ u \in ToSet(lock') <=> tasks'[u].at = "waiting" \/ Inside(u)'
                 /\ ~(Inside(u)')
      <4>1. CASE u = t
        BY <4>1, <3>2, <1>4, <2>2
      <4>2. CASE u # t
        BY <4>2, <3>1, <1>3, <1>4, <2>2 DEF IInv, LockOK
      <4> QED BY <4>1, <4>2
    <3> QED BY <3>3, <1>3, <1>4, <2>2 DEF LockOK
  <2> QED BY <2>1, <2>2, <1>1
<1>8. JobOK'
  <2>1. \A s \in Sources : trees[s] # "absent" \/ s \in fetching
                           => trees'[s] # "absent" \/ s \in fetching'
    BY <1>1 DEF Simple, Settles
  <2> QED BY <2>1, JobsStay DEF IInv
<1>9. ClosedOK'
  BY <1>2 DEF ClosedOK
<1>10. OwnOK'
  <2> SUFFICES ASSUME ~overtaken', ~overtaken PROVE OwnOK'
    BY DEF OwnOK
  <2>1. \A u \in DOMAIN tasks : tasks'[u].heard \subseteq {tasks'[u].source}
    BY <1>3 DEF IInv, OwnOK
  <2>2. \A s \in Sources : origin'[s] \subseteq {s}
    <3>1. tasks[t].heard \subseteq {tasks[t].source} /\ \A s \in Sources : origin[s] \subseteq {s}
      BY DEF IInv, OwnOK
    <3>2. \A s \in Sources : origin'[s] \in {origin[s], tasks[t].heard, origin[s] \cup tasks[t].heard}
                            /\ (s # tasks[t].source => origin'[s] = origin[s])
      <4>1. origin \in [Sources -> SUBSET Sources]
        BY <1>1 DEF Simple
      <4> QED BY <4>1, <1>1 DEF Decorates
    <3> QED BY <3>1, <3>2
  <2>3. CASE variant = "can"
    <3>1. ~Works(t) /\ ~(Works(t)')
      BY <2>3, <1>3
    <3>2. \A u, v \in DOMAIN tasks : Works(u)' /\ Works(v)' => u = v
      BY <1>3, <2>3 DEF IInv, OwnOK
    <3>3. \A u \in DOMAIN tasks :
             /\ Works(u)' /\ sniffer' = "listening" => tasks'[u].at = "requesting"
             /\ tasks'[u].worker \in {"send", "recv"} => isotp'.device = tasks'[u].source
      BY <1>3, <2>3, <3>1 DEF IInv, OwnOK
    <3> QED BY <2>1, <2>2, <3>2, <3>3, <1>3 DEF OwnOK
  <2>4. CASE variant # "can"
    BY <1>3, <2>1, <2>2, <2>4 DEF OwnOK
  <2> QED BY <2>3, <2>4
<1> QED BY <1>5, <1>6, <1>7, <1>8, <1>9, <1>10 DEF IInv

\* Ended(t, tasks[t]) writes nothing of the task's record but its place.
LEMMA EndedFacts ==
    ASSUME Simple, NEW t \in DOMAIN tasks, Ended(t, tasks[t])
    PROVE  /\ Writes(t) /\ Moves(t, "ended")
           /\ lock' = IF variant = "udp" THEN lock ELSE Tail(lock)
           /\ UNCHANGED <<variant, sniffer, resolved_ids, client, isotp>>
BY MovesFacts DEF Ended

LEMMA AnsweredPreserves ==
    ASSUME IInv, NEW t, NEW what, Answered(t, what), Settles(t), Decorates(t)
    PROVE  IInv'
<1>1. /\ t \in DOMAIN tasks /\ Inside(t) /\ ~Works(t) /\ Ended(t, tasks[t])
      /\ overtaken' = overtaken
  BY DEF Answered, At, Worker, Inside, Works
<1>2. Simple /\ overtaken \in BOOLEAN
  BY DEF IInv, Simple
<1> QED BY <1>1, <1>2, EndedFacts, EndsPreserves DEF Moves

LEMMA FailsPreserves ==
    ASSUME IInv, NEW t, Fails(t)
    PROVE  IInv'
<1>1. /\ t \in DOMAIN tasks /\ Inside(t) /\ Ended(t, tasks[t])
      /\ overtaken' = overtaken
      /\ tasks[t].at = "connecting" \/ ~Works(t)
  BY DEF Fails, At, Worker, Inside, Works
<1>2. Simple /\ overtaken \in BOOLEAN /\ sniffer = "listening"
  BY <1>1 DEF IInv, Simple, ClosedOK, Inside
<1>3. Settles(t) /\ Decorates(t)
  BY DEF Fails, Failed, Settles, Decorates
<1>4. ~overtaken' /\ variant = "can" => ~Works(t)
  BY <1>1, <1>2 DEF IInv, OwnOK
<1> QED BY <1>1, <1>2, <1>3, <1>4, EndedFacts, EndsPreserves DEF Moves

LEMMA TimesOutPreserves ==
    ASSUME IInv, NEW t, TimesOut(t)
    PROVE  IInv'
<1>1. /\ t \in DOMAIN tasks /\ Inside(t)
      /\ overtaken' = (overtaken \/ variant = "can")
  BY DEF TimesOut, At, Inside
<1>2. Simple /\ overtaken \in BOOLEAN /\ tasks[t] \in TaskType /\ variant \in {"can", "udp"}
  BY <1>1, TaskFacts DEF IInv, Simple
<1>3. Settles(t) /\ Decorates(t)
  BY DEF TimesOut, Failed, Settles, Decorates
<1>4. CASE variant = "can"
  <2>1. Ended(t, tasks[t])
    BY <1>4 DEF TimesOut
  <2> QED BY <1>1, <1>2, <1>3, <1>4, <2>1, EndedFacts, EndsPreserves DEF Moves
<1>5. CASE variant = "udp"
  <2> DEFINE r == [[tasks[t] EXCEPT !.worker = "none"] EXCEPT !.at = "ended"]
  <2>1. /\ tasks' = [tasks EXCEPT ![t] = r]
        /\ lock' = IF variant = "udp" THEN lock ELSE Tail(lock)
        /\ UNCHANGED <<variant, sniffer, resolved_ids, client, isotp>>
    BY <1>5 DEF TimesOut, Ended
  <2>2. /\ r \in TaskType
        /\ r.what = tasks[t].what /\ r.source = tasks[t].source /\ r.ids = tasks[t].ids
        /\ r.heard = tasks[t].heard /\ r.left = tasks[t].left
        /\ r.worker = "none" /\ r.at = "ended"
    BY <1>2 DEF TaskType
  <2> HIDE DEF r
  <2>3. Writes(t) /\ tasks'[t] = r
    BY <1>1, <1>2, <2>1, <2>2, WritesFacts
  <2>4. overtaken' \in BOOLEAN /\ (~overtaken' => ~overtaken)
    BY <1>1, <1>2
  <2>5. tasks'[t].worker \in {tasks[t].worker, "none"}
    BY <2>2, <2>3
  <2> QED BY <1>1, <1>3, <1>5, <2>1, <2>2, <2>3, <2>4, <2>5, EndsPreserves
<1> QED BY <1>2, <1>4, <1>5

LEMMA TaskStepPreserves ==
    ASSUME IInv, NEW t, TaskStep(t)
    PROVE  IInv'
<1>1. CASE FetchSucceeds(t)
  <2>1. Answered(t, "fetch") /\ Settles(t) /\ Decorates(t)
    BY <1>1 DEF FetchSucceeds, Answered, Settles, Decorates
  <2> QED BY <2>1, AnsweredPreserves
<1>2. CASE ResolveSucceeds(t)
  <2>1. Answered(t, "resolve") /\ Settles(t) /\ Decorates(t)
    BY <1>2 DEF ResolveSucceeds, Settles, Decorates
  <2> QED BY <2>1, AnsweredPreserves
<1> QED
  BY <1>1, <1>2, StartsPreserves, AcquiresPreserves, ConnectedPreserves, FailsPreserves,
     TimesOutPreserves DEF TaskStep

(***************************************************************************)
(* Reports and close()                                                     *)
(***************************************************************************)
\* A new task that asks for what nothing in the cache is marked for.
LEMMA SpawnPreserves ==
    ASSUME IInv, sniffer = "listening", NEW new \in TaskType,
           tasks' = Append(tasks, new), new.at = "new", new.worker = "none", new.heard = {},
           UNCHANGED <<variant, sniffer, trees, origin, lock, client, isotp, overtaken>>,
           fetching' \subseteq Sources, fetching \subseteq fetching',
           resolved_ids' \in [Sources -> SUBSET Unknown],
           \A s \in Sources : resolved_ids[s] \subseteq resolved_ids'[s],
           new.what = "fetch" => /\ trees[new.source] = "absent" /\ new.source \notin fetching
                                 /\ new.source \in fetching',
           new.what = "resolve" => /\ new.ids \cap resolved_ids[new.source] = {}
                                   /\ new.ids \subseteq resolved_ids'[new.source]
    PROVE  IInv'
<1>1. /\ Simple /\ tasks \in Seq(TaskType)
      /\ \A u \in DOMAIN tasks : tasks[u] \in TaskType
  BY TaskFacts DEF IInv, Simple
<1>2. PICK k \in Nat :
         /\ tasks' \in Seq(TaskType) /\ DOMAIN tasks' = DOMAIN tasks \cup {k}
         /\ tasks'[k] = new /\ k \notin DOMAIN tasks
         /\ \A u \in DOMAIN tasks : tasks'[u] = tasks[u]
  <2>1. /\ Len(tasks) \in Nat /\ DOMAIN tasks = 1..Len(tasks)
        /\ Append(tasks, new) \in Seq(TaskType)
        /\ DOMAIN Append(tasks, new) = 1..(Len(tasks) + 1)
        /\ Append(tasks, new)[Len(tasks) + 1] = new
        /\ \A u \in 1..Len(tasks) : Append(tasks, new)[u] = tasks[u]
    BY <1>1
  <2> QED BY <2>1
<1>3. /\ \A u \in DOMAIN tasks : (Works(u)' <=> Works(u)) /\ (Inside(u)' <=> Inside(u))
      /\ ~(Works(k)') /\ ~(Inside(k)') /\ tasks'[k].at = "new" /\ tasks'[k].worker = "none"
  BY <1>2 DEF Works, Inside
<1>4. Simple'
  <2>1. lock' \in Seq(DOMAIN tasks')
    BY <1>1, <1>2, SeqGrows DEF Simple
  <2> QED BY <1>1, <1>2, <2>1 DEF Simple
<1>5. WorkOK'
  BY <1>2, <1>3 DEF IInv, WorkOK
<1>6. LockOK'
  <2>1. k \notin ToSet(lock)
    BY <1>1, <1>2 DEF Simple, ToSet
  <2> QED BY <1>2, <1>3, <2>1 DEF IInv, LockOK
<1>7. JobOK'
  <2>1. \A u \in DOMAIN tasks : tasks[u].what \in {"fetch", "resolve"} /\ tasks[u].source \in Sources
    BY <1>1 DEF TaskType
  <2>2. new.what \in {"fetch", "resolve"}
    BY DEF TaskType
  <2>3. ASSUME NEW u \in DOMAIN tasks, tasks[u].what = new.what, tasks[u].source = new.source
        PROVE  new.what = "resolve" /\ tasks[u].ids \cap new.ids = {}
    BY <2>2, <2>3 DEF IInv, JobOK
  <2>4. \A u, v \in DOMAIN tasks' :
           u # v /\ tasks'[u].what = tasks'[v].what /\ tasks'[u].source = tasks'[v].source
               => tasks'[u].what = "resolve" /\ tasks'[u].ids \cap tasks'[v].ids = {}
    BY <1>2, <2>3 DEF IInv, JobOK
  <2>5. ASSUME NEW u \in DOMAIN tasks'
        PROVE  /\ tasks'[u].what = "fetch"
                      => trees[tasks'[u].source] # "absent" \/ tasks'[u].source \in fetching'
               /\ tasks'[u].what = "resolve"
                      => tasks'[u].ids \subseteq resolved_ids'[tasks'[u].source]
    <3>1. CASE u = k
      BY <1>2, <3>1
    <3>2. CASE u # k
      BY <1>2, <2>1, <3>2 DEF IInv, JobOK
    <3> QED BY <3>1, <3>2
  <2> QED BY <2>4, <2>5 DEF JobOK
<1>8. ClosedOK'
  BY DEF ClosedOK
<1>9. OwnOK'
  <2> SUFFICES ASSUME ~overtaken PROVE OwnOK'
    BY DEF OwnOK
  <2>1. \A u \in DOMAIN tasks' : tasks'[u].heard \subseteq {tasks'[u].source}
    BY <1>2 DEF IInv, OwnOK
  <2>2. \A s \in Sources : origin'[s] \subseteq {s}
    BY DEF IInv, OwnOK
  <2>3. CASE variant = "can"
    <3>1. \A u, v \in DOMAIN tasks' : Works(u)' /\ Works(v)' => u = v
      BY <1>2, <1>3, <2>3 DEF IInv, OwnOK
    <3>2. \A u \in DOMAIN tasks' :
             /\ Works(u)' /\ sniffer' = "listening" => tasks'[u].at = "requesting"
             /\ tasks'[u].worker \in {"send", "recv"} => isotp'.device = tasks'[u].source
      BY <1>2, <1>3, <2>3 DEF IInv, OwnOK
    <3> QED BY <2>1, <2>2, <3>1, <3>2 DEF OwnOK
  <2>4. CASE variant # "can"
    BY <2>1, <2>2, <2>4 DEF OwnOK
  <2> QED BY <2>3, <2>4
<1> QED BY <1>4, <1>5, <1>6, <1>7, <1>8, <1>9 DEF IInv

LEMMA StutterPreserves ==
    ASSUME IInv, UNCHANGED vars
    PROVE  IInv'
BY DEF vars, cache, IInv, Simple, WorkOK, LockOK, JobOK, ClosedOK, OwnOK, Works, Inside

LEMMA TaskIsATask ==
    ASSUME NEW what \in {"fetch", "resolve"}, NEW s \in Sources, NEW ids \in SUBSET Unknown
    PROVE  /\ Task(what, s, ids) \in TaskType
           /\ Task(what, s, ids).what = what /\ Task(what, s, ids).source = s
           /\ Task(what, s, ids).ids = ids /\ Task(what, s, ids).at = "new"
           /\ Task(what, s, ids).worker = "none" /\ Task(what, s, ids).heard = {}
<1>1. 0 \in 0..Rounds
  BY SchemaCacheAssumption
<1> QED BY <1>1 DEF Task, TaskType

LEMMA ReportPreserves ==
    ASSUME IInv, NEW s \in Sources, NEW ids \in SUBSET Unknown, Report(s, ids)
    PROVE  IInv'
<1> DEFINE to_resolve == ids \ resolved_ids[s]
           fetch == maybe_start_fetch(s)
           resolve == maybe_resolve_unknowns(s, ids)
<1>1. /\ tasks \in Seq(TaskType) /\ fetching \subseteq Sources
      /\ resolved_ids \in [Sources -> SUBSET Unknown]
  BY DEF IInv, Simple
<1>2. /\ sniffer = "listening"
      /\ UNCHANGED <<variant, sniffer, trees, origin, lock, client, isotp, overtaken>>
      /\ tasks' = tasks \o fetch \o resolve
      /\ fetching' = IF fetch = <<>> THEN fetching ELSE fetching \cup {s}
      /\ resolved_ids' = IF resolve = <<>> THEN resolved_ids
                         ELSE [resolved_ids EXCEPT ![s] = @ \cup resolve[1].ids]
  BY DEF Report, Spawned
<1>3. /\ fetch = IF has_entry(s) THEN <<>> ELSE <<Task("fetch", s, {})>>
      /\ resolve = IF trees[s] # "cached" \/ to_resolve = {} THEN <<>>
                   ELSE <<Task("resolve", s, to_resolve)>>
  BY DEF maybe_start_fetch, maybe_resolve_unknowns
<1> HIDE DEF fetch, resolve
<1>4. CASE ~has_entry(s)
  <2> DEFINE new == Task("fetch", s, {})
  <2>1. trees[s] = "absent" /\ s \notin fetching
    BY <1>4 DEF has_entry
  <2>2. fetch = <<new>> /\ resolve = <<>>
    BY <1>3, <1>4, <2>1
  <2>3. /\ new \in TaskType /\ new.what = "fetch" /\ new.source = s /\ new.at = "new"
        /\ new.worker = "none" /\ new.heard = {}
    BY TaskIsATask
  <2> HIDE DEF new
  <2>4. tasks' = Append(tasks, new)
    BY <1>1, <1>2, <2>2, <2>3
  <2>5. fetching' = fetching \cup {s} /\ resolved_ids' = resolved_ids
    BY <1>2, <2>2
  <2> QED BY <1>1, <1>2, <2>1, <2>3, <2>4, <2>5, SpawnPreserves
<1>5. CASE has_entry(s) /\ trees[s] = "cached" /\ to_resolve # {}
  <2> DEFINE new == Task("resolve", s, to_resolve)
  <2>1. fetch = <<>> /\ resolve = <<new>>
    BY <1>3, <1>5
  <2>2. to_resolve \in SUBSET Unknown
    OBVIOUS
  <2>3. /\ new \in TaskType /\ new.what = "resolve" /\ new.source = s /\ new.at = "new"
        /\ new.worker = "none" /\ new.heard = {} /\ new.ids = to_resolve
    BY <2>2, TaskIsATask
  <2> HIDE DEF new
  <2>4. tasks' = Append(tasks, new)
    BY <1>1, <1>2, <2>1, <2>3
  <2>5. fetching' = fetching
    BY <1>2, <2>1
  <2>6. resolved_ids' = [resolved_ids EXCEPT ![s] = @ \cup to_resolve]
    <3>1. resolve # <<>> /\ resolve[1] = new
      BY <2>1
    <3> QED BY <1>2, <2>3, <3>1
  <2>7. /\ resolved_ids' \in [Sources -> SUBSET Unknown]
        /\ \A q \in Sources : resolved_ids[q] \subseteq resolved_ids'[q]
        /\ to_resolve \subseteq resolved_ids'[s]
    BY <1>1, <2>2, <2>6
  <2>8. new.ids \cap resolved_ids[s] = {}
    BY <2>3
  <2> QED BY <1>1, <1>2, <2>3, <2>4, <2>5, <2>7, <2>8, SpawnPreserves
<1>6. CASE has_entry(s) /\ (trees[s] # "cached" \/ to_resolve = {})
  <2>1. fetch = <<>> /\ resolve = <<>>
    BY <1>3, <1>6
  <2>2. tasks' = tasks /\ fetching' = fetching /\ resolved_ids' = resolved_ids
    BY <1>1, <1>2, <2>1
  <2> QED BY <1>2, <2>2, StutterPreserves DEF vars, cache
<1> QED BY <1>4, <1>5, <1>6

\* After close() every task has ended, and a worker thread may go on.
LEMMA ClosePreserves ==
    ASSUME IInv, Close
    PROVE  IInv'
<1>1. /\ tasks \in Seq(TaskType) /\ lock' = <<>> /\ sniffer' = "closed" /\ client' = FALSE
      /\ UNCHANGED <<variant, trees, origin, resolved_ids, isotp, overtaken>>
      /\ Simple /\ variant \in {"can", "udp"}
  BY SchemaCacheAssumption DEF IInv, Simple, Close
<1>2. tasks' = [t \in DOMAIN tasks |-> Cancelled(tasks[t])]
  BY DEF Close
<1>3. ASSUME NEW x \in TaskType
      PROVE  /\ Cancelled(x) \in TaskType /\ Cancelled(x).at = "ended"
             /\ Cancelled(x).what = x.what /\ Cancelled(x).source = x.source
             /\ Cancelled(x).ids = x.ids /\ Cancelled(x).heard = x.heard
             /\ Cancelled(x).left = x.left /\ Cancelled(x).worker \in {x.worker, "none"}
  BY DEF Cancelled, TaskType
<1>4. /\ tasks' \in Seq(TaskType) /\ DOMAIN tasks' = DOMAIN tasks
      /\ \A t \in DOMAIN tasks : tasks'[t] = Cancelled(tasks[t]) /\ tasks[t] \in TaskType
  BY <1>1, <1>2, <1>3
<1>5. \A t \in DOMAIN tasks :
         /\ tasks'[t].at = "ended" /\ tasks'[t].what = tasks[t].what
         /\ tasks'[t].source = tasks[t].source /\ tasks'[t].ids = tasks[t].ids
         /\ tasks'[t].heard = tasks[t].heard /\ tasks'[t].left = tasks[t].left
         /\ tasks'[t].worker \in {tasks[t].worker, "none"}
         /\ tasks[t].source \in Sources
  BY <1>3, <1>4 DEF TaskType
<1>6. \A t \in DOMAIN tasks : (Works(t)' => Works(t)) /\ ~(Inside(t)')
  BY <1>5 DEF Works, Inside
<1>7. Simple'
  <2>1. fetching' \subseteq Sources
    BY <1>5 DEF Close
  <2>2. lock' \in Seq(DOMAIN tasks')
    BY <1>1
  <2> QED BY <1>1, <1>4, <2>1, <2>2 DEF Simple
<1>8. WorkOK'
  BY <1>1, <1>4, <1>5, <1>6 DEF IInv, WorkOK
<1>9. LockOK'
  <2>1. ToSet(lock') = {} /\ IsInjective(lock')
    BY <1>1 DEF ToSet, IsInjective
  <2> QED BY <1>1, <1>4, <1>5, <1>6, <2>1 DEF LockOK
<1>10. JobOK'
  BY <1>1, <1>4, <1>5 DEF IInv, JobOK
<1>11. ClosedOK'
  BY <1>1, <1>4, <1>5 DEF ClosedOK
<1>12. OwnOK'
  <2> SUFFICES ASSUME ~overtaken PROVE OwnOK'
    BY <1>1 DEF OwnOK
  <2>1. \A t \in DOMAIN tasks : tasks'[t].heard \subseteq {tasks'[t].source}
    BY <1>5 DEF IInv, OwnOK
  <2>2. \A s \in Sources : origin'[s] \subseteq {s}
    BY <1>1 DEF IInv, OwnOK
  <2>3. CASE variant = "can"
    <3>1. \A t, u \in DOMAIN tasks : Works(t)' /\ Works(u)' => t = u
      BY <1>6, <2>3 DEF IInv, OwnOK
    <3>2. \A t \in DOMAIN tasks :
             tasks'[t].worker \in {"send", "recv"} => isotp'.device = tasks'[t].source
      BY <1>1, <1>5, <2>3 DEF IInv, OwnOK
    <3> QED BY <1>1, <1>4, <2>1, <2>2, <3>1, <3>2 DEF OwnOK
  <2>4. CASE variant # "can"
    BY <1>1, <1>4, <2>1, <2>2, <2>4 DEF OwnOK
  <2> QED BY <2>3, <2>4
<1> QED BY <1>7, <1>8, <1>9, <1>10, <1>11, <1>12 DEF IInv

(***************************************************************************)
(* The theorems                                                            *)
(***************************************************************************)
LEMMA InitEstablishes == Init => IInv
<1> SUFFICES ASSUME Init PROVE IInv
  OBVIOUS
<1>1. tasks \in Seq(TaskType) /\ DOMAIN tasks = {}
  BY DEF Init
<1>2. Simple
  <2>1. lock \in Seq(DOMAIN tasks)
    BY DEF Init
  <2>2. resolved_ids \in [Sources -> SUBSET Unknown] /\ origin \in [Sources -> SUBSET Sources]
    BY DEF Init
  <2>3. trees \in [Sources -> {"absent", "failed", "cached"}] /\ fetching \subseteq Sources
    BY DEF Init
  <2> QED BY <1>1, <2>1, <2>2, <2>3 DEF Init, Simple
<1>3. LockOK
  <2>1. ToSet(lock) = {} /\ IsInjective(lock)
    BY DEF Init, ToSet, IsInjective
  <2> QED BY <1>1, <2>1 DEF Init, LockOK
<1> QED BY <1>1, <1>2, <1>3 DEF Init, IInv, WorkOK, JobOK, ClosedOK, OwnOK

LEMMA NextPreserves == IInv /\ [Next]_vars => IInv'
<1> SUFFICES ASSUME IInv, [Next]_vars PROVE IInv'
  OBVIOUS
<1>1. CASE \E s \in Sources : \E ids \in SUBSET Unknown : Report(s, ids)
  BY <1>1, ReportPreserves
<1>2. CASE \E t \in DOMAIN tasks : TaskStep(t) \/ WorkerStep(t)
  BY <1>2, TaskStepPreserves, WorkerStepPreserves
<1>3. CASE Close
  BY <1>3, ClosePreserves
<1>4. CASE UNCHANGED vars
  BY <1>4, StutterPreserves
<1> QED BY <1>1, <1>2, <1>3, <1>4 DEF Next

THEOREM CacheInvariant == Spec => []IInv
BY InitEstablishes, NextPreserves, PTL DEF Spec

\* Every variable has its type; the lock is held by the task that connects or
\* uses the client; no source is fetched twice and no id resolved twice, whatever
\* reports, failures, timeouts and close() cross; and after close() there is no
\* client and no task.
THEOREM CacheTypeCorrect == Spec => []TypeOK
<1>1. IInv => TypeOK
  <2> SUFFICES ASSUME IInv PROVE TypeOK
    OBVIOUS
  <2>1. \A t \in DOMAIN tasks :
           variant = "can" /\ tasks[t].at \in {"connecting", "requesting"}
               => lock # <<>> /\ Head(lock) = t
    BY DEF IInv, LockOK, Inside
  <2> QED BY <2>1 DEF IInv, Simple, JobOK, ClosedOK, TypeOK, TaskType, Link
<1> QED BY <1>1, CacheInvariant, PTL

\* The tree of a source holds what that source answered and nothing else, for any
\* number of sources, requests and failures, as long as no request on the shared
\* client was given up while its worker ran.
THEOREM CacheTreesAreTheirOwn == Spec => []TreeIsItsOwn
<1>1. IInv => TreeIsItsOwn
  BY DEF IInv, OwnOK, TreeIsItsOwn
<1> QED BY <1>1, CacheInvariant, PTL

\* FetchesAreSerialised, which run cache_overlap refutes, does hold until
\* wait_for() gives up on a worker that still runs: the lock admits one task to
\* the shared client at a time, close() included.
THEOREM CacheOneWorker ==
    Spec => [](variant = "can" /\ ~overtaken
                   => \A t, u \in DOMAIN tasks : Works(t) /\ Works(u) => t = u)
<1>1. IInv => (variant = "can" /\ ~overtaken
                   => \A t, u \in DOMAIN tasks : Works(t) /\ Works(u) => t = u)
  BY DEF IInv, OwnOK
<1> QED BY <1>1, CacheInvariant, PTL

=============================================================================
