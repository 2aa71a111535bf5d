----------------------------- MODULE RpcService -----------------------------
(***************************************************************************)
(* What AsyncThingSetTCP promises to the coroutines that call _rpc, with   *)
(* no lock, no queue and no reader task: calls are served one at a time,   *)
(* every call ends once, and a reply is given to at most one call.  The    *)
(* wire has no correlation ID, so a served call may be given the reply     *)
(* that the device still owes to an earlier call.                          *)
(***************************************************************************)
CONSTANT Calls          \* the calls of _rpc made during the client's life

VARIABLES
    stage,              \* stage[c]: how far call c has come
    answer,             \* answer[c]: how c ended
    owed                \* calls whose reply may still reach the client

svars == <<stage, answer, owed>>

Open      == [kind |-> "open"]
Nothing   == [kind |-> "None"]
Error     == [kind |-> "error"]
ReplyTo(r) == [kind |-> "reply", to |-> r]

Answers == {Open, Nothing, Error} \cup {ReplyTo(r) : r \in Calls}

ServiceInit ==
    /\ stage = [c \in Calls |-> "new"]
    /\ answer = [c \in Calls |-> Open]
    /\ owed = {}

Serving(c) == stage[c] = "serving"

End(c, a) ==
    /\ stage' = [stage EXCEPT ![c] = "ended"]
    /\ answer' = [answer EXCEPT ![c] = a]

\* A call takes its turn; replies that came too early for it are thrown away.
StartServing(c) ==
    /\ \A d \in Calls : ~Serving(d)
    /\ stage' = [stage EXCEPT ![c] = "serving"]
    /\ owed' \in SUBSET (owed \cup {c})
    /\ UNCHANGED answer

Ask(c) ==
    /\ stage[c] = "new"
    /\ stage' = [stage EXCEPT ![c] = "waiting"]
    /\ UNCHANGED <<answer, owed>>

Serve(c) == stage[c] \in {"new", "waiting"} /\ StartServing(c)

Give(c, r) ==
    /\ Serving(c)
    /\ r \in owed
    /\ owed' = owed \ {r}
    /\ End(c, ReplyTo(r))

GiveUp(c) == Serving(c) /\ End(c, Nothing) /\ UNCHANGED owed

\* A call may fail at any time; one that never got its turn throws away what
\* came for others.
Fail(c) ==
    /\ stage[c] # "ended"
    /\ End(c, Error)
    /\ owed' \in SUBSET owed

\* The device leaves a request unanswered, or the connection goes.
Lose == owed' \in SUBSET owed /\ UNCHANGED <<stage, answer>>

ServiceNext ==
    \/ \E c \in Calls : Ask(c) \/ Serve(c) \/ GiveUp(c) \/ Fail(c)
    \/ \E c, r \in Calls : Give(c, r)
    \/ Lose

Service == ServiceInit /\ [][ServiceNext]_svars
=============================================================================
