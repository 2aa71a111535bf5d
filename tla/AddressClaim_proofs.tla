------------------------ MODULE AddressClaim_proofs ------------------------
(***************************************************************************)
(* Proofs about AddressClaim, for any nodes, desired addresses, number of  *)
(* addresses and held addresses: its types, who may own an address, and    *)
(* why a constructor times out.                                            *)
(***************************************************************************)
EXTENDS AddressClaim, SequencesExt, SequenceTheorems, WellFoundedInduction, TLAPS

(***************************************************************************)
(* The inductive invariant                                                 *)
(***************************************************************************)
\* Every frame is about an address.
ValidFrames == {Discovery(a) : a \in Addresses} \cup {Claim(a) : a \in Addresses}

Places == {"new", "create", "start", "poll", "ready", "raised", "timed out", "closed"}

TimerType == [addr : Addresses, state : TimerStates]

FilterType == [frame : Frames, fields : SUBSET {"target", "source"}]

Simple ==
    /\ main \in [Nodes -> Places]
    /\ recv \in [Nodes -> [at : {"idle", "taken", "send", "create", "start"},
                           frame : ValidFrames]]
    /\ timers \in [Nodes -> Seq(TimerType)]
    /\ current \in [Nodes -> Nat]
    /\ is_connected \in [Nodes -> BOOLEAN]
    /\ node_addr \in [Nodes -> Addresses \cup {None}]
    /\ taken \in [Nodes -> SUBSET (Addresses \cup {Anonymous})]
    /\ filters \in [Nodes -> SUBSET FilterType]
    /\ rx \in [Nodes -> Seq(ValidFrames)] /\ asked \subseteq Held
    /\ refused \subseteq Refusing
    /\ early \subseteq Nodes /\ tardy \subseteq Nodes /\ together \subseteq SUBSET Nodes

Full(n) == Addresses \subseteq taken[n]

\* _addr_claim_timer is the newest timer; who made it and who uses it.
PlaceOK(n) ==
    /\ current[n] = Len(timers[n])
    /\ main[n] \in {"new", "create"} => current[n] = 0
    /\ current[n] = 0 => main[n] \in {"new", "create", "raised"}
    /\ main[n] = "new" => filters[n] = {}
    /\ current[n] = 0 => recv[n].at \in {"idle", "taken"}
    /\ recv[n].at = "send" => ~Full(n)
    /\ recv[n].at = "create" => recv[n].frame.target \in Addresses
    /\ \A i \in DOMAIN timers[n] :
          timers[n][i].state \in {"named", "done"} => node_addr[n] # None

Newest(n) == timers[n][current[n]]

Is(n, states) == current[n] > 0 /\ Newest(n).state \in states

\* The states of a timer that will not call back.
Dead == {"cancelled", "stopped"}

\* A node that never gave up too late has one timer that counts, and its state
\* is the state of the claim.
TimerOK(n) ==
    /\ \A i \in DOMAIN timers[n] : i # current[n] => timers[n][i].state \in Dead
    /\ Is(n, {"made"}) => main[n] = "start" \/ recv[n].at = "start"
    /\ Is(n, Dead) => \/ recv[n].at \in {"send", "create"}
                      \/ Full(n) \/ main[n] = "closed" \/ n \in refused
    /\ recv[n].at \in {"send", "create"} => Is(n, Dead)
    /\ is_connected[n] <=> Is(n, {"connected", "named", "done"})
    /\ node_addr[n] # None <=> Is(n, {"named", "done"})
    /\ node_addr[n] # None => node_addr[n] = Newest(n).addr
    /\ main[n] = "timed out" /\ n \notin refused =>
          Full(n) /\ Is(n, Dead) /\ recv[n].at \in {"idle", "taken"}

\* The filters that go with it, while the node is on the bus.
FilterOK(n) ==
    /\ Is(n, {"made", "waiting", "fired", "connected", "named"})
          => ClaimFilter(Newest(n).addr) \in filters[n]
    /\ main[n] = "create" => ClaimFilter(Desired[n]) \in filters[n]
    /\ recv[n].at = "create" => ClaimFilter(recv[n].frame.target) \in filters[n]
    /\ Is(n, {"done"}) => DiscoveryFilter(Newest(n).addr) \in filters[n]

\* An answer is on its way to n, or in its handler.
Told(n, a) ==
    \/ Claim(a) \in ToSet(rx[n])
    \/ recv[n].at = "taken" /\ recv[n].frame = Claim(a)

\* n asked for a, and has or will have a timer for it.
Pursues(n, a) ==
    \/ main[n] = "create" /\ Desired[n] = a
    \/ recv[n].at = "create" /\ recv[n].frame.target = a
    \/ Is(n, {"made", "waiting"}) /\ Newest(n).addr = a

\* It listens for claims of a, and its timer has not run out.
Seeks(n, a) ==
    OnBus(n) /\ ClaimFilter(a) \in filters[n] /\ ~Is(n, TooLate) /\ Pursues(n, a)

\* The timer of n's claim for a has run out.
Has(n, a) == OnBus(n) /\ Is(n, TooLate) /\ Newest(n).addr = a

\* Who seeks the address of a device is told: the device has its question, or it
\* has the answer.
HeldOK(n) == \A a \in Held : Seeks(n, a) => a \in asked \/ Told(n, a)

\* So is who seeks the address of another node, which has announced itself, if
\* the bus took whatever that one sent.
RivalOK(n, m) ==
    \A a \in Addresses :
        Has(m, a) /\ Is(m, {"done"}) /\ Seeks(n, a)
            => Told(n, a) \/ Discovery(a) \in ToSet(rx[m])

PlacesOK == \A n \in Nodes : PlaceOK(n)
TimersOK == \A n \in Nodes \ tardy : TimerOK(n) /\ (OnBus(n) => FilterOK(n))

\* Nodes whose address another one may take as well.
Unsure == Crossed \cup refused

AnswersOK ==
    /\ \A n \in Nodes \ Crossed : HeldOK(n)
    /\ \A n \in Nodes \ Crossed, m \in Nodes \ Unsure : n # m => RivalOK(n, m)

\* Whose timer ran out has an address that no device holds, nor another node, but
\* one whose timer ran out at the same time.
ClaimsOK ==
    /\ \A n \in Nodes \ Crossed : \A a \in Held : ~Has(n, a)
    /\ \A n, m \in Nodes \ Unsure : \A a \in Addresses :
          n # m /\ Has(n, a) /\ Has(m, a) => {n, m} \in together

IInv == Simple /\ PlacesOK /\ TimersOK /\ AnswersOK /\ ClaimsOK

(***************************************************************************)
(* Addresses, frames and filters                                           *)
(***************************************************************************)
LEMMA AddressFacts ==
    /\ MaxAddr \in Nat /\ 0 \in Addresses /\ Addresses \subseteq Nat
    /\ None \notin Addresses /\ Anonymous \notin Addresses
    /\ Held \subseteq Addresses
    /\ \A n \in Nodes : Desired[n] \in Addresses
BY AddressClaimAssumption DEF Addresses, Anonymous

LEMMA FrameFacts ==
    /\ \A a, b : Claim(a) = Claim(b) => a = b
    /\ \A a, b : Discovery(a) = Discovery(b) => a = b
    /\ \A a \in Addresses : \A b : Discovery(a) # Claim(b)
    /\ \A a : Claim(a).source = a /\ Discovery(a).target = a
    /\ \A a \in Addresses : Claim(a) \in ValidFrames /\ Discovery(a) \in ValidFrames
    /\ ValidFrames \subseteq Frames
    /\ \A f \in ValidFrames : f.source \in Addresses \cup {Anonymous}
<1>1. /\ \A a, b : Claim(a) = Claim(b) => a = b
      /\ \A a, b : Discovery(a) = Discovery(b) => a = b
      /\ \A a : Claim(a).source = a /\ Discovery(a).target = a
  BY DEF Claim, Discovery, Frame
<1>2. \A a \in Addresses : \A b : Discovery(a) # Claim(b)
  BY AddressClaimAssumption DEF Claim, Discovery, Frame, Addresses, Broadcast
<1>3. \A a \in Addresses : Claim(a) \in ValidFrames /\ Discovery(a) \in ValidFrames
  BY DEF ValidFrames
<1>4. \A a \in Addresses : Claim(a) \in Frames /\ Discovery(a) \in Frames
  BY AddressClaimAssumption DEF Claim, Discovery, Frame, Frames, Addresses, Broadcast, Anonymous
<1>5. \A f \in ValidFrames : f.source \in Addresses \cup {Anonymous}
  BY DEF ValidFrames, Claim, Discovery, Frame
<1> QED BY <1>1, <1>2, <1>3, <1>4, <1>5 DEF ValidFrames

LEMMA FilterFacts ==
    /\ \A a, b : ClaimFilter(a) = ClaimFilter(b) => a = b
    /\ \A a, b : ClaimFilter(a) # DiscoveryFilter(b)
    /\ \A a \in Addresses : ClaimFilter(a) \in FilterType /\ DiscoveryFilter(a) \in FilterType
<1>1. {"target", "source"} # {"target"}
  OBVIOUS
<1>2. \A a, b : ClaimFilter(a) # DiscoveryFilter(b)
  BY <1>1 DEF ClaimFilter, DiscoveryFilter
<1>3. \A a, b : ClaimFilter(a) = ClaimFilter(b) => a = b
  BY FrameFacts DEF ClaimFilter
<1>4. \A a \in Addresses : Claim(a) \in Frames /\ Discovery(a) \in Frames
  BY FrameFacts
<1>5. \A a \in Addresses : ClaimFilter(a) \in FilterType /\ DiscoveryFilter(a) \in FilterType
  BY <1>4 DEF ClaimFilter, DiscoveryFilter, FilterType
<1> QED BY <1>2, <1>3, <1>5

\* A frame passes the filter that was made for it.
LEMMA PassFacts ==
    ASSUME NEW n, NEW a
    PROVE  /\ ClaimFilter(a) \in filters[n] => Passes(Claim(a), n)
           /\ DiscoveryFilter(a) \in filters[n] => Passes(Discovery(a), n)
BY DEF Passes, ClaimFilter, DiscoveryFilter

\* Every set of numbers has a least one.
LEMMA LeastNatural ==
    ASSUME NEW S \in SUBSET Nat, S # {}
    PROVE  \E a \in S : \A b \in S : a <= b
<1>1. IsWellFoundedOn(OpToRel(<, Nat), Nat)
  BY NatLessThanWellFounded
<1> DEFINE R == OpToRel(<, Nat)
<1>2. \A x, y \in Nat : y < x => <<y, x>> \in R
  BY DEF OpToRel
<1> HIDE DEF R
<1>3. IsWellFoundedOn(R, Nat)
  BY <1>1 DEF R
<1>4. \E x \in S : \A y \in S : ~(<<y, x>> \in R)
  BY <1>3, WFMin
<1>5. PICK x \in S : \A y \in S : ~(<<y, x>> \in R)
  BY <1>4
<1>6. \A y \in S : x <= y
  <2> TAKE y \in S
  <2>1. x \in Nat /\ y \in Nat /\ ~(y < x)
    BY <1>2, <1>5
  <2> QED BY <2>1
<1> QED BY <1>6

\* The address that RecvSends chooses is a free one.
LEMMA NextAddress ==
    ASSUME NEW T, ~(Addresses \subseteq T)
    PROVE  (CHOOSE a \in Addresses \ T : \A b \in Addresses \ T : a <= b) \in Addresses \ T
<1>1. Addresses \ T \in SUBSET Nat /\ Addresses \ T # {}
  BY AddressFacts
<1>2. \E a \in Addresses \ T : \A b \in Addresses \ T : a <= b
  BY <1>1, LeastNatural
<1> QED BY <1>2

(***************************************************************************)
(* A step of one node, as the others see it                                *)
(***************************************************************************)
Untouched(k) ==
    /\ main'[k] = main[k] /\ recv'[k] = recv[k]
    /\ timers'[k] = timers[k] /\ current'[k] = current[k]
    /\ is_connected'[k] = is_connected[k] /\ node_addr'[k] = node_addr[k]
    /\ taken'[k] = taken[k] /\ filters'[k] = filters[k]
    /\ k \in refused' <=> k \in refused

Others(n) == \A k \in Nodes \ {n} : Untouched(k)

Remembers ==
    /\ early \subseteq early' /\ tardy \subseteq tardy' /\ together \subseteq together'
    /\ refused \subseteq refused'

LEMMA UntouchedFacts ==
    ASSUME NEW k, Untouched(k)
    PROVE  /\ PlaceOK(k) => PlaceOK(k)'
           /\ TimerOK(k) => TimerOK(k)'
           /\ FilterOK(k) => FilterOK(k)'
           /\ OnBus(k)' <=> OnBus(k)
           /\ \A S : Is(k, S)' <=> Is(k, S)
           /\ \A a : Seeks(k, a)' <=> Seeks(k, a)
           /\ \A a : Has(k, a)' <=> Has(k, a)
<1>1. /\ OnBus(k)' <=> OnBus(k)
      /\ Newest(k)' = Newest(k)
      /\ Full(k)' <=> Full(k)
  BY DEF Untouched, OnBus, Newest, Full
<1>2. \A S : Is(k, S)' <=> Is(k, S)
  BY <1>1 DEF Untouched, Is
<1>3. \A a : Seeks(k, a)' <=> Seeks(k, a)
  BY <1>1, <1>2 DEF Untouched, Seeks, Pursues
<1>4. \A a : Has(k, a)' <=> Has(k, a)
  BY <1>1, <1>2 DEF Untouched, Has
<1>5. PlaceOK(k) => PlaceOK(k)'
  BY <1>1 DEF Untouched, PlaceOK
<1>6. TimerOK(k) => TimerOK(k)'
  BY <1>1, <1>2 DEF Untouched, TimerOK
<1>7. FilterOK(k) => FilterOK(k)'
  BY <1>1, <1>2 DEF Untouched, FilterOK
<1> QED BY <1>1, <1>2, <1>3, <1>4, <1>5, <1>6, <1>7

LEMMA OneNode ==
    ASSUME NEW n \in Nodes, IInv, Others(n), Remembers, PlaceOK(n)',
           n \notin tardy' => TimerOK(n)' /\ (OnBus(n)' => FilterOK(n)')
    PROVE  PlacesOK' /\ TimersOK'
<1>1. ASSUME NEW k \in Nodes PROVE PlaceOK(k)'
  <2>1. CASE k # n
    BY <2>1, UntouchedFacts DEF IInv, PlacesOK, Others
  <2> QED BY <2>1
<1>2. ASSUME NEW k \in Nodes, k \notin tardy' PROVE TimerOK(k)' /\ (OnBus(k)' => FilterOK(k)')
  <2>1. CASE k # n
    BY <1>2, <2>1, UntouchedFacts DEF IInv, TimersOK, Others, Remembers
  <2> QED BY <1>2, <2>1
<1> QED BY <1>1, <1>2 DEF PlacesOK, TimersOK

(***************************************************************************)
(* What a step may do to questions and answers                             *)
(***************************************************************************)
Tells(n, a) == Claim(a) \in ToSet(rx'[n])

TellsAll(a) == \A n \in Nodes : OnBus(n)' => Tells(n, a)

\* Nobody stops seeking an address that he was told of but by giving it up.
Heeds ==
    \A n \in Nodes, a \in Addresses :
        n \notin Crossed' /\ Told(n, a) /\ Seeks(n, a)' => Told(n, a)'

\* Who begins to seek an address asks for it.
Asks ==
    \A n \in Nodes, a \in Addresses :
        n \notin Crossed' /\ Seeks(n, a)' /\ ~Seeks(n, a) =>
            /\ a \in Held => a \in asked'
            /\ \A m \in Nodes \ {n} : OnBus(m)' => Discovery(a) \in ToSet(rx'[m])

\* Who comes to own an address tells the others.
Announced ==
    \A m \in Nodes, a \in Addresses :
        m \notin Unsure' /\ Has(m, a)' /\ Is(m, {"done"})' =>
            \/ Has(m, a) /\ Is(m, {"done"})
            \/ \A n \in Nodes \ {m} : OnBus(n)' => Tells(n, a)

\* A question is answered, by a device or by a node.
DeviceReplies == \A a \in asked : a \in asked' \/ TellsAll(a)

NodesReply ==
    \A m \in Nodes, a \in Addresses :
        m \notin Unsure' /\ Has(m, a)' /\ Is(m, {"done"})' /\ Discovery(a) \in ToSet(rx[m]) =>
            \/ Discovery(a) \in ToSet(rx'[m])
            \/ \A n \in Nodes \ {m} : OnBus(n)' => Tells(n, a)

LEMMA AnswersPreserved ==
    ASSUME IInv, Remembers, Heeds, Asks, Announced, DeviceReplies, NodesReply
    PROVE  AnswersOK'
<1>1. /\ \A k \in Nodes \ Crossed' : k \in Nodes \ Crossed
      /\ \A k \in Nodes \ Unsure' : k \in Nodes \ Unsure
  BY DEF Remembers, Crossed, Unsure
<1>2. ASSUME NEW n \in Nodes, NEW a \in Addresses, Tells(n, a) PROVE Told(n, a)'
  BY <1>2 DEF Tells, Told
<1>3. ASSUME NEW n \in Nodes, NEW a, Seeks(n, a)' PROVE OnBus(n)'
  BY <1>3 DEF Seeks
<1>4. ASSUME NEW n \in Nodes \ Crossed', NEW a \in Held, Seeks(n, a)'
      PROVE  a \in asked' \/ Told(n, a)'
  <2>1. a \in Addresses
    BY AddressFacts
  <2>2. CASE ~Seeks(n, a)
    BY <1>4, <2>1, <2>2 DEF Asks
  <2>3. CASE Seeks(n, a) /\ a \in asked
    BY <1>2, <1>3, <1>4, <2>1, <2>3 DEF DeviceReplies, TellsAll
  <2>4. CASE Seeks(n, a) /\ a \notin asked
    <3>1. Told(n, a)
      BY <1>1, <2>4 DEF IInv, AnswersOK, HeldOK
    <3> QED BY <1>4, <2>1, <3>1 DEF Heeds
  <2> QED BY <2>2, <2>3, <2>4
<1>5. ASSUME NEW n \in Nodes \ Crossed', NEW m \in Nodes \ Unsure', n # m,
             NEW a \in Addresses, Has(m, a)', Is(m, {"done"})', Seeks(n, a)'
      PROVE  Told(n, a)' \/ Discovery(a) \in ToSet(rx'[m])
  <2>1. OnBus(m)'
    BY <1>5 DEF Has
  <2>2. CASE ~Seeks(n, a)
    BY <1>5, <2>1, <2>2 DEF Asks
  <2>3. CASE ~(Has(m, a) /\ Is(m, {"done"}))
    BY <1>2, <1>3, <1>5, <2>3 DEF Announced
  <2>4. CASE Seeks(n, a) /\ Has(m, a) /\ Is(m, {"done"})
    <3>1. Told(n, a) \/ Discovery(a) \in ToSet(rx[m])
      BY <1>1, <1>5, <2>4 DEF IInv, AnswersOK, RivalOK
    <3>2. CASE Told(n, a)
      BY <1>5, <3>2 DEF Heeds
    <3>3. CASE Discovery(a) \in ToSet(rx[m])
      BY <1>2, <1>3, <1>5, <3>3 DEF NodesReply
    <3> QED BY <3>1, <3>2, <3>3
  <2> QED BY <2>2, <2>3, <2>4
<1> QED BY <1>4, <1>5 DEF AnswersOK, HeldOK, RivalOK

\* A timer runs out in Fire and nowhere else.
LEMMA ClaimsPreserved ==
    ASSUME IInv, Remembers,
           \A n \in Nodes, a \in Addresses : n \notin Crossed' /\ Has(n, a)' => Has(n, a)
    PROVE  ClaimsOK'
<1>1. /\ \A k \in Nodes \ Crossed' : k \in Nodes \ Crossed
      /\ \A k \in Nodes \ Unsure' : k \in Nodes \ Unsure
  BY DEF Remembers, Crossed, Unsure
<1>2. \A n \in Nodes \ Crossed' : \A a \in Held : ~Has(n, a)'
  BY <1>1, AddressFacts DEF IInv, ClaimsOK
<1>3. ASSUME NEW n \in Nodes \ Unsure', NEW m \in Nodes \ Unsure', NEW a \in Addresses,
             n # m, Has(n, a)', Has(m, a)'
      PROVE  {n, m} \in together'
  BY <1>1, <1>3 DEF IInv, ClaimsOK, Remembers, Unsure
<1> QED BY <1>2, <1>3 DEF ClaimsOK

\* A step of n that leaves the bus as it is, or adds to it, and neither finishes a
\* claim nor begins one.
BusGrows ==
    /\ asked \subseteq asked'
    /\ \A k \in Nodes : OnBus(k)' => ToSet(rx[k]) \subseteq ToSet(rx'[k])

StartsNothing(n) ==
    n \notin Crossed' => \A a \in Addresses :
        /\ Seeks(n, a)' => Seeks(n, a)
        /\ Has(n, a)' => Has(n, a)
        /\ Has(n, a)' /\ Is(n, {"done"})' => Is(n, {"done"})

LEMMA GrowingBus ==
    ASSUME IInv, NEW n \in Nodes, Others(n), Remembers, BusGrows,
           recv'[n] = recv[n] \/ recv[n].at # "taken"
    PROVE  Heeds /\ DeviceReplies /\ NodesReply
<1>1. ASSUME NEW k \in Nodes, NEW a \in Addresses, Told(k, a), OnBus(k)'
      PROVE  Told(k, a)'
  <2>1. recv'[k] = recv[k] \/ recv[k].at # "taken"
    BY DEF Others, Untouched
  <2> QED BY <1>1, <2>1 DEF Told, BusGrows
<1>2. Heeds
  BY <1>1 DEF Heeds, Seeks
<1>3. DeviceReplies
  BY DEF BusGrows, DeviceReplies
<1>4. NodesReply
  BY DEF BusGrows, NodesReply, Has
<1> QED BY <1>2, <1>3, <1>4

LEMMA QuietStep ==
    ASSUME IInv, NEW n \in Nodes, Others(n), Remembers, BusGrows, StartsNothing(n),
           recv'[n] = recv[n] \/ recv[n].at # "taken"
    PROVE  AnswersOK' /\ ClaimsOK'
<1>1. Heeds /\ DeviceReplies /\ NodesReply
  BY GrowingBus
<1>2. \A k \in Nodes \ {n} : \A a \in Addresses :
         /\ Seeks(k, a)' => Seeks(k, a)
         /\ Has(k, a)' => Has(k, a)
         /\ Is(k, {"done"})' => Is(k, {"done"})
  BY UntouchedFacts DEF Others
<1>3. Asks
  BY <1>2 DEF Asks, StartsNothing
<1>4. Announced
  BY <1>2 DEF Announced, StartsNothing, Unsure
<1>5. \A k \in Nodes, a \in Addresses : k \notin Crossed' /\ Has(k, a)' => Has(k, a)
  BY <1>2 DEF StartsNothing
<1> QED BY <1>1, <1>3, <1>4, <1>5, AnswersPreserved, ClaimsPreserved

(***************************************************************************)
(* What the operators of the model do to timers and to the bus             *)
(***************************************************************************)
Sets(n, i, s) ==
    /\ timers' \in [Nodes -> Seq(TimerType)]
    /\ \A k \in Nodes \ {n} : timers'[k] = timers[k]
    /\ DOMAIN timers'[n] = DOMAIN timers[n] /\ Len(timers'[n]) = Len(timers[n])
    /\ timers'[n][i].state = s /\ timers'[n][i].addr = timers[n][i].addr
    /\ \A j \in DOMAIN timers[n] : j # i => timers'[n][j] = timers[n][j]

LEMMA SetFacts ==
    ASSUME Simple, NEW n \in Nodes, NEW i \in DOMAIN timers[n], NEW s \in TimerStates,
           SetTimer(n, i, s)
    PROVE  Sets(n, i, s)
<1> DEFINE r == [timers[n][i] EXCEPT !.state = s]
           t == [timers[n] EXCEPT ![i] = r]
<1>1. /\ timers[n] \in Seq(TimerType) /\ timers[n][i] \in TimerType
      /\ DOMAIN timers[n] = 1..Len(timers[n])
  BY DEF Simple
<1>2. r \in TimerType /\ r.state = s /\ r.addr = timers[n][i].addr
  BY <1>1 DEF TimerType
<1> HIDE DEF r
<1>3. /\ t \in Seq(TimerType) /\ Len(t) = Len(timers[n])
      /\ \A j \in DOMAIN timers[n] : t[j] = IF j = i THEN r ELSE timers[n][j]
  BY <1>1, <1>2, ExceptSeq
<1>4. DOMAIN t = DOMAIN timers[n]
  BY <1>1, <1>3
<1>5. timers' = [timers EXCEPT ![n] = t]
  BY DEF SetTimer, r
<1> HIDE DEF t
<1>6. timers' \in [Nodes -> Seq(TimerType)]
  BY <1>3, <1>5 DEF Simple
<1>7. timers'[n] = t /\ \A k \in Nodes \ {n} : timers'[k] = timers[k]
  BY <1>5 DEF Simple
<1> QED BY <1>2, <1>3, <1>4, <1>6, <1>7 DEF Sets

\* The newest timer, if there is one.
LEMMA NewestFacts ==
    ASSUME Simple, NEW n \in Nodes, PlaceOK(n)
    PROVE  /\ timers[n] \in Seq(TimerType) /\ current[n] \in Nat
           /\ current[n] = Len(timers[n]) /\ DOMAIN timers[n] = 1..current[n]
           /\ current[n] > 0 => /\ current[n] \in DOMAIN timers[n]
                                /\ Newest(n) \in TimerType
BY DEF Simple, PlaceOK, Newest

LEMMA CurrentFacts ==
    ASSUME Simple, NEW n \in Nodes, PlaceOK(n),
           main[n] \notin {"new", "create", "raised"} \/ recv[n].at \in {"send", "create", "start"}
    PROVE  current[n] > 0 /\ current[n] \in DOMAIN timers[n]
<1>1. current[n] # 0
  BY DEF PlaceOK
<1>2. current[n] \in Nat
  BY NewestFacts
<1>3. current[n] > 0
  BY <1>1, <1>2
<1> QED BY <1>3, NewestFacts

LEMMA CreateFacts ==
    ASSUME Simple, NEW n \in Nodes, PlaceOK(n), NEW a \in Addresses, CreateTimer(n, a)
    PROVE  /\ timers' \in [Nodes -> Seq(TimerType)] /\ current' \in [Nodes -> Nat]
           /\ \A k \in Nodes \ {n} : timers'[k] = timers[k] /\ current'[k] = current[k]
           /\ current'[n] = Len(timers'[n]) /\ current'[n] = current[n] + 1
           /\ DOMAIN timers'[n] = 1..current'[n]
           /\ Newest(n)'.addr = a /\ Newest(n)'.state = "made"
           /\ \A j \in DOMAIN timers[n] : timers'[n][j] = timers[n][j]
<1> DEFINE r == [addr |-> a, state |-> "made"]
<1>1. r \in TimerType /\ r.addr = a /\ r.state = "made"
  BY DEF TimerType, TimerStates
<1>2. timers' = [timers EXCEPT ![n] = Append(timers[n], r)]
  BY DEF CreateTimer, Simple
<1>3. timers[n] \in Seq(TimerType) /\ Len(timers[n]) \in Nat /\ current[n] = Len(timers[n])
  BY DEF Simple, PlaceOK
<1> HIDE DEF r
<1>4. timers'[n] = Append(timers[n], r)
  BY <1>2 DEF Simple
<1>5. /\ timers'[n] \in Seq(TimerType) /\ Len(timers'[n]) = Len(timers[n]) + 1
      /\ timers'[n][Len(timers[n]) + 1] = r
      /\ \A j \in DOMAIN timers[n] : timers'[n][j] = timers[n][j]
  BY <1>1, <1>3, <1>4
<1>6. timers' \in [Nodes -> Seq(TimerType)]
  BY <1>2, <1>4, <1>5 DEF Simple
<1>7. \A k \in Nodes \ {n} : timers'[k] = timers[k]
  BY <1>2 DEF Simple
<1>8. /\ current' \in [Nodes -> Nat] /\ current'[n] = Len(timers[n]) + 1
      /\ \A k \in Nodes \ {n} : current'[k] = current[k]
  BY <1>3 DEF CreateTimer, Simple
<1>9. Newest(n)' = r
  BY <1>5, <1>8 DEF Newest
<1>10. DOMAIN timers'[n] = 1..current'[n]
  BY <1>3, <1>5, <1>8
<1> QED BY <1>1, <1>3, <1>5, <1>6, <1>7, <1>8, <1>9, <1>10

\* start() of the newest timer.
LEMMA StartFacts ==
    ASSUME Simple, NEW n \in Nodes, PlaceOK(n), current[n] > 0, StartTimer(n)
    PROVE  \/ Is(n, {"made"}) /\ Sets(n, current[n], "waiting")
           \/ Is(n, Dead) /\ Sets(n, current[n], "stopped")
<1>1. current[n] \in DOMAIN timers[n]
  BY NewestFacts
<1>2. CASE timers[n][current[n]].state = "made"
  BY <1>1, <1>2, SetFacts DEF StartTimer, Is, Newest, TimerStates
<1>3. CASE timers[n][current[n]].state # "made"
  BY <1>1, <1>3, SetFacts DEF StartTimer, Is, Newest, TimerStates, Dead
<1> QED BY <1>2, <1>3

\* cancel() of the newest timer.
LEMMA CancelFacts ==
    ASSUME Simple, NEW n \in Nodes, PlaceOK(n), current[n] > 0, CancelTimer(n)
    PROVE  \/ /\ Newest(n).state \in {"made", "waiting"}
              /\ \E dead \in Dead : Sets(n, current[n], dead)
           \/ Newest(n).state \notin {"made", "waiting"} /\ timers' = timers
<1>1. current[n] \in DOMAIN timers[n]
  BY NewestFacts
<1>2. CASE timers[n][current[n]].state = "made"
  <2>1. SetTimer(n, current[n], "cancelled")
    BY <1>2 DEF CancelTimer, SetTimer
  <2> QED BY <1>1, <1>2, <2>1, SetFacts DEF Newest, TimerStates, Dead
<1>3. CASE timers[n][current[n]].state = "waiting"
  <2>1. SetTimer(n, current[n], "stopped")
    BY <1>3 DEF CancelTimer, SetTimer
  <2> QED BY <1>1, <1>3, <2>1, SetFacts DEF Newest, TimerStates, Dead
<1>4. CASE timers[n][current[n]].state \notin {"made", "waiting"}
  BY <1>4 DEF CancelTimer, Newest
<1> QED BY <1>2, <1>3, <1>4

\* Who may have sent what is in a queue, after an element was put in or taken out.
LEMMA AppendSet ==
    ASSUME NEW S, NEW s \in Seq(S), NEW x \in S
    PROVE  Append(s, x) \in Seq(S) /\ ToSet(Append(s, x)) = ToSet(s) \cup {x}
<1> DEFINE t == Append(s, x)
<1>1. /\ t \in Seq(S) /\ Len(t) = Len(s) + 1
      /\ \A i \in 1..Len(s) : t[i] = s[i]
      /\ t[Len(s) + 1] = x
  BY AppendProperties
<1> HIDE DEF t
<1>2. /\ DOMAIN s = 1..Len(s) /\ DOMAIN t = 1..(Len(s) + 1)
      /\ Len(s) + 1 \in 1..(Len(s) + 1)
      /\ \A i \in 1..(Len(s) + 1) : i \in 1..Len(s) \/ i = Len(s) + 1
      /\ \A i \in 1..Len(s) : i \in 1..(Len(s) + 1)
  BY <1>1
<1>3. ToSet(t) \subseteq ToSet(s) \cup {x}
  BY <1>1, <1>2 DEF ToSet
<1>4. ToSet(s) \subseteq ToSet(t) /\ x \in ToSet(t)
  BY <1>1, <1>2 DEF ToSet
<1> QED BY <1>1, <1>3, <1>4 DEF t

LEMMA TailSet ==
    ASSUME NEW S, NEW s \in Seq(S), s # <<>>
    PROVE  /\ Tail(s) \in Seq(S) /\ Head(s) \in S
           /\ ToSet(s) = {Head(s)} \cup ToSet(Tail(s))
<1> DEFINE t == Tail(s)
<1>1. /\ t \in Seq(S) /\ Len(t) = Len(s) - 1 /\ Len(s) \in Nat /\ Len(s) >= 1
      /\ \A i \in 1..Len(t) : t[i] = s[i + 1]
      /\ Head(s) = s[1] /\ Head(s) \in S
  BY HeadTailProperties
<1> HIDE DEF t
<1>2. /\ DOMAIN s = 1..Len(s) /\ DOMAIN t = 1..Len(t) /\ 1 \in 1..Len(s)
      /\ \A i \in 1..Len(s) : i = 1 \/ (i - 1 \in 1..Len(t) /\ (i - 1) + 1 = i)
      /\ \A i \in 1..Len(t) : i + 1 \in 1..Len(s)
  BY <1>1
<1>3. ASSUME NEW x \in ToSet(s), x # Head(s)
      PROVE  x \in ToSet(t)
  <2>1. PICK i \in 1..Len(s) : x = s[i]
    BY <1>2 DEF ToSet
  <2>2. i - 1 \in 1..Len(t) /\ t[i - 1] = x
    BY <1>1, <1>2, <1>3, <2>1
  <2> QED BY <1>2, <2>2 DEF ToSet
<1>4. ToSet(t) \subseteq ToSet(s) /\ Head(s) \in ToSet(s)
  BY <1>1, <1>2 DEF ToSet
<1> QED BY <1>1, <1>3, <1>4 DEF t

LEMMA SendFacts ==
    ASSUME NEW n \in Nodes, NEW f \in ValidFrames, NEW p \in [Nodes -> Seq(ValidFrames)],
           asked \subseteq Held, Send(n, f, p)
    PROVE  /\ rx' \in [Nodes -> Seq(ValidFrames)] /\ asked' \subseteq Held
           /\ asked \subseteq asked' /\ (f.target \in Held => f.target \in asked')
           /\ rx'[n] = p[n] /\ refused' = refused
           /\ \A k \in Nodes : ToSet(p[k]) \subseteq ToSet(rx'[k])
           /\ \A k \in Nodes \ {n} : OnBus(k) => f \in ToSet(rx'[k])
<1>1. \A k \in Nodes : /\ p[k] \in Seq(ValidFrames)
                       /\ Append(p[k], f) \in Seq(ValidFrames)
                       /\ ToSet(Append(p[k], f)) = ToSet(p[k]) \cup {f}
  BY AppendSet
<1>2. /\ rx' = [k \in Nodes |-> IF k # n /\ OnBus(k) THEN Append(p[k], f) ELSE p[k]]
      /\ asked' = asked \cup ({f.target} \cap Held) /\ refused' = refused
  BY DEF Send
<1>3. rx' \in [Nodes -> Seq(ValidFrames)]
  BY <1>1, <1>2
<1>4. \A k \in Nodes : ToSet(p[k]) \subseteq ToSet(rx'[k])
  BY <1>1, <1>2
<1>5. \A k \in Nodes \ {n} : OnBus(k) => f \in ToSet(rx'[k])
  BY <1>1, <1>2
<1> QED BY <1>2, <1>3, <1>4, <1>5

LEMMA AskFacts ==
    ASSUME Simple, NEW n \in Nodes, NEW a \in Addresses, Send(n, Discovery(a), rx)
    PROVE  /\ rx' \in [Nodes -> Seq(ValidFrames)] /\ asked' \subseteq Held
           /\ asked \subseteq asked' /\ (a \in Held => a \in asked')
           /\ refused' = refused
           /\ \A k \in Nodes : ToSet(rx[k]) \subseteq ToSet(rx'[k])
           /\ \A k \in Nodes \ {n} : OnBus(k) => Discovery(a) \in ToSet(rx'[k])
<1> DEFINE f == Discovery(a)
<1>1. f \in ValidFrames /\ f.target = a
  BY FrameFacts
<1>2. rx \in [Nodes -> Seq(ValidFrames)] /\ asked \subseteq Held
  BY DEF Simple
<1> HIDE DEF f
<1>3. Send(n, f, rx)
  BY DEF f
<1>4. /\ rx' \in [Nodes -> Seq(ValidFrames)] /\ asked' \subseteq Held
      /\ asked \subseteq asked' /\ (f.target \in Held => f.target \in asked')
      /\ refused' = refused
      /\ \A k \in Nodes : ToSet(rx[k]) \subseteq ToSet(rx'[k])
      /\ \A k \in Nodes \ {n} : OnBus(k) => f \in ToSet(rx'[k])
  BY <1>1, <1>2, <1>3, SendFacts
<1> QED BY <1>1, <1>4 DEF f

LEMMA TellFacts ==
    ASSUME Simple, NEW n \in Nodes, NEW a \in Addresses,
           NEW p \in [Nodes -> Seq(ValidFrames)], Send(n, Claim(a), p)
    PROVE  /\ rx' \in [Nodes -> Seq(ValidFrames)] /\ asked' \subseteq Held
           /\ asked \subseteq asked' /\ rx'[n] = p[n] /\ refused' = refused
           /\ \A k \in Nodes : ToSet(p[k]) \subseteq ToSet(rx'[k])
           /\ \A k \in Nodes \ {n} : OnBus(k) => Claim(a) \in ToSet(rx'[k])
<1> DEFINE f == Claim(a)
<1>1. f \in ValidFrames
  BY FrameFacts
<1>2. asked \subseteq Held
  BY DEF Simple
<1> HIDE DEF f
<1>3. Send(n, f, p)
  BY DEF f
<1>4. /\ rx' \in [Nodes -> Seq(ValidFrames)] /\ asked' \subseteq Held
      /\ asked \subseteq asked' /\ rx'[n] = p[n] /\ refused' = refused
      /\ \A k \in Nodes : ToSet(p[k]) \subseteq ToSet(rx'[k])
      /\ \A k \in Nodes \ {n} : OnBus(k) => f \in ToSet(rx'[k])
  BY <1>1, <1>2, <1>3, SendFacts
<1> QED BY <1>4 DEF f

LEMMA TakeFacts ==
    ASSUME Simple, NEW n \in Nodes, rx[n] # <<>>
    PROVE  /\ Taken(n) \in [Nodes -> Seq(ValidFrames)] /\ Head(rx[n]) \in ValidFrames
           /\ ToSet(rx[n]) = {Head(rx[n])} \cup ToSet(Taken(n)[n])
           /\ \A k \in Nodes \ {n} : Taken(n)[k] = rx[k]
<1>1. rx \in [Nodes -> Seq(ValidFrames)] /\ rx[n] \in Seq(ValidFrames)
  BY DEF Simple
<1>2. /\ Tail(rx[n]) \in Seq(ValidFrames) /\ Head(rx[n]) \in ValidFrames
      /\ ToSet(rx[n]) = {Head(rx[n])} \cup ToSet(Tail(rx[n]))
  BY <1>1, TailSet
<1> QED BY <1>1, <1>2 DEF Taken

(***************************************************************************)
(* The constructor                                                         *)
(***************************************************************************)
LEMMA StutterPreserves ==
    ASSUME IInv, UNCHANGED vars
    PROVE  IInv'
<1>1. \A k \in Nodes : Untouched(k) /\ rx'[k] = rx[k]
  BY DEF vars, threads, shared, bus, Untouched
<1>2. Simple'
  BY DEF IInv, Simple, vars, threads, shared, bus, history
<1>3. /\ UNCHANGED <<early, tardy, together, asked, refused>>
      /\ Crossed' = Crossed /\ Unsure' = Unsure
  BY DEF vars, history, bus, Crossed, Unsure
<1>4. PlacesOK' /\ TimersOK'
  BY <1>1, <1>3, UntouchedFacts DEF IInv, PlacesOK, TimersOK
<1>5. \A k \in Nodes, a \in Addresses : Told(k, a)' <=> Told(k, a)
  BY <1>1 DEF Told, Untouched
<1>6. AnswersOK'
  <2>1. \A n \in Nodes \ Crossed : HeldOK(n)'
    BY <1>1, <1>3, <1>5, UntouchedFacts, AddressFacts DEF IInv, AnswersOK, HeldOK
  <2>2. \A n \in Nodes \ Crossed, m \in Nodes \ Unsure : n # m => RivalOK(n, m)'
    BY <1>1, <1>3, <1>5, UntouchedFacts DEF IInv, AnswersOK, RivalOK
  <2> QED BY <1>3, <2>1, <2>2 DEF AnswersOK
<1>7. ClaimsOK'
  <2>1. Remembers
    BY <1>3 DEF Remembers
  <2> QED BY <1>1, <1>3, <2>1, UntouchedFacts, ClaimsPreserved
<1> QED BY <1>2, <1>4, <1>6, <1>7 DEF IInv

\* The main thread of n moves on, and nothing else of n but what is said.
LEMMA MainFacts ==
    ASSUME Simple, NEW n \in Nodes, NEW from, NEW to \in Places, MainGoes(n, from, to),
           refused \subseteq refused'
    PROVE  /\ main[n] = from /\ main'[n] = to /\ main' \in [Nodes -> Places]
           /\ recv' = recv /\ Remembers
           /\ early' = early /\ tardy' = tardy /\ together' = together
           /\ \A k \in Nodes \ {n} : main'[k] = main[k]
BY DEF MainGoes, Simple, history, Remembers

LEMMA MainSendsPreserves ==
    ASSUME IInv, NEW n \in Nodes,
           MainGoes(n, "new", "create"), SendDiscovery(n, Desired[n])
    PROVE  IInv'
<1> DEFINE a == Desired[n]
<1>1. Simple /\ PlaceOK(n) /\ a \in Addresses
  BY AddressFacts DEF IInv, PlacesOK
<1>2. /\ main[n] = "new" /\ main'[n] = "create" /\ main' \in [Nodes -> Places]
      /\ recv' = recv /\ Remembers
      /\ early' = early /\ tardy' = tardy /\ together' = together
      /\ \A k \in Nodes \ {n} : main'[k] = main[k]
  <2>1. "create" \in Places /\ refused \subseteq refused'
    BY DEF Places, SendDiscovery, Send
  <2> QED BY <1>1, <2>1, MainFacts
<1>3. /\ is_connected' = [is_connected EXCEPT ![n] = FALSE]
      /\ filters' = [filters EXCEPT ![n] = filters[n] \cup {ClaimFilter(a)}]
      /\ Send(n, Discovery(a), rx)
      /\ UNCHANGED <<node_addr, taken, timers, current>>
  BY DEF SendDiscovery, Listen
<1> HIDE DEF a
<1>4. /\ rx' \in [Nodes -> Seq(ValidFrames)] /\ asked' \subseteq Held
      /\ asked \subseteq asked' /\ (a \in Held => a \in asked')
      /\ refused' = refused
      /\ \A k \in Nodes : ToSet(rx[k]) \subseteq ToSet(rx'[k])
      /\ \A k \in Nodes \ {n} : OnBus(k) => Discovery(a) \in ToSet(rx'[k])
  BY <1>1, <1>3, AskFacts
<1>5. ClaimFilter(a) \in FilterType
  BY <1>1, FilterFacts
<1>6. filters' \in [Nodes -> SUBSET FilterType] /\ filters'[n] = {ClaimFilter(a)}
  BY <1>1, <1>2, <1>3, <1>5 DEF Simple, PlaceOK
<1>7. Simple'
  <2>1. is_connected' \in [Nodes -> BOOLEAN]
    BY <1>1, <1>3 DEF Simple
  <2> QED BY <1>1, <1>2, <1>3, <1>4, <1>6, <2>1 DEF Simple
<1>8. Others(n)
  BY <1>1, <1>2, <1>3, <1>4 DEF Others, Untouched, Simple
<1>9. current'[n] = 0 /\ recv'[n].at \in {"idle", "taken"}
  BY <1>1, <1>2, <1>3 DEF PlaceOK
<1>10. PlaceOK(n)'
  BY <1>1, <1>2, <1>3, <1>9 DEF PlaceOK, Full
<1>11. \A S : ~Is(n, S) /\ ~Is(n, S)'
  BY <1>1, <1>3, <1>9 DEF Is
<1>12. n \notin tardy' => TimerOK(n)' /\ FilterOK(n)'
  <2>1. ~is_connected'[n]
    BY <1>1, <1>3 DEF Simple
  <2>2. n \notin tardy' => TimerOK(n)
    BY <1>2 DEF IInv, TimersOK
  <2>3. n \notin tardy' => TimerOK(n)'
    BY <1>2, <1>3, <1>9, <1>11, <2>1, <2>2 DEF TimerOK
  <2>4. FilterOK(n)'
    BY <1>2, <1>6, <1>9, <1>11 DEF FilterOK, a
  <2> QED BY <2>3, <2>4
<1>13. PlacesOK' /\ TimersOK'
  BY <1>2, <1>8, <1>10, <1>12, OneNode
<1>14. Heeds /\ DeviceReplies /\ NodesReply
  <2>1. BusGrows
    BY <1>4 DEF BusGrows
  <2> QED BY <1>2, <1>8, <2>1, GrowingBus
<1>15. \A k \in Nodes \ {n} : /\ OnBus(k)' <=> OnBus(k)
                              /\ \A b : Seeks(k, b)' <=> Seeks(k, b)
                              /\ \A b : Has(k, b)' <=> Has(k, b)
                              /\ \A S : Is(k, S)' <=> Is(k, S)
  BY <1>8, UntouchedFacts DEF Others
<1>16. Asks
  <2>1. \A b : Seeks(n, b)' => b = a
    BY <1>6, FilterFacts DEF Seeks
  <2> QED BY <1>4, <1>15, <2>1 DEF Asks
<1>17. \A b : ~Has(n, b)'
  BY <1>11 DEF Has
<1>18. AnswersOK' /\ ClaimsOK'
  <2>1. Announced
    BY <1>15, <1>17 DEF Announced
  <2> QED BY <1>2, <1>14, <1>15, <1>16, <1>17, <2>1, AnswersPreserved, ClaimsPreserved
<1> QED BY <1>7, <1>13, <1>18 DEF IInv

\* The first discovery is refused: the constructor raises.
LEMMA MainRefusedPreserves ==
    ASSUME IInv, NEW n \in Nodes,
           MainGoes(n, "new", "raised"), DiscoveryRaises(n, Desired[n])
    PROVE  IInv'
<1> DEFINE a == Desired[n]
<1>1. Simple /\ PlaceOK(n) /\ a \in Addresses
  BY AddressFacts DEF IInv, PlacesOK
<1>2. /\ is_connected' = [is_connected EXCEPT ![n] = FALSE]
      /\ filters' = [filters EXCEPT ![n] = filters[n] \cup {ClaimFilter(a)}]
      /\ UNCHANGED <<node_addr, taken, timers, current, rx, asked>>
      /\ n \in Refusing /\ refused' = refused \cup {n}
  BY DEF DiscoveryRaises, Listen, SendRaises
<1> HIDE DEF a
<1>3. /\ main[n] = "new" /\ main'[n] = "raised" /\ main' \in [Nodes -> Places]
      /\ recv' = recv /\ Remembers
      /\ early' = early /\ tardy' = tardy /\ together' = together
      /\ \A k \in Nodes \ {n} : main'[k] = main[k]
  <2>1. "raised" \in Places /\ refused \subseteq refused'
    BY <1>2 DEF Places
  <2> QED BY <1>1, <2>1, MainFacts
<1>4. /\ filters' \in [Nodes -> SUBSET FilterType]
      /\ is_connected' \in [Nodes -> BOOLEAN] /\ ~is_connected'[n]
      /\ refused' \subseteq Refusing
  <2>1. ClaimFilter(a) \in FilterType
    BY <1>1, FilterFacts
  <2> QED BY <1>1, <1>2, <2>1 DEF Simple
<1>5. Simple'
  BY <1>1, <1>2, <1>3, <1>4 DEF Simple
<1>6. Others(n)
  BY <1>1, <1>2, <1>3 DEF Others, Untouched, Simple
<1>7. current'[n] = 0 /\ recv'[n].at \in {"idle", "taken"}
  BY <1>1, <1>2, <1>3 DEF PlaceOK
<1>8. PlaceOK(n)'
  BY <1>1, <1>2, <1>3, <1>7 DEF PlaceOK, Full
<1>9. \A S : ~Is(n, S) /\ ~Is(n, S)'
  BY <1>1, <1>2, <1>7 DEF Is
<1>10. n \notin tardy' => TimerOK(n)' /\ FilterOK(n)'
  <2>1. n \notin tardy' => TimerOK(n)
    BY <1>3 DEF IInv, TimersOK
  <2>2. n \notin tardy' => TimerOK(n)'
    BY <1>2, <1>3, <1>4, <1>7, <1>9, <2>1 DEF TimerOK
  <2>3. FilterOK(n)'
    BY <1>3, <1>7, <1>9 DEF FilterOK
  <2> QED BY <2>2, <2>3
<1>11. PlacesOK' /\ TimersOK'
  BY <1>3, <1>6, <1>8, <1>10, OneNode
<1>12. AnswersOK' /\ ClaimsOK'
  <2>1. BusGrows
    BY <1>2 DEF BusGrows
  <2>2. StartsNothing(n)
    BY <1>3, <1>7, <1>9 DEF StartsNothing, Seeks, Pursues, Has
  <2> QED BY <1>3, <1>6, <2>1, <2>2, QuietStep
<1> QED BY <1>5, <1>11, <1>12 DEF IInv

LEMMA MainCreatesPreserves ==
    ASSUME IInv, NEW n \in Nodes, MainCreates(n)
    PROVE  IInv'
<1>1. Simple /\ PlaceOK(n) /\ Desired[n] \in Addresses
  BY AddressFacts DEF IInv, PlacesOK
<1>2. /\ main[n] = "create" /\ main'[n] = "start" /\ main' \in [Nodes -> Places]
      /\ recv' = recv /\ Remembers
      /\ early' = early /\ tardy' = tardy /\ together' = together
      /\ \A k \in Nodes \ {n} : main'[k] = main[k]
  <2>1. /\ MainGoes(n, "create", "start") /\ "start" \in Places
        /\ refused \subseteq refused'
    BY DEF MainCreates, Places, CreateTimer, bus
  <2> QED BY <1>1, <2>1, MainFacts
<1>3. CreateTimer(n, Desired[n]) /\ UNCHANGED <<shared, bus>>
  BY DEF MainCreates, CreateTimer
<1>4. /\ timers' \in [Nodes -> Seq(TimerType)] /\ current' \in [Nodes -> Nat]
      /\ \A k \in Nodes \ {n} : timers'[k] = timers[k] /\ current'[k] = current[k]
      /\ current'[n] = Len(timers'[n]) /\ current'[n] = current[n] + 1
      /\ DOMAIN timers'[n] = 1..current'[n]
      /\ Newest(n)'.addr = Desired[n] /\ Newest(n)'.state = "made"
  BY <1>1, <1>3, CreateFacts
<1>5. current[n] = 0 /\ current'[n] = 1 /\ DOMAIN timers'[n] = {1}
      /\ recv[n].at \in {"idle", "taken"}
  BY <1>1, <1>2, <1>4 DEF PlaceOK
<1>6. Simple'
  BY <1>1, <1>2, <1>3, <1>4 DEF Simple, shared, bus
<1>7. Others(n)
  BY <1>1, <1>2, <1>3, <1>4 DEF Others, Untouched, shared, bus
<1>8. PlaceOK(n)'
  BY <1>1, <1>2, <1>3, <1>4, <1>5 DEF PlaceOK, Newest, shared
<1>9. \A S : ~Is(n, S) /\ (Is(n, S)' <=> "made" \in S)
  BY <1>4, <1>5 DEF Is
<1>10. n \notin tardy' => TimerOK(n)'
  <2>1. n \notin tardy' => TimerOK(n)
    BY <1>2 DEF IInv, TimersOK
  <2> QED BY <1>2, <1>3, <1>5, <1>9, <2>1 DEF TimerOK, Dead, shared
<1>11. n \notin tardy' => (OnBus(n)' => FilterOK(n)')
  <2>1. n \notin tardy' => FilterOK(n)
    BY <1>2 DEF IInv, TimersOK, OnBus
  <2> QED BY <1>2, <1>3, <1>4, <1>5, <1>9, <2>1 DEF FilterOK, shared
<1>12. PlacesOK' /\ TimersOK'
  BY <1>2, <1>7, <1>8, <1>10, <1>11, OneNode
<1>13. AnswersOK' /\ ClaimsOK'
  <2>1. BusGrows
    BY <1>3 DEF BusGrows, bus
  <2>2. StartsNothing(n)
    BY <1>2, <1>3, <1>4, <1>5, <1>9 DEF StartsNothing, Seeks, Pursues, Has, OnBus, TooLate, shared
  <2> QED BY <1>2, <1>7, <2>1, <2>2, QuietStep
<1> QED BY <1>6, <1>12, <1>13 DEF IInv

LEMMA MainStartsPreserves ==
    ASSUME IInv, NEW n \in Nodes, MainStarts(n)
    PROVE  IInv'
<1>1. Simple /\ PlaceOK(n)
  BY DEF IInv, PlacesOK
<1>2. PICK to \in {"poll", "raised"} : /\ MainGoes(n, "start", to)
                                       /\ to = "poll" => StartTimer(n)
                                       /\ to = "raised" => StartRaises(n)
  BY DEF MainStarts
<1>3. /\ main[n] = "start" /\ main'[n] = to /\ main' \in [Nodes -> Places]
      /\ recv' = recv /\ Remembers
      /\ early' = early /\ tardy' = tardy /\ together' = together
      /\ \A k \in Nodes \ {n} : main'[k] = main[k]
  <2>1. to \in Places /\ refused \subseteq refused'
    BY <1>2 DEF Places, StartTimer, StartRaises, bus
  <2> QED BY <1>1, <1>2, <2>1, MainFacts
<1>4. current[n] > 0 /\ current[n] \in DOMAIN timers[n]
  BY <1>1, <1>3, CurrentFacts
<1>5. UNCHANGED <<current, shared, bus>>
  BY <1>2 DEF StartTimer, StartRaises
<1>6. \/ Is(n, {"made"}) /\ Sets(n, current[n], "waiting")
      \/ Is(n, Dead) /\ Sets(n, current[n], "stopped")
      \/ ~Is(n, {"made"}) /\ timers' = timers
  <2>1. CASE to = "poll"
    BY <1>1, <1>2, <1>4, <2>1, StartFacts
  <2>2. CASE to = "raised"
    BY <1>2, <2>2 DEF StartRaises, Is, Newest
  <2> QED BY <2>1, <2>2
<1>7. timers' \in [Nodes -> Seq(TimerType)] /\ \A k \in Nodes \ {n} : timers'[k] = timers[k]
  BY <1>1, <1>6 DEF Sets, Simple
<1>8. Simple'
  BY <1>1, <1>3, <1>5, <1>7 DEF Simple, shared, bus
<1>9. Others(n)
  BY <1>3, <1>5, <1>7 DEF Others, Untouched, shared, bus
<1>10. /\ DOMAIN timers'[n] = DOMAIN timers[n] /\ Len(timers'[n]) = Len(timers[n])
       /\ Newest(n)'.addr = Newest(n).addr
       /\ \A j \in DOMAIN timers[n] : j # current[n] => timers'[n][j] = timers[n][j]
  BY <1>5, <1>6 DEF Sets, Newest
<1>11. \/ Newest(n).state = "made" /\ Newest(n)'.state = "waiting"
       \/ Newest(n).state \in Dead /\ Newest(n)'.state \in Dead
       \/ Newest(n).state # "made" /\ Newest(n)'.state = Newest(n).state
  BY <1>4, <1>5, <1>6 DEF Sets, Newest, Is, Dead
<1>12. PlaceOK(n)'
  <2>1. \A i \in DOMAIN timers'[n] :
           timers'[n][i].state \in {"named", "done"} => timers[n][i].state \in {"named", "done"}
    BY <1>5, <1>10, <1>11 DEF Newest, Dead
  <2> QED BY <1>1, <1>3, <1>4, <1>5, <1>10, <2>1 DEF PlaceOK, Full, shared
<1>13. \A S : /\ Is(n, S) <=> Newest(n).state \in S
              /\ Is(n, S)' <=> Newest(n)'.state \in S
  BY <1>4, <1>5 DEF Is
<1>14. n \notin tardy' => TimerOK(n)'
  <2>1. n \notin tardy' => TimerOK(n)
    BY <1>3 DEF IInv, TimersOK
  <2> QED BY <1>3, <1>5, <1>10, <1>11, <1>13, <2>1 DEF TimerOK, Full, Dead, shared, bus
<1>15. n \notin tardy' => (OnBus(n)' => FilterOK(n)')
  <2>1. n \notin tardy' => FilterOK(n)
    BY <1>3 DEF IInv, TimersOK, OnBus
  <2> QED BY <1>3, <1>5, <1>10, <1>11, <1>13, <2>1 DEF FilterOK, Dead, shared
<1>16. PlacesOK' /\ TimersOK'
  BY <1>3, <1>9, <1>12, <1>14, <1>15, OneNode
<1>17. AnswersOK' /\ ClaimsOK'
  <2>1. BusGrows
    BY <1>5 DEF BusGrows, bus
  <2>2. OnBus(n) /\ OnBus(n)'
    BY <1>3 DEF OnBus
  <2>3. StartsNothing(n)
    BY <1>3, <1>5, <1>10, <1>11, <1>13, <2>2
       DEF StartsNothing, Seeks, Pursues, Has, TooLate, Dead, shared
  <2> QED BY <1>3, <1>9, <2>1, <2>3, QuietStep
<1> QED BY <1>8, <1>16, <1>17 DEF IInv

\* The constructor returns or gives up: only main changes.
LEMMA MainEndsPreserves ==
    ASSUME IInv, NEW n \in Nodes, MainReturns(n) \/ MainTimesOut(n)
    PROVE  IInv'
<1>1. Simple /\ PlaceOK(n)
  BY DEF IInv, PlacesOK
<1>2. PICK to \in {"ready", "timed out"} : /\ MainGoes(n, "poll", to)
                                           /\ to = "timed out" => ~is_connected[n] /\ Settled(n)
  BY DEF MainReturns, MainTimesOut
<1>3. /\ main[n] = "poll" /\ main'[n] = to /\ main' \in [Nodes -> Places]
      /\ recv' = recv /\ Remembers
      /\ early' = early /\ tardy' = tardy /\ together' = together
      /\ \A k \in Nodes \ {n} : main'[k] = main[k]
  <2>1. to \in Places /\ refused \subseteq refused'
    BY DEF Places, MainReturns, MainTimesOut, bus
  <2> QED BY <1>1, <1>2, <2>1, MainFacts
<1>4. UNCHANGED <<timers, current, shared, bus>>
  BY DEF MainReturns, MainTimesOut
<1>5. Simple'
  BY <1>1, <1>3, <1>4 DEF Simple, shared, bus
<1>6. Others(n)
  BY <1>3, <1>4 DEF Others, Untouched, shared, bus
<1>7. current[n] > 0 /\ current[n] \in DOMAIN timers[n]
  BY <1>1, <1>3, CurrentFacts
<1>8. PlaceOK(n)'
  BY <1>1, <1>3, <1>4 DEF PlaceOK, Full, shared
<1>9. \A S : Is(n, S)' <=> Is(n, S)
  BY <1>4 DEF Is, Newest
<1>10. n \notin tardy' => TimerOK(n)'
  <2>1. n \notin tardy' => TimerOK(n)
    BY <1>3 DEF IInv, TimersOK
  <2>2. ASSUME n \notin tardy', n \notin refused, to = "timed out"
        PROVE  Full(n) /\ Is(n, Dead) /\ recv[n].at = "idle"
    <3>1. recv[n].at = "idle" /\ ~is_connected[n]
      BY <1>2, <2>2 DEF Settled
    <3>2. Is(n, Dead \cup {"made", "done"})
      BY <1>2, <1>7, <2>2 DEF Settled, Is, Newest, Dead
    <3>3. ~Is(n, {"made"})
      BY <1>3, <2>1, <2>2, <3>1 DEF TimerOK
    <3>4. ~Is(n, {"done"})
      BY <2>1, <2>2, <3>1 DEF TimerOK, Is
    <3>5. Is(n, Dead)
      BY <3>2, <3>3, <3>4 DEF Is
    <3> QED BY <1>3, <2>1, <2>2, <3>1, <3>5 DEF TimerOK
  <2> QED BY <1>3, <1>4, <1>9, <2>1, <2>2 DEF TimerOK, Full, Newest, shared, bus
<1>11. n \notin tardy' => (OnBus(n)' => FilterOK(n)')
  <2>1. n \notin tardy' => FilterOK(n)
    BY <1>3 DEF IInv, TimersOK, OnBus
  <2> QED BY <1>3, <1>4, <1>9, <2>1 DEF FilterOK, Newest, shared
<1>12. PlacesOK' /\ TimersOK'
  BY <1>3, <1>6, <1>8, <1>10, <1>11, OneNode
<1>13. AnswersOK' /\ ClaimsOK'
  <2>1. BusGrows
    BY <1>4 DEF BusGrows, bus
  <2>2. OnBus(n) /\ OnBus(n)'
    BY <1>3 DEF OnBus
  <2>3. StartsNothing(n)
    BY <1>3, <1>4, <1>9, <2>2 DEF StartsNothing, Seeks, Pursues, Has, Newest, shared
  <2> QED BY <1>3, <1>6, <2>1, <2>3, QuietStep
<1> QED BY <1>5, <1>12, <1>13 DEF IInv

LEMMA DisconnectPreserves ==
    ASSUME IInv, NEW n \in Nodes, Disconnect(n)
    PROVE  IInv'
<1>1. Simple /\ PlaceOK(n)
  BY DEF IInv, PlacesOK
<1>2. /\ main[n] = "ready" /\ main'[n] = "closed" /\ main' \in [Nodes -> Places]
      /\ recv' = recv /\ Remembers
      /\ early' = early /\ tardy' = tardy /\ together' = together
      /\ \A k \in Nodes \ {n} : main'[k] = main[k]
  <2>1. /\ MainGoes(n, "ready", "closed") /\ "closed" \in Places
        /\ refused \subseteq refused'
    BY DEF Disconnect, Places
  <2> QED BY <1>1, <2>1, MainFacts
<1>3. current[n] > 0 /\ current[n] \in DOMAIN timers[n]
  BY <1>1, <1>2, CurrentFacts
<1>4. /\ recv[n].at = "idle"
      /\ filters' = [filters EXCEPT ![n] = {}] /\ rx' = [rx EXCEPT ![n] = <<>>]
      /\ UNCHANGED <<current, is_connected, node_addr, taken, asked, refused>>
  BY DEF Disconnect
<1>5. \/ /\ Newest(n).state \in {"made", "waiting"}
         /\ \E dead \in Dead : Sets(n, current[n], dead)
      \/ timers' = timers
  BY <1>1, <1>3, CancelFacts DEF Disconnect
<1>6. timers' \in [Nodes -> Seq(TimerType)] /\ \A k \in Nodes \ {n} : timers'[k] = timers[k]
  BY <1>1, <1>5 DEF Sets, Simple
<1>7. Simple'
  <2>1. rx' \in [Nodes -> Seq(ValidFrames)]
    BY <1>1, <1>4 DEF Simple
  <2>2. filters' \in [Nodes -> SUBSET FilterType]
    BY <1>1, <1>4 DEF Simple
  <2> QED BY <1>1, <1>2, <1>4, <1>6, <2>1, <2>2 DEF Simple
<1>8. Others(n) /\ \A k \in Nodes \ {n} : rx'[k] = rx[k]
  BY <1>1, <1>2, <1>4, <1>6 DEF Others, Untouched, Simple
<1>9. /\ DOMAIN timers'[n] = DOMAIN timers[n] /\ Len(timers'[n]) = Len(timers[n])
      /\ Newest(n)'.addr = Newest(n).addr
      /\ \A j \in DOMAIN timers[n] : j # current[n] => timers'[n][j] = timers[n][j]
      /\ \/ Newest(n).state \in {"made", "waiting"} /\ Newest(n)'.state \in Dead
         \/ Newest(n)'.state = Newest(n).state
  BY <1>4, <1>5 DEF Sets, Newest
<1>10. PlaceOK(n)'
  <2>1. \A i \in DOMAIN timers'[n] :
           timers'[n][i].state \in {"named", "done"} => timers[n][i].state \in {"named", "done"}
    BY <1>4, <1>9 DEF Newest, Dead
  <2> QED BY <1>1, <1>2, <1>3, <1>4, <1>9, <2>1 DEF PlaceOK
<1>11. \A S : /\ Is(n, S) <=> Newest(n).state \in S
              /\ Is(n, S)' <=> Newest(n)'.state \in S
  BY <1>3, <1>4 DEF Is
<1>12. n \notin tardy' => TimerOK(n)'
  <2>1. n \notin tardy' => TimerOK(n)
    BY <1>2 DEF IInv, TimersOK
  <2> QED BY <1>2, <1>4, <1>9, <1>11, <2>1 DEF TimerOK, Dead
<1>13. ~OnBus(n)'
  BY <1>2 DEF OnBus
<1>14. PlacesOK' /\ TimersOK'
  BY <1>2, <1>8, <1>10, <1>12, <1>13, OneNode
<1>15. AnswersOK' /\ ClaimsOK'
  <2>1. BusGrows
    BY <1>4, <1>8, <1>13 DEF BusGrows
  <2>2. StartsNothing(n)
    BY <1>13 DEF StartsNothing, Seeks, Has
  <2> QED BY <1>2, <1>8, <2>1, <2>2, QuietStep
<1> QED BY <1>7, <1>14, <1>15 DEF IInv

(***************************************************************************)
(* The receive thread                                                      *)
(***************************************************************************)
\* A frame is dropped, answered or handed to the handler.  A claim of an address
\* that n seeks is not dropped, and a question about one that it owns is answered.
LEMMA HandleMessagePreserves ==
    ASSUME IInv, NEW n \in Nodes, HandleMessage(n)
    PROVE  IInv'
<1> DEFINE f == Head(rx[n])
<1>1. Simple /\ PlaceOK(n)
  BY DEF IInv, PlacesOK
<1>2. /\ recv[n].at = "idle" /\ rx[n] # <<>>
      /\ UNCHANGED <<main, timers, current, is_connected, node_addr, taken, filters>>
      /\ UNCHANGED <<early, tardy, together>>
  BY DEF HandleMessage, shared, history
<1>3. /\ Taken(n) \in [Nodes -> Seq(ValidFrames)] /\ f \in ValidFrames
      /\ ToSet(rx[n]) = {f} \cup ToSet(Taken(n)[n])
      /\ \A k \in Nodes \ {n} : Taken(n)[k] = rx[k]
  BY <1>1, <1>2, TakeFacts
<1>4. \/ /\ ~Passes(f, n) \/ (is_connected[n] /\ node_addr[n] = None)
         /\ rx' = Taken(n) /\ UNCHANGED <<recv, asked, refused>>
      \/ /\ Passes(f, n) /\ is_connected[n] /\ node_addr[n] # None
         /\ Send(n, Claim(node_addr[n]), Taken(n)) /\ UNCHANGED recv
      \/ /\ is_connected[n] /\ rx' = Taken(n) /\ UNCHANGED <<recv, asked>>
         /\ n \in Refusing /\ refused' = refused \cup {n}
      \/ /\ Passes(f, n) /\ ~is_connected[n]
         /\ recv' = [recv EXCEPT ![n] = [at |-> "taken", frame |-> f]]
         /\ rx' = Taken(n) /\ UNCHANGED <<asked, refused>>
  BY DEF HandleMessage, SendRaises
<1> HIDE DEF f
<1>5. node_addr[n] # None => node_addr[n] \in Addresses
  BY <1>1 DEF Simple
<1>6. /\ rx' \in [Nodes -> Seq(ValidFrames)] /\ asked' \subseteq Held
      /\ asked \subseteq asked' /\ rx'[n] = Taken(n)[n]
      /\ refused' = refused \/ (n \in Refusing /\ refused' = refused \cup {n})
      /\ \A k \in Nodes \ {n} : ToSet(rx[k]) \subseteq ToSet(rx'[k])
  <2>1. CASE /\ rx' = Taken(n) /\ UNCHANGED asked
             /\ refused' = refused \/ (n \in Refusing /\ refused' = refused \cup {n})
    BY <1>1, <1>3, <2>1 DEF Simple
  <2>2. CASE node_addr[n] # None /\ Send(n, Claim(node_addr[n]), Taken(n))
    <3>1. /\ rx' \in [Nodes -> Seq(ValidFrames)] /\ asked' \subseteq Held
          /\ asked \subseteq asked' /\ rx'[n] = Taken(n)[n] /\ refused' = refused
          /\ \A k \in Nodes : ToSet(Taken(n)[k]) \subseteq ToSet(rx'[k])
      BY <1>1, <1>3, <1>5, <2>2, TellFacts
    <3> QED BY <1>3, <3>1
  <2> QED BY <1>4, <2>1, <2>2
<1>7. /\ \/ recv' = recv
         \/ recv' = [recv EXCEPT ![n] = [at |-> "taken", frame |-> f]]
      /\ \A k \in Nodes \ {n} : recv'[k] = recv[k]
      /\ recv'[n].at \in {"idle", "taken"}
  BY <1>1, <1>2, <1>4 DEF Simple
<1>8. Simple'
  <2>1. recv' \in [Nodes -> [at : {"idle", "taken", "send", "create", "start"},
                             frame : ValidFrames]]
    <3>1. [at |-> "taken", frame |-> f] \in
             [at : {"idle", "taken", "send", "create", "start"}, frame : ValidFrames]
      BY <1>3
    <3> QED BY <1>1, <1>7, <3>1 DEF Simple
  <2>2. refused' \subseteq Refusing
    BY <1>1, <1>6 DEF Simple
  <2> QED BY <1>1, <1>2, <1>6, <2>1, <2>2 DEF Simple
<1>9. Others(n) /\ Remembers /\ Crossed' = Crossed
  BY <1>2, <1>6, <1>7 DEF Others, Untouched, Remembers, Crossed
<1>10. PlaceOK(n)'
  BY <1>1, <1>2, <1>7 DEF PlaceOK, Full
<1>11. /\ \A S : Is(n, S)' <=> Is(n, S)
       /\ OnBus(n)' <=> OnBus(n)
       /\ Newest(n)' = Newest(n)
  BY <1>2 DEF Is, Newest, OnBus
<1>12. n \notin tardy' => TimerOK(n)'
  <2>1. n \notin tardy' => TimerOK(n)
    BY <1>2 DEF IInv, TimersOK
  <2> QED BY <1>2, <1>6, <1>7, <1>11, <2>1 DEF TimerOK, Full
<1>13. n \notin tardy' => (OnBus(n)' => FilterOK(n)')
  <2>1. n \notin tardy' => (OnBus(n) => FilterOK(n))
    BY <1>2 DEF IInv, TimersOK
  <2> QED BY <1>2, <1>7, <1>11, <2>1 DEF FilterOK
<1>14. PlacesOK' /\ TimersOK'
  BY <1>9, <1>10, <1>12, <1>13, OneNode
<1>15. /\ \A k \in Nodes : /\ OnBus(k)' <=> OnBus(k)
                           /\ \A a : Seeks(k, a)' <=> Seeks(k, a)
                           /\ \A a : Has(k, a)' <=> Has(k, a)
                           /\ \A S : Is(k, S)' <=> Is(k, S)
  <2>1. /\ \A a : Seeks(n, a)' <=> Seeks(n, a)
        /\ \A a : Has(n, a)' <=> Has(n, a)
    BY <1>2, <1>7, <1>11 DEF Seeks, Pursues, Has
  <2> QED BY <1>9, <1>11, <2>1, UntouchedFacts DEF Others
<1>16. ASSUME NEW a \in Addresses, n \notin Crossed', Told(n, a), Seeks(n, a)
       PROVE  Told(n, a)'
  <2>1. Claim(a) \in ToSet(rx[n])
    BY <1>2, <1>16 DEF Told
  <2>2. CASE Claim(a) # f
    BY <1>3, <1>6, <2>1, <2>2 DEF Told
  <2>3. CASE Claim(a) = f
    <3>1. Passes(f, n)
      BY <1>16, <2>3, PassFacts DEF Seeks
    <3>2. TimerOK(n)
      BY <1>9, <1>16 DEF IInv, TimersOK, Crossed
    <3>3. ~is_connected[n]
      BY <1>16, <3>2 DEF TimerOK, Seeks, Is, TooLate
    <3>4. recv' = [recv EXCEPT ![n] = [at |-> "taken", frame |-> f]]
      BY <1>4, <3>1, <3>3
    <3>5. recv'[n].at = "taken" /\ recv'[n].frame = f
      BY <1>1, <3>4 DEF Simple
    <3> QED BY <2>3, <3>5 DEF Told
  <2> QED BY <2>2, <2>3
<1>17. ASSUME NEW a \in Addresses, n \notin Unsure', Has(n, a), Is(n, {"done"}),
              Discovery(a) \in ToSet(rx[n])
       PROVE  \/ Discovery(a) \in ToSet(rx'[n])
              \/ \A k \in Nodes \ {n} : OnBus(k)' => Tells(k, a)
  <2>1. CASE Discovery(a) # f
    BY <1>3, <1>6, <1>17, <2>1
  <2>2. CASE Discovery(a) = f
    <3>1. TimerOK(n) /\ FilterOK(n) /\ Newest(n).addr = a
      BY <1>9, <1>17 DEF IInv, TimersOK, Crossed, Unsure, Has
    <3>2. Passes(f, n)
      BY <1>17, <2>2, <3>1, PassFacts DEF FilterOK
    <3>3. is_connected[n] /\ node_addr[n] # None /\ node_addr[n] = a
      BY <1>17, <3>1 DEF TimerOK, Is
    <3>4. Send(n, Claim(a), Taken(n))
      BY <1>4, <1>17, <3>2, <3>3 DEF Unsure
    <3>5. \A k \in Nodes \ {n} : OnBus(k) => Claim(a) \in ToSet(rx'[k])
      BY <1>1, <1>3, <3>4, TellFacts
    <3> QED BY <1>15, <3>5 DEF Tells
  <2> QED BY <2>1, <2>2
<1>18. Heeds
  <2>1. \A k \in Nodes \ {n} : \A a : Told(k, a) => Told(k, a)'
    BY <1>6, <1>7 DEF Told
  <2> QED BY <1>15, <1>16, <2>1 DEF Heeds
<1>19. Asks /\ Announced
  BY <1>15 DEF Asks, Announced
<1>20. DeviceReplies
  BY <1>6 DEF DeviceReplies
<1>21. NodesReply
  BY <1>6, <1>15, <1>17 DEF NodesReply
<1>22. AnswersOK' /\ ClaimsOK'
  BY <1>9, <1>15, <1>18, <1>19, <1>20, <1>21, AnswersPreserved, ClaimsPreserved
<1> QED BY <1>8, <1>14, <1>22 DEF IInv

Stages == {"idle", "taken", "send", "create", "start"}

LEMMA RecvFacts ==
    ASSUME Simple, NEW n \in Nodes, NEW to \in Stages, RecvGoes(n, to)
    PROVE  /\ recv' \in [Nodes -> [at : Stages, frame : ValidFrames]]
           /\ recv'[n].at = to /\ recv'[n].frame = recv[n].frame
           /\ \A k \in Nodes \ {n} : recv'[k] = recv[k]
<1>1. recv \in [Nodes -> [at : Stages, frame : ValidFrames]]
  BY DEF Simple, Stages
<1>2. recv' = [recv EXCEPT ![n].at = to]
  BY DEF RecvGoes
<1>3. [recv[n] EXCEPT !.at = to] \in [at : Stages, frame : ValidFrames]
  BY <1>1
<1> QED BY <1>1, <1>2, <1>3

\* Without a timer yet the node is early, and nothing else but the end of the
\* handler happens.
LEMMA GivesUpEarlyPreserves ==
    ASSUME IInv, NEW n \in Nodes, GivesUp(n), current[n] = 0
    PROVE  IInv'
<1>1. Simple /\ PlaceOK(n)
  BY DEF IInv, PlacesOK
<1>2. /\ recv[n].at = "taken" /\ RecvGoes(n, "idle")
      /\ UNCHANGED <<main, timers, current, is_connected, node_addr, taken, filters, bus>>
      /\ early' = early \cup {n} /\ UNCHANGED <<tardy, together>>
  BY DEF GivesUp, NotesCrossing
<1>3. /\ recv' \in [Nodes -> [at : Stages, frame : ValidFrames]]
      /\ recv'[n].at = "idle"
      /\ \A k \in Nodes \ {n} : recv'[k] = recv[k]
  BY <1>1, <1>2, RecvFacts DEF Stages
<1>4. Simple'
  BY <1>1, <1>2, <1>3 DEF Simple, Stages, bus
<1>5. Others(n) /\ Remembers /\ n \in Crossed'
  BY <1>2, <1>3 DEF Others, Untouched, Remembers, Crossed, bus
<1>6. PlaceOK(n)'
  BY <1>1, <1>2, <1>3 DEF PlaceOK
<1>7. \A S : ~Is(n, S) /\ ~Is(n, S)'
  BY <1>2 DEF Is
<1>8. n \notin tardy' => TimerOK(n)'
  <2>1. n \notin tardy' => TimerOK(n)
    BY <1>2 DEF IInv, TimersOK
  <2> QED BY <1>2, <1>3, <1>7, <2>1 DEF TimerOK, Newest, bus
<1>9. n \notin tardy' => (OnBus(n)' => FilterOK(n)')
  <2>1. n \notin tardy' => (OnBus(n) => FilterOK(n))
    BY <1>2 DEF IInv, TimersOK
  <2> QED BY <1>2, <1>3, <1>7, <2>1 DEF FilterOK, OnBus
<1>10. PlacesOK' /\ TimersOK'
  BY <1>5, <1>6, <1>8, <1>9, OneNode
<1>11. \A k \in Nodes \ {n} : /\ \A a : Seeks(k, a)' <=> Seeks(k, a)
                              /\ \A a : Has(k, a)' <=> Has(k, a)
                              /\ \A S : Is(k, S)' <=> Is(k, S)
                              /\ \A a : Told(k, a)' <=> Told(k, a)
  BY <1>2, <1>3, <1>5, UntouchedFacts DEF Others, Told, bus
<1>12. Heeds /\ Asks /\ Announced /\ DeviceReplies /\ NodesReply
  BY <1>2, <1>5, <1>11 DEF Heeds, Asks, Announced, DeviceReplies, NodesReply, Unsure, bus
<1>13. \A k \in Nodes, a \in Addresses : k \notin Crossed' /\ Has(k, a)' => Has(k, a)
  BY <1>5, <1>11
<1> QED BY <1>4, <1>5, <1>10, <1>12, <1>13, AnswersPreserved, ClaimsPreserved DEF IInv

\* The timer is cancelled in time or the node is tardy, and the claim filter goes:
\* it does not seek the address any more.
LEMMA GivesUpPreserves ==
    ASSUME IInv, NEW n \in Nodes, GivesUp(n)
    PROVE  IInv'
<1> SUFFICES ASSUME current[n] # 0 PROVE IInv'
  BY GivesUpEarlyPreserves
<1> DEFINE b == recv[n].frame.source
           to == IF Addresses \subseteq taken'[n] THEN "idle" ELSE "send"
<1>1. Simple /\ PlaceOK(n)
  BY DEF IInv, PlacesOK
<1>2. current[n] > 0 /\ current[n] \in DOMAIN timers[n]
  <2>1. current[n] \in Nat /\ (current[n] > 0 => current[n] \in DOMAIN timers[n])
    BY <1>1, NewestFacts
  <2>2. current[n] > 0
    BY <2>1
  <2> QED BY <2>1, <2>2
<1>3. /\ recv[n].at = "taken" /\ RecvGoes(n, to)
      /\ filters' = [filters EXCEPT ![n] = filters[n] \ {ClaimFilter(b)}]
      /\ taken' = [taken EXCEPT ![n] = taken[n] \cup {b}]
      /\ UNCHANGED <<main, current, is_connected, node_addr, bus>>
  BY <1>1 DEF GivesUp, Simple
<1>4. /\ early' = early /\ together' = together
      /\ IF Is(n, TooLate) THEN tardy' = tardy \cup {n} ELSE tardy' = tardy
  BY <1>2 DEF GivesUp, NotesCrossing, Is, Newest
<1>5. \/ /\ Newest(n).state \in {"made", "waiting"}
         /\ \E dead \in Dead : Sets(n, current[n], dead)
      \/ Newest(n).state \notin {"made", "waiting"} /\ timers' = timers
  BY <1>1, <1>2, CancelFacts DEF GivesUp
<1>6. timers' \in [Nodes -> Seq(TimerType)] /\ \A k \in Nodes \ {n} : timers'[k] = timers[k]
  BY <1>1, <1>5 DEF Sets, Simple
<1>7. to \in Stages /\ (to = "idle" <=> Full(n)') /\ to \in {"idle", "send"}
  BY DEF Stages, Full
<1> HIDE DEF to
<1>8. /\ recv' \in [Nodes -> [at : Stages, frame : ValidFrames]]
      /\ recv'[n].at = to
      /\ \A k \in Nodes \ {n} : recv'[k] = recv[k]
  BY <1>1, <1>3, <1>7, RecvFacts
<1>9. b \in Addresses \cup {Anonymous}
  <2>1. recv[n].frame \in ValidFrames
    BY <1>1 DEF Simple
  <2> QED BY <2>1, FrameFacts
<1> HIDE DEF b
<1>10. /\ taken' \in [Nodes -> SUBSET (Addresses \cup {Anonymous})]
       /\ filters' \in [Nodes -> SUBSET FilterType]
       /\ filters'[n] = filters[n] \ {ClaimFilter(b)} /\ taken'[n] = taken[n] \cup {b}
       /\ \A k \in Nodes \ {n} : filters'[k] = filters[k] /\ taken'[k] = taken[k]
  BY <1>1, <1>3, <1>9 DEF Simple
<1>11. Simple'
  BY <1>1, <1>3, <1>4, <1>6, <1>8, <1>10 DEF Simple, Stages, bus
<1>12. Others(n) /\ Remembers
  BY <1>3, <1>4, <1>6, <1>8, <1>10 DEF Others, Untouched, Remembers, bus
<1>13. /\ DOMAIN timers'[n] = DOMAIN timers[n] /\ Len(timers'[n]) = Len(timers[n])
       /\ Newest(n)'.addr = Newest(n).addr
       /\ \A j \in DOMAIN timers[n] : j # current[n] => timers'[n][j] = timers[n][j]
       /\ \/ Newest(n).state \in {"made", "waiting"} /\ Newest(n)'.state \in Dead
          \/ Newest(n).state \notin {"made", "waiting"} /\ Newest(n)'.state = Newest(n).state
  BY <1>3, <1>5 DEF Sets, Newest
<1>14. \A S : /\ Is(n, S) <=> Newest(n).state \in S
              /\ Is(n, S)' <=> Newest(n)'.state \in S
  BY <1>2, <1>3 DEF Is
<1>15. PlaceOK(n)'
  <2>1. \A i \in DOMAIN timers'[n] :
           timers'[n][i].state \in {"named", "done"} => timers[n][i].state \in {"named", "done"}
    BY <1>3, <1>13 DEF Newest, Dead
  <2> QED BY <1>1, <1>2, <1>3, <1>7, <1>8, <1>13, <2>1 DEF PlaceOK
<1>16. ASSUME n \notin tardy'
       PROVE  n \notin tardy /\ TimerOK(n) /\ Newest(n)'.state \in Dead /\ ~Is(n, TooLate)
  <2>1. n \notin tardy /\ ~Is(n, TooLate)
    BY <1>4, <1>16
  <2>2. Newest(n).state \in TimerStates
    BY <1>1, <1>2, NewestFacts DEF TimerType
  <2> QED BY <1>13, <1>14, <2>1, <2>2 DEF IInv, TimersOK, TooLate, TimerStates, Dead
<1>17. n \notin tardy' => TimerOK(n)'
  <2>1. Full(n) => Full(n)'
    BY <1>10 DEF Full
  <2>2. ASSUME n \notin tardy'
        PROVE  /\ \A S : Is(n, S)' <=> Newest(n)'.state \in S
               /\ Newest(n)'.state \in Dead
               /\ ~is_connected'[n] /\ node_addr'[n] = None
               /\ \A i \in DOMAIN timers'[n] :
                     i # current'[n] => timers'[n][i].state \in Dead
               /\ main'[n] = "timed out" /\ n \notin refused' => Full(n)
    BY <1>3, <1>13, <1>14, <1>16, <2>2 DEF TimerOK, TooLate, Dead, bus
  <2> QED BY <1>7, <1>8, <2>1, <2>2 DEF TimerOK, Dead
<1>18. n \notin tardy' => FilterOK(n)'
  BY <1>2, <1>1, <1>3, <1>7, <1>8, <1>14, <1>16 DEF FilterOK, PlaceOK, Dead
<1>19. PlacesOK' /\ TimersOK'
  BY <1>12, <1>15, <1>17, <1>18, OneNode
<1>20. \A k \in Nodes \ {n} : /\ \A a : Seeks(k, a)' <=> Seeks(k, a)
                              /\ \A a : Has(k, a)' <=> Has(k, a)
                              /\ \A S : Is(k, S)' <=> Is(k, S)
                              /\ \A a : Told(k, a)' <=> Told(k, a)
  BY <1>3, <1>8, <1>12, UntouchedFacts DEF Others, Told, bus
<1>21. /\ \A a : Has(n, a)' => Has(n, a)
       /\ Is(n, {"done"})' => Is(n, {"done"})
       /\ \A a : Seeks(n, a)' => Seeks(n, a) /\ a # b
  <2>1. OnBus(n)' <=> OnBus(n)
    BY <1>3 DEF OnBus
  <2>2. Is(n, TooLate) <=> Is(n, TooLate)'
    BY <1>13, <1>14 DEF TooLate, Dead
  <2>3. \A a : Pursues(n, a)' => Pursues(n, a)
    <3>1. main' = main /\ recv'[n].at # "create"
      BY <1>3, <1>7, <1>8
    <3>2. Is(n, {"made", "waiting"})' => Is(n, {"made", "waiting"})
      BY <1>13, <1>14 DEF Dead
    <3> QED BY <1>13, <3>1, <3>2 DEF Pursues
  <2> QED BY <1>10, <1>13, <1>14, <2>1, <2>2, <2>3 DEF Has, Seeks, Dead
<1>22. Heeds
  <2>1. ASSUME NEW a \in Addresses, Told(n, a), a # b PROVE Told(n, a)'
    <3>1. recv[n].frame # Claim(a)
      BY <2>1, FrameFacts DEF b
    <3> QED BY <1>3, <2>1, <3>1 DEF Told, bus
  <2> QED BY <1>20, <1>21, <2>1 DEF Heeds
<1>23. Asks /\ Announced /\ DeviceReplies /\ NodesReply
  BY <1>3, <1>20, <1>21 DEF Asks, Announced, DeviceReplies, NodesReply, bus
<1>24. \A k \in Nodes, a \in Addresses : k \notin Crossed' /\ Has(k, a)' => Has(k, a)
  BY <1>20, <1>21
<1> QED BY <1>11, <1>12, <1>19, <1>22, <1>23, <1>24, AnswersPreserved, ClaimsPreserved DEF IInv

LEMMA RecvSendsPreserves ==
    ASSUME IInv, NEW n \in Nodes, NEW a \in Addresses, recv[n].at = "send",
           recv' = [recv EXCEPT ![n] = [at |-> "create", frame |-> Discovery(a)]],
           SendDiscovery(n, a), UNCHANGED <<main, history>>
    PROVE  IInv'
<1>1. Simple /\ PlaceOK(n) /\ recv[n].at = "send"
  BY DEF IInv, PlacesOK
<1>2. current[n] > 0 /\ current[n] \in DOMAIN timers[n]
  BY <1>1, CurrentFacts
<1>3. a \in Addresses
  OBVIOUS
<1>4. /\ recv' = [recv EXCEPT ![n] = [at |-> "create", frame |-> Discovery(a)]]
      /\ is_connected' = [is_connected EXCEPT ![n] = FALSE]
      /\ filters' = [filters EXCEPT ![n] = filters[n] \cup {ClaimFilter(a)}]
      /\ Send(n, Discovery(a), rx)
      /\ UNCHANGED <<node_addr, taken, timers, current, main>>
      /\ UNCHANGED <<early, tardy, together>>
  BY <1>1 DEF SendDiscovery, Listen, Simple, history
<1>5. /\ rx' \in [Nodes -> Seq(ValidFrames)] /\ asked' \subseteq Held
      /\ asked \subseteq asked' /\ (a \in Held => a \in asked')
      /\ refused' = refused
      /\ \A k \in Nodes : ToSet(rx[k]) \subseteq ToSet(rx'[k])
      /\ \A k \in Nodes \ {n} : OnBus(k) => Discovery(a) \in ToSet(rx'[k])
  BY <1>1, <1>3, <1>4, AskFacts
<1>6. Discovery(a) \in ValidFrames /\ Discovery(a).target = a /\ ClaimFilter(a) \in FilterType
  BY <1>3, FrameFacts, FilterFacts
<1>7. /\ recv' \in [Nodes -> [at : Stages, frame : ValidFrames]]
      /\ recv'[n].at = "create" /\ recv'[n].frame.target = a
      /\ \A k \in Nodes \ {n} : recv'[k] = recv[k]
  BY <1>1, <1>4, <1>6 DEF Simple, Stages
<1>8. /\ is_connected' \in [Nodes -> BOOLEAN] /\ ~is_connected'[n]
      /\ filters' \in [Nodes -> SUBSET FilterType]
      /\ filters'[n] = filters[n] \cup {ClaimFilter(a)}
      /\ \A k \in Nodes \ {n} : filters'[k] = filters[k] /\ is_connected'[k] = is_connected[k]
  BY <1>1, <1>4, <1>6 DEF Simple
<1>9. Simple'
  BY <1>1, <1>4, <1>5, <1>7, <1>8 DEF Simple, Stages
<1>10. Others(n) /\ Remembers /\ Crossed' = Crossed
  BY <1>4, <1>5, <1>7, <1>8 DEF Others, Untouched, Remembers, Crossed
<1>11. PlaceOK(n)'
  BY <1>1, <1>2, <1>3, <1>4, <1>7 DEF PlaceOK
<1>12. /\ \A S : Is(n, S)' <=> Is(n, S)
       /\ OnBus(n)' <=> OnBus(n)
       /\ Newest(n)' = Newest(n)
  BY <1>4 DEF Is, Newest, OnBus
<1>13. n \notin tardy' => TimerOK(n) /\ Is(n, Dead) /\ ~Is(n, TooLate)
  BY <1>1, <1>4 DEF IInv, TimersOK, TimerOK, Is, Dead, TooLate
<1>14. n \notin tardy' => TimerOK(n)'
  <2>1. n \notin tardy' => /\ Is(n, Dead)' /\ ~Is(n, {"made"})'
                           /\ ~Is(n, {"connected", "named", "done"})'
                           /\ ~Is(n, {"named", "done"}) /\ ~Is(n, {"named", "done"})'
    BY <1>12, <1>13 DEF Is, Dead
  <2> QED BY <1>1, <1>4, <1>5, <1>7, <1>8, <1>12, <1>13, <2>1 DEF TimerOK
<1>15. n \notin tardy' => FilterOK(n)'
  BY <1>1, <1>2, <1>4, <1>7, <1>8, <1>12, <1>13 DEF FilterOK, PlaceOK, Is, Dead
<1>16. PlacesOK' /\ TimersOK'
  BY <1>10, <1>11, <1>14, <1>15, OneNode
<1>17. Heeds /\ DeviceReplies /\ NodesReply
  <2>1. BusGrows
    BY <1>5 DEF BusGrows
  <2> QED BY <1>1, <1>10, <2>1, GrowingBus
<1>18. \A k \in Nodes : /\ OnBus(k)' <=> OnBus(k)
                        /\ \A b : Has(k, b)' <=> Has(k, b)
                        /\ \A S : Is(k, S)' <=> Is(k, S)
  <2>1. \A b : Has(n, b)' <=> Has(n, b)
    BY <1>12 DEF Has
  <2> QED BY <1>10, <1>12, <2>1, UntouchedFacts DEF Others
<1>19. Asks
  <2>1. \A b : Seeks(n, b)' /\ ~Seeks(n, b) => b = a
    BY <1>4, <1>6, <1>7, <1>8, <1>12, FilterFacts DEF Seeks, Pursues
  <2>2. \A k \in Nodes \ {n} : \A b : Seeks(k, b)' <=> Seeks(k, b)
    BY <1>10, UntouchedFacts DEF Others
  <2> QED BY <1>5, <1>18, <2>1, <2>2 DEF Asks
<1>20. Announced
  BY <1>18 DEF Announced
<1> QED BY <1>9, <1>10, <1>16, <1>17, <1>18, <1>19, <1>20, AnswersPreserved, ClaimsPreserved
        DEF IInv

\* The discovery of the handler is refused: no timer, and nobody seeks an address.
LEMMA RecvRefusedPreserves ==
    ASSUME IInv, NEW n \in Nodes, NEW a \in Addresses, recv[n].at = "send",
           RecvGoes(n, "idle"), DiscoveryRaises(n, a), UNCHANGED <<main, history>>
    PROVE  IInv'
<1>1. Simple /\ PlaceOK(n)
  BY DEF IInv, PlacesOK
<1>2. current[n] > 0 /\ current[n] \in DOMAIN timers[n]
  BY <1>1, CurrentFacts
<1>3. /\ is_connected' = [is_connected EXCEPT ![n] = FALSE]
      /\ filters' = [filters EXCEPT ![n] = filters[n] \cup {ClaimFilter(a)}]
      /\ UNCHANGED <<node_addr, taken, timers, current, main, rx, asked>>
      /\ UNCHANGED <<early, tardy, together>>
      /\ n \in Refusing /\ refused' = refused \cup {n}
  BY <1>1 DEF DiscoveryRaises, Listen, SendRaises, Simple, history
<1>4. /\ recv' \in [Nodes -> [at : Stages, frame : ValidFrames]]
      /\ recv'[n].at = "idle"
      /\ \A k \in Nodes \ {n} : recv'[k] = recv[k]
  BY <1>1, RecvFacts DEF Stages
<1>5. ClaimFilter(a) \in FilterType
  BY FilterFacts
<1>6. /\ is_connected' \in [Nodes -> BOOLEAN] /\ ~is_connected'[n]
      /\ filters' \in [Nodes -> SUBSET FilterType]
      /\ filters'[n] = filters[n] \cup {ClaimFilter(a)}
      /\ \A k \in Nodes \ {n} : filters'[k] = filters[k] /\ is_connected'[k] = is_connected[k]
      /\ refused' \subseteq Refusing
  BY <1>1, <1>3, <1>5 DEF Simple
<1>7. Simple'
  BY <1>1, <1>3, <1>4, <1>6 DEF Simple, Stages
<1>8. Others(n) /\ Remembers /\ Crossed' = Crossed
  BY <1>3, <1>4, <1>6 DEF Others, Untouched, Remembers, Crossed
<1>9. PlaceOK(n)'
  BY <1>1, <1>2, <1>3, <1>4 DEF PlaceOK
<1>10. /\ \A S : Is(n, S)' <=> Is(n, S)
       /\ OnBus(n)' <=> OnBus(n)
       /\ Newest(n)' = Newest(n)
  BY <1>3 DEF Is, Newest, OnBus
<1>11. n \notin tardy' => TimerOK(n) /\ Is(n, Dead)
  BY <1>1, <1>3 DEF IInv, TimersOK, TimerOK
<1>12. n \notin tardy' => TimerOK(n)'
  BY <1>1, <1>3, <1>4, <1>6, <1>10, <1>11 DEF TimerOK, Is, Dead
<1>13. n \notin tardy' => FilterOK(n)'
  BY <1>1, <1>2, <1>3, <1>4, <1>6, <1>10, <1>11 DEF FilterOK, PlaceOK, Is, Dead
<1>14. PlacesOK' /\ TimersOK'
  BY <1>8, <1>9, <1>12, <1>13, OneNode
<1>15. AnswersOK' /\ ClaimsOK'
  <2>1. BusGrows
    BY <1>3 DEF BusGrows
  <2>2. n \notin Crossed' => n \notin tardy'
    BY DEF Crossed
  <2>3. main[n] # "create" /\ main' = main
    BY <1>1, <1>2, <1>3 DEF PlaceOK
  <2>4. n \notin tardy' => \A b : ~Pursues(n, b)'
    BY <1>4, <1>10, <1>11, <2>3 DEF Pursues, Is, Dead
  <2>5. \A b : Has(n, b)' <=> Has(n, b)
    BY <1>10 DEF Has
  <2>6. StartsNothing(n)
    BY <1>10, <2>2, <2>4, <2>5 DEF StartsNothing, Seeks
  <2> QED BY <1>8, <2>1, <2>6, QuietStep
<1> QED BY <1>7, <1>14, <1>15 DEF IInv

LEMMA RecvCreatesPreserves ==
    ASSUME IInv, NEW n \in Nodes, RecvCreates(n)
    PROVE  IInv'
<1> DEFINE a == recv[n].frame.target
<1>1. Simple /\ PlaceOK(n) /\ recv[n].at = "create" /\ a \in Addresses
  BY DEF IInv, PlacesOK, PlaceOK, RecvCreates
<1>2. current[n] > 0 /\ current[n] \in DOMAIN timers[n]
  BY <1>1, CurrentFacts
<1>3. /\ RecvGoes(n, "start") /\ CreateTimer(n, a)
      /\ UNCHANGED <<main, shared, bus, history>>
  BY DEF RecvCreates, CreateTimer
<1>4. /\ recv' \in [Nodes -> [at : Stages, frame : ValidFrames]]
      /\ recv'[n].at = "start"
      /\ \A k \in Nodes \ {n} : recv'[k] = recv[k]
  BY <1>1, <1>3, RecvFacts DEF Stages
<1>5. /\ timers' \in [Nodes -> Seq(TimerType)] /\ current' \in [Nodes -> Nat]
      /\ \A k \in Nodes \ {n} : timers'[k] = timers[k] /\ current'[k] = current[k]
      /\ current'[n] = Len(timers'[n]) /\ current'[n] = current[n] + 1
      /\ DOMAIN timers'[n] = 1..current'[n]
      /\ Newest(n)'.addr = a /\ Newest(n)'.state = "made"
      /\ \A j \in DOMAIN timers[n] : timers'[n][j] = timers[n][j]
  BY <1>1, <1>3, CreateFacts
<1> HIDE DEF a
<1>6. /\ DOMAIN timers[n] = 1..current[n] /\ current[n] \in Nat /\ current'[n] > 0
      /\ \A j \in DOMAIN timers'[n] : j # current'[n] => j \in DOMAIN timers[n]
  <2>1. DOMAIN timers[n] = 1..current[n] /\ current[n] \in Nat
    BY <1>1, NewestFacts
  <2> QED BY <1>5, <2>1
<1>7. Simple'
  BY <1>1, <1>3, <1>4, <1>5 DEF Simple, Stages, shared, bus, history
<1>8. Others(n) /\ Remembers /\ Crossed' = Crossed
  BY <1>3, <1>4, <1>5 DEF Others, Untouched, Remembers, Crossed, shared, bus, history
<1>9. \A S : Is(n, S)' <=> "made" \in S
  BY <1>5, <1>6 DEF Is
<1>10. PlaceOK(n)'
  <2>1. ASSUME NEW j \in DOMAIN timers'[n], timers'[n][j].state \in {"named", "done"}
        PROVE  node_addr'[n] # None
    <3>1. j # current'[n]
      BY <1>5, <2>1 DEF Newest
    <3> QED BY <1>1, <1>3, <1>5, <1>6, <2>1, <3>1 DEF PlaceOK, shared
  <2> QED BY <1>1, <1>2, <1>3, <1>4, <1>5, <1>6, <2>1 DEF PlaceOK, shared
<1>11. n \notin tardy' => TimerOK(n) /\ Is(n, Dead)
  BY <1>1, <1>3 DEF IInv, TimersOK, TimerOK, history
<1>12. n \notin tardy' => TimerOK(n)'
  <2>1. ASSUME n \notin tardy'
        PROVE  \A j \in DOMAIN timers'[n] : j # current'[n] => timers'[n][j].state \in Dead
    <3>1. TAKE j \in DOMAIN timers'[n]
    <3>2. HAVE j # current'[n]
    <3>3. j \in DOMAIN timers[n] /\ timers'[n][j] = timers[n][j]
      BY <1>5, <1>6, <3>2
    <3>4. TimerOK(n) /\ Is(n, Dead)
      BY <1>11, <2>1
    <3> QED BY <3>3, <3>4 DEF TimerOK, Is, Newest
  <2>2. n \notin tardy' => ~is_connected'[n] /\ node_addr'[n] = None
                        /\ (main'[n] = "timed out" => n \in refused')
    BY <1>1, <1>3, <1>11 DEF TimerOK, Is, Dead, shared, bus
  <2> QED BY <1>4, <1>9, <2>1, <2>2 DEF TimerOK, Dead
<1>13. n \notin tardy' => (OnBus(n)' => FilterOK(n)')
  <2>1. ASSUME n \notin tardy', OnBus(n) PROVE ClaimFilter(a) \in filters[n]
    BY <1>1, <1>3, <2>1 DEF IInv, TimersOK, FilterOK, history, a
  <2>2. main[n] # "create"
    BY <1>1, <1>2 DEF PlaceOK
  <2> QED BY <1>3, <1>4, <1>5, <1>9, <2>1, <2>2 DEF FilterOK, OnBus, shared
<1>14. PlacesOK' /\ TimersOK'
  BY <1>8, <1>10, <1>12, <1>13, OneNode
<1>15. AnswersOK' /\ ClaimsOK'
  <2>1. BusGrows
    BY <1>3 DEF BusGrows, bus
  <2>2. StartsNothing(n)
    <3>1. n \notin Crossed' => n \notin tardy'
      BY DEF Crossed
    <3>2. main[n] # "create" /\ main' = main
      BY <1>1, <1>2, <1>3 DEF PlaceOK
    <3>3. \A b : Pursues(n, b)' => Pursues(n, b)
      BY <1>1, <1>4, <1>5, <3>2 DEF Pursues, a
    <3>4. n \notin tardy' => ~Is(n, TooLate) /\ ~Is(n, TooLate)'
      BY <1>9, <1>11 DEF Is, Dead, TooLate
    <3>5. n \notin tardy' => \A b : ~Has(n, b)'
      BY <3>4 DEF Has
    <3> QED BY <1>3, <3>1, <3>2, <3>3, <3>4, <3>5 DEF StartsNothing, Seeks, OnBus, shared
  <2> QED BY <1>1, <1>8, <2>1, <2>2, QuietStep
<1> QED BY <1>7, <1>14, <1>15 DEF IInv

LEMMA RecvStartsPreserves ==
    ASSUME IInv, NEW n \in Nodes, RecvStarts(n)
    PROVE  IInv'
<1>1. Simple /\ PlaceOK(n) /\ recv[n].at = "start"
  BY DEF IInv, PlacesOK, RecvStarts
<1>2. current[n] > 0 /\ current[n] \in DOMAIN timers[n]
  BY <1>1, CurrentFacts
<1>3. /\ RecvGoes(n, "idle") /\ (StartTimer(n) \/ StartRaises(n))
      /\ UNCHANGED <<main, current, shared, bus, history>>
  BY DEF RecvStarts, StartTimer, StartRaises
<1>4. /\ recv' \in [Nodes -> [at : Stages, frame : ValidFrames]]
      /\ recv'[n].at = "idle"
      /\ \A k \in Nodes \ {n} : recv'[k] = recv[k]
  BY <1>1, <1>3, RecvFacts DEF Stages
<1>5. \/ Is(n, {"made"}) /\ Sets(n, current[n], "waiting")
      \/ Is(n, Dead) /\ Sets(n, current[n], "stopped")
      \/ ~Is(n, {"made"}) /\ timers' = timers
  <2>1. CASE StartTimer(n)
    BY <1>1, <1>2, <2>1, StartFacts
  <2>2. CASE StartRaises(n)
    BY <2>2 DEF StartRaises, Is, Newest
  <2> QED BY <1>3, <2>1, <2>2
<1>6. timers' \in [Nodes -> Seq(TimerType)] /\ \A k \in Nodes \ {n} : timers'[k] = timers[k]
  BY <1>1, <1>5 DEF Sets, Simple
<1>7. Simple'
  BY <1>1, <1>3, <1>4, <1>6 DEF Simple, Stages, shared, bus, history
<1>8. Others(n) /\ Remembers /\ Crossed' = Crossed
  BY <1>3, <1>4, <1>6 DEF Others, Untouched, Remembers, Crossed, shared, bus, history
<1>9. /\ DOMAIN timers'[n] = DOMAIN timers[n] /\ Len(timers'[n]) = Len(timers[n])
      /\ Newest(n)'.addr = Newest(n).addr
      /\ \A j \in DOMAIN timers[n] : j # current[n] => timers'[n][j] = timers[n][j]
      /\ \/ Newest(n).state = "made" /\ Newest(n)'.state = "waiting"
         \/ Newest(n).state \in Dead /\ Newest(n)'.state \in Dead
         \/ Newest(n).state # "made" /\ Newest(n)'.state = Newest(n).state
  BY <1>2, <1>3, <1>5 DEF Sets, Newest, Is, Dead
<1>10. PlaceOK(n)'
  <2>1. \A i \in DOMAIN timers'[n] :
           timers'[n][i].state \in {"named", "done"} => timers[n][i].state \in {"named", "done"}
    BY <1>3, <1>9 DEF Newest, Dead
  <2> QED BY <1>1, <1>2, <1>3, <1>4, <1>9, <2>1 DEF PlaceOK, Full, shared
<1>11. \A S : /\ Is(n, S) <=> Newest(n).state \in S
              /\ Is(n, S)' <=> Newest(n)'.state \in S
  BY <1>2, <1>3 DEF Is
<1>12. n \notin tardy' => TimerOK(n)'
  <2>1. n \notin tardy' => TimerOK(n)
    BY <1>3 DEF IInv, TimersOK, history
  <2>2. Full(n)' <=> Full(n)
    BY <1>3 DEF Full, shared
  <2>3. ASSUME n \notin tardy'
        PROVE  /\ \A i \in DOMAIN timers'[n] :
                     i # current'[n] => timers'[n][i].state \in Dead
               /\ ~Is(n, {"made"})' /\ (Is(n, Dead)' <=> Is(n, Dead))
    BY <1>3, <1>9, <1>11, <2>1, <2>3 DEF TimerOK, Dead
  <2> QED BY <1>1, <1>3, <1>4, <1>9, <1>11, <2>1, <2>2, <2>3 DEF TimerOK, Dead, shared, bus
<1>13. n \notin tardy' => (OnBus(n)' => FilterOK(n)')
  <2>1. n \notin tardy' => (OnBus(n) => FilterOK(n))
    BY <1>3 DEF IInv, TimersOK, history
  <2>2. OnBus(n)' <=> OnBus(n)
    BY <1>3 DEF OnBus
  <2> QED BY <1>3, <1>4, <1>9, <1>11, <2>1, <2>2 DEF FilterOK, Dead, shared
<1>14. PlacesOK' /\ TimersOK'
  BY <1>8, <1>10, <1>12, <1>13, OneNode
<1>15. AnswersOK' /\ ClaimsOK'
  <2>1. BusGrows
    BY <1>3 DEF BusGrows, bus
  <2>2. OnBus(n)' <=> OnBus(n)
    BY <1>3 DEF OnBus
  <2>3. StartsNothing(n)
    <3>1. \A b : Pursues(n, b)' => Pursues(n, b)
      BY <1>3, <1>4, <1>9, <1>11 DEF Pursues, Dead
    <3> QED BY <1>3, <1>9, <1>11, <2>2, <3>1 DEF StartsNothing, Seeks, Has, TooLate, Dead, shared
  <2> QED BY <1>1, <1>8, <2>1, <2>3, QuietStep
<1> QED BY <1>7, <1>14, <1>15 DEF IInv

(***************************************************************************)
(* The timer threads                                                       *)
(***************************************************************************)
\* A callback moves on.  If n never gave up too late, it is the newest timer's.
LEMMA CompleteFacts ==
    ASSUME IInv, NEW n \in Nodes, NEW i \in DOMAIN timers[n], NEW from, NEW to \in TimerStates,
           CompleteGoes(n, i, from, to), from \notin Dead
    PROVE  /\ Simple /\ PlaceOK(n)
           /\ current[n] > 0 /\ current[n] \in DOMAIN timers[n]
           /\ timers[n][i].state = from /\ timers[n][i] \in TimerType /\ Sets(n, i, to)
           /\ UNCHANGED <<main, recv, current, early, tardy, together>>
           /\ Crossed' = Crossed
           /\ \A S : /\ Is(n, S) <=> Newest(n).state \in S
                     /\ Is(n, S)' <=> Newest(n)'.state \in S
           /\ Newest(n)'.addr = Newest(n).addr
           /\ n \notin tardy => /\ i = current[n] /\ TimerOK(n)
                                /\ Newest(n).state = from /\ Newest(n)'.state = to
<1>1. Simple /\ PlaceOK(n)
  BY DEF IInv, PlacesOK
<1>2. timers[n] \in Seq(TimerType) /\ current[n] \in Nat /\ DOMAIN timers[n] = 1..current[n]
  BY <1>1, NewestFacts
<1>3. current[n] > 0 /\ current[n] \in DOMAIN timers[n] /\ timers[n][i] \in TimerType
  BY <1>2
<1>4. timers[n][i].state = from /\ Sets(n, i, to)
  BY <1>1, SetFacts DEF CompleteGoes
<1>5. /\ UNCHANGED <<main, recv, current, early, tardy, together>>
      /\ Crossed' = Crossed
  BY DEF CompleteGoes, history, Crossed
<1>6. \A S : /\ Is(n, S) <=> Newest(n).state \in S
             /\ Is(n, S)' <=> Newest(n)'.state \in S
  BY <1>3, <1>5 DEF Is
<1>7. Newest(n)'.addr = Newest(n).addr
  BY <1>3, <1>4, <1>5 DEF Newest, Sets
<1>8. n \notin tardy => /\ i = current[n] /\ TimerOK(n)
                        /\ Newest(n).state = from /\ Newest(n)'.state = to
  <2>1. n \notin tardy => TimerOK(n)
    BY DEF IInv, TimersOK
  <2>2. n \notin tardy => i = current[n]
    BY <1>4, <2>1 DEF TimerOK
  <2> QED BY <1>4, <1>5, <2>1, <2>2 DEF Newest, Sets
<1> QED BY <1>1, <1>3, <1>4, <1>5, <1>6, <1>7, <1>8

\* What is left to show of its invariant.
LEMMA CompletesClaim ==
    ASSUME NEW n \in Nodes, TimerOK(n), current[n] > 0,
           NEW to \in {"connected", "named", "done"}, Sets(n, current[n], to),
           UNCHANGED <<main, recv, current>>,
           Newest(n).state \in {"fired", "connected", "named"},
           Newest(n)'.state = to, Newest(n)'.addr = Newest(n).addr,
           is_connected'[n], n \in refused => n \in refused',
           node_addr'[n] # None <=> to \in {"named", "done"},
           node_addr'[n] # None => node_addr'[n] = Newest(n).addr
    PROVE  TimerOK(n)'
<1>1. \A j \in DOMAIN timers'[n] : j # current'[n] => timers'[n][j].state \in Dead
  BY DEF TimerOK, Sets
<1>2. /\ recv[n].at \notin {"send", "create"}
      /\ main[n] = "timed out" => n \in refused
  <2>1. ~Is(n, Dead)
    BY DEF Is, Dead
  <2> QED BY <2>1 DEF TimerOK
<1>3. /\ ~Is(n, {"made"})' /\ ~Is(n, Dead)'
      /\ Is(n, {"connected", "named", "done"})'
      /\ Is(n, {"named", "done"})' <=> to \in {"named", "done"}
  BY DEF Is, Dead
<1> QED BY <1>1, <1>2, <1>3 DEF TimerOK

LEMMA ConnectsPreserves ==
    ASSUME IInv, NEW n \in Nodes, NEW i \in DOMAIN timers[n], Connects(n, i)
    PROVE  IInv'
<1>1. /\ Simple /\ PlaceOK(n)
      /\ current[n] > 0 /\ current[n] \in DOMAIN timers[n]
      /\ timers[n][i].state = "fired" /\ Sets(n, i, "connected")
      /\ UNCHANGED <<main, recv, current, early, tardy, together>>
      /\ Crossed' = Crossed
      /\ \A S : /\ Is(n, S) <=> Newest(n).state \in S
                /\ Is(n, S)' <=> Newest(n)'.state \in S
      /\ Newest(n)'.addr = Newest(n).addr
      /\ n \notin tardy => /\ i = current[n] /\ TimerOK(n)
                           /\ Newest(n).state = "fired" /\ Newest(n)'.state = "connected"
  <2>1. CompleteGoes(n, i, "fired", "connected") /\ "connected" \in TimerStates
    BY DEF Connects, TimerStates
  <2> QED BY <2>1, CompleteFacts DEF Dead
<1>2. /\ is_connected' = [is_connected EXCEPT ![n] = TRUE]
      /\ UNCHANGED <<node_addr, taken, filters, rx, asked, refused>>
  BY DEF Connects, bus
<1>3. /\ is_connected' \in [Nodes -> BOOLEAN] /\ is_connected'[n]
      /\ \A k \in Nodes \ {n} : is_connected'[k] = is_connected[k]
  BY <1>1, <1>2 DEF Simple
<1>4. Simple'
  BY <1>1, <1>2, <1>3 DEF Simple, Sets
<1>5. Others(n) /\ Remembers
  BY <1>1, <1>2, <1>3 DEF Others, Untouched, Sets, Remembers
<1>6. PlaceOK(n)'
  <2>1. \A j \in DOMAIN timers'[n] :
           timers'[n][j].state \in {"named", "done"} => timers[n][j].state \in {"named", "done"}
    BY <1>1 DEF Sets
  <2> QED BY <1>1, <1>2, <2>1 DEF PlaceOK, Full, Sets
<1>7. n \notin tardy' => TimerOK(n)'
  <2>1. n \notin tardy => node_addr[n] = None
    <3>1. n \notin tardy => ~Is(n, {"named", "done"})
      BY <1>1 DEF Is
    <3> QED BY <1>1, <3>1 DEF TimerOK
  <2> QED BY <1>1, <1>2, <1>3, <2>1, CompletesClaim
<1>8. n \notin tardy' => (OnBus(n)' => FilterOK(n)')
  <2>1. n \notin tardy => (OnBus(n) => FilterOK(n))
    BY DEF IInv, TimersOK
  <2> QED BY <1>1, <1>2, <2>1 DEF FilterOK, OnBus
<1>9. PlacesOK' /\ TimersOK'
  BY <1>1, <1>5, <1>6, <1>7, <1>8, OneNode
<1>10. AnswersOK' /\ ClaimsOK'
  <2>1. BusGrows
    BY <1>2 DEF BusGrows
  <2>2. n \notin Crossed' => n \notin tardy
    BY <1>1 DEF Crossed
  <2>3. StartsNothing(n)
    BY <1>1, <1>2, <2>2 DEF StartsNothing, Seeks, Pursues, Has, OnBus, TooLate
  <2> QED BY <1>1, <1>5, <2>1, <2>3, QuietStep
<1> QED BY <1>4, <1>9, <1>10 DEF IInv

LEMMA NamesItselfPreserves ==
    ASSUME IInv, NEW n \in Nodes, NEW i \in DOMAIN timers[n], NamesItself(n, i)
    PROVE  IInv'
<1>1. /\ Simple /\ PlaceOK(n)
      /\ current[n] > 0 /\ current[n] \in DOMAIN timers[n]
      /\ timers[n][i].state = "connected" /\ timers[n][i] \in TimerType
      /\ Sets(n, i, "named")
      /\ UNCHANGED <<main, recv, current, early, tardy, together>>
      /\ Crossed' = Crossed
      /\ \A S : /\ Is(n, S) <=> Newest(n).state \in S
                /\ Is(n, S)' <=> Newest(n)'.state \in S
      /\ Newest(n)'.addr = Newest(n).addr
      /\ n \notin tardy => /\ i = current[n] /\ TimerOK(n)
                           /\ Newest(n).state = "connected" /\ Newest(n)'.state = "named"
  <2>1. CompleteGoes(n, i, "connected", "named") /\ "named" \in TimerStates
    BY DEF NamesItself, TimerStates
  <2> QED BY <2>1, CompleteFacts DEF Dead
<1>2. /\ node_addr' = [node_addr EXCEPT ![n] = timers[n][i].addr]
      /\ UNCHANGED <<is_connected, taken, filters, rx, asked, refused>>
  BY DEF NamesItself, bus
<1>3. /\ node_addr' \in [Nodes -> Addresses \cup {None}]
      /\ node_addr'[n] = timers[n][i].addr /\ node_addr'[n] # None
      /\ \A k \in Nodes \ {n} : node_addr'[k] = node_addr[k]
  BY <1>1, <1>2, AddressFacts DEF Simple, TimerType
<1>4. Simple'
  BY <1>1, <1>2, <1>3 DEF Simple, Sets
<1>5. Others(n) /\ Remembers
  BY <1>1, <1>2, <1>3 DEF Others, Untouched, Sets, Remembers
<1>6. PlaceOK(n)'
  BY <1>1, <1>2, <1>3 DEF PlaceOK, Full, Sets
<1>7. n \notin tardy' => TimerOK(n)'
  <2>1. n \notin tardy => is_connected'[n]
    <3>1. n \notin tardy => Is(n, {"connected", "named", "done"})
      BY <1>1 DEF Is
    <3> QED BY <1>1, <1>2, <3>1 DEF TimerOK
  <2>2. n \notin tardy => node_addr'[n] = Newest(n).addr
    BY <1>1, <1>3 DEF Newest
  <2> QED BY <1>1, <1>2, <1>3, <2>1, <2>2, CompletesClaim
<1>8. n \notin tardy' => (OnBus(n)' => FilterOK(n)')
  <2>1. n \notin tardy => (OnBus(n) => FilterOK(n))
    BY DEF IInv, TimersOK
  <2> QED BY <1>1, <1>2, <2>1 DEF FilterOK, OnBus
<1>9. PlacesOK' /\ TimersOK'
  BY <1>1, <1>5, <1>6, <1>7, <1>8, OneNode
<1>10. AnswersOK' /\ ClaimsOK'
  <2>1. BusGrows
    BY <1>2 DEF BusGrows
  <2>2. n \notin Crossed' => n \notin tardy
    BY <1>1 DEF Crossed
  <2>3. StartsNothing(n)
    BY <1>1, <1>2, <2>2 DEF StartsNothing, Seeks, Pursues, Has, OnBus, TooLate
  <2> QED BY <1>1, <1>5, <2>1, <2>3, QuietStep
<1> QED BY <1>4, <1>9, <1>10 DEF IInv

\* The callback ends: whoever seeks the address is told.
LEMMA AnnouncesPreserves ==
    ASSUME IInv, NEW n \in Nodes, NEW i \in DOMAIN timers[n], Announces(n, i)
    PROVE  IInv'
<1> DEFINE a == node_addr[n]
<1>1. /\ Simple /\ PlaceOK(n)
      /\ current[n] > 0 /\ current[n] \in DOMAIN timers[n]
      /\ timers[n][i].state = "named" /\ Sets(n, i, "done")
      /\ UNCHANGED <<main, recv, current, early, tardy, together>>
      /\ Crossed' = Crossed
      /\ \A S : /\ Is(n, S) <=> Newest(n).state \in S
                /\ Is(n, S)' <=> Newest(n)'.state \in S
      /\ Newest(n)'.addr = Newest(n).addr
      /\ n \notin tardy => /\ i = current[n] /\ TimerOK(n)
                           /\ Newest(n).state = "named" /\ Newest(n)'.state = "done"
  <2>1. CompleteGoes(n, i, "named", "done") /\ "done" \in TimerStates
    BY DEF Announces, TimerStates
  <2> QED BY <2>1, CompleteFacts DEF Dead
<1>2. a \in Addresses /\ a # None
  BY <1>1 DEF PlaceOK, Simple
<1>3. /\ taken' = [taken EXCEPT ![n] = {}]
      /\ filters' = [filters EXCEPT ![n] = (filters[n] \ {ClaimFilter(a)})
                                           \cup {DiscoveryFilter(a)}]
      /\ \/ OnBus(n) /\ Send(n, Claim(a), rx)
         \/ n \in Refusing /\ refused' = refused \cup {n} /\ UNCHANGED <<rx, asked>>
         \/ ~OnBus(n) /\ UNCHANGED <<rx, asked, refused>>
      /\ UNCHANGED <<is_connected, node_addr>>
  BY <1>1 DEF Announces, Simple, SendRaises, bus
<1>4. n \notin tardy => a = Newest(n).addr
  BY <1>1, <1>2 DEF TimerOK
<1> HIDE DEF a
<1>5. /\ rx' \in [Nodes -> Seq(ValidFrames)] /\ asked' \subseteq Held
      /\ asked \subseteq asked'
      /\ \A k \in Nodes : ToSet(rx[k]) \subseteq ToSet(rx'[k])
      /\ OnBus(n) /\ n \notin refused' =>
            \A k \in Nodes \ {n} : OnBus(k) => Claim(a) \in ToSet(rx'[k])
      /\ refused' = refused \/ (n \in Refusing /\ refused' = refused \cup {n})
  <2>1. rx \in [Nodes -> Seq(ValidFrames)] /\ asked \subseteq Held
    BY <1>1 DEF Simple
  <2>2. CASE OnBus(n) /\ Send(n, Claim(a), rx)
    BY <1>1, <1>2, <2>1, <2>2, TellFacts
  <2>3. CASE n \in Refusing /\ refused' = refused \cup {n} /\ UNCHANGED <<rx, asked>>
    BY <2>1, <2>3
  <2>4. CASE ~OnBus(n) /\ UNCHANGED <<rx, asked, refused>>
    BY <2>1, <2>4
  <2> QED BY <1>3, <2>2, <2>3, <2>4
<1>6. /\ taken' \in [Nodes -> SUBSET (Addresses \cup {Anonymous})] /\ taken'[n] = {}
      /\ filters' \in [Nodes -> SUBSET FilterType]
      /\ filters'[n] = (filters[n] \ {ClaimFilter(a)}) \cup {DiscoveryFilter(a)}
      /\ \A k \in Nodes \ {n} : taken'[k] = taken[k] /\ filters'[k] = filters[k]
  <2>1. DiscoveryFilter(a) \in FilterType
    BY <1>2, FilterFacts
  <2> QED BY <1>1, <1>3, <2>1 DEF Simple
<1>7. Simple'
  <2>1. refused' \subseteq Refusing
    BY <1>1, <1>5 DEF Simple
  <2> QED BY <1>1, <1>3, <1>5, <1>6, <2>1 DEF Simple, Sets
<1>8. Others(n) /\ Remembers
  BY <1>1, <1>3, <1>5, <1>6 DEF Others, Untouched, Sets, Remembers
<1>9. PlaceOK(n)'
  <2>1. ~Full(n)'
    BY <1>6, AddressFacts DEF Full
  <2>2. node_addr'[n] # None
    BY <1>2, <1>3 DEF a
  <2>3. main[n] # "new"
    BY <1>1 DEF PlaceOK
  <2> QED BY <1>1, <1>3, <2>1, <2>2, <2>3 DEF PlaceOK, Sets
<1>10. n \notin tardy' => TimerOK(n)'
  <2>1. n \notin tardy => is_connected'[n]
    <3>1. n \notin tardy => Is(n, {"connected", "named", "done"})
      BY <1>1 DEF Is
    <3> QED BY <1>1, <1>3, <3>1 DEF TimerOK
  <2>2. node_addr'[n] # None /\ (n \notin tardy => node_addr'[n] = Newest(n).addr)
    BY <1>2, <1>3, <1>4 DEF a
  <2> QED BY <1>1, <1>8, <2>1, <2>2, CompletesClaim DEF Remembers
<1>11. n \notin tardy' => (OnBus(n)' => FilterOK(n)')
  <2>1. main'[n] # "create"
    BY <1>1 DEF PlaceOK
  <2>2. n \notin tardy => recv'[n].at # "create"
    <3>1. n \notin tardy => ~Is(n, Dead)
      BY <1>1 DEF Is, Dead
    <3> QED BY <1>1, <3>1 DEF TimerOK
  <2>3. n \notin tardy' => /\ ~Is(n, {"made", "waiting", "fired", "connected", "named"})'
                           /\ DiscoveryFilter(Newest(n)'.addr) \in filters'[n]
    BY <1>1, <1>4, <1>6 DEF Is
  <2> QED BY <1>1, <2>1, <2>2, <2>3 DEF FilterOK
<1>12. PlacesOK' /\ TimersOK'
  BY <1>1, <1>8, <1>9, <1>10, <1>11, OneNode
<1>13. Heeds /\ DeviceReplies /\ NodesReply
  <2>1. BusGrows
    BY <1>5 DEF BusGrows
  <2> QED BY <1>1, <1>8, <2>1, GrowingBus
<1>14. /\ \A k \in Nodes : OnBus(k)' <=> OnBus(k)
       /\ n \notin Crossed' => n \notin tardy
  BY <1>1 DEF OnBus, Crossed
<1>15. \A k \in Nodes \ {n} : /\ \A b : Seeks(k, b)' <=> Seeks(k, b)
                              /\ \A b : Has(k, b)' <=> Has(k, b)
                              /\ \A S : Is(k, S)' <=> Is(k, S)
  BY <1>8, UntouchedFacts DEF Others
<1>16. n \notin tardy => /\ \A b : ~Seeks(n, b)'
                         /\ \A b : Has(n, b)' => Has(n, b) /\ b = a
  BY <1>1, <1>4, <1>14 DEF Seeks, Has, TooLate
<1>17. Asks
  BY <1>14, <1>15, <1>16 DEF Asks
<1>18. Announced
  <2>1. ASSUME NEW b \in Addresses, n \notin Unsure', Has(n, b)'
        PROVE  \A k \in Nodes \ {n} : OnBus(k)' => Tells(k, b)
    <3>1. n \notin refused' /\ n \notin tardy
      BY <1>14, <2>1 DEF Unsure
    <3>2. b = a /\ OnBus(n)
      BY <1>14, <1>16, <2>1, <3>1 DEF Has
    <3> QED BY <1>5, <1>14, <3>1, <3>2 DEF Tells
  <2> QED BY <1>15, <2>1 DEF Announced
<1>19. \A k \in Nodes, b \in Addresses : k \notin Crossed' /\ Has(k, b)' => Has(k, b)
  BY <1>14, <1>15, <1>16
<1> QED BY <1>7, <1>8, <1>12, <1>13, <1>17, <1>18, <1>19, AnswersPreserved, ClaimsPreserved
        DEF IInv

(***************************************************************************)
(* Timers run out, and devices answer                                      *)
(***************************************************************************)
\* n's timers, those in S fired.
Fired(n, S) == [i \in DOMAIN timers[n] |->
                   IF <<n, i>> \in S THEN [timers[n][i] EXCEPT !.state = "fired"]
                                    ELSE timers[n][i]]

LEMMA FiredFacts ==
    ASSUME Simple, NEW n \in Nodes, NEW S
    PROVE  /\ Fired(n, S) \in Seq(TimerType)
           /\ DOMAIN Fired(n, S) = DOMAIN timers[n] /\ Len(Fired(n, S)) = Len(timers[n])
           /\ \A i \in DOMAIN timers[n] :
                 /\ Fired(n, S)[i].addr = timers[n][i].addr
                 /\ <<n, i>> \in S => Fired(n, S)[i].state = "fired"
                 /\ <<n, i>> \notin S => Fired(n, S)[i] = timers[n][i]
<1> DEFINE t == Fired(n, S)
           k == Len(timers[n])
           r(i) == [timers[n][i] EXCEPT !.state = "fired"]
<1>1. timers[n] \in Seq(TimerType) /\ k \in Nat /\ DOMAIN timers[n] = 1..k
  BY DEF Simple
<1>2. \A i \in 1..k : timers[n][i] \in TimerType
  BY <1>1
<1>3. \A i \in 1..k : r(i) \in TimerType /\ r(i).addr = timers[n][i].addr /\ r(i).state = "fired"
  <2> TAKE i \in 1..k
  <2> DEFINE u == timers[n][i]
  <2>1. u \in TimerType
    BY <1>2
  <2> HIDE DEF u
  <2>2. LET v == [u EXCEPT !.state = "fired"]
        IN  v \in TimerType /\ v.addr = u.addr /\ v.state = "fired"
    BY <2>1 DEF TimerType, TimerStates
  <2> QED BY <2>2 DEF u
<1>4. /\ t = [i \in DOMAIN timers[n] |-> IF <<n, i>> \in S THEN r(i) ELSE timers[n][i]]
  BY DEF Fired
<1> HIDE DEF r, t, k
<1>5. t \in [1..k -> TimerType]
  BY <1>1, <1>2, <1>3, <1>4
<1>6. t \in Seq(TimerType) /\ Len(t) = k /\ DOMAIN t = 1..k
  BY <1>1, <1>5
<1>7. \A i \in DOMAIN timers[n] : /\ t[i].addr = timers[n][i].addr
                                  /\ <<n, i>> \in S => t[i].state = "fired"
                                  /\ <<n, i>> \notin S => t[i] = timers[n][i]
  BY <1>1, <1>3, <1>4
<1>8. DOMAIN t = DOMAIN timers[n]
  BY <1>1, <1>6
<1>9. Len(t) = Len(timers[n])
  BY <1>6 DEF k
<1> QED BY <1>6, <1>7, <1>8, <1>9, Zenon DEF t

\* Only waiting timers run out, and nothing is on its way to anybody then: who
\* seeks an address would have been told by its owner.
LEMMA FirePreserves ==
    ASSUME IInv, Fire
    PROVE  IInv'
<1>1. Simple /\ Quiet
  BY DEF IInv, Fire
<1>2. PICK S \in (SUBSET Waiting) \ {{}} :
          /\ timers' = [n \in Nodes |-> Fired(n, S)]
          /\ together' = together \cup
                {t \in SUBSET Nodes : \E p, q \in S : p[1] # q[1] /\ t = {p[1], q[1]}}
  BY DEF Fire, Fired
<1>3. /\ UNCHANGED <<main, recv, current, is_connected, node_addr, taken, filters>>
      /\ UNCHANGED <<rx, asked, refused, early, tardy>>
  BY DEF Fire, shared, bus
<1>4. ASSUME NEW n \in Nodes, NEW i \in DOMAIN timers[n], <<n, i>> \in S
      PROVE  timers[n][i].state = "waiting"
  BY <1>2, <1>4 DEF Waiting
<1>5. ASSUME NEW n \in Nodes
      PROVE  /\ timers'[n] \in Seq(TimerType)
             /\ DOMAIN timers'[n] = DOMAIN timers[n] /\ Len(timers'[n]) = Len(timers[n])
             /\ \A i \in DOMAIN timers[n] :
                   /\ timers'[n][i].addr = timers[n][i].addr
                   /\ \/ timers'[n][i] = timers[n][i]
                      \/ /\ timers[n][i].state = "waiting" /\ timers'[n][i].state = "fired"
                         /\ <<n, i>> \in S
  <2>1. timers'[n] = Fired(n, S)
    BY <1>2
  <2> QED BY <1>1, <1>4, <2>1, FiredFacts
<1>6. Simple'
  <2>1. together' \subseteq SUBSET Nodes
    BY <1>1, <1>2 DEF Simple
  <2>2. timers' \in [Nodes -> Seq(TimerType)]
    BY <1>2, <1>5
  <2> QED BY <1>1, <1>3, <2>1, <2>2 DEF Simple
<1>7. Remembers /\ Crossed' = Crossed /\ Unsure' = Unsure
  BY <1>2, <1>3 DEF Remembers, Crossed, Unsure
<1>8. ASSUME NEW n \in Nodes
      PROVE  /\ PlaceOK(n) /\ (OnBus(n)' <=> OnBus(n))
             /\ current[n] > 0 => /\ current[n] \in DOMAIN timers[n]
                                  /\ Newest(n)'.addr = Newest(n).addr
             /\ \/ current[n] = 0
                \/ current[n] > 0 /\ Newest(n)'.state = Newest(n).state
                \/ /\ current[n] > 0 /\ <<n, current[n]>> \in S
                   /\ Newest(n).state = "waiting" /\ Newest(n)'.state = "fired"
  <2>1. PlaceOK(n)
    BY DEF IInv, PlacesOK
  <2>2. current[n] \in Nat /\ (current[n] > 0 => current[n] \in DOMAIN timers[n])
    BY <1>1, <2>1, NewestFacts
  <2> QED BY <1>3, <1>5, <2>1, <2>2 DEF Newest, OnBus
<1>9. PlacesOK'
  <2> SUFFICES ASSUME NEW n \in Nodes PROVE PlaceOK(n)'
    BY DEF PlacesOK
  <2>1. ASSUME NEW i \in DOMAIN timers'[n], timers'[n][i].state \in {"named", "done"}
        PROVE  i \in DOMAIN timers[n] /\ timers[n][i].state \in {"named", "done"}
    BY <1>5, <2>1
  <2>2. Len(timers'[n]) = Len(timers[n]) /\ PlaceOK(n)
    BY <1>5, <1>8
  <2> QED BY <1>3, <2>1, <2>2 DEF PlaceOK, Full
<1>10. TimersOK'
  <2> SUFFICES ASSUME NEW n \in Nodes \ tardy
               PROVE  TimerOK(n)' /\ (OnBus(n)' => FilterOK(n)')
    BY <1>3 DEF TimersOK
  <2>1. TimerOK(n) /\ (OnBus(n) => FilterOK(n))
    BY DEF IInv, TimersOK
  <2>2. \A i \in DOMAIN timers'[n] : i # current'[n] => timers'[n][i].state \in Dead
    <3> TAKE i \in DOMAIN timers'[n]
    <3> HAVE i # current'[n]
    <3>1. i \in DOMAIN timers[n] /\ (timers'[n][i] = timers[n][i] \/ timers[n][i].state = "waiting")
      BY <1>5
    <3>2. timers[n][i].state \in Dead
      BY <1>3, <2>1, <3>1 DEF TimerOK, Dead
    <3> QED BY <3>1, <3>2 DEF Dead
  <2>3. CASE \/ current[n] = 0
             \/ current[n] > 0 /\ Newest(n)'.state = Newest(n).state
    <3>1. \A T : Is(n, T)' <=> Is(n, T)
      BY <1>3, <2>3 DEF Is
    <3>2. ASSUME NEW T, Is(n, T) PROVE Newest(n)'.addr = Newest(n).addr
      BY <1>8, <3>2 DEF Is
    <3>3. node_addr[n] # None => node_addr[n] = Newest(n)'.addr
      BY <2>1, <3>2 DEF TimerOK
    <3>4. TimerOK(n)'
      BY <1>3, <2>1, <2>2, <3>1, <3>3 DEF TimerOK, Full
    <3>5. FilterOK(n) => FilterOK(n)'
      BY <1>3, <3>1, <3>2 DEF FilterOK
    <3> QED BY <1>8, <2>1, <3>4, <3>5
  <2>4. CASE /\ Newest(n).state = "waiting" /\ Newest(n)'.state = "fired"
             /\ current[n] > 0 /\ current'[n] > 0 /\ Newest(n)'.addr = Newest(n).addr
    <3>1. /\ recv[n].at = "idle" /\ ~is_connected[n] /\ node_addr[n] = None
          /\ main[n] = "timed out" => n \in refused
      BY <1>1, <2>1, <2>4 DEF TimerOK, Is, Dead, Quiet
    <3>2. TimerOK(n)'
      BY <1>3, <2>2, <2>4, <3>1 DEF TimerOK, Is, Dead
    <3>3. OnBus(n) => FilterOK(n)'
      BY <1>3, <2>1, <2>4 DEF FilterOK, Is
    <3> QED BY <1>8, <3>2, <3>3
  <2> QED BY <1>3, <1>8, <2>3, <2>4
<1>11. ASSUME NEW n \in Nodes
       PROVE  /\ Is(n, TooLate) => Is(n, TooLate)'
              /\ Is(n, {"done"})' => Is(n, {"done"})
              /\ Is(n, TooLate)' /\ ~Is(n, TooLate)
                    => Is(n, {"waiting"}) /\ <<n, current[n]>> \in S
              /\ \A a : Seeks(n, a)' => Seeks(n, a)
  <2>1. current[n] \in Nat
    BY <1>1 DEF Simple
  <2>2. ASSUME Is(n, TooLate) PROVE Is(n, TooLate)'
    <3>1. current[n] > 0 /\ current'[n] > 0 /\ current[n] # 0 /\ Newest(n).state # "waiting"
      BY <1>3, <2>1, <2>2 DEF Is, TooLate
    <3>2. Newest(n)'.state = Newest(n).state
      BY <1>8, <3>1
    <3> QED BY <2>2, <3>1, <3>2 DEF Is, TooLate
  <2>3. /\ Is(n, {"done"})' => Is(n, {"done"})
        /\ Is(n, TooLate)' /\ ~Is(n, TooLate)
                    => Is(n, {"waiting"}) /\ <<n, current[n]>> \in S
    BY <1>3, <1>8, <2>1 DEF Is, TooLate
  <2>4. \A a : Seeks(n, a)' => Seeks(n, a)
    <3>1. \A a : Pursues(n, a)' => Pursues(n, a)
      <4>1. Is(n, {"made", "waiting"})' =>
               Is(n, {"made", "waiting"}) /\ Newest(n)'.addr = Newest(n).addr
        <5> SUFFICES ASSUME Is(n, {"made", "waiting"})'
                     PROVE  Is(n, {"made", "waiting"}) /\ Newest(n)'.addr = Newest(n).addr
          OBVIOUS
        <5>1. current[n] > 0 /\ current[n] # 0 /\ Newest(n)'.state \in {"made", "waiting"}
          BY <1>3, <2>1 DEF Is
        <5>2. Newest(n)'.state = Newest(n).state /\ Newest(n)'.addr = Newest(n).addr
          BY <1>8, <5>1
        <5> QED BY <5>1, <5>2 DEF Is
      <4>2. main' = main /\ recv' = recv
        BY <1>3
      <4>3. ASSUME NEW a, Pursues(n, a)' PROVE Pursues(n, a)
        <5>1. CASE Is(n, {"made", "waiting"})' /\ Newest(n)'.addr = a
          BY <4>1, <5>1 DEF Pursues
        <5> QED BY <4>2, <4>3, <5>1 DEF Pursues
      <4> QED BY <4>3
    <3> QED BY <1>3, <1>8, <2>2, <3>1 DEF Seeks
  <2> QED BY <2>2, <2>3, <2>4
<1>12. AnswersOK'
  <2>1. Heeds /\ DeviceReplies /\ NodesReply
    BY <1>3 DEF Heeds, Told, DeviceReplies, NodesReply
  <2>2. Asks
    BY <1>11 DEF Asks
  <2>3. Announced
    <3>1. \A m \in Nodes, a \in Addresses :
             Has(m, a)' /\ Is(m, {"done"})' => Has(m, a) /\ Is(m, {"done"})
      BY <1>8, <1>11 DEF Has, Is, TooLate
    <3> QED BY <3>1 DEF Announced
  <2> QED BY <1>7, <2>1, <2>2, <2>3, AnswersPreserved
<1>13. ASSUME NEW n \in Nodes \ Crossed, NEW a \in Addresses
       PROVE  ~Told(n, a) /\ \A b : Discovery(b) \notin ToSet(rx[n])
  <2>1. rx[n] = <<>> /\ recv[n].at = "idle"
    BY <1>1 DEF Quiet
  <2>2. ToSet(rx[n]) = {}
    BY <2>1 DEF ToSet
  <2> QED BY <2>1, <2>2 DEF Told
<1>14. ASSUME NEW n \in Nodes \ Crossed, NEW a \in Addresses, Has(n, a)', ~Has(n, a)
       PROVE  Seeks(n, a) /\ <<n, current[n]>> \in S
  <2>1. OnBus(n) /\ Is(n, TooLate)' /\ Newest(n)'.addr = a
    BY <1>8, <1>14 DEF Has
  <2>2. current[n] > 0 /\ Newest(n).addr = a
    BY <1>3, <1>8, <2>1 DEF Is
  <2>3. ~Is(n, TooLate)
    BY <1>14, <2>1, <2>2 DEF Has
  <2>4. Is(n, {"waiting"}) /\ <<n, current[n]>> \in S
    BY <1>11, <2>1, <2>3
  <2>5. FilterOK(n) /\ Is(n, {"made", "waiting", "fired", "connected", "named"})
    BY <2>1, <2>4 DEF IInv, TimersOK, Crossed, Is
  <2>6. Pursues(n, a)
    BY <2>2, <2>4 DEF Pursues, Is
  <2> QED BY <2>1, <2>2, <2>3, <2>4, <2>5, <2>6 DEF FilterOK, Seeks
<1>15. ASSUME NEW n \in Nodes \ Crossed, NEW a \in Addresses, Has(n, a)
       PROVE  Is(n, {"done"})
  <2>1. Is(n, TooLate) /\ current[n] \in DOMAIN timers[n]
    BY <1>8, <1>15 DEF Has, Is
  <2> QED BY <1>1, <2>1 DEF Is, TooLate, Quiet, Newest
<1>16. ASSUME NEW n \in Nodes \ Crossed, NEW m \in Nodes \ Unsure, NEW a \in Addresses,
              n # m, Has(n, a)', ~Has(n, a)
       PROVE  ~Has(m, a)
  <2> SUFFICES ASSUME Has(m, a) PROVE FALSE
    OBVIOUS
  <2>1. Seeks(n, a) /\ Is(m, {"done"})
    BY <1>14, <1>15, <1>16 DEF Unsure
  <2>2. RivalOK(n, m)
    BY <1>16 DEF IInv, AnswersOK
  <2> QED BY <1>13, <2>1, <2>2 DEF RivalOK, Unsure
<1>17. ASSUME NEW n \in Nodes \ Crossed, NEW a \in Held
       PROVE  ~Has(n, a)'
  <2> SUFFICES ASSUME Has(n, a)' PROVE FALSE
    OBVIOUS
  <2>1. a \in Addresses /\ ~Has(n, a)
    BY AddressFacts DEF IInv, ClaimsOK
  <2>2. Seeks(n, a) /\ ~Told(n, a) /\ asked = {}
    BY <1>1, <1>13, <1>14, <2>1 DEF Quiet
  <2> QED BY <2>2 DEF IInv, AnswersOK, HeldOK
<1>18. ASSUME NEW n \in Nodes \ Unsure, NEW m \in Nodes \ Unsure, NEW a \in Addresses,
              n # m, Has(n, a)', Has(m, a)'
       PROVE  {n, m} \in together'
  <2>1. CASE Has(n, a) /\ Has(m, a)
    BY <1>7, <1>18, <2>1 DEF IInv, ClaimsOK, Remembers
  <2>2. CASE ~Has(n, a) /\ ~Has(m, a)
    <3>1. <<n, current[n]>> \in S /\ <<m, current[m]>> \in S
      BY <1>14, <1>18, <2>2 DEF Unsure
    <3>2. \E p, q \in S : p[1] # q[1] /\ {n, m} = {p[1], q[1]}
      BY <1>18, <3>1
    <3> QED BY <1>2, <3>2
  <2> QED BY <1>16, <1>18, <2>1, <2>2 DEF Unsure
<1>19. ClaimsOK'
  BY <1>7, <1>17, <1>18 DEF ClaimsOK
<1> QED BY <1>6, <1>9, <1>10, <1>12, <1>19 DEF IInv

LEMMA AnswersStepPreserves ==
    ASSUME IInv, NEW a \in Held, Answers(a)
    PROVE  IInv'
<1>1. Simple /\ a \in Addresses
  BY AddressFacts DEF IInv
<1>2. /\ asked' = asked \ {a}
      /\ rx' = [m \in Nodes |-> IF OnBus(m) THEN Append(rx[m], Claim(a)) ELSE rx[m]]
      /\ \A k \in Nodes : Untouched(k)
      /\ UNCHANGED <<main, recv, timers, current, is_connected, node_addr, taken, filters>>
      /\ UNCHANGED <<early, tardy, together, refused>>
  BY DEF Answers, threads, shared, history, Untouched
<1>3. ASSUME NEW k \in Nodes
      PROVE  /\ rx'[k] \in Seq(ValidFrames) /\ ToSet(rx[k]) \subseteq ToSet(rx'[k])
             /\ OnBus(k) => Claim(a) \in ToSet(rx'[k])
  <2>1. rx[k] \in Seq(ValidFrames) /\ Claim(a) \in ValidFrames
    BY <1>1, FrameFacts DEF Simple
  <2>2. /\ Append(rx[k], Claim(a)) \in Seq(ValidFrames)
        /\ ToSet(Append(rx[k], Claim(a))) = ToSet(rx[k]) \cup {Claim(a)}
    BY <2>1, AppendSet
  <2> QED BY <1>2, <2>1, <2>2
<1>4. Simple'
  <2>1. rx' \in [Nodes -> Seq(ValidFrames)]
    BY <1>2, <1>3
  <2> QED BY <1>1, <1>2, <2>1 DEF Simple
<1>5. Remembers /\ Crossed' = Crossed
  BY <1>2 DEF Remembers, Crossed
<1>6. PlacesOK' /\ TimersOK'
  BY <1>2, UntouchedFacts DEF IInv, PlacesOK, TimersOK
<1>7. \A k \in Nodes : /\ OnBus(k)' <=> OnBus(k)
                       /\ \A b : Seeks(k, b)' <=> Seeks(k, b)
                       /\ \A b : Has(k, b)' <=> Has(k, b)
                       /\ Is(k, {"done"})' <=> Is(k, {"done"})
  BY <1>2, UntouchedFacts
<1>8. Heeds
  BY <1>2, <1>3 DEF Heeds, Told
<1>9. Asks /\ Announced
  <2>1. Asks
    BY <1>7 DEF Asks
  <2>2. Announced
    BY <1>7 DEF Announced
  <2> QED BY <2>1, <2>2
<1>10. DeviceReplies
  BY <1>2, <1>3, <1>7 DEF DeviceReplies, TellsAll, Tells
<1>11. NodesReply
  BY <1>3 DEF NodesReply
<1>12. AnswersOK'
  BY <1>5, <1>8, <1>9, <1>10, <1>11, AnswersPreserved
<1>13. ClaimsOK'
  <2>1. \A n \in Nodes, b \in Addresses : n \notin Crossed' /\ Has(n, b)' => Has(n, b)
    BY <1>7
  <2> QED BY <1>5, <2>1, ClaimsPreserved
<1> QED BY <1>4, <1>6, <1>12, <1>13 DEF IInv

(***************************************************************************)
(* The invariant is inductive                                              *)
(***************************************************************************)
LEMMA InitEstablishes ==
    ASSUME Init
    PROVE  IInv
<1>1. Simple
  <2>1. Claim(0) \in ValidFrames /\ <<>> \in Seq(TimerType) /\ <<>> \in Seq(ValidFrames)
    BY AddressFacts, FrameFacts
  <2>2. [at |-> "idle", frame |-> Claim(0)] \in
           [at : {"idle", "taken", "send", "create", "start"}, frame : ValidFrames]
    BY <2>1
  <2>3. recv \in [Nodes -> [at : {"idle", "taken", "send", "create", "start"},
                            frame : ValidFrames]]
    BY <2>2 DEF Init
  <2>4. timers \in [Nodes -> Seq(TimerType)] /\ rx \in [Nodes -> Seq(ValidFrames)]
    BY <2>1 DEF Init
  <2> QED BY <2>3, <2>4 DEF Init, Simple, Places
<1>2. ASSUME NEW n \in Nodes
      PROVE  /\ main[n] = "new" /\ recv[n].at = "idle" /\ timers[n] = <<>> /\ current[n] = 0
             /\ ~is_connected[n] /\ node_addr[n] = None /\ filters[n] = {} /\ ~OnBus(n)
             /\ DOMAIN timers[n] = {} /\ Len(timers[n]) = 0
  <2>1. timers[n] = <<>>
    BY DEF Init
  <2>2. DOMAIN timers[n] = {} /\ Len(timers[n]) = 0
    BY <2>1
  <2> QED BY <2>1, <2>2 DEF Init, OnBus
<1>3. \A n \in Nodes : \A S : ~Is(n, S)
  BY <1>2 DEF Is
<1>4. PlacesOK
  BY <1>2 DEF PlacesOK, PlaceOK
<1>5. TimersOK
  BY <1>2, <1>3 DEF TimersOK, TimerOK
<1>6. AnswersOK /\ ClaimsOK
  BY <1>2 DEF AnswersOK, HeldOK, RivalOK, ClaimsOK, Seeks, Has, Unsure
<1> QED BY <1>1, <1>4, <1>5, <1>6 DEF IInv

LEMMA NextPreserves ==
    ASSUME IInv, [Next]_vars
    PROVE  IInv'
<1>1. CASE UNCHANGED vars
  BY <1>1, StutterPreserves
<1>2. ASSUME NEW n \in Nodes, Main(n) PROVE IInv'
  <2>1. CASE MainSends(n)
    BY <2>1, MainSendsPreserves, MainRefusedPreserves DEF MainSends
  <2> QED BY <1>2, <2>1, MainCreatesPreserves, MainStartsPreserves, MainEndsPreserves
          DEF Main
<1>3. ASSUME NEW n \in Nodes, Receive(n) PROVE IInv'
  <2>1. CASE RecvSends(n)
    <3> DEFINE free == Addresses \ taken[n]
               a == CHOOSE x \in free : \A y \in free : x <= y
    <3>1. a \in Addresses
      <4>1. recv[n].at = "send" /\ PlaceOK(n)
        BY <2>1 DEF RecvSends, IInv, PlacesOK
      <4>2. ~(Addresses \subseteq taken[n])
        BY <4>1 DEF PlaceOK, Full
      <4> QED BY <4>2, NextAddress
    <3>2. /\ recv[n].at = "send"
          /\ \/ /\ recv' = [recv EXCEPT ![n] = [at |-> "create", frame |-> Discovery(a)]]
                /\ SendDiscovery(n, a)
             \/ RecvGoes(n, "idle") /\ DiscoveryRaises(n, a)
          /\ UNCHANGED <<main, history>>
      BY <2>1 DEF RecvSends
    <3> HIDE DEF free, a
    <3> QED BY <3>1, <3>2, RecvSendsPreserves, RecvRefusedPreserves
  <2> QED BY <1>3, <2>1, HandleMessagePreserves, GivesUpPreserves,
             RecvCreatesPreserves, RecvStartsPreserves DEF Receive
<1>4. ASSUME NEW n \in Nodes, Timer(n) PROVE IInv'
  BY <1>4, ConnectsPreserves, NamesItselfPreserves, AnnouncesPreserves DEF Timer
<1>5. ASSUME NEW n \in Nodes, Disconnect(n) PROVE IInv'
  BY <1>5, DisconnectPreserves
<1>6. CASE Fire
  BY <1>6, FirePreserves
<1>7. ASSUME NEW a \in Held, Answers(a) PROVE IInv'
  BY <1>7, AnswersStepPreserves
<1> QED BY <1>1, <1>2, <1>3, <1>4, <1>5, <1>6, <1>7 DEF Next

\* The newest timer of a node is its claim, unless its handler gave up too late;
\* who seeks an address that is owned has his question or its answer on the way.
THEOREM ClaimInvariant == Spec => []IInv
<1>1. Init => IInv
  BY InitEstablishes
<1>2. IInv /\ [Next]_vars => IInv'
  BY NextPreserves
<1> QED BY <1>1, <1>2, PTL DEF Spec

(***************************************************************************)
(* What it says of the program                                             *)
(***************************************************************************)
\* Every variable keeps its type, and start() and cancel() in _negotiate_address
\* and _address_claim_handler find a timer, whoever made it.
THEOREM ClaimTypeCorrect == Spec => []TypeOK
<1>1. IInv => TypeOK
  <2> SUFFICES ASSUME IInv PROVE TypeOK
    OBVIOUS
  <2>1. Simple /\ \A n \in Nodes : PlaceOK(n)
    BY DEF IInv, PlacesOK
  <2>2. \A n \in Nodes : current[n] \in Nat /\ current[n] = Len(timers[n])
    BY <2>1 DEF Simple, PlaceOK
  <2>3. ASSUME NEW n \in Nodes PROVE current[n] \in 0..Len(timers[n])
    <3>1. current[n] \in Nat /\ current[n] = Len(timers[n])
      BY <2>2
    <3> QED BY <3>1
  <2>4. \A n \in Nodes : main[n] = "start" \/ recv[n].at = "start" => current[n] > 0
    BY <2>1, CurrentFacts
  <2>5. recv \in [Nodes -> [at : {"idle", "taken", "send", "create", "start"}, frame : Frames]]
    <3>1. \A n \in Nodes : recv[n] \in [at : {"idle", "taken", "send", "create", "start"},
                                        frame : Frames]
      BY <2>1, FrameFacts DEF Simple
    <3> QED BY <2>1, <3>1 DEF Simple
  <2>6. rx \in [Nodes -> Seq(Frames)]
    <3>1. ASSUME NEW n \in Nodes PROVE rx[n] \in Seq(Frames)
      <4>1. rx[n] \in Seq(ValidFrames)
        BY <2>1 DEF Simple
      <4>2. rx[n] \in [1..Len(rx[n]) -> ValidFrames] /\ Len(rx[n]) \in Nat
        BY <4>1
      <4>3. rx[n] \in [1..Len(rx[n]) -> Frames]
        BY <4>2, FrameFacts
      <4> QED BY <4>2, <4>3
    <3> QED BY <2>1, <3>1 DEF Simple
  <2> QED BY <2>1, <2>3, <2>4, <2>5, <2>6 DEF TypeOK, Simple, Places, TimerType, FilterType
<1> QED BY <1>1, ClaimInvariant, PTL

\* An owner's claim is finished, or at least announced in node_addr.
LEMMA OwnerHas ==
    ASSUME IInv, NEW n \in Nodes \ Crossed, NEW a \in Addresses, Owns(n, a)
    PROVE  Has(n, a)
<1>1. TimerOK(n) /\ a # None
  BY AddressFacts DEF IInv, TimersOK, Crossed
<1>2. Is(n, {"named", "done"}) /\ Newest(n).addr = a
  BY <1>1 DEF Owns, TimerOK
<1> QED BY <1>2 DEF Owns, Has, Is, TooLate

\* No address of a device is taken: the device answers the discovery before the
\* claim timer runs out, and _address_claim_handler cancels it.
THEOREM HeldAddressesSafe == Spec => []HeldAddressesAreLeft
<1>1. IInv => HeldAddressesAreLeft
  BY OwnerHas, AddressFacts DEF IInv, ClaimsOK, HeldAddressesAreLeft
<1> QED BY <1>1, ClaimInvariant, PTL

\* Two clients whose frames the bus takes own one address only if their claim
\* timers ran out together: who comes later is told by the owner, whose filters
\* answer for the address.
THEOREM OneOwner == Spec => []OneOwnerPerAddress
<1>1. IInv => OneOwnerPerAddress
  <2> SUFFICES ASSUME IInv, NEW n \in Nodes, NEW m \in Nodes, NEW a \in Addresses,
                      n # m, Owns(n, a), Owns(m, a), n \notin Unsure, m \notin Unsure
               PROVE  {n, m} \in together
    BY DEF OneOwnerPerAddress, Unsure
  <2>1. Has(n, a) /\ Has(m, a)
    BY OwnerHas DEF Unsure
  <2> QED BY <2>1 DEF IInv, ClaimsOK
<1> QED BY <1>1, ClaimInvariant, PTL

\* While the bus takes the frames of the node, the constructor of ThingSetCAN times
\* out on a full bus and for no other reason: no timer is cancelled without another
\* address being tried.
THEOREM TimesOutFull == Spec => []TimesOutOnlyIfFull
<1>1. IInv => TimesOutOnlyIfFull
  BY DEF IInv, TimersOK, TimerOK, TimesOutOnlyIfFull, Full
<1> QED BY <1>1, ClaimInvariant, PTL

\* node_addr is written by the callback of a claim timer alone, and a node that has
\* its address has no timer left to run out.
LEMMA AddressStep ==
    ASSUME IInv, [Next]_vars, NEW n \in Nodes \ Crossed, node_addr[n] # None
    PROVE  node_addr'[n] = node_addr[n]
<1>1. Simple /\ TimerOK(n)
  BY DEF IInv, TimersOK, Crossed
<1>2. \A m \in Nodes : \A i \in DOMAIN timers[m] : NamesItself(m, i) => m # n
  <2> SUFFICES ASSUME NEW i \in DOMAIN timers[n], NamesItself(n, i) PROVE FALSE
    OBVIOUS
  <2>1. Is(n, {"named", "done"}) /\ timers[n][i].state = "connected"
    BY <1>1 DEF TimerOK, NamesItself, CompleteGoes
  <2> QED BY <1>1, <2>1 DEF TimerOK, Is, Newest, Dead
<1>3. ASSUME NEW m \in Nodes, NEW i \in DOMAIN timers[m], NamesItself(m, i)
      PROVE  node_addr'[n] = node_addr[n]
  BY <1>1, <1>2, <1>3 DEF NamesItself, Simple
<1>4. ASSUME NEW m \in Nodes, Main(m) \/ Disconnect(m) PROVE node_addr' = node_addr
  BY <1>4 DEF Main, MainSends, MainCreates, MainStarts, MainReturns, MainTimesOut, Disconnect,
              SendDiscovery, DiscoveryRaises, Listen, CreateTimer, StartTimer, StartRaises,
              shared
<1>5. ASSUME NEW m \in Nodes, Receive(m) PROVE node_addr' = node_addr
  BY <1>5 DEF Receive, HandleMessage, GivesUp, RecvSends, RecvCreates, RecvStarts,
              SendDiscovery, DiscoveryRaises, Listen, CreateTimer, StartTimer, StartRaises,
              shared
<1>6. ASSUME NEW m \in Nodes, Timer(m) PROVE node_addr'[n] = node_addr[n]
  BY <1>3, <1>6 DEF Timer, Connects, Announces
<1>7. CASE Fire
  BY <1>7 DEF Fire, shared
<1>8. ASSUME NEW a \in Held, Answers(a) PROVE node_addr' = node_addr
  BY <1>8 DEF Answers, shared
<1>9. CASE UNCHANGED vars
  BY <1>9 DEF vars, shared
<1> QED BY <1>4, <1>5, <1>6, <1>7, <1>8, <1>9 DEF Next

\* The address that the application was given stays: no callback of an older timer
\* is still to come.
THEOREM AddressKept == Spec => AddressIsKept
<1>1. IInv /\ [Next]_vars =>
        [\A n \in Nodes :
            /\ main[n] = "ready" /\ main'[n] = "ready"
            /\ node_addr[n] # None /\ node_addr'[n] # node_addr[n]
            => n \in Crossed]_vars
  BY AddressStep
<1> QED BY <1>1, ClaimInvariant, PTL DEF Spec, AddressIsKept
=============================================================================
