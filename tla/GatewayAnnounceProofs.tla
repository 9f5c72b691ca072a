------------------------- MODULE GatewayAnnounceProofs -------------------------
(***************************************************************************)
(* Theorems about GatewayAnnounce for every time to live, tick, announce   *)
(* interval, clock offset and network delay.  Those about the gateway come *)
(* from GatewayRegistryProofs.                                             *)
(***************************************************************************)
EXTENDS GatewayAnnounce, FiniteSetTheorems, TLAPS

R == INSTANCE GatewayRegistryProofs
       WITH Agents <- {}, Worlds <- {World}, Contents <- {Card}, MaxAgents <- 1,
            Stamps <- -MaxSkew .. MaxSkew

--------------------------------------------------------------------------------
(* The gateway is a GatewayRegistry *)

\* The instance of the proofs is the instance of the model.
LEMMA SameInit == G!Init <=> R!Init
BY DEF G!Init, R!Init, G!Empty, R!Empty, G!Ids, R!Ids

LEMMA SameAnnounce ==
  ASSUME NEW stamp, G!AnnounceWorld(World, Card, stamp)
  PROVE  R!AnnounceWorld(World, Card, stamp)
BY DEF G!AnnounceWorld, R!AnnounceWorld, G!Serving, R!Serving, G!Later, R!Later,
       G!Changed, R!Changed, G!Persist, R!Persist

LEMMA SameHeartbeat == G!Heartbeat(World) => R!Heartbeat(World)
BY DEF G!Heartbeat, R!Heartbeat, G!Serving, R!Serving

LEMMA SameWrites ==
  ASSUME NEW o
  PROVE  /\ G!Deregister(World, o) => R!Deregister(World, o)
         /\ G!SaveFires(o) => R!SaveFires(o)
         /\ G!Stop(o) => R!Stop(o)
BY DEF G!Deregister, R!Deregister, G!SaveFires, R!SaveFires, G!Stop, R!Stop,
       G!Flush, R!Flush, G!Write, R!Write, G!Written, R!Written, G!Serving, R!Serving,
       G!Ids, R!Ids

LEMMA SameTick ==
  ASSUME NEW os, G!TickFires(os)
  PROVE  R!TickFires(os)
BY DEF G!TickFires, R!TickFires, G!TickDue, R!TickDue, G!SnapshotDue, R!SnapshotDue,
       G!Pruned, R!Pruned, G!Written, R!Written, G!Ids, R!Ids

LEMMA SameTime ==
  /\ G!Advance => R!Advance
  /\ G!Start => R!Start
  /\ G!Exit => R!Exit
  /\ G!Crash => R!Crash
BY DEF G!Advance, R!Advance, G!Start, R!Start, G!Exit, R!Exit, G!Crash, R!Crash,
       G!Gone, R!Gone, G!Older, R!Older, G!Loaded, R!Loaded, G!Empty, R!Empty,
       G!Serving, R!Serving, G!TickDue, R!TickDue, G!Ids, R!Ids

LEMMA SameNext ==
  ASSUME [G!Next]_(G!vars)
  PROVE  [R!Next]_(R!vars)
<1>1. CASE UNCHANGED G!vars
  BY <1>1 DEF G!vars, R!vars
<1>2. CASE \E w \in {World}, c \in {Card}, t \in -MaxSkew .. MaxSkew : G!AnnounceWorld(w, c, t)
  BY <1>2, SameAnnounce DEF R!Next
<1>3. CASE \E id \in G!Ids : G!Heartbeat(id) \/ \E o \in G!Outcomes : G!Deregister(id, o)
  <2>1. R!Ids = {World} /\ G!Ids = {World} /\ G!Outcomes = R!Outcomes
    BY DEF R!Ids, G!Ids, R!Outcomes, G!Outcomes
  <2> QED BY <1>3, <2>1, SameHeartbeat, SameWrites DEF R!Next
<1>4. CASE \E o \in G!Outcomes : G!SaveFires(o) \/ G!Stop(o)
  BY <1>4, SameWrites DEF R!Next, R!Outcomes, G!Outcomes
<1>5. CASE \E os \in [1 .. 3 -> G!Outcomes] : G!TickFires(os)
  BY <1>5, SameTick DEF R!Next, R!Outcomes, G!Outcomes
<1>6. CASE G!Advance \/ G!Start \/ G!Exit \/ G!Crash
  BY <1>6, SameTime DEF R!Next
<1> QED BY <1>1, <1>2, <1>3, <1>4, <1>5, <1>6 DEF G!Next

\* Every step is one of the registry or leaves the gateway alone.
LEMMA StepRuns ==
  ASSUME [Next]_vars
  PROVE  [G!Next]_(G!vars)
<1>1. CASE \E m \in net : DeliverAnnounce(m)
  BY <1>1 DEF DeliverAnnounce, Accepted, G!Next
<1>2. CASE \E m \in net : DeliverHeartbeat(m)
  BY <1>2 DEF DeliverHeartbeat, G!Next, G!Ids
<1>3. CASE \E o \in G!Outcomes : Deregister(o) \/ SaveFires(o) \/ Stop(o)
  BY <1>3 DEF Deregister, SaveFires, Stop, G!Next, G!Ids
<1>4. CASE \E os \in [1 .. 3 -> G!Outcomes] : TickFires(os)
  BY <1>4 DEF TickFires, G!Next
<1>5. CASE Exit \/ Crash \/ Start \/ Advance
  BY <1>5 DEF Exit, Crash, Start, Advance, G!Next
<1>6. CASE Begin \/ Cease \/ (\E t \in {"startup", "announce", "heartbeat"} : Fire(t))
           \/ (\E m \in net : RefuseHeartbeat(m) \/ Lose(m)) \/ UNCHANGED vars
  BY <1>6 DEF Begin, Cease, Fire, RefuseHeartbeat, Lose, vars, gateway, G!vars
<1> QED BY <1>1, <1>2, <1>3, <1>4, <1>5, <1>6 DEF Next

LEMMA Runs == Spec => G!Spec
<1>1. Init => G!Init
  BY DEF Init
<1>2. [Next]_vars => [G!Next]_(G!vars)
  BY StepRuns
<1> QED BY <1>1, <1>2, PTL DEF Spec, G!Spec

\* What GatewayRegistry assumes of its constants.
LEMMA RegistryAssumptions ==
  /\ R!IsFiniteSet(R!Ids) /\ {} \cap {World} = {}
  /\ 1 \in Nat \ {0}
  /\ Ttl \in Nat /\ TickPeriod \in Nat \ {0}
  /\ -MaxSkew .. MaxSkew \subseteq Int
  /\ NoRecord \notin R!Records
<1>1. R!IsFiniteSet(R!Ids)
  <2>1. R!Ids = {World}
    BY DEF R!Ids
  <2>2. IsFiniteSet(R!Ids)
    BY <2>1, FS_Singleton
  <2> QED BY <2>2 DEF IsFiniteSet, R!IsFiniteSet
<1>2. NoRecord \notin R!Records
  BY NoRecordAssumption DEF R!Records
<1> QED BY <1>1, <1>2, AnnounceAssumption

\* The registry's inductive invariant holds of an announcer's gateway.
LEMMA RegistryInvariance == Spec => []R!IInv
<1>1. G!Init => R!Init
  BY SameInit
<1>2. [G!Next]_(G!vars) => [R!Next]_(R!vars)
  BY SameNext
<1>3. G!Spec => R!Spec
  BY <1>1, <1>2, PTL DEF G!Spec, R!Spec
<1> QED BY <1>3, Runs, RegistryAssumptions, R!Invariance, PTL

--------------------------------------------------------------------------------
(* What a step does to the world's record *)

Rec == mem[World]

\* What is needed of the registry.
Registered ==
  /\ mem \in [{World} -> [age : Int, content : {Card}] \cup {NoRecord}]
  /\ phase = "down" => ~Listed

LEMMA RegisteredHere ==
  ASSUME R!IInv
  PROVE  Registered
<1>1. R!Ids = {World}
  BY DEF R!Ids
<1>2. mem \in [{World} -> [age : Int, content : {Card}] \cup {NoRecord}]
  BY <1>1 DEF R!IInv, R!TypeOK, R!Registries, R!Records
<1>3. phase = "down" => mem[World] = NoRecord
  BY <1>1 DEF R!IInv, R!Reasons, R!Empty
<1> QED BY <1>2, <1>3 DEF Registered, Listed

LEMMA Ageing ==
  ASSUME Registered, Listed
  PROVE  Rec.age \in Int
BY DEF Registered, Listed, Rec

LEMMA AnnounceEffect ==
  ASSUME Registered, NEW stamp \in Int, G!AnnounceWorld(World, Card, stamp)
  PROVE  /\ Listed' /\ UNCHANGED <<phase, sinceTick>> /\ phase # "down"
         /\ Rec'.age <= stamp
         /\ Listed => Rec'.age <= Rec.age
<1> DEFINE new == [age |-> G!Later(mem[World], stamp), content |-> Card]
<1>1. mem' = [mem EXCEPT ![World] = new] /\ UNCHANGED <<phase, sinceTick>> /\ phase # "down"
  BY DEF G!AnnounceWorld, G!Serving
<1>2. Rec' = new
  BY <1>1 DEF Registered, Rec
<1>3. new.age = G!Later(mem[World], stamp)
  OBVIOUS
<1>4. G!Later(mem[World], stamp) \in Int
  BY Ageing DEF G!Later, Rec, Listed
<1>5. new # NoRecord
  BY <1>4, NoRecordAssumption
<1>6. Listed'
  BY <1>2, <1>5 DEF Listed, Rec
<1>7. /\ G!Later(mem[World], stamp) <= stamp
      /\ Listed => G!Later(mem[World], stamp) <= Rec.age
  BY Ageing DEF G!Later, Rec, Listed
<1> QED BY <1>1, <1>2, <1>3, <1>6, <1>7

LEMMA HeartbeatEffect ==
  ASSUME Registered, G!Heartbeat(World)
  PROVE  Listed' /\ Rec'.age = 0 /\ UNCHANGED <<phase, sinceTick>>
<1>1. mem' = [mem EXCEPT ![World] = [age |-> 0, content |-> mem[World].content]]
      /\ UNCHANGED <<phase, sinceTick>> /\ Listed
  BY DEF G!Heartbeat, Listed
<1>2. Rec' = [age |-> 0, content |-> mem[World].content] /\ mem[World].content = Card
  BY <1>1 DEF Registered, Rec, Listed
<1>3. Rec' # NoRecord
  BY <1>2, NoRecordAssumption
<1> QED BY <1>1, <1>2, <1>3 DEF Listed, Rec

\* The tick keeps the record unless it is too old.
LEMMA TickEffect ==
  ASSUME Registered, NEW os, G!TickFires(os)
  PROVE  /\ UNCHANGED phase
         /\ Rec' = Rec \/ (~Listed' /\ Rec.age > Ttl)
<1> DEFINE m1 == G!Pruned(mem, {})
<1>1. mem' = G!Pruned(m1, {World}) /\ UNCHANGED phase
  BY DEF G!TickFires
<1>2. World \in G!Ids
  BY DEF G!Ids
<1>3. m1[World] = mem[World]
  BY <1>2 DEF G!Pruned
<1>4. mem'[World] = IF m1[World] # NoRecord /\ m1[World].age > Ttl THEN NoRecord ELSE m1[World]
  <2> HIDE DEF m1
  <2> QED BY <1>1, <1>2 DEF G!Pruned
<1> HIDE DEF m1
<1> QED BY <1>1, <1>3, <1>4 DEF Rec, Listed

LEMMA AdvanceEffect ==
  ASSUME Registered, G!Advance
  PROVE  /\ (Listed' <=> Listed) /\ UNCHANGED phase
         /\ Listed => Rec'.age <= Rec.age + 1
<1>1. mem' = G!Older(mem) /\ World \in G!Ids /\ UNCHANGED phase
  BY DEF G!Advance, G!Ids
<1>2. mem'[World] =
        IF mem[World] = NoRecord \/ mem[World].age > Ttl + TickPeriod
          THEN mem[World] ELSE [age |-> mem[World].age + 1, content |-> mem[World].content]
  BY <1>1 DEF G!Older
<1>3. CASE ~Listed
  BY <1>1, <1>2, <1>3 DEF Listed
<1>4. CASE Listed
  <2>1. /\ mem[World].age \in Int /\ mem[World].content = Card
        /\ [age |-> mem[World].age + 1, content |-> mem[World].content] # NoRecord
    BY <1>4, NoRecordAssumption DEF Registered, Listed
  <2> QED BY <1>1, <1>2, <1>4, <2>1 DEF Listed, Rec
<1> QED BY <1>3, <1>4

--------------------------------------------------------------------------------
(* The inductive invariant *)

OwnTypes ==
  /\ timers \in {{}, {"announce", "heartbeat"}}
  /\ due \subseteq timers \cup {"startup"}
  /\ sinceAnnounce \in 0 .. AnnouncePeriod - 1
  /\ ahead \in Offsets
  /\ net \subseteq Requests
  /\ contact \in 0 .. Ttl + 1 /\ lossless \in BOOLEAN
  /\ gap \in 0 .. 2 /\ (ahead >= -Ttl => gap <= 1)

\* A record is never older than the last contact by it.
Heard ==
  /\ Listed /\ contact <= Ttl => Rec.age <= contact
  /\ ~Listed => contact = Ttl + 1

\* After a unit in which the world was not listed although every request was
\* answered, its heartbeat is due, on its way or answered with 404, or has found
\* the world listed again; unless a request was lost.
BeatComes ==
  gap = 1 /\ ahead >= -Ttl /\ lossless /\ Alive =>
    \/ "heartbeat" \in due
    \/ Request("heartbeat") \in net
    \/ Request("announce") \in net
    \/ Listed /\ Rec.age <= Ttl

IInv == OwnTypes /\ Heard /\ BeatComes

LEMMA InitIInv ==
  ASSUME Init
  PROVE  IInv
<1>1. ~Listed
  <2>1. World \in G!Ids
    BY DEF G!Ids
  <2> QED BY <2>1 DEF Init, G!Init, G!Empty, Listed
<1>2. 0 \in 0 .. AnnouncePeriod - 1 /\ Ttl + 1 \in 0 .. Ttl + 1 /\ 0 \in 0 .. 2
  BY AnnounceAssumption
<1>3. OwnTypes
  BY <1>2 DEF Init, OwnTypes
<1> QED BY <1>1, <1>3 DEF Init, IInv, Heard, BeatComes

LEMMA RequestTyped ==
  ASSUME NEW kind \in {"announce", "heartbeat"}
  PROVE  Request(kind) \in Requests /\ Request(kind).kind = kind
BY AnnounceAssumption DEF Request, Requests

\* A request of age 0 is one that was just sent.
LEMMA JustSent ==
  ASSUME NEW m \in Requests
  PROVE  /\ m.kind \in {"announce", "heartbeat"} /\ m.age \in 0 .. MaxDelay
         /\ m = Request(m.kind) <=> m.age = 0
BY DEF Request, Requests

\* Steps of the announcer that leave the gateway alone.
LEMMA BeginCeaseIInv ==
  ASSUME IInv, Begin \/ Cease
  PROVE  IInv'
<1>1. UNCHANGED <<mem, ahead, net, contact, lossless>>
  BY DEF Begin, Cease, gateway, history
<1>2. CASE Begin
  <2>1. /\ timers' = {"announce", "heartbeat"} /\ due' = {"startup"}
        /\ sinceAnnounce' = 0 /\ gap' = 0
    BY <1>2 DEF Begin
  <2>2. OwnTypes'
    BY <1>1, <2>1, AnnounceAssumption DEF IInv, OwnTypes
  <2> QED BY <1>1, <2>1, <2>2 DEF IInv, Heard, BeatComes, Listed, Rec
<1>3. CASE Cease
  <2>1. timers' = {} /\ due' = {} /\ UNCHANGED <<sinceAnnounce, gap>>
    BY <1>3 DEF Cease, Cleared, history
  <2>2. OwnTypes'
    BY <1>1, <2>1 DEF IInv, OwnTypes
  <2> QED BY <1>1, <2>1, <2>2 DEF IInv, Heard, BeatComes, Listed, Rec, Alive
<1> QED BY <1>2, <1>3

LEMMA FireIInv ==
  ASSUME IInv, NEW t \in {"startup", "announce", "heartbeat"}, Fire(t)
  PROVE  IInv'
<1>1. /\ due' = due \ {t} /\ net' = net \cup {Request(Sends(t))}
      /\ UNCHANGED <<mem, timers, sinceAnnounce, ahead, contact, lossless, gap>>
  BY DEF Fire, gateway, history
<1>2. Request(Sends(t)) \in Requests
  BY RequestTyped DEF Sends
<1>3. t = "heartbeat" => Request("heartbeat") \in net'
  BY <1>1 DEF Sends
<1>4. OwnTypes'
  BY <1>1, <1>2 DEF IInv, OwnTypes
<1> QED BY <1>1, <1>3, <1>4 DEF IInv, Heard, BeatComes, Listed, Rec, Alive

\* A request that is taken from the net and leaves the world listed, as live as it
\* was, or live if it was sent in this unit.
LEMMA TakenIInv ==
  ASSUME IInv, NEW m \in net, Taken(m), Listed',
         ahead >= -Ttl /\ (m.age = 0 \/ (Listed /\ Rec.age <= Ttl)) => Rec'.age <= Ttl,
         contact' \in 0 .. Ttl + 1, contact' <= Ttl => Rec'.age <= contact'
  PROVE  IInv'
<1>1. net' = net \ {m} /\ UNCHANGED <<timers, due, sinceAnnounce, ahead, lossless, gap>>
  BY DEF Taken
<1>2. OwnTypes'
  BY <1>1 DEF IInv, OwnTypes
<1>3. Heard'
  BY DEF Heard
<1>4. BeatComes'
  <2>1. SUFFICES ASSUME gap = 1, ahead >= -Ttl, lossless, Alive,
                        m.age # 0, ~(Listed /\ Rec.age <= Ttl)
                 PROVE  BeatComes'
    BY <1>1 DEF BeatComes, Alive
  <2>2. m # Request("heartbeat") /\ m # Request("announce")
    BY <2>1 DEF Request
  <2>3. \/ "heartbeat" \in due
        \/ Request("heartbeat") \in net
        \/ Request("announce") \in net
    BY <2>1 DEF IInv, BeatComes
  <2> QED BY <1>1, <2>2, <2>3 DEF BeatComes
<1> QED BY <1>2, <1>3, <1>4 DEF IInv

LEMMA DeliverAnnounceIInv ==
  ASSUME IInv, Registered, Registered', NEW m \in net, DeliverAnnounce(m)
  PROVE  IInv'
<1> DEFINE heard == IF Stamp(m) > 0 THEN Stamp(m) ELSE 0
<1>1. /\ Taken(m) /\ Stamp(m) \in -MaxSkew .. MaxSkew
      /\ contact' = IF contact < heard THEN contact ELSE heard
  BY DEF DeliverAnnounce, Accepted
<1>2. /\ Stamp(m) \in Int /\ heard \in Nat /\ Stamp(m) <= heard
      /\ Ttl \in Nat /\ contact \in 0 .. Ttl + 1
  BY <1>1, AnnounceAssumption DEF IInv, OwnTypes
<1>3. /\ Listed' /\ Rec'.age <= Stamp(m)
      /\ Listed => Rec'.age <= Rec.age
  BY <1>2, AnnounceEffect DEF DeliverAnnounce
<1>4. Rec'.age \in Int /\ (Listed => Rec.age \in Int)
  BY <1>3, Ageing DEF Registered, Listed, Rec
<1> HIDE DEF heard
<1>5. ASSUME ahead >= -Ttl, m.age = 0 \/ (Listed /\ Rec.age <= Ttl)
      PROVE  Rec'.age <= Ttl
  <2>1. CASE m.age = 0
    <3>1. ahead \in Int
      BY AnnounceAssumption DEF IInv, OwnTypes
    <3>2. Stamp(m) = 0 - ahead
      BY <2>1 DEF Stamp
    <3> QED BY <1>2, <1>3, <1>4, <1>5, <3>1, <3>2
  <2>2. CASE Listed /\ Rec.age <= Ttl
    BY <1>2, <1>3, <1>4, <2>2
  <2> QED BY <1>5, <2>1, <2>2
<1>6. contact' \in 0 .. Ttl + 1
  BY <1>1, <1>2
<1>7. contact' <= Ttl => Rec'.age <= contact'
  <2>1. CASE contact < heard /\ contact <= Ttl
    <3>1. Listed
      BY <1>2, <2>1 DEF IInv, Heard
    <3>2. Rec.age <= contact /\ Rec.age \in Int
      BY <2>1, <3>1, Ageing DEF IInv, Heard
    <3> QED BY <1>1, <1>2, <1>3, <1>4, <2>1, <3>1, <3>2
  <2>2. CASE contact < heard /\ ~(contact <= Ttl)
    BY <1>1, <2>2
  <2>3. CASE ~(contact < heard)
    BY <1>1, <1>2, <1>3, <1>4, <2>3
  <2> QED BY <2>1, <2>2, <2>3
<1> QED BY <1>1, <1>3, <1>5, <1>6, <1>7, TakenIInv

LEMMA DeliverHeartbeatIInv ==
  ASSUME IInv, Registered, NEW m \in net, DeliverHeartbeat(m)
  PROVE  IInv'
<1>1. Taken(m) /\ contact' = 0 /\ Listed' /\ Rec'.age = 0
  BY HeartbeatEffect DEF DeliverHeartbeat
<1>2. Rec'.age <= Ttl /\ contact' \in 0 .. Ttl + 1 /\ Rec'.age <= contact'
  BY <1>1, AnnounceAssumption
<1> QED BY <1>1, <1>2, TakenIInv

\* A heartbeat of this unit that is answered with 404 is followed by an announce.
LEMMA RefuseIInv ==
  ASSUME IInv, NEW m \in net, RefuseHeartbeat(m)
  PROVE  IInv'
<1>1. /\ net' = (net \ {m}) \cup (IF m.age = 0 THEN {Request("announce")} ELSE {})
      /\ m.kind = "heartbeat"
      /\ UNCHANGED <<mem, timers, due, sinceAnnounce, ahead, contact, lossless, gap>>
  BY DEF RefuseHeartbeat, Reannounces, gateway, history
<1>2. m \in Requests
  BY DEF IInv, OwnTypes
<1>3. OwnTypes'
  BY <1>1, RequestTyped DEF IInv, OwnTypes
<1>4. Request("heartbeat") \in net => Request("heartbeat") \in net' \/ Request("announce") \in net'
  BY <1>1, <1>2, JustSent
<1>5. Request("announce") \in net => Request("announce") \in net'
  BY <1>1, RequestTyped
<1> QED BY <1>1, <1>3, <1>4, <1>5 DEF IInv, Heard, BeatComes, Listed, Rec, Alive

LEMMA LoseIInv ==
  ASSUME IInv, NEW m \in net, Lose(m)
  PROVE  IInv'
<1>1. /\ net' = net \ {m} /\ lossless' = FALSE
      /\ UNCHANGED <<mem, timers, due, sinceAnnounce, ahead, contact, gap>>
  BY DEF Lose, gateway
<1>2. OwnTypes'
  BY <1>1 DEF IInv, OwnTypes
<1> QED BY <1>1, <1>2 DEF IInv, Heard, BeatComes, Listed, Rec

\* Steps after which the gateway does not remember the last contact.
LEMMA ForgetsIInv ==
  ASSUME IInv, Forgets
  PROVE  IInv'
<1>1. /\ contact' = Ttl + 1 /\ gap' = 0
      /\ UNCHANGED <<timers, due, sinceAnnounce, ahead, net, lossless>>
  BY DEF Forgets, announcer
<1>2. OwnTypes'
  BY <1>1, AnnounceAssumption DEF IInv, OwnTypes
<1>3. ~(contact' <= Ttl)
  BY <1>1, AnnounceAssumption
<1> QED BY <1>1, <1>2, <1>3 DEF IInv, Heard, BeatComes

LEMMA WritesIInv ==
  ASSUME IInv, Registered,
         \/ \E o \in G!Outcomes : SaveFires(o)
         \/ \E os \in [1 .. 3 -> G!Outcomes] : TickFires(os)
  PROVE  IInv'
<1>1. UNCHANGED <<timers, due, sinceAnnounce, ahead, net, contact, lossless, gap>>
  BY DEF SaveFires, TickFires, announcer, history
<1>2. Rec' = Rec \/ (~Listed' /\ Rec.age > Ttl)
  BY TickEffect DEF SaveFires, TickFires, G!SaveFires, Rec
<1>3. OwnTypes'
  BY <1>1 DEF IInv, OwnTypes
<1>4. CASE Rec' = Rec
  <2>1. Listed' <=> Listed
    BY <1>4 DEF Listed, Rec
  <2> QED BY <1>1, <1>3, <1>4, <2>1 DEF IInv, Heard, BeatComes, Alive
<1>5. CASE ~Listed' /\ Rec.age > Ttl
  <2>1. contact \in 0 .. Ttl + 1 /\ Ttl \in Nat
    BY AnnounceAssumption DEF IInv, OwnTypes
  <2>2. Listed => Rec.age \in Int
    BY Ageing
  <2>3. contact = Ttl + 1 /\ ~(Listed /\ Rec.age <= Ttl)
    BY <1>5, <2>1, <2>2 DEF IInv, Heard
  <2> QED BY <1>1, <1>3, <1>5, <2>3 DEF IInv, Heard, BeatComes, Alive
<1> QED BY <1>2, <1>4, <1>5

LEMMA AdvanceIInv ==
  ASSUME IInv, Registered, Registered', Advance
  PROVE  IInv'
<1> DEFINE n == sinceAnnounce + 1
<1>1. /\ due = {} /\ G!Advance
      /\ due' = {t \in timers : t = "announce" => IntervalOver(n)}
      /\ sinceAnnounce' = IF IntervalOver(n) \/ ~Alive THEN 0 ELSE n
      /\ net' = {[m EXCEPT !.age = m.age + 1] : m \in {x \in net : x.age < MaxDelay}}
      /\ contact' = IF contact > Ttl THEN contact ELSE contact + 1
      /\ lossless' = TRUE
      /\ gap' = IF Alive /\ phase = "up" /\ ~Listed /\ lossless /\ net = {}
                  THEN (IF gap > 1 THEN gap ELSE gap + 1) ELSE 0
      /\ UNCHANGED <<timers, ahead>>
  BY DEF Advance, Answered
<1>2. /\ AnnouncePeriod \in Nat \ {0} /\ MaxDelay \in Nat /\ Ttl \in Nat
      /\ sinceAnnounce \in 0 .. AnnouncePeriod - 1 /\ contact \in 0 .. Ttl + 1
      /\ gap \in 0 .. 2 /\ (ahead >= -Ttl => gap <= 1) /\ ahead \in Int
  BY AnnounceAssumption DEF IInv, OwnTypes
<1>3. (Listed' <=> Listed) /\ (Listed => Rec'.age <= Rec.age + 1)
  BY <1>1, AdvanceEffect
<1>4. gap' \in 0 .. 2 /\ (ahead >= -Ttl => gap' <= 1)
  <2>1. gap = 1 /\ ahead >= -Ttl /\ lossless /\ Alive /\ net = {} => Listed
    BY <1>1 DEF IInv, BeatComes
  <2> QED BY <1>1, <1>2, <2>1
<1>5. OwnTypes'
  <2>1. sinceAnnounce' \in 0 .. AnnouncePeriod - 1
    BY <1>1, <1>2 DEF IntervalOver
  <2>2. net' \subseteq Requests
    <3>1. SUFFICES ASSUME NEW m \in net, m.age < MaxDelay
                   PROVE  [m EXCEPT !.age = m.age + 1] \in Requests
      BY <1>1
    <3>2. m \in Requests
      BY DEF IInv, OwnTypes
    <3>3. m.age + 1 \in 0 .. MaxDelay
      BY <1>2, <3>1, <3>2, JustSent
    <3> QED BY <3>2, <3>3 DEF Requests
  <2>3. contact' \in 0 .. Ttl + 1 /\ gap' \in 0 .. 2 /\ (ahead' >= -Ttl => gap' <= 1)
    BY <1>1, <1>2, <1>4
  <2>4. due' \subseteq timers' \cup {"startup"}
    BY <1>1
  <2> QED BY <1>1, <2>1, <2>2, <2>3, <2>4 DEF IInv, OwnTypes
<1>6. Heard'
  <2>1. CASE Listed /\ contact' <= Ttl
    <3>1. contact <= Ttl /\ contact' = contact + 1
      BY <1>1, <1>2, <2>1
    <3>2. Rec.age <= contact /\ Rec.age \in Int
      BY <2>1, <3>1, Ageing DEF IInv, Heard
    <3>3. Rec'.age \in Int
      BY <1>3, <2>1 DEF Registered, Listed, Rec
    <3>4. Rec'.age <= contact'
      BY <1>2, <1>3, <2>1, <3>1, <3>2, <3>3
    <3> QED BY <1>3, <2>1, <3>4 DEF Heard
  <2>2. CASE Listed /\ ~(contact' <= Ttl)
    BY <1>3, <2>2 DEF Heard
  <2>3. CASE ~Listed
    <3>1. contact' = Ttl + 1
      BY <1>1, <1>2, <2>3 DEF IInv, Heard
    <3>2. ~(contact' <= Ttl)
      BY <1>2, <3>1
    <3> QED BY <3>1, <3>2 DEF Heard
  <2> QED BY <2>1, <2>2, <2>3
<1>7. BeatComes'
  <2>1. Alive => "heartbeat" \in due'
    BY <1>1 DEF IInv, OwnTypes, Alive
  <2>2. Alive' <=> Alive
    BY <1>1 DEF Alive
  <2> QED BY <2>1, <2>2 DEF BeatComes
<1> QED BY <1>5, <1>6, <1>7 DEF IInv

LEMMA NextIInv ==
  ASSUME IInv, Registered, Registered', [Next]_vars
  PROVE  IInv'
<1>1. CASE UNCHANGED vars
  BY <1>1 DEF vars, gateway, announcer, history, IInv, OwnTypes, Heard, BeatComes,
              Listed, Rec, Alive
<1>2. CASE Begin \/ Cease \/ \E t \in {"startup", "announce", "heartbeat"} : Fire(t)
  BY <1>2, BeginCeaseIInv, FireIInv
<1>3. CASE \E m \in net :
             DeliverAnnounce(m) \/ DeliverHeartbeat(m) \/ RefuseHeartbeat(m) \/ Lose(m)
  BY <1>3, DeliverAnnounceIInv, DeliverHeartbeatIInv, RefuseIInv, LoseIInv
<1>4. CASE \/ \E o \in G!Outcomes : SaveFires(o)
           \/ \E os \in [1 .. 3 -> G!Outcomes] : TickFires(os)
  BY <1>4, WritesIInv
<1>5. CASE (\E o \in G!Outcomes : Deregister(o) \/ Stop(o)) \/ Exit \/ Crash \/ Start
  BY <1>5, ForgetsIInv DEF Deregister, Stop, Exit, Crash, Start
<1>6. CASE Advance
  BY <1>6, AdvanceIInv
<1> QED BY <1>1, <1>2, <1>3, <1>4, <1>5, <1>6 DEF Next

--------------------------------------------------------------------------------
(* Theorems *)

\* The inductive invariant, in the states that the registry's allows.
THEOREM Invariance == Spec => [](IInv /\ Registered)
<1>1. R!IInv => Registered
  BY RegisteredHere
<1>2. Spec => []Registered
  BY <1>1, RegistryInvariance, PTL
<1>3. Init => IInv
  BY InitIInv
<1>4. IInv /\ Registered /\ Registered' /\ [Next]_vars => IInv'
  BY NextIInv
<1> QED BY <1>2, <1>3, <1>4, PTL DEF Spec

\* The types of the announcer's state and of the gateway's.
THEOREM TypeCorrect == Spec => []TypeOK
<1>1. R!IInv => G!TypeOK
  BY DEF R!IInv, R!TypeOK, G!TypeOK, R!Registries, G!Registries, R!Records, G!Records,
         R!Ids, G!Ids
<1>2. IInv => /\ timers \subseteq {"announce", "heartbeat"}
              /\ due \subseteq timers \cup {"startup"}
              /\ sinceAnnounce \in 0 .. AnnouncePeriod - 1
              /\ ahead \in Offsets
              /\ net \subseteq Requests
              /\ contact \in 0 .. Ttl + 1 /\ lossless \in BOOLEAN /\ gap \in 0 .. 2
  BY DEF IInv, OwnTypes
<1>3. IInv /\ R!IInv => TypeOK
  BY <1>1, <1>2 DEF TypeOK
<1> QED BY <1>3, Invariance, RegistryInvariance, PTL

\* Whatever the times and delays, a world that the gateway lost is listed again
\* at its next heartbeat, as long as requests are answered.
THEOREM RelistedAtNextBeatHolds == Spec => []RelistedAtNextBeat
<1>1. IInv => RelistedAtNextBeat
  BY DEF IInv, OwnTypes, RelistedAtNextBeat
<1> QED BY <1>1, Invariance, PTL

\* Only a world that was silent for the whole time to live is pruned, however
\* requests are reordered and clocks differ.
THEOREM PrunesOnlySilentHolds == Spec => PrunesOnlySilent
<1> DEFINE Pruning == Listed /\ ~Listed' /\ phase' = "up" /\ sinceTick' # sinceTick
<1>1. ASSUME IInv, Registered, [Next]_vars, Pruning
      PROVE  contact > Ttl
  <2>1. UNCHANGED <<mem, sinceTick>> => FALSE
    BY <1>1 DEF Listed
  <2>2. contact \in 0 .. Ttl + 1 /\ Ttl \in Nat /\ Rec.age \in Int
    BY <1>1, Ageing, AnnounceAssumption DEF IInv, OwnTypes
  <2>3. CASE \E os \in [1 .. 3 -> G!Outcomes] : TickFires(os)
    <3>1. Rec' = Rec \/ Rec.age > Ttl
      BY <1>1, <2>3, TickEffect DEF TickFires
    <3>2. Rec.age > Ttl
      BY <1>1, <3>1 DEF Listed, Rec
    <3> QED BY <1>1, <2>2, <3>2 DEF IInv, Heard
  <2>4. CASE \E m \in net : DeliverAnnounce(m) \/ DeliverHeartbeat(m)
    BY <1>1, <2>4 DEF DeliverAnnounce, DeliverHeartbeat, G!AnnounceWorld, G!Heartbeat
  <2>5. CASE \E o \in G!Outcomes : Deregister(o) \/ SaveFires(o) \/ Stop(o)
    BY <1>1, <2>5 DEF Deregister, SaveFires, Stop, G!Deregister, G!SaveFires, G!Stop
  <2>6. CASE Exit \/ Crash \/ Start \/ Advance
    <3>1. CASE Exit \/ Crash
      BY <1>1, <3>1 DEF Exit, Crash, G!Exit, G!Crash, G!Gone
    <3>2. CASE Start
      BY <1>1, <3>2 DEF Start, G!Start, Registered
    <3>3. CASE Advance
      BY <1>1, <3>3, AdvanceEffect DEF Advance
    <3> QED BY <2>6, <3>1, <3>2, <3>3
  <2>7. CASE Begin \/ Cease \/ (\E t \in {"startup", "announce", "heartbeat"} : Fire(t))
             \/ (\E m \in net : RefuseHeartbeat(m) \/ Lose(m)) \/ UNCHANGED vars
    BY <2>1, <2>7 DEF Begin, Cease, Fire, RefuseHeartbeat, Lose, vars, gateway
  <2> QED BY <1>1, <2>3, <2>4, <2>5, <2>6, <2>7 DEF Next
<1>2. IInv /\ Registered /\ [Next]_vars
        => [Listed /\ ~Listed' /\ phase' = "up" /\ sinceTick' # sinceTick
              => contact > Ttl]_vars
  BY <1>1
<1> QED BY <1>2, Invariance, PTL DEF Spec, PrunesOnlySilent

\* What the registry promises, it promises of an announcer's gateway too.
THEOREM RegistryHolds ==
  Spec => []G!NothingForgotten /\ []G!WorldsNotRevived /\ G!Fresh
<1>1. R!IInv => R!WorldsNotRevived /\ R!NothingForgotten
  <2>1. R!IInv => R!TypeOK /\ R!Reasons /\ R!InStep /\ R!WorldsNotRevived
    BY DEF R!IInv
  <2> QED BY <2>1, RegistryAssumptions, R!InStepForgetsNothing
<1>2. R!NothingForgotten => G!NothingForgotten
  BY DEF R!NothingForgotten, G!NothingForgotten, R!Restored, G!Restored, R!Loaded, G!Loaded,
         R!DueAtTick, G!DueAtTick, R!SeenLater, G!SeenLater, R!Ids, G!Ids
<1>3. R!WorldsNotRevived => G!WorldsNotRevived
  BY DEF R!WorldsNotRevived, G!WorldsNotRevived, R!Revived, G!Revived, R!Loaded, G!Loaded,
         R!Serving, G!Serving, R!Ids, G!Ids
<1>4. ASSUME [R!Next]_(R!vars), R!IInv
      PROVE  [\A id \in G!Ids :
                G!Overdue(id)' =>
                  \/ G!Overdue(id) /\ sinceTick' >= sinceTick
                  \/ phase = "up" /\ id \in {World} /\ mem[id] = NoRecord]_(G!vars)
  <2>1. \A id \in R!Ids : R!StaysFresh(id)
    BY <1>4, RegistryAssumptions, R!NextFresh
  <2>2. R!Ids = G!Ids
    BY DEF R!Ids, G!Ids
  <2>3. ASSUME NEW id
        PROVE  (R!Overdue(id) <=> G!Overdue(id)) /\ (R!Overdue(id)' <=> G!Overdue(id)')
    BY <2>2 DEF R!Overdue, G!Overdue, R!Listed, G!Listed
  <2> QED BY <2>1, <2>2, <2>3 DEF R!StaysFresh
<1>5. [Next]_vars => [R!Next]_(R!vars)
  BY StepRuns, SameNext
<1>6. R!IInv => G!NothingForgotten /\ G!WorldsNotRevived
  BY <1>1, <1>2, <1>3
<1> QED BY <1>4, <1>5, <1>6, RegistryInvariance, PTL DEF Spec, G!Fresh
================================================================================
