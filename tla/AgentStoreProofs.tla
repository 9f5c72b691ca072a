---------------------------- MODULE AgentStoreProofs ----------------------------
(***************************************************************************)
(* Theorems about AgentStore for every set of agents and keys and every    *)
(* time to live.                                                           *)
(***************************************************************************)
EXTENDS AgentStore, TLAPS

--------------------------------------------------------------------------------
(* The operators on stores *)

LEMMA EmptyIsStore == Empty \in Stores
BY DEF Empty, Stores

\* Loading gives a store, whatever the file holds, and all of a store.
LEMMA LoadedIsStore ==
  ASSUME NEW d \in Stores \cup {Torn}
  PROVE  Loaded(d) \in Stores /\ (d \in Stores => Loaded(d) = d)
BY EmptyIsStore, TornAssumption DEF Loaded

\* A record bound to a key is a record.
LEMMA ReboundIsRecord ==
  ASSUME mem \in Stores, NEW id \in Ids, NEW key \in Keys
  PROVE  Rebound(id, key) \in Records
<1>1. CASE Known(id)
  <2>1. mem[id] \in Records
    BY <1>1 DEF Known, Stores
  <2>2. Rebound(id, key) = [mem[id] EXCEPT !.key = key, !.age = 0]
    BY <1>1 DEF Rebound
  <2>3. Rebound(id, key) = [key |-> key, source |-> mem[id].source, age |-> 0]
    BY <2>1, <2>2 DEF Records
  <2>4. mem[id].source \in Sources
    BY <2>1 DEF Records
  <2> QED BY <2>3, <2>4, TtlAssumption DEF Records
<1>2. CASE ~Known(id)
  <2>1. Rebound(id, key) = [key |-> key, source |-> "gossip", age |-> 0]
    BY <1>2 DEF Rebound, Fresh
  <2> QED BY <2>1, TtlAssumption DEF Records, Sources
<1> QED BY <1>1, <1>2

LEMMA FreshIsRecord ==
  ASSUME NEW key \in Keys \cup {NoKey}, NEW source \in Sources
  PROVE  Fresh(key, source) \in Records
BY TtlAssumption DEF Fresh, Records

\* Storing a record in a store, or taking one from it, leaves a store.
LEMMA WithIsStore ==
  ASSUME mem \in Stores, NEW id \in Ids, NEW record \in Records
  PROVE  With(id, record) \in Stores
BY DEF With, Stores

LEMMA WithoutIsStore ==
  ASSUME NEW m \in Stores, NEW id \in Ids
  PROVE  Without(m, id) \in Stores
BY DEF Without, Stores

\* Time leaves the keys of a store alone.
LEMMA AgedKeepsKeys ==
  ASSUME NEW m \in Stores
  PROVE  /\ AgedStore(m) \in Stores
         /\ \A id \in Ids : KeyIn(AgedStore(m), id) = KeyIn(m, id)
         /\ AgedStore(Empty) = Empty
<1>1. ASSUME NEW id \in Ids, m[id] # NoRecord
      PROVE  AgedStore(m)[id] \in Records /\ AgedStore(m)[id].key = m[id].key
  <2>1. m[id] \in Records
    BY <1>1 DEF Stores
  <2>2. CASE m[id].key = NoKey \/ m[id].age > TofuTtl
    BY <1>1, <2>1, <2>2 DEF AgedStore
  <2>3. CASE ~(m[id].key = NoKey \/ m[id].age > TofuTtl)
    <3>1. AgedStore(m)[id] = [m[id] EXCEPT !.age = @ + 1]
      BY <1>1, <2>3 DEF AgedStore
    <3>2. m[id].age + 1 \in 0 .. TofuTtl + 1
      BY <2>1, <2>3, TtlAssumption DEF Records
    <3> QED BY <2>1, <3>1, <3>2 DEF Records
  <2> QED BY <2>2, <2>3
<1>2. ASSUME NEW id \in Ids, m[id] = NoRecord
      PROVE  AgedStore(m)[id] = NoRecord
  BY <1>2 DEF AgedStore
<1>3. AgedStore(m) \in Stores
  <2>1. \A id \in Ids : AgedStore(m)[id] \in Records \cup {NoRecord}
    BY <1>1, <1>2
  <2>2. AgedStore(m) = [id \in Ids |-> AgedStore(m)[id]]
    BY DEF AgedStore
  <2> QED BY <2>1, <2>2 DEF Stores
<1>4. \A id \in Ids : KeyIn(AgedStore(m), id) = KeyIn(m, id)
  BY <1>1, <1>2, ValuesAssumption DEF KeyIn
<1>5. AgedStore(Empty) = Empty
  BY DEF AgedStore, Empty
<1> QED BY <1>3, <1>4, <1>5

--------------------------------------------------------------------------------
(* The inductive invariant *)

\* Two stores have the same binding of id, of the same age.
SameBinding(m, d, id) ==
  /\ KeyIn(m, id) = KeyIn(d, id)
  /\ KeyIn(m, id) # NoKey => m[id].age = d[id].age

\* Time does not tell equal bindings apart.
LEMMA AgedKeepsSame ==
  ASSUME NEW m \in Stores, NEW d \in Stores, NEW id \in Ids, SameBinding(m, d, id)
  PROVE  SameBinding(AgedStore(m), AgedStore(d), id)
<1>1. KeyIn(AgedStore(m), id) = KeyIn(m, id) /\ KeyIn(AgedStore(d), id) = KeyIn(d, id)
  BY AgedKeepsKeys
<1>2. CASE KeyIn(m, id) = NoKey
  BY <1>1, <1>2 DEF SameBinding
<1>3. CASE KeyIn(m, id) # NoKey
  <2>1. /\ m[id] # NoRecord /\ m[id].key # NoKey
        /\ d[id] # NoRecord /\ d[id].key # NoKey
        /\ m[id].age = d[id].age
    BY <1>3 DEF SameBinding, KeyIn
  <2>2. m[id] \in Records /\ d[id] \in Records
    BY <2>1 DEF Stores
  <2>3. CASE m[id].age > TofuTtl
    BY <1>1, <2>1, <2>3 DEF AgedStore, SameBinding
  <2>4. CASE ~(m[id].age > TofuTtl)
    <3>1. /\ AgedStore(m)[id] = [m[id] EXCEPT !.age = @ + 1]
          /\ AgedStore(d)[id] = [d[id] EXCEPT !.age = @ + 1]
      BY <2>1, <2>4 DEF AgedStore
    <3>2. AgedStore(m)[id].age = AgedStore(d)[id].age
      BY <2>1, <2>2, <3>1 DEF Records
    <3> QED BY <1>1, <3>2 DEF SameBinding
  <2> QED BY <2>3, <2>4
<1> QED BY <1>2, <1>3

\* Bindings are on disk with their age, so that a start() neither revives nor
\* ages one.
BindingsStored ==
  Alive /\ ~failed => \A id \in Ids : SameBinding(mem, Loaded(disk), id)

\* Before the first start() that found or made an identity there is no store,
\* in memory or on disk, and nobody who would change it.
NotOpened ==
  idFile # "whole" =>
    /\ phase \in {"down", "stopped"}
    /\ ~listening /\ udp = "none" /\ ~timer
    /\ mem = Empty /\ disk = Empty

\* A process that is not there hears nothing.
NoSocket == phase = "down" => ~listening /\ udp = "none"

IInv == TypeOK /\ NotOpened /\ NoSocket /\ BindingsStored /\ NothingLost

LEMMA InitIInv ==
  ASSUME Init
  PROVE  IInv
<1>1. TypeOK
  BY EmptyIsStore DEF Init, TypeOK, Phases, Sockets, Stages, NoLeaves
<1>2. NotOpened /\ NoSocket
  BY DEF Init, NotOpened, NoSocket
<1>3. BindingsStored /\ NothingLost
  BY DEF Init, BindingsStored, NothingLost, Alive
<1> QED BY <1>1, <1>2, <1>3 DEF IInv

\* A write that ends well leaves on disk what was written; another is remembered.
LEMMA SavedIsOnDisk ==
  ASSUME NEW m \in Stores, NEW before \in Stores \cup {Torn}, NEW o \in Outcomes,
         SaveOver(o, m, before)
  PROVE  /\ disk' \in Stores \cup {Torn} /\ timer' = FALSE /\ failed' \in BOOLEAN
         /\ ~failed' => Loaded(disk') = m
<1>1. CASE o = "all"
  BY <1>1, LoadedIsStore DEF SaveOver, Written
<1>2. CASE o = "torn"
  BY <1>2 DEF SaveOver, Written
<1>3. CASE o = "none"
  BY <1>3 DEF SaveOver, Written
<1> QED BY <1>1, <1>2, <1>3 DEF Outcomes

\* Any change of the store that is saved at once.
LEMMA SavedAtOnce ==
  ASSUME IInv, idFile = "whole",
         mem' \in Stores, NEW before \in Stores \cup {Torn}, NEW o \in Outcomes,
         SaveOver(o, mem', before), UNCHANGED <<phase, listening, udp, leaves, idFile>>
  PROVE  IInv'
<1>1. /\ disk' \in Stores \cup {Torn} /\ timer' = FALSE /\ failed' \in BOOLEAN
      /\ ~failed' => Loaded(disk') = mem'
  BY SavedIsOnDisk
<1>2. TypeOK'
  BY <1>1 DEF IInv, TypeOK
<1>3. NotOpened' /\ NoSocket'
  BY DEF IInv, NotOpened, NoSocket
<1>4. BindingsStored' /\ NothingLost'
  BY <1>1 DEF BindingsStored, NothingLost, SameBinding
<1> QED BY <1>2, <1>3, <1>4 DEF IInv

\* Any change of the store that binds no other key and is saved later.
LEMMA SavedLater ==
  ASSUME IInv, idFile = "whole",
         mem' \in Stores, \A id \in Ids : SameBinding(mem', mem, id),
         Save, UNCHANGED <<phase, listening, udp, leaves, idFile>>
  PROVE  IInv'
<1>1. TypeOK'
  BY DEF IInv, TypeOK, Save
<1>2. NotOpened' /\ NoSocket'
  BY DEF IInv, NotOpened, NoSocket
<1>3. BindingsStored'
  BY DEF IInv, BindingsStored, SameBinding, Save, Alive
<1>4. NothingLost'
  BY DEF NothingLost, Save
<1> QED BY <1>1, <1>2, <1>3, <1>4 DEF IInv

\* Any step that leaves memory, disk and the state of the saves alone.
LEMMA StoreUntouched ==
  ASSUME IInv, idFile = "whole", idFile' = "whole",
         UNCHANGED <<mem, disk, timer, failed>>,
         phase # "down", phase' \in Phases \ {"down"}, udp' \in Sockets,
         listening' \in BOOLEAN,
         leaves' \in [Ids -> Stages], phase' # "leaving" => leaves' = NoLeaves
  PROVE  IInv'
<1>1. TypeOK'
  BY DEF IInv, TypeOK
<1> QED BY <1>1 DEF IInv, NotOpened, NoSocket, BindingsStored, NothingLost, Alive

--------------------------------------------------------------------------------
(* Messages *)

LEMMA HeardIInv ==
  ASSUME IInv, idFile = "whole",
         NEW id \in Ids, NEW key \in Keys, NEW o \in Outcomes, Heard(id, key, o)
  PROVE  IInv'
<1>1. mem \in Stores /\ disk \in Stores \cup {Torn}
  BY DEF IInv, TypeOK
<1>2. With(id, Rebound(id, key)) \in Stores
  BY <1>1, ReboundIsRecord, WithIsStore
<1>3. UNCHANGED <<phase, listening, udp, leaves, idFile>>
  BY DEF Heard
<1>4. CASE FirstContact(id, key, o)
  BY <1>1, <1>2, <1>3, <1>4, SavedAtOnce DEF FirstContact, SaveImmediate
<1>5. CASE FirstIsLeave(id, key, o)
  <2>1. mem' \in Stores
    BY <1>1, <1>5, WithoutIsStore DEF FirstIsLeave
  <2>2. SaveOver(o, mem', With(id, Rebound(id, key)))
    BY <1>5 DEF FirstIsLeave
  <2> QED BY <1>2, <1>3, <2>1, <2>2, SavedAtOnce
<1>6. CASE LaterContact(id, key)
  BY <1>1, <1>3, <1>6, SavedLater DEF LaterContact, SameBinding
<1>7. CASE Leaves(id, key, o)
  <2>1. mem' \in Stores
    BY <1>1, <1>7, WithoutIsStore DEF Leaves
  <2> QED BY <1>1, <1>3, <1>7, <2>1, SavedAtOnce DEF Leaves, SaveImmediate
<1> QED BY <1>4, <1>5, <1>6, <1>7 DEF Heard

LEMMA MessageIInv ==
  ASSUME IInv, NEW id \in Ids, NEW key \in Keys, NEW o \in Outcomes,
         HttpMessage(id, key, o) \/ UdpMessage(id, key, o)
  PROVE  IInv'
<1>1. idFile = "whole"
  BY DEF IInv, NotOpened, HttpMessage, UdpMessage
<1> QED BY <1>1, HeardIInv DEF HttpMessage, UdpMessage

LEMMA KeyRotationIInv ==
  ASSUME IInv, NEW id \in Ids, NEW o \in Outcomes, KeyRotation(id, o)
  PROVE  IInv'
<1>1. mem \in Stores /\ disk \in Stores \cup {Torn}
  BY DEF IInv, TypeOK
<1>2. idFile = "whole"
  BY DEF IInv, NotOpened, KeyRotation
<1>3. mem' \in Stores
  BY <1>1, KeysAssumption, ReboundIsRecord, WithIsStore DEF KeyRotation
<1> QED BY <1>1, <1>2, <1>3, SavedAtOnce DEF KeyRotation, SaveKey, SaveImmediate

--------------------------------------------------------------------------------
(* The other callers *)

LEMMA AddManuallyIInv ==
  ASSUME IInv, NEW id \in Ids, NEW o \in Outcomes, AddManually(id, o)
  PROVE  IInv'
<1>1. mem \in Stores /\ disk \in Stores \cup {Torn}
  BY DEF IInv, TypeOK
<1>2. idFile = "whole"
  BY DEF IInv, NotOpened, AddManually
<1>3. mem' \in Stores
  BY <1>1, FreshIsRecord, WithIsStore DEF AddManually, Sources
<1> QED BY <1>1, <1>2, <1>3, SavedAtOnce DEF AddManually, SaveImmediate

LEMMA DiscoveredIInv ==
  ASSUME IInv, NEW id \in Ids, Discovered(id)
  PROVE  IInv'
<1>1. mem \in Stores
  BY DEF IInv, TypeOK
<1>2. idFile = "whole" /\ Save /\ UNCHANGED <<phase, listening, udp, leaves, idFile>>
  BY DEF Discovered, Opened, SaveDiscovered
<1>3. mem' \in Stores
  BY <1>1, FreshIsRecord, WithIsStore DEF Discovered, Sources
<1>4. ASSUME NEW x \in Ids
      PROVE  SameBinding(mem', mem, x)
  <2>1. CASE Known(id)
    BY <2>1 DEF Discovered, SameBinding
  <2>2. CASE ~Known(id)
    <3>1. mem' = With(id, Fresh(NoKey, "gossip"))
      BY <2>2 DEF Discovered
    <3>2. CASE x = id
      BY <1>1, <2>2, <3>1, <3>2 DEF SameBinding, KeyIn, Known, With, Fresh, Stores
    <3>3. CASE x # id
      BY <1>1, <3>1, <3>3 DEF SameBinding, KeyIn, With, Stores
    <3> QED BY <3>2, <3>3
  <2> QED BY <2>1, <2>2
<1> QED BY <1>2, <1>3, <1>4, SavedLater

LEMMA UntrackedIInv ==
  ASSUME IInv, NEW id \in Ids, NEW o \in Outcomes, Untracked(id, o)
  PROVE  IInv'
<1>1. mem \in Stores /\ disk \in Stores \cup {Torn}
  BY DEF IInv, TypeOK
<1>2. mem' \in Stores
  BY <1>1, WithoutIsStore DEF Untracked
<1> QED BY <1>1, <1>2, SavedAtOnce DEF Untracked, Opened, SaveImmediate

LEMMA PruneIInv ==
  ASSUME IInv, NEW S \in SUBSET Ids, NEW o \in Outcomes, Prune(S, o)
  PROVE  IInv'
<1>1. mem \in Stores /\ disk \in Stores \cup {Torn}
  BY DEF IInv, TypeOK
<1>2. idFile = "whole"
  BY DEF IInv, NotOpened, Prune
<1>3. mem' \in Stores
  BY <1>1 DEF Prune, Stores
<1> QED BY <1>1, <1>2, <1>3, SavedAtOnce DEF Prune, SaveImmediate

LEMMA SaveFiresIInv ==
  ASSUME IInv, NEW o \in Outcomes, SaveFires(o)
  PROVE  IInv'
<1>1. mem \in Stores /\ disk \in Stores \cup {Torn}
  BY DEF IInv, TypeOK
<1>2. idFile = "whole"
  BY DEF IInv, NotOpened, SaveFires
<1> QED BY <1>1, <1>2, SavedAtOnce DEF SaveFires, SaveImmediate

--------------------------------------------------------------------------------
(* Lifecycle *)

LEMMA StartIInv ==
  ASSUME IInv, NEW bound \in BOOLEAN, NEW o \in Outcomes, Start(bound, o)
  PROVE  IInv'
<1>1. /\ mem \in Stores /\ disk \in Stores \cup {Torn} /\ timer \in BOOLEAN
      /\ udp \in Sockets /\ listening \in BOOLEAN /\ failed \in BOOLEAN
      /\ leaves \in [Ids -> Stages] /\ leaves = NoLeaves
  BY DEF IInv, TypeOK, Start
<1>2. CASE idFile' = "whole"
  <2>1. /\ phase' = "starting" /\ mem' = Loaded(disk) /\ failed' = FALSE
        /\ UNCHANGED <<disk, timer, listening, leaves>> /\ UdpStarts(bound)
    BY <1>2 DEF Start
  <2>2. udp' \in Sockets
    BY <2>1 DEF UdpStarts, Sockets
  <2>3. TypeOK'
    BY <1>1, <1>2, <2>1, <2>2, LoadedIsStore DEF TypeOK, Phases
  <2> QED BY <1>2, <2>1, <2>3 DEF IInv, NotOpened, NoSocket, BindingsStored, NothingLost, SameBinding
<1>3. CASE idFile' # "whole"
  <2>1. phase' = "stopped" /\ UNCHANGED <<mem, disk, timer, listening, udp, failed, leaves>>
    BY <1>3 DEF Start
  <2>2. idFile # "whole" /\ idFile' \in {"none", "torn"}
    BY <1>3 DEF Start, IdentityAfter, IInv, TypeOK, Outcomes
  <2>3. ~listening /\ udp = "none" /\ ~timer /\ mem = Empty /\ disk = Empty
    BY <2>2 DEF IInv, NotOpened
  <2>4. Loaded(disk') = mem'
    BY <2>1, <2>3, EmptyIsStore, LoadedIsStore
  <2>5. TypeOK'
    BY <1>1, <2>1, <2>2 DEF TypeOK, Phases
  <2>6. NotOpened' /\ NoSocket'
    BY <2>1, <2>3 DEF NotOpened, NoSocket
  <2>7. BindingsStored' /\ NothingLost'
    BY <2>4 DEF BindingsStored, NothingLost, SameBinding
  <2> QED BY <2>5, <2>6, <2>7 DEF IInv
<1> QED BY <1>2, <1>3

LEMMA ListenIInv ==
  ASSUME IInv, NEW ok \in BOOLEAN, Listen(ok)
  PROVE  IInv'
<1>1. idFile = "whole"
  BY DEF IInv, NotOpened, Listen
<1> QED BY <1>1, StoreUntouched DEF Listen, IInv, TypeOK, Phases

LEMMA BeginStopIInv ==
  ASSUME IInv, NEW S \in SUBSET Reachable, BeginStop(S)
  PROVE  IInv'
<1>1. idFile = "whole"
  BY DEF IInv, NotOpened, BeginStop
<1>2. leaves' \in [Ids -> Stages]
  BY DEF BeginStop, Farewells, Stages
<1> QED BY <1>1, <1>2, StoreUntouched DEF BeginStop, IInv, TypeOK, Phases

\* One step of one leave that stop() awaits.
LEMMA LeaveIInv ==
  ASSUME IInv, NEW id \in Ids,
         \/ \E ok \in BOOLEAN : UdpSent(id, ok)
         \/ HttpAnswers(id) \/ HttpFails(id) \/ BodyEnds(id)
  PROVE  IInv'
<1>1. leaves[id] # "none" /\ UNCHANGED <<mem, disk, timer, phase, listening, udp, idFile, failed>>
  BY DEF UdpSent, HttpAnswers, HttpFails, BodyEnds, Ends
<1>2. phase = "leaving"
  BY <1>1 DEF IInv, TypeOK, NoLeaves
<1>3. idFile = "whole"
  BY <1>2 DEF IInv, NotOpened
<1>4. leaves' \in [Ids -> Stages]
  BY DEF UdpSent, ToHttp, HttpAnswers, HttpFails, BodyEnds, IInv, TypeOK, Stages
<1> QED BY <1>1, <1>2, <1>3, <1>4, StoreUntouched DEF IInv, TypeOK

LEMMA StopFlushesIInv ==
  ASSUME IInv, NEW o \in Outcomes, StopFlushes(o)
  PROVE  IInv'
<1>1. /\ mem \in Stores /\ disk \in Stores \cup {Torn}
      /\ udp \in Sockets /\ listening \in BOOLEAN /\ leaves \in [Ids -> Stages]
  BY DEF IInv, TypeOK
<1>2. idFile = "whole" /\ phase = "leaving"
  BY DEF IInv, NotOpened, StopFlushes
<1>3. /\ phase' \in {"up", "stopping"} /\ leaves' = NoLeaves
      /\ UNCHANGED <<mem, listening, udp, leaves, idFile>>
  BY DEF StopFlushes
<1>4. CASE timer
  <2>1. SaveOver(o, mem, disk)
    BY <1>4 DEF StopFlushes, FlushDb, SaveImmediate
  <2>2. /\ disk' \in Stores \cup {Torn} /\ timer' = FALSE /\ failed' \in BOOLEAN
        /\ ~failed' => Loaded(disk') = mem
    BY <1>1, <2>1, SavedIsOnDisk
  <2>3. TypeOK'
    BY <1>1, <1>3, <2>2 DEF IInv, TypeOK, Phases
  <2> QED BY <1>2, <1>3, <2>2, <2>3 DEF IInv, NotOpened, NoSocket, BindingsStored, NothingLost, SameBinding
<1>5. CASE ~timer
  <2>1. UNCHANGED <<disk, timer, failed>>
    BY <1>5 DEF StopFlushes, FlushDb
  <2> QED BY <1>1, <1>2, <1>3, <2>1, StoreUntouched DEF Phases
<1> QED BY <1>4, <1>5

LEMMA ServerStopsIInv ==
  ASSUME IInv, ServerStops
  PROVE  IInv'
<1>1. idFile = "whole"
  BY DEF IInv, NotOpened, ServerStops
<1> QED BY <1>1, StoreUntouched DEF ServerStops, IInv, TypeOK, Phases

LEMMA UdpStopsIInv ==
  ASSUME IInv, UdpStops
  PROVE  IInv'
<1>1. idFile = "whole"
  BY DEF IInv, NotOpened, UdpStops
<1>2. udp' \in Sockets
  BY DEF UdpStops, IInv, TypeOK, Sockets
<1> QED BY <1>1, <1>2, StoreUntouched DEF UdpStops, IInv, TypeOK, Phases

LEMMA CrashIInv ==
  ASSUME IInv, Crash
  PROVE  IInv'
<1>1. NoLeaves \in [Ids -> Stages]
  BY DEF NoLeaves, Stages
<1>2. TypeOK'
  BY <1>1, EmptyIsStore DEF Crash, IInv, TypeOK, Phases, Sockets
<1> QED BY <1>2 DEF Crash, IInv, NotOpened, NoSocket, BindingsStored, NothingLost, Alive

\* What is on disk ages alike.
LEMMA AgedOnDisk ==
  ASSUME disk \in Stores \cup {Torn},
         disk' = IF disk = Torn THEN Torn ELSE AgedStore(disk)
  PROVE  /\ disk' \in Stores \cup {Torn}
         /\ Loaded(disk') = AgedStore(Loaded(disk))
<1>1. CASE disk = Torn
  BY <1>1, EmptyIsStore, AgedKeepsKeys DEF Loaded
<1>2. CASE disk # Torn
  <2>1. disk \in Stores /\ disk' = AgedStore(disk)
    BY <1>2
  <2>2. disk' \in Stores
    BY <2>1, AgedKeepsKeys
  <2> QED BY <2>1, <2>2, LoadedIsStore
<1> QED BY <1>1, <1>2

LEMMA TickIInv ==
  ASSUME IInv, Tick
  PROVE  IInv'
<1>1. /\ mem \in Stores /\ disk \in Stores \cup {Torn}
      /\ UNCHANGED <<timer, phase, listening, udp, leaves, idFile, failed>> /\ ~timer
      /\ mem' = AgedStore(mem)
      /\ disk' = IF disk = Torn THEN Torn ELSE AgedStore(disk)
  BY DEF IInv, TypeOK, Tick
<1>2. mem' \in Stores
  BY <1>1, AgedKeepsKeys
<1>3. /\ disk' \in Stores \cup {Torn}
      /\ Loaded(disk') = AgedStore(Loaded(disk))
  BY <1>1, AgedOnDisk
<1>4. TypeOK'
  BY <1>1, <1>2, <1>3 DEF IInv, TypeOK
<1>5. NotOpened' /\ NoSocket'
  <2>0. NoSocket'
    BY <1>1 DEF IInv, NoSocket
  <2> SUFFICES ASSUME idFile # "whole"
               PROVE  mem' = Empty /\ disk' = Empty
    BY <1>1, <2>0 DEF IInv, NotOpened
  <2>1. mem = Empty /\ disk = Empty
    BY DEF IInv, NotOpened
  <2> QED BY <1>1, <2>1, EmptyIsStore, TornAssumption, AgedKeepsKeys
<1>6. BindingsStored'
  <2>1. Loaded(disk) \in Stores
    BY <1>1, LoadedIsStore
  <2>2. Alive' = Alive /\ failed' = failed
    BY <1>1 DEF Alive
  <2> QED BY <1>1, <1>3, <2>1, <2>2, AgedKeepsSame DEF IInv, BindingsStored
<1>7. NothingLost'
  BY <1>1, <1>3 DEF IInv, NothingLost, Alive
<1> QED BY <1>4, <1>5, <1>6, <1>7 DEF IInv

LEMMA NextIInv ==
  ASSUME IInv, [Next]_vars
  PROVE  IInv'
<1>1. CASE UNCHANGED vars
  BY <1>1 DEF vars, IInv, TypeOK, NotOpened, NoSocket, BindingsStored, NothingLost, Alive
<1>2. CASE \E id \in Ids, key \in Keys, o \in Outcomes :
             HttpMessage(id, key, o) \/ UdpMessage(id, key, o)
  BY <1>2, MessageIInv
<1>3. CASE \E id \in Ids : Discovered(id)
  BY <1>3, DiscoveredIInv
<1>4. CASE \E id \in Ids, o \in Outcomes :
             KeyRotation(id, o) \/ AddManually(id, o) \/ Untracked(id, o)
  BY <1>4, KeyRotationIInv, AddManuallyIInv, UntrackedIInv
<1>5. CASE \E S \in SUBSET Ids, o \in Outcomes : Prune(S, o)
  BY <1>5, PruneIInv
<1>6. CASE \E o \in Outcomes : SaveFires(o) \/ StopFlushes(o)
  BY <1>6, SaveFiresIInv, StopFlushesIInv
<1>7. CASE \/ \E ok \in BOOLEAN, o \in Outcomes : Start(ok, o)
           \/ \E ok \in BOOLEAN : Listen(ok)
  BY <1>7, StartIInv, ListenIInv
<1>8. CASE \E S \in SUBSET Reachable : BeginStop(S)
  BY <1>8, BeginStopIInv
<1>9. CASE \/ \E id \in Ids, ok \in BOOLEAN : UdpSent(id, ok)
           \/ \E id \in Ids : HttpAnswers(id) \/ HttpFails(id) \/ BodyEnds(id)
  BY <1>9, LeaveIInv
<1>10. CASE ServerStops \/ UdpStops \/ Crash \/ Tick
  BY <1>10, ServerStopsIInv, UdpStopsIInv, CrashIInv, TickIInv
<1> QED BY <1>1, <1>2, <1>3, <1>4, <1>5, <1>6, <1>7, <1>8, <1>9, <1>10 DEF Next

--------------------------------------------------------------------------------
(* The refinement of Binding *)

\* What Binding sees of a store.
BoundIn(m) == [id \in Ids |-> KeyIn(m, id)]

LapsedIn(m) == {id \in Ids : KeyIn(m, id) # NoKey /\ m[id].age > TofuTtl}

\* Equal bindings look equal to Binding.
LEMMA SameView ==
  ASSUME NEW m \in Stores, NEW d \in Stores, \A id \in Ids : SameBinding(m, d, id)
  PROVE  BoundIn(m) = BoundIn(d) /\ LapsedIn(m) = LapsedIn(d)
BY DEF BoundIn, LapsedIn, SameBinding

\* What one changed record changes.
LEMMA ViewWithout ==
  ASSUME NEW m \in Stores, NEW S \in SUBSET Ids, NEW n \in Stores,
         n = [id \in Ids |-> IF id \in S THEN NoRecord ELSE m[id]]
  PROVE  /\ BoundIn(n) = [id \in Ids |-> IF id \in S THEN NoKey ELSE BoundIn(m)[id]]
         /\ LapsedIn(n) = LapsedIn(m) \ S
BY DEF BoundIn, LapsedIn, KeyIn

LEMMA ViewRebound ==
  ASSUME mem \in Stores, NEW id \in Ids, NEW key \in Keys,
         mem' = With(id, Rebound(id, key))
  PROVE  /\ BoundIn(mem') = [BoundIn(mem) EXCEPT ![id] = key]
         /\ LapsedIn(mem') = LapsedIn(mem) \ {id}
<1>1. /\ Rebound(id, key).key = key /\ Rebound(id, key).age = 0
      /\ Rebound(id, key) # NoRecord
  <2>1. Rebound(id, key) \in Records
    BY ReboundIsRecord
  <2>2. CASE Known(id)
    <3>1. mem[id] \in Records
      BY <2>2 DEF Known, Stores
    <3>2. Rebound(id, key) = [mem[id] EXCEPT !.key = key, !.age = 0]
      BY <2>2 DEF Rebound
    <3>3. Rebound(id, key) = [key |-> key, source |-> mem[id].source, age |-> 0]
      BY <3>1, <3>2 DEF Records
    <3> QED BY <2>1, <3>3, ValuesAssumption
  <2>3. CASE ~Known(id)
    BY <2>1, <2>3, ValuesAssumption DEF Rebound, Fresh
  <2> QED BY <2>2, <2>3
<1>2. /\ mem'[id] = Rebound(id, key)
      /\ \A x \in Ids : x # id => mem'[x] = mem[x]
  BY DEF With, Stores
<1>3. /\ KeyIn(mem', id) = key
      /\ \A x \in Ids : x # id => KeyIn(mem', x) = KeyIn(mem, x)
  BY <1>1, <1>2 DEF KeyIn
<1>4. BoundIn(mem') = [BoundIn(mem) EXCEPT ![id] = key]
  BY <1>3 DEF BoundIn
<1>5. ~(mem'[id].age > TofuTtl)
  BY <1>1, <1>2, TtlAssumption
<1>6. LapsedIn(mem') = LapsedIn(mem) \ {id}
  BY <1>2, <1>3, <1>5 DEF LapsedIn
<1> QED BY <1>4, <1>6

\* Time only adds lapsed bindings.
LEMMA ViewAged ==
  ASSUME NEW m \in Stores
  PROVE  /\ BoundIn(AgedStore(m)) = BoundIn(m)
         /\ LapsedIn(m) \subseteq LapsedIn(AgedStore(m))
<1>1. \A id \in Ids : KeyIn(AgedStore(m), id) = KeyIn(m, id)
  BY AgedKeepsKeys
<1>2. ASSUME NEW id \in Ids, m[id].age > TofuTtl, KeyIn(m, id) # NoKey
      PROVE  AgedStore(m)[id].age > TofuTtl
  BY <1>2 DEF AgedStore, KeyIn
<1> QED BY <1>1, <1>2 DEF BoundIn, LapsedIn

\* The steps of Binding, by what is seen before and after.
LEMMA StepBind ==
  ASSUME NEW id \in Ids, NEW key \in Keys, failed' \in BOOLEAN,
         BoundIn(view') = [BoundIn(view) EXCEPT ![id] = key],
         LapsedIn(view') = LapsedIn(view) \ {id}
  PROVE  B!Bind(id, key)
<1>1. B!Forgotten({}) = BoundIn(view)
  BY DEF B!Forgotten, BoundIn
<1>2. BoundIn(view') = [B!Forgotten({}) EXCEPT ![id] = key]
  BY <1>1
<1>3. LapsedIn(view') = LapsedIn(view) \ ({} \cup {id})
  OBVIOUS
<1>4. {} \in SUBSET (Ids \ {id})
  OBVIOUS
<1> QED BY <1>2, <1>3, <1>4 DEF B!Bind, BoundIn, LapsedIn

LEMMA StepForget ==
  ASSUME NEW S \in SUBSET Ids, failed' \in BOOLEAN,
         BoundIn(view') = [id \in Ids |-> IF id \in S THEN NoKey ELSE BoundIn(view)[id]],
         LapsedIn(view') = LapsedIn(view) \ S
  PROVE  B!Keeps
<1>1. BoundIn(view') = B!Forgotten(S)
  BY DEF B!Forgotten, BoundIn
<1>2. B!Forget(S)
  BY <1>1 DEF B!Forget, BoundIn, LapsedIn
<1> QED BY <1>2 DEF B!Keeps

LEMMA StepStore ==
  ASSUME failed' \in BOOLEAN,
         BoundIn(view') = BoundIn(view), LapsedIn(view') = LapsedIn(view)
  PROVE  B!Keeps
BY DEF B!Store, B!Keeps, BoundIn, LapsedIn

LEMMA StepLose ==
  ASSUME failed, ~failed', view' \in Stores
  PROVE  B!Keeps
<1>1. \A id \in Ids : KeyIn(view', id) \in Keys \cup {NoKey}
  BY DEF KeyIn, Stores, Records
<1>2. BoundIn(view') \in [Ids -> Keys \cup {NoKey}]
  BY <1>1 DEF BoundIn
<1>3. LapsedIn(view') \in SUBSET Ids
  BY DEF LapsedIn
<1> QED BY <1>2, <1>3 DEF B!Lose, B!Keeps, BoundIn, LapsedIn

LEMMA StepLapse ==
  ASSUME view \in Stores, view' = AgedStore(view), UNCHANGED failed
  PROVE  B!Keeps
<1> DEFINE S == LapsedIn(view')
<1>1. BoundIn(view') = BoundIn(view) /\ LapsedIn(view) \subseteq S
  BY ViewAged
<1>2. S \in SUBSET Ids /\ \A id \in S : BoundIn(view)[id] # NoKey
  <2>1. S \in SUBSET Ids /\ \A id \in S : KeyIn(view', id) # NoKey
    BY DEF LapsedIn
  <2>2. \A id \in Ids : KeyIn(view', id) = KeyIn(view, id)
    BY AgedKeepsKeys
  <2> QED BY <2>1, <2>2 DEF BoundIn
<1>3. LapsedIn(view') = LapsedIn(view) \cup {id \in S : BoundIn(view)[id] # NoKey}
  BY <1>1, <1>2
<1>4. B!Lapse
  BY <1>1, <1>2, <1>3 DEF B!Lapse, BoundIn, LapsedIn
<1> QED BY <1>4 DEF B!Keeps

--------------------------------------------------------------------------------
(* Every step of the store is a step of Binding *)

\* While the process runs, the view is what is in memory.
LEMMA ViewAlive ==
  ASSUME Alive, UNCHANGED phase
  PROVE  view = mem /\ view' = mem'
BY DEF view, Alive

\* A start() brings the same view back, unless the last write failed.
LEMMA ViewReloaded ==
  ASSUME IInv, phase = "down" \/ ~failed
  PROVE  /\ BoundIn(Loaded(disk)) = BoundIn(view)
         /\ LapsedIn(Loaded(disk)) = LapsedIn(view)
<1>1. CASE Alive
  <2>1. mem \in Stores /\ Loaded(disk) \in Stores
    BY LoadedIsStore DEF IInv, TypeOK
  <2>2. \A id \in Ids : SameBinding(mem, Loaded(disk), id)
    BY <1>1 DEF IInv, BindingsStored, Alive
  <2> QED BY <1>1, <2>1, <2>2, SameView DEF view
<1>2. CASE ~Alive
  BY <1>2 DEF view
<1> QED BY <1>1, <1>2

\* A record that is bound to a key.
LEMMA ReboundBinds ==
  ASSUME IInv, Alive, UNCHANGED phase, failed' \in BOOLEAN,
         NEW id \in Ids, NEW key \in Keys, mem' = With(id, Rebound(id, key))
  PROVE  B!Bind(id, key)
<1>1. view = mem /\ view' = mem' /\ mem \in Stores
  BY ViewAlive DEF IInv, TypeOK
<1>2. /\ BoundIn(view') = [BoundIn(view) EXCEPT ![id] = key]
      /\ LapsedIn(view') = LapsedIn(view) \ {id}
  BY <1>1, ViewRebound
<1> QED BY <1>2, StepBind

\* By a message: a first contact with the key the id is derived from, or a
\* binding that has lapsed.
LEMMA ContactRefines ==
  ASSUME IInv, Alive, UNCHANGED phase, failed' \in BOOLEAN,
         NEW id \in Ids, NEW key \in Keys, mem' = With(id, Rebound(id, key)),
         Derives(id, key), Binds(id, key)
  PROVE  B!Keeps
<1>1. B!Bind(id, key) /\ view = mem
  BY ReboundBinds, ViewAlive
<1>2. CASE KeyIn(mem, id) = NoKey
  <2>1. key = Original[id] /\ BoundIn(view)[id] = NoKey
    BY <1>1, <1>2 DEF Derives, BoundIn
  <2>2. B!Trust(id)
    BY <1>1, <2>1 DEF B!Trust, BoundIn
  <2> QED BY <2>2 DEF B!Keeps
<1>3. CASE KeyIn(mem, id) # NoKey
  <2>1. id \in LapsedIn(view)
    BY <1>1, <1>3 DEF Binds, Lapsed, LapsedIn
  <2>2. B!Renew(id, key)
    BY <1>1, <2>1 DEF B!Renew, LapsedIn
  <2> QED BY <2>2 DEF B!Keeps
<1> QED BY <1>2, <1>3

\* By a rotation: from the key the id is derived from.
LEMMA RotationRefines ==
  ASSUME IInv, IInv', NEW id \in Ids, NEW o \in Outcomes, KeyRotation(id, o)
  PROVE  BindingStep
<1>1. Alive /\ UNCHANGED phase /\ failed' \in BOOLEAN
  BY DEF IInv, TypeOK, NoSocket, KeyRotation, Alive
<1>2. Later[id] \in Keys /\ mem' = With(id, Rebound(id, Later[id]))
  BY KeysAssumption DEF KeyRotation
<1>3. B!Bind(id, Later[id]) /\ view = mem
  BY <1>1, <1>2, ReboundBinds, ViewAlive
<1>4. BoundIn(view)[id] \in {NoKey, Original[id]}
  BY <1>3 DEF KeyRotation, BoundIn
<1>5. B!Rotate(id, Later[id])
  BY <1>3, <1>4 DEF B!Rotate, BoundIn
<1> QED BY <1>5 DEF BindingStep

LEMMA RemovalRefines ==
  ASSUME IInv, Alive, UNCHANGED phase, failed' \in BOOLEAN,
         NEW S \in SUBSET Ids, mem' \in Stores,
         mem' = [id \in Ids |-> IF id \in S THEN NoRecord ELSE mem[id]]
  PROVE  B!Keeps
<1>1. view = mem /\ view' = mem' /\ mem \in Stores
  BY ViewAlive DEF IInv, TypeOK
<1>2. /\ BoundIn(view') = [id \in Ids |-> IF id \in S THEN NoKey ELSE BoundIn(view)[id]]
      /\ LapsedIn(view') = LapsedIn(view) \ S
  BY <1>1, ViewWithout
<1> QED BY <1>2, StepForget

\* A record without a key binds nothing.
LEMMA KeylessRefines ==
  ASSUME IInv, Alive, UNCHANGED phase, failed' \in BOOLEAN,
         NEW id \in Ids, NEW source \in Sources,
         mem' = IF Known(id) THEN mem ELSE With(id, Fresh(NoKey, source))
  PROVE  B!Keeps
<1>1. view = mem /\ view' = mem' /\ mem \in Stores
  BY ViewAlive DEF IInv, TypeOK
<1>2. CASE Known(id)
  BY <1>1, <1>2, StepStore
<1>3. CASE ~Known(id)
  <2>1. mem' = With(id, Fresh(NoKey, source))
    BY <1>3
  <2>2. ASSUME NEW x \in Ids
        PROVE  SameBinding(mem', mem, x)
    <3>1. CASE x = id
      BY <1>1, <1>3, <2>1, <3>1 DEF SameBinding, KeyIn, Known, With, Fresh, Stores
    <3>2. CASE x # id
      BY <1>1, <2>1, <3>2 DEF SameBinding, KeyIn, With, Stores
    <3> QED BY <3>1, <3>2
  <2>3. mem' \in Stores
    BY <1>1, <2>1, FreshIsRecord, WithIsStore
  <2> QED BY <1>1, <2>2, <2>3, SameView, StepStore
<1> QED BY <1>2, <1>3

\* Steps that leave the records alone.
LEMMA StutterRefines ==
  ASSUME IInv, Alive, Alive', UNCHANGED mem, failed' \in BOOLEAN
  PROVE  B!Keeps
<1>1. view = mem /\ view' = mem
  BY DEF view
<1> QED BY <1>1, StepStore

LEMMA HeardRefines ==
  ASSUME IInv, IInv', Alive,
         NEW id \in Ids, NEW key \in Keys, NEW o \in Outcomes, Heard(id, key, o)
  PROVE  B!Keeps
<1>1. failed' \in BOOLEAN /\ mem' \in Stores /\ UNCHANGED phase
  BY DEF IInv, TypeOK, Heard
<1>2. CASE FirstContact(id, key, o)
  BY <1>1, <1>2, ContactRefines DEF FirstContact, Heard
<1>3. CASE FirstIsLeave(id, key, o) \/ Leaves(id, key, o)
  <2>1. mem' = Without(mem, id)
    BY <1>3 DEF FirstIsLeave, Leaves
  <2>2. mem' = [x \in Ids |-> IF x \in {id} THEN NoRecord ELSE mem[x]]
    BY <2>1 DEF Without, IInv, TypeOK, Stores
  <2> QED BY <1>1, <2>2, RemovalRefines
<1>4. CASE LaterContact(id, key)
  <2>1. UNCHANGED mem /\ Alive'
    BY <1>1, <1>4 DEF LaterContact, Alive
  <2> QED BY <1>1, <2>1, StutterRefines
<1> QED BY <1>2, <1>3, <1>4 DEF Heard

LEMMA MessageRefines ==
  ASSUME IInv, IInv', NEW id \in Ids, NEW key \in Keys, NEW o \in Outcomes,
         HttpMessage(id, key, o) \/ UdpMessage(id, key, o)
  PROVE  B!Keeps
<1>1. Alive
  BY DEF IInv, NoSocket, HttpMessage, UdpMessage, Alive
<1> QED BY <1>1, HeardRefines DEF HttpMessage, UdpMessage

LEMMA CallerRefines ==
  ASSUME IInv, IInv', NEW id \in Ids, NEW o \in Outcomes,
         AddManually(id, o) \/ Untracked(id, o) \/ Discovered(id)
  PROVE  B!Keeps
<1>1. failed' \in BOOLEAN /\ mem' \in Stores
  BY DEF IInv, TypeOK
<1>2. Alive /\ UNCHANGED phase
  BY DEF AddManually, Untracked, Discovered, Opened, Alive
<1>3. CASE AddManually(id, o)
  <2>1. "manual" \in Sources
    BY DEF Sources
  <2> QED BY <1>1, <1>2, <1>3, <2>1, KeylessRefines DEF AddManually
<1>4. CASE Untracked(id, o)
  <2>1. mem' = [x \in Ids |-> IF x \in {id} THEN NoRecord ELSE mem[x]]
    BY <1>4 DEF Untracked, Without, IInv, TypeOK, Stores
  <2> QED BY <1>1, <1>2, <2>1, RemovalRefines
<1>5. CASE Discovered(id)
  <2>1. "gossip" \in Sources
    BY DEF Sources
  <2> QED BY <1>1, <1>2, <1>5, <2>1, KeylessRefines DEF Discovered
<1> QED BY <1>3, <1>4, <1>5

LEMMA PruneRefines ==
  ASSUME IInv, IInv', NEW S \in SUBSET Ids, NEW o \in Outcomes, Prune(S, o)
  PROVE  B!Keeps
<1>1. failed' \in BOOLEAN /\ mem' \in Stores
  BY DEF IInv, TypeOK
<1>2. Alive /\ UNCHANGED phase
  BY DEF Prune, Alive
<1> QED BY <1>1, <1>2, RemovalRefines DEF Prune

LEMMA StartRefines ==
  ASSUME IInv, IInv', NEW ok \in BOOLEAN, NEW o \in Outcomes, Start(ok, o)
  PROVE  B!Keeps
<1>1. CASE idFile' = "whole"
  <2>1. view' = Loaded(disk) /\ failed' = FALSE
    BY <1>1 DEF Start, view, Alive
  <2>2. CASE phase = "down" \/ ~failed
    BY <2>1, <2>2, ViewReloaded, StepStore
  <2>3. CASE ~(phase = "down" \/ ~failed)
    <3>1. view' \in Stores
      BY <2>1, LoadedIsStore DEF IInv, TypeOK
    <3> QED BY <2>1, <2>3, <3>1, StepLose
  <2> QED BY <2>2, <2>3
<1>2. CASE idFile' # "whole"
  <2>1. mem' = mem /\ phase' = "stopped" /\ failed' \in BOOLEAN
    BY <1>2 DEF Start, IInv, TypeOK
  <2>2. idFile # "whole"
    BY <1>2 DEF Start, IdentityAfter
  <2>3. mem = Empty /\ Loaded(disk) = Empty
    BY <2>2, EmptyIsStore, LoadedIsStore DEF IInv, NotOpened
  <2>4. view = Empty /\ view' = Empty
    BY <2>1, <2>3 DEF view, Alive
  <2> QED BY <2>1, <2>4, StepStore
<1> QED BY <1>1, <1>2

\* A crash of a process whose last write failed is the only step that loses.
LEMMA CrashRefines ==
  ASSUME IInv, Crash
  PROVE  B!Keeps
<1>1. view' = Loaded(disk) /\ failed' = FALSE
  <2>1. ~Alive' /\ disk' = disk /\ failed' = FALSE
    BY DEF Crash, Alive
  <2> QED BY <2>1 DEF view, Loaded
<1>2. CASE ~failed
  BY <1>1, <1>2, ViewReloaded, StepStore
<1>3. CASE failed
  <2>1. view' \in Stores
    BY <1>1, LoadedIsStore DEF IInv, TypeOK
  <2> QED BY <1>1, <1>3, <2>1, StepLose
<1> QED BY <1>2, <1>3

LEMMA TickRefines ==
  ASSUME IInv, Tick
  PROVE  B!Keeps
<1>1. view \in Stores
  BY LoadedIsStore DEF view, IInv, TypeOK
<1>2. Loaded(disk') = AgedStore(Loaded(disk))
  BY AgedOnDisk DEF Tick, IInv, TypeOK
<1>3. view' = AgedStore(view) /\ UNCHANGED failed
  BY <1>2 DEF Tick, view, Alive
<1> QED BY <1>1, <1>3, StepLapse

\* The rest of the lifecycle and the debounced save.
LEMMA OtherRefines ==
  ASSUME IInv, IInv',
         \/ \E o \in Outcomes : SaveFires(o) \/ StopFlushes(o)
         \/ \E ok \in BOOLEAN : Listen(ok)
         \/ \E S \in SUBSET Reachable : BeginStop(S)
         \/ \E id \in Ids, ok \in BOOLEAN : UdpSent(id, ok)
         \/ \E id \in Ids : HttpAnswers(id) \/ HttpFails(id) \/ BodyEnds(id)
         \/ ServerStops \/ UdpStops
  PROVE  B!Keeps
<1>1. failed' \in BOOLEAN
  BY DEF IInv, TypeOK
<1>2. CASE \/ \E id \in Ids, ok \in BOOLEAN : UdpSent(id, ok)
           \/ \E id \in Ids : HttpAnswers(id) \/ HttpFails(id) \/ BodyEnds(id)
  <2>1. UNCHANGED <<mem, phase>> /\ \E id \in Ids : leaves[id] # "none"
    BY <1>2 DEF UdpSent, HttpAnswers, HttpFails, BodyEnds, Ends
  <2>2. Alive /\ Alive'
    BY <2>1 DEF IInv, TypeOK, NoLeaves, Alive
  <2> QED BY <1>1, <2>1, <2>2, StutterRefines
<1>3. CASE \/ \E o \in Outcomes : SaveFires(o) \/ StopFlushes(o)
           \/ \E ok \in BOOLEAN : Listen(ok)
           \/ \E S \in SUBSET Reachable : BeginStop(S)
           \/ ServerStops \/ UdpStops
  <2>1. UNCHANGED mem /\ Alive /\ Alive'
    BY <1>3 DEF SaveFires, StopFlushes, Listen, BeginStop, ServerStops, UdpStops, Alive
  <2> QED BY <1>1, <2>1, StutterRefines
<1> QED BY <1>2, <1>3

LEMMA NextRefines ==
  ASSUME IInv, IInv', [Next]_vars
  PROVE  [BindingStep]_(B!vars)
<1>1. CASE UNCHANGED vars
  BY <1>1 DEF vars, B!vars, view, Alive
<1>2. CASE \/ \E id \in Ids, key \in Keys, o \in Outcomes :
                HttpMessage(id, key, o) \/ UdpMessage(id, key, o)
           \/ \E id \in Ids : Discovered(id)
           \/ \E id \in Ids, o \in Outcomes :
                AddManually(id, o) \/ Untracked(id, o)
  <2>1. \E o \in Outcomes : TRUE
    BY DEF Outcomes
  <2> QED BY <1>2, <2>1, MessageRefines, CallerRefines DEF BindingStep
<1>3. CASE \/ \E S \in SUBSET Ids, o \in Outcomes : Prune(S, o)
           \/ \E ok \in BOOLEAN, o \in Outcomes : Start(ok, o)
           \/ Crash \/ Tick
  BY <1>3, PruneRefines, StartRefines, CrashRefines, TickRefines DEF BindingStep
<1>4. CASE \/ \E o \in Outcomes : SaveFires(o) \/ StopFlushes(o)
           \/ \E ok \in BOOLEAN : Listen(ok)
           \/ \E S \in SUBSET Reachable : BeginStop(S)
           \/ \E id \in Ids, ok \in BOOLEAN : UdpSent(id, ok)
           \/ \E id \in Ids : HttpAnswers(id) \/ HttpFails(id) \/ BodyEnds(id)
           \/ ServerStops \/ UdpStops
  BY <1>4, OtherRefines DEF BindingStep
<1>5. CASE \E id \in Ids, o \in Outcomes : KeyRotation(id, o)
  BY <1>5, RotationRefines
<1> QED BY <1>1, <1>2, <1>3, <1>4, <1>5 DEF Next

--------------------------------------------------------------------------------
(* Theorems *)

\* The inductive invariant: a process without an identity has no store, which
\* is why a start() that fails there loses nothing.
THEOREM Invariance == Spec => []IInv
<1>1. Init => IInv
  BY InitIInv
<1>2. IInv /\ [Next]_vars => IInv'
  BY NextIInv
<1> QED BY <1>1, <1>2, PTL DEF Spec

\* The store's state always has its types.
THEOREM TypeCorrect == Spec => []TypeOK
<1>1. IInv => TypeOK
  BY DEF IInv
<1> QED BY <1>1, Invariance, PTL

\* A key that was learned or replaced is on disk unless its write failed.
THEOREM KeysStoredHolds == Spec => []KeysStored
<1>1. IInv => KeysStored
  BY DEF IInv, BindingsStored, SameBinding, KeysStored
<1> QED BY <1>1, Invariance, PTL

\* What differs from the disk has a save under way, or one that failed.
THEOREM NothingLostHolds == Spec => []NothingLost
<1>1. IInv => NothingLost
  BY DEF IInv
<1> QED BY <1>1, Invariance, PTL

\* The plugin's store implements Binding: for every set of agents, whatever
\* writes fail and whenever it crashes, the first key bound is the one the id is
\* derived from, and only a rotation from it, the end of its time to live, a removal
\* or a failed write replaces it.
THEOREM KeepsBindingsHolds == Spec => KeepsBindings
<1>1. Init => B!Init
  <2> SUFFICES ASSUME Init
               PROVE  B!Init
    OBVIOUS
  <2>1. view = Empty
    BY EmptyIsStore, LoadedIsStore DEF Init, view
  <2>2. \A id \in Ids : KeyIn(view, id) = NoKey
    BY <2>1 DEF KeyIn, Empty
  <2> QED BY <2>2 DEF Init, B!Init
<1>2. IInv /\ IInv' /\ [Next]_vars => [BindingStep]_(B!vars)
  BY NextRefines
<1> QED BY <1>1, <1>2, Invariance, PTL DEF Spec, KeepsBindings
================================================================================
