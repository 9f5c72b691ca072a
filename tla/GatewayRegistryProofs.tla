------------------------ MODULE GatewayRegistryProofs ------------------------
(***************************************************************************)
(* Theorems about GatewayRegistry for every set of agents and worlds, every *)
(* capacity and every choice of the times.                                 *)
(***************************************************************************)
EXTENDS GatewayRegistry, FiniteSetTheorems, TLAPS

--------------------------------------------------------------------------------
(* The operators on registries *)

\* A write that ends "all" leaves exactly what was written.
LEMMA WrittenAll ==
  ASSUME NEW d \in Registries, NEW m \in Registries
  PROVE  Written("all", d, m) = m
BY DEF Written, Registries

\* A file holds, for each id, the old or the new record.
LEMMA WrittenIsEither ==
  ASSUME NEW d \in Registries, NEW m \in Registries, NEW o \in Outcomes
  PROVE  /\ Written(o, d, m) \in Registries
         /\ \A id \in Ids : Written(o, d, m)[id] \in {d[id], m[id]}
         /\ Listed(Written(o, d, m)) \cap Agents \in
              {Listed(d) \cap Agents, Listed(m) \cap Agents}
         /\ o = "none" => Written(o, d, m) = d
<1>1. Written(o, d, m) \in Registries
  BY DEF Written, Registries
<1>2. \A id \in Ids : Written(o, d, m)[id] \in {d[id], m[id]}
  BY DEF Written
<1>3. CASE o = "none"
  <2>1. Written(o, d, m) = d
    BY <1>3, IdsAssumption DEF Written, Registries
  <2> QED BY <1>1, <1>2, <2>1
<1>4. CASE o # "none"
  <2>1. \A id \in Agents : Written(o, d, m)[id] = m[id]
    BY <1>4 DEF Written, Outcomes, Ids
  <2>2. Listed(Written(o, d, m)) \cap Agents = Listed(m) \cap Agents
    BY <2>1 DEF Listed, Ids
  <2> QED BY <1>1, <1>2, <1>4, <2>2
<1> QED BY <1>3, <1>4

\* Loading keeps records or drops stale ones.
LEMMA LoadedKeepsFresh ==
  ASSUME NEW d \in Registries
  PROVE  /\ Loaded(d) \in Registries
         /\ \A id \in Ids : Loaded(d)[id] \in {d[id], NoRecord}
         /\ \A id \in Ids : Loaded(d)[id] # NoRecord => d[id].age <= Ttl
         /\ Listed(Loaded(d)) \subseteq Listed(d)
<1>1. \A id \in Ids : d[id] # NoRecord => d[id] \in Records
  BY DEF Registries
<1>2. \A id \in Ids : Loaded(d)[id] \in {d[id], NoRecord}
  BY DEF Loaded
<1>3. Loaded(d) \in Registries
  BY DEF Loaded, Registries
<1>4. \A id \in Ids : Loaded(d)[id] # NoRecord => d[id].age <= Ttl
  BY <1>1, TimesAssumption DEF Loaded, Records
<1> QED BY <1>2, <1>3, <1>4 DEF Listed

\* Pruning drops the stale records of the ids it looks at.
LEMMA PrunedKeepsFresh ==
  ASSUME NEW m \in Registries, NEW S \in SUBSET Ids
  PROVE  /\ Pruned(m, S) \in Registries
         /\ \A id \in Ids : Pruned(m, S)[id] \in {m[id], NoRecord}
         /\ \A id \in S : Pruned(m, S)[id] # NoRecord => m[id].age <= Ttl
         /\ Listed(Pruned(m, S)) \subseteq Listed(m)
<1>1. \A id \in Ids : m[id] # NoRecord => m[id] \in Records
  BY DEF Registries
<1>2. \A id \in Ids : Pruned(m, S)[id] \in {m[id], NoRecord}
  BY DEF Pruned
<1>3. Pruned(m, S) \in Registries
  BY DEF Pruned, Registries
<1>4. \A id \in S : Pruned(m, S)[id] # NoRecord => m[id].age <= Ttl
  BY <1>1, TimesAssumption DEF Pruned, Records
<1> QED BY <1>2, <1>3, <1>4 DEF Listed

\* Time changes ages only, and makes no record younger.
LEMMA OlderKeepsContent ==
  ASSUME NEW m \in Registries
  PROVE  /\ Older(m) \in Registries
         /\ \A id \in Ids : (Older(m)[id] = NoRecord) <=> (m[id] = NoRecord)
         /\ \A id \in Ids : m[id] # NoRecord =>
              /\ Older(m)[id].content = m[id].content
              /\ m[id].age <= Older(m)[id].age
              /\ Older(m)[id].age <= m[id].age + 1
         /\ Listed(Older(m)) = Listed(m)
<1>1. ASSUME NEW id \in Ids, m[id] # NoRecord
      PROVE  /\ Older(m)[id] \in Records
             /\ Older(m)[id].content = m[id].content
             /\ m[id].age <= Older(m)[id].age
             /\ Older(m)[id].age <= m[id].age + 1
  <2>1. m[id] \in Records
    BY <1>1 DEF Registries
  <2>2. CASE m[id].age > Ttl + TickPeriod
    BY <1>1, <2>1, <2>2, TimesAssumption DEF Older, Records
  <2>3. CASE ~(m[id].age > Ttl + TickPeriod)
    <3>1. Older(m)[id] = [age |-> m[id].age + 1, content |-> m[id].content]
      BY <1>1, <2>3 DEF Older
    <3> QED BY <2>1, <3>1 DEF Records
  <2> QED BY <2>2, <2>3
<1>2. ASSUME NEW id \in Ids, m[id] = NoRecord
      PROVE  Older(m)[id] = NoRecord
  BY <1>2 DEF Older
<1>3. Older(m) = [id \in Ids |-> Older(m)[id]]
  BY DEF Older
<1>4. Older(m) \in Registries
  <2>1. \A id \in Ids : Older(m)[id] \in Records \cup {NoRecord}
    BY <1>1, <1>2
  <2> QED BY <1>3, <2>1 DEF Registries
<1>5. \A id \in Ids : (Older(m)[id] = NoRecord) <=> (m[id] = NoRecord)
  BY <1>1, <1>2, NoRecordAssumption
<1> QED BY <1>1, <1>4, <1>5 DEF Listed

--------------------------------------------------------------------------------
(* The tick *)

\* While nothing was modified there is nothing to lose: an empty registry, no
\* failed write to try again, and files that were written when the process was
\* started with something in them.  A process that is down has no state.
Reasons ==
  /\ saveTimer => modified
  /\ mem # Empty => modified
  /\ disk # Empty => onDisk
  /\ phase = "down" => mem = Empty /\ ~saveTimer
  /\ phase = "up" /\ failed => modified

\* What a tick leaves behind, whichever of its writes fail.
LEMMA TickEffect ==
  ASSUME TypeOK, Reasons, NEW os \in [1 .. 3 -> Outcomes], TickFires(os)
  PROVE  /\ mem' \in Registries /\ disk' \in Registries
         /\ \A id \in Ids : mem'[id] \in {mem[id], NoRecord}
         /\ \A id \in Ids : mem'[id] # NoRecord => mem'[id].age <= Ttl
         /\ Listed(mem') \subseteq Listed(mem)
         /\ modified /\ ~failed' => disk' = mem'
         /\ ~modified => /\ mem' = mem /\ disk' = disk
                         /\ failed' = failed /\ saveTimer' = saveTimer
         /\ \/ Listed(disk') \cap Agents \subseteq Listed(disk) \cap Agents
            \/ Listed(disk') \cap Agents \subseteq Listed(mem) \cap Agents
         /\ disk' # Empty => onDisk'
         /\ failed' \in BOOLEAN /\ saveTimer' \in BOOLEAN /\ onDisk' \in BOOLEAN
         /\ saveTimer' => saveTimer
<1> DEFINE m1 == Pruned(mem, Agents)
           m2 == Pruned(m1, Worlds)
           d1 == IF m1 = mem THEN disk ELSE Written(os[1], disk, m1)
           d2 == IF m2 = m1 THEN d1 ELSE Written(os[2], d1, m2)
           d3 == IF SnapshotDue THEN Written(os[3], d2, m2) ELSE d2
           written == {i \in 1 .. 3 : CASE i = 1 -> m1 # mem
                                        [] i = 2 -> m2 # m1
                                        [] OTHER -> SnapshotDue}
<1>1. /\ mem' = m2
      /\ disk' = d3
      /\ onDisk' = (onDisk \/ \E i \in written : os[i] # "none")
      /\ failed' = IF written = {} THEN failed
                   ELSE \E i \in written : /\ \A j \in written : j <= i
                                           /\ os[i] # "all"
      /\ saveTimer' = (saveTimer /\ m2 = mem)
  BY DEF TickFires
<1>2. /\ mem \in Registries /\ disk \in Registries
      /\ saveTimer \in BOOLEAN /\ failed \in BOOLEAN /\ onDisk \in BOOLEAN
      /\ modified \in BOOLEAN
  BY DEF TypeOK
<1>3. os[1] \in Outcomes /\ os[2] \in Outcomes /\ os[3] \in Outcomes
  OBVIOUS
<1>4. /\ m1 \in Registries
      /\ \A id \in Ids : m1[id] \in {mem[id], NoRecord}
      /\ \A id \in Agents : m1[id] # NoRecord => mem[id].age <= Ttl
      /\ Listed(m1) \subseteq Listed(mem)
  BY <1>2, PrunedKeepsFresh DEF Ids
<1>5. /\ m2 \in Registries
      /\ \A id \in Ids : m2[id] \in {m1[id], NoRecord}
      /\ \A id \in Worlds : m2[id] # NoRecord => m1[id].age <= Ttl
      /\ Listed(m2) \subseteq Listed(m1)
  BY <1>4, PrunedKeepsFresh DEF Ids
<1>6. /\ \A id \in Ids : m2[id] \in {mem[id], NoRecord}
      /\ \A id \in Ids : m2[id] # NoRecord => m2[id].age <= Ttl
      /\ Listed(m2) \subseteq Listed(mem)
  BY <1>4, <1>5 DEF Ids
<1> DEFINE Small(d) == \/ Listed(d) \cap Agents \subseteq Listed(disk) \cap Agents
                       \/ Listed(d) \cap Agents \subseteq Listed(mem) \cap Agents
<1>7. ASSUME NEW d \in Registries, NEW m \in Registries, NEW o \in Outcomes,
             Small(d), Listed(m) \subseteq Listed(mem)
      PROVE  Small(Written(o, d, m))
  BY <1>7, WrittenIsEither
<1>8. d1 \in Registries /\ Small(d1)
  <2>1. CASE m1 = mem
    BY <1>2, <2>1
  <2>2. CASE m1 # mem
    BY <1>2, <1>3, <1>4, <1>7, <2>2, WrittenIsEither
  <2> QED BY <2>1, <2>2
<1>9. d2 \in Registries /\ Small(d2)
  <2> HIDE DEF d1, m1, m2, Small
  <2>1. CASE m2 = m1
    BY <1>8, <2>1
  <2>2. CASE m2 # m1
    BY <1>3, <1>5, <1>6, <1>7, <1>8, <2>2, WrittenIsEither
  <2> QED BY <2>1, <2>2
<1>10. d3 \in Registries /\ Small(d3)
  <2> HIDE DEF d1, d2, m1, m2, Small
  <2>1. CASE ~SnapshotDue
    BY <1>9, <2>1
  <2>2. CASE SnapshotDue
    BY <1>3, <1>5, <1>6, <1>7, <1>9, <2>2, WrittenIsEither
  <2> QED BY <2>1, <2>2
<1>11. ASSUME modified, ~failed'
       PROVE  disk' = mem'
  <2> HIDE DEF d1, d2, m1, m2
  <2>1. 3 \in written /\ \A j \in written : j <= 3
    BY <1>11 DEF SnapshotDue
  <2>2. os[3] = "all"
    <3> HIDE DEF written
    <3> QED BY <1>1, <1>11, <2>1
  <2>3. d3 = m2
    BY <1>5, <1>9, <1>11, <2>2, WrittenAll DEF SnapshotDue
  <2> QED BY <1>1, <2>3
<1>12. ASSUME ~modified
       PROVE  mem' = mem /\ disk' = disk /\ failed' = failed /\ saveTimer' = saveTimer
  <2>1. mem = Empty
    BY <1>12 DEF Reasons
  <2>2. m1 = Empty
    BY <2>1 DEF Pruned, Empty
  <2>3. m2 = Empty
    <3> HIDE DEF m1
    <3> QED BY <2>2 DEF Pruned, Empty
  <2> HIDE DEF m1, m2
  <2>4. d3 = disk
    BY <1>12, <2>1, <2>2, <2>3 DEF SnapshotDue
  <2>5. written = {}
    BY <1>12, <2>1, <2>2, <2>3 DEF SnapshotDue
  <2> HIDE DEF written, d3
  <2> QED BY <1>1, <1>2, <2>1, <2>3, <2>4, <2>5
<1>13. ASSUME disk' # Empty, ~onDisk'
       PROVE  FALSE
  <2>1. \A i \in written : os[i] = "none"
    <3> HIDE DEF written
    <3> QED BY <1>1, <1>13
  <2>2. m1 # mem => os[1] = "none"
    <3> HIDE DEF m1, m2
    <3> QED BY <2>1
  <2>3. m2 # m1 => os[2] = "none"
    <3> HIDE DEF m1, m2
    <3> QED BY <2>1
  <2>4. SnapshotDue => os[3] = "none"
    <3> HIDE DEF m1, m2
    <3> QED BY <2>1
  <2> HIDE DEF m1, m2
  <2>5. d1 = disk
    BY <1>2, <1>4, <2>2, WrittenIsEither DEF Outcomes
  <2>6. d2 = disk
    <3> HIDE DEF d1
    <3> QED BY <1>2, <1>5, <2>3, <2>5, WrittenIsEither DEF Outcomes
  <2>7. d3 = disk
    <3> HIDE DEF d1, d2
    <3> QED BY <1>2, <1>5, <2>4, <2>6, WrittenIsEither DEF Outcomes
  <2> HIDE DEF d1, d2, d3, written
  <2> QED BY <1>1, <1>13, <2>7 DEF Reasons
<1>14. failed' \in BOOLEAN /\ saveTimer' \in BOOLEAN /\ onDisk' \in BOOLEAN
  <2> HIDE DEF written, m1, m2
  <2> QED BY <1>1, <1>2
<1>15. onDisk' \/ disk' = Empty
  BY <1>13
<1> HIDE DEF m1, m2, d1, d2, d3, written
<1> QED BY <1>1, <1>2, <1>5, <1>6, <1>10, <1>11, <1>12, <1>14, <1>15

--------------------------------------------------------------------------------
(* One write, one announce *)

\* What a write of the files leaves behind.
LEMMA WriteEffect ==
  ASSUME TypeOK, Reasons, NEW o \in Outcomes, NEW m \in Registries, Write(o, m)
  PROVE  /\ disk' \in Registries /\ onDisk' \in BOOLEAN /\ failed' \in BOOLEAN
         /\ ~failed' => disk' = m
         /\ \A id \in Ids : disk'[id] \in {disk[id], m[id]}
         /\ disk' # Empty => onDisk'
         /\ Listed(disk') \cap Agents \in {Listed(disk) \cap Agents, Listed(m) \cap Agents}
<1>1. disk \in Registries /\ onDisk \in BOOLEAN
  BY DEF TypeOK
<1>2. CASE o = "none"
  BY <1>1, <1>2, WrittenIsEither DEF Write, Reasons
<1>3. CASE o # "none"
  BY <1>1, <1>3, WrittenIsEither, WrittenAll DEF Write
<1> QED BY <1>2, <1>3

\* With no save pending and no failed write, the files have every record as it is
\* registered, or are behind with its lastSeen since the last tick, or have one that
\* the last start found stale.
InStepAt(id) ==
  \/ mem[id] = disk[id]
  \/ SeenLater(id) /\ (phase = "up" => mem[id].age <= sinceTick)
  \/ mem[id] = NoRecord /\ disk[id] # NoRecord /\ disk[id].age > Ttl

InStep ==
  phase # "down" /\ ~saveTimer /\ ~failed => \A id \in Ids : InStepAt(id)

\* Files that agree with the registries leave nothing to save.
LEMMA Clean ==
  ASSUME mem' \in Registries, disk' = mem'
  PROVE  InStep' /\ WorldsNotRevived'
<1>1. \A id \in Ids : InStepAt(id)'
  BY DEF InStepAt
<1>2. \A id \in Ids : ~(Revived(id)')
  BY DEF Revived, Loaded
<1> QED BY <1>1, <1>2 DEF InStep, WorldsNotRevived, Ids

\* What a restart would not restore is due to be written.
LEMMA InStepForgetsNothing ==
  ASSUME TypeOK, Reasons, InStep
  PROVE  NothingForgotten
<1> SUFFICES ASSUME NEW id \in Ids, phase # "down", ~saveTimer, ~Restored(id)
             PROVE  /\ phase = "up" => DueAtTick(id)
                    /\ phase = "stopping" => failed \/ SeenLater(id)
  BY DEF NothingForgotten
<1>1. CASE failed
  BY <1>1 DEF Reasons, DueAtTick
<1>2. CASE ~failed
  <2>1. InStepAt(id)
    BY <1>2 DEF InStep
  <2>2. mem[id] # disk[id]
    BY DEF Restored, Loaded
  <2>3. ~(mem[id] = NoRecord /\ disk[id] # NoRecord /\ disk[id].age > Ttl)
    BY DEF Restored, Loaded
  <2>4. SeenLater(id) /\ (phase = "up" => mem[id].age <= sinceTick)
    BY <2>1, <2>2, <2>3 DEF InStepAt
  <2>5. mem # Empty
    BY <2>4 DEF SeenLater, Empty
  <2> QED BY <2>4, <2>5 DEF Reasons, DueAtTick
<1> QED BY <1>1, <1>2

\* An announce of an agent adds its record, and when the registry is over its
\* capacity removes another.
LEMMA AnnounceEffect ==
  ASSUME TypeOK, AgentCap, NEW a \in Agents, NEW c \in Contents, AnnounceAgent(a, c)
  PROVE  /\ mem' \in Registries
         /\ mem'[a] = [age |-> 0, content |-> c]
         /\ \A id \in Ids \ {a} : mem'[id] = mem[id] \/ (id \in Agents /\ mem'[id] = NoRecord)
         /\ Cardinality(Listed(mem') \cap Agents) <= MaxAgents
         /\ saveTimer' \/ (saveTimer' = saveTimer /\ mem' = mem)
         /\ saveTimer' \in BOOLEAN /\ modified' \in BOOLEAN
         /\ modified' \/ ~(saveTimer' /\ ~saveTimer)
         /\ modified' \/ (modified' = modified /\ mem' = mem)
<1> DEFINE new == [age |-> 0, content |-> c]
           m == [mem EXCEPT ![a] = new]
           others == (Listed(mem) \cap Agents) \ {a}
<1>1. mem \in Registries /\ saveTimer \in BOOLEAN /\ modified \in BOOLEAN /\ a \in Ids
  BY DEF TypeOK, Ids
<1>2. new \in Records
  BY DEF Records
<1>3. m \in Registries /\ m[a] = new /\ \A id \in Ids \ {a} : m[id] = mem[id]
  BY <1>1, <1>2 DEF Registries
<1>4. new # NoRecord
  BY <1>2, NoRecordAssumption
<1>5. Listed(m) \cap Agents = others \cup {a}
  BY <1>1, <1>3, <1>4 DEF Listed, Ids
<1>6. (Listed(m) \cap Agents) \ {a} = others
  BY <1>5
<1>7. IsFiniteSet(Listed(mem) \cap Agents) /\ IsFiniteSet(others)
  <2>1. Listed(mem) \cap Agents \subseteq Ids /\ others \subseteq Ids
    BY DEF Listed
  <2> QED BY <2>1, IdsAssumption, FS_Subset
<1>8. Cardinality(Listed(mem) \cap Agents) \in Nat /\ Cardinality(others) \in Nat
  BY <1>7, FS_CardinalityType
<1>9. Cardinality(Listed(mem) \cap Agents) <= MaxAgents
  BY DEF AgentCap
<1>10. Cardinality(others \cup {a}) = Cardinality(others) + 1
  BY <1>7, FS_AddElement
<1>11. CASE ~OverCap(Cardinality(others \cup {a}))
            /\ mem' = m /\ \E changed \in Changed(mem[a], m[a]) : Persist(changed)
  <2>1. Cardinality(Listed(mem') \cap Agents) <= MaxAgents
    <3>1. Listed(mem') \cap Agents = others \cup {a}
      BY <1>5, <1>11
    <3> HIDE DEF m, others
    <3>2. ~(Cardinality(others) + 1 > MaxAgents)
      BY <1>10, <1>11 DEF OverCap
    <3>3. Cardinality(Listed(mem') \cap Agents) = Cardinality(others) + 1
      BY <3>1, <1>10
    <3> QED BY <1>8, <3>2, <3>3, TimesAssumption
  <2>2. PICK changed \in Changed(mem[a], m[a]) : Persist(changed)
    BY <1>11
  <2>3. changed \in BOOLEAN /\ (~changed => mem' = mem)
    BY <1>1, <1>3, <1>11 DEF Changed, Registries
  <2> QED BY <1>1, <1>3, <1>11, <2>1, <2>2, <2>3 DEF Persist
<1>12. CASE /\ OverCap(Cardinality(others \cup {a}))
            /\ \E old \in Oldest(m, others) : mem' = [m EXCEPT ![old] = NoRecord]
            /\ Persist(TRUE)
  <2>1. PICK old \in others : mem' = [m EXCEPT ![old] = NoRecord]
    BY <1>12 DEF Oldest
  <2>2. old \in Ids /\ old # a /\ old \in Agents
    BY <2>1 DEF Ids
  <2>3. mem' \in Registries /\ mem'[old] = NoRecord /\ \A id \in Ids \ {old} : mem'[id] = m[id]
    BY <1>3, <2>1, <2>2 DEF Registries
  <2>4. Listed(mem') \cap Agents = (others \cup {a}) \ {old}
    BY <1>5, <2>2, <2>3 DEF Listed
  <2>5. a \notin Listed(mem)
    <3>1. SUFFICES ASSUME a \in Listed(mem) PROVE FALSE
      OBVIOUS
    <3>2. others \cup {a} = Listed(mem) \cap Agents
      BY <3>1
    <3> QED BY <1>8, <1>9, <1>12, <3>2, TimesAssumption DEF OverCap
  <2>6. others = Listed(mem) \cap Agents
    BY <2>5
  <2>7. /\ IsFiniteSet(others \cup {a})
        /\ Cardinality((others \cup {a}) \ {old}) = Cardinality(others \cup {a}) - 1
    BY <1>7, <2>1, FS_AddElement, FS_RemoveElement
  <2>8. Cardinality(Listed(mem') \cap Agents) <= MaxAgents
    <3>1. Cardinality(others) <= MaxAgents
      BY <1>9, <2>6
    <3> HIDE DEF m, others
    <3>2. Cardinality(Listed(mem') \cap Agents) = Cardinality(others \cup {a}) - 1
      BY <2>4, <2>7, Zenon
    <3> QED BY <1>8, <1>10, <3>1, <3>2, TimesAssumption
  <2> QED BY <1>1, <1>3, <1>12, <2>2, <2>3, <2>8 DEF Persist
<1> QED BY <1>6, <1>11, <1>12 DEF AnnounceAgent

--------------------------------------------------------------------------------
(* The inductive invariant *)

IInv ==
  /\ TypeOK
  /\ Reasons
  /\ AgentCap
  /\ InStep
  /\ WorldsNotRevived

\* Fewer agents are within the cap too.
LEMMA CapOfSubset ==
  ASSUME NEW S \in SUBSET Ids, NEW T \in SUBSET S, Cardinality(S) <= MaxAgents
  PROVE  Cardinality(T) <= MaxAgents
<1>1. IsFiniteSet(S)
  BY IdsAssumption, FS_Subset
<1>2. Cardinality(T) <= Cardinality(S) /\ Cardinality(T) \in Nat /\ Cardinality(S) \in Nat
  BY <1>1, FS_Subset, FS_CardinalityType
<1> QED BY <1>2, TimesAssumption

\* Nothing is listed in an empty registry.
LEMMA EmptyRegistry ==
  /\ Empty \in Registries
  /\ Listed(Empty) = {}
  /\ Cardinality({}) = 0
  /\ Loaded(Empty) = Empty
BY FS_EmptySet DEF Empty, Registries, Listed, Loaded

LEMMA InitIInv ==
  ASSUME Init
  PROVE  IInv
<1>1. TypeOK /\ Reasons
  <2>1. TypeOK
    <3>1. sinceTick \in 0 .. TickPeriod
      BY TimesAssumption DEF Init
    <3>2. saveTimer \in BOOLEAN /\ modified \in BOOLEAN /\ failed \in BOOLEAN /\ onDisk \in BOOLEAN
      BY DEF Init
    <3> QED BY <3>1, <3>2, EmptyRegistry DEF Init, TypeOK
  <2>2. Reasons
    BY DEF Init, Reasons
  <2> QED BY <2>1, <2>2
<1>2. AgentCap
  <2>1. Listed(Empty) \cap Agents = {}
    BY EmptyRegistry
  <2> QED BY <2>1, EmptyRegistry, TimesAssumption DEF Init, AgentCap
<1>3. InStep /\ WorldsNotRevived
  BY DEF Init, InStep, WorldsNotRevived, Serving
<1> QED BY <1>1, <1>2, <1>3 DEF IInv

\* The announces.
LEMMA AnnounceAgentIInv ==
  ASSUME IInv, NEW a \in Agents, NEW c \in Contents, AnnounceAgent(a, c)
  PROVE  IInv'
<1>1. /\ TypeOK /\ Reasons /\ AgentCap /\ InStep /\ WorldsNotRevived
      /\ UNCHANGED <<disk, onDisk, phase, failed, sinceTick>> /\ phase # "down"
  BY DEF IInv, AnnounceAgent, Serving
<1>2. /\ mem' \in Registries
      /\ mem'[a] = [age |-> 0, content |-> c]
      /\ \A id \in Ids \ {a} : mem'[id] = mem[id] \/ (id \in Agents /\ mem'[id] = NoRecord)
      /\ Cardinality(Listed(mem') \cap Agents) <= MaxAgents
      /\ saveTimer' \/ (saveTimer' = saveTimer /\ mem' = mem)
      /\ saveTimer' \in BOOLEAN /\ modified' \in BOOLEAN
      /\ modified' \/ ~(saveTimer' /\ ~saveTimer)
      /\ modified' \/ (modified' = modified /\ mem' = mem)
  BY <1>1, AnnounceEffect
<1>3. TypeOK'
  BY <1>1, <1>2 DEF TypeOK
<1>4. Reasons'
  BY <1>1, <1>2 DEF Reasons, TypeOK
<1>5. AgentCap'
  BY <1>1, <1>2 DEF AgentCap
<1>6. InStep'
  <2>1. CASE saveTimer'
    BY <2>1 DEF InStep
  <2>2. CASE ~saveTimer'
    <3>1. mem' = mem /\ saveTimer' = saveTimer
      BY <1>2, <2>2
    <3> QED BY <1>1, <3>1 DEF InStep, InStepAt, SeenLater
  <2> QED BY <2>1, <2>2
<1>7. WorldsNotRevived'
  <2>1. \A w \in Worlds : mem'[w] = mem[w]
    BY <1>2, IdsAssumption DEF Ids
  <2> QED BY <1>1, <2>1 DEF WorldsNotRevived, Revived, Loaded, Serving
<1> QED BY <1>3, <1>4, <1>5, <1>6, <1>7 DEF IInv

LEMMA AnnounceWorldIInv ==
  ASSUME IInv, NEW w \in Worlds, NEW c \in Contents, NEW t \in Stamps,
         AnnounceWorld(w, c, t)
  PROVE  IInv'
<1> DEFINE new == [age |-> Later(mem[w], t), content |-> c]
<1>1. /\ TypeOK /\ Reasons /\ AgentCap /\ InStep /\ WorldsNotRevived
      /\ UNCHANGED <<disk, onDisk, phase, failed, sinceTick>> /\ phase # "down"
      /\ mem' = [mem EXCEPT ![w] = new]
      /\ mem \in Registries /\ w \in Ids /\ w \notin Agents
  BY IdsAssumption DEF IInv, AnnounceWorld, Serving, TypeOK, Ids
<1>2. PICK changed \in Changed(mem[w], new) : Persist(changed)
  BY DEF AnnounceWorld
<1>3. t \in Int
  BY TimesAssumption
<1>4. new \in Records
  <2>1. mem[w] = NoRecord \/ mem[w] \in Records
    BY <1>1 DEF Registries
  <2>2. CASE mem[w] # NoRecord /\ mem[w].age < t
    <3>1. mem[w].age \in Int
      BY <2>1, <2>2 DEF Records
    <3> QED BY <2>2, <3>1 DEF Later, Records
  <2>3. CASE ~(mem[w] # NoRecord /\ mem[w].age < t)
    BY <1>3, <2>3 DEF Later, Records
  <2> QED BY <2>2, <2>3
<1> HIDE DEF new
<1>5. mem' \in Registries /\ mem'[w] = new /\ \A id \in Ids \ {w} : mem'[id] = mem[id]
  BY <1>1, <1>4 DEF Registries
<1>6. changed \in BOOLEAN /\ (~changed => mem' = mem)
  BY <1>1, <1>2, <1>5 DEF Changed, Registries
<1>7. /\ saveTimer' = (saveTimer \/ changed) /\ modified' = (modified \/ changed)
      /\ saveTimer \in BOOLEAN /\ modified \in BOOLEAN
  BY <1>1, <1>2 DEF Persist, TypeOK
<1>8. TypeOK'
  BY <1>1, <1>5, <1>6, <1>7 DEF TypeOK
<1>9. Reasons'
  BY <1>1, <1>6, <1>7 DEF Reasons
<1>10. AgentCap'
  <2>1. Listed(mem') \cap Agents = Listed(mem) \cap Agents
    BY <1>1, <1>5 DEF Listed
  <2> QED BY <1>1, <2>1 DEF AgentCap
<1>11. InStep'
  <2>1. CASE changed
    BY <1>7, <2>1 DEF InStep
  <2>2. CASE ~changed
    BY <1>1, <1>6, <1>7, <2>2 DEF InStep, InStepAt, SeenLater
  <2> QED BY <1>6, <2>1, <2>2
<1>12. WorldsNotRevived'
  <2>1. \A v \in Worlds : mem'[v] = NoRecord => mem[v] = NoRecord
    BY <1>4, <1>5, NoRecordAssumption DEF Ids
  <2> QED BY <1>1, <2>1 DEF WorldsNotRevived, Revived, Loaded, Serving
<1> QED BY <1>8, <1>9, <1>10, <1>11, <1>12 DEF IInv

LEMMA HeartbeatIInv ==
  ASSUME IInv, NEW i \in Ids, Heartbeat(i)
  PROVE  IInv'
<1> DEFINE new == [age |-> 0, content |-> mem[i].content]
<1>1. /\ TypeOK /\ Reasons /\ AgentCap /\ InStep /\ WorldsNotRevived
      /\ UNCHANGED <<disk, onDisk, phase, saveTimer, failed, sinceTick>> /\ phase # "down"
      /\ mem' = [mem EXCEPT ![i] = new] /\ modified' = TRUE
      /\ mem[i] \in Records /\ mem[i] # NoRecord /\ mem \in Registries
  BY DEF IInv, Heartbeat, Serving, TypeOK, Registries
<1>2. new \in Records /\ new.age = 0 /\ new.content = mem[i].content
  BY <1>1 DEF Records
<1> HIDE DEF new
<1>3. mem' \in Registries /\ mem'[i] = new /\ \A id \in Ids \ {i} : mem'[id] = mem[id]
  BY <1>1, <1>2 DEF Registries
<1>4. \A id \in Ids : /\ mem'[id] = NoRecord <=> mem[id] = NoRecord
                      /\ mem'[id].content = mem[id].content
  BY <1>1, <1>2, <1>3, NoRecordAssumption
<1>5. TypeOK' /\ Reasons'
  <2>1. TypeOK'
    BY <1>1, <1>3 DEF TypeOK
  <2>2. Reasons'
    BY <1>1 DEF Reasons
  <2> QED BY <2>1, <2>2
<1>6. AgentCap'
  <2>1. Listed(mem') = Listed(mem)
    BY <1>4 DEF Listed
  <2> QED BY <1>1, <2>1 DEF AgentCap
<1>7. InStep'
  <2> SUFFICES ASSUME ~saveTimer, ~failed, NEW id \in Ids
               PROVE  InStepAt(id)'
    BY <1>1 DEF InStep
  <2>1. InStepAt(id)
    BY <1>1 DEF InStep
  <2>2. CASE id = i
    <3>1. disk[id] # NoRecord /\ mem[id].content = disk[id].content
      BY <1>1, <2>1, <2>2 DEF InStepAt, SeenLater
    <3>2. 0 <= sinceTick
      BY <1>1, TimesAssumption DEF TypeOK
    <3> QED BY <1>1, <1>2, <1>3, <1>4, <2>2, <3>1, <3>2 DEF InStepAt, SeenLater
  <2>3. CASE id # i
    BY <1>1, <1>3, <2>1, <2>3 DEF InStepAt, SeenLater
  <2> QED BY <2>2, <2>3
<1>8. WorldsNotRevived'
  <2>1. \A id \in Ids : Revived(id)' => Revived(id)
    BY <1>1, <1>4 DEF Revived, Loaded
  <2> QED BY <1>1, <2>1 DEF WorldsNotRevived, Serving, Ids
<1> QED BY <1>5, <1>6, <1>7, <1>8 DEF IInv

--------------------------------------------------------------------------------
(* The writes *)

\* A write of what is registered, by whichever timer or handler, while the tick
\* has a reason to try again or nothing to restore.
LEMMA WriteIInv ==
  ASSUME IInv, NEW o \in Outcomes, Write(o, mem'),
         mem' \in Registries, Listed(mem') \subseteq Listed(mem),
         modified' \in BOOLEAN, modified => modified',
         modified' \/ mem' = mem, phase' = "up" => modified',
         phase' \in {"up", "stopping"}, ~saveTimer', saveTimer' \in BOOLEAN,
         phase # "down", sinceTick' \in 0 .. TickPeriod
  PROVE  /\ TypeOK' /\ Reasons' /\ AgentCap'
         /\ InStep' /\ WorldsNotRevived'
<1>1. /\ TypeOK /\ Reasons /\ AgentCap /\ InStep /\ WorldsNotRevived
  BY DEF IInv
<1>2. /\ disk' \in Registries /\ onDisk' \in BOOLEAN /\ failed' \in BOOLEAN
      /\ ~failed' => disk' = mem'
      /\ \A id \in Ids : disk'[id] \in {disk[id], mem'[id]}
      /\ disk' # Empty => onDisk'
      /\ Listed(disk') \cap Agents \in {Listed(disk) \cap Agents, Listed(mem') \cap Agents}
  BY <1>1, WriteEffect
<1>3. TypeOK'
  BY <1>2 DEF TypeOK
<1>4. Reasons'
  BY <1>1, <1>2 DEF Reasons
<1>5. AgentCap'
  <2>1. Cardinality(Listed(mem') \cap Agents) <= MaxAgents
    <3>1. /\ Listed(mem) \cap Agents \in SUBSET Ids
          /\ Listed(mem') \cap Agents \in SUBSET (Listed(mem) \cap Agents)
      BY DEF Listed
    <3> QED BY <1>1, <3>1, CapOfSubset DEF AgentCap
  <2>2. Cardinality(Listed(disk') \cap Agents) <= MaxAgents
    BY <1>1, <1>2, <2>1 DEF AgentCap
  <2> QED BY <2>1, <2>2 DEF AgentCap
<1>6. CASE ~failed'
  BY <1>2, <1>3, <1>4, <1>5, <1>6, Clean
<1>7. CASE failed'
  BY <1>3, <1>4, <1>5, <1>7 DEF InStep, WorldsNotRevived
<1> QED BY <1>2, <1>6, <1>7

LEMMA DeregisterIInv ==
  ASSUME IInv, NEW i \in Ids, NEW o \in Outcomes, Deregister(i, o)
  PROVE  IInv'
<1>1. /\ TypeOK /\ phase # "down" /\ UNCHANGED <<phase, sinceTick>>
      /\ mem' = [mem EXCEPT ![i] = NoRecord] /\ modified' = TRUE
      /\ saveTimer' = FALSE /\ Write(o, mem')
      /\ mem \in Registries /\ sinceTick \in 0 .. TickPeriod
      /\ phase \in {"up", "stopping", "down"}
  BY DEF IInv, Deregister, Flush, Serving, TypeOK
<1>2. mem' \in Registries /\ \A id \in Ids : mem'[id] \in {mem[id], NoRecord}
  BY <1>1 DEF Registries
<1>3. Listed(mem') \subseteq Listed(mem)
  BY <1>2 DEF Listed
<1>4. TypeOK' /\ Reasons' /\ AgentCap' /\ InStep' /\ WorldsNotRevived'
  BY <1>1, <1>2, <1>3, WriteIInv
<1> QED BY <1>4 DEF IInv

LEMMA SaveFiresIInv ==
  ASSUME IInv, NEW o \in Outcomes, SaveFires(o)
  PROVE  IInv'
<1>1. /\ TypeOK /\ phase # "down"
      /\ UNCHANGED <<mem, phase, modified, sinceTick>> /\ modified
      /\ saveTimer' = FALSE /\ Write(o, mem')
      /\ mem \in Registries /\ sinceTick \in 0 .. TickPeriod /\ modified \in BOOLEAN
      /\ phase \in {"up", "stopping", "down"}
  BY DEF IInv, Reasons, SaveFires, Serving, TypeOK, Write
<1>2. TypeOK' /\ Reasons' /\ AgentCap' /\ InStep' /\ WorldsNotRevived'
  BY <1>1, WriteIInv
<1> QED BY <1>2 DEF IInv

LEMMA StopIInv ==
  ASSUME IInv, NEW o \in Outcomes, Stop(o)
  PROVE  IInv'
<1>1. /\ TypeOK /\ phase = "up" /\ phase' = "stopping"
      /\ UNCHANGED <<mem, modified>> /\ sinceTick' = 0
      /\ saveTimer' = FALSE /\ Write(o, mem')
      /\ mem \in Registries /\ modified \in BOOLEAN
  BY DEF IInv, Stop, Flush, TypeOK, Write
<1>2. 0 \in 0 .. TickPeriod
  BY TimesAssumption
<1>3. TypeOK' /\ Reasons' /\ AgentCap' /\ InStep' /\ WorldsNotRevived'
  BY <1>1, <1>2, WriteIInv
<1> QED BY <1>3 DEF IInv

LEMMA TickFiresIInv ==
  ASSUME IInv, NEW os \in [1 .. 3 -> Outcomes], TickFires(os)
  PROVE  IInv'
<1>1. /\ TypeOK /\ Reasons /\ AgentCap /\ InStep /\ WorldsNotRevived
      /\ phase = "up" /\ UNCHANGED <<phase, modified>> /\ sinceTick' = 0
      /\ modified \in BOOLEAN
  BY DEF IInv, TickFires, TypeOK
<1>2. /\ mem' \in Registries /\ disk' \in Registries
      /\ \A id \in Ids : mem'[id] \in {mem[id], NoRecord}
      /\ \A id \in Ids : mem'[id] # NoRecord => mem'[id].age <= Ttl
      /\ Listed(mem') \subseteq Listed(mem)
      /\ modified /\ ~failed' => disk' = mem'
      /\ ~modified => mem' = mem /\ disk' = disk /\ failed' = failed /\ saveTimer' = saveTimer
      /\ \/ Listed(disk') \cap Agents \subseteq Listed(disk) \cap Agents
         \/ Listed(disk') \cap Agents \subseteq Listed(mem) \cap Agents
      /\ disk' # Empty => onDisk'
      /\ failed' \in BOOLEAN /\ saveTimer' \in BOOLEAN /\ onDisk' \in BOOLEAN
      /\ saveTimer' => saveTimer
  BY <1>1, TickEffect
<1>3. TypeOK'
  <2>1. sinceTick' \in 0 .. TickPeriod
    BY <1>1, TimesAssumption
  <2> QED BY <1>1, <1>2, <2>1 DEF TypeOK
<1>4. Reasons'
  <2>1. saveTimer' => modified'
    BY <1>1, <1>2 DEF Reasons
  <2>2. mem' # Empty => modified'
    BY <1>1, <1>2 DEF Reasons
  <2> QED BY <1>1, <1>2, <2>1, <2>2 DEF Reasons
<1>5. AgentCap'
  <2>1. /\ Listed(mem) \cap Agents \in SUBSET Ids /\ Listed(disk) \cap Agents \in SUBSET Ids
        /\ Listed(mem') \cap Agents \in SUBSET (Listed(mem) \cap Agents)
    BY <1>2 DEF Listed
  <2>2. /\ Cardinality(Listed(mem) \cap Agents) <= MaxAgents
        /\ Cardinality(Listed(disk) \cap Agents) <= MaxAgents
    BY <1>1 DEF AgentCap
  <2>3. Cardinality(Listed(mem') \cap Agents) <= MaxAgents
    BY <2>1, <2>2, CapOfSubset
  <2>4. Cardinality(Listed(disk') \cap Agents) <= MaxAgents
    BY <1>2, <2>1, <2>2, CapOfSubset
  <2> QED BY <2>3, <2>4 DEF AgentCap
<1>6. InStep' /\ WorldsNotRevived'
  <2>1. CASE modified /\ ~failed'
    BY <1>2, <2>1, Clean
  <2>2. CASE modified /\ failed'
    BY <1>1, <2>2 DEF InStep, WorldsNotRevived
  <2>3. CASE ~modified
    <3>1. \A id \in Ids : mem[id] = NoRecord
      BY <1>1, <2>3 DEF Reasons, Empty
    <3>2. InStep'
      BY <1>1, <1>2, <2>3, <3>1 DEF InStep, InStepAt, SeenLater
    <3>3. WorldsNotRevived'
      BY <1>1, <1>2, <2>3 DEF WorldsNotRevived, Revived, Loaded, Serving
    <3> QED BY <3>2, <3>3
  <2> QED BY <1>1, <1>2, <2>1, <2>2, <2>3
<1> QED BY <1>3, <1>4, <1>5, <1>6 DEF IInv

--------------------------------------------------------------------------------
(* Time, start and end *)

LEMMA AdvanceIInv ==
  ASSUME IInv, Advance
  PROVE  IInv'
<1>1. /\ TypeOK /\ Reasons /\ AgentCap /\ InStep /\ WorldsNotRevived
      /\ UNCHANGED <<onDisk, phase, saveTimer, modified, failed>>
      /\ mem' = Older(mem) /\ disk' = Older(disk)
      /\ mem \in Registries /\ disk \in Registries
      /\ sinceTick \in 0 .. TickPeriod
  BY DEF IInv, Advance, TypeOK
<1>2. /\ mem' \in Registries /\ disk' \in Registries
      /\ Listed(mem') = Listed(mem) /\ Listed(disk') = Listed(disk)
      /\ \A id \in Ids : mem'[id] = NoRecord <=> mem[id] = NoRecord
      /\ \A id \in Ids : disk'[id] = NoRecord <=> disk[id] = NoRecord
      /\ \A id \in Ids : mem[id] # NoRecord =>
           mem'[id].content = mem[id].content /\ mem'[id].age <= mem[id].age + 1
      /\ \A id \in Ids : disk[id] # NoRecord =>
           disk'[id].content = disk[id].content /\ disk[id].age <= disk'[id].age
  BY <1>1, OlderKeepsContent
<1>3. TypeOK'
  <2>1. sinceTick' \in 0 .. TickPeriod
    BY <1>1, TimesAssumption DEF Advance, TickDue
  <2> QED BY <1>1, <1>2, <2>1 DEF TypeOK
<1>4. Reasons'
  <2>1. mem' = Empty <=> mem = Empty
    BY <1>1, <1>2 DEF Empty, Registries
  <2>2. disk' = Empty <=> disk = Empty
    BY <1>1, <1>2 DEF Empty, Registries
  <2> QED BY <1>1, <2>1, <2>2 DEF Reasons
<1>5. AgentCap'
  BY <1>1, <1>2 DEF AgentCap
<1>6. InStep'
  <2> SUFFICES ASSUME phase # "down", ~saveTimer, ~failed, NEW id \in Ids
               PROVE  InStepAt(id)'
    BY <1>1 DEF InStep
  <2>1. InStepAt(id)
    BY DEF InStep, IInv
  <2>2. CASE mem[id] = disk[id]
    <3>1. mem'[id] = disk'[id]
      BY <1>1, <2>2 DEF Older
    <3> QED BY <3>1 DEF InStepAt
  <2>3. CASE SeenLater(id) /\ (phase = "up" => mem[id].age <= sinceTick)
    <3>1. SeenLater(id)'
      BY <1>2, <2>3 DEF SeenLater
    <3>2. ASSUME phase = "up"
          PROVE  mem'[id].age <= sinceTick'
      <4>1. sinceTick' = sinceTick + 1
        BY <3>2 DEF Advance
      <4>2. mem[id] \in Records /\ mem'[id] \in Records /\ mem'[id].age <= mem[id].age + 1
        BY <1>1, <1>2, <2>3 DEF SeenLater, Registries
      <4> QED BY <1>1, <2>3, <3>2, <4>1, <4>2, TimesAssumption DEF Records
    <3> QED BY <1>1, <3>1, <3>2 DEF InStepAt
  <2>4. CASE mem[id] = NoRecord /\ disk[id] # NoRecord /\ disk[id].age > Ttl
    <3>1. disk[id] \in Records /\ disk'[id] \in Records /\ disk[id].age <= disk'[id].age
      BY <1>1, <1>2, <2>4 DEF Registries
    <3>2. disk'[id].age > Ttl
      BY <2>4, <3>1, TimesAssumption DEF Records
    <3> QED BY <1>2, <2>4, <3>2 DEF InStepAt
  <2> QED BY <2>1, <2>2, <2>3, <2>4 DEF InStepAt
<1>7. WorldsNotRevived'
  <2>1. ASSUME NEW id \in Ids
        PROVE  Revived(id)' => Revived(id)
    <3>1. Loaded(disk')[id] # NoRecord => Loaded(disk)[id] # NoRecord
      <4>1. SUFFICES ASSUME disk'[id] # NoRecord, ~(disk'[id].age > Ttl)
                     PROVE  disk[id] # NoRecord /\ ~(disk[id].age > Ttl)
        BY DEF Loaded
      <4>2. disk[id] \in Records /\ disk'[id] \in Records /\ disk[id] # NoRecord
        BY <1>1, <1>2, <4>1 DEF Registries
      <4> QED BY <1>2, <4>1, <4>2, TimesAssumption DEF Records
    <3> QED BY <1>2, <3>1 DEF Revived
  <2> QED BY <1>1, <2>1 DEF WorldsNotRevived, Serving, Ids
<1> QED BY <1>3, <1>4, <1>5, <1>6, <1>7 DEF IInv

LEMMA StartIInv ==
  ASSUME IInv, Start
  PROVE  IInv'
<1>1. /\ TypeOK /\ Reasons /\ AgentCap
      /\ UNCHANGED <<disk, onDisk, saveTimer>> /\ phase = "down" /\ phase' = "up"
      /\ mem' = Loaded(disk) /\ modified' = onDisk /\ failed' = FALSE /\ sinceTick' = 0
      /\ disk \in Registries /\ onDisk \in BOOLEAN
  BY DEF IInv, Start, TypeOK
<1>2. /\ mem' \in Registries
      /\ \A id \in Ids : mem'[id] \in {disk[id], NoRecord}
      /\ \A id \in Ids : mem'[id] # NoRecord => disk[id].age <= Ttl
      /\ Listed(mem') \subseteq Listed(disk)
  BY <1>1, LoadedKeepsFresh
<1>3. TypeOK'
  <2>1. sinceTick' \in 0 .. TickPeriod
    BY <1>1, TimesAssumption
  <2>2. modified' \in BOOLEAN /\ failed' \in BOOLEAN
    BY <1>1
  <2> QED BY <1>1, <1>2, <2>1, <2>2 DEF TypeOK
<1>4. Reasons'
  <2>1. mem' # Empty => disk # Empty
    BY <1>1, EmptyRegistry
  <2> QED BY <1>1, <2>1 DEF Reasons
<1>5. AgentCap'
  <2>1. /\ Listed(disk) \cap Agents \in SUBSET Ids
        /\ Listed(mem') \cap Agents \in SUBSET (Listed(disk) \cap Agents)
    BY <1>2 DEF Listed
  <2>2. Cardinality(Listed(disk) \cap Agents) <= MaxAgents
    BY <1>1 DEF AgentCap
  <2>3. Cardinality(Listed(mem') \cap Agents) <= MaxAgents
    BY <2>1, <2>2, CapOfSubset
  <2> QED BY <1>1, <2>2, <2>3 DEF AgentCap
<1>6. InStep'
  <2>1. \A id \in Ids : InStepAt(id)'
    BY <1>1 DEF InStepAt, Loaded
  <2> QED BY <2>1 DEF InStep
<1>7. WorldsNotRevived'
  <2>1. \A id \in Ids : ~(Revived(id)')
    BY <1>1 DEF Revived
  <2> QED BY <2>1 DEF WorldsNotRevived, Ids
<1> QED BY <1>3, <1>4, <1>5, <1>6, <1>7 DEF IInv

LEMMA GoneIInv ==
  ASSUME IInv, Gone
  PROVE  IInv'
<1>1. /\ TypeOK /\ Reasons /\ AgentCap
      /\ UNCHANGED <<disk, onDisk, failed>> /\ phase' = "down"
      /\ mem' = Empty /\ saveTimer' = FALSE /\ modified' = FALSE /\ sinceTick' = 0
  BY DEF IInv, Gone
<1>2. TypeOK'
  <2>1. sinceTick' \in 0 .. TickPeriod
    BY <1>1, TimesAssumption
  <2>2. modified' \in BOOLEAN /\ saveTimer' \in BOOLEAN
    BY <1>1
  <2> QED BY <1>1, <2>1, <2>2, EmptyRegistry DEF TypeOK
<1>3. Reasons'
  BY <1>1 DEF Reasons
<1>4. AgentCap'
  <2>1. Listed(mem') \cap Agents = {}
    BY <1>1, EmptyRegistry
  <2>2. Cardinality(Listed(mem') \cap Agents) <= MaxAgents
    BY <2>1, EmptyRegistry, TimesAssumption
  <2> QED BY <1>1, <2>2 DEF AgentCap
<1>5. InStep' /\ WorldsNotRevived'
  BY <1>1 DEF InStep, WorldsNotRevived, Serving
<1> QED BY <1>2, <1>3, <1>4, <1>5 DEF IInv

LEMMA NextIInv ==
  ASSUME IInv, [Next]_vars
  PROVE  IInv'
<1>1. CASE UNCHANGED vars
  BY <1>1 DEF vars, IInv, TypeOK, Reasons, AgentCap, InStep, InStepAt, SeenLater,
              WorldsNotRevived, Revived, Serving
<1>2. CASE \E a \in Agents, c \in Contents : AnnounceAgent(a, c)
  BY <1>2, AnnounceAgentIInv
<1>3. CASE \E w \in Worlds, c \in Contents, t \in Stamps : AnnounceWorld(w, c, t)
  BY <1>3, AnnounceWorldIInv
<1>4. CASE \E id \in Ids : Heartbeat(id)
  BY <1>4, HeartbeatIInv
<1>5. CASE \E id \in Ids, o \in Outcomes : Deregister(id, o)
  BY <1>5, DeregisterIInv
<1>6. CASE \E o \in Outcomes : SaveFires(o) \/ Stop(o)
  BY <1>6, SaveFiresIInv, StopIInv
<1>7. CASE \E os \in [1 .. 3 -> Outcomes] : TickFires(os)
  BY <1>7, TickFiresIInv
<1>8. CASE Advance \/ Start
  BY <1>8, AdvanceIInv, StartIInv
<1>9. CASE Exit \/ Crash
  BY <1>9, GoneIInv DEF Exit, Crash
<1> QED BY <1>1, <1>2, <1>3, <1>4, <1>5, <1>6, <1>7, <1>8, <1>9 DEF Next

--------------------------------------------------------------------------------
(* What becomes stale *)

\* What Fresh says of a step.
StaysFresh(id) ==
  Overdue(id)' =>
    \/ Overdue(id) /\ sinceTick' >= sinceTick
    \/ phase = "up" /\ id \in Worlds /\ mem[id] = NoRecord

LEMMA AnnounceWorldFresh ==
  ASSUME TypeOK, NEW w \in Worlds, NEW c \in Contents, NEW t \in Stamps,
         AnnounceWorld(w, c, t), NEW id \in Ids
  PROVE  StaysFresh(id)
<1> SUFFICES ASSUME Overdue(id)'
             PROVE  \/ Overdue(id) /\ sinceTick' >= sinceTick
                    \/ phase = "up" /\ id \in Worlds /\ mem[id] = NoRecord
  BY DEF StaysFresh
<1>1. /\ mem' = [mem EXCEPT ![w] = [age |-> Later(mem[w], t), content |-> c]]
      /\ sinceTick' = sinceTick /\ phase' = phase /\ phase = "up"
      /\ mem \in Registries /\ sinceTick \in 0 .. TickPeriod /\ w \in Ids
  BY DEF AnnounceWorld, Overdue, TypeOK, Ids
<1>2. CASE id # w
  <2>1. mem'[id] = mem[id]
    BY <1>1, <1>2 DEF Registries
  <2> QED BY <1>1, <2>1, TimesAssumption DEF Overdue, Listed
<1>3. CASE id = w /\ mem[w] # NoRecord
  <2>1. mem'[w].age = Later(mem[w], t)
    BY <1>1 DEF Registries
  <2>2. mem[w].age \in Int /\ t \in Int
    BY <1>1, <1>3, TimesAssumption DEF Registries, Records
  <2>3. Later(mem[w], t) \in Int /\ Later(mem[w], t) <= mem[w].age
    BY <1>3, <2>2 DEF Later
  <2>4. Later(mem[w], t) > Ttl + sinceTick
    BY <1>1, <1>3, <2>1 DEF Overdue
  <2>5. mem[w].age > Ttl + sinceTick
    BY <1>1, <2>2, <2>3, <2>4, TimesAssumption
  <2> QED BY <1>1, <1>3, <2>5, TimesAssumption DEF Overdue, Listed
<1>4. CASE id = w /\ mem[w] = NoRecord
  BY <1>1, <1>4
<1> QED BY <1>2, <1>3, <1>4

LEMMA AdvanceFresh ==
  ASSUME TypeOK, Advance, NEW id \in Ids
  PROVE  StaysFresh(id)
<1> SUFFICES ASSUME Overdue(id)'
             PROVE  Overdue(id) /\ sinceTick' >= sinceTick
  BY DEF StaysFresh
<1>1. /\ mem' = Older(mem) /\ mem \in Registries /\ sinceTick \in 0 .. TickPeriod
      /\ phase = "up" /\ sinceTick' = sinceTick + 1
  BY DEF Advance, Overdue, TypeOK
<1>2. mem'[id] # NoRecord /\ mem'[id].age > Ttl + sinceTick'
  BY DEF Overdue, Listed
<1>3. /\ mem[id] # NoRecord /\ mem[id] \in Records /\ mem'[id] \in Records
      /\ mem'[id].age <= mem[id].age + 1
  BY <1>1, <1>2, OlderKeepsContent DEF Registries
<1>4. mem[id].age > Ttl + sinceTick
  BY <1>1, <1>2, <1>3, TimesAssumption DEF Records
<1> QED BY <1>1, <1>3, <1>4, TimesAssumption DEF Overdue, Listed

LEMMA NextFresh ==
  ASSUME IInv, [Next]_vars, NEW id \in Ids
  PROVE  StaysFresh(id)
<1> DEFINE Kept == mem'[id] \in {mem[id], NoRecord} /\ UNCHANGED <<phase, sinceTick>>
           New == mem'[id] # NoRecord => mem'[id].age <= Ttl + sinceTick'
<1>1. /\ TypeOK /\ Reasons /\ AgentCap /\ mem \in Registries /\ disk \in Registries
      /\ sinceTick \in 0 .. TickPeriod /\ Ttl \in Nat /\ TickPeriod \in Nat
  BY TimesAssumption DEF IInv, TypeOK
<1>2. Kept => StaysFresh(id)
  BY <1>1 DEF StaysFresh, Overdue, Listed
<1>3. New => StaysFresh(id)
  <2> SUFFICES ASSUME New
               PROVE  ~(Overdue(id)')
    BY DEF StaysFresh
  <2>1. sinceTick' \in 0 .. TickPeriod /\ mem' \in Registries
    <3>1. IInv'
      BY NextIInv
    <3> QED BY <3>1 DEF IInv, TypeOK
  <2>2. mem'[id] # NoRecord => mem'[id].age \in Int
    BY <2>1 DEF Registries, Records
  <2> QED BY <1>1, <2>1, <2>2 DEF Overdue, Listed
<1>4. CASE UNCHANGED vars
  BY <1>2, <1>4 DEF vars
<1>5. CASE \E a \in Agents, c \in Contents : AnnounceAgent(a, c)
  <2>1. PICK a \in Agents, c \in Contents : AnnounceAgent(a, c)
    BY <1>5
  <2>2. UNCHANGED <<phase, sinceTick>>
    BY <2>1 DEF AnnounceAgent
  <2>3. /\ mem'[a] = [age |-> 0, content |-> c]
        /\ \A i \in Ids \ {a} : mem'[i] = mem[i] \/ (i \in Agents /\ mem'[i] = NoRecord)
    BY <1>1, <2>1, AnnounceEffect
  <2>4. CASE id = a
    <3>1. mem'[id].age = 0 /\ 0 <= Ttl + sinceTick'
      BY <1>1, <2>2, <2>3, <2>4
    <3> QED BY <1>3, <3>1
  <2>5. CASE id # a
    BY <1>2, <2>2, <2>3, <2>5
  <2> QED BY <2>4, <2>5
<1>6. CASE \E w \in Worlds, c \in Contents, t \in Stamps : AnnounceWorld(w, c, t)
  BY <1>1, <1>6, AnnounceWorldFresh
<1>7. CASE \E i \in Ids : Heartbeat(i)
  <2>1. PICK i \in Ids : Heartbeat(i)
    BY <1>7
  <2>2. /\ UNCHANGED <<phase, sinceTick>> /\ mem'[i].age = 0
        /\ \A j \in Ids \ {i} : mem'[j] = mem[j]
    BY <1>1, <2>1 DEF Heartbeat, Registries
  <2>3. CASE id = i
    <3>1. mem'[id].age = 0 /\ 0 <= Ttl + sinceTick'
      BY <1>1, <2>2, <2>3
    <3> QED BY <1>3, <3>1
  <2>4. CASE id # i
    BY <1>2, <2>2, <2>4
  <2> QED BY <2>3, <2>4
<1>8. CASE \E i \in Ids, o \in Outcomes : Deregister(i, o)
  <2>1. UNCHANGED <<phase, sinceTick>> /\ \E i \in Ids : mem' = [mem EXCEPT ![i] = NoRecord]
    BY <1>8 DEF Deregister
  <2>2. mem'[id] \in {mem[id], NoRecord}
    BY <1>1, <2>1 DEF Registries
  <2> QED BY <1>2, <2>1, <2>2
<1>9. CASE \E o \in Outcomes : SaveFires(o)
  BY <1>2, <1>9 DEF SaveFires
<1>10. CASE \/ \E o \in Outcomes : Stop(o)
            \/ Exit \/ Crash
  <2>1. phase' # "up"
    BY <1>10 DEF Stop, Exit, Crash, Gone
  <2> QED BY <2>1 DEF StaysFresh, Overdue
<1>11. CASE \E os \in [1 .. 3 -> Outcomes] : TickFires(os)
  <2>1. sinceTick' = 0 /\ (mem'[id] # NoRecord => mem'[id].age <= Ttl)
    BY <1>1, <1>11, TickEffect DEF TickFires
  <2>2. Ttl + sinceTick' = Ttl
    BY <1>1, <2>1
  <2> QED BY <1>3, <2>1, <2>2
<1>12. CASE Advance
  BY <1>1, <1>12, AdvanceFresh
<1>13. CASE Start
  <2>1. /\ sinceTick' = 0 /\ Ttl + 0 = Ttl
        /\ mem'[id] # NoRecord => mem'[id] = disk[id] /\ disk[id].age <= Ttl
    BY <1>1, <1>13, LoadedKeepsFresh DEF Start
  <2> QED BY <1>3, <2>1
<1> QED BY <1>4, <1>5, <1>6, <1>7, <1>8, <1>9, <1>10, <1>11, <1>12, <1>13 DEF Next

--------------------------------------------------------------------------------
(* Theorems *)

\* The inductive invariant: a save that is pending or has failed has a reason to
\* be tried again, which is why no change is forgotten.
THEOREM Invariance == Spec => []IInv
<1>1. Init => IInv
  BY InitIInv
<1>2. IInv /\ [Next]_vars => IInv'
  BY NextIInv
<1> QED BY <1>1, <1>2, PTL DEF Spec

\* The gateway's state always has its types.
THEOREM TypeCorrect == Spec => []TypeOK
<1>1. IInv => TypeOK
  BY DEF IInv
<1> QED BY <1>1, Invariance, PTL

\* MAX_AGENTS is never exceeded, in memory or in the file.
THEOREM AgentCapHolds == Spec => []AgentCap
<1>1. IInv => AgentCap
  BY DEF IInv
<1> QED BY <1>1, Invariance, PTL

\* While the gateway is up, what a restart would not restore has a save pending or
\* is due at the next tick; once it is stopping, only what the last write failed to
\* write, and the lastSeen of records that are written, may be lost.
THEOREM NothingForgottenHolds == Spec => []NothingForgotten
<1>1. IInv => NothingForgotten
  BY InStepForgetsNothing DEF IInv
<1> QED BY <1>1, Invariance, PTL

\* No restart brings back a world whose removal was written.
THEOREM WorldsNotRevivedHolds == Spec => []WorldsNotRevived
<1>1. IInv => WorldsNotRevived
  BY DEF IInv
<1> QED BY <1>1, Invariance, PTL

\* No record that a running gateway lists becomes overdue, whatever the dates of
\* the announces: it is so from its first announce on, and until the next tick.
THEOREM FreshHolds == Spec => Fresh
<1>1. IInv /\ [Next]_vars
        => [\A id \in Ids :
              Overdue(id)' =>
                \/ Overdue(id) /\ sinceTick' >= sinceTick
                \/ phase = "up" /\ id \in Worlds /\ mem[id] = NoRecord]_vars
  BY NextFresh DEF StaysFresh
<1> QED BY <1>1, Invariance, PTL DEF Spec, Fresh
==============================================================================
