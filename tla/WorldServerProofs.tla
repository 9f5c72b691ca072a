--------------------------- MODULE WorldServerProofs ---------------------------
(***************************************************************************)
(* Theorems about WorldServer, for every value of its constants.           *)
(***************************************************************************)
EXTENDS WorldServer, FiniteSetTheorems, SequenceTheorems, TLAPS

USE DEF Slots, Kinds, Calls, Entries

--------------------------------------------------------------------------------
(* Lemmas about the helpers *)

\* A call record is not the value of a free slot.
LEMMA CallIsNotNoCall ==
  ASSUME NEW c \in Calls
  PROVE  c # NoCall
BY SlotsAssumption

\* What CallHook leaves: a well-typed call of the given kind in slot s, the
\* other slots as they were, and a well-typed hook table.
LEMMA CallHookType ==
  ASSUME TypeOK,
         NEW s \in Slots, NEW kind \in Kinds, NEW a \in Agents,
         CallHook(s, kind, a),
         kind = "evict" <=> s \in Scans
  PROVE  /\ call' \in [Slots -> Calls \cup {NoCall}]
         /\ call'[s].kind = kind /\ call'[s].agent = a
         /\ call'[s] \in Calls
         /\ \A t \in Slots : t # s => call'[t] = call[t]
         /\ \A t \in Slots : call'[t] # NoCall =>
              (call'[t].kind = "evict" <=> t \in Scans)
         /\ hooked' \in SUBSET Agents
<1>1. PICK ran \in BOOLEAN :
        /\ call' = [call EXCEPT ![s] = [kind |-> kind, agent |-> a, ran |-> ran]]
        /\ hooked' = IF ran THEN Effect(kind, a) ELSE hooked
  BY DEF CallHook
<1>2. call \in [Slots -> Calls \cup {NoCall}] /\ hooked \in SUBSET Agents
  BY DEF TypeOK
<1>3. hooked' \in SUBSET Agents
  BY <1>1, <1>2 DEF Effect
<1>4. [kind |-> kind, agent |-> a, ran |-> ran] \in Calls
  OBVIOUS
<1>5. \A t \in Slots : call[t] # NoCall => (call[t].kind = "evict" <=> t \in Scans)
  BY DEF TypeOK, Busy
<1> QED
  BY <1>1, <1>2, <1>3, <1>4, <1>5

\* AgentDb.upsert keeps the types of the database.
LEMMA UpsertType ==
  ASSUME TypeOK, NEW a \in Agents, Upsert(a)
  PROVE  known' \in SUBSET Agents /\ quiet' \in [Agents -> Nat]
BY DEF TypeOK, Upsert, Oldest, Refreshed

\* So does what a gateway's answer adds.
LEMMA DiscoveredType ==
  ASSUME TypeOK, NEW a \in Agents, NEW age \in 0 .. StaleTtl + 1, Discovered(a, age)
  PROVE  known' \in SUBSET Agents /\ quiet' \in [Agents -> Nat]
<1> DEFINE seen == IF a \in known /\ quiet[a] < age THEN quiet[a] ELSE age
           aged == [quiet EXCEPT ![a] = seen]
<1>1. known \in SUBSET Agents /\ quiet \in [Agents -> Nat] /\ seen \in Nat
  BY LimitsAssumption DEF TypeOK
<1> HIDE DEF seen
<1>2. aged \in [Agents -> Nat]
  BY <1>1
<1>3. known' \in SUBSET Agents
  BY <1>1 DEF Discovered
<1>4. quiet' = [b \in Agents |-> IF b \in known' THEN aged[b] ELSE 0]
  BY DEF Discovered, seen
<1> HIDE DEF aged
<1> QED
  BY <1>2, <1>3, <1>4

\* A scan step keeps the types of what it changes.
LEMMA EvictNextType ==
  ASSUME TypeOK, NEW k \in Scans, NEW todo \in SUBSET Agents, EvictNext(k, todo)
  PROVE  /\ present' \in SUBSET Agents /\ endpoints' \in SUBSET Agents
         /\ hooked' \in SUBSET Agents
         /\ idle' \in [Agents -> Nat]
         /\ call' \in [Slots -> Calls \cup {NoCall}]
         /\ \A t \in Slots : call'[t] # NoCall =>
              (call'[t].kind = "evict" <=> t \in Scans)
         /\ scan' \in [Scans -> SUBSET Agents]
<1>1. CASE todo = {}
  BY <1>1 DEF EvictNext, TypeOK, Busy
<1>2. CASE todo # {}
  <2>1. PICK a \in todo : /\ Drop(a)
                          /\ scan' = [j \in Scans |->
                               (IF j = k THEN todo ELSE scan[j]) \ {a}]
                          /\ CallHook(k, "evict", a)
    BY <1>2 DEF EvictNext
  <2>2. /\ present' \in SUBSET Agents /\ endpoints' \in SUBSET Agents
        /\ idle' \in [Agents -> Nat]
    BY <2>1 DEF Drop, TypeOK
  <2>3. scan' \in [Scans -> SUBSET Agents]
    BY <2>1 DEF TypeOK
  <2> QED
    BY <2>1, <2>2, <2>3, CallHookType
<1> QED
  BY <1>1, <1>2

\* What an append does to the file: one that ends well, after appends that all
\* did, adds its entry; another is remembered.
LEMMA WrittenType ==
  ASSUME TypeOK, NEW e \in Entries, NEW cut \in Cuts
  PROVE  /\ Written(e, cut) \in Files
         /\ Written(e, cut).failed <=> file.failed \/ cut # "all"
         /\ cut = "all" /\ file.end = "closed" =>
              /\ Written(e, cut).found = Append(file.found, e)
              /\ Written(e, cut).end = "closed"
<1>1. file \in Files
  BY DEF TypeOK, Files
<1>2. PICK found \in Seq(Entries) : found = file.found
  BY <1>1 DEF Files
<1> HIDE DEF Entries
<1>3. Append(found, e) \in Seq(Entries)
  OBVIOUS
<1>4. Front(found) \in Seq(Entries)
  <2>1. CASE found = << >>
    BY <2>1, SubSeqEmpty DEF Front
  <2>2. CASE found # << >>
    <3>1. Len(found) - 1 \in 0 .. Len(found)
      BY <2>2, EmptySeq
    <3> QED
      BY <3>1, SubSeqProperties DEF Front
  <2> QED
    BY <2>1, <2>2
<1>5. CASE cut = "nothing"
  BY <1>1, <1>5 DEF Written, Files
<1>6. CASE cut # "nothing" /\ file.end = "closed"
  BY <1>1, <1>2, <1>3, <1>6 DEF Written, Files, Ends, Cuts
<1>7. CASE cut # "nothing" /\ file.end # "closed"
  BY <1>1, <1>2, <1>4, <1>7 DEF Written, Files, Ends, Cuts
<1> QED
  BY <1>5, <1>6, <1>7

\* A new process is well typed.
LEMMA StartsType ==
  ASSUME TypeOK, NEW found \in Seq(Entries), StartsWith(found), file' \in Files
  PROVE  TypeOK'
BY LimitsAssumption DEF StartsWith, TypeOK, Busy, Files

\* Where a process starts, and with what.
Starts == \E found \in Seq(Entries) : StartsWith(found)

LEMMA DeathIsAStart ==
  ASSUME TypeOK,
         Restart \/ \E k \in Scans, cut \in Cuts : EvictCrashes(k, cut)
  PROVE  Starts /\ file' \in Files
<1>1. CASE Restart
  BY <1>1 DEF Restart, Starts, TypeOK, Files
<1>2. ASSUME NEW k \in Scans, NEW cut \in Cuts, EvictCrashes(k, cut)
      PROVE  Starts /\ file' \in Files
  <2>1. call[k] \in Calls
    BY <1>2 DEF EvictCrashes, Busy, TypeOK
  <2>2. PICK e \in Entries : e = [event |-> "evict", agent |-> call[k].agent]
    BY <2>1
  <2>3. file' \in Files
    BY <1>2, <2>2, WrittenType DEF EvictCrashes
  <2>4. file'.found \in Seq(Entries) /\ StartsWith(file'.found)
    BY <1>2, <2>3 DEF EvictCrashes, Files
  <2> QED
    BY <2>3, <2>4 DEF Starts
<1> QED
  BY <1>1, <1>2

--------------------------------------------------------------------------------
(* Type correctness *)

\* The initial state is well typed.
LEMMA TypeInit == Init => TypeOK
<1>1. [found |-> << >>, end |-> "closed", failed |-> FALSE] \in Files
  BY DEF Files, Ends
<1> QED
  BY <1>1, LimitsAssumption DEF Init, TypeOK, Busy

\* Every step keeps the types.
LEMMA TypeNext == TypeOK /\ [Next]_vars => TypeOK'
<1> SUFFICES ASSUME TypeOK, [Next]_vars PROVE TypeOK'
  OBVIOUS
<1> USE LimitsAssumption
<1>1. ASSUME NEW r \in Requests, NEW a \in Agents, Join(r, a) PROVE TypeOK'
  <2>1. r \notin Scans
    BY SlotsAssumption
  <2>2. CallHook(r, "join", a) /\ Upsert(a)
    BY <1>1 DEF Join
  <2> QED
    BY <1>1, <2>1, <2>2, CallHookType, UpsertType DEF Join, Touch, TypeOK, Busy
<1>2. ASSUME NEW r \in Requests, NEW a \in Agents, Leave(r, a) PROVE TypeOK'
  <2>1. r \notin Scans
    BY SlotsAssumption
  <2>2. CallHook(r, "leave", a) /\ Upsert(a)
    BY <1>2 DEF Leave
  <2> QED
    BY <1>2, <2>1, <2>2, CallHookType, UpsertType DEF Leave, Drop, TypeOK, Busy
<1>3. ASSUME NEW r \in Requests, NEW a \in Agents, Action(r, a) PROVE TypeOK'
  <2>1. r \notin Scans
    BY SlotsAssumption
  <2>2. CallHook(r, "action", a) /\ Upsert(a)
    BY <1>3 DEF Action
  <2> QED
    BY <1>3, <2>1, <2>2, CallHookType, UpsertType DEF Action, Touch, TypeOK, Busy
<1>4. ASSUME NEW a \in Agents, Heard(a) PROVE TypeOK'
  BY <1>4, UpsertType DEF Heard, TypeOK, Busy
<1>15. ASSUME NEW a \in Agents, NEW age \in 0 .. StaleTtl + 1, Discovered(a, age)
       PROVE  TypeOK'
  <2>1. known' \in SUBSET Agents /\ quiet' \in [Agents -> Nat]
    BY <1>15, DiscoveredType
  <2> QED
    BY <1>15, <2>1 DEF Discovered, TypeOK, Busy
<1>5. ASSUME NEW s \in Slots, HookRuns(s) PROVE TypeOK'
  <2>1. call[s] \in Calls
    BY <1>5 DEF HookRuns, Busy, TypeOK
  <2>2. hooked' \in SUBSET Agents
    BY <1>5, <2>1 DEF HookRuns, TypeOK, Effect
  <2>3. /\ call' \in [Slots -> Calls \cup {NoCall}]
        /\ \A t \in Slots : call'[t] # NoCall =>
             (call'[t].kind = "evict" <=> t \in Scans)
    <3>1. [call[s] EXCEPT !.ran = TRUE] \in Calls
      BY <2>1
    <3> QED
      BY <1>5, <2>1, <3>1 DEF HookRuns, Busy, TypeOK
  <2> QED
    BY <1>5, <2>2, <2>3 DEF HookRuns, TypeOK, Busy
<1>6. ASSUME NEW s \in Slots, NEW cut \in Cuts, Busy(s), Record(s, cut) PROVE
        ledger' \in Seq(Entries) /\ base \in 0 .. Len(ledger') /\ file' \in Files
  <2>1. call[s] \in Calls
    BY <1>6 DEF Busy, TypeOK
  <2>2. PICK e \in Entries : e = [event |-> call[s].kind, agent |-> call[s].agent]
    BY <2>1
  <2>3. ledger \in Seq(Entries) /\ base \in 0 .. Len(ledger)
    BY DEF TypeOK
  <2>4. ledger' = Append(ledger, e) /\ file' = Written(e, cut)
    BY <1>6, <2>2 DEF Record
  <2>5. file' \in Files
    BY <2>4, WrittenType
  <2> QED
    BY <2>2, <2>3, <2>4, <2>5
<1>7. ASSUME NEW r \in Requests, NEW cut \in Cuts, HookReturns(r, cut) PROVE TypeOK'
  <2>1. ledger' \in Seq(Entries) /\ base \in 0 .. Len(ledger') /\ file' \in Files
    BY <1>6, <1>7 DEF HookReturns
  <2> QED
    BY <1>7, <2>1 DEF HookReturns, TypeOK, Busy, Files
<1>8. ASSUME NEW r \in Requests, HookThrows(r) PROVE TypeOK'
  BY <1>8 DEF HookThrows, TypeOK, Busy
<1>9. ASSUME NEW k \in Scans, ScanFires(k) PROVE TypeOK'
  <2>1. Stale \in SUBSET Agents /\ EvictNext(k, Stale)
    BY <1>9 DEF ScanFires, Stale, TypeOK
  <2>2. /\ sinceScan' = 0
        /\ UNCHANGED <<known, quiet, ledger, file, base, restarts>>
    BY <1>9 DEF ScanFires
  <2>3. sinceScan' \in 0 .. ScanPeriod
    BY <2>2
  <2> HIDE DEF Entries
  <2> QED
    BY <2>1, <2>2, <2>3, EvictNextType DEF TypeOK, Busy
<1>10. ASSUME NEW k \in Scans, EvictReturns(k) PROVE TypeOK'
  <2>1. scan[k] \in SUBSET Agents /\ EvictNext(k, scan[k])
    BY <1>10 DEF EvictReturns, TypeOK
  <2>2. ledger' \in Seq(Entries) /\ base \in 0 .. Len(ledger') /\ file' \in Files
    BY <1>6, <1>10 DEF EvictReturns, Cuts
  <2> QED
    BY <1>10, <2>1, <2>2, EvictNextType DEF EvictReturns, TypeOK, Busy, Files
<1>11. CASE Tick
  BY <1>11 DEF Tick, ScanDue, Older, TypeOK, Busy
<1>12. CASE Prune
  BY <1>12 DEF Prune, TypeOK, Busy
<1>13. CASE Restart \/ \E k \in Scans, cut \in Cuts : EvictCrashes(k, cut)
  BY <1>13, DeathIsAStart, StartsType DEF Starts
<1>14. CASE UNCHANGED vars
  BY <1>14 DEF vars, TypeOK, Busy
<1> QED
  BY <1>1, <1>2, <1>3, <1>4, <1>5, <1>7, <1>8, <1>9, <1>10, <1>11, <1>12, <1>13,
     <1>14, <1>15 DEF Next

\* In every reachable state every variable has its type, a request slot holds
\* no eviction and a scan slot nothing else.
THEOREM TypeCorrect == Spec => []TypeOK
BY TypeInit, TypeNext, PTL DEF Spec

--------------------------------------------------------------------------------
(* Capacity *)

\* Only a join admits an agent, one at a time and never into a full world.
LEMMA AdmitsOne ==
  ASSUME [Next]_vars
  PROVE  \/ present' \subseteq present
         \/ ~Full /\ \E a \in Agents : present' = present \cup {a}
<1>1. ASSUME NEW k \in Scans, NEW todo, EvictNext(k, todo)
      PROVE  present' \subseteq present
  BY <1>1 DEF EvictNext, Drop
<1> QED
  BY <1>1 DEF Next, vars, Join, Leave, Drop, Action, Heard, Discovered, HookRuns, HookReturns,
              HookThrows, ScanFires, EvictReturns, EvictCrashes, Tick, Prune, Restart,
              StartsWith

\* An admission keeps the number of members within maxAgents.
LEMMA CapacityNext == TypeOK /\ Capacity /\ [Next]_vars => Capacity'
<1> SUFFICES ASSUME TypeOK, Capacity, [Next]_vars, MaxAgents > 0
             PROVE  Cardinality(present') <= MaxAgents
  BY DEF Capacity
<1>1. IsFiniteSet(present) /\ Cardinality(present) \in Nat
  BY SlotsAssumption, FS_Subset, FS_CardinalityType DEF TypeOK
<1>2. Cardinality(present) <= MaxAgents
  BY DEF Capacity
<1>3. CASE present' \subseteq present
  BY <1>1, <1>2, <1>3, FS_Subset, FS_CardinalityType, LimitsAssumption
<1>4. CASE ~Full /\ \E a \in Agents : present' = present \cup {a}
  <2>1. PICK a \in Agents : present' = present \cup {a}
    BY <1>4
  <2>2. Cardinality(present) < MaxAgents
    BY <1>1, <1>4, LimitsAssumption DEF Full
  <2>3. \/ Cardinality(present') = Cardinality(present)
        \/ Cardinality(present') = Cardinality(present) + 1
    BY <1>1, <2>1, FS_AddElement
  <2> QED
    BY <1>1, <2>2, <2>3, LimitsAssumption
<1> QED
  BY <1>3, <1>4, AdmitsOne

\* No interleaving of joins, leaves and evictions with their awaited hooks lets
\* more than maxAgents agents into the world, in either hook mode.
THEOREM CapacityHolds == Spec => []Capacity
<1>1. Init => Capacity
  BY FS_EmptySet, LimitsAssumption DEF Init, Capacity
<1> QED
  BY <1>1, CapacityNext, TypeCorrect, PTL DEF Spec

--------------------------------------------------------------------------------
(* Eviction *)

\* What a suspended scan still has to evict is idle: a refreshed timestamp or a
\* departure takes the agent off its list.
ScanTargets ==
  \A k \in Scans : \A a \in scan[k] : a \in present /\ idle[a] > IdleLimit

\* A scan step evicts one of the agents it has to evict and keeps the rest.
LEMMA EvictNextTargets ==
  ASSUME TypeOK, ScanTargets, NEW k \in Scans, NEW todo \in SUBSET Agents,
         \A a \in todo : a \in present /\ idle[a] > IdleLimit,
         EvictNext(k, todo)
  PROVE  /\ ScanTargets'
         /\ \A a \in present : a \notin present' => a \in todo
<1>1. CASE todo = {}
  BY <1>1 DEF EvictNext, TypeOK, ScanTargets
<1>2. CASE todo # {}
  <2>1. PICK a \in todo : /\ Drop(a)
                          /\ scan' = [j \in Scans |->
                               (IF j = k THEN todo ELSE scan[j]) \ {a}]
    BY <1>2 DEF EvictNext
  <2> QED
    BY <2>1 DEF Drop, TypeOK, ScanTargets
<1> QED
  BY <1>1, <1>2

\* Every step keeps the targets idle.
LEMMA ScanTargetsNext == TypeOK /\ ScanTargets /\ [Next]_vars => ScanTargets'
<1> SUFFICES ASSUME TypeOK, ScanTargets, [Next]_vars PROVE ScanTargets'
  OBVIOUS
<1>1. ASSUME NEW r \in Requests, NEW a \in Agents, Join(r, a) \/ Action(r, a)
      PROVE  ScanTargets'
  BY <1>1 DEF Join, Action, Touch, TypeOK, ScanTargets
<1>2. ASSUME NEW r \in Requests, NEW a \in Agents, Leave(r, a)
      PROVE  ScanTargets'
  BY <1>2 DEF Leave, Drop, TypeOK, ScanTargets
<1>3. ASSUME NEW k \in Scans, ScanFires(k) PROVE ScanTargets'
  <2>1. Stale \in SUBSET Agents /\ EvictNext(k, Stale)
    BY <1>3 DEF ScanFires, Stale, TypeOK
  <2>2. \A a \in Stale : a \in present /\ idle[a] > IdleLimit
    BY DEF Stale
  <2> QED
    BY <2>1, <2>2, EvictNextTargets
<1>4. ASSUME NEW k \in Scans, EvictReturns(k) PROVE ScanTargets'
  <2>1. scan[k] \in SUBSET Agents /\ EvictNext(k, scan[k])
    BY <1>4 DEF EvictReturns, TypeOK
  <2> QED
    BY <2>1, EvictNextTargets DEF ScanTargets
<1>5. CASE Tick
  BY <1>5, LimitsAssumption DEF Tick, Older, TypeOK, ScanTargets
<1>6. CASE Starts
  BY <1>6 DEF Starts, StartsWith, ScanTargets
<1>7. ASSUME UNCHANGED <<present, idle, scan>> PROVE ScanTargets'
  BY <1>7 DEF ScanTargets
<1> QED
  BY <1>1, <1>2, <1>3, <1>4, <1>5, <1>6, <1>7, DeathIsAStart
  DEF Next, vars, Heard, Discovered, HookRuns, HookReturns, HookThrows, Prune

\* A member that a step drops was idle, or has just sent world.leave.
LEMMA DropsOnlyIdle ==
  ASSUME TypeOK, ScanTargets, Next, restarts' = restarts,
         NEW a \in Agents, LosesSeat(a)
  PROVE  idle[a] > IdleLimit \/ StartsLeaving(a)
<1>1. ASSUME NEW r \in Requests, NEW b \in Agents, Leave(r, b)
      PROVE  StartsLeaving(a)
  <2>1. a = b
    BY <1>1 DEF Leave, Drop, LosesSeat
  <2>2. call[r] = NoCall
    BY <1>1 DEF Leave, Accepts, Busy
  <2>3. /\ call'[r] \in Calls
        /\ call'[r].kind = "leave" /\ call'[r].agent = a
    <3>1. r \notin Scans /\ CallHook(r, "leave", b)
      BY <1>1, SlotsAssumption DEF Leave
    <3> QED
      BY <2>1, <3>1, CallHookType
  <2> QED
    BY <2>2, <2>3, CallIsNotNoCall DEF StartsLeaving
<1>2. ASSUME NEW k \in Scans, ScanFires(k) PROVE idle[a] > IdleLimit
  <2>1. Stale \in SUBSET Agents /\ EvictNext(k, Stale)
    BY <1>2 DEF ScanFires, Stale, TypeOK
  <2>2. \A b \in Stale : b \in present /\ idle[b] > IdleLimit
    BY DEF Stale
  <2> QED
    BY <2>1, <2>2, EvictNextTargets DEF LosesSeat
<1>3. ASSUME NEW k \in Scans, EvictReturns(k) PROVE idle[a] > IdleLimit
  <2>1. scan[k] \in SUBSET Agents /\ EvictNext(k, scan[k])
    BY <1>3 DEF EvictReturns, TypeOK
  <2>2. \A b \in scan[k] : b \in present /\ idle[b] > IdleLimit
    BY DEF ScanTargets
  <2> QED
    BY <2>1, <2>2, EvictNextTargets DEF LosesSeat
<1>4. ~Starts
  BY LimitsAssumption DEF Starts, StartsWith, TypeOK
<1> QED
  BY <1>1, <1>2, <1>3, <1>4, DeathIsAStart
  DEF Next, Join, Action, Heard, Discovered, HookRuns, HookReturns, HookThrows, Tick, Prune,
      LosesSeat

\* A member that spoke within the idle limit is dropped only by its own leave,
\* whatever happens while an eviction scan waits for a hook.
THEOREM EvictsOnlyIdleHolds == Spec => EvictsOnlyIdle
<1>1. Init => ScanTargets
  BY DEF Init, ScanTargets
<1>2. TypeOK /\ ScanTargets /\ [Next]_vars
        => [\A a \in Agents : LosesSeat(a) /\ restarts' = restarts
              => idle[a] > IdleLimit \/ StartsLeaving(a)]_vars
  BY DropsOnlyIdle
<1> QED
  BY <1>1, <1>2, ScanTargetsNext, TypeCorrect, PTL DEF Spec, EvictsOnlyIdle

--------------------------------------------------------------------------------
(* Keys of members *)

\* A scan that is not in flight has nothing left to evict; a member's record is
\* no older than its last visit while that is recent; unless a scan is about to
\* evict it, a member's record is no older than the limit plus the time since the
\* timer fired; and members have records.
ScansDone == \A k \in Scans : ~Busy(k) => scan[k] = {}

RecordFollowsVisit ==
  \A a \in present \cap known : idle[a] <= IdleLimit => quiet[a] <= idle[a]

RecordIsRecent ==
  \A a \in present \cap known :
    quiet[a] <= IdleLimit + sinceScan \/ \E k \in Scans : a \in scan[k]

KeyInv == ScansDone /\ RecordFollowsVisit /\ RecordIsRecent /\ present \subseteq known

\* The peer database has room for every agent it hears of.
RoomForAll == Cardinality(Agents) <= MaxPeers

\* The calls in flight after a hook was called from slot s.
LEMMA CallHookBusy ==
  ASSUME TypeOK, NEW s \in Slots, NEW kind \in Kinds, NEW a \in Agents,
         CallHook(s, kind, a), kind = "evict" <=> s \in Scans
  PROVE  /\ Busy(s)'
         /\ \A t \in Slots : t # s => (Busy(t)' <=> Busy(t))
BY CallHookType, CallIsNotNoCall DEF Busy

\* A database with room for all never overflows.
LEMMA NoOverflow ==
  ASSUME TypeOK, RoomForAll, NEW a \in Agents
  PROVE  ~(Cardinality(known \cup {a}) > MaxPeers)
<1>1. known \cup {a} \subseteq Agents
  BY DEF TypeOK
<1>2. /\ Cardinality(known \cup {a}) <= Cardinality(Agents)
      /\ Cardinality(known \cup {a}) \in Nat /\ Cardinality(Agents) \in Nat
  BY <1>1, SlotsAssumption, FS_Subset, FS_CardinalityType
<1> QED
  BY <1>2, LimitsAssumption DEF RoomForAll

\* After AgentDb.upsert the sender's record is new, and the others are those
\* that were there, with their ages.
LEMMA UpsertEffect ==
  ASSUME TypeOK, RoomForAll, NEW a \in Agents, Upsert(a)
  PROVE  /\ quiet'[a] = 0
         /\ known' = known \cup {a}
         /\ \A b \in known : b # a => quiet'[b] = quiet[b]
BY NoOverflow DEF Upsert, Refreshed, TypeOK

\* A gateway's answer makes no record older.
LEMMA DiscoveredEffect ==
  ASSUME TypeOK, RoomForAll, NEW a \in Agents, NEW age \in 0 .. StaleTtl + 1,
         Discovered(a, age)
  PROVE  /\ known' = known \cup {a}
         /\ \A b \in known : quiet'[b] <= quiet[b]
<1> DEFINE seen == IF a \in known /\ quiet[a] < age THEN quiet[a] ELSE age
           aged == [quiet EXCEPT ![a] = seen]
<1>1. known' = known \cup {a}
  BY NoOverflow DEF Discovered
<1>2. quiet' = [b \in Agents |-> IF b \in known' THEN aged[b] ELSE 0]
  BY DEF Discovered
<1>3. known \in SUBSET Agents /\ quiet \in [Agents -> Nat]
  BY DEF TypeOK
<1>4. a \in known => seen <= quiet[a]
  BY <1>3, LimitsAssumption
<1> HIDE DEF seen
<1>5. \A b \in known : quiet'[b] = IF b = a THEN seen ELSE quiet[b]
  BY <1>1, <1>2, <1>3
<1> QED
  BY <1>1, <1>3, <1>4, <1>5

\* A message handler that touches or drops its sender keeps the key invariant.
LEMMA KeyInvMessage ==
  ASSUME TypeOK, RoomForAll, KeyInv, NEW r \in Requests, NEW a \in Agents,
         Join(r, a) \/ Leave(r, a) \/ Action(r, a)
  PROVE  KeyInv'
<1> USE LimitsAssumption
<1>1. /\ quiet'[a] = 0
      /\ known' = known \cup {a}
      /\ \A b \in known : b # a => quiet'[b] = quiet[b]
  BY UpsertEffect DEF Join, Leave, Action
<1>2. \A k \in Scans : Busy(k)' <=> Busy(k)
  BY SlotsAssumption, CallHookBusy DEF Join, Leave, Action
<1>3. scan' = [k \in Scans |-> scan[k] \ {a}]
  BY DEF Join, Leave, Action, Touch
<1>4. /\ idle' = [idle EXCEPT ![a] = 0]
      /\ \A b \in present' : b # a => b \in present
      /\ sinceScan' = sinceScan
  BY DEF Join, Leave, Action, Touch, Drop
<1>5. /\ idle \in [Agents -> Nat] /\ present \in SUBSET Agents
      /\ known' \in SUBSET Agents /\ sinceScan \in Nat
  BY UpsertType DEF TypeOK, Join, Leave, Action
<1>6. ScansDone'
  BY <1>2, <1>3 DEF KeyInv, ScansDone
<1>7. RecordFollowsVisit'
  BY <1>1, <1>4, <1>5 DEF KeyInv, RecordFollowsVisit
<1>8. RecordIsRecent'
  BY <1>1, <1>3, <1>4, <1>5 DEF KeyInv, RecordIsRecent
<1>9. present' \subseteq known'
  BY <1>1, <1>4 DEF KeyInv
<1> QED
  BY <1>6, <1>7, <1>8, <1>9 DEF KeyInv

\* A step of an eviction scan keeps the key invariant, provided the members it
\* leaves out of its list have recent records.
LEMMA KeyInvScan ==
  ASSUME TypeOK, KeyInv, NEW k \in Scans, NEW todo \in SUBSET Agents,
         EvictNext(k, todo), UNCHANGED <<known, quiet>>,
         sinceScan' \in 0 .. ScanPeriod,
         scan[k] \subseteq todo,
         \A a \in present \cap known :
           \/ quiet[a] <= IdleLimit + sinceScan'
           \/ a \in todo \/ \E j \in Scans : a \in scan[j]
  PROVE  KeyInv'
<1>1. CASE todo = {}
  <2>1. /\ call' = [call EXCEPT ![k] = NoCall] /\ scan' = [scan EXCEPT ![k] = {}]
        /\ UNCHANGED <<present, idle, known, quiet>>
    BY <1>1 DEF EvictNext
  <2>2. ScansDone'
    BY <2>1 DEF KeyInv, ScansDone, Busy, TypeOK
  <2>3. RecordFollowsVisit'
    BY <2>1 DEF KeyInv, RecordFollowsVisit
  <2>4. RecordIsRecent'
    BY <1>1, <2>1 DEF RecordIsRecent, TypeOK
  <2>5. present' \subseteq known'
    BY <2>1 DEF KeyInv
  <2> QED
    BY <2>2, <2>3, <2>4, <2>5 DEF KeyInv
<1>2. CASE todo # {}
  <2>1. PICK a \in todo : /\ Drop(a)
                          /\ scan' = [j \in Scans |->
                               (IF j = k THEN todo ELSE scan[j]) \ {a}]
                          /\ CallHook(k, "evict", a)
    BY <1>2 DEF EvictNext
  <2>2. Busy(k)' /\ \A j \in Scans : j # k => (Busy(j)' <=> Busy(j))
    BY <2>1, CallHookBusy
  <2>3. ScansDone'
    BY <2>1, <2>2 DEF KeyInv, ScansDone
  <2>4. \A b \in present' : b # a /\ b \in present /\ idle'[b] = idle[b]
    BY <2>1 DEF Drop, TypeOK
  <2>5. RecordFollowsVisit'
    BY <2>4 DEF KeyInv, RecordFollowsVisit
  <2>6. RecordIsRecent'
    BY <2>1, <2>4 DEF RecordIsRecent
  <2>7. present' \subseteq known'
    BY <2>1 DEF KeyInv, Drop
  <2> QED
    BY <2>3, <2>5, <2>6, <2>7 DEF KeyInv
<1> QED
  BY <1>1, <1>2

\* With hooks that settle in their turn, every step keeps the key invariant.
LEMMA KeyInvNext ==
  ASSUME ~HooksYield, RoomForAll, TtlCoversIdle
  PROVE  TypeOK /\ KeyInv /\ [Next]_vars => KeyInv'
<1> SUFFICES ASSUME TypeOK, KeyInv, [Next]_vars PROVE KeyInv'
  OBVIOUS
<1> USE LimitsAssumption
<1>1. ASSUME NEW r \in Requests, NEW a \in Agents,
             Join(r, a) \/ Leave(r, a) \/ Action(r, a)
      PROVE  KeyInv'
  BY <1>1, KeyInvMessage
<1>2. ASSUME NEW a \in Agents,
             Heard(a) \/ \E age \in 0 .. StaleTtl + 1 : Discovered(a, age)
      PROVE  KeyInv'
  <2>1. quiet \in [Agents -> Nat] /\ known \in SUBSET Agents
        /\ idle \in [Agents -> Nat] /\ present \in SUBSET Agents /\ sinceScan \in Nat
    BY DEF TypeOK
  <2>2. known' = known \cup {a} /\ \A b \in known : quiet'[b] <= quiet[b]
    BY <1>2, <2>1, UpsertEffect, DiscoveredEffect DEF Heard
  <2>3. UNCHANGED <<present, idle, call, scan, sinceScan>>
    BY <1>2 DEF Heard, Discovered
  <2>4. quiet' \in [Agents -> Nat]
    BY <1>2, UpsertType, DiscoveredType DEF Heard
  <2> QED
    BY <2>1, <2>2, <2>3, <2>4
    DEF KeyInv, ScansDone, Busy, RecordFollowsVisit, RecordIsRecent
<1>3. ASSUME NEW s \in Slots, HookRuns(s) PROVE KeyInv'
  <2>1. call[s] \in Calls
    BY <1>3 DEF HookRuns, Busy, TypeOK
  <2>2. [call[s] EXCEPT !.ran = TRUE] \in Calls
    BY <2>1
  <2>3. \A t \in Slots : Busy(t)' <=> Busy(t)
    BY <1>3, <2>2, CallIsNotNoCall DEF HookRuns, Busy, TypeOK
  <2> QED
    BY <1>3, <2>3
    DEF HookRuns, KeyInv, ScansDone, RecordFollowsVisit, RecordIsRecent
<1>4. ASSUME NEW r \in Requests,
             HookThrows(r) \/ \E cut \in Cuts : HookReturns(r, cut)
      PROVE  KeyInv'
  <2>1. \A k \in Scans : Busy(k)' <=> Busy(k)
    BY <1>4, SlotsAssumption DEF HookReturns, HookThrows, Busy, TypeOK
  <2> QED
    BY <1>4, <2>1
    DEF HookReturns, HookThrows, KeyInv, ScansDone, RecordFollowsVisit,
        RecordIsRecent
<1>5. ASSUME NEW k \in Scans, ScanFires(k) PROVE KeyInv'
  <2>1. Stale \in SUBSET Agents /\ EvictNext(k, Stale)
    BY <1>5 DEF ScanFires, Stale, TypeOK
  <2>2. UNCHANGED <<known, quiet>> /\ sinceScan' = 0 /\ scan[k] = {}
    BY <1>5 DEF ScanFires, KeyInv, ScansDone
  <2>3. \A a \in present \cap known : quiet[a] <= IdleLimit + 0 \/ a \in Stale
    <3>1. \A a \in present \cap known : idle[a] <= IdleLimit => quiet[a] <= idle[a]
      BY DEF KeyInv, RecordFollowsVisit
    <3>2. /\ present \in SUBSET Agents
          /\ idle \in [Agents -> Nat] /\ quiet \in [Agents -> Nat]
      BY DEF TypeOK
    <3> QED
      BY <3>1, <3>2 DEF Stale
  <2> QED
    BY <2>1, <2>2, <2>3, KeyInvScan
<1>6. ASSUME NEW k \in Scans, EvictReturns(k) PROVE KeyInv'
  <2>1. scan[k] \in SUBSET Agents /\ EvictNext(k, scan[k])
    BY <1>6 DEF EvictReturns, TypeOK
  <2>2. UNCHANGED <<known, quiet, sinceScan>> /\ sinceScan \in 0 .. ScanPeriod
    BY <1>6 DEF EvictReturns, TypeOK
  <2> QED
    BY <2>1, <2>2, KeyInvScan DEF KeyInv, RecordIsRecent
<1>7. CASE Tick
  <2>1. \A k \in Scans : scan[k] = {} /\ ~Busy(k)
    BY <1>7 DEF Tick, EventLoopFree, KeyInv, ScansDone
  <2>2. \A a \in present \cap known : quiet[a] <= IdleLimit + sinceScan
    BY <2>1 DEF KeyInv, RecordIsRecent
  <2>3. /\ UNCHANGED <<present, known, call, scan>> /\ sinceScan' = sinceScan + 1
        /\ \A a \in present \cap known :
             /\ idle'[a] = Older(idle[a], IdleLimit)
             /\ quiet'[a] = Older(quiet[a], StaleTtl)
    BY <1>7 DEF Tick, TypeOK
  <2>4. idle \in [Agents -> Nat] /\ quiet \in [Agents -> Nat] /\ sinceScan \in Nat
        /\ present \in SUBSET Agents
    BY DEF TypeOK
  <2>5. RecordFollowsVisit'
    BY <2>3, <2>4 DEF KeyInv, RecordFollowsVisit, Older
  <2>6. RecordIsRecent'
    BY <2>2, <2>3, <2>4 DEF RecordIsRecent, Older
  <2> QED
    BY <2>1, <2>3, <2>5, <2>6 DEF KeyInv, ScansDone, Busy
<1>8. CASE Prune
  <2>1. UNCHANGED <<present, idle, call, scan, sinceScan>>
    BY <1>8 DEF Prune
  <2>2. \A a \in known' : a \in known /\ quiet'[a] = quiet[a]
    BY <1>8 DEF Prune, TypeOK
  <2>3. \A k \in Scans : scan[k] = {}
    BY <1>8 DEF Prune, EventLoopFree, KeyInv, ScansDone
  <2>4. \A a \in present : a \in known /\ quiet[a] <= IdleLimit + sinceScan
    BY <2>3 DEF KeyInv, RecordIsRecent
  <2>5. \A a \in present : quiet[a] <= StaleTtl
    BY <2>4 DEF TypeOK, TtlCoversIdle
  <2>6. present' \subseteq known'
    BY <1>8, <2>1, <2>4, <2>5 DEF Prune
  <2> QED
    BY <2>1, <2>2, <2>6
    DEF KeyInv, ScansDone, Busy, RecordFollowsVisit, RecordIsRecent
<1>9. CASE Starts
  BY <1>9 DEF Starts, StartsWith, KeyInv, ScansDone, RecordFollowsVisit, RecordIsRecent
<1>10. CASE UNCHANGED vars
  BY <1>10
  DEF vars, KeyInv, ScansDone, Busy, RecordFollowsVisit, RecordIsRecent
<1> QED
  BY <1>1, <1>2, <1>3, <1>4, <1>5, <1>6, <1>7, <1>8, <1>9, <1>10, DeathIsAStart
  DEF Next

\* With hooks that settle in their turn and a staleTtlMs that covers the idle
\* limit and one scan period, no member loses its key to pruning.
THEOREM MembersKnownHolds ==
  ASSUME ~HooksYield, TtlCoversIdle
  PROVE  Spec => []MembersKnown
<1>1. CASE RoomForAll
  <2>1. Init => KeyInv
    BY DEF Init, KeyInv, ScansDone, RecordFollowsVisit, RecordIsRecent
  <2>2. TypeOK /\ KeyInv /\ [Next]_vars => KeyInv'
    BY <1>1, KeyInvNext
  <2>3. KeyInv => MembersKnown
    BY DEF KeyInv, MembersKnown
  <2> QED
    BY <2>1, <2>2, <2>3, TypeCorrect, PTL DEF Spec
<1>2. CASE ~RoomForAll
  <2>1. MembersKnown
    BY <1>2 DEF RoomForAll, MembersKnown
  <2>2. Init => MembersKnown
    BY <1>2 DEF RoomForAll, MembersKnown
  <2>3. MembersKnown /\ [Next]_vars => MembersKnown'
    BY <1>2 DEF RoomForAll, MembersKnown
  <2> QED
    BY <2>2, <2>3, PTL DEF Spec
<1> QED
  BY <1>1, <1>2

--------------------------------------------------------------------------------
(* The ledger and the tables *)

\* The replay of a range that ends at or before the old end of the ledger is not
\* changed by an append.
LEMMA ReplayOfPrefix ==
  ASSUME ledger \in Seq(Entries), NEW e \in Entries, ledger' = Append(ledger, e),
         NEW from \in Nat, NEW n \in 0 .. Len(ledger), NEW a \in Agents
  PROVE  OnlineIn(from, n, a)' <=> OnlineIn(from, n, a)
<1>1. \A j \in from + 1 .. n : ledger'[j] = ledger[j]
  OBVIOUS
<1>2. \A j \in from + 1 .. n : \A k \in j + 1 .. n : ledger'[k] = ledger[k]
  <2>1. \A j \in from + 1 .. n : \A k \in j + 1 .. n : k \in from + 1 .. n
    BY SMT
  <2> QED
    BY <1>1, <2>1
<1>3. OnlineIn(from, n, a)' <=>
        \E j \in from + 1 .. n :
          /\ ledger'[j] = [event |-> "join", agent |-> a]
          /\ \A k \in j + 1 .. n : ~Departure(ledger'[k], a)
  BY DEF OnlineIn, Departure
<1> QED
  BY <1>1, <1>2, <1>3 DEF OnlineIn

\* Members of an interval that starts at zero.
LEMMA UpToIsNat ==
  ASSUME NEW n \in Nat, NEW i \in 0 .. n
  PROVE  i \in Nat /\ i <= n
OBVIOUS

\* The replay of the whole ledger after an append: a join brings its agent
\* online, a leave or an eviction takes it offline, nothing else counts.
LEMMA ReplayOfAppend ==
  ASSUME ledger \in Seq(Entries), NEW e \in Entries, ledger' = Append(ledger, e),
         NEW n \in Nat, n = Len(ledger),
         NEW from \in 0 .. n, NEW a \in Agents
  PROVE  OnlineIn(from, n + 1, a)' <=>
           \/ e = [event |-> "join", agent |-> a]
           \/ OnlineIn(from, n, a) /\ ~Departure(e, a)
<1>1. /\ n \in Nat /\ Len(ledger') = n + 1
      /\ ledger'[n + 1] = e
      /\ \A j \in from + 1 .. n : ledger'[j] = ledger[j]
  OBVIOUS
<1>2. OnlineIn(from, n + 1, a)' <=>
        \E j \in from + 1 .. n + 1 :
          /\ ledger'[j] = [event |-> "join", agent |-> a]
          /\ \A i \in j + 1 .. n + 1 : ~Departure(ledger'[i], a)
  BY <1>1 DEF OnlineIn, Departure
<1>3. from \in Nat /\ from <= n
  BY UpToIsNat, Zenon
<1>4. OnlineIn(from, n, a) <=>
        \E j \in from + 1 .. n :
          /\ ledger'[j] = [event |-> "join", agent |-> a]
          /\ \A i \in j + 1 .. n : ~Departure(ledger'[i], a)
  <2>1. n \in 0 .. Len(ledger)
    OBVIOUS
  <2>2. OnlineIn(from, n, a)' <=> OnlineIn(from, n, a)
    BY <1>3, <2>1, ReplayOfPrefix
  <2>3. OnlineIn(from, n, a)' <=>
          \E j \in from + 1 .. n :
            /\ ledger'[j] = [event |-> "join", agent |-> a]
            /\ \A i \in j + 1 .. n : ~Departure(ledger'[i], a)
    BY DEF OnlineIn, Departure
  <2> QED
    BY <2>2, <2>3
<1>5. ASSUME e = [event |-> "join", agent |-> a]
      PROVE  OnlineIn(from, n + 1, a)'
  <2>1. n + 1 \in from + 1 .. n + 1
    BY <1>1, <1>3
  <2>2. \A i \in (n + 1) + 1 .. n + 1 : ~Departure(ledger'[i], a)
    BY <1>1
  <2> QED
    BY <1>1, <1>2, <1>5, <2>1, <2>2
<1>6. ASSUME OnlineIn(from, n, a), ~Departure(e, a)
      PROVE  OnlineIn(from, n + 1, a)'
  <2>1. PICK j \in from + 1 .. n :
          /\ ledger'[j] = [event |-> "join", agent |-> a]
          /\ \A i \in j + 1 .. n : ~Departure(ledger'[i], a)
    BY <1>4, <1>6
  <2>2. j \in from + 1 .. n + 1
    BY <1>1, <1>3
  <2>3. \A i \in j + 1 .. n + 1 : ~Departure(ledger'[i], a)
    <3>1. \A i \in j + 1 .. n + 1 : i \in j + 1 .. n \/ i = n + 1
      BY <1>1, <1>3
    <3> QED
      BY <1>1, <1>6, <2>1, <3>1
  <2> QED
    BY <1>2, <2>1, <2>2, <2>3
<1>7. ASSUME OnlineIn(from, n + 1, a)', e # [event |-> "join", agent |-> a]
      PROVE  OnlineIn(from, n, a) /\ ~Departure(e, a)
  <2>1. PICK j \in from + 1 .. n + 1 :
          /\ ledger'[j] = [event |-> "join", agent |-> a]
          /\ \A i \in j + 1 .. n + 1 : ~Departure(ledger'[i], a)
    BY <1>2, <1>7
  <2>2. j # n + 1
    BY <1>1, <1>7, <2>1
  <2>3. j \in from + 1 .. n /\ n + 1 \in j + 1 .. n + 1
    BY <1>1, <1>3, <2>2
  <2>4. ~Departure(e, a)
    BY <1>1, <2>1, <2>3
  <2>5. \A i \in j + 1 .. n : i \in j + 1 .. n + 1
    BY <1>1, <1>3, <2>3
  <2> QED
    BY <1>4, <2>1, <2>3, <2>4, <2>5
<1> QED
  BY <1>5, <1>6, <1>7

\* The replay of what this process wrote.
OnlineNow(a) == OnlineIn(base, Len(ledger), a)

\* Whether a call in flight has still to write that its agent came or went.
Pending(a) ==
  \E s \in Slots : Busy(s) /\ call[s].agent = a /\ call[s].kind # "action"

\* With hooks that settle in their turn at most one call is in flight, and its
\* hook has run; hooks and server agree about the members, and so does the
\* replay, but for the one agent whose coming or going is still to be written.
OneCall ==
  /\ \A s, t \in Slots : Busy(s) /\ Busy(t) => s = t
  /\ \A s \in Slots : Busy(s) => call[s].ran

ReplayInStep ==
  /\ \A a \in Agents : ~Pending(a) => (a \in present <=> OnlineNow(a))
  /\ \A s \in Slots : Busy(s) /\ call[s].kind \in {"leave", "evict"}
       => call[s].agent \notin present /\ OnlineNow(call[s].agent)
  /\ \A s \in Slots : Busy(s) /\ call[s].kind \in {"join", "action"}
       => call[s].agent \in present

TurnInv == OneCall /\ hooked = present /\ ReplayInStep

\* A hook called in its turn has taken effect.
LEMMA CallHookInTurn ==
  ASSUME ~HooksYield, NEW s \in Slots, NEW kind \in Kinds, NEW a \in Agents,
         CallHook(s, kind, a)
  PROVE  /\ call' = [call EXCEPT ![s] = [kind |-> kind, agent |-> a, ran |-> TRUE]]
         /\ hooked' = Effect(kind, a)
BY DEF CallHook

\* A handler that finds no call in flight, changes the membership as its hook
\* does and calls the hook, keeps the invariant.
LEMMA TurnStarts ==
  ASSUME ~HooksYield, TypeOK, TurnInv,
         NEW s \in Slots, NEW kind \in Kinds, NEW a \in Agents,
         CallHook(s, kind, a),
         \A t \in Slots : ~Busy(t),
         UNCHANGED <<ledger, base>>,
         \/ kind = "join" /\ present' = present \cup {a}
         \/ kind = "action" /\ a \in present /\ present' = present
         \/ kind \in {"leave", "evict"} /\ a \in present /\ present' = present \ {a}
  PROVE  TurnInv'
<1> DEFINE c == [kind |-> kind, agent |-> a, ran |-> TRUE]
<1>1. call' = [call EXCEPT ![s] = c] /\ hooked' = Effect(kind, a)
  BY CallHookInTurn
<1>2. /\ c \in Calls /\ c # NoCall
      /\ c.kind = kind /\ c.agent = a /\ c.ran = TRUE
  BY CallIsNotNoCall
<1>3. Busy(s)' /\ call'[s] = c /\ \A t \in Slots : t # s => ~Busy(t)'
  BY <1>1, <1>2 DEF TypeOK, Busy
<1>4. OneCall'
  BY <1>2, <1>3 DEF OneCall
<1>5. hooked' = present'
  BY <1>1 DEF Effect, TurnInv
<1>6. \A b \in Agents : OnlineNow(b)' <=> OnlineNow(b)
  BY DEF OnlineNow, OnlineIn, Departure
<1>7. \A b \in Agents : b \in present <=> OnlineNow(b)
  BY DEF TurnInv, ReplayInStep, Pending
<1>8. \A b \in Agents : Pending(b)' <=> b = a /\ kind # "action"
  BY <1>2, <1>3 DEF Pending
<1>9. ReplayInStep'
  BY <1>2, <1>3, <1>6, <1>7, <1>8 DEF ReplayInStep
<1> QED
  BY <1>4, <1>5, <1>9 DEF TurnInv

\* The entry written for a call brings the replay up to date.
LEMMA RecordReplay ==
  ASSUME TypeOK, NEW s \in Slots, NEW cut \in Cuts, Busy(s), Record(s, cut),
         base' = base
  PROVE  \A a \in Agents : OnlineNow(a)' <=>
           \/ call[s].kind = "join" /\ call[s].agent = a
           \/ /\ OnlineNow(a)
              /\ ~(call[s].agent = a /\ call[s].kind \in {"leave", "evict"})
<1> SUFFICES ASSUME NEW a \in Agents
             PROVE  OnlineNow(a)' <=>
                      \/ call[s].kind = "join" /\ call[s].agent = a
                      \/ /\ OnlineNow(a)
                         /\ ~(call[s].agent = a /\ call[s].kind \in {"leave", "evict"})
  OBVIOUS
<1>1. call[s] \in Calls /\ ledger \in Seq(Entries) /\ base \in 0 .. Len(ledger)
  BY DEF Busy, TypeOK
<1>2. PICK e \in Entries : e = [event |-> call[s].kind, agent |-> call[s].agent]
  BY <1>1
<1>3. PICK n \in Nat : n = Len(ledger)
  BY <1>1
<1>4. PICK from \in 0 .. n : from = base
  BY <1>1, <1>3
<1>5. ledger' = Append(ledger, e)
  BY <1>2 DEF Record
<1>6. OnlineIn(from, n + 1, a)' <=>
        \/ e = [event |-> "join", agent |-> a]
        \/ OnlineIn(from, n, a) /\ ~Departure(e, a)
  BY <1>1, <1>3, <1>5, ReplayOfAppend
<1>7. Len(ledger') = n + 1
  BY <1>1, <1>3, <1>5
<1>8. OnlineNow(a)' <=> OnlineIn(from, n + 1, a)'
  BY <1>4, <1>7 DEF OnlineNow, OnlineIn
<1>9. OnlineNow(a) <=> OnlineIn(from, n, a)
  BY <1>3, <1>4 DEF OnlineNow
<1>10. e = [event |-> "join", agent |-> a]
         <=> call[s].kind = "join" /\ call[s].agent = a
  BY <1>2
<1>11. Departure(e, a) <=> call[s].agent = a /\ call[s].kind \in {"leave", "evict"}
  BY <1>2 DEF Departure
<1> QED
  BY <1>6, <1>8, <1>9, <1>10, <1>11

\* Once the entry is written, membership and replay agree for every agent.
LEMMA RecordAgrees ==
  ASSUME TypeOK, TurnInv, NEW s \in Slots, NEW cut \in Cuts, Busy(s),
         Record(s, cut), base' = base
  PROVE  \A a \in Agents : a \in present <=> OnlineNow(a)'
<1>1. call[s] \in Calls
  BY DEF Busy, TypeOK
<1>2. \A a \in Agents :
        Pending(a) <=> call[s].agent = a /\ call[s].kind # "action"
  BY DEF TurnInv, OneCall, Pending
<1>3. SUFFICES ASSUME NEW a \in Agents PROVE a \in present <=> OnlineNow(a)'
  OBVIOUS
<1>4. OnlineNow(a)' <=>
        \/ call[s].kind = "join" /\ call[s].agent = a
        \/ OnlineNow(a) /\ ~(call[s].agent = a /\ call[s].kind \in {"leave", "evict"})
  BY RecordReplay
<1>5. CASE ~Pending(a)
  BY <1>1, <1>2, <1>4, <1>5 DEF TurnInv, ReplayInStep
<1>6. CASE Pending(a)
  BY <1>1, <1>2, <1>4, <1>6 DEF TurnInv, ReplayInStep
<1> QED
  BY <1>5, <1>6

\* The story of the ledger goes on: the entry written continues it.
LEMMA RecordStory ==
  ASSUME TypeOK, TurnInv, NEW from \in Nat, from <= base, Story(from),
         NEW s \in Slots, NEW cut \in Cuts, Busy(s), Record(s, cut)
  PROVE  Story(from)'
<1>1. call[s] \in Calls /\ ledger \in Seq(Entries) /\ base \in 0 .. Len(ledger)
  BY DEF Busy, TypeOK
<1>2. PICK e \in Entries : e = [event |-> call[s].kind, agent |-> call[s].agent]
  BY <1>1
<1>3. PICK n \in Nat : n = Len(ledger)
  BY <1>1
<1>4. /\ ledger' = Append(ledger, e) /\ Len(ledger') = n + 1
      /\ ledger'[n + 1] = e /\ \A i \in 1 .. n : ledger'[i] = ledger[i]
  BY <1>1, <1>2, <1>3 DEF Record
<1>5. ASSUME NEW i \in from + 1 .. n, ledger'[i].event # "join"
      PROVE  OnlineIn(from, i - 1, ledger[i].agent)'
  <2>1. PICK a \in Agents : a = ledger[i].agent
    <3>1. i \in 1 .. Len(ledger)
      BY <1>3
    <3>2. ledger[i] \in Entries
      <4> HIDE DEF Entries
      <4> QED
        BY <1>1, <3>1
    <3> QED
      BY <3>2
  <2>2. OnlineIn(from, i - 1, a)
    BY <1>3, <1>4, <1>5, <2>1 DEF Story
  <2>3. i - 1 \in 0 .. Len(ledger)
    BY <1>3
  <2>4. OnlineIn(from, i - 1, a)'
    BY <1>1, <1>4, <2>2, <2>3, ReplayOfPrefix
  <2>5. (ledger[i].agent)' = a
    <3>1. i \in 1 .. n
      OBVIOUS
    <3> QED
      BY <1>4, <2>1, <3>1
  <2> QED
    BY <2>4, <2>5 DEF OnlineIn
<1>6. ASSUME e.event # "join" PROVE OnlineIn(from, n, e.agent)'
  <2>1. PICK a \in Agents : a = e.agent
    BY <1>2
  <2>2. OnlineNow(a)
    <3>1. Pending(a) <=> call[s].kind # "action"
      BY <1>2, <2>1 DEF TurnInv, OneCall, Pending
    <3> QED
      BY <1>1, <1>2, <1>6, <2>1, <3>1 DEF TurnInv, ReplayInStep
  <2>3. OnlineIn(from, n, a)
    BY <1>1, <1>3, <2>2 DEF OnlineNow, OnlineIn
  <2>4. OnlineIn(from, n, a)'
    BY <1>1, <1>3, <1>4, <2>3, ReplayOfPrefix
  <2> QED
    BY <2>1, <2>4 DEF OnlineIn
<1> QED
  <2>1. \A i \in from + 1 .. n + 1 : i \in from + 1 .. n \/ i = n + 1
    OBVIOUS
  <2>2. n = (n + 1) - 1
    OBVIOUS
  <2> QED
    BY <1>4, <1>5, <1>6, <2>1, <2>2 DEF Story

\* When the event loop is free and hooks settle in their turn, no call is in
\* flight.
LEMMA FreeIsAtRest ==
  ASSUME ~HooksYield, EventLoopFree
  PROVE  \A s \in Slots : ~Busy(s)
BY DEF EventLoopFree

\* A step of the eviction loop keeps the invariant, from a state in which no
\* other call is in flight and the replay (up to date with the entry just
\* written, if any) agrees with the membership.
LEMMA TurnEvicts ==
  ASSUME ~HooksYield, TypeOK, hooked = present,
         NEW k \in Scans, NEW todo \in SUBSET present, EvictNext(k, todo),
         \A t \in Slots : t # k => ~Busy(t),
         \A a \in Agents : a \in present <=> OnlineNow(a)'
  PROVE  TurnInv'
<1>1. CASE todo = {}
  <2>1. /\ call' = [call EXCEPT ![k] = NoCall]
        /\ UNCHANGED <<present, hooked>>
    BY <1>1 DEF EvictNext
  <2>2. \A t \in Slots : ~Busy(t)'
    BY <2>1 DEF Busy, TypeOK
  <2> QED
    BY <2>1, <2>2 DEF TurnInv, OneCall, ReplayInStep, Pending
<1>2. CASE todo # {}
  <2>1. PICK a \in todo : Drop(a) /\ CallHook(k, "evict", a)
    BY <1>2 DEF EvictNext
  <2>2. a \in Agents /\ a \in present /\ present' = present \ {a}
    BY <2>1 DEF Drop, TypeOK
  <2> DEFINE c == [kind |-> "evict", agent |-> a, ran |-> TRUE]
  <2>3. call' = [call EXCEPT ![k] = c] /\ hooked' = hooked \ {a}
    BY <2>1, <2>2, CallHookInTurn DEF Effect
  <2>4. c \in Calls /\ c # NoCall /\ c.kind = "evict" /\ c.agent = a /\ c.ran = TRUE
    BY <2>2, CallIsNotNoCall
  <2>5. Busy(k)' /\ call'[k] = c /\ \A t \in Slots : t # k => ~Busy(t)'
    BY <2>3, <2>4 DEF TypeOK, Busy
  <2>6. OneCall' /\ hooked' = present'
    BY <2>2, <2>3, <2>4, <2>5 DEF OneCall
  <2>7. \A b \in Agents : Pending(b)' <=> b = a
    BY <2>4, <2>5 DEF Pending
  <2>8. ReplayInStep'
    BY <2>2, <2>4, <2>5, <2>7 DEF ReplayInStep
  <2> QED
    BY <2>6, <2>8 DEF TurnInv
<1> QED
  BY <1>1, <1>2

\* As long as no write has failed, a load would find what is in memory.
FileInStep == ~file.failed => file.found = ledger /\ file.end = "closed"

\* The two parts of LedgerTellsAStory and the file go on with an entry.
LEMMA RecordKeeps ==
  ASSUME TypeOK, TurnInv, LedgerTellsAStory, FileInStep, base' = base,
         NEW s \in Slots, NEW cut \in Cuts, Busy(s), Record(s, cut)
  PROVE  LedgerTellsAStory' /\ FileInStep'
<1>1. PICK e \in Entries : e = [event |-> call[s].kind, agent |-> call[s].agent]
  BY DEF Busy, TypeOK
<1>2. ledger' = Append(ledger, e) /\ file' = Written(e, cut)
  BY <1>1 DEF Record
<1>3. PICK b \in Nat : b = base
  BY DEF TypeOK
<1>4. Story(b)'
  BY <1>3, RecordStory DEF LedgerTellsAStory
<1>5. Story(base)'
  BY <1>3, <1>4 DEF Story, OnlineIn
<1>6. ~file'.failed => ~file.failed /\ cut = "all"
  BY <1>2, WrittenType
<1>7. ~file.failed => Story(0)'
  BY <1>3, RecordStory DEF LedgerTellsAStory
<1>8. FileInStep'
  BY <1>2, <1>6, WrittenType DEF FileInStep
<1> QED
  BY <1>5, <1>6, <1>7, <1>8 DEF LedgerTellsAStory

\* A new process has written nothing yet, and finds the ledger as it was unless a
\* write has failed.
LEMMA StartKeeps ==
  ASSUME TypeOK, LedgerTellsAStory, FileInStep,
         Restart \/ \E k \in Scans, cut \in Cuts : EvictCrashes(k, cut)
  PROVE  LedgerTellsAStory' /\ FileInStep'
<1>1. file' \in Files /\ ledger' = file'.found /\ base' = Len(ledger')
  BY DeathIsAStart DEF Restart, EvictCrashes, StartsWith
<1>2. Story(base)'
  BY <1>1 DEF Story, Files
<1>3. ASSUME Restart, ~file'.failed
      PROVE  Story(0)' /\ FileInStep'
  <2>1. file' = file /\ ledger' = ledger
    BY <1>3 DEF Restart, StartsWith, FileInStep
  <2> QED
    BY <1>3, <2>1 DEF LedgerTellsAStory, FileInStep, Story, OnlineIn, Departure
<1>4. ASSUME NEW k \in Scans, NEW cut \in Cuts, EvictCrashes(k, cut)
      PROVE  file'.failed
  <2>1. PICK e \in Entries : e = [event |-> "evict", agent |-> call[k].agent]
    BY <1>4 DEF EvictCrashes, Busy, TypeOK
  <2> QED
    BY <1>4, <2>1, WrittenType DEF EvictCrashes
<1> QED
  BY <1>2, <1>3, <1>4 DEF LedgerTellsAStory, FileInStep

\* With hooks that settle in their turn and do not reject, every step keeps the
\* invariant and the story.
StoryInv == LedgerTellsAStory /\ FileInStep

LEMMA TurnNext ==
  ASSUME ~HooksYield, ~HooksFail
  PROVE  TypeOK /\ ScanTargets /\ TurnInv /\ StoryInv /\ [Next]_vars
           => TurnInv' /\ StoryInv'
<1> SUFFICES ASSUME TypeOK, ScanTargets, TurnInv, StoryInv, [Next]_vars
             PROVE  TurnInv' /\ StoryInv'
  OBVIOUS
<1>1. ASSUME UNCHANGED <<ledger, file, base>> PROVE StoryInv'
  BY <1>1 DEF StoryInv, FileInStep, LedgerTellsAStory, Story, OnlineIn, Departure
<1>2. ASSUME UNCHANGED <<present, hooked, call, ledger, file, base>> PROVE TurnInv'
  BY <1>2 DEF TurnInv, OneCall, ReplayInStep, Pending, Busy, OnlineNow, OnlineIn,
              Departure
<1>3. ASSUME NEW r \in Requests, NEW a \in Agents,
             Join(r, a) \/ Leave(r, a) \/ Action(r, a)
      PROVE  TurnInv' /\ StoryInv'
  <2>1. \A t \in Slots : ~Busy(t)
    BY <1>3, FreeIsAtRest DEF Join, Leave, Action, Accepts
  <2>2. UNCHANGED <<ledger, file, base>>
    BY <1>3 DEF Join, Leave, Action
  <2>3. CASE Join(r, a)
    BY <1>1, <2>1, <2>2, <2>3, TurnStarts DEF Join
  <2>4. CASE Leave(r, a)
    BY <1>1, <2>1, <2>2, <2>4, TurnStarts DEF Leave, InWorld, Drop
  <2>5. CASE Action(r, a)
    BY <1>1, <2>1, <2>2, <2>5, TurnStarts DEF Action, InWorld
  <2> QED
    BY <1>1, <1>3, <2>2, <2>3, <2>4, <2>5
<1>4. ASSUME NEW r \in Requests, NEW cut \in Cuts, HookReturns(r, cut)
      PROVE  TurnInv' /\ StoryInv'
  <2>1. Busy(r) /\ Record(r, cut) /\ UNCHANGED <<present, hooked, base>>
    BY <1>4 DEF HookReturns
  <2>2. \A t \in Slots : ~Busy(t)'
    BY <1>4, <2>1 DEF HookReturns, Busy, TypeOK, TurnInv, OneCall
  <2>3. \A a \in Agents : a \in present' <=> OnlineNow(a)'
    BY <2>1, RecordAgrees
  <2>4. TurnInv'
    BY <2>1, <2>2, <2>3 DEF TurnInv, OneCall, ReplayInStep, Pending
  <2> QED
    BY <2>1, <2>4, RecordKeeps DEF StoryInv
<1>5. ASSUME NEW k \in Scans, ScanFires(k) PROVE TurnInv' /\ StoryInv'
  <2>1. (\A t \in Slots : ~Busy(t)) /\ EvictNext(k, Stale) /\ UNCHANGED <<ledger, file, base>>
    BY <1>5, FreeIsAtRest DEF ScanFires
  <2>2. Stale \in SUBSET present
    BY DEF Stale
  <2>3. \A a \in Agents : a \in present <=> OnlineNow(a)'
    BY <2>1 DEF TurnInv, ReplayInStep, Pending, OnlineNow, OnlineIn, Departure
  <2> QED
    BY <1>1, <2>1, <2>2, <2>3, TurnEvicts DEF TurnInv
<1>6. ASSUME NEW k \in Scans, EvictReturns(k) PROVE TurnInv' /\ StoryInv'
  <2>1. Busy(k) /\ Record(k, "all") /\ EvictNext(k, scan[k]) /\ base' = base
    BY <1>6 DEF EvictReturns
  <2>2. scan[k] \in SUBSET present
    BY DEF ScanTargets
  <2>3. \A t \in Slots : t # k => ~Busy(t)
    BY <2>1 DEF TurnInv, OneCall
  <2>4. \A a \in Agents : a \in present <=> OnlineNow(a)'
    <3>1. "all" \in Cuts /\ k \in Slots
      BY DEF Cuts
    <3> QED
      BY <2>1, <3>1, RecordAgrees
  <2> QED
    BY <2>1, <2>2, <2>3, <2>4, TurnEvicts, RecordKeeps DEF TurnInv, StoryInv, Cuts
<1>7. CASE Restart \/ \E k \in Scans, cut \in Cuts : EvictCrashes(k, cut)
  <2>1. Starts
    BY <1>7, DeathIsAStart
  <2>2. /\ \A t \in Slots : ~Busy(t)'
        /\ \A a \in Agents : ~OnlineNow(a)'
    BY <2>1 DEF Starts, StartsWith, Busy, OnlineNow, OnlineIn
  <2>3. TurnInv'
    BY <2>1, <2>2 DEF Starts, StartsWith, TurnInv, OneCall, ReplayInStep, Pending
  <2> QED
    BY <1>7, <2>3, StartKeeps DEF StoryInv
<1>8. \A s \in Slots : ~HookRuns(s)
  BY DEF HookRuns, TurnInv, OneCall
<1>9. \A r \in Requests : ~HookThrows(r)
  BY DEF HookThrows
<1>10. ASSUME \/ \E a \in Agents : Heard(a) \/ \E age \in 0 .. StaleTtl + 1 : Discovered(a, age)
              \/ Tick \/ Prune \/ UNCHANGED vars
       PROVE  UNCHANGED <<present, hooked, call, ledger, file, base>>
  BY <1>10 DEF Heard, Discovered, Tick, Prune, vars
<1> QED
  BY <1>1, <1>2, <1>3, <1>4, <1>5, <1>6, <1>7, <1>8, <1>9, <1>10 DEF Next

\* The initial state satisfies the invariant; the empty ledger tells no story.
LEMMA TurnInit == Init => TurnInv /\ StoryInv /\ ScanTargets
BY DEF Init, TurnInv, OneCall, ReplayInStep, Pending, Busy, OnlineNow, OnlineIn,
       StoryInv, FileInStep, LedgerTellsAStory, Story, ScanTargets

\* With hooks like those of world/server.mjs the membership table, the hooks'
\* table and the replay of the ledger agree whenever no handler is in its await.
THEOREM TablesAgreeHolds ==
  ASSUME ~HooksYield, ~HooksFail
  PROVE  Spec => []TablesAgree
<1>1. TurnInv => TablesAgree
  BY DEF TurnInv, ReplayInStep, Pending, OnlineNow, TablesAgree, AtRest
<1>2. TypeOK /\ ScanTargets /\ TurnInv /\ StoryInv /\ [Next]_vars
        => TurnInv' /\ StoryInv'
  BY TurnNext
<1> QED
  BY <1>1, <1>2, TurnInit, ScanTargetsNext, TypeCorrect, PTL DEF Spec

\* With the same hooks, whatever appends throw and whenever the process dies, what
\* a process records shows no action or departure of an agent whose join it has
\* not recorded; nor does the ledger over all restarts while no append has failed.
THEOREM LedgerTellsAStoryHolds ==
  ASSUME ~HooksYield, ~HooksFail
  PROVE  Spec => []LedgerTellsAStory
<1>1. TypeOK /\ ScanTargets /\ TurnInv /\ StoryInv /\ [Next]_vars
        => TurnInv' /\ StoryInv'
  BY TurnNext
<1>2. StoryInv => LedgerTellsAStory
  BY DEF StoryInv
<1> QED
  BY <1>1, <1>2, TurnInit, ScanTargetsNext, TypeCorrect, PTL DEF Spec

================================================================================
