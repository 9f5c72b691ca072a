---------------------------- MODULE GatewayRegistry ----------------------------
(***************************************************************************)
(* The gateway's two registries and their files (gateway/server.mjs):      *)
(* announce, heartbeat, deregister, the debounced save, the 30 s tick,     *)
(* graceful stop, crash and start.                                         *)
(*                                                                         *)
(* Each handler and timer callback is synchronous from its first read of a *)
(* registry on, so each is one action.  A registry maps an id to a record  *)
(* or to NoRecord; a record is the age of its lastSeen, in units of time,  *)
(* and a content (publicKey, alias or slug, endpoints, capabilities).  The *)
(* age is negative when a world's clock is ahead of the gateway's.         *)
(*                                                                         *)
(* A write of the two files ends "all" written, "half" (the agents' file   *)
(* has been renamed and the worlds' has not) or "none"; each file is       *)
(* replaced by a rename, never torn.  A process that dies in the middle of *)
(* a write is a write that ends "half" or "none" and then Crash.           *)
(***************************************************************************)
EXTENDS Integers, FiniteSets

CONSTANTS
  Agents,      \* ids of the agents that announce themselves
  Worlds,      \* ids of the world servers that do
  Contents,    \* contents of a record
  NoRecord,    \* value of an id that is not registered
  MaxAgents,   \* MAX_AGENTS
  Ttl,         \* staleTtlMs, in units of time
  TickPeriod,  \* 30 s, in units of time
  Stamps       \* age of the timestamp a world's announce carries

Ids == Agents \cup Worlds

ASSUME IdsAssumption == IsFiniteSet(Ids) /\ Agents \cap Worlds = {}

\* Nothing bounds the timestamp in the body of an announce: only signed headers,
\* which are optional, are checked against the clock, and the time to live is the
\* operator's to choose.
ASSUME TimesAssumption ==
  /\ MaxAgents \in Nat \ {0}
  /\ Ttl \in Nat /\ TickPeriod \in Nat \ {0}
  /\ Stamps \subseteq Int

Records == [age : Int, content : Contents]

ASSUME NoRecordAssumption == NoRecord \notin Records

VARIABLES
  mem,        \* agentRegistry and worldRegistry
  disk,       \* agents-registry.json and worlds-registry.json
  onDisk,     \* one of the two files exists
  phase,      \* "up", "stopping" (stop() awaits app.close()) or "down"
  saveTimer,  \* _saveTimer is armed
  modified,   \* _registryModifiedAt # null
  failed,     \* the last write of the files failed (kept for the properties)
  sinceTick   \* units of time since the tick timer last fired

vars == <<mem, disk, onDisk, phase, saveTimer, modified, failed, sinceTick>>

Registries == [Ids -> Records \cup {NoRecord}]
Empty == [id \in Ids |-> NoRecord]
Listed(m) == {id \in Ids : m[id] # NoRecord}

Outcomes == {"all", "half", "none"}

\* Ages saturate above anything they are compared with.
Older(m) ==
  [id \in Ids |->
     IF m[id] = NoRecord \/ m[id].age > Ttl + TickPeriod
       THEN m[id] ELSE [age |-> m[id].age + 1, content |-> m[id].content]]

--------------------------------------------------------------------------------
(* Files *)

\* The files after writeRegistries() of m over d.
Written(outcome, d, m) ==
  [id \in Ids |->
     IF outcome = "all" \/ (outcome = "half" /\ id \in Agents) THEN m[id] ELSE d[id]]

Write(outcome, m) ==
  /\ disk' = Written(outcome, disk, m)
  /\ onDisk' = (onDisk \/ outcome # "none")
  /\ failed' = (outcome # "all")

\* Fault: deregistering a record leaves the write to the debounce timer.
FlushLater(outcome, m) ==
  saveTimer' = TRUE /\ UNCHANGED <<disk, onDisk, failed>>

\* flushRegistry(): cancels the pending save and writes now; a failure is
\* logged and the timer is not armed again.
Flush(outcome, m) == saveTimer' = FALSE /\ Write(outcome, m)

\* Fault: records are loaded whatever their age.
LoadedWithStale(d) == d

\* The records loadRegistries() keeps.
Loaded(d) ==
  [id \in Ids |-> IF d[id] # NoRecord /\ d[id].age > Ttl THEN NoRecord ELSE d[id]]

--------------------------------------------------------------------------------
(* Handlers *)

Serving == phase # "down"

\* Fault: a record counts as changed when its lastSeen moved.
ChangedIfNewer(old, new) == {old = NoRecord \/ old.age # new.age}

\* Whether an upsert changed the record: with an equal content and an age in the
\* same unit of time the two timestamps may still differ by milliseconds.
Changed(old, new) == IF old = new THEN BOOLEAN ELSE {TRUE}

\* saveRegistry() and _registryModifiedAt after an upsert.
Persist(changed) ==
  /\ saveTimer' = (saveTimer \/ changed)
  /\ modified' = (modified \/ changed)

\* Fault: the registry may hold one agent more.
OverCapByOne(n) == n > MaxAgents + 1

OverCap(n) == n > MaxAgents

\* The agents seen least recently in m.
Oldest(m, S) == {x \in S : \A y \in S : m[y].age <= m[x].age}

\* POST /agents (and POST /peer/announce) of an agent: upsertAgent.  The new
\* record is the most recent and the last in Map order, so never trimmed.
AnnounceAgent(a, content) ==
  /\ Serving
  /\ LET m == [mem EXCEPT ![a] = [age |-> 0, content |-> content]]
         others == (Listed(m) \cap Agents) \ {a}
     IN  \/ /\ ~OverCap(Cardinality(others \cup {a}))
            /\ mem' = m
            /\ \E changed \in Changed(mem[a], m[a]) : Persist(changed)
         \/ /\ OverCap(Cardinality(others \cup {a}))
            /\ \E old \in Oldest(m, others) : mem' = [m EXCEPT ![old] = NoRecord]
            /\ Persist(TRUE)
  /\ UNCHANGED <<disk, onDisk, phase, failed, sinceTick>>

\* Fault: lastSeen is the timestamp of the announce.
LaterIsLatest(old, stamp) == stamp

\* lastSeen is the later of the record's and the announce's timestamp.
Later(old, stamp) == IF old # NoRecord /\ old.age < stamp THEN old.age ELSE stamp

\* The same of a world: upsertWorld, which has no cap.
AnnounceWorld(w, content, stamp) ==
  /\ Serving
  /\ LET new == [age |-> Later(mem[w], stamp), content |-> content] IN
       /\ mem' = [mem EXCEPT ![w] = new]
       /\ \E changed \in Changed(mem[w], new) : Persist(changed)
  /\ UNCHANGED <<disk, onDisk, phase, failed, sinceTick>>

\* POST /agents/:id/heartbeat and POST /worlds/:id/heartbeat of a known id:
\* lastSeen becomes now, and nothing is saved before the next tick.
Heartbeat(id) ==
  /\ Serving /\ mem[id] # NoRecord
  /\ mem' = [mem EXCEPT ![id] = [age |-> 0, content |-> mem[id].content]]
  /\ modified' = TRUE
  /\ UNCHANGED <<disk, onDisk, phase, saveTimer, failed, sinceTick>>

\* DELETE /agents/:id and DELETE /worlds/:id.
Deregister(id, outcome) ==
  /\ Serving /\ mem[id] # NoRecord
  /\ mem' = [mem EXCEPT ![id] = NoRecord]
  /\ modified' = TRUE
  /\ Flush(outcome, mem')
  /\ UNCHANGED <<phase, sinceTick>>

--------------------------------------------------------------------------------
(* Timers *)

\* The debounce timer of saveRegistry().
SaveFires(outcome) ==
  /\ Serving /\ saveTimer
  /\ saveTimer' = FALSE
  /\ Write(outcome, mem)
  /\ UNCHANGED <<mem, phase, modified, sinceTick>>

\* pruneStaleAgents and pruneStaleWorlds.
Pruned(m, S) ==
  [id \in Ids |->
     IF id \in S /\ m[id] # NoRecord /\ m[id].age > Ttl THEN NoRecord ELSE m[id]]

\* Fault: the tick leaves the snapshot to the debounce timer.
SnapshotIfArmed == saveTimer

SnapshotDue == modified

\* Fault: the tick timer is armed one period too far.
TickOverdue == sinceTick > TickPeriod

TickDue == sinceTick >= TickPeriod

\* The 30 s tick: each prune that removed something flushes, then the snapshot
\* is written; outcomes says how each of the three writes ends.
TickFires(outcomes) ==
  /\ phase = "up" /\ TickDue
  /\ sinceTick' = 0
  /\ LET m1 == Pruned(mem, Agents)
         d1 == IF m1 = mem THEN disk ELSE Written(outcomes[1], disk, m1)
         m2 == Pruned(m1, Worlds)
         d2 == IF m2 = m1 THEN d1 ELSE Written(outcomes[2], d1, m2)
         written == {i \in 1 .. 3 : CASE i = 1 -> m1 # mem
                                      [] i = 2 -> m2 # m1
                                      [] OTHER -> SnapshotDue}
     IN  /\ mem' = m2
         /\ disk' = IF SnapshotDue THEN Written(outcomes[3], d2, m2) ELSE d2
         /\ onDisk' = (onDisk \/ \E i \in written : outcomes[i] # "none")
         /\ failed' = IF written = {} THEN failed
                      ELSE \E i \in written :
                             /\ \A j \in written : j <= i
                             /\ outcomes[i] # "all"
         /\ saveTimer' = (saveTimer /\ m2 = mem)
  /\ UNCHANGED <<phase, modified>>

\* A unit of time is longer than the debounce and no timer is late by as much.
Advance ==
  /\ Serving => ~saveTimer
  /\ phase = "up" => ~TickDue
  /\ sinceTick' = IF phase = "up" THEN sinceTick + 1 ELSE 0
  /\ mem' = Older(mem) /\ disk' = Older(disk)
  /\ UNCHANGED <<onDisk, phase, saveTimer, modified, failed>>

--------------------------------------------------------------------------------
(* Start, stop, crash *)

Start ==
  /\ phase = "down"
  /\ phase' = "up"
  /\ mem' = Loaded(disk)
  /\ modified' = onDisk
  /\ failed' = FALSE
  /\ sinceTick' = 0
  /\ UNCHANGED <<disk, onDisk, saveTimer>>

\* stop(): no more ticks, flush, then app.close() waits for the requests that
\* are still open, whose handlers run.
Stop(outcome) ==
  /\ phase = "up"
  /\ phase' = "stopping"
  /\ Flush(outcome, mem)
  /\ sinceTick' = 0
  /\ UNCHANGED <<mem, modified>>

Gone ==
  /\ phase' = "down"
  /\ mem' = Empty
  /\ saveTimer' = FALSE /\ modified' = FALSE
  /\ sinceTick' = 0
  /\ UNCHANGED <<disk, onDisk, failed>>

\* The process ends by itself once no timer keeps it alive.
Exit == phase = "stopping" /\ ~saveTimer /\ Gone

Crash == Serving /\ Gone

Init ==
  /\ mem = Empty /\ disk = Empty /\ onDisk = FALSE
  /\ phase = "down"
  /\ saveTimer = FALSE /\ modified = FALSE /\ failed = FALSE
  /\ sinceTick = 0

Next ==
  \/ \E a \in Agents, c \in Contents : AnnounceAgent(a, c)
  \/ \E w \in Worlds, c \in Contents, t \in Stamps : AnnounceWorld(w, c, t)
  \/ \E id \in Ids : Heartbeat(id)
  \/ \E id \in Ids, o \in Outcomes : Deregister(id, o)
  \/ \E o \in Outcomes : SaveFires(o) \/ Stop(o)
  \/ \E os \in [1 .. 3 -> Outcomes] : TickFires(os)
  \/ Advance \/ Start \/ Exit \/ Crash

Spec == Init /\ [][Next]_vars

\* Time passes, timers fire, and a disk that is written to again and again
\* accepts a write in the end.
Fairness ==
  /\ WF_vars(Advance) /\ WF_vars(Exit)
  /\ SF_vars(SaveFires("all"))
  /\ SF_vars(TickFires([i \in 1 .. 3 |-> "all"]))

FairSpec == Spec /\ Fairness

--------------------------------------------------------------------------------
(* Properties *)

\* The types of the state.
TypeOK ==
  /\ mem \in Registries /\ disk \in Registries
  /\ onDisk \in BOOLEAN
  /\ phase \in {"up", "stopping", "down"}
  /\ saveTimer \in BOOLEAN /\ modified \in BOOLEAN /\ failed \in BOOLEAN
  /\ sinceTick \in 0 .. TickPeriod

\* Neither the registry nor the file that is loaded at the next start ever holds
\* more than MAX_AGENTS agents.
AgentCap ==
  \A m \in {mem, disk} : Cardinality(Listed(m) \cap Agents) <= MaxAgents

\* A restart would restore what the registry holds of id: the same live record,
\* or none.
Restored(id) ==
  LET now == Loaded(mem)[id]
      then == Loaded(disk)[id]
  IN  IF now = NoRecord THEN then = NoRecord
      ELSE then # NoRecord /\ then.content = now.content

\* What a crash would bring back: a record that is gone from the registry and
\* would be loaded again.
Revived(id) == mem[id] = NoRecord /\ Loaded(disk)[id] # NoRecord

Dirty == Serving /\ \E id \in Ids : ~Restored(id)

\* The files have the record of id and are only behind with its lastSeen.
SeenLater(id) ==
  /\ mem[id] # NoRecord /\ disk[id] # NoRecord
  /\ mem[id].content = disk[id].content

\* The next tick has a reason to write the record of id: the last write failed,
\* or the record was seen since the last tick.
DueAtTick(id) ==
  modified /\ (failed \/ (SeenLater(id) /\ mem[id].age <= sinceTick))

\* No change of the registries is forgotten.  What a restart would not restore
\* has a save pending, or is due at the next tick; a gateway that is stopping has
\* no next tick, and all it may lose is what its last write failed to write and
\* the lastSeen of records it has written.
NothingForgotten ==
  \A id \in Ids :
    /\ phase = "up" => Restored(id) \/ saveTimer \/ DueAtTick(id)
    /\ phase = "stopping" => Restored(id) \/ saveTimer \/ failed \/ SeenLater(id)

\* A world that was deregistered or pruned does not come back with a restart
\* unless the write of its removal failed.
WorldsNotRevived ==
  Serving /\ ~failed => \A w \in Worlds : ~Revived(w)

\* A record that a tick should have pruned.
Overdue(id) ==
  phase = "up" /\ id \in Listed(mem) /\ mem[id].age > Ttl + sinceTick

\* No record gets stale under the eyes of a running gateway: one that is listed is
\* never set back, and a start from old files lists none.  Only the first announce
\* of a world, which may carry any date, lists a record that is stale already, and
\* the next tick removes it.
Fresh ==
  [][\A id \in Ids :
       Overdue(id)' =>
         \/ Overdue(id) /\ sinceTick' >= sinceTick
         \/ phase = "up" /\ id \in Worlds /\ mem[id] = NoRecord]_vars

\* A change of the registries reaches the files, whatever writes fail, unless
\* the process dies first.
ChangesReachDisk == Dirty ~> ~Dirty

================================================================================
