------------------------------ MODULE WorldServer ------------------------------
(***************************************************************************)
(* The membership core of a World Agent: the /peer/message handler of      *)
(* agent-protocol.ts with the onMessage dispatcher of world-server.ts, the *)
(* idle-eviction and prune timers, the peer database, the in-memory ledger *)
(* and the world's own hooks (those of world/server.mjs).                  *)
(*                                                                         *)
(* The server is one Node process.  A handler runs without interruption up *)
(* to its "await hooks.onX(..)"; what follows the await (ledger.append and *)
(* the reply) runs when the hook settles.  A call in flight is therefore   *)
(* state, kept in call[slot], and every handler is split at its await.     *)
(*                                                                         *)
(* An append may throw: its entry is in memory all the same, and its line  *)
(* is in the file whole, without its newline, in part or not at all        *)
(* (module WorldLedger has the lines, hashes and loads themselves).        *)
(*                                                                         *)
(* Time is relative: idle[a] is Date.now() - agentLastSeen.get(a), and     *)
(* quiet[a] is Date.now() - agentDb.get(a).lastSeen, both counted in ticks *)
(* and saturating just above the limit each of them is compared with.      *)
(***************************************************************************)
EXTENDS Integers, Sequences, FiniteSets, SequencesExt

CONSTANTS
  Agents,       \* agent ids whose messages pass signature and key checks
  Requests,     \* slots for requests in flight (bound on concurrency)
  Scans,        \* slots for eviction scans in flight (bound on overlap)
  NoCall,       \* value of a free slot
  MaxAgents,    \* config.maxAgents, 0 means no limit
  MaxPeers,     \* capacity of the peer database
  IdleLimit,    \* 5 minutes, in ticks
  ScanPeriod,   \* 60 seconds, in ticks
  StaleTtl,     \* config.staleTtlMs, in ticks
  HooksYield,   \* TRUE: a hook may settle after other requests and timers
                \* FALSE: it settles in the same turn (world/server.mjs)
  HooksFail,    \* TRUE: a hook may reject
  WritesFail,   \* TRUE: an append to the ledger file may throw
  MaxLedger,    \* bound: no request is accepted once the ledger is this long
  MaxRestarts   \* bound on the number of process restarts

ASSUME LimitsAssumption ==
  /\ MaxAgents \in Nat
  /\ MaxPeers \in Nat \ {0}
  /\ IdleLimit \in Nat
  /\ ScanPeriod \in Nat \ {0}
  /\ StaleTtl \in Nat
  /\ MaxLedger \in Nat
  /\ MaxRestarts \in Nat

ASSUME SlotsAssumption ==
  /\ IsFiniteSet(Agents)
  /\ Requests \cap Scans = {}
  /\ NoCall \notin [kind : {"join", "leave", "action", "evict"},
                    agent : Agents, ran : BOOLEAN]

ASSUME ModeAssumption ==
  HooksYield \in BOOLEAN /\ HooksFail \in BOOLEAN /\ WritesFail \in BOOLEAN

(***************************************************************************)
(* A member's key must outlive its membership: 5 min + 60 s < 30 min with  *)
(* the default configuration.  staleTtlMs is configurable, so this is an   *)
(* assumption about the deployment, and the theorem that needs it names it.*)
(***************************************************************************)
TtlCoversIdle == IdleLimit + ScanPeriod <= StaleTtl

VARIABLES
  present,    \* keys of agentLastSeen
  idle,       \* age of each agentLastSeen entry (0 for absent agents)
  endpoints,  \* keys of agentEndpoints
  known,      \* keys of agentDb
  quiet,      \* age of each agentDb record (0 for unknown agents)
  hooked,     \* the hooks' own member table (worldAgents in world/server.mjs)
  call,       \* calls to hooks in flight
  scan,       \* agents an eviction scan in flight has still to evict
  sinceScan,  \* ticks since the eviction timer last fired
  ledger,     \* in-memory ledger entries
  file,       \* the ledger file: the entries a load would find, how its last
              \* line ends, and whether a write has failed (for the properties)
  base,       \* length of the ledger when this process started
  restarts    \* number of restarts so far

vars == <<present, idle, endpoints, known, quiet, hooked, call, scan,
          sinceScan, ledger, file, base, restarts>>

Slots == Requests \cup Scans
Kinds == {"join", "leave", "action", "evict"}
Calls == [kind : Kinds, agent : Agents, ran : BOOLEAN]
Entries == [event : Kinds, agent : Agents]

\* The last line has its newline, is whole but lacks it, or does not parse.
Ends == {"closed", "unended", "torn"}
Files == [found : Seq(Entries), end : Ends, failed : BOOLEAN]

Busy(s) == call[s] # NoCall

\* Other requests and timers run only when no hook is being awaited, unless
\* hooks really yield to the event loop.
EventLoopFree == HooksYield \/ \A s \in Slots : ~Busy(s)

\* One tick later, saturating just above the limit the age is compared with.
Older(age, limit) == IF age > limit THEN age ELSE age + 1

--------------------------------------------------------------------------------
(* AgentDb *)

Oldest(S) == {x \in S : \A y \in S : quiet[y] <= quiet[x]}

\* Fault: only a new record gets a lastSeen.
RefreshedOnInsert(a, b) == b = a /\ a \notin known

\* lastSeen of a's record becomes now.
Refreshed(a, b) == b = a

\* AgentDb.upsert: the record is refreshed; above maxPeers the record seen
\* least recently is deleted.  The new record has the latest lastSeen and the
\* last place in the stable sort, so it is never the one deleted; ties between
\* the others are broken by Map order, left open here.
Upsert(a) ==
  /\ \/ /\ Cardinality(known \cup {a}) <= MaxPeers
        /\ known' = known \cup {a}
     \/ /\ Cardinality(known \cup {a}) > MaxPeers
        /\ \E old \in Oldest(known \ {a}) :
             known' = (known \cup {a}) \ {old}
  /\ quiet' = [b \in Agents |-> IF b \in known' /\ ~Refreshed(a, b)
                                THEN quiet[b] ELSE 0]

--------------------------------------------------------------------------------
(* Hooks *)

\* Fault: the hooks are not told of evictions.
EffectWithoutEvict(kind, a) ==
  CASE kind = "join" -> hooked \cup {a}
    [] kind = "leave" -> hooked \ {a}
    [] OTHER -> hooked

Effect(kind, a) ==
  CASE kind = "join" -> hooked \cup {a}
    [] kind = "action" -> hooked
    [] OTHER -> hooked \ {a}

\* The call to a hook: its body has taken effect when the call returns its
\* promise, as in world/server.mjs, or (hooks that yield) later.
CallHook(s, kind, a) ==
  \E ran \in (IF HooksYield THEN BOOLEAN ELSE {TRUE}) :
    /\ call' = [call EXCEPT ![s] = [kind |-> kind, agent |-> a, ran |-> ran]]
    /\ hooked' = IF ran THEN Effect(kind, a) ELSE hooked

HookRuns(s) ==
  /\ Busy(s) /\ ~call[s].ran
  /\ hooked' = Effect(call[s].kind, call[s].agent)
  /\ call' = [call EXCEPT ![s].ran = TRUE]
  /\ UNCHANGED <<present, idle, endpoints, known, quiet, scan, sinceScan,
                 ledger, file, base, restarts>>

--------------------------------------------------------------------------------
(* POST /peer/message *)

\* Fault: the seats are counted in the hooks' table.
FullByHooks == MaxAgents > 0 /\ Cardinality(hooked) >= MaxAgents

\* The world is full: the test made before agentLastSeen.set.
Full == MaxAgents > 0 /\ Cardinality(present) >= MaxAgents

\* Fault: membership is looked up in the peer database.
InWorldIfKnown(a) == a \in known

InWorld(a) == a \in present

Accepts(r) == EventLoopFree /\ ~Busy(r) /\ Len(ledger) < MaxLedger

\* Fault: a scan goes by the timestamps it read when it started.
TouchAfterSnapshot(a) ==
  /\ idle' = [idle EXCEPT ![a] = 0]
  /\ UNCHANGED scan

\* agentLastSeen.set(a, now): no scan in flight sees a as idle any longer,
\* because the scan reads the timestamp when its iterator reaches the entry.
Touch(a) ==
  /\ idle' = [idle EXCEPT ![a] = 0]
  /\ scan' = [k \in Scans |-> scan[k] \ {a}]

\* agentLastSeen.delete(a) and agentEndpoints.delete(a).
Drop(a) ==
  /\ present' = present \ {a}
  /\ endpoints' = endpoints \ {a}
  /\ idle' = [idle EXCEPT ![a] = 0]

Join(r, a) ==
  /\ Accepts(r) /\ ~Full
  /\ Upsert(a)
  /\ Touch(a)
  /\ present' = present \cup {a}
  /\ endpoints' = endpoints \cup {a}
  /\ CallHook(r, "join", a)
  /\ UNCHANGED <<sinceScan, ledger, file, base, restarts>>

Leave(r, a) ==
  /\ Accepts(r) /\ InWorld(a)
  /\ Upsert(a)
  /\ Drop(a)
  /\ scan' = [k \in Scans |-> scan[k] \ {a}]
  /\ CallHook(r, "leave", a)
  /\ UNCHANGED <<sinceScan, ledger, file, base, restarts>>

Action(r, a) ==
  /\ Accepts(r) /\ InWorld(a)
  /\ Upsert(a)
  /\ Touch(a)
  /\ CallHook(r, "action", a)
  /\ UNCHANGED <<present, endpoints, sinceScan, ledger, file, base, restarts>>

\* A message answered without awaiting a hook: a join of a full world or with
\* a wrong password, an action or a leave of an absent agent, any other event.
\* It has refreshed the sender's record all the same, as an announce does.
Heard(a) ==
  /\ EventLoopFree
  /\ Upsert(a)
  /\ UNCHANGED <<present, idle, endpoints, hooked, call, scan, sinceScan,
                 ledger, file, base, restarts>>

\* The answer of a gateway to an announce of this world names agent a, last seen
\* age ticks ago: its record gets the later of the two timestamps, and the oldest
\* record, maybe a's, is deleted above maxPeers.
Discovered(a, age) ==
  /\ EventLoopFree
  /\ LET seen == IF a \in known /\ quiet[a] < age THEN quiet[a] ELSE age
         aged == [quiet EXCEPT ![a] = seen]
     IN  /\ \/ /\ Cardinality(known \cup {a}) <= MaxPeers
               /\ known' = known \cup {a}
            \/ /\ Cardinality(known \cup {a}) > MaxPeers
               /\ \E old \in known \cup {a} :
                    /\ \A b \in known \cup {a} : aged[b] <= aged[old]
                    /\ known' = (known \cup {a}) \ {old}
         /\ quiet' = [b \in Agents |-> IF b \in known' THEN aged[b] ELSE 0]
  /\ UNCHANGED <<present, idle, endpoints, hooked, call, scan, sinceScan,
                 ledger, file, base, restarts>>

\* What an append may put in the file: its line and newline, the line, a part of
\* it, or nothing.
Cuts == IF WritesFail THEN {"all", "unended", "part", "nothing"} ELSE {"all"}

\* appendFileSync goes on from the last line when that has no newline: neither
\* of the two lines parses then.
Written(e, cut) ==
  CASE cut = "nothing" -> [file EXCEPT !.failed = TRUE]
    [] cut # "nothing" /\ file.end = "closed" ->
         [found |-> IF cut = "part" THEN file.found ELSE Append(file.found, e),
          end |-> CASE cut = "all" -> "closed" [] cut = "unended" -> "unended"
                    [] OTHER -> "torn",
          failed |-> file.failed \/ cut # "all"]
    [] OTHER ->
         [found |-> IF file.end = "unended" THEN Front(file.found) ELSE file.found,
          end |-> IF cut = "all" THEN "closed" ELSE "torn",
          failed |-> file.failed \/ cut # "all"]

\* ledger.append, which follows the await in the three handlers and the scan.
Record(s, cut) ==
  LET e == [event |-> call[s].kind, agent |-> call[s].agent]
  IN  ledger' = Append(ledger, e) /\ file' = Written(e, cut)

\* A request is answered whether or not the append throws (500 then).
HookReturns(r, cut) ==
  /\ Busy(r) /\ call[r].ran
  /\ Record(r, cut)
  /\ call' = [call EXCEPT ![r] = NoCall]
  /\ UNCHANGED <<present, idle, endpoints, known, quiet, hooked, scan,
                 sinceScan, base, restarts>>

\* A rejected hook ends the handler: no ledger entry, and the membership
\* change made before the await stays.
HookThrows(r) ==
  /\ HooksFail /\ Busy(r)
  /\ call' = [call EXCEPT ![r] = NoCall]
  /\ UNCHANGED <<present, idle, endpoints, known, quiet, hooked, scan,
                 sinceScan, ledger, file, base, restarts>>

--------------------------------------------------------------------------------
(* Idle eviction *)

\* Fault: the timer is armed one period too far.
ScanOverdue == sinceScan > ScanPeriod

ScanDue == sinceScan >= ScanPeriod

\* Fault: the scan walks the hooks' table.
StaleInHooks == {a \in hooked \cap present : idle[a] > IdleLimit}

Stale == {a \in present : idle[a] > IdleLimit}

\* The loop of scan k goes on with the agents in todo: it evicts the next one
\* and awaits its hook, or ends.
EvictNext(k, todo) ==
  IF todo = {}
    THEN /\ call' = [call EXCEPT ![k] = NoCall]
         /\ scan' = [scan EXCEPT ![k] = {}]
         /\ UNCHANGED <<present, idle, endpoints, hooked>>
    ELSE \E a \in todo :
           /\ Drop(a)
           /\ scan' = [j \in Scans |->
                         (IF j = k THEN todo ELSE scan[j]) \ {a}]
           /\ CallHook(k, "evict", a)

ScanFires(k) ==
  /\ EventLoopFree /\ ~Busy(k)
  /\ ScanDue
  /\ sinceScan' = 0
  /\ EvictNext(k, Stale)
  /\ UNCHANGED <<known, quiet, ledger, file, base, restarts>>

\* The hook of an eviction settles: its rejection is caught, the entry is
\* appended in either case and the loop goes on.
EvictReturns(k) ==
  /\ Busy(k) /\ (call[k].ran \/ HooksFail)
  /\ Record(k, "all")
  /\ EvictNext(k, scan[k])
  /\ UNCHANGED <<known, quiet, sinceScan, base, restarts>>

--------------------------------------------------------------------------------
(* Time, pruning, restart *)

\* The eviction timer is not late by a tick or more.
Tick ==
  /\ EventLoopFree
  /\ ~ScanDue
  /\ sinceScan' = sinceScan + 1
  /\ idle' = [a \in Agents |-> IF a \in present THEN Older(idle[a], IdleLimit) ELSE 0]
  /\ quiet' = [a \in Agents |-> IF a \in known THEN Older(quiet[a], StaleTtl) ELSE 0]
  /\ UNCHANGED <<present, endpoints, known, hooked, call, scan, ledger, file,
                 base, restarts>>

\* agentDb.prune(), at any phase of its own five-minute timer.
Prune ==
  /\ EventLoopFree
  /\ \E a \in known : quiet[a] > StaleTtl
  /\ known' = {a \in known : quiet[a] <= StaleTtl}
  /\ quiet' = [a \in Agents |-> IF a \in known' THEN quiet[a] ELSE 0]
  /\ UNCHANGED <<present, idle, endpoints, hooked, call, scan, sinceScan,
                 ledger, file, base, restarts>>

\* The process has died and starts again with what it finds in the file.
StartsWith(found) ==
  /\ restarts < MaxRestarts
  /\ restarts' = restarts + 1
  /\ present' = {} /\ endpoints' = {} /\ known' = {} /\ hooked' = {}
  /\ idle' = [a \in Agents |-> 0]
  /\ quiet' = [a \in Agents |-> 0]
  /\ call' = [s \in Slots |-> NoCall]
  /\ scan' = [k \in Scans |-> {}]
  /\ sinceScan' = 0
  /\ ledger' = found /\ base' = Len(found)

Restart == StartsWith(file.found) /\ UNCHANGED file

\* The append of an eviction throws in the timer's callback: nobody handles the
\* rejection of its promise, which ends the process.
EvictCrashes(k, cut) ==
  /\ Busy(k) /\ (call[k].ran \/ HooksFail)
  /\ cut # "all"
  /\ file' = Written([event |-> "evict", agent |-> call[k].agent], cut)
  /\ StartsWith(file'.found)

\* The genesis line is in the file, whole (module WorldLedger has the others).
Init ==
  /\ present = {} /\ endpoints = {} /\ known = {} /\ hooked = {}
  /\ idle = [a \in Agents |-> 0]
  /\ quiet = [a \in Agents |-> 0]
  /\ call = [s \in Slots |-> NoCall]
  /\ scan = [k \in Scans |-> {}]
  /\ sinceScan = 0
  /\ ledger = << >> /\ base = 0
  /\ file = [found |-> << >>, end |-> "closed", failed |-> FALSE]
  /\ restarts = 0

Next ==
  \/ \E r \in Requests, a \in Agents :
       Join(r, a) \/ Leave(r, a) \/ Action(r, a)
  \/ \E a \in Agents : Heard(a) \/ \E age \in 0 .. StaleTtl + 1 : Discovered(a, age)
  \/ \E s \in Slots : HookRuns(s)
  \/ \E r \in Requests, cut \in Cuts : HookReturns(r, cut)
  \/ \E r \in Requests : HookThrows(r)
  \/ \E k \in Scans : ScanFires(k) \/ EvictReturns(k)
  \/ \E k \in Scans, cut \in Cuts : EvictCrashes(k, cut)
  \/ Tick \/ Prune \/ Restart

Spec == Init /\ [][Next]_vars

\* The eviction interval keeps firing, its loop is resumed when the awaited
\* hook settles (or the process dies then), and hooks settle.  Nothing is assumed
\* about agents.
Fairness ==
  /\ WF_vars(Tick)
  /\ \A k \in Scans :
       /\ WF_vars(ScanFires(k)) /\ WF_vars(HookRuns(k))
       /\ WF_vars(EvictReturns(k) \/ \E cut \in Cuts : EvictCrashes(k, cut))

FairSpec == Spec /\ Fairness

--------------------------------------------------------------------------------
(* Properties *)

\* The types of the state; a slot of a request never holds an eviction and the
\* slot of a scan holds nothing else.
TypeOK ==
  /\ present \in SUBSET Agents /\ endpoints \in SUBSET Agents
  /\ known \in SUBSET Agents /\ hooked \in SUBSET Agents
  /\ idle \in [Agents -> Nat] /\ quiet \in [Agents -> Nat]
  /\ call \in [Slots -> Calls \cup {NoCall}]
  /\ \A s \in Slots : Busy(s) => (call[s].kind = "evict" <=> s \in Scans)
  /\ scan \in [Scans -> SUBSET Agents]
  /\ sinceScan \in 0 .. ScanPeriod
  /\ ledger \in Seq(Entries)
  /\ file \in Files
  /\ base \in 0 .. Len(ledger)
  /\ restarts \in 0 .. MaxRestarts

\* maxAgents is never exceeded, however many joins are in flight: the check and
\* the registration of world.join lie on the same side of the await.
Capacity == MaxAgents > 0 => Cardinality(present) <= MaxAgents

\* Replaying the entries from+1 .. upto, as getAgentSummaries does, leaves a
\* online: it joined and has not left or been evicted since.
Departure(e, a) == e.agent = a /\ e.event \in {"leave", "evict"}

OnlineIn(from, upto, a) ==
  \E j \in from + 1 .. upto :
    /\ ledger[j] = [event |-> "join", agent |-> a]
    /\ \A k \in j + 1 .. upto : ~Departure(ledger[k], a)

\* The entries after entry from tell a possible story of each agent: what is not
\* a join follows one of the same agent, with no departure between.
Story(from) ==
  \A n \in from + 1 .. Len(ledger) :
    ledger[n].event # "join" => OnlineIn(from, n - 1, ledger[n].agent)

\* What this process records is such a story by itself, whatever writes fail; and
\* as long as none has failed, so is the whole ledger that a restart finds: no
\* crash takes a join whose consequences were written.
LedgerTellsAStory == Story(base) /\ (~file.failed => Story(0))

AtRest == \A s \in Slots : ~Busy(s)

\* Between turns of the event loop the membership table, the hooks' own table
\* and the replay of what this process wrote to the ledger name the same agents.
TablesAgree ==
  AtRest => /\ hooked = present
            /\ \A a \in Agents : a \in present <=> OnlineIn(base, Len(ledger), a)

\* The replay alone ("State is derived from replaying the event log").
ReplayAgrees ==
  AtRest => \A a \in Agents : a \in present <=> OnlineIn(base, Len(ledger), a)

LosesSeat(a) == a \in present /\ a \notin present'

StartsLeaving(a) ==
  \E r \in Requests : /\ call[r] = NoCall
                       /\ call'[r] # NoCall
                       /\ call'[r].kind = "leave" /\ call'[r].agent = a

\* The process never drops a member that spoke within the idle limit unless the
\* member asked for it: an eviction scan suspended at a hook does not act on a
\* timestamp that was refreshed meanwhile.
EvictsOnlyIdle ==
  [][\A a \in Agents : LosesSeat(a) /\ restarts' = restarts
       => idle[a] > IdleLimit \/ StartsLeaving(a)]_vars

\* A member's key is in the peer database as long as it is a member (without it
\* GET /world/members answers 403 and the client drops the world), provided the
\* database has room for every agent that it hears of.
MembersKnown == Cardinality(Agents) <= MaxPeers => present \subseteq known

\* A silent member, or the seat left behind by a failed join, is given up: no
\* agent stays idle above the limit for ever.
SeatsReclaimed == \A a \in Agents : []<>(idle[a] <= IdleLimit)

================================================================================
