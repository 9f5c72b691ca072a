# Agent World Network: a TLA+ verification project

This directory models the stateful core of the Agent World Network (AWN): the
World Server of the SDK with its event ledger and its key bindings, the gateway's
registries and WebSocket sessions, the announcer that keeps a world listed there,
and the plugin's agent store with the lifecycle around it.  TLC checks small
instances of every module, and TLAPS proves every safety property of theirs that
holds (invariants, action properties, refinements) for every value of the constants.

Paths below are relative to the repository.

## 1. The system and its parts

AWN lets agents (programs with an Ed25519 identity) find and join *worlds*.

| Process | Source | State |
|---|---|---|
| World Agent | `packages/agent-world-sdk/src/*`, `world/server.mjs` | members, their endpoints, peer database, ledger in memory and in a JSON Lines file, the hooks' own tables |
| Gateway | `gateway/server.mjs` | agent and world registries, their two files, WebSocket sessions |
| Plugin (an agent in the OpenClaw host) | `src/*.ts` | joined worlds, agent store with key bindings, allowlist of co-members |
| Rust daemon and CLI (an agent on its own) | `packages/awn-cli/src/*` | joined worlds, agent store, ring of 100 received messages |
| Browser | `web/client.js` | none that matters to the protocol |

They interact by signed HTTP requests: an agent sends `world.join`,
`world.action` and `world.leave` to a world's `/peer/message`; a world announces
itself to gateways (`POST /agents`) and sends heartbeats; agents ask gateways for
worlds and worlds for their members; the gateway speaks to worlds on behalf of
browsers connected by WebSocket.

### Inventory

**World server** (`world-server.ts`, `agent-protocol.ts`, SDK `agent-db.ts`,
`world/server.mjs`).
State: `agentLastSeen` (the members), `agentEndpoints`, the peer database
(`agentDb`, capacity `maxPeers`, time to live `staleTtlMs`), the ledger, the
tables of the hooks.  Operations: the three events, announces, the 60 s idle
eviction (5 min limit), the 5 min prune, the periodic broadcast, restart.
What is hard: each handler changes the membership, awaits a hook and only then
writes to the ledger, where the append may throw with its entry already in memory (in
the eviction timer that ends the process); an eviction scan awaits a hook between two
members; members and their keys are in tables with different clocks.
Correct when: capacity holds, only idle members are evicted, the tables and
the ledger agree, a member's key is known, every seat is given up in the end.

**World ledger** (`world-ledger.ts`).
State: entries in memory, the file, the count of lines that did not parse.
Operations: construction (load, genesis), append, verify, replay.
What is hard: an append may be cut anywhere by a crash or a full disk; memory is
ahead of the file after a failed write.
Correct when: the kept entries never fork, a loss is reported, nothing else is,
and the log is append-only.

**Gateway registries** (`gateway/server.mjs` l.100-300, 753-958, 1004-1040).
State: the two registries, the two files, a debounce timer (1 s), a tick (30 s),
the time of the last change.  Operations: announce, heartbeat, deregister, save,
tick (prune agents, prune worlds, snapshot), load, graceful stop.
What is hard: two files replaced one after the other; failed writes are
swallowed; one debounce timer for all changes; heartbeats are not saved before
the tick; three different rules of staleness; handlers still run during stop.
Correct when: a change reaches the files or stays pending, nothing removed comes
back, nothing stale is listed, the cap on agents holds.

**Gateway announcer** (`gateway-announce.ts`).
State: three timers (startup 3 s, announce 10 min, heartbeat 30 s).  A heartbeat
answered by 404 or 403 makes it announce again, a network error does not.
What is hard: the gateway may lose its record at any time; requests in flight are
not cancelled by the cleanup function.
Correct when: a live world that a gateway lost is listed again.

**SDK key binding** (`agent-protocol.ts`, SDK `agent-db.ts`): trust on first use in
`/peer/message`, key rotation, announces and gateways' lists that upsert a key, a
database of limited size.  What is hard: the order of a rotation, an announce
signed with the first key and a prune.
Correct when: a bound key changes only by a rotation.

**Plugin agent store and server** (`src/agent-db.ts`, `src/agent-server.ts`): the
plugin's own trust on first use with a time to live, rotation, member lists,
debounced and immediate saves of one file that is overwritten in place.
What is hard: two kinds of saves share one timer and either may fail or tear the
file; messages come in by HTTP and by UDP, whose socket lives longer than the server.
Correct when: learned keys are on disk, nothing changed is forgotten, a key
changes only by a rotation or when its time is over.

**Plugin lifecycle and membership client** (`src/index.ts`): `start()` opens
identity, store, UDP transport and server one after the other and may fail between
them; `stop()` sends a leave to every agent it knows, flushes, and closes.  Correct when:
a stop ends.  The refresh of members every 30 s and the dropping of unreachable
worlds have nothing to do at this commit: nothing in `src/index.ts` enters a world
into `_joinedWorlds` or sets the refresh timer, `refreshWorldMembers` and
`syncWorldsFromGateway` have no caller, and only tests call `addWorldMembers`.

**Rust daemon** (`daemon.rs`): the same client in another language, several
threads sharing `joined_worlds`; the refresh takes a snapshot and writes its
results back later.  A join gives up after 10 s; a leave is sent with 5 s to answer
and drops the world whatever happens; an unreachable world is never dropped, one
that answers 403 or 404 is, even if it was joined again meanwhile.

**Delivery** (`agent-client.ts`, `transport*.ts`, `sendToWorld`): UDP first and HTTP
after it, or endpoint after endpoint, each with a time-out; a late answer means
a duplicate.

**Gateway WebSocket sessions** (`server.mjs` l.334-384, 671-731): a session per
socket with an identity of its own, but every request to the world is signed with the
gateway's; close awaits `world.leave` before it removes the session.
What is hard: handlers of one socket overtake each other, requests that timed out
are handled late or twice, and a crash sends no leave.
Correct when: a guest that was told it joined is in the world, a closed connection
is forgotten, the gateway leaves a world without guests.

**Not modelled by design**: cryptography, agent cards and addresses (pure
functions of bytes: a model takes the outcome of a signature check as given), the
command line, web client, schemas and containers (presentation).  The repository's
`docs/`, `skills/` and assets hold no protocol state.

## 2. Plan

Each module is written to be proved about as well as checked: constants with
named assumptions, one action per operation, invariants made of named parts, no
RECURSIVE operator.

| | Module | State |
|---|---|---|
| 1 | `WorldServer` | modelled, checked, proved |
| 2 | `WorldLedger`, `AppendOnlyLog` (its abstract specification) | modelled, checked, proved |
| 3 | `GatewayRegistry` | modelled, checked, proved |
| 4 | `GatewayAnnounce`, composed with `GatewayRegistry`: a live world is listed again after any loss; a dead one is not listed for ever | modelled, checked, proved |
| 5 | `Binding` (abstract: one id, one key until a rotation or an expiry), `AgentStore`, which implements it, and the plugin's lifecycle | modelled, checked, proved |
| 6 | `WorldKeys`: the SDK's bindings against the same `Binding` | modelled; the refinement fails at the announce (see below) |
| 7 | `GatewaySessions`: sockets, sessions, endpoint fallback and the world's membership of the gateway | modelled, checked, proved |

There are twelve runs, and the project keeps to that number: a new question is put to
an existing run where its constants allow it.

What is proved is the safety of each module; liveness stays with TLC (section 6).
A model of the Rust daemon's membership of worlds (joins, leaves and a refresh that
overlap) would be the next module.

## 3. The modules

### WorldServer

| Model | Code |
|---|---|
| `present`, `idle` | keys of `agentLastSeen`, and now minus its values |
| `endpoints` | keys of `agentEndpoints` |
| `known`, `quiet` | keys of `agentDb`, and now minus their `lastSeen` |
| `hooked` | the hooks' own table (`worldAgents` in `world/server.mjs`) |
| `call[slot]` | a handler or an eviction scan suspended at `await hooks.onX` |
| `scan[k]` | what is left of the iteration over `agentLastSeen` of a suspended scan |
| `sinceScan` | phase of the 60 s interval |
| `ledger`, `base` | the ledger's membership entries in memory, and how many were there at the start of this process |
| `file` | the ledger file: the entries a load would find, how its last line ends, and (history) whether a write has failed |

Node runs one turn at a time, so a handler is atomic up to its await and again
after it: `Join`, `Leave`, `Action` are the first halves, `HookReturns` and
`HookThrows` the second; `ScanFires` and `EvictReturns` are the turns of the
eviction callback.  `Record` is `ledger.append`: the entry is in memory at once, and
with `WritesFail = TRUE` its line may be in the file without its newline, in part
or not at all (`Cuts`).  A request is then answered with an error and the world goes
on; in the eviction timer nobody handles the rejection, and the process ends
(`EvictCrashes`).  `Restart` starts with what a load finds in the file.  The file here
begins with a whole genesis line, and hashes and counts of corrupted lines are left
out: `WorldLedger` has those.  `Heard` is every message or announce that refreshes the
sender's peer record and changes nothing else; `Discovered` is a record out of a
gateway's answer.  `Tick`, `Prune` and `Restart` are time, the prune timer and a
crash or stop (the timers that `stop()` clears may also just not fire, so a
graceful stop adds no behaviour of its own).

The hooks are an interface.  `HooksYield = FALSE` says that a hook settles in the
turn that calls it, which is what the hooks of `world/server.mjs` do: no other
request or timer runs between a handler's halves.  With `HooksYield = TRUE` a hook
may settle at any later time, its body running before or after other requests.
`HooksFail` lets a hook reject.

The iteration over a `Map` that is being changed is modelled by what it does: an
entry deleted before the iterator reaches it is not visited, a timestamp is read
when the entry is reached.  `scan[k]` therefore holds the agents that are stale
when the scan starts and loses those that speak or leave.  No agent can be
added: `cutoff` is computed once, when the scan starts (`world-server.ts`
l.381), so an entry that was not stale then is not stale for that scan.  An
entry deleted and inserted again moves behind the iterator with a fresh
timestamp and is not stale when it is reached.

Ages saturate one above the limit they are compared with; no test in the code and
no property tells higher ages apart.

### WorldLedger and AppendOnlyLog

| Model | Code |
|---|---|
| `entries`, `corrupted` | `this.entries`, `this.corruptedLines` |
| `file`, `closed` | the lines of the file, and whether it ends in a newline |
| `running` | a constructed `WorldLedger` exists |
| `hashes`, `acked`, `failures` | history: hashes given out, entries whose append returned, bound on failures |

An entry is `seq`, `prev`, `hash`.  Hashes are numbers handed out in order: a hash
covers a timestamp and the previous hash, so two entries with one hash are left
out.  `Parsed` reads the file line by line as `load()` does, as a recursive function.
A write ends as one of four cuts (`all`, `unended`, `part`, `nothing`), and
the process then goes on (`AppendThrows`) or dies (`CrashInAppend`).  `Load` and
`Genesis` are the two outcomes of the constructor.  Entries changed on the disk by
someone else are outside the model.

`AppendOnlyLog` is what the header of `world-ledger.ts` promises, as far as the code
keeps it: entries are added at the end, and only a last entry whose newline was lost
can be taken again (`append()` continues its line, so neither parses).  The
refinement maps its log to the entries that a load of the file would keep, and
`ended` to whether the last of them has its newline.

### GatewayRegistry

| Model | Code |
|---|---|
| `mem` | `agentRegistry` and `worldRegistry`: for each id an age and a content |
| `disk`, `onDisk` | the two registry files, and whether one exists |
| `phase` | running, in `stop()` awaiting `app.close()`, or no process |
| `saveTimer` | `_saveTimer` is armed |
| `modified` | `_registryModifiedAt !== null` |
| `failed` | history: the last write failed (the code only logs it) |
| `sinceTick` | phase of the 30 s interval |

Handlers are synchronous from their first look at a registry to the last change,
so each is one action: `AnnounceAgent`, `AnnounceWorld`, `Heartbeat`, `Deregister`.
Refused requests change nothing.  `SaveFires` is the debounce timer, `TickFires`
the whole tick with its up to three writes, `Start` the load, `Stop` and `Exit` the
graceful stop (after which there is no tick), `Crash` the end at any time.  A write
ends `all`, `half` or `none`; a crash in the middle of a write is a write that ends
`half` or `none` and then `Crash`.  Ages are relative to now and saturate above `Ttl + TickPeriod`; the age
of a world may be negative or beyond the time to live, because `upsertWorld` takes the
announce's own timestamp.  Nothing bounds that: `Stamps` is any set of integers.  The
clock check of five minutes is made of signed headers only, which are optional
(l.775-788), and `staleTtlMs` may be shorter than it.

A registry file that does not parse is not modelled: files are replaced by a
rename and never torn by the code.

### GatewayAnnounce

It composes the announcer of `gateway-announce.ts` with one world and the whole of
`GatewayRegistry` (`G == INSTANCE GatewayRegistry WITH ...`), whose steps it takes
by name, so that what is proved of that module holds of its gateway.

| Model | Code |
|---|---|
| `timers` | the two intervals that are set |
| `due` | callbacks that run before time goes on, the startup timer among them |
| `sinceAnnounce` | phase of the announce interval |
| `ahead` | how far the world's clock is ahead of the gateway's |
| `net` | requests on their way, with their ages |
| `contact`, `lossless`, `gap` | history: since when the gateway has not heard of the world; whether a request was lost in this unit; how long the world has been unlisted although all requests were answered |

The unit of time is the heartbeat interval, 30 s.  `Begin` and `Cease` are the
start and the cleanup function, `Fire` the callbacks.  A request in `net` is
delivered (`DeliverAnnounce`, `DeliverHeartbeat`), refused with a 404
(`RefuseHeartbeat`) or lost (`Lose`: also a gateway that is down, a timestamp out of
range, a lost answer).  The order of delivery is free.  Both time-outs of the
announcer are shorter than the unit, so only a request of age 0 can bring back a 404
in time; the announce that follows is sent even after `Cease`, as in the code.
A 403 to a heartbeat (a record with another key) cannot occur for an id derived
from its key.  The announcer signs the headers of its requests, so its timestamps are
within `MaxSkew` of the gateway's clock (`Accepted`); the time to live may be shorter.

### GatewaySessions

| Model | Code |
|---|---|
| `sock` | the WebSocket: new, open, closed |
| `sessions`, `subs` | `sessions`, `worldSubs.get(worldId)` |
| `call[c]` | a handler suspended in `sendToWorld`: the endpoints it has left, and whether the request at the current one is on its way or was answered |
| `late` | requests given up by their time-out that the world may still handle |
| `listed` | `getWorld` finds the world, with its endpoints |
| `member`, `idle` | the world's `agentLastSeen` entry of the gateway and its age |
| `told`, `disturbed` | history: guests told that they joined, and what has happened since they sent that join |

`Message` is the message handler up to its await, `Close` the close handler up to
its own, `Answered` and `GiveUp` the end of one attempt, `Resume` the rest of the
handler.  `WorldHandles` is the world's `onMessage`, at any time between; it and
`WorldHandlesLate` differ only in whether somebody waits.  A socket may close while
its messages are in flight.  A graceful `stop()` closes the sockets, whose close
handlers send their leaves: `Close` for each socket, then `GatewayRestarts`.
`Evict`, `WorldRestarts` and `GatewayRestarts` end memberships from either side.  Hooks settle in their turn here (`WorldServer` has the
others), and the world has room.

### AgentStore and Binding

| Model | Code |
|---|---|
| `mem`, `disk` | `store.agents`; `agents.json`, or `Torn` |
| `timer` | `_saveTimer` is armed |
| `phase`, `leaves` | how far `start()` or `stop()` is, and the leaves that `stop()` awaits |
| `listening` | the HTTP server listens |
| `udp` | the bound UDP socket with its message handler: of the last `start()` (`own`), or of an earlier one whose `TransportManager` has been replaced (`orphan`) |
| `idFile` | `identity.json` |
| `failed` | history: the last write failed |

A record is its key, its source and the age of its binding; other fields are
left out.  `Heard` is a verified message through either server; its four
disjuncts are the outcomes of `tofuVerifyAndCache` and of the removal that a
`leave` makes after it.  `KeyRotation`, `AddManually`, `Discovered`, `Untracked`
and `Prune` are the other writers.  `Start`, `Listen`, `BeginStop`, `UdpSent`,
`HttpAnswers`, `HttpFails`, `BodyEnds`, `StopFlushes`, `ServerStops` and `UdpStops`
are the pieces of `start()` and `stop()` between their awaits: other handlers run
between them.  A `start()` that cannot read or write its identity ends before
the store is opened.  One that cannot listen leaves its UDP socket bound: a `stop()`
that follows closes it, but another `start()` makes a new `TransportManager`, which
finds the port taken, and from then on the socket is an orphan that no `stop()`
closes and whose datagrams still reach the store.  Every write ends `all`, `torn`
or `none`, and its error goes where the code lets it go.

`AddManually`, `Discovered`, `Untracked` and `Prune` are exported operations of the
store; at this commit only tests call `upsertAgent` and `pruneStale`, and the member
refresh that calls the other two does not run.

`Binding` keeps three things: the key bound to each id, which bindings have
lapsed, and whether all of it is on stable storage.  Its steps `Keeps` are `Trust`
(an id without a key is bound to the key it is derived from), `Renew` (a lapsed binding
takes a new key), `Forget`, `Lapse`, `Store`, and `Lose` (only what was not stored can
change).  `Rotate` replaces the first key, or none, and stands apart: a keeper may
take it only in answer to a rotation.  So both implementations state the refinement as
`KeepsBindings == B!Init /\ [][BindingStep]_(B!vars)`, where `BindingStep` is
`B!Keeps`, or `B!Rotate` together with the module's own `KeyRotation`.  `AgentStore`
maps itself to it by the store that is in memory or, with no process, the one a
start would load.

### WorldKeys

`bound` is the key of each record of the SDK's `agentDb`, `listed` the agents a
gateway lists.  `Message`, `KeyRotation`, `Announce` are the three peer routes,
`Discovered` a record from a gateway's answer, `Prune`, `Restart` and the loss of
the oldest record above `maxPeers` the ways to forget.

## 4. The runs

| Run | Question | Constants and why they are enough |
|---|---|---|
| `world_turns` | Do members, hooks, ledger and keys agree? | three agents, two seats (so joins meet a full world), one restart, appends that end in any way, requests up to three ledger entries (join, a failed or glued write, what follows it; evictions beyond), room for three peers, `StaleTtl = IdleLimit + ScanPeriod`, the tightest that `TtlCoversIdle` allows |
| `world_capacity` | Can joins in flight exceed `maxAgents`? | two agents, one seat, two requests, hooks that yield and fail, a peer database of one record so that it overflows at each change of sender |
| `world_liveness` | Is every seat given up, and only an idle member evicted? | two agents beside a scan, so that one is evicted while the other speaks, leaves, joins again; hooks that yield and fail, an interval longer than the idle limit; no failing appends, since one in the scan ends the process and every seat with it |
| `world_replay` (violation) | Is "state derived from replaying the event log"? | hooks that yield, a join and a leave in flight |
| `ledger_torn` | Fork, silent loss, false alarm; is the file append-only, and does it keep what was acknowledged? | six entries, five failures, every cut of an entry after genesis, and a genesis cut short or missing (the unended genesis is `ledger_regenesis`): a garbage line, entries after it, a second loss and a reload |
| `ledger_regenesis` (violation) | Is a loss always reported? | the shortest such history |
| `gateway_files` | Do registries and files stay in step, and does a change reach the files? | two agents under a cap of one (trims), one world that announces itself with a timestamp ahead, in time, or older than the time to live, all outcomes of writes, two contents, a time to live and a tick of one unit, so that records go stale before, at and after a tick, and no symmetry, which liveness does not allow |
| `announce` | Is a live world listed, does the tick delist only a silent one, does a stopped one leave? | time to live of one unit, clock off by up to two either way, more than the time to live, requests up to one unit late, announces every three units so that they are rarer than heartbeats and than the time to live |
| `sessions` | Do guests, gateway and world agree, and are sessions and ghosts given up? | two guests, so that one acts on the other's membership; one message in flight beside the closes of both; two endpoints, so that a request is tried again while the first is late; restarts of both sides without bound |
| `sessions_shared` (violation) | Are guests independent? | two guests, one endpoint |
| `store` | Are keys on disk, is nothing forgotten, does the store keep its bindings, does a stop end? | an agent that rotates its key, may be added by hand and has endpoints, and one that does none of this; every outcome of every write, starts that fail at either place, crashes and restarts without bound; one unit of time makes a binding lapse, so there are bindings of both kinds |
| `world_keys` (violation) | Do later contacts present the bound key? | two agents that rotate, room for both |

Bounds, all named: `MaxLedger` (no request is accepted once the ledger is that
long; evictions and calls in flight are still recorded), `MaxRestarts`, the slots
`Requests` and `Scans`, `MaxHash`, `MaxFailures`, `MaxDelay`, and in
`GatewaySessions` the slots and that a socket is opened once; `AgentStore` and
`WorldKeys` have no bound beside their sets of agents and keys.  The ledger runs set
`CHECK_DEADLOCK FALSE`, since their model stops once `MaxHash` entries are built;
all others check for deadlock.  Symmetry is used in safety runs only.

### What the properties say

* `Capacity`: check and registration of a join lie on the same side of the await.
* `TablesAgree`: when no call is in flight, members, hooks' table and replay of what
  this process has appended are the same, whatever appends throw.
* `LedgerTellsAStory`: each entry that is not a join follows a join of its agent with
  no departure between.  Of the entries of one process this holds whatever appends
  throw; of the whole ledger that a restart finds, as long as no write has failed: a
  failed write may take a join from the file whose consequences are written later.
* `EvictsOnlyIdle` (action property): nobody loses a seat who spoke within the
  limit and did not ask to leave.
* `MembersKnown`: the key of a member is never pruned under it.
* `SeatsReclaimed` (liveness): no agent stays idle above the limit for ever, the
  seat left by a failed `onJoin` included.
* `NoFork`, `LossDetected`, `AppendOnly`: see the ledger above.
* `NoFalseAlarm`: a ledger that has every entry verifies, in its chain and in its
  count of corrupted lines, whatever failed before.  A dropped line is an alarm, which
  `LossDetected` needs.
* `AckedStays` (action property): an entry whose append returned, and which a load
  would find, is never taken from the file.  Only the last entry can be glued to the
  next one, and only while its newline is missing; its append has then not returned.
* `AgentCap`, `ChangesReachDisk`: the cap holds in memory and in the files; what the
  registries and the files differ in reaches the files, unless the process dies.
* `NothingForgotten`: a record counts as restored when a load of the files would give
  the same live record, or none where there is none (`Restored`, which looks at the
  files through `Loaded`: a record whose file copy is stale is not restored).  While
  the gateway is up, what is not restored has a save pending, or is due at the next
  tick (`DueAtTick`): the last write failed, or only its lastSeen is newer and it was
  seen since the last tick.  A gateway that is stopping has no next tick.  It may lose
  what its last write failed to write, and the lastSeen of records that the files
  have (`SeenLater`): a heartbeat handled during `stop()` is not saved.
* `WorldsNotRevived`: a removed world returns with a restart only if the write of its
  removal failed.
* `Fresh` (action property): no record gets older than the time to live plus the time
  since the last tick while the gateway runs, and a start from old files lists none.
  The only way in for a stale record is the first announce of a world, which may carry
  any date; the next tick removes it.
* `PrunesOnlySilent` (action property): a tick delists a world only if, within the
  time to live, no heartbeat was accepted and no accepted announce is dated, in
  whatever order requests arrive.
* `RelistedAtNextBeat`: while requests are answered, a world that the gateway lost
  (crash before the save, old files, deregistration) goes at most one heartbeat
  period without being listed, unless its clock is behind by more than the time to
  live: its announces are stale on arrival then, and the tick takes them out.
* `StoppedIsDelisted` (liveness): a world that stops for good leaves the registry
  for good, with a clock ahead and requests still in flight.
* `JoinHonoured`: a guest that was told it joined is a member until a leave, an
  eviction or a restart that came after it sent that join, whatever endpoints time
  out, answer late or twice.
* `ClosedForgotten`, `GhostsEnd` (liveness): a closed connection leaves `sessions` and
  `worldSubs`, and the gateway does not stay in a world that no guest is connected
  for, even after a restart that sent no leave (the world's idle eviction ends it).
* `KeysStored`: a key that was learned or replaced is on disk before its message is
  answered, unless that write failed.
* `NothingLost`: whatever else differs from the disk has a save under way or a write
  that failed behind it.
* `KeepsBindings` (refinement of `Binding`): across failing writes, crashes and
  restarts the first key bound to an id is the one the id is derived from; it is
  replaced only by the handler of a rotation that this key has signed, after its time
  to live, or by what a failed write falls back to.
* `StopEnds` (liveness): a `stop()` comes to its end, or fails at its write and leaves
  the plugin up, unless it is held up for ever in one of two places: by the body of an
  answer to a leave (the time-out is cleared when the head arrives,
  `agent-client.ts` l.50), or by an open request that `server.close()` waits for.
  The code sets no limit on either, so the property names them instead of assuming
  that they end; it says that nothing else holds a stop up: no silence or refusal, no
  datagram and no fall back from UDP to HTTP.

### Where code and text disagree

* `world_replay`.  `world-ledger.ts` l.18 says that state is derived from
  replaying the log, l.130 that it "may be stale after restart".  With hooks that
  yield, which the interface allows, entries are in the order in which hooks
  settle: a leave that overtakes a join leaves an agent online in the replay that
  is not a member, with no restart.  The hooks of `world/server.mjs` settle in
  their turn; for them `TablesAgree` holds and is proved.
* `ledger_regenesis`.  `verify()` is to detect dropped lines (l.187).  When no line
  parses, `load()` replaces the file with a new genesis (l.58), and after the next
  restart the ledger is "clean" although acknowledged entries are gone.  A genesis
  entry that lost only its newline leads there: the next append continues its line
  and neither parses.  The same glueing takes any last entry without its newline
  from the "append-only" ledger (l.13); it is the step `TakeUnended` of
  `AppendOnlyLog`, and verify() reports it.
* `sessions_shared`.  The header of `gateway/server.mjs` (l.23-26) gives each client
  its join and leave, and each socket gets an identity (l.679-688), but requests
  carry the gateway's (l.357).  A guest that leaves, or closes without ever having
  joined, takes the others out of the world.
* `world_keys`.  `docs/architecture.md` l.96: "later contacts must present the same
  public key"; `SECURITY.md` l.37: "First-seen public key is pinned".  After a
  rotation, an announce signed with the first key puts it back
  (`agent-protocol.ts` l.151), and so does a gateway's list
  (`gateway-announce.ts` l.84-104); messages with the new key then get a 403.  If
  both looked at the bound key first (with the guard
  `bound[id] \in {NoKey, Original[id]}` on `Announce` and `Discovered`), the
  refinement would hold, also with room for one record.

Also noted, with no run: the header of `gateway/server.mjs` (l.35) gives a default
time to live of 90000 ms where the code has 15 minutes, and calls the gateway
"stateless" though it keeps registry files.

## 5. Fairness

`WorldServer!Fairness`: time advances, the eviction interval fires when it is due,
a suspended scan is resumed (or the process dies in its append), and the hooks that
scans call settle.  Timers and
promises give the first three; the last is an assumption about the world's author,
and without it a scan is stuck for good (a hazard that no time-out covers).
Nothing is assumed about agents or about requests.

`GatewayRegistry!Fairness`: time advances, a stopping process with no timer left
ends (weak fairness); a debounce timer or tick that comes up again and again
writes successfully in the end (strong fairness on the outcome "all"): a disk that
refuses every write for ever is not promised anything.

`GatewayAnnounce!Fairness`: the same for the gateway's timers and disk, and the
announcer's callbacks run.  Time advances under strong fairness: crashes and
restarts, which the model allows without end inside one unit, do not stop it.
Nothing is assumed of the network.

`GatewaySessions!Fairness`: an attempt ends, since `fetch` has a time-out of 8 s;
a late request arrives or is lost; time passes and the world's eviction interval
fires.  Nothing is assumed of guests or of restarts.

`AgentStore!Fairness`: a datagram's callback comes and an HTTP leave whose answer has
not begun ends by an error or its time-out of 3 s, the flush follows when all leaves
have ended, and the transports are stopped after the server.  Nothing is assumed of
writes, of the body of an answer or of the requests that `server.close()` waits for.

## 6. The proofs

`WorldServerProofs`, `WorldLedgerProofs`, `GatewayRegistryProofs`,
`GatewayAnnounceProofs`, `GatewaySessionsProofs` and `AgentStoreProofs` hold theorems
for every set of agents, keys, worlds, guests and endpoints and every value of the
limits, from the ASSUMEs of the modules.  Each has an invariant `IInv` (or several),
one lemma per action that it is kept, and the theorems at the end.

**World server.**  `Capacity` needs only types and finite sets.  `EvictsOnlyIdle`
is not inductive: it needs that the agents a suspended scan still has to evict are
members and idle (`ScanTargets`), which `Touch` and `Leave` keep by removing the
agent from every scan.  `MembersKnown` needs `KeyInv`: scans are done when the
event loop is free, a record is at most as old as the visit it dates from
(`RecordFollowsVisit`), and an idle age never exceeds the limit by more than the
time since the last scan (`RecordIsRecent`); with `IdleLimit + ScanPeriod <=
StaleTtl` (theorem assumption `TtlCoversIdle`, 6 min against 30 min by default) a
prune cannot reach a member's record.  `TablesAgree` and `LedgerTellsAStory` need
`TurnInv`: at most one call in flight (`OneCall`), the hooks' table equals the
membership, and the replay equals it up to the entry of the call in flight
(`ReplayInStep`).  The story also needs that the file holds exactly what is in memory
as long as no write has failed (`FileInStep`), which is what a restart finds.  These
three assume hooks that settle in their turn (`~HooksYield`), the last two also hooks that do not fail: `world_replay` shows
what happens otherwise.

**Gateway.**  One invariant `IInv` carries the types, `Reasons` (a timer, a failed
write or a non-empty registry implies that a change is recorded, so the tick has a
reason to write; a process that is down holds nothing), `AgentCap`,
`WorldsNotRevived` and `InStep`.  The last is stronger than `NothingForgotten` and
inductive: with no save pending and no failed write, each record is in the files as it
is in memory, or they are behind with a lastSeen since the last tick only, or they
have one that the start has left out as stale.  `Fresh` is proved of each step, for any
set of timestamps and any time to live.  Lemmas about `Written`, `Loaded`, `Pruned`
and `Older` are stated once.

**Ledger.**  `NoFork` is not inductive: an append continues the last entry in memory,
so memory has to be in order and ahead of the file.  `IInv` says that in memory and in
what a load would keep each entry continues one that was built before it and is not
older than the entry it follows (`Sound`), and that a load would keep no more entries
than memory holds and none that is newer (`FileBehind`).  What an append does to the kept
entries is one lemma, `WriteEffect`: they stay, they gain the entry, or the last of
them, whole but without its newline, is lost with it.  From it and `IInv` follows the refinement of
`AppendOnlyLog`.  `NoFalseAlarm` needs that a sound chain which holds every entry built
is numbered by them (`FullChain`).  `LossDetected` needs that whatever was acknowledged
is in the file or some line of it is broken (`Kept`), and in memory while no line was
counted as corrupted (`Remembered`).  It is proved under the assumption that no genesis entry is left
without its newline (`"unended" \notin GenesisCuts`): `ledger_regenesis` shows what
happens otherwise, and the other theorems do not need it.  `AckedStays` holds because
a last entry without its newline was never acknowledged (`UnendedNotAcked`).
These are facts about a file of any length.  The recursion of `Parsed` is reasoned
about by an induction on a set of numbers (`NatSetInduction`, from the library's
theorem that such a set has a least element), which takes no operator as a parameter;
so `Parsed` is a recursive function on the number of lines read.

**Agent store.**  `KeysStored` is not inductive as it stands: the refinement also
needs the age of a binding to be the same on disk, so that no restart revives or
ages it (`BindingsStored`).  A `start()` that finds no identity replaces nothing in
memory and forgets no failed write; that this loses nothing needs `NotOpened`: before
the first identity there is no store, no timer and nobody who would change it.
`NoSocket` says that a process which is down hears no datagram.  With these,
`KeepsBindingsHolds` shows that the store implements `Binding`: each action maps to
one of its steps (a first message to `Trust` or `Renew`, a rotation to `Rotate`, a
leave or a prune to `Forget`, time to `Lapse`, a write or a start to `Store`), and only
a crash or a start after a failed write maps to `Lose`.  The steps are proved once in terms of
what `Binding` sees of a store (`BoundIn`, `LapsedIn`), then cited per action.

**Announcer.**  A first lemma (`Runs`) says that the gateway in the composition takes
only steps of `GatewayRegistry`.  `GatewayAnnounceProofs` then instantiates
`GatewayRegistryProofs` and cites its invariant (`RegistryInvariance`) in place of
proving it again; `RegistryHolds` passes its results on.  Above it, `Heard` says that
the record of the world is never older than the last contact, nor absent while that
contact is recent, from which `PrunesOnlySilent` follows; `BeatComes` that after a unit in
which a live world was unlisted and no request was lost, the heartbeat or announce that
brings it back is due or on its way, which gives `RelistedAtNextBeat`.

**Sessions.**  `JoinHonoured` needs that no leave which is not recorded as a
disturbance is on its way: `NoLeaveAbroad` says so of the handlers and of late
requests of every guest that was told it joined, and `Honoured` extends the property
itself to joins that the world has answered and the guest has not been told of yet.
`ForgottenUnlessLeaving` is the safe half of `ClosedForgotten`: a closed connection is
still remembered only while its close handler waits for the leave, whose end is
liveness.  `GuestsIndependent` is false (`sessions_shared`).

**Left to TLC.**  `SeatsReclaimed`, `ChangesReachDisk`, `StoppedIsDelisted`,
`ClosedForgotten`, `GhostsEnd` and `StopEnds`: liveness under fairness, which the
prover does not do.  `ReplayAgrees`, `GuestsIndependent` and `KeepsBindings` of
`WorldKeys` are false, as is `LossDetected` without its assumption.  `WorldKeys` has no theorem.

## 7. Not modelled

* World Server: the state broadcast and the read-only endpoints, which change no
  state.
* Ledger: signatures and the contents of hashes.
* Gateway: the fan-out of `POST /messages` to browsers, discovery answers, files
  edited by hand.  (Whether a broadcast reaches a browser at all depends on routes
  and names: worlds post to the `/peer/message` of members with endpoints, the
  gateway listens on `/messages` and joins without endpoints.)
* Plugin: the refresh of joined worlds and the cache of worlds, which are unreachable
  at this commit; the inbox, tools, commands and the chat channel, which keep no
  protocol state; the allowlist of co-members, which nothing fills; address
  discovery and sockets.
* Rust daemon and command line: a second client with state of its own (joined worlds,
  agent store, the last 100 messages); its hazards are listed, its model is not written.
* Cryptography, agent cards, addresses, web client, schemas, containers.
