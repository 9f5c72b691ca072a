------------------------------- MODULE AgentStore -------------------------------
(***************************************************************************)
(* The plugin's agent store (src/agent-db.ts) behind its server            *)
(* (src/agent-server.ts) and its lifecycle (src/index.ts): trust on first  *)
(* use with a time to live, key rotation, debounced and immediate saves of *)
(* agents.json, failing and torn writes, start, stop and crash.            *)
(*                                                                         *)
(* A record is its key (NoKey when only a member list has named the        *)
(* agent), its source and the age of its binding in units of time; alias,  *)
(* endpoints, capabilities and lastSeen tell no property apart.  Agents    *)
(* are honest: a message is signed with a key its sender holds.            *)
(*                                                                         *)
(* writeFileSync replaces the file in place, so a write ends               *)
(*   all    the whole store                                                *)
(*   torn   a file that does not parse (disk full, or a crash)             *)
(*   none   the file as it was (it cannot be opened)                       *)
(* A handler is synchronous, so each is one action; a crash in the middle  *)
(* of a write is a write that failed and then Crash.                       *)
(***************************************************************************)
EXTENDS Integers, FiniteSets

CONSTANTS
  Ids,        \* agents
  Keys,
  NoKey,      \* publicKey: ""
  Original,   \* for each agent, the key its id is derived from
  Later,      \* for each agent, the key it rotates to (Original: it never does)
  ByHand,     \* agents that may be added by hand
  Reachable,  \* agents whose records may have endpoints
  NoRecord,   \* value of an id that is not in the store
  Torn,       \* a file that does not parse
  TofuTtl     \* _tofuTtlMs in units of time

ASSUME KeysAssumption ==
  /\ Original \in [Ids -> Keys] /\ Later \in [Ids -> Keys]
  /\ NoKey \notin Keys

ASSUME TtlAssumption == TofuTtl \in Nat

Sources == {"gossip", "manual"}
Records == [key : Keys \cup {NoKey}, source : Sources, age : 0 .. TofuTtl + 1]

ASSUME ValuesAssumption == NoRecord \notin Records

Stores == [Ids -> Records \cup {NoRecord}]

ASSUME TornAssumption == Torn \notin Stores

VARIABLES
  mem,     \* store.agents
  disk,    \* agents.json; a missing file and an empty store load alike
  timer,   \* _saveTimer is armed
  phase,   \* where the plugin is between start() and stop(); "down": no process
  listening,  \* the HTTP server listens
  udp,     \* the UDP socket that is bound and handed to handleUdpMessage
  leaves,  \* how far the leave that stop() sends to each agent is
  idFile,  \* identity.json
  failed   \* the last write failed (for the properties)

vars == <<mem, disk, timer, phase, listening, udp, leaves, idFile, failed>>

Phases == {"down", "starting", "up", "leaving", "stopping", "closing", "stopped"}

\* The socket belongs to the TransportManager of the last start(), or to one that
\* a later start() has replaced, which nothing will close.
Sockets == {"none", "own", "orphan"}

\* A leave that was not sent or has ended, or goes by UDP, or by HTTP, whose
\* answer may have begun.
Stages == {"none", "udp", "http", "body"}

NoLeaves == [id \in Ids |-> "none"]

Outcomes == {"all", "torn", "none"}

Empty == [id \in Ids |-> NoRecord]

KeyIn(m, id) == IF m[id] = NoRecord THEN NoKey ELSE m[id].key

Known(id) == mem[id] # NoRecord

Fresh(key, source) == [key |-> key, source |-> source, age |-> 0]

\* The record of id bound to key now.
Rebound(id, key) ==
  IF Known(id) THEN [mem[id] EXCEPT !.key = key, !.age = 0] ELSE Fresh(key, "gossip")

With(id, record) == [mem EXCEPT ![id] = record]

--------------------------------------------------------------------------------
(* The file *)

Written(outcome, m, before) ==
  CASE outcome = "all" -> m
    [] outcome = "torn" -> Torn
    [] outcome = "none" -> before

\* Fault: load() takes whatever the file holds.
LoadedUnchecked(d) == d

Loaded(d) == IF d = Torn THEN Empty ELSE d

Alive == phase # "down"

\* A start() of this process has come to initDb().
Opened == Alive /\ idFile = "whole"

\* save(): the timer of SAVE_DEBOUNCE_MS is armed.
Save == timer' = TRUE /\ UNCHANGED <<disk, failed>>

\* saveImmediate() of m, over the file before.
SaveOver(outcome, m, before) ==
  /\ timer' = FALSE
  /\ disk' = Written(outcome, m, before)
  /\ failed' = (outcome # "all")

SaveImmediate(outcome, m) == SaveOver(outcome, m, disk)

\* The debounce timer.  A write that throws here is not caught: Crash may follow.
SaveFires(outcome) ==
  /\ Alive /\ timer
  /\ SaveImmediate(outcome, mem)
  /\ UNCHANGED <<mem, phase, listening, udp, leaves, idFile>>

--------------------------------------------------------------------------------
(* Trust on first use *)

Lapsed(id) == Known(id) /\ mem[id].age > TofuTtl

\* The headers of a request of id verify under key.
Signed(id, key) == key \in {Original[id], Later[id]}

\* The same for the signature in a datagram or a rotation.
SignedBody(id, key) == key \in {Original[id], Later[id]}

\* Fault: any key may be the first one bound.
DerivesAny(id, key) == TRUE

\* The key must be the one the id is derived from if no key is bound.
Derives(id, key) == KeyIn(mem, id) # NoKey \/ key = Original[id]

\* tofuVerifyAndCache binds id to key.
Binds(id, key) == KeyIn(mem, id) = NoKey \/ Lapsed(id)

Matches(id, key) == KeyIn(mem, id) = key /\ ~Lapsed(id)

\* removeAgent
Without(m, id) == [m EXCEPT ![id] = NoRecord]

\* A message whose key binds or renews the record, which is saved at once; when
\* that write throws the message is not handled.
FirstContact(id, key, outcome) ==
  /\ Binds(id, key)
  /\ mem' = With(id, Rebound(id, key))
  /\ SaveImmediate(outcome, mem')

\* The same for a leave: the record is removed once its binding was saved.
FirstIsLeave(id, key, outcome) ==
  /\ Binds(id, key)
  /\ mem' = Without(mem, id)
  /\ SaveOver(outcome, mem', With(id, Rebound(id, key)))

\* A message signed with the bound key; lastSeen is saved later.
LaterContact(id, key) == Matches(id, key) /\ Save /\ UNCHANGED mem

Leaves(id, key, outcome) ==
  /\ Matches(id, key)
  /\ mem' = Without(mem, id)
  /\ SaveImmediate(outcome, mem')

\* A verified message.  The binding comes before the check of co-members, so
\* their refusal changes nothing here; a co-member may leave.
Heard(id, key, outcome) ==
  /\ Derives(id, key)
  /\ \/ FirstContact(id, key, outcome)
     \/ FirstIsLeave(id, key, outcome)
     \/ LaterContact(id, key)
     \/ Leaves(id, key, outcome)
  /\ UNCHANGED <<phase, listening, udp, leaves, idFile>>

\* POST /peer/message
HttpMessage(id, key, outcome) ==
  listening /\ Signed(id, key) /\ Heard(id, key, outcome)

\* handleUdpMessage
UdpMessage(id, key, outcome) ==
  udp # "none" /\ SignedBody(id, key) /\ Heard(id, key, outcome)

--------------------------------------------------------------------------------
(* Key rotation *)

\* Fault: tofuReplaceKey leaves the write to the debounce timer.
SaveKeyLater(outcome, m) == Save

SaveKey(outcome, m) == SaveImmediate(outcome, m)

\* POST /peer/key-rotation from the key the id is derived from: of an agent that
\* is known (or a co-member) and bound to no other key.
KeyRotation(id, outcome) ==
  /\ listening
  /\ SignedBody(id, Original[id]) /\ SignedBody(id, Later[id])
  /\ KeyIn(mem, id) \in {NoKey, Original[id]}
  /\ mem' = With(id, Rebound(id, Later[id]))
  /\ SaveKey(outcome, mem')
  /\ UNCHANGED <<phase, listening, udp, leaves, idFile>>

--------------------------------------------------------------------------------
(* The other callers *)

\* upsertAgent
AddManually(id, outcome) ==
  /\ phase = "up" /\ id \in ByHand
  /\ mem' = IF Known(id) THEN mem ELSE With(id, Fresh(NoKey, "manual"))
  /\ SaveImmediate(outcome, mem')
  /\ UNCHANGED <<phase, listening, udp, leaves, idFile>>

\* Fault: a change of the store arms no timer.
SaveIfKnown(id) == IF Known(id) THEN Save ELSE UNCHANGED <<timer, disk, failed>>

SaveDiscovered(id) == Save

\* upsertDiscoveredAgent of a member list's entry, which has no key; a refresh
\* that was awaiting its answer at stop() goes on after it.
Discovered(id) ==
  /\ Opened
  /\ mem' = IF Known(id) THEN mem ELSE With(id, Fresh(NoKey, "gossip"))
  /\ SaveDiscovered(id)
  /\ UNCHANGED <<phase, listening, udp, leaves, idFile>>

\* removeAgent of an agent that is in no joined world any more.
Untracked(id, outcome) ==
  /\ Opened /\ (Known(id) => mem[id].source # "manual")
  /\ mem' = Without(mem, id)
  /\ SaveImmediate(outcome, mem')
  /\ UNCHANGED <<phase, listening, udp, leaves, idFile>>

\* pruneStale: some records that were not added by hand are too old.
Prune(S, outcome) ==
  /\ phase = "up" /\ S # {}
  /\ \A id \in S : Known(id) /\ mem[id].source # "manual"
  /\ mem' = [id \in Ids |-> IF id \in S THEN NoRecord ELSE mem[id]]
  /\ SaveImmediate(outcome, mem')
  /\ UNCHANGED <<phase, listening, udp, leaves, idFile>>

--------------------------------------------------------------------------------
(* Lifecycle *)

\* The UDP transport starts if a public address is configured and its port free.
\* While a socket that an earlier start() left holds it, the new manager has none.
UdpStarts(bound) ==
  udp' = CASE udp # "none" -> "orphan"
           [] udp = "none" -> IF bound THEN "own" ELSE "none"

\* loadOrCreateIdentity(): a file that is there is taken if it parses, else a new
\* identity is written; either may throw (left out: an old file is migrated).
IdentityAfter(outcome) ==
  IF idFile # "none" THEN idFile
  ELSE CASE outcome = "all" -> "whole"
         [] outcome = "torn" -> "torn"
         [] outcome = "none" -> "none"

\* start() as far as the transports, the first one or after a stop() or a start()
\* that could not listen.  Without an identity it ends at once; else initDb()
\* replaces whatever is in memory; a timer that is armed stays so.
Start(bound, outcome) ==
  /\ phase \in {"down", "stopped"} \/ (phase = "up" /\ ~listening)
  /\ idFile' = IdentityAfter(outcome)
  /\ IF idFile' = "whole"
     THEN /\ phase' = "starting"
          /\ mem' = Loaded(disk)
          /\ failed' = FALSE
          /\ UdpStarts(bound)
     ELSE phase' = "stopped" /\ UNCHANGED <<mem, udp, failed>>
  /\ UNCHANGED <<disk, timer, listening, leaves>>

\* startAgentServer() listens, or start() ends with an error; the UDP socket stays.
Listen(ok) ==
  /\ phase = "starting" /\ phase' = "up"
  /\ listening' = ok
  /\ UNCHANGED <<mem, disk, timer, udp, leaves, idFile, failed>>

ToHttp(id) == leaves' = [leaves EXCEPT ![id] = "http"]

\* broadcastLeave(): to S, by UDP where both sides have it (here the transport of
\* the last start()), else by HTTP.
Farewells(S) ==
  /\ leaves' \in [Ids -> {"none", "udp", "http"}]
  /\ \A id \in Ids : leaves'[id] = "none" <=> id \notin S
  /\ udp # "own" => \A id \in Ids : leaves'[id] # "udp"

\* stop(), also after a start() that could not listen, as far as its leaves to the
\* agents of the store that have endpoints.
BeginStop(S) ==
  /\ phase = "up" /\ phase' = "leaving"
  /\ \A id \in S : Known(id)
  /\ Farewells(S)
  /\ UNCHANGED <<mem, disk, timer, listening, udp, idFile, failed>>

\* A datagram is sent, whether or not it arrives, or cannot be sent.
UdpSent(id, ok) ==
  /\ leaves[id] = "udp"
  /\ IF ok THEN leaves' = [leaves EXCEPT ![id] = "none"] ELSE ToHttp(id)
  /\ UNCHANGED <<mem, disk, timer, phase, listening, udp, idFile, failed>>

\* The head of the answer has come: the time-out is cleared.
HttpAnswers(id) ==
  /\ leaves[id] = "http"
  /\ leaves' = [leaves EXCEPT ![id] = "body"]
  /\ UNCHANGED <<mem, disk, timer, phase, listening, udp, idFile, failed>>

\* Fault: no time-out, only an answer ends a request.
EndsUnaided(stage) == FALSE

\* The time-out of 3 s, or an error, ends a request whose head has not come.
Ends(stage) == stage = "http"

HttpFails(id) ==
  /\ Ends(leaves[id])
  /\ leaves' = [leaves EXCEPT ![id] = "none"]
  /\ UNCHANGED <<mem, disk, timer, phase, listening, udp, idFile, failed>>

\* The body of the answer has come or breaks off; no time-out is set for it.
BodyEnds(id) ==
  /\ leaves[id] = "body"
  /\ leaves' = [leaves EXCEPT ![id] = "none"]
  /\ UNCHANGED <<mem, disk, timer, phase, listening, udp, idFile, failed>>

FlushDb(outcome) ==
  IF timer THEN SaveImmediate(outcome, mem) ELSE UNCHANGED <<disk, timer, failed>>

\* All leaves have ended.  When flushDb() throws, stop() ends there and nothing
\* is stopped.
StopFlushes(outcome) ==
  /\ phase = "leaving" /\ leaves = NoLeaves
  /\ FlushDb(outcome)
  /\ phase' = IF timer /\ outcome # "all" THEN "up" ELSE "stopping"
  /\ UNCHANGED <<mem, listening, udp, leaves, idFile>>

\* stopAgentServer(): server.close() ends when the requests that are open do.
ServerStops ==
  /\ phase = "stopping" /\ phase' = "closing"
  /\ listening' = FALSE
  /\ UNCHANGED <<mem, disk, timer, udp, leaves, idFile, failed>>

\* TransportManager.stop(), the end of stop(): the transports of the last start().
UdpStops ==
  /\ phase = "closing" /\ phase' = "stopped"
  /\ udp' = IF udp = "own" THEN "none" ELSE udp
  /\ UNCHANGED <<mem, disk, timer, listening, leaves, idFile, failed>>

Crash ==
  /\ Alive
  /\ phase' = "down" /\ listening' = FALSE /\ udp' = "none" /\ leaves' = NoLeaves
  /\ mem' = Empty /\ timer' = FALSE /\ failed' = FALSE
  /\ UNCHANGED <<disk, idFile>>

AgedStore(m) ==
  [id \in Ids |->
     IF m[id] = NoRecord \/ m[id].key = NoKey \/ m[id].age > TofuTtl THEN m[id]
     ELSE [m[id] EXCEPT !.age = @ + 1]]

\* A unit of time is longer than the debounce.
Tick ==
  /\ ~timer
  /\ mem' = AgedStore(mem)
  /\ disk' = IF disk = Torn THEN Torn ELSE AgedStore(disk)
  /\ UNCHANGED <<timer, phase, listening, udp, leaves, idFile, failed>>

Init ==
  /\ mem = Empty /\ disk = Empty
  /\ timer = FALSE /\ failed = FALSE
  /\ phase = "down" /\ listening = FALSE /\ udp = "none"
  /\ leaves = NoLeaves /\ idFile = "none"

Next ==
  \/ \E id \in Ids, key \in Keys, o \in Outcomes :
       HttpMessage(id, key, o) \/ UdpMessage(id, key, o)
  \/ \E id \in Ids : Discovered(id)
  \/ \E id \in Ids, o \in Outcomes :
       KeyRotation(id, o) \/ AddManually(id, o) \/ Untracked(id, o)
  \/ \E S \in SUBSET Ids, o \in Outcomes : Prune(S, o)
  \/ \E o \in Outcomes : SaveFires(o) \/ StopFlushes(o)
  \/ \E ok \in BOOLEAN, o \in Outcomes : Start(ok, o)
  \/ \E ok \in BOOLEAN : Listen(ok)
  \/ \E S \in SUBSET Reachable : BeginStop(S)
  \/ \E id \in Ids, ok \in BOOLEAN : UdpSent(id, ok)
  \/ \E id \in Ids : HttpAnswers(id) \/ HttpFails(id) \/ BodyEnds(id)
  \/ ServerStops \/ UdpStops \/ Crash \/ Tick

Spec == Init /\ [][Next]_vars

\* What the process itself sees to: the callback of a datagram, the time-out of a
\* request, and the steps of stop().  No one sees to the body of an answer or to
\* the requests that server.close() waits for.
Fairness ==
  /\ \A id \in Ids :
       WF_vars(HttpFails(id) \/ \E ok \in BOOLEAN : UdpSent(id, ok))
  /\ WF_vars(\E o \in Outcomes : StopFlushes(o))
  /\ WF_vars(UdpStops)

FairSpec == Spec /\ Fairness

--------------------------------------------------------------------------------
(* Properties *)

TypeOK ==
  /\ mem \in Stores
  /\ disk \in Stores \cup {Torn}
  /\ timer \in BOOLEAN /\ listening \in BOOLEAN /\ failed \in BOOLEAN
  /\ phase \in Phases /\ udp \in Sockets
  /\ leaves \in [Ids -> Stages]
  /\ idFile \in {"none", "whole", "torn"}
  /\ phase # "leaving" => leaves = NoLeaves

\* A key that was learned or replaced is on disk before its message is answered,
\* unless that write failed: a crash at any moment brings the same bindings back
\* (saveImmediate in tofuVerifyAndCache, tofuReplaceKey and removeAgent).
KeysStored ==
  Alive /\ ~failed => \A id \in Ids : KeyIn(mem, id) = KeyIn(Loaded(disk), id)

\* Whatever else differs from the disk has a save under way, unless a write
\* failed: no caller of the store forgets save(), none cancels another's timer
\* without writing, and start() over an armed timer leaves nothing behind.
NothingLost == Alive /\ mem # Loaded(disk) => timer \/ failed

\* The store that is, or would be after a start.
view == IF Alive THEN mem ELSE Loaded(disk)

B == INSTANCE Binding WITH
  bound <- [id \in Ids |-> KeyIn(view, id)],
  lapsed <- {id \in Ids :
               KeyIn(view, id) # NoKey /\ view[id].age > TofuTtl},
  stored <- ~failed

BindingStep ==
  \/ B!Keeps
  \/ \E id \in Ids, o \in Outcomes : KeyRotation(id, o) /\ B!Rotate(id, Later[id])

\* Across failing writes, crashes and restarts the store keeps the bindings as
\* Binding promises: the first key bound is the one the id is derived from, and
\* it is replaced only by a rotation that this key has signed, after its time to
\* live, or when a write that failed takes it back.
KeepsBindings == B!Init /\ [][BindingStep]_(B!vars)

Stopping == phase \in {"leaving", "stopping", "closing"}

\* A stop() ends, or fails to write the store and leaves the plugin up, unless it
\* is held up for ever by the body of an answer to one of its leaves or by a
\* request that server.close() waits for: no datagram, refusal or silence holds
\* it, also when UDP falls back to HTTP.
StopEnds ==
  \/ Stopping ~> ~Stopping
  \/ <>[](\E id \in Ids : leaves[id] = "body")
  \/ <>[](phase = "stopping")
================================================================================
