-------------------------------- MODULE WorldKeys --------------------------------
(***************************************************************************)
(* The key bindings of a world server (SDK: agent-protocol.ts,             *)
(* agent-db.ts), fed by messages, key rotations, announces and the lists   *)
(* that gateways send in answer to the world's own announces.              *)
(*                                                                         *)
(* Agents are honest.  A gateway lists an agent under the key its id is    *)
(* derived from, until it has been silent for too long; no code of this    *)
(* repository tells a gateway of a rotation.  The database is in memory.   *)
(***************************************************************************)
EXTENDS Naturals, FiniteSets

CONSTANTS
  Ids,        \* agents
  Keys,
  NoKey,      \* value of an id that has no record, or one without a key
  Original,   \* for each agent, the key its id is derived from
  Later,      \* for each agent, the key it rotates to
  MaxPeers    \* maxPeers, at least 1

VARIABLES
  bound,   \* publicKey of each record of agentDb
  listed   \* agents in the gateway's registry

vars == <<bound, listed>>

Records(db) == {id \in Ids : db[id] # NoKey}

Without(db, S) == [id \in Ids |-> IF id \in S THEN NoKey ELSE db[id]]

\* AgentDb.upsert: above maxPeers the record least recently seen goes, which may
\* be any, the new one included.
Upsert(id, key) ==
  LET db == [bound EXCEPT ![id] = key]
  IN  IF Cardinality(Records(db)) > MaxPeers
      THEN \E oldest \in Records(db) : bound' = Without(db, {oldest})
      ELSE bound' = db

\* The headers of a request verify under key.
Signed(id, key) == key \in {Original[id], Later[id]}

\* Trust on first use, else the bound key.
Matches(id, key) == IF bound[id] = NoKey THEN key = Original[id] ELSE key = bound[id]

\* /peer/message
Message(id, key) ==
  /\ Signed(id, key) /\ Matches(id, key)
  /\ Upsert(id, key)
  /\ UNCHANGED listed

\* /peer/key-rotation, with the proofs of both keys
KeyRotation(id) ==
  /\ bound[id] \in {NoKey, Original[id]}
  /\ Upsert(id, Later[id])
  /\ UNCHANGED listed

\* /peer/announce: the key must derive the id, the bound key is not looked at.
Announce(id) == Upsert(id, Original[id]) /\ UNCHANGED listed

\* The agents of the gateway's answer (bound: fewer than it sends at most).
AgentsForExchange == listed

\* An agent of that list is upserted with its key.
Discovered(id) == id \in AgentsForExchange /\ Upsert(id, Original[id]) /\ UNCHANGED listed

\* Some records have been silent for staleTtlMs.
Prune(S) == bound' = Without(bound, S) /\ UNCHANGED listed

\* createWorldServer
Restart == bound' = [id \in Ids |-> NoKey] /\ UNCHANGED listed

\* POST /agents and, from older SDKs, POST /peer/announce at the gateway: the key
\* must derive the id.
GatewayHears(id) == listed' = listed \cup {id} /\ UNCHANGED bound

\* DELETE /agents/:agentId at the gateway; pruning and its cap do the same.
GatewayForgets(id) == listed' = listed \ {id} /\ UNCHANGED bound

Init == bound = [id \in Ids |-> NoKey] /\ listed = {}

Next ==
  \/ \E id \in Ids, key \in Keys : Message(id, key)
  \/ \E id \in Ids : KeyRotation(id) \/ Announce(id) \/ Discovered(id)
  \/ \E id \in Ids : GatewayHears(id) \/ GatewayForgets(id)
  \/ \E S \in SUBSET Ids : Prune(S)
  \/ Restart

Spec == Init /\ [][Next]_vars

B == INSTANCE Binding WITH lapsed <- {}, stored <- TRUE

BindingStep ==
  \/ B!Keeps
  \/ \E id \in Ids : KeyRotation(id) /\ B!Rotate(id, Later[id])

\* A world server keeps its bindings as Binding promises: the first contact
\* presents the key the id is derived from, the later ones the bound key, which
\* only a rotation replaces.
KeepsBindings == B!Init /\ [][BindingStep]_(B!vars)
================================================================================
