-------------------------------- MODULE Binding --------------------------------
(***************************************************************************)
(* What a keeper of key bindings promises (trust on first use): a binding  *)
(* starts with the key the id is derived from, and that key stays until a  *)
(* rotation from it, until the binding is older than its time to live, or  *)
(* until the keeper forgets the id.                                        *)
(*                                                                         *)
(* Keeps holds the steps a keeper takes on its own or for any message; a   *)
(* Rotate is one of its steps only when it was asked for a rotation, which *)
(* the module that implements Binding says.                                *)
(***************************************************************************)
CONSTANTS
  Ids,
  Keys,
  NoKey,     \* value of an id that is not bound
  Original   \* for each id, the key it is derived from

VARIABLES
  bound,    \* the key each id is bound to
  lapsed,   \* ids whose binding is older than its time to live
  stored    \* the bindings would survive a crash

vars == <<bound, lapsed, stored>>

Init == bound = [id \in Ids |-> NoKey] /\ lapsed = {} /\ stored = TRUE

Forgotten(S) == [id \in Ids |-> IF id \in S THEN NoKey ELSE bound[id]]

\* Others may have to make room.
Bind(id, key) ==
  /\ \E S \in SUBSET (Ids \ {id}) :
       /\ bound' = [Forgotten(S) EXCEPT ![id] = key]
       /\ lapsed' = lapsed \ (S \cup {id})
  /\ stored' \in BOOLEAN

Trust(id) == bound[id] = NoKey /\ Bind(id, Original[id])

Renew(id, key) == id \in lapsed /\ Bind(id, key)

\* Signed with the key the id is derived from.
Rotate(id, key) == bound[id] \in {NoKey, Original[id]} /\ Bind(id, key)

Forget(S) ==
  /\ bound' = Forgotten(S)
  /\ lapsed' = lapsed \ S
  /\ stored' \in BOOLEAN

Lapse ==
  /\ \E S \in SUBSET Ids :
       lapsed' = lapsed \cup {id \in S : bound[id] # NoKey}
  /\ UNCHANGED <<bound, stored>>

Store == stored' \in BOOLEAN /\ UNCHANGED <<bound, lapsed>>

\* A crash after a write failed: nothing is promised of what comes back.
Lose ==
  /\ ~stored /\ stored' = TRUE
  /\ bound' \in [Ids -> Keys \cup {NoKey}]
  /\ lapsed' \in SUBSET Ids

Keeps ==
  \/ Store
  \/ \E id \in Ids : Trust(id)
  \/ \E id \in Ids, key \in Keys : Renew(id, key)
  \/ \E S \in SUBSET Ids : Forget(S)
  \/ Lapse \/ Lose
================================================================================
