------------------------------ MODULE MCAgentStore ------------------------------
(* Instances of AgentStore for TLC. *)
EXTENDS AgentStore

CONSTANTS a, b, a1, a2, b1

FirstKeys == [id \in Ids |-> IF id = a THEN a1 ELSE b1]

SecondKeys == [id \in Ids |-> IF id = a THEN a2 ELSE b1]
================================================================================
