------------------------------- MODULE MCWorldKeys -------------------------------
(* Instances of WorldKeys for TLC. *)
EXTENDS WorldKeys

CONSTANTS a, b, a1, a2, b1, b2

FirstKeys == [id \in Ids |-> IF id = a THEN a1 ELSE b1]

SecondKeys == [id \in Ids |-> IF id = a THEN a2 ELSE b2]
================================================================================
