-------------------------- MODULE MCGatewaySessions --------------------------
(* A small instance of GatewaySessions for TLC. *)
EXTENDS GatewaySessions

CONSTANTS s1, s2, m1

TwoSockets == {s1, s2}
OneSlot == {m1}
==============================================================================
