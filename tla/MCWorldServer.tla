---------------------------- MODULE MCWorldServer ----------------------------
(* Small instances of WorldServer for TLC. *)
EXTENDS WorldServer, TLC

CONSTANTS a1, a2, a3, r1, r2, k1, k2

TwoAgents == {a1, a2}
ThreeAgents == {a1, a2, a3}
OneRequest == {r1}
TwoRequests == {r1, r2}
OneScan == {k1}
TwoScans == {k1, k2}

\* Agents and slots are interchangeable; used for safety only.
SymmetryAR == Permutations(Agents) \cup Permutations(Requests)
==============================================================================
