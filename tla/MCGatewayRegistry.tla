-------------------------- MODULE MCGatewayRegistry --------------------------
(* Small instances of GatewayRegistry for TLC. *)
EXTENDS GatewayRegistry, TLC

CONSTANTS a1, a2, w1, c1, c2

TwoAgents == {a1, a2}
OneAgent == {a1}
OneWorld == {w1}
OneContent == {c1}
TwoContents == {c1, c2}

\* A timestamp ahead of the gateway's clock, one in time and one that is older
\* than the time to live.
Skewed == {-1, 0, 2}
InTime == {0}

SymmetryAC == Permutations(Agents) \cup Permutations(Contents)
==============================================================================
