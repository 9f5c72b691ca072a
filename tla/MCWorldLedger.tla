---------------------------- MODULE MCWorldLedger ----------------------------
(* Instances of WorldLedger for TLC. *)
EXTENDS WorldLedger

AnyCut == {"unended", "part", "nothing"}
ShortCut == {"part", "nothing"}
UnendedCut == {"unended"}
NoCut == {}
==============================================================================
