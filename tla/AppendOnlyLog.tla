---------------------------- MODULE AppendOnlyLog ----------------------------
(***************************************************************************)
(* What WorldLedger promises of its file: a log that grows at its end.     *)
(* One entry can be taken from it, the last one, while the newline of its  *)
(* line is missing: the next write then continues that line.               *)
(***************************************************************************)
EXTENDS Sequences, SequencesExt

CONSTANT Entries

VARIABLES
  log,    \* the entries
  ended   \* the last entry's line has its newline

vars == <<log, ended>>

Init == log = << >> /\ ended = TRUE

Extend ==
  /\ ended /\ ended' \in BOOLEAN
  /\ \E e \in Entries : log' = Append(log, e)

TakeUnended == ~ended /\ ended' = TRUE /\ log' = Front(log)

Spec == Init /\ [][Extend \/ TakeUnended]_vars
==============================================================================
