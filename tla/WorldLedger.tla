------------------------------ MODULE WorldLedger ------------------------------
(***************************************************************************)
(* The world's event ledger (world-ledger.ts): entries in memory, a JSON   *)
(* Lines file, the load at start and the chain verification.               *)
(*                                                                         *)
(* An entry is its seq, the hash of the entry before it and its own hash;  *)
(* hashes are numbers handed out in order (a hash covers the timestamp and *)
(* the previous hash, so no two entries share one).  Event, agent, alias,  *)
(* data and signature tell none of the properties apart: an entry that     *)
(* parses is one this world wrote, so hash and worldSig always check.      *)
(*                                                                         *)
(* The file is a sequence of lines, each an entry that parses or Garbage;  *)
(* "closed" says that it ends in a newline.  A write may be cut short:     *)
(*   all        the line and its newline                                   *)
(*   unended    the whole line, not its newline                            *)
(*   part       some of the line                                           *)
(*   nothing    no byte of it                                              *)
(* after which the process dies, or appendFileSync throws and the process  *)
(* goes on (a full disk).                                                  *)
(***************************************************************************)
EXTENDS Integers, Sequences, SequencesExt

CONSTANTS
  Garbage,         \* a line that does not parse
  Cuts,            \* how writes may end, besides "all"
  GenesisCuts,     \* how the write of the genesis line may end, besides "all"
  MaxHash,         \* bound: number of entries ever built
  MaxFailures      \* bound on crashes and write errors

ASSUME CutsAssumption ==
  /\ Cuts \subseteq {"unended", "part", "nothing"}
  /\ GenesisCuts \subseteq {"unended", "part", "nothing"}

ASSUME BoundsAssumption == MaxHash \in Nat /\ MaxFailures \in Nat

VARIABLES
  entries,    \* the entries in memory
  corrupted,  \* corruptedLines of the last load
  file,       \* the lines of the file
  closed,     \* the file is empty or ends in a newline
  running,    \* the process is up
  hashes,     \* number of hashes handed out
  acked,      \* hashes of the entries whose append (or genesis) returned
  failures    \* crashes and write errors so far

vars == <<entries, corrupted, file, closed, running, hashes, acked, failures>>

ZeroHash == 0

Entries == [seq : 0 .. MaxHash - 1, prev : 0 .. MaxHash, hash : 1 .. MaxHash]

ASSUME GarbageAssumption == Garbage \notin Entries

Parses(line) == line # Garbage

\* Fault: every entry continues the genesis entry.
FirstHash(es) == IF es = << >> THEN ZeroHash ELSE es[1].hash

LastHash(es) == IF es = << >> THEN ZeroHash ELSE Last(es).hash

\* Fault: entries are numbered from one.
BuildEntryFromOne(es) ==
  [seq |-> Len(es) + 1, prev |-> LastHash(es), hash |-> hashes + 1]

BuildEntry(es) ==
  [seq |-> Len(es), prev |-> LastHash(es), hash |-> hashes + 1]

\* The lines load() keeps, in file order (a recursive function: the provers know
\* nothing of SelectSeq).
Parsed(lines) ==
  LET kept[n \in 0 .. Len(lines)] ==
        IF n = 0 THEN << >>
        ELSE IF Parses(lines[n]) THEN Append(kept[n - 1], lines[n])
        ELSE kept[n - 1]
  IN  kept[Len(lines)]

\* Fault: the empty string after the last newline counts as a line.
DroppedWithLast(lines) == Len(lines) + 1 - Len(Parsed(lines))

\* The lines that load() counts as corrupted.
Dropped(lines) == Len(lines) - Len(Parsed(lines))

\* Fault: the file is opened for writing, not for appending.
WriteOver(lines, ended, e, cut) ==
  IF cut = "nothing" THEN << >> ELSE <<IF cut = "part" THEN Garbage ELSE e>>

\* appendFileSync(path, line + "\n") ending as cut says: what it writes goes on
\* from the last line when that has no newline.
Write(lines, ended, e, cut) ==
  LET line == IF cut = "part" \/ ~ended THEN Garbage ELSE e
  IN  CASE cut = "nothing" -> lines
        [] cut # "nothing" /\ ended -> Append(lines, line)
        [] OTHER -> ReplaceAt(lines, Len(lines), Garbage)

\* Fault: the line is written without its newline.
ClosesNever(ended, cut) == cut = "nothing" /\ ended

Closes(ended, cut) ==
  CASE cut = "all" -> TRUE
    [] cut = "nothing" -> ended
    [] OTHER -> FALSE

--------------------------------------------------------------------------------
(* append *)

Push(e) == entries' = Append(entries, e)

CanBuild == running /\ hashes < MaxHash

DoAppend ==
  /\ CanBuild
  /\ LET e == BuildEntry(entries) IN
       /\ Push(e)
       /\ file' = Write(file, closed, e, "all")
       /\ closed' = Closes(closed, "all")
       /\ hashes' = e.hash
       /\ acked' = acked \cup {e.hash}
  /\ UNCHANGED <<corrupted, running, failures>>

\* The write throws: the entry stays in memory, its line is cut short, and the
\* caller's request fails while the world goes on.
AppendThrows(cut) ==
  /\ CanBuild /\ failures < MaxFailures
  /\ LET e == BuildEntry(entries) IN
       /\ Push(e)
       /\ file' = Write(file, closed, e, cut)
       /\ hashes' = e.hash
  /\ closed' = Closes(closed, cut)
  /\ failures' = failures + 1
  /\ UNCHANGED <<corrupted, running, acked>>

--------------------------------------------------------------------------------
(* Crash and load *)

Down ==
  /\ running' = FALSE /\ entries' = << >> /\ corrupted' = 0
  /\ failures' = failures + 1

Crash ==
  /\ running /\ failures < MaxFailures
  /\ Down
  /\ UNCHANGED <<file, closed, hashes, acked>>

CrashInAppend(cut) ==
  /\ CanBuild /\ failures < MaxFailures
  /\ Down
  /\ LET e == BuildEntry(entries) IN
       file' = Write(file, closed, e, cut) /\ hashes' = e.hash
  /\ closed' = Closes(closed, cut)
  /\ UNCHANGED acked

\* load() of a file with at least one entry that parses.
Load ==
  /\ ~running
  /\ Parsed(file) # << >>
  /\ entries' = Parsed(file)
  /\ corrupted' = Dropped(file)
  /\ running' = TRUE
  /\ UNCHANGED <<file, closed, hashes, acked, failures>>

\* load() without a file, or with no entry left in it: writeGenesis replaces
\* whatever the file holds.
Genesis ==
  /\ ~running /\ hashes < MaxHash
  /\ Parsed(file) = << >>
  /\ LET e == BuildEntry(<< >>) IN
       /\ entries' = <<e>>
       /\ file' = <<e>>
       /\ hashes' = e.hash
       /\ acked' = acked \cup {e.hash}
  /\ corrupted' = Dropped(file)
  /\ closed' = TRUE
  /\ running' = TRUE
  /\ UNCHANGED failures

\* The process dies, or writeFileSync throws and the server does not start,
\* after the old content has been truncated.
CrashInGenesis(cut) ==
  /\ ~running /\ hashes < MaxHash /\ failures < MaxFailures
  /\ Parsed(file) = << >>
  /\ LET e == BuildEntry(<< >>) IN
       file' = Write(<< >>, TRUE, e, cut) /\ hashes' = e.hash
  /\ closed' = Closes(TRUE, cut)
  /\ failures' = failures + 1
  /\ UNCHANGED <<entries, corrupted, running, acked>>

Init ==
  /\ entries = << >> /\ corrupted = 0
  /\ file = << >> /\ closed = TRUE
  /\ running = FALSE
  /\ hashes = 0 /\ acked = {} /\ failures = 0

Next ==
  \/ DoAppend \/ Crash \/ Load \/ Genesis
  \/ \E cut \in Cuts : AppendThrows(cut)
  \/ \E cut \in Cuts \cup {"all"} : CrashInAppend(cut)
  \/ \E cut \in GenesisCuts \cup {"all"} : CrashInGenesis(cut)

Spec == Init /\ [][Next]_vars

--------------------------------------------------------------------------------
(* verify *)

ChainOk(es) ==
  \A i \in 1 .. Len(es) :
    /\ es[i].seq = i - 1
    /\ es[i].prev = IF i = 1 THEN ZeroHash ELSE es[i - 1].hash

\* Fault: verify() forgets the lines that load() dropped.
VerifyChainOnly == ChainOk(entries)

\* verify().ok
VerifyOk == corrupted = 0 /\ ChainOk(entries)

--------------------------------------------------------------------------------
(* Properties *)

\* The types of the state; an empty file needs no newline, and a process that
\* is up has at least its genesis entry in memory.
TypeOK ==
  /\ entries \in Seq(Entries)
  /\ corrupted \in Nat
  /\ file \in Seq(Entries \cup {Garbage})
  /\ closed \in BOOLEAN /\ (file = << >> => closed)
  /\ running \in BOOLEAN /\ (running <=> entries # << >>)
  /\ hashes \in 0 .. MaxHash
  /\ acked \subseteq 1 .. hashes
  /\ failures \in 0 .. MaxFailures

HashesIn(es) == {es[i].hash : i \in DOMAIN es}

\* Memory and file both keep the order in which entries were built, and no two
\* of the entries kept continue the same entry: whatever was cut short or lost,
\* the ledger is never a fork.
NoFork ==
  \A es \in {entries, Parsed(file)} :
    \A i, j \in 1 .. Len(es) :
      i < j => es[i].hash < es[j].hash /\ es[i].prev < es[j].prev

\* An entry whose append returned is in memory whenever verify() finds nothing
\* wrong: a loss is never silent.
LossDetected == running /\ VerifyOk => acked \subseteq HashesIn(entries)

\* An entry whose append returned and that a load would find stays to be found:
\* no write cut short, before or after a restart, takes it from the file.
AckedStays ==
  [][acked \cap HashesIn(Parsed(file)) \subseteq HashesIn(Parsed(file'))]_vars

\* verify() does not cry wolf: while memory holds every entry ever built, it
\* reports neither a broken chain nor a corrupted line, whatever writes failed and
\* however the entries got there (an entry whose write threw stays in memory, a
\* line without its newline is loaded).
NoFalseAlarm ==
  running /\ HashesIn(entries) = 1 .. hashes => VerifyOk

\* The last entry is whole but its newline is missing.
Unended == file # << >> /\ ~closed /\ Parses(Last(file))

\* The entries a load would keep are only ever extended; but for the last one,
\* while its newline is missing, no entry that parsed is ever taken from them.
Log == INSTANCE AppendOnlyLog WITH log <- Parsed(file), ended <- ~Unended

AppendOnly == Log!Spec

================================================================================
