--------------------------- MODULE WorldLedgerProofs ---------------------------
(***************************************************************************)
(* Theorems about WorldLedger for every number of entries, crashes and     *)
(* writes cut short.                                                       *)
(***************************************************************************)
EXTENDS WorldLedger, SequenceTheorems, WellFoundedInduction, TLAPS

Lines == Entries \cup {Garbage}

--------------------------------------------------------------------------------
(* Induction *)

\* Induction over the natural numbers, as a statement about sets: that every set
\* of numbers has a least element does not need an operator as a parameter.
LEMMA NatSetInduction ==
  ASSUME NEW S, 0 \in S, \A n \in Nat : n \in S => n + 1 \in S
  PROVE  Nat \subseteq S
<1> DEFINE R == {pair \in Nat \X Nat : pair[1] < pair[2]}
<1> DEFINE T == Nat \ S
<1>1. IsWellFoundedOn(R, Nat)
  BY NatLessThanWellFounded DEF OpToRel
<1>2. SUFFICES ASSUME T # {}
               PROVE  FALSE
  OBVIOUS
<1> HIDE DEF R
<1>3. PICK x \in T : \A y \in T : <<y, x>> \notin R
  BY <1>1, <1>2, WFMin
<1>4. x \in Nat /\ x # 0
  BY <1>3
<1>5. x - 1 \in Nat /\ (x - 1) + 1 = x
  BY <1>4
<1>6. x - 1 \in T
  BY <1>3, <1>5
<1>7. <<x - 1, x>> \in R
  BY <1>4, <1>5 DEF R
<1> QED BY <1>3, <1>6, <1>7

--------------------------------------------------------------------------------
(* What load() keeps of a file *)

\* One more line, after those that gave es.
Keep(es, line) == IF Parses(line) THEN Append(es, line) ELSE es

\* f keeps the lines of each of the first n lines.
KeepsOf(f, lines, n) ==
  f = [k \in 0 .. n |-> IF k = 0 THEN << >> ELSE Keep(f[k - 1], lines[k])]

\* The recursion of Parsed defines a function.
LEMMA KeepsExists ==
  ASSUME NEW lines
  PROVE  \A n \in Nat : \E f : KeepsOf(f, lines, n)
<1> DEFINE S == {n \in Nat : \E f : KeepsOf(f, lines, n)}
<1>1. 0 \in S
  <2>1. KeepsOf([k \in 0 .. 0 |-> << >>], lines, 0)
    BY DEF KeepsOf
  <2> QED BY <2>1
<1>2. ASSUME NEW n \in Nat, n \in S
      PROVE  n + 1 \in S
  <2>1. PICK f : KeepsOf(f, lines, n)
    BY <1>2
  <2> DEFINE g == [k \in 0 .. n + 1 |->
                     IF k = n + 1 THEN Keep(f[n], lines[k]) ELSE f[k]]
  <2>2. \A k \in 0 .. n : f[k] = IF k = 0 THEN << >> ELSE Keep(f[k - 1], lines[k])
    BY <2>1 DEF KeepsOf
  <2>3. \A k \in 0 .. n + 1 : g[k] = IF k = 0 THEN << >> ELSE Keep(g[k - 1], lines[k])
    <3>1. ASSUME NEW k \in 0 .. n + 1
          PROVE  g[k] = IF k = 0 THEN << >> ELSE Keep(g[k - 1], lines[k])
      <4>1. CASE k = 0
        BY <2>2, <4>1
      <4>2. CASE k = n + 1
        <5>1. k - 1 = n /\ n \in 0 .. n + 1 /\ n # n + 1
          BY <4>2
        <5>2. g[k] = Keep(f[n], lines[k]) /\ g[k - 1] = f[n]
          BY <4>2, <5>1
        <5> QED BY <4>2, <5>2
      <4>3. CASE k # 0 /\ k # n + 1
        <5>1. k \in 0 .. n /\ k - 1 \in 0 .. n + 1 /\ k - 1 # n + 1
          BY <4>3
        <5>2. g[k] = f[k] /\ g[k - 1] = f[k - 1]
          BY <5>1
        <5> QED BY <2>2, <4>3, <5>1, <5>2
      <4> QED BY <4>1, <4>2, <4>3
    <3> QED BY <3>1
  <2>4. KeepsOf(g, lines, n + 1)
    <3> DEFINE h == [k \in 0 .. n + 1 |-> IF k = 0 THEN << >> ELSE Keep(g[k - 1], lines[k])]
    <3>1. \A k \in 0 .. n + 1 : g[k] = h[k]
      BY <2>3
    <3>2. g = h
      BY <3>1
    <3> QED BY <3>2 DEF KeepsOf
  <2> QED BY <2>4
<1> HIDE DEF S
<1>3. Nat \subseteq S
  BY <1>1, <1>2, NatSetInduction
<1> QED BY <1>3 DEF S

LEMMA ParsedUnfolds ==
  ASSUME NEW lines \in Seq(Lines)
  PROVE  \E f : KeepsOf(f, lines, Len(lines)) /\ Parsed(lines) = f[Len(lines)]
<1> DEFINE kept == CHOOSE f : KeepsOf(f, lines, Len(lines))
<1>1. Parsed(lines) = kept[Len(lines)]
  BY DEF Parsed, KeepsOf, Keep
<1>2. \E f : KeepsOf(f, lines, Len(lines))
  <2>1. Len(lines) \in Nat
    OBVIOUS
  <2> QED BY <2>1, KeepsExists
<1>3. KeepsOf(kept, lines, Len(lines))
  BY <1>2
<1> QED BY <1>1, <1>3

\* What was kept of the first lines does not depend on those that follow.
LEMMA KeepsAgree ==
  ASSUME NEW lines, NEW more, NEW f, NEW g, NEW m \in Nat, NEW n \in Nat, m <= n,
         KeepsOf(f, lines, m), KeepsOf(g, more, n),
         \A i \in 1 .. m : more[i] = lines[i]
  PROVE  \A i \in 0 .. m : f[i] = g[i]
<1> DEFINE S == {i \in Nat : i <= m => f[i] = g[i]}
<1>1. /\ \A i \in 0 .. m : f[i] = IF i = 0 THEN << >> ELSE Keep(f[i - 1], lines[i])
      /\ \A i \in 0 .. n : g[i] = IF i = 0 THEN << >> ELSE Keep(g[i - 1], more[i])
  BY DEF KeepsOf
<1>2. 0 \in S
  BY <1>1
<1>3. ASSUME NEW i \in Nat, i \in S
      PROVE  i + 1 \in S
  <2>1. SUFFICES ASSUME i + 1 <= m
                 PROVE  f[i + 1] = g[i + 1]
    OBVIOUS
  <2>2. f[i] = g[i] /\ more[i + 1] = lines[i + 1]
    BY <1>3, <2>1
  <2>3. i + 1 \in 0 .. m /\ i + 1 \in 0 .. n /\ i + 1 # 0 /\ (i + 1) - 1 = i
    BY <2>1
  <2> QED BY <1>1, <2>2, <2>3
<1> HIDE DEF S
<1>4. Nat \subseteq S
  BY <1>2, <1>3, NatSetInduction
<1> QED BY <1>4 DEF S

LEMMA ParsedOfNothing == Parsed(<< >>) = << >>
<1>1. << >> \in Seq(Lines) /\ Len(<< >>) = 0
  OBVIOUS
<1>2. PICK f : KeepsOf(f, << >>, 0) /\ Parsed(<< >>) = f[0]
  BY <1>1, ParsedUnfolds
<1> QED BY <1>2 DEF KeepsOf

\* A line is kept at the end, if it parses.
LEMMA ParsedAppend ==
  ASSUME NEW lines \in Seq(Lines), NEW line \in Lines
  PROVE  Parsed(Append(lines, line)) = Keep(Parsed(lines), line)
<1> DEFINE more == Append(lines, line)
<1>1. /\ more \in Seq(Lines) /\ Len(more) = Len(lines) + 1 /\ Len(lines) \in Nat
      /\ \A i \in 1 .. Len(lines) : more[i] = lines[i]
      /\ more[Len(lines) + 1] = line
  BY AppendProperties
<1> HIDE DEF more
<1>2. PICK f : KeepsOf(f, lines, Len(lines)) /\ Parsed(lines) = f[Len(lines)]
  BY ParsedUnfolds
<1>3. PICK g : KeepsOf(g, more, Len(more)) /\ Parsed(more) = g[Len(more)]
  BY <1>1, ParsedUnfolds
<1>4. f[Len(lines)] = g[Len(lines)]
  <2>1. \A i \in 0 .. Len(lines) : f[i] = g[i]
    BY <1>1, <1>2, <1>3, KeepsAgree
  <2> QED BY <1>1, <2>1
<1>5. g[Len(lines) + 1] = Keep(g[Len(lines)], line)
  <2>1. \A k \in 0 .. Len(lines) + 1 : g[k] = IF k = 0 THEN << >> ELSE Keep(g[k - 1], more[k])
    BY <1>1, <1>3 DEF KeepsOf
  <2>2. Len(lines) + 1 \in 0 .. Len(lines) + 1 /\ Len(lines) + 1 # 0
        /\ (Len(lines) + 1) - 1 = Len(lines)
    BY <1>1
  <2> QED BY <1>1, <2>1, <2>2
<1> QED BY <1>1, <1>2, <1>3, <1>4, <1>5 DEF more

\* What is kept are entries, no more of them than lines.
LEMMA ParsedAreEntries ==
  ASSUME NEW lines \in Seq(Lines)
  PROVE  Parsed(lines) \in Seq(Entries) /\ Len(Parsed(lines)) <= Len(lines)
<1>1. PICK f : KeepsOf(f, lines, Len(lines)) /\ Parsed(lines) = f[Len(lines)]
  BY ParsedUnfolds
<1>2. \A i \in 0 .. Len(lines) : f[i] = IF i = 0 THEN << >> ELSE Keep(f[i - 1], lines[i])
  BY <1>1 DEF KeepsOf
<1> DEFINE S == {i \in Nat : i <= Len(lines) => f[i] \in Seq(Entries) /\ Len(f[i]) <= i}
<1>3. 0 \in S
  <2>1. f[0] = << >>
    BY <1>2
  <2>2. f[0] \in Seq(Entries) /\ Len(f[0]) <= 0
    BY <2>1, EmptySeq
  <2> QED BY <2>2
<1>4. ASSUME NEW i \in Nat, i \in S
      PROVE  i + 1 \in S
  <2>1. SUFFICES ASSUME i + 1 <= Len(lines)
                 PROVE  f[i + 1] \in Seq(Entries) /\ Len(f[i + 1]) <= i + 1
    OBVIOUS
  <2>2. f[i] \in Seq(Entries) /\ Len(f[i]) <= i
    BY <1>4, <2>1
  <2>3. i + 1 \in 1 .. Len(lines) /\ lines[i + 1] \in Lines
    BY <2>1
  <2>4. f[i + 1] = Keep(f[i], lines[i + 1])
    <3>1. i + 1 \in 0 .. Len(lines) /\ i + 1 # 0 /\ (i + 1) - 1 = i
      BY <2>1
    <3> QED BY <1>2, <3>1
  <2> QED BY <2>2, <2>3, <2>4 DEF Keep, Parses, Lines
<1> HIDE DEF S
<1>5. Nat \subseteq S
  BY <1>3, <1>4, NatSetInduction
<1> QED BY <1>1, <1>5 DEF S

\* A sequence that is not empty is its front and its last element.
LEMMA FrontAndLast ==
  ASSUME NEW S, NEW s \in Seq(S), s # << >>
  PROVE  /\ Front(s) \in Seq(S) /\ Len(Front(s)) = Len(s) - 1
         /\ \A i \in 1 .. Len(s) - 1 : Front(s)[i] = s[i]
         /\ Last(s) \in S /\ s = Append(Front(s), Last(s))
<1>1. Len(s) \in Nat /\ Len(s) > 0
  OBVIOUS
<1>2. Last(s) \in S
  BY <1>1 DEF Last
<1>3. \A i \in 1 .. Len(s) - 1 : s[i] \in S
  BY <1>1
<1>4. /\ Front(s) \in Seq(S) /\ Len(Front(s)) = Len(s) - 1
      /\ \A i \in 1 .. Len(s) - 1 : Front(s)[i] = s[i]
  <2>1. PICK n \in Nat : n = Len(s) - 1
    BY <1>1
  <2>2. /\ SubSeq(s, 1, n) \in Seq(S)
        /\ Len(SubSeq(s, 1, n)) = IF 1 <= n THEN n - 1 + 1 ELSE 0
        /\ \A i \in 1 .. n - 1 + 1 : SubSeq(s, 1, n)[i] = s[1 + i - 1]
    BY <1>3, <2>1, SubSeqProperties
  <2>3. n - 1 + 1 = n /\ (n = 0 \/ 1 <= n) /\ \A i \in 1 .. n : 1 + i - 1 = i
    OBVIOUS
  <2>4. Len(SubSeq(s, 1, n)) = n
    BY <2>2, <2>3
  <2>5. \A i \in 1 .. n : SubSeq(s, 1, n)[i] = s[i]
    BY <2>2, <2>3
  <2> QED BY <2>1, <2>2, <2>4, <2>5 DEF Front
<1>5. s = Append(Front(s), Last(s))
  <2>1. /\ Append(Front(s), Last(s)) \in Seq(S)
        /\ Len(Append(Front(s), Last(s))) = Len(s)
        /\ \A i \in 1 .. Len(s) - 1 : Append(Front(s), Last(s))[i] = s[i]
        /\ Append(Front(s), Last(s))[Len(s)] = s[Len(s)]
    BY <1>1, <1>2, <1>4, AppendProperties DEF Last
  <2> QED BY <1>1, <2>1, SeqEqual
<1> QED BY <1>2, <1>4, <1>5

LEMMA FrontOfAppend ==
  ASSUME NEW S, NEW s \in Seq(S), NEW e \in S
  PROVE  Front(Append(s, e)) = s /\ Last(Append(s, e)) = e
<1>1. /\ Append(s, e) \in Seq(S) /\ Append(s, e) # << >> /\ Len(Append(s, e)) = Len(s) + 1
      /\ \A i \in 1 .. Len(s) : Append(s, e)[i] = s[i]
      /\ Append(s, e)[Len(s) + 1] = e /\ Len(s) \in Nat
  BY AppendProperties
<1>2. /\ Front(Append(s, e)) \in Seq(S) /\ Len(Front(Append(s, e))) = Len(s)
      /\ \A i \in 1 .. Len(s) : Front(Append(s, e))[i] = s[i]
  <2> DEFINE t == Append(s, e)
  <2> HIDE DEF t
  <2>1. t \in Seq(S) /\ t # << >>
    BY <1>1 DEF t
  <2>2. /\ Front(t) \in Seq(S) /\ Len(Front(t)) = Len(t) - 1
        /\ \A i \in 1 .. Len(t) - 1 : Front(t)[i] = t[i]
    BY <2>1, FrontAndLast
  <2> QED BY <1>1, <2>2 DEF t
<1> QED BY <1>1, <1>2, SeqEqual DEF Last

\* A write goes on from the last line: that line is lost.
LEMMA ParsedGarbled ==
  ASSUME NEW lines \in Seq(Lines), lines # << >>
  PROVE  LET new == ReplaceAt(lines, Len(lines), Garbage)
         IN  /\ new \in Seq(Lines) /\ Len(new) = Len(lines) /\ Last(new) = Garbage
             /\ Len(Parsed(new)) < Len(new)
             /\ Parses(Last(lines)) =>
                  Parsed(lines) # << >> /\ Parsed(new) = Front(Parsed(lines))
             /\ ~Parses(Last(lines)) => Parsed(new) = Parsed(lines)
<1> DEFINE new == ReplaceAt(lines, Len(lines), Garbage)
<1>1. /\ Front(lines) \in Seq(Lines) /\ Len(Front(lines)) = Len(lines) - 1
      /\ \A i \in 1 .. Len(lines) - 1 : Front(lines)[i] = lines[i]
      /\ Last(lines) \in Lines /\ lines = Append(Front(lines), Last(lines))
      /\ Len(lines) \in Nat /\ Len(lines) > 0 /\ Garbage \in Lines
  BY FrontAndLast DEF Lines
<1>2. new = Append(Front(lines), Garbage)
  <2>1. /\ new \in Seq(Lines) /\ Len(new) = Len(lines)
        /\ \A i \in 1 .. Len(lines) : new[i] = IF i = Len(lines) THEN Garbage ELSE lines[i]
    <3>1. Len(lines) \in 1 .. Len(lines)
      BY <1>1
    <3> QED BY <1>1, <3>1, ExceptSeq DEF ReplaceAt
  <2>2. /\ Append(Front(lines), Garbage) \in Seq(Lines)
        /\ Len(Append(Front(lines), Garbage)) = Len(lines)
        /\ \A i \in 1 .. Len(lines) - 1 : Append(Front(lines), Garbage)[i] = lines[i]
        /\ Append(Front(lines), Garbage)[Len(lines)] = Garbage
    BY <1>1, AppendProperties
  <2> QED BY <1>1, <2>1, <2>2, SeqEqual
<1>3. /\ Parsed(new) = Parsed(Front(lines))
      /\ Parsed(lines) = Keep(Parsed(Front(lines)), Last(lines))
  BY <1>1, <1>2, ParsedAppend DEF Keep, Parses
<1>4. /\ Parsed(Front(lines)) \in Seq(Entries)
      /\ Len(Parsed(Front(lines))) <= Len(lines) - 1
  BY <1>1, ParsedAreEntries
<1>5. new \in Seq(Lines) /\ Len(new) = Len(lines) /\ Last(new) = Garbage
  BY <1>1, <1>2, FrontOfAppend, AppendProperties
<1>6. CASE Parses(Last(lines))
  <2>1. Last(lines) \in Entries /\ Parsed(lines) = Append(Parsed(Front(lines)), Last(lines))
    BY <1>1, <1>3, <1>6 DEF Keep, Parses, Lines
  <2>2. Parsed(lines) # << >> /\ Front(Parsed(lines)) = Parsed(Front(lines))
    BY <1>4, <2>1, FrontOfAppend, AppendProperties
  <2> QED BY <1>1, <1>3, <1>4, <1>5, <1>6, <2>2
<1>7. CASE ~Parses(Last(lines))
  BY <1>1, <1>3, <1>4, <1>5, <1>7 DEF Keep
<1> QED BY <1>6, <1>7

--------------------------------------------------------------------------------
(* What a write does *)

Ends == {"all", "unended", "part", "nothing"}

\* The last line is whole but its newline is missing.
UnendedIn(lines, ended) == lines # << >> /\ ~ended /\ Parses(Last(lines))

\* Some line does not parse.
Torn(lines) == Len(Parsed(lines)) < Len(lines)

\* The entries that would be loaded stay: nothing was written, or no whole line.
Stays(lines, ended, new, cut) ==
  /\ Parsed(new) = Parsed(lines)
  /\ (UnendedIn(new, Closes(ended, cut)) <=> UnendedIn(lines, ended))
  /\ Torn(lines) \/ cut = "all" => Torn(new)

\* They are extended by the new entry.
Extends(lines, ended, new, e, cut) ==
  /\ ended /\ cut \in {"all", "unended"}
  /\ Parsed(new) = Append(Parsed(lines), e)
  /\ Len(new) = Len(lines) + 1
  /\ (UnendedIn(new, Closes(ended, cut)) <=> cut = "unended")

\* The last of them, whose newline was missing, is lost with the new one.
Takes(lines, ended, new, cut) ==
  /\ UnendedIn(lines, ended) /\ ~UnendedIn(new, Closes(ended, cut))
  /\ Parsed(lines) # << >> /\ Parsed(new) = Front(Parsed(lines))
  /\ Torn(new)

LEMMA WriteEffect ==
  ASSUME NEW lines \in Seq(Lines), NEW ended \in BOOLEAN, NEW e \in Entries,
         NEW cut \in Ends, lines = << >> => ended
  PROVE  LET new == Write(lines, ended, e, cut)
         IN  /\ new \in Seq(Lines)
             /\ new = << >> => Closes(ended, cut)
             /\ \/ Stays(lines, ended, new, cut)
                \/ Extends(lines, ended, new, e, cut)
                \/ Takes(lines, ended, new, cut)
<1> DEFINE new == Write(lines, ended, e, cut)
<1>1. e \in Lines /\ Garbage \in Lines /\ Parses(e) /\ ~Parses(Garbage)
      /\ Len(lines) \in Nat
      /\ Parsed(lines) \in Seq(Entries) /\ Len(Parsed(lines)) <= Len(lines)
      /\ Len(Parsed(lines)) \in Nat
  BY ParsedAreEntries, GarbageAssumption DEF Lines, Parses
<1>2. CASE cut = "nothing"
  <2>1. new = lines /\ Closes(ended, cut) = ended
    BY <1>2 DEF Write, Closes
  <2>2. Stays(lines, ended, new, cut)
    BY <1>2, <2>1 DEF Stays
  <2> QED BY <2>1, <2>2
<1>3. CASE cut # "nothing" /\ ended
  <2> DEFINE line == IF cut = "part" THEN Garbage ELSE e
  <2>1. new = Append(lines, line) /\ line \in Lines
    BY <1>1, <1>3 DEF Write
  <2> HIDE DEF line, new
  <2>2. /\ new \in Seq(Lines) /\ new # << >> /\ Len(new) = Len(lines) + 1
        /\ Last(new) = line
    BY <2>1, AppendProperties, FrontOfAppend
  <2>3. Parsed(new) = Keep(Parsed(lines), line)
    BY <2>1, ParsedAppend
  <2>4. CASE cut = "part"
    <3>1. line = Garbage /\ Parsed(new) = Parsed(lines)
      BY <1>1, <2>3, <2>4 DEF Keep, line
    <3>2. ~UnendedIn(new, Closes(ended, cut)) /\ ~UnendedIn(lines, ended)
      BY <1>1, <1>3, <2>2, <3>1 DEF UnendedIn
    <3>3. Torn(new)
      BY <1>1, <2>2, <3>1 DEF Torn
    <3> QED BY <2>2, <3>1, <3>2, <3>3 DEF Stays, new
  <2>5. CASE cut \in {"all", "unended"}
    <3>1. line = e /\ Parsed(new) = Append(Parsed(lines), e)
      BY <1>1, <2>3, <2>5 DEF Keep, line
    <3>2. UnendedIn(new, Closes(ended, cut)) <=> cut = "unended"
      BY <1>1, <2>2, <2>5, <3>1 DEF UnendedIn, Closes
    <3> QED BY <1>3, <2>2, <2>5, <3>1, <3>2 DEF Extends, new
  <2> QED BY <1>3, <2>4, <2>5 DEF Ends
<1>4. CASE cut # "nothing" /\ ~ended
  <2>1. lines # << >> /\ new = ReplaceAt(lines, Len(lines), Garbage)
    BY <1>4 DEF Write
  <2> HIDE DEF new
  <2>2. /\ new \in Seq(Lines) /\ Len(new) = Len(lines) /\ Last(new) = Garbage
        /\ Len(Parsed(new)) < Len(new)
        /\ Parses(Last(lines)) =>
             Parsed(lines) # << >> /\ Parsed(new) = Front(Parsed(lines))
        /\ ~Parses(Last(lines)) => Parsed(new) = Parsed(lines)
    BY <2>1, ParsedGarbled
  <2>3. Torn(new) /\ ~UnendedIn(new, Closes(ended, cut)) /\ new # << >>
    <3>1. new # << >>
      BY <2>1, <2>2, EmptySeq
    <3> QED BY <1>1, <2>2, <3>1 DEF Torn, UnendedIn
  <2>4. CASE Parses(Last(lines))
    BY <1>4, <2>1, <2>2, <2>3, <2>4 DEF Takes, UnendedIn, new
  <2>5. CASE ~Parses(Last(lines))
    BY <1>4, <2>1, <2>2, <2>3, <2>5 DEF Stays, UnendedIn, new
  <2> QED BY <2>4, <2>5
<1> QED BY <1>2, <1>3, <1>4

--------------------------------------------------------------------------------
(* The chain of entries *)

\* Every entry was built after those before it, from at least as many of them,
\* and h hashes have been handed out.
WellBuilt(es, h) ==
  \A i \in 1 .. Len(es) :
    /\ es[i].prev < es[i].hash /\ es[i].hash <= h
    /\ i - 1 <= es[i].seq /\ es[i].seq < es[i].hash

\* No entry continues one that is older than the entry before it.
InOrder(es) ==
  \A i, j \in 1 .. Len(es) : i < j => es[i].hash <= es[j].prev

Sound(es, h) == WellBuilt(es, h) /\ InOrder(es)

LEMMA EntryFields ==
  ASSUME NEW e \in Entries
  PROVE  e.seq \in Nat /\ e.prev \in Nat /\ e.hash \in Nat
BY BoundsAssumption DEF Entries

LEMMA SoundAppend ==
  ASSUME NEW es \in Seq(Entries), NEW h \in Nat, Sound(es, h), NEW e \in Entries,
         e.hash = h + 1, Len(es) <= e.seq, e.seq <= h, e.prev <= h,
         \A i \in 1 .. Len(es) : es[i].hash <= e.prev
  PROVE  Sound(Append(es, e), h + 1)
<1> DEFINE more == Append(es, e)
<1>1. /\ more \in Seq(Entries) /\ Len(more) = Len(es) + 1 /\ Len(es) \in Nat
      /\ \A i \in 1 .. Len(es) : more[i] = es[i]
      /\ more[Len(es) + 1] = e
  BY AppendProperties
<1> HIDE DEF more
<1>2. \A i \in 1 .. Len(more) : i \in 1 .. Len(es) \/ i = Len(es) + 1
  BY <1>1
<1>3. WellBuilt(more, h + 1)
  <2>1. ASSUME NEW i \in 1 .. Len(es)
        PROVE  /\ more[i].prev < more[i].hash /\ more[i].hash <= h + 1
               /\ i - 1 <= more[i].seq /\ more[i].seq < more[i].hash
    <3>1. es[i] \in Entries /\ more[i] = es[i]
      BY <1>1
    <3>2. es[i].hash \in Nat
      BY <3>1, EntryFields
    <3> QED BY <3>1, <3>2 DEF Sound, WellBuilt
  <2>2. e.seq \in Nat /\ e.prev \in Nat
    BY EntryFields
  <2>3. /\ e.prev < e.hash /\ e.hash <= h + 1
        /\ (Len(es) + 1) - 1 <= e.seq /\ e.seq < e.hash
    BY <1>1, <2>2
  <2> QED BY <1>1, <1>2, <2>1, <2>3 DEF WellBuilt
<1>4. InOrder(more)
  <2>1. SUFFICES ASSUME NEW i \in 1 .. Len(more), NEW j \in 1 .. Len(more), i < j
                 PROVE  more[i].hash <= more[j].prev
    BY DEF InOrder
  <2>2. i \in 1 .. Len(es)
    BY <1>1, <2>1
  <2>3. CASE j \in 1 .. Len(es)
    BY <1>1, <2>1, <2>2, <2>3 DEF Sound, InOrder
  <2>4. CASE j = Len(es) + 1
    BY <1>1, <2>2, <2>4
  <2> QED BY <1>2, <2>3, <2>4
<1> QED BY <1>3, <1>4 DEF Sound, more

LEMMA SoundFront ==
  ASSUME NEW es \in Seq(Entries), es # << >>, NEW h \in Nat, Sound(es, h)
  PROVE  Sound(Front(es), h)
<1> DEFINE less == Front(es)
<1>1. /\ Len(less) = Len(es) - 1 /\ Len(es) \in Nat
      /\ \A i \in 1 .. Len(es) - 1 : less[i] = es[i]
  BY FrontAndLast
<1> HIDE DEF less
<1>2. \A i \in 1 .. Len(less) : i \in 1 .. Len(es) /\ less[i] = es[i]
  BY <1>1
<1>3. WellBuilt(less, h)
  BY <1>2 DEF Sound, WellBuilt
<1>4. InOrder(less)
  BY <1>2 DEF Sound, InOrder
<1> QED BY <1>3, <1>4 DEF Sound, less

LEMMA SoundLater ==
  ASSUME NEW es \in Seq(Entries), NEW h \in Nat, Sound(es, h)
  PROVE  Sound(es, h + 1)
<1>1. ASSUME NEW i \in 1 .. Len(es)
      PROVE  es[i].hash <= h + 1
  <2>1. es[i].hash \in Nat /\ es[i].hash <= h
    BY EntryFields, ElementOfSeq DEF Sound, WellBuilt
  <2> QED BY <2>1
<1> QED BY <1>1 DEF Sound, WellBuilt

\* The last hash is the largest, and no more entries than hashes were built.
LEMMA SoundBounds ==
  ASSUME NEW es \in Seq(Entries), NEW h \in Nat, Sound(es, h)
  PROVE  /\ Len(es) \in Nat /\ Len(es) <= h
         /\ LastHash(es) \in 0 .. h
         /\ \A i \in 1 .. Len(es) : es[i].hash <= LastHash(es)
<1>1. CASE es = << >>
  BY <1>1, EmptySeq DEF LastHash, ZeroHash
<1>2. CASE es # << >>
  <2>1. Len(es) \in Nat /\ Len(es) > 0 /\ Len(es) \in 1 .. Len(es)
    BY <1>2
  <2>2. PICK l \in Entries : l = es[Len(es)] /\ LastHash(es) = l.hash
    BY <1>2, <2>1 DEF LastHash, Last
  <2>3. l.hash \in Nat /\ l.prev \in Nat /\ l.seq \in Nat
    BY EntryFields
  <2>4. l.hash <= h /\ Len(es) - 1 <= l.seq /\ l.seq < l.hash /\ l.prev < l.hash
    BY <2>1, <2>2 DEF Sound, WellBuilt
  <2>5. ASSUME NEW i \in 1 .. Len(es)
        PROVE  es[i].hash <= l.hash
    <3>1. CASE i = Len(es)
      BY <2>2, <2>3, <3>1
    <3>2. CASE i < Len(es)
      <4>1. es[i].hash <= l.prev /\ es[i].hash \in Nat
        BY <2>1, <2>2, <3>2, EntryFields, ElementOfSeq DEF Sound, InOrder
      <4> QED BY <2>3, <2>4, <4>1
    <3> QED BY <2>1, <3>1, <3>2
  <2> QED BY <2>1, <2>2, <2>3, <2>4, <2>5
<1> QED BY <1>1, <1>2

--------------------------------------------------------------------------------
(* The inductive invariant *)

\* What would be loaded is no longer and no newer than what is in memory.
FileBehind ==
  running =>
    /\ Len(Parsed(file)) <= Len(entries)
    /\ \A i \in 1 .. Len(Parsed(file)) : Parsed(file)[i].hash <= LastHash(entries)

IInv ==
  TypeOK /\ Sound(entries, hashes) /\ Sound(Parsed(file), hashes) /\ FileBehind

LEMMA Typed ==
  ASSUME TypeOK
  PROVE  /\ entries \in Seq(Entries) /\ file \in Seq(Lines)
         /\ Parsed(file) \in Seq(Entries) /\ Len(Parsed(file)) <= Len(file)
         /\ Len(entries) \in Nat /\ Len(file) \in Nat /\ Len(Parsed(file)) \in Nat
         /\ hashes \in Nat /\ MaxHash \in Nat /\ MaxFailures \in Nat
<1>1. entries \in Seq(Entries) /\ file \in Seq(Lines) /\ hashes \in Nat
  BY BoundsAssumption DEF TypeOK, Lines
<1> QED BY <1>1, ParsedAreEntries, BoundsAssumption

LEMMA NothingIsSound ==
  ASSUME NEW h \in Nat
  PROVE  << >> \in Seq(Entries) /\ Sound(<< >>, h) /\ LastHash(<< >>) = 0
BY EmptySeq DEF Sound, WellBuilt, InOrder, LastHash, ZeroHash

LEMMA InitIInv ==
  ASSUME Init
  PROVE  IInv
<1>1. TypeOK
  <2>1. << >> \in Seq(Entries) /\ << >> \in Seq(Entries \cup {Garbage})
    BY EmptySeq
  <2>2. 0 \in 0 .. MaxHash /\ 0 \in 0 .. MaxFailures
    BY BoundsAssumption
  <2> QED BY <2>1, <2>2 DEF Init, TypeOK
<1>2. Sound(entries, hashes) /\ Sound(Parsed(file), hashes)
  BY NothingIsSound, ParsedOfNothing DEF Init
<1> QED BY <1>1, <1>2 DEF Init, IInv, FileBehind

\* The entry built next is one, and continues both what is in memory and what is
\* in the file.
LEMMA Built ==
  ASSUME IInv, hashes < MaxHash
  PROVE  LET e == BuildEntry(entries)
         IN  /\ e \in Entries /\ e.hash = hashes + 1
             /\ e.seq = Len(entries) /\ e.prev = LastHash(entries)
             /\ e.seq <= hashes /\ e.prev <= hashes
             /\ \A i \in 1 .. Len(entries) : entries[i].hash <= e.prev
<1>1. entries \in Seq(Entries) /\ hashes \in Nat /\ MaxHash \in Nat
  BY Typed DEF IInv
<1>2. /\ Len(entries) \in Nat /\ Len(entries) <= hashes
      /\ LastHash(entries) \in 0 .. hashes
      /\ \A i \in 1 .. Len(entries) : entries[i].hash <= LastHash(entries)
  BY <1>1, SoundBounds DEF IInv
<1> DEFINE e == BuildEntry(entries)
<1>3. e.hash = hashes + 1 /\ e.seq = Len(entries) /\ e.prev = LastHash(entries)
  BY DEF BuildEntry
<1>4. e \in Entries
  <2>1. /\ hashes + 1 \in 1 .. MaxHash /\ Len(entries) \in 0 .. MaxHash - 1
        /\ LastHash(entries) \in 0 .. MaxHash
    BY <1>1, <1>2
  <2> QED BY <2>1 DEF BuildEntry, Entries
<1> HIDE DEF e
<1> QED BY <1>1, <1>2, <1>3, <1>4 DEF e

\* Memory after the entry was pushed.
LEMMA Pushed ==
  ASSUME IInv, CanBuild, Push(BuildEntry(entries))
  PROVE  /\ entries' \in Seq(Entries) /\ entries' # << >>
         /\ Len(entries') = Len(entries) + 1
         /\ Sound(entries', hashes + 1) /\ LastHash(entries') = hashes + 1
<1> DEFINE e == BuildEntry(entries)
<1>1. entries \in Seq(Entries) /\ hashes \in Nat /\ hashes < MaxHash /\ Sound(entries, hashes)
  BY Typed DEF IInv, CanBuild
<1>2. /\ e \in Entries /\ e.hash = hashes + 1 /\ e.seq = Len(entries)
      /\ e.seq <= hashes /\ e.prev <= hashes
      /\ \A i \in 1 .. Len(entries) : entries[i].hash <= e.prev
  BY <1>1, Built
<1>3. entries' = Append(entries, e)
  BY DEF Push
<1> HIDE DEF e
<1>4. Sound(entries', hashes + 1)
  BY <1>1, <1>2, <1>3, SoundAppend, LenProperties
<1>5. /\ entries' \in Seq(Entries) /\ entries' # << >>
      /\ Len(entries') = Len(entries) + 1 /\ Last(entries') = e
  BY <1>1, <1>2, <1>3, AppendProperties, FrontOfAppend
<1> QED BY <1>2, <1>4, <1>5 DEF LastHash

\* The file after a write of that entry, however it ends.
LEMMA Filed ==
  ASSUME IInv, CanBuild, NEW cut \in Ends,
         file' = Write(file, closed, BuildEntry(entries), cut)
  PROVE  /\ file' \in Seq(Lines) /\ (file' = << >> => Closes(closed, cut))
         /\ Sound(Parsed(file'), hashes + 1)
         /\ Len(Parsed(file')) <= Len(entries) + 1
         /\ Parsed(file') \in Seq(Entries)
<1> DEFINE e == BuildEntry(entries)
<1>1. /\ file \in Seq(Lines) /\ Parsed(file) \in Seq(Entries) /\ hashes \in Nat
      /\ closed \in BOOLEAN /\ (file = << >> => closed)
      /\ hashes < MaxHash /\ Sound(Parsed(file), hashes)
      /\ Len(Parsed(file)) \in Nat /\ Len(entries) \in Nat
      /\ Len(Parsed(file)) <= Len(entries)
      /\ \A i \in 1 .. Len(Parsed(file)) : Parsed(file)[i].hash <= LastHash(entries)
  BY Typed DEF IInv, TypeOK, CanBuild, FileBehind
<1>2. /\ e \in Entries /\ e.hash = hashes + 1
      /\ e.seq = Len(entries) /\ e.prev = LastHash(entries)
      /\ e.seq <= hashes /\ e.prev <= hashes
  BY <1>1, Built
<1> HIDE DEF e
<1>3. /\ file' \in Seq(Lines) /\ (file' = << >> => Closes(closed, cut))
      /\ \/ Stays(file, closed, file', cut)
         \/ Extends(file, closed, file', e, cut)
         \/ Takes(file, closed, file', cut)
  <2>1. file' = Write(file, closed, e, cut)
    BY DEF e
  <2> QED BY <1>1, <1>2, <2>1, WriteEffect
<1>4. CASE Stays(file, closed, file', cut)
  BY <1>1, <1>3, <1>4, SoundLater DEF Stays
<1>5. CASE Extends(file, closed, file', e, cut)
  <2>1. Parsed(file') = Append(Parsed(file), e)
    BY <1>5 DEF Extends
  <2>2. Len(Parsed(file)) <= e.seq
    BY <1>1, <1>2
  <2>3. \A i \in 1 .. Len(Parsed(file)) : Parsed(file)[i].hash <= e.prev
    BY <1>1, <1>2
  <2>4. Sound(Parsed(file'), hashes + 1)
    BY <1>1, <1>2, <2>1, <2>2, <2>3, SoundAppend
  <2>5. Parsed(file') \in Seq(Entries) /\ Len(Parsed(file')) = Len(Parsed(file)) + 1
    BY <1>1, <1>2, <2>1, AppendProperties
  <2> QED BY <1>1, <1>3, <2>4, <2>5
<1>6. CASE Takes(file, closed, file', cut)
  <2>1. Parsed(file) # << >> /\ Parsed(file') = Front(Parsed(file))
    BY <1>6 DEF Takes
  <2>2. Parsed(file') \in Seq(Entries) /\ Len(Parsed(file')) = Len(Parsed(file)) - 1
    BY <1>1, <2>1, FrontAndLast
  <2>3. Sound(Parsed(file'), hashes)
    BY <1>1, <2>1, SoundFront
  <2>4. Sound(Parsed(file'), hashes + 1)
    BY <1>1, <2>2, <2>3, SoundLater
  <2> QED BY <1>1, <1>3, <2>2, <2>4
<1> QED BY <1>3, <1>4, <1>5, <1>6

\* The process goes on after the write, whether or not it threw.
LEMMA AppendIInv ==
  ASSUME IInv, DoAppend \/ \E cut \in Cuts : AppendThrows(cut)
  PROVE  IInv'
<1>1. /\ CanBuild /\ Push(BuildEntry(entries)) /\ hashes' = hashes + 1
      /\ UNCHANGED <<corrupted, running>>
      /\ \E cut \in Ends : /\ file' = Write(file, closed, BuildEntry(entries), cut)
                           /\ closed' = Closes(closed, cut)
      /\ acked' \subseteq acked \cup {hashes + 1}
      /\ failures' = failures \/ (failures < MaxFailures /\ failures' = failures + 1)
  BY CutsAssumption DEF DoAppend, AppendThrows, BuildEntry, CanBuild, Ends
<1>2. /\ entries' \in Seq(Entries) /\ entries' # << >> /\ Len(entries') = Len(entries) + 1
      /\ Sound(entries', hashes') /\ LastHash(entries') = hashes + 1
  BY <1>1, Pushed
<1>3. /\ file' \in Seq(Lines) /\ (file' = << >> => closed')
      /\ Sound(Parsed(file'), hashes') /\ Len(Parsed(file')) <= Len(entries) + 1
      /\ Parsed(file') \in Seq(Entries)
  BY <1>1, Filed
<1>4. closed' \in BOOLEAN
  BY <1>1 DEF Closes, IInv, TypeOK, Ends
<1>5. TypeOK'
  BY <1>1, <1>2, <1>3, <1>4, Typed DEF IInv, TypeOK, CanBuild, Lines
<1>6. FileBehind'
  BY <1>1, <1>2, <1>3 DEF FileBehind, Sound, WellBuilt
<1> QED BY <1>2, <1>3, <1>5, <1>6 DEF IInv

LEMMA CrashIInv ==
  ASSUME IInv, Crash \/ \E cut \in Cuts \cup {"all"} : CrashInAppend(cut)
  PROVE  IInv'
<1>1. /\ entries' = << >> /\ corrupted' = 0 /\ running' = FALSE /\ acked' = acked
      /\ failures < MaxFailures /\ failures' = failures + 1
  BY DEF Crash, CrashInAppend, Down
<1>2. /\ hashes \in Nat /\ hashes' \in {hashes, hashes + 1} /\ hashes' \in 0 .. MaxHash
      /\ file' \in Seq(Lines) /\ closed' \in BOOLEAN /\ (file' = << >> => closed')
      /\ Sound(Parsed(file'), hashes')
  <2>1. CASE Crash
    BY <2>1, Typed DEF Crash, IInv, TypeOK
  <2>2. CASE \E cut \in Cuts \cup {"all"} : CrashInAppend(cut)
    <3>1. PICK cut \in Ends : CrashInAppend(cut)
      BY <2>2, CutsAssumption DEF Ends
    <3>2. /\ CanBuild /\ file' = Write(file, closed, BuildEntry(entries), cut)
          /\ closed' = Closes(closed, cut) /\ hashes' = hashes + 1
      BY <3>1 DEF CrashInAppend, BuildEntry
    <3>3. /\ file' \in Seq(Lines) /\ (file' = << >> => closed')
          /\ Sound(Parsed(file'), hashes')
      BY <3>2, Filed
    <3>4. closed' \in BOOLEAN
      BY <3>2 DEF Closes, IInv, TypeOK, Ends
    <3>5. hashes \in Nat /\ hashes' \in 0 .. MaxHash
      BY <3>2, Typed DEF IInv, CanBuild
    <3> QED BY <3>2, <3>3, <3>4, <3>5
  <2> QED BY <2>1, <2>2
<1>3. entries' \in Seq(Entries) /\ Sound(entries', hashes')
  BY <1>1, <1>2, NothingIsSound
<1>4. TypeOK'
  <2>1. acked' \subseteq 1 .. hashes' /\ failures' \in 0 .. MaxFailures
    BY <1>1, <1>2, BoundsAssumption DEF IInv, TypeOK
  <2> QED BY <1>1, <1>2, <1>3, <2>1 DEF TypeOK, Lines
<1> QED BY <1>1, <1>2, <1>3, <1>4 DEF IInv, FileBehind

LEMMA LoadIInv ==
  ASSUME IInv, Load
  PROVE  IInv'
<1>1. /\ entries' = Parsed(file) /\ entries' # << >> /\ running' = TRUE
      /\ corrupted' = Len(file) - Len(Parsed(file))
      /\ UNCHANGED <<file, closed, hashes, acked, failures>>
  BY DEF Load, Dropped
<1>2. /\ Parsed(file) \in Seq(Entries) /\ hashes \in Nat /\ Sound(Parsed(file), hashes)
      /\ Len(Parsed(file)) <= Len(file) /\ Len(Parsed(file)) \in Nat /\ Len(file) \in Nat
  BY Typed DEF IInv
<1>3. TypeOK'
  <2>1. corrupted' \in Nat
    BY <1>1, <1>2
  <2> QED BY <1>1, <1>2, <2>1 DEF IInv, TypeOK
<1>4. FileBehind'
  <2>1. \A i \in 1 .. Len(Parsed(file)) : Parsed(file)[i].hash <= LastHash(Parsed(file))
    BY <1>2, SoundBounds
  <2>2. Parsed(file') = Parsed(file) /\ Len(Parsed(file)) <= Len(Parsed(file))
    BY <1>1, <1>2
  <2> QED BY <1>1, <2>1, <2>2 DEF FileBehind
<1> QED BY <1>1, <1>2, <1>3, <1>4 DEF IInv

\* A genesis entry, alone.
LEMMA GenesisEntry ==
  ASSUME IInv, hashes < MaxHash
  PROVE  LET e == BuildEntry(<< >>)
         IN  /\ e \in Entries /\ e.hash = hashes + 1
             /\ <<e>> \in Seq(Entries) /\ <<e>> \in Seq(Lines) /\ <<e>> # << >>
             /\ Sound(<<e>>, hashes + 1) /\ LastHash(<<e>>) = hashes + 1
             /\ Parsed(<<e>>) = <<e>> /\ Len(<<e>>) = 1
<1> DEFINE e == BuildEntry(<< >>)
<1>1. hashes \in Nat /\ MaxHash \in Nat
  BY Typed DEF IInv
<1>2. e = [seq |-> 0, prev |-> 0, hash |-> hashes + 1]
  BY DEF BuildEntry, LastHash, ZeroHash
<1>3. e \in Entries /\ e.hash = hashes + 1 /\ e.seq = 0 /\ e.prev = 0
  BY <1>1, <1>2 DEF Entries
<1> HIDE DEF e
<1>4. /\ << >> \in Seq(Entries) /\ << >> \in Seq(Lines) /\ e \in Lines
      /\ Append(<< >>, e) = <<e>>
  BY <1>3 DEF Lines
<1>5. Sound(Append(<< >>, e), hashes + 1)
  <2>1. Sound(<< >>, hashes) /\ Len(<< >>) = 0
    BY <1>1, NothingIsSound, EmptySeq
  <2>2. Len(<< >>) <= e.seq /\ e.seq <= hashes /\ e.prev <= hashes
    BY <1>1, <1>3, <2>1
  <2>3. \A i \in 1 .. Len(<< >>) : << >>[i].hash <= e.prev
    BY <2>1
  <2> QED BY <1>1, <1>3, <1>4, <2>1, <2>2, <2>3, SoundAppend
<1>6. Parsed(Append(<< >>, e)) = <<e>>
  BY <1>3, <1>4, ParsedAppend, ParsedOfNothing, GarbageAssumption DEF Keep, Parses
<1>7. LastHash(<<e>>) = hashes + 1
  BY <1>3 DEF LastHash, Last
<1> QED BY <1>3, <1>4, <1>5, <1>6, <1>7 DEF e

LEMMA GenesisIInv ==
  ASSUME IInv, Genesis
  PROVE  IInv'
<1> DEFINE e == BuildEntry(<< >>)
<1>1. /\ hashes < MaxHash /\ entries' = <<e>> /\ file' = <<e>> /\ hashes' = e.hash
      /\ acked' = acked \cup {e.hash} /\ corrupted' = Len(file)
      /\ closed' = TRUE /\ running' = TRUE /\ UNCHANGED failures
  <2>1. Len(file) \in Nat /\ Len(<< >>) = 0 /\ (Genesis => Parsed(file) = << >>)
    BY Typed DEF IInv, Genesis
  <2> QED BY <2>1 DEF Genesis, Dropped
<1>2. /\ e \in Entries /\ e.hash = hashes + 1
      /\ <<e>> \in Seq(Entries) /\ <<e>> \in Seq(Lines) /\ <<e>> # << >>
      /\ Sound(<<e>>, hashes + 1) /\ LastHash(<<e>>) = hashes + 1
      /\ Parsed(<<e>>) = <<e>> /\ Len(<<e>>) = 1
  BY <1>1, GenesisEntry
<1> HIDE DEF e
<1>3. hashes \in Nat /\ MaxHash \in Nat /\ Len(file) \in Nat
  BY Typed DEF IInv
<1>4. TypeOK'
  BY <1>1, <1>2, <1>3 DEF IInv, TypeOK, Lines
<1>5. FileBehind'
  <2>1. \A i \in 1 .. Len(<<e>>) : <<e>>[i].hash <= LastHash(<<e>>)
    BY <1>2, <1>3, SoundBounds
  <2>2. Parsed(file') = <<e>> /\ entries' = <<e>> /\ Len(<<e>>) <= Len(<<e>>)
    BY <1>1, <1>2
  <2> QED BY <2>1, <2>2 DEF FileBehind
<1> QED BY <1>1, <1>2, <1>4, <1>5 DEF IInv

\* The file after a genesis line that was cut short is empty, one broken line or
\* the entry.
LEMMA GenesisCut ==
  ASSUME IInv, NEW cut \in GenesisCuts \cup {"all"}, CrashInGenesis(cut)
  PROVE  /\ ~running /\ Parsed(file) = << >> /\ hashes < MaxHash
         /\ hashes' = hashes + 1 /\ cut \in Ends
         /\ closed' \in BOOLEAN /\ (closed' <=> cut \in {"all", "nothing"})
         /\ \/ cut = "nothing" /\ file' = << >> /\ Parsed(file') = << >>
            \/ cut = "part" /\ file' = <<Garbage>> /\ Parsed(file') = << >>
            \/ /\ cut \in {"all", "unended"}
               /\ file' = <<BuildEntry(<< >>)>> /\ Parsed(file') = file'
<1> DEFINE e == BuildEntry(<< >>)
<1>1. /\ ~running /\ Parsed(file) = << >> /\ hashes < MaxHash /\ cut \in Ends
      /\ file' = Write(<< >>, TRUE, e, cut) /\ hashes' = e.hash
      /\ closed' = Closes(TRUE, cut)
  BY CutsAssumption DEF CrashInGenesis, Ends
<1>2. e.hash = hashes + 1 /\ <<e>> \in Seq(Entries) /\ Parsed(<<e>>) = <<e>>
  BY <1>1, GenesisEntry
<1> HIDE DEF e
<1>3. closed' \in BOOLEAN /\ (closed' <=> cut \in {"all", "nothing"})
  BY <1>1 DEF Closes, Ends
<1>4. CASE cut = "nothing"
  BY <1>1, <1>2, <1>3, <1>4, ParsedOfNothing DEF Write
<1>5. CASE cut = "part"
  <2>1. file' = Append(<< >>, Garbage) /\ Append(<< >>, Garbage) = <<Garbage>>
    BY <1>1, <1>5 DEF Write
  <2>2. Parsed(Append(<< >>, Garbage)) = << >>
    <3>1. << >> \in Seq(Lines) /\ Garbage \in Lines
      BY DEF Lines
    <3> QED BY <3>1, ParsedAppend, ParsedOfNothing DEF Keep, Parses
  <2> QED BY <1>1, <1>2, <1>3, <1>5, <2>1, <2>2
<1>6. CASE cut \in {"all", "unended"}
  <2>1. file' = Append(<< >>, e) /\ Append(<< >>, e) = <<e>>
    BY <1>1, <1>6 DEF Write
  <2> QED BY <1>1, <1>2, <1>3, <1>6, <2>1 DEF e
<1> QED BY <1>1, <1>4, <1>5, <1>6 DEF Ends

LEMMA CrashInGenesisIInv ==
  ASSUME IInv, NEW cut \in GenesisCuts \cup {"all"}, CrashInGenesis(cut)
  PROVE  IInv'
<1>1. /\ ~running /\ hashes < MaxHash /\ hashes' = hashes + 1
      /\ closed' \in BOOLEAN /\ (closed' <=> cut \in {"all", "nothing"})
      /\ UNCHANGED <<entries, corrupted, running, acked>>
      /\ failures < MaxFailures /\ failures' = failures + 1
  BY GenesisCut DEF CrashInGenesis
<1>2. /\ file' \in Seq(Lines) /\ (file' = << >> => closed')
      /\ Sound(Parsed(file'), hashes + 1)
  <2>1. CASE cut = "nothing" /\ file' = << >> /\ Parsed(file') = << >>
    <3>1. hashes + 1 \in Nat /\ << >> \in Seq(Lines)
      BY Typed, EmptySeq DEF IInv
    <3> QED BY <1>1, <2>1, <3>1, NothingIsSound
  <2>2. CASE cut = "part" /\ file' = <<Garbage>> /\ Parsed(file') = << >>
    BY <1>1, <2>2, NothingIsSound, Typed DEF IInv, Lines
  <2>3. CASE file' = <<BuildEntry(<< >>)>> /\ Parsed(file') = file'
    BY <1>1, <2>3, GenesisEntry
  <2> QED BY <2>1, <2>2, <2>3, GenesisCut
<1>3. /\ hashes \in Nat /\ MaxHash \in Nat /\ entries \in Seq(Entries)
      /\ Sound(entries, hashes')
  BY <1>1, Typed, SoundLater DEF IInv
<1>4. TypeOK'
  BY <1>1, <1>2, <1>3, Typed DEF IInv, TypeOK, Lines
<1> QED BY <1>1, <1>2, <1>3, <1>4 DEF IInv, FileBehind

LEMMA NextIInv ==
  ASSUME IInv, [Next]_vars
  PROVE  IInv'
<1>1. CASE UNCHANGED vars
  BY <1>1 DEF vars, IInv, TypeOK, FileBehind
<1>2. CASE DoAppend \/ \E cut \in Cuts : AppendThrows(cut)
  BY <1>2, AppendIInv
<1>3. CASE Crash \/ \E cut \in Cuts \cup {"all"} : CrashInAppend(cut)
  BY <1>3, CrashIInv
<1>4. CASE Load \/ Genesis
  BY <1>4, LoadIInv, GenesisIInv
<1>5. CASE \E cut \in GenesisCuts \cup {"all"} : CrashInGenesis(cut)
  BY <1>5, CrashInGenesisIInv
<1> QED BY <1>1, <1>2, <1>3, <1>4, <1>5 DEF Next

--------------------------------------------------------------------------------
(* What the chain says *)

\* A sound chain is in the order in which its entries were built, and no two of
\* its entries continue the same one.
LEMMA SoundIsNoFork ==
  ASSUME NEW es \in Seq(Entries), NEW h \in Nat, Sound(es, h),
         NEW i \in 1 .. Len(es), NEW j \in 1 .. Len(es), i < j
  PROVE  es[i].hash < es[j].hash /\ es[i].prev < es[j].prev
<1>1. es[i].hash <= es[j].prev /\ es[i].prev < es[i].hash /\ es[j].prev < es[j].hash
  BY DEF Sound, WellBuilt, InOrder
<1>2. es[i] \in Entries /\ es[j] \in Entries
  BY ElementOfSeq
<1>3. es[i].hash \in Nat /\ es[i].prev \in Nat /\ es[j].hash \in Nat /\ es[j].prev \in Nat
  BY <1>2, EntryFields
<1> QED BY <1>1, <1>3

\* In a sound chain that holds every entry built, the entries are numbered by
\* their hashes.
LEMMA FullChain ==
  ASSUME NEW es \in Seq(Entries), NEW h \in Nat, Sound(es, h), HashesIn(es) = 1 .. h
  PROVE  \A i \in 1 .. Len(es) : es[i].hash = i
<1>1. Len(es) \in Nat /\ Len(es) <= h
  BY SoundBounds
<1>2. \A i \in 1 .. Len(es) :
        /\ es[i].seq \in Nat /\ es[i].prev \in Nat /\ es[i].hash \in Nat
        /\ i - 1 <= es[i].seq /\ es[i].seq < es[i].hash
  BY EntryFields, ElementOfSeq DEF Sound, WellBuilt
<1>3. \A i \in 1 .. Len(es) : i <= es[i].hash
  BY <1>1, <1>2
<1> DEFINE S == {n \in Nat : \A k \in 1 .. Len(es) : k <= n => es[k].hash = k}
<1>4. 0 \in S
  BY <1>1
<1>5. ASSUME NEW n \in Nat, n \in S
      PROVE  n + 1 \in S
  <2>1. SUFFICES ASSUME n + 1 \in 1 .. Len(es)
                 PROVE  es[n + 1].hash = n + 1
    BY <1>1, <1>5
  <2>2. n + 1 \in HashesIn(es)
    BY <1>1, <2>1
  <2>3. PICK j \in 1 .. Len(es) : es[j].hash = n + 1
    BY <2>2, LenProperties DEF HashesIn
  <2>4. j <= n + 1
    BY <1>3, <2>3
  <2>5. ~(j <= n)
    BY <1>5, <2>3
  <2> QED BY <1>1, <2>3, <2>4, <2>5
<1>6. Nat \subseteq S
  <2> HIDE DEF S
  <2> QED BY <1>4, <1>5, NatSetInduction
<1> QED BY <1>1, <1>6

\* It verifies.
LEMMA FullChainOk ==
  ASSUME NEW es \in Seq(Entries), NEW h \in Nat, Sound(es, h), HashesIn(es) = 1 .. h
  PROVE  ChainOk(es)
<1> SUFFICES ASSUME NEW i \in 1 .. Len(es)
             PROVE  /\ es[i].seq = i - 1
                    /\ es[i].prev = IF i = 1 THEN ZeroHash ELSE es[i - 1].hash
  BY DEF ChainOk
<1>1. Len(es) \in Nat /\ es[i].hash = i
  BY FullChain
<1>2. es[i].seq \in Nat /\ es[i].prev \in Nat
  BY EntryFields, ElementOfSeq
<1>3. i - 1 <= es[i].seq /\ es[i].seq < i /\ es[i].prev < i
  BY <1>1 DEF Sound, WellBuilt
<1>4. es[i].seq = i - 1
  BY <1>2, <1>3
<1>5. CASE i = 1
  BY <1>2, <1>3, <1>4, <1>5 DEF ZeroHash
<1>6. CASE i # 1
  <2>1. i - 1 \in 1 .. Len(es) /\ i - 1 < i
    BY <1>1, <1>6
  <2>2. es[i - 1].hash = i - 1 /\ es[i - 1].hash <= es[i].prev
    BY <2>1, FullChain DEF Sound, InOrder
  <2> QED BY <1>2, <1>3, <1>4, <1>6, <2>2
<1> QED BY <1>5, <1>6

--------------------------------------------------------------------------------
(* Every line was built *)

\* No more lines in the file than entries were ever built, and none of the lines
\* dropped by the last load is in memory.
Counted ==
  /\ Len(file) <= hashes
  /\ running => Len(entries) + corrupted <= hashes

LEMMA WriteAddsALine ==
  ASSUME NEW lines \in Seq(Lines), NEW ended, NEW e \in Entries, NEW cut \in Ends,
         lines = << >> => ended
  PROVE  Len(Write(lines, ended, e, cut)) <= Len(lines) + 1
<1>1. e \in Lines /\ Garbage \in Lines /\ Len(lines) \in Nat
  BY DEF Lines
<1>2. CASE cut = "nothing"
  BY <1>1, <1>2 DEF Write
<1>3. CASE cut # "nothing" /\ ended
  <2>1. PICK line \in Lines : Write(lines, ended, e, cut) = Append(lines, line)
    BY <1>1, <1>3 DEF Write
  <2> QED BY <1>1, <2>1, AppendProperties
<1>4. CASE cut # "nothing" /\ ~ended
  <2>1. Write(lines, ended, e, cut) = ReplaceAt(lines, Len(lines), Garbage)
    BY <1>4 DEF Write
  <2> QED BY <1>1, <1>4, <2>1, ParsedGarbled
<1> QED BY <1>2, <1>3, <1>4

LEMMA NextCounted ==
  ASSUME IInv, Counted, [Next]_vars
  PROVE  Counted'
<1>1. /\ entries \in Seq(Entries) /\ file \in Seq(Lines) /\ (file = << >> => closed)
      /\ Len(entries) \in Nat /\ Len(file) \in Nat /\ Len(Parsed(file)) \in Nat
      /\ hashes \in Nat /\ corrupted \in Nat
  BY Typed DEF IInv, TypeOK
<1>2. CASE UNCHANGED vars
  BY <1>2 DEF vars, Counted
<1>3. CASE DoAppend \/ \E cut \in Cuts : AppendThrows(cut)
  <2>1. /\ CanBuild /\ Push(BuildEntry(entries)) /\ hashes' = hashes + 1
        /\ UNCHANGED <<corrupted, running>>
        /\ \E cut \in Ends : file' = Write(file, closed, BuildEntry(entries), cut)
    BY <1>3, CutsAssumption DEF DoAppend, AppendThrows, BuildEntry, CanBuild, Ends
  <2>2. BuildEntry(entries) \in Entries /\ Len(entries') = Len(entries) + 1
    BY <2>1, Built, Pushed DEF CanBuild
  <2>3. Len(file') <= Len(file) + 1 /\ Len(file') \in Nat
    <3>1. Len(file') <= Len(file) + 1
      BY <1>1, <2>1, <2>2, WriteAddsALine
    <3>2. IInv'
      BY <1>3, AppendIInv
    <3>3. TypeOK'
      BY <3>2 DEF IInv
    <3> QED BY <3>1, <3>3 DEF TypeOK
  <2> QED BY <1>1, <2>1, <2>2, <2>3 DEF Counted
<1>4. CASE Crash
  BY <1>1, <1>4 DEF Crash, Down, Counted
<1>5. CASE \E cut \in Cuts \cup {"all"} : CrashInAppend(cut)
  <2>1. /\ CanBuild /\ running' = FALSE /\ hashes' = hashes + 1
        /\ \E cut \in Ends : file' = Write(file, closed, BuildEntry(entries), cut)
    BY <1>5, CutsAssumption DEF CrashInAppend, Down, BuildEntry, CanBuild, Ends
  <2>2. BuildEntry(entries) \in Entries
    BY <2>1, Built DEF CanBuild
  <2>3. Len(file') <= Len(file) + 1 /\ Len(file') \in Nat
    <3>1. Len(file') <= Len(file) + 1
      BY <1>1, <2>1, <2>2, WriteAddsALine
    <3>2. IInv'
      BY <1>5, CrashIInv
    <3>3. TypeOK'
      BY <3>2 DEF IInv
    <3> QED BY <3>1, <3>3 DEF TypeOK
  <2> QED BY <1>1, <2>1, <2>3 DEF Counted
<1>6. CASE Load
  BY <1>1, <1>6 DEF Load, Dropped, Counted
<1>7. CASE Genesis
  <2>1. BuildEntry(<< >>).hash = hashes + 1 /\ Len(<<BuildEntry(<< >>)>>) = 1 /\ Len(<< >>) = 0
    BY DEF BuildEntry
  <2>2. /\ hashes' = hashes + 1 /\ Len(file') = 1 /\ Len(entries') = 1
        /\ corrupted' = Len(file)
    <3>1. corrupted' = Len(file) - 0
      BY <1>7, <2>1 DEF Genesis, Dropped
    <3> QED BY <1>1, <1>7, <2>1, <3>1 DEF Genesis
  <2> QED BY <1>1, <2>2 DEF Counted
<1>8. CASE \E cut \in GenesisCuts \cup {"all"} : CrashInGenesis(cut)
  <2>1. PICK cut \in GenesisCuts \cup {"all"} : CrashInGenesis(cut)
    BY <1>8
  <2>2. /\ cut \in Ends /\ hashes < MaxHash
        /\ file' = Write(<< >>, TRUE, BuildEntry(<< >>), cut)
    BY <2>1, CutsAssumption DEF CrashInGenesis, Ends
  <2>3. /\ BuildEntry(<< >>) \in Entries /\ BuildEntry(<< >>).hash = hashes + 1
        /\ << >> \in Seq(Lines) /\ Len(<< >>) = 0
    BY <2>2, GenesisEntry
  <2>4. hashes' = hashes + 1 /\ ~running /\ running' = running
    BY <2>1, <2>3 DEF CrashInGenesis
  <2>5. Len(file') <= 0 + 1
    BY <2>2, <2>3, WriteAddsALine
  <2>6. IInv'
    BY <1>8, CrashInGenesisIInv
  <2>7. Len(file') \in Nat
    BY <2>6 DEF IInv, TypeOK
  <2>8. Len(file') <= hashes'
    BY <1>1, <2>4, <2>5, <2>7
  <2> QED BY <2>4, <2>8 DEF Counted
<1> QED BY <1>2, <1>3, <1>4, <1>5, <1>6, <1>7, <1>8 DEF Next

\* A sound chain that holds every entry built has as many.
LEMMA FullChainLen ==
  ASSUME NEW es \in Seq(Entries), NEW h \in Nat, Sound(es, h), HashesIn(es) = 1 .. h
  PROVE  Len(es) \in Nat /\ h <= Len(es)
<1>1. Len(es) \in Nat
  OBVIOUS
<1>2. SUFFICES ASSUME h # 0
               PROVE  h <= Len(es)
  BY <1>1
<1>3. h \in HashesIn(es)
  BY <1>2
<1>4. PICK j \in 1 .. Len(es) : es[j].hash = h
  BY <1>3, LenProperties DEF HashesIn
<1>5. es[j].hash = j
  BY FullChain
<1> QED BY <1>1, <1>4, <1>5

--------------------------------------------------------------------------------
(* The file is an append-only log *)

Appending == DoAppend \/ \E cut \in Cuts : AppendThrows(cut)

CrashingInAppend == \E cut \in Cuts \cup {"all"} : CrashInAppend(cut)

\* What an append does to the file, whether it returns, throws or dies.
LEMMA Wrote ==
  ASSUME IInv, Appending \/ CrashingInAppend
  PROVE  /\ CanBuild /\ BuildEntry(entries) \in Entries
         /\ \E cut \in Ends :
              /\ closed' = Closes(closed, cut)
              /\ DoAppend => cut = "all"
              /\ \/ Stays(file, closed, file', cut)
                 \/ Extends(file, closed, file', BuildEntry(entries), cut)
                 \/ Takes(file, closed, file', cut)
<1>1. /\ CanBuild
      /\ \E cut \in Ends :
           /\ closed' = Closes(closed, cut)
           /\ DoAppend => cut = "all"
           /\ file' = Write(file, closed, BuildEntry(entries), cut)
  <2>1. CASE DoAppend
    BY <2>1 DEF DoAppend, Ends
  <2>2. CASE ~DoAppend
    BY <2>2, CutsAssumption DEF Appending, CrashingInAppend, AppendThrows, CrashInAppend, Ends
  <2> QED BY <2>1, <2>2
<1>2. BuildEntry(entries) \in Entries
  BY <1>1, Built DEF CanBuild
<1>3. file \in Seq(Lines) /\ closed \in BOOLEAN /\ (file = << >> => closed)
  BY Typed DEF IInv, TypeOK
<1>4. PICK cut \in Ends :
        /\ closed' = Closes(closed, cut)
        /\ DoAppend => cut = "all"
        /\ file' = Write(file, closed, BuildEntry(entries), cut)
  BY <1>1
<1>5. \/ Stays(file, closed, file', cut)
      \/ Extends(file, closed, file', BuildEntry(entries), cut)
      \/ Takes(file, closed, file', cut)
  BY <1>2, <1>3, <1>4, WriteEffect
<1> QED BY <1>1, <1>2, <1>4, <1>5

LEMMA UnendedHere ==
  /\ Unended <=> UnendedIn(file, closed)
  /\ Unended' <=> UnendedIn(file', closed')
BY DEF Unended, UnendedIn

\* A file whose last line parses is not without entries.
LEMMA UnendedHasEntry ==
  ASSUME IInv, Unended
  PROVE  Parsed(file) # << >>
<1>1. file \in Seq(Lines) /\ file # << >> /\ Parses(Last(file))
  BY Typed DEF IInv, Unended
<1> QED BY <1>1, ParsedGarbled

LEMMA AppendRefines ==
  ASSUME IInv, Appending \/ CrashingInAppend
  PROVE  [Log!Extend \/ Log!TakeUnended]_(Log!vars)
<1>1. BuildEntry(entries) \in Entries
  BY Wrote
<1>2. PICK cut \in Ends :
        /\ closed' = Closes(closed, cut)
        /\ \/ Stays(file, closed, file', cut)
           \/ Extends(file, closed, file', BuildEntry(entries), cut)
           \/ Takes(file, closed, file', cut)
  BY Wrote
<1>3. CASE Stays(file, closed, file', cut)
  <2>1. Parsed(file') = Parsed(file)
    BY <1>3 DEF Stays
  <2>2. Unended' <=> Unended
    BY <1>2, <1>3, UnendedHere DEF Stays
  <2> QED BY <2>1, <2>2, Zenon DEF Log!vars
<1>4. CASE Extends(file, closed, file', BuildEntry(entries), cut)
  <2>1. Parsed(file') = Append(Parsed(file), BuildEntry(entries))
    BY <1>4 DEF Extends
  <2>2. ~Unended
    BY <1>4 DEF Extends, Unended
  <2>3. (~Unended)' \in BOOLEAN
    BY Zenon
  <2> QED BY <1>1, <2>1, <2>2, <2>3, Zenon DEF Log!Extend
<1>5. CASE Takes(file, closed, file', cut)
  <2>1. Parsed(file') = Front(Parsed(file))
    BY <1>5 DEF Takes
  <2>2. Unended /\ ~Unended'
    BY <1>2, <1>5, UnendedHere DEF Takes
  <2>3. Log!Front(Parsed(file)) = Front(Parsed(file))
    BY DEF Log!Front, Front
  <2>4. (~Unended)' = TRUE
    BY <2>2, Zenon
  <2> QED BY <2>1, <2>2, <2>3, <2>4, Zenon DEF Log!TakeUnended
<1> QED BY <1>2, <1>3, <1>4, <1>5

LEMMA GenesisRefines ==
  ASSUME IInv, Genesis \/ \E cut \in GenesisCuts \cup {"all"} : CrashInGenesis(cut)
  PROVE  [Log!Extend \/ Log!TakeUnended]_(Log!vars)
<1> DEFINE e == BuildEntry(<< >>)
<1>1. Parsed(file) = << >> /\ hashes < MaxHash /\ ~Unended
  BY UnendedHasEntry DEF Genesis, CrashInGenesis
<1>2. e \in Entries /\ Parsed(<<e>>) = <<e>>
  BY <1>1, GenesisEntry
<1> HIDE DEF e
<1>3. CASE Parsed(file') = <<e>>
  <2>1. Parsed(file') = Append(Parsed(file), e)
    BY <1>1, <1>3
  <2>2. (~Unended)' \in BOOLEAN
    BY Zenon
  <2> QED BY <1>1, <1>2, <2>1, <2>2, Zenon DEF Log!Extend
<1>4. CASE Parsed(file') = << >> /\ ~Unended'
  BY <1>1, <1>4, Zenon DEF Log!vars
<1>5. CASE Genesis
  <2>1. file' = <<e>>
    BY <1>5 DEF Genesis, e
  <2> QED BY <1>2, <1>3, <2>1
<1>6. CASE \E cut \in GenesisCuts \cup {"all"} : CrashInGenesis(cut)
  <2>1. PICK cut \in GenesisCuts \cup {"all"} : CrashInGenesis(cut)
    BY <1>6
  <2>2. \/ file' = << >> /\ Parsed(file') = << >>
        \/ file' = <<Garbage>> /\ Parsed(file') = << >>
        \/ file' = <<e>>
    BY <2>1, GenesisCut DEF e
  <2>3. CASE file' = << >> /\ Parsed(file') = << >>
    BY <1>4, <2>3, UnendedHere DEF UnendedIn
  <2>4. CASE file' = <<Garbage>> /\ Parsed(file') = << >>
    <3>1. Last(file') = Garbage
      BY <2>4 DEF Last
    <3>2. ~Unended'
      BY <3>1, UnendedHere DEF UnendedIn, Parses
    <3> QED BY <1>4, <2>4, <3>2
  <2> QED BY <1>2, <1>3, <2>2, <2>3, <2>4
<1> QED BY <1>5, <1>6

LEMMA NextRefines ==
  ASSUME IInv, [Next]_vars
  PROVE  [Log!Extend \/ Log!TakeUnended]_(Log!vars)
<1>1. CASE UNCHANGED vars \/ Load \/ Crash
  <2>1. file' = file /\ closed' = closed
    BY <1>1 DEF vars, Load, Crash
  <2> QED BY <2>1 DEF Log!vars, Unended
<1>2. CASE Appending \/ CrashingInAppend
  BY <1>2, AppendRefines
<1>3. CASE Genesis \/ \E cut \in GenesisCuts \cup {"all"} : CrashInGenesis(cut)
  BY <1>3, GenesisRefines
<1> QED BY <1>1, <1>2, <1>3 DEF Next, Appending, CrashingInAppend

--------------------------------------------------------------------------------
(* No loss is silent *)

\* What the file holds, when no genesis line is left without its newline: the
\* entries that would be loaded never go to nothing, and whatever append
\* returned is among them or some line is broken.
Kept ==
  /\ Parsed(file) # << >> => Len(Parsed(file)) > 1 \/ ~Unended
  /\ running \/ acked # {} => Parsed(file) # << >>
  /\ Torn(file) \/ acked \subseteq HashesIn(Parsed(file))

Remembered == running /\ corrupted = 0 => acked \subseteq HashesIn(entries)

LEMMA HashesOfAppend ==
  ASSUME NEW es \in Seq(Entries), NEW e \in Entries
  PROVE  HashesIn(Append(es, e)) = HashesIn(es) \cup {e.hash}
<1> DEFINE more == Append(es, e)
<1>1. /\ more \in Seq(Entries) /\ Len(more) = Len(es) + 1 /\ Len(es) \in Nat
      /\ \A i \in 1 .. Len(es) : more[i] = es[i]
      /\ more[Len(es) + 1] = e
      /\ DOMAIN more = 1 .. Len(more) /\ DOMAIN es = 1 .. Len(es)
  BY AppendProperties, LenProperties
<1> HIDE DEF more
<1>2. \A i \in 1 .. Len(more) : i \in 1 .. Len(es) \/ i = Len(es) + 1
  BY <1>1
<1>3. /\ \A i \in 1 .. Len(es) : i \in 1 .. Len(more)
      /\ Len(es) + 1 \in 1 .. Len(more)
  BY <1>1
<1>4. HashesIn(more) \subseteq HashesIn(es) \cup {e.hash}
  BY <1>1, <1>2 DEF HashesIn
<1>5. HashesIn(es) \cup {e.hash} \subseteq HashesIn(more)
  BY <1>1, <1>3 DEF HashesIn
<1> QED BY <1>4, <1>5 DEF more

LEMMA InitKept ==
  ASSUME Init
  PROVE  Kept /\ Remembered
BY ParsedOfNothing DEF Init, Kept, Remembered

\* A write keeps what it must, whatever becomes of the process.
LEMMA AppendKept ==
  ASSUME IInv, Kept, Appending \/ CrashingInAppend
  PROVE  Kept'
<1> DEFINE e == BuildEntry(entries)
<1>1. e \in Entries /\ e.hash = hashes + 1 /\ running
  BY Wrote DEF BuildEntry, CanBuild
<1>2. PICK cut \in Ends :
        /\ closed' = Closes(closed, cut)
        /\ DoAppend => cut = "all"
        /\ \/ Stays(file, closed, file', cut)
           \/ Extends(file, closed, file', e, cut)
           \/ Takes(file, closed, file', cut)
  BY Wrote
<1>3. IF DoAppend THEN acked' = acked \cup {e.hash} ELSE acked' = acked
  BY DEF Appending, CrashingInAppend, DoAppend, AppendThrows, CrashInAppend
<1>4. /\ Parsed(file) \in Seq(Entries) /\ Parsed(file) # << >>
      /\ Len(Parsed(file)) \in Nat /\ Len(file) \in Nat /\ Len(Parsed(file)) > 0
      /\ file \in Seq(Lines)
  <2>1. Parsed(file) # << >>
    BY <1>1 DEF Kept
  <2> QED BY <2>1, Typed DEF IInv
<1> HIDE DEF e
<1>5. CASE Stays(file, closed, file', cut)
  <2>1. Parsed(file') = Parsed(file) /\ (Unended' <=> Unended)
    BY <1>2, <1>5, UnendedHere DEF Stays
  <2>2. Torn(file) \/ DoAppend => Torn(file')
    BY <1>2, <1>5 DEF Stays
  <2> QED BY <1>3, <1>4, <2>1, <2>2 DEF Kept
<1>6. CASE Extends(file, closed, file', e, cut)
  <2>1. Parsed(file') = Append(Parsed(file), e) /\ Len(file') = Len(file) + 1
    BY <1>6 DEF Extends
  <2>2. Parsed(file') \in Seq(Entries) /\ Len(Parsed(file')) = Len(Parsed(file)) + 1
    BY <1>1, <1>4, <2>1, AppendProperties
  <2>3. Torn(file) => Torn(file')
    BY <1>4, <2>1, <2>2 DEF Torn
  <2>4. HashesIn(Parsed(file')) = HashesIn(Parsed(file)) \cup {e.hash}
    BY <1>1, <1>4, <2>1, HashesOfAppend
  <2>5. Len(Parsed(file')) > 1 /\ Parsed(file') # << >>
    BY <1>4, <2>2
  <2> QED BY <1>3, <2>3, <2>4, <2>5 DEF Kept
<1>7. CASE Takes(file, closed, file', cut)
  <2>1. /\ Parsed(file') = Front(Parsed(file)) /\ Torn(file')
        /\ Unended /\ ~Unended'
    BY <1>2, <1>7, UnendedHere DEF Takes
  <2>2. Len(Parsed(file)) > 1
    BY <1>4, <2>1 DEF Kept
  <2>3. Parsed(file') \in Seq(Entries) /\ Len(Parsed(file')) = Len(Parsed(file)) - 1
    BY <1>4, <2>1, FrontAndLast
  <2>4. Parsed(file') # << >>
    BY <1>4, <2>2, <2>3
  <2> QED BY <2>1, <2>4 DEF Kept
<1> QED BY <1>2, <1>5, <1>6, <1>7

LEMMA AppendRemembered ==
  ASSUME IInv, Remembered, Appending
  PROVE  Remembered'
<1> DEFINE e == BuildEntry(entries)
<1>1. e \in Entries /\ running /\ entries \in Seq(Entries)
  BY Wrote, Typed DEF IInv, CanBuild
<1>2. /\ entries' = Append(entries, e) /\ acked' \subseteq acked \cup {e.hash}
      /\ corrupted' = corrupted
  BY DEF Appending, DoAppend, AppendThrows, Push
<1> HIDE DEF e
<1>3. HashesIn(entries') = HashesIn(entries) \cup {e.hash}
  BY <1>1, <1>2, HashesOfAppend
<1> QED BY <1>1, <1>2, <1>3 DEF Remembered

LEMMA LoadKept ==
  ASSUME IInv, Kept, Load
  PROVE  Kept' /\ Remembered'
<1>1. /\ entries' = Parsed(file) /\ Parsed(file) # << >>
      /\ corrupted' = Len(file) - Len(Parsed(file))
      /\ UNCHANGED <<file, closed, acked>>
  BY DEF Load, Dropped
<1>2. Len(Parsed(file)) \in Nat /\ Len(file) \in Nat
  BY Typed DEF IInv
<1>3. corrupted' = 0 => ~Torn(file)
  BY <1>1, <1>2 DEF Torn
<1>4. Unended' <=> Unended
  BY <1>1 DEF Unended
<1> QED BY <1>1, <1>3, <1>4 DEF Kept, Remembered, Torn

LEMMA GenesisKept ==
  ASSUME IInv, Kept, Genesis
  PROVE  Kept' /\ Remembered'
<1> DEFINE e == BuildEntry(<< >>)
<1>1. /\ hashes < MaxHash /\ Parsed(file) = << >> /\ entries' = <<e>> /\ file' = <<e>>
      /\ acked' = acked \cup {e.hash} /\ closed' = TRUE
  BY DEF Genesis
<1>2. e \in Entries /\ <<e>> # << >> /\ Parsed(<<e>>) = <<e>>
  BY <1>1, GenesisEntry
<1> HIDE DEF e
<1>3. acked' = {e.hash}
  BY <1>1 DEF Kept
<1>4. e.hash \in HashesIn(<<e>>)
  BY DEF HashesIn
<1>5. ~Unended'
  BY <1>1 DEF Unended
<1> QED BY <1>1, <1>2, <1>3, <1>4, <1>5 DEF Kept, Remembered

\* A genesis line that was cut short had nothing before it.
LEMMA GenesisCutKept ==
  ASSUME IInv, Kept, NEW cut \in {"all", "part", "nothing"}, cut \in GenesisCuts \cup {"all"},
         CrashInGenesis(cut)
  PROVE  Kept' /\ Remembered'
<1>1. /\ ~running /\ Parsed(file) = << >> /\ acked = {} /\ acked' = {} /\ ~running'
      /\ closed' <=> cut \in {"all", "nothing"}
      /\ \/ cut = "all" \/ Parsed(file') = << >>
  BY GenesisCut DEF CrashInGenesis, Kept
<1>2. Unended' => Parsed(file') = << >>
  BY <1>1 DEF Unended
<1> QED BY <1>1, <1>2 DEF Kept, Remembered

LEMMA NextKept ==
  ASSUME "unended" \notin GenesisCuts, IInv, Kept, Remembered, [Next]_vars
  PROVE  Kept' /\ Remembered'
<1>1. CASE UNCHANGED vars
  BY <1>1 DEF vars, Kept, Remembered, Unended, Torn
<1>2. CASE Crash
  <2>1. UNCHANGED <<file, closed, acked>> /\ running /\ ~running'
    BY <1>2 DEF Crash, Down
  <2> QED BY <2>1 DEF Kept, Remembered, Unended, Torn
<1>3. CASE Appending
  BY <1>3, AppendKept, AppendRemembered
<1>4. CASE CrashingInAppend
  <2>1. ~running'
    BY <1>4 DEF CrashingInAppend, CrashInAppend, Down
  <2> QED BY <1>4, <2>1, AppendKept DEF Remembered
<1>5. CASE Load \/ Genesis
  BY <1>5, LoadKept, GenesisKept
<1>6. CASE \E cut \in GenesisCuts \cup {"all"} : CrashInGenesis(cut)
  BY <1>6, GenesisCutKept, CutsAssumption
<1> QED BY <1>1, <1>2, <1>3, <1>4, <1>5, <1>6 DEF Next, Appending, CrashingInAppend

--------------------------------------------------------------------------------
(* What was acknowledged stays in the file *)

\* The entry whose newline is missing is one whose append did not return.
UnendedNotAcked == Unended => LastHash(Parsed(file)) \notin acked

\* A step takes no hash of acked from the file.
Keeping == acked \cap HashesIn(Parsed(file)) \subseteq HashesIn(Parsed(file'))

\* One hash more than before, if any, and only by an append that returned.
LEMMA AckedOnce ==
  ASSUME IInv, Appending \/ CrashingInAppend
  PROVE  /\ hashes \in Nat /\ acked \subseteq 1 .. hashes
         /\ acked' \subseteq acked \cup {hashes + 1}
         /\ ~DoAppend => acked' = acked
BY Typed
   DEF IInv, TypeOK, Appending, CrashingInAppend, DoAppend, AppendThrows, CrashInAppend,
       BuildEntry

LEMMA AppendKeeps ==
  ASSUME IInv, UnendedNotAcked, Appending \/ CrashingInAppend
  PROVE  UnendedNotAcked' /\ Keeping
<1> DEFINE e == BuildEntry(entries)
<1>1. e \in Entries /\ e.hash = hashes + 1
  BY Wrote DEF BuildEntry
<1>2. PICK cut \in Ends :
        /\ closed' = Closes(closed, cut)
        /\ DoAppend => cut = "all"
        /\ \/ Stays(file, closed, file', cut)
           \/ Extends(file, closed, file', e, cut)
           \/ Takes(file, closed, file', cut)
  BY Wrote
<1>3. /\ hashes \in Nat /\ acked \subseteq 1 .. hashes
      /\ acked' \subseteq acked \cup {hashes + 1}
      /\ ~DoAppend => acked' = acked
  BY AckedOnce
<1>4. /\ Parsed(file) \in Seq(Entries) /\ LastHash(Parsed(file)) \in 0 .. hashes
  BY Typed, SoundBounds DEF IInv
<1> HIDE DEF e
<1>5. CASE Stays(file, closed, file', cut)
  <2>1. Parsed(file') = Parsed(file) /\ (Unended' <=> Unended)
    BY <1>2, <1>5, UnendedHere DEF Stays
  <2>2. LastHash(Parsed(file)) # hashes + 1
    BY <1>3, <1>4
  <2>3. UnendedNotAcked'
    BY <1>3, <2>1, <2>2 DEF UnendedNotAcked
  <2> QED BY <2>1, <2>3 DEF Keeping
<1>6. CASE Extends(file, closed, file', e, cut)
  <2>1. Parsed(file') = Append(Parsed(file), e) /\ (Unended' <=> cut = "unended")
    BY <1>2, <1>6, UnendedHere DEF Extends
  <2>2. HashesIn(Parsed(file')) = HashesIn(Parsed(file)) \cup {e.hash}
    BY <1>1, <1>4, <2>1, HashesOfAppend
  <2>3. LastHash(Parsed(file')) = hashes + 1
    <3>1. Parsed(file') # << >> /\ Last(Parsed(file')) = e
      BY <1>1, <1>4, <2>1, AppendProperties, FrontOfAppend
    <3> QED BY <1>1, <3>1 DEF LastHash
  <2>4. hashes + 1 \notin acked
    BY <1>3
  <2>5. UnendedNotAcked'
    BY <1>2, <1>3, <2>1, <2>3, <2>4 DEF UnendedNotAcked
  <2> QED BY <2>2, <2>5 DEF Keeping
<1>7. CASE Takes(file, closed, file', cut)
  <2>1. /\ Parsed(file) # << >> /\ Parsed(file') = Front(Parsed(file))
        /\ Unended /\ ~Unended'
    BY <1>2, <1>7, UnendedHere DEF Takes
  <2>2. /\ Parsed(file') \in Seq(Entries) /\ Last(Parsed(file)) \in Entries
        /\ Parsed(file) = Append(Parsed(file'), Last(Parsed(file)))
    BY <1>4, <2>1, FrontAndLast
  <2>3. HashesIn(Parsed(file)) = HashesIn(Parsed(file')) \cup {LastHash(Parsed(file))}
    <3>1. HashesIn(Append(Parsed(file'), Last(Parsed(file))))
            = HashesIn(Parsed(file')) \cup {Last(Parsed(file)).hash}
      BY <2>2, HashesOfAppend
    <3>2. LastHash(Parsed(file)) = Last(Parsed(file)).hash
      BY <2>1 DEF LastHash
    <3> QED BY <2>2, <3>1, <3>2
  <2>4. LastHash(Parsed(file)) \notin acked
    BY <2>1 DEF UnendedNotAcked
  <2> QED BY <2>1, <2>3, <2>4 DEF UnendedNotAcked, Keeping
<1> QED BY <1>2, <1>5, <1>6, <1>7

LEMMA GenesisKeeps ==
  ASSUME IInv, Genesis \/ \E cut \in GenesisCuts \cup {"all"} : CrashInGenesis(cut)
  PROVE  UnendedNotAcked' /\ Keeping
<1>1. Parsed(file) = << >>
  BY DEF Genesis, CrashInGenesis
<1>2. Keeping
  BY <1>1 DEF Keeping, HashesIn
<1>3. CASE Genesis
  BY <1>2, <1>3 DEF Genesis, UnendedNotAcked, Unended
<1>4. CASE \E cut \in GenesisCuts \cup {"all"} : CrashInGenesis(cut)
  <2>1. PICK cut \in GenesisCuts \cup {"all"} : CrashInGenesis(cut)
    BY <1>4
  <2>2. /\ acked' = acked /\ hashes \in Nat /\ acked \subseteq 1 .. hashes
        /\ hashes < MaxHash
    BY <2>1, Typed DEF CrashInGenesis, IInv, TypeOK
  <2>3. LastHash(Parsed(file')) \in {0, hashes + 1}
    <3>1. \/ Parsed(file') = << >>
          \/ Parsed(file') = <<BuildEntry(<< >>)>>
      BY <2>1, GenesisCut
    <3> QED BY <2>2, <3>1, NothingIsSound, GenesisEntry
  <2> QED BY <1>2, <2>2, <2>3 DEF UnendedNotAcked
<1> QED BY <1>3, <1>4

LEMMA NextKeeps ==
  ASSUME IInv, UnendedNotAcked, [Next]_vars
  PROVE  UnendedNotAcked' /\ Keeping
<1>1. CASE UNCHANGED vars \/ Load \/ Crash
  <2>1. file' = file /\ closed' = closed /\ acked' = acked
    BY <1>1 DEF vars, Load, Crash
  <2> QED BY <2>1 DEF UnendedNotAcked, Unended, Keeping
<1>2. CASE Appending \/ CrashingInAppend
  BY <1>2, AppendKeeps
<1>3. CASE Genesis \/ \E cut \in GenesisCuts \cup {"all"} : CrashInGenesis(cut)
  BY <1>3, GenesisKeeps
<1> QED BY <1>1, <1>2, <1>3 DEF Next, Appending, CrashingInAppend

--------------------------------------------------------------------------------
(* Theorems *)

\* The inductive invariant: in memory and in the file every entry was built after
\* those before it, and the file is never ahead of memory.
THEOREM Invariance == Spec => []IInv
<1>1. Init => IInv
  BY InitIInv
<1>2. IInv /\ [Next]_vars => IInv'
  BY NextIInv
<1> QED BY <1>1, <1>2, PTL DEF Spec

\* The ledger's state always has its types; a world that is up has its genesis
\* entry in memory.
THEOREM TypeCorrect == Spec => []TypeOK
<1>1. IInv => TypeOK
  BY DEF IInv
<1> QED BY <1>1, Invariance, PTL

\* Wherever writes are cut short and however often the world restarts, neither
\* memory nor the file ever holds a fork.
THEOREM NoForkHolds == Spec => []NoFork
<1>1. IInv => NoFork
  <2> SUFFICES ASSUME IInv, NEW es \in {entries, Parsed(file)},
                      NEW i \in 1 .. Len(es), NEW j \in 1 .. Len(es), i < j
               PROVE  es[i].hash < es[j].hash /\ es[i].prev < es[j].prev
    BY DEF NoFork
  <2>1. es \in Seq(Entries) /\ hashes \in Nat /\ Sound(es, hashes)
    BY Typed DEF IInv
  <2> QED BY <2>1, SoundIsNoFork
<1> QED BY <1>1, Invariance, PTL

\* A ledger that holds every entry ever built verifies: no broken chain, and no
\* line of the last load counted as corrupted.
THEOREM NoFalseAlarmHolds == Spec => []NoFalseAlarm
<1>1. Init => IInv /\ Counted
  <2> SUFFICES ASSUME Init
               PROVE  IInv /\ Counted
    OBVIOUS
  <2>1. Len(<< >>) = 0 /\ 0 <= 0
    OBVIOUS
  <2>2. Counted
    BY <2>1 DEF Init, Counted
  <2> QED BY <2>2, InitIInv
<1>2. IInv /\ Counted /\ [Next]_vars => (IInv /\ Counted)'
  BY NextIInv, NextCounted
<1>3. IInv /\ Counted => NoFalseAlarm
  <2> SUFFICES ASSUME IInv, Counted, running, HashesIn(entries) = 1 .. hashes
               PROVE  VerifyOk
    BY DEF NoFalseAlarm
  <2>1. /\ entries \in Seq(Entries) /\ hashes \in Nat /\ Sound(entries, hashes)
        /\ corrupted \in Nat
    BY Typed DEF IInv, TypeOK
  <2>2. ChainOk(entries)
    BY <2>1, FullChainOk
  <2>3. Len(entries) \in Nat /\ hashes <= Len(entries)
    BY <2>1, FullChainLen
  <2>4. corrupted = 0
    BY <2>1, <2>3 DEF Counted
  <2> QED BY <2>2, <2>4 DEF VerifyOk
<1> QED BY <1>1, <1>2, <1>3, PTL DEF Spec

\* The file implements AppendOnlyLog: whatever is cut short, an entry that would
\* be loaded is only ever lost while it is the last and lacks its newline.
THEOREM AppendOnlyHolds == Spec => AppendOnly
<1>1. Init => Log!Init
  <2> SUFFICES ASSUME Init
               PROVE  Log!Init
    OBVIOUS
  <2>1. Parsed(file) = << >> /\ ~Unended
    BY ParsedOfNothing DEF Init, Unended
  <2> QED BY <2>1, Zenon DEF Log!Init
<1>2. IInv /\ [Next]_vars => [Log!Extend \/ Log!TakeUnended]_(Log!vars)
  BY NextRefines
<1> QED BY <1>1, <1>2, Invariance, PTL DEF Spec, AppendOnly, Log!Spec

\* verify() never passes over a loss, as long as no genesis line is left without
\* its newline (the run ledger_regenesis shows what happens when one is).
THEOREM LossDetectedHolds ==
  ASSUME "unended" \notin GenesisCuts
  PROVE  Spec => []LossDetected
<1>1. Init => IInv /\ Kept /\ Remembered
  BY InitIInv, InitKept
<1>2. IInv /\ Kept /\ Remembered /\ [Next]_vars => (IInv /\ Kept /\ Remembered)'
  BY NextIInv, NextKept
<1>3. IInv /\ Kept /\ Remembered => LossDetected
  BY DEF Remembered, LossDetected, VerifyOk
<1> QED BY <1>1, <1>2, <1>3, PTL DEF Spec

\* An entry whose append returned never leaves the file once a load would find
\* it: what the next write may take is an entry that was not acknowledged.
THEOREM AckedStaysHolds == Spec => AckedStays
<1>1. Init => IInv /\ UnendedNotAcked
  BY InitIInv DEF Init, UnendedNotAcked
<1>2. IInv /\ UnendedNotAcked /\ [Next]_vars => (IInv /\ UnendedNotAcked)'
  BY NextIInv, NextKeeps
<1>3. IInv /\ UnendedNotAcked /\ [Next]_vars
        => [acked \cap HashesIn(Parsed(file)) \subseteq HashesIn(Parsed(file'))]_vars
  BY NextKeeps DEF Keeping
<1> QED BY <1>1, <1>2, <1>3, PTL DEF Spec, AckedStays
=================================================================================
