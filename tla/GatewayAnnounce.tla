---------------------------- MODULE GatewayAnnounce ----------------------------
(***************************************************************************)
(* A World Server's gateway announcer (gateway-announce.ts) composed with  *)
(* the gateway it announces to (GatewayRegistry).                          *)
(*                                                                         *)
(* The announcer owns three timers: one announce after the start, an       *)
(* announce per interval, a heartbeat per 30 s, which is the unit of time. *)
(* A heartbeat answered 404 or 403 is followed by an announce, any other   *)
(* outcome by nothing.  Requests may be delayed, lost or delivered after   *)
(* the announcer gave up on them; both time-outs (5 s and 10 s) are        *)
(* shorter than the unit, so an answer is of use only to a request of age  *)
(* 0.  The announcer serves each gateway URL on its own: one is enough.    *)
(***************************************************************************)
EXTENDS Integers, FiniteSets

CONSTANTS
  World,           \* the world server's id
  Card,            \* content of its record
  NoRecord,        \* value of an id that is not registered
  Ttl,             \* the gateway's staleTtlMs, in units of 30 s
  TickPeriod,      \* the gateway's tick, in units
  MaxSkew,         \* 5 minutes: how far off a timestamp may be
  Offsets,         \* how far the world's clock may be ahead of the gateway's
  AnnouncePeriod,  \* intervalMs, in units
  MaxDelay         \* bound: no request is in the network for longer

\* A timestamp may be five minutes off (the announcer signs the headers of its
\* requests, which the gateway checks), and the time to live is the operator's to
\* choose: it may be shorter than that.
ASSUME AnnounceAssumption ==
  /\ Ttl \in Nat /\ TickPeriod \in Nat \ {0}
  /\ MaxSkew \in Nat
  /\ Offsets \subseteq -MaxSkew .. MaxSkew
  /\ AnnouncePeriod \in Nat \ {0}
  /\ MaxDelay \in Nat

ASSUME NoRecordAssumption == NoRecord \notin [age : Int, content : {Card}]

VARIABLES
  mem, disk, onDisk, phase, saveTimer, modified, failed, sinceTick,
  timers,         \* intervals that are set
  due,            \* timers that fire before time goes on
  sinceAnnounce,  \* units since the announce interval fired
  ahead,          \* how far the world's clock is ahead
  net,            \* requests on their way to the gateway
  contact,        \* history: units since the gateway heard of the world, by its
                  \* present record
  lossless,       \* history: no request was lost since time last went on
  gap             \* history: units in a row that went by with every request
                  \* answered and the world not listed

G == INSTANCE GatewayRegistry
       WITH Agents <- {}, Worlds <- {World}, Contents <- {Card}, MaxAgents <- 1,
            Stamps <- -MaxSkew .. MaxSkew

gateway == <<mem, disk, onDisk, phase, saveTimer, modified, failed, sinceTick>>
announcer == <<timers, due, sinceAnnounce, ahead, net>>
history == <<contact, lossless, gap>>
vars == <<gateway, announcer, history>>

Request(kind) == [kind |-> kind, age |-> 0]
Requests == [kind : {"announce", "heartbeat"}, age : 0 .. MaxDelay]

Alive == "announce" \in timers
Listed == mem[World] # NoRecord

--------------------------------------------------------------------------------
(* The announcer *)

\* startGatewayAnnounce.
Begin ==
  /\ ~Alive
  /\ timers' = {"announce", "heartbeat"}
  /\ due' = {"startup"}
  /\ sinceAnnounce' = 0
  /\ gap' = 0
  /\ UNCHANGED <<gateway, ahead, net, contact, lossless>>

\* Fault: the heartbeat interval outlives the announcer.
ClearedButHeartbeat == {"heartbeat"}

\* The intervals that are still set after the cleanup function.
Cleared == {}

\* The cleanup function: timers are cleared, requests in flight are not.
Cease ==
  /\ Alive
  /\ timers' = Cleared
  /\ due' = due \cap Cleared
  /\ UNCHANGED <<gateway, sinceAnnounce, ahead, net, history>>

Sends(t) == IF t = "heartbeat" THEN "heartbeat" ELSE "announce"

Fire(t) ==
  /\ t \in due
  /\ due' = due \ {t}
  /\ net' = net \cup {Request(Sends(t))}
  /\ UNCHANGED <<gateway, timers, sinceAnnounce, ahead, history>>

--------------------------------------------------------------------------------
(* The network and the gateway *)

\* Age of the timestamp in m by the gateway's clock.
Stamp(m) == m.age - ahead

Accepted(m) == Stamp(m) \in -MaxSkew .. MaxSkew

Taken(m) ==
  /\ net' = net \ {m}
  /\ UNCHANGED <<timers, due, sinceAnnounce, ahead, lossless, gap>>

\* POST /agents of the world.  An announce counts as contact at its timestamp, or
\* now when that is still to come.
DeliverAnnounce(m) ==
  /\ m \in net /\ m.kind = "announce" /\ Accepted(m)
  /\ G!AnnounceWorld(World, Card, Stamp(m))
  /\ LET heard == IF Stamp(m) > 0 THEN Stamp(m) ELSE 0
     IN  contact' = IF contact < heard THEN contact ELSE heard
  /\ Taken(m)

DeliverHeartbeat(m) ==
  /\ m \in net /\ m.kind = "heartbeat" /\ Accepted(m)
  /\ G!Heartbeat(World)
  /\ contact' = 0
  /\ Taken(m)

\* Fault: a refused heartbeat is of no consequence.
Ignores(m) == FALSE

\* The answer to m is in time for the announcer, which announces again even if
\* it has been stopped meanwhile.
Reannounces(m) == m.age = 0

\* A heartbeat of a world that is not listed: 404.
RefuseHeartbeat(m) ==
  /\ m \in net /\ m.kind = "heartbeat" /\ Accepted(m)
  /\ G!Serving /\ ~Listed
  /\ net' = (net \ {m}) \cup (IF Reannounces(m) THEN {Request("announce")} ELSE {})
  /\ UNCHANGED <<gateway, timers, due, sinceAnnounce, ahead, history>>

\* A request that never arrives, arrives at a gateway that is down or with a
\* timestamp out of range (400, 403 of an announce), or whose 404 is lost.
Lose(m) ==
  /\ m \in net
  /\ net' = net \ {m}
  /\ lossless' = FALSE
  /\ UNCHANGED <<gateway, timers, due, sinceAnnounce, ahead, contact, gap>>

--------------------------------------------------------------------------------
(* The gateway's own steps *)

SaveFires(o) == G!SaveFires(o) /\ UNCHANGED <<announcer, history>>
TickFires(os) == G!TickFires(os) /\ UNCHANGED <<announcer, history>>

\* Steps after which the gateway's last contact is forgotten: a record that is
\* registered again, or loaded, starts from an older timestamp.
Forgets ==
  contact' = Ttl + 1 /\ gap' = 0 /\ UNCHANGED <<announcer, lossless>>

Deregister(o) == G!Deregister(World, o) /\ Forgets
Stop(o) == G!Stop(o) /\ Forgets
Exit == G!Exit /\ Forgets
Crash == G!Crash /\ Forgets
Start == G!Start /\ Forgets

--------------------------------------------------------------------------------
(* Time *)

Answered == lossless /\ net = {}

\* Fault: the announce interval is one unit too long.
IntervalOverrun(n) == n > AnnouncePeriod

IntervalOver(n) == n >= AnnouncePeriod

Advance ==
  /\ due = {}
  /\ G!Advance
  /\ LET n == sinceAnnounce + 1 IN
       /\ due' = {t \in timers : t = "announce" => IntervalOver(n)}
       /\ sinceAnnounce' = IF IntervalOver(n) \/ ~Alive THEN 0 ELSE n
  /\ net' = {[m EXCEPT !.age = m.age + 1] : m \in {x \in net : x.age < MaxDelay}}
  /\ contact' = IF contact > Ttl THEN contact ELSE contact + 1
  /\ lossless' = TRUE
  /\ gap' = IF Alive /\ phase = "up" /\ ~Listed /\ Answered
              THEN (IF gap > 1 THEN gap ELSE gap + 1) ELSE 0
  /\ UNCHANGED <<timers, ahead>>

Init ==
  /\ G!Init
  /\ timers = {} /\ due = {} /\ sinceAnnounce = 0
  /\ ahead \in Offsets
  /\ net = {}
  /\ contact = Ttl + 1 /\ lossless = TRUE /\ gap = 0

Next ==
  \/ Begin \/ Cease
  \/ \E t \in {"startup", "announce", "heartbeat"} : Fire(t)
  \/ \E m \in net :
       DeliverAnnounce(m) \/ DeliverHeartbeat(m) \/ RefuseHeartbeat(m) \/ Lose(m)
  \/ \E o \in G!Outcomes : Deregister(o) \/ SaveFires(o) \/ Stop(o)
  \/ \E os \in [1 .. 3 -> G!Outcomes] : TickFires(os)
  \/ Exit \/ Crash \/ Start \/ Advance

Spec == Init /\ [][Next]_vars

\* Time never stops for good, timers fire and a disk that is written to again
\* and again accepts a write in the end.  Nothing is assumed of the network.
Fairness ==
  /\ SF_vars(Advance)
  /\ \A t \in {"startup", "announce", "heartbeat"} : WF_vars(Fire(t))
  /\ WF_vars(Exit)
  /\ SF_vars(SaveFires("all"))
  /\ SF_vars(TickFires([i \in 1 .. 3 |-> "all"]))

FairSpec == Spec /\ Fairness

--------------------------------------------------------------------------------
(* Properties *)

\* The types of the state.
TypeOK ==
  /\ G!TypeOK
  /\ timers \subseteq {"announce", "heartbeat"}
  /\ due \subseteq timers \cup {"startup"}
  /\ sinceAnnounce \in 0 .. AnnouncePeriod - 1
  /\ ahead \in Offsets
  /\ net \subseteq Requests
  /\ contact \in 0 .. Ttl + 1 /\ lossless \in BOOLEAN /\ gap \in 0 .. 2

\* The tick delists a world only if, within the time to live, no heartbeat was
\* accepted and no announce that was accepted is dated: requests that are delivered
\* late or out of order never set the record back.
PrunesOnlySilent ==
  [][Listed /\ ~Listed' /\ phase' = "up" /\ sinceTick' # sinceTick
       => contact > Ttl]_vars

\* As long as requests are answered, a world that the gateway lost, whether by a
\* crash before the save, old files or a deregistration, is listed again at its
\* next heartbeat and need not wait for the announce interval; unless its clock is
\* behind by more than the time to live, and its announces are stale on arrival.
RelistedAtNextBeat == ahead >= -Ttl => gap <= 1

\* A world that stopped for good leaves the registry for good, although its
\* clock may be ahead, its last requests may arrive after the stop and the
\* gateway may start again from old files.
StoppedIsDelisted == []<>Alive \/ <>[]~Listed

================================================================================
