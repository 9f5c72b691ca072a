---------------------------- MODULE GatewaySessions ----------------------------
(***************************************************************************)
(* The gateway's WebSocket sessions (gateway/server.mjs) and the world     *)
(* they lead to: connections, messages sent on to the world endpoint by    *)
(* endpoint, closing, and the membership that the world keeps of the       *)
(* gateway (world-server.ts).                                              *)
(*                                                                         *)
(* All requests carry the gateway's own identity, so the world has one     *)
(* membership for all guests.  Handlers are suspended while sendToWorld    *)
(* awaits an answer and may overtake each other; a request that is given   *)
(* up may still be handled by the world later.                             *)
(*                                                                         *)
(* One world; a unit of time is longer than all attempts of a request.     *)
(***************************************************************************)
EXTENDS Integers

CONSTANTS
  Sockets,    \* connections, each opened at most once
  Slots,      \* bound: messages of open sockets handled at a time
  NoCall,     \* value of a slot that is free
  Endpoints,  \* number of endpoints the world is registered with
  IdleLimit   \* the world's idle limit, in units of time

ASSUME SlotsAssumption == Sockets \cap Slots = {}
ASSUME LimitsAssumption == Endpoints \in Nat \ {0} /\ IdleLimit \in Nat

Events == {"join", "action", "leave"}

\* A closing socket has a slot of its own for the leave that its handler sends.
Handlers == Slots \cup Sockets

\* A suspended handler: endpoints not given up yet, and whether the request at
\* the current one is still on its way or was answered well or badly.
Calls ==
  [sock : Sockets, event : Events, tries : 1 .. Endpoints,
   stage : {"sent", "ok", "no"}]

ASSUME NoCallAssumption == NoCall \notin Calls

VARIABLES
  sock,       \* state of each connection
  sessions,   \* keys of sessions
  subs,       \* worldSubs of the world
  call,       \* handlers suspended in sendToWorld
  late,       \* requests that were given up and may still be handled
  listed,     \* the world is in the gateway's registry, with its endpoints
  member,     \* the world has the gateway as a member
  idle,       \* units of time since the gateway's last join or action
  told,       \* guests whose last join was answered with ok (for the properties)
  disturbed   \* what has come since a guest sent its last join (same)

vars == <<sock, sessions, subs, call, late, listed, member, idle, told, disturbed>>

gateway == <<sock, sessions, subs>>
world == <<member, idle>>

Open(s) == sock[s] = "open"
Busy(c) == call[c] # NoCall
CallsOf(s) == {c \in Handlers : Busy(c) /\ call[c].sock = s}

--------------------------------------------------------------------------------
(* What the properties need to know of the past *)

Causes == {"own", "other"}

\* A leave of s is under way: s is out of the question and others are disturbed.
LeaveDisturbs(s) ==
  disturbed' = [t \in Sockets |->
                  IF t = s THEN Causes ELSE disturbed[t] \cup {"other"}]

\* So does the end of the membership or of the gateway.
AllDisturbed == disturbed' = [t \in Sockets |-> Causes]

\* What disturbs a join of s from its start: other requests of s, leaves of
\* other guests.
Abroad(s) ==
  (IF CallsOf(s) # {} \/ "leave" \in late THEN {"own"} ELSE {})
  \cup (IF \E c \in Handlers : Busy(c) /\ call[c].event = "leave"
        THEN {"other"} ELSE {})

Noted(s, event) ==
  CASE event = "join" -> disturbed' = [disturbed EXCEPT ![s] = Abroad(s)]
    [] event = "leave" -> LeaveDisturbs(s)
    [] OTHER -> UNCHANGED disturbed

--------------------------------------------------------------------------------
(* Requests to the world *)

Request(s, event) ==
  [sock |-> s, event |-> event, tries |-> Endpoints, stage |-> "sent"]

\* The world is full, or the hook fails after the gateway was registered.
JoinHandled(stage) ==
  \/ stage = "no" /\ UNCHANGED world
  \/ member' = TRUE /\ idle' = 0

LeaveHandled == member' = FALSE /\ idle' = 0

ActionHandled == idle' = 0 /\ UNCHANGED member

\* onMessage of the world for a request of the gateway.  Only a join's answer
\* matters; an action without membership is refused.
Handled(event, stage) ==
  CASE event = "join" -> JoinHandled(stage)
    [] event = "leave" -> stage = "ok" /\ LeaveHandled
    [] event = "action" -> stage = "ok" /\ ActionHandled

WorldHandles(c, stage) ==
  /\ Busy(c) /\ call[c].stage = "sent"
  /\ Handled(call[c].event, stage)
  /\ call' = [call EXCEPT ![c].stage = stage]
  /\ UNCHANGED <<gateway, late, listed, told, disturbed>>

WorldHandlesLate(event) ==
  /\ event \in late
  /\ \E stage \in {"ok", "no"} : Handled(event, stage)
  /\ late' = late \ {event}
  /\ UNCHANGED <<gateway, call, listed, told, disturbed>>

NeverArrives(event) ==
  /\ event \in late
  /\ late' = late \ {event}
  /\ UNCHANGED <<gateway, call, listed, world, told, disturbed>>

--------------------------------------------------------------------------------
(* Sockets *)

Connect(s) ==
  /\ sock[s] = "new"
  /\ sock' = [sock EXCEPT ![s] = "open"]
  /\ sessions' = sessions \cup {s}
  /\ subs' = subs \cup {s}
  /\ UNCHANGED <<call, late, listed, world, told, disturbed>>

\* A message of an open socket; without a registered world it is answered at
\* once that the world is not reachable.
Message(s, event, c) ==
  /\ Open(s) /\ s \in sessions /\ ~Busy(c)
  /\ IF listed
     THEN /\ call' = [call EXCEPT ![c] = Request(s, event)]
          /\ Noted(s, event)
     ELSE /\ UNCHANGED call
          /\ disturbed' = IF event = "action" THEN disturbed
                          ELSE [disturbed EXCEPT ![s] = Causes]
  /\ told' = IF event = "action" THEN told ELSE told \ {s}
  /\ UNCHANGED <<gateway, late, listed, world>>

Forget(s) == sessions' = sessions \ {s} /\ subs' = subs \ {s}

\* The close handler up to its await; a world that is not registered gets no
\* leave.
Close(s) ==
  /\ Open(s)
  /\ sock' = [sock EXCEPT ![s] = "closed"]
  /\ told' = told \ {s}
  /\ IF listed
     THEN /\ call' = [call EXCEPT ![s] = Request(s, "leave")]
          /\ LeaveDisturbs(s)
          /\ UNCHANGED <<sessions, subs>>
     ELSE /\ Forget(s) /\ UNCHANGED call
          /\ disturbed' = [disturbed EXCEPT ![s] = Causes]
  /\ UNCHANGED <<late, listed, world>>

\* Fault: any answer counts as success.
SaysOkIfAnswered(stage) == stage # "sent"

SaysOk(stage) == stage = "ok"

\* Fault: a leave that could not be sent keeps the session.
ForgetIfSent(s, stage) ==
  IF stage = "sent" THEN UNCHANGED <<sessions, subs>> ELSE Forget(s)

ForgetAfter(s, stage) == Forget(s)

\* A handler goes on with the answer, or with none when stage is "sent".
Resume(c, stage) ==
  LET s == call[c].sock
  IN  /\ call' = [call EXCEPT ![c] = NoCall]
      /\ IF c \in Sockets THEN ForgetAfter(s, stage)
         ELSE UNCHANGED <<sessions, subs>>
      /\ IF call[c].event = "join" /\ Open(s)
         THEN /\ told' = IF SaysOk(stage) THEN told \cup {s} ELSE told \ {s}
              /\ disturbed' = IF SaysOk(stage) THEN disturbed
                              ELSE [disturbed EXCEPT ![s] = Causes]
         ELSE UNCHANGED <<told, disturbed>>
      /\ UNCHANGED sock

Answered(c) ==
  /\ Busy(c) /\ call[c].stage # "sent"
  /\ Resume(c, call[c].stage)
  /\ UNCHANGED <<late, listed, world>>

\* Fault: the endpoint after the last one is tried.
TryNextUpToZero(tries) == tries > 0

TryNext(tries) == tries > 1

\* The time-out of 8 s, or an error: the next endpoint is tried.  What was sent
\* is lost, or still on its way (bound: one late request of each event).
GiveUp(c) ==
  /\ Busy(c)
  /\ \/ UNCHANGED late
     \/ call[c].stage = "sent" /\ late' = late \cup {call[c].event}
  /\ IF TryNext(call[c].tries)
     THEN /\ call' = [call EXCEPT ![c].tries = @ - 1, ![c].stage = "sent"]
          /\ UNCHANGED <<gateway, told, disturbed>>
     ELSE Resume(c, "sent")
  /\ UNCHANGED <<listed, world>>

--------------------------------------------------------------------------------
(* Registry, time, restarts *)

\* The world is announced, or pruned or deregistered.
Relist ==
  /\ listed' = ~listed
  /\ UNCHANGED <<gateway, call, late, world, told, disturbed>>

\* Fault: only members with endpoints are scanned, and the gateway gives none.
StaleIfReachable == FALSE

Stale == member /\ idle > IdleLimit

Evict ==
  /\ Stale
  /\ member' = FALSE /\ idle' = 0
  /\ AllDisturbed
  /\ UNCHANGED <<gateway, call, late, listed, told>>

Tick ==
  /\ \A c \in Handlers : ~Busy(c)
  /\ member /\ idle <= IdleLimit
  /\ idle' = idle + 1
  /\ UNCHANGED <<gateway, call, late, listed, member, told, disturbed>>

WorldRestarts ==
  /\ member
  /\ member' = FALSE /\ idle' = 0
  /\ AllDisturbed
  /\ UNCHANGED <<gateway, call, late, listed, told>>

\* The gateway's process ends and starts again; its requests may or may not have
\* reached the world.  In a graceful stop() app.close() closes the sockets first,
\* whose close handlers send their leaves: that is Close for each and then this.
GatewayRestarts ==
  /\ \E s \in Sockets : Open(s) \/ Busy(s)
  /\ sock' = [s \in Sockets |-> IF Open(s) THEN "closed" ELSE sock[s]]
  /\ sessions' = {} /\ subs' = {} /\ told' = {}
  /\ call' = [c \in Handlers |-> NoCall]
  /\ late' \in SUBSET (late \cup {call[c].event : c \in
                         {d \in Handlers : Busy(d) /\ call[d].stage = "sent"}})
  /\ late \subseteq late'
  /\ AllDisturbed
  /\ UNCHANGED <<listed, world>>

Init ==
  /\ sock = [s \in Sockets |-> "new"]
  /\ sessions = {} /\ subs = {}
  /\ call = [c \in Handlers |-> NoCall] /\ late = {}
  /\ listed \in BOOLEAN
  /\ member = FALSE /\ idle = 0
  /\ told = {} /\ disturbed = [s \in Sockets |-> Causes]

Next ==
  \/ \E s \in Sockets : Connect(s) \/ Close(s)
  \/ \E s \in Sockets, e \in Events, c \in Slots : Message(s, e, c)
  \/ \E c \in Handlers, stage \in {"ok", "no"} : WorldHandles(c, stage)
  \/ \E e \in Events : WorldHandlesLate(e) \/ NeverArrives(e)
  \/ \E c \in Handlers : Answered(c) \/ GiveUp(c)
  \/ Relist \/ Evict \/ Tick \/ WorldRestarts \/ GatewayRestarts

Spec == Init /\ [][Next]_vars

\* Every attempt ends by an answer or its time-out, a late request arrives or is
\* lost, time passes and the world's idle scan runs.
Fairness ==
  /\ \A c \in Handlers : WF_vars(Answered(c) \/ GiveUp(c))
  /\ \A e \in Events : WF_vars(WorldHandlesLate(e) \/ NeverArrives(e))
  /\ WF_vars(Tick) /\ WF_vars(Evict)

FairSpec == Spec /\ Fairness

--------------------------------------------------------------------------------
(* Properties *)

\* The types of the state; a socket's own slot holds its last leave only.
TypeOK ==
  /\ sock \in [Sockets -> {"new", "open", "closed"}]
  /\ sessions \subseteq Sockets /\ subs \subseteq Sockets
  /\ call \in [Handlers -> Calls \cup {NoCall}]
  /\ \A s \in Sockets :
       Busy(s) => call[s].sock = s /\ call[s].event = "leave" /\ sock[s] = "closed"
  /\ late \subseteq Events
  /\ listed \in BOOLEAN /\ member \in BOOLEAN
  /\ idle \in 0 .. IdleLimit + 1
  /\ told \subseteq {s \in Sockets : Open(s)}
  /\ disturbed \in [Sockets -> SUBSET Causes]

\* A guest that was told that its join succeeded is in the world, unless a leave
\* (its own, another guest's, a late one) or the end of the membership has come
\* since it sent the join; whatever endpoints time out, answer late or twice.
JoinHonoured == \A s \in told : disturbed[s] = {} => member

\* The same when leaves of other guests are not counted.
GuestsIndependent == \A s \in told : "own" \notin disturbed[s] => member

\* A closed connection is forgotten, whatever becomes of the leave that is sent
\* for it.
ClosedForgotten ==
  \A s \in Sockets : sock[s] = "closed" ~> s \notin sessions \cup subs

Deserted == \A s \in Sockets : ~Open(s)

\* The gateway does not stay in a world for which no guest is connected: neither
\* a leave that got lost, a join that comes late nor a restart leaves it there.
GhostsEnd == Deserted ~> ~member \/ ~Deserted

================================================================================
