------------------------- MODULE GatewaySessionsProofs -------------------------
(***************************************************************************)
(* Theorems about GatewaySessions for every set of guests, any number of   *)
(* messages handled at a time, of endpoints and any idle limit.            *)
(***************************************************************************)
EXTENDS GatewaySessions, TLAPS

--------------------------------------------------------------------------------
(* The inductive invariant *)

\* A join that nothing has disturbed since it was sent was sent while no leave
\* was under way, and none has been sent since.
NoLeaveAbroad ==
  \A s \in Sockets : disturbed[s] = {} =>
    /\ "leave" \notin late
    /\ \A c \in Handlers : Busy(c) => call[c].event # "leave"

\* Handler c has got, and not yet passed on, the answer that s has joined.
Welcomes(c, s) ==
  Busy(c) /\ call[c].sock = s /\ call[c].event = "join" /\ call[c].stage = "ok"

\* A guest that was told that it joined is in the world, and so is one that is
\* about to be told.
Honoured ==
  \A s \in Sockets :
    disturbed[s] = {} /\ (s \in told \/ \E c \in Handlers : Welcomes(c, s)) => member

IInv == TypeOK /\ NoLeaveAbroad /\ Honoured

LEMMA Typed ==
  ASSUME TypeOK
  PROVE  /\ \A c \in Handlers : Busy(c) => call[c] \in Calls
         /\ \A c \in Handlers : Busy(c) =>
              /\ call[c].sock \in Sockets /\ call[c].event \in Events
              /\ call[c].tries \in 1 .. Endpoints
              /\ call[c].stage \in {"sent", "ok", "no"}
         /\ Sockets \subseteq Handlers /\ Slots \subseteq Handlers
BY DEF TypeOK, Busy, Calls, Handlers

LEMMA InitIInv ==
  ASSUME Init
  PROVE  IInv
<1>1. TypeOK
  <2>1. 0 \in 0 .. IdleLimit + 1
    BY LimitsAssumption
  <2>2. call \in [Handlers -> Calls \cup {NoCall}] /\ \A s \in Sockets : ~Busy(s)
    BY DEF Init, Handlers, Busy
  <2>3. disturbed \in [Sockets -> SUBSET Causes]
    BY DEF Init
  <2> QED BY <2>1, <2>2, <2>3 DEF Init, TypeOK
<1>2. NoLeaveAbroad
  BY DEF Init, NoLeaveAbroad, Causes
<1>3. Honoured
  BY DEF Init, Honoured, Causes
<1> QED BY <1>1, <1>2, <1>3 DEF IInv

\* A request as it is sent.
LEMMA Requested ==
  ASSUME NEW s \in Sockets, NEW event \in Events
  PROVE  /\ Request(s, event) \in Calls /\ Request(s, event) # NoCall
         /\ Request(s, event).sock = s /\ Request(s, event).event = event
         /\ Request(s, event).stage = "sent"
BY LimitsAssumption, NoCallAssumption DEF Request, Calls

\* What the world does with a request.
LEMMA HandledEffect ==
  ASSUME IInv, NEW event \in Events, NEW stage \in {"ok", "no"}, Handled(event, stage)
  PROVE  /\ member' \in BOOLEAN /\ idle' \in 0 .. IdleLimit + 1
         /\ event # "leave" /\ member => member'
         /\ event = "join" /\ stage = "ok" => member'
<1>1. member \in BOOLEAN /\ idle \in 0 .. IdleLimit + 1 /\ 0 \in 0 .. IdleLimit + 1
  BY LimitsAssumption DEF IInv, TypeOK
<1>2. CASE event = "join"
  <2>1. \/ stage = "no" /\ member' = member /\ idle' = idle
        \/ member' = TRUE /\ idle' = 0
    BY <1>2 DEF Handled, JoinHandled, world
  <2> QED BY <1>1, <1>2, <2>1
<1>3. CASE event = "leave"
  <2>1. member' = FALSE /\ idle' = 0
    BY <1>3 DEF Handled, LeaveHandled
  <2> QED BY <1>1, <1>3, <2>1
<1>4. CASE event = "action"
  <2>1. member' = member /\ idle' = 0
    BY <1>4 DEF Handled, ActionHandled
  <2> QED BY <1>1, <1>4, <2>1
<1> QED BY <1>2, <1>3, <1>4 DEF Events

LEMMA WorldHandlesIInv ==
  ASSUME IInv, NEW c \in Handlers, NEW stage \in {"ok", "no"}, WorldHandles(c, stage)
  PROVE  IInv'
<1> DEFINE event == call[c].event
<1>1. /\ Busy(c) /\ call[c] \in Calls /\ event \in Events /\ call[c].stage = "sent"
      /\ Handled(event, stage)
      /\ call' = [call EXCEPT ![c].stage = stage]
      /\ UNCHANGED <<sock, sessions, subs, late, listed, told, disturbed>>
  BY Typed DEF IInv, WorldHandles, gateway
<1>2. /\ member' \in BOOLEAN /\ idle' \in 0 .. IdleLimit + 1
      /\ event # "leave" /\ member => member'
      /\ event = "join" /\ stage = "ok" => member'
  BY <1>1, HandledEffect
<1>3. /\ call'[c] \in Calls /\ call'[c] # NoCall
      /\ call'[c].sock = call[c].sock /\ call'[c].event = event
      /\ call'[c].stage = stage
      /\ call' \in [Handlers -> Calls \cup {NoCall}]
      /\ \A d \in Handlers : d # c => call'[d] = call[d]
  BY <1>1, NoCallAssumption DEF IInv, TypeOK, Calls
<1>4. \A d \in Handlers : /\ Busy(d)' <=> Busy(d)
                          /\ Busy(d) => /\ call'[d].sock = call[d].sock
                                        /\ call'[d].event = call[d].event
  BY <1>1, <1>3 DEF Busy
<1>5. TypeOK'
  BY <1>1, <1>2, <1>3, <1>4, Typed DEF IInv, TypeOK, Open
<1>6. NoLeaveAbroad'
  BY <1>1, <1>4 DEF IInv, NoLeaveAbroad
<1>7. Honoured'
  <2> SUFFICES ASSUME NEW s \in Sockets, disturbed[s] = {},
                      s \in told \/ \E d \in Handlers : Welcomes(d, s)'
               PROVE  member'
    BY <1>1 DEF Honoured
  <2>1. event # "leave"
    BY <1>1 DEF IInv, NoLeaveAbroad
  <2>2. CASE s \in told
    BY <1>2, <2>1, <2>2 DEF IInv, Honoured
  <2>3. CASE \E d \in Handlers : Welcomes(d, s)'
    <3>1. PICK d \in Handlers : Welcomes(d, s)'
      BY <2>3
    <3>2. CASE d = c
      BY <1>2, <1>3, <3>1, <3>2 DEF Welcomes
    <3>3. CASE d # c
      <4>1. Welcomes(d, s)
        BY <1>3, <3>1, <3>3 DEF Welcomes, Busy
      <4> QED BY <1>2, <2>1, <4>1 DEF IInv, Honoured
    <3> QED BY <3>2, <3>3
  <2> QED BY <2>2, <2>3
<1> QED BY <1>5, <1>6, <1>7 DEF IInv

LEMMA LateIInv ==
  ASSUME IInv, NEW event \in Events, WorldHandlesLate(event) \/ NeverArrives(event)
  PROVE  IInv'
<1>1. /\ event \in late /\ late' = late \ {event}
      /\ UNCHANGED <<sock, sessions, subs, call, listed, told, disturbed>>
      /\ \/ \E stage \in {"ok", "no"} : Handled(event, stage)
         \/ UNCHANGED <<member, idle>>
  BY DEF WorldHandlesLate, NeverArrives, gateway, world
<1>2. /\ member' \in BOOLEAN /\ idle' \in 0 .. IdleLimit + 1
      /\ event # "leave" /\ member => member'
  BY <1>1, HandledEffect DEF IInv, TypeOK
<1>3. TypeOK'
  BY <1>1, <1>2 DEF IInv, TypeOK, Busy, Open
<1>4. NoLeaveAbroad'
  BY <1>1 DEF IInv, NoLeaveAbroad, Busy
<1>5. Honoured'
  BY <1>1, <1>2 DEF IInv, Honoured, NoLeaveAbroad, Welcomes, Busy
<1> QED BY <1>3, <1>4, <1>5 DEF IInv

--------------------------------------------------------------------------------
(* Sockets *)

LEMMA ConnectIInv ==
  ASSUME IInv, NEW s \in Sockets, Connect(s)
  PROVE  IInv'
<1>1. /\ sock[s] = "new" /\ sock' = [sock EXCEPT ![s] = "open"]
      /\ sessions' = sessions \cup {s} /\ subs' = subs \cup {s}
      /\ UNCHANGED <<call, late, listed, member, idle, told, disturbed>>
  BY DEF Connect, world
<1>2. \A t \in Sockets : t # s => sock'[t] = sock[t]
  BY <1>1 DEF IInv, TypeOK
<1>3. TypeOK'
  BY <1>1, <1>2 DEF IInv, TypeOK, Busy, Open
<1>4. NoLeaveAbroad' /\ Honoured'
  BY <1>1 DEF IInv, NoLeaveAbroad, Honoured, Welcomes, Busy
<1> QED BY <1>3, <1>4 DEF IInv

\* What a request that starts does to the joins that are noted as undisturbed.
LEMMA NotedEffect ==
  ASSUME IInv, NEW s \in Sockets, NEW event \in Events, Noted(s, event)
  PROVE  /\ disturbed' \in [Sockets -> SUBSET Causes]
         /\ \A t \in Sockets : disturbed'[t] = {} => event # "leave"
         /\ \A t \in Sockets : disturbed'[t] = {} =>
              disturbed[t] = {} \/ (t = s /\ event = "join" /\ Abroad(s) = {})
         /\ event = "join" /\ disturbed'[s] = {} => Abroad(s) = {}
<1>1. disturbed \in [Sockets -> SUBSET Causes]
  BY DEF IInv, TypeOK
<1>2. CASE event = "join"
  <2>1. disturbed' = [disturbed EXCEPT ![s] = Abroad(s)]
    BY <1>2 DEF Noted
  <2>2. Abroad(s) \in SUBSET Causes
    BY DEF Abroad, Causes
  <2> QED BY <1>1, <1>2, <2>1, <2>2
<1>3. CASE event = "leave"
  BY <1>1, <1>3 DEF Noted, LeaveDisturbs, Causes
<1>4. CASE event = "action"
  BY <1>1, <1>4 DEF Noted
<1> QED BY <1>2, <1>3, <1>4 DEF Events

\* A join that nothing disturbs from its start.
LEMMA NothingAbroad ==
  ASSUME NEW s \in Sockets, Abroad(s) = {}
  PROVE  /\ "leave" \notin late
         /\ \A c \in Handlers : Busy(c) => call[c].event # "leave" /\ call[c].sock # s
BY DEF Abroad, CallsOf

LEMMA MessageIInv ==
  ASSUME IInv, NEW s \in Sockets, NEW event \in Events, NEW c \in Slots,
         Message(s, event, c)
  PROVE  IInv'
<1>1. /\ Open(s) /\ ~Busy(c) /\ c \in Handlers
      /\ told' = IF event = "action" THEN told ELSE told \ {s}
      /\ UNCHANGED <<sock, sessions, subs, late, listed, member, idle>>
  BY DEF Message, gateway, world, Handlers
<1>2. CASE listed
  <2>1. call' = [call EXCEPT ![c] = Request(s, event)] /\ Noted(s, event)
    BY <1>2 DEF Message
  <2>2. /\ call' \in [Handlers -> Calls \cup {NoCall}]
        /\ call'[c] = Request(s, event)
        /\ \A d \in Handlers : d # c => call'[d] = call[d]
    BY <1>1, <2>1, Requested DEF IInv, TypeOK
  <2>3. /\ disturbed' \in [Sockets -> SUBSET Causes]
        /\ \A t \in Sockets : disturbed'[t] = {} => event # "leave"
        /\ \A t \in Sockets : disturbed'[t] = {} =>
             disturbed[t] = {} \/ (t = s /\ event = "join" /\ Abroad(s) = {})
        /\ event = "join" /\ disturbed'[s] = {} => Abroad(s) = {}
    BY <2>1, NotedEffect
  <2>4. c \notin Sockets
    BY SlotsAssumption
  <2>5. TypeOK'
    BY <1>1, <2>2, <2>3, <2>4, Typed DEF IInv, TypeOK, Busy, Open
  <2>6. NoLeaveAbroad'
    <3> SUFFICES ASSUME NEW t \in Sockets, disturbed'[t] = {}
                 PROVE  /\ "leave" \notin late
                        /\ \A d \in Handlers : Busy(d)' => call'[d].event # "leave"
      BY <1>1 DEF NoLeaveAbroad
    <3>1. /\ "leave" \notin late
          /\ \A d \in Handlers : Busy(d) => call[d].event # "leave"
      BY <2>3, NothingAbroad DEF IInv, NoLeaveAbroad
    <3>2. call'[c].event # "leave"
      BY <2>2, <2>3, Requested
    <3> QED BY <2>2, <3>1, <3>2 DEF Busy
  <2>7. Honoured'
    <3> SUFFICES ASSUME NEW t \in Sockets, disturbed'[t] = {},
                        t \in told' \/ \E d \in Handlers : Welcomes(d, t)'
                 PROVE  member
      BY <1>1 DEF Honoured
    <3>1. t \in told \/ \E d \in Handlers : Welcomes(d, t)
      BY <1>1, <2>2, Requested DEF Welcomes, Busy
    <3>2. CASE t = s /\ event = "join"
      <4>1. s \notin told' /\ \A d \in Handlers : ~Welcomes(d, s)
        BY <1>1, <2>3, <3>2, NothingAbroad DEF Welcomes
      <4>2. \A d \in Handlers : ~Welcomes(d, s)'
        BY <2>2, <4>1, Requested DEF Welcomes, Busy
      <4> QED BY <3>2, <4>1, <4>2
    <3>3. CASE ~(t = s /\ event = "join")
      BY <2>3, <3>1, <3>3 DEF IInv, Honoured
    <3> QED BY <3>2, <3>3
  <2> QED BY <2>5, <2>6, <2>7 DEF IInv
<1>3. CASE ~listed
  <2>1. /\ UNCHANGED call
        /\ disturbed' = IF event = "action" THEN disturbed
                        ELSE [disturbed EXCEPT ![s] = Causes]
    BY <1>3 DEF Message
  <2>2. /\ disturbed' \in [Sockets -> SUBSET Causes]
        /\ \A t \in Sockets : disturbed'[t] = {} => disturbed[t] = {}
    BY <2>1 DEF IInv, TypeOK, Causes
  <2>3. TypeOK'
    BY <1>1, <2>1, <2>2 DEF IInv, TypeOK, Busy, Open
  <2>4. NoLeaveAbroad' /\ Honoured'
    BY <1>1, <2>1, <2>2 DEF IInv, NoLeaveAbroad, Honoured, Welcomes, Busy
  <2> QED BY <2>3, <2>4 DEF IInv
<1> QED BY <1>2, <1>3

LEMMA CloseIInv ==
  ASSUME IInv, NEW s \in Sockets, Close(s)
  PROVE  IInv'
<1>1. /\ sock[s] = "open" /\ sock' = [sock EXCEPT ![s] = "closed"]
      /\ told' = told \ {s}
      /\ UNCHANGED <<late, listed, member, idle>>
  BY DEF Close, Open, world
<1>2. /\ sock' \in [Sockets -> {"new", "open", "closed"}] /\ sock'[s] = "closed"
      /\ \A t \in Sockets : t # s => sock'[t] = sock[t]
  BY <1>1 DEF IInv, TypeOK
<1>3. s \in Handlers
  BY DEF Handlers
<1>4. CASE listed
  <2>1. /\ call' = [call EXCEPT ![s] = Request(s, "leave")]
        /\ LeaveDisturbs(s)
        /\ UNCHANGED <<sessions, subs>>
    BY <1>4 DEF Close
  <2>2. /\ call' \in [Handlers -> Calls \cup {NoCall}]
        /\ call'[s] = Request(s, "leave")
        /\ \A d \in Handlers : d # s => call'[d] = call[d]
    BY <1>3, <2>1, Requested DEF IInv, TypeOK, Events
  <2>3. /\ disturbed' \in [Sockets -> SUBSET Causes]
        /\ \A t \in Sockets : disturbed'[t] # {}
    BY <2>1 DEF LeaveDisturbs, Causes, IInv, TypeOK
  <2>4. call'[s].sock = s /\ call'[s].event = "leave"
    BY <2>2, Requested DEF Events
  <2>5. TypeOK'
    BY <1>1, <1>2, <2>1, <2>2, <2>3, <2>4, Typed DEF IInv, TypeOK, Busy, Open
  <2> QED BY <2>3, <2>5 DEF IInv, NoLeaveAbroad, Honoured
<1>5. CASE ~listed
  <2>1. /\ UNCHANGED call /\ sessions' = sessions \ {s} /\ subs' = subs \ {s}
        /\ disturbed' = [disturbed EXCEPT ![s] = Causes]
    BY <1>5 DEF Close, Forget
  <2>2. /\ disturbed' \in [Sockets -> SUBSET Causes]
        /\ \A t \in Sockets : disturbed'[t] = {} => disturbed[t] = {}
    BY <2>1 DEF IInv, TypeOK, Causes
  <2>3. TypeOK'
    BY <1>1, <1>2, <2>1, <2>2 DEF IInv, TypeOK, Busy, Open
  <2>4. NoLeaveAbroad' /\ Honoured'
    BY <1>1, <2>1, <2>2 DEF IInv, NoLeaveAbroad, Honoured, Welcomes, Busy
  <2> QED BY <2>3, <2>4 DEF IInv
<1> QED BY <1>4, <1>5

--------------------------------------------------------------------------------
(* Answers and time-outs *)

\* A handler that goes on, with the answer "ok" only if it has got it; the
\* request it gave up may still be on its way.
LEMMA ResumeIInv ==
  ASSUME IInv, NEW c \in Handlers, Busy(c), NEW stage \in {"sent", "ok", "no"},
         stage = "ok" => call[c].stage = "ok",
         Resume(c, stage), late' \in {late, late \cup {call[c].event}},
         UNCHANGED <<listed, member, idle>>
  PROVE  IInv'
<1> DEFINE s == call[c].sock
           event == call[c].event
<1>1. s \in Sockets /\ event \in Events
  BY Typed DEF IInv
<1>2. /\ call' = [call EXCEPT ![c] = NoCall] /\ UNCHANGED sock
      /\ \/ sessions' = sessions \ {s} /\ subs' = subs \ {s}
         \/ UNCHANGED <<sessions, subs>>
      /\ \/ /\ event = "join" /\ Open(s) /\ stage = "ok"
            /\ told' = told \cup {s} /\ UNCHANGED disturbed
         \/ told' = told \ {s} /\ disturbed' = [disturbed EXCEPT ![s] = Causes]
         \/ UNCHANGED <<told, disturbed>>
  BY DEF Resume, ForgetAfter, Forget, SaysOk
<1>3. /\ call' \in [Handlers -> Calls \cup {NoCall}] /\ ~Busy(c)'
      /\ \A d \in Handlers : d # c => call'[d] = call[d]
  BY <1>2 DEF IInv, TypeOK, Busy
<1>4. \A d \in Handlers : Busy(d)' => Busy(d) /\ call'[d] = call[d]
  BY <1>3 DEF Busy
<1>5. /\ disturbed' \in [Sockets -> SUBSET Causes]
      /\ \A t \in Sockets : disturbed'[t] = {} => disturbed[t] = {}
  BY <1>2 DEF IInv, TypeOK, Causes
<1>6. TypeOK'
  <2>1. told' \subseteq {t \in Sockets : Open(t)'}
    BY <1>1, <1>2 DEF IInv, TypeOK, Open
  <2>2. /\ sock' \in [Sockets -> {"new", "open", "closed"}]
        /\ sessions' \subseteq Sockets /\ subs' \subseteq Sockets
        /\ late' \subseteq Events
    BY <1>1, <1>2 DEF IInv, TypeOK
  <2>3. \A t \in Sockets : Busy(t)' =>
          call'[t].sock = t /\ call'[t].event = "leave" /\ sock'[t] = "closed"
    BY <1>2, <1>4, Typed DEF IInv, TypeOK
  <2> QED BY <1>3, <1>5, <2>1, <2>2, <2>3 DEF IInv, TypeOK
<1>7. NoLeaveAbroad'
  BY <1>4, <1>5 DEF IInv, NoLeaveAbroad
<1>8. Honoured'
  <2> SUFFICES ASSUME NEW t \in Sockets, disturbed'[t] = {},
                      t \in told' \/ \E d \in Handlers : Welcomes(d, t)'
               PROVE  member
    BY DEF Honoured
  <2>1. \/ t \in told
        \/ t = s /\ event = "join" /\ stage = "ok"
        \/ \E d \in Handlers : Welcomes(d, t)
    BY <1>2, <1>4 DEF Welcomes
  <2>2. t = s /\ event = "join" /\ stage = "ok" => Welcomes(c, t)
    BY DEF Welcomes
  <2> QED BY <1>5, <2>1, <2>2 DEF IInv, Honoured
<1> QED BY <1>6, <1>7, <1>8 DEF IInv

LEMMA AnsweredIInv ==
  ASSUME IInv, NEW c \in Handlers, Answered(c)
  PROVE  IInv'
<1>1. Busy(c) /\ call[c].stage \in {"sent", "ok", "no"}
  BY Typed DEF IInv, Answered
<1> QED BY <1>1, ResumeIInv DEF Answered, world

LEMMA GiveUpIInv ==
  ASSUME IInv, NEW c \in Handlers, GiveUp(c)
  PROVE  IInv'
<1>1. /\ Busy(c) /\ call[c] \in Calls /\ call[c].event \in Events
      /\ call[c].tries \in 1 .. Endpoints
      /\ late' \in {late, late \cup {call[c].event}}
      /\ UNCHANGED <<listed, member, idle>>
  BY Typed DEF IInv, GiveUp, world
<1>2. CASE TryNext(call[c].tries)
  <2>1. /\ call' = [call EXCEPT ![c] =
                      [call[c] EXCEPT !.tries = call[c].tries - 1, !.stage = "sent"]]
        /\ UNCHANGED <<sock, sessions, subs, told, disturbed>>
    BY <1>2 DEF GiveUp, gateway
  <2> DEFINE next == [call[c] EXCEPT !.tries = call[c].tries - 1, !.stage = "sent"]
  <2>2. call[c].tries - 1 \in 1 .. Endpoints
    BY <1>1, <1>2, LimitsAssumption DEF TryNext
  <2>3. /\ next \in Calls /\ next.sock = call[c].sock /\ next.event = call[c].event
        /\ next.stage = "sent"
    BY <1>1, <2>2 DEF Calls
  <2> HIDE DEF next
  <2>4. /\ call' \in [Handlers -> Calls \cup {NoCall}]
        /\ call'[c] = next /\ next # NoCall
        /\ \A d \in Handlers : d # c => call'[d] = call[d]
    BY <2>1, <2>3, NoCallAssumption DEF IInv, TypeOK, next
  <2>5. \A d \in Handlers : Busy(d)' =>
          /\ Busy(d)
          /\ call'[d].sock = call[d].sock /\ call'[d].event = call[d].event
          /\ call'[d].stage \in {"sent", call[d].stage}
    BY <1>1, <2>3, <2>4 DEF Busy
  <2>6. TypeOK'
    <3>1. late' \subseteq Events
      BY <1>1 DEF IInv, TypeOK
    <3>2. \A t \in Sockets : Busy(t)' =>
            call'[t].sock = t /\ call'[t].event = "leave" /\ sock'[t] = "closed"
      BY <2>1, <2>5, Typed DEF IInv, TypeOK
    <3> QED BY <1>1, <2>1, <2>4, <3>1, <3>2 DEF IInv, TypeOK, Open
  <2>7. NoLeaveAbroad'
    BY <1>1, <2>1, <2>5 DEF IInv, NoLeaveAbroad
  <2>8. Honoured'
    <3>1. \A d \in Handlers, t \in Sockets : Welcomes(d, t)' => Welcomes(d, t)
      BY <2>5 DEF Welcomes
    <3> QED BY <1>1, <2>1, <3>1 DEF IInv, Honoured
  <2> QED BY <2>6, <2>7, <2>8 DEF IInv
<1>3. CASE ~TryNext(call[c].tries)
  <2>1. Resume(c, "sent")
    BY <1>3 DEF GiveUp
  <2> QED BY <1>1, <2>1, ResumeIInv
<1> QED BY <1>2, <1>3

--------------------------------------------------------------------------------
(* Registry, time, restarts *)

\* The membership ends: from here on no join counts as undisturbed.
LEMMA EndIInv ==
  ASSUME IInv, Evict \/ WorldRestarts
  PROVE  IInv'
<1>1. /\ member' = FALSE /\ idle' = 0
      /\ disturbed' = [t \in Sockets |-> Causes]
      /\ UNCHANGED <<sock, sessions, subs, call, late, listed, told>>
  BY DEF Evict, WorldRestarts, AllDisturbed, gateway
<1>2. \A t \in Sockets : disturbed'[t] # {}
  BY <1>1 DEF Causes
<1>3. idle' \in 0 .. IdleLimit + 1 /\ disturbed' \in [Sockets -> SUBSET Causes]
  BY <1>1, LimitsAssumption
<1>4. TypeOK'
  BY <1>1, <1>3 DEF IInv, TypeOK, Busy, Open
<1> QED BY <1>2, <1>4 DEF IInv, NoLeaveAbroad, Honoured

LEMMA TimeIInv ==
  ASSUME IInv, Relist \/ Tick
  PROVE  IInv'
<1>1. /\ idle' \in 0 .. IdleLimit + 1 /\ listed' \in BOOLEAN
      /\ UNCHANGED <<sock, sessions, subs, call, late, member, told, disturbed>>
  <2>1. CASE Relist
    BY <2>1 DEF Relist, gateway, world, IInv, TypeOK
  <2>2. CASE Tick
    BY <2>2, LimitsAssumption DEF Tick, gateway, IInv, TypeOK
  <2> QED BY <2>1, <2>2
<1>2. TypeOK'
  BY <1>1 DEF IInv, TypeOK, Busy, Open
<1> QED BY <1>1, <1>2 DEF IInv, NoLeaveAbroad, Honoured, Welcomes, Busy

LEMMA GatewayRestartsIInv ==
  ASSUME IInv, GatewayRestarts
  PROVE  IInv'
<1>1. /\ sock' = [s \in Sockets |-> IF Open(s) THEN "closed" ELSE sock[s]]
      /\ sessions' = {} /\ subs' = {} /\ told' = {}
      /\ call' = [c \in Handlers |-> NoCall]
      /\ disturbed' = [t \in Sockets |-> Causes]
      /\ UNCHANGED <<listed, member, idle>>
  BY DEF GatewayRestarts, AllDisturbed, world
<1>2. late' \subseteq Events
  <2>1. late' \subseteq late \cup {call[c].event : c \in
                 {d \in Handlers : Busy(d) /\ call[d].stage = "sent"}}
    BY DEF GatewayRestarts
  <2>2. \A c \in Handlers : Busy(c) => call[c].event \in Events
    BY Typed DEF IInv
  <2> QED BY <2>1, <2>2 DEF IInv, TypeOK
<1>3. /\ sock' \in [Sockets -> {"new", "open", "closed"}]
      /\ disturbed' \in [Sockets -> SUBSET Causes]
      /\ call' \in [Handlers -> Calls \cup {NoCall}]
      /\ \A s \in Sockets : ~Busy(s)'
  BY <1>1 DEF IInv, TypeOK, Busy, Handlers
<1>4. TypeOK'
  BY <1>1, <1>2, <1>3 DEF IInv, TypeOK
<1>5. \A t \in Sockets : disturbed'[t] # {}
  BY <1>1 DEF Causes
<1> QED BY <1>4, <1>5 DEF IInv, NoLeaveAbroad, Honoured

LEMMA NextIInv ==
  ASSUME IInv, [Next]_vars
  PROVE  IInv'
<1>1. CASE UNCHANGED vars
  BY <1>1 DEF vars, IInv, TypeOK, NoLeaveAbroad, Honoured, Welcomes, Busy, Open
<1>2. CASE \E s \in Sockets : Connect(s) \/ Close(s)
  BY <1>2, ConnectIInv, CloseIInv
<1>3. CASE \E s \in Sockets, e \in Events, c \in Slots : Message(s, e, c)
  BY <1>3, MessageIInv
<1>4. CASE \E c \in Handlers, stage \in {"ok", "no"} : WorldHandles(c, stage)
  BY <1>4, WorldHandlesIInv
<1>5. CASE \E e \in Events : WorldHandlesLate(e) \/ NeverArrives(e)
  BY <1>5, LateIInv
<1>6. CASE \E c \in Handlers : Answered(c) \/ GiveUp(c)
  BY <1>6, AnsweredIInv, GiveUpIInv
<1>7. CASE Relist \/ Evict \/ Tick \/ WorldRestarts \/ GatewayRestarts
  BY <1>7, EndIInv, TimeIInv, GatewayRestartsIInv
<1> QED BY <1>1, <1>2, <1>3, <1>4, <1>5, <1>6, <1>7 DEF Next

--------------------------------------------------------------------------------
(* Closed connections *)

\* A connection is a session from its start; once closed it remains one only
\* while its close handler waits for the answer to the leave.
ForgottenUnlessLeaving ==
  \A s \in Sockets :
    s \in sessions \cup subs => Open(s) \/ (sock[s] = "closed" /\ Busy(s))

LEMMA ResumeForgets ==
  ASSUME IInv, ForgottenUnlessLeaving, NEW c \in Handlers, Busy(c), NEW stage,
         Resume(c, stage)
  PROVE  ForgottenUnlessLeaving'
<1> DEFINE s == call[c].sock
<1>1. call' = [call EXCEPT ![c] = NoCall] /\ UNCHANGED sock
  BY DEF Resume
<1>2. \A d \in Handlers : d # c => (Busy(d)' <=> Busy(d))
  BY <1>1 DEF IInv, TypeOK, Busy
<1>3. CASE c \in Sockets
  <2>1. s = c /\ sessions' = sessions \ {c} /\ subs' = subs \ {c}
    BY <1>3 DEF Resume, ForgetAfter, Forget, IInv, TypeOK
  <2> QED BY <1>1, <1>2, <2>1, Typed DEF IInv, ForgottenUnlessLeaving, Open
<1>4. CASE c \notin Sockets
  <2>1. UNCHANGED <<sessions, subs>>
    BY <1>4 DEF Resume
  <2> QED BY <1>1, <1>2, <1>4, <2>1, Typed DEF IInv, ForgottenUnlessLeaving, Open
<1> QED BY <1>3, <1>4

LEMMA NextForgets ==
  ASSUME IInv, ForgottenUnlessLeaving, [Next]_vars
  PROVE  ForgottenUnlessLeaving'
<1> USE Typed DEF IInv
<1>1. CASE UNCHANGED <<sock, sessions, subs, call>>
  BY <1>1 DEF ForgottenUnlessLeaving, Open, Busy
<1>2. CASE \E s \in Sockets : Connect(s)
  BY <1>2 DEF Connect, ForgottenUnlessLeaving, Open, Busy, TypeOK
<1>3. CASE \E s \in Sockets : Close(s)
  <2>1. PICK s \in Sockets : Close(s)
    BY <1>3
  <2>2. /\ sock' = [sock EXCEPT ![s] = "closed"] /\ sock'[s] = "closed"
        /\ \A t \in Sockets : t # s => sock'[t] = sock[t]
    BY <2>1 DEF Close, TypeOK
  <2>3. CASE listed
    <3>1. /\ call' = [call EXCEPT ![s] = Request(s, "leave")]
          /\ UNCHANGED <<sessions, subs>>
      BY <2>1, <2>3 DEF Close
    <3>2. Busy(s)' /\ \A t \in Sockets : t # s => (Busy(t)' <=> Busy(t))
      BY <3>1, Requested DEF TypeOK, Busy, Events
    <3> QED BY <2>2, <3>1, <3>2 DEF ForgottenUnlessLeaving, Open
  <2>4. CASE ~listed
    <3>1. UNCHANGED call /\ sessions' = sessions \ {s} /\ subs' = subs \ {s}
      BY <2>1, <2>4 DEF Close, Forget
    <3> QED BY <2>2, <3>1 DEF ForgottenUnlessLeaving, Open, Busy
  <2> QED BY <2>3, <2>4
<1>4. CASE \E s \in Sockets, e \in Events, c \in Slots : Message(s, e, c)
  <2>1. PICK c \in Slots :
          /\ UNCHANGED <<sock, sessions, subs>>
          /\ call' = call \/ \E r : call' = [call EXCEPT ![c] = r]
    BY <1>4 DEF Message, gateway
  <2>2. \A t \in Sockets : Busy(t)' <=> Busy(t)
    BY <2>1, SlotsAssumption DEF TypeOK, Busy
  <2> QED BY <2>1, <2>2 DEF ForgottenUnlessLeaving, Open
<1>5. CASE \E c \in Handlers, stage \in {"ok", "no"} : WorldHandles(c, stage)
  <2>1. PICK c \in Handlers, stage \in {"ok", "no"} : WorldHandles(c, stage)
    BY <1>5
  <2>2. /\ Busy(c) /\ call' = [call EXCEPT ![c].stage = stage] /\ call[c] \in Calls
        /\ UNCHANGED <<sock, sessions, subs>>
    BY <2>1 DEF WorldHandles, gateway
  <2>3. call'[c] \in Calls /\ \A t \in Handlers : t # c => call'[t] = call[t]
    BY <2>2 DEF TypeOK, Calls
  <2>4. \A t \in Sockets : Busy(t) => Busy(t)'
    BY <2>3, NoCallAssumption DEF Busy
  <2> QED BY <2>2, <2>4 DEF ForgottenUnlessLeaving, Open
<1>6. CASE \E c \in Handlers : Answered(c)
  BY <1>6, ResumeForgets DEF Answered
<1>7. CASE \E c \in Handlers : GiveUp(c)
  <2>1. PICK c \in Handlers : GiveUp(c)
    BY <1>7
  <2>2. CASE TryNext(call[c].tries)
    <3>1. /\ Busy(c) /\ call[c] \in Calls
          /\ call' = [call EXCEPT ![c] =
                        [call[c] EXCEPT !.tries = call[c].tries - 1, !.stage = "sent"]]
          /\ UNCHANGED <<sock, sessions, subs>>
      BY <2>1, <2>2 DEF GiveUp, gateway
    <3> DEFINE next == [call[c] EXCEPT !.tries = call[c].tries - 1, !.stage = "sent"]
    <3>2. call[c].tries - 1 \in 1 .. Endpoints
      BY <2>2, <3>1, LimitsAssumption DEF TryNext
    <3>3. next \in Calls
      BY <3>1, <3>2 DEF Calls
    <3> HIDE DEF next
    <3>4. call'[c] = next /\ \A t \in Handlers : t # c => call'[t] = call[t]
      BY <3>1 DEF TypeOK, next
    <3>5. \A t \in Sockets : Busy(t) => Busy(t)'
      BY <3>3, <3>4, NoCallAssumption DEF Busy
    <3> QED BY <3>1, <3>5 DEF ForgottenUnlessLeaving, Open
  <2>3. CASE ~TryNext(call[c].tries)
    BY <2>1, <2>3, ResumeForgets DEF GiveUp
  <2> QED BY <2>2, <2>3
<1>8. CASE GatewayRestarts
  BY <1>8 DEF GatewayRestarts, ForgottenUnlessLeaving
<1>9. CASE \/ \E e \in Events : WorldHandlesLate(e) \/ NeverArrives(e)
           \/ Relist \/ Evict \/ Tick \/ WorldRestarts \/ UNCHANGED vars
  <2>1. UNCHANGED <<sock, sessions, subs, call>>
    BY <1>9 DEF WorldHandlesLate, NeverArrives, Relist, Evict, Tick, WorldRestarts,
                vars, gateway
  <2> QED BY <1>1, <2>1
<1> QED BY <1>2, <1>3, <1>4, <1>5, <1>6, <1>7, <1>8, <1>9 DEF Next

--------------------------------------------------------------------------------
(* Theorems *)

\* The inductive invariant: while a guest's join counts as undisturbed no leave
\* is under way, which is what keeps the membership that the join found or made.
THEOREM Invariance == Spec => []IInv
<1>1. Init => IInv
  BY InitIInv
<1>2. IInv /\ [Next]_vars => IInv'
  BY NextIInv
<1> QED BY <1>1, <1>2, PTL DEF Spec

\* The sessions' state always has its types; a socket's own slot holds the leave
\* of its close handler only.
THEOREM TypeCorrect == Spec => []TypeOK
<1>1. IInv => TypeOK
  BY DEF IInv
<1> QED BY <1>1, Invariance, PTL

\* For any number of guests, handlers and endpoints, a guest whose join was
\* answered with ok is in the world unless a leave or the end of the membership
\* has come since it sent the join.
THEOREM JoinHonouredHolds == Spec => []JoinHonoured
<1>1. IInv => JoinHonoured
  <2> SUFFICES ASSUME IInv, NEW s \in told, disturbed[s] = {}
               PROVE  member
    BY DEF JoinHonoured
  <2>1. s \in Sockets
    BY DEF IInv, TypeOK
  <2> QED BY <2>1 DEF IInv, Honoured
<1> QED BY <1>1, Invariance, PTL

\* The safe half of ClosedForgotten: whatever becomes of its leave, a closed
\* connection is in sessions and worldSubs only while the close handler waits,
\* so neither grows with connections that are gone.
THEOREM ForgottenUnlessLeavingHolds == Spec => []ForgottenUnlessLeaving
<1>1. Init => IInv /\ ForgottenUnlessLeaving
  BY InitIInv DEF Init, ForgottenUnlessLeaving
<1>2. IInv /\ ForgottenUnlessLeaving /\ [Next]_vars => (IInv /\ ForgottenUnlessLeaving)'
  BY NextIInv, NextForgets
<1> QED BY <1>1, <1>2, PTL DEF Spec
================================================================================
