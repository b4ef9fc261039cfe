------------------------ MODULE ServerDeliveryProofs ------------------------
(***************************************************************************)
(* What a dispatch may drop: theorems about the events on their way from   *)
(* the core to the mailboxes, for every set of connections, every mailbox  *)
(* capacity and every interleaving of dispatches.                          *)
(***************************************************************************)
EXTENDS ServerProofs, FunctionTheorems

-----------------------------------------------------------------------------
(***************************************************************************)
(* The invariant.  A lookup that finds no handle may mean that the         *)
(* recipient has left, or that it has not published its handle yet.  The   *)
(* second is excluded: whoever is addressed has started reading.           *)
(***************************************************************************)
\* The task of connection c has published its handle, or is past that.
Started(c) == stage[c] \notin {"new", "accepted", "refused", "handshake"}

\* Nobody logs in before reading.
Fresh(c) == ~ Started(c) => sessions[c].phase \in {"Closed", "Connected"}

\* The call a connection task waits for is its own.
OwnCall(c) == calls[c] # None => calls[c].connection_id = c

\* What is still to be dispatched is addressed to connections that have started reading.
Addressed(d) ==
  pending[d] # None =>
    \A i \in DOMAIN pending[d].deliveries : \A r \in pending[d].deliveries[i].recipients : Started(r)

DeliveryInv ==
  /\ \A c \in ConnectionIds : Fresh(c) /\ OwnCall(c)
  /\ \A d \in Dispatchers : Addressed(d)

-----------------------------------------------------------------------------
(***************************************************************************)
(* Whom a step of the core addresses: its own connection and clients that  *)
(* are active.                                                             *)
(***************************************************************************)
Within(c) == {c} \cup active_ids(sessions)

\* Every recipient of the deliveries belongs to X.
Reaches(deliveries, X) == \A i \in DOMAIN deliveries : deliveries[i].recipients \subseteq X

LEMMA DeliverReaches ==
  ASSUME NEW R, NEW e, NEW X, R \subseteq X
  PROVE  Reaches(Deliver(R, e), X)
<1> DEFINE d == [recipients |-> R, event |-> e]
<1>1. d.recipients = R
  OBVIOUS
<1> HIDE DEF d
<1>2. Deliver(R, e) = <<>> \/ Deliver(R, e) = <<d>>
  BY DEF Deliver, d
<1> QED
  BY <1>1, <1>2 DEF Reaches

\* An answer to the connection itself: nothing, an error, or an event.
LEMMA AnswerReaches ==
  ASSUME NEW c \in ConnectionIds, NEW code,
         effects' \in {Nothing, error_effect(c, code), error_and_close(c, code), refusal(c, code)}
  PROVE  Reaches(effects'.deliveries, {c})
<1> DEFINE d == Deliver({c}, Ev("Error", code))
<1>1. Reaches(d, {c}) /\ Reaches(Deliver({}, None), {c})
  BY DeliverReaches
<1>2. error_effect(c, code) = [deliveries |-> d, close |-> None]
  BY DEF error_effect, send
<1> HIDE DEF d
<1>3. error_effect(c, code).deliveries = d /\ error_and_close(c, code).deliveries = d
  BY <1>2 DEF error_and_close
<1>4. refusal(c, code) \in {Nothing, error_effect(c, code), error_and_close(c, code)}
  <2>1. CASE code = "Gone"
    BY <2>1 DEF refusal
  <2>2. CASE code = "AlreadyRegistered"
    BY <2>2 DEF refusal
  <2>3. CASE code \notin {"Gone", "AlreadyRegistered"}
    BY <2>3 DEF refusal
  <2> QED
    BY <2>1, <2>2, <2>3
<1>5. Nothing.deliveries = Deliver({}, None)
  BY DEF Nothing, Deliver
<1> QED
  BY <1>1, <1>3, <1>4, <1>5

\* An event sent to some of X.
LEMMA SendReaches ==
  ASSUME NEW R, NEW e, NEW X, R \subseteq X, effects' = send(R, e)
  PROVE  Reaches(effects'.deliveries, X)
<1>1. effects'.deliveries = Deliver(R, e)
  BY DEF send
<1> QED
  BY <1>1, DeliverReaches

\* What reaches less reaches more; what is in Seq(S) reaches what the members of S reach.
LEMMA ReachesMore ==
  ASSUME NEW D, NEW X, NEW Y, Reaches(D, X), X \subseteq Y
  PROVE  Reaches(D, Y)
  BY DEF Reaches

LEMMA SeqReaches ==
  ASSUME NEW X, NEW D \in Seq([recipients : SUBSET X, event : Event])
  PROVE  Reaches(D, X)
<1> DEFINE S == [recipients : SUBSET X, event : Event]
<1>1. \A d \in S : d.recipients \subseteq X
  OBVIOUS
<1> HIDE DEF S
<1>2. \A i \in 1 .. Len(D) : D[i] \in S
  BY ElementOfSeq DEF S
<1>3. DOMAIN D = 1 .. Len(D)
  BY DEF S
<1> QED
  BY <1>1, <1>2, <1>3 DEF Reaches

\* A disconnection tells the clients that remain.
LEMMA FarewellReaches ==
  ASSUME TypeOK, NEW c \in ConnectionIds, NEW before \in Seq(Delivery),
         disconnect_locked(c, before)
  PROVE  Farewell(c) \in Seq([recipients : SUBSET active_ids(sessions), event : Event])
<1>1. CASE sessions[c].presence = None
  BY <1>1 DEF Farewell
<1>2. CASE sessions[c].presence # None
  <2>1. sessions[c].presence.callsign \in Callsigns
    BY <1>2 DEF TypeOK, Session, ClientPresence
  <2>2. Ev("ClientRemoved", sessions[c].presence.callsign) \in Event
    BY <2>1, EvType DEF EventKind
  <2>3. active_ids(sessions') \subseteq active_ids(sessions)
    BY DEF disconnect_locked, active_ids, IsActive, TypeOK, NoSession
  <2>4. Farewell(c) = Deliver(active_ids(sessions'),
                              Ev("ClientRemoved", sessions[c].presence.callsign))
    BY <1>2 DEF Farewell
  <2>5. [recipients |-> active_ids(sessions'),
         event |-> Ev("ClientRemoved", sessions[c].presence.callsign)]
          \in [recipients : SUBSET active_ids(sessions), event : Event]
    BY <2>2, <2>3
  <2> QED
    BY <2>4, <2>5, DeliverIn
<1> QED
  BY <1>1, <1>2

\* The commands of a session, its registration and its disconnection.
LEMMA ExecuteReaches ==
  ASSUME TypeOK, SessionShape, CallsignIndexExact, NEW c \in ConnectionIds,
         disconnect(c) \/ Execute(c)
  PROVE  Reaches(effects'.deliveries, Within(c))
<1> DEFINE S == [recipients : SUBSET Within(c), event : Event]
           Goal == Reaches(effects'.deliveries, Within(c))
<1>0. /\ {c} \subseteq Within(c) /\ active_ids(sessions) \subseteq Within(c)
      /\ Within(c) \subseteq ConnectionIds
      /\ sessions \in [ConnectionIds -> Session]
      /\ callsigns \in [Callsigns -> ConnectionIds \cup {None}]
  BY DEF Within, active_ids, TypeOK
<1>1. ASSUME NEW code, effects' \in {Nothing, error_effect(c, code)} PROVE Goal
  <2>1. Reaches(effects'.deliveries, {c})
    BY <1>1, AnswerReaches
  <2> QED
    BY <1>0, <2>1, ReachesMore
<1>2. ASSUME NEW R, NEW e, R \subseteq Within(c), effects' = send(R, e) PROVE Goal
  BY <1>2, SendReaches
<1>3. ASSUME NEW d \in ConnectionIds, NEW before \in Seq(Delivery), before \in Seq(S),
             disconnect_locked(d, before)
      PROVE  Goal
  <2> DEFINE A == [recipients : SUBSET active_ids(sessions), event : Event]
  <2>1. effects'.deliveries = before \o Farewell(d)
    BY <1>3, DisconnectDeliveries
  <2>2. Farewell(d) \in Seq(A)
    BY <1>3, FarewellReaches
  <2>3. A \subseteq S
    BY <1>0
  <2> HIDE DEF A, S
  <2>4. Farewell(d) \in Seq(S)
    BY <2>2, <2>3
  <2>5. effects'.deliveries \in Seq(S)
    BY <1>3, <2>1, <2>4, ConcatProperties
  <2> QED
    BY <2>5, SeqReaches DEF S
<1>4. ASSUME disconnect_locked(c, <<>>) PROVE Goal
  <2>1. <<>> \in Seq(Delivery) /\ <<>> \in Seq(S)
    OBVIOUS
  <2> QED
    BY <1>3, <1>4, <2>1
<1>5. ASSUME NEW source \in Callsigns, execute_rejected(c, source) \/ logoff(c, source) PROVE Goal
  BY <1>1, <1>4, <1>5 DEF execute_rejected, logoff
<1>6. ASSUME NEW position \in Positions, update_position(c, position) PROVE Goal
  <2> DEFINE R == position_recipients(sessions', c)
  <2>1. CASE sessions' = [sessions EXCEPT ![c].position = position]
             /\ effects' = send(R, Ev("Position", position.callsign))
    <3>1. \A d \in ConnectionIds : sessions'[d].phase = sessions[d].phase
      BY <1>0, <2>1 DEF Session
    <3>2. R \subseteq active_ids(sessions')
      BY DEF position_recipients, Others
    <3>3. R \subseteq Within(c)
      BY <1>0, <3>1, <3>2 DEF active_ids, IsActive
    <3> HIDE DEF R
    <3> QED
      BY <1>2, <2>1, <3>3
  <2>2. CASE effects' = error_effect(c, "Syntax")
    BY <1>1, <2>2
  <2> QED
    BY <1>6, <2>1, <2>2 DEF update_position
<1>7. ASSUME NEW plan \in FlightPlans, file_flight_plan(c, plan) PROVE Goal
  <2>1. flight_plan_recipients(sessions, c, 400) \subseteq Within(c)
    BY <1>0 DEF flight_plan_recipients, Others
  <2> QED
    BY <1>2, <1>7, <2>1 DEF file_flight_plan
<1>8. ASSUME NEW message \in Messages, route(c, message) PROVE Goal
  <2> DEFINE policy == IF message.type = "Text" THEN "Message" ELSE "Source"
             d == message.destination
             R == resolve_destination(sessions, callsigns, c, d, policy)
  <2>1. R \in SUBSET ConnectionIds
    BY <1>0, ResolveType
  <2>2. ASSUME NEW r \in R PROVE r \in active_ids(sessions)
    <3>1. /\ d.kind \in DestinationKind
          /\ d.kind = "Direct" => d.callsign \in Callsigns
      BY NetworkAssumption DEF Message, Destination
    <3>2. CASE d.kind = "Direct"
      <4>1. r = callsigns[d.callsign]
        BY <2>2, <3>2 DEF resolve_destination
      <4>2. sessions[r].presence # None
        BY <2>1, <3>1, <3>2, <4>1 DEF CallsignIndexExact
      <4> QED
        BY <2>1, <4>2 DEF SessionShape, active_ids, IsActive
    <3>3. CASE d.kind # "Direct"
      BY <2>2, <3>1, <3>3 DEF resolve_destination, DestinationKind, Others
    <3> QED
      BY <3>2, <3>3
  <2>3. effects' \in {send({c}, Ev("Pong", None)), Nothing, send(R, Ev(message.type, message.source))}
    BY <1>8 DEF route
  <2> HIDE DEF R
  <2>4. R \subseteq Within(c)
    BY <1>0, <2>2
  <2> QED
    BY <1>0, <1>1, <1>2, <2>3, <2>4
<1>9. ASSUME NEW source \in Callsigns, NEW target \in Callsigns \cup {None},
             query_flight_plan(c, source, target)
      PROVE  Goal
  <2>1. \/ \E code : effects' = error_effect(c, code)
        \/ \E e : effects' = send({c}, e)
    BY <1>9 DEF query_flight_plan
  <2> QED
    BY <1>0, <1>1, <1>2, <2>1
<1>10. ASSUME NEW source \in Callsigns, NEW target \in Callsigns, kill(c, source, target)
       PROVE  Goal
  <2>1. CASE effects' \in {error_effect(c, "NoSuchCallsign"), send({c}, Ev("Welcome", source))}
    BY <1>0, <1>1, <1>2, <2>1
  <2>2. CASE Killed(c, source, target)
    <3> DEFINE victim == callsigns[target]
               told == Deliver({c}, Ev("Welcome", source))
               cut == Deliver({victim}, Ev("Disconnect", target))
    <3>1. victim \in ConnectionIds /\ victim \in active_ids(sessions)
      <4>1. victim \in ConnectionIds
        BY <1>0, <2>2 DEF Killed, InUse
      <4>2. sessions[victim].presence # None
        BY <4>1 DEF CallsignIndexExact
      <4> QED
        BY <4>1, <4>2 DEF SessionShape, active_ids, IsActive
    <3>2. Ev("Welcome", source) \in Event /\ Ev("Disconnect", target) \in Event
      BY EvType DEF EventKind
    <3>3. disconnect_locked(victim, told \o cut)
      BY <2>2 DEF Killed
    <3> HIDE DEF victim
    <3>4. {victim} \subseteq Within(c)
      BY <1>0, <3>1
    <3>5. told \in Seq(S) /\ cut \in Seq(S)
      <4>1. [recipients |-> {c}, event |-> Ev("Welcome", source)] \in S
        BY <1>0, <3>2
      <4>2. [recipients |-> {victim}, event |-> Ev("Disconnect", target)] \in S
        BY <3>2, <3>4
      <4> HIDE DEF S
      <4> QED
        BY <4>1, <4>2, DeliverIn
    <3>6. told \in Seq(Delivery) /\ cut \in Seq(Delivery)
      BY <3>1, <3>2, DeliverType
    <3> HIDE DEF told, cut, S
    <3>7. told \o cut \in Seq(Delivery) /\ told \o cut \in Seq(S)
      BY <3>5, <3>6, ConcatProperties
    <3> QED
      BY <1>3, <3>1, <3>3, <3>7
  <2> QED
    BY <1>10, <2>1, <2>2, Zenon DEF kill, Killed, Accepted
<1> HIDE DEF Goal
<1> QED
  BY <1>4, <1>5, <1>6, <1>7, <1>8, <1>9, <1>10 DEF Execute, disconnect, Goal

\* The critical sections around an await of the task's own connection.
LEMMA AsyncReaches ==
  ASSUME TypeOK, NEW c \in ConnectionIds, OwnCall(c), AsyncCall(c, c) \/ AsyncReturn(c)
  PROVE  Reaches(effects'.deliveries, Within(c))
<1> DEFINE Goal == Reaches(effects'.deliveries, Within(c))
<1>0. {c} \subseteq Within(c)
  BY DEF Within
<1>1. ASSUME NEW code,
             effects' \in {Nothing, error_effect(c, code), error_and_close(c, code), refusal(c, code)}
      PROVE  Goal
  <2>1. Reaches(effects'.deliveries, {c})
    BY <1>1, AnswerReaches
  <2> QED
    BY <1>0, <2>1, ReachesMore
<1>2. CASE AsyncCall(c, c)
  <2>1. \E code : effects' \in {Nothing, refusal(c, code)}
    BY <1>2, Zenon DEF AsyncCall, identify, login, weather_request
  <2> QED
    BY <1>1, <2>1
<1>3. ASSUME NEW op, Resume(c, op) PROVE calls[c].connection_id = c /\ calls[c] \in Call
                                         /\ calls[c].op = op
  BY <1>3, ServerAssumption DEF Resume, OwnCall, TypeOK
<1>4. CASE identify_unauthorized(c) \/ login_unauthenticated(c)
  <2>1. \E code : effects' = error_and_close(c, code)
    BY <1>3, <1>4, Zenon DEF identify_unauthorized, login_unauthenticated
  <2> QED
    BY <1>1, <2>1
<1>5. CASE identify_authorized(c)
  <2>1. \E code : effects' \in {Nothing, refusal(c, code)}
    BY <1>3, <1>5, Zenon DEF identify_authorized
  <2> QED
    BY <1>1, <2>1
<1>6. CASE login_authenticated(c)
  <2> DEFINE command == calls[c].command
             p == presence_of(command)
             peers == active_ids(sessions) \ {c}
             added == Ev("ClientAdded", p.callsign)
             S == [recipients : SUBSET Within(c), event : Event]
  <2>0. calls[c].connection_id = c /\ calls[c] \in Call /\ calls[c].op = "login"
    BY <1>3, <1>6 DEF login_authenticated
  <2>1. \/ effects' = login_effects(c, sessions[c].dialect, p, peers)
        \/ \E code : effects' = refusal(c, code)
    BY <1>6, <2>0, Zenon DEF login_authenticated
  <2>2. command \in LoginCommand
    BY <2>0 DEF Call
  <2>3. p \in ClientPresence /\ p.callsign \in Callsigns
    BY <2>2, PresenceType DEF ClientPresence
  <2>4. peers \in SUBSET ConnectionIds /\ peers \in SUBSET Within(c)
    BY DEF active_ids, Within
  <2>5. CASE effects' = login_effects(c, sessions[c].dialect, p, peers)
    <3> HIDE DEF p
    <3>1. effects'.deliveries = Deliver(peers, added) \o Burst(c, sessions[c].dialect, p)
      BY <2>3, <2>4, <2>5, LoginDeliveries
    <3>2. [recipients |-> peers, event |-> added] \in S
      <4>1. added \in Event
        BY <2>3, EvType DEF EventKind
      <4> HIDE DEF peers, added
      <4> QED
        BY <2>4, <4>1
    <3>3. ASSUME NEW kind \in {"Welcome", "Query", "Response", "Error"},
                 NEW about \in Callsigns \cup ErrorCode \cup {None}
          PROVE  [recipients |-> {c}, event |-> Ev(kind, about)] \in S
      <4>1. Ev(kind, about) \in Event
        BY EvType DEF EventKind, RelayedType
      <4> QED
        BY <1>0, <4>1
    <3> HIDE DEF peers, added, S
    <3>4. Deliver(peers, added) \in Seq(S) /\ Burst(c, sessions[c].dialect, p) \in Seq(S)
      BY <2>3, <3>2, <3>3, DeliverIn, BurstIn
    <3>5. effects'.deliveries \in Seq(S)
      BY <3>1, <3>4, ConcatProperties
    <3> QED
      BY <3>5, SeqReaches DEF S
  <2> QED
    BY <1>1, <2>1, <2>5
<1>7. CASE weather_answered(c)
  <2>1. \/ effects' = send({c}, Ev("WeatherReport", None))
        \/ effects' = error_effect(c, "NoWeather")
    BY <1>3, <1>7, Zenon DEF weather_answered
  <2> QED
    BY <1>0, <1>1, <2>1, SendReaches
<1> QED
  BY <1>2, <1>4, <1>5, <1>6, <1>7 DEF AsyncReturn

\* Apart from its own session, a task can only close one.
LEMMA OthersKeep ==
  ASSUME TypeOK, NEW c \in ConnectionIds, OwnCall(c),
         \/ disconnect(c) \/ Execute(c) \/ AsyncCall(c, c) \/ AsyncReturn(c)
         \/ \E dialect \in Listeners : register(c, dialect)
  PROVE  \A e \in ConnectionIds \ {c} : sessions'[e] = sessions[e] \/ sessions'[e] = NoSession
<1>0. sessions \in [ConnectionIds -> Session]
  BY DEF TypeOK
<1>1. ASSUME NEW d, NEW before, disconnect_locked(d, before)
      PROVE  \A e \in ConnectionIds : sessions'[e] = sessions[e] \/ sessions'[e] = NoSession
  BY <1>0, <1>1 DEF disconnect_locked
<1>2. CASE Execute(c)
  <2>1. \/ UNCHANGED sessions
        \/ \E d, before : disconnect_locked(d, before)
        \/ \E position : sessions' = [sessions EXCEPT ![c].position = position]
        \/ \E plan : sessions' = [sessions EXCEPT ![c].flight_plan = plan]
    BY <1>2, Zenon DEF Execute, execute_rejected, logoff, update_position, file_flight_plan, route,
       query_flight_plan, kill
  <2> QED
    BY <1>0, <1>1, <2>1
<1>3. CASE AsyncCall(c, c)
  BY <1>3 DEF AsyncCall, identify, login, weather_request
<1>4. CASE AsyncReturn(c)
  <2>1. calls[c].connection_id = c
    BY <1>4 DEF AsyncReturn, identify_unauthorized, identify_authorized, login_unauthenticated,
       login_authenticated, weather_answered, Resume, OwnCall
  <2>2. CASE identify_authorized(c) \/ login_authenticated(c)
    BY <1>0, <2>1, <2>2 DEF identify_authorized, login_authenticated
  <2>3. CASE UNCHANGED sessions
    BY <2>3
  <2> QED
    BY <1>4, <2>2, <2>3 DEF AsyncReturn, identify_unauthorized, login_unauthenticated,
       weather_answered
<1>5. CASE disconnect(c) \/ \E dialect \in Listeners : register(c, dialect)
  BY <1>0, <1>1, <1>5 DEF disconnect, register
<1> QED
  BY <1>2, <1>3, <1>4, <1>5

-----------------------------------------------------------------------------
(***************************************************************************)
(* The invariant is inductive.                                             *)
(***************************************************************************)
\* Recipients are connections.
LEMMA PendingRecipients ==
  ASSUME PendingType, NEW d \in Dispatchers, pending[d] # None
  PROVE  /\ pending[d].deliveries \in Seq(Wire)
         /\ \A i \in DOMAIN pending[d].deliveries :
              pending[d].deliveries[i].recipients \subseteq ConnectionIds
<1>1. pending[d].deliveries \in Seq(Wire)
  BY DEF PendingType, Pending, Wire
<1>2. \A i \in DOMAIN pending[d].deliveries : pending[d].deliveries[i] \in Wire
  BY <1>1, ElementOfSeq
<1> QED
  BY <1>1, <1>2 DEF Wire

\* A dispatch that rests stays addressed, since no task starts over.
LEMMA StillAddressed ==
  ASSUME PendingType, DeliveryInv, NEW d \in Dispatchers, pending'[d] = pending[d],
         \A c \in ConnectionIds : Started(c) => Started(c)'
  PROVE  Addressed(d)'
<1>1. CASE pending[d] = None
  BY <1>1 DEF Addressed
<1>2. CASE pending[d] # None
  <2>1. \A i \in DOMAIN pending[d].deliveries :
          pending[d].deliveries[i].recipients \subseteq ConnectionIds
    BY <1>2, PendingRecipients
  <2> QED
    BY <1>2, <2>1 DEF DeliveryInv, Addressed
<1> QED
  BY <1>1, <1>2

\* The effects that a task takes are addressed to connections that have started, when
\* they reach only the task's own connection and active clients.
LEMMA BeginAddressed ==
  ASSUME TypeOK', TransportType, DeliveryInv, NEW d \in Dispatchers, NEW own \in SUBSET ConnectionIds,
         NEW then \in {"select", "leave", "join", "done"}, begin_dispatch(d, then),
         Reaches(effects'.deliveries, own \cup active_ids(sessions)),
         \A c \in own : Started(c)', \A c \in ConnectionIds : Started(c) => Started(c)'
  PROVE  Addressed(d)'
<1>1. effects' \in Effects /\ PendingType
  BY DEF TypeOK, TransportType
<1>2. /\ DOMAIN pending'[d].deliveries = DOMAIN effects'.deliveries
      /\ \A i \in DOMAIN effects'.deliveries :
           pending'[d].deliveries[i].recipients = effects'.deliveries[i].recipients
  BY <1>1, BeginType
<1>3. \A c \in active_ids(sessions) : Started(c)'
  <2>1. \A c \in active_ids(sessions) : c \in ConnectionIds /\ sessions[c].phase = "Active"
    BY DEF active_ids, IsActive
  <2> QED
    BY <2>1 DEF DeliveryInv, Fresh
<1>4. \A c \in own \cup active_ids(sessions) : Started(c)'
  BY <1>3
<1> QED
  BY <1>2, <1>4 DEF Addressed, Reaches

\* A step of a connection task.
LEMMA TaskDelivery ==
  ASSUME ServerInv, TypeOK', DeliveryInv, NEW c \in ConnectionIds, TaskStep(c)
  PROVE  DeliveryInv'
<1>0. /\ TypeOK /\ TransportType /\ StageType /\ SessionShape /\ CallsignIndexExact
      /\ c \in Dispatchers /\ ConnectionIds \subseteq Dispatchers
      /\ sessions \in [ConnectionIds -> Session] /\ calls \in [ConnectionIds -> Call \cup {None}]
      /\ Fresh(c) /\ OwnCall(c) /\ Addressed(c)
  BY ServerTypeParts, ServerAssumption DEF ServerInv, TransportType, Dispatchers, TypeOK, DeliveryInv
<1>1. /\ \A e \in Dispatchers \ {c} : stage'[e] = stage[e] /\ pending'[e] = pending[e]
      /\ \A e \in ConnectionIds \ {c} : calls'[e] = calls[e]
  BY <1>0, TaskFrame
<1>2. ASSUME NEW from, NEW to \in Stage, Goto(c, from, to) PROVE stage[c] = from /\ stage'[c] = to
  BY <1>0, <1>2, GotoType
<1>3. /\ Started(c) => Started(c)'
      /\ \E from, to \in Stage : Goto(c, from, to)
  <2>1. CASE accept(c) \/ refused(c) \/ token_cancelled(c) \/ peer_gone(c) \/ join_writer(c)
             \/ start_reading(c) \/ remove_handle(c)
    BY <1>2, <2>1 DEF accept, refused, token_cancelled, peer_gone, join_writer, start_reading,
       remove_handle, Stage, Started
  <2>2. CASE handshake_failed(c) \/ final_disconnect(c) \/ command_returned(c) \/ decode_failed(c)
    BY <1>2, <2>2 DEF handshake_failed, final_disconnect, command_returned, decode_failed, Stage,
       Started
  <2>3. CASE process_command(c) \/ register_connection(c)
    BY <1>2, <2>3 DEF process_command, register_connection, Stage, Started
  <2> QED
    BY <2>1, <2>2, <2>3 DEF TaskStep
<1>4. \A e \in ConnectionIds : Started(e) => Started(e)'
  BY <1>0, <1>1, <1>3 DEF Started
<1>5. ASSUME NEW e \in Dispatchers, pending'[e] = pending[e] PROVE Addressed(e)'
  BY <1>0, <1>4, <1>5, StillAddressed DEF TransportType
<1>6. \A e \in Dispatchers \ {c} : Addressed(e)'
  BY <1>1, <1>5
<1>7. \A e \in ConnectionIds \ {c} : Fresh(e)' /\ OwnCall(e)'
  <2>1. \A e \in ConnectionIds \ {c} : sessions'[e] = sessions[e] \/ sessions'[e] = NoSession
    <3>1. CASE UNCHANGED network
      BY <3>1 DEF network
    <3>2. CASE \/ disconnect(c) \/ Execute(c) \/ AsyncCall(c, c) \/ AsyncReturn(c)
               \/ \E dialect \in Listeners : register(c, dialect)
      BY <1>0, <3>2, OthersKeep
    <3> QED
      BY <3>1, <3>2 DEF TaskStep, accept, refused, token_cancelled, peer_gone, join_writer,
         start_reading, remove_handle, decode_failed, register_connection, handshake_failed,
         final_disconnect, process_command, command_returned
  <2> QED
    BY <1>0, <1>1, <2>1 DEF DeliveryInv, Fresh, OwnCall, Started, NoSession
<1>8. OwnCall(c)'
  <2>1. CASE AsyncCall(c, c)
    BY <1>0, <2>1 DEF AsyncCall, identify, login, weather_request, Suspend, OwnCall
  <2>2. CASE AsyncReturn(c)
    BY <1>0, <2>2, CoreFrame DEF OwnCall
  <2>3. CASE UNCHANGED calls
    BY <1>0, <2>3 DEF OwnCall
  <2>4. AsyncCall(c, c) \/ AsyncReturn(c) \/ UNCHANGED calls
    BY <1>0, CoreFrame DEF TaskStep, accept, refused, token_cancelled, peer_gone, join_writer,
       start_reading, remove_handle, decode_failed, register_connection, handshake_failed,
       final_disconnect, process_command, command_returned, network
  <2> QED
    BY <2>1, <2>2, <2>3, <2>4
<1>9. CASE accept(c) \/ refused(c) \/ token_cancelled(c) \/ peer_gone(c) \/ join_writer(c)
           \/ start_reading(c) \/ remove_handle(c)
  <2>1. UNCHANGED <<network, pending>>
    BY <1>9 DEF accept, refused, token_cancelled, peer_gone, join_writer, start_reading,
       remove_handle
  <2>2. ~ Started(c)' => ~ Started(c)
    BY <1>3
  <2>3. Fresh(c)'
    BY <1>0, <2>1, <2>2 DEF Fresh, network
  <2> QED
    BY <1>0, <1>5, <1>6, <1>7, <1>8, <2>1, <2>3 DEF DeliveryInv
<1>10. CASE register_connection(c)
  <2>1. PICK dialect \in Listeners : register(c, dialect)
    BY <1>10 DEF register_connection
  <2>2. sessions'[c] = sessions[c] \/ sessions'[c] = NewSession(dialect)
    BY <1>0, <2>1 DEF register
  <2>3. ~ Started(c)
    BY <1>10 DEF register_connection, Goto, Started
  <2>4. Fresh(c)'
    BY <1>0, <2>2, <2>3 DEF Fresh, NewSession, NoSession
  <2>5. UNCHANGED pending
    BY <1>10 DEF register_connection
  <2> QED
    BY <1>0, <1>5, <1>6, <1>7, <1>8, <2>4, <2>5 DEF DeliveryInv
<1>11. ASSUME NEW from, Goto(c, from, "dispatch"),
              NEW then \in {"select", "leave", "join", "done"}, begin_dispatch(c, then),
              Reaches(effects'.deliveries, {c} \cup active_ids(sessions))
       PROVE  DeliveryInv'
  <2>1. Started(c)'
    BY <1>2, <1>11 DEF Started, Stage
  <2>2. Addressed(c)'
    <3>1. {c} \in SUBSET ConnectionIds /\ \A e \in {c} : Started(e)'
      BY <2>1
    <3> QED
      BY <1>0, <1>4, <1>11, <3>1, BeginAddressed
  <2>3. Fresh(c)'
    BY <2>1 DEF Fresh
  <2> QED
    BY <1>0, <1>6, <1>7, <1>8, <2>2, <2>3 DEF DeliveryInv
<1>12. CASE handshake_failed(c) \/ final_disconnect(c)
  <2>1. disconnect(c)
    BY <1>12 DEF handshake_failed, final_disconnect
  <2>2. Reaches(effects'.deliveries, {c} \cup active_ids(sessions))
    BY <1>0, <2>1, ExecuteReaches DEF Within
  <2> QED
    BY <1>11, <1>12, <2>2 DEF handshake_failed, final_disconnect
<1>13. CASE command_returned(c)
  <2>1. Reaches(effects'.deliveries, {c} \cup active_ids(sessions))
    BY <1>0, <1>13, AsyncReaches DEF Within, command_returned
  <2> QED
    BY <1>11, <1>13, <2>1 DEF command_returned
<1>14. CASE decode_failed(c)
  <2>1. \E code : effects' = error_effect(c, code)
    BY <1>14 DEF decode_failed
  <2>2. Reaches(effects'.deliveries, {c})
    BY <2>1, AnswerReaches
  <2>3. Reaches(effects'.deliveries, {c} \cup active_ids(sessions))
    BY <2>2, ReachesMore
  <2> QED
    BY <1>11, <1>14, <2>3 DEF decode_failed
<1>15. CASE process_command(c)
  <2>1. Reaches(effects'.deliveries, {c} \cup active_ids(sessions))
    BY <1>0, <1>15, ExecuteReaches, AsyncReaches DEF Within, process_command
  <2>2. CASE Goto(c, "select", "dispatch") /\ begin_dispatch(c, "select")
    BY <1>11, <2>1, <2>2
  <2>3. CASE Goto(c, "select", "execute") /\ UNCHANGED pending
    <3>1. Started(c)'
      BY <1>2, <2>3 DEF Started, Stage
    <3>2. Fresh(c)'
      BY <3>1 DEF Fresh
    <3> QED
      BY <1>0, <1>5, <1>6, <1>7, <1>8, <2>3, <3>2 DEF DeliveryInv
  <2> QED
    BY <1>15, <2>2, <2>3 DEF process_command
<1> QED
  BY <1>9, <1>10, <1>12, <1>13, <1>14, <1>15 DEF TaskStep

\* A lookup adds no recipient.
LEMMA RestWithin ==
  ASSUME NEW D \in Seq(Wire), D # <<>>, NEW r \in D[1].recipients
  PROVE  /\ Rest(D, r) \in Seq(Wire)
         /\ \A i \in DOMAIN Rest(D, r) : \E j \in DOMAIN D :
              Rest(D, r)[i].recipients \subseteq D[j].recipients
<1>0. D[1] \in Wire /\ DOMAIN D = 1 .. Len(D) /\ Len(D) \in Nat /\ Len(D) >= 1
  BY ElementOfSeq
<1>1. CASE D[1].recipients \ {r} = {}
  <2>1. /\ Rest(D, r) \in Seq(Wire) /\ Len(Rest(D, r)) = Len(D) - 1
        /\ \A i \in 1 .. Len(D) - 1 : Rest(D, r)[i] = D[i + 1]
    BY <1>0, <1>1 DEF Rest
  <2>2. DOMAIN Rest(D, r) = 1 .. Len(D) - 1
    BY <2>1
  <2>3. ASSUME NEW i \in DOMAIN Rest(D, r)
        PROVE  i + 1 \in DOMAIN D /\ Rest(D, r)[i].recipients \subseteq D[i + 1].recipients
    BY <1>0, <2>1, <2>2
  <2> QED
    BY <2>1, <2>3
<1>2. CASE D[1].recipients \ {r} # {}
  <2> DEFINE first == [D[1] EXCEPT !.recipients = D[1].recipients \ {r}]
  <2>1. first \in Wire /\ first.recipients = D[1].recipients \ {r}
    BY <1>0 DEF Wire
  <2>2. Rest(D, r) = [D EXCEPT ![1] = first]
    BY <1>2 DEF Rest
  <2> HIDE DEF first
  <2>3. Rest(D, r) \in Seq(Wire) /\ DOMAIN Rest(D, r) = DOMAIN D /\ Rest(D, r)[1] = first
        /\ \A i \in DOMAIN D \ {1} : Rest(D, r)[i] = D[i]
    BY <1>0, <2>1, <2>2
  <2> QED
    BY <2>1, <2>3
<1> QED
  BY <1>1, <1>2

\* A step that leaves the core and the stages alone, or finishes a dispatch.
LEMMA DispatchDelivery ==
  ASSUME ServerInv, DeliveryInv, NEW d \in Dispatchers, DispatchStep(d)
  PROVE  DeliveryInv'
<1>0. /\ TypeOK /\ TransportType /\ StageType /\ PendingType /\ HeldHasFrames
      /\ ConnectionIds \subseteq Dispatchers
  BY ServerTypeParts DEF ServerInv, TransportType, Dispatchers
<1>1. UNCHANGED network /\ stage[d] = "dispatch" /\ pending[d] \in Pending
  BY <1>0 DEF DispatchStep, dispatch_lookup, dispatch_send, dispatch_finish, Dispatching, PendingType
<1>2. \A e \in ConnectionIds : Started(e)' <=> Started(e)
  <2>1. CASE UNCHANGED stage
    BY <2>1 DEF Started
  <2>2. CASE dispatch_finish(d)
    <3>1. pending[d].then \in {"select", "leave", "join", "done"} /\ Goto(d, "dispatch", pending[d].then)
      BY <1>1, <2>2 DEF Pending, dispatch_finish
    <3> QED
      BY <1>0, <1>1, <3>1 DEF Goto, StageType, Started
  <2> QED
    BY <2>1, <2>2 DEF DispatchStep, dispatch_lookup, dispatch_send
<1>3. \A e \in ConnectionIds : Fresh(e)' /\ OwnCall(e)'
  BY <1>1, <1>2 DEF DeliveryInv, Fresh, OwnCall, network
<1>4. ASSUME NEW e \in Dispatchers, NEW r \in ConnectionIds,
             pending[e] # None, NEW i \in DOMAIN pending[e].deliveries,
             r \in pending[e].deliveries[i].recipients
      PROVE  Started(r)'
  BY <1>2, <1>4 DEF DeliveryInv, Addressed
<1>5. \A i \in DOMAIN pending[d].deliveries :
        pending[d].deliveries[i].recipients \subseteq ConnectionIds
  <2>1. pending[d] # None
    BY DEF DispatchStep, dispatch_lookup, dispatch_send, dispatch_finish, Dispatching
  <2> QED
    BY <1>0, <2>1, PendingRecipients
<1>6. ASSUME NEW e \in Dispatchers, pending'[e] = pending[e] PROVE Addressed(e)'
  BY <1>0, <1>2, <1>6, StillAddressed
<1>7. CASE dispatch_lookup(d)
  <2>1. /\ pending[d].deliveries \in Seq(Wire) /\ pending[d].deliveries # <<>>
        /\ pending' = [pending EXCEPT ![d] = pending'[d]]
        /\ \E r \in pending[d].deliveries[1].recipients :
             pending'[d].deliveries = Rest(pending[d].deliveries, r)
    BY <1>0, <1>7, LookupStep
  <2>2. PICK r \in pending[d].deliveries[1].recipients :
          pending'[d].deliveries = Rest(pending[d].deliveries, r)
    BY <2>1
  <2>3. \A i \in DOMAIN pending'[d].deliveries : \E j \in DOMAIN pending[d].deliveries :
          pending'[d].deliveries[i].recipients \subseteq pending[d].deliveries[j].recipients
    BY <2>1, <2>2, RestWithin
  <2>4. Addressed(d)'
    <3>1. pending[d] # None
      BY <1>7 DEF dispatch_lookup, Dispatching
    <3> QED
      BY <1>4, <1>5, <2>3, <3>1 DEF Addressed
  <2>5. \A e \in Dispatchers \ {d} : pending'[e] = pending[e]
    BY <1>0, <2>1 DEF PendingType
  <2> QED
    BY <1>3, <1>6, <2>4, <2>5 DEF DeliveryInv
<1>8. CASE dispatch_send(d)
  <2>1. /\ pending'[d].deliveries = pending[d].deliveries
        /\ pending' = [pending EXCEPT ![d] = pending'[d]] /\ pending[d] # None
    BY <1>0, <1>8, SendStep DEF dispatch_send, Dispatching
  <2>2. Addressed(d)'
    BY <1>4, <1>5, <2>1 DEF Addressed
  <2>3. \A e \in Dispatchers \ {d} : pending'[e] = pending[e]
    BY <1>0, <2>1 DEF PendingType
  <2> QED
    BY <1>3, <1>6, <2>2, <2>3 DEF DeliveryInv
<1>9. CASE dispatch_finish(d)
  <2>1. pending' = [pending EXCEPT ![d] = None]
    BY <1>9 DEF dispatch_finish
  <2>2. pending'[d] = None /\ \A e \in Dispatchers \ {d} : pending'[e] = pending[e]
    BY <1>0, <2>1 DEF PendingType
  <2>3. Addressed(d)'
    BY <2>2 DEF Addressed
  <2> QED
    BY <1>3, <1>6, <2>2, <2>3 DEF DeliveryInv
<1> QED
  BY <1>7, <1>8, <1>9 DEF DispatchStep

\* Every step of the server keeps the invariant.
LEMMA DeliveryStep ==
  ASSUME ServerInv, DeliveryInv, [ServerNext]_serverVars
  PROVE  DeliveryInv'
<1>0. /\ TypeOK /\ TypeOK' /\ TransportType /\ StageType /\ PendingType
      /\ Maintenance \in Dispatchers /\ Maintenance \notin ConnectionIds
      /\ ConnectionIds \subseteq Dispatchers
  BY ServerTypeParts, ServerCore, ServerAssumption DEF ServerInv, TransportType, Dispatchers
<1>1. ASSUME UNCHANGED <<network, pending>>, \A c \in ConnectionIds : stage'[c] = stage[c]
      PROVE  DeliveryInv'
  <2>1. \A c \in ConnectionIds : (Started(c)' <=> Started(c)) /\ Fresh(c)' /\ OwnCall(c)'
    BY <1>1 DEF DeliveryInv, Fresh, OwnCall, Started, network
  <2>2. ASSUME NEW d \in Dispatchers PROVE Addressed(d)'
    BY <1>0, <1>1, <2>1, StillAddressed
  <2> QED
    BY <2>1, <2>2 DEF DeliveryInv
<1>2. ASSUME NEW c \in ConnectionIds, WriterTaskStep(c) PROVE DeliveryInv'
  BY <1>1, <1>2 DEF WriterTaskStep, writer_recv, writer_sent, writer_failed, writer_closed,
     writer_drained, writer_return, WriterStep
<1>3. CASE maintenance_tick
  <2>1. \A e \in Dispatchers \ {Maintenance} : stage'[e] = stage[e]
    BY <1>0, <1>3, GotoType DEF maintenance_tick, Stage
  <2>2. \A e \in Dispatchers \ {Maintenance} : pending'[e] = pending[e]
    <3>1. effects' \in Effects
      BY <1>0 DEF TypeOK
    <3> QED
      BY <1>0, <1>3, <3>1, BeginType DEF maintenance_tick
  <2>3. UNCHANGED <<sessions, calls>>
    BY <1>3 DEF maintenance_tick, broadcast
  <2>4. \A c \in ConnectionIds : (Started(c)' <=> Started(c)) /\ Fresh(c)' /\ OwnCall(c)'
    BY <1>0, <2>1, <2>3 DEF DeliveryInv, Fresh, OwnCall, Started
  <2>5. Addressed(Maintenance)'
    <3>1. Reaches(effects'.deliveries, {} \cup active_ids(sessions))
      BY <1>3, SendReaches DEF maintenance_tick, broadcast
    <3>2. {} \in SUBSET ConnectionIds /\ \A c \in {} : Started(c)'
      OBVIOUS
    <3>3. begin_dispatch(Maintenance, "select")
      BY <1>3 DEF maintenance_tick
    <3> QED
      BY <1>0, <2>4, <3>1, <3>2, <3>3, BeginAddressed
  <2>6. ASSUME NEW d \in Dispatchers \ {Maintenance} PROVE Addressed(d)'
    BY <1>0, <2>2, <2>4, StillAddressed
  <2> QED
    BY <2>4, <2>5, <2>6 DEF DeliveryInv
<1>4. CASE maintenance_stops
  <2>1. \A e \in Dispatchers \ {Maintenance} : stage'[e] = stage[e]
    BY <1>0, <1>4, GotoType DEF maintenance_stops, Stage
  <2> QED
    BY <1>0, <1>1, <1>4, <2>1 DEF maintenance_stops
<1>5. CASE stop_listening \/ begin_shutdown \/ UNCHANGED serverVars
  BY <1>1, <1>5 DEF stop_listening, begin_shutdown, serverVars, vars, network
<1> QED
  BY <1>0, <1>2, <1>3, <1>4, <1>5, TaskDelivery, DispatchDelivery DEF ServerNext, stopped

\* Nobody is addressed before reading: for every step of every task.
LEMMA DeliveryInvHolds == ServerSafety => []DeliveryInv
<1>1. ServerInit => DeliveryInv
  <2> SUFFICES ASSUME ServerInit PROVE DeliveryInv
    OBVIOUS
  <2>1. /\ sessions = [c \in ConnectionIds |-> NoSession] /\ calls = [c \in ConnectionIds |-> None]
        /\ pending = [d \in Dispatchers |-> None]
    BY ServerAssumption DEF ServerInit, Init
  <2> QED
    BY <2>1 DEF DeliveryInv, Fresh, OwnCall, Addressed, NoSession
<1>2. ServerInv /\ DeliveryInv /\ [ServerNext]_serverVars => DeliveryInv'
  BY DeliveryStep
<1> QED
  BY <1>1, <1>2, ServerInvHolds, PTL DEF ServerSafety
-----------------------------------------------------------------------------
(***************************************************************************)
(* Counting what is owed.                                                  *)
(***************************************************************************)
\* The deliveries that name r.
Naming(D, r) == {i \in DOMAIN D : r \in D[i].recipients}

LEMMA NamingFinite ==
  ASSUME NEW D \in Seq(Wire), NEW r
  PROVE  IsFiniteSet(Naming(D, r)) /\ Cardinality(Naming(D, r)) \in Nat
<1>1. Naming(D, r) \subseteq 1 .. Len(D)
  BY DEF Naming
<1>2. IsFiniteSet(1 .. Len(D))
  BY FS_Interval
<1>3. IsFiniteSet(Naming(D, r))
  BY <1>1, <1>2, FS_Subset
<1> QED
  BY <1>3, FS_CardinalityType

\* A lookup takes one event from what is owed to its recipient, and nothing from the others.
LEMMA RestNames ==
  ASSUME NEW D \in Seq(Wire), D # <<>>, NEW r \in D[1].recipients, NEW c
  PROVE  Cardinality(Naming(Rest(D, r), c))
           = Cardinality(Naming(D, c)) - (IF c = r THEN 1 ELSE 0)
<1> DEFINE before == Naming(D, c)
           after == Naming(Rest(D, r), c)
<1>0. /\ D[1] \in Wire /\ DOMAIN D = 1 .. Len(D) /\ Len(D) \in Nat /\ Len(D) >= 1
      /\ IsFiniteSet(before) /\ Cardinality(before) \in Nat
  BY ElementOfSeq, NamingFinite
<1>2. CASE D[1].recipients \ {r} # {}
  <2> DEFINE first == [D[1] EXCEPT !.recipients = D[1].recipients \ {r}]
  <2>1. first.recipients = D[1].recipients \ {r}
    BY <1>0 DEF Wire
  <2>2. Rest(D, r) = [D EXCEPT ![1] = first]
    BY <1>2 DEF Rest
  <2> HIDE DEF first
  <2>3. DOMAIN Rest(D, r) = DOMAIN D /\ Rest(D, r)[1] = first
        /\ \A i \in DOMAIN D \ {1} : Rest(D, r)[i] = D[i]
    BY <1>0, <2>2
  <2>4. CASE c = r
    <3>1. after = before \ {1} /\ 1 \in before
      BY <1>0, <2>1, <2>3, <2>4 DEF Naming
    <3> QED
      BY <1>0, <2>4, <3>1, FS_RemoveElement, ZenonT(60)
  <2>5. CASE c # r
    <3>1. after = before
      BY <1>0, <2>1, <2>3, <2>5 DEF Naming
    <3> QED
      BY <1>0, <2>5, <3>1
  <2> QED
    BY <2>4, <2>5
<1>3. CASE D[1].recipients \ {r} = {}
  <2> DEFINE rest == before \ {1}
             shift == [i \in rest |-> i - 1]
  <2>1. /\ DOMAIN Rest(D, r) = 1 .. Len(D) - 1
        /\ \A i \in 1 .. Len(D) - 1 : Rest(D, r)[i] = D[i + 1]
    BY <1>0, <1>3 DEF Rest
  <2>2. \A i \in rest : i \in Int /\ i >= 2 /\ i <= Len(D) /\ c \in D[i].recipients
    BY <1>0 DEF Naming
  <2>3. \A i \in rest : i - 1 \in after
    <3> SUFFICES ASSUME NEW i \in rest PROVE i - 1 \in after
      OBVIOUS
    <3>1. i - 1 \in 1 .. Len(D) - 1 /\ (i - 1) + 1 = i
      BY <1>0, <2>2
    <3>2. Rest(D, r)[i - 1] = D[i]
      BY <2>1, <3>1
    <3> QED
      BY <2>1, <2>2, <3>1, <3>2 DEF Naming
  <2>4. \A j \in after : j + 1 \in rest /\ (j + 1) - 1 = j
    <3> SUFFICES ASSUME NEW j \in after PROVE j + 1 \in rest /\ (j + 1) - 1 = j
      OBVIOUS
    <3>1. j \in 1 .. Len(D) - 1 /\ c \in Rest(D, r)[j].recipients
      BY <2>1 DEF Naming
    <3>2. j + 1 \in 1 .. Len(D) /\ j + 1 # 1 /\ c \in D[j + 1].recipients /\ (j + 1) - 1 = j
      BY <1>0, <2>1, <3>1
    <3> QED
      BY <1>0, <3>2 DEF Naming
  <2>5. shift \in Bijection(rest, after)
    <3> HIDE DEF rest, after
    <3>1. shift \in [rest -> after]
      BY <2>3
    <3>2. \A a, b \in rest : shift[a] = shift[b] => a = b
      BY <2>2
    <3>3. \A j \in after : \E i \in rest : shift[i] = j
      BY <2>4
    <3> QED
      BY <3>1, <3>2, <3>3, Fun_IsBij
  <2>6. IsFiniteSet(rest)
    BY <1>0, FS_RemoveElement
  <2>7. Cardinality(after) = Cardinality(rest)
    <3> HIDE DEF rest, after, shift
    <3> QED
      BY <2>5, <2>6, FS_Bijection DEF ExistsBijection
  <2>8. CASE c = r
    <3>1. 1 \in before
      BY <1>0, <2>8 DEF Naming
    <3> QED
      BY <1>0, <2>7, <2>8, <3>1, FS_RemoveElement
  <2>9. CASE c # r
    <3>1. 1 \notin before
      BY <1>3, <2>9 DEF Naming
    <3>2. rest = before
      BY <3>1
    <3>3. Cardinality(after) = Cardinality(before)
      BY <2>7, <3>2
    <3> QED
      BY <1>0, <2>9, <3>3
  <2> QED
    BY <2>8, <2>9
<1> QED
  BY <1>2, <1>3

\* What a task owes is a number.
LEMMA OwedType ==
  ASSUME PendingType, NEW d \in Dispatchers, NEW r \in ConnectionIds
  PROVE  /\ Owed(d, r) \in Nat
         /\ pending[d] # None =>
              Owed(d, r) = Cardinality(Naming(pending[d].deliveries, r))
                             + (IF pending[d].held = r THEN 1 ELSE 0)
<1>1. CASE pending[d] = None
  BY <1>1 DEF Owed
<1>2. CASE pending[d] # None
  <2>0. pending[d].deliveries \in Seq(Wire)
    BY <1>2, PendingRecipients
  <2>1. Cardinality(Naming(pending[d].deliveries, r)) \in Nat
    BY <2>0, NamingFinite
  <2>2. Owed(d, r) = Cardinality(Naming(pending[d].deliveries, r))
                       + (IF pending[d].held = r THEN 1 ELSE 0)
    BY <1>2 DEF Owed, Naming
  <2> QED
    BY <2>1, <2>2
<1> QED
  BY <1>1, <1>2

\* No client is left with a silent gap: an event leaves what a task owes to a connection only
\* by entering its mailbox, or when the connection is cancelled or has left its read loop.
THEOREM NoGap == ServerSafety => NoSilentGap
<1>1. ServerInv /\ ServerInv' /\ DeliveryInv /\ [ServerNext]_serverVars =>
        \A d \in Dispatchers, r \in ConnectionIds :
          mailbox'[r] = mailbox[r] /\ ~ cancelled'[r] /\ ~ HasLeft(r) => Owed(d, r)' >= Owed(d, r)
  <2> SUFFICES ASSUME ServerInv, ServerInv', DeliveryInv, [ServerNext]_serverVars,
                      NEW d \in Dispatchers, NEW r \in ConnectionIds,
                      mailbox'[r] = mailbox[r], ~ cancelled'[r], ~ HasLeft(r)
               PROVE  Owed(d, r)' >= Owed(d, r)
    OBVIOUS
  <2>0. /\ TypeOK /\ TypeOK' /\ TransportType /\ HeldHasFrames /\ Discipline
        /\ PendingType /\ StageType /\ MailboxType /\ CancelledType
    BY ServerTypeParts, ServerCore DEF ServerInv, TransportType
  <2>1. PendingType'
    BY DEF ServerInv, ServerTypeOK, PendingType
  <2>2. /\ Owed(d, r) \in Nat
        /\ pending[d] # None =>
             Owed(d, r) = Cardinality(Naming(pending[d].deliveries, r))
                            + (IF pending[d].held = r THEN 1 ELSE 0)
    BY <2>0, OwedType
  <2>3. /\ Owed(d, r)' \in Nat
        /\ pending'[d] # None =>
             Owed(d, r)' = Cardinality(Naming(pending'[d].deliveries, r))
                             + (IF pending'[d].held = r THEN 1 ELSE 0)
    <3>1. CASE pending'[d] = None
      BY <3>1 DEF Owed
    <3>2. CASE pending'[d] # None
      <4>1. pending'[d].deliveries \in Seq(Wire)
        BY <2>1, <3>2 DEF PendingType, Pending, Wire
      <4>2. Cardinality(Naming(pending'[d].deliveries, r)) \in Nat
        BY <4>1, NamingFinite
      <4>3. Owed(d, r)' = Cardinality(Naming(pending'[d].deliveries, r))
                            + (IF pending'[d].held = r THEN 1 ELSE 0)
        BY <3>2 DEF Owed, Naming
      <4> QED
        BY <4>2, <4>3
    <3> QED
      BY <3>1, <3>2
  <2>4. CASE pending[d] = None
    <3>1. Owed(d, r) = 0
      BY <2>4 DEF Owed
    <3> QED
      BY <2>3, <3>1
  <2>5. CASE pending'[d] = pending[d]
    <3>1. Owed(d, r)' = Owed(d, r)
      BY <2>5 DEF Owed
    <3> QED
      BY <2>2, <3>1
  <2>6. CASE pending[d] # None /\ dispatch_lookup(d)
    <3>1. /\ pending[d].deliveries \in Seq(Wire) /\ pending[d].deliveries # <<>>
          /\ pending[d].held = None /\ pending'[d] \in Pending
          /\ \E q \in pending[d].deliveries[1].recipients :
               /\ pending'[d].deliveries = Rest(pending[d].deliveries, q)
               /\ pending'[d].held = (IF q \in handles THEN q ELSE None)
      BY <2>0, <2>6, LookupStep
    <3>2. PICK q \in pending[d].deliveries[1].recipients :
            /\ pending'[d].deliveries = Rest(pending[d].deliveries, q)
            /\ pending'[d].held = (IF q \in handles THEN q ELSE None)
      BY <3>1
    <3>3. q = r => q \in handles
      <4> SUFFICES ASSUME q = r, r \notin handles PROVE FALSE
        OBVIOUS
      <4>1. Started(r)
        BY <2>6, <3>1, <3>2 DEF DeliveryInv, Addressed
      <4>2. ~ Serving(r) /\ (stage[r] = "dispatch" => pending[r] \in Pending)
        BY <2>0 DEF Discipline, Disciplined
      <4>3. stage[r] \in Stage
        BY <2>0 DEF StageType, Dispatchers
      <4>4. stage[r] = "dispatch" => pending[r].then \in {"select", "leave", "join", "done"}
        BY <4>2 DEF Pending
      <4> QED
        BY <4>1, <4>2, <4>3, <4>4 DEF Started, Serving, HasLeft, Stage
    <3>4. Cardinality(Naming(pending'[d].deliveries, r))
            = Cardinality(Naming(pending[d].deliveries, r)) - (IF r = q THEN 1 ELSE 0)
      BY <3>1, <3>2, RestNames
    <3>5. pending'[d] # None /\ r # None
      BY <3>1, NoneAssumption, PendingAssumption
    <3>6. Cardinality(Naming(pending[d].deliveries, r)) \in Nat
      BY <3>1, NamingFinite
    <3> QED
      BY <2>2, <2>3, <2>6, <3>1, <3>2, <3>3, <3>4, <3>5, <3>6
  <2>7. CASE pending[d] # None /\ dispatch_send(d)
    <3>1. /\ pending[d].held \in ConnectionIds
          /\ pending'[d].held = None /\ pending'[d].deliveries = pending[d].deliveries
          /\ pending'[d] \in Pending
          /\ \E encoded \in BOOLEAN : post(pending[d].held, pending[d].frames, encoded)
      BY <2>0, <2>7, SendStep
    <3>2. pending[d].held # r
      <4> SUFFICES ASSUME pending[d].held = r PROVE FALSE
        OBVIOUS
      <4>1. PICK encoded \in BOOLEAN : post(r, pending[d].frames, encoded)
        BY <3>1
      <4>2. CASE encoded /\ HasRoom(r)
        <5>1. mailbox'[r] = Append(mailbox[r], pending[d].frames)
          BY <2>0, <4>1, <4>2 DEF post, MailboxType
        <5>2. mailbox[r] \in Seq(Outbound)
          BY <2>0 DEF MailboxType
        <5> QED
          BY <5>1, <5>2
      <4>3. CASE ~ (encoded /\ HasRoom(r))
        BY <2>0, <4>1, <4>3 DEF post, CancelledType
      <4> QED
        BY <4>2, <4>3
    <3>3. pending'[d] # None /\ r # None
      BY <3>1, NoneAssumption, PendingAssumption
    <3>4. Owed(d, r)' = Owed(d, r)
      BY <2>2, <2>3, <2>7, <3>1, <3>2, <3>3
    <3> QED
      BY <2>2, <3>4
  <2>8. CASE pending[d] # None /\ dispatch_finish(d)
    <3>1. pending[d].deliveries = <<>> /\ pending[d].held = None
      BY <2>8 DEF dispatch_finish
    <3>2. Naming(pending[d].deliveries, r) = {}
      BY <3>1 DEF Naming
    <3>3. Cardinality(Naming(pending[d].deliveries, r)) = 0
      BY <3>2, FS_EmptySet
    <3>4. pending[d].held # r
      BY <3>1, NoneAssumption
    <3>5. Owed(d, r) = 0
      BY <2>2, <2>8, <3>3, <3>4
    <3> QED
      BY <2>3, <3>5
  <2>9. pending[d] = None \/ pending'[d] = pending[d] \/ DispatchStep(d)
    <3>1. ASSUME NEW e \in Dispatchers, e # d, DispatchStep(e) PROVE pending'[d] = pending[d]
      <4>1. \E x : pending' = [pending EXCEPT ![e] = x]
        BY <3>1, Zenon DEF DispatchStep, dispatch_lookup, dispatch_send, dispatch_finish
      <4> QED
        BY <2>0, <3>1, <4>1 DEF PendingType
    <3>2. ASSUME NEW c \in ConnectionIds, TaskStep(c) PROVE pending[d] = None \/ pending'[d] = pending[d]
      <4>1. c # d => pending'[d] = pending[d]
        BY <2>0, <3>2, TaskFrame
      <4>2. stage[c] = "dispatch" => FALSE
        BY <3>2 DEF TaskStep, accept, refused, token_cancelled, peer_gone, join_writer,
           start_reading, remove_handle, decode_failed, register_connection, handshake_failed,
           final_disconnect, process_command, command_returned, Goto
      <4>3. c = d => pending[d] = None
        BY <2>0, <4>2 DEF Discipline
      <4> QED
        BY <4>1, <4>3
    <3>3. ASSUME NEW c \in ConnectionIds, WriterTaskStep(c) PROVE UNCHANGED pending
      BY <3>3 DEF WriterTaskStep, writer_recv, writer_sent, writer_failed, writer_closed,
         writer_drained, writer_return, WriterStep
    <3>4. CASE maintenance_tick
      <4>1. stage[Maintenance] = "select"
        BY <3>4 DEF maintenance_tick, Goto
      <4>2. pending[Maintenance] = None
        BY <2>0, <4>1 DEF Discipline, Dispatchers
      <4>3. d # Maintenance => pending'[d] = pending[d]
        BY <2>0, <3>4 DEF maintenance_tick, begin_dispatch, PendingType
      <4> QED
        BY <4>2, <4>3
    <3>5. CASE maintenance_stops \/ stop_listening \/ begin_shutdown \/ UNCHANGED serverVars
      BY <3>5 DEF maintenance_stops, stop_listening, begin_shutdown, serverVars
    <3> QED
      BY <3>1, <3>2, <3>3, <3>4, <3>5 DEF ServerNext, stopped
  <2> QED
    BY <2>4, <2>5, <2>6, <2>7, <2>8, <2>9 DEF DispatchStep
<1> QED
  BY <1>1, ServerInvHolds, DeliveryInvHolds, PTL DEF ServerSafety, NoSilentGap
=============================================================================
