--------------------------- MODULE NetworkProofs ---------------------------
(***************************************************************************)
(* Theorems about the network core, for every set of connections, tasks,   *)
(* callsigns, accounts and commands.                                       *)
(***************************************************************************)
EXTENDS Network, SequenceTheorems, TLAPS

-----------------------------------------------------------------------------
(***************************************************************************)
(* The effects constructors are well typed.                                *)
(***************************************************************************)
\* A delivery built by Deliver is a sequence of at most one Delivery.
LEMMA DeliverType ==
  ASSUME NEW R \in SUBSET ConnectionIds, NEW e \in Event
  PROVE  Deliver(R, e) \in Seq(Delivery)
  <1> DEFINE d == [recipients |-> R, event |-> e]
  <1>1. d \in Delivery
    BY DEF Delivery
  <1> HIDE DEF d
  <1>2. <<>> \in Seq(Delivery) /\ <<d>> \in Seq(Delivery)
    BY <1>1
  <1> QED BY <1>2 DEF Deliver, d

\* An event built by Ev is an Event.
LEMMA EvType ==
  ASSUME NEW k \in EventKind, NEW a \in Callsigns \cup ErrorCode \cup {None}
  PROVE  Ev(k, a) \in Event
  BY DEF Ev, Event

\* send returns Effects.
LEMMA SendType ==
  ASSUME NEW R \in SUBSET ConnectionIds, NEW e \in Event
  PROVE  send(R, e) \in Effects
  BY DeliverType DEF send, Effects

\* A step that ends no call leaves Effects.
LEMMA NothingType == Nothing \in Effects
  BY DEF Nothing, Effects

\* error_effect and error_and_close return Effects.
LEMMA ErrorType ==
  ASSUME NEW c \in ConnectionIds, NEW code \in ErrorCode
  PROVE  /\ error_effect(c, code) \in Effects
         /\ error_and_close(c, code) \in Effects
  <1>1. Ev("Error", code) \in Event
    BY EvType DEF EventKind
  <1>2. error_effect(c, code) \in Effects
    BY <1>1, SendType DEF error_effect
  <1>3. error_and_close(c, code) \in Effects
    BY <1>2 DEF error_and_close, Effects
  <1> QED BY <1>2, <1>3

\* refusal returns Effects for every verdict that is an error code or "Gone".
LEMMA RefusalType ==
  ASSUME NEW c \in ConnectionIds, NEW verdict \in ErrorCode \cup {"Gone"}
  PROVE  refusal(c, verdict) \in Effects
  <1>1. "AlreadyRegistered" \in ErrorCode
    BY DEF ErrorCode
  <1>2. CASE verdict = "Gone"
    BY <1>2, NothingType DEF refusal
  <1>3. CASE verdict # "Gone"
    BY <1>3, <1>1, ErrorType DEF refusal
  <1> QED BY <1>2, <1>3

\* Recipients are connections.
LEMMA RecipientsType ==
  ASSUME NEW s, NEW c \in ConnectionIds
  PROVE  /\ active_ids(s) \in SUBSET ConnectionIds
         /\ Others(s, c) \in SUBSET ConnectionIds
         /\ position_recipients(s, c) \in SUBSET ConnectionIds
         /\ \A range : flight_plan_recipients(s, c, range) \in SUBSET ConnectionIds
  BY DEF active_ids, Others, position_recipients, flight_plan_recipients

\* resolve_destination returns connections: the Direct branch reads the index.
LEMMA ResolveType ==
  ASSUME NEW s, NEW index \in [Callsigns -> ConnectionIds \cup {None}],
         NEW c \in ConnectionIds, NEW m \in Messages, NEW policy
  PROVE  resolve_destination(s, index, c, m.destination, policy) \in SUBSET ConnectionIds
  <1> DEFINE d == m.destination
  <1>1. m \in Message /\ (d.kind = "Direct" => d.callsign # None)
    BY NetworkAssumption
  <1>2. d.kind \in DestinationKind /\ d.callsign \in Callsigns \cup {None}
    BY <1>1 DEF Message, Destination
  <1> HIDE DEF d
  <1>3. Others(s, c) \in SUBSET ConnectionIds
    BY RecipientsType
  <1>4. CASE d.kind = "Direct"
    <2>1. index[d.callsign] \in ConnectionIds \cup {None}
      BY <1>1, <1>2, <1>4 DEF d
    <2> QED BY <2>1, <1>4 DEF resolve_destination, d
  <1>5. CASE d.kind # "Direct"
    BY <1>2, <1>3, <1>5 DEF resolve_destination, DestinationKind, d
  <1> QED BY <1>4, <1>5

-----------------------------------------------------------------------------
(***************************************************************************)
(* Type correctness.                                                       *)
(***************************************************************************)
\* The absent session is a Session.
LEMMA NoSessionType == NoSession \in Session
  BY DEF NoSession, Session, SessionPhase

\* register inserts a Session.
LEMMA NewSessionType ==
  ASSUME NEW dialect \in Listeners
  PROVE  NewSession(dialect) \in Session
  BY NetworkAssumption DEF NewSession, NoSession, Session, SessionPhase

\* What register puts into each field of a new session.
LEMMA NewSessionFields ==
  ASSUME NEW dialect
  PROVE  /\ NewSession(dialect).phase = "Connected"
         /\ NewSession(dialect).generation = 0
         /\ NewSession(dialect).identification = None
         /\ NewSession(dialect).presence = None
         /\ NewSession(dialect).position = None
         /\ NewSession(dialect).flight_plan = None
  BY DEF NewSession, NoSession

\* The empty network is well typed.
LEMMA InitType == Init => TypeOK
  BY NoSessionType, NothingType DEF Init, TypeOK

\* Removing a session keeps the types, whatever was delivered before.
LEMMA DisconnectType ==
  ASSUME TypeOK, NEW c \in ConnectionIds, NEW before \in Seq(Delivery),
         disconnect_locked(c, before)
  PROVE  TypeOK'
  <1> DEFINE gone == sessions[c]
             rest == [sessions EXCEPT ![c] = NoSession]
             farewell == IF gone.presence = None THEN <<>>
                         ELSE Deliver(active_ids(rest), Ev("ClientRemoved", gone.presence.callsign))
  <1>1. gone \in Session /\ rest \in [ConnectionIds -> Session]
    BY NoSessionType DEF TypeOK
  <1>2. gone.presence # None => gone.presence.callsign \in Callsigns
    BY <1>1 DEF Session, ClientPresence
  <1>3. farewell \in Seq(Delivery)
    <2>1. CASE gone.presence = None
      BY <2>1
    <2>2. CASE gone.presence # None
      <3>1. Ev("ClientRemoved", gone.presence.callsign) \in Event
        BY <1>2, <2>2, EvType DEF EventKind
      <3>2. active_ids(rest) \in SUBSET ConnectionIds
        BY RecipientsType
      <3> QED BY <3>1, <3>2, <2>2, DeliverType
    <2> QED BY <2>1, <2>2
  <1>4. sessions' \in [ConnectionIds -> Session]
    BY <1>1 DEF disconnect_locked
  <1>5. callsigns' \in [Callsigns -> ConnectionIds \cup {None}]
    BY <1>2 DEF disconnect_locked, TypeOK
  <1>6. effects' \in Effects
    <2> HIDE DEF farewell
    <2>1. before \o farewell \in Seq(Delivery)
      BY <1>3
    <2>2. effects' = IF gone.phase = "Closed"
                    THEN [Nothing EXCEPT !.deliveries = before]
                    ELSE [deliveries |-> before \o farewell, close |-> c]
      BY DEF disconnect_locked, farewell
    <2> QED BY <2>1, <2>2 DEF Nothing, Effects
  <1>7. UNCHANGED <<registered, calls>>
    BY DEF disconnect_locked
  <1> QED BY <1>4, <1>5, <1>6, <1>7 DEF TypeOK

\* Registration and disconnection.
LEMMA LifecycleType ==
  ASSUME TypeOK, NEW c \in ConnectionIds, Lifecycle(c)
  PROVE  TypeOK'
  <1>1. ASSUME NEW dialect \in Listeners, register(c, dialect)
        PROVE  TypeOK'
    BY <1>1, NewSessionType, NothingType DEF TypeOK, register
  <1>2. CASE disconnect(c)
    <2>1. <<>> \in Seq(Delivery)
      OBVIOUS
    <2> QED BY <1>2, <2>1, DisconnectType DEF disconnect
  <1> QED BY <1>1, <1>2 DEF Lifecycle

\* A suspended call keeps the types.
LEMMA SuspendType ==
  ASSUME TypeOK, NEW t \in Tasks, NEW op, NEW c, NEW command, NEW generation,
         [op |-> op, connection_id |-> c, command |-> command, generation |-> generation] \in Call,
         Suspend(t, op, c, command, generation)
  PROVE  calls' \in [Tasks -> Call \cup {None}]
  BY DEF TypeOK, Suspend

\* The call that resumes after its await, and the table without it, are well typed.
LEMMA ResumeType ==
  ASSUME TypeOK, NEW t \in Tasks, NEW op, Resume(t, op)
  PROVE  /\ calls' \in [Tasks -> Call \cup {None}]
         /\ calls[t] \in Call
         /\ calls[t].connection_id \in ConnectionIds
  <1>1. calls[t] \in Call
    BY DEF TypeOK, Resume
  <1>2. calls[t].connection_id \in ConnectionIds
    BY <1>1 DEF Call
  <1>3. calls' \in [Tasks -> Call \cup {None}]
    BY DEF TypeOK, Resume
  <1> QED BY <1>1, <1>2, <1>3

\* The verdicts are "Ok", "Gone" or error codes.
LEMMA VerdictType ==
  ASSUME NEW s, NEW command, NEW g, NEW id
  PROVE  /\ identify_verdict(s, g) \in {"Ok", "Gone"} \cup ErrorCode
         /\ login_verdict(s, command) \in {"Ok", "Gone"} \cup ErrorCode
         /\ rating_verdict(command, id) \in {"Ok"} \cup ErrorCode
         /\ activate_verdict(s, command, g) \in {"Ok", "Gone"} \cup ErrorCode
  BY DEF identify_verdict, login_verdict, rating_verdict, activate_verdict, ErrorCode

\* The critical section before the await keeps the types.
LEMMA AsyncCallType ==
  ASSUME TypeOK, NEW t \in Tasks, NEW c \in ConnectionIds, AsyncCall(t, c)
  PROVE  TypeOK'
  <1>0. sessions[c] \in Session /\ sessions[c].generation \in Nat
    BY DEF TypeOK, Session
  <1>1. ASSUME NEW command \in Identifications, identify(t, c, command)
        PROVE  TypeOK'
    <2> DEFINE verdict == identify_verdict(sessions[c], sessions[c].generation)
               call == [op |-> "identify", connection_id |-> c, command |-> command,
                        generation |-> sessions[c].generation]
    <2>1. call \in Call
      BY <1>0, NetworkAssumption DEF Call
    <2>2. CASE verdict = "Ok"
      BY <2>1, <2>2, <1>1, SuspendType, NothingType DEF identify, TypeOK
    <2>3. CASE verdict # "Ok"
      BY <2>3, <1>1, VerdictType, RefusalType DEF identify, TypeOK
    <2> QED BY <2>2, <2>3
  <1>2. ASSUME NEW command \in Logins, login(t, c, command)
        PROVE  TypeOK'
    <2> DEFINE verdict == login_verdict(sessions[c], command)
               call == [op |-> "login", connection_id |-> c, command |-> command,
                        generation |-> sessions[c].generation]
    <2>1. call \in Call
      BY <1>0, NetworkAssumption DEF Call
    <2>2. CASE verdict = "Ok"
      BY <2>1, <2>2, <1>2, SuspendType, NothingType DEF login, TypeOK
    <2>3. CASE verdict # "Ok"
      BY <2>3, <1>2, VerdictType, RefusalType DEF login, TypeOK
    <2> QED BY <2>2, <2>3
  <1>3. ASSUME NEW source \in Callsigns, weather_request(t, c, source)
        PROVE  TypeOK'
    <2>1. [op |-> "weather", connection_id |-> c, command |-> None, generation |-> 0] \in Call
      BY DEF Call
    <2> QED BY <2>1, <1>3, SuspendType, NothingType DEF weather_request, TypeOK
  <1> QED BY <1>1, <1>2, <1>3 DEF AsyncCall

\* The burst of a successful login is a sequence of deliveries.
LEMMA LoginEffectsType ==
  ASSUME NEW c \in ConnectionIds, NEW dialect, NEW presence \in ClientPresence,
         NEW peers \in SUBSET ConnectionIds
  PROVE  login_effects(c, dialect, presence, peers) \in Effects
  <1> DEFINE added == Deliver(peers, Ev("ClientAdded", presence.callsign))
             motd == [line \in 1..(1 + MotdLines) |->
                        [recipients |-> {c}, event |-> Ev("Welcome", presence.callsign)]]
             profile == IF dialect = "Vatsim" THEN vatsim_profile(c, presence) ELSE <<>>
  <1>0. presence.callsign \in Callsigns
    BY DEF ClientPresence
  <1>1. /\ Ev("ClientAdded", presence.callsign) \in Event
        /\ Ev("Welcome", presence.callsign) \in Event
        /\ Ev("Query", None) \in Event
        /\ Ev("Response", presence.callsign) \in Event
        /\ Ev("Response", None) \in Event
        /\ Ev("Error", "NoFlightPlan") \in Event
    BY <1>0, EvType DEF EventKind, RelayedType, ErrorCode
  <1>2. added \in Seq(Delivery)
    BY <1>1, DeliverType
  <1>3. motd \in Seq(Delivery)
    <2>1. [recipients |-> {c}, event |-> Ev("Welcome", presence.callsign)] \in Delivery
      BY <1>1 DEF Delivery
    <2>2. 1 + MotdLines \in Nat
      BY NetworkAssumption
    <2>3. motd \in [1..(1 + MotdLines) -> Delivery]
      BY <2>1
    <2> HIDE DEF motd
    <2> QED BY <2>2, <2>3, SeqDef
  <1>4. vatsim_profile(c, presence) \in Seq(Delivery)
    <2>1. /\ Deliver({c}, Ev("Query", None)) \in Seq(Delivery)
          /\ Deliver({c}, Ev("Response", presence.callsign)) \in Seq(Delivery)
          /\ Deliver({c}, Ev("Response", None)) \in Seq(Delivery)
          /\ Deliver({c}, Ev("Error", "NoFlightPlan")) \in Seq(Delivery)
      BY <1>1, DeliverType
    <2> QED BY <2>1 DEF vatsim_profile
  <1>5. profile \in Seq(Delivery)
    BY <1>4
  <1> HIDE DEF added, motd, profile
  <1>6. added \o motd \o profile \in Seq(Delivery)
    BY <1>2, <1>3, <1>5
  <1>7. login_effects(c, dialect, presence, peers)
          = [deliveries |-> added \o motd \o profile, close |-> None]
    BY DEF login_effects, added, motd, profile
  <1> QED BY <1>6, <1>7 DEF Effects

\* The presence built from a login is a ClientPresence.
LEMMA PresenceType ==
  ASSUME NEW command \in LoginCommand
  PROVE  presence_of(command) \in ClientPresence
  BY DEF LoginCommand, presence_of, ClientPresence

\* The critical section after the await keeps the types, whatever the port answers.
LEMMA AsyncReturnType ==
  ASSUME TypeOK, NEW t \in Tasks, AsyncReturn(t)
  PROVE  TypeOK'
  <1> DEFINE c == calls[t].connection_id
             command == calls[t].command
  <1>1. ASSUME NEW op, Resume(t, op), op \in {"identify", "login", "weather"}
        PROVE  /\ c \in ConnectionIds
               /\ sessions[c] \in Session
               /\ op = "identify" => command \in Identification
               /\ op = "login" => command \in LoginCommand
               /\ calls' \in [Tasks -> Call \cup {None}]
    <2>1. calls[t] \in Call /\ calls[t].op = op
      BY <1>1, ResumeType DEF Resume
    <2>2. /\ op = "identify" => command \in Identification
          /\ op = "login" => command \in LoginCommand
      BY <2>1 DEF Call
    <2> QED BY <2>1, <2>2, <1>1, ResumeType DEF TypeOK
  <1>2. CASE identify_unauthorized(t)
    <2>1. effects' \in Effects
      BY <1>1, <1>2, ErrorType DEF identify_unauthorized, ErrorCode
    <2> QED BY <2>1, <1>1, <1>2 DEF identify_unauthorized, TypeOK
  <1>3. CASE identify_authorized(t)
    <2> DEFINE verdict == identify_verdict(sessions[c], calls[t].generation)
    <2>1. Resume(t, "identify") /\ UNCHANGED <<callsigns, registered>>
      BY <1>3 DEF identify_authorized
    <2>2. CASE verdict = "Ok"
      <3>1. sessions' = [sessions EXCEPT ![c].identification = command,
                                         ![c].phase = "Identified",
                                         ![c].generation = @ + 1]
        BY <2>2, <1>3 DEF identify_authorized
      <3>2. sessions' \in [ConnectionIds -> Session]
        BY <3>1, <2>1, <1>1 DEF TypeOK, Session, SessionPhase
      <3> QED BY <3>2, <2>1, <2>2, <1>1, <1>3, NothingType DEF identify_authorized, TypeOK
    <2>3. CASE verdict # "Ok"
      BY <2>1, <2>3, <1>1, <1>3, VerdictType, RefusalType DEF identify_authorized, TypeOK
    <2> QED BY <2>2, <2>3
  <1>4. CASE login_unauthenticated(t)
    <2>1. effects' \in Effects
      BY <1>1, <1>4, ErrorType DEF login_unauthenticated, ErrorCode
    <2> QED BY <2>1, <1>1, <1>4 DEF login_unauthenticated, TypeOK
  <1>5. CASE login_authenticated(t)
    <2> DEFINE rating == rating_verdict(command, Users[command.network_id])
               verdict == IF rating # "Ok" THEN rating
                          ELSE activate_verdict(sessions[c], command, calls[t].generation)
               presence == presence_of(command)
    <2>1. Resume(t, "login") /\ UNCHANGED registered
      BY <1>5 DEF login_authenticated
    <2>2. command \in LoginCommand /\ presence \in ClientPresence
      BY <2>1, <1>1, PresenceType
    <2>3. CASE verdict = "Ok"
      <3>1. /\ sessions' = [sessions EXCEPT ![c].phase = "Active",
                                            ![c].presence = presence,
                                            ![c].generation = @ + 1]
            /\ callsigns' = [callsigns EXCEPT ![command.callsign] = c]
            /\ effects' = login_effects(c, sessions[c].dialect, presence,
                                        active_ids(sessions) \ {c})
        BY <2>3, <1>5 DEF login_authenticated
      <3> HIDE DEF presence
      <3>2. sessions' \in [ConnectionIds -> Session]
        BY <3>1, <2>1, <2>2, <1>1 DEF TypeOK, Session, SessionPhase
      <3>3. callsigns' \in [Callsigns -> ConnectionIds \cup {None}]
        BY <3>1, <2>1, <1>1 DEF TypeOK
      <3>4. effects' \in Effects
        <4>1. active_ids(sessions) \ {c} \in SUBSET ConnectionIds
          BY <2>1, <1>1, RecipientsType
        <4> QED BY <4>1, <3>1, <2>1, <2>2, <1>1, LoginEffectsType
      <3> QED BY <3>2, <3>3, <3>4, <2>1, <1>1 DEF TypeOK
    <2>4. CASE verdict # "Ok"
      <3>1. verdict \in ErrorCode \cup {"Gone"}
        BY <2>4, VerdictType
      <3> HIDE DEF verdict
      <3>2. effects' = refusal(c, verdict) /\ UNCHANGED <<sessions, callsigns>>
        BY <2>4, <1>5 DEF login_authenticated, verdict
      <3> QED BY <3>1, <3>2, <2>1, <1>1, RefusalType DEF TypeOK
    <2> QED BY <2>3, <2>4
  <1>6. CASE weather_answered(t)
    <2>1. Ev("WeatherReport", None) \in Event /\ "NoWeather" \in ErrorCode
      BY EvType DEF EventKind, ErrorCode
    <2>2. Resume(t, "weather") /\ c \in ConnectionIds
      BY <1>1, <1>6 DEF weather_answered
    <2>3. effects' \in Effects
      BY <2>1, <2>2, <1>6, SendType, ErrorType DEF weather_answered
    <2> QED BY <2>2, <2>3, <1>1, <1>6 DEF weather_answered, TypeOK
  <1> QED BY <1>2, <1>3, <1>4, <1>5, <1>6 DEF AsyncReturn

\* Every command of execute_active keeps the types.
LEMMA ExecuteType ==
  ASSUME TypeOK, NEW c \in ConnectionIds, Execute(c)
  PROVE  TypeOK'
  <1>0. sessions[c] \in Session
    BY DEF TypeOK
  <1>1. ASSUME NEW source \in Callsigns, execute_rejected(c, source)
        PROVE  TypeOK'
    <2>1. effects' \in Effects
      BY <1>1, NothingType, ErrorType DEF execute_rejected, ErrorCode
    <2> QED BY <2>1, <1>1 DEF execute_rejected, TypeOK
  <1>2. ASSUME NEW source \in Callsigns, logoff(c, source)
        PROVE  TypeOK'
    <2>1. <<>> \in Seq(Delivery)
      OBVIOUS
    <2> QED BY <2>1, <1>2, DisconnectType DEF logoff
  <1>3. ASSUME NEW position \in Positions, update_position(c, position)
        PROVE  TypeOK'
    <2>1. position \in Position /\ position.callsign \in Callsigns
      BY NetworkAssumption DEF Position
    <2>2. Ev("Position", position.callsign) \in Event /\ "Syntax" \in ErrorCode
      BY <2>1, EvType DEF EventKind, ErrorCode
    <2>3. effects' \in Effects
      BY <2>2, <1>3, SendType, RecipientsType, ErrorType DEF update_position
    <2>4. sessions' \in [ConnectionIds -> Session]
      BY <2>1, <1>0, <1>3 DEF update_position, TypeOK, Session
    <2> QED BY <2>3, <2>4, <1>3 DEF update_position, TypeOK
  <1>4. ASSUME NEW plan \in FlightPlans, file_flight_plan(c, plan)
        PROVE  TypeOK'
    <2>1. plan \in FlightPlan /\ plan.callsign \in Callsigns
      BY NetworkAssumption DEF FlightPlan
    <2>2. Ev("FlightPlan", plan.callsign) \in Event
      BY <2>1, EvType DEF EventKind
    <2>3. effects' \in Effects
      BY <2>2, <1>4, SendType, RecipientsType, ZenonT(60) DEF file_flight_plan
    <2>4. sessions' \in [ConnectionIds -> Session]
      BY <2>1, <1>0, <1>4 DEF file_flight_plan, TypeOK, Session
    <2> QED BY <2>3, <2>4, <1>4 DEF file_flight_plan, TypeOK
  <1>5. ASSUME NEW message \in Messages, route(c, message)
        PROVE  TypeOK'
    <2> DEFINE policy == IF message.type = "Text" THEN "Message" ELSE "Source"
               to == resolve_destination(sessions, callsigns, c, message.destination, policy)
    <2>1. message.type \in RelayedType /\ message.source \in Callsigns
      BY NetworkAssumption DEF Message
    <2>2. Ev(message.type, message.source) \in Event /\ Ev("Pong", None) \in Event
      BY <2>1, EvType DEF EventKind, RelayedType
    <2>3. to \in SUBSET ConnectionIds
      BY ResolveType DEF TypeOK
    <2>4. effects' \in {send({c}, Ev("Pong", None)), Nothing, send(to, Ev(message.type, message.source))}
      BY <1>5 DEF route
    <2> HIDE DEF to
    <2>5. effects' \in Effects
      BY <2>2, <2>3, <2>4, SendType, NothingType
    <2> QED BY <2>5, <1>5 DEF route, TypeOK
  <1>6. ASSUME NEW source \in Callsigns, NEW target \in Callsigns \cup {None},
               query_flight_plan(c, source, target)
        PROVE  TypeOK'
    <2> DEFINE plan == sessions[callsigns[target]].flight_plan
    <2>1. {"Syntax", "NoSuchCallsign", "NoFlightPlan"} \subseteq ErrorCode
      BY DEF ErrorCode
    <2>2. ASSUME target # None, InUse(target), plan # None
          PROVE  Ev("FlightPlan", plan.callsign) \in Event
      <3>1. callsigns[target] \in ConnectionIds
        BY <2>2 DEF TypeOK, InUse
      <3>2. plan \in FlightPlan
        BY <3>1, <2>2 DEF TypeOK, Session
      <3> QED BY <3>2, EvType DEF FlightPlan, EventKind
    <2>3. effects' \in Effects
      BY <2>1, <2>2, <1>6, SendType, ErrorType DEF query_flight_plan
    <2> QED BY <2>3, <1>6 DEF query_flight_plan, TypeOK
  <1>7. ASSUME NEW source \in Callsigns, NEW target \in Callsigns, kill(c, source, target)
        PROVE  TypeOK'
    <2>1. /\ Ev("Welcome", source) \in Event
          /\ Ev("Disconnect", target) \in Event
          /\ "NoSuchCallsign" \in ErrorCode
      BY EvType DEF EventKind, ErrorCode
    <2> DEFINE before == Deliver({c}, Ev("Welcome", source))
                           \o Deliver({callsigns[target]}, Ev("Disconnect", target))
    <2>2. CASE /\ effects' \in {error_effect(c, "NoSuchCallsign"), send({c}, Ev("Welcome", source))}
               /\ UNCHANGED <<sessions, callsigns, registered, calls>>
      BY <2>1, <2>2, SendType, ErrorType DEF TypeOK
    <2>3. CASE InUse(target) /\ disconnect_locked(callsigns[target], before)
      <3>1. callsigns[target] \in ConnectionIds
        BY <2>3 DEF TypeOK, InUse
      <3>2. before \in Seq(Delivery)
        BY <3>1, <2>1, DeliverType
      <3> QED BY <3>1, <3>2, <2>3, DisconnectType
    <2> QED BY <2>2, <2>3, <1>7, Zenon DEF kill
  <1> QED BY <1>1, <1>2, <1>3, <1>4, <1>5, <1>6, <1>7 DEF Execute

\* Every step keeps the types.
LEMMA TypeStep ==
  ASSUME TypeOK, [Next]_vars
  PROVE  TypeOK'
  <1>1. ASSUME NEW c \in ConnectionIds, Lifecycle(c) \/ Execute(c)
        PROVE  TypeOK'
    BY <1>1, LifecycleType, ExecuteType
  <1>2. ASSUME NEW t \in Tasks, NEW c \in ConnectionIds, AsyncCall(t, c)
        PROVE  TypeOK'
    BY <1>2, AsyncCallType
  <1>3. ASSUME NEW t \in Tasks, AsyncReturn(t)
        PROVE  TypeOK'
    BY <1>3, AsyncReturnType
  <1>4. CASE broadcast
    <2>1. Ev("WindDelta", None) \in Event
      BY EvType DEF EventKind
    <2>2. active_ids(sessions) \in SUBSET ConnectionIds
      BY DEF active_ids
    <2>3. effects' \in Effects
      BY <1>4, <2>1, <2>2, SendType DEF broadcast
    <2> QED BY <1>4, <2>3 DEF TypeOK, broadcast
  <1>5. CASE UNCHANGED vars
    BY <1>5 DEF vars, TypeOK
  <1> QED BY <1>1, <1>2, <1>3, <1>4, <1>5 DEF Next

\* Every variable keeps its type, whatever the clients send and however the
\* calls interleave.
THEOREM TypeCorrect == Spec => []TypeOK
  <1>1. Init => TypeOK
    BY InitType
  <1>2. TypeOK /\ [Next]_vars => TypeOK'
    BY TypeStep
  <1> QED BY <1>1, <1>2, PTL DEF Spec

-----------------------------------------------------------------------------
(***************************************************************************)
(* The ways in which a step changes the state behind the lock.  Every      *)
(* invariant of sessions, callsigns and registered is proved once for each *)
(* of them.                                                                *)
(***************************************************************************)
Opened(c) ==
  /\ c \notin registered
  /\ registered' = registered \cup {c}
  /\ \/ UNCHANGED sessions
     \/ /\ ~ (Cardinality(live) >= MaxClients)
        /\ \E dialect \in Listeners : sessions' = [sessions EXCEPT ![c] = NewSession(dialect)]
  /\ UNCHANGED callsigns

Removed(c) ==
  /\ sessions' = [sessions EXCEPT ![c] = NoSession]
  /\ callsigns' = IF sessions[c].presence = None THEN callsigns
                  ELSE [callsigns EXCEPT ![sessions[c].presence.callsign] = None]
  /\ UNCHANGED registered

Identified(c, command) ==
  /\ sessions[c].phase = "Connected"
  /\ sessions' = [sessions EXCEPT ![c].identification = command,
                                  ![c].phase = "Identified",
                                  ![c].generation = @ + 1]
  /\ UNCHANGED <<callsigns, registered>>

Activated(c, command, generation) ==
  /\ rating_verdict(command, Users[command.network_id]) = "Ok"
  /\ activate_verdict(sessions[c], command, generation) = "Ok"
  /\ sessions' = [sessions EXCEPT ![c].phase = "Active",
                                  ![c].presence = presence_of(command),
                                  ![c].generation = @ + 1]
  /\ callsigns' = [callsigns EXCEPT ![command.callsign] = c]
  /\ UNCHANGED registered

Positioned(c, position) ==
  /\ Accepted(c, position.callsign)
  /\ validate(position)
  /\ sessions[c].presence.client_type = position.kind
  /\ sessions' = [sessions EXCEPT ![c].position = position]
  /\ UNCHANGED <<callsigns, registered>>

Filed(c, plan) ==
  /\ Accepted(c, plan.callsign)
  /\ sessions' = [sessions EXCEPT ![c].flight_plan = plan]
  /\ UNCHANGED <<callsigns, registered>>

Change ==
  \/ \E c \in ConnectionIds :
       \/ Opened(c)
       \/ Removed(c)
       \/ \E command \in Identification : Identified(c, command)
       \/ \E command \in LoginCommand, generation \in Nat : Activated(c, command, generation)
       \/ \E position \in Position : Positioned(c, position)
       \/ \E plan \in FlightPlan : Filed(c, plan)
  \/ UNCHANGED <<sessions, callsigns, registered>>

\* Every step of the core is one of these changes.
LEMMA StepIsChange ==
  ASSUME TypeOK, [Next]_vars
  PROVE  Change
  <1>1. ASSUME NEW c \in ConnectionIds, NEW before, disconnect_locked(c, before)
        PROVE  Change
    BY <1>1 DEF disconnect_locked, Removed, Change
  <1>2. ASSUME NEW c \in ConnectionIds, Lifecycle(c)
        PROVE  Change
    <2>1. ASSUME NEW dialect \in Listeners, register(c, dialect)
          PROVE  Change
      BY <2>1 DEF register, Opened, Change
    <2> QED BY <2>1, <1>1, <1>2 DEF Lifecycle, disconnect
  <1>3. ASSUME NEW t \in Tasks, NEW c \in ConnectionIds, AsyncCall(t, c)
        PROVE  Change
    BY <1>3 DEF AsyncCall, identify, login, weather_request, Change
  <1>4. ASSUME NEW t \in Tasks, AsyncReturn(t)
        PROVE  Change
    <2>1. CASE identify_authorized(t)
      <3>1. calls[t] \in Call /\ calls[t].connection_id \in ConnectionIds /\ calls[t].op = "identify"
        BY <2>1, ResumeType DEF identify_authorized, Resume
      <3>2. calls[t].command \in Identification
        BY <3>1 DEF Call
      <3> QED BY <2>1, <3>1, <3>2 DEF identify_authorized, identify_verdict, Identified, Change
    <2>2. CASE login_authenticated(t)
      <3>1. calls[t] \in Call /\ calls[t].connection_id \in ConnectionIds /\ calls[t].op = "login"
        BY <2>2, ResumeType DEF login_authenticated, Resume
      <3>2. calls[t].command \in LoginCommand /\ calls[t].generation \in Nat
        BY <3>1 DEF Call
      <3>3. \/ Activated(calls[t].connection_id, calls[t].command, calls[t].generation)
            \/ UNCHANGED <<sessions, callsigns, registered>>
        BY <2>2 DEF login_authenticated, Activated
      <3> QED BY <3>1, <3>2, <3>3 DEF Change
    <2>3. CASE identify_unauthorized(t) \/ login_unauthenticated(t) \/ weather_answered(t)
      BY <2>3 DEF identify_unauthorized, login_unauthenticated, weather_answered, Change
    <2> QED BY <2>1, <2>2, <2>3, <1>4 DEF AsyncReturn
  <1>5. ASSUME NEW c \in ConnectionIds, Execute(c)
        PROVE  Change
    <2>1. ASSUME NEW source \in Callsigns, execute_rejected(c, source) \/ logoff(c, source)
          PROVE  Change
      BY <2>1, <1>1 DEF execute_rejected, logoff, Change
    <2>2. ASSUME NEW position \in Positions, update_position(c, position)
          PROVE  Change
      <3>1. position \in Position
        BY NetworkAssumption
      <3>2. Positioned(c, position) \/ UNCHANGED <<sessions, callsigns, registered>>
        BY <2>2 DEF update_position, Positioned
      <3> QED BY <3>1, <3>2 DEF Change
    <2>3. ASSUME NEW plan \in FlightPlans, file_flight_plan(c, plan)
          PROVE  Change
      <3>1. plan \in FlightPlan
        BY NetworkAssumption
      <3> QED BY <3>1, <2>3 DEF file_flight_plan, Filed, Change
    <2>4. ASSUME NEW message \in Messages, route(c, message)
          PROVE  Change
      BY <2>4 DEF route, Change
    <2>5. ASSUME NEW source \in Callsigns, NEW target \in Callsigns \cup {None},
                 query_flight_plan(c, source, target)
          PROVE  Change
      BY <2>5 DEF query_flight_plan, Change
    <2>6. ASSUME NEW source \in Callsigns, NEW target \in Callsigns, kill(c, source, target)
          PROVE  Change
      <3>1. InUse(target) => callsigns[target] \in ConnectionIds
        BY DEF TypeOK, InUse
      <3>2. ASSUME UNCHANGED <<sessions, callsigns, registered, calls>>
            PROVE  Change
        BY <3>2 DEF Change
      <3> QED BY <3>1, <3>2, <2>6, <1>1, Zenon DEF kill
    <2> QED BY <2>1, <2>2, <2>3, <2>4, <2>5, <2>6, <1>5 DEF Execute
  <1>6. CASE broadcast \/ UNCHANGED vars
    BY <1>6 DEF broadcast, vars, Change
  <1> QED BY <1>2, <1>3, <1>4, <1>5, <1>6 DEF Next

-----------------------------------------------------------------------------
(***************************************************************************)
(* The two indexes.  CallsignIndexExact is not inductive alone: a login    *)
(* overwrites the presence of its session, so the proof must know that a   *)
(* session that is not yet active has none; this is SessionShape.          *)
(***************************************************************************)
\* No change of the state breaks the shape of a session.
LEMMA ShapeStep ==
  ASSUME TypeOK, SessionShape, Change
  PROVE  SessionShape'
  <1>1. sessions \in [ConnectionIds -> Session] /\ registered \subseteq ConnectionIds
    BY DEF TypeOK
  <1>2. ASSUME NEW c \in ConnectionIds, Opened(c)
        PROVE  SessionShape'
    <2>1. CASE UNCHANGED sessions
      BY <2>1, <1>1, <1>2 DEF Opened, SessionShape
    <2>2. ASSUME NEW dialect \in Listeners, sessions' = [sessions EXCEPT ![c] = NewSession(dialect)]
          PROVE  SessionShape'
      BY <2>2, <1>1, <1>2, NewSessionFields DEF Opened, SessionShape, NoSession
    <2> QED BY <2>1, <2>2, <1>2 DEF Opened
  <1>3. ASSUME NEW c \in ConnectionIds, Removed(c)
        PROVE  SessionShape'
    BY <1>1, <1>3 DEF Removed, SessionShape, NoSession
  <1>4. ASSUME NEW c \in ConnectionIds, NEW command \in Identification, Identified(c, command)
        PROVE  SessionShape'
    <2>1. command # None
      BY NoneAssumption
    <2>2. sessions[c].generation = 0 /\ sessions[c].identification = None
          /\ sessions[c].presence = None /\ sessions[c] # NoSession /\ c \in registered
      BY <1>1, <1>4 DEF Identified, SessionShape, NoSession
    <2> QED BY <2>1, <2>2, <1>1, <1>4 DEF Identified, SessionShape, Session, NoSession
  <1>5. ASSUME NEW c \in ConnectionIds, NEW command \in LoginCommand, NEW g \in Nat,
               Activated(c, command, g)
        PROVE  SessionShape'
    <2> DEFINE presence == presence_of(command)
    <2>1. presence # None
      BY PresenceType, NoneAssumption
    <2> HIDE DEF presence
    <2>2. sessions[c].phase \in {"Connected", "Identified"} /\ UNCHANGED registered
          /\ sessions' = [sessions EXCEPT ![c].phase = "Active", ![c].presence = presence,
                                          ![c].generation = @ + 1]
      BY <1>5 DEF Activated, activate_verdict, presence
    <2>3. sessions[c].presence = None /\ sessions[c].position = None
          /\ sessions[c].flight_plan = None /\ c \in registered
      BY <2>2, <1>1 DEF SessionShape, NoSession
    <2> QED BY <2>1, <2>2, <2>3, <1>1 DEF SessionShape, Session, NoSession
  <1>6. ASSUME NEW c \in ConnectionIds, NEW position \in Position, Positioned(c, position)
        PROVE  SessionShape'
    BY <1>1, <1>6 DEF Positioned, Accepted, SessionShape, Session, NoSession
  <1>7. ASSUME NEW c \in ConnectionIds, NEW plan \in FlightPlan, Filed(c, plan)
        PROVE  SessionShape'
    BY <1>1, <1>7 DEF Filed, Accepted, SessionShape, Session, NoSession
  <1>8. CASE UNCHANGED <<sessions, callsigns, registered>>
    BY <1>8 DEF SessionShape
  <1> QED BY <1>2, <1>3, <1>4, <1>5, <1>6, <1>7, <1>8 DEF Change

\* The phase, the generation and the optional parts of a session move together.
THEOREM SessionShapeHolds == Spec => []SessionShape
  <1>1. Init => SessionShape
    BY DEF Init, SessionShape, NoSession
  <1>2. TypeOK /\ SessionShape /\ [Next]_vars => SessionShape'
    BY StepIsChange, ShapeStep
  <1> QED BY <1>1, <1>2, TypeCorrect, PTL DEF Spec

\* No change of the state lets the two indexes disagree.
LEMMA IndexStep ==
  ASSUME TypeOK, SessionShape, CallsignIndexExact, Change
  PROVE  CallsignIndexExact'
  <1>1. /\ sessions \in [ConnectionIds -> Session]
        /\ callsigns \in [Callsigns -> ConnectionIds \cup {None}]
    BY DEF TypeOK
  <1>2. ASSUME NEW c \in ConnectionIds, Opened(c)
        PROVE  CallsignIndexExact'
    <2>1. sessions[c] = NoSession
      BY <1>2 DEF Opened, SessionShape
    <2>2. \A dialect : NewSession(dialect).presence = None
      BY NewSessionFields
    <2>3. \A d \in ConnectionIds : sessions'[d].presence = sessions[d].presence
      BY <2>1, <2>2, <1>1, <1>2 DEF Opened, NoSession
    <2> QED BY <2>3, <1>2 DEF Opened, CallsignIndexExact
  <1>3. ASSUME NEW c \in ConnectionIds, Removed(c)
        PROVE  CallsignIndexExact'
    <2>1. CASE sessions[c].presence = None
      BY <2>1, <1>1, <1>3 DEF Removed, CallsignIndexExact, NoSession
    <2>2. CASE sessions[c].presence # None
      <3>1. sessions[c].presence.callsign \in Callsigns
        BY <2>2, <1>1 DEF Session, ClientPresence
      <3>2. callsigns[sessions[c].presence.callsign] = c
        BY <3>1, <2>2 DEF CallsignIndexExact
      <3> QED BY <3>1, <3>2, <2>2, <1>1, <1>3, NoneAssumption
              DEF Removed, CallsignIndexExact, NoSession
    <2> QED BY <2>1, <2>2
  <1>4. ASSUME NEW c \in ConnectionIds, NEW command \in Identification, Identified(c, command)
        PROVE  CallsignIndexExact'
    BY <1>1, <1>4 DEF Identified, CallsignIndexExact, Session
  <1>5. ASSUME NEW c \in ConnectionIds, NEW command \in LoginCommand, NEW g \in Nat,
               Activated(c, command, g)
        PROVE  CallsignIndexExact'
    <2> DEFINE presence == presence_of(command)
    <2>1. /\ presence # None
          /\ presence.callsign = command.callsign
          /\ command.callsign \in Callsigns
      BY PresenceType, NoneAssumption DEF presence_of, LoginCommand
    <2> HIDE DEF presence
    <2>2. /\ sessions[c].phase \in {"Connected", "Identified"}
          /\ callsigns[command.callsign] = None
          /\ callsigns' = [callsigns EXCEPT ![command.callsign] = c]
          /\ sessions' = [sessions EXCEPT ![c].phase = "Active", ![c].presence = presence,
                                          ![c].generation = @ + 1]
      BY <1>5 DEF Activated, activate_verdict, InUse, presence
    <2>3. sessions[c].presence = None
      BY <2>2, <1>1 DEF SessionShape
    <2>4. \A d \in ConnectionIds :
            sessions'[d].presence = IF d = c THEN presence ELSE sessions[d].presence
      BY <2>2, <1>1 DEF Session
    <2> QED BY <2>1, <2>2, <2>3, <2>4, <1>1, NoneAssumption DEF CallsignIndexExact
  <1>6. ASSUME NEW c \in ConnectionIds, NEW position \in Position, Positioned(c, position)
        PROVE  CallsignIndexExact'
    BY <1>1, <1>6 DEF Positioned, CallsignIndexExact, Session
  <1>7. ASSUME NEW c \in ConnectionIds, NEW plan \in FlightPlan, Filed(c, plan)
        PROVE  CallsignIndexExact'
    BY <1>1, <1>7 DEF Filed, CallsignIndexExact, Session
  <1>8. CASE UNCHANGED <<sessions, callsigns, registered>>
    BY <1>8 DEF CallsignIndexExact
  <1> QED BY <1>2, <1>3, <1>4, <1>5, <1>6, <1>7, <1>8 DEF Change

\* The callsign index and the session table agree: one owner per callsign, and
\* no path changes one index without the other.
THEOREM IndexesAgree == Spec => []CallsignIndexExact
  <1>1. Init => CallsignIndexExact
    BY NoneAssumption DEF Init, CallsignIndexExact, NoSession
  <1>2. TypeOK /\ SessionShape /\ CallsignIndexExact /\ [Next]_vars => CallsignIndexExact'
    BY StepIsChange, IndexStep
  <1> QED BY <1>1, <1>2, TypeCorrect, SessionShapeHolds, PTL DEF Spec

-----------------------------------------------------------------------------
(***************************************************************************)
(* What the checks made before and after an await guarantee.               *)
(***************************************************************************)
\* What an activation does to the session table, field by field.
LEMMA ActivatedFields ==
  ASSUME TypeOK, NEW c \in ConnectionIds, NEW command \in LoginCommand, NEW g \in Nat,
         Activated(c, command, g)
  PROVE  /\ sessions[c].phase \in {"Connected", "Identified"}
         /\ sessions'[c].presence = presence_of(command)
         /\ sessions'[c].dialect = sessions[c].dialect
         /\ sessions'[c].identification = sessions[c].identification
         /\ sessions'[c].position = sessions[c].position
         /\ sessions'[c].flight_plan = sessions[c].flight_plan
         /\ \A d \in ConnectionIds \ {c} : sessions'[d] = sessions[d]
  <1>1. sessions \in [ConnectionIds -> Session]
    BY DEF TypeOK
  <1> DEFINE presence == presence_of(command)
  <1>2. sessions' = [sessions EXCEPT ![c].phase = "Active", ![c].presence = presence,
                                     ![c].generation = @ + 1]
    BY DEF Activated
  <1>3. sessions[c].phase \in {"Connected", "Identified"}
    BY DEF Activated, activate_verdict
  <1> HIDE DEF presence
  <1>4. /\ sessions'[c].presence = presence
        /\ sessions'[c].dialect = sessions[c].dialect
        /\ sessions'[c].identification = sessions[c].identification
        /\ sessions'[c].position = sessions[c].position
        /\ sessions'[c].flight_plan = sessions[c].flight_plan
        /\ \A d \in ConnectionIds \ {c} : sessions'[d] = sessions[d]
    BY <1>1, <1>2 DEF Session
  <1> QED BY <1>3, <1>4 DEF presence

\* An active VATSIM session bears the callsign and the network id of its $ID.
THEOREM VatsimIdentityHolds == Spec => []VatsimIdentityMatches
  <1>1. Init => VatsimIdentityMatches
    BY DEF Init, VatsimIdentityMatches, NoSession
  <1>2. TypeOK /\ VatsimIdentityMatches /\ [Next]_vars => VatsimIdentityMatches'
    <2> SUFFICES ASSUME TypeOK, VatsimIdentityMatches, [Next]_vars
                 PROVE  VatsimIdentityMatches'
      OBVIOUS
    <2>1. Change
      BY StepIsChange
    <2>2. sessions \in [ConnectionIds -> Session]
      BY DEF TypeOK
    <2>3. ASSUME NEW c \in ConnectionIds, Opened(c)
          PROVE  VatsimIdentityMatches'
      BY <2>2, <2>3, NewSessionFields DEF Opened, VatsimIdentityMatches
    <2>4. ASSUME NEW c \in ConnectionIds, Removed(c)
          PROVE  VatsimIdentityMatches'
      BY <2>2, <2>4 DEF Removed, VatsimIdentityMatches, NoSession
    <2>5. ASSUME NEW c \in ConnectionIds, NEW command \in Identification, Identified(c, command)
          PROVE  VatsimIdentityMatches'
      BY <2>2, <2>5 DEF Identified, VatsimIdentityMatches, Session
    <2>6. ASSUME NEW c \in ConnectionIds, NEW command \in LoginCommand, NEW g \in Nat,
                 Activated(c, command, g)
          PROVE  VatsimIdentityMatches'
      <3>1. sessions[c].dialect = "Vatsim" =>
              /\ sessions[c].identification # None
              /\ sessions[c].identification.callsign = command.callsign
              /\ sessions[c].identification.network_id = command.network_id
        BY <2>6 DEF Activated, activate_verdict
      <3>2. /\ presence_of(command).callsign = command.callsign
            /\ presence_of(command).network_id = command.network_id
        BY DEF presence_of
      <3> QED BY <3>1, <3>2, <2>2, <2>6, ActivatedFields DEF VatsimIdentityMatches
    <2>7. ASSUME NEW c \in ConnectionIds, NEW position \in Position, Positioned(c, position)
          PROVE  VatsimIdentityMatches'
      BY <2>2, <2>7 DEF Positioned, VatsimIdentityMatches, Session
    <2>8. ASSUME NEW c \in ConnectionIds, NEW plan \in FlightPlan, Filed(c, plan)
          PROVE  VatsimIdentityMatches'
      BY <2>2, <2>8 DEF Filed, VatsimIdentityMatches, Session
    <2>9. CASE UNCHANGED <<sessions, callsigns, registered>>
      BY <2>9 DEF VatsimIdentityMatches
    <2> QED BY <2>1, <2>3, <2>4, <2>5, <2>6, <2>7, <2>8, <2>9 DEF Change
  <1> QED BY <1>1, <1>2, TypeCorrect, PTL DEF Spec

\* An active presence carries a rating that its account holds on the scale of
\* its client type.
THEOREM RatingsHold == Spec => []RatingAuthorized
  <1>1. Init => RatingAuthorized
    BY DEF Init, RatingAuthorized, NoSession
  <1>2. TypeOK /\ RatingAuthorized /\ [Next]_vars => RatingAuthorized'
    <2> SUFFICES ASSUME TypeOK, RatingAuthorized, [Next]_vars
                 PROVE  RatingAuthorized'
      OBVIOUS
    <2>1. Change
      BY StepIsChange
    <2>2. sessions \in [ConnectionIds -> Session]
      BY DEF TypeOK
    <2> DEFINE SamePresence ==
                 \A d \in ConnectionIds :
                   sessions'[d].presence = sessions[d].presence \/ sessions'[d].presence = None
    <2>3. SamePresence => RatingAuthorized'
      BY DEF RatingAuthorized
    <2>4. ASSUME NEW c \in ConnectionIds,
                 \/ Opened(c)
                 \/ Removed(c)
                 \/ \E command \in Identification : Identified(c, command)
                 \/ \E position \in Position : Positioned(c, position)
                 \/ \E plan \in FlightPlan : Filed(c, plan)
          PROVE  SamePresence
      <3>1. CASE Opened(c)
        BY <3>1, <2>2, NewSessionFields DEF Opened
      <3>2. CASE Removed(c)
        BY <3>2, <2>2 DEF Removed, NoSession
      <3>3. ASSUME NEW command \in Identification, Identified(c, command)
            PROVE  SamePresence
        BY <3>3, <2>2 DEF Identified, Session
      <3>4. ASSUME NEW position \in Position, Positioned(c, position)
            PROVE  SamePresence
        BY <3>4, <2>2 DEF Positioned, Session
      <3>5. ASSUME NEW plan \in FlightPlan, Filed(c, plan)
            PROVE  SamePresence
        BY <3>5, <2>2 DEF Filed, Session
      <3> HIDE DEF SamePresence
      <3> QED BY <3>1, <3>2, <3>3, <3>4, <3>5, <2>4
    <2>5. ASSUME NEW c \in ConnectionIds, NEW command \in LoginCommand, NEW g \in Nat,
                 Activated(c, command, g)
          PROVE  RatingAuthorized'
      <3> DEFINE p == presence_of(command)
      <3>1. /\ identity_is_active(command.client_type, Users[command.network_id])
            /\ rating_is_authorized(command.client_type, command.requested_rating,
                                    Users[command.network_id])
        BY <2>5 DEF Activated, rating_verdict
      <3>2. /\ p.client_type = command.client_type
            /\ p.network_id = command.network_id
            /\ p.rating = command.requested_rating
        BY DEF presence_of
      <3>3. sessions'[c].presence = p /\ \A d \in ConnectionIds \ {c} : sessions'[d] = sessions[d]
        BY <2>5, ActivatedFields
      <3> HIDE DEF p
      <3> QED BY <3>1, <3>2, <3>3 DEF RatingAuthorized
    <2>6. CASE UNCHANGED <<sessions, callsigns, registered>>
      BY <2>6 DEF RatingAuthorized
    <2> HIDE DEF SamePresence
    <2> QED BY <2>1, <2>3, <2>4, <2>5, <2>6 DEF Change
  <1> QED BY <1>1, <1>2, TypeCorrect, PTL DEF Spec

\* A stored position or flight plan belongs to its session, and is valid.
THEOREM StateIsOwnHolds == Spec => []StateIsOwn
  <1>1. Init => StateIsOwn
    BY DEF Init, StateIsOwn, NoSession
  <1>2. TypeOK /\ SessionShape /\ StateIsOwn /\ [Next]_vars => StateIsOwn'
    <2> SUFFICES ASSUME TypeOK, SessionShape, StateIsOwn, [Next]_vars
                 PROVE  StateIsOwn'
      OBVIOUS
    <2>1. Change
      BY StepIsChange
    <2>2. sessions \in [ConnectionIds -> Session]
      BY DEF TypeOK
    <2>3. ASSUME NEW c \in ConnectionIds, Opened(c)
          PROVE  StateIsOwn'
      BY <2>2, <2>3, NewSessionFields DEF Opened, StateIsOwn
    <2>4. ASSUME NEW c \in ConnectionIds, Removed(c)
          PROVE  StateIsOwn'
      BY <2>2, <2>4 DEF Removed, StateIsOwn, NoSession
    <2>5. ASSUME NEW c \in ConnectionIds, NEW command \in Identification, Identified(c, command)
          PROVE  StateIsOwn'
      BY <2>2, <2>5 DEF Identified, StateIsOwn, Session
    <2>6. ASSUME NEW c \in ConnectionIds, NEW command \in LoginCommand, NEW g \in Nat,
                 Activated(c, command, g)
          PROVE  StateIsOwn'
      <3>1. sessions[c].position = None /\ sessions[c].flight_plan = None
        BY <2>6, ActivatedFields DEF SessionShape
      <3> QED BY <3>1, <2>6, ActivatedFields DEF StateIsOwn
    <2>7. ASSUME NEW c \in ConnectionIds, NEW position \in Position, Positioned(c, position)
          PROVE  StateIsOwn'
      BY <2>2, <2>7 DEF Positioned, Accepted, StateIsOwn, Session
    <2>8. ASSUME NEW c \in ConnectionIds, NEW plan \in FlightPlan, Filed(c, plan)
          PROVE  StateIsOwn'
      BY <2>2, <2>8 DEF Filed, Accepted, StateIsOwn, Session
    <2>9. CASE UNCHANGED <<sessions, callsigns, registered>>
      BY <2>9 DEF StateIsOwn
    <2> QED BY <2>1, <2>3, <2>4, <2>5, <2>6, <2>7, <2>8, <2>9 DEF Change
  <1> QED BY <1>1, <1>2, TypeCorrect, SessionShapeHolds, PTL DEF Spec

-----------------------------------------------------------------------------
(***************************************************************************)
(* The core implements the abstract registry.                              *)
(***************************************************************************)
\* The phase of every connection id, as the registry sees it.
Phases == [c \in ConnectionIds |-> IF c \in registered THEN sessions[c].phase ELSE "Unused"]

\* Every behaviour of the core is a behaviour of CallsignRegistry: phases only
\* advance, a callsign is claimed only while free, and it is released by exactly
\* the step that closes its owner.
THEOREM ImplementsRegistry == Spec => RegistrySpec
  <1>1. Init => Registry!Init
    BY DEF Init, Registry!Init
  <1>2. TypeOK /\ SessionShape /\ CallsignIndexExact /\ [Next]_vars
          => [Registry!Next]_<<Phases, callsigns>>
    <2> SUFFICES ASSUME TypeOK, SessionShape, CallsignIndexExact, [Next]_vars
                 PROVE  \/ Registry!Next
                        \/ UNCHANGED <<Phases, callsigns>>
      OBVIOUS
    <2>1. Change
      BY StepIsChange
    <2>2. /\ sessions \in [ConnectionIds -> Session]
          /\ callsigns \in [Callsigns -> ConnectionIds \cup {None}]
          /\ registered \subseteq ConnectionIds
      BY DEF TypeOK
    <2>3. ASSUME NEW c \in ConnectionIds, Opened(c)
          PROVE  Registry!Open(c)
      <3>1. /\ c \notin registered
            /\ registered' = registered \cup {c}
            /\ UNCHANGED callsigns
            /\ \A d \in ConnectionIds \ {c} : sessions'[d] = sessions[d]
        BY <2>2, <2>3 DEF Opened
      <3>2. sessions'[c].phase \in {"Connected", "Closed"}
        BY <2>2, <2>3, NewSessionFields DEF Opened, SessionShape, NoSession
      <3>3. Phases' = [Phases EXCEPT ![c] = sessions'[c].phase]
        BY <3>1 DEF Phases
      <3> QED BY <3>1, <3>2, <3>3 DEF Registry!Open, Phases
    <2>4. ASSUME NEW c \in ConnectionIds, Removed(c)
          PROVE  Registry!Close(c) \/ UNCHANGED <<Phases, callsigns>>
      <3>1. /\ registered' = registered
            /\ sessions'[c].phase = "Closed"
            /\ \A d \in ConnectionIds \ {c} : sessions'[d] = sessions[d]
        BY <2>2, <2>4 DEF Removed, NoSession
      <3>2. callsigns' = [cs \in Callsigns |-> IF callsigns[cs] = c THEN None ELSE callsigns[cs]]
        <4>1. CASE sessions[c].presence = None
          BY <4>1, <2>2, <2>4 DEF Removed, CallsignIndexExact
        <4>2. CASE sessions[c].presence # None
          <5>1. sessions[c].presence.callsign \in Callsigns
            BY <4>2, <2>2 DEF Session, ClientPresence
          <5>2. \A cs \in Callsigns : callsigns[cs] = c <=> cs = sessions[c].presence.callsign
            BY <5>1, <4>2 DEF CallsignIndexExact
          <5>3. callsigns' = [callsigns EXCEPT ![sessions[c].presence.callsign] = None]
            BY <4>2, <2>4 DEF Removed
          <5> QED BY <5>1, <5>2, <5>3, <2>2
        <4> QED BY <4>1, <4>2
      <3>3. CASE c \in registered /\ sessions[c].phase # "Closed"
        <4>1. sessions[c].phase \in {"Connected", "Identified", "Active"}
          BY <3>3, <2>2 DEF Session, SessionPhase
        <4>2. Phases' = [Phases EXCEPT ![c] = "Closed"]
          BY <3>1, <3>3 DEF Phases
        <4> QED BY <3>2, <3>3, <4>1, <4>2 DEF Registry!Close, Phases
      <3>4. CASE ~ (c \in registered /\ sessions[c].phase # "Closed")
        <4>1. sessions[c] = NoSession
          BY <3>4 DEF SessionShape
        <4>2. sessions' = sessions /\ callsigns' = callsigns
          BY <4>1, <2>2, <2>4 DEF Removed, NoSession
        <4> QED BY <3>1, <4>2 DEF Phases
      <3> QED BY <3>3, <3>4
    <2>5. ASSUME NEW c \in ConnectionIds, NEW command \in Identification, Identified(c, command)
          PROVE  Registry!Identify(c)
      <3>1. c \in registered
        BY <2>5 DEF Identified, SessionShape, NoSession
      <3>2. /\ sessions[c].phase = "Connected"
            /\ sessions'[c].phase = "Identified"
            /\ \A d \in ConnectionIds \ {c} : sessions'[d] = sessions[d]
            /\ UNCHANGED <<callsigns, registered>>
        BY <2>2, <2>5 DEF Identified, Session
      <3>3. Phases' = [Phases EXCEPT ![c] = "Identified"]
        BY <3>1, <3>2 DEF Phases
      <3> QED BY <3>1, <3>2, <3>3 DEF Registry!Identify, Phases
    <2>6. ASSUME NEW c \in ConnectionIds, NEW command \in LoginCommand, NEW g \in Nat,
                 Activated(c, command, g)
          PROVE  Registry!Claim(c, command.callsign)
      <3>1. /\ sessions[c].phase \in {"Connected", "Identified"}
            /\ \A d \in ConnectionIds \ {c} : sessions'[d] = sessions[d]
        BY <2>6, ActivatedFields
      <3>2. c \in registered
        BY <3>1 DEF SessionShape, NoSession
      <3>3. /\ callsigns[command.callsign] = None
            /\ callsigns' = [callsigns EXCEPT ![command.callsign] = c]
            /\ UNCHANGED registered
        BY <2>6 DEF Activated, activate_verdict, InUse
      <3>4. sessions'[c].phase = "Active"
        <4> DEFINE presence == presence_of(command)
        <4>1. sessions' = [sessions EXCEPT ![c].phase = "Active", ![c].presence = presence,
                                           ![c].generation = @ + 1]
          BY <2>6 DEF Activated
        <4> HIDE DEF presence
        <4> QED BY <4>1, <2>2 DEF Session
      <3>5. Phases' = [Phases EXCEPT ![c] = "Active"]
        BY <3>1, <3>2, <3>3, <3>4 DEF Phases
      <3> QED BY <3>1, <3>2, <3>3, <3>5 DEF Registry!Claim, Phases
    <2>7. ASSUME NEW c \in ConnectionIds,
                 \/ \E position \in Position : Positioned(c, position)
                 \/ \E plan \in FlightPlan : Filed(c, plan)
          PROVE  UNCHANGED <<Phases, callsigns>>
      <3>1. /\ \A d \in ConnectionIds : sessions'[d].phase = sessions[d].phase
            /\ UNCHANGED <<callsigns, registered>>
        BY <2>2, <2>7 DEF Positioned, Filed, Session
      <3> QED BY <3>1 DEF Phases
    <2>8. CASE UNCHANGED <<sessions, callsigns, registered>>
      BY <2>8 DEF Phases
    <2>9. ASSUME NEW c \in ConnectionIds,
                 \/ Registry!Open(c)
                 \/ Registry!Close(c)
                 \/ Registry!Identify(c)
                 \/ \E command \in LoginCommand : Registry!Claim(c, command.callsign)
          PROVE  Registry!Next
      BY <2>9 DEF Registry!Next, LoginCommand
    <2> QED BY <2>1, <2>3, <2>4, <2>5, <2>6, <2>7, <2>8, <2>9 DEF Change
  <1> QED BY <1>1, <1>2, TypeCorrect, SessionShapeHolds, IndexesAgree, PTL
          DEF Spec, RegistrySpec, Registry!Spec, Phases
=============================================================================
