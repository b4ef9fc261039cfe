------------------------------- MODULE Network -------------------------------
(***************************************************************************)
(* The authoritative network core: aster_fsd_core/src/network.             *)
(*                                                                         *)
(* NetworkState is the pair  sessions, callsigns  behind one RwLock.  Each *)
(* action below is one critical section of that lock, from acquisition to  *)
(* release.  identify, login and weather_request await an external service *)
(* between two critical sections; calls[t] is what the suspended call of   *)
(* task t holds across the await, and anything may run meanwhile.          *)
(*                                                                         *)
(* effects is the Effects value returned by the call that ended in the     *)
(* last step (Nothing when the step ended no call).                        *)
(*                                                                         *)
(* The tables are total functions: a connection id without an entry in     *)
(* `sessions` maps to NoSession, whose phase is "Closed" (the phase that   *)
(* process_frame assumes for a missing session), and a free callsign maps  *)
(* to None.                                                                *)
(***************************************************************************)
EXTENDS Identity, Routing, Sequences, FiniteSets

CONSTANTS
  Tasks,            \* concurrent callers of the Network API
  MaxClients,       \* CoreConfig::max_clients
  MotdLines,        \* length of CoreConfig::motd
  Listeners,        \* dialects with a configured listener
  NetworkIds,
  Users,            \* network id -> AuthenticatedIdentity held by the provider
  ClientIds,
  Whitelist,        \* enabled client software ids
  Identifications,  \* the $ID commands clients may send
  Logins,           \* the login commands clients may send
  Positions,        \* the position updates clients may send
  FlightPlans,      \* the flight plans clients may file
  Messages          \* the relayed commands clients may send

VARIABLES sessions, callsigns, registered, calls, effects

vars == <<sessions, callsigns, registered, calls, effects>>
-----------------------------------------------------------------------------
(***************************************************************************)
(* Data.                                                                   *)
(***************************************************************************)
Dialect == {"Classic", "Vatsim", "AsterV1"}

SessionPhase == {"Connected", "Identified", "Active", "Closed"}

ProtocolRevision == [Classic |-> 9, AsterV1 |-> 1, Vatsim |-> 100]

Identification ==
  [callsign : Callsigns, client_id : ClientIds, network_id : NetworkIds \cup {None}]

LoginCommand ==
  [callsign : Callsigns, client_type : ClientType, network_id : NetworkIds,
   requested_rating : Int, protocol_revision : Nat]

ClientPresence ==
  [callsign : Callsigns, client_type : ClientType, network_id : NetworkIds, rating : Int]

\* well_formed: coordinates finite and in range, pilot mode and squawk legal.
Position ==
  [kind : {"Pilot", "Atc"}, callsign : Callsigns, place : Places, altitude : Int,
   facility_type : Int, visual_range : Int, well_formed : BOOLEAN]

FlightPlan == [callsign : Callsigns]

RelayedType ==
  {"Text", "Query", "Response", "Ping", "Pong", "Handoff", "ClientData", "Noop"}

Message == [type : RelayedType, source : Callsigns, destination : Destination]

Session ==
  [dialect : Dialect \cup {None}, phase : SessionPhase, generation : Nat,
   identification : Identification \cup {None}, presence : ClientPresence \cup {None},
   position : Position \cup {None}, flight_plan : FlightPlan \cup {None}]

NoSession ==
  [dialect |-> None, phase |-> "Closed", generation |-> 0, identification |-> None,
   presence |-> None, position |-> None, flight_plan |-> None]

NewSession(dialect) ==
  [NoSession EXCEPT !.dialect = dialect, !.phase = "Connected"]

Call ==
  [op : {"identify"}, connection_id : ConnectionIds, command : Identification, generation : Nat]
    \cup
  [op : {"login"}, connection_id : ConnectionIds, command : LoginCommand, generation : Nat]
    \cup
  [op : {"weather"}, connection_id : ConnectionIds, command : {None}, generation : {0}]

ErrorCode ==
  {"ServerFull", "InvalidCallsign", "AlreadyRegistered", "UnauthorizedClient", "Syntax", "InvalidProtocolRevision",
   "CallsignInUse", "InvalidCredentials", "Suspended", "RequestedLevelTooHigh",
   "InvalidSource", "NoSuchCallsign", "NoFlightPlan", "NoWeather"}

EventKind ==
  RelayedType \cup {"Error", "Welcome", "ClientAdded", "ClientRemoved", "Position",
                    "FlightPlan", "Disconnect", "WeatherReport", "WindDelta"}

\* `about` is the callsign or the error code that the event carries, if any.
Event == [kind : EventKind, about : Callsigns \cup ErrorCode \cup {None}]

Delivery == [recipients : SUBSET ConnectionIds, event : Event]

Effects == [deliveries : Seq(Delivery), close : ConnectionIds \cup {None}]

ASSUME NetworkAssumption ==
  /\ IsFiniteSet(ConnectionIds)
  /\ MaxClients \in Nat
  /\ MotdLines \in Nat
  /\ Listeners \subseteq Dialect
  /\ Users \in [NetworkIds -> AuthenticatedIdentity]
  /\ Whitelist \subseteq ClientIds
  /\ Identifications \subseteq Identification
  /\ Logins \subseteq LoginCommand
  /\ Positions \subseteq Position
  /\ FlightPlans \subseteq FlightPlan
  /\ Messages \subseteq Message
  /\ \A m \in Messages : m.type \in {"Handoff", "ClientData"} => m.destination.kind = "Direct"
  /\ \A m \in Messages : m.destination.kind = "Direct" => m.destination.callsign # None

ASSUME NoneAssumption ==
  /\ None \notin ConnectionIds
  /\ None \notin Callsigns
  /\ None \notin NetworkIds
  /\ None \notin Identification
  /\ None \notin ClientPresence
  /\ None \notin Position
  /\ None \notin FlightPlan
  /\ None \notin Call
-----------------------------------------------------------------------------
(***************************************************************************)
(* Effects constructors (lifecycle.rs, effects.rs).                        *)
(***************************************************************************)
Nothing == [deliveries |-> <<>>, close |-> None]

Ev(kind, about) == [kind |-> kind, about |-> about]

\* A delivery without recipients is never produced.
Deliver(recipients, event) ==
  IF recipients = {} THEN <<>> ELSE <<[recipients |-> recipients, event |-> event]>>

send(recipients, event) == [deliveries |-> Deliver(recipients, event), close |-> None]

error_effect(c, code) == send({c}, Ev("Error", code))

\* The session stays in the table: only the transport is asked to close.
error_and_close(c, code) == [error_effect(c, code) EXCEPT !.close = c]

\* What a refused identify or login returns: nothing when the session is gone,
\* no close when the session already advanced, an error and a close otherwise.
refusal(c, verdict) ==
  CASE verdict = "Gone" -> Nothing
    [] verdict = "AlreadyRegistered" -> error_effect(c, verdict)
    [] OTHER -> error_and_close(c, verdict)
-----------------------------------------------------------------------------
Init ==
  /\ sessions = [c \in ConnectionIds |-> NoSession]
  /\ callsigns = [cs \in Callsigns |-> None]
  /\ registered = {}
  /\ calls = [t \in Tasks |-> None]
  /\ effects = Nothing

live == {c \in ConnectionIds : sessions[c].phase # "Closed"}

\* Mutant of register: the capacity test is off by one.
register_past_capacity(c, dialect) ==
  /\ c \notin registered
  /\ registered' = registered \cup {c}
  /\ sessions' = IF Cardinality(live) > MaxClients
                 THEN sessions
                 ELSE [sessions EXCEPT ![c] = NewSession(dialect)]
  /\ effects' = Nothing
  /\ UNCHANGED <<callsigns, calls>>

\* Mutant of register: the id of a closed connection is used again.
register_reusing_ids(c, dialect) ==
  /\ sessions[c].phase = "Closed"
  /\ registered' = registered \cup {c}
  /\ sessions' = IF Cardinality(live) >= MaxClients
                 THEN sessions
                 ELSE [sessions EXCEPT ![c] = NewSession(dialect)]
  /\ effects' = Nothing
  /\ UNCHANGED <<callsigns, calls>>

\* Ids come from next_connection_id.fetch_add(1): each is offered once, in any
\* order, so the DuplicateConnection branch is never taken.  At capacity the
\* call fails with ServerFull and the id is spent.
register(c, dialect) ==
  /\ c \notin registered
  /\ registered' = registered \cup {c}
  /\ sessions' = IF Cardinality(live) >= MaxClients
                 THEN sessions
                 ELSE [sessions EXCEPT ![c] = NewSession(dialect)]
  /\ effects' = Nothing
  /\ UNCHANGED <<callsigns, calls>>

\* Mutant of disconnect_locked: the peers are listed before the session is removed.
disconnect_telling_itself(c, before) ==
  LET gone == sessions[c]
  IN  /\ sessions' = [sessions EXCEPT ![c] = NoSession]
      /\ callsigns' = IF gone.presence = None THEN callsigns
                      ELSE [callsigns EXCEPT ![gone.presence.callsign] = None]
      /\ effects' = [deliveries |-> before \o (IF gone.presence = None THEN <<>>
                         ELSE Deliver(active_ids(sessions), Ev("ClientRemoved", gone.presence.callsign))),
                     close |-> c]
      /\ UNCHANGED <<registered, calls>>

\* Mutant of disconnect_locked: the callsign stays in the index.
disconnect_keeping_callsign(c, before) ==
  /\ sessions' = [sessions EXCEPT ![c] = NoSession]
  /\ effects' = [deliveries |-> before, close |-> c]
  /\ UNCHANGED <<callsigns, registered, calls>>

\* Both indexes change in the same critical section.  `before` is what the
\* caller has already put into its effects.
disconnect_locked(c, before) ==
  LET gone == sessions[c]
      rest == [sessions EXCEPT ![c] = NoSession]
      farewell == IF gone.presence = None THEN <<>>
                  ELSE Deliver(active_ids(rest),
                               Ev("ClientRemoved", gone.presence.callsign))
  IN  /\ sessions' = rest
      /\ callsigns' = IF gone.presence = None THEN callsigns
                      ELSE [callsigns EXCEPT ![gone.presence.callsign] = None]
      /\ effects' = IF gone.phase = "Closed"
                    THEN [Nothing EXCEPT !.deliveries = before]
                    ELSE [deliveries |-> before \o farewell, close |-> c]
      /\ UNCHANGED <<registered, calls>>

disconnect(c) ==
  /\ c \in registered
  /\ disconnect_locked(c, <<>>)

broadcast ==
  /\ effects' = send(active_ids(sessions), Ev("WindDelta", None))
  /\ UNCHANGED <<sessions, callsigns, registered, calls>>
-----------------------------------------------------------------------------
(***************************************************************************)
(* identify (authentication.rs).                                           *)
(***************************************************************************)
CanCall(t, c) == calls[t] = None /\ c \in registered

Suspend(t, op, c, command, generation) ==
  calls' = [calls EXCEPT ![t] = [op |-> op, connection_id |-> c,
                                 command |-> command, generation |-> generation]]

Resume(t, op) ==
  /\ calls[t] # None
  /\ calls[t].op = op
  /\ calls' = [calls EXCEPT ![t] = None]

\* Mutant of identify_verdict: the state is not looked at again after the await.
identify_unchecked(session, generation) == IF session.phase = "Closed" THEN "Gone" ELSE "Ok"

identify_verdict(session, generation) ==
  IF session.phase = "Closed" THEN "Gone"
  ELSE IF session.phase # "Connected" \/ session.generation # generation
       THEN "AlreadyRegistered"
  ELSE "Ok"

identify(t, c, command) ==
  LET verdict == identify_verdict(sessions[c], sessions[c].generation)
  IN  /\ CanCall(t, c)
      /\ \/ /\ verdict = "Ok"
            /\ Suspend(t, "identify", c, command, sessions[c].generation)
            /\ effects' = Nothing
         \/ /\ verdict # "Ok"
            /\ effects' = refusal(c, verdict)
            /\ UNCHANGED calls
      /\ UNCHANGED <<sessions, callsigns, registered>>

\* The whitelist lookup may fail for an enabled client (backend error).
authorize_client(client_id) == IF client_id \in Whitelist THEN BOOLEAN ELSE {FALSE}

identify_unauthorized(t) ==
  /\ Resume(t, "identify")
  /\ FALSE \in authorize_client(calls[t].command.client_id)
  /\ effects' = error_and_close(calls[t].connection_id, "UnauthorizedClient")
  /\ UNCHANGED <<sessions, callsigns, registered>>

identify_authorized(t) ==
  LET c == calls[t].connection_id
      verdict == identify_verdict(sessions[c], calls[t].generation)
  IN  /\ Resume(t, "identify")
      /\ TRUE \in authorize_client(calls[t].command.client_id)
      /\ \/ /\ verdict = "Ok"
            /\ sessions' = [sessions EXCEPT ![c].identification = calls[t].command,
                                            ![c].phase = "Identified",
                                            ![c].generation = @ + 1]
            /\ effects' = Nothing
         \/ /\ verdict # "Ok"
            /\ effects' = refusal(c, verdict)
            /\ UNCHANGED sessions
      /\ UNCHANGED <<callsigns, registered>>
-----------------------------------------------------------------------------
(***************************************************************************)
(* login (authentication.rs).                                              *)
(***************************************************************************)
InUse(callsign) == callsigns[callsign] # None

login_verdict(session, command) ==
  IF session.phase = "Closed" THEN "Gone"
  ELSE IF session.phase = "Active" THEN "AlreadyRegistered"
  ELSE IF session.dialect = "Vatsim" /\ session.phase # "Identified" THEN "Syntax"
  ELSE IF command.protocol_revision # ProtocolRevision[session.dialect]
       THEN "InvalidProtocolRevision"
  ELSE IF InUse(command.callsign) THEN "CallsignInUse"
  ELSE "Ok"

login(t, c, command) ==
  LET verdict == login_verdict(sessions[c], command)
  IN  /\ CanCall(t, c)
      /\ \/ /\ verdict = "Ok"
            /\ Suspend(t, "login", c, command, sessions[c].generation)
            /\ effects' = Nothing
         \/ /\ verdict # "Ok"
            /\ effects' = refusal(c, verdict)
            /\ UNCHANGED calls
      /\ UNCHANGED <<sessions, callsigns, registered>>

\* The provider reports a suspension, or bad credentials or its own failure.
login_unauthenticated(t) ==
  /\ Resume(t, "login")
  /\ \E code \in {"Suspended", "InvalidCredentials"} :
       effects' = error_and_close(calls[t].connection_id, code)
  /\ UNCHANGED <<sessions, callsigns, registered>>

\* Mutant of rating_verdict: the controller scale for every client type.
rating_on_one_scale(command, id) ==
  IF id.suspended THEN "Suspended"
  ELSE IF ~ AtcAllows(id.atc_rating, command.requested_rating) THEN "RequestedLevelTooHigh"
  ELSE "Ok"

rating_verdict(command, id) ==
  IF ~ identity_is_active(command.client_type, id) THEN "Suspended"
  ELSE IF ~ rating_is_authorized(command.client_type, command.requested_rating, id)
       THEN "RequestedLevelTooHigh"
  ELSE "Ok"

\* Mutant of activate_verdict: the callsign is not looked up again after the await.
activate_without_recheck(session, command, generation) ==
  IF session.phase = "Closed" THEN "Gone"
  ELSE IF \/ session.phase \notin {"Connected", "Identified"}
          \/ session.generation # generation
       THEN "AlreadyRegistered"
  ELSE "Ok"

\* Mutant of activate_verdict: the login is not compared with the $ID.
activate_any_identity(session, command, generation) ==
  IF InUse(command.callsign) THEN "CallsignInUse"
  ELSE activate_without_recheck(session, command, generation)

activate_verdict(session, command, generation) ==
  IF InUse(command.callsign) THEN "CallsignInUse"
  ELSE IF session.phase = "Closed" THEN "Gone"
  ELSE IF \/ session.phase \notin {"Connected", "Identified"}
          \/ session.generation # generation
       THEN "AlreadyRegistered"
  ELSE IF /\ session.dialect = "Vatsim"
          /\ \/ session.identification = None
             \/ session.identification.callsign # command.callsign
             \/ session.identification.network_id # command.network_id
       THEN "InvalidSource"
  ELSE "Ok"

presence_of(command) ==
  [callsign |-> command.callsign, client_type |-> command.client_type,
   network_id |-> command.network_id, rating |-> command.requested_rating]

\* append_vatsim_login_profile
vatsim_profile(c, presence) ==
  Deliver({c}, Ev("Query", None))
    \o (IF presence.client_type = "Atc"
        THEN Deliver({c}, Ev("Response", presence.callsign)) \o Deliver({c}, Ev("Response", None))
        ELSE <<>>)
    \o Deliver({c}, Ev("Response", None))
    \o (IF presence.client_type \in PilotSide
        THEN Deliver({c}, Ev("Error", "NoFlightPlan"))
        ELSE <<>>)

login_effects(c, dialect, presence, peers) ==
  [deliveries |->
     Deliver(peers, Ev("ClientAdded", presence.callsign))
       \o [line \in 1..(1 + MotdLines) |->
             [recipients |-> {c}, event |-> Ev("Welcome", presence.callsign)]]
       \o (IF dialect = "Vatsim" THEN vatsim_profile(c, presence) ELSE <<>>),
   close |-> None]

login_authenticated(t) ==
  LET c == calls[t].connection_id
      command == calls[t].command
      rating == rating_verdict(command, Users[command.network_id])
      verdict == IF rating # "Ok" THEN rating
                 ELSE activate_verdict(sessions[c], command, calls[t].generation)
      presence == presence_of(command)
  IN  /\ Resume(t, "login")
      /\ \/ /\ verdict = "Ok"
            /\ sessions' = [sessions EXCEPT ![c].phase = "Active",
                                            ![c].presence = presence,
                                            ![c].generation = @ + 1]
            /\ callsigns' = [callsigns EXCEPT ![command.callsign] = c]
            /\ effects' = login_effects(c, sessions[c].dialect, presence,
                                        active_ids(sessions) \ {c})
         \/ /\ verdict # "Ok"
            /\ effects' = refusal(c, verdict)
            /\ UNCHANGED <<sessions, callsigns>>
      /\ UNCHANGED registered
-----------------------------------------------------------------------------
(***************************************************************************)
(* weather_request (weather.rs).  The provider is external; an answer that *)
(* is missing, failed or malformed becomes NoWeather.  The session is not  *)
(* looked at again after the await.                                        *)
(***************************************************************************)
Accepted(c, source) ==
  /\ sessions[c].phase = "Active"
  /\ sessions[c].presence # None
  /\ sessions[c].presence.callsign = source

weather_request(t, c, source) ==
  /\ CanCall(t, c)
  /\ Accepted(c, source)
  /\ Suspend(t, "weather", c, None, 0)
  /\ effects' = Nothing
  /\ UNCHANGED <<sessions, callsigns, registered>>

weather_answered(t) ==
  /\ Resume(t, "weather")
  /\ LET c == calls[t].connection_id
     IN  \/ effects' = send({c}, Ev("WeatherReport", None))
         \/ effects' = error_effect(c, "NoWeather")
  /\ UNCHANGED <<sessions, callsigns, registered>>
-----------------------------------------------------------------------------
(***************************************************************************)
(* execute_active (commands.rs): one critical section per command.         *)
(***************************************************************************)
\* A command of an absent or inactive session, or with a foreign source (also
\* the early returns of weather_request).
execute_rejected(c, source) ==
  /\ c \in registered
  /\ ~ Accepted(c, source)
  /\ effects' = IF sessions[c].phase = "Active" THEN error_effect(c, "InvalidSource")
                ELSE Nothing
  /\ UNCHANGED <<sessions, callsigns, registered, calls>>

logoff(c, source) ==
  /\ Accepted(c, source)
  /\ disconnect_locked(c, <<>>)

validate(position) ==
  position.well_formed /\ (position.kind = "Atc" => position.visual_range >= 0)

\* Mutant of update_position: the kind is not compared with the client type.
update_position_of_any_kind(c, position) ==
  /\ Accepted(c, position.callsign)
  /\ validate(position)
  /\ sessions' = [sessions EXCEPT ![c].position = position]
  /\ effects' = send(position_recipients(sessions', c), Ev("Position", position.callsign))
  /\ UNCHANGED <<callsigns, registered, calls>>

update_position(c, position) ==
  /\ Accepted(c, position.callsign)
  /\ \/ /\ validate(position)
        /\ sessions[c].presence.client_type = position.kind
        /\ sessions' = [sessions EXCEPT ![c].position = position]
        /\ effects' = send(position_recipients(sessions', c),
                           Ev("Position", position.callsign))
     \/ /\ \/ ~ validate(position)
           \/ sessions[c].presence.client_type # position.kind
        /\ effects' = error_effect(c, "Syntax")
        /\ UNCHANGED sessions
  /\ UNCHANGED <<callsigns, registered, calls>>

file_flight_plan(c, plan) ==
  /\ Accepted(c, plan.callsign)
  /\ sessions' = [sessions EXCEPT ![c].flight_plan = plan]
  /\ effects' = send(flight_plan_recipients(sessions, c, 400),
                     Ev("FlightPlan", plan.callsign))
  /\ UNCHANGED <<callsigns, registered, calls>>

\* handle_routed_command, handle_ping and the relayed half of handle_query.
route(c, message) ==
  /\ Accepted(c, message.source)
  /\ effects' =
       IF message.type = "Ping" /\ message.destination.kind = "Server"
       THEN send({c}, Ev("Pong", None))
       ELSE IF message.type = "Noop" THEN Nothing
       ELSE send(resolve_destination(sessions, callsigns, c, message.destination,
                   IF message.type = "Text" THEN "Message" ELSE "Source"),
                 Ev(message.type, message.source))
  /\ UNCHANGED <<sessions, callsigns, registered, calls>>

\* handle_query to the server for a flight plan; None is an argument that is
\* missing or not a callsign.
query_flight_plan(c, source, target) ==
  /\ Accepted(c, source)
  /\ effects' =
       IF target = None THEN error_effect(c, "Syntax")
       ELSE IF ~ InUse(target) THEN error_effect(c, "NoSuchCallsign")
       ELSE IF sessions[callsigns[target]].flight_plan = None
            THEN error_effect(c, "NoFlightPlan")
       ELSE send({c}, Ev("FlightPlan", sessions[callsigns[target]].flight_plan.callsign))
  /\ UNCHANGED <<sessions, callsigns, registered, calls>>

\* The target is looked up before the requester's rating is compared with 11.
kill(c, source, target) ==
  /\ Accepted(c, source)
  /\ \/ /\ ~ InUse(target)
        /\ effects' = error_effect(c, "NoSuchCallsign")
        /\ UNCHANGED <<sessions, callsigns, registered, calls>>
     \/ /\ InUse(target)
        /\ sessions[c].presence.rating < 11
        /\ effects' = send({c}, Ev("Welcome", source))
        /\ UNCHANGED <<sessions, callsigns, registered, calls>>
     \/ /\ InUse(target)
        /\ sessions[c].presence.rating >= 11
        /\ disconnect_locked(callsigns[target],
             Deliver({c}, Ev("Welcome", source))
               \o Deliver({callsigns[target]}, Ev("Disconnect", target)))
-----------------------------------------------------------------------------
Lifecycle(c) ==
  \/ \E dialect \in Listeners : register(c, dialect)
  \/ disconnect(c)

AsyncCall(t, c) ==
  \/ \E command \in Identifications : identify(t, c, command)
  \/ \E command \in Logins : login(t, c, command)
  \/ \E source \in Callsigns : weather_request(t, c, source)

AsyncReturn(t) ==
  \/ identify_unauthorized(t)
  \/ identify_authorized(t)
  \/ login_unauthenticated(t)
  \/ login_authenticated(t)
  \/ weather_answered(t)

Execute(c) ==
  \/ \E source \in Callsigns : execute_rejected(c, source) \/ logoff(c, source)
  \/ \E position \in Positions : update_position(c, position)
  \/ \E plan \in FlightPlans : file_flight_plan(c, plan)
  \/ \E message \in Messages : route(c, message)
  \/ \E source \in Callsigns, target \in Callsigns \cup {None} :
       query_flight_plan(c, source, target)
  \/ \E source, target \in Callsigns : kill(c, source, target)

Next ==
  \/ \E c \in ConnectionIds : Lifecycle(c) \/ Execute(c)
  \/ \E t \in Tasks, c \in ConnectionIds : AsyncCall(t, c)
  \/ \E t \in Tasks : AsyncReturn(t)
  \/ broadcast

Spec == Init /\ [][Next]_vars
-----------------------------------------------------------------------------
(***************************************************************************)
(* Properties.                                                             *)
(***************************************************************************)
\* Every variable keeps its type: the session table, the callsign index, the
\* calls suspended at an await and the effects handed to the server.
TypeOK ==
  /\ sessions \in [ConnectionIds -> Session]
  /\ callsigns \in [Callsigns -> ConnectionIds \cup {None}]
  /\ registered \subseteq ConnectionIds
  /\ calls \in [Tasks -> Call \cup {None}]
  /\ effects \in Effects

\* The callsign index and the session table agree in both directions: a
\* callsign points at a connection exactly when that connection's presence
\* bears it.  Hence a callsign has one owner, a disconnect or a kill frees it at
\* once, and no path removes only the session or only the index entry.
CallsignIndexExact ==
  \A cs \in Callsigns, c \in ConnectionIds :
    callsigns[cs] = c <=> /\ sessions[c].presence # None
                          /\ sessions[c].presence.callsign = cs

\* The phase, the optional parts of a session and its generation move together:
\* the generation counts the successful identify and login of the session, which
\* is what makes it a valid token for a call resumed after an await.
SessionShape ==
  \A c \in ConnectionIds :
    LET s == sessions[c] IN
    /\ s.phase = "Active" <=> s.presence # None
    /\ s.phase \in {"Connected", "Closed"} => s.identification = None
    /\ s.phase = "Identified" => s.identification # None
    /\ s.generation = (IF s.identification = None THEN 0 ELSE 1)
                        + (IF s.presence = None THEN 0 ELSE 1)
    /\ s.presence = None => s.position = None /\ s.flight_plan = None
    /\ s.phase = "Closed" => s = NoSession
    /\ c \notin registered => s = NoSession

\* A VATSIM session is active only under the callsign and the network id of the
\* $ID it sent, even when identify and login calls of the connection overlap.
VatsimIdentityMatches ==
  \A c \in ConnectionIds :
    LET s == sessions[c] IN
    s.dialect = "Vatsim" /\ s.phase = "Active" =>
      /\ s.identification # None
      /\ s.identification.callsign = s.presence.callsign
      /\ s.identification.network_id = s.presence.network_id

\* An active presence carries a rating that its account holds, on the scale of
\* its client type, and the account is not suspended on that scale.
RatingAuthorized ==
  \A c \in ConnectionIds :
    LET p == sessions[c].presence IN
    p # None => /\ identity_is_active(p.client_type, Users[p.network_id])
                /\ rating_is_authorized(p.client_type, p.rating, Users[p.network_id])

\* The position and the flight plan a session stores were sent under its own
\* callsign, the position is valid and of the kind of its client type; an
\* observer therefore never has a position.
StateIsOwn ==
  \A c \in ConnectionIds :
    LET s == sessions[c] IN
    /\ s.position # None => /\ s.presence # None
                            /\ s.position.callsign = s.presence.callsign
                            /\ s.position.kind = s.presence.client_type
                            /\ validate(s.position)
    /\ s.flight_plan # None => /\ s.presence # None
                               /\ s.flight_plan.callsign = s.presence.callsign

\* The session table never exceeds the configured capacity.
WithinCapacity == Cardinality(live) <= MaxClients

\* A suspended call belongs to a connection id that was registered, and the
\* session it will find again is the one it started from: never one with an
\* older generation.
CallsNeverOutrun ==
  \A t \in Tasks :
    calls[t] # None =>
      /\ calls[t].connection_id \in registered
      /\ \/ sessions[calls[t].connection_id].phase = "Closed"
         \/ calls[t].generation <= sessions[calls[t].connection_id].generation

\* A connection that has not logged in is sent nothing but errors: no presence,
\* position, message, weather or wind reaches it, late answers included.
UnauthenticatedSilent ==
  \A i \in 1..Len(effects.deliveries) :
    \A c \in effects.deliveries[i].recipients :
      sessions[c].phase \in {"Connected", "Identified"} =>
        effects.deliveries[i].event.kind = "Error"

\* Radio contact is mutual: whenever a text that one client sends on a frequency
\* reaches another, a text sent back at the same moment reaches the first.
RadioIsMutual ==
  \A a, b \in active_ids(sessions) :
    within_message_range(sessions, a, b) => within_message_range(sessions, b, a)

\* The deliveries of a call that announce (kind) a callsign.
Announcements(e, kind, cs) ==
  {i \in 1..Len(e.deliveries) :
     e.deliveries[i].event = Ev(kind, cs)}

AnnouncedTo(e, kind, cs, peers) ==
  /\ peers = {} => Announcements(e, kind, cs) = {}
  /\ peers # {} => \E i \in 1..Len(e.deliveries) :
                     /\ Announcements(e, kind, cs) = {i}
                     /\ e.deliveries[i].recipients = peers

\* A callsign that is released is announced as removed exactly once, to exactly
\* the clients that remain active; one that is claimed is announced as added
\* exactly once, to exactly the other active clients; no other step announces
\* an addition or a removal.
RosterExact ==
  [][\A cs \in Callsigns :
       LET claimed == callsigns[cs] = None /\ callsigns'[cs] # None
           freed   == callsigns[cs] # None /\ callsigns'[cs] = None
       IN  /\ AnnouncedTo(effects', "ClientRemoved", cs,
                          IF freed THEN active_ids(sessions') ELSE {})
           /\ AnnouncedTo(effects', "ClientAdded", cs,
                          IF claimed THEN active_ids(sessions') \ {callsigns'[cs]} ELSE {})
    ]_vars

\* A client is removed by the $!! of another one only if that one is a controller
\* of supervisor rating or above: a pilot rating is never measured on the
\* controller scale.
KillNeedsSupervisor ==
  [][\A i \in 1..Len(effects'.deliveries) :
       /\ effects'.deliveries[i].event.kind = "Disconnect"
       /\ effects'.deliveries[i].recipients # effects'.deliveries[1].recipients
       => \A c \in effects'.deliveries[1].recipients :
           /\ sessions[c].presence.client_type = "Atc"
           /\ sessions[c].presence.rating >= AtcWire.Supervisor
    ]_vars


\* The core implements the abstract registry: phases only advance, a callsign is
\* claimed only while free and released only by the step that closes its owner.
Registry == INSTANCE CallsignRegistry WITH
  phase <- [c \in ConnectionIds |->
              IF c \in registered THEN sessions[c].phase ELSE "Unused"],
  owner <- callsigns

RegistrySpec == Registry!Spec
=============================================================================
