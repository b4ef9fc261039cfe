-------------------------------- MODULE Relay --------------------------------
(***************************************************************************)
(* One frame's way through the server: decoded in its sender's dialect,    *)
(* turned into an event by the core and encoded for a recipient, whose     *)
(* dialect may be another.                                                 *)
(*                                                                         *)
(* process_frame and Runtime::dispatch are followed for what they do to    *)
(* the content of a frame; who the recipients are is module Network's      *)
(* subject and how the steps interleave is module Server's.                *)
(***************************************************************************)
EXTENDS Dialects

CONSTANTS
  Own,       \* the callsign of the sender's session
  Inbound,   \* the frames that may arrive, by dialect
  Limit,     \* max_frame_bytes of the listener of each dialect
  Secrets,   \* passwords: segments that no other field of a frame carries
  Accounts,  \* network id and real name, as the account that logs in has them
  Latitudes, Longitudes,  \* exact values from -90 to 90 and from -180 to 180
  Reports,   \* raw weather reports of the provider
  Profile,   \* the values of a parsed weather profile
  Notices    \* the product message and the motd lines

\* What serde makes of an Aster frame: every field of its type is there.
IsMessage(m) ==
  /\ m = Msg(m.op, m.kind, m.source, m.destination, m.args)
  /\ m.source \in Segment /\ m.destination.name \in Seq(Segment) \ {<<>>}
  /\ m.args \in Seq(Seq(Segment) \ {<<>>})
  /\ m.op = "Position" => m.kind \in {"Pilot", "Atc"}
  /\ m.op \in {"Identify", "Position", "WeatherRequest"} => m.args # <<>>
  /\ m.op = "Login" => Len(m.args) = 6
  /\ m.op \in {"Query", "Response"} => m.kind \in Range(QueryKind) \cup {"Raw"}
  /\ m.op \in {"Handoff", "ClientData"} => m.kind \in Range(DirectKind)

\* The framing leaves no line delimiter in a frame, weather_request refuses a report with
\* one, and a longitude is printed with a sign, three digits, a point and five digits at most.
ASSUME RelayAssumption ==
  /\ Own \in Callsigns /\ Upper[Own] = Own
  /\ DOMAIN Inbound = ProtocolDialect
  /\ \A frame \in Inbound["Classic"] \cup Inbound["Vatsim"] :
       /\ IsFrame(frame) /\ frame.head \notin Broken
       /\ \A i \in 1 .. Len(frame.rest) : frame.rest[i] \notin Broken
  /\ \A frame \in Inbound["AsterV1"] : IsMessage(frame.message)
  /\ Latitudes \subseteq Longitudes /\ Longitudes \subseteq DOMAIN Decimal
  /\ \A s \in Longitudes : Size[Rounded[s]] <= 10
  /\ Reports \cap Broken = {}
  /\ Len(Profile) = 49

VARIABLES
  stage,    \* "idle", "execute", "dispatch" or "done"
  from,     \* dialect and phase of the sender's session
  inbound,  \* its frame
  result,   \* what decode returned
  event,    \* what the core makes of it
  plans,    \* flight plans on file
  outcome   \* the recipient's dialect, its frames or the encoder's error

vars == <<stage, from, inbound, result, event, plans, outcome>>

Nothing == [none |-> TRUE]

Init ==
  /\ stage = "idle" /\ from = Nothing /\ inbound = Nothing
  /\ result = Nothing /\ event = Nothing /\ outcome = Nothing
  /\ plans = {}
-----------------------------------------------------------------------------
(***************************************************************************)
(* process_frame: decode, and the reply to a frame that is refused.        *)
(***************************************************************************)
WithinLimit(dialect, frame) == dialect # "AsterV1" => fits(frame, Limit[dialect])

receive(dialect, phase, frame) ==
  /\ stage = "idle"
  /\ frame \in Inbound[dialect] /\ WithinLimit(dialect, frame)
  /\ stage' = "execute"
  /\ from' = [dialect |-> dialect, phase |-> phase]
  /\ inbound' = frame
  /\ result' = decode(dialect, frame)
  /\ UNCHANGED <<event, plans, outcome>>

\* The code as it is printed, and ErrorCode::description.
ErrorText ==
  [CallsignInUse |-> <<"001", "Callsign in use">>, InvalidCallsign |-> <<"002", "Invalid callsign">>,
   AlreadyRegistered |-> <<"003", "Already registerd">>, Syntax |-> <<"004", "Syntax error">>,
   InvalidSource |-> <<"005", "Invalid source callsign">>,
   InvalidCredentials |-> <<"006", "Invalid CID/password">>,
   NoSuchCallsign |-> <<"007", "No such callsign">>, NoFlightPlan |-> <<"008", "No flightplan">>,
   NoWeather |-> <<"009", "No such weather profile">>,
   InvalidProtocolRevision |-> <<"010", "Invalid protocol revision">>,
   RequestedLevelTooHigh |-> <<"011", "Requested level too high">>,
   Suspended |-> <<"013", "CID/PID was suspended">>,
   UnauthorizedClient |-> <<"016", "Unauthorized client software">>]

\* What the server writes of its own accord.
ServerText ==
  {Empty, "server", "SERVER", "CLIENT", "unknown", "*", "*A", "*P", "0", "9", "100", "5", "-1",
   "METAR", "N", "S", "Y", "missing $ID", "position type", "field is invalid", " reason",
   "IP", "192.0.2.1", "ATC", "ATCINFO=1", "SECPOS=1", "You are not allowed to kill users!",
   "Attempting to kill", "VATSIM FSD V3.13", "challenge"}
    \cup DOMAIN QueryKind \cup UNION {Range(ErrorText[code]) : code \in DOMAIN ErrorText}

ASSUME ServerTextAssumption ==
  /\ Upper["server"] = "SERVER"
  /\ \A s \in ServerText : s \in Segment \ Broken /\ Size[s] <= 48

Public == Segment \ Secrets

\* The places of a password in a frame and in a message.
PasswordField(frame) ==
  IF frame.prefix \in {"@", "%"} THEN {}
  ELSE IF frame.command = "AA" THEN {4}
  ELSE IF frame.command = "AP" THEN {3} ELSE {}

PasswordArg(m) == IF m.op = "Login" THEN {2} ELSE {}

\* A password is not also something else: a text of the server, another field of a
\* frame, or what a conversion makes of one.
ASSUME SecretsAssumption ==
  /\ ServerText \cup Reports \cup Notices \cup {Own} \subseteq Public
  /\ \A account \in Accounts : {account.id, account.name} \subseteq Public
  /\ Profile \in Seq(Seq(Public))
  /\ \A f \in {Upper, Int32, Unsigned, Decimal, Rounded, Squawk, FirstChar} :
       \A s \in DOMAIN f \ Secrets : f[s] \in Public
  /\ \A frame \in Inbound["Classic"] \cup Inbound["Vatsim"] :
       /\ frame.head \in Public
       /\ \A i \in 1 .. Len(frame.rest) : frame.rest[i] \in Secrets => i \in PasswordField(frame)
  /\ \A frame \in Inbound["AsterV1"] :
       LET m == frame.message
       IN  /\ m.source \in Public /\ m.destination.name \in Seq(Public)
           /\ \A i \in 1 .. Len(m.args) : i \in PasswordArg(m) \/ m.args[i] \in Seq(Public)

\* To the session's callsign, if it has one.
error_event(target, code, environment) ==
  Msg("Error", code, "server", To("Direct", <<target>>),
      << <<ErrorText[code][1]>>, environment, <<ErrorText[code][2]>> >>)

refuse ==
  /\ stage = "execute" /\ ~ result.ok
  /\ event' = error_event(IF from.phase = "Active" THEN Own ELSE "unknown", result.error.code, <<Empty>>)
  /\ stage' = "dispatch"
  /\ UNCHANGED <<from, inbound, result, plans, outcome>>
-----------------------------------------------------------------------------
(***************************************************************************)
(* Network::execute, as far as it makes events of the command it is given. *)
(***************************************************************************)
\* Position::validate, on the exact coordinates.
validate(position) ==
  /\ position.kind = "Pilot" =>
       /\ position.args[1][1] \in {"N", "S", "Y"}
       /\ position.args[2][1] \in DOMAIN Squawk
       /\ position.args[4][1] \in Latitudes /\ position.args[5][1] \in Longitudes
  /\ position.kind = "Atc" =>
       /\ position.args[4][1] \in DOMAIN Unsigned
       /\ position.args[6][1] \in Latitudes /\ position.args[7][1] \in Longitudes

ServerMsg(op, target, args) == Msg(op, "Text", "server", Direct(target), args)

\* Mutant of login_events: the announcement copies the login.
announce_login(command) ==
  {Msg("ClientAdded", command.kind, command.source, Nowhere,
       <<command.args[1], command.args[2], command.args[3], command.args[6]>>)}

\* The login is announced with the account's data, and the client is welcomed.
login_events(command) ==
  {Msg("ClientAdded", command.kind, command.source, Nowhere,
       << <<account.id>>, <<account.name>>, command.args[3], command.args[6]>>) : account \in Accounts}
    \cup {ServerMsg("Welcome", command.source, << <<line>> >>) : line \in Notices}

\* Every way in which identify and login refuse a command; the connection is closed.
greeting_errors(command) ==
  LET refuse_with(code, environment) == error_event(command.source, code, environment)
  IN  IF command.op = "Identify" THEN {refuse_with("UnauthorizedClient", command.args[1])}
      ELSE {refuse_with("RequestedLevelTooHigh", command.args[3]),
            refuse_with("InvalidCredentials", command.args[1])}
           \cup {refuse_with(code, <<Empty>>) :
                   code \in {"InvalidProtocolRevision", "CallsignInUse", "Suspended"}}
           \cup (IF from.dialect = "Vatsim"
                 THEN {refuse_with("Syntax", <<"missing $ID">>), refuse_with("InvalidSource", <<Empty>>)}
                 ELSE {})

\* append_vatsim_login_profile
vatsim_login_profile(command) ==
  LET tell(op, kind, args) == Msg(op, kind, "SERVER", Direct(command.source), args)
  IN  {tell("Query", "Capabilities", <<>>), tell("Response", "Raw", << <<"IP">>, <<"192.0.2.1">> >>)}
        \cup (IF command.kind = "Atc"
              THEN {tell("Response", "Raw", << <<"ATC">>, <<"N">>, <<command.source>> >>),
                    tell("Response", "Capabilities", << <<"ATCINFO=1">>, <<"SECPOS=1">> >>)}
              ELSE {error_event(command.source, "NoFlightPlan", <<command.source>>)})

query_events(command) ==
  LET target == IF command.args = <<>> THEN Empty ELSE command.args[1][1]
      known  == command.args # <<>> /\ Len(command.args[1]) = 1 /\ target \in Callsigns
  IN  CASE command.destination.to # "Server" -> {command}
        [] command.destination.to = "Server" /\ command.kind # "FlightPlan" -> {}
        [] OTHER ->
             IF ~ known THEN {error_event(Own, "Syntax", <<Empty>>)}
             ELSE {error_event(Own, "NoSuchCallsign", <<Upper[target]>>),
                   error_event(Own, "NoFlightPlan", <<Empty>>)}
                  \cup {Msg("FlightPlan", "Plan", plan.source, Direct(command.source), plan.args) :
                           plan \in {p \in plans : p.source = Upper[target]}}

weather_events(command) ==
  {error_event(Own, "NoWeather", command.args[1])}
    \cup (IF command.kind = "Raw"
          THEN {ServerMsg("WeatherReport", command.source, << <<report>> >>) : report \in Reports}
          ELSE {ServerMsg("WeatherProfile", command.source, Profile)})

removal_events(callsign_removed) ==
  LET removed(kind) ==
        {Msg("ClientRemoved", kind, callsign_removed, Nowhere, << <<account.id>> >>) : account \in Accounts}
  IN  removed("Atc") \cup removed("Pilot")

\* The target may be unknown, or the sender's rating too low.
kill_events(command) ==
  LET target == command.destination.name[1]
  IN  {error_event(Own, "NoSuchCallsign", <<target>>),
       ServerMsg("Welcome", Own, << <<"You are not allowed to kill users!">> >>),
       ServerMsg("Welcome", Own, << <<"Attempting to kill">> >>),
       Msg("Disconnect", "Text", "SERVER", command.destination, command.args)}
        \cup removal_events(target)

\* The events of a command whose source is the session's own callsign.
accepted_events(command) ==
  CASE command.op = "Noop" -> {}
    [] command.op = "Logoff" -> removal_events(command.source)
    [] command.op = "Position" ->
         IF validate(command) THEN {command, error_event(Own, "Syntax", <<"position type">>)}
         ELSE {error_event(Own, "Syntax", <<"field is invalid", " reason">>)}
    [] command.op = "FlightPlan" -> {[command EXCEPT !.destination = Atc]}
    [] command.op = "Query" -> query_events(command)
    [] command.op = "Ping" ->
         IF command.destination.to = "Server" THEN {ServerMsg("Pong", command.source, command.args)}
         ELSE {command}
    [] command.op = "Kill" -> kill_events(command)
    [] command.op = "WeatherRequest" -> weather_events(command)
    [] OTHER -> IF command.destination.to = "Server" THEN {} ELSE {command}

Greeting(command) == command.op \in {"Login", "Identify"}

\* A session that is not active identifies itself and logs in and does nothing else;
\* one that is, does anything else, in its own name.
events_of(command) ==
  CASE from.phase # "Active" /\ ~ Greeting(command) -> {}
    [] from.phase # "Active" /\ Greeting(command) ->
         greeting_errors(command)
           \cup (IF command.op = "Login" THEN login_events(command) ELSE {})
           \cup (IF command.op = "Login" /\ from.dialect = "Vatsim"
                 THEN vatsim_login_profile(command) ELSE {})
    [] from.phase = "Active" /\ Greeting(command) -> {error_event(Own, "AlreadyRegistered", <<Empty>>)}
    [] from.phase = "Active" /\ ~ Greeting(command) /\ command.source # Own ->
         {error_event(Own, "InvalidSource", <<command.source>>)}
    [] OTHER -> accepted_events(command)

\* A command may also find nobody to send its event to.
execute ==
  /\ stage = "execute" /\ result.ok
  /\ \/ /\ event' \in events_of(result.value)
        /\ stage' = "dispatch"
     \/ /\ stage' = "done"
        /\ UNCHANGED event
  /\ plans' = IF from.phase # "Active" \/ result.value.source # Own THEN plans
              ELSE CASE result.value.op = "FlightPlan" -> {result.value}
                     [] result.value.op = "Logoff" -> {}
                     [] OTHER -> plans
  /\ UNCHANGED <<from, inbound, result, outcome>>

wind_delta ==
  /\ stage = "idle"
  /\ stage' = "dispatch"
  /\ event' = Msg("WindDelta", "Text", "SERVER", Nowhere, << <<"5">>, <<"-1">> >>)
  /\ UNCHANGED <<from, inbound, result, plans, outcome>>
-----------------------------------------------------------------------------
(***************************************************************************)
(* Runtime::dispatch, for one recipient, and the frames of the handshake.  *)
(***************************************************************************)
\* Events that only the sender is sent.
ToSender(e) ==
  \/ e.op \in {"Error", "Welcome", "WeatherReport", "WeatherProfile"}
  \/ e.source \in {"server", "SERVER"} /\ e.op \in {"Pong", "Query", "Response"}
  \/ e.op = "FlightPlan" /\ e.destination.to = "Direct"

dispatch(dialect) ==
  /\ stage = "dispatch"
  /\ ToSender(event) => dialect = from.dialect
  /\ outcome' = [dialect |-> dialect, frames |-> encode(dialect, event)]
  /\ stage' = "done"
  /\ UNCHANGED <<from, inbound, result, event, plans>>

greet(dialect) ==
  /\ stage = "idle"
  /\ outcome' = [dialect |-> dialect, frames |-> initial_frames(dialect, "challenge")]
  /\ stage' = "done"
  /\ UNCHANGED <<from, inbound, result, event, plans>>

\* The frame is forgotten; a filed plan is not.
finish ==
  /\ stage = "done"
  /\ stage' = "idle"
  /\ from' = Nothing /\ inbound' = Nothing /\ result' = Nothing
  /\ event' = Nothing /\ outcome' = Nothing
  /\ UNCHANGED plans

Next ==
  \/ \E dialect \in ProtocolDialect :
       \/ \E phase \in {"Connected", "Active"}, frame \in Inbound[dialect] :
            receive(dialect, phase, frame)
       \/ dispatch(dialect) \/ greet(dialect)
  \/ refuse \/ execute \/ wind_delta \/ finish

Spec == Init /\ [][Next]_vars
-----------------------------------------------------------------------------
(***************************************************************************)
(* Properties.                                                             *)
(***************************************************************************)
Dispatched == stage = "done" /\ event # Nothing /\ outcome # Nothing

Delivered == Dispatched /\ outcome.frames.ok

Relayed ==
  Delivered /\ result # Nothing /\ result.ok
    /\ event.op \in {"Text", "Ping", "Pong", "Query", "Response", "Handoff", "ClientData",
                     "Position", "FlightPlan"}
    /\ event.op = result.value.op

\* What a peer reads of a command: a position has its coordinates to five digits.
Reread(command) ==
  IF command.op # "Position" THEN command
  ELSE LET reread == [s \in DOMAIN Rounded |-> Decimal[Rounded[s]]]
       IN  [command EXCEPT !.args = with_coordinates(command, reread)]

\* A relay keeps the meaning of what it relays: what a classic or a VATSIM peer
\* receives of a routed command, a position or a flight plan from a peer of the
\* classic family reads back as the command that was sent, field for field, but for
\* the digits of a coordinate after the fifth, which the encoder rounds away.
RelayReadsBack ==
  Relayed /\ from.dialect # "AsterV1" /\ outcome.dialect # "AsterV1" =>
    classic_decode(outcome.frames.value[1]) = Ok(Reread(result.value))

\* The bytes a packet is written with are the bytes it was read from: every frame
\* the server sends in the classic family is read and written again unchanged, and
\* so is every frame it accepts, the compact form of a pilot position aside.  No frame
\* it sends holds a line delimiter, which would make it two.
EnvelopeRoundTrip ==
  /\ outcome # Nothing /\ outcome.frames.ok /\ outcome.dialect # "AsterV1" =>
       \A i \in 1 .. Len(outcome.frames.value) :
         LET frame == outcome.frames.value[i]
         IN  /\ parse(frame).ok /\ assemble(parse(frame).value) = frame
             /\ Range(<<frame.head>> \o frame.rest) \cap Broken = {}
  /\ result # Nothing /\ result.ok /\ from.dialect # "AsterV1" =>
       LET packet == parse(inbound).value
       IN  /\ parse(assemble(packet)) = Ok(packet)
           /\ inbound.prefix # "@" \/ inbound.head = Empty => assemble(packet) = inbound

\* A frame of the classic length is never too long to be relayed, whether a classic or
\* a VATSIM listener accepted it: the encoder refuses no routed message and no position
\* made of it.  A ping or a pong without a payload is the exception: it gains the colon
\* of an empty one.
ClassicRelayFits ==
  Dispatched /\ result # Nothing /\ result.ok /\ from.dialect # "AsterV1"
    /\ fits(inbound, 511)
    /\ (event.op \in {"Ping", "Pong"} => parse(inbound).value.fields # <<>>)
    /\ event.op \in {"Text", "Ping", "Pong", "Query", "Response", "Handoff", "ClientData", "Position"}
    => outcome.frames.ok

\* Nobody is sent the password of a login, not even in an error about it, and a peer
\* is told the account's own network id when the login named it differently.
NoPasswordOnWire ==
  Delivered =>
    /\ \A i \in 1 .. Len(outcome.frames.value) :
         LET frame == outcome.frames.value[i]
             sent  == IF outcome.dialect = "AsterV1" THEN UNION {ToSet(arg) : arg \in ToSet(frame.message.args)}
                      ELSE {frame.head} \cup ToSet(frame.rest)
         IN  sent \cap Secrets = {}
    /\ event.op = "ClientAdded" => \E account \in Accounts : event.args[1] = <<account.id>>

\* The errors of a login keep their order and their consequence (classic and
\* VATSIM): too few fields are a syntax error and keep the connection, then comes
\* the callsign and, after the rating, the revision; both close a connection that
\* is not logged in, and no decode error closes one that is.
LoginErrorPolicy ==
  /\ result # Nothing /\ ~ result.ok /\ from.phase = "Active"
       /\ closes_connection(from.phase, result.error) => result.error.kind = "Version"
  /\ result # Nothing /\ from.dialect # "AsterV1" =>
       LET packet == parse(inbound)
           login  == packet.ok /\ packet.value.command \in {"AA", "AP"}
           minimum == IF packet.value.command = "AA" THEN 5 ELSE 6
           revision == packet.value.fields[IF packet.value.command = "AA" THEN 5 ELSE 4][1]
           rating   == packet.value.fields[IF packet.value.command = "AA" THEN 4 ELSE 3][1]
           closing  == ~ result.ok /\ closes_connection(from.phase, result.error)
       IN  login /\ from.phase = "Connected" =>
             CASE Len(packet.value.fields) < minimum -> ~ result.ok /\ ~ closing
               [] Len(packet.value.fields) >= minimum /\ packet.value.source \notin Callsigns ->
                    closing /\ result.error.code = "InvalidCallsign"
               [] OTHER -> /\ closing <=> rating \in DOMAIN Int32 /\ revision \notin DOMAIN Unsigned
                           /\ closing => result.error.code = "InvalidProtocolRevision"
=============================================================================
