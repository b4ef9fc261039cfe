------------------------------ MODULE Dialects ------------------------------
(***************************************************************************)
(* The three protocol backends: decode, from the frame of a peer to a      *)
(* command of the core, and encode, from an event to the frames of one     *)
(* recipient's dialect.                                                    *)
(*                                                                         *)
(* A conversion of a field is a partial function on segments: its domain   *)
(* is what the parser accepts, its value what the printer writes for it.   *)
(* JSON itself is serde's: an Aster frame is the object it carries.        *)
(***************************************************************************)
EXTENDS Packet, ProtocolErrors, FiniteSets, FiniteSetsExt

CONSTANTS
  Upper,         \* to_ascii_uppercase
  Callsigns,     \* segments that Callsign::parse accepts
  Ranges,        \* segments that begin with @
  Int32,         \* i32 parsed and printed
  Unsigned,      \* u16 and u32 parsed and printed
  Decimal,       \* f64 parsed: the exact value, written in full
  Rounded,       \* f64 parsed and printed with five digits
  Squawk,        \* canonical_squawk
  FirstChar,     \* the first character, of segments that have one
  HexIds,        \* four hexadecimal characters
  UniqueNumbers  \* nine digits with an optional sign

\* Nothing is converted twice: a printed value is printed again as itself.
Canonical(f) ==
  /\ DOMAIN f \subseteq Segment
  /\ \A s \in DOMAIN f : f[s] \in DOMAIN f /\ f[f[s]] = f[s]

\* Upper case keeps the length of a text and its delimiters; a printed number is short.
ASSUME DialectsAssumption ==
  /\ DOMAIN Upper = Segment /\ \A s \in Segment : Size[Upper[s]] = Size[s]
  /\ \A s \in Segment \ Broken : Upper[s] \notin Broken
  /\ \A f \in {Upper, Int32, Unsigned, Decimal, Rounded, Squawk, FirstChar} : Canonical(f)
  /\ DOMAIN Rounded = DOMAIN Decimal
  /\ Callsigns \subseteq Segment \ {Empty, "*", "*A", "*P"}
  /\ \A s \in Callsigns : Size[s] \in 2 .. 12 /\ Upper[s] \in Callsigns
  /\ Ranges \subseteq Segment \ Callsigns
  /\ \A f \in {Int32, Unsigned, Squawk} : \A s \in DOMAIN f : Size[f[s]] <= 11
  /\ \A f \in {Int32, Unsigned, Squawk, Decimal, Rounded} : \A s \in DOMAIN f : f[s] \notin Broken

ProtocolDialect == {"Classic", "Vatsim", "AsterV1"}

\* Mutant of CLASSIC_MAX_FRAME_BYTES: the delimiter is counted.
frame_bytes_with_delimiter == 509

CLASSIC_MAX_FRAME_BYTES == 511
VATSIM_MAX_FRAME_BYTES == 4096

\* A command or an event; kind tells the variants of one operation apart.
Msg(op, kind, source, destination, args) ==
  [op |-> op, kind |-> kind, source |-> source, destination |-> destination, args |-> args]

To(who, name) == [to |-> who, name |-> name]
Direct(callsign) == To("Direct", <<callsign>>)
Server == To("Server", <<"SERVER">>)
Atc == To("Atc", <<"*A">>)
Nowhere == To("None", <<Empty>>)
-----------------------------------------------------------------------------
(***************************************************************************)
(* Errors.  A decoder returns at its first fault.                          *)
(***************************************************************************)
Fault(kind, code) == [kind |-> kind, code |-> code]

None == Fault("None", "None")
Syntax == Fault("Syntax", "Syntax")
InvalidField == Fault("InvalidField", "Syntax")
Unless(condition, fault) == IF condition THEN None ELSE fault

\* The command, unless one of the faults, in their order, is there.
Checked(faults, command) ==
  LET found == {i \in 1 .. Len(faults) : faults[i] # None}
  IN  IF found = {} THEN Ok(command) ELSE Err(faults[Min(found)])
-----------------------------------------------------------------------------
(***************************************************************************)
(* Fields (classic decode/mod.rs).                                         *)
(***************************************************************************)
require_fields(packet, minimum) == Unless(Len(packet.fields) >= minimum, Syntax)

callsign(value, code) == Unless(value \in Callsigns, Fault("InvalidField", code))

\* Destination::parse
destination(value) ==
  IF Upper[value] = "SERVER" THEN Server
  ELSE IF value = "*" THEN To("All", <<"*">>)
  ELSE IF Upper[value] = "*A" THEN Atc
  ELSE IF Upper[value] = "*P" THEN To("Pilots", <<"*P">>)
  ELSE IF value \in Ranges THEN To("Range", <<value>>)
  ELSE IF value \in Callsigns THEN Direct(Upper[value])
  ELSE Nowhere

any_destination(value) == Unless(destination(value) # Nowhere, InvalidField)

direct_destination(value) ==
  IF destination(value) = Nowhere THEN InvalidField
  ELSE Unless(destination(value).to = "Direct", Syntax)

\* Columns of a fixed layout: how each is converted, and the fault if it cannot be.
Column(conversion, fault) == [conversion |-> conversion, fault |-> fault]
AnyText == Column([s \in Segment |-> s], None)
Number == Column(Int32, Syntax)
Coordinate == Column(Decimal, Syntax)
Revision == Column(Unsigned, Fault("InvalidField", "InvalidProtocolRevision"))

LoginColumns ==
  [AA |-> <<AnyText, AnyText, AnyText, Number, Revision>>,
   AP |-> <<AnyText, AnyText, Number, Revision, Number, AnyText>>]

PilotColumns ==
  <<Column(Squawk, InvalidField), Number, Coordinate, Coordinate, Number, Number,
    Column(Unsigned, Syntax), Number>>

AtcColumns == <<Number, Number, Number, Number, Coordinate, Coordinate, Number>>

PlanColumns ==
  <<Column(FirstChar, Syntax), AnyText, Number, AnyText, Number, Number, AnyText, AnyText,
    Number, Number, Number, Number, AnyText, AnyText, AnyText>>

\* The fault of each column, where the packet has it.
column_faults(columns, packet) ==
  [i \in 1 .. Len(columns) |->
     Unless(i > Len(packet.fields) \/ packet.fields[i][1] \in DOMAIN columns[i].conversion,
            columns[i].fault)]

converted(columns, packet) ==
  [i \in 1 .. Len(columns) |-> <<columns[i].conversion[packet.fields[i][1]]>>]
-----------------------------------------------------------------------------
(***************************************************************************)
(* The classic decoder.                                                    *)
(***************************************************************************)
DirectKind ==
  [command \in {"HO", "HA", "SB", "PC", "CI", "C?"} |->
     CASE command = "HO" -> "Request"
       [] command = "HA" -> "Accept"
       [] command = "SB" -> "SquawkBox"
       [] command = "PC" -> "ProController"
       [] command = "CI" -> "CommunicationReply"
       [] command = "C?" -> "CommunicationRequest"]

QueryKind ==
  [RN |-> "RealName", FP |-> "FlightPlan", CAPS |-> "Capabilities", ATIS |-> "Atis",
   INF |-> "SystemInfo", ACC |-> "AircraftConfiguration"]

query_kind(value) == IF Upper[value] \in DOMAIN QueryKind THEN QueryKind[Upper[value]] ELSE "Raw"

join(fields) == IF fields = <<>> THEN <<Empty>> ELSE FlattenSeq(fields)

decode_login(p) ==
  LET columns == LoginColumns[p.command]
      field   == converted(columns, p)
      \* network id, password, rating, revision, real name, simulator type
      args    == IF p.command = "AA"
                 THEN <<field[2], field[3], field[4], field[5], field[1], <<"0">> >>
                 ELSE <<field[1], field[2], field[3], field[4], field[6], field[5]>>
  IN  Checked(<<require_fields(p, Len(columns)), callsign(p.source, "InvalidCallsign")>>
                \o column_faults(columns, p),
              Msg("Login", IF p.command = "AA" THEN "Atc" ELSE "Pilot",
                  Upper[p.source], Nowhere, args))

decode_position(p) ==
  LET pilot   == p.kind = "@"
      columns == IF pilot THEN PilotColumns ELSE AtcColumns
  IN  Checked(<<callsign(p.source, "InvalidSource"), require_fields(p, Len(columns))>>
                \o column_faults(columns, p),
              Msg("Position", IF pilot THEN "Pilot" ELSE "Atc", Upper[p.source], Nowhere,
                  << <<p.command>> >> \o converted(columns, p)))

decode_text(p) ==
  Checked(<<require_fields(p, 1), callsign(p.source, "InvalidSource"),
            any_destination(p.destination[1])>>,
          Msg("Text", "Text", Upper[p.source], destination(p.destination[1]), <<join(p.fields)>>))

decode_ping_pong(p) ==
  Checked(<<callsign(p.source, "InvalidSource"), any_destination(p.destination[1])>>,
          Msg(IF p.command = "PI" THEN "Ping" ELSE "Pong", "Text", Upper[p.source],
              destination(p.destination[1]), <<join(p.fields)>>))

decode_kill(p) ==
  Checked(<<require_fields(p, 1), callsign(p.source, "InvalidSource"),
            callsign(p.destination[1], "InvalidCallsign")>>,
          Msg("Kill", "Text", Upper[p.source], Direct(Upper[p.destination[1]]), <<join(p.fields)>>))

\* The destination of a filed plan is not looked at.
decode_flight_plan(p) ==
  Checked(<<require_fields(p, Len(PlanColumns)), callsign(p.source, "InvalidSource")>>
            \o column_faults(PlanColumns, p),
          Msg("FlightPlan", "Plan", Upper[p.source], Nowhere, converted(PlanColumns, p)))

\* A known kind is kept by name; a raw one keeps its text as the first argument.
decode_query_response(p) ==
  LET response == p.command = "CR"
      to       == p.destination[1]
      kind     == query_kind(p.fields[1][1])
  IN  Checked(<<require_fields(p, IF response THEN 2 ELSE 1), callsign(p.source, "InvalidSource"),
                IF response THEN direct_destination(to) ELSE any_destination(to)>>,
              Msg(IF response THEN "Response" ELSE "Query", kind, Upper[p.source],
                  destination(to), IF kind = "Raw" THEN p.fields ELSE Tail(p.fields)))

decode_weather(p) ==
  LET source == Upper[p.source]
      raw    == p.command = "AX"
      noop   == raw /\ (Len(p.fields) = 1 \/ Upper[p.fields[1][1]] # "METAR")
      station == p.fields[IF raw THEN 2 ELSE 1][1]
  IN  Checked(<<require_fields(p, 1), callsign(p.source, "InvalidSource")>>,
              IF noop THEN Msg("Noop", "Text", source, Nowhere, <<>>)
              ELSE Msg("WeatherRequest", IF raw THEN "Raw" ELSE "Parsed", source, Nowhere,
                       << <<Upper[station]>> >>))

decode_direct_client_command(p) ==
  Checked(<<require_fields(p, IF p.command \in {"HO", "HA", "CI"} THEN 1 ELSE 0),
            callsign(p.source, "InvalidSource"), direct_destination(p.destination[1])>>,
          Msg(IF p.command \in {"HO", "HA"} THEN "Handoff" ELSE "ClientData",
              DirectKind[p.command], Upper[p.source], destination(p.destination[1]), p.fields))

decode_packet(p) ==
  CASE p.kind \in {"@", "%"} -> decode_position(p)
    [] p.command \in {"CQ", "CR"} -> decode_query_response(p)
    [] p.command \in {"WX", "AX"} -> decode_weather(p)
    [] p.command \in DOMAIN DirectKind -> decode_direct_client_command(p)
    [] p.command \in {"AA", "AP"} -> decode_login(p)
    [] p.command \in {"DA", "DP"} ->
         Checked(<<callsign(p.source, "InvalidSource")>>,
                 Msg("Logoff", "Text", Upper[p.source], Nowhere, <<>>))
    [] p.command = "TM" -> decode_text(p)
    [] p.command = "FP" -> decode_flight_plan(p)
    [] p.command \in {"PI", "PO"} -> decode_ping_pong(p)
    [] p.command = "!!" -> decode_kill(p)
    [] OTHER -> Err(Fault("Unsupported", "Syntax"))

classic_decode(frame) ==
  LET packet == parse(frame) IN IF packet.ok THEN decode_packet(packet.value) ELSE Err(Syntax)
-----------------------------------------------------------------------------
(***************************************************************************)
(* The VATSIM decoder: $ID is its own, the rest is classic.                *)
(***************************************************************************)
decode_identification(p) ==
  LET shape(i) == IF Len(p.fields) = 6 THEN p.fields[i][1] ELSE Empty
  IN  Checked(<<Unless(Upper[p.destination[1]] = "SERVER", InvalidField),
                Unless(Len(p.fields) = 6, Syntax),
                Unless(shape(1) \in HexIds, InvalidField),
                Unless(shape(3) = "3" /\ shape(4) = "2", InvalidField),
                Unless(shape(5) # Empty, InvalidField),
                Unless(shape(6) \in UniqueNumbers, InvalidField),
                callsign(p.source, "InvalidCallsign")>>,
              Msg("Identify", "Text", Upper[p.source], Nowhere,
                  <<p.fields[1], p.fields[2], p.fields[5]>>))

vatsim_decode(frame) ==
  LET packet == parse(frame)
  IN  IF packet.ok /\ packet.value.command = "ID" THEN decode_identification(packet.value)
      ELSE classic_decode(frame)
-----------------------------------------------------------------------------
(***************************************************************************)
(* The Aster decoder.  A frame is [json, v, message]: whether it is valid  *)
(* JSON for one of the incoming types, its version and its content.        *)
(***************************************************************************)
AsterTypes ==
  {"Identify", "Login", "Logoff", "Position", "Text", "FlightPlan", "Query", "Response",
   "Ping", "Handoff", "ClientData", "WeatherRequest", "Kill"}

\* Callsigns that serde parses as part of a typed field.
TypedCallsigns(m) ==
  (IF m.op \in {"Position", "FlightPlan"} THEN {m.source} ELSE {})
    \cup (IF m.op \in {"Text", "Query", "Response", "Ping"} /\ m.destination.to = "Direct"
          THEN {m.destination.name[1]} ELSE {})

\* What Callsign::parse leaves of the names in a message.
NormalName(d) == IF d.to = "Direct" THEN Direct(Upper[d.name[1]]) ELSE d

aster_decode(frame) ==
  LET m == frame.message
  IN  Checked(<<Unless(frame.json /\ m.op \in AsterTypes /\ TypedCallsigns(m) \subseteq Callsigns, Syntax),
                Unless(frame.v = 1, Fault("Version", "Syntax")),
                Unless(m.source \in Callsigns, InvalidField),
                Unless(m.op \in {"Handoff", "ClientData", "Kill"} => m.destination.name[1] \in Callsigns,
                       InvalidField)>>,
              [m EXCEPT !.source = Upper[@], !.destination = NormalName(@)])

decode(dialect, frame) ==
  CASE dialect = "Classic" -> classic_decode(frame)
    [] dialect = "Vatsim" -> vatsim_decode(frame)
    [] dialect = "AsterV1" -> aster_decode(frame)
-----------------------------------------------------------------------------
(***************************************************************************)
(* The classic encoder: the packets of an event.                           *)
(***************************************************************************)
NameOf(kinds, kind) == CHOOSE name \in DOMAIN kinds : kinds[name] = kind

encode_status(e) ==
  IF e.op = "Error" THEN Packet("$", "ER", "server", e.destination.name, e.args)
  ELSE Packet("#", "TM", "server", e.destination.name, e.args)

\* Network id, real name, rating and simulator type of a ClientAdded event; the
\* password field is empty and the revision is that of the recipient's dialect.
encode_presence(e, revision, name) ==
  LET id == e.args[1]  real_name == e.args[2]  rating == e.args[3]  simulator == e.args[4]
  IN  IF e.kind = "Atc"
      THEN Packet("#", "AA", e.source, <<"SERVER">>, <<real_name, id, <<Empty>>, rating, <<revision>> >>)
      ELSE Packet("#", "AP", e.source, <<"SERVER">>,
                  <<id, <<Empty>>, rating, <<revision>>, simulator>> \o name)

encode_removal(e) ==
  Packet("#", IF e.kind = "Atc" THEN "DA" ELSE "DP", e.source, e.args[1], <<>>)

\* The arguments of a position with its latitude and its longitude rewritten.
with_coordinates(position, rewrite) ==
  LET coordinates == IF position.kind = "Pilot" THEN {4, 5} ELSE {6, 7}
  IN  [i \in 1 .. Len(position.args) |->
         IF i \in coordinates THEN <<rewrite[position.args[i][1]]>> ELSE position.args[i]]

\* The core keeps the exact coordinates; only here are they rounded.
encode_position(e) ==
  LET fields == Tail(with_coordinates(e, Rounded))
  IN  IF e.kind = "Pilot" THEN Packet("@", e.args[1][1], e.source, <<Empty>>, fields)
      ELSE Packet("%", Empty, e.source, <<Empty>>, fields)

\* Mutant of encode_flight_plan: remarks and route change places.
encode_plan_swapped(e) ==
  Packet("$", "FP", e.source, e.destination.name, SubSeq(e.args, 1, 13) \o <<e.args[15], e.args[14]>>)

encode_flight_plan(e) == Packet("$", "FP", e.source, e.destination.name, e.args)

encode_query(e) ==
  Packet("$", IF e.op = "Query" THEN "CQ" ELSE "CR", e.source, e.destination.name,
         IF e.kind = "Raw" THEN e.args ELSE << <<NameOf(QueryKind, e.kind)>> >> \o e.args)

encode_client_data(e) ==
  Packet(IF e.kind \in {"SquawkBox", "ProController"} THEN "#" ELSE "$",
         NameOf(DirectKind, e.kind), e.source, e.destination.name, e.args)

encode_routed(e) ==
  CASE e.op = "Text" -> Packet("#", "TM", e.source, e.destination.name, e.args)
    [] e.op = "Ping" -> Packet("$", "PI", e.source, e.destination.name, e.args)
    [] e.op = "Pong" -> Packet("$", "PO", e.source, e.destination.name, e.args)
    [] e.op = "Handoff" -> Packet("$", NameOf(DirectKind, e.kind), e.source, e.destination.name, e.args)
    [] e.op = "ClientData" -> encode_client_data(e)
    [] e.op = "WeatherReport" ->
         Packet("$", "AR", e.source, e.destination.name, << <<"METAR">> >> \o e.args)
    [] e.op = "WindDelta" -> Packet("#", "DL", "SERVER", <<"*">>, e.args)
    [] e.op = "Disconnect" -> Packet("$", "!!", "SERVER", e.destination.name, e.args)

\* Four temperature layers of two values and the barometer, four wind layers of
\* six, three cloud layers of five and the visibility, always in this order.
encode_profile(e) ==
  <<Packet("#", "TD", "server", e.destination.name, SubSeq(e.args, 1, 9)),
    Packet("#", "WD", "server", e.destination.name, SubSeq(e.args, 10, 33)),
    Packet("#", "CD", "server", e.destination.name, SubSeq(e.args, 34, 49))>>

classic_packets(e) ==
  CASE e.op = "WeatherProfile" -> encode_profile(e)
    [] e.op \in {"Error", "Welcome"} -> <<encode_status(e)>>
    [] e.op = "ClientAdded" -> <<encode_presence(e, "9", <<>>)>>
    [] e.op = "ClientRemoved" -> <<encode_removal(e)>>
    [] e.op = "Position" -> <<encode_position(e)>>
    [] e.op = "FlightPlan" -> <<encode_flight_plan(e)>>
    [] e.op \in {"Query", "Response"} -> <<encode_query(e)>>
    [] OTHER -> <<encode_routed(e)>>

\* All frames of an event, or the first error.
frames(packets, max_frame_bytes) ==
  LET results == [i \in 1 .. Len(packets) |-> encode_packet(packets[i], max_frame_bytes)]
  IN  IF \A i \in 1 .. Len(packets) : results[i].ok
      THEN Ok([i \in 1 .. Len(packets) |-> results[i].value])
      ELSE Err(Fault("Encoding", "Syntax"))

classic_encode(e) == frames(classic_packets(e), CLASSIC_MAX_FRAME_BYTES)

\* Only presence is encoded by the VATSIM backend itself.
vatsim_encode(e) ==
  IF e.op = "ClientAdded"
  THEN frames(<<encode_presence(e, "100", <<e.args[2]>>)>>, VATSIM_MAX_FRAME_BYTES)
  ELSE classic_encode(e)

\* serde escapes line delimiters, and the backend knows no limit of its own.
aster_encode(e) == Ok(<<[json |-> TRUE, v |-> 1, message |-> e]>>)

encode(dialect, e) ==
  CASE dialect = "Classic" -> classic_encode(e)
    [] dialect = "Vatsim" -> vatsim_encode(e)
    [] dialect = "AsterV1" -> aster_encode(e)

\* What a listener of the dialect sends before the client has spoken.
initial_frames(dialect, challenge) ==
  CASE dialect = "Classic" -> Ok(<<>>)
    [] dialect = "Vatsim" ->
         frames(<<Packet("$", "DI", "CLIENT", <<"SERVER">>, << <<"VATSIM FSD V3.13">>, <<challenge>> >>)>>,
                VATSIM_MAX_FRAME_BYTES)
    [] dialect = "AsterV1" -> aster_encode(Msg("Hello", "Text", "server", Nowhere, <<>>))
=============================================================================
