----------------------------- MODULE RelayProofs -----------------------------
(***************************************************************************)
(* Theorems about the dialects and the relay of a frame from one to        *)
(* another, for every set of segments, every conversion and every frame.   *)
(***************************************************************************)
EXTENDS Relay, SequenceTheorems, WellFoundedInduction, TLAPS

\* The least-number principle, from the well-foundedness of < on Nat.
LEMMA LeastNumber ==
  ASSUME NEW T \in SUBSET Nat, T # {}
  PROVE  \E m \in T : \A n \in T : m <= n
  <1> DEFINE R == OpToRel(<, Nat)
  <1>1. IsWellFoundedOn(R, Nat)
    BY NatLessThanWellFounded, Zenon
  <1>2. \A m, n \in Nat : n < m => <<n, m>> \in R
    BY SMT DEF OpToRel
  <1> HIDE DEF R
  <1>3. PICK m \in T : \A n \in T : ~ (<<n, m>> \in R)
    BY <1>1, WFMin, Zenon
  <1>4. \A n \in T : ~ (n < m)
    BY <1>2, <1>3
  <1> QED BY <1>4

\* The empty string is not a command.
LEMMA EmptyIsNoCommand ==
  Empty \notin {"AA", "AP", "DI", "N", "S", "Y", "?", "ID", "server", "SERVER", "CLIENT", "CQ", "CR", "WX", "AX",
                "HO", "HA", "SB", "PC", "CI", "C?", "DA", "DP", "TM", "FP", "PI", "PO", "!!"}
  BY Zenon DEF Empty

-----------------------------------------------------------------------------
(***************************************************************************)
(* A decoder returns at its first fault.                                   *)
(***************************************************************************)
LEMMA OkOrErr ==
  /\ \A value : Ok(value).ok /\ Ok(value).value = value
  /\ \A error : ~ Err(error).ok /\ Err(error).error = error
  BY DEF Ok, Err

\* No fault: the command.
LEMMA CheckedOk ==
  ASSUME NEW faults, NEW command, \A i \in 1 .. Len(faults) : faults[i] = None
  PROVE  Checked(faults, command) = Ok(command)
  <1>1. {i \in 1 .. Len(faults) : faults[i] # None} = {}
    OBVIOUS
  <1> QED BY <1>1, Zenon DEF Checked

\* The first fault is the one that is reported.
LEMMA CheckedFirst ==
  ASSUME NEW faults, NEW command, Len(faults) \in Nat, NEW m \in 1 .. Len(faults),
         faults[m] # None, \A i \in 1 .. m - 1 : faults[i] = None
  PROVE  Checked(faults, command) = Err(faults[m])
  <1> DEFINE found == {i \in 1 .. Len(faults) : faults[i] # None}
  <1>1. m \in found /\ \A i \in found : m <= i
    OBVIOUS
  <1>2. \A i \in found : i \in Int
    OBVIOUS
  <1> HIDE DEF found
  <1>3. Min(found) \in found /\ \A i \in found : Min(found) <= i
    BY <1>1, Zenon DEF Min
  <1>4. Min(found) = m
    <2>1. \A x \in found : (\A i \in found : x <= i) => x = m
      BY <1>1, <1>2
    <2> QED BY <1>3, <2>1, Zenon
  <1>5. Checked(faults, command) = IF found = {} THEN Ok(command) ELSE Err(faults[Min(found)])
    BY Zenon DEF Checked, found
  <1> QED BY <1>1, <1>4, <1>5, Zenon

\* Either there is no fault, or one of them is reported.
LEMMA CheckedResult ==
  ASSUME NEW faults, NEW command, Len(faults) \in Nat
  PROVE  \/ (\A i \in 1 .. Len(faults) : faults[i] = None) /\ Checked(faults, command) = Ok(command)
         \/ \E m \in 1 .. Len(faults) : faults[m] # None /\ Checked(faults, command) = Err(faults[m])
  <1> DEFINE found == {i \in 1 .. Len(faults) : faults[i] # None}
  <1>1. CASE found = {}
    BY <1>1, CheckedOk
  <1>2. CASE found # {}
    <2>1. found \in SUBSET Nat
      OBVIOUS
    <2>2. PICK m \in found : \A n \in found : m <= n
      <3> HIDE DEF found
      <3> QED BY <1>2, <2>1, LeastNumber
    <2>3. \A i \in 1 .. m - 1 : faults[i] = None
      BY <2>2
    <2> QED BY <2>2, <2>3, CheckedFirst
  <1> QED BY <1>1, <1>2

-----------------------------------------------------------------------------
(***************************************************************************)
(* What parse makes of a frame.                                            *)
(***************************************************************************)
LEMMA SingleType ==
  ASSUME NEW S, NEW segments \in Seq(S)
  PROVE  /\ Len(Single(segments)) = Len(segments)
         /\ \A i \in 1 .. Len(segments) : Single(segments)[i] = <<segments[i]>>
         /\ Single(segments) \in Seq(Seq(S))
         /\ Single(segments) = <<>> <=> segments = <<>>
  <1>1. \A i \in 1 .. Len(segments) : <<segments[i]>> \in Seq(S)
    BY ElementOfSeq
  <1> QED BY <1>1 DEF Single

\* A sequence is its first element and the rest.
LEMMA FirstAndRest ==
  ASSUME NEW S, NEW s \in Seq(S), s # <<>>
  PROVE  s[1] \in S /\ Tail(s) \in Seq(S) /\ s = <<s[1]>> \o Tail(s)
  OBVIOUS

\* parse_pilot: the source is the head of a compact frame, or the first segment.
LEMMA ParsedPilot ==
  ASSUME NEW frame, IsFrame(frame), frame.prefix = "@", parse(frame).ok
  PROVE  /\ frame.command \in {"N", "S", "Y"}
         /\ \E source \in Segment \ {Empty}, segments \in Seq(Segment) :
              /\ parse(frame) = Ok(Packet("@", frame.command, source, <<Empty>>, Single(segments)))
              /\ IF frame.head = Empty THEN frame.rest = <<source>> \o segments
                 ELSE frame.head = source /\ frame.rest = segments
  <1>1. parse(frame) = parse_pilot(frame)
    BY Zenon DEF parse
  <1>2. frame.head \in Segment /\ frame.rest \in Seq(Segment)
    BY DEF IsFrame
  <1>3. frame.command \in {"N", "S", "Y"} /\ ~ (frame.head = Empty /\ (frame.rest = <<>> \/ frame.rest[1] = Empty))
    <2> SUFFICES ASSUME ~ (/\ frame.command \in {"N", "S", "Y"}
                           /\ ~ (frame.head = Empty /\ (frame.rest = <<>> \/ frame.rest[1] = Empty)))
                 PROVE  FALSE
      OBVIOUS
    <2>1. parse_pilot(frame) = Err("InvalidCommand") \/ parse_pilot(frame) = Err("Missing")
      BY Zenon DEF parse_pilot
    <2> QED BY <1>1, <2>1, OkOrErr, Zenon
  <1>4. CASE frame.head # Empty
    <2>1. parse(frame) = Ok(Packet("@", frame.command, frame.head, <<Empty>>, Single(frame.rest)))
      BY <1>1, <1>3, <1>4, Zenon DEF parse_pilot
    <2> QED BY <1>2, <1>3, <1>4, <2>1
  <1>5. CASE frame.head = Empty
    <2>1. parse(frame) = Ok(Packet("@", frame.command, frame.rest[1], <<Empty>>, Single(Tail(frame.rest))))
      BY <1>1, <1>3, <1>5, Zenon DEF parse_pilot
    <2>2. frame.rest # <<>> /\ frame.rest[1] # Empty
      BY <1>3, <1>5, Zenon
    <2>3. frame.rest[1] \in Segment \ {Empty} /\ Tail(frame.rest) \in Seq(Segment)
          /\ frame.rest = <<frame.rest[1]>> \o Tail(frame.rest)
      BY <1>2, <2>2, FirstAndRest
    <2> QED BY <1>3, <1>5, <2>1, <2>3
  <1> QED BY <1>4, <1>5

\* parse_atc: the source is the head.
LEMMA ParsedAtc ==
  ASSUME NEW frame, IsFrame(frame), frame.prefix = "%", parse(frame).ok
  PROVE  /\ frame.command = Empty /\ frame.head \in Segment \ {Empty} /\ frame.rest \in Seq(Segment)
         /\ parse(frame) = Ok(Packet("%", Empty, frame.head, <<Empty>>, Single(frame.rest)))
  <1>1. parse(frame) = parse_atc(frame)
    BY Zenon DEF parse
  <1>2. frame.head # Empty
    BY <1>1, OkOrErr, Zenon DEF parse_atc
  <1> QED BY <1>1, <1>2 DEF parse_atc, IsFrame

\* parse_command: the source comes first, except in $DI.
LEMMA ParsedCommand ==
  ASSUME NEW frame, IsFrame(frame), frame.prefix \in {"#", "$", "!", "&", "-"}, parse(frame).ok
  PROVE  /\ frame.command # "?" /\ frame.head \in Segment
         /\ \E second \in Segment, segments \in Seq(Segment) :
              /\ parse(frame) =
                   IF frame.command = "DI"
                   THEN Ok(Packet(frame.prefix, "DI", second, <<frame.head>>, Single(segments)))
                   ELSE Ok(Packet(frame.prefix, frame.command, frame.head, <<second>>, Single(segments)))
              /\ frame.rest = <<second>> \o segments
  <1>1. parse(frame) = parse_command(frame)
    BY Zenon DEF parse
  <1>2. frame.head \in Segment /\ frame.rest \in Seq(Segment)
    BY DEF IsFrame
  <1>3. frame.rest # <<>> /\ frame.command # "?"
    <2>1. frame.rest = <<>> \/ frame.command = "?" =>
            parse_command(frame) = Err("InvalidCommand") \/ parse_command(frame) = Err("Missing")
      BY Zenon DEF parse_command
    <2> QED BY <1>1, <2>1 DEF Err
  <1>4. parse(frame) =
          IF frame.command = "DI"
          THEN Ok(Packet(frame.prefix, "DI", frame.rest[1], <<frame.head>>, Single(Tail(frame.rest))))
          ELSE Ok(Packet(frame.prefix, frame.command, frame.head, <<frame.rest[1]>>, Single(Tail(frame.rest))))
    BY <1>1, <1>3, Zenon DEF parse_command
  <1>5. frame.rest[1] \in Segment /\ Tail(frame.rest) \in Seq(Segment)
        /\ frame.rest = <<frame.rest[1]>> \o Tail(frame.rest)
    BY <1>2, <1>3, FirstAndRest
  <1> QED BY <1>2, <1>3, <1>4, <1>5

\* Only the four kinds of packets are parsed.
LEMMA ParsedPrefix ==
  ASSUME NEW frame, IsFrame(frame), parse(frame).ok
  PROVE  frame.prefix \in {"@", "%", "#", "$", "!", "&", "-"}
  <1>1. ASSUME frame.prefix = "?" PROVE FALSE
    <2>1. parse(frame) = Err("UnknownPrefix")
      BY <1>1, Zenon DEF parse
    <2> QED BY <2>1 DEF Err
  <1> QED BY <1>1 DEF IsFrame

\* The packet of a frame: its command, and single segments.
LEMMA Parsed ==
  ASSUME NEW frame, IsFrame(frame), parse(frame).ok
  PROVE  \E source, destn \in Segment, segments \in Seq(Segment) :
           parse(frame) = Ok(Packet(frame.prefix, frame.command, source, <<destn>>, Single(segments)))
  <1>0. Empty \in Segment
    BY PacketAssumption
  <1>1. CASE frame.prefix = "@"
    <2>1. PICK source \in Segment \ {Empty}, segments \in Seq(Segment) :
             parse(frame) = Ok(Packet("@", frame.command, source, <<Empty>>, Single(segments)))
      BY <1>1, ParsedPilot
    <2> QED BY <1>0, <1>1, <2>1
  <1>2. CASE frame.prefix = "%"
    BY <1>0, <1>2, ParsedAtc
  <1>3. CASE frame.prefix \in {"#", "$", "!", "&", "-"}
    BY <1>3, ParsedCommand
  <1> QED BY <1>1, <1>2, <1>3, ParsedPrefix

-----------------------------------------------------------------------------
(***************************************************************************)
(* The columns of the fixed layouts, and their faults.                     *)
(***************************************************************************)
FaultSet ==
  {None, Syntax, InvalidField, Fault("InvalidField", "InvalidCallsign"),
   Fault("InvalidField", "InvalidSource"), Fault("InvalidField", "InvalidProtocolRevision"),
   Fault("Unsupported", "Syntax"), Fault("Version", "Syntax")}

AsIs == [s \in Segment |-> s]

Conversions == {AsIs, Int32, Unsigned, Decimal, Squawk, FirstChar}

\* Only a column of any text has no fault.
ColumnSet ==
  {column \in [conversion : Conversions, fault : FaultSet] : column.fault = None => column.conversion = AsIs}

\* Every column that a layout uses has a known conversion and a known fault.
LEMMA ColumnTypes ==
  /\ AnyText \in ColumnSet /\ Number \in ColumnSet /\ Coordinate \in ColumnSet /\ Revision \in ColumnSet
  /\ Column(Squawk, InvalidField) \in ColumnSet /\ Column(Unsigned, Syntax) \in ColumnSet
  /\ Column(FirstChar, Syntax) \in ColumnSet
  <1>1. \A c \in Conversions, f \in FaultSet : (f = None => c = AsIs) => Column(c, f) \in ColumnSet
    BY DEF Column, ColumnSet
  <1>2. None # Syntax /\ None # InvalidField /\ None # Fault("InvalidField", "InvalidProtocolRevision")
    BY DEF None, Syntax, InvalidField, Fault
  <1>3. None \in FaultSet /\ Syntax \in FaultSet /\ InvalidField \in FaultSet
        /\ Fault("InvalidField", "InvalidProtocolRevision") \in FaultSet
    BY DEF FaultSet
  <1> QED BY <1>1, <1>2, <1>3, Zenon DEF AnyText, Number, Coordinate, Revision, AsIs, Conversions

\* The columns of the two logins.
LEMMA LoginColumnsType ==
  /\ LoginColumns["AA"] = <<AnyText, AnyText, AnyText, Number, Revision>>
  /\ LoginColumns["AP"] = <<AnyText, AnyText, Number, Revision, Number, AnyText>>
  /\ LoginColumns["AA"] \in Seq(ColumnSet) /\ Len(LoginColumns["AA"]) = 5
  /\ LoginColumns["AP"] \in Seq(ColumnSet) /\ Len(LoginColumns["AP"]) = 6
  <1>1. /\ LoginColumns["AA"] = <<AnyText, AnyText, AnyText, Number, Revision>>
        /\ LoginColumns["AP"] = <<AnyText, AnyText, Number, Revision, Number, AnyText>>
    BY DEF LoginColumns
  <1> QED BY <1>1, ColumnTypes

\* The columns of positions and of plans.
LEMMA LayoutType ==
  /\ PilotColumns \in Seq(ColumnSet) /\ Len(PilotColumns) = 8
  /\ AtcColumns \in Seq(ColumnSet) /\ Len(AtcColumns) = 7
  /\ PlanColumns \in Seq(ColumnSet) /\ Len(PlanColumns) = 15
  BY ColumnTypes DEF PilotColumns, AtcColumns, PlanColumns

\* What column_faults reports for each column.
LEMMA ColumnFaults ==
  ASSUME NEW columns \in Seq(ColumnSet), NEW p
  PROVE  /\ column_faults(columns, p) \in Seq(FaultSet)
         /\ Len(column_faults(columns, p)) = Len(columns)
         /\ \A i \in 1 .. Len(columns) :
              column_faults(columns, p)[i] =
                IF i > Len(p.fields) \/ p.fields[i][1] \in DOMAIN columns[i].conversion
                THEN None ELSE columns[i].fault
  <1> DEFINE f(i) == IF i > Len(p.fields) \/ p.fields[i][1] \in DOMAIN columns[i].conversion
                     THEN None ELSE columns[i].fault
  <1>1. column_faults(columns, p) = [i \in 1 .. Len(columns) |-> f(i)]
    BY Zenon DEF column_faults, Unless
  <1>2. \A i \in 1 .. Len(columns) : f(i) \in FaultSet
    <2> TAKE i \in 1 .. Len(columns)
    <2>1. columns[i] \in ColumnSet
      BY ElementOfSeq
    <2>2. columns[i].fault \in FaultSet /\ None \in FaultSet
      BY <2>1 DEF ColumnSet, FaultSet
    <2> QED BY <2>2, Zenon
  <1> HIDE DEF f
  <1>3. [i \in 1 .. Len(columns) |-> f(i)] \in Seq(FaultSet)
        /\ Len([i \in 1 .. Len(columns) |-> f(i)]) = Len(columns)
        /\ \A i \in 1 .. Len(columns) : [j \in 1 .. Len(columns) |-> f(j)][i] = f(i)
    BY <1>2
  <1> QED BY <1>1, <1>3, Zenon DEF f

\* Faults found before the columns come before those of the columns.
LEMMA TwoThenColumns ==
  ASSUME NEW columns \in Seq(ColumnSet), NEW p, NEW a \in FaultSet, NEW b \in FaultSet
  PROVE  LET faults == <<a, b>> \o column_faults(columns, p)
         IN  /\ faults \in Seq(FaultSet) /\ Len(faults) = Len(columns) + 2
             /\ faults[1] = a /\ faults[2] = b
             /\ \A i \in 1 .. Len(columns) : faults[i + 2] = column_faults(columns, p)[i]
  <1> DEFINE c == column_faults(columns, p)
  <1>1. c \in Seq(FaultSet) /\ Len(c) = Len(columns)
    BY ColumnFaults
  <1> HIDE DEF c
  <1>2. LET faults == <<a, b>> \o c
        IN  /\ faults \in Seq(FaultSet) /\ Len(faults) = Len(columns) + 2
            /\ faults[1] = a /\ faults[2] = b
            /\ \A i \in 1 .. Len(columns) : faults[i + 2] = c[i]
    BY <1>1
  <1> QED BY <1>2 DEF c

-----------------------------------------------------------------------------
(***************************************************************************)
(* No decoder of the classic family or of Aster reports a framing error.   *)
(***************************************************************************)
LEMMA FaultTypes ==
  /\ \A p, minimum : require_fields(p, minimum) \in FaultSet
  /\ \A value : callsign(value, "InvalidCallsign") \in FaultSet /\ callsign(value, "InvalidSource") \in FaultSet
  /\ \A value : any_destination(value) \in FaultSet /\ direct_destination(value) \in FaultSet
  <1>1. \A condition, f : f \in FaultSet => Unless(condition, f) \in FaultSet
    BY DEF Unless, FaultSet
  <1>2. None \in FaultSet /\ Syntax \in FaultSet /\ InvalidField \in FaultSet
        /\ Fault("InvalidField", "InvalidCallsign") \in FaultSet
        /\ Fault("InvalidField", "InvalidSource") \in FaultSet
    BY DEF FaultSet
  <1>3. \A value : direct_destination(value) \in {None, Syntax, InvalidField}
    BY Zenon DEF direct_destination, Unless
  <1>4. \A value : direct_destination(value) \in FaultSet
    BY <1>2, <1>3, Zenon
  <1> QED BY <1>1, <1>2, <1>4, Zenon DEF require_fields, callsign, any_destination

\* A refusal is one of the known faults.
LEMMA CheckedError ==
  ASSUME NEW faults \in Seq(FaultSet), NEW command
  PROVE  \/ Checked(faults, command) = Ok(command)
         \/ \E f \in FaultSet \ {None} : Checked(faults, command) = Err(f)
  <1>1. CASE Checked(faults, command) = Ok(command)
    BY <1>1, OkOrErr, Zenon
  <1>2. CASE \E m \in 1 .. Len(faults) : faults[m] # None /\ Checked(faults, command) = Err(faults[m])
    BY <1>2, ElementOfSeq
  <1> QED BY <1>1, <1>2, CheckedResult

Verdict(answer) == (\E value : answer = Ok(value)) \/ \E f \in FaultSet \ {None} : answer = Err(f)

\* Tuples of faults are sequences of faults.
LEMMA ShortFaults ==
  /\ \A a \in FaultSet : <<a>> \in Seq(FaultSet)
  /\ \A a, b \in FaultSet : <<a, b>> \in Seq(FaultSet)
  /\ \A a, b, c \in FaultSet : <<a, b, c>> \in Seq(FaultSet)
  /\ \A a, b, c, d \in FaultSet : <<a, b, c, d>> \in Seq(FaultSet)
  /\ \A a, b, c, d, e, f, g \in FaultSet : <<a, b, c, d, e, f, g>> \in Seq(FaultSet)
  OBVIOUS

\* Checked returns the command or a known fault.
LEMMA CheckedVerdict ==
  ASSUME NEW faults \in Seq(FaultSet), NEW command
  PROVE  Verdict(Checked(faults, command))
  BY CheckedError, Zenon DEF Verdict

\* decode_packet returns a command or a known fault.
LEMMA DecodePacketVerdict ==
  ASSUME NEW p
  PROVE  Verdict(decode_packet(p))
  <1>1. \A faults \in Seq(FaultSet) : \A command : Verdict(Checked(faults, command))
    BY CheckedVerdict, Zenon
  <1>2. \A columns \in Seq(ColumnSet), a, b \in FaultSet : \A command :
          Verdict(Checked(<<a, b>> \o column_faults(columns, p), command))
    BY <1>1, TwoThenColumns
  <1>3. /\ \A a \in FaultSet : \A command : Verdict(Checked(<<a>>, command))
        /\ \A a, b \in FaultSet : \A command : Verdict(Checked(<<a, b>>, command))
        /\ \A a, b, c \in FaultSet : \A command : Verdict(Checked(<<a, b, c>>, command))
    BY <1>1, ShortFaults, Zenon
  <1>4. Verdict(decode_position(p))
    BY <1>2, FaultTypes, LayoutType, Zenon DEF decode_position
  <1>5. Verdict(decode_query_response(p))
    BY <1>3, FaultTypes, Zenon DEF decode_query_response
  <1>6. Verdict(decode_weather(p))
    BY <1>3, FaultTypes, Zenon DEF decode_weather
  <1>7. Verdict(decode_direct_client_command(p))
    BY <1>3, FaultTypes, Zenon DEF decode_direct_client_command
  <1>8. p.command \in {"AA", "AP"} => Verdict(decode_login(p))
    BY <1>2, FaultTypes, LoginColumnsType, Zenon DEF decode_login
  <1>9. Verdict(decode_text(p)) /\ Verdict(decode_ping_pong(p)) /\ Verdict(decode_kill(p))
    BY <1>3, FaultTypes, Zenon DEF decode_text, decode_ping_pong, decode_kill
  <1>10. Verdict(decode_flight_plan(p))
    BY <1>2, FaultTypes, LayoutType, Zenon DEF decode_flight_plan
  <1>11. Verdict(Checked(<<callsign(p.source, "InvalidSource")>>,
                         Msg("Logoff", "Text", Upper[p.source], Nowhere, <<>>)))
    BY <1>3, FaultTypes, Zenon
  <1>12. Verdict(Err(Fault("Unsupported", "Syntax")))
    BY DEF Verdict, FaultSet, Fault, None
  <1> HIDE DEF Verdict
  <1> QED BY <1>4, <1>5, <1>6, <1>7, <1>8, <1>9, <1>10, <1>11, <1>12, Zenon DEF decode_packet

\* So does the classic backend, whatever it is given,
LEMMA ClassicDecodeVerdict ==
  ASSUME NEW frame
  PROVE  Verdict(classic_decode(frame))
  <1>1. Verdict(Err(Syntax))
    BY DEF Verdict, FaultSet, Syntax, None, Fault
  <1> QED BY <1>1, DecodePacketVerdict, Zenon DEF classic_decode

\* the VATSIM backend,
LEMMA VatsimDecodeVerdict ==
  ASSUME NEW frame
  PROVE  Verdict(vatsim_decode(frame))
  <1>1. \A p : Verdict(decode_identification(p))
    <2> TAKE p
    <2>1. \A condition, f : f \in FaultSet => Unless(condition, f) \in FaultSet
      BY DEF Unless, FaultSet
    <2>2. Syntax \in FaultSet /\ InvalidField \in FaultSet
      BY DEF FaultSet
    <2> DEFINE shape(i) == IF Len(p.fields) = 6 THEN p.fields[i][1] ELSE Empty
               faults == <<Unless(Upper[p.destination[1]] = "SERVER", InvalidField),
                           Unless(Len(p.fields) = 6, Syntax),
                           Unless(shape(1) \in HexIds, InvalidField),
                           Unless(shape(3) = "3" /\ shape(4) = "2", InvalidField),
                           Unless(shape(5) # Empty, InvalidField),
                           Unless(shape(6) \in UniqueNumbers, InvalidField),
                           callsign(p.source, "InvalidCallsign")>>
    <2>3. faults \in Seq(FaultSet)
      BY <2>1, <2>2, FaultTypes, ShortFaults, ZenonT(60)
    <2>4. decode_identification(p) =
            Checked(faults, Msg("Identify", "Text", Upper[p.source], Nowhere,
                                <<p.fields[1], p.fields[2], p.fields[5]>>))
      BY Zenon DEF decode_identification
    <2> HIDE DEF faults
    <2> QED BY <2>3, <2>4, CheckedVerdict, Zenon
  <1> QED BY <1>1, ClassicDecodeVerdict, Zenon DEF vatsim_decode

\* and the Aster backend.
LEMMA AsterDecodeVerdict ==
  ASSUME NEW frame
  PROVE  Verdict(aster_decode(frame))
  <1>1. \A condition, f : f \in FaultSet => Unless(condition, f) \in FaultSet
    BY DEF Unless, FaultSet
  <1>2. Syntax \in FaultSet /\ InvalidField \in FaultSet /\ Fault("Version", "Syntax") \in FaultSet
    BY DEF FaultSet
  <1>3. \A a, b, c, d \in FaultSet : \A command : Verdict(Checked(<<a, b, c, d>>, command))
    BY CheckedVerdict, ShortFaults, Zenon
  <1> QED BY <1>1, <1>2, <1>3, ZenonT(60) DEF aster_decode

\* Every dialect returns a command or a known fault.
LEMMA DecodeVerdict ==
  ASSUME NEW dialect \in ProtocolDialect, NEW frame
  PROVE  Verdict(decode(dialect, frame))
  <1>1. dialect = "Classic" => decode(dialect, frame) = classic_decode(frame)
    BY Zenon DEF decode
  <1>2. dialect = "Vatsim" => decode(dialect, frame) = vatsim_decode(frame)
    BY Zenon DEF decode
  <1>3. dialect = "AsterV1" => decode(dialect, frame) = aster_decode(frame)
    BY Zenon DEF decode
  <1> QED BY <1>1, <1>2, <1>3, ClassicDecodeVerdict, VatsimDecodeVerdict, AsterDecodeVerdict, Zenon
          DEF ProtocolDialect

\* closes_connection, for the faults of a decoder: no framing error is among them.
LEMMA ClosingKinds ==
  ASSUME NEW f \in FaultSet \ {None}
  PROVE  /\ f.kind # "Framing"
         /\ closes_connection("Active", f) => f.kind = "Version"
  BY DEF FaultSet, None, Syntax, InvalidField, Fault, closes_connection

-----------------------------------------------------------------------------
(***************************************************************************)
(* The errors of a login, in the order decode_login finds them.            *)
(***************************************************************************)
LEMMA LoginFaults ==
  ASSUME NEW p, p.command \in {"AA", "AP"}, NEW segments \in Seq(Segment), p.fields = Single(segments)
  PROVE  LET minimum  == IF p.command = "AA" THEN 5 ELSE 6
             rating   == segments[IF p.command = "AA" THEN 4 ELSE 3]
             revision == segments[IF p.command = "AA" THEN 5 ELSE 4]
         IN  IF Len(segments) < minimum THEN decode_login(p) = Err(Syntax)
             ELSE IF p.source \notin Callsigns
                  THEN decode_login(p) = Err(Fault("InvalidField", "InvalidCallsign"))
             ELSE IF rating \notin DOMAIN Int32 THEN decode_login(p) = Err(Syntax)
             ELSE IF revision \notin DOMAIN Unsigned
                  THEN decode_login(p) = Err(Fault("InvalidField", "InvalidProtocolRevision"))
             ELSE decode_login(p).ok \/ decode_login(p) = Err(Syntax)
  <1> DEFINE minimum  == IF p.command = "AA" THEN 5 ELSE 6
             rating   == segments[IF p.command = "AA" THEN 4 ELSE 3]
             revision == segments[IF p.command = "AA" THEN 5 ELSE 4]
             columns  == LoginColumns[p.command]
             a        == require_fields(p, Len(columns))
             b        == callsign(p.source, "InvalidCallsign")
             c        == column_faults(columns, p)
             faults   == <<a, b>> \o c
  <1>1. PICK command : decode_login(p) = Checked(faults, command)
    BY Zenon DEF decode_login
  <1>2. columns \in Seq(ColumnSet) /\ Len(columns) = minimum
    BY LoginColumnsType
  <1>3. /\ Len(p.fields) = Len(segments) /\ Len(segments) \in Nat
        /\ \A i \in 1 .. Len(segments) : p.fields[i][1] = segments[i] /\ segments[i] \in Segment
    BY SingleType, ElementOfSeq
  <1>4. a = (IF Len(segments) >= minimum THEN None ELSE Syntax)
        /\ b = (IF p.source \in Callsigns THEN None ELSE Fault("InvalidField", "InvalidCallsign"))
    BY <1>2, <1>3, Zenon DEF require_fields, callsign, Unless
  <1>5. a \in FaultSet /\ b \in FaultSet
    BY FaultTypes, Zenon
  <1>6. faults \in Seq(FaultSet) /\ Len(faults) = minimum + 2 /\ faults[1] = a /\ faults[2] = b
        /\ \A i \in 1 .. minimum : faults[i + 2] = c[i]
    <2> HIDE DEF columns, a, b, minimum
    <2> QED BY <1>2, <1>5, TwoThenColumns
  <1>0. /\ \A m \in 1 .. minimum + 2 : faults[m] # None /\ (\A i \in 1 .. m - 1 : faults[i] = None) =>
                                      decode_login(p) = Err(faults[m])
        /\ (\A i \in 1 .. minimum + 2 : faults[i] = None) => decode_login(p) = Ok(command)
        /\ \/ decode_login(p) = Ok(command)
           \/ \E m \in 1 .. minimum + 2 : faults[m] # None /\ decode_login(p) = Err(faults[m])
    <2>1. Len(faults) \in Nat
      BY <1>6
    <2>2. Len(faults) = minimum + 2
      BY <1>6
    <2> HIDE DEF faults, minimum
    <2>3. \A m \in 1 .. Len(faults) : faults[m] # None /\ (\A i \in 1 .. m - 1 : faults[i] = None) =>
                                       decode_login(p) = Err(faults[m])
      BY <1>1, <2>1, CheckedFirst, Zenon
    <2>4. (\A i \in 1 .. Len(faults) : faults[i] = None) => decode_login(p) = Ok(command)
      BY <1>1, CheckedOk, Zenon
    <2>5. \/ decode_login(p) = Ok(command)
          \/ \E m \in 1 .. Len(faults) : faults[m] # None /\ decode_login(p) = Err(faults[m])
      BY <1>1, <2>1, CheckedResult, Zenon
    <2> QED BY <2>2, <2>3, <2>4, <2>5, Zenon
  <1>7. \A i \in 1 .. minimum : Len(segments) >= minimum =>
          c[i] = IF segments[i] \in DOMAIN columns[i].conversion THEN None ELSE columns[i].fault
    <2>1. \A i \in 1 .. minimum :
            c[i] = IF i > Len(p.fields) \/ p.fields[i][1] \in DOMAIN columns[i].conversion
                   THEN None ELSE columns[i].fault
      <3> HIDE DEF columns, minimum
      <3> QED BY <1>2, ColumnFaults
    <2> QED BY <1>3, <2>1
  <1>8. None # Syntax /\ None # Fault("InvalidField", "InvalidCallsign")
        /\ None # Fault("InvalidField", "InvalidProtocolRevision")
    BY DEF None, Syntax, Fault
  <1>9. /\ AnyText.conversion = AsIs /\ DOMAIN AsIs = Segment
        /\ Number.conversion = Int32 /\ Number.fault = Syntax
        /\ Revision.conversion = Unsigned
        /\ Revision.fault = Fault("InvalidField", "InvalidProtocolRevision")
    BY DEF AnyText, Number, Revision, Column, AsIs
  <1>10. CASE Len(segments) < minimum
    <2>1. faults[1] # None
      BY <1>4, <1>6, <1>8, <1>10, <1>3
    <2>2. decode_login(p) = Err(faults[1])
      <3> HIDE DEF faults
      <3> QED BY <2>1, <1>0
    <2> QED BY <1>3, <1>4, <1>6, <1>10, <2>2
  <1>11. CASE Len(segments) >= minimum /\ p.source \notin Callsigns
    <2>1. faults[1] = None /\ faults[2] # None
      BY <1>4, <1>6, <1>8, <1>11
    <2>2. decode_login(p) = Err(faults[2])
      <3> HIDE DEF faults
      <3> QED BY <2>1, <1>0
    <2> QED BY <1>3, <1>4, <1>6, <1>11, <2>2
  <1>12. CASE Len(segments) >= minimum /\ p.source \in Callsigns /\ p.command = "AA"
    <2>1. faults[1] = None /\ faults[2] = None
      BY <1>4, <1>6, <1>12
    <2>2. columns[1] = AnyText /\ columns[2] = AnyText /\ columns[3] = AnyText
          /\ columns[4] = Number /\ columns[5] = Revision
      BY <1>12, LoginColumnsType
    <2>3. c[1] = None /\ c[2] = None /\ c[3] = None
          /\ c[4] = (IF rating \in DOMAIN Int32 THEN None ELSE Syntax)
          /\ c[5] = (IF revision \in DOMAIN Unsigned THEN None
                     ELSE Fault("InvalidField", "InvalidProtocolRevision"))
      <3> HIDE DEF c, columns
      <3> QED BY <1>3, <1>7, <1>9, <1>12, <2>2
    <2>4. faults[3] = None /\ faults[4] = None /\ faults[5] = None /\ faults[6] = c[4] /\ faults[7] = c[5]
      <3> HIDE DEF c, faults
      <3> QED BY <1>6, <1>12, <2>3
    <2> HIDE DEF faults, c, rating, revision
    <2>5. ASSUME rating \notin DOMAIN Int32 PROVE decode_login(p) = Err(Syntax)
      <3>1. faults[6] = Syntax /\ \A i \in 1 .. 6 - 1 : faults[i] = None
        BY <2>1, <2>3, <2>4, <2>5
      <3> QED BY <1>0, <1>8, <1>12, <3>1
    <2>6. ASSUME rating \in DOMAIN Int32, revision \notin DOMAIN Unsigned
          PROVE  decode_login(p) = Err(Fault("InvalidField", "InvalidProtocolRevision"))
      <3>1. faults[7] = Fault("InvalidField", "InvalidProtocolRevision")
            /\ \A i \in 1 .. 7 - 1 : faults[i] = None
        BY <2>1, <2>3, <2>4, <2>6
      <3> QED BY <1>0, <1>8, <1>12, <3>1
    <2>7. ASSUME rating \in DOMAIN Int32, revision \in DOMAIN Unsigned
          PROVE  decode_login(p).ok \/ decode_login(p) = Err(Syntax)
      <3>1. \A i \in 1 .. minimum + 2 : faults[i] = None
        BY <1>12, <2>1, <2>3, <2>4, <2>7
      <3>2. decode_login(p) = Ok(command)
        BY <1>0, <3>1
      <3> QED BY <3>2, OkOrErr, Zenon
    <2>8. Len(segments) >= minimum /\ minimum \in Nat
      BY <1>12
    <2> QED BY <1>3, <1>12, <2>5, <2>6, <2>7, <2>8 DEF rating, revision
  <1>13. CASE Len(segments) >= minimum /\ p.source \in Callsigns /\ p.command = "AP"
    <2>1. faults[1] = None /\ faults[2] = None
      BY <1>4, <1>6, <1>13
    <2>2. columns[1] = AnyText /\ columns[2] = AnyText /\ columns[3] = Number
          /\ columns[4] = Revision /\ columns[5] = Number /\ columns[6] = AnyText
      BY <1>13, LoginColumnsType
    <2>3. c[1] = None /\ c[2] = None /\ c[6] = None
          /\ c[3] = (IF rating \in DOMAIN Int32 THEN None ELSE Syntax)
          /\ c[4] = (IF revision \in DOMAIN Unsigned THEN None
                     ELSE Fault("InvalidField", "InvalidProtocolRevision"))
          /\ c[5] \in {None, Syntax}
      <3> HIDE DEF c, columns
      <3> QED BY <1>3, <1>7, <1>9, <1>13, <2>2
    <2>4. faults[3] = None /\ faults[4] = None /\ faults[5] = c[3] /\ faults[6] = c[4]
          /\ faults[7] = c[5] /\ faults[8] = None
      <3> HIDE DEF c, faults
      <3> QED BY <1>6, <1>13, <2>3
    <2> HIDE DEF faults, c, rating, revision
    <2>5. ASSUME rating \notin DOMAIN Int32 PROVE decode_login(p) = Err(Syntax)
      <3>1. faults[5] = Syntax /\ \A i \in 1 .. 5 - 1 : faults[i] = None
        BY <2>1, <2>3, <2>4, <2>5
      <3> QED BY <1>0, <1>8, <1>13, <3>1
    <2>6. ASSUME rating \in DOMAIN Int32, revision \notin DOMAIN Unsigned
          PROVE  decode_login(p) = Err(Fault("InvalidField", "InvalidProtocolRevision"))
      <3>1. faults[6] = Fault("InvalidField", "InvalidProtocolRevision")
            /\ \A i \in 1 .. 6 - 1 : faults[i] = None
        BY <2>1, <2>3, <2>4, <2>6
      <3> QED BY <1>0, <1>8, <1>13, <3>1
    <2>7. ASSUME rating \in DOMAIN Int32, revision \in DOMAIN Unsigned
          PROVE  decode_login(p).ok \/ decode_login(p) = Err(Syntax)
      <3>1. \A i \in 1 .. minimum + 2 : faults[i] = None \/ faults[i] = Syntax
        BY <1>13, <2>1, <2>3, <2>4, <2>7
      <3>2. decode_login(p) = Ok(command) \/ decode_login(p) = Err(Syntax)
        BY <1>0, <3>1
      <3> QED BY <3>2, OkOrErr, Zenon
    <2>8. Len(segments) >= minimum /\ minimum \in Nat
      BY <1>13
    <2> QED BY <1>3, <1>13, <2>5, <2>6, <2>7, <2>8 DEF rating, revision
  <1> QED BY <1>3, <1>10, <1>11, <1>12, <1>13

\* The commands from one client to another, and their kinds.
LEMMA DirectKindDomain ==
  /\ DOMAIN DirectKind = {"HO", "HA", "SB", "PC", "CI", "C?"}
  /\ DirectKind["HO"] = "Request" /\ DirectKind["HA"] = "Accept"
  /\ DirectKind["SB"] = "SquawkBox" /\ DirectKind["PC"] = "ProController"
  /\ DirectKind["CI"] = "CommunicationReply" /\ DirectKind["C?"] = "CommunicationRequest"
  BY Zenon DEF DirectKind

\* Both backends of the classic family decode a login with decode_login.
LEMMA LoginPacket ==
  ASSUME NEW frame, IsFrame(frame), parse(frame).ok, parse(frame).value.command \in {"AA", "AP"}
  PROVE  LET p == parse(frame).value
         IN  /\ classic_decode(frame) = decode_login(p) /\ vatsim_decode(frame) = decode_login(p)
             /\ \E segments \in Seq(Segment) : p.fields = Single(segments)
  <1> DEFINE p == parse(frame).value
  <1>1. PICK source, destn \in Segment, segments \in Seq(Segment) :
          parse(frame) = Ok(Packet(frame.prefix, frame.command, source, <<destn>>, Single(segments)))
    BY Parsed
  <1>2. p = Packet(frame.prefix, frame.command, source, <<destn>>, Single(segments))
    BY <1>1, OkOrErr, Zenon
  <1>3. p.kind = frame.prefix /\ p.command = frame.command /\ p.fields = Single(segments)
    BY <1>2 DEF Packet
  <1>4. p.kind \in {"#", "$", "!", "&", "-"}
    BY <1>3, ParsedPrefix, ParsedPilot, ParsedAtc, EmptyIsNoCommand
  <1> HIDE DEF p
  <1>5. p.command \in {"AA", "AP"}
    BY DEF p
  <1>6. decode_packet(p) = decode_login(p)
    BY <1>4, <1>5, DirectKindDomain, Zenon DEF decode_packet
  <1>7. classic_decode(frame) = decode_packet(p)
    BY Zenon DEF classic_decode, p
  <1>8. vatsim_decode(frame) = classic_decode(frame)
    BY <1>5, Zenon DEF vatsim_decode, p
  <1> QED BY <1>3, <1>6, <1>7, <1>8, Zenon DEF p

\* What is known of a frame that has been decoded.
Decoded ==
  result # Nothing =>
    /\ from.dialect \in ProtocolDialect /\ from.phase \in {"Connected", "Active"}
    /\ inbound \in Inbound[from.dialect]
    /\ result = decode(from.dialect, inbound)

\* What is known of a frame that was decoded in the classic family.
LEMMA DecodedFamily ==
  ASSUME Decoded, result # Nothing, from.dialect # "AsterV1"
  PROVE  /\ from.dialect \in {"Classic", "Vatsim"} /\ IsFrame(inbound)
         /\ \/ result = classic_decode(inbound)
            \/ result = vatsim_decode(inbound)
  <1>1. from.dialect \in {"Classic", "Vatsim"} /\ inbound \in Inbound[from.dialect]
    BY DEF Decoded, ProtocolDialect
  <1>2. IsFrame(inbound)
    BY <1>1, RelayAssumption
  <1>3. from.dialect = "Classic" => decode(from.dialect, inbound) = classic_decode(inbound)
    BY Zenon DEF decode
  <1>4. from.dialect = "Vatsim" => decode(from.dialect, inbound) = vatsim_decode(inbound)
    BY Zenon DEF decode
  <1> QED BY <1>1, <1>2, <1>3, <1>4, Zenon DEF Decoded

\* The policy of login errors follows from how the frame was decoded.
LEMMA DecodedPolicy ==
  ASSUME Decoded
  PROVE  LoginErrorPolicy
  <1>1. ASSUME result # Nothing, ~ result.ok, from.phase = "Active", closes_connection(from.phase, result.error)
        PROVE  result.error.kind = "Version"
    <2>1. Verdict(result)
      BY <1>1, DecodeVerdict, Zenon DEF Decoded
    <2>2. PICK f \in FaultSet \ {None} : result = Err(f)
      BY <1>1, <2>1, OkOrErr, Zenon DEF Verdict
    <2>3. result.error = f
      BY <2>2, OkOrErr, Zenon
    <2> QED BY <1>1, <2>3, ClosingKinds, Zenon
  <1>2. ASSUME result # Nothing, from.dialect # "AsterV1"
        PROVE  LET packet == parse(inbound)
                   login  == packet.ok /\ packet.value.command \in {"AA", "AP"}
                   minimum == IF packet.value.command = "AA" THEN 5 ELSE 6
                   revision == packet.value.fields[IF packet.value.command = "AA" THEN 5 ELSE 4][1]
                   rating   == packet.value.fields[IF packet.value.command = "AA" THEN 4 ELSE 3][1]
                   closing  == ~ result.ok /\ closes_connection(from.phase, result.error)
               IN  login /\ from.phase = "Connected" =>
                     CASE Len(packet.value.fields) < minimum -> ~ result.ok /\ ~ closing
                       [] Len(packet.value.fields) >= minimum /\ packet.value.source \notin Callsigns ->
                            closing /\ result.error.code = "InvalidCallsign"
                       [] OTHER -> /\ closing <=> rating \in DOMAIN Int32 /\ revision \notin DOMAIN Unsigned
                                   /\ closing => result.error.code = "InvalidProtocolRevision"
    <2> DEFINE p == parse(inbound).value
               minimum == IF p.command = "AA" THEN 5 ELSE 6
               revision == p.fields[IF p.command = "AA" THEN 5 ELSE 4][1]
               rating   == p.fields[IF p.command = "AA" THEN 4 ELSE 3][1]
               closing  == ~ result.ok /\ closes_connection(from.phase, result.error)
    <2> SUFFICES ASSUME parse(inbound).ok, p.command \in {"AA", "AP"}, from.phase = "Connected"
                 PROVE  CASE Len(p.fields) < minimum -> ~ result.ok /\ ~ closing
                          [] Len(p.fields) >= minimum /\ p.source \notin Callsigns ->
                               closing /\ result.error.code = "InvalidCallsign"
                          [] OTHER -> /\ closing <=> rating \in DOMAIN Int32 /\ revision \notin DOMAIN Unsigned
                                      /\ closing => result.error.code = "InvalidProtocolRevision"
      BY Zenon
    <2>1. IsFrame(inbound) /\ (result = classic_decode(inbound) \/ result = vatsim_decode(inbound))
      BY <1>2, DecodedFamily, Zenon
    <2>2. result = decode_login(p) /\ \E segments \in Seq(Segment) : p.fields = Single(segments)
      BY <2>1, LoginPacket, Zenon
    <2>3. PICK segments \in Seq(Segment) : p.fields = Single(segments)
      BY <2>2
    <2>4. Len(p.fields) = Len(segments) /\ Len(segments) \in Nat
          /\ \A i \in 1 .. Len(segments) : p.fields[i][1] = segments[i]
      BY <2>3, SingleType
    <2> HIDE DEF p
    <2>5. IF Len(segments) < minimum THEN decode_login(p) = Err(Syntax)
          ELSE IF p.source \notin Callsigns
               THEN decode_login(p) = Err(Fault("InvalidField", "InvalidCallsign"))
          ELSE IF segments[IF p.command = "AA" THEN 4 ELSE 3] \notin DOMAIN Int32
               THEN decode_login(p) = Err(Syntax)
          ELSE IF segments[IF p.command = "AA" THEN 5 ELSE 4] \notin DOMAIN Unsigned
               THEN decode_login(p) = Err(Fault("InvalidField", "InvalidProtocolRevision"))
          ELSE decode_login(p).ok \/ decode_login(p) = Err(Syntax)
      BY <2>3, LoginFaults
    <2>6. Len(p.fields) >= minimum => /\ rating = segments[IF p.command = "AA" THEN 4 ELSE 3]
                                      /\ revision = segments[IF p.command = "AA" THEN 5 ELSE 4]
      BY <2>4
    <2>7. /\ ~ closes_connection("Connected", Syntax)
          /\ closes_connection("Connected", Fault("InvalidField", "InvalidCallsign"))
          /\ closes_connection("Connected", Fault("InvalidField", "InvalidProtocolRevision"))
          /\ Fault("InvalidField", "InvalidCallsign").code = "InvalidCallsign"
          /\ Fault("InvalidField", "InvalidProtocolRevision").code = "InvalidProtocolRevision"
      BY DEF closes_connection, Syntax, Fault
    <2> HIDE DEF minimum, rating, revision
    <2>8. ASSUME Len(p.fields) < minimum PROVE ~ result.ok /\ ~ closing
      BY <2>2, <2>4, <2>5, <2>7, <2>8, OkOrErr, Zenon
    <2>9. minimum \in Nat
      BY DEF minimum
    <2>10. ASSUME Len(p.fields) >= minimum PROVE ~ (Len(segments) < minimum)
      BY <2>4, <2>9, <2>10
    <2>11. ASSUME Len(p.fields) >= minimum, p.source \notin Callsigns
           PROVE  closing /\ result.error.code = "InvalidCallsign"
      BY <2>2, <2>5, <2>7, <2>10, <2>11, OkOrErr, Zenon
    <2>12. ASSUME ~ (Len(p.fields) < minimum), ~ (Len(p.fields) >= minimum /\ p.source \notin Callsigns)
           PROVE  /\ closing <=> rating \in DOMAIN Int32 /\ revision \notin DOMAIN Unsigned
                  /\ closing => result.error.code = "InvalidProtocolRevision"
      <3>1. Len(p.fields) >= minimum /\ p.source \in Callsigns
        BY <2>4, <2>9, <2>12
      <3> QED BY <2>2, <2>5, <2>6, <2>7, <2>10, <3>1, OkOrErr, ZenonT(60)
    <2> HIDE DEF closing
    <2> QED BY <2>8, <2>11, <2>12, Zenon
  <1> QED BY <1>1, <1>2, Zenon DEF LoginErrorPolicy

-----------------------------------------------------------------------------
(***************************************************************************)
(* FlattenSeq: the recursive function of its definition exists, and what   *)
(* it yields for single segments.                                          *)
(***************************************************************************)
Flattens(f, s, n) ==
  \A i \in 1 .. n : f[i] = IF i = 1 THEN s[i] ELSE f[i - 1] \o s[i]

\* The function that FlattenSeq is defined by exists, by least counterexample.
LEMMA FlattenExists ==
  ASSUME NEW S, NEW s \in Seq(Seq(S)), NEW n \in 1 .. Len(s)
  PROVE  \E f \in [1 .. n -> Seq(S)] : Flattens(f, s, n)
  <1> DEFINE T == {k \in 1 .. Len(s) : ~ \E f \in [1 .. k -> Seq(S)] : Flattens(f, s, k)}
  <1>0. T \in SUBSET Nat /\ (n \notin T => \E f \in [1 .. n -> Seq(S)] : Flattens(f, s, n))
    OBVIOUS
  <1>a. \A k : k \in T <=> k \in 1 .. Len(s) /\ ~ \E f \in [1 .. k -> Seq(S)] : Flattens(f, s, k)
    OBVIOUS
  <1> HIDE DEF T
  <1>1. SUFFICES ASSUME T # {} PROVE FALSE
    BY <1>0
  <1>2. PICK k \in T : \A m \in T : k <= m
    BY <1>0, <1>1, LeastNumber
  <1>3. k \in 1 .. Len(s) /\ \A m \in 1 .. Len(s) : s[m] \in Seq(S)
    BY <1>2, <1>a, ElementOfSeq
  <1>4. CASE k = 1
    <2>1. [i \in 1 .. 1 |-> s[1]] \in [1 .. 1 -> Seq(S)] /\ Flattens([i \in 1 .. 1 |-> s[1]], s, 1)
      BY <1>3, <1>4 DEF Flattens
    <2> QED BY <1>2, <1>4, <1>a, <2>1, Zenon
  <1>5. CASE k # 1
    <2>1. k - 1 \in 1 .. Len(s) /\ k - 1 \notin T
      BY <1>2, <1>3, <1>5
    <2>2. PICK g \in [1 .. k - 1 -> Seq(S)] : Flattens(g, s, k - 1)
      BY <2>1, <1>a
    <2> DEFINE h == [i \in 1 .. k |-> IF i = k THEN g[k - 1] \o s[k] ELSE g[i]]
    <2>3. g[k - 1] \o s[k] \in Seq(S)
      <3>1. g[k - 1] \in Seq(S) /\ s[k] \in Seq(S)
        BY <1>3, <2>1, <2>2
      <3> QED BY <3>1
    <2>4. h \in [1 .. k -> Seq(S)]
      BY <1>3, <1>5, <2>2, <2>3
    <2>5. ASSUME NEW i \in 1 .. k PROVE h[i] = IF i = 1 THEN s[i] ELSE h[i - 1] \o s[i]
      <3>1. CASE i = k
        <4>1. h[k] = g[k - 1] \o s[k] /\ h[k - 1] = g[k - 1]
          <5>1. k \in 1 .. k /\ k - 1 \in 1 .. k /\ k - 1 # k
            BY <1>3, <1>5
          <5> QED BY <5>1, Zenon
        <4> QED BY <1>5, <3>1, <4>1
      <3>2. CASE i # k
        <4>1. i \in 1 .. k - 1 /\ h[i] = g[i] /\ (i # 1 => h[i - 1] = g[i - 1])
          BY <1>3, <3>2
        <4>2. g[i] = IF i = 1 THEN s[i] ELSE g[i - 1] \o s[i]
          BY <2>2, <4>1 DEF Flattens
        <4> QED BY <4>1, <4>2
      <3> QED BY <3>1, <3>2
    <2>6. Flattens(h, s, k)
      BY <2>5, Zenon DEF Flattens
    <2> HIDE DEF h
    <2> QED BY <1>2, <1>a, <2>4, <2>6, Zenon
  <1> QED BY <1>4, <1>5

\* FlattenSeq yields the last value of that function.
LEMMA FlattenDef ==
  ASSUME NEW S, NEW s \in Seq(Seq(S)), s # <<>>
  PROVE  \E f \in [1 .. Len(s) -> Seq(S)] : Flattens(f, s, Len(s)) /\ FlattenSeq(s) = f[Len(s)]
  <1> DEFINE n == Len(s)
             P(g) == g = [i \in 1 .. n |-> IF i = 1 THEN s[i] ELSE g[i - 1] \o s[i]]
             h == CHOOSE g : P(g)
  <1>1. n \in Nat /\ n >= 1 /\ n \in 1 .. Len(s)
    OBVIOUS
  <1> HIDE DEF n
  <1>2. PICK f \in [1 .. n -> Seq(S)] : Flattens(f, s, n)
    BY <1>1, FlattenExists
  <1>3. P(f)
    BY <1>2 DEF Flattens
  <1>4. P(h)
    <2> HIDE DEF P
    <2> QED BY <1>3, Zenon
  <1>5. FlattenSeq(s) = h[n]
    <2>1. Len(s) # 0
      BY <1>1 DEF n
    <2> QED BY <2>1, Zenon DEF FlattenSeq, n
  <1> HIDE DEF h
  <1>6. \A i \in 1 .. n : h[i] = f[i]
    <2> DEFINE T == {i \in 1 .. n : h[i] # f[i]}
    <2> SUFFICES ASSUME T # {} PROVE FALSE
      OBVIOUS
    <2>1. T \in SUBSET Nat
      BY <1>1
    <2>2. PICK i \in T : \A j \in T : i <= j
      <3> HIDE DEF T
      <3> QED BY <2>1, LeastNumber
    <2>3. i \in 1 .. n /\ h[i] # f[i]
      BY <2>2
    <2>4. f[i] = IF i = 1 THEN s[i] ELSE f[i - 1] \o s[i]
      BY <1>2, <2>3 DEF Flattens
    <2>5. h[i] = IF i = 1 THEN s[i] ELSE h[i - 1] \o s[i]
      BY <1>4, <2>3
    <2>6. i # 1 => i - 1 \in 1 .. n /\ i - 1 \notin T
      BY <1>1, <2>2, <2>3
    <2>7. i # 1 => h[i - 1] = f[i - 1]
      BY <2>6
    <2> QED BY <2>3, <2>4, <2>5, <2>7, Zenon
  <1> QED BY <1>1, <1>2, <1>5, <1>6 DEF n

\* No fields are no segments.
LEMMA FlattenEmpty ==
  FlattenSeq(<<>>) = <<>>
  BY DEF FlattenSeq

\* The segments of fields are a sequence of segments.
LEMMA FlattenType ==
  ASSUME NEW S, NEW s \in Seq(Seq(S))
  PROVE  FlattenSeq(s) \in Seq(S)
  <1>1. CASE s = <<>>
    <2>1. <<>> \in Seq(S)
      OBVIOUS
    <2> QED BY <1>1, <2>1, FlattenEmpty, Zenon
  <1>2. CASE s # <<>>
    <2>1. Len(s) \in 1 .. Len(s)
      BY <1>2
    <2> QED BY <1>2, <2>1, FlattenDef, SMTT(40)
  <1> QED BY <1>1, <1>2

\* One field is its segments.
LEMMA FlattenOne ==
  ASSUME NEW S, NEW t \in Seq(S)
  PROVE  FlattenSeq(<<t>>) = t
  <1>1. <<t>> \in Seq(Seq(S)) /\ <<t>> # <<>> /\ Len(<<t>>) = 1 /\ <<t>>[1] = t
    OBVIOUS
  <1>2. PICK f \in [1 .. Len(<<t>>) -> Seq(S)] :
          Flattens(f, <<t>>, Len(<<t>>)) /\ FlattenSeq(<<t>>) = f[Len(<<t>>)]
    BY <1>1, FlattenDef
  <1>3. f[1] = t
    BY <1>1, <1>2 DEF Flattens
  <1> QED BY <1>1, <1>2, <1>3

\* Segments that are fields of their own are put together as they were.
LEMMA FlattenSingle ==
  ASSUME NEW S, NEW t \in Seq(S)
  PROVE  FlattenSeq(Single(t)) = t
  <1> DEFINE s == Single(t)
             n == Len(t)
  <1>1. s \in Seq(Seq(S)) /\ Len(s) = n /\ n \in Nat /\ \A i \in 1 .. n : s[i] = <<t[i]>>
    BY SingleType
  <1>2. CASE t = <<>>
    <2>1. s = <<>>
      BY <1>2, SingleType
    <2> QED BY <1>2, <2>1, FlattenEmpty
  <1>3. CASE t # <<>>
    <2>0. s # <<>> /\ n \in 1 .. n
      BY <1>3, SingleType
    <2> HIDE DEF s
    <2>1. PICK f \in [1 .. n -> Seq(S)] : Flattens(f, s, n) /\ FlattenSeq(s) = f[n]
      BY <1>1, <2>0, FlattenDef
    <2>2. \A i \in 1 .. n : f[i] = SubSeq(t, 1, i)
      <3> DEFINE T == {i \in 1 .. n : f[i] # SubSeq(t, 1, i)}
      <3> SUFFICES ASSUME T # {} PROVE FALSE
        OBVIOUS
      <3>1. T \in SUBSET Nat
        OBVIOUS
      <3>2. PICK i \in T : \A j \in T : i <= j
        <4> HIDE DEF T
        <4> QED BY <3>1, LeastNumber
      <3>3. i \in 1 .. n /\ f[i] # SubSeq(t, 1, i)
        BY <3>2
      <3>4. f[i] = IF i = 1 THEN <<t[i]>> ELSE f[i - 1] \o <<t[i]>>
        BY <1>1, <2>1, <3>3 DEF Flattens
      <3>5. CASE i = 1
        <4>1. SubSeq(t, 1, 1) = SubSeq(t, 1, 0) \o <<t[1]>> /\ SubSeq(t, 1, 0) = <<>> /\ t[1] \in S
          <5>1. 1 \in 1 .. Len(t)
            BY <3>3, <3>5
          <5>2. SubSeq(t, 1, 1) = SubSeq(t, 1, 1 - 1) \o <<t[1]>>
            BY <5>1, SubSeqRecursiveSecond
          <5> QED BY <5>1, <5>2, SubSeqEmpty, ElementOfSeq
        <4> QED BY <3>3, <3>4, <3>5, <4>1
      <3>6. CASE i # 1
        <4>1. i - 1 \in 1 .. n /\ i - 1 \notin T
          BY <3>2, <3>3, <3>6
        <4>2. f[i - 1] = SubSeq(t, 1, i - 1)
          BY <4>1
        <4>3. SubSeq(t, 1, i) = SubSeq(t, 1, i - 1) \o <<t[i]>>
          <5>1. 1 \in 1 .. Len(t) /\ i \in 1 .. Len(t)
            BY <3>3
          <5> QED BY <5>1, SubSeqRecursiveSecond
        <4> QED BY <3>3, <3>4, <3>6, <4>2, <4>3
      <3> QED BY <3>5, <3>6
    <2>3. SubSeq(t, 1, n) = t
      BY SubSeqFull
    <2> QED BY <2>0, <2>1, <2>2, <2>3 DEF s
  <1> QED BY <1>2, <1>3

-----------------------------------------------------------------------------
(***************************************************************************)
(* Frames and packets: what is read is written again unchanged.            *)
(***************************************************************************)
LEMMA AssembleCases ==
  ASSUME NEW p
  PROVE  LET fields == FlattenSeq(p.fields)
         IN  /\ p.kind = "@" /\ p.command # "DI" => assemble(p) = Frame("@", p.command, Empty, <<p.source>> \o fields)
             /\ p.kind = "%" /\ p.command # "DI" => assemble(p) = Frame("%", Empty, p.source, fields)
             /\ p.kind \in {"#", "$", "!", "&", "-"} /\ p.command = "DI" =>
                  assemble(p) = Frame(p.kind, "DI", p.destination[1], <<p.source>> \o fields)
             /\ p.kind \in {"#", "$", "!", "&", "-"} /\ p.command # "DI" =>
                  assemble(p) = Frame(p.kind, p.command, p.source, p.destination \o fields)
  <1> DEFINE fields == FlattenSeq(p.fields)
  <1>1. ASSUME p.kind = "@", p.command # "DI" PROVE assemble(p) = Frame("@", p.command, Empty, <<p.source>> \o fields)
    BY <1>1, Zenon DEF assemble
  <1>2. ASSUME p.kind = "%", p.command # "DI" PROVE assemble(p) = Frame("%", Empty, p.source, fields)
    BY <1>2, Zenon DEF assemble
  <1>3. ASSUME p.kind \in {"#", "$", "!", "&", "-"}, p.command = "DI"
        PROVE  assemble(p) = Frame(p.kind, "DI", p.destination[1], <<p.source>> \o fields)
    BY <1>3, Zenon DEF assemble
  <1>4. ASSUME p.kind \in {"#", "$", "!", "&", "-"}, p.command # "DI"
        PROVE  assemble(p) = Frame(p.kind, p.command, p.source, p.destination \o fields)
    BY <1>4, Zenon DEF assemble
  <1> QED BY <1>1, <1>2, <1>3, <1>4, Zenon

\* One element before a sequence.
LEMMA Prepended ==
  ASSUME NEW S, NEW x \in S, NEW t \in Seq(S)
  PROVE  <<x>> \o t \in Seq(S) /\ <<x>> \o t # <<>> /\ (<<x>> \o t)[1] = x
  OBVIOUS

\* The rest of a sequence with one element before it.
LEMMA PrependedTail ==
  ASSUME NEW S, NEW x \in S, NEW t \in Seq(S)
  PROVE  Tail(<<x>> \o t) = t
  <1> DEFINE s == <<x>> \o t
  <1>1. s \in Seq(S) /\ Len(s) = Len(t) + 1 /\ s[1] = x /\ \A i \in 1 .. Len(t) : s[i + 1] = t[i]
    OBVIOUS
  <1> HIDE DEF s
  <1>2. s # <<>>
    BY <1>1
  <1>3. Tail(s) \in Seq(S) /\ Len(Tail(s)) = Len(t) /\ \A i \in 1 .. Len(t) : Tail(s)[i] = t[i]
    BY <1>1, <1>2, HeadTailProperties
  <1>4. Tail(s) = t
    BY <1>3, SeqEqual
  <1> QED BY <1>4 DEF s

\* The first element of two sequences one after the other.
LEMMA Joined ==
  ASSUME NEW S, NEW s \in Seq(S), NEW t \in Seq(S), s # <<>>
  PROVE  s \o t \in Seq(S) /\ s \o t # <<>> /\ s[1] \in S /\ (s \o t)[1] = s[1]
  OBVIOUS

\* A frame is made of its parts.
LEMMA FrameEta ==
  ASSUME NEW frame, IsFrame(frame)
  PROVE  frame = Frame(frame.prefix, frame.command, frame.head, frame.rest)
  BY DEF IsFrame, Frame

\* A frame is written as it was read, unless the callsign of a position is glued to its mode.
LEMMA FrameRoundTrip ==
  ASSUME NEW frame, IsFrame(frame), parse(frame).ok, frame.prefix = "@" => frame.head = Empty
  PROVE  assemble(parse(frame).value) = frame
  <1>0. PICK p : p = parse(frame).value
    OBVIOUS
  <1>1. CASE frame.prefix = "@"
    <2>1. PICK source \in Segment \ {Empty}, segments \in Seq(Segment) :
            /\ parse(frame) = Ok(Packet("@", frame.command, source, <<Empty>>, Single(segments)))
            /\ frame.rest = <<source>> \o segments
      BY <1>1, ParsedPilot
    <2>2. p = Packet("@", frame.command, source, <<Empty>>, Single(segments))
      BY <1>0, <2>1, OkOrErr, Zenon
    <2>3. p.kind = "@" /\ p.command = frame.command /\ p.source = source /\ p.fields = Single(segments)
      BY <2>2 DEF Packet
    <2>a. frame.command # "DI"
      BY <1>1, ParsedPilot
    <2>4. assemble(p) = Frame("@", frame.command, Empty, <<source>> \o FlattenSeq(Single(segments)))
      BY <2>3, <2>a, AssembleCases, Zenon
    <2> QED BY <1>1, <2>1, <2>4, <1>0, FlattenSingle, FrameEta, Zenon
  <1>2. CASE frame.prefix = "%"
    <2>1. /\ frame.command = Empty /\ frame.rest \in Seq(Segment)
          /\ parse(frame) = Ok(Packet("%", Empty, frame.head, <<Empty>>, Single(frame.rest)))
      BY <1>2, ParsedAtc
    <2>2. p = Packet("%", Empty, frame.head, <<Empty>>, Single(frame.rest))
      BY <1>0, <2>1, OkOrErr, Zenon
    <2>3. p.kind = "%" /\ p.command = Empty /\ p.source = frame.head /\ p.fields = Single(frame.rest)
      BY <2>2 DEF Packet
    <2>4. assemble(p) = Frame("%", Empty, frame.head, FlattenSeq(Single(frame.rest)))
      BY <2>3, AssembleCases, EmptyIsNoCommand, Zenon
    <2> QED BY <1>2, <2>1, <2>4, <1>0, FlattenSingle, FrameEta, Zenon
  <1>3. CASE frame.prefix \in {"#", "$", "!", "&", "-"}
    <2>1. PICK second \in Segment, segments \in Seq(Segment) :
              /\ parse(frame) =
                   IF frame.command = "DI"
                   THEN Ok(Packet(frame.prefix, "DI", second, <<frame.head>>, Single(segments)))
                   ELSE Ok(Packet(frame.prefix, frame.command, frame.head, <<second>>, Single(segments)))
              /\ frame.rest = <<second>> \o segments
      BY <1>3, ParsedCommand
    <2>2. <<frame.head>>[1] = frame.head
      OBVIOUS
    <2>3. CASE frame.command = "DI"
      <3>1. p = Packet(frame.prefix, "DI", second, <<frame.head>>, Single(segments))
        BY <1>0, <2>1, <2>3, OkOrErr, Zenon
      <3>2. p.kind = frame.prefix /\ p.command = "DI" /\ p.source = second
            /\ p.destination[1] = frame.head /\ p.fields = Single(segments)
        BY <2>2, <3>1 DEF Packet
      <3>3. assemble(p) = Frame(frame.prefix, "DI", frame.head, <<second>> \o FlattenSeq(Single(segments)))
        BY <1>3, <3>2, AssembleCases, Zenon
      <3> QED BY <2>1, <2>3, <3>3, <1>0, FlattenSingle, FrameEta, Zenon
    <2>4. CASE frame.command # "DI"
      <3>1. p = Packet(frame.prefix, frame.command, frame.head, <<second>>, Single(segments))
        BY <1>0, <2>1, <2>4, OkOrErr, Zenon
      <3>2. p.kind = frame.prefix /\ p.command = frame.command /\ p.source = frame.head
            /\ p.destination = <<second>> /\ p.fields = Single(segments)
        BY <3>1 DEF Packet
      <3>3. assemble(p) = Frame(frame.prefix, frame.command, frame.head, <<second>> \o FlattenSeq(Single(segments)))
        BY <1>3, <2>4, <3>2, AssembleCases, Zenon
      <3> QED BY <2>1, <3>3, <1>0, FlattenSingle, FrameEta, Zenon
    <2> QED BY <2>3, <2>4
  <1> QED BY <1>1, <1>2, <1>3, ParsedPrefix

\* A packet that may be written: it names a sender and a destination, and a pilot's mode.
WellFormed(p, S) ==
  /\ p.kind \in {"@", "%", "#", "$", "!", "&", "-"} /\ p.command # "?"
  /\ p.source \in S \ {Empty} /\ p.destination \in Seq(S) \ {<<>>}
  /\ p.fields \in Seq(Seq(S))
  /\ p.kind = "@" => p.command \in {"N", "S", "Y"}
  /\ p.kind = "%" => p.command = Empty

\* The parts of a frame.
LEMMA FrameFields ==
  \A prefix, command, head, rest :
     /\ Frame(prefix, command, head, rest).prefix = prefix
     /\ Frame(prefix, command, head, rest).command = command
     /\ Frame(prefix, command, head, rest).head = head
     /\ Frame(prefix, command, head, rest).rest = rest
  BY DEF Frame

\* The frame of a well-formed packet: its kind, and where its source is.
LEMMA AssembledType ==
  ASSUME NEW S \in SUBSET Segment, Empty \in S, NEW p, WellFormed(p, S), NEW f, f = assemble(p)
  PROVE  /\ IsFrame(f) /\ f.head \in S /\ f.rest \in Seq(S) /\ f.prefix = p.kind
         /\ p.kind = "@" => f.head = Empty /\ f.command = p.command /\ f.rest # <<>> /\ f.rest[1] # Empty
         /\ p.kind = "%" => f.head # Empty
         /\ p.kind \in {"#", "$", "!", "&", "-"} => f.rest # <<>> /\ f.command = p.command
  <1>0. PICK fields : fields = FlattenSeq(p.fields)
    OBVIOUS
  <1>1. fields \in Seq(S)
    BY <1>0, FlattenType DEF WellFormed
  <1>a. /\ p.kind \in {"@", "%", "#", "$", "!", "&", "-"} /\ p.source \in S /\ p.source # Empty
        /\ p.destination \in Seq(S) /\ p.destination # <<>>
        /\ p.kind \in {"@", "%"} => p.command # "DI"
    BY EmptyIsNoCommand DEF WellFormed
  <1>2. PICK first : first = <<p.source>> \o fields
    OBVIOUS
  <1>3. first \in Seq(S) /\ first # <<>> /\ first[1] = p.source
    <2>1. \A x \in S : <<x>> \o fields \in Seq(S) /\ <<x>> \o fields # <<>> /\ (<<x>> \o fields)[1] = x
      BY <1>1, Prepended
    <2> QED BY <1>2, <1>a, <2>1, Zenon
  <1>4. PICK routed : routed = p.destination \o fields
    OBVIOUS
  <1>b. routed \in Seq(S) /\ routed # <<>> /\ p.destination[1] \in S
    BY <1>1, <1>4, <1>a, Joined, Zenon
  <1>c. \A head \in S, rest \in Seq(S) : head \in Segment /\ rest \in Seq(Segment)
    BY SeqMonotonic
  <1>5. CASE p.kind = "@"
    <2>1. f = Frame("@", p.command, Empty, first)
      BY <1>0, <1>2, <1>a, <1>5, AssembleCases, Zenon
    <2>2. f.prefix = "@" /\ f.command = p.command /\ f.head = Empty /\ f.rest = first
      BY <2>1, FrameFields
    <2>3. f.head \in S /\ f.rest \in Seq(S)
      BY <1>a, <1>3, <1>5, <2>2
    <2>4. IsFrame(f)
      BY <1>a, <1>3, <1>5, <1>c, <2>1, <2>2, <2>3 DEF IsFrame
    <2> QED BY <1>a, <1>3, <1>5, <2>2, <2>3, <2>4
  <1>6. CASE p.kind = "%"
    <2>1. f = Frame("%", Empty, p.source, fields)
      BY <1>0, <1>a, <1>6, AssembleCases, Zenon
    <2>2. f.prefix = "%" /\ f.command = Empty /\ f.head = p.source /\ f.rest = fields
      BY <2>1, FrameFields
    <2>3. f.head \in S /\ f.rest \in Seq(S)
      BY <1>a, <1>1, <1>6, <2>2
    <2>4. IsFrame(f)
      BY <1>a, <1>1, <1>6, <1>c, <2>1, <2>2, <2>3 DEF IsFrame
    <2> QED BY <1>a, <1>1, <1>6, <2>2, <2>3, <2>4
  <1>7. CASE p.kind \in {"#", "$", "!", "&", "-"} /\ p.command = "DI"
    <2>1. f = Frame(p.kind, "DI", p.destination[1], first)
      BY <1>0, <1>2, <1>7, AssembleCases, Zenon
    <2>2. f.prefix = p.kind /\ f.command = "DI" /\ f.head = p.destination[1] /\ f.rest = first
      BY <2>1, FrameFields
    <2>3. f.head \in S /\ f.rest \in Seq(S)
      BY <1>b, <1>3, <1>7, <2>2
    <2>4. IsFrame(f)
      BY <1>b, <1>3, <1>7, <1>c, <2>1, <2>2, <2>3 DEF IsFrame
    <2> QED BY <1>b, <1>3, <1>7, <2>2, <2>3, <2>4
  <1>8. CASE p.kind \in {"#", "$", "!", "&", "-"} /\ p.command # "DI"
    <2>1. f = Frame(p.kind, p.command, p.source, routed)
      BY <1>0, <1>4, <1>8, AssembleCases, Zenon
    <2>2. f.prefix = p.kind /\ f.command = p.command /\ f.head = p.source /\ f.rest = routed
      BY <2>1, FrameFields
    <2>3. f.head \in S /\ f.rest \in Seq(S)
      BY <1>a, <1>b, <1>8, <2>2
    <2>4. IsFrame(f)
      BY <1>a, <1>b, <1>8, <1>c, <2>1, <2>2, <2>3 DEF IsFrame
    <2> QED BY <1>a, <1>b, <1>8, <2>2, <2>3, <2>4
  <1> QED BY <1>a, <1>5, <1>6, <1>7, <1>8

\* What is written can be read again.
LEMMA AssembledParses ==
  ASSUME NEW S \in SUBSET Segment, Empty \in S, NEW p, WellFormed(p, S)
  PROVE  parse(assemble(p)).ok /\ assemble(parse(assemble(p)).value) = assemble(p)
  <1>0. PICK f : f = assemble(p)
    OBVIOUS
  <1>1. /\ IsFrame(f) /\ f.prefix = p.kind
        /\ p.kind = "@" => f.head = Empty /\ f.command = p.command /\ f.rest # <<>> /\ f.rest[1] # Empty
        /\ p.kind = "%" => f.head # Empty
        /\ p.kind \in {"#", "$", "!", "&", "-"} => f.rest # <<>> /\ f.command = p.command
    BY <1>0, AssembledType
  <1>2. CASE p.kind = "@"
    <2>1. parse(f) = parse_pilot(f)
      BY <1>1, <1>2, Zenon DEF parse
    <2>2. f.command \in {"N", "S", "Y"}
      BY <1>1, <1>2 DEF WellFormed
    <2>3. \E q : parse_pilot(f) = Ok(q)
      BY <1>1, <1>2, <2>2, Zenon DEF parse_pilot
    <2> QED BY <1>1, <1>2, <2>1, <2>3, <1>0, OkOrErr, FrameRoundTrip, ZenonT(60)
  <1>3. CASE p.kind = "%"
    <2>1. parse(f) = parse_atc(f)
      BY <1>1, <1>3, Zenon DEF parse
    <2>2. \E q : parse_atc(f) = Ok(q)
      BY <1>1, <1>3, Zenon DEF parse_atc
    <2> QED BY <1>1, <1>3, <2>1, <2>2, <1>0, OkOrErr, FrameRoundTrip, Zenon
  <1>4. CASE p.kind \in {"#", "$", "!", "&", "-"}
    <2>1. parse(f) = parse_command(f)
      BY <1>1, <1>4, Zenon DEF parse
    <2>2. f.command # "?"
      BY <1>1, <1>4 DEF WellFormed
    <2>3. \E q : parse_command(f) = Ok(q)
      BY <1>1, <1>4, <2>2, Zenon DEF parse_command
    <2> QED BY <1>1, <1>4, <2>1, <2>3, <1>0, OkOrErr, FrameRoundTrip, ZenonT(60)
  <1> QED BY <1>2, <1>3, <1>4 DEF WellFormed

\* The packet of a frame is read again from what it is written as.
LEMMA PacketRoundTrip ==
  ASSUME NEW frame, IsFrame(frame), parse(frame).ok
  PROVE  parse(assemble(parse(frame).value)) = parse(frame)
  <1>1. CASE frame.prefix = "@" /\ frame.head # Empty
    <2>1. PICK source \in Segment \ {Empty}, segments \in Seq(Segment) :
            parse(frame) = Ok(Packet("@", frame.command, source, <<Empty>>, Single(segments)))
      BY <1>1, ParsedPilot
    <2> DEFINE p == Packet("@", frame.command, source, <<Empty>>, Single(segments))
               rest == <<source>> \o segments
               f == Frame("@", frame.command, Empty, rest)
    <2>2. parse(frame).value = p
      BY <2>1, OkOrErr, Zenon
    <2>3. p.kind = "@" /\ p.command = frame.command /\ p.source = source /\ p.fields = Single(segments)
      BY DEF Packet
    <2> HIDE DEF p
    <2>4. assemble(p) = f
      <3>1. frame.command # "DI"
        BY <1>1, ParsedPilot
      <3> QED BY <2>3, <3>1, AssembleCases, FlattenSingle, Zenon
    <2>5. f.prefix = "@" /\ f.command = frame.command /\ f.head = Empty /\ f.rest = rest
      BY DEF Frame
    <2>6. rest[1] = source /\ Tail(rest) = segments /\ rest # <<>>
      <3>1. source \in Segment
        OBVIOUS
      <3> QED BY <3>1, Prepended, PrependedTail, ZenonT(60)
    <2> HIDE DEF f, rest
    <2>7. frame.command \in {"N", "S", "Y"}
      BY <1>1, ParsedPilot
    <2>8. parse(f) = parse_pilot(f)
      BY <2>5, Zenon DEF parse
    <2>9. source # Empty
      OBVIOUS
    <2>10. parse_pilot(f) = Ok(Packet("@", f.command, f.rest[1], <<Empty>>, Single(Tail(f.rest))))
      BY <2>5, <2>6, <2>7, <2>9, Zenon DEF parse_pilot
    <2> QED BY <2>1, <2>2, <2>4, <2>5, <2>6, <2>8, <2>10, Zenon
  <1>2. CASE frame.prefix = "@" => frame.head = Empty
    BY <1>2, FrameRoundTrip, Zenon
  <1> QED BY <1>1, <1>2

-----------------------------------------------------------------------------
(***************************************************************************)
(* The frames of a sequence of packets.                                    *)
(***************************************************************************)
\* A frame that may be sent: public, read and written again unchanged, and one line.
Sendable(frame) ==
  /\ frame.head \in Public /\ frame.rest \in Seq(Public)
  /\ parse(frame).ok /\ assemble(parse(frame).value) = frame
  /\ frame.head \notin Broken /\ \A i \in 1 .. Len(frame.rest) : frame.rest[i] \notin Broken

\* What may be shown to anyone includes what the server writes.
LEMMA PublicSegments ==
  /\ Public \in SUBSET Segment /\ Empty \in Public /\ Own \in Public
  /\ \A s \in ServerText \cup Reports \cup Notices : s \in Public
  BY SecretsAssumption DEF Public, ServerText

\* encode_packet refuses what holds a delimiter: what it writes may be sent.
LEMMA EncodedSendable ==
  ASSUME NEW p, WellFormed(p, Public), NEW max, encode_packet(p, max).ok
  PROVE  Sendable(encode_packet(p, max).value)
  <1>0. PICK f : f = assemble(p)
    OBVIOUS
  <1>1. fits(f, max) /\ f.head \notin Broken /\ ~ \E i \in 1 .. Len(f.rest) : f.rest[i] \in Broken
    <2>1. ~ (fits(f, max) /\ f.head \notin Broken /\ ~ \E i \in 1 .. Len(f.rest) : f.rest[i] \in Broken) =>
            encode_packet(p, max) = Err("FrameTooLong") \/ encode_packet(p, max) = Err("EmbeddedDelimiter")
      BY <1>0, Zenon DEF encode_packet
    <2> QED BY <2>1, OkOrErr, Zenon
  <1>2. encode_packet(p, max) = Ok(f)
    BY <1>0, <1>1, Zenon DEF encode_packet
  <1>3. encode_packet(p, max).value = f
    BY <1>2, OkOrErr, Zenon
  <1>4. f.head \in Public /\ f.rest \in Seq(Public)
    BY <1>0, PublicSegments, AssembledType
  <1>5. parse(f).ok /\ assemble(parse(f).value) = f
    BY <1>0, PublicSegments, AssembledParses
  <1> QED BY <1>1, <1>3, <1>4, <1>5 DEF Sendable

\* So may every frame of an event.
LEMMA FramesSendable ==
  ASSUME NEW packets, Len(packets) \in Nat, \A i \in 1 .. Len(packets) : WellFormed(packets[i], Public),
         NEW max, frames(packets, max).ok
  PROVE  /\ Len(frames(packets, max).value) = Len(packets)
         /\ \A i \in 1 .. Len(packets) : Sendable(frames(packets, max).value[i])
  <1> DEFINE results == [i \in 1 .. Len(packets) |-> encode_packet(packets[i], max)]
             values == [i \in 1 .. Len(packets) |-> results[i].value]
  <1>1. \A i \in 1 .. Len(packets) : results[i].ok
    <2>1. ~ (\A i \in 1 .. Len(packets) : results[i].ok) => frames(packets, max) = Err(Fault("Encoding", "Syntax"))
      BY Zenon DEF frames
    <2> QED BY <2>1, OkOrErr, Zenon
  <1>2. frames(packets, max) = Ok(values)
    BY <1>1, Zenon DEF frames
  <1>3. frames(packets, max).value = values
    BY <1>2, OkOrErr, Zenon
  <1>4. \A i \in 1 .. Len(packets) : encode_packet(packets[i], max).ok /\ values[i] = encode_packet(packets[i], max).value
    BY <1>1, Zenon
  <1>5. \A i \in 1 .. Len(packets) : Sendable(values[i])
    BY <1>4, EncodedSendable, Zenon
  <1>6. Len(values) = Len(packets)
    OBVIOUS
  <1> HIDE DEF values
  <1> QED BY <1>3, <1>5, <1>6

-----------------------------------------------------------------------------
(***************************************************************************)
(* Commands and events, as far as the encoders look at them.               *)
(***************************************************************************)
QueryKinds == {"RealName", "FlightPlan", "Capabilities", "Atis", "SystemInfo", "AircraftConfiguration"}

HandoffKinds == {"Request", "Accept"}

DataKinds == {"SquawkBox", "ProController", "CommunicationReply", "CommunicationRequest"}

\* What is relayed as it came, if it is not for the server.
Routed == {"Text", "Ping", "Pong", "Query", "Response", "Handoff", "ClientData"}

ValidKind(m) ==
  /\ m.op \in {"Query", "Response"} => m.kind \in QueryKinds \cup {"Raw"}
  /\ m.op \in {"Handoff", "ClientData"} => m.kind \in HandoffKinds \cup DataKinds

ValidAddress(m) == m.source \in Public \ {Empty} /\ m.destination.name \in Seq(Public) \ {<<>>}

\* The fields of a position are strings: each has a segment.
OfStrings(m) == m.kind \in {"Pilot", "Atc"} /\ \A i \in 1 .. Len(m.args) : m.args[i] # <<>>

\* A command that a decoder accepted: only a login holds a secret, and only as its password.
ValidCommand(c) ==
  /\ c = Msg(c.op, c.kind, c.source, c.destination, c.args)
  /\ c.op \in AsterTypes \cup {"Pong", "Noop"} /\ ValidAddress(c) /\ ValidKind(c)
  /\ c.op # "Login" => c.args \in Seq(Seq(Public))
  /\ c.op = "Login" => {c.args[1], c.args[3], c.args[6]} \subseteq Seq(Public)
  /\ c.op \in {"Identify", "Position", "WeatherRequest"} => c.args # <<>>
  /\ c.op = "Position" => OfStrings(c)
  /\ c.op = "Kill" => c.destination.name[1] \in Public \ {Empty}

\* An event that every encoder can write.
ValidEvent(e) ==
  /\ e.op \in Routed \cup {"Position", "FlightPlan", "Error", "Welcome", "ClientAdded", "ClientRemoved",
                           "WeatherReport", "WeatherProfile", "WindDelta", "Disconnect"}
  /\ ValidAddress(e) /\ ValidKind(e) /\ e.args \in Seq(Seq(Public))
  /\ e.op = "ClientAdded" => Len(e.args) = 4 /\ \E account \in Accounts : e.args[1] = <<account.id>>
  /\ e.op = "ClientRemoved" => e.args # <<>> /\ e.args[1] # <<>>
  /\ e.op = "Position" => /\ e.args # <<>> /\ (e.kind = "Pilot" => e.args[1][1] \in {"N", "S", "Y"})
                          /\ OfStrings(e) /\ validate(e)
  /\ e.op = "WeatherProfile" => Len(e.args) = 49

\* Where a relayed event comes from: it is the command itself, a position only if it is
\* valid; the filed plan on its way to the controllers or, asked for, to a client; the
\* server's own answer to a ping; or what a VATSIM client is asked and told at its login.
Origin(e, c) ==
  e.op \in Routed \cup {"Position", "FlightPlan"} =>
    \/ e = c /\ c.op # "FlightPlan" /\ (c.op = "Position" => validate(c))
    \/ c.op = "FlightPlan" /\ e = [c EXCEPT !.destination = Atc]
    \/ c.op = "Query" /\ e.op = "FlightPlan"
    \/ c.op = "Ping" /\ c.destination.to = "Server" /\ e = ServerMsg("Pong", c.source, c.args)
    \/ c.op = "Login" /\ e \in vatsim_login_profile(c)

\* The inductive invariant of the relay.
RelayInv ==
  /\ Decoded
  /\ stage = "idle" => result = Nothing
  /\ stage # "done" => outcome = Nothing
  /\ stage \in {"idle", "execute"} => event = Nothing
  /\ stage = "execute" => result # Nothing
  /\ stage = "dispatch" => ValidEvent(event)
  /\ \A plan \in plans : ValidCommand(plan) /\ plan.op = "FlightPlan"
  /\ event # Nothing => ValidEvent(event)
  /\ event # Nothing /\ result # Nothing /\ result.ok => Origin(event, result.value)
  /\ outcome # Nothing =>
       /\ outcome.dialect \in ProtocolDialect
       /\ \/ ValidEvent(event) /\ outcome.frames = encode(outcome.dialect, event)
          \/ event = Nothing /\ outcome.frames = initial_frames(outcome.dialect, "challenge")

-----------------------------------------------------------------------------
(***************************************************************************)
(* The packets of an event are well formed.                                *)
(***************************************************************************)
LEMMA QueryKindDomain ==
  /\ DOMAIN QueryKind = {"RN", "FP", "CAPS", "ATIS", "INF", "ACC"}
  /\ QueryKind["RN"] = "RealName" /\ QueryKind["FP"] = "FlightPlan"
  /\ QueryKind["CAPS"] = "Capabilities" /\ QueryKind["ATIS"] = "Atis"
  /\ QueryKind["INF"] = "SystemInfo" /\ QueryKind["ACC"] = "AircraftConfiguration"
  BY DEF QueryKind

\* The name that is written for a kind of query reads as that kind,
LEMMA QueryNames ==
  ASSUME NEW kind \in QueryKinds
  PROVE  NameOf(QueryKind, kind) \in DOMAIN QueryKind /\ QueryKind[NameOf(QueryKind, kind)] = kind
  <1>1. \E name \in DOMAIN QueryKind : QueryKind[name] = kind
    BY QueryKindDomain DEF QueryKinds
  <1> QED BY <1>1, Zenon DEF NameOf

\* and so does the one of a direct command.
LEMMA DirectNames ==
  ASSUME NEW kind \in HandoffKinds \cup DataKinds
  PROVE  NameOf(DirectKind, kind) \in DOMAIN DirectKind /\ DirectKind[NameOf(DirectKind, kind)] = kind
  <1>1. \E name \in DOMAIN DirectKind : DirectKind[name] = kind
    BY DirectKindDomain DEF HandoffKinds, DataKinds
  <1> QED BY <1>1, Zenon DEF NameOf

\* The words the encoders write of their own accord are public.
LEMMA OwnWords ==
  \A s \in {"server", "SERVER", "CLIENT", "unknown", "*", "*A", "*P", "0", "9", "100", "5", "-1", "METAR",
            "N", "S", "Y"} \cup DOMAIN QueryKind : s \in Public
  BY PublicSegments DEF ServerText

\* A packet with a command of two letters.
LEMMA CommandPacket ==
  ASSUME NEW kind \in {"#", "$", "!", "&", "-"}, NEW command, command # "?", NEW source \in Public \ {Empty},
         NEW name \in Seq(Public) \ {<<>>}, NEW fields \in Seq(Seq(Public))
  PROVE  WellFormed(Packet(kind, command, source, name, fields), Public)
  BY DEF WellFormed, Packet

\* The server's own names.
LEMMA ServerNames == "server" \in Public \ {Empty} /\ "SERVER" \in Public \ {Empty} /\ "CLIENT" \in Public \ {Empty}
  BY OwnWords, EmptyIsNoCommand

\* A single element is a sequence.
LEMMA OneElement ==
  ASSUME NEW S, NEW x \in S
  PROVE  <<x>> \in Seq(S) /\ <<x>> # <<>>
  OBVIOUS

\* encode_presence writes a well-formed packet: no password is in it.
LEMMA PresencePacket ==
  ASSUME NEW e, ValidEvent(e), e.op = "ClientAdded", NEW revision \in {"9", "100"},
         NEW name, name = <<>> \/ name = <<e.args[2]>>
  PROVE  WellFormed(encode_presence(e, revision, name), Public)
  <1>1. e.args \in Seq(Seq(Public)) /\ Len(e.args) = 4 /\ e.source \in Public \ {Empty}
    BY DEF ValidEvent, ValidAddress
  <1>2. PICK id, real, rating, sim : id = e.args[1] /\ real = e.args[2] /\ rating = e.args[3] /\ sim = e.args[4]
    OBVIOUS
  <1>3. id \in Seq(Public) /\ real \in Seq(Public) /\ rating \in Seq(Public) /\ sim \in Seq(Public)
    BY <1>1, <1>2, ElementOfSeq
  <1>4. revision \in Public /\ "SERVER" \in Public /\ Empty \in Public
    BY OwnWords, PublicSegments
  <1>5. <<"SERVER">> \in Seq(Public) \ {<<>>} /\ <<Empty>> \in Seq(Public) /\ <<revision>> \in Seq(Public)
    BY <1>4
  <1>6. <<real, id, <<Empty>>, rating, <<revision>> >> \in Seq(Seq(Public))
    BY <1>3, <1>5
  <1>7. <<id, <<Empty>>, rating, <<revision>>, sim>> \in Seq(Seq(Public))
    BY <1>3, <1>5
  <1>8. name \in Seq(Seq(Public))
    <2>1. <<real>> \in Seq(Seq(Public)) /\ <<>> \in Seq(Seq(Public))
      BY <1>3
    <2> QED BY <1>2, <2>1, Zenon
  <1>9. <<id, <<Empty>>, rating, <<revision>>, sim>> \o name \in Seq(Seq(Public))
    BY <1>7, <1>8, ConcatProperties
  <1>10. encode_presence(e, revision, name) =
           IF e.kind = "Atc" THEN Packet("#", "AA", e.source, <<"SERVER">>, <<real, id, <<Empty>>, rating, <<revision>> >>)
           ELSE Packet("#", "AP", e.source, <<"SERVER">>, <<id, <<Empty>>, rating, <<revision>>, sim>> \o name)
    BY <1>2, Zenon DEF encode_presence
  <1>11. e.kind = "Atc" => WellFormed(encode_presence(e, revision, name), Public)
    BY <1>1, <1>5, <1>6, <1>10, CommandPacket
  <1>12. e.kind # "Atc" => WellFormed(encode_presence(e, revision, name), Public)
    BY <1>1, <1>5, <1>9, <1>10, CommandPacket
  <1> QED BY <1>11, <1>12

\* The conversion that prints a coordinate shows no secret that it was not given.
LEMMA RoundedPublic ==
  ASSUME NEW s \in Public, s \in Longitudes
  PROVE  Rounded[s] \in Public
  <1>1. s \in DOMAIN Rounded
    BY DialectsAssumption, RelayAssumption
  <1>2. s \in DOMAIN Rounded \ Secrets
    BY <1>1 DEF Public
  <1>3. Rounded \in {Upper, Int32, Unsigned, Decimal, Rounded, Squawk, FirstChar}
    OBVIOUS
  <1> QED BY <1>2, <1>3, SecretsAssumption, Zenon

\* The arguments of a valid position, with its coordinates rounded.
LEMMA RoundedArgs ==
  ASSUME NEW e, e.args \in Seq(Seq(Public)), e.args # <<>>, OfStrings(e), validate(e)
  PROVE  with_coordinates(e, Rounded) \in Seq(Seq(Public)) /\ with_coordinates(e, Rounded) # <<>>
  <1>1. PICK args, places : /\ args = e.args /\ places = IF e.kind = "Pilot" THEN {4, 5} ELSE {6, 7}
    OBVIOUS
  <1>2. \A i \in places : args[i][1] \in Longitudes
    <2>1. Latitudes \subseteq Longitudes
      BY RelayAssumption
    <2>2. e.kind = "Pilot" \/ e.kind = "Atc"
      BY DEF OfStrings
    <2>3. CASE e.kind = "Pilot"
      <3>1. args[4][1] \in Latitudes /\ args[5][1] \in Longitudes
        BY <1>1, <2>3, Zenon DEF validate
      <3> QED BY <1>1, <2>1, <2>3, <3>1
    <2>4. CASE e.kind = "Atc"
      <3>1. args[6][1] \in Latitudes /\ args[7][1] \in Longitudes
        BY <1>1, <2>4, Zenon DEF validate
      <3> QED BY <1>1, <2>1, <2>4, <3>1
    <2> QED BY <2>2, <2>3, <2>4
  <1>3. ASSUME NEW i \in 1 .. Len(args), i \in places PROVE <<Rounded[args[i][1]]>> \in Seq(Public)
    <2>1. PICK text : text = args[i]
      OBVIOUS
    <2>a. args \in Seq(Seq(Public)) /\ \A j \in 1 .. Len(args) : args[j] # <<>>
      BY <1>1, Zenon DEF OfStrings
    <2>2. text \in Seq(Public) /\ text # <<>>
      BY <2>1, <2>a, ElementOfSeq
    <2>3. text[1] \in Public
      BY <2>2
    <2>4. Rounded[text[1]] \in Public
      BY <1>2, <1>3, <2>1, <2>3, RoundedPublic, Zenon
    <2> QED BY <2>1, <2>4, OneElement, Zenon
  <1>4. args \in Seq(Seq(Public)) /\ args # <<>>
    BY <1>1
  <1>5. PICK f : f = [i \in 1 .. Len(args) |-> IF i \in places THEN <<Rounded[args[i][1]]>> ELSE args[i]]
    OBVIOUS
  <1>6. with_coordinates(e, Rounded) = f
    BY <1>1, <1>5, Zenon DEF with_coordinates
  <1>7. \A i \in 1 .. Len(args) : f[i] \in Seq(Public)
    <2> TAKE i \in 1 .. Len(args)
    <2>1. args[i] \in Seq(Public)
      BY <1>4
    <2>2. f[i] = IF i \in places THEN <<Rounded[args[i][1]]>> ELSE args[i]
      BY <1>5, Zenon
    <2> QED BY <1>3, <2>1, <2>2, Zenon
  <1>8. DOMAIN f = 1 .. Len(args) /\ Len(args) \in Nat /\ Len(args) # 0
    BY <1>4, <1>5
  <1>9. f \in Seq(Seq(Public)) /\ Len(f) = Len(args)
    BY <1>4, <1>5, <1>7, <1>8
  <1>10. f # <<>>
    BY <1>8, <1>9
  <1> QED BY <1>6, <1>9, <1>10

\* encode_position writes a well-formed packet.
LEMMA PositionPacket ==
  ASSUME NEW e, ValidEvent(e), e.op = "Position"
  PROVE  WellFormed(encode_position(e), Public)
  <1>1. e.args \in Seq(Seq(Public)) /\ e.args # <<>> /\ e.source \in Public \ {Empty}
        /\ (e.kind = "Pilot" => e.args[1][1] \in {"N", "S", "Y"}) /\ OfStrings(e) /\ validate(e)
    BY DEF ValidEvent, ValidAddress
  <1>2. PICK fields : fields = Tail(with_coordinates(e, Rounded))
    OBVIOUS
  <1>a. fields \in Seq(Seq(Public))
    <2>1. PICK args : args = with_coordinates(e, Rounded)
      OBVIOUS
    <2>2. args \in Seq(Seq(Public)) /\ args # <<>>
      BY <1>1, <2>1, RoundedArgs, Zenon
    <2> QED BY <1>2, <2>1, <2>2, FirstAndRest
  <1>3. Empty \in Public /\ <<Empty>> \in Seq(Public) \ {<<>>}
    BY PublicSegments
  <1>4. CASE e.kind = "Pilot"
    <2>1. encode_position(e) = Packet("@", e.args[1][1], e.source, <<Empty>>, fields)
      BY <1>2, <1>4, Zenon DEF encode_position
    <2>2. PICK mode \in {"N", "S", "Y"} : mode = e.args[1][1]
      BY <1>1, <1>4
    <2> QED BY <1>1, <1>a, <1>3, <2>1, <2>2 DEF WellFormed, Packet
  <1>5. CASE e.kind # "Pilot"
    <2>1. encode_position(e) = Packet("%", Empty, e.source, <<Empty>>, fields)
      BY <1>2, <1>5, Zenon DEF encode_position
    <2> QED BY <1>1, <1>a, <1>3, <2>1, EmptyIsNoCommand DEF WellFormed, Packet
  <1> QED BY <1>4, <1>5

\* encode_query writes a well-formed packet.
LEMMA QueryPacket ==
  ASSUME NEW e, ValidEvent(e), e.op \in {"Query", "Response"}
  PROVE  WellFormed(encode_query(e), Public)
  <1>1. e.args \in Seq(Seq(Public)) /\ e.source \in Public \ {Empty}
        /\ e.destination.name \in Seq(Public) \ {<<>>} /\ e.kind \in QueryKinds \cup {"Raw"}
    BY DEF ValidEvent, ValidAddress, ValidKind
  <1>2. PICK fields : fields = IF e.kind = "Raw" THEN e.args ELSE << <<NameOf(QueryKind, e.kind)>> >> \o e.args
    OBVIOUS
  <1>3. fields \in Seq(Seq(Public))
    <2>1. CASE e.kind = "Raw"
      BY <1>1, <1>2, <2>1
    <2>2. CASE e.kind # "Raw"
      <3>1. NameOf(QueryKind, e.kind) \in Public
        BY <1>1, <2>2, QueryNames, OwnWords
      <3>2. PICK name \in Seq(Public) : name = <<NameOf(QueryKind, e.kind)>>
        BY <3>1, OneElement, Zenon
      <3> QED BY <1>1, <1>2, <2>2, <3>2, Prepended
    <2> QED BY <2>1, <2>2
  <1>4. encode_query(e) = Packet("$", IF e.op = "Query" THEN "CQ" ELSE "CR", e.source, e.destination.name, fields)
    BY <1>2, Zenon DEF encode_query
  <1> QED BY <1>1, <1>3, <1>4, CommandPacket

\* encode_routed writes a well-formed packet.
LEMMA RoutedPacket ==
  ASSUME NEW e, ValidEvent(e),
         e.op \in {"Text", "Ping", "Pong", "Handoff", "ClientData", "WeatherReport", "WindDelta", "Disconnect"}
  PROVE  WellFormed(encode_routed(e), Public)
  <1>1. e.args \in Seq(Seq(Public)) /\ e.source \in Public \ {Empty} /\ e.destination.name \in Seq(Public) \ {<<>>}
        /\ (e.op \in {"Handoff", "ClientData"} => e.kind \in HandoffKinds \cup DataKinds)
    BY DEF ValidEvent, ValidAddress, ValidKind
  <1>2. e.op = "Text" => encode_routed(e) = Packet("#", "TM", e.source, e.destination.name, e.args)
    BY Zenon DEF encode_routed
  <1>3. e.op = "Ping" => encode_routed(e) = Packet("$", "PI", e.source, e.destination.name, e.args)
    BY Zenon DEF encode_routed
  <1>4. e.op = "Pong" => encode_routed(e) = Packet("$", "PO", e.source, e.destination.name, e.args)
    BY Zenon DEF encode_routed
  <1>5. e.op = "Handoff" => encode_routed(e) = Packet("$", NameOf(DirectKind, e.kind), e.source, e.destination.name, e.args)
    BY Zenon DEF encode_routed
  <1>6. e.op = "ClientData" =>
          encode_routed(e) = Packet(IF e.kind \in {"SquawkBox", "ProController"} THEN "#" ELSE "$",
                                    NameOf(DirectKind, e.kind), e.source, e.destination.name, e.args)
    BY Zenon DEF encode_routed, encode_client_data
  <1>7. e.op = "WeatherReport" =>
          encode_routed(e) = Packet("$", "AR", e.source, e.destination.name, << <<"METAR">> >> \o e.args)
    BY Zenon DEF encode_routed
  <1>8. e.op = "WindDelta" => encode_routed(e) = Packet("#", "DL", "SERVER", <<"*">>, e.args)
    BY Zenon DEF encode_routed
  <1>9. e.op = "Disconnect" => encode_routed(e) = Packet("$", "!!", "SERVER", e.destination.name, e.args)
    BY Zenon DEF encode_routed
  <1>10. << <<"METAR">> >> \o e.args \in Seq(Seq(Public))
    <2>1. <<"METAR">> \in Seq(Public)
      BY OwnWords, OneElement
    <2> QED BY <1>1, <2>1, Prepended
  <1>11. <<"*">> \in Seq(Public) \ {<<>>}
    BY OwnWords
  <1>12. e.op \in {"Handoff", "ClientData"} => NameOf(DirectKind, e.kind) # "?"
    BY <1>1, DirectNames, DirectKindDomain
  <1>13. e.op \in {"Text", "Ping", "Pong"} => WellFormed(encode_routed(e), Public)
    BY <1>1, <1>2, <1>3, <1>4, CommandPacket
  <1>14. e.op = "Handoff" => WellFormed(encode_routed(e), Public)
    BY <1>1, <1>5, <1>12, CommandPacket
  <1>15. e.op = "ClientData" => WellFormed(encode_routed(e), Public)
    BY <1>1, <1>6, <1>12, CommandPacket
  <1>16. e.op \in {"WeatherReport", "WindDelta", "Disconnect"} => WellFormed(encode_routed(e), Public)
    BY <1>1, <1>7, <1>8, <1>9, <1>10, <1>11, ServerNames, CommandPacket, ZenonT(60)
  <1> QED BY <1>13, <1>14, <1>15, <1>16

\* Part of a sequence.
LEMMA Slice ==
  ASSUME NEW S, NEW s \in Seq(S), NEW m \in 1 .. Len(s), NEW n \in 1 .. Len(s)
  PROVE  SubSeq(s, m, n) \in Seq(S)
  <1>1. \A i \in m .. n : i \in 1 .. Len(s)
    OBVIOUS
  <1>2. \A i \in m .. n : s[i] \in S
    BY <1>1, ElementOfSeq, Zenon
  <1>3. m \in Int /\ n \in Int
    OBVIOUS
  <1> QED BY <1>2, <1>3, SubSeqProperties, Zenon

\* The packets that the classic encoder writes, one by one.
LEMMA ClassicPackets ==
  ASSUME NEW e, ValidEvent(e)
  PROVE  /\ Len(classic_packets(e)) \in Nat
         /\ \A i \in 1 .. Len(classic_packets(e)) : WellFormed(classic_packets(e)[i], Public)
  <1>0. e.args \in Seq(Seq(Public)) /\ e.source \in Public \ {Empty} /\ e.destination.name \in Seq(Public) \ {<<>>}
    BY DEF ValidEvent, ValidAddress
  <1>a. ASSUME NEW p, classic_packets(e) = <<p>>, WellFormed(p, Public)
        PROVE  /\ Len(classic_packets(e)) \in Nat
               /\ \A i \in 1 .. Len(classic_packets(e)) : WellFormed(classic_packets(e)[i], Public)
    <2>1. Len(<<p>>) \in Nat /\ \A i \in 1 .. Len(<<p>>) : <<p>>[i] = p
      OBVIOUS
    <2> QED BY <1>a, <2>1, Zenon
  <1>1. CASE e.op = "WeatherProfile"
    <2>1. classic_packets(e) = encode_profile(e)
      BY <1>1, Zenon DEF classic_packets
    <2>2. Len(e.args) = 49
      BY <1>1 DEF ValidEvent
    <2>3. PICK a, b, c : /\ a = Packet("#", "TD", "server", e.destination.name, SubSeq(e.args, 1, 9))
                         /\ b = Packet("#", "WD", "server", e.destination.name, SubSeq(e.args, 10, 33))
                         /\ c = Packet("#", "CD", "server", e.destination.name, SubSeq(e.args, 34, 49))
      OBVIOUS
    <2>5. WellFormed(a, Public) /\ WellFormed(b, Public) /\ WellFormed(c, Public)
      <3>1. SubSeq(e.args, 1, 9) \in Seq(Seq(Public)) /\ SubSeq(e.args, 10, 33) \in Seq(Seq(Public))
            /\ SubSeq(e.args, 34, 49) \in Seq(Seq(Public))
        <4>1. {1, 9, 10, 33, 34, 49} \subseteq 1 .. Len(e.args)
          BY <2>2
        <4>2. \A m, n \in 1 .. Len(e.args) : SubSeq(e.args, m, n) \in Seq(Seq(Public))
          BY <1>0, Slice, Zenon
        <4> QED BY <4>1, <4>2, Zenon
      <3> QED BY <1>0, <2>3, <3>1, ServerNames, CommandPacket
    <2>6. Len(<<a, b, c>>) \in Nat /\ \A i \in 1 .. Len(<<a, b, c>>) : <<a, b, c>>[i] \in {a, b, c}
      OBVIOUS
    <2>7. classic_packets(e) = <<a, b, c>>
      BY <2>1, <2>3, Zenon DEF encode_profile
    <2> QED BY <2>5, <2>6, <2>7, Zenon
  <1>2. CASE e.op \in {"Error", "Welcome"}
    <2>1. classic_packets(e) = <<encode_status(e)>>
      BY <1>2, Zenon DEF classic_packets
    <2>2. \/ encode_status(e) = Packet("$", "ER", "server", e.destination.name, e.args)
          \/ encode_status(e) = Packet("#", "TM", "server", e.destination.name, e.args)
      BY Zenon DEF encode_status
    <2>3. WellFormed(encode_status(e), Public)
      BY <1>0, <2>2, ServerNames, CommandPacket
    <2> QED BY <1>a, <2>1, <2>3, Zenon
  <1>3. CASE e.op = "ClientAdded"
    <2>1. classic_packets(e) = <<encode_presence(e, "9", <<>>)>>
      BY <1>3, Zenon DEF classic_packets
    <2>2. WellFormed(encode_presence(e, "9", <<>>), Public)
      BY <1>3, PresencePacket
    <2> QED BY <1>a, <2>1, <2>2, Zenon
  <1>4. CASE e.op = "ClientRemoved"
    <2>1. classic_packets(e) = <<encode_removal(e)>>
      BY <1>4, Zenon DEF classic_packets
    <2>2. e.args # <<>> /\ e.args[1] # <<>>
      BY <1>4 DEF ValidEvent
    <2>3. e.args[1] \in Seq(Public) \ {<<>>} /\ <<>> \in Seq(Seq(Public))
      BY <1>0, <2>2, FirstAndRest
    <2>4. \/ encode_removal(e) = Packet("#", "DA", e.source, e.args[1], <<>>)
          \/ encode_removal(e) = Packet("#", "DP", e.source, e.args[1], <<>>)
      BY Zenon DEF encode_removal
    <2>5. WellFormed(encode_removal(e), Public)
      BY <1>0, <2>3, <2>4, CommandPacket
    <2> QED BY <1>a, <2>1, <2>5, Zenon
  <1>5. CASE e.op = "Position"
    <2>1. classic_packets(e) = <<encode_position(e)>>
      BY <1>5, Zenon DEF classic_packets
    <2> QED BY <1>a, <1>5, <2>1, PositionPacket, Zenon
  <1>6. CASE e.op = "FlightPlan"
    <2>1. classic_packets(e) = <<Packet("$", "FP", e.source, e.destination.name, e.args)>>
      BY <1>6, Zenon DEF classic_packets, encode_flight_plan
    <2>2. WellFormed(Packet("$", "FP", e.source, e.destination.name, e.args), Public)
      BY <1>0, CommandPacket
    <2> QED BY <1>a, <2>1, <2>2, Zenon
  <1>7. CASE e.op \in {"Query", "Response"}
    <2>1. classic_packets(e) = <<encode_query(e)>>
      BY <1>7, Zenon DEF classic_packets
    <2> QED BY <1>a, <1>7, <2>1, QueryPacket, Zenon
  <1>8. CASE e.op \in {"Text", "Ping", "Pong", "Handoff", "ClientData", "WeatherReport", "WindDelta", "Disconnect"}
    <2>1. classic_packets(e) = <<encode_routed(e)>>
      BY <1>8, Zenon DEF classic_packets
    <2> QED BY <1>a, <1>8, <2>1, RoutedPacket, Zenon
  <1> QED BY <1>1, <1>2, <1>3, <1>4, <1>5, <1>6, <1>7, <1>8 DEF ValidEvent, Routed

\* What the classic backend writes of a valid event may be sent.
LEMMA ClassicSendable ==
  ASSUME NEW e, ValidEvent(e), classic_encode(e).ok
  PROVE  /\ Len(classic_encode(e).value) \in Nat
         /\ \A i \in 1 .. Len(classic_encode(e).value) : Sendable(classic_encode(e).value[i])
  <1>1. PICK packets : packets = classic_packets(e)
    OBVIOUS
  <1>2. Len(packets) \in Nat /\ \A i \in 1 .. Len(packets) : WellFormed(packets[i], Public)
    BY <1>1, ClassicPackets
  <1>3. classic_encode(e) = frames(packets, CLASSIC_MAX_FRAME_BYTES)
    BY <1>1, Zenon DEF classic_encode
  <1> QED BY <1>2, <1>3, FramesSendable, Zenon

\* So may the frame of one packet.
LEMMA OneSendable ==
  ASSUME NEW p, WellFormed(p, Public), NEW max, frames(<<p>>, max).ok
  PROVE  /\ Len(frames(<<p>>, max).value) \in Nat
         /\ \A i \in 1 .. Len(frames(<<p>>, max).value) : Sendable(frames(<<p>>, max).value[i])
  <1>1. PICK packets : packets = <<p>>
    OBVIOUS
  <1>2. Len(packets) \in Nat /\ \A i \in 1 .. Len(packets) : packets[i] = p
    BY <1>1
  <1> QED BY <1>1, <1>2, FramesSendable, Zenon

\* Whatever is encoded for a classic or a VATSIM peer may be sent.
LEMMA EncodeSendable ==
  ASSUME NEW dialect \in {"Classic", "Vatsim"}, NEW e, ValidEvent(e), encode(dialect, e).ok
  PROVE  /\ Len(encode(dialect, e).value) \in Nat
         /\ \A i \in 1 .. Len(encode(dialect, e).value) : Sendable(encode(dialect, e).value[i])
  <1>1. dialect = "Classic" => encode(dialect, e) = classic_encode(e)
    BY Zenon DEF encode
  <1>2. dialect = "Vatsim" => encode(dialect, e) = vatsim_encode(e)
    BY Zenon DEF encode
  <1>3. e.op # "ClientAdded" => vatsim_encode(e) = classic_encode(e)
    BY Zenon DEF vatsim_encode
  <1>4. ASSUME e.op = "ClientAdded", dialect = "Vatsim"
        PROVE  /\ Len(encode(dialect, e).value) \in Nat
               /\ \A i \in 1 .. Len(encode(dialect, e).value) : Sendable(encode(dialect, e).value[i])
    <2>1. encode(dialect, e) = frames(<<encode_presence(e, "100", <<e.args[2]>>)>>, VATSIM_MAX_FRAME_BYTES)
      BY <1>2, <1>4, Zenon DEF vatsim_encode
    <2>2. WellFormed(encode_presence(e, "100", <<e.args[2]>>), Public)
      BY <1>4, PresencePacket
    <2> QED BY <2>1, <2>2, OneSendable, Zenon
  <1>5. dialect = "Classic" \/ dialect = "Vatsim"
    OBVIOUS
  <1> QED BY <1>1, <1>2, <1>3, <1>4, <1>5, ClassicSendable, Zenon

\* The first frame of a VATSIM listener may be sent, although $DI changes its names.
LEMMA GreetingSendable ==
  ASSUME NEW dialect \in {"Classic", "Vatsim"}, initial_frames(dialect, "challenge").ok
  PROVE  LET sent == initial_frames(dialect, "challenge").value
         IN  Len(sent) \in Nat /\ \A i \in 1 .. Len(sent) : Sendable(sent[i])
  <1>1. CASE dialect = "Classic"
    <2>1. initial_frames(dialect, "challenge") = Ok(<<>>)
      BY <1>1, Zenon DEF initial_frames
    <2>2. initial_frames(dialect, "challenge").value = <<>>
      BY <2>1, OkOrErr, Zenon
    <2> QED BY <2>2
  <1>2. CASE dialect = "Vatsim"
    <2> DEFINE fields == << <<"VATSIM FSD V3.13">>, <<"challenge">> >>
               p == Packet("$", "DI", "CLIENT", <<"SERVER">>, fields)
    <2>1. initial_frames(dialect, "challenge") = frames(<<p>>, VATSIM_MAX_FRAME_BYTES)
      BY <1>2, Zenon DEF initial_frames
    <2>2. "VATSIM FSD V3.13" \in Public /\ "challenge" \in Public /\ "SERVER" \in Public
      BY PublicSegments DEF ServerText
    <2>3. fields \in Seq(Seq(Public)) /\ <<"SERVER">> \in Seq(Public) \ {<<>>}
      <3>1. <<"VATSIM FSD V3.13">> \in Seq(Public) /\ <<"challenge">> \in Seq(Public)
            /\ <<"SERVER">> \in Seq(Public) /\ <<"SERVER">> # <<>>
        BY <2>2, OneElement, Zenon
      <3>2. \A a, b \in Seq(Public) : <<a, b>> \in Seq(Seq(Public))
        OBVIOUS
      <3> QED BY <3>1, <3>2, Zenon
    <2> HIDE DEF fields
    <2>4. WellFormed(p, Public)
      BY <2>3, ServerNames, CommandPacket
    <2> HIDE DEF p
    <2> QED BY <2>1, <2>4, OneSendable, Zenon
  <1> QED BY <1>1, <1>2

-----------------------------------------------------------------------------
(***************************************************************************)
(* What each decoder accepts, and what it makes of it.                     *)
(***************************************************************************)
LEMMA CheckedIff ==
  ASSUME NEW faults, Len(faults) \in Nat, NEW command
  PROVE  /\ Checked(faults, command).ok => \A i \in 1 .. Len(faults) : faults[i] = None
         /\ (\A i \in 1 .. Len(faults) : faults[i] = None) => Checked(faults, command) = Ok(command)
  <1>1. \/ (\A i \in 1 .. Len(faults) : faults[i] = None) /\ Checked(faults, command) = Ok(command)
        \/ \E m \in 1 .. Len(faults) : faults[m] # None /\ Checked(faults, command) = Err(faults[m])
    BY CheckedResult, Zenon
  <1>2. (\A i \in 1 .. Len(faults) : faults[i] = None) => Checked(faults, command) = Ok(command)
    BY CheckedOk, Zenon
  <1> QED BY <1>1, <1>2, OkOrErr, Zenon

\* One check.
LEMMA CheckedOne ==
  ASSUME NEW a, NEW command
  PROVE  /\ Checked(<<a>>, command).ok => a = None
         /\ a = None => Checked(<<a>>, command) = Ok(command)
  <1>1. Len(<<a>>) \in Nat /\ 1 \in 1 .. Len(<<a>>) /\ <<a>>[1] = a /\ \A i \in 1 .. Len(<<a>>) : <<a>>[i] = a
    OBVIOUS
  <1> QED BY <1>1, CheckedIff, Zenon

\* Two checks.
LEMMA CheckedTwo ==
  ASSUME NEW a, NEW b, NEW command
  PROVE  /\ Checked(<<a, b>>, command).ok => a = None /\ b = None
         /\ a = None /\ b = None => Checked(<<a, b>>, command) = Ok(command)
  <1>1. Len(<<a, b>>) \in Nat /\ {1, 2} \subseteq 1 .. Len(<<a, b>>) /\ <<a, b>>[1] = a /\ <<a, b>>[2] = b
        /\ \A i \in 1 .. Len(<<a, b>>) : <<a, b>>[i] = a \/ <<a, b>>[i] = b
    OBVIOUS
  <1> QED BY <1>1, CheckedIff, Zenon

\* Three checks.
LEMMA CheckedThree ==
  ASSUME NEW a, NEW b, NEW c, NEW command
  PROVE  /\ Checked(<<a, b, c>>, command).ok => a = None /\ b = None /\ c = None
         /\ a = None /\ b = None /\ c = None => Checked(<<a, b, c>>, command) = Ok(command)
  <1> DEFINE f == <<a, b, c>>
  <1>1. Len(f) \in Nat /\ {1, 2, 3} \subseteq 1 .. Len(f) /\ f[1] = a /\ f[2] = b /\ f[3] = c
        /\ \A i \in 1 .. Len(f) : f[i] = a \/ f[i] = b \/ f[i] = c
    OBVIOUS
  <1> HIDE DEF f
  <1>2. /\ Checked(f, command).ok => a = None /\ b = None /\ c = None
        /\ a = None /\ b = None /\ c = None => Checked(f, command) = Ok(command)
    BY <1>1, CheckedIff, Zenon
  <1> QED BY <1>2 DEF f

\* Two checks, and those of the columns.
LEMMA CheckedColumns ==
  ASSUME NEW columns \in Seq(ColumnSet), NEW p, NEW a \in FaultSet, NEW b \in FaultSet, NEW command
  PROVE  LET columns_ok == \A i \in 1 .. Len(columns) : column_faults(columns, p)[i] = None
             checked    == Checked(<<a, b>> \o column_faults(columns, p), command)
         IN  /\ checked.ok => a = None /\ b = None /\ columns_ok
             /\ a = None /\ b = None /\ columns_ok => checked = Ok(command)
  <1> DEFINE c == column_faults(columns, p)
             f == <<a, b>> \o c
  <1>1. f \in Seq(FaultSet) /\ Len(f) = Len(columns) + 2 /\ f[1] = a /\ f[2] = b
        /\ \A i \in 1 .. Len(columns) : f[i + 2] = c[i]
    BY TwoThenColumns
  <1> HIDE DEF c, f
  <1>2. Len(columns) \in Nat /\ Len(f) \in Nat
    BY <1>1
  <1>3. (\A i \in 1 .. Len(f) : f[i] = None) => a = None /\ b = None /\ \A i \in 1 .. Len(columns) : c[i] = None
    <2> SUFFICES ASSUME \A i \in 1 .. Len(f) : f[i] = None
                 PROVE  a = None /\ b = None /\ \A i \in 1 .. Len(columns) : c[i] = None
      OBVIOUS
    <2>1. \A i \in 1 .. Len(columns) : i + 2 \in 1 .. Len(f)
      BY <1>1, <1>2
    <2>2. 1 \in 1 .. Len(f) /\ 2 \in 1 .. Len(f)
      BY <1>1, <1>2
    <2> QED BY <1>1, <2>1, <2>2, Zenon
  <1>4. a = None /\ b = None /\ (\A i \in 1 .. Len(columns) : c[i] = None) => \A i \in 1 .. Len(f) : f[i] = None
    <2> SUFFICES ASSUME a = None, b = None, \A i \in 1 .. Len(columns) : c[i] = None, NEW i \in 1 .. Len(f)
                 PROVE  f[i] = None
      OBVIOUS
    <2>1. CASE i = 1 \/ i = 2
      BY <1>1, <2>1
    <2>2. CASE i > 2
      <3>1. i - 2 \in 1 .. Len(columns) /\ (i - 2) + 2 = i
        BY <1>1, <1>2, <2>2
      <3> QED BY <1>1, <3>1
    <2>3. i = 1 \/ i = 2 \/ i > 2
      BY <1>2
    <2> QED BY <2>1, <2>2, <2>3
  <1>5. /\ Checked(f, command).ok => \A i \in 1 .. Len(f) : f[i] = None
        /\ (\A i \in 1 .. Len(f) : f[i] = None) => Checked(f, command) = Ok(command)
    BY <1>2, CheckedIff, Zenon
  <1> QED BY <1>3, <1>4, <1>5, Zenon DEF c, f

\* What it means that a check finds no fault.
LEMMA NoFault ==
  /\ \A value : callsign(value, "InvalidCallsign") = None <=> value \in Callsigns
  /\ \A value : callsign(value, "InvalidSource") = None <=> value \in Callsigns
  /\ \A p, minimum : require_fields(p, minimum) = None <=> Len(p.fields) >= minimum
  /\ \A value : any_destination(value) = None <=> destination(value) # Nowhere
  /\ \A value : direct_destination(value) = None <=> destination(value) # Nowhere /\ destination(value).to = "Direct"
  <1>1. None # Syntax /\ None # InvalidField /\ None # Fault("InvalidField", "InvalidCallsign")
        /\ None # Fault("InvalidField", "InvalidSource")
    BY DEF None, Syntax, InvalidField, Fault
  <1> QED BY <1>1, Zenon DEF callsign, require_fields, any_destination, direct_destination, Unless

\* The segments that the columns of a layout convert.
Convertible(columns, segments) ==
  \A i \in 1 .. Len(columns) : segments[i] \in DOMAIN columns[i].conversion

\* Columns without a fault can be converted.
LEMMA ColumnsNone ==
  ASSUME NEW columns \in Seq(ColumnSet), NEW segments \in Seq(Segment), NEW p, p.fields = Single(segments),
         Len(segments) >= Len(columns)
  PROVE  (\A i \in 1 .. Len(columns) : column_faults(columns, p)[i] = None) <=> Convertible(columns, segments)
  <1>1. /\ Len(p.fields) = Len(segments) /\ Len(segments) \in Nat /\ Len(columns) \in Nat
        /\ \A i \in 1 .. Len(segments) : p.fields[i][1] = segments[i]
    BY SingleType
  <1>2. \A i \in 1 .. Len(columns) : segments[i] \in Segment
    BY <1>1, ElementOfSeq
  <1>3. \A i \in 1 .. Len(columns) : columns[i].fault = None => DOMAIN columns[i].conversion = Segment
    <2> TAKE i \in 1 .. Len(columns)
    <2>1. columns[i] \in ColumnSet
      BY ElementOfSeq
    <2> QED BY <2>1 DEF ColumnSet, AsIs
  <1>4. \A i \in 1 .. Len(columns) :
          column_faults(columns, p)[i] =
            IF i > Len(p.fields) \/ p.fields[i][1] \in DOMAIN columns[i].conversion
            THEN None ELSE columns[i].fault
    BY ColumnFaults
  <1>5. \A i \in 1 .. Len(columns) : ~ (i > Len(p.fields)) /\ p.fields[i][1] = segments[i]
    BY <1>1
  <1> QED BY <1>2, <1>3, <1>4, <1>5, Zenon DEF Convertible

\* decode_text: what is accepted, and the command.
LEMMA DecodeText ==
  ASSUME NEW p
  PROVE  LET accepted == Len(p.fields) >= 1 /\ p.source \in Callsigns /\ destination(p.destination[1]) # Nowhere
         IN  /\ decode_text(p).ok => accepted
             /\ accepted => decode_text(p) =
               Ok(Msg("Text", "Text", Upper[p.source], destination(p.destination[1]), <<join(p.fields)>>))
  <1> DEFINE a == require_fields(p, 1)
             b == callsign(p.source, "InvalidSource")
             c == any_destination(p.destination[1])
             m == Msg("Text", "Text", Upper[p.source], destination(p.destination[1]), <<join(p.fields)>>)
  <1>1. decode_text(p) = Checked(<<a, b, c>>, m)
    BY Zenon DEF decode_text
  <1>2. (a = None /\ b = None /\ c = None) <=>
          (Len(p.fields) >= 1 /\ p.source \in Callsigns /\ destination(p.destination[1]) # Nowhere)
    BY NoFault, Zenon
  <1> HIDE DEF a, b, c, m
  <1>3. /\ Checked(<<a, b, c>>, m).ok => a = None /\ b = None /\ c = None
        /\ a = None /\ b = None /\ c = None => Checked(<<a, b, c>>, m) = Ok(m)
    BY CheckedThree
  <1> QED BY <1>1, <1>2, <1>3, Zenon DEF m

\* decode_ping_pong: what is accepted, and the command.
LEMMA DecodePingPong ==
  ASSUME NEW p
  PROVE  LET accepted == p.source \in Callsigns /\ destination(p.destination[1]) # Nowhere
         IN  /\ decode_ping_pong(p).ok => accepted
             /\ accepted => decode_ping_pong(p) =
               Ok(Msg(IF p.command = "PI" THEN "Ping" ELSE "Pong", "Text", Upper[p.source],
                 destination(p.destination[1]), <<join(p.fields)>>))
  <1> DEFINE a == callsign(p.source, "InvalidSource")
             b == any_destination(p.destination[1])
             m == Msg(IF p.command = "PI" THEN "Ping" ELSE "Pong", "Text", Upper[p.source],
                 destination(p.destination[1]), <<join(p.fields)>>)
  <1>1. decode_ping_pong(p) = Checked(<<a, b>>, m)
    BY Zenon DEF decode_ping_pong
  <1>2. (a = None /\ b = None) <=> (p.source \in Callsigns /\ destination(p.destination[1]) # Nowhere)
    BY NoFault, Zenon
  <1> HIDE DEF a, b, m
  <1>3. /\ Checked(<<a, b>>, m).ok => a = None /\ b = None
        /\ a = None /\ b = None => Checked(<<a, b>>, m) = Ok(m)
    BY CheckedTwo
  <1> QED BY <1>1, <1>2, <1>3, Zenon DEF m

\* decode_kill: what is accepted, and the command.
LEMMA DecodeKill ==
  ASSUME NEW p
  PROVE  LET accepted == Len(p.fields) >= 1 /\ p.source \in Callsigns /\ p.destination[1] \in Callsigns
         IN  /\ decode_kill(p).ok => accepted
             /\ accepted => decode_kill(p) =
               Ok(Msg("Kill", "Text", Upper[p.source], Direct(Upper[p.destination[1]]), <<join(p.fields)>>))
  <1> DEFINE a == require_fields(p, 1)
             b == callsign(p.source, "InvalidSource")
             c == callsign(p.destination[1], "InvalidCallsign")
             m == Msg("Kill", "Text", Upper[p.source], Direct(Upper[p.destination[1]]), <<join(p.fields)>>)
  <1>1. decode_kill(p) = Checked(<<a, b, c>>, m)
    BY Zenon DEF decode_kill
  <1>2. (a = None /\ b = None /\ c = None) <=>
          (Len(p.fields) >= 1 /\ p.source \in Callsigns /\ p.destination[1] \in Callsigns)
    BY NoFault, Zenon
  <1> HIDE DEF a, b, c, m
  <1>3. /\ Checked(<<a, b, c>>, m).ok => a = None /\ b = None /\ c = None
        /\ a = None /\ b = None /\ c = None => Checked(<<a, b, c>>, m) = Ok(m)
    BY CheckedThree
  <1> QED BY <1>1, <1>2, <1>3, Zenon DEF m

\* decode_weather: what is accepted, and the command.
LEMMA DecodeWeather ==
  ASSUME NEW p
  PROVE  LET accepted == Len(p.fields) >= 1 /\ p.source \in Callsigns
         IN  /\ decode_weather(p).ok => accepted
             /\ accepted => decode_weather(p) =
               Ok(IF p.command = "AX" /\ (Len(p.fields) = 1 \/ Upper[p.fields[1][1]] # "METAR")
                  THEN Msg("Noop", "Text", Upper[p.source], Nowhere, <<>>)
                  ELSE Msg("WeatherRequest", IF p.command = "AX" THEN "Raw" ELSE "Parsed", Upper[p.source], Nowhere,
                           << <<Upper[p.fields[IF p.command = "AX" THEN 2 ELSE 1][1]]>> >>))
  <1> DEFINE a == require_fields(p, 1)
             b == callsign(p.source, "InvalidSource")
             m == IF p.command = "AX" /\ (Len(p.fields) = 1 \/ Upper[p.fields[1][1]] # "METAR")
                  THEN Msg("Noop", "Text", Upper[p.source], Nowhere, <<>>)
                  ELSE Msg("WeatherRequest", IF p.command = "AX" THEN "Raw" ELSE "Parsed", Upper[p.source], Nowhere,
                           << <<Upper[p.fields[IF p.command = "AX" THEN 2 ELSE 1][1]]>> >>)
  <1>1. decode_weather(p) = Checked(<<a, b>>, m)
    BY Zenon DEF decode_weather
  <1>2. (a = None /\ b = None) <=> (Len(p.fields) >= 1 /\ p.source \in Callsigns)
    BY NoFault, Zenon
  <1> HIDE DEF a, b, m
  <1>3. /\ Checked(<<a, b>>, m).ok => a = None /\ b = None
        /\ a = None /\ b = None => Checked(<<a, b>>, m) = Ok(m)
    BY CheckedTwo
  <1> QED BY <1>1, <1>2, <1>3, Zenon DEF m

\* decode_direct_client_command: what is accepted, and the command.
LEMMA DecodeDirect ==
  ASSUME NEW p
  PROVE  LET accepted ==
               /\ Len(p.fields) >= (IF p.command \in {"HO", "HA", "CI"} THEN 1 ELSE 0)
               /\ p.source \in Callsigns
               /\ destination(p.destination[1]) # Nowhere /\ destination(p.destination[1]).to = "Direct"
         IN  /\ decode_direct_client_command(p).ok => accepted
             /\ accepted => decode_direct_client_command(p) =
               Ok(Msg(IF p.command \in {"HO", "HA"} THEN "Handoff" ELSE "ClientData",
                 DirectKind[p.command], Upper[p.source], destination(p.destination[1]), p.fields))
  <1> DEFINE a == require_fields(p, IF p.command \in {"HO", "HA", "CI"} THEN 1 ELSE 0)
             b == callsign(p.source, "InvalidSource")
             c == direct_destination(p.destination[1])
             m == Msg(IF p.command \in {"HO", "HA"} THEN "Handoff" ELSE "ClientData",
                 DirectKind[p.command], Upper[p.source], destination(p.destination[1]), p.fields)
  <1>1. decode_direct_client_command(p) = Checked(<<a, b, c>>, m)
    BY Zenon DEF decode_direct_client_command
  <1>2. (a = None /\ b = None /\ c = None) <=>
          (/\ Len(p.fields) >= (IF p.command \in {"HO", "HA", "CI"} THEN 1 ELSE 0)
           /\ p.source \in Callsigns
           /\ destination(p.destination[1]) # Nowhere /\ destination(p.destination[1]).to = "Direct")
    BY NoFault, Zenon
  <1> HIDE DEF a, b, c, m
  <1>3. /\ Checked(<<a, b, c>>, m).ok => a = None /\ b = None /\ c = None
        /\ a = None /\ b = None /\ c = None => Checked(<<a, b, c>>, m) = Ok(m)
    BY CheckedThree
  <1> QED BY <1>1, <1>2, <1>3, Zenon DEF m

\* decode_query_response: what is accepted, and the command.
LEMMA DecodeQueryResponse ==
  ASSUME NEW p
  PROVE  LET accepted ==
               /\ Len(p.fields) >= (IF p.command = "CR" THEN 2 ELSE 1) /\ p.source \in Callsigns
               /\ destination(p.destination[1]) # Nowhere
               /\ (p.command = "CR" => destination(p.destination[1]).to = "Direct")
         IN  /\ decode_query_response(p).ok => accepted
             /\ accepted => decode_query_response(p) =
               Ok(Msg(IF p.command = "CR" THEN "Response" ELSE "Query", query_kind(p.fields[1][1]),
                 Upper[p.source], destination(p.destination[1]),
                 IF query_kind(p.fields[1][1]) = "Raw" THEN p.fields ELSE Tail(p.fields)))
  <1> DEFINE a == require_fields(p, IF p.command = "CR" THEN 2 ELSE 1)
             b == callsign(p.source, "InvalidSource")
             c == IF p.command = "CR" THEN direct_destination(p.destination[1])
                  ELSE any_destination(p.destination[1])
             m == Msg(IF p.command = "CR" THEN "Response" ELSE "Query", query_kind(p.fields[1][1]),
                 Upper[p.source], destination(p.destination[1]),
                 IF query_kind(p.fields[1][1]) = "Raw" THEN p.fields ELSE Tail(p.fields))
  <1>1. decode_query_response(p) = Checked(<<a, b, c>>, m)
    BY Zenon DEF decode_query_response
  <1>2. (a = None /\ b = None /\ c = None) <=>
          (/\ Len(p.fields) >= (IF p.command = "CR" THEN 2 ELSE 1) /\ p.source \in Callsigns
           /\ destination(p.destination[1]) # Nowhere
           /\ (p.command = "CR" => destination(p.destination[1]).to = "Direct"))
    BY NoFault, Zenon
  <1> HIDE DEF a, b, c, m
  <1>3. /\ Checked(<<a, b, c>>, m).ok => a = None /\ b = None /\ c = None
        /\ a = None /\ b = None /\ c = None => Checked(<<a, b, c>>, m) = Ok(m)
    BY CheckedThree
  <1> QED BY <1>1, <1>2, <1>3, Zenon DEF m

\* A packet as parse leaves it: single segments, and one destination.
Read(p, segments, to) ==
  /\ p.fields = Single(segments) /\ segments \in Seq(Segment)
  /\ p.source \in Segment /\ p.destination = <<to>> /\ to \in Segment

\* decode_flight_plan: what is accepted, and the command.
LEMMA DecodeFlightPlan ==
  ASSUME NEW p, NEW segments, NEW to, Read(p, segments, to)
  PROVE  LET accepted == /\ Len(segments) >= 15 /\ p.source \in Callsigns
                         /\ Convertible(PlanColumns, segments)
         IN  /\ decode_flight_plan(p).ok => accepted
             /\ accepted => decode_flight_plan(p) = Ok(Msg("FlightPlan", "Plan", Upper[p.source], Nowhere,
                                                           converted(PlanColumns, p)))
  <1> DEFINE a == require_fields(p, Len(PlanColumns))
             b == callsign(p.source, "InvalidSource")
             c == Msg("FlightPlan", "Plan", Upper[p.source], Nowhere, converted(PlanColumns, p))
             columns_ok == \A i \in 1 .. Len(PlanColumns) : column_faults(PlanColumns, p)[i] = None
  <1>1. decode_flight_plan(p) = Checked(<<a, b>> \o column_faults(PlanColumns, p), c)
    BY Zenon DEF decode_flight_plan
  <1>2. PlanColumns \in Seq(ColumnSet) /\ Len(PlanColumns) = 15
    BY LayoutType
  <1>3. segments \in Seq(Segment) /\ p.fields = Single(segments) /\ Len(p.fields) = Len(segments)
    BY SingleType DEF Read
  <1>4. /\ decode_flight_plan(p).ok => a = None /\ b = None /\ columns_ok
        /\ a = None /\ b = None /\ columns_ok => decode_flight_plan(p) = Ok(c)
    <2>1. a \in FaultSet /\ b \in FaultSet
      BY FaultTypes, Zenon
    <2> HIDE DEF a, b, c, columns_ok
    <2>2. /\ Checked(<<a, b>> \o column_faults(PlanColumns, p), c).ok => a = None /\ b = None /\ columns_ok
          /\ a = None /\ b = None /\ columns_ok =>
               Checked(<<a, b>> \o column_faults(PlanColumns, p), c) = Ok(c)
      BY <1>2, <2>1, CheckedColumns, ZenonT(60) DEF columns_ok
    <2> QED BY <1>1, <2>2, Zenon
  <1>5. (a = None <=> Len(segments) >= 15) /\ (b = None <=> p.source \in Callsigns)
    BY <1>2, <1>3, NoFault, Zenon
  <1>6. Len(segments) >= 15 => (columns_ok <=> Convertible(PlanColumns, segments))
    <2>1. Len(segments) >= Len(PlanColumns) => (columns_ok <=> Convertible(PlanColumns, segments))
      BY <1>2, <1>3, ColumnsNone, Zenon
    <2> QED BY <1>2, <2>1, Zenon
  <1> QED BY <1>4, <1>5, <1>6, Zenon

\* decode_position: what is accepted, and the command.
LEMMA DecodePosition ==
  ASSUME NEW p, NEW segments, NEW to, Read(p, segments, to)
  PROVE  LET pilot    == p.kind = "@"
             columns  == IF pilot THEN PilotColumns ELSE AtcColumns
             accepted == /\ Len(segments) >= Len(columns) /\ p.source \in Callsigns
                         /\ Convertible(columns, segments)
         IN  /\ decode_position(p).ok => accepted
             /\ accepted => decode_position(p) =
                              Ok(Msg("Position", IF pilot THEN "Pilot" ELSE "Atc", Upper[p.source], Nowhere,
                                     << <<p.command>> >> \o converted(columns, p)))
  <1> DEFINE pilot   == p.kind = "@"
             columns == IF pilot THEN PilotColumns ELSE AtcColumns
             a == callsign(p.source, "InvalidSource")
             b == require_fields(p, Len(columns))
             c == Msg("Position", IF pilot THEN "Pilot" ELSE "Atc", Upper[p.source], Nowhere,
                      << <<p.command>> >> \o converted(columns, p))
             columns_ok == \A i \in 1 .. Len(columns) : column_faults(columns, p)[i] = None
  <1>1. decode_position(p) = Checked(<<a, b>> \o column_faults(columns, p), c)
    BY Zenon DEF decode_position
  <1>2. columns \in Seq(ColumnSet)
    BY LayoutType, Zenon
  <1>3. segments \in Seq(Segment) /\ p.fields = Single(segments) /\ Len(p.fields) = Len(segments)
    BY SingleType DEF Read
  <1> HIDE DEF columns, pilot
  <1>4. /\ decode_position(p).ok => a = None /\ b = None /\ columns_ok
        /\ a = None /\ b = None /\ columns_ok => decode_position(p) = Ok(c)
    <2>1. a \in FaultSet /\ b \in FaultSet
      BY FaultTypes, Zenon
    <2> HIDE DEF a, b, c, columns_ok
    <2>2. /\ Checked(<<a, b>> \o column_faults(columns, p), c).ok => a = None /\ b = None /\ columns_ok
          /\ a = None /\ b = None /\ columns_ok =>
               Checked(<<a, b>> \o column_faults(columns, p), c) = Ok(c)
      BY <1>2, <2>1, CheckedColumns DEF columns_ok
    <2> QED BY <1>1, <2>2, Zenon
  <1>5. (b = None <=> Len(segments) >= Len(columns)) /\ (a = None <=> p.source \in Callsigns)
    BY <1>3, NoFault, Zenon
  <1>6. Len(segments) >= Len(columns) => (columns_ok <=> Convertible(columns, segments))
    BY <1>2, <1>3, ColumnsNone, Zenon
  <1> QED BY <1>4, <1>5, <1>6, Zenon DEF columns, pilot

\* A conversion yields a segment, and shows no secret that it was not given.
LEMMA ConvertTypes ==
  ASSUME NEW f \in Conversions, NEW s \in DOMAIN f
  PROVE  /\ s \in Segment /\ f[s] \in DOMAIN f /\ f[f[s]] = f[s] /\ f[s] \in Segment
         /\ s \in Public => f[s] \in Public
  <1>1. CASE f = AsIs
    BY <1>1 DEF AsIs
  <1>2. CASE f # AsIs
    <2>1. f \in {Upper, Int32, Unsigned, Decimal, Rounded, Squawk, FirstChar}
      BY <1>2 DEF Conversions
    <2>2. Canonical(f)
      BY <2>1, DialectsAssumption, Zenon
    <2>3. s \in DOMAIN f \ Secrets => f[s] \in Public
      BY <2>1, SecretsAssumption, Zenon
    <2> QED BY <2>2, <2>3 DEF Canonical, Public
  <1> QED BY <1>1, <1>2

\* A name in upper case is a segment, and a callsign remains one.
LEMMA UpperTypes ==
  ASSUME NEW s \in Segment
  PROVE  /\ Upper[s] \in Segment /\ Upper[Upper[s]] = Upper[s]
         /\ s \in Public => Upper[s] \in Public
         /\ s \in Callsigns => Upper[s] \in Callsigns /\ Upper[s] # Empty
  <1>1. Canonical(Upper) /\ DOMAIN Upper = Segment
    BY DialectsAssumption, Zenon
  <1>2. \A x \in Segment : x \notin Secrets => Upper[x] \in Public
    BY <1>1, SecretsAssumption
  <1>3. s \in Callsigns => Upper[s] \in Callsigns /\ Upper[s] # Empty
    BY DialectsAssumption
  <1> QED BY <1>1, <1>2, <1>3 DEF Canonical, Public

\* Converting the fields of a layout gives single segments, which convert to themselves.
LEMMA ConvertedSegments ==
  ASSUME NEW columns \in Seq(ColumnSet), NEW p, NEW segments, NEW to, Read(p, segments, to),
         Len(segments) >= Len(columns), Convertible(columns, segments)
  PROVE  LET values == [i \in 1 .. Len(columns) |-> columns[i].conversion[segments[i]]]
         IN  /\ converted(columns, p) = Single(values) /\ values \in Seq(Segment) /\ Len(values) = Len(columns)
             /\ \A i \in 1 .. Len(columns) : values[i] \in DOMAIN columns[i].conversion
                                             /\ columns[i].conversion[values[i]] = values[i]
             /\ segments \in Seq(Public) => values \in Seq(Public)
  <1> DEFINE values == [i \in 1 .. Len(columns) |-> columns[i].conversion[segments[i]]]
  <1>1. /\ Len(p.fields) = Len(segments) /\ Len(segments) \in Nat /\ Len(columns) \in Nat
        /\ \A i \in 1 .. Len(segments) : p.fields[i][1] = segments[i]
    BY SingleType DEF Read
  <1>2. \A i \in 1 .. Len(columns) : columns[i].conversion \in Conversions
    <2> TAKE i \in 1 .. Len(columns)
    <2>1. columns[i] \in ColumnSet
      BY ElementOfSeq
    <2> QED BY <2>1 DEF ColumnSet
  <1>3. \A i \in 1 .. Len(columns) : LET f == columns[i].conversion
          IN  /\ values[i] \in Segment /\ values[i] \in DOMAIN f /\ f[values[i]] = values[i]
              /\ segments[i] \in Public => values[i] \in Public
    BY <1>2, ConvertTypes, Zenon DEF Convertible
  <1>4. values \in Seq(Segment) /\ Len(values) = Len(columns)
    BY <1>1, <1>3
  <1>5. segments \in Seq(Public) => values \in Seq(Public)
    <2> SUFFICES ASSUME segments \in Seq(Public) PROVE values \in Seq(Public)
      OBVIOUS
    <2>1. \A i \in 1 .. Len(columns) : segments[i] \in Public
      BY <1>1, ElementOfSeq
    <2>2. \A i \in 1 .. Len(columns) : values[i] \in Public
      BY <1>3, <2>1, Zenon
    <2> QED BY <1>1, <2>2
  <1>6. converted(columns, p) = Single(values)
    <2>1. \A i \in 1 .. Len(columns) : columns[i].conversion[p.fields[i][1]] = values[i]
      BY <1>1
    <2>2. converted(columns, p) = [i \in 1 .. Len(columns) |-> <<values[i]>>]
      <3> HIDE DEF values
      <3> QED BY <2>1 DEF converted
    <2> HIDE DEF values
    <2> QED BY <1>4, <2>2 DEF Single
  <1> QED BY <1>3, <1>4, <1>5, <1>6, Zenon

-----------------------------------------------------------------------------
(***************************************************************************)
(* A command that is accepted is valid.                                    *)
(***************************************************************************)
CommandOps == AsterTypes \cup {"Pong", "Noop"}

\* How a valid command is made.
LEMMA ValidMsg ==
  ASSUME NEW op \in CommandOps \ {"Login"}, NEW kind, NEW source \in Public \ {Empty},
         NEW to, to.name \in Seq(Public) \ {<<>>}, NEW args \in Seq(Seq(Public)),
         op \in {"Identify", "Position", "WeatherRequest"} => args # <<>>,
         op = "Position" => kind \in {"Pilot", "Atc"} /\ \A i \in 1 .. Len(args) : args[i] # <<>>,
         op \in {"Query", "Response"} => kind \in QueryKinds \cup {"Raw"},
         op \in {"Handoff", "ClientData"} => kind \in HandoffKinds \cup DataKinds,
         op = "Kill" => to.name[1] \in Public \ {Empty}
  PROVE  ValidCommand(Msg(op, kind, source, to, args))
  <1> DEFINE c == Msg(op, kind, source, to, args)
  <1>1. c.op = op /\ c.kind = kind /\ c.source = source /\ c.destination = to /\ c.args = args
    BY DEF Msg
  <1>2. c = Msg(c.op, c.kind, c.source, c.destination, c.args)
    BY <1>1
  <1> HIDE DEF c
  <1>3. ValidAddress(c) /\ ValidKind(c)
    BY <1>1 DEF ValidAddress, ValidKind
  <1>4. ValidCommand(c)
    BY <1>1, <1>2, <1>3 DEF ValidCommand, CommandOps, OfStrings
  <1> QED BY <1>4 DEF c

\* The names of the destinations.
LEMMA DestinationNames ==
  /\ Nowhere.name = <<Empty>> /\ Server.name = <<"SERVER">> /\ Atc.name = <<"*A">>
  /\ \A who, name : To(who, name).name = name /\ To(who, name).to = who
  /\ \A s : Direct(s).name = <<s>> /\ Direct(s).to = "Direct"
  BY DEF Nowhere, Server, Atc, Direct, To

\* A destination shows no secret that it was not given.
LEMMA DestinationType ==
  /\ Nowhere.name \in Seq(Public) \ {<<>>}
  /\ \A s \in Public : Direct(s).name \in Seq(Public) \ {<<>>}
  /\ \A s \in Public : destination(s).name \in Seq(Public) \ {<<>>}
  <1>1. Nowhere.name \in Seq(Public) \ {<<>>}
    BY DestinationNames, PublicSegments
  <1>2. \A s \in Public : Direct(s).name \in Seq(Public) \ {<<>>}
    <2>1. \A s \in Public : <<s>> \in Seq(Public) \ {<<>>}
      OBVIOUS
    <2> QED BY <2>1, DestinationNames, Zenon
  <1>3. ASSUME NEW s \in Public PROVE destination(s).name \in Seq(Public) \ {<<>>}
    <2>1. \/ destination(s) \in {Server, Atc, Nowhere, To("All", <<"*">>), To("Pilots", <<"*P">>), To("Range", <<s>>)}
          \/ destination(s) = Direct(Upper[s])
      BY Zenon DEF destination
    <2>2. Upper[s] \in Public
      BY UpperTypes, PublicSegments
    <2>3. /\ <<"SERVER">> \in Seq(Public) \ {<<>>} /\ <<"*A">> \in Seq(Public) \ {<<>>}
          /\ <<"*">> \in Seq(Public) \ {<<>>} /\ <<"*P">> \in Seq(Public) \ {<<>>} /\ <<s>> \in Seq(Public) \ {<<>>}
      BY OwnWords
    <2>4. \A d \in {Server, Atc, Nowhere, To("All", <<"*">>), To("Pilots", <<"*P">>), To("Range", <<s>>)} :
            d.name \in Seq(Public) \ {<<>>}
      <3>1. /\ Server.name \in Seq(Public) \ {<<>>} /\ Atc.name \in Seq(Public) \ {<<>>}
            /\ To("All", <<"*">>).name \in Seq(Public) \ {<<>>} /\ To("Pilots", <<"*P">>).name \in Seq(Public) \ {<<>>}
            /\ To("Range", <<s>>).name \in Seq(Public) \ {<<>>}
        BY <2>3, DestinationNames, ZenonT(60)
      <3> QED BY <1>1, <3>1, Zenon
    <2>5. Direct(Upper[s]).name \in Seq(Public) \ {<<>>}
      BY <1>2, <2>2, Zenon
    <2> QED BY <2>1, <2>4, <2>5, Zenon
  <1> QED BY <1>1, <1>2, <1>3

\* The kinds of packets, and the commands of positions.
Kinded(p) ==
  /\ p.kind \in {"@", "%", "#", "$", "!", "&", "-"}
  /\ p.kind = "@" => p.command \in {"N", "S", "Y"}
  /\ p.kind = "%" => p.command = Empty

\* What is secret in a packet of an inbound frame: the password of a login.
LEMMA InboundPacket ==
  ASSUME NEW frame \in Inbound["Classic"] \cup Inbound["Vatsim"], parse(frame).ok,
         NEW p, p = parse(frame).value
  PROVE  \E segments, to :
           /\ Read(p, segments, to) /\ Kinded(p) /\ p.source \in Public /\ to \in Public
           /\ \A i \in 1 .. Len(segments) :
                segments[i] \in Secrets => (p.command = "AA" /\ i = 3) \/ (p.command = "AP" /\ i = 2)
  <1>1. IsFrame(frame)
    BY RelayAssumption
  <1>2. /\ frame.head \in Public /\ frame.rest \in Seq(Segment)
        /\ \A i \in 1 .. Len(frame.rest) : frame.rest[i] \in Secrets => i \in PasswordField(frame)
    BY <1>1, SecretsAssumption DEF IsFrame
  <1>3. Empty \in Public /\ Empty \in Segment
    BY PublicSegments
  <1>4. CASE frame.prefix \in {"@", "%"}
    <2>1. PasswordField(frame) = {}
      BY <1>4 DEF PasswordField
    <2>2. frame.rest \in Seq(Public)
      <3>1. \A i \in 1 .. Len(frame.rest) : frame.rest[i] \in Segment
        BY <1>2, ElementOfSeq
      <3>2. \A i \in 1 .. Len(frame.rest) : frame.rest[i] \in Public
        BY <1>2, <2>1, <3>1 DEF Public
      <3> QED BY <1>2, <3>2
    <2>3. PICK source \in Public, segments \in Seq(Public) :
            /\ parse(frame) = Ok(Packet(frame.prefix, frame.command, source, <<Empty>>, Single(segments)))
            /\ frame.prefix = "@" => frame.command \in {"N", "S", "Y"}
            /\ frame.prefix = "%" => frame.command = Empty
      <3>1. CASE frame.prefix = "@"
        <4>1. PICK source \in Segment \ {Empty}, segments \in Seq(Segment) :
                /\ parse(frame) = Ok(Packet("@", frame.command, source, <<Empty>>, Single(segments)))
                /\ IF frame.head = Empty THEN frame.rest = <<source>> \o segments
                   ELSE frame.head = source /\ frame.rest = segments
          BY <1>1, <3>1, ParsedPilot
        <4>2. frame.command \in {"N", "S", "Y"}
          BY <1>1, <3>1, ParsedPilot
        <4>3. source \in Public /\ segments \in Seq(Public)
          <5>1. CASE frame.head # Empty
            BY <1>2, <2>2, <4>1, <5>1
          <5>2. CASE frame.head = Empty
            <6>1. frame.rest = <<source>> \o segments
              BY <4>1, <5>2
            <6>2. source \in Segment
              OBVIOUS
            <6>3. frame.rest # <<>> /\ frame.rest[1] = source /\ Tail(frame.rest) = segments
              <7>1. <<source>> \o segments # <<>> /\ (<<source>> \o segments)[1] = source
                BY <6>2, Prepended
              <7>2. Tail(<<source>> \o segments) = segments
                BY <6>2, PrependedTail
              <7> QED BY <6>1, <7>1, <7>2, Zenon
            <6> QED BY <2>2, <6>3, FirstAndRest
          <5> QED BY <5>1, <5>2
        <4> QED BY <3>1, <4>1, <4>2, <4>3
      <3>2. CASE frame.prefix = "%"
        <4>1. frame.command = Empty
              /\ parse(frame) = Ok(Packet("%", Empty, frame.head, <<Empty>>, Single(frame.rest)))
          BY <1>1, <3>2, ParsedAtc
        <4> QED BY <1>2, <2>2, <3>2, <4>1
      <3> QED BY <1>4, <3>1, <3>2
    <2>4. p = Packet(frame.prefix, frame.command, source, <<Empty>>, Single(segments))
      BY <2>3, OkOrErr, Zenon
    <2>5. p.kind = frame.prefix /\ p.command = frame.command /\ p.source = source
          /\ p.destination = <<Empty>> /\ p.fields = Single(segments)
      BY <2>4 DEF Packet
    <2>6. segments \in Seq(Segment) /\ source \in Segment
      BY SeqMonotonic, PublicSegments
    <2>7. Read(p, segments, Empty)
      BY <1>3, <2>5, <2>6 DEF Read
    <2>8. \A i \in 1 .. Len(segments) : segments[i] \notin Secrets
      BY ElementOfSeq DEF Public
    <2> QED BY <1>3, <1>4, <2>3, <2>5, <2>7, <2>8 DEF Kinded
  <1>5. CASE frame.prefix \in {"#", "$", "!", "&", "-"}
    <2>1. PICK second \in Segment, segments \in Seq(Segment) :
              /\ parse(frame) =
                   IF frame.command = "DI"
                   THEN Ok(Packet(frame.prefix, "DI", second, <<frame.head>>, Single(segments)))
                   ELSE Ok(Packet(frame.prefix, frame.command, frame.head, <<second>>, Single(segments)))
              /\ frame.rest = <<second>> \o segments
      BY <1>1, <1>5, ParsedCommand
    <2>2. \A i \in PasswordField(frame) : (frame.command = "AA" /\ i = 4) \/ (frame.command = "AP" /\ i = 3)
      BY DEF PasswordField
    <2>3. /\ Len(frame.rest) = Len(segments) + 1 /\ Len(segments) \in Nat /\ frame.rest[1] = second
          /\ \A i \in 1 .. Len(segments) : frame.rest[i + 1] = segments[i]
      BY <2>1
    <2>4. second \in Public
      BY <1>2, <2>2, <2>3, SMTT(40) DEF Public
    <2>5. \A i \in 1 .. Len(segments) :
            segments[i] \in Secrets => (frame.command = "AA" /\ i = 3) \/ (frame.command = "AP" /\ i = 2)
      <3> SUFFICES ASSUME NEW i \in 1 .. Len(segments), segments[i] \in Secrets
                   PROVE  (frame.command = "AA" /\ i = 3) \/ (frame.command = "AP" /\ i = 2)
        OBVIOUS
      <3>1. i + 1 \in 1 .. Len(frame.rest) /\ frame.rest[i + 1] \in Secrets
        BY <2>3
      <3>2. i + 1 \in PasswordField(frame)
        BY <1>2, <3>1
      <3>3. (frame.command = "AA" /\ i + 1 = 4) \/ (frame.command = "AP" /\ i + 1 = 3)
        BY <2>2, <3>2
      <3> QED BY <3>3
    <2>6. frame.head \in Segment
      BY <1>2 DEF Public
    <2>7. CASE frame.command = "DI"
      <3>1. p = Packet(frame.prefix, "DI", second, <<frame.head>>, Single(segments))
        BY <2>1, <2>7, OkOrErr, Zenon
      <3>2. p.kind = frame.prefix /\ p.command = "DI" /\ p.source = second
            /\ p.destination = <<frame.head>> /\ p.fields = Single(segments)
        BY <3>1 DEF Packet
      <3>3. Read(p, segments, frame.head)
        BY <2>6, <3>2 DEF Read
      <3> QED BY <1>2, <1>5, <2>4, <2>5, <2>7, <3>2, <3>3 DEF Kinded
    <2>8. CASE frame.command # "DI"
      <3>1. p = Packet(frame.prefix, frame.command, frame.head, <<second>>, Single(segments))
        BY <2>1, <2>8, OkOrErr, Zenon
      <3>2. p.kind = frame.prefix /\ p.command = frame.command /\ p.source = frame.head
            /\ p.destination = <<second>> /\ p.fields = Single(segments)
        BY <3>1 DEF Packet
      <3>3. Read(p, segments, second)
        BY <2>6, <3>2 DEF Read
      <3> QED BY <1>2, <1>5, <2>4, <2>5, <3>2, <3>3 DEF Kinded
    <2> QED BY <2>7, <2>8
  <1> QED BY <1>1, <1>4, <1>5, ParsedPrefix

\* The joined fields of a packet.
LEMMA JoinedFields ==
  ASSUME NEW S, Empty \in S, NEW segments \in Seq(S)
  PROVE  LET joined == join(Single(segments))
         IN  /\ joined = (IF segments = <<>> THEN <<Empty>> ELSE segments)
             /\ joined \in Seq(S) /\ <<joined>> \in Seq(Seq(S))
  <1>1. PICK joined : joined = IF segments = <<>> THEN <<Empty>> ELSE segments
    OBVIOUS
  <1>2. join(Single(segments)) = joined
    <2>1. Single(segments) = <<>> <=> segments = <<>>
      BY SingleType
    <2>2. FlattenSeq(Single(segments)) = segments
      BY FlattenSingle
    <2> QED BY <1>1, <2>1, <2>2, Zenon DEF join
  <1>3. joined \in Seq(S)
    BY <1>1
  <1>4. <<joined>> \in Seq(Seq(S))
    BY <1>3
  <1> QED BY <1>1, <1>2, <1>3, <1>4, Zenon

\* The decoder of each command; a command of no decoder is refused.
LEMMA DecodePacketCases ==
  ASSUME NEW p, Kinded(p)
  PROVE  /\ p.kind \in {"@", "%"} => decode_packet(p) = decode_position(p)
         /\ p.kind \in {"#", "$", "!", "&", "-"} =>
              /\ p.command \in {"CQ", "CR"} => decode_packet(p) = decode_query_response(p)
              /\ p.command \in {"WX", "AX"} => decode_packet(p) = decode_weather(p)
              /\ p.command \in DOMAIN DirectKind => decode_packet(p) = decode_direct_client_command(p)
              /\ p.command \in {"AA", "AP"} => decode_packet(p) = decode_login(p)
              /\ p.command \in {"DA", "DP"} =>
                   decode_packet(p) = Checked(<<callsign(p.source, "InvalidSource")>>,
                                              Msg("Logoff", "Text", Upper[p.source], Nowhere, <<>>))
              /\ p.command = "TM" => decode_packet(p) = decode_text(p)
              /\ p.command = "FP" => decode_packet(p) = decode_flight_plan(p)
              /\ p.command \in {"PI", "PO"} => decode_packet(p) = decode_ping_pong(p)
              /\ p.command = "!!" => decode_packet(p) = decode_kill(p)
              /\ p.command \notin {"CQ", "CR", "WX", "AX", "AA", "AP", "DA", "DP", "TM", "FP", "PI", "PO", "!!"}
                                    \cup DOMAIN DirectKind =>
                   decode_packet(p) = Err(Fault("Unsupported", "Syntax"))
  <1>0. DOMAIN DirectKind = {"HO", "HA", "SB", "PC", "CI", "C?"}
    BY DirectKindDomain
  <1>1. ASSUME p.kind \in {"@", "%"} PROVE decode_packet(p) = decode_position(p)
    <2>1. p.command \notin {"CQ", "CR", "WX", "AX", "AA", "AP", "DA", "DP", "TM", "FP", "PI", "PO", "!!"}
          /\ p.command \notin DOMAIN DirectKind
      BY <1>0, <1>1, EmptyIsNoCommand DEF Kinded
    <2> QED BY <1>1, <2>1, Zenon DEF decode_packet
  <1>2. ASSUME p.kind \in {"#", "$", "!", "&", "-"} PROVE p.kind \notin {"@", "%"}
    BY <1>2
  <1>3. ASSUME p.kind \in {"#", "$", "!", "&", "-"}, p.command \in {"CQ", "CR"} PROVE decode_packet(p) = decode_query_response(p)
    BY <1>0, <1>2, <1>3, Zenon DEF decode_packet
  <1>4. ASSUME p.kind \in {"#", "$", "!", "&", "-"}, p.command \in {"WX", "AX"} PROVE decode_packet(p) = decode_weather(p)
    BY <1>0, <1>2, <1>4, Zenon DEF decode_packet
  <1>5. ASSUME p.kind \in {"#", "$", "!", "&", "-"}, p.command \in DOMAIN DirectKind
        PROVE  decode_packet(p) = decode_direct_client_command(p)
    BY <1>0, <1>2, <1>5, Zenon DEF decode_packet
  <1>6. ASSUME p.kind \in {"#", "$", "!", "&", "-"}, p.command \in {"AA", "AP"} PROVE decode_packet(p) = decode_login(p)
    BY <1>0, <1>2, <1>6, Zenon DEF decode_packet
  <1>7. ASSUME p.kind \in {"#", "$", "!", "&", "-"}, p.command \in {"DA", "DP"}
        PROVE  decode_packet(p) = Checked(<<callsign(p.source, "InvalidSource")>>,
                                          Msg("Logoff", "Text", Upper[p.source], Nowhere, <<>>))
    BY <1>0, <1>2, <1>7, Zenon DEF decode_packet
  <1>8. ASSUME p.kind \in {"#", "$", "!", "&", "-"}, p.command = "TM" PROVE decode_packet(p) = decode_text(p)
    BY <1>0, <1>2, <1>8, Zenon DEF decode_packet
  <1>9. ASSUME p.kind \in {"#", "$", "!", "&", "-"}, p.command = "FP" PROVE decode_packet(p) = decode_flight_plan(p)
    BY <1>0, <1>2, <1>9, Zenon DEF decode_packet
  <1>10. ASSUME p.kind \in {"#", "$", "!", "&", "-"}, p.command \in {"PI", "PO"} PROVE decode_packet(p) = decode_ping_pong(p)
    BY <1>0, <1>2, <1>10, Zenon DEF decode_packet
  <1>11. ASSUME p.kind \in {"#", "$", "!", "&", "-"}, p.command = "!!" PROVE decode_packet(p) = decode_kill(p)
    BY <1>0, <1>2, <1>11, Zenon DEF decode_packet
  <1>12. ASSUME p.kind \in {"#", "$", "!", "&", "-"},
                p.command \notin {"CQ", "CR", "WX", "AX", "AA", "AP", "DA", "DP", "TM", "FP", "PI", "PO", "!!"}
                                   \cup DOMAIN DirectKind
         PROVE  decode_packet(p) = Err(Fault("Unsupported", "Syntax"))
    BY <1>2, <1>12, Zenon DEF decode_packet
  <1> QED BY <1>1, <1>3, <1>4, <1>5, <1>6, <1>7, <1>8, <1>9, <1>10, <1>11, <1>12, ZenonT(60)

\* query_kind returns one of the known kinds, or Raw.
LEMMA QueryKindType ==
  ASSUME NEW value
  PROVE  query_kind(value) \in QueryKinds \cup {"Raw"}
  <1>1. \A name \in DOMAIN QueryKind : QueryKind[name] \in QueryKinds
    BY QueryKindDomain DEF QueryKinds
  <1> QED BY <1>1, Zenon DEF query_kind

\* The kinds of the direct commands.
LEMMA DirectKindType ==
  \A command \in DOMAIN DirectKind : DirectKind[command] \in HandoffKinds \cup DataKinds
  BY DirectKindDomain DEF HandoffKinds, DataKinds

\* A login's network id, rating and simulator type are public.
LEMMA LoginValid ==
  ASSUME NEW p, p.command \in {"AA", "AP"}, NEW segments, NEW to, Read(p, segments, to), p.source \in Public,
         \A i \in 1 .. Len(segments) :
           segments[i] \in Secrets => (p.command = "AA" /\ i = 3) \/ (p.command = "AP" /\ i = 2),
         decode_login(p).ok
  PROVE  ValidCommand(decode_login(p).value)
  <1> DEFINE columns == LoginColumns[p.command]
             field == converted(columns, p)
             args == IF p.command = "AA"
                     THEN <<field[2], field[3], field[4], field[5], field[1], <<"0">> >>
                     ELSE <<field[1], field[2], field[3], field[4], field[6], field[5]>>
             c == Msg("Login", IF p.command = "AA" THEN "Atc" ELSE "Pilot", Upper[p.source], Nowhere, args)
             a == require_fields(p, Len(columns))
             b == callsign(p.source, "InvalidCallsign")
             columns_ok == \A i \in 1 .. Len(columns) : column_faults(columns, p)[i] = None
  <1>1. decode_login(p) = Checked(<<a, b>> \o column_faults(columns, p), c)
    BY Zenon DEF decode_login
  <1>2. columns \in Seq(ColumnSet) /\ Len(columns) = (IF p.command = "AA" THEN 5 ELSE 6)
    BY LoginColumnsType
  <1>3. a = None /\ b = None /\ columns_ok /\ decode_login(p) = Ok(c)
    <2>1. a \in FaultSet /\ b \in FaultSet
      BY FaultTypes, Zenon
    <2>0. columns \in Seq(ColumnSet)
      BY <1>2
    <2> HIDE DEF a, b, c, columns_ok, columns, args, field
    <2>2. /\ Checked(<<a, b>> \o column_faults(columns, p), c).ok => a = None /\ b = None /\ columns_ok
          /\ a = None /\ b = None /\ columns_ok =>
               Checked(<<a, b>> \o column_faults(columns, p), c) = Ok(c)
      BY <2>0, <2>1, CheckedColumns DEF columns_ok
    <2> QED BY <1>1, <2>2, Zenon
  <1>4. segments \in Seq(Segment) /\ p.fields = Single(segments) /\ Len(p.fields) = Len(segments) /\ Len(segments) \in Nat
    BY SingleType DEF Read
  <1>5. Len(segments) >= Len(columns) /\ p.source \in Callsigns
    BY <1>3, <1>4, NoFault, Zenon
  <1>6. Convertible(columns, segments)
    <2> HIDE DEF columns
    <2> QED BY <1>2, <1>3, <1>4, <1>5, ColumnsNone
  <1>7. PICK values : values = [i \in 1 .. Len(columns) |-> columns[i].conversion[segments[i]]]
    OBVIOUS
  <1>8. field = Single(values) /\ values \in Seq(Segment) /\ Len(values) = Len(columns)
    <2> HIDE DEF columns
    <2> QED BY <1>2, <1>5, <1>6, <1>7, ConvertedSegments
  <1>9. \A i \in 1 .. Len(columns) : segments[i] \in Public => values[i] \in Public
    <2> TAKE i \in 1 .. Len(columns)
    <2> HIDE DEF columns
    <2>1. columns[i] \in ColumnSet
      BY <1>2, ElementOfSeq
    <2>2. columns[i].conversion \in Conversions
      BY <2>1 DEF ColumnSet
    <2>3. segments[i] \in DOMAIN columns[i].conversion /\ values[i] = columns[i].conversion[segments[i]]
      BY <1>6, <1>7 DEF Convertible
    <2> QED BY <2>2, <2>3, ConvertTypes, Zenon
  <1>10. \A i \in 1 .. Len(columns) : segments[i] \in Public \/ (p.command = "AA" /\ i = 3) \/ (p.command = "AP" /\ i = 2)
    <2>1. \A i \in 1 .. Len(segments) : segments[i] \in Segment
      BY <1>4, ElementOfSeq
    <2>2. \A i \in 1 .. Len(columns) : i \in 1 .. Len(segments)
      BY <1>2, <1>4, <1>5
    <2> QED BY <2>1, <2>2, Zenon DEF Public
  <1>11. \A i \in 1 .. Len(columns) :
           <<values[i]>> \in Seq(Public) \/ (p.command = "AA" /\ i = 3) \/ (p.command = "AP" /\ i = 2)
    BY <1>9, <1>10, OneElement, Zenon
  <1>12. \A i \in 1 .. Len(columns) : field[i] = <<values[i]>>
    <2> HIDE DEF field, columns
    <2> QED BY <1>8, SingleType
  <1>a. \A i \in 1 .. Len(columns) :
          field[i] \in Seq(Public) \/ (p.command = "AA" /\ i = 3) \/ (p.command = "AP" /\ i = 2)
    BY <1>11, <1>12, Zenon
  <1> HIDE DEF columns, field
  <1>13. {args[1], args[3], args[6]} \subseteq Seq(Public)
    <2>1. CASE p.command = "AA"
      <3>1. field[2] \in Seq(Public) /\ field[4] \in Seq(Public)
        <4>1. 2 \in 1 .. Len(columns) /\ 4 \in 1 .. Len(columns) /\ 2 # 3 /\ 4 # 3
          BY <1>2, <2>1
        <4> QED BY <1>a, <2>1, <4>1, Zenon
      <3>2. <<"0">> \in Seq(Public)
        BY OwnWords, OneElement
      <3> QED BY <2>1, <3>1, <3>2
    <2>2. CASE p.command = "AP"
      <3>1. field[1] \in Seq(Public) /\ field[3] \in Seq(Public) /\ field[5] \in Seq(Public)
        <4>1. {1, 3, 5} \subseteq 1 .. Len(columns) /\ 1 # 2 /\ 3 # 2 /\ 5 # 2
          BY <1>2, <2>2
        <4> QED BY <1>a, <2>2, <4>1, Zenon
      <3> QED BY <2>2, <3>1
    <2> QED BY <2>1, <2>2
  <1> HIDE DEF args
  <1>14. Upper[p.source] \in Public \ {Empty}
    BY <1>5, UpperTypes DEF Public
  <1>15. Nowhere.name \in Seq(Public) \ {<<>>}
    BY DestinationType
  <1>16. c.op = "Login" /\ c.source = Upper[p.source] /\ c.destination = Nowhere /\ c.args = args
         /\ c = Msg(c.op, c.kind, c.source, c.destination, c.args)
    BY DEF Msg
  <1> HIDE DEF c
  <1>17. ValidCommand(c)
    BY <1>13, <1>14, <1>15, <1>16 DEF ValidCommand, ValidAddress, ValidKind, AsterTypes
  <1> QED BY <1>3, <1>17, OkOrErr, Zenon

\* What decode_packet accepts of an inbound frame is a valid command.
LEMMA PacketValid ==
  ASSUME NEW frame \in Inbound["Classic"] \cup Inbound["Vatsim"], parse(frame).ok,
         NEW p, p = parse(frame).value, decode_packet(p).ok
  PROVE  ValidCommand(decode_packet(p).value)
  <1>1. PICK segments, to :
          /\ Read(p, segments, to) /\ Kinded(p) /\ p.source \in Public /\ to \in Public
          /\ \A i \in 1 .. Len(segments) :
               segments[i] \in Secrets => (p.command = "AA" /\ i = 3) \/ (p.command = "AP" /\ i = 2)
    BY InboundPacket
  <1>2. /\ segments \in Seq(Segment) /\ p.fields = Single(segments) /\ p.destination[1] = to
        /\ Len(p.fields) = Len(segments) /\ \A i \in 1 .. Len(segments) : p.fields[i] = <<segments[i]>>
    BY <1>1, SingleType DEF Read
  <1>3. p.source \in Callsigns => Upper[p.source] \in Public \ {Empty}
    BY <1>1, UpperTypes DEF Read
  <1>4. destination(to).name \in Seq(Public) \ {<<>>} /\ Nowhere.name \in Seq(Public) \ {<<>>}
    BY <1>1, DestinationType
  <1>5. p.command \notin {"AA", "AP"} => segments \in Seq(Public)
    <2> SUFFICES ASSUME p.command \notin {"AA", "AP"} PROVE segments \in Seq(Public)
      OBVIOUS
    <2>1. \A i \in 1 .. Len(segments) : segments[i] \in Segment
      BY <1>2, ElementOfSeq
    <2>2. \A i \in 1 .. Len(segments) : segments[i] \in Public
      BY <1>1, <2>1, Zenon DEF Public
    <2> QED BY <1>2, <2>2
  <1>6. p.command \notin {"AA", "AP"} => p.fields \in Seq(Seq(Public)) /\ <<join(p.fields)>> \in Seq(Seq(Public))
    BY <1>2, <1>5, SingleType, JoinedFields, PublicSegments
  <1>7. Empty \in Public
    BY PublicSegments
  <1>a. ASSUME NEW c, decode_packet(p) = Ok(c), ValidCommand(c) PROVE ValidCommand(decode_packet(p).value)
    BY <1>a, OkOrErr, Zenon
  <1>8. CASE p.kind \in {"@", "%"}
    <2>1. decode_packet(p) = decode_position(p)
      BY <1>1, <1>8, DecodePacketCases, Zenon
    <2> DEFINE pilot == p.kind = "@"
               columns == IF pilot THEN PilotColumns ELSE AtcColumns
               args == << <<p.command>> >> \o converted(columns, p)
               kind == IF pilot THEN "Pilot" ELSE "Atc"
               c == Msg("Position", kind, Upper[p.source], Nowhere, args)
    <2>2. /\ Len(segments) >= Len(columns) /\ p.source \in Callsigns /\ Convertible(columns, segments)
          /\ decode_position(p) = Ok(c)
      BY <1>1, <2>1, DecodePosition, Zenon
    <2>3. columns \in Seq(ColumnSet)
      BY LayoutType, Zenon
    <2>4. p.command \in Public
      BY <1>1, <1>7, <1>8, OwnWords DEF Kinded
    <2>5. segments \in Seq(Public)
      BY <1>1, <1>5, <1>8, EmptyIsNoCommand DEF Kinded
    <2>6. converted(columns, p) \in Seq(Seq(Public))
      <3> DEFINE values == [i \in 1 .. Len(columns) |-> columns[i].conversion[segments[i]]]
      <3> HIDE DEF columns
      <3>1. converted(columns, p) = Single(values) /\ values \in Seq(Public)
        BY <1>1, <2>2, <2>3, <2>5, ConvertedSegments
      <3> HIDE DEF values
      <3> QED BY <3>1, SingleType
    <2>7. args \in Seq(Seq(Public)) /\ args # <<>>
      <3> HIDE DEF columns
      <3>1. <<p.command>> \in Seq(Public)
        BY <2>4, OneElement, Zenon
      <3> QED BY <2>6, <3>1, Prepended
    <2>9. kind \in {"Pilot", "Atc"} /\ \A i \in 1 .. Len(args) : args[i] # <<>>
      <3> DEFINE values == [i \in 1 .. Len(columns) |-> columns[i].conversion[segments[i]]]
      <3> HIDE DEF columns
      <3>1. converted(columns, p) = Single(values) /\ values \in Seq(Public)
        BY <1>1, <2>2, <2>3, <2>5, ConvertedSegments
      <3> HIDE DEF values
      <3>2. PICK v, S : v = Single(values) /\ S = Public
        OBVIOUS
      <3>3. v \in Seq(Seq(S)) /\ \A i \in 1 .. Len(v) : v[i] = <<values[i]>>
        BY <3>1, <3>2, SingleType
      <3>4. PICK all, x : all = << <<x>> >> \o v /\ x = p.command
        OBVIOUS
      <3>5. Len(all) = Len(v) + 1 /\ all[1] = <<x>> /\ \A i \in 1 .. Len(v) : all[i + 1] = v[i]
        BY <3>3, <3>4
      <3>6. ASSUME NEW i \in 1 .. Len(all) PROVE all[i] # <<>>
        <4>a. \A y : <<y>> # <<>>
          OBVIOUS
        <4>1. CASE i = 1
          BY <3>5, <4>1, <4>a, Zenon
        <4>2. CASE i # 1
          <5>1. PICK j \in 1 .. Len(v) : i = j + 1
            BY <3>3, <3>5, <4>2
          <5>2. v[j] = <<values[j]>>
            BY <3>3, Zenon
          <5>3. all[i] = v[j]
            BY <3>5, <5>1, Zenon
          <5> QED BY <4>a, <5>2, <5>3, Zenon
        <4> QED BY <4>1, <4>2
      <3>7. args = all
        BY <3>1, <3>2, <3>4, Zenon
      <3>8. kind \in {"Pilot", "Atc"}
        BY Zenon DEF kind
      <3> HIDE DEF args, kind
      <3> QED BY <3>6, <3>7, <3>8, Zenon
    <2> HIDE DEF args, kind
    <2>8. ValidCommand(c)
      BY <1>3, <1>4, <2>2, <2>7, <2>9, ValidMsg DEF CommandOps, AsterTypes
    <2> QED BY <1>a, <2>1, <2>2, <2>8, Zenon
  <1>9. CASE p.kind \in {"#", "$", "!", "&", "-"} /\ p.command \in {"CQ", "CR"}
    <2>1. decode_packet(p) = decode_query_response(p)
      BY <1>1, <1>9, DecodePacketCases, Zenon
    <2> DEFINE op == IF p.command = "CR" THEN "Response" ELSE "Query"
               kind == query_kind(p.fields[1][1])
               args == IF kind = "Raw" THEN p.fields ELSE Tail(p.fields)
               c == Msg(op, kind, Upper[p.source], destination(to), args)
    <2>2. Len(p.fields) >= (IF p.command = "CR" THEN 2 ELSE 1) /\ p.source \in Callsigns
          /\ decode_packet(p) = Ok(c)
      BY <1>2, <2>1, DecodeQueryResponse, Zenon
    <2>3. p.fields \in Seq(Seq(Public))
      BY <1>6, <1>9
    <2>4. args \in Seq(Seq(Public))
      <3>1. p.fields # <<>>
        BY <2>2, <2>3
      <3> QED BY <2>3, <3>1, FirstAndRest, Zenon
    <2>5. kind \in QueryKinds \cup {"Raw"}
      BY QueryKindType
    <2>6. op \in CommandOps \ {"Login"} /\ op \in {"Query", "Response"}
      BY DEF CommandOps, AsterTypes
    <2> HIDE DEF args, kind, op
    <2>7. ValidCommand(c)
      BY <1>3, <1>4, <2>2, <2>4, <2>5, <2>6, ValidMsg
    <2> QED BY <1>a, <2>2, <2>7, Zenon
  <1>10. CASE p.kind \in {"#", "$", "!", "&", "-"} /\ p.command \in {"WX", "AX"}
    <2>1. decode_packet(p) = decode_weather(p)
      BY <1>1, <1>10, DecodePacketCases, Zenon
    <2> DEFINE i == IF p.command = "AX" THEN 2 ELSE 1
               args == << <<Upper[p.fields[i][1]]>> >>
               kind == IF p.command = "AX" THEN "Raw" ELSE "Parsed"
               noop == p.command = "AX" /\ (Len(p.fields) = 1 \/ Upper[p.fields[1][1]] # "METAR")
               c == Msg("WeatherRequest", kind, Upper[p.source], Nowhere, args)
               d == Msg("Noop", "Text", Upper[p.source], Nowhere, <<>>)
    <2>2. /\ Len(p.fields) >= 1 /\ p.source \in Callsigns
          /\ decode_packet(p) = Ok(IF noop THEN d ELSE c)
      BY <2>1, DecodeWeather, Zenon
    <2>3. CASE noop
      <3>1. <<>> \in Seq(Seq(Public))
        OBVIOUS
      <3>2. ValidCommand(d)
        BY <1>3, <1>4, <2>2, <3>1, ValidMsg DEF CommandOps, AsterTypes
      <3> QED BY <1>a, <2>2, <2>3, <3>2, Zenon
    <2>4. CASE ~ noop
      <3>1. i \in 1 .. Len(segments)
        BY <1>2, <2>2, <2>4
      <3>2. p.fields[i][1] = segments[i] /\ segments[i] \in Public
        BY <1>2, <1>5, <1>10, <3>1, ElementOfSeq
      <3>3. Upper[p.fields[i][1]] \in Public
        BY <3>2, UpperTypes, PublicSegments
      <3>4. args \in Seq(Seq(Public)) /\ args # <<>>
        <4>1. <<Upper[p.fields[i][1]]>> \in Seq(Public)
          BY <3>3, OneElement, Zenon
        <4> QED BY <4>1, OneElement, Zenon
      <3> HIDE DEF args, kind
      <3>5. ValidCommand(c)
        BY <1>3, <1>4, <2>2, <3>4, ValidMsg DEF CommandOps, AsterTypes
      <3> QED BY <1>a, <2>2, <2>4, <3>5, Zenon
    <2> QED BY <2>3, <2>4, Zenon
  <1>11. CASE p.kind \in {"#", "$", "!", "&", "-"} /\ p.command \in DOMAIN DirectKind
    <2>1. decode_packet(p) = decode_direct_client_command(p)
      BY <1>1, <1>11, DecodePacketCases, Zenon
    <2> DEFINE op == IF p.command \in {"HO", "HA"} THEN "Handoff" ELSE "ClientData"
               c == Msg(op, DirectKind[p.command], Upper[p.source], destination(to), p.fields)
    <2>2. p.source \in Callsigns /\ decode_packet(p) = Ok(c)
      BY <1>2, <2>1, DecodeDirect, Zenon
    <2>3. p.fields \in Seq(Seq(Public))
      BY <1>6, <1>11, DirectKindDomain
    <2>4. DirectKind[p.command] \in HandoffKinds \cup DataKinds
      BY <1>11, DirectKindType
    <2>5. op \in CommandOps \ {"Login"} /\ op \in {"Handoff", "ClientData"}
      BY DEF CommandOps, AsterTypes
    <2> HIDE DEF op
    <2>6. ValidCommand(c)
      BY <1>3, <1>4, <2>2, <2>3, <2>4, <2>5, ValidMsg
    <2> QED BY <1>a, <2>2, <2>6, Zenon
  <1>12. CASE p.kind \in {"#", "$", "!", "&", "-"} /\ p.command \in {"AA", "AP"}
    <2>1. decode_packet(p) = decode_login(p)
      BY <1>1, <1>12, DecodePacketCases, Zenon
    <2>2. decode_login(p).ok
      BY <2>1
    <2>3. ValidCommand(decode_login(p).value)
      BY <1>1, <1>12, <2>2, LoginValid
    <2> QED BY <2>1, <2>3, Zenon
  <1>13. CASE p.kind \in {"#", "$", "!", "&", "-"} /\ p.command \in {"DA", "DP"}
    <2> DEFINE c == Msg("Logoff", "Text", Upper[p.source], Nowhere, <<>>)
               a == callsign(p.source, "InvalidSource")
    <2>1. decode_packet(p) = Checked(<<a>>, c)
      BY <1>1, <1>13, DecodePacketCases, Zenon
    <2>2. a = None /\ decode_packet(p) = Ok(c)
      <3> HIDE DEF a, c
      <3>1. (Checked(<<a>>, c).ok => a = None) /\ (a = None => Checked(<<a>>, c) = Ok(c))
        BY CheckedOne
      <3> QED BY <2>1, <3>1, Zenon
    <2>3. p.source \in Callsigns
      BY <2>2, NoFault, Zenon
    <2>4. <<>> \in Seq(Seq(Public))
      OBVIOUS
    <2>5. ValidCommand(c)
      BY <1>3, <1>4, <2>3, <2>4, ValidMsg DEF CommandOps, AsterTypes
    <2> QED BY <1>a, <2>2, <2>5, Zenon
  <1>14. CASE p.kind \in {"#", "$", "!", "&", "-"} /\ p.command = "TM"
    <2> DEFINE c == Msg("Text", "Text", Upper[p.source], destination(to), <<join(p.fields)>>)
    <2>1. decode_packet(p) = decode_text(p)
      BY <1>1, <1>14, DecodePacketCases, Zenon
    <2>2. p.source \in Callsigns /\ decode_packet(p) = Ok(c)
      BY <1>2, <2>1, DecodeText, Zenon
    <2>3. ValidCommand(c)
      BY <1>3, <1>4, <1>6, <1>14, <2>2, ValidMsg DEF CommandOps, AsterTypes
    <2> QED BY <1>a, <2>2, <2>3, Zenon
  <1>15. CASE p.kind \in {"#", "$", "!", "&", "-"} /\ p.command = "FP"
    <2> DEFINE args == converted(PlanColumns, p)
               c == Msg("FlightPlan", "Plan", Upper[p.source], Nowhere, args)
               values == [i \in 1 .. Len(PlanColumns) |-> PlanColumns[i].conversion[segments[i]]]
    <2>1. decode_packet(p) = decode_flight_plan(p)
      BY <1>1, <1>15, DecodePacketCases, Zenon
    <2>2. /\ Len(segments) >= 15 /\ p.source \in Callsigns /\ Convertible(PlanColumns, segments)
          /\ decode_packet(p) = Ok(c)
      BY <1>1, <2>1, DecodeFlightPlan, Zenon
    <2>3. segments \in Seq(Public)
      BY <1>5, <1>15
    <2>4. args = Single(values) /\ values \in Seq(Public)
      <3> HIDE DEF args
      <3>1. PlanColumns \in Seq(ColumnSet) /\ Len(segments) >= Len(PlanColumns)
        BY <2>2, LayoutType
      <3> QED BY <1>1, <2>2, <2>3, <3>1, ConvertedSegments DEF args
    <2>5. args \in Seq(Seq(Public))
      <3> HIDE DEF values, args
      <3> QED BY <2>4, SingleType
    <2> HIDE DEF args
    <2>6. ValidCommand(c)
      BY <1>3, <1>4, <2>2, <2>5, ValidMsg DEF CommandOps, AsterTypes
    <2> QED BY <1>a, <2>2, <2>6, Zenon
  <1>16. CASE p.kind \in {"#", "$", "!", "&", "-"} /\ p.command \in {"PI", "PO"}
    <2> DEFINE op == IF p.command = "PI" THEN "Ping" ELSE "Pong"
               c == Msg(op, "Text", Upper[p.source], destination(to), <<join(p.fields)>>)
    <2>1. decode_packet(p) = decode_ping_pong(p)
      BY <1>1, <1>16, DecodePacketCases, Zenon
    <2>2. p.source \in Callsigns /\ decode_packet(p) = Ok(c)
      BY <1>2, <2>1, DecodePingPong, Zenon
    <2>3. op \in CommandOps \ {"Login"} /\ op \in {"Ping", "Pong"}
      BY DEF CommandOps, AsterTypes
    <2> HIDE DEF op
    <2>4. ValidCommand(c)
      BY <1>3, <1>4, <1>6, <1>16, <2>2, <2>3, ValidMsg
    <2> QED BY <1>a, <2>2, <2>4, Zenon
  <1>17. CASE p.kind \in {"#", "$", "!", "&", "-"} /\ p.command = "!!"
    <2> DEFINE d == Direct(Upper[to])
               c == Msg("Kill", "Text", Upper[p.source], d, <<join(p.fields)>>)
    <2>1. decode_packet(p) = decode_kill(p)
      BY <1>1, <1>17, DecodePacketCases, Zenon
    <2>2. p.source \in Callsigns /\ to \in Callsigns /\ decode_packet(p) = Ok(c)
      BY <1>2, <2>1, DecodeKill, Zenon
    <2>3. Upper[to] \in Public \ {Empty}
      BY <1>1, <2>2, UpperTypes DEF Read
    <2>4. d.name \in Seq(Public) \ {<<>>} /\ d.name[1] \in Public \ {Empty}
      <3>1. <<Upper[to]>> \in Seq(Public) \ {<<>>} /\ <<Upper[to]>>[1] = Upper[to]
        BY <2>3
      <3> QED BY <2>3, <3>1, DestinationNames, Zenon
    <2> HIDE DEF d
    <2>5. ValidCommand(c)
      BY <1>3, <1>6, <1>17, <2>2, <2>4, ValidMsg DEF CommandOps, AsterTypes
    <2> QED BY <1>a, <2>2, <2>5, Zenon
  <1>18. p.kind \in {"#", "$", "!", "&", "-"} =>
           p.command \in {"CQ", "CR", "WX", "AX", "AA", "AP", "DA", "DP", "TM", "FP", "PI", "PO", "!!"}
                           \cup DOMAIN DirectKind
    <2> SUFFICES ASSUME p.kind \in {"#", "$", "!", "&", "-"},
                        p.command \notin {"CQ", "CR", "WX", "AX", "AA", "AP", "DA", "DP", "TM", "FP", "PI", "PO", "!!"}
                                           \cup DOMAIN DirectKind
                 PROVE  FALSE
      OBVIOUS
    <2>1. decode_packet(p) = Err(Fault("Unsupported", "Syntax"))
      BY <1>1, DecodePacketCases, Zenon
    <2> QED BY <2>1, OkOrErr, Zenon
  <1> QED BY <1>1, <1>8, <1>9, <1>10, <1>11, <1>12, <1>13, <1>14, <1>15, <1>16, <1>17, <1>18 DEF Kinded

\* A sequence of elements of another set.
LEMMA Retyped ==
  ASSUME NEW S, NEW T, NEW s \in Seq(S), \A i \in 1 .. Len(s) : s[i] \in T
  PROVE  s \in Seq(T)
  OBVIOUS

\* What decode_identification accepts is a valid command.
LEMMA IdentificationValid ==
  ASSUME NEW frame \in Inbound["Classic"] \cup Inbound["Vatsim"], parse(frame).ok,
         NEW p, p = parse(frame).value, p.command = "ID", decode_identification(p).ok
  PROVE  ValidCommand(decode_identification(p).value) /\ decode_identification(p).value.op = "Identify"
  <1>1. PICK segments, to :
          /\ Read(p, segments, to) /\ Kinded(p) /\ p.source \in Public /\ to \in Public
          /\ \A i \in 1 .. Len(segments) :
               segments[i] \in Secrets => (p.command = "AA" /\ i = 3) \/ (p.command = "AP" /\ i = 2)
    BY InboundPacket
  <1> DEFINE shape(i) == IF Len(p.fields) = 6 THEN p.fields[i][1] ELSE Empty
             f1 == Unless(Upper[p.destination[1]] = "SERVER", InvalidField)
             f2 == Unless(Len(p.fields) = 6, Syntax)
             f3 == Unless(shape(1) \in HexIds, InvalidField)
             f4 == Unless(shape(3) = "3" /\ shape(4) = "2", InvalidField)
             f5 == Unless(shape(5) # Empty, InvalidField)
             f6 == Unless(shape(6) \in UniqueNumbers, InvalidField)
             f7 == callsign(p.source, "InvalidCallsign")
             faults == <<f1, f2, f3, f4, f5, f6, f7>>
             args == <<p.fields[1], p.fields[2], p.fields[5]>>
             c == Msg("Identify", "Text", Upper[p.source], Nowhere, args)
  <1>2. decode_identification(p) = Checked(faults, c)
    BY Zenon DEF decode_identification
  <1>3. f2 = None => Len(p.fields) = 6
    <2>1. None # Syntax
      BY DEF None, Syntax, Fault
    <2> QED BY <2>1, Zenon DEF Unless
  <1>4. f7 = None => p.source \in Callsigns
    BY NoFault, Zenon
  <1> HIDE DEF f1, f2, f3, f4, f5, f6, f7, c
  <1>5. f2 = None /\ f7 = None /\ decode_identification(p) = Ok(c)
    <2>1. Len(faults) \in Nat /\ 2 \in 1 .. Len(faults) /\ 7 \in 1 .. Len(faults) /\ faults[2] = f2 /\ faults[7] = f7
      OBVIOUS
    <2> HIDE DEF faults
    <2>2. /\ Checked(faults, c).ok => \A i \in 1 .. Len(faults) : faults[i] = None
          /\ (\A i \in 1 .. Len(faults) : faults[i] = None) => Checked(faults, c) = Ok(c)
      BY <2>1, CheckedIff, Zenon
    <2> QED BY <1>2, <2>1, <2>2, Zenon
  <1>6. p.fields = Single(segments) /\ segments \in Seq(Segment) /\ Len(segments) = 6
    BY <1>1, <1>3, <1>5, SingleType DEF Read
  <1>7. segments \in Seq(Public)
    <2>1. \A i \in 1 .. Len(segments) : segments[i] \in Segment
      BY <1>6, ElementOfSeq
    <2>2. \A i \in 1 .. Len(segments) : segments[i] \in Public
      BY <1>1, <2>1 DEF Public
    <2> QED BY <1>6, <2>2, Retyped, Zenon
  <1>8. p.fields \in Seq(Seq(Public)) /\ Len(p.fields) = 6
    BY <1>6, <1>7, SingleType
  <1>9. args \in Seq(Seq(Public)) /\ args # <<>>
    <2>1. p.fields[1] \in Seq(Public) /\ p.fields[2] \in Seq(Public) /\ p.fields[5] \in Seq(Public)
      BY <1>8, ElementOfSeq
    <2> QED BY <2>1
  <1>10. Upper[p.source] \in Public \ {Empty} /\ Nowhere.name \in Seq(Public) \ {<<>>}
    BY <1>1, <1>4, <1>5, UpperTypes, DestinationType DEF Read
  <1> HIDE DEF args
  <1>11. ValidCommand(c)
    BY <1>9, <1>10, ValidMsg DEF CommandOps, AsterTypes, c
  <1>12. c.op = "Identify"
    BY DEF c, Msg
  <1> QED BY <1>5, <1>11, <1>12, OkOrErr, Zenon

\* The kinds serde knows are those of the classic dialect.
LEMMA KindRanges ==
  Range(QueryKind) = QueryKinds /\ Range(DirectKind) = HandoffKinds \cup DataKinds
  <1>1. Range(QueryKind) = QueryKinds
    BY QueryKindDomain DEF Range, QueryKinds
  <1>2. Range(DirectKind) = HandoffKinds \cup DataKinds
    BY DirectKindDomain DEF Range, HandoffKinds, DataKinds
  <1> QED BY <1>1, <1>2

\* What the Aster backend accepts is a valid command.
LEMMA AsterValid ==
  ASSUME NEW frame \in Inbound["AsterV1"], aster_decode(frame).ok
  PROVE  ValidCommand(aster_decode(frame).value)
  <1>0. PICK m : m = frame.message
    OBVIOUS
  <1> DEFINE f1 == Unless(frame.json /\ m.op \in AsterTypes /\ TypedCallsigns(m) \subseteq Callsigns, Syntax)
             f2 == Unless(frame.v = 1, Fault("Version", "Syntax"))
             f3 == Unless(m.source \in Callsigns, InvalidField)
             f4 == Unless(m.op \in {"Handoff", "ClientData", "Kill"} => m.destination.name[1] \in Callsigns,
                          InvalidField)
             faults == <<f1, f2, f3, f4>>
             c == [m EXCEPT !.source = Upper[@], !.destination = NormalName(@)]
  <1>1. aster_decode(frame) = Checked(faults, c)
    BY <1>0, Zenon DEF aster_decode
  <1>2. /\ f1 = None => m.op \in AsterTypes
        /\ f3 = None => m.source \in Callsigns
        /\ f4 = None => (m.op = "Kill" => m.destination.name[1] \in Callsigns)
    <2>1. None # Syntax /\ None # InvalidField
      BY DEF None, Syntax, InvalidField, Fault
    <2> QED BY <2>1, Zenon DEF Unless
  <1> HIDE DEF f1, f2, f3, f4, c
  <1>3. f1 = None /\ f3 = None /\ f4 = None /\ aster_decode(frame) = Ok(c)
    <2>1. Len(faults) \in Nat /\ {1, 3, 4} \subseteq 1 .. Len(faults)
          /\ faults[1] = f1 /\ faults[3] = f3 /\ faults[4] = f4
      OBVIOUS
    <2> HIDE DEF faults
    <2>2. /\ Checked(faults, c).ok => \A i \in 1 .. Len(faults) : faults[i] = None
          /\ (\A i \in 1 .. Len(faults) : faults[i] = None) => Checked(faults, c) = Ok(c)
      BY <2>1, CheckedIff, Zenon
    <2> QED BY <1>1, <2>1, <2>2, Zenon
  <1>4. IsMessage(m)
    BY <1>0, RelayAssumption, Zenon
  <1>5. /\ m.source \in Public /\ m.destination.name \in Seq(Public)
        /\ \A i \in 1 .. Len(m.args) : i \in PasswordArg(m) \/ m.args[i] \in Seq(Public)
    BY <1>0, SecretsAssumption, Zenon
  <1>6. PICK to : to = NormalName(m.destination)
    OBVIOUS
  <1>7. m = [op |-> m.op, kind |-> m.kind, source |-> m.source, destination |-> m.destination, args |-> m.args]
    BY <1>4, Zenon DEF IsMessage, Msg
  <1>8. c = Msg(m.op, m.kind, Upper[m.source], to, m.args)
    <2>1. PICK x : x = Upper[m.source]
      OBVIOUS
    <2>2. c = [m EXCEPT !.source = x, !.destination = to]
      BY <1>6, <2>1, Zenon DEF c
    <2>3. m = Msg(m.op, m.kind, m.source, m.destination, m.args)
      BY <1>4, Zenon DEF IsMessage
    <2>4. PICK a1, a2, a3, a4, a5 : /\ m = Msg(a1, a2, a3, a4, a5) /\ a1 = m.op /\ a2 = m.kind /\ a5 = m.args
      BY <2>3, Zenon
    <2>5. [Msg(a1, a2, a3, a4, a5) EXCEPT !.source = x, !.destination = to] = Msg(a1, a2, x, to, a5)
      <3>1. [Msg(a1, a2, a3, a4, a5) EXCEPT !.source = x] = Msg(a1, a2, x, a4, a5)
        BY DEF Msg
      <3>2. [Msg(a1, a2, x, a4, a5) EXCEPT !.destination = to] = Msg(a1, a2, x, to, a5)
        BY DEF Msg
      <3> QED BY <3>1, <3>2, Zenon
    <2> QED BY <2>1, <2>2, <2>4, <2>5, Zenon
  <1>9. m.destination.name \in Seq(Public) \ {<<>>} /\ m.destination.name[1] \in Public
    <2>1. m.destination.name # <<>>
      BY <1>4 DEF IsMessage
    <2> QED BY <1>5, <2>1, FirstAndRest
  <1>10. to.name \in Seq(Public) \ {<<>>} /\ (m.op = "Kill" => to.name[1] \in Public \ {Empty})
    <2>1. CASE m.destination.to = "Direct"
      <3>1. to = Direct(Upper[m.destination.name[1]])
        BY <1>6, <2>1, Zenon DEF NormalName
      <3>2. PICK x : x = Upper[m.destination.name[1]]
        OBVIOUS
      <3>3. x \in Public /\ (m.op = "Kill" => x \in Public \ {Empty})
        BY <1>2, <1>3, <1>9, <3>2, UpperTypes, PublicSegments
      <3>4. <<x>> \in Seq(Public) \ {<<>>} /\ <<x>>[1] = x
        BY <3>3
      <3> QED BY <3>1, <3>2, <3>3, <3>4, DestinationNames, Zenon
    <2>2. CASE m.destination.to # "Direct"
      <3>1. to = m.destination
        BY <1>6, <2>2, Zenon DEF NormalName
      <3>2. Empty \notin Callsigns
        BY DialectsAssumption
      <3> QED BY <1>2, <1>3, <1>9, <3>1, <3>2
    <2> QED BY <2>1, <2>2
  <1>11. Upper[m.source] \in Public \ {Empty}
    BY <1>2, <1>3, <1>5, UpperTypes, PublicSegments
  <1>12. m.op \in AsterTypes
    BY <1>2, <1>3, Zenon
  <1>13. /\ m.args \in Seq(Seq(Segment))
         /\ m.op \in {"Identify", "Position", "WeatherRequest"} => m.args # <<>>
         /\ m.op = "Position" => m.kind \in {"Pilot", "Atc"} /\ \A i \in 1 .. Len(m.args) : m.args[i] # <<>>
         /\ m.op = "Login" => Len(m.args) = 6
         /\ m.op \in {"Query", "Response"} => m.kind \in QueryKinds \cup {"Raw"}
         /\ m.op \in {"Handoff", "ClientData"} => m.kind \in HandoffKinds \cup DataKinds
    <2>1. m.args \in Seq(Seq(Segment) \ {<<>>}) /\ (m.op = "Position" => m.kind \in {"Pilot", "Atc"})
      BY <1>4, Zenon DEF IsMessage
    <2>2. PICK s : s = m.args
      OBVIOUS
    <2>3. s \in Seq(Seq(Segment)) /\ \A i \in 1 .. Len(s) : s[i] # <<>>
      BY <2>1, <2>2
    <2> QED BY <1>4, <2>1, <2>2, <2>3, KindRanges, Zenon DEF IsMessage
  <1>14. CASE m.op # "Login"
    <2>1. \A i \in 1 .. Len(m.args) : m.args[i] \in Seq(Public)
      BY <1>5, <1>14 DEF PasswordArg
    <2>2. m.args \in Seq(Seq(Public))
      BY <1>13, <2>1, Retyped, Zenon
    <2>3. ValidCommand(c)
      BY <1>8, <1>10, <1>11, <1>12, <1>13, <1>14, <2>2, ValidMsg DEF CommandOps
    <2> QED BY <1>3, <2>3, OkOrErr, Zenon
  <1>15. CASE m.op = "Login"
    <2>1. \A i \in {1, 3, 6} : m.args[i] \in Seq(Public)
      BY <1>5, <1>13, <1>15 DEF PasswordArg
    <2>2. c.op = "Login" /\ c.source = Upper[m.source] /\ c.destination = to /\ c.args = m.args
          /\ c = Msg(c.op, c.kind, c.source, c.destination, c.args)
      BY <1>8, <1>15 DEF Msg
    <2>3. {c.args[1], c.args[3], c.args[6]} \subseteq Seq(Public)
      BY <2>1, <2>2
    <2>4. ValidCommand(c)
      BY <1>10, <1>11, <2>2, <2>3 DEF ValidCommand, ValidAddress, ValidKind, AsterTypes
    <2> QED BY <1>3, <2>4, OkOrErr, Zenon
  <1> QED BY <1>14, <1>15

\* Whatever was decoded, a command is valid.
LEMMA CommandValid ==
  ASSUME Decoded, result # Nothing, result.ok
  PROVE  ValidCommand(result.value)
  <1>1. CASE from.dialect = "AsterV1"
    <2>1. decode(from.dialect, inbound) = aster_decode(inbound)
      BY <1>1, Zenon DEF decode
    <2>2. inbound \in Inbound["AsterV1"] /\ result = aster_decode(inbound)
      BY <1>1, <2>1, Zenon DEF Decoded
    <2> QED BY <2>2, AsterValid, Zenon
  <1>2. CASE from.dialect # "AsterV1"
    <2>1. result = classic_decode(inbound) \/ result = vatsim_decode(inbound)
      BY <1>2, DecodedFamily, Zenon
    <2>2. inbound \in Inbound["Classic"] \cup Inbound["Vatsim"]
      BY <1>2, DecodedFamily, Zenon DEF Decoded
    <2>3. PICK p : p = parse(inbound).value
      OBVIOUS
    <2>4. parse(inbound).ok /\ (result = decode_packet(p) \/ (p.command = "ID" /\ result = decode_identification(p)))
      <3>1. classic_decode(inbound) = IF parse(inbound).ok THEN decode_packet(p) ELSE Err(Syntax)
        BY <2>3, Zenon DEF classic_decode
      <3>2. vatsim_decode(inbound) = IF parse(inbound).ok /\ p.command = "ID" THEN decode_identification(p)
                                     ELSE classic_decode(inbound)
        BY <2>3, Zenon DEF vatsim_decode
      <3> QED BY <2>1, <3>1, <3>2, OkOrErr, Zenon
    <2> QED BY <2>2, <2>3, <2>4, PacketValid, IdentificationValid, Zenon
  <1> QED BY <1>1, <1>2

-----------------------------------------------------------------------------
(***************************************************************************)
(* What the core makes of a valid command is a valid event.                *)
(***************************************************************************)
EventOps ==
  Routed \cup {"Position", "FlightPlan", "Error", "Welcome", "ClientAdded", "ClientRemoved",
               "WeatherReport", "WeatherProfile", "WindDelta", "Disconnect"}

\* How a valid event is made, other than a position.
LEMMA EventMade ==
  ASSUME NEW op \in EventOps \ {"Position"}, NEW kind, NEW source \in Public \ {Empty},
         NEW to, to.name \in Seq(Public) \ {<<>>}, NEW args \in Seq(Seq(Public)),
         op \in {"Query", "Response"} => kind \in QueryKinds \cup {"Raw"},
         op \in {"Handoff", "ClientData"} => kind \in HandoffKinds \cup DataKinds,
         op = "ClientAdded" => Len(args) = 4 /\ \E account \in Accounts : args[1] = <<account.id>>,
         op = "ClientRemoved" => args # <<>> /\ args[1] # <<>>,
         op = "WeatherProfile" => Len(args) = 49
  PROVE  ValidEvent(Msg(op, kind, source, to, args)) /\ Msg(op, kind, source, to, args).op = op
  <1> DEFINE e == Msg(op, kind, source, to, args)
  <1>1. e.op = op /\ e.kind = kind /\ e.source = source /\ e.destination = to /\ e.args = args
    BY DEF Msg
  <1> HIDE DEF e
  <1>2. ValidAddress(e) /\ ValidKind(e)
    BY <1>1 DEF ValidAddress, ValidKind
  <1>3. ValidEvent(e)
    BY <1>1, <1>2 DEF ValidEvent, EventOps
  <1> QED BY <1>1, <1>3 DEF e

\* Most events need no more than an address and arguments.
Plain == {"Text", "Ping", "Pong", "FlightPlan", "Error", "Welcome", "WeatherReport", "WindDelta", "Disconnect"}

\* An event whose kind and number of arguments no encoder looks at.
LEMMA PlainMade ==
  ASSUME NEW op \in Plain, NEW kind, NEW source \in Public \ {Empty},
         NEW to, to.name \in Seq(Public) \ {<<>>}, NEW args \in Seq(Seq(Public))
  PROVE  ValidEvent(Msg(op, kind, source, to, args)) /\ Msg(op, kind, source, to, args).op = op
  <1>1. /\ op \in EventOps
        /\ op \notin {"Query", "Response", "Handoff", "ClientData", "ClientAdded", "ClientRemoved",
                      "Position", "WeatherProfile"}
    BY DEF Plain, EventOps, Routed
  <1> DEFINE e == Msg(op, kind, source, to, args)
  <1>2. e.op = op /\ e.kind = kind /\ e.source = source /\ e.destination = to /\ e.args = args
    BY DEF Msg
  <1> HIDE DEF e
  <1>3. ValidAddress(e) /\ ValidKind(e)
    BY <1>1, <1>2 DEF ValidAddress, ValidKind
  <1>4. ValidEvent(e)
    BY <1>1, <1>2, <1>3 DEF ValidEvent, EventOps
  <1> QED BY <1>2, <1>4 DEF e

\* An event of an operation that is not relayed comes from no command in particular.
LEMMA OwnOrigin ==
  ASSUME NEW e, NEW c, e.op \notin Routed \cup {"Position", "FlightPlan"}
  PROVE  Origin(e, c)
  BY DEF Origin

\* The code and the description of an error are public.
LEMMA ErrorTextType ==
  ASSUME NEW code \in DOMAIN ErrorText
  PROVE  ErrorText[code][1] \in Public /\ ErrorText[code][2] \in Public
  <1>1. ErrorText[code][1] \in Range(ErrorText[code]) /\ ErrorText[code][2] \in Range(ErrorText[code])
    <2>1. DOMAIN ErrorText[code] = 1 .. 2
      <3>1. code \in {"CallsignInUse", "InvalidCallsign", "AlreadyRegistered", "Syntax", "InvalidSource",
                       "InvalidCredentials", "NoSuchCallsign", "NoFlightPlan", "NoWeather",
                       "InvalidProtocolRevision", "RequestedLevelTooHigh", "Suspended", "UnauthorizedClient"}
        BY DEF ErrorText
      <3>2. /\ DOMAIN ErrorText["CallsignInUse"] = 1 .. 2
            /\ DOMAIN ErrorText["InvalidCallsign"] = 1 .. 2
            /\ DOMAIN ErrorText["AlreadyRegistered"] = 1 .. 2
            /\ DOMAIN ErrorText["Syntax"] = 1 .. 2
            /\ DOMAIN ErrorText["InvalidSource"] = 1 .. 2
            /\ DOMAIN ErrorText["InvalidCredentials"] = 1 .. 2
            /\ DOMAIN ErrorText["NoSuchCallsign"] = 1 .. 2
            /\ DOMAIN ErrorText["NoFlightPlan"] = 1 .. 2
            /\ DOMAIN ErrorText["NoWeather"] = 1 .. 2
            /\ DOMAIN ErrorText["InvalidProtocolRevision"] = 1 .. 2
            /\ DOMAIN ErrorText["RequestedLevelTooHigh"] = 1 .. 2
            /\ DOMAIN ErrorText["Suspended"] = 1 .. 2
            /\ DOMAIN ErrorText["UnauthorizedClient"] = 1 .. 2
        BY DEF ErrorText
      <3> QED BY <3>1, <3>2, Zenon
    <2>2. PICK text : text = ErrorText[code]
      OBVIOUS
    <2>3. 1 \in DOMAIN text /\ 2 \in DOMAIN text
      BY <2>1, <2>2
    <2> QED BY <2>2, <2>3, Zenon DEF Range
  <1>2. Range(ErrorText[code]) \subseteq ServerText
    BY DEF ServerText
  <1> QED BY <1>1, <1>2, PublicSegments

\* An error is a valid event.
LEMMA ErrorMade ==
  ASSUME NEW target \in Public, NEW code \in DOMAIN ErrorText, NEW environment \in Seq(Public)
  PROVE  ValidEvent(error_event(target, code, environment)) /\ error_event(target, code, environment).op = "Error"
  <1>1. PICK one, two : one = ErrorText[code][1] /\ two = ErrorText[code][2]
    OBVIOUS
  <1>2. one \in Public /\ two \in Public
    BY <1>1, ErrorTextType, Zenon
  <1>3. << <<one>>, environment, <<two>> >> \in Seq(Seq(Public))
    BY <1>2
  <1>4. To("Direct", <<target>>).name \in Seq(Public) \ {<<>>}
    <2>1. <<target>> \in Seq(Public) \ {<<>>}
      OBVIOUS
    <2> QED BY <2>1, DestinationNames, Zenon
  <1>5. ValidEvent(Msg("Error", code, "server", To("Direct", <<target>>), << <<one>>, environment, <<two>> >>))
        /\ Msg("Error", code, "server", To("Direct", <<target>>), << <<one>>, environment, <<two>> >>).op = "Error"
    <2>1. PICK to, args : to = To("Direct", <<target>>) /\ args = << <<one>>, environment, <<two>> >>
      OBVIOUS
    <2>2. ValidEvent(Msg("Error", code, "server", to, args)) /\ Msg("Error", code, "server", to, args).op = "Error"
      <3>1. PICK op, server : op = "Error" /\ server = "server"
        OBVIOUS
      <3>2. op \in Plain /\ server \in Public \ {Empty}
        BY <3>1, ServerNames DEF Plain
      <3>3. to.name \in Seq(Public) \ {<<>>} /\ args \in Seq(Seq(Public))
        BY <1>3, <1>4, <2>1, Zenon
      <3>4. PICK e : e = Msg(op, code, server, to, args)
        OBVIOUS
      <3>5. ValidEvent(e) /\ e.op = op
        BY <3>2, <3>3, <3>4, PlainMade
      <3> QED BY <3>1, <3>4, <3>5, Zenon
    <2> QED BY <2>1, <2>2, Zenon
  <1> QED BY <1>1, <1>5, Zenon DEF error_event

\* The codes that the core and the decoders use are those of ErrorCode.
LEMMA Codes ==
  {"CallsignInUse", "InvalidCallsign", "AlreadyRegistered", "Syntax", "InvalidSource", "InvalidCredentials",
   "NoSuchCallsign", "NoFlightPlan", "NoWeather", "InvalidProtocolRevision", "RequestedLevelTooHigh",
   "Suspended", "UnauthorizedClient"} \subseteq DOMAIN ErrorText
  BY DEF ErrorText

\* An event for a command c that the encoders can write and that is c if it is relayed.
Answer(e, c) == ValidEvent(e) /\ Origin(e, c)

\* An error answers any command.
LEMMA ErrorAnswer ==
  ASSUME NEW target \in Public, NEW code \in DOMAIN ErrorText, NEW environment \in Seq(Public), NEW c
  PROVE  Answer(error_event(target, code, environment), c)
  <1>1. PICK e : e = error_event(target, code, environment)
    OBVIOUS
  <1>2. ValidEvent(e) /\ e.op = "Error"
    BY <1>1, ErrorMade, Zenon
  <1>3. Origin(e, c)
    BY <1>2, OwnOrigin DEF Routed
  <1> QED BY <1>1, <1>2, <1>3, Zenon DEF Answer

\* Texts of the server, as environments of errors.
LEMMA Words ==
  /\ \A s \in ServerText \cup {Own} : <<s>> \in Seq(Public)
  /\ <<Empty>> \in Seq(Public) /\ <<"missing $ID">> \in Seq(Public) /\ <<"position type">> \in Seq(Public)
  /\ <<"field is invalid", " reason">> \in Seq(Public)
  <1>1. {Empty, "missing $ID", "position type", "field is invalid", " reason"} \subseteq ServerText
    BY Zenon DEF ServerText
  <1>2. {Empty, "missing $ID", "position type", "field is invalid", " reason"} \subseteq Public
    BY <1>1, PublicSegments
  <1>3. \A s \in Public : <<s>> \in Seq(Public)
    OBVIOUS
  <1>4. \A s \in ServerText \cup {Own} : <<s>> \in Seq(Public)
    BY <1>3, PublicSegments, Zenon
  <1>5. PICK one, two : one = "field is invalid" /\ two = " reason"
    OBVIOUS
  <1>6. <<one, two>> \in Seq(Public)
    <2>1. one \in Public /\ two \in Public
      BY <1>2, <1>5, Zenon
    <2> QED BY <2>1
  <1> QED BY <1>2, <1>3, <1>4, <1>5, <1>6, Zenon

\* What of a command an event may be made of.
LEMMA CommandFields ==
  ASSUME NEW c, ValidCommand(c)
  PROVE  /\ c.source \in Public \ {Empty} /\ c.source \in Public /\ <<c.source>> \in Seq(Public)
         /\ Direct(c.source).name \in Seq(Public) \ {<<>>}
         /\ c.destination.name \in Seq(Public) \ {<<>>}
         /\ c.op # "Login" => c.args \in Seq(Seq(Public))
  <1>1. c.source \in Public \ {Empty} /\ c.destination.name \in Seq(Public) \ {<<>>}
        /\ (c.op # "Login" => c.args \in Seq(Seq(Public)))
    BY DEF ValidCommand, ValidAddress
  <1>2. Direct(c.source).name \in Seq(Public) \ {<<>>}
    BY <1>1, DestinationType
  <1> QED BY <1>1, <1>2

\* A command that is relayed as it is.
LEMMA CommandAnswer ==
  ASSUME NEW c, ValidCommand(c), c.op \in Routed \cup {"Position"},
         c.op = "Position" => validate(c)
  PROVE  Answer(c, c)
  <1>1. ValidEvent(c)
    <2>1. c.op = "Position" => (c.kind = "Pilot" => c.args[1][1] \in {"N", "S", "Y"})
      BY Zenon DEF validate
    <2>2. OfStrings(c) \/ c.op # "Position"
      BY Zenon DEF ValidCommand
    <2> QED BY <2>1, <2>2 DEF ValidCommand, ValidEvent, Routed
  <1>2. Origin(c, c)
    <2>1. c.op # "FlightPlan"
      BY DEF Routed
    <2> QED BY <2>1, Zenon DEF Origin
  <1> QED BY <1>1, <1>2 DEF Answer

\* A filed plan goes to the controllers.
LEMMA PlanAnswer ==
  ASSUME NEW c, ValidCommand(c), c.op = "FlightPlan"
  PROVE  Answer([c EXCEPT !.destination = Atc], c)
  <1>1. PICK e : e = [c EXCEPT !.destination = Atc]
    OBVIOUS
  <1>2. c = Msg("FlightPlan", c.kind, c.source, c.destination, c.args)
    BY Zenon DEF ValidCommand
  <1>3. PICK kind, source, to, args : /\ c = Msg("FlightPlan", kind, source, to, args)
                                      /\ source = c.source /\ args = c.args
    BY <1>2, Zenon
  <1>4. [Msg("FlightPlan", kind, source, to, args) EXCEPT !.destination = Atc]
          = Msg("FlightPlan", kind, source, Atc, args)
    BY DEF Msg
  <1>5. e = Msg("FlightPlan", kind, source, Atc, args)
    BY <1>1, <1>3, <1>4, Zenon
  <1>6. <<"*A">> \in Seq(Public) \ {<<>>}
    BY OwnWords
  <1>7. Atc.name \in Seq(Public) \ {<<>>}
    BY <1>6, DestinationNames, Zenon
  <1>8. source \in Public \ {Empty} /\ args \in Seq(Seq(Public))
    BY <1>3, CommandFields
  <1>9. ValidEvent(e)
    BY <1>5, <1>7, <1>8, EventMade DEF EventOps
  <1>10. Origin(e, c)
    BY <1>1, Zenon DEF Origin
  <1> QED BY <1>1, <1>9, <1>10, Zenon DEF Answer

\* What the server itself tells the sender.
LEMMA ServerAnswer ==
  ASSUME NEW op \in {"Welcome", "WeatherReport", "WeatherProfile", "Pong"}, NEW target \in Public,
         NEW args \in Seq(Seq(Public)), op = "WeatherProfile" => Len(args) = 49,
         NEW c, op = "Pong" => c.op = "Ping" /\ c.destination.to = "Server" /\ target = c.source /\ args = c.args
  PROVE  Answer(ServerMsg(op, target, args), c)
  <1>1. PICK e : e = Msg(op, "Text", "server", Direct(target), args)
    OBVIOUS
  <1>2. Direct(target).name \in Seq(Public) \ {<<>>}
    BY DestinationType
  <1>a. op \in EventOps \ {"Position"}
    BY DEF EventOps, Routed
  <1>b. PICK to : to = Direct(target)
    OBVIOUS
  <1>c. "server" \in Public \ {Empty} /\ to.name \in Seq(Public) \ {<<>>}
    BY <1>2, <1>b, ServerNames
  <1>d. op \notin {"Query", "Response", "Handoff", "ClientData", "ClientAdded", "ClientRemoved"}
    OBVIOUS
  <1>3. ValidEvent(e) /\ e.op = op
    <2>e. Msg(op, "Text", "server", to, args).op = op
      BY DEF Msg
    <2>1. CASE op = "Welcome"
      <3>1. ValidEvent(Msg("Welcome", "Text", "server", to, args))
        BY <1>c, EventMade DEF EventOps, Routed
      <3> QED BY <1>1, <1>b, <2>1, <3>1, <2>e, Zenon
    <2>2. CASE op = "WeatherReport"
      <3>1. ValidEvent(Msg("WeatherReport", "Text", "server", to, args))
        BY <1>c, EventMade DEF EventOps, Routed
      <3> QED BY <1>1, <1>b, <2>2, <3>1, <2>e, Zenon
    <2>3. CASE op = "WeatherProfile"
      <3>1. ValidEvent(Msg("WeatherProfile", "Text", "server", to, args))
        BY <1>c, <2>3, EventMade DEF EventOps, Routed
      <3> QED BY <1>1, <1>b, <2>3, <3>1, <2>e, Zenon
    <2>4. CASE op = "Pong"
      <3>1. ValidEvent(Msg("Pong", "Text", "server", to, args))
        BY <1>c, EventMade DEF EventOps, Routed
      <3> QED BY <1>1, <1>b, <2>4, <3>1, <2>e, Zenon
    <2> QED BY <2>1, <2>2, <2>3, <2>4
  <1>4. Origin(e, c)
    <2>1. CASE op = "Pong"
      BY <1>1, <2>1, Zenon DEF Origin, ServerMsg
    <2>2. CASE op # "Pong"
      <3>1. e.op \notin Routed \cup {"Position", "FlightPlan"}
        BY <1>3, <2>2 DEF Routed
      <3> QED BY <3>1, OwnOrigin, Zenon
    <2> QED BY <2>1, <2>2
  <1> QED BY <1>1, <1>3, <1>4, Zenon DEF ServerMsg, Answer


\* The removal of a client is announced with its account's network id.
LEMMA RemovalAnswer ==
  ASSUME NEW who \in Public \ {Empty}, NEW e \in removal_events(who), NEW c
  PROVE  Answer(e, c)
  <1>1. PICK kind \in {"Atc", "Pilot"}, account \in Accounts :
          e = Msg("ClientRemoved", kind, who, Nowhere, << <<account.id>> >>)
    BY Zenon DEF removal_events
  <1>2. PICK args : args = << <<account.id>> >>
    OBVIOUS
  <1>3. account.id \in Public
    BY SecretsAssumption
  <1>4. args \in Seq(Seq(Public)) /\ args # <<>> /\ args[1] # <<>>
    BY <1>2, <1>3
  <1>5. Nowhere.name \in Seq(Public) \ {<<>>}
    BY DestinationType
  <1>6. e = Msg("ClientRemoved", kind, who, Nowhere, args)
    BY <1>1, <1>2, Zenon
  <1>7. ValidEvent(e) /\ e.op = "ClientRemoved"
    <2>1. /\ e.op = "ClientRemoved" /\ e.kind = kind /\ e.source = who /\ e.destination = Nowhere
          /\ e.args = args
      BY <1>6 DEF Msg
    <2>2. ValidAddress(e) /\ ValidKind(e)
      BY <1>5, <2>1 DEF ValidAddress, ValidKind
    <2> QED BY <1>4, <2>1, <2>2 DEF ValidEvent
  <1>8. Origin(e, c)
    BY <1>7, OwnOrigin DEF Routed
  <1> QED BY <1>7, <1>8 DEF Answer

\* The announcement of a login holds what the account says, the rating and the
\* simulator, and nothing else of the command.
LEMMA LoginAnswer ==
  ASSUME NEW c, ValidCommand(c), c.op = "Login", NEW e \in login_events(c)
  PROVE  Answer(e, c)
  <1>1. \/ \E account \in Accounts :
              e = Msg("ClientAdded", c.kind, c.source, Nowhere,
                      << <<account.id>>, <<account.name>>, c.args[3], c.args[6]>>)
        \/ \E line \in Notices : e = ServerMsg("Welcome", c.source, << <<line>> >>)
    BY Zenon DEF login_events
  <1>2. c.source \in Public \ {Empty} /\ c.source \in Public
    BY CommandFields
  <1>3. ASSUME NEW account \in Accounts,
               e = Msg("ClientAdded", c.kind, c.source, Nowhere,
                       << <<account.id>>, <<account.name>>, c.args[3], c.args[6]>>)
        PROVE  Answer(e, c)
    <2>1. PICK args : args = << <<account.id>>, <<account.name>>, c.args[3], c.args[6]>>
      OBVIOUS
    <2>2. /\ account.id \in Public /\ account.name \in Public
          /\ c.args[3] \in Seq(Public) /\ c.args[6] \in Seq(Public)
      BY SecretsAssumption DEF ValidCommand
    <2>3. args \in Seq(Seq(Public)) /\ Len(args) = 4 /\ args[1] = <<account.id>>
      BY <2>1, <2>2
    <2>4. e = Msg("ClientAdded", c.kind, c.source, Nowhere, args)
      BY <1>3, <2>1, Zenon
    <2>5. Nowhere.name \in Seq(Public) \ {<<>>}
      BY DestinationType
    <2>6. ValidEvent(e) /\ e.op = "ClientAdded"
      <3>1. /\ e.op = "ClientAdded" /\ e.source = c.source /\ e.destination = Nowhere /\ e.args = args
        BY <2>4 DEF Msg
      <3>2. ValidAddress(e) /\ ValidKind(e)
        BY <1>2, <2>5, <3>1 DEF ValidAddress, ValidKind
      <3> QED BY <2>3, <3>1, <3>2 DEF ValidEvent
    <2>7. Origin(e, c)
      BY <2>6, OwnOrigin DEF Routed
    <2> QED BY <2>6, <2>7 DEF Answer
  <1>4. ASSUME NEW line \in Notices, e = ServerMsg("Welcome", c.source, << <<line>> >>) PROVE Answer(e, c)
    <2>1. PICK args : args = << <<line>> >>
      OBVIOUS
    <2>2. line \in Public
      BY PublicSegments
    <2>3. args \in Seq(Seq(Public))
      BY <2>1, <2>2
    <2>4. Answer(ServerMsg("Welcome", c.source, args), c)
      BY <1>2, <2>3, ServerAnswer
    <2> QED BY <1>4, <2>1, <2>4, Zenon
  <1> QED BY <1>1, <1>3, <1>4

\* An identification or a login that is refused is told so, without its password.
LEMMA RefusalAnswer ==
  ASSUME NEW c, ValidCommand(c), c.op \in {"Login", "Identify"}, NEW e \in greeting_errors(c)
  PROVE  Answer(e, c)
  <1>1. c.source \in Public /\ (c.op = "Identify" => c.args[1] \in Seq(Public))
        /\ (c.op = "Login" => c.args[1] \in Seq(Public) /\ c.args[3] \in Seq(Public))
    <2>1. c.op = "Identify" => c.args \in Seq(Seq(Public)) /\ c.args # <<>>
      BY DEF ValidCommand
    <2>2. c.op = "Identify" => c.args[1] \in Seq(Public)
      BY <2>1, FirstAndRest
    <2> QED BY <2>2, CommandFields DEF ValidCommand
  <1>2. CASE c.op = "Identify"
    <2>1. e = error_event(c.source, "UnauthorizedClient", c.args[1])
      BY <1>2, Zenon DEF greeting_errors
    <2> QED BY <1>1, <1>2, <2>1, Codes, ErrorAnswer
  <1>3. CASE c.op = "Login"
    <2>1. \E code \in {"RequestedLevelTooHigh", "InvalidCredentials", "InvalidProtocolRevision", "CallsignInUse",
                        "Suspended", "Syntax", "InvalidSource"},
             environment \in {c.args[3], c.args[1], <<Empty>>, <<"missing $ID">>} :
               e = error_event(c.source, code, environment)
      <3>1. c.op # "Identify"
        BY <1>3
      <3>2. \/ e = error_event(c.source, "RequestedLevelTooHigh", c.args[3])
            \/ e = error_event(c.source, "InvalidCredentials", c.args[1])
            \/ \E code \in {"InvalidProtocolRevision", "CallsignInUse", "Suspended"} :
                 e = error_event(c.source, code, <<Empty>>)
            \/ e = error_event(c.source, "Syntax", <<"missing $ID">>)
            \/ e = error_event(c.source, "InvalidSource", <<Empty>>)
        BY <3>1, Zenon DEF greeting_errors
      <3> QED BY <3>2, Zenon
    <2> QED BY <1>1, <1>3, <2>1, Codes, Words, ErrorAnswer, ZenonT(60)
  <1> QED BY <1>2, <1>3

\* What append_vatsim_login_profile adds.
LEMMA ProfileAnswer ==
  ASSUME NEW c, ValidCommand(c), c.op = "Login", NEW e \in vatsim_login_profile(c)
  PROVE  Answer(e, c)
  <1> DEFINE tell(op, kind, args) == Msg(op, kind, "SERVER", Direct(c.source), args)
  <1>1. c.source \in Public /\ <<c.source>> \in Seq(Public) /\ Direct(c.source).name \in Seq(Public) \ {<<>>}
    BY CommandFields
  <1>2. ASSUME NEW op \in {"Query", "Response"}, NEW kind \in {"Raw", "Capabilities"}, NEW args \in Seq(Seq(Public))
        PROVE  ValidEvent(tell(op, kind, args))
    <2>1. PICK to : to = Direct(c.source)
      OBVIOUS
    <2>2. PICK x : x = Msg(op, kind, "SERVER", to, args)
      OBVIOUS
    <2>3. x.op = op /\ x.kind = kind /\ x.source = "SERVER" /\ x.destination = to /\ x.args = args
      BY <2>2 DEF Msg
    <2>4. ValidAddress(x) /\ ValidKind(x)
      BY <1>1, <2>1, <2>3, ServerNames DEF ValidAddress, ValidKind, QueryKinds
    <2>5. ValidEvent(x)
      BY <2>3, <2>4 DEF ValidEvent, Routed
    <2> QED BY <2>1, <2>2, <2>5, Zenon
  <1>3. \/ e = tell("Query", "Capabilities", <<>>)
        \/ e = tell("Response", "Raw", << <<"IP">>, <<"192.0.2.1">> >>)
        \/ e = tell("Response", "Raw", << <<"ATC">>, <<"N">>, <<c.source>> >>)
        \/ e = tell("Response", "Capabilities", << <<"ATCINFO=1">>, <<"SECPOS=1">> >>)
        \/ e = error_event(c.source, "NoFlightPlan", <<c.source>>)
    BY Zenon DEF vatsim_login_profile
  <1>4. /\ <<"IP">> \in Seq(Public) /\ <<"192.0.2.1">> \in Seq(Public) /\ <<"ATC">> \in Seq(Public)
        /\ <<"N">> \in Seq(Public) /\ <<"ATCINFO=1">> \in Seq(Public) /\ <<"SECPOS=1">> \in Seq(Public)
    BY Words, Zenon DEF ServerText
  <1>5. \A a, b \in Seq(Public) : <<a, b>> \in Seq(Seq(Public))
    OBVIOUS
  <1>6. \A a, b, d \in Seq(Public) : <<a, b, d>> \in Seq(Seq(Public))
    OBVIOUS
  <1>7. <<>> \in Seq(Seq(Public))
    OBVIOUS
  <1>8. /\ << <<"IP">>, <<"192.0.2.1">> >> \in Seq(Seq(Public))
        /\ << <<"ATC">>, <<"N">>, <<c.source>> >> \in Seq(Seq(Public))
        /\ << <<"ATCINFO=1">>, <<"SECPOS=1">> >> \in Seq(Seq(Public))
    BY <1>1, <1>4, <1>5, <1>6, Zenon
  <1>9. ValidEvent(error_event(c.source, "NoFlightPlan", <<c.source>>))
    BY <1>1, Codes, ErrorMade, Zenon
  <1> HIDE DEF tell
  <1>10. ValidEvent(e)
    BY <1>2, <1>3, <1>7, <1>8, <1>9, Zenon
  <1>11. Origin(e, c)
    BY Zenon DEF Origin
  <1> QED BY <1>10, <1>11, Zenon DEF Answer

\* A query is relayed, or answered with a filed plan or an error.
LEMMA QueryAnswer ==
  ASSUME NEW c, ValidCommand(c), c.op = "Query", \A plan \in plans : ValidCommand(plan) /\ plan.op = "FlightPlan",
         NEW e \in query_events(c)
  PROVE  Answer(e, c)
  <1> DEFINE target == IF c.args = <<>> THEN Empty ELSE c.args[1][1]
             known  == c.args # <<>> /\ Len(c.args[1]) = 1 /\ target \in Callsigns
  <1>1. CASE c.destination.to # "Server"
    <2>1. e = c
      BY <1>1, Zenon DEF query_events
    <2> QED BY <2>1, CommandAnswer DEF Routed
  <1>2. CASE c.destination.to = "Server" /\ c.kind # "FlightPlan"
    <2>1. query_events(c) = {}
      BY <1>2, Zenon DEF query_events
    <2> QED BY <2>1
  <1>3. CASE c.destination.to = "Server" /\ c.kind = "FlightPlan"
    <2>1. \/ e = error_event(Own, "Syntax", <<Empty>>)
          \/ known /\ \/ e = error_event(Own, "NoSuchCallsign", <<Upper[target]>>)
                      \/ e = error_event(Own, "NoFlightPlan", <<Empty>>)
                      \/ \E plan \in plans : e = Msg("FlightPlan", "Plan", plan.source, Direct(c.source), plan.args)
      <3>1. query_events(c) =
              IF ~ known THEN {error_event(Own, "Syntax", <<Empty>>)}
              ELSE {error_event(Own, "NoSuchCallsign", <<Upper[target]>>),
                    error_event(Own, "NoFlightPlan", <<Empty>>)}
                   \cup {Msg("FlightPlan", "Plan", plan.source, Direct(c.source), plan.args) :
                            plan \in {p \in plans : p.source = Upper[target]}}
        BY <1>3, Zenon DEF query_events
      <3> HIDE DEF known, target
      <3> QED BY <3>1, Zenon
    <2>2. known => <<Upper[target]>> \in Seq(Public)
      <3>1. SUFFICES ASSUME known PROVE <<Upper[target]>> \in Seq(Public)
        OBVIOUS
      <3>2. c.args \in Seq(Seq(Public)) /\ c.args # <<>> /\ Len(c.args[1]) = 1
        BY <3>1, CommandFields
      <3>3. c.args[1][1] \in Public
        BY <3>2
      <3>4. target \in Public
        BY <3>2, <3>3, Zenon
      <3> HIDE DEF target, known
      <3>5. PICK x : x = Upper[target]
        OBVIOUS
      <3>6. x \in Public
        BY <3>4, <3>5, UpperTypes, PublicSegments
      <3> QED BY <3>5, <3>6
    <2> HIDE DEF known, target
    <2>3. Own \in Public
      BY PublicSegments
    <2>4. ASSUME NEW plan \in plans PROVE Answer(Msg("FlightPlan", "Plan", plan.source, Direct(c.source), plan.args), c)
      <3>1. ValidCommand(plan) /\ plan.op = "FlightPlan"
        OBVIOUS
      <3>2. plan.source \in Public \ {Empty} /\ plan.args \in Seq(Seq(Public))
        BY <3>1, CommandFields
      <3>3. PICK to, x : to = Direct(c.source) /\ x = Msg("FlightPlan", "Plan", plan.source, to, plan.args)
        OBVIOUS
      <3>4. to.name \in Seq(Public) \ {<<>>}
        BY <3>3, CommandFields, Zenon
      <3>5. ValidEvent(x) /\ x.op = "FlightPlan"
        BY <3>2, <3>3, <3>4, PlainMade DEF Plain
      <3>6. Origin(x, c)
        BY <3>5, Zenon DEF Origin
      <3> QED BY <3>3, <3>5, <3>6, Zenon DEF Answer
    <2>5. Answer(error_event(Own, "Syntax", <<Empty>>), c) /\ Answer(error_event(Own, "NoFlightPlan", <<Empty>>), c)
      BY <2>3, Words, Codes, ErrorAnswer, Zenon
    <2>6. known => Answer(error_event(Own, "NoSuchCallsign", <<Upper[target]>>), c)
      BY <2>2, <2>3, Codes, ErrorAnswer, Zenon
    <2> QED BY <2>1, <2>4, <2>5, <2>6, Zenon
  <1> QED BY <1>1, <1>2, <1>3

\* The weather, or an error.
LEMMA WeatherAnswer ==
  ASSUME NEW c, ValidCommand(c), c.op = "WeatherRequest", NEW e \in weather_events(c)
  PROVE  Answer(e, c)
  <1>1. c.args \in Seq(Seq(Public)) /\ c.args # <<>> /\ c.source \in Public
    BY CommandFields DEF ValidCommand
  <1>2. c.args[1] \in Seq(Public)
    BY <1>1, FirstAndRest
  <1>3. \/ e = error_event(Own, "NoWeather", c.args[1])
        \/ \E report \in Reports : e = ServerMsg("WeatherReport", c.source, << <<report>> >>)
        \/ e = ServerMsg("WeatherProfile", c.source, Profile)
    BY Zenon DEF weather_events
  <1>4. Answer(error_event(Own, "NoWeather", c.args[1]), c)
    BY <1>2, PublicSegments, Codes, ErrorAnswer, Zenon
  <1>5. ASSUME NEW report \in Reports PROVE Answer(ServerMsg("WeatherReport", c.source, << <<report>> >>), c)
    <2>1. PICK args : args = << <<report>> >>
      OBVIOUS
    <2>2. report \in Public
      BY PublicSegments
    <2>3. args \in Seq(Seq(Public))
      BY <2>1, <2>2
    <2>4. Answer(ServerMsg("WeatherReport", c.source, args), c)
      BY <1>1, <2>3, ServerAnswer
    <2> QED BY <2>1, <2>4, Zenon
  <1>6. Answer(ServerMsg("WeatherProfile", c.source, Profile), c)
    BY <1>1, SecretsAssumption, RelayAssumption, ServerAnswer
  <1> QED BY <1>3, <1>4, <1>5, <1>6, Zenon

\* What the killed client, the killer and the others are sent.
LEMMA KillAnswer ==
  ASSUME NEW c, ValidCommand(c), c.op = "Kill", NEW e \in kill_events(c)
  PROVE  Answer(e, c)
  <1>1. PICK target : target = c.destination.name[1]
    OBVIOUS
  <1>2. target \in Public \ {Empty} /\ target \in Public
    BY <1>1 DEF ValidCommand
  <1>3. \/ e = error_event(Own, "NoSuchCallsign", <<target>>)
        \/ e = ServerMsg("Welcome", Own, << <<"You are not allowed to kill users!">> >>)
        \/ e = ServerMsg("Welcome", Own, << <<"Attempting to kill">> >>)
        \/ e = Msg("Disconnect", "Text", "SERVER", c.destination, c.args)
        \/ e \in removal_events(target)
    BY <1>1, Zenon DEF kill_events
  <1>4. <<target>> \in Seq(Public)
    BY <1>2
  <1>5. Answer(error_event(Own, "NoSuchCallsign", <<target>>), c)
    BY <1>4, PublicSegments, Codes, ErrorAnswer, Zenon
  <1>6. ASSUME NEW text \in ServerText PROVE Answer(ServerMsg("Welcome", Own, << <<text>> >>), c)
    <2>1. PICK args : args = << <<text>> >>
      OBVIOUS
    <2>2. args \in Seq(Seq(Public)) /\ Own \in Public
      <3>1. text \in Public /\ Own \in Public
        BY PublicSegments, Zenon
      <3> QED BY <2>1, <3>1
    <2>3. Answer(ServerMsg("Welcome", Own, args), c)
      BY <2>2, ServerAnswer
    <2> QED BY <2>1, <2>3, Zenon
  <1>7. "You are not allowed to kill users!" \in ServerText /\ "Attempting to kill" \in ServerText
    BY Zenon DEF ServerText
  <1>8. Answer(Msg("Disconnect", "Text", "SERVER", c.destination, c.args), c)
    <2>1. PICK to, args, x : to = c.destination /\ args = c.args /\ x = Msg("Disconnect", "Text", "SERVER", to, args)
      OBVIOUS
    <2>2. to.name \in Seq(Public) \ {<<>>} /\ args \in Seq(Seq(Public))
      BY <2>1, CommandFields
    <2>3. ValidEvent(x) /\ x.op = "Disconnect"
      BY <2>1, <2>2, ServerNames, PlainMade DEF Plain
    <2>4. Origin(x, c)
      BY <2>3, OwnOrigin DEF Routed
    <2> QED BY <2>1, <2>3, <2>4, Zenon DEF Answer
  <1>9. e \in removal_events(target) => Answer(e, c)
    BY <1>2, RemovalAnswer, Zenon
  <1> QED BY <1>3, <1>5, <1>6, <1>7, <1>8, <1>9, Zenon

\* Every event of a command that is accepted.
LEMMA AcceptedAnswer ==
  ASSUME NEW c, ValidCommand(c), c.op \notin {"Login", "Identify"},
         \A plan \in plans : ValidCommand(plan) /\ plan.op = "FlightPlan", NEW e \in accepted_events(c)
  PROVE  Answer(e, c)
  <1>1. c.op \in {"Noop", "Logoff", "Position", "FlightPlan", "Query", "Ping", "Kill", "WeatherRequest",
                  "Text", "Response", "Pong", "Handoff", "ClientData"}
    BY DEF ValidCommand, AsterTypes
  <1>2. Own \in Public /\ c.source \in Public \ {Empty}
    BY PublicSegments, CommandFields
  <1>3. CASE c.op = "Noop"
    BY <1>3, Zenon DEF accepted_events
  <1>4. CASE c.op = "Logoff"
    <2>1. e \in removal_events(c.source)
      BY <1>4, Zenon DEF accepted_events
    <2> QED BY <1>2, <2>1, RemovalAnswer, Zenon
  <1>5. CASE c.op = "Position"
    <2>1. \/ validate(c) /\ e = c
          \/ e = error_event(Own, "Syntax", <<"position type">>)
          \/ e = error_event(Own, "Syntax", <<"field is invalid", " reason">>)
      BY <1>5, Zenon DEF accepted_events
    <2>2. validate(c) => Answer(c, c)
      BY <1>5, CommandAnswer, Zenon
    <2> QED BY <1>2, <2>1, <2>2, Words, Codes, ErrorAnswer, Zenon
  <1>6. CASE c.op = "FlightPlan"
    <2>1. e = [c EXCEPT !.destination = Atc]
      BY <1>6, Zenon DEF accepted_events
    <2> QED BY <1>6, <2>1, PlanAnswer, Zenon
  <1>7. CASE c.op = "Query"
    <2>1. e \in query_events(c)
      BY <1>7, Zenon DEF accepted_events
    <2> QED BY <1>7, <2>1, QueryAnswer, Zenon
  <1>8. CASE c.op = "Ping"
    <2>1. e = c \/ (c.destination.to = "Server" /\ e = ServerMsg("Pong", c.source, c.args))
      BY <1>8, Zenon DEF accepted_events
    <2>2. Answer(c, c)
      BY <1>8, CommandAnswer DEF Routed
    <2>3. c.destination.to = "Server" => Answer(ServerMsg("Pong", c.source, c.args), c)
      BY <1>2, <1>8, CommandFields, ServerAnswer
    <2> QED BY <2>1, <2>2, <2>3, Zenon
  <1>9. CASE c.op = "Kill"
    <2>1. e \in kill_events(c)
      BY <1>9, Zenon DEF accepted_events
    <2> QED BY <1>9, <2>1, KillAnswer, Zenon
  <1>10. CASE c.op = "WeatherRequest"
    <2>1. e \in weather_events(c)
      BY <1>10, Zenon DEF accepted_events
    <2> QED BY <1>10, <2>1, WeatherAnswer, Zenon
  <1>11. CASE c.op \in {"Text", "Response", "Pong", "Handoff", "ClientData"}
    <2>1. c.op \notin {"Noop", "Logoff", "Position", "FlightPlan", "Query", "Ping", "Kill", "WeatherRequest"}
      BY <1>11
    <2>2. e = c
      BY <2>1, Zenon DEF accepted_events
    <2> QED BY <1>11, <2>2, CommandAnswer DEF Routed
  <1> QED BY <1>1, <1>3, <1>4, <1>5, <1>6, <1>7, <1>8, <1>9, <1>10, <1>11, Zenon

\* Every event of any command is valid, and is known to come from it.
LEMMA EventsAnswer ==
  ASSUME NEW c, ValidCommand(c), \A plan \in plans : ValidCommand(plan) /\ plan.op = "FlightPlan",
         NEW e \in events_of(c)
  PROVE  Answer(e, c)
  <1>1. Own \in Public /\ <<c.source>> \in Seq(Public)
    BY PublicSegments, CommandFields
  <1>2. CASE from.phase # "Active" /\ ~ Greeting(c)
    BY <1>2, Zenon DEF events_of
  <1>3. CASE from.phase # "Active" /\ Greeting(c)
    <2>1. c.op \in {"Login", "Identify"}
      BY <1>3 DEF Greeting
    <2>2. e \in greeting_errors(c) \/ (c.op = "Login" /\ (e \in login_events(c) \/ e \in vatsim_login_profile(c)))
      BY <1>3, Zenon DEF events_of
    <2> QED BY <2>1, <2>2, RefusalAnswer, LoginAnswer, ProfileAnswer, Zenon
  <1>4. CASE from.phase = "Active" /\ Greeting(c)
    <2>1. e = error_event(Own, "AlreadyRegistered", <<Empty>>)
      BY <1>4, Zenon DEF events_of
    <2> QED BY <1>1, <2>1, Words, Codes, ErrorAnswer, Zenon
  <1>5. CASE from.phase = "Active" /\ ~ Greeting(c) /\ c.source # Own
    <2>1. e = error_event(Own, "InvalidSource", <<c.source>>)
      BY <1>5, Zenon DEF events_of
    <2> QED BY <1>1, <2>1, Codes, ErrorAnswer, Zenon
  <1>6. CASE from.phase = "Active" /\ ~ Greeting(c) /\ c.source = Own
    <2>1. e \in accepted_events(c)
      BY <1>6, Zenon DEF events_of
    <2>2. c.op \notin {"Login", "Identify"}
      BY <1>6 DEF Greeting
    <2> QED BY <2>1, <2>2, AcceptedAnswer, Zenon
  <1> QED BY <1>2, <1>3, <1>4, <1>5, <1>6, Zenon

-----------------------------------------------------------------------------
(***************************************************************************)
(* The invariant.                                                          *)
(***************************************************************************)
LEMMA RelayInit == Init => RelayInv
  BY DEF Init, RelayInv, Decoded

\* A frame is decoded.
LEMMA ReceiveInv ==
  ASSUME RelayInv, NEW dialect \in ProtocolDialect, NEW phase \in {"Connected", "Active"},
         NEW frame \in Inbound[dialect], receive(dialect, phase, frame)
  PROVE  RelayInv'
  <1>1. stage = "idle" /\ stage' = "execute" /\ event = Nothing /\ outcome = Nothing
    BY DEF RelayInv, receive
  <1>2. from' = [dialect |-> dialect, phase |-> phase] /\ inbound' = frame /\ result' = decode(dialect, frame)
        /\ event' = event /\ plans' = plans /\ outcome' = outcome
    BY DEF receive
  <1>3. Decoded'
    <2>1. from'.dialect = dialect /\ from'.phase = phase
      BY <1>2
    <2> QED BY <1>2, <2>1, Zenon DEF Decoded
  <1>4. result' # Nothing
    <2>1. Verdict(result')
      BY <1>2, DecodeVerdict, Zenon
    <2> QED BY <2>1 DEF Verdict, Nothing, Ok, Err
  <1> QED BY <1>1, <1>2, <1>3, <1>4 DEF RelayInv

\* A refused frame is answered with an error.
LEMMA RefuseInv ==
  ASSUME RelayInv, refuse
  PROVE  RelayInv'
  <1>1. /\ stage = "execute" /\ stage' = "dispatch" /\ ~ result.ok /\ result # Nothing /\ outcome = Nothing
        /\ UNCHANGED <<from, inbound, result, plans, outcome>>
    BY DEF RelayInv, refuse
  <1>2. PICK f \in FaultSet \ {None} : result = Err(f)
    <2>1. Verdict(result)
      BY <1>1, DecodeVerdict, Zenon DEF RelayInv, Decoded
    <2> QED BY <1>1, <2>1, OkOrErr, Zenon DEF Verdict
  <1>3. result.error.code \in DOMAIN ErrorText
    <2>1. result.error = f
      BY <1>2, OkOrErr, Zenon
    <2>2. f.code \in {"Syntax", "InvalidCallsign", "InvalidSource", "InvalidProtocolRevision"}
      BY DEF FaultSet, None, Syntax, InvalidField, Fault
    <2> QED BY <2>1, <2>2, Codes, Zenon
  <1>4. ValidEvent(event')
    <2>1. PICK target : target = IF from.phase = "Active" THEN Own ELSE "unknown"
      OBVIOUS
    <2>2. target \in Public
      BY <2>1, PublicSegments, OwnWords
    <2>3. event' = error_event(target, result.error.code, <<Empty>>)
      BY <2>1, Zenon DEF refuse
    <2> QED BY <1>3, <2>2, <2>3, Words, ErrorMade, Zenon
  <1> QED BY <1>1, <1>4, Zenon DEF RelayInv, Decoded

\* The core makes an event of a command, and may file a plan.
LEMMA ExecuteInv ==
  ASSUME RelayInv, execute
  PROVE  RelayInv'
  <1>1. /\ stage = "execute" /\ result.ok /\ result # Nothing /\ outcome = Nothing /\ event = Nothing
        /\ UNCHANGED <<from, inbound, result, outcome>>
    BY DEF RelayInv, execute
  <1>2. PICK c : c = result.value
    OBVIOUS
  <1>3. ValidCommand(c)
    BY <1>1, <1>2, CommandValid, Zenon DEF RelayInv
  <1>4. \A plan \in plans : ValidCommand(plan) /\ plan.op = "FlightPlan"
    BY Zenon DEF RelayInv
  <1>5. \A plan \in plans' : ValidCommand(plan) /\ plan.op = "FlightPlan"
    <2>1. \/ plans' = plans
          \/ c.op = "FlightPlan" /\ plans' = {c}
          \/ plans' = {}
      BY <1>2, Zenon DEF execute
    <2> QED BY <1>3, <1>4, <2>1, Zenon
  <1>6. \/ stage' = "dispatch" /\ event' \in events_of(c)
        \/ stage' = "done" /\ event' = Nothing
    BY <1>1, <1>2, Zenon DEF execute
  <1>7. CASE stage' = "dispatch" /\ event' \in events_of(c)
    <2>1. Answer(event', c)
      BY <1>3, <1>4, <1>7, EventsAnswer, Zenon
    <2> QED BY <1>1, <1>2, <1>5, <1>7, <2>1, Zenon DEF RelayInv, Decoded, Answer
  <1>8. CASE stage' = "done" /\ event' = Nothing
    BY <1>1, <1>5, <1>8, Zenon DEF RelayInv, Decoded
  <1> QED BY <1>6, <1>7, <1>8

\* The server's own event.
LEMMA WindDeltaInv ==
  ASSUME RelayInv, wind_delta
  PROVE  RelayInv'
  <1>1. /\ stage = "idle" /\ stage' = "dispatch" /\ result = Nothing /\ outcome = Nothing
        /\ UNCHANGED <<from, inbound, result, plans, outcome>>
    BY DEF RelayInv, wind_delta
  <1>2. ValidEvent(event')
    <2>1. PICK args : args = << <<"5">>, <<"-1">> >>
      OBVIOUS
    <2>2. "5" \in Public /\ "-1" \in Public
      BY OwnWords, Zenon
    <2>3. args \in Seq(Seq(Public))
      BY <2>1, <2>2
    <2>4. PICK x : x = Msg("WindDelta", "Text", "SERVER", Nowhere, args)
      OBVIOUS
    <2>5. ValidEvent(x)
      BY <2>3, <2>4, DestinationType, ServerNames, PlainMade DEF Plain
    <2> QED BY <2>1, <2>4, <2>5, Zenon DEF wind_delta
  <1> QED BY <1>1, <1>2, Zenon DEF RelayInv, Decoded

\* An event is encoded for a recipient.
LEMMA DispatchInv ==
  ASSUME RelayInv, NEW dialect \in ProtocolDialect, dispatch(dialect)
  PROVE  RelayInv'
  <1>1. /\ stage = "dispatch" /\ stage' = "done" /\ ValidEvent(event)
        /\ UNCHANGED <<from, inbound, result, event, plans>>
        /\ outcome' = [dialect |-> dialect, frames |-> encode(dialect, event)]
    BY DEF RelayInv, dispatch
  <1>2. outcome'.dialect = dialect /\ outcome'.frames = encode(dialect, event)
    BY <1>1
  <1> QED BY <1>1, <1>2, Zenon DEF RelayInv, Decoded

\* A listener greets its client.
LEMMA GreetInv ==
  ASSUME RelayInv, NEW dialect \in ProtocolDialect, greet(dialect)
  PROVE  RelayInv'
  <1>1. /\ stage = "idle" /\ stage' = "done" /\ event = Nothing /\ result = Nothing
        /\ UNCHANGED <<from, inbound, result, event, plans>>
        /\ outcome' = [dialect |-> dialect, frames |-> initial_frames(dialect, "challenge")]
    BY DEF RelayInv, greet
  <1>2. outcome'.dialect = dialect /\ outcome'.frames = initial_frames(dialect, "challenge")
    BY <1>1
  <1> QED BY <1>1, <1>2, Zenon DEF RelayInv, Decoded

\* The frame is forgotten.
LEMMA FinishInv ==
  ASSUME RelayInv, finish
  PROVE  RelayInv'
  BY Zenon DEF RelayInv, Decoded, finish

\* Every step preserves the invariant.
LEMMA RelayStep ==
  ASSUME RelayInv, [Next]_vars
  PROVE  RelayInv'
  <1>1. CASE Next
    BY <1>1, ReceiveInv, DispatchInv, GreetInv, RefuseInv, ExecuteInv, WindDeltaInv, FinishInv, Zenon DEF Next
  <1>2. CASE UNCHANGED vars
    <2>1. /\ stage' = stage /\ from' = from /\ inbound' = inbound /\ result' = result /\ event' = event
          /\ plans' = plans /\ outcome' = outcome
      BY <1>2 DEF vars
    <2> QED BY <2>1, Zenon DEF RelayInv, Decoded
  <1> QED BY <1>1, <1>2

\* The invariant holds in every reachable state of the relay.
THEOREM RelayInvariant == Spec => []RelayInv
  BY RelayInit, RelayStep, PTL DEF Spec

-----------------------------------------------------------------------------
(***************************************************************************)
(* What the invariant says of the frames.                                  *)
(***************************************************************************)
LEMMA SentFrames ==
  ASSUME RelayInv, outcome # Nothing, outcome.frames.ok, outcome.dialect # "AsterV1"
  PROVE  /\ Len(outcome.frames.value) \in Nat
         /\ \A i \in 1 .. Len(outcome.frames.value) : Sendable(outcome.frames.value[i])
  <1>1. outcome.dialect \in {"Classic", "Vatsim"}
    BY DEF RelayInv, ProtocolDialect
  <1>2. \/ ValidEvent(event) /\ outcome.frames = encode(outcome.dialect, event)
        \/ outcome.frames = initial_frames(outcome.dialect, "challenge")
    BY Zenon DEF RelayInv
  <1>3. CASE ValidEvent(event) /\ outcome.frames = encode(outcome.dialect, event)
    BY <1>1, <1>3, EncodeSendable, Zenon
  <1>4. CASE outcome.frames = initial_frames(outcome.dialect, "challenge")
    BY <1>1, <1>4, GreetingSendable, Zenon
  <1> QED BY <1>2, <1>3, <1>4

\* A frame whose decoder accepted it was one that could be parsed.
LEMMA AcceptedParses ==
  ASSUME Decoded, result # Nothing, result.ok, from.dialect # "AsterV1"
  PROVE  IsFrame(inbound) /\ parse(inbound).ok
  <1>1. classic_decode(inbound) = IF parse(inbound).ok THEN decode_packet(parse(inbound).value) ELSE Err(Syntax)
    BY Zenon DEF classic_decode
  <1>2. ~ parse(inbound).ok => vatsim_decode(inbound) = classic_decode(inbound)
    BY Zenon DEF vatsim_decode
  <1>3. IsFrame(inbound) /\ (result = classic_decode(inbound) \/ result = vatsim_decode(inbound))
    BY DecodedFamily, Zenon
  <1>4. ~ parse(inbound).ok => result = Err(Syntax)
    BY <1>1, <1>2, <1>3, Zenon
  <1> QED BY <1>3, <1>4, OkOrErr, Zenon

\* The round trip of the envelope, from the invariant.
LEMMA InvRoundTrip ==
  ASSUME RelayInv
  PROVE  EnvelopeRoundTrip
  <1>1. ASSUME outcome # Nothing, outcome.frames.ok, outcome.dialect # "AsterV1",
               NEW i \in 1 .. Len(outcome.frames.value), NEW frame, frame = outcome.frames.value[i]
        PROVE  /\ parse(frame).ok /\ assemble(parse(frame).value) = frame
               /\ Range(<<frame.head>> \o frame.rest) \cap Broken = {}
    <2>1. Sendable(frame)
      BY <1>1, SentFrames, Zenon
    <2>2. PICK head, rest : head = frame.head /\ rest = frame.rest
      OBVIOUS
    <2>3. /\ head \in Public /\ rest \in Seq(Public) /\ head \notin Broken
          /\ \A j \in 1 .. Len(rest) : rest[j] \notin Broken
      BY <2>1, <2>2, Zenon DEF Sendable
    <2>4. Range(<<head>> \o rest) \cap Broken = {}
      <3>1. DOMAIN (<<head>> \o rest) = 1 .. Len(rest) + 1
            /\ \A j \in 1 .. Len(rest) + 1 : (<<head>> \o rest)[j] = IF j = 1 THEN head ELSE rest[j - 1]
        BY <2>3
      <3>2. \A j \in DOMAIN (<<head>> \o rest) : (<<head>> \o rest)[j] \notin Broken
        BY <2>3, <3>1
      <3> QED BY <3>2, Zenon DEF Range
    <2>5. parse(frame).ok /\ assemble(parse(frame).value) = frame
      BY <2>1, Zenon DEF Sendable
    <2> QED BY <2>2, <2>4, <2>5, Zenon
  <1>2. ASSUME result # Nothing, result.ok, from.dialect # "AsterV1"
        PROVE  LET packet == parse(inbound).value
               IN  /\ parse(assemble(packet)) = Ok(packet)
                   /\ inbound.prefix # "@" \/ inbound.head = Empty => assemble(packet) = inbound
    <2>1. IsFrame(inbound) /\ parse(inbound).ok
      BY <1>2, AcceptedParses, Zenon DEF RelayInv
    <2>2. parse(inbound) = Ok(parse(inbound).value)
      <3>1. PICK v : parse(inbound) = Ok(v)
        BY <2>1, Parsed, Zenon
      <3> QED BY <3>1, OkOrErr, Zenon
    <2>3. parse(assemble(parse(inbound).value)) = parse(inbound)
      BY <2>1, PacketRoundTrip, Zenon
    <2>4. inbound.prefix # "@" \/ inbound.head = Empty => assemble(parse(inbound).value) = inbound
      BY <2>1, FrameRoundTrip, Zenon
    <2> QED BY <2>2, <2>3, <2>4, Zenon
  <1> QED BY <1>1, <1>2, Zenon DEF EnvelopeRoundTrip

\* Public arguments hold no secret.
LEMMA PublicText ==
  ASSUME NEW args \in Seq(Seq(Public))
  PROVE  (UNION {ToSet(arg) : arg \in ToSet(args)}) \cap Secrets = {}
  <1>1. \A arg \in ToSet(args) : arg \in Seq(Public)
    BY ElementOfSeq DEF ToSet
  <1>2. \A arg \in ToSet(args) : ToSet(arg) \subseteq Public
    BY <1>1, ElementOfSeq DEF ToSet
  <1> QED BY <1>2 DEF Public

\* No password on the wire, from the invariant.
LEMMA InvNoPassword ==
  ASSUME RelayInv
  PROVE  NoPasswordOnWire
  <1>1. SUFFICES ASSUME Delivered PROVE NoPasswordOnWire
    BY Zenon DEF NoPasswordOnWire
  <1>2. event # Nothing /\ outcome # Nothing /\ outcome.frames.ok /\ ValidEvent(event)
        /\ outcome.frames = encode(outcome.dialect, event)
    BY <1>1, Zenon DEF Delivered, Dispatched, RelayInv
  <1>3. event.op = "ClientAdded" => \E account \in Accounts : event.args[1] = <<account.id>>
    BY <1>2, Zenon DEF ValidEvent
  <1>4. ASSUME outcome.dialect = "AsterV1", NEW i \in 1 .. Len(outcome.frames.value), NEW frame,
               frame = outcome.frames.value[i]
        PROVE  (UNION {ToSet(arg) : arg \in ToSet(frame.message.args)}) \cap Secrets = {}
    <2>1. outcome.frames = aster_encode(event)
      BY <1>2, <1>4, Zenon DEF encode
    <2>2. outcome.frames.value = <<[json |-> TRUE, v |-> 1, message |-> event]>>
      BY <2>1, OkOrErr, Zenon DEF aster_encode
    <2>3. frame.message = event
      <3>1. i = 1
        BY <2>2
      <3> QED BY <1>4, <2>2, <3>1
    <2>4. event.args \in Seq(Seq(Public))
      BY <1>2, Zenon DEF ValidEvent
    <2> QED BY <2>3, <2>4, PublicText, Zenon
  <1>5. ASSUME outcome.dialect # "AsterV1", NEW i \in 1 .. Len(outcome.frames.value), NEW frame,
               frame = outcome.frames.value[i]
        PROVE  ({frame.head} \cup ToSet(frame.rest)) \cap Secrets = {}
    <2>1. Sendable(frame)
      BY <1>2, <1>5, SentFrames, Zenon
    <2>2. PICK head, rest : head = frame.head /\ rest = frame.rest
      OBVIOUS
    <2>3. head \in Public /\ rest \in Seq(Public)
      BY <2>1, <2>2, Zenon DEF Sendable
    <2>4. ToSet(rest) \subseteq Public
      BY <2>3, ElementOfSeq DEF ToSet
    <2>5. ({head} \cup ToSet(rest)) \cap Secrets = {}
      BY <2>3, <2>4 DEF Public
    <2> QED BY <2>2, <2>5, Zenon
  <1>6. ASSUME NEW i \in 1 .. Len(outcome.frames.value)
        PROVE  LET frame == outcome.frames.value[i]
                   sent  == IF outcome.dialect = "AsterV1" THEN UNION {ToSet(arg) : arg \in ToSet(frame.message.args)}
                            ELSE {frame.head} \cup ToSet(frame.rest)
               IN  sent \cap Secrets = {}
    <2>1. PICK frame : frame = outcome.frames.value[i]
      OBVIOUS
    <2>2. CASE outcome.dialect = "AsterV1"
      BY <1>4, <2>1, <2>2, Zenon
    <2>3. CASE outcome.dialect # "AsterV1"
      BY <1>5, <2>1, <2>3, Zenon
    <2> QED BY <2>2, <2>3
  <1> QED BY <1>3, <1>6, Zenon DEF NoPasswordOnWire

\* The order and the consequence of login errors, whatever the frames are.
THEOREM LoginErrors == Spec => []LoginErrorPolicy
  <1>1. RelayInv => LoginErrorPolicy
    BY DecodedPolicy DEF RelayInv
  <1> QED BY <1>1, RelayInvariant, PTL

\* For any segments and any frames: every frame that a classic or VATSIM client is sent,
\* the greeting included, is parsed and written again byte for byte and holds no line
\* delimiter, and every frame that is accepted survives RawPacket::parse and
\* RawPacket::encode, a compact pilot position excepted, which is parsed to the same packet.
THEOREM EnvelopesRoundTrip == Spec => []EnvelopeRoundTrip
  BY InvRoundTrip, RelayInvariant, PTL

\* For any account, any password and any login, accepted or refused: no frame that
\* leaves the server in any dialect holds the password, and a new client is announced with the
\* network id of its account.
THEOREM PasswordsStay == Spec => []NoPasswordOnWire
  BY InvNoPassword, RelayInvariant, PTL

-----------------------------------------------------------------------------
(***************************************************************************)
(* What is relayed reads back as what was sent.                            *)
(***************************************************************************)
\* From what a packet p is written as, a recipient reads a packet with the text t and the destination w.
Reads(p, t, w) ==
  \E r : /\ classic_decode(assemble(p)) = decode_packet(r)
         /\ Kinded(r) /\ Read(r, t, w) /\ r.kind = p.kind /\ r.command = p.command /\ r.source = p.source

\* What is written of a command is parsed to its sender, its destination and its segments.
LEMMA CommandReads ==
  ASSUME NEW kind \in {"#", "$", "!", "&", "-"}, NEW command, command \notin {"DI", "?"}, NEW source \in Segment,
         NEW w \in Segment, NEW fields \in Seq(Seq(Segment)), NEW t, t = FlattenSeq(fields)
  PROVE  Reads(Packet(kind, command, source, <<w>>, fields), t, w)
  <1>1. PICK p : p = Packet(kind, command, source, <<w>>, fields)
    OBVIOUS
  <1>2. p.kind = kind /\ p.command = command /\ p.source = source /\ p.destination = <<w>> /\ p.fields = fields
    BY <1>1 DEF Packet
  <1>3. PICK rest : rest = <<w>> \o t
    OBVIOUS
  <1>4. PICK f : f = Frame(kind, command, source, rest)
    OBVIOUS
  <1>5. assemble(p) = f
    BY <1>2, <1>3, <1>4, AssembleCases, Zenon
  <1>6. f.prefix = kind /\ f.command = command /\ f.head = source /\ f.rest = rest
    BY <1>4 DEF Frame
  <1>7. t \in Seq(Segment)
    BY FlattenType, Zenon
  <1>8. rest[1] = w /\ Tail(rest) = t /\ rest # <<>>
    BY <1>3, <1>7, Prepended, PrependedTail, Zenon
  <1>9. PICK r : r = Packet(kind, command, source, <<w>>, Single(t))
    OBVIOUS
  <1>10. parse(f) = Ok(r)
    <2>1. parse(f) = parse_command(f)
      BY <1>6, Zenon DEF parse
    <2>2. parse_command(f) = Ok(r)
      BY <1>6, <1>8, <1>9, Zenon DEF parse_command
    <2> QED BY <2>1, <2>2, Zenon
  <1>11. classic_decode(f) = decode_packet(r)
    BY <1>10, OkOrErr, Zenon DEF classic_decode
  <1>12. /\ r.kind = kind /\ r.command = command /\ r.source = source /\ r.destination = <<w>>
         /\ r.fields = Single(t)
    BY <1>9 DEF Packet
  <1>13. Kinded(r) /\ Read(r, t, w)
    BY <1>7, <1>12 DEF Kinded, Read
  <1>14. Reads(p, t, w)
    BY <1>2, <1>5, <1>11, <1>12, <1>13, Zenon DEF Reads
  <1> QED BY <1>1, <1>14, Zenon

\* The same of a position.
LEMMA PositionReads ==
  ASSUME NEW kind \in {"@", "%"}, NEW command, kind = "@" => command \in {"N", "S", "Y"},
         kind = "%" => command = Empty, NEW source \in Segment \ {Empty}, NEW t \in Seq(Segment)
  PROVE  Reads(Packet(kind, command, source, <<Empty>>, Single(t)), t, Empty)
  <1>1. PICK r : r = Packet(kind, command, source, <<Empty>>, Single(t))
    OBVIOUS
  <1>2. r.kind = kind /\ r.command = command /\ r.source = source /\ r.destination = <<Empty>> /\ r.fields = Single(t)
    BY <1>1 DEF Packet
  <1>3. command # "DI"
    BY EmptyIsNoCommand
  <1>4. FlattenSeq(Single(t)) = t
    BY FlattenSingle, Zenon
  <1>5. parse(assemble(r)) = Ok(r)
    <2>1. CASE kind = "@"
      <3>1. PICK rest : rest = <<source>> \o t
        OBVIOUS
      <3>2. PICK f : f = Frame("@", command, Empty, rest)
        OBVIOUS
      <3>3. assemble(r) = f
        BY <1>2, <1>3, <1>4, <2>1, <3>1, <3>2, AssembleCases, Zenon
      <3>4. f.prefix = "@" /\ f.command = command /\ f.head = Empty /\ f.rest = rest
        BY <3>2 DEF Frame
      <3>5. source \in Segment /\ source # Empty
        OBVIOUS
      <3>6. rest[1] = source /\ Tail(rest) = t /\ rest # <<>>
        BY <3>1, <3>5, Prepended, PrependedTail, Zenon
      <3>7. parse(f) = parse_pilot(f)
        BY <3>4, Zenon DEF parse
      <3>8. parse_pilot(f) = Ok(r)
        BY <1>1, <2>1, <3>4, <3>5, <3>6, Zenon DEF parse_pilot
      <3> QED BY <3>3, <3>7, <3>8, Zenon
    <2>2. CASE kind = "%"
      <3>1. PICK f : f = Frame("%", Empty, source, t)
        OBVIOUS
      <3>2. assemble(r) = f
        BY <1>2, <1>3, <1>4, <2>2, <3>1, AssembleCases, Zenon
      <3>3. f.prefix = "%" /\ f.command = Empty /\ f.head = source /\ f.rest = t
        BY <3>1 DEF Frame
      <3>4. parse(f) = parse_atc(f)
        BY <3>3, Zenon DEF parse
      <3>5. source # Empty
        OBVIOUS
      <3>6. parse_atc(f) = Ok(r)
        BY <1>1, <2>2, <3>3, <3>5, Zenon DEF parse_atc
      <3> QED BY <3>2, <3>4, <3>6, Zenon
    <2> QED BY <2>1, <2>2
  <1>6. classic_decode(assemble(r)) = decode_packet(r)
    BY <1>5, OkOrErr, Zenon DEF classic_decode
  <1>7. Kinded(r) /\ Read(r, t, Empty)
    BY <1>2, PacketAssumption DEF Kinded, Read
  <1>8. Reads(r, t, Empty)
    BY <1>6, <1>7, Zenon DEF Reads
  <1> QED BY <1>1, <1>8, Zenon

\* A destination is written as a name that is read as the same destination, and that is
\* the one it was read from, up to its case.
LEMMA DestinationReads ==
  ASSUME NEW value \in Segment, destination(value) # Nowhere
  PROVE  \E w \in Segment : /\ destination(value).name = <<w>> /\ destination(w) = destination(value)
                            /\ w \in {value, Upper[value]}
  <1>1. PICK d : d = destination(value)
    OBVIOUS
  <1>2. PICK u : u = Upper[value]
    OBVIOUS
  <1>3. u \in Segment /\ Upper[u] = u
    BY <1>2, UpperTypes
  <1>4. {"SERVER", "*", "*A", "*P"} \subseteq Segment
    BY OwnWords, PublicSegments
  <1>5. CASE u = "SERVER"
    <2>1. d = Server
      BY <1>1, <1>2, <1>5, Zenon DEF destination
    <2>2. destination("SERVER") = Server
      BY <1>3, <1>5, Zenon DEF destination
    <2> QED BY <1>1, <1>2, <1>4, <1>5, <2>1, <2>2, DestinationNames, Zenon
  <1>6. CASE u # "SERVER" /\ value = "*"
    <2>1. d = To("All", <<"*">>) /\ destination(value) = d
      BY <1>1, <1>2, <1>6, Zenon DEF destination
    <2>2. To("All", <<"*">>).name = <<"*">>
      BY DestinationNames, Zenon
    <2>3. d.name = <<value>>
      BY <1>6, <2>1, <2>2, Zenon
    <2> QED BY <1>1, <2>3, Zenon
  <1>7. CASE u # "SERVER" /\ value # "*" /\ u = "*A"
    <2>1. d = Atc
      BY <1>1, <1>2, <1>7, Zenon DEF destination
    <2>2. destination("*A") = Atc
      BY <1>3, <1>7, Zenon DEF destination
    <2> QED BY <1>1, <1>2, <1>4, <1>7, <2>1, <2>2, DestinationNames, Zenon
  <1>8. CASE u # "SERVER" /\ value # "*" /\ u # "*A" /\ u = "*P"
    <2>1. d = To("Pilots", <<"*P">>)
      BY <1>1, <1>2, <1>8, Zenon DEF destination
    <2>2. destination("*P") = To("Pilots", <<"*P">>)
      BY <1>3, <1>8, Zenon DEF destination
    <2>3. To("Pilots", <<"*P">>).name = <<"*P">>
      BY DestinationNames, Zenon
    <2>4. d.name = <<"*P">>
      BY <2>1, <2>3, Zenon
    <2> QED BY <1>1, <1>2, <1>4, <1>8, <2>1, <2>2, <2>4, Zenon
  <1>9. CASE u # "SERVER" /\ value # "*" /\ u # "*A" /\ u # "*P" /\ value \in Ranges
    <2>1. d = To("Range", <<value>>)
      BY <1>1, <1>2, <1>9, Zenon DEF destination
    <2>2. To("Range", <<value>>).name = <<value>>
      BY DestinationNames, Zenon
    <2>3. d.name = <<value>>
      BY <2>1, <2>2, Zenon
    <2> QED BY <1>1, <2>3, Zenon
  <1>10. CASE u # "SERVER" /\ value # "*" /\ u # "*A" /\ u # "*P" /\ value \notin Ranges /\ value \in Callsigns
    <2>1. d = Direct(u)
      BY <1>1, <1>2, <1>10, Zenon DEF destination
    <2>2. u \in Callsigns /\ u \notin Ranges /\ u # "*"
      <3>1. u \in Callsigns
        BY <1>2, <1>10, UpperTypes, Zenon
      <3>2. Callsigns \subseteq Segment \ {Empty, "*", "*A", "*P"} /\ Ranges \subseteq Segment \ Callsigns
        BY DialectsAssumption
      <3> QED BY <3>1, <3>2
    <2>3. destination(u) = Direct(u)
      BY <1>3, <1>10, <2>2, Zenon DEF destination
    <2>4. d.name = <<u>>
      BY <2>1, DestinationNames, Zenon
    <2> QED BY <1>1, <1>2, <1>3, <2>1, <2>3, <2>4, Zenon
  <1>11. CASE u # "SERVER" /\ value # "*" /\ u # "*A" /\ u # "*P" /\ value \notin Ranges /\ value \notin Callsigns
    BY <1>2, <1>11, Zenon DEF destination
  <1> QED BY <1>5, <1>6, <1>7, <1>8, <1>9, <1>10, <1>11, Zenon

\* The one frame of an event with one packet.
LEMMA Written ==
  ASSUME NEW e, NEW p, classic_packets(e) = <<p>>, classic_encode(e).ok
  PROVE  classic_encode(e).value[1] = assemble(p)
  <1> DEFINE max == CLASSIC_MAX_FRAME_BYTES
             results == [i \in 1 .. Len(<<p>>) |-> encode_packet(<<p>>[i], max)]
             values == [i \in 1 .. Len(<<p>>) |-> results[i].value]
  <1>1. classic_encode(e) = frames(<<p>>, max)
    BY Zenon DEF classic_encode
  <1>2. \A i \in 1 .. Len(<<p>>) : results[i].ok
    <2>1. ~ (\A i \in 1 .. Len(<<p>>) : results[i].ok) => frames(<<p>>, max) = Err(Fault("Encoding", "Syntax"))
      BY Zenon DEF frames
    <2> QED BY <1>1, <2>1, OkOrErr, Zenon
  <1>3. frames(<<p>>, max) = Ok(values)
    BY <1>2, Zenon DEF frames
  <1>4. 1 \in 1 .. Len(<<p>>) /\ <<p>>[1] = p
    OBVIOUS
  <1>5. encode_packet(p, max).ok /\ values[1] = encode_packet(p, max).value
    BY <1>2, <1>4, Zenon
  <1>6. encode_packet(p, max) = Ok(assemble(p))
    <2>1. encode_packet(p, max) \in {Err("FrameTooLong"), Err("EmbeddedDelimiter"), Ok(assemble(p))}
      BY Zenon DEF encode_packet
    <2> QED BY <1>5, <2>1, OkOrErr, Zenon
  <1> HIDE DEF values, results, max
  <1>7. classic_encode(e).value = values
    BY <1>1, <1>3, OkOrErr, Zenon
  <1>8. values[1] = assemble(p)
    BY <1>5, <1>6, OkOrErr, Zenon
  <1> QED BY <1>7, <1>8, Zenon

\* A classic recipient of the event e reads the command c.
ReadsBack(e, c) == \E p : classic_packets(e) = <<p>> /\ classic_decode(assemble(p)) = Ok(c)

\* What is written of a packet with this sender, destination and text: names may be in upper
\* case now, and all else is as it was.
Letters == {"TM", "PI", "PO", "CQ", "CR", "HO", "HA", "SB", "PC", "CI", "C?"}

KeptText(fields, t, segments) ==
  /\ fields \in Seq(Seq(Segment)) /\ t \in Seq(Segment) /\ t = FlattenSeq(fields) /\ Len(t) = Len(segments)
  /\ \A i \in 1 .. Len(t) : t[i] \in {segments[i], Upper[segments[i]]}

Kept(e, source, to, segments) ==
  \E kind \in {"#", "$", "!", "&", "-"}, command \in Letters, w \in {to, Upper[to]} : \E fields, t :
    /\ classic_packets(e) = <<Packet(kind, command, Upper[source], <<w>>, fields)>>
    /\ KeptText(fields, t, segments)

\* An accepted packet of a command, and what its sender and its destination become.
LEMMA Addressed ==
  ASSUME NEW q, NEW segments, NEW to, Read(q, segments, to), q.source \in Callsigns, destination(to) # Nowhere
  PROVE  /\ \E w \in Segment : /\ destination(to).name = <<w>> /\ destination(w) = destination(to)
                               /\ w \in {to, Upper[to]}
         /\ Upper[q.source] \in Callsigns /\ Upper[q.source] \in Segment /\ Upper[q.source] # Empty
         /\ Upper[Upper[q.source]] = Upper[q.source]
  <1>1. to \in Segment /\ q.source \in Segment
    BY DEF Read
  <1> QED BY <1>1, DestinationReads, UpperTypes, Zenon

\* Two equal answers hold the same command.
LEMMA OkInjective ==
  ASSUME NEW a, NEW b, Ok(a) = Ok(b)
  PROVE  a = b
  BY OkOrErr, Zenon

\* A routed message is one packet.
LEMMA RoutedPackets ==
  ASSUME NEW e, e.op \in {"Text", "Ping", "Pong", "Handoff", "ClientData"}
  PROVE  classic_packets(e) = <<encode_routed(e)>>
  <1>1. e.op \notin {"WeatherProfile", "Error", "Welcome", "ClientAdded", "ClientRemoved", "Position", "FlightPlan",
                     "Query", "Response"}
    OBVIOUS
  <1> QED BY <1>1, Zenon DEF classic_packets

\* The payload of a text: an absent one becomes an empty segment, and stays one.
LEMMA JoinedPayload ==
  ASSUME NEW q, NEW segments, NEW to, Read(q, segments, to), NEW joined, joined = join(q.fields)
  PROVE  /\ joined \in Seq(Segment) /\ <<joined>> \in Seq(Seq(Segment)) /\ joined # <<>> /\ Len(joined) >= 1
         /\ FlattenSeq(<<joined>>) = joined /\ join(Single(joined)) = joined
         /\ segments # <<>> => joined = segments
  <1>1. segments \in Seq(Segment) /\ q.fields = Single(segments) /\ Empty \in Segment
    BY PacketAssumption DEF Read
  <1>2. joined = (IF segments = <<>> THEN <<Empty>> ELSE segments) /\ joined \in Seq(Segment)
        /\ <<joined>> \in Seq(Seq(Segment))
    BY <1>1, JoinedFields, Zenon
  <1>3. joined # <<>>
    BY <1>2
  <1>4. Len(joined) >= 1
    BY <1>2, <1>3
  <1>5. join(Single(joined)) = joined
    BY <1>1, <1>2, <1>3, JoinedFields, Zenon
  <1>6. FlattenSeq(<<joined>>) = joined
    BY <1>2, FlattenOne, Zenon
  <1> QED BY <1>2, <1>3, <1>4, <1>5, <1>6

\* A text reads back,
LEMMA TextReadsBack ==
  ASSUME NEW q, NEW segments, NEW to, Read(q, segments, to), Kinded(q), q.kind \in {"#", "$", "!", "&", "-"},
         q.command = "TM", NEW c, decode_packet(q) = Ok(c)
  PROVE  ReadsBack(c, c) /\ Kept(c, q.source, to, segments)
  <1>1. decode_text(q) = Ok(c)
    BY DecodePacketCases, Zenon
  <1>2. q.destination[1] = to
    BY DEF Read
  <1>3. PICK src, d, joined : src = Upper[q.source] /\ d = destination(to) /\ joined = join(q.fields)
    OBVIOUS
  <1>4. Len(q.fields) >= 1 /\ q.source \in Callsigns /\ d # Nowhere /\ c = Msg("Text", "Text", src, d, <<joined>>)
    <2>1. decode_text(q).ok
      BY <1>1, OkOrErr, Zenon
    <2>2. Len(q.fields) >= 1 /\ q.source \in Callsigns /\ destination(q.destination[1]) # Nowhere
      BY <2>1, DecodeText, Zenon
    <2>3. decode_text(q) =
            Ok(Msg("Text", "Text", Upper[q.source], destination(q.destination[1]), <<join(q.fields)>>))
      BY <2>2, DecodeText, Zenon
    <2>4. Ok(c) = Ok(Msg("Text", "Text", src, d, <<joined>>))
      BY <1>1, <1>2, <1>3, <2>3, Zenon
    <2> QED BY <1>2, <1>3, <2>2, <2>4, OkInjective, Zenon
  <1>5. src \in Callsigns /\ src \in Segment /\ Upper[src] = src
    BY <1>3, <1>4, Addressed, Zenon
  <1>6. PICK w \in Segment : d.name = <<w>> /\ destination(w) = d /\ w \in {to, Upper[to]}
    BY <1>3, <1>4, Addressed, Zenon
  <1>7. /\ joined \in Seq(Segment) /\ <<joined>> \in Seq(Seq(Segment)) /\ Len(joined) >= 1
        /\ FlattenSeq(<<joined>>) = joined /\ join(Single(joined)) = joined
    BY <1>3, JoinedPayload, Zenon
  <1>8. PICK r : /\ classic_decode(assemble(Packet("#", "TM", src, <<w>>, <<joined>>))) = decode_packet(r)
                 /\ Kinded(r) /\ Read(r, joined, w) /\ r.kind = "#" /\ r.command = "TM" /\ r.source = src
    <2>1. "TM" \notin {"DI", "?"}
      OBVIOUS
    <2>2. PICK p : p = Packet("#", "TM", src, <<w>>, <<joined>>)
      OBVIOUS
    <2>3. p.kind = "#" /\ p.command = "TM" /\ p.source = src
      BY <2>2 DEF Packet
    <2>4. "#" \in {"#", "$", "!", "&", "-"} /\ joined = FlattenSeq(<<joined>>)
      BY <1>7, Zenon
    <2>5. Reads(p, joined, w)
      BY <1>5, <1>7, <2>1, <2>2, <2>4, CommandReads
    <2> QED BY <2>2, <2>3, <2>5, Zenon DEF Reads
  <1>9. decode_packet(r) = decode_text(r)
    BY <1>8, DecodePacketCases, Zenon
  <1>10. r.fields = Single(joined) /\ Len(r.fields) >= 1 /\ r.destination[1] = w
    BY <1>7, <1>8, SingleType DEF Read
  <1>11. decode_text(r) = Ok(Msg("Text", "Text", Upper[src], destination(w), <<join(r.fields)>>))
    <2>1. Len(r.fields) >= 1 /\ r.source \in Callsigns /\ destination(r.destination[1]) # Nowhere
      BY <1>4, <1>5, <1>6, <1>8, <1>10, Zenon
    <2>2. decode_text(r) =
            Ok(Msg("Text", "Text", Upper[r.source], destination(r.destination[1]), <<join(r.fields)>>))
      BY <2>1, DecodeText, Zenon
    <2> QED BY <1>8, <1>10, <2>2, Zenon
  <1>12. classic_decode(assemble(Packet("#", "TM", src, <<w>>, <<joined>>))) = Ok(c)
    BY <1>4, <1>5, <1>6, <1>7, <1>8, <1>9, <1>10, <1>11, Zenon
  <1>13. classic_packets(c) = <<Packet("#", "TM", src, <<w>>, <<joined>>)>>
    <2>1. c.op = "Text" /\ c.source = src /\ c.destination = d /\ c.args = <<joined>>
      BY <1>4 DEF Msg
    <2>2. encode_routed(c) = Packet("#", "TM", c.source, c.destination.name, c.args)
      BY <2>1, Zenon DEF encode_routed
    <2>3. c.op \in {"Text", "Ping", "Pong", "Handoff", "ClientData"}
      BY <2>1
    <2>4. classic_packets(c) = <<encode_routed(c)>>
      BY <2>3, RoutedPackets
    <2> QED BY <1>6, <2>1, <2>2, <2>4, Zenon
  <1>14. joined = segments
    <2>1. Len(segments) >= 1
      BY <1>4, SingleType DEF Read
    <2>2. segments # <<>>
      BY <2>1
    <2> QED BY <1>3, <2>2, JoinedPayload, Zenon
  <1>15. Kept(c, q.source, to, segments)
    <2>1. "TM" \in Letters /\ "#" \in {"#", "$", "!", "&", "-"}
      BY DEF Letters
    <2>2. KeptText(<<joined>>, joined, segments)
      BY <1>7, <1>14, Zenon DEF KeptText
    <2> QED BY <1>3, <1>6, <1>13, <2>1, <2>2, Zenon DEF Kept
  <1> QED BY <1>12, <1>13, <1>15, Zenon DEF ReadsBack

\* a ping or a pong,
LEMMA PingReadsBack ==
  ASSUME NEW q, NEW segments, NEW to, Read(q, segments, to), Kinded(q), q.kind \in {"#", "$", "!", "&", "-"},
         NEW command \in {"PI", "PO"}, q.command = command, NEW c, decode_packet(q) = Ok(c)
  PROVE  ReadsBack(c, c) /\ (segments # <<>> => Kept(c, q.source, to, segments))
  <1>1. decode_ping_pong(q) = Ok(c)
    BY DecodePacketCases, Zenon
  <1>2. q.destination[1] = to
    BY DEF Read
  <1>3. PICK src, d, joined, op : /\ src = Upper[q.source] /\ d = destination(to) /\ joined = join(q.fields)
                                  /\ op = IF command = "PI" THEN "Ping" ELSE "Pong"
    OBVIOUS
  <1>4. q.source \in Callsigns /\ d # Nowhere /\ c = Msg(op, "Text", src, d, <<joined>>)
    <2>1. decode_ping_pong(q).ok
      BY <1>1, OkOrErr, Zenon
    <2>2. q.source \in Callsigns /\ destination(q.destination[1]) # Nowhere
      BY <2>1, DecodePingPong, Zenon
    <2>3. decode_ping_pong(q) =
            Ok(Msg(IF q.command = "PI" THEN "Ping" ELSE "Pong", "Text", Upper[q.source],
                   destination(q.destination[1]), <<join(q.fields)>>))
      BY <2>2, DecodePingPong, Zenon
    <2>4. Ok(c) = Ok(Msg(op, "Text", src, d, <<joined>>))
      BY <1>1, <1>2, <1>3, <2>3, Zenon
    <2> QED BY <1>2, <1>3, <2>2, <2>4, OkInjective, Zenon
  <1>5. src \in Callsigns /\ src \in Segment /\ Upper[src] = src
    BY <1>3, <1>4, Addressed, Zenon
  <1>6. PICK w \in Segment : d.name = <<w>> /\ destination(w) = d /\ w \in {to, Upper[to]}
    BY <1>3, <1>4, Addressed, Zenon
  <1>7. /\ joined \in Seq(Segment) /\ <<joined>> \in Seq(Seq(Segment))
        /\ FlattenSeq(<<joined>>) = joined /\ join(Single(joined)) = joined
    BY <1>3, JoinedPayload, Zenon
  <1>8. PICK r : /\ classic_decode(assemble(Packet("$", command, src, <<w>>, <<joined>>))) = decode_packet(r)
                 /\ Kinded(r) /\ Read(r, joined, w) /\ r.kind = "$" /\ r.command = command /\ r.source = src
    <2>1. command \notin {"DI", "?"}
      OBVIOUS
    <2>2. PICK p : p = Packet("$", command, src, <<w>>, <<joined>>)
      OBVIOUS
    <2>3. p.kind = "$" /\ p.command = command /\ p.source = src
      BY <2>2 DEF Packet
    <2>4. "$" \in {"#", "$", "!", "&", "-"} /\ joined = FlattenSeq(<<joined>>)
      BY <1>7, Zenon
    <2>5. Reads(p, joined, w)
      BY <1>5, <1>7, <2>1, <2>2, <2>4, CommandReads
    <2> QED BY <2>2, <2>3, <2>5, Zenon DEF Reads
  <1>9. decode_packet(r) = decode_ping_pong(r)
    BY <1>8, DecodePacketCases, Zenon
  <1>10. r.fields = Single(joined) /\ r.destination[1] = w
    BY <1>8 DEF Read
  <1>11. decode_ping_pong(r) = Ok(Msg(op, "Text", Upper[src], destination(w), <<join(r.fields)>>))
    <2>1. r.source \in Callsigns /\ destination(r.destination[1]) # Nowhere
      BY <1>4, <1>5, <1>6, <1>8, <1>10, Zenon
    <2>2. decode_ping_pong(r) =
            Ok(Msg(IF r.command = "PI" THEN "Ping" ELSE "Pong", "Text", Upper[r.source],
                   destination(r.destination[1]), <<join(r.fields)>>))
      BY <2>1, DecodePingPong, Zenon
    <2> QED BY <1>3, <1>8, <1>10, <2>2, Zenon
  <1>12. classic_decode(assemble(Packet("$", command, src, <<w>>, <<joined>>))) = Ok(c)
    BY <1>4, <1>5, <1>6, <1>7, <1>8, <1>9, <1>10, <1>11, Zenon
  <1>13. classic_packets(c) = <<Packet("$", command, src, <<w>>, <<joined>>)>>
    <2>1. c.op = op /\ c.source = src /\ c.destination = d /\ c.args = <<joined>>
      BY <1>4 DEF Msg
    <2>2. c.op \in {"Text", "Ping", "Pong", "Handoff", "ClientData"}
      BY <1>3, <2>1
    <2>3. encode_routed(c) = Packet("$", command, c.source, c.destination.name, c.args)
      <3>1. CASE command = "PI"
        BY <1>3, <2>1, <3>1, Zenon DEF encode_routed
      <3>2. CASE command = "PO"
        BY <1>3, <2>1, <3>2, Zenon DEF encode_routed
      <3> QED BY <3>1, <3>2
    <2>4. classic_packets(c) = <<encode_routed(c)>>
      BY <2>2, RoutedPackets
    <2> QED BY <1>6, <2>1, <2>3, <2>4, Zenon
  <1>14. segments # <<>> => Kept(c, q.source, to, segments)
    <2>1. segments # <<>> => joined = segments
      BY <1>3, JoinedPayload, Zenon
    <2>2. command \in Letters /\ "$" \in {"#", "$", "!", "&", "-"}
      BY DEF Letters
    <2>3. segments # <<>> => KeptText(<<joined>>, joined, segments)
      BY <1>7, <2>1, Zenon DEF KeptText
    <2> QED BY <1>3, <1>6, <1>13, <2>2, <2>3, Zenon DEF Kept
  <1> QED BY <1>12, <1>13, <1>14, Zenon DEF ReadsBack

\* and a handoff or client data.
LEMMA DirectReadsBack ==
  ASSUME NEW q, NEW segments, NEW to, Read(q, segments, to), Kinded(q), q.kind \in {"#", "$", "!", "&", "-"},
         NEW command \in DOMAIN DirectKind, q.command = command, NEW c, decode_packet(q) = Ok(c)
  PROVE  ReadsBack(c, c) /\ Kept(c, q.source, to, segments)
  <1>1. decode_direct_client_command(q) = Ok(c)
    BY DecodePacketCases, Zenon
  <1>2. q.destination[1] = to /\ q.fields = Single(segments) /\ segments \in Seq(Segment)
    BY DEF Read
  <1>3. PICK src, d, op, kind : /\ src = Upper[q.source] /\ d = destination(to) /\ kind = DirectKind[command]
                                /\ op = IF command \in {"HO", "HA"} THEN "Handoff" ELSE "ClientData"
    OBVIOUS
  <1>4. /\ Len(q.fields) >= (IF q.command \in {"HO", "HA", "CI"} THEN 1 ELSE 0)
        /\ q.source \in Callsigns /\ d # Nowhere /\ d.to = "Direct" /\ c = Msg(op, kind, src, d, q.fields)
    <2>1. decode_direct_client_command(q).ok
      BY <1>1, OkOrErr, Zenon
    <2>2. /\ Len(q.fields) >= (IF q.command \in {"HO", "HA", "CI"} THEN 1 ELSE 0) /\ q.source \in Callsigns
          /\ destination(q.destination[1]) # Nowhere /\ destination(q.destination[1]).to = "Direct"
      BY <2>1, DecodeDirect, Zenon
    <2>3. decode_direct_client_command(q) =
            Ok(Msg(IF q.command \in {"HO", "HA"} THEN "Handoff" ELSE "ClientData",
                   DirectKind[q.command], Upper[q.source], destination(q.destination[1]), q.fields))
      BY <2>2, DecodeDirect, Zenon
    <2>4. Ok(c) = Ok(Msg(op, kind, src, d, q.fields))
      BY <1>1, <1>2, <1>3, <2>3, Zenon
    <2> QED BY <1>2, <1>3, <2>2, <2>4, OkInjective, Zenon
  <1>5. src \in Callsigns /\ src \in Segment /\ Upper[src] = src
    BY <1>3, <1>4, Addressed, Zenon
  <1>6. PICK w \in Segment : d.name = <<w>> /\ destination(w) = d /\ w \in {to, Upper[to]}
    BY <1>3, <1>4, Addressed, Zenon
  <1>7. Single(segments) \in Seq(Seq(Segment)) /\ FlattenSeq(Single(segments)) = segments
    BY <1>2, SingleType, FlattenSingle, Zenon
  <1>8. command \in {"HO", "HA", "SB", "PC", "CI", "C?"} /\ NameOf(DirectKind, kind) = command
    <2>1. kind \in HandoffKinds \cup DataKinds
      BY <1>3, DirectKindType, Zenon
    <2>2. NameOf(DirectKind, kind) \in DOMAIN DirectKind /\ DirectKind[NameOf(DirectKind, kind)] = kind
      BY <2>1, DirectNames, Zenon
    <2> QED BY <1>3, <2>2, DirectKindDomain
  <1>9. PICK prefix \in {"#", "$", "!", "&", "-"} : prefix = IF kind \in {"SquawkBox", "ProController"} THEN "#" ELSE "$"
    OBVIOUS
  <1>10. PICK r : /\ classic_decode(assemble(Packet(prefix, command, src, <<w>>, Single(segments)))) = decode_packet(r)
                  /\ Kinded(r) /\ Read(r, segments, w) /\ r.kind = prefix /\ r.command = command /\ r.source = src
    <2>1. command \notin {"DI", "?"}
      BY <1>8
    <2>2. PICK p : p = Packet(prefix, command, src, <<w>>, Single(segments))
      OBVIOUS
    <2>3. p.kind = prefix /\ p.command = command /\ p.source = src
      BY <2>2 DEF Packet
    <2>4. prefix \in {"#", "$", "!", "&", "-"} /\ segments = FlattenSeq(Single(segments))
      BY <1>7, Zenon
    <2>5. Reads(p, segments, w)
      BY <1>5, <1>7, <2>1, <2>2, <2>4, CommandReads
    <2> QED BY <2>2, <2>3, <2>5, Zenon DEF Reads
  <1>11. decode_packet(r) = decode_direct_client_command(r)
    BY <1>10, DecodePacketCases, Zenon
  <1>12. r.fields = q.fields /\ r.destination[1] = w
    BY <1>2, <1>10 DEF Read
  <1>13. decode_direct_client_command(r) = Ok(Msg(op, kind, Upper[src], destination(w), q.fields))
    <2>1. /\ Len(r.fields) >= (IF r.command \in {"HO", "HA", "CI"} THEN 1 ELSE 0) /\ r.source \in Callsigns
          /\ destination(r.destination[1]) # Nowhere /\ destination(r.destination[1]).to = "Direct"
      BY <1>4, <1>5, <1>6, <1>10, <1>12, Zenon
    <2>2. decode_direct_client_command(r) =
            Ok(Msg(IF r.command \in {"HO", "HA"} THEN "Handoff" ELSE "ClientData",
                   DirectKind[r.command], Upper[r.source], destination(r.destination[1]), r.fields))
      BY <2>1, DecodeDirect, Zenon
    <2> QED BY <1>3, <1>10, <1>12, <2>2, Zenon
  <1>14. classic_decode(assemble(Packet(prefix, command, src, <<w>>, Single(segments)))) = Ok(c)
    BY <1>4, <1>5, <1>6, <1>10, <1>11, <1>13, Zenon
  <1>15. classic_packets(c) = <<Packet(prefix, command, src, <<w>>, Single(segments))>>
    <2>1. c.op = op /\ c.kind = kind /\ c.source = src /\ c.destination = d /\ c.args = q.fields
      BY <1>4 DEF Msg
    <2>2. c.op \in {"Text", "Ping", "Pong", "Handoff", "ClientData"}
      BY <1>3, <2>1
    <2>3. encode_routed(c) = Packet(prefix, command, c.source, c.destination.name, c.args)
      <3>1. CASE command \in {"HO", "HA"}
        <4>1. prefix = "$"
          BY <1>3, <1>9, <3>1, DirectKindDomain
        <4>2. op = "Handoff"
          BY <1>3, <3>1, Zenon
        <4>3. encode_routed(c) = Packet("$", NameOf(DirectKind, c.kind), c.source, c.destination.name, c.args)
          BY <2>1, <4>2, Zenon DEF encode_routed
        <4> QED BY <1>8, <2>1, <4>1, <4>3, Zenon
      <3>2. CASE command \notin {"HO", "HA"}
        <4>1. op = "ClientData"
          BY <1>3, <3>2, Zenon
        <4>2. encode_routed(c) = encode_client_data(c)
          BY <2>1, <4>1, Zenon DEF encode_routed
        <4> QED BY <1>8, <1>9, <2>1, <4>2, Zenon DEF encode_client_data
      <3> QED BY <3>1, <3>2
    <2>4. classic_packets(c) = <<encode_routed(c)>>
      BY <2>2, RoutedPackets
    <2> QED BY <1>2, <1>6, <2>1, <2>3, <2>4, Zenon
  <1>16. Kept(c, q.source, to, segments)
    <2>1. command \in Letters
      BY <1>8 DEF Letters
    <2>2. KeptText(Single(segments), segments, segments)
      BY <1>2, <1>7, Zenon DEF KeptText
    <2> QED BY <1>3, <1>6, <1>15, <2>1, <2>2, Zenon DEF Kept
  <1> QED BY <1>14, <1>15, <1>16, Zenon DEF ReadsBack

\* Fields of one segment with one before them.
LEMMA SinglePrepended ==
  ASSUME NEW S, NEW x \in S, NEW t \in Seq(S)
  PROVE  << <<x>> >> \o Single(t) = Single(<<x>> \o t) /\ Tail(Single(<<x>> \o t)) = Single(t)
  <1>1. PICK s, u, v : s = <<x>> \o t /\ u = Single(t) /\ v = Single(s)
    OBVIOUS
  <1>2. s \in Seq(S) /\ Len(s) = Len(t) + 1 /\ s[1] = x /\ \A i \in 1 .. Len(t) : s[i + 1] = t[i]
    BY <1>1
  <1>3. u \in Seq(Seq(S)) /\ Len(u) = Len(t) /\ \A i \in 1 .. Len(t) : u[i] = <<t[i]>>
    BY <1>1, SingleType, Zenon
  <1>4. v \in Seq(Seq(S)) /\ Len(v) = Len(s) /\ \A i \in 1 .. Len(s) : v[i] = <<s[i]>>
    BY <1>1, <1>2, SingleType, Zenon
  <1>5. PICK y : y = <<x>>
    OBVIOUS
  <1>6. y \in Seq(S)
    BY <1>5
  <1>7. <<y>> \o u = v
    <2>1. /\ <<y>> \o u \in Seq(Seq(S)) /\ Len(<<y>> \o u) = Len(t) + 1 /\ (<<y>> \o u)[1] = y
          /\ \A i \in 1 .. Len(t) : (<<y>> \o u)[i + 1] = u[i]
      BY <1>3, <1>6
    <2>2. v[1] = y /\ \A i \in 1 .. Len(t) : v[i + 1] = u[i]
      BY <1>2, <1>3, <1>4, <1>5, SMTT(40)
    <2>3. \A i \in 1 .. Len(t) + 1 : (<<y>> \o u)[i] = v[i]
      <3> TAKE i \in 1 .. Len(t) + 1
      <3>1. CASE i = 1
        BY <2>1, <2>2, <3>1
      <3>2. CASE i # 1
        <4>1. i - 1 \in 1 .. Len(t) /\ (i - 1) + 1 = i
          BY <3>2
        <4> QED BY <2>1, <2>2, <4>1
      <3> QED BY <3>1, <3>2
    <2> HIDE DEF Single
    <2> QED BY <1>2, <1>4, <2>1, <2>3, SeqEqual
  <1>8. Tail(<<y>> \o u) = u
    BY <1>3, <1>6, PrependedTail, Zenon
  <1> QED BY <1>1, <1>5, <1>7, <1>8, Zenon

\* The name of a known kind is the one it was read from, in upper case.
LEMMA QueryNameReads ==
  ASSUME NEW value \in Segment, NEW kind, kind = query_kind(value), kind # "Raw"
  PROVE  /\ NameOf(QueryKind, kind) = Upper[value] /\ Upper[value] \in Segment
         /\ query_kind(Upper[value]) = kind
  <1>1. PICK u : u = Upper[value]
    OBVIOUS
  <1>2. u \in DOMAIN QueryKind /\ kind = QueryKind[u]
    BY <1>1, Zenon DEF query_kind
  <1>3. u \in Segment /\ Upper[u] = u
    BY <1>1, UpperTypes
  <1>4. query_kind(u) = kind
    BY <1>2, <1>3, Zenon DEF query_kind
  <1>5. kind \in QueryKinds
    BY QueryKindType, Zenon
  <1>6. PICK name : name = NameOf(QueryKind, kind)
    OBVIOUS
  <1>7. name \in DOMAIN QueryKind /\ QueryKind[name] = kind
    BY <1>5, <1>6, QueryNames, Zenon
  <1>8. name = u
    BY <1>2, <1>7, QueryKindDomain
  <1> QED BY <1>1, <1>3, <1>4, <1>6, <1>8, Zenon

\* A query or a response reads back: the name of a known kind is now in upper case.
LEMMA QueryReadsBack ==
  ASSUME NEW q, NEW segments, NEW to, Read(q, segments, to), Kinded(q), q.kind \in {"#", "$", "!", "&", "-"},
         NEW command \in {"CQ", "CR"}, q.command = command, NEW c, decode_packet(q) = Ok(c)
  PROVE  ReadsBack(c, c) /\ Kept(c, q.source, to, segments)
  <1>1. decode_query_response(q) = Ok(c)
    BY DecodePacketCases, Zenon
  <1>2. q.destination[1] = to /\ q.fields = Single(segments) /\ segments \in Seq(Segment)
    BY DEF Read
  <1>3. PICK src, d, op, kind, args :
          /\ src = Upper[q.source] /\ d = destination(to) /\ kind = query_kind(q.fields[1][1])
          /\ op = IF command = "CR" THEN "Response" ELSE "Query"
          /\ args = IF kind = "Raw" THEN q.fields ELSE Tail(q.fields)
    OBVIOUS
  <1>4. /\ Len(q.fields) >= (IF q.command = "CR" THEN 2 ELSE 1) /\ q.source \in Callsigns /\ d # Nowhere
        /\ command = "CR" => d.to = "Direct"
        /\ c = Msg(op, kind, src, d, args)
    <2>1. decode_query_response(q).ok
      BY <1>1, OkOrErr, Zenon
    <2>2. /\ Len(q.fields) >= (IF q.command = "CR" THEN 2 ELSE 1) /\ q.source \in Callsigns
          /\ destination(q.destination[1]) # Nowhere
          /\ (q.command = "CR" => destination(q.destination[1]).to = "Direct")
      BY <2>1, DecodeQueryResponse, Zenon
    <2>3. decode_query_response(q) =
               Ok(Msg(IF q.command = "CR" THEN "Response" ELSE "Query", query_kind(q.fields[1][1]),
                 Upper[q.source], destination(q.destination[1]),
                 IF query_kind(q.fields[1][1]) = "Raw" THEN q.fields ELSE Tail(q.fields)))
      BY <2>2, DecodeQueryResponse, Zenon
    <2>4. Ok(c) = Ok(Msg(op, kind, src, d, args))
      BY <1>1, <1>2, <1>3, <2>3, Zenon
    <2> QED BY <1>2, <1>3, <2>2, <2>4, OkInjective, Zenon
  <1>5. src \in Callsigns /\ src \in Segment /\ Upper[src] = src
    BY <1>3, <1>4, Addressed, Zenon
  <1>6. PICK w \in Segment : d.name = <<w>> /\ destination(w) = d /\ w \in {to, Upper[to]}
    BY <1>3, <1>4, Addressed, Zenon
  <1>7. Len(segments) = Len(q.fields) /\ segments # <<>> /\ q.fields[1][1] = segments[1] /\ segments[1] \in Segment
    <2>1. Len(segments) = Len(q.fields)
      BY <1>2, SingleType, Zenon
    <2>2. Len(segments) >= 1 /\ Len(segments) \in Nat
      BY <1>2, <1>4, <2>1
    <2>3. 1 \in 1 .. Len(segments) /\ segments # <<>>
      BY <1>2, <2>2
    <2>4. q.fields[1] = <<segments[1]>>
      BY <1>2, <2>3, SingleType, Zenon
    <2>5. q.fields[1][1] = segments[1]
      BY <2>4
    <2> QED BY <1>2, <2>1, <2>3, <2>5, FirstAndRest, Zenon
  <1>8. PICK t \in Seq(Segment) :
          /\ Len(t) = Len(segments) /\ t # <<>> /\ query_kind(t[1]) = kind
          /\ args = IF kind = "Raw" THEN Single(t) ELSE Tail(Single(t))
          /\ Single(t) = IF kind = "Raw" THEN args ELSE << <<NameOf(QueryKind, kind)>> >> \o args
          /\ \A i \in 1 .. Len(t) : t[i] \in {segments[i], Upper[segments[i]]}
    <2>1. CASE kind = "Raw"
      BY <1>2, <1>3, <1>7, <2>1, Zenon
    <2>2. CASE kind # "Raw"
      <3>1. PICK tl : tl = Tail(segments)
        OBVIOUS
      <3>2. tl \in Seq(Segment) /\ segments = <<segments[1]>> \o tl
        BY <1>2, <1>7, <3>1, FirstAndRest, Zenon
      <3>3. PICK x, name, t : x = segments[1] /\ name = NameOf(QueryKind, kind) /\ t = <<name>> \o tl
        OBVIOUS
      <3>4. name \in Segment /\ query_kind(name) = kind /\ name = Upper[x]
        BY <1>3, <1>7, <2>2, <3>3, QueryNameReads, ZenonT(60)
      <3>5. t \in Seq(Segment) /\ t # <<>> /\ t[1] = name
        <4>1. <<name>> \o tl \in Seq(Segment) /\ <<name>> \o tl # <<>> /\ (<<name>> \o tl)[1] = name
          BY <3>2, <3>4, Prepended
        <4> QED BY <3>3, <4>1, Zenon
      <3>6. Len(t) = Len(segments)
        <4>1. Len(t) = Len(tl) + 1 /\ Len(<<x>> \o tl) = Len(tl) + 1
          BY <3>2, <3>3, <3>4
        <4> QED BY <3>2, <3>3, <4>1, Zenon
      <3>7. << <<name>> >> \o Single(tl) = Single(t) /\ Tail(Single(t)) = Single(tl)
        BY <3>2, <3>3, <3>4, SinglePrepended, Zenon
      <3>8. Tail(Single(segments)) = Single(tl)
        BY <1>7, <3>2, SinglePrepended, ZenonT(60)
      <3>9. args = Single(tl)
        BY <1>2, <1>3, <2>2, <3>8, Zenon
      <3>10. \A i \in 1 .. Len(t) : i = 1 \/ t[i] = segments[i]
        <4>1. PICK s : s = <<x>> \o tl
          OBVIOUS
        <4>2. x \in Segment /\ s = segments
          BY <1>7, <3>2, <3>3, <4>1, Zenon
        <4>3. /\ Len(t) = Len(tl) + 1 /\ Len(tl) \in Nat
              /\ \A i \in 1 .. Len(tl) : t[i + 1] = tl[i] /\ s[i + 1] = tl[i]
          BY <3>2, <3>3, <3>4, <4>1, <4>2
        <4>4. ASSUME NEW i \in 1 .. Len(t), i # 1 PROVE t[i] = s[i]
          <5>1. i - 1 \in 1 .. Len(tl) /\ (i - 1) + 1 = i
            BY <4>3, <4>4
          <5> QED BY <4>3, <5>1
        <4> QED BY <4>2, <4>4, Zenon
      <3>11. \A i \in 1 .. Len(t) : t[i] \in {segments[i], Upper[segments[i]]}
        BY <3>3, <3>4, <3>5, <3>10, Zenon
      <3> QED BY <2>2, <3>3, <3>4, <3>5, <3>6, <3>7, <3>9, <3>11, Zenon
    <2> QED BY <2>1, <2>2
  <1>9. Single(t) \in Seq(Seq(Segment)) /\ t = FlattenSeq(Single(t)) /\ Len(Single(t)) = Len(t)
        /\ Single(t)[1][1] = t[1]
    <2>1. Single(t) \in Seq(Seq(Segment)) /\ t = FlattenSeq(Single(t)) /\ Len(Single(t)) = Len(t)
      BY SingleType, FlattenSingle, Zenon
    <2>2. 1 \in 1 .. Len(t)
      BY <1>8
    <2>3. Single(t)[1] = <<t[1]>>
      BY <2>2, SingleType, Zenon
    <2>4. Single(t)[1][1] = t[1]
      BY <2>3
    <2> QED BY <2>1, <2>4
  <1>10. PICK r : /\ classic_decode(assemble(Packet("$", command, src, <<w>>, Single(t)))) = decode_packet(r)
                  /\ Kinded(r) /\ Read(r, t, w) /\ r.kind = "$" /\ r.command = command /\ r.source = src
    <2>1. command \notin {"DI", "?"} /\ "$" \in {"#", "$", "!", "&", "-"}
      OBVIOUS
    <2>2. PICK p : p = Packet("$", command, src, <<w>>, Single(t))
      OBVIOUS
    <2>3. p.kind = "$" /\ p.command = command /\ p.source = src
      BY <2>2 DEF Packet
    <2>4. Reads(p, t, w)
      BY <1>5, <1>9, <2>1, <2>2, CommandReads
    <2> QED BY <2>2, <2>3, <2>4, Zenon DEF Reads
  <1>11. decode_packet(r) = decode_query_response(r)
    BY <1>10, DecodePacketCases, Zenon
  <1>12. r.fields = Single(t) /\ r.destination[1] = w
    BY <1>10 DEF Read
  <1>13. decode_query_response(r) = Ok(Msg(op, kind, Upper[src], destination(w), args))
    <2>1. /\ Len(r.fields) >= (IF r.command = "CR" THEN 2 ELSE 1) /\ r.source \in Callsigns
          /\ destination(r.destination[1]) # Nowhere
          /\ (r.command = "CR" => destination(r.destination[1]).to = "Direct")
      BY <1>4, <1>5, <1>6, <1>7, <1>8, <1>9, <1>10, <1>12, Zenon
    <2>2. decode_query_response(r) =
               Ok(Msg(IF r.command = "CR" THEN "Response" ELSE "Query", query_kind(r.fields[1][1]),
                 Upper[r.source], destination(r.destination[1]),
                 IF query_kind(r.fields[1][1]) = "Raw" THEN r.fields ELSE Tail(r.fields)))
      BY <2>1, DecodeQueryResponse, Zenon
    <2>3. query_kind(r.fields[1][1]) = kind
      BY <1>8, <1>9, <1>12, Zenon
    <2> QED BY <1>3, <1>8, <1>10, <1>12, <2>2, <2>3, Zenon
  <1>14. classic_decode(assemble(Packet("$", command, src, <<w>>, Single(t)))) = Ok(c)
    BY <1>4, <1>5, <1>6, <1>10, <1>11, <1>13, Zenon
  <1>15. classic_packets(c) = <<Packet("$", command, src, <<w>>, Single(t))>>
    <2>1. c.op = op /\ c.kind = kind /\ c.source = src /\ c.destination = d /\ c.args = args
      BY <1>4 DEF Msg
    <2>2. c.op \in {"Query", "Response"} /\ (IF c.op = "Query" THEN "CQ" ELSE "CR") = command
      BY <1>3, <2>1
    <2>3. encode_query(c) = Packet("$", command, c.source, c.destination.name,
                                   IF c.kind = "Raw" THEN c.args ELSE << <<NameOf(QueryKind, c.kind)>> >> \o c.args)
      BY <2>2, Zenon DEF encode_query
    <2>4. encode_query(c) = Packet("$", command, src, <<w>>, Single(t))
      BY <1>6, <1>8, <2>1, <2>3, Zenon
    <2>5. classic_packets(c) = <<encode_query(c)>>
      <3>1. c.op \notin {"WeatherProfile", "Error", "Welcome", "ClientAdded", "ClientRemoved", "Position", "FlightPlan"}
        BY <2>2
      <3> QED BY <2>2, <3>1, Zenon DEF classic_packets
    <2> QED BY <2>4, <2>5, Zenon
  <1>16. Kept(c, q.source, to, segments)
    <2>1. command \in Letters /\ "$" \in {"#", "$", "!", "&", "-"}
      BY DEF Letters
    <2>2. KeptText(Single(t), t, segments)
      BY <1>8, <1>9, Zenon DEF KeptText
    <2> QED BY <1>3, <1>6, <1>15, <2>1, <2>2, Zenon DEF Kept
  <1> QED BY <1>14, <1>15, <1>16, Zenon DEF ReadsBack

\* Values that were converted are converted to themselves.
LEMMA ConvertedAgain ==
  ASSUME NEW columns \in Seq(ColumnSet), NEW q, NEW segments, NEW to, Read(q, segments, to),
         Len(segments) >= Len(columns), Convertible(columns, segments)
  PROVE  \E t \in Seq(Segment) :
           /\ converted(columns, q) = Single(t) /\ Len(t) = Len(columns) /\ Convertible(columns, t)
           /\ \A i \in 1 .. Len(columns) : columns[i].conversion[t[i]] = t[i]
           /\ \A r, w : Read(r, t, w) => converted(columns, r) = Single(t)
  <1> DEFINE t == [i \in 1 .. Len(columns) |-> columns[i].conversion[segments[i]]]
             v == [i \in 1 .. Len(columns) |-> columns[i].conversion[t[i]]]
  <1>2. /\ converted(columns, q) = Single(t) /\ t \in Seq(Segment) /\ Len(t) = Len(columns)
        /\ \A i \in 1 .. Len(columns) : t[i] \in DOMAIN columns[i].conversion /\ columns[i].conversion[t[i]] = t[i]
    BY ConvertedSegments
  <1>3. Convertible(columns, t)
    BY <1>2, Zenon DEF Convertible
  <1>4. ASSUME NEW r, NEW w, Read(r, t, w) PROVE converted(columns, r) = Single(t)
    <2>1. Len(t) >= Len(columns)
      BY <1>2
    <2> HIDE DEF t
    <2>3. converted(columns, r) = Single(v) /\ v \in Seq(Segment) /\ Len(v) = Len(columns)
      BY <1>3, <1>4, <2>1, ConvertedSegments
    <2>4. \A i \in 1 .. Len(columns) : v[i] = t[i]
      BY <1>2, Zenon
    <2> HIDE DEF v
    <2>5. v = t
      BY <1>2, <2>3, <2>4, SeqEqual
    <2> QED BY <2>3, <2>5, Zenon
  <1> HIDE DEF t
  <1> QED BY <1>2, <1>3, <1>4, Zenon

\* Where the coordinates are among the columns, and the columns with them rewritten.
Places(prefix) == IF prefix = "@" THEN {3, 4} ELSE {5, 6}

Rewritten(t, prefix, f) == [i \in 1 .. Len(t) |-> IF i \in Places(prefix) THEN f[t[i]] ELSE t[i]]

\* A position that was decoded from these columns,
LaidOut(c, t, prefix, command) ==
  /\ t \in Seq(Segment) /\ prefix \in {"@", "%"}
  /\ c.args = << <<command>> >> \o Single(t) /\ c.kind = (IF prefix = "@" THEN "Pilot" ELSE "Atc")

\* and the same with its coordinates rewritten.
RewrittenAs(c, t, prefix, command, f) ==
  /\ Rewritten(t, prefix, f) \in Seq(Segment) /\ Len(Rewritten(t, prefix, f)) = Len(t)
  /\ \A i \in 1 .. Len(t) : Rewritten(t, prefix, f)[i] = IF i \in Places(prefix) THEN f[t[i]] ELSE t[i]
  /\ with_coordinates(c, f) = << <<command>> >> \o Single(Rewritten(t, prefix, f))

\* Rewriting the coordinates of a decoded position rewrites two of its columns.
LEMMA RewrittenArgs ==
  ASSUME NEW c, NEW t, NEW prefix, NEW command, LaidOut(c, t, prefix, command),
         NEW f, \A i \in 1 .. Len(t) : i \in Places(prefix) => f[t[i]] \in Segment
  PROVE  RewrittenAs(c, t, prefix, command, f)
  <1>a. t \in Seq(Segment) /\ prefix \in {"@", "%"} /\ c.args = << <<command>> >> \o Single(t)
        /\ c.kind = (IF prefix = "@" THEN "Pilot" ELSE "Atc")
    BY Zenon DEF LaidOut
  <1>1. PICK u : u = Rewritten(t, prefix, f)
    OBVIOUS
  <1>2. u \in Seq(Segment) /\ Len(u) = Len(t)
        /\ \A i \in 1 .. Len(t) : u[i] = IF i \in Places(prefix) THEN f[t[i]] ELSE t[i]
    <2>1. u = [i \in 1 .. Len(t) |-> IF i \in Places(prefix) THEN f[t[i]] ELSE t[i]]
      BY <1>1 DEF Rewritten
    <2>2. \A i \in 1 .. Len(t) : t[i] \in Segment
      BY <1>a, ElementOfSeq
    <2>3. \A i \in 1 .. Len(t) : u[i] = IF i \in Places(prefix) THEN f[t[i]] ELSE t[i]
      BY <2>1, Zenon
    <2>4. \A i \in 1 .. Len(t) : u[i] \in Segment
      BY <2>2, <2>3, Zenon
    <2> QED BY <1>a, <2>1, <2>3, <2>4
  <1>3. PICK args, fields, T :
          args = << <<command>> >> \o fields /\ fields = Single(t) /\ T = Seq(Segment) \cup {<<command>>}
    OBVIOUS
  <1>4. fields \in Seq(Seq(Segment)) /\ Len(fields) = Len(t) /\ \A i \in 1 .. Len(t) : fields[i] = <<t[i]>>
    BY <1>a, <1>3, SingleType, Zenon
  <1>5. /\ args \in Seq(T) /\ Len(args) = Len(t) + 1 /\ args[1] = <<command>>
        /\ \A i \in 1 .. Len(t) : args[i + 1] = <<t[i]>>
    BY <1>a, <1>3, <1>4
  <1>6. PICK written : written = Single(u)
    OBVIOUS
  <1>7. /\ written \in Seq(Seq(Segment)) /\ Len(written) = Len(t)
        /\ \A i \in 1 .. Len(t) : written[i] = <<u[i]>>
    BY <1>2, <1>6, SingleType, Zenon
  <1>8. PICK z : z = << <<command>> >> \o written
    OBVIOUS
  <1>9. /\ z \in Seq(T) /\ Len(z) = Len(t) + 1 /\ z[1] = <<command>>
        /\ \A i \in 1 .. Len(t) : z[i + 1] = <<u[i]>>
    BY <1>a, <1>3, <1>7, <1>8
  <1>10. PICK places : places = IF c.kind = "Pilot" THEN {4, 5} ELSE {6, 7}
    OBVIOUS
  <1>11. 1 \notin places /\ \A i \in 1 .. Len(t) : i + 1 \in places <=> i \in Places(prefix)
    BY <1>a, <1>10 DEF Places
  <1>12. PICK w : w = [i \in 1 .. Len(args) |-> IF i \in places THEN <<f[args[i][1]]>> ELSE args[i]]
    OBVIOUS
  <1>13. with_coordinates(c, f) = w
    <2>1. c.args = args
      BY <1>a, <1>3
    <2> QED BY <1>10, <1>12, <2>1, Zenon DEF with_coordinates
  <1>14. \A i \in 1 .. Len(args) : w[i] = z[i]
    <2> TAKE i \in 1 .. Len(args)
    <2>1. w[i] = IF i \in places THEN <<f[args[i][1]]>> ELSE args[i]
      BY <1>12, Zenon
    <2>2. CASE i = 1
      BY <1>5, <1>9, <1>11, <2>1, <2>2
    <2>3. CASE i # 1
      <3>1. PICK j \in 1 .. Len(t) : i = j + 1
        BY <1>a, <1>5, <2>3
      <3>2. args[i] = <<t[j]>> /\ z[i] = <<u[j]>> /\ (i \in places <=> j \in Places(prefix))
        BY <1>5, <1>9, <1>11, <3>1, Zenon
      <3>3. args[i][1] = t[j]
        BY <3>2
      <3> QED BY <1>2, <2>1, <3>2, <3>3, Zenon
    <2> QED BY <2>2, <2>3
  <1>15. w = z
    <2>1. \A i \in 1 .. Len(args) : w[i] \in T
      BY <1>a, <1>5, <1>9, <1>14
    <2>2. w \in Seq(T) /\ Len(w) = Len(args)
      BY <1>a, <1>5, <1>12, <2>1
    <2> QED BY <1>a, <1>5, <1>9, <1>14, <2>2, SeqEqual
  <1> QED BY <1>1, <1>2, <1>6, <1>8, <1>13, <1>15, Zenon DEF RewrittenAs

\* What is written of a position from this sender: its columns as they were read, then rounded.
Printed(c, prefix, command, columns, t) ==
  /\ prefix = "@" => command \in {"N", "S", "Y"} /\ columns = PilotColumns /\ c.kind = "Pilot"
  /\ prefix = "%" => command = Empty /\ columns = AtcColumns /\ c.kind = "Atc"
  /\ c.args = << <<command>> >> \o Single(t)
  /\ t \in Seq(Segment) /\ Len(t) = Len(columns)
  /\ \A i \in 1 .. Len(t) : t[i] \in DOMAIN columns[i].conversion /\ columns[i].conversion[t[i]] = t[i]

Placed(c, source) ==
  \E prefix \in {"@", "%"} : \E command, columns, t :
    /\ classic_packets(c) =
         <<Packet(prefix, command, Upper[source], <<Empty>>, Single(Rewritten(t, prefix, Rounded)))>>
    /\ source \in Callsigns /\ Printed(c, prefix, command, columns, t)

\* A position reads back with rounded coordinates: its other numbers are as they were read.
LEMMA PositionReadsBack ==
  ASSUME NEW q, NEW segments, NEW to, Read(q, segments, to), Kinded(q), NEW prefix \in {"@", "%"}, q.kind = prefix,
         NEW c, decode_packet(q) = Ok(c)
  PROVE  ReadsBack(c, Reread(c)) /\ Placed(c, q.source)
  <1>1. decode_position(q) = Ok(c)
    BY DecodePacketCases, Zenon
  <1>2. PICK columns, kind, command, src :
          /\ columns = IF prefix = "@" THEN PilotColumns ELSE AtcColumns
          /\ kind = IF prefix = "@" THEN "Pilot" ELSE "Atc"
          /\ command = q.command /\ src = Upper[q.source]
    OBVIOUS
  <1>3. columns \in Seq(ColumnSet)
    BY <1>2, LayoutType, Zenon
  <1>4. /\ Len(segments) >= Len(columns) /\ q.source \in Callsigns /\ Convertible(columns, segments)
        /\ c = Msg("Position", kind, src, Nowhere, << <<command>> >> \o converted(columns, q))
    <2>1. decode_position(q).ok
      BY <1>1, OkOrErr, Zenon
    <2>2. LET cols == IF q.kind = "@" THEN PilotColumns ELSE AtcColumns
          IN  Len(segments) >= Len(cols) /\ q.source \in Callsigns /\ Convertible(cols, segments)
      BY <2>1, DecodePosition, Zenon
    <2>3. LET cols == IF q.kind = "@" THEN PilotColumns ELSE AtcColumns
          IN  decode_position(q) = Ok(Msg("Position", IF q.kind = "@" THEN "Pilot" ELSE "Atc", Upper[q.source], Nowhere,
                                          << <<q.command>> >> \o converted(cols, q)))
      BY <2>2, DecodePosition, Zenon
    <2>4. Len(segments) >= Len(columns) /\ q.source \in Callsigns /\ Convertible(columns, segments)
      BY <1>2, <2>2, Zenon
    <2>5. Ok(c) = Ok(Msg("Position", kind, src, Nowhere, << <<command>> >> \o converted(columns, q)))
      BY <1>1, <1>2, <2>3, Zenon
    <2> QED BY <2>4, <2>5, OkInjective, Zenon
  <1>5. src \in Callsigns /\ src \in Segment /\ src # Empty /\ Upper[src] = src
    <2>1. q.source \in Segment
      BY DEF Read
    <2> QED BY <1>2, <1>4, <2>1, UpperTypes, Zenon
  <1>6. PICK t \in Seq(Segment) :
          /\ converted(columns, q) = Single(t) /\ Len(t) = Len(columns) /\ Convertible(columns, t)
          /\ \A i \in 1 .. Len(columns) : columns[i].conversion[t[i]] = t[i]
          /\ \A r, w : Read(r, t, w) => converted(columns, r) = Single(t)
    BY <1>3, <1>4, ConvertedAgain, Zenon
  <1>7. prefix = "@" => command \in {"N", "S", "Y"}
    BY <1>2 DEF Kinded
  <1>8. prefix = "%" => command = Empty
    BY <1>2 DEF Kinded
  <1>a. PICK places, reread, u, v :
          /\ places = Places(prefix) /\ reread = [s \in DOMAIN Rounded |-> Decimal[Rounded[s]]]
          /\ u = Rewritten(t, prefix, Rounded) /\ v = Rewritten(t, prefix, reread)
    OBVIOUS
  <1>b. ASSUME NEW i \in 1 .. Len(columns), i \in places
        PROVE  /\ columns[i].conversion = Decimal /\ Rounded[t[i]] \in Segment
               /\ Rounded[t[i]] \in DOMAIN Decimal /\ Decimal[Rounded[t[i]]] \in Segment
               /\ reread[t[i]] = Decimal[Rounded[t[i]]]
    <2>1. columns[i].conversion = Decimal
      BY <1>2, <1>a, <1>b DEF Places, PilotColumns, AtcColumns, Column, Coordinate
    <2>2. t[i] \in DOMAIN Decimal
      BY <1>6, <2>1, Zenon DEF Convertible
    <2>3. DOMAIN Rounded = DOMAIN Decimal /\ Canonical(Rounded) /\ Canonical(Decimal)
      BY DialectsAssumption, Zenon
    <2>4. Rounded[t[i]] \in DOMAIN Decimal
      BY <2>2, <2>3, Zenon DEF Canonical
    <2>5. Decimal[Rounded[t[i]]] \in DOMAIN Decimal /\ DOMAIN Decimal \subseteq Segment
      BY <2>3, <2>4, Zenon DEF Canonical
    <2>6. reread[t[i]] = Decimal[Rounded[t[i]]]
      BY <1>a, <2>2, <2>3, Zenon
    <2> QED BY <2>1, <2>4, <2>5, <2>6
  <1>c. PICK args : args = << <<command>> >> \o Single(t)
    OBVIOUS
  <1>d. c = Msg("Position", kind, src, Nowhere, args)
    BY <1>4, <1>6, <1>c, Zenon
  <1>e. c.op = "Position" /\ c.kind = kind /\ c.source = src /\ c.args = args
    BY <1>d DEF Msg
  <1>f. /\ u \in Seq(Segment) /\ Len(u) = Len(t)
        /\ \A i \in 1 .. Len(t) : u[i] = IF i \in places THEN Rounded[t[i]] ELSE t[i]
        /\ with_coordinates(c, Rounded) = << <<command>> >> \o Single(u)
    <2>1. \A i \in 1 .. Len(t) : i \in Places(prefix) => Rounded[t[i]] \in Segment
      BY <1>6, <1>a, <1>b, Zenon
    <2>2. LaidOut(c, t, prefix, command)
      BY <1>2, <1>c, <1>e, Zenon DEF LaidOut
    <2>3. RewrittenAs(c, t, prefix, command, Rounded)
      BY <2>1, <2>2, RewrittenArgs, Zenon
    <2> QED BY <1>a, <2>3, Zenon DEF RewrittenAs
  <1>g. /\ v \in Seq(Segment) /\ Len(v) = Len(t)
        /\ \A i \in 1 .. Len(t) : v[i] = IF i \in places THEN reread[t[i]] ELSE t[i]
        /\ with_coordinates(c, reread) = << <<command>> >> \o Single(v)
    <2>1. \A i \in 1 .. Len(t) : i \in Places(prefix) => reread[t[i]] \in Segment
      BY <1>6, <1>a, <1>b, Zenon
    <2>2. LaidOut(c, t, prefix, command)
      BY <1>2, <1>c, <1>e, Zenon DEF LaidOut
    <2>3. RewrittenAs(c, t, prefix, command, reread)
      BY <2>1, <2>2, RewrittenArgs, Zenon
    <2> QED BY <1>a, <2>3, Zenon DEF RewrittenAs
  <1>h. Convertible(columns, u) /\ \A i \in 1 .. Len(columns) : columns[i].conversion[u[i]] = v[i]
    <2>1. ASSUME NEW i \in 1 .. Len(columns)
          PROVE  u[i] \in DOMAIN columns[i].conversion /\ columns[i].conversion[u[i]] = v[i]
      <3>1. i \in 1 .. Len(t)
        BY <1>6, Zenon
      <3>2. CASE i \in places
        BY <1>b, <1>f, <1>g, <3>1, <3>2, Zenon
      <3>3. CASE i \notin places
        BY <1>6, <1>f, <1>g, <3>1, <3>3, Zenon DEF Convertible
      <3> QED BY <3>2, <3>3
    <2> QED BY <2>1, Zenon DEF Convertible
  <1>9. PICK r : /\ classic_decode(assemble(Packet(prefix, command, src, <<Empty>>, Single(u)))) = decode_packet(r)
                 /\ Kinded(r) /\ Read(r, u, Empty) /\ r.kind = prefix /\ r.command = command /\ r.source = src
    <2>1. PICK p : p = Packet(prefix, command, src, <<Empty>>, Single(u))
      OBVIOUS
    <2>2. p.kind = prefix /\ p.command = command /\ p.source = src
      BY <2>1 DEF Packet
    <2>3. src \in Segment \ {Empty}
      BY <1>5
    <2>4. Reads(p, u, Empty)
      BY <1>7, <1>8, <1>f, <2>1, <2>3, PositionReads
    <2> QED BY <2>1, <2>2, <2>4, Zenon DEF Reads
  <1>10. decode_packet(r) = decode_position(r)
    BY <1>9, DecodePacketCases, Zenon
  <1>i. converted(columns, r) = Single(v)
    <2>1. PICK w : w = [i \in 1 .. Len(columns) |-> columns[i].conversion[u[i]]]
      OBVIOUS
    <2>2. Len(u) >= Len(columns)
      BY <1>3, <1>6, <1>f
    <2>a. LET values == [i \in 1 .. Len(columns) |-> columns[i].conversion[u[i]]]
          IN  converted(columns, r) = Single(values) /\ values \in Seq(Segment) /\ Len(values) = Len(columns)
      BY <1>3, <1>9, <1>h, <2>2, ConvertedSegments
    <2>3. converted(columns, r) = Single(w) /\ w \in Seq(Segment) /\ Len(w) = Len(columns)
      BY <2>1, <2>a, Zenon
    <2>4. \A i \in 1 .. Len(columns) : w[i] = v[i]
      BY <1>h, <2>1, Zenon
    <2>5. w = v
      BY <1>6, <1>g, <2>3, <2>4, SeqEqual
    <2> QED BY <2>3, <2>5, Zenon
  <1>j. Reread(c) = Msg("Position", kind, src, Nowhere, << <<command>> >> \o Single(v))
    <2>1. PICK x : x = with_coordinates(c, reread)
      OBVIOUS
    <2>2. Reread(c) = [c EXCEPT !.args = x]
      BY <1>a, <1>e, <2>1, Zenon DEF Reread
    <2>3. [Msg("Position", kind, src, Nowhere, args) EXCEPT !.args = x] = Msg("Position", kind, src, Nowhere, x)
      BY DEF Msg
    <2> QED BY <1>d, <1>g, <2>1, <2>2, <2>3, Zenon
  <1>11. decode_position(r) = Ok(Reread(c))
    <2>1. Len(u) >= Len(columns)
      BY <1>3, <1>6, <1>f
    <2>2. LET cols == IF r.kind = "@" THEN PilotColumns ELSE AtcColumns
          IN  Len(u) >= Len(cols) /\ r.source \in Callsigns /\ Convertible(cols, u)
      BY <1>2, <1>5, <1>9, <1>h, <2>1, Zenon
    <2>3. LET cols == IF r.kind = "@" THEN PilotColumns ELSE AtcColumns
          IN  decode_position(r) = Ok(Msg("Position", IF r.kind = "@" THEN "Pilot" ELSE "Atc", Upper[r.source], Nowhere,
                                          << <<r.command>> >> \o converted(cols, r)))
      BY <1>9, <2>2, DecodePosition, Zenon
    <2>4. decode_position(r) = Ok(Msg("Position", kind, src, Nowhere, << <<command>> >> \o converted(columns, r)))
      BY <1>2, <1>5, <1>9, <2>3, Zenon
    <2> QED BY <1>i, <1>j, <2>4, Zenon
  <1>12. classic_packets(c) = <<Packet(prefix, command, src, <<Empty>>, Single(u))>>
    <2>1. PICK fields, columns_read : fields = Single(u) /\ columns_read = Single(t)
      OBVIOUS
    <2>3. c.op = "Position" /\ c.kind = kind /\ c.source = src /\ c.args = args
      BY <1>e
    <2>4. fields \in Seq(Seq(Segment)) /\ columns_read \in Seq(Seq(Segment))
      BY <1>f, <2>1, SingleType, Zenon
    <2>5. args[1][1] = command /\ Tail(with_coordinates(c, Rounded)) = fields
      <3>1. PICK T : T = Seq(Segment) \cup {<<command>>}
        OBVIOUS
      <3>2. <<command>> \in T /\ fields \in Seq(T) /\ columns_read \in Seq(T)
        BY <2>4, <3>1
      <3>3. (<< <<command>> >> \o columns_read)[1] = <<command>> /\ Tail(<< <<command>> >> \o fields) = fields
        BY <3>2, Prepended, PrependedTail, Zenon
      <3>4. <<command>>[1] = command
        OBVIOUS
      <3> QED BY <1>c, <1>f, <2>1, <3>3, <3>4, Zenon
    <2>6. encode_position(c) = Packet(prefix, command, src, <<Empty>>, fields)
      <3>1. CASE prefix = "@"
        BY <1>2, <2>3, <2>5, <3>1, Zenon DEF encode_position
      <3>2. CASE prefix = "%"
        BY <1>2, <1>8, <2>3, <2>5, <3>2, Zenon DEF encode_position
      <3> QED BY <3>1, <3>2
    <2>7. classic_packets(c) = <<encode_position(c)>>
      BY <2>3, Zenon DEF classic_packets
    <2> QED BY <2>1, <2>6, <2>7, Zenon
  <1>13. Placed(c, q.source)
    <2>4. q.source \in Callsigns /\ columns \in {PilotColumns, AtcColumns}
      BY <1>2, <1>4, Zenon
    <2>5. Len(t) = Len(columns)
          /\ \A i \in 1 .. Len(t) : t[i] \in DOMAIN columns[i].conversion /\ columns[i].conversion[t[i]] = t[i]
      BY <1>6, Zenon DEF Convertible
    <2>6. classic_packets(c) =
            <<Packet(prefix, command, Upper[q.source], <<Empty>>, Single(Rewritten(t, prefix, Rounded)))>>
      BY <1>2, <1>12, <1>a, Zenon
    <2>7. c.args = << <<command>> >> \o Single(t) /\ c.kind = (IF prefix = "@" THEN "Pilot" ELSE "Atc")
      BY <1>2, <1>c, <1>e, Zenon
    <2>8. /\ prefix = "@" => columns = PilotColumns /\ c.kind = "Pilot"
          /\ prefix = "%" => columns = AtcColumns /\ c.kind = "Atc"
      BY <1>2, <2>7
    <2>9. Printed(c, prefix, command, columns, t)
      BY <1>7, <1>8, <2>5, <2>7, <2>8, Zenon DEF Printed
    <2> QED BY <2>4, <2>6, <2>9, Zenon DEF Placed
  <1> QED BY <1>9, <1>10, <1>11, <1>12, <1>13, Zenon DEF ReadsBack

\* A plan reads back, although its destination is now the controllers.
LEMMA PlanReadsBack ==
  ASSUME NEW q, NEW segments, NEW to, Read(q, segments, to), Kinded(q), q.kind \in {"#", "$", "!", "&", "-"}, q.command = "FP",
         NEW c, decode_packet(q) = Ok(c), NEW e, e = [c EXCEPT !.destination = Atc]
  PROVE  ReadsBack(e, c)
  <1>1. decode_flight_plan(q) = Ok(c)
    BY DecodePacketCases, Zenon
  <1>2. PICK src, args : src = Upper[q.source] /\ args = converted(PlanColumns, q)
    OBVIOUS
  <1>3. /\ Len(segments) >= 15 /\ q.source \in Callsigns /\ Convertible(PlanColumns, segments)
        /\ c = Msg("FlightPlan", "Plan", src, Nowhere, args)
    <2>1. decode_flight_plan(q).ok
      BY <1>1, OkOrErr, Zenon
    <2>2. Len(segments) >= 15 /\ q.source \in Callsigns /\ Convertible(PlanColumns, segments)
      BY <2>1, DecodeFlightPlan, Zenon
    <2>3. decode_flight_plan(q) = Ok(Msg("FlightPlan", "Plan", Upper[q.source], Nowhere, converted(PlanColumns, q)))
      BY <2>2, DecodeFlightPlan, Zenon
    <2> QED BY <1>1, <1>2, <2>2, <2>3, OkInjective, Zenon
  <1>4. src \in Callsigns /\ src \in Segment /\ Upper[src] = src
    <2>1. q.source \in Segment
      BY DEF Read
    <2> QED BY <1>2, <1>3, <2>1, UpperTypes, Zenon
  <1>5. PICK t \in Seq(Segment) :
          /\ args = Single(t) /\ Len(t) = 15 /\ Convertible(PlanColumns, t)
          /\ \A r, w : Read(r, t, w) => converted(PlanColumns, r) = Single(t)
    <2>1. PlanColumns \in Seq(ColumnSet) /\ Len(PlanColumns) = 15 /\ Len(segments) >= Len(PlanColumns)
      BY <1>3, LayoutType, Zenon
    <2>2. PICK t \in Seq(Segment) :
            /\ converted(PlanColumns, q) = Single(t) /\ Len(t) = Len(PlanColumns) /\ Convertible(PlanColumns, t)
            /\ \A i \in 1 .. Len(PlanColumns) : PlanColumns[i].conversion[t[i]] = t[i]
            /\ \A r, w : Read(r, t, w) => converted(PlanColumns, r) = Single(t)
      BY <1>3, <2>1, ConvertedAgain, ZenonT(60)
    <2> QED BY <1>2, <2>1, <2>2, Zenon
  <1>6. Single(t) \in Seq(Seq(Segment)) /\ t = FlattenSeq(Single(t)) /\ "*A" \in Segment
    <2>1. "*A" \in Segment
      BY OwnWords, PublicSegments
    <2> QED BY <2>1, SingleType, FlattenSingle, Zenon
  <1>7. PICK r : /\ classic_decode(assemble(Packet("$", "FP", src, <<"*A">>, Single(t)))) = decode_packet(r)
                 /\ Kinded(r) /\ Read(r, t, "*A") /\ r.kind = "$" /\ r.command = "FP" /\ r.source = src
    <2>1. "FP" \notin {"DI", "?"} /\ "$" \in {"#", "$", "!", "&", "-"}
      OBVIOUS
    <2>2. PICK p : p = Packet("$", "FP", src, <<"*A">>, Single(t))
      OBVIOUS
    <2>3. p.kind = "$" /\ p.command = "FP" /\ p.source = src
      BY <2>2 DEF Packet
    <2>4. Reads(p, t, "*A")
      BY <1>4, <1>6, <2>1, <2>2, CommandReads
    <2> QED BY <2>2, <2>3, <2>4, Zenon DEF Reads
  <1>8. decode_packet(r) = decode_flight_plan(r)
    BY <1>7, DecodePacketCases, Zenon
  <1>9. decode_flight_plan(r) = Ok(c)
    <2>1. Len(t) >= 15
      BY <1>5
    <2>2. decode_flight_plan(r) = Ok(Msg("FlightPlan", "Plan", Upper[r.source], Nowhere, converted(PlanColumns, r)))
      BY <1>4, <1>5, <1>7, <2>1, DecodeFlightPlan, Zenon
    <2>3. converted(PlanColumns, r) = args
      BY <1>5, <1>7, Zenon
    <2> QED BY <1>3, <1>4, <1>7, <2>2, <2>3, Zenon
  <1>10. classic_packets(e) = <<Packet("$", "FP", src, <<"*A">>, Single(t))>>
    <2>1. [Msg("FlightPlan", "Plan", src, Nowhere, args) EXCEPT !.destination = Atc]
            = Msg("FlightPlan", "Plan", src, Atc, args)
      BY DEF Msg
    <2>2. e = Msg("FlightPlan", "Plan", src, Atc, args)
      BY <1>3, <2>1, Zenon
    <2>3. e.op = "FlightPlan" /\ e.source = src /\ e.destination = Atc /\ e.args = args
      BY <2>2 DEF Msg
    <2>4. e.destination.name = <<"*A">>
      BY <2>3, DestinationNames, Zenon
    <2>5. encode_flight_plan(e) = Packet("$", "FP", src, <<"*A">>, Single(t))
      BY <1>5, <2>3, <2>4, Zenon DEF encode_flight_plan
    <2>6. classic_packets(e) = <<encode_flight_plan(e)>>
      BY <2>3, Zenon DEF classic_packets
    <2> QED BY <2>5, <2>6, Zenon
  <1> QED BY <1>7, <1>8, <1>9, <1>10, Zenon DEF ReadsBack

\* The only command Checked returns is the one it is given.
LEMMA CheckedIs ==
  ASSUME NEW faults, NEW m, NEW c, Checked(faults, m) = Ok(c)
  PROVE  c = m
  <1>1. PICK error : Checked(faults, m) \in {Ok(m), Err(error)}
    BY Zenon DEF Checked
  <1> QED BY <1>1, OkOrErr, ZenonT(60)

\* The commands that become flight plans, and the ones that are never relayed.
LEMMA DecodedOp ==
  ASSUME NEW q, Kinded(q), NEW c, decode_packet(q) = Ok(c)
  PROVE  /\ q.kind \in {"@", "%"} => c.op = "Position"
         /\ q.kind \in {"#", "$", "!", "&", "-"} =>
              /\ q.command \in {"CQ", "CR"} => c.op \in {"Query", "Response"}
              /\ q.command \in DOMAIN DirectKind => c.op \in {"Handoff", "ClientData"}
              /\ q.command = "TM" => c.op = "Text"
              /\ q.command \in {"PI", "PO"} => c.op \in {"Ping", "Pong"}
              /\ q.command = "FP" => c.op = "FlightPlan"
              /\ q.command \in {"WX", "AX"} => c.op \in {"WeatherRequest", "Noop"}
              /\ q.command \in {"AA", "AP"} => c.op = "Login"
              /\ q.command \in {"DA", "DP"} => c.op = "Logoff"
              /\ q.command = "!!" => c.op = "Kill"
              /\ q.command \in {"CQ", "CR", "WX", "AX", "AA", "AP", "DA", "DP", "TM", "FP", "PI", "PO", "!!"}
                                 \cup DOMAIN DirectKind
  <1>1. ASSUME q.kind \in {"@", "%"} PROVE c.op = "Position"
    <2>1. decode_position(q) = Ok(c)
      BY <1>1, DecodePacketCases, Zenon
    <2>2. PICK faults, m, kind, args :
            decode_position(q) = Checked(faults, m) /\ m = Msg("Position", kind, Upper[q.source], Nowhere, args)
      BY Zenon DEF decode_position
    <2>3. Checked(faults, m) = Ok(c)
      BY <2>1, <2>2, Zenon
    <2>4. c = m
      BY <2>3, CheckedIs, Zenon
    <2> QED BY <2>2, <2>4 DEF Msg
  <1>2. ASSUME q.kind \in {"#", "$", "!", "&", "-"}, q.command \in {"CQ", "CR"} PROVE c.op \in {"Query", "Response"}
    <2>1. decode_query_response(q) = Ok(c)
      BY <1>2, DecodePacketCases, Zenon
    <2>2. PICK faults, m, op, kind, to, args :
            /\ decode_query_response(q) = Checked(faults, m) /\ m = Msg(op, kind, Upper[q.source], to, args)
            /\ op = IF q.command = "CR" THEN "Response" ELSE "Query"
      BY Zenon DEF decode_query_response
    <2>3. Checked(faults, m) = Ok(c)
      BY <2>1, <2>2, Zenon
    <2>4. c = m
      BY <2>3, CheckedIs, Zenon
    <2>5. c.op = op
      BY <2>2, <2>4 DEF Msg
    <2> QED BY <2>2, <2>5
  <1>3. ASSUME q.kind \in {"#", "$", "!", "&", "-"}, q.command \in DOMAIN DirectKind PROVE c.op \in {"Handoff", "ClientData"}
    <2>1. decode_direct_client_command(q) = Ok(c)
      BY <1>3, DecodePacketCases, Zenon
    <2>2. PICK faults, m, op, kind, to, args :
            /\ decode_direct_client_command(q) = Checked(faults, m) /\ m = Msg(op, kind, Upper[q.source], to, args)
            /\ op = IF q.command \in {"HO", "HA"} THEN "Handoff" ELSE "ClientData"
      BY Zenon DEF decode_direct_client_command
    <2>3. Checked(faults, m) = Ok(c)
      BY <2>1, <2>2, Zenon
    <2>4. c = m
      BY <2>3, CheckedIs, Zenon
    <2>5. c.op = op
      BY <2>2, <2>4 DEF Msg
    <2> QED BY <2>2, <2>5
  <1>4. ASSUME q.kind \in {"#", "$", "!", "&", "-"}, q.command = "TM" PROVE c.op = "Text"
    <2>1. decode_text(q) = Ok(c)
      BY <1>4, DecodePacketCases, Zenon
    <2>2. PICK faults, m, kind, to, args :
            decode_text(q) = Checked(faults, m) /\ m = Msg("Text", kind, Upper[q.source], to, args)
      BY Zenon DEF decode_text
    <2>3. Checked(faults, m) = Ok(c)
      BY <2>1, <2>2, Zenon
    <2>4. c = m
      BY <2>3, CheckedIs, Zenon
    <2> QED BY <2>2, <2>4 DEF Msg
  <1>5. ASSUME q.kind \in {"#", "$", "!", "&", "-"}, q.command \in {"PI", "PO"} PROVE c.op \in {"Ping", "Pong"}
    <2>1. decode_ping_pong(q) = Ok(c)
      BY <1>5, DecodePacketCases, Zenon
    <2>2. PICK faults, m, op, kind, to, args :
            /\ decode_ping_pong(q) = Checked(faults, m) /\ m = Msg(op, kind, Upper[q.source], to, args)
            /\ op = IF q.command = "PI" THEN "Ping" ELSE "Pong"
      BY Zenon DEF decode_ping_pong
    <2>3. Checked(faults, m) = Ok(c)
      BY <2>1, <2>2, Zenon
    <2>4. c = m
      BY <2>3, CheckedIs, Zenon
    <2>5. c.op = op
      BY <2>2, <2>4 DEF Msg
    <2> QED BY <2>2, <2>5
  <1>6. ASSUME q.kind \in {"#", "$", "!", "&", "-"}, q.command = "FP" PROVE c.op = "FlightPlan"
    <2>1. decode_flight_plan(q) = Ok(c)
      BY <1>6, DecodePacketCases, Zenon
    <2>2. PICK faults, m, kind, args :
            decode_flight_plan(q) = Checked(faults, m) /\ m = Msg("FlightPlan", kind, Upper[q.source], Nowhere, args)
      BY Zenon DEF decode_flight_plan
    <2>3. Checked(faults, m) = Ok(c)
      BY <2>1, <2>2, Zenon
    <2>4. c = m
      BY <2>3, CheckedIs, Zenon
    <2> QED BY <2>2, <2>4 DEF Msg
  <1>7. ASSUME q.kind \in {"#", "$", "!", "&", "-"}, q.command \in {"WX", "AX"} PROVE c.op \in {"WeatherRequest", "Noop"}
    <2>1. decode_weather(q) = Ok(c)
      BY <1>7, DecodePacketCases, Zenon
    <2>2. PICK faults, m, noop, kind, args :
            /\ decode_weather(q) = Checked(faults, m)
            /\ m = IF noop THEN Msg("Noop", "Text", Upper[q.source], Nowhere, <<>>)
                   ELSE Msg("WeatherRequest", kind, Upper[q.source], Nowhere, args)
      BY Zenon DEF decode_weather
    <2>3. Checked(faults, m) = Ok(c)
      BY <2>1, <2>2, Zenon
    <2>4. c = m
      BY <2>3, CheckedIs, Zenon
    <2> QED BY <2>2, <2>4 DEF Msg
  <1>8. ASSUME q.kind \in {"#", "$", "!", "&", "-"}, q.command \in {"AA", "AP"} PROVE c.op = "Login"
    <2>1. decode_login(q) = Ok(c)
      BY <1>8, DecodePacketCases, Zenon
    <2>2. PICK faults, m, kind, args :
            decode_login(q) = Checked(faults, m) /\ m = Msg("Login", kind, Upper[q.source], Nowhere, args)
      BY Zenon DEF decode_login
    <2>3. Checked(faults, m) = Ok(c)
      BY <2>1, <2>2, Zenon
    <2>4. c = m
      BY <2>3, CheckedIs, Zenon
    <2> QED BY <2>2, <2>4 DEF Msg
  <1>9. ASSUME q.kind \in {"#", "$", "!", "&", "-"}, q.command \in {"DA", "DP"} PROVE c.op = "Logoff"
    <2>1. Checked(<<callsign(q.source, "InvalidSource")>>, Msg("Logoff", "Text", Upper[q.source], Nowhere, <<>>)) = Ok(c)
      BY <1>9, DecodePacketCases, Zenon
    <2>2. c = Msg("Logoff", "Text", Upper[q.source], Nowhere, <<>>)
      BY <2>1, CheckedIs, Zenon
    <2> QED BY <2>2 DEF Msg
  <1>10. ASSUME q.kind \in {"#", "$", "!", "&", "-"}, q.command = "!!" PROVE c.op = "Kill"
    <2>1. decode_kill(q) = Ok(c)
      BY <1>10, DecodePacketCases, Zenon
    <2>2. PICK faults, m, kind, to, args :
            decode_kill(q) = Checked(faults, m) /\ m = Msg("Kill", kind, Upper[q.source], to, args)
      BY Zenon DEF decode_kill
    <2>3. Checked(faults, m) = Ok(c)
      BY <2>1, <2>2, Zenon
    <2>4. c = m
      BY <2>3, CheckedIs, Zenon
    <2> QED BY <2>2, <2>4 DEF Msg
  <1>11. ASSUME q.kind \in {"#", "$", "!", "&", "-"}
         PROVE  q.command \in {"CQ", "CR", "WX", "AX", "AA", "AP", "DA", "DP", "TM", "FP", "PI", "PO", "!!"}
                                \cup DOMAIN DirectKind
    <2>1. PICK known : known = {"CQ", "CR", "WX", "AX", "AA", "AP", "DA", "DP", "TM", "FP", "PI", "PO", "!!"}
                                 \cup DOMAIN DirectKind
      OBVIOUS
    <2>2. q.command \notin known => decode_packet(q) = Err(Fault("Unsupported", "Syntax"))
      BY <1>11, <2>1, DecodePacketCases
    <2>3. Ok(c) # Err(Fault("Unsupported", "Syntax"))
      BY OkOrErr, Zenon
    <2> QED BY <2>1, <2>2, <2>3, Zenon
  <1> QED BY <1>1, <1>2, <1>3, <1>4, <1>5, <1>6, <1>7, <1>8, <1>9, <1>10, <1>11, Zenon

\* What is relayed of an accepted packet reads back as the command it was decoded to, with
\* the coordinates of a position rounded.
LEMMA RelayedReadsBack ==
  ASSUME NEW q, NEW segments, NEW to, Read(q, segments, to), Kinded(q), NEW c, decode_packet(q) = Ok(c),
         NEW e, Origin(e, c), e.op = c.op, c.op \in Routed \cup {"Position", "FlightPlan"}
  PROVE  ReadsBack(e, Reread(c))
  <1>1. e = IF c.op = "FlightPlan" THEN [c EXCEPT !.destination = Atc] ELSE c
    <2>1. c.op # "Login"
      BY DEF Routed
    <2>2. ServerMsg("Pong", c.source, c.args).op = "Pong"
      BY DEF ServerMsg, Msg
    <2> QED BY <2>1, <2>2, Zenon DEF Origin
  <1>2. c.op \notin {"WeatherRequest", "Noop", "Login", "Logoff", "Kill"}
    BY DEF Routed
  <1>3. q.kind \in {"@", "%"} \/ q.kind \in {"#", "$", "!", "&", "-"}
    BY DEF Kinded
  <1>4. CASE q.kind \in {"@", "%"}
    <2>1. c.op = "Position"
      BY <1>4, DecodedOp, Zenon
    <2>2. e = c
      BY <1>1, <2>1
    <2> QED BY <1>4, <2>2, PositionReadsBack, Zenon
  <1>5. CASE q.kind \in {"#", "$", "!", "&", "-"}
    <2>1. q.command \in {"CQ", "CR", "TM", "FP", "PI", "PO"} \cup DOMAIN DirectKind
      <3>1. q.command \in {"CQ", "CR", "WX", "AX", "AA", "AP", "DA", "DP", "TM", "FP", "PI", "PO", "!!"}
                            \cup DOMAIN DirectKind
        BY <1>5, DecodedOp, Zenon
      <3>2. q.command \notin {"WX", "AX", "AA", "AP", "DA", "DP", "!!"}
        BY <1>2, <1>5, DecodedOp, Zenon
      <3> QED BY <3>1, <3>2
    <2>2. CASE q.command = "FP"
      <3>1. c.op = "FlightPlan"
        BY <1>5, <2>2, DecodedOp, Zenon
      <3>2. e = [c EXCEPT !.destination = Atc] /\ c.op # "Position"
        BY <1>1, <3>1
      <3>3. Reread(c) = c
        BY <3>2, Zenon DEF Reread
      <3> QED BY <1>5, <2>2, <3>2, <3>3, PlanReadsBack, Zenon
    <2>3. CASE q.command # "FP"
      <3>1. c.op # "FlightPlan" /\ c.op # "Position"
        <4>1. c.op \in {"Query", "Response"} \/ c.op \in {"Handoff", "ClientData"} \/ c.op = "Text" \/ c.op \in {"Ping", "Pong"}
          BY <1>5, <2>1, <2>3, DecodedOp, Zenon
        <4> QED BY <4>1
      <3>2. e = c
        BY <1>1, <3>1
      <3>7. Reread(c) = c
        BY <3>1, Zenon DEF Reread
      <3>3. CASE q.command = "TM"
        BY <1>5, <3>2, <3>3, <3>7, TextReadsBack, Zenon
      <3>4. CASE q.command \in {"PI", "PO"}
        BY <1>5, <3>2, <3>4, <3>7, PingReadsBack, Zenon
      <3>5. CASE q.command \in {"CQ", "CR"}
        BY <1>5, <3>2, <3>5, <3>7, QueryReadsBack, Zenon
      <3>6. CASE q.command \in DOMAIN DirectKind
        BY <1>5, <3>2, <3>6, <3>7, DirectReadsBack, Zenon
      <3> QED BY <2>1, <2>3, <3>3, <3>4, <3>5, <3>6, Zenon
    <2> QED BY <2>2, <2>3
  <1> QED BY <1>3, <1>4, <1>5

\* Only $ID is decoded by the VATSIM backend itself.
LEMMA AcceptedPacket ==
  ASSUME Decoded, result # Nothing, result.ok, from.dialect # "AsterV1"
  PROVE  LET p == parse(inbound).value
         IN  /\ parse(inbound).ok /\ inbound \in Inbound["Classic"] \cup Inbound["Vatsim"]
             /\ result = decode_packet(p) \/ (p.command = "ID" /\ result = decode_identification(p))
  <1>1. result = classic_decode(inbound) \/ result = vatsim_decode(inbound)
    BY DecodedFamily, Zenon
  <1>2. inbound \in Inbound["Classic"] \cup Inbound["Vatsim"]
    BY DecodedFamily, Zenon DEF Decoded
  <1>3. parse(inbound).ok
    BY AcceptedParses, Zenon
  <1>4. PICK p : p = parse(inbound).value
    OBVIOUS
  <1>5. classic_decode(inbound) = decode_packet(p)
    BY <1>3, <1>4, Zenon DEF classic_decode
  <1>6. vatsim_decode(inbound) = IF p.command = "ID" THEN decode_identification(p) ELSE classic_decode(inbound)
    BY <1>3, <1>4, Zenon DEF vatsim_decode
  <1> QED BY <1>1, <1>2, <1>3, <1>4, <1>5, <1>6, Zenon

\* What is relayed reads back, from the invariant.
LEMMA InvReadsBack ==
  ASSUME RelayInv
  PROVE  RelayReadsBack
  <1> SUFFICES ASSUME Relayed, from.dialect # "AsterV1", outcome.dialect # "AsterV1"
               PROVE  classic_decode(outcome.frames.value[1]) = Ok(Reread(result.value))
    BY Zenon DEF RelayReadsBack
  <1>1. /\ event # Nothing /\ outcome # Nothing /\ outcome.frames.ok /\ result # Nothing /\ result.ok
        /\ event.op \in Routed \cup {"Position", "FlightPlan"} /\ event.op = result.value.op
    BY DEF Relayed, Delivered, Dispatched, Routed
  <1>2. Decoded /\ Origin(event, result.value)
    BY <1>1, Zenon DEF RelayInv
  <1>3. PICK q, c : q = parse(inbound).value /\ c = result.value
    OBVIOUS
  <1>4. /\ parse(inbound).ok /\ inbound \in Inbound["Classic"] \cup Inbound["Vatsim"]
        /\ result = decode_packet(q) \/ (q.command = "ID" /\ result = decode_identification(q))
    BY <1>1, <1>2, <1>3, AcceptedPacket, Zenon
  <1>5. event.op = c.op /\ c.op \in Routed \cup {"Position", "FlightPlan"}
    BY <1>1, <1>3, Zenon
  <1>6. result = decode_packet(q)
    <2>1. c.op # "Identify"
      BY <1>5 DEF Routed
    <2> QED BY <1>1, <1>3, <1>4, <2>1, IdentificationValid, Zenon
  <1>7. result = Ok(c)
    <2>1. Verdict(result)
      BY <1>1, <1>2, DecodeVerdict, Zenon DEF Decoded
    <2> QED BY <1>1, <1>3, <2>1, OkOrErr, Zenon DEF Verdict
  <1>8. PICK segments, to : Read(q, segments, to) /\ Kinded(q)
    BY <1>3, <1>4, InboundPacket, Zenon
  <1>9. PICK p : classic_packets(event) = <<p>> /\ classic_decode(assemble(p)) = Ok(Reread(c))
    <2>1. decode_packet(q) = Ok(c) /\ Origin(event, c)
      BY <1>2, <1>3, <1>6, <1>7, Zenon
    <2>2. ReadsBack(event, Reread(c))
      BY <1>5, <1>8, <2>1, RelayedReadsBack, Zenon
    <2> QED BY <2>2, Zenon DEF ReadsBack
  <1>10. outcome.frames = classic_encode(event)
    <2>1. outcome.dialect \in {"Classic", "Vatsim"}
      BY <1>1 DEF RelayInv, ProtocolDialect
    <2>2. outcome.frames = encode(outcome.dialect, event)
      BY <1>1, Zenon DEF RelayInv
    <2>3. event.op # "ClientAdded"
      BY <1>1 DEF Routed
    <2>4. vatsim_encode(event) = classic_encode(event)
      BY <2>3, Zenon DEF vatsim_encode
    <2>5. CASE outcome.dialect = "Classic"
      BY <2>2, <2>5, Zenon DEF encode
    <2>6. CASE outcome.dialect = "Vatsim"
      BY <2>2, <2>4, <2>6, Zenon DEF encode
    <2> QED BY <2>1, <2>5, <2>6
  <1>11. outcome.frames.value[1] = assemble(p)
    BY <1>1, <1>9, <1>10, Written, Zenon
  <1> QED BY <1>3, <1>9, <1>11, Zenon

\* For any segments, columns and limits that the assumptions allow: a text, a query, a
\* handoff, a position or a plan that a classic or VATSIM client sent is relayed
\* to a classic or VATSIM peer as a frame that decodes to the command the server acted
\* on, its normalised names, its converted numbers and the order of its fields included;
\* the coordinates of a position come back as the five digits that the encoder prints.
THEOREM RelaysReadBack == Spec => []RelayReadsBack
  BY InvReadsBack, RelayInvariant, PTL

-----------------------------------------------------------------------------
(***************************************************************************)
(* The bytes of a frame: the recursive function of frame_bytes exists, and *)
(* what makes two frames equally long, or one of them short.               *)
(***************************************************************************)
Counts(f, base, t, n) ==
  \A i \in 0 .. n : f[i] = IF i = 0 THEN base ELSE f[i - 1] + 1 + Size[t[i]]

\* The sizes of segments.
LEMMA SizeType ==
  ASSUME NEW t \in Seq(Segment)
  PROVE  Len(t) \in Nat /\ \A i \in 1 .. Len(t) : t[i] \in Segment /\ Size[t[i]] \in Nat
  <1>1. \A i \in 1 .. Len(t) : t[i] \in Segment
    BY ElementOfSeq
  <1>2. \A s \in Segment : Size[s] \in Nat
    BY PacketAssumption
  <1> QED BY <1>1, <1>2

\* The function that counts the bytes up to each segment exists, by least counterexample.
LEMMA CountExists ==
  ASSUME NEW t \in Seq(Segment), NEW base \in Nat, NEW n \in 0 .. Len(t)
  PROVE  \E f \in [0 .. n -> Nat] : Counts(f, base, t, n)
  <1> DEFINE T == {k \in 0 .. Len(t) : ~ \E f \in [0 .. k -> Nat] : Counts(f, base, t, k)}
  <1>0. T \in SUBSET Nat /\ (n \notin T => \E f \in [0 .. n -> Nat] : Counts(f, base, t, n))
    OBVIOUS
  <1>a. \A k : k \in T <=> k \in 0 .. Len(t) /\ ~ \E f \in [0 .. k -> Nat] : Counts(f, base, t, k)
    OBVIOUS
  <1> HIDE DEF T
  <1>1. SUFFICES ASSUME T # {} PROVE FALSE
    BY <1>0
  <1>2. PICK k \in T : \A m \in T : k <= m
    BY <1>0, <1>1, LeastNumber
  <1>3. k \in 0 .. Len(t) /\ \A m \in 1 .. Len(t) : Size[t[m]] \in Nat
    BY <1>2, <1>a, SizeType
  <1>4. CASE k = 0
    <2>1. [i \in 0 .. 0 |-> base] \in [0 .. 0 -> Nat] /\ Counts([i \in 0 .. 0 |-> base], base, t, 0)
      BY DEF Counts
    <2> QED BY <1>2, <1>4, <1>a, <2>1, Zenon
  <1>5. CASE k # 0
    <2>1. k - 1 \in 0 .. Len(t) /\ k - 1 \notin T /\ k \in 1 .. Len(t)
      BY <1>2, <1>3, <1>5
    <2>2. PICK g \in [0 .. k - 1 -> Nat] : Counts(g, base, t, k - 1)
      BY <2>1, <1>a
    <2> DEFINE h == [i \in 0 .. k |-> IF i = k THEN g[k - 1] + 1 + Size[t[k]] ELSE g[i]]
    <2>3. g[k - 1] + 1 + Size[t[k]] \in Nat
      BY <1>3, <2>1, <2>2
    <2>4. h \in [0 .. k -> Nat]
      BY <1>3, <1>5, <2>2, <2>3
    <2>5. ASSUME NEW i \in 0 .. k PROVE h[i] = IF i = 0 THEN base ELSE h[i - 1] + 1 + Size[t[i]]
      <3>1. CASE i = k
        <4>1. h[k] = g[k - 1] + 1 + Size[t[k]] /\ h[k - 1] = g[k - 1]
          <5>1. k \in 0 .. k /\ k - 1 \in 0 .. k /\ k - 1 # k
            BY <1>3, <1>5
          <5> QED BY <5>1, Zenon
        <4> QED BY <1>5, <3>1, <4>1
      <3>2. CASE i # k
        <4>1. i \in 0 .. k - 1 /\ h[i] = g[i] /\ (i # 0 => h[i - 1] = g[i - 1])
          BY <1>3, <3>2, SMTT(40)
        <4>2. g[i] = IF i = 0 THEN base ELSE g[i - 1] + 1 + Size[t[i]]
          BY <2>2, <4>1 DEF Counts
        <4> QED BY <4>1, <4>2
      <3> QED BY <3>1, <3>2
    <2>6. Counts(h, base, t, k)
      BY <2>5, Zenon DEF Counts
    <2> HIDE DEF h
    <2> QED BY <1>2, <1>a, <2>4, <2>6, Zenon
  <1> QED BY <1>4, <1>5

\* The prefix byte, the command and the head: what comes before the first colon.
HeadBytes(frame) == 1 + command_bytes(frame.command) + Size[frame.head]

\* The bytes before the first colon.
LEMMA HeadType ==
  ASSUME NEW frame, frame.head \in Segment
  PROVE  HeadBytes(frame) \in Nat /\ HeadBytes(frame) <= 3 + Size[frame.head] /\ Size[frame.head] \in Nat
  <1>1. command_bytes(frame.command) \in 0 .. 2
    <2>1. PICK command : command = frame.command
      OBVIOUS
    <2>2. ~ (command \in {Empty, "?"} /\ command \in {"N", "S", "Y"})
      BY EmptyIsNoCommand
    <2>3. CASE command \in {Empty, "?"}
      <3>1. command_bytes(command) = 0
        BY <2>2, <2>3, Zenon DEF command_bytes
      <3> QED BY <2>1, <3>1
    <2>4. CASE command \in {"N", "S", "Y"}
      <3>1. command_bytes(command) = 1
        BY <2>2, <2>4, Zenon DEF command_bytes
      <3> QED BY <2>1, <3>1
    <2>5. CASE command \notin {Empty, "?"} /\ command \notin {"N", "S", "Y"}
      <3>1. command_bytes(command) = 2
        BY <2>5, Zenon DEF command_bytes
      <3> QED BY <2>1, <3>1
    <2> QED BY <2>3, <2>4, <2>5
  <1>2. Size[frame.head] \in Nat
    BY PacketAssumption
  <1> QED BY <1>1, <1>2 DEF HeadBytes

\* frame_bytes is the last value of that function.
LEMMA BytesCounted ==
  ASSUME NEW frame, frame.head \in Segment, NEW t \in Seq(Segment), frame.rest = t
  PROVE  \E f \in [0 .. Len(t) -> Nat] : Counts(f, HeadBytes(frame), t, Len(t)) /\ frame_bytes(frame) = f[Len(t)]
  <1> DEFINE n == Len(t)
             base == HeadBytes(frame)
             P(g) == g = [i \in 0 .. n |-> IF i = 0 THEN base ELSE g[i - 1] + 1 + Size[t[i]]]
             h == CHOOSE g : P(g)
  <1>1. n \in Nat /\ n \in 0 .. Len(t) /\ base \in Nat
    BY HeadType
  <1>2. frame_bytes(frame) = h[n]
    BY Zenon DEF frame_bytes, HeadBytes
  <1> HIDE DEF n, base
  <1>3. PICK f \in [0 .. n -> Nat] : Counts(f, base, t, n)
    BY <1>1, CountExists
  <1>4. P(f)
    BY <1>3 DEF Counts
  <1>5. P(h)
    <2> HIDE DEF P
    <2> QED BY <1>4, Zenon
  <1> HIDE DEF h
  <1>6. \A i \in 0 .. n : h[i] = f[i]
    <2> DEFINE T == {i \in 0 .. n : h[i] # f[i]}
    <2> SUFFICES ASSUME T # {} PROVE FALSE
      OBVIOUS
    <2>1. T \in SUBSET Nat
      BY <1>1
    <2>2. PICK i \in T : \A j \in T : i <= j
      <3> HIDE DEF T
      <3> QED BY <2>1, LeastNumber
    <2>3. i \in 0 .. n /\ h[i] # f[i]
      BY <2>2
    <2>4. f[i] = IF i = 0 THEN base ELSE f[i - 1] + 1 + Size[t[i]]
      BY <1>3, <2>3 DEF Counts
    <2>5. h[i] = IF i = 0 THEN base ELSE h[i - 1] + 1 + Size[t[i]]
      BY <1>5, <2>3
    <2>6. i # 0 => i - 1 \in 0 .. n /\ i - 1 \notin T
      BY <1>1, <2>2, <2>3
    <2>7. i # 0 => h[i - 1] = f[i - 1]
      BY <2>6
    <2> QED BY <2>3, <2>4, <2>5, <2>7, Zenon
  <1>7. h[n] = f[n]
    BY <1>1, <1>6
  <1> QED BY <1>1, <1>2, <1>3, <1>7 DEF n, base

\* The sizes of the head and of the first segment may be exchanged.
Alike(f, s, g, t) ==
  /\ f.head \in Segment /\ s \in Seq(Segment) /\ f.rest = s
  /\ g.head \in Segment /\ t \in Seq(Segment) /\ g.rest = t
  /\ s # <<>> /\ Len(s) = Len(t) /\ \A i \in 2 .. Len(s) : Size[s[i]] = Size[t[i]]
  /\ HeadBytes(f) + Size[s[1]] = HeadBytes(g) + Size[t[1]]

\* Frames that are alike are equally long.
LEMMA SameBytes ==
  ASSUME NEW f, NEW s, NEW g, NEW t, Alike(f, s, g, t)
  PROVE  frame_bytes(f) = frame_bytes(g)
  <1> SUFFICES ASSUME f.head \in Segment, s \in Seq(Segment), f.rest = s,
                      g.head \in Segment, t \in Seq(Segment), g.rest = t,
                      s # <<>>, Len(s) = Len(t), \A i \in 2 .. Len(s) : Size[s[i]] = Size[t[i]],
                      HeadBytes(f) + Size[s[1]] = HeadBytes(g) + Size[t[1]]
               PROVE  frame_bytes(f) = frame_bytes(g)
    BY DEF Alike
  <1>1. PICK a, b, n : a = HeadBytes(f) /\ b = HeadBytes(g) /\ n = Len(s)
    OBVIOUS
  <1>2. a \in Nat /\ b \in Nat /\ n \in Nat /\ n >= 1 /\ a + Size[s[1]] = b + Size[t[1]]
    BY <1>1, HeadType
  <1>3. PICK u \in [0 .. n -> Nat] : Counts(u, a, s, n) /\ frame_bytes(f) = u[n]
    BY <1>1, BytesCounted
  <1>4. PICK v \in [0 .. n -> Nat] : Counts(v, b, t, n) /\ frame_bytes(g) = v[n]
    BY <1>1, BytesCounted
  <1>5. \A i \in 1 .. n : Size[s[i]] \in Nat /\ Size[t[i]] \in Nat
    BY <1>1, SizeType
  <1>6. \A i \in 1 .. n : u[i] = v[i]
    <2> DEFINE T == {i \in 1 .. n : u[i] # v[i]}
    <2> SUFFICES ASSUME T # {} PROVE FALSE
      OBVIOUS
    <2>1. T \in SUBSET Nat
      BY <1>2
    <2>2. PICK i \in T : \A j \in T : i <= j
      <3> HIDE DEF T
      <3> QED BY <2>1, LeastNumber
    <2>3. i \in 1 .. n /\ u[i] # v[i]
      BY <2>2
    <2>4. u[i] = u[i - 1] + 1 + Size[s[i]] /\ v[i] = v[i - 1] + 1 + Size[t[i]]
      <3>1. i \in 0 .. n /\ i # 0
        BY <1>2, <2>3
      <3>2. u[i] = u[i - 1] + 1 + Size[s[i]]
        BY <1>3, <3>1, Zenon DEF Counts
      <3>3. v[i] = v[i - 1] + 1 + Size[t[i]]
        BY <1>4, <3>1, Zenon DEF Counts
      <3> QED BY <3>2, <3>3
    <2>5. CASE i = 1
      <3>1. u[0] = a /\ v[0] = b
        BY <1>2, <1>3, <1>4 DEF Counts
      <3>2. u[1] = a + 1 + Size[s[1]] /\ v[1] = b + 1 + Size[t[1]]
        BY <2>4, <2>5, <3>1
      <3>3. Size[s[1]] \in Nat /\ Size[t[1]] \in Nat
        BY <1>2, <1>5
      <3>4. PICK x \in Nat, y \in Nat : x = Size[s[1]] /\ y = Size[t[1]]
        BY <3>3
      <3>5. u[1] = a + 1 + x /\ v[1] = b + 1 + y /\ a + x = b + y
        BY <1>2, <3>2, <3>4, Zenon
      <3>6. a + 1 + x = b + 1 + y
        <4> HIDE DEF T
        <4> QED BY <1>2, <3>5
      <3>7. u[1] = v[1]
        BY <3>5, <3>6, Zenon
      <3> QED BY <2>3, <2>5, <3>7, Zenon
    <2>6. CASE i # 1
      <3>1. i - 1 \in 1 .. n /\ i - 1 \notin T /\ i \in 2 .. Len(s)
        BY <1>1, <1>2, <2>2, <2>3, <2>6
      <3>2. u[i - 1] = v[i - 1]
        BY <3>1
      <3> QED BY <2>3, <2>4, <3>1, <3>2
    <2> QED BY <2>5, <2>6
  <1>7. u[n] = v[n]
    BY <1>2, <1>6
  <1> QED BY <1>3, <1>4, <1>7

\* The length of a frame whose segments are short.
LEMMA ShortBytes ==
  ASSUME NEW f, f.head \in Segment, Size[f.head] <= 48, NEW t \in Seq(Segment), f.rest = t,
         \A i \in 1 .. Len(t) : Size[t[i]] <= 48
  PROVE  frame_bytes(f) <= 51 + 49 * Len(t)
  <1>1. PICK a, n : a = HeadBytes(f) /\ n = Len(t)
    OBVIOUS
  <1>2. a \in Nat /\ a <= 51 /\ n \in Nat
    BY <1>1, HeadType
  <1>3. PICK u \in [0 .. n -> Nat] : Counts(u, a, t, n) /\ frame_bytes(f) = u[n]
    BY <1>1, BytesCounted
  <1>4. \A i \in 1 .. n : Size[t[i]] \in Nat /\ Size[t[i]] <= 48
    BY <1>1, SizeType
  <1>5. \A i \in 0 .. n : u[i] <= 51 + 49 * i
    <2> DEFINE T == {i \in 0 .. n : ~ (u[i] <= 51 + 49 * i)}
    <2> SUFFICES ASSUME T # {} PROVE FALSE
      OBVIOUS
    <2>1. T \in SUBSET Nat
      BY <1>2
    <2>2. PICK i \in T : \A j \in T : i <= j
      <3> HIDE DEF T
      <3> QED BY <2>1, LeastNumber
    <2>3. i \in 0 .. n /\ ~ (u[i] <= 51 + 49 * i)
      BY <2>2
    <2>4. CASE i = 0
      <3>1. u[0] = a
        BY <1>2, <1>3 DEF Counts
      <3> QED BY <1>2, <2>3, <2>4, <3>1
    <2>5. CASE i # 0
      <3>1. i - 1 \in 0 .. n /\ i - 1 \notin T /\ i \in 1 .. n
        BY <1>2, <2>2, <2>3, <2>5
      <3>2. u[i - 1] <= 51 + 49 * (i - 1) /\ u[i - 1] \in Nat
        BY <1>3, <3>1
      <3>3. u[i] = u[i - 1] + 1 + Size[t[i]]
        BY <1>3, <2>3, <2>5 DEF Counts
      <3> QED BY <1>4, <2>3, <3>1, <3>2, <3>3, SMTT(40)
    <2> QED BY <2>4, <2>5
  <1>6. u[n] <= 51 + 49 * n
    BY <1>2, <1>5
  <1> QED BY <1>1, <1>3, <1>6

-----------------------------------------------------------------------------
(***************************************************************************)
(* A relayed frame is as long as the one it was made of, and what the      *)
(* server writes instead is short.                                         *)
(***************************************************************************)
\* Names in upper case are as long, and as free of delimiters.
LEMMA UpperSize ==
  ASSUME NEW s \in Segment
  PROVE  /\ Upper[s] \in Segment /\ Size[Upper[s]] = Size[s] /\ Size[s] \in Nat
         /\ s \notin Broken => Upper[s] \notin Broken
  BY UpperTypes, PacketAssumption, DialectsAssumption

\* An event of one packet is written if its frame is short enough and has no delimiter.
LEMMA WritesOne ==
  ASSUME NEW e, NEW p, classic_packets(e) = <<p>>, NEW f, f = assemble(p), frame_bytes(f) <= 511,
         f.head \notin Broken, \A i \in 1 .. Len(f.rest) : f.rest[i] \notin Broken
  PROVE  classic_encode(e).ok
  <1> DEFINE max == CLASSIC_MAX_FRAME_BYTES
             results == [i \in 1 .. Len(<<p>>) |-> encode_packet(<<p>>[i], max)]
  <1>1. fits(f, max)
    BY DEF fits, CLASSIC_MAX_FRAME_BYTES
  <1>2. encode_packet(p, max) = Ok(f)
    BY <1>1, Zenon DEF encode_packet
  <1>3. \A i \in 1 .. Len(<<p>>) : i = 1
    OBVIOUS
  <1>4. <<p>>[1] = p
    OBVIOUS
  <1>5. \A i \in 1 .. Len(<<p>>) : results[i].ok
    <2> TAKE i \in 1 .. Len(<<p>>)
    <2>1. results[i] = encode_packet(p, max)
      BY <1>3, <1>4, Zenon
    <2>2. Ok(f).ok
      BY DEF Ok
    <2> HIDE DEF results, max
    <2> QED BY <1>2, <2>1, <2>2, Zenon
  <1>6. \E v : frames(<<p>>, max) = Ok(v)
    BY <1>5, Zenon DEF frames
  <1> QED BY <1>6, OkOrErr, Zenon DEF classic_encode

\* Every relayed command has two letters.
LEMMA LetterBytes ==
  ASSUME NEW command \in Letters
  PROVE  command_bytes(command) = 2 /\ command \notin {"DI", "?"}
  <1>1. command \notin {Empty, "?"} /\ command \notin {"N", "S", "Y"}
    BY EmptyIsNoCommand DEF Letters
  <1> QED BY <1>1, Zenon DEF command_bytes, Letters

\* A frame of a command, of the classic length, cut at its colons.
Enveloped(frame, head, to, segments) ==
  /\ frame_bytes(frame) <= 511 /\ frame.command \in Letters
  /\ frame.head = head /\ head \in Segment /\ head \notin Broken /\ to \in Segment /\ to \notin Broken
  /\ segments \in Seq(Segment) /\ frame.rest = <<to>> \o segments
  /\ \A i \in 1 .. Len(segments) : segments[i] \notin Broken

\* An event that is written with names and segments of the same sizes, where the two
\* names may have exchanged theirs.
Resized(e, source, w, fields, t, head, to, segments) ==
  /\ \E kind \in {"#", "$", "!", "&", "-"}, command \in Letters :
       classic_packets(e) = <<Packet(kind, command, source, <<w>>, fields)>>
  /\ source \in Segment /\ source \notin Broken /\ w \in Segment /\ w \notin Broken
  /\ Size[source] + Size[w] = Size[head] + Size[to]
  /\ t \in Seq(Segment) /\ t = FlattenSeq(fields) /\ Len(t) = Len(segments)
  /\ \A i \in 1 .. Len(t) : Size[t[i]] = Size[segments[i]] /\ t[i] \notin Broken

\* A packet of the sizes of an inbound frame is written, since the frame was not too long.
LEMMA SameLength ==
  ASSUME NEW frame, NEW head, NEW to, NEW segments, Enveloped(frame, head, to, segments),
         NEW e, NEW source, NEW w, NEW fields, NEW t, Resized(e, source, w, fields, t, head, to, segments)
  PROVE  classic_encode(e).ok
  <1>a. PICK kind \in {"#", "$", "!", "&", "-"}, command \in Letters :
          classic_packets(e) = <<Packet(kind, command, source, <<w>>, fields)>>
    BY Zenon DEF Resized
  <1> SUFFICES ASSUME frame_bytes(frame) <= 511, frame.command \in Letters,
                      head \in Segment, frame.head = head, to \in Segment, segments \in Seq(Segment),
                      frame.rest = <<to>> \o segments,
                      source \in Segment, w \in Segment, t \in Seq(Segment), t = FlattenSeq(fields),
                      source \notin Broken, w \notin Broken, Size[source] + Size[w] = Size[head] + Size[to],
                      Len(t) = Len(segments),
                      \A i \in 1 .. Len(t) : Size[t[i]] = Size[segments[i]] /\ t[i] \notin Broken
               PROVE  classic_encode(e).ok
    BY Zenon DEF Enveloped, Resized
  <1>1. PICK p : p = Packet(kind, command, source, <<w>>, fields)
    OBVIOUS
  <1>2. PICK rest, f : rest = <<w>> \o t /\ f = Frame(kind, command, source, rest)
    OBVIOUS
  <1>3. assemble(p) = f
    <2>1. command # "DI"
      BY LetterBytes
    <2>2. p.kind = kind /\ p.command = command /\ p.source = source /\ p.destination = <<w>> /\ p.fields = fields
      BY <1>1 DEF Packet
    <2> QED BY <1>2, <2>1, <2>2, AssembleCases, Zenon
  <1>4. f.command = command /\ f.head = source /\ f.rest = rest
    BY <1>2 DEF Frame
  <1>5. PICK s : s = <<to>> \o segments
    OBVIOUS
  <1>6. /\ rest \in Seq(Segment) /\ Len(rest) = Len(t) + 1 /\ rest[1] = w /\ Len(t) \in Nat
        /\ \A i \in 1 .. Len(t) : rest[i + 1] = t[i]
    BY <1>2
  <1>7. /\ s \in Seq(Segment) /\ Len(s) = Len(segments) + 1 /\ s[1] = to /\ s # <<>>
        /\ \A i \in 1 .. Len(segments) : s[i + 1] = segments[i]
    BY <1>5
  <1>8. \A i \in 2 .. Len(s) : Size[s[i]] = Size[rest[i]]
    <2> TAKE i \in 2 .. Len(s)
    <2>1. i - 1 \in 1 .. Len(t) /\ i - 1 \in 1 .. Len(segments) /\ (i - 1) + 1 = i
      BY <1>6, <1>7
    <2>2. rest[i] = t[i - 1] /\ s[i] = segments[i - 1]
      BY <1>6, <1>7, <2>1
    <2> QED BY <2>1, <2>2, Zenon
  <1>9. \A i \in 1 .. Len(rest) : rest[i] \notin Broken
    <2> TAKE i \in 1 .. Len(rest)
    <2>1. CASE i = 1
      BY <1>6, <2>1
    <2>2. CASE i # 1
      <3>1. PICK j \in 1 .. Len(t) : i = j + 1
        BY <1>6, <2>2
      <3>2. rest[i] = t[j] /\ t[j] \notin Broken
        BY <1>6, <3>1, Zenon
      <3> QED BY <3>2, Zenon
    <2> QED BY <2>1, <2>2
  <1>10. HeadBytes(frame) + Size[s[1]] = HeadBytes(f) + Size[rest[1]]
    <2>1. HeadBytes(frame) = 3 + Size[head] /\ HeadBytes(f) = 3 + Size[source]
      <3>1. command_bytes(frame.command) = 2 /\ command_bytes(f.command) = 2
        BY <1>4, LetterBytes, Zenon
      <3> QED BY <1>4, <3>1 DEF HeadBytes
    <2>2. Size[head] \in Nat /\ Size[source] \in Nat /\ Size[to] \in Nat /\ Size[w] \in Nat
      BY UpperSize
    <2>3. PICK a \in Nat, b \in Nat, c \in Nat, d \in Nat : a = Size[head] /\ b = Size[source] /\ c = Size[to] /\ d = Size[w]
      BY <2>2
    <2>4. b + d = a + c
      BY <2>3
    <2>5. (3 + a) + c = (3 + b) + d
      BY <2>4
    <2> QED BY <1>6, <1>7, <2>1, <2>3, <2>5, Zenon
  <1>11. frame_bytes(frame) = frame_bytes(f)
    <2>1. frame.rest = s /\ frame.head \in Segment /\ f.head \in Segment /\ Len(s) = Len(rest)
      BY <1>4, <1>5, <1>6, <1>7
    <2>2. f.rest = rest /\ rest \in Seq(Segment) /\ s \in Seq(Segment) /\ s # <<>>
      BY <1>4, <1>6, <1>7
    <2>3. Alike(frame, s, f, rest)
      BY <1>8, <1>10, <2>1, <2>2, Zenon DEF Alike
    <2> QED BY <2>3, SameBytes, Zenon
  <1>12. frame_bytes(f) <= 511
    BY <1>11, Zenon
  <1>13. f.head \notin Broken /\ \A i \in 1 .. Len(f.rest) : f.rest[i] \notin Broken
    BY <1>4, <1>9, Zenon
  <1> QED BY <1>a, <1>1, <1>3, <1>12, <1>13, WritesOne, Zenon

\* What is kept of a frame of the classic length is as long as that frame.
LEMMA KeptFits ==
  ASSUME NEW frame, NEW head, NEW to, NEW segments, Enveloped(frame, head, to, segments),
         NEW e, Kept(e, head, to, segments)
  PROVE  classic_encode(e).ok
  <1>0. /\ head \in Segment /\ head \notin Broken /\ to \in Segment /\ to \notin Broken /\ segments \in Seq(Segment)
        /\ \A i \in 1 .. Len(segments) : segments[i] \notin Broken
    BY Zenon DEF Enveloped
  <1>a. PICK kind \in {"#", "$", "!", "&", "-"}, command \in Letters, w \in {to, Upper[to]} : \E fields, t :
          /\ classic_packets(e) = <<Packet(kind, command, Upper[head], <<w>>, fields)>>
          /\ KeptText(fields, t, segments)
    BY Zenon DEF Kept
  <1>1. PICK fields, t :
          /\ classic_packets(e) = <<Packet(kind, command, Upper[head], <<w>>, fields)>>
          /\ KeptText(fields, t, segments)
    BY <1>a, Zenon
  <1>2. PICK source : source = Upper[head]
    OBVIOUS
  <1>3. source \in Segment /\ source \notin Broken /\ Size[source] = Size[head]
    BY <1>0, <1>2, UpperSize
  <1>4. w \in Segment /\ w \notin Broken /\ Size[w] = Size[to]
    BY <1>0, UpperSize
  <1>5. t \in Seq(Segment) /\ t = FlattenSeq(fields) /\ Len(t) = Len(segments)
    BY <1>1, Zenon DEF KeptText
  <1>6. \A i \in 1 .. Len(t) : Size[t[i]] = Size[segments[i]] /\ t[i] \notin Broken
    <2> TAKE i \in 1 .. Len(t)
    <2>1. t[i] \in {segments[i], Upper[segments[i]]} /\ segments[i] \notin Broken
      BY <1>0, <1>1, <1>5, Zenon DEF KeptText
    <2>2. segments[i] \in Segment
      BY <1>0, <1>5, ElementOfSeq
    <2> QED BY <2>1, <2>2, UpperSize
  <1>7. classic_packets(e) = <<Packet(kind, command, source, <<w>>, fields)>>
    BY <1>1, <1>2, Zenon
  <1>8. Size[source] + Size[w] = Size[head] + Size[to]
    BY <1>3, <1>4, Zenon
  <1>9. Resized(e, source, w, fields, t, head, to, segments)
    BY <1>3, <1>4, <1>5, <1>6, <1>7, <1>8, Zenon DEF Resized
  <1> QED BY <1>9, SameLength, Zenon

\* The server's answer to a ping takes the place of the name it was called by.
LEMMA PongFits ==
  ASSUME NEW frame, NEW head, NEW to, NEW segments, Enveloped(frame, head, to, segments),
         NEW e, e = ServerMsg("Pong", Upper[head], <<segments>>), Upper[to] = "SERVER"
  PROVE  classic_encode(e).ok
  <1>0. /\ head \in Segment /\ head \notin Broken /\ to \in Segment /\ to \notin Broken /\ segments \in Seq(Segment)
        /\ \A i \in 1 .. Len(segments) : segments[i] \notin Broken
    BY Zenon DEF Enveloped
  <1>1. PICK w, fields : w = Upper[head] /\ fields = <<segments>>
    OBVIOUS
  <1>2. classic_packets(e) = <<Packet("$", "PO", "server", <<w>>, fields)>>
    <2>1. e = Msg("Pong", "Text", "server", Direct(w), fields)
      BY <1>1, Zenon DEF ServerMsg
    <2>2. e.op = "Pong" /\ e.source = "server" /\ e.destination = Direct(w) /\ e.args = fields
      BY <2>1 DEF Msg
    <2>3. e.destination.name = <<w>>
      BY <2>2, DestinationNames, Zenon
    <2>4. encode_routed(e) = Packet("$", "PO", e.source, e.destination.name, e.args)
      BY <2>2, Zenon DEF encode_routed
    <2>5. e.op \in {"Text", "Ping", "Pong", "Handoff", "ClientData"}
      BY <2>2
    <2>6. classic_packets(e) = <<encode_routed(e)>>
      BY <2>5, RoutedPackets
    <2> QED BY <2>2, <2>3, <2>4, <2>6, Zenon
  <1>3. w \in Segment /\ w \notin Broken /\ Size[w] = Size[head]
    BY <1>0, <1>1, UpperSize
  <1>4. PICK source : source = "server"
    OBVIOUS
  <1>5. source \in Segment /\ source \notin Broken /\ Size[source] = Size[to]
    <2>1. "server" \in ServerText
      BY Zenon DEF ServerText
    <2>2. source \in Segment /\ source \notin Broken /\ Upper[source] = Upper[to]
      BY <1>4, <2>1, ServerTextAssumption
    <2> QED BY <1>0, <2>2, UpperSize
  <1>6. Size[source] + Size[w] = Size[head] + Size[to]
    BY <1>0, <1>3, <1>5, UpperSize
  <1>7. segments = FlattenSeq(fields)
    BY <1>0, <1>1, FlattenOne, Zenon
  <1>8. "PO" \in Letters /\ "$" \in {"#", "$", "!", "&", "-"}
    BY DEF Letters
  <1>9. classic_packets(e) = <<Packet("$", "PO", source, <<w>>, fields)>>
    BY <1>2, <1>4, Zenon
  <1>10. Resized(e, source, w, fields, segments, head, to, segments)
    BY <1>0, <1>3, <1>5, <1>6, <1>7, <1>8, <1>9, Zenon DEF Resized
  <1> QED BY <1>10, SameLength, Zenon

\* Server texts and callsigns are short and have no delimiter.
Short(s) == s \in Segment /\ s \notin Broken /\ Size[s] <= 48

\* What the server writes is short, and so is a callsign.
LEMMA ShortTexts ==
  /\ \A s \in ServerText : Short(s)
  /\ \A s \in Callsigns : Size[s] <= 48
  <1>1. \A s \in Callsigns : Size[s] \in 2 .. 12
    BY DialectsAssumption
  <1> QED BY <1>1, ServerTextAssumption DEF Short

\* Nine short segments after a short head fit a classic frame.
LEMMA ShortFits ==
  ASSUME NEW e, NEW p, classic_packets(e) = <<p>>, NEW f, f = assemble(p), Short(f.head),
         NEW t, f.rest = t, t \in Seq(Segment), Len(t) <= 9, \A i \in 1 .. Len(t) : Short(t[i])
  PROVE  classic_encode(e).ok
  <1>1. Size[f.head] <= 48 /\ f.head \in Segment /\ f.head \notin Broken
    BY Zenon DEF Short
  <1>2. \A i \in 1 .. Len(t) : Size[t[i]] <= 48 /\ t[i] \notin Broken
    BY Zenon DEF Short
  <1>3. frame_bytes(f) <= 51 + 49 * Len(t)
    BY <1>1, <1>2, ShortBytes
  <1>4. PICK b, n : b = frame_bytes(f) /\ n = Len(t)
    OBVIOUS
  <1>5. b \in Nat /\ n \in Nat
    <2>1. PICK u \in [0 .. Len(t) -> Nat] : frame_bytes(f) = u[Len(t)]
      BY <1>1, BytesCounted
    <2> QED BY <1>4, <2>1
  <1>6. b <= 51 + 49 * n /\ n <= 9
    BY <1>3, <1>4
  <1>7. frame_bytes(f) <= 511
    BY <1>4, <1>5, <1>6
  <1>8. \A i \in 1 .. Len(f.rest) : f.rest[i] \notin Broken
    BY <1>2, Zenon
  <1> QED BY <1>1, <1>7, <1>8, WritesOne, Zenon

\* What a client is asked and told at its login is short.
LEMMA ToldFits ==
  ASSUME NEW op \in {"Query", "Response"}, NEW kind, NEW source \in Callsigns, source \notin Broken,
         NEW t \in Seq(Segment), NEW args,
         Single(t) = IF kind = "Raw" THEN args ELSE << <<NameOf(QueryKind, kind)>> >> \o args,
         Len(t) <= 4, \A i \in 1 .. Len(t) : Short(t[i]),
         NEW e, e = Msg(op, kind, "SERVER", Direct(source), args)
  PROVE  classic_encode(e).ok
  <1>1. PICK fields : fields = Single(t)
    OBVIOUS
  <1>2. e.op = op /\ e.kind = kind /\ e.source = "SERVER" /\ e.destination = Direct(source) /\ e.args = args
    BY DEF Msg
  <1>3. e.destination.name = <<source>>
    BY <1>2, DestinationNames, Zenon
  <1>4. PICK command \in {"CQ", "CR"} : encode_query(e) = Packet("$", command, "SERVER", <<source>>, fields)
    <2>1. PICK command \in {"CQ", "CR"} : command = IF e.op = "Query" THEN "CQ" ELSE "CR"
      OBVIOUS
    <2>2. encode_query(e) = Packet("$", command, e.source, e.destination.name,
                                   IF e.kind = "Raw" THEN e.args ELSE << <<NameOf(QueryKind, e.kind)>> >> \o e.args)
      BY <2>1, Zenon DEF encode_query
    <2>3. (IF e.kind = "Raw" THEN e.args ELSE << <<NameOf(QueryKind, e.kind)>> >> \o e.args) = fields
      BY <1>1, <1>2, Zenon
    <2> QED BY <1>2, <1>3, <2>2, <2>3, Zenon
  <1>5. PICK p : p = Packet("$", command, "SERVER", <<source>>, fields)
    OBVIOUS
  <1>6. classic_packets(e) = <<p>>
    <2>1. e.op \in {"Query", "Response"}
          /\ e.op \notin {"WeatherProfile", "Error", "Welcome", "ClientAdded", "ClientRemoved", "Position", "FlightPlan"}
      BY <1>2
    <2>2. classic_packets(e) = <<encode_query(e)>>
      BY <2>1, Zenon DEF classic_packets
    <2> QED BY <1>4, <1>5, <2>2, Zenon
  <1>7. PICK rest, f : rest = <<source>> \o t /\ f = Frame("$", command, "SERVER", rest)
    OBVIOUS
  <1>8. assemble(p) = f
    <2>1. /\ p.kind = "$" /\ p.command = command /\ p.source = "SERVER" /\ p.destination = <<source>>
          /\ p.fields = fields /\ command # "DI"
      BY <1>5 DEF Packet
    <2>2. FlattenSeq(fields) = t
      BY <1>1, FlattenSingle, Zenon
    <2> QED BY <1>7, <2>1, <2>2, AssembleCases, Zenon
  <1>9. f.head = "SERVER" /\ f.rest = rest
    BY <1>7 DEF Frame
  <1>10. Short("SERVER") /\ Short(source)
    <2>1. "SERVER" \in ServerText
      BY Zenon DEF ServerText
    <2>2. source \in Segment
      BY DialectsAssumption
    <2> QED BY <2>1, <2>2, ShortTexts DEF Short
  <1>11. rest \in Seq(Segment) /\ Len(rest) <= 9 /\ \A i \in 1 .. Len(rest) : Short(rest[i])
    <2>1. source \in Segment
      BY <1>10, Zenon DEF Short
    <2>2. /\ rest \in Seq(Segment) /\ Len(rest) = Len(t) + 1 /\ Len(t) \in Nat /\ rest[1] = source
          /\ \A i \in 1 .. Len(t) : rest[i + 1] = t[i]
      BY <1>7, <2>1
    <2>3. ASSUME NEW i \in 1 .. Len(rest) PROVE Short(rest[i])
      <3>1. CASE i = 1
        BY <1>10, <2>2, <3>1, Zenon
      <3>2. CASE i # 1
        <4>1. PICK j \in 1 .. Len(t) : i = j + 1
          BY <2>2, <3>2
        <4> QED BY <2>2, <4>1, Zenon
      <3> QED BY <3>1, <3>2
    <2> QED BY <2>2, <2>3
  <1>12. Short(f.head)
    BY <1>9, <1>10, Zenon
  <1> QED BY <1>6, <1>8, <1>9, <1>11, <1>12, ShortFits, Zenon

\* Short sequences are tuples.
LEMMA Tuples ==
  ASSUME NEW S, NEW u \in Seq(S)
  PROVE  /\ Len(u) = 1 => u = <<u[1]>>
         /\ Len(u) = 2 => u = <<u[1], u[2]>>
         /\ Len(u) = 3 => u = <<u[1], u[2], u[3]>>
  <1>1. ASSUME Len(u) = 1 PROVE u = <<u[1]>>
    <2>1. PICK v : v = <<u[1]>>
      OBVIOUS
    <2>2. v \in Seq(S) /\ Len(v) = 1 /\ \A i \in 1 .. 1 : v[i] = u[i]
      BY <1>1, <2>1
    <2> QED BY <1>1, <2>1, <2>2, SeqEqual
  <1>2. ASSUME Len(u) = 2 PROVE u = <<u[1], u[2]>>
    <2>1. PICK v : v = <<u[1], u[2]>>
      OBVIOUS
    <2>2. v \in Seq(S) /\ Len(v) = 2 /\ \A i \in 1 .. 2 : v[i] = u[i]
      BY <1>2, <2>1
    <2> QED BY <1>2, <2>1, <2>2, SeqEqual
  <1>3. ASSUME Len(u) = 3 PROVE u = <<u[1], u[2], u[3]>>
    <2>1. PICK v : v = <<u[1], u[2], u[3]>>
      OBVIOUS
    <2>2. u[1] \in S /\ u[2] \in S /\ u[3] \in S
      BY <1>3
    <2>3. v \in Seq(S) /\ Len(v) = 3 /\ v[1] = u[1] /\ v[2] = u[2] /\ v[3] = u[3]
      BY <2>1, <2>2
    <2>4. \A i \in 1 .. 3 : v[i] = u[i]
      BY <2>3
    <2> QED BY <1>3, <2>1, <2>3, <2>4, SeqEqual
  <1> QED BY <1>1, <1>2, <1>3

\* The fields of short sequences.
LEMMA SingleTuples ==
  /\ \A a : Single(<<a>>) = << <<a>> >> /\ << <<a>> >> \o <<>> = << <<a>> >>
  /\ \A a, b : Single(<<a, b>>) = << <<a>>, <<b>> >>
  /\ \A a, b, c : Single(<<a, b, c>>) = << <<a>>, <<b>>, <<c>> >>
  <1>1. ASSUME NEW a PROVE Single(<<a>>) = << <<a>> >> /\ << <<a>> >> \o <<>> = << <<a>> >>
    <2>1. PICK s, S : s = <<a>> /\ S = {a}
      OBVIOUS
    <2>2. s \in Seq(S) /\ Len(s) = 1 /\ s[1] = a
      BY <2>1
    <2>3. PICK u : u = Single(s)
      OBVIOUS
    <2>4. u \in Seq(Seq(S)) /\ Len(u) = 1 /\ u[1] = <<a>>
      BY <2>2, <2>3, SingleType
    <2>5. u = << <<a>> >>
      BY <2>4, Tuples
    <2> QED BY <2>1, <2>3, <2>5
  <1>2. ASSUME NEW a, NEW b PROVE Single(<<a, b>>) = << <<a>>, <<b>> >>
    <2>1. PICK s, S : s = <<a, b>> /\ S = {a, b}
      OBVIOUS
    <2>2. s \in Seq(S) /\ Len(s) = 2 /\ s[1] = a /\ s[2] = b
      BY <2>1
    <2>3. PICK u : u = Single(s)
      OBVIOUS
    <2>4. u \in Seq(Seq(S)) /\ Len(u) = 2 /\ u[1] = <<a>> /\ u[2] = <<b>>
      BY <2>2, <2>3, SingleType
    <2>5. u = << <<a>>, <<b>> >>
      <3>1. u = <<u[1], u[2]>>
        BY <2>4, Tuples
      <3> QED BY <2>4, <3>1, Zenon
    <2> QED BY <2>1, <2>3, <2>5
  <1>3. ASSUME NEW a, NEW b, NEW c PROVE Single(<<a, b, c>>) = << <<a>>, <<b>>, <<c>> >>
    <2>1. PICK s, S : s = <<a, b, c>> /\ S = {a, b, c}
      OBVIOUS
    <2>2. s \in Seq(S) /\ Len(s) = 3 /\ s[1] = a /\ s[2] = b /\ s[3] = c
      BY <2>1
    <2>3. PICK u : u = Single(s)
      OBVIOUS
    <2>4. u \in Seq(Seq(S)) /\ Len(u) = 3 /\ u[1] = <<a>> /\ u[2] = <<b>> /\ u[3] = <<c>>
      BY <2>2, <2>3, SingleType, SMTT(40)
    <2>5. u = << <<a>>, <<b>>, <<c>> >>
      <3>1. u = <<u[1], u[2], u[3]>>
        BY <2>4, Tuples
      <3> QED BY <2>4, <3>1, Zenon
    <2> QED BY <2>1, <2>3, <2>5
  <1> QED BY <1>1, <1>2, <1>3, Zenon

\* One element and two.
LEMMA ConcatOneTwo ==
  ASSUME NEW x, NEW y, NEW z
  PROVE  <<x>> \o <<y, z>> = <<x, y, z>>
  <1>1. PICK u, S : u = <<x>> \o <<y, z>> /\ S = {x, y, z}
    OBVIOUS
  <1>2. u \in Seq(S) /\ Len(u) = 3 /\ u[1] = x /\ u[2] = y /\ u[3] = z
    BY <1>1
  <1>3. u = <<u[1], u[2], u[3]>>
    BY <1>2, Tuples
  <1>4. u = <<x, y, z>>
    BY <1>2, <1>3, Zenon
  <1> QED BY <1>1, <1>4

\* Tuples of short segments.
LEMMA ShortTuples ==
  /\ \A a : Short(a) => <<a>> \in Seq(Segment) /\ \A i \in 1 .. Len(<<a>>) : Short(<<a>>[i])
  /\ \A a, b : Short(a) /\ Short(b) => <<a, b>> \in Seq(Segment) /\ \A i \in 1 .. Len(<<a, b>>) : Short(<<a, b>>[i])
  /\ \A a, b, c : Short(a) /\ Short(b) /\ Short(c) =>
       <<a, b, c>> \in Seq(Segment) /\ \A i \in 1 .. Len(<<a, b, c>>) : Short(<<a, b, c>>[i])
  <1>1. \A a : Short(a) => a \in Segment
    BY Zenon DEF Short
  <1> QED BY <1>1

\* What a VATSIM client is asked and told at its login is written.
LEMMA ProfileFits ==
  ASSUME NEW c, NEW source \in Callsigns, c.source = source, source \notin Broken,
         NEW e \in vatsim_login_profile(c), e.op # "Error"
  PROVE  classic_encode(e).ok
  <1> DEFINE tell(op, kind, args) == Msg(op, kind, "SERVER", Direct(source), args)
  <1>1. \/ e = tell("Query", "Capabilities", <<>>)
        \/ e = tell("Response", "Raw", << <<"IP">>, <<"192.0.2.1">> >>)
        \/ e = tell("Response", "Raw", << <<"ATC">>, <<"N">>, <<source>> >>)
        \/ e = tell("Response", "Capabilities", << <<"ATCINFO=1">>, <<"SECPOS=1">> >>)
    <2>1. e # error_event(source, "NoFlightPlan", <<source>>)
      BY DEF error_event, Msg
    <2> QED BY <2>1, Zenon DEF vatsim_login_profile
  <1>2. NameOf(QueryKind, "Capabilities") = "CAPS"
    <2>1. PICK name : name = NameOf(QueryKind, "Capabilities")
      OBVIOUS
    <2>2. name \in DOMAIN QueryKind /\ QueryKind[name] = "Capabilities"
      BY <2>1, QueryNames DEF QueryKinds
    <2> QED BY <2>1, <2>2, QueryKindDomain
  <1>3. /\ Short("CAPS") /\ Short("IP") /\ Short("192.0.2.1") /\ Short("ATC") /\ Short("N")
        /\ Short("ATCINFO=1") /\ Short("SECPOS=1") /\ Short(source)
    <2>1. {"IP", "192.0.2.1", "ATC", "N", "ATCINFO=1", "SECPOS=1"} \subseteq ServerText
      BY Zenon DEF ServerText
    <2>2. "CAPS" \in ServerText
      BY QueryKindDomain, Zenon DEF ServerText
    <2>3. source \in Segment
      BY DialectsAssumption
    <2> QED BY <2>1, <2>2, <2>3, ShortTexts, Zenon DEF Short
  <1>4. CASE e = tell("Query", "Capabilities", <<>>)
    <2>1. PICK t, args : t = <<"CAPS">> /\ args = <<>>
      OBVIOUS
    <2>2. t \in Seq(Segment) /\ \A i \in 1 .. Len(t) : Short(t[i])
      BY <1>3, <2>1, ShortTuples, Zenon
    <2>3. Single(t) = << <<NameOf(QueryKind, "Capabilities")>> >> \o args
      BY <1>2, <2>1, SingleTuples, Zenon
    <2>4. Len(t) <= 4 /\ "Capabilities" # "Raw" /\ "Query" \in {"Query", "Response"}
      BY <2>1
    <2> QED BY <1>4, <2>1, <2>2, <2>3, <2>4, ToldFits, Zenon
  <1>5. CASE e = tell("Response", "Raw", << <<"IP">>, <<"192.0.2.1">> >>)
    <2>1. PICK t, args : t = <<"IP", "192.0.2.1">> /\ args = << <<"IP">>, <<"192.0.2.1">> >>
      OBVIOUS
    <2>2. t \in Seq(Segment) /\ \A i \in 1 .. Len(t) : Short(t[i])
      BY <1>3, <2>1, ShortTuples, Zenon
    <2>3. Single(t) = args
      BY <2>1, SingleTuples, Zenon
    <2>4. Len(t) <= 4 /\ "Response" \in {"Query", "Response"}
      BY <2>1
    <2> QED BY <1>5, <2>1, <2>2, <2>3, <2>4, ToldFits, Zenon
  <1>6. CASE e = tell("Response", "Raw", << <<"ATC">>, <<"N">>, <<source>> >>)
    <2>1. PICK t, args : t = <<"ATC", "N", source>> /\ args = << <<"ATC">>, <<"N">>, <<source>> >>
      OBVIOUS
    <2>2. t \in Seq(Segment) /\ \A i \in 1 .. Len(t) : Short(t[i])
      BY <1>3, <2>1, ShortTuples, Zenon
    <2>3. Single(t) = args
      BY <2>1, SingleTuples, Zenon
    <2>4. Len(t) <= 4 /\ "Response" \in {"Query", "Response"}
      BY <2>1
    <2> QED BY <1>6, <2>1, <2>2, <2>3, <2>4, ToldFits, Zenon
  <1>7. CASE e = tell("Response", "Capabilities", << <<"ATCINFO=1">>, <<"SECPOS=1">> >>)
    <2>1. PICK t, args : t = <<"CAPS", "ATCINFO=1", "SECPOS=1">> /\ args = << <<"ATCINFO=1">>, <<"SECPOS=1">> >>
      OBVIOUS
    <2>2. t \in Seq(Segment) /\ \A i \in 1 .. Len(t) : Short(t[i])
      BY <1>3, <2>1, ShortTuples, Zenon
    <2>3. Single(t) = << <<NameOf(QueryKind, "Capabilities")>> >> \o args
      <3>1. Single(t) = << <<"CAPS">>, <<"ATCINFO=1">>, <<"SECPOS=1">> >>
        BY <2>1, SingleTuples, Zenon
      <3>2. << <<"CAPS">> >> \o << <<"ATCINFO=1">>, <<"SECPOS=1">> >> = << <<"CAPS">>, <<"ATCINFO=1">>, <<"SECPOS=1">> >>
        BY ConcatOneTwo, Zenon
      <3> QED BY <1>2, <2>1, <3>1, <3>2, Zenon
    <2>4. Len(t) <= 4 /\ "Capabilities" # "Raw" /\ "Response" \in {"Query", "Response"}
      BY <2>1
    <2> QED BY <1>7, <2>1, <2>2, <2>3, <2>4, ToldFits, Zenon
  <1> QED BY <1>1, <1>4, <1>5, <1>6, <1>7

\* The printed columns of a valid position are short, and so is its sender.
LEMMA PrintedShort ==
  ASSUME NEW c, NEW prefix \in {"@", "%"}, NEW command, NEW columns, NEW t, Printed(c, prefix, command, columns, t),
         validate(c)
  PROVE  LET u == Rewritten(t, prefix, Rounded)
         IN  u \in Seq(Segment) /\ Len(u) <= 8 /\ \A i \in 1 .. Len(u) : Short(u[i])
  <1>1. t \in Seq(Segment) /\ Len(t) = Len(columns) /\ c.args = << <<command>> >> \o Single(t)
        /\ \A i \in 1 .. Len(t) : t[i] \in DOMAIN columns[i].conversion /\ columns[i].conversion[t[i]] = t[i]
    BY Zenon DEF Printed
  <1>2. \A i \in 1 .. Len(t) : t[i] \in Segment /\ Size[t[i]] \in Nat
    BY <1>1, SizeType
  <1>3. PICK fields : fields = Single(t)
    OBVIOUS
  <1>4. fields \in Seq(Seq(Segment)) /\ Len(fields) = Len(t) /\ \A i \in 1 .. Len(t) : fields[i] = <<t[i]>>
    BY <1>1, <1>3, SingleType, Zenon
  <1>5. \A i \in 1 .. Len(t) : c.args[i + 1][1] = t[i]
    <2> TAKE i \in 1 .. Len(t)
    <2>1. (<< <<command>> >> \o fields)[i + 1] = fields[i]
      BY <1>1, <1>4
    <2>2. <<t[i]>>[1] = t[i]
      OBVIOUS
    <2> QED BY <1>1, <1>3, <1>4, <2>1, <2>2, Zenon
  <1>6. ASSUME NEW i \in 1 .. Len(t), NEW f \in {Int32, Unsigned, Squawk}, columns[i].conversion = f PROVE Short(t[i])
    <2>1. t[i] \in DOMAIN f /\ f[t[i]] = t[i]
      BY <1>1, <1>6, Zenon
    <2>2. Size[f[t[i]]] <= 11 /\ f[t[i]] \notin Broken
      BY <2>1, DialectsAssumption
    <2> QED BY <1>2, <2>1, <2>2 DEF Short
  <1>7. ASSUME NEW i \in 1 .. Len(t), t[i] \in Longitudes PROVE Short(Rounded[t[i]])
    <2>1. t[i] \in DOMAIN Rounded /\ Canonical(Rounded)
      BY <1>7, DialectsAssumption, RelayAssumption
    <2>2. Rounded[t[i]] \in Segment
      BY <2>1 DEF Canonical
    <2>3. Size[Rounded[t[i]]] <= 10 /\ Rounded[t[i]] \notin Broken
      BY <1>7, <2>1, DialectsAssumption, RelayAssumption
    <2>4. Size[Rounded[t[i]]] \in Nat
      BY <2>2, PacketAssumption
    <2> QED BY <2>2, <2>3, <2>4 DEF Short
  <1>a. PICK u : u = Rewritten(t, prefix, Rounded)
    OBVIOUS
  <1>b. ASSUME \A i \in 1 .. Len(t) : Short(IF i \in Places(prefix) THEN Rounded[t[i]] ELSE t[i])
        PROVE  u \in Seq(Segment) /\ Len(u) = Len(t) /\ \A i \in 1 .. Len(u) : Short(u[i])
    <2>1. u = [i \in 1 .. Len(t) |-> IF i \in Places(prefix) THEN Rounded[t[i]] ELSE t[i]]
      BY <1>a DEF Rewritten
    <2>2. \A i \in 1 .. Len(t) : Short(u[i])
      BY <1>b, <2>1, Zenon
    <2>3. \A i \in 1 .. Len(t) : u[i] \in Segment
      BY <2>2, Zenon DEF Short
    <2>4. u \in Seq(Segment) /\ Len(u) = Len(t)
      BY <1>1, <2>1, <2>3
    <2> QED BY <2>2, <2>4
  <1>8. CASE prefix = "@"
    <2>1. columns = PilotColumns /\ c.kind = "Pilot"
      BY <1>8, Zenon DEF Printed
    <2>2. c.args[4][1] \in Longitudes /\ c.args[5][1] \in Longitudes
      <3>1. c.args[4][1] \in Latitudes /\ c.args[5][1] \in Longitudes
        BY <2>1, Zenon DEF validate
      <3> QED BY <3>1, RelayAssumption
    <2>3. Len(t) = 8
      BY <1>1, <2>1, LayoutType, Zenon
    <2>4. t[3] \in Longitudes /\ t[4] \in Longitudes
      <3>1. 3 \in 1 .. Len(t) /\ 4 \in 1 .. Len(t) /\ 3 + 1 = 4 /\ 4 + 1 = 5
        BY <2>3
      <3>2. c.args[3 + 1][1] = t[3] /\ c.args[4 + 1][1] = t[4]
        BY <1>5, <3>1, Zenon
      <3> QED BY <2>2, <3>1, <3>2, Zenon
    <2>5. \A i \in 1 .. 8 : i \notin {3, 4} => columns[i].conversion \in {Int32, Unsigned, Squawk}
      BY <2>1 DEF PilotColumns, Column, Number
    <2>a. Places(prefix) = {3, 4}
      BY <1>8 DEF Places
    <2>6. \A i \in 1 .. Len(t) : Short(IF i \in Places(prefix) THEN Rounded[t[i]] ELSE t[i])
      <3> TAKE i \in 1 .. Len(t)
      <3>1. CASE i \notin {3, 4}
        <4>1. columns[i].conversion \in {Int32, Unsigned, Squawk}
          BY <2>3, <2>5, <3>1
        <4>2. Short(t[i])
          BY <1>6, <4>1, Zenon
        <4> QED BY <2>a, <3>1, <4>2, Zenon
      <3>2. CASE i \in {3, 4}
        <4>1. t[i] \in Longitudes
          BY <2>4, <3>2
        <4>2. Short(Rounded[t[i]])
          BY <1>7, <4>1, Zenon
        <4> QED BY <2>a, <3>2, <4>2, Zenon
      <3> QED BY <3>1, <3>2
    <2>7. u \in Seq(Segment) /\ Len(u) = Len(t) /\ \A i \in 1 .. Len(u) : Short(u[i])
      BY <1>b, <2>6, Zenon
    <2> QED BY <1>a, <2>3, <2>7
  <1>9. CASE prefix = "%"
    <2>1. columns = AtcColumns /\ c.kind = "Atc"
      BY <1>9, Zenon DEF Printed
    <2>2. c.args[6][1] \in Longitudes /\ c.args[7][1] \in Longitudes
      <3>1. c.args[6][1] \in Latitudes /\ c.args[7][1] \in Longitudes
        BY <2>1, Zenon DEF validate
      <3> QED BY <3>1, RelayAssumption
    <2>3. Len(t) = 7
      BY <1>1, <2>1, LayoutType, Zenon
    <2>4. t[5] \in Longitudes /\ t[6] \in Longitudes
      <3>1. 5 \in 1 .. Len(t) /\ 6 \in 1 .. Len(t) /\ 5 + 1 = 6 /\ 6 + 1 = 7
        BY <2>3
      <3>2. c.args[5 + 1][1] = t[5] /\ c.args[6 + 1][1] = t[6]
        BY <1>5, <3>1, Zenon
      <3> QED BY <2>2, <3>1, <3>2, Zenon
    <2>5. \A i \in 1 .. 7 : i \notin {5, 6} => columns[i].conversion \in {Int32, Unsigned, Squawk}
      BY <2>1 DEF AtcColumns, Column, Number
    <2>a. Places(prefix) = {5, 6}
      BY <1>9 DEF Places
    <2>6. \A i \in 1 .. Len(t) : Short(IF i \in Places(prefix) THEN Rounded[t[i]] ELSE t[i])
      <3> TAKE i \in 1 .. Len(t)
      <3>1. CASE i \notin {5, 6}
        <4>1. columns[i].conversion \in {Int32, Unsigned, Squawk}
          BY <2>3, <2>5, <3>1
        <4>2. Short(t[i])
          BY <1>6, <4>1, Zenon
        <4> QED BY <2>a, <3>1, <4>2, Zenon
      <3>2. CASE i \in {5, 6}
        <4>1. t[i] \in Longitudes
          BY <2>4, <3>2
        <4>2. Short(Rounded[t[i]])
          BY <1>7, <4>1, Zenon
        <4> QED BY <2>a, <3>2, <4>2, Zenon
      <3> QED BY <3>1, <3>2
    <2>7. u \in Seq(Segment) /\ Len(u) = Len(t) /\ \A i \in 1 .. Len(u) : Short(u[i])
      BY <1>b, <2>6, Zenon
    <2> QED BY <1>a, <2>3, <2>7
  <1> QED BY <1>8, <1>9

\* A valid position is written.
LEMMA PlacedFits ==
  ASSUME NEW c, NEW source, Placed(c, source), validate(c), source \notin Broken
  PROVE  classic_encode(c).ok
  <1>a. PICK prefix \in {"@", "%"} : \E command, columns, read :
          /\ classic_packets(c) =
               <<Packet(prefix, command, Upper[source], <<Empty>>, Single(Rewritten(read, prefix, Rounded)))>>
          /\ source \in Callsigns /\ Printed(c, prefix, command, columns, read)
    BY Zenon DEF Placed
  <1>b. PICK command, columns, read :
          /\ classic_packets(c) =
               <<Packet(prefix, command, Upper[source], <<Empty>>, Single(Rewritten(read, prefix, Rounded)))>>
          /\ source \in Callsigns /\ Printed(c, prefix, command, columns, read)
    BY <1>a, Zenon
  <1>c. PICK t : t = Rewritten(read, prefix, Rounded)
    OBVIOUS
  <1>1. /\ classic_packets(c) = <<Packet(prefix, command, Upper[source], <<Empty>>, Single(t))>>
        /\ source \in Callsigns /\ Printed(c, prefix, command, columns, read)
    BY <1>b, <1>c, Zenon
  <1>2. t \in Seq(Segment) /\ Len(t) <= 8 /\ \A i \in 1 .. Len(t) : Short(t[i])
    BY <1>1, <1>c, PrintedShort, Zenon
  <1>3. PICK src, p : src = Upper[source] /\ p = Packet(prefix, command, src, <<Empty>>, Single(t))
    OBVIOUS
  <1>4. Short(src)
    <2>1. source \in Segment /\ src \in Callsigns
      BY <1>1, <1>3, DialectsAssumption
    <2>2. src \in Segment /\ src \notin Broken
      BY <1>3, <2>1, UpperSize, Zenon
    <2> QED BY <2>1, <2>2, ShortTexts, Zenon DEF Short
  <1>5. Short(Empty)
    <2>1. Empty \in ServerText
      BY Zenon DEF ServerText
    <2> QED BY <2>1, ShortTexts, Zenon
  <1>6. p.kind = prefix /\ p.command = command /\ p.source = src /\ p.fields = Single(t)
    BY <1>3 DEF Packet
  <1>7. FlattenSeq(p.fields) = t
    BY <1>2, <1>6, FlattenSingle, Zenon
  <1>8. command # "DI"
    BY <1>1, EmptyIsNoCommand DEF Printed
  <1>9. CASE prefix = "@"
    <2>1. PICK f, s : f = assemble(p) /\ s = <<src>> \o t
      OBVIOUS
    <2>2. assemble(p) = Frame("@", command, Empty, <<src>> \o t)
      BY <1>6, <1>7, <1>8, <1>9, AssembleCases, Zenon
    <2>3. f.head = Empty /\ f.rest = s
      BY <2>1, <2>2 DEF Frame
    <2>4. src \in Segment
      BY <1>4, Zenon DEF Short
    <2>5. s \in Seq(Segment) /\ Len(s) = Len(t) + 1 /\ s[1] = src /\ \A j \in 1 .. Len(t) : s[j + 1] = t[j]
      BY <1>2, <2>1, <2>4
    <2>6. Len(s) <= 9
      BY <1>2, <2>5
    <2>7. ASSUME NEW i \in 1 .. Len(s) PROVE Short(s[i])
      <3>1. CASE i = 1
        BY <1>4, <2>5, <3>1, Zenon
      <3>2. CASE i # 1
        <4>1. PICK j \in 1 .. Len(t) : i = j + 1
          BY <1>2, <2>5, <3>2
        <4> QED BY <1>2, <2>5, <4>1, Zenon
      <3> QED BY <3>1, <3>2
    <2>8. classic_packets(c) = <<p>> /\ Short(f.head)
      BY <1>1, <1>3, <1>5, <2>3, Zenon
    <2> QED BY <2>1, <2>3, <2>5, <2>6, <2>7, <2>8, ShortFits, Zenon
  <1>10. CASE prefix = "%"
    <2>1. PICK f : f = assemble(p)
      OBVIOUS
    <2>2. assemble(p) = Frame("%", Empty, src, t)
      BY <1>6, <1>7, <1>8, <1>10, AssembleCases, Zenon
    <2>3. f.head = src /\ f.rest = t
      BY <2>1, <2>2 DEF Frame
    <2>4. classic_packets(c) = <<p>> /\ Short(f.head)
      BY <1>1, <1>3, <1>4, <2>3, Zenon
    <2>5. Len(t) <= 9
      BY <1>2
    <2> QED BY <1>2, <2>1, <2>3, <2>4, <2>5, ShortFits, Zenon
  <1> QED BY <1>9, <1>10

\* Nothing of an inbound frame is broken, and what it is parsed to has its bytes.
LEMMA InboundBytes ==
  ASSUME NEW frame \in Inbound["Classic"] \cup Inbound["Vatsim"], parse(frame).ok, NEW p, p = parse(frame).value
  PROVE  /\ p.source \notin Broken
         /\ \A segments, to : p.kind \in {"#", "$", "!", "&", "-"} /\ p.command \in Letters /\ Read(p, segments, to)
                                /\ fits(frame, 511)
              => Enveloped(frame, p.source, to, segments)
  <1>1. IsFrame(frame) /\ frame.head \notin Broken /\ frame.rest \in Seq(Segment)
        /\ \A i \in 1 .. Len(frame.rest) : frame.rest[i] \notin Broken
    BY RelayAssumption DEF IsFrame
  <1>2. frame.rest # <<>> => frame.rest[1] \notin Broken
    <2>1. frame.rest # <<>> => 1 \in 1 .. Len(frame.rest)
      BY <1>1
    <2> QED BY <1>1, <2>1, Zenon
  <1>3. frame.prefix \in {"@", "%", "#", "$", "!", "&", "-"}
    BY <1>1, ParsedPrefix, Zenon
  <1>4. CASE frame.prefix = "@"
    <2>1. PICK source \in Segment \ {Empty}, segments \in Seq(Segment) :
            /\ parse(frame) = Ok(Packet("@", frame.command, source, <<Empty>>, Single(segments)))
            /\ IF frame.head = Empty THEN frame.rest = <<source>> \o segments
               ELSE frame.head = source /\ frame.rest = segments
      BY <1>1, <1>4, ParsedPilot, Zenon
    <2>2. p = Packet("@", frame.command, source, <<Empty>>, Single(segments))
      BY <2>1, OkOrErr, Zenon
    <2>3. p.kind = "@" /\ p.source = source
      BY <2>2 DEF Packet
    <2>4. frame.head = Empty => frame.rest # <<>> /\ frame.rest[1] = source
      BY <2>1, Prepended
    <2> QED BY <1>1, <1>2, <2>1, <2>3, <2>4
  <1>5. CASE frame.prefix = "%"
    <2>1. parse(frame) = Ok(Packet("%", Empty, frame.head, <<Empty>>, Single(frame.rest)))
      BY <1>1, <1>5, ParsedAtc, Zenon
    <2>2. p = Packet("%", Empty, frame.head, <<Empty>>, Single(frame.rest))
      BY <2>1, OkOrErr, Zenon
    <2>3. p.kind = "%" /\ p.source = frame.head
      BY <2>2 DEF Packet
    <2> QED BY <1>1, <2>3
  <1>6. CASE frame.prefix \in {"#", "$", "!", "&", "-"}
    <2>1. PICK second \in Segment, segments \in Seq(Segment) :
            /\ parse(frame) =
                 IF frame.command = "DI"
                 THEN Ok(Packet(frame.prefix, "DI", second, <<frame.head>>, Single(segments)))
                 ELSE Ok(Packet(frame.prefix, frame.command, frame.head, <<second>>, Single(segments)))
            /\ frame.rest = <<second>> \o segments
      BY <1>1, <1>6, ParsedCommand, Zenon
    <2>2. frame.rest # <<>> /\ frame.rest[1] = second /\ Len(frame.rest) = Len(segments) + 1
          /\ \A i \in 1 .. Len(segments) : frame.rest[i + 1] = segments[i] /\ i + 1 \in 1 .. Len(frame.rest)
      BY <2>1
    <2>3. second \notin Broken /\ \A i \in 1 .. Len(segments) : segments[i] \notin Broken
      BY <1>1, <1>2, <2>2, Zenon
    <2>4. CASE frame.command = "DI"
      <3>1. p = Packet(frame.prefix, "DI", second, <<frame.head>>, Single(segments))
        BY <2>1, <2>4, OkOrErr, Zenon
      <3>2. p.source = second /\ p.command = "DI"
        BY <3>1 DEF Packet
      <3>3. p.command \notin Letters
        BY <3>2 DEF Letters
      <3> QED BY <2>3, <3>2, <3>3, Zenon
    <2>5. CASE frame.command # "DI"
      <3>1. p = Packet(frame.prefix, frame.command, frame.head, <<second>>, Single(segments))
        BY <2>1, <2>5, OkOrErr, Zenon
      <3>2. p.source = frame.head /\ p.command = frame.command /\ p.destination = <<second>>
            /\ p.fields = Single(segments)
        BY <3>1 DEF Packet
      <3>3. ASSUME NEW t, NEW to, p.command \in Letters, Read(p, t, to), fits(frame, 511)
            PROVE  Enveloped(frame, p.source, to, t)
        <4>1. to = second
          <5>1. <<to>> = <<second>>
            BY <3>2, <3>3, Zenon DEF Read
          <5> QED BY <5>1
        <4>2. t \in Seq(Segment) /\ p.fields = Single(t)
          BY <3>3, Zenon DEF Read
        <4>3. t = segments
          BY <3>2, <4>2, FlattenSingle, Zenon
        <4>4. frame_bytes(frame) <= 511
          BY <3>3, Zenon DEF fits
        <4>5. frame.head \in Segment
          BY <1>1 DEF IsFrame
        <4> QED BY <1>1, <2>1, <2>3, <3>2, <3>3, <4>1, <4>3, <4>4, <4>5, Zenon DEF Enveloped
      <3> QED BY <1>1, <3>2, <3>3, Zenon
    <2> QED BY <2>4, <2>5
  <1> QED BY <1>3, <1>4, <1>5, <1>6

\* Only a callsign logs in, and its session has it in upper case.
LEMMA LoginSource ==
  ASSUME NEW q, q.command \in {"AA", "AP"}, NEW c, decode_login(q) = Ok(c)
  PROVE  c.source = Upper[q.source] /\ q.source \in Callsigns
  <1>1. PICK columns, a, b, m, kind, args :
          /\ decode_login(q) = Checked(<<a, b>> \o column_faults(columns, q), m)
          /\ columns = LoginColumns[q.command] /\ a = require_fields(q, Len(columns))
          /\ b = callsign(q.source, "InvalidCallsign") /\ m = Msg("Login", kind, Upper[q.source], Nowhere, args)
    BY Zenon DEF decode_login
  <1>2. columns \in Seq(ColumnSet) /\ a \in FaultSet /\ b \in FaultSet
    <2>1. columns \in Seq(ColumnSet)
      BY <1>1, LoginColumnsType
    <2> QED BY <1>1, <2>1, FaultTypes, Zenon
  <1>3. Checked(<<a, b>> \o column_faults(columns, q), m) = Ok(c)
    BY <1>1, Zenon
  <1>4. c = m
    BY <1>3, CheckedIs, Zenon
  <1>5. b = None
    BY <1>2, <1>3, CheckedColumns, OkOrErr
  <1>6. q.source \in Callsigns
    BY <1>1, <1>5, NoFault, Zenon
  <1> QED BY <1>1, <1>4, <1>6 DEF Msg

\* A ping that the server answers: what it decoded to.
LEMMA PingDecoded ==
  ASSUME NEW q, NEW segments, NEW to, Read(q, segments, to), Kinded(q), q.kind \in {"#", "$", "!", "&", "-"},
         q.command \in {"PI", "PO"}, NEW c, decode_packet(q) = Ok(c), segments # <<>>
  PROVE  c.source = Upper[q.source] /\ c.args = <<segments>> /\ c.destination = destination(to)
  <1>1. decode_ping_pong(q) = Ok(c)
    BY DecodePacketCases, Zenon
  <1>2. PICK faults, m, op, joined : /\ decode_ping_pong(q) = Checked(faults, m) /\ joined = join(q.fields)
                                     /\ m = Msg(op, "Text", Upper[q.source], destination(q.destination[1]), <<joined>>)
    BY Zenon DEF decode_ping_pong
  <1>3. Checked(faults, m) = Ok(c)
    BY <1>1, <1>2, Zenon
  <1>4. c = m
    BY <1>3, CheckedIs, Zenon
  <1>5. q.destination[1] = to
    BY DEF Read
  <1>6. joined = segments
    BY <1>2, JoinedPayload, Zenon
  <1>7. PICK d : d = destination(q.destination[1])
    OBVIOUS
  <1>8. c.source = Upper[q.source] /\ c.args = <<joined>> /\ c.destination = d
    BY <1>2, <1>4, <1>7 DEF Msg
  <1> QED BY <1>5, <1>6, <1>7, <1>8, Zenon

\* Only a spelling of SERVER names the server.
LEMMA ServerDestination ==
  ASSUME NEW value, destination(value).to = "Server"
  PROVE  Upper[value] = "SERVER"
  <1>1. /\ Nowhere.to # "Server" /\ Atc.to # "Server" /\ To("All", <<"*">>).to # "Server"
        /\ To("Pilots", <<"*P">>).to # "Server" /\ To("Range", <<value>>).to # "Server"
        /\ Direct(Upper[value]).to # "Server"
    BY DEF Nowhere, Atc, To, Direct
  <1> QED BY <1>1, Zenon DEF destination

\* The commands that a decoded operation can have come from.
LEMMA DecodedCommand ==
  ASSUME NEW q, Kinded(q), q.kind \in {"#", "$", "!", "&", "-"}, NEW c, decode_packet(q) = Ok(c)
  PROVE  /\ c.op = "Login" => q.command \in {"AA", "AP"}
         /\ c.op = "Ping" => q.command \in {"PI", "PO"}
         /\ c.op \in Routed \cup {"Position"} => q.command \in {"CQ", "CR", "TM", "PI", "PO"} \cup DOMAIN DirectKind
  <1>1. PICK known : known = {"CQ", "CR", "WX", "AX", "AA", "AP", "DA", "DP", "TM", "FP", "PI", "PO", "!!"}
                               \cup DOMAIN DirectKind
    OBVIOUS
  <1>2. q.command \in known
    BY <1>1, DecodedOp, Zenon
  <1>3. /\ q.command \in {"CQ", "CR"} => c.op \in {"Query", "Response"}
        /\ q.command \in DOMAIN DirectKind => c.op \in {"Handoff", "ClientData"}
        /\ q.command = "TM" => c.op = "Text"
        /\ q.command \in {"PI", "PO"} => c.op \in {"Ping", "Pong"}
        /\ q.command = "FP" => c.op = "FlightPlan"
        /\ q.command \in {"WX", "AX"} => c.op \in {"WeatherRequest", "Noop"}
        /\ q.command \in {"AA", "AP"} => c.op = "Login"
        /\ q.command \in {"DA", "DP"} => c.op = "Logoff"
        /\ q.command = "!!" => c.op = "Kill"
    BY DecodedOp, Zenon
  <1> QED BY <1>1, <1>2, <1>3 DEF Routed

\* What becomes of an accepted packet that is short enough is short enough, too.
LEMMA RelayedFits ==
  ASSUME NEW frame \in Inbound["Classic"] \cup Inbound["Vatsim"], parse(frame).ok, NEW q, q = parse(frame).value,
         fits(frame, 511), NEW c, decode_packet(q) = Ok(c), NEW e, Origin(e, c),
         e.op \in Routed \cup {"Position"}, e.op \in {"Ping", "Pong"} => q.fields # <<>>
  PROVE  classic_encode(e).ok
  <1>1. PICK segments, to : Read(q, segments, to) /\ Kinded(q)
    BY InboundPacket, Zenon
  <1>2. q.source \notin Broken
    BY InboundBytes, Zenon
  <1>3. q.kind \in {"#", "$", "!", "&", "-"} /\ q.command \in Letters => Enveloped(frame, q.source, to, segments)
    BY <1>1, InboundBytes, Zenon
  <1>4. q.fields # <<>> => segments # <<>>
    BY <1>1, SingleType DEF Read
  <1>5. \/ e = c /\ (c.op = "Position" => validate(c))
        \/ c.op = "Ping" /\ c.destination.to = "Server" /\ e = ServerMsg("Pong", c.source, c.args)
        \/ c.op = "Login" /\ e \in vatsim_login_profile(c)
    <2>1. e.op # "FlightPlan"
      BY DEF Routed
    <2>2. c.op = "FlightPlan" => [c EXCEPT !.destination = Atc].op = "FlightPlan"
      BY <2>1
    <2> QED BY <2>1, <2>2, Zenon DEF Origin
  <1>6. CASE q.kind \in {"@", "%"}
    <2>1. c.op = "Position"
      BY <1>1, <1>6, DecodedOp, Zenon
    <2>2. e = c /\ validate(c)
      BY <1>5, <2>1
    <2>3. Placed(c, q.source)
      BY <1>1, <1>6, PositionReadsBack, Zenon
    <2> QED BY <1>2, <2>2, <2>3, PlacedFits, Zenon
  <1>7. CASE q.kind \in {"#", "$", "!", "&", "-"}
    <2>1. CASE c.op = "Login" /\ e \in vatsim_login_profile(c)
      <3>1. q.command \in {"AA", "AP"}
        BY <1>1, <1>7, <2>1, DecodedCommand, Zenon
      <3>2. decode_login(q) = Ok(c)
        BY <1>1, <1>7, <3>1, DecodePacketCases, Zenon
      <3>3. PICK source : source = c.source
        OBVIOUS
      <3>4. source = Upper[q.source] /\ q.source \in Callsigns
        BY <3>1, <3>2, <3>3, LoginSource
      <3>5. q.source \in Segment /\ source \in Callsigns
        BY <3>4, DialectsAssumption
      <3>6. source \notin Broken
        BY <1>2, <3>4, <3>5, UpperSize, Zenon
      <3>7. e.op # "Error"
        BY DEF Routed
      <3> QED BY <2>1, <3>3, <3>5, <3>6, <3>7, ProfileFits, Zenon
    <2>2. CASE c.op = "Ping" /\ c.destination.to = "Server" /\ e = ServerMsg("Pong", c.source, c.args)
      <3>1. q.command \in {"PI", "PO"}
        BY <1>1, <1>7, <2>2, DecodedCommand, Zenon
      <3>2. e.op = "Pong"
        BY <2>2 DEF ServerMsg, Msg
      <3>3. segments # <<>>
        BY <1>4, <3>2
      <3>4. c.source = Upper[q.source] /\ c.args = <<segments>> /\ c.destination = destination(to)
        BY <1>1, <1>7, <3>1, <3>3, PingDecoded
      <3>5. destination(to).to = "Server"
        BY <2>2, <3>4, Zenon
      <3>6. Upper[to] = "SERVER"
        BY <3>5, ServerDestination, Zenon
      <3>7. q.command \in Letters
        BY <3>1 DEF Letters
      <3>8. Enveloped(frame, q.source, to, segments) /\ e = ServerMsg("Pong", Upper[q.source], <<segments>>)
        BY <1>3, <1>7, <2>2, <3>4, <3>7, Zenon
      <3> QED BY <3>6, <3>8, PongFits, Zenon
    <2>3. CASE e = c
      <3>2. q.command \in {"CQ", "CR", "TM", "PI", "PO"} \cup DOMAIN DirectKind
        BY <1>1, <1>7, <2>3, DecodedCommand, Zenon
      <3>3. q.command \in Letters
        BY <3>2, DirectKindDomain DEF Letters
      <3>4. Enveloped(frame, q.source, to, segments)
        BY <1>3, <1>7, <3>3, Zenon
      <3>5. Kept(e, q.source, to, segments)
        <4>1. CASE q.command = "TM"
          BY <1>1, <1>7, <2>3, <4>1, TextReadsBack, Zenon
        <4>2. CASE q.command \in {"PI", "PO"}
          <5>1. c.op \in {"Ping", "Pong"}
            BY <1>1, <1>7, <4>2, DecodedOp, Zenon
          <5>2. segments # <<>>
            BY <1>4, <2>3, <5>1, Zenon
          <5> QED BY <1>1, <1>7, <2>3, <4>2, <5>2, PingReadsBack, Zenon
        <4>3. CASE q.command \in {"CQ", "CR"}
          BY <1>1, <1>7, <2>3, <4>3, QueryReadsBack, Zenon
        <4>4. CASE q.command \in DOMAIN DirectKind
          BY <1>1, <1>7, <2>3, <4>4, DirectReadsBack, Zenon
        <4> QED BY <3>2, <4>1, <4>2, <4>3, <4>4
      <3> QED BY <3>4, <3>5, KeptFits, Zenon
    <2> QED BY <1>5, <2>1, <2>2, <2>3
  <1> QED BY <1>1, <1>6, <1>7 DEF Kinded

\* What is relayed fits, from the invariant.
LEMMA InvFits ==
  ASSUME RelayInv
  PROVE  ClassicRelayFits
  <1> SUFFICES ASSUME Dispatched, result # Nothing, result.ok, from.dialect # "AsterV1", fits(inbound, 511),
                      event.op \in {"Ping", "Pong"} => parse(inbound).value.fields # <<>>,
                      event.op \in {"Text", "Ping", "Pong", "Query", "Response", "Handoff", "ClientData", "Position"}
               PROVE  outcome.frames.ok
    BY Zenon DEF ClassicRelayFits
  <1>1. event # Nothing /\ outcome # Nothing /\ event.op \in Routed \cup {"Position"}
    BY DEF Dispatched, Routed
  <1>2. Decoded /\ Origin(event, result.value)
    BY <1>1, Zenon DEF RelayInv
  <1>3. PICK q, c : q = parse(inbound).value /\ c = result.value
    OBVIOUS
  <1>4. /\ parse(inbound).ok /\ inbound \in Inbound["Classic"] \cup Inbound["Vatsim"]
        /\ result = decode_packet(q) \/ (q.command = "ID" /\ result = decode_identification(q))
    BY <1>2, <1>3, AcceptedPacket, Zenon
  <1>5. Origin(event, c)
    BY <1>2, <1>3, Zenon
  <1>6. result = decode_packet(q)
    <2>1. c.op # "Identify"
      <3> SUFFICES ASSUME c.op = "Identify" PROVE FALSE
        OBVIOUS
      <3>1. event = c
        BY <1>1, <1>5 DEF Origin
      <3> QED BY <1>1, <3>1 DEF Routed
    <2> QED BY <1>3, <1>4, <2>1, IdentificationValid, Zenon
  <1>7. result = Ok(c)
    <2>1. Verdict(result)
      BY <1>2, DecodeVerdict, Zenon DEF Decoded
    <2> QED BY <1>3, <2>1, OkOrErr, Zenon DEF Verdict
  <1>8. classic_encode(event).ok
    <2>1. event.op \in {"Ping", "Pong"} => q.fields # <<>>
      BY <1>3, Zenon
    <2>2. decode_packet(q) = Ok(c)
      BY <1>6, <1>7, Zenon
    <2> QED BY <1>1, <1>3, <1>4, <1>5, <2>1, <2>2, RelayedFits, Zenon
  <1>9. outcome.dialect \in {"Classic", "Vatsim", "AsterV1"} /\ outcome.frames = encode(outcome.dialect, event)
    BY <1>1 DEF RelayInv, ProtocolDialect
  <1>10. CASE outcome.dialect = "Classic"
    BY <1>8, <1>9, <1>10, Zenon DEF encode
  <1>11. CASE outcome.dialect = "Vatsim"
    <2>1. event.op # "ClientAdded"
      BY <1>1 DEF Routed
    <2>2. vatsim_encode(event) = classic_encode(event)
      BY <2>1, Zenon DEF vatsim_encode
    <2>3. outcome.frames = vatsim_encode(event)
      BY <1>9, <1>11, Zenon DEF encode
    <2> QED BY <1>8, <2>2, <2>3, Zenon
  <1>12. CASE outcome.dialect = "AsterV1"
    <2>1. outcome.frames = aster_encode(event)
      BY <1>9, <1>12, Zenon DEF encode
    <2> QED BY <2>1, OkOrErr, Zenon DEF aster_encode
  <1> QED BY <1>9, <1>10, <1>11, <1>12

\* For any segments and sizes that the assumptions allow: whatever a classic or VATSIM
\* client may send in a frame of the classic length is never too long, and never split by a
\* delimiter, once it is relayed.  Names are written in upper case, numbers as they are printed
\* and the server's own name in place of the client's, and none of it makes the frame
\* longer than the one that came, or than 511 bytes.
THEOREM ClassicRelaysFit == Spec => []ClassicRelayFits
  BY InvFits, RelayInvariant, PTL
=============================================================================
