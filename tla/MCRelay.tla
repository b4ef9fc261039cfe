------------------------------- MODULE MCRelay -------------------------------
(***************************************************************************)
(* Frames for module Relay: one well-formed frame of every command, and    *)
(* what becomes of it when a field is changed, dropped or added.           *)
(***************************************************************************)
EXTENDS Relay

\* Segments that stand for a text of the given length.
Filler == [text494 |-> 494, text480 |-> 480, text800 |-> 800] @@ ("@long" :> 503)

BrokenText == {"two lines"}

\* Uppercase of the segments that are not in it.
Raised ==
  [baw1 |-> "BAW1", server |-> "SERVER", metar |-> "METAR", rn |-> "RN", unknown |-> "UNKNOWN"]
    @@ ("*a" :> "*A")

Names == {"BAW1", "baw1", "EGLL_TWR", "SERVER", "server", "unknown", "UNKNOWN", "CLIENT",
          "METAR", "metar", "RN", "rn", "FP", "CAPS", "ATIS", "INF", "ACC", "ATC", "IP", "1001",
          "2002", "Jane", "secret", "22800", "B738"}
Wild == {"*", "*A", "*a", "*P", "@94835", "@long"}
Numerals == {"0", "1", "2", "3", "5", "9", "007", "7", "+40", "40", "-1", "100", "0022", "22",
             "51.5", "51.50000", "51.123456", "51.12346", "90", "90.00000", "90.000001",
             "179.5", "179.50000", "NaN"}
ClientText == {"", "x", "hello", "VFR", "V", "69d7", "-123456789"}

MCSegment ==
  Names \cup Wild \cup Numerals \cup ServerText \cup Reports \cup Notices \cup ClientText \cup BrokenText
    \cup DOMAIN Filler

MCSize == [s \in MCSegment |-> IF s \in DOMAIN Filler THEN Filler[s] ELSE Len(s)]
MCUpper == [s \in MCSegment |-> IF s \in DOMAIN Raised THEN Raised[s] ELSE s]
MCRanges == {"@94835", "@long"}

Identity(set) == [s \in set |-> s]
Canon(set, changes) == changes @@ Identity(set)

MCInt32 == Canon({"0", "1", "2", "3", "5", "9", "7", "40", "-1", "100", "22", "22800", "1001"},
                 ("007" :> "7") @@ ("+40" :> "40") @@ ("0022" :> "22"))
MCUnsigned == Canon({"0", "1", "2", "3", "5", "9", "7", "40", "100", "22", "22800", "1001"},
                    ("007" :> "7") @@ ("+40" :> "40") @@ ("0022" :> "22"))
MCDecimal == Canon({"51.5", "51.123456", "51.12346", "90", "90.000001", "179.5", "NaN"},
                   ("51.50000" :> "51.5") @@ ("90.00000" :> "90") @@ ("179.50000" :> "179.5"))
MCRounded == Canon({"51.50000", "51.12346", "90.00000", "179.50000", "NaN"},
                   ("51.5" :> "51.50000") @@ ("51.123456" :> "51.12346") @@ ("90" :> "90.00000")
                     @@ ("90.000001" :> "90.00000") @@ ("179.5" :> "179.50000"))
MCLatitudes == {"51.5", "51.123456", "51.12346", "90"}
MCLongitudes == MCLatitudes \cup {"90.000001", "179.5"}
MCSquawk == Canon({"0", "22", "7"}, ("0022" :> "22") @@ ("007" :> "7"))
MCFirstChar == Canon({"V", "x", "5"}, "VFR" :> "V")
MCAccounts == {[id |-> "1001", name |-> "Jane"]}
MCProfile == [i \in 1 .. 49 |-> <<"0">>]
MCLimit == [Classic |-> 511, Vatsim |-> 4096]
-----------------------------------------------------------------------------
(***************************************************************************)
(* Classic and VATSIM frames.                                              *)
(***************************************************************************)
Pilot == <<"0022", "1", "51.50000", "51.5", "+40", "0", "40", "0">>
Plan == <<"VFR", "B738", "100", "EGLL_TWR", "0", "0", "40", "EGLL_TWR",
          "1", "2", "3", "007", "x", "hello", "x">>

\* Frames whose every field is varied.
Varied ==
  {Frame("#", "AA", "BAW1", <<"SERVER", "Jane", "1001", "secret", "5", "9">>),
   Frame("#", "AP", "BAW1", <<"SERVER", "1001", "secret", "1", "9", "2", "Jane">>),
   Frame("@", "N", "", <<"BAW1">> \o Pilot),
   Frame("@", "Y", "BAW1", Pilot),
   Frame("%", "", "BAW1", <<"22800", "5", "40", "5", "51.5", "51.5", "0">>),
   Frame("$", "CQ", "BAW1", <<"EGLL_TWR", "rn", "x">>),
   Frame("$", "CQ", "BAW1", <<"SERVER", "FP", "BAW1">>),
   Frame("$", "CR", "BAW1", <<"EGLL_TWR", "ATIS", "x">>),
   Frame("#", "TM", "BAW1", <<"EGLL_TWR", "hello", "x">>),
   Frame("$", "PI", "BAW1", <<"SERVER", "x">>),
   Frame("$", "PO", "BAW1", <<"EGLL_TWR", "x">>),
   Frame("$", "!!", "BAW1", <<"EGLL_TWR", "x">>),
   Frame("$", "AX", "BAW1", <<"SERVER", "metar", "EGLL_TWR">>),
   Frame("#", "WX", "BAW1", <<"SERVER", "EGLL_TWR">>),
   Frame("$", "HO", "BAW1", <<"EGLL_TWR", "x">>),
   Frame("$", "HA", "BAW1", <<"EGLL_TWR", "x">>),
   Frame("#", "SB", "BAW1", <<"EGLL_TWR", "x">>),
   Frame("#", "PC", "BAW1", <<"EGLL_TWR", "x">>),
   Frame("$", "C?", "BAW1", <<"EGLL_TWR">>),
   Frame("$", "CI", "BAW1", <<"EGLL_TWR", "x">>)}

Substitutes == {"", "x", "*", "*a", "@94835", "server", "baw1", "EGLL_TWR", "007", "-1", "51.123456", "90.000001"}

Variants(frame) ==
  {frame, [frame EXCEPT !.rest = Append(@, "x")], [frame EXCEPT !.rest = Front(@)]}
    \cup {[frame EXCEPT !.rest = ReplaceAt(@, i, s)] : i \in 1 .. Len(frame.rest), s \in Substitutes}
    \cup {[frame EXCEPT !.head = s] : s \in {"", "baw1", "x", "EGLL_TWR"}}

FlightPlanFrame(rest) == Frame("$", "FP", "BAW1", rest)

\* Frames that are not varied: boundaries, and what no decoder takes.
Fixed ==
  {FlightPlanFrame(<<"SERVER">> \o Plan), FlightPlanFrame(<<"x">> \o ReplaceAt(Plan, 14, "")),
   FlightPlanFrame(<<"SERVER">> \o ReplaceAt(Plan, 1, "")), FlightPlanFrame(<<"SERVER">> \o Front(Plan)),
   FlightPlanFrame(<<"SERVER">> \o ReplaceAt(Plan, 12, "x")),
   Frame("#", "TM", "BAW1", <<"EGLL_TWR", "text494">>),
   Frame("#", "TM", "BAW1", <<"*A", "text494">>),
   Frame("$", "PI", "BAW1", <<"@long">>),
   Frame("$", "PI", "BAW1", <<"*P", "hello">>),
   Frame("$", "AX", "BAW1", <<"SERVER", "METAR", "text480">>),
   Frame("@", "N", "", <<"BAW1">> \o ReplaceAt(Pilot, 3, "NaN")),
   Frame("@", "S", "", <<"BAW1">> \o ReplaceAt(Pilot, 3, "179.50000")),
   Frame("@", "S", "", <<"BAW1">> \o ReplaceAt(Pilot, 4, "179.50000")),
   Frame("!", "TM", "BAW1", <<"EGLL_TWR", "x">>), Frame("&", "CQ", "BAW1", <<"EGLL_TWR", "RN">>),
   Frame("-", "AA", "BAW1", <<"SERVER", "Jane", "1001", "secret", "5", "9">>),
   Frame("!", "?", "", <<"x">>),
   Frame("%", "", "BAW1", <<"22800", "5", "-1", "5", "51.5", "51.5", "0">>),
   Frame("#", "DA", "BAW1", <<"SERVER">>), Frame("#", "DP", "baw1", <<"SERVER">>),
   Frame("$", "DI", "SERVER", <<"CLIENT", "x">>), Frame("@", "?", "", <<"x">>),
   Frame("$", "?", "", <<"x">>), Frame("?", "", "", <<>>)}

ClassicInbound == Fixed \cup UNION {Variants(frame) : frame \in Varied}

\* What only a VATSIM listener takes: $ID, and frames beyond the classic limit.
VatsimInbound ==
  ClassicInbound
    \cup Variants(Frame("$", "ID", "BAW1", <<"SERVER", "69d7", "x", "3", "2", "1001", "-123456789">>))
    \cup Variants(Frame("#", "AP", "BAW1", <<"SERVER", "1001", "secret", "1", "100", "2", "Jane">>))
    \cup {Frame("#", "AA", "BAW1", <<"SERVER", "Jane", "1001", "secret", "5", "100">>),
          Frame("#", "TM", "BAW1", <<"EGLL_TWR", "text800">>)}
-----------------------------------------------------------------------------
(***************************************************************************)
(* Aster frames.  A login carries no revision of its own.                  *)
(***************************************************************************)
Json(message) == [json |-> TRUE, v |-> 1, message |-> message]

Say(op, kind, to, args) == Msg(op, kind, "BAW1", to, args)

All == To("All", <<"*">>)
Login(kind) == Say("Login", kind, Nowhere, << <<"1001">>, <<"secret">>, <<"1">>, <<"1">>, <<"Jane">>, <<"0">> >>)

AsterMessages ==
  {Login("Atc"), Login("Pilot"), Login("Observer"),
   Say("Identify", "Text", Nowhere, << <<"69d7">>, <<"x">>, <<"1001">> >>),
   Say("Logoff", "Text", Nowhere, <<>>),
   Say("Position", "Pilot", Nowhere, << <<"N">>, <<"22">>, <<"1">>, <<"51.5">>, <<"90.000001">>,
                                       <<"40">>, <<"0">>, <<"40">>, <<"0">> >>),
   Say("Position", "Atc", Nowhere, << <<"">>, <<"22800">>, <<"5">>, <<"-1">>, <<"5">>,
                                     <<"90.000001">>, <<"51.5">>, <<"0">> >>),
   Say("Text", "Text", Direct("EGLL_TWR"), << <<"hello">> >>),
   Say("Text", "Text", Direct("EGLL_TWR"), << <<"two lines">> >>),
   Say("Text", "Text", Direct("x"), << <<"hello">> >>),
   Say("Text", "Text", Server, << <<"hello">> >>),
   Say("FlightPlan", "Plan", Nowhere, [i \in 1 .. 15 |-> <<IF i = 1 THEN "V" ELSE "1">>]),
   Say("Query", "RealName", All, <<>>),
   Say("Query", "FlightPlan", Server, << <<"BAW1", "x">> >>),
   Say("Response", "Raw", Direct("baw1"), << <<"x">>, <<"x">> >>),
   Say("Response", "Atis", All, << <<"x">> >>),
   Say("Handoff", "Request", Direct("EGLL_TWR"), <<>>),
   Say("Ping", "Text", To("Range", <<"@94835">>), << <<"x">> >>),
   Say("Handoff", "Request", Direct("EGLL_TWR"), << <<"x">> >>),
   Say("ClientData", "CommunicationReply", Direct("EGLL_TWR"), << <<"x">> >>),
   Say("WeatherRequest", "Raw", Nowhere, << <<"metar">> >>),
   Say("Kill", "Text", Direct("EGLL_TWR"), << <<"x">> >>),
   Say("Kill", "Text", Direct("x"), << <<"x">> >>)}

AsterFrames ==
  {Json(m) : m \in AsterMessages}
    \cup {[Json(m) EXCEPT !.v = 2] : m \in AsterMessages}
    \cup {[Json(m) EXCEPT !.message.source = s] : m \in AsterMessages, s \in {"x", "baw1", "EGLL_TWR"}}
    \cup {[Json(Login("Atc")) EXCEPT !.json = FALSE], Json(Say("Pong", "Text", Server, << <<"x">> >>))}
-----------------------------------------------------------------------------
MCInbound == [Classic |-> ClassicInbound, Vatsim |-> VatsimInbound, AsterV1 |-> AsterFrames]
=============================================================================
