----------------------------- MODULE MCNetwork -----------------------------
(***************************************************************************)
(* Small instances of Network.                                             *)
(***************************************************************************)
EXTENDS Network, TLC

CONSTANTS X, Y, Z, alice, bob

\* alice is a supervisor with no pilot licence; bob holds an airline licence and
\* only an observer certificate as a controller.
MCUsers ==
  (alice :> [atc_rating |-> "Supervisor", pilot_rating |-> "Unrated", suspended |-> FALSE])
    @@ (bob :> [atc_rating |-> "Observer", pilot_rating |-> "AirlineTransportPilotLicense",
                suspended |-> FALSE])

Id(cs, client, nid) == [callsign |-> cs, client_id |-> client, network_id |-> nid]

Login(cs, kind, nid, rating, revision) ==
  [callsign |-> cs, client_type |-> kind, network_id |-> nid,
   requested_rating |-> rating, protocol_revision |-> revision]

\* "here" and "there" are 60 nautical miles apart: beyond the horizon of a low aircraft,
\* within the range of an approach controller.
MCDistance == [p, q \in Places |-> IF p = q THEN 0 ELSE 60]

\* Two accounts race for the callsign X on the Classic listener, VATSIM connections of
\* bob for Y; alice has no pilot rating.
CoreIdentifications == {Id(X, "known", alice), Id(Y, "known", bob), Id(X, "rogue", None)}

CoreLogins ==
  {Login(X, "Atc", alice, 11, 9), Login(X, "Pilot", bob, 3, 9),
   Login(Y, "Pilot", bob, 3, 100), Login(Y, "Pilot", alice, 1, 9)}

\* A supervisor and an airline pilot (wire rating 15).
KillLogins == {Login(X, "Atc", alice, 11, 9), Login(Y, "Pilot", bob, 15, 9)}

Pos(kind, cs, place, altitude, facility, visual, ok) ==
  [kind |-> kind, callsign |-> cs, place |-> place, altitude |-> altitude,
   facility_type |-> facility, visual_range |-> visual, well_formed |-> ok]

\* One valid position for each callsign (of the wrong kind when a pilot bears X), a negative
\* visual range and a malformed one.
CorePositions ==
  {Pos("Atc", X, "here", 0, 5, 50, TRUE), Pos("Atc", X, "there", 0, 4, -1, TRUE),
   Pos("Pilot", Y, "there", -20, 0, 0, TRUE), Pos("Pilot", Y, "there", 0, 0, 0, FALSE)}

\* A pilot and an observer, both of whom report where they are.
ObserverLogins == {Login(Y, "Pilot", bob, 3, 9), Login(Z, "Observer", bob, 1, 9)}

ObserverPositions == {Pos("Pilot", cs, "here", 2500, 0, 0, TRUE) : cs \in {Y, Z}}

CorePlans == {[callsign |-> Y]}

To(kind) == [kind |-> kind, callsign |-> None]

Direct(cs) == [kind |-> "Direct", callsign |-> cs]

Msg(type, source, destination) ==
  [type |-> type, source |-> source, destination |-> destination]

CoreMessages ==
  {Msg("Text", Y, To("Range")), Msg("Query", Y, To("Range")), Msg("Text", X, To("All")),
   Msg("Text", Y, To("Atc")), Msg("Text", X, To("Pilots")), Msg("Ping", X, To("Server")),
   Msg("Handoff", X, Direct(Y))}

Symmetry == Permutations(ConnectionIds) \cup Permutations(Tasks)
=============================================================================
