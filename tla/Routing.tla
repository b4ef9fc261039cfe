------------------------------- MODULE Routing -------------------------------
(***************************************************************************)
(* Recipient selection of the network core:                                *)
(* aster_fsd_core/src/network/routing.rs.  Every operator takes the        *)
(* session table it reads, because the code computes recipients after the  *)
(* command has changed the table.                                          *)
(*                                                                         *)
(* Coordinates are abstract Places; Distance[p, q] is the great-circle     *)
(* distance in nautical miles rounded UP.  Every range the code compares   *)
(* with is a whole number, so  d <= range  and  Ceil(d) <= range  agree.   *)
(***************************************************************************)
EXTENDS Integers

CONSTANTS ConnectionIds, Callsigns, None, Places, Distance

\* The haversine formula is symmetric in its two points.
ASSUME DistanceAssumption ==
  /\ Distance \in [Places \X Places -> Nat]
  /\ \A p, q \in Places : Distance[p, q] = Distance[q, p]

PilotSide == {"Pilot", "Observer"}

DestinationKind == {"Server", "Direct", "All", "Atc", "Pilots", "Range"}

Destination == [kind : DestinationKind, callsign : Callsigns \cup {None}]

client_type(session) ==
  IF session.presence = None THEN None ELSE session.presence.client_type

IsActive(sessions, c) == sessions[c].phase = "Active"

\* Mutant of active_ids: every connection in the table.
connected_ids(sessions) == {c \in ConnectionIds : sessions[c].phase # "Closed"}

active_ids(sessions) == {c \in ConnectionIds : IsActive(sessions, c)}

(***************************************************************************)
(* Ranges.                                                                 *)
(***************************************************************************)
CeilDiv(a, b) == (a + b - 1) \div b

\* trunc(1.414 * sqrt(h)) for a whole h >= 0:  1.414^2 h = 2h - 151h/250000.
Horizon(h) ==
  LET bound == 2 * h - CeilDiv(151 * h, 250000)
  IN  CHOOSE n \in 0..h : n * n <= bound /\ bound < (n + 1) * (n + 1)

NonNegative(n) == IF n < 0 THEN 0 ELSE n

Larger(m, n) == IF m < n THEN n ELSE m

FacilityRange(facility) ==
  CASE facility \in {1, 7} -> 1500
    [] facility \in {2, 3} -> 5
    [] facility = 4 -> 30
    [] facility = 5 -> 100
    [] facility = 6 -> 400
    [] OTHER -> 40

session_range(session) ==
  IF session.position = None THEN 40
  ELSE IF client_type(session) \in PilotSide
       THEN 10 + Horizon(NonNegative(session.position.altitude))
  ELSE IF session.position.kind = "Atc"
       THEN FacilityRange(session.position.facility_type)
  ELSE 40

\* distance_between: defined only when both sessions have a position.
InReach(sessions, a, b, range) ==
  /\ sessions[a].position # None
  /\ sessions[b].position # None
  /\ Distance[sessions[a].position.place, sessions[b].position.place] <= range

within_position_range(sessions, source, target) ==
  LET source_range == session_range(sessions[source])
      target_range == session_range(sessions[target])
  IN  InReach(sessions, source, target,
        IF client_type(sessions[target]) = "Atc"
        THEN IF sessions[target].position # None /\ sessions[target].position.kind = "Atc"
             THEN NonNegative(sessions[target].position.visual_range)
             ELSE target_range
        ELSE IF client_type(sessions[source]) \in PilotSide
             THEN source_range + target_range
             ELSE Larger(source_range, target_range))

\* Mutant of within_message_range: only the range of the source counts.
one_way_range(sessions, source, target) ==
  InReach(sessions, source, target, session_range(sessions[source]))

within_message_range(sessions, source, target) ==
  LET source_range == session_range(sessions[source])
      target_range == session_range(sessions[target])
  IN  InReach(sessions, source, target,
        IF {client_type(sessions[source]), client_type(sessions[target])} \subseteq PilotSide
        THEN source_range + target_range
        ELSE Larger(source_range, target_range))

within_source_range(sessions, source, target) ==
  InReach(sessions, source, target, session_range(sessions[source]))

(***************************************************************************)
(* Recipients.                                                             *)
(***************************************************************************)
Others(sessions, sender) == active_ids(sessions) \ {sender}

\* Mutant of resolve_destination: a callsign that is offline is not filtered out.
resolve_unfiltered(sessions, callsigns, sender, destination, policy) ==
  IF destination.kind = "Direct" THEN {callsigns[destination.callsign]}
  ELSE Others(sessions, sender)

resolve_destination(sessions, callsigns, sender, destination, policy) ==
  CASE destination.kind = "Server" -> {}
    [] destination.kind = "Direct" -> {callsigns[destination.callsign]} \ {sender, None}
    [] destination.kind = "All" -> Others(sessions, sender)
    [] destination.kind = "Atc" ->
         {c \in Others(sessions, sender) : client_type(sessions[c]) = "Atc"}
    [] destination.kind = "Pilots" ->
         {c \in Others(sessions, sender) : client_type(sessions[c]) \in PilotSide}
    [] destination.kind = "Range" ->
         {c \in Others(sessions, sender) :
            IF policy = "Message" THEN within_message_range(sessions, sender, c)
                                  ELSE within_source_range(sessions, sender, c)}

position_recipients(sessions, source) ==
  {c \in Others(sessions, source) : within_position_range(sessions, source, c)}

flight_plan_recipients(sessions, source, range) ==
  {c \in Others(sessions, source) :
     client_type(sessions[c]) = "Atc" /\ InReach(sessions, source, c, range)}
=============================================================================
