------------------------------ MODULE Identity ------------------------------
(***************************************************************************)
(* The rating scales of aster_fsd_model/src/identity.rs.  An account holds *)
(* two independent ratings.  The controller scale is contiguous, the pilot *)
(* scale is cumulative (1, 3, 7, 15, 31, 63), and a login asks for one     *)
(* wire value on the scale that its client type selects.                   *)
(***************************************************************************)
EXTENDS Integers

ClientType == {"Atc", "Pilot", "Observer"}

\* AtcRating::wire_value
AtcWire ==
  [Suspended   |-> 0, Observer    |-> 1, Student1    |-> 2,  Student2   |-> 3,
   Student3    |-> 4, Controller1 |-> 5, Controller2 |-> 6,  Controller3 |-> 7,
   Instructor1 |-> 8, Instructor2 |-> 9, Instructor3 |-> 10, Supervisor |-> 11,
   Administrator |-> 12]

AtcRating == DOMAIN AtcWire

\* PilotRating::wire_value
PilotWire ==
  [Unrated |-> 0, PrivatePilotLicense |-> 1, InstrumentRating |-> 3,
   CommercialMultiEngineLicense |-> 7, AirlineTransportPilotLicense |-> 15,
   FlightInstructor |-> 31, FlightExaminer |-> 63]

PilotRating == DOMAIN PilotWire

AtcAllows(rating, requested) ==
  /\ rating # "Suspended"
  /\ requested \in 1..12
  /\ requested <= AtcWire[rating]

PilotAllows(rating, requested) ==
  /\ rating # "Unrated"
  /\ requested \in {1, 3, 7, 15, 31, 63}
  /\ requested <= PilotWire[rating]

\* What the authentication port returns for a network id (AuthenticatedIdentity
\* without the real name).
AuthenticatedIdentity ==
  [atc_rating : AtcRating, pilot_rating : PilotRating, suspended : BOOLEAN]

\* Both halves of Network::validate_rating, on the scale of the client type.
identity_is_active(client_type, id) ==
  /\ ~ id.suspended
  /\ IF client_type = "Atc" THEN id.atc_rating # "Suspended"
                            ELSE id.pilot_rating # "Unrated"

rating_is_authorized(client_type, requested, id) ==
  IF client_type = "Atc" THEN AtcAllows(id.atc_rating, requested)
                         ELSE PilotAllows(id.pilot_rating, requested)
=============================================================================
