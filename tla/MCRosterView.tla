---------------------------- MODULE MCRosterView ----------------------------
(***************************************************************************)
(* Two clients, one of them a supervisor, and mailboxes with room enough.  *)
(***************************************************************************)
EXTENDS RosterView, TLC

CONSTANTS X, Y, alice

MCUsers ==
  alice :> [atc_rating |-> "Supervisor", pilot_rating |-> "FlightExaminer", suspended |-> FALSE]

MCDistance == [p, q \in Places |-> 0]

Login(cs, rating) ==
  [callsign |-> cs, client_type |-> "Atc", network_id |-> alice,
   requested_rating |-> rating, protocol_revision |-> 9]

MCLogins == {Login(X, 11), Login(Y, 5)}
=============================================================================
