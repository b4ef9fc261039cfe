------------------------------ MODULE MCServer ------------------------------
(***************************************************************************)
(* Small instances of Server.                                              *)
(***************************************************************************)
EXTENDS Server, TLC

CONSTANTS X, Y, alice

MCUsers ==
  alice :> [atc_rating |-> "Supervisor", pilot_rating |-> "FlightExaminer", suspended |-> FALSE]

MCDistance == [p, q \in Places |-> 0]

MCLogins ==
  {[callsign |-> cs, client_type |-> "Atc", network_id |-> alice,
    requested_rating |-> 11, protocol_revision |-> 9] : cs \in Callsigns}

\* The transport runs do not look into frames.
AnyFrames(event) == Ev("Noop", None)

SomeFrames == {AnyFrames(event) : event \in Event}

\* A removal is told apart, so that it alone can fail to encode.
RemovalApart(event) == IF event.kind = "ClientRemoved" THEN Ev("ClientRemoved", None)
                       ELSE AnyFrames(event)

RemovalFrames == {Ev("ClientRemoved", None)}

\* One error that never closes, one that closes before login, one that always closes.
MCDecodeErrors ==
  {[kind |-> "Version", code |-> "InvalidProtocolRevision"],
   [kind |-> "Syntax", code |-> "Syntax"],
   [kind |-> "InvalidField", code |-> "InvalidCallsign"]}

\* Every connection may log in under every callsign.
Symmetry == Permutations(ConnectionIds) \cup Permutations(Callsigns)
=============================================================================
