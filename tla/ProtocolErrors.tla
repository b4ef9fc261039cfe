--------------------------- MODULE ProtocolErrors ---------------------------
(***************************************************************************)
(* The errors of aster_fsd_protocol and what process_frame makes of them.  *)
(***************************************************************************)

ProtocolErrorKind ==
  {"Framing", "Syntax", "Unsupported", "InvalidField", "Encoding", "Version"}

\* Mutant of closes_connection: the phase of the session is not looked at.
closes_in_any_phase(phase, error) ==
  \/ error.kind \in {"Framing", "Version"}
  \/ error.code \in {"InvalidCallsign", "InvalidProtocolRevision"}

\* Whether process_frame gives the connection up after an error of decode.
closes_connection(phase, error) ==
  \/ error.kind \in {"Framing", "Version"}
  \/ /\ phase # "Active"
     /\ error.code \in {"InvalidCallsign", "InvalidProtocolRevision"}
=============================================================================
