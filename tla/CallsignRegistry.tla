--------------------------- MODULE CallsignRegistry ---------------------------
(***************************************************************************)
(* What the network core promises about connections and callsigns,         *)
(* whatever commands, awaits and failures lie behind a step.  A connection *)
(* moves forward through its phases and never comes back; a callsign is    *)
(* claimed only while it is free and given back only by the step that      *)
(* closes its owner.  Network implements this specification.               *)
(***************************************************************************)
CONSTANTS ConnectionIds, Callsigns, None

VARIABLES phase,  \* phase of each connection id
          owner   \* connection that owns each callsign, or None

Init ==
  /\ phase = [c \in ConnectionIds |-> "Unused"]
  /\ owner = [cs \in Callsigns |-> None]

\* A connection is admitted, or refused at capacity.
Open(c) ==
  /\ phase[c] = "Unused"
  /\ \E p \in {"Connected", "Closed"} : phase' = [phase EXCEPT ![c] = p]
  /\ UNCHANGED owner

Identify(c) ==
  /\ phase[c] = "Connected"
  /\ phase' = [phase EXCEPT ![c] = "Identified"]
  /\ UNCHANGED owner

Claim(c, cs) ==
  /\ phase[c] \in {"Connected", "Identified"}
  /\ owner[cs] = None
  /\ phase' = [phase EXCEPT ![c] = "Active"]
  /\ owner' = [owner EXCEPT ![cs] = c]

Close(c) ==
  /\ phase[c] \in {"Connected", "Identified", "Active"}
  /\ phase' = [phase EXCEPT ![c] = "Closed"]
  /\ owner' = [cs \in Callsigns |-> IF owner[cs] = c THEN None ELSE owner[cs]]

Next ==
  \E c \in ConnectionIds :
    \/ Open(c)
    \/ Identify(c)
    \/ \E cs \in Callsigns : Claim(c, cs)
    \/ Close(c)

Spec == Init /\ [][Next]_<<phase, owner>>
=============================================================================
