----------------------------- MODULE RosterView -----------------------------
(***************************************************************************)
(* What the clients are told about each other.  The server is observed     *)
(* through one history variable: told[c][cs] is the last roster event      *)
(* about the callsign cs that entered the mailbox of c.  The writer keeps  *)
(* the order of the mailbox, so this is the order in which c reads.        *)
(***************************************************************************)
EXTENDS Server

VARIABLE told

rosterVars == <<serverVars, told>>

Roster == {"ClientAdded", "ClientRemoved"}

\* The frames tell roster events apart, and nothing else.
RosterFrames(event) == IF event.kind \in Roster THEN event ELSE Ev("Noop", None)

RosterInit == ServerInit /\ told = [c \in ConnectionIds |-> [cs \in Callsigns |-> None]]

\* The frames that this step appends to the mailbox of c, if any.
Posted(c) ==
  IF Len(mailbox'[c]) > Len(mailbox[c]) THEN mailbox'[c][Len(mailbox'[c])] ELSE Close

RosterNext ==
  /\ ServerNext
  /\ told' = [c \in ConnectionIds |-> [cs \in Callsigns |->
       IF \E kind \in Roster : Posted(c) = Ev(kind, cs)
       THEN Posted(c).kind ELSE told[c][cs]]]

RosterSpec == RosterInit /\ [][RosterNext]_rosterVars

\* Some dispatch still holds a roster event about cs for c.
Awaits(c, cs) ==
  \E d \in Dispatchers :
    /\ pending[d] # None
    /\ \/ pending[d].held = c /\ pending[d].frames \in {Ev(kind, cs) : kind \in Roster}
       \/ \E i \in DOMAIN pending[d].deliveries :
            /\ c \in pending[d].deliveries[i].recipients
            /\ pending[d].deliveries[i].frames \in {Ev(kind, cs) : kind \in Roster}

\* Each connection is served in order: an active client in good standing, to which
\* nothing about a callsign is still on its way, does not see the callsign online
\* (its last word was ClientAdded) after the core has released it.
RosterInOrder ==
  \A c \in handles \cap active_ids(sessions), cs \in Callsigns :
    ~ cancelled[c] /\ ~ Awaits(c, cs) /\ told[c][cs] = "ClientAdded" => InUse(cs)
=============================================================================
