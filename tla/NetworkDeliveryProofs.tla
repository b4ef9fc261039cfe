----------------------- MODULE NetworkDeliveryProofs -----------------------
(***************************************************************************)
(* Theorems about the capacity of the core, the calls suspended at an      *)
(* await, the ranges and the deliveries of each step, for every set of     *)
(* connections, tasks, callsigns, accounts and commands.                   *)
(***************************************************************************)
EXTENDS NetworkProofs, FiniteSetTheorems, WellFoundedInduction

-----------------------------------------------------------------------------
(***************************************************************************)
(* The range arithmetic of routing.rs, for every altitude, facility, place *)
(* and session table.                                                      *)
(***************************************************************************)
\* The least-number principle, from the well-foundedness of < on Nat.
LEMMA LeastNumber ==
  ASSUME NEW T \in SUBSET Nat, T # {}
  PROVE  \E m \in T : \A n \in T : m <= n
  <1> DEFINE R == OpToRel(<, Nat)
  <1>1. IsWellFoundedOn(R, Nat)
    BY NatLessThanWellFounded, Zenon
  <1>2. \A m, n \in Nat : n < m => <<n, m>> \in R
    BY SMT DEF OpToRel
  <1> HIDE DEF R
  <1>3. PICK m \in T : \A n \in T : ~ (<<n, m>> \in R)
    BY <1>1, WFMin, Zenon
  <1>4. \A n \in T : ~ (n < m)
    BY <1>2, <1>3
  <1>5. \A n \in T : m <= n
    BY <1>4
  <1> QED BY <1>5

\* Every natural number has an integer square root.
LEMMA SquareRoot ==
  ASSUME NEW b \in Nat
  PROVE  \E n \in Nat : n * n <= b /\ b < (n + 1) * (n + 1)
  <1> DEFINE T == {n \in Nat : b < (n + 1) * (n + 1)}
  <1>1. b \in T
    <2>1. (b + 1) * (b + 1) = b * b + 2 * b + 1 /\ b * b >= 0
      OBVIOUS
    <2> QED BY <2>1
  <1> HIDE DEF T
  <1>2. PICK n \in T : \A m \in T : n <= m
    <2>1. T \in SUBSET Nat
      BY DEF T
    <2> QED BY <2>1, <1>1, LeastNumber
  <1>3. n \in Nat /\ b < (n + 1) * (n + 1)
    BY <1>2 DEF T
  <1>4. n * n <= b
    <2>1. CASE n = 0
      BY <2>1
    <2>2. CASE n # 0
      <3>1. n - 1 \in Nat /\ n - 1 \notin T
        BY <2>2, <1>2, <1>3
      <3>2. ~ (b < ((n - 1) + 1) * ((n - 1) + 1))
        BY <3>1 DEF T
      <3>3. (n - 1) + 1 = n
        BY <1>3
      <3>4. n * n \in Nat
        BY <1>3
      <3> QED BY <3>2, <3>3, <3>4
    <2> QED BY <2>1, <2>2
  <1> QED BY <1>3, <1>4

\* Horizon is total: for every whole altitude the truncated root exists and lies
\* within the interval it is looked for in, so no altitude leaves the range of a
\* pilot undefined.
THEOREM HorizonIsTotal ==
  ASSUME NEW h \in Nat
  PROVE  LET bound == 2 * h - CeilDiv(151 * h, 250000)
         IN  /\ Horizon(h) \in 0..h
             /\ Horizon(h) * Horizon(h) <= bound
             /\ bound < (Horizon(h) + 1) * (Horizon(h) + 1)
  <1> DEFINE bound == 2 * h - CeilDiv(151 * h, 250000)
  <1>1. bound \in Nat /\ bound <= 2 * h
    <2> DEFINE a == 151 * h + 249999
               q == a \div 250000
    <2>1. q \in Int /\ 250000 * q <= a /\ a < 250000 * q + 250000
      OBVIOUS
    <2>2. bound = 2 * h - q
      BY DEF CeilDiv
    <2>3. q >= 0 /\ q <= 2 * h
      BY <2>1
    <2> QED BY <2>1, <2>2, <2>3
  <1> HIDE DEF bound
  <1>2. PICK n \in Nat : n * n <= bound /\ bound < (n + 1) * (n + 1)
    BY <1>1, SquareRoot
  <1>3. n \in 0..h
    <2>1. SUFFICES ASSUME n >= h + 1 PROVE FALSE
      OBVIOUS
    <2>2. n * n >= (h + 1) * (h + 1)
      BY <2>1
    <2>3. (h + 1) * (h + 1) = h * h + 2 * h + 1 /\ h * h >= 0
      OBVIOUS
    <2> QED BY <2>2, <2>3, <1>1, <1>2
  <1>4. Horizon(h) = CHOOSE m \in 0..h : m * m <= bound /\ bound < (m + 1) * (m + 1)
    BY DEF Horizon, bound
  <1> DEFINE Root(m) == m * m <= bound /\ bound < (m + 1) * (m + 1)
  <1>5. Root(n)
    BY <1>2
  <1>6. Horizon(h) = CHOOSE m \in 0..h : Root(m)
    BY <1>4
  <1> HIDE DEF Root
  <1>7. Horizon(h) \in 0..h /\ Root(Horizon(h))
    BY <1>3, <1>5, <1>6
  <1> QED BY <1>7 DEF Root, bound

-----------------------------------------------------------------------------
\* A position that distance_between and session_range can read.
Located(session) ==
  session.position # None => session.position.place \in Places /\ session.position.altitude \in Int

\* The range of a session is a natural number: no altitude, however negative,
\* and no facility code makes it negative.
LEMMA SessionRangeType ==
  ASSUME NEW s, Located(s)
  PROVE  session_range(s) \in Nat
  <1>1. \A facility : FacilityRange(facility) \in Nat
    BY DEF FacilityRange
  <1>2. CASE s.position # None
    <2> DEFINE h == NonNegative(s.position.altitude)
    <2>1. h \in Nat
      BY <1>2 DEF Located, NonNegative
    <2> HIDE DEF h
    <2>2. Horizon(h) \in 0..h
      BY <2>1, HorizonIsTotal
    <2>3. 10 + Horizon(h) \in Nat
      BY <2>1, <2>2
    <2> QED BY <1>1, <1>2, <2>3 DEF session_range, h
  <1>3. CASE s.position = None
    BY <1>3 DEF session_range
  <1> QED BY <1>2, <1>3

\* The rule for text on a frequency does not depend on who transmits.
LEMMA MessageRangeSymmetric ==
  ASSUME NEW S, NEW a, NEW b, Located(S[a]), Located(S[b]),
         within_message_range(S, a, b)
  PROVE  within_message_range(S, b, a)
  <1> DEFINE ra == session_range(S[a])
             rb == session_range(S[b])
             pa == S[a].position
             pb == S[b].position
             Reach(x, y) == IF {client_type(S[a]), client_type(S[b])} \subseteq PilotSide
                            THEN x + y ELSE Larger(x, y)
  <1>1. ra \in Nat /\ rb \in Nat
    BY SessionRangeType
  <1>2. /\ pa # None /\ pb # None
        /\ Distance[pa.place, pb.place] <= Reach(ra, rb)
    BY DEF within_message_range, InReach
  <1>3. Distance[pa.place, pb.place] = Distance[pb.place, pa.place]
    BY <1>2, DistanceAssumption DEF Located
  <1>4. {client_type(S[a]), client_type(S[b])} = {client_type(S[b]), client_type(S[a])}
    OBVIOUS
  <1> HIDE DEF ra, rb
  <1>5. Reach(ra, rb) = Reach(rb, ra)
    BY <1>1 DEF Larger
  <1> HIDE DEF Reach
  <1>6. InReach(S, b, a, Reach(rb, ra))
    BY <1>2, <1>3, <1>5 DEF InReach
  <1> QED BY <1>4, <1>6, Zenon DEF within_message_range, Reach, ra, rb

-----------------------------------------------------------------------------
(***************************************************************************)
(* Capacity.                                                               *)
(***************************************************************************)
\* Only register adds a session to the table; it does so below the capacity.
LEMMA LiveChange ==
  ASSUME TypeOK, Change
  PROVE  \/ live' \subseteq live
         \/ /\ ~ (Cardinality(live) >= MaxClients)
            /\ \E c \in ConnectionIds : live' \subseteq live \cup {c}
  <1>1. sessions \in [ConnectionIds -> Session]
    BY DEF TypeOK
  <1>2. ASSUME NEW c \in ConnectionIds, Opened(c)
        PROVE  \/ live' \subseteq live
               \/ /\ ~ (Cardinality(live) >= MaxClients)
                  /\ live' \subseteq live \cup {c}
    BY <1>1, <1>2 DEF Opened, live
  <1>3. ASSUME NEW c \in ConnectionIds, Removed(c)
        PROVE  live' \subseteq live
    BY <1>1, <1>3 DEF Removed, live, NoSession
  <1>4. ASSUME NEW c \in ConnectionIds, NEW command \in Identification, Identified(c, command)
        PROVE  live' \subseteq live
    BY <1>1, <1>4 DEF Identified, live, Session
  <1>5. ASSUME NEW c \in ConnectionIds, NEW command \in LoginCommand, NEW g \in Nat,
               Activated(c, command, g)
        PROVE  live' \subseteq live
    BY <1>5, ActivatedFields DEF live
  <1>6. ASSUME NEW c \in ConnectionIds, NEW position \in Position, Positioned(c, position)
        PROVE  live' \subseteq live
    BY <1>1, <1>6 DEF Positioned, live, Session
  <1>7. ASSUME NEW c \in ConnectionIds, NEW plan \in FlightPlan, Filed(c, plan)
        PROVE  live' \subseteq live
    BY <1>1, <1>7 DEF Filed, live, Session
  <1>8. CASE UNCHANGED <<sessions, callsigns, registered>>
    BY <1>8 DEF live
  <1> QED BY <1>2, <1>3, <1>4, <1>5, <1>6, <1>7, <1>8 DEF Change

\* The session table never exceeds the configured capacity, however the
\* registrations and the disconnections interleave.
THEOREM CapacityHolds == Spec => []WithinCapacity
  <1>1. Init => WithinCapacity
    <2> SUFFICES ASSUME Init PROVE WithinCapacity
      OBVIOUS
    <2>1. live = {}
      BY DEF Init, live, NoSession
    <2> QED BY <2>1, FS_EmptySet, NetworkAssumption DEF WithinCapacity
  <1>2. TypeOK /\ WithinCapacity /\ [Next]_vars => WithinCapacity'
    <2> SUFFICES ASSUME TypeOK, WithinCapacity, [Next]_vars
                 PROVE  WithinCapacity'
      OBVIOUS
    <2>0. live \in SUBSET ConnectionIds
      BY DEF live
    <2>1. IsFiniteSet(live) /\ Cardinality(live) \in Nat /\ MaxClients \in Nat
      BY <2>0, NetworkAssumption, FS_Subset, FS_CardinalityType
    <2>2. CASE live' \subseteq live
      <3>1. Cardinality(live') <= Cardinality(live) /\ Cardinality(live') \in Nat
        BY <2>1, <2>2, FS_Subset, FS_CardinalityType
      <3> QED BY <3>1, <2>1 DEF WithinCapacity
    <2>3. ASSUME NEW c \in ConnectionIds, live' \subseteq live \cup {c},
                 ~ (Cardinality(live) >= MaxClients)
          PROVE  WithinCapacity'
      <3> DEFINE more == live \cup {c}
      <3>1. IsFiniteSet(more) /\ Cardinality(more) <= Cardinality(live) + 1
        <4>1. /\ IsFiniteSet(more)
              /\ Cardinality(more) = IF c \in live THEN Cardinality(live) ELSE Cardinality(live) + 1
          BY <2>1, FS_AddElement, Zenon
        <4> QED BY <4>1, <2>1
      <3>2. Cardinality(more) \in Nat
        BY <3>1, FS_CardinalityType
      <3>3. Cardinality(live') <= Cardinality(more) /\ Cardinality(live') \in Nat
        BY <3>1, <2>3, FS_Subset, FS_CardinalityType
      <3> HIDE DEF more
      <3> QED BY <3>1, <3>2, <3>3, <2>1, <2>3 DEF WithinCapacity
    <2> QED BY <2>2, <2>3, StepIsChange, LiveChange
  <1> QED BY <1>1, <1>2, TypeCorrect, PTL DEF Spec

-----------------------------------------------------------------------------
(***************************************************************************)
(* Calls suspended at an await.                                            *)
(***************************************************************************)
\* What a suspended call can rely on: the session of a registered id is either
\* removed for good or still the same one, at the same or a later generation,
\* and an active session is active until it is removed.
LEMMA SessionsAdvance ==
  ASSUME TypeOK, SessionShape, Change
  PROVE  \A d \in registered :
           /\ d \in registered'
           /\ \/ sessions'[d].phase = "Closed"
              \/ /\ sessions[d].phase # "Closed"
                 /\ sessions[d].generation <= sessions'[d].generation
                 /\ sessions[d].phase = "Active" => sessions'[d].phase = "Active"
  <1> DEFINE Advances(d) ==
               \/ sessions'[d].phase = "Closed"
               \/ /\ sessions[d].phase # "Closed"
                  /\ sessions[d].generation <= sessions'[d].generation
                  /\ sessions[d].phase = "Active" => sessions'[d].phase = "Active"
             Advance == \A d \in registered : d \in registered' /\ Advances(d)
  <1>1. sessions \in [ConnectionIds -> Session] /\ registered \subseteq ConnectionIds
    BY DEF TypeOK
  <1>2. \A d \in ConnectionIds : sessions'[d] = sessions[d] => Advances(d)
    BY <1>1 DEF Session
  <1>3. ASSUME NEW c \in ConnectionIds, Opened(c)
        PROVE  Advance
    <2>1. \A d \in registered : sessions'[d] = sessions[d]
      BY <1>1, <1>3 DEF Opened
    <2>2. registered \subseteq registered'
      BY <1>3 DEF Opened
    <2> HIDE DEF Advances
    <2> QED BY <2>1, <2>2, <1>1, <1>2
  <1>4. ASSUME NEW c \in ConnectionIds, Removed(c)
        PROVE  Advance
    <2>1. \A d \in ConnectionIds : sessions'[d] = sessions[d] \/ sessions'[d].phase = "Closed"
      BY <1>1, <1>4 DEF Removed, NoSession
    <2> QED BY <2>1, <1>1, <1>2, <1>4 DEF Removed
  <1>5. ASSUME NEW c \in ConnectionIds, NEW command \in Identification, Identified(c, command)
        PROVE  Advance
    <2>1. /\ sessions[c].phase = "Connected"
          /\ sessions[c].generation \in Nat
          /\ sessions'[c].generation = sessions[c].generation + 1
      BY <1>1, <1>5 DEF Identified, Session
    <2>2. Advances(c)
      BY <2>1
    <2>3. \A d \in ConnectionIds \ {c} : sessions'[d] = sessions[d]
      BY <1>1, <1>5 DEF Identified
    <2> HIDE DEF Advances
    <2> QED BY <2>2, <2>3, <1>1, <1>2, <1>5 DEF Identified
  <1>6. ASSUME NEW c \in ConnectionIds, NEW command \in LoginCommand, NEW g \in Nat,
               Activated(c, command, g)
        PROVE  Advance
    <2>1. /\ sessions[c].phase \in {"Connected", "Identified"}
          /\ \A d \in ConnectionIds \ {c} : sessions'[d] = sessions[d]
      BY <1>6, ActivatedFields
    <2>2. sessions[c].generation \in Nat /\ sessions'[c].generation = sessions[c].generation + 1
      BY <1>1, <1>6 DEF Activated, Session
    <2>3. Advances(c)
      BY <2>1, <2>2
    <2> HIDE DEF Advances
    <2> QED BY <2>1, <2>3, <1>1, <1>2, <1>6 DEF Activated
  <1>7. ASSUME NEW c \in ConnectionIds,
               \/ \E position \in Position : Positioned(c, position)
               \/ \E plan \in FlightPlan : Filed(c, plan)
        PROVE  Advance
    <2>1. /\ registered' = registered
          /\ sessions[c].phase = "Active" /\ sessions[c].generation \in Nat
          /\ sessions'[c].phase = "Active" /\ sessions'[c].generation = sessions[c].generation
          /\ \A d \in ConnectionIds \ {c} : sessions'[d] = sessions[d]
      BY <1>1, <1>7 DEF Positioned, Filed, Accepted, Session
    <2>2. Advances(c)
      BY <2>1
    <2> HIDE DEF Advances
    <2> QED BY <2>1, <2>2, <1>1, <1>2
  <1>8. CASE UNCHANGED <<sessions, callsigns, registered>>
    BY <1>1, <1>2, <1>8
  <1> QED BY <1>3, <1>4, <1>5, <1>6, <1>7, <1>8 DEF Change

\* A step leaves the suspended call of a task alone, ends it, or suspends a new
\* one that holds what the critical section has just read.
LEMMA CallStep ==
  ASSUME TypeOK, [Next]_vars, NEW t \in Tasks
  PROVE  \/ calls'[t] = calls[t]
         \/ calls'[t] = None
         \/ /\ UNCHANGED <<sessions, registered>>
            /\ \E c \in registered :
                 /\ calls'[t].connection_id = c
                 /\ \/ /\ calls'[t].op # "weather"
                       /\ calls'[t].generation = sessions[c].generation
                    \/ /\ calls'[t].generation = 0
                       /\ sessions[c].phase = "Active"
  <1> DEFINE Goal ==
         \/ calls'[t] = calls[t]
         \/ calls'[t] = None
         \/ /\ UNCHANGED <<sessions, registered>>
            /\ \E c \in registered :
                 /\ calls'[t].connection_id = c
                 /\ \/ /\ calls'[t].op # "weather"
                       /\ calls'[t].generation = sessions[c].generation
                    \/ /\ calls'[t].generation = 0
                       /\ sessions[c].phase = "Active"
  <1>0. calls \in [Tasks -> Call \cup {None}]
    BY DEF TypeOK
  <1>1. ASSUME UNCHANGED calls PROVE Goal
    BY <1>1
  <1>2. ASSUME NEW u \in Tasks, NEW op, Resume(u, op) PROVE Goal
    BY <1>0, <1>2 DEF Resume
  <1>3. ASSUME NEW u \in Tasks, NEW op, NEW c \in registered, NEW command, NEW generation,
               Suspend(u, op, c, command, generation), UNCHANGED <<sessions, registered>>,
               \/ op # "weather" /\ generation = sessions[c].generation
               \/ generation = 0 /\ sessions[c].phase = "Active"
        PROVE  Goal
    <2> DEFINE call == [op |-> op, connection_id |-> c, command |-> command, generation |-> generation]
    <2>1. calls'[t] = calls[t] \/ calls'[t] = call
      BY <1>0, <1>3 DEF Suspend
    <2> QED BY <2>1, <1>3
  <1>4. ASSUME NEW c \in ConnectionIds, Lifecycle(c) \/ Execute(c)
        PROVE  Goal
    <2>1. UNCHANGED calls
      <3>1. CASE Lifecycle(c)
        BY <3>1 DEF Lifecycle, register, disconnect, disconnect_locked
      <3>2. CASE Execute(c)
        BY <3>2, Zenon DEF Execute, execute_rejected, logoff, update_position, file_flight_plan, route,
                    query_flight_plan, kill, disconnect_locked
      <3> QED BY <3>1, <3>2, <1>4
    <2> QED BY <2>1, <1>1
  <1>5. ASSUME NEW u \in Tasks, NEW c \in ConnectionIds, AsyncCall(u, c)
        PROVE  Goal
    <2> HIDE DEF Goal
    <2>1. ASSUME NEW command \in Identifications, identify(u, c, command)
          PROVE  Goal
      BY <2>1, <1>1, <1>3 DEF identify, CanCall
    <2>2. ASSUME NEW command \in Logins, login(u, c, command)
          PROVE  Goal
      BY <2>2, <1>1, <1>3 DEF login, CanCall
    <2>3. ASSUME NEW source \in Callsigns, weather_request(u, c, source)
          PROVE  Goal
      BY <2>3, <1>3 DEF weather_request, CanCall, Accepted
    <2> QED BY <2>1, <2>2, <2>3, <1>5 DEF AsyncCall
  <1> HIDE DEF Goal
  <1>6. ASSUME NEW u \in Tasks, AsyncReturn(u)
        PROVE  Goal
    BY <1>2, <1>6 DEF AsyncReturn, identify_unauthorized, identify_authorized,
                      login_unauthenticated, login_authenticated, weather_answered
  <1>7. CASE broadcast \/ UNCHANGED vars
    BY <1>1, <1>7 DEF broadcast, vars
  <1> USE DEF Goal
  <1> QED BY <1>4, <1>5, <1>6, <1>7 DEF Next

\* A weather request was made by an active session, which is the same one when
\* the answer comes, or gone.
WeatherAsked ==
  \A t \in Tasks :
    calls[t] # None /\ calls[t].op = "weather" =>
      sessions[calls[t].connection_id].phase \in {"Active", "Closed"}

\* No step lets a suspended call outrun its session, or a weather answer find a
\* session that is not active.
LEMMA CallsInvStep ==
  ASSUME TypeOK, SessionShape, CallsNeverOutrun, WeatherAsked, [Next]_vars
  PROVE  CallsNeverOutrun' /\ WeatherAsked'
  <1> SUFFICES ASSUME NEW t \in Tasks, calls'[t] # None
               PROVE  /\ calls'[t].connection_id \in registered'
                      /\ \/ sessions'[calls'[t].connection_id].phase = "Closed"
                         \/ calls'[t].generation <= sessions'[calls'[t].connection_id].generation
                      /\ calls'[t].op = "weather" =>
                           sessions'[calls'[t].connection_id].phase \in {"Active", "Closed"}
    BY DEF CallsNeverOutrun, WeatherAsked
  <1>1. Change
    BY StepIsChange
  <1>2. /\ sessions \in [ConnectionIds -> Session] /\ registered \subseteq ConnectionIds
        /\ calls \in [Tasks -> Call \cup {None}]
        /\ sessions' \in [ConnectionIds -> Session]
    BY TypeStep DEF TypeOK
  <1>3. CASE calls'[t] = calls[t]
    <2> DEFINE c == calls[t].connection_id
               g == calls[t].generation
    <2>1. calls[t] # None /\ calls[t] \in Call
      BY <1>2, <1>3
    <2>2. g \in Nat
      BY <2>1 DEF Call
    <2>3. /\ c \in registered
          /\ sessions[c].phase = "Closed" \/ g <= sessions[c].generation
          /\ calls[t].op = "weather" => sessions[c].phase \in {"Active", "Closed"}
      BY <2>1 DEF CallsNeverOutrun, WeatherAsked
    <2>4. sessions[c].generation \in Nat /\ sessions'[c].generation \in Nat
      BY <2>3, <1>2 DEF Session
    <2>5. /\ c \in registered'
          /\ \/ sessions'[c].phase = "Closed"
             \/ /\ sessions[c].phase # "Closed"
                /\ sessions[c].generation <= sessions'[c].generation
                /\ sessions[c].phase = "Active" => sessions'[c].phase = "Active"
      BY <2>3, <1>1, SessionsAdvance
    <2> HIDE DEF c, g
    <2>6. /\ c \in registered'
          /\ sessions'[c].phase = "Closed" \/ g <= sessions'[c].generation
          /\ calls[t].op = "weather" => sessions'[c].phase \in {"Active", "Closed"}
      BY <2>2, <2>3, <2>4, <2>5
    <2> QED BY <2>6, <1>3 DEF c, g
  <1>4. ASSUME UNCHANGED <<sessions, registered>>, NEW c \in registered,
               calls'[t].connection_id = c,
               \/ calls'[t].op # "weather" /\ calls'[t].generation = sessions[c].generation
               \/ calls'[t].generation = 0 /\ sessions[c].phase = "Active"
        PROVE  /\ calls'[t].connection_id \in registered'
               /\ \/ sessions'[calls'[t].connection_id].phase = "Closed"
                  \/ calls'[t].generation <= sessions'[calls'[t].connection_id].generation
               /\ calls'[t].op = "weather" =>
                    sessions'[calls'[t].connection_id].phase \in {"Active", "Closed"}
    <2>1. sessions[c].generation \in Nat
      BY <1>2 DEF Session
    <2> QED BY <2>1, <1>4
  <1> QED BY <1>3, <1>4, CallStep

\* Both hold of every behaviour; the second is needed only for the deliveries.
LEMMA CallsInvHolds == Spec => [](CallsNeverOutrun /\ WeatherAsked)
  <1>1. Init => CallsNeverOutrun /\ WeatherAsked
    BY DEF Init, CallsNeverOutrun, WeatherAsked
  <1>2. TypeOK /\ SessionShape /\ CallsNeverOutrun /\ WeatherAsked /\ [Next]_vars
          => CallsNeverOutrun' /\ WeatherAsked'
    BY CallsInvStep
  <1> QED BY <1>1, <1>2, TypeCorrect, SessionShapeHolds, PTL DEF Spec

\* A suspended call belongs to a registered connection and never holds a token
\* newer than its session.
THEOREM CallsHold == Spec => []CallsNeverOutrun
  BY CallsInvHolds, PTL

-----------------------------------------------------------------------------
(***************************************************************************)
(* Ranges.                                                                 *)
(***************************************************************************)
\* Every stored position can be measured.
LEMMA SessionsLocated ==
  ASSUME TypeOK
  PROVE  \A c \in ConnectionIds : Located(sessions[c])
  BY DEF TypeOK, Session, Position, Located

\* Radio contact is mutual, for every pair of clients and every distance.
THEOREM RadioHolds == Spec => []RadioIsMutual
  <1>1. TypeOK => RadioIsMutual
    BY SessionsLocated, MessageRangeSymmetric DEF RadioIsMutual, active_ids
  <1> QED BY <1>1, TypeCorrect, PTL

-----------------------------------------------------------------------------
(***************************************************************************)
(* Deliveries.  Every step returns at most one delivery, except a login,   *)
(* a disconnection and a kill, which are the steps that announce.          *)
(***************************************************************************)
\* The step returns at most one delivery, which announces nothing and goes to
\* active or vanished clients unless it is an error; no callsign changes hands.
Answered ==
  /\ \E R \in SUBSET ConnectionIds, e \in Event :
       /\ effects'.deliveries = Deliver(R, e)
       /\ e.kind \notin {"ClientAdded", "ClientRemoved", "Disconnect"}
       /\ e.kind = "Error" \/ \A c \in R : sessions'[c].phase \in {"Active", "Closed"}
  /\ UNCHANGED callsigns

Welcomed(c, command) ==
  /\ \E generation \in Nat : Activated(c, command, generation)
  /\ effects' = login_effects(c, sessions[c].dialect, presence_of(command),
                              active_ids(sessions) \ {c})

Killed(c, source, target) ==
  /\ Accepted(c, source)
  /\ InUse(target)
  /\ sessions[c].presence.rating >= 11
  /\ disconnect_locked(callsigns[target],
       Deliver({c}, Ev("Welcome", source))
         \o Deliver({callsigns[target]}, Ev("Disconnect", target)))

Delivered ==
  \/ Answered
  \/ \E c \in ConnectionIds : disconnect_locked(c, <<>>)
  \/ \E c \in ConnectionIds, command \in LoginCommand : Welcomed(c, command)
  \/ \E c \in ConnectionIds, source, target \in Callsigns : Killed(c, source, target)

\* The answers that are errors, or nothing.
LEMMA ErrorAnswers ==
  ASSUME UNCHANGED callsigns, NEW c \in ConnectionIds, NEW code \in ErrorCode,
         effects' \in {Nothing, error_effect(c, code), error_and_close(c, code)}
  PROVE  Answered
  <1> DEFINE e == Ev("Error", code)
  <1>1. e \in Event
    BY EvType DEF EventKind
  <1>2. e.kind = "Error"
    BY DEF Ev
  <1> HIDE DEF e
  <1> DEFINE d == Deliver({c}, e)
  <1>3. error_effect(c, code) = [deliveries |-> d, close |-> None]
    BY DEF error_effect, send, e
  <1>4. Nothing.deliveries = Deliver({}, e)
    BY DEF Nothing, Deliver
  <1> HIDE DEF d
  <1>5. error_and_close(c, code).deliveries = d /\ error_effect(c, code).deliveries = d
    BY <1>3 DEF error_and_close
  <1>6. effects'.deliveries \in {Deliver({}, e), Deliver({c}, e)}
    BY <1>4, <1>5 DEF d
  <1>7. {} \in SUBSET ConnectionIds /\ {c} \in SUBSET ConnectionIds
    OBVIOUS
  <1> QED BY <1>1, <1>2, <1>6, <1>7 DEF Answered

\* A refused identify or login answers with an error, or not at all.
LEMMA RefusalAnswers ==
  ASSUME UNCHANGED callsigns, NEW c \in ConnectionIds, NEW verdict \in ErrorCode \cup {"Gone"},
         effects' = refusal(c, verdict)
  PROVE  Answered
  <1>1. "AlreadyRegistered" \in ErrorCode
    BY DEF ErrorCode
  <1>2. CASE verdict = "Gone"
    BY <1>1, <1>2, ErrorAnswers DEF refusal
  <1>3. CASE verdict # "Gone"
    BY <1>1, <1>3, ErrorAnswers DEF refusal
  <1> QED BY <1>2, <1>3

\* The answers to active clients.
LEMMA SendAnswers ==
  ASSUME UNCHANGED callsigns, NEW R \in SUBSET ConnectionIds, NEW kind \in EventKind,
         NEW about \in Callsigns \cup ErrorCode \cup {None},
         kind \notin {"ClientAdded", "ClientRemoved", "Disconnect"},
         \A c \in R : sessions'[c].phase \in {"Active", "Closed"},
         effects' = send(R, Ev(kind, about))
  PROVE  Answered
  <1> DEFINE e == Ev(kind, about)
  <1>1. e \in Event /\ e.kind = kind
    BY EvType DEF Ev
  <1> HIDE DEF e
  <1>2. effects'.deliveries = Deliver(R, e)
    BY DEF send, e
  <1> QED BY <1>1, <1>2 DEF Answered

\* The critical sections around an await.
LEMMA AsyncDelivers ==
  ASSUME TypeOK, WeatherAsked, NEW t \in Tasks,
         AsyncReturn(t) \/ \E c \in ConnectionIds : AsyncCall(t, c)
  PROVE  Delivered
  <1>0. \A u \in Tasks : calls[u] # None => calls[u] \in Call
    BY DEF TypeOK
  <1>1. ASSUME NEW c \in ConnectionIds, AsyncCall(t, c)
        PROVE  Answered
    <2>0. "Syntax" \in ErrorCode
      BY DEF ErrorCode
    <2>1. ASSUME NEW command \in Identifications, identify(t, c, command)
          PROVE  Answered
      <3> DEFINE verdict == identify_verdict(sessions[c], sessions[c].generation)
      <3>1. verdict # "Ok" => verdict \in ErrorCode \cup {"Gone"}
        BY VerdictType
      <3> HIDE DEF verdict
      <3>2. UNCHANGED callsigns /\ (effects' = Nothing \/ (verdict # "Ok" /\ effects' = refusal(c, verdict)))
        BY <2>1 DEF identify, verdict
      <3> QED BY <3>1, <3>2, <2>0, ErrorAnswers, RefusalAnswers
    <2>2. ASSUME NEW command \in Logins, login(t, c, command)
          PROVE  Answered
      <3> DEFINE verdict == login_verdict(sessions[c], command)
      <3>1. verdict # "Ok" => verdict \in ErrorCode \cup {"Gone"}
        BY VerdictType
      <3> HIDE DEF verdict
      <3>2. UNCHANGED callsigns /\ (effects' = Nothing \/ (verdict # "Ok" /\ effects' = refusal(c, verdict)))
        BY <2>2 DEF login, verdict
      <3> QED BY <3>1, <3>2, <2>0, ErrorAnswers, RefusalAnswers
    <2>3. ASSUME NEW source \in Callsigns, weather_request(t, c, source)
          PROVE  Answered
      BY <2>0, <2>3, ErrorAnswers DEF weather_request
    <2> QED BY <1>1, <2>1, <2>2, <2>3 DEF AsyncCall
  <1> DEFINE c == calls[t].connection_id
             command == calls[t].command
  <1>2. ASSUME NEW op, Resume(t, op)
        PROVE  calls[t] \in Call /\ c \in ConnectionIds /\ calls[t].op = op
    BY <1>2, ResumeType DEF Resume
  <1>3. CASE identify_unauthorized(t)
    BY <1>2, <1>3, ErrorAnswers DEF identify_unauthorized, ErrorCode, Delivered
  <1>4. CASE identify_authorized(t)
    <2> DEFINE verdict == identify_verdict(sessions[c], calls[t].generation)
    <2>1. verdict # "Ok" => verdict \in ErrorCode \cup {"Gone"}
      BY VerdictType
    <2> HIDE DEF verdict
    <2>2. /\ UNCHANGED callsigns
          /\ effects' = Nothing \/ (verdict # "Ok" /\ effects' = refusal(c, verdict))
          /\ c \in ConnectionIds
      BY <1>2, <1>4 DEF identify_authorized, verdict
    <2>3. "Syntax" \in ErrorCode
      BY DEF ErrorCode
    <2> QED BY <2>1, <2>2, <2>3, ErrorAnswers, RefusalAnswers DEF Delivered
  <1>5. CASE login_unauthenticated(t)
    BY <1>2, <1>5, ErrorAnswers DEF login_unauthenticated, ErrorCode, Delivered
  <1>6. CASE login_authenticated(t)
    <2> DEFINE rating == rating_verdict(command, Users[command.network_id])
               verdict == IF rating # "Ok" THEN rating
                          ELSE activate_verdict(sessions[c], command, calls[t].generation)
    <2>1. c \in ConnectionIds /\ command \in LoginCommand /\ calls[t].generation \in Nat
      <3>1. calls[t] \in Call /\ calls[t].op = "login"
        BY <1>2, <1>6 DEF login_authenticated
      <3> QED BY <3>1 DEF Call
    <2>2. CASE verdict = "Ok"
      <3>1. Activated(c, command, calls[t].generation)
        BY <1>6, <2>2 DEF login_authenticated, Activated
      <3>2. effects' = login_effects(c, sessions[c].dialect, presence_of(command),
                                     active_ids(sessions) \ {c})
        BY <1>6, <2>2 DEF login_authenticated
      <3>3. Welcomed(c, command)
        BY <3>1, <3>2, <2>1 DEF Welcomed
      <3> QED BY <3>3, <2>1 DEF Delivered
    <2>3. CASE verdict # "Ok"
      <3>1. verdict \in ErrorCode \cup {"Gone"}
        BY <2>3, VerdictType
      <3> HIDE DEF verdict
      <3>2. effects' = refusal(c, verdict) /\ UNCHANGED callsigns
        BY <1>6, <2>3 DEF login_authenticated, verdict
      <3>3. Answered
        BY <3>1, <3>2, <2>1, RefusalAnswers
      <3> QED BY <3>3 DEF Delivered
    <2> QED BY <2>2, <2>3
  <1>7. CASE weather_answered(t)
    <2>1. /\ c \in ConnectionIds /\ calls[t] # None /\ calls[t].op = "weather"
          /\ UNCHANGED <<sessions, callsigns>>
          /\ effects' \in {send({c}, Ev("WeatherReport", None)), error_effect(c, "NoWeather")}
      BY <1>2, <1>7 DEF weather_answered, Resume
    <2>2. sessions'[c].phase \in {"Active", "Closed"}
      BY <2>1 DEF WeatherAsked
    <2>3. "WeatherReport" \in EventKind /\ "NoWeather" \in ErrorCode
      BY DEF EventKind, ErrorCode
    <2> HIDE DEF c
    <2>4. {c} \in SUBSET ConnectionIds /\ \A d \in {c} : sessions'[d].phase \in {"Active", "Closed"}
      BY <2>1, <2>2
    <2>5. CASE effects' = send({c}, Ev("WeatherReport", None))
      BY <2>1, <2>3, <2>4, <2>5, SendAnswers DEF Delivered
    <2>6. CASE effects' = error_effect(c, "NoWeather")
      BY <2>1, <2>3, <2>6, ErrorAnswers DEF Delivered
    <2> QED BY <2>1, <2>5, <2>6
  <1> QED BY <1>1, <1>3, <1>4, <1>5, <1>6, <1>7 DEF AsyncReturn, Delivered

\* The commands of an active session, registration and disconnection.
LEMMA ExecuteDelivers ==
  ASSUME TypeOK, SessionShape, CallsignIndexExact, NEW c \in ConnectionIds,
         Lifecycle(c) \/ Execute(c)
  PROVE  Delivered
  <1> USE DEF Delivered
  <1>0. /\ {"Syntax", "InvalidSource", "NoSuchCallsign", "NoFlightPlan"} \subseteq ErrorCode
        /\ {"Position", "FlightPlan", "Welcome"} \cup RelayedType \subseteq EventKind
        /\ {c} \in SUBSET ConnectionIds
    BY DEF ErrorCode, EventKind
  <1>1. CASE Lifecycle(c)
    BY <1>0, <1>1, ErrorAnswers DEF Lifecycle, register, disconnect
  <1>2. ASSUME NEW source \in Callsigns, execute_rejected(c, source) \/ logoff(c, source)
        PROVE  Delivered
    BY <1>0, <1>2, ErrorAnswers DEF execute_rejected, logoff
  <1>3. ASSUME NEW position \in Positions, update_position(c, position)
        PROVE  Delivered
    <2>1. position.callsign \in Callsigns
      BY NetworkAssumption DEF Position
    <2> DEFINE R == position_recipients(sessions', c)
    <2>2. R \in SUBSET ConnectionIds /\ \A d \in R : sessions'[d].phase \in {"Active", "Closed"}
      BY DEF position_recipients, Others, active_ids, IsActive
    <2>3. /\ UNCHANGED callsigns
          /\ \/ effects' = send(R, Ev("Position", position.callsign))
             \/ effects' = error_effect(c, "Syntax")
      BY <1>3 DEF update_position
    <2> HIDE DEF R
    <2> QED BY <2>1, <2>2, <2>3, <1>0, SendAnswers, ErrorAnswers
  <1>4. ASSUME NEW plan \in FlightPlans, file_flight_plan(c, plan)
        PROVE  Delivered
    <2>1. plan.callsign \in Callsigns
      BY NetworkAssumption DEF FlightPlan
    <2> DEFINE R == flight_plan_recipients(sessions, c, 400)
    <2>2. R \in SUBSET ConnectionIds /\ \A d \in R : sessions[d].phase = "Active"
      BY DEF flight_plan_recipients, Others, active_ids, IsActive
    <2> HIDE DEF R
    <2>3. \A d \in ConnectionIds : sessions'[d].phase = sessions[d].phase
      BY <1>4 DEF file_flight_plan, TypeOK, Session
    <2>4. UNCHANGED callsigns /\ effects' = send(R, Ev("FlightPlan", plan.callsign))
      BY <1>4 DEF file_flight_plan, R
    <2> QED BY <2>1, <2>2, <2>3, <2>4, <1>0, SendAnswers
  <1>5. ASSUME NEW message \in Messages, route(c, message)
        PROVE  Delivered
    <2> DEFINE policy == IF message.type = "Text" THEN "Message" ELSE "Source"
               d == message.destination
               R == resolve_destination(sessions, callsigns, c, d, policy)
    <2>1. message.type \in RelayedType /\ message.source \in Callsigns
      BY NetworkAssumption DEF Message
    <2>2. R \in SUBSET ConnectionIds
      BY ResolveType DEF TypeOK
    <2>3. ASSUME NEW r \in R PROVE sessions[r].phase = "Active"
      <3>1. /\ d.kind \in DestinationKind
            /\ d.kind = "Direct" => d.callsign \in Callsigns
        BY NetworkAssumption DEF Message, Destination
      <3>2. CASE d.kind = "Direct"
        <4>1. r = callsigns[d.callsign]
          BY <3>2, <2>3 DEF resolve_destination
        <4>2. sessions[r].presence # None
          BY <4>1, <3>1, <3>2, <2>2 DEF CallsignIndexExact
        <4> QED BY <4>2, <2>2 DEF SessionShape
      <3>3. CASE d.kind # "Direct"
        <4>1. r \in Others(sessions, c)
          BY <3>1, <3>3, <2>3 DEF resolve_destination, DestinationKind
        <4> QED BY <4>1 DEF Others, active_ids, IsActive
      <3> QED BY <3>2, <3>3
    <2>4. /\ UNCHANGED <<sessions, callsigns>>
          /\ sessions[c].phase = "Active"
          /\ effects' \in {send({c}, Ev("Pong", None)), Nothing, send(R, Ev(message.type, message.source))}
      BY <1>5 DEF route, Accepted
    <2> HIDE DEF R
    <2>5. CASE effects' = Nothing
      BY <2>4, <2>5, <1>0, ErrorAnswers
    <2>6. CASE effects' = send({c}, Ev("Pong", None))
      <3>1. "Pong" \in EventKind
        BY DEF EventKind, RelayedType
      <3> QED BY <3>1, <2>4, <2>6, <1>0, SendAnswers
    <2>7. CASE effects' = send(R, Ev(message.type, message.source))
      <3>1. message.type \in EventKind /\ message.type \notin {"ClientAdded", "ClientRemoved", "Disconnect"}
        BY <2>1 DEF EventKind, RelayedType
      <3>2. \A r \in R : sessions'[r].phase \in {"Active", "Closed"}
        BY <2>3, <2>4
      <3> QED BY <3>1, <3>2, <2>1, <2>2, <2>4, <2>7, SendAnswers
    <2> QED BY <2>4, <2>5, <2>6, <2>7
  <1>6. ASSUME NEW source \in Callsigns, NEW target \in Callsigns \cup {None},
               query_flight_plan(c, source, target)
        PROVE  Delivered
    <2> DEFINE plan == sessions[callsigns[target]].flight_plan
    <2>1. /\ UNCHANGED <<sessions, callsigns>>
          /\ sessions[c].phase = "Active"
          /\ \/ effects' = error_effect(c, "Syntax")
             \/ effects' = error_effect(c, "NoSuchCallsign")
             \/ effects' = error_effect(c, "NoFlightPlan")
             \/ /\ target # None /\ InUse(target) /\ plan # None
                /\ effects' = send({c}, Ev("FlightPlan", plan.callsign))
      BY <1>6 DEF query_flight_plan, Accepted
    <2>2. ASSUME target # None, InUse(target), plan # None
          PROVE  plan.callsign \in Callsigns
      <3>1. callsigns[target] \in ConnectionIds
        BY <2>2 DEF TypeOK, InUse
      <3>2. plan \in FlightPlan
        BY <3>1, <2>2 DEF TypeOK, Session
      <3> QED BY <3>2 DEF FlightPlan
    <2> HIDE DEF plan
    <2> QED BY <2>1, <2>2, <1>0, SendAnswers, ErrorAnswers
  <1>7. ASSUME NEW source \in Callsigns, NEW target \in Callsigns, kill(c, source, target)
        PROVE  Delivered
    <2>1. CASE /\ sessions[c].phase = "Active"
               /\ effects' \in {error_effect(c, "NoSuchCallsign"), send({c}, Ev("Welcome", source))}
               /\ UNCHANGED <<sessions, callsigns, registered, calls>>
      BY <2>1, <1>0, SendAnswers, ErrorAnswers
    <2>2. CASE Killed(c, source, target)
      BY <2>2
    <2> QED BY <1>7, <2>1, <2>2, Zenon DEF kill, Killed, Accepted
  <1> HIDE DEF Delivered
  <1> QED BY <1>1, <1>2, <1>3, <1>4, <1>5, <1>6, <1>7 DEF Execute

\* Every step of the core that is not a stutter.
LEMMA StepDelivers ==
  ASSUME TypeOK, SessionShape, CallsignIndexExact, WeatherAsked, Next
  PROVE  Delivered
  <1>1. CASE broadcast
    <2>1. /\ active_ids(sessions) \in SUBSET ConnectionIds
          /\ \A c \in active_ids(sessions) : sessions'[c].phase \in {"Active", "Closed"}
      BY <1>1 DEF broadcast, active_ids, IsActive
    <2>2. "WindDelta" \in EventKind
      BY DEF EventKind
    <2>3. Answered
      BY <1>1, <2>1, <2>2, SendAnswers DEF broadcast
    <2> QED BY <2>3 DEF Delivered
  <1> QED BY <1>1, ExecuteDelivers, AsyncDelivers DEF Next

-----------------------------------------------------------------------------
(***************************************************************************)
(* Who is told what.  A property of every delivery of a step is stated as  *)
(* membership of the deliveries in Seq(S), which concatenation preserves.  *)
(***************************************************************************)
\* What a login sends to the new client itself.
Burst(c, dialect, presence) ==
  [line \in 1..(1 + MotdLines) |->
     [recipients |-> {c}, event |-> Ev("Welcome", presence.callsign)]]
    \o (IF dialect = "Vatsim" THEN vatsim_profile(c, presence) ELSE <<>>)

\* What a disconnection sends to the clients that remain.
Farewell(c) ==
  IF sessions[c].presence = None THEN <<>>
  ELSE Deliver(active_ids(sessions'), Ev("ClientRemoved", sessions[c].presence.callsign))

\* Deliver returns deliveries of S when its one delivery belongs to S.
LEMMA DeliverIn ==
  ASSUME NEW S, NEW R, NEW e, R # {} => [recipients |-> R, event |-> e] \in S
  PROVE  Deliver(R, e) \in Seq(S)
  <1> DEFINE d == [recipients |-> R, event |-> e]
  <1>1. R # {} => d \in S
    OBVIOUS
  <1> HIDE DEF d
  <1>2. <<>> \in Seq(S) /\ (R # {} => <<d>> \in Seq(S))
    BY <1>1
  <1> QED BY <1>2 DEF Deliver, d

\* The burst consists of welcomes, queries, responses and errors to the client.
LEMMA BurstIn ==
  ASSUME NEW S, NEW c \in ConnectionIds, NEW dialect, NEW presence \in ClientPresence,
         \A kind \in {"Welcome", "Query", "Response", "Error"},
            about \in Callsigns \cup ErrorCode \cup {None} :
           [recipients |-> {c}, event |-> Ev(kind, about)] \in S
  PROVE  Burst(c, dialect, presence) \in Seq(S)
  <1> DEFINE welcome == [recipients |-> {c}, event |-> Ev("Welcome", presence.callsign)]
             motd == [line \in 1..(1 + MotdLines) |-> welcome]
             profile == IF dialect = "Vatsim" THEN vatsim_profile(c, presence) ELSE <<>>
  <1>0. presence.callsign \in Callsigns
    BY DEF ClientPresence
  <1>1. motd \in Seq(S)
    <2>1. welcome \in S
      BY <1>0
    <2>2. 1 + MotdLines \in Nat
      BY NetworkAssumption
    <2> HIDE DEF welcome
    <2>3. motd \in [1..(1 + MotdLines) -> S]
      BY <2>1
    <2> HIDE DEF motd
    <2> QED BY <2>2, <2>3, SeqDef
  <1>2. vatsim_profile(c, presence) \in Seq(S)
    <2>1. "NoFlightPlan" \in ErrorCode
      BY DEF ErrorCode
    <2>2. /\ Deliver({c}, Ev("Query", None)) \in Seq(S)
          /\ Deliver({c}, Ev("Response", presence.callsign)) \in Seq(S)
          /\ Deliver({c}, Ev("Response", None)) \in Seq(S)
          /\ Deliver({c}, Ev("Error", "NoFlightPlan")) \in Seq(S)
      BY <1>0, <2>1, DeliverIn
    <2> QED BY <2>2 DEF vatsim_profile
  <1>3. profile \in Seq(S)
    BY <1>2
  <1> HIDE DEF motd, profile
  <1>4. motd \o profile \in Seq(S)
    BY <1>1, <1>3
  <1> QED BY <1>4 DEF Burst, motd, profile

\* A login announces the new client and then greets it.
LEMMA LoginDeliveries ==
  ASSUME NEW c \in ConnectionIds, NEW dialect, NEW presence \in ClientPresence,
         NEW peers \in SUBSET ConnectionIds
  PROVE  login_effects(c, dialect, presence, peers).deliveries
           = Deliver(peers, Ev("ClientAdded", presence.callsign)) \o Burst(c, dialect, presence)
  <1> DEFINE added == Deliver(peers, Ev("ClientAdded", presence.callsign))
             motd == [line \in 1..(1 + MotdLines) |->
                        [recipients |-> {c}, event |-> Ev("Welcome", presence.callsign)]]
             profile == IF dialect = "Vatsim" THEN vatsim_profile(c, presence) ELSE <<>>
  <1>1. presence.callsign \in Callsigns
    BY DEF ClientPresence
  <1>2. added \in Seq(Delivery)
    BY <1>1, EvType, DeliverType DEF EventKind
  <1>3. motd \in Seq(Delivery)
    <2>1. [recipients |-> {c}, event |-> Ev("Welcome", presence.callsign)] \in Delivery
      BY <1>1, EvType DEF EventKind, Delivery
    <2>2. motd \in [1..(1 + MotdLines) -> Delivery]
      BY <2>1
    <2> HIDE DEF motd
    <2> QED BY <2>2, NetworkAssumption, SeqDef
  <1>4. profile \in Seq(Delivery)
    <2>1. "NoFlightPlan" \in ErrorCode
      BY DEF ErrorCode
    <2>2. /\ Ev("Query", None) \in Event
          /\ Ev("Response", presence.callsign) \in Event
          /\ Ev("Response", None) \in Event
          /\ Ev("Error", "NoFlightPlan") \in Event
      BY <1>1, <2>1, EvType DEF EventKind, RelayedType
    <2>3. /\ Deliver({c}, Ev("Query", None)) \in Seq(Delivery)
          /\ Deliver({c}, Ev("Response", presence.callsign)) \in Seq(Delivery)
          /\ Deliver({c}, Ev("Response", None)) \in Seq(Delivery)
          /\ Deliver({c}, Ev("Error", "NoFlightPlan")) \in Seq(Delivery)
      BY <2>2, DeliverType
    <2> QED BY <2>3 DEF vatsim_profile
  <1>5. login_effects(c, dialect, presence, peers).deliveries = (added \o motd) \o profile
    BY DEF login_effects
  <1>6. Burst(c, dialect, presence) = motd \o profile
    BY DEF Burst
  <1> HIDE DEF added, motd, profile
  <1>7. (added \o motd) \o profile = added \o (motd \o profile)
    BY <1>2, <1>3, <1>4, ConcatAssociative, SMTT(40)
  <1> QED BY <1>5, <1>6, <1>7 DEF added

\* A disconnection appends its farewell to what was delivered before; removing
\* an absent session appends nothing.
LEMMA DisconnectDeliveries ==
  ASSUME TypeOK, SessionShape, NEW c \in ConnectionIds, NEW before \in Seq(Delivery),
         disconnect_locked(c, before)
  PROVE  effects'.deliveries = before \o Farewell(c)
  <1>1. CASE sessions[c].phase = "Closed"
    <2>1. Farewell(c) = <<>>
      BY <1>1 DEF SessionShape, NoSession, Farewell
    <2>2. effects'.deliveries = before
      BY <1>1 DEF disconnect_locked, Nothing
    <2>3. before \o <<>> = before
      BY ConcatEmptySeq
    <2> QED BY <2>1, <2>2, <2>3
  <1>2. CASE sessions[c].phase # "Closed"
    BY <1>2 DEF disconnect_locked, Farewell
  <1> QED BY <1>1, <1>2

\* What the next state lets a step deliver to a client that has not logged in.
SilentDelivery ==
  {d \in Delivery : \A c \in d.recipients :
     sessions'[c].phase \in {"Connected", "Identified"} => d.event.kind = "Error"}

\* An event to clients that are active or gone is silent for the others.
LEMMA ActiveIsSilent ==
  ASSUME NEW R \in SUBSET ConnectionIds, NEW e \in Event,
         \/ e.kind = "Error"
         \/ \A c \in R : sessions'[c].phase \in {"Active", "Closed"}
  PROVE  Deliver(R, e) \in Seq(SilentDelivery)
  <1> DEFINE d == [recipients |-> R, event |-> e]
  <1>1. d \in Delivery /\ d.recipients = R /\ d.event = e
    BY DEF Delivery
  <1> HIDE DEF d
  <1>2. d \in SilentDelivery
    BY <1>1 DEF SilentDelivery
  <1> QED BY <1>2, DeliverIn DEF d

\* A farewell goes to active clients only.
LEMMA FarewellIsSilent ==
  ASSUME TypeOK, NEW c \in ConnectionIds
  PROVE  Farewell(c) \in Seq(SilentDelivery)
  <1>1. CASE sessions[c].presence = None
    BY <1>1 DEF Farewell
  <1>2. CASE sessions[c].presence # None
    <2>1. sessions[c].presence.callsign \in Callsigns
      BY <1>2 DEF TypeOK, Session, ClientPresence
    <2>2. Ev("ClientRemoved", sessions[c].presence.callsign) \in Event
      BY <2>1, EvType DEF EventKind
    <2>3. /\ active_ids(sessions') \in SUBSET ConnectionIds
          /\ \A d \in active_ids(sessions') : sessions'[d].phase \in {"Active", "Closed"}
      BY DEF active_ids, IsActive
    <2> QED BY <1>2, <2>2, <2>3, ActiveIsSilent DEF Farewell
  <1> QED BY <1>1, <1>2

\* Whatever the step, only errors go to a client that has not logged in.
LEMMA StepIsSilent ==
  ASSUME TypeOK, SessionShape, CallsignIndexExact, WeatherAsked, Next
  PROVE  effects'.deliveries \in Seq(SilentDelivery)
  <1>0. /\ sessions \in [ConnectionIds -> Session]
        /\ callsigns \in [Callsigns -> ConnectionIds \cup {None}]
    BY DEF TypeOK
  <1>1. CASE Answered
    BY <1>1, ActiveIsSilent DEF Answered
  <1>2. ASSUME NEW c \in ConnectionIds, disconnect_locked(c, <<>>)
        PROVE  effects'.deliveries \in Seq(SilentDelivery)
    <2>1. <<>> \in Seq(Delivery) /\ <<>> \in Seq(SilentDelivery)
      OBVIOUS
    <2> QED BY <1>2, <2>1, DisconnectDeliveries, FarewellIsSilent, ConcatProperties
  <1>3. ASSUME NEW c \in ConnectionIds, NEW command \in LoginCommand, Welcomed(c, command)
        PROVE  effects'.deliveries \in Seq(SilentDelivery)
    <2> DEFINE p == presence_of(command)
               peers == active_ids(sessions) \ {c}
               added == Ev("ClientAdded", p.callsign)
    <2>1. p \in ClientPresence /\ p.callsign \in Callsigns
      BY PresenceType DEF ClientPresence
    <2>2. PICK g \in Nat : Activated(c, command, g)
      BY <1>3 DEF Welcomed
    <2>3. sessions'[c].phase = "Active"
      <3>1. sessions' = [sessions EXCEPT ![c].phase = "Active", ![c].presence = p,
                                         ![c].generation = @ + 1]
        BY <2>2 DEF Activated
      <3> HIDE DEF p
      <3> QED BY <3>1, <1>0 DEF Session
    <2>4. \A d \in peers : sessions'[d].phase \in {"Active", "Closed"}
      BY <2>2, ActivatedFields DEF active_ids, IsActive
    <2>5. peers \in SUBSET ConnectionIds
      BY DEF active_ids
    <2> HIDE DEF p
    <2>6. Deliver(peers, added) \in Seq(SilentDelivery)
      <3>1. added \in Event
        BY <2>1, EvType DEF EventKind
      <3> HIDE DEF peers, added
      <3> QED BY <3>1, <2>4, <2>5, ActiveIsSilent
    <2>7. Burst(c, sessions[c].dialect, p) \in Seq(SilentDelivery)
      <3>1. ASSUME NEW kind \in {"Welcome", "Query", "Response", "Error"},
                   NEW about \in Callsigns \cup ErrorCode \cup {None}
            PROVE  [recipients |-> {c}, event |-> Ev(kind, about)] \in SilentDelivery
        <4>1. Ev(kind, about) \in Event
          BY EvType DEF EventKind, RelayedType
        <4> QED BY <4>1, <2>3 DEF SilentDelivery, Delivery
      <3> QED BY <3>1, <2>1, BurstIn
    <2>8. effects'.deliveries = Deliver(peers, added) \o Burst(c, sessions[c].dialect, p)
      BY <1>3, <2>1, <2>5, LoginDeliveries DEF Welcomed, p
    <2> HIDE DEF peers, added
    <2> QED BY <2>6, <2>7, <2>8, ConcatProperties
  <1>4. ASSUME NEW c \in ConnectionIds, NEW source \in Callsigns, NEW target \in Callsigns,
               Killed(c, source, target)
        PROVE  effects'.deliveries \in Seq(SilentDelivery)
    <2> DEFINE victim == callsigns[target]
               told == Deliver({c}, Ev("Welcome", source))
               cut == Deliver({victim}, Ev("Disconnect", target))
    <2>1. victim \in ConnectionIds
      BY <1>0, <1>4 DEF Killed, InUse
    <2>2. Ev("Welcome", source) \in Event /\ Ev("Disconnect", target) \in Event
      BY EvType DEF EventKind
    <2>3. disconnect_locked(victim, told \o cut) /\ sessions[c].phase = "Active"
      BY <1>4 DEF Killed, Accepted
    <2>4. sessions' = [sessions EXCEPT ![victim] = NoSession]
      BY <2>3 DEF disconnect_locked
    <2>5. sessions'[victim].phase = "Closed" /\ sessions'[c].phase \in {"Active", "Closed"}
      BY <2>1, <2>3, <2>4, <1>0 DEF NoSession
    <2> HIDE DEF victim
    <2>6. told \in Seq(SilentDelivery) /\ cut \in Seq(SilentDelivery)
      <3>1. {c} \in SUBSET ConnectionIds /\ {victim} \in SUBSET ConnectionIds
        BY <2>1
      <3> QED BY <3>1, <2>2, <2>5, ActiveIsSilent
    <2>7. told \in Seq(Delivery) /\ cut \in Seq(Delivery)
      BY <2>1, <2>2, DeliverType
    <2> HIDE DEF told, cut
    <2>8. told \o cut \in Seq(Delivery) /\ told \o cut \in Seq(SilentDelivery)
      BY <2>6, <2>7, ConcatProperties
    <2>9. effects'.deliveries = (told \o cut) \o Farewell(victim)
      BY <2>1, <2>3, <2>8, DisconnectDeliveries
    <2> QED BY <2>1, <2>8, <2>9, FarewellIsSilent, ConcatProperties
  <1> QED BY <1>1, <1>2, <1>3, <1>4, StepDelivers DEF Delivered

\* A connection that has not logged in is sent nothing but errors, late answers
\* of the weather provider included.
THEOREM SilenceHolds == Spec => []UnauthenticatedSilent
  <1>1. Init => UnauthenticatedSilent
    BY DEF Init, UnauthenticatedSilent, Nothing
  <1>2. /\ TypeOK /\ SessionShape /\ CallsignIndexExact /\ CallsNeverOutrun /\ WeatherAsked
        /\ UnauthenticatedSilent /\ [Next]_vars
        => UnauthenticatedSilent'
    <2> SUFFICES ASSUME TypeOK, SessionShape, CallsignIndexExact, WeatherAsked,
                        UnauthenticatedSilent, [Next]_vars
                 PROVE  UnauthenticatedSilent'
      OBVIOUS
    <2>1. CASE Next
      <3> DEFINE D == effects'.deliveries
      <3>1. D \in Seq(SilentDelivery)
        BY <2>1, StepIsSilent
      <3> HIDE DEF D
      <3>2. \A i \in 1..Len(D) : D[i] \in SilentDelivery
        BY <3>1, ElementOfSeq
      <3>3. \A i \in 1..Len(D) : \A c \in D[i].recipients :
              sessions'[c].phase \in {"Connected", "Identified"} => D[i].event.kind = "Error"
        BY <3>2 DEF SilentDelivery
      <3> QED BY <3>3 DEF UnauthenticatedSilent, D
    <2>2. CASE UNCHANGED vars
      BY <2>2 DEF vars, UnauthenticatedSilent
    <2> QED BY <2>1, <2>2
  <1> QED BY <1>1, <1>2, TypeCorrect, SessionShapeHolds, IndexesAgree, CallsInvHolds, PTL DEF Spec

-----------------------------------------------------------------------------
(***************************************************************************)
(* Announcements.                                                          *)
(***************************************************************************)
\* Deliveries that announce neither an addition nor a removal.
PlainDelivery == {d \in Delivery : d.event.kind \notin {"ClientAdded", "ClientRemoved"}}

RosterKind == {"ClientAdded", "ClientRemoved"}

\* Plain deliveries announce nobody.
LEMMA PlainAnnouncesNobody ==
  ASSUME NEW e, e.deliveries \in Seq(PlainDelivery), NEW kind \in RosterKind, NEW cs
  PROVE  AnnouncedTo(e, kind, cs, {})
  <1> DEFINE D == e.deliveries
  <1>1. \A i \in 1..Len(D) : D[i].event.kind \notin RosterKind
    BY ElementOfSeq DEF PlainDelivery, RosterKind
  <1>2. Ev(kind, cs).kind = kind
    BY DEF Ev
  <1> HIDE DEF D
  <1>3. {i \in 1..Len(D) : D[i].event = Ev(kind, cs)} = {}
    BY <1>1, <1>2
  <1> QED BY <1>3 DEF AnnouncedTo, Announcements, D

\* One announcement between plain deliveries is the only one, and it reaches
\* exactly its recipients.
LEMMA OneAnnouncement ==
  ASSUME NEW e, NEW A \in Seq(PlainDelivery), NEW B \in Seq(PlainDelivery),
         NEW R \in SUBSET ConnectionIds, NEW k \in RosterKind, NEW who \in Callsigns,
         e.deliveries = A \o (Deliver(R, Ev(k, who)) \o B),
         NEW kind \in RosterKind, NEW cs
  PROVE  AnnouncedTo(e, kind, cs, IF kind = k /\ cs = who THEN R ELSE {})
  <1>1. CASE R = {}
    <2>1. Deliver(R, Ev(k, who)) = <<>>
      BY <1>1 DEF Deliver
    <2>2. e.deliveries \in Seq(PlainDelivery)
      BY <2>1, ConcatProperties, ConcatEmptySeq
    <2> QED BY <1>1, <2>2, PlainAnnouncesNobody
  <1>2. CASE R # {}
    <2> DEFINE d == [recipients |-> R, event |-> Ev(k, who)]
               D == A \o (<<d>> \o B)
               n == Len(A) + 1
    <2>1. d \in Delivery /\ d.event = Ev(k, who) /\ d.recipients = R
      BY EvType DEF Delivery, RosterKind, EventKind
    <2>2. e.deliveries = D
      BY <1>2 DEF Deliver
    <2>3. A \in Seq(Delivery) /\ B \in Seq(Delivery)
      BY SeqMonotonic DEF PlainDelivery
    <2> HIDE DEF d
    <2>4. <<d>> \in Seq(Delivery) /\ Len(<<d>>) = 1 /\ <<d>>[1] = d
      BY <2>1
    <2>5. /\ <<d>> \o B \in Seq(Delivery)
          /\ Len(<<d>> \o B) = 1 + Len(B)
          /\ \A i \in 1..(1 + Len(B)) : (<<d>> \o B)[i] = IF i <= 1 THEN <<d>>[i] ELSE B[i - 1]
      BY <2>3, <2>4, ConcatProperties
    <2> DEFINE dB == <<d>> \o B
    <2> HIDE DEF dB
    <2>6. /\ dB \in Seq(Delivery) /\ Len(dB) = 1 + Len(B)
          /\ dB[1] = d
          /\ \A i \in 2..(1 + Len(B)) : dB[i] = B[i - 1]
      <3>1. Len(B) \in Nat
        BY LenProperties
      <3> QED BY <2>4, <2>5, <3>1 DEF dB
    <2>7. /\ Len(A \o dB) = Len(A) + Len(dB)
          /\ \A i \in 1..(Len(A) + Len(dB)) :
               (A \o dB)[i] = IF i <= Len(A) THEN A[i] ELSE dB[i - Len(A)]
      BY <2>3, <2>6, ConcatProperties
    <2>8. D = A \o dB
      BY DEF dB
    <2> HIDE DEF D
    <2>9. Len(A) \in Nat /\ Len(B) \in Nat /\ Len(D) = Len(A) + 1 + Len(B)
      BY <2>6, <2>7, <2>8, LenProperties
    <2>10. n \in 1..Len(D) /\ D[n] = d
      BY <2>6, <2>7, <2>8, <2>9
    <2>11. ASSUME NEW i \in 1..Len(D), i # n
           PROVE  D[i] \in PlainDelivery
      <3>1. CASE i <= Len(A)
        <4>1. D[i] = A[i] /\ i \in 1..Len(A)
          BY <3>1, <2>6, <2>7, <2>8, <2>9
        <4> QED BY <4>1, ElementOfSeq
      <3>2. CASE i > Len(A)
        <4>1. i - n \in 1..Len(B)
          BY <3>2, <2>9, <2>11
        <4>2. D[i] = dB[i - Len(A)]
          BY <3>2, <2>6, <2>7, <2>8, <2>9
        <4>3. dB[i - Len(A)] = B[(i - Len(A)) - 1]
          <5>1. i - Len(A) \in 2..(1 + Len(B))
            BY <3>2, <2>9, <2>11
          <5> QED BY <5>1, <2>6
        <4>4. (i - Len(A)) - 1 = i - n
          BY <2>9
        <4> QED BY <4>1, <4>2, <4>3, <4>4, ElementOfSeq
      <3> QED BY <3>1, <3>2, <2>9
    <2>12. \A i \in 1..Len(D) : i # n => D[i].event.kind \notin RosterKind
      BY <2>11 DEF PlainDelivery, RosterKind
    <2>13. Ev(kind, cs).kind = kind /\ (Ev(k, who) = Ev(kind, cs) <=> (kind = k /\ cs = who))
      BY DEF Ev
    <2> HIDE DEF n
    <2>14. CASE kind = k /\ cs = who
      <3>1. {i \in 1..Len(D) : D[i].event = Ev(kind, cs)} = {n}
        BY <2>1, <2>10, <2>12, <2>13, <2>14
      <3> QED BY <3>1, <2>1, <2>2, <2>10, <2>14, <1>2 DEF AnnouncedTo, Announcements
    <2>15. CASE ~ (kind = k /\ cs = who)
      <3>1. {i \in 1..Len(D) : D[i].event = Ev(kind, cs)} = {}
        BY <2>1, <2>10, <2>12, <2>13, <2>15
      <3> QED BY <3>1, <2>2, <2>15 DEF AnnouncedTo, Announcements
    <2> QED BY <2>14, <2>15
  <1> QED BY <1>1, <1>2

\* A disconnection announces the released callsign to the clients that remain.
LEMMA RemovalAnnounced ==
  ASSUME TypeOK, SessionShape, CallsignIndexExact, NEW c \in ConnectionIds,
         NEW before \in Seq(PlainDelivery), disconnect_locked(c, before), NEW cs \in Callsigns
  PROVE  LET claimed == callsigns[cs] = None /\ callsigns'[cs] # None
             freed   == callsigns[cs] # None /\ callsigns'[cs] = None
         IN  /\ AnnouncedTo(effects', "ClientRemoved", cs,
                            IF freed THEN active_ids(sessions') ELSE {})
             /\ AnnouncedTo(effects', "ClientAdded", cs,
                            IF claimed THEN active_ids(sessions') \ {callsigns'[cs]} ELSE {})
  <1> DEFINE claimed == callsigns[cs] = None /\ callsigns'[cs] # None
             freed   == callsigns[cs] # None /\ callsigns'[cs] = None
             p == sessions[c].presence
  <1>0. /\ sessions \in [ConnectionIds -> Session]
        /\ callsigns \in [Callsigns -> ConnectionIds \cup {None}]
    BY DEF TypeOK
  <1>1. effects'.deliveries = before \o Farewell(c)
    <2>1. before \in Seq(Delivery)
      BY SeqMonotonic DEF PlainDelivery
    <2> QED BY <2>1, DisconnectDeliveries
  <1>2. "ClientAdded" \in RosterKind /\ "ClientRemoved" \in RosterKind
    BY DEF RosterKind
  <1>3. CASE p = None
    <2>1. UNCHANGED callsigns
      BY <1>3 DEF disconnect_locked
    <2>2. effects'.deliveries \in Seq(PlainDelivery)
      BY <1>1, <1>3, ConcatEmptySeq DEF Farewell
    <2> QED BY <2>1, <2>2, <1>2, PlainAnnouncesNobody
  <1>4. CASE p # None
    <2>1. p.callsign \in Callsigns
      BY <1>0, <1>4 DEF Session, ClientPresence
    <2>2. callsigns[p.callsign] = c
      BY <1>4, <2>1 DEF CallsignIndexExact
    <2>3. callsigns' = [callsigns EXCEPT ![p.callsign] = None]
      BY <1>4 DEF disconnect_locked
    <2>4. (freed <=> cs = p.callsign) /\ ~ claimed
      BY <1>0, <2>1, <2>2, <2>3, NoneAssumption
    <2> DEFINE R == active_ids(sessions')
               d == Deliver(R, Ev("ClientRemoved", p.callsign))
    <2>5. R \in SUBSET ConnectionIds
      BY DEF active_ids
    <2>6. effects'.deliveries = before \o d
      BY <1>1, <1>4 DEF Farewell
    <2>7. d \in Seq(Delivery)
      BY <2>1, <2>5, EvType, DeliverType DEF EventKind
    <2> HIDE DEF d
    <2>8. effects'.deliveries = before \o (d \o <<>>)
      BY <2>6, <2>7, ConcatEmptySeq
    <2>9. <<>> \in Seq(PlainDelivery)
      OBVIOUS
    <2> HIDE DEF R, freed, claimed, p
    <2>10. /\ AnnouncedTo(effects', "ClientRemoved", cs, IF cs = p.callsign THEN R ELSE {})
           /\ AnnouncedTo(effects', "ClientAdded", cs, {})
      <3>1. effects'.deliveries = before \o (Deliver(R, Ev("ClientRemoved", p.callsign)) \o <<>>)
        BY <2>8 DEF d
      <3>2. "ClientAdded" # "ClientRemoved"
        OBVIOUS
      <3>3. ASSUME NEW kind \in RosterKind
            PROVE  AnnouncedTo(effects', kind, cs,
                     IF kind = "ClientRemoved" /\ cs = p.callsign THEN R ELSE {})
        BY <1>2, <2>1, <2>5, <2>9, <3>1, OneAnnouncement, Zenon
      <3> QED BY <1>2, <3>2, <3>3
    <2>11. /\ AnnouncedTo(effects', "ClientRemoved", cs, IF freed THEN R ELSE {})
           /\ AnnouncedTo(effects', "ClientAdded", cs,
                          IF claimed THEN R \ {callsigns'[cs]} ELSE {})
      BY <2>4, <2>10
    <2> QED BY <2>11 DEF R, freed, claimed
  <1> QED BY <1>3, <1>4

\* A login announces the claimed callsign to the other active clients.
LEMMA AdditionAnnounced ==
  ASSUME TypeOK, NEW c \in ConnectionIds, NEW command \in LoginCommand, Welcomed(c, command),
         NEW cs \in Callsigns
  PROVE  LET claimed == callsigns[cs] = None /\ callsigns'[cs] # None
             freed   == callsigns[cs] # None /\ callsigns'[cs] = None
         IN  /\ AnnouncedTo(effects', "ClientRemoved", cs,
                            IF freed THEN active_ids(sessions') ELSE {})
             /\ AnnouncedTo(effects', "ClientAdded", cs,
                            IF claimed THEN active_ids(sessions') \ {callsigns'[cs]} ELSE {})
  <1> DEFINE claimed == callsigns[cs] = None /\ callsigns'[cs] # None
             freed   == callsigns[cs] # None /\ callsigns'[cs] = None
             p == presence_of(command)
             R == active_ids(sessions) \ {c}
             B == Burst(c, sessions[c].dialect, p)
  <1>1. p \in ClientPresence /\ p.callsign = command.callsign /\ command.callsign \in Callsigns
    BY PresenceType DEF presence_of, LoginCommand
  <1>2. PICK g \in Nat : Activated(c, command, g)
    BY DEF Welcomed
  <1>3. /\ callsigns[command.callsign] = None
        /\ callsigns' = [callsigns EXCEPT ![command.callsign] = c]
    BY <1>2 DEF Activated, activate_verdict, InUse
  <1>4. /\ claimed <=> cs = command.callsign
        /\ ~ freed
        /\ claimed => callsigns'[cs] = c
    BY <1>1, <1>3, NoneAssumption DEF TypeOK
  <1>5. R = active_ids(sessions') \ {c} /\ R \in SUBSET ConnectionIds
    BY <1>2, ActivatedFields DEF active_ids, IsActive
  <1>6. effects'.deliveries = Deliver(R, Ev("ClientAdded", p.callsign)) \o B
    <2>1. effects' = login_effects(c, sessions[c].dialect, p, R)
      BY DEF Welcomed
    <2> HIDE DEF p, R
    <2> QED BY <2>1, <1>1, <1>5, LoginDeliveries
  <1> HIDE DEF p
  <1>7. B \in Seq(PlainDelivery)
    <2>1. ASSUME NEW kind \in {"Welcome", "Query", "Response", "Error"},
                 NEW about \in Callsigns \cup ErrorCode \cup {None}
          PROVE  [recipients |-> {c}, event |-> Ev(kind, about)] \in PlainDelivery
      <3>1. Ev(kind, about) \in Event /\ Ev(kind, about).kind = kind
        BY EvType DEF EventKind, RelayedType, Ev
      <3> QED BY <3>1 DEF PlainDelivery, Delivery
    <2> QED BY <2>1, <1>1, BurstIn
  <1> HIDE DEF R, B
  <1>8. /\ effects'.deliveries = <<>> \o (Deliver(R, Ev("ClientAdded", command.callsign)) \o B)
        /\ <<>> \in Seq(PlainDelivery)
    <2> DEFINE d == Deliver(R, Ev("ClientAdded", command.callsign))
    <2>1. d \in Seq(Delivery)
      BY <1>1, <1>5, EvType, DeliverType DEF EventKind
    <2>2. B \in Seq(Delivery)
      BY <1>7, SeqMonotonic DEF PlainDelivery
    <2> HIDE DEF d
    <2>3. d \o B \in Seq(Delivery)
      BY <2>1, <2>2, ConcatProperties
    <2>4. <<>> \o (d \o B) = d \o B
      BY <2>3, ConcatEmptySeq
    <2> QED BY <2>4, <1>1, <1>6 DEF d
  <1>9. "ClientAdded" \in RosterKind /\ "ClientRemoved" \in RosterKind
    BY DEF RosterKind
  <1>10. /\ AnnouncedTo(effects', "ClientRemoved", cs, {})
         /\ AnnouncedTo(effects', "ClientAdded", cs, IF cs = command.callsign THEN R ELSE {})
    <2>1. "ClientAdded" # "ClientRemoved"
      OBVIOUS
    <2>2. command.callsign \in Callsigns /\ R \in SUBSET ConnectionIds
      BY <1>1, <1>5
    <2>3. ASSUME NEW kind \in RosterKind
          PROVE  AnnouncedTo(effects', kind, cs,
                   IF kind = "ClientAdded" /\ cs = command.callsign THEN R ELSE {})
      BY <2>2, <1>7, <1>8, <1>9, OneAnnouncement, Zenon
    <2> QED BY <1>9, <2>1, <2>3
  <1> HIDE DEF claimed, freed
  <1>11. /\ AnnouncedTo(effects', "ClientRemoved", cs, IF freed THEN active_ids(sessions') ELSE {})
         /\ AnnouncedTo(effects', "ClientAdded", cs,
                        IF claimed THEN active_ids(sessions') \ {callsigns'[cs]} ELSE {})
    BY <1>4, <1>5, <1>10
  <1> QED BY <1>11 DEF claimed, freed

\* A released callsign is announced as removed exactly once, to exactly the
\* clients that remain active; a claimed one as added exactly once, to exactly
\* the other active clients; no other step announces either.
THEOREM RosterHolds == Spec => RosterExact
  <1> DEFINE Exact ==
        \A cs \in Callsigns :
          LET claimed == callsigns[cs] = None /\ callsigns'[cs] # None
              freed   == callsigns[cs] # None /\ callsigns'[cs] = None
          IN  /\ AnnouncedTo(effects', "ClientRemoved", cs,
                             IF freed THEN active_ids(sessions') ELSE {})
              /\ AnnouncedTo(effects', "ClientAdded", cs,
                             IF claimed THEN active_ids(sessions') \ {callsigns'[cs]} ELSE {})
  <1>1. TypeOK /\ SessionShape /\ CallsignIndexExact /\ WeatherAsked /\ [Next]_vars => [Exact]_vars
    <2> SUFFICES ASSUME TypeOK, SessionShape, CallsignIndexExact, WeatherAsked, Next
                 PROVE  Exact
      OBVIOUS
    <2>0. <<>> \in Seq(PlainDelivery)
      OBVIOUS
    <2>1. CASE Answered
      <3>1. PICK R \in SUBSET ConnectionIds, e \in Event :
                   /\ effects'.deliveries = Deliver(R, e)
                   /\ e.kind \notin {"ClientAdded", "ClientRemoved", "Disconnect"}
        BY <2>1 DEF Answered
      <3>2. [recipients |-> R, event |-> e] \in PlainDelivery
        BY <3>1 DEF PlainDelivery, Delivery
      <3>3. effects'.deliveries \in Seq(PlainDelivery)
        BY <3>1, <3>2, DeliverIn
      <3>4. "ClientAdded" \in RosterKind /\ "ClientRemoved" \in RosterKind
        BY DEF RosterKind
      <3>5. UNCHANGED callsigns
        BY <2>1 DEF Answered
      <3> QED BY <3>3, <3>4, <3>5, PlainAnnouncesNobody
    <2>2. ASSUME NEW c \in ConnectionIds, disconnect_locked(c, <<>>)
          PROVE  Exact
      BY <2>0, <2>2, RemovalAnnounced
    <2>3. ASSUME NEW c \in ConnectionIds, NEW command \in LoginCommand, Welcomed(c, command)
          PROVE  Exact
      BY <2>3, AdditionAnnounced
    <2>4. ASSUME NEW c \in ConnectionIds, NEW source \in Callsigns, NEW target \in Callsigns,
                 Killed(c, source, target)
          PROVE  Exact
      <3> DEFINE victim == callsigns[target]
                 told == Deliver({c}, Ev("Welcome", source))
                 cut == Deliver({victim}, Ev("Disconnect", target))
      <3>1. victim \in ConnectionIds
        BY <2>4 DEF Killed, InUse, TypeOK
      <3>2. disconnect_locked(victim, told \o cut)
        BY <2>4 DEF Killed
      <3> HIDE DEF victim
      <3>3. told \in Seq(PlainDelivery) /\ cut \in Seq(PlainDelivery)
        <4>1. /\ Ev("Welcome", source) \in Event /\ Ev("Welcome", source).kind = "Welcome"
              /\ Ev("Disconnect", target) \in Event /\ Ev("Disconnect", target).kind = "Disconnect"
          BY EvType DEF EventKind, Ev
        <4>2. /\ [recipients |-> {c}, event |-> Ev("Welcome", source)] \in PlainDelivery
              /\ [recipients |-> {victim}, event |-> Ev("Disconnect", target)] \in PlainDelivery
          BY <3>1, <4>1 DEF PlainDelivery, Delivery
        <4> QED BY <4>2, DeliverIn
      <3> HIDE DEF told, cut
      <3>4. told \o cut \in Seq(PlainDelivery)
        BY <3>3, ConcatProperties
      <3> QED BY <3>1, <3>2, <3>4, RemovalAnnounced
    <2> QED BY <2>1, <2>2, <2>3, <2>4, StepDelivers DEF Delivered
  <1> QED BY <1>1, TypeCorrect, SessionShapeHolds, IndexesAgree, CallsInvHolds, PTL
          DEF Spec, RosterExact
=============================================================================
