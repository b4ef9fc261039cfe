CONSTANTS
  X = X
  Y = Y
  Z = Z
  alice = alice
  bob = bob
  None = None
  ConnectionIds = {c1, c2, c3}
  Callsigns = {X, Y}
  Tasks = {t1, t2}
  Places = {"here", "there"}
  Distance <- MCDistance
  MaxClients = 2
  MotdLines = 1
  Listeners = {"Classic", "Vatsim"}
  NetworkIds = {alice, bob}
  Users <- MCUsers
  ClientIds = {"known", "rogue"}
  Whitelist = {"known"}
  Identifications <- CoreIdentifications
  Logins <- CoreLogins
  Positions <- CorePositions
  FlightPlans <- CorePlans
  Messages <- CoreMessages
SPECIFICATION Spec
SYMMETRY Symmetry
INVARIANTS
  TypeOK
  CallsignIndexExact
  SessionShape
  VatsimIdentityMatches
  RatingAuthorized
  StateIsOwn
  RadioIsMutual
  WithinCapacity
  CallsNeverOutrun
  UnauthenticatedSilent
PROPERTIES
  RosterExact
  RegistrySpec
