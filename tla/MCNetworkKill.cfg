CONSTANTS
  X = X
  Y = Y
  Z = Z
  alice = alice
  bob = bob
  None = None
  ConnectionIds = {c1, c2}
  Callsigns = {X, Y}
  Tasks = {t1}
  Places = {"here", "there"}
  Distance <- MCDistance
  MaxClients = 2
  MotdLines = 0
  Listeners = {"Classic"}
  NetworkIds = {alice, bob}
  Users <- MCUsers
  ClientIds = {"known"}
  Whitelist = {"known"}
  Identifications = {}
  Logins <- KillLogins
  Positions = {}
  FlightPlans = {}
  Messages = {}
SPECIFICATION Spec
PROPERTIES
  KillNeedsSupervisor
