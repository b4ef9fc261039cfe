CONSTANTS
  X = X
  Y = Y
  alice = alice
  None = None
  ConnectionIds = {c1, c2}
  Callsigns = {X, Y}
  Tasks = {c1, c2}
  Places = {"here"}
  Distance <- MCDistance
  MaxClients = 2
  MotdLines = 0
  Listeners = {"Classic"}
  NetworkIds = {alice}
  Users <- MCUsers
  ClientIds = {"known"}
  Whitelist = {"known"}
  Identifications = {}
  Logins <- MCLogins
  Positions = {}
  FlightPlans = {}
  Messages = {}
  Maintenance = maintenance
  MailboxCapacity = 3
  DecodeErrors = {}
  Encoded <- RosterFrames
  Unencodable = {}
  WindTicks = FALSE
SPECIFICATION RosterSpec
INVARIANTS
  RosterInOrder
