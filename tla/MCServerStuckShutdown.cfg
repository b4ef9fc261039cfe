CONSTANTS
  X = X
  Y = Y
  alice = alice
  None = None
  ConnectionIds = {c1}
  Callsigns = {X}
  Tasks = {c1}
  Places = {"here"}
  Distance <- MCDistance
  MaxClients = 1
  MotdLines = 0
  Listeners = {"Classic"}
  NetworkIds = {alice}
  Users <- MCUsers
  ClientIds = {"known"}
  Whitelist = {"known"}
  Identifications = {}
  Logins <- MCLogins
  Positions = {}
  FlightPlans = {}
  Messages = {}
  Maintenance = maintenance
  MailboxCapacity = 1
  DecodeErrors = {}
  Encoded <- AnyFrames
  Unencodable = {}
  WindTicks = TRUE
SPECIFICATION ServerSpec
PROPERTIES
  ShutdownConverges
