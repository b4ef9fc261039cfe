CONSTANTS
  X = X
  Y = Y
  alice = alice
  None = None
  ConnectionIds = {c1, c2}
  Callsigns = {X}
  Tasks = {c1, c2}
  Places = {"here"}
  Distance <- MCDistance
  MaxClients = 1
  MotdLines = 0
  Listeners = {"Classic", "Vatsim"}
  NetworkIds = {alice}
  Users <- MCUsers
  ClientIds = {"known"}
  Whitelist = {"known"}
  Identifications = {}
  Logins <- MCLogins
  Positions = {}
  FlightPlans = {}
  Messages = {}
  Maintenance = maintenance
  MailboxCapacity = 1
  DecodeErrors = {}
  Encoded <- AnyFrames
  Unencodable = {}
  WindTicks = FALSE
SPECIFICATION ServerSafety
SYMMETRY Symmetry
INVARIANTS
  ServerTypeOK
PROPERTIES
  SupervisionSpec
