CONSTANTS
  L1 = L1
  L2 = L2
  a = a
  c = c
  AcceptLoops = {L1, L2}
  Connections = {a, c}
  Home <- MCHome
SPECIFICATION Spec
INVARIANTS
  TypeOK
  OkMeansEnded
PROPERTIES
  ListenerFailureSurfaces
  ErrorStopsEverything
