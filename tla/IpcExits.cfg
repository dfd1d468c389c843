CONSTANTS
  s1 = s1
  c1 = c1
  c2 = c2
  time = time
  f1 = f1
  f2 = f2
  None = None
  Servers = {s1}
  Clients = {c1, c2}
  MayExit = {s1, c1, c2}
  Ids = {time}
  IdOf <- OneServer
  MaxServers = 2
  MaxPages = 2
  Frames = {f1, f2}
  Messages = TRUE
  ShareFails = TRUE
SPECIFICATION Spec
CHECK_DEADLOCK FALSE
SYMMETRY ClientSymmetry
INVARIANTS
  SharedPagesAreSafe
  BlockedClientsAreListed
  RequestsAreCounted
  DeliveryIsInHand
PROPERTIES
  LastUserGivesBack
  ReleasedAfterHandled
