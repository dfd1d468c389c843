CONSTANTS
  s1 = s1
  c1 = c1
  c2 = c2
  time = time
  f1 = f1
  f2 = f2
  None = None
  Servers = {s1}
  Clients = {c1, c2}
  MayExit = {}
  Ids = {time}
  IdOf <- OneServer
  MaxServers = 1
  MaxPages = 2
  Frames = {f1, f2}
  Messages = FALSE
  ShareFails = FALSE
SPECIFICATION FairSpec
CHECK_DEADLOCK FALSE
PROPERTIES
  ConnectReturns
