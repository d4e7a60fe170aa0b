\* Two sockets compete for services, a third one connects to them.
CONSTANTS
  s1 = s1  s2 = s2  s3 = s3  n1 = n1  n2 = n2  raw = raw  socks = socks
  Sockets = {s1, s2, s3}
  Services = {n1, n2}
  ServiceTypes = {raw}
  InvalidType = InvalidType
  None = None
  MaxLinks = 2
  MaxClientUid = 1
  BindEnabled = {s1, s2}
  ConnectEnabled = {s2, s3}
  MayBind <- CompetingMayBind
  MayConnect <- CompetingMayConnect
  BindRequests <- CompetingRequests
SPECIFICATION Spec
PROPERTIES LinksReachOwner EveryLossTold StreamsCrossBetweenSockets
