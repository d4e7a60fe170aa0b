\* A socket that connects to a service of its own.
CONSTANTS
  s1 = s1  s2 = s2  s3 = s3  n1 = n1  n2 = n2  raw = raw  socks = socks
  Sockets = {s1, s2}
  Services = {n1, n2}
  ServiceTypes = {raw, socks}
  InvalidType = InvalidType
  None = None
  MaxLinks = 2
  MaxClientUid = 1
  BindEnabled = {s1, s2}
  ConnectEnabled = {s1, s2}
  MayBind <- EverythingAllowed
  MayConnect <- EverythingAllowed
  BindRequests <- EveryKindOfRequest
SPECIFICATION Spec
PROPERTIES StreamsCross
