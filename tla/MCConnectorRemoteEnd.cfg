\* One raw connection whose circuit the relay closes.
SPECIFICATION FairSpec
CONSTANTS
  Clients = {raw}
  SocksClients = {}
  MaxSessions = 1
  MaxUid = 1
  MaxData = 1
PROPERTIES
  RemoteEndReaches
