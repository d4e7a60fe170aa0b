\* A raw and a SOCKS connection, one session, one chunk each way: liveness.
SPECIFICATION FairSpec
CONSTANTS
  Clients = {raw, socks}
  SocksClients = {socks}
  MaxSessions = 1
  MaxUid = 2
  MaxData = 1
PROPERTIES
  EveryoneAnswered
  ApplicationEndReaches
