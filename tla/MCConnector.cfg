\* A raw and a SOCKS connection, two sessions, two chunks each way: safety.
SPECIFICATION Spec
CONSTANTS
  Clients = {raw, socks}
  SocksClients = {socks}
  MaxSessions = 2
  MaxUid = 2
  MaxData = 2
INVARIANTS
  TableMatches
  AnswersAgree
  NothingCutShort
