\* Five messages through a decrypted queue for two.
SPECIFICATION FairSpec
CONSTANTS
  Role = "relay"
  FirstCounter = 1
  DecryptQueueSize = 2
  LowSpace = 2
  HighSpace = 2
  MaxMessages = 5
INVARIANTS
  NothingLost
  NoncesAgree
  Bounded
PROPERTIES
  WrittenIsHandled
  CloseReachesHandler
