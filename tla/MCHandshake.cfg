\* Two builds, both modes, three packets per side.
SPECIFICATION FairSpec
CONSTANTS
  Versions = {7, 8}
  MaxCounter = 3
INVARIANTS
  NothingMisread
  OnlyAuthorized
  CountersMeet
PROPERTIES
  HandshakeEnds
  NobodyAlone
