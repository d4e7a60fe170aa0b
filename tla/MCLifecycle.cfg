SPECIFICATION FairSpec
CONSTANTS
  c1 = c1
  Clients = {c1}
  Contents <- AllOrNobody
  Missing = Missing
  Broken = Broken
  MaxEdits = 2
  Sockets = {w1, w2}
  NoSocket = NoSocket
  Patience <- ForEver
  MaxFailed = 1
  MaxFaults = 2
INVARIANT ReturnsLast
PROPERTIES ReloadSettles ComesBack StopEnds
