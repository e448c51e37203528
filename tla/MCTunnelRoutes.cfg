SPECIFICATION FairSpec
CONSTANTS
  Connections = {c1}
  MaxMessages = 2
INVARIANTS TypeOK InOrder RoutesEndWithTunnel
PROPERTIES EndsFollow
