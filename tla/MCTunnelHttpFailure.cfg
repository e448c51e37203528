SPECIFICATION FairSpec
CONSTANTS
  Connections = {r1}
  MaxChunks = 2
INVARIANTS ProperFailure
