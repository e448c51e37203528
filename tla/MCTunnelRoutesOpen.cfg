SPECIFICATION FairSpec
CONSTANTS
  Connections = {c1}
  MaxMessages = 2
PROPERTIES OpenAnswered
