SPECIFICATION FairSpec
CONSTANTS
  editor = editor
  sender = sender
  Clients <- MCClients
  Operations <- MCOperations
  MaxEnvelopes = 3
  MaxReconnects <- MCEditReconnects
PROPERTIES EditRetried
CHECK_DEADLOCK FALSE
