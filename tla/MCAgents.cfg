SPECIFICATION AgentsSpec
CONSTANTS
  editor = editor
  sender = sender
  Clients <- MCClients
  Operations <- MCOperations
  MaxEnvelopes = 3
  MaxReconnects <- MCReconnects
  NumMessages = 2
  MaxText = 2
  MaxEvents = 6
  MaxNotices = 1
  MaxFetches = 1
  t1 = t1
  t2 = t2
  Turns = {t1, t2}
  MaxProcesses = 2
  MaxSaid = 1
  MaxLines = 2
  MaxInvalid = 1
INVARIANTS AgentsTypeOK Gapless StreamIsCurrent OneRunEach JoinedViewIsWhole TurnsAreHeard
PROPERTIES EditAlone ClientsAreServed
CHECK_DEADLOCK FALSE
