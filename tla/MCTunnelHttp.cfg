SPECIFICATION FairSpec
CONSTANTS
  Connections = {r1}
  MaxChunks = 2
INVARIANTS TypeOK WholeRequest AnswerIntegrity WaitingIsTimed
  NothingOutlivesTunnel Abortable
PROPERTIES CallersAreTold
