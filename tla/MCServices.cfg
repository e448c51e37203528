SPECIFICATION Spec
CONSTANTS
  a1 = a1  a2 = a2
  Uploads = {a1, a2}
  Parts <- MCParts
  NumFiles = 2
  MaxUploadFaults = 1
  Clients = {a1, a2}
  Requests = {a1, a2}
  Chunks = 2
  Retries = 1
  MaxFileFaults = 1
  NumReleases = 2
  Migrations = 1
  MaxHostFaults = 1
  SessionFiles = {1, 2}
  MaxAttempts = 2
  MaxContents = 2
  MaxSyncFaults = 1
  Subscriptions = {1, 2, 3}
  Directories = {"root", "other"}
  RootDirectory = "root"
  MaxWatchFaults = 1
  Publishers = {"p1", "p2"}
  Viewers = {"v1", "v2"}
  NoSocket = "none"
  MaxRelaySessions = 2
  Callers = {a1, a2}
  MaxRequests = 3
  MaxReports = 2
  MaxBroken = 1
  Operations = {1, 2, 3}
  MaxRecords = 1
INVARIANTS
  TypeOK
  UploadsLeaveWhole
  RequestsAreSound
  VersionIsCurrent
  SyncedIsStored
  ActiveIsWatched
  OneRelay
  RowsTellInstances
  OperationsAreHeld
SYMMETRY MCSymmetry
CHECK_DEADLOCK FALSE
