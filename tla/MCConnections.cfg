SPECIFICATION Spec
CONSTANTS
  MaxSockets = 3
  MaxFaults = 2
  MaxLinks = 3
  MaxRequests = 2
  Paths = {"root", "directory"}
  Root = "root"
  MaxEvents = 2
  MaxPages = 2
  Tabs = {"t1", "t2"}
  Nothing = "none"
  MaxLines = 2
  MaxMishaps = 2
INVARIANTS
  TypeOK
  OneConnection
  ViewIsTrue
PROPERTIES
  ComesBack
CHECK_DEADLOCK FALSE
