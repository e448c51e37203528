SPECIFICATION ReleaseSpec
CONSTANTS
  NumReleases = 1
  Migrations = 1
  MaxHostFaults = 0
INVARIANTS
  CurrentIsVerified
