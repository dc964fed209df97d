SPECIFICATION FairSpec
CONSTANTS
  Names = {"d", "e", "x", "t"}
  Paths <- MCPaths
  Clients <- Two
  Backup <- MCBackup
  NoOverwrite = TRUE
  Starts <- MCStarts
  Requests <- MCRequests
  MaxOps = 2
  MaxFaults = 1
INVARIANTS
  CacheTruth
  OldKept
PROPERTIES
  RequestsEnd
CHECK_DEADLOCK FALSE
