SPECIFICATION FairSpec
CONSTANTS
  DeleteInterval = 2
  CanDelete = {4}
  Cached = {"rest"}
  Rest <- MCRest
  MaxLedger = 5
  MaxDirs = 4
  MaxStarts = 2
CHECK_DEADLOCK FALSE
INVARIANTS
  StartsClean
  RotatedKept
PROPERTIES
  FetchFinds
  StoreStops
