SPECIFICATION FairSpec
CONSTANTS
  Ranks <- BigRanks
  Nodes <- MCNodes
  NodeOf <- BigNodeOf
  LocalMasters <- BigLocalMasters
  Master <- MCMaster
  Kind = "fs"
  MaxLocal = 2
  MaxGlobal = 1
  MaxUnread = 3
  Archive = FALSE
  AppSyncs = TRUE
  Faults = {}
INVARIANTS
  SDTypeOK
  TracesInFinalFolder
PROPERTIES
  LocalBarrierHolds
  AllEnd
CHECK_DEADLOCK FALSE
