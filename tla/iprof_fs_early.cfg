SPECIFICATION Spec
CONSTANTS
  Ranks <- MCRanks
  Nodes <- MCNodes
  NodeOf <- MCNodeOf
  LocalMasters <- MCLocalMasters
  Master <- MCMaster
  Kind = "fs"
  MaxLocal = 2
  MaxGlobal = 1
  MaxUnread = 3
  Archive = FALSE
  AppSyncs = FALSE
  Faults = {}
INVARIANTS
  TracesInFinalFolder
CHECK_DEADLOCK FALSE
