SPECIFICATION FairSpec
CONSTANTS
  Ranks <- BigRanks
  Nodes <- MCNodes
  NodeOf <- BigNodeOf
  LocalMasters <- BigLocalMasters
  Master <- MCMaster
  Kind = "mpi"
  MaxLocal = 2
  MaxGlobal = 1
  MaxUnread = 3
  Archive = TRUE
  AppSyncs = FALSE
  Faults = {}
INVARIANTS
  TypeOK
  GlobalBarrierSafe
  TracesInFinalFolder
PROPERTIES
  LocalBarrierHolds
  AllEnd
CHECK_DEADLOCK FALSE
