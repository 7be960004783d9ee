SPECIFICATION FairSpec
CONSTANTS
  Plugins <- MCPlugins
  Samplers <- MCSamplers
  Argv <- MCArgv
  PluginOf <- MCPluginOf
  Interval <- MCInterval
  Finalizers <- MCPlugins
  MaxPass = 1
  Floor <- MCFloor
  None = None
INVARIANTS
  TypeOK
  NoUseAfterFree
  PluginLoaded
  WakesInTime
PROPERTIES
  KeepsSampling
  DaemonEnds
CHECK_DEADLOCK FALSE
