SPECIFICATION Spec
CONSTANTS
  Threads = {t1, t2}
  Keys <- KeySet
  Ids <- IdSet
  Registry <- KeyIds
  LowerCase <- Lower
  NgenKey = "ngen"
  NgenId = "NGEN"
  Worlds <- PolicyWorlds
  Sends <- PolicySends
  MaxCalls = 1
  FsMayFail = FALSE
SYMMETRY Symmetry
INVARIANT FollowsConfiguration
INVARIANT ExportedLevelsAgree
INVARIANT StreamsSeparate
INVARIANT DeliveredOnce
PROPERTY SettingsFixed
