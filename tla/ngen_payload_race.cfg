SPECIFICATION Spec
CONSTANTS
  Threads = {t1, t2}
  Keys <- KeySet
  Ids <- IdSet
  Registry <- KeyIds
  LowerCase <- Lower
  NgenKey = "ngen"
  NgenId = "NGEN"
  Worlds <- UnifiedWorlds
  Sends <- RaceSends
  MaxCalls = 1
  FsMayFail = FALSE
INVARIANT PayloadRecorded
