SPECIFICATION FairSpec
CONSTANTS
  Threads = {t1, t2, t3}
  Keys <- KeySet
  Ids <- IdSet
  Registry <- KeyIds
  LowerCase <- Lower
  NgenKey = "ngen"
  NgenId = "NGEN"
  Worlds <- LivenessWorlds
  Sends <- LivenessSends
  MaxCalls = 1
  FsMayFail = TRUE
INVARIANT TypeOK
INVARIANT SplitMessagesWhole
PROPERTY CallsReturn
