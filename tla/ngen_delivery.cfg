SPECIFICATION Spec
CONSTANTS
  Threads = {t1, t2}
  Keys <- KeySet
  Ids <- IdSet
  Registry <- KeyIds
  LowerCase <- Lower
  NgenKey = "ngen"
  NgenId = "NGEN"
  Worlds <- DeliveryWorlds
  Sends <- DeliverySends
  MaxCalls = 3
  FsMayFail = FALSE
INVARIANT DeliveredOnce
INVARIANT InOrder
INVARIANT PayloadRecorded
PROPERTY CallsAreAtomic
