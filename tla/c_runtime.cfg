SPECIFICATION Spec
CONSTANTS
  Threads = {t1, t2}
  Ids <- IdSet
  Worlds <- RuntimeWorlds
  Sends <- RuntimeSends
  MaxCalls = 2
INVARIANT TypeOK
INVARIANT OneLoggerPerId
INVARIANT OneDestination
INVARIANT BridgeKept
INVARIANT AdoptsNgenLevels
PROPERTY CallsAreAtomic
