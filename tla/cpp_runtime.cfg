SPECIFICATION Spec
CONSTANTS
  Threads = {t1, t2}
  Ids <- IdSet
  Worlds <- RuntimeWorlds
  Sends <- RuntimeSends
  MaxCalls = 2
INVARIANT TypeOK
INVARIANT SettingsDecide
INVARIANT OwnLogger
INVARIANT OneWay
INVARIANT AdoptsNgenLevels
PROPERTY CallsAreAtomic
