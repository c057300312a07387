SPECIFICATION FairSpec
CONSTANTS
  Request = {r1, r2}
  Address <- Addresses
  InList <- Lists
  Config <- Configs
  LogBuffer = 1
  NotCached = NotCached
  NoEntry = NoEntry
INVARIANTS
  EntriesReachLog
  ShutdownDrainsLog
  GeoPolicyHolds
PROPERTIES
  ShutdownEnds
CHECK_DEADLOCK FALSE
