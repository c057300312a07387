SPECIFICATION FairSpec
CONSTANTS
  Prefix = {p}
  LastSecond = 1
  MaxBytes = 3
  Retention = 1
  Window <- WindowAll
  Amount <- AmountOne
  Clean = Clean
  NoCopy = NoCopy
INVARIANTS
  MemoryMatchesDisk
  FlushLeavesOnlyLateRecords
PROPERTIES
  UsageStaysInWindow
  RestartForgivesNothing
  ImplementsLedger
  DirtyReachesDisk
  CloseTerminates
