SPECIFICATION FairSpec
CONSTANTS
  RuleFiles <- TwoFiles
  RuleContent <- RuleContents
  ListContent <- ListContents
  FirstDisk <- Disks
  BadPattern = BadPattern
  Missing = Missing
  Broken = Broken
  Free = Free
  MaxEdits = 2
INVARIANTS
  RulesCurrent
  ListsCurrent
PROPERTIES
  NothingAfterShutdown
  ShutdownReturns
CHECK_DEADLOCK FALSE
