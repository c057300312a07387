SPECIFICATION FairSpec
CONSTANTS
  Thread = {t1, t2}
  N = 4
  Options <- Lines
  Status = {200, 403}
  Expected <- ExpectedStatus
  NoKind = NoKind
INVARIANTS
  VerdictIsRight
  FailuresStopTheRun
  StopIsPrompt
PROPERTIES
  RunEnds
CHECK_DEADLOCK FALSE
