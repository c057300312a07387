SPECIFICATION SuitesSpec
CONSTANTS
  None = None
  Setup <- Meetings
  Benchmarks <- Expectations
  Rules <- SomeRules
  Statuses = {0, 200, 302, 403, 500}
  Configs <- SomeConfigs
  MaxRuns = 3
  MaxEdits = 1
INVARIANTS
  BenchmarksAreKept
  PredictionsComeTrue
CHECK_DEADLOCK FALSE
