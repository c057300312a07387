SPECIFICATION Spec
CONSTANTS
  MaxResponseBodySize = 4
  DefaultMaxResponseBodySize = 8
  RuleSet <- BodyOnly
  Targets = {0, 1}
  AnomalyThreshold = 5
  Customs <- NoCustom
  Message <- Short
  ErrorBody <- Error
  Chunk <- Chunks
  MaxProduced = 1
  MayReload = FALSE
  MayPanic = FALSE
INVARIANTS
  BodyRulesBlock
CHECK_DEADLOCK FALSE
