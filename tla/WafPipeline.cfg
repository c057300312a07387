SPECIFICATION Spec
CONSTANTS
  MaxResponseBodySize = 2
  DefaultMaxResponseBodySize = 8
  RuleSet <- Both
  Targets = {0, 1, 2}
  AnomalyThreshold = 5
  Customs <- AnyCustom
  Message <- Short
  ErrorBody <- Error
  Chunk <- Chunks
  MaxProduced = 3
  MayReload = TRUE
  MayPanic = TRUE
INVARIANTS
  GoesOnUnderThreshold
  AllowedBodyIsWhole
  ResponseVetted
  BlockedBodyNotDelivered
CHECK_DEADLOCK FALSE
