SPECIFICATION Spec
CONSTANTS
  Handler = {h1, h2, h3}
  NoHandler = NoHandler
  Request = {r1, r2}
  Chunk = 3
  Limit = 3
  WriteSize <- WriteSmall
  MaxSent = 4
  MayPanic = TRUE
  GraceExpires = TRUE
INVARIANTS
  ReferencesMatchHandlers
  ManagerCountsDelivered
CHECK_DEADLOCK FALSE
