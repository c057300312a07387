SPECIFICATION LimiterSpec
CONSTANTS
  Thread = {t1, t2}
  Requests = 2
  Window = 3
  MaxWait = 1
  LastSecond = 8
  MaxServed = 7
SYMMETRY Threads
INVARIANTS
  AdmissionIsBounded
PROPERTIES
  RefusalIsDeserved
CHECK_DEADLOCK FALSE
