SPECIFICATION PromiseSpec
CONSTANTS
  MaxUint = 6
  LastTime = 7
  Amount <- AmountSmall
  MaxTotal = 6
  QuotaWindow <- WindowTwo
  Retention = 4
INVARIANTS
  WindowIsExact
  ReturningClientIsAdmitted
  NoEarlierAdmission
