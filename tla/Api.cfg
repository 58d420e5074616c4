CONSTANTS
  Undefined = Undefined
  NoAsk = NoAsk
  Reqs = {"r1", "r2", "r3"}
  Asks <- MCAllAsks
  Seven = Seven
  OddIds <- MCOddIds
  Now = 1
  Capacity = 3
  AuditActions <- MCActions
  AuditActors = {"u", "anonymous"}
  AuditResources = {"g"}
  AuditMetadata = {"m", "r1", "r2", "r3"}
  AuditTimes = {1, 2}
  Inputs <- MCInputs
  Filters <- MCFilters
  MaxRecorded = 5
SPECIFICATION MCSpec
CHECK_DEADLOCK FALSE
INVARIANTS RowsKept RoutedToOneHandler AuditTrustworthy
PROPERTIES ImplementsBoundedLog EveryRequestAnswered
