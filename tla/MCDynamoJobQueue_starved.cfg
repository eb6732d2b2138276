CONSTANTS
  Ids = {1, 2}
  Requests <- TwoKeys
  NoRequest = NoRequest
  Workers = {"w1"}
  NoLease = NoLease
  CellOf <- SameCell
  TypesOf <- AllTypes
  MaxAttempts = 1
  LeaseDuration = 1
  Delays = {0}
  IdOf <- ByKey
  PageLimit = 1
  MaxTime = 2
  MaxRevision = 2
  MaxRecoveries = 0
SPECIFICATION LiveSpec
PROPERTY JobsSettle
