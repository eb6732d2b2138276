CONSTANTS
  Ids = {1}
  Requests <- OneKey
  NoRequest = NoRequest
  Workers = {"w1", "w2"}
  NoLease = NoLease
  CellOf <- SameCell
  TypesOf <- AllTypes
  MaxAttempts = 2
  LeaseDuration = 2
  Delays = {0}
  IdOf <- ByKey
  PageLimit = 1
  MaxTime = 2
  MaxRevision = 4
  MaxRecoveries = 1
SPECIFICATION LiveSpec
INVARIANTS
  DynamoTypeOK
  LiveLeaseKept
  LiveLeasesDisjoint
  AttemptsBounded
  CompletedOnce
PROPERTIES
  NeverRevived
  JobsSettle
