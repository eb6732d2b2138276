CONSTANTS
  Ids = {1, 2}
  Requests <- OneKey
  NoRequest = NoRequest
  Workers = {"w1", "w2"}
  NoLease = NoLease
  CellOf <- SameCell
  TypesOf <- OnlyT
  MaxAttempts = 2
  LeaseDuration = 2
  Delays = {0}
  MaxPause = 1
  MaxTime = 2
  MaxRecoveries = 1
SPECIFICATION LiveSpec
INVARIANTS
  TypeOK
  LiveLeaseKept
  LiveLeasesDisjoint
  AttemptsBounded
  CompletedOnce
  EnqueueIdempotent
PROPERTIES
  NeverRevived
  ImplementsLifecycle
  JobsSettle
