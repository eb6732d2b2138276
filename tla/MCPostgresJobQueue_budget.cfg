CONSTANTS
  Ids = {1, 2}
  Requests <- OneRequest
  NoRequest = NoRequest
  Workers = {"w1", "w2"}
  NoLease = NoLease
  CellOf <- SameCell
  TypesOf <- AllTypes
  MaxAttempts = 2
  LeaseDuration = 2
  Delays = {0, 1}
  MaxPause = 1
  MaxTime = 6
  MaxLeases = 4
  MaxRecoveries = 1
SPECIFICATION MCSpec
INVARIANT AttemptsBounded
