CONSTANTS
  Generations = 2
  Publishers = {w1, w2}
  Subjects = {s1}
  NoSubject = none
  MaxHolds = 0
  MaxHostingFaults = 1
  MaxTries = 2
SPECIFICATION HostingSpec
INVARIANT LockCanBeResolved
CHECK_DEADLOCK FALSE
