CONSTANTS
  Checkouts = {"c"}
  Workers = {w1, w2}
  Refunds = {"r"}
  PaidMinor = 2
  Nobody = Nobody
  MaxNotices = 2
  MaxFaults = 0
SPECIFICATION Spec
SYMMETRY Symmetric
INVARIANTS
  TypeOK
  AccessWasPaid
  RefundEndsAccess
  RefundsAreReal
PROPERTIES
  PaymentForward
  RevokedForGood
CHECK_DEADLOCK FALSE
