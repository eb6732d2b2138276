CONSTANTS
  Checkouts = {"c"}
  Workers = {"w1", "w2"}
  Refunds = {}
  PaidMinor = 1
  Nobody = Nobody
  MaxNotices = 0
  MaxFaults = 1
SPECIFICATION LiveSpec
PROPERTIES
  OneProviderOrder
  PaymentSettles
  RefundArrives
CHECK_DEADLOCK FALSE
