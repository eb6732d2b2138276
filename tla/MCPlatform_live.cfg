CONSTANTS
  Parts = {"moving", "website", "inventory", "import", "roles"}
  Hands = {w1}
  none = none
  runner = runner
  Publications = 1
  HoldsPlaced = 1
  HostingFaults = 1
  Tries = 3
  Scans = {}
  Drift = TRUE
SPECIFICATION LiveSpec
PROPERTIES
  Settles
CHECK_DEADLOCK FALSE
