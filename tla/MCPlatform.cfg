CONSTANTS
  Parts = {"postgres", "migration", "races", "single", "retiring", "website", "held", "recovery", "inventory", "import", "roles", "collection",
           "signIn", "claims", "downloads", "storage", "paypal", "replacing",
           "flickr", "flickrWhole", "flickrAlbums", "originals", "retried", "overlapped"}
  Hands = {w1, w2}
  none = none
  runner = runner
  Publications = 2
  HoldsPlaced = 0
  HostingFaults = 0
  Tries = 2
  Scans = {"scan"}
  Drift = TRUE
SPECIFICATION Spec
SYMMETRY Alike
INVARIANTS
  TypeOK
  HomeKeepsUp
PROPERTIES
  MigrationSafe
  PostgresSafe
  WebsiteSafe
  ImportSafe
  AccessSafe
CHECK_DEADLOCK FALSE
