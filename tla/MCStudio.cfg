CONSTANTS
  Parts = {"destinations", "copies", "delivery", "workSlugs", "collectionSlugs", "editing", "sharing", "processing", "feed", "digests", "replies", "inbox", "owners", "joining", "transfers", "addresses", "nesting", "asking", "building", "serving",
           "tumblr", "discord", "formatting", "planning", "overlapping", "reconnecting", "uploads", "showing", "exporting", "restoring", "importing", "colliding", "federation"}
  Hands = {w1, w2}
  none = none
SPECIFICATION Spec
SYMMETRY Alike
INVARIANTS TypeOK
PROPERTIES SyndicationSafe LibrarySafe PeopleSafe SitesSafe HistorySafe
CHECK_DEADLOCK FALSE
