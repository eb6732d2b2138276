CONSTANTS
  Cells = {"a", "b"}
  Home = "a"
  Migrations = {1}
  NoCheckpoint = NoCheckpoint
  Workers = {"w1"}
  Window = 1
  MaxTime = 2
  MaxWrites = 1
SPECIFICATION AnySpec
INVARIANT HomeHasContent
