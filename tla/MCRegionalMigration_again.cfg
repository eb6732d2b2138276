CONSTANTS
  Cells = {"a", "b"}
  Home = "a"
  Migrations = {1, 2}
  NoCheckpoint = NoCheckpoint
  Workers = {"w1"}
  Window = 1
  MaxTime = 2
  MaxWrites = 3
SPECIFICATION CarefulSpec
INVARIANT HomeKept
