SPECIFICATION FairSpec
CONSTANTS
  Kinds = {"gb", "n64", "mobile"}
  MaxSession = 2
  MaxSnapshot = 3
  MaxFaults = 2
  Others = TRUE
  Overlaps = FALSE
INVARIANTS NothingIsLost
PROPERTIES NextGameStartsFromTheLast OutboxDrains
CHECK_DEADLOCK FALSE
