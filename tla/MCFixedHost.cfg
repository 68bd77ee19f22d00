SPECIFICATION FairSpec
CONSTANTS
  Policies = {"commit_pair", "discard"}
  MaxFaults = 2
INVARIANTS SavedForBoth ReconnectInStep
PROPERTIES GameEndsTogether
CHECK_DEADLOCK FALSE
