SPECIFICATION FeedFairSpec
CONSTANTS
  BaseDelay = 2
  MaxDelay = 3
  MaxFaults = 0
CHECK_DEADLOCK FALSE
INVARIANTS
  StopEndsTheLoop
