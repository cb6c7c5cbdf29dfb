SPECIFICATION RingFairSpec
CONSTANTS
  Words = {lo, hi}
  Capacity = 4
  MaxPush = 10
CHECK_DEADLOCK FALSE
PROPERTIES
  DropsOnlyTheOldest
