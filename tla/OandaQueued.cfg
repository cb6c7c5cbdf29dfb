SPECIFICATION OandaFairSpec
CONSTANTS
  MaxJobs = 2
  QueueLimit = 2
  MaxFaults = 0
CHECK_DEADLOCK FALSE
PROPERTIES
  QueuedIsServed
