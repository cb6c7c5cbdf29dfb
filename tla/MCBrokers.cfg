SPECIFICATION BrokersSpec
CONSTANTS
  MaxJobs = 2
  QueueLimit = 1
  MaxFaults = 1
  MaxAdmin = 1
  MaxInbox = 1
  Workers = {w1}
  MaxOpenPositions = 1
  DryRun = FALSE
  ReconnectBase = 2
  ReconnectMax = 3
  MaxSignals = 2
  MaxFailures = 1
CHECK_DEADLOCK FALSE
INVARIANTS
  ReportedOnce
  PositionsAccounted
  NothingLost
PROPERTIES
  WireInOrder
  AcceptedIsWritten
  StopCompletes
  LeadLagShutdown
