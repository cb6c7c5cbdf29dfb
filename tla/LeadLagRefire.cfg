SPECIFICATION LeadLagSpec
CONSTANTS
  Workers = {w1}
  MaxOpenPositions = 1
  DryRun = FALSE
  ReconnectBase = 2
  ReconnectMax = 3
  MaxSignals = 1
  MaxFailures = 0
INVARIANTS
  NoRefire
CHECK_DEADLOCK FALSE
