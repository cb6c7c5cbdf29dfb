SPECIFICATION MarketDataSpec
CONSTANTS
  Words = {lo, hi}
  Capacity = 4
  MaxPush = 10
  BaseDelay = 2
  MaxDelay = 3
  MaxFaults = 2
  MaxTickAge = 1
  Weights <- MCWeights
  WeightUnit = 5
  LatencyBuffer = 1
  MinProfitMargin = 1
  ThresholdFloor = 2
  MaxOpenLots = 1
  MaxDailyLoss = 5
  MaxOrdersPerInterval = 2
  IntervalSeconds = 1
  MsPerSecond = 2
  Epoch = 100
  MaxTime = 3
  MaxMessages = 4
  Prices = {10, 13}
  Quotes <- MCQuotes
  RingCapacity = 2
CHECK_DEADLOCK FALSE
INVARIANTS
  BacklogIsNewest
  WholeAndInOrder
  LosslessUntilLapped
  ChainsAccounted
  CooldownBetweenSignals
  LeadWithinVenues
PROPERTIES
  ImplementsFrameQueue
  BacklogDrains
  StopCompletes
