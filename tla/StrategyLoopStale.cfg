SPECIFICATION Spec
CONSTANTS
  MaxTickAge = 1
  Weights <- MCWeights
  WeightUnit = 5
  LatencyBuffer = 1
  MinProfitMargin = 1
  ThresholdFloor = 2
  MaxOpenLots = 1
  MaxDailyLoss = 5
  MaxOrdersPerInterval = 2
  IntervalSeconds = 1
  MsPerSecond = 2
  Epoch = 100
  MaxTime = 3
  MaxMessages = 4
  Prices = {10, 13}
  Quotes <- MCQuotes
  RingCapacity = 2
INVARIANTS
  StaleTicksAreNeverUsed
