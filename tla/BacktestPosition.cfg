SPECIFICATION ReplaySpec
CONSTANTS
  LatencyBuffer = 0
  MinProfitMargin = 1
  ThresholdFloor = 1
  MaxOpenLots = 2
  MaxDailyLoss = 6
  MaxOrdersPerInterval = 100
  IntervalSeconds = 0
  MsPerSecond = 2
  Params <- MCParams
  LeadMids = {3, 9}
  Quotes <- MCQuotes
  Gaps = {0, 2}
  Capital = 10
  MaxTicks = 6
CHECK_DEADLOCK FALSE
INVARIANTS
  FullPositionAccounted
