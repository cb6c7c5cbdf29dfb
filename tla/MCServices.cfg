SPECIFICATION ServicesSpec
CONSTANTS
  MaxJobs = 2
  QueueLimit = 2
  MaxFaults = 2
  LineSize <- MCLineSize
  SmallRegion = 2
  DefaultRegion = 1
  BigRegion = 5
  MaxFailures = 2
  Markers = {t1, t2}
  RingSlots = 2
  MaxMarks = 3
  LatencyBuffer = 0
  MinProfitMargin = 1
  ThresholdFloor = 1
  MaxOpenLots = 2
  MaxDailyLoss = 6
  MaxOrdersPerInterval = 100
  IntervalSeconds = 0
  MsPerSecond = 2
  Params <- MCParams
  LeadMids = {3, 9}
  Quotes <- MCQuotes
  Gaps = {0, 2}
  Capital = 10
  MaxTicks = 6
CHECK_DEADLOCK FALSE
INVARIANTS
  RequestsInOrder
  OkNeedsAnEvent
  LinesAccounted
  MarksAccounted
  OrdersAccounted
  EquityAccounted
  FillsAfterDelay
PROPERTIES
  AcceptedIsServed
  StopCompletes
  QueueDrains
