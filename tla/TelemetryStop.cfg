SPECIFICATION TelemetrySpec
CONSTANTS
  LineSize <- MCLineSize
  SmallRegion = 2
  DefaultRegion = 1
  BigRegion = 5
  MaxFailures = 0
  Markers = {t1, t2}
  RingSlots = 2
  MaxMarks = 3
CHECK_DEADLOCK FALSE
PROPERTIES
  StopReturns
