SPECIFICATION OrderPathSpec
CONSTANTS
  MaxSignals = 2
  FixEnabled = TRUE
  MaxFixFaults = 1
  MaxFrames = 4
  Malformed = {2}
  PipeLimit = 2
  MaxStarts = 3
  MaxJobs = 3
  QueueLimit = 2
  MaxFaults = 3
CHECK_DEADLOCK FALSE
INVARIANTS
  SignalsConserved
  FixOrdersAccounted
  FramesAccounted
  ListensUnlessSetupFailed
  PostsInOrder
  ReportsAreTruthful
PROPERTIES
  StopOrderClosesPath
  ShutdownCompletes
  SubmittedIsSent
  BridgeStopCompletes
  OandaStopCompletes
