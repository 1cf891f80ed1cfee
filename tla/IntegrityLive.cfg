SPECIFICATION FairSpec
CONSTANTS
  i1 = i1  i2 = i2  i3 = i3  t1 = t1  t2 = t2
  None = None
  Ids <- TwoIds
  Numbers = {1}
  Latencies <- SomeTimings
  Rates <- LowRate
  Tasks <- TwoTasks
  Operations <- OperatorAndCrashes
  MaxTime = 0
  MaxSkew = 1200
  FutureWarning = 8
  WarningLatency = 2
  ClockDrift = 2
  RateWindow = 40
INVARIANTS OneActiveAlert EventsCounted
PROPERTIES ResolvedStays AlertsRecover
CHECK_DEADLOCK FALSE
