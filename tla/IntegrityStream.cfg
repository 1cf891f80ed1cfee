SPECIFICATION Spec
CONSTANTS
  i1 = i1  i2 = i2  i3 = i3  t1 = t1  t2 = t2
  None = None
  Ids <- ThreeIds
  Numbers = {1, 2, 3}
  Latencies <- Timings
  Rates <- RateUnknown
  Tasks <- TwoTasks
  Operations <- Quiet
  MaxTime = 1
  MaxSkew = 1200
  FutureWarning = 8
  WarningLatency = 2
  ClockDrift = 2
  RateWindow = 40
SYMMETRY Symmetry
INVARIANTS GapsAnnounced DisorderRecorded 
PROPERTIES RecurrenceAlerted
CHECK_DEADLOCK FALSE
