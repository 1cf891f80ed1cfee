SPECIFICATION FairSpec
CONSTANTS
  v1 = v1  v2 = v2  s1 = s1  m1 = m1  i1 = i1
  t1 = t1  t2 = t2  h1 = h1
  None = None
  Vehicles <- VehicleSet
  Sensors <- SensorSet
  Missions <- MissionSet
  Ids <- OneId
  Tasks <- TwoTasks
  Threads <- OneThread
  Operations <- RetryOps
PROPERTIES HandlersEnd
CHECK_DEADLOCK TRUE
