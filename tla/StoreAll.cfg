SPECIFICATION Spec
CONSTANTS
  v1 = v1  v2 = v2  s1 = s1  m1 = m1  i1 = i1
  t1 = t1  t2 = t2  h1 = h1
  None = None
  Vehicles <- VehicleSet
  Sensors <- SensorSet
  Missions <- MissionSet
  Ids <- OneId
  Tasks <- TwoTasks
  Threads <- OneThread
  Operations <- BusyOps
SYMMETRY Symmetries
INVARIANTS RowsFiled
PROPERTIES TerminalStays ImplementsLifecycle
CHECK_DEADLOCK TRUE
