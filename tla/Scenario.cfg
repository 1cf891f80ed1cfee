SPECIFICATION Spec
CONSTANTS
    None = None
    t1 = t1
    t2 = t2
    i1 = i1
    i2 = i2
    m1 = m1
    own = own
    shipped = shipped
    Profiles <- TwoProfiles
    Shipped <- OneShipped
    Tasks <- TwoTasks
    Tables <- OneTable
    Applicable <- FirstTable
    Missions <- OneMission
    MaxVersion = 3
INVARIANTS TypeOK FileFollows AloneIsExact RunsHaveProfiles
PROPERTIES SnapshotStays
SYMMETRY TaskOrder
