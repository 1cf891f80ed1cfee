SPECIFICATION Spec
CONSTANTS
    None = None
    t1 = t1
    t2 = t2
    o1 = o1
    c1 = c1
    c2 = c2
    Obstacles <- OneObstacle
    Constraints <- TwoConstraints
    Tasks <- TwoTasks
    Assessments <- Grounds
    SafetyRadius <- OneMetre
    MaxFrames = 3
    Operations <- Disturbances
SYMMETRY TaskSymmetry
INVARIANTS TypeOK ActiveIsLatest RiskAnnounced ClassifiersAgree NothingLeft
