SPECIFICATION Spec
CONSTANTS
  r1 = r1  r2 = r2  v1 = v1  None = None
  Runs <- TwoRuns
  Vehicles <- OneVehicle
  Continuous <- NoRun
  Operations <- Restarts
SYMMETRY RunSymmetry
INVARIANTS JudgedIsGone
CHECK_DEADLOCK FALSE
