SPECIFICATION FairSpec
CONSTANTS
  r1 = r1  r2 = r2  v1 = v1  None = None
  Runs <- TwoRuns
  Vehicles <- OneVehicle
  Continuous <- SecondRun
  Operations <- Disturbed
INVARIANTS TerminalIsGone SettledRuns AskedIsNotCompleted
PROPERTIES RunsEnd
CHECK_DEADLOCK FALSE
