--------------------------- MODULE MCSimulationRuns ---------------------------
(* Instances of SimulationRuns for TLC.                                    *)
EXTENDS SimulationRuns, TLC

CONSTANTS r1, r2, v1

TwoRuns == {r1, r2}
OneVehicle == {v1}
NoRun == {}
SecondRun == {r2}

Quiet == {}
Disturbed == {"operator", "delete", "kill"}
Restarts == {"restart"}

RunSymmetry == Permutations(TwoRuns)
=============================================================================
