------------------------- MODULE MCAcquisitionStore -------------------------
(* Instances of AcquisitionStore for TLC.  Each configuration picks the    *)
(* operations that interact in the question it asks.                       *)
EXTENDS AcquisitionStore, TLC

CONSTANTS v1, v2, s1, m1, i1, t1, t2, h1

VehicleSet == {v1, v2}
SensorSet == {s1}
MissionSet == {m1}
OneId == {i1}
OneTask == {t1}
TwoTasks == {t1, t2}
OneThread == {h1}

(* create_sensor, the second handler of two transactions, doubles the      *)
(* states of the large instance; the instance for liveness has it.         *)
BusyOps == AllOperations \ {"createSensor"}
RetryOps == {"telemetry", "raw", "createSensor", "createMission", "deleteMission"}

(* Vehicles are alike, and so are coroutines.                              *)
Symmetries == Permutations(VehicleSet) \cup Permutations(TwoTasks)
=============================================================================
