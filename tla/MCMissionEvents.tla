---------------------------- MODULE MCMissionEvents ----------------------------
(* Instances of MissionEvents for TLC.                                     *)
EXTENDS MissionEvents, TLC

CONSTANTS m1, v1, v2, e1, h1, h2

TwoThreads == {h1, h2}
OneEvent == {e1}
TwoVehicles == {v1, v2}

Symmetries == Permutations(TwoVehicles) \cup Permutations(TwoThreads)
=============================================================================
