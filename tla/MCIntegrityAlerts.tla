-------------------------- MODULE MCIntegrityAlerts --------------------------
(* Instances of IntegrityAlerts for TLC.  Time is in units of 250 ms: the  *)
(* code's defaults are 2000 ms for future timestamps, 500 ms for latency   *)
(* and drift, 300 s for the live window and 10 s for the rate window.      *)
EXTENDS IntegrityAlerts, TLC

CONSTANTS i1, i2, i3, t1, t2

ThreeIds == {i1, i2, i3}
TwoIds == {i1, i2}
TwoTasks == {t1, t2}

Timings == {-8, -1, 0, 2, 5000}
SomeTimings == {0, 2}
RateUnknown == {"unknown"}
LowRate == {"healthy", "LOW_SAMPLING_RATE"}

Quiet == {}
OperatorAndCrashes == {"operator", "crash"}

Symmetry == Permutations(ThreeIds) \cup Permutations(TwoTasks)
=============================================================================
