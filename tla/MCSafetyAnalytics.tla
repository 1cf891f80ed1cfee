-------------------------- MODULE MCSafetyAnalytics --------------------------
(* Instances of SafetyAnalytics for TLC.                                   *)
EXTENDS SafetyAnalytics, TLC

CONSTANTS t1, t2, o1, c1, c2

TwoTasks == {t1, t2}
OneObstacle == {o1}
TwoConstraints == {c1, c2}

(* With a safety radius of one metre: all but touched, which is rounded to *)
(* nothing; near and closing; not near and closing slowly.                 *)
OneMetre == Metre
Grazed == [clearance |-> 4, ttc |-> None]
Closing == [clearance |-> 6000000, ttc |-> 60000004]
Away == [clearance |-> 45000006, ttc |-> 70000000]

Grounds == {Grazed, Closing, Away}
Disturbances == {"delete", "crash", "fail"}
TaskSymmetry == Permutations(TwoTasks) \cup Permutations(TwoConstraints)
=============================================================================
