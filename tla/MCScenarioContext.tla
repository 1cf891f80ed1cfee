-------------------------- MODULE MCScenarioContext --------------------------
(* Instances of ScenarioContext for TLC.                                   *)
EXTENDS ScenarioContext, TLC

CONSTANTS t1, t2, i1, i2, m1, own, shipped

TwoTasks == {t1, t2}
TwoTables == <<i1, i2>>
OneTable == <<i1>>
FirstTable == {i1}
OneMission == {m1}
TwoProfiles == {own, shipped}
OneShipped == {shipped}
TaskOrder == Permutations(TwoTasks)
=============================================================================
