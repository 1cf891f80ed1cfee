---------------------------- MODULE MCStorageJobs ----------------------------
(* Instances of StorageJobs for TLC.                                       *)
EXTENDS StorageJobs

CONSTANTS j1, b1, b2, n1

OneJob == {j1}
TwoBackups == {b1, b2}
OneName == {n1}
FailuresAndCrashes == {"fail", "crash"}
=============================================================================
