------------------------------ MODULE StorageJobs ------------------------------
(***************************************************************************)
(* The background work of storage_management.py: export jobs of a mission  *)
(* and backups of the database.  Either runs in a thread, in steps of one  *)
(* transaction or one access to a file, while the database changes and the *)
(* mission may be deleted and come back.                                   *)
(*                                                                         *)
(* What the database holds is a version number, and a file is named by     *)
(* what wrote it: an export by its job, a backup by its second and label.  *)
(***************************************************************************)
EXTENDS Integers, Sequences

CONSTANTS
    Jobs,        \* export jobs
    Backups,     \* backups
    Names,       \* file names of backups: a second and a label
    MaxVersion,  \* bound on the changes of the database
    Operations,  \* "fail": accesses fail; "crash": the backend dies
    None

ASSUME StorageAssumption ==
    /\ MaxVersion \in Nat /\ Operations \subseteq {"fail", "crash"}
    /\ Jobs \cap (Backups \cup Names) = {}
    /\ None \notin Backups \cup Names \cup {"QUEUED", "RUNNING", "COMPLETED", "FAILED"}
    /\ None \notin [content : Seq(Nat), whole : BOOLEAN]

VARIABLES
    mission, \* whether the mission of the exports exists
    version, \* what the database holds
    jobs,    \* jobs[j] = state of its row, or None
    backups, \* backups[b] = [state, name, digest] of its row
    files,   \* files[f] = what a file holds, or None
    work,    \* work[w] = what the thread of a job or backup is at
    copied   \* history: copied[n] = the backup that wrote file n last

vars == <<mission, version, jobs, backups, files, work, copied>>

-----------------------------------------------------------------------------
Workers == Jobs \cup Backups
Formats == {"package", "single"}
Unsettled == {"QUEUED", "RUNNING"}
Settled == {"COMPLETED", "FAILED"}

(* What was read of the database; a file is whole when its write is over.  *)
File(content) == [content |-> content, whole |-> TRUE]
Partial == [content |-> <<>>, whole |-> FALSE]

Idle == [step |-> "idle", format |-> None, content |-> <<>>]
At(w, step) == work[w].step = step
Goto(w, step) == work' = [work EXCEPT ![w].step = step]
SetJob(j, state) == jobs' = [jobs EXCEPT ![j] = state]

(* create_export_job; its last read may fail, and then no thread starts.   *)
Request(j) ==
    /\ jobs[j] = None /\ mission
    /\ SetJob(j, "QUEUED")
    /\ \/ \E format \in Formats :
            work' = [work EXCEPT ![j] = [Idle EXCEPT !.step = "queued", !.format = format]]
       \/ "fail" \in Operations /\ UNCHANGED work
    /\ UNCHANGED <<mission, version, backups, files, copied>>

(* Mutant of MarkRunning: the row stays QUEUED.                            *)
MarkRunningNever(j) ==
    /\ At(j, "queued") /\ Goto(j, "find")
    /\ UNCHANGED <<mission, version, jobs, backups, files, copied>>
MarkRunning(j) ==
    /\ At(j, "queued") /\ Goto(j, "find")
    /\ SetJob(j, "RUNNING")
    /\ UNCHANGED <<mission, version, backups, files, copied>>

(* The exception handler of _run_export_job; when its UPDATE fails too,    *)
(* the thread ends and leaves the row as it is.                            *)
Fail(j) ==
    /\ \/ SetJob(j, "FAILED")
       \/ "fail" \in Operations /\ UNCHANGED jobs
    /\ work' = [work EXCEPT ![j] = Idle]
    /\ UNCHANGED <<mission, version, backups, files, copied>>

(* build_export_content finds the mission, and reads its tables.           *)
FindMission(j) ==
    /\ At(j, "find")
    /\ IF mission
         THEN /\ Goto(j, "read")
              /\ UNCHANGED <<mission, version, jobs, backups, files, copied>>
         ELSE Fail(j)

(* A package finds its mission again, and reads again what goes into it as *)
(* CSV and as JSON lines.                                                  *)
ReadTables(j) ==
    LET task == work[j] content == Append(task.content, version) IN
    /\ At(j, "read")
    /\ work' = [work EXCEPT ![j].content = content,
                            ![j].step = IF task.format = "package" /\ Len(content) = 1
                                          THEN "find" ELSE "write"]
    /\ UNCHANGED <<mission, version, jobs, backups, files, copied>>

OpenFile(j) ==
    /\ At(j, "write") /\ Goto(j, "writing")
    /\ files' = [files EXCEPT ![j] = Partial]
    /\ UNCHANGED <<mission, version, jobs, backups, copied>>

(* Mutant of WriteFile: the row is completed before the file is.           *)
WriteLate(j) ==
    /\ \/ At(j, "writing") /\ SetJob(j, "COMPLETED") /\ Goto(j, "late") /\ UNCHANGED files
       \/ /\ At(j, "late") /\ Goto(j, "written") /\ UNCHANGED jobs
          /\ files' = [files EXCEPT ![j] = File(work[j].content)]
    /\ UNCHANGED <<mission, version, backups, copied>>
WriteFile(j) ==
    /\ At(j, "writing") /\ Goto(j, "written")
    /\ files' = [files EXCEPT ![j] = File(work[j].content)]
    /\ UNCHANGED <<mission, version, jobs, backups, copied>>

(* complete_export_job ends with a read; when that one fails, so does the  *)
(* job.                                                                    *)
CompleteJob(j) ==
    /\ At(j, "written") /\ Goto(j, "completed")
    /\ SetJob(j, "COMPLETED")
    /\ UNCHANGED <<mission, version, backups, files, copied>>
EndJob(j) ==
    /\ At(j, "completed")
    /\ work' = [work EXCEPT ![j] = Idle]
    /\ UNCHANGED <<mission, version, jobs, backups, files, copied>>

FailJob(j) ==
    /\ "fail" \in Operations
    /\ work[j].step \in {"queued", "find", "read", "write", "writing", "written", "completed"}
    /\ Fail(j)

-----------------------------------------------------------------------------
NoBackup == [state |-> None, name |-> None, digest |-> None]

StartBackup(b) ==
    /\ backups[b] = NoBackup
    /\ \E n \in Names :
         backups' = [backups EXCEPT ![b] = [NoBackup EXCEPT !.state = "RUNNING", !.name = n]]
    /\ work' = [work EXCEPT ![b].step = "copy"]
    /\ UNCHANGED <<mission, version, jobs, files, copied>>

OpenCopy(b) ==
    /\ At(b, "copy") /\ Goto(b, "copying")
    /\ files' = [files EXCEPT ![backups[b].name] = Partial]
    /\ copied' = [copied EXCEPT ![backups[b].name] = b]
    /\ UNCHANGED <<mission, version, jobs, backups>>

(* SQLite's backup copies one version of the database.                     *)
CopyDatabase(b) ==
    /\ At(b, "copying") /\ Goto(b, "copied")
    /\ files' = [files EXCEPT ![backups[b].name] = File(<<version>>)]
    /\ copied' = [copied EXCEPT ![backups[b].name] = b]
    /\ UNCHANGED <<mission, version, jobs, backups>>

(* Mutant of Digest: that of the database, not of its copy.                *)
DigestSource(b) == File(<<version>>)
Digest(b) == files[backups[b].name]

HashCopy(b) ==
    /\ At(b, "copied")
    /\ work' = [work EXCEPT ![b].step = "hashed", ![b].content = Digest(b)]
    /\ UNCHANGED <<mission, version, jobs, backups, files, copied>>

CompleteBackup(b) ==
    /\ At(b, "hashed")
    /\ backups' = [backups EXCEPT ![b].state = "COMPLETED", ![b].digest = work[b].content]
    /\ work' = [work EXCEPT ![b] = Idle]
    /\ UNCHANGED <<mission, version, jobs, files, copied>>

(* The exception handler of create_backup, or its UPDATE fails as well.    *)
FailBackup(b) ==
    /\ "fail" \in Operations /\ ~At(b, "idle")
    /\ \/ backups' = [backups EXCEPT ![b].state = "FAILED"]
       \/ UNCHANGED backups
    /\ work' = [work EXCEPT ![b] = Idle]
    /\ UNCHANGED <<mission, version, jobs, files, copied>>

-----------------------------------------------------------------------------
(* The rest of the backend: messages are stored, cleanup removes some, the *)
(* mission is deleted and a late message brings it back.                   *)
Change ==
    /\ version < MaxVersion /\ version' = version + 1
    /\ mission' \in BOOLEAN
    /\ UNCHANGED <<jobs, backups, files, work, copied>>

(* Threads end with the process; at its start nobody looks for their rows. *)
Crash ==
    /\ "crash" \in Operations
    /\ work' = [w \in Workers |-> Idle]
    /\ UNCHANGED <<mission, version, jobs, backups, files, copied>>

Init ==
    /\ mission = TRUE /\ version = 0
    /\ jobs = [j \in Jobs |-> None] /\ backups = [b \in Backups |-> NoBackup]
    /\ files = [f \in Jobs \cup Names |-> None]
    /\ work = [w \in Workers |-> Idle]
    /\ copied = [n \in Names |-> None]

RunExportJob(j) ==
    \/ MarkRunning(j) \/ FindMission(j) \/ ReadTables(j) \/ OpenFile(j)
    \/ WriteFile(j) \/ CompleteJob(j) \/ EndJob(j)
CreateBackup(b) ==
    \/ OpenCopy(b) \/ CopyDatabase(b) \/ HashCopy(b) \/ CompleteBackup(b)

Next ==
    \/ \E j \in Jobs : Request(j) \/ RunExportJob(j) \/ FailJob(j)
    \/ \E b \in Backups : StartBackup(b) \/ CreateBackup(b) \/ FailBackup(b)
    \/ Change
    \/ Crash

Spec == Init /\ [][Next]_vars

(* The threads of the pool run on.                                         *)
Fairness ==
    /\ \A j \in Jobs : WF_vars(RunExportJob(j))
    /\ \A b \in Backups : WF_vars(CreateBackup(b))
FairSpec == Spec /\ Fairness

-----------------------------------------------------------------------------
Contents == {c \in Seq(0..MaxVersion) : Len(c) <= 2}
FileType == [content : Contents, whole : BOOLEAN]

(* Rows, files and threads have their types, and a row is RUNNING while    *)
(* its thread works on it.                                                 *)
TypeOK ==
    /\ mission \in BOOLEAN /\ version \in 0..MaxVersion
    /\ \A j \in Jobs :
         /\ jobs[j] \in Unsettled \cup Settled \cup {None}
         /\ At(j, "queued") => jobs[j] = "QUEUED"
         /\ work[j].step \in {"find", "read", "write", "writing", "written"}
              => jobs[j] = "RUNNING"
         /\ At(j, "completed") => jobs[j] = "COMPLETED"
         /\ work[j].content \in Contents
    /\ \A b \in Backups :
         /\ backups[b].state \in {"RUNNING", None} \cup Settled
         /\ ~At(b, "idle") => backups[b].state = "RUNNING"
         /\ backups[b].digest \in FileType \cup {None}
    /\ \A f \in Jobs \cup Names : files[f] \in FileType \cup {None}
    /\ copied \in [Names -> Backups \cup {None}]

(* What can be downloaded is whole: the file of a COMPLETED job has all    *)
(* its job has read, whatever failed or died around it.                    *)
DownloadsWhole ==
    \A j \in Jobs : jobs[j] = "COMPLETED" =>
      files[j] # None /\ files[j].whole /\ files[j].content # <<>>

(* The backup that wrote a file last, when it is COMPLETED, has the digest *)
(* of what the file holds.                                                 *)
LastCopyMatches ==
    \A n \in Names : copied[n] # None =>
      (backups[copied[n]].state = "COMPLETED" =>
         backups[copied[n]].digest = files[n] /\ files[n].whole)

(* Not kept: a backup of the same second and label wrote over the file.    *)
EveryCopyMatches ==
    \A b \in Backups : backups[b].state = "COMPLETED" =>
      backups[b].digest = files[backups[b].name]

(* Not kept: a package reads its tables twice, in transactions of their    *)
(* own.                                                                    *)
PackageConsistent ==
    \A j \in Jobs : jobs[j] = "COMPLETED" /\ Len(files[j].content) = 2 =>
      files[j].content[1] = files[j].content[2]

(* Not kept: the read that ends complete_export_job fails.                 *)
CompletedStays ==
    [][\A j \in Jobs : jobs[j] = "COMPLETED" => jobs'[j] = "COMPLETED"]_vars

(* Not kept: a job or backup that is accepted comes to COMPLETED or        *)
(* FAILED.  Its thread dies with the process, is never started, or cannot  *)
(* record that it failed, and nobody looks for the row.                    *)
RowsSettle ==
    /\ \A j \in Jobs : (jobs[j] \in Unsettled) ~> (jobs[j] \in Settled)
    /\ \A b \in Backups : (backups[b].state = "RUNNING") ~> (backups[b].state \in Settled)
=============================================================================
