-------------------------- MODULE StorageJobsProofs --------------------------
(***************************************************************************)
(* Proofs about StorageJobs, for any jobs, backups and names, and any      *)
(* number of changes of the database.                                      *)
(*                                                                         *)
(* A job writes a file of its own, and a backup one it may share: what a   *)
(* backup knows of its file holds only while it is the one that has        *)
(* written the file last.                                                  *)
(***************************************************************************)
EXTENDS StorageJobs, TLAPS

TaskFields == {"step", "format", "content"}
RowFields == {"state", "name", "digest"}
JobSteps == {"idle", "queued", "find", "read", "write", "writing", "written", "completed"}
BackupSteps == {"idle", "copy", "copying", "copied", "hashed"}

Shapes ==
    /\ DOMAIN work = Workers /\ \A w \in Workers : DOMAIN work[w] = TaskFields
    /\ DOMAIN jobs = Jobs /\ DOMAIN files = Jobs \cup Names /\ DOMAIN copied = Names
    /\ DOMAIN backups = Backups /\ \A b \in Backups : DOMAIN backups[b] = RowFields
    /\ version \in Nat

Whole(f) == f # None /\ f.whole /\ f.content # <<>>

(* What the thread of a job has read and written so far.                   *)
Exported(j) ==
    /\ work[j].step \in JobSteps /\ work[j].content \in Seq(Nat)
    /\ work[j].step \in {"write", "writing"} => work[j].content # <<>>
    /\ work[j].step \in {"written", "completed"} => Whole(files[j])
    /\ jobs[j] = "COMPLETED" => Whole(files[j]) /\ work[j].step \in {"idle", "completed"}

(* A backup and the file it has named.                                     *)
Mine(b) == backups[b].name \in Names /\ copied[backups[b].name] = b
Copying(b) ==
    /\ work[b].step \in BackupSteps
    /\ work[b].step # "idle" => backups[b].state = "RUNNING" /\ backups[b].name \in Names
    /\ \A n \in Names : copied[n] = b => backups[b].name = n /\ backups[b].state # None
    /\ Mine(b) => /\ work[b].step \in {"copied", "hashed"} => files[backups[b].name].whole
                  /\ work[b].step = "hashed" => work[b].content = files[backups[b].name]
                  /\ backups[b].state = "COMPLETED" =>
                       /\ files[backups[b].name].whole
                       /\ backups[b].digest = files[backups[b].name]

Inv == /\ Shapes
       /\ \A j \in Jobs : Exported(j)
       /\ \A b \in Backups : Copying(b)
       /\ \A n \in Names : copied[n] \in Backups \cup {None}

-----------------------------------------------------------------------------
LEMMA Disjoint ==
    /\ \A j \in Jobs : j \notin Backups /\ j \notin Names
    /\ Workers = Jobs \cup Backups
    /\ None \notin Backups /\ None \notin Names /\ None # "RUNNING" /\ None # "COMPLETED"
    /\ None # "FAILED" /\ None # "QUEUED"
BY StorageAssumption DEF Workers

LEMMA FileFields ==
    \A c \in Seq(Nat) : File(c) # None /\ File(c).whole /\ File(c).content = c
<1> TAKE c \in Seq(Nat)
<1>1. File(c) \in [content : Seq(Nat), whole : BOOLEAN]
  BY DEF File
<1>2. File(c) # None
  BY <1>1, StorageAssumption
<1> QED BY <1>2 DEF File

LEMMA IdleFields == Idle.step = "idle" /\ Idle.content = <<>> /\ DOMAIN Idle = TaskFields
BY DEF Idle, TaskFields

LEMMA Appended == \A s \in Seq(Nat), v \in Nat : Append(s, v) \in Seq(Nat) /\ Append(s, v) # <<>>
<1> TAKE s \in Seq(Nat), v \in Nat
<1>1. Len(Append(s, v)) = Len(s) + 1 /\ Len(s) \in Nat /\ Append(s, v) \in Seq(Nat)
  OBVIOUS
<1>2. Len(<<>>) = 0
  OBVIOUS
<1> QED BY <1>1, <1>2

(* A step of the thread of a job; nothing of the backups changes.          *)
JobMoves(j, n) ==
    /\ DOMAIN work' = Workers /\ work'[j] = n /\ DOMAIN n = TaskFields
    /\ \A w \in Workers \ {j} : work'[w] = work[w]
    /\ UNCHANGED <<version, backups, copied>>
    /\ \A k \in Jobs \ {j} : jobs'[k] = jobs[k]
    /\ \A f \in (Jobs \cup Names) \ {j} : files'[f] = files[f]
    /\ DOMAIN jobs' = Jobs /\ DOMAIN files' = Jobs \cup Names

LEMMA JobKeeps ==
    ASSUME Inv, NEW j \in Jobs, NEW n, JobMoves(j, n), Exported(j)'
    PROVE  Inv'
<1>1. /\ DOMAIN work' = Workers /\ work'[j] = n
      /\ \A w \in Workers \ {j} : work'[w] = work[w]
  BY Disjoint DEF JobMoves, Inv, Shapes
<1>2. Shapes'
  BY <1>1 DEF JobMoves, Inv, Shapes
<1>3. \A k \in Jobs \ {j} : Exported(k)'
  BY <1>1, Disjoint DEF JobMoves, Inv, Exported
<1>4. ASSUME NEW b \in Backups PROVE Copying(b)'
  <2>1. work'[b] = work[b] /\ backups' = backups /\ copied' = copied
    BY <1>1, Disjoint DEF JobMoves
  <2>2. Mine(b) => files'[backups[b].name] = files[backups[b].name]
    BY Disjoint DEF JobMoves, Mine
  <2> QED BY <2>1, <2>2 DEF Inv, Copying, Mine
<1> QED BY <1>2, <1>3, <1>4 DEF Inv, JobMoves

(* The record of a thread whose step, or more of it, changes.              *)
LEMMA Going ==
    ASSUME Inv, NEW w \in Workers, NEW s, Goto(w, s)
    PROVE  /\ work' = [work EXCEPT ![w] = [work[w] EXCEPT !.step = s]]
           /\ DOMAIN [work[w] EXCEPT !.step = s] = TaskFields
           /\ [work[w] EXCEPT !.step = s].step = s
           /\ [work[w] EXCEPT !.step = s].content = work[w].content
BY DEF Inv, Shapes, Goto, TaskFields

(* A thread that goes on to another step, with what it leaves.             *)
LEMMA JobGoes ==
    ASSUME Inv, NEW j \in Jobs, NEW s, Goto(j, s),
           UNCHANGED <<version, backups, copied>>,
           jobs' = jobs \/ \E state : SetJob(j, state),
           files' = files \/ \E f : files' = [files EXCEPT ![j] = f],
           s \in JobSteps,
           s \in {"write", "writing"} => work[j].content # <<>>,
           s \in {"written", "completed"} => Whole(files'[j]),
           jobs'[j] = "COMPLETED" => Whole(files'[j]) /\ s = "completed"
    PROVE  Inv'
<1> DEFINE n == [work[j] EXCEPT !.step = s]
<1>1. /\ work' = [work EXCEPT ![j] = n] /\ DOMAIN n = TaskFields
      /\ n.step = s /\ n.content = work[j].content
  BY Going, Disjoint
<1> HIDE DEF n
<1>2. JobMoves(j, n)
  BY <1>1, Disjoint DEF JobMoves, SetJob, Inv, Shapes
<1>3. work'[j] = n
  BY <1>1, Disjoint DEF Inv, Shapes
<1>4. Exported(j)'
  BY <1>1, <1>3 DEF Inv, Exported
<1> QED BY <1>2, <1>4, JobKeeps

LEMMA FailKeeps ==
    ASSUME Inv, NEW j \in Jobs, Fail(j)
    PROVE  Inv'
<1>1. JobMoves(j, Idle)
  BY IdleFields, Disjoint DEF Fail, SetJob, JobMoves, Inv, Shapes
<1>2. work'[j] = Idle /\ jobs'[j] \in {jobs[j], "FAILED"} /\ UNCHANGED files
  BY Disjoint DEF Fail, SetJob, Inv, Shapes
<1>3. Exported(j)'
  <2>1. <<>> \in Seq(Nat)
    OBVIOUS
  <2> QED BY <1>2, <2>1, IdleFields DEF Inv, Exported, JobSteps
<1> QED BY <1>1, <1>3, JobKeeps

LEMMA RequestKeeps ==
    ASSUME Inv, NEW j \in Jobs, Request(j)
    PROVE  Inv'
<1>1. /\ jobs' = [jobs EXCEPT ![j] = "QUEUED"]
      /\ UNCHANGED <<version, backups, files, copied>>
  BY DEF Request, SetJob
<1>2. jobs'[j] = "QUEUED"
  BY <1>1 DEF Inv, Shapes
<1>3. CASE UNCHANGED work
  <2>2. JobMoves(j, work[j])
    BY <1>1, <1>3, Disjoint DEF JobMoves, Inv, Shapes
  <2>3. Exported(j)'
    BY <1>1, <1>2, <1>3 DEF Inv, Exported
  <2> QED BY <2>2, <2>3, JobKeeps
<1>4. ASSUME NEW format \in Formats,
             work' = [work EXCEPT ![j] = [Idle EXCEPT !.step = "queued", !.format = format]]
      PROVE  Inv'
  <2> DEFINE n == [Idle EXCEPT !.step = "queued", !.format = format]
  <2>1. DOMAIN n = TaskFields /\ n.step = "queued" /\ n.content = <<>>
    BY DEF Idle, TaskFields
  <2>2. work' = [work EXCEPT ![j] = n]
    BY <1>4
  <2> HIDE DEF n
  <2>3. JobMoves(j, n)
    BY <1>1, <2>1, <2>2, Disjoint DEF JobMoves, Inv, Shapes
  <2>4. work'[j] = n
    BY <2>2, Disjoint DEF Inv, Shapes
  <2>5. Exported(j)'
    <3>1. <<>> \in Seq(Nat) /\ "QUEUED" # "COMPLETED"
      OBVIOUS
    <3>2. work'[j].step = "queued" /\ work'[j].content \in Seq(Nat)
      BY <2>1, <2>4, <3>1
    <3> QED BY <1>2, <3>1, <3>2 DEF Exported, JobSteps
  <2> QED BY <2>3, <2>5, JobKeeps
<1> QED BY <1>3, <1>4 DEF Request

LEMMA ExportKeeps ==
    ASSUME Inv, NEW j \in Jobs, RunExportJob(j)
    PROVE  Inv'
<1>0. Exported(j)
  BY DEF Inv
<1>1. CASE MarkRunning(j)
  <2>1. jobs'[j] = "RUNNING"
    BY <1>1 DEF MarkRunning, SetJob, Inv, Shapes
  <2> QED BY <1>1, <2>1, JobGoes DEF MarkRunning, JobSteps
<1>2. CASE FindMission(j)
  <2>1. CASE mission
    BY <1>0, <1>2, <2>1, JobGoes DEF FindMission, At, Exported, JobSteps
  <2>2. CASE ~mission
    BY <1>2, <2>2, FailKeeps DEF FindMission
  <2> QED BY <2>1, <2>2
<1>3. CASE ReadTables(j)
  <2> DEFINE c == Append(work[j].content, version)
             s == IF work[j].format = "package" /\ Len(c) = 1 THEN "find" ELSE "write"
             n == [work[j] EXCEPT !.content = c, !.step = s]
  <2>1. c \in Seq(Nat) /\ c # <<>>
    BY <1>0, Appended DEF Exported, Inv, Shapes
  <2>2. s \in {"find", "write"}
    OBVIOUS
  <2>3. work' = [work EXCEPT ![j] = n]
    BY <1>3, Disjoint DEF ReadTables, Inv, Shapes
  <2> HIDE DEF c, s
  <2>4. DOMAIN n = TaskFields /\ n.step = s /\ n.content = c
    BY Disjoint DEF Inv, Shapes, TaskFields
  <2> HIDE DEF n
  <2>5. UNCHANGED <<version, jobs, backups, files, copied>> /\ At(j, "read")
    BY <1>3 DEF ReadTables
  <2>6. JobMoves(j, n)
    BY <2>3, <2>4, <2>5, Disjoint DEF JobMoves, Inv, Shapes
  <2>7. work'[j] = n
    BY <2>3, Disjoint DEF Inv, Shapes
  <2>8. Exported(j)'
    BY <1>0, <2>1, <2>2, <2>4, <2>5, <2>7 DEF Exported, JobSteps, At
  <2> QED BY <2>6, <2>8, JobKeeps
<1>4. CASE OpenFile(j)
  <2>1. jobs[j] # "COMPLETED" /\ work[j].content # <<>>
    BY <1>0, <1>4 DEF OpenFile, At, Exported
  <2> QED BY <1>4, <2>1, JobGoes DEF OpenFile, JobSteps
<1>5. CASE WriteFile(j)
  <2>1. jobs[j] # "COMPLETED" /\ work[j].content # <<>> /\ work[j].content \in Seq(Nat)
    BY <1>0, <1>5 DEF WriteFile, At, Exported
  <2>2. Whole(files'[j])
    BY <1>5, <2>1, FileFields DEF WriteFile, Whole, Inv, Shapes
  <2> QED BY <1>5, <2>1, <2>2, JobGoes DEF WriteFile, JobSteps
<1>6. CASE CompleteJob(j)
  <2>1. Whole(files[j]) /\ files' = files
    BY <1>0, <1>6 DEF CompleteJob, At, Exported
  <2> QED BY <1>6, <2>1, JobGoes DEF CompleteJob, JobSteps
<1>7. CASE EndJob(j)
  <2>1. JobMoves(j, Idle)
    BY <1>7, IdleFields, Disjoint DEF EndJob, JobMoves, Inv, Shapes
  <2>2. work'[j] = Idle /\ jobs' = jobs /\ files' = files
    BY <1>7, Disjoint DEF EndJob, Inv, Shapes
  <2>3. Exported(j)'
    BY <1>0, <2>2, IdleFields DEF Exported, JobSteps
  <2> QED BY <2>1, <2>3, JobKeeps
<1> QED BY <1>1, <1>2, <1>3, <1>4, <1>5, <1>6, <1>7 DEF RunExportJob

-----------------------------------------------------------------------------
(* A step of a backup: files it changes are those it is the last to write. *)
BackupMoves(b) ==
    /\ DOMAIN work' = Workers /\ DOMAIN work'[b] = TaskFields
    /\ \A w \in Workers \ {b} : work'[w] = work[w]
    /\ DOMAIN backups' = Backups /\ DOMAIN backups'[b] = RowFields
    /\ \A c \in Backups \ {b} : backups'[c] = backups[c]
    /\ UNCHANGED <<version, jobs>>
    /\ DOMAIN files' = Jobs \cup Names /\ \A j \in Jobs : files'[j] = files[j]
    /\ DOMAIN copied' = Names
    /\ \A n \in Names : \/ files'[n] = files[n] /\ copied'[n] = copied[n]
                        \/ copied'[n] = b

LEMMA BackupKeeps ==
    ASSUME Inv, NEW b \in Backups, BackupMoves(b), Copying(b)'
    PROVE  Inv'
<1>1. Shapes'
  BY Disjoint DEF BackupMoves, Inv, Shapes
<1>2. ASSUME NEW j \in Jobs PROVE Exported(j)'
  BY Disjoint DEF BackupMoves, Inv, Exported
<1>3. ASSUME NEW c \in Backups \ {b} PROVE Copying(c)'
  <2>1. work'[c] = work[c] /\ backups'[c] = backups[c] /\ Copying(c)
    BY Disjoint DEF BackupMoves, Inv
  <2>2. \A n \in Names : copied'[n] = c => copied[n] = c /\ files'[n] = files[n]
    BY DEF BackupMoves
  <2>3. Mine(c)' => Mine(c) /\ files'[backups[c].name] = files[backups[c].name]
    BY <2>1, <2>2 DEF Mine
  <2> QED BY <2>1, <2>2, <2>3 DEF Copying
<1>4. \A n \in Names : copied'[n] \in Backups \cup {None}
  BY DEF BackupMoves, Inv
<1> QED BY <1>1, <1>2, <1>3, <1>4 DEF Inv

LEMMA StartKeeps ==
    ASSUME Inv, NEW b \in Backups, StartBackup(b)
    PROVE  Inv'
<1>0. backups[b].state = None
  BY DEF StartBackup, NoBackup
<1>1. \A n \in Names : copied[n] # b
  BY <1>0 DEF Inv, Copying
<1>2. PICK n \in Names :
        backups' = [backups EXCEPT ![b] = [NoBackup EXCEPT !.state = "RUNNING", !.name = n]]
  BY DEF StartBackup
<1>3. /\ work' = [work EXCEPT ![b].step = "copy"]
      /\ UNCHANGED <<version, jobs, files, copied>>
  BY DEF StartBackup
<1>4. /\ work'[b].step = "copy" /\ DOMAIN work'[b] = TaskFields /\ DOMAIN work' = Workers
      /\ \A w \in Workers \ {b} : work'[w] = work[w]
  BY <1>3, Disjoint DEF Inv, Shapes, TaskFields
<1>5. /\ backups'[b].state = "RUNNING" /\ backups'[b].name = n
      /\ DOMAIN backups'[b] = RowFields /\ DOMAIN backups' = Backups
      /\ \A c \in Backups \ {b} : backups'[c] = backups[c]
  BY <1>2 DEF Inv, Shapes, NoBackup, RowFields
<1>6. BackupMoves(b)
  BY <1>3, <1>4, <1>5 DEF BackupMoves, Inv, Shapes
<1>7. Copying(b)'
  BY <1>1, <1>3, <1>4, <1>5 DEF Copying, Mine, BackupSteps
<1> QED BY <1>6, <1>7, BackupKeeps

LEMMA FailBackupKeeps ==
    ASSUME Inv, NEW b \in Backups, FailBackup(b)
    PROVE  Inv'
<1>1. /\ work' = [work EXCEPT ![b] = Idle]
      /\ backups' = [backups EXCEPT ![b].state = "FAILED"] \/ UNCHANGED backups
      /\ UNCHANGED <<version, jobs, files, copied>>
  BY DEF FailBackup
<1>2. /\ work'[b] = Idle /\ DOMAIN work' = Workers
      /\ \A w \in Workers \ {b} : work'[w] = work[w]
  BY <1>1, Disjoint DEF Inv, Shapes
<1>3. /\ backups'[b].state \in {"FAILED", backups[b].state}
      /\ backups'[b].name = backups[b].name /\ backups'[b].digest = backups[b].digest
      /\ DOMAIN backups'[b] = RowFields /\ DOMAIN backups' = Backups
      /\ \A c \in Backups \ {b} : backups'[c] = backups[c]
  BY <1>1 DEF Inv, Shapes, RowFields
<1>4. BackupMoves(b)
  BY <1>1, <1>2, <1>3, IdleFields DEF BackupMoves, Inv, Shapes
<1>5. Copying(b)'
  BY <1>1, <1>2, <1>3, IdleFields, Disjoint DEF Inv, Copying, Mine, BackupSteps
<1> QED BY <1>4, <1>5, BackupKeeps

LEMMA CreateKeeps ==
    ASSUME Inv, NEW b \in Backups, CreateBackup(b)
    PROVE  Inv'
<1> DEFINE name == backups[b].name
<1>0. Copying(b) /\ b # None /\ b \in Workers
  BY Disjoint DEF Inv
<1>1. ASSUME NEW s, NEW f, Goto(b, s), s \in {"copying", "copied"}, ~At(b, "idle"),
             files' = [files EXCEPT ![name] = f], copied' = [copied EXCEPT ![name] = b],
             UNCHANGED <<version, jobs, backups>>, s = "copied" => f.whole
      PROVE  Inv'
  <2>1. name \in Names /\ backups[b].state = "RUNNING"
    BY <1>0, <1>1 DEF Copying, At
  <2> HIDE DEF name
  <2>2. /\ DOMAIN work' = Workers /\ DOMAIN work'[b] = TaskFields /\ work'[b].step = s
        /\ \A w \in Workers \ {b} : work'[w] = work[w]
    BY <1>0, <1>1 DEF Goto, Inv, Shapes, TaskFields
  <2>3. /\ files'[name] = f /\ copied'[name] = b
        /\ \A n \in Names \ {name} : files'[n] = files[n] /\ copied'[n] = copied[n]
        /\ \A j \in Jobs : files'[j] = files[j]
        /\ DOMAIN files' = Jobs \cup Names /\ DOMAIN copied' = Names
    BY <1>1, <2>1, Disjoint DEF Inv, Shapes
  <2>4. BackupMoves(b)
    BY <1>1, <2>2, <2>3 DEF BackupMoves, Inv, Shapes
  <2>5. \A n \in Names : copied'[n] = b => n = name
    BY <1>0, <2>3 DEF Copying, name
  <2>6. Copying(b)'
    <3>1. name = backups'[b].name /\ backups'[b].state = "RUNNING"
      BY <1>1, <2>1 DEF name
    <3>2. s # "idle" /\ s \in BackupSteps /\ s # "hashed"
      BY <1>1 DEF BackupSteps
    <3> QED BY <1>1, <2>1, <2>2, <2>3, <2>5, <3>1, <3>2, Disjoint DEF Copying, Mine
  <2> QED BY <2>4, <2>6, BackupKeeps
<1>2. CASE OpenCopy(b)
  BY <1>1, <1>2 DEF OpenCopy, At
<1>3. CASE CopyDatabase(b)
  <2>1. <<version>> \in Seq(Nat)
    BY DEF Inv, Shapes
  <2>2. File(<<version>>).whole
    BY <2>1, FileFields
  <2> QED BY <1>1, <1>3, <2>2 DEF CopyDatabase, At
<1>4. CASE HashCopy(b)
  <2>1. /\ work' = [work EXCEPT ![b].step = "hashed", ![b].content = Digest(b)]
        /\ At(b, "copied") /\ UNCHANGED <<version, jobs, backups, files, copied>>
    BY <1>4 DEF HashCopy
  <2>2. /\ DOMAIN work' = Workers /\ DOMAIN work'[b] = TaskFields
        /\ work'[b].step = "hashed" /\ work'[b].content = Digest(b)
        /\ \A w \in Workers \ {b} : work'[w] = work[w]
    BY <1>0, <2>1 DEF Inv, Shapes, TaskFields
  <2>3. BackupMoves(b)
    BY <2>1, <2>2 DEF BackupMoves, Inv, Shapes
  <2>4. Copying(b)'
    BY <1>0, <2>1, <2>2 DEF Copying, Mine, At, Digest, BackupSteps
  <2> QED BY <2>3, <2>4, BackupKeeps
<1>5. CASE CompleteBackup(b)
  <2>1. /\ backups' = [backups EXCEPT ![b].state = "COMPLETED", ![b].digest = work[b].content]
        /\ work' = [work EXCEPT ![b] = Idle] /\ At(b, "hashed")
        /\ UNCHANGED <<version, jobs, files, copied>>
    BY <1>5 DEF CompleteBackup
  <2>2. /\ work'[b] = Idle /\ DOMAIN work' = Workers
        /\ \A w \in Workers \ {b} : work'[w] = work[w]
    BY <1>0, <2>1 DEF Inv, Shapes
  <2>3. /\ backups'[b].state = "COMPLETED" /\ backups'[b].name = name
        /\ backups'[b].digest = work[b].content
        /\ DOMAIN backups'[b] = RowFields /\ DOMAIN backups' = Backups
        /\ \A c \in Backups \ {b} : backups'[c] = backups[c]
    BY <2>1 DEF Inv, Shapes, RowFields
  <2>4. BackupMoves(b)
    BY <2>1, <2>2, <2>3, IdleFields DEF BackupMoves, Inv, Shapes
  <2>5. Copying(b)'
    BY <1>0, <2>1, <2>2, <2>3, IdleFields, Disjoint DEF Copying, Mine, At, BackupSteps
  <2> QED BY <2>4, <2>5, BackupKeeps
<1> QED BY <1>2, <1>3, <1>4, <1>5 DEF CreateBackup

LEMMA CrashKeeps ==
    ASSUME Inv, Crash
    PROVE  Inv'
<1>1. /\ \A w \in Workers : work'[w] = Idle
      /\ DOMAIN work' = Workers /\ UNCHANGED <<version, jobs, backups, files, copied>>
  BY DEF Crash
<1>2. Shapes'
  BY <1>1, IdleFields DEF Inv, Shapes
<1>3. \A j \in Jobs : Exported(j)'
  <2>1. <<>> \in Seq(Nat)
    OBVIOUS
  <2> QED BY <1>1, <2>1, IdleFields, Disjoint DEF Inv, Exported, JobSteps
<1>4. \A b \in Backups : Copying(b)'
  BY <1>1, IdleFields, Disjoint DEF Inv, Copying, Mine, BackupSteps
<1> QED BY <1>1, <1>2, <1>3, <1>4 DEF Inv

LEMMA InvInit == Init => Inv
<1> SUFFICES ASSUME Init PROVE Inv
  OBVIOUS
<1>1. Shapes
  BY IdleFields DEF Init, Shapes, NoBackup, RowFields
<1>2. ASSUME NEW j \in Jobs PROVE Exported(j)
  <2>1. work[j] = Idle /\ jobs[j] # "COMPLETED"
    BY Disjoint DEF Init
  <2>2. <<>> \in Seq(Nat)
    OBVIOUS
  <2> QED BY <2>1, <2>2, IdleFields DEF Exported, JobSteps
<1>3. ASSUME NEW b \in Backups PROVE Copying(b)
  <2>1. work[b] = Idle /\ \A n \in Names : copied[n] # b
    BY Disjoint DEF Init
  <2> QED BY <2>1, IdleFields DEF Copying, Mine, BackupSteps
<1> QED BY <1>1, <1>2, <1>3 DEF Inv, Init

LEMMA InvNext == Inv /\ [Next]_vars => Inv'
<1> SUFFICES ASSUME Inv, [Next]_vars PROVE Inv'
  OBVIOUS
<1>1. ASSUME NEW j \in Jobs, Request(j) \/ RunExportJob(j) \/ FailJob(j) PROVE Inv'
  BY <1>1, RequestKeeps, ExportKeeps, FailKeeps DEF FailJob
<1>2. ASSUME NEW b \in Backups, StartBackup(b) \/ CreateBackup(b) \/ FailBackup(b) PROVE Inv'
  BY <1>2, StartKeeps, CreateKeeps, FailBackupKeeps
<1>3. CASE Change
  <2>1. UNCHANGED <<jobs, backups, files, work, copied>> /\ version' = version + 1
    BY <1>3 DEF Change
  <2>2. Shapes'
    BY <2>1 DEF Inv, Shapes
  <2>3. (\A j \in Jobs : Exported(j)') /\ (\A b \in Backups : Copying(b)')
    BY <2>1 DEF Inv, Exported, Copying, Mine
  <2> QED BY <2>1, <2>2, <2>3 DEF Inv
<1>4. CASE Crash
  BY <1>4, CrashKeeps
<1>5. CASE UNCHANGED vars
  <2>1. Shapes'
    BY <1>5 DEF vars, Inv, Shapes
  <2>2. (\A j \in Jobs : Exported(j)') /\ (\A b \in Backups : Copying(b)')
    BY <1>5 DEF vars, Inv, Exported, Copying, Mine
  <2> QED BY <1>5, <2>1, <2>2 DEF vars, Inv
<1> QED BY <1>1, <1>2, <1>3, <1>4, <1>5 DEF Next

LEMMA Invariant == Spec => []Inv
BY InvInit, InvNext, PTL DEF Spec

(* The file of a job that is COMPLETED is there, whole, with what the job  *)
(* has read, whatever failed or died around its thread.                    *)
THEOREM ExportsAreWhole == Spec => []DownloadsWhole
<1>1. Inv => DownloadsWhole
  BY DEF Inv, Exported, Whole, DownloadsWhole
<1> QED BY <1>1, Invariant, PTL

(* The backup that wrote a file last has its digest once it is COMPLETED,  *)
(* however many backups share the file.                                    *)
THEOREM LastCopiesMatch == Spec => []LastCopyMatches
<1>1. Inv => LastCopyMatches
  <2> SUFFICES ASSUME Inv, NEW n \in Names, copied[n] # None,
                      backups[copied[n]].state = "COMPLETED"
               PROVE  backups[copied[n]].digest = files[n] /\ files[n].whole
    BY DEF LastCopyMatches
  <2>1. copied[n] \in Backups /\ Copying(copied[n])
    BY DEF Inv
  <2>2. backups[copied[n]].name = n
    BY <2>1 DEF Copying
  <2> QED BY <2>1, <2>2 DEF Copying, Mine
<1> QED BY <1>1, Invariant, PTL

-----------------------------------------------------------------------------
(* A package reads twice, anything else once, and only while its row is    *)
(* what the thread has made of it.                                         *)
JobRow(j) ==
    /\ jobs[j] \in Unsettled \cup Settled \cup {None}
    /\ jobs[j] = None => At(j, "idle")
    /\ At(j, "queued") => jobs[j] = "QUEUED"
    /\ work[j].step \in {"find", "read", "write", "writing", "written"} => jobs[j] = "RUNNING"
    /\ At(j, "completed") => jobs[j] = "COMPLETED"
JobContent(j) ==
    /\ work[j].content \in Contents
    /\ work[j].step \in {"idle", "queued"} => work[j].content = <<>>
    /\ work[j].step \in {"find", "read"} =>
         work[j].content = <<>> \/ (work[j].format = "package" /\ Len(work[j].content) = 1)
BackupRow(b) ==
    /\ backups[b].state \in {"RUNNING", None} \cup Settled
    /\ backups[b].digest \in FileType \cup {None}
    /\ At(b, "hashed") => work[b].content \in FileType \cup {None}
Stored ==
    /\ mission \in BOOLEAN /\ version \in 0..MaxVersion
    /\ \A f \in Jobs \cup Names : files[f] \in FileType \cup {None}
    /\ copied \in [Names -> Backups \cup {None}]

IInv == /\ Inv /\ Stored
        /\ \A j \in Jobs : JobRow(j) /\ JobContent(j)
        /\ \A b \in Backups : BackupRow(b)

LEMMA ContentFacts ==
    /\ <<>> \in Contents /\ \A v \in 0..MaxVersion : <<v>> \in Contents
    /\ \A c \in Contents, v \in 0..MaxVersion :
         /\ c # <<>> => Len(c) >= 1
         /\ Len(Append(c, v)) = Len(c) + 1 /\ Len(c) \in Nat
         /\ Len(c) <= 1 => Append(c, v) \in Contents
<1>1. ASSUME NEW v \in 0..MaxVersion PROVE <<v>> \in Contents
  <2>1. <<v>> \in Seq(0..MaxVersion) /\ Len(<<v>>) = 1
    OBVIOUS
  <2> QED BY <2>1 DEF Contents
<1>2. <<>> \in Contents
  <2>1. <<>> \in Seq(0..MaxVersion) /\ Len(<<>>) = 0
    OBVIOUS
  <2> QED BY <2>1 DEF Contents
<1>3. ASSUME NEW c \in Contents, NEW v \in 0..MaxVersion
      PROVE  /\ c # <<>> => Len(c) >= 1
             /\ Len(Append(c, v)) = Len(c) + 1 /\ Len(c) \in Nat
             /\ Len(c) <= 1 => Append(c, v) \in Contents
  <2>1. c \in Seq(0..MaxVersion)
    BY DEF Contents
  <2>2. /\ Append(c, v) \in Seq(0..MaxVersion) /\ Len(Append(c, v)) = Len(c) + 1
        /\ Len(c) \in Nat /\ (c # <<>> => Len(c) # 0)
    BY <2>1
  <2> QED BY <2>2 DEF Contents
<1> QED BY <1>1, <1>2, <1>3

LEMMA FileTyped ==
    /\ \A c \in Contents : File(c) \in FileType
    /\ Partial \in FileType
<1>1. <<>> \in Contents
  BY ContentFacts
<1> QED BY <1>1 DEF File, Partial, FileType

(* The others keep what is known of them.                                  *)
LEMMA JobKeepsRows ==
    ASSUME IInv, NEW j \in Jobs, NEW n, JobMoves(j, n), JobRow(j)', JobContent(j)', Stored'
    PROVE  Stored' /\ (\A k \in Jobs : JobRow(k)' /\ JobContent(k)')
           /\ (\A b \in Backups : BackupRow(b)')
<1>1. /\ \A w \in Workers \ {j} : work'[w] = work[w]
      /\ \A k \in Jobs \ {j} : jobs'[k] = jobs[k]
      /\ backups' = backups
  BY DEF JobMoves
<1>2. \A k \in Jobs \ {j} : JobRow(k)' /\ JobContent(k)'
  BY <1>1, Disjoint DEF IInv, JobRow, JobContent, At
<1>3. \A b \in Backups : BackupRow(b)'
  BY <1>1, Disjoint DEF IInv, BackupRow, At
<1> QED BY <1>2, <1>3

LEMMA BackupKeepsRows ==
    ASSUME IInv, NEW b \in Backups, BackupMoves(b), BackupRow(b)', Stored'
    PROVE  Stored' /\ (\A j \in Jobs : JobRow(j)' /\ JobContent(j)')
           /\ (\A c \in Backups : BackupRow(c)')
<1>1. /\ \A w \in Workers \ {b} : work'[w] = work[w]
      /\ \A c \in Backups \ {b} : backups'[c] = backups[c]
      /\ jobs' = jobs
  BY DEF BackupMoves
<1>2. \A j \in Jobs : JobRow(j)' /\ JobContent(j)'
  BY <1>1, Disjoint DEF IInv, JobRow, JobContent, At
<1>3. \A c \in Backups \ {b} : BackupRow(c)'
  BY <1>1, Disjoint DEF IInv, BackupRow, At
<1> QED BY <1>2, <1>3

(* A thread that goes on: what its row and its content must be then.       *)
LEMMA JobGoesOn ==
    ASSUME IInv, Inv', NEW j \in Jobs, NEW s, Goto(j, s),
           UNCHANGED <<version, backups, copied>>,
           jobs' = jobs \/ \E state : SetJob(j, state),
           files' = files \/ \E f : files' = [files EXCEPT ![j] = f],
           s \in JobSteps \ {"idle", "queued"},
           s \in {"find", "read"} => work[j].step \in {"queued", "find"},
           jobs'[j] = IF s = "completed" THEN "COMPLETED" ELSE "RUNNING",
           Stored'
    PROVE  IInv'
<1> DEFINE n == [work[j] EXCEPT !.step = s]
<1>1. /\ work' = [work EXCEPT ![j] = n] /\ DOMAIN n = TaskFields
      /\ n.step = s /\ n.content = work[j].content
  BY Going, Disjoint DEF IInv
<1>2. n.format = work[j].format
  BY Disjoint DEF IInv, Inv, Shapes, TaskFields
<1> HIDE DEF n
<1>3. JobMoves(j, n)
  BY <1>1, Disjoint DEF JobMoves, SetJob, IInv, Inv, Shapes
<1>4. work'[j] = n
  BY <1>3 DEF JobMoves
<1>5. JobRow(j)'
  BY <1>1, <1>4, Disjoint DEF JobRow, At, JobSteps, Unsettled, Settled
<1>6. JobContent(j)'
  BY <1>1, <1>2, <1>4 DEF IInv, JobContent, JobSteps
<1> QED BY <1>3, <1>5, <1>6, JobKeepsRows DEF IInv

LEMMA IdleJob ==
    ASSUME IInv, Inv', NEW j \in Jobs, work' = [work EXCEPT ![j] = Idle],
           jobs' = jobs \/ \E state : SetJob(j, state),
           jobs'[j] \in Unsettled \cup Settled \cup {None},
           UNCHANGED <<mission, version, backups, files, copied>>
    PROVE  IInv'
<1>1. JobMoves(j, Idle) /\ work'[j] = Idle
  BY IdleFields, Disjoint DEF JobMoves, SetJob, IInv, Inv, Shapes
<1>2. JobRow(j)'
  BY <1>1, IdleFields DEF JobRow, At
<1>3. JobContent(j)'
  BY <1>1, IdleFields, ContentFacts DEF JobContent
<1>4. Stored'
  BY DEF IInv, Stored
<1> QED BY <1>1, <1>2, <1>3, <1>4, JobKeepsRows DEF IInv

LEMMA FailIsTyped ==
    ASSUME IInv, Inv', NEW j \in Jobs, Fail(j)
    PROVE  IInv'
<1>1. jobs'[j] \in {"FAILED", jobs[j]}
  BY DEF Fail, SetJob, IInv, Inv, Shapes
<1>2. jobs'[j] \in Unsettled \cup Settled \cup {None}
  BY <1>1 DEF IInv, JobRow, Settled
<1> QED BY <1>2, IdleJob DEF Fail

LEMMA RequestIsTyped ==
    ASSUME IInv, Inv', NEW j \in Jobs, Request(j)
    PROVE  IInv'
<1>1. /\ jobs' = [jobs EXCEPT ![j] = "QUEUED"] /\ jobs[j] = None
      /\ UNCHANGED <<mission, version, backups, files, copied>>
  BY DEF Request, SetJob
<1>2. jobs'[j] = "QUEUED" /\ work[j].step = "idle" /\ work[j].content = <<>>
  BY <1>1, Disjoint DEF IInv, Inv, Shapes, JobRow, JobContent, At
<1>4. Stored'
  BY <1>1 DEF IInv, Stored
<1>5. CASE UNCHANGED work
  <2>1. JobMoves(j, work[j])
    BY <1>1, <1>5, Disjoint DEF JobMoves, IInv, Inv, Shapes
  <2>2. JobRow(j)' /\ JobContent(j)'
    BY <1>2, <1>5, Disjoint, ContentFacts DEF JobRow, JobContent, At, Unsettled
  <2> QED BY <1>4, <2>1, <2>2, JobKeepsRows DEF IInv
<1>6. ASSUME NEW format \in Formats,
             work' = [work EXCEPT ![j] = [Idle EXCEPT !.step = "queued", !.format = format]]
      PROVE  IInv'
  <2> DEFINE n == [Idle EXCEPT !.step = "queued", !.format = format]
  <2>1. DOMAIN n = TaskFields /\ n.step = "queued" /\ n.content = <<>>
    BY DEF Idle, TaskFields
  <2>2. work' = [work EXCEPT ![j] = n]
    BY <1>6
  <2> HIDE DEF n
  <2>3. JobMoves(j, n) /\ work'[j] = n
    BY <1>1, <2>1, <2>2, Disjoint DEF JobMoves, IInv, Inv, Shapes
  <2>4. JobRow(j)'
    BY <1>2, <2>1, <2>3, Disjoint DEF JobRow, At, Unsettled
  <2>5. JobContent(j)'
    BY <2>1, <2>3, ContentFacts DEF JobContent
  <2> QED BY <1>4, <2>3, <2>4, <2>5, JobKeepsRows DEF IInv
<1> QED BY <1>5, <1>6 DEF Request

LEMMA ExportIsTyped ==
    ASSUME IInv, Inv', NEW j \in Jobs, RunExportJob(j)
    PROVE  IInv'
<1>0. JobRow(j) /\ JobContent(j) /\ Exported(j) /\ Stored
  BY DEF IInv, Inv
<1>1. CASE MarkRunning(j)
  <2>1. jobs'[j] = "RUNNING"
    BY <1>1 DEF MarkRunning, SetJob, IInv, Inv, Shapes
  <2>2. Stored'
    BY <1>0, <1>1 DEF MarkRunning, Stored
  <2> QED BY <1>1, <2>1, <2>2, JobGoesOn DEF MarkRunning, At, JobSteps
<1>2. CASE FindMission(j)
  <2>1. CASE mission
    <3>1. Stored' /\ jobs[j] = "RUNNING"
      BY <1>0, <1>2, <2>1 DEF FindMission, Stored, JobRow, At
    <3> QED BY <1>2, <2>1, <3>1, JobGoesOn DEF FindMission, At, JobSteps
  <2>2. CASE ~mission
    BY <1>2, <2>2, FailIsTyped DEF FindMission
  <2> QED BY <2>1, <2>2
<1>3. CASE ReadTables(j)
  <2> DEFINE c == Append(work[j].content, version)
             s == IF work[j].format = "package" /\ Len(c) = 1 THEN "find" ELSE "write"
             n == [work[j] EXCEPT !.content = c, !.step = s]
  <2>1. /\ UNCHANGED <<mission, version, jobs, backups, files, copied>>
        /\ work[j].step = "read" /\ jobs[j] = "RUNNING" /\ version \in 0..MaxVersion
    BY <1>0, <1>3 DEF ReadTables, At, JobRow, Stored
  <2>2. work[j].content \in Contents /\ Len(work[j].content) <= 1
    <3>1. Len(<<>>) = 0
      OBVIOUS
    <3>2. /\ work[j].content \in Contents
          /\ work[j].content = <<>> \/ Len(work[j].content) = 1
      BY <1>0, <2>1 DEF JobContent
    <3>3. CASE work[j].content = <<>>
      BY <3>1, <3>2, <3>3
    <3>4. CASE Len(work[j].content) = 1
      BY <3>2, <3>4
    <3> QED BY <3>2, <3>3, <3>4
  <2>3. c \in Contents
    BY <2>1, <2>2, ContentFacts
  <2>4. s \in {"find", "write"} /\ (s = "find" => work[j].format = "package" /\ Len(c) = 1)
    OBVIOUS
  <2>5. work' = [work EXCEPT ![j] = n]
    BY <1>3, Disjoint DEF ReadTables, IInv, Inv, Shapes
  <2> HIDE DEF c, s
  <2>6. DOMAIN n = TaskFields /\ n.step = s /\ n.content = c /\ n.format = work[j].format
    BY Disjoint DEF IInv, Inv, Shapes, TaskFields
  <2> HIDE DEF n
  <2>7. JobMoves(j, n) /\ work'[j] = n
    BY <2>1, <2>5, <2>6, Disjoint DEF JobMoves, IInv, Inv, Shapes
  <2>8. JobRow(j)'
    BY <2>1, <2>4, <2>6, <2>7, Disjoint DEF JobRow, At, Unsettled
  <2>9. JobContent(j)'
    BY <2>3, <2>4, <2>6, <2>7 DEF JobContent
  <2>10. Stored'
    BY <1>0, <2>1 DEF Stored
  <2> QED BY <2>7, <2>8, <2>9, <2>10, JobKeepsRows DEF IInv
<1>4. CASE OpenFile(j)
  <2>1. Stored' /\ jobs[j] = "RUNNING"
    BY <1>0, <1>4, FileTyped DEF OpenFile, Stored, JobRow, At, IInv, Inv, Shapes
  <2> QED BY <1>4, <2>1, JobGoesOn DEF OpenFile, JobSteps
<1>5. CASE WriteFile(j)
  <2>1. File(work[j].content) \in FileType
    BY <1>0, FileTyped DEF JobContent
  <2>2. Stored' /\ jobs[j] = "RUNNING"
    BY <1>0, <1>5, <2>1 DEF WriteFile, Stored, JobRow, At, IInv, Inv, Shapes
  <2> QED BY <1>5, <2>2, JobGoesOn DEF WriteFile, JobSteps
<1>6. CASE CompleteJob(j)
  <2>1. jobs'[j] = "COMPLETED"
    BY <1>6 DEF CompleteJob, SetJob, IInv, Inv, Shapes
  <2>2. Stored'
    BY <1>0, <1>6 DEF CompleteJob, Stored
  <2> QED BY <1>6, <2>1, <2>2, JobGoesOn DEF CompleteJob, JobSteps
<1>7. CASE EndJob(j)
  BY <1>0, <1>7, IdleJob DEF EndJob, JobRow, At, Settled
<1> QED BY <1>1, <1>2, <1>3, <1>4, <1>5, <1>6, <1>7 DEF RunExportJob

(* A backup: its row, and the file and digest it makes.                    *)
LEMMA StartIsTyped ==
    ASSUME IInv, Inv', NEW b \in Backups, StartBackup(b)
    PROVE  IInv'
<1>1. PICK n \in Names :
        backups' = [backups EXCEPT ![b] = [NoBackup EXCEPT !.state = "RUNNING", !.name = n]]
  BY DEF StartBackup
<1>2. /\ work' = [work EXCEPT ![b].step = "copy"]
      /\ UNCHANGED <<mission, version, jobs, files, copied>>
  BY DEF StartBackup
<1>3. /\ work'[b].step = "copy" /\ DOMAIN work'[b] = TaskFields /\ DOMAIN work' = Workers
      /\ \A w \in Workers \ {b} : work'[w] = work[w]
  BY <1>2, Disjoint DEF IInv, Inv, Shapes, TaskFields
<1>4. /\ backups'[b].state = "RUNNING" /\ backups'[b].digest = None
      /\ DOMAIN backups'[b] = RowFields /\ DOMAIN backups' = Backups
      /\ \A c \in Backups \ {b} : backups'[c] = backups[c]
  BY <1>1 DEF IInv, Inv, Shapes, NoBackup, RowFields
<1>5. BackupMoves(b)
  BY <1>2, <1>3, <1>4 DEF BackupMoves, IInv, Inv, Shapes
<1>6. BackupRow(b)' /\ Stored'
  BY <1>2, <1>3, <1>4 DEF BackupRow, At, IInv, Stored
<1> QED BY <1>5, <1>6, BackupKeepsRows DEF IInv

LEMMA FailBackupIsTyped ==
    ASSUME IInv, Inv', NEW b \in Backups, FailBackup(b)
    PROVE  IInv'
<1>1. /\ work' = [work EXCEPT ![b] = Idle]
      /\ backups' = [backups EXCEPT ![b].state = "FAILED"] \/ UNCHANGED backups
      /\ UNCHANGED <<mission, version, jobs, files, copied>>
  BY DEF FailBackup
<1>2. /\ work'[b] = Idle /\ DOMAIN work' = Workers
      /\ \A w \in Workers \ {b} : work'[w] = work[w]
  BY <1>1, Disjoint DEF IInv, Inv, Shapes
<1>3. /\ backups'[b].state \in {"FAILED", backups[b].state}
      /\ backups'[b].digest = backups[b].digest
      /\ DOMAIN backups'[b] = RowFields /\ DOMAIN backups' = Backups
      /\ \A c \in Backups \ {b} : backups'[c] = backups[c]
  BY <1>1 DEF IInv, Inv, Shapes, RowFields
<1>4. BackupMoves(b)
  BY <1>1, <1>2, <1>3, IdleFields DEF BackupMoves, IInv, Inv, Shapes
<1>5. BackupRow(b)' /\ Stored'
  BY <1>1, <1>2, <1>3, IdleFields DEF BackupRow, At, IInv, Stored, Settled
<1> QED BY <1>4, <1>5, BackupKeepsRows DEF IInv

LEMMA CreateIsTyped ==
    ASSUME IInv, Inv', NEW b \in Backups, CreateBackup(b)
    PROVE  IInv'
<1> DEFINE name == backups[b].name
<1>0. /\ Copying(b) /\ BackupRow(b) /\ Stored /\ b \in Workers
      /\ DOMAIN work = Workers /\ DOMAIN work[b] = TaskFields
  BY Disjoint DEF IInv, Inv, Shapes
<1>1. ASSUME NEW s, NEW f \in FileType, Goto(b, s), s \in {"copying", "copied"}, ~At(b, "idle"),
             files' = [files EXCEPT ![name] = f], copied' = [copied EXCEPT ![name] = b],
             UNCHANGED <<mission, version, jobs, backups>>
      PROVE  IInv'
  <2>1. name \in Names
    BY <1>0, <1>1 DEF Copying, At
  <2> HIDE DEF name
  <2>2. /\ DOMAIN work' = Workers /\ DOMAIN work'[b] = TaskFields /\ work'[b].step = s
        /\ \A w \in Workers \ {b} : work'[w] = work[w]
    BY <1>0, <1>1 DEF Goto, TaskFields
  <2>3. /\ files'[name] = f /\ copied'[name] = b
        /\ \A n \in Names \ {name} : files'[n] = files[n] /\ copied'[n] = copied[n]
        /\ \A j \in Jobs : files'[j] = files[j]
        /\ DOMAIN files' = Jobs \cup Names /\ DOMAIN copied' = Names
    BY <1>1, <2>1, Disjoint DEF IInv, Inv, Shapes
  <2>4. BackupMoves(b)
    BY <1>1, <2>2, <2>3 DEF BackupMoves, IInv, Inv, Shapes
  <2>5. BackupRow(b)'
    BY <1>0, <1>1, <2>2 DEF BackupRow, At
  <2>6. Stored'
    BY <1>0, <1>1, <2>3 DEF Stored
  <2> QED BY <2>4, <2>5, <2>6, BackupKeepsRows DEF IInv
<1>2. CASE OpenCopy(b)
  BY <1>1, <1>2, FileTyped DEF OpenCopy, At
<1>3. CASE CopyDatabase(b)
  <2>1. File(<<version>>) \in FileType
    BY <1>0, ContentFacts, FileTyped DEF Stored
  <2> QED BY <1>1, <1>3, <2>1 DEF CopyDatabase, At
<1>4. CASE HashCopy(b)
  <2>1. /\ work' = [work EXCEPT ![b].step = "hashed", ![b].content = Digest(b)]
        /\ At(b, "copied") /\ UNCHANGED <<mission, version, jobs, backups, files, copied>>
    BY <1>4 DEF HashCopy
  <2>2. /\ DOMAIN work' = Workers /\ DOMAIN work'[b] = TaskFields
        /\ work'[b].content = Digest(b)
        /\ \A w \in Workers \ {b} : work'[w] = work[w]
    BY <1>0, <2>1 DEF TaskFields
  <2>3. BackupMoves(b)
    BY <2>1, <2>2 DEF BackupMoves, IInv, Inv, Shapes
  <2>4. Digest(b) \in FileType \cup {None}
    BY <1>0, <2>1 DEF Copying, At, Digest, Stored
  <2>5. BackupRow(b)' /\ Stored'
    BY <1>0, <2>1, <2>2, <2>4 DEF BackupRow, At, Stored
  <2> QED BY <2>3, <2>5, BackupKeepsRows DEF IInv
<1>5. CASE CompleteBackup(b)
  <2>1. /\ backups' = [backups EXCEPT ![b].state = "COMPLETED", ![b].digest = work[b].content]
        /\ work' = [work EXCEPT ![b] = Idle] /\ At(b, "hashed")
        /\ UNCHANGED <<mission, version, jobs, files, copied>>
    BY <1>5 DEF CompleteBackup
  <2>2. /\ work'[b] = Idle /\ DOMAIN work' = Workers
        /\ \A w \in Workers \ {b} : work'[w] = work[w]
    BY <1>0, <2>1
  <2>3. /\ backups'[b].state = "COMPLETED" /\ backups'[b].digest = work[b].content
        /\ DOMAIN backups'[b] = RowFields /\ DOMAIN backups' = Backups
        /\ \A c \in Backups \ {b} : backups'[c] = backups[c]
    BY <2>1 DEF IInv, Inv, Shapes, RowFields
  <2>4. BackupMoves(b)
    BY <2>1, <2>2, <2>3, IdleFields DEF BackupMoves, IInv, Inv, Shapes
  <2>5. BackupRow(b)' /\ Stored'
    BY <1>0, <2>1, <2>2, <2>3, IdleFields DEF BackupRow, At, Stored, Settled
  <2> QED BY <2>4, <2>5, BackupKeepsRows DEF IInv
<1> QED BY <1>2, <1>3, <1>4, <1>5 DEF CreateBackup

LEMMA CrashIsTyped ==
    ASSUME IInv, Inv', Crash
    PROVE  IInv'
<1>1. /\ \A w \in Workers : work'[w] = Idle
      /\ UNCHANGED <<mission, version, jobs, backups, files, copied>>
  BY DEF Crash
<1>2. Stored'
  BY <1>1 DEF IInv, Stored
<1>3. \A j \in Jobs : JobRow(j)' /\ JobContent(j)'
  BY <1>1, IdleFields, Disjoint, ContentFacts DEF IInv, JobRow, JobContent, At
<1>4. \A b \in Backups : BackupRow(b)'
  BY <1>1, IdleFields, Disjoint DEF IInv, BackupRow, At
<1> QED BY <1>2, <1>3, <1>4 DEF IInv

LEMMA IInvInit == Init => IInv
<1> SUFFICES ASSUME Init PROVE IInv
  OBVIOUS
<1>1. Inv
  BY InvInit
<1>2. Stored
  BY StorageAssumption DEF Init, Stored
<1>3. \A j \in Jobs : JobRow(j) /\ JobContent(j)
  BY IdleFields, Disjoint, ContentFacts DEF Init, JobRow, JobContent, At
<1>4. \A b \in Backups : BackupRow(b)
  BY IdleFields, Disjoint DEF Init, BackupRow, At, NoBackup
<1> QED BY <1>1, <1>2, <1>3, <1>4 DEF IInv

LEMMA IInvNext == IInv /\ [Next]_vars => IInv'
<1> SUFFICES ASSUME IInv, [Next]_vars PROVE IInv'
  OBVIOUS
<1>0. Inv'
  BY InvNext DEF IInv
<1>1. ASSUME NEW j \in Jobs, Request(j) \/ RunExportJob(j) \/ FailJob(j) PROVE IInv'
  BY <1>0, <1>1, RequestIsTyped, ExportIsTyped, FailIsTyped DEF FailJob
<1>2. ASSUME NEW b \in Backups, StartBackup(b) \/ CreateBackup(b) \/ FailBackup(b) PROVE IInv'
  BY <1>0, <1>2, StartIsTyped, CreateIsTyped, FailBackupIsTyped
<1>3. ASSUME UNCHANGED <<jobs, backups, work>>, Stored' PROVE IInv'
  BY <1>0, <1>3 DEF IInv, JobRow, JobContent, BackupRow, At
<1>4. CASE Change
  <2>1. version' \in 0..MaxVersion
    BY <1>4, StorageAssumption DEF Change, IInv, Stored
  <2> QED BY <1>3, <1>4, <2>1 DEF Change, IInv, Stored
<1>5. CASE Crash
  BY <1>0, <1>5, CrashIsTyped
<1>6. CASE UNCHANGED vars
  BY <1>3, <1>6 DEF vars, IInv, Stored
<1> QED BY <1>1, <1>2, <1>4, <1>5, <1>6 DEF Next

(* Rows, files and threads have their types for any number of jobs and     *)
(* backups, and a row says what its thread is at.                          *)
THEOREM StorageTypeCorrect == Spec => []TypeOK
<1>1. Spec => []IInv
  BY IInvInit, IInvNext, PTL DEF Spec
<1>2. IInv => TypeOK
  <2> SUFFICES ASSUME IInv PROVE TypeOK
    OBVIOUS
  <2>1. \A b \in Backups : ~At(b, "idle") => backups[b].state = "RUNNING"
    BY DEF IInv, Inv, Copying, At
  <2> QED BY <2>1 DEF IInv, Stored, JobRow, JobContent, BackupRow, TypeOK
<1> QED BY <1>1, <1>2, PTL
=============================================================================
