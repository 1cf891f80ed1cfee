------------------------ MODULE ScenarioContextProofs ------------------------
(***************************************************************************)
(* Proofs about ScenarioContext, for any sets of handlers, items, missions *)
(* and profiles, and any bound on the versions.                            *)
(*                                                                         *)
(* A snapshot is taken by the handler that creates its mission, some       *)
(* transactions after the mission, and may be taken by a simulator's first *)
(* frame.  That it is taken once only rests on what the handler is known   *)
(* to have while it waits: a mission that exists, without a snapshot, and  *)
(* no other handler of the event loop beside it.                           *)
(*                                                                         *)
(* The file of a scenario is right after a handler that ran alone, because *)
(* at each of its steps what it has written and read, and what it has      *)
(* still to, make up what was asked for.                                   *)
(***************************************************************************)
EXTENDS ScenarioContext, TLAPS

Fields == {"op", "step", "item", "todo", "read", "seen", "exact", "mission", "profile"}
RunSteps == {"mission", "row", "items", "save", "insertRun"}

(* What the handler of t is at, and what it refers to.                     *)
Control(t) == <<tasks[t].op, tasks[t].step, tasks[t].mission, tasks[t].profile>>

(* Only the creation of a run has the steps of one, and so on.             *)
Sound(t) ==
    /\ DOMAIN tasks[t] = Fields
    /\ tasks[t].op = "run" => /\ tasks[t].step \in RunSteps
                              /\ tasks[t].profile \in Profiles
                              /\ tasks[t].step # "insertRun" => tasks[t].mission \in Missions
    /\ tasks[t].step \in {"mission", "save", "insertRun"} => tasks[t].op = "run"
    /\ tasks[t].step \in {"count", "drop"} => tasks[t].op = "delete"

Typed ==
    /\ DOMAIN tasks = Tasks /\ \A t \in Tasks : Sound(t)
    /\ profiles \in [Profiles -> Profile \cup {None}] /\ runs \subseteq Profiles
    /\ row \in [version : Nat, builtIn : BOOLEAN] \cup {None}
    /\ DOMAIN snapshots = Missions

Exclusive ==
    \A t, u \in Tasks : tasks[t].op \in LoopOps /\ tasks[u].op \in LoopOps => t = u

(* A mission whose run is being created waits for its snapshot.            *)
Making(t) == tasks[t].op = "run" /\ tasks[t].step \in {"row", "items", "save"}
Waits(t) ==
    Making(t) => tasks[t].mission \in missions /\ snapshots[tasks[t].mission] = None
Waiting ==
    /\ \A t \in Tasks : Waits(t)
    /\ \A m \in Missions \ missions : snapshots[m] = None

(* What is about to be deleted is not built in.                            *)
Deletes(t) == tasks[t].step \in {"count", "drop"} => MayDelete
Deleting == \A t \in Tasks : Deletes(t)

Inv == Typed /\ Exclusive /\ Waiting /\ Deleting /\ RunsHaveProfiles

-----------------------------------------------------------------------------
(* The steps of a handler leave the others alone.                          *)
Alone(t) ==
    /\ DOMAIN tasks' = Tasks
    /\ \A u \in Tasks \ {t} : Control(u)' = Control(u) /\ DOMAIN tasks'[u] = DOMAIN tasks[u]

LEMMA IdleSound ==
    /\ DOMAIN Idle = Fields /\ Idle.op = "idle" /\ Idle.step = "idle"
    /\ Idle.mission = None /\ Idle.profile = None
BY DEF Idle, Fields

(* A handler that goes to a step keeps the rest of its record.             *)
LEMMA Going ==
    ASSUME Typed, NEW t \in Tasks, NEW s, Goto(t, s)
    PROVE  /\ Alone(t) /\ DOMAIN tasks'[t] = Fields
           /\ Control(t)' = <<tasks[t].op, s, tasks[t].mission, tasks[t].profile>>
BY DEF Typed, Sound, Goto, Alone, Control, Fields

LEMMA Ending ==
    ASSUME Typed, NEW t \in Tasks, End(t)
    PROVE  Alone(t) /\ tasks'[t] = Idle
BY DEF Typed, End, Alone, Control

LEMMA Moving ==
    ASSUME Typed, NEW t \in Tasks, NEW n, tasks' = [tasks EXCEPT ![t] = n]
    PROVE  Alone(t) /\ tasks'[t] = n
BY DEF Typed, Alone, Control

LEMMA Beginning ==
    ASSUME Typed, NEW t \in Tasks, NEW n, NEW w, Begin(t, n, w), DOMAIN n = Fields
    PROVE  /\ Alone(t) /\ DOMAIN tasks'[t] = Fields /\ At(t, "idle")
           /\ Control(t)' = <<n.op, n.step, n.mission, n.profile>>
           /\ UNCHANGED <<profileVars, scenario, missions, snapshots, synced>>
<1>1. tasks' = [u \in Tasks |->
                  IF u # t THEN [tasks[u] EXCEPT !.exact = None]
                  ELSE [n EXCEPT !.exact = IF Active = {} THEN w ELSE None]]
  BY DEF Begin
<1>2. tasks'[t] = [n EXCEPT !.exact = IF Active = {} THEN w ELSE None]
  BY <1>1
<1>3. \A u \in Tasks \ {t} : tasks'[u] = [tasks[u] EXCEPT !.exact = None]
  BY <1>1
<1>4. \A u \in Tasks : DOMAIN tasks[u] = Fields
  BY DEF Typed, Sound
<1>5. DOMAIN tasks' = Tasks
  BY <1>1
<1>6. Alone(t)
  BY <1>3, <1>4, <1>5 DEF Alone, Control, Fields
<1>7. DOMAIN tasks'[t] = Fields /\ Control(t)' = <<n.op, n.step, n.mission, n.profile>>
  BY <1>2 DEF Control, Fields
<1> QED BY <1>6, <1>7 DEF Begin

-----------------------------------------------------------------------------
(* What a step does to its handler: it ends, or goes on as the same        *)
(* operation, where an update becomes the replacement it has prepared.     *)
Progress(t) ==
    \/ tasks'[t] = Idle
    \/ /\ DOMAIN tasks'[t] = Fields
       /\ tasks'[t].profile = tasks[t].profile /\ tasks'[t].mission = tasks[t].mission
       /\ tasks'[t].op = tasks[t].op \/ (tasks[t].op = "update" /\ tasks'[t].op = "replace")
       /\ tasks'[t].step \notin {"count", "mission", "insertRun"}
       /\ tasks'[t].step = "drop" => tasks[t].step = "count"
       /\ tasks'[t].step = "save" => tasks'[t].op = "run"
       /\ tasks'[t].op = "run" => /\ tasks'[t].step \in RunSteps
                                  /\ Making(t) \/ tasks[t].step = "mission"

(* Only one operation at a time can enter these steps.                     *)
LEMMA Inserts ==
    ASSUME Typed, NEW t \in Tasks, NEW todo, tasks[t].op # "run",
           tasks' = [tasks EXCEPT ![t] = Inserting(tasks[t], todo)]
    PROVE  Alone(t) /\ Progress(t)
<1> DEFINE n == Inserting(tasks[t], todo)
<1>1. DOMAIN tasks[t] = Fields
  BY DEF Typed, Sound
<1>2. DOMAIN n = Fields /\ n.op = tasks[t].op /\ n.mission = tasks[t].mission
      /\ n.profile = tasks[t].profile /\ n.step \in {"insert", "touch", "row"}
  BY <1>1 DEF Inserting, Fields
<1> HIDE DEF n
<1>3. Alone(t) /\ tasks'[t] = n
  BY Moving DEF n
<1> QED BY <1>2, <1>3 DEF Progress

LEMMA Goes ==
    ASSUME Typed, NEW t \in Tasks, NEW s, Goto(t, s), tasks[t].op # "run",
           s \notin {"count", "mission", "insertRun", "save"},
           s = "drop" => tasks[t].step = "count"
    PROVE  Alone(t) /\ Progress(t)
BY Going DEF Progress, Control

LEMMA Ends ==
    ASSUME Typed, NEW t \in Tasks, End(t)
    PROVE  Alone(t) /\ Progress(t)
BY Ending DEF Progress

(* The steps of operations other than the creation of a run.               *)
LEMMA NotARun ==
    ASSUME Typed, NEW t \in Tasks, tasks[t].step \notin RunSteps
    PROVE  tasks[t].op # "run"
BY DEF Typed, Sound

LEMMA WritersProgress ==
    ASSUME Typed, NEW t \in Tasks,
           \/ Upsert(t) \/ ClearItems(t) \/ InsertItem(t) \/ TakeItem(t) \/ Touch(t)
           \/ OpenFile(t) \/ WriteFile(t) \/ CountRuns(t) \/ DropRow(t) \/ Unlink(t)
    PROVE  Alone(t) /\ Progress(t)
<1>0. tasks[t].op # "run"
  BY NotARun DEF RunSteps, At, Upsert, ClearItems, InsertItem, TakeItem, Touch, OpenFile,
                 WriteFile, CountRuns, DropRow, Unlink
<1>1. CASE Upsert(t)
  <2>1. Goto(t, "clear")
    BY <1>1 DEF Upsert
  <2> QED BY <1>0, <2>1, Goes
<1>2. CASE ClearItems(t)
  BY <1>0, <1>2, Inserts DEF ClearItems
<1>3. CASE InsertItem(t)
  BY <1>0, <1>3, Inserts, Ends DEF InsertItem
<1>4. CASE TakeItem(t)
  <2>1. CASE Goto(t, "touch")
    BY <1>0, <2>1, Goes
  <2>2. CASE tasks' = [tasks EXCEPT ![t] = Inserting(@, {tasks[t].item})]
    BY <1>0, <2>2, Inserts
  <2>3. CASE End(t)
    BY <2>3, Ends
  <2> QED BY <1>4, <2>1, <2>2, <2>3 DEF TakeItem
<1>5. CASE Touch(t)
  <2>1. Goto(t, "row")
    BY <1>5 DEF Touch
  <2> QED BY <1>0, <2>1, Goes
<1>6. CASE OpenFile(t)
  <2>1. Goto(t, "write")
    BY <1>6 DEF OpenFile
  <2> QED BY <1>0, <2>1, Goes
<1>7. CASE WriteFile(t)
  BY <1>7, Ends DEF WriteFile
<1>8. CASE CountRuns(t)
  <2>1. CASE Goto(t, "drop")
    BY <1>0, <1>8, <2>1, Goes DEF CountRuns, At
  <2>2. CASE End(t)
    BY <2>2, Ends
  <2> QED BY <1>8, <2>1, <2>2 DEF CountRuns
<1>9. CASE DropRow(t)
  <2>1. CASE Goto(t, "unlink")
    BY <1>0, <2>1, Goes
  <2>2. CASE End(t)
    BY <2>2, Ends
  <2> QED BY <1>9, <2>1, <2>2 DEF DropRow
<1>10. CASE Unlink(t)
  BY <1>10, Ends DEF Unlink
<1> QED BY <1>1, <1>2, <1>3, <1>4, <1>5, <1>6, <1>7, <1>8, <1>9, <1>10

LEMMA ReadersProgress ==
    ASSUME Typed, NEW t \in Tasks, ReadRow(t) \/ ReadTable(t)
    PROVE  Alone(t) /\ Progress(t)
<1>0. DOMAIN tasks[t] = Fields
  BY DEF Typed, Sound
<1>1. CASE ReadRow(t)
  <2>1. CASE row = None
    BY <1>1, <2>1, Ends DEF ReadRow
  <2>2. CASE row # None
    <3> DEFINE n == [tasks[t] EXCEPT !.step = "items", !.read = row.version,
                                     !.todo = Items, !.seen = {}]
    <3>1. tasks' = [tasks EXCEPT ![t] = n]
      BY <1>1, <2>2 DEF ReadRow
    <3>2. /\ DOMAIN n = Fields /\ n.step = "items" /\ n.op = tasks[t].op
          /\ n.mission = tasks[t].mission /\ n.profile = tasks[t].profile
      BY <1>0 DEF Fields
    <3>3. tasks[t].step = "row"
      BY <1>1 DEF ReadRow, At
    <3> HIDE DEF n
    <3>4. Alone(t) /\ tasks'[t] = n
      BY <3>1, Moving
    <3> QED BY <3>2, <3>3, <3>4 DEF Progress, Making, RunSteps
  <2> QED BY <2>1, <2>2
<1>2. CASE ReadTable(t)
  <2>0. PICK i \in First(tasks[t].todo) :
          tasks' = [tasks EXCEPT ![t] = IF Reading(tasks[t], i).todo = {}
                                        THEN HasRead(Reading(tasks[t], i))
                                        ELSE Reading(tasks[t], i)]
    BY <1>2 DEF ReadTable
  <2> DEFINE read == Reading(tasks[t], i)
             n == IF read.todo = {} THEN HasRead(read) ELSE read
  <2>1. tasks' = [tasks EXCEPT ![t] = n]
    BY <2>0
  <2>2. tasks[t].step = "items"
    BY <1>2 DEF ReadTable, At
  <2>3. /\ DOMAIN read = Fields /\ read.step = "items" /\ read.op = tasks[t].op
        /\ read.mission = tasks[t].mission /\ read.profile = tasks[t].profile
    BY <1>0, <2>2 DEF Fields, Reading
  <2> HIDE DEF read
  <2>4. /\ DOMAIN HasRead(read) = Fields
        /\ HasRead(read).mission = tasks[t].mission /\ HasRead(read).profile = tasks[t].profile
    BY <2>3 DEF HasRead, Fields
  <2>5. CASE tasks[t].op = "update"
    <3>1. HasRead(read).op = "replace" /\ HasRead(read).step = "upsert"
      BY <2>3, <2>5 DEF HasRead, Fields
    <3>2. DOMAIN n = Fields /\ n.mission = tasks[t].mission /\ n.profile = tasks[t].profile
          /\ n.op \in {"update", "replace"} /\ n.step \in {"items", "upsert"}
      BY <2>3, <2>4, <2>5, <3>1
    <3> HIDE DEF n
    <3>3. Alone(t) /\ tasks'[t] = n
      BY <2>1, Moving
    <3> QED BY <2>5, <3>2, <3>3 DEF Progress
  <2>6. CASE tasks[t].op = "run"
    <3>1. HasRead(read).op = "run" /\ HasRead(read).step = "save"
      BY <2>3, <2>6 DEF HasRead, Fields
    <3>2. DOMAIN n = Fields /\ n.mission = tasks[t].mission /\ n.profile = tasks[t].profile
          /\ n.op = "run" /\ n.step \in {"items", "save"}
      BY <2>3, <2>4, <2>6, <3>1
    <3> HIDE DEF n
    <3>3. Alone(t) /\ tasks'[t] = n
      BY <2>1, Moving
    <3> QED BY <2>2, <2>6, <3>2, <3>3 DEF Progress, Making, RunSteps
  <2>7. CASE tasks[t].op \notin {"update", "run"}
    <3>1. HasRead(read).op = tasks[t].op /\ HasRead(read).step = "open"
      BY <2>3, <2>7 DEF HasRead, Fields
    <3>2. DOMAIN n = Fields /\ n.mission = tasks[t].mission /\ n.profile = tasks[t].profile
          /\ n.op = tasks[t].op /\ n.step \in {"items", "open"}
      BY <2>3, <2>4, <3>1
    <3> HIDE DEF n
    <3>3. Alone(t) /\ tasks'[t] = n
      BY <2>1, Moving
    <3> QED BY <2>7, <3>2, <3>3 DEF Progress
  <2> QED BY <2>5, <2>6, <2>7
<1> QED BY <1>1, <1>2

-----------------------------------------------------------------------------
(* The parts of the invariant, after a step that leaves all handlers but   *)
(* one alone.                                                              *)
LEMMA SoundKept ==
    ASSUME Typed, NEW t \in Tasks, Alone(t), Sound(t)'
    PROVE  DOMAIN tasks' = Tasks /\ \A u \in Tasks : Sound(u)'
<1>1. ASSUME NEW u \in Tasks \ {t} PROVE Sound(u)'
  BY DEF Typed, Alone, Control, Sound
<1> QED BY <1>1 DEF Alone

LEMMA ExclusiveKept ==
    ASSUME Exclusive, NEW t \in Tasks, Alone(t),
           tasks'[t].op \in LoopOps => tasks[t].op \in LoopOps \/ LoopFree
    PROVE  Exclusive'
<1> SUFFICES ASSUME NEW u \in Tasks, NEW v \in Tasks,
                    tasks'[u].op \in LoopOps, tasks'[v].op \in LoopOps
             PROVE  u = v
  BY DEF Exclusive
<1>1. \A w \in Tasks \ {t} : tasks'[w].op = tasks[w].op
  BY DEF Alone, Control
<1> QED BY <1>1 DEF Exclusive, LoopFree

LEMMA WaitingKept ==
    ASSUME Waiting, NEW t \in Tasks, Alone(t), Waits(t)', UNCHANGED <<missions, snapshots>>
    PROVE  Waiting'
<1>1. \A u \in Tasks \ {t} : Waits(u)'
  BY DEF Waiting, Alone, Control, Waits, Making
<1> QED BY <1>1 DEF Waiting

LEMMA DeletingKept ==
    ASSUME Deleting, NEW t \in Tasks, Alone(t), Deletes(t)', MayDelete => MayDelete'
    PROVE  Deleting'
<1>1. \A u \in Tasks \ {t} : Deletes(u)'
  BY DEF Deleting, Alone, Control, Deletes
<1> QED BY <1>1 DEF Deleting

(* A step that progresses keeps what is known of its handler, when mission *)
(* and snapshots stay.                                                     *)
LEMMA ProgressKeeps ==
    ASSUME Inv, NEW t \in Tasks, Alone(t), Progress(t), tasks[t].step # "mission",
           MayDelete => MayDelete', UNCHANGED <<missions, snapshots>>
    PROVE  /\ DOMAIN tasks' = Tasks /\ \A u \in Tasks : Sound(u)'
           /\ Exclusive' /\ Waiting' /\ Deleting'
<1>0. Sound(t) /\ Waits(t) /\ Deletes(t)
  BY DEF Inv, Typed, Waiting, Deleting
<1>1. CASE tasks'[t] = Idle
  <2>1. Sound(t)' /\ Waits(t)' /\ Deletes(t)' /\ tasks'[t].op \notin LoopOps
    BY <1>1, IdleSound DEF Sound, Waits, Making, Deletes, LoopOps
  <2> QED BY <2>1, SoundKept, ExclusiveKept, WaitingKept, DeletingKept DEF Inv
<1>2. CASE tasks'[t] # Idle
  <2>1. /\ tasks'[t].op = tasks[t].op \/ (tasks[t].op = "update" /\ tasks'[t].op = "replace")
        /\ tasks'[t].op = "run" => tasks[t].op = "run" /\ Making(t)
    BY <1>2 DEF Progress, Making
  <2>2. Sound(t)'
    <3>1. tasks'[t].op = "run" => /\ tasks'[t].step \in RunSteps
                                  /\ tasks'[t].profile \in Profiles
                                  /\ tasks'[t].mission \in Missions
      BY <1>0, <1>2, <2>1 DEF Sound, Progress, Making
    <3>2. tasks'[t].step = "drop" => tasks'[t].op = "delete"
      BY <1>0, <1>2 DEF Sound, Progress
    <3> QED BY <1>2, <3>1, <3>2 DEF Sound, Progress
  <2>3. Waits(t)'
    BY <1>0, <1>2, <2>1 DEF Waits, Making, Progress
  <2>4. Deletes(t)'
    BY <1>0, <1>2 DEF Deletes, Progress
  <2>5. tasks'[t].op \in LoopOps => tasks[t].op \in LoopOps
    BY <2>1 DEF LoopOps
  <2> QED BY <2>2, <2>3, <2>4, <2>5, SoundKept, ExclusiveKept, WaitingKept, DeletingKept DEF Inv
<1> QED BY <1>1, <1>2

(* The row after a step of a writer.                                       *)
LEMMA RowKept ==
    ASSUME Inv, NEW t \in Tasks,
           \/ Upsert(t) \/ ClearItems(t) \/ InsertItem(t) \/ TakeItem(t) \/ Touch(t)
           \/ OpenFile(t) \/ WriteFile(t) \/ CountRuns(t) \/ DropRow(t) \/ Unlink(t)
    PROVE  /\ row' \in [version : Nat, builtIn : BOOLEAN] \cup {None}
           /\ MayDelete => MayDelete'
           /\ UNCHANGED <<profileVars, missions, snapshots>>
           /\ tasks[t].step # "mission"
           /\ row # None /\ row' = None => MayDelete
           /\ row # None /\ row' # None /\ row' # row =>
                row'.version > row.version /\ row'.builtIn = row.builtIn
<1>0. row = None \/ (row.version \in Nat /\ row.builtIn \in BOOLEAN)
  BY DEF Inv, Typed
<1>1. CASE Upsert(t)
  <2> DEFINE new == [version |-> NewVersion, builtIn |-> row # None /\ row.builtIn]
  <2>1. row' = new /\ tasks[t].step # "mission"
        /\ UNCHANGED <<profileVars, missions, snapshots>>
    BY <1>1 DEF Upsert, At
  <2>2. NewVersion \in Nat /\ (row # None => NewVersion > row.version)
    BY <1>0 DEF NewVersion
  <2>3. (row # None /\ row.builtIn) \in BOOLEAN
    OBVIOUS
  <2>4. new \in [version : Nat, builtIn : BOOLEAN]
    BY <2>2, <2>3
  <2>5. new # None
    BY <2>4, ScenarioAssumption
  <2>6. new.version = NewVersion /\ new.builtIn = (row # None /\ row.builtIn)
    OBVIOUS
  <2> HIDE DEF new
  <2>7. row # None => new.builtIn = row.builtIn
    BY <1>0, <2>6
  <2>8. MayDelete => MayDelete'
    BY <1>0, <2>1, <2>6 DEF MayDelete
  <2> QED BY <2>1, <2>2, <2>4, <2>5, <2>6, <2>7, <2>8
<1>2. CASE Touch(t)
  <2>1. CASE row = None
    BY <1>2, <2>1 DEF Touch, MayDelete, At
  <2>2. CASE row # None
    <3>1. row' = [row EXCEPT !.version = @ + 1] /\ row \in [version : Nat, builtIn : BOOLEAN]
      BY <1>2, <2>2 DEF Touch, Inv, Typed
    <3>2. row' \in [version : Nat, builtIn : BOOLEAN] /\ row'.builtIn = row.builtIn
          /\ row'.version = row.version + 1
      BY <3>1
    <3>3. row' # None
      BY <3>2, ScenarioAssumption
    <3>4. MayDelete => MayDelete'
      BY <2>2, <3>2 DEF MayDelete
    <3>5. UNCHANGED <<profileVars, missions, snapshots>> /\ tasks[t].step # "mission"
      BY <1>2 DEF Touch, At
    <3> QED BY <1>0, <2>2, <3>2, <3>3, <3>4, <3>5
  <2> QED BY <2>1, <2>2
<1>3. CASE DropRow(t)
  <2>1. MayDelete
    BY <1>3 DEF DropRow, At, Inv, Deleting, Deletes
  <2>2. row' = None \/ row' = row
    BY <1>3 DEF DropRow
  <2>3. UNCHANGED <<profileVars, missions, snapshots>> /\ tasks[t].step # "mission"
    BY <1>3 DEF DropRow, At
  <2> QED BY <2>1, <2>2, <2>3 DEF Inv, Typed, MayDelete
<1>4. CASE \/ ClearItems(t) \/ InsertItem(t) \/ TakeItem(t)
           \/ OpenFile(t) \/ WriteFile(t) \/ CountRuns(t) \/ Unlink(t)
  BY <1>4 DEF ClearItems, InsertItem, TakeItem, OpenFile, WriteFile, CountRuns, Unlink,
              Quiet, scenario, At, Inv, Typed, MayDelete
<1> QED BY <1>1, <1>2, <1>3, <1>4

LEMMA ProfilesKept ==
    ASSUME Typed, RunsHaveProfiles, UNCHANGED profileVars
    PROVE  /\ profiles' \in [Profiles -> Profile \cup {None}] /\ runs' \subseteq Profiles
           /\ RunsHaveProfiles'
BY DEF Typed, profileVars, RunsHaveProfiles

LEMMA WriterKeeps ==
    ASSUME Inv, NEW t \in Tasks,
           \/ Upsert(t) \/ ClearItems(t) \/ InsertItem(t) \/ TakeItem(t) \/ Touch(t)
           \/ OpenFile(t) \/ WriteFile(t) \/ CountRuns(t) \/ DropRow(t) \/ Unlink(t)
    PROVE  Inv' /\ UNCHANGED snapshots
<1>1. Alone(t) /\ Progress(t)
  BY WritersProgress DEF Inv
<1>2. /\ row' \in [version : Nat, builtIn : BOOLEAN] \cup {None}
      /\ MayDelete => MayDelete'
      /\ UNCHANGED <<profileVars, missions, snapshots>>
      /\ tasks[t].step # "mission"
  BY RowKept
<1>3. /\ DOMAIN tasks' = Tasks /\ \A u \in Tasks : Sound(u)'
      /\ Exclusive' /\ Waiting' /\ Deleting'
  BY <1>1, <1>2, ProgressKeeps
<1>4. /\ profiles' \in [Profiles -> Profile \cup {None}] /\ runs' \subseteq Profiles
      /\ RunsHaveProfiles'
  BY <1>2, ProfilesKept DEF Inv
<1> QED BY <1>2, <1>3, <1>4 DEF Inv, Typed

LEMMA ReaderKeeps ==
    ASSUME Inv, NEW t \in Tasks, ReadRow(t) \/ ReadTable(t)
    PROVE  Inv' /\ UNCHANGED snapshots
<1>1. Alone(t) /\ Progress(t)
  BY ReadersProgress DEF Inv
<1>2. UNCHANGED <<profileVars, row, missions, snapshots>> /\ tasks[t].step # "mission"
  BY DEF ReadRow, ReadTable, Quiet, At, scenario
<1>3. MayDelete => MayDelete'
  BY <1>2 DEF MayDelete
<1>4. /\ DOMAIN tasks' = Tasks /\ \A u \in Tasks : Sound(u)'
      /\ Exclusive' /\ Waiting' /\ Deleting'
  BY <1>1, <1>2, <1>3, ProgressKeeps
<1>5. /\ profiles' \in [Profiles -> Profile \cup {None}] /\ runs' \subseteq Profiles
      /\ RunsHaveProfiles'
  BY <1>2, ProfilesKept DEF Inv
<1> QED BY <1>2, <1>4, <1>5 DEF Inv, Typed

(* A handler that makes a mission starts to wait; its mission is new.      *)
LEMMA MakeMissionKeeps ==
    ASSUME Inv, NEW t \in Tasks, MakeMission(t)
    PROVE  Inv' /\ UNCHANGED snapshots
<1> DEFINE m == tasks[t].mission
<1>1. /\ tasks[t].step = "mission" /\ tasks[t].op = "run" /\ m \in Missions
      /\ tasks[t].profile \in Profiles /\ Sound(t)
  BY DEF MakeMission, At, Inv, Typed, Sound
<1>2. /\ missions' = missions \cup {m} /\ UNCHANGED <<profileVars, row, snapshots>>
      /\ IF m \in missions THEN End(t) ELSE Goto(t, "row")
  BY DEF MakeMission, scenario
<1>3. /\ Alone(t) /\ Sound(t)' /\ Waits(t)' /\ Deletes(t)'
      /\ tasks'[t].op \in {"idle", "run"}
  <2>1. CASE m \in missions
    <3>1. Alone(t) /\ tasks'[t] = Idle
      BY <1>2, <2>1, Ending DEF Inv
    <3> QED BY <3>1, IdleSound DEF Sound, Waits, Making, Deletes
  <2>2. CASE m \notin missions
    <3>1. /\ Alone(t) /\ DOMAIN tasks'[t] = Fields
          /\ Control(t)' = <<tasks[t].op, "row", tasks[t].mission, tasks[t].profile>>
      BY <1>2, <2>2, Going DEF Inv
    <3>2. snapshots[m] = None
      BY <1>1, <2>2 DEF Inv, Waiting
    <3> QED BY <1>1, <1>2, <3>1, <3>2 DEF Sound, Waits, Making, Deletes, Control, RunSteps
  <2> QED BY <2>1, <2>2
<1>4. DOMAIN tasks' = Tasks /\ \A u \in Tasks : Sound(u)'
  BY <1>3, SoundKept DEF Inv
<1>5. Exclusive'
  BY <1>1, <1>3, ExclusiveKept DEF Inv, LoopOps
<1>6. Deleting'
  BY <1>2, <1>3, DeletingKept DEF Inv, MayDelete
<1>7. Waiting'
  <2>1. \A u \in Tasks \ {t} : Waits(u)'
    BY <1>2, <1>3 DEF Inv, Waiting, Waits, Making, Alone, Control
  <2> QED BY <1>2, <1>3, <2>1 DEF Inv, Waiting
<1>8. /\ profiles' \in [Profiles -> Profile \cup {None}] /\ runs' \subseteq Profiles
      /\ RunsHaveProfiles'
  BY <1>2, ProfilesKept DEF Inv
<1> QED BY <1>2, <1>4, <1>5, <1>6, <1>7, <1>8 DEF Inv, Typed

(* A snapshot is written for a mission that has none, by the only handler  *)
(* that waits.                                                             *)
LEMMA SaveSnapshotKeeps ==
    ASSUME Inv, NEW t \in Tasks, SaveSnapshot(t)
    PROVE  /\ Inv'
           /\ \A m \in Missions : snapshots[m] # None => snapshots'[m] = snapshots[m]
<1> DEFINE s == Content(tasks[t].read, Applying(tasks[t].seen))
           n == [Idle EXCEPT !.op = "run", !.step = "insertRun", !.profile = tasks[t].profile]
<1>1. /\ tasks[t].step = "save" /\ tasks[t].op = "run" /\ tasks[t].mission \in Missions
      /\ tasks[t].profile \in Profiles /\ tasks[t].mission \in missions
      /\ snapshots[tasks[t].mission] = None
  BY DEF SaveSnapshot, At, Inv, Typed, Sound, Waiting, Waits, Making
<1>2. /\ tasks' = [tasks EXCEPT ![t] = n]
      /\ snapshots' = [snapshots EXCEPT ![tasks[t].mission] = s]
      /\ UNCHANGED <<profileVars, row, missions>>
  BY DEF SaveSnapshot, scenario
<1>3. /\ DOMAIN n = Fields /\ n.op = "run" /\ n.step = "insertRun"
      /\ n.profile = tasks[t].profile
  BY DEF Idle, Fields
<1> HIDE DEF n, s
<1>4. Alone(t) /\ tasks'[t] = n
  BY <1>2, Moving DEF Inv
<1>5. Sound(t)' /\ Waits(t)' /\ Deletes(t)'
  BY <1>1, <1>3, <1>4 DEF Sound, Waits, Making, Deletes, RunSteps
<1>6. /\ DOMAIN snapshots' = Missions
      /\ \A m \in Missions \ {tasks[t].mission} : snapshots'[m] = snapshots[m]
  BY <1>2 DEF Inv, Typed
<1>7. DOMAIN tasks' = Tasks /\ \A u \in Tasks : Sound(u)'
  BY <1>4, <1>5, SoundKept DEF Inv
<1>8. Exclusive'
  BY <1>1, <1>3, <1>4, ExclusiveKept DEF Inv, LoopOps
<1>9. Deleting'
  BY <1>2, <1>4, <1>5, DeletingKept DEF Inv, MayDelete
<1>10. Waiting'
  <2>1. \A u \in Tasks \ {t} : ~Making(u)
    BY <1>1 DEF Inv, Exclusive, Making, LoopOps
  <2>2. \A u \in Tasks \ {t} : Waits(u)'
    BY <1>4, <2>1 DEF Waits, Making, Alone, Control
  <2>3. \A m \in Missions \ missions : snapshots'[m] = None
    BY <1>1, <1>6 DEF Inv, Waiting
  <2> QED BY <1>2, <1>5, <2>2, <2>3 DEF Waiting
<1>11. /\ profiles' \in [Profiles -> Profile \cup {None}] /\ runs' \subseteq Profiles
       /\ RunsHaveProfiles'
  BY <1>2, ProfilesKept DEF Inv
<1>12. Inv'
  BY <1>2, <1>6, <1>7, <1>8, <1>9, <1>10, <1>11 DEF Inv, Typed
<1> QED BY <1>1, <1>6, <1>12

LEMMA RecordRunKeeps ==
    ASSUME Inv, NEW t \in Tasks, RecordRun(t)
    PROVE  Inv' /\ UNCHANGED snapshots
<1>1. /\ End(t) /\ InsertRun(tasks[t].profile) /\ tasks[t].step = "insertRun"
      /\ UNCHANGED <<row, missions, snapshots>>
  BY DEF RecordRun, At, scenario
<1>2. Alone(t) /\ Progress(t)
  BY <1>1, Ends DEF Inv
<1>3. /\ DOMAIN tasks' = Tasks /\ \A u \in Tasks : Sound(u)'
      /\ Exclusive' /\ Waiting' /\ Deleting'
  BY <1>1, <1>2, ProgressKeeps DEF MayDelete
<1>4. tasks[t].profile \in Profiles
  BY <1>1 DEF Inv, Typed, Sound
<1>5. /\ profiles' \in [Profiles -> Profile \cup {None}] /\ runs' \subseteq Profiles
      /\ RunsHaveProfiles'
  BY <1>1, <1>4 DEF InsertRun, Inv, Typed, RunsHaveProfiles
<1> QED BY <1>1, <1>3, <1>5 DEF Inv, Typed

-----------------------------------------------------------------------------
(* A request that begins as one operation or another.                      *)
LEMMA BeginKeeps ==
    ASSUME Inv, NEW t \in Tasks, NEW n, NEW w, Begin(t, n, w), DOMAIN n = Fields,
           n.op \in LoopOps => LoopFree,
           n.step \in {"upsert", "row", "insert", "take", "count", "mission"},
           n.op = "run" => /\ n.step = "mission" /\ n.mission \in Missions
                           /\ n.profile \in Profiles,
           n.step = "mission" => n.op = "run",
           n.step = "count" => n.op = "delete" /\ MayDelete
    PROVE  Inv' /\ UNCHANGED snapshots
<1>1. /\ Alone(t) /\ DOMAIN tasks'[t] = Fields
      /\ Control(t)' = <<n.op, n.step, n.mission, n.profile>>
      /\ UNCHANGED <<profileVars, row, missions, snapshots>>
  BY Beginning DEF Inv, scenario
<1>2. Sound(t)'
  BY <1>1 DEF Sound, Control, RunSteps
<1>3. Waits(t)'
  BY <1>1 DEF Waits, Making, Control
<1>4. Deletes(t)' /\ (MayDelete => MayDelete')
  BY <1>1 DEF Deletes, MayDelete, Control
<1>5. DOMAIN tasks' = Tasks /\ \A u \in Tasks : Sound(u)'
  BY <1>1, <1>2, SoundKept DEF Inv
<1>6. Exclusive' /\ Waiting' /\ Deleting'
  BY <1>1, <1>3, <1>4, ExclusiveKept, WaitingKept, DeletingKept DEF Inv, Control
<1>7. /\ profiles' \in [Profiles -> Profile \cup {None}] /\ runs' \subseteq Profiles
      /\ RunsHaveProfiles'
  BY <1>1, ProfilesKept DEF Inv
<1> QED BY <1>1, <1>5, <1>6, <1>7 DEF Inv, Typed

LEMMA RequestKeeps ==
    ASSUME Inv, NEW t \in Tasks, Request(t)
    PROVE  Inv' /\ UNCHANGED snapshots
<1>1. ASSUME NEW S \in SUBSET Items, LoopFree,
             Begin(t, [Idle EXCEPT !.op = "create", !.step = "upsert", !.todo = S], S)
      PROVE  Inv' /\ UNCHANGED snapshots
  <2> DEFINE n == [Idle EXCEPT !.op = "create", !.step = "upsert", !.todo = S]
  <2>1. DOMAIN n = Fields /\ n.op = "create" /\ n.step = "upsert"
    BY DEF Idle, Fields
  <2>2. Begin(t, n, S)
    BY <1>1
  <2> HIDE DEF n
  <2> QED BY <1>1, <2>1, <2>2, BeginKeeps
<1>2. CASE UpdateScenario(t)
  <2> DEFINE n == [Idle EXCEPT !.op = "update", !.step = "row"]
  <2>1. DOMAIN n = Fields /\ n.op = "update" /\ n.step = "row"
    BY DEF Idle, Fields
  <2>2. Begin(t, n, items) /\ LoopFree
    BY <1>2 DEF UpdateScenario
  <2> HIDE DEF n
  <2> QED BY <2>1, <2>2, BeginKeeps
<1>3. ASSUME NEW i \in Items, CreateItem(t, i) PROVE Inv' /\ UNCHANGED snapshots
  <2> DEFINE n == [Idle EXCEPT !.op = "createItem", !.step = "insert", !.todo = {i}]
             w == items \cup {i}
  <2>1. DOMAIN n = Fields /\ n.op = "createItem" /\ n.step = "insert"
    BY DEF Idle, Fields
  <2>2. Begin(t, n, w) /\ LoopFree
    BY <1>3 DEF CreateItem
  <2> HIDE DEF n, w
  <2> QED BY <2>1, <2>2, BeginKeeps
<1>4. ASSUME NEW i \in Items, ChangeItem(t, i) PROVE Inv' /\ UNCHANGED snapshots
  <2> DEFINE n == [Idle EXCEPT !.op = "change", !.step = "take", !.item = i]
  <2>1. DOMAIN n = Fields /\ n.op = "change" /\ n.step = "take"
    BY DEF Idle, Fields
  <2>2. Begin(t, n, items)
    BY <1>4 DEF ChangeItem
  <2> HIDE DEF n
  <2> QED BY <2>1, <2>2, BeginKeeps DEF LoopOps
<1>5. ASSUME NEW i \in Items, RemoveItem(t, i) PROVE Inv' /\ UNCHANGED snapshots
  <2> DEFINE n == [Idle EXCEPT !.op = "remove", !.step = "take", !.item = i]
             w == items \ {i}
  <2>1. DOMAIN n = Fields /\ n.op = "remove" /\ n.step = "take"
    BY DEF Idle, Fields
  <2>2. Begin(t, n, w)
    BY <1>5 DEF RemoveItem
  <2> HIDE DEF n, w
  <2> QED BY <2>1, <2>2, BeginKeeps DEF LoopOps
<1>6. CASE DeleteScenario(t)
  <2> DEFINE n == [Idle EXCEPT !.op = "delete", !.step = "count"]
  <2>1. DOMAIN n = Fields /\ n.op = "delete" /\ n.step = "count"
    BY DEF Idle, Fields
  <2>2. Begin(t, n, {}) /\ MayDelete
    BY <1>6 DEF DeleteScenario
  <2> HIDE DEF n
  <2> QED BY <2>1, <2>2, BeginKeeps DEF LoopOps
<1>7. ASSUME NEW m \in Missions, NEW p \in Profiles, CreateRun(t, m, p)
      PROVE  Inv' /\ UNCHANGED snapshots
  <2> DEFINE n == [Idle EXCEPT !.op = "run", !.step = "mission", !.mission = m, !.profile = p]
  <2>1. DOMAIN n = Fields /\ n.op = "run" /\ n.step = "mission" /\ n.mission = m /\ n.profile = p
    BY DEF Idle, Fields
  <2>2. Begin(t, n, items) /\ LoopFree
    BY <1>7 DEF CreateRun
  <2> HIDE DEF n
  <2> QED BY <2>1, <2>2, BeginKeeps
<1>8. CASE CreateScenario(t)
  <2>1. PICK S \in SUBSET Items :
          Begin(t, [Idle EXCEPT !.op = "create", !.step = "upsert", !.todo = S], S)
    BY <1>8 DEF CreateScenario
  <2>2. LoopFree
    BY <1>8 DEF CreateScenario
  <2> QED BY <1>1, <2>1, <2>2
<1> QED BY <1>2, <1>3, <1>4, <1>5, <1>6, <1>7, <1>8 DEF Request

(* While no handler of the event loop runs, no mission is being made.      *)
LEMMA RegisterKeeps ==
    ASSUME Inv, NEW m \in Missions, Register(m) \/ Capture(m)
    PROVE  /\ Inv'
           /\ \A k \in Missions : snapshots[k] # None => snapshots'[k] = snapshots[k]
<1>1. LoopFree /\ UNCHANGED <<profileVars, row, tasks>>
  BY DEF Register, Capture, scenario
<1>2. \A t \in Tasks : Waits(t)'
  BY <1>1 DEF Waits, Making, LoopFree, LoopOps
<1>5. /\ \A k \in Missions : snapshots[k] # None => snapshots'[k] = snapshots[k]
      /\ DOMAIN snapshots' = Missions
      /\ \A k \in Missions \ missions' : snapshots'[k] = None
  <2>1. CASE Register(m)
    BY <2>1 DEF Register, Inv, Typed, Waiting
  <2>2. CASE Capture(m)
    <3>1. m \in missions /\ snapshots[m] = None /\ missions' = missions
      BY <2>2 DEF Capture, Missing
    <3>2. PICK s : snapshots' = [snapshots EXCEPT ![m] = s]
      BY <2>2 DEF Capture
    <3> QED BY <3>1, <3>2 DEF Inv, Typed, Waiting
  <2> QED BY <2>1, <2>2
<1>6. /\ profiles' \in [Profiles -> Profile \cup {None}] /\ runs' \subseteq Profiles
      /\ RunsHaveProfiles'
  BY <1>1, ProfilesKept DEF Inv
<1>7. Typed' /\ Exclusive' /\ Deleting'
  BY <1>1, <1>5, <1>6 DEF Inv, Typed, Sound, Exclusive, Deleting, Deletes, MayDelete
<1> QED BY <1>2, <1>5, <1>6, <1>7 DEF Inv, Waiting

(* The operations on profiles, and the seeding of the shipped ones.        *)
LEMMA ProfilesStep ==
    ASSUME Typed, RunsHaveProfiles, ProfilesNext \/ SeedProfiles
    PROVE  /\ profiles' \in [Profiles -> Profile \cup {None}] /\ runs' \subseteq Profiles
           /\ RunsHaveProfiles'
<1>1. runs' = runs
  BY DEF ProfilesNext, SeedProfiles, CreateProfile, UpdateProfile, DeleteProfile
<1>2. None \notin Profile
  BY ProfilesAssumption DEF Profile
<1>3. ASSUME NEW p \in Profiles, NEW e \in BOOLEAN,
             \/ profiles[p] = None /\ profiles' = [profiles EXCEPT ![p] =
                                                     [builtIn |-> FALSE, enabled |-> e]]
             \/ profiles[p] # None /\ profiles' = [profiles EXCEPT ![p].enabled = e]
      PROVE  profiles' \in [Profiles -> Profile \cup {None}] /\ RunsHaveProfiles'
  <2>1. CASE profiles[p] = None
    <3>1. profiles' = [profiles EXCEPT ![p] = [builtIn |-> FALSE, enabled |-> e]]
      BY <1>3, <2>1
    <3>2. [builtIn |-> FALSE, enabled |-> e] \in Profile
      BY DEF Profile
    <3>3. p \notin runs /\ p \notin Shipped
      BY <2>1 DEF RunsHaveProfiles
    <3> QED BY <1>1, <3>1, <3>2, <3>3, ProfilesAssumption DEF Typed, RunsHaveProfiles
  <2>2. CASE profiles[p] # None
    <3> DEFINE q == [profiles[p] EXCEPT !.enabled = e]
    <3>1. profiles[p] \in Profile
      BY <2>2 DEF Typed
    <3>2. q \in Profile /\ q.builtIn = profiles[p].builtIn
      BY <3>1 DEF Profile
    <3>3. profiles' = [profiles EXCEPT ![p] = q]
      BY <1>3, <2>2
    <3> HIDE DEF q
    <3> QED BY <1>1, <1>2, <3>2, <3>3, ProfilesAssumption DEF Typed, RunsHaveProfiles
  <2> QED BY <2>1, <2>2
<1>4. ASSUME NEW p \in Profiles, DeleteProfile(p)
      PROVE  profiles' \in [Profiles -> Profile \cup {None}] /\ RunsHaveProfiles'
  BY <1>1, <1>4, ProfilesAssumption DEF DeleteProfile, Deletable, Typed, RunsHaveProfiles
<1>5. CASE SeedProfiles
  <2>1. \A p \in Profiles : profiles'[p] = Seeded(p)
    BY <1>5 DEF SeedProfiles
  <2>2. [builtIn |-> TRUE, enabled |-> TRUE] \in Profile
    BY DEF Profile
  <2>3. \A p \in Profiles : Seeded(p) \in Profile \cup {None}
    BY <2>2 DEF Seeded, Typed
  <2>4. \A p \in Shipped : profiles'[p] # None /\ profiles'[p].builtIn
    BY <1>2, <2>1, <2>2, ProfilesAssumption DEF Seeded
  <2>5. \A p \in runs' : profiles'[p] # None
    BY <1>1, <1>2, <2>1, <2>2 DEF Seeded, Typed, RunsHaveProfiles
  <2> QED BY <1>1, <1>5, <2>3, <2>4, <2>5 DEF SeedProfiles, Typed, RunsHaveProfiles
<1>6. CASE ProfilesNext
  BY <1>1, <1>3, <1>4, <1>6 DEF ProfilesNext, CreateProfile, UpdateProfile, Typed
<1> QED BY <1>1, <1>5, <1>6 DEF Typed

LEMMA RestartKeeps ==
    ASSUME Inv, Restart
    PROVE  Inv' /\ UNCHANGED snapshots
<1>1. tasks' = [t \in Tasks |-> Idle] /\ UNCHANGED <<missions, snapshots>> /\ SeedProfiles
  BY DEF Restart
<1>2. row' = row \/ row' = [version |-> 1, builtIn |-> TRUE]
  BY DEF Restart
<1>3. \A t \in Tasks : tasks'[t] = Idle
  BY <1>1
<1>4. \A t \in Tasks : Sound(t)' /\ Waits(t)' /\ Deletes(t)' /\ tasks'[t].op \notin LoopOps
  BY <1>3, IdleSound DEF Sound, Waits, Making, Deletes, LoopOps
<1>5. /\ profiles' \in [Profiles -> Profile \cup {None}] /\ runs' \subseteq Profiles
      /\ RunsHaveProfiles'
  BY <1>1, ProfilesStep DEF Inv
<1>6. row' \in [version : Nat, builtIn : BOOLEAN] \cup {None}
  <2>1. [version |-> 1, builtIn |-> TRUE] \in [version : Nat, builtIn : BOOLEAN]
    OBVIOUS
  <2> QED BY <1>2, <2>1 DEF Inv, Typed
<1>7. Exclusive' /\ Deleting'
  BY <1>4 DEF Exclusive, Deleting
<1>8. Waiting'
  BY <1>1, <1>4 DEF Inv, Waiting
<1>9. DOMAIN tasks' = Tasks /\ DOMAIN snapshots' = Missions
  BY <1>1 DEF Inv, Typed
<1>10. \A t \in Tasks : Sound(t)'
  BY <1>4
<1>11. Typed'
  BY <1>5, <1>6, <1>9, <1>10 DEF Typed
<1> QED BY <1>1, <1>5, <1>7, <1>8, <1>11 DEF Inv

-----------------------------------------------------------------------------
(* A snapshot stays as it is, or there is none.                            *)
Stay == \A m \in Missions : snapshots[m] # None => snapshots'[m] = snapshots[m]

LEMMA InvInit == Init => Inv
<1> SUFFICES ASSUME Init PROVE Inv
  OBVIOUS
<1>1. \A t \in Tasks : tasks[t] = Idle
  BY DEF Init
<1>2. \A t \in Tasks : Sound(t) /\ Waits(t) /\ Deletes(t) /\ tasks[t].op \notin LoopOps
  BY <1>1, IdleSound DEF Sound, Waits, Making, Deletes, LoopOps
<1>3. row = None \/ row = [version |-> 1, builtIn |-> TRUE]
  BY DEF Init
<1>4. [builtIn |-> TRUE, enabled |-> TRUE] \in Profile /\ None \notin Profile
  BY ProfilesAssumption DEF Profile
<1>5. profiles = [p \in Profiles |->
                    IF p \in Shipped THEN [builtIn |-> TRUE, enabled |-> TRUE] ELSE None]
      /\ runs = {}
  BY DEF Init, ProfilesInit
<1>6. profiles \in [Profiles -> Profile \cup {None}] /\ runs \subseteq Profiles
  BY <1>4, <1>5
<1>7. RunsHaveProfiles
  <2> DEFINE shipped == [builtIn |-> TRUE, enabled |-> TRUE]
  <2>0. Shipped \subseteq Profiles
    BY ProfilesAssumption
  <2>1. \A p \in Shipped : profiles[p] = shipped
    <3> HIDE DEF shipped
    <3>1. profiles = [p \in Profiles |-> IF p \in Shipped THEN shipped ELSE None]
      BY <1>5 DEF shipped
    <3> QED BY <2>0, <3>1
  <2>2. \A p \in Shipped : profiles[p] # None /\ profiles[p].builtIn
    BY <1>4, <2>1
  <2> QED BY <1>5, <2>2 DEF RunsHaveProfiles
<1>8. row \in [version : Nat, builtIn : BOOLEAN] \cup {None}
  <2>1. [version |-> 1, builtIn |-> TRUE] \in [version : Nat, builtIn : BOOLEAN]
    OBVIOUS
  <2> QED BY <1>3, <2>1
<1>9. DOMAIN tasks = Tasks /\ DOMAIN snapshots = Missions /\ Waiting
  BY <1>2 DEF Init, Waiting
<1> HIDE DEF RunsHaveProfiles
<1> QED BY <1>2, <1>6, <1>7, <1>8, <1>9 DEF Inv, Typed, Exclusive, Deleting

LEMMA InvNext == Inv /\ [Next]_vars => Inv' /\ Stay
<1> SUFFICES ASSUME Inv, [Next]_vars PROVE Inv' /\ Stay
  OBVIOUS
<1>1. ASSUME NEW t \in Tasks, Request(t) PROVE Inv' /\ Stay
  BY <1>1, RequestKeeps DEF Stay
<1>2. ASSUME NEW t \in Tasks, Step(t) PROVE Inv' /\ Stay
  <2>1. CASE MakeMission(t)
    BY <2>1, MakeMissionKeeps DEF Stay
  <2>2. CASE SaveSnapshot(t)
    BY <2>2, SaveSnapshotKeeps DEF Stay
  <2>3. CASE RecordRun(t)
    BY <2>3, RecordRunKeeps DEF Stay
  <2>4. CASE ReadRow(t) \/ ReadTable(t)
    BY <2>4, ReaderKeeps DEF Stay
  <2>5. CASE \/ Upsert(t) \/ ClearItems(t) \/ InsertItem(t) \/ TakeItem(t) \/ Touch(t)
             \/ OpenFile(t) \/ WriteFile(t) \/ CountRuns(t) \/ DropRow(t) \/ Unlink(t)
    BY <2>5, WriterKeeps DEF Stay
  <2> QED BY <1>2, <2>1, <2>2, <2>3, <2>4, <2>5 DEF Step
<1>3. ASSUME NEW m \in Missions, Register(m) \/ Capture(m) PROVE Inv' /\ Stay
  BY <1>3, RegisterKeeps DEF Stay
<1>4. CASE ProfilesNext /\ UNCHANGED <<scenario, tasks, missions, snapshots, synced>>
  <2>1. /\ profiles' \in [Profiles -> Profile \cup {None}] /\ runs' \subseteq Profiles
        /\ RunsHaveProfiles'
    BY <1>4, ProfilesStep DEF Inv
  <2>2. UNCHANGED <<row, tasks, missions, snapshots>>
    BY <1>4 DEF scenario
  <2>3. Exclusive' /\ Waiting' /\ Deleting'
    BY <2>2 DEF Inv, Exclusive, Waiting, Waits, Making, Deleting, Deletes, MayDelete
  <2>4. \A t \in Tasks : Sound(t)'
    BY <2>2 DEF Inv, Typed, Sound
  <2> QED BY <2>1, <2>2, <2>3, <2>4 DEF Inv, Typed, Stay
<1>5. CASE Restart
  BY <1>5, RestartKeeps DEF Stay
<1>6. CASE UNCHANGED vars
  <2>1. UNCHANGED <<profileVars, row, tasks, missions, snapshots>>
    BY <1>6 DEF vars, profileVars
  <2>2. /\ profiles' \in [Profiles -> Profile \cup {None}] /\ runs' \subseteq Profiles
        /\ RunsHaveProfiles'
    BY <2>1, ProfilesKept DEF Inv
  <2>3. Exclusive' /\ Waiting' /\ Deleting'
    BY <2>1 DEF Inv, Exclusive, Waiting, Waits, Making, Deleting, Deletes, MayDelete
  <2>4. \A t \in Tasks : Sound(t)'
    BY <2>1 DEF Inv, Typed, Sound
  <2> QED BY <2>1, <2>2, <2>3, <2>4 DEF Inv, Typed, Stay
<1> QED BY <1>1, <1>2, <1>3, <1>4, <1>5, <1>6 DEF Next

LEMMA Invariant == Spec => []Inv
<1>1. Inv /\ [Next]_vars => Inv'
  BY InvNext
<1> QED BY <1>1, InvInit, PTL DEF Spec

(* Nothing changes a snapshot a mission has, whatever handlers, frames of  *)
(* simulators and restarts come between the mission and its snapshot.      *)
THEOREM SnapshotsStay == Spec => SnapshotStays
<1>1. Inv /\ [Next]_vars => [Stay]_snapshots
  BY InvNext
<1>2. Spec => [][Stay]_snapshots
  BY <1>1, Invariant, PTL DEF Spec
<1>3. [][Stay]_snapshots => SnapshotStays
  BY PTL DEF SnapshotStays, Stay
<1> QED BY <1>2, <1>3

(* A run has the profile it was made with, and shipped profiles are there, *)
(* whatever is edited, deleted and seeded meanwhile.                       *)
THEOREM ProfilesOfRuns == Spec => []RunsHaveProfiles
<1>1. Inv => RunsHaveProfiles
  BY DEF Inv
<1> QED BY <1>1, Invariant, PTL

-----------------------------------------------------------------------------
(* The row goes only when it is not built in, and otherwise grows.         *)
Grows ==
    /\ row # None /\ row' = None => ~row.builtIn
    /\ row # None /\ row' # None /\ row' # row =>
         row'.version > row.version /\ row'.builtIn = row.builtIn

LEMMA RowGrows == Inv /\ [Next]_vars => Grows
<1> SUFFICES ASSUME Inv, [Next]_vars PROVE Grows
  OBVIOUS
<1>1. ASSUME NEW t \in Tasks,
             \/ Upsert(t) \/ ClearItems(t) \/ InsertItem(t) \/ TakeItem(t) \/ Touch(t)
             \/ OpenFile(t) \/ WriteFile(t) \/ CountRuns(t) \/ DropRow(t) \/ Unlink(t)
      PROVE  Grows
  BY <1>1, RowKept DEF Grows, MayDelete
<1>2. ASSUME NEW t \in Tasks, NEW n, NEW w, Begin(t, n, w) PROVE row' = row
  BY <1>2 DEF Begin, scenario
<1>3. ASSUME NEW t \in Tasks, Request(t) PROVE row' = row
  BY <1>2, <1>3 DEF Request, CreateScenario, UpdateScenario, DeleteScenario, CreateItem,
                    ChangeItem, RemoveItem, CreateRun
<1>4. ASSUME NEW t \in Tasks,
             \/ ReadRow(t) \/ ReadTable(t) \/ MakeMission(t) \/ SaveSnapshot(t) \/ RecordRun(t)
      PROVE  row' = row
  BY <1>4 DEF ReadRow, ReadTable, MakeMission, SaveSnapshot, RecordRun, Quiet, scenario
<1>5. ASSUME NEW m \in Missions, Register(m) \/ Capture(m) PROVE row' = row
  BY <1>5 DEF Register, Capture, scenario
<1>6. CASE Restart
  BY <1>6 DEF Restart, Seedable, Grows
<1>7. row' = row => Grows
  BY DEF Grows
<1>8. CASE ProfilesNext /\ UNCHANGED <<scenario, tasks, missions, snapshots, synced>>
  BY <1>7, <1>8 DEF scenario
<1>9. CASE UNCHANGED vars
  BY <1>7, <1>9 DEF vars
<1> QED BY <1>1, <1>3, <1>4, <1>5, <1>6, <1>7, <1>8, <1>9 DEF Next, Step

(* While a scenario exists its version only grows, and one that is built   *)
(* in is never deleted, though the check of the latter is transactions     *)
(* before the delete.                                                      *)
THEOREM ScenarioVersionsGrow == Spec => VersionsGrow
<1>1. Inv /\ [Next]_vars =>
        /\ [row # None /\ row' = None => ~row.builtIn]_row
        /\ [row # None /\ row' # None => /\ row'.version > row.version
                                         /\ row'.builtIn = row.builtIn]_row
  BY RowGrows DEF Grows
<1> QED BY <1>1, Invariant, PTL DEF Spec, VersionsGrow

-----------------------------------------------------------------------------
(* What a handler carries from one transaction to the next.                *)
Carries(t) ==
    /\ tasks[t].todo \subseteq Items /\ tasks[t].seen \subseteq Items
    /\ tasks[t].step = "take" => tasks[t].item \in Items
    /\ tasks[t].step \in {"items", "open", "write", "save"} => tasks[t].read \in Versions
    /\ tasks[t].step = "take" => tasks[t].op \in {"change", "remove"}

(* A handler that runs alone: how far it has come to what it is to leave.  *)
Writes(t) ==
    LET task == tasks[t] wanted == task.exact IN
    CASE task.step \in {"upsert", "clear"} -> task.todo = wanted
      [] task.step = "insert" -> items \cup task.todo = wanted
      [] task.step = "take" -> IF task.op = "change" THEN items = wanted /\ task.item \in items
                               ELSE items \ {task.item} = wanted
      [] task.step \in {"touch", "row", "mission", "items", "open", "write", "save"} ->
            items = wanted
      [] task.step = "unlink" -> row = None
      [] OTHER -> TRUE

Reads(t) ==
    LET task == tasks[t] IN
    task.step \in {"items", "open", "write", "save"} =>
      /\ row # None /\ task.read = row.version
      /\ task.seen = IF task.step = "items" THEN items \ task.todo ELSE items

Lone(t) ==
    tasks[t].exact # None =>
      /\ tasks[t].step # "idle" /\ Writes(t) /\ Reads(t)
      /\ \A u \in Tasks \ {t} : tasks[u].step = "idle"

Handled == \A t \in Tasks : Carries(t) /\ Lone(t)

IInv == Inv /\ TypeOK /\ Handled /\ FileFollows

(* The others are as they were, and what is known of the handler that has  *)
(* stepped holds again; it may have ceased to be exact.                    *)
Others(t) == DOMAIN tasks' = Tasks /\ \A u \in Tasks \ {t} : tasks'[u] = tasks[u]
Advances(t) ==
    /\ Others(t) /\ Carries(t)'
    /\ tasks'[t].exact # None =>
         /\ tasks'[t].exact = tasks[t].exact
         /\ tasks'[t].step # "idle" /\ Writes(t)' /\ Reads(t)'

LEMMA HandledKept ==
    ASSUME Handled, NEW t \in Tasks, tasks[t].step # "idle", Advances(t)
    PROVE  Handled'
<1>1. ASSUME NEW u \in Tasks \ {t} PROVE Carries(u)' /\ tasks'[u].exact = None
  <2>1. tasks'[u] = tasks[u] /\ Carries(u) /\ Lone(u)
    BY DEF Handled, Advances, Others
  <2>2. tasks[u].exact = None
    BY <2>1 DEF Lone
  <2> QED BY <2>1, <2>2 DEF Carries
<1>2. \A u \in Tasks \ {t} : Lone(u)'
  BY <1>1 DEF Lone
<1>3. Lone(t)'
  <2>1. CASE tasks'[t].exact = None
    BY <2>1 DEF Lone
  <2>2. CASE tasks'[t].exact # None
    <3>1. Lone(t) /\ tasks[t].exact # None
      BY <2>2 DEF Handled, Advances
    <3>2. \A u \in Tasks \ {t} : tasks'[u].step = "idle"
      BY <3>1 DEF Lone, Advances, Others
    <3> QED BY <2>2, <3>2 DEF Lone, Advances
  <2> QED BY <2>1, <2>2
<1> QED BY <1>1, <1>2, <1>3 DEF Handled, Advances

LEMMA IdleCarries ==
    Idle.todo = {} /\ Idle.seen = {} /\ Idle.exact = None /\ Idle.step = "idle"
BY DEF Idle

LEMMA EndAdvances ==
    ASSUME Typed, NEW t \in Tasks, End(t)
    PROVE  Advances(t)
<1>1. tasks'[t] = Idle /\ Others(t)
  BY DEF Typed, End, Others
<1> QED BY <1>1, IdleCarries DEF Advances, Carries

(* The record of a handler that goes to another step.                      *)
LEMMA GoingKeeps ==
    ASSUME Typed, NEW t \in Tasks, NEW s, Goto(t, s)
    PROVE  /\ Others(t)
           /\ tasks'[t].step = s /\ tasks'[t].op = tasks[t].op
           /\ tasks'[t].todo = tasks[t].todo /\ tasks'[t].item = tasks[t].item
           /\ tasks'[t].read = tasks[t].read /\ tasks'[t].seen = tasks[t].seen
           /\ tasks'[t].exact = tasks[t].exact
BY DEF Typed, Sound, Goto, Others, Fields

(* The record of one that goes on inserting.                               *)
LEMMA InsertingKeeps ==
    ASSUME Typed, NEW t \in Tasks, NEW todo,
           tasks' = [tasks EXCEPT ![t] = Inserting(tasks[t], todo)]
    PROVE  /\ Others(t)
           /\ tasks'[t].todo = todo /\ tasks'[t].seen = tasks[t].seen
           /\ tasks'[t].exact = tasks[t].exact
           /\ todo # {} => tasks'[t].step = "insert"
           /\ todo = {} => tasks'[t].step \in {"touch", "row"}
<1> DEFINE n == Inserting(tasks[t], todo)
<1>1. DOMAIN tasks[t] = Fields
  BY DEF Typed, Sound
<1>2. /\ n.todo = todo /\ n.seen = tasks[t].seen /\ n.exact = tasks[t].exact
      /\ todo # {} => n.step = "insert"
      /\ todo = {} => n.step \in {"touch", "row"}
  <2> DEFINE s == IF todo # {} THEN "insert"
               ELSE IF tasks[t].op \in {"createItem", "change"} THEN "touch" ELSE "row"
  <2>1. n = [tasks[t] EXCEPT !.todo = todo, !.item = None, !.step = s]
    BY DEF Inserting
  <2>2. /\ todo # {} => s = "insert"
        /\ todo = {} => s \in {"touch", "row"}
    OBVIOUS
  <2> HIDE DEF n, s
  <2>3. n.todo = todo /\ n.seen = tasks[t].seen /\ n.exact = tasks[t].exact /\ n.step = s
    BY <1>1, <2>1 DEF Fields
  <2> QED BY <2>2, <2>3
<1> HIDE DEF n
<1>3. tasks'[t] = n /\ Others(t)
  BY DEF Typed, Others, n
<1> QED BY <1>2, <1>3

(* The type of everything, when missions and snapshots stay.               *)
LEMMA TypeKept ==
    ASSUME TypeOK, Inv', UNCHANGED <<missions, snapshots>>,
           row' \in [version : Versions, builtIn : BOOLEAN] \cup {None},
           items' \subseteq Items, items' # {} => row' # None,
           file' \in ContentType \cup {Broken, None}, synced' \in BOOLEAN
    PROVE  TypeOK'
BY DEF TypeOK, Inv, Typed

LEMMA SameScenario ==
    ASSUME TypeOK, FileFollows, Inv', UNCHANGED <<scenario, missions, snapshots, synced>>
    PROVE  TypeOK' /\ FileFollows'
<1>1. row' = row /\ items' = items /\ file' = file /\ synced' = synced
  BY DEF scenario
<1>2. TypeOK'
  BY <1>1, TypeKept DEF TypeOK
<1> QED BY <1>1, <1>2 DEF FileFollows

-----------------------------------------------------------------------------
(* The writers.                                                            *)
Good(t) == Advances(t) /\ TypeOK' /\ FileFollows'

LEMMA UpsertIsGood ==
    ASSUME IInv, Inv', NEW t \in Tasks, Upsert(t)
    PROVE  Good(t)
<1>1. /\ Goto(t, "clear") /\ synced' = FALSE /\ tasks[t].step = "upsert"
      /\ UNCHANGED <<items, file, missions, snapshots>> /\ NewVersion <= MaxVersion
  BY DEF Upsert, At
<1>2. row' \in [version : Versions, builtIn : BOOLEAN]
  <2> DEFINE new == [version |-> NewVersion, builtIn |-> row # None /\ row.builtIn]
  <2>1. NewVersion \in Versions
    BY <1>1, ScenarioAssumption DEF NewVersion, IInv, TypeOK, Versions
  <2>2. new \in [version : Versions, builtIn : BOOLEAN]
    BY <2>1
  <2> QED BY <2>2 DEF Upsert
<1>3. row' # None
  BY <1>2, ScenarioAssumption DEF Versions
<1>4. TypeOK'
  BY <1>1, <1>2, <1>3, TypeKept DEF IInv, TypeOK
<1>5. Advances(t)
  BY <1>1, GoingKeeps DEF IInv, Inv, Handled, Lone, Advances, Carries, Writes, Reads
<1> QED BY <1>1, <1>4, <1>5 DEF Good, FileFollows

LEMMA ClearIsGood ==
    ASSUME IInv, Inv', NEW t \in Tasks, ClearItems(t)
    PROVE  Good(t)
<1>1. /\ tasks' = [tasks EXCEPT ![t] = Inserting(tasks[t], tasks[t].todo)]
      /\ synced' = FALSE /\ tasks[t].step = "clear" /\ items' = {}
      /\ UNCHANGED <<row, file, missions, snapshots>>
  BY DEF ClearItems, At
<1>2. TypeOK'
  BY <1>1, TypeKept DEF IInv, TypeOK
<1>3. Carries(t) /\ Lone(t)
  BY DEF IInv, Handled
<1>4. Advances(t)
  <2> DEFINE todo == tasks[t].todo
  <2>1. /\ Others(t)
        /\ tasks'[t].todo = todo /\ tasks'[t].seen = tasks[t].seen
        /\ tasks'[t].exact = tasks[t].exact
        /\ todo # {} => tasks'[t].step = "insert"
        /\ todo = {} => tasks'[t].step \in {"touch", "row"}
    BY <1>1, InsertingKeeps DEF IInv, Inv
  <2>2. Carries(t)'
    BY <1>3, <2>1 DEF Carries
  <2>3. ASSUME tasks[t].exact # None
        PROVE  tasks'[t].step # "idle" /\ Writes(t)' /\ Reads(t)'
    <3>1. todo = tasks[t].exact
      BY <1>1, <1>3, <2>3 DEF Lone, Writes
    <3> QED BY <1>1, <2>1, <3>1 DEF Writes, Reads
  <2> QED BY <2>1, <2>2, <2>3 DEF Advances
<1> QED BY <1>1, <1>2, <1>4 DEF Good, FileFollows

LEMMA InsertIsGood ==
    ASSUME IInv, Inv', NEW t \in Tasks, InsertItem(t)
    PROVE  Good(t)
<1>1. PICK i \in First(tasks[t].todo) :
         IF Insertable(i)
           THEN /\ items' = items \cup {i} /\ synced' = FALSE
                /\ tasks' = [tasks EXCEPT ![t] = Inserting(@, @.todo \ {i})]
           ELSE End(t) /\ UNCHANGED <<items, synced>>
  BY DEF InsertItem
<1>2. /\ tasks[t].step = "insert" /\ UNCHANGED <<row, file, missions, snapshots>>
  BY DEF InsertItem, At
<1>3. Carries(t) /\ Lone(t)
  BY DEF IInv, Handled
<1>4. i \in tasks[t].todo /\ i \in Items
  BY <1>3 DEF First, Carries
<1>5. CASE Insertable(i)
  <2>1. /\ items' = items \cup {i} /\ synced' = FALSE /\ row # None
        /\ tasks' = [tasks EXCEPT ![t] = Inserting(tasks[t], tasks[t].todo \ {i})]
    BY <1>1, <1>5 DEF Insertable
  <2>2. TypeOK'
    BY <1>2, <1>4, <2>1, TypeKept DEF IInv, TypeOK
  <2>3. Advances(t)
    <3> DEFINE todo == tasks[t].todo \ {i}
    <3>1. /\ Others(t)
          /\ tasks'[t].todo = todo /\ tasks'[t].seen = tasks[t].seen
          /\ tasks'[t].exact = tasks[t].exact
          /\ todo # {} => tasks'[t].step = "insert"
          /\ todo = {} => tasks'[t].step \in {"touch", "row"}
      BY <2>1, InsertingKeeps DEF IInv, Inv
    <3>2. Carries(t)'
      BY <1>3, <3>1 DEF Carries
    <3>3. ASSUME tasks[t].exact # None
          PROVE  tasks'[t].step # "idle" /\ Writes(t)' /\ Reads(t)'
      <4>1. items \cup tasks[t].todo = tasks[t].exact
        BY <1>2, <1>3, <3>3 DEF Lone, Writes
      <4>2. items' \cup todo = tasks[t].exact
        BY <1>4, <2>1, <4>1
      <4>3. todo = {} => items' = tasks[t].exact
        BY <4>2
      <4> HIDE DEF todo
      <4> QED BY <3>1, <4>2, <4>3 DEF Writes, Reads
    <3> QED BY <3>1, <3>2, <3>3 DEF Advances
  <2> QED BY <2>1, <2>2, <2>3 DEF Good, FileFollows
<1>6. CASE ~Insertable(i)
  <2>1. End(t) /\ UNCHANGED <<scenario, missions, snapshots, synced>>
    BY <1>1, <1>2, <1>6 DEF scenario
  <2> QED BY <2>1, EndAdvances, SameScenario DEF IInv, Inv, Good
<1> QED BY <1>5, <1>6

LEMMA TakeIsGood ==
    ASSUME IInv, Inv', NEW t \in Tasks, TakeItem(t)
    PROVE  Good(t)
<1> DEFINE i == tasks[t].item
<1>1. /\ tasks[t].step = "take" /\ UNCHANGED <<row, file, missions, snapshots>>
      /\ items' = items \ {i} /\ synced' = (synced /\ i \notin items)
  BY DEF TakeItem, At
<1>2. Carries(t) /\ Lone(t) /\ i \in Items
  BY <1>1 DEF IInv, Handled, Carries
<1>3. TypeOK'
  <2>1. synced' \in BOOLEAN
    BY <1>1
  <2> QED BY <1>1, <2>1, TypeKept DEF IInv, TypeOK
<1>4. FileFollows'
  <2>1. synced' => items' = items /\ synced
    BY <1>1
  <2> QED BY <1>1, <2>1 DEF IInv, FileFollows
<1>5. Advances(t)
  <2>1. CASE tasks[t].op = "change"
    <3>1. tasks' = [tasks EXCEPT ![t] = Inserting(tasks[t], {i})]
      BY <2>1 DEF TakeItem
    <3>2. /\ Others(t) /\ tasks'[t].todo = {i} /\ tasks'[t].seen = tasks[t].seen
          /\ tasks'[t].exact = tasks[t].exact /\ tasks'[t].step = "insert"
      BY <3>1, InsertingKeeps DEF IInv, Inv
    <3> QED BY <1>1, <1>2, <2>1, <3>2 DEF Lone, Advances, Carries, Writes, Reads
  <2>2. CASE tasks[t].op # "change" /\ Goto(t, "touch")
    BY <1>1, <1>2, <2>2, GoingKeeps DEF IInv, Inv, Lone, Advances, Carries, Writes, Reads
  <2>3. CASE End(t)
    BY <2>3, EndAdvances DEF IInv, Inv
  <2> QED BY <2>1, <2>2, <2>3 DEF TakeItem
<1> QED BY <1>3, <1>4, <1>5 DEF Good

LEMMA TouchIsGood ==
    ASSUME IInv, Inv', NEW t \in Tasks, Touch(t)
    PROVE  Good(t)
<1>1. /\ Goto(t, "row") /\ synced' = FALSE /\ tasks[t].step = "touch"
      /\ UNCHANGED <<items, file, missions, snapshots>>
  BY DEF Touch, At
<1>2. row' \in [version : Versions, builtIn : BOOLEAN] \cup {None}
      /\ (row' = None => row = None)
  <2>1. CASE row = None
    BY <2>1 DEF Touch
  <2>2. CASE row # None
    <3>1. row \in [version : Versions, builtIn : BOOLEAN] /\ row.version < MaxVersion
          /\ row' = [row EXCEPT !.version = @ + 1]
      BY <2>2 DEF Touch, IInv, TypeOK
    <3>2. row.version + 1 \in Versions
      BY <3>1, ScenarioAssumption DEF Versions
    <3>3. row' \in [version : Versions, builtIn : BOOLEAN]
      BY <3>1, <3>2
    <3> QED BY <2>2, <3>3, ScenarioAssumption DEF Versions
  <2> QED BY <2>1, <2>2
<1>3. TypeOK'
  BY <1>1, <1>2, TypeKept DEF IInv, TypeOK
<1>4. Advances(t)
  BY <1>1, GoingKeeps DEF IInv, Inv, Handled, Lone, Advances, Carries, Writes, Reads
<1> QED BY <1>1, <1>3, <1>4 DEF Good, FileFollows

LEMMA OpenIsGood ==
    ASSUME IInv, Inv', NEW t \in Tasks, OpenFile(t)
    PROVE  Good(t)
<1>1. /\ Goto(t, "write") /\ synced' = FALSE /\ tasks[t].step = "open" /\ file' = Broken
      /\ UNCHANGED <<row, items, missions, snapshots>>
  BY DEF OpenFile, At
<1>2. TypeOK'
  BY <1>1, TypeKept DEF IInv, TypeOK
<1>3. Carries(t) /\ Lone(t)
  BY DEF IInv, Handled
<1>4. Advances(t)
  BY <1>1, <1>3, GoingKeeps DEF IInv, Inv, Lone, Advances, Carries, Writes, Reads
<1> QED BY <1>1, <1>2, <1>4 DEF Good, FileFollows

(* What a handler that ran alone has read is the scenario as it is.        *)
LEMMA WriteIsGood ==
    ASSUME IInv, Inv', NEW t \in Tasks, WriteFile(t)
    PROVE  Good(t)
<1>1. /\ End(t) /\ synced' = (tasks[t].exact # None) /\ tasks[t].step = "write"
      /\ file' = Content(tasks[t].read, tasks[t].seen)
      /\ UNCHANGED <<row, items, missions, snapshots>>
  BY DEF WriteFile, At
<1>2. Carries(t) /\ Lone(t)
  BY DEF IInv, Handled
<1>3. file' \in ContentType
  BY <1>1, <1>2 DEF Carries, Content, ContentType
<1>4. TypeOK'
  BY <1>1, <1>3, TypeKept DEF IInv, TypeOK
<1>5. FileFollows'
  <2>1. CASE tasks[t].exact # None
    BY <1>1, <1>2, <2>1 DEF Lone, Reads, FileFollows, Content
  <2>2. CASE tasks[t].exact = None
    BY <1>1, <2>2 DEF FileFollows
  <2> QED BY <2>1, <2>2
<1> QED BY <1>1, <1>4, <1>5, EndAdvances DEF IInv, Inv, Good

LEMMA CountIsGood ==
    ASSUME IInv, Inv', NEW t \in Tasks, CountRuns(t)
    PROVE  Good(t)
<1>1. /\ Goto(t, "drop") \/ End(t)
      /\ tasks[t].step = "count" /\ UNCHANGED <<scenario, missions, snapshots, synced>>
  BY DEF CountRuns, At, Quiet
<1>2. Carries(t) /\ Lone(t)
  BY DEF IInv, Handled
<1>3. CASE Goto(t, "drop")
  BY <1>1, <1>2, <1>3, GoingKeeps, SameScenario
     DEF IInv, Inv, Lone, Advances, Carries, Writes, Reads, Good
<1>4. CASE End(t)
  BY <1>1, <1>4, EndAdvances, SameScenario DEF IInv, Inv, Good
<1> QED BY <1>1, <1>3, <1>4

LEMMA DropIsGood ==
    ASSUME IInv, Inv', NEW t \in Tasks, DropRow(t)
    PROVE  Good(t)
<1>1. /\ tasks[t].step = "drop" /\ UNCHANGED <<file, missions, snapshots>>
  BY DEF DropRow, At
<1>2. Carries(t) /\ Lone(t)
  BY DEF IInv, Handled
<1>3. CASE row = None
  <2>1. End(t) /\ UNCHANGED <<scenario, missions, snapshots, synced>>
    BY <1>3 DEF DropRow, scenario
  <2> QED BY <2>1, EndAdvances, SameScenario DEF IInv, Inv, Good
<1>4. CASE row # None
  <2>1. row' = None /\ items' = {} /\ Goto(t, "unlink") /\ synced' = FALSE
    BY <1>4 DEF DropRow, ItemsLeft
  <2>2. TypeOK'
    BY <1>1, <2>1, TypeKept DEF IInv, TypeOK
  <2>3. Advances(t)
    BY <1>1, <1>2, <2>1, GoingKeeps DEF IInv, Inv, Lone, Advances, Carries, Writes, Reads
  <2> QED BY <2>1, <2>2, <2>3 DEF Good, FileFollows
<1> QED BY <1>3, <1>4

LEMMA UnlinkIsGood ==
    ASSUME IInv, Inv', NEW t \in Tasks, Unlink(t)
    PROVE  Good(t)
<1>1. /\ End(t) /\ synced' = (tasks[t].exact # None) /\ tasks[t].step = "unlink"
      /\ file' = None /\ UNCHANGED <<row, items, missions, snapshots>>
  BY DEF Unlink, At, Unlinked
<1>2. Lone(t)
  BY DEF IInv, Handled
<1>3. TypeOK'
  BY <1>1, TypeKept DEF IInv, TypeOK
<1>4. FileFollows'
  BY <1>1, <1>2 DEF Lone, Writes, FileFollows
<1> QED BY <1>1, <1>3, <1>4, EndAdvances DEF IInv, Inv, Good

-----------------------------------------------------------------------------
(* The readers: what a handler has yet to read is what it has not seen.    *)
LEMMA ReadRowIsGood ==
    ASSUME IInv, Inv', NEW t \in Tasks, ReadRow(t)
    PROVE  Good(t)
<1>1. tasks[t].step = "row" /\ UNCHANGED <<scenario, missions, snapshots, synced>>
  BY DEF ReadRow, At, Quiet
<1>2. TypeOK' /\ FileFollows'
  BY <1>1, SameScenario DEF IInv
<1>3. CASE row = None
  <2>1. End(t)
    BY <1>3 DEF ReadRow
  <2> QED BY <1>2, <2>1, EndAdvances DEF IInv, Inv, Good
<1>4. CASE row # None
  <2> DEFINE n == [tasks[t] EXCEPT !.step = "items", !.read = row.version,
                                   !.todo = Items, !.seen = {}]
  <2>1. tasks' = [tasks EXCEPT ![t] = n] /\ DOMAIN tasks[t] = Fields
    BY <1>4 DEF ReadRow, IInv, Inv, Typed, Sound
  <2>2. /\ n.step = "items" /\ n.read = row.version /\ n.todo = Items /\ n.seen = {}
        /\ n.exact = tasks[t].exact
    BY <2>1 DEF Fields
  <2> HIDE DEF n
  <2>3. tasks'[t] = n /\ Others(t)
    BY <2>1 DEF IInv, Inv, Typed, Others
  <2>4. row.version \in Versions /\ items \subseteq Items
    BY <1>4 DEF IInv, TypeOK
  <2>5. Carries(t)'
    BY <2>2, <2>3, <2>4 DEF Carries
  <2>6. ASSUME tasks[t].exact # None PROVE Writes(t)' /\ Reads(t)'
    <3>1. items = tasks[t].exact
      BY <1>1, <2>6 DEF IInv, Handled, Lone, Writes
    <3>2. items' = items /\ row' = row
      BY <1>1 DEF scenario
    <3>3. {} = items \ Items
      BY <2>4
    <3> QED BY <1>4, <2>2, <2>3, <3>1, <3>2, <3>3 DEF Writes, Reads
  <2> QED BY <1>2, <2>2, <2>3, <2>5, <2>6 DEF Advances, Good
<1> QED BY <1>3, <1>4

(* The record of a handler that has read the last table.                   *)
LEMMA HasReadFields ==
    ASSUME NEW read, DOMAIN read = Fields
    PROVE  /\ HasRead(read).exact = read.exact
           /\ read.op = "update" => /\ HasRead(read).step = "upsert"
                                    /\ HasRead(read).todo = read.seen
                                    /\ HasRead(read).seen = {}
           /\ read.op # "update" => /\ HasRead(read).step \in {"save", "open"}
                                    /\ HasRead(read).todo = read.todo
                                    /\ HasRead(read).seen = read.seen
                                    /\ HasRead(read).read = read.read
<1>1. CASE read.op = "update"
  BY <1>1 DEF HasRead, Fields
<1>2. CASE read.op = "run"
  BY <1>2 DEF HasRead, Fields
<1>3. CASE read.op \notin {"update", "run"}
  BY <1>3 DEF HasRead, Fields
<1> QED BY <1>1, <1>2, <1>3

LEMMA ReadTableIsGood ==
    ASSUME IInv, Inv', NEW t \in Tasks, ReadTable(t)
    PROVE  Good(t)
<1>1. PICK i \in First(tasks[t].todo) :
        tasks' = [tasks EXCEPT ![t] = IF Reading(tasks[t], i).todo = {}
                                      THEN HasRead(Reading(tasks[t], i))
                                      ELSE Reading(tasks[t], i)]
  BY DEF ReadTable
<1> DEFINE read == Reading(tasks[t], i)
           todo == tasks[t].todo \ {i}
           seen == tasks[t].seen \cup ({i} \cap items)
           n == IF read.todo = {} THEN HasRead(read) ELSE read
<1>2. tasks[t].step = "items" /\ UNCHANGED <<scenario, missions, snapshots, synced>>
  BY DEF ReadTable, At, Quiet
<1>3. TypeOK' /\ FileFollows'
  BY <1>2, SameScenario DEF IInv
<1>4. Carries(t) /\ Lone(t) /\ DOMAIN tasks[t] = Fields
  BY DEF IInv, Handled, Inv, Typed, Sound
<1>5. /\ DOMAIN read = Fields /\ read.op = tasks[t].op /\ read.step = "items"
      /\ read.todo = todo /\ read.seen = seen
      /\ read.read = tasks[t].read /\ read.exact = tasks[t].exact
  BY <1>2, <1>4 DEF Reading, Fields
<1>6. /\ i \in tasks[t].todo /\ todo \subseteq Items /\ seen \subseteq Items
      /\ tasks[t].read \in Versions
  BY <1>2, <1>4 DEF First, Carries, IInv, TypeOK
<1>7. tasks'[t] = n /\ Others(t)
  <2> HIDE DEF n
  <2>1. tasks' = [tasks EXCEPT ![t] = n]
    BY <1>1 DEF n
  <2> QED BY <2>1 DEF IInv, Inv, Typed, Others
<1>8. /\ n.exact = tasks[t].exact
      /\ \/ n.step = "items" /\ n.todo = todo /\ n.seen = seen /\ n.read = tasks[t].read
         \/ n.step = "upsert" /\ n.todo = seen /\ n.seen = {} /\ todo = {}
         \/ /\ n.step \in {"save", "open"} /\ n.todo = {} /\ n.seen = seen
            /\ n.read = tasks[t].read /\ todo = {}
  <2> HIDE DEF read, todo, seen
  <2> QED BY <1>5, HasReadFields
<1>9. Carries(t)'
  <2> HIDE DEF n, read, todo, seen
  <2> QED BY <1>6, <1>7, <1>8 DEF Carries
<1>10. ASSUME tasks[t].exact # None PROVE Writes(t)' /\ Reads(t)'
  <2>1. /\ items = tasks[t].exact /\ row # None /\ tasks[t].read = row.version
        /\ tasks[t].seen = items \ tasks[t].todo
    BY <1>2, <1>4, <1>10 DEF Lone, Writes, Reads
  <2>2. seen = items \ todo /\ (todo = {} => seen = items)
    BY <1>6, <2>1
  <2>3. items' = items /\ row' = row
    BY <1>2 DEF scenario
  <2> HIDE DEF n, read, todo, seen
  <2> QED BY <1>7, <1>8, <2>1, <2>2, <2>3 DEF Writes, Reads
<1>11. n.step # "idle"
  <2> HIDE DEF n, read, todo, seen
  <2> QED BY <1>8
<1> HIDE DEF n, read, todo, seen
<1> QED BY <1>3, <1>7, <1>8, <1>9, <1>10, <1>11 DEF Advances, Good

-----------------------------------------------------------------------------
(* The creation of a run.                                                  *)
LEMMA MakeMissionIsGood ==
    ASSUME IInv, Inv', NEW t \in Tasks, MakeMission(t)
    PROVE  Good(t)
<1>1. /\ tasks[t].step = "mission" /\ missions' = missions \cup {tasks[t].mission}
      /\ UNCHANGED <<row, items, file, snapshots, synced>>
      /\ End(t) \/ Goto(t, "row")
  BY DEF MakeMission, At, scenario
<1>2. tasks[t].mission \in Missions
  BY <1>1 DEF IInv, Inv, Typed, Sound
<1>3. TypeOK'
  BY <1>1, <1>2 DEF IInv, TypeOK, Inv, Typed
<1>4. FileFollows'
  BY <1>1 DEF IInv, FileFollows
<1>5. Carries(t) /\ Lone(t)
  BY DEF IInv, Handled
<1>6. CASE End(t)
  BY <1>3, <1>4, <1>6, EndAdvances DEF IInv, Inv, Good
<1>7. CASE Goto(t, "row")
  BY <1>1, <1>3, <1>4, <1>5, <1>7, GoingKeeps
     DEF IInv, Inv, Lone, Advances, Carries, Writes, Reads, Good
<1> QED BY <1>1, <1>6, <1>7

LEMMA SaveSnapshotIsGood ==
    ASSUME IInv, Inv', NEW t \in Tasks, SaveSnapshot(t)
    PROVE  Good(t)
<1> DEFINE s == Content(tasks[t].read, Applying(tasks[t].seen))
           n == [Idle EXCEPT !.op = "run", !.step = "insertRun", !.profile = tasks[t].profile]
           m == tasks[t].mission
<1>1. /\ tasks[t].step = "save" /\ UNCHANGED <<row, items, file, missions, synced>>
      /\ tasks' = [tasks EXCEPT ![t] = n] /\ snapshots' = [snapshots EXCEPT ![m] = s]
  BY DEF SaveSnapshot, At, scenario
<1>2. m \in Missions /\ m \in missions
  BY <1>1 DEF IInv, Inv, Typed, Sound, Waiting, Waits, Making
<1>3. s \in ContentType /\ s.items \subseteq Applicable
  <2>1. Carries(t) /\ Applying(tasks[t].seen) \subseteq Items
    BY DEF IInv, Handled, Carries, Applying
  <2>2. tasks[t].read \in Versions
    BY <1>1, <2>1 DEF Carries
  <2> QED BY <2>1, <2>2 DEF Content, ContentType, Applying
<1>4. /\ n.todo = {} /\ n.seen = {} /\ n.exact = None /\ n.step = "insertRun"
  BY DEF Idle
<1> HIDE DEF n, s
<1>5. tasks'[t] = n /\ Others(t)
  BY <1>1 DEF IInv, Inv, Typed, Others
<1>6. Advances(t)
  BY <1>4, <1>5 DEF Advances, Carries
<1>7. TypeOK'
  BY <1>1, <1>2, <1>3 DEF IInv, TypeOK, Inv, Typed
<1>8. FileFollows'
  BY <1>1 DEF IInv, FileFollows
<1> QED BY <1>6, <1>7, <1>8 DEF Good

LEMMA RecordRunIsGood ==
    ASSUME IInv, Inv', NEW t \in Tasks, RecordRun(t)
    PROVE  Good(t)
<1>1. End(t) /\ UNCHANGED <<scenario, missions, snapshots, synced>>
  BY DEF RecordRun
<1> QED BY <1>1, EndAdvances, SameScenario DEF IInv, Inv, Good

LEMMA StepIsGood ==
    ASSUME IInv, Inv', NEW t \in Tasks, Step(t)
    PROVE  IInv'
<1>1. Good(t)
  BY UpsertIsGood, ClearIsGood, InsertIsGood, TakeIsGood, TouchIsGood, ReadRowIsGood,
     ReadTableIsGood, OpenIsGood, WriteIsGood, CountIsGood, DropIsGood, UnlinkIsGood,
     MakeMissionIsGood, SaveSnapshotIsGood, RecordRunIsGood DEF Step
<1>2. tasks[t].step # "idle"
  BY DEF Step, At, Upsert, ClearItems, InsertItem, TakeItem, Touch, ReadRow, ReadTable, OpenFile,
         WriteFile, CountRuns, DropRow, Unlink, MakeMission, SaveSnapshot, RecordRun
<1> QED BY <1>1, <1>2, HandledKept DEF IInv, Good

-----------------------------------------------------------------------------
(* A request makes the others inexact, and is exact when it is alone.      *)
LEMMA BeginIsGood ==
    ASSUME IInv, Inv', NEW t \in Tasks, NEW n, NEW w, Begin(t, n, w), DOMAIN n = Fields,
           n.todo \subseteq Items, n.seen = {},
           \/ n.step = "upsert" /\ n.todo = w
           \/ n.step = "insert" /\ items \cup n.todo = w
           \/ /\ n.step = "take" /\ n.item \in items
              /\ \/ n.op = "change" /\ items = w
                 \/ n.op = "remove" /\ items \ {n.item} = w
           \/ n.step \in {"row", "mission"} /\ items = w
           \/ n.step = "count"
    PROVE  IInv'
<1>1. /\ tasks' = [u \in Tasks |->
                     IF u # t THEN [tasks[u] EXCEPT !.exact = None]
                     ELSE [n EXCEPT !.exact = IF Active = {} THEN w ELSE None]]
      /\ tasks[t].step = "idle"
      /\ UNCHANGED <<scenario, missions, snapshots, synced>>
  BY DEF Begin, At
<1>2. TypeOK' /\ FileFollows'
  BY <1>1, SameScenario DEF IInv
<1>3. ASSUME NEW u \in Tasks \ {t} PROVE Carries(u)' /\ Lone(u)' /\ tasks'[u].step = tasks[u].step
  <2>1. tasks'[u] = [tasks[u] EXCEPT !.exact = None] /\ DOMAIN tasks[u] = Fields
    BY <1>1 DEF IInv, Inv, Typed, Sound
  <2>2. /\ tasks'[u].todo = tasks[u].todo /\ tasks'[u].seen = tasks[u].seen
        /\ tasks'[u].item = tasks[u].item /\ tasks'[u].step = tasks[u].step
        /\ tasks'[u].op = tasks[u].op /\ tasks'[u].read = tasks[u].read
        /\ tasks'[u].exact = None
    BY <2>1 DEF Fields
  <2>3. Carries(u)
    BY DEF IInv, Handled
  <2> QED BY <2>2, <2>3 DEF Carries, Lone
<1>4. /\ tasks'[t].todo = n.todo /\ tasks'[t].seen = n.seen /\ tasks'[t].item = n.item
      /\ tasks'[t].step = n.step /\ tasks'[t].op = n.op
      /\ tasks'[t].exact = IF Active = {} THEN w ELSE None
  <2> DEFINE x == IF Active = {} THEN w ELSE None
  <2>1. tasks'[t] = [n EXCEPT !.exact = x]
    BY <1>1
  <2> HIDE DEF x
  <2>2. /\ tasks'[t].todo = n.todo /\ tasks'[t].seen = n.seen /\ tasks'[t].item = n.item
        /\ tasks'[t].step = n.step /\ tasks'[t].op = n.op /\ tasks'[t].exact = x
    BY <2>1 DEF Fields
  <2> QED BY <2>2 DEF x
<1>5. Carries(t)'
  BY <1>4 DEF Carries, IInv, TypeOK
<1>6. Lone(t)'
  <2> SUFFICES ASSUME tasks'[t].exact # None PROVE Lone(t)'
    BY DEF Lone
  <2>1. Active = {} /\ tasks'[t].exact = w
    BY <1>4
  <2>2. \A u \in Tasks \ {t} : tasks'[u].step = "idle"
    BY <1>3, <2>1 DEF Active, At
  <2>3. items' = items
    BY <1>1 DEF scenario
  <2>4. Writes(t)' /\ Reads(t)' /\ tasks'[t].step # "idle"
    BY <1>4, <2>1, <2>3 DEF Writes, Reads
  <2> QED BY <2>2, <2>4 DEF Lone
<1> QED BY <1>2, <1>3, <1>5, <1>6 DEF IInv, Handled

LEMMA RequestIsGood ==
    ASSUME IInv, Inv', NEW t \in Tasks, Request(t)
    PROVE  IInv'
<1>0. items \subseteq Items
  BY DEF IInv, TypeOK
<1>1. ASSUME NEW S \in SUBSET Items,
             Begin(t, [Idle EXCEPT !.op = "create", !.step = "upsert", !.todo = S], S)
      PROVE  IInv'
  <2> DEFINE n == [Idle EXCEPT !.op = "create", !.step = "upsert", !.todo = S]
  <2>1. DOMAIN n = Fields /\ n.step = "upsert" /\ n.todo = S /\ n.seen = {}
    BY DEF Idle, Fields
  <2> HIDE DEF n
  <2> QED BY <1>1, <2>1, BeginIsGood DEF n
<1>2. CASE UpdateScenario(t)
  <2> DEFINE n == [Idle EXCEPT !.op = "update", !.step = "row"]
  <2>1. DOMAIN n = Fields /\ n.step = "row" /\ n.todo = {} /\ n.seen = {}
    BY DEF Idle, Fields
  <2>2. Begin(t, n, items)
    BY <1>2 DEF UpdateScenario
  <2> HIDE DEF n
  <2> QED BY <2>1, <2>2, BeginIsGood
<1>3. ASSUME NEW i \in Items, CreateItem(t, i) PROVE IInv'
  <2> DEFINE n == [Idle EXCEPT !.op = "createItem", !.step = "insert", !.todo = {i}]
             w == items \cup {i}
  <2>1. DOMAIN n = Fields /\ n.step = "insert" /\ n.todo = {i} /\ n.seen = {}
    BY DEF Idle, Fields
  <2>2. Begin(t, n, w) /\ w = items \cup {i}
    BY <1>3 DEF CreateItem
  <2> HIDE DEF n, w
  <2> QED BY <2>1, <2>2, BeginIsGood
<1>4. ASSUME NEW i \in Items, ChangeItem(t, i) PROVE IInv'
  <2> DEFINE n == [Idle EXCEPT !.op = "change", !.step = "take", !.item = i]
  <2>1. /\ DOMAIN n = Fields /\ n.op = "change" /\ n.step = "take" /\ n.item = i
        /\ n.todo = {} /\ n.seen = {}
    BY DEF Idle, Fields
  <2>2. Begin(t, n, items) /\ i \in items
    BY <1>4 DEF ChangeItem
  <2> HIDE DEF n
  <2> QED BY <2>1, <2>2, BeginIsGood
<1>5. ASSUME NEW i \in Items, RemoveItem(t, i) PROVE IInv'
  <2> DEFINE n == [Idle EXCEPT !.op = "remove", !.step = "take", !.item = i]
             w == items \ {i}
  <2>1. /\ DOMAIN n = Fields /\ n.op = "remove" /\ n.step = "take" /\ n.item = i
        /\ n.todo = {} /\ n.seen = {}
    BY DEF Idle, Fields
  <2>2. Begin(t, n, w) /\ i \in items /\ w = items \ {i}
    BY <1>5 DEF RemoveItem
  <2> HIDE DEF n, w
  <2> QED BY <2>1, <2>2, BeginIsGood
<1>6. CASE DeleteScenario(t)
  <2> DEFINE n == [Idle EXCEPT !.op = "delete", !.step = "count"]
  <2>1. DOMAIN n = Fields /\ n.step = "count" /\ n.todo = {} /\ n.seen = {}
    BY DEF Idle, Fields
  <2>2. Begin(t, n, {})
    BY <1>6 DEF DeleteScenario
  <2> HIDE DEF n
  <2> QED BY <2>1, <2>2, BeginIsGood
<1>7. ASSUME NEW m \in Missions, NEW p \in Profiles, CreateRun(t, m, p)
      PROVE  IInv'
  <2> DEFINE n == [Idle EXCEPT !.op = "run", !.step = "mission", !.mission = m, !.profile = p]
  <2>1. DOMAIN n = Fields /\ n.step = "mission" /\ n.todo = {} /\ n.seen = {}
    BY DEF Idle, Fields
  <2>2. Begin(t, n, items)
    BY <1>7 DEF CreateRun
  <2> HIDE DEF n
  <2> QED BY <2>1, <2>2, BeginIsGood
<1>8. CASE CreateScenario(t)
  BY <1>1, <1>8 DEF CreateScenario
<1> QED BY <1>2, <1>3, <1>4, <1>5, <1>6, <1>7, <1>8 DEF Request

(* What happens beside the handlers changes nothing that they rest on.     *)
LEMMA SameHandled ==
    ASSUME Handled, UNCHANGED <<row, items, tasks>>
    PROVE  Handled'
BY DEF Handled, Carries, Lone, Writes, Reads

LEMMA RegisterIsGood ==
    ASSUME IInv, Inv', NEW m \in Missions, Register(m) \/ Capture(m)
    PROVE  IInv'
<1>1. UNCHANGED <<row, items, file, tasks, synced>>
  BY DEF Register, Capture, scenario
<1>2. Handled' /\ FileFollows'
  BY <1>1, SameHandled DEF IInv, FileFollows
<1>3. TypeOK'
  <2>1. CASE Register(m)
    <3>1. missions' = missions \cup {m} /\ snapshots' = snapshots
      BY <2>1 DEF Register
    <3> QED BY <1>1, <3>1 DEF IInv, TypeOK, Inv, Typed
  <2>2. CASE Capture(m)
    <3>1. PICK S \in SUBSET Items :
            snapshots' = [snapshots EXCEPT ![m] = Content(1, Applying(S))]
      BY <2>2 DEF Capture
    <3> DEFINE s == Content(1, Applying(S))
    <3>2. s \in ContentType /\ s.items \subseteq Applicable
      <4>1. 1 \in Versions /\ Applying(S) \subseteq Items
        BY ScenarioAssumption DEF Versions, Applying
      <4> QED BY <4>1 DEF Content, ContentType, Applying
    <3>3. missions' = missions /\ m \in missions
      BY <2>2 DEF Capture, Missing
    <3> HIDE DEF s
    <3>4. snapshots' = [snapshots EXCEPT ![m] = s]
      BY <3>1 DEF s
    <3> QED BY <1>1, <3>2, <3>3, <3>4 DEF IInv, TypeOK, Inv, Typed
  <2> QED BY <2>1, <2>2
<1> QED BY <1>2, <1>3 DEF IInv

LEMMA RestartIsGood ==
    ASSUME IInv, Inv', Restart
    PROVE  IInv'
<1>1. /\ \A t \in Tasks : tasks'[t] = Idle
      /\ UNCHANGED <<file, missions, snapshots>>
  BY DEF Restart
<1>2. Handled'
  BY <1>1, IdleCarries DEF Handled, Carries, Lone
<1>3. CASE Seedable
  <2>1. /\ row' = [version |-> 1, builtIn |-> TRUE] /\ items' \subseteq file.items
        /\ synced' = FALSE
    BY <1>3 DEF Restart
  <2>2. file.items \subseteq Items
    BY <1>3 DEF Seedable, IInv, TypeOK, ContentType
  <2>3. row' \in [version : Versions, builtIn : BOOLEAN] /\ row' # None
    <3>1. 1 \in Versions /\ 1 \in Nat
      BY ScenarioAssumption DEF Versions
    <3>2. /\ [version |-> 1, builtIn |-> TRUE] \in [version : Versions, builtIn : BOOLEAN]
          /\ [version |-> 1, builtIn |-> TRUE] \in [version : Nat, builtIn : BOOLEAN]
      BY <3>1
    <3> QED BY <2>1, <3>2, ScenarioAssumption
  <2>4. TypeOK'
    BY <1>1, <2>1, <2>2, <2>3, TypeKept DEF IInv, TypeOK
  <2> QED BY <1>2, <2>1, <2>4 DEF IInv, FileFollows
<1>4. CASE ~Seedable
  <2>1. UNCHANGED <<scenario, missions, snapshots, synced>>
    BY <1>1, <1>4 DEF Restart, scenario
  <2> QED BY <1>2, <2>1, SameScenario DEF IInv
<1> QED BY <1>3, <1>4

LEMMA IInvInit == Init => IInv
<1> SUFFICES ASSUME Init PROVE IInv
  OBVIOUS
<1>1. Inv
  BY InvInit
<1>2. Handled
  BY IdleCarries DEF Init, Handled, Carries, Lone
<1>3. /\ row \in [version : Versions, builtIn : BOOLEAN] \cup {None}
      /\ items \subseteq Items /\ (items # {} => row # None)
      /\ file \in ContentType \cup {Broken, None}
      /\ FileFollows
  <2>1. CASE row = None /\ items = {} /\ file = None
    BY <2>1 DEF FileFollows
  <2>2. CASE /\ row = [version |-> 1, builtIn |-> TRUE] /\ items \in SUBSET Items
             /\ file = Content(1, items)
    <3>1. 1 \in Versions /\ 1 \in Nat
      BY ScenarioAssumption DEF Versions
    <3>2. /\ row \in [version : Versions, builtIn : BOOLEAN]
          /\ row \in [version : Nat, builtIn : BOOLEAN]
      BY <2>2, <3>1
    <3>3. row # None /\ row.version = 1
      BY <2>2, <3>2, ScenarioAssumption
    <3>4. file \in ContentType
      BY <2>2, <3>1 DEF Content, ContentType
    <3> QED BY <2>2, <3>2, <3>3, <3>4 DEF FileFollows
  <2> QED BY <2>1, <2>2 DEF Init
<1>4. TypeOK
  BY <1>1, <1>3 DEF Init, TypeOK, Inv, Typed
<1> QED BY <1>1, <1>2, <1>3, <1>4 DEF IInv

LEMMA IInvNext == IInv /\ [Next]_vars => IInv'
<1> SUFFICES ASSUME IInv, [Next]_vars PROVE IInv'
  OBVIOUS
<1>0. Inv'
  BY InvNext DEF IInv
<1>1. ASSUME NEW t \in Tasks, Request(t) \/ Step(t) PROVE IInv'
  BY <1>0, <1>1, RequestIsGood, StepIsGood
<1>2. ASSUME NEW m \in Missions, Register(m) \/ Capture(m) PROVE IInv'
  BY <1>0, <1>2, RegisterIsGood
<1>3. CASE Restart
  BY <1>0, <1>3, RestartIsGood
<1>4. CASE UNCHANGED <<scenario, tasks, missions, snapshots, synced>>
  <2>1. Handled'
    BY <1>4, SameHandled DEF IInv, scenario
  <2> QED BY <1>0, <1>4, <2>1, SameScenario DEF IInv
<1>5. CASE UNCHANGED vars
  <2>1. UNCHANGED <<scenario, tasks, missions, snapshots, synced>>
    BY <1>5 DEF vars, scenario
  <2> QED BY <1>4, <2>1
<1> QED BY <1>1, <1>2, <1>3, <1>4, <1>5 DEF Next

LEMMA ScenarioInvariant == Spec => []IInv
BY IInvInit, IInvNext, PTL DEF Spec

(* Row, items, file and snapshots have their types; the items of a         *)
(* scenario go with it, and a snapshot is of a mission that exists and     *)
(* holds what applies to its vehicle.                                      *)
THEOREM ScenarioTypeCorrect == Spec => []TypeOK
<1>1. IInv => TypeOK
  BY DEF IInv
<1> QED BY <1>1, ScenarioInvariant, PTL

(* The file a handler leaves that ran alone is that of the scenario, for   *)
(* any number of items and tables, whatever handlers came before it and    *)
(* wherever a restart cut them off.                                        *)
THEOREM FilesFollow == Spec => []FileFollows
<1>1. IInv => FileFollows
  BY DEF IInv
<1> QED BY <1>1, ScenarioInvariant, PTL

(* A handler that runs alone reads back what was asked for.                *)
THEOREM AloneExact == Spec => []AloneIsExact
<1>1. IInv => AloneIsExact
  BY DEF IInv, Handled, Lone, Writes, Reads, AloneIsExact
<1> QED BY <1>1, ScenarioInvariant, PTL
=============================================================================
