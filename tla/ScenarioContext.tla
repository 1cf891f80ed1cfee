---------------------------- MODULE ScenarioContext ----------------------------
(***************************************************************************)
(* environment_context.py for one scenario: its row, its items in three    *)
(* tables, its file, and the snapshots missions get of it.                 *)
(*                                                                         *)
(* A handler is a sequence of transactions and accesses to the file, and   *)
(* nothing holds it together.  The handlers of the event loop exclude one  *)
(* another; those of the thread pool run at any time.                      *)
(***************************************************************************)
EXTENDS VehicleProfiles, Sequences

CONSTANTS
    Tasks,      \* handlers that run at one time
    Tables,     \* the items, one of each table, in the order of the tables
    Applicable, \* the items that apply to the vehicle of the missions
    Missions,
    MaxVersion  \* bound on the version of the scenario

Items == {Tables[k] : k \in DOMAIN Tables}

ASSUME ScenarioAssumption ==
    /\ MaxVersion \in Nat \ {0}
    /\ None \notin Nat \cup [version : Nat, builtIn : BOOLEAN]
    /\ Applicable \subseteq Items /\ None \notin Items

VARIABLES
    row,       \* [version, builtIn] of the scenario, or None
    items,     \* the items in the database
    file,      \* what the scenario's file holds, or None
    tasks,     \* tasks[t] = the handler that runs, and how far it is
    missions,  \* the missions that exist
    snapshots, \* snapshots[m] = [version, items] or None
    synced     \* history: a handler that ran alone wrote file or scenario last

scenario == <<row, items, file>>
vars == <<profiles, runs, row, items, file, tasks, missions, snapshots, synced>>

-----------------------------------------------------------------------------
LoopOps == {"create", "update", "replace", "createItem", "run"}

Idle == [op |-> "idle", step |-> "idle", item |-> None, todo |-> {}, read |-> None,
         seen |-> {}, exact |-> None, mission |-> None, profile |-> None]

Content(version, S) == [version |-> version, items |-> S]
Broken == Content(0, {}) \* a file that is being written

(* The items of a request are written and read in the order of the tables. *)
Before(i, j) == \E k, l \in DOMAIN Tables : k < l /\ Tables[k] = i /\ Tables[l] = j
First(S) == {i \in S : \A j \in S : ~Before(j, i)}

At(t, step) == tasks[t].step = step
Active == {t \in Tasks : ~At(t, "idle")}
LoopFree == \A t \in Tasks : tasks[t].op \notin LoopOps
Goto(t, step) == tasks' = [tasks EXCEPT ![t].step = step]
End(t) == tasks' = [tasks EXCEPT ![t] = Idle]

(* What a handler is to leave is exact as long as no other runs beside it. *)
Begin(t, task, wanted) ==
    /\ At(t, "idle")
    /\ tasks' = [u \in Tasks |->
                   IF u # t THEN [tasks[u] EXCEPT !.exact = None]
                   ELSE [task EXCEPT !.exact = IF Active = {} THEN wanted ELSE None]]
    /\ UNCHANGED <<profileVars, scenario, missions, snapshots, synced>>

Quiet == UNCHANGED <<profileVars, scenario, missions, snapshots, synced>>

-----------------------------------------------------------------------------
(* The requests.  Those that find nothing to do end at once.               *)
CreateScenario(t) ==
    /\ LoopFree /\ row = None
    /\ \E S \in SUBSET Items :
         Begin(t, [Idle EXCEPT !.op = "create", !.step = "upsert", !.todo = S], S)

UpdateScenario(t) ==
    /\ LoopFree
    /\ Begin(t, [Idle EXCEPT !.op = "update", !.step = "row"], items)

CreateItem(t, i) ==
    /\ LoopFree
    /\ Begin(t, [Idle EXCEPT !.op = "createItem", !.step = "insert", !.todo = {i}],
             items \cup {i})

ChangeItem(t, i) ==
    /\ i \in items
    /\ Begin(t, [Idle EXCEPT !.op = "change", !.step = "take", !.item = i], items)

RemoveItem(t, i) ==
    /\ i \in items
    /\ Begin(t, [Idle EXCEPT !.op = "remove", !.step = "take", !.item = i], items \ {i})

MayDelete == row # None => ~row.builtIn

DeleteScenario(t) ==
    /\ MayDelete
    /\ Begin(t, [Idle EXCEPT !.op = "delete", !.step = "count"], {})

CreateRun(t, m, p) ==
    /\ LoopFree /\ row # None /\ Usable(p)
    /\ Begin(t, [Idle EXCEPT !.op = "run", !.step = "mission", !.mission = m, !.profile = p],
             items)

-----------------------------------------------------------------------------
(* The row, written anew: an existing one keeps what makes it built in.    *)
NewVersion == IF row = None THEN 1 ELSE row.version + 1

Upsert(t) ==
    /\ At(t, "upsert") /\ NewVersion <= MaxVersion
    /\ row' = [version |-> NewVersion, builtIn |-> row # None /\ row.builtIn]
    /\ Goto(t, "clear") /\ synced' = FALSE
    /\ UNCHANGED <<profileVars, items, file, missions, snapshots>>

(* The handler goes on inserting, or with what comes after the inserts.    *)
Inserting(task, todo) ==
    [task EXCEPT !.todo = todo, !.item = None,
                 !.step = IF todo # {} THEN "insert"
                          ELSE IF task.op \in {"createItem", "change"} THEN "touch"
                          ELSE "row"]

ClearItems(t) ==
    /\ At(t, "clear")
    /\ items' = {}
    /\ tasks' = [tasks EXCEPT ![t] = Inserting(@, @.todo)]
    /\ synced' = FALSE
    /\ UNCHANGED <<profileVars, row, file, missions, snapshots>>

(* Every insert looks for the scenario first, and the foreign key and the  *)
(* primary key refuse what comes too late: the handler ends where it is.   *)
Insertable(i) == row # None /\ i \notin items

InsertItem(t) ==
    /\ At(t, "insert")
    /\ \E i \in First(tasks[t].todo) :
         IF Insertable(i)
           THEN /\ items' = items \cup {i} /\ synced' = FALSE
                /\ tasks' = [tasks EXCEPT ![t] = Inserting(@, @.todo \ {i})]
           ELSE End(t) /\ UNCHANGED <<items, synced>>
    /\ UNCHANGED <<profileVars, row, file, missions, snapshots>>

(* The delete of one item; remove ends when there was nothing to delete.   *)
TakeItem(t) ==
    LET task == tasks[t] IN
    /\ At(t, "take")
    /\ items' = items \ {task.item}
    /\ synced' = (synced /\ task.item \notin items)
    /\ CASE task.op = "change" ->
              tasks' = [tasks EXCEPT ![t] = Inserting(@, {task.item})]
         [] task.op = "remove" /\ task.item \in items -> Goto(t, "touch")
         [] OTHER -> End(t)
    /\ UNCHANGED <<profileVars, row, file, missions, snapshots>>

Touch(t) ==
    /\ At(t, "touch") /\ (row # None => row.version < MaxVersion)
    /\ row' = IF row = None THEN None ELSE [row EXCEPT !.version = @ + 1]
    /\ Goto(t, "row") /\ synced' = FALSE
    /\ UNCHANGED <<profileVars, items, file, missions, snapshots>>

-----------------------------------------------------------------------------
(* get_scenario: the row, then one table after the other.                  *)
ReadRow(t) ==
    /\ At(t, "row")
    /\ IF row = None THEN End(t)
       ELSE tasks' = [tasks EXCEPT ![t].step = "items", ![t].read = row.version,
                                   ![t].todo = Items, ![t].seen = {}]
    /\ Quiet

(* An update writes what it has read first to the database; what was read  *)
(* goes to a file or a snapshot otherwise.  Mutant: the update, which has  *)
(* no items in its request, does not put back those it read.               *)
HasReadRow(task) ==
    CASE task.op = "update" -> [task EXCEPT !.op = "replace", !.step = "upsert", !.read = None,
                                            !.todo = {}, !.seen = {}]
      [] task.op = "run" -> [task EXCEPT !.step = "save"]
      [] OTHER -> [task EXCEPT !.step = "open"]
HasRead(task) ==
    CASE task.op = "update" -> [task EXCEPT !.op = "replace", !.step = "upsert", !.read = None,
                                            !.todo = task.seen, !.seen = {}]
      [] task.op = "run" -> [task EXCEPT !.step = "save"]
      [] OTHER -> [task EXCEPT !.step = "open"]

Reading(task, i) == [task EXCEPT !.todo = @ \ {i}, !.seen = @ \cup ({i} \cap items)]

ReadTable(t) ==
    /\ At(t, "items")
    /\ \E i \in First(tasks[t].todo) :
         LET read == Reading(tasks[t], i) IN
         tasks' = [tasks EXCEPT ![t] = IF read.todo = {} THEN HasRead(read) ELSE read]
    /\ Quiet

OpenFile(t) ==
    /\ At(t, "open")
    /\ file' = Broken
    /\ Goto(t, "write") /\ synced' = FALSE
    /\ UNCHANGED <<profileVars, row, items, missions, snapshots>>

WriteFile(t) ==
    /\ At(t, "write")
    /\ file' = Content(tasks[t].read, tasks[t].seen)
    /\ End(t) /\ synced' = (tasks[t].exact # None)
    /\ UNCHANGED <<profileVars, row, items, missions, snapshots>>

-----------------------------------------------------------------------------
CountRuns(t) ==
    /\ At(t, "count")
    /\ IF runs # {} THEN End(t) ELSE Goto(t, "drop")
    /\ Quiet

(* The items go with the row; mutant: they do not.                         *)
ItemsLeftAll == items
ItemsLeft == {}

DropRow(t) ==
    /\ At(t, "drop")
    /\ IF row = None
         THEN End(t) /\ UNCHANGED <<row, items, synced>>
         ELSE /\ row' = None /\ items' = ItemsLeft
              /\ Goto(t, "unlink") /\ synced' = FALSE
    /\ UNCHANGED <<profileVars, file, missions, snapshots>>

(* Mutant of Unlinked: the file stays.                                     *)
UnlinkedNever == file
Unlinked == None

Unlink(t) ==
    /\ At(t, "unlink")
    /\ file' = Unlinked
    /\ End(t) /\ synced' = (tasks[t].exact # None)
    /\ UNCHANGED <<profileVars, row, items, missions, snapshots>>

-----------------------------------------------------------------------------
(* create_simulation_run: the mission, its snapshot, the row of the run.   *)
MakeMission(t) ==
    LET m == tasks[t].mission IN
    /\ At(t, "mission")
    /\ IF m \in missions THEN End(t) ELSE Goto(t, "row")
    /\ missions' = missions \cup {m}
    /\ UNCHANGED <<profileVars, scenario, snapshots, synced>>

Applying(S) == S \cap Applicable

SaveSnapshot(t) ==
    LET task == tasks[t] IN
    /\ At(t, "save")
    /\ tasks' = [tasks EXCEPT ![t] = [Idle EXCEPT !.op = "run", !.step = "insertRun",
                                                  !.profile = task.profile]]
    /\ snapshots' = [snapshots EXCEPT ![task.mission] =
                       Content(task.read, Applying(task.seen))]
    /\ UNCHANGED <<profileVars, scenario, missions, synced>>

RecordRun(t) ==
    /\ At(t, "insertRun") /\ End(t)
    /\ InsertRun(tasks[t].profile)
    /\ UNCHANGED <<scenario, missions, snapshots, synced>>

(* Other missions are created without a scenario, and a simulator sends    *)
(* its own, once.  Mutant of Missing: it may send another.                 *)
Register(m) ==
    /\ LoopFree /\ m \notin missions
    /\ missions' = missions \cup {m}
    /\ UNCHANGED <<profileVars, scenario, tasks, snapshots, synced>>

MissingAlways(m) == m \in missions
Missing(m) == m \in missions /\ snapshots[m] = None

Capture(m) ==
    /\ LoopFree /\ Missing(m)
    /\ \E S \in SUBSET Items :
         snapshots' = [snapshots EXCEPT ![m] = Content(1, Applying(S))]
    /\ UNCHANGED <<profileVars, scenario, tasks, missions, synced>>

-----------------------------------------------------------------------------
(* The process dies, and the next start seeds what has a file and no row.  *)
(* A start may die as well, after some of the items; the next one finds    *)
(* the row and leaves the scenario as it is.                               *)
Seedable == row = None /\ file \notin {None, Broken}

Restart ==
    /\ tasks' = [t \in Tasks |-> Idle]
    /\ IF Seedable
         THEN /\ row' = [version |-> 1, builtIn |-> TRUE]
              /\ \E k \in 0..Len(Tables) : items' = file.items \cap {Tables[j] : j \in 1..k}
              /\ synced' = FALSE
         ELSE UNCHANGED <<row, items, synced>>
    /\ SeedProfiles
    /\ UNCHANGED <<file, missions, snapshots>>

-----------------------------------------------------------------------------
(* A database that is empty, or has seeded a scenario that was shipped.    *)
Init ==
    /\ ProfilesInit
    /\ \/ row = None /\ items = {} /\ file = None
       \/ /\ row = [version |-> 1, builtIn |-> TRUE] /\ items \in SUBSET Items
          /\ file = Content(1, items)
    /\ tasks = [t \in Tasks |-> Idle]
    /\ missions = {} /\ snapshots = [m \in Missions |-> None]
    /\ synced = TRUE

Request(t) ==
    \/ CreateScenario(t) \/ UpdateScenario(t) \/ DeleteScenario(t)
    \/ \E i \in Items : CreateItem(t, i) \/ ChangeItem(t, i) \/ RemoveItem(t, i)
    \/ \E m \in Missions, p \in Profiles : CreateRun(t, m, p)
Step(t) ==
    \/ Upsert(t) \/ ClearItems(t) \/ InsertItem(t) \/ TakeItem(t) \/ Touch(t)
    \/ ReadRow(t) \/ ReadTable(t) \/ OpenFile(t) \/ WriteFile(t)
    \/ CountRuns(t) \/ DropRow(t) \/ Unlink(t)
    \/ MakeMission(t) \/ SaveSnapshot(t) \/ RecordRun(t)

Next ==
    \/ \E t \in Tasks : Request(t) \/ Step(t)
    \/ \E m \in Missions : Register(m) \/ Capture(m)
    \/ ProfilesNext /\ UNCHANGED <<scenario, tasks, missions, snapshots, synced>>
    \/ Restart

Spec == Init /\ [][Next]_vars

-----------------------------------------------------------------------------
Versions == 1..MaxVersion
ContentType == [version : Versions, items : SUBSET Items]

(* The row, the file and the snapshots have their types, and no item is    *)
(* without its scenario.                                                   *)
TypeOK ==
    /\ profiles \in [Profiles -> Profile \cup {None}] /\ runs \subseteq Profiles
    /\ row \in [version : Versions, builtIn : BOOLEAN] \cup {None}
    /\ items \subseteq Items /\ (items # {} => row # None)
    /\ file \in ContentType \cup {Broken, None}
    /\ missions \subseteq Missions /\ synced \in BOOLEAN
    /\ snapshots \in [Missions -> ContentType \cup {None}]
    /\ \A m \in Missions : snapshots[m] # None =>
         /\ m \in missions
         /\ snapshots[m].items \subseteq Applicable

(* After a handler that ran alone, the file is that of the scenario: what  *)
(* the next start would seed is what was there, and nothing when nothing   *)
(* was.                                                                    *)
FileFollows ==
    synced => file = IF row = None THEN None ELSE Content(row.version, items)

(* A handler that runs alone reads what it has written, which is what was  *)
(* asked for, whatever the order of its transactions.                      *)
AloneIsExact ==
    \A t \in Tasks : tasks[t].exact # None /\ tasks[t].step \in {"open", "save"} =>
      /\ row # None /\ tasks[t].read = row.version
      /\ tasks[t].seen = items /\ items = tasks[t].exact

(* A scenario that is built in stays, and the version of a scenario only   *)
(* grows while it exists: whoever compares versions sees every change.     *)
VersionsGrow ==
    [][row # None /\ row'= None => ~row.builtIn]_row
    /\ [][row # None /\ row' # None => /\ row'.version > row.version
                                       /\ row'.builtIn = row.builtIn]_row

(* "immutable snapshot so later template edits cannot change historical    *)
(* results": nothing changes a snapshot, while the scenario changes under  *)
(* the handler that takes it and other missions take theirs.               *)
SnapshotStays ==
    [][\A m \in Missions : snapshots[m] # None => snapshots'[m] = snapshots[m]]_snapshots

(* Not kept: a writer that overlaps the delete writes the file again, and  *)
(* the next start brings the scenario back, built in.                      *)
DeletedStays == (row = None /\ tasks = [t \in Tasks |-> Idle]) => file \in {None, Broken}

(* Not kept: the runs are counted in a transaction before the delete.      *)
ReferencedStays == [][runs # {} /\ row # None => row' # None]_<<row, runs>>

(* Not kept: a change that is killed between its delete and its insert     *)
(* loses the item, and so does one whose insert comes after another's      *)
(* delete of it.                                                           *)
Writing == {t \in Tasks : /\ tasks[t].op \in {"change", "replace"}
                          /\ tasks[t].step \in {"upsert", "clear", "insert"}}
Held == items \cup UNION {tasks[t].todo : t \in Writing}
ItemKept ==
    [][\A i \in Held \ Held' : row # None /\ row' # None =>
         \E t \in Tasks : tasks[t].op = "remove" /\ tasks[t].item = i]_vars
=============================================================================
