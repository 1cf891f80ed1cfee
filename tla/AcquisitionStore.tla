--------------------------- MODULE AcquisitionStore ---------------------------
(***************************************************************************)
(* The registry and acquisition tables of OmipRepository                   *)
(* (backend/app/database.py) under the handlers of backend/app/main.py.    *)
(*                                                                         *)
(* A repository method is a short list of SQLite transactions, each taken  *)
(* under the repository lock: one transaction is one action.  Between two  *)
(* transactions of a handler any threadpool handler may run its own.       *)
(* Ingestion handlers are coroutines: they share one event loop and give   *)
(* it up only where they await, so variable "loop" names the coroutine     *)
(* that is between two awaits.  Threadpool handlers never need the loop.   *)
(*                                                                         *)
(* Handlers of a single transaction are atomic actions; the others keep a  *)
(* request record in "req" with the step they take next.                   *)
(***************************************************************************)
EXTENDS Naturals, FiniteSets

CONSTANTS
    Vehicles,   \* vehicle ids clients use
    Sensors,    \* sensor ids
    Missions,   \* mission ids
    Ids,        \* message ids (UUIDs)
    Tasks,      \* ingestion coroutines alive at once
    Threads,    \* threadpool handlers of several transactions alive at once
    Operations, \* the API operations clients call in this instance
    None        \* SQL NULL, and the absent row

AllOperations ==
    {"telemetry", "raw", "heartbeat", "createVehicle", "deleteVehicle",
     "createSensor", "deleteSensor", "createMission", "transition",
     "deleteMission", "cleanup", "restart"}

ASSUME ConstantsAssumption ==
    /\ Tasks \cap Threads = {}
    /\ None \notin Vehicles \cup Sensors \cup Missions \cup Ids
                   \cup Tasks \cup Threads
    /\ Operations \subseteq AllOperations

VARIABLES
    vehicles,   \* rows of table vehicles
    sensors,    \* sensors[s] = the vehicle_id of the row, None if no row
    missions,   \* missions[m] = the row, NoMission if no row
    telemetry,  \* rows of table telemetry
    raw,        \* rows of table raw_sensor_messages
    heartbeats, \* rows of table vehicle_heartbeats
    findings,   \* rows of table integrity_events, one per sensor and mission
    req,        \* req[h] = what handler h is executing
    loop        \* the coroutine that runs between two awaits, or None

tables == <<vehicles, sensors, missions, telemetry, raw, heartbeats, findings>>
vars == <<vehicles, sensors, missions, telemetry, raw, heartbeats, findings,
          req, loop>>

-----------------------------------------------------------------------------
(* Rows and requests.                                                      *)

Handlers == Tasks \cup Threads
Terminal == {"COMPLETED", "ABORTED"}
Status == {"PLANNED", "RUNNING"} \cup Terminal

MissionRow == [vehicle: Vehicles, status: Status,
               started: BOOLEAN, ended: BOOLEAN]
NoMission == [vehicle |-> None, status |-> "ABSENT",
              started |-> FALSE, ended |-> FALSE]

TelemetryRow == [id: Ids, vehicle: Vehicles, mission: Missions]
RawRow == [id: Ids, vehicle: Vehicles, sensor: Sensors, mission: Missions]
HeartbeatRow == [id: Ids, vehicle: Vehicles, mission: Missions \cup {None}]
FindingRow == [sensor: Sensors \cup {None}, mission: Missions]

(* What a handler executes.  "step" is its next transaction; at a          *)
(* Suspended step the coroutine has awaited.  "pass" is 1 while _store_*   *)
(* ensures the rows before the analysis, 2 when insert_telemetry or        *)
(* insert_raw_message ensures them again, and 3 when it does so for a      *)
(* message that the analysis took for a duplicate.                         *)
Suspended == {"idle", "retry", "normalise"}
StoreSteps == {"missionVehicle", "mission", "analyse", "record", "retry",
               "insert", "findings"}

TelemetryRequest ==
    [kind: {"telemetry"}, step: StoreSteps, pass: {1, 2, 3}, id: Ids,
     vehicle: Vehicles, sensor: {None}, mission: Missions]
RawRequest ==
    [kind: {"raw"}, step: StoreSteps \cup {"sensorVehicle", "sensor", "normalise"},
     pass: {1, 2, 3}, id: Ids, vehicle: Vehicles, sensor: Sensors, mission: Missions]
HeartbeatRequest ==
    [kind: {"heartbeat"},
     step: {"heartbeatVehicle", "heartbeatMission", "heartbeatInsert"},
     pass: {1}, id: Ids, vehicle: Vehicles, sensor: {None},
     mission: Missions \cup {None}]
SensorRequest ==
    [kind: {"sensor"}, step: {"newSensorVehicle", "newSensor"}, pass: {1},
     id: {None}, vehicle: Vehicles, sensor: Sensors, mission: {None}]
MissionRequest ==
    [kind: {"mission"}, step: {"newMissionVehicle", "newMission"}, pass: {1},
     id: {None}, vehicle: Vehicles, sensor: {None}, mission: Missions]

Idle == [step |-> "idle"]
TaskRequest == TelemetryRequest \cup RawRequest \cup HeartbeatRequest \cup {Idle}
ThreadRequest == SensorRequest \cup MissionRequest \cup {Idle}

(* The first transaction of _store_telemetry, _store_raw, insert_telemetry *)
(* and insert_raw_message.                                                 *)
EnsureFirst(kind) == IF kind = "raw" THEN "sensorVehicle" ELSE "missionVehicle"

-----------------------------------------------------------------------------
(* Scheduling.                                                             *)

CanRun(h) == h \in Tasks => loop \in {None, h}

LoopAfter(h, step) ==
    IF h \in Threads THEN loop ELSE IF step \in Suspended THEN None ELSE h

Continue(h, step) ==
    /\ req' = [req EXCEPT ![h].step = step]
    /\ loop' = LoopAfter(h, step)

Finish(h) ==
    /\ req' = [req EXCEPT ![h] = Idle]
    /\ loop' = LoopAfter(h, "idle")

Receive(h, request) ==
    /\ req[h] = Idle
    /\ CanRun(h)
    /\ req' = [req EXCEPT ![h] = request]
    /\ loop' = LoopAfter(h, request.step)
    /\ UNCHANGED tables

At(h, step) == req[h].step = step /\ CanRun(h)

-----------------------------------------------------------------------------
(* Ingestion: _store_telemetry, _store_raw, _store_heartbeat.              *)

StoreTelemetry(t, i, v, m) ==
    Receive(t, [kind |-> "telemetry", step |-> EnsureFirst("telemetry"),
                pass |-> 1, id |-> i, vehicle |-> v, sensor |-> None,
                mission |-> m])

StoreRaw(t, i, v, s, m) ==
    Receive(t, [kind |-> "raw", step |-> EnsureFirst("raw"), pass |-> 1,
                id |-> i, vehicle |-> v, sensor |-> s, mission |-> m])

StoreHeartbeat(t, i, v, m) ==
    Receive(t, [kind |-> "heartbeat", step |-> "heartbeatVehicle", pass |-> 1,
                id |-> i, vehicle |-> v, sensor |-> None, mission |-> m])

AfterVehicle(step) ==
    CASE step = "sensorVehicle"     -> "sensor"
      [] step = "missionVehicle"    -> "mission"
      [] step = "heartbeatVehicle"  -> "heartbeatMission"
      [] step = "newSensorVehicle"  -> "newSensor"
      [] step = "newMissionVehicle" -> "newMission"

(* INSERT OR IGNORE of the vehicle, a transaction of its own.              *)
EnsureVehicle(h) ==
    /\ CanRun(h)
    /\ req[h].step \in {"sensorVehicle", "missionVehicle", "heartbeatVehicle",
                        "newSensorVehicle", "newMissionVehicle"}
    /\ vehicles' = vehicles \cup {req[h].vehicle}
    /\ Continue(h, AfterVehicle(req[h].step))
    /\ UNCHANGED <<sensors, missions, telemetry, raw, heartbeats, findings>>

(* INSERT OR IGNORE of the sensor, then the ownership check.  IGNORE does  *)
(* not cover the foreign key on vehicles.                                  *)
SensorOwned(r) ==
    IF sensors[r.sensor] = None
      THEN r.vehicle \in vehicles
      ELSE sensors[r.sensor] = r.vehicle

EnsureSensor(t) ==
    /\ At(t, "sensor")
    /\ IF SensorOwned(req[t])
         THEN /\ sensors' = [sensors EXCEPT ![req[t].sensor] = req[t].vehicle]
              /\ Continue(t, "missionVehicle")
         ELSE Finish(t) /\ UNCHANGED sensors
    /\ UNCHANGED <<vehicles, missions, telemetry, raw, heartbeats, findings>>

(* Mutant: a message makes any mission run again.                          *)
AcquiredAnew(row, v) ==
    [vehicle |-> v, status |-> "RUNNING", started |-> TRUE, ended |-> row.ended]

(* INSERT OR IGNORE of a RUNNING mission, the ownership check, and the     *)
(* promotion of a PLANNED one.  Table missions has no foreign key.         *)
Acquired(row, v) ==
    [vehicle |-> v,
     status  |-> IF row.status \in {"ABSENT", "PLANNED"}
                   THEN "RUNNING" ELSE row.status,
     started |-> TRUE,
     ended   |-> row.ended]

EnsureMission(t) ==
    LET r == req[t] IN
    /\ At(t, "mission")
    /\ IF missions[r.mission].vehicle \in {None, r.vehicle}
         THEN /\ missions' = [missions EXCEPT ![r.mission] =
                                Acquired(@, r.vehicle)]
              /\ Continue(t, IF r.pass = 1 THEN "analyse" ELSE "insert")
         ELSE Finish(t) /\ UNCHANGED missions
    /\ UNCHANGED <<vehicles, sensors, telemetry, raw, heartbeats, findings>>

Stored(kind, i) ==
    \E row \in IF kind = "raw" THEN raw ELSE telemetry : row.id = i

(* analyse_*_detailed reads the stream before the insert.  A message id    *)
(* that is already stored is recorded as a finding, with an await, before  *)
(* the insert is tried.                                                    *)
Analyse(t) ==
    /\ At(t, "analyse")
    /\ IF Stored(req[t].kind, req[t].id)
         THEN Continue(t, "record")
         ELSE /\ req' = [req EXCEPT ![t].step = EnsureFirst(req[t].kind),
                                    ![t].pass = 2]
              /\ loop' = t
    /\ UNCHANGED tables

(* record_integrity_findings: its rows reference vehicle, sensor, mission. *)
Finding(r) == [sensor |-> r.sensor, mission |-> r.mission]
CanRecord(r) ==
    /\ r.vehicle \in vehicles
    /\ r.sensor # None => sensors[r.sensor] # None
    /\ missions[r.mission] # NoMission

RecordDuplicate(t) ==
    /\ At(t, "record")
    /\ IF CanRecord(req[t])
         THEN findings' = findings \cup {Finding(req[t])} /\ Continue(t, "retry")
         ELSE Finish(t) /\ UNCHANGED findings
    /\ UNCHANGED <<vehicles, sensors, missions, telemetry, raw, heartbeats>>

(* Mutants: insert on the strength of what was ensured before the await,   *)
(* or start over.                                                          *)
RetryUnensured(t) ==
    At(t, "retry") /\ Continue(t, "insert") /\ UNCHANGED tables

RetryFromStart(t) ==
    /\ At(t, "retry") /\ Continue(t, EnsureFirst(req[t].kind))
    /\ UNCHANGED tables

(* After the await the insert ensures the rows again.                      *)
RetryInsert(t) ==
    /\ At(t, "retry")
    /\ req' = [req EXCEPT ![t].step = EnsureFirst(req[t].kind),
                          ![t].pass = 3]
    /\ loop' = t
    /\ UNCHANGED tables

(* The primary inserts.  A UNIQUE or FOREIGN KEY failure ends the handler, *)
(* and so does the insert of a supposed duplicate.                         *)
Inserted(t) == IF req[t].pass = 3 THEN Finish(t) ELSE Continue(t, "findings")

InsertTelemetry(t) ==
    LET r == req[t] IN
    /\ At(t, "insert") /\ r.kind = "telemetry"
    /\ IF ~Stored("telemetry", r.id) /\ missions[r.mission] # NoMission
         THEN /\ telemetry' = telemetry \cup
                   {[id |-> r.id, vehicle |-> r.vehicle, mission |-> r.mission]}
              /\ Inserted(t)
         ELSE Finish(t) /\ UNCHANGED telemetry
    /\ UNCHANGED <<vehicles, sensors, missions, raw, heartbeats, findings>>

InsertRaw(t) ==
    LET r == req[t] IN
    /\ At(t, "insert") /\ r.kind = "raw"
    /\ IF ~Stored("raw", r.id) /\ CanRecord(r)
         THEN /\ raw' = raw \cup
                   {[id |-> r.id, vehicle |-> r.vehicle, sensor |-> r.sensor,
                     mission |-> r.mission]}
              /\ Inserted(t)
         ELSE Finish(t) /\ UNCHANGED raw
    /\ UNCHANGED <<vehicles, sensors, missions, telemetry, heartbeats, findings>>

(* The findings of an accepted message, if it has any, and the awaits of   *)
(* the broadcasts.                                                         *)
RecordFindings(t) ==
    /\ At(t, "findings")
    /\ \/ UNCHANGED findings
       \/ CanRecord(req[t]) /\ findings' = findings \cup {Finding(req[t])}
    /\ IF req[t].kind = "raw" THEN Continue(t, "normalise") ELSE Finish(t)
    /\ UNCHANGED <<vehicles, sensors, missions, telemetry, raw, heartbeats>>

(* normalizer.process: no frame yet, or a frame of the same vehicle and    *)
(* mission with a fresh id, which enters _store_telemetry.                 *)
Normalise(t) ==
    /\ At(t, "normalise")
    /\ \/ Finish(t)
       \/ \E i \in Ids :
            /\ ~Stored("telemetry", i)
            /\ req' = [req EXCEPT ![t] =
                 [kind |-> "telemetry", step |-> EnsureFirst("telemetry"),
                  pass |-> 1, id |-> i, vehicle |-> @.vehicle,
                  sensor |-> None, mission |-> @.mission]]
            /\ loop' = t
    /\ UNCHANGED tables

(* insert_heartbeat reads the mission, then inserts.                       *)
CheckHeartbeatMission(t) ==
    LET m == req[t].mission IN
    /\ At(t, "heartbeatMission")
    /\ IF m = None \/ missions[m].vehicle = req[t].vehicle
         THEN Continue(t, "heartbeatInsert")
         ELSE Finish(t)
    /\ UNCHANGED tables

InsertHeartbeat(t) ==
    LET r == req[t] IN
    /\ At(t, "heartbeatInsert")
    /\ IF /\ ~\E row \in heartbeats : row.id = r.id
          /\ r.vehicle \in vehicles
          /\ r.mission # None => missions[r.mission] # NoMission
         THEN heartbeats' = heartbeats \cup
                {[id |-> r.id, vehicle |-> r.vehicle, mission |-> r.mission]}
         ELSE UNCHANGED heartbeats
    /\ Finish(t)
    /\ UNCHANGED <<vehicles, sensors, missions, telemetry, raw, findings>>

-----------------------------------------------------------------------------
(* Registry and mission handlers of the threadpool.                        *)

CreateVehicle(v) ==
    /\ v \notin vehicles
    /\ vehicles' = vehicles \cup {v}
    /\ UNCHANGED <<sensors, missions, telemetry, raw, heartbeats, findings,
                   req, loop>>

(* delete_vehicle counts what refers to the vehicle in its transaction.    *)
DeleteVehicle(v) ==
    /\ v \in vehicles
    /\ \A s \in Sensors : sensors[s] # v
    /\ \A m \in Missions : missions[m].vehicle # v
    /\ \A row \in telemetry \cup raw \cup heartbeats : row.vehicle # v
    /\ vehicles' = vehicles \ {v}
    /\ UNCHANGED <<sensors, missions, telemetry, raw, heartbeats, findings,
                   req, loop>>

(* The endpoint answers 404 unless the vehicle is registered, and only     *)
(* then calls create_sensor, which ensures it again and inserts.           *)
CreateSensor(h, v, s) ==
    /\ v \in vehicles
    /\ Receive(h, [kind |-> "sensor", step |-> "newSensorVehicle", pass |-> 1,
                   id |-> None, vehicle |-> v, sensor |-> s, mission |-> None])

InsertSensor(h) ==
    LET r == req[h] IN
    /\ At(h, "newSensor")
    /\ IF sensors[r.sensor] = None /\ r.vehicle \in vehicles
         THEN sensors' = [sensors EXCEPT ![r.sensor] = r.vehicle]
         ELSE UNCHANGED sensors
    /\ Finish(h)
    /\ UNCHANGED <<vehicles, missions, telemetry, raw, heartbeats, findings>>

(* delete_sensor counts raw messages only; findings hold a foreign key.    *)
DeleteSensor(s) ==
    /\ sensors[s] # None
    /\ \A row \in raw : row.sensor # s
    /\ \A row \in findings : row.sensor # s
    /\ sensors' = [sensors EXCEPT ![s] = None]
    /\ UNCHANGED <<vehicles, missions, telemetry, raw, heartbeats, findings,
                   req, loop>>

CreateMission(h, v, m) ==
    /\ v \in vehicles
    /\ Receive(h, [kind |-> "mission", step |-> "newMissionVehicle", pass |-> 1,
                   id |-> None, vehicle |-> v, sensor |-> None, mission |-> m])

InsertMission(h) ==
    LET r == req[h] IN
    /\ At(h, "newMission")
    /\ IF missions[r.mission] = NoMission
         THEN missions' = [missions EXCEPT ![r.mission] =
                [vehicle |-> r.vehicle, status |-> "PLANNED",
                 started |-> FALSE, ended |-> FALSE]]
         ELSE UNCHANGED missions
    /\ Finish(h)
    /\ UNCHANGED <<vehicles, sensors, telemetry, raw, heartbeats, findings>>

Allowed(status) ==
    CASE status = "PLANNED" -> {"RUNNING", "ABORTED"}
      [] status = "RUNNING" -> {"COMPLETED", "ABORTED"}
      [] OTHER -> {}

(* A row of its own status is left alone, any other target is refused.     *)
TransitionMission(m, target) ==
    /\ target \in Allowed(missions[m].status)
    /\ missions' = [missions EXCEPT
           ![m].status  = target,
           ![m].started = @ \/ target = "RUNNING",
           ![m].ended   = @ \/ target \in Terminal]
    /\ UNCHANGED <<vehicles, sensors, telemetry, raw, heartbeats, findings,
                   req, loop>>

-----------------------------------------------------------------------------
(* Storage handlers, which run on the loop without an await.               *)

(* One transaction deletes the linked rows and the mission.                *)
DeleteMission(m) ==
    /\ loop = None
    /\ missions[m] # NoMission
    /\ findings' = {row \in findings : row.mission # m}
    /\ heartbeats' = {row \in heartbeats : row.mission # m}
    /\ raw' = {row \in raw : row.mission # m}
    /\ telemetry' = {row \in telemetry : row.mission # m}
    /\ missions' = [missions EXCEPT ![m] = NoMission]
    /\ UNCHANGED <<vehicles, sensors, req, loop>>

(* Mutant: running missions are cleaned too.                               *)
EligibleUnlessPlanned(rows) ==
    {row \in rows : missions[row.mission].status # "PLANNED"}

(* Which rows are older than the retention cutoffs is left open.           *)
Eligible(rows) == {row \in rows : missions[row.mission].status \in Terminal}

ExecuteCleanup ==
    /\ loop = None
    /\ \E old \in SUBSET Eligible(telemetry), oldRaw \in SUBSET Eligible(raw) :
         /\ telemetry' = telemetry \ old
         /\ raw' = raw \ oldRaw
    /\ UNCHANGED <<vehicles, sensors, missions, heartbeats, findings, req, loop>>

(* A crash loses every handler; _initialise then registers the vehicle of  *)
(* every mission and telemetry row.                                        *)
Restart ==
    /\ req' = [h \in Handlers |-> Idle]
    /\ loop' = None
    /\ vehicles' = vehicles
         \cup {missions[m].vehicle : m \in {n \in Missions : missions[n] # NoMission}}
         \cup {row.vehicle : row \in telemetry}
    /\ UNCHANGED <<sensors, missions, telemetry, raw, heartbeats, findings>>

-----------------------------------------------------------------------------
Init ==
    /\ vehicles = {} /\ sensors = [s \in Sensors |-> None]
    /\ missions = [m \in Missions |-> NoMission]
    /\ telemetry = {} /\ raw = {} /\ heartbeats = {} /\ findings = {}
    /\ req = [h \in Handlers |-> Idle]
    /\ loop = None

(* A coroutine goes on with the next transaction of its request.           *)
TaskStep(t) ==
    \/ EnsureVehicle(t)   \/ EnsureSensor(t)   \/ EnsureMission(t)
    \/ Analyse(t)         \/ RecordDuplicate(t) \/ RetryInsert(t)
    \/ InsertTelemetry(t) \/ InsertRaw(t)      \/ RecordFindings(t)
    \/ Normalise(t)
    \/ CheckHeartbeatMission(t) \/ InsertHeartbeat(t)

ThreadStep(h) == EnsureVehicle(h) \/ InsertSensor(h) \/ InsertMission(h)

(* A client's message or retry reaches the backend.                        *)
Ingest(t) ==
    \E i \in Ids, v \in Vehicles :
      \/ "telemetry" \in Operations /\ \E m \in Missions : StoreTelemetry(t, i, v, m)
      \/ "raw" \in Operations
           /\ \E s \in Sensors, m \in Missions : StoreRaw(t, i, v, s, m)
      \/ "heartbeat" \in Operations
           /\ \E m \in Missions \cup {None} : StoreHeartbeat(t, i, v, m)

Administer ==
    \E v \in Vehicles :
      \/ "createVehicle" \in Operations /\ CreateVehicle(v)
      \/ "deleteVehicle" \in Operations /\ DeleteVehicle(v)
      \/ "createSensor" \in Operations
           /\ \E h \in Threads, s \in Sensors : CreateSensor(h, v, s)
      \/ "createMission" \in Operations
           /\ \E h \in Threads, m \in Missions : CreateMission(h, v, m)

Operate ==
    \/ "deleteSensor" \in Operations /\ \E s \in Sensors : DeleteSensor(s)
    \/ "transition" \in Operations
         /\ \E m \in Missions, target \in Status : TransitionMission(m, target)
    \/ "deleteMission" \in Operations /\ \E m \in Missions : DeleteMission(m)
    \/ "cleanup" \in Operations /\ ExecuteCleanup
    \/ "restart" \in Operations /\ Restart

Next ==
    \/ \E t \in Tasks : Ingest(t) \/ TaskStep(t)
    \/ \E h \in Threads : ThreadStep(h)
    \/ Administer
    \/ Operate

Spec == Init /\ [][Next]_vars

(* A handler never blocks: its thread, or the loop once a coroutine has    *)
(* it, takes the next step.  asyncio resumes ready coroutines in FIFO      *)
(* order, so one that is ready again and again does get the loop.          *)
Fairness ==
    /\ \A t \in Tasks : SF_vars(TaskStep(t))
    /\ \A h \in Threads : WF_vars(ThreadStep(h))

FairSpec == Spec /\ Fairness

-----------------------------------------------------------------------------
TypesOfTables ==
    /\ vehicles \subseteq Vehicles
    /\ sensors \in [Sensors -> Vehicles \cup {None}]
    /\ missions \in [Missions -> MissionRow \cup {NoMission}]
    /\ telemetry \subseteq TelemetryRow
    /\ raw \subseteq RawRow
    /\ heartbeats \subseteq HeartbeatRow
    /\ findings \subseteq FindingRow

TypesOfRequests ==
    /\ req \in [Handlers -> TaskRequest \cup ThreadRequest]
    /\ \A t \in Tasks : req[t] \in TaskRequest
    /\ \A h \in Threads : req[h] \in ThreadRequest
    /\ loop \in Tasks \cup {None}

(* Tables and requests have their types; a request only ever has the steps *)
(* and the fields of its kind, whatever handler it is handed on to.        *)
TypeOK == TypesOfTables /\ TypesOfRequests

(* A mission that accepted data of vehicle v is v's and has been started.  *)
AcceptedBy(m, v) ==
    /\ missions[m].vehicle = v
    /\ missions[m].status \notin {"ABSENT", "PLANNED"}
    /\ missions[m].started

(* A telemetry row is filed under a mission of its own vehicle that has    *)
(* left PLANNED, whatever was deleted, created again or retried meanwhile: *)
(* insert_telemetry ensures the mission again after the duplicate's await. *)
TelemetryFiled == \A row \in telemetry : AcceptedBy(row.mission, row.vehicle)

(* A raw message is filed under such a mission too, and the vehicle and    *)
(* sensor it names stay registered as long as it is stored.                *)
RawFiled ==
    \A row \in raw :
        /\ AcceptedBy(row.mission, row.vehicle)
        /\ row.vehicle \in vehicles
        /\ sensors[row.sensor] # None

(* A heartbeat that names a mission names one of its own vehicle, although *)
(* insert_heartbeat checks that in an earlier transaction.                 *)
HeartbeatFiled ==
    \A row \in heartbeats :
        /\ row.vehicle \in vehicles
        /\ row.mission # None => missions[row.mission].vehicle = row.vehicle

(* Nothing that is stored is out of place, whatever comes between a check  *)
(* and the insert it is for: one handler's deletion, another's retry, a    *)
(* transition, a cleanup or a restart.                                     *)
RowsFiled == TelemetryFiled /\ RawFiled /\ HeartbeatFiled

(* A mission has an end time exactly when its status is terminal, and one  *)
(* that ran has a start time; late telemetry to an aborted mission, which  *)
(* never ran, does not give it a new life.                                 *)
MissionTimes ==
    \A m \in Missions :
        /\ missions[m].ended <=> missions[m].status \in Terminal
        /\ missions[m].status \in {"RUNNING", "COMPLETED"} => missions[m].started

(* A terminal mission never runs again: ingestion for it, retries and      *)
(* restarts included, leave its status alone until it is deleted.          *)
TerminalStays ==
    [][\A m \in Missions :
         missions[m].status \in Terminal =>
           missions'[m].status \in {missions[m].status, "ABSENT"}]_vars

(* Every accepted request ends, a retried duplicate included: the handler  *)
(* does not go round from its await to the analysis for ever.              *)
HandlersEnd == \A h \in Handlers : req[h] # Idle ~> req[h] = Idle

(* The missions of the store behave as MissionLifecycle promises.          *)
HasData(m) == \E row \in telemetry \cup raw : row.mission = m

Lifecycle == INSTANCE MissionLifecycle WITH
    owner    <- [m \in Missions |-> missions[m].vehicle],
    phase    <- [m \in Missions |-> missions[m].status],
    withData <- {m \in Missions : HasData(m)}

(* Every interleaving of handlers, deletions, cleanups and restarts moves  *)
(* each mission along its lifecycle, or leaves it where it is.             *)
ImplementsLifecycle == Lifecycle!Spec

-----------------------------------------------------------------------------
(* Checks of the code that interleavings get round: see README.            *)

(* A sensor's messages come from the vehicle it is registered to, as the   *)
(* end of ensure_sensor checks.  It fails: the sensor may be deleted and   *)
(* created for another vehicle before the insert of the message.           *)
RawSensorOwned == \A row \in raw : sensors[row.sensor] = row.vehicle

(* A vehicle with missions is not deleted, as delete_vehicle checks.  It   *)
(* fails: the vehicle may be deleted when it is ensured and its mission is *)
(* not inserted yet.                                                       *)
MissionVehicleRegistered ==
    \A m \in Missions : missions[m] # NoMission => missions[m].vehicle \in vehicles
=============================================================================
