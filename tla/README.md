# OMIP: formal verification

TLA+ specifications of the Open Mission Intelligence Platform (OMIP), the TLC
configurations that model-check them, and proofs checked by TLAPS.  Paths below
are relative to the repository root; `main.py`, `database.py` and so on are in
`backend/app/`, `multi_sensor_simulator.py` in `simulator/`.

    tlc -workers 2 -config StoreAll.cfg MCAcquisitionStore     # one run
    tlapm AcquisitionStoreProofs.tla                           # one set of proofs

`PROJECT.json` lists components, runs, mutants (deliberate bugs that each
property must detect), the map from definitions to source lines, hazards and
theorems.

## 1. The system

OMIP is one FastAPI process over one SQLite database, an optional MQTT client,
WebSocket dashboards, and simulator processes that the backend starts and that
talk to it over HTTP or MQTT.

**Concurrency.**  Three kinds of execution share the database:

- *Coroutines* (ingestion over HTTP and MQTT, storage, simulation runs,
  acknowledgement and resolution of alerts: `async def`) run on one event loop
  and are interrupted only where they really await: in practice at a broadcast
  to WebSocket clients.
- *Threadpool handlers* (`def` endpoints: vehicles, sensors, missions,
  transitions, mission events) run in parallel with the loop and each other.
- *Threads and processes*: one monitor thread per simulation run, the network
  thread of the MQTT client, the worker thread of the simulator's publisher,
  the simulators themselves.

`OmipRepository` opens a connection per call under a lock, so **one SQL
transaction is atomic and nothing larger is**.  Most methods call other methods
that have transactions of their own (`insert_telemetry` calls `ensure_mission`,
which calls `ensure_vehicle`), so anything may happen between these.  This is
what makes the code hard to test, and it is what the modules model: one
transaction is one action.

### Inventory

| Component | State | Operations | What is hard | Should hold |
|---|---|---|---|---|
| Acquisition store (`database.py`, handlers of `main.py`) | tables vehicles, sensors, missions, telemetry, raw_sensor_messages, vehicle_heartbeats | ingest telemetry, raw message, heartbeat; create and delete vehicle, sensor; create, transition, delete mission; cleanup; restart | checks and inserts in different transactions; retry of a duplicate after an await; late messages of finished or deleted missions | rows are filed under a started mission of their vehicle; terminal missions stay so; times agree with status |
| Data integrity and alerts (`integrity_service.py`, `database.py`, `_store_raw`) | integrity_events, alerts, the stored stream | analyse, record findings, resolve on recovery, acknowledge, resolve | reordered, repeated, missing messages; handlers that wait with an old evaluation; crashes between insert and recording | one active alert per check; every gap, disorder and bad timing on record; recovery in the end, and only on evidence; recurrence alerts again |
| Mission events (`database.py`) | mission_events | create, update, delete | check and write in two transactions | no event without mission; ordered interval |
| Simulation runs (`simulation_runs.py`, `main.py`) | simulation_runs, process table, monitor threads | create, launch, stop, monitor, shutdown, restart | stop against monitor; failing launches; signals at any time | a terminal row means a dead process; a run that was stopped or failed is not COMPLETED; runs end; missions follow |
| Simulator (`multi_sensor_simulator.py`) | process phase, stop flag, mission | register, run, end mission, exit | signal before its handler is installed; a transition that is given up, a mission that is deleted | its mission ends with it |
| Publisher (same file) | bounded queue, worker, counters | submit, send, retry, drop the front, drain | buffer full while sending; 409 means several things; late answers; drain timeout | every message is sent or dropped, once, in the end; what is counted as sent is stored |
| Storage management (`storage_management.py`) | export jobs, backups, retention policy, files | create and run jobs; backup; cleanup; delete mission | crash or failure in a job, and in what records the failure; file and row apart; names that collide | a COMPLETED job has its whole file; no row is left unsettled |
| MQTT runtime (`mqtt_bridge.py`, `api/acquisition.py`) | client, enabled flag, counters | enable, disable, connect, message | network thread against the loop; starts that fail or time out | one network thread at most |
| Normalizer (`normalizer.py`) | latest values per mission | process | memory, cross-stream fusion | a frame mixes one mission only |
| Scenarios, environment (`environment_context.py`, `repositories/`) | scenarios, obstacles, constraints, fields, snapshots, files | create, update, delete, items, seed, snapshot | several transactions and a file, in handlers that overlap | references hold; file and scenario agree; a snapshot does not change |
| Obstacle interaction (`obstacle_interaction.py`) | interaction state per mission and obstacle | evaluate per frame | state and event in different transactions | a risk is announced when it begins |
| Safety analytics (`safety_analytics.py`) | violations, near misses | evaluate per frame | several transactions; failures; a mission deleted meanwhile; a classifier of its own that reads rounded records | one open violation per constraint that is violated; both classifiers agree as far as rounding lets them |
| Platform health (`system_monitoring.py`, `main.py`) | platform alerts | evaluate, acknowledge, resolve | stale reports, two evaluators, failing transactions | a lasting fault has an alert, a lasting health none |
| WebSockets (`main.py`) | list of clients | connect, disconnect, broadcast | the only real await | a slow client does not corrupt tables |
| Vehicle profiles, schemas, configuration | profile rows, request validation | edit, seed, validate | a profile goes while a run is created | runs have their profiles |
| Dashboard, queries, exports, deployment | none | read only | - | - |

Hazards, each with its source line and the properties aimed at it, are in
`PROJECT.json`.

## 2. Modules

| Module | What it is |
|---|---|
| `AcquisitionStore` | tables and handlers of the acquisition store |
| `MissionLifecycle` | abstract: what a mission promises |
| `MissionDeletion` | an observer composed with `AcquisitionStore`: deleted missions nobody asked for again |
| `IntegrityAlerts` | the integrity engine on one stream of one mission |
| `SimulationRuns` | run manager, monitor threads, simulator processes and their missions |
| `MissionEvents` | annotations of missions |
| `DeliveryLedger` | abstract: what the publisher promises |
| `Publisher` | the simulator's publisher: its threads, the wire and the backend's answers |
| `ObstacleInteraction` | interactions, last states and announcements of a mission's obstacles |
| `SafetyAnalytics` | extends it: the handlers of frames, violations, near misses, deletion |
| `StorageJobs` | export jobs, backups and their files |
| `MqttRuntime` | the MQTT consumer that operators enable and disable |
| `PlatformHealth` | extends it: evaluations of the platform and its alerts |
| `VehicleProfiles` | profiles and the runs that refer to them |
| `ScenarioContext` | extends it: a scenario, its items, its file, snapshots of missions |
| `MC*` | instances for TLC |
| `*Proofs` | theorems; `MissionRecordsProofs` is about `MissionEvents` and `SafetyAnalytics` |

Mutants (operators whose comment says "Mutant") stand before the definition
they replace and are used by no specification.

### AcquisitionStore

`vehicles`, `sensors`, `missions`, `telemetry`, `raw`, `heartbeats` are the
tables with the columns that other operations read; `findings` is what
`integrity_events` looks like to foreign keys.  `req[h]` is what handler *h* is
executing: kind, arguments, and `step`, its next transaction.  `loop` names the
coroutine between two awaits; at a step of `Suspended` the coroutine gave the
loop back.  Threadpool handlers ignore `loop`.

`_store_raw` is the chain `StoreRaw`, `EnsureVehicle`, `EnsureSensor`,
`EnsureVehicle`, `EnsureMission`, `Analyse`, the same four ensuring steps again
in `insert_raw_message`, `InsertRaw`, `RecordFindings`, *await*, `Normalise`,
which may continue as telemetry.  If `Analyse` finds the message stored, the
chain is `RecordDuplicate`, *await*, `RetryInsert` and the ensuring steps; that
insert is expected to fail and may succeed when the row was deleted meanwhile.
`_store_telemetry` and `_store_heartbeat` are the corresponding chains.
Operations of one transaction (`DeleteVehicle`, `TransitionMission`,
`DeleteMission`, `ExecuteCleanup`...) are one action each.  A foreign-key or
UNIQUE failure ends the handler (`Finish`).  `Restart` loses all handlers and
does what `_initialise` does to existing tables.

Abstracted: payloads, timestamps (a cleanup may take any subset of the eligible
rows, whatever the cutoffs), texts of errors.

`MissionLifecycle` says that a mission has one owner, moves forward only,
takes data when started, and loses data only when it is over or deleted.
`AcquisitionStore!ImplementsLifecycle` maps the tables to it:
`withData` is the set of missions with telemetry or raw rows.

### IntegrityAlerts

`rows` is the stored stream in order of receipt, `events` and `alerts` the two
tables, `pending[t]` the checks that handler *t* has found healthy and will
resolve after its broadcasts, `now` the server clock.  `verdict` is history
for the properties: the latest outcome of each recoverable check.  `Accept` is
analysis, insert and recording, which share no await; it either resolves at
once or, if it recorded something and so broadcasts, suspends until `Resume`.
A dedup key is the pair of a kind and a message id, number or time bucket;
`active_key` is `key`, `occurrence_count` the set `counted`.  The measured
sampling rate is left open (`Rates`), since only its verdict matters here.

### SimulationRuns

`status`, `ended`, `vehicle`, `mission` are the rows of a run and its mission;
`phase`, `asked`, `code` the simulator process; `held` the manager's process
table; `monitor[r]` the program counter of the run's monitor thread (a member
of `Terminal` is the status it is about to write); `loop` the endpoint that
runs, if any.  The chain of `create_simulation_run` is `CheckRequest` to
`MarkRunning`, that of `stop` is `ReadForStop` to `MarkAborted`, the monitor is
`MonitorWait` to `MonitorForget`, the simulator `Register` to `Exit`.  `poll()`
reports an exit only when the monitor's `wait()` has returned it, since
`Popen.wait` holds the lock that `poll` tries to take (`Reaped`).  A phase
`"exited"` begins when the simulator's `main` has returned: from then on its exit
code is decided and a signal changes nothing.  `EndMission` may give up
(`transition_mission_with_retry`: four failed attempts, or any 4xx) in every
instance, and the simulator exits as if it had not.  `DeleteMission` removes the
mission at any time, and `Recreate` is a message of the simulator that brings it
back.  A database failure after the process has been started
(`simulation_runs.py:165`), which would leave it without a monitor, is not
modelled.

### MissionEvents

`req[h]` holds the write a handler is about to do, as computed from what it
read.  `CheckEvent` (of `create_event`) and `UpdateEvent` read and check;
`InsertEvent` and `WriteEvent` write.

### Publisher

`queue`, `flight` and `reply` are the buffer, the item the worker is sending
and the answer it has got; `sent` and `dropped` the messages behind the two
counters; `main`, `worker`, `closing` the threads.  A section under the
publisher's condition is one action.  `wire` holds attempts that the backend
may handle, also after the worker has turned away (`TurnAway`); a handler may
store a message and fail (`Outcomes`), and from some moment on the backend may
refuse what it does not know with 409 (`Refuse`): an ended mission, a foreign
sensor.  An MQTT broker acknowledges on its own.  `DeliveryLedger` knows only
what is submitted, sent and dropped; `log` gives it the number of submissions.

### SafetyAnalytics and ObstacleInteraction

`tasks[t]` is a handler of a stored frame and what its analyses found so far;
`loop` the handler that holds the event loop.  `PersistInteraction`,
`UpdateInteractionState`, `AnnounceRisk` are the transactions of the obstacle
analysis, after which the handler awaits a broadcast; `CheckConstraints`,
`UpsertViolation` per constraint, `ResolveInactive`, `RecordNearMiss` those of
the safety analysis.  Either is cut short by a failing transaction, and both by
a crash.  `told` and `judged` are history: what became of the news of a risk,
and what the last complete analysis found.  Geometry is a choice among
assessments, in units of 100 nm and 100 ns: `classify_risk` is given the
assessment, `classification` the record of it, which is rounded to six decimals
as Python rounds (`Rounded`, `Recorded`).  Both classifiers are translated with
their thresholds.

### StorageJobs

`jobs` and `backups` are rows, `files` what is on disk, `work` the threads.
The database is a version number that changes under the threads, so a reader
sees when two reads differ; a file is `Partial` from its opening to the end of
its write.  An export that is a package reads twice.  What records a failure is
a transaction, too: `Fail` and `FailBackup` may leave the row as it is.  A backup's file is named
by second and label, so that two backups may share one.

### MqttRuntime and PlatformHealth

`bridge` is the manager's bridge with its two flags, `session` the state of its
client, `threads` the network threads alive.  `enable` holds the loop from
`Start` to one of `StartConnected`, `StartTimesOut`, or `StartFails` and
`Join`; callbacks run meanwhile.  An evaluation of the platform takes one
report (`Evaluate`) and then goes over the conditions twice, raising and
resolving, one transaction and one awaited broadcast each (`Raise`,
`AutoResolve`, `Pass`).  A transaction that fails ends the evaluation
(`Abandon`).  `Faulty` is what `health()` would report now.

### ScenarioContext and VehicleProfiles

`tasks[t]` is a handler of the service, its next step and what is left of it to
do (`todo`: the items it has still to insert or read, a table at a time in the
order of the code, see `First`): `Upsert`,
`ClearItems`, `InsertItem`, `TakeItem`, `Touch` write one transaction each,
`ReadRow` and `ReadTable` read one table each, `OpenFile` and `WriteFile`
write the file in place, `CountRuns`, `DropRow`, `Unlink` are a deletion, and
`MakeMission`, `SaveSnapshot`, `RecordRun` the creation of a run.  Handlers that
are coroutines exclude one another (`LoopFree`), those of the threadpool do
not.  `Restart` seeds the scenario from its file, and writes the shipped
profiles, at any time.  `exact` and `synced` are history: what a handler that
ran alone is to leave, and whether such a handler wrote last.

## 3. Runs

Each run finishes within two and a half minutes on two cores.  The type invariant
`TypeOK` of a module is checked by its run, except where it is proved
(section 5).

| Run (cfg) | Instance | Checks |
|---|---|---|
| `StoreAll` | 2 vehicles, 1 sensor, 1 mission, 1 message id, 2 coroutines, 1 threadpool handler, every operation but `create_sensor`; 635 k states with symmetry | `RowsFiled`, `TerminalStays`, `ImplementsLifecycle`, no deadlock |
| `StoreLive` | as above without symmetry, telemetry and raw messages, creation of sensors and missions, deletion; 80 k states | `HandlersEnd` |
| `IntegrityStream` | 3 messages with numbers 1..3 in any order and repetition, 5 latencies, clock 0..1, 2 handlers; 857 k states with symmetry | `GapsAnnounced`, `DisorderRecorded`, `TimingOnRecord`, `RecurrenceAlerted` |
| `IntegrityLive` | 2 messages, 2 handlers, failing and healthy rates and latencies, operators, crashes | `OneActiveAlert`, `EventsCounted`, `ResolvedStays`, `AlertsRecover` |
| `RunsAll` | 2 runs of 1 vehicle, one continuous, operators, deletion of missions, kills; 211 k states | `TerminalIsGone`, `SettledRuns`, `AskedIsNotCompleted`, `RunsEnd` |
| `RunsRestart` | 2 runs, restarts; 77 k states | `JudgedIsGone` |
| `EventsAll` | 1 mission, 2 vehicles, 1 event, 2 times, 2 handlers; 3 k states | `EventsFiled` |
| `Publisher` | 3 submissions, a buffer of 1, 1 retry, 1 late attempt, HTTP and MQTT; 455 k states | `Accounted`, `Bounded`, `SentIsHandled`, `ImplementsLedger`, `EverySubmissionSettles` |
| `Safety` | 3 frames, 2 handlers, 1 obstacle, 2 constraints, 3 assessments, deletion, crashes, failures; 4.6 M states with symmetry | `TypeOK`, `ActiveIsLatest`, `RiskAnnounced`, `ClassifiersAgree`, `NothingLeft`, no deadlock |
| `Storage` | 1 job, 2 backups of one name, 2 changes, failures, crashes; 105 k states | `TypeOK`, `DownloadsWhole`, `LastCopyMatches`, no deadlock |
| `Platform` | monitor and endpoint, the conditions of database and MQTT, 1 message, 1 failing transaction; 334 k states | `OneNetworkThread`, `FaultRaised`, `HealthClears`, no deadlock |
| `Scenario` | 2 handlers, 1 item, 1 mission, 2 profiles, versions up to 3, restarts; 2.9 M states with symmetry | `TypeOK`, `FileFollows`, `AloneIsExact`, `RunsHaveProfiles`, `SnapshotStays`, no deadlock |

**Why the bounds are enough to be interesting.**  One message id sent by two
coroutines gives duplicates, retries and a retry that overtakes the deletion of
the first row; raw and telemetry ids are separate tables, so normalisation
produces a row of its own.  Two vehicles claim the same sensor and mission.  A
deletion, re-creation and late message for one mission exercise every row of
the lifecycle.  Three numbers give one hole, a filling late message and a
reused number, and a gap may be announced twice with a moved edge; latencies
{-8, -1, 0, 2, 5000} (units of 250 ms) are beyond the future threshold, negative
but tolerated, on time, at the latency and drift thresholds, and outside the
live window.  `MaxTime` is the only bound on a counter (the clock); the number
of rows is bounded by the ids.  `create_sensor` doubles the largest
instance and is in `StoreLive` instead (the proofs cover all operations
together).  Two runs are what a manager can confuse.  Two
handlers are what a check-then-write race needs.

A buffer of one is full with every second submission, and three submissions
make a retry meet a full buffer, a new message and a close; attempts are
counted so that a late attempt of the first round can be told from the second.
`EverySubmissionSettles` is therefore about few submissions: that heartbeats,
which go to the front, could keep raw messages waiting as long as they come faster
than they are sent is not explored.
The three assessments are a clearance that only its record has as nothing, an
obstacle that is closed in on, and one that is neither near nor soon: each is a
frame the classifiers judge by thresholds of their own.  A collision before the
rounding is one after it; that case, like every other, is covered by the theorem
`ClassifiersAlwaysAgree`.  Two constraints let one violation go on while another
is resolved.  Two backups of one name overlap
in every way.  Two conditions are enough for an evaluation to be interrupted
between them, and the two chosen are the ones that are special in the code: one
follows the MQTT consumer, the other forbids the transactions that would report
it.  The failing transaction is counted (`MaxFailures`), since an evaluation
that fails for ever raises nothing.  In `Scenario` two handlers are the smallest
number that can overlap, and the item may be inserted, changed, removed,
replaced and seeded; with two items in two tables and versions up to 2 the same
properties hold, in 2.5 minutes (`Tables <- TwoTables`, `MaxVersion = 2`).
Versions, messages, frames and changes of the database are capped in the guards
(`MaxVersion`, `MaxSubmissions`, `MaxFrames`, `MaxMessages`).  The proofs of
section 5 drop all of these bounds for the modules they are about.

`CHECK_DEADLOCK FALSE` is set where the instance really stops: when the ids of
a stream are used up and its clock has reached the bound, when all runs were
requested and have ended, or when the simulator with its publisher has exited.

**Fairness.**  `AcquisitionStore!Fairness` is weak for threadpool handlers,
which never block, and strong for coroutines: `loop` may be held by another one
whenever a coroutine looks, but asyncio resumes ready callbacks in FIFO order,
so one that is ready again and again gets the loop.  Clients, operators and
deletions are not fair.  `IntegrityAlerts!FairSpec` assumes that a broadcast
ends, because the server's ping timeout closes a dead client; nothing makes
another message arrive, so `AlertsRecover` speaks only of what a healthy
evaluation already promised.  `SimulationRuns!Fairness` is for endpoints that
hold the loop, monitor threads and simulators; failures, kills, operators and
requests to stop are not fair, so `RunsEnd` promises the end of a continuous
run only after `stop` marked it STOPPING.  `Publisher!FairSpec` schedules the
two threads, lets requests time out (they have a timeout) and the clock pass a
backoff; nothing is assumed of the backend, and the motion loop need not end.
`StorageJobs!Fairness` is that the threads of the pool run on; no run needs it, it
is there for `RowsSettle` of section 4.
`PlatformHealth!Fairness` is strong for an evaluation that wants the loop back,
by asyncio's FIFO order as above, and for the monitor, which sleeps a fixed time
and begins again; it assumes that a start of the consumer ends, since it waits
with a timeout.  Brokers, faults and operators are not fair.

## 4. What the code does not keep

The following are stated in the modules and are not kept: TLC finds the
counterexample when the property is added to the configuration named (as
INVARIANT or PROPERTY), with the change of its instance that is given.  The
first ones contradict a text of the repository.

- `MissionDeletion!DeletionIsPermanent` against `storage_management.py:505`
  ("permanently deletes the Mission and all linked operational data"): a raw
  message is stored and broadcast; during the await `delete_mission` removes
  mission and data; the handler normalises and `_store_telemetry` ensures the
  mission anew, with one telemetry row.  A retried duplicate whose insert is
  still to come is not counted: it may take effect afterwards.
- `IntegrityAlerts!RecurrenceAlerted`, once rates are in the instance, against
  `docs/OMIP_Architecture_and_Core_Data_Model_Specification_v0.4.1.md:168` ("A
  later recurrence creates a new active Alert"): rate findings are keyed by time
  bucket, so low, healthy, low within one bucket opens no second alert.
- `SimulationRuns!OneRunningMission` against `main.py:1376` ("Vehicle already has
  a running mission"): the mission of a run is PLANNED until its simulator has
  registered, and a second request passes in between.
- `MissionEvents!EventInterval` against `database.py:2860` ("end_timestamp_utc
  cannot be earlier than start_timestamp_utc"): two updates move one end each,
  both checked against the row before the other.
- `Publisher!SentIsStored` against docs/OMIP v0.3.1, section 7.2, and the comment
  at `multi_sensor_simulator.py:931`: the backend answers 409 to a message of an
  ended mission or a foreign sensor, too, and the publisher counts it as sent.
- `Publisher!OldestIsDropped` against docs/OMIP v0.3.1, section 7.4: heartbeats are
  put in front, and a full buffer drops its front.

| Property | Configuration and change | Counterexample |
|---|---|---|
| `MissionDeletion!DeletionIsPermanent` | module `MissionDeletion` with the constants of `StoreLive`, `Operations = {"raw", "deleteMission"}`, one task, specification `ObservedSpec` | above |
| `IntegrityAlerts!RecurrenceAlerted` | `IntegrityStream` with `Rates <- LowRate` | above |
| `SimulationRuns!OneRunningMission` | `RunsAll` with `Operations <- Quiet` | above |
| `MissionEvents!EventInterval` | `EventsAll` | above |
| `Publisher!SentIsStored`, `OldestIsDropped` | `Publisher`, the second with `MaxBuffer = 2` | above |
| `AcquisitionStore!MissionVehicleRegistered` | `StoreAll` | `create_mission` ensures the vehicle, `delete_vehicle` removes it, the mission is inserted: `missions` has no foreign key |
| `AcquisitionStore!RawSensorOwned` | `StoreAll` with `Operations <- AllOperations` | after the ownership check the sensor is deleted and created for another vehicle, then the message is inserted |
| `SimulationRuns!TerminalRunStays` | `RunsAll` | `stop` reads RUNNING, the monitor writes COMPLETED, `stop` writes STOPPING and ABORTED |
| `SimulationRuns!MissionFollows` | `RunsAll` with `Operations <- Quiet` | the simulator gives up ending its mission and exits with 0: the run is COMPLETED, its mission RUNNING |
| `SimulationRuns!AbortedRunEndsMission` | `RunsAll` with `Operations <- Quiet` | SIGTERM between registration and installation of the handler: the simulator dies, its mission stays RUNNING |
| `SimulationRuns!TerminalIsGone` | `RunsRestart` | after a restart `stop` finds no process and writes ABORTED while the simulator goes on |
| `MissionEvents!EventVehicleMatches` | `EventsAll` | between check and insert the mission is deleted and created for another vehicle |
| `IntegrityAlerts!RecoveredIsHealthy` | `IntegrityLive` | a handler resumes after its broadcasts and resolves an alert that a later message has raised meanwhile |
| `IntegrityAlerts!GapsAnnounced` | `IntegrityStream` with `Operations <- OperatorAndCrashes` | a crash between insert and recording loses the gap; the redelivered message is only a duplicate |
| `SafetyAnalytics!MissHasInteraction` | `Safety` | a handler awaits its broadcast while its mission is deleted, created again by another frame and given an environment |
| `SafetyAnalytics!SameCollisions` | `Safety` | a clearance of 0.4 µm is CRITICAL for the obstacle analysis, and a COLLISION for the near-miss analysis, which reads it rounded |
| `SafetyAnalytics!NewestJudges` | `Safety` | the handler of an older frame was overtaken and judges last |
| `StorageJobs!EveryCopyMatches` | `Storage` | a second backup of the same second and label writes over the file of the first |
| `StorageJobs!PackageConsistent` | `Storage` | the database changes between the two reads of a package |
| `StorageJobs!CompletedStays` | `Storage` | the read at the end of `complete_export_job` fails, and the handler marks the job FAILED |
| `StorageJobs!RowsSettle` | `Storage` with `SPECIFICATION FairSpec` | a crash, or an UPDATE that is to record a failure and fails as well, leaves a row QUEUED or RUNNING |
| `MqttRuntime!ReportedIsReal` | `Platform` | the client reconnects between the clearing of the fields of a failed start and the join of its thread |
| `MqttRuntime!QuietWhenDisabled` | `Platform` | a message scheduled before `disable` is handled after it |
| `PlatformHealth!DatabaseAlerted` | `Platform` | the alert of an unavailable database is a row of that database |
| `PlatformHealth!EnabledConnects` | `Platform` | a start that was refused is not tried again |
| `ScenarioContext!DeletedStays` | `Scenario` | a handler that overlaps the deletion writes the file again; the next start brings the scenario back, built in |
| `ScenarioContext!ReferencedStays` | `Scenario` | a run is recorded between the count of runs and the deletion |
| `ScenarioContext!ItemKept` | `Scenario` | an update of an item dies between its delete and its insert |

Met while modelling, and without a property of their own: every start writes the
shipped profiles again and enables those an operator has disabled
(`main.py:141`); a start that dies while seeding leaves a scenario without some
of its items for good, since the next one finds its row; an item id that another
scenario owns makes seeding, and with it the start, fail; a run whose snapshot
cannot be made leaves its mission PLANNED (`main.py:1404`); the failure counter
of the integrity engine is never reset, so its platform alert lasts until a
restart (`system_monitoring.py:252`); violations that are active when their
mission ends are never resolved (`safety_analytics.py:254`); `delete_sensor`
answers with an internal error for a sensor with findings (`main.py:1653`).

## 5. Proofs

Proved by TLAPS for all values of the constants that satisfy the named ASSUMEs
of the modules (`ConstantsAssumption`, `IntegrityAssumption`, `RunsAssumption`,
`EventsAssumption`, `PublisherAssumption`, `StorageAssumption`,
`MqttAssumption`, `HealthAssumption`, `ProfilesAssumption`,
`ScenarioAssumption`, `RadiusAssumption`, `SafetyAssumption`): bounds are natural
numbers, NULL is no id, row, number or text, kinds of ids are disjoint,
coroutines are no threads, NULL is no exit code, and a safety radius is at least
25 cm, as the code sees to.  TLC evaluates each of
them in the runs.

**AcquisitionStoreProofs** (no restriction on operations, but where one is named).
`TypeCorrect`, `RowsAreFiled` (from `TelemetryIsFiled`, `RawIsFiled`,
`HeartbeatIsFiled`), `TimesAgree`, `TerminalMissionsStay`,
`StoreImplementsLifecycle`.
The properties are not inductive: that an inserted row finds a started mission
depends on what the handler ensured some transactions ago.  The invariant
`Inv` adds that at most the coroutine named by `loop` is between two awaits
(`LoopExclusive`), and that a coroutine at an inserting step still finds what
it ensured: missions are removed by coroutine-only code (`DeleteMission` needs
the loop), so nothing takes the mission away, while sensor and vehicle may
disappear and the insert checks them by foreign key.  `TaskMoves` and
`ThreadMoves` reduce the control part of every action to "one handler takes a
new request record"; `Writers`, `MessageWriters` and `MissionWriters` say which
action can change which table, so that each property is proved against its few
writers.  The refinement has a lemma for each abstract action and uses `Inv`
to show that data arrives at started missions only.  A property of section 4
holds under a condition, which says what its counterexample needs:
`RawSensorsAreOwned`, as long as no sensor id is used again for another vehicle
(`SensorsAtHome`; what a handler knows of its sensor is then a fact about its
request alone, `FromHome`).

**IntegrityAlertsProofs.**  `TypeCorrect`, `AlertsUnique`, `EventsCountedOnce`
and `HistoryKept` hold with operators and crashes; `HolesAnnounced` and
`DisorderKept` are proved for instances without `"crash"`, and section 4 says
what a crash does.  `Inv` keeps one statement about a table of alerts and a set
of events, `AlertsOK(T, E)`: keys follow statuses and are unique, and every
event is counted by exactly one alert.  The operators that build tables
(resolution, replacement, recording of a set of findings) each have a lemma
that they take such a pair to such a pair, whatever the handler that calls them
knew; the actions then cite them.  The findings of one message differ in their
checks, which `FindingsOK` derives from the code's analysis, and which the
uniqueness needs.  For the stream, `Stream` adds to the two properties that a
recorded gap ends at a number that is stored; together with the highest number
it gives that a hole below the edge of an older gap was announced with it.

`TimingIsOnRecord`, also without `"crash"` and for thresholds above zero, says
which timing events there are: its invariant `OnRecord` has one for each stored
message whose latency, or whose distance from the latency before it, asks for
one, and the dedup key of a timing event is a message that is stored
(`OfMessages`), so that none is taken for known; `TimingEvents` is the analysis of one
message.  The action property `TimingRecurrenceAlerted` is `RecurrenceAlerted` for
the timing checks, for any rates, handlers, operators and crashes: an alert that
was resolved has released its key.  For rates it does not hold (section 4).

**PublisherProofs.**  For any size of the buffer, number of retries and
behaviour of wire and backend: `TypeCorrect`, `NothingIsLost`, `BufferBounded`,
`SentWasHandled`, and `KeepsItsPromise`, the refinement of `DeliveryLedger`.
The invariant adds what an answer means while the worker has not looked at it
(`ReplyMeans`) and that what is on the wire was submitted (`WireLogged`).  The
lemmas on the buffer say which numbers it holds after an item is appended, put
in front, taken or dropped, and that no number is held twice; each step of a
thread is then an equation between four disjoint sets.

**SimulationRunsProofs.**  `RunsTypeCorrect`, `JudgedRunsAreGone` and
`AskedRunsAreNotCompleted` hold with restarts; `TerminalRunsAreGone` and
`DoneRunsAreSettled` are proved for instances without `"restart"`, and the table of
section 4 shows why the first of them needs that.  The invariant is a conjunction
for each run: `Requested` (what a row's status says of the request's progress),
`Watched` (a process in the table has a monitor or a creating endpoint), `Stopped`
(what the stop in progress knows) and `Final` (a terminal status means an exited
process).  For the two that survive restarts it is `JudgedInv`: what a monitor is
about to write is true of a process that has exited, whose flag and exit code
change no more.  `OthersUntouched` and `Frame` reduce a step to the run that takes it.

**MissionRecordsProofs**, about `MissionEvents`.  `EventsTypeCorrect`;
`EventsAreFiled`, where the foreign key makes up for the stale check; and
`OneEndedUpdatesBreakIntervals`, about `EventInterval`: however handlers overlap,
the only step that can break it is the write of an update that names one end of
the event and not the other, since a write that names both carries an interval
that was checked (`PendingOrdered`).  `EventsHaveTheirVehicle`: `EventVehicleMatches`
holds under any overlap of handlers and deletions as long as no mission id is used
again for another vehicle (`AtHome`).

**MissionRecordsProofs**, about `SafetyAnalytics`, with deletions, captures,
crashes and failing transactions, for any obstacles, constraints, handlers,
frames and assessments.  `SafetyTypeCorrect` is about one invariant of the
handlers and the tables (`SafetyTypeInv`), which says what a handler carries at
each step (`Knows`: its frame is one that is stored, its obstacle is of the
snapshot, what it announces is news) and that only the one that holds the loop
is inside an analysis; `OneMoves` reduces a step to the handler that takes it.
On it rest the others, each with what its property lacks to be inductive:

- `NothingIsLeft` (`Belonging`): a handler inside an analysis has a mission, since
  the deletion needs the loop, too; one that waits has written nothing since.
- `RisksAreAnnounced` (`Announcing`): news that is due is carried by the handler
  that holds the loop, so it is announced or lost before anyone else runs; an
  obstacle's last state is a risk exactly if there is news of it.
- `ActiveViolationsAreLatest` (`Judging`): while a handler writes its violations
  nothing counts as judged, and those it has written are active; a constraint
  has never two active violations.  `SampledActive` and `ResolvedActive` say what
  the two writes do to the active violations of every constraint.
- `ClassifiersAlwaysAgree` (`Recording`): a frame is of one handler, which records
  at most one interaction for it, and its near miss afterwards, from the record of
  the same assessment.  That the two classifiers then agree, although the one is
  given the assessment and the other the record, is the lemma `Classified`,
  arithmetic over every clearance, time and radius; it uses that the record is
  within half a unit of the sixth decimal (`RoundedIsNear`) and that the radius is
  at least 25 cm.

**ScenarioContextProofs.**  For any number of items, tables, missions and
handlers, with restarts anywhere: `SnapshotsStay`, `ProfilesOfRuns`,
`ScenarioVersionsGrow`, `ScenarioTypeCorrect`, `FilesFollow` and `AloneExact`.  For
the first three the invariant says that at most one handler runs on the event loop (`Exclusive`),
that a mission whose run is being created exists and has no snapshot yet
(`Waiting`), and that what is about to be deleted is not built in (`Deleting`).
`Progress` is all that most steps do to their handler, so that each part has
one lemma for them and one each for the steps that make a mission, save a
snapshot and record a run.  The others need how far a handler that runs alone has
come (`Lone`): at each step the items of the scenario and those it has still to
write make up what was asked for (`Writes`), and what it has read, with the tables
it has still to read, is what is there (`Reads`).  When it writes the file,
these two say that the file is the scenario.  A handler that overlaps another is
exact no more, and its write makes the file unfit to be compared.

**StorageJobsProofs.**  `StorageTypeCorrect`, `ExportsAreWhole` and
`LastCopiesMatch`, with failures and crashes.  That a row is RUNNING while its
thread works needs `JobRow` and `BackupRow`, what the thread has made of it so
far, and that a package reads no more than twice needs `JobContent`.  A job has a file of its own; a backup may share one, and `Copying`
states what it knows of its file only as long as `copied` names it.

**PlatformHealthProofs.**  `PlatformTypeCorrect` and `ThreadsAreCounted`.
`Threads` ties the network thread to the session, the session to the bridge, and
says what holds in the two halves of a start that fails, when the fields are
cleared and the thread is not joined yet.

**Only model-checked.**  Liveness (`HandlersEnd`, `AlertsRecover`, `RunsEnd`,
`EverySubmissionSettles`, `FaultRaised`, `HealthClears`) and
everything about ENABLED is beyond the prover.  `RecurrenceAlerted` is proved for
the timing checks only.  Every other property of the runs is a theorem, some of
them under the hypothesis that is named above (no crash, no restart).  The
properties of section 4 are false: TLC's counterexamples show it, and for some of
them a theorem above says under which condition they hold.  No module uses a RECURSIVE operator; what would need an
induction over data, such as the order in which items are inserted, is modelled by
sets that shrink.

## 6. Not modelled, and the plan

Not modelled because it is pure data or I/O: sensor signals and faults of the
simulator, geometry of obstacles and constraints, merging and validation of
profiles, summaries, the contents of exports, the dashboard, packaging.  Inside
modelled components: `update_vehicle` and `update_sensor` (they change
descriptive columns), last-seen columns of vehicles and sensors, severities,
the measured sampling rate, metric windows and application logs (appended,
pruned and shown), statistics and verification of the storage, and the fusion
of the normalizer, whose memory no other part reads.

Order of further work:

1. `IntegrityAlerts`: telemetry streams (the same checks without a rate), and
   cleanup, which removes the newest rows of a stream and the highest number
   with them (`storage_management.py:505`).
2. `StorageJobs`: the retention policy, which is merged with what an earlier
   transaction read (`storage_management.py:338`).
3. The composition of `Publisher` with `AcquisitionStore`: what is sent arrives
   as a row, with the store's own duplicate check in place of the sets that
   stand for it now.
4. `SimulationRuns`: a database failure between the start of a process and the
   start of its monitor (`simulation_runs.py:165`).
5. A liveness argument for `Publisher` with an unbounded stream of heartbeats.
