------------------------ MODULE AcquisitionStoreProofs ------------------------
(***************************************************************************)
(* Proofs about AcquisitionStore, for any sets of vehicles, sensors,       *)
(* missions, message ids and handlers, and any choice of operations.       *)
(***************************************************************************)
EXTENDS AcquisitionStore, TLAPS

-----------------------------------------------------------------------------
(* Types.                                                                  *)

(* A handler at a step of a kind of request executes such a request.       *)
LEMMA StepKinds ==
    ASSUME TypesOfRequests, NEW t \in Tasks
    PROVE  /\ req[t].step \in {"sensorVehicle", "sensor", "normalise"}
                => req[t] \in RawRequest
           /\ req[t].step \in StoreSteps => req[t] \in TelemetryRequest \cup RawRequest
           /\ req[t].step \in {"heartbeatVehicle", "heartbeatMission",
                               "heartbeatInsert"}
                => req[t] \in HeartbeatRequest
BY DEF TypesOfRequests, TaskRequest, TelemetryRequest, RawRequest,
       HeartbeatRequest, StoreSteps, Idle

LEMMA ThreadKinds ==
    ASSUME TypesOfRequests, NEW h \in Threads
    PROVE  /\ req[h].step \in {"newSensorVehicle", "newSensor"}
                => req[h] \in SensorRequest
           /\ req[h].step \in {"newMissionVehicle", "newMission"}
                => req[h] \in MissionRequest
BY DEF TypesOfRequests, ThreadRequest, SensorRequest, MissionRequest, Idle

(* Replacing one handler's request by one of its type.                     *)
LEMMA NewRequest ==
    ASSUME TypesOfRequests, NEW h \in Handlers, NEW r,
           h \in Tasks => r \in TaskRequest,
           h \in Threads => r \in ThreadRequest,
           req' = [req EXCEPT ![h] = r], loop' \in Tasks \cup {None}
    PROVE  TypesOfRequests'
BY ConstantsAssumption DEF TypesOfRequests, Handlers

LEMMA LoopType ==
    ASSUME TypesOfRequests, NEW h \in Handlers, NEW step
    PROVE  LoopAfter(h, step) \in Tasks \cup {None}
BY DEF TypesOfRequests, Handlers, LoopAfter

LEMMA FinishType ==
    ASSUME TypesOfRequests, NEW h \in Handlers, Finish(h)
    PROVE  TypesOfRequests'
BY NewRequest, LoopType DEF Finish, TaskRequest, ThreadRequest

LEMMA ContinueType ==
    ASSUME TypesOfRequests, NEW h \in Handlers, NEW step,
           h \in Tasks => [req[h] EXCEPT !.step = step] \in TaskRequest,
           h \in Threads => [req[h] EXCEPT !.step = step] \in ThreadRequest,
           Continue(h, step)
    PROVE  TypesOfRequests'
<1>1. req' = [req EXCEPT ![h] = [req[h] EXCEPT !.step = step]]
  BY DEF Continue
<1> QED BY <1>1, NewRequest, LoopType DEF Continue

LEMMA StayType ==
    ASSUME TypesOfRequests, UNCHANGED <<req, loop>>
    PROVE  TypesOfRequests'
BY DEF TypesOfRequests

LEMMA AcquiredType ==
    ASSUME NEW row \in MissionRow \cup {NoMission}, NEW v \in Vehicles
    PROVE  Acquired(row, v) \in MissionRow
<1>1. CASE row \in MissionRow
  BY <1>1 DEF Acquired, MissionRow, Status
<1>2. CASE row = NoMission
  BY <1>2 DEF Acquired, MissionRow, NoMission, Status
<1> QED BY <1>1, <1>2

(* The steps of a coroutine.                                               *)
LEMMA TaskStepType ==
    ASSUME TypeOK, NEW t \in Tasks, TaskStep(t)
    PROVE  TypeOK'
<1> USE DEF TypeOK
<1> t \in Handlers /\ t \notin Threads
  BY ConstantsAssumption DEF Handlers
<1>1. CASE EnsureVehicle(t)
  <2>1. TypesOfTables'
    BY <1>1, StepKinds DEF EnsureVehicle, TypesOfTables, TypesOfRequests,
       TaskRequest, TelemetryRequest, RawRequest, HeartbeatRequest, Idle
  <2>2. PICK next : /\ next = AfterVehicle(req[t].step)
                    /\ Continue(t, next)
    BY <1>1 DEF EnsureVehicle
  <2>3. [req[t] EXCEPT !.step = next] \in TaskRequest
    <3>1. CASE req[t].step = "sensorVehicle"
      BY <2>2, <3>1, StepKinds DEF AfterVehicle, TaskRequest, RawRequest
    <3>2. CASE req[t].step = "missionVehicle"
      BY <2>2, <3>2, StepKinds DEF AfterVehicle, TaskRequest, RawRequest,
         TelemetryRequest, StoreSteps
    <3>3. CASE req[t].step = "heartbeatVehicle"
      BY <2>2, <3>3, StepKinds DEF AfterVehicle, TaskRequest, HeartbeatRequest
    <3>4. req[t].step \notin {"newSensorVehicle", "newMissionVehicle"}
      BY DEF TypesOfRequests, TaskRequest, TelemetryRequest, RawRequest,
         HeartbeatRequest, StoreSteps, Idle
    <3> QED BY <1>1, <3>1, <3>2, <3>3, <3>4 DEF EnsureVehicle
  <2> QED BY <2>1, <2>2, <2>3, ContinueType
<1>2. CASE EnsureSensor(t)
  <2>1. req[t] \in RawRequest
    BY <1>2, StepKinds DEF EnsureSensor, At
  <2>2. TypesOfTables'
    BY <1>2, <2>1 DEF EnsureSensor, TypesOfTables, RawRequest
  <2>3. TypesOfRequests'
    BY <1>2, <2>1, FinishType, ContinueType DEF EnsureSensor, TaskRequest,
       RawRequest, StoreSteps
  <2> QED BY <2>2, <2>3
<1>3. CASE EnsureMission(t)
  <2>1. req[t] \in TelemetryRequest \cup RawRequest
    BY <1>3, StepKinds DEF EnsureMission, At, StoreSteps
  <2>2. Acquired(missions[req[t].mission], req[t].vehicle) \in MissionRow
    <3>1. /\ missions[req[t].mission] \in MissionRow \cup {NoMission}
          /\ req[t].vehicle \in Vehicles
      BY <2>1 DEF TypesOfTables, RawRequest, TelemetryRequest
    <3> QED BY <3>1, AcquiredType
  <2>3. TypesOfTables'
    BY <1>3, <2>1, <2>2 DEF EnsureMission, TypesOfTables
  <2>4. TypesOfRequests'
    BY <1>3, <2>1, FinishType, ContinueType DEF EnsureMission, TaskRequest,
       RawRequest, TelemetryRequest, StoreSteps
  <2> QED BY <2>3, <2>4
<1>4. CASE Analyse(t) \/ RetryInsert(t)
  <2>1. req[t] \in TelemetryRequest \cup RawRequest
    BY <1>4, StepKinds DEF Analyse, RetryInsert, At, StoreSteps
  <2>2. TypesOfTables'
    BY <1>4 DEF Analyse, RetryInsert, TypesOfTables, tables
  <2>3. CASE Continue(t, "record")
    BY <2>1, <2>2, <2>3, ContinueType DEF TaskRequest, RawRequest,
       TelemetryRequest, StoreSteps
  <2>4. ASSUME NEW p \in {2, 3},
               req' = [req EXCEPT ![t].step = EnsureFirst(req[t].kind),
                                  ![t].pass = p],
               loop' = t
        PROVE  TypeOK'
    <3> DEFINE r == [req[t] EXCEPT !.step = EnsureFirst(req[t].kind), !.pass = p]
    <3>1. r \in TaskRequest
      <4>1. CASE req[t] \in TelemetryRequest
        BY <4>1 DEF TaskRequest, TelemetryRequest, StoreSteps, EnsureFirst
      <4>2. CASE req[t] \in RawRequest
        BY <4>2 DEF TaskRequest, RawRequest, EnsureFirst
      <4> QED BY <2>1, <4>1, <4>2
    <3>2. req' = [req EXCEPT ![t] = r]
      BY <2>4 DEF TypesOfRequests
    <3> QED BY <3>1, <3>2, <2>2, <2>4, NewRequest
  <2> QED BY <1>4, <2>2, <2>3, <2>4 DEF Analyse, RetryInsert
<1>5. CASE RecordDuplicate(t) \/ RecordFindings(t)
  <2>1. req[t] \in TelemetryRequest \cup RawRequest
    BY <1>5, StepKinds DEF RecordDuplicate, RecordFindings, At, StoreSteps
  <2>2. Finding(req[t]) \in FindingRow
    BY <2>1 DEF Finding, FindingRow, TelemetryRequest, RawRequest
  <2>3. TypesOfTables'
    BY <1>5, <2>2 DEF RecordDuplicate, RecordFindings, TypesOfTables
  <2>4. TypesOfRequests'
    BY <1>5, <2>1, FinishType, ContinueType DEF RecordDuplicate, RecordFindings,
       TaskRequest, RawRequest, TelemetryRequest, StoreSteps
  <2> QED BY <2>3, <2>4
<1>6. CASE InsertTelemetry(t) \/ InsertRaw(t)
  <2>1. /\ req[t] \in TelemetryRequest \cup RawRequest
        /\ req[t].kind = "raw" => req[t] \in RawRequest
    BY <1>6, StepKinds DEF InsertTelemetry, InsertRaw, At, StoreSteps,
       TelemetryRequest
  <2>2. TypesOfTables'
    <3>1. CASE InsertTelemetry(t)
      BY <3>1, <2>1 DEF InsertTelemetry, TypesOfTables, TelemetryRow,
         TelemetryRequest, RawRequest
    <3>2. CASE InsertRaw(t)
      BY <3>2, <2>1 DEF InsertRaw, TypesOfTables, RawRow, RawRequest
    <3> QED BY <1>6, <3>1, <3>2
  <2>3. TypesOfRequests'
    BY <1>6, <2>1, FinishType, ContinueType DEF InsertTelemetry, InsertRaw,
       Inserted, TaskRequest, RawRequest, TelemetryRequest, StoreSteps
  <2> QED BY <2>2, <2>3
<1>7. CASE Normalise(t)
  <2>1. TypesOfTables'
    BY <1>7 DEF Normalise, TypesOfTables, tables
  <2>2. CASE Finish(t)
    BY <2>1, <2>2, FinishType
  <2>3. ASSUME NEW i \in Ids,
               req' = [req EXCEPT ![t] =
                 [kind |-> "telemetry", step |-> EnsureFirst("telemetry"),
                  pass |-> 1, id |-> i, vehicle |-> @.vehicle,
                  sensor |-> None, mission |-> @.mission]],
               loop' = t
        PROVE  TypeOK'
    <3>1. req[t] \in RawRequest
      BY <1>7, StepKinds DEF Normalise, At
    <3> DEFINE r == [kind |-> "telemetry", step |-> EnsureFirst("telemetry"),
                     pass |-> 1, id |-> i, vehicle |-> req[t].vehicle,
                     sensor |-> None, mission |-> req[t].mission]
    <3>2. r \in TaskRequest
      BY <3>1 DEF RawRequest, TaskRequest, TelemetryRequest, EnsureFirst, StoreSteps
    <3>3. req' = [req EXCEPT ![t] = r]
      BY <2>3
    <3> QED BY <2>1, <2>3, <3>2, <3>3, NewRequest
  <2> QED BY <1>7, <2>2, <2>3 DEF Normalise
<1>8. CASE CheckHeartbeatMission(t) \/ InsertHeartbeat(t)
  <2>1. req[t] \in HeartbeatRequest
    BY <1>8, StepKinds DEF CheckHeartbeatMission, InsertHeartbeat, At
  <2>2. TypesOfTables'
    BY <1>8, <2>1 DEF CheckHeartbeatMission, InsertHeartbeat, TypesOfTables,
       tables, HeartbeatRow, HeartbeatRequest
  <2>3. TypesOfRequests'
    BY <1>8, <2>1, FinishType, ContinueType DEF CheckHeartbeatMission,
       InsertHeartbeat, TaskRequest, HeartbeatRequest
  <2> QED BY <2>2, <2>3
<1> QED BY <1>1, <1>2, <1>3, <1>4, <1>5, <1>6, <1>7, <1>8 DEF TaskStep

(* The steps of a threadpool handler.                                      *)
LEMMA ThreadStepType ==
    ASSUME TypeOK, NEW h \in Threads, ThreadStep(h)
    PROVE  TypeOK'
<1> USE DEF TypeOK
<1> h \in Handlers /\ h \notin Tasks
  BY ConstantsAssumption DEF Handlers
<1>1. CASE EnsureVehicle(h)
  <2>1. req[h] \in SensorRequest \cup MissionRequest
    BY <1>1 DEF EnsureVehicle, TypesOfRequests, ThreadRequest, Idle
  <2>2. TypesOfTables'
    BY <1>1, <2>1 DEF EnsureVehicle, TypesOfTables, SensorRequest, MissionRequest
  <2>3. TypesOfRequests'
    BY <1>1, <2>1, ContinueType DEF EnsureVehicle, AfterVehicle,
       ThreadRequest, SensorRequest, MissionRequest
  <2> QED BY <2>2, <2>3
<1>2. CASE InsertSensor(h)
  <2>1. req[h] \in SensorRequest
    BY <1>2, ThreadKinds DEF InsertSensor, At
  <2>2. TypesOfTables'
    BY <1>2, <2>1 DEF InsertSensor, TypesOfTables, SensorRequest
  <2> QED BY <1>2, <2>2, FinishType DEF InsertSensor
<1>3. CASE InsertMission(h)
  <2>1. req[h] \in MissionRequest
    BY <1>3, ThreadKinds DEF InsertMission, At
  <2>2. [vehicle |-> req[h].vehicle, status |-> "PLANNED",
         started |-> FALSE, ended |-> FALSE] \in MissionRow
    BY <2>1 DEF MissionRequest, MissionRow, Status
  <2>3. TypesOfTables'
    BY <1>3, <2>1, <2>2 DEF InsertMission, TypesOfTables
  <2> QED BY <1>3, <2>3, FinishType DEF InsertMission
<1> QED BY <1>1, <1>2, <1>3 DEF ThreadStep

(* A client's request.                                                     *)
LEMMA ReceiveType ==
    ASSUME TypeOK, NEW h \in Handlers, NEW request,
           h \in Tasks => request \in TaskRequest,
           h \in Threads => request \in ThreadRequest,
           Receive(h, request)
    PROVE  TypeOK'
BY NewRequest, LoopType DEF Receive, TypeOK, TypesOfTables, tables

LEMMA IngestType ==
    ASSUME TypeOK, NEW t \in Tasks, Ingest(t)
    PROVE  TypeOK'
<1> t \in Handlers /\ t \notin Threads
  BY ConstantsAssumption DEF Handlers
<1>1. ASSUME NEW i \in Ids, NEW v \in Vehicles, NEW m \in Missions,
             StoreTelemetry(t, i, v, m)
      PROVE  TypeOK'
  BY <1>1, ReceiveType DEF StoreTelemetry, EnsureFirst, TaskRequest,
     TelemetryRequest, StoreSteps
<1>2. ASSUME NEW i \in Ids, NEW v \in Vehicles, NEW m \in Missions,
             NEW s \in Sensors, StoreRaw(t, i, v, s, m)
      PROVE  TypeOK'
  BY <1>2, ReceiveType DEF StoreRaw, EnsureFirst, TaskRequest, RawRequest
<1>3. ASSUME NEW i \in Ids, NEW v \in Vehicles, NEW m \in Missions \cup {None},
             StoreHeartbeat(t, i, v, m)
      PROVE  TypeOK'
  BY <1>3, ReceiveType DEF StoreHeartbeat, TaskRequest, HeartbeatRequest
<1> QED BY <1>1, <1>2, <1>3 DEF Ingest

LEMMA AdministerType == TypeOK /\ Administer => TypeOK'
<1> SUFFICES ASSUME TypeOK, NEW v \in Vehicles,
                    \/ CreateVehicle(v) \/ DeleteVehicle(v)
                    \/ \E h \in Threads, s \in Sensors : CreateSensor(h, v, s)
                    \/ \E h \in Threads, m \in Missions : CreateMission(h, v, m)
             PROVE  TypeOK'
  BY DEF Administer
<1>1. CASE CreateVehicle(v) \/ DeleteVehicle(v)
  BY <1>1, StayType DEF CreateVehicle, DeleteVehicle, TypeOK, TypesOfTables
<1>2. ASSUME NEW h \in Threads, NEW s \in Sensors, CreateSensor(h, v, s)
      PROVE  TypeOK'
  <2> h \in Handlers /\ h \notin Tasks
    BY ConstantsAssumption DEF Handlers
  <2> QED BY <1>2, ReceiveType DEF CreateSensor, ThreadRequest, SensorRequest
<1>3. ASSUME NEW h \in Threads, NEW m \in Missions, CreateMission(h, v, m)
      PROVE  TypeOK'
  <2> h \in Handlers /\ h \notin Tasks
    BY ConstantsAssumption DEF Handlers
  <2> QED BY <1>3, ReceiveType DEF CreateMission, ThreadRequest, MissionRequest
<1> QED BY <1>1, <1>2, <1>3

LEMMA OperateType == TypeOK /\ Operate => TypeOK'
<1> SUFFICES ASSUME TypeOK, Operate PROVE TypeOK'
  OBVIOUS
<1> USE DEF TypeOK
<1>1. ASSUME NEW s \in Sensors, DeleteSensor(s) PROVE TypeOK'
  BY <1>1, StayType DEF DeleteSensor, TypesOfTables
<1>2. ASSUME NEW m \in Missions, NEW target \in Status,
             TransitionMission(m, target)
      PROVE  TypeOK'
  <2>1. missions[m] \in MissionRow
    BY <1>2 DEF TransitionMission, TypesOfTables, NoMission, Allowed
  <2> DEFINE row == [missions[m] EXCEPT !.status = target,
                        !.started = @ \/ target = "RUNNING",
                        !.ended = @ \/ target \in Terminal]
  <2>2. row \in MissionRow
    BY <2>1 DEF MissionRow
  <2>3. missions' = [missions EXCEPT ![m] = row]
    BY <1>2, <2>1 DEF TransitionMission, TypesOfTables
  <2>4. TypesOfTables'
    BY <1>2, <2>2, <2>3 DEF TransitionMission, TypesOfTables
  <2> QED BY <1>2, <2>4, StayType DEF TransitionMission
<1>3. ASSUME NEW m \in Missions, DeleteMission(m) PROVE TypeOK'
  BY <1>3, StayType DEF DeleteMission, TypesOfTables
<1>4. CASE ExecuteCleanup
  BY <1>4, StayType DEF ExecuteCleanup, TypesOfTables
<1>5. CASE Restart
  <2>1. vehicles' \subseteq Vehicles
    <3>1. \A m \in Missions : missions[m] # NoMission
            => missions[m].vehicle \in Vehicles
      BY DEF TypesOfTables, MissionRow
    <3>2. \A row \in telemetry : row.vehicle \in Vehicles
      BY DEF TypesOfTables, TelemetryRow
    <3> QED BY <1>5, <3>1, <3>2 DEF Restart, TypesOfTables
  <2>2. TypesOfRequests'
    BY <1>5 DEF Restart, TypesOfRequests, TaskRequest, ThreadRequest, Handlers
  <2> QED BY <1>5, <2>1, <2>2 DEF Restart, TypesOfTables
<1> QED BY <1>1, <1>2, <1>3, <1>4, <1>5 DEF Operate

LEMMA TypeInit == Init => TypeOK
BY DEF Init, TypeOK, TypesOfTables, TypesOfRequests, Handlers, TaskRequest,
   ThreadRequest

LEMMA TypeNext == TypeOK /\ [Next]_vars => TypeOK'
<1> SUFFICES ASSUME TypeOK, [Next]_vars PROVE TypeOK'
  OBVIOUS
<1>1. CASE UNCHANGED vars
  BY <1>1 DEF vars, TypeOK, TypesOfTables, TypesOfRequests
<1> QED BY <1>1, TaskStepType, ThreadStepType, IngestType, AdministerType,
           OperateType DEF Next

(* Every row and every request keeps its type: no handler, interrupted     *)
(* where it may be, files a row with a missing vehicle or goes on with a   *)
(* step that its kind of request does not have.                            *)
THEOREM TypeCorrect == Spec => []TypeOK
BY TypeInit, TypeNext, PTL DEF Spec

-----------------------------------------------------------------------------
(* The inductive invariant.                                                *)

(* What makes the filing inductive: only one coroutine is between two      *)
(* awaits, so the mission it has ensured or checked is still that          *)
(* vehicle's when it inserts.                                              *)
LoopExclusive == \A t \in Tasks : req[t].step \notin Suspended => loop = t

TaskReady(t) ==
    /\ req[t].step = "insert" => AcceptedBy(req[t].mission, req[t].vehicle)
    /\ req[t].step = "heartbeatInsert" /\ req[t].mission # None
         => missions[req[t].mission].vehicle = req[t].vehicle

Inv ==
    /\ TypeOK /\ LoopExclusive /\ \A t \in Tasks : TaskReady(t)
    /\ TelemetryFiled /\ RawFiled /\ HeartbeatFiled /\ MissionTimes

(* A handler goes on with request r, and keeps the loop or gives it up.    *)
Move(h, r) ==
    /\ CanRun(h)
    /\ req' = [req EXCEPT ![h] = r]
    /\ loop' = LoopAfter(h, r.step)

(* What no step but a deletion takes from a mission.                       *)
Kept ==
    \A m \in Missions, v \in Vehicles :
        /\ AcceptedBy(m, v) => AcceptedBy(m, v)'
        /\ missions[m].vehicle = v => missions'[m].vehicle = v

LEMMA FinishMoves ==
    ASSUME NEW h, CanRun(h), Finish(h)
    PROVE  Move(h, Idle)
BY DEF Finish, Move, Idle

LEMMA ContinueMoves ==
    ASSUME TypesOfRequests, NEW h \in Handlers, NEW step, CanRun(h),
           req[h] # Idle, Continue(h, step)
    PROVE  Move(h, [req[h] EXCEPT !.step = step])
<1>1. req[h] \in TelemetryRequest \cup RawRequest \cup HeartbeatRequest
                \cup SensorRequest \cup MissionRequest
  BY DEF TypesOfRequests, TaskRequest, ThreadRequest
<1>2. [req[h] EXCEPT !.step = step].step = step
  BY <1>1 DEF TelemetryRequest, RawRequest, HeartbeatRequest, SensorRequest,
     MissionRequest
<1> QED BY <1>2 DEF Continue, Move

LEMMA TaskMoves ==
    ASSUME TypeOK, NEW t \in Tasks, TaskStep(t)
    PROVE  \E r : Move(t, r)
<1> USE DEF TypeOK, Handlers
<1>1. CASE EnsureVehicle(t)
  <2>1. CanRun(t) /\ req[t] # Idle /\ \E step : Continue(t, step)
    BY <1>1 DEF EnsureVehicle, Idle
  <2> QED BY <2>1, ContinueMoves
<1>2. CASE EnsureSensor(t) \/ EnsureMission(t) \/ InsertTelemetry(t)
           \/ InsertRaw(t) \/ RecordDuplicate(t) \/ RecordFindings(t)
           \/ CheckHeartbeatMission(t) \/ InsertHeartbeat(t)
  <2>1. CanRun(t) /\ req[t] # Idle
    BY <1>2 DEF EnsureSensor, EnsureMission, InsertTelemetry, InsertRaw,
       RecordDuplicate, RecordFindings, CheckHeartbeatMission, InsertHeartbeat,
       At, Idle
  <2>2. Finish(t) \/ \E step : Continue(t, step)
    BY <1>2 DEF Inserted, EnsureSensor, EnsureMission, InsertTelemetry, InsertRaw,
       RecordDuplicate, RecordFindings, CheckHeartbeatMission, InsertHeartbeat
  <2> QED BY <2>1, <2>2, FinishMoves, ContinueMoves
<1>3. CASE Analyse(t) \/ RetryInsert(t)
  <2>1. CanRun(t) /\ req[t] # Idle
    BY <1>3 DEF Analyse, RetryInsert, At, Idle
  <2>2. CASE Continue(t, "record")
    BY <2>1, <2>2, ContinueMoves
  <2>3. ASSUME NEW p \in {2, 3},
               req' = [req EXCEPT ![t].step = EnsureFirst(req[t].kind),
                                  ![t].pass = p],
               loop' = t
        PROVE  \E r : Move(t, r)
    <3> DEFINE r == [req[t] EXCEPT !.step = EnsureFirst(req[t].kind), !.pass = p]
    <3>1. req[t] \in TelemetryRequest \cup RawRequest
      BY <1>3, StepKinds DEF Analyse, RetryInsert, At, StoreSteps
    <3>2. r.step = EnsureFirst(req[t].kind)
      BY <3>1 DEF TelemetryRequest, RawRequest
    <3>3. LoopAfter(t, r.step) = t
      BY <3>2, ConstantsAssumption DEF LoopAfter, EnsureFirst, Suspended
    <3>4. req' = [req EXCEPT ![t] = r]
      BY <2>3 DEF TypesOfRequests
    <3> QED BY <2>1, <2>3, <3>3, <3>4 DEF Move
  <2> QED BY <1>3, <2>2, <2>3 DEF Analyse, RetryInsert
<1>4. CASE Normalise(t)
  <2>1. CanRun(t)
    BY <1>4 DEF Normalise, At
  <2>2. CASE Finish(t)
    BY <2>1, <2>2, FinishMoves
  <2>3. CASE ~Finish(t)
    <3>1. PICK i \in Ids :
            /\ req' = [req EXCEPT ![t] =
                 [kind |-> "telemetry", step |-> EnsureFirst("telemetry"),
                  pass |-> 1, id |-> i, vehicle |-> req[t].vehicle,
                  sensor |-> None, mission |-> req[t].mission]]
            /\ loop' = t
      BY <1>4, <2>3 DEF Normalise
    <3> DEFINE r == [kind |-> "telemetry", step |-> EnsureFirst("telemetry"),
                     pass |-> 1, id |-> i, vehicle |-> req[t].vehicle,
                     sensor |-> None, mission |-> req[t].mission]
    <3>2. LoopAfter(t, r.step) = t
      BY ConstantsAssumption DEF LoopAfter, EnsureFirst, Suspended
    <3> QED BY <2>1, <3>1, <3>2 DEF Move
  <2> QED BY <2>2, <2>3
<1> QED BY <1>1, <1>2, <1>3, <1>4 DEF TaskStep

LEMMA ThreadMoves ==
    ASSUME TypeOK, NEW h \in Threads, ThreadStep(h)
    PROVE  \E r : Move(h, r)
<1> USE DEF TypeOK, Handlers
<1>1. CanRun(h) /\ req[h] # Idle
  BY DEF ThreadStep, EnsureVehicle, InsertSensor, InsertMission, At, Idle
<1>2. Finish(h) \/ \E step : Continue(h, step)
  BY DEF ThreadStep, EnsureVehicle, InsertSensor, InsertMission
<1> QED BY <1>1, <1>2, FinishMoves, ContinueMoves

(* The loop has one coroutine at a time: a move keeps it so, and finds     *)
(* every other coroutine suspended when a coroutine makes it.              *)
LEMMA MoveExclusive ==
    ASSUME TypeOK, LoopExclusive, NEW h \in Handlers, NEW r, Move(h, r)
    PROVE  /\ LoopExclusive'
           /\ h \in Tasks => \A t \in Tasks : t # h => req[t].step \in Suspended
           /\ \A t \in Handlers : t # h => req'[t] = req[t]
<1>1. \A t \in Handlers : t # h => req'[t] = req[t]
  BY DEF TypeOK, TypesOfRequests, Move
<1>2. h \in Tasks => \A t \in Tasks : t # h => req[t].step \in Suspended
  BY ConstantsAssumption DEF Move, CanRun, LoopExclusive
<1>3. req'[h] = r
  BY DEF TypeOK, TypesOfRequests, Move
<1>4. ASSUME NEW t \in Tasks, req'[t].step \notin Suspended
      PROVE  loop' = t
  <2>1. CASE h \in Threads
    <3>1. t # h /\ loop' = loop
      BY <2>1, ConstantsAssumption DEF Move, LoopAfter
    <3> QED BY <3>1, <1>1, <1>4 DEF LoopExclusive, Handlers
  <2>2. CASE h \in Tasks
    <3>1. t = h
      BY <2>2, <1>1, <1>2, <1>4 DEF Handlers
    <3> QED BY <2>2, <3>1, <1>3, <1>4, ConstantsAssumption DEF Move, LoopAfter
  <2> QED BY <2>1, <2>2 DEF Handlers
<1> QED BY <1>1, <1>2, <1>4 DEF LoopExclusive

(* Every step but a deletion leaves an accepting mission accepting, and a  *)
(* mission its vehicle.                                                    *)
LEMMA MissionsKept ==
    ASSUME TypeOK, [Next]_vars, \A m \in Missions : ~DeleteMission(m)
    PROVE  Kept
<1> USE DEF TypeOK, Kept, AcceptedBy
<1>1. CASE UNCHANGED missions
  BY <1>1
<1>2. ASSUME NEW t \in Tasks, EnsureMission(t) PROVE Kept
  <2>1. req[t].mission \in Missions
    BY <1>2, StepKinds DEF EnsureMission, At, StoreSteps, TelemetryRequest,
       RawRequest
  <2>2. CASE missions[req[t].mission].vehicle \in {None, req[t].vehicle}
    <3>1. missions' = [missions EXCEPT ![req[t].mission] =
                          Acquired(missions[req[t].mission], req[t].vehicle)]
      BY <1>2, <2>2 DEF EnsureMission
    <3> QED BY <2>1, <2>2, <3>1, ConstantsAssumption DEF Acquired, TypesOfTables
  <2> QED BY <1>1, <1>2, <2>2 DEF EnsureMission
<1>3. ASSUME NEW h \in Threads, InsertMission(h) PROVE Kept
  <2>1. CASE missions[req[h].mission] = NoMission
    <3>1. missions' = [missions EXCEPT ![req[h].mission] =
             [vehicle |-> req[h].vehicle, status |-> "PLANNED",
              started |-> FALSE, ended |-> FALSE]]
      BY <1>3, <2>1 DEF InsertMission
    <3> QED BY <2>1, <3>1, ConstantsAssumption DEF TypesOfTables, NoMission
  <2> QED BY <1>1, <1>3, <2>1 DEF InsertMission
<1>4. ASSUME NEW m \in Missions, NEW target \in Status,
             TransitionMission(m, target)
      PROVE  Kept
  <2>1. missions[m] \in MissionRow /\ target \in {"RUNNING"} \cup Terminal
    BY <1>4 DEF TransitionMission, TypesOfTables, NoMission, Allowed, Terminal
  <2>2. missions' = [missions EXCEPT ![m] =
           [missions[m] EXCEPT !.status = target,
                        !.started = @ \/ target = "RUNNING",
                        !.ended = @ \/ target \in Terminal]]
    BY <1>4, <2>1 DEF TransitionMission, TypesOfTables
  <2> QED BY <2>1, <2>2 DEF TypesOfTables, MissionRow, Terminal
<1>5. ASSUME NEW t \in Tasks, Ingest(t) \/ TaskStep(t), ~EnsureMission(t)
      PROVE  UNCHANGED missions
  BY <1>5 DEF Ingest, StoreTelemetry, StoreRaw, StoreHeartbeat, Receive, tables,
     TaskStep, EnsureVehicle, EnsureSensor, Analyse, RecordDuplicate,
     RetryInsert, InsertTelemetry, InsertRaw, RecordFindings, Normalise,
     CheckHeartbeatMission, InsertHeartbeat
<1>6. ASSUME NEW h \in Threads, ThreadStep(h), ~InsertMission(h)
      PROVE  UNCHANGED missions
  BY <1>6 DEF ThreadStep, EnsureVehicle, InsertSensor
<1>7. CASE Administer
  BY <1>1, <1>7 DEF Administer, CreateVehicle, DeleteVehicle, CreateSensor,
     CreateMission, Receive, tables
<1>8. CASE Operate
  BY <1>1, <1>4, <1>8 DEF Operate, DeleteSensor, ExecuteCleanup, Restart
<1>9. CASE UNCHANGED vars
  BY <1>1, <1>9 DEF vars
<1> QED BY <1>1, <1>2, <1>3, <1>5, <1>6, <1>7, <1>8, <1>9 DEF Next

(* A coroutine is at an insert only after it has ensured or checked the    *)
(* mission it inserts for, and others leave it ready.                      *)
LEMMA ReadyStays ==
    ASSUME TypeOK, Kept, NEW t \in Tasks, TaskReady(t), req'[t] = req[t]
    PROVE  TaskReady(t)'
<1>1. req[t].step = "insert" => req[t] \in TelemetryRequest \cup RawRequest
  BY StepKinds DEF TypeOK, StoreSteps
<1>2. req[t].step = "heartbeatInsert" => req[t] \in HeartbeatRequest
  BY StepKinds DEF TypeOK
<1> QED BY <1>1, <1>2 DEF TaskReady, Kept, TelemetryRequest, RawRequest,
           HeartbeatRequest

LEMMA ReadyReached ==
    ASSUME TypeOK, NEW t \in Tasks, TaskStep(t) \/ Ingest(t)
    PROVE  TaskReady(t)'
<1> USE DEF TypeOK, TaskReady, Handlers
<1>1. CASE EnsureMission(t)
  <2>1. /\ req[t] \in TelemetryRequest \cup RawRequest
        /\ req[t].mission \in Missions /\ req[t].vehicle \in Vehicles
    BY <1>1, StepKinds DEF EnsureMission, At, StoreSteps, TelemetryRequest,
       RawRequest
  <2>2. CASE missions[req[t].mission].vehicle \in {None, req[t].vehicle}
    <3>1. /\ req'[t].mission = req[t].mission
          /\ req'[t].vehicle = req[t].vehicle
          /\ req'[t].step \in {"analyse", "insert"}
      BY <1>1, <2>1, <2>2 DEF EnsureMission, Continue, TypesOfRequests,
         TelemetryRequest, RawRequest
    <3>2. missions'[req[t].mission] =
            Acquired(missions[req[t].mission], req[t].vehicle)
      BY <1>1, <2>1, <2>2 DEF EnsureMission, TypesOfTables
    <3>3. AcceptedBy(req[t].mission, req[t].vehicle)'
            \/ req'[t].step # "insert"
      BY <2>1, <3>1, <3>2 DEF AcceptedBy, Acquired
    <3> QED BY <3>1, <3>3 DEF AcceptedBy
  <2>3. CASE Finish(t)
    BY <2>3 DEF Finish, TypesOfRequests, Idle
  <2> QED BY <1>1, <2>2, <2>3 DEF EnsureMission
<1>2. CASE CheckHeartbeatMission(t)
  <2>1. req[t] \in HeartbeatRequest
    BY <1>2, StepKinds DEF CheckHeartbeatMission, At
  <2>2. CASE Continue(t, "heartbeatInsert")
              /\ (req[t].mission = None
                   \/ missions[req[t].mission].vehicle = req[t].vehicle)
    <3>1. /\ req'[t].mission = req[t].mission
          /\ req'[t].vehicle = req[t].vehicle
          /\ req'[t].step = "heartbeatInsert"
      BY <2>1, <2>2 DEF Continue, TypesOfRequests, HeartbeatRequest
    <3> QED BY <1>2, <2>2, <3>1 DEF CheckHeartbeatMission, tables
  <2>3. CASE Finish(t)
    BY <2>3 DEF Finish, TypesOfRequests, Idle
  <2> QED BY <1>2, <2>2, <2>3 DEF CheckHeartbeatMission
<1>3. CASE Analyse(t) \/ RetryInsert(t)
  <2>1. req[t] \in TelemetryRequest \cup RawRequest
    BY <1>3, StepKinds DEF Analyse, RetryInsert, At, StoreSteps
  <2>2. req'[t].step \in {"record", "sensorVehicle", "missionVehicle"}
    BY <1>3, <2>1 DEF Analyse, RetryInsert, Continue, EnsureFirst,
       TypesOfRequests, TelemetryRequest, RawRequest
  <2> QED BY <2>2
<1>4. CASE EnsureVehicle(t) \/ EnsureSensor(t) \/ RecordDuplicate(t)
           \/ InsertTelemetry(t) \/ InsertRaw(t) \/ RecordFindings(t)
           \/ InsertHeartbeat(t)
  <2>1. Finish(t) \/ \E step : /\ Continue(t, step)
                               /\ step \notin {"insert", "heartbeatInsert"}
    BY <1>4 DEF EnsureVehicle, EnsureSensor, RecordDuplicate, InsertTelemetry,
       InsertRaw, Inserted, RecordFindings, InsertHeartbeat, AfterVehicle
  <2>2. CASE Finish(t)
    BY <2>2 DEF Finish, TypesOfRequests, Idle
  <2>3. ASSUME NEW step, Continue(t, step), step \notin {"insert", "heartbeatInsert"}
        PROVE  TaskReady(t)'
    <3>1. req[t] # Idle
      BY <1>4 DEF EnsureVehicle, EnsureSensor, RecordDuplicate, InsertTelemetry,
         InsertRaw, RecordFindings, InsertHeartbeat, At, Idle
    <3>2. req'[t].step = step
      BY <2>3, <3>1 DEF Continue, TypesOfRequests, TaskRequest,
         TelemetryRequest, RawRequest, HeartbeatRequest
    <3> QED BY <2>3, <3>2
  <2> QED BY <2>1, <2>2, <2>3
<1>5. CASE Normalise(t)
  <2>1. req'[t].step \in {"idle", "missionVehicle"}
    BY <1>5 DEF Normalise, Finish, TypesOfRequests, Idle, EnsureFirst
  <2> QED BY <2>1
<1>6. CASE Ingest(t)
  <2>1. req'[t].step \in {"missionVehicle", "sensorVehicle", "heartbeatVehicle"}
    BY <1>6 DEF Ingest, StoreTelemetry, StoreRaw, StoreHeartbeat, Receive,
       TypesOfRequests, EnsureFirst
  <2> QED BY <2>1
<1> QED BY <1>1, <1>2, <1>3, <1>4, <1>5, <1>6 DEF TaskStep

LEMMA IngestMoves ==
    ASSUME NEW t \in Tasks, Ingest(t)
    PROVE  \E r : Move(t, r)
BY DEF Ingest, StoreTelemetry, StoreRaw, StoreHeartbeat, Receive, Move

LEMMA AdministerMoves ==
    ASSUME Administer
    PROVE  UNCHANGED <<req, loop>> \/ \E h \in Threads : \E r : Move(h, r)
<1>1. ASSUME NEW v \in Vehicles, NEW h \in Threads, NEW s \in Sensors,
             CreateSensor(h, v, s)
      PROVE  \E r : Move(h, r)
  BY <1>1 DEF CreateSensor, Receive, Move
<1>2. ASSUME NEW v \in Vehicles, NEW h \in Threads, NEW m \in Missions,
             CreateMission(h, v, m)
      PROVE  \E r : Move(h, r)
  BY <1>2 DEF CreateMission, Receive, Move
<1>3. ASSUME NEW v \in Vehicles, CreateVehicle(v) \/ DeleteVehicle(v)
      PROVE  UNCHANGED <<req, loop>>
  BY <1>3 DEF CreateVehicle, DeleteVehicle
<1> QED BY <1>1, <1>2, <1>3 DEF Administer

LEMMA OperateControl ==
    ASSUME Operate
    PROVE  UNCHANGED <<req, loop>> \/ Restart
BY DEF Operate, DeleteSensor, TransitionMission, DeleteMission, ExecuteCleanup

(* Which step may add to a table, and which may take from the registry.    *)
LEMMA Writers ==
    ASSUME TypeOK, [Next]_vars
    PROVE  /\ telemetry' \subseteq telemetry \/ \E t \in Tasks : InsertTelemetry(t)
           /\ raw' \subseteq raw \/ \E t \in Tasks : InsertRaw(t)
           /\ heartbeats' \subseteq heartbeats \/ \E t \in Tasks : InsertHeartbeat(t)
           /\ vehicles \subseteq vehicles' \/ \E v \in Vehicles : DeleteVehicle(v)
           /\ \/ \A s \in Sensors : sensors[s] # None => sensors'[s] # None
              \/ \E s \in Sensors : DeleteSensor(s)
<1>1. ASSUME NEW t \in Tasks, Ingest(t)
      PROVE  UNCHANGED tables
  BY <1>1 DEF Ingest, StoreTelemetry, StoreRaw, StoreHeartbeat, Receive
<1>2. ASSUME NEW t \in Tasks, TaskStep(t)
      PROVE  /\ UNCHANGED telemetry \/ InsertTelemetry(t)
             /\ UNCHANGED raw \/ InsertRaw(t)
             /\ UNCHANGED heartbeats \/ InsertHeartbeat(t)
             /\ vehicles \subseteq vehicles'
             /\ UNCHANGED sensors \/ EnsureSensor(t)
  BY <1>2 DEF TaskStep, EnsureVehicle, EnsureSensor, EnsureMission, Analyse,
     RecordDuplicate, RetryInsert, InsertTelemetry, InsertRaw, RecordFindings,
     Normalise, CheckHeartbeatMission, InsertHeartbeat, tables
<1>3. ASSUME NEW t \in Tasks, EnsureSensor(t), NEW s \in Sensors,
             sensors[s] # None
      PROVE  sensors'[s] # None
  <2>1. req[t].vehicle # None
    BY <1>3, StepKinds, ConstantsAssumption DEF EnsureSensor, At, RawRequest,
       TypeOK
  <2> QED BY <1>3, <2>1 DEF EnsureSensor, TypeOK, TypesOfTables
<1>4. ASSUME NEW h \in Threads, ThreadStep(h)
      PROVE  /\ UNCHANGED <<telemetry, raw, heartbeats>>
             /\ vehicles \subseteq vehicles'
             /\ UNCHANGED sensors \/ InsertSensor(h)
  BY <1>4 DEF ThreadStep, EnsureVehicle, InsertSensor, InsertMission
<1>5. ASSUME NEW h \in Threads, InsertSensor(h), NEW s \in Sensors,
             sensors[s] # None
      PROVE  sensors'[s] # None
  BY <1>5 DEF InsertSensor, TypeOK, TypesOfTables
<1>6. ASSUME Administer
      PROVE  /\ UNCHANGED <<telemetry, raw, heartbeats, sensors>>
             /\ vehicles \subseteq vehicles' \/ \E v \in Vehicles : DeleteVehicle(v)
  BY <1>6 DEF Administer, CreateVehicle, DeleteVehicle, CreateSensor,
     CreateMission, Receive, tables
<1>7. ASSUME Operate
      PROVE  /\ telemetry' \subseteq telemetry /\ raw' \subseteq raw
             /\ heartbeats' \subseteq heartbeats /\ vehicles \subseteq vehicles'
             /\ UNCHANGED sensors \/ \E s \in Sensors : DeleteSensor(s)
  BY <1>7 DEF Operate, DeleteSensor, TransitionMission, DeleteMission,
     ExecuteCleanup, Restart
<1>8. CASE UNCHANGED vars
  BY <1>8 DEF vars
<1>9. CASE \E t \in Tasks : Ingest(t) \/ TaskStep(t)
  BY <1>1, <1>2, <1>3, <1>9 DEF tables
<1>10. CASE \E h \in Threads : ThreadStep(h)
  BY <1>4, <1>5, <1>10
<1>11. CASE Administer
  BY <1>6, <1>11
<1>12. CASE Operate
  BY <1>7, <1>12
<1> QED BY <1>8, <1>9, <1>10, <1>11, <1>12 DEF Next

(* The loop stays exclusive and every coroutine ready.                     *)
LEMMA ControlNext ==
    ASSUME Inv, [Next]_vars
    PROVE  LoopExclusive' /\ \A t \in Tasks : TaskReady(t)'
<1> USE DEF Inv
<1>1. ASSUME NEW m \in Missions, DeleteMission(m)
      PROVE  LoopExclusive' /\ \A t \in Tasks : TaskReady(t)'
  <2>1. \A t \in Tasks : req[t].step \in Suspended
    BY <1>1, ConstantsAssumption DEF DeleteMission, LoopExclusive
  <2> QED BY <1>1, <2>1 DEF DeleteMission, LoopExclusive, TaskReady, Suspended
<1>2. CASE \A m \in Missions : ~DeleteMission(m)
  <2> Kept
    BY <1>2, MissionsKept
  <2>1. ASSUME NEW t \in Tasks, Ingest(t) \/ TaskStep(t)
        PROVE  LoopExclusive' /\ \A u \in Tasks : TaskReady(u)'
    <3>1. PICK r : Move(t, r)
      BY <2>1, IngestMoves, TaskMoves
    <3>2. LoopExclusive' /\ \A u \in Tasks : u # t => req'[u] = req[u]
      BY <3>1, MoveExclusive DEF Handlers
    <3> QED BY <2>1, <3>2, ReadyStays, ReadyReached
  <2>2. ASSUME NEW h \in Threads, NEW r, Move(h, r)
        PROVE  LoopExclusive' /\ \A u \in Tasks : TaskReady(u)'
    <3>1. LoopExclusive' /\ \A u \in Tasks : req'[u] = req[u]
      BY <2>2, MoveExclusive, ConstantsAssumption DEF Handlers
    <3> QED BY <3>1, ReadyStays
  <2>3. CASE UNCHANGED <<req, loop>>
    BY <2>3, ReadyStays DEF LoopExclusive
  <2>4. CASE Restart
    BY <2>4 DEF Restart, LoopExclusive, TaskReady, Handlers, Idle, Suspended
  <2> QED BY <2>1, <2>2, <2>3, <2>4, ThreadMoves, AdministerMoves,
             OperateControl DEF Next, vars
<1> QED BY <1>1, <1>2

-----------------------------------------------------------------------------
(* Where the rows are filed.                                               *)

LEMMA TelemetryNext ==
    ASSUME Inv, [Next]_vars
    PROVE  TelemetryFiled'
<1> USE DEF Inv, TypeOK
<1>1. \A row \in telemetry : row.mission \in Missions /\ row.vehicle \in Vehicles
  BY DEF TypesOfTables, TelemetryRow
<1>2. ASSUME NEW m \in Missions, DeleteMission(m) PROVE TelemetryFiled'
  BY <1>1, <1>2 DEF DeleteMission, TelemetryFiled, AcceptedBy, TypesOfTables
<1>3. CASE \A m \in Missions : ~DeleteMission(m)
  <2> Kept
    BY <1>3, MissionsKept
  <2>1. CASE telemetry' \subseteq telemetry
    BY <1>1, <2>1 DEF Kept, TelemetryFiled
  <2>2. ASSUME NEW t \in Tasks, InsertTelemetry(t) PROVE TelemetryFiled'
    <3>1. AcceptedBy(req[t].mission, req[t].vehicle)
      BY <2>2 DEF InsertTelemetry, At, TaskReady
    <3>2. UNCHANGED missions
      BY <2>2 DEF InsertTelemetry
    <3> QED BY <2>2, <3>1, <3>2 DEF InsertTelemetry, TelemetryFiled, AcceptedBy
  <2> QED BY <2>1, <2>2, Writers
<1> QED BY <1>2, <1>3

LEMMA RawNext ==
    ASSUME Inv, [Next]_vars
    PROVE  RawFiled'
<1> USE DEF Inv, TypeOK
<1>1. \A row \in raw : /\ row.mission \in Missions /\ row.vehicle \in Vehicles
                       /\ row.sensor \in Sensors
  BY DEF TypesOfTables, RawRow
<1>2. ASSUME NEW m \in Missions, DeleteMission(m) PROVE RawFiled'
  BY <1>1, <1>2 DEF DeleteMission, RawFiled, AcceptedBy, TypesOfTables
<1>3. CASE \A m \in Missions : ~DeleteMission(m)
  <2> Kept
    BY <1>3, MissionsKept
  <2>1. ASSUME NEW t \in Tasks, InsertRaw(t) PROVE RawFiled'
    <3>1. AcceptedBy(req[t].mission, req[t].vehicle)
      BY <2>1 DEF InsertRaw, At, TaskReady
    <3>2. req[t].sensor # None
      BY <2>1, StepKinds, ConstantsAssumption DEF InsertRaw, At, StoreSteps,
         RawRequest, TelemetryRequest
    <3>3. UNCHANGED <<missions, vehicles, sensors>>
      BY <2>1 DEF InsertRaw
    <3> QED BY <2>1, <3>1, <3>2, <3>3 DEF InsertRaw, CanRecord, RawFiled,
               AcceptedBy
  <2>2. CASE raw' \subseteq raw
    <3>1. \A row \in raw' : AcceptedBy(row.mission, row.vehicle)'
      BY <1>1, <2>2 DEF Kept, RawFiled
    <3>2. ASSUME NEW row \in raw' PROVE row.vehicle \in vehicles'
      BY <2>2, Writers DEF RawFiled, DeleteVehicle
    <3>3. ASSUME NEW row \in raw' PROVE sensors'[row.sensor] # None
      <4>1. row.sensor \in Sensors /\ sensors[row.sensor] # None /\ row \in raw
        BY <1>1, <2>2 DEF RawFiled
      <4>2. ASSUME NEW s \in Sensors, DeleteSensor(s)
            PROVE  sensors'[row.sensor] # None
        BY <4>1, <4>2 DEF DeleteSensor, TypesOfTables
      <4> QED BY <4>1, <4>2, Writers
    <3> QED BY <3>1, <3>2, <3>3 DEF RawFiled
  <2> QED BY <2>1, <2>2, Writers
<1> QED BY <1>2, <1>3

LEMMA HeartbeatNext ==
    ASSUME Inv, [Next]_vars
    PROVE  HeartbeatFiled'
<1> USE DEF Inv, TypeOK
<1>1. \A row \in heartbeats : /\ row.mission \in Missions \cup {None}
                              /\ row.vehicle \in Vehicles
  BY DEF TypesOfTables, HeartbeatRow
<1>2. ASSUME NEW m \in Missions, DeleteMission(m) PROVE HeartbeatFiled'
  BY <1>1, <1>2 DEF DeleteMission, HeartbeatFiled, TypesOfTables
<1>3. CASE \A m \in Missions : ~DeleteMission(m)
  <2> Kept
    BY <1>3, MissionsKept
  <2>1. ASSUME NEW t \in Tasks, InsertHeartbeat(t) PROVE HeartbeatFiled'
    <3>1. req[t].mission # None
            => missions[req[t].mission].vehicle = req[t].vehicle
      BY <2>1 DEF InsertHeartbeat, At, TaskReady
    <3>2. UNCHANGED <<missions, vehicles>>
      BY <2>1 DEF InsertHeartbeat
    <3> QED BY <2>1, <3>1, <3>2 DEF InsertHeartbeat, HeartbeatFiled
  <2>2. CASE heartbeats' \subseteq heartbeats
    <3>1. ASSUME NEW row \in heartbeats' PROVE row.vehicle \in vehicles'
      BY <2>2, Writers DEF HeartbeatFiled, DeleteVehicle
    <3>2. ASSUME NEW row \in heartbeats', row.mission # None
          PROVE  missions'[row.mission].vehicle = row.vehicle
      BY <1>1, <2>2, <3>2 DEF Kept, HeartbeatFiled
    <3> QED BY <3>1, <3>2 DEF HeartbeatFiled
  <2> QED BY <2>1, <2>2, Writers
<1> QED BY <1>2, <1>3

-----------------------------------------------------------------------------
(* What happens to missions.                                               *)

Acquiring(m, v) ==
    /\ missions[m].vehicle \in {None, v}
    /\ missions' = [missions EXCEPT ![m] = Acquired(missions[m], v)]
    /\ UNCHANGED <<telemetry, raw>>

Planned(v) ==
    [vehicle |-> v, status |-> "PLANNED", started |-> FALSE, ended |-> FALSE]

Planning(m, v) ==
    /\ missions[m] = NoMission
    /\ missions' = [missions EXCEPT ![m] = Planned(v)]
    /\ UNCHANGED <<telemetry, raw>>

(* The only steps that write a mission row.                                *)
LEMMA MissionWriters ==
    ASSUME TypeOK, [Next]_vars
    PROVE  \/ UNCHANGED missions
           \/ \E m \in Missions, v \in Vehicles : Acquiring(m, v) \/ Planning(m, v)
           \/ \E m \in Missions, target \in Status : TransitionMission(m, target)
           \/ \E m \in Missions : DeleteMission(m)
<1> USE DEF TypeOK
<1>1. ASSUME NEW t \in Tasks, EnsureMission(t), ~UNCHANGED missions
      PROVE  \E m \in Missions, v \in Vehicles : Acquiring(m, v)
  <2>1. req[t].mission \in Missions /\ req[t].vehicle \in Vehicles
    BY <1>1, StepKinds DEF EnsureMission, At, StoreSteps, TelemetryRequest,
       RawRequest
  <2>2. Acquiring(req[t].mission, req[t].vehicle)
    BY <1>1 DEF EnsureMission, Acquiring
  <2> QED BY <2>1, <2>2
<1>2. ASSUME NEW h \in Threads, InsertMission(h), ~UNCHANGED missions
      PROVE  \E m \in Missions, v \in Vehicles : Planning(m, v)
  <2>1. req[h].mission \in Missions /\ req[h].vehicle \in Vehicles
    BY <1>2, ThreadKinds DEF InsertMission, At, MissionRequest
  <2>2. Planning(req[h].mission, req[h].vehicle)
    BY <1>2 DEF InsertMission, Planning, Planned
  <2> QED BY <2>1, <2>2
<1>3. ASSUME NEW t \in Tasks, Ingest(t) \/ TaskStep(t), ~EnsureMission(t)
      PROVE  UNCHANGED missions
  BY <1>3 DEF Ingest, StoreTelemetry, StoreRaw, StoreHeartbeat, Receive, tables,
     TaskStep, EnsureVehicle, EnsureSensor, Analyse, RecordDuplicate,
     RetryInsert, InsertTelemetry, InsertRaw, RecordFindings, Normalise,
     CheckHeartbeatMission, InsertHeartbeat
<1>4. ASSUME NEW h \in Threads, ThreadStep(h), ~InsertMission(h)
      PROVE  UNCHANGED missions
  BY <1>4 DEF ThreadStep, EnsureVehicle, InsertSensor
<1>5. ASSUME Administer PROVE UNCHANGED missions
  BY <1>5 DEF Administer, CreateVehicle, DeleteVehicle, CreateSensor,
     CreateMission, Receive, tables
<1>6. ASSUME Operate
      PROVE  \/ UNCHANGED missions
             \/ \E m \in Missions, target \in Status : TransitionMission(m, target)
             \/ \E m \in Missions : DeleteMission(m)
  BY <1>6 DEF Operate, DeleteSensor, ExecuteCleanup, Restart
<1> QED BY <1>1, <1>2, <1>3, <1>4, <1>5, <1>6 DEF Next, vars

LEMMA TransitionRow ==
    ASSUME TypeOK, NEW m \in Missions, NEW target, TransitionMission(m, target)
    PROVE  /\ missions[m] \in MissionRow
           /\ target \in {"RUNNING"} \cup Terminal
           /\ missions[m].status \notin Terminal
           /\ missions' = [missions EXCEPT ![m] =
                [missions[m] EXCEPT !.status = target,
                    !.started = missions[m].started \/ target = "RUNNING",
                    !.ended = missions[m].ended \/ target \in Terminal]]
<1>1. /\ missions[m] \in MissionRow
      /\ target \in {"RUNNING"} \cup Terminal
      /\ missions[m].status \notin Terminal
  BY DEF TypeOK, TransitionMission, TypesOfTables, NoMission, Allowed, Terminal
<1> QED BY <1>1 DEF TypeOK, TransitionMission, TypesOfTables

LEMMA TimesNext ==
    ASSUME Inv, [Next]_vars
    PROVE  MissionTimes'
<1> USE DEF Inv, TypeOK, TypesOfTables
<1>1. CASE UNCHANGED missions
  BY <1>1 DEF MissionTimes
<1>2. ASSUME NEW m \in Missions, NEW v \in Vehicles, Acquiring(m, v)
      PROVE  MissionTimes'
  <2> DEFINE row == Acquired(missions[m], v)
  <2>1. /\ row.ended <=> row.status \in Terminal
        /\ row.status \in {"RUNNING", "COMPLETED"} => row.started
    BY DEF Acquired, MissionTimes, Terminal
  <2> HIDE DEF row
  <2>2. missions' = [missions EXCEPT ![m] = row]
    BY <1>2 DEF Acquiring, row
  <2> QED BY <2>1, <2>2 DEF MissionTimes
<1>3. ASSUME NEW m \in Missions, NEW v \in Vehicles, Planning(m, v)
      PROVE  MissionTimes'
  BY <1>3 DEF Planning, Planned, MissionTimes, Terminal
<1>4. ASSUME NEW m \in Missions, NEW target \in Status,
             TransitionMission(m, target)
      PROVE  MissionTimes'
  <2> DEFINE row == [missions[m] EXCEPT !.status = target,
                    !.started = missions[m].started \/ target = "RUNNING",
                    !.ended = missions[m].ended \/ target \in Terminal]
  <2>1. missions[m] \in MissionRow /\ missions' = [missions EXCEPT ![m] = row]
    BY <1>4, TransitionRow
  <2>2. /\ row.status = target
        /\ row.started <=> missions[m].started \/ target = "RUNNING"
        /\ row.ended <=> missions[m].ended \/ target \in Terminal
    BY <2>1 DEF MissionRow
  <2>3. /\ row.ended <=> row.status \in Terminal
        /\ row.status \in {"RUNNING", "COMPLETED"} => row.started
    BY <1>4, <2>2, TransitionRow
       DEF MissionTimes, Terminal, TransitionMission, Allowed
  <2> HIDE DEF row
  <2> QED BY <2>1, <2>3 DEF MissionTimes
<1>5. ASSUME NEW m \in Missions, DeleteMission(m) PROVE MissionTimes'
  BY <1>5 DEF DeleteMission, MissionTimes, NoMission, Terminal
<1> QED BY <1>1, <1>2, <1>3, <1>4, <1>5, MissionWriters

-----------------------------------------------------------------------------
(* The theorems.                                                           *)

LEMMA InvInit == Init => Inv
BY TypeInit DEF Init, Inv, LoopExclusive, TaskReady, TelemetryFiled, RawFiled,
   HeartbeatFiled, MissionTimes, NoMission, Terminal, Idle, Suspended, Handlers

LEMMA InvNext == Inv /\ [Next]_vars => Inv'
<1> SUFFICES ASSUME Inv, [Next]_vars PROVE Inv'
  OBVIOUS
<1>1. TypeOK'
  BY TypeNext DEF Inv
<1>2. LoopExclusive' /\ \A t \in Tasks : TaskReady(t)'
  BY ControlNext
<1>3. TelemetryFiled' /\ RawFiled' /\ HeartbeatFiled' /\ MissionTimes'
  BY TelemetryNext, RawNext, HeartbeatNext, TimesNext
<1> QED BY <1>1, <1>2, <1>3 DEF Inv

LEMMA Invariance == Spec => []Inv
BY InvInit, InvNext, PTL DEF Spec

(* Telemetry is filed under a started mission of its own vehicle, whatever *)
(* the interleaving of _store_telemetry with deletions and transitions.    *)
THEOREM TelemetryIsFiled == Spec => []TelemetryFiled
<1>1. Inv => TelemetryFiled
  BY DEF Inv
<1> QED BY <1>1, Invariance, PTL

(* So are raw messages, whose vehicle and sensor stay registered.          *)
THEOREM RawIsFiled == Spec => []RawFiled
<1>1. Inv => RawFiled
  BY DEF Inv
<1> QED BY <1>1, Invariance, PTL

(* A heartbeat that insert_heartbeat accepts names its vehicle's mission.  *)
THEOREM HeartbeatIsFiled == Spec => []HeartbeatFiled
<1>1. Inv => HeartbeatFiled
  BY DEF Inv
<1> QED BY <1>1, Invariance, PTL

(* Every row is filed, whatever the interleaving of the ingestion handlers *)
(* with deletions, transitions, cleanups and restarts.                     *)
THEOREM RowsAreFiled == Spec => []RowsFiled
<1>1. TelemetryFiled /\ RawFiled /\ HeartbeatFiled <=> RowsFiled
  BY DEF RowsFiled
<1> QED BY <1>1, TelemetryIsFiled, RawIsFiled, HeartbeatIsFiled, PTL

(* transition_mission and ensure_mission agree on a mission's times.       *)
THEOREM TimesAgree == Spec => []MissionTimes
<1>1. Inv => MissionTimes
  BY DEF Inv
<1> QED BY <1>1, Invariance, PTL

-----------------------------------------------------------------------------
(* The store implements MissionLifecycle.                                  *)

(* The steps that add or remove stored messages.                           *)
LEMMA MessageWriters ==
    ASSUME TypeOK, [Next]_vars
    PROVE  \/ UNCHANGED <<telemetry, raw>>
           \/ \E t \in Tasks : InsertTelemetry(t) \/ InsertRaw(t)
           \/ ExecuteCleanup
           \/ \E m \in Missions : DeleteMission(m)
<1>1. ASSUME NEW t \in Tasks, Ingest(t) \/ TaskStep(t),
             ~InsertTelemetry(t), ~InsertRaw(t)
      PROVE  UNCHANGED <<telemetry, raw>>
  BY <1>1 DEF Ingest, StoreTelemetry, StoreRaw, StoreHeartbeat, Receive, tables,
     TaskStep, EnsureVehicle, EnsureSensor, EnsureMission, Analyse,
     RecordDuplicate, RetryInsert, RecordFindings, Normalise,
     CheckHeartbeatMission, InsertHeartbeat
<1>2. ASSUME NEW h \in Threads, ThreadStep(h) PROVE UNCHANGED <<telemetry, raw>>
  BY <1>2 DEF ThreadStep, EnsureVehicle, InsertSensor, InsertMission
<1>3. ASSUME Administer PROVE UNCHANGED <<telemetry, raw>>
  BY <1>3 DEF Administer, CreateVehicle, DeleteVehicle, CreateSensor,
     CreateMission, Receive, tables
<1>4. CASE Operate
  BY <1>4 DEF Operate, DeleteSensor, TransitionMission, Restart
<1> QED BY <1>1, <1>2, <1>3, <1>4 DEF Next, vars

(* Storing a message is Record, or nothing.                                *)
LEMMA InsertRecords ==
    ASSUME Inv, NEW t \in Tasks, InsertTelemetry(t) \/ InsertRaw(t)
    PROVE  [Lifecycle!Next]_(Lifecycle!lifecycle)
<1>1. PICK n \in Missions : n = req[t].mission
  BY StepKinds DEF Inv, TypeOK, InsertTelemetry, InsertRaw, At, StoreSteps,
     TelemetryRequest, RawRequest
<1>2. UNCHANGED missions
  BY DEF InsertTelemetry, InsertRaw
<1>3. CASE UNCHANGED <<telemetry, raw>>
  BY <1>2, <1>3 DEF Lifecycle!lifecycle, HasData
<1>4. CASE ~UNCHANGED <<telemetry, raw>>
  <2>1. missions[n].status \in {"RUNNING"} \cup Terminal
    <3>1. AcceptedBy(n, req[t].vehicle)
      BY <1>1 DEF Inv, TaskReady, InsertTelemetry, InsertRaw, At
    <3> QED BY <1>1, <3>1 DEF AcceptedBy, Inv, TypeOK, TypesOfTables, MissionRow,
               NoMission, Status
  <2>2. /\ HasData(n)'
        /\ \A m \in Missions : m # n => (HasData(m)' <=> HasData(m))
    <3>1. CASE InsertTelemetry(t)
      <4>1. PICK row : /\ telemetry' = telemetry \cup {row} /\ row.mission = n
                       /\ raw' = raw
        BY <1>1, <1>4, <3>1 DEF InsertTelemetry
      <4>2. \A m \in Missions : HasData(m)' <=> HasData(m) \/ m = n
        BY <4>1 DEF HasData
      <4> QED BY <1>1, <4>2
    <3>2. CASE InsertRaw(t)
      <4>1. PICK row : /\ raw' = raw \cup {row} /\ row.mission = n
                       /\ telemetry' = telemetry
        BY <1>1, <1>4, <3>2 DEF InsertRaw
      <4>2. \A m \in Missions : HasData(m)' <=> HasData(m) \/ m = n
        BY <4>1 DEF HasData
      <4> QED BY <1>1, <4>2
    <3> QED BY <3>1, <3>2
  <2>3. Lifecycle!Record(n)
    BY <1>1, <1>2, <2>1, <2>2 DEF Lifecycle!Record, Lifecycle!Over, Terminal
  <2> QED BY <1>1, <2>3 DEF Lifecycle!Next
<1> QED BY <1>3, <1>4

LEMMA CleanupPurges ==
    ASSUME Inv, ExecuteCleanup
    PROVE  Lifecycle!Next
<1> DEFINE purged == {m \in Missions : HasData(m) /\ ~HasData(m)'}
<1>1. /\ UNCHANGED missions
      /\ telemetry' \subseteq telemetry /\ raw' \subseteq raw
      /\ \A row \in (telemetry \ telemetry') \cup (raw \ raw') :
            missions[row.mission].status \in Terminal
  BY DEF ExecuteCleanup, Eligible
<1>2. \A m \in Missions : HasData(m)' <=> HasData(m) /\ m \notin purged
  BY <1>1 DEF HasData
<1>3. \A m \in purged : missions[m].status \in Terminal
  BY <1>1 DEF HasData
<1> HIDE DEF purged
<1>4. purged \subseteq Missions
  BY DEF purged
<1>5. Lifecycle!Purge
  BY <1>1, <1>2, <1>3, <1>4 DEF Lifecycle!Purge, Lifecycle!Over, Terminal
<1> QED BY <1>5 DEF Lifecycle!Next

LEMMA DeletionDeletes ==
    ASSUME Inv, NEW m \in Missions, DeleteMission(m)
    PROVE  Lifecycle!Next
<1>1. /\ ~HasData(m)'
      /\ \A n \in Missions : n # m => (HasData(n)' <=> HasData(n))
  BY DEF DeleteMission, HasData
<1>2. missions' = [missions EXCEPT ![m] = NoMission]
  BY DEF DeleteMission
<1>3. Lifecycle!Delete(m)
  BY <1>1, <1>2 DEF Lifecycle!Delete, Inv, TypeOK, TypesOfTables, NoMission
<1> QED BY <1>3 DEF Lifecycle!Next

(* EnsureMission starts a mission that is not started, or stutters.        *)
LEMMA AcquiringAcquires ==
    ASSUME Inv, NEW m \in Missions, NEW v \in Vehicles, Acquiring(m, v)
    PROVE  [Lifecycle!Next]_(Lifecycle!lifecycle)
<1> DEFINE row == Acquired(missions[m], v)
<1>1. /\ missions[m] \in MissionRow \cup {NoMission}
      /\ missions \in [Missions -> MissionRow \cup {NoMission}]
  BY DEF Inv, TypeOK, TypesOfTables
<1>2. /\ row.vehicle = v
      /\ row.status = IF missions[m].status \in {"ABSENT", "PLANNED"}
                        THEN "RUNNING" ELSE missions[m].status
  BY DEF Acquired
<1>3. missions' = [missions EXCEPT ![m] = row] /\ UNCHANGED <<telemetry, raw>>
  BY DEF Acquiring
<1> HIDE DEF row
<1>4. UNCHANGED {n \in Missions : HasData(n)}
  BY <1>3 DEF HasData
<1>5. CASE missions[m].status \in {"ABSENT", "PLANNED"}
  <2>1. missions[m].status = "ABSENT" \/ missions[m].vehicle = v
    BY <1>1, <1>5, ConstantsAssumption DEF Acquiring, MissionRow, NoMission
  <2>2. Lifecycle!Acquire(m, v)
    BY <1>1, <1>2, <1>3, <1>4, <1>5, <2>1 DEF Lifecycle!Acquire
  <2> QED BY <2>2 DEF Lifecycle!Next
<1>6. CASE missions[m].status \notin {"ABSENT", "PLANNED"}
  <2>1. missions[m].vehicle = v
    BY <1>1, <1>6, ConstantsAssumption DEF Acquiring, MissionRow, NoMission
  <2> QED BY <1>1, <1>2, <1>3, <1>4, <1>6, <2>1 DEF Lifecycle!lifecycle
<1> QED BY <1>5, <1>6

LEMMA PlanningPlans ==
    ASSUME Inv, NEW m \in Missions, NEW v \in Vehicles, Planning(m, v)
    PROVE  Lifecycle!Next
<1>1. missions \in [Missions -> MissionRow \cup {NoMission}]
  BY DEF Inv, TypeOK, TypesOfTables
<1>2. UNCHANGED {n \in Missions : HasData(n)}
  BY DEF Planning, HasData
<1>3. Planned(v).vehicle = v /\ Planned(v).status = "PLANNED"
  BY DEF Planned
<1>4. missions[m].status = "ABSENT"
  BY DEF Planning, NoMission
<1>5. Lifecycle!Plan(m, v)
  BY <1>1, <1>2, <1>3, <1>4 DEF Planning, Lifecycle!Plan
<1> QED BY <1>5 DEF Lifecycle!Next

LEMMA TransitionAdvances ==
    ASSUME Inv, NEW m \in Missions, NEW target, TransitionMission(m, target),
           UNCHANGED <<telemetry, raw>>
    PROVE  Lifecycle!Next
<1> DEFINE row == [missions[m] EXCEPT !.status = target,
                    !.started = missions[m].started \/ target = "RUNNING",
                    !.ended = missions[m].ended \/ target \in Terminal]
<1>1. /\ missions[m] \in MissionRow
      /\ target \in {"RUNNING"} \cup Terminal
      /\ missions' = [missions EXCEPT ![m] = row]
      /\ missions \in [Missions -> MissionRow \cup {NoMission}]
  BY TransitionRow DEF Inv, TypeOK, TypesOfTables
<1>2. row.vehicle = missions[m].vehicle /\ row.status = target
  BY <1>1 DEF MissionRow
<1> HIDE DEF row
<1>3. UNCHANGED {n \in Missions : HasData(n)}
  BY DEF HasData
<1>4. target \in Lifecycle!Successors(missions[m].status)
  BY DEF TransitionMission, Allowed, Lifecycle!Successors, Lifecycle!Over
<1>5. Lifecycle!Advance(m, target)
  BY <1>1, <1>2, <1>3, <1>4 DEF Lifecycle!Advance
<1> QED BY <1>1, <1>5 DEF Lifecycle!Next, Lifecycle!Over, Terminal

(* Every step of the store is a step of its missions' lifecycles.          *)
LEMMA StepImplements ==
    ASSUME Inv, [Next]_vars
    PROVE  [Lifecycle!Next]_(Lifecycle!lifecycle)
<1>1. CASE \E t \in Tasks : InsertTelemetry(t) \/ InsertRaw(t)
  BY <1>1, InsertRecords
<1>2. CASE ExecuteCleanup
  BY <1>2, CleanupPurges
<1>3. CASE \E m \in Missions : DeleteMission(m)
  BY <1>3, DeletionDeletes
<1>4. CASE UNCHANGED <<telemetry, raw>>
  <2>1. CASE UNCHANGED missions
    BY <1>4, <2>1 DEF Lifecycle!lifecycle, HasData
  <2>2. CASE \E m \in Missions, v \in Vehicles : Acquiring(m, v) \/ Planning(m, v)
    BY <2>2, AcquiringAcquires, PlanningPlans
  <2>3. CASE \E m \in Missions, target \in Status : TransitionMission(m, target)
    BY <1>4, <2>3, TransitionAdvances
  <2> QED BY <1>3, <2>1, <2>2, <2>3, MissionWriters DEF Inv
<1> QED BY <1>1, <1>2, <1>3, <1>4, MessageWriters DEF Inv

LEMMA InitImplements == Init => Lifecycle!Init
BY DEF Init, Lifecycle!Init, NoMission, HasData

(* The store implements the lifecycle its missions promise, under every    *)
(* interleaving of the handlers of main.py and across crashes.             *)
THEOREM StoreImplementsLifecycle == Spec => ImplementsLifecycle
BY InitImplements, StepImplements, Invariance, PTL
   DEF Spec, ImplementsLifecycle, Lifecycle!Spec

(* A mission that is over never runs again, late data or not.              *)
THEOREM TerminalMissionsStay == Spec => TerminalStays
<1>1. ASSUME Inv, [Next]_vars
      PROVE  [\A m \in Missions :
                missions[m].status \in Terminal =>
                  missions'[m].status \in {missions[m].status, "ABSENT"}]_vars
  <2> SUFFICES ASSUME NEW n \in Missions, missions[n].status \in Terminal
               PROVE  missions'[n].status \in {missions[n].status, "ABSENT"}
    OBVIOUS
  <2>1. missions \in [Missions -> MissionRow \cup {NoMission}]
    BY <1>1 DEF Inv, TypeOK, TypesOfTables
  <2>2. ASSUME NEW m \in Missions, NEW v \in Vehicles, Acquiring(m, v)
        PROVE  missions'[n].status = missions[n].status
    <3>1. CASE n = m
      BY <2>1, <2>2, <3>1 DEF Acquiring, Acquired, Terminal
    <3>2. CASE n # m
      BY <2>1, <2>2, <3>2 DEF Acquiring
    <3> QED BY <3>1, <3>2
  <2>3. ASSUME NEW m \in Missions, NEW v \in Vehicles, Planning(m, v)
        PROVE  missions'[n].status = missions[n].status
    <3>1. n # m
      BY <2>3 DEF Planning, NoMission, Terminal
    <3> QED BY <2>1, <2>3, <3>1 DEF Planning
  <2>4. ASSUME NEW m \in Missions, NEW target \in Status,
               TransitionMission(m, target)
        PROVE  missions'[n].status = missions[n].status
    <3>1. m # n
      BY <1>1, <2>4, TransitionRow DEF Inv
    <3> QED BY <2>1, <2>4, <3>1 DEF TransitionMission
  <2>5. ASSUME NEW m \in Missions, DeleteMission(m)
        PROVE  missions'[n].status \in {missions[n].status, "ABSENT"}
    BY <2>1, <2>5 DEF DeleteMission, NoMission
  <2> QED BY <1>1, <2>2, <2>3, <2>4, <2>5, MissionWriters DEF Inv
<1> QED BY <1>1, Invariance, PTL DEF Spec, TerminalStays


-----------------------------------------------------------------------------
(* What holds as long as ids are not used again, or nothing is deleted.    *)

(* Sensors that are never registered for another vehicle: home[s] is the   *)
(* only one that sensor s ever has.                                        *)
SensorsAtHome(home) == \A s \in Sensors : sensors[s] \in {home[s], None}

(* A message that is past its sensor's check comes from there.             *)
PastSensor(r) == r \in RawRequest /\ r.step \notin {"sensorVehicle", "sensor"}
FromHome(r, home) == PastSensor(r) => r.vehicle = home[r.sensor]
MessagesFromHome(home) ==
    /\ \A t \in Tasks : FromHome(req[t], home)
    /\ \A row \in raw : row.vehicle = home[row.sensor]

(* What a step makes of the request: it ends, or becomes one that has not  *)
(* passed its sensor, or one of the same sensor and vehicle.               *)
SameSensor(old, new) ==
    /\ old \in RawRequest => new.vehicle = old.vehicle /\ new.sensor = old.sensor
    /\ PastSensor(new) => PastSensor(old)

LEMMA ContinuesSame ==
    ASSUME TypesOfRequests, NEW t \in Tasks, NEW step, Continue(t, step),
           req[t].step # "idle",
           req[t].step \in {"sensorVehicle", "sensor"}
             => step \in {"sensorVehicle", "sensor"}
    PROVE  SameSensor(req[t], req'[t])
<1>1. req[t] \in TelemetryRequest \cup RawRequest \cup HeartbeatRequest
  BY DEF TypesOfRequests, TaskRequest, Idle
<1>2. t \in Handlers /\ req'[t] = [req[t] EXCEPT !.step = step]
  BY DEF Continue, TypesOfRequests, Handlers
<1>3. CASE req[t] \in RawRequest
  BY <1>2, <1>3 DEF SameSensor, PastSensor, RawRequest
<1>4. CASE req[t] \in TelemetryRequest \cup HeartbeatRequest
  <2>1. req'[t].kind # "raw" /\ req[t].kind # "raw"
    BY <1>2, <1>4 DEF TelemetryRequest, HeartbeatRequest
  <2> QED BY <2>1 DEF SameSensor, PastSensor, RawRequest
<1> QED BY <1>1, <1>3, <1>4


LEMMA FinishedSame ==
    ASSUME TypesOfRequests, NEW t \in Tasks, Finish(t), NEW home
    PROVE  FromHome(req'[t], home)
<1>1. req'[t] = Idle
  BY DEF Finish, TypesOfRequests, Handlers
<1> QED BY <1>1 DEF FromHome, PastSensor, RawRequest, Idle

LEMMA StepFromHome ==
    ASSUME NEW home, TypeOK, SensorsAtHome(home)', NEW t \in Tasks,
           FromHome(req[t], home), TaskStep(t) \/ Ingest(t)
    PROVE  FromHome(req'[t], home)
<1> USE DEF TypeOK
<1> t \in Handlers
  BY DEF Handlers
<1>1. ASSUME SameSensor(req[t], req'[t]) PROVE FromHome(req'[t], home)
  BY <1>1 DEF SameSensor, FromHome, PastSensor
<1>2. CASE EnsureSensor(t)
  <2>1. req[t] \in RawRequest
    BY <1>2, StepKinds DEF EnsureSensor, At
  <2>2. CASE SensorOwned(req[t])
    <3>1. req' = [req EXCEPT ![t].step = "missionVehicle"]
      BY <1>2, <2>2 DEF EnsureSensor, Continue
    <3>2. req'[t].vehicle = req[t].vehicle /\ req'[t].sensor = req[t].sensor
      BY <2>1, <3>1 DEF TypesOfRequests, RawRequest
    <3>3. sensors'[req[t].sensor] = req[t].vehicle
      BY <1>2, <2>1, <2>2 DEF EnsureSensor, TypesOfTables, RawRequest
    <3>4. req[t].vehicle = home[req[t].sensor]
      BY <2>1, <3>3, ConstantsAssumption DEF SensorsAtHome, RawRequest
    <3> QED BY <3>2, <3>4 DEF FromHome
  <2>3. CASE Finish(t)
    BY <2>3, FinishedSame
  <2> QED BY <1>2, <2>2, <2>3 DEF EnsureSensor
<1>3. CASE Analyse(t) \/ RetryInsert(t)
  <2>1. req[t] \in TelemetryRequest \cup RawRequest
    BY <1>3, StepKinds DEF Analyse, RetryInsert, At, StoreSteps
  <2>2. CASE Continue(t, "record")
    BY <1>1, <1>3, <2>2, ContinuesSame DEF Analyse, RetryInsert, At
  <2>3. ASSUME NEW p \in {2, 3},
               req' = [req EXCEPT ![t].step = EnsureFirst(req[t].kind),
                                  ![t].pass = p]
        PROVE  FromHome(req'[t], home)
    <3>1. /\ req'[t].kind = req[t].kind
          /\ req'[t].step = EnsureFirst(req[t].kind)
      BY <2>1, <2>3 DEF TypesOfRequests, TelemetryRequest, RawRequest
    <3> QED BY <3>1 DEF FromHome, PastSensor, EnsureFirst, RawRequest
  <2> QED BY <1>3, <2>2, <2>3 DEF Analyse, RetryInsert
<1>4. CASE EnsureVehicle(t) \/ EnsureMission(t) \/ RecordDuplicate(t)
           \/ InsertTelemetry(t) \/ InsertRaw(t) \/ RecordFindings(t)
           \/ CheckHeartbeatMission(t) \/ InsertHeartbeat(t)
  <2>1. \/ Finish(t)
        \/ \E step : /\ Continue(t, step)
                     /\ req[t].step \in {"sensorVehicle", "sensor"}
                          => step \in {"sensorVehicle", "sensor"}
    BY <1>4 DEF EnsureVehicle, EnsureMission, RecordDuplicate, InsertTelemetry,
       InsertRaw, Inserted, RecordFindings, CheckHeartbeatMission, InsertHeartbeat,
       AfterVehicle, At
  <2>2. req[t].step # "idle"
    BY <1>4 DEF EnsureVehicle, EnsureMission, RecordDuplicate, InsertTelemetry,
       InsertRaw, RecordFindings, CheckHeartbeatMission, InsertHeartbeat, At
  <2> QED BY <1>1, <2>1, <2>2, ContinuesSame, FinishedSame
<1>5. CASE Normalise(t)
  <2>1. CASE Finish(t)
    BY <2>1, FinishedSame
  <2>2. CASE ~Finish(t)
    <3>1. req'[t].kind = "telemetry"
      BY <1>5, <2>2 DEF Normalise, TypesOfRequests
    <3> QED BY <3>1 DEF FromHome, PastSensor, RawRequest
  <2> QED BY <2>1, <2>2
<1>6. CASE Ingest(t)
  <2>1. req'[t].kind # "raw" \/ req'[t].step = "sensorVehicle"
    BY <1>6 DEF Ingest, StoreTelemetry, StoreRaw, StoreHeartbeat, Receive,
       TypesOfRequests, EnsureFirst
  <2> QED BY <2>1 DEF FromHome, PastSensor, RawRequest
<1> QED BY <1>2, <1>3, <1>4, <1>5, <1>6 DEF TaskStep

LEMMA MessagesNext ==
    ASSUME NEW home, Inv, SensorsAtHome(home)', MessagesFromHome(home), [Next]_vars
    PROVE  MessagesFromHome(home)'
<1> USE DEF Inv
<1>1. ASSUME NEW t \in Tasks, InsertRaw(t)
      PROVE  \A row \in raw' : row.vehicle = home[row.sensor]
  <2>1. req[t] \in RawRequest /\ req[t].step = "insert"
    BY <1>1, StepKinds DEF TypeOK, InsertRaw, At, StoreSteps, TelemetryRequest
  <2>2. req[t].vehicle = home[req[t].sensor]
    BY <2>1 DEF MessagesFromHome, FromHome, PastSensor
  <2> QED BY <1>1, <2>2 DEF InsertRaw, MessagesFromHome
<1>2. \A row \in raw' : row.vehicle = home[row.sensor]
  BY <1>1, Writers DEF MessagesFromHome
<1>3. ASSUME NEW t \in Tasks, Ingest(t) \/ TaskStep(t)
      PROVE  \A u \in Tasks : FromHome(req'[u], home)
  <2>1. PICK r : Move(t, r)
    BY <1>3, IngestMoves, TaskMoves
  <2>2. \A u \in Tasks : u # t => req'[u] = req[u]
    BY <2>1, MoveExclusive DEF Handlers
  <2> QED BY <1>3, <2>2, StepFromHome DEF MessagesFromHome
<1>4. ASSUME \A u \in Tasks : req'[u] = req[u]
      PROVE  \A u \in Tasks : FromHome(req'[u], home)
  BY <1>4 DEF MessagesFromHome
<1>5. ASSUME NEW h \in Threads, NEW r, Move(h, r)
      PROVE  \A u \in Tasks : req'[u] = req[u]
  BY <1>5, MoveExclusive, ConstantsAssumption DEF Handlers
<1>6. ASSUME Restart
      PROVE  \A u \in Tasks : FromHome(req'[u], home)
  BY <1>6 DEF Restart, FromHome, PastSensor, RawRequest, Handlers, Idle
<1>7. \A u \in Tasks : FromHome(req'[u], home)
  <2>1. CASE \E t \in Tasks : Ingest(t) \/ TaskStep(t)
    BY <1>3, <2>1
  <2>2. CASE \E h \in Threads : ThreadStep(h)
    BY <1>4, <1>5, <2>2, ThreadMoves
  <2>3. CASE Administer
    BY <1>4, <1>5, <2>3, AdministerMoves
  <2>4. CASE Operate
    BY <1>4, <1>6, <2>4, OperateControl
  <2>5. CASE UNCHANGED vars
    BY <1>4, <2>5 DEF vars
  <2> QED BY <2>1, <2>2, <2>3, <2>4, <2>5 DEF Next
<1> QED BY <1>2, <1>7 DEF MessagesFromHome

(* Stored messages come from the vehicle that their sensor is registered   *)
(* to, as ensure_sensor checks before insert_raw_message, under any        *)
(* interleaving of handlers, deletions and restarts, unless a sensor id is *)
(* used again for another vehicle.                                         *)
THEOREM RawSensorsAreOwned ==
    ASSUME NEW home
    PROVE  Spec /\ []SensorsAtHome(home) => []RawSensorOwned
<1>1. Init => MessagesFromHome(home)
  BY DEF Init, MessagesFromHome, FromHome, PastSensor, RawRequest, Handlers, Idle
<1>2. Inv /\ SensorsAtHome(home)' /\ MessagesFromHome(home) /\ [Next]_vars
        => MessagesFromHome(home)'
  BY MessagesNext
<1>3. Inv /\ SensorsAtHome(home) /\ MessagesFromHome(home) => RawSensorOwned
  <2> SUFFICES ASSUME Inv, SensorsAtHome(home), MessagesFromHome(home), NEW row \in raw
               PROVE  sensors[row.sensor] = row.vehicle
    BY DEF RawSensorOwned
  <2>1. row.sensor \in Sensors /\ sensors[row.sensor] # None
    BY DEF Inv, TypeOK, TypesOfTables, RawRow, RawFiled
  <2> QED BY <2>1 DEF SensorsAtHome, MessagesFromHome
<1> QED BY <1>1, <1>2, <1>3, Invariance, PTL DEF Spec
=============================================================================
