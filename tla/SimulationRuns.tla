---------------------------- MODULE SimulationRuns ----------------------------
(***************************************************************************)
(* Simulation runs: the manager of simulation_runs.py under the endpoints  *)
(* of main.py, its monitor threads, and the simulator processes of         *)
(* simulator/multi_sensor_simulator.py with the missions they work on.     *)
(*                                                                         *)
(* The endpoints create and stop runs without an await, so one of them at  *)
(* a time holds the event loop; variable "loop" says which transaction it  *)
(* takes next.  Monitor threads and simulators run beside it.  Each run    *)
(* has a mission of its own, which the endpoint checks is new.             *)
(***************************************************************************)
EXTENDS Naturals, FiniteSets

CONSTANTS
    Runs,       \* run ids, one mission each
    Vehicles,
    Continuous, \* the runs requested with duration 0, which end when stopped
    Operations, \* what else happens: operators, deletions of missions, kills,
                \* restarts of the backend
    None

ASSUME RunsAssumption ==
    /\ None \notin Runs \cup Vehicles \cup {0, 1}
    /\ Continuous \subseteq Runs
    /\ Operations \subseteq {"operator", "delete", "kill", "restart"}

VARIABLES
    status,  \* status[r]  = column status of the run's row, "ABSENT" if no row
    ended,   \* ended[r]   = its ended_at_utc is set
    vehicle, \* vehicle[r] = the vehicle of run and mission, None if no request
    mission, \* mission[r] = status of the run's mission, "ABSENT" if no row
    phase,   \* phase[r]   = where the simulator process of the run is
    asked,   \* asked[r]   = its flag stop_requested
    code,    \* code[r]    = its exit code, 1 for every failure or signal
    held,    \* the runs in _processes
    monitor, \* monitor[r] = what the monitor thread of the run does next
    loop     \* the endpoint between two transactions, or Free

rows == <<status, ended, vehicle, mission>>
process == <<phase, asked, code>>
vars == <<rows, process, held, monitor, loop>>

Terminal == {"COMPLETED", "FAILED", "ABORTED"}
Statuses == {"ABSENT", "QUEUED", "STARTING", "RUNNING", "STOPPING"} \cup Terminal
MissionOver == {"COMPLETED", "ABORTED"}
Phases == {"none", "registering", "started", "running", "completing",
           "aborting", "leaving", "exited"}

Free == [run |-> None, step |-> "free"]
CreateSteps == {"mission", "record", "starting", "spawn", "abort", "running"}
StopSteps == {"stopping", "signal", "aborted"}

At(r, step) == loop = [run |-> r, step |-> step]
GoTo(r, step) == loop' = [run |-> r, step |-> step]
Return == loop' = Free

Transition(r, target) ==
    mission' = [mission EXCEPT ![r] =
        IF \/ @ = "PLANNED" /\ target \in {"RUNNING", "ABORTED"}
           \/ @ = "RUNNING" /\ target \in MissionOver
          THEN target ELSE @]

-----------------------------------------------------------------------------
(* create_simulation_run and SimulationRunManager.create and _launch.      *)

CheckRequest(r, v) ==
    /\ loop = Free /\ vehicle[r] = None
    /\ \A q \in Runs : vehicle[q] = v => mission[q] # "RUNNING"
    /\ vehicle' = [vehicle EXCEPT ![r] = v]
    /\ GoTo(r, "mission")
    /\ UNCHANGED <<status, ended, mission, process, held, monitor>>

PlanMission(r) ==
    /\ At(r, "mission")
    /\ mission' = [mission EXCEPT ![r] = "PLANNED"]
    /\ GoTo(r, "record")
    /\ UNCHANGED <<status, ended, vehicle, process, held, monitor>>

(* The snapshot of the scenario is built and written first: its failure    *)
(* ends the request with the mission left PLANNED, a failure to record the *)
(* run aborts the mission.  A run may be recorded without being launched.  *)
RecordRun(r) ==
    /\ At(r, "record")
    /\ \/ Return /\ UNCHANGED status
       \/ GoTo(r, "abort") /\ UNCHANGED status
       \/ /\ status' = [status EXCEPT ![r] = "QUEUED"]
          /\ Return \/ GoTo(r, "starting")
    /\ UNCHANGED <<ended, vehicle, mission, process, held, monitor>>

MarkStarting(r) ==
    /\ At(r, "starting")
    /\ status' = [status EXCEPT ![r] = "STARTING"]
    /\ GoTo(r, "spawn")
    /\ UNCHANGED <<ended, vehicle, mission, process, held, monitor>>

Spawn(r) ==
    /\ At(r, "spawn")
    /\ \/ /\ phase' = [phase EXCEPT ![r] = "registering"]
          /\ held' = held \cup {r}
          /\ GoTo(r, "running")
          /\ UNCHANGED <<status, ended>>
       \/ /\ status' = [status EXCEPT ![r] = "FAILED"]
          /\ ended' = [ended EXCEPT ![r] = TRUE]
          /\ GoTo(r, "abort")
          /\ UNCHANGED <<phase, held>>
    /\ UNCHANGED <<vehicle, mission, asked, code, monitor>>

AbortMission(r) ==
    /\ At(r, "abort")
    /\ Transition(r, "ABORTED")
    /\ Return
    /\ UNCHANGED <<status, ended, vehicle, process, held, monitor>>

MarkRunning(r) ==
    /\ At(r, "running")
    /\ status' = [status EXCEPT ![r] = "RUNNING"]
    /\ monitor' = [monitor EXCEPT ![r] = "waiting"]
    /\ Return
    /\ UNCHANGED <<ended, vehicle, mission, process, held>>

-----------------------------------------------------------------------------
(* SimulationRunManager.stop, for the endpoint and for shutdown.           *)

ReadForStop(r) ==
    /\ loop = Free /\ status[r] \in {"STARTING", "RUNNING", "STOPPING"}
    /\ GoTo(r, "stopping")
    /\ UNCHANGED <<rows, process, held, monitor>>

MarkStopping(r) ==
    /\ At(r, "stopping")
    /\ status' = [status EXCEPT ![r] = "STOPPING"]
    /\ GoTo(r, "signal")
    /\ UNCHANGED <<ended, vehicle, mission, process, held, monitor>>

(* poll() sees the exit only once wait() of the monitor has returned it.   *)
Reaped(r) == monitor[r] # "waiting"

(* The simulator installs its handler of SIGTERM after its registration;   *)
(* before that the signal kills it.                                        *)
Terminate(r) ==
    CASE phase[r] \in {"registering", "started"} ->
           /\ phase' = [phase EXCEPT ![r] = "exited"]
           /\ code' = [code EXCEPT ![r] = 1]
           /\ UNCHANGED asked
      [] phase[r] = "exited" -> UNCHANGED process
      [] OTHER ->
           asked' = [asked EXCEPT ![r] = TRUE] /\ UNCHANGED <<phase, code>>

(* Mutants: the run is ABORTED as soon as it is signalled; the exit of a   *)
(* process that is still in the table is left to its monitor.              *)
SignalAndAbort(r) ==
    /\ At(r, "signal")
    /\ Terminate(r) /\ GoTo(r, "aborted")
    /\ UNCHANGED <<rows, held, monitor>>
SignalUnpolled(r) ==
    /\ At(r, "signal")
    /\ IF r \notin held
         THEN GoTo(r, "aborted") /\ UNCHANGED process
         ELSE Terminate(r) /\ Return
    /\ UNCHANGED <<rows, held, monitor>>

Signal(r) ==
    /\ At(r, "signal")
    /\ IF r \notin held \/ Reaped(r)
         THEN GoTo(r, "aborted") /\ UNCHANGED process
         ELSE Terminate(r) /\ Return
    /\ UNCHANGED <<rows, held, monitor>>

MarkAborted(r) ==
    /\ At(r, "aborted")
    /\ status' = [status EXCEPT ![r] = "ABORTED"]
    /\ ended' = [ended EXCEPT ![r] = TRUE]
    /\ Return
    /\ UNCHANGED <<vehicle, mission, process, held, monitor>>

-----------------------------------------------------------------------------
(* _monitor: wait, read the status, write the final one, forget.           *)

MonitorWait(r) ==
    /\ monitor[r] = "waiting" /\ phase[r] = "exited"
    /\ monitor' = [monitor EXCEPT ![r] = "reading"]
    /\ UNCHANGED <<rows, process, held, loop>>

FinalStatus(r) ==
    IF status[r] = "STOPPING" THEN "ABORTED"
    ELSE IF code[r] = 0 THEN "COMPLETED" ELSE "FAILED"

MonitorRead(r) ==
    /\ monitor[r] = "reading"
    /\ monitor' = [monitor EXCEPT ![r] = FinalStatus(r)]
    /\ UNCHANGED <<rows, process, held, loop>>

(* Mutant: a run that is being stopped is left to the stop.                *)
MonitorWriteUnlessAborted(r) ==
    /\ monitor[r] \in Terminal
    /\ IF monitor[r] = "ABORTED" THEN UNCHANGED <<status, ended>>
         ELSE /\ status' = [status EXCEPT ![r] = monitor[r]]
              /\ ended' = [ended EXCEPT ![r] = TRUE]
    /\ monitor' = [monitor EXCEPT ![r] = "forgetting"]
    /\ UNCHANGED <<vehicle, mission, process, held, loop>>

MonitorWrite(r) ==
    /\ monitor[r] \in Terminal
    /\ status' = [status EXCEPT ![r] = monitor[r]]
    /\ ended' = [ended EXCEPT ![r] = TRUE]
    /\ monitor' = [monitor EXCEPT ![r] = "forgetting"]
    /\ UNCHANGED <<vehicle, mission, process, held, loop>>

MonitorForget(r) ==
    /\ monitor[r] = "forgetting"
    /\ held' = held \ {r}
    /\ monitor' = [monitor EXCEPT ![r] = "none"]
    /\ UNCHANGED <<rows, process, loop>>

-----------------------------------------------------------------------------
(* The simulator process.                                                  *)

(* register_platform creates the mission, which may have been deleted, and *)
(* starts it; a 409 is as good as success.                                 *)
Register(r) ==
    /\ phase[r] = "registering"
    /\ IF mission[r] = "ABSENT"
         THEN mission' = [mission EXCEPT ![r] = "RUNNING"]
         ELSE Transition(r, "RUNNING")
    /\ phase' = [phase EXCEPT ![r] = "started"]
    /\ UNCHANGED <<status, ended, vehicle, asked, code, held, monitor, loop>>

InstallHandler(r) ==
    /\ phase[r] = "started"
    /\ phase' = [phase EXCEPT ![r] = "running"]
    /\ UNCHANGED <<rows, asked, code, held, monitor, loop>>

(* The loop and the drain end; the flag decides what becomes of the        *)
(* mission.                                                                *)
EndLoop(r) ==
    /\ phase[r] = "running"
    /\ asked[r] \/ r \notin Continuous
    /\ phase' = [phase EXCEPT ![r] =
                   IF asked[r] THEN "aborting" ELSE "completing"]
    /\ UNCHANGED <<rows, asked, code, held, monitor, loop>>

(* transition_mission_with_retry gives up after four failed attempts, or   *)
(* at once on a 404, and the simulator leaves as if it had not.            *)
EndMission(r) ==
    /\ phase[r] \in {"completing", "aborting"}
    /\ \/ Transition(r, IF phase[r] = "aborting" THEN "ABORTED" ELSE "COMPLETED")
       \/ UNCHANGED mission
    /\ phase' = [phase EXCEPT ![r] = "leaving"]
    /\ UNCHANGED <<status, ended, vehicle, asked, code, held, monitor, loop>>

(* Mutant: the exit code tells what became of the mission.                 *)
ExitByMission(r) ==
    /\ phase[r] = "leaving"
    /\ phase' = [phase EXCEPT ![r] = "exited"]
    /\ code' = [code EXCEPT ![r] = IF mission[r] = "COMPLETED" THEN 0 ELSE 1]
    /\ UNCHANGED <<rows, asked, held, monitor, loop>>

(* "exited" begins when main has returned: a signal that comes later finds *)
(* the exit code decided.                                                  *)
Exit(r) ==
    /\ phase[r] = "leaving"
    /\ phase' = [phase EXCEPT ![r] = "exited"]
    /\ code' = [code EXCEPT ![r] = IF asked[r] THEN 1 ELSE 0]
    /\ UNCHANGED <<rows, asked, held, monitor, loop>>

(* An error ends a simulator that registers, and stops one that runs.      *)
Fail(r) ==
    /\ \/ /\ phase[r] \in {"registering", "started"}
          /\ phase' = [phase EXCEPT ![r] = "exited"]
          /\ code' = [code EXCEPT ![r] = 1]
          /\ UNCHANGED asked
       \/ /\ phase[r] = "running"
          /\ asked' = [asked EXCEPT ![r] = TRUE]
          /\ UNCHANGED <<phase, code>>
    /\ UNCHANGED <<rows, held, monitor, loop>>

Kill(r) ==
    /\ phase[r] \notin {"none", "exited"}
    /\ phase' = [phase EXCEPT ![r] = "exited"]
    /\ code' = [code EXCEPT ![r] = 1]
    /\ UNCHANGED <<rows, asked, held, monitor, loop>>

-----------------------------------------------------------------------------
(* ensure_mission, for a message of the simulator whose mission is gone.   *)
Recreate(r) ==
    /\ phase[r] \in {"running", "completing", "aborting", "leaving"}
    /\ mission[r] = "ABSENT"
    /\ mission' = [mission EXCEPT ![r] = "RUNNING"]
    /\ UNCHANGED <<status, ended, vehicle, process, held, monitor, loop>>

(* delete_mission, a handler of the loop; the run's row stays.             *)
DeleteMission(r) ==
    /\ loop = Free /\ mission[r] # "ABSENT"
    /\ mission' = [mission EXCEPT ![r] = "ABSENT"]
    /\ UNCHANGED <<status, ended, vehicle, process, held, monitor, loop>>

(* An operator starts or ends the mission over the API.                    *)
OperateMission(r) ==
    /\ \E target \in MissionOver \cup {"RUNNING"} : Transition(r, target)
    /\ UNCHANGED <<status, ended, vehicle, process, held, monitor, loop>>

(* Mutant: a restart takes the runs it finds active for dead.              *)
RestartFailing ==
    /\ loop' = Free /\ held' = {} /\ monitor' = [r \in Runs |-> "none"]
    /\ status' = [r \in Runs |->
         IF status[r] \in {"STARTING", "RUNNING", "STOPPING"}
           THEN "FAILED" ELSE status[r]]
    /\ UNCHANGED <<ended, vehicle, mission, process>>

(* The backend's handlers, threads and process table are gone; simulators, *)
(* in sessions of their own, go on.                                        *)
Restart ==
    /\ loop' = Free /\ held' = {} /\ monitor' = [r \in Runs |-> "none"]
    /\ UNCHANGED <<rows, process>>

-----------------------------------------------------------------------------
Init ==
    /\ status = [r \in Runs |-> "ABSENT"] /\ ended = [r \in Runs |-> FALSE]
    /\ vehicle = [r \in Runs |-> None] /\ mission = [r \in Runs |-> "ABSENT"]
    /\ phase = [r \in Runs |-> "none"] /\ asked = [r \in Runs |-> FALSE]
    /\ code = [r \in Runs |-> None]
    /\ held = {} /\ monitor = [r \in Runs |-> "none"] /\ loop = Free

Create(r) ==
    \/ PlanMission(r) \/ RecordRun(r) \/ MarkStarting(r) \/ Spawn(r)
    \/ AbortMission(r) \/ MarkRunning(r)
Stop(r) == MarkStopping(r) \/ Signal(r) \/ MarkAborted(r)
Monitor(r) ==
    MonitorWait(r) \/ MonitorRead(r) \/ MonitorWrite(r) \/ MonitorForget(r)
Simulate(r) ==
    Register(r) \/ InstallHandler(r) \/ EndLoop(r) \/ EndMission(r) \/ Exit(r)

Next ==
    \/ \E r \in Runs :
         \/ \E v \in Vehicles : CheckRequest(r, v)
         \/ Create(r) \/ ReadForStop(r) \/ Stop(r)
         \/ Monitor(r) \/ Simulate(r) \/ Fail(r) \/ Recreate(r)
         \/ "operator" \in Operations /\ OperateMission(r)
         \/ "delete" \in Operations /\ DeleteMission(r)
         \/ "kill" \in Operations /\ Kill(r)
    \/ "restart" \in Operations /\ Restart

Spec == Init /\ [][Next]_vars

(* An endpoint that holds the loop goes on; the operating system runs the  *)
(* monitor threads and the simulators.                                     *)
Fairness ==
    \A r \in Runs : WF_vars(Create(r) \/ Stop(r)) /\ WF_vars(Monitor(r))
                      /\ WF_vars(Simulate(r))
FairSpec == Spec /\ Fairness

-----------------------------------------------------------------------------
(* Rows, processes and threads keep their types, and only an endpoint of   *)
(* the loop has a next step.                                               *)
TypeOK ==
    /\ status \in [Runs -> Statuses] /\ ended \in [Runs -> BOOLEAN]
    /\ vehicle \in [Runs -> Vehicles \cup {None}]
    /\ mission \in [Runs -> {"ABSENT", "PLANNED", "RUNNING"} \cup MissionOver]
    /\ phase \in [Runs -> Phases] /\ asked \in [Runs -> BOOLEAN]
    /\ code \in [Runs -> {None, 0, 1}]
    /\ held \subseteq Runs
    /\ monitor \in [Runs -> {"none", "waiting", "reading", "forgetting"} \cup Terminal]
    /\ loop \in [run: Runs, step: CreateSteps \cup StopSteps] \cup {Free}

(* A row that says the run is over tells the truth: its simulator has      *)
(* exited, whatever stop and monitor did in whatever order.                *)
TerminalIsGone ==
    \A r \in Runs : status[r] \in Terminal => phase[r] \in {"none", "exited"}

(* What the monitor found out is true across restarts of the backend, too; *)
(* only an ABORTED that stop wrote on its own then need not be.            *)
JudgedIsGone ==
    \A r \in Runs :
        status[r] \in {"COMPLETED", "FAILED"} => phase[r] \in {"none", "exited"}

(* Once endpoint and monitor are done with a run, its row is final and     *)
(* timed and the process table has forgotten it; and a run whose launch    *)
(* failed left no mission behind that could still be started.              *)
Settled(r) ==
    /\ status[r] \in {"ABSENT", "QUEUED"} \cup Terminal
    /\ ended[r] <=> status[r] \in Terminal
    /\ r \notin held
    /\ status[r] = "FAILED" /\ phase[r] = "none"
         => mission[r] \in MissionOver \cup {"ABSENT"}

SettledRuns ==
    \A r \in Runs : loop.run # r /\ monitor[r] = "none" => Settled(r)

(* A run whose simulator took the signal of a stop, or failed, never       *)
(* becomes COMPLETED, although it may be asked while it already completes  *)
(* its mission, and although a monitor that finds the row ABORTED by a     *)
(* second stop judges by the exit code alone.                              *)
AskedIsNotCompleted ==
    \A r \in Runs : asked[r] => status[r] # "COMPLETED"

(* A launched run ends, unless it is continuous, and a stopped one ends.   *)
RunsEnd ==
    \A r \in Runs :
        /\ status[r] \in {"STARTING", "RUNNING"} /\ r \notin Continuous
             ~> status[r] \in Terminal
        /\ status[r] = "STOPPING" ~> status[r] \in Terminal

-----------------------------------------------------------------------------
(* What docs and checks say and the code does not keep: see README.        *)

(* COMPLETED, FAILED and ABORTED are the ends of a run's lifecycle.  It    *)
(* fails: stop and monitor each write what they read the row to imply.     *)
TerminalRunStays ==
    [][\A r \in Runs : status[r] \in Terminal => status'[r] = status[r]]_vars

(* A run that was stopped leaves no running mission behind.  It fails: a   *)
(* simulator terminated between its registration and the installation of   *)
(* its signal handler dies without ending the mission.                     *)
AbortedRunEndsMission ==
    \A r \in Runs : status[r] = "ABORTED" => mission[r] # "RUNNING"

(* A COMPLETED run has brought its mission to an end.  It fails: the       *)
(* simulator exits with 0 although it gave up on ending the mission.       *)
MissionFollows ==
    \A r \in Runs : status[r] = "COMPLETED" => mission[r] \in MissionOver

(* A vehicle that has a running mission gets no second one from a run.  It *)
(* fails: the endpoint looks for RUNNING missions, and the mission of a    *)
(* run is PLANNED until its simulator has registered.                      *)
OneRunningMission ==
    \A q, r \in Runs :
        vehicle[q] = vehicle[r] /\ mission[q] = "RUNNING" /\ mission[r] = "RUNNING"
          => q = r
=============================================================================
