------------------------ MODULE SimulationRunsProofs ------------------------
(***************************************************************************)
(* Proofs about SimulationRuns, for any sets of runs and vehicles and any  *)
(* choice of continuous runs.  What a restart of the backend breaks is     *)
(* proved for the operations without it.                                   *)
(***************************************************************************)
EXTENDS SimulationRuns, TLAPS

(* The actions of one run.                                                 *)
Act(r) ==
    \/ \E v \in Vehicles : CheckRequest(r, v)
    \/ Create(r) \/ ReadForStop(r) \/ Stop(r)
    \/ Monitor(r) \/ Simulate(r) \/ Fail(r) \/ Kill(r)
    \/ Recreate(r) \/ OperateMission(r) \/ DeleteMission(r)

LEMMA NextActs ==
    ASSUME [Next]_vars
    PROVE  \/ \E r \in Runs : Act(r)
           \/ "restart" \in Operations /\ Restart
           \/ UNCHANGED vars
BY DEF Next, Act

-----------------------------------------------------------------------------
(* Types.                                                                  *)

LEMMA TransitionType ==
    ASSUME TypeOK, NEW r \in Runs, NEW target \in {"RUNNING"} \cup MissionOver,
           Transition(r, target)
    PROVE  mission' \in [Runs -> {"ABSENT", "PLANNED", "RUNNING"} \cup MissionOver]
BY DEF TypeOK, Transition, MissionOver

LEMMA LoopTypes ==
    ASSUME NEW r \in Runs, NEW step \in CreateSteps \cup StopSteps,
           GoTo(r, step) \/ Return
    PROVE  loop' \in [run: Runs, step: CreateSteps \cup StopSteps] \cup {Free}
BY DEF GoTo, Return

LEMMA ActType ==
    ASSUME TypeOK, NEW r \in Runs, Act(r)
    PROVE  TypeOK'
<1>1. CASE \E v \in Vehicles : CheckRequest(r, v)
  BY <1>1 DEF TypeOK, CheckRequest, process, GoTo, CreateSteps
<1>2. CASE Create(r)
  <2>1. CASE PlanMission(r) \/ MarkStarting(r) \/ RecordRun(r) \/ MarkRunning(r)
    BY <1>2, <2>1 DEF TypeOK, PlanMission, MarkStarting, RecordRun, MarkRunning,
       process, GoTo, Return, CreateSteps, Statuses
  <2>2. CASE Spawn(r)
    <3>1. loop' \in [run: Runs, step: CreateSteps \cup StopSteps] \cup {Free}
      BY <2>2, LoopTypes DEF Spawn, CreateSteps
    <3>2. status' \in [Runs -> Statuses] /\ ended' \in [Runs -> BOOLEAN]
      BY <2>2 DEF TypeOK, Spawn, Statuses, Terminal
    <3>3. phase' \in [Runs -> Phases] /\ held' \subseteq Runs
      BY <2>2 DEF TypeOK, Spawn, Phases
    <3> QED BY <2>2, <3>1, <3>2, <3>3 DEF TypeOK, Spawn
  <2>3. CASE AbortMission(r)
    BY <1>2, <2>3, TransitionType DEF TypeOK, AbortMission, process, Return,
       MissionOver
  <2> QED BY <1>2, <2>1, <2>2, <2>3 DEF Create
<1>3. CASE ReadForStop(r)
  BY <1>3 DEF TypeOK, ReadForStop, rows, process, GoTo, StopSteps
<1>4. CASE Stop(r)
  <2>1. CASE MarkStopping(r) \/ MarkAborted(r)
    <3>1. loop' \in [run: Runs, step: CreateSteps \cup StopSteps] \cup {Free}
      BY <2>1, LoopTypes DEF MarkStopping, MarkAborted, StopSteps
    <3>2. status' \in [Runs -> Statuses] /\ ended' \in [Runs -> BOOLEAN]
      BY <2>1 DEF TypeOK, MarkStopping, MarkAborted, Statuses, Terminal
    <3> QED BY <2>1, <3>1, <3>2 DEF TypeOK, MarkStopping, MarkAborted, process
  <2>2. CASE Signal(r)
    <3>1. UNCHANGED process \/ Terminate(r)
      BY <2>2 DEF Signal
    <3>2. /\ phase' \in [Runs -> Phases] /\ asked' \in [Runs -> BOOLEAN]
          /\ code' \in [Runs -> {None, 0, 1}]
      BY <3>1 DEF Terminate, process, TypeOK, Phases
    <3> QED BY <2>2, <3>2 DEF TypeOK, Signal, rows, GoTo, Return, StopSteps
  <2> QED BY <1>4, <2>1, <2>2 DEF Stop
<1>5. CASE Monitor(r)
  BY <1>5 DEF TypeOK, Monitor, MonitorWait, MonitorRead, MonitorWrite,
     MonitorForget, FinalStatus, rows, process, Statuses, Terminal
<1>6. CASE Simulate(r)
  <2>1. CASE Register(r)
    <3>1. mission' \in [Runs -> {"ABSENT", "PLANNED", "RUNNING"} \cup MissionOver]
      BY <2>1, TransitionType DEF TypeOK, Register
    <3> QED BY <2>1, <3>1 DEF TypeOK, Register, Phases
  <2>2. CASE InstallHandler(r) \/ EndLoop(r) \/ Exit(r)
    BY <2>2 DEF TypeOK, InstallHandler, EndLoop, Exit, rows, Phases
  <2>3. CASE EndMission(r)
    BY <2>3, TransitionType DEF TypeOK, EndMission, Phases, MissionOver
  <2> QED BY <1>6, <2>1, <2>2, <2>3 DEF Simulate
<1>7. CASE Fail(r) \/ Kill(r)
  BY <1>7 DEF TypeOK, Fail, Kill, rows, Phases
<1>8. CASE OperateMission(r)
  BY <1>8, TransitionType DEF TypeOK, OperateMission, process, MissionOver
<1>9. CASE Recreate(r) \/ DeleteMission(r)
  BY <1>9 DEF TypeOK, Recreate, DeleteMission, process
<1> QED BY <1>1, <1>2, <1>3, <1>4, <1>5, <1>6, <1>7, <1>8, <1>9 DEF Act

LEMMA RestartType == TypeOK /\ Restart => TypeOK'
BY DEF TypeOK, Restart, rows, process

LEMMA TypeInit == Init => TypeOK
BY DEF Init, TypeOK, Statuses, Phases

LEMMA TypeNext == TypeOK /\ [Next]_vars => TypeOK'
<1>1. TypeOK /\ UNCHANGED vars => TypeOK'
  BY DEF TypeOK, vars, rows, process
<1> QED BY <1>1, NextActs, ActType, RestartType

(* Rows, processes, threads and the loop keep their types, restarts of     *)
(* the backend included.                                                   *)
THEOREM RunsTypeCorrect == Spec => []TypeOK
BY TypeInit, TypeNext, PTL DEF Spec

-----------------------------------------------------------------------------
(* The inductive invariant, in parts that each speak of one run.           *)

(* The step of the endpoint that works on run r.                           *)
Step(r) == IF loop.run = r THEN loop.step ELSE "free"

(* Until it is launched a run has no process, no monitor and no entry in   *)
(* the process table; the step of its request tells its status.            *)
Unlaunched(r) ==
    phase[r] = "none" /\ monitor[r] = "none" /\ r \notin held

Requested(r) ==
    /\ vehicle[r] = None => status[r] = "ABSENT" /\ Step(r) = "free"
    /\ status[r] \in {"ABSENT", "QUEUED"} => Unlaunched(r) /\ ~ended[r]
    /\ Step(r) \in {"mission", "record", "starting", "spawn", "abort"}
         => Unlaunched(r)
    /\ Step(r) \in {"mission", "record"} => status[r] = "ABSENT"
    /\ Step(r) = "starting" => status[r] = "QUEUED"
    /\ Step(r) = "spawn" => status[r] = "STARTING"
    /\ status[r] = "STARTING" => Step(r) \in {"spawn", "running"}
    /\ Step(r) = "abort" => status[r] \in {"ABSENT", "FAILED"}

(* The process table, the monitor and the process agree.                   *)
Watched(r) ==
    /\ r \in held <=> monitor[r] # "none" \/ Step(r) = "running"
    /\ Step(r) = "running" => status[r] = "STARTING" /\ phase[r] # "none"
                                /\ monitor[r] = "none"
    /\ monitor[r] # "none" => phase[r] # "none"
    /\ monitor[r] \notin {"none", "waiting"} => phase[r] = "exited"
    /\ monitor[r] = "none" /\ phase[r] # "none" /\ Step(r) # "running"
         => phase[r] = "exited"

(* A stop works on a launched run; only the status it read may be stale.   *)
Stopped(r) ==
    /\ Step(r) \in StopSteps => phase[r] # "none"
    /\ Step(r) = "stopping" => status[r] \in {"RUNNING", "STOPPING"} \cup Terminal
    /\ Step(r) \in {"signal", "aborted"} => status[r] \in {"STOPPING"} \cup Terminal
    /\ Step(r) = "aborted" => phase[r] = "exited"

(* When neither endpoint nor monitor has anything left to write, the row   *)
(* is final.                                                               *)
Final(r) ==
    /\ status[r] \in Terminal => ended[r] /\ phase[r] \in {"none", "exited"}
    /\ Step(r) = "free" /\ monitor[r] \in {"none", "forgetting"}
         => status[r] \in {"ABSENT", "QUEUED"} \cup Terminal
    /\ status[r] = "FAILED" /\ phase[r] = "none" /\ Step(r) # "abort"
         => mission[r] \in MissionOver \cup {"ABSENT"}

RunInv(r) == Requested(r) /\ Watched(r) /\ Stopped(r) /\ Final(r)

Inv == TypeOK /\ \A r \in Runs : RunInv(r)

(* Run r is as before, and so is the step of the endpoint on it.           *)
Untouched(r) ==
    /\ status'[r] = status[r] /\ ended'[r] = ended[r] /\ vehicle'[r] = vehicle[r]
    /\ mission'[r] = mission[r] /\ phase'[r] = phase[r]
    /\ asked'[r] = asked[r] /\ code'[r] = code[r]
    /\ monitor'[r] = monitor[r] /\ (r \in held' <=> r \in held)
    /\ Step(r)' = Step(r)

LEMMA Frame ==
    ASSUME NEW r \in Runs, RunInv(r), Untouched(r)
    PROVE  RunInv(r)'
<1>1. Unlaunched(r)' <=> Unlaunched(r)
  BY DEF Untouched, Unlaunched
<1>2. Requested(r)'
  BY <1>1 DEF RunInv, Requested, Untouched
<1>3. Watched(r)'
  BY DEF RunInv, Watched, Untouched
<1>4. Stopped(r)'
  BY DEF RunInv, Stopped, Untouched
<1>5. Final(r)'
  BY DEF RunInv, Final, Untouched
<1> QED BY <1>2, <1>3, <1>4, <1>5 DEF RunInv

(* An action of one run leaves the others alone.                           *)
LEMMA OthersUntouched ==
    ASSUME TypeOK, NEW q \in Runs, Act(q), NEW r \in Runs, r # q
    PROVE  Untouched(r)
<1> USE DEF TypeOK, Untouched, At, GoTo, Return, Free, Step
<1> None # r /\ None # q
  BY RunsAssumption
<1>1. CASE \E v \in Vehicles : CheckRequest(q, v)
  BY <1>1 DEF CheckRequest, process
<1>2. CASE Create(q)
  <2>1. CASE PlanMission(q) \/ MarkStarting(q) \/ RecordRun(q) \/ MarkRunning(q)
    BY <2>1 DEF PlanMission, MarkStarting, RecordRun, MarkRunning, process
  <2>2. CASE Spawn(q)
    BY <2>2 DEF Spawn
  <2>3. CASE AbortMission(q)
    BY <2>3 DEF AbortMission, Transition, process
  <2> QED BY <1>2, <2>1, <2>2, <2>3 DEF Create
<1>3. CASE ReadForStop(q)
  BY <1>3 DEF ReadForStop, rows, process
<1>4. CASE Stop(q)
  BY <1>4 DEF Stop, MarkStopping, MarkAborted, Signal, Terminate, rows, process
<1>5. CASE Monitor(q)
  BY <1>5 DEF Monitor, MonitorWait, MonitorRead, MonitorWrite, MonitorForget,
     rows, process
<1>6. CASE Simulate(q)
  BY <1>6 DEF Simulate, Register, InstallHandler, EndLoop, EndMission, Exit,
     Transition, rows
<1>7. CASE Fail(q) \/ Kill(q)
  BY <1>7 DEF Fail, Kill, rows
<1>8. CASE Recreate(q) \/ OperateMission(q) \/ DeleteMission(q)
  BY <1>8 DEF Recreate, OperateMission, DeleteMission, Transition, process
<1> QED BY <1>1, <1>2, <1>3, <1>4, <1>5, <1>6, <1>7, <1>8 DEF Act

(* What a transition leaves a mission in.                                  *)
LEMMA Transitions ==
    ASSUME TypeOK, NEW r \in Runs, NEW target \in {"RUNNING"} \cup MissionOver,
           Transition(r, target)
    PROVE  /\ mission[r] = "ABSENT" => mission'[r] = "ABSENT"
           /\ mission[r] \in MissionOver => mission'[r] \in MissionOver
           /\ target = "ABORTED" => mission'[r] \in MissionOver \cup {"ABSENT"}
BY DEF TypeOK, Transition, MissionOver

(* One lemma for each part of an action's own run.                         *)
LEMMA RequestKeeps ==
    ASSUME TypeOK, NEW r \in Runs, RunInv(r),
           (\E v \in Vehicles : CheckRequest(r, v)) \/ Create(r)
    PROVE  RunInv(r)'
<1> USE DEF RunInv, Requested, Unlaunched, Watched, Stopped, Final,
        TypeOK, Step, At, GoTo, Return, Free, CreateSteps, StopSteps, Terminal,
        MissionOver
<1> None # r /\ None \notin Vehicles
  BY RunsAssumption
<1>1. CASE \E v \in Vehicles : CheckRequest(r, v)
  BY <1>1 DEF CheckRequest, process
<1>2. CASE PlanMission(r)
  BY <1>2 DEF PlanMission, process
<1>3. CASE RecordRun(r)
  BY <1>3 DEF RecordRun, process
<1>4. CASE MarkStarting(r)
  BY <1>4 DEF MarkStarting, process
<1>5. CASE Spawn(r)
  BY <1>5 DEF Spawn
<1>6. CASE AbortMission(r)
  BY <1>6, Transitions DEF AbortMission, process
<1>7. CASE MarkRunning(r)
  BY <1>7 DEF MarkRunning, process
<1> QED BY <1>1, <1>2, <1>3, <1>4, <1>5, <1>6, <1>7 DEF Create

LEMMA StopKeeps ==
    ASSUME TypeOK, NEW r \in Runs, RunInv(r), ReadForStop(r) \/ Stop(r)
    PROVE  RunInv(r)'
<1> USE DEF RunInv, Requested, Unlaunched, Watched, Stopped, Final,
        TypeOK, Step, At, GoTo, Return, Free, StopSteps, Terminal, MissionOver
<1> None # r
  BY RunsAssumption
<1>1. CASE ReadForStop(r)
  BY <1>1 DEF ReadForStop, rows, process
<1>2. CASE MarkStopping(r)
  BY <1>2 DEF MarkStopping, process
<1>3. CASE Signal(r)
  BY <1>3 DEF Signal, Reaped, Terminate, rows, process
<1>4. CASE MarkAborted(r)
  BY <1>4 DEF MarkAborted, process
<1> QED BY <1>1, <1>2, <1>3, <1>4 DEF Stop

LEMMA MonitorKeeps ==
    ASSUME TypeOK, NEW r \in Runs, RunInv(r), Monitor(r)
    PROVE  RunInv(r)'
<1> USE DEF RunInv, Requested, Unlaunched, Watched, Stopped, Final,
        TypeOK, Step, StopSteps, Terminal
<1>1. CASE MonitorWait(r)
  BY <1>1 DEF MonitorWait, rows, process
<1>2. CASE MonitorRead(r)
  BY <1>2 DEF MonitorRead, FinalStatus, rows, process
<1>3. CASE MonitorWrite(r)
  BY <1>3 DEF MonitorWrite, process
<1>4. CASE MonitorForget(r)
  BY <1>4 DEF MonitorForget, rows, process
<1> QED BY <1>1, <1>2, <1>3, <1>4 DEF Monitor

(* A mission that is moved, deleted or created again stays fit for its run. *)
LEMMA SimulatorKeeps ==
    ASSUME TypeOK, NEW r \in Runs, RunInv(r),
           \/ Simulate(r) \/ Fail(r) \/ Kill(r)
           \/ Recreate(r) \/ OperateMission(r) \/ DeleteMission(r)
    PROVE  RunInv(r)'
<1> USE DEF RunInv, Requested, Unlaunched, Watched, Stopped, Final,
        TypeOK, Step, StopSteps, Terminal, MissionOver
<1>1. CASE Register(r)
  BY <1>1, Transitions DEF Register
<1>2. CASE InstallHandler(r)
  BY <1>2 DEF InstallHandler, rows
<1>3. CASE EndLoop(r)
  BY <1>3 DEF EndLoop, rows
<1>4. CASE EndMission(r)
  BY <1>4, Transitions DEF EndMission
<1>5. CASE Exit(r)
  BY <1>5 DEF Exit, rows
<1>6. CASE Fail(r)
  BY <1>6 DEF Fail, rows
<1>7. CASE Kill(r)
  BY <1>7 DEF Kill, rows
<1>8. CASE OperateMission(r)
  BY <1>8, Transitions DEF OperateMission, process
<1>9. CASE Recreate(r) \/ DeleteMission(r)
  BY <1>9 DEF Recreate, DeleteMission, process
<1> QED BY <1>1, <1>2, <1>3, <1>4, <1>5, <1>6, <1>7, <1>8, <1>9 DEF Simulate

LEMMA InvInit == Init => Inv
<1> SUFFICES ASSUME Init PROVE \A r \in Runs : RunInv(r)
  BY TypeInit DEF Inv
<1> QED BY RunsAssumption DEF Init, RunInv, Requested, Unlaunched, Watched,
        Stopped, Final, Step, Free, StopSteps, Terminal

LEMMA InvNext ==
    ASSUME Inv, [Next]_vars, "restart" \notin Operations
    PROVE  Inv'
<1>1. ASSUME NEW q \in Runs, Act(q), NEW r \in Runs
      PROVE  RunInv(r)'
  <2>1. CASE r # q
    BY <1>1, <2>1, OthersUntouched, Frame DEF Inv
  <2>2. CASE r = q
    BY <1>1, <2>2, RequestKeeps, StopKeeps, MonitorKeeps, SimulatorKeeps
       DEF Inv, Act
  <2> QED BY <2>1, <2>2
<1>2. ASSUME UNCHANGED vars, NEW r \in Runs
      PROVE  RunInv(r)'
  <2>1. Untouched(r)
    BY <1>2 DEF Untouched, vars, rows, process, Step
  <2> QED BY <2>1, Frame DEF Inv
<1> QED BY <1>1, <1>2, NextActs, TypeNext DEF Inv

LEMMA Invariance ==
    ASSUME "restart" \notin Operations
    PROVE  Spec => []Inv
<1>1. Inv /\ [Next]_vars => Inv'
  BY InvNext
<1> QED BY <1>1, InvInit, PTL DEF Spec

(* While the backend stays up, a row that says the run is over is right:   *)
(* no order of stop, monitor and simulator ends a run that goes on.        *)
THEOREM TerminalRunsAreGone ==
    ASSUME "restart" \notin Operations
    PROVE  Spec => []TerminalIsGone
<1>1. Inv => TerminalIsGone
  BY DEF Inv, RunInv, Final, TerminalIsGone
<1> QED BY <1>1, Invariance, PTL

(* Once endpoint and monitor are done with a run its row is final and the  *)
(* process table has forgotten it.                                         *)
THEOREM DoneRunsAreSettled ==
    ASSUME "restart" \notin Operations
    PROVE  Spec => []SettledRuns
<1>1. Inv => SettledRuns
  <2> SUFFICES ASSUME Inv, NEW r \in Runs, loop.run # r, monitor[r] = "none"
               PROVE  Settled(r)
    BY DEF SettledRuns
  <2>1. RunInv(r) /\ Step(r) = "free"
    BY DEF Inv, Step
  <2> QED BY <2>1 DEF RunInv, Requested, Watched, Final, Settled, Terminal
<1> QED BY <1>1, Invariance, PTL

-----------------------------------------------------------------------------
(* What remains true when the backend restarts under its simulators.       *)

JudgedInv(r) ==
    /\ vehicle[r] = None => status[r] = "ABSENT" /\ phase[r] = "none"
                              /\ Step(r) = "free"
    /\ Step(r) \in {"mission", "record", "starting", "spawn", "abort"}
         => phase[r] = "none"
    /\ Step(r) = "spawn" => status[r] = "STARTING"
    /\ Step(r) = "running" => phase[r] # "none"
    /\ monitor[r] # "none" => phase[r] # "none"
    /\ monitor[r] \notin {"none", "waiting"} => phase[r] = "exited"
    /\ status[r] \in {"COMPLETED", "FAILED"} => phase[r] \in {"none", "exited"}
    /\ code[r] = 0 => phase[r] = "exited" /\ ~asked[r]
    /\ "COMPLETED" \in {status[r], monitor[r]} => code[r] = 0

LEMMA JudgedActs ==
    ASSUME TypeOK, NEW r \in Runs, JudgedInv(r), Act(r)
    PROVE  JudgedInv(r)'
<1> USE DEF JudgedInv, TypeOK, Step, At, GoTo, Return, Free, Terminal
<1> None # r /\ None \notin Vehicles
  BY RunsAssumption
<1>1. CASE \E v \in Vehicles : CheckRequest(r, v)
  BY <1>1 DEF CheckRequest, process
<1>2. CASE Create(r)
  BY <1>2 DEF Create, PlanMission, RecordRun, MarkStarting, Spawn, AbortMission,
     MarkRunning, process
<1>3. CASE ReadForStop(r) \/ Stop(r)
  BY <1>3 DEF ReadForStop, Stop, MarkStopping, Signal, Terminate, MarkAborted,
     rows, process
<1>4. CASE Monitor(r)
  BY <1>4 DEF Monitor, MonitorWait, MonitorRead, FinalStatus, MonitorWrite,
     MonitorForget, rows, process
<1>5. CASE Simulate(r) \/ Fail(r) \/ Kill(r)
  BY <1>5 DEF Simulate, Register, InstallHandler, EndLoop, EndMission, Exit,
     Fail, Kill, rows
<1>6. CASE Recreate(r) \/ OperateMission(r) \/ DeleteMission(r)
  BY <1>6 DEF Recreate, OperateMission, DeleteMission, process
<1> QED BY <1>1, <1>2, <1>3, <1>4, <1>5, <1>6 DEF Act

LEMMA JudgedRestart ==
    ASSUME NEW r \in Runs, JudgedInv(r), Restart
    PROVE  JudgedInv(r)'
<1> None # r
  BY RunsAssumption
<1> QED BY DEF JudgedInv, Restart, Step, Free, rows, process

LEMMA JudgedNext ==
    ASSUME TypeOK, \A r \in Runs : JudgedInv(r), [Next]_vars
    PROVE  \A r \in Runs : JudgedInv(r)'
<1>1. ASSUME NEW r \in Runs, Untouched(r)
      PROVE  JudgedInv(r)'
  BY <1>1 DEF JudgedInv, Untouched
<1>2. ASSUME NEW q \in Runs, Act(q), NEW r \in Runs
      PROVE  JudgedInv(r)'
  <2>1. CASE r # q
    BY <1>1, <1>2, <2>1, OthersUntouched
  <2>2. CASE r = q
    BY <1>2, <2>2, JudgedActs
  <2> QED BY <2>1, <2>2
<1>3. UNCHANGED vars => \A r \in Runs : Untouched(r)
  BY DEF Untouched, vars, rows, process, Step
<1> QED BY <1>1, <1>2, <1>3, JudgedRestart, NextActs

LEMMA JudgedInvariance == Spec => [](\A r \in Runs : JudgedInv(r))
<1> DEFINE J == \A r \in Runs : JudgedInv(r)
<1>1. Init => J
  BY RunsAssumption DEF Init, JudgedInv, Step, Free
<1>2. TypeOK /\ J /\ [Next]_vars => J'
  BY JudgedNext
<1> HIDE DEF J
<1>3. Spec => []J
  BY <1>1, <1>2, RunsTypeCorrect, PTL DEF Spec
<1> QED BY <1>3 DEF J

(* What a monitor found is true of its simulator across restarts.          *)
THEOREM JudgedRunsAreGone == Spec => []JudgedIsGone
<1>1. (\A r \in Runs : JudgedInv(r)) => JudgedIsGone
  BY DEF JudgedInv, JudgedIsGone
<1> QED BY <1>1, JudgedInvariance, PTL

(* A run whose simulator took the signal of a stop, or failed, is never    *)
(* COMPLETED: not by a monitor that read the row before or after any       *)
(* number of stops, and not after a restart of the backend.                *)
THEOREM AskedRunsAreNotCompleted == Spec => []AskedIsNotCompleted
<1>1. (\A r \in Runs : JudgedInv(r)) => AskedIsNotCompleted
  BY DEF JudgedInv, AskedIsNotCompleted
<1> QED BY <1>1, JudgedInvariance, PTL
=============================================================================
