---------------------------- MODULE SafetyAnalytics ----------------------------
(***************************************************************************)
(* What _store_telemetry of main.py does with a stored frame of one        *)
(* mission: the obstacle interaction analysis, then the constraint         *)
(* violations and near misses of safety_analytics.py.                      *)
(*                                                                         *)
(* Either analysis runs on the event loop without an await, in several     *)
(* transactions: a step here is one transaction, and the handler holds the *)
(* loop until its next await.  There other frames of the mission, and its  *)
(* deletion, may come in between.                                          *)
(***************************************************************************)
EXTENDS ObstacleInteraction, FiniteSets

CONSTANTS
    Constraints, \* the constraints of the snapshot
    Tasks,       \* handlers of frames alive at once
    Assessments, \* outcomes of the geometry
    MaxFrames,   \* bound on the frames
    Operations   \* what else happens: deletions, captures, crashes, failures

ASSUME SafetyAssumption ==
    /\ Assessments \subseteq Assessment
    /\ MaxFrames \in Nat
    /\ Operations \subseteq {"delete", "crash", "fail"}
    /\ None \notin Tasks \cup Assessment \cup {"COLLISION_RISK", "OBSTACLE_AVOIDANCE"}
    /\ None \notin [frame : Nat, risk : RiskLevels, avoiding : BOOLEAN]

VARIABLES
    mission,    \* whether the mission's row exists
    snapshot,   \* whether the mission has an environment snapshot
    frames,     \* frames stored so far; they are numbered in that order
    tasks,      \* tasks[t] = the frame handler t works on, and where it is
    loop,       \* the handler that holds the event loop, or None
    violations, \* rows of constraint_violations
    misses,     \* rows of near_miss_events: <<frame, obstacle, classification>>
    judged      \* history: the constraints the last complete analysis found
                \* violated, or None if one has been cut short since

safetyTables == <<violations, misses, judged>>
vars == <<mission, snapshot, frames, tasks, loop, obstacleTables, safetyTables>>

-----------------------------------------------------------------------------
(* A task's frame and step, and what its analyses have found: the closest  *)
(* obstacle with its assessment, the event to announce, the constraints to *)
(* write and those written.                                                *)
Idle == [frame |-> 0, step |-> "idle", obstacle |-> None, ground |-> None,
         avoiding |-> FALSE, news |-> None, violated |-> {}, todo |-> {}]
At(t, step) == tasks[t].step = step
Put(t, task) == tasks' = [tasks EXCEPT ![t] = task]
Goto(t, step) == Put(t, [tasks[t] EXCEPT !.step = step])

(* A handler that waits may run when the loop is free.                     *)
Enters(t) == loop = None /\ loop' = t
Holds(t) == loop = t /\ UNCHANGED loop
Leaves(t) == loop = t /\ loop' = None

(* A frame is stored; its mission is created again if it was deleted.      *)
Store(t) ==
    /\ loop = None /\ At(t, "idle") /\ frames < MaxFrames
    /\ frames' = frames + 1
    /\ Put(t, [Idle EXCEPT !.frame = frames + 1, !.step = "stored"])
    /\ mission' = TRUE
    /\ UNCHANGED <<snapshot, loop, obstacleTables, safetyTables>>

(* Without a snapshot, or obstacles in it, nothing is analysed.            *)
NoInteraction(t) ==
    /\ Enters(t) /\ At(t, "stored") /\ (~snapshot \/ Obstacles = {})
    /\ Goto(t, "analysed")
    /\ UNCHANGED <<mission, snapshot, frames, obstacleTables, safetyTables>>

PersistInteraction(t) ==
    /\ Enters(t) /\ At(t, "stored") /\ snapshot
    /\ \E o \in Obstacles, g \in Assessments, avoiding \in BOOLEAN :
         /\ Persist(tasks[t].frame, o, classify_risk(g))
         /\ Put(t, [tasks[t] EXCEPT !.obstacle = o, !.ground = g,
                                    !.avoiding = avoiding, !.step = "persisted"])
    /\ UNCHANGED <<mission, snapshot, frames, safetyTables>>

UpdateInteractionState(t) ==
    LET task == tasks[t] risk == classify_risk(task.ground)
        news == News(task.obstacle, risk, task.avoiding) IN
    /\ At(t, "persisted")
    /\ UpdateState(task.frame, task.obstacle, risk, task.avoiding)
    /\ Put(t, [task EXCEPT !.news = news, !.avoiding = FALSE,
                           !.step = IF news = None THEN "analysed" ELSE "entered"])
    /\ IF news = None THEN Leaves(t) ELSE Holds(t)
    /\ UNCHANGED <<mission, snapshot, frames, safetyTables>>

(* The event is written, or its insert fails and that is passed over; the  *)
(* broadcast of the interaction is an await.                               *)
AnnounceRisk(t) ==
    LET task == tasks[t] IN
    /\ At(t, "entered") /\ Leaves(t)
    /\ \/ CreateEvent(task.frame, task.obstacle, task.news)
       \/ "fail" \in Operations /\ LoseEvent
    /\ Put(t, [task EXCEPT !.news = None, !.step = "analysed"])
    /\ UNCHANGED <<mission, snapshot, frames, safetyTables>>

-----------------------------------------------------------------------------
Row(c, f) ==
    [constraint |-> c, active |-> TRUE, status |-> "OPEN", first |-> f, last |-> f]
Active(c) == {v \in violations : v.active /\ v.constraint = c}

(* _upsert_violation.                                                      *)
Sampled(c, f) ==
    IF Active(c) = {} THEN violations \cup {Row(c, f)}
    ELSE {IF v \in Active(c)
            THEN [v EXCEPT !.status = "ONGOING", !.last = f]
            ELSE v : v \in violations}

(* Mutants of Resolved: the active key is kept; a violation stays active   *)
(* until its second sample.                                                *)
ResolvedKeyed(violated, f) ==
    {IF v.active /\ v.constraint \notin violated
       THEN [v EXCEPT !.status = "RESOLVED", !.last = f] ELSE v : v \in violations}
ResolvedOngoing(violated, f) ==
    {IF v.status = "ONGOING" /\ v.constraint \notin violated
       THEN [v EXCEPT !.active = FALSE, !.status = "RESOLVED", !.last = f]
       ELSE v : v \in violations}
(* _resolve_inactive.                                                      *)
Resolved(violated, f) ==
    {IF v.active /\ v.constraint \notin violated
       THEN [v EXCEPT !.active = FALSE, !.status = "RESOLVED", !.last = f]
       ELSE v : v \in violations}

(* Mutant of classification: a near miss whose collision is soon enough is *)
(* critical at any distance.                                               *)
classificationBySpeed(g) ==
    LET envelope == 3 * Larger(Metre, Rounded(SafetyRadius)) IN
    IF g.clearance <= 0 THEN "COLLISION"
    ELSE IF g.ttc # None /\ g.ttc < 10 * Second THEN "CRITICAL_NEAR_MISS"
    ELSE IF 2 * g.clearance < envelope THEN "NEAR_MISS"
    ELSE "SAFE"

(* It is given what the record of the interaction says, safety_radius_m    *)
(* included.                                                               *)
classification(g) ==
    LET envelope == 3 * Larger(Metre, Rounded(SafetyRadius))
        soon(t) == g.ttc # None /\ g.ttc < t IN
    IF g.clearance <= 0 THEN "COLLISION"
    ELSE IF 4 * g.clearance < envelope /\ (g.ttc = None \/ soon(2 * Second))
      THEN "CRITICAL_NEAR_MISS"
    ELSE IF 2 * g.clearance < envelope \/ soon(4 * Second) THEN "NEAR_MISS"
    ELSE "SAFE"

NearMiss(task) == classification(Recorded(task.ground))
IsMiss(task) == task.ground # None /\ NearMiss(task) # "SAFE"

(* The handler has resumed after its broadcast, or never gave up the loop. *)
Resumes(t) == loop \in {None, t} /\ At(t, "analysed")

SkipSafety(t) ==
    /\ Resumes(t) /\ ~snapshot
    /\ loop' = None /\ Put(t, Idle)
    /\ UNCHANGED <<mission, snapshot, frames, obstacleTables, safetyTables>>

(* The position is checked against every constraint of the snapshot.       *)
CheckConstraints(t) ==
    /\ Resumes(t) /\ snapshot
    /\ loop' = t
    /\ \E violated \in SUBSET Constraints :
         Put(t, [tasks[t] EXCEPT !.violated = violated, !.todo = violated,
                                 !.step = "checked"])
    /\ judged' = None
    /\ UNCHANGED <<mission, snapshot, frames, obstacleTables, violations, misses>>

UpsertViolation(t) ==
    /\ At(t, "checked") /\ Holds(t)
    /\ \E c \in tasks[t].todo :
         /\ violations' = Sampled(c, tasks[t].frame)
         /\ Put(t, [tasks[t] EXCEPT !.todo = @ \ {c}])
    /\ UNCHANGED <<mission, snapshot, frames, obstacleTables, misses, judged>>

ResolveInactive(t) ==
    LET task == tasks[t] IN
    /\ At(t, "checked") /\ task.todo = {}
    /\ violations' = Resolved(task.violated, task.frame)
    /\ judged' = task.violated
    /\ IF IsMiss(task)
         THEN Holds(t) /\ Goto(t, "resolved")
         ELSE Leaves(t) /\ Put(t, Idle)
    /\ UNCHANGED <<mission, snapshot, frames, obstacleTables, misses>>

RecordNearMiss(t) ==
    /\ At(t, "resolved") /\ Leaves(t)
    /\ LET task == tasks[t] IN
         misses' = misses \cup {<<task.frame, task.obstacle, NearMiss(task)>>}
    /\ Put(t, Idle)
    /\ UNCHANGED <<mission, snapshot, frames, obstacleTables, violations, judged>>

-----------------------------------------------------------------------------
(* A transaction of the safety analysis fails: the rest of it is skipped.  *)
FailSafety(t) ==
    /\ loop = t /\ loop' = None /\ tasks[t].step \in {"checked", "resolved"}
    /\ Put(t, Idle)
    /\ UNCHANGED <<mission, snapshot, frames, obstacleTables, safetyTables>>

(* A transaction of the obstacle analysis fails: there is no interaction.  *)
FailInteraction(t) ==
    /\ loop = t /\ loop' = None /\ At(t, "persisted")
    /\ Put(t, [Idle EXCEPT !.frame = tasks[t].frame, !.step = "analysed"])
    /\ UNCHANGED <<mission, snapshot, frames, obstacleTables, safetyTables>>

(* The simulation manager or the simulator captures the environment of a   *)
(* mission that has none.                                                  *)
Capture ==
    /\ loop = None /\ mission /\ ~snapshot
    /\ snapshot' = TRUE
    /\ UNCHANGED <<mission, frames, tasks, loop, obstacleTables, safetyTables>>

(* Mutant of Delete: the tables that later versions added are left out.    *)
DeleteOldTables ==
    /\ loop = None /\ mission
    /\ mission' = FALSE /\ snapshot' = FALSE
    /\ NoRows
    /\ UNCHANGED <<frames, tasks, loop, safetyTables>>

Delete ==
    /\ loop = None /\ mission
    /\ mission' = FALSE /\ snapshot' = FALSE
    /\ NoRows
    /\ violations' = {} /\ misses' = {} /\ judged' = {}
    /\ UNCHANGED <<frames, tasks, loop>>

Crash ==
    /\ tasks' = [t \in Tasks |-> Idle] /\ loop' = None
    /\ LoseEvent
    /\ UNCHANGED <<mission, snapshot, frames, safetyTables>>

-----------------------------------------------------------------------------
Init ==
    /\ mission = TRUE /\ snapshot \in BOOLEAN /\ frames = 0
    /\ tasks = [t \in Tasks |-> Idle] /\ loop = None
    /\ ObstacleInit
    /\ violations = {} /\ misses = {} /\ judged = {}

Handle(t) ==
    \/ Store(t) \/ NoInteraction(t) \/ PersistInteraction(t)
    \/ UpdateInteractionState(t) \/ AnnounceRisk(t)
    \/ SkipSafety(t) \/ CheckConstraints(t) \/ UpsertViolation(t)
    \/ ResolveInactive(t) \/ RecordNearMiss(t)

Next ==
    \/ \E t \in Tasks :
         \/ Handle(t)
         \/ "fail" \in Operations /\ (FailSafety(t) \/ FailInteraction(t))
    \/ Capture
    \/ "delete" \in Operations /\ Delete
    \/ "crash" \in Operations /\ Crash

Spec == Init /\ [][Next]_vars

-----------------------------------------------------------------------------
Violation ==
    [constraint : Constraints, active : BOOLEAN,
     status : {"OPEN", "ONGOING", "RESOLVED"}, first : 1..MaxFrames, last : 1..MaxFrames]
Task ==
    [frame : 0..MaxFrames,
     step : {"idle", "stored", "persisted", "entered", "analysed", "checked", "resolved"},
     obstacle : Obstacles \cup {None}, ground : Assessments \cup {None},
     avoiding : BOOLEAN, news : {None, "COLLISION_RISK", "OBSTACLE_AVOIDANCE"},
     violated : SUBSET Constraints, todo : SUBSET Constraints]

(* Steps within an analysis.                                               *)
Inside == {"persisted", "entered", "checked", "resolved"}

(* The tables and the handlers have their types; a violation is active     *)
(* exactly until it is RESOLVED; only the handler that holds the loop is   *)
(* inside an analysis.                                                     *)
TypeOK ==
    /\ mission \in BOOLEAN /\ snapshot \in BOOLEAN /\ frames \in 0..MaxFrames
    /\ tasks \in [Tasks -> Task] /\ loop \in Tasks \cup {None}
    /\ \A t \in Tasks :
         /\ tasks[t].step \in Inside => loop = t
         /\ loop = t => tasks[t].step \in Inside \cup {"analysed"}
    /\ interactions \subseteq (1..MaxFrames) \X Obstacles \X RiskLevels
    /\ \A o \in Obstacles : near[o] # None =>
         near[o] \in [frame : 1..MaxFrames, risk : RiskLevels, avoiding : BOOLEAN]
    /\ told \in [Obstacles -> {"calm", "due", "told", "lost"}]
    /\ violations \subseteq Violation
    /\ \A v \in violations : v.active <=> v.status # "RESOLVED"
    /\ judged \in (SUBSET Constraints) \cup {None}

(* Between two analyses, and while none has been cut short since the last, *)
(* each constraint the last frame analysed has violated has exactly one    *)
(* active violation, and no other constraint has one.                      *)
ActiveIsLatest ==
    loop = None /\ judged # None =>
      \A c \in Constraints :
        Cardinality(Active(c)) = (IF c \in judged THEN 1 ELSE 0)

(* When no handler is inside an analysis, an obstacle whose last state is  *)
(* a risk has been announced since it became one, unless the insert failed *)
(* or the process died in between.                                         *)
RiskAnnounced ==
    loop = None => \A o \in Obstacles :
      WasRisky(o) <=> told[o] \in {"told", "lost"}

(* The two classifiers agree on a frame as far as rounding lets them: a    *)
(* collision is one for the near-miss analysis too, what only rounding     *)
(* makes a collision is CRITICAL, a critical near miss is at least a       *)
(* WARNING, and what is critical is a near miss.                           *)
Agree(class, risk) ==
    /\ risk = "COLLISION" => class = "COLLISION"
    /\ class = "COLLISION" => risk \in {"CRITICAL", "COLLISION"}
    /\ class = "CRITICAL_NEAR_MISS" => Risky(risk)
    /\ class = "SAFE" => risk \notin {"CRITICAL", "COLLISION"}
ClassifiersAgree ==
    \A i \in interactions, m \in misses :
      i[1] = m[1] /\ i[2] = m[2] => Agree(m[3], i[3])

(* What belongs to a mission goes with it, whatever its handlers are at.   *)
NothingLeft ==
    ~mission => /\ interactions = {} /\ events = {} /\ violations = {} /\ misses = {}
                /\ near = [o \in Obstacles |-> None]

(* Not kept.  A near miss is one of an interaction on record: fails for a  *)
(* handler that awaits its broadcast while its mission is deleted, created *)
(* again by another frame and given an environment.                        *)
MissHasInteraction ==
    \A m \in misses : \E i \in interactions : i[1] = m[1] /\ i[2] = m[2]

(* Not kept.  A collision of the near-miss analysis is one of the obstacle *)
(* analysis: fails for a clearance that is positive and rounds to nothing. *)
SameCollisions ==
    \A i \in interactions, m \in misses :
      i[1] = m[1] /\ i[2] = m[2] => (m[3] = "COLLISION" <=> i[3] = "COLLISION")

(* Not kept.  A violation does not end before it began, in the order of    *)
(* the frames: fails for a frame whose handler was overtaken.              *)
NewestJudges ==
    \A v \in violations : v.first <= v.last
=============================================================================
