------------------------- MODULE MissionRecordsProofs -------------------------
(***************************************************************************)
(* Proofs about what hangs on a mission: the events its users annotate it  *)
(* with (MissionEvents), and what the analysis of its frames records       *)
(* (SafetyAnalytics), for any sets and bounds.  The two share no variable; *)
(* the first part is about the one, the second about the other.            *)
(***************************************************************************)
EXTENDS MissionEvents, SafetyAnalytics, FiniteSetTheorems, TLAPS

Insertion == [write: {"insert"}, event: Events, row: EventRow]
Update == [write: {"update"}, event: Events, changes: Changes]

LEMMA PendingWrites ==
    ASSUME EventsTypeOK, NEW h \in Threads
    PROVE  /\ req[h].write = "insert" => req[h] \in Insertion
           /\ req[h].write = "update" => req[h] \in Update
BY DEF EventsTypeOK, Insertion, Update, NoWrite

(* Changing the ends of a row as an update may leaves a row.               *)
LEMMA ChangedRow ==
    ASSUME NEW row \in EventRow, NEW c \in Changes
    PROVE  [row EXCEPT !.start = Change(@, c.start), !.end = Change(@, c.end)]
             \in EventRow
BY EventsAssumption DEF EventRow, Changes, Change

(* A write leaves all rows alone but the one its request names.            *)
LEMMA WrittenRow ==
    ASSUME EventsTypeOK, NEW h \in Threads, WriteEvent(h)
    PROVE  \/ UNCHANGED rows
           \/ \E e \in Events, c \in Changes :
                /\ req[h].event = e /\ req[h].changes = c
                /\ rows[e] \in EventRow /\ rows[e] # Null
                /\ rows' = [rows EXCEPT ![e] =
                     [rows[e] EXCEPT !.start = Change(@, c.start),
                                       !.end = Change(@, c.end)]]
<1>1. req[h].event \in Events /\ req[h].changes \in Changes
  BY PendingWrites DEF WriteEvent, Update
<1> DEFINE e == req[h].event
           c == req[h].changes
<1>2. CASE rows[e] = Null
  BY <1>2 DEF WriteEvent
<1>3. CASE rows[e] # Null
  <2>1. rows[e] \in EventRow
    BY <1>1, <1>3 DEF EventsTypeOK
  <2>2. rows' = [rows EXCEPT ![e].start = Change(@, c.start),
                                 ![e].end = Change(@, c.end)]
    BY <1>3 DEF WriteEvent
  <2>3. rows' = [rows EXCEPT ![e] =
          [rows[e] EXCEPT !.start = Change(@, c.start), !.end = Change(@, c.end)]]
    BY <1>1, <2>1, <2>2 DEF EventsTypeOK
  <2> QED BY <1>1, <1>3, <2>1, <2>3
<1> QED BY <1>2, <1>3

LEMMA TypeNext == EventsTypeOK /\ [EventsNext]_eventVars => EventsTypeOK'
<1> SUFFICES ASSUME EventsTypeOK, [EventsNext]_eventVars PROVE EventsTypeOK'
  OBVIOUS
<1>1. ASSUME NEW h \in Threads, NEW e \in Events, NEW row \in EventRow,
             CheckEvent(h, e, row)
      PROVE  EventsTypeOK'
  BY <1>1 DEF EventsTypeOK, CheckEvent
<1>2. ASSUME NEW h \in Threads, NEW e \in Events, NEW c \in Changes,
             UpdateEvent(h, e, c)
      PROVE  EventsTypeOK'
  BY <1>2 DEF EventsTypeOK, UpdateEvent
<1>3. ASSUME NEW h \in Threads, InsertEvent(h)
      PROVE  EventsTypeOK'
  BY <1>3, PendingWrites DEF EventsTypeOK, InsertEvent, Insertion
<1>4. ASSUME NEW h \in Threads, WriteEvent(h)
      PROVE  EventsTypeOK'
  <2>1. rows' \in [Events -> EventRow \cup {Null}]
    <3>1. ASSUME NEW e \in Events, NEW c \in Changes, rows[e] \in EventRow,
                 rows' = [rows EXCEPT ![e] =
                   [rows[e] EXCEPT !.start = Change(@, c.start),
                                     !.end = Change(@, c.end)]]
          PROVE  rows' \in [Events -> EventRow \cup {Null}]
      <4>1. [rows[e] EXCEPT !.start = Change(@, c.start),
                              !.end = Change(@, c.end)] \in EventRow
        BY <3>1, ChangedRow
      <4> QED BY <3>1, <4>1 DEF EventsTypeOK
    <3>2. UNCHANGED rows => rows' \in [Events -> EventRow \cup {Null}]
      BY DEF EventsTypeOK
    <3> QED BY <1>4, <3>1, <3>2, WrittenRow
  <2>2. UNCHANGED owner /\ req' = [req EXCEPT ![h] = NoWrite]
    BY <1>4 DEF WriteEvent
  <2> QED BY <2>1, <2>2 DEF EventsTypeOK
<1>5. ASSUME NEW e \in Events, DeleteEvent(e)
      PROVE  EventsTypeOK'
  BY <1>5 DEF EventsTypeOK, DeleteEvent
<1>6. ASSUME NEW m \in Missions, DeleteMission(m) \/ \E v \in Vehicles : CreateMission(m, v)
      PROVE  EventsTypeOK'
  BY <1>6 DEF EventsTypeOK, DeleteMission, CreateMission
<1>7. CASE UNCHANGED eventVars
  BY <1>7 DEF EventsTypeOK, eventVars
<1> QED BY <1>1, <1>2, <1>3, <1>4, <1>5, <1>6, <1>7 DEF EventsNext, HandleRequest

(* Rows keep their types; a start is never written as NULL.                *)
THEOREM EventsTypeCorrect == EventsSpec => []EventsTypeOK
<1>1. EventsInit => EventsTypeOK
  BY DEF EventsInit, EventsTypeOK
<1> QED BY <1>1, TypeNext, PTL DEF EventsSpec

(* No write files an event elsewhere.                                      *)
LEMMA WriteFilesNothing ==
    ASSUME EventsTypeOK, NEW h \in Threads, WriteEvent(h), NEW e \in Events,
           rows'[e] # Null
    PROVE  /\ rows[e] # Null
           /\ rows'[e].mission = rows[e].mission /\ rows'[e].vehicle = rows[e].vehicle
<1>1. ASSUME NEW d \in Events, NEW c \in Changes,
             rows[d] \in EventRow, rows[d] # Null,
             rows' = [rows EXCEPT ![d] =
               [rows[d] EXCEPT !.start = Change(@, c.start),
                                 !.end = Change(@, c.end)]]
      PROVE  /\ rows[e] # Null
             /\ rows'[e].mission = rows[e].mission /\ rows'[e].vehicle = rows[e].vehicle
  <2>1. CASE e = d
    BY <1>1, <2>1 DEF EventsTypeOK, EventRow
  <2>2. CASE e # d
    BY <1>1, <2>2 DEF EventsTypeOK
  <2> QED BY <2>1, <2>2
<1> QED BY <1>1, WrittenRow

LEMMA FiledNext == EventsTypeOK /\ EventsFiled /\ [EventsNext]_eventVars => EventsFiled'
<1> SUFFICES ASSUME EventsTypeOK, EventsFiled, [EventsNext]_eventVars PROVE EventsFiled'
  OBVIOUS
<1>1. ASSUME NEW h \in Threads, InsertEvent(h)
      PROVE  EventsFiled'
  BY <1>1, PendingWrites DEF EventsTypeOK, EventsFiled, InsertEvent, Insertion
<1>2. ASSUME NEW h \in Threads, WriteEvent(h)
      PROVE  EventsFiled'
  <2>1. \A e \in Events : rows'[e] # Null =>
          rows[e] # Null /\ rows'[e].mission = rows[e].mission
    BY <1>2, WriteFilesNothing
  <2>2. UNCHANGED owner
    BY <1>2 DEF WriteEvent
  <2> QED BY <2>1, <2>2 DEF EventsFiled
<1>3. ASSUME NEW e \in Events, DeleteEvent(e)
      PROVE  EventsFiled'
  BY <1>3 DEF EventsTypeOK, EventsFiled, DeleteEvent
<1>4. ASSUME NEW m \in Missions, DeleteMission(m)
      PROVE  EventsFiled'
  BY <1>4 DEF EventsTypeOK, EventsFiled, DeleteMission
<1>5. ASSUME NEW m \in Missions, NEW v \in Vehicles, CreateMission(m, v)
      PROVE  EventsFiled'
  BY <1>5, EventsAssumption DEF EventsTypeOK, EventsFiled, CreateMission
<1>6. CASE UNCHANGED <<owner, rows>>
  BY <1>6 DEF EventsFiled
<1> QED BY <1>1, <1>2, <1>3, <1>4, <1>5, <1>6
        DEF EventsNext, HandleRequest, CheckEvent, UpdateEvent, eventVars

(* No event outlives its mission, in whatever order handlers check, write  *)
(* and delete.                                                             *)
THEOREM EventsAreFiled == EventsSpec => []EventsFiled
<1>1. EventsInit => EventsFiled
  BY DEF EventsInit, EventsFiled
<1> QED BY <1>1, FiledNext, EventsTypeCorrect, PTL DEF EventsSpec

-----------------------------------------------------------------------------
(* What breaks intervals.                                                  *)

(* An update that names one end of the event and leaves the other.         *)
OneEnded(c) == (c.start = Unset) # (c.end = Unset)

(* What a handler is about to write is in order as far as it says so       *)
(* itself: a row, or an update that names both ends.                       *)
PendingOrdered ==
    \A h \in Threads :
        /\ req[h].write = "insert" => Ordered(req[h].row.start, req[h].row.end)
        /\ req[h].write = "update" =>
             LET c == req[h].changes IN
             c.start # Unset /\ c.end # Unset => Ordered(c.start, c.end)

LEMMA PendingOrderedNext ==
    EventsTypeOK /\ PendingOrdered /\ [EventsNext]_eventVars => PendingOrdered'
<1> SUFFICES ASSUME EventsTypeOK, PendingOrdered, [EventsNext]_eventVars
             PROVE  PendingOrdered'
  OBVIOUS
<1>1. ASSUME NEW h \in Threads, NEW e \in Events, NEW row \in EventRow,
             CheckEvent(h, e, row)
      PROVE  PendingOrdered'
  BY <1>1 DEF EventsTypeOK, CheckEvent, PendingOrdered
<1>2. ASSUME NEW h \in Threads, NEW e \in Events, NEW c \in Changes,
             UpdateEvent(h, e, c)
      PROVE  PendingOrdered'
  BY <1>2 DEF EventsTypeOK, UpdateEvent, PendingOrdered, Change
<1>3. ASSUME NEW h \in Threads, InsertEvent(h) \/ WriteEvent(h)
      PROVE  PendingOrdered'
  BY <1>3 DEF EventsTypeOK, InsertEvent, WriteEvent, PendingOrdered, NoWrite
<1>4. CASE UNCHANGED req
  BY <1>4 DEF PendingOrdered
<1> QED BY <1>1, <1>2, <1>3, <1>4
        DEF EventsNext, HandleRequest, DeleteEvent, DeleteMission, CreateMission, eventVars

(* A step that leaves an event ending before it starts.                    *)
LEMMA IntervalStep ==
    ASSUME EventsTypeOK, PendingOrdered, EventInterval, [EventsNext]_eventVars
    PROVE  EventInterval' \/ \E h \in Threads : WriteEvent(h) /\ OneEnded(req[h].changes)
<1>1. ASSUME NEW h \in Threads, InsertEvent(h)
      PROVE  EventInterval'
  BY <1>1, PendingWrites DEF EventsTypeOK, InsertEvent, Insertion, EventInterval,
     PendingOrdered
<1>2. ASSUME NEW h \in Threads, WriteEvent(h), ~OneEnded(req[h].changes)
      PROVE  EventInterval'
  <2>1. ASSUME NEW e \in Events, NEW c \in Changes,
               req[h].event = e, req[h].changes = c,
               rows[e] \in EventRow, rows[e] # Null,
               rows' = [rows EXCEPT ![e] =
                 [rows[e] EXCEPT !.start = Change(@, c.start),
                                   !.end = Change(@, c.end)]]
        PROVE  EventInterval'
    <3>1. Ordered(Change(rows[e].start, c.start), Change(rows[e].end, c.end))
      BY <1>2, <2>1 DEF PendingOrdered, WriteEvent, OneEnded, EventInterval, Change
    <3>2. Ordered(rows'[e].start, rows'[e].end)
      BY <2>1, <3>1 DEF EventsTypeOK, EventRow
    <3> QED BY <2>1, <3>2 DEF EventInterval, EventsTypeOK
  <2>2. UNCHANGED rows => EventInterval'
    BY DEF EventInterval
  <2> QED BY <1>2, <2>1, <2>2, WrittenRow
<1>3. ASSUME \A e \in Events : rows'[e] \in {rows[e], Null}
      PROVE  EventInterval'
  BY <1>3 DEF EventInterval
<1>4. ASSUME NEW e \in Events, DeleteEvent(e)
      PROVE  EventInterval'
  BY <1>3, <1>4 DEF EventsTypeOK, DeleteEvent
<1>5. ASSUME NEW m \in Missions, DeleteMission(m)
      PROVE  EventInterval'
  BY <1>3, <1>5 DEF EventsTypeOK, DeleteMission
<1>6. ASSUME UNCHANGED rows
      PROVE  EventInterval'
  BY <1>3, <1>6
<1> QED BY <1>1, <1>2, <1>4, <1>5, <1>6
        DEF EventsNext, HandleRequest, CheckEvent, UpdateEvent, CreateMission, eventVars

(* However handlers overlap, only an update that moves one end of an event *)
(* and leaves the other can make it end before it starts: not an insert,   *)
(* whatever became of its mission, and not an update that names both.      *)
THEOREM OneEndedUpdatesBreakIntervals ==
    EventsSpec => [][EventInterval =>
                       \/ EventInterval'
                       \/ \E h \in Threads :
                            WriteEvent(h) /\ OneEnded(req[h].changes)]_eventVars
<1>1. EventsInit => EventsTypeOK /\ PendingOrdered
  BY DEF EventsInit, EventsTypeOK, PendingOrdered, NoWrite
<1>2. EventsTypeOK /\ PendingOrdered /\ [EventsNext]_eventVars
        => (EventsTypeOK /\ PendingOrdered)'
  BY TypeNext, PendingOrderedNext
<1>3. EventsTypeOK /\ PendingOrdered /\ [EventsNext]_eventVars =>
        [EventInterval =>
           \/ EventInterval'
           \/ \E h \in Threads : WriteEvent(h) /\ OneEnded(req[h].changes)]_eventVars
  BY IntervalStep
<1> QED BY <1>1, <1>2, <1>3, PTL DEF EventsSpec

-----------------------------------------------------------------------------
(* Missions that are never given to another vehicle: home[m] is the only   *)
(* vehicle mission m ever has.                                             *)
AtHome(home) == \A m \in Missions : owner[m] \in {home[m], Null}
FiledAtHome(home) ==
    /\ \A e \in Events : rows[e] # Null => rows[e].vehicle = home[rows[e].mission]
    /\ \A h \in Threads : req[h].write = "insert" =>
         req[h].row.vehicle = home[req[h].row.mission]

LEMMA FiledAtHomeNext ==
    ASSUME NEW home, EventsTypeOK, AtHome(home), FiledAtHome(home),
           [EventsNext]_eventVars
    PROVE  FiledAtHome(home)'
<1>1. ASSUME NEW h \in Threads, NEW e \in Events, NEW row \in EventRow,
             CheckEvent(h, e, row)
      PROVE  FiledAtHome(home)'
  <2>1. row.mission \in Missions /\ row.vehicle \in Vehicles
    BY DEF EventRow
  <2>2. row.vehicle = home[row.mission]
    BY <1>1, <2>1, EventsAssumption DEF AtHome, CheckEvent
  <2> QED BY <1>1, <2>2 DEF EventsTypeOK, FiledAtHome, CheckEvent
<1>2. ASSUME NEW h \in Threads, NEW e \in Events, NEW c \in Changes,
             UpdateEvent(h, e, c)
      PROVE  FiledAtHome(home)'
  BY <1>2 DEF EventsTypeOK, FiledAtHome, UpdateEvent
<1>3. ASSUME NEW h \in Threads, InsertEvent(h)
      PROVE  FiledAtHome(home)'
  BY <1>3, PendingWrites DEF EventsTypeOK, FiledAtHome, InsertEvent, Insertion, NoWrite
<1>4. ASSUME NEW h \in Threads, WriteEvent(h)
      PROVE  FiledAtHome(home)'
  <2>1. \A e \in Events : rows'[e] # Null => rows'[e].vehicle = home[rows'[e].mission]
    BY <1>4, WriteFilesNothing DEF FiledAtHome
  <2>2. req' = [req EXCEPT ![h] = NoWrite]
    BY <1>4 DEF WriteEvent
  <2> QED BY <2>1, <2>2 DEF EventsTypeOK, FiledAtHome, NoWrite
<1>5. ASSUME \A e \in Events : rows'[e] \in {rows[e], Null}, UNCHANGED req
      PROVE  FiledAtHome(home)'
  BY <1>5 DEF FiledAtHome
<1>6. ASSUME NEW e \in Events, DeleteEvent(e)
      PROVE  FiledAtHome(home)'
  BY <1>5, <1>6 DEF EventsTypeOK, DeleteEvent
<1>7. ASSUME NEW m \in Missions, DeleteMission(m) \/ \E v \in Vehicles : CreateMission(m, v)
      PROVE  FiledAtHome(home)'
  BY <1>5, <1>7 DEF EventsTypeOK, DeleteMission, CreateMission
<1>8. CASE UNCHANGED eventVars
  BY <1>5, <1>8 DEF eventVars
<1> QED BY <1>1, <1>2, <1>3, <1>4, <1>6, <1>7, <1>8 DEF EventsNext, HandleRequest

(* Events have the vehicle of their mission, with any overlap of handlers  *)
(* and deletions, unless a mission id is used again for another vehicle.   *)
THEOREM EventsHaveTheirVehicle ==
    ASSUME NEW home
    PROVE  EventsSpec /\ []AtHome(home) => []EventVehicleMatches
<1>1. EventsInit => FiledAtHome(home)
  BY DEF EventsInit, FiledAtHome, NoWrite
<1>2. EventsTypeOK /\ AtHome(home) /\ FiledAtHome(home) /\ [EventsNext]_eventVars
        => FiledAtHome(home)'
  BY FiledAtHomeNext
<1>3. EventsTypeOK /\ AtHome(home) /\ EventsFiled /\ FiledAtHome(home)
        => EventVehicleMatches
  BY DEF EventsTypeOK, EventRow, AtHome, EventsFiled, FiledAtHome, EventVehicleMatches
<1> QED BY <1>1, <1>2, <1>3, EventsTypeCorrect, EventsAreFiled, PTL DEF EventsSpec

-----------------------------------------------------------------------------
(* What a handler is known to carry at its steps.                          *)
Knows(task, f) ==
    /\ task.step # "idle" => task.frame \in 1..f
    /\ task.step \in {"persisted", "entered", "resolved"} => task.ground # None
    /\ task.ground # None => task.obstacle \in Obstacles
    /\ task.step = "entered" => task.news # None
Handlers ==
    /\ tasks \in [Tasks -> Task] /\ loop \in Tasks \cup {None}
    /\ \A t \in Tasks :
         /\ tasks[t].step \in Inside => loop = t
         /\ loop = t => tasks[t].step \in Inside \cup {"analysed"}
    /\ \A t \in Tasks : Knows(tasks[t], frames)
Interacting ==
    /\ mission \in BOOLEAN /\ snapshot \in BOOLEAN /\ frames \in 0..MaxFrames
    /\ interactions \subseteq (1..MaxFrames) \X Obstacles \X RiskLevels
    /\ DOMAIN near = Obstacles
    /\ \A o \in Obstacles : near[o] # None =>
         near[o] \in [frame : 1..MaxFrames, risk : RiskLevels, avoiding : BOOLEAN]
    /\ told \in [Obstacles -> {"calm", "due", "told", "lost"}]
Violating ==
    /\ violations \subseteq Violation
    /\ \A v \in violations : v.active <=> v.status # "RESOLVED"
    /\ judged \in (SUBSET Constraints) \cup {None}
SafetyTypeInv == Handlers /\ Interacting /\ Violating

LEMMA TypeFollows == SafetyTypeInv => TypeOK
BY DEF SafetyTypeInv, Handlers, Interacting, Violating, TypeOK

(* What may hold the loop is not None.                                     *)
LEMMA NotNone ==
    /\ \A t \in Tasks : t # None
    /\ \A g \in Assessments : g # None
    /\ "COLLISION_RISK" # None /\ "OBSTACLE_AVOIDANCE" # None
    /\ \A s \in [frame : Nat, risk : RiskLevels, avoiding : BOOLEAN] : s # None
BY SafetyAssumption

(* Idle is a task.                                                         *)
LEMMA IdleTask == TypeOK => Idle \in Task
BY SafetyAssumption DEF Idle, Task

(* Putting a task in its place changes no other.                           *)
LEMMA PutTask ==
    ASSUME TypeOK, NEW t \in Tasks, NEW n \in Task, Put(t, n)
    PROVE  /\ tasks' \in [Tasks -> Task] /\ tasks'[t] = n
           /\ \A u \in Tasks \ {t} : tasks'[u] = tasks[u]
BY DEF TypeOK, Put

LEMMA RiskLevel == \A g : classify_risk(g) \in RiskLevels
BY DEF classify_risk, RiskLevels

(* The task that a handler goes on with, at each of its steps.             *)
LEMMA Gone ==
    ASSUME TypeOK, NEW t \in Tasks,
           NEW s \in {"idle", "stored", "persisted", "entered", "analysed",
                      "checked", "resolved"}
    PROVE  [tasks[t] EXCEPT !.step = s] \in Task
<1>1. tasks[t] \in Task
  BY DEF TypeOK
<1> QED BY <1>1 DEF Task

LEMMA Stored ==
    ASSUME frames \in 0..MaxFrames, frames < MaxFrames
    PROVE  [Idle EXCEPT !.frame = frames + 1, !.step = "stored"] \in Task
<1>1. frames + 1 \in 0..MaxFrames
  BY SafetyAssumption
<1> QED BY <1>1 DEF Task, Idle

LEMMA Persisted ==
    ASSUME TypeOK, NEW t \in Tasks, NEW o \in Obstacles, NEW g \in Assessments,
           NEW avoiding \in BOOLEAN
    PROVE  [tasks[t] EXCEPT !.obstacle = o, !.ground = g,
                            !.avoiding = avoiding, !.step = "persisted"] \in Task
<1>1. tasks[t] \in Task
  BY DEF TypeOK
<1> QED BY <1>1 DEF Task

LEMMA Updated ==
    ASSUME TypeOK, NEW t \in Tasks,
           NEW news \in {None, "COLLISION_RISK", "OBSTACLE_AVOIDANCE"}
    PROVE  [tasks[t] EXCEPT !.news = news, !.avoiding = FALSE,
                            !.step = IF news = None THEN "analysed" ELSE "entered"]
             \in Task
<1>1. tasks[t] \in Task
  BY DEF TypeOK
<1> QED BY <1>1 DEF Task

LEMMA Announced ==
    ASSUME TypeOK, NEW t \in Tasks
    PROVE  [tasks[t] EXCEPT !.news = None, !.step = "analysed"] \in Task
<1>1. tasks[t] \in Task
  BY DEF TypeOK
<1> QED BY <1>1 DEF Task

LEMMA CheckedTask ==
    ASSUME TypeOK, NEW t \in Tasks, NEW violated \in SUBSET Constraints
    PROVE  [tasks[t] EXCEPT !.violated = violated, !.todo = violated,
                            !.step = "checked"] \in Task
<1>1. tasks[t] \in Task
  BY DEF TypeOK
<1> QED BY <1>1 DEF Task

LEMMA Upserted ==
    ASSUME TypeOK, NEW t \in Tasks, NEW c \in Constraints
    PROVE  [tasks[t] EXCEPT !.todo = @ \ {c}] \in Task
<1>1. tasks[t] \in Task
  BY DEF TypeOK
<1> QED BY <1>1 DEF Task

LEMMA Failed ==
    ASSUME TypeOK, NEW t \in Tasks
    PROVE  [Idle EXCEPT !.frame = tasks[t].frame, !.step = "analysed"] \in Task
<1>1. tasks[t] \in Task
  BY DEF TypeOK
<1> QED BY <1>1 DEF Task, Idle

(* A handler that works moves alone.                                       *)
LEMMA OneMoves ==
    ASSUME Handlers, Interacting, NEW t \in Tasks, NEW n \in Task, Put(t, n),
           frames' \in Nat, frames' >= frames, Knows(n, frames'),
           loop \in {None, t}, loop' \in {None, t},
           n.step \in Inside => loop' = t,
           loop' = t => n.step \in Inside \cup {"analysed"}
    PROVE  /\ Handlers'
           /\ tasks' \in [Tasks -> Task] /\ tasks'[t] = n
           /\ \A u \in Tasks \ {t} : tasks'[u] = tasks[u]
<1>1. tasks' \in [Tasks -> Task] /\ tasks'[t] = n
  BY DEF Handlers, Put
<1>2. \A u \in Tasks \ {t} : tasks'[u] = tasks[u]
  BY DEF Handlers, Put
<1>3. \A u \in Tasks : Knows(tasks[u], frames)'
  <2>1. frames \in Nat
    BY SafetyAssumption DEF Interacting
  <2>2. \A u \in Tasks \ {t} : Knows(tasks[u], frames')
    BY <2>1 DEF Handlers, Knows
  <2>3. Knows(tasks'[t], frames')
    BY <1>1
  <2> QED BY <1>2, <2>2, <2>3 DEF Knows
<1>4. \A u \in Tasks :
        /\ tasks'[u].step \in Inside => loop' = u
        /\ loop' = u => tasks'[u].step \in Inside \cup {"analysed"}
  <2>1. \A u \in Tasks : u # None
    BY NotNone
  <2> QED BY <1>1, <1>2, <2>1 DEF Handlers
<1> QED BY <1>1, <1>2, <1>3, <1>4 DEF Handlers

(* What the writes of the obstacle analysis leave.                         *)
LEMMA StateUpdated ==
    ASSUME Interacting, NEW f \in 1..MaxFrames, NEW o \in Obstacles,
           NEW risk \in RiskLevels, NEW avoiding \in BOOLEAN,
           UpdateState(f, o, risk, avoiding), UNCHANGED <<mission, snapshot, frames>>
    PROVE  Interacting' /\ near' = [near EXCEPT ![o] = StateRow(f, risk, avoiding)]
<1>1. StateRow(f, risk, avoiding)
        \in [frame : 1..MaxFrames, risk : RiskLevels, avoiding : BOOLEAN]
  BY DEF StateRow
<1> QED BY <1>1 DEF Interacting, UpdateState

LEMMA EventCreated ==
    ASSUME Interacting, NEW f, NEW o, NEW type, CreateEvent(f, o, type),
           UNCHANGED <<mission, snapshot, frames>>
    PROVE  Interacting'
BY DEF Interacting, CreateEvent

LEMMA EventLost ==
    ASSUME Interacting, LoseEvent, UNCHANGED <<mission, snapshot, frames>>
    PROVE  Interacting'
BY DEF Interacting, LoseEvent

LEMMA AllDeleted ==
    ASSUME Interacting, NoRows, mission' = FALSE, snapshot' = FALSE, UNCHANGED frames
    PROVE  Interacting'
BY DEF Interacting, NoRows

(* Writing a violation leaves violations.                                  *)
LEMMA ViolationsSampled ==
    ASSUME Violating, NEW c \in Constraints, NEW f \in 1..MaxFrames,
           violations' = Sampled(c, f), UNCHANGED judged
    PROVE  Violating'
<1>1. Row(c, f) \in Violation /\ Row(c, f).active /\ Row(c, f).status # "RESOLVED"
  BY DEF Row, Violation
<1>2. ASSUME NEW v \in Violation, v.active
      PROVE  /\ [v EXCEPT !.status = "ONGOING", !.last = f] \in Violation
             /\ [v EXCEPT !.status = "ONGOING", !.last = f].active
             /\ [v EXCEPT !.status = "ONGOING", !.last = f].status # "RESOLVED"
  BY <1>2 DEF Violation
<1> QED BY <1>1, <1>2 DEF Violating, Sampled, Active

LEMMA ViolationsResolved ==
    ASSUME Violating, NEW violated, NEW f \in 1..MaxFrames,
           violations' = Resolved(violated, f), judged' \in SUBSET Constraints
    PROVE  Violating'
<1>1. ASSUME NEW v \in Violation
      PROVE  /\ [v EXCEPT !.active = FALSE, !.status = "RESOLVED", !.last = f] \in Violation
             /\ ~[v EXCEPT !.active = FALSE, !.status = "RESOLVED", !.last = f].active
             /\ [v EXCEPT !.active = FALSE, !.status = "RESOLVED", !.last = f].status
                  = "RESOLVED"
  BY <1>1 DEF Violation
<1> QED BY <1>1 DEF Violating, Resolved

(* The types hold and every handler carries what it needs.                 *)
LEMMA SafetyTypeNext == SafetyTypeInv /\ [Next]_vars => SafetyTypeInv'
<1> SUFFICES ASSUME SafetyTypeInv, [Next]_vars PROVE SafetyTypeInv'
  OBVIOUS
<1> USE DEF SafetyTypeInv
<1>0. TypeOK
  BY TypeFollows
<1>a. /\ frames \in Nat /\ frames <= MaxFrames /\ MaxFrames \in Nat
      /\ \A t \in Tasks : tasks[t] \in Task /\ t # None
  BY SafetyAssumption, NotNone DEF Handlers, Interacting
<1>b. ASSUME NEW t \in Tasks
      PROVE  /\ tasks[t].step # "idle" => tasks[t].frame \in 1..MaxFrames
             /\ Knows(Idle, frames)
             /\ tasks[t].violated \in SUBSET Constraints
             /\ tasks[t].todo \in SUBSET Constraints
             /\ tasks[t].avoiding \in BOOLEAN
  BY <1>a DEF Handlers, Knows, Idle, Task
<1>1. ASSUME NEW t \in Tasks, Store(t)
      PROVE  SafetyTypeInv'
  <2> DEFINE n == [Idle EXCEPT !.frame = frames + 1, !.step = "stored"]
  <2>1. n \in Task
    BY <1>1, Stored DEF Store, Interacting
  <2>2. frames' = frames + 1 /\ Put(t, n) /\ loop = None /\ loop' = None
    BY <1>1 DEF Store
  <2>3. Knows(n, frames') /\ n.step = "stored"
    BY <1>a, <2>2 DEF Idle, Knows
  <2> HIDE DEF n
  <2>4. Handlers'
    BY <1>a, <2>1, <2>2, <2>3, OneMoves DEF Inside
  <2>5. Interacting' /\ Violating'
    BY <1>1, <1>a DEF Store, Interacting, Violating, obstacleTables, safetyTables
  <2> QED BY <2>4, <2>5
<1>2. ASSUME NEW t \in Tasks, NoInteraction(t)
      PROVE  SafetyTypeInv'
  <2> DEFINE n == [tasks[t] EXCEPT !.step = "analysed"]
  <2>1. n \in Task
    BY <1>0, Gone
  <2>2. frames' = frames /\ Put(t, n) /\ loop = None /\ loop' = t /\ tasks[t].step = "stored"
    BY <1>2 DEF NoInteraction, Goto, Enters, At
  <2>3. Knows(n, frames') /\ n.step = "analysed"
    BY <1>a, <2>2 DEF Handlers, Knows, Task
  <2> HIDE DEF n
  <2>4. Handlers'
    BY <1>a, <2>1, <2>2, <2>3, OneMoves DEF Inside
  <2>5. Interacting' /\ Violating'
    BY <1>2 DEF NoInteraction, Interacting, Violating, obstacleTables, safetyTables
  <2> QED BY <2>4, <2>5
<1>3. ASSUME NEW t \in Tasks, PersistInteraction(t)
      PROVE  SafetyTypeInv'
  <2>1. PICK o \in Obstacles, g \in Assessments, avoiding \in BOOLEAN :
          /\ Persist(tasks[t].frame, o, classify_risk(g))
          /\ Put(t, [tasks[t] EXCEPT !.obstacle = o, !.ground = g,
                                     !.avoiding = avoiding, !.step = "persisted"])
    BY <1>3 DEF PersistInteraction
  <2> DEFINE n == [tasks[t] EXCEPT !.obstacle = o, !.ground = g,
                                   !.avoiding = avoiding, !.step = "persisted"]
  <2>2. n \in Task
    BY <1>0, Persisted
  <2>3. frames' = frames /\ Put(t, n) /\ loop = None /\ loop' = t /\ tasks[t].step = "stored"
    BY <1>3, <2>1 DEF PersistInteraction, Enters, At
  <2>4. Knows(n, frames') /\ n.step = "persisted"
    BY <1>a, <2>3, NotNone DEF Handlers, Knows, Task
  <2> HIDE DEF n
  <2>5. Handlers'
    BY <1>a, <2>2, <2>3, <2>4, OneMoves DEF Inside
  <2>6. Interacting'
    <3>1. <<tasks[t].frame, o, classify_risk(g)>> \in (1..MaxFrames) \X Obstacles \X RiskLevels
      BY <1>b, <2>3, RiskLevel
    <3> QED BY <1>3, <2>1, <3>1 DEF PersistInteraction, Persist, Interacting
  <2>7. Violating'
    BY <1>3 DEF PersistInteraction, Violating, safetyTables
  <2> QED BY <2>5, <2>6, <2>7
<1>4. ASSUME NEW t \in Tasks, UpdateInteractionState(t)
      PROVE  SafetyTypeInv'
  <2> DEFINE risk == classify_risk(tasks[t].ground)
             news == News(tasks[t].obstacle, risk, tasks[t].avoiding)
             n == [tasks[t] EXCEPT !.news = news, !.avoiding = FALSE,
                          !.step = IF news = None THEN "analysed" ELSE "entered"]
  <2>1. news \in {None, "COLLISION_RISK", "OBSTACLE_AVOIDANCE"} /\ risk \in RiskLevels
    BY RiskLevel DEF News, EventType
  <2>2. n \in Task
    BY <1>0, <2>1, Updated
  <2>3. /\ frames' = frames /\ Put(t, n) /\ loop = t /\ tasks[t].step = "persisted"
        /\ loop' = IF news = None THEN None ELSE t
        /\ UpdateState(tasks[t].frame, tasks[t].obstacle, risk, tasks[t].avoiding)
        /\ UNCHANGED <<mission, snapshot, safetyTables>>
    BY <1>4 DEF UpdateInteractionState, At, Leaves, Holds
  <2>9. tasks[t] \in Task /\ Knows(tasks[t], frames)
    BY <1>a DEF Handlers
  <2> HIDE DEF news, risk
  <2>4. Knows(n, frames') /\ n.step = IF news = None THEN "analysed" ELSE "entered"
    BY <2>3, <2>9 DEF Knows, Task
  <2> HIDE DEF n
  <2>5. Handlers'
    BY <1>a, <2>2, <2>3, <2>4, OneMoves DEF Inside
  <2>6. tasks[t].obstacle \in Obstacles
    BY <2>3, <2>9 DEF Knows
  <2>7. Interacting'
    BY <1>b, <2>1, <2>3, <2>6, StateUpdated
  <2>8. Violating'
    BY <2>3 DEF Violating, safetyTables
  <2> QED BY <2>5, <2>7, <2>8
<1>5. ASSUME NEW t \in Tasks, AnnounceRisk(t)
      PROVE  SafetyTypeInv'
  <2> DEFINE n == [tasks[t] EXCEPT !.news = None, !.step = "analysed"]
  <2>1. n \in Task
    BY <1>0, Announced
  <2>2. /\ frames' = frames /\ Put(t, n) /\ loop = t /\ loop' = None
        /\ tasks[t].step = "entered" /\ UNCHANGED <<mission, snapshot, safetyTables>>
    BY <1>5 DEF AnnounceRisk, At, Leaves
  <2>3. Knows(n, frames') /\ n.step = "analysed"
    BY <1>a, <2>2 DEF Handlers, Knows, Task
  <2> HIDE DEF n
  <2>4. Handlers'
    BY <1>a, <2>1, <2>2, <2>3, OneMoves DEF Inside
  <2>5. Interacting'
    BY <1>5, <2>2, EventCreated, EventLost DEF AnnounceRisk
  <2>6. Violating'
    BY <2>2 DEF Violating, safetyTables
  <2> QED BY <2>4, <2>5, <2>6
<1>6. ASSUME NEW t \in Tasks, SkipSafety(t) \/ FailSafety(t)
      PROVE  SafetyTypeInv'
  <2>1. /\ frames' = frames /\ Put(t, Idle) /\ loop \in {None, t} /\ loop' = None
        /\ UNCHANGED <<mission, snapshot, obstacleTables, safetyTables>>
    BY <1>6 DEF SkipSafety, FailSafety, Resumes
  <2>2. Idle \in Task /\ Knows(Idle, frames') /\ Idle.step = "idle"
    BY <1>0, <1>b, <2>1, IdleTask DEF Idle
  <2>3. Handlers'
    BY <1>a, <2>1, <2>2, OneMoves DEF Inside
  <2>4. Interacting' /\ Violating'
    BY <2>1 DEF Interacting, Violating, obstacleTables, safetyTables
  <2> QED BY <2>3, <2>4
<1>7. ASSUME NEW t \in Tasks, CheckConstraints(t)
      PROVE  SafetyTypeInv'
  <2>1. PICK violated \in SUBSET Constraints :
          Put(t, [tasks[t] EXCEPT !.violated = violated, !.todo = violated,
                                  !.step = "checked"])
    BY <1>7 DEF CheckConstraints
  <2> DEFINE n == [tasks[t] EXCEPT !.violated = violated, !.todo = violated,
                                   !.step = "checked"]
  <2>2. n \in Task
    BY <1>0, CheckedTask
  <2>3. /\ frames' = frames /\ Put(t, n) /\ loop \in {None, t} /\ loop' = t
        /\ tasks[t].step = "analysed"
    BY <1>7, <2>1 DEF CheckConstraints, Resumes, At
  <2>4. Knows(n, frames') /\ n.step = "checked"
    BY <1>a, <2>3 DEF Handlers, Knows, Task
  <2> HIDE DEF n
  <2>5. Handlers'
    BY <1>a, <2>2, <2>3, <2>4, OneMoves DEF Inside
  <2>6. Interacting'
    BY <1>7 DEF CheckConstraints, Interacting, obstacleTables
  <2>7. Violating'
    BY <1>7 DEF CheckConstraints, Violating
  <2> QED BY <2>5, <2>6, <2>7
<1>8. ASSUME NEW t \in Tasks, UpsertViolation(t)
      PROVE  SafetyTypeInv'
  <2>1. PICK c \in tasks[t].todo :
          /\ violations' = Sampled(c, tasks[t].frame)
          /\ Put(t, [tasks[t] EXCEPT !.todo = @ \ {c}])
    BY <1>8 DEF UpsertViolation
  <2> DEFINE n == [tasks[t] EXCEPT !.todo = @ \ {c}]
  <2>2. c \in Constraints
    BY <1>b
  <2>3. n \in Task
    BY <1>0, <2>2, Upserted
  <2>4. /\ frames' = frames /\ Put(t, n) /\ loop = t /\ loop' = t
        /\ tasks[t].step = "checked" /\ UNCHANGED <<mission, snapshot, obstacleTables, judged>>
    BY <1>8, <2>1 DEF UpsertViolation, Holds, At
  <2>5. Knows(n, frames') /\ n.step = "checked"
    BY <1>a, <2>4 DEF Handlers, Knows, Task
  <2> HIDE DEF n
  <2>6. Handlers'
    BY <1>a, <2>3, <2>4, <2>5, OneMoves DEF Inside
  <2>7. Interacting'
    BY <2>4 DEF Interacting, obstacleTables
  <2>8. Violating'
    BY <1>b, <2>1, <2>2, <2>4, ViolationsSampled
  <2> QED BY <2>6, <2>7, <2>8
<1>9. ASSUME NEW t \in Tasks, ResolveInactive(t)
      PROVE  SafetyTypeInv'
  <2>1. /\ frames' = frames /\ tasks[t].step = "checked"
        /\ violations' = Resolved(tasks[t].violated, tasks[t].frame)
        /\ judged' = tasks[t].violated
        /\ UNCHANGED <<mission, snapshot, obstacleTables>>
    BY <1>9 DEF ResolveInactive, At
  <2>2. Interacting' /\ Violating'
    BY <1>b, <2>1, ViolationsResolved DEF Interacting, obstacleTables
  <2>3. CASE IsMiss(tasks[t])
    <3> DEFINE n == [tasks[t] EXCEPT !.step = "resolved"]
    <3>1. n \in Task
      BY <1>0, Gone
    <3>2. Put(t, n) /\ loop = t /\ loop' = t
      BY <1>9, <2>3 DEF ResolveInactive, Goto, Holds
    <3>3. Knows(n, frames') /\ n.step = "resolved"
      BY <1>a, <2>1, <2>3 DEF Handlers, Knows, Task, IsMiss
    <3> HIDE DEF n
    <3>4. Handlers'
      BY <1>a, <2>1, <3>1, <3>2, <3>3, OneMoves DEF Inside
    <3> QED BY <2>2, <3>4
  <2>4. CASE ~IsMiss(tasks[t])
    <3>1. Put(t, Idle) /\ loop = t /\ loop' = None
      BY <1>9, <2>4 DEF ResolveInactive, Leaves
    <3>2. Idle \in Task /\ Knows(Idle, frames') /\ Idle.step = "idle"
      BY <1>0, <1>b, <2>1, IdleTask DEF Idle
    <3>3. Handlers'
      BY <1>a, <2>1, <3>1, <3>2, OneMoves DEF Inside
    <3> QED BY <2>2, <3>3
  <2> QED BY <2>3, <2>4
<1>10. ASSUME NEW t \in Tasks, RecordNearMiss(t)
      PROVE  SafetyTypeInv'
  <2>1. /\ frames' = frames /\ Put(t, Idle) /\ loop = t /\ loop' = None
        /\ UNCHANGED <<mission, snapshot, obstacleTables, violations, judged>>
    BY <1>10 DEF RecordNearMiss, Leaves
  <2>2. Idle \in Task /\ Knows(Idle, frames') /\ Idle.step = "idle"
    BY <1>0, <1>b, <2>1, IdleTask DEF Idle
  <2>3. Handlers'
    BY <1>a, <2>1, <2>2, OneMoves DEF Inside
  <2>4. Interacting' /\ Violating'
    BY <2>1 DEF Interacting, Violating, obstacleTables
  <2> QED BY <2>3, <2>4
<1>11. ASSUME NEW t \in Tasks, FailInteraction(t)
      PROVE  SafetyTypeInv'
  <2> DEFINE n == [Idle EXCEPT !.frame = tasks[t].frame, !.step = "analysed"]
  <2>1. n \in Task
    BY <1>0, Failed
  <2>2. /\ frames' = frames /\ Put(t, n) /\ loop = t /\ loop' = None
        /\ tasks[t].step = "persisted"
        /\ UNCHANGED <<mission, snapshot, obstacleTables, safetyTables>>
    BY <1>11 DEF FailInteraction, At
  <2>3. Knows(n, frames') /\ n.step = "analysed"
    BY <1>a, <2>2 DEF Handlers, Knows, Idle
  <2> HIDE DEF n
  <2>4. Handlers'
    BY <1>a, <2>1, <2>2, <2>3, OneMoves DEF Inside
  <2>5. Interacting' /\ Violating'
    BY <2>2 DEF Interacting, Violating, obstacleTables, safetyTables
  <2> QED BY <2>4, <2>5
<1>12. CASE Capture \/ UNCHANGED vars
  BY <1>12 DEF Capture, vars, Handlers, Interacting, Violating, obstacleTables, safetyTables
<1>13. CASE Delete
  <2>1. UNCHANGED <<frames, tasks, loop>> /\ Violating'
    BY <1>13 DEF Delete, Violating
  <2> QED BY <1>13, <2>1, AllDeleted DEF Delete, Handlers
<1>14. CASE Crash
  <2>1. /\ frames' = frames /\ tasks' = [t \in Tasks |-> Idle] /\ loop' = None
        /\ UNCHANGED <<mission, snapshot, safetyTables>> /\ LoseEvent
    BY <1>14 DEF Crash
  <2>2. Idle \in Task /\ Knows(Idle, frames') /\ Idle.step = "idle"
    BY <1>0, <1>b, <2>1, IdleTask DEF Idle, Knows
  <2>3. Handlers'
    BY <1>a, <2>1, <2>2 DEF Handlers, Inside
  <2>4. Interacting' /\ Violating'
    BY <2>1, EventLost DEF Violating, safetyTables
  <2> QED BY <2>3, <2>4
<1> QED BY <1>1, <1>2, <1>3, <1>4, <1>5, <1>6, <1>7, <1>8, <1>9, <1>10, <1>11, <1>12,
           <1>13, <1>14 DEF Next, Handle

LEMMA SafetyTypeInit == Init => SafetyTypeInv
<1> SUFFICES ASSUME Init PROVE SafetyTypeInv
  OBVIOUS
<1>1. Idle \in Task /\ Knows(Idle, frames) /\ Idle.step = "idle"
  BY SafetyAssumption DEF Idle, Knows, Task
<1>2. Handlers
  BY <1>1, NotNone DEF Init, Handlers, Inside
<1>3. Interacting /\ Violating
  BY SafetyAssumption DEF Init, ObstacleInit, Interacting, Violating
<1> QED BY <1>2, <1>3 DEF SafetyTypeInv

(* The tables and the handlers of the analyses keep their types.           *)
THEOREM SafetyTypeCorrect == Spec => []TypeOK
BY SafetyTypeInit, SafetyTypeNext, TypeFollows, PTL DEF Spec

-----------------------------------------------------------------------------
(* Only while its mission exists is a handler inside an analysis.          *)
Belonging ==
    /\ snapshot => mission
    /\ \A t \in Tasks : tasks[t].step \in Inside => mission
    /\ NothingLeft

LEMMA BelongingNext == SafetyTypeInv /\ Belonging /\ [Next]_vars => Belonging'
<1> SUFFICES ASSUME SafetyTypeInv, Belonging, [Next]_vars PROVE Belonging'
  OBVIOUS
<1>0. TypeOK /\ \A t \in Tasks : t # None /\ tasks[t] \in Task
  BY TypeFollows, NotNone DEF TypeOK
<1>1. mission' => Belonging'
  BY DEF Belonging, NothingLeft
<1>2. ASSUME NEW t \in Tasks, Handle(t) \/ FailSafety(t) \/ FailInteraction(t)
      PROVE  Belonging'
  <2>1. CASE Store(t)
    BY <1>1, <2>1 DEF Store
  <2>2. CASE NoInteraction(t) \/ SkipSafety(t)
    <3>1. UNCHANGED <<mission, snapshot, obstacleTables, safetyTables>>
      BY <2>2 DEF NoInteraction, SkipSafety
    <3>2. PICK n \in Task : Put(t, n) /\ n.step \notin Inside
      <4>1. [tasks[t] EXCEPT !.step = "analysed"] \in Task
        BY <1>0, Gone
      <4>2. [tasks[t] EXCEPT !.step = "analysed"].step = "analysed"
        BY <1>0 DEF Task
      <4>3. Idle \in Task /\ Idle.step = "idle"
        BY <1>0, IdleTask DEF Idle
      <4>4. Put(t, [tasks[t] EXCEPT !.step = "analysed"]) \/ Put(t, Idle)
        BY <2>2 DEF NoInteraction, SkipSafety, Goto
      <4> QED BY <4>1, <4>2, <4>3, <4>4 DEF Inside
    <3>3. \A u \in Tasks : tasks'[u].step \in Inside => tasks[u].step \in Inside
      BY <1>0, <3>2, PutTask
    <3> QED BY <3>1, <3>3 DEF Belonging, NothingLeft, obstacleTables, safetyTables
  <2>3. CASE PersistInteraction(t)
    BY <1>1, <2>3 DEF PersistInteraction, Belonging
  <2>4. CASE CheckConstraints(t)
    BY <1>1, <2>4 DEF CheckConstraints, Belonging
  <2>5. CASE UpdateInteractionState(t) \/ AnnounceRisk(t) \/ UpsertViolation(t)
               \/ ResolveInactive(t) \/ RecordNearMiss(t) \/ FailSafety(t)
               \/ FailInteraction(t)
    <3>1. tasks[t].step \in Inside /\ UNCHANGED mission
      BY <2>5 DEF UpdateInteractionState, AnnounceRisk, UpsertViolation, ResolveInactive,
                  RecordNearMiss, FailSafety, FailInteraction, At, Inside
    <3> QED BY <1>1, <3>1 DEF Belonging
  <2> QED BY <1>2, <2>1, <2>2, <2>3, <2>4, <2>5 DEF Handle
<1>3. CASE Capture
  BY <1>1, <1>3 DEF Capture
<1>4. CASE Delete
  <2>1. \A t \in Tasks : tasks'[t].step \notin Inside
    BY <1>0, <1>4 DEF Delete, TypeOK
  <2> QED BY <1>4, <2>1 DEF Delete, NoRows, Belonging, NothingLeft
<1>5. CASE Crash
  <2>1. \A t \in Tasks : tasks'[t].step = "idle"
    BY <1>5 DEF Crash, Idle
  <2> QED BY <1>5, <2>1 DEF Crash, LoseEvent, Inside, Belonging, NothingLeft, safetyTables
<1>6. CASE UNCHANGED vars
  BY <1>6 DEF vars, obstacleTables, safetyTables, Belonging, NothingLeft
<1> QED BY <1>2, <1>3, <1>4, <1>5, <1>6 DEF Next

(* Deleting a mission leaves nothing of it, wherever its handlers are.     *)
THEOREM NothingIsLeft == Spec => []NothingLeft
<1>1. Init => SafetyTypeInv /\ Belonging
  BY SafetyTypeInit DEF Init, Idle, Inside, Belonging, NothingLeft
<1>2. SafetyTypeInv /\ Belonging /\ [Next]_vars => (SafetyTypeInv /\ Belonging)'
  BY SafetyTypeNext, BelongingNext
<1>3. Belonging => NothingLeft
  BY DEF Belonging
<1> QED BY <1>1, <1>2, <1>3, PTL DEF Spec

-----------------------------------------------------------------------------
(* News is due only while the handler that has it holds the loop.          *)
Announcing ==
    \A o \in Obstacles :
      /\ WasRisky(o) <=> told[o] # "calm"
      /\ told[o] = "due" =>
           \E t \in Tasks : loop = t /\ tasks[t].step = "entered" /\ tasks[t].obstacle = o

LEMMA AnnouncingNext == SafetyTypeInv /\ Announcing /\ [Next]_vars => Announcing'
<1> SUFFICES ASSUME SafetyTypeInv, Announcing, [Next]_vars PROVE Announcing'
  OBVIOUS
<1>0. TypeOK /\ Interacting /\ \A t \in Tasks : t # None /\ tasks[t] \in Task
  BY TypeFollows, NotNone DEF TypeOK, SafetyTypeInv
<1>1. ASSUME loop = None \/ \E t \in Tasks : loop = t /\ tasks[t].step # "entered"
      PROVE  \A o \in Obstacles : told[o] # "due"
  BY <1>0, <1>1 DEF Announcing
<1>2. ASSUME loop = None \/ \E t \in Tasks : loop = t /\ tasks[t].step # "entered",
             UNCHANGED <<near, told>>
      PROVE  Announcing'
  BY <1>1, <1>2 DEF Announcing, WasRisky
<1>3. ASSUME LoseEvent
      PROVE  Announcing'
  BY <1>0, <1>3 DEF LoseEvent, Announcing, WasRisky, Interacting
<1>4. ASSUME NEW t \in Tasks, Handle(t) \/ FailSafety(t) \/ FailInteraction(t)
      PROVE  Announcing'
  <2>1. CASE Store(t) \/ NoInteraction(t) \/ PersistInteraction(t) \/ SkipSafety(t)
               \/ CheckConstraints(t) \/ UpsertViolation(t) \/ ResolveInactive(t)
               \/ RecordNearMiss(t) \/ FailSafety(t) \/ FailInteraction(t)
    <3>1. /\ loop = None \/ (loop = t /\ tasks[t].step # "entered")
          /\ UNCHANGED <<near, told>>
      BY <2>1 DEF Store, NoInteraction, PersistInteraction, SkipSafety, CheckConstraints,
                  UpsertViolation, ResolveInactive, RecordNearMiss, FailSafety,
                  FailInteraction, At, Enters, Holds, Leaves, Resumes, Persist,
                  obstacleTables
    <3> QED BY <1>2, <3>1
  <2>2. CASE UpdateInteractionState(t)
    <3> DEFINE o == tasks[t].obstacle
               risk == classify_risk(tasks[t].ground)
               avoiding == tasks[t].avoiding
               news == News(o, risk, avoiding)
               n == [tasks[t] EXCEPT !.news = news, !.avoiding = FALSE,
                            !.step = IF news = None THEN "analysed" ELSE "entered"]
    <3>1. /\ loop = t /\ tasks[t].step = "persisted" /\ Put(t, n)
          /\ loop' = IF news = None THEN None ELSE t
          /\ UpdateState(tasks[t].frame, o, risk, avoiding)
      BY <2>2 DEF UpdateInteractionState, At, Leaves, Holds
    <3>2. /\ o \in Obstacles /\ risk \in RiskLevels /\ avoiding \in BOOLEAN
          /\ tasks[t].frame \in 1..MaxFrames
      <4>1. Knows(tasks[t], frames) /\ tasks[t] \in Task /\ frames \in 0..MaxFrames
        BY DEF SafetyTypeInv, Handlers, Interacting
      <4>2. MaxFrames \in Nat
        BY SafetyAssumption
      <4> QED BY <3>1, <4>1, <4>2, RiskLevel DEF Knows, Task
    <3>3. near' = [near EXCEPT ![o] = StateRow(tasks[t].frame, risk, avoiding)]
      BY <3>1 DEF UpdateState
    <3>4. \A p \in Obstacles :
            WasRisky(p)' <=> IF p = o THEN Risky(risk) ELSE WasRisky(p)
      <4>1. /\ StateRow(tasks[t].frame, risk, avoiding) # None
            /\ StateRow(tasks[t].frame, risk, avoiding).risk = risk
        <5>1. StateRow(tasks[t].frame, risk, avoiding)
                \in [frame : Nat, risk : RiskLevels, avoiding : BOOLEAN]
          BY <3>2 DEF StateRow
        <5> QED BY <5>1, NotNone DEF StateRow
      <4> HIDE DEF o, risk, avoiding
      <4>2. near'[o] = StateRow(tasks[t].frame, risk, avoiding)
            /\ \A p \in Obstacles \ {o} : near'[p] = near[p]
        BY <1>0, <3>2, <3>3 DEF Interacting
      <4> QED BY <4>1, <4>2 DEF WasRisky
    <3>5. told' = [told EXCEPT ![o] =
            IF ~Risky(risk) THEN "calm" ELSE IF ~WasRisky(o) THEN "due" ELSE @]
      BY <3>1 DEF UpdateState
    <3>6. \A p \in Obstacles : told[p] # "due"
      BY <1>1, <3>1
    <3>7. Risky(risk) /\ ~WasRisky(o) => news # None
      BY NotNone DEF News, EnteredRisk, EventType
    <3>8. news # None =>
            loop' = t /\ tasks'[t].step = "entered" /\ tasks'[t].obstacle = o
      <4>1. news \in {None, "COLLISION_RISK", "OBSTACLE_AVOIDANCE"}
        BY DEF News, EventType
      <4> HIDE DEF news
      <4>2. n \in Task
        BY <1>0, <4>1, Updated
      <4>3. news # None => n.step = "entered" /\ n.obstacle = o
        BY <1>0 DEF Task
      <4> HIDE DEF n
      <4> QED BY <1>0, <3>1, <4>2, <4>3, PutTask
    <3> HIDE DEF o, risk, avoiding, news, n
    <3> QED BY <1>0, <3>2, <3>4, <3>5, <3>6, <3>7, <3>8 DEF Announcing, Interacting
  <2>3. CASE AnnounceRisk(t)
    <3>1. loop = t
      BY <2>3 DEF AnnounceRisk, Leaves
    <3>2. CASE CreateEvent(tasks[t].frame, tasks[t].obstacle, tasks[t].news)
      <4>1. \A o \in Obstacles : told[o] = "due" => o = tasks[t].obstacle
        BY <3>1 DEF Announcing
      <4>2. \A o \in Obstacles : told'[o] = IF told[o] = "due" THEN "told" ELSE told[o]
        BY <1>0, <3>2, <4>1 DEF CreateEvent, Interacting
      <4> QED BY <3>2, <4>2 DEF CreateEvent, Announcing, WasRisky
    <3> QED BY <1>3, <2>3, <3>2 DEF AnnounceRisk
  <2> QED BY <1>4, <2>1, <2>2, <2>3 DEF Handle
<1>5. CASE Capture
  BY <1>2, <1>5 DEF Capture, obstacleTables
<1>6. CASE Delete
  BY <1>6 DEF Delete, NoRows, Announcing, WasRisky
<1>7. CASE Crash
  BY <1>3, <1>7 DEF Crash
<1>8. CASE UNCHANGED vars
  BY <1>8 DEF vars, obstacleTables, Announcing, WasRisky
<1> QED BY <1>4, <1>5, <1>6, <1>7, <1>8 DEF Next

(* An obstacle that is a risk has been announced, or its event was lost,   *)
(* whenever no handler is inside an analysis.                              *)
THEOREM RisksAreAnnounced == Spec => []RiskAnnounced
<1>1. Init => SafetyTypeInv /\ Announcing
  BY SafetyTypeInit DEF Init, ObstacleInit, Announcing, WasRisky
<1>2. SafetyTypeInv /\ Announcing /\ [Next]_vars => (SafetyTypeInv /\ Announcing)'
  BY SafetyTypeNext, AnnouncingNext
<1>3. SafetyTypeInv /\ Announcing => RiskAnnounced
  <2>1. \A t \in Tasks : t # None
    BY NotNone
  <2> QED BY <2>1 DEF SafetyTypeInv, Interacting, Announcing, RiskAnnounced
<1> QED BY <1>1, <1>2, <1>3, PTL DEF Spec

-----------------------------------------------------------------------------
(* No constraint has two active violations.  What was judged last is what  *)
(* is active, and between the first write of an analysis and its last one  *)
(* nothing counts as judged.                                               *)
Single(c) == \A v, w \in Active(c) : v = w
Checked(t) ==
    tasks[t].step = "checked" =>
      /\ judged = None
      /\ \A c \in tasks[t].violated \ tasks[t].todo : Active(c) # {}
Judging ==
    /\ \A c \in Constraints : Single(c)
    /\ judged # None => \A c \in Constraints : Active(c) # {} <=> c \in judged
    /\ \A t \in Tasks : Checked(t)

(* A sample is of one constraint, which has one active violation then.     *)
LEMMA SampledActive ==
    ASSUME Violating, NEW c \in Constraints, NEW f, violations' = Sampled(c, f),
           \A d \in Constraints : Single(d), NEW d \in Constraints
    PROVE  Single(d)' /\ (Active(d)' # {} <=> d = c \/ Active(d) # {})
<1>1. Row(c, f).active /\ Row(c, f).constraint = c
  BY DEF Row
<1>2. ASSUME NEW v \in violations
      PROVE  /\ [v EXCEPT !.status = "ONGOING", !.last = f].active = v.active
             /\ [v EXCEPT !.status = "ONGOING", !.last = f].constraint = v.constraint
  BY DEF Violating, Violation
<1> DEFINE Sample(v) == [v EXCEPT !.status = "ONGOING", !.last = f]
<1>3. CASE Active(c) = {}
  <2>1. violations' = violations \cup {Row(c, f)}
    BY <1>3 DEF Sampled
  <2>2. Active(d)' = IF d = c THEN {Row(c, f)} ELSE Active(d)
    BY <1>1, <1>3, <2>1 DEF Active
  <2> QED BY <2>2 DEF Single
<1>4. CASE Active(c) # {}
  <2>1. violations' = {IF v \in Active(c) THEN Sample(v) ELSE v : v \in violations}
    BY <1>4 DEF Sampled
  <2>2. \A v \in violations : Sample(v).active = v.active
                           /\ Sample(v).constraint = v.constraint
    BY <1>2
  <2> HIDE DEF Sample
  <2>3. Active(d)' = IF d = c THEN {Sample(v) : v \in Active(c)} ELSE Active(d)
    BY <2>1, <2>2 DEF Active
  <2> QED BY <1>4, <2>3 DEF Single
<1> QED BY <1>3, <1>4

(* After the last write exactly the violated ones that were active are.    *)
LEMMA ResolvedActive ==
    ASSUME Violating, NEW violated, NEW f, violations' = Resolved(violated, f),
           NEW d \in Constraints
    PROVE  Active(d)' = IF d \in violated THEN Active(d) ELSE {}
<1> DEFINE End(v) == [v EXCEPT !.active = FALSE, !.status = "RESOLVED", !.last = f]
<1>1. \A v \in violations : End(v).active = FALSE
  BY DEF Violating, Violation
<1>2. violations' =
        {IF v.active /\ v.constraint \notin violated THEN End(v) ELSE v : v \in violations}
  BY DEF Resolved
<1> HIDE DEF End
<1> QED BY <1>1, <1>2 DEF Active

LEMMA JudgingNext == SafetyTypeInv /\ Judging /\ [Next]_vars => Judging'
<1> SUFFICES ASSUME SafetyTypeInv, Judging, [Next]_vars PROVE Judging'
  OBVIOUS
<1>0. /\ TypeOK /\ Violating /\ \A t \in Tasks : t # None /\ tasks[t] \in Task
      /\ \A t \in Tasks : tasks[t].step = "checked" => loop = t
  BY TypeFollows, NotNone DEF TypeOK, SafetyTypeInv, Inside
<1>1. ASSUME UNCHANGED <<violations, judged>>,
             \A u \in Tasks : tasks'[u].step = "checked" => tasks'[u] = tasks[u]
      PROVE  Judging'
  BY <1>1 DEF Judging, Single, Checked, Active
<1>2. ASSUME NEW t \in Tasks, Handle(t) \/ FailSafety(t) \/ FailInteraction(t)
      PROVE  Judging'
  <2>1. CASE Store(t) \/ NoInteraction(t) \/ PersistInteraction(t)
               \/ UpdateInteractionState(t) \/ AnnounceRisk(t) \/ SkipSafety(t)
               \/ RecordNearMiss(t) \/ FailSafety(t) \/ FailInteraction(t)
    <3>1. UNCHANGED <<violations, judged>>
      BY <2>1 DEF Store, NoInteraction, PersistInteraction, UpdateInteractionState,
                  AnnounceRisk, SkipSafety, RecordNearMiss, FailSafety, FailInteraction,
                  safetyTables
    <3>2. PICK n \in Task : Put(t, n) /\ n.step # "checked"
      <4>1. CASE Store(t)
        <5>1. [Idle EXCEPT !.frame = frames + 1, !.step = "stored"] \in Task
          BY <4>1, Stored DEF Store, SafetyTypeInv, Interacting
        <5> QED BY <4>1, <5>1 DEF Store, Idle
      <4>2. CASE NoInteraction(t)
        <5>1. [tasks[t] EXCEPT !.step = "analysed"] \in Task
          BY <1>0, Gone
        <5>2. [tasks[t] EXCEPT !.step = "analysed"].step = "analysed"
          BY <1>0 DEF Task
        <5> QED BY <4>2, <5>1, <5>2 DEF NoInteraction, Goto
      <4>3. CASE PersistInteraction(t)
        <5>1. PICK o \in Obstacles, g \in Assessments, avoiding \in BOOLEAN :
                Put(t, [tasks[t] EXCEPT !.obstacle = o, !.ground = g,
                                        !.avoiding = avoiding, !.step = "persisted"])
          BY <4>3 DEF PersistInteraction
        <5> DEFINE n == [tasks[t] EXCEPT !.obstacle = o, !.ground = g,
                                         !.avoiding = avoiding, !.step = "persisted"]
        <5>2. n \in Task
          BY <1>0, Persisted
        <5>3. n.step = "persisted"
          BY <1>0 DEF Task
        <5> QED BY <5>1, <5>2, <5>3
      <4>4. CASE UpdateInteractionState(t)
        <5> DEFINE news == News(tasks[t].obstacle, classify_risk(tasks[t].ground),
                                tasks[t].avoiding)
                   n == [tasks[t] EXCEPT !.news = news, !.avoiding = FALSE,
                                !.step = IF news = None THEN "analysed" ELSE "entered"]
        <5>1. Put(t, n)
          BY <4>4 DEF UpdateInteractionState
        <5>2. news \in {None, "COLLISION_RISK", "OBSTACLE_AVOIDANCE"}
          BY DEF News, EventType
        <5> HIDE DEF news
        <5>3. n \in Task
          BY <1>0, <5>2, Updated
        <5>4. n.step = IF news = None THEN "analysed" ELSE "entered"
          BY <1>0 DEF Task
        <5> HIDE DEF n
        <5> QED BY <5>1, <5>3, <5>4
      <4>5. CASE AnnounceRisk(t)
        <5>1. [tasks[t] EXCEPT !.news = None, !.step = "analysed"] \in Task
          BY <1>0, Announced
        <5>2. [tasks[t] EXCEPT !.news = None, !.step = "analysed"].step = "analysed"
          BY <1>0 DEF Task
        <5> QED BY <4>5, <5>1, <5>2 DEF AnnounceRisk
      <4>6. CASE SkipSafety(t) \/ RecordNearMiss(t) \/ FailSafety(t)
        <5>1. Idle \in Task /\ Idle.step = "idle"
          BY <1>0, IdleTask DEF Idle
        <5> QED BY <4>6, <5>1 DEF SkipSafety, RecordNearMiss, FailSafety
      <4>7. CASE FailInteraction(t)
        <5>1. [Idle EXCEPT !.frame = tasks[t].frame, !.step = "analysed"] \in Task
          BY <1>0, Failed
        <5> QED BY <4>7, <5>1 DEF FailInteraction, Idle
      <4> QED BY <2>1, <4>1, <4>2, <4>3, <4>4, <4>5, <4>6, <4>7
    <3>3. \A u \in Tasks : tasks'[u].step = "checked" => tasks'[u] = tasks[u]
      BY <1>0, <3>2, PutTask
    <3> QED BY <1>1, <3>1, <3>3
  <2>2. CASE CheckConstraints(t)
    <3>1. PICK violated \in SUBSET Constraints :
            Put(t, [tasks[t] EXCEPT !.violated = violated, !.todo = violated,
                                    !.step = "checked"])
      BY <2>2 DEF CheckConstraints
    <3> DEFINE n == [tasks[t] EXCEPT !.violated = violated, !.todo = violated,
                                     !.step = "checked"]
    <3>2. n \in Task /\ n.violated \ n.todo = {}
      BY <1>0, CheckedTask DEF Task
    <3> HIDE DEF n
    <3>3. /\ tasks'[t] = n
          /\ \A u \in Tasks \ {t} : tasks'[u] = tasks[u]
      BY <1>0, <3>1, <3>2, PutTask DEF n
    <3>4. loop \in {None, t} /\ judged' = None /\ UNCHANGED violations
      BY <2>2 DEF CheckConstraints, Resumes
    <3>5. \A u \in Tasks : Checked(u)'
      BY <1>0, <3>2, <3>3, <3>4 DEF Checked
    <3> QED BY <3>4, <3>5 DEF Judging, Single, Active
  <2>3. CASE UpsertViolation(t)
    <3>1. PICK c \in tasks[t].todo :
            /\ violations' = Sampled(c, tasks[t].frame)
            /\ Put(t, [tasks[t] EXCEPT !.todo = @ \ {c}])
      BY <2>3 DEF UpsertViolation
    <3> DEFINE n == [tasks[t] EXCEPT !.todo = @ \ {c}]
    <3>2. c \in Constraints
      BY <1>0 DEF Task
    <3>3. n \in Task /\ n.violated = tasks[t].violated /\ n.todo = tasks[t].todo \ {c}
      BY <1>0, <3>2, Upserted DEF Task
    <3> HIDE DEF n
    <3>4. /\ tasks'[t] = n
          /\ \A u \in Tasks \ {t} : tasks'[u] = tasks[u]
      BY <1>0, <3>1, <3>3, PutTask DEF n
    <3>5. tasks[t].step = "checked" /\ loop = t /\ UNCHANGED judged
      BY <2>3 DEF UpsertViolation, At, Holds
    <3>6. \A d \in Constraints :
            Single(d)' /\ (Active(d)' # {} <=> d = c \/ Active(d) # {})
      BY <1>0, <3>1, <3>2, SampledActive DEF Judging
    <3>7. judged = None
      BY <3>5 DEF Judging, Checked
    <3>8. Checked(t)'
      <4>1. tasks[t].violated \in SUBSET Constraints
        BY <1>0 DEF Task
      <4>2. \A d \in tasks[t].violated \ tasks[t].todo : Active(d) # {}
        BY <3>5 DEF Judging, Checked
      <4> QED BY <3>3, <3>4, <3>5, <3>6, <3>7, <4>1, <4>2 DEF Checked
    <3>9. \A u \in Tasks \ {t} : Checked(u)'
      BY <1>0, <3>4, <3>5 DEF Checked
    <3> QED BY <3>5, <3>6, <3>7, <3>8, <3>9 DEF Judging
  <2>4. CASE ResolveInactive(t)
    <3>1. /\ tasks[t].step = "checked" /\ loop = t /\ tasks[t].todo = {}
          /\ violations' = Resolved(tasks[t].violated, tasks[t].frame)
          /\ judged' = tasks[t].violated
      BY <2>4 DEF ResolveInactive, At, Holds, Leaves
    <3>2. \A d \in Constraints :
            Active(d)' = IF d \in tasks[t].violated THEN Active(d) ELSE {}
      BY <1>0, <3>1, ResolvedActive
    <3>3. \A d \in tasks[t].violated : Active(d) # {}
      BY <3>1 DEF Judging, Checked
    <3>4. PICK n \in Task : Put(t, n) /\ n.step # "checked"
      <4>1. [tasks[t] EXCEPT !.step = "resolved"] \in Task
        BY <1>0, Gone
      <4>2. [tasks[t] EXCEPT !.step = "resolved"].step = "resolved"
        BY <1>0 DEF Task
      <4>3. Idle \in Task /\ Idle.step = "idle"
        BY <1>0, IdleTask DEF Idle
      <4> QED BY <2>4, <4>1, <4>2, <4>3 DEF ResolveInactive, Goto
    <3>5. \A u \in Tasks : Checked(u)'
      <4>1. \A u \in Tasks : tasks'[u].step # "checked"
        BY <1>0, <3>1, <3>4, PutTask
      <4> QED BY <4>1 DEF Checked
    <3>6. \A d \in Constraints : Single(d)'
      BY <3>2 DEF Judging, Single
    <3>7. judged' # None => \A d \in Constraints : Active(d)' # {} <=> d \in judged'
      BY <3>1, <3>2, <3>3
    <3> QED BY <3>5, <3>6, <3>7 DEF Judging
  <2> QED BY <1>2, <2>1, <2>2, <2>3, <2>4 DEF Handle
<1>3. CASE Delete
  <2>1. \A t \in Tasks : tasks'[t].step # "checked"
    BY <1>0, <1>3 DEF Delete
  <2> QED BY <1>3, <2>1 DEF Delete, Judging, Single, Checked, Active
<1>4. CASE Crash
  <2>1. \A t \in Tasks : tasks'[t].step = "idle"
    BY <1>4 DEF Crash, Idle
  <2> QED BY <1>1, <1>4, <2>1 DEF Crash, safetyTables
<1>5. CASE Capture \/ UNCHANGED vars
  BY <1>1, <1>5 DEF Capture, vars, safetyTables
<1> QED BY <1>2, <1>3, <1>4, <1>5 DEF Next

(* The active violations are those of the frame that was judged last.      *)
THEOREM ActiveViolationsAreLatest == Spec => []ActiveIsLatest
<1>1. Init => SafetyTypeInv /\ Judging
  BY SafetyTypeInit DEF Init, Idle, Judging, Single, Checked, Active
<1>2. SafetyTypeInv /\ Judging /\ [Next]_vars => (SafetyTypeInv /\ Judging)'
  BY SafetyTypeNext, JudgingNext
<1>3. SafetyTypeInv /\ Judging => ActiveIsLatest
  <2> SUFFICES ASSUME Judging, judged # None, NEW c \in Constraints
               PROVE  Cardinality(Active(c)) = IF c \in judged THEN 1 ELSE 0
    BY DEF ActiveIsLatest
  <2>1. CASE Active(c) = {}
    BY <2>1, FS_EmptySet DEF Judging
  <2>2. ASSUME NEW v \in Active(c) PROVE Cardinality(Active(c)) = 1 /\ c \in judged
    <3>1. Active(c) = {v}
      BY <2>2 DEF Judging, Single
    <3> QED BY <3>1, FS_Singleton DEF Judging
  <2> QED BY <2>1, <2>2
<1> QED BY <1>1, <1>2, <1>3, PTL DEF Spec

-----------------------------------------------------------------------------
(* Rounding moves a number by half of what it keeps at most, and does not  *)
(* make a negative one positive.                                           *)
LEMMA RoundedIsNear ==
    ASSUME NEW x \in Int
    PROVE  /\ Rounded(x) \in Int /\ x - 5 <= Rounded(x) /\ Rounded(x) <= x + 5
           /\ x <= 0 => Rounded(x) <= 0
<1> DEFINE down == x \div 10
           rest == x % 10
<1>1. down \in Int /\ rest \in 0..9 /\ x = 10 * down + rest
  OBVIOUS
<1>2. \/ Rounded(x) = 10 * down /\ rest <= 5
      \/ Rounded(x) = 10 * (down + 1) /\ rest >= 5
  BY <1>1 DEF Rounded
<1> HIDE DEF down, rest
<1> QED BY <1>1, <1>2

(* What one classifier finds of an assessment agrees with what the other   *)
(* finds of its record.                                                    *)
LEMMA Classified ==
    ASSUME NEW g \in Assessment
    PROVE  Agree(classification(Recorded(g)), classify_risk(g))
<1> DEFINE r == Recorded(g)
           c == g.clearance
           R == Rounded(SafetyRadius)
<1>1. /\ c \in Int /\ g.ttc \in Nat \cup {None} /\ None \notin Int
      /\ SafetyRadius \in Nat /\ 4 * SafetyRadius >= Metre
  BY RadiusAssumption DEF Assessment
<1>2. /\ r.clearance \in Int /\ c - 5 <= r.clearance /\ r.clearance <= c + 5
      /\ c <= 0 => r.clearance <= 0
  BY <1>1, RoundedIsNear DEF Recorded
<1>3. R \in Int /\ SafetyRadius - 5 <= R /\ R <= SafetyRadius + 5
  BY <1>1, RoundedIsNear
<1>4. CASE g.ttc = None
  <2>1. r.ttc = None
    BY <1>4 DEF Recorded
  <2> HIDE DEF r, c, R
  <2>2. Agree(classification(r), classify_risk(g))
    BY <1>1, <1>2, <1>3, <1>4, <2>1
       DEF Agree, classification, classify_risk, Within, Larger, Risky, Metre, Second, c, R
  <2> QED BY <2>2 DEF r
<1>5. CASE g.ttc \in Nat
  <2>1. /\ g.ttc # None /\ r.ttc # None /\ r.ttc \in Int
        /\ g.ttc - 5 <= r.ttc /\ r.ttc <= g.ttc + 5
    BY <1>1, <1>5, RoundedIsNear DEF Recorded
  <2> HIDE DEF r, c, R
  <2>2. Agree(classification(r), classify_risk(g))
    BY <1>1, <1>2, <1>3, <1>5, <2>1
       DEF Agree, classification, classify_risk, Within, Larger, Risky, Metre, Second, c, R
  <2> QED BY <2>2 DEF r
<1> QED BY <1>1, <1>4, <1>5

(* A frame is of one handler, which records it once, as it has judged it,  *)
(* and then its near miss, and ends.                                       *)
Judged(task, i) ==
    i[1] = task.frame =>
      /\ task.step # "stored"
      /\ task.ground # None /\ i[2] = task.obstacle => i[3] = classify_risk(task.ground)
Own(t) ==
    tasks[t].step # "idle" =>
      /\ \A u \in Tasks : tasks[u].step # "idle" /\ tasks[u].frame = tasks[t].frame => u = t
      /\ \A m \in misses : m[1] # tasks[t].frame
      /\ \A i \in interactions : Judged(tasks[t], i)
Recording ==
    /\ \A t \in Tasks : Own(t)
    /\ \A i \in interactions : i[1] \in 1..frames
    /\ \A m \in misses : m[1] \in 1..frames
    /\ ClassifiersAgree

(* A handler goes on with its frame, and with what it has found or without *)
(* it, or ends.                                                            *)
Keeps(t, n) ==
    /\ n.step # "stored" /\ n.frame = tasks[t].frame
    /\ \/ n.ground = None
       \/ n.ground = tasks[t].ground /\ n.obstacle = tasks[t].obstacle
GoesOn(t) ==
    \/ NoInteraction(t) \/ UpdateInteractionState(t) \/ AnnounceRisk(t)
    \/ SkipSafety(t) \/ CheckConstraints(t) \/ UpsertViolation(t)
    \/ ResolveInactive(t) \/ FailSafety(t) \/ FailInteraction(t)

LEMMA GoesOnWith ==
    ASSUME SafetyTypeInv, NEW t \in Tasks, GoesOn(t)
    PROVE  \E n \in Task : Put(t, n) /\ (n.step = "idle" \/ Keeps(t, n))
<1>a. TypeOK /\ tasks[t] \in Task
  BY TypeFollows DEF TypeOK
<1>i. Idle \in Task /\ Idle.step = "idle"
  BY <1>a, IdleTask DEF Idle
<1>1. CASE NoInteraction(t)
  <2>1. [tasks[t] EXCEPT !.step = "analysed"] \in Task
    BY <1>a, Gone
  <2>2. Keeps(t, [tasks[t] EXCEPT !.step = "analysed"])
    BY <1>a DEF Keeps, Task
  <2> QED BY <1>1, <2>1, <2>2 DEF NoInteraction, Goto
<1>2. CASE UpdateInteractionState(t)
  <2> DEFINE news == News(tasks[t].obstacle, classify_risk(tasks[t].ground),
                          tasks[t].avoiding)
             n == [tasks[t] EXCEPT !.news = news, !.avoiding = FALSE,
                          !.step = IF news = None THEN "analysed" ELSE "entered"]
  <2>1. Put(t, n)
    BY <1>2 DEF UpdateInteractionState
  <2>2. news \in {None, "COLLISION_RISK", "OBSTACLE_AVOIDANCE"}
    BY DEF News, EventType
  <2> HIDE DEF news
  <2>3. n \in Task
    BY <1>a, <2>2, Updated
  <2>4. Keeps(t, n)
    BY <1>a DEF Keeps, Task
  <2> HIDE DEF n
  <2> QED BY <2>1, <2>3, <2>4
<1>3. CASE AnnounceRisk(t)
  <2>1. [tasks[t] EXCEPT !.news = None, !.step = "analysed"] \in Task
    BY <1>a, Announced
  <2>2. Keeps(t, [tasks[t] EXCEPT !.news = None, !.step = "analysed"])
    BY <1>a DEF Keeps, Task
  <2> QED BY <1>3, <2>1, <2>2 DEF AnnounceRisk
<1>4. CASE SkipSafety(t) \/ FailSafety(t)
  BY <1>i, <1>4 DEF SkipSafety, FailSafety
<1>5. CASE CheckConstraints(t)
  <2>1. PICK violated \in SUBSET Constraints :
          Put(t, [tasks[t] EXCEPT !.violated = violated, !.todo = violated,
                                  !.step = "checked"])
    BY <1>5 DEF CheckConstraints
  <2> DEFINE n == [tasks[t] EXCEPT !.violated = violated, !.todo = violated,
                                   !.step = "checked"]
  <2>2. n \in Task
    BY <1>a, CheckedTask
  <2>3. Keeps(t, n)
    BY <1>a DEF Keeps, Task
  <2> QED BY <2>1, <2>2, <2>3
<1>6. CASE UpsertViolation(t)
  <2>1. PICK c \in tasks[t].todo : Put(t, [tasks[t] EXCEPT !.todo = @ \ {c}])
    BY <1>6 DEF UpsertViolation
  <2> DEFINE n == [tasks[t] EXCEPT !.todo = @ \ {c}]
  <2>2. c \in Constraints
    BY <1>a DEF Task
  <2>3. n \in Task
    BY <1>a, <2>2, Upserted
  <2>4. Keeps(t, n)
    BY <1>a, <1>6 DEF Keeps, Task, UpsertViolation, At
  <2> QED BY <2>1, <2>3, <2>4
<1>7. CASE ResolveInactive(t)
  <2>1. [tasks[t] EXCEPT !.step = "resolved"] \in Task
    BY <1>a, Gone
  <2>2. Keeps(t, [tasks[t] EXCEPT !.step = "resolved"])
    BY <1>a DEF Keeps, Task
  <2>3. Put(t, [tasks[t] EXCEPT !.step = "resolved"]) \/ Put(t, Idle)
    BY <1>7 DEF ResolveInactive, Goto
  <2> QED BY <1>i, <2>1, <2>2, <2>3
<1>8. CASE FailInteraction(t)
  <2>1. [Idle EXCEPT !.frame = tasks[t].frame, !.step = "analysed"] \in Task
    BY <1>a, Failed
  <2>2. Keeps(t, [Idle EXCEPT !.frame = tasks[t].frame, !.step = "analysed"])
    BY DEF Keeps, Idle
  <2> QED BY <1>8, <2>1, <2>2 DEF FailInteraction
<1> QED BY <1>1, <1>2, <1>3, <1>4, <1>5, <1>6, <1>7, <1>8 DEF GoesOn

(* A handler that keeps its frame, and what it found if it has it still,   *)
(* or ends, owns its frame as before.                                      *)
LEMMA OwnsOn ==
    ASSUME TypeOK, Recording, NEW t \in Tasks, NEW n \in Task, Put(t, n),
           UNCHANGED <<frames, interactions, misses>>, tasks[t].step # "idle",
           n.step = "idle" \/ Keeps(t, n)
    PROVE  Recording'
<1>1. tasks'[t] = n /\ \A u \in Tasks \ {t} : tasks'[u] = tasks[u]
  BY PutTask
<1>2. \A u \in Tasks : Own(u)'
  BY <1>1 DEF Recording, Own, Judged, Keeps
<1> QED BY <1>2 DEF Recording, ClassifiersAgree

LEMMA RecordingNext == SafetyTypeInv /\ Recording /\ [Next]_vars => Recording'
<1> SUFFICES ASSUME SafetyTypeInv, Recording, [Next]_vars PROVE Recording'
  OBVIOUS
<1>0. /\ TypeOK /\ frames \in Nat
      /\ \A t \in Tasks : t # None /\ tasks[t] \in Task /\ Knows(tasks[t], frames)
      /\ \A t \in Tasks : tasks[t].step \in Inside => loop = t
  BY SafetyAssumption, TypeFollows, NotNone DEF SafetyTypeInv, Interacting, Handlers
<1>1. ASSUME NEW t \in Tasks, Handle(t) \/ FailSafety(t) \/ FailInteraction(t)
      PROVE  Recording'
  <2>1. CASE Store(t)
    <3> DEFINE n == [Idle EXCEPT !.frame = frames + 1, !.step = "stored"]
    <3>1. n \in Task /\ n.frame = frames + 1 /\ n.step = "stored"
      BY <2>1, Stored DEF Store, SafetyTypeInv, Interacting, Idle
    <3>2. Put(t, n) /\ frames' = frames + 1 /\ UNCHANGED <<interactions, misses>>
      BY <2>1 DEF Store, obstacleTables, safetyTables
    <3> HIDE DEF n
    <3>3. tasks'[t] = n /\ \A u \in Tasks \ {t} : tasks'[u] = tasks[u]
      BY <1>0, <3>1, <3>2, PutTask
    <3>4. Own(t)'
      <4>1. \A u \in Tasks : tasks[u].step # "idle" => tasks[u].frame \in 1..frames
        BY <1>0 DEF Knows
      <4>2. \A u \in Tasks \ {t} : tasks'[u].step # "idle" => tasks'[u].frame # n.frame
        BY <1>0, <3>1, <3>3, <4>1
      <4>3. \A i \in interactions : i[1] # n.frame
        BY <1>0, <3>1 DEF Recording
      <4>4. \A m \in misses : m[1] # n.frame
        BY <1>0, <3>1 DEF Recording
      <4> QED BY <3>2, <3>3, <4>2, <4>3, <4>4 DEF Own, Judged
    <3>5. ASSUME NEW u \in Tasks \ {t} PROVE Own(u)'
      <4>1. tasks[u].step # "idle" => tasks[u].frame # n.frame
        BY <1>0, <3>1 DEF Knows
      <4> QED BY <3>2, <3>3, <4>1 DEF Recording, Own
    <3>6. /\ \A i \in interactions : i[1] \in 1..frames'
          /\ \A m \in misses : m[1] \in 1..frames'
      BY <1>0, <3>2 DEF Recording
    <3> QED BY <3>2, <3>4, <3>5, <3>6 DEF Recording, ClassifiersAgree
  <2>2. CASE PersistInteraction(t)
    <3>1. PICK o \in Obstacles, g \in Assessments, avoiding \in BOOLEAN :
            /\ Persist(tasks[t].frame, o, classify_risk(g))
            /\ Put(t, [tasks[t] EXCEPT !.obstacle = o, !.ground = g,
                                       !.avoiding = avoiding, !.step = "persisted"])
      BY <2>2 DEF PersistInteraction
    <3> DEFINE n == [tasks[t] EXCEPT !.obstacle = o, !.ground = g,
                                     !.avoiding = avoiding, !.step = "persisted"]
               new == <<tasks[t].frame, o, classify_risk(g)>>
    <3>a. n \in Task
      BY <1>0, Persisted
    <3>2. /\ n \in Task /\ n.frame = tasks[t].frame /\ n.step = "persisted"
          /\ n.obstacle = o /\ n.ground = g
      BY <1>0, <3>a DEF Task
    <3>3. /\ Put(t, n) /\ tasks[t].step = "stored" /\ UNCHANGED <<frames, misses>>
          /\ interactions' = interactions \cup {new}
      BY <2>2, <3>1 DEF PersistInteraction, At, Persist, safetyTables
    <3> HIDE DEF n
    <3>4. tasks'[t] = n /\ \A u \in Tasks \ {t} : tasks'[u] = tasks[u]
      BY <1>0, <3>2, <3>3, PutTask
    <3>5. new[1] = tasks[t].frame /\ new[2] = o /\ new[3] = classify_risk(g)
      OBVIOUS
    <3>6. Judged(n, new)
      BY <3>2, <3>5 DEF Judged
    <3> HIDE DEF new
    <3>7. Own(t)'
      <4>1. \A i \in interactions : i[1] # tasks[t].frame
        BY <3>3 DEF Recording, Own, Judged
      <4>2. \A i \in interactions' : Judged(n, i)
        BY <3>2, <3>3, <3>6, <4>1 DEF Judged
      <4>3. \A u \in Tasks \ {t} : tasks'[u].step # "idle" => tasks'[u].frame # n.frame
        BY <3>2, <3>3, <3>4 DEF Recording, Own
      <4>4. \A m \in misses' : m[1] # n.frame
        BY <3>2, <3>3 DEF Recording, Own
      <4> QED BY <3>4, <4>2, <4>3, <4>4 DEF Own
    <3>8. ASSUME NEW u \in Tasks \ {t} PROVE Own(u)'
      <4>1. tasks[u].step # "idle" => tasks[u].frame # tasks[t].frame
        BY <3>3 DEF Recording, Own
      <4>2. tasks[u].step # "idle" => Judged(tasks[u], new)
        BY <3>5, <4>1 DEF Judged
      <4> QED BY <3>2, <3>3, <3>4, <4>1, <4>2 DEF Recording, Own
    <3>9. \A i \in interactions' : i[1] \in 1..frames
      BY <1>0, <3>3, <3>5 DEF Recording, Knows
    <3>10. ClassifiersAgree'
      <4>1. \A m \in misses : m[1] # new[1]
        BY <3>3, <3>5 DEF Recording, Own
      <4> QED BY <3>3, <4>1 DEF Recording, ClassifiersAgree
    <3> QED BY <3>3, <3>7, <3>8, <3>9, <3>10 DEF Recording
  <2>3. CASE GoesOn(t)
    <3>1. UNCHANGED <<frames, interactions, misses>> /\ tasks[t].step # "idle"
      BY <2>3 DEF GoesOn, NoInteraction, UpdateInteractionState, AnnounceRisk, SkipSafety,
                  CheckConstraints, UpsertViolation, ResolveInactive, FailSafety,
                  FailInteraction, At, Resumes, UpdateState, CreateEvent, LoseEvent,
                  obstacleTables, safetyTables
    <3>2. PICK n \in Task : Put(t, n) /\ (n.step = "idle" \/ Keeps(t, n))
      BY <2>3, GoesOnWith
    <3> QED BY <1>0, <3>1, <3>2, OwnsOn
  <2>4. CASE RecordNearMiss(t)
    <3> DEFINE new == <<tasks[t].frame, tasks[t].obstacle, NearMiss(tasks[t])>>
    <3>1. /\ Put(t, Idle) /\ tasks[t].step = "resolved" /\ UNCHANGED <<frames, interactions>>
          /\ misses' = misses \cup {new}
      BY <2>4 DEF RecordNearMiss, At, obstacleTables
    <3>2. Idle \in Task /\ Idle.step = "idle"
      BY <1>0, IdleTask DEF Idle
    <3>3. tasks'[t] = Idle /\ \A u \in Tasks \ {t} : tasks'[u] = tasks[u]
      BY <1>0, <3>1, <3>2, PutTask
    <3>4. /\ new[1] = tasks[t].frame /\ new[2] = tasks[t].obstacle
          /\ new[3] = classification(Recorded(tasks[t].ground))
      BY DEF NearMiss
    <3> HIDE DEF new
    <3>5. tasks[t].frame \in 1..frames /\ tasks[t].ground # None
      BY <1>0, <3>1 DEF Knows
    <3>6. ASSUME NEW u \in Tasks PROVE Own(u)'
      <4>1. u # t /\ tasks[u].step # "idle" => tasks[u].frame # tasks[t].frame
        BY <3>1 DEF Recording, Own
      <4> QED BY <3>1, <3>2, <3>3, <3>4, <4>1 DEF Recording, Own
    <3>7. \A m \in misses' : m[1] \in 1..frames
      BY <3>1, <3>4, <3>5 DEF Recording
    <3>8. ClassifiersAgree'
      <4>1. tasks[t].ground \in Assessment
        BY <1>0, <3>5, SafetyAssumption DEF Task
      <4>2. \A i \in interactions :
              i[1] = new[1] /\ i[2] = new[2] => i[3] = classify_risk(tasks[t].ground)
        BY <3>1, <3>4, <3>5 DEF Recording, Own, Judged
      <4> QED BY <3>1, <3>4, <4>1, <4>2, Classified DEF Recording, ClassifiersAgree
    <3> QED BY <3>1, <3>6, <3>7, <3>8 DEF Recording
  <2> QED BY <1>1, <2>1, <2>2, <2>3, <2>4 DEF Handle, GoesOn
<1>2. CASE Delete
  <2>1. UNCHANGED <<frames, tasks>> /\ interactions' = {} /\ misses' = {}
    BY <1>2 DEF Delete, NoRows
  <2> QED BY <2>1 DEF Recording, Own, ClassifiersAgree
<1>3. CASE Crash
  <2>1. \A t \in Tasks : tasks'[t].step = "idle"
    BY <1>3 DEF Crash, Idle
  <2>2. UNCHANGED <<frames, interactions, misses>>
    BY <1>3 DEF Crash, LoseEvent, safetyTables
  <2> QED BY <2>1, <2>2 DEF Recording, Own, ClassifiersAgree
<1>4. CASE Capture \/ UNCHANGED vars
  <2>1. UNCHANGED <<frames, tasks, interactions, misses>>
    BY <1>4 DEF Capture, vars, obstacleTables, safetyTables
  <2> QED BY <2>1 DEF Recording, Own, Judged, ClassifiersAgree
<1> QED BY <1>1, <1>2, <1>3, <1>4 DEF Next

(* What the two analyses record of a frame never contradicts, though one   *)
(* classifies the assessment and the other its rounded record.             *)
THEOREM ClassifiersAlwaysAgree == Spec => []ClassifiersAgree
<1>1. Init => SafetyTypeInv /\ Recording
  BY SafetyTypeInit DEF Init, ObstacleInit, Idle, Recording, Own, ClassifiersAgree
<1>2. SafetyTypeInv /\ Recording /\ [Next]_vars => (SafetyTypeInv /\ Recording)'
  BY SafetyTypeNext, RecordingNext
<1>3. Recording => ClassifiersAgree
  BY DEF Recording
<1> QED BY <1>1, <1>2, <1>3, PTL DEF Spec
===============================================================================
