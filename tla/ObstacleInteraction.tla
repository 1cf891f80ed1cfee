-------------------------- MODULE ObstacleInteraction --------------------------
(***************************************************************************)
(* obstacle_interaction.py for one mission: how near a frame comes to its  *)
(* closest obstacle, the table of interactions, the last state of every    *)
(* obstacle, and the mission events that announce a risk.                  *)
(*                                                                         *)
(* Lengths and times to collision are in tenths of what round(_, 6) keeps: *)
(* 100 nm and 100 ns.                                                      *)
(***************************************************************************)
EXTENDS Integers

CONSTANTS
    Obstacles,    \* the obstacles of the mission's environment snapshot
    SafetyRadius, \* safety_radius of the vehicle
    None

Metre == 10000000
Second == 10000000

(* safety_radius is at least 0.25 m.                                       *)
ASSUME RadiusAssumption ==
    SafetyRadius \in Nat /\ 4 * SafetyRadius >= Metre /\ None \notin Int

VARIABLES
    interactions, \* rows of obstacle_interactions: <<frame, obstacle, risk>>
    near,         \* near[o] = row of obstacle_interaction_state, or None
    events,       \* the mission events of the analysis: <<frame, obstacle, type>>
    told          \* history: what became of the news that o is a risk

obstacleTables == <<interactions, near, events, told>>

(* What the geometry of a frame and its closest obstacle comes to.         *)
Assessment == [clearance: Int, ttc: Nat \cup {None}]

(* round(x, 6), which takes a tie to the even digit, and the assessment as *)
(* the record of the interaction has it.                                   *)
Rounded(x) ==
    LET down == x \div 10 rest == x % 10 IN
    IF rest < 5 \/ (rest = 5 /\ down % 2 = 0)
      THEN 10 * down ELSE 10 * (down + 1)
Recorded(g) ==
    [clearance |-> Rounded(g.clearance),
     ttc |-> IF g.ttc = None THEN None ELSE Rounded(g.ttc)]

(* Within(g, t): a collision is at most t ahead.                           *)
Within(g, t) == g.ttc # None /\ g.ttc <= t
Larger(a, b) == IF a >= b THEN a ELSE b

(* The risk is that of the assessment before it is rounded.                *)
classify_risk(g) ==
    IF g.clearance <= 0 THEN "COLLISION"
    ELSE IF \/ Within(g, 2 * Second)
            \/ 20 * g.clearance <= Larger(10 * Metre, 7 * SafetyRadius)
      THEN "CRITICAL"
    ELSE IF \/ Within(g, 5 * Second)
            \/ 2 * g.clearance <= Larger(3 * Metre, 2 * SafetyRadius)
      THEN "WARNING"
    ELSE IF \/ Within(g, 10 * Second)
            \/ 2 * g.clearance <= Larger(6 * Metre, 5 * SafetyRadius)
      THEN "CAUTION"
    ELSE "CLEAR"

RiskLevels == {"CLEAR", "CAUTION", "WARNING", "CRITICAL", "COLLISION"}
Risky(risk) == risk \in {"WARNING", "CRITICAL", "COLLISION"}

-----------------------------------------------------------------------------
StateRow(f, risk, avoiding) == [frame |-> f, risk |-> risk, avoiding |-> avoiding]

Persist(f, o, risk) ==
    /\ interactions' = interactions \cup {<<f, o, risk>>}
    /\ UNCHANGED <<near, events, told>>

WasRisky(o) == near[o] # None /\ Risky(near[o].risk)
WasAvoiding(o) == near[o] # None /\ near[o].avoiding
(* Mutant of EnteredRisk: a WARNING that grows is not news.               *)
EnteredCritical(o, risk) == risk \in {"CRITICAL", "COLLISION"} /\ ~WasRisky(o)
EnteredRisk(o, risk) == Risky(risk) /\ ~WasRisky(o)
EnteredAvoidance(o, avoiding) == avoiding /\ ~WasAvoiding(o)
EventType(o, avoiding) ==
    IF EnteredAvoidance(o, avoiding) THEN "OBSTACLE_AVOIDANCE" ELSE "COLLISION_RISK"

(* The event that follows the update of the state, if any.                 *)
News(o, risk, avoiding) ==
    IF EnteredRisk(o, risk) \/ EnteredAvoidance(o, avoiding)
      THEN EventType(o, avoiding) ELSE None

UpdateState(f, o, risk, avoiding) ==
    /\ near' = [near EXCEPT ![o] = StateRow(f, risk, avoiding)]
    /\ told' = [told EXCEPT ![o] =
         IF ~Risky(risk) THEN "calm" ELSE IF ~WasRisky(o) THEN "due" ELSE @]
    /\ UNCHANGED <<interactions, events>>

CreateEvent(f, o, type) ==
    /\ events' = events \cup {<<f, o, type>>}
    /\ told' = [told EXCEPT ![o] = IF @ = "due" THEN "told" ELSE @]
    /\ UNCHANGED <<interactions, near>>

(* A crash, or an insert that fails, loses the event for good.             *)
LoseEvent ==
    /\ told' = [o \in Obstacles |-> IF told[o] = "due" THEN "lost" ELSE told[o]]
    /\ UNCHANGED <<interactions, near, events>>

(* delete_mission and the cascades of its foreign keys.                    *)
NoRows ==
    /\ interactions' = {} /\ events' = {}
    /\ near' = [o \in Obstacles |-> None]
    /\ told' = [o \in Obstacles |-> "calm"]

ObstacleInit ==
    /\ interactions = {} /\ events = {}
    /\ near = [o \in Obstacles |-> None]
    /\ told = [o \in Obstacles |-> "calm"]
=============================================================================
