-------------------------- MODULE MissionLifecycle --------------------------
(***************************************************************************)
(* What a mission promises, whatever handlers run at once: it belongs to   *)
(* one vehicle as long as it exists, it moves along PLANNED, RUNNING and a *)
(* terminal status and never back, it takes data only once started, and    *)
(* its data goes only when it is over or deleted.  AcquisitionStore        *)
(* implements this specification.                                          *)
(***************************************************************************)
EXTENDS Naturals

CONSTANTS Vehicles, Missions, None

VARIABLES
    owner,   \* owner[m]   = the vehicle of mission m, None if it is absent
    phase,   \* phase[m]   = its status, "ABSENT" if it is absent
    withData \* the missions for which telemetry or raw messages are stored

lifecycle == <<owner, phase, withData>>

Over == {"COMPLETED", "ABORTED"}
Successors(p) ==
    CASE p = "PLANNED" -> {"RUNNING", "ABORTED"}
      [] p = "RUNNING" -> Over
      [] OTHER -> {}

Init ==
    /\ owner = [m \in Missions |-> None]
    /\ phase = [m \in Missions |-> "ABSENT"]
    /\ withData = {}

(* An operator plans a mission.                                            *)
Plan(m, v) ==
    /\ phase[m] = "ABSENT"
    /\ owner' = [owner EXCEPT ![m] = v]
    /\ phase' = [phase EXCEPT ![m] = "PLANNED"]
    /\ UNCHANGED withData

(* A message of vehicle v for mission m starts it, if it is not started.   *)
Acquire(m, v) ==
    /\ phase[m] = "ABSENT" \/ (phase[m] = "PLANNED" /\ owner[m] = v)
    /\ owner' = [owner EXCEPT ![m] = v]
    /\ phase' = [phase EXCEPT ![m] = "RUNNING"]
    /\ UNCHANGED withData

(* Its data is stored; a mission that is over still takes late data.       *)
Record(m) ==
    /\ phase[m] \in {"RUNNING"} \cup Over
    /\ withData' = withData \cup {m}
    /\ UNCHANGED <<owner, phase>>

Advance(m, p) ==
    /\ p \in Successors(phase[m])
    /\ phase' = [phase EXCEPT ![m] = p]
    /\ UNCHANGED <<owner, withData>>

(* Retention empties some of the missions that are over.                   *)
Purge ==
    /\ \E purged \in SUBSET {m \in Missions : phase[m] \in Over} :
         withData' = withData \ purged
    /\ UNCHANGED <<owner, phase>>

Delete(m) ==
    /\ owner' = [owner EXCEPT ![m] = None]
    /\ phase' = [phase EXCEPT ![m] = "ABSENT"]
    /\ withData' = withData \ {m}

Next ==
    \/ \E m \in Missions :
         \/ Record(m) \/ Delete(m)
         \/ \E v \in Vehicles : Plan(m, v) \/ Acquire(m, v)
         \/ \E p \in Over \cup {"RUNNING"} : Advance(m, p)
    \/ Purge

Spec == Init /\ [][Next]_lifecycle
=============================================================================
