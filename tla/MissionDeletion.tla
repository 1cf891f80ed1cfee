--------------------------- MODULE MissionDeletion ---------------------------
(* An observer beside AcquisitionStore: which missions were deleted, with  *)
(* every message accepted for them, and were not asked for since.          *)
EXTENDS MCAcquisitionStore

VARIABLE forgotten

observed == <<vars, forgotten>>

(* A retry that awaits before its insert has stored nothing yet: it may    *)
(* take effect after a deletion that happens meanwhile.                    *)
Unsettled(m) == \E t \in Tasks : req[t].step = "retry" /\ req[t].mission = m

Deleted ==
    {m \in Missions : /\ missions[m] # NoMission /\ missions'[m] = NoMission
                      /\ ~Unsettled(m)}

AskedFor ==
    {m \in Missions : \E h \in Handlers :
        req[h] = Idle /\ req'[h] # Idle /\ req'[h].mission = m}

ObservedInit == Init /\ forgotten = {}
ObservedNext == Next /\ forgotten' = (forgotten \cup Deleted) \ AskedFor
ObservedSpec == ObservedInit /\ [][ObservedNext]_observed

(* Deleting a mission is permanent: a mission deleted with all its data    *)
(* does not come back before a client sends something new for it.  It      *)
(* fails: a raw message that was broadcast is normalised afterwards, and   *)
(* its telemetry ensures the mission.                                      *)
DeletionIsPermanent == \A m \in forgotten : missions[m] = NoMission
=============================================================================
