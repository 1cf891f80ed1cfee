---------------------------- MODULE MissionEvents ----------------------------
(***************************************************************************)
(* Mission events: create_event, update_event and delete_event of          *)
(* database.py, run by threadpool handlers.  The first two read in one     *)
(* transaction and write in another; other handlers and the deletion of    *)
(* the mission may come between.                                           *)
(***************************************************************************)
EXTENDS Naturals

CONSTANTS
    Missions, Vehicles,
    Events,  \* event ids, which clients may choose
    Times,   \* timestamps
    Threads, \* handlers alive at once
    Null,    \* SQL NULL, and the absent row
    Unset    \* a field the update does not name

ASSUME EventsAssumption ==
    /\ Times \subseteq Nat
    /\ {Null, Unset} \cap (Missions \cup Vehicles \cup Times) = {}
    /\ Null # Unset

VARIABLES
    owner, \* owner[m] = the vehicle of mission m, Null if there is no such row
    rows,  \* rows[e] = the row of table mission_events, Null if no row
    req    \* req[h] = the write that handler h is about to do, or NoWrite

eventVars == <<owner, rows, req>>

EventRow == [mission: Missions, vehicle: Vehicles,
             start: Times, end: Times \cup {Null}]
NoWrite == [write |-> "nothing"]

(* The fields an update names; the others are unset.                       *)
Changes == [start: Times \cup {Unset}, end: Times \cup {Null, Unset}]
Change(old, new) == IF new = Unset THEN old ELSE new
Ordered(start, end) == end # Null => start <= end

-----------------------------------------------------------------------------
CreateMission(m, v) ==
    /\ owner[m] = Null
    /\ owner' = [owner EXCEPT ![m] = v]
    /\ UNCHANGED <<rows, req>>

(* The mission's events go with it, in the same transaction.               *)
DeleteMission(m) ==
    /\ owner[m] # Null
    /\ owner' = [owner EXCEPT ![m] = Null]
    /\ rows' = [e \in Events |->
         IF rows[e] # Null /\ rows[e].mission = m THEN Null ELSE rows[e]]
    /\ UNCHANGED req

(* create_event, as far as its first transaction.                          *)
CheckEvent(h, e, row) ==
    /\ req[h] = NoWrite
    /\ Ordered(row.start, row.end)
    /\ owner[row.mission] = row.vehicle
    /\ req' = [req EXCEPT ![h] = [write |-> "insert", event |-> e, row |-> row]]
    /\ UNCHANGED <<owner, rows>>

(* Mutant: without the foreign key on missions.                            *)
InsertEventAnyway(h) ==
    LET r == req[h] IN
    /\ r.write = "insert"
    /\ rows' = IF rows[r.event] = Null
                   THEN [rows EXCEPT ![r.event] = r.row] ELSE rows
    /\ req' = [req EXCEPT ![h] = NoWrite]
    /\ UNCHANGED owner

(* The insert fails if the id is taken or the mission is gone.  Vehicles   *)
(* of missions stay registered here, see AcquisitionStore.                 *)
InsertEvent(h) ==
    LET r == req[h] IN
    /\ r.write = "insert"
    /\ rows' = IF rows[r.event] = Null /\ owner[r.row.mission] # Null
                   THEN [rows EXCEPT ![r.event] = r.row] ELSE rows
    /\ req' = [req EXCEPT ![h] = NoWrite]
    /\ UNCHANGED owner

(* The interval as it will be is checked against the row as it was read.   *)
UpdateEvent(h, e, c) ==
    /\ req[h] = NoWrite /\ rows[e] # Null
    /\ Ordered(Change(rows[e].start, c.start), Change(rows[e].end, c.end))
    /\ req' = [req EXCEPT ![h] = [write |-> "update", event |-> e, changes |-> c]]
    /\ UNCHANGED <<owner, rows>>

(* The UPDATE writes the fields that were set, if the row is still there.  *)
WriteEvent(h) ==
    LET r == req[h] IN
    /\ r.write = "update"
    /\ rows' = IF rows[r.event] = Null THEN rows
                 ELSE [rows EXCEPT ![r.event].start = Change(@, r.changes.start),
                                     ![r.event].end = Change(@, r.changes.end)]
    /\ req' = [req EXCEPT ![h] = NoWrite]
    /\ UNCHANGED owner

DeleteEvent(e) ==
    /\ rows[e] # Null
    /\ rows' = [rows EXCEPT ![e] = Null]
    /\ UNCHANGED <<owner, req>>

-----------------------------------------------------------------------------
EventsInit ==
    /\ owner = [m \in Missions |-> Null]
    /\ rows = [e \in Events |-> Null]
    /\ req = [h \in Threads |-> NoWrite]

HandleRequest(h) ==
    \/ \E e \in Events :
         \/ \E row \in EventRow : CheckEvent(h, e, row)
         \/ \E c \in Changes : UpdateEvent(h, e, c)
    \/ InsertEvent(h) \/ WriteEvent(h)

EventsNext ==
    \/ \E h \in Threads : HandleRequest(h)
    \/ \E e \in Events : DeleteEvent(e)
    \/ \E m \in Missions : DeleteMission(m) \/ \E v \in Vehicles : CreateMission(m, v)

EventsSpec == EventsInit /\ [][EventsNext]_eventVars

-----------------------------------------------------------------------------
(* Rows and pending writes have their types; a row always has a start, as  *)
(* its column is NOT NULL.                                                 *)
EventsTypeOK ==
    /\ owner \in [Missions -> Vehicles \cup {Null}]
    /\ rows \in [Events -> EventRow \cup {Null}]
    /\ req \in [Threads -> [write: {"insert"}, event: Events, row: EventRow]
                 \cup [write: {"update"}, event: Events, changes: Changes]
                 \cup {NoWrite}]

(* Every event belongs to a mission that exists, although create_event     *)
(* looks the mission up in an earlier transaction.                         *)
EventsFiled ==
    \A e \in Events : rows[e] # Null => owner[rows[e].mission] # Null

(* An event does not end before it starts, whichever end an update moves.  *)
(* It fails where handlers overlap: two updates of different ends are each *)
(* checked against the row as it was before the other.                     *)
EventInterval ==
    \A e \in Events : rows[e] # Null => Ordered(rows[e].start, rows[e].end)

(* An event is filed under a mission of the vehicle it names, as           *)
(* create_event checks.  It fails: the mission may be deleted and created  *)
(* for another vehicle before the insert.                                  *)
EventVehicleMatches ==
    \A e \in Events :
        rows[e] # Null => owner[rows[e].mission] = rows[e].vehicle
=============================================================================
