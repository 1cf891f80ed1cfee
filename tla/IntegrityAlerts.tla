---------------------------- MODULE IntegrityAlerts ----------------------------
(***************************************************************************)
(* The data-integrity engine on one stream of one mission: the analysis of *)
(* integrity_service.py, the integrity events and alerts that database.py  *)
(* keeps, and the part of _store_raw in main.py that ties them together.   *)
(*                                                                         *)
(* Analysis, insert and recording run without an await.  If they recorded  *)
(* something, the broadcasts to WebSocket clients may suspend the handler  *)
(* before it resolves the alerts whose checks its message passed; other    *)
(* handlers of the stream run meanwhile.                                   *)
(***************************************************************************)
EXTENDS Integers, Sequences, FiniteSets

CONSTANTS
    Ids,        \* message ids
    Numbers,    \* sequence numbers producers use
    Latencies,  \* signed latencies, in clock units
    Rates,      \* outcomes of the sampling-rate check, see RateOutcomes
    Tasks,      \* handlers of the stream alive at once
    Operations, \* what else happens: operators, crashes
    MaxTime,    \* bound of the clock
    MaxSkew, FutureWarning, WarningLatency, ClockDrift, RateWindow,
    None

RateOutcomes == {"unknown", "healthy", "LOW_SAMPLING_RATE", "HIGH_SAMPLING_RATE"}

ASSUME IntegrityAssumption ==
    /\ Numbers \subseteq Nat /\ Latencies \subseteq Int
    /\ Rates \subseteq RateOutcomes
    /\ Operations \subseteq {"operator", "crash"}
    /\ MaxTime \in Nat /\ RateWindow \in Nat \ {0}
    /\ {MaxSkew, FutureWarning, WarningLatency, ClockDrift} \subseteq Nat
    /\ None \notin {"LOW_SAMPLING_RATE", "HIGH_SAMPLING_RATE", "HIGH_LATENCY",
                    "FUTURE_TIMESTAMP", "CLOCK_DRIFT", "SEQUENCE_GAP",
                    "DUPLICATE_MESSAGE", "OUT_OF_ORDER", "TIMESTAMP_REGRESSION",
                    "AUTOMATIC"}

VARIABLES
    rows,    \* the stored messages of the stream, in the order of receipt
    events,  \* rows of table integrity_events
    alerts,  \* rows of table alerts
    pending, \* pending[t] = the checks handler t's message passed, if it waits
    now,     \* the server clock
    verdict  \* history: the latest outcome of every recoverable check since
             \* the start of the process

vars == <<rows, events, alerts, pending, now, verdict>>

Recoverable == {"LOW_SAMPLING_RATE", "HIGH_SAMPLING_RATE", "HIGH_LATENCY",
                "FUTURE_TIMESTAMP", "CLOCK_DRIFT"}
CheckTypes == Recoverable \cup
    {"SEQUENCE_GAP", "DUPLICATE_MESSAGE", "OUT_OF_ORDER", "TIMESTAMP_REGRESSION"}

(* The dedup key of a finding is <<kind, key>>; a gap also says where the  *)
(* missing range starts.                                                   *)
Finding(type, kind, key, from) ==
    [type |-> type, kind |-> kind, key |-> key, from |-> from]
ByMessage(type, i) == Finding(type, type, i, None)

-----------------------------------------------------------------------------
(* Analysis of a message, before it is inserted.                           *)

Stored(i) == \E j \in 1..Len(rows) : rows[j].id = i
StoredNumbers == {rows[j].number : j \in 1..Len(rows)}
(* Mutant of Highest: the number received last.                            *)
LastNumber == rows[Len(rows)].number
Highest == CHOOSE n \in StoredNumbers : \A k \in StoredNumbers : k <= n
Latest == rows[Len(rows)]

(* Mutant of SequenceFindings: a hole of one number is no gap.             *)
SequenceFindingsLoose(i, n) ==
    IF rows = <<>> THEN {}
    ELSE (IF n \in StoredNumbers
            THEN {Finding("DUPLICATE_MESSAGE", "DUPLICATE_SEQUENCE", i, None)}
            ELSE {})
         \cup (IF n < Highest THEN {ByMessage("OUT_OF_ORDER", i)} ELSE {})
         \cup (IF n > Highest + 2
                 THEN {Finding("SEQUENCE_GAP", "SEQUENCE_GAP", n, Highest + 1)}
                 ELSE {})

SequenceFindings(i, n) ==
    IF rows = <<>> THEN {}
    ELSE (IF n \in StoredNumbers
            THEN {Finding("DUPLICATE_MESSAGE", "DUPLICATE_SEQUENCE", i, None)}
            ELSE {})
         \cup (IF n < Highest THEN {ByMessage("OUT_OF_ORDER", i)} ELSE {})
         \cup (IF n > Highest + 1
                 THEN {Finding("SEQUENCE_GAP", "SEQUENCE_GAP", n, Highest + 1)}
                 ELSE {})

RegressionFindings(i, latency) ==
    IF rows # <<>> /\ now - latency < Latest.timestamp
      THEN {ByMessage("TIMESTAMP_REGRESSION", i)} ELSE {}

(* Latency, future and drift checks are for live messages only, and a      *)
(* message from the future is not checked for its latency.                 *)
Live(latency) == latency <= MaxSkew /\ -latency <= MaxSkew
Ahead(latency) == latency <= -FutureWarning
Drifted(latency) ==
    \/ latency - Latest.latency >= ClockDrift
    \/ Latest.latency - latency >= ClockDrift

(* Mutant of TimingEvaluated: drift is checked for every live message.     *)
TimingEvaluatedDrift(latency) ==
    IF ~Live(latency) THEN {}
    ELSE {"FUTURE_TIMESTAMP"}
           \cup (IF latency >= 0 THEN {"HIGH_LATENCY"} ELSE {})
           \cup (IF rows # <<>> THEN {"CLOCK_DRIFT"} ELSE {})

TimingEvaluated(latency) ==
    IF ~Live(latency) THEN {}
    ELSE IF Ahead(latency) \/ latency < 0 THEN {"FUTURE_TIMESTAMP"}
    ELSE {"FUTURE_TIMESTAMP", "HIGH_LATENCY"}
           \cup (IF rows # <<>> THEN {"CLOCK_DRIFT"} ELSE {})

TimingFaults(latency) ==
    {type \in TimingEvaluated(latency) :
        CASE type = "FUTURE_TIMESTAMP" -> Ahead(latency)
          [] type = "HIGH_LATENCY"     -> latency >= WarningLatency
          [] type = "CLOCK_DRIFT"      -> Drifted(latency)}

(* The measured rate is left open.  Its findings are keyed by time bucket. *)
RateEvaluated(rate) ==
    IF rate = "unknown" THEN {} ELSE {"LOW_SAMPLING_RATE", "HIGH_SAMPLING_RATE"}
RateFindings(rate) ==
    IF rate \in {"unknown", "healthy"} THEN {}
    ELSE {Finding(rate, rate, now \div RateWindow, None)}

Findings(i, n, latency, rate) ==
    SequenceFindings(i, n) \cup RegressionFindings(i, latency)
      \cup {ByMessage(type, i) : type \in TimingFaults(latency)}
      \cup RateFindings(rate)
Evaluated(latency, rate) == TimingEvaluated(latency) \cup RateEvaluated(rate)
Faulty(findings) == {f.type : f \in findings} \cap Recoverable

-----------------------------------------------------------------------------
(* record_integrity_findings and the operations on alerts.                 *)

(* Mutant of Known: the key leaves out the message.                        *)
KnownKind(f) == \E e \in events : e.kind = f.kind
Known(f) == \E e \in events : e.kind = f.kind /\ e.key = f.key
Fresh(findings) == {f \in findings : ~Known(f)}

(* "key" is active_key; "counted" the events in occurrence_count.  The     *)
(* event that opened an alert stands for its id.                           *)
Opened(f) ==
    [type |-> f.type, opener |-> f, key |-> f.type, status |-> "OPEN",
     source |-> None, counted |-> {f}]
(* Mutant of Holder: an acknowledged alert is not looked up.               *)
HolderOpen(type) == {a \in alerts : a.key = type /\ a.status = "OPEN"}
Holder(type) == {a \in alerts : a.key = type}

(* Mutants of Recorded: an active alert counts nothing more; alerts are    *)
(* found by type, resolved or not.                                         *)
RecordedUncounted(findings) ==
    alerts \cup {Opened(f) : f \in {g \in Fresh(findings) : Holder(g.type) = {}}}
RecordedByType(findings) ==
    {[a EXCEPT !.counted = @ \cup {f \in Fresh(findings) : f.type = a.type}] :
        a \in alerts}
    \cup {Opened(f) : f \in {g \in Fresh(findings) :
                               \A a \in alerts : a.type # g.type}}

Recorded(findings) ==
    {[a EXCEPT !.counted = @ \cup {f \in Fresh(findings) : f.type = a.key}] :
        a \in alerts}
    \cup {Opened(f) : f \in {g \in Fresh(findings) : Holder(g.type) = {}}}

Closed(a, source) ==
    [a EXCEPT !.status = "RESOLVED", !.key = None, !.source = source]

(* auto_resolve_recovered_alerts.                                          *)
Recovered(table, healthy) ==
    {IF a.type \in healthy /\ a.status # "RESOLVED"
       THEN Closed(a, "AUTOMATIC") ELSE a : a \in table}

-----------------------------------------------------------------------------
(* A message that is not stored yet: analyse, insert, record, and resolve  *)
(* either at once or, if there was something to broadcast, after an await. *)
Judged(evaluated, faulty) ==
    [type \in Recoverable |->
        IF type \notin evaluated THEN verdict[type]
        ELSE IF type \in faulty THEN "faulty" ELSE "healthy"]

Row(i, n, latency) ==
    [id |-> i, number |-> n, timestamp |-> now - latency,
     latency |-> IF latency < 0 THEN 0 ELSE latency]

Accept(t, i, n, latency, rate) ==
    LET findings == Findings(i, n, latency, rate)
        evaluated == Evaluated(latency, rate)
        healthy == evaluated \ Faulty(findings) IN
    /\ pending[t] = None /\ ~Stored(i)
    /\ rows' = Append(rows, Row(i, n, latency))
    /\ events' = events \cup Fresh(findings)
    /\ verdict' = Judged(evaluated, Faulty(findings))
    /\ \/ /\ alerts' = Recovered(Recorded(findings), healthy)
          /\ UNCHANGED pending
       \/ /\ Fresh(findings) # {}
          /\ alerts' = Recorded(findings)
          /\ pending' = [pending EXCEPT ![t] = healthy]
    /\ UNCHANGED now

(* Mutant of Resume: the handler ends with its broadcasts.                 *)
ResumeUnresolved(t) ==
    /\ pending[t] # None
    /\ pending' = [pending EXCEPT ![t] = None]
    /\ UNCHANGED <<rows, events, alerts, now, verdict>>

Resume(t) ==
    /\ pending[t] # None
    /\ alerts' = Recovered(alerts, pending[t])
    /\ pending' = [pending EXCEPT ![t] = None]
    /\ UNCHANGED <<rows, events, now, verdict>>

(* A message id that is stored already is recorded, then refused.          *)
RejectDuplicate(t, i) ==
    LET findings == {Finding("DUPLICATE_MESSAGE", "DUPLICATE_MESSAGE_ID", i, None)} IN
    /\ pending[t] = None /\ Stored(i)
    /\ events' = events \cup Fresh(findings)
    /\ alerts' = Recorded(findings)
    /\ UNCHANGED <<rows, pending, now, verdict>>

Acknowledge(a) ==
    /\ a.status # "RESOLVED"
    /\ alerts' = (alerts \ {a}) \cup {[a EXCEPT !.status = "ACKNOWLEDGED"]}
    /\ UNCHANGED <<rows, events, pending, now, verdict>>

Resolve(a) ==
    /\ a.status # "RESOLVED"
    /\ alerts' = (alerts \ {a}) \cup {Closed(a, "MANUAL")}
    /\ UNCHANGED <<rows, events, pending, now, verdict>>

Tick ==
    /\ now < MaxTime
    /\ now' = now + 1
    /\ UNCHANGED <<rows, events, alerts, pending, verdict>>

(* A crash loses the handlers and what they evaluated; it may come when a  *)
(* message is stored and its findings are not recorded.                    *)
Crash ==
    /\ pending' = [t \in Tasks |-> None]
    /\ \/ UNCHANGED rows
       \/ \E i \in Ids, n \in Numbers, latency \in Latencies :
            ~Stored(i) /\ rows' = Append(rows, Row(i, n, latency))
    /\ verdict' = [type \in Recoverable |-> "unknown"]
    /\ UNCHANGED <<events, alerts, now>>

-----------------------------------------------------------------------------
Init ==
    /\ rows = <<>> /\ events = {} /\ alerts = {} /\ now = 0
    /\ pending = [t \in Tasks |-> None]
    /\ verdict = [type \in Recoverable |-> "unknown"]

Next ==
    \/ \E t \in Tasks, i \in Ids :
         \/ \E n \in Numbers, latency \in Latencies, rate \in Rates :
              Accept(t, i, n, latency, rate)
         \/ RejectDuplicate(t, i)
    \/ \E t \in Tasks : Resume(t)
    \/ "operator" \in Operations /\ \E a \in alerts : Acknowledge(a) \/ Resolve(a)
    \/ Tick
    \/ "crash" \in Operations /\ Crash

Spec == Init /\ [][Next]_vars

(* A broadcast to a WebSocket ends: the server drops a client that no      *)
(* longer answers its pings.                                               *)
FairSpec == Spec /\ \A t \in Tasks : WF_vars(Resume(t))

-----------------------------------------------------------------------------
FindingType ==
    [type: CheckTypes, kind: CheckTypes \cup {"DUPLICATE_MESSAGE_ID",
                                              "DUPLICATE_SEQUENCE"},
     key: Ids \cup Nat, from: Nat \cup {None}]
AlertRow ==
    [type: CheckTypes, opener: FindingType, key: CheckTypes \cup {None},
     status: {"OPEN", "ACKNOWLEDGED", "RESOLVED"},
     source: {None, "AUTOMATIC", "MANUAL"}, counted: SUBSET events]

(* Events, alerts and handlers keep their types; an alert counts recorded  *)
(* events only.                                                            *)
TypeOK ==
    /\ rows \in Seq([id: Ids, number: Numbers, timestamp: Int, latency: Nat])
    /\ \A e \in events : e \in FindingType
    /\ \A a \in alerts : a \in AlertRow
    /\ pending \in [Tasks -> {None} \cup SUBSET Recoverable]
    /\ now \in 0..MaxTime
    /\ verdict \in [Recoverable -> {"unknown", "healthy", "faulty"}]

(* However messages are interleaved, repeated and recovered, and whatever  *)
(* operators resolve, at most one alert per check is active, and only an   *)
(* active alert holds its key.                                             *)
OneActiveAlert ==
    /\ \A a \in alerts : a.key = IF a.status = "RESOLVED" THEN None ELSE a.type
    /\ \A a, b \in alerts : a.key # None /\ a.key = b.key => a = b

(* Every recorded event is counted by exactly one alert, of its own check. *)
EventsCounted ==
    \A e \in events :
        \E a \in alerts :
            /\ e \in a.counted /\ e.type = a.type
            /\ \A b \in alerts : e \in b.counted => b = a

(* Every hole above the first number of the stream lies in the missing     *)
(* range of a recorded gap, even when late messages moved its edges.       *)
GapsAnnounced ==
    rows # <<>> =>
      \A n \in (rows[1].number)..Highest :
        n \in StoredNumbers
          \/ \E e \in events : e.kind = "SEQUENCE_GAP" /\ n \in e.from..(e.key - 1)

(* Every stored message that came after a higher or an equal number is     *)
(* recorded as out of order or as a reused number.                         *)
DisorderRecorded ==
    \A j \in 1..Len(rows) : \A k \in 1..(j - 1) :
        /\ rows[j].number < rows[k].number =>
             \E e \in events : e.kind = "OUT_OF_ORDER" /\ e.key = rows[j].id
        /\ rows[j].number = rows[k].number =>
             \E e \in events : e.kind = "DUPLICATE_SEQUENCE" /\ e.key = rows[j].id

(* The timing events on record are those of the latencies on record, in    *)
(* the order of receipt, although these are cut at zero: a message is late *)
(* iff its latency is live and reaches the threshold, drifted iff it has   *)
(* left the latency of the message before it, live or not, and neither if  *)
(* it was ahead of the clock.                                              *)
HasEvent(j, type) == \E e \in events : e.kind = type /\ e.key = rows[j].id
Apart(j) ==
    j > 1 /\ \/ rows[j].latency - rows[j - 1].latency >= ClockDrift
             \/ rows[j - 1].latency - rows[j].latency >= ClockDrift
TimingOnRecord ==
    \A j \in 1..Len(rows) :
        /\ HasEvent(j, "HIGH_LATENCY") <=> rows[j].latency \in WarningLatency..MaxSkew
        /\ HasEvent(j, "CLOCK_DRIFT") => rows[j].latency <= MaxSkew /\ Apart(j)
        /\ rows[j].latency \in 1..MaxSkew /\ Apart(j) => HasEvent(j, "CLOCK_DRIFT")
        /\ HasEvent(j, "FUTURE_TIMESTAMP") =>
             rows[j].latency = 0 /\ ~HasEvent(j, "CLOCK_DRIFT")

(* A resolved alert is history: no later finding, acknowledgement or       *)
(* recovery changes it.                                                    *)
ResolvedStays ==
    [][\A a \in alerts : a.status = "RESOLVED" => a \in alerts']_vars

(* When a check fails again after it was healthy, an alert of its type is  *)
(* active: the one that recovered released its key.                        *)
RecurrenceAlerted ==
    [][\A type \in Recoverable :
         verdict[type] = "healthy" /\ verdict'[type] = "faulty" =>
           \E a \in alerts' : a.key = type]_vars

(* A check that is healthy leaves no alert active for ever: the message    *)
(* that passed it resolves the alert once its broadcasts are done, unless  *)
(* a crash loses the handler that waits for them.                          *)
AlertsRecover ==
    \A type \in Recoverable :
        verdict[type] = "healthy"
          ~> verdict[type] # "healthy" \/ \A a \in alerts : a.key # type

(* Not kept.  An alert is resolved automatically only while its check is   *)
(* healthy: fails where handlers overlap, for one that resolves on the     *)
(* strength of a message that another's has overtaken.                     *)
RecoveredIsHealthy ==
    [][\A a \in alerts' :
         a.source = "AUTOMATIC" /\ a \notin alerts
           => verdict'[a.type] = "healthy"]_vars
=============================================================================
