------------------------ MODULE IntegrityAlertsProofs ------------------------
(***************************************************************************)
(* Proofs about IntegrityAlerts, for any messages, clocks, handlers,       *)
(* operators and crashes.                                                  *)
(***************************************************************************)
EXTENDS IntegrityAlerts, TLAPS

NumberType == [id: Ids, number: Numbers, timestamp: Int, latency: Nat]
AlertOver(E) ==
    [type: CheckTypes, opener: FindingType, key: CheckTypes \cup {None},
     status: {"OPEN", "ACKNOWLEDGED", "RESOLVED"},
     source: {None, "AUTOMATIC", "MANUAL"}, counted: SUBSET E]

(* A table of alerts that counts the events E: typed, keyed by the checks  *)
(* of its active alerts, and each event with an alert of its own.          *)
Keyed(T) ==
    /\ \A a \in T : a.key = IF a.status = "RESOLVED" THEN None ELSE a.type
    /\ \A a, b \in T : a.key # None /\ a.key = b.key => a = b
Counting(T, E) ==
    /\ \A a \in T : \A e \in a.counted : e.type = a.type
    /\ \A a, b \in T : \A e \in a.counted : e \in b.counted => a = b
    /\ \A e \in E : \E a \in T : e \in a.counted
AlertsOK(T, E) == T \subseteq AlertOver(E) /\ Keyed(T) /\ Counting(T, E)

LEMMA NoneIsNoCheck == None \notin CheckTypes
BY IntegrityAssumption DEF CheckTypes, Recoverable

-----------------------------------------------------------------------------
(* Resolving some alerts, by recovery or by an operator, leaves a table of *)
(* alerts.                                                                 *)
LEMMA ClosedAlert ==
    ASSUME NEW E, NEW a \in AlertOver(E), NEW source \in {"AUTOMATIC", "MANUAL"}
    PROVE  /\ Closed(a, source) \in AlertOver(E)
           /\ Closed(a, source).counted = a.counted /\ Closed(a, source).type = a.type
           /\ Closed(a, source).key = None /\ Closed(a, source).status = "RESOLVED"
BY DEF Closed, AlertOver

(* A table whose alerts are changed one by one, each keeping its check and *)
(* its events, and its key or giving it up.                                *)
LEMMA ChangedTable ==
    ASSUME NEW E, NEW T, AlertsOK(T, E), NEW F,
           \A a \in T : /\ F[a] \in AlertOver(E)
                        /\ F[a].counted = a.counted /\ F[a].type = a.type
                        /\ \/ F[a].key = None /\ F[a].status = "RESOLVED"
                           \/ F[a].key = a.key /\ F[a].key # None
                              /\ F[a].status # "RESOLVED"
                           \/ F[a] = a
    PROVE  AlertsOK({F[a] : a \in T}, E)
<1> DEFINE U == {F[a] : a \in T}
<1>1. U \subseteq AlertOver(E)
  OBVIOUS
<1>2. ASSUME NEW a \in T
      PROVE  F[a].key = IF F[a].status = "RESOLVED" THEN None ELSE F[a].type
  BY <1>2 DEF AlertsOK, Keyed
<1>3. ASSUME NEW a \in T, NEW b \in T, F[a].key # None, F[a].key = F[b].key
      PROVE  F[a] = F[b]
  BY <1>3 DEF AlertsOK, Keyed
<1>4. Keyed(U)
  BY <1>2, <1>3 DEF Keyed
<1>5. Counting(U, E)
  <2>1. \A a \in T : \A e \in F[a].counted : e.type = F[a].type
    BY DEF AlertsOK, Counting
  <2>2. \A a, b \in T : \A e \in F[a].counted : e \in F[b].counted => F[a] = F[b]
    BY DEF AlertsOK, Counting
  <2>3. \A e \in E : \E a \in T : e \in F[a].counted
    BY DEF AlertsOK, Counting
  <2> QED BY <2>1, <2>2, <2>3 DEF Counting
<1> QED BY <1>1, <1>4, <1>5 DEF AlertsOK

LEMMA RecoveredOK ==
    ASSUME NEW E, NEW T, AlertsOK(T, E), NEW healthy
    PROVE  AlertsOK(Recovered(T, healthy), E)
<1> DEFINE F == [a \in T |-> IF a.type \in healthy /\ a.status # "RESOLVED"
                               THEN Closed(a, "AUTOMATIC") ELSE a]
<1>1. Recovered(T, healthy) = {F[a] : a \in T}
  BY DEF Recovered
<1>2. ASSUME NEW a \in T
      PROVE  /\ F[a] \in AlertOver(E) /\ F[a].counted = a.counted /\ F[a].type = a.type
             /\ (F[a].key = None /\ F[a].status = "RESOLVED") \/ F[a] = a
  BY <1>2, ClosedAlert DEF AlertsOK
<1> HIDE DEF F
<1> QED BY <1>1, <1>2, ChangedTable

LEMMA ReplacedOK ==
    ASSUME NEW E, NEW T, AlertsOK(T, E), NEW a \in T, NEW b \in AlertOver(E),
           b.counted = a.counted, b.type = a.type,
           \/ b.key = None /\ b.status = "RESOLVED"
           \/ b.key = a.key /\ b.key # None /\ b.status # "RESOLVED"
    PROVE  AlertsOK((T \ {a}) \cup {b}, E)
<1> DEFINE F == [c \in T |-> IF c = a THEN b ELSE c]
<1>1. (T \ {a}) \cup {b} = {F[c] : c \in T}
  OBVIOUS
<1>2. \A c \in T : /\ F[c] \in AlertOver(E) /\ F[c].counted = c.counted /\ F[c].type = c.type
                   /\ \/ F[c].key = None /\ F[c].status = "RESOLVED"
                      \/ F[c].key = c.key /\ F[c].key # None /\ F[c].status # "RESOLVED"
                      \/ F[c] = c
  BY DEF AlertsOK
<1> HIDE DEF F
<1> QED BY <1>1, <1>2, ChangedTable

-----------------------------------------------------------------------------
(* Recording findings of distinct checks counts each fresh one with the    *)
(* alert that holds its key, or with a new one.                            *)
Distinct(findings) == \A f, g \in findings : f.type = g.type => f = g

LEMMA RecordedOK ==
    ASSUME AlertsOK(alerts, events), NEW findings \in SUBSET FindingType, Distinct(findings)
    PROVE  AlertsOK(Recorded(findings), events \cup Fresh(findings))
<1> DEFINE fresh == Fresh(findings)
           E == events \cup fresh
           More(a) == [a EXCEPT !.counted = @ \cup {f \in fresh : f.type = a.key}]
           Old == {More(a) : a \in alerts}
           unheld == {g \in fresh : Holder(g.type) = {}}
           New == {Opened(f) : f \in unheld}
<1>1. Recorded(findings) = Old \cup New
  BY DEF Recorded
<1>2. fresh \subseteq FindingType /\ Distinct(fresh) /\ fresh \cap events = {}
  BY DEF Fresh, Known, Distinct
<1>3. ASSUME NEW a \in alerts
      PROVE  /\ More(a) \in AlertOver(E)
             /\ More(a).counted = a.counted \cup {f \in fresh : f.type = a.key}
             /\ More(a).key = a.key /\ More(a).status = a.status /\ More(a).type = a.type
             /\ a.counted \subseteq events
  BY <1>3 DEF AlertsOK, AlertOver
<1>4. ASSUME NEW f \in unheld
      PROVE  /\ Opened(f) \in AlertOver(E) /\ Opened(f).counted = {f} /\ Opened(f).status = "OPEN"
             /\ Opened(f).type = f.type /\ Opened(f).key = f.type
             /\ f.type \in CheckTypes /\ \A a \in alerts : a.key # f.type
  <2>1. f \in FindingType /\ f \in fresh
    BY <1>2, <1>4
  <2>2. f.type \in CheckTypes
    BY <2>1 DEF FindingType
  <2>3. \A a \in alerts : a.key # f.type
    BY <1>4 DEF Holder
  <2> QED BY <2>1, <2>2, <2>3 DEF Opened, AlertOver
<1> HIDE DEF fresh, More, unheld
<1>5. Old \cup New \subseteq AlertOver(E)
  <2>1. \A a \in alerts : More(a) \in AlertOver(E)
    BY <1>3
  <2>2. \A f \in unheld : Opened(f) \in AlertOver(E)
    BY <1>4
  <2> QED BY <2>1, <2>2
<1>6. Keyed(Old \cup New)
  <2>1. \A a \in Old \cup New : a.key = IF a.status = "RESOLVED" THEN None ELSE a.type
    BY <1>3, <1>4 DEF AlertsOK, Keyed
  <2>2. ASSUME NEW a \in alerts, NEW b \in alerts, More(a).key # None, More(a).key = More(b).key
        PROVE  a = b
    BY <1>3, <2>2 DEF AlertsOK, Keyed
  <2>3. ASSUME NEW a \in alerts, NEW f \in unheld PROVE More(a).key # Opened(f).key
    BY <1>3, <1>4, <2>3
  <2>4. ASSUME NEW f \in unheld, NEW g \in unheld, f.type = g.type PROVE f = g
    BY <1>2, <2>4 DEF unheld, Distinct
  <2>5. ASSUME NEW a \in Old \cup New, NEW b \in Old \cup New, a.key # None, a.key = b.key
        PROVE  a = b
    BY <1>4, <2>2, <2>3, <2>4, <2>5
  <2> QED BY <2>1, <2>5 DEF Keyed
<1>7. Counting(Old \cup New, E)
  <2>1. \A a \in Old \cup New : \A e \in a.counted : e.type = a.type
    <3>1. ASSUME NEW a \in alerts, NEW e \in More(a).counted PROVE e.type = a.type
      <4>1. CASE e \in a.counted
        BY <4>1 DEF AlertsOK, Counting
      <4>2. CASE e \in fresh /\ e.type = a.key
        <5>1. e.type \in CheckTypes
          BY <1>2, <4>2 DEF FindingType
        <5> QED BY <4>2, <5>1, NoneIsNoCheck DEF AlertsOK, Keyed
      <4> QED BY <1>3, <3>1, <4>1, <4>2
    <3> QED BY <1>3, <1>4, <3>1
  <2>2. ASSUME NEW a \in alerts, NEW b \in alerts, NEW e \in More(a).counted, e \in More(b).counted
        PROVE  a = b
    <3>1. CASE e \in a.counted
      <4>1. e \in b.counted
        BY <1>2, <1>3, <2>2, <3>1
      <4> QED BY <3>1, <4>1 DEF AlertsOK, Counting
    <3>2. CASE e \notin a.counted
      <4>1. e \in fresh /\ e.type = a.key
        BY <1>3, <2>2, <3>2
      <4>2. e \notin b.counted
        BY <1>2, <1>3, <4>1
      <4>3. e.type = b.key
        BY <1>3, <2>2, <4>2
      <4>4. e.type # None
        BY <1>2, <4>1, NoneIsNoCheck DEF FindingType
      <4> QED BY <4>1, <4>3, <4>4 DEF AlertsOK, Keyed
    <3> QED BY <3>1, <3>2
  <2>3. ASSUME NEW a \in alerts, NEW f \in unheld PROVE f \notin More(a).counted
    BY <1>2, <1>3, <1>4, <2>3 DEF unheld
  <2>4. \A a, b \in Old \cup New : \A e \in a.counted : e \in b.counted => a = b
    <3> SUFFICES ASSUME NEW a \in Old \cup New, NEW b \in Old \cup New,
                        NEW e \in a.counted, e \in b.counted
                 PROVE  a = b
      OBVIOUS
    <3>1. CASE a \in Old /\ b \in Old
      BY <2>2, <3>1
    <3>2. CASE a \in Old /\ b \in New
      BY <1>4, <2>3, <3>2
    <3>3. CASE a \in New /\ b \in Old
      BY <1>4, <2>3, <3>3
    <3>4. CASE a \in New /\ b \in New
      BY <1>4, <3>4
    <3> QED BY <3>1, <3>2, <3>3, <3>4
  <2>5. ASSUME NEW e \in E PROVE \E a \in Old \cup New : e \in a.counted
    <3>1. CASE e \in events
      <4>1. PICK a \in alerts : e \in a.counted
        BY <3>1 DEF AlertsOK, Counting
      <4> QED BY <1>3, <4>1
    <3>2. CASE e \in fresh /\ e \in unheld
      BY <1>4, <3>2
    <3>3. CASE e \in fresh /\ e \notin unheld
      <4>1. PICK a \in alerts : a.key = e.type
        BY <3>3 DEF unheld, Holder
      <4> QED BY <1>3, <3>3, <4>1
    <3> QED BY <2>5, <3>1, <3>2, <3>3
  <2> QED BY <2>1, <2>4, <2>5 DEF Counting
<1> QED BY <1>1, <1>5, <1>6, <1>7 DEF AlertsOK, fresh

-----------------------------------------------------------------------------
(* The highest stored number: there is one as soon as a message is stored. *)
HasHighest ==
    rows # <<>> => \E n \in StoredNumbers : \A k \in StoredNumbers : k <= n

LEMMA RowAt ==
    ASSUME TypeOK, NEW j \in 1..Len(rows)
    PROVE  rows[j] \in NumberType /\ rows[j].number \in Numbers
<1>1. rows \in Seq(NumberType)
  BY DEF TypeOK, NumberType
<1>2. rows[j] \in NumberType
  BY <1>1
<1> QED BY <1>2 DEF NumberType

LEMMA StoredInNumbers == TypeOK => StoredNumbers \subseteq Numbers
BY RowAt DEF StoredNumbers

LEMMA HighestIs ==
    ASSUME TypeOK, HasHighest, rows # <<>>
    PROVE  Highest \in StoredNumbers /\ Highest \in Nat /\ \A k \in StoredNumbers : k <= Highest
<1>1. Highest \in StoredNumbers /\ \A k \in StoredNumbers : k <= Highest
  BY DEF HasHighest, Highest
<1>2. StoredNumbers \subseteq Numbers
  BY StoredInNumbers
<1> QED BY <1>1, <1>2, IntegrityAssumption

LEMMA RowType ==
    ASSUME TypeOK, NEW i \in Ids, NEW n \in Numbers, NEW latency \in Latencies
    PROVE  Row(i, n, latency) \in NumberType /\ Row(i, n, latency).number = n
           /\ Row(i, n, latency).id = i
<1>1. latency \in Int /\ now \in Int /\ -latency \in Int
  BY IntegrityAssumption DEF TypeOK
<1>2. (IF latency < 0 THEN 0 ELSE latency) \in Nat
  BY <1>1
<1> QED BY <1>1, <1>2 DEF Row, NumberType

LEMMA AppendedRow ==
    ASSUME TypeOK, HasHighest, NEW r \in NumberType, rows' = Append(rows, r)
    PROVE  /\ rows' \in Seq(NumberType) /\ rows' # <<>> /\ Len(rows') = Len(rows) + 1
           /\ \A j \in 1..Len(rows) : rows'[j] = rows[j]
           /\ rows'[Len(rows) + 1] = r
           /\ StoredNumbers' = StoredNumbers \cup {r.number}
           /\ HasHighest'
<1>0. rows \in Seq(NumberType)
  BY DEF TypeOK, NumberType
<1>1. /\ rows' \in Seq(NumberType) /\ rows' # <<>> /\ Len(rows') = Len(rows) + 1
      /\ \A j \in 1..Len(rows) : rows'[j] = rows[j]
      /\ rows'[Len(rows) + 1] = r
  BY <1>0
<1>2. StoredNumbers' = StoredNumbers \cup {r.number}
  <2>1. Len(rows) \in Nat /\ 1..Len(rows') = (1..Len(rows)) \cup {Len(rows) + 1}
    BY <1>0, <1>1
  <2>2. StoredNumbers' = {rows'[j].number : j \in 1..Len(rows')}
    BY DEF StoredNumbers
  <2> QED BY <1>1, <2>1, <2>2 DEF StoredNumbers
<1>3. HasHighest'
  <2>1. r.number \in Nat /\ StoredNumbers \subseteq Nat
    <3>1. r.number \in Numbers /\ StoredNumbers \subseteq Numbers
      BY StoredInNumbers DEF NumberType
    <3> QED BY <3>1, IntegrityAssumption
  <2>2. CASE rows = <<>>
    <3>1. StoredNumbers = {}
      BY <2>2 DEF StoredNumbers
    <3> QED BY <1>2, <2>1, <3>1 DEF HasHighest
  <2>3. CASE rows # <<>>
    <3>1. PICK n \in StoredNumbers : \A k \in StoredNumbers : k <= n
      BY <2>3 DEF HasHighest
    <3>2. CASE n <= r.number
      <4>1. r.number \in StoredNumbers' /\ \A k \in StoredNumbers' : k <= r.number
        BY <1>2, <2>1, <3>1, <3>2
      <4> QED BY <4>1 DEF HasHighest
    <3>3. CASE ~(n <= r.number)
      <4>1. n \in StoredNumbers' /\ \A k \in StoredNumbers' : k <= n
        BY <1>2, <2>1, <3>1, <3>3
      <4> QED BY <4>1 DEF HasHighest
    <3> QED BY <3>2, <3>3
  <2> QED BY <2>2, <2>3
<1> QED BY <1>1, <1>2, <1>3

-----------------------------------------------------------------------------
(* What the analysis of a message finds.                                   *)
LEMMA FindingTyped ==
    ASSUME NEW type \in CheckTypes,
           NEW kind \in CheckTypes \cup {"DUPLICATE_MESSAGE_ID", "DUPLICATE_SEQUENCE"},
           NEW key \in Ids \cup Nat, NEW from \in Nat \cup {None}
    PROVE  Finding(type, kind, key, from) \in FindingType
BY DEF Finding, FindingType

LEMMA Quotient ==
    ASSUME NEW a \in Nat, NEW b \in Nat, b > 0
    PROVE  a \div b \in Nat
OBVIOUS

LEMMA FindingsOK ==
    ASSUME TypeOK, HasHighest, NEW i \in Ids, NEW n \in Numbers,
           NEW latency \in Latencies, NEW rate \in Rates
    PROVE  Findings(i, n, latency, rate) \subseteq FindingType
           /\ Distinct(Findings(i, n, latency, rate))
<1>1. /\ SequenceFindings(i, n) \subseteq FindingType
      /\ \A f \in SequenceFindings(i, n) :
           f.type \in {"DUPLICATE_MESSAGE", "OUT_OF_ORDER", "SEQUENCE_GAP"}
      /\ Distinct(SequenceFindings(i, n))
  <2>1. CASE rows = <<>>
    BY <2>1 DEF SequenceFindings, Distinct
  <2>2. CASE rows # <<>>
    <3>1. Highest + 1 \in Nat /\ n \in Nat
      BY <2>2, HighestIs, IntegrityAssumption
    <3> DEFINE d == Finding("DUPLICATE_MESSAGE", "DUPLICATE_SEQUENCE", i, None)
               o == ByMessage("OUT_OF_ORDER", i)
               g == Finding("SEQUENCE_GAP", "SEQUENCE_GAP", n, Highest + 1)
    <3>2. {d, o, g} \subseteq FindingType
      BY <3>1, FindingTyped DEF CheckTypes, ByMessage
    <3>3. /\ d.type = "DUPLICATE_MESSAGE" /\ o.type = "OUT_OF_ORDER"
          /\ g.type = "SEQUENCE_GAP"
      BY DEF Finding, ByMessage
    <3>4. SequenceFindings(i, n) \subseteq {d, o, g}
      BY <2>2 DEF SequenceFindings
    <3> HIDE DEF d, o, g
    <3> QED BY <3>2, <3>3, <3>4 DEF Distinct
  <2> QED BY <2>1, <2>2
<1>2. /\ RegressionFindings(i, latency) \subseteq {ByMessage("TIMESTAMP_REGRESSION", i)}
      /\ ByMessage("TIMESTAMP_REGRESSION", i) \in FindingType
      /\ ByMessage("TIMESTAMP_REGRESSION", i).type = "TIMESTAMP_REGRESSION"
  BY FindingTyped DEF RegressionFindings, CheckTypes, ByMessage, Finding
<1>3. TimingFaults(latency) \subseteq {"FUTURE_TIMESTAMP", "HIGH_LATENCY", "CLOCK_DRIFT"}
  BY DEF TimingFaults, TimingEvaluated
<1>4. \A type \in TimingFaults(latency) :
         ByMessage(type, i) \in FindingType /\ ByMessage(type, i).type = type
  BY <1>3, FindingTyped DEF CheckTypes, Recoverable, ByMessage, Finding
<1>5. \/ RateFindings(rate) = {}
      \/ /\ rate \in {"LOW_SAMPLING_RATE", "HIGH_SAMPLING_RATE"}
         /\ RateFindings(rate) = {Finding(rate, rate, now \div RateWindow, None)}
         /\ Finding(rate, rate, now \div RateWindow, None) \in FindingType
         /\ Finding(rate, rate, now \div RateWindow, None).type = rate
  <2>1. now \div RateWindow \in Nat
    <3>1. now \in Nat /\ RateWindow \in Nat /\ RateWindow > 0
      BY IntegrityAssumption DEF TypeOK
    <3> QED BY <3>1, Quotient
  <2>2. rate \in RateOutcomes
    BY IntegrityAssumption
  <2> QED BY <2>1, <2>2, FindingTyped
        DEF RateFindings, RateOutcomes, CheckTypes, Recoverable, Finding
<1> DEFINE S == SequenceFindings(i, n)
           R == RegressionFindings(i, latency)
           T == {ByMessage(type, i) : type \in TimingFaults(latency)}
           H == RateFindings(rate)
<1>6. Findings(i, n, latency, rate) = S \cup R \cup T \cup H
  BY DEF Findings
<1>7. S \cup R \cup T \cup H \subseteq FindingType
  BY <1>1, <1>2, <1>4, <1>5
<1>8. Distinct(T) /\ \A f \in T : f.type \in {"FUTURE_TIMESTAMP", "HIGH_LATENCY", "CLOCK_DRIFT"}
  BY <1>3, <1>4 DEF Distinct
<1>9. Distinct(R) /\ \A f \in R : f.type = "TIMESTAMP_REGRESSION"
  BY <1>2 DEF Distinct
<1>10. Distinct(H) /\ \A f \in H : f.type \in {"LOW_SAMPLING_RATE", "HIGH_SAMPLING_RATE"}
  BY <1>5 DEF Distinct
<1> HIDE DEF S, R, T, H
<1>11. Distinct(S \cup R \cup T \cup H)
  BY <1>1, <1>8, <1>9, <1>10 DEF Distinct, S
<1> QED BY <1>6, <1>7, <1>11

LEMMA DuplicateOK ==
    ASSUME NEW i \in Ids
    PROVE  LET F == {Finding("DUPLICATE_MESSAGE", "DUPLICATE_MESSAGE_ID", i, None)}
           IN  F \subseteq FindingType /\ Distinct(F)
BY FindingTyped DEF CheckTypes, Distinct

-----------------------------------------------------------------------------
(* The inductive invariant: the alerts and the events fit together, and a  *)
(* stream that has messages has a highest number.                          *)
Inv == TypeOK /\ HasHighest /\ AlertsOK(alerts, events)

LEMMA InitInv == Init => Inv
<1> SUFFICES ASSUME Init PROVE Inv
  OBVIOUS
<1>1. TypeOK
  BY IntegrityAssumption DEF Init, TypeOK
<1>2. HasHighest /\ AlertsOK(alerts, events)
  BY DEF Init, HasHighest, AlertsOK, Keyed, Counting
<1> QED BY <1>1, <1>2 DEF Inv

LEMMA AcceptInv ==
    ASSUME Inv, NEW t \in Tasks, NEW i \in Ids, NEW n \in Numbers,
           NEW latency \in Latencies, NEW rate \in Rates, Accept(t, i, n, latency, rate)
    PROVE  Inv'
<1> DEFINE F == Findings(i, n, latency, rate)
           healthy == Evaluated(latency, rate) \ Faulty(F)
<1>1. F \in SUBSET FindingType /\ Distinct(F)
  BY FindingsOK DEF Inv
<1>2. events' = events \cup Fresh(F) /\ Fresh(F) \subseteq FindingType
  BY <1>1 DEF Accept, Fresh
<1>3. AlertsOK(Recorded(F), events')
  BY <1>1, <1>2, RecordedOK DEF Inv
<1>4. AlertsOK(alerts', events')
  <2>1. AlertsOK(Recovered(Recorded(F), healthy), events')
    BY <1>3, RecoveredOK
  <2>2. alerts' = Recovered(Recorded(F), healthy) \/ alerts' = Recorded(F)
    BY DEF Accept
  <2> QED BY <1>3, <2>1, <2>2
<1>5. rows' \in Seq(NumberType) /\ HasHighest'
  <2>1. rows' = Append(rows, Row(i, n, latency))
    BY DEF Accept
  <2> QED BY <2>1, RowType, AppendedRow DEF Inv
<1>6. healthy \subseteq Recoverable
  <2>1. TimingEvaluated(latency) \subseteq Recoverable
    BY DEF TimingEvaluated, Recoverable
  <2>2. RateEvaluated(rate) \subseteq Recoverable
    BY DEF RateEvaluated, Recoverable
  <2> QED BY <2>1, <2>2 DEF Evaluated
<1>7. pending' \in [Tasks -> {None} \cup SUBSET Recoverable]
  <2>1. pending' = pending \/ pending' = [pending EXCEPT ![t] = healthy]
    BY DEF Accept
  <2>2. pending \in [Tasks -> {None} \cup SUBSET Recoverable]
    BY DEF Inv, TypeOK
  <2> HIDE DEF healthy
  <2> QED BY <1>6, <2>1, <2>2
<1>8. verdict' \in [Recoverable -> {"unknown", "healthy", "faulty"}]
  BY DEF Inv, TypeOK, Accept, Judged
<1>9. now' \in 0..MaxTime
  BY DEF Inv, TypeOK, Accept
<1>10. TypeOK'
  <2>1. \A a \in alerts' : a \in AlertRow'
    BY <1>4 DEF AlertsOK, AlertOver, AlertRow
  <2>2. \A e \in events' : e \in FindingType
    BY <1>2 DEF Inv, TypeOK
  <2> QED BY <1>5, <1>7, <1>8, <1>9, <2>1, <2>2 DEF TypeOK, NumberType, FindingType
<1> QED BY <1>4, <1>5, <1>10 DEF Inv

LEMMA RejectInv ==
    ASSUME Inv, NEW t \in Tasks, NEW i \in Ids, RejectDuplicate(t, i)
    PROVE  Inv'
<1> DEFINE F == {Finding("DUPLICATE_MESSAGE", "DUPLICATE_MESSAGE_ID", i, None)}
<1>1. F \in SUBSET FindingType /\ Distinct(F)
  BY DuplicateOK
<1>2. /\ events' = events \cup Fresh(F) /\ Fresh(F) \subseteq FindingType
      /\ alerts' = Recorded(F) /\ UNCHANGED <<rows, pending, now, verdict>>
  BY <1>1 DEF RejectDuplicate, Fresh
<1>3. AlertsOK(alerts', events')
  BY <1>1, <1>2, RecordedOK DEF Inv
<1>4. \A a \in alerts' : a \in AlertRow'
  BY <1>3 DEF AlertsOK, AlertOver, AlertRow
<1>5. \A e \in events' : e \in FindingType
  BY <1>2 DEF Inv, TypeOK
<1>6. TypeOK'
  BY <1>2, <1>4, <1>5 DEF Inv, TypeOK, FindingType
<1>7. HasHighest'
  BY <1>2 DEF Inv, HasHighest, StoredNumbers
<1> QED BY <1>3, <1>6, <1>7 DEF Inv

(* The steps that change the alerts only.                                  *)
LEMMA AlertsOnlyInv ==
    ASSUME Inv, AlertsOK(alerts', events), UNCHANGED <<rows, events, now, verdict>>,
           pending' \in [Tasks -> {None} \cup SUBSET Recoverable]
    PROVE  Inv'
<1>1. \A a \in alerts' : a \in AlertRow'
  BY DEF AlertsOK, AlertOver, AlertRow
<1>2. TypeOK'
  BY <1>1 DEF Inv, TypeOK, FindingType
<1>3. HasHighest'
  BY DEF Inv, HasHighest, StoredNumbers
<1> QED BY <1>2, <1>3 DEF Inv

LEMMA CrashInv == Inv /\ Crash => Inv'
<1> SUFFICES ASSUME Inv, Crash PROVE Inv'
  OBVIOUS
<1>1. rows' \in Seq(NumberType) /\ HasHighest'
  <2>1. CASE UNCHANGED rows
    BY <2>1 DEF Inv, TypeOK, NumberType, HasHighest, StoredNumbers
  <2>2. ASSUME NEW i \in Ids, NEW n \in Numbers, NEW latency \in Latencies,
               rows' = Append(rows, Row(i, n, latency))
        PROVE  rows' \in Seq(NumberType) /\ HasHighest'
    BY <2>2, RowType, AppendedRow DEF Inv
  <2> QED BY <2>1, <2>2 DEF Crash
<1>2. /\ events' = events /\ alerts' = alerts /\ now' = now
      /\ pending' \in [Tasks -> {None} \cup SUBSET Recoverable]
      /\ verdict' \in [Recoverable -> {"unknown", "healthy", "faulty"}]
  BY DEF Crash
<1>3. \A a \in alerts' : a \in AlertRow'
  BY <1>2 DEF Inv, TypeOK, AlertRow
<1>4. TypeOK'
  BY <1>1, <1>2, <1>3 DEF Inv, TypeOK, NumberType, FindingType
<1> QED BY <1>1, <1>2, <1>4 DEF Inv

LEMMA NextInv == Inv /\ [Next]_vars => Inv'
<1> SUFFICES ASSUME Inv, [Next]_vars PROVE Inv'
  OBVIOUS
<1>1. ASSUME NEW t \in Tasks, Resume(t) PROVE Inv'
  <2>1. AlertsOK(alerts', events)
    BY <1>1, RecoveredOK DEF Inv, Resume
  <2>2. pending' \in [Tasks -> {None} \cup SUBSET Recoverable]
    BY <1>1 DEF Resume, Inv, TypeOK
  <2> QED BY <1>1, <2>1, <2>2, AlertsOnlyInv DEF Resume
<1>2. ASSUME NEW a \in alerts, Acknowledge(a) PROVE Inv'
  <2>1. a \in AlertOver(events) /\ a.key # None /\ a.status # "RESOLVED"
    BY <1>2, NoneIsNoCheck DEF Inv, AlertsOK, Keyed, Acknowledge, AlertOver
  <2> DEFINE b == [a EXCEPT !.status = "ACKNOWLEDGED"]
  <2>2. /\ b \in AlertOver(events) /\ b.counted = a.counted /\ b.type = a.type
        /\ b.key = a.key /\ b.status # "RESOLVED"
    BY <2>1 DEF AlertOver
  <2>3. alerts' = (alerts \ {a}) \cup {b} /\ UNCHANGED <<rows, events, pending, now, verdict>>
    BY <1>2 DEF Acknowledge
  <2> HIDE DEF b
  <2>4. AlertsOK(alerts', events)
    BY <2>1, <2>2, <2>3, ReplacedOK DEF Inv
  <2> QED BY <2>3, <2>4, AlertsOnlyInv DEF Inv, TypeOK
<1>3. ASSUME NEW a \in alerts, Resolve(a) PROVE Inv'
  <2>1. a \in AlertOver(events)
    BY DEF Inv, AlertsOK
  <2>2. /\ Closed(a, "MANUAL") \in AlertOver(events)
        /\ Closed(a, "MANUAL").counted = a.counted /\ Closed(a, "MANUAL").type = a.type
        /\ Closed(a, "MANUAL").key = None /\ Closed(a, "MANUAL").status = "RESOLVED"
    BY <2>1, ClosedAlert
  <2>3. alerts' = (alerts \ {a}) \cup {Closed(a, "MANUAL")}
        /\ UNCHANGED <<rows, events, pending, now, verdict>>
    BY <1>3 DEF Resolve
  <2>4. AlertsOK(alerts', events)
    BY <2>2, <2>3, ReplacedOK DEF Inv
  <2> QED BY <2>3, <2>4, AlertsOnlyInv DEF Inv, TypeOK
<1>4. CASE Tick
  <2>1. now' \in 0..MaxTime /\ UNCHANGED <<rows, events, alerts, pending, verdict>>
    BY <1>4, IntegrityAssumption DEF Tick, Inv, TypeOK
  <2>2. HasHighest' /\ AlertsOK(alerts', events')
    BY <2>1 DEF Inv, HasHighest, StoredNumbers
  <2>3. \A a \in alerts' : a \in AlertRow'
    BY <2>2 DEF AlertsOK, AlertOver, AlertRow
  <2>4. TypeOK'
    BY <2>1, <2>3 DEF Inv, TypeOK, FindingType
  <2> QED BY <2>2, <2>4 DEF Inv
<1>5. CASE UNCHANGED vars
  BY <1>5 DEF vars, Inv, TypeOK, HasHighest, StoredNumbers, FindingType, AlertRow
<1> QED BY <1>1, <1>2, <1>3, <1>4, <1>5, AcceptInv, RejectInv, CrashInv DEF Next

-----------------------------------------------------------------------------
(* Rows, events, alerts and waiting handlers keep their types, in every    *)
(* behaviour of the engine.                                                *)
THEOREM TypeCorrect == Spec => []TypeOK
<1>1. Inv => TypeOK
  BY DEF Inv
<1> QED BY <1>1, InitInv, NextInv, PTL DEF Spec

THEOREM InvHolds == Spec => []Inv
BY InitInv, NextInv, PTL DEF Spec

(* However handlers interleave, operators act and the process dies, at     *)
(* most one alert of a check is active.                                    *)
THEOREM AlertsUnique == Spec => []OneActiveAlert
<1>1. Inv => OneActiveAlert
  BY DEF Inv, AlertsOK, Keyed, OneActiveAlert
<1> QED BY <1>1, InvHolds, PTL

(* Every recorded event is counted by one alert, once.                     *)
THEOREM EventsCountedOnce == Spec => []EventsCounted
<1>1. Inv => EventsCounted
  <2> SUFFICES ASSUME Inv, NEW e \in events
               PROVE  \E a \in alerts : /\ e \in a.counted /\ e.type = a.type
                                        /\ \A b \in alerts : e \in b.counted => b = a
    BY DEF EventsCounted
  <2>1. PICK a \in alerts : e \in a.counted
    BY DEF Inv, AlertsOK, Counting
  <2> QED BY <2>1 DEF Inv, AlertsOK, Counting
<1> QED BY <1>1, InvHolds, PTL

(* A step leaves a resolved alert as it is.                                *)
LEMMA ResolvedUntouched ==
    ASSUME Inv, [Next]_vars, NEW a \in alerts, a.status = "RESOLVED"
    PROVE  a \in alerts'
<1>1. a.key = None /\ a \in AlertOver(events)
  BY DEF Inv, AlertsOK, Keyed
<1>2. ASSUME NEW T, a \in T, NEW healthy PROVE a \in Recovered(T, healthy)
  BY <1>2 DEF Recovered
<1>3. ASSUME NEW findings \in SUBSET FindingType PROVE a \in Recorded(findings)
  <2>1. \A f \in Fresh(findings) : f.type # a.key
    <3>1. \A f \in Fresh(findings) : f.type \in CheckTypes
      BY DEF Fresh, FindingType
    <3> QED BY <1>1, <3>1, NoneIsNoCheck
  <2> DEFINE more == {f \in Fresh(findings) : f.type = a.key}
  <2>2. more = {}
    BY <2>1
  <2>3. [a EXCEPT !.counted = @ \cup more] = a
    BY <1>1, <2>2 DEF AlertOver
  <2> QED BY <2>3 DEF Recorded
<1>4. ASSUME NEW t \in Tasks, NEW i \in Ids, NEW n \in Numbers,
             NEW latency \in Latencies, NEW rate \in Rates, Accept(t, i, n, latency, rate)
      PROVE  a \in alerts'
  <2>1. Findings(i, n, latency, rate) \in SUBSET FindingType
    BY FindingsOK DEF Inv
  <2>2. a \in Recorded(Findings(i, n, latency, rate))
    BY <1>3, <2>1
  <2> QED BY <1>2, <1>4, <2>2 DEF Accept
<1>5. ASSUME NEW t \in Tasks, NEW i \in Ids, RejectDuplicate(t, i) PROVE a \in alerts'
  BY <1>3, <1>5, DuplicateOK DEF RejectDuplicate
<1>6. ASSUME NEW t \in Tasks, Resume(t) PROVE a \in alerts'
  BY <1>2, <1>6 DEF Resume
<1>7. ASSUME NEW b \in alerts, Acknowledge(b) \/ Resolve(b) PROVE a \in alerts'
  BY <1>7 DEF Acknowledge, Resolve
<1>8. CASE Tick \/ Crash \/ UNCHANGED vars
  BY <1>8 DEF Tick, Crash, vars
<1> QED BY <1>4, <1>5, <1>6, <1>7, <1>8 DEF Next

(* A resolved alert is history: no finding, operator or recovery touches   *)
(* it again.                                                               *)
THEOREM HistoryKept == Spec => ResolvedStays
<1>1. Inv /\ [Next]_vars => [\A a \in alerts : a.status = "RESOLVED" => a \in alerts']_vars
  BY ResolvedUntouched
<1> QED BY <1>1, InvHolds, PTL DEF Spec, ResolvedStays

-----------------------------------------------------------------------------
(* What is recorded of a stream while the process lives.  A gap is keyed   *)
(* by the number that was stored after it.                                 *)
Stream ==
    /\ \A e \in events : e.kind = "SEQUENCE_GAP" => e.key \in StoredNumbers
    /\ GapsAnnounced /\ DisorderRecorded

LEMMA RecordedKinds ==
    ASSUME Inv, NEW findings, NEW f \in findings
    PROVE  \E e \in events \cup Fresh(findings) : e.kind = f.kind /\ e.key = f.key
<1>1. CASE Known(f)
  BY <1>1 DEF Known
<1>2. CASE ~Known(f)
  BY <1>2 DEF Fresh
<1> QED BY <1>1, <1>2

LEMMA SequenceKinds ==
    ASSUME NEW i, NEW n, NEW latency, NEW rate
    PROVE  LET F == Findings(i, n, latency, rate) IN
           /\ SequenceFindings(i, n) \subseteq F
           /\ rate \in RateOutcomes =>
                \A f \in F : f.kind = "SEQUENCE_GAP" => f \in SequenceFindings(i, n)
<1>1. \A f \in RegressionFindings(i, latency) : f.kind # "SEQUENCE_GAP"
  BY DEF RegressionFindings, ByMessage, Finding
<1>2. \A type \in TimingFaults(latency) : ByMessage(type, i).kind # "SEQUENCE_GAP"
  BY DEF TimingFaults, TimingEvaluated, ByMessage, Finding
<1>3. rate \in RateOutcomes => \A f \in RateFindings(rate) : f.kind # "SEQUENCE_GAP"
  BY DEF RateFindings, RateOutcomes, Finding
<1> QED BY <1>1, <1>2, <1>3 DEF Findings

LEMMA AcceptStream ==
    ASSUME Inv, Stream, NEW t \in Tasks, NEW i \in Ids, NEW n \in Numbers,
           NEW latency \in Latencies, NEW rate \in Rates, Accept(t, i, n, latency, rate)
    PROVE  Stream'
<1> DEFINE F == Findings(i, n, latency, rate)
           r == Row(i, n, latency)
           last == Len(rows) + 1
<1>1. /\ r \in NumberType /\ r.number = n /\ r.id = i
      /\ rows' = Append(rows, r)
  BY RowType DEF Inv, Accept
<1>2. /\ rows' # <<>> /\ Len(rows') = last /\ Len(rows) \in Nat
      /\ \A j \in 1..Len(rows) : rows'[j] = rows[j]
      /\ rows'[last] = r
      /\ StoredNumbers' = StoredNumbers \cup {n} /\ HasHighest' /\ TypeOK'
  <2>1. Len(rows) \in Nat
    BY DEF Inv, TypeOK
  <2> QED BY <1>1, <2>1, AppendedRow, AcceptInv DEF Inv
<1>3. events' = events \cup Fresh(F)
  BY DEF Accept
<1>4. rows # <<>> => /\ Highest \in StoredNumbers /\ Highest \in Nat
                     /\ \A k \in StoredNumbers : k <= Highest
  BY HighestIs DEF Inv
<1>5. Highest' \in StoredNumbers' /\ Highest' \in Nat /\ \A k \in StoredNumbers' : k <= Highest'
  <2>1. (TypeOK /\ HasHighest /\ rows # <<>> =>
           Highest \in StoredNumbers /\ Highest \in Nat /\ \A k \in StoredNumbers : k <= Highest)'
    BY HighestIs, PTL
  <2> QED BY <1>2, <2>1
<1>6. n \in Nat /\ StoredNumbers \subseteq Nat
  BY StoredInNumbers, IntegrityAssumption DEF Inv
<1> HIDE DEF r
<1>7. \A f \in F : \E e \in events' : e.kind = f.kind /\ e.key = f.key
  BY <1>3, RecordedKinds
<1>8. \A f \in Fresh(F) : f.kind = "SEQUENCE_GAP" =>
         /\ f = Finding("SEQUENCE_GAP", "SEQUENCE_GAP", n, Highest + 1)
         /\ rows # <<>> /\ n > Highest + 1
  <2>1. \A f \in F : f.kind = "SEQUENCE_GAP" => f \in SequenceFindings(i, n)
    BY SequenceKinds, IntegrityAssumption
  <2>2. \A f \in SequenceFindings(i, n) : f.kind = "SEQUENCE_GAP" =>
           /\ f = Finding("SEQUENCE_GAP", "SEQUENCE_GAP", n, Highest + 1)
           /\ rows # <<>> /\ n > Highest + 1
    BY DEF SequenceFindings, Finding, ByMessage
  <2> QED BY <2>1, <2>2 DEF Fresh
<1>9. \A e \in events' : e.kind = "SEQUENCE_GAP" => e.key \in StoredNumbers'
  <2>1. \A e \in events : e.kind = "SEQUENCE_GAP" => e.key \in StoredNumbers'
    BY <1>2 DEF Stream
  <2>2. \A e \in Fresh(F) : e.kind = "SEQUENCE_GAP" => e.key \in StoredNumbers'
    BY <1>2, <1>8 DEF Finding
  <2> QED BY <1>3, <2>1, <2>2
<1>10. GapsAnnounced'
  <2>1. CASE rows = <<>>
    <3>1. StoredNumbers = {} /\ Len(rows) = 0
      BY <2>1 DEF StoredNumbers
    <3>2. Highest' = n /\ rows'[1].number = n
      BY <1>1, <1>2, <1>5, <3>1
    <3>3. \A m \in n..n : m = n
      BY <1>6
    <3> QED BY <1>2, <3>2, <3>3 DEF GapsAnnounced
  <2>2. CASE rows # <<>>
    <3>1. 1 \in 1..Len(rows) /\ rows'[1].number = rows[1].number /\ rows[1].number \in Nat
      <4>1. 1 \in 1..Len(rows)
        BY <2>2 DEF Inv, TypeOK
      <4> QED BY <1>2, <4>1, RowAt, IntegrityAssumption DEF Inv
    <3> SUFFICES ASSUME NEW m \in (rows[1].number)..Highest', m \notin StoredNumbers'
                 PROVE  \E e \in events' : e.kind = "SEQUENCE_GAP" /\ m \in e.from..(e.key - 1)
      BY <3>1 DEF GapsAnnounced
    <3>2. m \in Int /\ rows[1].number <= m /\ m <= Highest' /\ m # n /\ m \notin StoredNumbers
      BY <1>2, <1>5, <3>1
    <3>3. CASE m <= Highest
      <4>1. m \in (rows[1].number)..Highest
        BY <1>4, <2>2, <3>1, <3>2, <3>3
      <4>2. PICK e \in events : e.kind = "SEQUENCE_GAP" /\ m \in e.from..(e.key - 1)
        BY <2>2, <3>2, <4>1 DEF Stream, GapsAnnounced
      <4> QED BY <1>3, <4>2
    <3>4. CASE ~(m <= Highest)
      <4>1. Highest' = n /\ Highest < m /\ m < n
        BY <1>2, <1>4, <1>5, <1>6, <2>2, <3>2, <3>4
      <4>2. n > Highest + 1
        BY <1>4, <1>6, <2>2, <3>2, <4>1
      <4> DEFINE g == Finding("SEQUENCE_GAP", "SEQUENCE_GAP", n, Highest + 1)
      <4>3. g \in F /\ g.kind = "SEQUENCE_GAP" /\ g.key = n /\ g.from = Highest + 1
        <5>1. g \in SequenceFindings(i, n)
          BY <2>2, <4>2 DEF SequenceFindings
        <5> QED BY <5>1, SequenceKinds DEF Finding
      <4>4. g \in Fresh(F)
        <5>1. n \notin StoredNumbers
          BY <1>4, <1>6, <2>2, <4>2
        <5>2. ~Known(g)
          BY <4>3, <5>1 DEF Known, Stream
        <5> QED BY <4>3, <5>2 DEF Fresh
      <4>5. m \in g.from..(g.key - 1)
        BY <1>4, <1>6, <2>2, <3>2, <4>1, <4>3
      <4> QED BY <1>3, <4>3, <4>4, <4>5
    <3> QED BY <3>3, <3>4
  <2> QED BY <2>1, <2>2
<1>11. DisorderRecorded'
  <2>1. 1..Len(rows') = (1..Len(rows)) \cup {last}
    BY <1>2
  <2>2. ASSUME NEW j \in 1..Len(rows), NEW k \in 1..(j - 1)
        PROVE  /\ rows'[j].number < rows'[k].number =>
                    \E e \in events' : e.kind = "OUT_OF_ORDER" /\ e.key = rows'[j].id
               /\ rows'[j].number = rows'[k].number =>
                    \E e \in events' : e.kind = "DUPLICATE_SEQUENCE" /\ e.key = rows'[j].id
    <3>1. k \in 1..Len(rows) /\ rows'[j] = rows[j] /\ rows'[k] = rows[k]
      BY <1>2, <2>2
    <3> QED BY <1>3, <2>2, <3>1 DEF Stream, DisorderRecorded
  <2>3. ASSUME NEW k \in 1..(last - 1)
        PROVE  /\ n < rows'[k].number =>
                    \E e \in events' : e.kind = "OUT_OF_ORDER" /\ e.key = i
               /\ n = rows'[k].number =>
                    \E e \in events' : e.kind = "DUPLICATE_SEQUENCE" /\ e.key = i
    <3>1. k \in 1..Len(rows) /\ rows'[k] = rows[k] /\ rows # <<>>
      BY <1>2, <2>3 DEF Inv, TypeOK
    <3>2. rows[k].number \in StoredNumbers
      BY <3>1 DEF StoredNumbers
    <3>3. n < rows[k].number => n < Highest
      <4>1. rows[k].number \in Nat /\ rows[k].number <= Highest /\ Highest \in Nat
        BY <1>4, <1>6, <3>1, <3>2
      <4> QED BY <1>6, <4>1
    <3>4. n < rows[k].number => ByMessage("OUT_OF_ORDER", i) \in F
      BY <3>1, <3>3, SequenceKinds DEF SequenceFindings
    <3>5. n = rows[k].number =>
             Finding("DUPLICATE_MESSAGE", "DUPLICATE_SEQUENCE", i, None) \in F
      BY <3>1, <3>2, SequenceKinds DEF SequenceFindings
    <3> QED BY <1>7, <3>1, <3>4, <3>5 DEF ByMessage, Finding
  <2> QED BY <1>1, <1>2, <2>1, <2>2, <2>3 DEF DisorderRecorded
<1> QED BY <1>9, <1>10, <1>11 DEF Stream

LEMMA NextStream ==
    ASSUME "crash" \notin Operations, Inv, Stream, [Next]_vars
    PROVE  Stream'
<1>1. ASSUME UNCHANGED rows, events \subseteq events',
             \A e \in events' \ events : e.kind # "SEQUENCE_GAP"
      PROVE  Stream'
  <2>1. GapsAnnounced'
    <3>1. StoredNumbers' = StoredNumbers /\ Highest' = Highest
      BY <1>1 DEF StoredNumbers, Highest
    <3>2. ASSUME rows # <<>>, NEW m \in (rows[1].number)..Highest
          PROVE  \/ m \in StoredNumbers
                 \/ \E e \in events' : e.kind = "SEQUENCE_GAP" /\ m \in e.from..(e.key - 1)
      BY <1>1, <3>2 DEF Stream, GapsAnnounced
    <3> QED BY <1>1, <3>1, <3>2 DEF GapsAnnounced
  <2>2. DisorderRecorded'
    BY <1>1 DEF Stream, DisorderRecorded
  <2>3. \A e \in events' : e.kind = "SEQUENCE_GAP" => e.key \in StoredNumbers'
    BY <1>1 DEF Stream, StoredNumbers
  <2> QED BY <2>1, <2>2, <2>3 DEF Stream
<1>2. ASSUME NEW t \in Tasks, NEW i \in Ids, RejectDuplicate(t, i) PROVE Stream'
  <2>1. UNCHANGED rows /\ events \subseteq events'
    BY <1>2 DEF RejectDuplicate
  <2>2. \A e \in events' \ events : e.kind = "DUPLICATE_MESSAGE_ID"
    BY <1>2 DEF RejectDuplicate, Fresh, Finding
  <2> QED BY <1>1, <2>1, <2>2
<1>3. ASSUME UNCHANGED <<rows, events>> PROVE Stream'
  BY <1>1, <1>3
<1>4. ASSUME NEW t \in Tasks, Resume(t) PROVE Stream'
  BY <1>3, <1>4 DEF Resume
<1>5. ASSUME NEW a \in alerts, Acknowledge(a) \/ Resolve(a) PROVE Stream'
  BY <1>3, <1>5 DEF Acknowledge, Resolve
<1>6. CASE Tick \/ UNCHANGED vars
  BY <1>3, <1>6 DEF Tick, vars
<1> QED BY <1>2, <1>4, <1>5, <1>6, AcceptStream DEF Next

THEOREM StreamHolds ==
    ASSUME "crash" \notin Operations
    PROVE  Spec => []Stream
<1>1. Init => Stream
  BY DEF Init, Stream, GapsAnnounced, DisorderRecorded
<1>2. Inv /\ Stream /\ [Next]_vars => Stream'
  BY NextStream
<1> QED BY <1>1, <1>2, InvHolds, PTL DEF Spec

(* As long as no crash comes between a message and its findings, every     *)
(* hole of a stream lies in a recorded gap, however late messages move     *)
(* the edges of the holes.                                                 *)
THEOREM HolesAnnounced ==
    ASSUME "crash" \notin Operations
    PROVE  Spec => []GapsAnnounced
<1>1. Stream => GapsAnnounced
  BY DEF Stream
<1> QED BY <1>1, StreamHolds, PTL

(* Under the same condition, every message that came after a higher or an  *)
(* equal number is recorded.                                               *)
THEOREM DisorderKept ==
    ASSUME "crash" \notin Operations
    PROVE  Spec => []DisorderRecorded
<1>1. Stream => DisorderRecorded
  BY DEF Stream
<1> QED BY <1>1, StreamHolds, PTL

-----------------------------------------------------------------------------
(* A finding of a timing check is keyed by its message, which is stored.   *)
TimingChecks == {"HIGH_LATENCY", "FUTURE_TIMESTAMP", "CLOCK_DRIFT"}
OfMessages == \A e \in events : e.kind \in TimingChecks => Stored(e.key)

LEMMA TimingFindings ==
    ASSUME NEW i \in Ids, NEW n, NEW latency, NEW rate \in RateOutcomes
    PROVE  /\ \A f \in Findings(i, n, latency, rate) :
                f.kind \in TimingChecks \/ f.type \in TimingChecks =>
                  f.kind = f.type /\ f.key = i
           /\ \A f \in Findings(i, n, latency, rate) :
                f.type \in {"LOW_SAMPLING_RATE", "HIGH_SAMPLING_RATE"} => f.type = rate
<1> DEFINE Fits(f) ==
      /\ f.kind \in TimingChecks \/ f.type \in TimingChecks => f.kind = f.type /\ f.key = i
      /\ f.type \in {"LOW_SAMPLING_RATE", "HIGH_SAMPLING_RATE"} => f.type = rate
<1>1. \A f \in SequenceFindings(i, n) : Fits(f)
  BY DEF SequenceFindings, ByMessage, Finding, TimingChecks
<1>2. \A f \in RegressionFindings(i, latency) : Fits(f)
  BY DEF RegressionFindings, ByMessage, Finding, TimingChecks
<1>3. \A type \in TimingFaults(latency) : Fits(ByMessage(type, i))
  BY DEF TimingFaults, TimingEvaluated, ByMessage, Finding, TimingChecks
<1>4. \A f \in RateFindings(rate) : Fits(f)
  BY DEF RateFindings, RateOutcomes, Finding, TimingChecks
<1> HIDE DEF Fits
<1>5. \A f \in Findings(i, n, latency, rate) : Fits(f)
  BY <1>1, <1>2, <1>3, <1>4 DEF Findings
<1> QED BY <1>5 DEF Fits

(* A step records findings of timing checks for the message it stores.     *)
LEMMA StoredNext ==
    ASSUME Inv, OfMessages, [Next]_vars
    PROVE  OfMessages'
<1>1. ASSUME NEW i \in Ids, NEW n \in Numbers, NEW latency \in Latencies,
             rows' = Append(rows, Row(i, n, latency))
      PROVE  Stored(i)' /\ \A j : Stored(j) => Stored(j)'
  <2>1. /\ Row(i, n, latency) \in NumberType /\ Row(i, n, latency).id = i
    BY RowType DEF Inv
  <2>2. /\ Len(rows') = Len(rows) + 1 /\ rows'[Len(rows) + 1] = Row(i, n, latency)
        /\ \A j \in 1..Len(rows) : rows'[j] = rows[j]
    BY <1>1, <2>1, AppendedRow DEF Inv
  <2>3. Len(rows) \in Nat
    BY DEF Inv, TypeOK
  <2> QED BY <2>1, <2>2, <2>3 DEF Stored
<1>2. ASSUME NEW t \in Tasks, NEW i \in Ids, NEW n \in Numbers,
             NEW latency \in Latencies, NEW rate \in Rates, Accept(t, i, n, latency, rate)
      PROVE  OfMessages'
  <2>1. /\ rows' = Append(rows, Row(i, n, latency))
        /\ events' = events \cup Fresh(Findings(i, n, latency, rate))
    BY <1>2 DEF Accept
  <2>2. \A e \in Fresh(Findings(i, n, latency, rate)) : e.kind \in TimingChecks => e.key = i
    BY IntegrityAssumption, TimingFindings DEF Fresh
  <2>3. Stored(i)' /\ \A j : Stored(j) => Stored(j)'
    BY <1>1, <2>1
  <2> QED BY <2>1, <2>2, <2>3 DEF OfMessages
<1>3. ASSUME NEW t \in Tasks, NEW i \in Ids, RejectDuplicate(t, i) PROVE OfMessages'
  <2>1. \A e \in events' \ events : e.kind = "DUPLICATE_MESSAGE_ID"
    BY <1>3 DEF RejectDuplicate, Fresh, Finding
  <2>2. UNCHANGED rows
    BY <1>3 DEF RejectDuplicate
  <2> QED BY <2>1, <2>2 DEF OfMessages, TimingChecks, Stored
<1>4. CASE Crash
  <2>1. events' = events /\ \A j : Stored(j) => Stored(j)'
    BY <1>1, <1>4 DEF Crash, Stored
  <2> QED BY <2>1 DEF OfMessages
<1>5. ASSUME UNCHANGED <<rows, events>> PROVE OfMessages'
  BY <1>5 DEF OfMessages, Stored
<1>6. ASSUME NEW t \in Tasks, Resume(t) PROVE OfMessages'
  BY <1>5, <1>6 DEF Resume
<1>7. ASSUME NEW a \in alerts, Acknowledge(a) \/ Resolve(a) PROVE OfMessages'
  BY <1>5, <1>7 DEF Acknowledge, Resolve
<1>8. CASE Tick \/ UNCHANGED vars
  BY <1>5, <1>8 DEF Tick, vars
<1> QED BY <1>2, <1>3, <1>4, <1>6, <1>7, <1>8 DEF Next

(* A fresh finding leaves an active alert, and the recovery of other       *)
(* checks does not close it.                                               *)
LEMMA FreshAlerts ==
    ASSUME Inv, NEW F \in SUBSET FindingType, Distinct(F), NEW f \in Fresh(F),
           NEW healthy, f.type \notin healthy
    PROVE  /\ \E a \in Recorded(F) : a.key = f.type
           /\ \E a \in Recovered(Recorded(F), healthy) : a.key = f.type
<1>1. AlertsOK(Recorded(F), events \cup Fresh(F))
  BY RecordedOK DEF Inv
<1>2. PICK a \in Recorded(F) : a.key = f.type
  <2>1. CASE Holder(f.type) = {}
    <3>1. Opened(f) \in Recorded(F) /\ Opened(f).key = f.type
      BY <2>1 DEF Recorded, Opened
    <3> QED BY <3>1
  <2>2. CASE Holder(f.type) # {}
    <3>1. PICK b \in alerts : b.key = f.type
      BY <2>2 DEF Holder
    <3> DEFINE c == [b EXCEPT !.counted = @ \cup {g \in Fresh(F) : g.type = b.key}]
    <3>2. c \in Recorded(F)
      BY DEF Recorded
    <3>3. c.key = b.key
      BY DEF Inv, AlertsOK, AlertOver
    <3> QED BY <3>1, <3>2, <3>3
  <2> QED BY <2>1, <2>2
<1>3. a.key # None /\ a.key = IF a.status = "RESOLVED" THEN None ELSE a.type
  <2>1. f.type \in CheckTypes
    BY DEF Fresh, FindingType
  <2> QED BY <1>1, <1>2, <2>1, NoneIsNoCheck DEF AlertsOK, Keyed
<1>4. a \in Recovered(Recorded(F), healthy)
  BY <1>2, <1>3 DEF Recovered
<1> QED BY <1>2, <1>4

(* What a step judges faulty, that was healthy, has an active alert.       *)
LEMMA RecurrenceStep ==
    ASSUME Inv, OfMessages, [Next]_vars, NEW type \in Recoverable,
           verdict[type] = "healthy", verdict'[type] = "faulty"
    PROVE  /\ type \in TimingChecks => \E a \in alerts' : a.key = type
           /\ type \notin TimingChecks => type \in Rates
<1>1. PICK t \in Tasks, i \in Ids, n \in Numbers, latency \in Latencies, rate \in Rates :
        Accept(t, i, n, latency, rate)
  BY DEF Next, RejectDuplicate, Resume, Acknowledge, Resolve, Tick, Crash, vars
<1> DEFINE F == Findings(i, n, latency, rate)
           healthy == Evaluated(latency, rate) \ Faulty(F)
<1>2. /\ ~Stored(i) /\ verdict' = Judged(Evaluated(latency, rate), Faulty(F))
      /\ alerts' = Recovered(Recorded(F), healthy) \/ alerts' = Recorded(F)
  BY <1>1 DEF Accept
<1>3. type \in Faulty(F)
  BY <1>2 DEF Judged
<1>4. PICK f \in F : f.type = type
  BY <1>3 DEF Faulty
<1>5. rate \in RateOutcomes
  BY IntegrityAssumption
<1>6. type \notin TimingChecks => type \in Rates
  <2>1. type \notin TimingChecks => type \in {"LOW_SAMPLING_RATE", "HIGH_SAMPLING_RATE"}
    BY DEF Recoverable, TimingChecks
  <2> QED BY <1>4, <1>5, <2>1, TimingFindings
<1>7. ASSUME type \in TimingChecks PROVE \E a \in alerts' : a.key = type
  <2>1. f.kind = type /\ f.key = i
    BY <1>4, <1>5, <1>7, TimingFindings
  <2>2. f \in Fresh(F)
    BY <1>2, <1>7, <2>1 DEF OfMessages, Fresh, Known
  <2>3. F \in SUBSET FindingType /\ Distinct(F)
    BY FindingsOK DEF Inv
  <2>4. f.type \notin healthy
    BY <1>3, <1>4
  <2> HIDE DEF F, healthy
  <2> QED BY <1>2, <1>4, <2>2, <2>3, <2>4, FreshAlerts
<1> QED BY <1>6, <1>7

(* When a timing check fails again after it was healthy, an alert of it is *)
(* active, whatever the rate checks find, with any handlers and crashes.   *)
THEOREM TimingRecurrenceAlerted ==
    Spec => [][\A type \in TimingChecks :
                 verdict[type] = "healthy" /\ verdict'[type] = "faulty" =>
                   \E a \in alerts' : a.key = type]_vars
<1>1. Init => OfMessages
  BY DEF Init, OfMessages
<1>2. Inv /\ OfMessages /\ [Next]_vars => OfMessages'
  BY StoredNext
<1>3. TimingChecks \subseteq Recoverable
  BY DEF TimingChecks, Recoverable
<1>4. Inv /\ OfMessages /\ [Next]_vars =>
        [\A type \in TimingChecks :
           verdict[type] = "healthy" /\ verdict'[type] = "faulty" =>
             \E a \in alerts' : a.key = type]_vars
  BY <1>3, RecurrenceStep
<1> QED BY <1>1, <1>2, <1>4, InvHolds, PTL DEF Spec

-----------------------------------------------------------------------------
(* What the timing events say of the rows.                                 *)
Tells(E, type, i) == \E e \in E : e.kind = type /\ e.key = i

(* The events of a message that is stored are those its timing was found   *)
(* at fault with; other messages gain none.                                *)
LEMMA TimingEvents ==
    ASSUME OfMessages, NEW i \in Ids, NEW n, NEW latency, NEW rate \in RateOutcomes,
           ~Stored(i), NEW type \in TimingChecks
    PROVE  LET E == events \cup Fresh(Findings(i, n, latency, rate)) IN
           /\ Tells(E, type, i) <=> type \in TimingFaults(latency)
           /\ \A k : k # i => (Tells(E, type, k) <=> Tells(events, type, k))
<1> DEFINE F == Findings(i, n, latency, rate)
           T == {ByMessage(c, i) : c \in TimingFaults(latency)}
<1>1. \A f \in F : f.kind = type => f \in T /\ f.key = i
  <2>1. \A f \in F : f \in T \/ f.kind \notin TimingChecks
    <3>1. \A f \in SequenceFindings(i, n) : f.kind \notin TimingChecks
      BY DEF SequenceFindings, ByMessage, Finding, TimingChecks
    <3>2. \A f \in RegressionFindings(i, latency) : f.kind \notin TimingChecks
      BY DEF RegressionFindings, ByMessage, Finding, TimingChecks
    <3>3. \A f \in RateFindings(rate) : f.kind \notin TimingChecks
      BY DEF RateFindings, RateOutcomes, Finding, TimingChecks
    <3> QED BY <3>1, <3>2, <3>3 DEF Findings
  <2> HIDE DEF T, F
  <2> QED BY <2>1, TimingFindings DEF F
<1>2. \A f \in T : f.kind \in TimingFaults(latency) /\ f.key = i
  BY DEF ByMessage, Finding
<1>3. type \in TimingFaults(latency) =>
        \E f \in Fresh(F) : f.kind = type /\ f.key = i
  <2> SUFFICES ASSUME type \in TimingFaults(latency)
               PROVE  \E f \in Fresh(F) : f.kind = type /\ f.key = i
    OBVIOUS
  <2>1. ByMessage(type, i) \in F
    BY DEF Findings
  <2>2. ByMessage(type, i).kind = type /\ ByMessage(type, i).key = i
    BY DEF ByMessage, Finding
  <2> HIDE DEF F
  <2>3. ~Known(ByMessage(type, i))
    BY <2>2 DEF Known, OfMessages
  <2> QED BY <2>1, <2>2, <2>3 DEF Fresh
<1>4. ~Tells(events, type, i)
  BY DEF Tells, OfMessages
<1>5. Fresh(F) \subseteq F
  BY DEF Fresh
<1> HIDE DEF F, T
<1> QED BY <1>1, <1>2, <1>3, <1>4, <1>5 DEF Tells, F

(* What is right of the j-th of the rows s and the events E.               *)
Moved(s, j) ==
    j > 1 /\ \/ s[j].latency - s[j - 1].latency >= ClockDrift
             \/ s[j - 1].latency - s[j].latency >= ClockDrift
Timed(E, s, j) ==
    /\ Tells(E, "HIGH_LATENCY", s[j].id) <=> s[j].latency \in WarningLatency..MaxSkew
    /\ Tells(E, "CLOCK_DRIFT", s[j].id) => s[j].latency <= MaxSkew /\ Moved(s, j)
    /\ s[j].latency \in 1..MaxSkew /\ Moved(s, j) => Tells(E, "CLOCK_DRIFT", s[j].id)
    /\ Tells(E, "FUTURE_TIMESTAMP", s[j].id) =>
         s[j].latency = 0 /\ ~Tells(E, "CLOCK_DRIFT", s[j].id)
AllTimed(E, s) == \A j \in 1..Len(s) : Timed(E, s, j)
OnRecord == OfMessages /\ AllTimed(events, rows)

LEMMA AcceptOnRecord ==
    ASSUME WarningLatency > 0, Inv, OnRecord, NEW t \in Tasks, NEW i \in Ids,
           NEW n \in Numbers, NEW latency \in Latencies, NEW rate \in Rates,
           Accept(t, i, n, latency, rate)
    PROVE  AllTimed(events', rows')
<1> DEFINE r == Row(i, n, latency)
           last == Len(rows) + 1
<1>1. /\ Len(rows) \in Nat /\ Len(rows') = last /\ rows'[last] = r
      /\ \A j \in 1..Len(rows) : rows'[j] = rows[j]
      /\ r.id = i /\ r.latency = (IF latency < 0 THEN 0 ELSE latency)
  <2>1. r \in NumberType /\ r.id = i
    BY RowType DEF Inv
  <2>2. rows' = Append(rows, r) /\ Len(rows) \in Nat
    BY DEF Accept, Inv, TypeOK
  <2>3. r.latency = (IF latency < 0 THEN 0 ELSE latency)
    BY DEF Row
  <2> HIDE DEF r
  <2> QED BY <2>1, <2>2, <2>3, AppendedRow DEF Inv
<1>2. /\ \A j \in 1..Len(rows) : rows[j].id # i /\ rows[j].latency \in Nat
      /\ latency \in Int
      /\ {MaxSkew, FutureWarning, WarningLatency, ClockDrift} \subseteq Nat
  <2>1. ~Stored(i)
    BY DEF Accept
  <2>2. \A j \in 1..Len(rows) : rows[j].latency \in Nat
    BY RowAt DEF Inv, NumberType
  <2> QED BY <2>1, <2>2, IntegrityAssumption DEF Stored
<1>3. ASSUME NEW type \in TimingChecks
      PROVE  /\ Tells(events', type, i) <=> type \in TimingFaults(latency)
             /\ \A k : k # i => (Tells(events', type, k) <=> Tells(events, type, k))
  <2>1. events' = events \cup Fresh(Findings(i, n, latency, rate)) /\ ~Stored(i)
    BY DEF Accept
  <2> QED BY <2>1, TimingEvents, IntegrityAssumption DEF OnRecord
<1> HIDE DEF r
<1>4. ASSUME NEW j \in 1..Len(rows) PROVE Timed(events', rows', j)
  <2>1. j - 1 \in 1..Len(rows) \/ ~(j > 1)
    BY <1>1
  <2>2. Moved(rows', j) <=> Moved(rows, j)
    BY <1>1, <2>1 DEF Moved
  <2>3. rows'[j] = rows[j] /\ rows[j].id # i
    BY <1>1, <1>2
  <2>4. Timed(events, rows, j)
    BY DEF OnRecord, AllTimed
  <2> QED BY <1>3, <2>2, <2>3, <2>4 DEF Timed, TimingChecks
<1>5. Moved(rows', last) <=> /\ rows # <<>>
                            /\ \/ r.latency - Latest.latency >= ClockDrift
                               \/ Latest.latency - r.latency >= ClockDrift
  <2>1. rows # <<>> <=> last > 1
    BY <1>1 DEF Inv, TypeOK
  <2>2. rows # <<>> => rows'[last - 1] = Latest
    BY <1>1, <2>1 DEF Latest
  <2> QED BY <1>1, <2>1, <2>2 DEF Moved
<1>6. rows # <<>> => Latest.latency \in Nat
  BY <1>1, <1>2 DEF Latest, Inv, TypeOK
<1>7. /\ "HIGH_LATENCY" \in TimingFaults(latency)
            <=> r.latency \in WarningLatency..MaxSkew
      /\ "CLOCK_DRIFT" \in TimingFaults(latency)
            => r.latency <= MaxSkew /\ Moved(rows', last)
      /\ r.latency \in 1..MaxSkew /\ Moved(rows', last)
            => "CLOCK_DRIFT" \in TimingFaults(latency)
      /\ "FUTURE_TIMESTAMP" \in TimingFaults(latency) =>
           r.latency = 0 /\ "CLOCK_DRIFT" \notin TimingFaults(latency)
  BY <1>1, <1>2, <1>5, <1>6 DEF TimingFaults, TimingEvaluated, Live, Ahead, Drifted
<1>8. Timed(events', rows', last)
  BY <1>1, <1>3, <1>7 DEF Timed, TimingChecks
<1>9. 1..Len(rows') = (1..Len(rows)) \cup {last}
  BY <1>1
<1> QED BY <1>4, <1>8, <1>9 DEF AllTimed

LEMMA NextOnRecord ==
    ASSUME WarningLatency > 0, "crash" \notin Operations, Inv, OnRecord, [Next]_vars
    PROVE  OnRecord'
<1>1. OfMessages'
  BY StoredNext DEF OnRecord
<1>2. ASSUME UNCHANGED rows,
             \A type \in TimingChecks : \A i :
                Tells(events', type, i) <=> Tells(events, type, i)
      PROVE  OnRecord'
  BY <1>1, <1>2 DEF OnRecord, AllTimed, Timed, TimingChecks
<1>3. ASSUME NEW t \in Tasks, NEW i \in Ids, RejectDuplicate(t, i) PROVE OnRecord'
  <2>1. \A e \in events' \ events : e.kind = "DUPLICATE_MESSAGE_ID"
    BY <1>3 DEF RejectDuplicate, Fresh, Finding
  <2>2. UNCHANGED rows /\ events \subseteq events'
    BY <1>3 DEF RejectDuplicate
  <2> QED BY <1>2, <2>1, <2>2 DEF Tells, TimingChecks
<1>4. ASSUME UNCHANGED <<rows, events>> PROVE OnRecord'
  BY <1>1, <1>4 DEF OnRecord
<1>5. ASSUME NEW t \in Tasks, Resume(t) PROVE OnRecord'
  BY <1>4, <1>5 DEF Resume
<1>6. ASSUME NEW a \in alerts, Acknowledge(a) \/ Resolve(a) PROVE OnRecord'
  BY <1>4, <1>6 DEF Acknowledge, Resolve
<1>7. CASE Tick \/ UNCHANGED vars
  BY <1>4, <1>7 DEF Tick, vars
<1>8. ASSUME NEW t \in Tasks, NEW i \in Ids, NEW n \in Numbers,
             NEW latency \in Latencies, NEW rate \in Rates, Accept(t, i, n, latency, rate)
      PROVE  OnRecord'
  BY <1>1, <1>8, AcceptOnRecord DEF OnRecord
<1> QED BY <1>3, <1>5, <1>6, <1>7, <1>8 DEF Next

(* As long as no crash comes between a message and its findings, the       *)
(* timing events are those that the stored latencies account for, whatever *)
(* the thresholds, and however messages arrive, repeat and overlap.        *)
THEOREM TimingIsOnRecord ==
    ASSUME WarningLatency > 0, "crash" \notin Operations
    PROVE  Spec => []TimingOnRecord
<1>1. Init => OnRecord
  BY DEF Init, OnRecord, OfMessages, AllTimed
<1>2. Inv /\ OnRecord /\ [Next]_vars => OnRecord'
  BY NextOnRecord
<1>3. OnRecord => TimingOnRecord
  BY DEF OnRecord, AllTimed, Timed, Moved, Tells, TimingOnRecord, HasEvent, Apart
<1> QED BY <1>1, <1>2, <1>3, InvHolds, PTL DEF Spec
=============================================================================
