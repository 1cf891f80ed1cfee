---------------------------- MODULE PlatformHealth ----------------------------
(***************************************************************************)
(* The platform alerts of main.py and database.py over the MQTT consumer:  *)
(* the monitor and the health endpoint evaluate the platform's conditions, *)
(* each from a report made at once, and write an alert per faulty          *)
(* condition and a resolution per healthy one, waiting for the broadcast   *)
(* of each before the next.                                                *)
(***************************************************************************)
EXTENDS MqttRuntime, Sequences

CONSTANTS
    Evaluators, \* "monitor" and calls of the endpoint
    Conditions, \* the keys of PLATFORM_CONDITIONS, in order
    MaxFailures \* bound on transactions that fail

ASSUME HealthAssumption ==
    /\ "monitor" \in Evaluators /\ MaxFailures \in Nat
    /\ Conditions \in Seq(STRING) \ {<<>>}
    /\ None \notin Evaluators \cup {"enable"} /\ "enable" \notin Evaluators

VARIABLES
    faults,   \* conditions that are faulty now, the consumer's aside
    writable, \* whether the database takes transactions
    alert,    \* status of the newest row of a condition, or None
    work,     \* work[e] = the report e works on, and how far it is
    failures  \* transactions that failed

healthVars == <<faults, writable, alert, work, failures>>
vars == <<mqttVars, loop, healthVars>>

-----------------------------------------------------------------------------
Keys == {Conditions[i] : i \in 1..Len(Conditions)}
Mqtt == "mqtt-disconnected"
Database == "database-unavailable"

Faulty ==
    (faults \ {Mqtt})
    \cup {k \in {Mqtt} \cap Keys : enabled /\ ~connected}
    \cup {k \in {Database} \cap Keys : ~writable}

Active(k) == alert[k] \in {"OPEN", "ACKNOWLEDGED"}

(* Steps 1..n are for the faulty conditions, n+1..2n for the others.       *)
Idle == [report |-> {}, step |-> 0]
Last == 2 * Len(Conditions)
Key(i) == Conditions[IF i > Len(Conditions) THEN i - Len(Conditions) ELSE i]
Raising(e) == work[e].step \in 1..Len(Conditions)
After(task) == IF task.step = Last THEN Idle ELSE [task EXCEPT !.step = @ + 1]
Advance(e) == work' = [work EXCEPT ![e] = After(@)]
(* An evaluation gives the loop up in a broadcast, and at its end.         *)
GoesOn(e) == loop' = IF work[e].step = Last THEN None ELSE e
Runs(e) == loop \in {None, e} /\ work[e].step # 0

Evaluate(e) ==
    /\ loop = None /\ loop' = e /\ work[e] = Idle
    /\ work' = [work EXCEPT ![e] = [report |-> Faulty, step |-> 1]]
    /\ UNCHANGED <<mqttVars, faults, writable, alert, failures>>

Upserted(status) == IF status = "ACKNOWLEDGED" THEN status ELSE "OPEN"

(* Mutant of Raise: an alert is raised when the condition becomes faulty.  *)
RaiseOnce(e) ==
    LET k == Key(work[e].step) IN
    /\ Runs(e) /\ Raising(e) /\ k \in work[e].report /\ writable
    /\ alert' = [alert EXCEPT ![k] = IF @ = None THEN "OPEN" ELSE @]
    /\ Advance(e) /\ loop' = None
    /\ UNCHANGED <<mqttVars, faults, writable, failures>>
(* upsert_platform_alert: the active row, or a new one.                    *)
Raise(e) ==
    LET k == Key(work[e].step) IN
    /\ Runs(e) /\ Raising(e) /\ k \in work[e].report /\ writable
    /\ alert' = [alert EXCEPT ![k] = Upserted(@)]
    /\ Advance(e) /\ loop' = None
    /\ UNCHANGED <<mqttVars, faults, writable, failures>>

(* Mutant of AutoResolve: what an operator has acknowledged is left alone. *)
AutoResolveOpen(e) ==
    LET k == Key(work[e].step) IN
    /\ Runs(e) /\ ~Raising(e) /\ k \notin work[e].report /\ writable
    /\ alert[k] = "OPEN"
    /\ alert' = [alert EXCEPT ![k] = "RESOLVED"]
    /\ Advance(e) /\ loop' = None
    /\ UNCHANGED <<mqttVars, faults, writable, failures>>
(* auto_resolve_platform_alert.                                            *)
AutoResolve(e) ==
    LET k == Key(work[e].step) IN
    /\ Runs(e) /\ ~Raising(e) /\ k \notin work[e].report /\ writable
    /\ Active(k)
    /\ alert' = [alert EXCEPT ![k] = "RESOLVED"]
    /\ Advance(e) /\ loop' = None
    /\ UNCHANGED <<mqttVars, faults, writable, failures>>

(* The condition at this step takes a transaction.                         *)
Writes(e) == Raising(e) <=> Key(work[e].step) \in work[e].report

(* There is nothing to write for the condition at this step.               *)
Pass(e) ==
    /\ Runs(e)
    /\ \/ ~Writes(e)
       \/ ~Raising(e) /\ writable /\ ~Active(Key(work[e].step))
    /\ Advance(e) /\ GoesOn(e)
    /\ UNCHANGED <<mqttVars, faults, writable, alert, failures>>

(* A transaction raises, for itself or since the database takes none: the  *)
(* evaluation ends.                                                        *)
Abandon(e) ==
    /\ Runs(e)
    /\ \/ failures < MaxFailures /\ failures' = failures + 1
       \/ ~writable /\ Writes(e) /\ UNCHANGED failures
    /\ work' = [work EXCEPT ![e] = Idle] /\ loop' = None
    /\ UNCHANGED <<mqttVars, faults, writable, alert>>

-----------------------------------------------------------------------------
(* acknowledge_platform_alert and resolve_platform_alert.                  *)
Acknowledge(k) ==
    /\ loop = None /\ writable /\ Active(k)
    /\ alert' = [alert EXCEPT ![k] = "ACKNOWLEDGED"]
    /\ UNCHANGED <<mqttVars, loop, faults, writable, work, failures>>
Resolve(k) ==
    /\ loop = None /\ writable /\ Active(k)
    /\ alert' = [alert EXCEPT ![k] = "RESOLVED"]
    /\ UNCHANGED <<mqttVars, loop, faults, writable, work, failures>>

(* Conditions come and go, whoever holds the loop.                         *)
Change ==
    /\ faults' \in SUBSET (Keys \ {Mqtt}) /\ writable' \in BOOLEAN
    /\ faults' # faults \/ writable' # writable
    /\ UNCHANGED <<mqttVars, loop, alert, work, failures>>

Init ==
    /\ MqttInit
    /\ faults = {} /\ writable = TRUE
    /\ alert = [k \in Keys |-> None]
    /\ work = [e \in Evaluators |-> Idle] /\ failures = 0

Step(e) == Raise(e) \/ AutoResolve(e) \/ Pass(e) \/ Abandon(e)
Next ==
    \/ MqttNext /\ UNCHANGED healthVars
    \/ \E e \in Evaluators : Evaluate(e) \/ Step(e)
    \/ \E k \in Keys : Acknowledge(k) \/ Resolve(k)
    \/ Change

Spec == Init /\ [][Next]_vars

(* Whoever has begun goes on when the loop lets it; the monitor begins     *)
(* again after each sleep, and the loop does not starve it.                *)
Fairness ==
    /\ \A e \in Evaluators : SF_vars(Step(e))
    /\ SF_vars(Evaluate("monitor"))
    /\ WF_vars(EndStart /\ UNCHANGED healthVars)
FairSpec == Spec /\ Fairness

-----------------------------------------------------------------------------
TypeOK ==
    /\ MqttTypeOK
    /\ loop \in Evaluators \cup {"enable", None}
    /\ faults \subseteq Keys /\ writable \in BOOLEAN
    /\ alert \in [Keys -> {None, "OPEN", "ACKNOWLEDGED", "RESOLVED"}]
    /\ work \in [Evaluators -> [report : SUBSET Keys, step : 0..Last]]
    /\ failures \in 0..MaxFailures
    /\ loop \in Evaluators => work[loop].step # 0

(* A condition that is faulty for good, in a database that can be written, *)
(* has an alert again and again, although reports are stale when they are  *)
(* written, and operators may resolve it at any time.                      *)
FaultRaised ==
    \A k \in Keys :
      <>[](k \in Faulty /\ writable) => []<>Active(k)

(* When a condition is healthy for good, its alert is resolved for good.   *)
HealthClears ==
    \A k \in Keys :
      <>[](k \notin Faulty /\ writable) => <>[]~Active(k)

(* Not kept: a database that takes no transactions has an alert; the alert *)
(* is a row of that database.                                              *)
DatabaseAlerted == <>[](~writable) => <>Active(Database)

(* Not kept: a failed start is not tried again.                            *)
EnabledConnects == <>[]enabled => <>(session # "none")
=============================================================================
