------------------------- MODULE PlatformHealthProofs -------------------------
(***************************************************************************)
(* Proofs about PlatformHealth and the MqttRuntime it extends, for any     *)
(* evaluators and conditions.  That enable and disable never leave a       *)
(* second network thread rests on what they do in the two halves of a      *)
(* start that fails: the fields of the bridge are cleared first, and the   *)
(* thread is joined while the loop is still held.                          *)
(***************************************************************************)
EXTENDS PlatformHealth, TLAPS

Bridges == [started : BOOLEAN, connected : BOOLEAN]

(* A network thread belongs to a session, a session to a bridge; outside   *)
(* enable, the bridge is started when it has one.                          *)
Threads ==
    /\ threads = (IF session = "none" THEN 0 ELSE 1)
    /\ session # "none" => bridge # None
    /\ enabling = "idle" => ((bridge # None /\ bridge.started) <=> session # "none")
    /\ enabling = "waiting" => bridge # None /\ bridge.started /\ session # "none"
    /\ enabling = "failing" => bridge # None /\ ~bridge.started

Inv == TypeOK /\ Threads

(* The parts of TypeOK that are not the consumer's.                        *)
HealthTypeOK ==
    /\ faults \subseteq Keys /\ writable \in BOOLEAN
    /\ alert \in [Keys -> {None, "OPEN", "ACKNOWLEDGED", "RESOLVED"}]
    /\ work \in [Evaluators -> [report : SUBSET Keys, step : 0..Last]]
    /\ failures \in 0..MaxFailures

LEMMA ConditionsCounted ==
    Len(Conditions) \in Nat \ {0} /\ Last \in Nat \ {0} /\ 1 \in 0..Last
BY HealthAssumption DEF Last

LEMMA BridgeFields ==
    /\ \A b, c \in BOOLEAN : /\ Bridge(b, c) \in Bridges /\ Bridge(b, c) # None
                             /\ Bridge(b, c).started = b /\ Bridge(b, c).connected = c
    /\ \A r \in Bridges, c \in BOOLEAN :
         /\ [r EXCEPT !.connected = c] \in Bridges /\ [r EXCEPT !.connected = c] # None
         /\ [r EXCEPT !.connected = c].started = r.started
BY MqttAssumption DEF Bridge, Bridges

-----------------------------------------------------------------------------
(* The consumer.                                                           *)
LEMMA EnableKeeps ==
    ASSUME MqttTypeOK, Threads, Start \/ StartRefused \/ EndStart
    PROVE  MqttTypeOK' /\ Threads' /\ loop' \in {None, "enable"}
<1>1. enabling = "waiting" => loop = "enable"
  BY DEF MqttTypeOK
<1>2. CASE Start
  <2>1. bridge' \in Bridges /\ bridge' # None /\ bridge'.started
    BY <1>2, BridgeFields DEF Start
  <2>2. ThreadsStopped = 0
    BY <1>2 DEF ThreadsStopped, Threads
  <2>3. loop' # None
    BY <1>2, HealthAssumption DEF Start
  <2>4. threads' = 1 /\ enabling' = "waiting" /\ session' = "connecting" /\ enabled' = TRUE
        /\ answered' = FALSE /\ loop' = "enable" /\ scheduled' = scheduled
    BY <1>2, <2>2 DEF Start
  <2>5. MqttTypeOK'
    BY <2>1, <2>4 DEF MqttTypeOK, Bridges
  <2>6. Threads'
    BY <2>1, <2>4 DEF Threads
  <2> QED BY <2>4, <2>5, <2>6
<1>3. CASE StartRefused
  <2>1. bridge' \in Bridges /\ bridge' # None /\ ~bridge'.started
    BY <1>3, BridgeFields DEF StartRefused
  <2>2. ThreadsStopped = 0 /\ enabling = "idle"
    BY <1>3, HealthAssumption DEF StartRefused, ThreadsStopped, Threads, MqttTypeOK
  <2> QED BY <1>3, <2>1, <2>2 DEF StartRefused, MqttTypeOK, Threads, Bridges
<1>4. CASE StartConnected
  BY <1>4, HealthAssumption DEF StartConnected, MqttTypeOK, Threads
<1>5. CASE StartTimesOut
  <2>1. bridge' \in Bridges /\ bridge' # None /\ ~bridge'.started
    BY <1>5, BridgeFields DEF StartTimesOut
  <2>2. ThreadsStopped = 0
    BY DEF ThreadsStopped, Threads
  <2>3. loop' # "enable"
    BY <1>5, HealthAssumption DEF StartTimesOut
  <2> QED BY <1>5, <2>1, <2>2, <2>3 DEF StartTimesOut, MqttTypeOK, Threads, Bridges
<1>6. CASE StartFails
  <2>1. bridge' \in Bridges /\ bridge' # None /\ ~bridge'.started
    BY <1>6, BridgeFields DEF StartFails
  <2> QED BY <1>1, <1>6, <2>1 DEF StartFails, MqttTypeOK, Threads, Bridges
<1>7. CASE Join
  BY <1>7, HealthAssumption DEF Join, ThreadsStopped, MqttTypeOK, Threads
<1> QED BY <1>2, <1>3, <1>4, <1>5, <1>6, <1>7 DEF EndStart

LEMMA CallbacksKeep ==
    ASSUME MqttTypeOK, Threads, Disable \/ OnConnect \/ OnDisconnect \/ OnMessage \/ HandleMqtt
    PROVE  MqttTypeOK' /\ Threads' /\ loop' = loop
<1>1. bridge # None => bridge \in Bridges
  BY DEF MqttTypeOK, Bridges
<1>2. CASE Disable
  <2>1. ThreadsStopped = 0 /\ enabling = "idle"
    BY <1>2, HealthAssumption DEF Disable, ThreadsStopped, Threads, MqttTypeOK
  <2> QED BY <1>2, <2>1 DEF Disable, MqttTypeOK, Threads
<1>3. CASE OnConnect
  <2>1. bridge \in Bridges /\ bridge # None /\ session # "none"
    BY <1>1, <1>3 DEF OnConnect, Threads
  <2>2. PICK c \in BOOLEAN : bridge' = [bridge EXCEPT !.connected = c]
    BY <1>3 DEF OnConnect
  <2>3. /\ bridge' \in Bridges /\ bridge' # None /\ bridge'.started = bridge.started
        /\ session' \in {"up", "connecting"} /\ answered' = TRUE
        /\ UNCHANGED <<enabled, threads, enabling, scheduled, loop>>
    BY <1>3, <2>1, <2>2, BridgeFields DEF OnConnect
  <2> QED BY <2>1, <2>3 DEF MqttTypeOK, Threads, Bridges
<1>4. CASE OnDisconnect
  <2>1. bridge \in Bridges /\ bridge # None /\ session # "none"
    BY <1>1, <1>4 DEF OnDisconnect, Threads
  <2>2. bridge' = [bridge EXCEPT !.connected = FALSE]
    BY <1>4 DEF OnDisconnect
  <2>3. /\ bridge' \in Bridges /\ bridge' # None /\ bridge'.started = bridge.started
        /\ session' = "connecting" /\ answered' = FALSE
        /\ UNCHANGED <<enabled, threads, enabling, scheduled, loop>>
    BY <1>4, <2>1, <2>2, BridgeFields DEF OnDisconnect
  <2> QED BY <2>1, <2>3 DEF MqttTypeOK, Threads, Bridges
<1>5. CASE OnMessage
  BY <1>5, MqttAssumption DEF OnMessage, MqttTypeOK, Threads
<1>6. CASE HandleMqtt
  BY <1>6, MqttAssumption DEF HandleMqtt, MqttTypeOK, Threads
<1> QED BY <1>2, <1>3, <1>4, <1>5, <1>6

-----------------------------------------------------------------------------
(* The evaluations.                                                        *)
LEMMA ReportTyped == HealthTypeOK => Faulty \subseteq Keys
BY DEF HealthTypeOK, Faulty

LEMMA Advances ==
    ASSUME HealthTypeOK, NEW e \in Evaluators, work[e].step # 0, Advance(e)
    PROVE  /\ work' \in [Evaluators -> [report : SUBSET Keys, step : 0..Last]]
           /\ work[e].step # Last => work'[e].step # 0
           /\ \A d \in Evaluators \ {e} : work'[d] = work[d]
<1> DEFINE W == [report : SUBSET Keys, step : 0..Last]
<1>1. work[e] \in W /\ work[e].step \in 0..Last
  BY DEF HealthTypeOK
<1>2. Idle \in W
  BY ConditionsCounted DEF Idle
<1>3. work[e].step # Last => /\ [work[e] EXCEPT !.step = @ + 1] \in W
                             /\ [work[e] EXCEPT !.step = @ + 1].step # 0
  BY <1>1, ConditionsCounted
<1>4. After(work[e]) \in W /\ (work[e].step # Last => After(work[e]).step # 0)
  BY <1>2, <1>3 DEF After
<1>5. work' = [work EXCEPT ![e] = After(work[e])]
  BY DEF Advance
<1> QED BY <1>4, <1>5 DEF HealthTypeOK

LEMMA StepKeeps ==
    ASSUME HealthTypeOK, NEW e \in Evaluators, Step(e)
    PROVE  /\ HealthTypeOK' /\ UNCHANGED mqttVars /\ loop \in {None, e} /\ loop' \in {None, e}
           /\ loop' = e => work'[e].step # 0
<1>0. None # e
  BY HealthAssumption
<1>1. CASE Raise(e)
  <2>1. work' \in [Evaluators -> [report : SUBSET Keys, step : 0..Last]]
    BY <1>1, Advances DEF Raise, Runs
  <2>2. PICK k : alert' = [alert EXCEPT ![k] = Upserted(@)]
    BY <1>1 DEF Raise
  <2>3. alert' \in [Keys -> {None, "OPEN", "ACKNOWLEDGED", "RESOLVED"}]
    BY <2>2 DEF HealthTypeOK, Upserted
  <2> QED BY <1>0, <1>1, <2>1, <2>3 DEF Raise, Runs, HealthTypeOK
<1>2. CASE AutoResolve(e)
  <2>1. work' \in [Evaluators -> [report : SUBSET Keys, step : 0..Last]]
    BY <1>2, Advances DEF AutoResolve, Runs
  <2>2. PICK k : alert' = [alert EXCEPT ![k] = "RESOLVED"]
    BY <1>2 DEF AutoResolve
  <2>3. alert' \in [Keys -> {None, "OPEN", "ACKNOWLEDGED", "RESOLVED"}]
    BY <2>2 DEF HealthTypeOK
  <2> QED BY <1>0, <1>2, <2>1, <2>3 DEF AutoResolve, Runs, HealthTypeOK
<1>3. CASE Pass(e)
  <2>1. /\ work' \in [Evaluators -> [report : SUBSET Keys, step : 0..Last]]
        /\ work[e].step # Last => work'[e].step # 0
    BY <1>3, Advances DEF Pass, Runs
  <2> QED BY <1>0, <1>3, <2>1 DEF Pass, Runs, GoesOn, HealthTypeOK
<1>4. CASE Abandon(e)
  <2>1. Idle \in [report : SUBSET Keys, step : 0..Last]
    BY ConditionsCounted DEF Idle
  <2>2. work' \in [Evaluators -> [report : SUBSET Keys, step : 0..Last]]
    BY <1>4, <2>1 DEF Abandon, HealthTypeOK
  <2> QED BY <1>0, <1>4, <2>2, HealthAssumption DEF Abandon, Runs, HealthTypeOK
<1> QED BY <1>1, <1>2, <1>3, <1>4 DEF Step

LEMMA EvaluateKeeps ==
    ASSUME HealthTypeOK, NEW e \in Evaluators, Evaluate(e)
    PROVE  /\ HealthTypeOK' /\ UNCHANGED mqttVars /\ loop = None /\ loop' = e
           /\ work'[e].step # 0
<1> DEFINE W == [report : SUBSET Keys, step : 0..Last]
           n == [report |-> Faulty, step |-> 1]
<1>1. n \in W /\ n.step = 1
  BY ReportTyped, ConditionsCounted
<1>2. work' = [work EXCEPT ![e] = n]
  BY DEF Evaluate
<1> HIDE DEF n
<1> QED BY <1>1, <1>2 DEF Evaluate, HealthTypeOK

-----------------------------------------------------------------------------
(* The state between the steps of both.                                    *)
Holding == loop \in Evaluators => work[loop].step # 0
Holders == loop \in Evaluators \cup {"enable", None}

LEMMA TypeParts == TypeOK <=> MqttTypeOK /\ Holders /\ HealthTypeOK /\ Holding
BY DEF TypeOK, Holders, HealthTypeOK, Holding

LEMMA ConsumerKeeps ==
    ASSUME Inv, MqttNext, UNCHANGED healthVars
    PROVE  Inv'
<1>1. MqttTypeOK /\ Threads /\ Holders /\ HealthTypeOK /\ Holding
  BY TypeParts DEF Inv
<1>2. MqttTypeOK' /\ Threads' /\ loop' \in {None, "enable", loop}
  BY <1>1, EnableKeeps, CallbacksKeep DEF MqttNext
<1>3. HealthTypeOK'
  BY <1>1 DEF HealthTypeOK, healthVars
<1>4. Holders' /\ Holding'
  BY <1>1, <1>2, HealthAssumption DEF Holders, Holding, healthVars
<1> QED BY <1>2, <1>3, <1>4 DEF Inv, TypeOK, Holders, HealthTypeOK, Holding

LEMMA HealthKeeps ==
    ASSUME Inv, HealthTypeOK', UNCHANGED mqttVars, Holders', Holding',
           loop # "enable", loop' # "enable"
    PROVE  Inv'
<1>1. MqttTypeOK' /\ Threads'
  BY DEF Inv, TypeOK, MqttTypeOK, Threads, mqttVars
<1> QED BY <1>1 DEF Inv, TypeOK, Holders, HealthTypeOK, Holding

LEMMA InvInit == Init => Inv
<1> SUFFICES ASSUME Init PROVE Inv
  OBVIOUS
<1>1. MqttTypeOK /\ Threads /\ Holders /\ Holding
  <2>1. None # "enable" /\ None \notin Evaluators /\ MaxMessages \in Nat
    BY MqttAssumption, HealthAssumption
  <2>2. /\ enabled = FALSE /\ bridge = None /\ session = "none" /\ threads = 0
        /\ answered = FALSE /\ enabling = "idle" /\ scheduled = 0 /\ loop = None
    BY DEF Init, MqttInit
  <2>3. 0 \in 0..MaxMessages /\ 0 \in Nat
    BY <2>1
  <2>4. MqttTypeOK
    BY <2>1, <2>2, <2>3, Zenon DEF MqttTypeOK
  <2>5. Threads
    BY <2>2 DEF Threads
  <2> QED BY <2>1, <2>2, <2>4, <2>5 DEF Holders, Holding
<1>2. Idle \in [report : SUBSET Keys, step : 0..Last]
  BY ConditionsCounted DEF Idle
<1>3. HealthTypeOK
  BY <1>2, HealthAssumption DEF Init, HealthTypeOK
<1> QED BY <1>1, <1>3, TypeParts DEF Inv

LEMMA InvNext == Inv /\ [Next]_vars => Inv'
<1> SUFFICES ASSUME Inv, [Next]_vars PROVE Inv'
  OBVIOUS
<1>0. /\ HealthTypeOK /\ Holders /\ Holding
      /\ None # "enable" /\ \A e \in Evaluators : e # None /\ e # "enable"
  BY TypeParts, HealthAssumption DEF Inv
<1>1. CASE MqttNext /\ UNCHANGED healthVars
  BY <1>1, ConsumerKeeps
<1>2. ASSUME NEW e \in Evaluators, Evaluate(e) PROVE Inv'
  <2>1. /\ HealthTypeOK' /\ UNCHANGED mqttVars /\ loop = None /\ loop' = e
        /\ work'[e].step # 0
    BY <1>0, <1>2, EvaluateKeeps
  <2> QED BY <1>0, <2>1, HealthKeeps DEF Holders, Holding
<1>3. ASSUME NEW e \in Evaluators, Step(e) PROVE Inv'
  <2>1. /\ HealthTypeOK' /\ UNCHANGED mqttVars /\ loop \in {None, e} /\ loop' \in {None, e}
        /\ loop' = e => work'[e].step # 0
    BY <1>0, <1>3, StepKeeps
  <2> QED BY <1>0, <2>1, HealthKeeps DEF Holders, Holding
<1>4. ASSUME NEW k \in Keys, Acknowledge(k) \/ Resolve(k) PROVE Inv'
  <2>1. /\ UNCHANGED <<mqttVars, loop, faults, writable, work, failures>> /\ loop = None
    BY <1>4 DEF Acknowledge, Resolve
  <2>2. alert' \in [Keys -> {None, "OPEN", "ACKNOWLEDGED", "RESOLVED"}]
    BY <1>0, <1>4 DEF Acknowledge, Resolve, HealthTypeOK
  <2>3. HealthTypeOK' /\ Holders' /\ Holding'
    BY <1>0, <2>1, <2>2 DEF HealthTypeOK, Holders, Holding
  <2> QED BY <1>0, <2>1, <2>3, HealthKeeps
<1>5. CASE Change
  <2>1. UNCHANGED <<mqttVars, loop, alert, work, failures>>
        /\ faults' \subseteq Keys /\ writable' \in BOOLEAN
    BY <1>5 DEF Change
  <2>2. HealthTypeOK' /\ Holders' /\ Holding'
    BY <1>0, <2>1 DEF HealthTypeOK, Holders, Holding
  <2>3. MqttTypeOK' /\ Threads'
    BY <2>1 DEF Inv, TypeOK, MqttTypeOK, Threads, mqttVars
  <2> QED BY <2>2, <2>3 DEF Inv, TypeOK, Holders, HealthTypeOK, Holding
<1>6. CASE UNCHANGED vars
  <2>1. HealthTypeOK' /\ Holders' /\ Holding'
    BY <1>0, <1>6 DEF HealthTypeOK, Holders, Holding, vars, healthVars
  <2>2. MqttTypeOK' /\ Threads'
    BY <1>6 DEF Inv, TypeOK, MqttTypeOK, Threads, vars, mqttVars
  <2> QED BY <2>1, <2>2 DEF Inv, TypeOK, Holders, HealthTypeOK, Holding
<1> QED BY <1>1, <1>2, <1>3, <1>4, <1>5, <1>6 DEF Next

LEMMA Invariant == Spec => []Inv
BY InvInit, InvNext, PTL DEF Spec

(* Every variable of the consumer and of the evaluations has its type: the *)
(* loop is held by who is at work, and a manager that is enabled has a     *)
(* bridge.                                                                 *)
THEOREM PlatformTypeCorrect == Spec => []TypeOK
<1>1. Inv => TypeOK
  BY DEF Inv
<1> QED BY <1>1, Invariant, PTL

(* One network thread at most, whatever the broker answers, and whenever   *)
(* operators enable and disable the consumer.                              *)
THEOREM ThreadsAreCounted == Spec => []OneNetworkThread
<1>1. Inv => OneNetworkThread
  <2> SUFFICES ASSUME Inv, loop # "enable"
               PROVE  threads = (IF bridge # None /\ bridge.started THEN 1 ELSE 0)
    BY DEF OneNetworkThread
  <2>1. enabling = "idle"
    BY DEF Inv, TypeOK, MqttTypeOK
  <2> QED BY <2>1 DEF Inv, Threads
<1> QED BY <1>1, Invariant, PTL
=============================================================================
