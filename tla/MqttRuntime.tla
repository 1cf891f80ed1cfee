------------------------------ MODULE MqttRuntime ------------------------------
(***************************************************************************)
(* MqttRuntimeManager and MqttBridge of mqtt_bridge.py: the consumer that  *)
(* operators enable and disable while the backend runs.  enable and        *)
(* disable hold the event loop throughout; the callbacks run in the        *)
(* network thread of the Paho client, which reconnects by itself, and hand *)
(* their messages to the loop.                                             *)
(***************************************************************************)
EXTENDS Integers

CONSTANTS
    MaxMessages, \* bound on the messages waiting for the loop
    None

ASSUME MqttAssumption ==
    /\ MaxMessages \in Nat
    /\ None \notin [started : BOOLEAN, connected : BOOLEAN]

VARIABLES
    enabled,   \* the manager's flag
    bridge,    \* its bridge: [started, connected], or None
    session,   \* the client of that bridge: "none", or its thread is
               \* "connecting" or "up"
    threads,   \* network threads alive
    answered,  \* the bridge's _connected_event
    enabling,  \* where enable is: "idle", "waiting" or "failing"
    scheduled, \* messages handed to the loop and not yet handled
    loop       \* who holds the event loop, or None

mqttVars == <<enabled, bridge, session, threads, answered, enabling, scheduled>>

-----------------------------------------------------------------------------
Bridge(begun, up) == [started |-> begun, connected |-> up]
connected == bridge # None /\ bridge.connected

(* MqttBridge.stop joins the thread.                                       *)
ThreadsStopped == IF session = "none" THEN threads ELSE threads - 1

(* enable stops the old bridge and starts a new one, whose connection is   *)
(* refused at once or answered by the broker later.                        *)
Start ==
    /\ loop = None /\ loop' = "enable"
    /\ enabled' = TRUE /\ answered' = FALSE
    /\ bridge' = Bridge(TRUE, FALSE) /\ session' = "connecting"
    /\ threads' = ThreadsStopped + 1 /\ enabling' = "waiting"
    /\ UNCHANGED scheduled
StartRefused ==
    /\ loop = None
    /\ enabled' = TRUE /\ answered' = FALSE
    /\ bridge' = Bridge(FALSE, FALSE) /\ session' = "none"
    /\ threads' = ThreadsStopped
    /\ UNCHANGED <<enabling, scheduled, loop>>

(* The wait ends with a connection.                                        *)
StartConnected ==
    /\ enabling = "waiting" /\ answered /\ connected
    /\ enabling' = "idle" /\ loop' = None
    /\ UNCHANGED <<enabled, bridge, session, threads, answered, scheduled>>

(* The wait times out: stop joins the thread before the fields are cleared *)
(* for the last time.  The manager stays enabled with a bridge that is not *)
(* started.                                                                *)
StartTimesOut ==
    /\ enabling = "waiting" /\ ~answered
    /\ bridge' = Bridge(FALSE, FALSE) /\ session' = "none"
    /\ threads' = ThreadsStopped
    /\ enabling' = "idle" /\ loop' = None
    /\ UNCHANGED <<enabled, answered, scheduled>>

(* The broker's answer is a failure: the fields are cleared, and then the  *)
(* thread is joined; it may connect in between.                            *)
StartFails ==
    /\ enabling = "waiting" /\ answered /\ ~connected
    /\ bridge' = Bridge(FALSE, FALSE) /\ answered' = FALSE
    /\ enabling' = "failing"
    /\ UNCHANGED <<enabled, session, threads, scheduled, loop>>
(* Mutant of Join: the client is told to disconnect, its thread runs on.   *)
JoinNever ==
    /\ enabling = "failing"
    /\ session' = "none"
    /\ enabling' = "idle" /\ loop' = None
    /\ UNCHANGED <<enabled, bridge, threads, answered, scheduled>>
Join ==
    /\ enabling = "failing"
    /\ session' = "none" /\ threads' = ThreadsStopped
    /\ enabling' = "idle" /\ loop' = None
    /\ UNCHANGED <<enabled, bridge, answered, scheduled>>

Disable ==
    /\ loop = None
    /\ enabled' = FALSE /\ bridge' = None
    /\ session' = "none" /\ threads' = ThreadsStopped
    /\ UNCHANGED <<answered, enabling, scheduled, loop>>

-----------------------------------------------------------------------------
(* The callbacks.  A refused subscription leaves the session up.           *)
OnConnect ==
    /\ session = "connecting"
    /\ \/ session' = "up" /\ \E subscribed \in BOOLEAN :
            bridge' = [bridge EXCEPT !.connected = subscribed]
       \/ session' = "connecting" /\ bridge' = [bridge EXCEPT !.connected = FALSE]
    /\ answered' = TRUE
    /\ UNCHANGED <<enabled, threads, enabling, scheduled, loop>>

OnDisconnect ==
    /\ session = "up"
    /\ session' = "connecting" /\ answered' = FALSE
    /\ bridge' = [bridge EXCEPT !.connected = FALSE]
    /\ UNCHANGED <<enabled, threads, enabling, scheduled, loop>>

OnMessage ==
    /\ session = "up" /\ connected /\ scheduled < MaxMessages
    /\ scheduled' = scheduled + 1
    /\ UNCHANGED <<enabled, bridge, session, threads, answered, enabling, loop>>

(* _handle_mqtt, as far as the consumer is concerned.                      *)
HandleMqtt ==
    /\ loop = None /\ scheduled > 0
    /\ scheduled' = scheduled - 1
    /\ UNCHANGED <<enabled, bridge, session, threads, answered, enabling, loop>>

MqttInit ==
    /\ enabled = FALSE /\ bridge = None /\ session = "none" /\ threads = 0
    /\ answered = FALSE /\ enabling = "idle" /\ scheduled = 0 /\ loop = None

EndStart == StartConnected \/ StartTimesOut \/ StartFails \/ Join
MqttNext ==
    \/ Start \/ StartRefused \/ EndStart \/ Disable
    \/ OnConnect \/ OnDisconnect \/ OnMessage \/ HandleMqtt

-----------------------------------------------------------------------------
MqttTypeOK ==
    /\ enabled \in BOOLEAN /\ answered \in BOOLEAN
    /\ bridge = None \/ bridge \in [started : BOOLEAN, connected : BOOLEAN]
    /\ session \in {"none", "connecting", "up"} /\ threads \in Nat
    /\ enabling \in {"idle", "waiting", "failing"}
    /\ enabling # "idle" <=> loop = "enable"
    /\ scheduled \in 0..MaxMessages
    /\ enabled <=> bridge # None

(* However often the consumer is enabled, refused, disconnected and        *)
(* disabled, it has one network thread when its bridge is started and none *)
(* when it is not.                                                         *)
OneNetworkThread ==
    loop # "enable" => threads = (IF bridge # None /\ bridge.started THEN 1 ELSE 0)

(* Not kept: what is reported as connected has a session; a client that    *)
(* reconnects while a failed start is being cleared leaves it reported for *)
(* good.                                                                   *)
ReportedIsReal == loop # "enable" /\ connected => session = "up"

(* Not kept: no message is handled after disable has returned.             *)
QuietWhenDisabled == [][scheduled' < scheduled => enabled]_<<mqttVars, loop>>
=============================================================================
