--------------------------- MODULE MCPlatformHealth ---------------------------
(* Instances of PlatformHealth for TLC: the endpoint is called once at a   *)
(* time, and two of the conditions exist.                                  *)
EXTENDS PlatformHealth

MonitorAndEndpoint == {"monitor", "endpoint"}
TwoConditions == <<Database, Mqtt>>
=============================================================================
