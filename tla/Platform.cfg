SPECIFICATION FairSpec
CONSTANTS
    None = None
    Evaluators <- MonitorAndEndpoint
    Conditions <- TwoConditions
    MaxMessages = 1
    MaxFailures = 1
INVARIANTS OneNetworkThread
PROPERTIES FaultRaised HealthClears
