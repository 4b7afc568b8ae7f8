SPECIFICATION BreakerSpec
CONSTANTS
    MaxFailures = 2
    BaseCooldown = 2
    CriticalFailures = 3
    MaxLatency = 1
    MinBalance = 2
    MaxNodeLag = 1
    CountCap = 1
PROPERTIES
    EventuallyCools
