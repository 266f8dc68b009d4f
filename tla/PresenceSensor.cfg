SPECIFICATION Spec
CONSTANTS
    Devices = {temp}
    Sensors = {temp}
    Frequency <- Announced
    Grace = 10
    DiscoveryPeriod = 5
    ReadingPeriod = 2
    Jitter = 1
    MaxDelay = 1
    MaxWait = 1
    MaxLosses = 2
    MaxStops = 2
    Horizon = 21
INVARIANTS
    LiveInv
    DeadShownInactive
    LiveShownActive
