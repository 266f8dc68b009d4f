SPECIFICATION Spec
CONSTANTS
    Devices = {camera}
    Sensors = {}
    Frequency <- Announced
    Grace = 10
    DiscoveryPeriod = 5
    ReadingPeriod = 2
    Jitter = 1
    MaxDelay = 1
    MaxWait = 1
    MaxLosses = 1
    MaxStops = 3
    Horizon = 15
INVARIANTS
    LiveInv
    LiveShownActive
