SPECIFICATION Spec
CONSTANTS
    page1 = page1
    Sessions = {page1}
    Scripts = {"gateway", "camera", "sensor"}
    DeviceScripts = {"camera", "sensor"}
    None = None
    TTL = 3
    MaxPause = 1
    MaxStarts = 2
    Horizon = 5
INVARIANTS
    WebInv
    RivalsAreYoung
    RefusalsAreWarranted
    StopIsThorough
CHECK_DEADLOCK FALSE
