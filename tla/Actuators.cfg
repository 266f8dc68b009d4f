SPECIFICATION Spec
CONSTANTS
    Requests = {r1, r2}
    None = None
    NaN = NaN
    Devices <- LampAndLight
    Commands <- LightCommands
    PythonActuators = FALSE
    GatewayTimeout = FALSE
    MaxDatagrams = 1
    MaxDeviceCrashes = 0
    MaxGatewayCrashes = 0
SYMMETRY Symmetric
INVARIANTS
    BrightnessInRange
PROPERTIES
    DoneStaysDone
