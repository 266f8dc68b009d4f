SPECIFICATION Spec
CONSTANTS
    Requests = {r1}
    None = None
    NaN = NaN
    Devices <- LampOnly
    Commands <- NaNCommands
    PythonActuators = FALSE
    GatewayTimeout = FALSE
    MaxDatagrams = 1
    MaxDeviceCrashes = 0
    MaxGatewayCrashes = 0
INVARIANT BrightnessInRange
