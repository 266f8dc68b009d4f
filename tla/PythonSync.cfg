SPECIFICATION Spec
CONSTANTS
    Requests = {r1, r2}
    None = None
    NaN = NaN
    Devices <- CameraOnly
    Commands <- OnOff
    PythonActuators = TRUE
    GatewayTimeout = TRUE
    MaxDatagrams = 1
    MaxDeviceCrashes = 0
    MaxGatewayCrashes = 0
INVARIANT ConfirmedInSync
