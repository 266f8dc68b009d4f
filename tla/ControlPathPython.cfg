SPECIFICATION Spec
CONSTANTS
    Requests = {r1, r2, r3}
    None = None
    NaN = NaN
    Devices <- CameraAndSensor
    Commands <- OffAndRecord
    PythonActuators = TRUE
    GatewayTimeout = TRUE
    MaxDatagrams = 2
    MaxDeviceCrashes = 0
    MaxGatewayCrashes = 0
SYMMETRY Symmetric
INVARIANTS
    AnswersAreTrue
PROPERTIES
    CacheSpec
