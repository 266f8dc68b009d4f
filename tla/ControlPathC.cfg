SPECIFICATION FairSpec
CONSTANTS
    Requests = {r1, r2}
    None = None
    NaN = NaN
    Devices <- CameraOnly
    Commands <- PowerAndRecording
    PythonActuators = FALSE
    GatewayTimeout = FALSE
    MaxDatagrams = 2
    MaxDeviceCrashes = 1
    MaxGatewayCrashes = 1
INVARIANTS
    AnswersAreTrue
    RecordingNeedsPower
    IndInv
PROPERTIES
    DoneStaysDone
    FailureIsFinal
    CacheSpec
    EveryRequestEnds
    RegistryCatchesUp
