--------------------------- MODULE MCControlPath ---------------------------
(* Small instances of ControlPath, and of its inductive invariant, for TLC. *)
EXTENDS ControlPathProofs, TLC

Plain(type) == [type |-> type, value |-> 0, text |-> ""]
WithText(type, text) == [type |-> type, value |-> 0, text |-> text]
Bright(value) ==
    [type |-> "STREET_LIGHT_SET_BRIGHTNESS", value |-> value, text |-> ""]

CameraAndSensor == {"camera-1", "temp-1"}
CameraOnly == {"camera-1"}
LampAndLight == {"semaforo-1", "poste-1"}
LampOnly == {"poste-1"}

\* Switching off against starting to record: the two orders differ.
PowerAndRecording ==
    {Plain("DEACTIVATE"), Plain("CAMERA_START_RECORDING"), Plain("ACTIVATE")}

OffAndRecord == {Plain("DEACTIVATE"), Plain("CAMERA_START_RECORDING")}

\* Both ends of the range and what lies just outside, a value that rounds up
\* to 100, a colour that is none.
LightCommands ==
    {Plain("DEACTIVATE"), WithText("TRAFFIC_LIGHT_SET_COLOR", "verde"),
     WithText("TRAFFIC_LIGHT_SET_COLOR", "azul"),
     WithText("TRAFFIC_LIGHT_SET_MODE", "automatico"),
     Bright(0), Bright(-1), Bright(1000), Bright(1001), Bright(996)}

NaNCommands == {Bright(300), Bright(NaN)}

OnOff == {Plain("DEACTIVATE"), Plain("ACTIVATE")}

Symmetric == Permutations(Requests)
=============================================================================
