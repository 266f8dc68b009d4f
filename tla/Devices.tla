------------------------------ MODULE Devices ------------------------------
(***************************************************************************)
(* The devices of the city, as pure operators: what state each program     *)
(* starts in, what each command does to it (handle_command), and what the  *)
(* device says of itself, both in a discovery response and in the answer   *)
(* to a command.  Nothing here takes a step: module ControlPath decides    *)
(* when a device reads or changes its state.                               *)
(*                                                                         *)
(* Abstractions.  A text is the tuple of the words the program prints into *)
(* it.  Numbers are tenths of a percent, so that "%.0f" has something to   *)
(* round.  Directions are shorter than the 64 bytes of CameraState, and    *)
(* colours and modes are in lower case, where both implementations agree.  *)
(* The threshold travels with the frequency and is left out.               *)
(***************************************************************************)
EXTENDS Integers

CONSTANTS
    Devices,    \* the devices that exist in this city, by their ids
    Commands,   \* the commands a client may send
    NaN         \* the double that is neither below 0 nor above 100

Actuators == {"camera-1", "semaforo-1", "poste-1"}
Sensors == {"temp-1", "air-1", "noise-1"}

CommandTypes ==
    {"ACTIVATE", "DEACTIVATE", "SET_FREQUENCY", "SET_THRESHOLD",
     "CAMERA_START_RECORDING", "CAMERA_STOP_RECORDING", "CAMERA_SET_DIRECTION",
     "TRAFFIC_LIGHT_SET_COLOR", "TRAFFIC_LIGHT_SET_MODE",
     "STREET_LIGHT_SET_BRIGHTNESS"}

ASSUME DevicesAssumption == Devices \subseteq Actuators \cup Sensors

ASSUME NaNAssumption == NaN \notin Int

\* Exact halves of a percent are left out: how "%.0f" rounds them is the C
\* library's choice.
ASSUME CommandsAssumption ==
    /\ Commands \subseteq
         [type : CommandTypes, value : Int \cup {NaN}, text : STRING]
    /\ \A c \in Commands : c.value = NaN \/ c.value % 10 # 5

(***************************************************************************)
(* Results of handle_command: the status of the ControlResponse and the    *)
(* state the device is left in.                                            *)
(***************************************************************************)
Done(s) == [status |-> "OK", state |-> s]
Refused(s) == [status |-> "ERROR", state |-> s]

(***************************************************************************)
(* The camera.                                                             *)
(***************************************************************************)
Directions == {"Norte"} \cup {c.text : c \in Commands}

CameraStates == [active : BOOLEAN, recording : BOOLEAN, direction : Directions]

CameraInit == [active |-> TRUE, recording |-> FALSE, direction |-> "Norte"]

CameraText(s) ==
    << IF s.active THEN "ligada" ELSE "desligada",
       IF s.recording THEN "gravando" ELSE "sem gravacao",
       s.direction >>

\* Variant: switching the camera off leaves the recorder running.
CameraHandleKeepsRecording(s, c) ==
    CASE c.type = "ACTIVATE" -> Done([s EXCEPT !.active = TRUE])
      [] c.type = "DEACTIVATE" -> Done([s EXCEPT !.active = FALSE])
      [] c.type = "CAMERA_START_RECORDING" /\ s.active ->
            Done([s EXCEPT !.recording = TRUE])
      [] c.type = "CAMERA_STOP_RECORDING" ->
            Done([s EXCEPT !.recording = FALSE])
      [] c.type = "CAMERA_SET_DIRECTION" /\ c.text # "" ->
            Done([s EXCEPT !.direction = c.text])
      [] OTHER -> Refused(s)

CameraHandle(s, c) ==
    CASE c.type = "ACTIVATE" -> Done([s EXCEPT !.active = TRUE])
      [] c.type = "DEACTIVATE" ->
            Done([s EXCEPT !.active = FALSE, !.recording = FALSE])
      [] c.type = "CAMERA_START_RECORDING" /\ s.active ->
            Done([s EXCEPT !.recording = TRUE])
      [] c.type = "CAMERA_STOP_RECORDING" ->
            Done([s EXCEPT !.recording = FALSE])
      [] c.type = "CAMERA_SET_DIRECTION" /\ c.text # "" ->
            Done([s EXCEPT !.direction = c.text])
      [] OTHER -> Refused(s)

(***************************************************************************)
(* The traffic light.  A colour set by hand also leaves automatic mode.    *)
(***************************************************************************)
Colors == {"verde", "amarelo", "vermelho"}
Modes == {"automatico", "manual"}

TrafficLightStates == [active : BOOLEAN, color : Colors, mode : Modes]

TrafficLightInit ==
    [active |-> TRUE, color |-> "vermelho", mode |-> "automatico"]

TrafficLightText(s) ==
    << IF s.active THEN "ligado" ELSE "desligado", s.color, s.mode >>

\* Variant: switched off, it forgets what it was set to.
TrafficLightHandleForgets(s, c) ==
    CASE c.type = "ACTIVATE" -> Done([s EXCEPT !.active = TRUE])
      [] c.type = "DEACTIVATE" ->
            Done([TrafficLightInit EXCEPT !.active = FALSE])
      [] c.type = "TRAFFIC_LIGHT_SET_COLOR" /\ c.text \in Colors ->
            Done([s EXCEPT !.color = c.text, !.mode = "manual"])
      [] c.type = "TRAFFIC_LIGHT_SET_MODE" /\ c.text \in Modes ->
            Done([s EXCEPT !.mode = c.text])
      [] OTHER -> Refused(s)

TrafficLightHandle(s, c) ==
    CASE c.type = "ACTIVATE" -> Done([s EXCEPT !.active = TRUE])
      [] c.type = "DEACTIVATE" -> Done([s EXCEPT !.active = FALSE])
      [] c.type = "TRAFFIC_LIGHT_SET_COLOR" /\ c.text \in Colors ->
            Done([s EXCEPT !.color = c.text, !.mode = "manual"])
      [] c.type = "TRAFFIC_LIGHT_SET_MODE" /\ c.text \in Modes ->
            Done([s EXCEPT !.mode = c.text])
      [] OTHER -> Refused(s)

(***************************************************************************)
(* The street light.  A comparison with NaN is false, so the range test    *)
(* lets it through, and "%.0f" prints it as a word of its own.             *)
(***************************************************************************)
Brightnesses == {700} \cup {c.value : c \in Commands}

StreetLightStates == [active : BOOLEAN, brightness : Brightnesses]

StreetLightInit == [active |-> TRUE, brightness |-> 700]

Percent(v) == IF v = NaN THEN "nan" ELSE (v + 5) \div 10

StreetLightText(s) ==
    << IF s.active THEN "ligado" ELSE "desligado", Percent(s.brightness) >>

\* Variant: only the upper end is tested.
OutOfRangeAbove(v) == v # NaN /\ v > 1000

OutOfRange(v) == v # NaN /\ (v < 0 \/ v > 1000)

StreetLightHandle(s, c) ==
    CASE c.type = "ACTIVATE" -> Done([s EXCEPT !.active = TRUE])
      [] c.type = "DEACTIVATE" -> Done([s EXCEPT !.active = FALSE])
      [] c.type = "STREET_LIGHT_SET_BRIGHTNESS" /\ ~OutOfRange(c.value) ->
            Done([s EXCEPT !.brightness = c.value])
      [] OTHER -> Refused(s)

(***************************************************************************)
(* The devices by id.  A sensor accepts no commands and has no state that  *)
(* changes.                                                                *)
(***************************************************************************)
SensorState == [active |-> TRUE]

States(d) ==
    CASE d = "camera-1" -> CameraStates
      [] d = "semaforo-1" -> TrafficLightStates
      [] d = "poste-1" -> StreetLightStates
      [] OTHER -> {SensorState}

InitState(d) ==
    CASE d = "camera-1" -> CameraInit
      [] d = "semaforo-1" -> TrafficLightInit
      [] d = "poste-1" -> StreetLightInit
      [] OTHER -> SensorState

HandleCommand(d, s, c) ==
    CASE d = "camera-1" -> CameraHandle(s, c)
      [] d = "semaforo-1" -> TrafficLightHandle(s, c)
      [] d = "poste-1" -> StreetLightHandle(s, c)

(***************************************************************************)
(* What a device answers to a discovery request.                           *)
(***************************************************************************)
ActuatorInfo(port, s, text) ==
    [kind |-> "ACTUATOR", port |-> port, active |-> s.active,
     frequency |-> 0, text |-> text]

SensorInfo(frequency, text) ==
    [kind |-> "SENSOR", port |-> 0, active |-> TRUE,
     frequency |-> frequency, text |-> <<text>>]

CameraInfo(s) == ActuatorInfo(9201, s, CameraText(s))
TrafficLightInfo(s) == ActuatorInfo(9202, s, TrafficLightText(s))
StreetLightInfo(s) == ActuatorInfo(9203, s, StreetLightText(s))
TemperatureInfo == SensorInfo(2, "Temperatura via UDP")
AirQualityInfo == SensorInfo(2, "CO2 e umidade via UDP")
NoiseInfo == SensorInfo(1, "Ruido via UDP")

Info(d, s) ==
    CASE d = "camera-1" -> CameraInfo(s)
      [] d = "semaforo-1" -> TrafficLightInfo(s)
      [] d = "poste-1" -> StreetLightInfo(s)
      [] d = "temp-1" -> TemperatureInfo
      [] d = "air-1" -> AirQualityInfo
      [] d = "noise-1" -> NoiseInfo

\* The ControlResponse: a verdict and the same view of the state.
ReplyTo(d, status, s) ==
    [status |-> status, active |-> Info(d, s).active,
     frequency |-> Info(d, s).frequency, text |-> Info(d, s).text]

Verdicts == {"OK", "ERROR"}

Infos(d) == {Info(d, s) : s \in States(d)}
Replies(d) == {ReplyTo(d, v, s) : v \in Verdicts, s \in States(d)}

AllStates == UNION {States(d) : d \in Devices}
AllInfos == UNION {Infos(d) : d \in Devices}
AllReplies == UNION {Replies(d) : d \in Devices}
=============================================================================
