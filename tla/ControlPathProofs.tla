------------------------- MODULE ControlPathProofs -------------------------
(***************************************************************************)
(* Theorems about ControlPath, for every set of devices, commands and      *)
(* requests, any number of crashes, and either implementation.             *)
(***************************************************************************)
EXTENDS ControlPath, TLAPS

-----------------------------------------------------------------------------
(* What the operators of Devices return, for every set of devices and      *)
(* commands.  The rest never opens the definitions of a single device, but *)
(* for the brightness of the street light.                                 *)

\* Every program starts in a state of its device (the main functions).
LEMMA InitStateType ==
    \A d : InitState(d) \in States(d)
  <1>1. CameraInit \in CameraStates
    BY DEF CameraInit, CameraStates, Directions
  <1>2. TrafficLightInit \in TrafficLightStates
    BY DEF TrafficLightInit, TrafficLightStates, Colors, Modes
  <1>3. StreetLightInit \in StreetLightStates
    BY DEF StreetLightInit, StreetLightStates, Brightnesses
  <1>4. QED
    BY <1>1, <1>2, <1>3 DEF InitState, States

\* The two kinds of results of handle_command.
LEMMA Results ==
    \A s : /\ Done(s).state = s /\ Done(s).status = "OK"
           /\ Refused(s).state = s /\ Refused(s).status = "ERROR"
  BY DEF Done, Refused

\* handle_command of the camera leads from states to states and refuses
\* without a change.
LEMMA CameraHandleType ==
    ASSUME NEW s \in CameraStates, NEW c \in Commands
    PROVE  /\ CameraHandle(s, c).state \in CameraStates
           /\ CameraHandle(s, c).status \in Verdicts
           /\ CameraHandle(s, c).status = "ERROR" =>
                CameraHandle(s, c).state = s
  <1>1. \/ CameraHandle(s, c) = Done([s EXCEPT !.active = TRUE])
        \/ CameraHandle(s, c) =
             Done([s EXCEPT !.active = FALSE, !.recording = FALSE])
        \/ CameraHandle(s, c) = Done([s EXCEPT !.recording = TRUE])
        \/ CameraHandle(s, c) = Done([s EXCEPT !.recording = FALSE])
        \/ CameraHandle(s, c) = Done([s EXCEPT !.direction = c.text])
        \/ CameraHandle(s, c) = Refused(s)
    BY DEF CameraHandle
  <1>2. /\ [s EXCEPT !.active = TRUE] \in CameraStates
        /\ [s EXCEPT !.active = FALSE, !.recording = FALSE] \in CameraStates
        /\ [s EXCEPT !.recording = TRUE] \in CameraStates
        /\ [s EXCEPT !.recording = FALSE] \in CameraStates
        /\ [s EXCEPT !.direction = c.text] \in CameraStates
    <2>1. c.text \in Directions
      BY DEF Directions
    <2>2. QED
      BY <2>1 DEF CameraStates
  <1>3. QED
    BY <1>1, <1>2, Results DEF Verdicts

\* The same for the traffic light.
LEMMA TrafficLightHandleType ==
    ASSUME NEW s \in TrafficLightStates, NEW c \in Commands
    PROVE  /\ TrafficLightHandle(s, c).state \in TrafficLightStates
           /\ TrafficLightHandle(s, c).status \in Verdicts
           /\ TrafficLightHandle(s, c).status = "ERROR" =>
                TrafficLightHandle(s, c).state = s
  <1>1. \/ TrafficLightHandle(s, c) = Done([s EXCEPT !.active = TRUE])
        \/ TrafficLightHandle(s, c) = Done([s EXCEPT !.active = FALSE])
        \/ /\ c.text \in Colors
           /\ TrafficLightHandle(s, c) =
                Done([s EXCEPT !.color = c.text, !.mode = "manual"])
        \/ /\ c.text \in Modes
           /\ TrafficLightHandle(s, c) = Done([s EXCEPT !.mode = c.text])
        \/ TrafficLightHandle(s, c) = Refused(s)
    BY DEF TrafficLightHandle
  <1>2. /\ [s EXCEPT !.active = TRUE] \in TrafficLightStates
        /\ [s EXCEPT !.active = FALSE] \in TrafficLightStates
        /\ c.text \in Colors =>
             [s EXCEPT !.color = c.text, !.mode = "manual"]
                \in TrafficLightStates
        /\ c.text \in Modes =>
             [s EXCEPT !.mode = c.text] \in TrafficLightStates
    <2>1. "manual" \in Modes
      BY DEF Modes
    <2>2. QED
      BY <2>1 DEF TrafficLightStates
  <1>3. QED
    BY <1>1, <1>2, Results DEF Verdicts

\* The same for the street light.
LEMMA StreetLightHandleType ==
    ASSUME NEW s \in StreetLightStates, NEW c \in Commands
    PROVE  /\ StreetLightHandle(s, c).state \in StreetLightStates
           /\ StreetLightHandle(s, c).status \in Verdicts
           /\ StreetLightHandle(s, c).status = "ERROR" =>
                StreetLightHandle(s, c).state = s
  <1>1. \/ StreetLightHandle(s, c) = Done([s EXCEPT !.active = TRUE])
        \/ StreetLightHandle(s, c) = Done([s EXCEPT !.active = FALSE])
        \/ StreetLightHandle(s, c) = Done([s EXCEPT !.brightness = c.value])
        \/ StreetLightHandle(s, c) = Refused(s)
    BY DEF StreetLightHandle
  <1>2. /\ [s EXCEPT !.active = TRUE] \in StreetLightStates
        /\ [s EXCEPT !.active = FALSE] \in StreetLightStates
        /\ [s EXCEPT !.brightness = c.value] \in StreetLightStates
    <2>1. c.value \in Brightnesses
      BY DEF Brightnesses
    <2>2. QED
      BY <2>1 DEF StreetLightStates
  <1>3. QED
    BY <1>1, <1>2, Results DEF Verdicts

\* handle_command of every actuator: a verdict, a state of the device, and no
\* change with an error.
LEMMA HandleCommandType ==
    ASSUME NEW d \in Actuators, NEW s \in States(d), NEW c \in Commands
    PROVE  /\ HandleCommand(d, s, c).state \in States(d)
           /\ HandleCommand(d, s, c).status \in Verdicts
           /\ HandleCommand(d, s, c).status = "ERROR" =>
                HandleCommand(d, s, c).state = s
  <1>1. CASE d = "camera-1"
    BY <1>1, CameraHandleType DEF HandleCommand, States
  <1>2. CASE d = "semaforo-1"
    BY <1>2, TrafficLightHandleType DEF HandleCommand, States
  <1>3. CASE d = "poste-1"
    BY <1>3, StreetLightHandleType DEF HandleCommand, States
  <1>4. QED
    BY <1>1, <1>2, <1>3 DEF Actuators

\* A camera that is off does not record, after any command.
LEMMA CameraNeedsPower ==
    ASSUME NEW s \in CameraStates, NEW c \in Commands,
           s.recording => s.active
    PROVE  CameraHandle(s, c).state.recording =>
             CameraHandle(s, c).state.active
  BY DEF CameraHandle, CameraStates, Done, Refused

\* Exactly the actuators announce themselves as controllable.
LEMMA ActuatorsAreControllable ==
    ASSUME NEW d \in Actuators \cup Sensors, NEW s
    PROVE  (Info(d, s).kind = "ACTUATOR") <=> d \in Actuators
  BY DEF Actuators, Sensors, Info, CameraInfo, TrafficLightInfo,
         StreetLightInfo, TemperatureInfo, AirQualityInfo, NoiseInfo,
         ActuatorInfo, SensorInfo

\* An entry that takes over a reply is what discovery would have announced:
\* the two ways in which the gateway learns a state agree.
LEMMA ReplyCompletesInfo ==
    ASSUME NEW d \in Actuators \cup Sensors, NEW s, NEW t, NEW v
    PROVE  [kind |-> Info(d, s).kind, port |-> Info(d, s).port,
            active |-> ReplyTo(d, v, t).active,
            frequency |-> ReplyTo(d, v, t).frequency,
            text |-> ReplyTo(d, v, t).text] = Info(d, t)
  <1>1. /\ ReplyTo(d, v, t).active = Info(d, t).active
        /\ ReplyTo(d, v, t).frequency = Info(d, t).frequency
        /\ ReplyTo(d, v, t).text = Info(d, t).text
    BY DEF ReplyTo
  <1>2. /\ Info(d, s).kind = Info(d, t).kind
        /\ Info(d, s).port = Info(d, t).port
        /\ Info(d, t) = [kind |-> Info(d, t).kind, port |-> Info(d, t).port,
                         active |-> Info(d, t).active,
                         frequency |-> Info(d, t).frequency,
                         text |-> Info(d, t).text]
    <2>1. CASE d = "camera-1"
      BY <2>1 DEF Info, CameraInfo, ActuatorInfo
    <2>2. CASE d = "semaforo-1"
      BY <2>2 DEF Info, TrafficLightInfo, ActuatorInfo
    <2>3. CASE d = "poste-1"
      BY <2>3 DEF Info, StreetLightInfo, ActuatorInfo
    <2>4. CASE d = "temp-1"
      BY <2>4 DEF Info, TemperatureInfo, SensorInfo
    <2>5. CASE d = "air-1"
      BY <2>5 DEF Info, AirQualityInfo, SensorInfo
    <2>6. CASE d = "noise-1"
      BY <2>6 DEF Info, NoiseInfo, SensorInfo
    <2>7. QED
      BY <2>1, <2>2, <2>3, <2>4, <2>5, <2>6 DEF Actuators, Sensors
  <1>3. QED
    BY <1>1, <1>2

-----------------------------------------------------------------------------

(***************************************************************************)
(* The inductive invariant.  LifeCycle ties the steps of a request to the  *)
(* state of its connection; Truth says that everything on its way to the   *)
(* registry, and the registry itself, was true of the device once.         *)
(***************************************************************************)
Life(r) ==
    /\ phase[r] = "new" <=> call[r] = None
    /\ phase[r] \in {"new", "connect"} => conn[r] = "none"
    /\ phase[r] = "await" =>
         conn[r] \in {"queued", "executing", "replied", "reset"}
    /\ phase[r] = "connect" \/ conn[r] # "none" => Target(r) \in Actuators
    /\ conn[r] \in {"none", "queued"} => runs[r] = 0
    /\ conn[r] \in {"executing", "replied"} => runs[r] = 1
    /\ runs[r] <= 1
    /\ phase[r] = "done" <=> answer[r] # "none"
    /\ answer[r] \in Verdicts => runs[r] = 1
    /\ answer[r] \in EarlyAnswers => conn[r] = "none"
    /\ phase[r] = "done" /\ answer[r] # "TimedOut" =>
         conn[r] \notin {"queued", "executing"}
    /\ conn[r] \in {"executing", "replied"} => reply[r] # None
    /\ reply[r] # None => conn[r] # "none"

LifeCycle == \A r \in Requests : Life(r)

RegistryTrue ==
    \A d \in Devices :
        registry[d] # None => \E s \in past[d] : registry[d] = Info(d, s)

ResponsesTrue ==
    \A m \in responses : \E s \in past[m.device] : m.info = Info(m.device, s)

RepliesTrue ==
    \A r \in Requests :
        reply[r] # None =>
          \E s \in past[Target(r)], v \in Verdicts :
             reply[r] = ReplyTo(Target(r), v, s)

Truth == RegistryTrue /\ ResponsesTrue /\ RepliesTrue

IndInv == TypeOK /\ LifeCycle /\ Truth

-----------------------------------------------------------------------------
(* Types                                                                   *)

\* What belongs to one device belongs to the union over all devices.
LEMMA AllAreAll ==
    /\ \A d \in Devices : States(d) \subseteq AllStates
    /\ \A d \in Devices : Infos(d) \subseteq AllInfos
    /\ \A d \in Devices : Replies(d) \subseteq AllReplies
  BY DEF AllStates, AllInfos, AllReplies

\* The announcements and replies of a device are made from its states.
LEMMA InfoReplyType ==
    ASSUME NEW d \in Devices, NEW s \in States(d)
    PROVE  /\ Info(d, s) \in Infos(d)
           /\ \A v \in Verdicts : ReplyTo(d, v, s) \in Replies(d)
  BY DEF Infos, Replies

\* The invariant makes a request that reached an actuator usable there.
LEMMA TargetType ==
    ASSUME TypeOK, LifeCycle, NEW r \in Requests,
           phase[r] # "new" \/ conn[r] # "none"
    PROVE  /\ call[r] \in Calls
           /\ Target(r) \in Devices
           /\ call[r].command \in Commands
           /\ conn[r] # "none" => Target(r) \in Actuators
  BY DEF TypeOK, RequestTypeOK, LifeCycle, Life, Target, Calls

\* handle_command keeps the types (control_thread of the actuators).
LEMMA HandleTypes ==
    ASSUME TypeOK, LifeCycle, NEW r \in Requests, Handle(r)
    PROVE  /\ DeviceTypeOK'
           /\ reply' \in [Requests -> {None} \cup AllReplies]
  <1> DEFINE d == Target(r)
             h == HandleCommand(d, state[d], call[r].command)
  <1>1. /\ d \in Devices /\ d \in Actuators
        /\ call[r].command \in Commands
        /\ state[d] \in States(d)
    BY TargetType DEF Handle, TypeOK, DeviceTypeOK
  <1>2. h.state \in States(d) /\ h.status \in Verdicts
    BY <1>1, HandleCommandType
  <1>3. ReplyTo(d, h.status, h.state) \in AllReplies
    BY <1>1, <1>2, InfoReplyType, AllAreAll
  <1>4. h.state \in AllStates
    BY <1>1, <1>2, AllAreAll
  <1>5. /\ state' = [state EXCEPT ![d] = h.state]
        /\ past' = [past EXCEPT ![d] = @ \cup {h.state}]
        /\ reply' = [reply EXCEPT ![r] = ReplyTo(d, h.status, h.state)]
    BY DEF Handle, BuiltReply
  <1> HIDE DEF d, h
  <1>6. DeviceTypeOK'
    BY <1>1, <1>2, <1>4, <1>5 DEF TypeOK, DeviceTypeOK
  <1>7. reply' \in [Requests -> {None} \cup AllReplies]
    BY <1>3, <1>5 DEF TypeOK, RequestTypeOK
  <1>8. QED
    BY <1>6, <1>7

\* What is sent as a reply is a reply of the device asked.
LEMMA ReportType ==
    ASSUME IndInv, NEW r \in Requests, conn[r] = "executing"
    PROVE  \E s \in past[Target(r)], v \in Verdicts :
              Report(r) = ReplyTo(Target(r), v, s)
  <1>1. Target(r) \in Devices
    BY TargetType DEF IndInv
  <1>2. state[Target(r)] \in past[Target(r)]
    BY <1>1 DEF IndInv, TypeOK, DeviceTypeOK
  <1>3. \E s \in past[Target(r)], v \in Verdicts :
           reply[r] = ReplyTo(Target(r), v, s)
    BY DEF IndInv, LifeCycle, Life, Truth, RepliesTrue
  <1>4. "ERROR" \in Verdicts
    BY DEF Verdicts
  <1>5. QED
    BY <1>2, <1>3, <1>4 DEF Report

\* An entry that takes over a reply is an announcement of the same device.
LEMMA ConfirmedIsInfo ==
    ASSUME IndInv, NEW r \in Requests, conn[r] = "replied",
           registry[Target(r)] # None
    PROVE  \E s \in past[Target(r)] :
              Confirmed(registry[Target(r)], reply[r]) = Info(Target(r), s)
  <1>1. Target(r) \in Devices
    BY TargetType DEF IndInv
  <1>2. PICK s \in past[Target(r)] :
           registry[Target(r)] = Info(Target(r), s)
    BY <1>1 DEF IndInv, Truth, RegistryTrue
  <1>3. PICK t \in past[Target(r)], v \in Verdicts :
           reply[r] = ReplyTo(Target(r), v, t)
    BY DEF IndInv, LifeCycle, Life, Truth, RepliesTrue
  <1>4. Confirmed(Info(Target(r), s), ReplyTo(Target(r), v, t)) =
          Info(Target(r), t)
    BY <1>1, ReplyCompletesInfo, DevicesAssumption DEF Confirmed
  <1>5. QED
    BY <1>2, <1>3, <1>4

\* Every step of the system keeps the types.
LEMMA TypeStep ==
    ASSUME IndInv, [Next]_vars
    PROVE  TypeOK'
  <1>1. ASSUME NEW r \in Requests, Arrival(r) PROVE TypeOK'
    <2>1. PICK d \in Devices, c \in Commands :
             RejectUnknown(r, d, c) \/ RejectSensor(r, d, c) \/ Accept(r, d, c)
      BY <1>1 DEF Arrival
    <2>2. /\ call' = [call EXCEPT ![r] = [device |-> d, command |-> c]]
          /\ UNCHANGED <<processVars, deviceVars, registry, discoveryVars,
                         conn, reply, runs>>
          /\ phase' \in [Requests -> Phases]
          /\ answer' \in [Requests -> Answers]
      BY <2>1 DEF RejectUnknown, RejectSensor, Accept, Arrives, Finish, IndInv,
         TypeOK, RequestTypeOK, Phases, Answers, EarlyAnswers
    <2>3. [device |-> d, command |-> c] \in Calls
      BY DEF Calls
    <2>4. QED
      BY <2>2, <2>3 DEF IndInv, TypeOK, ProcessTypeOK, DeviceTypeOK,
         RegistryTypeOK, DiscoveryTypeOK, RequestTypeOK, processVars, deviceVars, discoveryVars
  <1>2. ASSUME NEW r \in Requests, Connect(r) PROVE TypeOK'
    BY <1>2
       DEF Connect, IndInv, TypeOK, ProcessTypeOK, DeviceTypeOK,
           RegistryTypeOK, DiscoveryTypeOK, RequestTypeOK, processVars,
           deviceVars, discoveryVars, requestVars,
           Phases, Conns
  <1>3. ASSUME NEW r \in Requests, ConnectFail(r) PROVE TypeOK'
    BY <1>3
       DEF ConnectFail, IndInv, TypeOK, ProcessTypeOK, DeviceTypeOK,
           RegistryTypeOK, DiscoveryTypeOK, RequestTypeOK, processVars,
           deviceVars, discoveryVars, requestVars,
           Finish, Phases, Answers,
             EarlyAnswers
  <1>4. ASSUME NEW r \in Requests, Receive(r) PROVE TypeOK'
    <2>1. Target(r) \in Devices
      BY <1>4, TargetType DEF Receive, IndInv
    <2>2. reply[r].status \in Verdicts
      <3>1. reply[r] # None
        BY <1>4 DEF Receive, IndInv, LifeCycle, Life
      <3>2. PICK s \in past[Target(r)], v \in Verdicts :
               reply[r] = ReplyTo(Target(r), v, s)
        BY <3>1 DEF IndInv, Truth, RepliesTrue
      <3>3. QED
        BY <3>2 DEF ReplyTo
    <2>3. registry[Target(r)] # None =>
            Confirmed(registry[Target(r)], reply[r]) \in Infos(Target(r))
      BY <1>4, <2>1, ConfirmedIsInfo, InfoReplyType
         DEF Receive, IndInv, TypeOK, DeviceTypeOK
    <2>4. RegistryTypeOK'
      BY <1>4, <2>1, <2>3, AllAreAll
         DEF Receive, IndInv, TypeOK, RegistryTypeOK
    <2>5. RequestTypeOK'
      BY <1>4, <2>2
         DEF Receive, Finish, IndInv, TypeOK, RequestTypeOK, Phases, Conns,
             Answers
    <2>6. QED
      BY <1>4, <2>4, <2>5
         DEF Receive, IndInv, TypeOK, ProcessTypeOK, DeviceTypeOK,
             DiscoveryTypeOK, processVars, deviceVars, discoveryVars
  <1>5. ASSUME NEW r \in Requests, NoResponse(r) PROVE TypeOK'
    BY <1>5
       DEF NoResponse, IndInv, TypeOK, ProcessTypeOK, DeviceTypeOK,
           RegistryTypeOK, DiscoveryTypeOK, RequestTypeOK, processVars,
           deviceVars, discoveryVars, requestVars,
           Finish, Phases, Answers,
             LateFailures
  <1>6. ASSUME NEW r \in Requests, Timeout(r) PROVE TypeOK'
    BY <1>6
       DEF Timeout, IndInv, TypeOK, ProcessTypeOK, DeviceTypeOK,
           RegistryTypeOK, DiscoveryTypeOK, RequestTypeOK, processVars,
           deviceVars, discoveryVars, requestVars,
           Finish, Phases, Answers,
             LateFailures
  <1>7. ASSUME NEW r \in Requests, Handle(r) PROVE TypeOK'
    <2>1. DeviceTypeOK' /\ reply' \in [Requests -> {None} \cup AllReplies]
      BY <1>7, HandleTypes DEF IndInv
    <2>2. QED
      BY <1>7, <2>1
         DEF Handle, IndInv, TypeOK, ProcessTypeOK, RegistryTypeOK,
             DiscoveryTypeOK, RequestTypeOK, Conns, processVars, discoveryVars
  <1>8. ASSUME NEW r \in Requests, SendReply(r) PROVE TypeOK'
    <2>1. Report(r) \in AllReplies
      <3>1. Target(r) \in Devices
        BY <1>8, TargetType DEF SendReply, IndInv
      <3>2. QED
        BY <1>8, <3>1, ReportType, InfoReplyType, AllAreAll
           DEF SendReply, IndInv, TypeOK, DeviceTypeOK
    <2>2. QED
      BY <1>8, <2>1
         DEF SendReply, IndInv, TypeOK, ProcessTypeOK, DeviceTypeOK,
             RegistryTypeOK, DiscoveryTypeOK, RequestTypeOK, Conns,
             processVars, deviceVars, discoveryVars
  <1>9. ASSUME NEW d \in Devices, AnswerDiscovery(d) PROVE TypeOK'
    <2>1. [device |-> d, info |-> Info(d, state[d])] \in Datagrams
      <3>1. Info(d, state[d]) \in Infos(d)
        BY DEF IndInv, TypeOK, DeviceTypeOK, Infos
      <3>2. QED
        BY <3>1 DEF Datagrams
    <2>2. QED
      BY <1>9, <2>1
         DEF AnswerDiscovery, IndInv, TypeOK, ProcessTypeOK, DeviceTypeOK,
             RegistryTypeOK, DiscoveryTypeOK, RequestTypeOK, processVars,
             deviceVars, requestVars
  <1>10. ASSUME NEW d \in Devices, UpdateSensor(d) PROVE TypeOK'
    <2>1. PICK m \in InFlight(d) :
             /\ registry' = [registry EXCEPT ![d] = Discovered(@, m.info)]
             /\ responses' = responses \ {m}
      BY <1>10 DEF UpdateSensor
    <2>2. m.info \in Infos(d)
      BY <2>1 DEF InFlight, IndInv, TypeOK, DiscoveryTypeOK, Datagrams
    <2>3. RegistryTypeOK'
      BY <2>1, <2>2, AllAreAll
         DEF Discovered, IndInv, TypeOK, RegistryTypeOK
    <2>4. QED
      BY <1>10, <2>1, <2>3
         DEF UpdateSensor, IndInv, TypeOK, ProcessTypeOK, DeviceTypeOK,
             DiscoveryTypeOK, RequestTypeOK, processVars, deviceVars,
             requestVars
  <1>11. ASSUME NEW d \in Devices, LoseRequest(d) PROVE TypeOK'
    BY <1>11
       DEF LoseRequest, IndInv, TypeOK, ProcessTypeOK, DeviceTypeOK,
           RegistryTypeOK, DiscoveryTypeOK, RequestTypeOK, processVars,
           deviceVars, discoveryVars, requestVars
  <1>12. ASSUME NEW d \in Devices, LoseResponse(d) PROVE TypeOK'
    BY <1>12
       DEF LoseResponse, IndInv, TypeOK, ProcessTypeOK, DeviceTypeOK,
           RegistryTypeOK, DiscoveryTypeOK, RequestTypeOK, processVars,
           deviceVars, discoveryVars, requestVars
  <1>13. ASSUME NEW d \in Devices, CrashDevice(d) PROVE TypeOK'
    BY <1>13, BoundsAssumption
       DEF CrashDevice, IndInv, TypeOK, ProcessTypeOK, DeviceTypeOK,
           RegistryTypeOK, DiscoveryTypeOK, RequestTypeOK, processVars,
           deviceVars, discoveryVars, requestVars,
           Conns
  <1>14. ASSUME NEW d \in Devices, StartDevice(d) PROVE TypeOK'
    <2>1. InitState(d) \in States(d) /\ InitState(d) \in AllStates
      BY InitStateType, AllAreAll
    <2>2. DeviceTypeOK'
      BY <1>14, <2>1 DEF StartDevice, IndInv, TypeOK, DeviceTypeOK
    <2>3. QED
      BY <1>14, <2>2
         DEF StartDevice, IndInv, TypeOK, ProcessTypeOK, RegistryTypeOK,
             DiscoveryTypeOK, RequestTypeOK, discoveryVars, requestVars
  <1>15. ASSUME NEW d \in Devices, Listen(d) PROVE TypeOK'
    BY <1>15
       DEF Listen, IndInv, TypeOK, ProcessTypeOK, DeviceTypeOK,
           RegistryTypeOK, DiscoveryTypeOK, RequestTypeOK, processVars,
           deviceVars, discoveryVars, requestVars
  <1>16. ASSUME Discover PROVE TypeOK'
    BY <1>16
       DEF Discover, IndInv, TypeOK, ProcessTypeOK, DeviceTypeOK,
           RegistryTypeOK, DiscoveryTypeOK, RequestTypeOK, processVars,
           deviceVars, discoveryVars, requestVars
  <1>17. ASSUME CrashGateway PROVE TypeOK'
    <2>1. ProcessTypeOK'
      <3>1. /\ crashes.gateway \in 0 .. MaxGatewayCrashes
            /\ crashes.gateway < MaxGatewayCrashes
            /\ crashes' = [crashes EXCEPT !.gateway = @ + 1]
        BY <1>17 DEF CrashGateway, IndInv, TypeOK, ProcessTypeOK
      <3>2. crashes.gateway + 1 \in 0 .. MaxGatewayCrashes
        BY <3>1, BoundsAssumption
      <3>3. QED
        BY <1>17, <3>1, <3>2 DEF CrashGateway, IndInv, TypeOK, ProcessTypeOK
    <2>2. RegistryTypeOK' /\ DiscoveryTypeOK'
      BY <1>17
         DEF CrashGateway, IndInv, TypeOK, RegistryTypeOK, DiscoveryTypeOK
    <2>3. phase' \in [Requests -> Phases] /\ conn' \in [Requests -> Conns]
      BY <1>17 DEF CrashGateway, IndInv, TypeOK, RequestTypeOK, Phases, Conns
    <2>4. QED
      BY <1>17, <2>1, <2>2, <2>3
         DEF CrashGateway, IndInv, TypeOK, DeviceTypeOK, RequestTypeOK,
             deviceVars
  <1>18. ASSUME StartGateway PROVE TypeOK'
    BY <1>18
       DEF StartGateway, IndInv, TypeOK, ProcessTypeOK, DeviceTypeOK,
           RegistryTypeOK, DiscoveryTypeOK, RequestTypeOK, processVars,
           deviceVars, discoveryVars, requestVars
  <1>19. CASE UNCHANGED vars
    BY <1>19
       DEF vars, IndInv, TypeOK, ProcessTypeOK, DeviceTypeOK, RegistryTypeOK,
           DiscoveryTypeOK, RequestTypeOK, processVars, deviceVars,
           discoveryVars, requestVars
  <1>20. QED
    BY <1>1, <1>2, <1>3, <1>4, <1>5, <1>6, <1>7, <1>8, <1>9,
       <1>10, <1>11, <1>12, <1>13, <1>14, <1>15, <1>16, <1>17, <1>18, <1>19 DEF Next, ClientThread

-----------------------------------------------------------------------------
(* The life of a request                                                   *)

\* A step that leaves everything about a request alone keeps its Life.
LEMMA LifeUntouched ==
    ASSUME NEW q \in Requests, Life(q),
           phase'[q] = phase[q], call'[q] = call[q], conn'[q] = conn[q],
           reply'[q] = reply[q], answer'[q] = answer[q], runs'[q] = runs[q]
    PROVE  Life(q)'
  BY DEF Life, Target

\* Every step of the system keeps the requests' lives in order.
LEMMA LifeStep ==
    ASSUME IndInv, [Next]_vars
    PROVE  LifeCycle'
  <1> SUFFICES ASSUME NEW q \in Requests PROVE Life(q)'
    BY DEF LifeCycle
  <1>0. Life(q) /\ RequestTypeOK
    BY DEF IndInv, LifeCycle, TypeOK
  <1>1. ASSUME NEW r \in Requests, Arrival(r) PROVE Life(q)'
    <2>1. PICK d \in Devices, c \in Commands :
             RejectUnknown(r, d, c) \/ RejectSensor(r, d, c) \/ Accept(r, d, c)
      BY <1>1 DEF Arrival
    <2>2. CASE q # r
      BY <1>0, <2>1, <2>2, LifeUntouched
         DEF RejectUnknown, RejectSensor, Accept, Arrives, Finish,
             RequestTypeOK
    <2>3. [device |-> d, command |-> c] # None
      BY NoneAssumption
    <2>4. CASE q = r /\ (RejectUnknown(r, d, c) \/ RejectSensor(r, d, c))
      BY <1>0, <2>3, <2>4
         DEF RejectUnknown, RejectSensor, Arrives, Finish, Life, RequestTypeOK,
             Target, Verdicts, EarlyAnswers
    <2>5. CASE q = r /\ Accept(r, d, c)
      <3>1. d \in Actuators
        BY <2>5, ActuatorsAreControllable, DevicesAssumption
           DEF Accept, Controllable, IndInv, Truth, RegistryTrue
      <3>2. QED
        BY <1>0, <2>3, <2>5, <3>1
           DEF Accept, Arrives, Life, RequestTypeOK, Target, Verdicts,
               EarlyAnswers
    <2>6. QED
      BY <2>1, <2>2, <2>4, <2>5
  <1>2. ASSUME NEW r \in Requests, Connect(r) PROVE Life(q)'
    <2>1. CASE q # r
      BY <1>0, <1>2, <2>1, LifeUntouched
         DEF Connect, RequestTypeOK
    <2>2. CASE q = r
      BY <1>0, <1>2, <2>2
         DEF Connect, Life, RequestTypeOK, Target, Verdicts, EarlyAnswers
    <2>3. QED
      BY <2>1, <2>2
  <1>3. ASSUME NEW r \in Requests, ConnectFail(r) PROVE Life(q)'
    <2>1. CASE q # r
      BY <1>0, <1>3, <2>1, LifeUntouched
         DEF ConnectFail, Finish, RequestTypeOK
    <2>2. CASE q = r
      BY <1>0, <1>3, <2>2
         DEF ConnectFail, Finish, Life, RequestTypeOK, Target, Verdicts, EarlyAnswers
    <2>3. QED
      BY <2>1, <2>2
  <1>4. ASSUME NEW r \in Requests, Receive(r) PROVE Life(q)'
    <2>1. CASE q # r
      BY <1>0, <1>4, <2>1, LifeUntouched
         DEF Receive, Finish, RequestTypeOK
    <2>2. CASE q = r
      <3>1. reply[r] # None
        BY <1>0, <1>4, <2>2 DEF Receive, Life
      <3>2. PICK s \in past[Target(r)], v \in Verdicts :
               reply[r] = ReplyTo(Target(r), v, s)
        BY <3>1 DEF IndInv, Truth, RepliesTrue
      <3>3. reply[r].status \in Verdicts
        BY <3>2 DEF ReplyTo
      <3>4. QED
        BY <1>0, <1>4, <2>2, <3>3
           DEF Receive, Finish, Life, RequestTypeOK, Target, Verdicts,
               EarlyAnswers
    <2>3. QED
      BY <2>1, <2>2
  <1>5. ASSUME NEW r \in Requests, NoResponse(r) PROVE Life(q)'
    <2>1. CASE q # r
      BY <1>0, <1>5, <2>1, LifeUntouched
         DEF NoResponse, Finish, RequestTypeOK
    <2>2. CASE q = r
      BY <1>0, <1>5, <2>2
         DEF NoResponse, Finish, Life, RequestTypeOK, Target, Verdicts, EarlyAnswers, Broken
    <2>3. QED
      BY <2>1, <2>2
  <1>6. ASSUME NEW r \in Requests, Timeout(r) PROVE Life(q)'
    <2>1. CASE q # r
      BY <1>0, <1>6, <2>1, LifeUntouched
         DEF Timeout, Finish, RequestTypeOK
    <2>2. CASE q = r
      BY <1>0, <1>6, <2>2
         DEF Timeout, Finish, Life, RequestTypeOK, Target, Verdicts, EarlyAnswers
    <2>3. QED
      BY <2>1, <2>2
  <1>7. ASSUME NEW r \in Requests, Handle(r) PROVE Life(q)'
    <2>1. CASE q # r
      BY <1>0, <1>7, <2>1, LifeUntouched DEF Handle, RequestTypeOK
    <2>2. CASE q = r
      <3>1. reply'[r] # None
        <4>1. /\ Target(r) \in Devices /\ Target(r) \in Actuators
              /\ call[r].command \in Commands
              /\ state[Target(r)] \in States(Target(r))
          BY <1>7, TargetType DEF Handle, IndInv, TypeOK, DeviceTypeOK
        <4>2. \A v \in Verdicts, s \in States(Target(r)) :
                 ReplyTo(Target(r), v, s) # None
          BY <4>1, InfoReplyType, NoneAssumption
        <4>3. QED
          BY <1>0, <1>7, <4>1, <4>2, HandleCommandType
             DEF Handle, BuiltReply, RequestTypeOK
      <3>2. QED
        BY <1>0, <1>7, <2>2, <3>1
           DEF Handle, Life, RequestTypeOK, Target, Verdicts, EarlyAnswers
    <2>3. QED
      BY <2>1, <2>2
  <1>8. ASSUME NEW r \in Requests, SendReply(r) PROVE Life(q)'
    <2>1. CASE q # r
      BY <1>0, <1>8, <2>1, LifeUntouched DEF SendReply, RequestTypeOK
    <2>2. CASE q = r
      <3>1. reply'[r] # None
        <4>1. Target(r) \in Devices
          BY <1>8, TargetType DEF SendReply, IndInv
        <4>2. \A v \in Verdicts, s \in past[Target(r)] :
                 ReplyTo(Target(r), v, s) # None
          BY <4>1, InfoReplyType, NoneAssumption
             DEF IndInv, TypeOK, DeviceTypeOK
        <4>3. QED
          BY <1>0, <1>8, <4>2, ReportType DEF SendReply, RequestTypeOK
      <3>2. QED
        BY <1>0, <1>8, <2>2, <3>1
           DEF SendReply, Life, RequestTypeOK, Target, Verdicts, EarlyAnswers
    <2>3. QED
      BY <2>1, <2>2
  <1>9. ASSUME NEW d \in Devices, AnswerDiscovery(d) PROVE Life(q)'
    BY <1>0, <1>9, LifeUntouched DEF AnswerDiscovery, requestVars
  <1>10. ASSUME NEW d \in Devices, UpdateSensor(d) PROVE Life(q)'
    BY <1>0, <1>10, LifeUntouched DEF UpdateSensor, requestVars
  <1>11. ASSUME NEW d \in Devices, LoseRequest(d) PROVE Life(q)'
    BY <1>0, <1>11, LifeUntouched DEF LoseRequest, requestVars
  <1>12. ASSUME NEW d \in Devices, LoseResponse(d) PROVE Life(q)'
    BY <1>0, <1>12, LifeUntouched DEF LoseResponse, requestVars
  <1>13. ASSUME NEW d \in Devices, CrashDevice(d) PROVE Life(q)'
    BY <1>0, <1>13
       DEF CrashDevice, Open, Life, RequestTypeOK, Target, Verdicts,
           EarlyAnswers
  <1>14. ASSUME NEW d \in Devices, StartDevice(d) PROVE Life(q)'
    BY <1>0, <1>14, LifeUntouched DEF StartDevice, requestVars
  <1>15. ASSUME NEW d \in Devices, Listen(d) PROVE Life(q)'
    BY <1>0, <1>15, LifeUntouched DEF Listen, requestVars
  <1>16. ASSUME Discover PROVE Life(q)'
    BY <1>0, <1>16, LifeUntouched DEF Discover, requestVars
  <1>17. ASSUME CrashGateway PROVE Life(q)'
    BY <1>0, <1>17
       DEF CrashGateway, Life, RequestTypeOK, Target, Verdicts, EarlyAnswers
  <1>18. ASSUME StartGateway PROVE Life(q)'
    BY <1>0, <1>18, LifeUntouched DEF StartGateway, requestVars
  <1>19. CASE UNCHANGED vars
    BY <1>0, <1>19, LifeUntouched DEF vars, requestVars
  <1>20. QED
    BY <1>1, <1>2, <1>3, <1>4, <1>5, <1>6, <1>7, <1>8, <1>9,
       <1>10, <1>11, <1>12, <1>13, <1>14, <1>15, <1>16, <1>17, <1>18, <1>19
       DEF Next, ClientThread

-----------------------------------------------------------------------------
(* Nothing is invented                                                     *)

\* History only grows.
LEMMA PastGrows ==
    ASSUME IndInv, [Next]_vars
    PROVE  \A d \in Devices : past[d] \subseteq past'[d]
  <1> USE DEF IndInv, TypeOK, DeviceTypeOK
  <1>1. CASE UNCHANGED past
    BY <1>1
  <1>2. ASSUME NEW r \in Requests, Handle(r)
        PROVE  \A d \in Devices : past[d] \subseteq past'[d]
    BY <1>2 DEF Handle
  <1>3. ASSUME NEW e \in Devices, StartDevice(e)
        PROVE  \A d \in Devices : past[d] \subseteq past'[d]
    BY <1>3 DEF StartDevice
  <1>4. QED
    BY <1>1, <1>2, <1>3
       DEF Next, vars, deviceVars, ClientThread, Arrival, RejectUnknown,
           RejectSensor, Accept, Arrives, Connect, ConnectFail, Receive,
           NoResponse, Timeout, SendReply, AnswerDiscovery, UpdateSensor,
           LoseRequest, LoseResponse, CrashDevice, Listen, Discover,
           CrashGateway, StartGateway

\* The registry keeps showing what was true once.
LEMMA RegistryStep ==
    ASSUME IndInv, [Next]_vars
    PROVE  RegistryTrue'
  <1>1. CASE UNCHANGED registry
    BY <1>1, PastGrows DEF IndInv, Truth, RegistryTrue
  <1>2. ASSUME NEW r \in Requests, Receive(r) PROVE RegistryTrue'
    <2>1. /\ conn[r] = "replied"
          /\ registry' = [registry EXCEPT ![Target(r)] =
                            IF @ = None THEN None ELSE Confirmed(@, reply[r])]
          /\ past' = past
      BY <1>2 DEF Receive, deviceVars
    <2>2. ASSUME NEW d \in Devices, registry'[d] # None, d = Target(r)
          PROVE  \E s \in past[d] : registry'[d] = Info(d, s)
      <3>1. registry[d] # None /\ registry'[d] = Confirmed(registry[d], reply[r])
        BY <2>1, <2>2 DEF IndInv, TypeOK, RegistryTypeOK
      <3>2. QED
        BY <2>1, <2>2, <3>1, ConfirmedIsInfo
    <2>3. ASSUME NEW d \in Devices, registry'[d] # None, d # Target(r)
          PROVE  \E s \in past[d] : registry'[d] = Info(d, s)
      BY <2>1, <2>3 DEF IndInv, TypeOK, RegistryTypeOK, Truth, RegistryTrue
    <2>4. QED
      BY <2>1, <2>2, <2>3 DEF RegistryTrue
  <1>3. ASSUME NEW d \in Devices, UpdateSensor(d) PROVE RegistryTrue'
    <2>1. PICK m \in InFlight(d) :
             registry' = [registry EXCEPT ![d] = Discovered(@, m.info)]
      BY <1>3 DEF UpdateSensor
    <2>2. \E s \in past[d] : m.info = Info(d, s)
      BY <2>1 DEF InFlight, IndInv, Truth, ResponsesTrue
    <2>3. past' = past
      BY <1>3 DEF UpdateSensor, deviceVars
    <2>4. QED
      BY <2>1, <2>2, <2>3
         DEF Discovered, IndInv, TypeOK, RegistryTypeOK, Truth, RegistryTrue
  <1>4. CASE CrashGateway
    BY <1>4 DEF CrashGateway, RegistryTrue
  <1>5. QED
    BY <1>1, <1>2, <1>3, <1>4
       DEF Next, vars, ClientThread, Arrival, RejectUnknown, RejectSensor,
           Accept, Arrives, Connect, ConnectFail, NoResponse, Timeout, Handle,
           SendReply, AnswerDiscovery, LoseRequest, LoseResponse, CrashDevice,
           StartDevice, Listen, Discover, StartGateway

\* Discovery responses announce what was true when they were sent.
LEMMA ResponsesStep ==
    ASSUME IndInv, [Next]_vars
    PROVE  ResponsesTrue'
  <1>1. CASE responses' \subseteq responses
    BY <1>1, PastGrows
       DEF IndInv, TypeOK, DiscoveryTypeOK, Datagrams, Truth, ResponsesTrue
  <1>2. ASSUME NEW d \in Devices, AnswerDiscovery(d) PROVE ResponsesTrue'
    <2>1. /\ past' = past
          /\ responses' \subseteq responses \cup
               {[device |-> d, info |-> Info(d, state[d])]}
      BY <1>2 DEF AnswerDiscovery, deviceVars
    <2>2. state[d] \in past[d]
      BY DEF IndInv, TypeOK, DeviceTypeOK
    <2>3. QED
      BY <2>1, <2>2 DEF IndInv, Truth, ResponsesTrue
  <1>3. QED
    BY <1>1, <1>2
       DEF Next, vars, discoveryVars, ClientThread, Arrival, RejectUnknown,
           RejectSensor, Accept, Arrives, Connect, ConnectFail, Receive,
           NoResponse, Timeout, Handle, SendReply, UpdateSensor, LoseRequest,
           LoseResponse, CrashDevice, StartDevice, Listen, Discover,
           CrashGateway, StartGateway

\* Replies report what was true when they were built.
LEMMA RepliesStep ==
    ASSUME IndInv, [Next]_vars
    PROVE  RepliesTrue'
  <1>1. CASE UNCHANGED <<reply, call>>
    <2>1. ASSUME NEW r \in Requests, reply[r] # None
          PROVE  Target(r) \in Devices
      BY <2>1, TargetType DEF IndInv, LifeCycle, Life
    <2>2. QED
      BY <1>1, <2>1, PastGrows DEF IndInv, Truth, RepliesTrue, Target
  <1>2. ASSUME NEW r \in Requests, Arrival(r) PROVE RepliesTrue'
    <2>1. PICK d \in Devices, c \in Commands :
             /\ call' = [call EXCEPT ![r] = [device |-> d, command |-> c]]
             /\ UNCHANGED <<reply, past>>
             /\ phase[r] = "new"
      BY <1>2
         DEF Arrival, RejectUnknown, RejectSensor, Accept, Arrives, deviceVars
    <2>2. reply[r] = None
      BY <2>1 DEF IndInv, LifeCycle, Life
    <2>3. QED
      BY <2>1, <2>2
         DEF IndInv, TypeOK, RequestTypeOK, Truth, RepliesTrue, Target
  <1>3. ASSUME NEW r \in Requests, Handle(r) PROVE RepliesTrue'
    <2> DEFINE d == Target(r)
               h == HandleCommand(d, state[d], call[r].command)
    <2>1. /\ d \in Devices /\ d \in Actuators
          /\ call[r].command \in Commands
          /\ state[d] \in States(d)
      BY <1>3, TargetType DEF Handle, IndInv, TypeOK, DeviceTypeOK
    <2>2. h.status \in Verdicts
      BY <2>1, HandleCommandType
    <2>3. /\ call' = call
          /\ past' = [past EXCEPT ![d] = @ \cup {h.state}]
          /\ reply' = [reply EXCEPT ![r] = ReplyTo(d, h.status, h.state)]
      BY <1>3 DEF Handle, BuiltReply
    <2> HIDE DEF h
    <2>4. ASSUME NEW q \in Requests, reply'[q] # None
          PROVE  \E s \in past'[Target(q)], v \in Verdicts :
                    reply'[q] = ReplyTo(Target(q), v, s)
      <3>1. CASE q = r
        BY <2>1, <2>2, <2>3, <3>1
           DEF IndInv, TypeOK, DeviceTypeOK, RequestTypeOK
      <3>2. CASE q # r
        <4>1. reply[q] # None /\ reply'[q] = reply[q]
          BY <2>3, <2>4, <3>2 DEF IndInv, TypeOK, RequestTypeOK
        <4>2. Target(q) \in Devices
          BY <4>1, TargetType DEF IndInv, LifeCycle, Life
        <4>3. QED
          BY <4>1, <4>2, PastGrows DEF IndInv, Truth, RepliesTrue
      <3>3. QED
        BY <3>1, <3>2
    <2>5. QED
      BY <2>3, <2>4 DEF RepliesTrue, Target
  <1>4. ASSUME NEW r \in Requests, SendReply(r) PROVE RepliesTrue'
    <2>1. /\ conn[r] = "executing"
          /\ UNCHANGED <<call, past>>
          /\ reply' = [reply EXCEPT ![r] = Report(r)]
      BY <1>4 DEF SendReply, deviceVars
    <2>2. \E s \in past[Target(r)], v \in Verdicts :
             Report(r) = ReplyTo(Target(r), v, s)
      BY <2>1, ReportType
    <2>3. QED
      BY <2>1, <2>2
         DEF IndInv, TypeOK, RequestTypeOK, Truth, RepliesTrue, Target
  <1>5. QED
    BY <1>1, <1>2, <1>3, <1>4
       DEF Next, vars, requestVars, ClientThread, Connect, ConnectFail, Receive,
           NoResponse, Timeout, AnswerDiscovery, UpdateSensor, LoseRequest,
           LoseResponse, CrashDevice, StartDevice, Listen, Discover,
           CrashGateway, StartGateway

-----------------------------------------------------------------------------
(* The theorems                                                            *)

\* The system starts in the invariant.
LEMMA IndInvInit ==
    ASSUME Init
    PROVE  IndInv
  <1>1. \A d \in Devices : InitState(d) \in States(d) /\ InitState(d) \in AllStates
    BY InitStateType, AllAreAll
  <1>2. TypeOK
    BY <1>1, BoundsAssumption
       DEF Init, TypeOK, ProcessTypeOK, DeviceTypeOK, RegistryTypeOK,
           DiscoveryTypeOK, RequestTypeOK, Phases, Conns, Answers
  <1>3. LifeCycle
    BY DEF Init, LifeCycle, Life, Verdicts, EarlyAnswers
  <1>4. Truth
    BY DEF Init, Truth, RegistryTrue, ResponsesTrue, RepliesTrue
  <1>5. QED
    BY <1>2, <1>3, <1>4 DEF IndInv

\* The invariant is inductive: it holds in every state of every behaviour.
THEOREM Invariance == Spec => []IndInv
  <1>1. Init => IndInv
    BY IndInvInit
  <1>2. IndInv /\ [Next]_vars => IndInv'
    BY TypeStep, LifeStep, RegistryStep, ResponsesStep, RepliesStep
       DEF IndInv, Truth
  <1>3. QED
    BY <1>1, <1>2, PTL DEF Spec

\* Every variable keeps its type (TypeOK).
THEOREM TypeCorrect == Spec => []TypeOK
  <1>1. IndInv => TypeOK
    BY DEF IndInv
  <1>2. QED
    BY <1>1, Invariance, PTL

\* A verdict comes from exactly one execution, an early failure from none, and
\* no command is executed twice, whatever dies on the way (AnswersAreTrue).
THEOREM AnswersTrue == Spec => []AnswersAreTrue
  <1>1. IndInv => AnswersAreTrue
    BY DEF IndInv, LifeCycle, Life, AnswersAreTrue
  <1>2. QED
    BY <1>1, Invariance, PTL

\* A command takes no effect after its client was answered, unless the Python
\* gateway gave up on it (FailureIsFinal).
THEOREM FailuresFinal == Spec => FailureIsFinal
  <1> DEFINE Final ==
        \A r \in Requests :
           phase[r] = "done" /\ answer[r] # "TimedOut" => runs'[r] = runs[r]
  <1>1. IndInv /\ [Next]_vars => [Final]_vars
    <2> SUFFICES ASSUME IndInv, Next PROVE Final
      OBVIOUS
    <2>1. CASE UNCHANGED runs
      BY <2>1
    <2>2. ASSUME NEW r \in Requests, Handle(r) PROVE Final
      BY <2>2 DEF Handle, IndInv, TypeOK, RequestTypeOK, LifeCycle, Life
    <2>3. QED
      BY <2>1, <2>2
         DEF Next, requestVars, ClientThread, Arrival, RejectUnknown,
             RejectSensor, Accept, Arrives, Connect, ConnectFail, Receive,
             NoResponse, Timeout, SendReply, AnswerDiscovery, UpdateSensor,
             LoseRequest, LoseResponse, CrashDevice, StartDevice, Listen,
             Discover, CrashGateway, StartGateway
  <1>2. QED
    BY <1>1, Invariance, PTL DEF Spec, FailureIsFinal

-----------------------------------------------------------------------------
(* The camera                                                              *)

\* No state the camera has been in records without power.
PowerInPast ==
    "camera-1" \in Devices =>
        \A s \in past["camera-1"] : s.recording => s.active

LEMMA PowerStep ==
    ASSUME IndInv, PowerInPast, [Next]_vars
    PROVE  PowerInPast'
  <1> SUFFICES ASSUME "camera-1" \in Devices PROVE PowerInPast'
    BY DEF PowerInPast
  <1> DEFINE cam == "camera-1"
  <1>1. CASE UNCHANGED past
    BY <1>1 DEF PowerInPast
  <1>2. ASSUME NEW r \in Requests, Handle(r) PROVE PowerInPast'
    <2>1. CASE Target(r) = cam
      <3>1. state[cam] \in past[cam] /\ state[cam] \in CameraStates
        BY DEF IndInv, TypeOK, DeviceTypeOK, States
      <3>2. call[r].command \in Commands
        BY <1>2, TargetType DEF Handle, IndInv
      <3>3. past'[cam] = past[cam] \cup
                           {CameraHandle(state[cam], call[r].command).state}
        BY <1>2, <2>1
           DEF Handle, HandleCommand, IndInv, TypeOK, DeviceTypeOK
      <3>4. QED
        BY <3>1, <3>2, <3>3, CameraNeedsPower DEF PowerInPast
    <2>2. CASE Target(r) # cam
      BY <1>2, <2>2 DEF Handle, PowerInPast, IndInv, TypeOK, DeviceTypeOK
    <2>3. QED
      BY <2>1, <2>2
  <1>3. ASSUME NEW d \in Devices, StartDevice(d) PROVE PowerInPast'
    BY <1>3
       DEF StartDevice, PowerInPast, IndInv, TypeOK, DeviceTypeOK, InitState,
           CameraInit
  <1>4. QED
    BY <1>1, <1>2, <1>3
       DEF Next, vars, deviceVars, ClientThread, Arrival, RejectUnknown,
           RejectSensor, Accept, Arrives, Connect, ConnectFail, Receive,
           NoResponse, Timeout, SendReply, AnswerDiscovery, UpdateSensor,
           LoseRequest, LoseResponse, CrashDevice, Listen, Discover,
           CrashGateway, StartGateway

\* A camera without power does not record, and the registry never shows one
\* that does, although its fields come over two ways (RecordingNeedsPower).
THEOREM CameraPower == Spec => []RecordingNeedsPower
  <1>1. Init => PowerInPast
    BY DEF Init, PowerInPast, InitState, CameraInit
  <1>2. IndInv /\ PowerInPast /\ [Next]_vars => PowerInPast'
    BY PowerStep
  <1>3. IndInv /\ PowerInPast => RecordingNeedsPower
    <2> SUFFICES ASSUME IndInv, PowerInPast, "camera-1" \in Devices
                 PROVE  /\ state["camera-1"].recording =>
                             state["camera-1"].active
                        /\ registry["camera-1"] # None
                           /\ registry["camera-1"].text[2] = "gravando" =>
                             registry["camera-1"].active
      BY DEF RecordingNeedsPower
    <2>1. state["camera-1"].recording => state["camera-1"].active
      BY DEF PowerInPast, IndInv, TypeOK, DeviceTypeOK
    <2>2. ASSUME registry["camera-1"] # None,
                 registry["camera-1"].text[2] = "gravando"
          PROVE  registry["camera-1"].active
      <3>1. PICK s \in past["camera-1"] :
               registry["camera-1"] = Info("camera-1", s)
        BY <2>2 DEF IndInv, Truth, RegistryTrue
      <3>2. /\ Info("camera-1", s).active = s.active
            /\ Info("camera-1", s).text[2] =
                 IF s.recording THEN "gravando" ELSE "sem gravacao"
        <4>1. /\ Info("camera-1", s).active = s.active
              /\ Info("camera-1", s).text = CameraText(s)
          BY DEF Info, CameraInfo, ActuatorInfo
        <4>2. CameraText(s)[2] =
                IF s.recording THEN "gravando" ELSE "sem gravacao"
          BY DEF CameraText
        <4>3. QED
          BY <4>1, <4>2
      <3>3. s.recording
        BY <2>2, <3>1, <3>2
      <3>4. QED
        BY <3>1, <3>2, <3>3 DEF PowerInPast
    <2>3. QED
      BY <2>1, <2>2
  <1>4. QED
    BY <1>1, <1>2, <1>3, Invariance, PTL DEF Spec

-----------------------------------------------------------------------------
(* The street light                                                        *)

\* From dark to bright, in tenths of a percent.
Dimmed == 0 .. 1000

\* The range test keeps out every number that is out of range.
LEMMA RangeTested ==
    ASSUME NEW s \in StreetLightStates, NEW c \in Commands, c.value # NaN,
           s.brightness \in Dimmed
    PROVE  StreetLightHandle(s, c).state.brightness \in Dimmed
  <1>1. c.value \in Int
    BY CommandsAssumption
  <1>2. \/ StreetLightHandle(s, c) = Done([s EXCEPT !.active = TRUE])
        \/ StreetLightHandle(s, c) = Done([s EXCEPT !.active = FALSE])
        \/ /\ ~OutOfRange(c.value)
           /\ StreetLightHandle(s, c) = Done([s EXCEPT !.brightness = c.value])
        \/ StreetLightHandle(s, c) = Refused(s)
    BY DEF StreetLightHandle
  <1>3. ~OutOfRange(c.value) => c.value \in Dimmed
    BY <1>1, NaNAssumption DEF OutOfRange, Dimmed
  <1>4. CASE StreetLightHandle(s, c) = Done([s EXCEPT !.active = TRUE])
    <2>1. PICK t : t = [s EXCEPT !.active = TRUE]
      OBVIOUS
    <2>2. t.brightness = s.brightness
      BY <2>1 DEF StreetLightStates
    <2>3. StreetLightHandle(s, c).state = t
      BY <1>4, <2>1, Results
    <2>4. QED
      BY <2>2, <2>3
  <1>5. CASE StreetLightHandle(s, c) = Done([s EXCEPT !.active = FALSE])
    <2>1. PICK t : t = [s EXCEPT !.active = FALSE]
      OBVIOUS
    <2>2. t.brightness = s.brightness
      BY <2>1 DEF StreetLightStates
    <2>3. StreetLightHandle(s, c).state = t
      BY <1>5, <2>1, Results
    <2>4. QED
      BY <2>2, <2>3
  <1>6. CASE /\ ~OutOfRange(c.value)
             /\ StreetLightHandle(s, c) = Done([s EXCEPT !.brightness = c.value])
    <2>1. PICK t : t = [s EXCEPT !.brightness = c.value]
      OBVIOUS
    <2>2. t.brightness = c.value
      BY <2>1 DEF StreetLightStates
    <2>3. StreetLightHandle(s, c).state = t
      BY <1>6, <2>1, Results
    <2>4. QED
      BY <1>3, <1>6, <2>2, <2>3
  <1>7. CASE StreetLightHandle(s, c) = Refused(s)
    BY <1>7, Results
  <1>8. QED
    BY <1>2, <1>4, <1>5, <1>6, <1>7

\* The street light never takes a brightness out of range, if no client sends
\* one that is no number (BrightnessInRange; for NaN see BrightnessNaN.cfg).
THEOREM BrightnessBounded ==
    (\A c \in Commands : c.value # NaN) => (Spec => []BrightnessInRange)
  <1> SUFFICES ASSUME \A c \in Commands : c.value # NaN
               PROVE  Spec => []BrightnessInRange
    OBVIOUS
  <1> DEFINE lamp == "poste-1"
  <1>1. Init => BrightnessInRange
    BY NaNAssumption
       DEF Init, BrightnessInRange, InitState, StreetLightInit
  <1>2. IndInv /\ BrightnessInRange /\ [Next]_vars => BrightnessInRange'
    <2>0. ASSUME NEW b \in Dimmed PROVE b # NaN
      <3>1. b \in Int
        BY DEF Dimmed
      <3>2. QED
        BY <3>1, NaNAssumption
    <2> SUFFICES ASSUME IndInv, BrightnessInRange, [Next]_vars, lamp \in Devices
                 PROVE  state'[lamp].brightness \in Dimmed
      BY <2>0 DEF BrightnessInRange, Dimmed
    <2>1. state[lamp] \in StreetLightStates /\ state[lamp].brightness \in Dimmed
      BY DEF IndInv, TypeOK, DeviceTypeOK, States, BrightnessInRange,
             Dimmed
    <2>2. CASE UNCHANGED state
      BY <2>1, <2>2
    <2>3. ASSUME NEW r \in Requests, Handle(r)
          PROVE  state'[lamp].brightness \in Dimmed
      <3>1. CASE Target(r) = lamp
        <4>1. call[r].command \in Commands
          BY <2>3, TargetType DEF Handle, IndInv
        <4>2. state'[lamp] = StreetLightHandle(state[lamp], call[r].command).state
          BY <2>3, <3>1
             DEF Handle, HandleCommand, IndInv, TypeOK, DeviceTypeOK
        <4>3. call[r].command.value # NaN
          BY <4>1
        <4>4. PICK s \in StreetLightStates, c \in Commands :
                 /\ s = state[lamp] /\ c = call[r].command
                 /\ s.brightness \in Dimmed /\ c.value # NaN
          BY <2>1, <4>1, <4>3
        <4>5. StreetLightHandle(s, c).state.brightness \in Dimmed
          BY <4>4, RangeTested
        <4>6. QED
          BY <4>2, <4>4, <4>5
      <3>2. CASE Target(r) # lamp
        <4>1. DOMAIN state = Devices
          BY DEF IndInv, TypeOK, DeviceTypeOK
        <4>2. state'[lamp] = state[lamp]
          BY <2>3, <3>2, <4>1 DEF Handle
        <4>3. QED
          BY <2>1, <4>2
      <3>3. QED
        BY <3>1, <3>2
    <2>4. ASSUME NEW d \in Devices, StartDevice(d)
          PROVE  state'[lamp].brightness \in Dimmed
      <3>1. DOMAIN state = Devices
        BY DEF IndInv, TypeOK, DeviceTypeOK
      <3>2. CASE d = lamp
        <4>1. state'[lamp] = InitState(lamp)
          BY <2>4, <3>1, <3>2 DEF StartDevice
        <4>2. InitState(lamp) = StreetLightInit
          BY DEF InitState
        <4>3. StreetLightInit.brightness \in Dimmed
          BY DEF StreetLightInit, Dimmed
        <4>4. QED
          BY <4>1, <4>2, <4>3
      <3>3. CASE d # lamp
        BY <2>1, <2>4, <3>1, <3>3 DEF StartDevice
      <3>4. QED
        BY <3>2, <3>3
    <2>5. QED
      BY <2>2, <2>3, <2>4
         DEF Next, vars, deviceVars, ClientThread, Arrival, RejectUnknown,
             RejectSensor, Accept, Arrives, Connect, ConnectFail, Receive,
             NoResponse, Timeout, SendReply, AnswerDiscovery, UpdateSensor,
             LoseRequest, LoseResponse, CrashDevice, Listen, Discover,
             CrashGateway, StartGateway
  <1>3. QED
    BY <1>1, <1>2, Invariance, PTL DEF Spec

-----------------------------------------------------------------------------
(* What was done stays done                                                *)

\* What there is to be seen of a camera in state s.
LEMMA CameraSeen ==
    ASSUME NEW s \in CameraStates
    PROVE  LET view == CameraInfo(s)
           IN  /\ view.active = s.active
               /\ view.text[1] = IF s.active THEN "ligada" ELSE "desligada"
               /\ view.text[2] = IF s.recording THEN "gravando"
                                                ELSE "sem gravacao"
               /\ view.text[3] = s.direction
  BY DEF CameraInfo, ActuatorInfo, CameraText

LEMMA TrafficLightSeen ==
    ASSUME NEW s \in TrafficLightStates
    PROVE  LET view == TrafficLightInfo(s)
           IN  /\ view.active = s.active
               /\ view.text[1] = IF s.active THEN "ligado" ELSE "desligado"
               /\ view.text[2] = s.color
               /\ view.text[3] = s.mode
  BY DEF TrafficLightInfo, ActuatorInfo, TrafficLightText

LEMMA StreetLightSeen ==
    ASSUME NEW s \in StreetLightStates
    PROVE  LET view == StreetLightInfo(s)
           IN  /\ view.active = s.active
               /\ view.text[1] = IF s.active THEN "ligado" ELSE "desligado"
               /\ view.text[2] = Percent(s.brightness)
  BY DEF StreetLightInfo, ActuatorInfo, StreetLightText

\* A command that succeeds is done, and what it takes back is opposed to it.
LEMMA CameraDone ==
    ASSUME NEW s \in CameraStates, NEW c \in Commands
    PROVE  LET h == CameraHandle(s, c)
           IN  /\ h.status = "OK" => CameraShows(c, CameraInfo(h.state))
               /\ \A e : \/ CameraShows(e, CameraInfo(s)) =>
                              CameraShows(e, CameraInfo(h.state))
                         \/ \A view : ~(CameraShows(c, view) /\ CameraShows(e, view))
  <1> DEFINE h == CameraHandle(s, c)
  <1> DEFINE t == h.state
  <1>1. t \in CameraStates
    BY CameraHandleType
  <1>2. \/ /\ c.type = "ACTIVATE"
           /\ t.active /\ t.recording = s.recording /\ t.direction = s.direction
        \/ /\ c.type = "DEACTIVATE"
           /\ ~t.active /\ ~t.recording /\ t.direction = s.direction
        \/ /\ c.type = "CAMERA_START_RECORDING" /\ s.active
           /\ t.active /\ t.recording /\ t.direction = s.direction
        \/ /\ c.type = "CAMERA_STOP_RECORDING"
           /\ t.active = s.active /\ ~t.recording /\ t.direction = s.direction
        \/ /\ c.type = "CAMERA_SET_DIRECTION"
           /\ t.active = s.active /\ t.recording = s.recording
           /\ t.direction = c.text
        \/ h.status = "ERROR" /\ t = s
    BY DEF CameraHandle, CameraStates, Done, Refused
  <1> DEFINE v == CameraInfo(s)
             w == CameraInfo(t)
  <1>3. /\ v.active = s.active
        /\ v.text[1] = IF s.active THEN "ligada" ELSE "desligada"
        /\ v.text[2] = IF s.recording THEN "gravando" ELSE "sem gravacao"
        /\ v.text[3] = s.direction
    BY CameraSeen
  <1>4. /\ w.active = t.active
        /\ w.text[1] = IF t.active THEN "ligada" ELSE "desligada"
        /\ w.text[2] = IF t.recording THEN "gravando" ELSE "sem gravacao"
        /\ w.text[3] = t.direction
    BY <1>1, CameraSeen
  <1>5. s.active \in BOOLEAN /\ s.recording \in BOOLEAN
    BY DEF CameraStates
  <1>6. h.status = "ERROR" => h.status # "OK"
    OBVIOUS
  <1> HIDE DEF h, t, v, w
  <1>7. h.status = "OK" => CameraShows(c, w)
    BY <1>2, <1>4, <1>6 DEF CameraShows
  <1>8. ASSUME NEW e, CameraShows(e, v), ~CameraShows(e, w), NEW view
        PROVE  ~(CameraShows(c, view) /\ CameraShows(e, view))
    <2>0. \A x : CameraShows(e, x) <=>
             \/ e.type = "ACTIVATE" /\ x.active /\ x.text[1] = "ligada"
             \/ /\ e.type = "DEACTIVATE" /\ ~x.active
                /\ x.text[1] = "desligada" /\ x.text[2] = "sem gravacao"
             \/ /\ e.type = "CAMERA_START_RECORDING"
                /\ x.active /\ x.text[2] = "gravando"
             \/ e.type = "CAMERA_STOP_RECORDING" /\ x.text[2] = "sem gravacao"
             \/ e.type = "CAMERA_SET_DIRECTION" /\ x.text[3] = e.text
      BY DEF CameraShows
    <2>1. CASE h.status = "ERROR" /\ t = s
      BY <1>8, <2>1 DEF v, w
    <2>2. CASE c.type = "ACTIVATE" /\ ~(h.status = "ERROR" /\ t = s)
      <3>1. e.type = "DEACTIVATE"
        BY <1>2, <1>3, <1>4, <1>5, <1>8, <2>0, <2>2
      <3>2. QED
        BY <2>2, <3>1 DEF CameraShows
    <2>3. CASE c.type = "DEACTIVATE" /\ ~(h.status = "ERROR" /\ t = s)
      <3>1. e.type \in {"ACTIVATE", "CAMERA_START_RECORDING"}
        BY <1>2, <1>3, <1>4, <1>5, <1>8, <2>0, <2>3
      <3>2. QED
        BY <2>3, <3>1 DEF CameraShows
    <2>4. CASE /\ c.type = "CAMERA_START_RECORDING"
               /\ ~(h.status = "ERROR" /\ t = s)
      <3>1. e.type = "CAMERA_STOP_RECORDING"
        BY <1>2, <1>3, <1>4, <1>5, <1>8, <2>0, <2>4
      <3>2. QED
        BY <2>4, <3>1 DEF CameraShows
    <2>5. CASE /\ c.type = "CAMERA_STOP_RECORDING"
               /\ ~(h.status = "ERROR" /\ t = s)
      <3>1. e.type = "CAMERA_START_RECORDING"
        BY <1>2, <1>3, <1>4, <1>5, <1>8, <2>0, <2>5
      <3>2. QED
        BY <2>5, <3>1 DEF CameraShows
    <2>6. CASE /\ c.type = "CAMERA_SET_DIRECTION"
               /\ ~(h.status = "ERROR" /\ t = s)
      <3>1. e.type = "CAMERA_SET_DIRECTION" /\ e.text # c.text
        BY <1>2, <1>3, <1>4, <1>5, <1>8, <2>0, <2>6
      <3>2. QED
        BY <2>6, <3>1 DEF CameraShows
    <2>7. QED
      BY <1>2, <2>1, <2>2, <2>3, <2>4, <2>5, <2>6
  <1>9. QED
    BY <1>7, <1>8 DEF h, t, v, w

\* The same for the traffic light.
LEMMA TrafficLightDone ==
    ASSUME NEW s \in TrafficLightStates, NEW c \in Commands
    PROVE  LET h == TrafficLightHandle(s, c)
           IN  /\ h.status = "OK" =>
                     TrafficLightShows(c, TrafficLightInfo(h.state))
               /\ \A e : \/ TrafficLightShows(e, TrafficLightInfo(s)) =>
                              TrafficLightShows(e, TrafficLightInfo(h.state))
                         \/ \A view : ~(/\ TrafficLightShows(c, view)
                                        /\ TrafficLightShows(e, view))
  <1> DEFINE h == TrafficLightHandle(s, c)
  <1> DEFINE t == h.state
  <1>1. t \in TrafficLightStates
    BY TrafficLightHandleType
  <1>2. \/ /\ c.type = "ACTIVATE"
           /\ t.active /\ t.color = s.color /\ t.mode = s.mode
        \/ /\ c.type = "DEACTIVATE"
           /\ ~t.active /\ t.color = s.color /\ t.mode = s.mode
        \/ /\ c.type = "TRAFFIC_LIGHT_SET_COLOR"
           /\ t.active = s.active /\ t.color = c.text /\ t.mode = "manual"
        \/ /\ c.type = "TRAFFIC_LIGHT_SET_MODE"
           /\ t.active = s.active /\ t.color = s.color /\ t.mode = c.text
        \/ h.status = "ERROR" /\ t = s
    BY DEF TrafficLightHandle, TrafficLightStates, Done, Refused
  <1> DEFINE v == TrafficLightInfo(s)
             w == TrafficLightInfo(t)
  <1>3. /\ v.active = s.active
        /\ v.text[1] = IF s.active THEN "ligado" ELSE "desligado"
        /\ v.text[2] = s.color /\ v.text[3] = s.mode
    BY TrafficLightSeen
  <1>4. /\ w.active = t.active
        /\ w.text[1] = IF t.active THEN "ligado" ELSE "desligado"
        /\ w.text[2] = t.color /\ w.text[3] = t.mode
    BY <1>1, TrafficLightSeen
  <1>5. s.active \in BOOLEAN
    BY DEF TrafficLightStates
  <1>6. h.status = "ERROR" => h.status # "OK"
    OBVIOUS
  <1> HIDE DEF h, t, v, w
  <1>7. h.status = "OK" => TrafficLightShows(c, w)
    BY <1>2, <1>4, <1>6 DEF TrafficLightShows, PowerShows
  <1>8. ASSUME NEW e, TrafficLightShows(e, v), ~TrafficLightShows(e, w), NEW view
        PROVE  ~(TrafficLightShows(c, view) /\ TrafficLightShows(e, view))
    <2>0. \A x : TrafficLightShows(e, x) <=>
             \/ e.type = "ACTIVATE" /\ x.active /\ x.text[1] = "ligado"
             \/ e.type = "DEACTIVATE" /\ ~x.active /\ x.text[1] = "desligado"
             \/ /\ e.type = "TRAFFIC_LIGHT_SET_COLOR"
                /\ x.text[2] = e.text /\ x.text[3] = "manual"
             \/ e.type = "TRAFFIC_LIGHT_SET_MODE" /\ x.text[3] = e.text
      BY DEF TrafficLightShows, PowerShows
    <2>1. CASE h.status = "ERROR" /\ t = s
      BY <1>8, <2>1 DEF v, w
    <2>2. CASE c.type = "ACTIVATE" /\ ~(h.status = "ERROR" /\ t = s)
      <3>1. e.type = "DEACTIVATE"
        BY <1>2, <1>3, <1>4, <1>5, <1>8, <2>0, <2>2
      <3>2. QED
        BY <2>2, <3>1 DEF TrafficLightShows, PowerShows
    <2>3. CASE c.type = "DEACTIVATE" /\ ~(h.status = "ERROR" /\ t = s)
      <3>1. e.type = "ACTIVATE"
        BY <1>2, <1>3, <1>4, <1>5, <1>8, <2>0, <2>3
      <3>2. QED
        BY <2>3, <3>1 DEF TrafficLightShows, PowerShows
    <2>4. CASE /\ c.type = "TRAFFIC_LIGHT_SET_COLOR"
               /\ ~(h.status = "ERROR" /\ t = s)
      <3>1. \/ e.type = "TRAFFIC_LIGHT_SET_COLOR" /\ e.text # c.text
            \/ e.type = "TRAFFIC_LIGHT_SET_MODE" /\ e.text # "manual"
        BY <1>2, <1>3, <1>4, <1>5, <1>8, <2>0, <2>4
      <3>2. QED
        BY <2>4, <3>1 DEF TrafficLightShows
    <2>5. CASE /\ c.type = "TRAFFIC_LIGHT_SET_MODE"
               /\ ~(h.status = "ERROR" /\ t = s)
      <3>1. \/ e.type = "TRAFFIC_LIGHT_SET_MODE" /\ e.text # c.text
            \/ e.type = "TRAFFIC_LIGHT_SET_COLOR" /\ c.text # "manual"
        BY <1>2, <1>3, <1>4, <1>5, <1>8, <2>0, <2>5
      <3>2. QED
        BY <2>5, <3>1 DEF TrafficLightShows
    <2>6. QED
      BY <1>2, <2>1, <2>2, <2>3, <2>4, <2>5
  <1>9. QED
    BY <1>7, <1>8 DEF h, t, v, w

\* The same for the street light.
LEMMA StreetLightDone ==
    ASSUME NEW s \in StreetLightStates, NEW c \in Commands
    PROVE  LET h == StreetLightHandle(s, c)
           IN  /\ h.status = "OK" =>
                     StreetLightShows(c, StreetLightInfo(h.state))
               /\ \A e : \/ StreetLightShows(e, StreetLightInfo(s)) =>
                              StreetLightShows(e, StreetLightInfo(h.state))
                         \/ \A view : ~(/\ StreetLightShows(c, view)
                                        /\ StreetLightShows(e, view))
  <1> DEFINE h == StreetLightHandle(s, c)
  <1> DEFINE t == h.state
  <1>1. t \in StreetLightStates
    BY StreetLightHandleType
  <1>2. \/ /\ c.type = "ACTIVATE"
           /\ t.active /\ t.brightness = s.brightness
        \/ /\ c.type = "DEACTIVATE"
           /\ ~t.active /\ t.brightness = s.brightness
        \/ /\ c.type = "STREET_LIGHT_SET_BRIGHTNESS"
           /\ t.active = s.active /\ t.brightness = c.value
        \/ h.status = "ERROR" /\ t = s
    BY DEF StreetLightHandle, StreetLightStates, Done, Refused
  <1> DEFINE v == StreetLightInfo(s)
             w == StreetLightInfo(t)
  <1>3. /\ v.active = s.active
        /\ v.text[1] = IF s.active THEN "ligado" ELSE "desligado"
        /\ v.text[2] = Percent(s.brightness)
    BY StreetLightSeen
  <1>4. /\ w.active = t.active
        /\ w.text[1] = IF t.active THEN "ligado" ELSE "desligado"
        /\ w.text[2] = Percent(t.brightness)
    BY <1>1, StreetLightSeen
  <1>5. s.active \in BOOLEAN
    BY DEF StreetLightStates
  <1>6. h.status = "ERROR" => h.status # "OK"
    OBVIOUS
  <1> HIDE DEF h, t, v, w
  <1>7. h.status = "OK" => StreetLightShows(c, w)
    BY <1>2, <1>4, <1>6 DEF StreetLightShows, PowerShows
  <1>8. ASSUME NEW e, StreetLightShows(e, v), ~StreetLightShows(e, w), NEW view
        PROVE  ~(StreetLightShows(c, view) /\ StreetLightShows(e, view))
    <2>0. \A x : StreetLightShows(e, x) <=>
             \/ e.type = "ACTIVATE" /\ x.active /\ x.text[1] = "ligado"
             \/ e.type = "DEACTIVATE" /\ ~x.active /\ x.text[1] = "desligado"
             \/ /\ e.type = "STREET_LIGHT_SET_BRIGHTNESS"
                /\ x.text[2] = Percent(e.value)
      BY DEF StreetLightShows, PowerShows
    <2>1. CASE h.status = "ERROR" /\ t = s
      BY <1>8, <2>1 DEF v, w
    <2>2. CASE c.type = "ACTIVATE" /\ ~(h.status = "ERROR" /\ t = s)
      <3>1. e.type = "DEACTIVATE"
        BY <1>2, <1>3, <1>4, <1>5, <1>8, <2>0, <2>2
      <3>2. QED
        BY <2>2, <3>1 DEF StreetLightShows, PowerShows
    <2>3. CASE c.type = "DEACTIVATE" /\ ~(h.status = "ERROR" /\ t = s)
      <3>1. e.type = "ACTIVATE"
        BY <1>2, <1>3, <1>4, <1>5, <1>8, <2>0, <2>3
      <3>2. QED
        BY <2>3, <3>1 DEF StreetLightShows, PowerShows
    <2>4. CASE /\ c.type = "STREET_LIGHT_SET_BRIGHTNESS"
               /\ ~(h.status = "ERROR" /\ t = s)
      <3>1. /\ e.type = "STREET_LIGHT_SET_BRIGHTNESS"
            /\ Percent(e.value) # Percent(c.value)
        BY <1>2, <1>3, <1>4, <1>5, <1>8, <2>0, <2>4
      <3>2. QED
        BY <2>4, <3>1 DEF StreetLightShows
    <2>5. QED
      BY <1>2, <2>1, <2>2, <2>3, <2>4
  <1>9. QED
    BY <1>7, <1>8 DEF h, t, v, w

\* The same for every actuator, in its entry as in its replies.
LEMMA CommandDone ==
    ASSUME NEW d \in Actuators, NEW s \in States(d), NEW c \in Commands
    PROVE  LET h == HandleCommand(d, s, c)
           IN  /\ h.status = "OK" =>
                     /\ Shows(d, c, Info(d, h.state))
                     /\ Shows(d, c, ReplyTo(d, h.status, h.state))
               /\ \A e : \/ Shows(d, e, Info(d, s)) =>
                              Shows(d, e, Info(d, h.state))
                         \/ Opposed(d, c, e)
  <1> DEFINE h == HandleCommand(d, s, c)
  <1>1. ASSUME NEW view, NEW other,
               view.active = other.active, view.text = other.text
        PROVE  Shows(d, c, view) => Shows(d, c, other)
    BY <1>1 DEF Shows, CameraShows, TrafficLightShows, StreetLightShows,
                PowerShows
  <1>2. /\ ReplyTo(d, h.status, h.state).active = Info(d, h.state).active
        /\ ReplyTo(d, h.status, h.state).text = Info(d, h.state).text
    BY DEF ReplyTo
  <1>3. /\ h.status = "OK" => Shows(d, c, Info(d, h.state))
        /\ \A e : \/ Shows(d, e, Info(d, s)) => Shows(d, e, Info(d, h.state))
                  \/ \A view : ~(Shows(d, c, view) /\ Shows(d, e, view))
    <2>1. CASE d = "camera-1"
      BY <2>1, CameraDone DEF HandleCommand, States, Info, Shows
    <2>2. CASE d = "semaforo-1"
      BY <2>2, TrafficLightDone DEF HandleCommand, States, Info, Shows
    <2>3. CASE d = "poste-1"
      BY <2>3, StreetLightDone DEF HandleCommand, States, Info, Shows
    <2>4. QED
      BY <2>1, <2>2, <2>3 DEF Actuators
  <1> HIDE DEF h
  <1>4. h.status = "OK" => Shows(d, c, ReplyTo(d, h.status, h.state))
    BY <1>1, <1>2, <1>3
  <1>5. QED
    BY <1>3, <1>4 DEF Opposed, h

LEMMA DoneStep ==
    ASSUME IndInv, [Next]_vars, NEW r \in Requests
    PROVE  (Runs(r) => DoneAsReported(r)) /\ NotUndone(r)
  <1>1. ASSUME NEW q \in Requests, UNCHANGED <<state, runs>>
        PROVE  ~Runs(q) /\ NotUndone(q)
    BY <1>1 DEF Runs, NotUndone
  <1>2. ASSUME NEW d \in Devices, StartDevice(d)
        PROVE  ~Runs(r) /\ NotUndone(r)
    <2>1. ~Runs(r)
      BY <1>2 DEF StartDevice, requestVars, Runs
    <2>2. CASE Target(r) = d
      BY <1>2, <2>1, <2>2 DEF StartDevice, NotUndone
    <2>3. CASE Target(r) # d
      <3>1. state'[Target(r)] = state[Target(r)] \/ reply[r] = None
        BY <1>2, <2>3, TargetType
           DEF StartDevice, IndInv, LifeCycle, Life, TypeOK, DeviceTypeOK
      <3>2. QED
        BY <2>1, <3>1 DEF NotUndone
    <2>4. QED
      BY <2>2, <2>3
  <1>3. ASSUME NEW q \in Requests, Handle(q)
        PROVE  (Runs(r) => DoneAsReported(r)) /\ NotUndone(r)
    <2> DEFINE d == Target(q)
               c == call[q].command
    <2> DEFINE h == HandleCommand(d, state[d], c)
    <2>1. /\ d \in Devices /\ d \in Actuators /\ c \in Commands
          /\ state[d] \in States(d)
      BY <1>3, TargetType DEF Handle, IndInv, TypeOK, DeviceTypeOK
    <2>2. /\ state' = [state EXCEPT ![d] = h.state]
          /\ reply' = [reply EXCEPT ![q] = ReplyTo(d, h.status, h.state)]
          /\ runs' = [runs EXCEPT ![q] = @ + 1]
      BY <1>3 DEF Handle, BuiltReply
    <2>3. /\ h.status \in Verdicts
          /\ h.status = "ERROR" => h.state = state[d]
          /\ h.status = "OK" =>
                /\ Shows(d, c, Info(d, h.state))
                /\ Shows(d, c, ReplyTo(d, h.status, h.state))
          /\ \A e : \/ Shows(d, e, Info(d, state[d])) =>
                          Shows(d, e, Info(d, h.state))
                    \/ Opposed(d, c, e)
      BY <2>1, HandleCommandType, CommandDone
    <2> HIDE DEF h
    <2>4. /\ state'[d] = h.state
          /\ reply'[q] = ReplyTo(d, h.status, h.state)
          /\ runs[q] \in Nat /\ runs'[q] = runs[q] + 1
          /\ \A p \in Requests \ {q} : runs'[p] = runs[p]
      BY <2>1, <2>2 DEF IndInv, TypeOK, DeviceTypeOK, RequestTypeOK
    <2>5. reply'[q].status = h.status
      BY <2>4 DEF ReplyTo
    <2>6. Runs(q)
      BY <2>4 DEF Runs
    <2>7. DoneAsReported(q)
      BY <2>3, <2>4, <2>5 DEF DoneAsReported, Verdicts
    <2>8. NotUndone(r)
      <3>1. CASE Target(r) = d
        BY <2>3, <2>4, <2>6, <3>1 DEF NotUndone
      <3>2. CASE Target(r) # d
        <4>1. state'[Target(r)] = state[Target(r)] \/ reply[r] = None
          BY <2>2, <3>2, TargetType
             DEF IndInv, LifeCycle, Life, TypeOK, DeviceTypeOK
        <4>2. QED
          BY <4>1 DEF NotUndone
      <3>3. QED
        BY <3>1, <3>2
    <2>9. Runs(r) => r = q
      BY <2>4 DEF Runs
    <2>10. QED
      BY <2>7, <2>8, <2>9
  <1>4. QED
    BY <1>1, <1>2, <1>3
       DEF Next, vars, deviceVars, requestVars, ClientThread, Arrival,
           RejectUnknown, RejectSensor, Accept, Arrives, Connect, ConnectFail,
           Receive, NoResponse, Timeout, SendReply, AnswerDiscovery,
           UpdateSensor, LoseRequest, LoseResponse, CrashDevice, Listen,
           Discover, CrashGateway, StartGateway

\* What a client was told is done has been done, and is taken back only by a
\* restart or by a command that asks for the contrary, for any number of
\* clients and commands (handle_command of the three actuators).
THEOREM DoneIsKept == Spec => DoneStaysDone
  <1> DEFINE Kept == \A r \in Requests :
                        (Runs(r) => DoneAsReported(r)) /\ NotUndone(r)
  <1>1. IndInv /\ [Next]_vars => Kept
    BY DoneStep
  <1>2. Spec => [][Kept]_vars
    BY <1>1, Invariance, PTL DEF Spec
  <1>3. QED
    BY <1>2 DEF DoneStaysDone

-----------------------------------------------------------------------------
(* ControlPath implements DeviceCache                                      *)

\* The values and the history of DeviceCache, in ControlPath.
Announced == [d \in Devices |-> Info(d, state[d])]
AnnouncedPast == [d \in Devices |-> {Info(d, s) : s \in past[d]}]

LEMMA CacheInit ==
    ASSUME Init
    PROVE  Cache!Init
  <1>1. \A d \in Devices : InitState(d) \in States(d)
    BY InitStateType
  <1>2. \A d \in Devices :
           Info(d, InitState(d)) \in Infos(d)
    BY <1>1, InfoReplyType
  <1>3. /\ Announced = [d \in Devices |-> Info(d, InitState(d))]
        /\ AnnouncedPast = [d \in Devices |-> {Announced[d]}]
    BY DEF Init, Announced, AnnouncedPast
  <1>4. registry = [d \in Devices |-> None]
    BY DEF Init
  <1>5. /\ Announced \in
             [Devices -> UNION {[e \in Devices |-> Infos(e)][d] : d \in Devices}]
        /\ \A d \in Devices : Announced[d] \in [e \in Devices |-> Infos(e)][d]
    BY <1>2, <1>3
  <1>6. QED
    BY <1>3, <1>4, <1>5 DEF Cache!Init, Announced, AnnouncedPast

\* A device that changes: it executes a command or starts.
LEMMA CacheChange ==
    ASSUME IndInv, NEW d \in Devices, NEW t \in States(d),
           state' = [state EXCEPT ![d] = t],
           past' = [past EXCEPT ![d] = @ \cup {t}],
           UNCHANGED registry
    PROVE  Cache!Change(d)
  <1>1. Info(d, t) \in [e \in Devices |-> Infos(e)][d]
    BY InfoReplyType
  <1>2. Announced' = [Announced EXCEPT ![d] = Info(d, t)]
    BY DEF Announced, IndInv, TypeOK, DeviceTypeOK
  <1>3. AnnouncedPast' = [AnnouncedPast EXCEPT ![d] = @ \cup {Info(d, t)}]
    <2>1. \A e \in Devices : AnnouncedPast'[e] =
             IF e = d THEN AnnouncedPast[e] \cup {Info(d, t)}
                      ELSE AnnouncedPast[e]
      BY DEF AnnouncedPast, IndInv, TypeOK, DeviceTypeOK
    <2>2. QED
      BY <2>1 DEF AnnouncedPast
  <1>4. QED
    BY <1>1, <1>2, <1>3 DEF Cache!Change, Announced, AnnouncedPast

\* An entry that is replaced by something the device once was.
LEMMA CacheRefresh ==
    ASSUME IndInv, NEW d \in Devices, NEW s \in past[d],
           registry' = [registry EXCEPT ![d] = Info(d, s)],
           UNCHANGED deviceVars
    PROVE  Cache!Refresh(d)
  <1>1. Info(d, s) \in AnnouncedPast[d]
    BY DEF AnnouncedPast
  <1>2. UNCHANGED <<Announced, AnnouncedPast>>
    BY DEF Announced, AnnouncedPast, deviceVars
  <1>3. QED
    BY <1>1, <1>2 DEF Cache!Refresh, Announced, AnnouncedPast

LEMMA CacheStutter ==
    ASSUME UNCHANGED <<deviceVars, registry>>
    PROVE  UNCHANGED Cache!vars
  BY DEF Cache!vars, deviceVars

\* Every step of ControlPath is a step of DeviceCache or changes none of its
\* variables.
LEMMA CacheStep ==
    ASSUME IndInv, [Next]_vars
    PROVE  [Cache!Next]_(Cache!vars)
  <1>1. ASSUME NEW r \in Requests, Handle(r) PROVE Cache!Next
    <2>1. /\ Target(r) \in Devices /\ Target(r) \in Actuators
          /\ call[r].command \in Commands
          /\ state[Target(r)] \in States(Target(r))
      BY <1>1, TargetType DEF Handle, IndInv, TypeOK, DeviceTypeOK
    <2>2. PICK d \in Devices : \E t \in States(d) :
             /\ state' = [state EXCEPT ![d] = t]
             /\ past' = [past EXCEPT ![d] = @ \cup {t}]
             /\ UNCHANGED registry
      BY <1>1, <2>1, HandleCommandType DEF Handle
    <2>3. Cache!Change(d)
      BY <2>2, CacheChange
    <2>4. QED
      BY <2>3 DEF Cache!Next
  <1>2. ASSUME NEW d \in Devices, StartDevice(d) PROVE Cache!Next
    <2>1. Cache!Change(d)
      BY <1>2, InitStateType, CacheChange DEF StartDevice
    <2>2. QED
      BY <2>1 DEF Cache!Next
  <1>3. ASSUME NEW d \in Devices, UpdateSensor(d) PROVE Cache!Next
    <2>1. PICK m \in InFlight(d) :
             registry' = [registry EXCEPT ![d] = m.info]
      BY <1>3 DEF UpdateSensor, Discovered
    <2>2. PICK s \in past[d] : m.info = Info(d, s)
      BY <2>1 DEF InFlight, IndInv, Truth, ResponsesTrue
    <2>3. Cache!Refresh(d)
      BY <1>3, <2>1, <2>2, CacheRefresh DEF UpdateSensor
    <2>4. QED
      BY <2>3 DEF Cache!Next
  <1>4. ASSUME NEW r \in Requests, Receive(r)
        PROVE  Cache!Next \/ UNCHANGED Cache!vars
    <2>1. Target(r) \in Devices
      BY <1>4, TargetType DEF Receive, IndInv
    <2>2. /\ registry' = [registry EXCEPT ![Target(r)] =
                            IF registry[Target(r)] = None THEN None
                            ELSE Confirmed(registry[Target(r)], reply[r])]
          /\ UNCHANGED deviceVars
      BY <1>4, <2>1 DEF Receive, IndInv, TypeOK, RegistryTypeOK
    <2>3. CASE registry[Target(r)] = None
      <3>1. UNCHANGED <<deviceVars, registry>>
        BY <2>1, <2>2, <2>3 DEF IndInv, TypeOK, RegistryTypeOK
      <3>2. QED
        BY <3>1, CacheStutter
    <2>4. CASE registry[Target(r)] # None
      <3>1. PICK s \in past[Target(r)] :
               Confirmed(registry[Target(r)], reply[r]) = Info(Target(r), s)
        BY <1>4, <2>4, ConfirmedIsInfo DEF Receive
      <3>2. registry' = [registry EXCEPT ![Target(r)] = Info(Target(r), s)]
        BY <2>2, <2>4, <3>1
      <3>3. Cache!Refresh(Target(r))
        BY <2>1, <2>2, <3>2, CacheRefresh
      <3>4. QED
        BY <2>1, <3>3 DEF Cache!Next
    <2>5. QED
      BY <2>3, <2>4
  <1>5. ASSUME CrashGateway PROVE Cache!Next
    <2>1. /\ registry' = [d \in Devices |-> None]
          /\ UNCHANGED <<Announced, AnnouncedPast>>
      BY <1>5 DEF CrashGateway, deviceVars, Announced, AnnouncedPast
    <2>2. QED
      BY <2>1 DEF Cache!Next, Cache!Clear, Announced, AnnouncedPast
  <1>6. CASE UNCHANGED <<deviceVars, registry>>
    BY <1>6, CacheStutter
  <1>7. QED
    BY <1>1, <1>2, <1>3, <1>4, <1>5, <1>6
       DEF Next, vars, ClientThread, Arrival, RejectUnknown, RejectSensor,
           Accept, Arrives, Connect, ConnectFail, NoResponse, Timeout,
           SendReply, AnswerDiscovery, LoseRequest, LoseResponse, CrashDevice,
           Listen, Discover, StartGateway

\* The registry is a cache of the devices: every entry was true of its device
\* at some time, whole, whatever is lost, delayed, swapped or restarted
\* (CacheSpec).
THEOREM Refinement == Spec => CacheSpec
  <1>1. Init => Cache!Init
    BY CacheInit
  <1>2. IndInv /\ [Next]_vars => [Cache!Next]_(Cache!vars)
    BY CacheStep
  <1>3. QED
    BY <1>1, <1>2, Invariance, PTL DEF Spec, CacheSpec, Cache!Spec
=============================================================================
