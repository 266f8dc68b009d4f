---------------------------- MODULE ControlPath ----------------------------
(***************************************************************************)
(* The gateway, its client threads, the devices and what travels between   *)
(* them: commands over one TCP connection each, discovery over UDP.        *)
(*                                                                         *)
(* A request is one round of client_thread: a command for one device, from *)
(* its arrival to the answer the client gets.  send_control_command enters *)
(* the registry's lock twice, before and after it talks to the device;     *)
(* between the two, other requests, discovery responses and crashes        *)
(* interleave.  The device's own lock makes handle_command one step.       *)
(*                                                                         *)
(* The same protocol is implemented twice.  PythonActuators and            *)
(* GatewayTimeout select what differs: the Python actuators serve every    *)
(* connection in a thread of its own and lock their state again to report  *)
(* an error; the Python gateway gives up on a device after 3 seconds.      *)
(*                                                                         *)
(* Everything runs on one computer: TCP connections break only when one    *)
(* end's process dies or the gateway gives up.  Discovery datagrams may be *)
(* lost or reordered.  When a device was last seen is module Presence.     *)
(***************************************************************************)
EXTENDS Devices, FiniteSets

CONSTANTS
    Requests,           \* the requests that clients may make
    None,               \* no registry entry, no call, no reply
    PythonActuators,    \* a thread per connection, a second lock for errors
    GatewayTimeout,     \* the gateway may give up on a device
    MaxDatagrams,       \* bound: discovery responses of a device in flight
    MaxDeviceCrashes,   \* bound: crashes of devices
    MaxGatewayCrashes   \* bound: crashes of the gateway

ASSUME SwitchesAssumption ==
    PythonActuators \in BOOLEAN /\ GatewayTimeout \in BOOLEAN

ASSUME BoundsAssumption ==
    /\ MaxDatagrams \in Nat
    /\ MaxDeviceCrashes \in Nat
    /\ MaxGatewayCrashes \in Nat

\* None is not confused with anything a variable may hold.
ASSUME NoneAssumption ==
    \A d \in Devices : /\ None \notin Infos(d)
                       /\ None \notin Replies(d)
                       /\ \A c \in Commands : None # [device |-> d, command |-> c]

VARIABLES
    proc,           \* proc[d]: the device's process: down, running (answers
                    \*   discovery) or listening (its control port too)
    state,          \* state[d]: g_state of the device
    past,           \* past[d]: every state d has been in (history)
    gatewayUp,      \* the gateway's process is running
    registry,       \* registry[d]: GatewayState.sensors, by id
    asked,          \* devices with a discovery request waiting
    responses,      \* discovery responses on their way to the gateway
    phase,          \* phase[r]: where client_thread is with request r
    call,           \* call[r]: the device and the command of r
    conn,           \* conn[r]: the control connection of r, at the device
    reply,          \* reply[r]: the ControlResponse of r
    answer,         \* answer[r]: the ClientResponse of r
    runs,           \* runs[r]: how often handle_command ran for r (history)
    crashes         \* how often a device, and the gateway, went down

processVars == <<proc, gatewayUp, crashes>>
deviceVars == <<state, past>>
discoveryVars == <<asked, responses>>
requestVars == <<phase, call, conn, reply, answer, runs>>
vars == <<processVars, deviceVars, registry, discoveryVars, requestVars>>

Phases == {"new", "connect", "await", "done", "lost"}
Conns == {"none", "queued", "executing", "replied", "closed", "reset"}
EarlyAnswers == {"NotFound", "NotControllable", "ConnectFailed"}
LateFailures == {"NoReply", "TimedOut"}
Answers == {"none"} \cup Verdicts \cup EarlyAnswers \cup LateFailures

Target(r) == call[r].device
Calls == [device : Devices, command : Commands]
Datagrams == UNION {[device : {d}, info : Infos(d)] : d \in Devices}

Init ==
    /\ proc = [d \in Devices |-> "running"]
    /\ state = [d \in Devices |-> InitState(d)]
    /\ past = [d \in Devices |-> {InitState(d)}]
    /\ gatewayUp = TRUE
    /\ registry = [d \in Devices |-> None]
    /\ asked = {}
    /\ responses = {}
    /\ phase = [r \in Requests |-> "new"]
    /\ call = [r \in Requests |-> None]
    /\ conn = [r \in Requests |-> "none"]
    /\ reply = [r \in Requests |-> None]
    /\ answer = [r \in Requests |-> "none"]
    /\ runs = [r \in Requests |-> 0]
    /\ crashes = [device |-> 0, gateway |-> 0]

-----------------------------------------------------------------------------
(* client_thread and send_control_command                                  *)

Finish(r, a) ==
    /\ phase' = [phase EXCEPT ![r] = "done"]
    /\ answer' = [answer EXCEPT ![r] = a]

\* Request r arrives at the gateway: command c for device d.
Arrives(r, d, c) ==
    /\ gatewayUp
    /\ phase[r] = "new"
    /\ call' = [call EXCEPT ![r] = [device |-> d, command |-> c]]
    /\ UNCHANGED <<processVars, deviceVars, registry, discoveryVars,
                   conn, reply, runs>>

\* First critical section: the device is not in the registry.
RejectUnknown(r, d, c) ==
    /\ Arrives(r, d, c)
    /\ registry[d] = None
    /\ Finish(r, "NotFound")

Controllable(entry) == entry.kind = "ACTUATOR" /\ entry.port # 0

\* First critical section: the device takes no commands.
RejectSensor(r, d, c) ==
    /\ Arrives(r, d, c)
    /\ registry[d] # None
    /\ ~Controllable(registry[d])
    /\ Finish(r, "NotControllable")

\* First critical section: address and port are copied, the lock released.
Accept(r, d, c) ==
    /\ Arrives(r, d, c)
    /\ registry[d] # None
    /\ Controllable(registry[d])
    /\ phase' = [phase EXCEPT ![r] = "connect"]
    /\ UNCHANGED answer

Arrival(r) ==
    \E d \in Devices, c \in Commands :
        RejectUnknown(r, d, c) \/ RejectSensor(r, d, c) \/ Accept(r, d, c)

\* connect and send: the connection waits in the device's backlog with the
\* command in its buffer.
Connect(r) ==
    /\ phase[r] = "connect"
    /\ proc[Target(r)] = "listening"
    /\ phase' = [phase EXCEPT ![r] = "await"]
    /\ conn' = [conn EXCEPT ![r] = "queued"]
    /\ UNCHANGED <<processVars, deviceVars, registry, discoveryVars,
                   call, reply, answer, runs>>

ConnectFail(r) ==
    /\ phase[r] = "connect"
    /\ proc[Target(r)] # "listening"
    /\ Finish(r, "ConnectFailed")
    /\ UNCHANGED <<processVars, deviceVars, registry, discoveryVars,
                   call, conn, reply, runs>>

\* Variant: the text is forgotten.
ConfirmedWithoutText(entry, rep) ==
    [entry EXCEPT !.active = rep.active, !.frequency = rep.frequency]

\* What an entry becomes when the device has reported its state.
Confirmed(entry, rep) ==
    [kind |-> entry.kind, port |-> entry.port, active |-> rep.active,
     frequency |-> rep.frequency, text |-> rep.text]

\* The reply arrives; second critical section: the entry, if there still is
\* one, takes over what the device reported; the client gets its verdict.
Receive(r) ==
    /\ phase[r] = "await"
    /\ conn[r] = "replied"
    /\ registry' = [registry EXCEPT ![Target(r)] =
                      IF @ = None THEN None ELSE Confirmed(@, reply[r])]
    /\ conn' = [conn EXCEPT ![r] = "closed"]
    /\ Finish(r, reply[r].status)
    /\ UNCHANGED <<processVars, deviceVars, discoveryVars, call, reply, runs>>

\* Variant: a broken connection is tried again.
NoResponseRetries(r) ==
    /\ phase[r] = "await"
    /\ conn[r] = "reset"
    /\ phase' = [phase EXCEPT ![r] = "connect"]
    /\ conn' = [conn EXCEPT ![r] = "none"]
    /\ UNCHANGED <<processVars, deviceVars, registry, discoveryVars,
                   call, reply, answer, runs>>

\* Variant: a connection still in the backlog is given up.
BrokenOrQueued(r) == conn[r] \in {"queued", "reset"}

\* recv fails only when the device died with the connection open.
Broken(r) == conn[r] = "reset"

NoResponse(r) ==
    /\ phase[r] = "await"
    /\ Broken(r)
    /\ Finish(r, "NoReply")
    /\ UNCHANGED <<processVars, deviceVars, registry, discoveryVars,
                   call, conn, reply, runs>>

\* Variant: the gateway tries again after 3 seconds.
TimeoutRetries(r) ==
    /\ GatewayTimeout
    /\ phase[r] = "await"
    /\ conn[r] \in {"queued", "executing"}
    /\ phase' = [phase EXCEPT ![r] = "connect"]
    /\ UNCHANGED <<processVars, deviceVars, registry, discoveryVars,
                   call, conn, reply, answer, runs>>

\* The Python gateway gives up after 3 seconds.  The connection closes, but
\* the command it carried stays in the device's backlog.
Timeout(r) ==
    /\ GatewayTimeout
    /\ phase[r] = "await"
    /\ conn[r] \in {"queued", "executing"}
    /\ Finish(r, "TimedOut")
    /\ UNCHANGED <<processVars, deviceVars, registry, discoveryVars,
                   call, conn, reply, runs>>

ClientThread(r) ==
    Connect(r) \/ ConnectFail(r) \/ Receive(r) \/ NoResponse(r)

-----------------------------------------------------------------------------
(* The actuators: control_thread                                           *)

\* Variant: the loop of control_thread ends after its first connection.
FreeOnce(d) ==
    ~\E r \in Requests :
        conn[r] \in {"executing", "replied", "closed"} /\ Target(r) = d

\* A C actuator accepts the next connection when it has closed the last one.
Free(d) ==
    PythonActuators
    \/ ~\E r \in Requests : conn[r] = "executing" /\ Target(r) = d

\* Variant: the reply shows the state before the command.
BuiltReplyBefore(d, s, h) == ReplyTo(d, h.status, s)

\* The reply to a command that found the device in s and ended as h.
BuiltReply(d, s, h) == ReplyTo(d, h.status, h.state)

\* handle_command under the device's lock; the reply is built there as well.
Handle(r) ==
    /\ conn[r] = "queued"
    /\ proc[Target(r)] = "listening"
    /\ Free(Target(r))
    /\ LET d == Target(r)
           h == HandleCommand(d, state[d], call[r].command)
       IN  /\ state' = [state EXCEPT ![d] = h.state]
           /\ past' = [past EXCEPT ![d] = @ \cup {h.state}]
           /\ reply' = [reply EXCEPT ![r] = BuiltReply(d, state[d], h)]
    /\ conn' = [conn EXCEPT ![r] = "executing"]
    /\ runs' = [runs EXCEPT ![r] = @ + 1]
    /\ UNCHANGED <<processVars, registry, discoveryVars, phase, call, answer>>

\* In Python an error leaves the first critical section as an exception, and
\* a second one reads the state for the report.
Report(r) ==
    IF PythonActuators /\ reply[r].status = "ERROR"
      THEN ReplyTo(Target(r), "ERROR", state[Target(r)])
      ELSE reply[r]

\* The reply is sent and the connection closed.
SendReply(r) ==
    /\ conn[r] = "executing"
    /\ proc[Target(r)] = "listening"
    /\ reply' = [reply EXCEPT ![r] = Report(r)]
    /\ conn' = [conn EXCEPT ![r] = "replied"]
    /\ UNCHANGED <<processVars, deviceVars, registry, discoveryVars,
                   phase, call, answer, runs>>

-----------------------------------------------------------------------------
(* Discovery: discovery_loop_thread, the devices' discovery_thread and     *)
(* discovery_response_thread                                               *)

\* The multicast reaches every process that runs.
Discover ==
    /\ gatewayUp
    /\ asked' = asked \cup {d \in Devices : proc[d] # "down"}
    /\ UNCHANGED <<processVars, deviceVars, registry, responses, requestVars>>

InFlight(d) == {m \in responses : m.device = d}

\* A device answers with its state as it is now; nobody hears it while the
\* gateway is down.
AnswerDiscovery(d) ==
    /\ d \in asked
    /\ Cardinality(InFlight(d)) < MaxDatagrams
    /\ asked' = asked \ {d}
    /\ responses' = IF gatewayUp
                      THEN responses \cup
                             {[device |-> d, info |-> Info(d, state[d])]}
                      ELSE responses
    /\ UNCHANGED <<processVars, deviceVars, registry, requestVars>>

\* Variant: a device that is known already is left as it is.
DiscoveredOnce(entry, info) == IF entry = None THEN info ELSE entry

\* The entry is replaced whole, or appended.
Discovered(entry, info) == info

UpdateSensor(d) ==
    \E m \in InFlight(d) :
        /\ registry' = [registry EXCEPT ![d] = Discovered(@, m.info)]
        /\ responses' = responses \ {m}
        /\ UNCHANGED <<processVars, deviceVars, asked, requestVars>>

LoseRequest(d) ==
    /\ d \in asked
    /\ asked' = asked \ {d}
    /\ UNCHANGED <<processVars, deviceVars, registry, responses, requestVars>>

LoseResponse(d) ==
    /\ \E m \in InFlight(d) : responses' = responses \ {m}
    /\ UNCHANGED <<processVars, deviceVars, registry, asked, requestVars>>

-----------------------------------------------------------------------------
(* Processes that die and start                                            *)

\* The device's end of the connection is open.
Open(r) == conn[r] \in {"queued", "executing"}

\* A device dies: what it had not read or not answered is lost; replies and
\* discovery responses that left it are still delivered.
CrashDevice(d) ==
    /\ proc[d] # "down"
    /\ crashes.device < MaxDeviceCrashes
    /\ proc' = [proc EXCEPT ![d] = "down"]
    /\ crashes' = [crashes EXCEPT !.device = @ + 1]
    /\ asked' = asked \ {d}
    /\ conn' = [r \in Requests |->
                  IF call[r] # None /\ Target(r) = d /\ Open(r)
                    THEN "reset" ELSE conn[r]]
    /\ UNCHANGED <<gatewayUp, deviceVars, registry, responses,
                   phase, call, reply, answer, runs>>

\* main: the state is set up, and discovery_thread starts ...
StartDevice(d) ==
    /\ proc[d] = "down"
    /\ proc' = [proc EXCEPT ![d] = "running"]
    /\ state' = [state EXCEPT ![d] = InitState(d)]
    /\ past' = [past EXCEPT ![d] = @ \cup {InitState(d)}]
    /\ UNCHANGED <<gatewayUp, crashes, registry, discoveryVars, requestVars>>

\* ... before control_thread binds its port.  Sensors have no such thread.
Listen(d) ==
    /\ d \in Actuators
    /\ proc[d] = "running"
    /\ proc' = [proc EXCEPT ![d] = "listening"]
    /\ UNCHANGED <<gatewayUp, crashes, deviceVars, registry, discoveryVars,
                   requestVars>>

\* The gateway dies: registry and requests are gone, and so are the commands
\* that have not reached their device.
CrashGateway ==
    /\ gatewayUp
    /\ crashes.gateway < MaxGatewayCrashes
    /\ gatewayUp' = FALSE
    /\ crashes' = [crashes EXCEPT !.gateway = @ + 1]
    /\ registry' = [d \in Devices |-> None]
    /\ responses' = {}
    /\ phase' = [r \in Requests |->
                   IF phase[r] \in {"connect", "await"} THEN "lost"
                                                        ELSE phase[r]]
    /\ \E undelivered \in SUBSET {r \in Requests : conn[r] = "queued"} :
          conn' = [r \in Requests |->
                     IF r \in undelivered THEN "closed" ELSE conn[r]]
    /\ UNCHANGED <<proc, deviceVars, asked, call, reply, answer, runs>>

StartGateway ==
    /\ ~gatewayUp
    /\ gatewayUp' = TRUE
    /\ UNCHANGED <<proc, crashes, deviceVars, registry, discoveryVars,
                   requestVars>>

-----------------------------------------------------------------------------
Next ==
    \/ \E r \in Requests :
          \/ Arrival(r)
          \/ ClientThread(r)
          \/ Timeout(r)
          \/ Handle(r)
          \/ SendReply(r)
    \/ \E d \in Devices :
          \/ AnswerDiscovery(d)
          \/ UpdateSensor(d)
          \/ LoseRequest(d)
          \/ LoseResponse(d)
          \/ CrashDevice(d)
          \/ StartDevice(d)
          \/ Listen(d)
    \/ Discover
    \/ CrashGateway
    \/ StartGateway

Spec == Init /\ [][Next]_vars

\* The loops of the threads go on: the gateway asks every five seconds, the
\* actuators serve their connections, a client thread goes on when it can.
\* Datagrams may be lost, but not for ever.  Nothing is assumed of clients,
\* crashes, restarts and timeouts.
Fairness ==
    /\ WF_vars(Discover)
    /\ \A r \in Requests :
          /\ WF_vars(ClientThread(r))
          /\ WF_vars(Handle(r))
          /\ WF_vars(SendReply(r))
    /\ \A d \in Devices :
          /\ WF_vars(Listen(d))
          /\ SF_vars(AnswerDiscovery(d))
          /\ SF_vars(UpdateSensor(d))

FairSpec == Spec /\ Fairness

-----------------------------------------------------------------------------
(* What must hold                                                          *)

ProcessTypeOK ==
    /\ proc \in [Devices -> {"down", "running", "listening"}]
    /\ gatewayUp \in BOOLEAN
    /\ crashes \in [device : 0 .. MaxDeviceCrashes,
                    gateway : 0 .. MaxGatewayCrashes]

DeviceTypeOK ==
    /\ state \in [Devices -> AllStates]
    /\ past \in [Devices -> SUBSET AllStates]
    /\ \A d \in Devices : past[d] \subseteq States(d) /\ state[d] \in past[d]

RegistryTypeOK ==
    /\ registry \in [Devices -> {None} \cup AllInfos]
    /\ \A d \in Devices : registry[d] \in {None} \cup Infos(d)

DiscoveryTypeOK ==
    /\ asked \subseteq {d \in Devices : proc[d] # "down"}
    /\ responses \subseteq Datagrams

RequestTypeOK ==
    /\ phase \in [Requests -> Phases]
    /\ call \in [Requests -> {None} \cup Calls]
    /\ conn \in [Requests -> Conns]
    /\ reply \in [Requests -> {None} \cup AllReplies]
    /\ answer \in [Requests -> Answers]
    /\ runs \in [Requests -> Nat]

\* Every variable has its type; a device that is down has no request waiting.
TypeOK ==
    /\ ProcessTypeOK
    /\ DeviceTypeOK
    /\ RegistryTypeOK
    /\ DiscoveryTypeOK
    /\ RequestTypeOK

\* A client that is told a device's verdict (OK or ERROR) had its command
\* executed exactly once; a client told that the device is unknown, not
\* controllable or not reachable had it not executed at all; and no command
\* is executed twice, whatever dies on the way (send_control_command).
AnswersAreTrue ==
    \A r \in Requests :
        /\ answer[r] \in Verdicts => runs[r] = 1
        /\ answer[r] \in EarlyAnswers => runs[r] = 0
        /\ runs[r] <= 1

\* Once a client has an answer its command takes no effect any more, so that
\* what was reported as failed cannot happen later.  Only a command that the
\* Python gateway gave up on may still be waiting at its device.
FailureIsFinal ==
    [][\A r \in Requests :
          phase[r] = "done" /\ answer[r] # "TimedOut" => runs'[r] = runs[r]]_vars

\* What is to be seen of a camera (an entry, a report: view) once c is done.
CameraShows(c, view) ==
    CASE c.type = "ACTIVATE" -> view.active /\ view.text[1] = "ligada"
      [] c.type = "DEACTIVATE" ->
            /\ ~view.active
            /\ view.text[1] = "desligada" /\ view.text[2] = "sem gravacao"
      [] c.type = "CAMERA_START_RECORDING" ->
            view.active /\ view.text[2] = "gravando"
      [] c.type = "CAMERA_STOP_RECORDING" -> view.text[2] = "sem gravacao"
      [] c.type = "CAMERA_SET_DIRECTION" -> view.text[3] = c.text
      [] OTHER -> FALSE

\* Of the two lights.
PowerShows(c, view) ==
    CASE c.type = "ACTIVATE" -> view.active /\ view.text[1] = "ligado"
      [] c.type = "DEACTIVATE" -> ~view.active /\ view.text[1] = "desligado"
      [] OTHER -> FALSE

TrafficLightShows(c, view) ==
    CASE c.type = "TRAFFIC_LIGHT_SET_COLOR" ->
            view.text[2] = c.text /\ view.text[3] = "manual"
      [] c.type = "TRAFFIC_LIGHT_SET_MODE" -> view.text[3] = c.text
      [] OTHER -> PowerShows(c, view)

StreetLightShows(c, view) ==
    CASE c.type = "STREET_LIGHT_SET_BRIGHTNESS" ->
            view.text[2] = Percent(c.value)
      [] OTHER -> PowerShows(c, view)

Shows(d, c, view) ==
    CASE d = "camera-1" -> CameraShows(c, view)
      [] d = "semaforo-1" -> TrafficLightShows(c, view)
      [] d = "poste-1" -> StreetLightShows(c, view)

\* Nothing the device can show has both done.
Opposed(d, c, e) == ~\E view \in Infos(d) : Shows(d, c, view) /\ Shows(d, e, view)

\* The command of r runs in this step.
Runs(r) == runs'[r] # runs[r]

\* A command that is answered OK is done, in the device and in what it
\* reports, and one that is answered ERROR has changed nothing.
DoneAsReported(r) ==
    LET d == Target(r)
        c == call[r].command
    IN  IF reply'[r].status = "OK"
          THEN Shows(d, c, reply'[r]) /\ Shows(d, c, Info(d, state'[d]))
          ELSE state'[d] = state[d]

\* What the command of r was answered to have done stays, until the device
\* restarts or a command runs that asks for the contrary.
NotUndone(r) ==
    LET d == Target(r)
        c == call[r].command
    IN  reply[r] # None /\ reply[r].status = "OK" =>
          \/ Shows(d, c, Info(d, state[d])) => Shows(d, c, Info(d, state'[d]))
          \/ proc[d] = "down"
          \/ \E q \in Requests :
                Runs(q) /\ Target(q) = d /\ Opposed(d, call[q].command, c)

\* What a client was told is done was done, and no command of another client
\* takes it back but one that is about the same thing: not switching the light
\* off, not another command in between, not one that is refused (handle_command
\* of the three actuators).
DoneStaysDone ==
    [][\A r \in Requests : (Runs(r) => DoneAsReported(r)) /\ NotUndone(r)]_vars

\* A camera that is off does not record, and the registry never shows one
\* that does, whichever way its fields got there (actuator_camera.c 110-122,
\* gateway.c update_sensor and send_control_command).
RecordingNeedsPower ==
    "camera-1" \in Devices =>
        LET s == state["camera-1"]
            entry == registry["camera-1"]
        IN  /\ s.recording => s.active
            /\ entry # None /\ entry.text[2] = "gravando" => entry.active

\* The registry is a cache that never shows an invented or a torn state.
Cache ==
    INSTANCE DeviceCache WITH
        Values <- [d \in Devices |-> Infos(d)],
        value <- [d \in Devices |-> Info(d, state[d])],
        past <- [d \in Devices |-> {Info(d, s) : s \in past[d]}],
        cached <- registry

\* ControlPath implements DeviceCache.
CacheSpec == Cache!Spec

\* A request that was accepted is answered, or dies with the gateway: no
\* client thread waits for ever for a device (recv has no timeout in C).
EveryRequestEnds ==
    \A r \in Requests :
        phase[r] \in {"connect", "await"} ~> phase[r] \in {"done", "lost"}

\* When commands and crashes have come to an end, the registry agrees with
\* every device that runs, and stays so: discovery repairs whatever stale
\* responses and replies applied in the wrong order have left.
RegistryCatchesUp ==
    \A d \in Devices :
        <>[](gatewayUp /\ proc[d] # "down" => registry[d] = Info(d, state[d]))

\* Every command sent to d was answered by d, and nothing of d is in flight.
AllConfirmed(d) ==
    /\ gatewayUp
    /\ d \notin asked
    /\ InFlight(d) = {}
    /\ \E r \in Requests : call[r] # None /\ Target(r) = d
    /\ \A r \in Requests :
          call[r] # None /\ Target(r) = d => answer[r] \in Verdicts

\* gateway.py 201: after a command the local state is kept "em sincronia com o
\* que o sensor confirmou".  The entry of a device all of whose commands are
\* confirmed shows the state the device confirmed last.
ConfirmedInSync ==
    \A d \in Devices : AllConfirmed(d) => registry[d] = Info(d, state[d])

\* actuator_street_light.c 113: "Brilho deve estar entre 0 e 100".  The street
\* light never takes another brightness.
BrightnessInRange ==
    "poste-1" \in Devices =>
        LET b == state["poste-1"].brightness IN b # NaN /\ b \in 0 .. 1000
=============================================================================
