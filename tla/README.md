# Smart city sockets: a TLA+ model of the gateway and its devices

This directory specifies and verifies the programs of this repository: a
gateway, its clients, three actuators and three sensors that talk over TCP and
UDP, written twice, in Python (`1_python/`) and in C (`2_c/`). The
specifications are translated from the code. Where the two implementations
differ, a constant selects which one is meant.

## 1. The system

| component | code | state it keeps | operations |
|---|---|---|---|
| gateway, registry and discovery | `gateway.c` 8-35, 149-187, 215-248, 301-347, 593-658; `gateway.py` 95-125, 153-167, 214-231 | `sensors`: id, kind, port, active flag, frequency, threshold, text, `last_seen` | ask by multicast every 5 s, replace or add an entry, list entries with "active" = flag and recently seen |
| gateway, control | `gateway.c` 413-524, 660-703; `gateway.py` 169-212, 321-343 | none of its own: two critical sections on the registry | look up, connect, send, receive, store what the device confirmed, answer the client |
| gateway, readings | `gateway.c` 36-147, 189-213, 250-299, 349-411, 554-591; `gateway.py` 68-93, 127-151, 233-250 | `readings`, one CSV file per sensor | keep a reading, save it, averages, maximum, the last 200 |
| actuators | `actuator_*.c`, `actuator_*.py` | active flag; camera: recording, direction; traffic light: colour, mode; street light: brightness | `handle_command` under a lock, answer discovery |
| sensors | `sensor_*.c`, `sensor_*.py` | address and port of the gateway | answer discovery, send a reading every 1 or 2 s |
| framing and codec | `smartcity_common.c`; `recv_exact`, `recv_msg`, `send_msg` of each Python program | none | four bytes of length and a protobuf message |
| client | `client.c`, `client.py` | one connection with a 5 s timeout | a menu: one request, one answer |
| web page | `web_streamlit.py` | processes it started, a cached list of processes, logs | start and stop programs, ask the gateway |

The gateway runs one thread for readings, one for discovery responses, one that
asks, and one per client; all share the registry and the readings under one
lock. A C actuator runs a thread for discovery and one that serves control
connections one after the other; a Python actuator starts a thread for each
connection. A client request is one message each way on a connection that stays
open; a command makes the gateway open a second connection, to the device.

What is hard here:

- The lock is released while the gateway talks to a device. Replies are applied
  in another order than the commands were executed; discovery responses, which
  replace an entry whole, overtake them.
- Any process may die at any step and come back in its initial state.
- A command whose connection fails may or may not have been executed.
- Nothing bounds the wait of the C gateway for a busy actuator; the Python
  gateway gives up, and the command may still be executed.
- Presence is a matter of time: periods of 2 and 5 seconds, late wake-ups and
  lost datagrams against a grace period of 10 seconds.
- A reading is kept under the lock and saved without it.
- TCP is a stream of bytes: a message arrives in pieces, or without its end.
- The wire format is written by hand twice in C and read twice, next to the
  library that Python uses.
- Messages carry no number: an answer is told to belong to a request only by the
  order on its connection, and a client that gives up leaves its request behind.
- The web page starts and stops programs by a list that may be three seconds old,
  while other pages and terminals do the same.

`PROJECT.json` lists each of these hazards at its line, with the properties
that would catch it.

## 2. The modules

| module | what it is |
|---|---|
| `Devices` | The devices as pure operators: states, initial state, `handle_command`, the announcement and the reply |
| `ControlPath` | Gateway, client threads, devices, control connections, discovery, crashes: what the registry and the clients are told |
| `DeviceCache` | What the registry promises, abstractly: for each device nothing, or one value it really had |
| `Presence` | Discrete time: when a device was last seen, and what a list shows |
| `Readings` | Memory, CSV files and statistics of the gateway |
| `ClientSession` | Runs of the client, the gateway's thread for each, an actuator: which answer belongs to which request, and what is left behind |
| `Framing` | `smart_send_msg` and `smart_recv_msg` over a stream of bytes that breaks anywhere |
| `MessageChannel` | What they promise, abstractly: whole messages, in order |
| `Codec` | The wire format as pure operators: every encoder and parser of `smartcity_common.c` and of `client.c` |
| `Transfer` | One message through an encoder's growing buffer to a parser |
| `WebProcesses` | Starting and stopping programs from the web page |
| `ControlPathProofs`, `PresenceProofs`, `ReadingsProofs`, `FramingProofs`, `TransferProofs`, `ClientSessionProofs`, `WebProcessesProofs` | Theorems |
| `Loops` | Lemmas for the proofs: induction over numbers, and that the functions that model loops over data are defined |
| `MCControlPath`, `MCPresence`, `MCReadings`, `MCClientSession`, `MCFraming`, `MCTransfer`, `MCWebProcesses` | The instances for TLC |

`ControlPath` extends `Devices` and implements `DeviceCache`. `Presence` takes
from it only that an announcement adds a device and that a reading or a reply
does not. `Framing` implements `MessageChannel`, which `ControlPath` and
`ClientSession` take for granted: there a message is delivered whole or not at
all. `ClientSession` keeps of `ControlPath` what a client can tell: a command
that is passed on is executed, lost with the device, or refused, or the gateway
gives up on it. Definitions
that start with the word "Variant" in their comment are
not used: each is a definition of the model with a plausible mistake in it, and
shows that a property would notice that mistake.

### ControlPath and the code

A request `r` is one round of `client_thread` that ends in
`send_control_command`. Its `phase` is where that function is: `connect` after
the first critical section, `await` after `connect` and `send`, `done` when the
client has its answer, `lost` when the gateway died. `conn[r]` is the control
connection at the device: `queued` in the backlog, `executing` once
`handle_command` has run, `replied`, `closed`, or `reset` because the device
died.

| action | code |
|---|---|
| `RejectUnknown`, `RejectSensor`, `Accept` | first critical section, `gateway.c` 433-453 |
| `Connect`, `ConnectFail` | `gateway.c` 463-483 |
| `Receive` | the reply and the second critical section, `gateway.c` 483-520; as one step, because only the order of the critical sections shows |
| `NoResponse` | `recv` fails, `gateway.c` 483-490 |
| `Timeout` | `gateway.py` 191 and 211, only with `GatewayTimeout` |
| `Handle`, `SendReply` | `control_thread`; `handle_command` is one step under the device's lock |
| `Report` | `actuator_camera.py` 152-160: an error is reported from a second critical section, only with `PythonActuators` |
| `Discover`, `AnswerDiscovery`, `UpdateSensor` | `discovery_loop_thread`, the devices' `discovery_thread`, `update_sensor` |
| `LoseRequest`, `LoseResponse` | UDP |
| `CrashDevice`, `StartDevice`, `Listen` | a device's process; discovery answers before the port is bound (`main` starts `discovery_thread` first) |
| `CrashGateway`, `StartGateway` | the gateway's process |

Commands are `ControlCommand`s with type, value and text. Numbers are tenths of
a percent; texts are tuples of the words that are printed. Left out: the
threshold, which travels with the frequency; names longer than the buffers;
allocations that fail; messages that cannot be decoded.

### Presence and the code

Time passes in seconds (`Tick`), but never past a deadline: a sleeping thread
wakes up at most `Jitter` late, a message arrives within `MaxDelay` or is lost.
`Listing(d, w)` is `build_sensor_list_response` when it took `now` and then
waited `w` seconds for the lock (`gateway.c` 304 and 309).

### Readings and the code

`Receive` is `udp_server_thread` up to line 578; `OpenFile`, `OpenFails` and
`WriteFile` are `persist_reading_csv`, with the crash in between that leaves a
file without a header. A line is the arrival number of its reading. Averages,
maximum and history are operators on the readings kept, since the code computes
each under one hold of the lock. `Maximum`, `Sum` and `Count` are the loops of
`gateway.c` 250-273: functions of what has been computed after `i` readings.

### ClientSession and the code

A session is one run of `client.c`: `Start` is `connect`, `Submit` and
`ShowAnswer` the two ends of a round of the menu, and `Timeout`, `Disconnected`
and `Quit` the ways to end: five seconds of silence, a broken connection, the end
of the input. `thread[s]` is `client_thread` at the gateway: `reading` in
`smart_recv_msg`, `working` in `process_client_request`, `calling` while
`send_control_command` waits for the actuator. `AnswerCommand` ends that wait;
`GiveUp`, only with `GatewayTimeout`, is the Python gateway after 3 seconds
(`gateway.py` 191 and 211): it tells the client that the command has failed, and
leaves it at the actuator (`abandoned`), which executes it later or loses it. The
gateway does not learn that a client has gone before it reads again, so that
`Read` may take a request of a client that has ended. A message carries neither its session nor its number; both
are in the model only so that properties can speak of them.

### Framing, Codec, Transfer and the code

`Framing` has one step for each call of `send` and `recv`, of any number of bytes
that fit. Each end may close at any step; what is on its way may then be lost.
`Codec` has one operator for each encoder, and a table for each parser: field
number, member and kind, in the order of the `if` statements of the C code.
Messages are records, strings and doubles sequences of bytes. Numbers have 64
bits, keys 32. What is read was written by one of these programs or has lost its
end, so three things are left out that do not come up then: members that the C code
casts to 32 bits (ports, kinds, types) with larger numbers, strings with a zero byte
inside, and lengths so near 2^64 that the sum with the position
(`smartcity_common.c` 390, `client.c` 186) would wrap. A field of a newer version is
given by its number, its wire type and its value, and written as the library does.
`Transfer` appends what an encoder writes piece by piece to a buffer that doubles
(`buffer_reserve`), then hands it to the parser: whole, with fields of a newer
version, or without its end, as `recvfrom` leaves a datagram that is too long. What
Python writes (`PythonMessage`) is modelled as the library does it: every field that
differs from its default, in the order of the numbers, in answers and in the
messages inside them, too.

### WebProcesses and the code

`procs` are the processes that the system has seen. `managed` and `cache` are the
two entries of a page's session that matter. `Decide` is `start_process` up to its
early return, `Launch` the rest; a stop is `BeginStop` (the page's own process),
then for each script `ScanForStop`, `Terminate` and `FinishStop`, which are
`stop_script_processes`. `Tick` drops a list that is older than
`PROCESS_SCAN_TTL_SECONDS`, since the code does not look at it any more. Streamlit
ends a run of a page at an access to the session's state when the user has clicked
again: `LaunchUnnoted` and `Abandon`. Left out: processes that may not be ended
(the code ignores the error), and editors or shells with a script's name in their
command line, which the code takes for the script.

## 3. What is checked

| run | instance | what it shows |
|---|---|---|
| `control_path_c` | camera, 2 requests, 3 commands, 2 responses of a device in flight, 1 crash of the camera and 1 of the gateway | `AnswersAreTrue`, `DoneStaysDone`, `RecordingNeedsPower`, `FailureIsFinal`, the refinement `CacheSpec`, the inductive invariant `IndInv` (with `TypeOK`) and, under fairness, `EveryRequestEnds` and `RegistryCatchesUp` |
| `control_path_python` | camera and temperature sensor, 3 requests, 2 commands, 2 responses in flight | `AnswersAreTrue` and `CacheSpec` for the Python programs with their timeout |
| `actuators` | traffic light and street light, 2 requests, 9 commands | `DoneStaysDone`; the brightness stays in range |
| `presence_sensor` | one sensor, the periods of the code, 2 lost datagrams, 2 stops | `DeadShownInactive`, `LiveShownActive` and the inductive invariant `LiveInv` (with the types) |
| `presence_actuator` | one actuator, 1 lost datagram, 3 stops | `LiveInv` and `LiveShownActive` for a device that is heard less often |
| `readings` | 2 sensors, 3 metrics, 4 readings, a file that cannot be opened, 2 crashes | files, memory and answers agree; the inductive invariant `ReadingsInv` |
| `client_session` | 2 sessions, one of 2 requests and one of 1, a query, a command and EXIT, a gateway with a timeout, 1 crash of it | `AnswersMatch`, `NoOvertaking`, `OneIsLeftBehind` and, under fairness, `ThreadsEnd` |
| `framing` | 2 of 3 messages, 5 bytes in the connection | the refinement `ChannelSpec` and, under fairness, `MessageArrives` and `EndIsNoticed` |
| `codec` | 7 kinds of messages, any two fields set, written in C and in Python | `RoundTrip`, `UnknownFieldsIgnored`, `CutIsNoticed`, `BufferHolds` |
| `web_processes` | a page, 3 scripts, 2 starts, the 3 seconds of the code | `RivalsAreYoung`, `RefusalsAreWarranted`, `StopIsThorough`, the inductive invariant `WebInv` |
| `python_sync` | camera, 2 requests | `ConfirmedInSync` is violated |
| `brightness_nan` | street light, 1 request | `BrightnessInRange` is violated |

The properties in words:

- `AnswersAreTrue`: OK or ERROR from a device means executed exactly once; not
  found, not controllable, not connected mean not executed; never twice.
- `FailureIsFinal`: what was reported as failed does not happen later. After a
  timeout of the Python gateway it may, and the property says so.
- `DoneStaysDone`: what a device answered with OK is done, and its announcements
  show it; with ERROR, nothing has changed. What is done stays so until the device
  restarts or a command runs that asks for the contrary (`Opposed`: nothing the
  device can show fits both). No side effect of another command takes it back: only
  a new mode or another colour replaces a colour set by hand, not switching the
  light off, and not a command that is refused.
- `RecordingNeedsPower`: neither the camera nor its entry records while off.
- `CacheSpec`: no entry is invented or mixed from two states. It relies on all
  that a reply does not change (kind and port) being constant for a device.
- `RegistryCatchesUp`: once commands and crashes end, discovery repairs what
  replies in the wrong order have left.
- `DeadShownInactive`: a stopped device is not shown as active after grace
  period, message delay and wait for the lock.
- `LiveShownActive`: a running device is shown as active from one round of
  discovery on. A sensor bears two lost datagrams in a row, an actuator none:
  two rounds take 12 seconds and more, the grace period is 10.
- `LossesAccounted`, `FilesInOrder`: each reading is in its file, once and in
  order, but for one per failure and the one in hand.
- `MaximumIsGreatest`, `AverageIsBetween`, `HistoryIsLatest`: the answers are
  what their names say.
- `AnswersMatch`: what a client shows is the answer to its last request, although
  messages carry no number. It holds because a client that gave up ends.
- `NoOvertaking`: a command whose answer was shown, in any client, before another
  command was sent is not executed after it. In the Python gateway this is so of
  the commands that it waited for; one that it gave up on, and called failed, may
  be executed after what the user has sent since. With `GatewayTimeout` FALSE, the C
  gateway, it is so of every command.
- `OneIsLeftBehind`: of a client that has gone at most one command is still
  executed, its last, and only if it did not see the answer, with the same
  exception for the Python gateway; none at all is executed twice. `ThreadsEnd`: the
  gateway's thread ends, too.
- `ChannelSpec`: what is handed out are the messages that were sent, whole and in
  order, however the stream is cut. `MessageArrives`, `EndIsNoticed`: nobody waits
  for bytes that are never sent.
- `RoundTrip`: every parser reads what every encoder wrote. `UnknownFieldsIgnored`:
  fields of a newer version change nothing. `CutIsNoticed`: a datagram without its
  end is rejected or is one with fewer fields, never one with other values.
  `BufferHolds`: the buffer has room for what is appended.
- `RivalsAreYoung`: a second instance of a program is started only beside one of the
  last seconds that the page has not noted as its own: it was started by someone
  else, or by a run of the page that ended before it noted it. `RefusalsAreWarranted`: what keeps a
  page from starting a program ran three seconds ago, and is none that the page
  has stopped itself. `StopIsThorough`: after a stop nothing runs that did when it
  looked.

### Findings

1. `ConfirmedInSync`. The comment in `gateway.py` 201 says that the local state
   is kept in sync with what the sensor confirmed. A discovery response built
   before a command, or replies stored in swapped order, leave an older state in
   the registry although every command was confirmed; the next round of
   discovery repairs it.
2. `BrightnessInRange`. The street light's test `value < 0 || value > 100` lets
   NaN through, which the client's `strtod` and `float` read from `nan`.

Met while reading, with no run of its own: `2_c/README.md` 123 says that option 8
of the client asks for a state; it sends DEACTIVATE (`client.c`
`build_request`), as `CommandType` of `ClientSession` has it.

### Bounds, and why they are enough

Two requests are the fewest whose critical sections interleave; three, in the
Python run, let an error be reported while two other commands race. One crash of
each kind puts a restart between any two steps of a request; a second one would
meet only fresh requests. `MaxDatagrams` of 2 lets an older response arrive
after a newer one. The commands of the camera do not commute, so that order is
visible. The run with liveness has the camera alone; that a sensor is refused is
in the Python run. Requests are interchangeable, and symmetry is used where only
invariants, action properties and the refinement are checked, not for liveness.

In `Presence` ages stop at `Horizon`; an assumption says that it lies beyond all
comparisons. One device is enough, because devices do not affect each other's
entries. The jitter of 1 s includes the second a sensor sleeps between two looks
for an address. `Readings` ends when its bound on readings is reached, which is
why that run does not look for deadlocks: sensors may all stop.

Two sessions of the client are the fewest in which a request is sent after an
answer was seen elsewhere, and two requests of one of them let its first command be
left at the actuator while it sends the second, or goes. A second request of the
other session multiplies the states by 15 and shows nothing new. The run has a
gateway that may give up; its behaviours include those of one that never does, and
the properties ask as much of those as of the C gateway. A session is not used
again, and the run ends when all have ended, which is why it does not look for
deadlocks.
In `Framing` the window of 5 is longer than a header and shorter than a frame, so
that a frame is cut in its header, between header and message and in the message;
one message is empty and one looks like a header. In `Codec` values lie on both
sides of the steps of a varint and of a buffer's capacity; fields are encoded and
parsed one at a time, so that pairs show every interaction; a string of 300 bytes
stands for all that need two bytes of length. `codec` ends when the message is
parsed. In `WebProcesses` one page is enough: all that another page can do to it
is to start and to end processes, which `StartElsewhere` and `EndElsewhere` do at
any moment. Two processes let a page's own and a foreign one meet. That run ends
when no process may be started any more.

### Fairness

The threads of the gateway and the devices are loops that the scheduler runs
again and again: weak fairness for asking, connecting, receiving, handling,
replying and binding the port. Datagrams may be lost but not for ever: strong
fairness for answering discovery and for taking in answers. Nothing is assumed
of clients, crashes, restarts and timeouts: a device that is down may stay down,
and a request then ends because its connection is refused or reset. In
`ClientSession` the gateway's threads and the actuator go on; users and clients
need not, and a gateway need not give up. In `Framing` both loops go on while they can; nobody must ever close.

## 4. What is proved

The proofs hold for every value of the constants that satisfies the named
assumptions: any set of the known devices, any requests and commands, any number
of crashes, either implementation; for `Presence`, any periods, delays and
losses.

`ControlPathProofs`:

- `Invariance`: `Spec => []IndInv`. `IndInv` adds to the types the life cycle of
  a request and its connection (`LifeCycle`: for example a connection that is
  queued has not been executed, one that is replied has been once) and `Truth`:
  every entry, every discovery response and every reply was true of its device
  at some time. The safety properties alone are not inductive: that an answer is
  true depends on what the connection has gone through, and that an entry is
  true on the messages that will replace it.
- `TypeCorrect`, `AnswersTrue`, `FailuresFinal` and `CameraPower`: the properties
  that the runs check.
- `DoneIsKept`: the same for `DoneStaysDone`, in both implementations. For each
  device it is shown that a command done shows in the state after it
  (`CommandDone`), and for each pair of commands that the second keeps what the
  first has done, unless no state shows both.
- `BrightnessBounded`: if no client sends NaN, the brightness stays in range. The
  hypothesis is what the run `brightness_nan` shows to be needed.
- `Refinement`: `ControlPath` implements `DeviceCache`. The key step is
  `CacheRefresh`: a reply completes an entry to exactly one past announcement,
  because kind and port do not depend on the state.
- The module begins with the facts about `handle_command`, announcements and
  replies that these need.

`PresenceProofs`:

- `PresenceInvariance`, `DeadlinesKept`, `StoppedIsStale`: a stopped device has
  no question waiting and what it sent is at least as old as its end (`Traces`);
  its entry is younger than its end by at most the message delay (`Entries`).
  `DeadShownInactive` follows.
- `LiveInvariance`, `LiveIsShown`: a device that runs is shown as active. The
  argument keeps accounts: a round of discovery is recorded in the entry, or in
  a question or an answer on its way, or was paid for with a loss
  (`RoundsCount`), and so is each reading of a sensor that knows its address
  (`ReadingsCount`); a sensor that does not know it is still being asked
  (`NoAddress`), or has just learnt it (`FirstInfo`, `FirstReading`). What is
  owed grows with the losses only. These proofs, not that of
  `DeadShownInactive`, need `TimingAssumption`: what is sent arrives before the
  next of its kind is sent. It holds in the code, where a message takes far less
  than the second between two readings.

`ReadingsProofs`: `FilesStayInOrder`, `LossesAreAccounted`, `HistoryShowsLatest`
and `TypeCorrect`, for any sensors, values, limits and numbers of crashes, from
`ReadingsInv`. Readings are numbered as they come (`Numbered`), so that the one
being saved is later than every line (`LinesReceived`), which keeps the files in
order and makes each write reduce what is unsaved by one. A file is empty without
a crash only between its creation and its first write (`HeaderOwed`): hence the
header. The assumption that a missing file is not confused with one is
`NoneAssumption`. `MaximumFound` and `AverageBetween` are about loops: what
`Maximum`, `Sum` and `Count` give after `i` readings is proved for `i + 1` from
`i`. The provers cannot use an induction theorem that takes a predicate; `Loops`
states induction for a set of numbers instead (`Induction`), and derives from it
that functions defined by recursion exist (`RecursionDefined`).

`FramingProofs`: `ImplementsChannel` and `TypeCorrect`, for any messages of less
than 127 * 2^24 bytes and any window. The invariant `FramingInv` is that of a
pipe: what the receiver holds, what is on its way, what is lost and what is yet to
be sent make up the current frame (`PipeHolds`). `LengthRoundTrip` shows that the
four bytes of a length give it back.

`ClientSessionProofs`: `AnswersAlwaysMatch`, `NothingOvertakes`, `OneLeftBehind`
and `TypeCorrect`, for any sessions, options and bounds and either gateway, from
`SessionInv`: of each session one request at most is under way, in one place only -
sent (`UpHolds`), worked on (`JobHolds`), at the actuator (`BacklogHolds`) or
answered (`DownHolds`) - and it is the last that the session sent. Commands that
the gateway gave up on are beside these, each once and not executed yet
(`AbandonedHolds`); without the timeout there are none. The properties alone are
not inductive, because they say nothing of requests that are under way.

`TransferProofs`: `RoundTripsAll`, `UnknownFieldsAreIgnored`, `CutsAreNoticed` and
`BufferHoldsAll`, for any messages of the seven kinds (`ContentsAssumption`:
members of the type of their table, with lengths and numbers of 64 bits, of which
those that the code casts are taken to fit), any
fields whose number no table has (`UnknownAssumption`), and cuts at any byte.

- An encoder's pieces are, put together, whole fields one after the other (`Says`),
  for each entry of the table what its member needs (`Encodes`): none if it is the
  default, one for each element if it is repeated. That a varint, a key, a string
  or a message inside a message is read back as it was written, wherever in the
  buffer it lies, is proved by induction over its bytes (`VarintRead`,
  `VarintShift`, `FieldRead`).
- A parser's loop is a fold over these fields (`Folded`): it stores those of the
  table and steps over the others. A fold over two parts is a fold over the first
  and then the second (`FoldedInTwo`), which gives `UnknownFieldsIgnored` at any
  boundary of fields, and for a cut at a boundary a message with fewer members; a
  cut anywhere else leaves a field that is not whole (`CutInv`).
- `TransferInv` adds to the properties that the buffer and the pieces yet to be
  appended make up what the encoder wrote. The properties alone are not
  inductive: they say nothing of a message of which half is in the buffer.
- `Reserved`: the doubling of `buffer_reserve` ends with room for the piece, and,
  above 128 bytes, with less than twice what is needed.

`WebProcessesProofs`: `RivalsYoung`, `RefusalsWarranted`, `StopsAreThorough` and
`TypeCorrect`, for any pages, programs, devices and times, from `WebInv`: what a
page's list, its task and its session say of processes was true when it looked,
and whatever differs now is younger than that or is what the page has stopped
itself. `WebAssumption` says of the times that ages are counted beyond the life
of a list.

Only model-checked: liveness (`EveryRequestEnds`, `RegistryCatchesUp`,
`ThreadsEnd`, `MessageArrives`, `EndIsNoticed`), which is beyond the prover.
Every other property of a passing run is a theorem; `BrightnessInRange` is one
only without NaN.

## 5. What is not modelled

- Sensors: the values of the readings are random numbers and their alerts are only
  shown. Address and port of the gateway in a sensor are written and read
  under one lock, and every gateway announces the same port; `Presence` has what
  depends on them, the moment from which a sensor sends.
- Web page: charts, tables and logs. Its requests to the gateway open a connection
  each, with a timeout of 1.5 seconds; as far as the gateway sees they are sessions
  of one request.
- Gateway: quoting and file names in the CSV files, and allocations that fail: the
  code drops what it has no memory for.
- Layout of the menu and of what is printed, log files, generated protobuf code,
  build scripts, recorded data, helpers for time and addresses.

What would come next: the safe half of the liveness properties, that in every
state which is not final the step that fairness relies on has its guard; and that
the connections of `ControlPath` and `ClientSession` are `MessageChannel`s.
