--------------------------- MODULE ClientSession ---------------------------
(***************************************************************************)
(* The clients' connections to the gateway, and what becomes of the        *)
(* requests when one side gives up.                                        *)
(*                                                                         *)
(* A session is one run of the client program: it connects, then sends one *)
(* request at a time and waits for its answer, for 5 seconds at most, and  *)
(* ends when none comes.  The messages have no number: an answer belongs   *)
(* to a request only because both sides take turns.  The gateway serves    *)
(* every connection in a thread of its own, which does not learn that its  *)
(* client has gone before it reads again, and passes commands on to the    *)
(* actuator.  A user may run several clients and start new ones.           *)
(*                                                                         *)
(* The Python gateway (GatewayTimeout) waits 3 seconds for the actuator,   *)
(* then tells the client that the command has failed; the command stays in *)
(* the actuator's backlog.  The C gateway waits as long as it takes.       *)
(*                                                                         *)
(* Messages arrive whole (module Framing) and are understood (Codec).  An  *)
(* option or a value that the menu refuses leaves everything as it is.     *)
(***************************************************************************)
EXTENDS Integers, Sequences

CONSTANTS
    Sessions,           \* runs of the client program
    Options,            \* the menu's options that are chosen
    GatewayTimeout,     \* the gateway may give up on the actuator
    MaxRequests,        \* bound: requests of each session
    MaxCrashes          \* bound: crashes of the gateway

ASSUME OptionsAssumption == Options \subseteq 1 .. 11
ASSUME SwitchAssumption == GatewayTimeout \in BOOLEAN
ASSUME BoundsAssumption ==
    MaxRequests \in [Sessions -> Nat] /\ MaxCrashes \in Nat

VARIABLES
    client,         \* client[s]: off, menu, waiting, ended
    sent,           \* sent[s]: number of requests of s
    shown,          \* shown[s]: which of them the last answer shown was to
    up, down,       \* up[s], down[s]: messages on their way
    thread,         \* thread[s]: the connection at the gateway
    job,            \* job[s]: the request that thread s works on
    backlog,        \* commands waiting at the actuator, the gateway for them
    abandoned,      \* commands waiting there that the gateway gave up on
    power,          \* the actuator is on
    executed,       \* the commands it has executed, in order (history)
    gatewayUp, crashes

clientVars == <<client, sent, shown>>
gatewayVars == <<gatewayUp, crashes>>
deviceVars == <<backlog, abandoned, power, executed>>
vars == <<clientVars, up, down, thread, job, deviceVars, gatewayVars>>

-----------------------------------------------------------------------------
(* The menu                                                                *)

RequestType ==
    <<"LIST_SENSORS", "AVG_TEMPERATURE", "AVG_CO2", "AVG_HUMIDITY",
      "MAX_READING", "READING_HISTORY", "SEND_CONTROL_COMMAND",
      "SEND_CONTROL_COMMAND", "SEND_CONTROL_COMMAND", "SEND_CONTROL_COMMAND",
      "EXIT">>

CommandType(option) ==
    CASE option = 7  -> "ACTIVATE"
      [] option = 8  -> "DEACTIVATE"
      [] option = 9  -> "TRAFFIC_LIGHT_SET_COLOR"
      [] option = 10 -> "STREET_LIGHT_SET_BRIGHTNESS"
      [] OTHER       -> "NONE"

\* session, number and after are not in the message: whose request it is, and
\* what answers had been shown when it was sent.
build_request(s, option) ==
    [type |-> RequestType[option], command |-> CommandType(option),
     session |-> s, number |-> sent[s] + 1, after |-> shown]

Requests ==
    [type : {RequestType[o] : o \in 1 .. 11},
     command : {CommandType(o) : o \in 1 .. 11},
     session : Sessions, number : Nat, after : [Sessions -> Nat]]

NoJob == [type |-> "NONE"]

Init ==
    /\ client = [s \in Sessions |-> "off"]
    /\ sent = [s \in Sessions |-> 0]
    /\ shown = [s \in Sessions |-> 0]
    /\ up = [s \in Sessions |-> << >>]
    /\ down = [s \in Sessions |-> << >>]
    /\ thread = [s \in Sessions |-> "none"]
    /\ job = [s \in Sessions |-> NoJob]
    /\ backlog = {}
    /\ abandoned = {}
    /\ power = TRUE
    /\ executed = << >>
    /\ gatewayUp = TRUE
    /\ crashes = 0

-----------------------------------------------------------------------------
(* client.c main                                                           *)

\* connect; the connection waits to be accepted.
Start(s) ==
    /\ client[s] = "off"
    /\ gatewayUp
    /\ client' = [client EXCEPT ![s] = "menu"]
    /\ thread' = [thread EXCEPT ![s] = "connected"]
    /\ UNCHANGED <<sent, shown, up, down, job, deviceVars, gatewayVars>>

\* send_msg; a send into a connection that broke need not be noticed.
Submit(s) ==
    /\ client[s] = "menu"
    /\ sent[s] < MaxRequests[s]
    /\ \E option \in Options :
          up' = [up EXCEPT ![s] = Append(@, build_request(s, option))]
    /\ sent' = [sent EXCEPT ![s] = @ + 1]
    /\ client' = [client EXCEPT ![s] = "waiting"]
    /\ UNCHANGED <<shown, down, thread, job, deviceVars, gatewayVars>>

\* recv_msg and print_response; the answer to EXIT is the last.
ShowAnswer(s) ==
    /\ client[s] = "waiting"
    /\ down[s] # << >>
    /\ shown' = [shown EXCEPT ![s] = Head(down[s]).number]
    /\ down' = [down EXCEPT ![s] = Tail(@)]
    /\ client' = [client EXCEPT ![s] = IF Head(down[s]).type = "EXIT"
                                         THEN "ended" ELSE "menu"]
    /\ UNCHANGED <<sent, up, thread, job, deviceVars, gatewayVars>>

End(s) ==
    /\ client' = [client EXCEPT ![s] = "ended"]
    /\ UNCHANGED <<sent, shown, down, thread, job, deviceVars, gatewayVars>>

\* Variant: back to the menu.
TimeoutToMenu(s) ==
    /\ client[s] = "waiting"
    /\ client' = [client EXCEPT ![s] = "menu"]
    /\ UNCHANGED <<sent, shown, up, down, thread, job, deviceVars, gatewayVars>>

\* recv_msg fails after 5 seconds without an answer.
Timeout(s) == client[s] = "waiting" /\ End(s) /\ UNCHANGED up

\* The connection broke: send_msg fails, or recv_msg when all is read.
Disconnected(s) ==
    /\ thread[s] = "ended"
    /\ \/ client[s] = "menu"
       \/ client[s] = "waiting" /\ down[s] = << >>
    /\ End(s)
    /\ UNCHANGED up

\* The end of the input, or of the window: what was sent last may be lost.
Quit(s) ==
    /\ client[s] \in {"menu", "waiting"}
    /\ End(s)
    /\ up' \in {up, [up EXCEPT ![s] = << >>]}

-----------------------------------------------------------------------------
(* gateway.c main, client_thread and process_client_request                *)

Step(s, from, to) ==
    /\ thread[s] = from
    /\ thread' = [thread EXCEPT ![s] = to]

Accept(s) ==
    /\ Step(s, "connected", "reading")
    /\ UNCHANGED <<clientVars, up, down, job, deviceVars, gatewayVars>>

\* smart_recv_msg.
Read(s) ==
    /\ up[s] # << >>
    /\ Step(s, "reading", "working")
    /\ job' = [job EXCEPT ![s] = Head(up[s])]
    /\ up' = [up EXCEPT ![s] = Tail(@)]
    /\ UNCHANGED <<clientVars, down, deviceVars, gatewayVars>>

\* Variant: recv is called again.
HangUpIgnored(s) ==
    /\ client[s] = "ended"
    /\ up[s] = << >>
    /\ Step(s, "reading", "reading")
    /\ UNCHANGED <<clientVars, up, down, job, deviceVars, gatewayVars>>

\* smart_recv_msg fails: the client has closed its end, and all is read.
HangUp(s) ==
    /\ client[s] = "ended"
    /\ up[s] = << >>
    /\ Step(s, "reading", "ended")
    /\ UNCHANGED <<clientVars, up, down, job, deviceVars, gatewayVars>>

\* Variant: the request is released before the answer is made from it.
AnswerReleased(s) ==
    /\ down' = IF client[s] = "ended" THEN down
               ELSE [down EXCEPT ![s] = Append(@, NoJob)]
    /\ job' = [job EXCEPT ![s] = NoJob]

\* smart_send_msg; an answer to a client that has gone is lost unnoticed.
Answer(s) ==
    /\ down' = IF client[s] = "ended" THEN down
               ELSE [down EXCEPT ![s] = Append(@, job[s])]
    /\ job' = [job EXCEPT ![s] = NoJob]

Query(s) ==
    /\ job[s].type \notin {"SEND_CONTROL_COMMAND", "EXIT"}
    /\ Step(s, "working", "reading")
    /\ Answer(s)
    /\ UNCHANGED <<clientVars, up, deviceVars, gatewayVars>>

Exit(s) ==
    /\ job[s].type = "EXIT"
    /\ Step(s, "working", "ended")
    /\ Answer(s)
    /\ UNCHANGED <<clientVars, up, deviceVars, gatewayVars>>

\* send_control_command reaches the actuator ...
Forward(s) ==
    /\ job[s].type = "SEND_CONTROL_COMMAND"
    /\ Step(s, "working", "calling")
    /\ backlog' = backlog \cup {job[s]}
    /\ UNCHANGED <<clientVars, up, down, job, abandoned, power, executed,
                   gatewayVars>>

\* ... or does not: not found, not controllable, not connected.
Refuse(s) ==
    /\ job[s].type = "SEND_CONTROL_COMMAND"
    /\ Step(s, "working", "reading")
    /\ Answer(s)
    /\ UNCHANGED <<clientVars, up, deviceVars, gatewayVars>>

\* Variant: the answer does not wait for the actuator's.
AnswerEarly(s) ==
    /\ Step(s, "calling", "reading")
    /\ Answer(s)
    /\ UNCHANGED <<clientVars, up, deviceVars, gatewayVars>>

\* The actuator has answered, or died: the client is told so.
AnswerCommand(s) ==
    /\ job[s] \notin backlog
    /\ Step(s, "calling", "reading")
    /\ Answer(s)
    /\ UNCHANGED <<clientVars, up, deviceVars, gatewayVars>>

\* The Python gateway has waited for 3 seconds: it closes its connection and
\* tells the client that the command has failed.
GiveUp(s) ==
    /\ GatewayTimeout
    /\ job[s] \in backlog
    /\ Step(s, "calling", "reading")
    /\ Answer(s)
    /\ backlog' = backlog \ {job[s]}
    /\ abandoned' = abandoned \cup {job[s]}
    /\ UNCHANGED <<clientVars, up, power, executed, gatewayVars>>

\* The gateway dies and its connections break: what is on its way, to a
\* client or to the actuator, may be lost or not.
Crash ==
    /\ gatewayUp
    /\ crashes < MaxCrashes
    /\ gatewayUp' = FALSE
    /\ crashes' = crashes + 1
    /\ thread' = [s \in Sessions |->
                    IF thread[s] = "none" THEN "none" ELSE "ended"]
    /\ job' = [s \in Sessions |-> NoJob]
    /\ \E lost \in SUBSET Sessions :
          down' = [s \in Sessions |-> IF s \in lost THEN << >> ELSE down[s]]
    /\ backlog' \in SUBSET backlog
    /\ abandoned' \in SUBSET abandoned
    /\ UNCHANGED <<clientVars, up, power, executed>>

Restart ==
    /\ ~gatewayUp
    /\ gatewayUp' = TRUE
    /\ UNCHANGED <<clientVars, up, down, thread, job, deviceVars, crashes>>

-----------------------------------------------------------------------------
(* The actuator                                                            *)

PowerAfter(r) ==
    r.command = "ACTIVATE" \/ (r.command # "DEACTIVATE" /\ power)

\* The history records what a command was worth when it was executed: whether
\* it changed anything, and whether the gateway had given up on it.
Executed(r) ==
    Append(executed, [request |-> r, changed |-> PowerAfter(r) # power,
                      givenUp |-> r \in abandoned])

\* Variant: the connection is served once more.
ExecuteAgain(r) ==
    /\ power' = PowerAfter(r)
    /\ executed' = Executed(r)
    /\ backlog' \in {backlog, backlog \ {r}}
    /\ abandoned' = abandoned \ {r}
    /\ UNCHANGED <<clientVars, up, down, thread, job, gatewayVars>>

\* control_thread takes a connection, in any order (the Python actuators
\* serve them all at once); whether the other end is still there shows only
\* when it answers.
Execute(r) ==
    /\ power' = PowerAfter(r)
    /\ executed' = Executed(r)
    /\ backlog' = backlog \ {r}
    /\ abandoned' = abandoned \ {r}
    /\ UNCHANGED <<clientVars, up, down, thread, job, gatewayVars>>

\* It dies, and comes back turned on: who waits for it is told that it failed.
DeviceFails ==
    /\ backlog \cup abandoned # {}
    /\ backlog' = {}
    /\ abandoned' = {}
    /\ power' = TRUE
    /\ UNCHANGED <<clientVars, up, down, thread, job, executed, gatewayVars>>

-----------------------------------------------------------------------------

ClientStep(s) ==
    \/ Start(s) \/ Submit(s) \/ ShowAnswer(s)
    \/ Timeout(s) \/ Disconnected(s) \/ Quit(s)

ThreadStep(s) ==
    \/ Accept(s) \/ Read(s) \/ HangUp(s) \/ Query(s) \/ Exit(s)
    \/ Forward(s) \/ Refuse(s) \/ AnswerCommand(s)

Next ==
    \/ \E s \in Sessions : ClientStep(s) \/ ThreadStep(s) \/ GiveUp(s)
    \/ \E r \in backlog \cup abandoned : Execute(r)
    \/ DeviceFails
    \/ Crash
    \/ Restart

Spec == Init /\ [][Next]_vars

\* Every thread of the gateway and the actuator run; nothing is assumed of
\* users and clients, nor that a gateway gives up.
Fairness ==
    /\ \A s \in Sessions : WF_vars(ThreadStep(s))
    /\ WF_vars(\E r \in backlog \cup abandoned : Execute(r))

FairSpec == Spec /\ Fairness

-----------------------------------------------------------------------------
(* What must hold                                                          *)

Entries == [request : Requests, changed : BOOLEAN, givenUp : BOOLEAN]

TypeOK ==
    /\ client \in [Sessions -> {"off", "menu", "waiting", "ended"}]
    /\ sent \in [Sessions -> Nat]
    /\ \A s \in Sessions : sent[s] <= MaxRequests[s]
    /\ shown \in [Sessions -> Nat]
    /\ up \in [Sessions -> Seq(Requests)]
    /\ down \in [Sessions -> Seq(Requests)]
    /\ thread \in [Sessions -> {"none", "connected", "reading", "working",
                                "calling", "ended"}]
    /\ job \in [Sessions -> Requests \cup {NoJob}]
    /\ backlog \subseteq Requests
    /\ abandoned \subseteq Requests
    /\ power \in BOOLEAN
    /\ executed \in Seq(Entries)
    /\ gatewayUp \in BOOLEAN
    /\ crashes \in 0 .. MaxCrashes

\* The answer a user sees is the answer to what he asked last, although
\* nothing in a message says so: a client back at its menu has been shown the
\* answer to the last of its requests (client.c 873-937).
AnswersMatch ==
    \A s \in Sessions : client[s] = "menu" => shown[s] = sent[s]

\* The gateway was still waiting for the command, as a C gateway always is.
Awaited(e) == ~(GatewayTimeout /\ e.givenUp)

\* What a user does after he was told the outcome of a command comes after it
\* at the actuator: no command is executed before another whose answer had
\* been shown, in any client, before it was sent, whoever timed out or crashed
\* in between.  Only a command that the Python gateway gave up on, and called
\* failed, may still be executed after what was sent since.
NoOvertaking ==
    \A i, j \in DOMAIN executed :
        i < j /\ Awaited(executed[j]) =>
            LET early == executed[i].request
                late == executed[j].request
            IN  late.number > early.after[late.session]

\* A client that has gone leaves no command behind that is executed after it,
\* but its last, of which it did not see the answer, and those that the Python
\* gateway gave up on; and none of all these is executed twice.
OneIsLeftBehind ==
    [][executed' # executed =>
         LET last == executed'[Len(executed')]
             r == last.request
         IN  /\ client[r.session] = "ended" /\ Awaited(last) =>
                    r.number = sent[r.session] /\ r.number > shown[r.session]
             /\ \A i \in DOMAIN executed :
                    LET e == executed[i].request
                    IN  <<e.session, e.number>> # <<r.session, r.number>>]_vars

\* The gateway's thread ends after its client, so that no thread is left over.
ThreadsEnd ==
    \A s \in Sessions : client[s] = "ended" ~> thread[s] \in {"none", "ended"}
=============================================================================
