------------------------------ MODULE Presence ------------------------------
(***************************************************************************)
(* Which devices LIST_SENSORS shows as active, against which are alive.    *)
(*                                                                         *)
(* The gateway multicasts a question every five seconds and every device   *)
(* that hears it announces itself; sensors also send readings every two    *)
(* seconds, to the address of the last question they heard; an actuator    *)
(* also answers commands.  Each of these sets last_seen, and a list shows  *)
(* an entry as active while it is not older than the grace period.         *)
(*                                                                         *)
(* Time is discrete, in seconds.  A sleeping thread is late by at most     *)
(* Jitter and what is sent arrives within MaxDelay or, a datagram, never.  *)
(* What commands do to a device's own active flag is module ControlPath;   *)
(* here every device is switched on.                                       *)
(***************************************************************************)
EXTENDS Integers

CONSTANTS
    Devices,
    Sensors,            \* the devices that send readings
    Frequency,          \* Frequency[d]: frequency_seconds that d announces
    Grace,              \* SMARTCITY_STALE_GRACE_SECONDS
    DiscoveryPeriod,    \* Sleep in discovery_loop_thread
    ReadingPeriod,      \* Sleep in send_readings_loop
    Jitter,             \* bound: how late a sleeping thread wakes up
    MaxDelay,           \* bound: how long a message travels
    MaxWait,            \* bound: how long a list waits for the lock
    MaxLosses,          \* bound: datagrams lost
    MaxStops,           \* bound: processes stopped
    Horizon             \* bound: ages beyond it are not told apart

ASSUME PresenceAssumption ==
    /\ Sensors \subseteq Devices
    /\ Frequency \in [Devices -> Nat]
    /\ Grace \in Nat
    /\ DiscoveryPeriod \in Nat
    /\ ReadingPeriod \in Nat
    /\ Jitter \in Nat
    /\ MaxDelay \in Nat
    /\ MaxWait \in Nat
    /\ MaxLosses \in Nat
    /\ MaxStops \in Nat
    /\ Horizon \in Nat

Larger(a, b) == IF a >= b THEN a ELSE b

\* An entry that is older is stale.
StaleAfter(d) == Larger(3 * Frequency[d], Grace)

\* After so long a device that runs has been heard, if at most n datagrams
\* were lost on the way: each costs no more than one round of discovery.
Settled(n) == (n + 1) * (DiscoveryPeriod + Jitter) + 2 * MaxDelay

\* Nothing that matters is older than the horizon.
ASSUME HorizonAssumption ==
    /\ \A d \in Devices : StaleAfter(d) + MaxDelay + MaxWait < Horizon
    /\ Settled(MaxLosses) < Horizon

\* What is sent arrives, or is lost, before the next of its kind is sent: a
\* reading before the next reading, a question with the answer to it before the
\* next question.
ASSUME TimingAssumption ==
    /\ MaxDelay < ReadingPeriod
    /\ 2 * MaxDelay < DiscoveryPeriod
    /\ ReadingPeriod <= DiscoveryPeriod

VARIABLES
    up,             \* up[d]: the process of device d runs
    since,          \* since[d]: seconds since it was started or stopped
    target,         \* sensors that know where to send their readings
    lastReading,    \* lastReading[d]: seconds since sensor d's last reading
    gateway,        \* the gateway's process: [up, since]
    lastDiscovery,  \* seconds since the last multicast
    net,            \* messages on their way, with their age
    known,          \* devices in the registry
    age,            \* age[d]: seconds since last_seen
    losses, stops   \* what has gone wrong so far

deviceVars == <<up, since, target, lastReading>>
registryVars == <<known, age>>
budgetVars == <<losses, stops>>
vars == <<deviceVars, gateway, lastDiscovery, net, registryVars, budgetVars>>

Kinds == {"ask", "info", "reading", "reply"}
FromDevice == {"info", "reading", "reply"}
Message(kind, d) == [kind |-> kind, device |-> d, age |-> 0]

Init ==
    /\ up = [d \in Devices |-> TRUE]
    /\ since = [d \in Devices |-> 0]
    /\ target = {}
    /\ lastReading = [d \in Devices |-> ReadingPeriod]
    /\ gateway = [up |-> TRUE, since |-> 0]
    /\ lastDiscovery = DiscoveryPeriod
    /\ net = {}
    /\ known = {}
    /\ age = [d \in Devices |-> 0]
    /\ losses = 0
    /\ stops = 0

-----------------------------------------------------------------------------
(* Time                                                                    *)

Older(n) == IF n < Horizon THEN n + 1 ELSE n

\* Variant: readings are sent without a deadline.
SomeMayPass ==
    /\ gateway.up => lastDiscovery < DiscoveryPeriod + Jitter
    /\ \A m \in net : m.age < MaxDelay

\* No sleeping thread and no message is due.
MayPass ==
    /\ gateway.up => lastDiscovery < DiscoveryPeriod + Jitter
    /\ \A d \in target : lastReading[d] < ReadingPeriod + Jitter
    /\ \A m \in net : m.age < MaxDelay

Tick ==
    /\ MayPass
    /\ since' = [d \in Devices |-> Older(since[d])]
    /\ gateway' = [gateway EXCEPT !.since = Older(@)]
    /\ lastDiscovery' = IF gateway.up THEN lastDiscovery + 1 ELSE lastDiscovery
    /\ lastReading' = [d \in Devices |-> IF d \in target
                                           THEN lastReading[d] + 1
                                           ELSE lastReading[d]]
    /\ net' = {[m EXCEPT !.age = @ + 1] : m \in net}
    /\ age' = [d \in Devices |-> IF d \in known THEN Older(age[d]) ELSE age[d]]
    /\ UNCHANGED <<up, target, known, budgetVars>>

-----------------------------------------------------------------------------
(* The threads                                                             *)

\* discovery_loop_thread: the multicast reaches every device that runs.
Discover ==
    /\ gateway.up
    /\ lastDiscovery >= DiscoveryPeriod
    /\ lastDiscovery' = 0
    /\ net' = net \cup {Message("ask", d) : d \in {e \in Devices : up[e]}}
    /\ UNCHANGED <<deviceVars, gateway, registryVars, budgetVars>>

\* Variant: actuators take the address, too.
AddressedAll(d) == {d}

\* Who takes the address for readings from a question.
Addressed(d) == {d} \cap Sensors

\* discovery_thread: the question is taken in, and the device announces itself.
Answer(m) ==
    /\ m.kind = "ask"
    /\ target' = target \cup Addressed(m.device)
    /\ net' = (net \ {m}) \cup {Message("info", m.device)}
    /\ UNCHANGED <<up, since, lastReading, gateway, lastDiscovery, registryVars,
                   budgetVars>>

\* send_readings_loop: waits for an address, which it looks for every second
\* (part of Jitter), then sends and sleeps.
SendReading(d) ==
    /\ d \in target
    /\ lastReading[d] >= ReadingPeriod
    /\ lastReading' = [lastReading EXCEPT ![d] = 0]
    /\ net' = net \cup {Message("reading", d)}
    /\ UNCHANGED <<up, since, target, gateway, lastDiscovery, registryVars,
                   budgetVars>>

\* control_thread of an actuator answers a command of the gateway; one answer at
\* a time is enough, since only the youngest counts.
SendReply(d) ==
    /\ d \notin Sensors
    /\ up[d]
    /\ gateway.up
    /\ d \in known
    /\ ~\E m \in net : m.device = d /\ m.kind = "reply"
    /\ net' = net \cup {Message("reply", d)}
    /\ UNCHANGED <<deviceVars, gateway, lastDiscovery, registryVars, budgetVars>>

\* Variants: an entry that exists keeps its last_seen; readings do not count.
HeardOnce(m) == m.kind = "info" /\ m.device \notin known
HeardInfo(m) == m.kind = "info"

\* update_sensor sets last_seen and adds the device; a reading and the answer
\* to a command set it for a device in the registry only.
Heard(m) == m.kind = "info" \/ m.device \in known

\* udp_server_thread, discovery_response_thread, send_control_command.  While
\* the gateway is down nobody listens.
Receive(m) ==
    /\ m.kind \in FromDevice
    /\ net' = net \ {m}
    /\ IF gateway.up
         THEN /\ known' = known \cup {d \in {m.device} : m.kind = "info"}
              /\ age' = IF Heard(m) THEN [age EXCEPT ![m.device] = 0] ELSE age
         ELSE UNCHANGED registryVars
    /\ UNCHANGED <<deviceVars, gateway, lastDiscovery, budgetVars>>

-----------------------------------------------------------------------------
(* What goes wrong                                                         *)

Lose(m) ==
    /\ m.kind # "reply"
    /\ losses < MaxLosses
    /\ losses' = losses + 1
    /\ net' = net \ {m}
    /\ UNCHANGED <<deviceVars, gateway, lastDiscovery, registryVars, stops>>

\* What the device has sent is still on its way.
Stop(d) ==
    /\ up[d]
    /\ stops < MaxStops
    /\ stops' = stops + 1
    /\ up' = [up EXCEPT ![d] = FALSE]
    /\ since' = [since EXCEPT ![d] = 0]
    /\ target' = target \ {d}
    /\ net' = {m \in net : m.device = d => m.kind # "ask"}
    /\ UNCHANGED <<lastReading, gateway, lastDiscovery, registryVars, losses>>

Start(d) ==
    /\ ~up[d]
    /\ up' = [up EXCEPT ![d] = TRUE]
    /\ since' = [since EXCEPT ![d] = 0]
    /\ lastReading' = [lastReading EXCEPT ![d] = ReadingPeriod]
    /\ UNCHANGED <<target, gateway, lastDiscovery, net, registryVars, budgetVars>>

\* The registry is lost, and so are the connections with replies on them.
StopGateway ==
    /\ gateway.up
    /\ stops < MaxStops
    /\ stops' = stops + 1
    /\ gateway' = [up |-> FALSE, since |-> 0]
    /\ known' = {}
    /\ age' = [d \in Devices |-> 0]
    /\ net' = {m \in net : m.kind # "reply"}
    /\ UNCHANGED <<deviceVars, lastDiscovery, losses>>

StartGateway ==
    /\ ~gateway.up
    /\ gateway' = [up |-> TRUE, since |-> 0]
    /\ lastDiscovery' = DiscoveryPeriod
    /\ UNCHANGED <<deviceVars, net, registryVars, budgetVars>>

Next ==
    \/ Tick
    \/ Discover
    \/ \E m \in net : Answer(m) \/ Receive(m) \/ Lose(m)
    \/ \E d \in Devices : SendReading(d) \/ SendReply(d) \/ Stop(d) \/ Start(d)
    \/ StopGateway
    \/ StartGateway

Spec == Init /\ [][Next]_vars

-----------------------------------------------------------------------------
(* What a list shows                                                       *)

\* Variant: the age of an entry is not looked at.
ListingUnaged(d, w) == IF d \notin known THEN "absent" ELSE "active"

\* build_sensor_list_response takes the time BEFORE it waits for the lock:
\* what it shows of device d now, if it took the time w seconds ago.
Listing(d, w) ==
    IF d \notin known THEN "absent"
    ELSE IF age[d] - w <= StaleAfter(d) THEN "active" ELSE "inactive"

\* Every variable has its type, and no deadline is missed.
TypeOK ==
    /\ up \in [Devices -> BOOLEAN]
    /\ since \in [Devices -> 0 .. Horizon]
    /\ target \subseteq {d \in Sensors : up[d]}
    /\ lastReading \in [Devices -> 0 .. ReadingPeriod + Jitter]
    /\ gateway \in [up : BOOLEAN, since : 0 .. Horizon]
    /\ lastDiscovery \in 0 .. DiscoveryPeriod + Jitter
    /\ net \subseteq [kind : Kinds, device : Devices, age : 0 .. MaxDelay]
    /\ known \subseteq Devices
    /\ age \in [Devices -> 0 .. Horizon]
    /\ losses \in 0 .. MaxLosses
    /\ stops \in 0 .. MaxStops

\* README steps 13 to 15: a device that was stopped is not shown as active any
\* more, whatever was still on its way, even after a restart of the gateway and
\* although a list compares with a time taken before it had the lock.
DeadShownInactive ==
    gateway.up =>
        \A d \in Devices, w \in 0 .. MaxWait :
            ~up[d] /\ since[d] - w > StaleAfter(d) + MaxDelay =>
                Listing(d, w) # "active"

\* How long a running device may stay unheard after the losses so far.
Unheard(d) ==
    IF d \in Sensors
      THEN (losses + 1) * (ReadingPeriod + Jitter) + MaxDelay
      ELSE (losses + 1) * (DiscoveryPeriod + Jitter) + 2 * MaxDelay

\* README steps 4 and 17 to 19: a device is shown as active once it and the
\* gateway have run long enough for a round of discovery, and stays so.  Lost
\* datagrams are made up for as long as they leave no gap longer than the
\* grace period: for a sensor two, for an actuator none.
LiveShownActive ==
    \A d \in Devices, w \in 0 .. MaxWait :
        /\ gateway.up /\ gateway.since > Settled(losses)
        /\ up[d] /\ since[d] > Settled(losses)
        /\ Unheard(d) <= StaleAfter(d)
        => Listing(d, w) = "active"
=============================================================================
