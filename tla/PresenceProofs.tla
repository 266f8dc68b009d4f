--------------------------- MODULE PresenceProofs ---------------------------
(***************************************************************************)
(* Proofs about Presence, for any devices, periods and delays: no deadline *)
(* is missed, a device that was stopped is not shown as active, and one    *)
(* that runs is.                                                           *)
(*                                                                         *)
(* The second rests on what a stopped device leaves behind: nothing of it  *)
(* is younger than its end, neither a message nor, but for the time a      *)
(* message travels, its entry in the registry.  The third is accounting:   *)
(* every round of discovery and every reading of a device that runs has    *)
(* been heard, is on its way, or has been paid for by a lost datagram.     *)
(***************************************************************************)
EXTENDS Presence, TLAPS

\* A stopped device has no question waiting, and what it sent left before it
\* stopped.
Traces ==
    \A d \in Devices : ~up[d] =>
        \A m \in net : m.device = d => m.kind # "ask" /\ m.age >= since[d]

\* The last message of a stopped device came at most MaxDelay after its end.
Entries ==
    \A d \in Devices : ~up[d] /\ d \in known => age[d] + MaxDelay >= since[d]

PresenceInv == TypeOK /\ Traces /\ Entries

LEMMA OlderType == \A n \in 0 .. Horizon :
    /\ Older(n) \in 0 .. Horizon
    /\ Older(n) <= n + 1
    /\ Older(n) >= n
    /\ n < Horizon => Older(n) = n + 1
  BY PresenceAssumption DEF Older

LEMMA MessageType == \A k \in Kinds, d \in Devices :
    /\ Message(k, d) \in [kind : Kinds, device : Devices, age : 0 .. MaxDelay]
    /\ Message(k, d).kind = k
    /\ Message(k, d).device = d
    /\ Message(k, d).age = 0
  BY PresenceAssumption DEF Message

LEMMA InitHolds == Init => PresenceInv
  BY PresenceAssumption DEF Init, PresenceInv, TypeOK, Traces, Entries

LEMMA TickStep == PresenceInv /\ Tick => PresenceInv'
<1> SUFFICES ASSUME PresenceInv, Tick PROVE PresenceInv'
  OBVIOUS
<1> USE PresenceAssumption, OlderType DEF PresenceInv
<1>1. \A m \in net :
        LET n == [m EXCEPT !.age = @ + 1]
        IN  /\ n \in [kind : Kinds, device : Devices, age : 0 .. MaxDelay]
            /\ n.kind = m.kind /\ n.device = m.device /\ n.age = m.age + 1
  <2> TAKE m \in net
  <2>1. /\ m \in [kind : Kinds, device : Devices, age : 0 .. MaxDelay]
        /\ m.age < MaxDelay
    BY DEF TypeOK, Tick, MayPass
  <2> QED
    BY <2>1
<1>2. TypeOK'
  <2>1. (up \in [Devices -> BOOLEAN] /\ since \in [Devices -> 0 .. Horizon])'
    BY DEF TypeOK, Tick
  <2>2. (target \subseteq {d \in Sensors : up[d]})'
    BY DEF TypeOK, Tick
  <2>3. (lastReading \in [Devices -> 0 .. ReadingPeriod + Jitter])'
    BY DEF TypeOK, Tick, MayPass
  <2>4. (gateway \in [up : BOOLEAN, since : 0 .. Horizon])'
    BY DEF TypeOK, Tick
  <2>5. (lastDiscovery \in 0 .. DiscoveryPeriod + Jitter)'
    BY DEF TypeOK, Tick, MayPass
  <2>6. (net \subseteq [kind : Kinds, device : Devices, age : 0 .. MaxDelay])'
    BY <1>1 DEF Tick
  <2>7. (known \subseteq Devices /\ age \in [Devices -> 0 .. Horizon])'
    BY DEF TypeOK, Tick
  <2>8. (losses \in 0 .. MaxLosses /\ stops \in 0 .. MaxStops)'
    BY DEF TypeOK, Tick, budgetVars
  <2> QED
    BY <2>1, <2>2, <2>3, <2>4, <2>5, <2>6, <2>7, <2>8 DEF TypeOK
<1>3. Traces'
  <2> SUFFICES ASSUME NEW d \in Devices, ~up'[d], NEW n \in net', n.device = d
               PROVE  n.kind # "ask" /\ n.age >= since'[d]
    BY DEF Traces
  <2>1. PICK m \in net : n = [m EXCEPT !.age = @ + 1]
    BY DEF Tick
  <2>2. n.kind = m.kind /\ n.device = m.device /\ n.age = m.age + 1
    BY <1>1, <2>1
  <2>3. m.kind # "ask" /\ m.age >= since[d]
    BY <2>2 DEF Traces, Tick
  <2>4. m.age \in Nat /\ since[d] \in 0 .. Horizon
    BY DEF TypeOK
  <2>5. since'[d] <= since[d] + 1 /\ since'[d] \in Int
    BY <2>4 DEF Tick
  <2> QED
    BY <2>2, <2>3, <2>4, <2>5
<1>4. Entries'
  <2> SUFFICES ASSUME NEW d \in Devices, ~up'[d], d \in known'
               PROVE  age'[d] + MaxDelay >= since'[d]
    BY DEF Entries
  <2>1. age[d] \in 0 .. Horizon /\ since[d] \in 0 .. Horizon
    BY DEF TypeOK
  <2>2. age[d] + MaxDelay >= since[d]
    BY DEF Entries, Tick
  <2>3. age'[d] = Older(age[d]) /\ since'[d] = Older(since[d])
    BY DEF TypeOK, Tick
  <2> QED
    BY <2>1, <2>2, <2>3
<1> QED
  BY <1>2, <1>3, <1>4

LEMMA ThreadStep ==
    ASSUME PresenceInv,
           \/ Discover
           \/ \E m \in net : Answer(m)
           \/ \E d \in Devices : SendReading(d) \/ SendReply(d)
    PROVE  PresenceInv'
<1> USE PresenceAssumption, MessageType
    DEF PresenceInv, Kinds, deviceVars, registryVars, budgetVars
<1>1. CASE Discover
  <2>1. TypeOK'
    BY <1>1 DEF Discover, TypeOK
  <2>2. Traces'
    BY <1>1 DEF Discover, TypeOK, Traces
  <2>3. Entries'
    BY <1>1 DEF Discover, Entries
  <2> QED
    BY <2>1, <2>2, <2>3
<1>2. ASSUME NEW m \in net, Answer(m) PROVE PresenceInv'
  <2>1. m.device \in Devices /\ up[m.device]
    BY <1>2 DEF Answer, TypeOK, Traces
  <2>2. TypeOK'
    BY <1>2, <2>1 DEF Answer, Addressed, TypeOK
  <2>3. Traces'
    BY <1>2, <2>1 DEF Answer, TypeOK, Traces
  <2>4. Entries'
    BY <1>2 DEF Answer, Entries
  <2> QED
    BY <2>2, <2>3, <2>4
<1>3. ASSUME NEW d \in Devices, SendReading(d) PROVE PresenceInv'
  <2>1. up[d]
    BY <1>3 DEF SendReading, TypeOK
  <2>2. TypeOK'
    BY <1>3 DEF SendReading, TypeOK
  <2>3. Traces'
    BY <1>3, <2>1 DEF SendReading, TypeOK, Traces
  <2>4. Entries'
    BY <1>3 DEF SendReading, Entries
  <2> QED
    BY <2>2, <2>3, <2>4
<1>4. ASSUME NEW d \in Devices, SendReply(d) PROVE PresenceInv'
  <2>1. TypeOK'
    BY <1>4 DEF SendReply, TypeOK
  <2>2. Traces'
    BY <1>4 DEF SendReply, TypeOK, Traces
  <2>3. Entries'
    BY <1>4 DEF SendReply, Entries
  <2> QED
    BY <2>1, <2>2, <2>3
<1> QED
  BY <1>1, <1>2, <1>3, <1>4

\* The registry hears of a stopped device at most MaxDelay after its end.
LEMMA ReceiveStep ==
    ASSUME PresenceInv, NEW m \in net, Receive(m)
    PROVE  PresenceInv'
<1> USE PresenceAssumption DEF PresenceInv, deviceVars, registryVars, budgetVars
<1>1. /\ m.device \in Devices
      /\ m.age \in 0 .. MaxDelay
      /\ ~up[m.device] => since[m.device] <= MaxDelay
  BY DEF TypeOK, Traces
<1>2. TypeOK'
  BY <1>1 DEF Receive, TypeOK
<1>3. Traces'
  BY DEF Receive, Traces
<1>4. Entries'
  <2> SUFFICES ASSUME NEW d \in Devices, ~up'[d], d \in known'
               PROVE  age'[d] + MaxDelay >= since'[d]
    BY DEF Entries
  <2>1. CASE d = m.device /\ gateway.up /\ Heard(m)
    BY <1>1, <2>1 DEF Receive, TypeOK
  <2>2. CASE ~(d = m.device /\ gateway.up /\ Heard(m))
    BY <1>1, <2>2 DEF Receive, TypeOK, Entries, Heard
  <2> QED
    BY <2>1, <2>2
<1> QED
  BY <1>2, <1>3, <1>4

LEMMA FaultStep ==
    ASSUME PresenceInv,
           \/ \E m \in net : Lose(m)
           \/ \E d \in Devices : Stop(d) \/ Start(d)
           \/ StopGateway
           \/ StartGateway
    PROVE  PresenceInv'
<1> USE PresenceAssumption DEF PresenceInv, deviceVars, registryVars, budgetVars
<1>1. ASSUME NEW m \in net, Lose(m) PROVE PresenceInv'
  BY <1>1 DEF Lose, TypeOK, Traces, Entries
<1>2. ASSUME NEW d \in Devices, Stop(d) PROVE PresenceInv'
  <2>1. TypeOK'
    BY <1>2 DEF Stop, TypeOK
  <2>2. Traces'
    BY <1>2 DEF Stop, TypeOK, Traces
  <2>3. Entries'
    BY <1>2 DEF Stop, TypeOK, Entries
  <2> QED
    BY <2>1, <2>2, <2>3
<1>3. ASSUME NEW d \in Devices, Start(d) PROVE PresenceInv'
  <2>1. TypeOK'
    BY <1>3 DEF Start, TypeOK
  <2>2. Traces'
    BY <1>3 DEF Start, TypeOK, Traces
  <2>3. Entries'
    BY <1>3 DEF Start, TypeOK, Entries
  <2> QED
    BY <2>1, <2>2, <2>3
<1>4. CASE StopGateway
  <2>1. TypeOK'
    BY <1>4 DEF StopGateway, TypeOK
  <2>2. Traces' /\ Entries'
    BY <1>4 DEF StopGateway, Traces, Entries
  <2> QED
    BY <2>1, <2>2
<1>5. CASE StartGateway
  BY <1>5 DEF StartGateway, TypeOK, Traces, Entries
<1> QED
  BY <1>1, <1>2, <1>3, <1>4, <1>5

LEMMA Step == PresenceInv /\ [Next]_vars => PresenceInv'
<1> SUFFICES ASSUME PresenceInv, [Next]_vars PROVE PresenceInv'
  OBVIOUS
<1>1. CASE UNCHANGED vars
  BY <1>1 DEF PresenceInv, TypeOK, Traces, Entries,
              vars, deviceVars, registryVars, budgetVars
<1>2. CASE Next
  BY <1>2, TickStep, ThreadStep, ReceiveStep, FaultStep DEF Next
<1> QED
  BY <1>1, <1>2

\* What is not younger than its device's end is stale in time.
LEMMA Shown == PresenceInv => DeadShownInactive
<1> SUFFICES ASSUME PresenceInv,
                    NEW d \in Devices, NEW w \in 0 .. MaxWait,
                    ~up[d], since[d] - w > StaleAfter(d) + MaxDelay
             PROVE  Listing(d, w) # "active"
  BY DEF DeadShownInactive
<1> USE PresenceAssumption
<1>1. StaleAfter(d) \in Int
  BY DEF StaleAfter, Larger
<1>2. age[d] \in Int /\ since[d] \in Int /\ w \in Int
  BY DEF PresenceInv, TypeOK
<1>3. d \in known => age[d] + MaxDelay >= since[d]
  BY DEF PresenceInv, Entries
<1>4. d \in known => age[d] - w > StaleAfter(d)
  BY <1>1, <1>2, <1>3
<1> QED
  BY <1>1, <1>2, <1>4 DEF Listing

-----------------------------------------------------------------------------
(* The invariant behind LiveShownActive                                    *)

\* How long n rounds of discovery, or n readings, take at most.
Rounds(n) == n * (DiscoveryPeriod + Jitter)
Periods(n) == n * (ReadingPeriod + Jitter)

\* Device and gateway have not run together for longer than n.
Fresh(d, n) == gateway.since <= n \/ since[d] <= n

\* Since both run, d has been unheard for at most n.
Quiet(d, n) == Fresh(d, n) \/ (d \in known /\ age[d] <= n)

InFlight(d, kind, n) ==
    \E m \in net : m.device = d /\ m.kind = kind /\ m.age = n

\* The question of the last round is on its way to d, or d's answer to it is.
Asked(d) == InFlight(d, "ask", lastDiscovery)
Announcing(d) ==
    \E m \in net : /\ m.device = d /\ m.kind = "info"
                   /\ m.age <= lastDiscovery
                   /\ lastDiscovery <= m.age + MaxDelay
SendingReading(d) == InFlight(d, "reading", lastReading[d])

\* Every round of discovery makes itself heard, or its question or answer is
\* on its way, or a loss has paid for it.
RoundsCount(d) ==
    \/ Quiet(d, lastDiscovery + Rounds(losses))
    \/ (Asked(d) \/ Announcing(d)) /\ Quiet(d, lastDiscovery + Rounds(losses + 1))

\* A sensor that has no address has not heard a question since it runs.
NoAddress(d) ==
    \/ Fresh(d, lastDiscovery + Rounds(losses))
    \/ Asked(d) /\ Fresh(d, lastDiscovery + Rounds(losses + 1))

\* So does every reading of a sensor that has an address ...
ReadingsCount(d) ==
    \/ age[d] <= lastReading[d] + Periods(losses)
    \/ SendingReading(d) /\ age[d] <= lastReading[d] + Periods(losses + 1)

\* ... unless it is about to announce itself for the first time ...
FirstInfo(d) ==
    \E m \in net :
        /\ m.device = d /\ m.kind = "info"
        /\ \/ /\ lastReading[d] >= m.age \/ SendingReading(d)
              /\ Fresh(d, m.age + Rounds(losses + 1) + MaxDelay)
           \/ Fresh(d, m.age + Rounds(losses) + MaxDelay)

\* ... or that has been lost, and its readings make up for it.
FirstReading(d) ==
    \/ Fresh(d, lastReading[d] + Rounds(losses) + MaxDelay)
    \/ SendingReading(d)
       /\ Fresh(d, lastReading[d] + Rounds(losses + 1) + MaxDelay)

AddressKnown(d) == ReadingsCount(d) \/ FirstInfo(d) \/ FirstReading(d)

\* A device that runs, with a gateway that runs, makes itself heard.
Heeded(d) ==
    /\ RoundsCount(d)
    /\ d \in Sensors \ target => NoAddress(d)
    /\ d \in target /\ d \in known => AddressKnown(d)

AllHeeded == gateway.up => \A d \in Devices : up[d] => Heeded(d)

LiveInv == PresenceInv /\ AllHeeded

LEMMA Bounds ==
    /\ DiscoveryPeriod \in Nat /\ ReadingPeriod \in Nat /\ Jitter \in Nat
    /\ MaxDelay \in Nat /\ MaxLosses \in Nat /\ Horizon \in Nat
    /\ MaxDelay < ReadingPeriod
    /\ 2 * MaxDelay < DiscoveryPeriod
    /\ ReadingPeriod <= DiscoveryPeriod
  BY PresenceAssumption, TimingAssumption

LEMMA RoundsGrow ==
  ASSUME NEW n \in Nat
  PROVE  /\ Rounds(n) \in Nat
         /\ Rounds(n + 1) = Rounds(n) + (DiscoveryPeriod + Jitter)
         /\ Periods(n) \in Nat
         /\ Periods(n + 1) = Periods(n) + (ReadingPeriod + Jitter)
<1>1. ASSUME NEW k \in Nat
      PROVE  n * k \in Nat /\ (n + 1) * k = n * k + k
  OBVIOUS
<1>2. DiscoveryPeriod + Jitter \in Nat /\ ReadingPeriod + Jitter \in Nat
  BY Bounds
<1>. QED
  BY <1>1, <1>2 DEF Rounds, Periods

\* The numbers that the invariant compares.
LEMMA Numbers ==
  ASSUME TypeOK, NEW d \in Devices
  PROVE  /\ gateway.since \in 0 .. Horizon
         /\ since[d] \in 0 .. Horizon
         /\ age[d] \in 0 .. Horizon
         /\ lastReading[d] \in 0 .. ReadingPeriod + Jitter
         /\ lastDiscovery \in 0 .. DiscoveryPeriod + Jitter
         /\ losses \in Nat
         /\ \A m \in net : m.age \in 0 .. MaxDelay /\ m.kind \in Kinds
  BY DEF TypeOK

\* What has not to do with d leaves what is known of it, but for a loss.
LEMMA OthersKeep ==
  ASSUME TypeOK, NEW d \in Devices, Heeded(d),
         gateway'.since = gateway.since, since'[d] = since[d],
         (d \in known') <=> (d \in known), age'[d] = age[d],
         (d \in target') <=> (d \in target),
         lastReading'[d] = lastReading[d],
         lastDiscovery' = lastDiscovery,
         losses' \in {losses, losses + 1},
         \A m \in net : m.device = d => m \in net'
  PROVE  Heeded(d)'
<1>1. /\ losses' \in Nat
      /\ Rounds(losses) \in Nat /\ Rounds(losses + 1) \in Nat
      /\ Rounds(losses') \in Nat /\ Rounds(losses' + 1) \in Nat
      /\ Rounds(losses) <= Rounds(losses')
      /\ Rounds(losses + 1) <= Rounds(losses' + 1)
      /\ Periods(losses) \in Nat /\ Periods(losses + 1) \in Nat
      /\ Periods(losses') \in Nat /\ Periods(losses' + 1) \in Nat
      /\ Periods(losses) <= Periods(losses')
      /\ Periods(losses + 1) <= Periods(losses' + 1)
  <2>1. losses \in Nat /\ losses + 1 \in Nat
    BY Numbers
  <2>2. CASE losses' = losses
    BY <2>1, <2>2, RoundsGrow
  <2>3. CASE losses' = losses + 1
    BY <2>1, <2>3, RoundsGrow, Bounds
  <2>. QED
    BY <2>2, <2>3
<1>2. ASSUME NEW n \in Nat, NEW k \in Nat, n <= k
      PROVE  (Fresh(d, n) => Fresh(d, k)') /\ (Quiet(d, n) => Quiet(d, k)')
  BY <1>2, Numbers DEF Fresh, Quiet
<1>3. /\ Asked(d) => Asked(d)'
      /\ Announcing(d) => Announcing(d)'
      /\ SendingReading(d) => SendingReading(d)'
  BY DEF Asked, Announcing, SendingReading, InFlight
<1>4. /\ lastDiscovery \in Nat /\ lastReading[d] \in Nat /\ MaxDelay \in Nat
      /\ age[d] \in Nat
      /\ \A m \in net : m.age \in Nat
  BY Numbers, Bounds
<1>5. RoundsCount(d)'
  BY <1>1, <1>2, <1>3, <1>4 DEF Heeded, RoundsCount
<1>6. (d \in Sensors \ target => NoAddress(d))'
  BY <1>1, <1>2, <1>3, <1>4 DEF Heeded, NoAddress
<1>7. (d \in target /\ d \in known => AddressKnown(d))'
  <2>1. ReadingsCount(d) => ReadingsCount(d)'
    BY <1>1, <1>3, <1>4 DEF ReadingsCount
  <2>2. FirstInfo(d) => FirstInfo(d)'
    BY <1>1, <1>2, <1>3, <1>4 DEF FirstInfo
  <2>3. FirstReading(d) => FirstReading(d)'
    BY <1>1, <1>2, <1>3, <1>4 DEF FirstReading
  <2>. QED
    BY <2>1, <2>2, <2>3 DEF Heeded, AddressKnown
<1>. QED
  BY <1>5, <1>6, <1>7 DEF Heeded

\* A second passes for all alike.
LEMMA TickHeeds ==
  ASSUME PresenceInv, Tick, gateway.up, NEW d \in Devices, Heeded(d)
  PROVE  Heeded(d)'
<1>. USE Bounds
<1>1. /\ gateway'.since <= gateway.since + 1 /\ since'[d] <= since[d] + 1
      /\ gateway'.since \in Int /\ since'[d] \in Int
      /\ age'[d] <= age[d] + 1 /\ age'[d] \in Int
      /\ known' = known /\ target' = target /\ losses' = losses
      /\ lastDiscovery' = lastDiscovery + 1
      /\ d \in target => lastReading'[d] = lastReading[d] + 1
  BY Numbers, OlderType DEF Tick, PresenceInv, TypeOK, budgetVars
<1>2. TypeOK /\ losses \in Nat /\ losses + 1 \in Nat
  BY Numbers DEF PresenceInv
<1>3. ASSUME NEW m \in net
      PROVE  \E n \in net' : /\ n.device = m.device /\ n.kind = m.kind
                             /\ n.age = m.age + 1
  <2>1. m \in [kind : Kinds, device : Devices, age : 0 .. MaxDelay]
    BY <1>2 DEF TypeOK
  <2>2. PICK n : n = [m EXCEPT !.age = m.age + 1]
    OBVIOUS
  <2>3. n \in net'
    BY <2>2 DEF Tick
  <2>. QED
    BY <2>1, <2>2, <2>3
<1>4. ASSUME NEW n \in Nat
      PROVE  /\ Fresh(d, n) => Fresh(d, n + 1)'
             /\ Quiet(d, n) => Quiet(d, n + 1)'
  BY <1>1, <1>2, Numbers DEF Fresh, Quiet
<1>5. /\ Rounds(losses) \in Nat /\ Rounds(losses + 1) \in Nat
      /\ Periods(losses) \in Nat /\ Periods(losses + 1) \in Nat
      /\ lastDiscovery \in Nat /\ lastReading[d] \in Nat /\ age[d] \in Nat
      /\ \A m \in net : m.age \in Nat
  BY <1>2, RoundsGrow, Numbers
<1>6. /\ Asked(d) => Asked(d)'
      /\ Announcing(d) => Announcing(d)'
      /\ d \in target => (SendingReading(d) => SendingReading(d)')
  <2>1. Asked(d) => Asked(d)'
    BY <1>1, <1>3 DEF Asked, InFlight
  <2>2. ASSUME Announcing(d) PROVE Announcing(d)'
    <3>1. PICK m \in net : /\ m.device = d /\ m.kind = "info"
                           /\ m.age <= lastDiscovery
                           /\ lastDiscovery <= m.age + MaxDelay
      BY <2>2 DEF Announcing
    <3>2. PICK n \in net' : /\ n.device = d /\ n.kind = "info"
                            /\ n.age = m.age + 1
      BY <1>3, <3>1
    <3>3. n.age <= lastDiscovery' /\ lastDiscovery' <= n.age + MaxDelay
      BY <1>1, <1>5, <3>1, <3>2
    <3>. QED
      BY <3>2, <3>3 DEF Announcing
  <2>3. d \in target => (SendingReading(d) => SendingReading(d)')
    BY <1>1, <1>3 DEF SendingReading, InFlight
  <2>. QED
    BY <2>1, <2>2, <2>3
<1>7. RoundsCount(d)'
  <2>1. /\ lastDiscovery + Rounds(losses) \in Nat
        /\ lastDiscovery + Rounds(losses + 1) \in Nat
        /\ (lastDiscovery + Rounds(losses))'
             = (lastDiscovery + Rounds(losses)) + 1
        /\ (lastDiscovery + Rounds(losses + 1))'
             = (lastDiscovery + Rounds(losses + 1)) + 1
    BY <1>1, <1>5
  <2>. QED
    BY <2>1, <1>1, <1>4, <1>6 DEF Heeded, RoundsCount
<1>8. (d \in Sensors \ target => NoAddress(d))'
  <2>1. /\ lastDiscovery + Rounds(losses) \in Nat
        /\ lastDiscovery + Rounds(losses + 1) \in Nat
        /\ (lastDiscovery + Rounds(losses))'
             = (lastDiscovery + Rounds(losses)) + 1
        /\ (lastDiscovery + Rounds(losses + 1))'
             = (lastDiscovery + Rounds(losses + 1)) + 1
    BY <1>1, <1>5
  <2>. QED
    BY <2>1, <1>1, <1>4, <1>6 DEF Heeded, NoAddress
<1>9. (d \in target /\ d \in known => AddressKnown(d))'
  <2>. SUFFICES ASSUME d \in target, d \in known, AddressKnown(d)
                PROVE  AddressKnown(d)'
    BY <1>1 DEF Heeded
  <2>1. lastReading'[d] = lastReading[d] + 1
    BY <1>1
  <2>2. CASE ReadingsCount(d)
    <3>. ReadingsCount(d)'
      BY <1>1, <1>5, <1>6, <2>1, <2>2 DEF ReadingsCount
    <3>. QED
      BY DEF AddressKnown
  <2>3. CASE FirstInfo(d)
    <3>1. PICK m \in net :
             /\ m.device = d /\ m.kind = "info"
             /\ \/ /\ lastReading[d] >= m.age \/ SendingReading(d)
                   /\ Fresh(d, m.age + Rounds(losses + 1) + MaxDelay)
                \/ Fresh(d, m.age + Rounds(losses) + MaxDelay)
      BY <2>3 DEF FirstInfo
    <3>2. PICK n \in net' : /\ n.device = d /\ n.kind = "info"
                            /\ n.age = m.age + 1
      BY <1>3, <3>1
    <3>3. /\ m.age + Rounds(losses + 1) + MaxDelay \in Nat
          /\ m.age + Rounds(losses) + MaxDelay \in Nat
          /\ n.age + Rounds(losses' + 1) + MaxDelay
               = (m.age + Rounds(losses + 1) + MaxDelay) + 1
          /\ n.age + Rounds(losses') + MaxDelay
               = (m.age + Rounds(losses) + MaxDelay) + 1
      BY <1>1, <1>5, <3>2
    <3>4. lastReading[d] >= m.age => lastReading'[d] >= n.age
      BY <1>5, <2>1, <3>2
    <3>5. \/ /\ lastReading'[d] >= n.age \/ SendingReading(d)'
             /\ Fresh(d, n.age + Rounds(losses + 1) + MaxDelay)'
          \/ Fresh(d, n.age + Rounds(losses) + MaxDelay)'
      BY <1>1, <1>4, <1>6, <3>1, <3>3, <3>4
    <3>. FirstInfo(d)'
      BY <3>2, <3>5 DEF FirstInfo
    <3>. QED
      BY DEF AddressKnown
  <2>4. CASE FirstReading(d)
    <3>1. /\ lastReading[d] + Rounds(losses) + MaxDelay \in Nat
          /\ lastReading[d] + Rounds(losses + 1) + MaxDelay \in Nat
          /\ (lastReading[d] + Rounds(losses) + MaxDelay)'
               = (lastReading[d] + Rounds(losses) + MaxDelay) + 1
          /\ (lastReading[d] + Rounds(losses + 1) + MaxDelay)'
               = (lastReading[d] + Rounds(losses + 1) + MaxDelay) + 1
      BY <1>1, <1>5, <2>1
    <3>. FirstReading(d)'
      BY <1>1, <1>4, <1>6, <2>4, <3>1 DEF FirstReading
    <3>. QED
      BY DEF AddressKnown
  <2>. QED
    BY <2>2, <2>3, <2>4 DEF AddressKnown
<1>. QED
  BY <1>7, <1>8, <1>9 DEF Heeded

LEMMA Counted ==
  ASSUME TypeOK, NEW d \in Devices
  PROVE  /\ losses \in Nat /\ losses + 1 \in Nat
         /\ Rounds(losses) \in Nat
         /\ Rounds(losses + 1) = Rounds(losses) + (DiscoveryPeriod + Jitter)
         /\ Rounds(losses + 1) \in Nat
         /\ Rounds(losses + 1 + 1)
              = Rounds(losses + 1) + (DiscoveryPeriod + Jitter)
         /\ Rounds(losses + 1 + 1) \in Nat
         /\ Periods(losses) \in Nat
         /\ Periods(losses + 1) = Periods(losses) + (ReadingPeriod + Jitter)
         /\ Periods(losses + 1) \in Nat
         /\ Periods(losses + 1 + 1)
              = Periods(losses + 1) + (ReadingPeriod + Jitter)
         /\ Periods(losses + 1 + 1) \in Nat
         /\ lastDiscovery \in Nat
         /\ lastDiscovery <= DiscoveryPeriod + Jitter
         /\ lastReading[d] \in Nat
         /\ lastReading[d] <= ReadingPeriod + Jitter
         /\ age[d] \in Nat /\ since[d] \in Nat /\ gateway.since \in Nat
         /\ \A m \in net : m.age \in Nat /\ m.age <= MaxDelay
<1>1. losses \in Nat /\ losses + 1 \in Nat
  BY Numbers
<1>. QED
  BY <1>1, RoundsGrow, Numbers, Bounds

\* Fresh and Quiet are the more true the larger the number.
LEMMA Looser ==
  ASSUME TypeOK, NEW d \in Devices, NEW n \in Nat, NEW k \in Nat, n <= k
  PROVE  /\ Fresh(d, n) => Fresh(d, k)
         /\ Quiet(d, n) => Quiet(d, k)
         /\ Fresh(d, n) => Quiet(d, n)
  BY Numbers DEF Fresh, Quiet

\* A question is late enough that all of the last round has come in.
LEMMA DiscoverHeeds ==
  ASSUME PresenceInv, Discover, NEW d \in Devices, up[d], Heeded(d)
  PROVE  Heeded(d)'
<1>. USE Bounds
<1>1. /\ UNCHANGED <<up, since, target, lastReading, gateway, known, age, losses>>
      /\ lastDiscovery' = 0 /\ lastDiscovery >= DiscoveryPeriod
      /\ net \subseteq net'
  BY DEF Discover, deviceVars, registryVars, budgetVars
<1>2. TypeOK
  BY DEF PresenceInv
<1>3. ~Asked(d) /\ ~Announcing(d)
  BY <1>1, <1>2, Counted DEF Asked, Announcing, InFlight
<1>4. Asked(d)'
  <2>1. Message("ask", d) \in net'
    BY DEF Discover
  <2>. QED
    BY <2>1, <1>1, MessageType DEF Asked, InFlight, Kinds
<1>5. ASSUME NEW n \in Nat
      PROVE  (Fresh(d, n) => Fresh(d, n)') /\ (Quiet(d, n) => Quiet(d, n)')
  BY <1>1 DEF Fresh, Quiet
<1>6. /\ Quiet(d, lastDiscovery + Rounds(losses)) => Quiet(d, Rounds(losses + 1))
      /\ Fresh(d, lastDiscovery + Rounds(losses)) => Fresh(d, Rounds(losses + 1))
  BY <1>2, Looser, Counted
<1>7. 0 + Rounds(losses + 1) = Rounds(losses + 1) /\ Rounds(losses + 1) \in Nat
  BY <1>2, Counted
<1>8. RoundsCount(d)'
  <2>1. Quiet(d, Rounds(losses + 1))'
    BY <1>3, <1>5, <1>6, <1>7, <1>1 DEF Heeded, RoundsCount
  <2>2. (lastDiscovery + Rounds(losses + 1))' = Rounds(losses + 1)
    BY <1>1, <1>7
  <2>. QED
    BY <1>1, <1>4, <2>1, <2>2 DEF RoundsCount
<1>9. (d \in Sensors \ target => NoAddress(d))'
  <2>. SUFFICES ASSUME d \in Sensors \ target PROVE NoAddress(d)'
    BY <1>1
  <2>1. Fresh(d, Rounds(losses + 1))'
    BY <1>3, <1>5, <1>6, <1>7, <1>1 DEF Heeded, NoAddress
  <2>2. (lastDiscovery + Rounds(losses + 1))' = Rounds(losses + 1)
    BY <1>1, <1>7
  <2>. QED
    BY <1>1, <1>4, <2>1, <2>2 DEF NoAddress
<1>10. (d \in target /\ d \in known => AddressKnown(d))'
  <2>. SUFFICES ASSUME d \in target, d \in known, AddressKnown(d)
                PROVE  AddressKnown(d)'
    BY <1>1 DEF Heeded
  <2>1. SendingReading(d) => SendingReading(d)'
    BY <1>1 DEF SendingReading, InFlight
  <2>2. ReadingsCount(d) => ReadingsCount(d)'
    BY <2>1, <1>1 DEF ReadingsCount
  <2>3. FirstInfo(d) => FirstInfo(d)'
    BY <2>1, <1>1 DEF FirstInfo, Fresh
  <2>4. FirstReading(d) => FirstReading(d)'
    BY <2>1, <1>1 DEF FirstReading, Fresh
  <2>. QED
    BY <2>2, <2>3, <2>4 DEF AddressKnown
<1>. QED
  BY <1>8, <1>9, <1>10 DEF Heeded

\* A question answered goes on as the answer.
LEMMA AnswerHeeds ==
  ASSUME PresenceInv, NEW m \in net, Answer(m),
         m.device \in Devices, Heeded(m.device)
  PROVE  Heeded(m.device)'
<1>. DEFINE d == m.device
<1>. USE Bounds
<1>1. /\ m.kind = "ask"
      /\ UNCHANGED <<up, since, lastReading, gateway, lastDiscovery, known, age,
                     losses>>
      /\ target' = target \cup Addressed(d)
      /\ net' = (net \ {m}) \cup {Message("info", d)}
  BY DEF Answer, registryVars, budgetVars
<1>2. TypeOK
  BY DEF PresenceInv
<1>3. PICK n \in net' : n.device = d /\ n.kind = "info" /\ n.age = 0
  BY <1>1, MessageType DEF Kinds
<1>4. \A i \in net : i.kind # "ask" => i \in net'
  BY <1>1
<1>5. RoundsCount(d)'
  <2>1. CASE Quiet(d, lastDiscovery + Rounds(losses))
    BY <2>1, <1>1 DEF RoundsCount, Quiet, Fresh
  <2>2. CASE /\ Asked(d) \/ Announcing(d)
             /\ Quiet(d, lastDiscovery + Rounds(losses + 1))
    <3>1. Quiet(d, lastDiscovery + Rounds(losses + 1))'
      BY <2>2, <1>1 DEF Quiet, Fresh
    <3>2. CASE Announcing(d)
      <4>. Announcing(d)'
        BY <3>2, <1>1, <1>4 DEF Announcing
      <4>. QED
        BY <3>1 DEF RoundsCount
    <3>3. CASE Asked(d) /\ m.age = lastDiscovery
      <4>1. n.age <= lastDiscovery /\ lastDiscovery <= n.age + MaxDelay
        BY <3>3, <1>2, <1>3, Counted
      <4>. Announcing(d)'
        BY <4>1, <1>1, <1>3 DEF Announcing
      <4>. QED
        BY <3>1 DEF RoundsCount
    <3>4. CASE Asked(d) /\ m.age # lastDiscovery
      <4>. Asked(d)'
        BY <3>4, <1>1 DEF Asked, InFlight
      <4>. QED
        BY <3>1 DEF RoundsCount
    <3>. QED
      BY <2>2, <3>2, <3>3, <3>4
  <2>. QED
    BY <2>1, <2>2 DEF Heeded, RoundsCount
<1>6. (d \in Sensors \ target => NoAddress(d))'
  BY <1>1 DEF Addressed
<1>7. (d \in target /\ d \in known => AddressKnown(d))'
  <2>1. CASE d \in target
    <3>1. SendingReading(d) => SendingReading(d)'
      BY <1>1, <1>4 DEF SendingReading, InFlight
    <3>2. ReadingsCount(d) => ReadingsCount(d)'
      BY <3>1, <1>1 DEF ReadingsCount
    <3>3. FirstInfo(d) => FirstInfo(d)'
      BY <3>1, <1>1, <1>4 DEF FirstInfo, Fresh
    <3>4. FirstReading(d) => FirstReading(d)'
      BY <3>1, <1>1 DEF FirstReading, Fresh
    <3>. QED
      BY <2>1, <3>2, <3>3, <3>4, <1>1 DEF Heeded, AddressKnown
  <2>2. CASE d \notin target /\ d \in Sensors
    <3>1. NoAddress(d)
      BY <2>2 DEF Heeded
    <3>2. CASE Fresh(d, lastDiscovery + Rounds(losses))
      <4>1. Fresh(d, n.age + Rounds(losses + 1) + MaxDelay)
        BY <3>2, <1>2, <1>3, Looser, Counted
      <4>2. lastReading[d] >= n.age
        BY <1>2, <1>3, Counted
      <4>. FirstInfo(d)'
        BY <4>1, <4>2, <1>1, <1>3 DEF FirstInfo, Fresh
      <4>. QED
        BY DEF AddressKnown
    <3>3. CASE Asked(d) /\ Fresh(d, lastDiscovery + Rounds(losses + 1))
      <4>1. lastDiscovery <= MaxDelay
        BY <3>3, <1>2, Counted DEF Asked, InFlight
      <4>2. Fresh(d, n.age + Rounds(losses + 1) + MaxDelay)
        BY <4>1, <3>3, <1>2, <1>3, Looser, Counted
      <4>3. lastReading[d] >= n.age
        BY <1>2, <1>3, Counted
      <4>. FirstInfo(d)'
        BY <4>2, <4>3, <1>1, <1>3 DEF FirstInfo, Fresh
      <4>. QED
        BY DEF AddressKnown
    <3>. QED
      BY <3>1, <3>2, <3>3 DEF NoAddress
  <2>3. CASE d \notin target /\ d \notin Sensors
    BY <2>3, <1>1 DEF Addressed
  <2>. QED
    BY <2>1, <2>2, <2>3
<1>. QED
  BY <1>5, <1>6, <1>7 DEF Heeded

\* A reading is late enough that the last one has come in.
LEMMA SendReadingHeeds ==
  ASSUME PresenceInv, NEW d \in Devices, SendReading(d), Heeded(d)
  PROVE  Heeded(d)'
<1>. USE Bounds
<1>1. /\ UNCHANGED <<up, since, target, gateway, lastDiscovery, known, age, losses>>
      /\ d \in target /\ lastReading[d] >= ReadingPeriod
      /\ lastReading'[d] = 0
      /\ net' = net \cup {Message("reading", d)}
  BY DEF SendReading, registryVars, budgetVars, PresenceInv, TypeOK
<1>2. TypeOK
  BY DEF PresenceInv
<1>3. ~SendingReading(d)
  BY <1>1, <1>2, Counted DEF SendingReading, InFlight
<1>4. SendingReading(d)'
  BY <1>1, MessageType DEF SendingReading, InFlight, Kinds
<1>5. RoundsCount(d)'
  BY <1>1 DEF Heeded, RoundsCount, Quiet, Fresh, Asked, Announcing, InFlight
<1>6. (d \in Sensors \ target => NoAddress(d))'
  BY <1>1
<1>7. (d \in target /\ d \in known => AddressKnown(d))'
  <2>. SUFFICES ASSUME AddressKnown(d) PROVE AddressKnown(d)'
    BY <1>1 DEF Heeded
  <2>1. ReadingsCount(d) => ReadingsCount(d)'
    BY <1>1, <1>2, <1>3, <1>4, Counted DEF ReadingsCount
  <2>2. FirstInfo(d) => FirstInfo(d)'
    BY <1>1, <1>4 DEF FirstInfo, Fresh
  <2>3. ASSUME FirstReading(d) PROVE FirstReading(d)'
    <3>1. Fresh(d, 0 + Rounds(losses + 1) + MaxDelay)
      BY <2>3, <1>2, <1>3, Looser, Counted DEF FirstReading
    <3>. QED
      BY <3>1, <1>1, <1>4 DEF FirstReading, Fresh
  <2>. QED
    BY <2>1, <2>2, <2>3 DEF AddressKnown
<1>. QED
  BY <1>5, <1>6, <1>7 DEF Heeded

\* What is heard makes the silence start again.
LEMMA ReceiveHeeds ==
  ASSUME PresenceInv, NEW m \in net, Receive(m), gateway.up,
         m.device \in Devices, Heeded(m.device)
  PROVE  Heeded(m.device)'
<1>. DEFINE d == m.device
<1>. USE Bounds
<1>1. /\ m.kind # "ask"
      /\ UNCHANGED <<since, target, lastReading, gateway, lastDiscovery, losses>>
      /\ net' = net \ {m}
      /\ Heard(m) => age'[d] = 0 /\ d \in known'
      /\ ~Heard(m) => known' = known /\ age' = age
  BY DEF Receive, deviceVars, budgetVars, FromDevice, Heard, PresenceInv, TypeOK
<1>2. TypeOK
  BY DEF PresenceInv
<1>3. (d \in Sensors \ target => NoAddress(d))'
  BY <1>1 DEF Heeded, NoAddress, Fresh, Asked, InFlight
<1>4. CASE Heard(m)
  <2>1. 0 <= lastDiscovery + Rounds(losses)
    BY <1>2, Counted
  <2>2. RoundsCount(d)'
    BY <2>1, <1>1, <1>4 DEF RoundsCount, Quiet
  <2>3. 0 <= lastReading[d] + Periods(losses)
    BY <1>2, Counted
  <2>4. AddressKnown(d)'
    BY <2>3, <1>1, <1>4 DEF AddressKnown, ReadingsCount
  <2>. QED
    BY <2>2, <2>4, <1>3 DEF Heeded
<1>5. CASE ~Heard(m)
  <2>1. d \notin known' /\ m.kind # "info"
    BY <1>1, <1>5 DEF Heard
  <2>2. RoundsCount(d)'
    BY <2>1, <1>1, <1>5
       DEF Heeded, RoundsCount, Quiet, Fresh, Asked, Announcing, InFlight
  <2>. QED
    BY <2>1, <2>2, <1>3 DEF Heeded
<1>. QED
  BY <1>4, <1>5

\* A loss pays for the round, or the reading, that it takes away.
LEMMA LoseHeeds ==
  ASSUME PresenceInv, NEW m \in net, Lose(m),
         m.device \in Devices, Heeded(m.device)
  PROVE  Heeded(m.device)'
<1>. DEFINE d == m.device
<1>. USE Bounds
<1>1. /\ UNCHANGED <<since, target, lastReading, gateway, lastDiscovery, known,
                     age>>
      /\ losses' = losses + 1
      /\ net' = net \ {m}
  BY DEF Lose, deviceVars, registryVars
<1>2. TypeOK
  BY DEF PresenceInv
<1>3. ASSUME NEW n \in Nat, NEW k \in Nat, n <= k
      PROVE  (Fresh(d, n) => Fresh(d, k)') /\ (Quiet(d, n) => Quiet(d, k)')
  BY <1>1, <1>2, <1>3, Numbers DEF Fresh, Quiet
<1>4. /\ Rounds(losses)' = Rounds(losses + 1)
      /\ Rounds(losses + 1)' = Rounds(losses + 1 + 1)
      /\ Periods(losses)' = Periods(losses + 1)
  BY <1>1
<1>5. RoundsCount(d)'
  <2>1. Quiet(d, lastDiscovery + Rounds(losses + 1))
    BY <1>2, Looser, Counted DEF Heeded, RoundsCount
  <2>. QED
    BY <2>1, <1>1 DEF RoundsCount, Quiet, Fresh
<1>6. (d \in Sensors \ target => NoAddress(d))'
  <2>1. NoAddress(d) => Fresh(d, lastDiscovery + Rounds(losses + 1))
    BY <1>2, Looser, Counted DEF NoAddress
  <2>. QED
    BY <2>1, <1>1 DEF Heeded, NoAddress, Fresh
<1>7. (d \in target /\ d \in known => AddressKnown(d))'
  <2>. SUFFICES ASSUME AddressKnown(d) PROVE AddressKnown(d)'
    BY <1>1 DEF Heeded
  <2>1. ASSUME ReadingsCount(d) PROVE ReadingsCount(d)'
    <3>1. age[d] <= lastReading[d] + Periods(losses + 1)
      BY <2>1, <1>2, Counted DEF ReadingsCount
    <3>. QED
      BY <3>1, <1>1 DEF ReadingsCount
  <2>2. ASSUME FirstReading(d) PROVE FirstReading(d)'
    <3>1. Fresh(d, lastReading[d] + Rounds(losses + 1) + MaxDelay)
      BY <2>2, <1>2, Looser, Counted DEF FirstReading
    <3>. QED
      BY <3>1, <1>1 DEF FirstReading, Fresh
  <2>3. ASSUME FirstInfo(d) PROVE AddressKnown(d)'
    <3>1. PICK n \in net :
             /\ n.device = d /\ n.kind = "info"
             /\ \/ /\ lastReading[d] >= n.age \/ SendingReading(d)
                   /\ Fresh(d, n.age + Rounds(losses + 1) + MaxDelay)
                \/ Fresh(d, n.age + Rounds(losses) + MaxDelay)
      BY <2>3 DEF FirstInfo
    <3>2. Fresh(d, n.age + Rounds(losses + 1) + MaxDelay)
      BY <3>1, <1>2, Looser, Counted
    <3>3. CASE n # m
      <4>. FirstInfo(d)'
        BY <3>1, <3>2, <3>3, <1>1 DEF FirstInfo, Fresh
      <4>. QED
        BY DEF AddressKnown
    <3>4. CASE n = m /\ SendingReading(d)
      <4>1. SendingReading(d)'
        BY <3>1, <3>4, <1>1 DEF SendingReading, InFlight
      <4>2. Fresh(d, lastReading[d] + Rounds(losses + 1 + 1) + MaxDelay)
        BY <3>2, <1>2, Looser, Counted
      <4>. FirstReading(d)'
        BY <4>1, <4>2, <1>1 DEF FirstReading, Fresh
      <4>. QED
        BY DEF AddressKnown
    <3>5. CASE ~SendingReading(d)
      <4>1. Fresh(d, lastReading[d] + Rounds(losses + 1) + MaxDelay)
        BY <3>1, <3>5, <1>2, Looser, Counted
      <4>. FirstReading(d)'
        BY <4>1, <1>1 DEF FirstReading, Fresh
      <4>. QED
        BY DEF AddressKnown
    <3>. QED
      BY <3>3, <3>4, <3>5
  <2>. QED
    BY <2>1, <2>2, <2>3 DEF AddressKnown
<1>. QED
  BY <1>5, <1>6, <1>7 DEF Heeded

\* Who has just begun owes nothing.
LEMMA FreshHeeds ==
  ASSUME TypeOK, NEW d \in Devices, Fresh(d, 0)
  PROVE  Heeded(d)
<1>. USE Bounds
<1>1. /\ Fresh(d, lastDiscovery + Rounds(losses))
      /\ Quiet(d, lastDiscovery + Rounds(losses))
      /\ Fresh(d, lastReading[d] + Rounds(losses) + MaxDelay)
  BY Looser, Counted
<1>. QED
  BY <1>1 DEF Heeded, RoundsCount, NoAddress, AddressKnown, FirstReading

\* The same of the state after a step.
LEMMA FreshHeedsNext ==
  ASSUME TypeOK', NEW d \in Devices, Fresh(d, 0)'
  PROVE  Heeded(d)'
<1>. USE Bounds
<1>1. /\ losses' \in Nat /\ lastDiscovery' \in Nat /\ lastReading'[d] \in Nat
      /\ gateway'.since \in Nat /\ since'[d] \in Nat
  BY DEF TypeOK
<1>2. Rounds(losses') \in Nat
  BY <1>1, RoundsGrow
<1>3. /\ Fresh(d, lastDiscovery + Rounds(losses))'
      /\ Fresh(d, lastReading[d] + Rounds(losses) + MaxDelay)'
  BY <1>1, <1>2 DEF Fresh
<1>. QED
  BY <1>3 DEF Heeded, RoundsCount, Quiet, NoAddress, AddressKnown, FirstReading

LEMMA LiveInit == Init => LiveInv
<1>. SUFFICES ASSUME Init PROVE LiveInv
  OBVIOUS
<1>1. PresenceInv
  BY InitHolds
<1>2. ASSUME NEW d \in Devices PROVE Heeded(d)
  <2>1. Fresh(d, 0)
    BY DEF Init, Fresh
  <2>. QED
    BY <2>1, <1>1, FreshHeeds DEF PresenceInv
<1>. QED
  BY <1>1, <1>2 DEF LiveInv, AllHeeded

LEMMA LiveStep == LiveInv /\ [Next]_vars => LiveInv'
<1>. SUFFICES ASSUME LiveInv, [Next]_vars PROVE LiveInv'
  OBVIOUS
<1>1. PresenceInv /\ TypeOK /\ PresenceInv' /\ TypeOK'
  BY Step DEF LiveInv, PresenceInv
<1>. SUFFICES ASSUME gateway'.up, NEW d \in Devices, up'[d]
              PROVE  Heeded(d)'
  BY <1>1 DEF LiveInv, AllHeeded
<1>2. gateway.up /\ up[d] => Heeded(d)
  BY DEF LiveInv, AllHeeded
<1>3. \A m \in net : m.device \in Devices
  BY <1>1 DEF TypeOK
<1>. USE DEF deviceVars, registryVars, budgetVars
<1>4. CASE UNCHANGED vars
  BY <1>4, <1>1, <1>2, OthersKeep DEF vars
<1>5. CASE Tick
  BY <1>5, <1>1, <1>2, TickHeeds DEF Tick, TypeOK
<1>6. CASE Discover
  BY <1>6, <1>1, <1>2, DiscoverHeeds DEF Discover
<1>7. ASSUME NEW m \in net, Answer(m) PROVE Heeded(d)'
  <2>1. gateway.up /\ up[d]
    BY <1>7 DEF Answer
  <2>2. CASE m.device = d
    BY <2>1, <2>2, <1>1, <1>2, <1>7, AnswerHeeds
  <2>3. CASE m.device # d
    BY <2>1, <2>3, <1>1, <1>2, <1>7, OthersKeep DEF Answer, Addressed
  <2>. QED
    BY <2>2, <2>3
<1>8. ASSUME NEW m \in net, Receive(m) PROVE Heeded(d)'
  <2>1. gateway.up /\ up[d]
    BY <1>8 DEF Receive
  <2>2. CASE m.device = d
    BY <2>1, <2>2, <1>1, <1>2, <1>8, ReceiveHeeds
  <2>3. CASE m.device # d
    <3>1. age'[d] = age[d] /\ ((d \in known') <=> (d \in known))
      BY <2>3, <1>1, <1>8 DEF Receive, TypeOK
    <3>. QED
      BY <2>1, <2>3, <3>1, <1>1, <1>2, <1>8, OthersKeep DEF Receive
  <2>. QED
    BY <2>2, <2>3
<1>9. ASSUME NEW m \in net, Lose(m) PROVE Heeded(d)'
  <2>1. gateway.up /\ up[d]
    BY <1>9 DEF Lose
  <2>2. CASE m.device = d
    BY <2>1, <2>2, <1>1, <1>2, <1>9, LoseHeeds
  <2>3. CASE m.device # d
    BY <2>1, <2>3, <1>1, <1>2, <1>9, OthersKeep DEF Lose
  <2>. QED
    BY <2>2, <2>3
<1>10. ASSUME NEW e \in Devices, SendReading(e) PROVE Heeded(d)'
  <2>1. gateway.up /\ up[d]
    BY <1>10 DEF SendReading
  <2>2. CASE e = d
    BY <2>1, <2>2, <1>1, <1>2, <1>10, SendReadingHeeds
  <2>3. CASE e # d
    BY <2>1, <2>3, <1>1, <1>2, <1>10, OthersKeep DEF SendReading, TypeOK
  <2>. QED
    BY <2>2, <2>3
<1>11. ASSUME NEW e \in Devices, SendReply(e) PROVE Heeded(d)'
  BY <1>1, <1>2, <1>11, OthersKeep DEF SendReply
<1>12. ASSUME NEW e \in Devices, Stop(e) PROVE Heeded(d)'
  <2>1. gateway.up /\ up[d] /\ e # d
    BY <1>12, <1>1 DEF Stop, TypeOK
  <2>. QED
    BY <2>1, <1>1, <1>2, <1>12, OthersKeep DEF Stop, TypeOK
<1>13. ASSUME NEW e \in Devices, Start(e) PROVE Heeded(d)'
  <2>1. CASE e = d
    <3>1. Fresh(d, 0)'
      BY <2>1, <1>13, <1>1 DEF Start, TypeOK, Fresh
    <3>. QED
      BY <3>1, <1>1, FreshHeedsNext
  <2>2. CASE e # d
    <3>1. gateway.up /\ up[d]
      BY <2>2, <1>13, <1>1 DEF Start, TypeOK
    <3>. QED
      BY <2>2, <3>1, <1>1, <1>2, <1>13, OthersKeep DEF Start, TypeOK
  <2>. QED
    BY <2>1, <2>2
<1>14. CASE StopGateway
  BY <1>14 DEF StopGateway
<1>15. CASE StartGateway
  <2>1. Fresh(d, 0)'
    BY <1>15 DEF StartGateway, Fresh
  <2>. QED
    BY <2>1, <1>1, FreshHeedsNext
<1>. QED
  BY <1>4, <1>5, <1>6, <1>7, <1>8, <1>9, <1>10, <1>11, <1>12, <1>13, <1>14,
     <1>15 DEF Next

\* Whose debts are all paid is shown.
LEMMA LiveShown == LiveInv => LiveShownActive
<1>. SUFFICES ASSUME LiveInv, NEW d \in Devices, NEW w \in 0 .. MaxWait,
                     gateway.up, gateway.since > Settled(losses),
                     up[d], since[d] > Settled(losses),
                     Unheard(d) <= StaleAfter(d)
              PROVE  Listing(d, w) = "active"
  BY DEF LiveShownActive
<1>. USE Bounds
<1>1. TypeOK /\ Heeded(d)
  BY DEF LiveInv, AllHeeded, PresenceInv
<1>2. Settled(losses) = Rounds(losses + 1) + 2 * MaxDelay
  BY DEF Settled, Rounds
<1>3. ASSUME NEW n \in Nat, n <= Rounds(losses + 1) + 2 * MaxDelay
      PROVE  ~Fresh(d, n)
  BY <1>1, <1>2, <1>3, Counted DEF Fresh
<1>4. d \in known /\ age[d] <= Rounds(losses + 1) + 2 * MaxDelay
  <2>1. CASE Quiet(d, lastDiscovery + Rounds(losses))
    <3>1. /\ lastDiscovery + Rounds(losses) \in Nat
          /\ lastDiscovery + Rounds(losses) <= Rounds(losses + 1) + 2 * MaxDelay
      BY <1>1, Counted
    <3>. QED
      BY <2>1, <3>1, <1>1, <1>3, Counted DEF Quiet
  <2>2. CASE /\ Asked(d) \/ Announcing(d)
             /\ Quiet(d, lastDiscovery + Rounds(losses + 1))
    <3>1. lastDiscovery <= 2 * MaxDelay
      BY <2>2, <1>1, Counted DEF Asked, Announcing, InFlight
    <3>2. /\ lastDiscovery + Rounds(losses + 1) \in Nat
          /\ lastDiscovery + Rounds(losses + 1)
               <= Rounds(losses + 1) + 2 * MaxDelay
      BY <3>1, <1>1, Counted
    <3>. QED
      BY <2>2, <3>2, <1>1, <1>3, Counted DEF Quiet
  <2>. QED
    BY <2>1, <2>2, <1>1 DEF Heeded, RoundsCount
<1>5. d \in Sensors => d \in target
  <2>. SUFFICES ASSUME d \in Sensors, d \notin target, NoAddress(d) PROVE FALSE
    BY <1>1 DEF Heeded
  <2>1. CASE Fresh(d, lastDiscovery + Rounds(losses))
    BY <2>1, <1>1, <1>3, Counted
  <2>2. CASE Asked(d) /\ Fresh(d, lastDiscovery + Rounds(losses + 1))
    <3>1. lastDiscovery <= MaxDelay
      BY <2>2, <1>1, Counted DEF Asked, InFlight
    <3>. QED
      BY <2>2, <3>1, <1>1, <1>3, Counted
  <2>. QED
    BY <2>1, <2>2 DEF NoAddress
<1>6. d \in Sensors => age[d] <= Periods(losses + 1) + MaxDelay
  <2>. SUFFICES ASSUME d \in Sensors
                PROVE  age[d] <= Periods(losses + 1) + MaxDelay
    OBVIOUS
  <2>1. AddressKnown(d)
    BY <1>1, <1>4, <1>5 DEF Heeded
  <2>2. SendingReading(d) => lastReading[d] <= MaxDelay
    BY <1>1, Counted DEF SendingReading, InFlight
  <2>3. ~FirstInfo(d)
    <3>. SUFFICES ASSUME NEW m \in net,
                         \/ Fresh(d, m.age + Rounds(losses + 1) + MaxDelay)
                         \/ Fresh(d, m.age + Rounds(losses) + MaxDelay)
                  PROVE  FALSE
      BY DEF FirstInfo
    <3>. QED
      BY <1>1, <1>3, Counted
  <2>4. ~FirstReading(d)
    <3>1. CASE Fresh(d, lastReading[d] + Rounds(losses) + MaxDelay)
      BY <3>1, <1>1, <1>3, Counted
    <3>2. CASE /\ SendingReading(d)
               /\ Fresh(d, lastReading[d] + Rounds(losses + 1) + MaxDelay)
      BY <3>2, <2>2, <1>1, <1>3, Counted
    <3>. QED
      BY <3>1, <3>2 DEF FirstReading
  <2>. QED
    BY <2>1, <2>2, <2>3, <2>4, <1>1, Counted DEF AddressKnown, ReadingsCount
<1>7. age[d] <= Unheard(d)
  BY <1>1, <1>4, <1>6, Counted DEF Unheard, Rounds, Periods
<1>8. StaleAfter(d) \in Int /\ Unheard(d) \in Int /\ w \in Nat /\ age[d] \in Nat
  <2>1. StaleAfter(d) \in Int /\ w \in Nat /\ age[d] \in Nat
    BY <1>1, Counted, PresenceAssumption DEF StaleAfter, Larger
  <2>2. /\ Unheard(d) = IF d \in Sensors THEN Periods(losses + 1) + MaxDelay
                                        ELSE Rounds(losses + 1) + 2 * MaxDelay
    BY DEF Unheard, Rounds, Periods
  <2>. QED
    BY <2>1, <2>2, <1>1, Counted
<1>9. age[d] - w <= StaleAfter(d)
  BY <1>7, <1>8
<1>. QED
  BY <1>4, <1>9 DEF Listing

-----------------------------------------------------------------------------
\* The inductive invariant holds: types, and what a stopped device leaves
\* behind in the network and in the registry.
THEOREM PresenceInvariance == Spec => []PresenceInv
  BY InitHolds, Step, PTL DEF Spec

\* No sleeping thread and no message misses its deadline, and every variable
\* of Presence has its type.
THEOREM DeadlinesKept == Spec => []TypeOK
<1>1. PresenceInv => TypeOK
  BY DEF PresenceInv
<1> QED
  BY <1>1, PresenceInvariance, PTL

\* A stopped device is never shown as active once the grace period, the time
\* its last message travelled and the wait for the lock are over.
THEOREM StoppedIsStale == Spec => []DeadShownInactive
  BY Shown, PresenceInvariance, PTL

\* The second inductive invariant: every round of discovery and every reading
\* of a running device is heard, on its way, or paid for by a loss.
THEOREM LiveInvariance == Spec => []LiveInv
  BY LiveInit, LiveStep, PTL DEF Spec

\* A running device is shown as active once it and the gateway have run for a
\* round of discovery, unless losses leave a gap longer than its grace period.
THEOREM LiveIsShown == Spec => []LiveShownActive
  BY LiveShown, LiveInvariance, PTL
=============================================================================
