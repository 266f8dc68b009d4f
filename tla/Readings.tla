------------------------------ MODULE Readings ------------------------------
(***************************************************************************)
(* The readings of the sensors in the gateway: one thread receives them,   *)
(* keeps them in memory under the gateway's lock and then, without it,     *)
(* writes each to the CSV file of its sensor.  Client threads answer       *)
(* questions about what is in memory under the same lock, so that each     *)
(* answer is a function of the readings kept.                              *)
(*                                                                         *)
(* Writing is two steps: the file is opened, and thereby created, and what *)
(* was written reaches it when it is closed.  The gateway may die between  *)
(* any two steps.  Memory is lost then; the files are not.                 *)
(*                                                                         *)
(* Abstractions: a line of a file is the arrival number of its reading, in *)
(* the place of the timestamp; units and alerts are left out, as are       *)
(* allocations that fail.  Values are integers.                            *)
(***************************************************************************)
EXTENDS Integers, Sequences, SequencesExt

CONSTANTS
    Sources,        \* the kinds of readings there are: [sensor, metric]
    Values,         \* the values they may have
    None,           \* no reading
    HistoryLength,  \* the 200 of build_history_response
    MaxReadings,    \* bound: readings received
    MaxFailures,    \* bound: files that cannot be opened
    MaxCrashes      \* bound: crashes of the gateway

ASSUME ReadingsAssumption ==
    /\ Values \subseteq Int
    /\ HistoryLength \in Nat \ {0}
    /\ MaxReadings \in Nat
    /\ MaxFailures \in Nat
    /\ MaxCrashes \in Nat

SensorIds == {s.sensor : s \in Sources}
Metrics == {s.metric : s \in Sources}
Reading == [sensor : SensorIds, metric : Metrics, value : Values,
            at : 1 .. MaxReadings]

\* No file is not confused with a file, nor no reading with a reading.
ASSUME NoneAssumption == None \notin Seq(Nat) /\ None \notin Reading

VARIABLES
    up,         \* the gateway's process is running
    readings,   \* GatewayState.readings
    pc,         \* udp_server_thread: "recv", "open" or "write"
    header,     \* write_header of persist_reading_csv
    file,       \* file[s]: the lines of s.csv, or None if there is no file
    received,   \* every reading that was received (history)
    failures, crashes

vars == <<up, readings, pc, header, file, received, failures, crashes>>

\* The line every CSV file begins with; readings are numbered from 1.
Header == 0

Current == Last(received)

Init ==
    /\ up = TRUE
    /\ readings = << >>
    /\ pc = "recv"
    /\ header = FALSE
    /\ file = [s \in SensorIds |-> None]
    /\ received = << >>
    /\ failures = 0
    /\ crashes = 0

\* Variant: memory is full.
KeptIfFits(rs, r) == IF Len(rs) < HistoryLength THEN Append(rs, r) ELSE rs

\* append_reading_copy: nothing is ever dropped.
Kept(rs, r) == Append(rs, r)

\* A reading arrives and is kept.
Receive(source, value) ==
    /\ up
    /\ pc = "recv"
    /\ Len(received) < MaxReadings
    /\ LET reading == [sensor |-> source.sensor, metric |-> source.metric,
                       value |-> value, at |-> Len(received) + 1]
       IN  /\ readings' = Kept(readings, reading)
           /\ received' = Append(received, reading)
    /\ pc' = "open"
    /\ UNCHANGED <<up, header, file, failures, crashes>>

\* Variants: every line gets a header; the file is written from its beginning.
NeedsHeaderAlways(lines) == TRUE
OpenedAfresh(lines) == << >>

\* The file does not exist yet.
NeedsHeader(lines) == lines = None

\* fopen(path, "a") creates the file or keeps what is in it.
Opened(lines) == IF lines = None THEN << >> ELSE lines

OpenFile ==
    /\ up
    /\ pc = "open"
    /\ LET s == Current.sensor
       IN  /\ header' = NeedsHeader(file[s])
           /\ file' = [file EXCEPT ![s] = Opened(@)]
    /\ pc' = "write"
    /\ UNCHANGED <<up, readings, received, failures, crashes>>

\* The reading stays in memory only.
OpenFails ==
    /\ up
    /\ pc = "open"
    /\ failures < MaxFailures
    /\ failures' = failures + 1
    /\ pc' = "recv"
    /\ UNCHANGED <<up, readings, header, file, received, crashes>>

\* fclose: header and line reach the file together.
WriteFile ==
    /\ up
    /\ pc = "write"
    /\ file' = [file EXCEPT ![Current.sensor] =
                  @ \o (IF header THEN <<Header>> ELSE << >>) \o <<Current.at>>]
    /\ pc' = "recv"
    /\ UNCHANGED <<up, readings, header, received, failures, crashes>>

Crash ==
    /\ up
    /\ crashes < MaxCrashes
    /\ crashes' = crashes + 1
    /\ up' = FALSE
    /\ readings' = << >>
    /\ pc' = "recv"
    /\ UNCHANGED <<header, file, received, failures>>

Start ==
    /\ ~up
    /\ up' = TRUE
    /\ UNCHANGED <<readings, pc, header, file, received, failures, crashes>>

Next ==
    \/ \E source \in Sources, value \in Values : Receive(source, value)
    \/ OpenFile
    \/ OpenFails
    \/ WriteFile
    \/ Crash
    \/ Start

Spec == Init /\ [][Next]_vars

-----------------------------------------------------------------------------
(* The questions of the clients                                            *)

\* Variant: the last of several greatest.
BetterOrEqual(best, r) == IF best = None \/ r.value >= best.value THEN r ELSE best

\* The first of several greatest.
Better(best, r) == IF best = None \/ r.value > best.value THEN r ELSE best

\* compute_max_locked, over all metrics: best[i] is the best of the first i.
Maximum(rs) ==
    LET best[i \in 0 .. Len(rs)] ==
          IF i = 0 THEN None ELSE Better(best[i - 1], rs[i])
    IN  best[Len(rs)]

OfMetric(m) == {r \in ToSet(readings) : r.metric = m}

\* Variant: every reading is counted.
CountAll(m) == Len(readings)

\* compute_average_locked: the count of a metric and its sum.
Count(m) ==
    LET count[i \in 0 .. Len(readings)] ==
          IF i = 0 THEN 0
          ELSE count[i - 1] + (IF readings[i].metric = m THEN 1 ELSE 0)
    IN  count[Len(readings)]
Sum(m) ==
    LET sum[i \in 0 .. Len(readings)] ==
          IF i = 0 THEN 0
          ELSE sum[i - 1]
               + (IF readings[i].metric = m THEN readings[i].value ELSE 0)
    IN  sum[Len(readings)]

\* Variant: one reading too many is left out.
StartLate == IF Len(readings) > HistoryLength
               THEN Len(readings) - HistoryLength + 2 ELSE 1

\* build_history_response.
HistoryStart == IF Len(readings) > HistoryLength
                  THEN Len(readings) - HistoryLength + 1 ELSE 1
History == SubSeq(readings, HistoryStart, Len(readings))

-----------------------------------------------------------------------------
(* What must hold                                                          *)

\* Every variable has its type; what the thread writes is the last in memory.
TypeOK ==
    /\ up \in BOOLEAN
    /\ readings \in Seq(Reading)
    /\ pc \in {"recv", "open", "write"}
    /\ header \in BOOLEAN
    /\ \A s \in SensorIds : file[s] = None \/ file[s] \in Seq(0 .. MaxReadings)
    /\ received \in Seq(Reading)
    /\ failures \in 0 .. MaxFailures
    /\ crashes \in 0 .. MaxCrashes
    /\ pc # "recv" => up /\ readings # << >> /\ Last(readings) = Current

Lines(s) == IF file[s] = None THEN << >> ELSE file[s]

\* A CSV file holds readings of its own sensor, each once and in the order
\* they came in, over all lives of the gateway; the header is its first line
\* and only that, unless the gateway died with a file just created.
FilesInOrder ==
    \A s \in SensorIds :
        LET lines == Lines(s)
        IN  /\ \A i, j \in 1 .. Len(lines) : i < j => lines[i] < lines[j]
            /\ \A i \in 1 .. Len(lines) :
                  lines[i] # Header => received[lines[i]].sensor = s
            /\ lines # << >> /\ lines[1] # Header => crashes > 0

Unsaved == {r \in ToSet(received) : r.at \notin ToSet(Lines(r.sensor))}

\* Every reading that was received is in its sensor's file but for the one the
\* thread is busy with, one for each file that could not be opened and one for
\* each crash (gateway.c 579: saved after the lock is released).
LossesAccounted ==
    Cardinality(Unsaved) <=
        failures + crashes + (IF pc = "recv" THEN 0 ELSE 1)

\* MAX_READING names a reading no other exceeds, the earliest of these.
MaximumIsGreatest ==
    LET best == Maximum(readings)
    IN  /\ best = None <=> readings = << >>
        /\ \A r \in ToSet(readings) :
              \/ r.value < best.value
              \/ r.value = best.value /\ r.at >= best.at

\* An average lies between two readings of its metric.
AverageIsBetween ==
    \A m \in Metrics :
        Count(m) > 0 =>
          \E low, high \in OfMetric(m) :
              low.value * Count(m) <= Sum(m) /\ Sum(m) <= high.value * Count(m)

\* The history is the latest readings in their order: no reading that it
\* leaves out is later than one it shows, and none is left out needlessly.
HistoryIsLatest ==
    /\ Len(History) <= HistoryLength
    /\ \A i \in 1 .. Len(History) - 1 : History[i].at < History[i + 1].at
    /\ \A r \in ToSet(readings) \ ToSet(History) :
          /\ Len(History) = HistoryLength
          /\ \A h \in ToSet(History) : r.at < h.at
=============================================================================
