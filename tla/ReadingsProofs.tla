--------------------------- MODULE ReadingsProofs ---------------------------
(***************************************************************************)
(* Proofs about Readings, for any sensors, values and bounds: the files    *)
(* are in order and complete but for the losses that are counted, and what *)
(* clients are told of the readings is right.                              *)
(*                                                                         *)
(* The argument: readings are numbered as they arrive, so a reading that   *)
(* the thread is busy with is later than every line of every file; and a   *)
(* file without a header can only be one that a crash left empty.  What    *)
(* the loops over the readings compute is shown by induction over the      *)
(* readings they have passed.                                              *)
(***************************************************************************)
EXTENDS Readings, Loops, FiniteSetTheorems, SequenceTheorems, TLAPS

Numbered ==
    /\ Len(received) <= MaxReadings
    /\ \A i \in 1 .. Len(received) : received[i].at = i

Remembered ==
    /\ \A i \in 1 .. Len(readings) : readings[i].at <= Len(received)
    /\ \A i, j \in 1 .. Len(readings) :
          i < j => readings[i].at < readings[j].at

\* No line is newer than the newest reading; while that is being saved, every
\* line is older.
LinesReceived ==
    \A s \in SensorIds : \A i \in 1 .. Len(Lines(s)) :
        /\ Lines(s)[i] <= Len(received)
        /\ pc # "recv" => Lines(s)[i] < Len(received)

Increasing(lines) ==
    \A i, j \in 1 .. Len(lines) : i < j => lines[i] < lines[j]

LinesInOrder == \A s \in SensorIds : Increasing(Lines(s))

LinesOfSensor ==
    \A s \in SensorIds : \A i \in 1 .. Len(Lines(s)) :
        Lines(s)[i] # Header => received[Lines(s)[i]].sensor = s

\* A header is owed to a file that is still empty, unless a crash left it so.
HeaderOwed ==
    /\ pc # "recv" => received # << >>
    /\ pc = "write" => file[Current.sensor] # None
    /\ pc = "write" /\ header => file[Current.sensor] = << >>
    /\ \A s \in SensorIds :
          file[s] = << >> =>
              crashes > 0 \/ (pc = "write" /\ header /\ Current.sensor = s)

HeaderFirst ==
    \A s \in SensorIds :
        Lines(s) # << >> /\ Lines(s)[1] # Header => crashes > 0

FilesType == DOMAIN file = SensorIds

ReadingsInv ==
    /\ TypeOK
    /\ FilesType
    /\ Numbered
    /\ Remembered
    /\ LinesReceived
    /\ LinesInOrder
    /\ LinesOfSensor
    /\ HeaderOwed
    /\ HeaderFirst
    /\ LossesAccounted

-----------------------------------------------------------------------------
(* Files and memory                                                        *)

LEMMA LinesType ==
  ASSUME TypeOK, NEW s \in SensorIds
  PROVE  Lines(s) \in Seq(0 .. MaxReadings)
<1>1. << >> \in Seq(0 .. MaxReadings)
  OBVIOUS
<1>. QED
  BY <1>1 DEF TypeOK, Lines

\* A file that is there is what it holds.
LEMMA LinesOfFile ==
  ASSUME NEW s \in SensorIds, file[s] # None
  PROVE  Lines(s) = file[s]
  BY DEF Lines

LEMMA ReceivedFinite ==
  ASSUME TypeOK
  PROVE  /\ IsFiniteSet(ToSet(received))
         /\ IsFiniteSet(Unsaved)
<1>1. received \in Seq(Reading)
  BY DEF TypeOK
<1>2. Len(received) \in Nat /\ DOMAIN received = 1 .. Len(received)
  BY <1>1
<1>3. IsFiniteSet(1 .. Len(received))
  BY <1>2, FS_Interval
<1>4. received \in Surjection(1 .. Len(received), ToSet(received))
  BY <1>1, <1>2 DEF Surjection, ToSet
<1>5. IsFiniteSet(ToSet(received))
  BY <1>3, <1>4, FS_Surjection
<1>6. Unsaved \in SUBSET ToSet(received)
  BY DEF Unsaved
<1>. QED
  BY <1>5, <1>6, FS_Subset

\* An empty file is a file.
LEMMA EmptyFile == << >> # None
<1>1. << >> \in Seq(Nat)
  OBVIOUS
<1>. QED
  BY <1>1, NoneAssumption

LEMMA ReadingFields ==
  ASSUME NEW r \in Reading
  PROVE  /\ r.sensor \in SensorIds /\ r.metric \in Metrics
         /\ r.value \in Int /\ r.at \in 1 .. MaxReadings
  BY ReadingsAssumption DEF Reading

LEMMA ElementsOfMemory ==
  ASSUME TypeOK
  PROVE  /\ \A i \in 1 .. Len(readings) : readings[i] \in Reading
         /\ \A i \in 1 .. Len(received) : received[i] \in Reading
<1>1. readings \in Seq(Reading) /\ received \in Seq(Reading)
  BY DEF TypeOK
<1>. QED
  BY <1>1

-----------------------------------------------------------------------------
(* Each step keeps the invariant                                           *)

LEMMA InitHolds == Init => ReadingsInv
<1>. SUFFICES ASSUME Init PROVE ReadingsInv
  OBVIOUS
<1>. USE ReadingsAssumption
<1>1. received = << >> /\ readings = << >> /\ Len(received) = 0
  BY DEF Init
<1>2. \A s \in SensorIds : Lines(s) = << >> /\ file[s] = None
  BY DEF Init, Lines
<1>3. TypeOK
  <2>1. << >> \in Seq(Reading)
    OBVIOUS
  <2>2. \A s \in SensorIds : file[s] = None
    BY <1>2
  <2>3. up \in BOOLEAN /\ header \in BOOLEAN
    BY DEF Init
  <2>4. readings \in Seq(Reading) /\ received \in Seq(Reading)
    BY <2>1, <1>1
  <2>5. /\ pc = "recv"
        /\ failures \in 0 .. MaxFailures
        /\ crashes \in 0 .. MaxCrashes
    BY DEF Init
  <2>. QED
    BY <2>2, <2>3, <2>4, <2>5 DEF TypeOK
<1>4. Numbered /\ Remembered
  BY <1>1 DEF Numbered, Remembered
<1>5. LinesReceived /\ LinesInOrder /\ LinesOfSensor /\ HeaderFirst
  BY <1>2 DEF LinesReceived, LinesInOrder, LinesOfSensor, HeaderFirst,
              Increasing
<1>6. HeaderOwed
  <2>1. << >> # None
    BY EmptyFile
  <2>. QED
    BY <2>1, <1>2 DEF HeaderOwed, Init
<1>7. LossesAccounted
  <2>1. ToSet(received) = {}
    BY <1>1 DEF ToSet
  <2>2. Unsaved = {}
    BY <2>1 DEF Unsaved
  <2>. QED
    BY <2>2, FS_EmptySet DEF LossesAccounted, Init
<1>8. FilesType
  BY DEF Init, FilesType
<1>. QED
  BY <1>3, <1>4, <1>5, <1>6, <1>7, <1>8 DEF ReadingsInv

LEMMA ReceiveKeeps ==
  ASSUME ReadingsInv, NEW source \in Sources, NEW value \in Values,
         Receive(source, value)
  PROVE  ReadingsInv'
<1>. USE ReadingsAssumption
<1>. DEFINE new == [sensor |-> source.sensor, metric |-> source.metric,
                    value |-> value, at |-> Len(received) + 1]
<1>0. /\ up /\ pc = "recv" /\ Len(received) < MaxReadings
      /\ readings' = Append(readings, new)
      /\ received' = Append(received, new)
      /\ pc' = "open"
      /\ UNCHANGED <<up, header, file, failures, crashes>>
  BY DEF Receive, Kept
<1>1. received \in Seq(Reading) /\ readings \in Seq(Reading)
  BY DEF ReadingsInv, TypeOK
<1>2. new \in Reading
  <2>1. Len(received) + 1 \in 1 .. MaxReadings
    BY <1>0, <1>1
  <2>. QED
    BY <2>1 DEF Reading, SensorIds, Metrics
<1>. HIDE DEF new
<1>3. /\ received' \in Seq(Reading)
      /\ Len(received') = Len(received) + 1
      /\ \A i \in 1 .. Len(received) : received'[i] = received[i]
      /\ received'[Len(received')] = new
  BY <1>0, <1>1, <1>2
<1>4. /\ readings' \in Seq(Reading)
      /\ Len(readings') = Len(readings) + 1
      /\ \A i \in 1 .. Len(readings) : readings'[i] = readings[i]
      /\ readings'[Len(readings')] = new
  BY <1>0, <1>1, <1>2
<1>5. Len(received) \in Nat /\ Len(readings) \in Nat
  BY <1>1
<1>6. new.at = Len(received) + 1
  BY DEF new
<1>7. \A s \in SensorIds : Lines(s)' = Lines(s)
  BY <1>0 DEF Lines
<1>8. \A s \in SensorIds : Lines(s) \in Seq(0 .. MaxReadings)
  BY LinesType DEF ReadingsInv
<1>9. TypeOK'
  <2>1. readings' # << >> /\ Last(readings)' = Current'
    BY <1>3, <1>4, <1>5 DEF Last, Current
  <2>2. /\ up' \in BOOLEAN /\ header' \in BOOLEAN
        /\ \A s \in SensorIds :
              file'[s] = None \/ file'[s] \in Seq(0 .. MaxReadings)
        /\ failures' \in 0 .. MaxFailures
        /\ crashes' \in 0 .. MaxCrashes
    BY <1>0 DEF ReadingsInv, TypeOK
  <2>. QED
    BY <1>0, <1>3, <1>4, <2>1, <2>2 DEF TypeOK
<1>10. Numbered'
  BY <1>0, <1>3, <1>5, <1>6 DEF ReadingsInv, Numbered
<1>11. Remembered'
  <2>1. \A i \in 1 .. Len(readings) : readings[i].at \in Int
    BY ElementsOfMemory, ReadingFields DEF ReadingsInv
  <2>2. \A i \in 1 .. Len(readings) :
           readings[i].at <= Len(received) /\ readings[i].at < new.at
    BY <2>1, <1>5, <1>6 DEF ReadingsInv, Remembered
  <2>3. \A i \in 1 .. Len(readings') : readings'[i].at <= Len(received')
    BY <2>1, <2>2, <1>3, <1>4, <1>5, <1>6
  <2>4. \A i, j \in 1 .. Len(readings') :
           i < j => readings'[i].at < readings'[j].at
    <3>. SUFFICES ASSUME NEW i \in 1 .. Len(readings'),
                         NEW j \in 1 .. Len(readings'), i < j
                  PROVE  readings'[i].at < readings'[j].at
      OBVIOUS
    <3>1. i \in 1 .. Len(readings) /\ readings'[i] = readings[i]
      BY <1>4, <1>5
    <3>2. CASE j = Len(readings')
      BY <3>1, <3>2, <2>2, <1>4
    <3>3. CASE j # Len(readings')
      <4>1. j \in 1 .. Len(readings) /\ readings'[j] = readings[j]
        BY <3>3, <1>4, <1>5
      <4>. QED
        BY <3>1, <4>1 DEF ReadingsInv, Remembered
    <3>. QED
      BY <3>2, <3>3
  <2>. QED
    BY <2>3, <2>4 DEF Remembered
<1>12. LinesReceived'
  BY <1>0, <1>3, <1>5, <1>7, <1>8 DEF ReadingsInv, LinesReceived
<1>13. LinesInOrder'
  BY <1>7 DEF ReadingsInv, LinesInOrder
<1>14. LinesOfSensor'
  <2>. SUFFICES ASSUME NEW s \in SensorIds, NEW i \in 1 .. Len(Lines(s)),
                       Lines(s)[i] # Header
                PROVE  received'[Lines(s)[i]].sensor = s
    BY <1>7 DEF LinesOfSensor
  <2>1. Lines(s)[i] \in 1 .. Len(received)
    BY <1>5, <1>8 DEF ReadingsInv, LinesReceived, Header
  <2>. QED
    BY <2>1, <1>3 DEF ReadingsInv, LinesOfSensor
<1>15. HeaderOwed'
  BY <1>0, <1>3, <1>5 DEF ReadingsInv, HeaderOwed
<1>16. HeaderFirst'
  BY <1>0, <1>7 DEF ReadingsInv, HeaderFirst
<1>17. LossesAccounted'
  <2>1. ToSet(received') \subseteq ToSet(received) \cup {new}
    BY <1>3, <1>5, <1>1 DEF ToSet
  <2>2. Unsaved' \in SUBSET (Unsaved \cup {new})
    <3>1. Unsaved' = {r \in ToSet(received') :
                        r.at \notin ToSet(Lines(r.sensor)')}
      BY DEF Unsaved
    <3>2. \A r \in ToSet(received) : r.sensor \in SensorIds
      BY <1>1, ElementsOfMemory, ReadingFields DEF ToSet, ReadingsInv
    <3>. QED
      BY <3>1, <3>2, <2>1, <1>7 DEF Unsaved
  <2>3. /\ IsFiniteSet(Unsaved) /\ Cardinality(Unsaved) \in Nat
        /\ IsFiniteSet(Unsaved \cup {new})
        /\ Cardinality(Unsaved \cup {new}) \in Nat
        /\ Cardinality(Unsaved \cup {new}) <= Cardinality(Unsaved) + 1
    <3>1. IsFiniteSet(Unsaved)
      BY ReceivedFinite DEF ReadingsInv
    <3>2. Cardinality(Unsaved) \in Nat
      BY <3>1, FS_CardinalityType
    <3>3. /\ IsFiniteSet(Unsaved \cup {new})
          /\ Cardinality(Unsaved \cup {new}) =
               IF new \in Unsaved THEN Cardinality(Unsaved)
                                  ELSE Cardinality(Unsaved) + 1
      BY <3>1, FS_AddElement
    <3>. QED
      BY <3>1, <3>2, <3>3
  <2>4. /\ Cardinality(Unsaved') \in Nat
        /\ Cardinality(Unsaved') <= Cardinality(Unsaved \cup {new})
    BY <2>2, <2>3, FS_Subset, FS_CardinalityType
  <2>5. /\ Cardinality(Unsaved) <= failures + crashes
        /\ failures \in Nat /\ crashes \in Nat
    BY <1>0 DEF ReadingsInv, LossesAccounted, TypeOK
  <2>. QED
    BY <2>3, <2>4, <2>5, <1>0 DEF LossesAccounted
<1>18. FilesType'
  BY <1>0 DEF ReadingsInv, FilesType
<1>. QED
  BY <1>9, <1>10, <1>11, <1>12, <1>13, <1>14, <1>15, <1>16, <1>17, <1>18
     DEF ReadingsInv

\* What a step leaves alone keeps its part of the invariant.
LEMMA MemoryKept ==
  ASSUME ReadingsInv, UNCHANGED <<readings, received>>
  PROVE  Numbered' /\ Remembered'
  BY DEF ReadingsInv, Numbered, Remembered

LEMMA LinesKept ==
  ASSUME ReadingsInv, received' = received,
         \A s \in SensorIds : Lines(s)' = Lines(s)
  PROVE  LinesInOrder' /\ LinesOfSensor' /\ Unsaved' = Unsaved
<1>1. LinesInOrder'
  BY DEF ReadingsInv, LinesInOrder
<1>2. LinesOfSensor'
  BY DEF ReadingsInv, LinesOfSensor
<1>3. \A r \in ToSet(received) : r.sensor \in SensorIds
  BY ElementsOfMemory, ReadingFields DEF ToSet, ReadingsInv, TypeOK
<1>4. Unsaved' = {r \in ToSet(received) : r.at \notin ToSet(Lines(r.sensor)')}
  BY DEF Unsaved
<1>. QED
  BY <1>1, <1>2, <1>3, <1>4 DEF Unsaved

LEMMA OpenFileKeeps ==
  ASSUME ReadingsInv, OpenFile
  PROVE  ReadingsInv'
<1>. USE ReadingsAssumption
<1>. DEFINE s == Current.sensor
<1>0. /\ up /\ pc = "open" /\ pc' = "write"
      /\ header' = (file[s] = None)
      /\ file' = [file EXCEPT ![s] = Opened(@)]
      /\ UNCHANGED <<up, readings, received, failures, crashes>>
  BY DEF OpenFile, NeedsHeader
<1>1. received # << >> /\ Len(received) \in 1 .. Len(received)
  BY <1>0 DEF ReadingsInv, HeaderOwed, TypeOK
<1>2. s \in SensorIds
  BY <1>1, ElementsOfMemory, ReadingFields DEF ReadingsInv, Current, Last
<1>3. Current' = Current
  BY <1>0 DEF Current
<1>. HIDE DEF s
<1>4. \A t \in SensorIds :
         file'[t] = IF file[t] = None /\ t = s THEN << >> ELSE file[t]
  <2>1. DOMAIN file = SensorIds
    BY DEF ReadingsInv, FilesType
  <2>. QED
    BY <1>0, <1>2, <2>1 DEF Opened
<1>5. \A t \in SensorIds : Lines(t)' = Lines(t)
  BY <1>4, EmptyFile DEF Lines
<1>6. TypeOK'
  <2>1. << >> \in Seq(0 .. MaxReadings)
    OBVIOUS
  <2>2. \A t \in SensorIds :
           file'[t] = None \/ file'[t] \in Seq(0 .. MaxReadings)
    BY <1>4, <2>1 DEF ReadingsInv, TypeOK
  <2>3. header' \in BOOLEAN
    BY <1>0
  <2>4. up' \in BOOLEAN
    BY <1>0
  <2>5. up' /\ readings' # << >> /\ Last(readings)' = Current'
    BY <1>0, <1>3 DEF ReadingsInv, TypeOK
  <2>. QED
    BY <1>0, <2>2, <2>3, <2>4, <2>5 DEF ReadingsInv, TypeOK
<1>7. LinesReceived'
  BY <1>0, <1>5 DEF ReadingsInv, LinesReceived
<1>8. HeaderOwed'
  BY <1>0, <1>1, <1>2, <1>3, <1>4, EmptyFile DEF ReadingsInv, HeaderOwed, s
<1>9. HeaderFirst'
  BY <1>0, <1>5 DEF ReadingsInv, HeaderFirst
<1>10. LossesAccounted'
  BY <1>0, <1>5, LinesKept DEF ReadingsInv, LossesAccounted
<1>11. FilesType'
  BY <1>0 DEF ReadingsInv, FilesType
<1>. QED
  BY <1>0, <1>5, <1>6, <1>7, <1>8, <1>9, <1>10, <1>11, MemoryKept, LinesKept
     DEF ReadingsInv

\* Steps that leave memory and files alone.
LEMMA FilesKept ==
  ASSUME ReadingsInv, UNCHANGED <<file, received>>
  PROVE  /\ \A s \in SensorIds : Lines(s)' = Lines(s)
         /\ FilesType' /\ LinesInOrder' /\ LinesOfSensor' /\ Unsaved' = Unsaved
         /\ Current' = Current
         /\ \A s \in SensorIds :
               file'[s] = None \/ file'[s] \in Seq(0 .. MaxReadings)
<1>1. \A s \in SensorIds : Lines(s)' = Lines(s)
  BY DEF Lines
<1>2. LinesInOrder' /\ LinesOfSensor' /\ Unsaved' = Unsaved
  BY <1>1, LinesKept
<1>3. FilesType' /\ Current' = Current
  BY DEF ReadingsInv, FilesType, Current
<1>4. \A s \in SensorIds :
         file'[s] = None \/ file'[s] \in Seq(0 .. MaxReadings)
  BY DEF ReadingsInv, TypeOK
<1>. QED
  BY <1>1, <1>2, <1>3, <1>4

LEMMA BudgetTypes ==
  ASSUME ReadingsInv
  PROVE  /\ failures \in Nat /\ crashes \in Nat
         /\ Cardinality(Unsaved) \in Nat
  BY ReadingsAssumption, ReceivedFinite, FS_CardinalityType
     DEF ReadingsInv, TypeOK

LEMMA OpenFailsKeeps ==
  ASSUME ReadingsInv, OpenFails
  PROVE  ReadingsInv'
<1>. USE ReadingsAssumption
<1>0. /\ up /\ pc = "open" /\ pc' = "recv"
      /\ failures < MaxFailures /\ failures' = failures + 1
      /\ UNCHANGED <<up, readings, header, file, received, crashes>>
  BY DEF OpenFails
<1>1. TypeOK'
  <2>1. failures' \in 0 .. MaxFailures
    BY <1>0, BudgetTypes
  <2>2. up' \in BOOLEAN /\ header' \in BOOLEAN
    BY <1>0 DEF ReadingsInv, TypeOK
  <2>. QED
    BY <1>0, <2>1, <2>2, FilesKept DEF ReadingsInv, TypeOK
<1>2. LinesReceived'
  BY <1>0, FilesKept DEF ReadingsInv, LinesReceived
<1>3. HeaderOwed'
  BY <1>0, FilesKept DEF ReadingsInv, HeaderOwed
<1>4. HeaderFirst'
  BY <1>0, FilesKept DEF ReadingsInv, HeaderFirst
<1>5. LossesAccounted'
  BY <1>0, FilesKept, BudgetTypes DEF ReadingsInv, LossesAccounted
<1>. QED
  BY <1>0, <1>1, <1>2, <1>3, <1>4, <1>5, FilesKept, MemoryKept DEF ReadingsInv

LEMMA CrashKeeps ==
  ASSUME ReadingsInv, Crash
  PROVE  ReadingsInv'
<1>. USE ReadingsAssumption
<1>0. /\ crashes < MaxCrashes /\ crashes' = crashes + 1
      /\ up' = FALSE /\ pc' = "recv" /\ readings' = << >>
      /\ UNCHANGED <<header, file, received, failures>>
  BY DEF Crash
<1>1. TypeOK'
  <2>1. crashes' \in 0 .. MaxCrashes
    BY <1>0, BudgetTypes
  <2>2. up' \in BOOLEAN /\ header' \in BOOLEAN
    BY <1>0 DEF ReadingsInv, TypeOK
  <2>3. readings' \in Seq(Reading)
    BY <1>0
  <2>. QED
    BY <1>0, <2>1, <2>2, <2>3, FilesKept DEF ReadingsInv, TypeOK
<1>2. Numbered' /\ Remembered'
  <2>1. Len(readings') = 0
    BY <1>0
  <2>. QED
    BY <1>0, <2>1 DEF ReadingsInv, Numbered, Remembered
<1>3. LinesReceived'
  BY <1>0, FilesKept DEF ReadingsInv, LinesReceived
<1>4. HeaderOwed'
  BY <1>0, BudgetTypes DEF HeaderOwed
<1>5. HeaderFirst'
  BY <1>0, BudgetTypes DEF HeaderFirst
<1>6. LossesAccounted'
  BY <1>0, FilesKept, BudgetTypes DEF ReadingsInv, LossesAccounted
<1>. QED
  BY <1>0, <1>1, <1>2, <1>3, <1>4, <1>5, <1>6, FilesKept DEF ReadingsInv

LEMMA StartKeeps ==
  ASSUME ReadingsInv, Start
  PROVE  ReadingsInv'
<1>0. /\ ~up /\ up' = TRUE
      /\ UNCHANGED <<readings, pc, header, file, received, failures, crashes>>
  BY DEF Start
<1>1. TypeOK'
  <2>1. up' \in BOOLEAN /\ header' \in BOOLEAN
    BY <1>0 DEF ReadingsInv, TypeOK
  <2>2. pc = "recv"
    BY <1>0 DEF ReadingsInv, TypeOK
  <2>. QED
    BY <1>0, <2>1, <2>2, FilesKept DEF ReadingsInv, TypeOK
<1>2. /\ LinesReceived' /\ HeaderOwed' /\ HeaderFirst' /\ LossesAccounted'
  BY <1>0, FilesKept
     DEF ReadingsInv, LinesReceived, HeaderOwed, HeaderFirst, LossesAccounted
<1>. QED
  BY <1>0, <1>1, <1>2, FilesKept, MemoryKept DEF ReadingsInv

LEMMA StutterKeeps ==
  ASSUME ReadingsInv, UNCHANGED vars
  PROVE  ReadingsInv'
<1>0. UNCHANGED <<up, readings, pc, header, file, received, failures, crashes>>
  BY DEF vars
<1>1. TypeOK'
  BY <1>0, FilesKept DEF ReadingsInv, TypeOK
<1>2. /\ LinesReceived' /\ HeaderOwed' /\ HeaderFirst' /\ LossesAccounted'
  BY <1>0, FilesKept
     DEF ReadingsInv, LinesReceived, HeaderOwed, HeaderFirst, LossesAccounted
<1>. QED
  BY <1>0, <1>1, <1>2, FilesKept, MemoryKept DEF ReadingsInv

LEMMA OneMore ==
  ASSUME NEW seq \in Seq(0 .. MaxReadings), NEW e \in 0 .. MaxReadings
  PROVE  seq \o <<e>> = Append(seq, e)
  OBVIOUS

\* The lines of the file that was written.
LEMMA LinesWritten ==
  ASSUME ReadingsInv, WriteFile,
         NEW s, s = Current.sensor,
         NEW new, new = file'[s]
  PROVE  /\ s \in SensorIds
         /\ \A t \in SensorIds \ {s} : file'[t] = file[t]
         /\ new \in Seq(0 .. MaxReadings) /\ new # None /\ new # << >>
         /\ Increasing(new)
         /\ \A i \in 1 .. Len(new) :
               /\ new[i] <= Len(received)
               /\ new[i] # Header => received[new[i]].sensor = s
         /\ new[1] # Header => crashes > 0
         /\ ToSet(Lines(s)) \subseteq ToSet(new)
         /\ Len(received) \in ToSet(new)
<1>. USE ReadingsAssumption
<1>. DEFINE n == Len(received)
            old == Lines(s)
<1>0. /\ pc = "write"
      /\ file' = [file EXCEPT ![s] =
                    @ \o (IF header THEN <<Header>> ELSE << >>) \o <<Current.at>>]
  BY DEF WriteFile
<1>1. /\ n \in 1 .. MaxReadings /\ n \in 1 .. Len(received)
      /\ Current.at = n /\ received[n].sensor = s
  <2>1. received # << >> /\ n \in Nat
    BY <1>0 DEF ReadingsInv, HeaderOwed, TypeOK
  <2>2. n \in 1 .. Len(received)
    BY <2>1 DEF ReadingsInv, TypeOK
  <2>. QED
    BY <2>2 DEF ReadingsInv, Numbered, Current, Last
<1>2. s \in SensorIds
  BY <1>1, ElementsOfMemory, ReadingFields DEF ReadingsInv
<1>3. /\ file[s] # None /\ old = file[s]
      /\ old \in Seq(0 .. MaxReadings)
  BY <1>0, <1>2, LinesOfFile, LinesType DEF ReadingsInv, HeaderOwed
<1>4. /\ new = old \o (IF header THEN <<Header>> ELSE << >>) \o <<n>>
      /\ \A t \in SensorIds \ {s} : file'[t] = file[t]
  BY <1>0, <1>1, <1>2, <1>3 DEF ReadingsInv, FilesType
<1>5. \A i \in 1 .. Len(old) : old[i] \in 0 .. MaxReadings /\ old[i] < n
  BY <1>0, <1>2, <1>3 DEF ReadingsInv, LinesReceived
<1>6. Increasing(old)
  BY <1>2 DEF ReadingsInv, LinesInOrder
<1>7. \A i \in 1 .. Len(old) : old[i] # Header => received[old[i]].sensor = s
  BY <1>2 DEF ReadingsInv, LinesOfSensor
<1>8. old # << >> /\ old[1] # Header => crashes > 0
  BY <1>2 DEF ReadingsInv, HeaderFirst
<1>9. \/ header /\ old = << >>
      \/ ~header /\ (old = << >> => crashes > 0)
  BY <1>0, <1>2, <1>3 DEF ReadingsInv, HeaderOwed
<1>. HIDE DEF n, old
<1>10. CASE header /\ old = << >>
  <2>. DEFINE first == Append(old, 0)
  <2>0. Header = 0 /\ Len(old) = 0
    BY <1>10 DEF Header
  <2>1. new = Append(first, n)
    <3>1. /\ old \o <<0>> = first
          /\ first \in Seq(0 .. MaxReadings)
      BY <1>3
    <3>2. first \o <<n>> = Append(first, n)
      BY <3>1, <1>1, OneMore
    <3>. QED
      BY <3>1, <3>2, <1>4, <1>10, <2>0
  <2>2. /\ new \in Seq(0 .. MaxReadings)
        /\ Len(new) = 2 /\ new[1] = 0 /\ new[2] = n
    <3>1. /\ first \in Seq(0 .. MaxReadings)
          /\ Len(first) = 1 /\ first[1] = 0
      BY <1>3, <2>0
    <3>. QED
      BY <3>1, <2>1, <1>1
  <2>3. Increasing(new)
    BY <2>2, <1>1 DEF Increasing
  <2>4. /\ new # << >> /\ new[1] = Header
        /\ \A i \in 1 .. Len(new) :
              new[i] <= n /\ (new[i] # Header => received[new[i]].sensor = s)
    BY <2>2, <1>1 DEF Header
  <2>5. ToSet(old) \subseteq ToSet(new) /\ n \in ToSet(new)
    BY <2>2, <1>10 DEF ToSet
  <2>6. new # None
    BY <2>2, NoneAssumption
  <2>. QED
    BY <2>2, <2>3, <2>4, <2>5, <2>6, <1>2, <1>4 DEF n, old
<1>11. CASE ~header /\ (old = << >> => crashes > 0)
  <2>1. new = Append(old, n)
    BY <1>3, <1>4, <1>11
  <2>2. /\ new \in Seq(0 .. MaxReadings)
        /\ Len(new) = Len(old) + 1 /\ Len(old) \in Nat
        /\ new[Len(new)] = n
        /\ \A i \in 1 .. Len(old) : new[i] = old[i]
    BY <2>1, <1>1, <1>3
  <2>3. Increasing(new)
    <3>. SUFFICES ASSUME NEW i \in 1 .. Len(new), NEW j \in 1 .. Len(new),
                         i < j
                  PROVE  new[i] < new[j]
      BY DEF Increasing
    <3>1. i \in 1 .. Len(old)
      BY <2>2
    <3>2. CASE j = Len(new)
      BY <3>1, <3>2, <2>2, <1>5
    <3>3. CASE j # Len(new)
      <4>1. j \in 1 .. Len(old)
        BY <3>3, <2>2
      <4>. QED
        BY <3>1, <4>1, <2>2, <1>6 DEF Increasing
    <3>. QED
      BY <3>2, <3>3
  <2>4. \A i \in 1 .. Len(new) :
           new[i] <= n /\ (new[i] # Header => received[new[i]].sensor = s)
    <3>. SUFFICES ASSUME NEW i \in 1 .. Len(new)
                  PROVE  /\ new[i] <= n
                         /\ new[i] # Header => received[new[i]].sensor = s
      OBVIOUS
    <3>1. CASE i = Len(new)
      BY <3>1, <2>2, <1>1
    <3>2. CASE i # Len(new)
      <4>1. i \in 1 .. Len(old) /\ new[i] = old[i]
        BY <3>2, <2>2
      <4>. QED
        BY <4>1, <1>1, <1>5, <1>7
    <3>. QED
      BY <3>1, <3>2
  <2>5. new # << >> /\ (new[1] # Header => crashes > 0)
    <3>1. CASE old = << >>
      BY <3>1, <1>11, <2>2
    <3>2. CASE old # << >>
      <4>1. 1 \in 1 .. Len(old)
        BY <3>2, <1>3
      <4>. QED
        BY <4>1, <3>2, <2>2, <1>8
    <3>. QED
      BY <3>1, <3>2
  <2>6. ToSet(old) \subseteq ToSet(new) /\ n \in ToSet(new)
    <3>1. DOMAIN old = 1 .. Len(old) /\ DOMAIN new = 1 .. Len(new)
      BY <1>3, <2>2
    <3>2. Len(new) \in 1 .. Len(new)
      BY <2>2
    <3>3. \A i \in DOMAIN old : i \in DOMAIN new /\ new[i] = old[i]
      BY <3>1, <2>2
    <3>. QED
      BY <3>1, <3>2, <3>3, <2>2 DEF ToSet
  <2>7. new # None
    BY <2>2, NoneAssumption
  <2>. QED
    BY <2>2, <2>3, <2>4, <2>5, <2>6, <2>7, <1>2, <1>4 DEF n, old
<1>. QED
  BY <1>9, <1>10, <1>11

LEMMA WriteFileKeeps ==
  ASSUME ReadingsInv, WriteFile
  PROVE  ReadingsInv'
<1>. USE ReadingsAssumption
<1>0. /\ up /\ pc = "write" /\ pc' = "recv"
      /\ UNCHANGED <<up, readings, header, received, failures, crashes>>
      /\ DOMAIN file' = DOMAIN file
  BY DEF WriteFile
<1>. DEFINE s == Current.sensor
            new == file'[s]
<1>1. /\ s \in SensorIds
      /\ \A t \in SensorIds \ {s} : file'[t] = file[t]
      /\ new \in Seq(0 .. MaxReadings) /\ new # None /\ new # << >>
      /\ Increasing(new)
      /\ \A i \in 1 .. Len(new) :
            /\ new[i] <= Len(received)
            /\ new[i] # Header => received[new[i]].sensor = s
      /\ new[1] # Header => crashes > 0
      /\ ToSet(Lines(s)) \subseteq ToSet(new)
      /\ Len(received) \in ToSet(new)
  BY LinesWritten
<1>2. PICK t0 : t0 = s
  OBVIOUS
<1>3. PICK new0 : new0 = new
  OBVIOUS
<1>4. \A t \in SensorIds : Lines(t)' = IF t = t0 THEN new0 ELSE Lines(t)
  BY <1>1, <1>2, <1>3 DEF Lines
<1>. HIDE DEF s, new
<1>5. TypeOK'
  <2>1. \A t \in SensorIds :
           file'[t] = None \/ file'[t] \in Seq(0 .. MaxReadings)
    BY <1>1 DEF ReadingsInv, TypeOK, new
  <2>2. up' \in BOOLEAN /\ header' \in BOOLEAN
    BY <1>0 DEF ReadingsInv, TypeOK
  <2>. QED
    BY <1>0, <2>1, <2>2 DEF ReadingsInv, TypeOK
<1>6. LinesReceived'
  BY <1>0, <1>1, <1>2, <1>3, <1>4 DEF ReadingsInv, LinesReceived
<1>7. LinesInOrder'
  BY <1>1, <1>2, <1>3, <1>4 DEF ReadingsInv, LinesInOrder
<1>8. LinesOfSensor'
  BY <1>0, <1>1, <1>2, <1>3, <1>4 DEF ReadingsInv, LinesOfSensor
<1>9. HeaderOwed'
  BY <1>0, <1>1 DEF ReadingsInv, HeaderOwed, s, new
<1>10. HeaderFirst'
  BY <1>0, <1>1, <1>2, <1>3, <1>4 DEF ReadingsInv, HeaderFirst
<1>11. LossesAccounted'
  <2>1. /\ Len(received) \in 1 .. Len(received)
        /\ Current \in ToSet(received) /\ Current.at = Len(received)
    <3>1. received # << >> /\ received \in Seq(Reading)
      BY <1>0 DEF ReadingsInv, HeaderOwed, TypeOK
    <3>2. Len(received) \in 1 .. Len(received)
      BY <3>1
    <3>. QED
      BY <3>1, <3>2 DEF ReadingsInv, Numbered, Current, Last, ToSet
  <2>2. Current \in Unsaved
    <3>1. Len(received) \notin ToSet(Lines(s))
      <4>1. \A i \in 1 .. Len(Lines(s)) : Lines(s)[i] < Len(received)
        BY <1>0, <1>1 DEF ReadingsInv, LinesReceived
      <4>2. Lines(s) \in Seq(0 .. MaxReadings)
        BY <1>1, LinesType DEF ReadingsInv
      <4>. QED
        BY <4>1, <4>2 DEF ToSet
    <3>. QED
      BY <2>1, <3>1 DEF Unsaved, s
  <2>3. Unsaved' \in SUBSET (Unsaved \ {Current})
    <3>. SUFFICES ASSUME NEW r \in Unsaved' PROVE r \in Unsaved \ {Current}
      OBVIOUS
    <3>1. r \in ToSet(received) /\ r.at \notin ToSet(Lines(r.sensor)')
      BY <1>0 DEF Unsaved
    <3>2. r.sensor \in SensorIds
      BY <3>1, ElementsOfMemory, ReadingFields DEF ReadingsInv, TypeOK, ToSet
    <3>3. r.at \notin ToSet(Lines(r.sensor))
      BY <3>1, <3>2, <1>1, <1>2, <1>3, <1>4
    <3>4. r # Current
      BY <3>1, <3>2, <2>1, <1>1, <1>2, <1>3, <1>4 DEF s
    <3>. QED
      BY <3>1, <3>3, <3>4 DEF Unsaved
  <2>4. /\ IsFiniteSet(Unsaved \ {Current})
        /\ Cardinality(Unsaved \ {Current}) = Cardinality(Unsaved) - 1
    BY <2>2, ReceivedFinite, FS_RemoveElement DEF ReadingsInv
  <2>5. /\ Cardinality(Unsaved') <= Cardinality(Unsaved) - 1
        /\ Cardinality(Unsaved') \in Nat
    BY <2>3, <2>4, FS_Subset, FS_CardinalityType
  <2>. QED
    BY <2>5, <1>0, BudgetTypes DEF ReadingsInv, LossesAccounted
<1>12. FilesType'
  BY <1>0 DEF ReadingsInv, FilesType
<1>. QED
  BY <1>0, <1>5, <1>6, <1>7, <1>8, <1>9, <1>10, <1>11, <1>12, MemoryKept
     DEF ReadingsInv

-----------------------------------------------------------------------------
(* The loops over the readings                                             *)

\* The loop of compute_max_locked computes what its equation says.
LEMMA MaximumLoop ==
  ASSUME NEW rs \in Seq(Reading)
  PROVE  \E f : /\ Maximum(rs) = f[Len(rs)]
                /\ f[0] = None
                /\ \A i \in 1 .. Len(rs) : f[i] = Better(f[i - 1], rs[i])
<1>. DEFINE n == Len(rs)
            V == Reading \cup {None}
            step == [p \in V \X (1 .. n) |-> Better(p[1], rs[p[2]])]
            Eq(f) == f = [i \in 0 .. n |-> IF i = 0 THEN None ELSE Better(f[i - 1], rs[i])]
<1>1. n \in Nat /\ None \in V
      /\ \A i \in 1 .. n : rs[i] \in Reading
  OBVIOUS
<1>2. step \in Bodies(V, n)
  BY <1>1 DEF Bodies, Better
<1>3. \E f : Eq(f)
  <2>. HIDE DEF V, step, n, Eq
  <2>1. PICK f : Loop(f, V, None, step, n)
    BY <1>1, <1>2, LoopDefined
  <2>2. ASSUME NEW i \in 1 .. n PROVE step[<<f[i - 1], i>>] = Better(f[i - 1], rs[i])
    <3>1. f[i - 1] \in V
      BY <1>1, <2>1 DEF Loop
    <3>. QED
      BY <3>1 DEF step
  <2>3. \A i \in 0 .. n : f[i] = IF i = 0 THEN None ELSE Better(f[i - 1], rs[i])
    <3>1. \A i \in 0 .. n : i # 0 => i \in 1 .. n
      BY <1>1
    <3>. QED
      BY <2>1, <2>2, <3>1 DEF Loop
  <2>4. f = [i \in 0 .. n |-> f[i]]
    BY <2>1 DEF Loop
  <2>. QED
    BY <2>3, <2>4 DEF Eq
<1>4. Maximum(rs) = (CHOOSE f : Eq(f))[n]
  BY DEF Maximum
<1>5. PICK f : Eq(f) /\ Maximum(rs) = f[n]
  <2>. HIDE DEF Eq
  <2>. QED
    BY <1>3, <1>4
<1>6. 0 \in 0 .. n /\ \A i \in 1 .. n : i \in 0 .. n /\ i # 0
  BY <1>1
<1>7. \A i \in 0 .. n : f[i] = IF i = 0 THEN None ELSE Better(f[i - 1], rs[i])
  BY <1>5
<1>. QED
  BY <1>5, <1>6, <1>7

\* So does the one of compute_average_locked for the count ...
LEMMA CountLoop ==
  ASSUME TypeOK, NEW m \in Metrics
  PROVE  \E f : /\ Count(m) = f[Len(readings)]
                /\ f[0] = 0
                /\ \A i \in 1 .. Len(readings) : f[i] = f[i - 1] + (IF readings[i].metric = m THEN 1 ELSE 0)
<1>. DEFINE n == Len(readings)
            V == Int
            step == [p \in V \X (1 .. n) |-> 
                       p[1] + (IF readings[p[2]].metric = m THEN 1 ELSE 0)]
            Eq(f) == f = [i \in 0 .. n |-> IF i = 0 THEN 0 ELSE f[i - 1] + (IF readings[i].metric = m THEN 1 ELSE 0)]
<1>1. n \in Nat /\ 0 \in V
  BY DEF TypeOK
<1>2. step \in Bodies(V, n)
  BY <1>1 DEF Bodies
<1>3. \E f : Eq(f)
  <2>. HIDE DEF V, step, n, Eq
  <2>1. PICK f : Loop(f, V, 0, step, n)
    BY <1>1, <1>2, LoopDefined
  <2>2. ASSUME NEW i \in 1 .. n PROVE step[<<f[i - 1], i>>] = f[i - 1] + (IF readings[i].metric = m THEN 1 ELSE 0)
    <3>1. f[i - 1] \in V
      BY <1>1, <2>1 DEF Loop
    <3>. QED
      BY <3>1 DEF step
  <2>3. \A i \in 0 .. n : f[i] = IF i = 0 THEN 0 ELSE f[i - 1] + (IF readings[i].metric = m THEN 1 ELSE 0)
    <3>1. \A i \in 0 .. n : i # 0 => i \in 1 .. n
      BY <1>1
    <3>. QED
      BY <2>1, <2>2, <3>1 DEF Loop
  <2>4. f = [i \in 0 .. n |-> f[i]]
    BY <2>1 DEF Loop
  <2>. QED
    BY <2>3, <2>4 DEF Eq
<1>4. Count(m) = (CHOOSE f : Eq(f))[n]
  BY DEF Count
<1>5. PICK f : Eq(f) /\ Count(m) = f[n]
  <2>. HIDE DEF Eq
  <2>. QED
    BY <1>3, <1>4
<1>6. 0 \in 0 .. n /\ \A i \in 1 .. n : i \in 0 .. n /\ i # 0
  BY <1>1
<1>7. \A i \in 0 .. n : f[i] = IF i = 0 THEN 0 ELSE f[i - 1] + (IF readings[i].metric = m THEN 1 ELSE 0)
  BY <1>5
<1>. QED
  BY <1>5, <1>6, <1>7

\* ... and for the sum.
LEMMA SumLoop ==
  ASSUME TypeOK, NEW m \in Metrics
  PROVE  \E f : /\ Sum(m) = f[Len(readings)]
                /\ f[0] = 0
                /\ \A i \in 1 .. Len(readings) : f[i] = 
                   f[i - 1] + (IF readings[i].metric = m THEN readings[i].value ELSE 0)
<1>. DEFINE n == Len(readings)
            V == Int
            step == [p \in V \X (1 .. n) |-> 
                       p[1] + (IF readings[p[2]].metric = m THEN readings[p[2]].value ELSE 0)]
            Eq(f) == f = [i \in 0 .. n |-> IF i = 0 THEN 0 ELSE 
                   f[i - 1] + (IF readings[i].metric = m THEN readings[i].value ELSE 0)]
<1>1. n \in Nat /\ 0 \in V
      /\ \A i \in 1 .. n : readings[i].value \in Int
  BY ElementsOfMemory, ReadingFields DEF TypeOK
<1>2. step \in Bodies(V, n)
  BY <1>1 DEF Bodies
<1>3. \E f : Eq(f)
  <2>. HIDE DEF V, step, n, Eq
  <2>1. PICK f : Loop(f, V, 0, step, n)
    BY <1>1, <1>2, LoopDefined
  <2>2. ASSUME NEW i \in 1 .. n PROVE step[<<f[i - 1], i>>] = 
                   f[i - 1] + (IF readings[i].metric = m THEN readings[i].value ELSE 0)
    <3>1. f[i - 1] \in V
      BY <1>1, <2>1 DEF Loop
    <3>. QED
      BY <3>1 DEF step
  <2>3. \A i \in 0 .. n : f[i] = IF i = 0 THEN 0 ELSE 
                   f[i - 1] + (IF readings[i].metric = m THEN readings[i].value ELSE 0)
    <3>1. \A i \in 0 .. n : i # 0 => i \in 1 .. n
      BY <1>1
    <3>. QED
      BY <2>1, <2>2, <3>1 DEF Loop
  <2>4. f = [i \in 0 .. n |-> f[i]]
    BY <2>1 DEF Loop
  <2>. QED
    BY <2>3, <2>4 DEF Eq
<1>4. Sum(m) = (CHOOSE f : Eq(f))[n]
  BY DEF Sum
<1>5. PICK f : Eq(f) /\ Sum(m) = f[n]
  <2>. HIDE DEF Eq
  <2>. QED
    BY <1>3, <1>4
<1>6. 0 \in 0 .. n /\ \A i \in 1 .. n : i \in 0 .. n /\ i # 0
  BY <1>1
<1>7. \A i \in 0 .. n : f[i] = IF i = 0 THEN 0 ELSE 
                   f[i - 1] + (IF readings[i].metric = m THEN readings[i].value ELSE 0)
  BY <1>5
<1>. QED
  BY <1>5, <1>6, <1>7

\* After i readings, compute_max_locked has the earliest of the greatest.
LEMMA GreatestFound == ReadingsInv => MaximumIsGreatest
<1>. SUFFICES ASSUME ReadingsInv PROVE MaximumIsGreatest
  OBVIOUS
<1>1. /\ readings \in Seq(Reading) /\ Len(readings) \in Nat
      /\ \A i \in 1 .. Len(readings) :
            /\ readings[i] \in Reading /\ readings[i] # None
            /\ readings[i].value \in Int /\ readings[i].at \in Int
      /\ \A i, j \in 1 .. Len(readings) : i < j => readings[i].at < readings[j].at
  <2>1. readings \in Seq(Reading) /\ Len(readings) \in Nat
    BY DEF ReadingsInv, TypeOK
  <2>2. ASSUME NEW i \in 1 .. Len(readings)
        PROVE  /\ readings[i] \in Reading /\ readings[i] # None
               /\ readings[i].value \in Int /\ readings[i].at \in Int
    BY ElementsOfMemory, ReadingFields, NoneAssumption DEF ReadingsInv
  <2>. QED
    BY <2>1, <2>2 DEF ReadingsInv, Remembered
<1>2. PICK f : /\ Maximum(readings) = f[Len(readings)]
               /\ f[0] = None
               /\ \A i \in 1 .. Len(readings) :
                     f[i] = Better(f[i - 1], readings[i])
  BY <1>1, MaximumLoop
<1>. DEFINE n == Len(readings)
            Best(i) == IF i = 0 THEN f[i] = None
                       ELSE \E k \in 1 .. i :
                              /\ f[i] = readings[k]
                              /\ \A j \in 1 .. i :
                                    \/ readings[j].value < readings[k].value
                                    \/ /\ readings[j].value = readings[k].value
                                       /\ j >= k
            S == {i \in Nat : i <= n => Best(i)}
<1>3. 0 \in S
  BY <1>2
<1>4. ASSUME NEW i \in Nat, i \in S PROVE i + 1 \in S
  <2>. SUFFICES ASSUME i + 1 <= n PROVE Best(i + 1)
    BY <1>4
  <2>. DEFINE r == readings[i + 1]
  <2>1. i + 1 \in 1 .. n /\ f[i + 1] = Better(f[i], r) /\ Best(i)
    <3>1. i + 1 \in 1 .. n /\ (i + 1) - 1 = i /\ i <= n
      BY <1>1
    <3>. QED
      BY <3>1, <1>2, <1>4
  <2>2. CASE i = 0
    BY <2>1, <2>2, <1>1 DEF Better
  <2>3. CASE i # 0
    <3>1. PICK k \in 1 .. i :
             /\ f[i] = readings[k]
             /\ \A j \in 1 .. i :
                   \/ readings[j].value < readings[k].value
                   \/ readings[j].value = readings[k].value /\ j >= k
      BY <2>1, <2>3
    <3>2. /\ k \in 1 .. n /\ k \in 1 .. i + 1 /\ i + 1 \in 1 .. i + 1
          /\ readings[k] # None
          /\ readings[k].value \in Int /\ r.value \in Int
          /\ \A j \in 1 .. i + 1 : j \in 1 .. i \/ j = i + 1
          /\ \A j \in 1 .. i : j \in 1 .. n
          /\ i + 1 >= k
      BY <1>1, <2>1
    <3>3. CASE r.value > readings[k].value
      <4>1. f[i + 1] = readings[i + 1]
        BY <2>1, <3>1, <3>2, <3>3 DEF Better
      <4>2. ASSUME NEW j \in 1 .. i + 1
            PROVE  \/ readings[j].value < readings[i + 1].value
                   \/ readings[j].value = readings[i + 1].value /\ j >= i + 1
        <5>1. CASE j \in 1 .. i
          BY <5>1, <1>1, <3>1, <3>2, <3>3
        <5>2. CASE j = i + 1
          BY <5>2
        <5>. QED
          BY <5>1, <5>2, <3>2
      <4>. QED
        BY <4>1, <4>2, <3>2
    <3>4. CASE ~(r.value > readings[k].value)
      <4>1. f[i + 1] = readings[k]
        BY <2>1, <3>1, <3>2, <3>4 DEF Better
      <4>2. ASSUME NEW j \in 1 .. i + 1
            PROVE  \/ readings[j].value < readings[k].value
                   \/ readings[j].value = readings[k].value /\ j >= k
        <5>1. CASE j \in 1 .. i
          BY <5>1, <3>1
        <5>2. CASE j = i + 1
          BY <5>2, <3>2, <3>4
        <5>. QED
          BY <5>1, <5>2, <3>2
      <4>. QED
        BY <4>1, <4>2, <3>2
    <3>. QED
      BY <3>3, <3>4
  <2>. QED
    BY <2>2, <2>3
<1>5. Best(n)
  <2>1. Nat \subseteq S
    <3>. HIDE DEF S
    <3>. QED
      BY <1>3, <1>4, Induction
  <2>. QED
    BY <2>1, <1>1
<1>6. CASE n = 0
  BY <1>1, <1>2, <1>6 DEF MaximumIsGreatest, ToSet
<1>7. CASE n # 0
  <2>1. PICK k \in 1 .. n :
           /\ f[n] = readings[k]
           /\ \A j \in 1 .. n :
                 \/ readings[j].value < readings[k].value
                 \/ readings[j].value = readings[k].value /\ j >= k
    BY <1>5, <1>7
  <2>2. Maximum(readings) = readings[k] /\ readings[k] # None
        /\ readings # << >>
    BY <2>1, <1>1, <1>2, <1>7
  <2>3. ASSUME NEW r \in ToSet(readings)
        PROVE  \/ r.value < readings[k].value
               \/ r.value = readings[k].value /\ r.at >= readings[k].at
    <3>1. PICK j \in 1 .. n : r = readings[j]
      BY <1>1 DEF ToSet
    <3>2. j >= k => j = k \/ k < j
      BY <1>1
    <3>. QED
      BY <3>1, <3>2, <2>1, <1>1
  <2>. QED
    BY <2>2, <2>3 DEF MaximumIsGreatest
<1>. QED
  BY <1>6, <1>7

\* a times c and b times c are in the order of a and b.
LEMMA TimesOrdered ==
  ASSUME NEW a \in Int, NEW b \in Int, NEW c \in Nat, a <= b
  PROVE  /\ a * c <= b * c
         /\ a * (c + 1) = a * c + a
         /\ a * c \in Int
<1>1. (b - a) * c >= 0
  OBVIOUS
<1>2. (b - a) * c = b * c - a * c
  OBVIOUS
<1>3. a * c \in Int /\ b * c \in Int /\ a * (c + 1) = a * c + a
  OBVIOUS
<1>. QED
  BY <1>1, <1>2, <1>3

\* Another reading moves the sum by no more than the least and the greatest of
\* those it counts would.
LEMMA BetweenKept ==
  ASSUME NEW low \in Int, NEW high \in Int, NEW count \in Nat, NEW sum \in Int,
         low * count <= sum, sum <= high * count,
         NEW low2 \in Int, NEW high2 \in Int, NEW value \in Int,
         low2 <= low, low2 <= value, high <= high2, value <= high2
  PROVE  low2 * (count + 1) <= sum + value /\ sum + value <= high2 * (count + 1)
<1>1. /\ low2 * count <= low * count /\ low2 * (count + 1) = low2 * count + low2
      /\ low2 * count \in Int /\ low * count \in Int
  BY TimesOrdered
<1>2. /\ high * count <= high2 * count
      /\ high * count \in Int /\ high2 * count \in Int
  BY TimesOrdered
<1>3. high2 * (count + 1) = high2 * count + high2
  BY TimesOrdered
<1>4. low2 * count <= sum /\ sum <= high2 * count
  BY <1>1, <1>2
<1>. QED
  BY <1>1, <1>2, <1>3, <1>4

\* After i readings, the sum lies between two of them, taken count times.
LEMMA SumBetween == ReadingsInv => AverageIsBetween
<1>. SUFFICES ASSUME ReadingsInv, NEW m \in Metrics, Count(m) > 0
              PROVE  \E low, high \in OfMetric(m) :
                        /\ low.value * Count(m) <= Sum(m)
                        /\ Sum(m) <= high.value * Count(m)
  BY DEF AverageIsBetween
<1>. DEFINE n == Len(readings)
<1>1. /\ readings \in Seq(Reading) /\ n \in Nat
      /\ \A i \in 1 .. n : readings[i].value \in Int
  <2>1. readings \in Seq(Reading)
    BY DEF ReadingsInv, TypeOK
  <2>. QED
    BY <2>1, ElementsOfMemory, ReadingFields DEF ReadingsInv
<1>2. PICK count : /\ Count(m) = count[n] /\ count[0] = 0
                   /\ \A i \in 1 .. n :
                        count[i] = count[i - 1]
                                   + (IF readings[i].metric = m THEN 1 ELSE 0)
  BY CountLoop DEF ReadingsInv
<1>3. PICK sum : /\ Sum(m) = sum[n] /\ sum[0] = 0
                 /\ \A i \in 1 .. n :
                      sum[i] = sum[i - 1]
                               + (IF readings[i].metric = m
                                    THEN readings[i].value ELSE 0)
  BY SumLoop DEF ReadingsInv
<1>. DEFINE Of(i) == {j \in 1 .. i : readings[j].metric = m}
            Between(i) ==
              /\ count[i] \in Nat /\ sum[i] \in Int
              /\ count[i] = 0 => sum[i] = 0
              /\ count[i] > 0 =>
                   \E j, k \in Of(i) :
                      /\ readings[j].value * count[i] <= sum[i]
                      /\ sum[i] <= readings[k].value * count[i]
            S == {i \in Nat : i <= n => Between(i)}
<1>4. 0 \in S
  BY <1>2, <1>3
<1>5. ASSUME NEW i \in Nat, i \in S PROVE i + 1 \in S
  <2>. SUFFICES ASSUME i + 1 <= n PROVE Between(i + 1)
    BY <1>5
  <2>. DEFINE v == readings[i + 1].value
  <2>1. /\ i + 1 \in 1 .. n /\ v \in Int /\ Between(i)
        /\ \A j \in Of(i) : j \in Of(i + 1) /\ readings[j].value \in Int
        /\ (i + 1) - 1 = i
    BY <1>1, <1>5
  <2>0. count[i] \in Nat /\ sum[i] \in Int
    BY <2>1
  <2>2. CASE readings[i + 1].metric # m
    <3>1. count[i + 1] = count[i] /\ sum[i + 1] = sum[i]
      <4>1. count[i + 1] = count[i] + 0 /\ sum[i + 1] = sum[i] + 0
        BY <2>1, <2>2, <1>2, <1>3
      <4>. QED
        BY <2>0, <4>1
    <3>. QED
      BY <2>1, <3>1
  <2>3. CASE readings[i + 1].metric = m
    <3>1. count[i + 1] = count[i] + 1 /\ sum[i + 1] = sum[i] + v
      BY <2>1, <2>3, <1>2, <1>3
    <3>2. i + 1 \in Of(i + 1)
      BY <2>3
    <3>3. count[i + 1] \in Nat /\ sum[i + 1] \in Int /\ count[i + 1] > 0
      BY <2>1, <3>1
    <3>4. CASE count[i] = 0
      <4>1. v * 1 = v
        BY <2>1
      <4>2. count[i + 1] = 1 /\ sum[i + 1] = v
        BY <2>1, <3>1, <3>4
      <4>3. /\ readings[i + 1].value * count[i + 1] <= sum[i + 1]
            /\ sum[i + 1] <= readings[i + 1].value * count[i + 1]
        BY <2>1, <4>1, <4>2
      <4>. QED
        BY <3>2, <3>3, <4>3
    <3>5. CASE count[i] > 0
      <4>1. PICK j \in Of(i), k \in Of(i) :
               /\ readings[j].value * count[i] <= sum[i]
               /\ sum[i] <= readings[k].value * count[i]
        BY <2>1, <3>5
      <4>2. /\ readings[j].value \in Int /\ readings[k].value \in Int
            /\ j \in Of(i + 1) /\ k \in Of(i + 1) /\ v \in Int
        BY <2>1, <4>1
      <4>3. PICK j2 \in Of(i + 1) : /\ readings[j2].value <= readings[j].value
                                    /\ readings[j2].value <= v
                                    /\ readings[j2].value \in Int
        <5>1. CASE readings[j].value <= v
          BY <5>1, <4>2
        <5>2. CASE v < readings[j].value
          BY <5>2, <4>2, <3>2
        <5>. QED
          BY <4>2, <5>1, <5>2
      <4>5. PICK k2 \in Of(i + 1) : /\ readings[k].value <= readings[k2].value
                                    /\ v <= readings[k2].value
                                    /\ readings[k2].value \in Int
        <5>1. CASE v <= readings[k].value
          BY <5>1, <4>2
        <5>2. CASE readings[k].value < v
          BY <5>2, <4>2, <3>2
        <5>. QED
          BY <4>2, <5>1, <5>2
      <4>4. /\ readings[j2].value * (count[i] + 1) <= sum[i] + v
            /\ sum[i] + v <= readings[k2].value * (count[i] + 1)
        <5>. DEFINE low == readings[j].value
                    high == readings[k].value
                    low2 == readings[j2].value
                    high2 == readings[k2].value
                    c == count[i]
                    t == sum[i]
        <5>1. /\ low \in Int /\ high \in Int /\ c \in Nat /\ t \in Int
              /\ low * c <= t /\ t <= high * c
              /\ low2 \in Int /\ high2 \in Int /\ v \in Int
              /\ low2 <= low /\ low2 <= v /\ high <= high2 /\ v <= high2
          BY <2>0, <4>1, <4>2, <4>3, <4>5
        <5>. HIDE DEF low, high, low2, high2, c, t, v
        <5>2. low2 * (c + 1) <= t + v /\ t + v <= high2 * (c + 1)
          BY <5>1, BetweenKept
        <5>. QED
          BY <5>2 DEF low2, high2, c, t, v
      <4>. QED
        BY <3>1, <3>3, <4>3, <4>4, <4>5
    <3>. QED
      BY <2>1, <3>4, <3>5
  <2>. QED
    BY <2>2, <2>3
<1>6. Between(n)
  <2>1. Nat \subseteq S
    <3>. HIDE DEF S
    <3>. QED
      BY <1>4, <1>5, Induction
  <2>. QED
    BY <2>1, <1>1
<1>7. PICK j \in Of(n), k \in Of(n) :
         /\ readings[j].value * count[n] <= sum[n]
         /\ sum[n] <= readings[k].value * count[n]
  BY <1>2, <1>6
<1>8. readings[j] \in OfMetric(m) /\ readings[k] \in OfMetric(m)
  BY <1>1 DEF OfMetric, ToSet
<1>. QED
  BY <1>2, <1>3, <1>7, <1>8

-----------------------------------------------------------------------------
(* Theorems                                                                *)

\* Every behaviour of Readings satisfies the invariant.
THEOREM ReadingsInvariance == Spec => []ReadingsInv
<1>1. ReadingsInv /\ [Next]_vars => ReadingsInv'
  BY ReceiveKeeps, OpenFileKeeps, OpenFailsKeeps, WriteFileKeeps, CrashKeeps,
     StartKeeps, StutterKeeps DEF Next
<1>. QED
  BY InitHolds, <1>1, PTL DEF Spec

\* Every variable keeps its type, and what is being saved is the last in
\* memory.
THEOREM TypeCorrect == Spec => []TypeOK
<1>1. ReadingsInv => TypeOK
  BY DEF ReadingsInv
<1>. QED
  BY <1>1, ReadingsInvariance, PTL

\* The CSV files hold the readings of their sensors in the order they came in,
\* under one header (persist_reading_csv).
THEOREM FilesStayInOrder == Spec => []FilesInOrder
<1>1. ReadingsInv => FilesInOrder
  BY DEF ReadingsInv, LinesInOrder, Increasing, LinesOfSensor, HeaderFirst,
         FilesInOrder
<1>. QED
  BY <1>1, ReadingsInvariance, PTL

\* No reading is missing from the files but those that are counted.
THEOREM LossesAreAccounted == Spec => []LossesAccounted
<1>1. ReadingsInv => LossesAccounted
  BY DEF ReadingsInv
<1>. QED
  BY <1>1, ReadingsInvariance, PTL

LEMMA LatestShown == ReadingsInv => HistoryIsLatest
<1>. SUFFICES ASSUME ReadingsInv PROVE HistoryIsLatest
  OBVIOUS
<1>. USE ReadingsAssumption
<1>. DEFINE len == Len(readings)
            before == HistoryStart - 1
<1>1. readings \in Seq(Reading) /\ len \in Nat
  BY DEF ReadingsInv, TypeOK
<1>2. /\ before \in 0 .. len /\ HistoryStart = before + 1
      /\ len - before <= HistoryLength
      /\ before > 0 => len - before = HistoryLength
  BY <1>1 DEF HistoryStart
<1>. HIDE DEF before
<1>3. /\ Len(History) = len - before
      /\ DOMAIN History = 1 .. Len(History)
      /\ \A i \in 1 .. Len(History) : History[i] = readings[before + i]
  BY <1>1, <1>2 DEF History
<1>4. \A i \in 1 .. len : readings[i].at \in Int
  BY ElementsOfMemory, ReadingFields DEF ReadingsInv
<1>5. \A i, j \in 1 .. len : i < j => readings[i].at < readings[j].at
  BY DEF ReadingsInv, Remembered
<1>6. Len(History) <= HistoryLength
  BY <1>2, <1>3
<1>7. \A i \in 1 .. Len(History) - 1 : History[i].at < History[i + 1].at
  <2>. SUFFICES ASSUME NEW i \in 1 .. Len(History) - 1
                PROVE  History[i].at < History[i + 1].at
    OBVIOUS
  <2>1. before + i \in 1 .. len /\ before + (i + 1) \in 1 .. len
    BY <1>1, <1>2, <1>3
  <2>2. readings[before + i].at < readings[before + (i + 1)].at
    BY <2>1, <1>1, <1>2, <1>5
  <2>. QED
    BY <2>2, <1>1, <1>2, <1>3
<1>8. ASSUME NEW r \in ToSet(readings) \ ToSet(History)
      PROVE  /\ Len(History) = HistoryLength
             /\ \A h \in ToSet(History) : r.at < h.at
  <2>1. PICK k \in 1 .. len : r = readings[k]
    BY <1>1 DEF ToSet
  <2>2. k <= before
    <3>. SUFFICES ASSUME k > before PROVE FALSE
      BY <1>2, <1>1
    <3>1. k - before \in 1 .. Len(History) /\ before + (k - before) = k
      BY <1>1, <1>2, <1>3
    <3>2. History[k - before] = r
      BY <3>1, <2>1, <1>3
    <3>. QED
      BY <3>1, <3>2, <1>3 DEF ToSet
  <2>3. Len(History) = HistoryLength
    BY <2>2, <1>1, <1>2, <1>3
  <2>4. ASSUME NEW h \in ToSet(History) PROVE r.at < h.at
    <3>1. PICK i \in 1 .. Len(History) : h = History[i]
      BY <1>3 DEF ToSet
    <3>2. before + i \in 1 .. len /\ k < before + i
      BY <2>2, <1>1, <1>2, <1>3
    <3>. QED
      BY <3>1, <3>2, <2>1, <1>3, <1>5
  <2>. QED
    BY <2>3, <2>4
<1>. QED
  BY <1>6, <1>7, <1>8 DEF HistoryIsLatest

\* READING_HISTORY shows the latest readings, all of them up to its limit.
THEOREM HistoryShowsLatest == Spec => []HistoryIsLatest
  BY LatestShown, ReadingsInvariance, PTL

\* MAX_READING names the earliest of the greatest readings in memory.
THEOREM MaximumFound == Spec => []MaximumIsGreatest
  BY GreatestFound, ReadingsInvariance, PTL

\* AVERAGE_* lies between two readings of its metric.
THEOREM AverageBetween == Spec => []AverageIsBetween
  BY SumBetween, ReadingsInvariance, PTL
=============================================================================
