----------------------------- MODULE MCTransfer -----------------------------
(* Messages that differ from the blank one in two fields at most. *)
EXTENDS Transfer

One == <<0, 0, 0, 0, 0, 0, 240, 63>>
NotANumber == <<0, 0, 0, 0, 0, 0, 248, 127>>

\* A length of one and one of two bytes; the longer string is more than twice
\* as long as the first buffer.
Short == <<65>>
Long == [i \in 1 .. 300 |-> 66]

Info == [Blank(SensorInfoTable) EXCEPT
            !.sensor_id = Short, !.is_active = TRUE,
            !.threshold = MinusZero, !.state_text = Long]
Reading == [Blank(SensorReadingTable) EXCEPT
            !.sensor_id = Short, !.value = One, !.alert_message = Short]

Items(name) ==
    IF name = "sensors"
    THEN {<<Blank(SensorInfoTable)>>, <<Info, Blank(SensorInfoTable), Info>>}
    ELSE {<<Blank(SensorReadingTable)>>, <<Reading, Reading>>}

\* On both sides of the steps in the length of a varint.
Values(e) ==
    CASE e.kind = "number" -> {1, 127, 128, 16384, 2147483647}
      [] e.kind = "flag"   -> {TRUE}
      [] e.kind = "double" -> {One, MinusZero, NotANumber}
      [] e.kind = "string" -> {Short, Long}
      [] e.kind = "items"  -> Items(e.name)

MessagesOf(table) ==
    {Blank(table)} \cup
    UNION {UNION {{[Blank(table) EXCEPT ![e.name] = v, ![f.name] = w] :
                      v \in Values(e), w \in Values(f)} :
              f \in ToSet(table)} : e \in ToSet(table)}

SomeContents ==
    UNION {{[kind |-> k, message |-> m] : m \in MessagesOf(TableOf[k])} :
              k \in DOMAIN TableOf}

\* Every length but that of the whole message.
AllCuts == 0 .. 650

\* A field of each wire type, with keys of one and of two bytes.
NewFields ==
    {[number |-> 15, wire |-> 0, varint |-> 300],
     [number |-> 16, wire |-> 1, bytes |-> One],
     [number |-> 16, wire |-> 2, bytes |-> <<8, 8, 8>>],
     [number |-> 15, wire |-> 5, bytes |-> <<1, 2, 3, 4>>]}
=============================================================================
