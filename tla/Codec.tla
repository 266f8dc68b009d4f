------------------------------- MODULE Codec -------------------------------
(***************************************************************************)
(* The wire format of the messages, as smartcity_common.c and client.c     *)
(* write and read it: protobuf by hand.                                    *)
(*                                                                         *)
(* A message is a record.  A string is the sequence of its bytes, NULL the *)
(* empty one, since both are written alike; a double is its eight bytes;   *)
(* an enum, an unsigned and a time are numbers.  An encoder gives the      *)
(* pieces that it appends to its buffer, in their order; a parser takes    *)
(* the bytes, and gives a message or NoMessage.                            *)
(*                                                                         *)
(* What is read was written by these programs, or lost its end.  So the    *)
(* numbers fit the 32 bits that some members are cast to, no byte of a     *)
(* string is zero, and a position and the length that follows it have a    *)
(* sum that does not wrap; what the code makes of others is left open.     *)
(***************************************************************************)
EXTENDS Integers, Sequences, SequencesExt

Bytes == Seq(0 .. 255)

ZeroDouble == <<0, 0, 0, 0, 0, 0, 0, 0>>
MinusZero == <<0, 0, 0, 0, 0, 0, 0, 128>>

\* The doubles that equal 0.0.
IsZero(d) == d \in {ZeroDouble, MinusZero}

-----------------------------------------------------------------------------
(* Writing                                                                 *)

\* buffer_append_varint: seven bits a byte, the lowest first.
Varint[n \in Nat] ==
    IF n < 128 THEN <<n>> ELSE <<128 + (n % 128)>> \o Varint[n \div 128]

\* n is written in so many bytes, the last of them at most so great.
FitsIn(n, bytes, last) ==
    LET b == Varint[n]
    IN  Len(b) <= bytes /\ (Len(b) = bytes => b[bytes] <= last)

\* The numbers, and lengths, of 64 bits: nine times seven, and one.
Numbers == {n \in Nat : FitsIn(n, 10, 1)}

Key(number, wire) == Varint[8 * number + wire]

\* A key has 32 bits: four times seven, and four.
IsKey(number, wire) ==
    /\ number \in Nat \ {0} /\ wire \in 0 .. 7
    /\ FitsIn(8 * number + wire, 5, 15)

StringField(number, s) ==
    IF s = << >> THEN << >> ELSE <<Key(number, 2), Varint[Len(s)], s>>

DoubleField(number, d) == <<Key(number, 1), d>>

VarintField(number, n) == <<Key(number, 0), Varint[n]>>

\* The encoders write these only if the field differs from zero.
NonZero(number, n) == IF n = 0 THEN << >> ELSE VarintField(number, n)
NonZeroDouble(number, d) == IF IsZero(d) THEN << >> ELSE DoubleField(number, d)
Flag(number, b) == IF b THEN VarintField(number, 1) ELSE << >>

\* A message inside a message: its bytes are collected in a buffer first.
Nested(number, pieces) ==
    LET data == FlattenSeq(pieces)
    IN  <<Key(number, 2), Varint[Len(data)], data>>

\* A repeated message, given by the pieces of each.
EachNested(number, encodings) ==
    FlattenSeq([i \in DOMAIN encodings |-> Nested(number, encodings[i])])

encode_sensor_info(m) ==
    StringField(1, m.sensor_id) \o NonZero(2, m.sensor_type)
        \o StringField(3, m.sensor_ip) \o NonZero(4, m.control_tcp_port)
        \o Flag(5, m.is_active) \o NonZeroDouble(6, m.frequency_seconds)
        \o NonZeroDouble(7, m.threshold) \o NonZero(8, m.device_kind)
        \o StringField(9, m.state_text)

\* Variant: two fields have changed places.
encode_sensor_reading_swapped(m) ==
    StringField(1, m.sensor_id) \o NonZero(2, m.sensor_type)
        \o DoubleField(3, m.value) \o StringField(4, m.unit)
        \o NonZero(5, m.timestamp_unix_ms) \o Flag(6, m.alert)
        \o StringField(8, m.alert_message) \o StringField(7, m.metric)

\* The value of a reading is written even if it is zero.
encode_sensor_reading(m) ==
    StringField(1, m.sensor_id) \o NonZero(2, m.sensor_type)
        \o DoubleField(3, m.value) \o StringField(4, m.unit)
        \o NonZero(5, m.timestamp_unix_ms) \o Flag(6, m.alert)
        \o StringField(7, m.alert_message) \o StringField(8, m.metric)

encode_control_response(m) ==
    NonZero(1, m.status) \o StringField(2, m.message)
        \o StringField(3, m.sensor_id) \o Flag(4, m.is_active)
        \o NonZeroDouble(5, m.frequency_seconds)
        \o NonZeroDouble(6, m.threshold) \o StringField(7, m.state_text)

encode_discovery_request(m) ==
    StringField(1, m.gateway_id) \o StringField(2, m.request_timestamp)
        \o NonZero(3, m.gateway_udp_port)
        \o NonZero(4, m.discovery_response_port)

encode_discovery_response(m) == encode_sensor_info(m)

encode_client_response(m) ==
    NonZero(1, m.status) \o StringField(2, m.message)
        \o EachNested(3, [i \in DOMAIN m.sensors |->
                                encode_sensor_info(m.sensors[i])])
        \o NonZeroDouble(4, m.metric_value)
        \o EachNested(5, [i \in DOMAIN m.readings |->
                                encode_sensor_reading(m.readings[i])])

encode_control_command(m) ==
    NonZero(1, m.command_type) \o StringField(2, m.sensor_id)
        \o NonZeroDouble(3, m.value) \o StringField(4, m.text_value)

\* client.c: the type is written even if it is zero.
encode_client_request(m) ==
    VarintField(1, m.request_type) \o StringField(2, m.target_sensor_id)
        \o NonZeroDouble(3, m.value) \o NonZero(4, m.command_type)
        \o StringField(5, m.text_value)

-----------------------------------------------------------------------------
(* Reading: from bytes to fields                                           *)

Broken == [ok |-> FALSE]

\* The number in the bytes from pos to end.
NumberAt(data, pos, end) ==
    LET from[i \in pos .. end] ==
            (data[i] % 128) + (IF i = end THEN 0 ELSE 128 * from[i + 1])
    IN  from[pos]

\* The varint at pos: ten bytes at most, each but the last with its top bit.
ReadVarint(data, pos) ==
    LET ends == {k \in pos .. pos + 9 : k <= Len(data) /\ data[k] < 128}
    IN  IF ends = {} THEN Broken
        ELSE [ok |-> TRUE, value |-> NumberAt(data, pos, Min(ends)),
              next |-> Min(ends) + 1]

\* Eight or four bytes.
ReadFixed(data, pos, size) ==
    IF pos + size - 1 > Len(data) THEN Broken
    ELSE [ok |-> TRUE, value |-> SubSeq(data, pos, pos + size - 1),
          next |-> pos + size]

\* Variant: what there is of the bytes is taken for all of them.
ReadDelimitedShort(data, pos) ==
    LET n == ReadVarint(data, pos)
    IN  IF n.ok
        THEN ReadFixed(data, n.next, Min({n.value, Len(data) - n.next + 1}))
        ELSE Broken

\* As many bytes as the varint n says, after it, if there are so many.  The
\* code's sum is one of 64 bits, and the same for any length that is written.
ReadCounted(data, n) ==
    IF n.ok THEN ReadFixed(data, n.next, n.value) ELSE Broken

\* A length and that many bytes.
ReadDelimited(data, pos) == ReadCounted(data, ReadVarint(data, pos))

\* Variant: all that is neither a varint nor a string has eight bytes.
ReadValueWide(data, pos, wire) ==
    CASE wire = 0 -> ReadVarint(data, pos)
      [] wire = 2 -> ReadDelimited(data, pos)
      [] OTHER    -> ReadFixed(data, pos, 8)

\* The value of a field, by its wire type; also what skip_field steps over.
ReadValue(data, pos, wire) ==
    CASE wire = 0 -> ReadVarint(data, pos)
      [] wire = 1 -> ReadFixed(data, pos, 8)
      [] wire = 2 -> ReadDelimited(data, pos)
      [] wire = 5 -> ReadFixed(data, pos, 4)
      [] OTHER    -> Broken

Field(key, v) ==
    IF key.ok /\ v.ok
    THEN [ok |-> TRUE, number |-> key.value \div 8, wire |-> key.value % 8,
          value |-> v.value, next |-> v.next]
    ELSE Broken

ReadAfterKey(data, key) ==
    Field(key, ReadValue(data, key.next, key.value % 8))

\* A key and its value: one turn of a parser's loop.
ReadField(data, pos) == ReadAfterKey(data, ReadVarint(data, pos))

\* The fields of data in their order; the last is Broken if one cannot be read.
Fields(data) ==
    LET from[pos \in 1 .. Len(data) + 1] ==
            IF pos > Len(data) THEN << >>
            ELSE LET f == ReadField(data, pos)
                 IN  <<f>> \o (IF f.ok THEN from[f.next] ELSE << >>)
    IN  from[1]

-----------------------------------------------------------------------------
(* Reading: from fields to messages.  A table has, for each field number,  *)
(* the member of the struct it goes to and how it is read.                 *)

NoMessage == [ok |-> FALSE]

WireOf == [number |-> 0, flag |-> 0, double |-> 1, string |-> 2, items |-> 2]

Default == [number |-> 0, flag |-> FALSE, double |-> ZeroDouble,
            string |-> << >>, items |-> << >>]

\* memset.
Blank(table) ==
    [name \in {table[i].name : i \in DOMAIN table} |->
        Default[(CHOOSE e \in ToSet(table) : e.name = name).kind]]

\* A field that the table knows must have the table's wire type.
Fits(table, f) ==
    /\ f.ok
    /\ f.number \in DOMAIN table => f.wire = WireOf[table[f.number].kind]

\* A repeated field is appended to, any other set; an unknown one is skipped.
Store(table, m, f) ==
    IF f.number \notin DOMAIN table THEN m
    ELSE LET e == table[f.number]
         IN  [m EXCEPT ![e.name] =
                CASE e.kind = "flag"  -> f.value # 0
                  [] e.kind = "items" -> Append(@, f.value)
                  [] OTHER            -> f.value]

MessageOf(table, fields) ==
    LET after[i \in 0 .. Len(fields)] ==
            IF i = 0 THEN Blank(table)
                     ELSE Store(table, after[i - 1], fields[i])
    IN  IF \A i \in DOMAIN fields : Fits(table, fields[i])
        THEN after[Len(fields)] ELSE NoMessage

\* The loop of a parser.
Parse(table, data) == MessageOf(table, Fields(data))

As(name, kind) == [name |-> name, kind |-> kind]

SensorInfoTable ==
    <<As("sensor_id", "string"), As("sensor_type", "number"),
      As("sensor_ip", "string"), As("control_tcp_port", "number"),
      As("is_active", "flag"), As("frequency_seconds", "double"),
      As("threshold", "double"), As("device_kind", "number"),
      As("state_text", "string")>>

SensorReadingTable ==
    <<As("sensor_id", "string"), As("sensor_type", "number"),
      As("value", "double"), As("unit", "string"),
      As("timestamp_unix_ms", "number"), As("alert", "flag"),
      As("alert_message", "string"), As("metric", "string")>>

DiscoveryRequestTable ==
    <<As("gateway_id", "string"), As("request_timestamp", "string"),
      As("gateway_udp_port", "number"), As("discovery_response_port", "number")>>

ClientRequestTable ==
    <<As("request_type", "number"), As("target_sensor_id", "string"),
      As("value", "double"), As("command_type", "number"),
      As("text_value", "string")>>

ControlCommandTable ==
    <<As("command_type", "number"), As("sensor_id", "string"),
      As("value", "double"), As("text_value", "string")>>

ControlResponseTable ==
    <<As("status", "number"), As("message", "string"), As("sensor_id", "string"),
      As("is_active", "flag"), As("frequency_seconds", "double"),
      As("threshold", "double"), As("state_text", "string")>>

\* client.c reads the answer, and the messages in it, with parsers of its own.
ClientResponseTable ==
    <<As("status", "number"), As("message", "string"), As("sensors", "items"),
      As("metric_value", "double"), As("readings", "items")>>

\* The messages in it, and how the C gateway writes them.
ItemTable == [sensors |-> SensorInfoTable, readings |-> SensorReadingTable]

ItemPieces(name, item) ==
    IF name = "sensors" THEN encode_sensor_info(item)
                        ELSE encode_sensor_reading(item)

client_parse_sensor_info(data) == Parse(SensorInfoTable, data)

client_parse_sensor_reading(data) == Parse(SensorReadingTable, data)

\* Every message inside the answer must be one, too.
parse_client_response(data) ==
    LET m == Parse(ClientResponseTable, data)
        sensors == [i \in DOMAIN m.sensors |->
                        client_parse_sensor_info(m.sensors[i])]
        readings == [i \in DOMAIN m.readings |->
                        client_parse_sensor_reading(m.readings[i])]
    IN  IF m = NoMessage \/ NoMessage \in ToSet(sensors) \cup ToSet(readings)
        THEN NoMessage
        ELSE [m EXCEPT !.sensors = sensors, !.readings = readings]

-----------------------------------------------------------------------------
(* What a Python program writes: in the order of their numbers, all fields *)
(* that differ from their default, also minus zero.                        *)

PythonField(number, kind, v) ==
    IF v = Default[kind] THEN << >>
    ELSE CASE kind = "number" -> VarintField(number, v)
           [] kind = "flag"   -> VarintField(number, 1)
           [] kind = "double" -> DoubleField(number, v)
           [] kind = "string" -> StringField(number, v)

PythonFlat(table, m) ==
    FlattenSeq([i \in DOMAIN table |->
                    PythonField(i, table[i].kind, m[table[i].name])])

\* Of the items v, each a message itself.
PythonItems(number, name, v) ==
    EachNested(number, [k \in DOMAIN v |-> PythonFlat(ItemTable[name], v[k])])

PythonMessage(table, m) ==
    FlattenSeq([i \in DOMAIN table |->
                    LET e == table[i]
                    IN  IF e.kind = "items"
                        THEN PythonItems(i, e.name, m[e.name])
                        ELSE PythonField(i, e.kind, m[e.name])])

-----------------------------------------------------------------------------
(* The messages that are written                                           *)

KindOf(e, v) ==
    CASE e.kind = "number" -> v \in Numbers
      [] e.kind = "flag"   -> v \in BOOLEAN
      [] e.kind = "double" -> v \in Bytes /\ Len(v) = 8
      [] e.kind = "string" -> v \in Bytes /\ Len(v) \in Numbers
      [] e.kind = "items"  -> v \in Seq(ToSet(v))

\* A message has the members of its table.
HasMembers(table, m) ==
    /\ m = [name \in DOMAIN Blank(table) |-> m[name]]
    /\ \A e \in ToSet(table) : KindOf(e, m[e.name])

ItemEncodings(name, item) ==
    {ItemPieces(name, item), PythonFlat(ItemTable[name], item)}

\* So have those inside it, of which none is too long for its length.
IsMessage(table, m) ==
    /\ HasMembers(table, m)
    /\ \A e \in ToSet(table) :
          e.kind = "items" =>
              \A item \in ToSet(m[e.name]) :
                  /\ HasMembers(ItemTable[e.name], item)
                  /\ \A pieces \in ItemEncodings(e.name, item) :
                        Len(FlattenSeq(pieces)) \in Numbers
=============================================================================
