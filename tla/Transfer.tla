------------------------------ MODULE Transfer ------------------------------
(***************************************************************************)
(* One message on its way from the program that encodes it to the C        *)
(* program that parses it.                                                 *)
(*                                                                         *)
(* It is appended to the encoder's buffer piece by piece, and the buffer   *)
(* grows.  It arrives as it is; or with fields that the reader does not    *)
(* know, from a program with a newer messages.proto; or, as a datagram,    *)
(* without its end, since recvfrom drops what its buffer has no room for.  *)
(***************************************************************************)
EXTENDS Codec

CONSTANTS
    Contents,       \* the messages: [kind, message]
    Unknown,        \* fields a newer program adds: [number, wire, varint]
                    \* or, of wires other than 0, [number, wire, bytes]
    Cuts            \* bound: the sizes datagrams are cut to

VARIABLES
    content,        \* the message, and its kind
    pieces,         \* what is yet to be appended
    data, capacity, \* SmartBuffer: its bytes, in number len, and cap
    arrived,        \* "no", or how it arrived: "whole", "newer", "cut"
    result          \* what the parser made of it

vars == <<content, pieces, data, capacity, arrived, result>>

\* Who encodes and who parses what.
Encoded(c) ==
    LET m == c.message
    IN  CASE c.kind = "DiscoveryRequest"  -> encode_discovery_request(m)
          [] c.kind = "DiscoveryResponse" -> encode_discovery_response(m)
          [] c.kind = "SensorReading"     -> encode_sensor_reading(m)
          [] c.kind = "ClientRequest"     -> encode_client_request(m)
          [] c.kind = "ClientResponse"    -> encode_client_response(m)
          [] c.kind = "ControlCommand"    -> encode_control_command(m)
          [] c.kind = "ControlResponse"   -> encode_control_response(m)

TableOf ==
    [DiscoveryRequest |-> DiscoveryRequestTable,
     DiscoveryResponse |-> SensorInfoTable,
     SensorReading |-> SensorReadingTable,
     ClientRequest |-> ClientRequestTable,
     ClientResponse |-> ClientResponseTable,
     ControlCommand |-> ControlCommandTable,
     ControlResponse |-> ControlResponseTable]

\* A field, by its wire type, and how a newer program writes it.
IsField(f) ==
    /\ IsKey(f.number, f.wire)
    /\ \/ f.wire = 0 /\ f.varint \in Numbers
       \/ f.wire = 1 /\ f.bytes \in Bytes /\ Len(f.bytes) = 8
       \/ f.wire = 2 /\ f.bytes \in Bytes /\ Len(f.bytes) \in Numbers
       \/ f.wire = 5 /\ f.bytes \in Bytes /\ Len(f.bytes) = 4

Spelled(f) ==
    Key(f.number, f.wire) \o
        (CASE f.wire = 0 -> Varint[f.varint]
           [] f.wire = 2 -> Varint[Len(f.bytes)] \o f.bytes
           [] OTHER      -> f.bytes)

ASSUME ContentsAssumption ==
    \A c \in Contents :
        c.kind \in DOMAIN TableOf /\ IsMessage(TableOf[c.kind], c.message)

ASSUME UnknownAssumption ==
    \A f \in Unknown :
        /\ IsField(f)
        /\ \A kind \in DOMAIN TableOf : f.number \notin DOMAIN TableOf[kind]

ASSUME CutsAssumption == Cuts \subseteq Nat

Datagrams == {"DiscoveryRequest", "DiscoveryResponse", "SensorReading"}

Parsed(kind, bytes) ==
    IF kind = "ClientResponse" THEN parse_client_response(bytes)
                               ELSE Parse(TableOf[kind], bytes)

\* Variant: it grows once.
ReserveOnce(cap, len, extra) ==
    IF len + extra <= cap THEN cap
    ELSE IF cap = 0 THEN 128 ELSE 2 * cap

\* buffer_reserve.
Reserve(cap, len, extra) ==
    LET grown[c \in Nat] == IF c >= len + extra THEN c ELSE grown[2 * c]
    IN  IF len + extra <= cap THEN cap
        ELSE grown[IF cap = 0 THEN 128 ELSE cap]

Init ==
    /\ content \in Contents
    /\ \/ pieces = Encoded(content)
       \/ pieces = PythonMessage(TableOf[content.kind], content.message)
    /\ data = << >>
    /\ capacity = 0
    /\ arrived = "no"
    /\ result = NoMessage

Encoding == pieces # << >>

\* buffer_append.
AppendPiece ==
    /\ Encoding
    /\ capacity' = Reserve(capacity, Len(data), Len(Head(pieces)))
    /\ data' = data \o Head(pieces)
    /\ pieces' = Tail(pieces)
    /\ UNCHANGED <<content, arrived, result>>

Arrive(how, bytes) ==
    /\ arrived = "no"
    /\ arrived' = how
    /\ result' = Parsed(content.kind, bytes)
    /\ UNCHANGED <<content, pieces, data, capacity>>

\* The places between two fields.
Boundaries ==
    LET fields == Fields(data)
    IN  {0} \cup {fields[i].next - 1 : i \in DOMAIN fields}

ArriveWhole == ~Encoding /\ Arrive("whole", data)

ArriveNewer ==
    /\ ~Encoding
    /\ \E n \in Boundaries, f \in Unknown :
          Arrive("newer",
                 SubSeq(data, 1, n) \o Spelled(f)
                    \o SubSeq(data, n + 1, Len(data)))

ArriveCut ==
    /\ ~Encoding
    /\ content.kind \in Datagrams
    /\ \E n \in Cuts :
          n < Len(data) /\ Arrive("cut", SubSeq(data, 1, n))

Next == AppendPiece \/ ArriveWhole \/ ArriveNewer \/ ArriveCut

Spec == Init /\ [][Next]_vars

-----------------------------------------------------------------------------
(* What must hold                                                          *)

\* Two values of a member that are equal in C.
Equal(e, v, w) == v = w \/ (e.kind = "double" /\ IsZero(v) /\ IsZero(w))

EqualMembers(table, m, n) ==
    \A e \in ToSet(table) : Equal(e, m[e.name], n[e.name])

\* So are messages inside a message if all their members are.
EqualItems(e, v, w) ==
    /\ Len(v) = Len(w)
    /\ \A i \in DOMAIN v : EqualMembers(ItemTable[e.name], v[i], w[i])

\* The parser gave m.
Gave(m) ==
    /\ result # NoMessage
    /\ \A e \in ToSet(TableOf[content.kind]) :
          IF e.kind = "items" THEN EqualItems(e, m[e.name], result[e.name])
                              ELSE Equal(e, m[e.name], result[e.name])

\* What was written is read: by every encoder, Python's included, and every
\* parser of a C program, whatever fields were left out.
RoundTrip == arrived = "whole" => Gave(content.message)

\* Fields that a parser does not know, of any wire type, and wherever they
\* are, change nothing.
UnknownFieldsIgnored == arrived = "newer" => Gave(content.message)

\* The message with its first n fields only.
FirstFields(n) ==
    LET table == TableOf[content.kind]
        kept == {table[i].name : i \in 1 .. n}
    IN  [name \in DOMAIN content.message |->
            IF name \in kept THEN content.message[name] ELSE Blank(table)[name]]

\* A message that lost its end is rejected, unless it lost whole fields: no
\* value is ever read that was not written.
CutIsNoticed ==
    arrived = "cut" =>
        \/ result = NoMessage
        \/ \E n \in 0 .. Len(TableOf[content.kind]) : Gave(FirstFields(n))

\* The buffer holds what is appended to it, also a piece longer than it was,
\* and is never twice too large.
BufferHolds ==
    /\ Len(data) <= capacity
    /\ capacity > 128 => capacity < 2 * Len(data)
=============================================================================
