------------------------------ MODULE Framing ------------------------------
(***************************************************************************)
(* One direction of a TCP connection between two programs: messages become *)
(* frames (four bytes of length, most significant first, then the message),*)
(* frames become a stream that send and recv cut into pieces as they like. *)
(*                                                                         *)
(* The sender is smart_send_msg: two calls of smart_send_all, each a loop  *)
(* around send.  The receiver is smart_recv_msg: two calls of              *)
(* smart_recv_exact, each a loop around recv, with the buffer allocated in *)
(* between.  client.c has copies of all of them.  Either end may die at    *)
(* any step, and what is then still on its way may be lost.                *)
(*                                                                         *)
(* Every program sends its next message only after the last one was        *)
(* answered, so that one frame at most is on its way.  The allocation in   *)
(* smart_recv_msg is taken to succeed.  The Python programs do the same,   *)
(* but for an empty message, which they take for the end; none is sent.    *)
(***************************************************************************)
EXTENDS Integers, Sequences, SequencesExt

CONSTANTS
    Messages,           \* the messages, sequences of bytes
    ReceiverTimeout,    \* the receiver has set SO_RCVTIMEO (client.c does)
    Window,             \* bound: bytes the connection holds
    MaxSent             \* bound: messages sent

Byte == {b \in Nat : b < 256}
Lengths == {n \in Nat : n < 127 * 256 * 256 * 256}  \* those that fit an int

ASSUME MessagesAssumption ==
    \A m \in Messages : m \in Seq(Byte) /\ Len(m) \in Lengths

ASSUME FramingAssumption ==
    ReceiverTimeout \in BOOLEAN /\ Window \in Nat \ {0} /\ MaxSent \in Nat

VARIABLES
    sender,     \* smart_send_msg: "idle", "header", "payload"; or "closed"
    unsent,     \* what smart_send_all has not yet handed to send
    wire,       \* bytes on their way
    lost,       \* bytes that will never arrive (history)
    receiver,   \* smart_recv_msg: "header", "payload"; or "closed"
    need,       \* the size smart_recv_exact was called with
    buffer,     \* what it has received
    sent,       \* messages handed over for sending (history)
    received    \* messages handed out (history)

senderVars == <<sender, unsent, sent>>
receiverVars == <<receiver, need, buffer, received>>
vars == <<senderVars, wire, lost, receiverVars>>

\* htonl, and the four shifts of client.c.
BigEndian(n) ==
    LET three == n \div 256         \* n without its last byte, and so on
        two == three \div 256
        one == two \div 256
    IN  <<one, two % 256, three % 256, n % 256>>

\* Variant: the host's own order.
LittleEndianLength(b) ==
    b[1] + 256 * (b[2] + 256 * (b[3] + 256 * b[4]))

\* ntohl.
LengthOf(b) == b[4] + 256 * (b[3] + 256 * (b[2] + 256 * b[1]))

HeaderLength == 4

Frame(m) == BigEndian(Len(m)) \o m

Init ==
    /\ sender = "idle"
    /\ unsent = << >>
    /\ wire = << >>
    /\ lost = << >>
    /\ receiver = "header"
    /\ need = HeaderLength
    /\ buffer = << >>
    /\ sent = << >>
    /\ received = << >>

-----------------------------------------------------------------------------
(* smart_send_msg                                                          *)

\* The message is handed over: the last one has been answered.
Send(m) ==
    /\ sender = "idle"
    /\ received = sent
    /\ Len(sent) < MaxSent
    /\ sent' = Append(sent, m)
    /\ unsent' = BigEndian(Len(m))
    /\ sender' = "header"
    /\ UNCHANGED <<wire, lost, receiverVars>>

\* send takes as much as the connection has room for, or less.
Write(n) ==
    /\ sender \in {"header", "payload"}
    /\ n \in 1 .. Len(unsent)
    /\ Len(wire) + n <= Window
    /\ wire' = wire \o SubSeq(unsent, 1, n)
    /\ unsent' = SubSeq(unsent, n + 1, Len(unsent))
    /\ UNCHANGED <<sender, sent, lost, receiverVars>>

\* Variant: one call of send is taken to be enough.
SomeWritten == Len(unsent) < HeaderLength

\* The loop of smart_send_all ends.
AllWritten == unsent = << >>

\* The header is out: the second smart_send_all.
HeaderWritten ==
    /\ sender = "header"
    /\ AllWritten
    /\ sender' = "payload"
    /\ unsent' = Last(sent)
    /\ UNCHANGED <<sent, wire, lost, receiverVars>>

PayloadWritten ==
    /\ sender = "payload"
    /\ AllWritten
    /\ sender' = "idle"
    /\ unsent' = << >>
    /\ UNCHANGED <<sent, wire, lost, receiverVars>>

\* What of the current frame is not in the connection yet.
Left == IF sender = "header" THEN unsent \o Last(sent) ELSE unsent

\* The sender closes its end, because it dies, because send failed on a closed
\* connection or because it has nothing more to say.  What is on its way may
\* be lost with it.
SenderCloses ==
    /\ sender # "closed"
    /\ sender' = "closed"
    /\ unsent' = << >>
    /\ \E n \in 0 .. Len(wire) :
          /\ wire' = SubSeq(wire, 1, n)
          /\ lost' = SubSeq(wire, n + 1, Len(wire)) \o Left
    /\ UNCHANGED <<sent, receiverVars>>

-----------------------------------------------------------------------------
(* smart_recv_msg                                                          *)

\* recv gives what is there, or less, but never more than was asked for.
Read(n) ==
    /\ receiver \in {"header", "payload"}
    /\ n \in 1 .. Len(wire)
    /\ n <= need - Len(buffer)
    /\ buffer' = buffer \o SubSeq(wire, 1, n)
    /\ wire' = SubSeq(wire, n + 1, Len(wire))
    /\ UNCHANGED <<senderVars, lost, receiver, need, received>>

\* Variant: one call of recv is taken to be enough for the message.
SomeRead ==
    IF receiver = "header" THEN Len(buffer) = need
                           ELSE need > 0 => Len(buffer) > 0

\* The loop of smart_recv_exact ends.
AllRead == Len(buffer) = need

HeaderRead ==
    /\ receiver = "header"
    /\ AllRead
    /\ receiver' = "payload"
    /\ need' = LengthOf(buffer)
    /\ buffer' = << >>
    /\ UNCHANGED <<senderVars, wire, lost, received>>

\* The message is handed out; the next one is waited for.
Deliver ==
    /\ receiver = "payload"
    /\ AllRead
    /\ received' = Append(received, buffer)
    /\ receiver' = "header"
    /\ need' = HeaderLength
    /\ buffer' = << >>
    /\ UNCHANGED <<senderVars, wire, lost>>

\* Variant: only an error counts as the end (chunk < 0).
ReadFailsOnError ==
    /\ receiver \in {"header", "payload"}
    /\ ~AllRead
    /\ wire = << >>
    /\ ReceiverTimeout
    /\ receiver' = "closed"
    /\ UNCHANGED <<senderVars, wire, lost, need, buffer, received>>

\* recv returns 0 or an error: the caller gives the connection up.
ReadFails ==
    /\ receiver \in {"header", "payload"}
    /\ ~AllRead
    /\ wire = << >>
    /\ sender = "closed" \/ ReceiverTimeout
    /\ receiver' = "closed"
    /\ UNCHANGED <<senderVars, wire, lost, need, buffer, received>>

\* The receiver's process dies.
ReceiverDies ==
    /\ receiver # "closed"
    /\ receiver' = "closed"
    /\ UNCHANGED <<senderVars, wire, lost, need, buffer, received>>

-----------------------------------------------------------------------------
SendLoop == (\E n \in 1 .. Window : Write(n)) \/ HeaderWritten \/ PayloadWritten
RecvLoop == (\E n \in 1 .. Window : Read(n)) \/ HeaderRead \/ Deliver

\* Both ends closed: nothing is left to do.
Over == sender = "closed" /\ receiver = "closed" /\ UNCHANGED vars

Next ==
    \/ \E m \in Messages : Send(m)
    \/ SendLoop
    \/ SenderCloses
    \/ RecvLoop
    \/ ReadFails
    \/ ReceiverDies
    \/ Over

Spec == Init /\ [][Next]_vars

\* A connection that is open carries what is handed to it; recv reports the
\* end of a connection that is closed.  Nothing is assumed of ends that close.
Fairness == WF_vars(SendLoop) /\ WF_vars(RecvLoop) /\ WF_vars(ReadFails)

FairSpec == Spec /\ Fairness

-----------------------------------------------------------------------------
(* What must hold                                                          *)

TypeOK ==
    /\ sender \in {"idle", "header", "payload", "closed"}
    /\ receiver \in {"header", "payload", "closed"}
    /\ unsent \in Seq(Byte)
    /\ wire \in Seq(Byte)
    /\ lost \in Seq(Byte)
    /\ buffer \in Seq(Byte)
    /\ need \in Lengths
    /\ sent \in Seq(Messages)
    /\ received \in Seq(Messages)

Channel == INSTANCE MessageChannel

\* However send and recv cut the stream, and whoever dies in the middle of a
\* message, what smart_recv_msg hands out are the messages that were sent,
\* whole and in order; the end of a connection never passes for a message.
ChannelSpec == Channel!Spec

\* A message arrives unless one of the two ends closes: no call of
\* smart_recv_exact waits for bytes that smart_send_all does not send.
MessageArrives ==
    \A k \in 1 .. MaxSent :
        Len(sent) = k ~> \/ Len(received) >= k
                         \/ sender = "closed"
                         \/ receiver = "closed"

\* Who waits for a message of a program that has gone notices it, in the
\* middle of a frame or between two.
EndIsNoticed == sender = "closed" ~> receiver = "closed"
=============================================================================
