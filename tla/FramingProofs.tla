--------------------------- MODULE FramingProofs ---------------------------
(***************************************************************************)
(* Proofs about Framing, for any messages and any window: it implements    *)
(* MessageChannel.                                                         *)
(*                                                                         *)
(* The argument is that of a pipe: what the receiver holds of the current  *)
(* frame, what is on its way, what is lost and what is still to be sent    *)
(* make up that frame, in this order, at every moment.                     *)
(***************************************************************************)
EXTENDS Framing, SequenceTheorems, TLAPS

\* What the receiver holds of the current frame.
Held == IF receiver = "payload" THEN BigEndian(need) \o buffer ELSE buffer

Pipe == Held \o (wire \o (lost \o Left))

\* The facts about each end that the argument needs.
Ends ==
    /\ sender # "closed" => lost = << >>
    /\ sender = "closed" => unsent = << >>
    /\ sender \in {"header", "payload"} => sent # << >>
    /\ receiver = "header" => need = HeaderLength
    /\ Len(buffer) <= need

\* One message at most has been sent and not received.
History == received = sent \/ \E m \in Messages : sent = Append(received, m)

PipeHolds ==
    receiver # "closed" =>
        IF received = sent THEN receiver = "header" /\ Pipe = << >>
                           ELSE Pipe = Frame(Last(sent))

FramingInv == TypeOK /\ Ends /\ History /\ PipeHolds

-----------------------------------------------------------------------------
(* Lengths and pieces                                                      *)

LEMMA LastByte == \A n \in Nat :
    /\ n \div 256 \in Nat
    /\ n % 256 \in Byte
    /\ n = (n % 256) + 256 * (n \div 256)
  BY SMT DEF Byte

LEMMA LengthRoundTrip == \A n \in Lengths :
    /\ BigEndian(n) \in Seq(Byte)
    /\ Len(BigEndian(n)) = HeaderLength
    /\ LengthOf(BigEndian(n)) = n
<1> TAKE n \in Lengths
<1>1. n \in Nat /\ n < 127 * 256 * 256 * 256
  BY DEF Lengths
<1>2. PICK three \in Nat :
         /\ three = n \div 256
         /\ n % 256 \in Byte /\ n = (n % 256) + 256 * three
  BY <1>1, LastByte
<1>3. PICK two \in Nat :
         /\ two = three \div 256
         /\ three % 256 \in Byte /\ three = (three % 256) + 256 * two
  BY LastByte
<1>4. PICK one \in Nat :
         /\ one = two \div 256
         /\ two % 256 \in Byte /\ two = (two % 256) + 256 * one
  BY LastByte
<1>5. BigEndian(n) = <<one, two % 256, three % 256, n % 256>>
  BY <1>2, <1>3, <1>4 DEF BigEndian
<1>6. one \in Byte
  BY <1>1, <1>2, <1>3, <1>4 DEF Byte
<1>7. Len(BigEndian(n)) = HeaderLength
  BY <1>5 DEF HeaderLength
<1>8. LengthOf(BigEndian(n)) = n
  BY <1>2, <1>3, <1>4, <1>5 DEF LengthOf
<1>9. BigEndian(n) \in Seq(Byte)
  BY <1>2, <1>3, <1>4, <1>5, <1>6
<1> QED
  BY <1>7, <1>8, <1>9

LEMMA Assoc == \A a, b, c \in Seq(Byte) : (a \o b) \o c = a \o (b \o c)
  OBVIOUS

LEMMA Join == \A a, b \in Seq(Byte) :
    /\ a \o b \in Seq(Byte)
    /\ a \o b = << >> <=> a = << >> /\ b = << >>
    /\ << >> \o a = a
    /\ a \o << >> = a
  OBVIOUS

LEMMA EmptyBytes == << >> \in Seq(Byte)
  OBVIOUS

LEMMA Cancel == \A a, b, c \in Seq(Byte) : a \o b = a \o c => b = c
  BY ConcatSimplifications, Zenon

\* What SubSeq cuts in two makes up the whole.
LEMMA Cut == \A s \in Seq(Byte) : \A n \in 0 .. Len(s) :
    /\ SubSeq(s, 1, n) \in Seq(Byte)
    /\ SubSeq(s, n + 1, Len(s)) \in Seq(Byte)
    /\ Len(SubSeq(s, 1, n)) = n
    /\ SubSeq(s, 1, n) \o SubSeq(s, n + 1, Len(s)) = s
<1> TAKE s \in Seq(Byte)
<1> TAKE n \in 0 .. Len(s)
<1>1. SubSeq(s, 1, n) \in Seq(Byte) /\ Len(SubSeq(s, 1, n)) = n
  OBVIOUS
<1>2. SubSeq(s, n + 1, Len(s)) \in Seq(Byte)
  OBVIOUS
<1>3. SubSeq(s, 1, n) \o SubSeq(s, n + 1, Len(s)) = s
  <2>1. 1 \in 1 .. Len(s) + 1 /\ n \in 1 - 1 .. Len(s) /\ Len(s) \in n .. Len(s)
    OBVIOUS
  <2>2. SubSeq(s, 1, n) \o SubSeq(s, n + 1, Len(s)) = SubSeq(s, 1, Len(s))
    BY <2>1, ConcatAdjacentSubSeq, Zenon
  <2> QED
    BY <2>2, SubSeqFull, Zenon
<1> QED
  BY <1>1, <1>2, <1>3

\* Moving the beginning of the second of three parts to the first.
LEMMA Move ==
  ASSUME NEW a \in Seq(Byte), NEW b \in Seq(Byte), NEW c \in Seq(Byte),
         NEW n \in 0 .. Len(b)
  PROVE  (a \o SubSeq(b, 1, n)) \o (SubSeq(b, n + 1, Len(b)) \o c)
            = a \o (b \o c)
<1>1. PICK f, r \in Seq(Byte) :
        f = SubSeq(b, 1, n) /\ r = SubSeq(b, n + 1, Len(b)) /\ f \o r = b
  BY Cut
<1>2. PICK w \in Seq(Byte) : w = r \o c
  BY Join
<1>3. (a \o f) \o w = a \o (f \o w)
  BY Assoc, ZenonT(60)
<1>4. f \o (r \o c) = (f \o r) \o c
  BY Assoc
<1> QED
  BY <1>1, <1>2, <1>3, <1>4

\* Two ways to cut a sequence in two, the first parts equally long, are one.
LEMMA SameCut == \A a, b, c, d \in Seq(Byte) :
    Len(a) = Len(c) /\ a \o b = c \o d => a = c /\ b = d
<1> TAKE a, b, c, d \in Seq(Byte)
<1> HAVE Len(a) = Len(c) /\ a \o b = c \o d
<1>1. a = c
  OBVIOUS
<1> QED
  BY <1>1, Cancel

LEMMA FrameType == \A m \in Messages :
    /\ m \in Seq(Byte)
    /\ Len(m) \in Lengths
    /\ Frame(m) \in Seq(Byte)
    /\ Frame(m) # << >>
<1> TAKE m \in Messages
<1>1. m \in Seq(Byte) /\ Len(m) \in Lengths
  BY MessagesAssumption
<1>2. BigEndian(Len(m)) \in Seq(Byte) /\ Len(BigEndian(Len(m))) = 4
  BY <1>1, LengthRoundTrip DEF HeaderLength
<1>3. BigEndian(Len(m)) # << >>
  BY <1>2
<1> QED
  BY <1>1, <1>2, <1>3, Join DEF Frame

LEMMA LastSent ==
  ASSUME TypeOK, sent # << >>
  PROVE  Last(sent) \in Messages
  BY DEF TypeOK, Last

\* While a message is on its way it is the last one sent.
LEMMA Current ==
  ASSUME TypeOK, NEW m \in Messages, sent = Append(received, m)
  PROVE  /\ Last(sent) = m
         /\ sent # << >>
         /\ sent # received
         /\ Len(sent) = Len(received) + 1
         /\ sent[Len(received) + 1] = m
  BY DEF TypeOK, Last

LEMMA PipeTypes ==
  ASSUME TypeOK, Ends
  PROVE  /\ Held \in Seq(Byte)
         /\ Left \in Seq(Byte)
         /\ lost \o Left \in Seq(Byte)
         /\ wire \o (lost \o Left) \in Seq(Byte)
<1>1. Held \in Seq(Byte)
  <2>1. BigEndian(need) \in Seq(Byte)
    BY LengthRoundTrip DEF TypeOK
  <2> QED
    BY <2>1, Join DEF TypeOK, Held
<1>2. Left \in Seq(Byte)
  <2>1. CASE sender = "header"
    <3>1. Last(sent) \in Seq(Byte)
      BY <2>1, LastSent, FrameType DEF Ends
    <3> QED
      BY <2>1, <3>1, Join DEF Left, TypeOK
  <2>2. CASE sender # "header"
    BY <2>2 DEF Left, TypeOK
  <2> QED
    BY <2>1, <2>2
<1>3. lost \o Left \in Seq(Byte)
  BY <1>2, Join DEF TypeOK
<1> QED
  BY <1>1, <1>2, <1>3, Join DEF TypeOK

\* Between two messages the pipe is empty.
LEMMA EmptyPipe ==
  ASSUME FramingInv, received = sent, receiver # "closed"
  PROVE  /\ receiver = "header"
         /\ buffer = << >> /\ wire = << >> /\ lost = << >> /\ Left = << >>
<1>1. /\ Held \in Seq(Byte)
      /\ Left \in Seq(Byte)
      /\ lost \o Left \in Seq(Byte)
      /\ wire \o (lost \o Left) \in Seq(Byte)
  BY PipeTypes DEF FramingInv
<1>2. wire \in Seq(Byte) /\ lost \in Seq(Byte)
  BY DEF FramingInv, TypeOK
<1>3. Pipe = << >> /\ receiver = "header"
  BY DEF FramingInv, PipeHolds
<1>4. Held = << >> /\ wire \o (lost \o Left) = << >>
  BY <1>1, <1>3, Join DEF Pipe
<1>5. wire = << >> /\ lost \o Left = << >>
  BY <1>1, <1>2, <1>4, Join
<1>6. lost = << >> /\ Left = << >>
  BY <1>1, <1>2, <1>5, Join
<1> QED
  BY <1>3, <1>4, <1>5, <1>6 DEF Held

\* Otherwise the pipe holds the frame of the message on its way.
LEMMA FullPipe ==
  ASSUME FramingInv, received # sent, receiver # "closed"
  PROVE  \E m \in Messages :
            /\ sent = Append(received, m)
            /\ Last(sent) = m
            /\ Held \o (wire \o (lost \o Left)) = BigEndian(Len(m)) \o m
<1>1. PICK m \in Messages : sent = Append(received, m)
  BY DEF FramingInv, History
<1>2. Last(sent) = m
  BY <1>1, Current DEF FramingInv
<1> QED
  BY <1>1, <1>2 DEF FramingInv, PipeHolds, Pipe, Frame

-----------------------------------------------------------------------------
(* The steps                                                               *)

LEMMA InitHolds == Init => FramingInv
<1> SUFFICES ASSUME Init PROVE FramingInv
  OBVIOUS
<1>1. TypeOK
  BY DEF Init, TypeOK, HeaderLength, Lengths
<1>2. Ends
  BY DEF Init, Ends, HeaderLength
<1>3. Held = << >> /\ Left = << >>
  BY DEF Init, Held, Left
<1>4. PipeHolds
  BY <1>3, Join DEF Init, PipeHolds, Pipe
<1> QED
  BY <1>1, <1>2, <1>4 DEF FramingInv, History, Init

LEMMA SendStep ==
  ASSUME FramingInv, NEW m \in Messages, Send(m)
  PROVE  FramingInv'
<1>1. m \in Seq(Byte) /\ BigEndian(Len(m)) \in Seq(Byte)
  BY FrameType, LengthRoundTrip
<1>2. TypeOK'
  BY <1>1 DEF FramingInv, TypeOK, Send, receiverVars
<1>3. sent' = Append(received', m) /\ sent' # << >> /\ sent' # received'
      /\ Last(sent') = m
  <2>1. received' = received /\ sent' = Append(received, m)
    BY DEF Send, receiverVars
  <2>2. received \in Seq(Messages)
    BY DEF FramingInv, TypeOK
  <2> QED
    BY <2>1, <2>2 DEF Last
<1>4. Ends'
  BY <1>3 DEF FramingInv, Ends, Send, receiverVars
<1>5. PipeHolds'
  <2> SUFFICES ASSUME receiver' # "closed"
               PROVE  Pipe' = Frame(m)
    BY <1>3 DEF PipeHolds
  <2>1. received = sent /\ receiver # "closed"
    BY DEF Send, receiverVars
  <2>2. /\ receiver' = "header" /\ buffer' = << >>
        /\ wire' = << >> /\ lost' = << >>
    BY <2>1, EmptyPipe DEF Send, receiverVars
  <2>3. Left' = BigEndian(Len(m)) \o m /\ Held' = << >>
    BY <1>3, <2>2 DEF Send, Left, Held
  <2> QED
    BY <1>1, <2>2, <2>3, Join DEF Pipe, Frame
<1> QED
  BY <1>2, <1>3, <1>4, <1>5 DEF FramingInv, History

LEMMA WriteStep ==
  ASSUME FramingInv, NEW n, Write(n)
  PROVE  FramingInv'
<1> DEFINE first == SubSeq(unsent, 1, n)
           rest == SubSeq(unsent, n + 1, Len(unsent))
<1>1. unsent \in Seq(Byte) /\ n \in 0 .. Len(unsent)
  BY DEF FramingInv, TypeOK, Write
<1>2. first \in Seq(Byte) /\ rest \in Seq(Byte)
  BY <1>1, Cut
<1>3. TypeOK'
  BY <1>2, Join DEF FramingInv, TypeOK, Write, receiverVars
<1>4. Ends' /\ History'
  BY DEF FramingInv, Ends, History, Write, receiverVars
<1>5. lost = << >> /\ lost' = << >>
  BY DEF FramingInv, Ends, Write
<1>6. wire' \o (lost' \o Left') = wire \o (lost \o Left)
  <2>1. wire \in Seq(Byte) /\ Left \in Seq(Byte)
    BY PipeTypes DEF FramingInv, TypeOK
  <2>2. Left' \in Seq(Byte) /\ (wire \o first) \o Left' = wire \o Left
    <3>1. CASE sender = "header"
      <4>1. Last(sent) \in Seq(Byte)
        BY <3>1, LastSent, FrameType DEF FramingInv, Ends
      <4>2. Left = unsent \o Last(sent) /\ Left' = rest \o Last(sent)
        BY <3>1 DEF Left, Write
      <4>3. (wire \o first) \o (rest \o Last(sent))
                = wire \o (unsent \o Last(sent))
        BY <1>1, <2>1, <4>1, Move
      <4>4. rest \o Last(sent) \in Seq(Byte)
        BY <1>2, <4>1, Join
      <4> QED
        BY <4>2, <4>3, <4>4
    <3>2. CASE sender # "header"
      <4>1. Left = unsent /\ Left' = rest
        BY <3>2 DEF Left, Write
      <4>2. (wire \o first) \o rest = wire \o (first \o rest)
        BY <1>2, <2>1, Assoc
      <4>3. first \o rest = unsent
        BY <1>1, Cut
      <4> QED
        BY <1>2, <4>1, <4>2, <4>3
    <3> QED
      BY <3>1, <3>2
  <2>3. lost' \o Left' = Left' /\ lost \o Left = Left
    BY <1>5, <2>1, Join
  <2> QED
    BY <2>2, <2>3 DEF Write
<1>7. Held' = Held
  BY DEF Held, Write, receiverVars
<1>8. PipeHolds'
  BY <1>6, <1>7 DEF FramingInv, PipeHolds, Pipe, Write, receiverVars
<1> QED
  BY <1>3, <1>4, <1>8 DEF FramingInv

LEMMA WrittenStep ==
  ASSUME FramingInv, HeaderWritten \/ PayloadWritten
  PROVE  FramingInv'
<1>1. sent # << >> /\ lost' = << >> /\ lost = << >>
  BY DEF FramingInv, Ends, HeaderWritten, PayloadWritten
<1>2. Last(sent) \in Seq(Byte)
  BY <1>1, LastSent, FrameType DEF FramingInv
<1>3. TypeOK'
  <2>1. unsent' \in Seq(Byte)
    BY <1>2, EmptyBytes DEF HeaderWritten, PayloadWritten
  <2> QED
    BY <2>1 DEF FramingInv, TypeOK, HeaderWritten, PayloadWritten, receiverVars
<1>4. Ends' /\ History'
  BY <1>1 DEF FramingInv, Ends, History, HeaderWritten, PayloadWritten,
              receiverVars
<1>5. Left' = Left
  BY <1>2, Join DEF HeaderWritten, PayloadWritten, AllWritten, Left
<1>6. PipeHolds'
  BY <1>5 DEF FramingInv, PipeHolds, Pipe, Held, HeaderWritten,
              PayloadWritten, receiverVars
<1> QED
  BY <1>3, <1>4, <1>6 DEF FramingInv

LEMMA SenderClosesStep ==
  ASSUME FramingInv, SenderCloses
  PROVE  FramingInv'
<1>1. PICK n \in 0 .. Len(wire) :
         /\ wire' = SubSeq(wire, 1, n)
         /\ lost' = SubSeq(wire, n + 1, Len(wire)) \o Left
  BY DEF SenderCloses
<1> DEFINE rest == SubSeq(wire, n + 1, Len(wire))
<1>2. wire \in Seq(Byte) /\ Left \in Seq(Byte)
  BY PipeTypes DEF FramingInv, TypeOK
<1>3. wire' \in Seq(Byte) /\ rest \in Seq(Byte) /\ wire' \o rest = wire
  BY <1>1, <1>2, Cut
<1>4. lost' \in Seq(Byte)
  BY <1>1, <1>2, <1>3, Join
<1>5. TypeOK'
  <2>1. unsent' \in Seq(Byte)
    BY EmptyBytes DEF SenderCloses
  <2> QED
    BY <1>3, <1>4, <2>1 DEF FramingInv, TypeOK, SenderCloses, receiverVars
<1>6. Ends' /\ History'
  BY DEF FramingInv, Ends, History, SenderCloses, receiverVars
<1>7. wire' \o (lost' \o Left') = wire \o (lost \o Left)
  <2>1. Left' = << >> /\ lost = << >>
    BY DEF SenderCloses, Left, FramingInv, Ends
  <2>2. lost' \o Left' = rest \o Left /\ lost \o Left = Left
    BY <1>1, <1>2, <1>4, <2>1, Join
  <2>3. wire' \o (rest \o Left) = (wire' \o rest) \o Left
    BY <1>2, <1>3, Assoc
  <2> QED
    BY <1>3, <2>2, <2>3
<1>8. Held' = Held
  BY DEF Held, SenderCloses, receiverVars
<1>9. PipeHolds'
  BY <1>7, <1>8 DEF FramingInv, PipeHolds, Pipe, SenderCloses, receiverVars
<1> QED
  BY <1>5, <1>6, <1>9 DEF FramingInv

LEMMA ReadStep ==
  ASSUME FramingInv, NEW n, Read(n)
  PROVE  FramingInv'
<1> DEFINE first == SubSeq(wire, 1, n)
           rest == SubSeq(wire, n + 1, Len(wire))
           others == lost \o Left
<1>1. wire \in Seq(Byte) /\ n \in 0 .. Len(wire) /\ buffer \in Seq(Byte)
  BY DEF FramingInv, TypeOK, Read
<1>2. first \in Seq(Byte) /\ rest \in Seq(Byte) /\ Len(first) = n
  BY <1>1, Cut
<1>3. TypeOK'
  BY <1>2, Join DEF FramingInv, TypeOK, Read, senderVars
<1>4. Ends' /\ History'
  <2>1. Len(buffer') = Len(buffer) + n
    BY <1>1, <1>2 DEF Read
  <2>2. Len(buffer') <= need'
    BY <1>1, <2>1 DEF Read, FramingInv, TypeOK, Lengths
  <2> QED
    BY <2>2 DEF FramingInv, Ends, History, Read, senderVars
<1>5. Held \in Seq(Byte) /\ others \in Seq(Byte)
  BY PipeTypes DEF FramingInv
<1>6. lost' \o Left' = others
  BY DEF Read, senderVars, Left
<1>7. Held' = Held \o first
  <2>1. BigEndian(need) \in Seq(Byte)
    BY LengthRoundTrip DEF FramingInv, TypeOK
  <2>2. (BigEndian(need) \o buffer) \o first = BigEndian(need) \o (buffer \o first)
    BY <1>1, <1>2, <2>1, Assoc
  <2> QED
    BY <2>2 DEF Held, Read
<1>8. Pipe' = Pipe
  <2>1. (Held \o first) \o (rest \o others) = Held \o (wire \o others)
    BY <1>1, <1>5, Move
  <2> QED
    BY <1>6, <1>7, <2>1 DEF Pipe, Read
<1>9. PipeHolds'
  BY <1>8 DEF FramingInv, PipeHolds, Read, senderVars
<1> QED
  BY <1>3, <1>4, <1>9 DEF FramingInv

\* Who has read the four bytes has read the length of the message on its way.
LEMMA HeaderReadStep ==
  ASSUME FramingInv, HeaderRead
  PROVE  FramingInv'
<1> DEFINE others == wire \o (lost \o Left)
<1>1. receiver = "header" /\ Len(buffer) = 4 /\ Held = buffer
  BY DEF FramingInv, Ends, HeaderRead, AllRead, HeaderLength, Held
<1>2. received # sent
  BY <1>1, EmptyPipe
<1>3. PICK m \in Messages :
        sent = Append(received, m) /\ Held \o others = BigEndian(Len(m)) \o m
  BY <1>1, <1>2, FullPipe
<1>4. /\ BigEndian(Len(m)) \in Seq(Byte)
      /\ Len(BigEndian(Len(m))) = 4
      /\ LengthOf(BigEndian(Len(m))) = Len(m)
      /\ m \in Seq(Byte)
      /\ Len(m) \in Lengths
  BY LengthRoundTrip, FrameType DEF HeaderLength
<1>5. Held \in Seq(Byte) /\ others \in Seq(Byte)
  BY PipeTypes DEF FramingInv
<1>6. Held = BigEndian(Len(m))
  BY <1>1, <1>3, <1>4, <1>5, SameCut
<1>7. need' = Len(m)
  BY <1>1, <1>4, <1>6 DEF HeaderRead
<1>8. TypeOK'
  BY <1>4, <1>7 DEF FramingInv, TypeOK, HeaderRead, senderVars
<1>9. Ends' /\ History'
  BY <1>4, <1>7 DEF FramingInv, Ends, History, HeaderRead, senderVars, Lengths
<1>10. Held' = Held
  BY <1>4, <1>6, <1>7, Join DEF Held, HeaderRead
<1>11. PipeHolds'
  BY <1>2, <1>10 DEF FramingInv, PipeHolds, Pipe, HeaderRead, senderVars, Left
<1> QED
  BY <1>8, <1>9, <1>11 DEF FramingInv

\* What smart_recv_msg hands out is the message on its way.
LEMMA Delivered ==
  ASSUME FramingInv, Deliver
  PROVE  /\ \E m \in Messages : sent = Append(received, m) /\ buffer = m
         /\ wire \o (lost \o Left) = << >>
<1> DEFINE others == wire \o (lost \o Left)
<1>1. /\ receiver = "payload"
      /\ Len(buffer) = need
      /\ Held = BigEndian(need) \o buffer
  BY DEF Deliver, AllRead, Held
<1>2. received # sent
  BY <1>1, EmptyPipe
<1>3. PICK m \in Messages :
        sent = Append(received, m) /\ Held \o others = BigEndian(Len(m)) \o m
  BY <1>1, <1>2, FullPipe
<1>4. /\ BigEndian(Len(m)) \in Seq(Byte) /\ BigEndian(need) \in Seq(Byte)
      /\ Len(BigEndian(Len(m))) = 4 /\ Len(BigEndian(need)) = 4
      /\ LengthOf(BigEndian(Len(m))) = Len(m)
      /\ LengthOf(BigEndian(need)) = need
      /\ m \in Seq(Byte)
  BY LengthRoundTrip, FrameType DEF HeaderLength, FramingInv, TypeOK
<1>5. buffer \in Seq(Byte) /\ others \in Seq(Byte)
  BY PipeTypes DEF FramingInv, TypeOK
<1>6. BigEndian(need) \o (buffer \o others) = BigEndian(Len(m)) \o m
  BY <1>1, <1>3, <1>4, <1>5, Assoc
<1>7. BigEndian(need) = BigEndian(Len(m)) /\ buffer \o others = m
  <2>1. PICK t \in Seq(Byte) : t = buffer \o others
    BY <1>5, Join
  <2>2. PICK a, c \in Seq(Byte) :
           a = BigEndian(need) /\ c = BigEndian(Len(m)) /\ Len(a) = Len(c)
    BY <1>4
  <2>3. a \o t = c \o m
    BY <1>6, <2>1, <2>2
  <2>4. Len(a) = Len(c) /\ a \o t = c \o m => a = c /\ t = m
    BY <1>4, SameCut, ZenonT(60)
  <2> QED
    BY <2>1, <2>2, <2>3, <2>4
<1>8. Len(buffer) = Len(m)
  BY <1>1, <1>4, <1>7
<1>9. m \o << >> = m /\ << >> \in Seq(Byte)
  BY <1>4, Join
<1>10. buffer = m /\ others = << >>
  BY <1>4, <1>5, <1>7, <1>8, <1>9, SameCut
<1> QED
  BY <1>3, <1>10

LEMMA DeliverStep ==
  ASSUME FramingInv, Deliver
  PROVE  FramingInv'
<1>1. PICK m \in Messages : sent = Append(received, m) /\ buffer = m
  BY Delivered
<1>2. wire \o (lost \o Left) = << >>
  BY Delivered
<1>3. received' = sent'
  BY <1>1 DEF Deliver, senderVars
<1>4. TypeOK'
  BY <1>3 DEF FramingInv, TypeOK, Deliver, senderVars, HeaderLength, Lengths
<1>5. Ends'
  BY DEF FramingInv, Ends, Deliver, senderVars, HeaderLength
<1>6. PipeHolds'
  <2>1. Held' = << >> /\ receiver' = "header"
    BY DEF Held, Deliver
  <2>2. wire' \o (lost' \o Left') = << >>
    BY <1>2 DEF Deliver, senderVars, Left
  <2> QED
    BY <1>3, <2>1, <2>2, Join DEF PipeHolds, Pipe
<1> QED
  BY <1>3, <1>4, <1>5, <1>6 DEF FramingInv, History

LEMMA ClosingStep ==
  ASSUME FramingInv, ReadFails \/ ReceiverDies \/ UNCHANGED vars
  PROVE  FramingInv'
<1>1. TypeOK' /\ Ends' /\ History'
  BY DEF FramingInv, TypeOK, Ends, History, ReadFails, ReceiverDies, vars,
         senderVars, receiverVars
<1>2. PipeHolds'
  BY DEF FramingInv, PipeHolds, Pipe, Held, Left, ReadFails, ReceiverDies,
         vars, senderVars, receiverVars
<1> QED
  BY <1>1, <1>2 DEF FramingInv

LEMMA StepHolds == FramingInv /\ [Next]_vars => FramingInv'
  BY SendStep, WriteStep, WrittenStep, SenderClosesStep, ReadStep,
     HeaderReadStep, DeliverStep, ClosingStep
  DEF Next, SendLoop, RecvLoop, Over

-----------------------------------------------------------------------------
(* The theorems                                                            *)

LEMMA InvHolds == Spec => []FramingInv
  BY InitHolds, StepHolds, PTL DEF Spec

\* The length read from a header is never other than that of a message, and
\* what is handed out is a message.
THEOREM TypeCorrect == Spec => []TypeOK
<1>1. FramingInv => TypeOK
  BY DEF FramingInv
<1> QED
  BY <1>1, InvHolds, PTL

\* However send and recv cut the stream and whoever dies in between, messages
\* arrive whole, unchanged, each once, in the order they were sent.
THEOREM ImplementsChannel == Spec => ChannelSpec
<1>1. Init => Channel!Init
  BY DEF Init, Channel!Init
<1>2. FramingInv /\ [Next]_vars => [Channel!Next]_<<sent, received>>
  <2> SUFFICES ASSUME FramingInv, [Next]_vars
               PROVE  [Channel!Next]_<<sent, received>>
    OBVIOUS
  <2>1. CASE \E m \in Messages : Send(m)
    BY <2>1 DEF Send, receiverVars, Channel!Next, Channel!Send
  <2>2. CASE Deliver
    <3>1. PICK m \in Messages : sent = Append(received, m) /\ buffer = m
      BY <2>2, Delivered
    <3>2. Len(received) < Len(sent) /\ sent[Len(received) + 1] = m
      BY <3>1 DEF FramingInv, TypeOK
    <3> QED
      BY <2>2, <3>1, <3>2
      DEF Deliver, senderVars, Channel!Next, Channel!Deliver
  <2>3. CASE ~(\E m \in Messages : Send(m)) /\ ~Deliver
    BY <2>3 DEF Next, SendLoop, RecvLoop, Over, vars, senderVars, receiverVars,
                Write, HeaderWritten, PayloadWritten, SenderCloses, Read,
                HeaderRead, ReadFails, ReceiverDies
  <2> QED
    BY <2>1, <2>2, <2>3
<1> QED
  BY <1>1, <1>2, InvHolds, PTL DEF Spec, ChannelSpec, Channel!Spec
=============================================================================
