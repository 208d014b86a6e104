-------------------------- MODULE PacketStreamProofs --------------------------
(***************************************************************************)
(* Theorems about the encrypted packet channel, for every ring size, byte  *)
(* width, packet limit and set of bodies: its types, the input ring, the   *)
(* sender, the receiver, and that the two implement a FIFO channel.        *)
(***************************************************************************)
EXTENDS PacketStream, SequenceTheorems, FiniteSetTheorems,
        WellFoundedInduction, TLAPS

-----------------------------------------------------------------------------
(* The arithmetic of the input ring                                        *)

(* Moving an index less than a full turn either stays below the end of the *)
(* array or wraps once.                                                    *)
LEMMA AdvanceValue ==
    ASSUME NEW i \in Index, NEW n \in 0 .. INPUT_BUFFER_SIZE
    PROVE  /\ Advance(i, n) = IF i + n < INPUT_BUFFER_SIZE
                                THEN i + n ELSE i + n - INPUT_BUFFER_SIZE
           /\ Advance(i, n) \in Index
BY RingSizeAssumption DEF Advance, Index

(* The number of unread bytes is at most one less than the ring.           *)
LEMMA AvailableRange ==
    ASSUME NEW head \in Index, NEW tail \in Index
    PROVE  Available(head, tail) \in 0 .. INPUT_BUFFER_SIZE - 1
BY RingSizeAssumption DEF Available, Index

(* With the tail one cell behind the head the ring holds nothing.          *)
LEMMA EmptyRing ==
    ASSUME NEW head \in Index
    PROVE  Available(head, Advance(head, INPUT_BUFFER_SIZE - 1)) = 0
<1> DEFINE n == INPUT_BUFFER_SIZE - 1
<1>1. n \in 0 .. INPUT_BUFFER_SIZE
  BY RingSizeAssumption
<1>2. Advance(head, n) = IF head + n < INPUT_BUFFER_SIZE
                           THEN head + n ELSE head + n - INPUT_BUFFER_SIZE
  BY <1>1, AdvanceValue
<1>3. QED
  BY <1>2, RingSizeAssumption DEF Available, Index

(* A recv() that stays within the contiguous space adds exactly its bytes  *)
(* to the unread ones: it never reaches the tail.                          *)
LEMMA FillAvailable ==
    ASSUME NEW head \in Index, NEW tail \in Index,
           NEW n \in 0 .. FillSize(head, tail)
    PROVE  /\ head + n <= INPUT_BUFFER_SIZE
           /\ Advance(head, n) \in Index
           /\ Available(Advance(head, n), tail) = Available(head, tail) + n
<1>1. FillSize(head, tail) \in 0 .. INPUT_BUFFER_SIZE
  BY RingSizeAssumption DEF FillSize, Index
<1>2. n \in 0 .. INPUT_BUFFER_SIZE
  BY <1>1, RingSizeAssumption
<1>3. /\ Advance(head, n) = IF head + n < INPUT_BUFFER_SIZE
                               THEN head + n ELSE head + n - INPUT_BUFFER_SIZE
      /\ Advance(head, n) \in Index
  BY <1>2, AdvanceValue
<1>4. QED
  BY <1>3, RingSizeAssumption DEF FillSize, Available, Index

(* The bytes of a recv() land behind the unread ones, in order.            *)
LEMMA FillCells ==
    ASSUME NEW head \in Index, NEW tail \in Index,
           NEW n \in 0 .. FillSize(head, tail),
           NEW i \in 1 .. Available(head, tail) + n
    PROVE  LET avail == Available(head, tail) IN
             /\ i <= avail => Advance(tail, i) \notin head .. head + n - 1
             /\ i > avail  => Advance(tail, i) = head + (i - avail) - 1
<1>1. /\ Available(head, tail) + n \in 0 .. INPUT_BUFFER_SIZE - 1
      /\ head + n <= INPUT_BUFFER_SIZE
  <2>1. Available(Advance(head, n), tail) \in 0 .. INPUT_BUFFER_SIZE - 1
    BY FillAvailable, AvailableRange
  <2>2. QED BY <2>1, FillAvailable
<1>2. i \in 0 .. INPUT_BUFFER_SIZE
  BY <1>1, RingSizeAssumption
<1>3. Advance(tail, i) = IF tail + i < INPUT_BUFFER_SIZE
                           THEN tail + i ELSE tail + i - INPUT_BUFFER_SIZE
  BY <1>2, AdvanceValue
<1>4. QED
  BY <1>1, <1>3, RingSizeAssumption DEF FillSize, Available, Index

(* Taking a byte: there is one exactly when the next cell is not the head, *)
(* it is the first unread one, and the others keep their places.           *)
LEMMA TakeAvailable ==
    ASSUME NEW head \in Index, NEW tail \in Index
    PROVE  LET next == Advance(tail, 1) IN
             /\ next \in Index
             /\ next = head  <=> Available(head, tail) = 0
             /\ next # head =>
                  /\ Available(head, next) = Available(head, tail) - 1
                  /\ \A i \in 1 .. Available(head, next) :
                       Advance(next, i) = Advance(tail, i + 1)
<1> DEFINE next == Advance(tail, 1)
<1>1. /\ next = IF tail + 1 < INPUT_BUFFER_SIZE
                  THEN tail + 1 ELSE tail + 1 - INPUT_BUFFER_SIZE
      /\ next \in Index
  BY AdvanceValue, RingSizeAssumption
<1> HIDE DEF next
<1>2. next = head <=> Available(head, tail) = 0
  BY <1>1, RingSizeAssumption DEF Available, Index
<1>3. ASSUME next # head
      PROVE  Available(head, next) = Available(head, tail) - 1
  BY <1>1, <1>3, RingSizeAssumption DEF Available, Index
<1>4. ASSUME NEW i \in 1 .. Available(head, next), next # head
      PROVE  Advance(next, i) = Advance(tail, i + 1)
  <2>1. i \in 0 .. INPUT_BUFFER_SIZE /\ i + 1 \in 0 .. INPUT_BUFFER_SIZE
    BY <1>1, AvailableRange, RingSizeAssumption
  <2>2. Advance(next, i) = IF next + i < INPUT_BUFFER_SIZE
                             THEN next + i ELSE next + i - INPUT_BUFFER_SIZE
    BY <2>1, <1>1, AdvanceValue
  <2>3. Advance(tail, i + 1) =
          IF tail + (i + 1) < INPUT_BUFFER_SIZE
            THEN tail + (i + 1) ELSE tail + (i + 1) - INPUT_BUFFER_SIZE
    BY <2>1, AdvanceValue
  <2>4. QED
    BY <1>1, <1>3, <1>4, <2>1, <2>2, <2>3, AvailableRange,
       RingSizeAssumption DEF Index, Available
<1>5. QED
  BY <1>1, <1>2, <1>3, <1>4 DEF next

-----------------------------------------------------------------------------
(* The operators on packets *)

(* A part of a sequence, in the form the steps below use it.               *)
LEMMA SubSeqType ==
    ASSUME NEW S, NEW s \in Seq(S),
           NEW m \in 1 .. Len(s) + 1, NEW n \in m - 1 .. Len(s)
    PROVE  /\ SubSeq(s, m, n) \in Seq(S)
           /\ Len(SubSeq(s, m, n)) = n - m + 1
           /\ \A i \in 1 .. n - m + 1 : SubSeq(s, m, n)[i] = s[m + i - 1]
<1>1. m \in Int /\ n \in Int /\ Len(s) \in Nat
  OBVIOUS
<1>2. \A i \in m .. n : s[i] \in S
  OBVIOUS
<1>3. QED BY <1>1, <1>2, SubSeqProperties

(* RC4 of a text is a text of the same length, byte for byte.              *)
LEMMA CryptType ==
    ASSUME NEW key \in Nat, NEW text \in Seq(Byte)
    PROVE  /\ Crypt(key, text) \in Seq(Byte)
           /\ Len(Crypt(key, text)) = Len(text)
<1>1. ASSUME NEW i \in 1 .. Len(text)
      PROVE  Rc4(key + i - 1, text[i]) \in Byte
  <2>1. (key + i - 1) % Period \in 0 .. Period - 1
    BY PadAssumption
  <2>2. text[i] \in Byte
    OBVIOUS
  <2>3. QED BY <2>1, <2>2, PadAssumption DEF Rc4
<1>2. Len(text) \in Nat
  OBVIOUS
<1>3. QED BY <1>1, <1>2 DEF Crypt

(* Encrypting twice at the same keystream position gives the text back.    *)
LEMMA CryptInverse ==
    ASSUME NEW key \in Nat, NEW text \in Seq(Byte)
    PROVE  Crypt(key, Crypt(key, text)) = text
<1>1. ASSUME NEW i \in 1 .. Len(text)
      PROVE  Rc4(key + i - 1, Rc4(key + i - 1, text[i])) = text[i]
  <2>1. (key + i - 1) % Period \in 0 .. Period - 1
    BY PadAssumption
  <2>2. text[i] \in Byte
    OBVIOUS
  <2>3. QED BY <2>1, <2>2, PadAssumption DEF Rc4
<1>2. /\ Crypt(key, text) \in Seq(Byte)
      /\ Len(Crypt(key, text)) = Len(text)
  BY CryptType
<1>3. \A i \in 1 .. Len(text) :
        Crypt(key, text)[i] = Rc4(key + i - 1, text[i])
  BY DEF Crypt
<1>4. Crypt(key, Crypt(key, text)) =
        [i \in 1 .. Len(text) |-> Rc4(key + i - 1, Crypt(key, text)[i])]
  BY <1>2 DEF Crypt
<1>5. Crypt(key, Crypt(key, text)) = [i \in 1 .. Len(text) |-> text[i]]
  BY <1>1, <1>3, <1>4
<1>6. QED BY <1>5

(* The two header bytes are bytes, whatever the length they truncate.      *)
LEMMA HeaderType ==
    ASSUME NEW n \in Int
    PROVE  Header(n) \in Seq(Byte) /\ Len(Header(n)) = 2
<1>1. n % BYTE \in Byte
  BY ByteAssumption DEF Byte
<1>2. (n \div BYTE) \in Int
  BY ByteAssumption
<1>3. (n \div BYTE) % BYTE \in Byte
  BY <1>2, ByteAssumption DEF Byte
<1>4. QED BY <1>1, <1>3 DEF Header

(* What NextOutputPacket appends for a vector is two bytes and a body.     *)
LEMMA FramedType ==
    ASSUME NEW key \in Nat, NEW pkt \in Vectors, pkt # << >>
    PROVE  /\ Framed(key, pkt) \in Seq(Byte)
           /\ Len(Framed(key, pkt)) = Len(pkt)
           /\ BodySize(pkt) \in Nat
<1>1. pkt \in Seq(Byte) /\ Len(pkt) \in Nat /\ Len(pkt) >= 2
  BY DEF Vectors
<1>2. BodySize(pkt) \in Nat
  BY <1>1 DEF BodySize
<1>3. BodyOf(pkt) \in Seq(Byte) /\ Len(BodyOf(pkt)) = Len(pkt) - 2
  <2>1. 3 \in 1 .. Len(pkt) + 1 /\ Len(pkt) \in 3 - 1 .. Len(pkt)
    BY <1>1
  <2>2. /\ SubSeq(pkt, 3, Len(pkt)) \in Seq(Byte)
        /\ Len(SubSeq(pkt, 3, Len(pkt))) = Len(pkt) - 3 + 1
    BY <1>1, <2>1, SubSeqType
  <2>3. Len(pkt) - 3 + 1 = Len(pkt) - 2
    BY <1>1
  <2>4. QED BY <2>2, <2>3 DEF BodyOf
<1>4. /\ Crypt(key, BodyOf(pkt)) \in Seq(Byte)
      /\ Len(Crypt(key, BodyOf(pkt))) = Len(pkt) - 2
  BY <1>3, CryptType
<1>5. Header(BodySize(pkt)) \in Seq(Byte) /\ Len(Header(BodySize(pkt))) = 2
  BY <1>2, HeaderType
<1>6. /\ Framed(key, pkt) \in Seq(Byte)
      /\ Len(Framed(key, pkt)) =
           Len(Header(BodySize(pkt))) + Len(Crypt(key, BodyOf(pkt)))
  BY <1>4, <1>5, ConcatProperties DEF Framed
<1>7. QED BY <1>1, <1>2, <1>4, <1>5, <1>6

(* A composed body becomes a non-empty vector that holds it.               *)
LEMMA VectorType ==
    ASSUME NEW b \in Bodies
    PROVE  Vector(b) \in Vectors /\ Vector(b) # << >> /\ BodyOf(Vector(b)) = b
<1>1. b \in Seq(Byte) /\ Len(b) \in Nat
  BY BodiesAssumption
<1>2. <<0, 0>> \in Seq(Byte) /\ Len(<<0, 0>>) = 2
  BY ByteAssumption DEF Byte
<1>3. Vector(b) \in Seq(Byte) /\ Len(Vector(b)) = Len(b) + 2
  BY <1>1, <1>2 DEF Vector
<1>4. \A i \in 1 .. Len(b) : Vector(b)[i + 2] = b[i]
  BY <1>1, <1>2 DEF Vector
<1>5. BodyOf(Vector(b)) = b
  BY <1>1, <1>3, <1>4 DEF BodyOf
<1>6. QED BY <1>1, <1>3, <1>5 DEF Vectors

(* Two header bytes make a length below BYTE * BYTE, and so does one.      *)
LEMMA LengthRange ==
    ASSUME NEW b0 \in Byte, NEW b1 \in Byte
    PROVE  /\ b1 * BYTE + b0 \in 0 .. BYTE * BYTE - 1
           /\ b0 \in 0 .. BYTE * BYTE - 1
<1>1. b1 \in Int /\ b0 \in Int /\ BYTE \in Int /\ BYTE >= 2
      /\ 0 <= b1 /\ b1 <= BYTE - 1 /\ 0 <= b0 /\ b0 <= BYTE - 1
  BY ByteAssumption DEF Byte
<1>2. b1 * BYTE >= 0
  BY <1>1
<1>3. b1 * BYTE <= (BYTE - 1) * BYTE
  BY <1>1
<1>4. (BYTE - 1) * BYTE = BYTE * BYTE - BYTE
  BY <1>1
<1>5. b1 * BYTE \in Int /\ BYTE * BYTE \in Int
  BY <1>1
<1>6. (BYTE - 1) * BYTE >= 0
  BY <1>1
<1>7. QED BY <1>1, <1>2, <1>3, <1>4, <1>5, <1>6

-----------------------------------------------------------------------------
(* Type correctness *)

(* The types of the sender's variables, of the network's and of the        *)
(* receiver's hold for every value of the constants: the indices never     *)
(* leave the ring, and the received count never passes what was sent.      *)
THEOREM TypeCorrect == Spec => []TypeOK
<1>1. Init => TypeOK
  <2> SUFFICES ASSUME Init PROVE TypeOK
    OBVIOUS
  <2>1. 0 \in Byte
    BY ByteAssumption DEF Byte
  <2>2. HeadIndex \in Index /\ TailIndex \in Index
    BY StartAssumption, RingSizeAssumption, AdvanceValue DEF Init
  <2>3. 0 \in 0 .. BYTE * BYTE - 1
    BY <2>1, LengthRange
  <2>4. << >> \in Seq(Bodies) /\ << >> \in Seq(Vectors) /\ << >> \in Seq(Byte)
        /\ << >> \in Seq(Seq(Byte)) /\ Len(<< >>) = 0
    OBVIOUS
  <2>5. [i \in Index |-> 0] \in [Index -> Byte]
    BY <2>1
  <2>6. received \in 0 .. Len(stream)
    BY DEF Init
  <2>7. QED
    BY <2>2, <2>3, <2>4, <2>5, <2>6 DEF Init, TypeOK, ReadState
<1>2. TypeOK /\ [Next]_vars => TypeOK'
  <2> SUFFICES ASSUME TypeOK, [Next]_vars PROVE TypeOK'
    OBVIOUS
  <2> USE DEF TypeOK, senderVars, ringVars, packetVars, receiverVars
  <2>1. CASE ComposeOutput
    <3>1. PICK b \in Bodies : /\ composed' = Append(composed, b)
                              /\ OutputPackets' = Append(OutputPackets, Vector(b))
      BY <2>1 DEF ComposeOutput
    <3>2. composed' \in Seq(Bodies)
      BY <3>1
    <3>3. OutputPackets' \in Seq(Vectors)
      BY <3>1, VectorType
    <3>4. QED BY <2>1, <3>2, <3>3 DEF ComposeOutput
  <2>2. CASE ComposeEmpty
    <3>1. << >> \in Vectors
      BY DEF Vectors
    <3>2. OutputPackets' \in Seq(Vectors)
      BY <2>2, <3>1 DEF ComposeEmpty
    <3>3. QED BY <2>2, <3>2 DEF ComposeEmpty
  <2>3. CASE OnWrite
    BY <2>3 DEF OnWrite
  <2>4. CASE MergePacket
    <3>1. OutputPackets # << >>
      BY <2>4 DEF MergePacket, Merging
    <3>2. Head(OutputPackets) \in Vectors /\ OutputPackets' \in Seq(Vectors)
      BY <2>4, <3>1 DEF MergePacket
    <3>3. CurrentOutputPacket' \in Seq(Byte) /\ SendKey' \in Nat
      <4>1. CASE Head(OutputPackets) = << >>
        BY <2>4, <4>1 DEF MergePacket
      <4>2. CASE Head(OutputPackets) # << >>
        <5>1. /\ Framed(SendKey, Head(OutputPackets)) \in Seq(Byte)
              /\ BodySize(Head(OutputPackets)) \in Nat
          BY <3>2, <4>2, FramedType
        <5>2. /\ CurrentOutputPacket' =
                   CurrentOutputPacket \o Framed(SendKey, Head(OutputPackets))
              /\ SendKey' = SendKey + BodySize(Head(OutputPackets))
          BY <2>4, <4>2 DEF MergePacket
        <5>3. CurrentOutputPacket' \in Seq(Byte)
          BY <5>1, <5>2, ConcatProperties
        <5>4. QED BY <5>1, <5>2, <5>3
      <4>3. QED BY <4>1, <4>2
    <3>4. QED BY <2>4, <3>2, <3>3 DEF MergePacket
  <2>5. CASE EndMerge
    BY <2>5 DEF EndMerge
  <2>6. CASE SendSome
    <3> DEFINE left == Len(CurrentOutputPacket) - WritePtr
    <3>1. PICK n \in 1 .. Smaller(left, SocketBuffer - InFlight) :
            /\ stream' = stream \o
                 SubSeq(CurrentOutputPacket, WritePtr + 1, WritePtr + n)
            /\ IF n < left
                 THEN WritePtr' = WritePtr + n /\ UNCHANGED CurrentOutputPacket
                 ELSE WritePtr' = 0 /\ CurrentOutputPacket' = << >>
      BY <2>6 DEF SendSome, WritePtrAfter
    <3>2. n \in Nat /\ n >= 1 /\ n <= left /\ left \in Int
      BY SizeAssumption DEF Smaller, InFlight
    <3>3. /\ WritePtr + 1 \in 1 .. Len(CurrentOutputPacket) + 1
          /\ WritePtr + n \in (WritePtr + 1) - 1 .. Len(CurrentOutputPacket)
      BY <3>2
    <3>4. SubSeq(CurrentOutputPacket, WritePtr + 1, WritePtr + n) \in Seq(Byte)
      BY <3>3, SubSeqType
    <3>5. stream' \in Seq(Byte) /\ Len(stream') >= Len(stream)
      BY <3>1, <3>4, ConcatProperties
    <3>6. WritePtr' \in Nat /\ CurrentOutputPacket' \in Seq(Byte)
      <4>1. WritePtr + n \in Nat
        BY <3>2
      <4>2. CASE n < left
        BY <3>1, <4>1, <4>2
      <4>3. CASE ~(n < left)
        <5>1. WritePtr' = 0 /\ CurrentOutputPacket' = << >>
          BY <3>1, <4>3
        <5>2. QED BY <5>1
      <4>4. QED BY <4>2, <4>3
    <3>7. received \in 0 .. Len(stream')
      BY <3>5
    <3>8. QED BY <2>6, <3>5, <3>6, <3>7 DEF SendSome, WritePtrAfter
  <2>7. CASE SendInterrupted
    BY <2>7 DEF SendInterrupted
  <2>8. CASE SendFails
    BY <2>8 DEF SendFails
  <2>9. CASE Close
    BY <2>9 DEF Close
  <2>10. CASE Break
    BY <2>10 DEF Break
  <2>11. CASE OnRead
    BY <2>11 DEF OnRead
  <2>12. CASE FillSome
    <3> DEFINE size == FillSize(HeadIndex, TailIndex)
    <3>1. PICK n \in IF size = 0 THEN {0} ELSE 1 .. Smaller(size, InFlight) :
            /\ InputBuffer' = Filled(InputBuffer, HeadIndex, n,
                                 SubSeq(stream, received + 1, received + n))
            /\ HeadIndex' = Advance(HeadIndex, n)
            /\ received' = received + n
      BY <2>12 DEF FillSome
    <3>2. n \in 0 .. size /\ n <= InFlight
      BY RingSizeAssumption DEF Smaller, InFlight, FillSize, Index
    <3>3. HeadIndex' \in Index
      BY <3>1, <3>2, FillAvailable
    <3>4. received' \in 0 .. Len(stream)
      BY <3>1, <3>2 DEF InFlight
    <3>5. /\ SubSeq(stream, received + 1, received + n) \in Seq(Byte)
          /\ Len(SubSeq(stream, received + 1, received + n)) = n
      <4>1. /\ received + 1 \in 1 .. Len(stream) + 1
            /\ received + n \in (received + 1) - 1 .. Len(stream)
        BY <3>2 DEF InFlight
      <4>2. /\ SubSeq(stream, received + 1, received + n) \in Seq(Byte)
            /\ Len(SubSeq(stream, received + 1, received + n))
                 = (received + n) - (received + 1) + 1
        BY <4>1, SubSeqType
      <4>3. (received + n) - (received + 1) + 1 = n
        BY <3>2
      <4>4. QED BY <4>2, <4>3
    <3>6. InputBuffer' \in [Index -> Byte]
      <4> DEFINE data == SubSeq(stream, received + 1, received + n)
      <4>1. ASSUME NEW j \in Index, j \in HeadIndex .. HeadIndex + n - 1
            PROVE  data[j - HeadIndex + 1] \in Byte
        <5>1. j - HeadIndex + 1 \in 1 .. n
          BY <4>1, <3>2, RingSizeAssumption DEF Index
        <5>2. data \in Seq(Byte) /\ Len(data) = n
          BY <3>5
        <5> HIDE DEF data
        <5>3. QED BY <5>1, <5>2
      <4> HIDE DEF data
      <4>2. Filled(InputBuffer, HeadIndex, n, data) \in [Index -> Byte]
        BY <4>1 DEF Filled
      <4>3. QED BY <3>1, <4>2 DEF data
    <3>7. QED BY <2>12, <3>3, <3>4, <3>6 DEF FillSome
  <2>13. CASE FillWouldBlock
    BY <2>13 DEF FillWouldBlock
  <2>14. CASE FillEof
    BY <2>14 DEF FillEof
  <2>15. CASE FillError
    BY <2>15 DEF FillError
  <2>16. CASE MakePacketsWaits
    BY <2>16 DEF MakePacketsWaits
  <2> DEFINE next == Advance(TailIndex, 1)
  <2>17. next \in Index /\ InputBuffer[next] \in Byte
    BY TakeAvailable
  <2>18. CASE ReadHeader0
    <3>1. CurrentInputPacketLength' \in Byte
      BY <2>17, <2>18 DEF ReadHeader0, NextByte, NextTail
    <3>2. CurrentInputPacketLength' \in 0 .. BYTE * BYTE - 1
      BY <3>1, LengthRange
    <3>3. TailIndex' \in Index
      BY <2>17, <2>18 DEF ReadHeader0, NextTail
    <3>4. QED BY <2>18, <3>1, <3>2, <3>3 DEF ReadHeader0, ReadState
  <2>19. CASE ReadHeader1
    <3>1. CurrentInputPacketLength' \in 0 .. BYTE * BYTE - 1
      BY <2>17, <2>19, LengthRange DEF ReadHeader1, NextByte, NextTail
    <3>2. TailIndex' \in Index
      BY <2>17, <2>19 DEF ReadHeader1, NextTail
    <3>3. QED BY <2>19, <3>1, <3>2 DEF ReadHeader1, ReadState
  <2>20. CASE HeaderDone
    <3>1. /\ CurrentInputPacket' \in Seq(Byte)
          /\ m_readState' \in {"READ_HEADER_DONE", "READ_BODY"}
          /\ rpc' \in {"make", "dropped"}
      <4>1. CASE CurrentInputPacketLength > MAX_PACKET_SIZE
        BY <2>20, <4>1 DEF HeaderDone, TooLong
      <4>2. CASE ~(CurrentInputPacketLength > MAX_PACKET_SIZE)
        <5>1. /\ CurrentInputPacket' = << >> /\ m_readState' = "READ_BODY"
              /\ rpc' = rpc /\ rpc = "make"
          BY <2>20, <4>2 DEF HeaderDone, TooLong
        <5>2. QED BY <5>1
      <4>3. QED BY <4>1, <4>2
    <3>2. QED BY <2>20, <3>1 DEF HeaderDone, TooLong, ReadState
  <2>21. CASE ReadBodyByte
    <3>1. /\ TailIndex' \in Index
          /\ CurrentInputPacket' \in Seq(Byte)
      BY <2>17, <2>21 DEF ReadBodyByte, NextByte, NextTail
    <3>2. QED BY <2>21, <3>1 DEF ReadBodyByte
  <2>22. CASE CompletePacket
    <3>1. Crypt(RecvKey, CurrentInputPacket) \in Seq(Byte)
      BY CryptType
    <3>2. InputPackets' \in Seq(Seq(Byte)) /\ RecvKey' \in Nat
      BY <2>22, <3>1 DEF CompletePacket, RecvKeyAfter
    <3>3. QED BY <2>22, <3>2 DEF CompletePacket, RecvKeyAfter, ReadState
  <2>23. CASE UNCHANGED vars
    BY <2>23 DEF vars
  <2>24. QED
    BY <2>1, <2>2, <2>3, <2>4, <2>5, <2>6, <2>7, <2>8, <2>9, <2>10, <2>11,
       <2>12, <2>13, <2>14, <2>15, <2>16, <2>18, <2>19, <2>20, <2>21, <2>22,
       <2>23 DEF Next, Sender, Send, Receiver, FillInputBuffer, MakePackets
<1>3. QED BY <1>1, <1>2, PTL DEF Spec

-----------------------------------------------------------------------------
(* The ring and the stream *)

(* send() only ever adds to the end of the stream.                         *)
LEMMA SendExtends ==
    ASSUME TypeOK, SendSome
    PROVE  /\ Len(stream') >= Len(stream)
           /\ \A i \in 1 .. Len(stream) : stream'[i] = stream[i]
           /\ \A i \in 1 .. received : stream'[i] = stream[i]
<1> DEFINE left == Len(CurrentOutputPacket) - WritePtr
<1>1. PICK n \in 1 .. Smaller(left, SocketBuffer - InFlight) :
        stream' = stream \o
          SubSeq(CurrentOutputPacket, WritePtr + 1, WritePtr + n)
  BY DEF SendSome, WritePtrAfter
<1>2. n \in Nat /\ n >= 1 /\ n <= left
  BY SizeAssumption DEF Smaller, InFlight, TypeOK
<1>3. /\ WritePtr + 1 \in 1 .. Len(CurrentOutputPacket) + 1
      /\ WritePtr + n \in (WritePtr + 1) - 1 .. Len(CurrentOutputPacket)
  BY <1>2 DEF TypeOK
<1> DEFINE part == SubSeq(CurrentOutputPacket, WritePtr + 1, WritePtr + n)
<1>4. part \in Seq(Byte) /\ stream \in Seq(Byte)
  BY <1>3, SubSeqType DEF TypeOK
<1>5. stream' = stream \o part
  BY <1>1
<1> HIDE DEF part
<1>6. /\ Len(stream') = Len(stream) + Len(part)
      /\ \A i \in 1 .. Len(stream) : stream'[i] = stream[i]
  BY <1>4, <1>5, ConcatProperties
<1>7. received \in 0 .. Len(stream)
  BY DEF TypeOK
<1>8. QED BY <1>4, <1>6, <1>7

(* A step that leaves the ring and the received count alone keeps          *)
(* RingHoldsStream, even if the sender adds bytes to the stream.           *)
LEMMA RingUntouched ==
    ASSUME TypeOK, RingHoldsStream, UNCHANGED <<ringVars, received>>,
           \A i \in 1 .. received : stream'[i] = stream[i]
    PROVE  RingHoldsStream'
<1> DEFINE avail == Available(HeadIndex, TailIndex)
<1>1. /\ avail \in 0 .. INPUT_BUFFER_SIZE - 1
      /\ avail <= received
      /\ \A i \in 1 .. avail :
           InputBuffer[Advance(TailIndex, i)] = stream[received - avail + i]
  BY AvailableRange DEF TypeOK, RingHoldsStream
<1>2. received \in Nat
  BY DEF TypeOK
<1>3. UNCHANGED <<InputBuffer, HeadIndex, TailIndex, received>>
  BY DEF ringVars
<1>4. Available(HeadIndex', TailIndex') = avail
  BY <1>3
<1> HIDE DEF avail
<1>5. ASSUME NEW i \in 1 .. avail
      PROVE  InputBuffer'[Advance(TailIndex', i)]
               = stream'[received' - avail + i]
  <2>1. received - avail + i \in 1 .. received
    BY <1>1, <1>2, RingSizeAssumption
  <2>2. QED BY <1>1, <1>3, <2>1
<1>6. QED BY <1>1, <1>3, <1>4, <1>5 DEF RingHoldsStream

(* Taking a byte off the ring keeps RingHoldsStream, and the byte taken is *)
(* the first one of the stream not yet parsed.                             *)
LEMMA RingTake ==
    ASSUME TypeOK, RingHoldsStream, HasByte, TailIndex' = NextTail,
           UNCHANGED <<InputBuffer, HeadIndex, received, stream>>
    PROVE  /\ RingHoldsStream'
           /\ Available(HeadIndex, TailIndex) \in 1 .. received
           /\ NextByte = stream[received - Available(HeadIndex, TailIndex) + 1]
           /\ Available(HeadIndex, TailIndex')
                = Available(HeadIndex, TailIndex) - 1
<1> DEFINE avail == Available(HeadIndex, TailIndex)
           rest  == Available(HeadIndex, NextTail)
<1>1. HeadIndex \in Index /\ TailIndex \in Index /\ received \in Nat
  BY DEF TypeOK
<1>2. /\ avail \in 0 .. INPUT_BUFFER_SIZE - 1
      /\ avail <= received
      /\ \A i \in 1 .. avail :
           InputBuffer[Advance(TailIndex, i)] = stream[received - avail + i]
  BY <1>1, AvailableRange DEF RingHoldsStream
<1>3. /\ avail # 0
      /\ rest = avail - 1
      /\ \A i \in 1 .. rest : Advance(NextTail, i) = Advance(TailIndex, i + 1)
  BY <1>1, TakeAvailable DEF HasByte, NextTail
<1> HIDE DEF avail, rest
<1>4. avail \in 1 .. received
  BY <1>1, <1>2, <1>3, RingSizeAssumption
<1>5. NextByte = stream[received - avail + 1]
  BY <1>2, <1>4 DEF NextByte, NextTail
<1>6. ASSUME NEW i \in 1 .. rest
      PROVE  InputBuffer[Advance(NextTail, i)] = stream[received - rest + i]
  <2>1. i + 1 \in 1 .. avail /\ received - avail + (i + 1) = received - rest + i
    BY <1>1, <1>3, <1>4
  <2>2. QED BY <1>2, <1>3, <2>1
<1>7. RingHoldsStream'
  <2>1. Available(HeadIndex', TailIndex') = rest
    BY DEF rest
  <2>2. rest <= received
    BY <1>1, <1>3, <1>4
  <2>3. QED BY <1>6, <2>1, <2>2 DEF RingHoldsStream
<1>8. QED BY <1>3, <1>4, <1>5, <1>7 DEF avail, rest

(* A recv() puts the next bytes of the stream behind the unread ones.      *)
LEMMA RingFill ==
    ASSUME TypeOK, RingHoldsStream, FillSome
    PROVE  RingHoldsStream'
<1> DEFINE size  == FillSize(HeadIndex, TailIndex)
           avail == Available(HeadIndex, TailIndex)
<1>1. PICK n \in IF size = 0 THEN {0} ELSE 1 .. Smaller(size, InFlight) :
        /\ InputBuffer' = Filled(InputBuffer, HeadIndex, n,
                             SubSeq(stream, received + 1, received + n))
        /\ HeadIndex' = Advance(HeadIndex, n)
        /\ received' = received + n
  BY DEF FillSome
<1>2. UNCHANGED <<stream, TailIndex>>
  BY DEF FillSome
<1>3. /\ HeadIndex \in Index /\ TailIndex \in Index /\ received \in Nat
      /\ stream \in Seq(Byte) /\ received <= Len(stream)
  BY DEF TypeOK
<1>4. n \in 0 .. size /\ n \in Nat /\ n <= InFlight
  BY <1>3, RingSizeAssumption DEF Smaller, InFlight, FillSize, Index
<1>5. /\ avail \in 0 .. INPUT_BUFFER_SIZE - 1
      /\ avail <= received
      /\ \A i \in 1 .. avail :
           InputBuffer[Advance(TailIndex, i)] = stream[received - avail + i]
  BY <1>3, AvailableRange DEF RingHoldsStream
<1>6. Available(HeadIndex', TailIndex') = avail + n
  BY <1>1, <1>2, <1>3, <1>4, FillAvailable
<1> DEFINE data == SubSeq(stream, received + 1, received + n)
<1>7. \A k \in 1 .. n : data[k] = stream[received + k]
  <2>1. /\ received + 1 \in 1 .. Len(stream) + 1
        /\ received + n \in (received + 1) - 1 .. Len(stream)
    BY <1>3, <1>4 DEF InFlight
  <2>2. \A i \in 1 .. (received + n) - (received + 1) + 1 :
          data[i] = stream[(received + 1) + i - 1]
    BY <1>3, <2>1, SubSeqType
  <2> HIDE DEF data
  <2>3. (received + n) - (received + 1) + 1 = n
    BY <1>3, <1>4
  <2>4. \A k \in 1 .. n : (received + 1) + k - 1 = received + k
    BY <1>3, <1>4
  <2>5. QED BY <2>2, <2>3, <2>4
<1> HIDE DEF data
<1>8. ASSUME NEW i \in 1 .. avail + n
      PROVE  InputBuffer'[Advance(TailIndex, i)]
               = stream[received' - (avail + n) + i]
  <2> DEFINE cell == Advance(TailIndex, i)
  <2>1. avail + n \in 0 .. INPUT_BUFFER_SIZE - 1
    <3>1. HeadIndex' \in Index
      BY <1>1, <1>3, <1>4, FillAvailable
    <3>2. QED BY <1>2, <1>3, <1>6, <3>1, AvailableRange
  <2>2. cell \in Index
    BY <1>3, <2>1, AdvanceValue, RingSizeAssumption
  <2>3. InputBuffer'[cell] =
          IF cell \in HeadIndex .. HeadIndex + n - 1
            THEN data[cell - HeadIndex + 1] ELSE InputBuffer[cell]
    <3>1. InputBuffer' = Filled(InputBuffer, HeadIndex, n, data)
      BY <1>1 DEF data
    <3> HIDE DEF cell
    <3>2. Filled(InputBuffer, HeadIndex, n, data)[cell] =
            IF cell \in HeadIndex .. HeadIndex + n - 1
              THEN data[cell - HeadIndex + 1] ELSE InputBuffer[cell]
      BY <2>2 DEF Filled
    <3>3. QED BY <3>1, <3>2
  <2>4. /\ i <= avail => cell \notin HeadIndex .. HeadIndex + n - 1
        /\ i > avail => cell = HeadIndex + (i - avail) - 1
    BY <1>3, <1>4, FillCells
  <2> HIDE DEF cell
  <2>5. received' - (avail + n) + i = received - avail + i
    BY <1>1, <1>3, <1>4, <1>5
  <2>6. CASE i <= avail
    <3>1. i \in 1 .. avail
      BY <1>5, <2>6
    <3>2. QED BY <1>5, <2>3, <2>4, <2>5, <2>6, <3>1 DEF cell
  <2>7. CASE i > avail
    <3>1. /\ i - avail \in 1 .. n
          /\ cell \in HeadIndex .. HeadIndex + n - 1
          /\ cell - HeadIndex + 1 = i - avail
          /\ received + (i - avail) = received - avail + i
      BY <1>3, <1>4, <1>5, <2>1, <2>4, <2>7 DEF Index
    <3>2. QED BY <1>7, <2>3, <2>5, <3>1 DEF cell
  <2>8. QED BY <1>5, <2>6, <2>7, RingSizeAssumption
<1>9. avail + n <= received'
  BY <1>1, <1>3, <1>4, <1>5
<1>10. QED BY <1>2, <1>6, <1>8, <1>9 DEF RingHoldsStream

(* RingHoldsStream is an invariant: whatever the sizes of the sends and of *)
(* the receives and wherever the ring wraps, the parser reads the bytes of *)
(* the stream, in order, without loss.                                     *)
THEOREM RingCorrect == Spec => []RingHoldsStream
<1>1. Init => RingHoldsStream
  <2> SUFFICES ASSUME Init PROVE RingHoldsStream
    OBVIOUS
  <2>1. HeadIndex \in Index /\ TailIndex \in Index
    BY StartAssumption, RingSizeAssumption, AdvanceValue DEF Init
  <2>2. Available(HeadIndex, TailIndex) = 0
    BY <2>1, EmptyRing DEF Init
  <2>3. QED BY <2>2 DEF Init, RingHoldsStream
<1>2. TypeOK /\ RingHoldsStream /\ [Next]_vars => RingHoldsStream'
  <2> SUFFICES ASSUME TypeOK, RingHoldsStream, [Next]_vars
               PROVE  RingHoldsStream'
    OBVIOUS
  <2>1. CASE SendSome
    <3>1. /\ UNCHANGED <<ringVars, received>>
          /\ \A i \in 1 .. received : stream'[i] = stream[i]
      BY <2>1, SendExtends DEF SendSome, WritePtrAfter, receiverVars
    <3>2. QED BY <3>1, RingUntouched
  <2>2. CASE FillSome
    BY <2>2, RingFill
  <2>3. CASE ReadHeader0 \/ ReadHeader1 \/ ReadBodyByte
    <3>1. /\ HasByte /\ TailIndex' = NextTail
          /\ UNCHANGED <<InputBuffer, HeadIndex, received, stream>>
      BY <2>3 DEF ReadHeader0, ReadHeader1, ReadBodyByte
    <3>2. QED BY <3>1, RingTake
  <2>4. CASE \/ ComposeOutput \/ ComposeEmpty \/ OnWrite \/ MergePacket
             \/ EndMerge \/ SendInterrupted \/ SendFails \/ Close \/ Break
             \/ OnRead \/ FillWouldBlock \/ FillEof \/ FillError
             \/ MakePacketsWaits \/ HeaderDone \/ CompletePacket
             \/ UNCHANGED vars
    <3>1. UNCHANGED <<ringVars, received, stream>>
      BY <2>4 DEF ComposeOutput, ComposeEmpty, OnWrite, MergePacket, EndMerge,
         SendInterrupted, SendFails, Close, Break, OnRead, FillWouldBlock,
         FillEof, FillError, MakePacketsWaits, HeaderDone, CompletePacket,
         vars, receiverVars
    <3>2. QED BY <3>1, RingUntouched
  <2>5. QED
    BY <2>1, <2>2, <2>3, <2>4
    DEF Next, Sender, Send, Receiver, FillInputBuffer, MakePackets
<1>3. QED BY <1>1, <1>2, TypeCorrect, PTL DEF Spec

(* OnRead cannot spin: whenever FillInputBuffer runs, the ring is empty,   *)
(* so recv() is always called with room.                                   *)
THEOREM NoReadSpin == Spec => []DrainedBeforeFill
<1>1. Init => DrainedBeforeFill
  <2> SUFFICES ASSUME Init PROVE DrainedBeforeFill
    OBVIOUS
  <2>1. HeadIndex \in Index
    BY StartAssumption DEF Init
  <2>2. Available(HeadIndex, TailIndex) = 0
    BY <2>1, EmptyRing DEF Init
  <2>3. QED BY <2>2 DEF DrainedBeforeFill
<1>2. TypeOK /\ DrainedBeforeFill /\ [Next]_vars => DrainedBeforeFill'
  <2> SUFFICES ASSUME TypeOK, DrainedBeforeFill, [Next]_vars
               PROVE  DrainedBeforeFill'
    OBVIOUS
  <2>1. CASE MakePacketsWaits
    <3>1. Available(HeadIndex, TailIndex) = 0
      BY <2>1, TakeAvailable DEF MakePacketsWaits, HasByte, NextTail, TypeOK
    <3>2. QED BY <2>1, <3>1 DEF MakePacketsWaits, ringVars, DrainedBeforeFill
  <2>2. CASE OnRead
    BY <2>2 DEF OnRead, ringVars, DrainedBeforeFill
  <2>3. CASE \/ FillSome \/ FillEof \/ FillError \/ ReadHeader0 \/ ReadHeader1
             \/ HeaderDone \/ ReadBodyByte \/ CompletePacket
    <3>1. rpc' \notin {"idle", "fill"}
      BY <2>3 DEF FillSome, FillEof, FillError, ReadHeader0, ReadHeader1,
         HeaderDone, ReadBodyByte, CompletePacket
    <3>2. QED BY <3>1 DEF DrainedBeforeFill
  <2>4. CASE FillWouldBlock
    BY <2>4 DEF FillWouldBlock, ringVars, DrainedBeforeFill
  <2>5. CASE Sender \/ Break \/ UNCHANGED vars
    <3>1. UNCHANGED <<HeadIndex, TailIndex, rpc>>
      BY <2>5 DEF Sender, Send, ComposeOutput, ComposeEmpty, OnWrite,
         MergePacket, EndMerge, SendSome, SendInterrupted, SendFails, Close,
         Break, vars, receiverVars, ringVars
    <3>2. QED BY <3>1 DEF DrainedBeforeFill
  <2>6. QED
    BY <2>1, <2>2, <2>3, <2>4, <2>5
    DEF Next, Receiver, FillInputBuffer, MakePackets
<1>3. QED BY <1>1, <1>2, TypeCorrect, PTL DEF Spec

-----------------------------------------------------------------------------
(* Where the frames end                                                    *)

(* A non-empty set of naturals has a least element: induction, in the form *)
(* of a least counterexample.                                              *)
LEMMA LeastElement ==
    ASSUME NEW T \in SUBSET Nat, T # {}
    PROVE  \E n \in T : \A m \in T : n <= m
<1> DEFINE R == OpToRel(<, Nat)
<1>1. IsWellFoundedOn(R, Nat)
  BY NatLessThanWellFounded
<1>2. \A x, y \in Nat : x < y => <<x, y>> \in R
  BY DEF OpToRel
<1> HIDE DEF R
<1>3. PICK n \in T : \A m \in T : ~(<<m, n>> \in R)
  BY <1>1, WFMin
<1>4. ASSUME NEW m \in T PROVE n <= m
  <2>1. n \in Nat /\ m \in Nat
    OBVIOUS
  <2>2. ~(m < n)
    BY <1>2, <1>3, <2>1
  <2>3. QED BY <2>1, <2>2
<1>5. QED BY <1>4

(* The function whose last value FrameEnd takes: where each of the first n *)
(* bodies ends.                                                            *)
Sums(end, bodies, n) ==
    end = [i \in 0 .. n |-> IF i = 0 THEN 0 ELSE end[i - 1] + 2 + Len(bodies[i])]

(* There is one such function only: a longer one continues a shorter one.  *)
LEMMA SumsUnique ==
    ASSUME NEW bodies, NEW m \in Nat, NEW n \in Nat, m <= n,
           NEW f, NEW g, Sums(f, bodies, m), Sums(g, bodies, n)
    PROVE  \A i \in 0 .. m : f[i] = g[i]
<1> SUFFICES ASSUME {i \in 0 .. m : f[i] # g[i]} # {} PROVE FALSE
  OBVIOUS
<1> DEFINE T == {i \in 0 .. m : f[i] # g[i]}
<1>1. T \in SUBSET Nat
  OBVIOUS
<1>2. PICK i \in T : \A j \in T : i <= j
  BY <1>1, LeastElement
<1>3. i \in 0 .. m /\ i \in 0 .. n
  OBVIOUS
<1>4. /\ f[i] = IF i = 0 THEN 0 ELSE f[i - 1] + 2 + Len(bodies[i])
      /\ g[i] = IF i = 0 THEN 0 ELSE g[i - 1] + 2 + Len(bodies[i])
  BY <1>3 DEF Sums
<1>5. i # 0
  BY <1>4
<1>6. i - 1 \in 0 .. m /\ ~(i <= i - 1)
  BY <1>3, <1>5
<1>7. f[i - 1] = g[i - 1]
  BY <1>2, <1>6
<1>8. QED BY <1>4, <1>7

(* There is such a function for any part of a sequence of bodies.          *)
LEMMA SumsExist ==
    ASSUME NEW bodies \in Seq(Bodies), NEW n \in 0 .. Len(bodies)
    PROVE  \E f \in [0 .. n -> Nat] : Sums(f, bodies, n)
<1>1. \A i \in 1 .. Len(bodies) : Len(bodies[i]) \in Nat
  BY BodiesAssumption
<1> DEFINE T == {i \in 0 .. Len(bodies) :
                   ~ \E f \in [0 .. i -> Nat] : Sums(f, bodies, i)}
<1> SUFFICES ASSUME T # {} PROVE FALSE
  OBVIOUS
<1>2. T \in SUBSET Nat
  OBVIOUS
<1>3. PICK m \in T : \A j \in T : m <= j
  BY <1>2, LeastElement
<1>4. m # 0
  <2> SUFFICES ASSUME m = 0 PROVE FALSE
    OBVIOUS
  <2> DEFINE f == [i \in 0 .. 0 |-> 0]
  <2>1. f \in [0 .. 0 -> Nat] /\ Sums(f, bodies, 0)
    BY DEF Sums
  <2>2. QED BY <2>1
<1>5. m - 1 \in 0 .. Len(bodies) /\ m - 1 \notin T /\ m \in 1 .. Len(bodies)
  <2>1. m \in 1 .. Len(bodies) /\ m - 1 \in 0 .. Len(bodies)
    BY <1>4
  <2> HIDE DEF T
  <2>2. ~(m <= m - 1)
    BY <2>1
  <2>3. QED BY <1>3, <2>1, <2>2
<1>6. PICK g \in [0 .. m - 1 -> Nat] : Sums(g, bodies, m - 1)
  BY <1>5
<1> DEFINE f == [i \in 0 .. m |-> IF i = m THEN g[m - 1] + 2 + Len(bodies[m]) ELSE g[i]]
<1>7. f \in [0 .. m -> Nat]
  BY <1>1, <1>5
<1>8. ASSUME NEW i \in 0 .. m
      PROVE  f[i] = IF i = 0 THEN 0 ELSE f[i - 1] + 2 + Len(bodies[i])
  <2>1. CASE i = m
    BY <1>5, <2>1
  <2>2. CASE i # m
    <3>1. i \in 0 .. m - 1
      BY <1>5, <2>2
    <3>2. g[i] = IF i = 0 THEN 0 ELSE g[i - 1] + 2 + Len(bodies[i])
      BY <1>6, <3>1 DEF Sums
    <3>3. i # 0 => i - 1 \in 0 .. m - 1
      BY <3>1
    <3>4. QED BY <3>1, <3>2, <3>3, <1>5
  <2>3. QED BY <2>1, <2>2
<1>9. Sums(f, bodies, m)
  BY <1>7, <1>8 DEF Sums
<1>10. QED BY <1>7, <1>9

(* So FrameEnd is the last value of one.                                   *)
LEMMA FrameEndValue ==
    ASSUME NEW bodies \in Seq(Bodies), NEW n \in 0 .. Len(bodies)
    PROVE  \E f \in [0 .. n -> Nat] : Sums(f, bodies, n) /\ f[n] = FrameEnd(bodies, n)
<1> DEFINE end == CHOOSE f : Sums(f, bodies, n)
<1>1. PICK g \in [0 .. n -> Nat] : Sums(g, bodies, n)
  BY SumsExist
<1>2. Sums(end, bodies, n)
  BY <1>1
<1>3. FrameEnd(bodies, n) = end[n]
  BY DEF FrameEnd, Sums
<1> HIDE DEF end
<1>4. \A i \in 0 .. n : end[i] = g[i]
  BY <1>1, <1>2, SumsUnique
<1>5. QED BY <1>1, <1>3, <1>4

(* What FrameEnd is defined to be: nothing before the first body, and two  *)
(* bytes and a body more for each.                                         *)
LEMMA FrameEndStep ==
    ASSUME NEW bodies \in Seq(Bodies)
    PROVE  /\ FrameEnd(bodies, 0) = 0
           /\ \A n \in 0 .. Len(bodies) : FrameEnd(bodies, n) \in Nat
           /\ \A n \in 1 .. Len(bodies) :
                FrameEnd(bodies, n) = FrameEnd(bodies, n - 1) + 2 + Len(bodies[n])
<1>1. ASSUME NEW n \in 0 .. Len(bodies)
      PROVE  FrameEnd(bodies, n) \in Nat
  BY FrameEndValue
<1>2. FrameEnd(bodies, 0) = 0
  <2>1. PICK f \in [0 .. 0 -> Nat] : Sums(f, bodies, 0) /\ f[0] = FrameEnd(bodies, 0)
    BY FrameEndValue
  <2>2. QED BY <2>1 DEF Sums
<1>3. ASSUME NEW n \in 1 .. Len(bodies)
      PROVE  FrameEnd(bodies, n) = FrameEnd(bodies, n - 1) + 2 + Len(bodies[n])
  <2>1. /\ n \in 0 .. Len(bodies) /\ n - 1 \in 0 .. Len(bodies)
        /\ n \in Nat /\ n - 1 \in Nat /\ n - 1 <= n
    OBVIOUS
  <2>2. PICK f \in [0 .. n -> Nat] :
          Sums(f, bodies, n) /\ f[n] = FrameEnd(bodies, n)
    BY <2>1, FrameEndValue
  <2>3. PICK g \in [0 .. n - 1 -> Nat] :
          Sums(g, bodies, n - 1) /\ g[n - 1] = FrameEnd(bodies, n - 1)
    BY <2>1, FrameEndValue
  <2>4. \A i \in 0 .. n - 1 : g[i] = f[i]
    BY <2>1, <2>2, <2>3, SumsUnique
  <2>5. g[n - 1] = f[n - 1]
    BY <2>1, <2>4
  <2>6. f[n] = f[n - 1] + 2 + Len(bodies[n])
    BY <2>1, <2>2 DEF Sums
  <2>7. QED BY <2>2, <2>3, <2>5, <2>6
<1>4. QED BY <1>1, <1>2, <1>3

(* Bodies composed behind the others do not move the ends of those.        *)
LEMMA FrameEndPrefix ==
    ASSUME NEW bodies \in Seq(Bodies), NEW more \in Seq(Bodies),
           Len(bodies) <= Len(more),
           \A i \in 1 .. Len(bodies) : more[i] = bodies[i]
    PROVE  \A n \in 0 .. Len(bodies) : FrameEnd(more, n) = FrameEnd(bodies, n)
<1> DEFINE T == {n \in 0 .. Len(bodies) : FrameEnd(more, n) # FrameEnd(bodies, n)}
<1> SUFFICES ASSUME T # {} PROVE FALSE
  OBVIOUS
<1>1. PICK n \in T : \A m \in T : n <= m
  <2>1. T \in SUBSET Nat
    OBVIOUS
  <2>2. QED BY <2>1, LeastElement
<1>2. n \in 1 .. Len(bodies) /\ n - 1 \in 0 .. Len(bodies) /\ n \in 1 .. Len(more)
  BY FrameEndStep
<1>3. n - 1 \notin T
  <2>1. ~(n <= n - 1)
    BY <1>2
  <2>2. QED BY <1>1, <2>1
<1>4. FrameEnd(more, n) = FrameEnd(bodies, n)
  BY <1>2, <1>3, FrameEndStep
<1>5. QED BY <1>4

(* A later frame ends later, by its header at least.                       *)
LEMMA FrameEndMonotone ==
    ASSUME NEW bodies \in Seq(Bodies), NEW m \in 0 .. Len(bodies)
    PROVE  \A n \in m .. Len(bodies) :
             FrameEnd(bodies, n) >= FrameEnd(bodies, m) + 2 * (n - m)
<1> DEFINE T == {n \in m .. Len(bodies) :
                   ~(FrameEnd(bodies, n) >= FrameEnd(bodies, m) + 2 * (n - m))}
<1> SUFFICES ASSUME T # {} PROVE FALSE
  OBVIOUS
<1>1. PICK n \in T : \A k \in T : n <= k
  <2>1. T \in SUBSET Nat
    OBVIOUS
  <2>2. QED BY <2>1, LeastElement
<1>2. \A k \in 0 .. Len(bodies) : FrameEnd(bodies, k) \in Nat
  BY FrameEndStep
<1>3. n \in m + 1 .. Len(bodies) /\ n - 1 \in m .. Len(bodies) /\ n \in 1 .. Len(bodies)
  <2>1. n # m
    <3> SUFFICES ASSUME n = m PROVE FALSE
      OBVIOUS
    <3>1. FrameEnd(bodies, m) \in Nat
      BY <1>2
    <3>2. QED BY <3>1
  <2>2. QED BY <2>1
<1>4. n - 1 \notin T
  <2>1. ~(n <= n - 1)
    BY <1>3
  <2>2. QED BY <1>1, <2>1
<1>5. FrameEnd(bodies, n - 1) >= FrameEnd(bodies, m) + 2 * (n - 1 - m)
  BY <1>3, <1>4
<1>6. FrameEnd(bodies, n) = FrameEnd(bodies, n - 1) + 2 + Len(bodies[n])
  BY <1>3, FrameEndStep
<1>7. Len(bodies[n]) \in Nat
  BY <1>3, BodiesAssumption
<1>8. FrameEnd(bodies, n) >= FrameEnd(bodies, m) + 2 * (n - m)
  <2>1. n - 1 \in 0 .. Len(bodies)
    BY <1>3
  <2>2. FrameEnd(bodies, n - 1) \in Nat /\ FrameEnd(bodies, m) \in Nat
    BY <1>2, <2>1
  <2>3. QED BY <1>3, <1>5, <1>6, <1>7, <2>2
<1>9. QED BY <1>8

-----------------------------------------------------------------------------
(* The output queue                                                        *)

(* The bodies queued from a position on: none behind the end, and one more *)
(* for each vector that holds a body.                                      *)
LEMMA QueuedStep ==
    ASSUME NEW pkts \in Seq(Vectors), NEW i \in 1 .. Len(pkts) + 1
    PROVE  /\ Queued(pkts, i) \in Nat
           /\ i = Len(pkts) + 1 => Queued(pkts, i) = 0
           /\ i <= Len(pkts) =>
                Queued(pkts, i) = Queued(pkts, i + 1)
                                    + (IF pkts[i] # << >> THEN 1 ELSE 0)
<1> DEFINE full(j) == {k \in j .. Len(pkts) : pkts[k] # << >>}
<1>1. \A j \in Int : /\ IsFiniteSet(full(j))
                     /\ Cardinality(full(j)) = Queued(pkts, j)
                     /\ Queued(pkts, j) \in Nat
  <2> TAKE j \in Int
  <2>1. IsFiniteSet(j .. Len(pkts))
    BY FS_Interval
  <2>2. full(j) \in SUBSET (j .. Len(pkts))
    OBVIOUS
  <2>3. IsFiniteSet(full(j))
    BY <2>1, <2>2, FS_Subset
  <2>4. Cardinality(full(j)) = Queued(pkts, j)
    BY DEF Queued
  <2>5. QED BY <2>3, <2>4, FS_CardinalityType
<1>2. i = Len(pkts) + 1 => full(i) = {}
  OBVIOUS
<1>3. i \in Int /\ i + 1 \in Int
  OBVIOUS
<1>4. CASE i <= Len(pkts) /\ pkts[i] # << >>
  <2>1. full(i) = full(i + 1) \cup {i} /\ i \notin full(i + 1)
    BY <1>4
  <2> HIDE DEF full
  <2>2. Cardinality(full(i)) = Cardinality(full(i + 1)) + 1
    BY <1>1, <1>3, <2>1, FS_AddElement
  <2>3. QED BY <1>1, <1>3, <1>4, <2>2
<1>5. CASE i <= Len(pkts) /\ ~(pkts[i] # << >>)
  <2>1. full(i) = full(i + 1)
    BY <1>5
  <2> HIDE DEF full
  <2>2. Cardinality(full(i)) = Cardinality(full(i + 1))
    BY <2>1
  <2>3. Queued(pkts, i) = Queued(pkts, i + 1) /\ Queued(pkts, i + 1) \in Nat
    BY <1>1, <1>3, <2>2
  <2>4. i # Len(pkts) + 1 /\ Queued(pkts, i + 1) + 0 = Queued(pkts, i + 1)
    BY <1>5, <2>3
  <2>5. QED BY <1>5, <2>3, <2>4
<1>6. CASE i = Len(pkts) + 1
  <2>1. Queued(pkts, i) = 0
    BY <1>1, <1>2, <1>3, <1>6, FS_EmptySet
  <2>2. QED BY <1>6, <2>1
<1>7. QED BY <1>4, <1>5, <1>6

(* Two queues with the same vectors from two places on.                    *)
LEMMA QueuedSame ==
    ASSUME NEW p \in Seq(Vectors), NEW q \in Seq(Vectors), NEW d \in Nat,
           Len(q) = Len(p) + d,
           \A k \in 1 .. Len(p) : p[k] = q[k + d]
    PROVE  \A i \in 1 .. Len(p) + 1 : Queued(p, i) = Queued(q, i + d)
<1> DEFINE T == {k \in 0 .. Len(p) :
                   Queued(p, Len(p) + 1 - k) # Queued(q, Len(p) + 1 - k + d)}
<1>1. T = {}
  <2> SUFFICES ASSUME T # {} PROVE FALSE
    OBVIOUS
  <2>1. PICK k \in T : \A j \in T : k <= j
    <3>1. T \in SUBSET Nat
      OBVIOUS
    <3>2. QED BY <3>1, LeastElement
  <2> DEFINE i == Len(p) + 1 - k
  <2>2. k \in 0 .. Len(p) /\ i \in 1 .. Len(p) + 1 /\ i + d \in 1 .. Len(q) + 1
    OBVIOUS
  <2>3. k # 0
    <3> SUFFICES ASSUME k = 0 PROVE FALSE
      OBVIOUS
    <3>1. i = Len(p) + 1 /\ i + d = Len(q) + 1
      OBVIOUS
    <3>2. Queued(p, i) = 0 /\ Queued(q, i + d) = 0
      BY <2>2, <3>1, QueuedStep
    <3>3. QED BY <3>2
  <2>4. Queued(p, i + 1) = Queued(q, i + 1 + d)
    <3>1. k - 1 \in 0 .. Len(p) /\ ~(k <= k - 1)
      BY <2>2, <2>3
    <3>2. k - 1 \notin T
      BY <2>1, <3>1
    <3>3. Len(p) + 1 - (k - 1) = i + 1
      BY <2>2
    <3>4. QED BY <3>1, <3>2, <3>3
  <2>5. i <= Len(p) /\ i + d <= Len(q) /\ p[i] = q[i + d] /\ i + 1 + d = i + d + 1
    BY <2>2, <2>3
  <2> HIDE DEF i
  <2>6. Queued(p, i) = Queued(p, i + 1) + (IF p[i] # << >> THEN 1 ELSE 0)
    BY <2>2, <2>5, QueuedStep
  <2>7. Queued(q, i + d) = Queued(q, i + d + 1) + (IF q[i + d] # << >> THEN 1 ELSE 0)
    BY <2>2, <2>5, QueuedStep
  <2>8. Queued(p, i) = Queued(q, i + d)
    BY <2>4, <2>5, <2>6, <2>7
  <2>9. QED BY <2>8 DEF i
<1> HIDE DEF T
<1>2. ASSUME NEW i \in 1 .. Len(p) + 1
      PROVE  Queued(p, i) = Queued(q, i + d)
  <2>1. Len(p) + 1 - i \in 0 .. Len(p) /\ Len(p) + 1 - (Len(p) + 1 - i) = i
    OBVIOUS
  <2>2. QED BY <1>1, <2>1 DEF T
<1>3. QED BY <1>2

(* A vector queued at the end is counted from every place before it.       *)
LEMMA QueuedAppend ==
    ASSUME NEW pkts \in Seq(Vectors), NEW v \in Vectors,
           NEW i \in 1 .. Len(pkts) + 1
    PROVE  Queued(Append(pkts, v), i)
             = Queued(pkts, i) + (IF v # << >> THEN 1 ELSE 0)
<1> DEFINE full == {k \in i .. Len(pkts) : pkts[k] # << >>}
           more == {k \in i .. Len(Append(pkts, v)) : Append(pkts, v)[k] # << >>}
<1>1. IsFiniteSet(full)
  <2>1. IsFiniteSet(i .. Len(pkts)) /\ full \in SUBSET (i .. Len(pkts))
    BY FS_Interval
  <2>2. QED BY <2>1, FS_Subset
<1>2. /\ Cardinality(full) = Queued(pkts, i)
      /\ Cardinality(more) = Queued(Append(pkts, v), i)
  BY DEF Queued
<1>3. Queued(pkts, i) \in Nat
  BY QueuedStep
<1>4. CASE v = << >>
  <2>1. more = full
    BY <1>4
  <2> HIDE DEF more, full
  <2>2. Queued(Append(pkts, v), i) = Queued(pkts, i)
    BY <1>2, <2>1
  <2>3. Queued(pkts, i) + 0 = Queued(pkts, i)
    BY <1>3
  <2>4. QED BY <1>4, <2>2, <2>3
<1>5. CASE v # << >>
  <2>1. more = full \cup {Len(pkts) + 1} /\ Len(pkts) + 1 \notin full
    BY <1>5
  <2> HIDE DEF more, full
  <2>2. Cardinality(more) = Cardinality(full) + 1
    BY <1>1, <2>1, FS_AddElement
  <2>3. QED BY <1>2, <1>5, <2>2
<1>6. QED BY <1>4, <1>5

-----------------------------------------------------------------------------
(* The frames on the wire                                                  *)

(* The keystream byte at which the frame after the n-th begins: the frames *)
(* before it without their headers.                                        *)
KeyAt(bodies, n) == FrameEnd(bodies, n) - 2 * n

(* The frame of the n-th body.                                             *)
FrameOf(bodies, n) == Framed(KeyAt(bodies, n - 1), Vector(bodies[n]))

(* A wire carries the frames of the bodies, one behind the other, as far   *)
(* as it goes.                                                             *)
IsFramed(bodies, wire) ==
    /\ Len(wire) <= FrameEnd(bodies, Len(bodies))
    /\ \A n \in 1 .. Len(bodies) : \A k \in 1 .. Len(bodies[n]) + 2 :
         FrameEnd(bodies, n - 1) + k <= Len(wire) =>
           wire[FrameEnd(bodies, n - 1) + k] = FrameOf(bodies, n)[k]

(* The keystream moves on by the body alone.                               *)
LEMMA KeyAtStep ==
    ASSUME NEW bodies \in Seq(Bodies)
    PROVE  /\ KeyAt(bodies, 0) = 0
           /\ \A n \in 0 .. Len(bodies) : KeyAt(bodies, n) \in Nat
           /\ \A n \in 1 .. Len(bodies) :
                KeyAt(bodies, n) = KeyAt(bodies, n - 1) + Len(bodies[n])
<1>1. /\ FrameEnd(bodies, 0) = 0
      /\ \A n \in 0 .. Len(bodies) : FrameEnd(bodies, n) \in Nat
      /\ \A n \in 1 .. Len(bodies) :
           FrameEnd(bodies, n) = FrameEnd(bodies, n - 1) + 2 + Len(bodies[n])
  BY FrameEndStep
<1>2. ASSUME NEW n \in 0 .. Len(bodies)
      PROVE  KeyAt(bodies, n) \in Nat
  <2>1. 0 \in 0 .. Len(bodies) /\ n \in 0 .. Len(bodies)
    OBVIOUS
  <2>2. FrameEnd(bodies, n) >= FrameEnd(bodies, 0) + 2 * (n - 0)
    BY <2>1, FrameEndMonotone
  <2>3. FrameEnd(bodies, n) \in Nat
    BY <1>1
  <2>4. QED BY <1>1, <2>2, <2>3 DEF KeyAt
<1>3. ASSUME NEW n \in 1 .. Len(bodies)
      PROVE  KeyAt(bodies, n) = KeyAt(bodies, n - 1) + Len(bodies[n])
  <2>1. /\ FrameEnd(bodies, n) = FrameEnd(bodies, n - 1) + 2 + Len(bodies[n])
        /\ FrameEnd(bodies, n - 1) \in Nat
    BY <1>1
  <2>2. Len(bodies[n]) \in Nat
    BY BodiesAssumption
  <2>3. QED BY <2>1, <2>2 DEF KeyAt
<1>4. KeyAt(bodies, 0) = 0
  BY <1>1 DEF KeyAt
<1>5. QED BY <1>2, <1>3, <1>4

(* What a frame consists of: the two bytes of the length, then the body    *)
(* under the keystream.                                                    *)
LEMMA FrameValue ==
    ASSUME NEW key \in Nat, NEW body \in Bodies
    PROVE  LET frame == Framed(key, Vector(body)) IN
             /\ frame \in Seq(Byte)
             /\ Len(frame) = Len(body) + 2
             /\ frame[1] = Len(body) % BYTE
             /\ frame[2] = (Len(body) \div BYTE) % BYTE
             /\ \A k \in 1 .. Len(body) : frame[2 + k] = Crypt(key, body)[k]
<1> DEFINE pkt == Vector(body)
           frame == Framed(key, pkt)
<1>1. body \in Seq(Byte) /\ Len(body) \in Nat
  BY BodiesAssumption
<1>2. pkt \in Vectors /\ pkt # << >> /\ BodyOf(pkt) = body
  BY VectorType
<1>3. BodySize(pkt) = Len(body)
  BY <1>1 DEF BodySize, Vector
<1>4. frame = Header(Len(body)) \o Crypt(key, body)
  BY <1>2, <1>3 DEF Framed
<1>5. /\ Crypt(key, body) \in Seq(Byte) /\ Len(Crypt(key, body)) = Len(body)
      /\ Header(Len(body)) \in Seq(Byte) /\ Len(Header(Len(body))) = 2
  <2>1. Crypt(key, body) \in Seq(Byte) /\ Len(Crypt(key, body)) = Len(body)
    BY <1>1, CryptType
  <2>2. Len(body) \in Int
    BY <1>1
  <2>3. Header(Len(body)) \in Seq(Byte) /\ Len(Header(Len(body))) = 2
    BY <2>2, HeaderType
  <2>4. QED BY <2>1, <2>3
<1>6. /\ Header(Len(body))[1] = Len(body) % BYTE
      /\ Header(Len(body))[2] = (Len(body) \div BYTE) % BYTE
  BY DEF Header
<1> DEFINE head == Header(Len(body))
           tail == Crypt(key, body)
<1> HIDE DEF pkt, frame, head, tail
<1>7. /\ frame \in Seq(Byte) /\ Len(frame) = Len(head) + Len(tail)
      /\ \A i \in 1 .. Len(head) + Len(tail) :
           frame[i] = IF i <= Len(head) THEN head[i] ELSE tail[i - Len(head)]
  <2>1. frame = head \o tail /\ head \in Seq(Byte) /\ tail \in Seq(Byte)
    BY <1>4, <1>5 DEF head, tail
  <2>2. QED BY <2>1, ConcatProperties
<1>8. ASSUME NEW k \in 1 .. Len(body)
      PROVE  frame[2 + k] = tail[k]
  <2>1. 2 + k \in 1 .. Len(head) + Len(tail) /\ ~(2 + k <= Len(head))
        /\ 2 + k - Len(head) = k
    BY <1>1, <1>5 DEF head, tail
  <2>2. QED BY <1>7, <2>1
<1>9. frame[1] = head[1] /\ frame[2] = head[2]
  BY <1>1, <1>5, <1>7 DEF head, tail
<1>10. Len(frame) = Len(body) + 2
  BY <1>1, <1>5, <1>7 DEF head, tail
<1>11. QED BY <1>6, <1>7, <1>8, <1>9, <1>10 DEF frame, pkt, head, tail

(* A part of a wire from its beginning is a wire.                          *)
LEMMA FramedPrefix ==
    ASSUME NEW bodies \in Seq(Bodies), NEW wire \in Seq(Byte), IsFramed(bodies, wire),
           NEW part \in Seq(Byte), Len(part) <= Len(wire),
           \A i \in 1 .. Len(part) : part[i] = wire[i]
    PROVE  IsFramed(bodies, part)
<1>1. Len(part) <= FrameEnd(bodies, Len(bodies))
  <2>1. FrameEnd(bodies, Len(bodies)) \in Nat
    BY FrameEndStep
  <2>2. QED BY <2>1 DEF IsFramed
<1>2. ASSUME NEW n \in 1 .. Len(bodies), NEW k \in 1 .. Len(bodies[n]) + 2,
             FrameEnd(bodies, n - 1) + k <= Len(part)
      PROVE  part[FrameEnd(bodies, n - 1) + k] = FrameOf(bodies, n)[k]
  <2>1. n - 1 \in 0 .. Len(bodies)
    OBVIOUS
  <2>2. FrameEnd(bodies, n - 1) \in Nat /\ Len(bodies[n]) \in Nat
    BY <2>1, FrameEndStep, BodiesAssumption
  <2>3. FrameEnd(bodies, n - 1) + k \in 1 .. Len(part)
        /\ FrameEnd(bodies, n - 1) + k <= Len(wire)
    BY <1>2, <2>2
  <2>4. QED BY <2>3 DEF IsFramed
<1>3. QED BY <1>1, <1>2 DEF IsFramed

(* One more body composed changes nothing about the wire.                  *)
LEMMA FramedCompose ==
    ASSUME NEW bodies \in Seq(Bodies), NEW wire \in Seq(Byte), IsFramed(bodies, wire),
           NEW b \in Bodies
    PROVE  IsFramed(Append(bodies, b), wire)
<1> DEFINE more == Append(bodies, b)
<1>1. /\ more \in Seq(Bodies) /\ Len(more) = Len(bodies) + 1
      /\ \A i \in 1 .. Len(bodies) : more[i] = bodies[i]
  OBVIOUS
<1> HIDE DEF more
<1>2. \A n \in 0 .. Len(bodies) : FrameEnd(more, n) = FrameEnd(bodies, n)
  BY <1>1, FrameEndPrefix
<1>3. /\ \A n \in 0 .. Len(more) : FrameEnd(more, n) \in Nat
      /\ FrameEnd(more, Len(more)) >= FrameEnd(more, Len(bodies))
      /\ Len(wire) <= FrameEnd(more, Len(bodies))
  <2>1. Len(bodies) \in 0 .. Len(bodies) /\ Len(bodies) \in 0 .. Len(more)
        /\ Len(more) \in Len(bodies) .. Len(more)
    BY <1>1
  <2>2. \A n \in 0 .. Len(more) : FrameEnd(more, n) \in Nat
    BY <1>1, FrameEndStep
  <2>3. FrameEnd(more, Len(more)) >= FrameEnd(more, Len(bodies)) + 2 * (Len(more) - Len(bodies))
    BY <1>1, <2>1, FrameEndMonotone
  <2>4. FrameEnd(more, Len(more)) \in Nat /\ FrameEnd(more, Len(bodies)) \in Nat
    BY <1>1, <2>1, <2>2
  <2>5. Len(wire) <= FrameEnd(more, Len(bodies))
    BY <1>2, <2>1 DEF IsFramed
  <2>6. QED BY <1>1, <2>2, <2>3, <2>4, <2>5
<1>4. Len(wire) <= FrameEnd(more, Len(more))
  <2>1. Len(bodies) \in 0 .. Len(more) /\ Len(more) \in 0 .. Len(more)
    BY <1>1
  <2>2. QED BY <1>3, <2>1
<1>5. ASSUME NEW n \in 1 .. Len(more), NEW k \in 1 .. Len(more[n]) + 2,
             FrameEnd(more, n - 1) + k <= Len(wire)
      PROVE  wire[FrameEnd(more, n - 1) + k] = FrameOf(more, n)[k]
  <2>1. CASE n <= Len(bodies)
    <3>1. n \in 1 .. Len(bodies) /\ n - 1 \in 0 .. Len(bodies)
      BY <1>1, <2>1
    <3>2. /\ FrameEnd(more, n - 1) = FrameEnd(bodies, n - 1)
          /\ more[n] = bodies[n]
      BY <1>1, <1>2, <3>1
    <3>3. FrameOf(more, n) = FrameOf(bodies, n)
      BY <3>2 DEF FrameOf, KeyAt
    <3>4. QED BY <1>5, <3>1, <3>2, <3>3 DEF IsFramed
  <2>2. CASE n = Len(bodies) + 1
    <3>1. n - 1 = Len(bodies) /\ Len(bodies) \in 0 .. Len(more) /\ k > 0 /\ k \in Int
      BY <1>1, <2>2, BodiesAssumption
    <3>2. FrameEnd(more, Len(bodies)) \in Nat /\ Len(wire) <= FrameEnd(more, Len(bodies))
      BY <1>3, <3>1
    <3>3. FALSE
      BY <1>5, <3>1, <3>2
    <3>4. QED BY <3>3
  <2>3. QED BY <1>1, <2>1, <2>2
<1>6. QED BY <1>4, <1>5 DEF IsFramed, more

(* A wire that ends with the n-th frame and takes on the next one.         *)
LEMMA FramedMerge ==
    ASSUME NEW bodies \in Seq(Bodies), NEW wire \in Seq(Byte), IsFramed(bodies, wire),
           NEW n \in 1 .. Len(bodies), Len(wire) = FrameEnd(bodies, n - 1)
    PROVE  LET more == wire \o FrameOf(bodies, n) IN
             /\ more \in Seq(Byte)
             /\ Len(more) = FrameEnd(bodies, n)
             /\ IsFramed(bodies, more)
<1> DEFINE more == wire \o FrameOf(bodies, n)
<1>1. KeyAt(bodies, n - 1) \in Nat /\ bodies[n] \in Bodies /\ Len(bodies[n]) \in Nat
  BY KeyAtStep, BodiesAssumption
<1>2. FrameOf(bodies, n) \in Seq(Byte) /\ Len(FrameOf(bodies, n)) = Len(bodies[n]) + 2
  BY <1>1, FrameValue DEF FrameOf
<1>3. /\ more \in Seq(Byte) /\ Len(more) = Len(wire) + Len(bodies[n]) + 2
      /\ \A i \in 1 .. Len(wire) : more[i] = wire[i]
      /\ \A i \in 1 .. Len(bodies[n]) + 2 : more[Len(wire) + i] = FrameOf(bodies, n)[i]
  <2> DEFINE frame == FrameOf(bodies, n)
  <2>1. frame \in Seq(Byte) /\ Len(frame) = Len(bodies[n]) + 2 /\ Len(wire) \in Nat
    BY <1>2
  <2> HIDE DEF frame
  <2>2. /\ wire \o frame \in Seq(Byte) /\ Len(wire \o frame) = Len(wire) + Len(frame)
        /\ \A i \in 1 .. Len(wire) + Len(frame) :
             (wire \o frame)[i] = IF i <= Len(wire) THEN wire[i] ELSE frame[i - Len(wire)]
    BY <2>1, ConcatProperties
  <2>3. \A i \in 1 .. Len(wire) : i \in 1 .. Len(wire) + Len(frame) /\ i <= Len(wire)
    BY <1>1, <2>1
  <2>4. \A i \in 1 .. Len(bodies[n]) + 2 :
          /\ Len(wire) + i \in 1 .. Len(wire) + Len(frame)
          /\ ~(Len(wire) + i <= Len(wire))
          /\ Len(wire) + i - Len(wire) = i
    BY <1>1, <2>1
  <2>5. Len(wire) + Len(frame) = Len(wire) + Len(bodies[n]) + 2
    BY <1>1, <2>1
  <2>6. \A i \in 1 .. Len(wire) : (wire \o frame)[i] = wire[i]
    BY <2>2, <2>3
  <2>7. \A i \in 1 .. Len(bodies[n]) + 2 : (wire \o frame)[Len(wire) + i] = frame[i]
    BY <2>2, <2>4
  <2>8. more = wire \o frame
    BY DEF frame
  <2> HIDE DEF more
  <2>9. /\ more \in Seq(Byte) /\ Len(more) = Len(wire) + Len(bodies[n]) + 2
        /\ \A i \in 1 .. Len(wire) : more[i] = wire[i]
        /\ \A i \in 1 .. Len(bodies[n]) + 2 : more[Len(wire) + i] = frame[i]
    BY <2>2, <2>5, <2>6, <2>7, <2>8
  <2>10. QED BY <2>9 DEF frame
<1> HIDE DEF more
<1>4. /\ FrameEnd(bodies, n) = FrameEnd(bodies, n - 1) + 2 + Len(bodies[n])
      /\ \A m \in 0 .. Len(bodies) : FrameEnd(bodies, m) \in Nat
      /\ \A m \in 1 .. Len(bodies) :
           FrameEnd(bodies, m) = FrameEnd(bodies, m - 1) + 2 + Len(bodies[m])
  BY FrameEndStep
<1>5. n - 1 \in 0 .. Len(bodies) /\ n \in 0 .. Len(bodies)
      /\ Len(bodies) \in n .. Len(bodies) /\ Len(bodies) \in 0 .. Len(bodies)
  OBVIOUS
<1>6. Len(more) = FrameEnd(bodies, n)
  BY <1>1, <1>3, <1>4, <1>5
<1>7. Len(more) <= FrameEnd(bodies, Len(bodies))
  <2>1. FrameEnd(bodies, Len(bodies)) >= FrameEnd(bodies, n) + 2 * (Len(bodies) - n)
    BY <1>5, FrameEndMonotone
  <2>2. FrameEnd(bodies, Len(bodies)) \in Nat /\ FrameEnd(bodies, n) \in Nat
    BY <1>4, <1>5
  <2>3. QED BY <1>6, <2>1, <2>2
<1>8. ASSUME NEW m \in 1 .. Len(bodies), NEW k \in 1 .. Len(bodies[m]) + 2,
             FrameEnd(bodies, m - 1) + k <= Len(more)
      PROVE  more[FrameEnd(bodies, m - 1) + k] = FrameOf(bodies, m)[k]
  <2>1. Len(bodies[m]) \in Nat /\ m - 1 \in 0 .. Len(bodies) /\ m \in 0 .. Len(bodies)
    BY BodiesAssumption
  <2>2. FrameEnd(bodies, m - 1) \in Nat
    BY <1>4, <2>1
  <2>3. CASE m < n
    <3>1. m \in 0 .. Len(bodies) /\ n - 1 \in m .. Len(bodies)
      BY <2>3
    <3>2. FrameEnd(bodies, n - 1) >= FrameEnd(bodies, m) + 2 * (n - 1 - m)
      BY <3>1, FrameEndMonotone
    <3>3. FrameEnd(bodies, m) = FrameEnd(bodies, m - 1) + 2 + Len(bodies[m])
      BY <1>4
    <3>4. FrameEnd(bodies, m - 1) + k \in 1 .. Len(wire)
      <4>1. /\ FrameEnd(bodies, m) \in Nat /\ FrameEnd(bodies, n - 1) \in Nat
            /\ n - 1 - m >= 0 /\ k \in Int /\ k >= 1 /\ k <= Len(bodies[m]) + 2
        BY <1>4, <1>5, <2>1, <2>3
      <4>2. FrameEnd(bodies, m) <= FrameEnd(bodies, n - 1)
        BY <3>2, <4>1
      <4>3. FrameEnd(bodies, m - 1) + k <= FrameEnd(bodies, m)
        BY <2>1, <2>2, <3>3, <4>1
      <4>4. FrameEnd(bodies, m - 1) + k <= FrameEnd(bodies, n - 1)
        BY <2>2, <4>1, <4>2, <4>3
      <4>5. QED BY <2>2, <4>1, <4>4
    <3>5. FrameEnd(bodies, m - 1) + k <= Len(wire)
      BY <3>4
    <3>6. QED BY <1>3, <3>4, <3>5 DEF IsFramed
  <2>4. CASE m = n
    BY <1>3, <2>4
  <2>5. CASE m > n
    <3>1. m - 1 \in n .. Len(bodies)
      BY <2>5
    <3>2. FrameEnd(bodies, m - 1) >= FrameEnd(bodies, n) + 2 * (m - 1 - n)
      BY <1>5, <3>1, FrameEndMonotone
    <3>3. FrameEnd(bodies, n) \in Nat /\ k >= 1 /\ k \in Int
      BY <1>4, <1>5, <2>1
    <3>4. FALSE
      BY <1>6, <1>8, <2>2, <2>5, <3>2, <3>3
    <3>5. QED BY <3>4
  <2>6. QED BY <2>3, <2>4, <2>5
<1>9. QED BY <1>3, <1>6, <1>7, <1>8 DEF IsFramed, more

-----------------------------------------------------------------------------
(* The sender                                                              *)

(* What the sender has put on its way: the bytes of the stream and, after  *)
(* them, the part of the batch that send() has not accepted.               *)
Wire == stream \o SubSeq(CurrentOutputPacket, WritePtr + 1, Len(CurrentOutputPacket))

(* How many of the composed bodies have been merged into a batch.          *)
Merged == Len(composed) - Queued(OutputPackets, 1)

(* The sender's invariant.  The wire is the frames of the composed bodies, *)
(* in order, as far as it goes; until the sender closes it ends with the   *)
(* last merged one, whose end is also where the sender's keystream stands, *)
(* and the queue holds the bodies that follow.                             *)
Sending ==
    /\ IsFramed(composed, Wire)
    /\ fin => spc = "closed"
    /\ spc # "closed" =>
         /\ WritePtr <= Len(CurrentOutputPacket)
         /\ CurrentOutputPacket = << >> \/ spc = "merge" => WritePtr = 0
         /\ Merged \in 0 .. Len(composed)
         /\ Len(Wire) = FrameEnd(composed, Merged)
         /\ SendKey = KeyAt(composed, Merged)
         /\ \A i \in 1 .. Len(OutputPackets) :
              OutputPackets[i] # << >> =>
                OutputPackets[i] =
                  Vector(composed[Len(composed) + 1 - Queued(OutputPackets, i)])

(* A place further on in the queue has no more bodies behind it.           *)
LEMMA QueuedMonotone ==
    ASSUME NEW pkts \in Seq(Vectors), NEW i \in 1 .. Len(pkts) + 1
    PROVE  Queued(pkts, i) <= Queued(pkts, 1)
<1> DEFINE T == {k \in 1 .. Len(pkts) + 1 : ~(Queued(pkts, k) <= Queued(pkts, 1))}
<1> SUFFICES ASSUME T # {} PROVE FALSE
  OBVIOUS
<1>1. PICK k \in T : \A j \in T : k <= j
  <2>1. T \in SUBSET Nat
    OBVIOUS
  <2>2. QED BY <2>1, LeastElement
<1>2. Queued(pkts, 1) \in Nat
  <2>1. 1 \in 1 .. Len(pkts) + 1
    OBVIOUS
  <2>2. QED BY <2>1, QueuedStep
<1>3. k \in 2 .. Len(pkts) + 1
  BY <1>2
<1>4. k - 1 \in 1 .. Len(pkts) + 1 /\ k - 1 <= Len(pkts) /\ k - 1 + 1 = k
      /\ ~(k <= k - 1) /\ k \in 1 .. Len(pkts) + 1
  BY <1>3
<1>5. Queued(pkts, k - 1) <= Queued(pkts, 1)
  BY <1>1, <1>4
<1>6. /\ Queued(pkts, k - 1) = Queued(pkts, k) + (IF pkts[k - 1] # << >> THEN 1 ELSE 0)
      /\ Queued(pkts, k) \in Nat
  BY <1>4, QueuedStep
<1>7. QED BY <1>2, <1>5, <1>6

(* The wire is bytes, and the stream is its beginning.                     *)
LEMMA WireType ==
    ASSUME TypeOK
    PROVE  /\ Wire \in Seq(Byte)
           /\ Len(stream) <= Len(Wire)
           /\ \A i \in 1 .. Len(stream) : Wire[i] = stream[i]
<1> DEFINE rest == SubSeq(CurrentOutputPacket, WritePtr + 1, Len(CurrentOutputPacket))
<1>1. stream \in Seq(Byte) /\ CurrentOutputPacket \in Seq(Byte) /\ WritePtr \in Nat
  BY DEF TypeOK
<1>2. rest \in Seq(Byte)
  <2>1. CASE WritePtr <= Len(CurrentOutputPacket)
    <3>1. /\ WritePtr + 1 \in 1 .. Len(CurrentOutputPacket) + 1
          /\ Len(CurrentOutputPacket) \in WritePtr + 1 - 1 .. Len(CurrentOutputPacket)
      BY <1>1, <2>1
    <3>2. QED BY <1>1, <3>1, SubSeqType
  <2>2. CASE WritePtr > Len(CurrentOutputPacket)
    <3>1. /\ WritePtr + 1 \in Int /\ Len(CurrentOutputPacket) \in Int
          /\ \A i \in WritePtr + 1 .. Len(CurrentOutputPacket) :
               CurrentOutputPacket[i] \in Byte
      BY <1>1, <2>2
    <3>2. QED BY <1>1, <3>1, SubSeqProperties
  <2>3. QED BY <1>1, <2>1, <2>2
<1>3. Wire = stream \o rest
  BY DEF Wire
<1> HIDE DEF rest
<1>4. /\ stream \o rest \in Seq(Byte)
      /\ Len(stream \o rest) = Len(stream) + Len(rest)
      /\ \A i \in 1 .. Len(stream) : (stream \o rest)[i] = stream[i]
  BY <1>1, <1>2, ConcatProperties
<1>5. QED BY <1>1, <1>2, <1>3, <1>4

(* The bytes of the stream are framed.                                     *)
LEMMA StreamFramed ==
    ASSUME TypeOK, Sending
    PROVE  IsFramed(composed, stream)
<1>1. composed \in Seq(Bodies) /\ stream \in Seq(Byte)
  BY DEF TypeOK
<1>2. IsFramed(composed, Wire)
  BY DEF Sending
<1>3. /\ Wire \in Seq(Byte) /\ Len(stream) <= Len(Wire)
      /\ \A i \in 1 .. Len(stream) : stream[i] = Wire[i]
  BY WireType
<1>4. QED BY <1>1, <1>2, <1>3, FramedPrefix

(* Steps that leave the queue, the batch and the stream as they are.       *)
LEMMA SendingUntouched ==
    ASSUME TypeOK, Sending,
           UNCHANGED <<composed, OutputPackets, CurrentOutputPacket, WritePtr,
                       SendKey, stream, fin>>,
           spc' = "closed" <=> spc = "closed",
           spc' = "merge" => spc = "merge" \/ CurrentOutputPacket = << >>
    PROVE  Sending'
<1>1. Wire' = Wire /\ Merged' = Merged
  BY DEF Wire, Merged
<1>2. QED BY <1>1 DEF Sending

(* A part of send(): the wire is the same before and after.                *)
LEMMA SendKeepsWire ==
    ASSUME TypeOK, Sending, SendSome
    PROVE  /\ Wire' = Wire
           /\ WritePtr' <= Len(CurrentOutputPacket')
           /\ CurrentOutputPacket' = << >> => WritePtr' = 0
<1> DEFINE batch == CurrentOutputPacket
           left == Len(batch) - WritePtr
<1>1. PICK n \in 1 .. Smaller(left, SocketBuffer - InFlight) :
        /\ stream' = stream \o SubSeq(batch, WritePtr + 1, WritePtr + n)
        /\ IF n < left
             THEN WritePtr' = WritePtr + n /\ UNCHANGED CurrentOutputPacket
             ELSE WritePtr' = 0 /\ CurrentOutputPacket' = << >>
  BY DEF SendSome, WritePtrAfter
<1>2. /\ stream \in Seq(Byte) /\ batch \in Seq(Byte) /\ WritePtr \in Nat
      /\ Len(batch) \in Nat /\ n \in Nat /\ n >= 1 /\ n <= left
  BY SizeAssumption DEF Smaller, InFlight, TypeOK
<1>3. WritePtr + n <= Len(batch) /\ WritePtr + n \in Nat
  BY <1>2
<1> DEFINE part == SubSeq(batch, WritePtr + 1, WritePtr + n)
           rest == SubSeq(batch, WritePtr + n + 1, Len(batch))
<1>4. part \o rest = SubSeq(batch, WritePtr + 1, Len(batch))
  <2>1. /\ WritePtr + 1 \in 1 .. Len(batch) + 1
        /\ WritePtr + n \in WritePtr + 1 - 1 .. Len(batch)
        /\ Len(batch) \in WritePtr + n .. Len(batch)
    BY <1>2, <1>3
  <2>2. QED BY <1>2, <2>1, ConcatAdjacentSubSeq
<1>5. part \in Seq(Byte) /\ rest \in Seq(Byte)
  <2>1. /\ WritePtr + 1 \in 1 .. Len(batch) + 1
        /\ WritePtr + n \in WritePtr + 1 - 1 .. Len(batch)
        /\ WritePtr + n + 1 \in 1 .. Len(batch) + 1
        /\ Len(batch) \in WritePtr + n + 1 - 1 .. Len(batch)
    BY <1>2, <1>3
  <2>2. QED BY <1>2, <2>1, SubSeqType
<1>6. (stream \o part) \o rest = Wire
  <2> HIDE DEF part, rest
  <2>1. (stream \o part) \o rest = stream \o (part \o rest)
    BY <1>2, <1>5, ConcatAssociative
  <2>2. QED BY <1>4, <2>1 DEF Wire
<1>7. CASE n < left
  <2>1. WritePtr' = WritePtr + n /\ CurrentOutputPacket' = batch /\ batch # << >>
    BY <1>1, <1>2, <1>7
  <2>2. Wire' = (stream \o part) \o rest
    BY <1>1, <2>1 DEF Wire
  <2>3. QED BY <1>3, <1>6, <2>1, <2>2
<1>8. CASE ~(n < left)
  <2>1. WritePtr' = 0 /\ CurrentOutputPacket' = << >> /\ WritePtr + n = Len(batch)
    BY <1>1, <1>2, <1>8
  <2>2. rest = << >> /\ SubSeq(<< >>, 1, 0) = << >>
    BY <1>2, <2>1
  <2>3. (stream \o part) \o << >> = stream \o part /\ (stream \o part) \in Seq(Byte)
    BY <1>2, <1>5, ConcatProperties, ConcatEmptySeq
  <2>4. Wire' = (stream \o part) \o << >>
    <3>1. Wire' = stream' \o SubSeq(<< >>, 0 + 1, Len(<< >>))
      BY <2>1 DEF Wire
    <3>2. 0 + 1 = 1 /\ Len(<< >>) = 0
      OBVIOUS
    <3>3. QED BY <1>1, <2>2, <3>1, <3>2
  <2>5. Wire' = Wire
    BY <1>6, <2>2, <2>4
  <2>6. 0 <= Len(<< >>)
    OBVIOUS
  <2>7. QED BY <2>1, <2>5, <2>6
<1>9. QED BY <1>7, <1>8

(* A composed body waits behind the others; what is before it keeps its    *)
(* place, on the wire and in the queue.                                    *)
LEMMA SendingCompose ==
    ASSUME TypeOK, Sending, ComposeOutput
    PROVE  Sending'
<1>1. PICK b \in Bodies : /\ composed' = Append(composed, b)
                          /\ OutputPackets' = Append(OutputPackets, Vector(b))
  BY DEF ComposeOutput
<1>2. UNCHANGED <<CurrentOutputPacket, WritePtr, SendKey, spc, stream, fin>>
  BY DEF ComposeOutput
<1>3. /\ composed \in Seq(Bodies) /\ composed' \in Seq(Bodies)
      /\ Len(composed') = Len(composed) + 1 /\ Len(composed) \in Nat
      /\ composed'[Len(composed) + 1] = b
      /\ \A i \in 1 .. Len(composed) : composed'[i] = composed[i]
  BY <1>1 DEF TypeOK
<1>4. Vector(b) \in Vectors /\ Vector(b) # << >>
  BY VectorType
<1>5. /\ OutputPackets \in Seq(Vectors) /\ Len(OutputPackets) \in Nat
      /\ Len(OutputPackets') = Len(OutputPackets) + 1
      /\ OutputPackets'[Len(OutputPackets) + 1] = Vector(b)
      /\ \A i \in 1 .. Len(OutputPackets) : OutputPackets'[i] = OutputPackets[i]
  BY <1>1, <1>4 DEF TypeOK
<1>6. \A i \in 1 .. Len(OutputPackets) + 1 :
        /\ Queued(OutputPackets', i) = Queued(OutputPackets, i) + 1
        /\ Queued(OutputPackets, i) \in Nat
        /\ Queued(OutputPackets, i) <= Queued(OutputPackets, 1)
  BY <1>1, <1>4, <1>5, QueuedAppend, QueuedStep, QueuedMonotone
<1>7. Wire' = Wire /\ IsFramed(composed', Wire)
  <2>1. Wire' = Wire
    BY <1>2 DEF Wire
  <2>2. Wire \in Seq(Byte) /\ IsFramed(composed, Wire)
    BY WireType DEF Sending
  <2>3. IsFramed(Append(composed, b), Wire)
    BY <1>3, <2>2, FramedCompose
  <2>4. QED BY <1>1, <2>1, <2>3
<1>8. spc # "closed"
  BY DEF ComposeOutput
<1>9. /\ WritePtr <= Len(CurrentOutputPacket)
      /\ CurrentOutputPacket = << >> \/ spc = "merge" => WritePtr = 0
      /\ Merged \in 0 .. Len(composed)
      /\ Len(Wire) = FrameEnd(composed, Merged)
      /\ SendKey = KeyAt(composed, Merged)
      /\ \A i \in 1 .. Len(OutputPackets) :
           OutputPackets[i] # << >> =>
             OutputPackets[i] =
               Vector(composed[Len(composed) + 1 - Queued(OutputPackets, i)])
  BY <1>8 DEF Sending
<1>10. Merged' = Merged
  <2>1. 1 \in 1 .. Len(OutputPackets) + 1
    BY <1>5
  <2>2. Queued(OutputPackets', 1) = Queued(OutputPackets, 1) + 1
        /\ Queued(OutputPackets, 1) \in Nat
    BY <1>6, <2>1
  <2>3. QED BY <1>3, <2>2 DEF Merged
<1>11. FrameEnd(composed', Merged) = FrameEnd(composed, Merged)
  <2>1. Len(composed) <= Len(composed')
    BY <1>3
  <2>2. \A n \in 0 .. Len(composed) : FrameEnd(composed', n) = FrameEnd(composed, n)
    BY <1>3, <2>1, FrameEndPrefix
  <2>3. QED BY <1>9, <2>2
<1>12. ASSUME NEW i \in 1 .. Len(OutputPackets'), OutputPackets'[i] # << >>
       PROVE  OutputPackets'[i] =
                Vector(composed'[Len(composed') + 1 - Queued(OutputPackets', i)])
  <2>1. CASE i <= Len(OutputPackets)
    <3>1. /\ i \in 1 .. Len(OutputPackets) /\ i \in 1 .. Len(OutputPackets) + 1
          /\ i + 1 \in 1 .. Len(OutputPackets) + 1
      BY <1>5, <2>1
    <3>2. OutputPackets[i] # << >> /\ OutputPackets'[i] = OutputPackets[i]
      BY <1>5, <1>12, <3>1
    <3>3. /\ Queued(OutputPackets', i) = Queued(OutputPackets, i) + 1
          /\ Queued(OutputPackets, i) \in Nat
          /\ Queued(OutputPackets, i) <= Queued(OutputPackets, 1)
          /\ Queued(OutputPackets, i + 1) \in Nat
      BY <1>6, <3>1
    <3>4. Queued(OutputPackets, i) = Queued(OutputPackets, i + 1) + 1
      BY <1>5, <2>1, <3>1, <3>2, QueuedStep
    <3>5. Queued(OutputPackets, 1) \in Nat /\ Queued(OutputPackets, 1) <= Len(composed)
      <4>1. 1 \in 1 .. Len(OutputPackets) + 1
        BY <1>5
      <4>2. Queued(OutputPackets, 1) \in Nat
        BY <1>6, <4>1
      <4>3. QED BY <1>3, <1>9, <4>2 DEF Merged
    <3> DEFINE at == Len(composed) + 1 - Queued(OutputPackets, i)
    <3>6. at \in 1 .. Len(composed)
          /\ Len(composed') + 1 - Queued(OutputPackets', i) = at
      <4> DEFINE q == Queued(OutputPackets, i)
      <4>1. q \in Nat /\ q >= 1 /\ q <= Len(composed)
        BY <1>3, <3>3, <3>4, <3>5
      <4>2. Queued(OutputPackets', i) = q + 1 /\ at = Len(composed) + 1 - q
        BY <3>3
      <4> HIDE DEF q, at
      <4>3. QED BY <1>3, <4>1, <4>2
    <3>7. OutputPackets[i] = Vector(composed[at])
      BY <1>9, <3>1, <3>2
    <3> HIDE DEF at
    <3>8. QED BY <1>3, <3>2, <3>6, <3>7
  <2>2. CASE i = Len(OutputPackets) + 1
    <3>1. i \in 1 .. Len(OutputPackets) + 1
      BY <1>5, <2>2
    <3>2. Queued(OutputPackets, i) = 0 /\ Queued(OutputPackets', i) = Queued(OutputPackets, i) + 1
      BY <1>5, <1>6, <2>2, <3>1, QueuedStep
    <3>3. Len(composed') + 1 - Queued(OutputPackets', i) = Len(composed) + 1
      BY <1>3, <3>2
    <3>4. QED BY <1>3, <1>5, <2>2, <3>3
  <2>3. QED BY <1>5, <2>1, <2>2
<1>13. fin' => spc' = "closed"
  BY <1>2 DEF Sending
<1>14. Merged' \in 0 .. Len(composed') /\ SendKey' = KeyAt(composed', Merged')
  BY <1>2, <1>3, <1>9, <1>10, <1>11 DEF KeyAt
<1>15. Len(Wire') = FrameEnd(composed', Merged')
  BY <1>7, <1>9, <1>10, <1>11
<1>16. /\ WritePtr' <= Len(CurrentOutputPacket')
       /\ CurrentOutputPacket' = << >> \/ spc' = "merge" => WritePtr' = 0
       /\ IsFramed(composed', Wire')
  BY <1>2, <1>7, <1>9
<1>17. QED BY <1>12, <1>13, <1>14, <1>15, <1>16 DEF Sending

(* An empty vector is queued: nobody's place changes.                      *)
LEMMA SendingComposeEmpty ==
    ASSUME TypeOK, Sending, ComposeEmpty
    PROVE  Sending'
<1>1. /\ OutputPackets' = Append(OutputPackets, << >>)
      /\ UNCHANGED <<composed, CurrentOutputPacket, WritePtr, SendKey, spc, stream, fin>>
  BY DEF ComposeEmpty
<1>2. << >> \in Vectors
  BY DEF Vectors
<1>3. OutputPackets \in Seq(Vectors) /\ Len(OutputPackets) \in Nat
  BY DEF TypeOK
<1>4. /\ Len(OutputPackets') = Len(OutputPackets) + 1
      /\ OutputPackets'[Len(OutputPackets) + 1] = << >>
      /\ \A i \in 1 .. Len(OutputPackets) : OutputPackets'[i] = OutputPackets[i]
  BY <1>1, <1>3
<1>5. \A i \in 1 .. Len(OutputPackets) + 1 :
        Queued(OutputPackets', i) = Queued(OutputPackets, i)
  <2> TAKE i \in 1 .. Len(OutputPackets) + 1
  <2>1. Queued(Append(OutputPackets, << >>), i) = Queued(OutputPackets, i) + 0
    BY <1>2, <1>3, QueuedAppend
  <2>2. Queued(OutputPackets, i) \in Nat
    BY <1>3, QueuedStep
  <2>3. QED BY <1>1, <2>1, <2>2
<1>6. Wire' = Wire
  BY <1>1 DEF Wire
<1>7. Merged' = Merged
  <2>1. 1 \in 1 .. Len(OutputPackets) + 1
    BY <1>3
  <2>2. QED BY <1>1, <1>5, <2>1 DEF Merged
<1>8. spc # "closed"
  BY DEF ComposeEmpty
<1>9. ASSUME NEW i \in 1 .. Len(OutputPackets'), OutputPackets'[i] # << >>
      PROVE  OutputPackets'[i] =
               Vector(composed'[Len(composed') + 1 - Queued(OutputPackets', i)])
  <2>1. i \in 1 .. Len(OutputPackets) /\ i \in 1 .. Len(OutputPackets) + 1
    BY <1>3, <1>4, <1>9
  <2>2. /\ OutputPackets'[i] = OutputPackets[i]
        /\ Queued(OutputPackets', i) = Queued(OutputPackets, i)
    BY <1>4, <1>5, <2>1
  <2>3. OutputPackets[i] = Vector(composed[Len(composed) + 1 - Queued(OutputPackets, i)])
    BY <1>8, <1>9, <2>1, <2>2 DEF Sending
  <2>4. QED BY <1>1, <2>2, <2>3
<1>10. QED BY <1>1, <1>6, <1>7, <1>8, <1>9 DEF Sending

(* A merged body's frame is the next one on the wire.                      *)
LEMMA SendingMerge ==
    ASSUME TypeOK, Sending, MergePacket
    PROVE  Sending'
<1> DEFINE pkt == Head(OutputPackets)
           rest == Tail(OutputPackets)
<1>1. /\ spc = "merge" /\ OutputPackets # << >> /\ OutputPackets' = rest
      /\ UNCHANGED <<composed, WritePtr, spc, stream, fin>>
  BY DEF MergePacket, Merging
<1>2. /\ composed \in Seq(Bodies) /\ Len(composed) \in Nat
      /\ OutputPackets \in Seq(Vectors) /\ Len(OutputPackets) \in Nat
      /\ CurrentOutputPacket \in Seq(Byte) /\ stream \in Seq(Byte)
  BY DEF TypeOK
<1>3. /\ rest \in Seq(Vectors) /\ Len(OutputPackets) = Len(rest) + 1 /\ Len(rest) \in Nat
      /\ \A i \in 1 .. Len(rest) : rest[i] = OutputPackets[i + 1]
      /\ pkt = OutputPackets[1] /\ pkt \in Vectors
  BY <1>1, <1>2
<1> HIDE DEF rest, pkt
<1>4. \A i \in 1 .. Len(rest) + 1 : Queued(rest, i) = Queued(OutputPackets, i + 1)
  BY <1>2, <1>3, QueuedSame
<1>5. /\ Queued(OutputPackets, 1) \in Nat /\ Queued(OutputPackets, 2) \in Nat
      /\ Queued(OutputPackets, 1)
           = Queued(OutputPackets, 2) + (IF pkt # << >> THEN 1 ELSE 0)
      /\ Queued(rest, 1) = Queued(OutputPackets, 2)
  <2>1. /\ 1 \in 1 .. Len(OutputPackets) + 1 /\ 2 \in 1 .. Len(OutputPackets) + 1
        /\ 1 \in 1 .. Len(rest) + 1 /\ 1 <= Len(OutputPackets) /\ 1 + 1 = 2
    BY <1>3
  <2>2. Queued(OutputPackets, 1)
          = Queued(OutputPackets, 1 + 1) + (IF OutputPackets[1] # << >> THEN 1 ELSE 0)
    BY <1>2, <2>1, QueuedStep
  <2>3. Queued(rest, 1) = Queued(OutputPackets, 1 + 1)
    BY <1>4, <2>1
  <2>4. Queued(OutputPackets, 1) \in Nat /\ Queued(OutputPackets, 2) \in Nat
    BY <1>2, <2>1, QueuedStep
  <2>5. QED BY <1>3, <2>1, <2>2, <2>3, <2>4
<1>6. /\ IsFramed(composed, Wire) /\ WritePtr = 0
      /\ Merged \in 0 .. Len(composed)
      /\ Len(Wire) = FrameEnd(composed, Merged)
      /\ SendKey = KeyAt(composed, Merged)
      /\ \A i \in 1 .. Len(OutputPackets) :
           OutputPackets[i] # << >> =>
             OutputPackets[i] =
               Vector(composed[Len(composed) + 1 - Queued(OutputPackets, i)])
  BY <1>1 DEF Sending
<1>7. Wire = stream \o CurrentOutputPacket
  <2>1. SubSeq(CurrentOutputPacket, 1, Len(CurrentOutputPacket)) = CurrentOutputPacket
    BY <1>2
  <2>2. WritePtr + 1 = 1
    BY <1>6
  <2>3. QED BY <2>1, <2>2 DEF Wire
<1>8. ASSUME NEW i \in 1 .. Len(rest), rest[i] # << >>
      PROVE  rest[i] = Vector(composed[Len(composed) + 1 - Queued(rest, i)])
  <2>1. i + 1 \in 1 .. Len(OutputPackets) /\ i \in 1 .. Len(rest) + 1
    BY <1>3
  <2>2. rest[i] = OutputPackets[i + 1] /\ Queued(rest, i) = Queued(OutputPackets, i + 1)
    BY <1>3, <1>4, <2>1
  <2>3. QED BY <1>6, <1>8, <2>1, <2>2
<1>9. /\ IsFramed(composed, Wire') /\ Merged' \in 0 .. Len(composed)
      /\ Len(Wire') = FrameEnd(composed, Merged')
      /\ SendKey' = KeyAt(composed, Merged')
      /\ 0 <= Len(CurrentOutputPacket')
  <2>1. CASE pkt = << >>
    <3>1. UNCHANGED <<CurrentOutputPacket, SendKey>>
      BY <2>1 DEF MergePacket, pkt
    <3>2. Wire' = Wire
      BY <1>1, <3>1 DEF Wire
    <3>3. Merged' = Merged
      BY <1>1, <1>5, <2>1 DEF Merged
    <3>4. QED BY <1>2, <1>6, <3>1, <3>2, <3>3
  <2>2. CASE pkt # << >>
    <3>1. /\ CurrentOutputPacket' = CurrentOutputPacket \o Framed(SendKey, pkt)
          /\ SendKey' = SendKey + BodySize(pkt)
      BY <2>2 DEF MergePacket, pkt
    <3> DEFINE n == Merged + 1
    <3>2. /\ n \in 1 .. Len(composed) /\ n - 1 = Merged /\ n = Merged + 1
          /\ Merged' = n /\ Len(composed) + 1 - Queued(OutputPackets, 1) = n
      BY <1>1, <1>2, <1>5, <1>6, <2>2 DEF Merged
    <3>3. pkt = Vector(composed[n])
      <4>1. 1 \in 1 .. Len(OutputPackets)
        BY <1>3
      <4>2. QED BY <1>3, <1>6, <2>2, <3>2, <4>1
    <3> HIDE DEF n
    <3>4. Framed(SendKey, pkt) = FrameOf(composed, n)
      BY <1>6, <3>2, <3>3 DEF FrameOf
    <3>5. Framed(SendKey, pkt) \in Seq(Byte) /\ BodySize(pkt) = Len(composed[n])
      <4>1. KeyAt(composed, Merged) \in Nat
        BY <1>2, <1>6, KeyAtStep
      <4>2. Framed(SendKey, pkt) \in Seq(Byte)
        BY <1>3, <1>6, <2>2, <4>1, FramedType
      <4>3. composed[n] \in Seq(Byte)
        BY <1>2, <3>2, BodiesAssumption
      <4>4. BodySize(pkt) = Len(composed[n])
        BY <3>3, <4>3 DEF BodySize, Vector
      <4>5. QED BY <4>2, <4>4
    <3>6. CurrentOutputPacket' \in Seq(Byte)
      BY <1>2, <3>1, <3>5, ConcatProperties
    <3>7. Wire' = Wire \o FrameOf(composed, n)
      <4>1. (stream \o CurrentOutputPacket) \o Framed(SendKey, pkt)
              = stream \o (CurrentOutputPacket \o Framed(SendKey, pkt))
        BY <1>2, <3>5, ConcatAssociative
      <4>2. SubSeq(CurrentOutputPacket', 1, Len(CurrentOutputPacket')) = CurrentOutputPacket'
        BY <3>6
      <4>3. WritePtr' + 1 = 1 /\ stream' = stream
        BY <1>1, <1>6
      <4>4. Wire' = stream \o CurrentOutputPacket'
        BY <4>2, <4>3 DEF Wire
      <4>5. QED BY <1>7, <3>1, <3>4, <4>1, <4>4
    <3>8. Wire \in Seq(Byte)
      BY WireType
    <3>9. Len(Wire) = FrameEnd(composed, n - 1)
      BY <1>6, <3>2
    <3>10. /\ Len(Wire \o FrameOf(composed, n)) = FrameEnd(composed, n)
           /\ IsFramed(composed, Wire \o FrameOf(composed, n))
      BY <1>2, <1>6, <3>2, <3>8, <3>9, FramedMerge
    <3>11. SendKey' = KeyAt(composed, n)
      BY <1>2, <1>6, <3>1, <3>2, <3>5, KeyAtStep
    <3>12. n \in 0 .. Len(composed) /\ 0 <= Len(CurrentOutputPacket')
      BY <3>2, <3>6
    <3>13. QED BY <3>2, <3>7, <3>10, <3>11, <3>12
  <2>3. QED BY <2>1, <2>2
<1>10. /\ fin' => spc' = "closed" 
       /\ WritePtr' = 0 /\ composed' = composed /\ OutputPackets' = rest
  BY <1>1, <1>6 DEF Sending
<1>11. QED BY <1>8, <1>9, <1>10 DEF Sending

(* A part of the batch sent: it moves from the batch to the stream.        *)
LEMMA SendingSend ==
    ASSUME TypeOK, Sending, SendSome
    PROVE  Sending'
<1>1. /\ UNCHANGED <<composed, OutputPackets, SendKey, fin>>
      /\ spc = "send" /\ spc' = "idle"
  BY DEF SendSome
<1>2. /\ Wire' = Wire
      /\ WritePtr' <= Len(CurrentOutputPacket')
      /\ CurrentOutputPacket' = << >> => WritePtr' = 0
  BY SendKeepsWire
<1>3. Merged' = Merged
  BY <1>1 DEF Merged
<1>4. QED BY <1>1, <1>2, <1>3 DEF Sending

(* The socket closed: what the stream holds is still framed.               *)
LEMMA SendingClose ==
    ASSUME TypeOK, Sending, Close
    PROVE  Sending'
<1>1. /\ spc' = "closed" /\ CurrentOutputPacket' = << >>
      /\ UNCHANGED <<composed, WritePtr, stream>>
  BY DEF Close
<1>2. Wire' = stream
  <2>1. /\ WritePtr \in Nat /\ stream \in Seq(Byte) /\ Len(<< >>) = 0
        /\ WritePtr + 1 \in Int /\ 0 < WritePtr + 1 /\ 0 \in Int
    BY DEF TypeOK
  <2>2. SubSeq(<< >>, WritePtr + 1, 0) = << >>
    BY <2>1, SubSeqEmpty
  <2>3. stream \o << >> = stream
    BY <2>1, ConcatEmptySeq
  <2>4. Wire' = stream \o SubSeq(<< >>, WritePtr + 1, Len(<< >>))
    BY <1>1 DEF Wire
  <2>5. QED BY <2>1, <2>2, <2>3, <2>4
<1>3. IsFramed(composed, stream)
  BY StreamFramed
<1>4. QED BY <1>1, <1>2, <1>3 DEF Sending

(* The sender's invariant holds for every set of bodies, limit and size.   *)
THEOREM SenderCorrect == Spec => []Sending
<1>1. Init => Sending
  <2> SUFFICES ASSUME Init PROVE Sending
    OBVIOUS
  <2>1. /\ composed = << >> /\ OutputPackets = << >> /\ CurrentOutputPacket = << >>
        /\ WritePtr = 0 /\ SendKey = 0 /\ spc = "idle" /\ stream = << >> /\ fin = FALSE
    BY DEF Init
  <2>2. composed \in Seq(Bodies) /\ OutputPackets \in Seq(Vectors)
        /\ Len(composed) = 0 /\ Len(OutputPackets) = 0
    BY <2>1
  <2>3. Queued(OutputPackets, 1) = 0
    <3>1. 1 \in 1 .. Len(OutputPackets) + 1 /\ 1 = Len(OutputPackets) + 1
      BY <2>2
    <3>2. QED BY <2>2, <3>1, QueuedStep
  <2>4. Merged = 0 /\ Len(Wire) = 0
    <3>1. Merged = 0
      BY <2>2, <2>3 DEF Merged
    <3>2. Wire = << >>
      BY <2>1 DEF Wire
    <3>3. QED BY <3>1, <3>2
  <2>5. FrameEnd(composed, 0) = 0 /\ KeyAt(composed, 0) = 0
    BY <2>2, FrameEndStep, KeyAtStep
  <2>6. IsFramed(composed, Wire)
    BY <2>2, <2>4, <2>5 DEF IsFramed
  <2>7. WritePtr <= Len(CurrentOutputPacket) /\ Merged \in 0 .. Len(composed)
    BY <2>1, <2>2, <2>4
  <2>8. QED BY <2>1, <2>2, <2>4, <2>5, <2>6, <2>7 DEF Sending
<1>2. TypeOK /\ Sending /\ [Next]_vars => Sending'
  <2> SUFFICES ASSUME TypeOK, Sending, [Next]_vars PROVE Sending'
    OBVIOUS
  <2>1. CASE ComposeOutput
    BY <2>1, SendingCompose
  <2>2. CASE ComposeEmpty
    BY <2>2, SendingComposeEmpty
  <2>3. CASE MergePacket
    BY <2>3, SendingMerge
  <2>4. CASE SendSome
    BY <2>4, SendingSend
  <2>5. CASE Close
    BY <2>5, SendingClose
  <2>6. CASE OnWrite
    <3>1. /\ UNCHANGED <<composed, OutputPackets, CurrentOutputPacket, WritePtr,
                         SendKey, stream, fin>>
          /\ spc = "idle"
          /\ spc' = IF CurrentOutputPacket = << >> THEN "merge" ELSE "send"
      BY <2>6 DEF OnWrite
    <3>2. QED BY <3>1, SendingUntouched
  <2>7. CASE EndMerge
    <3>1. /\ UNCHANGED <<composed, OutputPackets, CurrentOutputPacket,
                         SendKey, stream, fin>>
          /\ spc = "merge" /\ WritePtr' = 0
          /\ spc' = IF CurrentOutputPacket = << >> THEN "idle" ELSE "send"
      BY <2>7 DEF EndMerge
    <3>2. WritePtr = 0
      BY <3>1 DEF Sending
    <3>3. QED BY <3>1, <3>2, SendingUntouched
  <2>8. CASE SendInterrupted \/ SendFails
    <3>1. /\ UNCHANGED <<composed, OutputPackets, CurrentOutputPacket, WritePtr,
                         SendKey, stream, fin>>
          /\ spc = "send" /\ spc' \in {"idle", "failed"}
      BY <2>8 DEF SendInterrupted, SendFails
    <3>2. QED BY <3>1, SendingUntouched
  <2>9. CASE Break \/ Receiver \/ UNCHANGED vars
    <3>1. UNCHANGED <<composed, OutputPackets, CurrentOutputPacket, WritePtr,
                      SendKey, stream, fin, spc>>
      BY <2>9 DEF Break, Receiver, OnRead, FillInputBuffer, FillSome,
         FillWouldBlock, FillEof, FillError, MakePackets, MakePacketsWaits,
         ReadHeader0, ReadHeader1, HeaderDone, ReadBodyByte, CompletePacket,
         vars, senderVars
    <3>2. QED BY <3>1, SendingUntouched
  <2>10. QED
    BY <2>1, <2>2, <2>3, <2>4, <2>5, <2>6, <2>7, <2>8, <2>9
    DEF Next, Sender, Send
<1>3. QED BY <1>1, <1>2, TypeCorrect, PTL DEF Spec

-----------------------------------------------------------------------------
(* The receiver                                                            *)

(* The hypothesis of the theorems on what is received: every body's length *)
(* fits the two bytes of its header (the code casts it without a check).   *)
BodiesFit == \A b \in Bodies : Len(b) < BYTE * BYTE

(* How many bytes of the stream the receiver has parsed.                   *)
Parsed == received - Available(HeadIndex, TailIndex)

(* The place of the body whose frame the receiver is in.                   *)
Current == Len(InputPackets) + 1

(* The receiver's invariant.  Its packets are the composed bodies, its     *)
(* keystream stands where the next body begins, and what it has parsed     *)
(* since the last packet is the beginning of the next body's frame.        *)
Receiving ==
    /\ InOrder
    /\ RecvKey = KeyAt(composed, Len(InputPackets))
    /\ m_readState # "READ_HEADER_0" => Len(InputPackets) < Len(composed)
    /\ m_readState = "READ_HEADER_0" =>
         Parsed = FrameEnd(composed, Len(InputPackets))
    /\ m_readState = "READ_HEADER_1" =>
         /\ Parsed = FrameEnd(composed, Len(InputPackets)) + 1
         /\ CurrentInputPacketLength = Len(composed[Current]) % BYTE
    /\ m_readState = "READ_HEADER_DONE" =>
         /\ Parsed = FrameEnd(composed, Len(InputPackets)) + 2
         /\ CurrentInputPacketLength = Len(composed[Current])
    /\ m_readState = "READ_BODY" =>
         /\ Parsed = FrameEnd(composed, Len(InputPackets)) + 2
                       + Len(CurrentInputPacket)
         /\ CurrentInputPacketLength = Len(composed[Current])
         /\ Len(CurrentInputPacket) <= CurrentInputPacketLength
         /\ \A k \in 1 .. Len(CurrentInputPacket) :
              CurrentInputPacket[k] = Crypt(RecvKey, composed[Current])[k]
    /\ rpc = "dropped" => m_readState = "READ_HEADER_DONE" /\ TooLong

(* Two header bytes give back a length that fits them.                     *)
LEMMA LengthBack ==
    ASSUME NEW n \in Nat, n < BYTE * BYTE
    PROVE  ((n \div BYTE) % BYTE) * BYTE + (n % BYTE) = n
<1>1. BYTE \in Nat /\ BYTE >= 2
  BY ByteAssumption
<1> DEFINE q == n \div BYTE
           r == n % BYTE
<1>2. q \in Nat /\ r \in 0 .. BYTE - 1 /\ n = BYTE * q + r
  BY <1>1
<1> HIDE DEF q, r
<1>3. q < BYTE
  <2> SUFFICES ASSUME q >= BYTE PROVE FALSE
    BY <1>1, <1>2
  <2>1. BYTE * q >= BYTE * BYTE
    BY <1>1, <1>2
  <2>2. BYTE * q \in Nat /\ BYTE * BYTE \in Nat
    BY <1>1, <1>2
  <2> DEFINE x == BYTE * q
             y == BYTE * BYTE
  <2>3. x >= y /\ x \in Nat /\ y \in Nat /\ n = x + r /\ n < y /\ r >= 0
    BY <1>2, <2>1, <2>2
  <2> HIDE DEF x, y
  <2>4. QED BY <1>2, <2>3
<1>4. q % BYTE = q
  BY <1>1, <1>2, <1>3
<1>5. BYTE * q = q * BYTE
  BY <1>1, <1>2
<1>6. (q % BYTE) * BYTE + r = n
  BY <1>2, <1>4, <1>5
<1>7. q = n \div BYTE /\ r = n % BYTE
  BY DEF q, r
<1>8. QED BY <1>6, <1>7, Zenon

(* The receiver's invariant on the composed bodies and what was parsed:    *)
(* a body composed behind the others, or a byte received and not parsed,   *)
(* disturbs nothing.                                                       *)
LEMMA ReceivingUntouched ==
    ASSUME TypeOK, Receiving, composed' \in Seq(Bodies),
           Len(composed) <= Len(composed'),
           \A i \in 1 .. Len(composed) : composed'[i] = composed[i],
           UNCHANGED packetVars, Parsed' = Parsed,
           rpc' = "dropped" => rpc = "dropped"
    PROVE  Receiving'
<1>1. /\ composed \in Seq(Bodies) /\ InputPackets \in Seq(Seq(Byte))
      /\ Len(InputPackets) \in Nat /\ Len(composed) \in Nat
  BY DEF TypeOK
<1>2. UNCHANGED <<m_readState, CurrentInputPacketLength, CurrentInputPacket,
                  InputPackets, RecvKey>>
  BY DEF packetVars
<1>3. /\ Len(InputPackets) <= Len(composed)
      /\ \A i \in 1 .. Len(InputPackets) : InputPackets[i] = composed[i]
  BY DEF Receiving, InOrder
<1>4. InOrder'
  <2>1. /\ Len(InputPackets) <= Len(composed')
        /\ \A i \in 1 .. Len(InputPackets) : i \in 1 .. Len(composed)
    BY <1>1, <1>3
  <2>2. QED BY <1>2, <1>3, <2>1 DEF InOrder
<1>5. FrameEnd(composed', Len(InputPackets)) = FrameEnd(composed, Len(InputPackets))
  <2>1. \A n \in 0 .. Len(composed) : FrameEnd(composed', n) = FrameEnd(composed, n)
    BY <1>1, FrameEndPrefix
  <2>2. Len(InputPackets) \in 0 .. Len(composed)
    BY <1>1, <1>3
  <2>3. QED BY <2>1, <2>2
<1>6. KeyAt(composed', Len(InputPackets)) = KeyAt(composed, Len(InputPackets))
  BY <1>5 DEF KeyAt
<1>7. Current' = Current
  BY <1>2 DEF Current
<1>8. m_readState # "READ_HEADER_0" => composed'[Current] = composed[Current]
  <2>1. m_readState # "READ_HEADER_0" => Current \in 1 .. Len(composed)
    BY <1>1 DEF Receiving, Current
  <2>2. QED BY <2>1
<1>9. m_readState' # "READ_HEADER_0" => Len(InputPackets') < Len(composed')
  BY <1>1, <1>2 DEF Receiving
<1>10. TooLong' = TooLong
  BY <1>2 DEF TooLong
<1>11. QED BY <1>2, <1>4, <1>5, <1>6, <1>7, <1>8, <1>9, <1>10 DEF Receiving

(* The byte MakePackets takes is the next one of the frame it is in, and   *)
(* that frame is a composed body's.                                        *)
LEMMA NextFrameByte ==
    ASSUME TypeOK, RingHoldsStream, Sending, Receiving,
           HasByte, TailIndex' = NextTail,
           UNCHANGED <<InputBuffer, HeadIndex, received, stream>>,
           NEW k \in Nat, k >= 1,
           Parsed = FrameEnd(composed, Len(InputPackets)) + k - 1,
           k = 1 \/ (/\ Len(InputPackets) < Len(composed)
                     /\ k <= Len(composed[Current]) + 2)
    PROVE  /\ Len(InputPackets) < Len(composed)
           /\ Current \in 1 .. Len(composed)
           /\ composed[Current] \in Bodies
           /\ NextByte = Framed(RecvKey, Vector(composed[Current]))[k]
           /\ Parsed' = Parsed + 1
<1>1. /\ composed \in Seq(Bodies) /\ Len(composed) \in Nat
      /\ InputPackets \in Seq(Seq(Byte)) /\ Len(InputPackets) \in Nat
      /\ stream \in Seq(Byte) /\ received \in 0 .. Len(stream) /\ received \in Nat
      /\ Len(stream) \in Nat
  BY DEF TypeOK
<1> DEFINE avail == Available(HeadIndex, TailIndex)
           next == Available(HeadIndex, TailIndex)'
<1>2. /\ avail \in 1 .. received
      /\ NextByte = stream[received - avail + 1]
      /\ next = avail - 1
  BY RingTake
<1>3. Parsed = received - avail /\ Parsed' = received - next
  <2>1. received' = received
    OBVIOUS
  <2>2. QED BY <2>1 DEF Parsed
<1> HIDE DEF avail, next
<1>4. Parsed' = Parsed + 1 /\ Parsed + 1 <= Len(stream) /\ NextByte = stream[Parsed + 1]
  BY <1>1, <1>2, <1>3
<1>5. IsFramed(composed, stream)
  BY StreamFramed
<1>6. Len(InputPackets) <= Len(composed) /\ RecvKey = KeyAt(composed, Len(InputPackets))
  BY DEF Receiving, InOrder
<1>7. /\ FrameEnd(composed, Len(InputPackets)) \in Nat
      /\ FrameEnd(composed, Len(composed)) \in Nat
  <2>1. Len(InputPackets) \in 0 .. Len(composed) /\ Len(composed) \in 0 .. Len(composed)
    BY <1>1, <1>6
  <2>2. QED BY <1>1, <2>1, FrameEndStep
<1>8. Parsed + 1 = FrameEnd(composed, Len(InputPackets)) + k
  BY <1>7
<1>9. Len(InputPackets) < Len(composed)
  <2> SUFFICES ASSUME ~(Len(InputPackets) < Len(composed)) PROVE FALSE
    OBVIOUS
  <2>1. Len(InputPackets) = Len(composed)
    BY <1>1, <1>6
  <2>2. Len(stream) <= FrameEnd(composed, Len(InputPackets))
    BY <1>5, <2>1 DEF IsFramed
  <2>3. QED BY <1>1, <1>4, <1>7, <1>8, <2>2
<1>10. /\ Current \in 1 .. Len(composed) /\ Current - 1 = Len(InputPackets)
       /\ composed[Current] \in Bodies /\ Len(composed[Current]) \in Nat
  <2>1. Current \in 1 .. Len(composed) /\ Current - 1 = Len(InputPackets)
    BY <1>1, <1>9 DEF Current
  <2>2. QED BY <1>1, <2>1, BodiesAssumption
<1>11. k \in 1 .. Len(composed[Current]) + 2
  BY <1>10
<1>12. stream[FrameEnd(composed, Current - 1) + k] = FrameOf(composed, Current)[k]
  <2>1. FrameEnd(composed, Current - 1) + k <= Len(stream)
    BY <1>4, <1>8, <1>10
  <2>2. QED BY <1>5, <1>10, <1>11, <2>1 DEF IsFramed
<1>13. FrameOf(composed, Current) = Framed(RecvKey, Vector(composed[Current]))
  BY <1>6, <1>10 DEF FrameOf
<1>14. QED BY <1>4, <1>8, <1>9, <1>10, <1>12, <1>13

(* The first header byte.                                                  *)
LEMMA ReceivingHeader0 ==
    ASSUME TypeOK, RingHoldsStream, Sending, Receiving, ReadHeader0
    PROVE  Receiving'
<1>1. /\ HasByte /\ TailIndex' = NextTail
      /\ UNCHANGED <<InputBuffer, HeadIndex, received, stream>>
      /\ UNCHANGED <<composed, InputPackets, RecvKey, rpc>>
      /\ m_readState = "READ_HEADER_0" /\ m_readState' = "READ_HEADER_1"
      /\ CurrentInputPacketLength' = NextByte /\ rpc = "make"
  BY DEF ReadHeader0, senderVars
<1>2. Parsed = FrameEnd(composed, Len(InputPackets)) + 1 - 1
      /\ FrameEnd(composed, Len(InputPackets)) \in Nat
  <2>1. Parsed = FrameEnd(composed, Len(InputPackets))
        /\ Len(InputPackets) <= Len(composed)
    BY <1>1 DEF Receiving, InOrder
  <2>2. Len(InputPackets) \in 0 .. Len(composed) /\ composed \in Seq(Bodies)
    BY <2>1 DEF TypeOK
  <2>3. FrameEnd(composed, Len(InputPackets)) \in Nat
    BY <2>2, FrameEndStep
  <2>4. QED BY <2>1, <2>3
<1>3. /\ Len(InputPackets) < Len(composed)
      /\ Current \in 1 .. Len(composed)
      /\ composed[Current] \in Bodies
      /\ NextByte = Framed(RecvKey, Vector(composed[Current]))[1]
      /\ Parsed' = Parsed + 1
  <2>1. 1 \in Nat /\ 1 >= 1
    OBVIOUS
  <2>2. QED BY <1>1, <1>2, <2>1, NextFrameByte
<1>4. NextByte = Len(composed[Current]) % BYTE
  <2>1. RecvKey \in Nat
    BY DEF TypeOK
  <2>2. QED BY <1>3, <2>1, FrameValue
<1>5. Current' = Current /\ Parsed' = FrameEnd(composed, Len(InputPackets)) + 1
  BY <1>1, <1>2, <1>3 DEF Current
<1>6. InOrder'
  BY <1>1 DEF Receiving, InOrder
<1>7. QED BY <1>1, <1>3, <1>4, <1>5, <1>6 DEF Receiving

(* The second header byte: the length is the body's.                       *)
LEMMA ReceivingHeader1 ==
    ASSUME BodiesFit, TypeOK, RingHoldsStream, Sending, Receiving, ReadHeader1
    PROVE  Receiving'
<1>1. /\ HasByte /\ TailIndex' = NextTail
      /\ UNCHANGED <<InputBuffer, HeadIndex, received, stream>>
      /\ UNCHANGED <<composed, InputPackets, RecvKey, rpc>>
      /\ m_readState = "READ_HEADER_1" /\ m_readState' = "READ_HEADER_DONE"
      /\ CurrentInputPacketLength' = NextByte * BYTE + CurrentInputPacketLength
      /\ rpc = "make"
  BY DEF ReadHeader1, senderVars
<1>2. /\ Parsed = FrameEnd(composed, Len(InputPackets)) + 2 - 1
      /\ Parsed = FrameEnd(composed, Len(InputPackets)) + 1
      /\ CurrentInputPacketLength = Len(composed[Current]) % BYTE
      /\ Len(InputPackets) < Len(composed)
      /\ FrameEnd(composed, Len(InputPackets)) \in Nat
  <2>1. /\ Parsed = FrameEnd(composed, Len(InputPackets)) + 1
        /\ CurrentInputPacketLength = Len(composed[Current]) % BYTE
        /\ Len(InputPackets) < Len(composed)
    BY <1>1 DEF Receiving
  <2>2. Len(InputPackets) \in 0 .. Len(composed) /\ composed \in Seq(Bodies)
    BY <2>1 DEF TypeOK
  <2>3. FrameEnd(composed, Len(InputPackets)) \in Nat
    BY <2>2, FrameEndStep
  <2>4. QED BY <2>1, <2>3
<1>3. Current \in 1 .. Len(composed) /\ composed[Current] \in Bodies
      /\ Len(composed[Current]) \in Nat /\ 2 <= Len(composed[Current]) + 2
  <2>1. composed \in Seq(Bodies) /\ Len(composed) \in Nat /\ Len(InputPackets) \in Nat
    BY DEF TypeOK
  <2>2. Current \in 1 .. Len(composed)
    BY <1>2, <2>1 DEF Current
  <2>3. composed[Current] \in Bodies /\ Len(composed[Current]) \in Nat
    BY <2>1, <2>2, BodiesAssumption
  <2>4. QED BY <2>2, <2>3
<1>4. /\ NextByte = Framed(RecvKey, Vector(composed[Current]))[2]
      /\ Parsed' = Parsed + 1
  <2>1. 2 \in Nat /\ 2 >= 1
    OBVIOUS
  <2>2. QED BY <1>1, <1>2, <1>3, <2>1, NextFrameByte
<1>5. NextByte = (Len(composed[Current]) \div BYTE) % BYTE
  <2>1. RecvKey \in Nat
    BY DEF TypeOK
  <2>2. QED BY <1>3, <1>4, <2>1, FrameValue
<1>6. CurrentInputPacketLength' = Len(composed[Current])
  <2> DEFINE n == Len(composed[Current])
  <2>1. n \in Nat /\ n < BYTE * BYTE
    BY <1>3 DEF BodiesFit
  <2>2. ((n \div BYTE) % BYTE) * BYTE + (n % BYTE) = n
    BY <2>1, LengthBack
  <2>3. NextByte = (n \div BYTE) % BYTE /\ CurrentInputPacketLength = n % BYTE
    BY <1>2, <1>5
  <2>4. CurrentInputPacketLength' = NextByte * BYTE + CurrentInputPacketLength
    BY <1>1
  <2> HIDE DEF n
  <2>5. CurrentInputPacketLength' = n
    BY <2>2, <2>3, <2>4, Zenon
  <2>6. QED BY <2>5 DEF n
<1>7. Current' = Current /\ Parsed' = FrameEnd(composed, Len(InputPackets)) + 2
  BY <1>1, <1>2, <1>4 DEF Current
<1>8. InOrder'
  BY <1>1 DEF Receiving, InOrder
<1>9. QED BY <1>1, <1>2, <1>6, <1>7, <1>8 DEF Receiving

(* The length accepted, or the connection dropped for it.                  *)
LEMMA ReceivingHeaderDone ==
    ASSUME TypeOK, Receiving, HeaderDone
    PROVE  Receiving'
<1>1. /\ UNCHANGED <<composed, received, HeadIndex, TailIndex,
                     CurrentInputPacketLength, InputPackets, RecvKey>>
      /\ m_readState = "READ_HEADER_DONE" /\ rpc = "make"
  BY DEF HeaderDone, senderVars, ringVars
<1>2. /\ Parsed' = Parsed /\ Current' = Current /\ InOrder' /\ TooLong' = TooLong
  BY <1>1 DEF Parsed, Current, Receiving, InOrder, TooLong
<1>3. CASE TooLong
  <2>1. rpc' = "dropped" /\ UNCHANGED <<m_readState, CurrentInputPacket>>
    BY <1>3 DEF HeaderDone
  <2>2. QED BY <1>1, <1>2, <1>3, <2>1 DEF Receiving
<1>4. CASE ~TooLong
  <2>1. CurrentInputPacket' = << >> /\ m_readState' = "READ_BODY" /\ rpc' = rpc
    BY <1>4 DEF HeaderDone
  <2>2. /\ Parsed = FrameEnd(composed, Len(InputPackets)) + 2
        /\ CurrentInputPacketLength = Len(composed[Current])
        /\ CurrentInputPacketLength \in Nat
        /\ Len(InputPackets) <= Len(composed)
    BY <1>1, LengthRange DEF Receiving, InOrder, TypeOK
  <2>3. FrameEnd(composed, Len(InputPackets)) \in Nat
    <3>1. Len(InputPackets) \in 0 .. Len(composed) /\ composed \in Seq(Bodies)
      BY <2>2 DEF TypeOK
    <3>2. QED BY <3>1, FrameEndStep
  <2>4. /\ Parsed' = FrameEnd(composed', Len(InputPackets')) + 2
                       + Len(CurrentInputPacket')
        /\ Len(CurrentInputPacket') <= CurrentInputPacketLength'
        /\ \A k \in 1 .. Len(CurrentInputPacket') :
             CurrentInputPacket'[k] = Crypt(RecvKey', composed'[Current'])[k]
    <3>1. Len(<< >>) = 0
      OBVIOUS
    <3>2. QED BY <1>1, <1>2, <2>1, <2>2, <2>3, <3>1
  <2>5. QED BY <1>1, <1>2, <2>1, <2>2, <2>4 DEF Receiving
<1>5. QED BY <1>3, <1>4

(* The next byte of the body.                                              *)
LEMMA ReceivingBodyByte ==
    ASSUME TypeOK, RingHoldsStream, Sending, Receiving, ReadBodyByte
    PROVE  Receiving'
<1> DEFINE size == Len(CurrentInputPacket)
<1>1. /\ HasByte /\ TailIndex' = NextTail
      /\ UNCHANGED <<InputBuffer, HeadIndex, received, stream>>
      /\ UNCHANGED <<composed, InputPackets, RecvKey, rpc, m_readState,
                     CurrentInputPacketLength>>
      /\ m_readState = "READ_BODY"
      /\ CurrentInputPacket' = Append(CurrentInputPacket, NextByte)
      /\ rpc = "make" /\ Remaining > 0
  BY DEF ReadBodyByte, senderVars
<1>2. /\ composed \in Seq(Bodies) /\ Len(composed) \in Nat
      /\ InputPackets \in Seq(Seq(Byte)) /\ Len(InputPackets) \in Nat
      /\ CurrentInputPacket \in Seq(Byte) /\ size \in Nat /\ RecvKey \in Nat
  BY DEF TypeOK
<1>3. /\ Parsed = FrameEnd(composed, Len(InputPackets)) + 2 + size
      /\ CurrentInputPacketLength = Len(composed[Current])
      /\ Len(InputPackets) < Len(composed)
      /\ \A k \in 1 .. size :
           CurrentInputPacket[k] = Crypt(RecvKey, composed[Current])[k]
  BY <1>1 DEF Receiving
<1>4. Current \in 1 .. Len(composed) /\ composed[Current] \in Bodies
      /\ Len(composed[Current]) \in Nat /\ size + 1 <= Len(composed[Current])
  <2>1. Current \in 1 .. Len(composed)
    BY <1>2, <1>3 DEF Current
  <2>2. composed[Current] \in Bodies /\ Len(composed[Current]) \in Nat
    BY <1>2, <2>1, BodiesAssumption
  <2>3. QED BY <1>1, <1>2, <1>3, <2>1, <2>2 DEF Remaining
<1>5. FrameEnd(composed, Len(InputPackets)) \in Nat
  <2>1. Len(InputPackets) \in 0 .. Len(composed)
    BY <1>2, <1>3
  <2>2. QED BY <1>2, <2>1, FrameEndStep
<1> DEFINE k == size + 3
<1>6. /\ k \in Nat /\ k >= 1 /\ k <= Len(composed[Current]) + 2
      /\ Parsed = FrameEnd(composed, Len(InputPackets)) + k - 1
      /\ k = 2 + (size + 1)
  BY <1>2, <1>3, <1>4, <1>5
<1> HIDE DEF k, size
<1>7. /\ NextByte = Framed(RecvKey, Vector(composed[Current]))[k]
      /\ Parsed' = Parsed + 1
  BY <1>1, <1>3, <1>6, NextFrameByte
<1>8. NextByte = Crypt(RecvKey, composed[Current])[size + 1]
  <2>1. size + 1 \in 1 .. Len(composed[Current])
    BY <1>2, <1>4
  <2>2. QED BY <1>2, <1>4, <1>6, <1>7, <2>1, FrameValue
<1>9. /\ Len(CurrentInputPacket') = size + 1
      /\ \A i \in 1 .. size : CurrentInputPacket'[i] = CurrentInputPacket[i]
      /\ CurrentInputPacket'[size + 1] = NextByte
  <2>1. NextByte \in Byte
    BY TakeAvailable DEF TypeOK, NextByte, NextTail
  <2>2. QED BY <1>1, <1>2, <2>1 DEF size
<1>10. /\ Parsed' = FrameEnd(composed, Len(InputPackets)) + 2 + (size + 1)
       /\ size + 1 <= CurrentInputPacketLength
  BY <1>2, <1>3, <1>4, <1>5, <1>7
<1>11. ASSUME NEW i \in 1 .. Len(CurrentInputPacket')
       PROVE  CurrentInputPacket'[i] = Crypt(RecvKey, composed[Current])[i]
  <2>1. i \in 1 .. size \/ i = size + 1
    BY <1>2, <1>9
  <2>2. QED BY <1>3, <1>8, <1>9, <2>1
<1>12. Current' = Current /\ InOrder'
  BY <1>1 DEF Current, Receiving, InOrder
<1>13. QED BY <1>1, <1>3, <1>9, <1>10, <1>11, <1>12 DEF Receiving

(* A complete packet decrypts to the next body.                            *)
LEMMA CompletesNext ==
    ASSUME TypeOK, Receiving, CompletePacket
    PROVE  /\ Current \in 1 .. Len(composed)
           /\ InputPackets' = Append(InputPackets, composed[Current])
           /\ Len(CurrentInputPacket) = Len(composed[Current])
<1>1. /\ m_readState = "READ_BODY" /\ Remaining = 0
      /\ InputPackets' = Append(InputPackets, Crypt(RecvKey, CurrentInputPacket))
  BY DEF CompletePacket
<1>2. /\ composed \in Seq(Bodies) /\ Len(composed) \in Nat
      /\ InputPackets \in Seq(Seq(Byte)) /\ Len(InputPackets) \in Nat
      /\ CurrentInputPacket \in Seq(Byte) /\ Len(CurrentInputPacket) \in Nat
      /\ RecvKey \in Nat
  BY DEF TypeOK
<1>3. /\ CurrentInputPacketLength = Len(composed[Current])
      /\ Len(InputPackets) < Len(composed)
      /\ \A k \in 1 .. Len(CurrentInputPacket) :
           CurrentInputPacket[k] = Crypt(RecvKey, composed[Current])[k]
  BY <1>1 DEF Receiving
<1>4. Current \in 1 .. Len(composed) /\ composed[Current] \in Seq(Byte)
      /\ Len(composed[Current]) \in Nat
  <2>1. Current \in 1 .. Len(composed)
    BY <1>2, <1>3 DEF Current
  <2>2. QED BY <1>2, <2>1, BodiesAssumption
<1>5. Len(CurrentInputPacket) = Len(composed[Current])
  BY <1>1, <1>2, <1>3, <1>4 DEF Remaining
<1> DEFINE text == Crypt(RecvKey, composed[Current])
<1>6. text \in Seq(Byte) /\ Len(text) = Len(composed[Current])
      /\ Crypt(RecvKey, text) = composed[Current]
  BY <1>2, <1>4, CryptType, CryptInverse
<1> HIDE DEF text
<1>7. CurrentInputPacket = text
  <2>1. \A k \in 1 .. Len(CurrentInputPacket) : CurrentInputPacket[k] = text[k]
    BY <1>3 DEF text
  <2>2. QED BY <1>2, <1>5, <1>6, <2>1, SeqEqual
<1>8. QED BY <1>1, <1>4, <1>5, <1>6, <1>7

(* The packet queued: the receiver is where the next frame begins.         *)
LEMMA ReceivingComplete ==
    ASSUME TypeOK, Receiving, CompletePacket
    PROVE  Receiving'
<1>1. /\ UNCHANGED <<composed, received, HeadIndex, TailIndex, rpc>>
      /\ m_readState = "READ_BODY" /\ m_readState' = "READ_HEADER_0"
      /\ RecvKey' = RecvKey + Len(CurrentInputPacket) /\ rpc = "make"
  BY DEF CompletePacket, RecvKeyAfter, senderVars, ringVars
<1>2. /\ composed \in Seq(Bodies) /\ Len(composed) \in Nat
      /\ InputPackets \in Seq(Seq(Byte)) /\ Len(InputPackets) \in Nat
  BY DEF TypeOK
<1>3. /\ Current \in 1 .. Len(composed)
      /\ InputPackets' = Append(InputPackets, composed[Current])
      /\ Len(CurrentInputPacket) = Len(composed[Current])
  BY CompletesNext
<1>4. /\ Parsed = FrameEnd(composed, Len(InputPackets)) + 2 + Len(composed[Current])
      /\ RecvKey = KeyAt(composed, Len(InputPackets))
      /\ Len(InputPackets) <= Len(composed)
      /\ \A i \in 1 .. Len(InputPackets) : InputPackets[i] = composed[i]
  BY <1>1, <1>3 DEF Receiving, InOrder
<1>5. composed[Current] \in Seq(Byte)
  BY <1>2, <1>3, BodiesAssumption
<1>6. /\ Len(InputPackets') = Current /\ Current - 1 = Len(InputPackets)
      /\ \A i \in 1 .. Len(InputPackets) : InputPackets'[i] = InputPackets[i]
      /\ InputPackets'[Current] = composed[Current]
  BY <1>2, <1>3, <1>5 DEF Current
<1>7. Parsed' = FrameEnd(composed, Current)
  <2>1. FrameEnd(composed, Current)
          = FrameEnd(composed, Current - 1) + 2 + Len(composed[Current])
    BY <1>2, <1>3, FrameEndStep
  <2>2. Parsed' = Parsed
    BY <1>1 DEF Parsed
  <2>3. QED BY <1>4, <1>6, <2>1, <2>2
<1>8. RecvKey' = KeyAt(composed, Current)
  BY <1>1, <1>2, <1>3, <1>4, <1>6, KeyAtStep
<1>9. InOrder'
  <2>1. Current <= Len(composed)
    BY <1>3
  <2>2. ASSUME NEW i \in 1 .. Current
        PROVE  InputPackets'[i] = composed[i]
    <3>1. i \in 1 .. Len(InputPackets) \/ i = Current
      BY <1>2, <1>6
    <3>2. QED BY <1>4, <1>6, <3>1
  <2>3. QED BY <1>1, <1>6, <2>1, <2>2 DEF InOrder
<1>10. QED BY <1>1, <1>6, <1>7, <1>8, <1>9 DEF Receiving

-----------------------------------------------------------------------------
(* What the channel delivers                                               *)

(* The rest of the receiver's invariant: it waits for bytes only where a   *)
(* frame is incomplete, and reports the end of the stream only when it has *)
(* taken all of it.                                                        *)
Waiting ==
    /\ rpc \in {"idle", "fill", "eof"} =>
         \/ m_readState \in {"READ_HEADER_0", "READ_HEADER_1"}
         \/ m_readState = "READ_BODY" /\ Remaining > 0
    /\ rpc = "eof" => /\ fin /\ received = Len(stream)
                      /\ Available(HeadIndex, TailIndex) = 0

(* recv() changes how much is unread, not how much is parsed.              *)
LEMMA FillKeepsParsed ==
    ASSUME TypeOK, FillSome
    PROVE  Parsed' = Parsed
<1> DEFINE size == FillSize(HeadIndex, TailIndex)
<1>1. PICK n \in IF size = 0 THEN {0} ELSE 1 .. Smaller(size, InFlight) :
        HeadIndex' = Advance(HeadIndex, n) /\ received' = received + n
  BY DEF FillSome
<1>2. TailIndex' = TailIndex /\ HeadIndex \in Index /\ TailIndex \in Index
      /\ received \in Nat
  BY DEF FillSome, TypeOK
<1>3. n \in 0 .. size /\ n \in Nat
  BY <1>2, RingSizeAssumption DEF Smaller, InFlight, FillSize, Index
<1>4. Available(Advance(HeadIndex, n), TailIndex) = Available(HeadIndex, TailIndex) + n
  BY <1>2, <1>3, FillAvailable
<1>5. Available(HeadIndex, TailIndex) \in Int
  BY <1>2, AvailableRange
<1>6. QED BY <1>1, <1>2, <1>3, <1>4, <1>5 DEF Parsed

(* The receiver's invariant holds for every body that fits its header.     *)
THEOREM ReceiverCorrect ==
    ASSUME BodiesFit
    PROVE  Spec => []Receiving
<1>1. Init => Receiving
  <2> SUFFICES ASSUME Init PROVE Receiving
    OBVIOUS
  <2>1. /\ composed = << >> /\ InputPackets = << >> /\ RecvKey = 0
        /\ m_readState = "READ_HEADER_0" /\ rpc = "idle" /\ received = 0
        /\ HeadIndex \in Index
        /\ TailIndex = Advance(HeadIndex, INPUT_BUFFER_SIZE - 1)
    BY StartAssumption DEF Init
  <2>2. composed \in Seq(Bodies) /\ Len(composed) = 0 /\ Len(InputPackets) = 0
    BY <2>1
  <2>3. FrameEnd(composed, 0) = 0 /\ KeyAt(composed, 0) = 0
    BY <2>2, FrameEndStep, KeyAtStep
  <2>4. Parsed = 0
    BY <2>1, EmptyRing DEF Parsed
  <2>5. QED BY <2>1, <2>2, <2>3, <2>4 DEF Receiving, InOrder
<1>2. TypeOK /\ TypeOK' /\ RingHoldsStream /\ Sending /\ Receiving /\ [Next]_vars
        => Receiving'
  <2> SUFFICES ASSUME TypeOK, RingHoldsStream, Sending, Receiving, TypeOK',
                      [Next]_vars
               PROVE  Receiving'
    OBVIOUS
  <2>1. CASE ReadHeader0
    BY <2>1, ReceivingHeader0
  <2>2. CASE ReadHeader1
    BY <2>2, ReceivingHeader1
  <2>3. CASE HeaderDone
    BY <2>3, ReceivingHeaderDone
  <2>4. CASE ReadBodyByte
    BY <2>4, ReceivingBodyByte
  <2>5. CASE CompletePacket
    BY <2>5, ReceivingComplete
  <2>6. composed \in Seq(Bodies) /\ composed' \in Seq(Bodies)
    BY DEF TypeOK
  <2>7. CASE ComposeOutput
    <3>1. /\ Len(composed) <= Len(composed')
          /\ \A i \in 1 .. Len(composed) : composed'[i] = composed[i]
      BY <2>6, <2>7 DEF ComposeOutput
    <3>2. UNCHANGED <<packetVars, ringVars, received, rpc>>
      BY <2>7 DEF ComposeOutput, receiverVars
    <3>3. Parsed' = Parsed
      BY <3>2 DEF Parsed, ringVars
    <3>4. QED BY <2>6, <3>1, <3>2, <3>3, ReceivingUntouched
  <2>8. CASE FillSome
    <3>1. UNCHANGED <<composed, packetVars>> /\ rpc' = "make"
      BY <2>8 DEF FillSome, senderVars
    <3>2. Len(composed) <= Len(composed')
      BY <2>6, <3>1
    <3>3. QED BY <2>6, <2>8, <3>1, <3>2, FillKeepsParsed, ReceivingUntouched
  <2>9. CASE \/ ComposeEmpty \/ OnWrite \/ MergePacket \/ EndMerge \/ Send \/ Close
             \/ Break \/ OnRead \/ FillWouldBlock \/ FillEof \/ FillError
             \/ MakePacketsWaits \/ UNCHANGED vars
    <3>1. /\ UNCHANGED <<composed, packetVars, ringVars, received>>
          /\ rpc' = "dropped" => rpc = "dropped"
      BY <2>9 DEF ComposeEmpty, OnWrite, MergePacket, EndMerge, Send, SendSome,
         SendInterrupted, SendFails, Close, Break, OnRead, FillWouldBlock,
         FillEof, FillError, MakePacketsWaits, vars, senderVars, receiverVars
    <3>2. Parsed' = Parsed
      BY <3>1 DEF Parsed, ringVars
    <3>3. Len(composed) <= Len(composed')
      BY <2>6, <3>1
    <3>4. QED BY <2>6, <3>1, <3>2, <3>3, ReceivingUntouched
  <2>10. QED
    BY <2>1, <2>2, <2>3, <2>4, <2>5, <2>7, <2>8, <2>9
    DEF Next, Sender, Receiver, FillInputBuffer, MakePackets
<1>3. QED BY <1>1, <1>2, TypeCorrect, RingCorrect, SenderCorrect, PTL DEF Spec

(* InOrder is an invariant: whatever the sizes of the sends and receives,  *)
(* the bodies queued for the receiving session are the composed ones, in   *)
(* order and unchanged.                                                    *)
THEOREM DeliveryCorrect ==
    ASSUME BodiesFit
    PROVE  Spec => []InOrder
<1>1. Receiving => InOrder
  BY DEF Receiving
<1>2. QED BY <1>1, ReceiverCorrect, PTL

(* NeverOutOfStep is an invariant: a length the receiver has parsed is the *)
(* length of the body it is about to read.                                 *)
THEOREM StepCorrect ==
    ASSUME BodiesFit
    PROVE  Spec => []NeverOutOfStep
<1>1. Receiving => NeverOutOfStep
  BY DEF Receiving, NeverOutOfStep, HeaderIsBodySize, DropsOnlyOversize,
     TooLong, Current
<1>2. QED BY <1>1, ReceiverCorrect, PTL

(* BatchAccounted is an invariant: no byte accepted by send() is sent      *)
(* twice and none skipped.                                                 *)
THEOREM BatchCorrect == Spec => []BatchAccounted
<1>1. TypeOK /\ Sending => BatchAccounted
  <2> SUFFICES ASSUME TypeOK, Sending, spc # "closed"
               PROVE  Len(stream) + Len(CurrentOutputPacket) - WritePtr
                        = FrameEnd(composed, Len(composed) - Queued(OutputPackets, 1))
    BY DEF BatchAccounted
  <2> DEFINE rest == SubSeq(CurrentOutputPacket, WritePtr + 1, Len(CurrentOutputPacket))
  <2>1. /\ stream \in Seq(Byte) /\ CurrentOutputPacket \in Seq(Byte)
        /\ WritePtr \in Nat /\ WritePtr <= Len(CurrentOutputPacket)
        /\ Len(CurrentOutputPacket) \in Nat /\ Len(stream) \in Nat
    BY DEF TypeOK, Sending
  <2>2. /\ rest \in Seq(Byte)
        /\ Len(rest) = Len(CurrentOutputPacket) - (WritePtr + 1) + 1
    <3>1. /\ WritePtr + 1 \in 1 .. Len(CurrentOutputPacket) + 1
          /\ Len(CurrentOutputPacket) \in WritePtr + 1 - 1 .. Len(CurrentOutputPacket)
      BY <2>1
    <3>2. QED BY <2>1, <3>1, SubSeqType
  <2> HIDE DEF rest
  <2>3. Len(stream \o rest) = Len(stream) + Len(rest)
    <3>1. stream \in Seq(Byte) /\ rest \in Seq(Byte)
      BY <2>1, <2>2
    <3>2. QED BY <3>1, ConcatProperties
  <2>4. Len(stream \o rest) = FrameEnd(composed, Len(composed) - Queued(OutputPackets, 1))
    BY DEF Sending, Wire, Merged, rest
  <2>5. Len(stream) + Len(CurrentOutputPacket) - WritePtr = Len(stream) + Len(rest)
    BY <2>1, <2>2
  <2>6. QED BY <2>3, <2>4, <2>5
<1>2. QED BY <1>1, TypeCorrect, SenderCorrect, PTL

(* The receiver waits, and reports the end, only where Waiting says.       *)
LEMMA WaitingStep ==
    ASSUME TypeOK, Sending, DrainedBeforeFill, Waiting, [Next]_vars
    PROVE  Waiting'
<1>1. CASE FillEof
  <2>1. /\ rpc = "fill" /\ fin /\ InFlight = 0 /\ rpc' = "eof"
        /\ UNCHANGED <<fin, stream, received, HeadIndex, TailIndex,
                       m_readState, CurrentInputPacketLength, CurrentInputPacket>>
    BY <1>1 DEF FillEof, ringVars, packetVars
  <2>2. received = Len(stream) /\ Available(HeadIndex, TailIndex) = 0
    BY <2>1 DEF InFlight, TypeOK, DrainedBeforeFill
  <2>3. QED BY <2>1, <2>2 DEF Waiting, Remaining
<1>2. CASE MakePacketsWaits
  <2>1. /\ rpc' = "fill"
        /\ \/ m_readState \in {"READ_HEADER_0", "READ_HEADER_1"}
           \/ m_readState = "READ_BODY" /\ Remaining > 0
        /\ UNCHANGED <<m_readState, CurrentInputPacketLength, CurrentInputPacket>>
    BY <1>2 DEF MakePacketsWaits, packetVars
  <2>2. QED BY <2>1 DEF Waiting, Remaining
<1>3. CASE OnRead \/ FillWouldBlock
  <2>1. /\ rpc \in {"idle", "fill"} /\ rpc' \in {"idle", "fill"}
        /\ UNCHANGED <<m_readState, CurrentInputPacketLength, CurrentInputPacket>>
    BY <1>3 DEF OnRead, FillWouldBlock, packetVars
  <2>2. QED BY <2>1 DEF Waiting, Remaining
<1>4. CASE \/ FillSome \/ FillError \/ ReadHeader0 \/ ReadHeader1 \/ HeaderDone
           \/ ReadBodyByte \/ CompletePacket
  <2>1. rpc' \in {"make", "error", "dropped"}
    BY <1>4 DEF FillSome, FillError, ReadHeader0, ReadHeader1, HeaderDone,
       ReadBodyByte, CompletePacket
  <2>2. QED BY <2>1 DEF Waiting
<1>5. CASE Sender \/ Break \/ UNCHANGED vars
  <2>1. /\ UNCHANGED <<rpc, m_readState, CurrentInputPacketLength,
                       CurrentInputPacket, received, HeadIndex, TailIndex>>
        /\ fin => fin'
    BY <1>5 DEF Sender, Send, ComposeOutput, ComposeEmpty, OnWrite,
       MergePacket, EndMerge, SendSome, SendInterrupted, SendFails, Close,
       Break, vars, receiverVars, packetVars, ringVars
  <2>2. fin => stream' = stream
    <3>1. fin => spc = "closed"
      BY DEF Sending
    <3>2. spc = "closed" => stream' = stream
      BY <1>5 DEF Sender, Send, ComposeOutput, ComposeEmpty, OnWrite,
         MergePacket, EndMerge, SendSome, SendInterrupted, SendFails, Close,
         Break, vars
    <3>3. QED BY <3>1, <3>2
  <2>3. QED BY <2>1, <2>2 DEF Waiting, Remaining
<1>6. QED
  BY <1>1, <1>2, <1>3, <1>4, <1>5
  DEF Next, Receiver, FillInputBuffer, MakePackets

(* EofAfterLastPacket is an invariant: when the end of the stream is       *)
(* reported, every packet that was sent completely has been queued.        *)
THEOREM EofCorrect ==
    ASSUME BodiesFit
    PROVE  Spec => []EofAfterLastPacket
<1>1. Init => Waiting
  BY DEF Init, Waiting
<1>2. Spec => []Waiting
  BY <1>1, WaitingStep, TypeCorrect, SenderCorrect, NoReadSpin, PTL DEF Spec
<1>3. TypeOK /\ Receiving /\ Waiting => EofAfterLastPacket
  <2> SUFFICES ASSUME TypeOK, Receiving, Waiting, rpc = "eof",
                      NEW n \in 1 .. Len(composed),
                      FrameEnd(composed, n) <= Len(stream),
                      ~(n <= Len(InputPackets))
               PROVE  FALSE
    BY DEF EofAfterLastPacket
  <2>1. /\ composed \in Seq(Bodies) /\ Len(composed) \in Nat
        /\ Len(InputPackets) \in Nat /\ Len(CurrentInputPacket) \in Nat
        /\ Len(stream) \in Nat /\ CurrentInputPacketLength \in Nat
    BY LengthRange DEF TypeOK
  <2>2. /\ Parsed = Len(stream)
        /\ \/ m_readState \in {"READ_HEADER_0", "READ_HEADER_1"}
           \/ m_readState = "READ_BODY" /\ Remaining > 0
    BY <2>1 DEF Waiting, Parsed
  <2>3. Current \in 1 .. Len(composed) /\ Current - 1 = Len(InputPackets)
        /\ n \in Current .. Len(composed) /\ Current \in 0 .. Len(composed)
        /\ Current - 1 \in 0 .. Len(composed)
    BY <2>1 DEF Current
  <2>4. /\ FrameEnd(composed, Current)
             = FrameEnd(composed, Len(InputPackets)) + 2 + Len(composed[Current])
        /\ FrameEnd(composed, Current) \in Nat
        /\ FrameEnd(composed, Len(InputPackets)) \in Nat
        /\ Len(composed[Current]) \in Nat
    BY <2>1, <2>3, FrameEndStep, BodiesAssumption
  <2>5. FrameEnd(composed, n) >= FrameEnd(composed, Current)
    <3>1. FrameEnd(composed, n) >= FrameEnd(composed, Current) + 2 * (n - Current)
      BY <2>1, <2>3, FrameEndMonotone
    <3>2. FrameEnd(composed, n) \in Nat /\ n - Current >= 0 /\ n \in Int /\ Current \in Int
      BY <2>1, <2>3, FrameEndStep
    <3>3. QED BY <2>4, <3>1, <3>2
  <2>6. Parsed < FrameEnd(composed, Current)
    <3>1. CASE m_readState = "READ_HEADER_0"
      <4>1. Parsed = FrameEnd(composed, Len(InputPackets))
        BY <3>1 DEF Receiving
      <4>2. QED BY <2>4, <4>1
    <3>2. CASE m_readState = "READ_HEADER_1"
      <4>1. Parsed = FrameEnd(composed, Len(InputPackets)) + 1
        BY <3>2 DEF Receiving
      <4>2. QED BY <2>4, <4>1
    <3>3. CASE m_readState = "READ_BODY" /\ Remaining > 0
      <4>1. /\ Parsed = FrameEnd(composed, Len(InputPackets)) + 2
                          + Len(CurrentInputPacket)
            /\ CurrentInputPacketLength = Len(composed[Current])
        BY <3>3 DEF Receiving
      <4>2. Len(CurrentInputPacket) < Len(composed[Current])
        BY <2>1, <3>3, <4>1 DEF Remaining
      <4>3. QED BY <2>1, <2>4, <4>1, <4>2
    <3>4. QED BY <2>2, <3>1, <3>2, <3>3
  <2>7. FrameEnd(composed, n) \in Nat
    BY <2>1, FrameEndStep
  <2>8. QED BY <2>1, <2>2, <2>4, <2>5, <2>6, <2>7
<1>4. QED BY <1>2, <1>3, TypeCorrect, ReceiverCorrect, PTL

(* The channel implements the FIFO channel's safety: each of its steps is  *)
(* a Send, a Deliver or a Fail of the abstract channel, or leaves it as it *)
(* is.                                                                     *)
THEOREM FifoCorrect ==
    ASSUME BodiesFit
    PROVE  Spec => Channel!Safety
<1> DEFINE up == /\ ~broken
                 /\ spc \in {"idle", "merge", "send"}
                 /\ rpc \in {"idle", "fill", "make"}
<1>1. Init => Channel!Init
  BY DEF Init, Channel!Init
<1>2. TypeOK /\ Receiving /\ [Next]_vars => [Channel!Next]_(Channel!vars)
  <2> SUFFICES ASSUME TypeOK, Receiving, [Next]_vars
               PROVE  [Channel!Next]_(Channel!vars)
    OBVIOUS
  <2>1. CASE ComposeOutput
    <3>1. /\ \E b \in Bodies : composed' = Append(composed, b)
          /\ InputPackets' = InputPackets /\ (up' <=> up)
      BY <2>1 DEF ComposeOutput, receiverVars, packetVars
    <3>2. Channel!Send
      BY <3>1 DEF Channel!Send
    <3>3. QED BY <3>2 DEF Channel!Next
  <2>2. CASE CompletePacket
    <3>1. Current \in 1 .. Len(composed)
          /\ InputPackets' = Append(InputPackets, composed[Current])
      BY <2>2, CompletesNext
    <3>2. composed' = composed /\ (up' <=> up)
      BY <2>2 DEF CompletePacket, senderVars
    <3>3. Len(InputPackets) < Len(composed)
      BY <3>1 DEF TypeOK, Current
    <3>4. Channel!Deliver
      BY <3>1, <3>2, <3>3 DEF Channel!Deliver, Current
    <3>5. QED BY <3>4 DEF Channel!Next
  <2>3. CASE \/ ComposeEmpty \/ OnWrite \/ MergePacket \/ EndMerge \/ Send \/ Close
             \/ Break \/ OnRead \/ FillInputBuffer \/ MakePacketsWaits
             \/ ReadHeader0 \/ ReadHeader1 \/ HeaderDone \/ ReadBodyByte
             \/ UNCHANGED vars
    <3>1. UNCHANGED <<composed, InputPackets>>
      BY <2>3 DEF ComposeEmpty, OnWrite, MergePacket, EndMerge, Send, SendSome,
         SendInterrupted, SendFails, Close, Break, OnRead, FillInputBuffer,
         FillSome, FillWouldBlock, FillEof, FillError, MakePacketsWaits,
         ReadHeader0, ReadHeader1, HeaderDone, ReadBodyByte, vars, senderVars,
         receiverVars, packetVars
    <3>2. up' => up
      BY <2>3 DEF ComposeEmpty, OnWrite, MergePacket, EndMerge, Send, SendSome,
         SendInterrupted, SendFails, Close, Break, OnRead, FillInputBuffer,
         FillSome, FillWouldBlock, FillEof, FillError, MakePacketsWaits,
         ReadHeader0, ReadHeader1, HeaderDone, ReadBodyByte, vars, senderVars,
         receiverVars, packetVars
    <3>3. CASE up' <=> up
      BY <3>1, <3>3 DEF Channel!vars
    <3>4. CASE ~(up' <=> up)
      <4>1. Channel!Fail
        BY <3>1, <3>2, <3>4 DEF Channel!Fail
      <4>2. QED BY <4>1 DEF Channel!Next
    <3>5. QED BY <3>3, <3>4
  <2>4. QED
    BY <2>1, <2>2, <2>3 DEF Next, Sender, Receiver, MakePackets
<1>3. QED
  BY <1>1, <1>2, TypeCorrect, ReceiverCorrect, PTL DEF Spec, Channel!Safety
=============================================================================
