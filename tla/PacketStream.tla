----------------------------- MODULE PacketStream -----------------------------
(***************************************************************************)
(* The encrypted packet channel of CMSTCPConnection once both ends are in  *)
(* NET_READY: the sending half (OnWrite, NextOutputPacket) of one          *)
(* connection, the TCP stream, and the receiving half (OnRead,             *)
(* FillInputBuffer, OnParsingHeader, MakePackets) of another, both keyed   *)
(* with the same session key.                                              *)
(*                                                                         *)
(* Each half runs on its own event-loop thread; spc and rpc say how far    *)
(* its current handler has come, and one action is one iteration of the    *)
(* handler's loop, so that the halves and the network interleave between   *)
(* any two system calls.                                                   *)
(*                                                                         *)
(* Scale: a byte has BYTE values (256 in the code), so the two header      *)
(* bytes hold a length below BYTE * BYTE.                                  *)
(***************************************************************************)
EXTENDS InputRing, Sequences, FiniteSets

CONSTANTS
    BYTE,               \* number of byte values
    MAX_PACKET_SIZE,    \* longest body the receiver accepts
    BATCH_LIMIT,        \* size at which a batch is closed (0x0FC0)
    Bodies,             \* packet bodies the session may compose
    StartIndices,       \* where the key exchange may leave HeadIndex
    MaxComposed,        \* bound: bodies composed in a behaviour
    SocketBuffer,       \* bytes the kernel holds between send() and recv()
    Period,             \* length after which the RC4 keystream repeats
    Pad                 \* Pad[k][b]: byte b under the k-th keystream byte

Byte == 0 .. BYTE - 1

ASSUME ByteAssumption == BYTE \in Nat /\ BYTE >= 2
ASSUME SizeAssumption == /\ MAX_PACKET_SIZE \in Nat
                         /\ BATCH_LIMIT \in Nat \ {0}
                         /\ MaxComposed \in Nat
                         /\ SocketBuffer \in Nat \ {0}
ASSUME BodiesAssumption == Bodies \subseteq Seq(Byte)
ASSUME StartAssumption == StartIndices \subseteq Index
\* RC4 steps through a finite permutation, so its keystream is periodic; it maps
\* bytes to bytes and is its own inverse at equal keystream positions.
ASSUME PadAssumption ==
    /\ Period \in Nat \ {0}
    /\ Pad \in [0 .. Period - 1 -> [Byte -> Byte]]
    /\ \A k \in 0 .. Period - 1, b \in Byte : Pad[k][Pad[k][b]] = b

VARIABLES
    (* sending connection *)
    composed,               \* history: every body handed to the connection
    OutputPackets,          \* queued vectors; << >> is a null or empty one
    CurrentOutputPacket,    \* the batch being merged or sent; << >> is nullptr
    WritePtr,               \* bytes of the batch already accepted by send()
    SendKey,                \* keystream bytes used by the sender
    spc,                    \* handler position of the sender
    (* network *)
    stream,                 \* every byte send() has accepted
    received,               \* how many of them recv() has returned
    fin,                    \* the sender has closed its socket
    broken,                 \* the network has failed
    (* receiving connection *)
    InputBuffer, HeadIndex, TailIndex,
    m_readState,
    CurrentInputPacketLength,
    CurrentInputPacket,
    InputPackets,           \* decrypted bodies, in arrival order
    RecvKey,                \* keystream bytes used by the receiver
    rpc,                    \* handler position of the receiver
    firstRead               \* argument of the current FillInputBuffer call

senderVars == <<composed, OutputPackets, CurrentOutputPacket, WritePtr,
                SendKey, spc>>
ringVars   == <<InputBuffer, HeadIndex, TailIndex>>
packetVars == <<m_readState, CurrentInputPacketLength, CurrentInputPacket,
                InputPackets, RecvKey>>
receiverVars == <<ringVars, packetVars, rpc, firstRead>>
vars == <<senderVars, stream, received, fin, broken, receiverVars>>

ReadState == {"READ_HEADER_0", "READ_HEADER_1", "READ_HEADER_DONE", "READ_BODY"}

-----------------------------------------------------------------------------
(* Encryption(), Decryption(): RC4 over a text from keystream byte key on. *)
Rc4(key, byte) == Pad[key % Period][byte]
Crypt(key, text) == [i \in 1 .. Len(text) |-> Rc4(key + i - 1, text[i])]

\* Mutant: the header's bytes in the other order.
HeaderBigEndian(n) == <<(n \div BYTE) % BYTE, n % BYTE>>

(* The little-endian uint16 the sender writes for a body of n bytes.       *)
Header(n) == <<n % BYTE, (n \div BYTE) % BYTE>>

(* A queued vector: two placeholder bytes for the header, then the body.   *)
Vector(body) == <<0, 0>> \o body
BodySize(pkt) == Len(pkt) - 2
BodyOf(pkt) == SubSeq(pkt, 3, Len(pkt))

(* What NextOutputPacket appends to the batch for one queued vector.       *)
Framed(key, pkt) == Header(BodySize(pkt)) \o Crypt(key, BodyOf(pkt))

Smaller(a, b) == IF a < b THEN a ELSE b

-----------------------------------------------------------------------------
Init ==
    /\ composed = << >> /\ OutputPackets = << >>
    /\ CurrentOutputPacket = << >> /\ WritePtr = 0
    /\ SendKey = 0 /\ RecvKey = 0
    /\ spc = "idle" /\ rpc = "idle" /\ firstRead = TRUE
    /\ stream = << >> /\ received = 0 /\ fin = FALSE /\ broken = FALSE
    /\ InputBuffer = [i \in Index |-> 0]
    /\ HeadIndex \in StartIndices
    /\ TailIndex = Advance(HeadIndex, INPUT_BUFFER_SIZE - 1)
    /\ m_readState = "READ_HEADER_0"
    /\ CurrentInputPacketLength = 0
    /\ CurrentInputPacket = << >>
    /\ InputPackets = << >>

-----------------------------------------------------------------------------
(* The sending half *)

WriteComplete == CurrentOutputPacket = << >> /\ OutputPackets = << >>

\* The session queues a packet between two events.
ComposeOutput ==
    /\ spc = "idle"
    /\ Len(composed) < MaxComposed
    /\ \E b \in Bodies : /\ composed' = Append(composed, b)
                         /\ OutputPackets' = Append(OutputPackets, Vector(b))
    /\ UNCHANGED <<CurrentOutputPacket, WritePtr, SendKey, spc,
                   stream, received, fin, broken, receiverVars>>

\* The queue may also hold an empty vector; bound: one at a time.
ComposeEmpty ==
    /\ spc = "idle"
    /\ \A i \in 1 .. Len(OutputPackets) : OutputPackets[i] # << >>
    /\ Len(composed) < MaxComposed
    /\ OutputPackets' = Append(OutputPackets, << >>)
    /\ UNCHANGED <<composed, CurrentOutputPacket, WritePtr, SendKey, spc,
                   stream, received, fin, broken, receiverVars>>

\* OnWrite: take up the batch in progress, or start merging a new one.
OnWrite ==
    /\ spc = "idle"
    /\ ~WriteComplete
    /\ spc' = IF CurrentOutputPacket = << >> THEN "merge" ELSE "send"
    /\ UNCHANGED <<composed, OutputPackets, CurrentOutputPacket, WritePtr,
                   SendKey, stream, received, fin, broken, receiverVars>>

\* NextOutputPacket's loop condition: packets left and the batch below the limit.
Merging == OutputPackets # << >> /\ Len(CurrentOutputPacket) < BATCH_LIMIT

\* One iteration of the merge loop: skip an empty vector, or frame, encrypt
\* and append a packet.
MergePacket ==
    /\ spc = "merge"
    /\ Merging
    /\ LET pkt == Head(OutputPackets) IN
         IF pkt = << >>
           THEN UNCHANGED <<CurrentOutputPacket, SendKey>>
           ELSE /\ CurrentOutputPacket' =
                      CurrentOutputPacket \o Framed(SendKey, pkt)
                /\ SendKey' = SendKey + BodySize(pkt)
    /\ OutputPackets' = Tail(OutputPackets)
    /\ UNCHANGED <<composed, WritePtr, spc,
                   stream, received, fin, broken, receiverVars>>

\* The end of NextOutputPacket: only empty vectors leave nothing to send.
EndMerge ==
    /\ spc = "merge"
    /\ ~Merging
    /\ spc' = IF CurrentOutputPacket = << >> THEN "idle" ELSE "send"
    /\ WritePtr' = 0
    /\ UNCHANGED <<composed, OutputPackets, CurrentOutputPacket, SendKey,
                   stream, received, fin, broken, receiverVars>>

InFlight == Len(stream) - received

\* Mutant: set to what this call accepted.
WritePtrRestarts(n) == n

\* Where a partial send() of n bytes leaves WritePtr.
WritePtrAfter(n) == WritePtr + n

\* send() accepts n bytes: all of the batch, or a part to be continued.
SendSome ==
    /\ spc = "send" /\ ~broken
    /\ LET left == Len(CurrentOutputPacket) - WritePtr IN
         \E n \in 1 .. Smaller(left, SocketBuffer - InFlight) :
           /\ stream' = stream \o
                SubSeq(CurrentOutputPacket, WritePtr + 1, WritePtr + n)
           /\ IF n < left
                THEN WritePtr' = WritePtrAfter(n) /\ UNCHANGED CurrentOutputPacket
                ELSE WritePtr' = 0 /\ CurrentOutputPacket' = << >>
    /\ spc' = "idle"
    /\ UNCHANGED <<composed, OutputPackets, SendKey,
                   received, fin, broken, receiverVars>>

\* Mutant: an interrupted send() frees the batch.
SendInterruptedDrops ==
    /\ spc = "send"
    /\ spc' = "idle"
    /\ CurrentOutputPacket' = << >> /\ WritePtr' = 0
    /\ UNCHANGED <<composed, OutputPackets,
                   SendKey, stream, received, fin, broken, receiverVars>>

\* send() returns EAGAIN or EINTR: the batch stays for the next OnWrite.
SendInterrupted ==
    /\ spc = "send"
    /\ spc' = "idle"
    /\ UNCHANGED <<composed, OutputPackets, CurrentOutputPacket, WritePtr,
                   SendKey, stream, received, fin, broken, receiverVars>>

\* send() fails: OnWrite returns false and the connection leaves NET_READY.
SendFails ==
    /\ spc = "send" /\ broken
    /\ spc' = "failed"
    /\ UNCHANGED <<composed, OutputPackets, CurrentOutputPacket, WritePtr,
                   SendKey, stream, received, fin, broken, receiverVars>>

\* Close: the socket is closed and every queued packet freed.
Close ==
    /\ spc \in {"idle", "failed"}
    /\ spc' = "closed"
    /\ fin' = TRUE
    /\ OutputPackets' = << >>
    /\ CurrentOutputPacket' = << >>
    /\ UNCHANGED <<composed, WritePtr, SendKey, stream, received, broken,
                   receiverVars>>

-----------------------------------------------------------------------------
(* The network *)

\* A failure of the network, seen by either end at its next system call.
Break == /\ ~broken
         /\ broken' = TRUE
         /\ UNCHANGED <<senderVars, stream, received, fin, receiverVars>>

-----------------------------------------------------------------------------
(* The receiving half *)

Readable == InFlight > 0 \/ fin \/ broken

\* The event loop calls OnRead while the socket is readable.
OnRead ==
    /\ rpc = "idle"
    /\ Readable
    /\ rpc' = "fill" /\ firstRead' = TRUE
    /\ UNCHANGED <<senderVars, stream, received, fin, broken,
                   ringVars, packetVars>>

\* FillInputBuffer returns 1: recv() gave n bytes, or the ring was full.
FillSome ==
    /\ rpc = "fill"
    /\ LET size == FillSize(HeadIndex, TailIndex) IN
         \E n \in IF size = 0 THEN {0} ELSE 1 .. Smaller(size, InFlight) :
           /\ InputBuffer' = Filled(InputBuffer, HeadIndex, n,
                                SubSeq(stream, received + 1, received + n))
           /\ HeadIndex' = Advance(HeadIndex, n)
           /\ received' = received + n
    /\ rpc' = "make"
    /\ UNCHANGED <<senderVars, stream, fin, broken,
                   TailIndex, packetVars, firstRead>>

\* FillInputBuffer returns 0 and OnRead true: EAGAIN, EINTR, or the end of
\* the stream met by a call that is not the first of this OnRead.
FillWouldBlock ==
    /\ rpc = "fill"
    /\ FillSize(HeadIndex, TailIndex) > 0
    /\ rpc' = "idle"
    /\ UNCHANGED <<senderVars, stream, received, fin, broken,
                   ringVars, packetVars, firstRead>>

\* Mutant: the test of firstRead is inverted.
FillEofLater ==
    /\ rpc = "fill" /\ ~firstRead
    /\ FillSize(HeadIndex, TailIndex) > 0
    /\ fin /\ InFlight = 0
    /\ rpc' = "eof"
    /\ UNCHANGED <<senderVars, stream, received, fin, broken,
                   ringVars, packetVars, firstRead>>

\* FillInputBuffer returns -1 on the end of the stream: OnRead returns false.
FillEof ==
    /\ rpc = "fill" /\ firstRead
    /\ FillSize(HeadIndex, TailIndex) > 0
    /\ fin /\ InFlight = 0
    /\ rpc' = "eof"
    /\ UNCHANGED <<senderVars, stream, received, fin, broken,
                   ringVars, packetVars, firstRead>>

\* FillInputBuffer returns -1 on an error: OnRead returns false.
FillError ==
    /\ rpc = "fill" /\ broken
    /\ FillSize(HeadIndex, TailIndex) > 0
    /\ rpc' = "error"
    /\ UNCHANGED <<senderVars, stream, received, fin, broken,
                   ringVars, packetVars, firstRead>>

NextTail == Advance(TailIndex, 1)

\* Mutant: one cell short of the head.
HasTwoBytes == HeadIndex \notin {NextTail, Advance(NextTail, 1)}

HasByte == NextTail # HeadIndex
NextByte == InputBuffer[NextTail]

Remaining == CurrentInputPacketLength - Len(CurrentInputPacket)

\* MakePackets stops for want of a byte; OnRead goes on to fill the ring again.
MakePacketsWaits ==
    /\ rpc = "make"
    /\ ~HasByte
    /\ \/ m_readState \in {"READ_HEADER_0", "READ_HEADER_1"}
       \/ m_readState = "READ_BODY" /\ Remaining > 0
    /\ rpc' = "fill" /\ firstRead' = FALSE
    /\ UNCHANGED <<senderVars, stream, received, fin, broken,
                   ringVars, packetVars>>

ReadHeader0 ==
    /\ rpc = "make" /\ m_readState = "READ_HEADER_0" /\ HasByte
    /\ TailIndex' = NextTail
    /\ CurrentInputPacketLength' = NextByte
    /\ m_readState' = "READ_HEADER_1"
    /\ UNCHANGED <<senderVars, stream, received, fin, broken, InputBuffer,
                   HeadIndex, CurrentInputPacket, InputPackets, RecvKey,
                   rpc, firstRead>>

ReadHeader1 ==
    /\ rpc = "make" /\ m_readState = "READ_HEADER_1" /\ HasByte
    /\ TailIndex' = NextTail
    /\ CurrentInputPacketLength' = NextByte * BYTE + CurrentInputPacketLength
    /\ m_readState' = "READ_HEADER_DONE"
    /\ UNCHANGED <<senderVars, stream, received, fin, broken, InputBuffer,
                   HeadIndex, CurrentInputPacket, InputPackets, RecvKey,
                   rpc, firstRead>>

TooLong == CurrentInputPacketLength > MAX_PACKET_SIZE

\* The length is known: accept it, or drop the connection.
HeaderDone ==
    /\ rpc = "make" /\ m_readState = "READ_HEADER_DONE"
    /\ IF TooLong
         THEN rpc' = "dropped" /\ UNCHANGED <<m_readState, CurrentInputPacket>>
         ELSE /\ CurrentInputPacket' = << >>
              /\ m_readState' = "READ_BODY"
              /\ UNCHANGED rpc
    /\ UNCHANGED <<senderVars, stream, received, fin, broken, ringVars,
                   CurrentInputPacketLength, InputPackets, RecvKey, firstRead>>
ReadBodyByte ==
    /\ rpc = "make" /\ m_readState = "READ_BODY"
    /\ Remaining > 0 /\ HasByte
    /\ TailIndex' = NextTail
    /\ CurrentInputPacket' = Append(CurrentInputPacket, NextByte)
    /\ UNCHANGED <<senderVars, stream, received, fin, broken, InputBuffer,
                   HeadIndex, m_readState, CurrentInputPacketLength,
                   InputPackets, RecvKey, rpc, firstRead>>

\* Mutant: every packet is decrypted from the same position.
RecvKeyRewound == RecvKey

\* The keystream position after decrypting the packet.
RecvKeyAfter == RecvKey + Len(CurrentInputPacket)

\* The body is complete: decrypt it and queue it for the session.
CompletePacket ==
    /\ rpc = "make" /\ m_readState = "READ_BODY"
    /\ Remaining = 0
    /\ InputPackets' = Append(InputPackets, Crypt(RecvKey, CurrentInputPacket))
    /\ RecvKey' = RecvKeyAfter
    /\ CurrentInputPacket' = << >>
    /\ m_readState' = "READ_HEADER_0"
    /\ UNCHANGED <<senderVars, stream, received, fin, broken, ringVars,
                   CurrentInputPacketLength, rpc, firstRead>>

-----------------------------------------------------------------------------
Send == SendSome \/ SendInterrupted \/ SendFails

Sender == \/ ComposeOutput \/ ComposeEmpty \/ OnWrite \/ MergePacket
          \/ EndMerge \/ Send \/ Close

FillInputBuffer == FillSome \/ FillWouldBlock \/ FillEof \/ FillError

MakePackets == \/ MakePacketsWaits \/ ReadHeader0 \/ ReadHeader1
               \/ HeaderDone \/ ReadBodyByte \/ CompletePacket

Receiver == OnRead \/ FillInputBuffer \/ MakePackets

Next == Sender \/ Break \/ Receiver

(* A handler that has begun runs to its end, system calls return (the      *)
(* socket does not block), and the event loop serves a socket that stays   *)
(* ready.  A call may be interrupted, but not for ever: a send() with room *)
(* and a recv() with bytes, an end or an error to return succeed if tried  *)
(* again and again.                                                        *)
Fairness ==
    /\ WF_vars(OnWrite) /\ WF_vars(MergePacket) /\ WF_vars(EndMerge)
    /\ WF_vars(Send) /\ SF_vars(SendSome)
    /\ WF_vars(OnRead) /\ WF_vars(FillInputBuffer) /\ WF_vars(MakePackets)
    /\ SF_vars(FillSome) /\ SF_vars(FillEof) /\ SF_vars(FillError)

Spec == Init /\ [][Next]_vars
FairSpec == Spec /\ Fairness

-----------------------------------------------------------------------------
(* Properties *)

(* A queued vector is empty or has room for the header. *)
Vectors == {v \in Seq(Byte) : v = << >> \/ Len(v) >= 2}

(* Every variable has its type; in particular the ring's indices stay       *)
(* inside the array and a parsed length inside its two bytes.              *)
TypeOK ==
    /\ composed \in Seq(Bodies)
    /\ OutputPackets \in Seq(Vectors)
    /\ CurrentOutputPacket \in Seq(Byte) /\ WritePtr \in Nat
    /\ SendKey \in Nat
    /\ spc \in {"idle", "merge", "send", "failed", "closed"}
    /\ stream \in Seq(Byte) /\ received \in 0 .. Len(stream)
    /\ fin \in BOOLEAN /\ broken \in BOOLEAN
    /\ InputBuffer \in [Index -> Byte]
    /\ HeadIndex \in Index /\ TailIndex \in Index
    /\ m_readState \in ReadState
    /\ CurrentInputPacketLength \in 0 .. BYTE * BYTE - 1
    /\ m_readState = "READ_HEADER_1" => CurrentInputPacketLength \in Byte
    /\ CurrentInputPacket \in Seq(Byte)
    /\ InputPackets \in Seq(Seq(Byte))
    /\ RecvKey \in Nat
    /\ rpc \in {"idle", "fill", "make", "eof", "error", "dropped"}
    /\ firstRead \in BOOLEAN

(* The ring holds exactly the bytes received and not yet parsed, in order, *)
(* across every wrap of the head and of the tail: what FillInputBuffer and *)
(* MakePackets agree on through HeadIndex and TailIndex alone.             *)
RingHoldsStream ==
    LET avail == Available(HeadIndex, TailIndex) IN
      /\ avail <= received
      /\ \A i \in 1 .. avail :
           InputBuffer[Advance(TailIndex, i)] = stream[received - avail + i]

(* MakePackets leaves nothing it could have parsed: whenever FillInputBuffer*)
(* is about to run the ring is empty, so it is never full and the loop of   *)
(* OnRead, which takes a full ring for received data, cannot spin.          *)
DrainedBeforeFill ==
    rpc \in {"idle", "fill"} => Available(HeadIndex, TailIndex) = 0

(* "Length is body size": a length the receiver has parsed is the length   *)
(* of the next body the sender composed, however the stream was cut.       *)
HeaderIsBodySize ==
    m_readState \in {"READ_HEADER_DONE", "READ_BODY"} =>
      /\ Len(InputPackets) < Len(composed)
      /\ CurrentInputPacketLength = Len(composed[Len(InputPackets) + 1])

(* The receiver drops a connection only for a body that really is longer   *)
(* than MAX_PACKET_SIZE, never because it lost its place in the stream.    *)
DropsOnlyOversize ==
    rpc = "dropped" =>
      Len(composed[Len(InputPackets) + 1]) > MAX_PACKET_SIZE

(* Both: the receiver never takes other bytes for a header.                *)
NeverOutOfStep == HeaderIsBodySize /\ DropsOnlyOversize

(* Bodies arrive unchanged, in order, none twice: both ends use the same   *)
(* keystream bytes for the same body, and resuming a partial send() or a   *)
(* partial body neither repeats nor skips a byte.                          *)
InOrder ==
    /\ Len(InputPackets) <= Len(composed)
    /\ \A i \in 1 .. Len(InputPackets) : InputPackets[i] = composed[i]

(* Where the n-th of a sequence of bodies ends in the stream, every body   *)
(* sent in one frame.                                                      *)
FrameEnd(bodies, n) ==
    LET end[i \in 0 .. n] ==
          IF i = 0 THEN 0 ELSE end[i - 1] + 2 + Len(bodies[i])
    IN end[n]

(* The end of the stream is reported only after every packet that was sent *)
(* completely has been queued, even when the last bytes and the peer's     *)
(* close() are met by one OnRead.                                          *)
EofAfterLastPacket ==
    rpc = "eof" =>
      \A n \in 1 .. Len(composed) :
        FrameEnd(composed, n) <= Len(stream) => n <= Len(InputPackets)

(* The bodies that wait in a queue from its i-th place on.                 *)
Queued(pkts, i) == Cardinality({k \in i .. Len(pkts) : pkts[k] # << >>})

(* A partial send() is resumed where it stopped: bytes accepted by the     *)
(* kernel are never sent again and none is skipped.  At every moment what  *)
(* was sent and what is left of the batch are as long as the frames of the *)
(* packets taken off the queue.                                            *)
BatchAccounted ==
    spc # "closed" =>
      Len(stream) + Len(CurrentOutputPacket) - WritePtr
        = FrameEnd(composed, Len(composed) - Queued(OutputPackets, 1))

(* A peer that closes is noticed: OnRead eventually reports it (or a       *)
(* failure), though a call of recv() that is not the first takes the end   *)
(* of the stream for "would block".                                        *)
CloseIsNoticed == fin ~> rpc \in {"eof", "error", "dropped"}

(* The channel implements the abstract FIFO channel, with its liveness:    *)
(* while neither end nor the network fails, every body is delivered.       *)
Channel ==
    INSTANCE FifoChannel WITH
      sent <- composed,
      delivered <- InputPackets,
      up <- /\ ~broken
            /\ spc \in {"idle", "merge", "send"}
            /\ rpc \in {"idle", "fill", "make"}
ImplementsFifo == Channel!Spec

=============================================================================
