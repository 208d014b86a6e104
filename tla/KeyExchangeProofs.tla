-------------------------- MODULE KeyExchangeProofs --------------------------
(***************************************************************************)
(* Theorems about the key exchange, for every size of key and ring, any    *)
(* number of connections, and whatever sizes the copy past the array       *)
(* finds.                                                                  *)
(***************************************************************************)
EXTENDS KeyExchange, TLAPS, SequenceTheorems

\* Where a handler may be in each state, and what goes with it.
Positions ==
    /\ pc = "read" => m_networkState = "NET_EXCHANGE_KEY_1"
    /\ pc = "fill" => Exchanging
    /\ pc = "send" => m_networkState = "NET_EXCHANGE_KEY_2" /\ State = 1
    /\ m_networkState = "NET_EXCHANGE_KEY_2" => State \in {0, 1}

\* What PointersLive says, without its last conjunct.
Buffers ==
    /\ m_networkState = "NET_EXCHANGE_KEY_1" =>
         /\ ServerPublicKey = Empty /\ Socket_FD # NoFd
         /\ State >= 2 => n_buf # Null
         /\ State >= 3 => e_buf # Null
         /\ State < 3 => e_buf = Null
         /\ State < 2 => n_buf = Null
    /\ m_networkState = "NET_EXCHANGE_KEY_2" =>
         ServerPublicKey \notin {Null, Empty} /\ Socket_FD # NoFd

\* What has been sent of the session key, at every moment of the exchange.
KeySent ==
    /\ keySent \in Seq(Nat)
    /\ \A i \in 1 .. Len(keySent) : keySent[i] = i
    /\ m_networkState = "NET_EXCHANGE_KEY_1" => keySent = << >>
    /\ m_networkState = "NET_EXCHANGE_KEY_2" /\ State = 0 => keySent = << >>
    /\ m_networkState = "NET_EXCHANGE_KEY_2" /\ State = 1 =>
         /\ Len(keySent) = WriteLen
         /\ SessionKeyData = <<ServerPublicKey, opens>>
         /\ Socket_FD # NoFd
    /\ m_networkState = "NET_EXCHANGE_KEY_2" => Socket_FD # NoFd
    /\ m_networkState = "NET_READY" => Len(keySent) = RSA_SIZE

\* How many bytes the phases before this one have consumed.
Consumed ==
    CASE State = 0 -> 0 [] State = 1 -> SIZES
      [] State = 2 -> SIZES + n_size [] State = 3 -> Parsed

\* The ring holds what this connection has received, from its first cell on.
RingHoldsReceived ==
    /\ HeadIndex = received
    /\ \A i \in Index : i < received => InputBuffer[i] = <<opens, i + 1>>

\* What the ring and the buffers hold of this connection, phase by phase.
Contents ==
    /\ m_networkState # "NET_UNINIT" => RingHoldsReceived
    /\ m_networkState = "NET_EXCHANGE_KEY_1" =>
         /\ TailIndex = IF State = 0 THEN INPUT_BUFFER_SIZE - 1 ELSE Consumed - 1
         /\ Consumed <= received
         /\ State >= 2 => n_buf = Array(Sent(SIZES, n_size))
         /\ State >= 3 => e_buf = Array(Sent(SIZES + n_size, e_size))
    /\ m_networkState \in {"NET_EXCHANGE_KEY_2", "NET_READY"} =>
         TailIndex = Parsed - 1 /\ Parsed <= received
    /\ KeyIsServers

-----------------------------------------------------------------------------
(* Moving an index less than a full turn either stays below the end of the *)
(* array or wraps once.                                                    *)
LEMMA AdvanceValue ==
    ASSUME NEW i \in Index, NEW n \in 0 .. INPUT_BUFFER_SIZE
    PROVE  /\ Advance(i, n) = IF i + n < INPUT_BUFFER_SIZE
                                THEN i + n ELSE i + n - INPUT_BUFFER_SIZE
           /\ Advance(i, n) \in Index
BY RingSizeAssumption DEF Advance, Index

(* The arithmetic of a recv() into the ring.                               *)
LEMMA FillTypes ==
    ASSUME TypeOK,
           NEW n \in IF Full THEN {0}
                       ELSE 1 .. Smaller(FillSize(HeadIndex, TailIndex), InFlight)
    PROVE  /\ n \in 0 .. FillSize(HeadIndex, TailIndex)
           /\ n \in Nat /\ received + n \in 0 .. KeyMessage
           /\ Advance(HeadIndex, n) \in Index
           /\ \A j \in Index : j \in HeadIndex .. HeadIndex + n - 1 =>
                j - HeadIndex + 1 \in 1 .. n
           /\ Filled(InputBuffer, HeadIndex, n, Sent(received, n))
                \in [Index -> (0 .. MaxOpens) \X (0 .. KeyMessage)]
<1>1. /\ KeyMessage \in Nat /\ InFlight \in Nat /\ received \in Nat
      /\ HeadIndex \in Nat /\ TailIndex \in Nat
  <2>1. KeyMessage \in Nat
    BY KeySizeAssumption DEF KeyMessage
  <2>2. received \in Nat /\ received <= KeyMessage
    BY <2>1 DEF TypeOK
  <2>3. HeadIndex \in Nat /\ TailIndex \in Nat
    BY RingSizeAssumption DEF TypeOK, Index
  <2>4. QED BY <2>1, <2>2, <2>3 DEF InFlight
<1>2. FillSize(HeadIndex, TailIndex) \in Nat
  BY <1>1, RingSizeAssumption DEF FillSize, TypeOK, Index
<1>3. n \in 0 .. FillSize(HeadIndex, TailIndex) /\ n \in Nat /\ received + n \in 0 .. KeyMessage
  BY <1>1, <1>2 DEF Full, Smaller, InFlight, TypeOK
<1>4. Advance(HeadIndex, n) \in Index
  <2>1. n \in 0 .. INPUT_BUFFER_SIZE
    BY <1>1, <1>3, RingSizeAssumption DEF FillSize, TypeOK, Index
  <2>2. QED BY <2>1, AdvanceValue DEF TypeOK
<1>5. \A j \in Index : j \in HeadIndex .. HeadIndex + n - 1 => j - HeadIndex + 1 \in 1 .. n
  BY <1>1, <1>3, RingSizeAssumption DEF Index
<1>6. \A i \in 1 .. n : Sent(received, n)[i] \in (0 .. MaxOpens) \X (0 .. KeyMessage)
  <2> SUFFICES ASSUME NEW i \in 1 .. n
               PROVE  Sent(received, n)[i] \in (0 .. MaxOpens) \X (0 .. KeyMessage)
    OBVIOUS
  <2>1. Sent(received, n)[i] = <<opens, received + i>>
    BY DEF Sent
  <2>2. received + i \in 0 .. KeyMessage
    BY <1>1, <1>3
  <2>3. QED BY <2>1, <2>2 DEF TypeOK
<1>7. QED
  BY <1>3, <1>4, <1>5, <1>6 DEF Filled, TypeOK

(* A phase's move of the tail stays in the ring.                           *)
LEMMA ConsumeTypes ==
    ASSUME TypeOK, NEW n \in Nat, Consume(n)
    PROVE  TailIndex' \in Index
BY RingSizeAssumption DEF TypeOK, Consume, Advance, Index

(* The first state has the types.                                          *)
LEMMA TypeInit == Init => TypeOK
<1>1. 0 \in 0 .. KeyMessage /\ RSA_SIZE \in Nat \ {0} /\ MaxOpens \in Nat
  BY KeySizeAssumption DEF KeyMessage
<1>2. 0 \in Index /\ INPUT_BUFFER_SIZE - 1 \in Index
  BY RingSizeAssumption DEF Index
<1>3. QED
  BY <1>1, <1>2 DEF Init, TypeOK, NoFd

(* Every step keeps the types.                                             *)
LEMMA TypeStep == TypeOK /\ [Next]_vars => TypeOK'
<1> SUFFICES ASSUME TypeOK, [Next]_vars PROVE TypeOK'
  OBVIOUS
<1> USE DEF TypeOK, keyVars, sendVars, ringVars, peerVars
<1>a. /\ KeyMessage \in Nat /\ KeyMessage' = KeyMessage
      /\ RSA_SIZE \in Nat \ {0} /\ MaxOpens \in Nat \ {0}
  BY KeySizeAssumption DEF KeyMessage
<1>b. 0 \in Index /\ INPUT_BUFFER_SIZE - 1 \in Index
  BY RingSizeAssumption DEF Index
<1>1. CASE Open
  <2>1. /\ opens' \in 0 .. MaxOpens /\ Socket_FD' \in 1 .. MaxOpens
        /\ received' \in 0 .. KeyMessage
    BY <1>1, <1>a DEF Open
  <2>2. /\ State' \in 0 .. 3 /\ n_size' \in Nat /\ e_size' \in Nat
        /\ HeadIndex' \in Index /\ TailIndex' \in Index
        /\ m_networkState' = "NET_EXCHANGE_KEY_1"
    BY <1>1, <1>b DEF Open, BeginExchange
  <2>3. /\ WriteLen' \in 0 .. RSA_SIZE - 1 /\ pc' = "idle"
        /\ InputBuffer' = InputBuffer
        /\ firstRead' \in BOOLEAN /\ peerDown' \in BOOLEAN
    BY <1>1 DEF Open
  <2>4. QED
    BY <2>1, <2>2, <2>3
<1>2. CASE OpenBadHost
  BY <1>2, <1>a DEF OpenBadHost
<1>3. CASE OpenFails \/ Close \/ NetworkError \/ PeerGoes
  BY <1>3 DEF OpenFails, Close, NetworkError, PeerGoes
<1>4. CASE OnRead \/ FillWouldBlock \/ FillFails
  BY <1>4 DEF OnRead, FillWouldBlock, FillFails
<1>5. CASE FillSome
  <2>1. PICK n \in IF Full THEN {0}
                     ELSE 1 .. Smaller(FillSize(HeadIndex, TailIndex), InFlight) :
          /\ InputBuffer' = Filled(InputBuffer, HeadIndex, n, Sent(received, n))
          /\ HeadIndex' = Advance(HeadIndex, n)
          /\ received' = received + n
    BY <1>5 DEF FillSome
  <2>2. /\ InputBuffer' \in [Index -> (0 .. MaxOpens) \X (0 .. KeyMessage)]
        /\ HeadIndex' \in Index /\ received' \in 0 .. KeyMessage
    BY <2>1, FillTypes
  <2>3. QED
    BY <1>5, <2>2, <1>a DEF FillSome
<1>6. CASE ReadRSAPublicKey
  <2>1. CASE ReadSizes
    <3>1. n_size' \in Nat /\ e_size' \in Nat
      BY <2>1, PastArrayAssumption DEF ReadSizes
    <3>2. TailIndex' \in Index
      BY <2>1, ConsumeTypes, KeySizeAssumption DEF ReadSizes
    <3>3. QED BY <2>1, <3>1, <3>2 DEF ReadSizes
  <2>2. CASE ReadModulus
    <3>1. TailIndex' \in Index
      BY <2>2, ConsumeTypes DEF ReadModulus
    <3>2. QED BY <2>2, <3>1 DEF ReadModulus
  <2>3. CASE ReadExponent
    <3>1. TailIndex' \in Index
      BY <2>3, ConsumeTypes DEF ReadExponent
    <3>2. QED BY <2>3, <3>1 DEF ReadExponent
  <2>4. CASE ReadWaits
    BY <2>4 DEF ReadWaits
  <2>5. CASE BuildKey
    <3>1. /\ State' = 0 /\ pc' = "fill" /\ firstRead' = FALSE
          /\ m_networkState' = "NET_EXCHANGE_KEY_2"
      BY <2>5 DEF BuildKey
    <3>2. /\ Socket_FD' = Socket_FD /\ n_size' = n_size /\ e_size' = e_size
          /\ WriteLen' = WriteLen /\ InputBuffer' = InputBuffer
          /\ HeadIndex' = HeadIndex /\ TailIndex' = TailIndex
          /\ opens' = opens /\ received' = received /\ peerDown' = peerDown
      BY <2>5 DEF BuildKey
    <3>3. /\ 0 \in 0 .. 3 /\ "fill" \in {"idle", "fill", "read", "send", "lost"}
          /\ FALSE \in BOOLEAN
      OBVIOUS
    <3>4. QED BY <3>1, <3>2, <3>3, Zenon
  <2>6. QED BY <1>6, <2>1, <2>2, <2>3, <2>4, <2>5 DEF ReadRSAPublicKey
<1>7. CASE OnWrite
  <2>1. 0 \in 0 .. RSA_SIZE - 1
    BY <1>a
  <2>2. CASE EncryptSessionKey
    BY <2>1, <2>2, <1>a DEF EncryptSessionKey
  <2>3. CASE EncryptFails
    BY <2>1, <2>3, <1>a DEF EncryptFails
  <2>4. CASE ResumeSend
    BY <2>4, <1>a DEF ResumeSend
  <2>5. QED BY <1>7, <2>2, <2>3, <2>4 DEF OnWrite
<1>8. CASE Send
  <2>1. CASE SendKeyBytes
    <3>1. WriteLen' \in 0 .. RSA_SIZE - 1
      BY <2>1, <1>a DEF SendKeyBytes, ToSend, WriteLenAfter
    <3>2. QED BY <2>1, <3>1 DEF SendKeyBytes
  <2>2. CASE SendInterrupted \/ SendFails
    BY <2>2 DEF SendInterrupted, SendFails
  <2>3. QED BY <1>8, <2>1, <2>2 DEF Send
<1>9. CASE UNCHANGED vars
  BY <1>9 DEF vars
<1>10. QED
  BY <1>1, <1>2, <1>3, <1>4, <1>5, <1>6, <1>7, <1>8, <1>9
     DEF Next, FillInputBuffer

(* Every variable of the exchange has its type, for every ring, key size   *)
(* and number of connections.                                              *)
THEOREM TypeCorrect == Spec => []TypeOK
BY TypeInit, TypeStep, PTL DEF Spec

-----------------------------------------------------------------------------
(* A pair, of a buffer or a key, is neither null nor empty.                *)
LEMMA PairsNotNull ==
    ASSUME NEW a, NEW b
    PROVE  <<a, b>> \notin {Null, Empty}
<1>1. Len(<<a, b>>) = 2 /\ Len(Null) = 0 /\ Len(Empty) = 1
  BY DEF Null, Empty
<1>2. QED BY <1>1

(* A copy is a buffer, even one of no bytes.                                *)
LEMMA CopiedNotNull == \A n \in Nat : Copied(n) # Null
BY PairsNotNull DEF Copied, Array

Control == Positions /\ Buffers /\ KeySent

(* Before the first Open no phase has begun.                               *)
LEMMA ControlInit == Init => Control
BY DEF Init, Control, Positions, Buffers, KeySent, Exchanging

(* What the handlers rely on between their calls: in each phase pc and     *)
(* State stand where the code put them.                                    *)
LEMMA PositionsStep == TypeOK /\ Positions /\ [Next]_vars => Positions'
<1> SUFFICES ASSUME TypeOK, Positions, [Next]_vars PROVE Positions'
  OBVIOUS
<1> USE DEF Positions, keyVars, ringVars, sendVars, peerVars, Exchanging
<1>1. CASE Open
  BY <1>1 DEF Open, BeginExchange
<1>2. CASE OpenBadHost \/ OpenFails \/ Close \/ NetworkError \/ PeerGoes \/ OnRead
  BY <1>2 DEF MayOpen, OpenBadHost, OpenFails, Close, NetworkError, PeerGoes, OnRead
<1>3. CASE FillInputBuffer
  BY <1>3 DEF FillInputBuffer, FillSome, FillWouldBlock, FillFails
<1>4. CASE ReadSizes \/ ReadModulus \/ ReadExponent
  BY <1>4 DEF ReadSizes, ReadModulus, ReadExponent
<1>5. CASE ReadWaits \/ BuildKey
  BY <1>5 DEF ReadWaits, BuildKey
<1>6. CASE OnWrite
  BY <1>6 DEF OnWrite, EncryptSessionKey, EncryptFails, ResumeSend
<1>7. CASE Send
  BY <1>7 DEF Send, SendKeyBytes, SendInterrupted, SendFails
<1>8. CASE UNCHANGED vars
  BY <1>8 DEF vars
<1>9. QED
  BY <1>1, <1>2, <1>3, <1>4, <1>5, <1>6, <1>7, <1>8 DEF Next, ReadRSAPublicKey

(* Each phase leaves the buffers the next one uses.                        *)
LEMMA BuffersStep == TypeOK /\ Positions /\ Buffers /\ [Next]_vars => Buffers'
<1> SUFFICES ASSUME TypeOK, Positions, Buffers, [Next]_vars PROVE Buffers'
  OBVIOUS
<1> USE DEF Positions, Buffers, keyVars, ringVars, sendVars, peerVars, Exchanging
<1>1. CASE Open
  BY <1>1 DEF Open, BeginExchange, TypeOK, NoFd
<1>2. CASE OpenBadHost \/ OpenFails \/ Close \/ NetworkError \/ PeerGoes \/ OnRead
  BY <1>2 DEF MayOpen, OpenBadHost, OpenFails, Close, NetworkError, PeerGoes, OnRead
<1>3. CASE FillInputBuffer
  BY <1>3 DEF FillInputBuffer, FillSome, FillWouldBlock, FillFails
<1>4. CASE ReadSizes
  BY <1>4 DEF ReadSizes
<1>5. CASE ReadModulus
  <2>1. n_buf' # Null
    BY <1>5, CopiedNotNull DEF ReadModulus, TypeOK
  <2>2. QED BY <1>5, <2>1 DEF ReadModulus
<1>6. CASE ReadExponent
  <2>1. e_buf' # Null
    BY <1>6, CopiedNotNull DEF ReadExponent, TypeOK
  <2>2. QED BY <1>6, <2>1 DEF ReadExponent
<1>7. CASE ReadWaits
  BY <1>7 DEF ReadWaits
<1>8. CASE BuildKey
  <2>1. ServerPublicKey' \notin {Null, Empty}
    BY <1>8, PairsNotNull DEF BuildKey
  <2>2. QED BY <1>8, <2>1 DEF BuildKey
<1>9. CASE OnWrite
  BY <1>9 DEF OnWrite, EncryptSessionKey, EncryptFails, ResumeSend
<1>10. CASE Send
  BY <1>10 DEF Send, SendKeyBytes, SendInterrupted, SendFails
<1>11. CASE UNCHANGED vars
  BY <1>11 DEF vars
<1>12. QED
  BY <1>1, <1>2, <1>3, <1>4, <1>5, <1>6, <1>7, <1>8, <1>9, <1>10, <1>11
     DEF Next, ReadRSAPublicKey

(* The session key's bytes go out one after the other.                     *)
LEMMA KeySentStep ==
    TypeOK /\ Positions /\ Buffers /\ KeySent /\ [Next]_vars => KeySent'
<1> SUFFICES ASSUME TypeOK, Positions, Buffers, KeySent, [Next]_vars
             PROVE KeySent'
  OBVIOUS
<1> USE DEF Positions, KeySent, keyVars, ringVars, sendVars, peerVars, Exchanging
<1>1. CASE Open
  BY <1>1 DEF Open, BeginExchange
<1>2. CASE OpenBadHost \/ OpenFails \/ Close \/ NetworkError \/ PeerGoes \/ OnRead
  BY <1>2 DEF MayOpen, OpenBadHost, OpenFails, Close, NetworkError, PeerGoes, OnRead, Buffers
<1>3. CASE FillInputBuffer
  BY <1>3 DEF FillInputBuffer, FillSome, FillWouldBlock, FillFails
<1>4. CASE ReadSizes \/ ReadModulus \/ ReadExponent
  BY <1>4 DEF ReadSizes, ReadModulus, ReadExponent
<1>5. CASE ReadWaits \/ BuildKey
  BY <1>5 DEF ReadWaits, BuildKey, Buffers
<1>6. CASE OnWrite
  BY <1>6 DEF OnWrite, EncryptSessionKey, EncryptFails, ResumeSend, Buffers
<1>7. CASE SendKeyBytes
  <2>1. PICK n \in 1 .. ToSend :
          /\ keySent' = keySent \o [i \in 1 .. n |-> WriteLen + i]
          /\ IF n < ToSend
               THEN /\ WriteLen' = WriteLenAfter(n)
                    /\ UNCHANGED <<ServerPublicKey, SessionKeyData, m_networkState>>
               ELSE /\ ServerPublicKey' = Null /\ SessionKeyData' = Null
                    /\ m_networkState' = "NET_READY" /\ UNCHANGED WriteLen
    BY <1>7 DEF SendKeyBytes
  <2>2. /\ Len(keySent) = WriteLen /\ WriteLen \in Nat /\ n \in Nat
        /\ RSA_SIZE \in Nat /\ ToSend = RSA_SIZE - WriteLen
    BY <1>7, KeySizeAssumption DEF SendKeyBytes, TypeOK, ToSend
  <2> DEFINE more == [i \in 1 .. n |-> WriteLen + i]
  <2>3. more \in Seq(Nat) /\ Len(more) = n /\ \A i \in 1 .. n : more[i] = WriteLen + i
    BY <2>2
  <2>4. /\ keySent' = keySent \o more
        /\ keySent' \in Seq(Nat) /\ Len(keySent') = WriteLen + n
    <3>1. keySent' = keySent \o more
      BY <2>1
    <3> HIDE DEF more
    <3>2. keySent \o more \in Seq(Nat) /\ Len(keySent \o more) = Len(keySent) + Len(more)
      BY <2>3, ConcatProperties
    <3>3. QED BY <3>1, <3>2, <2>2, <2>3
  <2>5. \A i \in 1 .. Len(keySent') : keySent'[i] = i
    <3> HIDE DEF more
    <3> SUFFICES ASSUME NEW i \in 1 .. WriteLen + n PROVE keySent'[i] = i
      BY <2>4
    <3>0. keySent'[i] = IF i <= WriteLen THEN keySent[i] ELSE more[i - WriteLen]
      BY <2>2, <2>3, <2>4, ConcatProperties
    <3>1. CASE i <= WriteLen
      BY <3>0, <3>1, <2>2
    <3>2. CASE i > WriteLen
      <4>1. i - WriteLen \in 1 .. n
        BY <3>2, <2>2
      <4>2. QED BY <3>0, <3>2, <4>1, <2>2, <2>3
    <3>3. QED BY <3>1, <3>2, <2>2
  <2>6. State' = State /\ opens' = opens /\ Socket_FD' = Socket_FD /\ pc' = "idle"
        /\ State = 1 /\ m_networkState = "NET_EXCHANGE_KEY_2"
    BY <1>7 DEF SendKeyBytes
  <2>7. CASE n < ToSend
    BY <2>1, <2>2, <2>4, <2>5, <2>6, <2>7 DEF WriteLenAfter
  <2>8. CASE ~(n < ToSend)
    BY <2>1, <2>2, <2>4, <2>5, <2>6, <2>8
  <2>9. QED BY <2>7, <2>8
<1>8. CASE SendInterrupted \/ SendFails
  BY <1>8 DEF SendInterrupted, SendFails
<1>9. CASE UNCHANGED vars
  BY <1>9 DEF vars
<1>10. QED
  BY <1>1, <1>2, <1>3, <1>4, <1>5, <1>6, <1>7, <1>8, <1>9
     DEF Next, ReadRSAPublicKey, Send

(* The types and the three hold at every moment.                           *)
LEMMA Controlled == Spec => [](TypeOK /\ Control)
<1>1. TypeOK /\ Control /\ [Next]_vars => (TypeOK /\ Control)'
  BY TypeStep, PositionsStep, BuffersStep, KeySentStep DEF Control
<1>2. Init => TypeOK /\ Control
  BY TypeInit, ControlInit
<1>3. QED
  BY <1>1, <1>2, PTL DEF Spec

(* No handler uses memory it has freed or never allocated, whatever sizes  *)
(* the first phase has found.                                              *)
THEOREM PointersCorrect == Spec => []PointersLive
<1>1. TypeOK /\ Control => PointersLive
  BY PairsNotNull
     DEF Control, Positions, Buffers, KeySent, PointersLive
<1>2. QED
  BY <1>1, Controlled, PTL

(* The session key goes out once and whole, under the key of this          *)
(* connection, for every split of its bytes.                               *)
THEOREM SessionKeyCorrect == Spec => []SessionKeySentOnce
<1>1. Control => SessionKeySentOnce
  BY DEF Control, Positions, KeySent, SessionKeySentOnce
<1>2. QED
  BY <1>1, Controlled, PTL

-----------------------------------------------------------------------------
(* The parts of the key message are natural numbers.                       *)
LEMMA SizesNat ==
    /\ SIZES \in Nat \ {0} /\ N_BYTES \in Nat \ {0} /\ E_BYTES \in Nat \ {0}
    /\ KeyMessage = SIZES + N_BYTES + E_BYTES /\ KeyMessage \in Nat
    /\ KeyMessage < INPUT_BUFFER_SIZE /\ INPUT_BUFFER_SIZE \in Nat
BY KeySizeAssumption, RingSizeAssumption DEF KeyMessage

(* During the exchange the ring has not wrapped: the indices are counts.   *)
LEMMA NotWrapped ==
    ASSUME TypeOK, Contents, m_networkState = "NET_EXCHANGE_KEY_1"
    PROVE  /\ Consumed \in 0 .. KeyMessage /\ received \in 0 .. KeyMessage
           /\ (State = 0 <=> Consumed = 0)
           /\ Avail = received - Consumed
           /\ \A n \in 0 .. KeyMessage - Consumed :
                Advance(TailIndex, n) = IF n = 0 THEN TailIndex ELSE Consumed + n - 1
<1>1. Consumed \in Nat /\ (State = 0 <=> Consumed = 0)
  BY SizesNat DEF Consumed, Parsed, TypeOK
<1>2. /\ HeadIndex = received /\ Consumed <= received /\ received \in 0 .. KeyMessage
      /\ TailIndex = IF State = 0 THEN INPUT_BUFFER_SIZE - 1 ELSE Consumed - 1
  BY DEF Contents, RingHoldsReceived, TypeOK
<1>3. Consumed \in 0 .. KeyMessage /\ Avail = received - Consumed
  BY <1>1, <1>2, SizesNat DEF Avail, Available
<1>4. ASSUME NEW n \in 0 .. KeyMessage - Consumed
      PROVE  Advance(TailIndex, n) = IF n = 0 THEN TailIndex ELSE Consumed + n - 1
  <2>1. n \in 0 .. INPUT_BUFFER_SIZE
    BY <1>3, SizesNat
  <2>2. Advance(TailIndex, n) = IF TailIndex + n < INPUT_BUFFER_SIZE
                                  THEN TailIndex + n
                                  ELSE TailIndex + n - INPUT_BUFFER_SIZE
    BY <2>1, AdvanceValue DEF TypeOK
  <2>3. QED BY <1>1, <1>2, <1>3, <2>1, <2>2, SizesNat
<1>5. QED BY <1>1, <1>2, <1>3, <1>4

(* What a phase copies is what the server sent.                            *)
LEMMA CopiedIsSent ==
    ASSUME TypeOK, Contents, m_networkState = "NET_EXCHANGE_KEY_1", State > 0,
           NEW n \in Nat, n <= Avail
    PROVE  Copied(n) = Array(Sent(Consumed, n))
<1>1. /\ Consumed \in 0 .. KeyMessage /\ received \in 0 .. KeyMessage
      /\ n <= received - Consumed /\ TailIndex = Consumed - 1 /\ Consumed > 0
      /\ \A i \in Index : i < received => InputBuffer[i] = <<opens, i + 1>>
  BY NotWrapped DEF Contents, RingHoldsReceived
<1>2. ASSUME NEW i \in 1 .. n
      PROVE  /\ TailIndex + i \in Index
             /\ InputBuffer[TailIndex + i] = <<opens, Consumed + i>>
  <2>1. TailIndex + i \in Index /\ TailIndex + i < received
        /\ TailIndex + i + 1 = Consumed + i
    BY <1>1, SizesNat DEF Index
  <2>2. QED BY <1>1, <2>1
<1>3. QED BY <1>2 DEF Copied, Sent

(* Before the first Open nothing has been consumed.                        *)
LEMMA ContentsInit == Init => Contents
BY DEF Init, Contents, KeyIsServers

(* A recv() during the exchange adds the next bytes of this connection.    *)
LEMMA FillContents ==
    ASSUME TypeOK, Positions, Contents, FillSome
    PROVE  Contents'
<1> USE DEF keyVars, sendVars
<1>1. PICK n \in IF Full THEN {0}
                   ELSE 1 .. Smaller(FillSize(HeadIndex, TailIndex), InFlight) :
        /\ InputBuffer' = Filled(InputBuffer, HeadIndex, n, Sent(received, n))
        /\ HeadIndex' = Advance(HeadIndex, n)
        /\ received' = received + n
  BY DEF FillSome
<1>2. /\ n \in Nat /\ received + n \in 0 .. KeyMessage
      /\ \A j \in Index : j \in HeadIndex .. HeadIndex + n - 1 =>
           j - HeadIndex + 1 \in 1 .. n
  BY FillTypes
<1>3. /\ m_networkState' = m_networkState /\ State' = State /\ n_buf' = n_buf
      /\ e_buf' = e_buf /\ n_size' = n_size /\ e_size' = e_size
      /\ ServerPublicKey' = ServerPublicKey /\ TailIndex' = TailIndex
      /\ opens' = opens
  BY DEF FillSome
<1>4. /\ HeadIndex = received /\ received \in Nat /\ KeyMessage < INPUT_BUFFER_SIZE
      /\ \A i \in Index : i < received => InputBuffer[i] = <<opens, i + 1>>
  BY SizesNat DEF FillSome, Positions, Exchanging, Contents, RingHoldsReceived, TypeOK
<1>5. HeadIndex' = received'
  <2>1. n \in 0 .. INPUT_BUFFER_SIZE /\ received + n < INPUT_BUFFER_SIZE
    BY <1>2, <1>4, SizesNat
  <2>2. QED BY <1>1, <1>4, <2>1, AdvanceValue DEF TypeOK
<1>6. ASSUME NEW i \in Index, i < received + n
      PROVE  InputBuffer'[i] = <<opens, i + 1>>
  <2>0. i \in Nat
    BY SizesNat DEF Index
  <2>1. CASE i < received
    <3>1. InputBuffer'[i] = InputBuffer[i]
      BY <1>1, <1>2, <1>4, <2>0, <2>1 DEF Filled
    <3>2. QED BY <1>4, <2>1, <3>1
  <2>2. CASE i >= received
    <3>1. i \in HeadIndex .. HeadIndex + n - 1 /\ i - HeadIndex + 1 \in 1 .. n
      BY <1>2, <1>4, <1>6, <2>0, <2>2
    <3>2. InputBuffer'[i] = Sent(received, n)[i - HeadIndex + 1]
      BY <1>1, <3>1 DEF Filled
    <3>3. QED BY <1>4, <2>0, <3>1, <3>2 DEF Sent
  <2>3. QED BY <1>4, <2>0, <2>1, <2>2
<1>7. RingHoldsReceived'
  BY <1>1, <1>3, <1>5, <1>6 DEF RingHoldsReceived
<1>8. Consumed' = Consumed /\ Parsed' = Parsed /\ Consumed \in Nat /\ Parsed \in Nat
  BY <1>3, SizesNat DEF Consumed, Parsed, TypeOK
<1>9. received <= received' /\ received' \in Nat
  BY <1>1, <1>2, <1>4
<1>10. KeyIsServers'
  BY <1>3 DEF Contents, KeyIsServers, Sent
<1>11. m_networkState' = "NET_EXCHANGE_KEY_1" =>
         /\ TailIndex' = IF State' = 0 THEN INPUT_BUFFER_SIZE - 1 ELSE Consumed' - 1
         /\ Consumed' <= received'
         /\ State' >= 2 => n_buf' = Array(Sent(SIZES, n_size))'
         /\ State' >= 3 => e_buf' = Array(Sent(SIZES + n_size, e_size))'
  BY <1>3, <1>4, <1>8, <1>9 DEF Contents, Sent
<1>12. m_networkState' \in {"NET_EXCHANGE_KEY_2", "NET_READY"} =>
         TailIndex' = Parsed' - 1 /\ Parsed' <= received'
  BY <1>3, <1>4, <1>8, <1>9 DEF Contents
<1>13. QED
  BY <1>7, <1>10, <1>11, <1>12 DEF Contents

(* A step that leaves the ring, the phases and the keys alone keeps them.  *)
LEMMA ContentsKept ==
    ASSUME Contents, UNCHANGED <<HeadIndex, TailIndex, InputBuffer, received, opens,
                                 State, n_size, e_size, n_buf, e_buf, ServerPublicKey>>,
           m_networkState' \in {m_networkState, "NET_UNINIT"}
    PROVE  Contents'
<1>1. /\ HeadIndex' = HeadIndex /\ TailIndex' = TailIndex /\ InputBuffer' = InputBuffer
      /\ received' = received /\ opens' = opens /\ State' = State
      /\ n_size' = n_size /\ e_size' = e_size /\ n_buf' = n_buf /\ e_buf' = e_buf
      /\ ServerPublicKey' = ServerPublicKey
  OBVIOUS
<1>2. Consumed' = Consumed /\ Parsed' = Parsed
      /\ (RingHoldsReceived => RingHoldsReceived')
  BY <1>1 DEF Consumed, Parsed, RingHoldsReceived
<1>3. Sent(SIZES, n_size)' = Sent(SIZES, n_size)
      /\ Sent(SIZES + n_size, e_size)' = Sent(SIZES + n_size, e_size)
  BY <1>1 DEF Sent
<1>4. CASE m_networkState' = m_networkState
  BY <1>1, <1>2, <1>3, <1>4 DEF Contents, KeyIsServers, Array
<1>5. CASE m_networkState' = "NET_UNINIT"
  BY <1>5 DEF Contents, KeyIsServers
<1>6. QED BY <1>4, <1>5

(* The three phases and the reconstruction of the key.                     *)
LEMMA ReadContents ==
    ASSUME TypeOK, Positions, Contents, ReadRSAPublicKey
    PROVE  Contents'
<1> USE DEF keyVars, sendVars, ringVars, peerVars
<1>0. CASE ReadWaits
  BY <1>0, ContentsKept DEF ReadWaits
<1>1. /\ pc = "read" /\ m_networkState = "NET_EXCHANGE_KEY_1"
  BY DEF ReadRSAPublicKey, ReadSizes, ReadModulus, ReadExponent, ReadWaits,
         BuildKey, Positions
<1>2. /\ RingHoldsReceived /\ received \in 0 .. KeyMessage
      /\ Avail = received - Consumed /\ Consumed \in 0 .. KeyMessage
      /\ n_size \in Nat /\ e_size \in Nat
      /\ State >= 2 => n_buf = Array(Sent(SIZES, n_size))
      /\ State >= 3 => e_buf = Array(Sent(SIZES + n_size, e_size))
      /\ TailIndex = IF State = 0 THEN INPUT_BUFFER_SIZE - 1 ELSE Consumed - 1
  BY <1>1, NotWrapped DEF Contents, TypeOK
<1>3. ASSUME NEW n \in Nat, n <= Avail, Consumed > 0 \/ n > 0
      PROVE  Advance(TailIndex, n) = Consumed + n - 1
  BY <1>1, <1>2, <1>3, NotWrapped, SizesNat
<1>4. CASE ReadSizes
  <2>1. State = 0 /\ Consumed = 0 /\ State' = 1 /\ Consumed' = SIZES
    BY <1>4 DEF ReadSizes, Consumed
  <2>2. /\ m_networkState' = m_networkState /\ HeadIndex' = HeadIndex
        /\ InputBuffer' = InputBuffer /\ received' = received /\ opens' = opens
        /\ SIZES <= Avail
    BY <1>4 DEF ReadSizes
  <2>3. TailIndex' = SIZES - 1
    BY <1>3, <1>4, <2>1, <2>2, SizesNat DEF ReadSizes, Consume
  <2>4. RingHoldsReceived'
    BY <1>2, <2>2 DEF RingHoldsReceived
  <2>5. QED
    BY <1>1, <1>2, <2>1, <2>2, <2>3, <2>4, SizesNat DEF Contents, KeyIsServers
<1>5. CASE ReadModulus
  <2>1. State = 1 /\ Consumed = SIZES /\ State' = 2 /\ Consumed' = SIZES + n_size
    BY <1>5 DEF ReadModulus, Consumed
  <2>2. /\ m_networkState' = m_networkState /\ HeadIndex' = HeadIndex
        /\ InputBuffer' = InputBuffer /\ received' = received /\ opens' = opens
        /\ n_size' = n_size /\ e_size' = e_size /\ n_size <= Avail
    BY <1>2, <1>5 DEF ReadModulus
  <2>3. n_buf' = Array(Sent(SIZES, n_size))'
    <3>1. Copied(n_size) = Array(Sent(SIZES, n_size))
      BY <1>1, <1>2, <2>1, <2>2, CopiedIsSent
    <3>2. QED BY <1>5, <2>2, <3>1 DEF ReadModulus, Sent
  <2>4. TailIndex' = SIZES + n_size - 1
    BY <1>2, <1>3, <1>5, <2>1, <2>2, SizesNat DEF ReadModulus, Consume
  <2>5. RingHoldsReceived'
    BY <1>2, <2>2 DEF RingHoldsReceived
  <2>6. QED
    BY <1>1, <1>2, <2>1, <2>2, <2>3, <2>4, <2>5, SizesNat DEF Contents, KeyIsServers
<1>6. CASE ReadExponent
  <2>1. State = 2 /\ Consumed = SIZES + n_size /\ State' = 3
        /\ Consumed' = SIZES + n_size + e_size
    BY <1>6 DEF ReadExponent, Consumed, Parsed
  <2>2. /\ m_networkState' = m_networkState /\ HeadIndex' = HeadIndex
        /\ InputBuffer' = InputBuffer /\ received' = received /\ opens' = opens
        /\ n_size' = n_size /\ e_size' = e_size /\ e_size <= Avail
        /\ n_buf' = n_buf /\ n_buf = Array(Sent(SIZES, n_size))
    BY <1>2, <1>6, <2>1 DEF ReadExponent
  <2>3. /\ e_buf' = Array(Sent(SIZES + n_size, e_size))'
        /\ n_buf' = Array(Sent(SIZES, n_size))'
    <3>1. Copied(e_size) = Array(Sent(SIZES + n_size, e_size))
      BY <1>1, <1>2, <2>1, <2>2, CopiedIsSent
    <3>2. QED BY <1>6, <2>2, <3>1 DEF ReadExponent, Sent
  <2>4. TailIndex' = SIZES + n_size + e_size - 1
    BY <1>2, <1>3, <1>6, <2>1, <2>2, SizesNat DEF ReadExponent, Consume
  <2>5. RingHoldsReceived'
    BY <1>2, <2>2 DEF RingHoldsReceived
  <2>6. QED
    BY <1>1, <1>2, <2>1, <2>2, <2>3, <2>4, <2>5, SizesNat DEF Contents, KeyIsServers
<1>7. CASE BuildKey
  <2>1. State = 3 /\ Consumed = Parsed
    BY <1>7 DEF BuildKey, Consumed, TypeOK
  <2>2. /\ m_networkState' = "NET_EXCHANGE_KEY_2"
        /\ HeadIndex' = HeadIndex /\ TailIndex' = TailIndex
        /\ InputBuffer' = InputBuffer /\ received' = received /\ opens' = opens
        /\ n_size' = n_size /\ e_size' = e_size
        /\ ServerPublicKey' = <<n_buf, e_buf>>
    BY <1>7 DEF BuildKey
  <2>3. TailIndex' = Parsed' - 1 /\ Parsed' <= received'
    BY <1>1, <1>2, <2>1, <2>2 DEF Contents, Parsed
  <2>4. KeyIsServers'
    <3>1. ServerPublicKey' = <<Array(Sent(SIZES, n_size)),
                               Array(Sent(SIZES + n_size, e_size))>>
      BY <1>2, <2>1, <2>2
    <3>2. QED BY <2>2, <3>1 DEF KeyIsServers, Sent
  <2>5. RingHoldsReceived'
    BY <1>2, <2>2 DEF RingHoldsReceived
  <2>6. QED BY <2>2, <2>3, <2>4, <2>5 DEF Contents
<1>8. QED
  BY <1>0, <1>4, <1>5, <1>6, <1>7 DEF ReadRSAPublicKey

(* The ring of the exchange, from Open to NET_READY.                       *)
LEMMA ContentsStep ==
    ASSUME TypeOK, Control, Contents, [Next]_vars
    PROVE  Contents'
<1> USE DEF Control, keyVars, sendVars, ringVars, peerVars
<1>1. CASE Open
  BY <1>1, SizesNat
     DEF Open, BeginExchange, Contents, Consumed, KeyIsServers, RingHoldsReceived, Index
<1>2. CASE OpenBadHost \/ OpenFails
  BY <1>2 DEF OpenBadHost, OpenFails, MayOpen, Contents, KeyIsServers
<1>3. CASE Close
  BY <1>3 DEF Close, Contents, KeyIsServers
<1>4. CASE NetworkError \/ PeerGoes \/ OnRead
  BY <1>4, ContentsKept DEF NetworkError, PeerGoes, OnRead
<1>5. CASE FillSome
  BY <1>5, FillContents
<1>6. CASE FillWouldBlock \/ FillFails
  BY <1>6, ContentsKept DEF FillWouldBlock, FillFails
<1>7. CASE ReadRSAPublicKey
  BY <1>7, ReadContents
<1>8. CASE OnWrite \/ SendKeyBytes
  <2>1. /\ m_networkState = "NET_EXCHANGE_KEY_2"
        /\ \/ m_networkState' = m_networkState /\ ServerPublicKey' = ServerPublicKey
           \/ m_networkState' = "NET_READY"
        /\ HeadIndex' = HeadIndex /\ TailIndex' = TailIndex
        /\ InputBuffer' = InputBuffer /\ received' = received /\ opens' = opens
        /\ n_size' = n_size /\ e_size' = e_size
    BY <1>8 DEF OnWrite, EncryptSessionKey, EncryptFails, ResumeSend,
                SendKeyBytes, Positions
  <2>2. RingHoldsReceived' /\ Parsed' = Parsed
    BY <2>1 DEF Contents, RingHoldsReceived, Parsed
  <2>3. KeyIsServers'
    BY <2>1 DEF Contents, KeyIsServers, Sent
  <2>4. QED
    BY <2>1, <2>2, <2>3 DEF Contents
<1>9. CASE SendInterrupted \/ SendFails
  BY <1>9, ContentsKept DEF SendInterrupted, SendFails
<1>10. CASE UNCHANGED vars
  BY <1>10, ContentsKept DEF vars
<1>11. QED
  BY <1>1, <1>2, <1>3, <1>4, <1>5, <1>6, <1>7, <1>8, <1>9, <1>10
     DEF Next, FillInputBuffer, Send

(* The whole invariant holds.                                              *)
LEMMA Held == Spec => [](TypeOK /\ Control /\ Contents)
<1>1. TypeOK /\ Control /\ Contents /\ [Next]_vars => (TypeOK /\ Control /\ Contents)'
  BY TypeStep, PositionsStep, BuffersStep, KeySentStep, ContentsStep DEF Control
<1>2. Init => TypeOK /\ Control /\ Contents
  BY TypeInit, ControlInit, ContentsInit
<1>3. QED
  BY <1>1, <1>2, PTL DEF Spec

(* The key used is made of the bytes this connection's server sent behind  *)
(* the sizes, however TCP cut them, whatever an earlier connection left in *)
(* the object and whatever sizes the first phase found.                    *)
THEOREM KeyCorrect == Spec => []KeyIsServers
<1>1. Contents => KeyIsServers
  BY DEF Contents
<1>2. QED
  BY <1>1, Held, PTL

(* The packet channel starts with exactly the bytes the exchange has not   *)
(* taken, in their order.                                                  *)
THEOREM ReadyRestCorrect == Spec => []ReadyKeepsRest
<1>1. TypeOK /\ Contents => ReadyKeepsRest
  <2> SUFFICES ASSUME TypeOK, Contents,
                      m_networkState \in {"NET_EXCHANGE_KEY_2", "NET_READY"}
               PROVE  Parsed <= received /\ Unread = Sent(Parsed, received - Parsed)
    BY DEF ReadyKeepsRest
  <2>1. /\ HeadIndex = received /\ received \in 0 .. KeyMessage
        /\ \A i \in Index : i < received => InputBuffer[i] = <<opens, i + 1>>
        /\ TailIndex = Parsed - 1 /\ Parsed <= received /\ Parsed \in Nat \ {0}
    BY SizesNat DEF Contents, RingHoldsReceived, TypeOK, Parsed
  <2>2. Avail = received - Parsed
    BY <2>1, SizesNat DEF Avail, Available
  <2>3. ASSUME NEW i \in 1 .. Avail
        PROVE  InputBuffer[Advance(TailIndex, i)] = <<opens, Parsed + i>>
    <3>1. i \in 0 .. INPUT_BUFFER_SIZE /\ TailIndex + i < received
          /\ TailIndex + i = Parsed + i - 1 /\ TailIndex + i \in Index
      BY <2>1, <2>2, SizesNat DEF Index
    <3>2. Advance(TailIndex, i) = TailIndex + i
      BY <2>1, <3>1, SizesNat, AdvanceValue DEF TypeOK
    <3>3. QED BY <2>1, <3>1, <3>2
  <2>4. QED BY <2>1, <2>2, <2>3 DEF Unread, Sent
<1>2. QED
  BY <1>1, Held, PTL
=============================================================================
