----------------------------- MODULE KeyExchange -----------------------------
(***************************************************************************)
(* The life of one CMSTCPConnection up to NET_READY: Open, the key         *)
(* exchange (OnRead with ReadRSAPublicKey, OnWrite with SendSessionKey),   *)
(* NetworkError, Close, and a new Open of the same object.  The server     *)
(* sends SIZES bytes for the two sizes, then N_BYTES of modulus and        *)
(* E_BYTES of exponent; TCP cuts them anywhere.                            *)
(*                                                                         *)
(* A cell of InputBuffer holds the origin of its byte: the connection      *)
(* (opens) and the position in what its server sent; <<0, 0>> is none.     *)
(* One action is one phase of a handler: event-loop handlers do not        *)
(* interleave with each other, but bytes arrive between any two phases.    *)
(***************************************************************************)
EXTENDS InputRing, Sequences

CONSTANTS
    SIZES, N_BYTES, E_BYTES,    \* the key as the server sends it (8, 256, 3)
    RSA_SIZE,                   \* RSA_size(): bytes of the encrypted session key
    PastArray(_, _),            \* the sizes memcpy may find past InputBuffer,
                                \* given HeadIndex and TailIndex
    MaxOpens                    \* bound: connections opened by the object

ASSUME KeySizeAssumption ==
    /\ {SIZES, N_BYTES, E_BYTES, RSA_SIZE, MaxOpens} \subseteq Nat \ {0}
    /\ SIZES + N_BYTES + E_BYTES < INPUT_BUFFER_SIZE
ASSUME PastArrayAssumption ==
    \A head, tail \in Index : PastArray(head, tail) \subseteq Nat \X Nat

VARIABLES
    m_networkState, Socket_FD, State,
    n_buf, e_buf, n_size, e_size,
    ServerPublicKey,            \* Null, Empty, or the pair of arrays (n, e)
    SessionKeyData, WriteLen,
    InputBuffer, HeadIndex, TailIndex,
    pc, firstRead,              \* position in the current handler
    (* the other end and the network *)
    opens,                      \* connections opened so far
    received,                   \* bytes recv() has returned on this one
    peerDown,                   \* the server or the network has gone
    keySent                     \* history: positions of SessionKeyData sent

Null  == << >>              \* nullptr
Empty == <<"RSA_new">>      \* a key without numbers
NoFd  == -1

\* An array of these bytes: one of no bytes is not nullptr.
Array(bytes) == <<"new", bytes>>

ringVars == <<InputBuffer, HeadIndex, TailIndex>>
keyVars  == <<State, n_buf, e_buf, n_size, e_size, ServerPublicKey>>
sendVars == <<SessionKeyData, WriteLen, keySent>>
peerVars == <<opens, received, peerDown>>
vars == <<m_networkState, Socket_FD, keyVars, sendVars, ringVars,
          pc, firstRead, peerVars>>

KeyMessage == SIZES + N_BYTES + E_BYTES
InFlight == KeyMessage - received

\* n bytes from the cell after the tail on; past the array they are not ours.
Copied(n) ==
    Array([i \in 1 .. n |-> IF TailIndex + i \in Index
                              THEN InputBuffer[TailIndex + i] ELSE <<0, 0>>])

\* What the server of the present connection sent from position p on.
Sent(p, n) == [i \in 1 .. n |-> <<opens, p + i>>]

Smaller(a, b) == IF a < b THEN a ELSE b
-----------------------------------------------------------------------------
Init ==
    /\ m_networkState = "NET_UNINIT" /\ Socket_FD = NoFd
    /\ State = 0 /\ n_buf = Null /\ e_buf = Null /\ n_size = 0 /\ e_size = 0
    /\ ServerPublicKey = Null /\ SessionKeyData = Null /\ WriteLen = 0
    /\ InputBuffer = [i \in Index |-> <<0, 0>>]
    /\ HeadIndex = 0 /\ TailIndex = INPUT_BUFFER_SIZE - 1
    /\ pc = "idle" /\ firstRead = TRUE
    /\ opens = 0 /\ received = 0 /\ peerDown = FALSE /\ keySent = << >>

\* Mutant: the phase of an earlier exchange is kept.
BeginInOldState ==
    /\ m_networkState' = "NET_EXCHANGE_KEY_1"
    /\ n_buf' = Null /\ e_buf' = Null
    /\ ServerPublicKey' = Empty
    /\ UNCHANGED <<State, n_size, e_size>>

\* Mutant: the buffers of an earlier exchange are kept.
BeginWithOldBuffers ==
    /\ m_networkState' = "NET_EXCHANGE_KEY_1"
    /\ State' = 0
    /\ ServerPublicKey' = Empty
    /\ UNCHANGED <<n_buf, e_buf, n_size, e_size>>

\* Wait for the server's key, with nothing left of an earlier exchange but the
\* sizes.
BeginExchange ==
    /\ m_networkState' = "NET_EXCHANGE_KEY_1"
    /\ State' = 0
    /\ n_buf' = Null /\ e_buf' = Null
    /\ ServerPublicKey' = Empty
    /\ UNCHANGED <<n_size, e_size>>

\* Nobody calls Open while the connection works; it may be called after a
\* NetworkError without a Close, the old Socket.FD still there.
MayOpen == m_networkState = "NET_UNINIT"

\* Open succeeds: the socket is connected and the exchange starts afresh.
\* InputBuffer's old bytes and WriteLen stay.
Open ==
    /\ MayOpen /\ opens < MaxOpens
    /\ Socket_FD' = opens + 1
    /\ BeginExchange
    /\ HeadIndex' = 0 /\ TailIndex' = INPUT_BUFFER_SIZE - 1
    /\ opens' = opens + 1 /\ received' = 0 /\ peerDown' = FALSE
    /\ keySent' = << >> /\ pc' = "idle"
    /\ UNCHANGED <<SessionKeyData, WriteLen, InputBuffer, firstRead>>

\* Open fails to resolve the host: it returns false with the socket open.
OpenBadHost ==
    /\ MayOpen /\ opens < MaxOpens
    /\ Socket_FD' = opens + 1
    /\ opens' = opens + 1
    /\ pc' = "idle"
    /\ UNCHANGED <<m_networkState, keyVars, sendVars, ringVars,
                   firstRead, received, peerDown>>

\* socket(), connect() or fcntl() fails: false, with no socket left.
OpenFails ==
    /\ MayOpen
    /\ Socket_FD' = NoFd
    /\ pc' = "idle"
    /\ UNCHANGED <<m_networkState, keyVars, sendVars, ringVars, firstRead,
                   peerVars>>

\* Close: n_buf and e_buf are not among what it frees.
Close ==
    /\ pc \in {"idle", "lost"}
    /\ Socket_FD' = NoFd
    /\ ServerPublicKey' = Null /\ SessionKeyData' = Null
    /\ m_networkState' = "NET_UNINIT"
    /\ pc' = "idle"
    /\ UNCHANGED <<State, n_buf, e_buf, n_size, e_size, WriteLen, keySent,
                   ringVars, firstRead, peerVars>>

\* The socket reports an error, or a handler has returned false.
NetworkError ==
    /\ pc \in {"idle", "lost"} /\ m_networkState # "NET_UNINIT"
    /\ m_networkState' = "NET_UNINIT"
    /\ UNCHANGED <<Socket_FD, keyVars, sendVars, ringVars, pc, firstRead,
                   peerVars>>

\* The server closes, or the network fails.
PeerGoes ==
    /\ m_networkState # "NET_UNINIT" /\ ~peerDown
    /\ peerDown' = TRUE
    /\ UNCHANGED <<m_networkState, Socket_FD, keyVars, sendVars, ringVars,
                   pc, firstRead, opens, received>>

-----------------------------------------------------------------------------
(* Reading: OnRead, FillInputBuffer, ReadRSAPublicKey *)

Exchanging == m_networkState \in {"NET_EXCHANGE_KEY_1", "NET_EXCHANGE_KEY_2"}

OnRead ==
    /\ pc = "idle" /\ Exchanging
    /\ InFlight > 0 \/ peerDown
    /\ pc' = "fill" /\ firstRead' = TRUE
    /\ UNCHANGED <<m_networkState, Socket_FD, keyVars, sendVars, ringVars,
                   peerVars>>

Full == FillSize(HeadIndex, TailIndex) = 0

\* FillInputBuffer returns 1: recv() gave n bytes, or the ring is full and
\* recv() is not called.  In NET_EXCHANGE_KEY_1 the key is parsed next.
FillSome ==
    /\ pc = "fill"
    /\ \E n \in IF Full THEN {0}
                       ELSE 1 .. Smaller(FillSize(HeadIndex, TailIndex), InFlight) :
         /\ InputBuffer' = Filled(InputBuffer, HeadIndex, n, Sent(received, n))
         /\ HeadIndex' = Advance(HeadIndex, n)
         /\ received' = received + n
    /\ IF m_networkState = "NET_EXCHANGE_KEY_1"
         THEN pc' = "read" /\ UNCHANGED firstRead
         ELSE pc' = "fill" /\ firstRead' = FALSE
    /\ UNCHANGED <<m_networkState, Socket_FD, keyVars, sendVars, TailIndex,
                   opens, peerDown>>

\* EAGAIN, EINTR, or the end of the stream on a later call: OnRead is done.
FillWouldBlock ==
    /\ pc = "fill" /\ ~Full
    /\ pc' = "idle"
    /\ UNCHANGED <<m_networkState, Socket_FD, keyVars, sendVars, ringVars,
                   firstRead, peerVars>>

\* An error, or the end of the stream on the first call: OnRead returns false.
FillFails ==
    /\ pc = "fill" /\ ~Full /\ peerDown
    /\ pc' = "lost"
    /\ UNCHANGED <<m_networkState, Socket_FD, keyVars, sendVars, ringVars,
                   firstRead, peerVars>>

Avail == Available(HeadIndex, TailIndex)

\* Mutant: one byte is left behind.
ConsumeShort(n) == TailIndex' = Advance(TailIndex, n - 1)

\* Moves the tail past n bytes.
Consume(n) == TailIndex' = Advance(TailIndex, n)
\* Phase 0 copies the sizes from InputBuffer + TailIndex + 1.  Open leaves
\* TailIndex on the last cell, so the source lies past the array.
ReadSizes ==
    /\ pc = "read" /\ State = 0
    /\ Avail >= SIZES
    /\ \E s \in PastArray(HeadIndex, TailIndex) :
         n_size' = s[1] /\ e_size' = s[2]
    /\ Consume(SIZES)
    /\ State' = 1
    /\ UNCHANGED <<m_networkState, Socket_FD, n_buf, e_buf, ServerPublicKey,
                   sendVars, InputBuffer, HeadIndex, pc, firstRead, peerVars>>

ReadModulus ==
    /\ pc = "read" /\ State = 1
    /\ Avail >= n_size
    /\ n_buf' = Copied(n_size)
    /\ Consume(n_size)
    /\ State' = 2
    /\ UNCHANGED <<m_networkState, Socket_FD, e_buf, n_size, e_size,
                   ServerPublicKey, sendVars, InputBuffer, HeadIndex,
                   pc, firstRead, peerVars>>
ReadExponent ==
    /\ pc = "read" /\ State = 2
    /\ Avail >= e_size
    /\ e_buf' = Copied(e_size)
    /\ Consume(e_size)
    /\ State' = 3
    /\ UNCHANGED <<m_networkState, Socket_FD, n_buf, n_size, e_size,
                   ServerPublicKey, sendVars, InputBuffer, HeadIndex,
                   pc, firstRead, peerVars>>

\* A phase lacks bytes: ReadRSAPublicKey returns false, OnRead fills again.
ReadWaits ==
    /\ pc = "read"
    /\ \/ State = 0 /\ Avail < SIZES
       \/ State = 1 /\ Avail < n_size
       \/ State = 2 /\ Avail < e_size
    /\ pc' = "fill" /\ firstRead' = FALSE
    /\ UNCHANGED <<m_networkState, Socket_FD, keyVars, sendVars, ringVars,
                   peerVars>>

\* Mutant: State is not reset for SendSessionKey.
BuildKeyKeepsState ==
    /\ pc = "read" /\ State > 2
    /\ ServerPublicKey' = <<n_buf, e_buf>>
    /\ n_buf' = Null /\ e_buf' = Null
    /\ m_networkState' = "NET_EXCHANGE_KEY_2"
    /\ SessionKeyData' = Null
    /\ pc' = "fill" /\ firstRead' = FALSE
    /\ UNCHANGED <<Socket_FD, State, n_size, e_size, WriteLen, keySent,
                   ringVars, peerVars>>

\* All three phases are done: rebuild the key and turn to sending.
BuildKey ==
    /\ pc = "read" /\ State > 2
    /\ ServerPublicKey' = <<n_buf, e_buf>>
    /\ n_buf' = Null /\ e_buf' = Null
    /\ m_networkState' = "NET_EXCHANGE_KEY_2"
    /\ State' = 0
    /\ SessionKeyData' = Null
    /\ pc' = "fill" /\ firstRead' = FALSE
    /\ UNCHANGED <<Socket_FD, n_size, e_size, WriteLen, keySent, ringVars,
                   peerVars>>

ReadRSAPublicKey == ReadSizes \/ ReadModulus \/ ReadExponent \/ ReadWaits \/ BuildKey

-----------------------------------------------------------------------------
(* Writing: OnWrite, SendSessionKey *)

\* State 0: encrypt the session key; on success go on to send it.
EncryptSessionKey ==
    /\ pc = "idle" /\ m_networkState = "NET_EXCHANGE_KEY_2" /\ State = 0
    /\ WriteLen' = 0
    /\ SessionKeyData' = <<ServerPublicKey, opens>>
    /\ State' = 1
    /\ pc' = "send"
    /\ UNCHANGED <<m_networkState, Socket_FD, n_buf, e_buf, n_size, e_size,
                   ServerPublicKey, keySent, ringVars, firstRead, peerVars>>

\* RSA_public_encrypt fails: OnWrite returns false.
EncryptFails ==
    /\ pc = "idle" /\ m_networkState = "NET_EXCHANGE_KEY_2" /\ State = 0
    /\ WriteLen' = 0
    /\ SessionKeyData' = <<ServerPublicKey, 0>>
    /\ pc' = "lost"
    /\ UNCHANGED <<m_networkState, Socket_FD, keyVars, keySent, ringVars,
                   firstRead, peerVars>>

\* State 1: a later OnWrite resumes the send.
ResumeSend ==
    /\ pc = "idle" /\ m_networkState = "NET_EXCHANGE_KEY_2" /\ State = 1
    /\ pc' = "send"
    /\ UNCHANGED <<m_networkState, Socket_FD, keyVars, sendVars, ringVars,
                   firstRead, peerVars>>

ToSend == RSA_SIZE - WriteLen

\* Mutant: set to what this call accepted.
WriteLenRestarts(n) == n

\* Where a partial send() of n bytes leaves WriteLen.
WriteLenAfter(n) == WriteLen + n
\* send() accepts n bytes; with the last of them the channel is ready.
SendKeyBytes ==
    /\ pc = "send" /\ ~peerDown
    /\ \E n \in 1 .. ToSend :
         /\ keySent' = keySent \o [i \in 1 .. n |-> WriteLen + i]
         /\ IF n < ToSend
              THEN /\ WriteLen' = WriteLenAfter(n)
                   /\ UNCHANGED <<ServerPublicKey, SessionKeyData,
                                  m_networkState>>
              ELSE /\ ServerPublicKey' = Null
                   /\ SessionKeyData' = Null
                   /\ m_networkState' = "NET_READY"
                   /\ UNCHANGED WriteLen
    /\ pc' = "idle"
    /\ UNCHANGED <<Socket_FD, State, n_buf, e_buf, n_size, e_size, ringVars,
                   firstRead, peerVars>>

\* EINTR or EAGAIN: try again on the next OnWrite.
SendInterrupted ==
    /\ pc = "send"
    /\ pc' = "idle"
    /\ UNCHANGED <<m_networkState, Socket_FD, keyVars, sendVars, ringVars,
                   firstRead, peerVars>>

\* send() fails: OnWrite returns false.
SendFails ==
    /\ pc = "send" /\ peerDown
    /\ pc' = "lost"
    /\ UNCHANGED <<m_networkState, Socket_FD, keyVars, sendVars, ringVars,
                   firstRead, peerVars>>

OnWrite == EncryptSessionKey \/ EncryptFails \/ ResumeSend
Send == SendKeyBytes \/ SendInterrupted \/ SendFails
FillInputBuffer == FillSome \/ FillWouldBlock \/ FillFails

Next == \/ Open \/ OpenBadHost \/ OpenFails \/ Close \/ NetworkError \/ PeerGoes
        \/ OnRead \/ FillInputBuffer \/ ReadRSAPublicKey
        \/ OnWrite \/ Send

(* Handlers run to their end and calls return; the event loop serves a     *)
(* readable socket and, while the session key is unsent, a writable one;   *)
(* neither recv() nor send() is interrupted for ever.                      *)
Fairness ==
    /\ WF_vars(OnRead) /\ WF_vars(FillInputBuffer) /\ SF_vars(FillSome)
    /\ WF_vars(ReadRSAPublicKey)
    /\ WF_vars(OnWrite) /\ WF_vars(Send)
    /\ SF_vars(SendKeyBytes) /\ SF_vars(FillFails) /\ SF_vars(SendFails)

Spec == Init /\ [][Next]_vars
FairSpec == Spec /\ Fairness

-----------------------------------------------------------------------------
(* Properties *)

TypeOK ==
    /\ m_networkState \in {"NET_UNINIT", "NET_EXCHANGE_KEY_1",
                           "NET_EXCHANGE_KEY_2", "NET_READY"}
    /\ Socket_FD \in {NoFd} \cup 1 .. MaxOpens
    /\ State \in 0 .. 3
    /\ n_size \in Nat /\ e_size \in Nat
    /\ WriteLen \in 0 .. RSA_SIZE - 1
    /\ HeadIndex \in Index /\ TailIndex \in Index
    /\ InputBuffer \in [Index -> (0 .. MaxOpens) \X (0 .. KeyMessage)]
    /\ pc \in {"idle", "fill", "read", "send", "lost"}
    /\ firstRead \in BOOLEAN /\ peerDown \in BOOLEAN
    /\ opens \in 0 .. MaxOpens /\ received \in 0 .. KeyMessage

(* The key the client encrypts with is made of the bytes of this           *)
(* connection's server that lie right behind the sizes, as many as phase 0 *)
(* found, whatever it found: however TCP cut them and whatever an earlier  *)
(* connection of the same object left in the ring, State, n_buf and e_buf. *)
KeyIsServers ==
    m_networkState = "NET_EXCHANGE_KEY_2" =>
      ServerPublicKey = <<Array(Sent(SIZES, n_size)),
                          Array(Sent(SIZES + n_size, e_size))>>

(* The encrypted session key goes out once: partial sends are resumed      *)
(* without repeating or skipping a byte, what is sent was encrypted under  *)
(* the key of this connection, and NET_READY means that all of it is sent. *)
SessionKeySentOnce ==
    /\ \A i \in 1 .. Len(keySent) : keySent[i] = i
    /\ m_networkState = "NET_READY" => Len(keySent) = RSA_SIZE
    /\ pc = "send" => /\ Len(keySent) = WriteLen
                      /\ SessionKeyData = <<ServerPublicKey, opens>>

(* No handler uses memory it has freed or never allocated: each phase      *)
(* finds the buffers of the phases before it, also after a NetworkError, a *)
(* Close and a new Open in mid-exchange.                                   *)
PointersLive ==
    /\ m_networkState = "NET_EXCHANGE_KEY_1" =>
         /\ ServerPublicKey = Empty /\ Socket_FD # NoFd
         /\ State >= 2 => n_buf # Null
         /\ State >= 3 => e_buf # Null
         /\ State < 3 => e_buf = Null
         /\ State < 2 => n_buf = Null
    /\ m_networkState = "NET_EXCHANGE_KEY_2" =>
         ServerPublicKey \notin {Null, Empty} /\ Socket_FD # NoFd
    /\ pc = "send" => SessionKeyData # Null /\ m_networkState = "NET_EXCHANGE_KEY_2"

Unread == [i \in 1 .. Avail |-> InputBuffer[Advance(TailIndex, i)]]
Parsed == SIZES + n_size + e_size

(* The channel starts where the exchange ended: once the key is parsed the *)
(* unread bytes of the ring are exactly what the server sent behind it, so *)
(* that the first header byte OnParsingHeader reads is the first byte not  *)
(* taken for the key, none left over and none read twice.                  *)
ReadyKeepsRest ==
    m_networkState \in {"NET_EXCHANGE_KEY_2", "NET_READY"} =>
      /\ Parsed <= received
      /\ Unread = Sent(Parsed, received - Parsed)

\* A phase wants more bytes than the server sends.
Starved ==
    /\ m_networkState = "NET_EXCHANGE_KEY_1" /\ received = KeyMessage
    /\ \/ State = 1 /\ Avail < n_size
       \/ State = 2 /\ Avail < e_size

(* Whatever sizes phase 0 finds, an exchange that has begun ends with the  *)
(* channel ready or the connection lost, unless the sizes ask for more     *)
(* bytes than the server sends: nothing else, no cut, interrupted call or  *)
(* remains of an earlier connection, stops it.                             *)
StopsOnlyForBytes ==
    m_networkState = "NET_EXCHANGE_KEY_1" ~>
      m_networkState \in {"NET_READY", "NET_UNINIT"} \/ pc = "lost" \/ Starved

(* "Then reconstruct RSA key from (n, e) and transition to KEY_2 state":   *)
(* an exchange that has begun ends, with the channel ready or the          *)
(* connection lost, and never just stops.                                  *)
ExchangeCompletes ==
    m_networkState = "NET_EXCHANGE_KEY_1" ~>
      m_networkState \in {"NET_READY", "NET_UNINIT"} \/ pc = "lost"
=============================================================================
