------------------------------ MODULE Connection ------------------------------
(***************************************************************************)
(* What one CMSTCPConnection owns over its life: the socket and the        *)
(* packets it allocates, through Open with each of its failures,           *)
(* NetworkError, Close, reopening and the destructor.  KeyExchange models  *)
(* the exchange and its key buffers, PacketStream the bytes; here a packet *)
(* is an address, tagged with the connection it was allocated for, and the *)
(* two lists are sets, their order being PacketStream's subject.  Handlers *)
(* run on the event-loop thread and do not interleave.                     *)
(***************************************************************************)
EXTENDS Integers

CONSTANTS
    MaxOpens,       \* bound: sockets opened
    MaxPackets      \* bound: packets allocated

ASSUME BoundsAssumption == MaxOpens \in Nat /\ MaxPackets \in Nat

VARIABLES
    m_networkState, Socket_FD, m_readState,
    CurrentInputPacket, InputPackets,
    CurrentOutputPacket, OutputPackets,
    WritePtr,           \* the packet it points into
    exists,             \* the object has not been destroyed
    (* the process *)
    openFds,            \* descriptors socket() gave and nobody closed
    allocated,          \* packets allocated and not deleted
    opens, news,        \* sockets and packets so far
    closesFirst         \* callers close a socket before they reopen or destroy

inputVars  == <<m_readState, CurrentInputPacket, InputPackets>>
outputVars == <<CurrentOutputPacket, OutputPackets, WritePtr>>
heapVars   == <<allocated, news>>
socketVars == <<Socket_FD, openFds, opens>>
lifeVars   == <<exists, closesFirst>>
vars == <<m_networkState, socketVars, inputVars, outputVars, heapVars, lifeVars>>

NoFd == -1
Packet == [era : Nat, id : Nat, empty : BOOLEAN]
Null   == [era |-> 0, id |-> 0, empty |-> TRUE]     \* nullptr

\* A packet new returns while the connection of this Open is the current one.
New(empty) == [era |-> opens, id |-> news + 1, empty |-> empty]

\* What delete of the pointers in ps leaves; deleting nullptr is harmless.
Deleted(ps) == allocated \ ps

-----------------------------------------------------------------------------
Init ==
    /\ m_networkState = "NET_UNINIT" /\ Socket_FD = NoFd
    /\ m_readState = "READ_HEADER_0"
    /\ CurrentInputPacket = Null /\ InputPackets = {}
    /\ CurrentOutputPacket = Null /\ OutputPackets = {}
    /\ WritePtr = Null
    /\ exists = TRUE
    /\ openFds = {} /\ allocated = {} /\ opens = 0 /\ news = 0
    /\ closesFirst \in BOOLEAN

(* Who may call Open or the destructor: nobody does while the connection   *)
(* works, and one that closes first only once it has closed the socket.    *)
MayLeave == /\ exists /\ m_networkState = "NET_UNINIT"
            /\ closesFirst => Socket_FD = NoFd

\* Mutant: the phase of the header is not reset.
ResetIOMidBody ==
    /\ CurrentInputPacket' = Null
    /\ CurrentOutputPacket' = Null
    /\ UNCHANGED <<m_readState, InputPackets, OutputPackets, WritePtr, heapVars>>

\* "Reset I/O state" of Open: the lists are not part of it.
ResetIO ==
    /\ CurrentInputPacket' = Null
    /\ m_readState' = "READ_HEADER_0"
    /\ CurrentOutputPacket' = Null
    /\ UNCHANGED <<InputPackets, OutputPackets, WritePtr, heapVars>>

Open ==
    /\ MayLeave /\ opens < MaxOpens
    /\ opens' = opens + 1
    /\ Socket_FD' = opens + 1 /\ openFds' = openFds \cup {opens + 1}
    /\ m_networkState' = "NET_EXCHANGE_KEY_1"
    /\ ResetIO
    /\ UNCHANGED lifeVars

\* gethostbyname fails: false, with the socket open.
OpenBadHost ==
    /\ MayLeave /\ opens < MaxOpens
    /\ opens' = opens + 1
    /\ Socket_FD' = opens + 1 /\ openFds' = openFds \cup {opens + 1}
    /\ UNCHANGED <<m_networkState, inputVars, outputVars, heapVars, lifeVars>>

\* socket(), connect() or fcntl() fails: false, with no socket left.
OpenFails ==
    /\ MayLeave
    /\ Socket_FD' = NoFd
    /\ UNCHANGED <<m_networkState, openFds, opens, inputVars, outputVars,
                   heapVars, lifeVars>>

\* The two phases of the exchange, as KeyExchange has them.
KeyReceived ==
    /\ m_networkState = "NET_EXCHANGE_KEY_1"
    /\ m_networkState' = "NET_EXCHANGE_KEY_2"
    /\ UNCHANGED <<socketVars, inputVars, outputVars, heapVars, lifeVars>>
SessionKeySent ==
    /\ m_networkState = "NET_EXCHANGE_KEY_2"
    /\ m_networkState' = "NET_READY"
    /\ UNCHANGED <<socketVars, inputVars, outputVars, heapVars, lifeVars>>

NetworkError ==
    /\ exists /\ m_networkState # "NET_UNINIT"
    /\ m_networkState' = "NET_UNINIT"
    /\ UNCHANGED <<socketVars, inputVars, outputVars, heapVars, lifeVars>>

\* Mutant: the output queue is forgotten.
FreePacketsNotQueue ==
    /\ allocated' = Deleted({CurrentInputPacket, CurrentOutputPacket} \cup InputPackets)
    /\ CurrentInputPacket' = Null /\ InputPackets' = {}
    /\ CurrentOutputPacket' = Null
    /\ UNCHANGED OutputPackets

\* "Free packet buffers" of Close.
FreePackets ==
    /\ allocated' = Deleted({CurrentInputPacket, CurrentOutputPacket}
                              \cup InputPackets \cup OutputPackets)
    /\ CurrentInputPacket' = Null /\ InputPackets' = {}
    /\ OutputPackets' = {} /\ CurrentOutputPacket' = Null

\* m_readState and WritePtr stay as they are.
Close ==
    /\ exists
    /\ openFds' = openFds \ {Socket_FD} /\ Socket_FD' = NoFd
    /\ FreePackets
    /\ m_networkState' = "NET_UNINIT"
    /\ UNCHANGED <<m_readState, WritePtr, opens, news, lifeVars>>

\* The destructor frees keys only.
Destroy ==
    /\ MayLeave
    /\ exists' = FALSE
    /\ UNCHANGED <<m_networkState, socketVars, inputVars, outputVars, heapVars,
                   closesFirst>>

-----------------------------------------------------------------------------
(* Input *)

\* OnParsingHeader stops inside the header.
HeaderCut ==
    /\ m_networkState = "NET_READY" /\ m_readState = "READ_HEADER_0"
    /\ m_readState' = "READ_HEADER_1"
    /\ UNCHANGED <<m_networkState, socketVars, CurrentInputPacket, InputPackets,
                   outputVars, heapVars, lifeVars>>

\* The header announces too much: OnRead fails until the connection is given up.
HeaderTooLong ==
    /\ m_networkState = "NET_READY"
    /\ m_readState \in {"READ_HEADER_0", "READ_HEADER_1"}
    /\ m_readState' = "READ_HEADER_DONE"
    /\ UNCHANGED <<m_networkState, socketVars, CurrentInputPacket, InputPackets,
                   outputVars, heapVars, lifeVars>>

HeaderDone ==
    /\ m_networkState = "NET_READY" /\ news < MaxPackets
    /\ m_readState \in {"READ_HEADER_0", "READ_HEADER_1"}
    /\ m_readState' = "READ_BODY"
    /\ CurrentInputPacket' = New(FALSE)
    /\ allocated' = allocated \cup {New(FALSE)} /\ news' = news + 1
    /\ UNCHANGED <<m_networkState, socketVars, InputPackets, outputVars, lifeVars>>

BodyDone ==
    /\ m_networkState = "NET_READY" /\ m_readState = "READ_BODY"
    /\ InputPackets' = InputPackets \cup {CurrentInputPacket}
    /\ CurrentInputPacket' = Null
    /\ m_readState' = "READ_HEADER_0"
    /\ UNCHANGED <<m_networkState, socketVars, outputVars, heapVars, lifeVars>>

\* The session takes a packet out of the list and frees it.
ResolveInput ==
    /\ exists
    /\ \E p \in InputPackets : /\ InputPackets' = InputPackets \ {p}
                               /\ allocated' = Deleted({p})
    /\ UNCHANGED <<m_networkState, socketVars, m_readState, CurrentInputPacket,
                   outputVars, news, lifeVars>>

-----------------------------------------------------------------------------
(* Output *)

\* A session, which lives as long as the socket, queues a packet.
ComposeOutput ==
    /\ exists /\ Socket_FD # NoFd /\ news < MaxPackets
    /\ \E empty \in BOOLEAN :
         /\ OutputPackets' = OutputPackets \cup {New(empty)}
         /\ allocated' = allocated \cup {New(empty)}
    /\ news' = news + 1
    /\ UNCHANGED <<m_networkState, socketVars, inputVars, CurrentOutputPacket,
                   WritePtr, lifeVars>>

\* NextOutputPacket copies some queued packets into a new one and frees them.
NextOutputPacket ==
    /\ m_networkState = "NET_READY" /\ CurrentOutputPacket = Null
    /\ news < MaxPackets
    /\ \E taken \in SUBSET OutputPackets :
         /\ \E p \in taken : ~p.empty
         /\ OutputPackets' = OutputPackets \ taken
         /\ allocated' = Deleted(taken) \cup {New(FALSE)}
    /\ CurrentOutputPacket' = New(FALSE) /\ WritePtr' = New(FALSE)
    /\ news' = news + 1
    /\ UNCHANGED <<m_networkState, socketVars, inputVars, lifeVars>>

\* Only empty packets are queued: they go, and so does the merged one.
NothingToSend ==
    /\ m_networkState = "NET_READY" /\ CurrentOutputPacket = Null
    /\ OutputPackets # {} /\ \A p \in OutputPackets : p.empty
    /\ OutputPackets' = {}
    /\ allocated' = Deleted(OutputPackets)
    /\ UNCHANGED <<m_networkState, socketVars, inputVars, CurrentOutputPacket,
                   WritePtr, news, lifeVars>>

\* Mutant: the pointer to the batch is not cleared.
SentKeepsPointer ==
    /\ m_networkState = "NET_READY" /\ CurrentOutputPacket # Null
    /\ allocated' = Deleted({CurrentOutputPacket})
    /\ WritePtr' = Null
    /\ UNCHANGED <<m_networkState, socketVars, inputVars, CurrentOutputPacket,
                   OutputPackets, news, lifeVars>>

\* OnWrite has sent the rest of the batch.  (A partial, interrupted or failed
\* send() keeps it: nothing is owned or freed.)
Sent ==
    /\ m_networkState = "NET_READY" /\ CurrentOutputPacket # Null
    /\ allocated' = Deleted({CurrentOutputPacket})
    /\ CurrentOutputPacket' = Null /\ WritePtr' = Null
    /\ UNCHANGED <<m_networkState, socketVars, inputVars, OutputPackets, news,
                   lifeVars>>

Next ==
    \/ Open \/ OpenBadHost \/ OpenFails \/ KeyReceived \/ SessionKeySent
    \/ NetworkError \/ Close \/ Destroy
    \/ HeaderCut \/ HeaderTooLong \/ HeaderDone \/ BodyDone \/ ResolveInput
    \/ ComposeOutput \/ NextOutputPacket \/ NothingToSend \/ Sent

Spec == Init /\ [][Next]_vars

-----------------------------------------------------------------------------
(* Properties *)

TypeOK ==
    /\ m_networkState \in {"NET_UNINIT", "NET_EXCHANGE_KEY_1",
                           "NET_EXCHANGE_KEY_2", "NET_READY"}
    /\ m_readState \in {"READ_HEADER_0", "READ_HEADER_1", "READ_HEADER_DONE",
                        "READ_BODY"}
    /\ Socket_FD \in {NoFd} \cup Nat /\ openFds \subseteq Nat
    /\ {CurrentInputPacket, CurrentOutputPacket, WritePtr} \subseteq Packet
    /\ InputPackets \subseteq Packet /\ OutputPackets \subseteq Packet
    /\ allocated \subseteq Packet
    /\ opens \in Nat /\ news \in Nat
    /\ exists \in BOOLEAN /\ closesFirst \in BOOLEAN

Owned == ({CurrentInputPacket, CurrentOutputPacket} \ {Null})
           \cup InputPackets \cup OutputPackets

(* Whatever the object still points to is allocated, in every order of     *)
(* failures, reopenings and closes.                                        *)
HeldAreLive == Owned \subseteq allocated

(* No packet is deleted twice: the four places of the object that delete   *)
(* packets never hold the same one.                                        *)
OwnedOnce ==
    /\ InputPackets \cap OutputPackets = {}
    /\ CurrentInputPacket \notin InputPackets \cup OutputPackets
    /\ CurrentOutputPacket \notin InputPackets \cup OutputPackets
    /\ CurrentInputPacket = CurrentOutputPacket => CurrentInputPacket = Null

(* Both: no packet is used or deleted after it was deleted.                *)
NoUseAfterDelete == HeldAreLive /\ OwnedOnce

(* MakePackets and OnWrite dereference CurrentInputPacket and WritePtr     *)
(* without a test: in NET_READY a body being read has its packet, and a    *)
(* batch being sent has WritePtr in it, also when the connection before    *)
(* was lost in mid-body or in mid-batch.                                   *)
PointersFollowState ==
    m_networkState = "NET_READY" =>
      /\ m_readState = "READ_BODY" <=> CurrentInputPacket # Null
      /\ CurrentOutputPacket # Null => WritePtr = CurrentOutputPacket

(* Callers that close before they reopen or destroy lose nothing: every    *)
(* packet that is allocated and every descriptor that is open has an owner *)
(* that will free it.                                                      *)
NothingLost ==
    closesFirst => /\ allocated = Owned
                   /\ openFds = {Socket_FD} \ {NoFd}

(* With such callers no packet crosses from one connection to the next:    *)
(* what is queued, being sent or being read belongs to the present one, so *)
(* nothing composed for an old session is encrypted with a new one's key.  *)
OwnTraffic ==
    closesFirst => \A p \in Owned : p.era = opens

(* Both: Close "frees all resources" (tcp_connection.h), for callers that  *)
(* do call it before they go on.                                           *)
CloseIsClean == NothingLost /\ OwnTraffic
=============================================================================
