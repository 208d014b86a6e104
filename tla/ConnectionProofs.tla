--------------------------- MODULE ConnectionProofs ---------------------------
(***************************************************************************)
(* Theorems about the ownership of a connection's packets and sockets, for *)
(* any number of connections and packets and both kinds of callers.        *)
(***************************************************************************)
EXTENDS Connection, TLAPS

(* An address is handed out once: what is allocated was numbered before.   *)
Numbered == \A p \in allocated : p.id \in 1 .. news

(* What PointersFollowState says, already from Open on.                    *)
Followed ==
    m_networkState # "NET_UNINIT" =>
      /\ exists /\ Socket_FD # NoFd
      /\ m_readState = "READ_BODY" <=> CurrentInputPacket # Null
      /\ CurrentOutputPacket # Null => WritePtr = CurrentOutputPacket

(* A caller that closes first finds the object empty while it has no       *)
(* socket.                                                                 *)
EmptyWhenClosed == closesFirst /\ Socket_FD = NoFd => Owned = {}

Safe == Numbered /\ HeldAreLive /\ OwnedOnce /\ Followed
Tidy == EmptyWhenClosed /\ NothingLost /\ OwnTraffic

(* A new packet is an address nobody holds.                                *)
LEMMA NewIsFresh ==
    ASSUME TypeOK, Numbered, NEW empty \in BOOLEAN
    PROVE  /\ New(empty) \in Packet /\ New(empty) \notin allocated
           /\ New(empty) # Null /\ Null \in Packet /\ Null \notin allocated
           /\ New(empty).id = news + 1 /\ New(empty).era = opens
           /\ news + 1 \in 1 .. news + 1
BY DEF TypeOK, Numbered, New, Packet, Null

(* The invariant holds at the start: no socket, no packet.                 *)
LEMMA Initially == Init => TypeOK /\ Safe /\ Tidy
BY BoundsAssumption
   DEF Init, TypeOK, Safe, Tidy, Numbered, HeldAreLive, OwnedOnce, Followed,
       EmptyWhenClosed, NothingLost, OwnTraffic, Owned, Packet, Null, NoFd

(* Callers stay of their kind.                                             *)
LEMMA CallersKind == [Next]_vars => closesFirst' = closesFirst
BY DEF Next, vars, lifeVars, Open, OpenBadHost, OpenFails, KeyReceived,
       SessionKeySent, NetworkError, Close, Destroy, HeaderCut, HeaderTooLong,
       HeaderDone, BodyDone, ResolveInput, ComposeOutput, NextOutputPacket,
       NothingToSend, Sent

(* Every step keeps the types.                                             *)
LEMMA TypeStep == TypeOK /\ Numbered /\ [Next]_vars => TypeOK'
<1> SUFFICES ASSUME TypeOK, Numbered, [Next]_vars PROVE TypeOK'
  OBVIOUS
<1>c. closesFirst' = closesFirst
  BY CallersKind
<1> USE <1>c DEF TypeOK, lifeVars
<1>0. \A e \in BOOLEAN : New(e) \in Packet
  BY NewIsFresh
<1>n. Null \in Packet
  BY DEF Null, Packet
<1>o. opens + 1 \in Nat /\ news + 1 \in Nat
  OBVIOUS
<1>1. CASE Open \/ OpenBadHost \/ OpenFails
  <2>1. CASE Open
    BY <2>1, <1>n, <1>o DEF Open, ResetIO, heapVars
  <2>2. CASE OpenBadHost
    BY <2>2, <1>o DEF OpenBadHost, inputVars, outputVars, heapVars
  <2>3. CASE OpenFails
    BY <2>3 DEF OpenFails, inputVars, outputVars, heapVars
  <2>4. QED BY <1>1, <2>1, <2>2, <2>3
<1>2. CASE KeyReceived \/ SessionKeySent \/ NetworkError \/ Destroy
  BY <1>2 DEF KeyReceived, SessionKeySent, NetworkError, Destroy, MayLeave, socketVars, inputVars, outputVars, heapVars
<1>3. CASE Close
  BY <1>3, <1>n DEF Close, FreePackets, Deleted
<1>4. CASE HeaderCut \/ HeaderTooLong \/ BodyDone \/ ResolveInput
  BY <1>4, <1>n DEF HeaderCut, HeaderTooLong, BodyDone, ResolveInput, Deleted, socketVars, outputVars, heapVars
<1>5. CASE HeaderDone
  BY <1>5, <1>0, <1>o DEF HeaderDone, socketVars, outputVars
<1>6. CASE ComposeOutput
  BY <1>6, <1>0, <1>o DEF ComposeOutput, socketVars, inputVars
<1>7. CASE NextOutputPacket
  BY <1>7, <1>0, <1>o DEF NextOutputPacket, Deleted, socketVars, inputVars
<1>8. CASE NothingToSend \/ Sent
  BY <1>8, <1>n DEF NothingToSend, Sent, Deleted, socketVars, inputVars
<1>9. CASE UNCHANGED vars
  BY <1>9 DEF vars, socketVars, inputVars, outputVars, heapVars
<1>10. QED BY <1>1, <1>2, <1>3, <1>4, <1>5, <1>6, <1>7, <1>8, <1>9 DEF Next

(* Every step keeps each packet at one place that is allocated, and the    *)
(* pointers where the states of the connection expect them.                *)
LEMMA SafeStep == TypeOK /\ Safe /\ [Next]_vars => Safe'
<1> SUFFICES ASSUME TypeOK, Safe, [Next]_vars PROVE Safe'
  OBVIOUS
<1> USE DEF Safe, Numbered, HeldAreLive, OwnedOnce, Followed, Owned, lifeVars
<1>0. \A e \in BOOLEAN : /\ New(e) \notin allocated /\ New(e) # Null
                         /\ New(e).id = news + 1 /\ news + 1 \in 1 .. news + 1
  BY NewIsFresh
<1>n. Null \notin allocated
  BY NewIsFresh
<1>m. news \in Nat /\ 1 .. news \subseteq 1 .. news + 1
  BY DEF TypeOK
<1>1. CASE Open
  BY <1>1, <1>n DEF Open, MayLeave, ResetIO, NoFd, heapVars, TypeOK
<1>2. CASE OpenBadHost \/ OpenFails \/ Destroy
  BY <1>2 DEF OpenBadHost, OpenFails, Destroy, MayLeave, socketVars, inputVars, outputVars, heapVars
<1>3. CASE KeyReceived \/ SessionKeySent \/ NetworkError
  BY <1>3 DEF KeyReceived, SessionKeySent, NetworkError, socketVars, inputVars, outputVars, heapVars
<1>4. CASE Close
  BY <1>4 DEF Close, FreePackets, Deleted
<1>5. CASE HeaderCut \/ HeaderTooLong
  BY <1>5 DEF HeaderCut, HeaderTooLong, socketVars, outputVars, heapVars
<1>6. CASE BodyDone
  <2>1. CurrentInputPacket # Null /\ CurrentInputPacket \in allocated
    BY <1>6 DEF BodyDone
  <2> USE <1>6 DEF BodyDone, socketVars, outputVars, heapVars
  <2>2. Numbered' /\ HeldAreLive'
    BY <2>1
  <2>3. OwnedOnce'
    BY <2>1, <1>n
  <2>4. Followed'
    OBVIOUS
  <2>5. QED BY <2>2, <2>3, <2>4
<1>7. CASE ResolveInput
  BY <1>7 DEF ResolveInput, Deleted, socketVars, outputVars
<1>8. CASE HeaderDone
  BY <1>8, <1>0, <1>n, <1>m DEF HeaderDone, socketVars, outputVars
<1>9. CASE ComposeOutput
  BY <1>9, <1>0, <1>n, <1>m DEF ComposeOutput, socketVars, inputVars
<1>10. CASE NextOutputPacket
  BY <1>10, <1>0, <1>n, <1>m DEF NextOutputPacket, Deleted, socketVars, inputVars
<1>11. CASE NothingToSend \/ Sent
  <2>1. CASE NothingToSend
    BY <2>1 DEF NothingToSend, Deleted, socketVars, inputVars
  <2>2. CASE Sent
    <3> USE <2>2 DEF Sent, Deleted, socketVars, inputVars
    <3>1. Numbered' /\ HeldAreLive'
      OBVIOUS
    <3>2. OwnedOnce' /\ Followed'
      BY <1>n
    <3>3. QED BY <3>1, <3>2
  <2>3. QED BY <1>11, <2>1, <2>2
<1>12. CASE UNCHANGED vars
  BY <1>12 DEF vars, socketVars, inputVars, outputVars, heapVars
<1>13. QED BY <1>1, <1>2, <1>3, <1>4, <1>5, <1>6, <1>7, <1>8, <1>9, <1>10, <1>11, <1>12 DEF Next

(* With callers that close first, every step accounts for all packets and  *)
(* descriptors.                                                            *)
LEMMA TidyStep == TypeOK /\ Safe /\ Tidy /\ [Next]_vars => Tidy'
<1> SUFFICES ASSUME TypeOK, Safe, Tidy, [Next]_vars, closesFirst PROVE Tidy'
  BY CallersKind DEF Tidy, EmptyWhenClosed, NothingLost, OwnTraffic
<1> USE DEF Tidy, EmptyWhenClosed, NothingLost, OwnTraffic, Owned, lifeVars
<1>0. \A e \in BOOLEAN : New(e) \notin allocated /\ New(e) # Null /\ New(e).era = opens
  BY NewIsFresh DEF Safe
<1>n. Null \notin allocated
  BY NewIsFresh DEF Safe
<1>f. NoFd \notin Nat /\ opens + 1 \in Nat
  BY DEF NoFd, TypeOK
<1>1. CASE Open
  BY <1>1, <1>f DEF Open, MayLeave, ResetIO, heapVars
<1>2. CASE OpenBadHost
  BY <1>2, <1>f DEF OpenBadHost, MayLeave, inputVars, outputVars, heapVars
<1>3. CASE OpenFails \/ Destroy
  BY <1>3 DEF OpenFails, Destroy, MayLeave, socketVars, inputVars, outputVars, heapVars
<1>4. CASE KeyReceived \/ SessionKeySent \/ NetworkError
  BY <1>4 DEF KeyReceived, SessionKeySent, NetworkError, socketVars, inputVars, outputVars, heapVars
<1>5. CASE Close
  BY <1>5 DEF Close, FreePackets, Deleted
<1>6. CASE HeaderCut \/ HeaderTooLong
  BY <1>6 DEF HeaderCut, HeaderTooLong, socketVars, outputVars, heapVars
<1>7. CASE BodyDone
  BY <1>7 DEF BodyDone, socketVars, outputVars, heapVars, Safe, Followed
<1>8. CASE ResolveInput
  BY <1>8 DEF ResolveInput, Deleted, socketVars, outputVars, Safe, OwnedOnce
<1>9. CASE HeaderDone
  BY <1>9, <1>0 DEF HeaderDone, socketVars, outputVars, Safe, Followed
<1>10. CASE ComposeOutput
  BY <1>10, <1>0 DEF ComposeOutput, socketVars, inputVars
<1>11. CASE NextOutputPacket
  BY <1>11, <1>0 DEF NextOutputPacket, Deleted, socketVars, inputVars, Safe, OwnedOnce, Followed
<1>12. CASE NothingToSend
  BY <1>12 DEF NothingToSend, Deleted, socketVars, inputVars, Safe, OwnedOnce
<1>13. CASE Sent
  BY <1>13 DEF Sent, Deleted, socketVars, inputVars, Safe, OwnedOnce
<1>14. CASE UNCHANGED vars
  BY <1>14 DEF vars, socketVars, inputVars, outputVars, heapVars
<1>15. QED BY <1>1, <1>2, <1>3, <1>4, <1>5, <1>6, <1>7, <1>8, <1>9, <1>10, <1>11, <1>12, <1>13, <1>14 DEF Next

(* The three parts are invariant together.                                 *)
THEOREM Invariance == Spec => [](TypeOK /\ Safe /\ Tidy)
<1>1. TypeOK /\ Safe /\ Tidy /\ [Next]_vars => (TypeOK /\ Safe /\ Tidy)'
  BY TypeStep, SafeStep, TidyStep DEF Safe
<1>2. QED BY Initially, <1>1, PTL DEF Spec

(* Types are kept, and NET_ERROR is never entered.                         *)
THEOREM TypeCorrect == Spec => []TypeOK
BY Invariance, PTL

(* Nothing the object points to has been deleted, and no packet is at two  *)
(* of the places that delete packets.                                      *)
THEOREM DeletedOnce == Spec => []NoUseAfterDelete
<1>1. Safe => NoUseAfterDelete
  BY DEF Safe, NoUseAfterDelete
<1>2. QED BY <1>1, Invariance, PTL

(* In NET_READY the pointers are where the handlers expect them.           *)
THEOREM PointersCorrect == Spec => []PointersFollowState
<1>1. Safe => PointersFollowState
  BY DEF Safe, Followed, PointersFollowState
<1>2. QED BY <1>1, Invariance, PTL

(* Callers that close first lose neither packet nor descriptor, and no     *)
(* packet of theirs crosses from one connection to the next.               *)
THEOREM CloseCorrect == Spec => []CloseIsClean
<1>1. Tidy => CloseIsClean
  BY DEF Tidy, CloseIsClean
<1>2. QED BY <1>1, Invariance, PTL
=============================================================================
