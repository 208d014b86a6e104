------------------------------ MODULE NetCommand ------------------------------
(***************************************************************************)
(* The way of a command from one end of a channel to the other:            *)
(* CNetCommand<T>::_Serialize writes it, the channel carries the packet,   *)
(* CInterfaceImpl<T>::GenerateNetCommand looks its NCID up and             *)
(* deserializes it field by field, and CZoneInterface::DispatchCommand     *)
(* routes it.  One action is one read from the stream, because each may    *)
(* throw.                                                                  *)
(*                                                                         *)
(* The commands are the six of command-system/commands_example.h.  The     *)
(* peer is not bound to the layouts: a packet may be cut short, carry more *)
(* than the command, or be too short for an NCID.                          *)
(***************************************************************************)
EXTENDS BinStream

CONSTANTS
    TICKET_SIZE,        \* bytes of an authentication ticket (22)
    Values,             \* Values[kind]: field values the peer may send
    Tails               \* bytes a packet may carry after its command

ASSUME CommandAssumption ==
    /\ TICKET_SIZE \in Nat
    /\ Tails \subseteq Seq(Byte)
    /\ DOMAIN Values = Kind
    /\ \A kind \in Kind : \A v \in Values[kind] :
          v \in Seq(Byte) /\ (kind \in FixedKind => Len(v) = Width(kind))

Type == {"MoveSelf", "ReceiveTicket", "Ping", "MeleeAttack", "ChatNormal",
         "ClientMoveSelf"}

NCID(type) == CASE type = "MoveSelf"       -> 30
                [] type = "ReceiveTicket"  -> 29
                [] type = "Ping"           -> 177
                [] type = "MeleeAttack"    -> 37
                [] type = "ChatNormal"     -> 110
                [] type = "ClientMoveSelf" -> 31

Movement == <<"short", "short", "short", "short", "chars", "short", "short">>

\* The fields in the order serialize writes them.
WriteLayout(type) ==
    CASE type = "MoveSelf"       -> Movement
      [] type = "ReceiveTicket"  -> [i \in 1 .. TICKET_SIZE |-> "char"]
      [] type = "Ping"           -> <<"int", "int", "int">>
      [] type = "MeleeAttack"    -> <<"char", "int">>
      [] type = "ChatNormal"     -> <<"string">>
      [] type = "ClientMoveSelf" -> <<"int">> \o Movement

\* Mutant: the fields of MeleeAttack are read in the other order.
ReadLayoutSwapped(type) ==
    IF type = "MeleeAttack" THEN <<"int", "char">> ELSE WriteLayout(type)

\* The fields in the order deserialize reads them.
ReadLayout(type) ==
    CASE type = "MoveSelf"       -> Movement
      [] type = "ReceiveTicket"  -> [i \in 1 .. TICKET_SIZE |-> "char"]
      [] type = "Ping"           -> <<"int", "int", "int">>
      [] type = "MeleeAttack"    -> <<"char", "int">>
      [] type = "ChatNormal"     -> <<"string">>
      [] type = "ClientMoveSelf" -> <<"int">> \o Movement

-----------------------------------------------------------------------------
VARIABLES
    sent,           \* history: the command the peer serializes
    whole,          \* history: the packet holds all of it
    packet,         \* the peer's output stream, then the server's input stream
    m_pos,          \* position of the input stream
    command,        \* the command under construction, or Null
    pc,             \* position in writing and in handling the packet
    outcome         \* what became of the last packet

Null == [type |-> "nullptr", values |-> << >>]

peerVars == <<sent, whole, packet>>
vars == <<peerVars, m_pos, command, pc, outcome>>

\* The generators CZoneInterface registers, by NCID.
Registered == {"ReceiveTicket", "Ping", "MoveSelf", "MeleeAttack", "ChatNormal"}
m_generators == [n \in {NCID(t) : t \in Registered} |->
                    CHOOSE t \in Registered : NCID(t) = n]

Init ==
    /\ sent = Null /\ whole = FALSE /\ packet = << >> /\ m_pos = 0
    /\ command = Null /\ pc = "idle" /\ outcome = "none"

\* _Serialize: the NCID, then the fields in the order of T::serialize.
Serialize ==
    /\ pc = "idle"
    /\ \E type \in Type : /\ sent' = [type |-> type, values |-> << >>]
                         /\ packet' = Bytes16(NCID(type))
    /\ whole' = FALSE /\ m_pos' = 0 /\ command' = Null /\ outcome' = "none"
    /\ pc' = "write"

WriteField ==
    /\ pc = "write"
    /\ Len(sent.values) < Len(WriteLayout(sent.type))
    /\ LET kind == WriteLayout(sent.type)[Len(sent.values) + 1] IN
         \E v \in Values[kind] :
           /\ sent' = [sent EXCEPT !.values = Append(@, v)]
           /\ packet' = packet \o Put(kind, v)
    /\ UNCHANGED <<whole, m_pos, command, pc, outcome>>

\* What arrives: the packet and perhaps more, or some first part of it.
Arrives ==
    /\ pc = "write"
    /\ Len(sent.values) = Len(WriteLayout(sent.type))
    /\ \/ \E tail \in Tails : packet' = packet \o tail /\ whole' = TRUE
       \/ \E n \in 0 .. Len(packet) - 1 :
             packet' = SubSeq(packet, 1, n) /\ whole' = FALSE
    /\ pc' = "ncid"
    /\ UNCHANGED <<sent, m_pos, command, outcome>>

\* GenerateNetCommand reads the NCID and finds the generator, which allocates
\* the command.
ReadNcid ==
    /\ pc = "ncid"
    /\ LET ncid == GetBinary(2, packet, m_pos) IN
         /\ ncid.ok
         /\ Value16(ncid.value) \in DOMAIN m_generators
         /\ command' = [type |-> m_generators[Value16(ncid.value)],
                        values |-> << >>]
         /\ m_pos' = ncid.pos
    /\ pc' = "fields"
    /\ UNCHANGED <<peerVars, outcome>>

\* The NCID is not registered: no command.
UnknownNcid ==
    /\ pc = "ncid"
    /\ LET ncid == GetBinary(2, packet, m_pos) IN
         /\ ncid.ok
         /\ Value16(ncid.value) \notin DOMAIN m_generators
         /\ m_pos' = ncid.pos
    /\ pc' = "idle" /\ outcome' = "unknown"
    /\ UNCHANGED <<peerVars, command>>

\* There is no NCID to read: this exception is thrown outside the try block.
NoNcid ==
    /\ pc = "ncid"
    /\ ~GetBinary(2, packet, m_pos).ok
    /\ pc' = "thrown"
    /\ UNCHANGED <<peerVars, m_pos, command, outcome>>

Fields == ReadLayout(command.type)
NextField == Get(Fields[Len(command.values) + 1], packet, m_pos)

ReadField ==
    /\ pc = "fields" /\ Len(command.values) < Len(Fields)
    /\ NextField.ok
    /\ command' = [command EXCEPT !.values = Append(@, NextField.value)]
    /\ m_pos' = NextField.pos
    /\ UNCHANGED <<peerVars, pc, outcome>>

\* A field lacks bytes: underflow_error is caught, the generator's command is
\* neither returned nor deleted.
Underflow ==
    /\ pc = "fields" /\ Len(command.values) < Len(Fields)
    /\ ~NextField.ok
    /\ m_pos' = NextField.pos
    /\ command' = Null
    /\ pc' = "idle" /\ outcome' = "underflow"
    /\ UNCHANGED peerVars

FieldsRead ==
    /\ pc = "fields" /\ Len(command.values) = Len(Fields)
    /\ pc' = "dispatch"
    /\ UNCHANGED <<peerVars, m_pos, command, outcome>>

\* The cases of DispatchCommand's switch.
Route(ncid) == CASE ncid = 29  -> "ReceiveTicket"
                 [] ncid = 177 -> "Ping"
                 [] ncid = 30  -> "MoveSelf"
                 [] ncid = 37  -> "MeleeAttack"
                 [] ncid = 110 -> "ChatNormal"
                 [] OTHER      -> "Unhandled"

\* DispatchCommand routes the command and deletes it.
DispatchCommand ==
    /\ pc = "dispatch"
    /\ outcome' = Route(NCID(command.type))
    /\ command' = Null
    /\ pc' = "idle"
    /\ UNCHANGED <<peerVars, m_pos>>

GenerateNetCommand == \/ ReadNcid \/ UnknownNcid \/ NoNcid
                      \/ ReadField \/ Underflow \/ FieldsRead

Next == Serialize \/ WriteField \/ Arrives \/ GenerateNetCommand \/ DispatchCommand

Spec == Init /\ [][Next]_vars

-----------------------------------------------------------------------------
TypeOK ==
    /\ packet \in Seq(Byte) /\ m_pos \in 0 .. Len(packet)
    /\ whole \in BOOLEAN
    /\ command.type \in Type \cup {"nullptr"} /\ command.values \in Seq(Seq(Byte))
    /\ pc \in {"idle", "write", "ncid", "fields", "dispatch", "thrown"}
    /\ outcome \in {"none", "unknown", "underflow", "Unhandled"} \cup Type

(* A command that reaches the dispatch is the one that was serialized,     *)
(* field for field, whatever was read before it and whatever follows it in *)
(* the packet: the two sides agree on order and width of every field and   *)
(* on every count.                                                         *)
RoundTrip == pc = "dispatch" => command = sent

(* No part of a command passes for a command: a packet cut anywhere is     *)
(* rejected, never dispatched with fields it does not hold.                *)
CutIsRejected == pc = "dispatch" => whole

(* A packet that holds its command is not rejected: it ends in the handler *)
(* that the switch of DispatchCommand names for it, and only an NCID       *)
(* nobody registered is left unanswered.                                   *)
WholeIsHandled ==
    whole => /\ pc # "thrown"
             /\ outcome \in {"none", IF sent.type \in Registered
                                       THEN sent.type ELSE "unknown"}

(* Both: a packet is handled exactly when it holds its command.            *)
HandledIffWhole == CutIsRejected /\ WholeIsHandled
=============================================================================
