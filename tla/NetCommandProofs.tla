--------------------------- MODULE NetCommandProofs ---------------------------
(***************************************************************************)
(* What becomes of a command between _Serialize and DispatchCommand, for   *)
(* every byte width, every ticket size and every set of field values the   *)
(* peer may send, however its packet is cut and whatever follows it.       *)
(***************************************************************************)
EXTENDS NetCommand, SequenceTheorems, TLAPS

-----------------------------------------------------------------------------
(* The stream operators: a read stays inside the packet, and finds what    *)
(* was written.                                                            *)

(* The packet agrees with a text placed behind position pos, as far as the *)
(* packet goes.                                                            *)
Holds(bytes, pos, text) ==
    \A j \in 1 .. Len(text) :
        pos + j <= Len(bytes) => bytes[pos + j] = text[j]

(* A value as the program writes it: as wide as its kind, and no longer    *)
(* than its length prefix can say.                                         *)
Writable(kind, v) ==
    /\ v \in Seq(Byte)
    /\ kind \in FixedKind => Len(v) = Width(kind)
    /\ kind = "string" => Len(v) < BYTE * BYTE
    /\ kind = "chars" => Len(v) < BYTE

-----------------------------------------------------------------------------
(* The two bytes of an unsigned short                                      *)

(* They are bytes, whatever the number that is cut to them.                *)
LEMMA Bytes16Type ==
    ASSUME NEW n \in Nat
    PROVE  /\ Bytes16(n) \in Seq(Byte) /\ Len(Bytes16(n)) = 2
           /\ Bytes16(n)[1] = n % BYTE /\ Bytes16(n)[2] = (n \div BYTE) % BYTE
<1>1. n % BYTE \in Byte
    BY ByteAssumption DEF Byte
<1>2. (n \div BYTE) \in Nat
    BY ByteAssumption
<1>3. (n \div BYTE) % BYTE \in Byte
    BY <1>2, ByteAssumption DEF Byte
<1>4. QED BY <1>1, <1>3 DEF Bytes16

(* A number below BYTE * BYTE is read as it was written.                   *)
LEMMA Value16OfBytes16 ==
    ASSUME NEW n \in Nat, n < BYTE * BYTE
    PROVE  Value16(Bytes16(n)) = n
<1>1. /\ n = (n \div BYTE) * BYTE + (n % BYTE)
      /\ n % BYTE \in Nat /\ n \div BYTE \in Nat
    BY ByteAssumption
<1>2. n \div BYTE < BYTE
  <2>1. SUFFICES ASSUME n \div BYTE >= BYTE PROVE FALSE
      BY <1>1, ByteAssumption
  <2>2. PICK d \in Nat : n \div BYTE = BYTE + d
    <3>1. n \div BYTE - BYTE \in Nat
        BY <1>1, <2>1, ByteAssumption
    <3>2. n \div BYTE = BYTE + (n \div BYTE - BYTE)
        BY <1>1, ByteAssumption
    <3>3. QED BY <3>1, <3>2
  <2>3. (n \div BYTE) * BYTE = BYTE * BYTE + d * BYTE
      BY <2>2, ByteAssumption
  <2>4. d * BYTE \in Nat /\ BYTE * BYTE \in Nat
      BY ByteAssumption
  <2>5. QED BY <1>1, <2>3, <2>4
<1>3. (n \div BYTE) % BYTE = n \div BYTE
    BY <1>1, <1>2, ByteAssumption
<1>4. Bytes16(n)[1] = n % BYTE /\ Bytes16(n)[2] = n \div BYTE
    BY <1>3, Bytes16Type
<1>5. Value16(Bytes16(n)) = (n % BYTE) + (n \div BYTE) * BYTE
    BY <1>4 DEF Value16
<1>6. (n \div BYTE) * BYTE \in Nat
    BY <1>1, ByteAssumption
<1>7. QED BY <1>1, <1>5, <1>6

(* Any two bytes are a number.                                             *)
LEMMA Value16Type ==
    ASSUME NEW b \in Seq(Byte), Len(b) = 2
    PROVE  Value16(b) \in Nat
<1>1. b[1] \in Byte /\ b[2] \in Byte
    OBVIOUS
<1>3. b[1] \in Nat /\ b[2] \in Nat
    BY <1>1, ByteAssumption DEF Byte
<1>2. b[2] * BYTE \in Nat
    BY <1>3, ByteAssumption
<1>4. QED BY <1>2, <1>3 DEF Value16

-----------------------------------------------------------------------------
(* Reading raw bytes                                                       *)

(* What a read of size bytes gives: those bytes, or an exception.           *)
ReadsAsAsked(got, bytes, pos, size) ==
    /\ got.ok <=> pos + size <= Len(bytes)
    /\ got.ok => /\ got.value \in Seq(Byte) /\ Len(got.value) = size
                 /\ \A j \in 1 .. size : got.value[j] = bytes[pos + j]
                 /\ got.pos = pos + size
    /\ ~got.ok => got.pos = pos

(* checkRemaining lets a read through exactly when its bytes are there.    *)
LEMMA BinaryRead ==
    ASSUME NEW bytes \in Seq(Byte), NEW pos \in 0 .. Len(bytes), NEW size \in Nat,
           NEW got, got = GetBinary(size, bytes, pos)
    PROVE  ReadsAsAsked(got, bytes, pos, size)
<1>1. (remaining(bytes, pos) < size) <=> ~(pos + size <= Len(bytes))
    BY DEF remaining
<1>2. CASE remaining(bytes, pos) < size
  <2>1. got = [ok |-> FALSE, value |-> << >>, pos |-> pos]
      BY <1>2 DEF GetBinary
  <2>2. QED BY <1>1, <1>2, <2>1 DEF ReadsAsAsked
<1>3. CASE ~(remaining(bytes, pos) < size)
  <2> DEFINE part == SubSeq(bytes, pos + 1, pos + size)
  <2>1. got = [ok |-> TRUE, value |-> part, pos |-> pos + size]
      BY <1>3 DEF GetBinary
  <2>2. pos + size <= Len(bytes)
      BY <1>1, <1>3
  <2>3. \A i \in pos + 1 .. pos + size : bytes[i] \in Byte
      BY <2>2
  <2>4. pos + 1 \in Int /\ pos + size \in Int
      OBVIOUS
  <2>5. /\ part \in Seq(Byte)
        /\ Len(part) = IF pos + 1 <= pos + size
                         THEN pos + size - (pos + 1) + 1 ELSE 0
        /\ \A j \in 1 .. pos + size - (pos + 1) + 1 :
              part[j] = bytes[pos + 1 + j - 1]
      BY <2>3, <2>4, SubSeqProperties
  <2> HIDE DEF part
  <2>6. Len(part) = size /\ \A j \in 1 .. size : part[j] = bytes[pos + j]
      BY <2>5
  <2>7. QED BY <2>1, <2>2, <2>5, <2>6 DEF ReadsAsAsked
<1>4. QED BY <1>2, <1>3

(* What a read gives that asks for a text of that size: it, or an exception.*)
Finds(got, bytes, pos, text, size) ==
    /\ got.ok <=> pos + size <= Len(bytes)
    /\ got.ok => got.value = text /\ got.pos = pos + size

(* A read of a text the packet agrees with gives the text.                 *)
LEMMA BinaryFound ==
    ASSUME NEW bytes \in Seq(Byte), NEW pos \in 0 .. Len(bytes),
           NEW text \in Seq(Byte), Holds(bytes, pos, text),
           NEW size \in Nat, size = Len(text),
           NEW got, got = GetBinary(size, bytes, pos)
    PROVE  Finds(got, bytes, pos, text, size)
<1>1. ReadsAsAsked(got, bytes, pos, size)
    BY BinaryRead
<1>2. ASSUME got.ok PROVE got.value = text
  <2>1. /\ pos + size <= Len(bytes)
        /\ got.value \in Seq(Byte) /\ Len(got.value) = size
        /\ \A j \in 1 .. size : got.value[j] = bytes[pos + j]
      BY <1>1, <1>2 DEF ReadsAsAsked
  <2>2. ASSUME NEW j \in 1 .. Len(text) PROVE bytes[pos + j] = text[j]
    <3>1. pos + j <= Len(bytes)
        BY <2>1
    <3>2. QED BY <3>1 DEF Holds
  <2>3. \A j \in 1 .. Len(text) : got.value[j] = text[j]
      BY <2>1, <2>2
  <2>4. QED BY <2>1, <2>3, SeqEqual
<1>3. QED BY <1>1, <1>2 DEF ReadsAsAsked, Finds

(* Text that is a prefix and a rest: each is found at its own place.       *)
LEMMA HoldsSplit ==
    ASSUME NEW bytes \in Seq(Byte), NEW pos \in Nat,
           NEW s \in Seq(Byte), NEW t \in Seq(Byte),
           Holds(bytes, pos, s \o t)
    PROVE  Holds(bytes, pos, s) /\ Holds(bytes, pos + Len(s), t)
<1>1. /\ Len(s \o t) = Len(s) + Len(t)
      /\ \A i \in 1 .. Len(s) + Len(t) :
            (s \o t)[i] = IF i <= Len(s) THEN s[i] ELSE t[i - Len(s)]
    BY ConcatProperties
<1>2. Len(s) \in Nat /\ Len(t) \in Nat
    OBVIOUS
<1>3. ASSUME NEW j \in 1 .. Len(s), pos + j <= Len(bytes)
      PROVE  bytes[pos + j] = s[j]
  <2>1. j \in 1 .. Len(s \o t) /\ (s \o t)[j] = s[j]
      BY <1>1, <1>2
  <2>2. QED BY <1>3, <2>1 DEF Holds
<1>4. ASSUME NEW j \in 1 .. Len(t), pos + Len(s) + j <= Len(bytes)
      PROVE  bytes[pos + Len(s) + j] = t[j]
  <2>1. Len(s) + j \in 1 .. Len(s \o t) /\ (s \o t)[Len(s) + j] = t[j]
      BY <1>1, <1>2
  <2>2. pos + (Len(s) + j) = pos + Len(s) + j
      BY <1>2
  <2>3. QED BY <1>4, <2>1, <2>2 DEF Holds
<1>5. QED BY <1>3, <1>4 DEF Holds

-----------------------------------------------------------------------------
(* Writing and reading a field                                             *)

(* What is written for a string and for a vector that fit their prefixes.  *)
LEMMA PutPrefixed ==
    ASSUME NEW v \in Seq(Byte)
    PROVE  /\ Len(v) < BYTE * BYTE => PutString(v) = Bytes16(Len(v)) \o v
           /\ Len(v) < BYTE => PutChars(v) = <<Len(v)>> \o v
<1>1. Len(v) \in Nat /\ BYTE * BYTE \in Nat
    BY ByteAssumption
<1>2. ASSUME Len(v) < BYTE * BYTE
      PROVE  PutString(v) = Bytes16(Len(v)) \o v
  <2>1. Len(v) % (BYTE * BYTE) = Len(v)
      BY <1>1, <1>2
  <2>2. SubSeq(v, 1, Len(v)) = v
      BY SubSeqFull
  <2>3. QED BY <2>1, <2>2 DEF PutString
<1>3. ASSUME Len(v) < BYTE PROVE PutChars(v) = <<Len(v)>> \o v
  <2>1. Len(v) % BYTE = Len(v)
      BY <1>1, <1>3, ByteAssumption
  <2>2. QED BY <2>1 DEF PutChars
<1>4. QED BY <1>2, <1>3

(* What is written is bytes.                                               *)
LEMMA PutType ==
    ASSUME NEW kind \in Kind, NEW v \in Seq(Byte), Writable(kind, v)
    PROVE  Put(kind, v) \in Seq(Byte) /\ Len(Put(kind, v)) \in Nat
<1>1. CASE kind = "string"
  <2>1. Put(kind, v) = Bytes16(Len(v)) \o v
      BY <1>1, PutPrefixed DEF Put, Writable
  <2>2. Len(v) \in Nat
      OBVIOUS
  <2>3. Bytes16(Len(v)) \in Seq(Byte)
      BY <2>2, Bytes16Type
  <2>4. QED BY <2>1, <2>3, ConcatProperties
<1>2. CASE kind = "chars"
  <2>1. Put(kind, v) = <<Len(v)>> \o v
      BY <1>2, PutPrefixed DEF Put, Writable
  <2>2. Len(v) \in Byte
      BY <1>2, ByteAssumption DEF Writable, Byte
  <2>3. <<Len(v)>> \in Seq(Byte)
      BY <2>2
  <2>4. QED BY <2>1, <2>3, ConcatProperties
<1>3. CASE kind \in FixedKind
    BY <1>3 DEF Put, FixedKind
<1>4. QED BY <1>1, <1>2, <1>3 DEF Kind

(* No read leaves the packet, whatever the packet holds.                   *)
THEOREM GetInBounds ==
    ASSUME NEW kind \in Kind, NEW bytes \in Seq(Byte), NEW pos \in 0 .. Len(bytes),
           NEW got, got = Get(kind, bytes, pos)
    PROVE  got.pos \in pos .. Len(bytes) /\ (got.ok => got.value \in Seq(Byte))
<1>1. ASSUME NEW size \in Nat, NEW p \in pos .. Len(bytes),
             NEW r, r = GetBinary(size, bytes, p)
      PROVE  r.pos \in pos .. Len(bytes) /\ (r.ok => r.value \in Seq(Byte))
  <2>1. p \in 0 .. Len(bytes) /\ p + size \in Nat
      OBVIOUS
  <2>2. ReadsAsAsked(r, bytes, p, size)
      BY <1>1, <2>1, BinaryRead
  <2>3. QED BY <2>1, <2>2 DEF ReadsAsAsked
<1>2. CASE kind = "string"
  <2> DEFINE len == GetBinary(2, bytes, pos)
             rest == GetBinary(Value16(len.value), bytes, len.pos)
  <2>1. got = IF len.ok THEN rest ELSE len
      BY <1>2 DEF Get, GetString
  <2>2. len.pos \in pos .. Len(bytes)
      BY <1>1
  <2>3. CASE ~len.ok
    <3>1. got = len
        BY <2>1, <2>3
    <3>2. QED BY <2>2, <2>3, <3>1
  <2>4. CASE len.ok
    <3>1. ReadsAsAsked(len, bytes, pos, 2)
        BY BinaryRead
    <3>2. Value16(len.value) \in Nat
        BY <2>4, <3>1, Value16Type DEF ReadsAsAsked
    <3>3. got = rest
        BY <2>1, <2>4
    <3>4. QED BY <1>1, <2>2, <3>2, <3>3
  <2>5. QED BY <2>3, <2>4
<1>3. CASE kind = "chars"
  <2> DEFINE count == GetBinary(1, bytes, pos)
             chars == GetBinary(count.value[1], bytes, count.pos)
  <2>1. got = IF ~count.ok THEN count
              ELSE IF chars.ok THEN chars ELSE [chars EXCEPT !.pos = Len(bytes)]
      BY <1>3 DEF Get, GetChars
  <2>2. count.pos \in pos .. Len(bytes)
      BY <1>1
  <2>3. CASE ~count.ok
    <3>1. got = count
        BY <2>1, <2>3
    <3>2. QED BY <2>2, <2>3, <3>1
  <2>4. CASE count.ok
    <3>1. ReadsAsAsked(count, bytes, pos, 1)
        BY BinaryRead
    <3>2. count.value[1] \in Nat
      <4>1. count.value \in Seq(Byte) /\ Len(count.value) = 1
          BY <2>4, <3>1 DEF ReadsAsAsked
      <4>2. count.value[1] \in Byte
          BY <4>1
      <4>3. QED BY <4>2, ByteAssumption DEF Byte
    <3>3. CASE chars.ok
      <4>1. got = chars
          BY <2>1, <2>4, <3>3
      <4>2. QED BY <1>1, <2>2, <3>2, <4>1
    <3>4. CASE ~chars.ok
      <4>1. got = [chars EXCEPT !.pos = Len(bytes)]
          BY <2>1, <2>4, <3>4
      <4>2. chars = [ok |-> FALSE, value |-> << >>, pos |-> count.pos]
          BY <3>4 DEF GetBinary
      <4>3. QED BY <4>1, <4>2
    <3>5. QED BY <3>3, <3>4
  <2>5. QED BY <2>3, <2>4
<1>4. CASE kind \in FixedKind
  <2>1. got = GetBinary(Width(kind), bytes, pos)
      BY <1>4 DEF Get, FixedKind
  <2>2. Width(kind) \in Nat
      BY <1>4 DEF Width, FixedKind
  <2>3. QED BY <1>1, <2>1, <2>2
<1>5. QED BY <1>2, <1>3, <1>4 DEF Kind

(* A field is read as it was written, wherever it stands in the packet and *)
(* whatever follows it; it is not read when the packet ends inside it.     *)
THEOREM GetFinds ==
    ASSUME NEW kind \in Kind, NEW v \in Seq(Byte), Writable(kind, v),
           NEW bytes \in Seq(Byte), NEW pos \in 0 .. Len(bytes),
           Holds(bytes, pos, Put(kind, v)),
           NEW got, got = Get(kind, bytes, pos)
    PROVE  /\ got.ok <=> pos + Len(Put(kind, v)) <= Len(bytes)
           /\ got.ok => /\ got.value = v
                        /\ got.pos = pos + Len(Put(kind, v))
<1>0. Len(v) \in Nat
    OBVIOUS
<1>1. ASSUME NEW s \in Seq(Byte), NEW prefix,
             Put(kind, v) = s \o v, Len(s) = IF kind = "string" THEN 2 ELSE 1,
             prefix = GetBinary(Len(s), bytes, pos)
      PROVE  /\ Len(Put(kind, v)) = Len(s) + Len(v)
             /\ Holds(bytes, pos + Len(s), v)
             /\ prefix.ok <=> pos + Len(s) <= Len(bytes)
             /\ prefix.ok => prefix.value = s /\ prefix.pos = pos + Len(s)
  <2>1. Len(Put(kind, v)) = Len(s) + Len(v)
      BY <1>1, ConcatProperties
  <2>2. Holds(bytes, pos, s \o v) /\ pos \in Nat
      BY <1>1
  <2>3. Holds(bytes, pos, s) /\ Holds(bytes, pos + Len(s), v)
      BY <2>2, HoldsSplit
  <2>4. Len(s) \in Nat
      OBVIOUS
  <2>5. Finds(prefix, bytes, pos, s, Len(s))
      BY <1>1, <2>3, <2>4, BinaryFound
  <2>6. QED BY <2>1, <2>3, <2>5 DEF Finds
<1>2. CASE kind = "string"
  <2> DEFINE len == GetBinary(2, bytes, pos)
             rest == GetBinary(Value16(len.value), bytes, len.pos)
  <2>1. got = IF len.ok THEN rest ELSE len
      BY <1>2 DEF Get, GetString
  <2>2. /\ Bytes16(Len(v)) \in Seq(Byte) /\ Len(Bytes16(Len(v))) = 2
        /\ Value16(Bytes16(Len(v))) = Len(v)
      BY <1>0, <1>2, Bytes16Type, Value16OfBytes16 DEF Writable
  <2>3. Put(kind, v) = Bytes16(Len(v)) \o v
      BY <1>2, PutPrefixed DEF Put, Writable
  <2>4. /\ Len(Put(kind, v)) = 2 + Len(v)
        /\ Holds(bytes, pos + 2, v)
        /\ len.ok <=> pos + 2 <= Len(bytes)
        /\ len.ok => len.value = Bytes16(Len(v)) /\ len.pos = pos + 2
      BY <1>1, <1>2, <2>2, <2>3
  <2> HIDE DEF len
  <2>5. CASE ~len.ok
    <3>1. got = len /\ ~(pos + 2 <= Len(bytes))
        BY <2>1, <2>4, <2>5
    <3>2. ~got.ok /\ ~(pos + Len(Put(kind, v)) <= Len(bytes))
        BY <1>0, <2>4, <2>5, <3>1
    <3>3. QED BY <3>2
  <2>6. CASE len.ok
    <3>1. got = GetBinary(Len(v), bytes, pos + 2) /\ pos + 2 \in 0 .. Len(bytes)
        BY <2>1, <2>2, <2>4, <2>6
    <3>2. Finds(got, bytes, pos + 2, v, Len(v))
        BY <1>0, <2>4, <3>1, BinaryFound
    <3>3. QED BY <1>0, <2>4, <3>2 DEF Finds
  <2>7. QED BY <2>5, <2>6
<1>3. CASE kind = "chars"
  <2> DEFINE count == GetBinary(1, bytes, pos)
             chars == GetBinary(count.value[1], bytes, count.pos)
  <2>1. got = IF ~count.ok THEN count
              ELSE IF chars.ok THEN chars ELSE [chars EXCEPT !.pos = Len(bytes)]
      BY <1>3 DEF Get, GetChars
  <2>2. <<Len(v)>> \in Seq(Byte) /\ Len(<<Len(v)>>) = 1 /\ <<Len(v)>>[1] = Len(v)
      BY <1>0, <1>3, ByteAssumption DEF Writable, Byte
  <2>3. Put(kind, v) = <<Len(v)>> \o v
      BY <1>3, PutPrefixed DEF Put, Writable
  <2>4. /\ Len(Put(kind, v)) = 1 + Len(v)
        /\ Holds(bytes, pos + 1, v)
        /\ count.ok <=> pos + 1 <= Len(bytes)
        /\ count.ok => count.value = <<Len(v)>> /\ count.pos = pos + 1
      BY <1>1, <1>3, <2>2, <2>3
  <2> HIDE DEF count
  <2>5. CASE ~count.ok
    <3>1. got = count /\ ~(pos + 1 <= Len(bytes))
        BY <2>1, <2>4, <2>5
    <3>2. ~got.ok /\ ~(pos + Len(Put(kind, v)) <= Len(bytes))
        BY <1>0, <2>4, <2>5, <3>1
    <3>3. QED BY <3>2
  <2>6. CASE count.ok
    <3>1. /\ chars = GetBinary(Len(v), bytes, pos + 1)
          /\ pos + 1 \in 0 .. Len(bytes)
        BY <2>2, <2>4, <2>6
    <3>2. Finds(chars, bytes, pos + 1, v, Len(v))
        BY <1>0, <2>4, <3>1, BinaryFound
    <3>3. chars.ok => got = chars
        BY <2>1, <2>6
    <3>4. ASSUME ~chars.ok PROVE ~got.ok
      <4>1. chars = [ok |-> FALSE, value |-> << >>, pos |-> pos + 1]
          BY <3>1, <3>4 DEF GetBinary
      <4>2. got = [chars EXCEPT !.pos = Len(bytes)]
          BY <2>1, <2>6, <3>4
      <4>3. QED BY <4>1, <4>2
    <3> HIDE DEF chars
    <3>5. QED BY <1>0, <2>4, <3>2, <3>3, <3>4 DEF Finds
  <2>7. QED BY <2>5, <2>6
<1>4. CASE kind \in FixedKind
  <2>1. Put(kind, v) = v /\ got = GetBinary(Width(kind), bytes, pos)
      BY <1>4 DEF Put, Get, FixedKind
  <2>2. Width(kind) = Len(v)
      BY <1>4 DEF Writable
  <2>3. Finds(got, bytes, pos, v, Len(v))
      BY <1>0, <2>1, <2>2, BinaryFound
  <2>4. QED BY <2>1, <2>3 DEF Finds
<1>5. QED BY <1>2, <1>3, <1>4 DEF Kind

-----------------------------------------------------------------------------
(* The way of a command                                                    *)

(* What the wire format asks of its constants: an NCID fits its two bytes, *)
(* a string and a vector fit their length prefixes.                        *)
WireFits ==
    /\ \A type \in Type : NCID(type) < BYTE * BYTE
    /\ \A v \in Values["string"] : Len(v) < BYTE * BYTE
    /\ \A v \in Values["chars"] : Len(v) < BYTE

CommandType == [type : Type \cup {"nullptr"}, values : Seq(Seq(Byte))]

-----------------------------------------------------------------------------
(* The tables                                                              *)

(* Every layout is a sequence of kinds, the same for the two sides.        *)
LEMMA LayoutType ==
    ASSUME NEW type \in Type
    PROVE  WriteLayout(type) \in Seq(Kind) /\ ReadLayout(type) = WriteLayout(type)
<1>1. TICKET_SIZE \in Nat
    BY CommandAssumption
<1>2. {"short", "chars", "char", "int", "string"} \subseteq Kind
    BY DEF Kind, FixedKind
<1>3. Movement \in Seq(Kind)
    BY <1>2 DEF Movement
<1>4. [i \in 1 .. TICKET_SIZE |-> "char"] \in Seq(Kind)
    BY <1>1, <1>2
<1>5. <<"int">> \o Movement \in Seq(Kind)
    BY <1>2, <1>3, ConcatProperties
<1>6. CASE type = "ReceiveTicket"
    BY <1>4, <1>6 DEF WriteLayout, ReadLayout
<1>7. CASE type = "ClientMoveSelf"
    BY <1>5, <1>7 DEF WriteLayout, ReadLayout
<1>8. CASE type \in {"MoveSelf", "Ping", "MeleeAttack", "ChatNormal"}
    BY <1>2, <1>3, <1>8 DEF WriteLayout, ReadLayout
<1>9. QED BY <1>6, <1>7, <1>8 DEF Type

(* The NCIDs are numbers, and no two types share one.                      *)
LEMMA NcidInjective ==
    /\ \A type \in Type : NCID(type) \in Nat
    /\ \A s, t \in Type : NCID(s) = NCID(t) => s = t
<1>1. /\ NCID("MoveSelf") = 30 /\ NCID("ReceiveTicket") = 29
      /\ NCID("Ping") = 177 /\ NCID("MeleeAttack") = 37
      /\ NCID("ChatNormal") = 110 /\ NCID("ClientMoveSelf") = 31
    BY DEF NCID
<1>2. QED BY <1>1 DEF Type

(* The generators' table gives back the type of a registered NCID.         *)
LEMMA Generators ==
    /\ \A n \in DOMAIN m_generators : m_generators[n] \in Registered
    /\ \A type \in Type :
          /\ NCID(type) \in DOMAIN m_generators <=> type \in Registered
          /\ type \in Registered => m_generators[NCID(type)] = type
<1>1. Registered \subseteq Type
    BY DEF Registered, Type
<1>2. DOMAIN m_generators = {NCID(t) : t \in Registered}
    BY DEF m_generators
<1>3. ASSUME NEW n \in DOMAIN m_generators
      PROVE  m_generators[n] \in Registered /\ NCID(m_generators[n]) = n
  <2>1. m_generators[n] = CHOOSE t \in Registered : NCID(t) = n
      BY <1>2 DEF m_generators
  <2>2. \E t \in Registered : NCID(t) = n
      BY <1>2
  <2>3. QED BY <2>1, <2>2
<1>4. QED BY <1>1, <1>2, <1>3, NcidInjective

(* The switch has a case for every registered command: its own.            *)
LEMMA Routes ==
    ASSUME NEW type \in Registered
    PROVE  Route(NCID(type)) = type
BY DEF Registered, Route, NCID

(* The values of a kind are what the program writes.                       *)
LEMMA ValuesWritable ==
    ASSUME WireFits, NEW kind \in Kind, NEW v \in Values[kind]
    PROVE  v \in Seq(Byte) /\ Writable(kind, v)
BY CommandAssumption DEF WireFits, Writable

(* A packet that grows keeps the text it holds completely, a packet that   *)
(* is cut agrees with what was there as far as it goes.                    *)
LEMMA HoldsKept ==
    ASSUME NEW bytes \in Seq(Byte), NEW pos \in Nat, NEW text \in Seq(Byte),
           Holds(bytes, pos, text)
    PROVE  /\ pos + Len(text) <= Len(bytes) =>
                \A more \in Seq(Byte) : Holds(bytes \o more, pos, text)
           /\ \A n \in 0 .. Len(bytes) : Holds(SubSeq(bytes, 1, n), pos, text)
<1>1. ASSUME pos + Len(text) <= Len(bytes), NEW more \in Seq(Byte),
             NEW j \in 1 .. Len(text), pos + j <= Len(bytes \o more)
      PROVE  (bytes \o more)[pos + j] = text[j]
  <2>1. pos + j \in 1 .. Len(bytes)
      BY <1>1
  <2>2. (bytes \o more)[pos + j] = bytes[pos + j]
      BY <2>1, ConcatProperties
  <2>3. bytes[pos + j] = text[j]
      BY <2>1 DEF Holds
  <2>4. QED BY <2>2, <2>3
<1>2. ASSUME NEW n \in 0 .. Len(bytes), NEW j \in 1 .. Len(text),
             pos + j <= Len(SubSeq(bytes, 1, n))
      PROVE  SubSeq(bytes, 1, n)[pos + j] = text[j]
  <2>1. \A i \in 1 .. n : bytes[i] \in Byte
      OBVIOUS
  <2>2. 1 \in Int /\ n \in Int
      OBVIOUS
  <2>3. /\ Len(SubSeq(bytes, 1, n)) = IF 1 <= n THEN n - 1 + 1 ELSE 0
        /\ \A i \in 1 .. n - 1 + 1 : SubSeq(bytes, 1, n)[i] = bytes[1 + i - 1]
      BY <2>1, <2>2, SubSeqProperties
  <2>4. pos + j <= n /\ pos + j \in 1 .. n
      BY <1>2, <2>3
  <2>5. SubSeq(bytes, 1, n)[pos + j] = bytes[pos + j]
      BY <2>3, <2>4
  <2>6. pos + j <= Len(bytes)
      BY <2>4
  <2>7. bytes[pos + j] = text[j]
      BY <2>6 DEF Holds
  <2>8. QED BY <2>5, <2>7
<1>3. QED BY <1>1, <1>2 DEF Holds

(* Appended text stands where the packet ended.                            *)
LEMMA HoldsAppended ==
    ASSUME NEW bytes \in Seq(Byte), NEW text \in Seq(Byte)
    PROVE  Holds(bytes \o text, Len(bytes), text)
<1>1. ASSUME NEW j \in 1 .. Len(text)
      PROVE  (bytes \o text)[Len(bytes) + j] = text[j]
  <2>1. /\ Len(bytes) + j \in 1 .. Len(bytes) + Len(text)
        /\ ~(Len(bytes) + j <= Len(bytes)) /\ Len(bytes) + j - Len(bytes) = j
      OBVIOUS
  <2>2. QED BY <2>1, ConcatProperties
<1>2. QED BY <1>1 DEF Holds

-----------------------------------------------------------------------------
(* Commands in a packet                                                    *)

(* A command with some first part of its fields, as the peer writes them.  *)
WellFormed(cmd) ==
    /\ cmd \in CommandType /\ cmd.type \in Type
    /\ Len(cmd.values) <= Len(WriteLayout(cmd.type))
    /\ \A i \in 1 .. Len(cmd.values) :
          cmd.values[i] \in Values[WriteLayout(cmd.type)[i]]

PutAt(cmd, i) == Put(WriteLayout(cmd.type)[i], cmd.values[i])

(* Where the NCID and each field of the command end in the packet; and the *)
(* packet holds them there, as far as it goes.                             *)
FieldEnds(ends, cmd, bytes) ==
    LET n == Len(cmd.values) IN
      /\ Holds(bytes, 0, Bytes16(NCID(cmd.type)))
      /\ ends \in [0 .. n -> Nat] /\ ends[0] = 2
      /\ \A i \in 1 .. n : /\ ends[i] = ends[i - 1] + Len(PutAt(cmd, i))
                           /\ Holds(bytes, ends[i - 1], PutAt(cmd, i))
      /\ \A i \in 0 .. n : ends[i] <= ends[n]

(* The packet is exactly the command.                                      *)
Framed(cmd, bytes) ==
    \E ends : FieldEnds(ends, cmd, bytes) /\ ends[Len(cmd.values)] = Len(bytes)

(* A field that has been written is bytes, as wide as its kind asks.       *)
LEMMA PutAtType ==
    ASSUME WireFits, NEW cmd, WellFormed(cmd), NEW i \in 1 .. Len(cmd.values)
    PROVE  /\ WriteLayout(cmd.type)[i] \in Kind
           /\ cmd.values[i] \in Seq(Byte)
           /\ Writable(WriteLayout(cmd.type)[i], cmd.values[i])
           /\ PutAt(cmd, i) \in Seq(Byte) /\ Len(PutAt(cmd, i)) \in Nat
<1>1. WriteLayout(cmd.type) \in Seq(Kind)
    BY LayoutType DEF WellFormed
<1>2. cmd.values \in Seq(Seq(Byte))
    BY DEF WellFormed, CommandType
<1>3. i \in 1 .. Len(WriteLayout(cmd.type))
    BY <1>1, <1>2 DEF WellFormed
<1>4. WriteLayout(cmd.type)[i] \in Kind
    BY <1>1, <1>3
<1>5. cmd.values[i] \in Values[WriteLayout(cmd.type)[i]]
    BY DEF WellFormed
<1>6. /\ cmd.values[i] \in Seq(Byte)
      /\ Writable(WriteLayout(cmd.type)[i], cmd.values[i])
    BY <1>4, <1>5, ValuesWritable
<1>7. QED BY <1>4, <1>6, PutType DEF PutAt

(* A command without fields ends where its NCID does.                      *)
LEMMA NoFields ==
    ASSUME NEW type \in Type
    PROVE  LET cmd == [type |-> type, values |-> << >>]
               bytes == Bytes16(NCID(type))
           IN  /\ WellFormed(cmd)
               /\ bytes \in Seq(Byte) /\ Len(bytes) = 2
               /\ Framed(cmd, bytes)
<1> DEFINE cmd == [type |-> type, values |-> << >>]
           bytes == Bytes16(NCID(type))
           ends == [i \in 0 .. 0 |-> 2]
<1>1. cmd.type = type /\ cmd.values = << >> /\ Len(<< >>) = 0
    OBVIOUS
<1>2. bytes \in Seq(Byte) /\ Len(bytes) = 2
    BY NcidInjective, Bytes16Type
<1>3. cmd \in CommandType
    BY EmptySeq DEF CommandType
<1>4. WriteLayout(type) \in Seq(Kind)
    BY LayoutType
<1>5. Len(WriteLayout(type)) >= 0
    BY <1>4
<1>6. WellFormed(cmd)
    BY <1>1, <1>3, <1>5 DEF WellFormed
<1>7. Holds(bytes, 0, bytes)
    BY DEF Holds
<1>8. FieldEnds(ends, cmd, bytes)
    BY <1>1, <1>7 DEF FieldEnds
<1>9. Framed(cmd, bytes)
    BY <1>1, <1>2, <1>8 DEF Framed
<1>10. QED BY <1>2, <1>6, <1>9

\* A command and its packet with one more field.
Extends(more, longer, cmd, bytes) ==
    LET kind == WriteLayout(cmd.type)[Len(cmd.values) + 1] IN
      /\ Len(cmd.values) < Len(WriteLayout(cmd.type))
      /\ \E v \in Values[kind] :
            /\ more = [cmd EXCEPT !.values = Append(@, v)]
            /\ longer = bytes \o Put(kind, v)

(* One more end, no nearer than the last.                                  *)
LEMMA OneMoreEnd ==
    ASSUME NEW n \in Nat, NEW ends \in [0 .. n -> Nat],
           \A i \in 0 .. n : ends[i] <= ends[n],
           NEW top \in Nat, ends[n] <= top,
           NEW new, new = [i \in 0 .. n + 1 |-> IF i = n + 1 THEN top ELSE ends[i]]
    PROVE  /\ new \in [0 .. n + 1 -> Nat] /\ new[n + 1] = top
           /\ \A i \in 0 .. n : new[i] = ends[i]
           /\ \A i \in 0 .. n + 1 : new[i] <= new[n + 1]
<1>1. \A i \in 0 .. n + 1 : i # n + 1 => i \in 0 .. n
    OBVIOUS
<1>2. \A i \in 0 .. n + 1 : new[i] = IF i = n + 1 THEN top ELSE ends[i]
    OBVIOUS
<1>3. \A i \in 0 .. n : i \in 0 .. n + 1 /\ i # n + 1
    OBVIOUS
<1>4. \A i \in 0 .. n : new[i] = ends[i]
    BY <1>2, <1>3
<1>5. n + 1 \in 0 .. n + 1
    OBVIOUS
<1>6. new[n + 1] = top
    BY <1>2, <1>5
<1>7. ASSUME NEW i \in 0 .. n + 1 PROVE new[i] \in Nat /\ new[i] <= top
  <2>1. CASE i = n + 1
      BY <2>1, <1>6
  <2>2. CASE i # n + 1
    <3>1. i \in 0 .. n
        BY <1>1, <2>2
    <3>2. new[i] = ends[i] /\ ends[i] \in Nat /\ ends[i] <= ends[n] /\ ends[n] \in Nat
        BY <1>4, <3>1
    <3>3. QED BY <3>2
  <2>3. QED BY <2>1, <2>2
<1>8. new \in [0 .. n + 1 -> Nat]
    BY <1>7
<1>9. QED BY <1>4, <1>6, <1>7, <1>8

(* Appending a field to a command and to its packet: the ends so far stay, *)
(* and the new one is that of the packet.                                  *)
LEMMA OneMoreField ==
    ASSUME WireFits, NEW cmd, WellFormed(cmd), NEW bytes \in Seq(Byte),
           Framed(cmd, bytes), NEW more, NEW longer, Extends(more, longer, cmd, bytes)
    PROVE  WellFormed(more) /\ longer \in Seq(Byte) /\ Framed(more, longer)
<1>1. PICK ends : FieldEnds(ends, cmd, bytes) /\ ends[Len(cmd.values)] = Len(bytes)
    BY DEF Framed
<1>2. PICK kind : kind = WriteLayout(cmd.type)[Len(cmd.values) + 1]
    OBVIOUS
<1>3. PICK v \in Values[kind] : /\ more = [cmd EXCEPT !.values = Append(@, v)]
                               /\ longer = bytes \o Put(kind, v)
    BY <1>2 DEF Extends
<1> DEFINE n == Len(cmd.values)
           new == [i \in 0 .. n + 1 |-> IF i = n + 1 THEN Len(longer) ELSE ends[i]]
<1>4. /\ cmd \in CommandType /\ cmd.type \in Type
      /\ cmd.values \in Seq(Seq(Byte)) /\ n \in Nat
    BY DEF WellFormed, CommandType
<1>5. WriteLayout(cmd.type) \in Seq(Kind)
    BY <1>4, LayoutType
<1>6. kind \in Kind
    BY <1>4, <1>5, <1>2 DEF Extends
<1>7. v \in Seq(Byte) /\ Writable(kind, v)
    BY <1>6, ValuesWritable
<1>8. Put(kind, v) \in Seq(Byte) /\ Len(Put(kind, v)) \in Nat
    BY <1>6, <1>7, PutType
<1>9. longer \in Seq(Byte) /\ Len(longer) = Len(bytes) + Len(Put(kind, v))
    BY <1>8, <1>3, ConcatProperties
<1>10. /\ more.type = cmd.type /\ more.values = Append(cmd.values, v)
      /\ more \in CommandType
  <2>1. Append(cmd.values, v) \in Seq(Seq(Byte))
      BY <1>4, <1>7
  <2> DEFINE vs == Append(cmd.values, v)
  <2>2. more = [cmd EXCEPT !.values = vs]
      BY <1>3
  <2> HIDE DEF vs
  <2>3. more = [type |-> cmd.type, values |-> vs]
      BY <1>4, <2>2 DEF CommandType
  <2>4. more \in CommandType
      BY <1>4, <2>1, <2>3 DEF CommandType, vs
  <2>5. QED BY <2>3, <2>4 DEF vs
<1>11. /\ Len(more.values) = n + 1 /\ more.values[n + 1] = v
      /\ \A i \in 1 .. n : more.values[i] = cmd.values[i]
    BY <1>4, <1>7, <1>10
<1>12. WellFormed(more)
  <2>1. \A i \in 1 .. Len(more.values) :
           more.values[i] \in Values[WriteLayout(more.type)[i]]
      BY <1>4, <1>2, <1>10, <1>11 DEF WellFormed
  <2>2. Len(more.values) <= Len(WriteLayout(more.type))
      BY <1>4, <1>5, <1>10, <1>11 DEF Extends
  <2>3. QED BY <1>4, <1>10, <2>1, <2>2 DEF WellFormed
<1>13. /\ PutAt(more, n + 1) = Put(kind, v)
       /\ \A i \in 1 .. n : PutAt(more, i) = PutAt(cmd, i)
    BY <1>2, <1>10, <1>11 DEF PutAt
<1>14. /\ ends \in [0 .. n -> Nat] /\ ends[0] = 2 /\ ends[n] = Len(bytes)
       /\ \A i \in 0 .. n : ends[i] <= ends[n]
       /\ Holds(bytes, 0, Bytes16(NCID(cmd.type)))
       /\ \A i \in 1 .. n : /\ ends[i] = ends[i - 1] + Len(PutAt(cmd, i))
                            /\ Holds(bytes, ends[i - 1], PutAt(cmd, i))
    BY <1>1 DEF FieldEnds
<1>15. /\ new \in [0 .. n + 1 -> Nat] /\ new[0] = 2
       /\ new[n + 1] = Len(longer) /\ new[n] = Len(bytes)
       /\ \A i \in 0 .. n : new[i] = ends[i]
       /\ \A i \in 0 .. n + 1 : new[i] <= new[n + 1]
  <2>1. Len(longer) \in Nat /\ Len(bytes) <= Len(longer)
      BY <1>8, <1>9
  <2> HIDE DEF n
  <2>2. QED BY <1>4, <1>14, <2>1, OneMoreEnd
<1> HIDE DEF new
<1>16. ASSUME NEW i \in 1 .. n + 1
       PROVE  /\ new[i] = new[i - 1] + Len(PutAt(more, i))
              /\ Holds(longer, new[i - 1], PutAt(more, i))
  <2>1. CASE i = n + 1
    <3>1. i - 1 = n
        BY <1>4, <2>1
    <3>2. Holds(longer, Len(bytes), Put(kind, v))
        BY <1>8, <1>3, HoldsAppended
    <3>3. QED BY <1>9, <1>13, <1>15, <2>1, <3>1, <3>2
  <2>2. CASE i # n + 1
    <3>1. i \in 1 .. n /\ i - 1 \in 0 .. n /\ i \in 0 .. n
        BY <1>4, <2>2
    <3>2. ends[i - 1] \in Nat /\ ends[i - 1] + Len(PutAt(cmd, i)) <= Len(bytes)
        BY <1>14, <3>1
    <3>3. PutAt(cmd, i) \in Seq(Byte)
        BY <3>1, PutAtType
    <3>4. Holds(bytes, ends[i - 1], PutAt(cmd, i))
        BY <1>14, <3>1
    <3>5. Holds(longer, ends[i - 1], PutAt(cmd, i))
        BY <1>8, <1>3, <3>2, <3>3, <3>4, HoldsKept
    <3>6. QED BY <1>13, <1>14, <1>15, <3>1, <3>5
  <2>3. QED BY <2>1, <2>2
<1>17. Holds(longer, 0, Bytes16(NCID(more.type)))
  <2>1. PICK ncid : ncid = Bytes16(NCID(cmd.type))
      OBVIOUS
  <2>2. ncid \in Seq(Byte) /\ Len(ncid) = 2
      BY <1>4, <2>1, NcidInjective, Bytes16Type
  <2>3. 0 + Len(ncid) <= Len(bytes) /\ 0 \in Nat
      BY <1>4, <1>14, <2>2
  <2>4. Holds(bytes, 0, ncid)
      BY <1>14, <2>1
  <2>5. Holds(bytes \o Put(kind, v), 0, ncid)
      BY <1>8, <2>2, <2>3, <2>4, HoldsKept
  <2>6. QED BY <1>3, <1>10, <2>1, <2>5
<1>18. FieldEnds(new, more, longer)
    BY <1>11, <1>15, <1>16, <1>17 DEF FieldEnds
<1>19. new[Len(more.values)] = Len(longer)
    BY <1>11, <1>15
<1>20. QED BY <1>9, <1>12, <1>18, <1>19 DEF Framed

(* What follows a packet does not disturb it, and a cut leaves what it     *)
(* leaves.                                                                 *)
LEMMA FrameKept ==
    ASSUME WireFits, NEW cmd, WellFormed(cmd), NEW bytes \in Seq(Byte),
           NEW ends, FieldEnds(ends, cmd, bytes),
           ends[Len(cmd.values)] = Len(bytes)
    PROVE  /\ \A tail \in Seq(Byte) : FieldEnds(ends, cmd, bytes \o tail)
           /\ \A m \in 0 .. Len(bytes) :
                 FieldEnds(ends, cmd, SubSeq(bytes, 1, m))
<1> DEFINE n == Len(cmd.values)
           ncid == Bytes16(NCID(cmd.type))
<1>1. n \in Nat /\ cmd.type \in Type
    BY DEF WellFormed, CommandType
<1>2. ncid \in Seq(Byte) /\ Len(ncid) = 2
    BY <1>1, NcidInjective, Bytes16Type
<1>3. /\ ends \in [0 .. n -> Nat] /\ ends[0] = 2 /\ ends[n] = Len(bytes)
      /\ \A i \in 0 .. n : ends[i] <= ends[n]
      /\ Holds(bytes, 0, ncid)
      /\ \A i \in 1 .. n : /\ ends[i] = ends[i - 1] + Len(PutAt(cmd, i))
                           /\ Holds(bytes, ends[i - 1], PutAt(cmd, i))
    BY DEF FieldEnds
<1>4. ASSUME NEW i \in 1 .. n
      PROVE  /\ ends[i - 1] \in Nat /\ PutAt(cmd, i) \in Seq(Byte)
             /\ ends[i - 1] + Len(PutAt(cmd, i)) <= Len(bytes)
             /\ Holds(bytes, ends[i - 1], PutAt(cmd, i))
  <2>1. i \in 0 .. n /\ i - 1 \in 0 .. n
      BY <1>1
  <2>2. PutAt(cmd, i) \in Seq(Byte)
      BY PutAtType
  <2>3. QED BY <1>3, <2>1, <2>2
<1>5. 0 + 2 <= Len(bytes)
    BY <1>1, <1>3
<1>6. ASSUME NEW tail \in Seq(Byte)
      PROVE  FieldEnds(ends, cmd, bytes \o tail)
  <2>1. Holds(bytes \o tail, 0, ncid)
      BY <1>2, <1>3, <1>5, HoldsKept
  <2>2. \A i \in 1 .. n : Holds(bytes \o tail, ends[i - 1], PutAt(cmd, i))
      BY <1>4, HoldsKept
  <2>3. QED BY <1>3, <2>1, <2>2 DEF FieldEnds
<1>7. ASSUME NEW m \in 0 .. Len(bytes)
      PROVE  FieldEnds(ends, cmd, SubSeq(bytes, 1, m))
  <2>1. Holds(SubSeq(bytes, 1, m), 0, ncid)
      BY <1>2, <1>3, HoldsKept
  <2>2. \A i \in 1 .. n :
           Holds(SubSeq(bytes, 1, m), ends[i - 1], PutAt(cmd, i))
      BY <1>4, HoldsKept
  <2>3. QED BY <1>3, <2>1, <2>2 DEF FieldEnds
<1>8. QED BY <1>6, <1>7

(* The NCID at the head of the packet is that of the command, or the       *)
(* packet does not reach so far.                                           *)
LEMMA NcidRead ==
    ASSUME WireFits, NEW cmd, WellFormed(cmd), NEW bytes \in Seq(Byte),
           NEW ends, FieldEnds(ends, cmd, bytes),
           NEW got, got = GetBinary(2, bytes, 0)
    PROVE  /\ got.ok => /\ Value16(got.value) = NCID(cmd.type)
                        /\ got.pos = ends[0] /\ got.pos \in 0 .. Len(bytes)
           /\ ~got.ok => ~(ends[Len(cmd.values)] <= Len(bytes))
<1>1. cmd.type \in Type /\ Len(cmd.values) \in Nat
    BY DEF WellFormed, CommandType
<1>2. PICK n \in Nat : n = NCID(cmd.type) /\ n < BYTE * BYTE
    BY <1>1, NcidInjective DEF WireFits
<1>3. PICK ncid : ncid = Bytes16(n)
    OBVIOUS
<1>4. ncid \in Seq(Byte) /\ 2 = Len(ncid) /\ Value16(ncid) = n
    BY <1>2, <1>3, Bytes16Type, Value16OfBytes16
<1>5. /\ Holds(bytes, 0, ncid) /\ ends[0] = 2
      /\ ends[0] <= ends[Len(cmd.values)] /\ ends[Len(cmd.values)] \in Nat
    BY <1>1, <1>2, <1>3 DEF FieldEnds
<1>6. 0 \in 0 .. Len(bytes) /\ 2 \in Nat
    OBVIOUS
<1>7. Finds(got, bytes, 0, ncid, 2)
    BY <1>4, <1>5, <1>6, BinaryFound
<1>8. QED BY <1>2, <1>4, <1>5, <1>7 DEF Finds

(* The read of the next field gives what was written, or the packet ends   *)
(* before the command does.                                                *)
LEMMA FieldRead ==
    ASSUME WireFits, NEW cmd, WellFormed(cmd), NEW bytes \in Seq(Byte),
           NEW ends, FieldEnds(ends, cmd, bytes),
           NEW k \in Nat, k < Len(cmd.values),
           NEW pos \in 0 .. Len(bytes), pos = ends[k],
           NEW kind, kind = WriteLayout(cmd.type)[k + 1],
           NEW got, got = Get(kind, bytes, pos)
    PROVE  /\ got.pos \in 0 .. Len(bytes)
           /\ got.ok => /\ got.value = cmd.values[k + 1] /\ got.value \in Seq(Byte)
                        /\ got.pos = ends[k + 1]
           /\ ~got.ok => ~(ends[Len(cmd.values)] <= Len(bytes))
<1>1. Len(cmd.values) \in Nat
    BY DEF WellFormed, CommandType
<1>2. PICK i : i = k + 1
    OBVIOUS
<1>3. i \in 1 .. Len(cmd.values) /\ i \in 0 .. Len(cmd.values) /\ i - 1 = k
    BY <1>1, <1>2
<1>4. PICK v : v = cmd.values[i]
    OBVIOUS
<1>5. kind \in Kind /\ v \in Seq(Byte) /\ Writable(kind, v)
    BY <1>2, <1>3, <1>4, PutAtType
<1>6. /\ Holds(bytes, pos, Put(kind, v))
      /\ ends[i] = pos + Len(Put(kind, v))
      /\ ends[i] <= ends[Len(cmd.values)]
      /\ ends[i] \in Nat /\ ends[Len(cmd.values)] \in Nat
  <2>1. PutAt(cmd, i) = Put(kind, v)
      BY <1>2, <1>4 DEF PutAt
  <2>2. /\ ends[i] = ends[i - 1] + Len(PutAt(cmd, i))
        /\ Holds(bytes, ends[i - 1], PutAt(cmd, i))
      BY <1>3 DEF FieldEnds
  <2>3. /\ ends \in [0 .. Len(cmd.values) -> Nat]
        /\ \A j \in 0 .. Len(cmd.values) : ends[j] <= ends[Len(cmd.values)]
      BY DEF FieldEnds
  <2>4. Len(cmd.values) \in 0 .. Len(cmd.values)
      BY <1>1
  <2>5. QED BY <1>3, <2>1, <2>2, <2>3, <2>4
<1>7. /\ got.ok <=> pos + Len(Put(kind, v)) <= Len(bytes)
      /\ got.ok => got.value = v /\ got.pos = pos + Len(Put(kind, v))
    BY <1>5, <1>6, GetFinds
<1>8. got.pos \in 0 .. Len(bytes)
    BY <1>5, GetInBounds
<1>9. QED BY <1>2, <1>4, <1>5, <1>6, <1>7, <1>8

-----------------------------------------------------------------------------
(* The invariant                                                           *)

\* The command is on its way to the end of its packet.
Writing ==
    pc = "write" =>
      /\ WellFormed(sent)
      /\ Framed(sent, packet)
      /\ m_pos = 0 /\ ~whole /\ outcome = "none"

\* The fields read so far are the first ones that were written, and the next
\* read begins where the next field does.
ReadSoFar(ends) ==
    LET k == Len(command.values) IN
      /\ k <= Len(sent.values)
      /\ \A i \in 1 .. k : command.values[i] = sent.values[i]
      /\ m_pos = ends[k]

\* The packet is on its way from the network to the dispatch.
Handling ==
    pc \in {"ncid", "fields", "dispatch"} =>
      /\ WellFormed(sent) /\ Len(sent.values) = Len(WriteLayout(sent.type))
      /\ outcome = "none"
      /\ \E ends : /\ FieldEnds(ends, sent, packet)
                   /\ whole <=> ends[Len(sent.values)] <= Len(packet)
                   /\ pc = "fields" => ReadSoFar(ends)
      /\ pc = "ncid" => m_pos = 0
      /\ pc # "ncid" => command.type = sent.type /\ sent.type \in Registered
      /\ pc = "dispatch" => command = sent /\ whole

Inv == TypeOK /\ command \in CommandType /\ Writing /\ Handling /\ WholeIsHandled

(* An empty command object has its type.                                   *)
LEMMA NullType ==
    /\ Null \in CommandType /\ Null.type = "nullptr"
    /\ Null.values = << >> /\ Null.values \in Seq(Seq(Byte))
BY EmptySeq DEF Null, CommandType

(* Nothing is on its way at the start.                                     *)
LEMMA InitHolds == Init => Inv
<1>1. SUFFICES ASSUME Init PROVE Inv
    OBVIOUS
<1>2. << >> \in Seq(Byte) /\ Len(<< >>) = 0
    BY EmptySeq
<1>3. packet \in Seq(Byte) /\ m_pos \in 0 .. Len(packet)
    BY <1>1, <1>2 DEF Init
<1>4. TypeOK
    BY <1>1, <1>3, NullType DEF Init, TypeOK
<1>5. command \in CommandType /\ Writing /\ Handling /\ WholeIsHandled
    BY <1>1, NullType DEF Init, Writing, Handling, WholeIsHandled
<1>6. QED BY <1>4, <1>5 DEF Inv

(* _Serialize starts a packet with the NCID.                               *)
LEMMA SerializeKeeps == ASSUME Inv, Serialize PROVE Inv'
<1>1. PICK type \in Type : /\ sent' = [type |-> type, values |-> << >>]
                           /\ packet' = Bytes16(NCID(type))
    BY DEF Serialize
<1>2. /\ whole' = FALSE /\ m_pos' = 0 /\ command' = Null /\ outcome' = "none"
      /\ pc' = "write"
    BY DEF Serialize
<1>3. /\ WellFormed(sent') /\ packet' \in Seq(Byte) /\ Len(packet') = 2
      /\ Framed(sent', packet')
    BY <1>1, NoFields
<1>5. TypeOK' /\ command' \in CommandType
  <2>1. command'.type = "nullptr" /\ command'.values \in Seq(Seq(Byte))
      BY <1>2, NullType
  <2>2. m_pos' \in 0 .. Len(packet')
      BY <1>2, <1>3
  <2>3. QED BY <1>2, <1>3, <2>1, <2>2, NullType DEF TypeOK
<1>6. Writing'
    BY <1>2, <1>3 DEF Writing
<1>7. Handling' /\ WholeIsHandled'
    BY <1>2 DEF Handling, WholeIsHandled
<1>8. QED BY <1>5, <1>6, <1>7 DEF Inv

(* One more field is written.                                              *)
LEMMA WriteFieldKeeps == ASSUME WireFits, Inv, WriteField PROVE Inv'
<1>1. Extends(sent', packet', sent, packet)
    BY DEF WriteField, Extends
<1>2. pc = "write" /\ UNCHANGED <<whole, m_pos, command, pc, outcome>>
    BY DEF WriteField
<1>3. /\ WellFormed(sent) /\ packet \in Seq(Byte) /\ m_pos = 0
      /\ ~whole /\ outcome = "none"
    BY <1>2 DEF Inv, Writing, TypeOK
<1>4. Framed(sent, packet)
    BY <1>2 DEF Inv, Writing
<1>5. WellFormed(sent') /\ packet' \in Seq(Byte) /\ Framed(sent', packet')
    BY <1>1, <1>3, <1>4, OneMoreField
<1>6. TypeOK' /\ command' \in CommandType
    BY <1>2, <1>3, <1>5 DEF Inv, TypeOK
<1>7. Writing'
    BY <1>2, <1>3, <1>5 DEF Writing
<1>8. Handling' /\ WholeIsHandled'
    BY <1>2, <1>3 DEF Handling, WholeIsHandled
<1>9. QED BY <1>6, <1>7, <1>8 DEF Inv

(* The packet arrives with all of the command or with less than that.      *)
LEMMA ArrivesKeeps == ASSUME WireFits, Inv, Arrives PROVE Inv'
<1>1. /\ pc = "write" /\ pc' = "ncid"
      /\ Len(sent.values) = Len(WriteLayout(sent.type))
      /\ UNCHANGED <<sent, m_pos, command, outcome>>
    BY DEF Arrives
<1>2. /\ WellFormed(sent) /\ packet \in Seq(Byte) /\ m_pos = 0
      /\ outcome = "none" /\ command \in CommandType
    BY <1>1 DEF Inv, Writing, TypeOK
<1>3. PICK ends : /\ FieldEnds(ends, sent, packet)
                  /\ ends[Len(sent.values)] = Len(packet)
    BY <1>1 DEF Inv, Writing, Framed
<1>4. /\ packet' \in Seq(Byte) /\ whole' \in BOOLEAN
      /\ FieldEnds(ends, sent, packet')
      /\ whole' <=> ends[Len(sent.values)] <= Len(packet')
  <2>1. CASE \E tail \in Tails : packet' = packet \o tail /\ whole' = TRUE
    <3>1. PICK tail \in Tails : packet' = packet \o tail /\ whole' = TRUE
        BY <2>1
    <3>2. tail \in Seq(Byte)
        BY CommandAssumption
    <3>3. packet' \in Seq(Byte) /\ Len(packet') = Len(packet) + Len(tail)
        BY <1>2, <3>1, <3>2, ConcatProperties
    <3>4. FieldEnds(ends, sent, packet')
        BY <1>2, <1>3, <3>1, <3>2, FrameKept
    <3>5. ends[Len(sent.values)] <= Len(packet')
        BY <1>2, <1>3, <3>2, <3>3
    <3>6. QED BY <3>1, <3>3, <3>4, <3>5
  <2>2. CASE \E n \in 0 .. Len(packet) - 1 :
                packet' = SubSeq(packet, 1, n) /\ whole' = FALSE
    <3>1. PICK n \in 0 .. Len(packet) - 1 :
                packet' = SubSeq(packet, 1, n) /\ whole' = FALSE
        BY <2>2
    <3>2. /\ n \in 0 .. Len(packet) /\ n < Len(packet)
          /\ 1 \in Int /\ n \in Int /\ \A i \in 1 .. n : packet[i] \in Byte
        BY <1>2
    <3>3. /\ packet' \in Seq(Byte)
          /\ Len(packet') = IF 1 <= n THEN n - 1 + 1 ELSE 0
        BY <3>1, <3>2, SubSeqProperties
    <3>4. FieldEnds(ends, sent, packet')
        BY <1>2, <1>3, <3>1, <3>2, FrameKept
    <3>5. ~(ends[Len(sent.values)] <= Len(packet'))
        BY <1>2, <1>3, <3>2, <3>3
    <3>6. QED BY <3>1, <3>3, <3>4, <3>5
  <2>3. QED BY <2>1, <2>2 DEF Arrives
<1>5. TypeOK' /\ command' \in CommandType
    BY <1>1, <1>2, <1>4 DEF Inv, TypeOK
<1>6. Writing'
    BY <1>1 DEF Writing
<1>7. Handling'
    BY <1>1, <1>2, <1>4 DEF Handling
<1>8. WholeIsHandled'
    BY <1>1, <1>2 DEF WholeIsHandled
<1>9. QED BY <1>5, <1>6, <1>7, <1>8 DEF Inv

(* GenerateNetCommand finds the generator of the NCID the peer wrote.      *)
LEMMA ReadNcidKeeps == ASSUME WireFits, Inv, ReadNcid PROVE Inv'
<1>1. PICK ncid : ncid = GetBinary(2, packet, m_pos)
    OBVIOUS
<1>2. /\ pc = "ncid" /\ pc' = "fields" /\ ncid.ok
      /\ Value16(ncid.value) \in DOMAIN m_generators
      /\ command' = [type |-> m_generators[Value16(ncid.value)], values |-> << >>]
      /\ m_pos' = ncid.pos
      /\ UNCHANGED <<sent, whole, packet, outcome>>
    BY <1>1 DEF ReadNcid, peerVars
<1>3. /\ WellFormed(sent) /\ Len(sent.values) = Len(WriteLayout(sent.type))
      /\ outcome = "none" /\ m_pos = 0 /\ packet \in Seq(Byte)
      /\ whole \in BOOLEAN
    BY <1>2 DEF Inv, Handling, TypeOK
<1>4. PICK ends : /\ FieldEnds(ends, sent, packet)
                  /\ whole <=> ends[Len(sent.values)] <= Len(packet)
    BY <1>2 DEF Inv, Handling
<1>5. /\ Value16(ncid.value) = NCID(sent.type)
      /\ m_pos' = ends[0] /\ m_pos' \in 0 .. Len(packet)
    BY <1>1, <1>2, <1>3, <1>4, NcidRead
<1>6. sent.type \in Type /\ Len(sent.values) \in Nat
    BY <1>3 DEF WellFormed, CommandType
<1>7. /\ sent.type \in Registered
      /\ command' = [type |-> sent.type, values |-> << >>]
    BY <1>2, <1>5, <1>6, Generators
<1>8. /\ command'.type = sent.type /\ command'.values = << >>
      /\ Len(command'.values) = 0 /\ command'.values \in Seq(Seq(Byte))
      /\ command' \in CommandType
    BY <1>6, <1>7, EmptySeq DEF CommandType
<1>9. TypeOK'
    BY <1>2, <1>3, <1>5, <1>6, <1>8 DEF TypeOK
<1>10. ReadSoFar(ends)'
    BY <1>2, <1>5, <1>6, <1>8 DEF ReadSoFar
<1>11. Handling'
    BY <1>2, <1>3, <1>4, <1>7, <1>8, <1>10 DEF Handling
<1>12. Writing' /\ WholeIsHandled'
    BY <1>2, <1>3 DEF Writing, WholeIsHandled
<1>13. QED BY <1>8, <1>9, <1>11, <1>12 DEF Inv

(* Without a generator the command was of a type nobody registered.        *)
LEMMA UnknownNcidKeeps == ASSUME WireFits, Inv, UnknownNcid PROVE Inv'
<1>1. PICK ncid : ncid = GetBinary(2, packet, m_pos)
    OBVIOUS
<1>2. /\ pc = "ncid" /\ pc' = "idle" /\ outcome' = "unknown" /\ ncid.ok
      /\ Value16(ncid.value) \notin DOMAIN m_generators
      /\ m_pos' = ncid.pos
      /\ UNCHANGED <<sent, whole, packet, command>>
    BY <1>1 DEF UnknownNcid, peerVars
<1>3. WellFormed(sent) /\ m_pos = 0 /\ packet \in Seq(Byte)
    BY <1>2 DEF Inv, Handling, TypeOK
<1>4. PICK ends : FieldEnds(ends, sent, packet)
    BY <1>2 DEF Inv, Handling
<1>5. /\ Value16(ncid.value) = NCID(sent.type)
      /\ m_pos' \in 0 .. Len(packet)
    BY <1>1, <1>2, <1>3, <1>4, NcidRead
<1>6. sent.type \notin Registered
    BY <1>2, <1>3, <1>5, Generators DEF WellFormed
<1>7. TypeOK' /\ command' \in CommandType
    BY <1>2, <1>5 DEF Inv, TypeOK
<1>8. Writing' /\ Handling'
    BY <1>2 DEF Writing, Handling
<1>9. WholeIsHandled'
    BY <1>2, <1>6 DEF WholeIsHandled
<1>10. QED BY <1>7, <1>8, <1>9 DEF Inv

(* A packet without an NCID does not hold a command.                       *)
LEMMA NoNcidKeeps == ASSUME WireFits, Inv, NoNcid PROVE Inv'
<1>1. PICK ncid : ncid = GetBinary(2, packet, m_pos)
    OBVIOUS
<1>2. /\ pc = "ncid" /\ pc' = "thrown" /\ ~ncid.ok
      /\ UNCHANGED <<sent, whole, packet, m_pos, command, outcome>>
    BY <1>1 DEF NoNcid, peerVars
<1>3. /\ WellFormed(sent) /\ m_pos = 0 /\ packet \in Seq(Byte)
      /\ outcome = "none"
    BY <1>2 DEF Inv, Handling, TypeOK
<1>4. PICK ends : /\ FieldEnds(ends, sent, packet)
                  /\ whole <=> ends[Len(sent.values)] <= Len(packet)
    BY <1>2 DEF Inv, Handling
<1>5. ~whole
    BY <1>1, <1>2, <1>3, <1>4, NcidRead
<1>6. TypeOK' /\ command' \in CommandType
    BY <1>2 DEF Inv, TypeOK
<1>7. Writing' /\ Handling' /\ WholeIsHandled'
    BY <1>2, <1>5 DEF Writing, Handling, WholeIsHandled
<1>8. QED BY <1>6, <1>7 DEF Inv

(* While the fields are read: the command is of the type that was sent,    *)
(* and the next field is the next one that was written.                    *)
LEMMA AtNextField ==
    ASSUME WireFits, Inv, pc = "fields", Len(command.values) < Len(Fields),
           NEW got, got = NextField
    PROVE  \E ends :
             /\ FieldEnds(ends, sent, packet) /\ ReadSoFar(ends)
             /\ whole <=> ends[Len(sent.values)] <= Len(packet)
             /\ Len(command.values) \in Nat
             /\ Len(command.values) + 1 <= Len(sent.values)
             /\ got.pos \in 0 .. Len(packet)
             /\ got.ok => /\ got.value = sent.values[Len(command.values) + 1]
                          /\ got.value \in Seq(Byte)
                          /\ got.pos = ends[Len(command.values) + 1]
             /\ ~got.ok => ~whole
<1>1. /\ WellFormed(sent) /\ Len(sent.values) = Len(WriteLayout(sent.type))
      /\ command.type = sent.type /\ sent.type \in Type
      /\ packet \in Seq(Byte) /\ m_pos \in 0 .. Len(packet)
      /\ whole \in BOOLEAN /\ command \in CommandType
    BY DEF Inv, Handling, TypeOK, WellFormed
<1>2. PICK ends : /\ FieldEnds(ends, sent, packet) /\ ReadSoFar(ends)
                  /\ whole <=> ends[Len(sent.values)] <= Len(packet)
    BY DEF Inv, Handling
<1>3. PICK k : k = Len(command.values)
    OBVIOUS
<1>4. Fields = WriteLayout(sent.type)
    BY <1>1, LayoutType DEF Fields
<1>5. k \in Nat /\ k < Len(sent.values) /\ m_pos = ends[k] /\ Len(sent.values) \in Nat
    BY <1>1, <1>2, <1>3, <1>4 DEF ReadSoFar, CommandType, WellFormed
<1>6. PICK kind : kind = WriteLayout(sent.type)[k + 1]
    OBVIOUS
<1>7. got = Get(kind, packet, m_pos)
    BY <1>3, <1>4, <1>6 DEF NextField
<1>8. /\ got.pos \in 0 .. Len(packet)
      /\ got.ok => /\ got.value = sent.values[k + 1] /\ got.value \in Seq(Byte)
                   /\ got.pos = ends[k + 1]
      /\ ~got.ok => ~(ends[Len(sent.values)] <= Len(packet))
    BY <1>1, <1>2, <1>5, <1>6, <1>7, FieldRead
<1>9. k + 1 <= Len(sent.values)
    BY <1>5
<1>10. QED BY <1>2, <1>3, <1>5, <1>8, <1>9

(* A field that is read is the one that was written.                       *)
LEMMA ReadFieldKeeps == ASSUME WireFits, Inv, ReadField PROVE Inv'
<1>1. PICK got : got = NextField
    OBVIOUS
<1>2. /\ pc = "fields" /\ Len(command.values) < Len(Fields) /\ got.ok
      /\ command' = [command EXCEPT !.values = Append(@, got.value)]
      /\ m_pos' = got.pos
      /\ UNCHANGED <<sent, whole, packet, pc, outcome>>
    BY <1>1 DEF ReadField, peerVars
<1>3. PICK ends :
        /\ FieldEnds(ends, sent, packet) /\ ReadSoFar(ends)
        /\ whole <=> ends[Len(sent.values)] <= Len(packet)
        /\ Len(command.values) \in Nat
        /\ Len(command.values) + 1 <= Len(sent.values)
        /\ got.pos \in 0 .. Len(packet)
        /\ got.value = sent.values[Len(command.values) + 1]
        /\ got.value \in Seq(Byte)
        /\ got.pos = ends[Len(command.values) + 1]
    BY <1>1, <1>2, AtNextField
<1>4. /\ WellFormed(sent) /\ Len(sent.values) = Len(WriteLayout(sent.type))
      /\ outcome = "none" /\ packet \in Seq(Byte) /\ whole \in BOOLEAN
      /\ command \in CommandType /\ command.type = sent.type
      /\ sent.type \in Registered
    BY <1>2 DEF Inv, Handling, TypeOK
<1>5. PICK read : read = Append(command.values, got.value)
    OBVIOUS
<1>6. /\ command.values \in Seq(Seq(Byte)) /\ read \in Seq(Seq(Byte))
      /\ Len(read) = Len(command.values) + 1
      /\ \A i \in 1 .. Len(command.values) : read[i] = command.values[i]
      /\ read[Len(command.values) + 1] = got.value
    BY <1>3, <1>4, <1>5 DEF CommandType
<1>7. command' = [type |-> command.type, values |-> read]
    BY <1>2, <1>4, <1>5 DEF CommandType
<1>8. command'.type = command.type /\ command'.values = read
    BY <1>7
<1>9. command' \in CommandType
    BY <1>4, <1>6, <1>7 DEF CommandType
<1>10. TypeOK'
    BY <1>2, <1>3, <1>4, <1>6, <1>8 DEF Inv, TypeOK, CommandType
<1>11. ReadSoFar(ends)'
  <2>1. \A i \in 1 .. Len(read) : read[i] = sent.values[i]
    <3>1. \A i \in 1 .. Len(read) :
             i \in 1 .. Len(command.values) \/ i = Len(command.values) + 1
        BY <1>3, <1>6
    <3>2. \A i \in 1 .. Len(command.values) : command.values[i] = sent.values[i]
        BY <1>3 DEF ReadSoFar
    <3>3. QED BY <1>3, <1>6, <3>1, <3>2
  <2>2. QED BY <1>2, <1>3, <1>6, <1>8, <2>1 DEF ReadSoFar
<1>12. Handling'
    BY <1>2, <1>3, <1>4, <1>8, <1>11 DEF Handling
<1>13. Writing' /\ WholeIsHandled'
    BY <1>2, <1>4 DEF Writing, WholeIsHandled
<1>14. QED BY <1>9, <1>10, <1>12, <1>13 DEF Inv

(* A field that lacks bytes was cut off: the packet is not whole.          *)
LEMMA UnderflowKeeps == ASSUME WireFits, Inv, Underflow PROVE Inv'
<1>1. PICK got : got = NextField
    OBVIOUS
<1>2. /\ pc = "fields" /\ Len(command.values) < Len(Fields) /\ ~got.ok
      /\ m_pos' = got.pos /\ command' = Null /\ pc' = "idle"
      /\ outcome' = "underflow" /\ UNCHANGED <<sent, whole, packet>>
    BY <1>1 DEF Underflow, peerVars
<1>3. got.pos \in 0 .. Len(packet) /\ ~whole
    BY <1>1, <1>2, AtNextField
<1>4. TypeOK' /\ command' \in CommandType
    BY <1>2, <1>3, NullType DEF Inv, TypeOK
<1>5. Writing' /\ Handling' /\ WholeIsHandled'
    BY <1>2, <1>3 DEF Writing, Handling, WholeIsHandled
<1>6. QED BY <1>4, <1>5 DEF Inv

(* After the last field all that was sent has been read.                   *)
LEMMA FieldsReadKeeps == ASSUME WireFits, Inv, FieldsRead PROVE Inv'
<1>1. /\ pc = "fields" /\ pc' = "dispatch"
      /\ Len(command.values) = Len(Fields)
      /\ UNCHANGED <<sent, whole, packet, m_pos, command, outcome>>
    BY DEF FieldsRead, peerVars
<1>2. /\ WellFormed(sent) /\ Len(sent.values) = Len(WriteLayout(sent.type))
      /\ outcome = "none" /\ packet \in Seq(Byte) /\ m_pos \in 0 .. Len(packet)
      /\ command \in CommandType /\ command.type = sent.type
      /\ sent.type \in Registered /\ whole \in BOOLEAN
    BY <1>1 DEF Inv, Handling, TypeOK
<1>3. PICK ends : /\ FieldEnds(ends, sent, packet) /\ ReadSoFar(ends)
                  /\ whole <=> ends[Len(sent.values)] <= Len(packet)
    BY <1>1 DEF Inv, Handling
<1>4. Fields = WriteLayout(sent.type)
    BY <1>2, LayoutType DEF Fields, WellFormed
<1>5. /\ Len(command.values) = Len(sent.values)
      /\ \A i \in 1 .. Len(command.values) : command.values[i] = sent.values[i]
      /\ m_pos = ends[Len(sent.values)]
    BY <1>1, <1>2, <1>3, <1>4 DEF ReadSoFar
<1>6. whole
    BY <1>2, <1>3, <1>5
<1>7. command = sent
  <2>1. sent \in CommandType
      BY <1>2 DEF WellFormed
  <2>2. command.values \in Seq(Seq(Byte)) /\ sent.values \in Seq(Seq(Byte))
      BY <1>2, <2>1 DEF CommandType
  <2>3. command.values = sent.values
      BY <1>5, <2>2, SeqEqual
  <2>4. QED BY <1>2, <2>1, <2>3 DEF CommandType
<1>8. TypeOK' /\ command' \in CommandType
    BY <1>1 DEF Inv, TypeOK
<1>9. Handling'
    BY <1>1, <1>2, <1>3, <1>6, <1>7 DEF Handling
<1>10. Writing' /\ WholeIsHandled'
    BY <1>1, <1>2 DEF Writing, WholeIsHandled
<1>11. QED BY <1>8, <1>9, <1>10 DEF Inv

(* The switch of DispatchCommand names the handler of the command.         *)
LEMMA DispatchKeeps == ASSUME Inv, DispatchCommand PROVE Inv'
<1>1. /\ pc = "dispatch" /\ pc' = "idle" /\ command' = Null
      /\ outcome' = Route(NCID(command.type))
      /\ UNCHANGED <<sent, whole, packet, m_pos>>
    BY DEF DispatchCommand, peerVars
<1>2. command.type = sent.type /\ sent.type \in Registered
    BY <1>1 DEF Inv, Handling
<1>3. outcome' = sent.type
    BY <1>1, <1>2, Routes
<1>4. sent.type \in Type
    BY <1>2 DEF Registered, Type
<1>5. TypeOK' /\ command' \in CommandType
    BY <1>1, <1>3, <1>4, NullType DEF Inv, TypeOK
<1>6. Writing' /\ Handling'
    BY <1>1 DEF Writing, Handling
<1>7. WholeIsHandled'
    BY <1>1, <1>2, <1>3 DEF WholeIsHandled
<1>8. QED BY <1>5, <1>6, <1>7 DEF Inv

(* A step that changes nothing.                                            *)
LEMMA StutterKeeps == ASSUME Inv, UNCHANGED vars PROVE Inv'
<1>1. UNCHANGED <<sent, whole, packet, m_pos, command, pc, outcome>>
    BY DEF vars, peerVars
<1>2. TypeOK' /\ command' \in CommandType /\ WholeIsHandled'
    BY <1>1 DEF Inv, TypeOK, WholeIsHandled
<1>3. Writing' /\ Handling'
    BY <1>1 DEF Inv, Writing, Handling, ReadSoFar
<1>4. QED BY <1>2, <1>3 DEF Inv

(* Every step of a command keeps the invariant.                            *)
LEMMA NextKeeps == ASSUME WireFits, Inv, [Next]_vars PROVE Inv'
<1>1. CASE Serialize
    BY <1>1, SerializeKeeps
<1>2. CASE WriteField
    BY <1>2, WriteFieldKeeps
<1>3. CASE Arrives
    BY <1>3, ArrivesKeeps
<1>4. CASE GenerateNetCommand
    BY <1>4, ReadNcidKeeps, UnknownNcidKeeps, NoNcidKeeps, ReadFieldKeeps,
       UnderflowKeeps, FieldsReadKeeps DEF GenerateNetCommand
<1>5. CASE DispatchCommand
    BY <1>5, DispatchKeeps
<1>6. CASE UNCHANGED vars
    BY <1>6, StutterKeeps
<1>7. QED BY <1>1, <1>2, <1>3, <1>4, <1>5, <1>6 DEF Next

-----------------------------------------------------------------------------
(* The theorems                                                            *)

(* The invariant always holds.                                             *)
LEMMA Invariance == ASSUME WireFits PROVE Spec => []Inv
<1>1. Init => Inv
    BY InitHolds
<1>2. Inv /\ [Next]_vars => Inv'
    BY NextKeeps
<1>3. QED BY <1>1, <1>2, PTL DEF Spec

(* The packet and the stream position stay what they are, however a packet *)
(* was cut: m_pos never leaves the packet.                                 *)
THEOREM TypeCorrect == ASSUME WireFits PROVE Spec => []TypeOK
<1>1. Inv => TypeOK
    BY DEF Inv
<1>2. QED BY <1>1, Invariance, PTL

(* serialize and deserialize of every command agree, so that what is       *)
(* dispatched is what was sent, for every value a field can take.          *)
THEOREM RoundTripCorrect == ASSUME WireFits PROVE Spec => []RoundTrip
<1>1. Inv => RoundTrip
    BY DEF Inv, Handling, RoundTrip
<1>2. QED BY <1>1, Invariance, PTL

(* What reaches the dispatch was not cut; GenerateNetCommand never throws   *)
(* on a whole packet, and the handler it reaches is the one of its NCID.   *)
THEOREM HandledCorrect == ASSUME WireFits PROVE Spec => []HandledIffWhole
<1>1. Inv => HandledIffWhole
    BY DEF Inv, Handling, HandledIffWhole, CutIsRejected
<1>2. QED BY <1>1, Invariance, PTL
=============================================================================
