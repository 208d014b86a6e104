------------------------------ MODULE BinStream ------------------------------
(***************************************************************************)
(* COutBinStream and CInBinStream (serialization/bin_stream.cpp) as        *)
(* operators: what an operator<< appends to a packet, and what an          *)
(* operator>> finds at a position of one.  A fixed-width value is the      *)
(* sequence of its bytes, so char stands for signed char, unsigned char    *)
(* and bool too, and each integer kind for its unsigned one.  "chars" is   *)
(* the vector<char> idiom of the command structs: a count byte, then that  *)
(* many chars.                                                             *)
(*                                                                         *)
(* Scale: a byte has BYTE values (256 in the code).                        *)
(***************************************************************************)
EXTENDS Integers, Sequences

CONSTANT BYTE

ASSUME ByteAssumption == BYTE \in Nat /\ BYTE >= 2

Byte == 0 .. BYTE - 1

FixedKind == {"char", "short", "int", "longlong"}
Kind == FixedKind \cup {"string", "chars"}

Width(kind) == CASE kind = "char"     -> 1
                 [] kind = "short"    -> 2
                 [] kind = "int"      -> 4
                 [] kind = "longlong" -> 8

\* An unsigned short in little-endian order: its bytes, and their value.
Bytes16(n) == <<n % BYTE, (n \div BYTE) % BYTE>>
Value16(b) == b[1] + b[2] * BYTE

-----------------------------------------------------------------------------
(* Writing.  Both lengths are cast to the width of their prefix; a string  *)
(* is cut to the length that was written, a vector is not.                 *)

PutString(v) ==
    LET len == Len(v) % (BYTE * BYTE) IN Bytes16(len) \o SubSeq(v, 1, len)

PutChars(v) == <<Len(v) % BYTE>> \o v

Put(kind, v) == CASE kind = "string" -> PutString(v)
                  [] kind = "chars"  -> PutChars(v)
                  [] OTHER           -> v

-----------------------------------------------------------------------------
(* Reading at position pos (m_pos): whether checkRemaining let it through, *)
(* the value, and the position it leaves behind, also when it throws.      *)

remaining(bytes, pos) == IF pos >= Len(bytes) THEN 0 ELSE Len(bytes) - pos

\* Mutant: the check only asks whether anything is left; past the packet there
\* are zeros.
GetBinaryPadded(size, bytes, pos) ==
    IF remaining(bytes, pos) = 0
      THEN [ok |-> FALSE, value |-> << >>, pos |-> pos]
      ELSE [ok |-> TRUE,
            value |-> [i \in 1 .. size |->
                         IF pos + i \in DOMAIN bytes THEN bytes[pos + i] ELSE 0],
            pos |-> IF pos + size > Len(bytes) THEN Len(bytes) ELSE pos + size]

GetBinary(size, bytes, pos) ==
    IF remaining(bytes, pos) < size
      THEN [ok |-> FALSE, value |-> << >>, pos |-> pos]
      ELSE [ok |-> TRUE, value |-> SubSeq(bytes, pos + 1, pos + size),
            pos |-> pos + size]

GetString(bytes, pos) ==
    LET len == GetBinary(2, bytes, pos) IN
      IF len.ok THEN GetBinary(Value16(len.value), bytes, len.pos) ELSE len

\* The chars are read one by one: those there are, before the one that is not.
GetChars(bytes, pos) ==
    LET count == GetBinary(1, bytes, pos)
        chars == GetBinary(count.value[1], bytes, count.pos)
    IN IF ~count.ok THEN count
       ELSE IF chars.ok THEN chars ELSE [chars EXCEPT !.pos = Len(bytes)]

Get(kind, bytes, pos) ==
    CASE kind = "string" -> GetString(bytes, pos)
      [] kind = "chars"  -> GetChars(bytes, pos)
      [] OTHER           -> GetBinary(Width(kind), bytes, pos)
=============================================================================
