---------------------------- MODULE MCPacketStream ----------------------------
(***************************************************************************)
(* The instance of PacketStream for TLC: three byte values, bodies from    *)
(* empty to just above the limit, every start of the ring.                 *)
(***************************************************************************)
EXTENDS PacketStream

\* The k-th keystream byte is k; (k - b) is an involution like XOR.
MCPad == [k \in 0 .. 2 |-> [b \in 0 .. 2 |-> (k - b) % 3]]

\* Empty, single-byte and longest bodies, and one a byte too long.
MCBodies == { << >>, <<1>>, <<2, 0, 1, 2>>, <<2, 0, 1, 2, 1>> }

MCAllIndices == 0 .. INPUT_BUFFER_SIZE - 1
=============================================================================
