------------------------------ MODULE InputRing ------------------------------
(***************************************************************************)
(* Index arithmetic of the circular InputBuffer of CMSTCPConnection        *)
(* (network-protocol/tcp_connection.cpp).  HeadIndex is the next cell to   *)
(* write, TailIndex the last cell consumed: one cell always separates them *)
(* while the ring holds no unread byte, so TailIndex = HeadIndex is a full *)
(* ring and TailIndex one behind HeadIndex an empty one.                   *)
(***************************************************************************)
EXTENDS Integers

CONSTANT INPUT_BUFFER_SIZE

ASSUME RingSizeAssumption == INPUT_BUFFER_SIZE \in Nat /\ INPUT_BUFFER_SIZE >= 2

\* The cells of the ring, and the indices of the array InputBuffer.
Index == 0 .. INPUT_BUFFER_SIZE - 1

\* An index moved forward n cells, wrapping at the end of the array.
Advance(i, n) == (i + n) % INPUT_BUFFER_SIZE

\* Unread bytes between the tail and the head.
Available(head, tail) ==
    IF tail < head THEN head - tail - 1
                   ELSE head + (INPUT_BUFFER_SIZE - 1 - tail)

\* Mutant: counts the free cells beyond the end of the array as contiguous.
FillSizeAcrossEnd(head, tail) ==
    IF tail = head THEN 0 ELSE (tail - head) % INPUT_BUFFER_SIZE

\* The contiguous space one recv() may fill; 0 when the ring is full.
FillSize(head, tail) ==
    IF tail = head THEN 0
    ELSE IF tail > head THEN tail - head
                        ELSE INPUT_BUFFER_SIZE - head

\* The array after recv() has written the n bytes data[1..n] from the head on.
Filled(buffer, head, n, data) ==
    [j \in Index |-> IF j \in head .. head + n - 1 THEN data[j - head + 1]
                                                   ELSE buffer[j]]
=============================================================================
