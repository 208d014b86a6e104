---------------------------- MODULE MCKeyExchange ----------------------------
(***************************************************************************)
(* Instances of KeyExchange for TLC.                                       *)
(***************************************************************************)
EXTENDS KeyExchange

\* What lies past InputBuffer as the class declares its members: HeadIndex
\* and TailIndex.
DeclaredLayout(head, tail) == {<<head, tail>>}

\* The read is undefined: it finds those two, or any sizes: none, too few,
\* those the server sent, or one too many.
AnySizes(head, tail) == DeclaredLayout(head, tail) \cup ({0, 2, 3} \X {0, 2, 3})
=============================================================================
