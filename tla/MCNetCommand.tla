----------------------------- MODULE MCNetCommand -----------------------------
(***************************************************************************)
(* Instances of NetCommand for TLC: sixteen byte values, so that the NCIDs *)
(* keep their two-byte values, a string may need both bytes of its length  *)
(* and a vector of sixteen chars does not fit its count.                   *)
(***************************************************************************)
EXTENDS NetCommand

Run(n, b) == [i \in 1 .. n |-> b]

\* Lengths up to the largest a vector's count byte holds.
MCValues == [k \in Kind |->
    CASE k = "char"     -> {<<1>>, <<2>>}
      [] k = "short"    -> {<<1, 2>>, <<0, 15>>}
      [] k = "int"      -> {<<1, 2, 3, 4>>, <<0, 0, 1, 0>>}
      [] k = "longlong" -> {Run(8, 1)}
      [] k = "string"   -> {Run(0, 0), Run(1, 3), Run(17, 5)}
      [] k = "chars"    -> {Run(0, 0), Run(1, 4), Run(15, 6)}]

MCTails == {<< >>, <<7>>}
=============================================================================
