------------------------------- MODULE SqlText --------------------------------
(***************************************************************************)
(* The text functions of CPGDatabase: FixMultibyte escapes a value for a   *)
(* literal, TestInjection scans a statement.  A text is a sequence of      *)
(* classes of characters.                                                  *)
(***************************************************************************)
EXTENDS Integers, Sequences, SequencesExt

CharClass == {"letter", "quote", "backslash", "semicolon", "space", "newline"}

-----------------------------------------------------------------------------
Escape(c) == IF c \in {"quote", "backslash"} THEN <<c, c>> ELSE <<c>>

Dots == <<"letter", "letter", "letter">>

\* Mutant: the dots are written whenever the limit is reached.
FixMultibyteDots(s, n) ==
    FlattenSeq([i \in 1 .. (IF Len(s) > n THEN n + 1 ELSE Len(s)) |-> Escape(s[i])])
      \o (IF Len(s) > n THEN Dots ELSE << >>)

\* The loop ends behind the character with index n, the (n+1)-th, if more follow.
FixMultibyte(s, n) ==
    FlattenSeq([i \in 1 .. (IF Len(s) > n THEN n + 1 ELSE Len(s)) |-> Escape(s[i])])
      \o (IF Len(s) > n + 1 THEN Dots ELSE << >>)

-----------------------------------------------------------------------------
\* Mutant: quotes are not looked at.
ScanBlind(at, c) ==
    CASE at = "suspect"   -> "suspect"
      [] at = "semicolon" -> IF c # "space" THEN "suspect" ELSE "semicolon"
      [] OTHER            -> IF c = "semicolon" THEN "semicolon" ELSE at

\* One character of TestInjection's loop; at is what it has seen so far.
Scan(at, c) ==
    CASE at = "suspect"      -> "suspect"
      [] at = "semicolon"    -> IF c # "space" THEN "suspect" ELSE "semicolon"
      [] at = "escape"       -> "outside"
      [] at = "escapeQuoted" -> "quoted"
      [] at = "quoted"       -> CASE c = "backslash" -> "escapeQuoted"
                                  [] c = "quote"     -> "outside"
                                  [] OTHER           -> "quoted"
      [] at = "outside"      -> CASE c = "backslash" -> "escape"
                                  [] c = "quote"     -> "quoted"
                                  [] c = "semicolon" -> "semicolon"
                                  [] OTHER           -> "outside"

TestInjection(str) ==
    LET at[i \in 0 .. Len(str)] == IF i = 0 THEN "outside" ELSE Scan(at[i - 1], str[i])
    IN  at[Len(str)] = "suspect"

-----------------------------------------------------------------------------
(* Reference definitions *)

\* How the server reads on after an opening quote: text is the value so far,
\* pending a quote or backslash that the next character decides, rest what
\* follows the literal.
Read(r, c) ==
    IF r.closed
      THEN [r EXCEPT !.rest = Append(@, c)]
      ELSE CASE r.pending = "backslash" ->
                  [r EXCEPT !.text = Append(@, c), !.pending = "no"]
             [] r.pending = "quote" ->
                  IF c = "quote"
                    THEN [r EXCEPT !.text = Append(@, c), !.pending = "no"]
                    ELSE [r EXCEPT !.closed = TRUE, !.rest = Append(@, c)]
             [] r.pending = "no" ->
                  IF c \in {"quote", "backslash"}
                    THEN [r EXCEPT !.pending = c]
                    ELSE [r EXCEPT !.text = Append(@, c)]

NothingRead == [text |-> << >>, rest |-> << >>, pending |-> "no", closed |-> FALSE]

ServerReads(text) ==
    LET r[i \in 0 .. Len(text)] == IF i = 0 THEN NothingRead ELSE Read(r[i - 1], text[i])
    IN  r[Len(text)]

\* A semicolon in the ending with something of the kind Counts behind it.
SecondStatement(text, Counts(_)) ==
    \E i \in 1 .. Len(text), j \in 1 .. Len(text) :
      text[i] = "semicolon" /\ i < j /\ Counts(text[j])
=============================================================================
