------------------------------ MODULE MCDatabase ------------------------------
(***************************************************************************)
(* Instances of Database for TLC.                                          *)
(***************************************************************************)
EXTENDS Database

\* Every text of up to three characters, and every limit that can cut it.
ShortTexts == SeqOf({"letter", "quote", "backslash", "semicolon", "space"}, 3)
Limits == 0 .. 3

\* Nothing, a closing semicolon with and without blanks, a second statement,
\* more of the same statement.
CallersEndings ==
    { << >>, <<"semicolon">>, <<"semicolon", "space">>,
      <<"semicolon", "space", "letter">>, <<"semicolon", "letter">>,
      <<"semicolon", "newline">>, <<"space", "letter">> }

\* A summer and a few days around it.
Instants == 0 .. 100
=============================================================================
