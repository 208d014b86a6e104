------------------------------- MODULE MCDeploy -------------------------------
(***************************************************************************)
(* Instances of Deploy for TLC.                                            *)
(***************************************************************************)
EXTENDS Deploy

\* Two of the files, in different directories, have one name.
SharedName(f) == IF f = "h" THEN "g" ELSE f
=============================================================================
