----------------------------- MODULE MCLineInput -----------------------------
(***************************************************************************)
(* Instances of LineInput for TLC: a two-letter alphabet in which "quit"   *)
(* is spelled with one letter.                                             *)
(***************************************************************************)
EXTENDS LineInput

Letters == {"q", "x"}
Quit == <<"q">>
=============================================================================
