----------------------------- MODULE MCSession ------------------------------
(***************************************************************************)
(* Session for TLC: visible words, the empty line, and as many spaces as   *)
(* the password has characters.                                            *)
(***************************************************************************)
EXTENDS Session

CONSTANTS alice, secret

\* Users who type words or nothing.
Words == {alice, secret, Empty}

\* A user with one word for everything, who may also press return or the space bar.
WordOrSpaces == {alice, Empty, Blank}
=============================================================================
