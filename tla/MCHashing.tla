------------------------------ MODULE MCHashing ------------------------------
(***************************************************************************)
(* Hashing for TLC: the sizes and the contents of what is hashed.          *)
(***************************************************************************)
EXTENDS Hashing

\* "0000000F"
MCSalts == {[i \in 1..8 |-> IF i = 8 THEN 70 ELSE 48]}

\* bound: the lengths of messages.  They lie on both sides of the end of a block,
\* and of the last place where the eight bytes of a length fit.
Lengths(b) == {0, 1, b - 1, b, b + 1, 2 * b} \cup IF b = 64 THEN {b - 9, b - 8} ELSE {}

\* Two contents, so that an object has seen other bytes before its reset().  All
\* bytes of a block differ.
Text(n, up) == [i \in 1..n |-> ((IF up THEN 37 ELSE 256 - 37) * i + 11) % 256]

MCTexts ==
  [c \in Classes |->
     {Text(n, TRUE) : n \in Lengths(c.blockSize)} \cup {Text(c.blockSize - 1, FALSE)}]
=============================================================================
