------------------------------- MODULE MCLife -------------------------------
EXTENDS Life

Line(text) == [text |-> text, newline |-> TRUE]
Unfinished(text) == [text |-> text, newline |-> FALSE]

XXX == <<ALIVE, ALIVE, ALIVE>>
Dots == <<DEAD, DEAD, DEAD>>

\* A blinker; one with a last line that does not count; without its last newline; a
\* short line, an empty one; a long one; too few; too many.
MCFiles ==
  { <<Line(Dots), Line(XXX), Line(Dots), Line(Dots)>>,
    <<Line(Dots), Line(XXX), Line(Dots), Line(Dots), Unfinished(<<ALIVE>>)>>,
    <<Line(Dots), Line(XXX), Line(XXX), Unfinished(Dots)>>,
    <<Line(<<ALIVE>>), Line(XXX), Line(<<>>), Line(Dots)>>,
    <<Line(XXX), Line(XXX \o XXX), Line(Dots), Line(Dots)>>,
    <<Line(XXX), Line(<<ALIVE, ALIVE>>)>>,
    <<Line(Dots), Line(XXX), Line(Dots), Line(Dots), Line(<<ALIVE>>), Line(XXX)>> }
=============================================================================
