------------------------------ MODULE LineInput ------------------------------
(***************************************************************************)
(* How the bytes a client sends become the lines a session works on: the   *)
(* kernel's receive buffer, CommStatic::has_data and read_from_user, and   *)
(* the part of the FromUserGetInput handler that assembles a line in       *)
(* m_current_input.  Module Session takes the outcomes from here.          *)
(*                                                                         *)
(* A byte is a visible character of Text or one of the bytes the code      *)
(* treats in its own way.  External: read returns what has arrived, up to  *)
(* the size it is given.                                                   *)
(***************************************************************************)
EXTENDS Naturals, Sequences, SequencesExt

CONSTANTS
  Text,       \* visible characters, 32..127
  Special,    \* the other bytes the client sends, a subset of Specials
  QuitWord,   \* the word "quit" (or "exit")
  MaxRead,    \* BUFFER_MAX_READ
  MaxSent     \* bound: bytes the client sends

NL == "newline"
CR == "carriage return"  \* kept by lite_sanitize, removed by sanitize
NUL == "nul"             \* ends the buffer for lite_sanitize
IAC == "iac"             \* 0xff, begins a telnet command
EOT == "eot"             \* 4, ^D
Specials == {NL, CR, NUL, IAC, EOT}

Bytes == Text \cup Special

ASSUME TextAssumption == Text \cap Specials = {} /\ Special \subseteq Specials
ASSUME QuitAssumption == QuitWord \in Seq(Text) /\ QuitWord # <<>>
ASSUME BoundsAssumption == MaxRead \in Nat \ {0} /\ MaxSent \in Nat

VARIABLES
  wire,             \* bytes in the socket's receive buffer
  m_current_input,  \* the beginning of a line, lite_sanitized
  m_break_count,
  over,             \* GoodbyeConnection has been sent
  input,            \* history: the OnUserInput messages sent
  consumed,         \* history: the bytes taken from the socket
  outcomes,         \* history: what each read was
  merged            \* history: a read went on behind a newline

vars == <<wire, m_current_input, m_break_count, over, input, consumed, outcomes, merged>>
-----------------------------------------------------------------------------
\* The elements of s that are in S, in their order, as a loop collects them: Kept
\* has them after each element.
Kept(s, S) ==
  LET kept[i \in 0..Len(s)] ==
        IF i = 0 THEN <<>>
        ELSE IF s[i] \in S THEN Append(kept[i - 1], s[i]) ELSE kept[i - 1]
  IN  kept
Keep(s, S) == Kept(s, S)[Len(s)]

Upto(n) == IF Len(wire) < n THEN Len(wire) ELSE n

\* The buffer up to its first zero byte.  (The code's buffer is zero behind
\* what was read.)
CString(buffer) ==
  LET zeros == {i \in DOMAIN buffer : buffer[i] = NUL}
  IN  IF zeros = {} THEN buffer
      ELSE SubSeq(buffer, 1, (CHOOSE i \in zeros : \A j \in zeros : i <= j) - 1)

\* Mutant of lite_sanitize: visible characters only, the newline is lost.
VisibleOnly(buffer) == Keep(CString(buffer), Text)

lite_sanitize(buffer) == Keep(CString(buffer), Text \cup {NL, CR})

\* Mutant of sanitize: keeps the carriage return, as lite_sanitize does.
KeepsReturn(string) == Keep(string, Text \cup {CR})

sanitize(string) == Keep(string, Text)

IsBreak(buffer) == Head(buffer) = IAC \/ buffer = <<EOT>>

Sends(b) ==
  /\ Len(consumed) + Len(wire) < MaxSent
  /\ wire' = Append(wire, b)
  /\ UNCHANGED <<m_current_input, m_break_count, over, input, consumed, outcomes, merged>>

\* A poll that finds data reads it.
Read(buffer, outcome) ==
  /\ ~over
  /\ buffer # <<>>
  /\ wire' = SubSeq(wire, Len(buffer) + 1, Len(wire))
  /\ consumed' = consumed \o buffer
  /\ outcomes' = Append(outcomes, outcome)
  /\ merged' = (merged \/ \E i \in 1..(Len(buffer) - 1) : buffer[i] = NL)

\* Mutant of ReadBreak: a break is counted for good.
ReadBreakCounts(buffer) ==
  /\ Read(buffer, "break")
  /\ IsBreak(buffer)
  /\ m_break_count' = 1
  /\ over' = (outcomes # <<>> /\ \E i \in DOMAIN outcomes : outcomes[i] = "break")
  /\ UNCHANGED <<m_current_input, input>>

ReadBreak(buffer) ==
  /\ Read(buffer, "break")
  /\ IsBreak(buffer)
  /\ m_break_count' = 1
  /\ over' = (m_break_count # 0)
  /\ UNCHANGED <<m_current_input, input>>

\* Mutant of ReadFragment: the fragment replaces what has been read before.
ReadFragmentOverwrites(buffer) ==
  /\ Read(buffer, "fragment")
  /\ ~IsBreak(buffer)
  /\ ~Contains(lite_sanitize(buffer), NL)
  /\ m_break_count' = 0
  /\ m_current_input' = lite_sanitize(buffer)
  /\ UNCHANGED <<over, input>>

ReadFragment(buffer) ==
  /\ Read(buffer, "fragment")
  /\ ~IsBreak(buffer)
  /\ ~Contains(lite_sanitize(buffer), NL)
  /\ m_break_count' = 0
  /\ m_current_input' = m_current_input \o lite_sanitize(buffer)
  /\ UNCHANGED <<over, input>>

ReadLine(buffer) ==
  /\ Read(buffer, "line")
  /\ ~IsBreak(buffer)
  /\ Contains(lite_sanitize(buffer), NL)
  /\ m_break_count' = 0
  /\ m_current_input' = <<>>
  /\ LET final_user_read == sanitize(m_current_input \o lite_sanitize(buffer))
     IN  /\ over' = (final_user_read = QuitWord)
         /\ input' = IF over' THEN input ELSE Append(input, final_user_read)

FromUserGetInput ==
  LET buffer == SubSeq(wire, 1, Upto(MaxRead))
  IN  ReadBreak(buffer) \/ ReadFragment(buffer) \/ ReadLine(buffer)
-----------------------------------------------------------------------------
Init ==
  /\ wire = <<>>
  /\ m_current_input = <<>>
  /\ m_break_count = 0
  /\ over = FALSE
  /\ input = <<>>
  /\ consumed = <<>>
  /\ outcomes = <<>>
  /\ merged = FALSE

Next == FromUserGetInput \/ \E b \in Bytes : Sends(b)

Spec == Init /\ [][Next]_vars
-----------------------------------------------------------------------------
(***************************************************************************)
(* Properties.                                                             *)
(***************************************************************************)
\* Every variable has its type; the pending fragment never holds a newline.
TypeOK ==
  /\ wire \in Seq(Bytes)
  /\ m_current_input \in Seq(Text \cup {CR})
  /\ m_break_count \in {0, 1}
  /\ over \in BOOLEAN /\ merged \in BOOLEAN
  /\ input \in Seq(Seq(Text))
  /\ consumed \in Seq(Bytes)
  /\ outcomes \in Seq({"break", "fragment", "line"})

\* The complete lines of a stream of bytes, and what follows the last one: the
\* reference the assembly of lines is measured against.
Newlines(bytes) == {i \in DOMAIN bytes : bytes[i] = NL}
LastOf(S) == IF S = {} THEN 0 ELSE CHOOSE i \in S : \A j \in S : j <= i
EndOfLine(bytes, n) ==
  CHOOSE i \in Newlines(bytes) : Cardinality({j \in Newlines(bytes) : j <= i}) = n
LineTo(bytes, i) ==
  sanitize(SubSeq(bytes, LastOf({j \in Newlines(bytes) : j < i}) + 1, i))
LinesOf(bytes) ==
  [n \in 1..Cardinality(Newlines(bytes)) |-> LineTo(bytes, EndOfLine(bytes, n))]
Rest(bytes) == sanitize(SubSeq(bytes, LastOf(Newlines(bytes)) + 1, Len(bytes)))

Harmless == \A i \in DOMAIN consumed : consumed[i] \notin {NUL, IAC, EOT}

\* A client that waits for the answer to a line before it sends the next gets
\* exactly its lines through, wherever the network splits them and whatever the
\* size of the buffer; the word quit is not delivered but ends the session.
LinesIntact ==
  ~merged /\ Harmless =>
    /\ sanitize(m_current_input) = Rest(consumed)
    /\ LinesOf(consumed) = IF over THEN Append(input, QuitWord) ELSE input

\* Reads that go on behind a newline run lines together, and still lose,
\* duplicate and reorder nothing.
NothingLost ==
  Harmless /\ ~over =>
    FlattenSeq(input) \o sanitize(m_current_input) = sanitize(consumed)

\* A session ends by the word quit, or by two breaks with nothing but silence
\* between them: a break, a line and a break do not add up.
TwoBreaks ==
  over => \/ outcomes[Len(outcomes)] = "line"
          \/ /\ Len(outcomes) > 1
             /\ outcomes[Len(outcomes)] = "break"
             /\ outcomes[Len(outcomes) - 1] = "break"
=============================================================================
