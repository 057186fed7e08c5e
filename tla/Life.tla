-------------------------------- MODULE Life --------------------------------
(***************************************************************************)
(* The program life: Conway's Game of Life in a terminal, from a file or a *)
(* random board.                                                           *)
(*                                                                         *)
(* External: curses, whose getch() gives ERR, a resize or a key at any     *)
(* call; rand().  The memory malloc gives read_file for its line holds any *)
(* characters.                                                             *)
(***************************************************************************)
EXTENDS Integers, FiniteSets, Sequences

CONSTANTS
  NUM_ROWS, NUM_COLS,
  MAX_GENERATIONS,
  Files    \* some files: sequences of lines, the last of which may lack its newline

ASSUME SizeAssumption == NUM_ROWS \in Nat \ {0} /\ NUM_COLS \in Nat \ {0}
ASSUME GenerationsAssumption == MAX_GENERATIONS \in Nat

ALIVE == "X"
DEAD == "."
OUTSIDE == "-"
Newline == "\n"
Zero == "0"   \* the character that ends a string

Chars == {ALIVE, DEAD, OUTSIDE, Newline, Zero}

ASSUME FilesAssumption ==
  \A file \in Files :
    /\ file \in Seq([text : Seq({ALIVE, DEAD}), newline : BOOLEAN])
    /\ \A r \in DOMAIN file : r < Len(file) => file[r].newline

Cells == (1..NUM_ROWS) \X (1..NUM_COLS)
Boards == [Cells -> Chars]
Keys == {"ERR", "KEY_RESIZE", "key"}

VARIABLES
  pc,        \* "start", "reading", "playing", "paused", "done", "exited", "crashed"
  file,      \* what read_file reads, if it is a file
  row,       \* rows read
  buf,       \* the characters of read_file's line
  board,     \* board1 and board2
  current,   \* which of them currentGen points to
  i,         \* the generation
  in,        \* the last key
  stop       \* why the loop was left

vars == <<pc, file, row, buf, board, current, i, in, stop>>

other == 3 - current
-----------------------------------------------------------------------------
get_cell(b, r, c) == IF <<r, c>> \in Cells THEN b[<<r, c>>] ELSE DEAD

num_neighbors(b, r, c) ==
  Cardinality({d \in ((-1..1) \X (-1..1)) \ {<<0, 0>>} : get_cell(b, r + d[1], c + d[2]) = ALIVE})

cell_next(b, r, c) ==
  LET n == num_neighbors(b, r, c)
  IN  CASE b[<<r, c>>] = ALIVE -> IF n \in {2, 3} THEN ALIVE ELSE DEAD
        [] b[<<r, c>>] = DEAD -> IF n = 3 THEN ALIVE ELSE DEAD
        [] OTHER -> OUTSIDE

\* Mutant of calc_next_generation: the rows above are those of the next generation.
calc_in_place(b) ==
  LET Above(r) == [x \in Cells |-> IF x[1] < r THEN cell_next(b, x[1], x[2]) ELSE b[x]]
  IN  [x \in Cells |-> cell_next(Above(x[1]), x[1], x[2])]

calc_next_generation(b) == [x \in Cells |-> cell_next(b, x[1], x[2])]

check_board(b) == \E x \in Cells : b[x] = ALIVE

compare_boards(a, b) == IF \E x \in Cells : a[x] # b[x] THEN 1 ELSE 0
-----------------------------------------------------------------------------
\* getch() in nodelay mode.
Getch == in' \in Keys

\* play() with a random board.
randomize_board ==
  /\ pc = "start"
  /\ \E b \in [Cells -> {ALIVE, DEAD}] : board' = [board EXCEPT ![current] = b]
  /\ pc' = "playing"
  /\ i' = 1
  /\ Getch
  /\ UNCHANGED <<file, row, buf, current, stop>>

\* play() with a file; one that cannot be opened ends the program.
OpenFile ==
  /\ pc = "start"
  /\ \/ /\ file' \in Files /\ pc' = "reading"
        /\ buf' \in [1..(NUM_COLS + 1) -> Chars]
     \/ pc' = "exited" /\ UNCHANGED <<file, buf>>
  /\ UNCHANGED <<row, board, current, i, in, stop>>

\* The line after the rows read, as fgets puts it into the buffer: the text, the
\* newline and a zero, in front of what was there.
Fgets ==
  LET text == file[row + 1].text
  IN  [k \in DOMAIN buf |-> CASE k <= Len(text) -> text[k]
                              [] k = Len(text) + 1 -> Newline
                              [] k = Len(text) + 2 -> Zero
                              [] OTHER -> buf[k]]

MoreLines == row < Len(file) /\ file[row + 1].newline

\* The newline of a line of full length is cut off.
Chopped == [Fgets EXCEPT ![NUM_COLS + 1] = IF @ = Newline THEN Zero ELSE @]

\* A line of the file, which must not be too long; a short one takes its newline,
\* its zero and whatever is behind them to the board.
ReadLine ==
  /\ pc = "reading"
  /\ MoreLines
  /\ IF Len(file[row + 1].text) > NUM_COLS
       THEN pc' = "exited" /\ UNCHANGED <<row, buf, board>>
       ELSE /\ row < NUM_ROWS
            /\ buf' = Chopped
            /\ board' = [board EXCEPT ![current] =
                           [x \in Cells |-> IF x[1] = row + 1 THEN buf'[x[2]] ELSE @[x]]]
            /\ row' = row + 1
            /\ UNCHANGED pc
  /\ UNCHANGED <<file, current, i, in, stop>>

\* The rows are counted when the whole file has been read: a line too many is
\* written through a pointer from behind the board's array of them.  That kills
\* the process or goes unnoticed; what it overwrites no game will show.
WriteBehind ==
  /\ pc = "reading"
  /\ MoreLines
  /\ Len(file[row + 1].text) <= NUM_COLS
  /\ row >= NUM_ROWS
  /\ buf' = Chopped
  /\ \/ pc' = "crashed" /\ UNCHANGED row
     \/ row' = row + 1 /\ UNCHANGED pc
  /\ UNCHANGED <<file, board, current, i, in, stop>>

\* Mutant of EndOfFile: the number of rows is not checked.
EndOfAnyFile ==
  /\ pc = "reading"
  /\ ~MoreLines
  /\ pc' = "playing" /\ i' = 1 /\ Getch
  /\ UNCHANGED <<file, row, buf, board, current, stop>>

\* fgets meets the end of the file: a line without newline is not used.  There
\* must be a row for each of the board's.
EndOfFile ==
  /\ pc = "reading"
  /\ ~MoreLines
  /\ IF row = NUM_ROWS
       THEN pc' = "playing" /\ i' = 1 /\ Getch
       ELSE pc' = "exited" /\ UNCHANGED <<i, in>>
  /\ UNCHANGED <<file, row, buf, board, current, stop>>
-----------------------------------------------------------------------------
\* The end of play(): a user who has not touched a key is waited for.
EndPlay(why, key) ==
  /\ stop' = why
  /\ pc' = IF key = "ERR" THEN "paused" ELSE "done"

\* Mutant of InLoop: counting from zero.
InLoopOnceMore == i <= MAX_GENERATIONS + 1

InLoop == i <= MAX_GENERATIONS

\* One iteration of the loop.
Generation ==
  LET next == calc_next_generation(board[current])
  IN  /\ pc = "playing"
      /\ InLoop
      /\ board' = [board EXCEPT ![other] = next]
      /\ IF compare_boards(board[current], next) = 0
           THEN EndPlay("identical", in) /\ UNCHANGED <<current, i, in>>
         ELSE IF ~check_board(next)
           THEN EndPlay("dead", in) /\ UNCHANGED <<current, i, in>>
         ELSE /\ current' = other
              /\ Getch
              /\ IF in' = "key" THEN EndPlay("key", in') /\ UNCHANGED i
                 ELSE i' = i + 1 /\ UNCHANGED <<pc, stop>>
      /\ UNCHANGED <<file, row, buf>>

LoopEnds ==
  /\ pc = "playing"
  /\ ~InLoop
  /\ EndPlay("bound", in)
  /\ UNCHANGED <<file, row, buf, board, current, i, in>>

\* getch() with delay.
LastKey ==
  /\ pc = "paused"
  /\ pc' = "done"
  /\ UNCHANGED <<file, row, buf, board, current, i, in, stop>>

Dead == [x \in Cells |-> DEAD]

Init ==
  /\ pc = "start"
  /\ file = <<>> /\ row = 0 /\ buf = <<>>
  /\ board = [b \in 1..2 |-> Dead]   \* allocate_board
  /\ current = 1
  /\ i = 0 /\ in = "ERR" /\ stop = ""

Next ==
  \/ randomize_board \/ OpenFile \/ ReadLine \/ WriteBehind \/ EndOfFile
  \/ Generation \/ LoopEnds \/ LastKey

Spec == Init /\ [][Next]_vars
-----------------------------------------------------------------------------
(***************************************************************************)
(* Properties.                                                             *)
(***************************************************************************)
\* Every variable has its type.
TypeOK ==
  /\ pc \in {"start", "reading", "playing", "paused", "done", "exited", "crashed"}
  /\ file \in Files \cup {<<>>}
  /\ row \in 0..Len(file)
  /\ buf = <<>> \/ buf \in [1..(NUM_COLS + 1) -> Chars]
  /\ board \in [1..2 -> Boards]
  /\ current \in 1..2
  /\ i \in 0..(MAX_GENERATIONS + 1)
  /\ in \in Keys
  /\ stop \in {"", "identical", "dead", "key", "bound"}

\* The live cells after one generation of B3/S23 in an endless plane, of which only
\* the cells of the board are kept; holes are the cells that are neither alive nor
\* dead.
Conway(live, holes) ==
  LET Around(x) == {y \in live : y # x /\ y[1] - x[1] \in -1..1 /\ y[2] - x[2] \in -1..1}
  IN  {x \in Cells \ holes : \/ Cardinality(Around(x)) = 3
                             \/ x \in live /\ Cardinality(Around(x)) = 2}

Live(b) == {x \in Cells : b[x] = ALIVE}
Holes(b) == {x \in Cells : b[x] \notin {ALIVE, DEAD}}

\* Every generation shown is Conway's successor of the one before, whichever of
\* the two boards it is computed from and into; a hole never comes to life.
ConwaySteps ==
  [][Generation => /\ Live(board'[other]) = Conway(Live(board[current]), Holes(board[current]))
                   /\ Holes(board'[other]) = Holes(board[current])
                   /\ board'[current] = board[current]]_vars

\* The file has more lines than the board has rows.
TooLong == NUM_ROWS + 1 \in DOMAIN file /\ file[NUM_ROWS + 1].newline

\* A game that is read from a file starts with as many lines as the board has rows,
\* no more even if the row too many went unnoticed, and a line of the right length
\* is the row it was in the file.  Only a file that is too long is written behind
\* the board.
FileIsBoard ==
  /\ pc = "playing" /\ i = 1 /\ file # <<>> =>
       /\ ~TooLong
       /\ \A r \in 1..NUM_ROWS :
            /\ r \in DOMAIN file /\ file[r].newline
            /\ Len(file[r].text) <= NUM_COLS
            /\ Len(file[r].text) = NUM_COLS =>
                 \A c \in 1..NUM_COLS : board[current][<<r, c>>] = file[r].text[c]
  /\ pc = "crashed" \/ row > NUM_ROWS => TooLong
=============================================================================
