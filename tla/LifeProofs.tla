----------------------------- MODULE LifeProofs -----------------------------
(***************************************************************************)
(* The Game of Life, proved for boards of every size, every number of      *)
(* generations and every set of files.                                     *)
(***************************************************************************)
EXTENDS Life, FiniteSetTheorems, FunctionTheorems, SequenceTheorems, TLAPS

Buffers == [1..(NUM_COLS + 1) -> Chars]
FileLines == [text : Seq({ALIVE, DEAD}), newline : BOOLEAN]
-----------------------------------------------------------------------------
(***************************************************************************)
(* calc_next_generation is Conway's rule.                                  *)
(***************************************************************************)
Directions == ((-1..1) \X (-1..1)) \ {<<0, 0>>}

\* num_neighbors looks in the eight directions, Conway at the live cells around.
Looked(b, x) == {d \in Directions : get_cell(b, x[1] + d[1], x[2] + d[2]) = ALIVE}
Around(live, x) == {y \in live : y # x /\ y[1] - x[1] \in -1..1 /\ y[2] - x[2] \in -1..1}

\* The directions are finitely many.
LEMMA DirectionsFinite == IsFiniteSet(Directions)
<1>0. -1 \in Int /\ 1 \in Int
  OBVIOUS
<1>1. IsFiniteSet(-1..1)
  BY <1>0, FS_Interval
<1>2. IsFiniteSet((-1..1) \X (-1..1))
  BY <1>1, FS_Product
<1> QED
  BY <1>2, FS_Subset DEF Directions

\* The step in a direction pairs the directions looked in with the cells around.
LEMMA NeighborsCounted ==
  ASSUME NEW b \in Boards, NEW x \in Cells
  PROVE  num_neighbors(b, x[1], x[2]) = Cardinality(Around(Live(b), x))
<1>0. NUM_ROWS \in Nat /\ NUM_COLS \in Nat
  BY SizeAssumption
<1>1. x = <<x[1], x[2]>> /\ x[1] \in Int /\ x[2] \in Int
  BY <1>0 DEF Cells
<1>2. IsFiniteSet(Looked(b, x))
  BY DirectionsFinite, FS_Subset DEF Looked
<1> DEFINE step == [d \in Looked(b, x) |-> <<x[1] + d[1], x[2] + d[2]>>]
<1>3. ASSUME NEW d \in Looked(b, x)
      PROVE  /\ d = <<d[1], d[2]>> /\ d[1] \in -1..1 /\ d[2] \in -1..1 /\ d # <<0, 0>>
             /\ <<x[1] + d[1], x[2] + d[2]>> \in Live(b)
  <2>1. d = <<d[1], d[2]>> /\ d[1] \in -1..1 /\ d[2] \in -1..1 /\ d # <<0, 0>>
    BY <1>3 DEF Looked, Directions
  <2>2. get_cell(b, x[1] + d[1], x[2] + d[2]) = ALIVE
    BY <1>3 DEF Looked
  <2>3. <<x[1] + d[1], x[2] + d[2]>> \in Cells
    BY <2>2 DEF get_cell, ALIVE, DEAD
  <2>4. b[<<x[1] + d[1], x[2] + d[2]>>] = ALIVE
    BY <2>2, <2>3 DEF get_cell
  <2> QED
    BY <2>1, <2>3, <2>4 DEF Live
<1>4. ASSUME NEW d \in Looked(b, x)
      PROVE  step[d] \in Around(Live(b), x)
  <2>1. PICK y : y = <<x[1] + d[1], x[2] + d[2]>>
    OBVIOUS
  <2>2. y[1] = x[1] + d[1] /\ y[2] = x[2] + d[2] /\ y \in Live(b)
    BY <1>3, <2>1
  <2>a. PICK p \in -1..1 : p = d[1]
    BY <1>3
  <2>b. PICK q \in -1..1 : q = d[2]
    BY <1>3
  <2>c. (x[1] + p) - x[1] = p /\ (x[2] + q) - x[2] = q
    BY <1>1
  <2>3. y[1] - x[1] \in -1..1 /\ y[2] - x[2] \in -1..1
    BY <2>2, <2>a, <2>b, <2>c
  <2>4. y # x
    <3>1. d[1] # 0 \/ d[2] # 0
      BY <1>3
    <3>2. y[1] # x[1] \/ y[2] # x[2]
      BY <1>1, <2>2, <2>a, <2>b, <3>1
    <3> QED
      BY <3>2
  <2> QED
    BY <2>1, <2>2, <2>3, <2>4 DEF Around
<1>5. step \in [Looked(b, x) -> Around(Live(b), x)]
  BY <1>4
<1>6. ASSUME NEW d \in Looked(b, x), NEW e \in Looked(b, x), step[d] = step[e]
      PROVE  d = e
  <2>1. x[1] + d[1] = x[1] + e[1] /\ x[2] + d[2] = x[2] + e[2]
    BY <1>6
  <2>a. PICK p \in -1..1 : p = d[1]
    BY <1>3
  <2>b. PICK q \in -1..1 : q = d[2]
    BY <1>3
  <2>c. PICK u \in -1..1 : u = e[1]
    BY <1>3
  <2>d. PICK v \in -1..1 : v = e[2]
    BY <1>3
  <2>e. p = u /\ q = v
    BY <1>1, <2>1, <2>a, <2>b, <2>c, <2>d
  <2>2. d[1] = e[1] /\ d[2] = e[2]
    BY <2>a, <2>b, <2>c, <2>d, <2>e
  <2> QED
    BY <1>3, <2>2
<1>7. ASSUME NEW y \in Around(Live(b), x)
      PROVE  \E d \in Looked(b, x) : step[d] = y
  <2>1. y \in Cells /\ b[y] = ALIVE /\ y # x /\ y[1] - x[1] \in -1..1 /\ y[2] - x[2] \in -1..1
    BY <1>7 DEF Around, Live
  <2>2. y = <<y[1], y[2]>> /\ y[1] \in Int /\ y[2] \in Int
    BY <1>0, <2>1 DEF Cells
  <2>3. PICK d : d = <<y[1] - x[1], y[2] - x[2]>>
    OBVIOUS
  <2>4. x[1] + d[1] = y[1] /\ x[2] + d[2] = y[2]
    BY <1>1, <2>2, <2>3
  <2>5. d # <<0, 0>>
    <3>1. y[1] # x[1] \/ y[2] # x[2]
      BY <1>1, <2>1, <2>2
    <3>2. y[1] - x[1] # 0 \/ y[2] - x[2] # 0
      BY <1>1, <2>2, <3>1
    <3> QED
      BY <2>3, <3>2
  <2>6. d \in Directions
    BY <2>1, <2>3, <2>5 DEF Directions
  <2>7. get_cell(b, x[1] + d[1], x[2] + d[2]) = ALIVE
    BY <2>1, <2>2, <2>4 DEF get_cell
  <2>8. d \in Looked(b, x)
    BY <2>6, <2>7 DEF Looked
  <2>9. step[d] = y
    BY <2>2, <2>4, <2>8
  <2> QED
    BY <2>8, <2>9
<1>8. step \in Bijection(Looked(b, x), Around(Live(b), x))
  <2> HIDE DEF step
  <2> QED
    BY <1>5, <1>6, <1>7, Fun_IsBij
<1>9. ExistsBijection(Looked(b, x), Around(Live(b), x))
  BY <1>8, Fun_ExistsBij
<1>10. Cardinality(Around(Live(b), x)) = Cardinality(Looked(b, x))
  BY <1>2, <1>9, FS_Bijection
<1>11. num_neighbors(b, x[1], x[2]) = Cardinality(Looked(b, x))
  BY DEF num_neighbors, Looked, Directions
<1> QED
  BY <1>10, <1>11

\* One generation is one step of Conway's game, and keeps the holes.
LEMMA NextIsConway ==
  ASSUME NEW b \in Boards
  PROVE  /\ calc_next_generation(b) \in Boards
         /\ Live(calc_next_generation(b)) = Conway(Live(b), Holes(b))
         /\ Holes(calc_next_generation(b)) = Holes(b)
<1>1. PICK n : n = calc_next_generation(b)
  OBVIOUS
<1>2. ASSUME NEW x \in Cells
      PROVE  n[x] = cell_next(b, x[1], x[2]) /\ x = <<x[1], x[2]>>
  BY <1>1, <1>2 DEF calc_next_generation, Cells
<1>3. DOMAIN n = Cells
  BY <1>1 DEF calc_next_generation
<1>4. ASSUME NEW x \in Cells
      PROVE  /\ n[x] \in Chars
             /\ n[x] = ALIVE <=> /\ b[x] \in {ALIVE, DEAD}
                                 /\ \/ Cardinality(Around(Live(b), x)) = 3
                                    \/ b[x] = ALIVE /\ Cardinality(Around(Live(b), x)) = 2
             /\ n[x] \notin {ALIVE, DEAD} <=> b[x] \notin {ALIVE, DEAD}
  <2>1. PICK k : k = num_neighbors(b, x[1], x[2])
    OBVIOUS
  <2>2. k = Cardinality(Around(Live(b), x))
    BY <1>4, <2>1, NeighborsCounted
  <2>3. b[<<x[1], x[2]>>] = b[x]
    BY <1>2
  <2>4. /\ b[x] = ALIVE => n[x] = IF k \in {2, 3} THEN ALIVE ELSE DEAD
        /\ b[x] = DEAD => n[x] = IF k = 3 THEN ALIVE ELSE DEAD
        /\ b[x] \notin {ALIVE, DEAD} => n[x] = OUTSIDE
    BY <1>2, <2>1, <2>3 DEF cell_next, ALIVE, DEAD
  <2> QED
    BY <2>2, <2>4 DEF Chars, ALIVE, DEAD, OUTSIDE
<1>5. n \in Boards
  BY <1>1, <1>3, <1>4 DEF Boards, calc_next_generation
<1>6. Live(n) = Conway(Live(b), Holes(b))
  <2>1. Conway(Live(b), Holes(b)) =
          {x \in Cells \ Holes(b) : \/ Cardinality(Around(Live(b), x)) = 3
                                    \/ x \in Live(b) /\ Cardinality(Around(Live(b), x)) = 2}
    BY DEF Conway, Around
  <2>2. \A x \in Cells : x \in Live(n) <=> x \in Conway(Live(b), Holes(b))
    BY <1>4, <2>1 DEF Live, Holes
  <2> QED
    BY <2>1, <2>2 DEF Live
<1>7. Holes(n) = Holes(b)
  BY <1>4 DEF Holes
<1> QED
  BY <1>1, <1>5, <1>6, <1>7
-----------------------------------------------------------------------------
(***************************************************************************)
(* Reading a file.                                                         *)
(***************************************************************************)
\* A row has been read: it was a line, not too long, and is on the board if it was
\* of the right length.
RowRead(r) ==
  /\ r \in DOMAIN file
  /\ file[r].newline
  /\ Len(file[r].text) <= NUM_COLS
  /\ Len(file[r].text) = NUM_COLS =>
       \A c \in 1..NUM_COLS : board[current][<<r, c>>] = file[r].text[c]

\* The inductive invariant.
LifeInv ==
  /\ pc = "start" => file = <<>> /\ row = 0
  /\ pc = "reading" => /\ file \in Files /\ buf \in Buffers
                       /\ \A r \in 1..NUM_ROWS : r <= row => RowRead(r)
  /\ pc = "playing" => i # 0
  /\ FileIsBoard

\* What is assumed of a file.
LEMMA FileFacts ==
  ASSUME NEW f \in Files
  PROVE  /\ f \in Seq(FileLines) /\ Len(f) \in Nat /\ DOMAIN f = 1..Len(f)
         /\ \A r \in DOMAIN f : /\ r < Len(f) => f[r].newline
                                /\ f[r].newline \in BOOLEAN
                                /\ f[r].text \in Seq({ALIVE, DEAD})
<1>1. /\ f \in Seq(FileLines)
      /\ \A r \in DOMAIN f : r < Len(f) => f[r].newline
  BY FilesAssumption DEF FileLines
<1>2. Len(f) \in Nat /\ DOMAIN f = 1..Len(f)
  BY <1>1, LenProperties
<1>3. \A r \in DOMAIN f : f[r] \in FileLines
  BY <1>1, <1>2, ElementOfSeq
<1>4. \A r \in DOMAIN f : f[r].newline \in BOOLEAN /\ f[r].text \in Seq({ALIVE, DEAD})
  BY <1>3 DEF FileLines
<1> QED
  BY <1>1, <1>2, <1>4

\* The length of what is read, a file or nothing yet.
LEMMA LengthOfFile ==
  ASSUME TypeOK
  PROVE  Len(file) \in Nat /\ row \in 0..Len(file) /\ row \in Nat
<1>1. CASE file \in Files
  <2>1. Len(file) \in Nat
    BY <1>1, FileFacts
  <2>2. row \in 0..Len(file)
    BY DEF TypeOK
  <2> QED
    BY <2>1, <2>2
<1>2. CASE file = <<>>
  <2>1. Len(file) = 0
    BY <1>2
  <2>2. row \in 0..Len(file)
    BY DEF TypeOK
  <2> QED
    BY <2>1, <2>2
<1> QED
  BY <1>1, <1>2 DEF TypeOK

\* The next line is a line of the file, wherever its row goes.
LEMMA NextLine ==
  ASSUME TypeOK, LifeInv, pc = "reading", MoreLines
  PROVE  row + 1 \in DOMAIN file /\ row + 1 \in 0..Len(file) /\ file[row + 1].newline
<1>1. Len(file) \in Nat /\ DOMAIN file = 1..Len(file)
  BY FileFacts DEF LifeInv
<1>2. row \in Nat /\ row < Len(file)
  BY LengthOfFile DEF MoreLines
<1> QED
  BY <1>1, <1>2 DEF MoreLines

\* fgets keeps the buffer well formed, and puts the text in front.
LEMMA FgetsType ==
  ASSUME TypeOK, LifeInv, pc = "reading", MoreLines, Len(file[row + 1].text) <= NUM_COLS
  PROVE  /\ Chopped \in Buffers
         /\ \A k \in 1..Len(file[row + 1].text) : Chopped[k] = file[row + 1].text[k]
<1>0. NUM_COLS \in Nat
  BY SizeAssumption
<1>1. file \in Files /\ buf \in Buffers /\ row + 1 \in DOMAIN file
  BY NextLine DEF LifeInv
<1>2. PICK text \in Seq({ALIVE, DEAD}) : text = file[row + 1].text
  BY <1>1, FileFacts
<1>3. Len(text) \in Nat /\ Len(text) <= NUM_COLS /\ \A k \in 1..Len(text) : text[k] \in {ALIVE, DEAD}
  BY <1>2, LenProperties, ElementOfSeq
<1>4. PICK f : f = Fgets
  OBVIOUS
<1>5. f = [k \in 1..(NUM_COLS + 1) |-> CASE k <= Len(text) -> text[k]
                                        [] k = Len(text) + 1 -> Newline
                                        [] k = Len(text) + 2 -> Zero
                                        [] OTHER -> buf[k]]
  BY <1>1, <1>2, <1>4 DEF Fgets, Buffers
<1>6. ASSUME NEW k \in 1..(NUM_COLS + 1)
      PROVE  f[k] \in Chars /\ (k <= Len(text) => f[k] = text[k])
  <2>1. CASE k <= Len(text)
    <3>1. f[k] = text[k] /\ k \in 1..Len(text)
      BY <1>0, <1>3, <1>5, <2>1
    <3> QED
      BY <1>3, <3>1 DEF Chars
  <2>2. CASE k = Len(text) + 1
    <3>1. ~(k <= Len(text))
      BY <1>3, <2>2
    <3>2. f[k] = Newline
      BY <1>3, <1>5, <2>2, <3>1
    <3> QED
      BY <3>1, <3>2 DEF Chars
  <2>3. CASE k = Len(text) + 2
    <3>1. ~(k <= Len(text)) /\ k # Len(text) + 1
      BY <1>3, <2>3
    <3>2. f[k] = Zero
      BY <1>3, <1>5, <2>3, <3>1
    <3> QED
      BY <3>1, <3>2 DEF Chars
  <2>4. CASE ~(k <= Len(text)) /\ k # Len(text) + 1 /\ k # Len(text) + 2
    <3>1. f[k] = buf[k]
      BY <1>3, <1>5, <2>4
    <3> QED
      BY <1>1, <2>4, <3>1 DEF Buffers
  <2> QED
    BY <2>1, <2>2, <2>3, <2>4
<1>7. DOMAIN f = 1..(NUM_COLS + 1)
  BY <1>5
<1>8. f \in Buffers
  <2>1. f = [k \in 1..(NUM_COLS + 1) |-> f[k]]
    BY <1>5
  <2> QED
    BY <1>6, <2>1 DEF Buffers
<1>9. PICK g : g = [f EXCEPT ![NUM_COLS + 1] = IF @ = Newline THEN Zero ELSE @]
  OBVIOUS
<1>10. g \in Buffers
  BY <1>8, <1>9 DEF Buffers, Chars
<1>11. ASSUME NEW k \in 1..Len(text) PROVE g[k] = text[k]
  <2>1. k \in 1..(NUM_COLS + 1) /\ k # NUM_COLS + 1 /\ k <= Len(text)
    BY <1>0, <1>3
  <2>2. g[k] = f[k]
    BY <1>7, <1>9, <2>1
  <2> QED
    BY <1>6, <2>1, <2>2
<1>12. g = Chopped
  BY <1>4, <1>9 DEF Chopped
<1> QED
  BY <1>2, <1>10, <1>11, <1>12
-----------------------------------------------------------------------------
(***************************************************************************)
(* The steps.                                                              *)
(***************************************************************************)
\* read_file's loop.
LEMMA ReadLineStep ==
  ASSUME TypeOK, LifeInv, ReadLine
  PROVE  TypeOK' /\ LifeInv'
<1>0. NUM_ROWS \in Nat /\ NUM_COLS \in Nat
  BY SizeAssumption
<1>1. pc = "reading" /\ MoreLines /\ UNCHANGED <<file, current, i, in, stop>>
  BY DEF ReadLine
<1>2. row + 1 \in DOMAIN file /\ row + 1 \in 0..Len(file) /\ row \in Nat
  BY <1>1, NextLine, LengthOfFile
<1>3. /\ file \in Files /\ buf \in Buffers
      /\ \A r \in 1..NUM_ROWS : r <= row => RowRead(r)
  BY <1>1 DEF LifeInv
<1>4. PICK text \in Seq({ALIVE, DEAD}) : text = file[row + 1].text
  BY <1>2, <1>3, FileFacts
<1>5. Len(text) \in Nat
  BY LenProperties
<1>6. CASE Len(text) > NUM_COLS
  <2>1. pc' = "exited" /\ UNCHANGED <<row, buf, board>>
    BY <1>4, <1>6 DEF ReadLine
  <2>2. TypeOK'
    BY <1>1, <2>1 DEF TypeOK
  <2>3. LifeInv'
    BY <1>1, <2>1 DEF LifeInv, FileIsBoard, TooLong
  <2> QED
    BY <2>2, <2>3
<1>7. CASE Len(text) <= NUM_COLS
  <2>1. /\ row < NUM_ROWS
        /\ buf' = Chopped
        /\ board' = [board EXCEPT ![current] =
                       [x \in Cells |-> IF x[1] = row + 1 THEN buf'[x[2]] ELSE @[x]]]
        /\ row' = row + 1 /\ pc' = pc
    BY <1>0, <1>4, <1>5, <1>7 DEF ReadLine
  <2>2. buf' \in Buffers /\ \A k \in 1..Len(text) : buf'[k] = text[k]
    BY <1>1, <1>4, <1>7, <2>1, FgetsType
  <2>3. PICK b : b = board[current]
    OBVIOUS
  <2>4. b \in Boards /\ board \in [1..2 -> Boards] /\ current \in 1..2
    BY <2>3 DEF TypeOK
  <2>5. PICK n : n = [x \in Cells |-> IF x[1] = row + 1 THEN buf'[x[2]] ELSE b[x]]
    OBVIOUS
  <2>6. board' = [board EXCEPT ![current] = n]
    BY <2>1, <2>3, <2>5
  <2>7. n \in Boards
    <3> SUFFICES ASSUME NEW x \in Cells
                 PROVE  (IF x[1] = row + 1 THEN buf'[x[2]] ELSE b[x]) \in Chars
      BY <2>5 DEF Boards
    <3>1. x[2] \in 1..(NUM_COLS + 1)
      BY <1>0 DEF Cells
    <3>2. buf'[x[2]] \in Chars
      BY <2>2, <3>1 DEF Buffers
    <3>3. b[x] \in Chars
      BY <2>4 DEF Boards
    <3> QED
      BY <3>2, <3>3
  <2>8. board' \in [1..2 -> Boards] /\ board'[current] = n
    BY <2>4, <2>6, <2>7
  <2>9. TypeOK'
    <3>1. row' \in 0..Len(file')
      BY <1>1, <1>2, <2>1
    <3> QED
      BY <1>1, <2>1, <2>2, <2>8, <3>1 DEF TypeOK, Buffers
  <2>10. ASSUME NEW r \in 1..(row + 1) PROVE RowRead(r)'
    <3>1. CASE r \in 1..row
      <4>2. r # row + 1 /\ r \in 1..NUM_ROWS /\ r <= row
        BY <1>0, <1>2, <2>1, <3>1
      <4>1. RowRead(r)
        BY <1>3, <4>2
      <4>3. \A c \in 1..NUM_COLS : n[<<r, c>>] = b[<<r, c>>]
        BY <2>5, <4>2 DEF Cells
      <4> QED
        BY <1>1, <2>3, <2>8, <4>1, <4>3 DEF RowRead
    <3>2. CASE r = row + 1
      <4>1. \A c \in 1..NUM_COLS : n[<<r, c>>] = buf'[c]
        <5>1. r \in 1..NUM_ROWS
          BY <1>0, <1>2, <2>1, <3>2
        <5> QED
          BY <2>5, <3>2, <5>1 DEF Cells
      <4>2. file[r].newline
        BY <1>1, <3>2 DEF MoreLines
      <4>3. Len(text) = NUM_COLS => \A c \in 1..NUM_COLS : n[<<r, c>>] = text[c]
        BY <2>2, <4>1
      <4> QED
        BY <1>1, <1>2, <1>4, <1>7, <2>8, <3>2, <4>2, <4>3 DEF RowRead
    <3> QED
      BY <1>2, <3>1, <3>2
  <2>11. \A r \in 1..NUM_ROWS : r <= row' => RowRead(r)'
    BY <1>0, <1>2, <2>1, <2>10
  <2>12. ~(row' > NUM_ROWS)
    BY <1>0, <1>2, <2>1
  <2>13. FileIsBoard'
    BY <1>1, <2>1, <2>12 DEF FileIsBoard
  <2>14. LifeInv'
    BY <1>1, <1>3, <2>1, <2>2, <2>11, <2>13 DEF LifeInv
  <2> QED
    BY <2>9, <2>14
<1> QED
  BY <1>0, <1>5, <1>6, <1>7

\* A row is written behind the board only when the file has a line too many.
LEMMA WriteBehindStep ==
  ASSUME TypeOK, LifeInv, WriteBehind
  PROVE  TypeOK' /\ LifeInv'
<1>0. NUM_ROWS \in Nat
  BY SizeAssumption
<1>1. /\ pc = "reading" /\ MoreLines /\ Len(file[row + 1].text) <= NUM_COLS
      /\ row >= NUM_ROWS /\ buf' = Chopped
      /\ UNCHANGED <<file, board, current, i, in, stop>>
      /\ \/ pc' = "crashed" /\ row' = row
         \/ row' = row + 1 /\ pc' = pc
  BY DEF WriteBehind
<1>2. /\ row + 1 \in DOMAIN file /\ row + 1 \in 0..Len(file) /\ file[row + 1].newline
      /\ row \in Nat /\ row \in 0..Len(file)
  BY <1>1, NextLine, LengthOfFile
<1>3. buf' \in Buffers
  BY <1>1, FgetsType
<1>4. /\ file \in Files /\ \A r \in 1..NUM_ROWS : r <= row => RowRead(r)
      /\ row > NUM_ROWS => TooLong
  BY <1>1 DEF LifeInv, FileIsBoard
<1>5. TooLong
  <2>1. CASE row = NUM_ROWS
    BY <1>2, <2>1 DEF TooLong
  <2>2. CASE row > NUM_ROWS
    BY <1>4, <2>2
  <2> QED
    BY <1>0, <1>1, <1>2, <2>1, <2>2
<1>6. TooLong'
  BY <1>1, <1>5 DEF TooLong
<1>7. TypeOK'
  <2>1. row' \in 0..Len(file')
    BY <1>1, <1>2
  <2>2. pc' \in {"crashed", "reading"}
    BY <1>1
  <2> QED
    BY <1>1, <1>3, <2>1, <2>2 DEF TypeOK, Buffers
<1>8. pc' = "reading" => \A r \in 1..NUM_ROWS : r <= row' => RowRead(r)'
  <2> SUFFICES ASSUME NEW r \in 1..NUM_ROWS
               PROVE  RowRead(r)'
    OBVIOUS
  <2>1. RowRead(r)
    BY <1>0, <1>1, <1>2, <1>4
  <2> QED
    BY <1>1, <2>1 DEF RowRead
<1>9. FileIsBoard'
  BY <1>1, <1>6 DEF FileIsBoard
<1> QED
  BY <1>1, <1>3, <1>4, <1>7, <1>8, <1>9 DEF LifeInv

\* The end of the file: the board has the rows of the file.
LEMMA EndOfFileStep ==
  ASSUME TypeOK, LifeInv, EndOfFile
  PROVE  TypeOK' /\ LifeInv'
<1>0. NUM_ROWS \in Nat /\ NUM_COLS \in Nat /\ MAX_GENERATIONS \in Nat
  BY SizeAssumption, GenerationsAssumption
<1>1. pc = "reading" /\ ~MoreLines /\ UNCHANGED <<file, row, buf, board, current, stop>>
  BY DEF EndOfFile
<1>2. file \in Files /\ \A r \in 1..NUM_ROWS : r <= row => RowRead(r)
  BY <1>1 DEF LifeInv
<1>3. CASE row = NUM_ROWS
  <2>1. pc' = "playing" /\ i' = 1 /\ in' \in Keys
    BY <1>3 DEF EndOfFile, Getch
  <2>2. TypeOK'
    <3>1. i' \in 0..(MAX_GENERATIONS + 1)
      BY <1>0, <2>1
    <3> QED
      BY <1>1, <2>1, <3>1 DEF TypeOK
  <2>3. Len(file) \in Nat /\ DOMAIN file = 1..Len(file)
    BY <1>2, FileFacts
  <2>4. ~TooLong
    <3>1. NUM_ROWS + 1 \in DOMAIN file => NUM_ROWS < Len(file)
      BY <1>0, <2>3
    <3> QED
      BY <1>1, <1>3, <3>1 DEF TooLong, MoreLines
  <2>5. \A r \in 1..NUM_ROWS : RowRead(r)
    BY <1>0, <1>2, <1>3
  <2>6. FileIsBoard'
    <3>1. ~TooLong' /\ \A r \in 1..NUM_ROWS : RowRead(r)'
      BY <1>1, <2>4, <2>5 DEF TooLong, RowRead
    <3>2. ~(row' > NUM_ROWS) /\ pc' # "crashed"
      BY <1>0, <1>1, <1>3, <2>1
    <3> QED
      BY <3>1, <3>2 DEF FileIsBoard, RowRead
  <2>7. LifeInv'
    BY <2>1, <2>6 DEF LifeInv
  <2> QED
    BY <2>2, <2>7
<1>4. CASE row # NUM_ROWS
  <2>1. pc' = "exited" /\ UNCHANGED <<i, in>>
    BY <1>4 DEF EndOfFile
  <2>2. TypeOK'
    BY <1>1, <2>1 DEF TypeOK
  <2> QED
    BY <1>1, <2>1, <2>2 DEF LifeInv, FileIsBoard, TooLong
<1> QED
  BY <1>3, <1>4

\* A generation: the two boards change their roles.
LEMMA GenerationStep ==
  ASSUME TypeOK, LifeInv, Generation
  PROVE  TypeOK' /\ LifeInv'
<1>0. MAX_GENERATIONS \in Nat
  BY GenerationsAssumption
<1>1. PICK next : next = calc_next_generation(board[current])
  OBVIOUS
<1>2. board \in [1..2 -> Boards] /\ current \in 1..2 /\ i \in 0..(MAX_GENERATIONS + 1)
  BY DEF TypeOK
<1>3. next \in Boards
  BY <1>1, <1>2, NextIsConway
<1>4. /\ pc = "playing" /\ InLoop /\ board' = [board EXCEPT ![other] = next]
      /\ UNCHANGED <<file, row, buf>>
  BY <1>1 DEF Generation
<1>5. other \in 1..2
  BY <1>2 DEF other
<1>6. board' \in [1..2 -> Boards]
  BY <1>2, <1>3, <1>4, <1>5
<1>7. i # 0 /\ i + 1 \in 0..(MAX_GENERATIONS + 1) /\ i + 1 # 0 /\ i + 1 # 1
  BY <1>0, <1>2, <1>4 DEF InLoop, LifeInv
<1>8. \/ /\ \E why \in {"identical", "dead"} : EndPlay(why, in)
         /\ UNCHANGED <<current, i, in>>
      \/ /\ current' = other /\ in' \in Keys
         /\ \/ EndPlay("key", in') /\ UNCHANGED i
            \/ i' = i + 1 /\ UNCHANGED <<pc, stop>>
  BY DEF Generation, Getch
<1>9. /\ pc' \in {"paused", "done"} \/ (pc' = pc /\ i' = i + 1)
      /\ i' \in {i, i + 1} /\ in' \in Keys /\ current' \in 1..2
      /\ stop' \in {"", "identical", "dead", "key", "bound"}
  BY <1>2, <1>5, <1>8 DEF EndPlay, TypeOK
<1>10. TypeOK'
  BY <1>2, <1>4, <1>6, <1>7, <1>9 DEF TypeOK
<1>11. LifeInv'
  <2>1. ~(pc' = "playing" /\ i' = 1) /\ pc' \notin {"start", "reading", "crashed"}
    BY <1>4, <1>7, <1>9
  <2>2. row' > NUM_ROWS => TooLong'
    BY <1>4 DEF LifeInv, FileIsBoard, TooLong
  <2>3. pc' = "playing" => i' # 0
    BY <1>4, <1>7, <1>9
  <2> QED
    BY <2>1, <2>2, <2>3 DEF LifeInv, FileIsBoard
<1> QED
  BY <1>10, <1>11
-----------------------------------------------------------------------------
(***************************************************************************)
(* The theorems.                                                           *)
(***************************************************************************)
\* The program starts with dead boards and nothing read.
LEMMA LifeStart == Init => TypeOK /\ LifeInv
<1> SUFFICES ASSUME Init PROVE TypeOK /\ LifeInv
  OBVIOUS
<1>0. NUM_ROWS \in Nat /\ MAX_GENERATIONS \in Nat
  BY SizeAssumption, GenerationsAssumption
<1>1. Dead \in Boards
  BY DEF Dead, Boards, Chars
<1>2. board \in [1..2 -> Boards]
  BY <1>1 DEF Init
<1>a. row = 0 /\ i = 0 /\ current = 1
  BY DEF Init
<1>3. i \in 0..(MAX_GENERATIONS + 1) /\ current \in 1..2
  BY <1>0, <1>a
<1>b. /\ pc = "start" /\ file = <<>> /\ buf = <<>> /\ in \in Keys /\ stop = ""
  BY DEF Init, Keys
<1>c. row \in 0..Len(file)
  <2>1. Len(file) = 0
    BY <1>b
  <2> QED
    BY <1>a, <2>1
<1>4. TypeOK
  BY <1>2, <1>3, <1>b, <1>c DEF TypeOK
<1>5. ~(row > NUM_ROWS)
  BY <1>0, <1>a
<1> QED
  BY <1>4, <1>5, <1>a, <1>b DEF LifeInv, FileIsBoard

\* The steps that neither read a line nor compute a generation.
LEMMA OtherSteps ==
  ASSUME TypeOK, LifeInv, randomize_board \/ OpenFile \/ LoopEnds \/ LastKey \/ UNCHANGED vars
  PROVE  TypeOK' /\ LifeInv'
<1>0. NUM_ROWS \in Nat /\ MAX_GENERATIONS \in Nat
  BY SizeAssumption, GenerationsAssumption
<1>1. CASE randomize_board
  <2>1. /\ pc = "start" /\ pc' = "playing" /\ i' = 1 /\ in' \in Keys
        /\ UNCHANGED <<file, row, buf, current, stop>>
    BY <1>1 DEF randomize_board, Getch
  <2>2. PICK b \in [Cells -> {ALIVE, DEAD}] : board' = [board EXCEPT ![current] = b]
    BY <1>1 DEF randomize_board
  <2>3. b \in Boards
    BY DEF Boards, Chars
  <2>4. board' \in [1..2 -> Boards]
    BY <2>2, <2>3 DEF TypeOK
  <2>5. i' \in 0..(MAX_GENERATIONS + 1)
    BY <1>0, <2>1
  <2>6. TypeOK'
    BY <2>1, <2>4, <2>5 DEF TypeOK
  <2>7. row' = 0 /\ file' = <<>>
    BY <2>1 DEF LifeInv
  <2>8. ~(row' > NUM_ROWS)
    BY <1>0, <2>7
  <2> QED
    BY <2>1, <2>6, <2>7, <2>8 DEF LifeInv, FileIsBoard
<1>2. CASE OpenFile
  <2>1. /\ pc = "start" /\ UNCHANGED <<row, board, current, i, in, stop>>
        /\ \/ file' \in Files /\ pc' = "reading" /\ buf' \in Buffers
           \/ pc' = "exited" /\ UNCHANGED <<file, buf>>
    BY <1>2 DEF OpenFile, Buffers
  <2>2. row' = 0
    BY <2>1 DEF LifeInv
  <2>3. row' \in 0..Len(file')
    <3>1. CASE file' \in Files
      BY <2>2, <3>1, FileFacts
    <3>2. CASE file' = file
      BY <2>1, <3>2 DEF TypeOK
    <3> QED
      BY <2>1, <3>1, <3>2
  <2>4. TypeOK'
    BY <2>1, <2>3 DEF TypeOK, Buffers
  <2>5. \A r \in 1..NUM_ROWS : ~(r <= row')
    BY <1>0, <2>2
  <2>6. ~(row' > NUM_ROWS)
    BY <1>0, <2>2
  <2> QED
    BY <2>1, <2>4, <2>5, <2>6 DEF LifeInv, FileIsBoard
<1>3. CASE LoopEnds
  <2>1. /\ pc' \in {"paused", "done"} /\ stop' = "bound"
        /\ UNCHANGED <<file, row, buf, board, current, i, in>>
    BY <1>3 DEF LoopEnds, EndPlay
  <2>2. TypeOK'
    BY <2>1 DEF TypeOK
  <2> QED
    BY <1>3, <2>1, <2>2 DEF LifeInv, FileIsBoard, TooLong, LoopEnds
<1>4. CASE LastKey
  <2>1. pc' = "done" /\ UNCHANGED <<file, row, buf, board, current, i, in, stop>>
    BY <1>4 DEF LastKey
  <2>2. TypeOK'
    BY <2>1 DEF TypeOK
  <2> QED
    BY <1>4, <2>1, <2>2 DEF LifeInv, FileIsBoard, TooLong, LastKey
<1>5. CASE UNCHANGED vars
  BY <1>5 DEF vars, TypeOK, LifeInv, FileIsBoard, RowRead, TooLong
<1> QED
  BY <1>1, <1>2, <1>3, <1>4, <1>5

\* The invariant of the program, for boards, files and numbers of generations of
\* every size.
THEOREM LifeInvariant == Spec => [](TypeOK /\ LifeInv)
<1>1. (TypeOK /\ LifeInv) /\ [Next]_vars => (TypeOK /\ LifeInv)'
  BY ReadLineStep, WriteBehindStep, EndOfFileStep, GenerationStep, OtherSteps DEF Next
<1> QED
  BY <1>1, LifeStart, PTL DEF Spec

\* Type correctness, for boards of every size and every file: whatever the lengths
\* of the lines and however many of them read_file takes, the two boards and the
\* line stay well formed and the generations within their bound.
THEOREM LifeTypes == Spec => []TypeOK
BY LifeInvariant, PTL

\* A game starts only from a file with exactly the board's number of lines, none too
\* long, and shows those of full length as they are in the file; read_file writes
\* behind the board only for a file with more of them.
THEOREM BoardFromFile == Spec => []FileIsBoard
<1>1. LifeInv => FileIsBoard
  BY DEF LifeInv
<1> QED
  BY <1>1, LifeInvariant, PTL

\* calc_next_generation computes Conway's rule on boards of every size, into the
\* board that is not shown.
THEOREM EveryGenerationConway == Spec => ConwaySteps
<1> DEFINE Step ==
      Generation => /\ Live(board'[other]) = Conway(Live(board[current]), Holes(board[current]))
                    /\ Holes(board'[other]) = Holes(board[current])
                    /\ board'[current] = board[current]
<1>1. TypeOK /\ [Next]_vars => [Step]_vars
  <2> SUFFICES ASSUME TypeOK, Generation
               PROVE  /\ Live(board'[other]) = Conway(Live(board[current]), Holes(board[current]))
                      /\ Holes(board'[other]) = Holes(board[current])
                      /\ board'[current] = board[current]
    OBVIOUS
  <2>1. board \in [1..2 -> Boards] /\ current \in 1..2
    BY DEF TypeOK
  <2>2. PICK b \in Boards : b = board[current]
    BY <2>1
  <2>3. PICK o \in 1..2 : o = other /\ o # current
    BY <2>1 DEF other
  <2>4. board' = [board EXCEPT ![o] = calc_next_generation(b)]
    BY <2>2, <2>3 DEF Generation
  <2>5. board'[o] = calc_next_generation(b) /\ board'[current] = board[current]
    BY <2>1, <2>3, <2>4
  <2> QED
    BY <2>2, <2>3, <2>5, NextIsConway
<1>2. Spec => [][Next]_vars
  BY PTL DEF Spec
<1>3. Spec => [][Step]_vars
  BY <1>1, <1>2, LifeTypes, PTL
<1> QED
  BY <1>3 DEF ConwaySteps
=============================================================================
