---------------------------- MODULE SharedLemmas ----------------------------
(***************************************************************************)
(* Facts the proofs share: induction and recursion over numbers and over   *)
(* sequences, and what is in a mailbox, and how often, after its first     *)
(* message has been taken and others have been added.                      *)
(***************************************************************************)
EXTENDS Integers, Sequences, FiniteSets, SequenceTheorems, FiniteSetTheorems, TLAPS

\* A nonempty set of numbers has a smallest one.
LEMMA SmallestExists ==
  ASSUME NEW T \in SUBSET Nat, T # {}
  PROVE  \E x \in T : \A y \in T : x <= y
<1>1. PICK x \in T : \A y \in T : <<y, x>> \notin OpToRel(<, Nat)
  BY WFMin, NatLessThanWellFounded
<1>2. \A a, b \in Nat : a < b => <<a, b>> \in OpToRel(<, Nat)
  BY DEF OpToRel
<1>3. \A y \in T : ~(y < x)
  BY <1>1, <1>2
<1> QED
  BY <1>3

(***************************************************************************)
(* Induction, said with sets: a lemma whose parameters are sets and        *)
(* functions can be used where one with an operator as parameter cannot.   *)
(***************************************************************************)
\* A set that has 0, and the successor of every number it has, has them all.
LEMMA SetInduction ==
  ASSUME NEW T, 0 \in T, \A k \in Nat : k \in T => k + 1 \in T
  PROVE  Nat \subseteq T
<1> SUFFICES ASSUME NEW m \in Nat, m \notin T
             PROVE  FALSE
  OBVIOUS
<1>1. PICK x \in Nat \ T : \A y \in Nat \ T : x <= y
  BY SmallestExists
<1>2. x # 0 /\ x - 1 \in Nat /\ x - 1 + 1 = x
  BY <1>1
<1>3. x - 1 \in T
  BY <1>1, <1>2
<1> QED
  BY <1>1, <1>2, <1>3

\* The same up to n.
LEMMA UptoInduction ==
  ASSUME NEW n \in Nat, NEW T, 0 \in T, \A k \in 0..(n - 1) : k \in T => k + 1 \in T
  PROVE  0..n \subseteq T
<1> DEFINE U == {k \in Nat : k <= n => k \in T}
<1>1. 0 \in U
  OBVIOUS
<1>2. \A k \in Nat : k \in U => k + 1 \in U
  OBVIOUS
<1>3. Nat \subseteq U
  <2> HIDE DEF U
  <2> QED
    BY <1>1, <1>2, SetInduction
<1> QED
  BY <1>3

\* step[i] gives the value at i from the one before it, within S; h has these values.
IsSteps(n, S, a, step) == a \in S /\ step \in [0..n -> [S -> S]]
Follows(n, S, a, step, h) ==
  h \in [0..n -> S] /\ h[0] = a /\ \A i \in 1..n : h[i] = step[i][h[i - 1]]

\* A function on 0..n can be defined by recursion: the value at i is step[i] of the
\* value before.
LEMMA RecursionExists ==
  ASSUME NEW n \in Nat, NEW S, NEW a, NEW step, IsSteps(n, S, a, step)
  PROVE  \E h : Follows(n, S, a, step, h)
<1>0. a \in S /\ step \in [0..n -> [S -> S]]
  BY DEF IsSteps
<1> DEFINE Upto(k) == \E f \in [0..k -> S] : f[0] = a /\ \A i \in 1..k : f[i] = step[i][f[i - 1]]
           T == {k \in 0..n : Upto(k)}
<1>1. 0 \in T
  <2>1. PICK f : f = [i \in 0..0 |-> a]
    OBVIOUS
  <2>2. f \in [0..0 -> S] /\ f[0] = a
    BY <1>0, <2>1
  <2>3. \A i \in 1..0 : FALSE
    OBVIOUS
  <2>4. Upto(0)
    BY <2>2, <2>3
  <2> QED
    BY <2>4
<1>2. ASSUME NEW k \in 0..(n - 1), k \in T
      PROVE  k + 1 \in T
  <2>1. PICK f \in [0..k -> S] : f[0] = a /\ \A i \in 1..k : f[i] = step[i][f[i - 1]]
    BY <1>2
  <2> DEFINE g == [i \in 0..(k + 1) |-> IF i = k + 1 THEN step[k + 1][f[k]] ELSE f[i]]
  <2>2. step[k + 1][f[k]] \in S
    BY <1>0, <2>1
  <2>3. g \in [0..(k + 1) -> S]
    BY <2>1, <2>2
  <2>4. g[0] = a
    BY <2>1
  <2>5. ASSUME NEW i \in 1..(k + 1)
        PROVE  g[i] = step[i][g[i - 1]]
    <3>1. CASE i = k + 1
      BY <3>1
    <3>2. CASE i # k + 1
      <4>1. i \in 1..k /\ i - 1 \in 0..k /\ i - 1 # k + 1 /\ i \in 0..(k + 1) /\ i - 1 \in 0..(k + 1)
        BY <3>2
      <4> QED
        BY <2>1, <3>2, <4>1
    <3> QED
      BY <3>1, <3>2
  <2> HIDE DEF g
  <2>6. Upto(k + 1)
    BY <2>3, <2>4, <2>5
  <2> QED
    BY <2>6
<1>3. 0..n \subseteq T
  <2> HIDE DEF T
  <2> QED
    BY <1>1, <1>2, UptoInduction
<1>4. n \in T
  BY <1>3
<1> QED
  BY <1>4 DEF Follows

\* A set that has the empty sequence, and with a sequence all that are longer by one
\* element, has every sequence.
LEMMA SeqInduction ==
  ASSUME NEW S, NEW T, <<>> \in T, \A s \in Seq(S) : s \in T => \A e \in S : Append(s, e) \in T
  PROVE  Seq(S) \subseteq T
<1> DEFINE U == {k \in Nat : \A s \in Seq(S) : Len(s) = k => s \in T}
<1>1. 0 \in U
  BY EmptySeq
<1>2. ASSUME NEW k \in Nat, k \in U
      PROVE  k + 1 \in U
  <2> SUFFICES ASSUME NEW s \in Seq(S), Len(s) = k + 1
               PROVE  s \in T
    OBVIOUS
  <2>1. s # <<>>
    BY EmptySeq
  <2>2. PICK s2 \in Seq(S), e \in S : s = Append(s2, e)
    BY <2>1, SequenceEmptyOrAppend
  <2>3. Len(s2) = k
    BY <2>2, AppendProperties, LenProperties
  <2> QED
    BY <1>2, <2>2, <2>3
<1>3. Nat \subseteq U
  <2> HIDE DEF U
  <2> QED
    BY <1>1, <1>2, SetInduction
<1> QED
  BY <1>3, LenProperties

(***************************************************************************)
(* Mailboxes.                                                              *)
(***************************************************************************)
\* x is in the sequence s.
Holds(s, x) == \E i \in DOMAIN s : s[i] = x

\* x is nowhere in s but in front.
InFront(s, x) == \A i \in DOMAIN s : s[i] = x => i = 1

\* How many elements of s are in the set A.
Places(s, A) == {i \in DOMAIN s : s[i] \in A}
Tally(s, A) == Cardinality(Places(s, A))

\* The empty mailbox.
LEMMA EmptyBox ==
  ASSUME NEW x, NEW A
  PROVE  ~Holds(<<>>, x) /\ InFront(<<>>, x) /\ Tally(<<>>, A) = 0
<1>1. DOMAIN <<>> = {}
  OBVIOUS
<1>2. Places(<<>>, A) = {}
  BY <1>1 DEF Places
<1> QED
  BY <1>1, <1>2, FS_EmptySet DEF Holds, InFront, Tally

\* The indices of a tail.
LEMMA TailIndices ==
  ASSUME NEW S, NEW s \in Seq(S), s # <<>>
  PROVE  /\ Tail(s) \in Seq(S) /\ Head(s) = s[1]
         /\ Len(s) \in Nat \ {0}
         /\ DOMAIN s = 1..Len(s) /\ DOMAIN Tail(s) = 1..(Len(s) - 1)
         /\ \A i \in DOMAIN Tail(s) : i + 1 \in DOMAIN s /\ i + 1 # 1 /\ Tail(s)[i] = s[i + 1]
         /\ \A i \in DOMAIN s : i # 1 => i - 1 \in DOMAIN Tail(s) /\ Tail(s)[i - 1] = s[i]
<1>1. Len(s) \in Nat \ {0} /\ DOMAIN s = 1..Len(s)
  BY EmptySeq, LenProperties
<1>2. /\ Tail(s) \in Seq(S) /\ Len(Tail(s)) = Len(s) - 1
      /\ \A i \in 1..Len(Tail(s)) : Tail(s)[i] = s[i + 1]
  BY HeadTailProperties
<1>3. DOMAIN Tail(s) = 1..(Len(s) - 1)
  BY <1>2, LenProperties
<1>4. Head(s) = s[1]
  BY <1>1
<1>5. \A i \in DOMAIN Tail(s) : i + 1 \in DOMAIN s /\ i + 1 # 1 /\ Tail(s)[i] = s[i + 1]
  BY <1>1, <1>2, <1>3
<1>6. \A i \in DOMAIN s : i # 1 => i - 1 \in DOMAIN Tail(s) /\ Tail(s)[i - 1] = s[i]
  BY <1>1, <1>2, <1>3
<1> QED
  BY <1>1, <1>2, <1>3, <1>4, <1>5, <1>6

\* The indices of a concatenation.
LEMMA ConcatIndices ==
  ASSUME NEW S, NEW s \in Seq(S), NEW t \in Seq(S)
  PROVE  /\ s \o t \in Seq(S)
         /\ Len(s) \in Nat /\ Len(t) \in Nat
         /\ DOMAIN s = 1..Len(s) /\ DOMAIN t = 1..Len(t)
         /\ DOMAIN (s \o t) = 1..(Len(s) + Len(t))
         /\ \A i \in DOMAIN s : i \in DOMAIN (s \o t) /\ (s \o t)[i] = s[i]
         /\ \A i \in DOMAIN t : i + Len(s) \in DOMAIN (s \o t) /\ (s \o t)[i + Len(s)] = t[i]
         /\ \A i \in DOMAIN (s \o t) :
              \/ i \in DOMAIN s /\ (s \o t)[i] = s[i]
              \/ i - Len(s) \in DOMAIN t /\ (s \o t)[i] = t[i - Len(s)]
<1>1. /\ s \o t \in Seq(S) /\ Len(s \o t) = Len(s) + Len(t)
      /\ \A i \in 1..(Len(s) + Len(t)) :
           (s \o t)[i] = IF i <= Len(s) THEN s[i] ELSE t[i - Len(s)]
  BY ConcatProperties
<1>2. /\ Len(s) \in Nat /\ Len(t) \in Nat
      /\ DOMAIN s = 1..Len(s) /\ DOMAIN t = 1..Len(t)
      /\ DOMAIN (s \o t) = 1..(Len(s) + Len(t))
  BY <1>1, LenProperties
<1> QED
  BY <1>1, <1>2

\* What a mailbox holds after its first message has been taken.
LEMMA TakenHolds ==
  ASSUME NEW S, NEW s \in Seq(S), s # <<>>, NEW x
  PROVE  /\ Holds(s, Head(s))
         /\ Holds(Tail(s), x) => Holds(s, x)
         /\ Holds(s, x) /\ Head(s) # x => Holds(Tail(s), x)
         /\ InFront(s, x) => ~Holds(Tail(s), x)
<1> USE TailIndices DEF Holds, InFront
<1>1. Holds(s, Head(s))
  OBVIOUS
<1>2. Holds(Tail(s), x) => Holds(s, x)
  OBVIOUS
<1>3. Holds(s, x) /\ Head(s) # x => Holds(Tail(s), x)
  <2> SUFFICES ASSUME NEW i \in DOMAIN s, s[i] = x, Head(s) # x
               PROVE  Holds(Tail(s), x)
    OBVIOUS
  <2>1. i # 1
    OBVIOUS
  <2>2. i - 1 \in DOMAIN Tail(s) /\ Tail(s)[i - 1] = x
    BY <2>1
  <2> QED
    BY <2>2
<1>4. InFront(s, x) => ~Holds(Tail(s), x)
  OBVIOUS
<1> QED
  BY <1>1, <1>2, <1>3, <1>4

\* What a mailbox holds after messages have been added.
LEMMA AddedHolds ==
  ASSUME NEW S, NEW s \in Seq(S), NEW t \in Seq(S), NEW x
  PROVE  /\ Holds(s \o t, x) <=> Holds(s, x) \/ Holds(t, x)
         /\ InFront(s, x) /\ ~Holds(t, x) => InFront(s \o t, x)
<1> USE ConcatIndices DEF Holds, InFront
<1>0. Holds(s, x) => Holds(s \o t, x)
  OBVIOUS
<1>1. Holds(t, x) => Holds(s \o t, x)
  <2> SUFFICES ASSUME NEW i \in DOMAIN t, t[i] = x
               PROVE  Holds(s \o t, x)
    OBVIOUS
  <2>1. i + Len(s) \in DOMAIN (s \o t) /\ (s \o t)[i + Len(s)] = x
    OBVIOUS
  <2> QED
    BY <2>1
<1>2. Holds(s \o t, x) => Holds(s, x) \/ Holds(t, x)
  OBVIOUS
<1>3. InFront(s, x) /\ ~Holds(t, x) => InFront(s \o t, x)
  OBVIOUS
<1> QED
  BY <1>0, <1>1, <1>2, <1>3

\* The same for a single message.
LEMMA AppendedHolds ==
  ASSUME NEW S, NEW s \in Seq(S), NEW e \in S, NEW x
  PROVE  /\ Append(s, e) \in Seq(S) /\ Append(s, e) # <<>>
         /\ Holds(Append(s, e), x) <=> Holds(s, x) \/ e = x
         /\ InFront(s, x) /\ e # x => InFront(Append(s, e), x)
<1>1. <<e>> \in Seq(S) /\ Append(s, e) = s \o <<e>>
  BY AppendIsConcat
<1>2. Holds(<<e>>, x) <=> e = x
  BY DEF Holds
<1>3. /\ Holds(s \o <<e>>, x) <=> Holds(s, x) \/ Holds(<<e>>, x)
      /\ InFront(s, x) /\ ~Holds(<<e>>, x) => InFront(s \o <<e>>, x)
  BY <1>1, AddedHolds
<1>4. Append(s, e) \in Seq(S) /\ Append(s, e) # <<>>
  BY AppendProperties
<1> QED
  BY <1>1, <1>2, <1>3, <1>4
-----------------------------------------------------------------------------
\* A tally is a number.
LEMMA TallyType ==
  ASSUME NEW S, NEW s \in Seq(S), NEW A
  PROVE  /\ IsFiniteSet(Places(s, A)) /\ Tally(s, A) \in Nat
         /\ Tally(s, A) = 0 <=> \A i \in DOMAIN s : s[i] \notin A
<1>1. Len(s) \in Nat /\ DOMAIN s = 1..Len(s)
  BY LenProperties
<1>2. IsFiniteSet(1..Len(s))
  BY <1>1, FS_Interval
<1>3. IsFiniteSet(Places(s, A))
  BY <1>1, <1>2, FS_Subset DEF Places
<1>4. Tally(s, A) \in Nat /\ (Tally(s, A) = 0 <=> Places(s, A) = {})
  BY <1>3, FS_CardinalityType, FS_EmptySet DEF Tally
<1> QED
  BY <1>3, <1>4 DEF Places

\* Moving the places of a sequence by n does not change their number.
LEMMA Shifted ==
  ASSUME NEW P \in SUBSET Int, IsFiniteSet(P), NEW Q \in SUBSET Int, NEW n \in Int,
         \A i \in P : i + n \in Q, \A j \in Q : j - n \in P
  PROVE  IsFiniteSet(Q) /\ Cardinality(Q) = Cardinality(P)
<1> DEFINE f == [i \in P |-> i + n]
<1>1. f \in [P -> Q]
  OBVIOUS
<1>2. \A a, b \in P : f[a] = f[b] => a = b
  OBVIOUS
<1>3. \A j \in Q : \E i \in P : f[i] = j
  <2> TAKE j \in Q
  <2>1. j - n \in P /\ f[j - n] = j
    OBVIOUS
  <2> QED
    BY <2>1
<1>4. f \in Bijection(P, Q)
  BY <1>1, <1>2, <1>3 DEF Bijection, Injection, Surjection, IsInjective
<1> QED
  BY <1>4, FS_Bijection DEF ExistsBijection

\* Taking the first message.
LEMMA TakenTally ==
  ASSUME NEW S, NEW s \in Seq(S), s # <<>>, NEW A
  PROVE  /\ Tally(s, A) \in Nat /\ Tally(Tail(s), A) \in Nat
         /\ Tally(s, A) = Tally(Tail(s), A) + (IF Head(s) \in A THEN 1 ELSE 0)
<1> DEFINE P == Places(Tail(s), A)
           Q == Places(s, A) \ {1}
<1>1. P \in SUBSET Int /\ Q \in SUBSET Int
  BY TailIndices DEF Places
<1>2. \A i \in P : i + 1 \in Q
  BY TailIndices DEF Places
<1>3. \A j \in Q : j - 1 \in P
  BY TailIndices DEF Places
<1>4. IsFiniteSet(P) /\ IsFiniteSet(Places(s, A))
  BY TailIndices, TallyType
<1>5. Cardinality(Q) = Cardinality(P)
  <2> HIDE DEF P, Q
  <2> QED
    BY <1>1, <1>2, <1>3, <1>4, Shifted
<1>6. 1 \in Places(s, A) <=> Head(s) \in A
  BY TailIndices DEF Places
<1>7. Cardinality(Q) = IF 1 \in Places(s, A) THEN Tally(s, A) - 1 ELSE Tally(s, A)
  BY <1>4, FS_RemoveElement DEF Tally
<1>8. Tally(s, A) \in Nat /\ Tally(Tail(s), A) \in Nat
  BY TailIndices, TallyType
<1> QED
  BY <1>5, <1>6, <1>7, <1>8 DEF Tally

\* Adding messages.
LEMMA AddedTally ==
  ASSUME NEW S, NEW s \in Seq(S), NEW t \in Seq(S), NEW A
  PROVE  /\ Tally(s, A) \in Nat /\ Tally(t, A) \in Nat
         /\ Tally(s \o t, A) = Tally(s, A) + Tally(t, A)
<1> DEFINE P == Places(s, A)
           Q == Places(t, A)
           R == Places(s \o t, A) \ P
<1>1. P \in SUBSET Int /\ Q \in SUBSET Int /\ R \in SUBSET Int
  BY ConcatIndices DEF Places
<1>2. \A i \in Q : i + Len(s) \in R
  BY ConcatIndices DEF Places
<1>3. \A j \in R : j - Len(s) \in Q
  BY ConcatIndices DEF Places
<1>4. IsFiniteSet(P) /\ IsFiniteSet(Q) /\ Tally(s, A) \in Nat /\ Tally(t, A) \in Nat
  BY TallyType
<1>5. IsFiniteSet(R) /\ Cardinality(R) = Cardinality(Q)
  <2>1. Len(s) \in Int
    BY ConcatIndices
  <2> HIDE DEF Q, R
  <2> QED
    BY <1>1, <1>2, <1>3, <1>4, <2>1, Shifted
<1>6. P \cap R = {} /\ P \cup R = Places(s \o t, A)
  BY ConcatIndices DEF Places
<1>7. Cardinality(P \cup R) = Cardinality(P) + Cardinality(R) - Cardinality(P \cap R)
  BY <1>4, <1>5, FS_Union
<1>8. Tally(s \o t, A) = Cardinality(P) + Cardinality(Q) - 0
  BY <1>5, <1>6, <1>7, FS_EmptySet DEF Tally
<1> QED
  BY <1>4, <1>8 DEF Tally

\* The same for a single message.
LEMMA AppendedTally ==
  ASSUME NEW S, NEW s \in Seq(S), NEW e \in S, NEW A
  PROVE  /\ Tally(s, A) \in Nat
         /\ e \in A => Tally(Append(s, e), A) = Tally(s, A) + 1
         /\ e \notin A => Tally(Append(s, e), A) = Tally(s, A)
<1>1. <<e>> \in Seq(S) /\ Append(s, e) = s \o <<e>>
  BY AppendIsConcat
<1>2. Places(<<e>>, A) = IF e \in A THEN {1} ELSE {}
  BY DEF Places
<1>3. Tally(<<e>>, A) = IF e \in A THEN 1 ELSE 0
  BY <1>2, FS_Singleton, FS_EmptySet DEF Tally
<1>4. Tally(s, A) \in Nat /\ Tally(s \o <<e>>, A) = Tally(s, A) + Tally(<<e>>, A)
  BY <1>1, AddedTally
<1> QED
  BY <1>1, <1>3, <1>4
-----------------------------------------------------------------------------
\* The first element of t moves to the end of s.
LEMMA Forwarded ==
  ASSUME NEW S, NEW s \in Seq(S), NEW t \in Seq(S), t # <<>>
  PROVE  Append(s, Head(t)) \o Tail(t) = s \o t
<1>1. /\ Len(t) \in Nat \ {0} /\ Head(t) = t[1] /\ Head(t) \in S /\ Tail(t) \in Seq(S)
  BY TailIndices, HeadTailProperties
<1>2. 1 \in 1..Len(t) /\ Len(t) \in 1..Len(t)
  BY <1>1
<1>3. SubSeq(t, 1, Len(t)) = <<t[1]>> \o SubSeq(t, 1 + 1, Len(t))
  BY <1>2, SubSeqRecursiveFirst
<1>4. t = <<Head(t)>> \o Tail(t)
  BY <1>1, <1>3, SubSeqFull, TailIsSubSeq
<1>5. <<Head(t)>> \in Seq(S)
  BY <1>1
<1>6. Append(s, Head(t)) \o Tail(t) = (s \o <<Head(t)>>) \o Tail(t)
  BY <1>1, AppendIsConcat
<1>7. (s \o <<Head(t)>>) \o Tail(t) = s \o (<<Head(t)>> \o Tail(t))
  BY <1>1, <1>5, ConcatAssociative
<1> QED
  BY <1>4, <1>6, <1>7

\* An element is added to the second of two sequences.
LEMMA AppendedBehind ==
  ASSUME NEW S, NEW s \in Seq(S), NEW t \in Seq(S), NEW e \in S
  PROVE  s \o Append(t, e) = Append(s \o t, e)
<1>1. <<e>> \in Seq(S) /\ s \o t \in Seq(S)
  BY ConcatProperties
<1>2. Append(t, e) = t \o <<e>> /\ Append(s \o t, e) = (s \o t) \o <<e>>
  BY <1>1, AppendIsConcat
<1> QED
  BY <1>1, <1>2, ConcatAssociative

\* A sequence without its first element, and one without its second part.
LEMMA CutOut ==
  ASSUME NEW S, NEW s \in Seq(S), NEW t \in Seq(S)
  PROVE  /\ s # <<>> => SubSeq(s, 1, 0) \o SubSeq(s, 1 + 1, Len(s)) = Tail(s)
         /\ SubSeq(s \o t, 1, Len(s)) \o SubSeq(s \o t, Len(s \o t) + 1, Len(s \o t)) = s
<1>1. ASSUME s # <<>>
      PROVE  SubSeq(s, 1, 0) \o SubSeq(s, 1 + 1, Len(s)) = Tail(s)
  <2>1. SubSeq(s, 1, 0) = <<>>
    BY SubSeqEmpty
  <2>2. Tail(s) \in Seq(S) /\ Tail(s) = SubSeq(s, 1 + 1, Len(s))
    BY <1>1, HeadTailProperties, TailIsSubSeq
  <2> QED
    BY <2>1, <2>2, ConcatEmptySeq
<1>2. SubSeq(s \o t, 1, Len(s)) \o SubSeq(s \o t, Len(s \o t) + 1, Len(s \o t)) = s
  <2>1. s \o t \in Seq(S) /\ Len(s) \in Nat /\ Len(s \o t) \in Nat
    BY ConcatProperties, LenProperties
  <2>2. SubSeq(s \o t, Len(s \o t) + 1, Len(s \o t)) = <<>>
    BY <2>1, SubSeqEmpty
  <2>3. SubSeq(s \o t, 1, Len(s)) = s
    <3>1. CASE s = <<>>
      <4>1. Len(s) < 1
        BY <3>1
      <4>2. SubSeq(s \o t, 1, Len(s)) = <<>>
        BY <2>1, <4>1, SubSeqEmpty
      <4> QED
        BY <3>1, <4>2
    <3>2. CASE s # <<>>
      <4>1. 1 \in 1..Len(s) /\ Len(s) \in 1..Len(s)
        BY <3>2, EmptySeq
      <4>2. SubSeq(s \o t, 1, Len(s)) = SubSeq(s, 1, Len(s))
        BY <4>1, SubSeqOfConcat1
      <4> QED
        BY <4>2, SubSeqFull
    <3> QED
      BY <3>1, <3>2
  <2> QED
    BY <2>2, <2>3, ConcatEmptySeq
<1> QED
  BY <1>1, <1>2
\* The first element of a concatenation.
LEMMA ConcatHeadTail ==
  ASSUME NEW S, NEW s \in Seq(S), NEW t \in Seq(S), s # <<>>
  PROVE  /\ s \o t \in Seq(S) /\ s \o t # <<>>
         /\ Head(s \o t) = Head(s) /\ Tail(s \o t) = Tail(s) \o t
<1>1. /\ s \o t \in Seq(S) /\ Len(s) \in Nat \ {0} /\ Len(t) \in Nat
      /\ Len(s \o t) = Len(s) + Len(t)
      /\ \A i \in 1..(Len(s) + Len(t)) :
           (s \o t)[i] = IF i <= Len(s) THEN s[i] ELSE t[i - Len(s)]
  BY ConcatProperties, EmptySeq, LenProperties
<1>2. s \o t # <<>> /\ Head(s \o t) = Head(s)
  BY <1>1
<1>3. /\ Tail(s) \in Seq(S) /\ Len(Tail(s)) = Len(s) - 1
      /\ \A i \in 1..Len(Tail(s)) : Tail(s)[i] = s[i + 1]
  BY HeadTailProperties
<1>4. /\ Tail(s) \o t \in Seq(S) /\ Len(Tail(s) \o t) = Len(Tail(s)) + Len(t)
      /\ \A i \in 1..(Len(Tail(s)) + Len(t)) :
           (Tail(s) \o t)[i] = IF i <= Len(Tail(s)) THEN Tail(s)[i] ELSE t[i - Len(Tail(s))]
  BY <1>3, ConcatProperties
<1>5. /\ Tail(s \o t) \in Seq(S) /\ Len(Tail(s \o t)) = Len(s \o t) - 1
      /\ \A i \in 1..Len(Tail(s \o t)) : Tail(s \o t)[i] = (s \o t)[i + 1]
  BY <1>1, <1>2, HeadTailProperties
<1>6. Len(Tail(s \o t)) = Len(Tail(s) \o t)
  BY <1>1, <1>3, <1>4, <1>5
<1>7. \A i \in 1..Len(Tail(s \o t)) : Tail(s \o t)[i] = (Tail(s) \o t)[i]
  <2> TAKE i \in 1..Len(Tail(s \o t))
  <2>1. Tail(s \o t)[i] = IF i + 1 <= Len(s) THEN s[i + 1] ELSE t[i + 1 - Len(s)]
    BY <1>1, <1>5
  <2>2. (Tail(s) \o t)[i] = IF i <= Len(Tail(s)) THEN Tail(s)[i] ELSE t[i - Len(Tail(s))]
    BY <1>1, <1>3, <1>4, <1>5
  <2>3. CASE i <= Len(Tail(s))
    BY <1>1, <1>3, <2>1, <2>2, <2>3
  <2>4. CASE ~(i <= Len(Tail(s)))
    <3>1. i + 1 - Len(s) = i - Len(Tail(s))
      BY <1>1, <1>3
    <3> QED
      BY <1>1, <1>3, <2>1, <2>2, <2>4, <3>1
  <2> QED
    BY <2>3, <2>4
<1>8. Tail(s \o t) = Tail(s) \o t
  BY <1>4, <1>5, <1>6, <1>7, SeqEqual
<1> QED
  BY <1>1, <1>2, <1>8
=============================================================================
