----------------------------- MODULE ByteProofs -----------------------------
(***************************************************************************)
(* What is done with streams of bytes is right for every way in which they *)
(* are cut.                                                                *)
(*                                                                         *)
(* The assembly of lines, for every alphabet, every size of the buffer,    *)
(* every number of bytes and every way in which they are cut into reads.   *)
(*                                                                         *)
(* The digests of the hash-library, for every class, every message and     *)
(* every way in which it is cut into calls of add().                       *)
(***************************************************************************)
EXTENDS LineInput, Hashing, SharedLemmas

\* An element behind two sequences is one behind the second.
LEMMA ConcatAppend ==
  ASSUME NEW B, NEW s \in Seq(B), NEW t \in Seq(B), NEW e \in B
  PROVE  s \o Append(t, e) = Append(s \o t, e)
<1>1. <<e>> \in Seq(B) /\ Append(t, e) = t \o <<e>>
  BY AppendIsConcat
<1>2. s \o t \in Seq(B)
  BY ConcatProperties
<1>3. Append(s \o t, e) = (s \o t) \o <<e>>
  BY <1>2, AppendIsConcat
<1>4. s \o (t \o <<e>>) = (s \o t) \o <<e>>
  BY <1>1, ConcatAssociative
<1> QED
  BY <1>1, <1>3, <1>4

(***************************************************************************)
(* The loops of sanitize and lite_sanitize.                                *)
(***************************************************************************)
\* Kept is the function its definition says.
LEMMA KeptLaw ==
  ASSUME NEW B, NEW s \in Seq(B), NEW S
  PROVE  /\ Kept(s, S) \in [0..Len(s) -> Seq(B)]
         /\ Kept(s, S)[0] = <<>>
         /\ \A i \in 1..Len(s) : Kept(s, S)[i] = IF s[i] \in S THEN Append(Kept(s, S)[i - 1], s[i])
                                                 ELSE Kept(s, S)[i - 1]
<1>0. PICK n \in Nat : n = Len(s) /\ \A i \in 1..n : s[i] \in B
  BY LenProperties, ElementOfSeq
<1>1. PICK Q : Q = Seq(B)
  OBVIOUS
<1>2. <<>> \in Q /\ \A x \in Q, e \in B : Append(x, e) \in Q
  BY <1>1, EmptySeq, AppendProperties
<1>3. PICK step : step = [i \in 0..n |-> [x \in Q |-> IF i \in 1..n /\ s[i] \in S THEN Append(x, s[i]) ELSE x]]
  OBVIOUS
<1>4. IsSteps(n, Q, <<>>, step)
  <2>1. \A i \in 0..n : \A x \in Q : (IF i \in 1..n /\ s[i] \in S THEN Append(x, s[i]) ELSE x) \in Q
    BY <1>0, <1>2
  <2>2. step \in [0..n -> [Q -> Q]]
    BY <1>3, <2>1
  <2> QED
    BY <1>2, <2>2 DEF IsSteps
<1>5. PICK h : Follows(n, Q, <<>>, step, h)
  BY <1>4, RecursionExists
<1>6. h \in [0..n -> Q] /\ h[0] = <<>> /\ \A i \in 1..n : h[i] = step[i][h[i - 1]]
  BY <1>5 DEF Follows
<1>7. \A i \in 1..n : i \in 0..n /\ i - 1 \in 0..n /\ i # 0
  OBVIOUS
<1>8. \A i \in 0..n : h[i] = IF i = 0 THEN <<>>
                             ELSE IF s[i] \in S THEN Append(h[i - 1], s[i]) ELSE h[i - 1]
  <2>1. \A i \in 1..n : h[i - 1] \in Q
    BY <1>6, <1>7
  <2>2. \A i \in 1..n : step[i][h[i - 1]] = IF s[i] \in S THEN Append(h[i - 1], s[i]) ELSE h[i - 1]
    BY <1>3, <1>7, <2>1
  <2>3. \A i \in 0..n : i # 0 => i \in 1..n
    OBVIOUS
  <2> QED
    BY <1>6, <2>2, <2>3
<1>9. h = [i \in 0..Len(s) |-> IF i = 0 THEN <<>>
                               ELSE IF s[i] \in S THEN Append(h[i - 1], s[i]) ELSE h[i - 1]]
  BY <1>0, <1>6, <1>8
<1>10. Kept(s, S) = [i \in 0..Len(s) |->
          IF i = 0 THEN <<>>
          ELSE IF s[i] \in S THEN Append(Kept(s, S)[i - 1], s[i]) ELSE Kept(s, S)[i - 1]]
  BY <1>9, Zenon DEF Kept
<1>11. PICK u : u = Kept(s, S)
  OBVIOUS
<1>12. u = [i \in 0..n |-> IF i = 0 THEN <<>> ELSE IF s[i] \in S THEN Append(u[i - 1], s[i]) ELSE u[i - 1]]
  BY <1>0, <1>10, <1>11
<1>13. /\ u[0] = <<>>
       /\ \A i \in 1..n : u[i] = IF s[i] \in S THEN Append(u[i - 1], s[i]) ELSE u[i - 1]
  <2>1. 0 \in 0..n
    OBVIOUS
  <2> QED
    BY <1>7, <1>12, <2>1
<1>14. 0..n \subseteq {i \in 0..n : u[i] \in Q}
  <2> DEFINE T == {i \in 0..n : u[i] \in Q}
  <2>1. 0 \in T
    BY <1>2, <1>13
  <2>2. ASSUME NEW k \in 0..(n - 1), k \in T
        PROVE  k + 1 \in T
    <3>1. k + 1 \in 1..n /\ k + 1 \in 0..n /\ (k + 1) - 1 = k
      OBVIOUS
    <3>2. u[k + 1] = IF s[k + 1] \in S THEN Append(u[k], s[k + 1]) ELSE u[k]
      BY <1>13, <3>1
    <3>3. u[k + 1] \in Q
      BY <1>0, <1>2, <2>2, <3>1, <3>2
    <3> QED
      BY <3>1, <3>3
  <2> HIDE DEF T
  <2>3. 0..n \subseteq T
    BY <2>1, <2>2, UptoInduction
  <2> QED
    BY <2>3 DEF T
<1>15. u \in [0..n -> Q]
  BY <1>12, <1>14
<1> QED
  BY <1>0, <1>1, <1>11, <1>13, <1>15

\* Of nothing, nothing is kept.
LEMMA KeepEmpty ==
  ASSUME NEW S
  PROVE  Keep(<<>>, S) = <<>>
<1>1. PICK s \in Seq(S) : s = <<>>
  BY EmptySeq
<1>2. Len(s) = 0
  BY <1>1, EmptySeq
<1>3. Kept(s, S)[0] = <<>>
  BY KeptLaw
<1> QED
  BY <1>1, <1>2, <1>3 DEF Keep

\* The loop goes on with one more element.
LEMMA KeepAppend ==
  ASSUME NEW B, NEW S, NEW s \in Seq(B), NEW e \in B
  PROVE  /\ e \in S => Keep(Append(s, e), S) = Append(Keep(s, S), e)
         /\ e \notin S => Keep(Append(s, e), S) = Keep(s, S)
<1>0. PICK n \in Nat : n = Len(s)
  BY LenProperties
<1>1. PICK t \in Seq(B) : t = Append(s, e)
  BY AppendProperties
<1>2. Len(t) = n + 1 /\ t[n + 1] = e /\ \A i \in 1..n : t[i] = s[i]
  BY <1>0, <1>1, AppendProperties
<1>3. PICK a : a = Kept(s, S)
  OBVIOUS
<1>4. PICK b : b = Kept(t, S)
  OBVIOUS
<1>5. a[0] = <<>> /\ \A i \in 1..n : a[i] = IF s[i] \in S THEN Append(a[i - 1], s[i]) ELSE a[i - 1]
  BY <1>0, <1>3, KeptLaw
<1>6. b[0] = <<>> /\ \A i \in 1..(n + 1) : b[i] = IF t[i] \in S THEN Append(b[i - 1], t[i]) ELSE b[i - 1]
  <2>1. b[0] = <<>> /\ \A i \in 1..Len(t) : b[i] = IF t[i] \in S THEN Append(b[i - 1], t[i]) ELSE b[i - 1]
    BY <1>4, KeptLaw
  <2> QED
    BY <1>2, <2>1
<1>7. 0..n \subseteq {i \in 0..n : a[i] = b[i]}
  <2> DEFINE T == {i \in 0..n : a[i] = b[i]}
  <2>1. 0 \in T
    BY <1>5, <1>6
  <2>2. ASSUME NEW k \in 0..(n - 1), k \in T
        PROVE  k + 1 \in T
    <3>1. k + 1 \in 1..n /\ k + 1 \in 0..n /\ (k + 1) - 1 = k /\ k + 1 \in 1..(n + 1)
      OBVIOUS
    <3>2. a[k + 1] = IF s[k + 1] \in S THEN Append(a[k], s[k + 1]) ELSE a[k]
      BY <1>5, <3>1
    <3>3. b[k + 1] = IF s[k + 1] \in S THEN Append(b[k], s[k + 1]) ELSE b[k]
      BY <1>2, <1>6, <3>1
    <3> QED
      BY <2>2, <3>1, <3>2, <3>3
  <2> HIDE DEF T
  <2>3. 0..n \subseteq T
    BY <2>1, <2>2, UptoInduction
  <2> QED
    BY <2>3 DEF T
<1>8. a[n] = b[n]
  BY <1>7
<1>9. b[n + 1] = IF e \in S THEN Append(b[n], e) ELSE b[n]
  <2>1. n + 1 \in 1..(n + 1) /\ (n + 1) - 1 = n
    OBVIOUS
  <2> QED
    BY <1>2, <1>6, <2>1
<1>10. Keep(s, S) = a[n] /\ Keep(t, S) = b[n + 1]
  BY <1>0, <1>2, <1>3, <1>4 DEF Keep
<1> QED
  BY <1>1, <1>8, <1>9, <1>10

\* Only elements of S are kept.
LEMMA KeepType ==
  ASSUME NEW B, NEW S, NEW s \in Seq(B)
  PROVE  Keep(s, S) \in Seq(S) /\ Keep(s, S) \in Seq(B)
<1> DEFINE T == {x \in Seq(B) : Keep(x, S) \in Seq(S) /\ Keep(x, S) \in Seq(B)}
<1>1. <<>> \in T
  BY EmptySeq, KeepEmpty
<1>2. ASSUME NEW x \in Seq(B), x \in T, NEW e \in B
      PROVE  Append(x, e) \in T
  <2>1. /\ e \in S => Keep(Append(x, e), S) = Append(Keep(x, S), e)
        /\ e \notin S => Keep(Append(x, e), S) = Keep(x, S)
    BY KeepAppend
  <2>2. Keep(x, S) \in Seq(S) /\ Keep(x, S) \in Seq(B) /\ Append(x, e) \in Seq(B)
    BY <1>2, AppendProperties
  <2>3. Append(Keep(x, S), e) \in Seq(B)
    BY <2>2, AppendProperties
  <2>4. e \in S => Append(Keep(x, S), e) \in Seq(S)
    BY <2>2, AppendProperties
  <2> QED
    BY <2>1, <2>2, <2>3, <2>4
<1> HIDE DEF T
<1>3. Seq(B) \subseteq T
  BY <1>1, <1>2, SeqInduction
<1>4. s \in T
  BY <1>3
<1> QED
  BY <1>4 DEF T

\* What is kept of two parts, one after the other.
LEMMA KeepConcat ==
  ASSUME NEW B, NEW S, NEW s \in Seq(B), NEW t \in Seq(B)
  PROVE  Keep(s \o t, S) = Keep(s, S) \o Keep(t, S)
<1> DEFINE T == {x \in Seq(B) : Keep(s \o x, S) = Keep(s, S) \o Keep(x, S)}
<1>0. Keep(s, S) \in Seq(B)
  BY KeepType
<1>1. <<>> \in T
  <2>1. s \o <<>> = s /\ Keep(s, S) \o <<>> = Keep(s, S)
    BY <1>0, ConcatEmptySeq
  <2> QED
    BY <2>1, EmptySeq, KeepEmpty
<1>2. ASSUME NEW x \in Seq(B), x \in T, NEW e \in B
      PROVE  Append(x, e) \in T
  <2>1. PICK y \in Seq(B) : y = s \o x
    BY ConcatProperties
  <2>2. s \o Append(x, e) = Append(y, e)
    BY <2>1, ConcatAppend
  <2>3. /\ e \in S => Keep(Append(y, e), S) = Append(Keep(y, S), e)
        /\ e \notin S => Keep(Append(y, e), S) = Keep(y, S)
    BY KeepAppend
  <2>4. /\ e \in S => Keep(Append(x, e), S) = Append(Keep(x, S), e)
        /\ e \notin S => Keep(Append(x, e), S) = Keep(x, S)
    BY KeepAppend
  <2>5. PICK a \in Seq(B), b \in Seq(B) : a = Keep(s, S) /\ b = Keep(x, S)
    BY KeepType
  <2>6. Keep(y, S) = a \o b
    BY <1>2, <2>1, <2>5
  <2>7. a \o Append(b, e) = Append(a \o b, e)
    BY ConcatAppend
  <2>8. Append(x, e) \in Seq(B)
    BY AppendProperties
  <2> QED
    BY <2>2, <2>3, <2>4, <2>5, <2>6, <2>7, <2>8
<1> HIDE DEF T
<1>3. Seq(B) \subseteq T
  BY <1>1, <1>2, SeqInduction
<1>4. t \in T
  BY <1>3
<1> QED
  BY <1>4 DEF T

\* To keep the elements of S and of those the ones in U is to keep those in U.
LEMMA KeepKeep ==
  ASSUME NEW B, NEW S, NEW U \in SUBSET S, NEW s \in Seq(B)
  PROVE  Keep(Keep(s, S), U) = Keep(s, U)
<1> DEFINE T == {x \in Seq(B) : Keep(Keep(x, S), U) = Keep(x, U)}
<1>1. <<>> \in T
  BY EmptySeq, KeepEmpty
<1>2. ASSUME NEW x \in Seq(B), x \in T, NEW e \in B
      PROVE  Append(x, e) \in T
  <2>1. /\ e \in S => Keep(Append(x, e), S) = Append(Keep(x, S), e)
        /\ e \notin S => Keep(Append(x, e), S) = Keep(x, S)
    BY KeepAppend
  <2>2. /\ e \in U => Keep(Append(x, e), U) = Append(Keep(x, U), e)
        /\ e \notin U => Keep(Append(x, e), U) = Keep(x, U)
    BY KeepAppend
  <2>3. PICK y \in Seq(B) : y = Keep(x, S)
    BY KeepType
  <2>4. /\ e \in U => Keep(Append(y, e), U) = Append(Keep(y, U), e)
        /\ e \notin U => Keep(Append(y, e), U) = Keep(y, U)
    BY KeepAppend
  <2>5. Keep(y, U) = Keep(x, U)
    BY <1>2, <2>3
  <2>6. Append(x, e) \in Seq(B)
    BY AppendProperties
  <2> QED
    BY <2>1, <2>2, <2>3, <2>4, <2>5, <2>6
<1> HIDE DEF T
<1>3. Seq(B) \subseteq T
  BY <1>1, <1>2, SeqInduction
<1>4. s \in T
  BY <1>3
<1> QED
  BY <1>4 DEF T

\* c is kept if it is in S.
LEMMA KeepContains ==
  ASSUME NEW B, NEW S, NEW s \in Seq(B), NEW c \in S
  PROVE  Contains(Keep(s, S), c) <=> Contains(s, c)
<1>0. ASSUME NEW x \in Seq(B), NEW e \in B
      PROVE  Contains(Append(x, e), c) <=> Contains(x, c) \/ e = c
  <2>1. PICK n \in Nat : n = Len(x)
    BY LenProperties
  <2>2. PICK y : y = Append(x, e)
    OBVIOUS
  <2>3. Len(y) = n + 1 /\ y[n + 1] = e /\ \A i \in 1..n : y[i] = x[i]
    BY <2>1, <2>2, AppendProperties
  <2>4. (\E i \in 1..(n + 1) : y[i] = c) <=> (\E i \in 1..n : x[i] = c) \/ e = c
    <3>1. 1..(n + 1) = 1..n \cup {n + 1}
      OBVIOUS
    <3> QED
      BY <2>3, <3>1
  <2> QED
    BY <2>1, <2>2, <2>3, <2>4 DEF Contains
<1> DEFINE T == {x \in Seq(B) : Contains(Keep(x, S), c) <=> Contains(x, c)}
<1>1. <<>> \in T
  BY EmptySeq, KeepEmpty
<1>2. ASSUME NEW x \in Seq(B), x \in T, NEW e \in B
      PROVE  Append(x, e) \in T
  <2>1. /\ e \in S => Keep(Append(x, e), S) = Append(Keep(x, S), e)
        /\ e \notin S => Keep(Append(x, e), S) = Keep(x, S)
    BY KeepAppend
  <2>2. PICK y \in Seq(B) : y = Keep(x, S)
    BY KeepType
  <2>3. Contains(Append(y, e), c) <=> Contains(y, c) \/ e = c
    BY <1>0
  <2>4. Contains(Append(x, e), c) <=> Contains(x, c) \/ e = c
    BY <1>0
  <2>5. Append(x, e) \in Seq(B) /\ (Contains(y, c) <=> Contains(x, c))
    BY <1>2, <2>2, AppendProperties
  <2> QED
    BY <2>1, <2>2, <2>3, <2>4, <2>5
<1> HIDE DEF T
<1>3. Seq(B) \subseteq T
  BY <1>1, <1>2, SeqInduction
<1>4. s \in T
  BY <1>3
<1> QED
  BY <1>4 DEF T
-----------------------------------------------------------------------------
(***************************************************************************)
(* One line after the other: what FlattenSeq computes.                     *)
(***************************************************************************)
\* The function FlattenSeq defines.
Flattened(seqs) ==
  LET flatten[i \in 1..Len(seqs)] == IF i = 1 THEN seqs[i] ELSE flatten[i - 1] \o seqs[i]
  IN  flatten

\* Flattened is the function its definition says.
LEMMA FlattenedLaw ==
  ASSUME NEW B, NEW ss \in Seq(Seq(B))
  PROVE  \A i \in 1..Len(ss) :
           /\ i = 1 => Flattened(ss)[i] = ss[i]
           /\ i # 1 => Flattened(ss)[i] = Flattened(ss)[i - 1] \o ss[i]
           /\ Flattened(ss)[i] \in Seq(B)
<1>1. PICK Q : Q = Seq(B)
  OBVIOUS
<1>0. PICK n \in Nat : n = Len(ss) /\ \A i \in 1..n : ss[i] \in Q
  BY <1>1, LenProperties, ElementOfSeq
<1>2. <<>> \in Q /\ \A x, y \in Q : x \o y \in Q /\ <<>> \o x = x
  BY <1>1, EmptySeq, ConcatProperties, ConcatEmptySeq
<1>3. PICK step : step = [i \in 0..n |-> [x \in Q |-> IF i \in 1..n THEN x \o ss[i] ELSE x]]
  OBVIOUS
<1>4. IsSteps(n, Q, <<>>, step)
  <2>1. \A i \in 0..n : \A x \in Q : (IF i \in 1..n THEN x \o ss[i] ELSE x) \in Q
    BY <1>0, <1>2
  <2>2. step \in [0..n -> [Q -> Q]]
    BY <1>3, <2>1
  <2> QED
    BY <1>2, <2>2 DEF IsSteps
<1>5. PICK h : Follows(n, Q, <<>>, step, h)
  BY <1>4, RecursionExists
<1>6. h \in [0..n -> Q] /\ h[0] = <<>> /\ \A i \in 1..n : h[i] = step[i][h[i - 1]]
  BY <1>5 DEF Follows
<1>7. \A i \in 1..n : i \in 0..n /\ i - 1 \in 0..n /\ (i # 1 => i - 1 \in 1..n) /\ (i = 1 => i - 1 = 0)
  OBVIOUS
<1>8. \A i \in 1..n : h[i] = h[i - 1] \o ss[i]
  <2>1. \A i \in 1..n : h[i - 1] \in Q
    BY <1>6, <1>7
  <2>2. \A i \in 1..n : step[i][h[i - 1]] = h[i - 1] \o ss[i]
    BY <1>3, <1>7, <2>1
  <2> QED
    BY <1>6, <2>2
<1>9. PICK g : g = [i \in 1..n |-> h[i]]
  OBVIOUS
<1>10. \A i \in 1..n : g[i] = IF i = 1 THEN ss[i] ELSE g[i - 1] \o ss[i]
  <2> TAKE i \in 1..n
  <2>1. CASE i = 1
    <3>1. h[i] = <<>> \o ss[i]
      <4>1. h[i] = h[i - 1] \o ss[i] /\ i - 1 = 0
        BY <1>7, <1>8, <2>1
      <4> QED
        BY <1>6, <4>1
    <3>2. <<>> \o ss[i] = ss[i]
      BY <1>0, <1>2
    <3> QED
      BY <1>9, <2>1, <3>1, <3>2
  <2>2. CASE i # 1
    <3>1. g[i - 1] = h[i - 1] /\ g[i] = h[i]
      BY <1>7, <1>9, <2>2
    <3> QED
      BY <1>8, <2>2, <3>1
  <2> QED
    BY <2>1, <2>2
<1>11. g = [i \in 1..Len(ss) |-> IF i = 1 THEN ss[i] ELSE g[i - 1] \o ss[i]]
  BY <1>0, <1>9, <1>10
<1>12. Flattened(ss) = [i \in 1..Len(ss) |-> IF i = 1 THEN ss[i] ELSE Flattened(ss)[i - 1] \o ss[i]]
  BY <1>11, Zenon DEF Flattened
<1>13. PICK u : u = Flattened(ss)
  OBVIOUS
<1>14. u = [i \in 1..n |-> IF i = 1 THEN ss[i] ELSE u[i - 1] \o ss[i]]
  BY <1>0, <1>12, <1>13
<1>15. \A i \in 1..n : u[i] = IF i = 1 THEN ss[i] ELSE u[i - 1] \o ss[i]
  BY <1>14
<1>16. 0..n \subseteq {i \in 0..n : i # 0 => u[i] \in Q}
  <2> DEFINE T == {i \in 0..n : i # 0 => u[i] \in Q}
  <2>1. 0 \in T
    OBVIOUS
  <2>2. ASSUME NEW k \in 0..(n - 1), k \in T
        PROVE  k + 1 \in T
    <3>1. k + 1 \in 1..n /\ k + 1 \in 0..n /\ (k + 1) - 1 = k /\ (k + 1 = 1 <=> k = 0)
      OBVIOUS
    <3>2. u[k + 1] = IF k = 0 THEN ss[k + 1] ELSE u[k] \o ss[k + 1]
      BY <1>15, <3>1
    <3>3. u[k + 1] \in Q
      BY <1>0, <1>2, <2>2, <3>1, <3>2
    <3> QED
      BY <3>1, <3>3
  <2> HIDE DEF T
  <2>3. 0..n \subseteq T
    BY <2>1, <2>2, UptoInduction
  <2> QED
    BY <2>3 DEF T
<1>17. \A i \in 1..n : u[i] \in Q
  BY <1>16
<1> QED
  BY <1>0, <1>1, <1>13, <1>15, <1>17

\* One more line.
LEMMA FlattenAppend ==
  ASSUME NEW B, NEW ss \in Seq(Seq(B)), NEW e \in Seq(B)
  PROVE  FlattenSeq(Append(ss, e)) = FlattenSeq(ss) \o e
<1>0. PICK n \in Nat : n = Len(ss)
  BY LenProperties
<1>1. PICK tt \in Seq(Seq(B)) : tt = Append(ss, e)
  BY AppendProperties
<1>2. Len(tt) = n + 1 /\ tt[n + 1] = e /\ \A i \in 1..n : tt[i] = ss[i]
  BY <1>0, <1>1, AppendProperties
<1>3. PICK a : a = Flattened(ss)
  OBVIOUS
<1>4. PICK b : b = Flattened(tt)
  OBVIOUS
<1>5. \A i \in 1..n : (i = 1 => a[i] = ss[i]) /\ (i # 1 => a[i] = a[i - 1] \o ss[i])
  BY <1>0, <1>3, FlattenedLaw
<1>6. \A i \in 1..(n + 1) : (i = 1 => b[i] = tt[i]) /\ (i # 1 => b[i] = b[i - 1] \o tt[i])
  <2>1. \A i \in 1..Len(tt) : (i = 1 => b[i] = tt[i]) /\ (i # 1 => b[i] = b[i - 1] \o tt[i])
    BY <1>4, FlattenedLaw
  <2> QED
    BY <1>2, <2>1
<1>7. 0..n \subseteq {i \in 0..n : i # 0 => a[i] = b[i]}
  <2> DEFINE T == {i \in 0..n : i # 0 => a[i] = b[i]}
  <2>1. 0 \in T
    OBVIOUS
  <2>2. ASSUME NEW k \in 0..(n - 1), k \in T
        PROVE  k + 1 \in T
    <3>1. k + 1 \in 1..n /\ k + 1 \in 0..n /\ (k + 1) - 1 = k /\ k + 1 \in 1..(n + 1) /\ (k + 1 = 1 <=> k = 0)
      OBVIOUS
    <3>2. (k = 0 => a[k + 1] = ss[k + 1]) /\ (k # 0 => a[k + 1] = a[k] \o ss[k + 1])
      BY <1>5, <3>1
    <3>3. (k = 0 => b[k + 1] = ss[k + 1]) /\ (k # 0 => b[k + 1] = b[k] \o ss[k + 1])
      BY <1>2, <1>6, <3>1
    <3> QED
      BY <2>2, <3>1, <3>2, <3>3
  <2> HIDE DEF T
  <2>3. 0..n \subseteq T
    BY <2>1, <2>2, UptoInduction
  <2> QED
    BY <2>3 DEF T
<1>8. FlattenSeq(tt) = b[n + 1]
  <2>1. FlattenSeq(tt) = IF Len(tt) = 0 THEN tt ELSE Flattened(tt)[Len(tt)]
    BY Zenon DEF FlattenSeq, Flattened
  <2> QED
    BY <1>2, <1>4, <2>1
<1>9. FlattenSeq(ss) = IF n = 0 THEN ss ELSE a[n]
  <2>1. FlattenSeq(ss) = IF Len(ss) = 0 THEN ss ELSE Flattened(ss)[Len(ss)]
    BY Zenon DEF FlattenSeq, Flattened
  <2> QED
    BY <1>0, <1>3, <2>1
<1>10. CASE n = 0
  <2>1. ss = <<>> /\ <<>> \o e = e
    BY <1>0, <1>10, EmptySeq, ConcatEmptySeq
  <2>2. b[n + 1] = e
    BY <1>2, <1>6, <1>10
  <2> QED
    BY <1>1, <1>8, <1>9, <1>10, <2>1, <2>2
<1>11. CASE n # 0
  <2>1. n + 1 \in 1..(n + 1) /\ n + 1 # 1 /\ (n + 1) - 1 = n /\ n \in 0..n
    BY <1>11
  <2>2. b[n + 1] = b[n] \o e
    BY <1>2, <1>6, <2>1
  <2>3. a[n] = b[n]
    BY <1>7, <1>11, <2>1
  <2> QED
    BY <1>1, <1>8, <1>9, <1>11, <2>2, <2>3
<1> QED
  BY <1>10, <1>11

\* No lines flatten to nothing, and the bytes of lines are bytes.
LEMMA FlattenType ==
  ASSUME NEW B, NEW ss \in Seq(Seq(B))
  PROVE  FlattenSeq(ss) \in Seq(B) /\ (ss = <<>> => FlattenSeq(ss) = <<>>)
<1>0. PICK n \in Nat : n = Len(ss)
  BY LenProperties
<1>1. FlattenSeq(ss) = IF Len(ss) = 0 THEN ss ELSE Flattened(ss)[Len(ss)]
  BY Zenon DEF FlattenSeq, Flattened
<1>2. CASE n = 0
  BY <1>0, <1>1, <1>2, EmptySeq
<1>3. CASE n # 0
  <2>1. n \in 1..Len(ss)
    BY <1>0, <1>3
  <2>2. Flattened(ss)[n] \in Seq(B)
    BY <2>1, FlattenedLaw
  <2> QED
    BY <1>0, <1>1, <1>3, <2>2, EmptySeq
<1> QED
  BY <1>2, <1>3
-----------------------------------------------------------------------------
(***************************************************************************)
(* The lines of a stream of bytes, one byte after the other.               *)
(***************************************************************************)
\* A newline is no visible character.
LEMMA NewlineNotText == NL \notin Text
BY TextAssumption DEF Specials

\* The largest element.
LEMMA LastLaw ==
  ASSUME NEW n \in Nat, NEW S \in SUBSET (1..n)
  PROVE  /\ LastOf(S) \in 0..n
         /\ S = {} => LastOf(S) = 0
         /\ S # {} => LastOf(S) \in S
         /\ \A j \in S : j <= LastOf(S)
<1>1. CASE S = {}
  BY <1>1 DEF LastOf
<1>2. CASE S # {}
  <2> DEFINE T == {k \in Nat : \E j \in S : k = n - j}
  <2>1. T \in SUBSET Nat /\ T # {}
    <3>1. PICK j \in S : TRUE
      BY <1>2
    <3>2. n - j \in T
      OBVIOUS
    <3> QED
      BY <3>2
  <2>2. PICK x \in T : \A y \in T : x <= y
    <3> HIDE DEF T
    <3> QED
      BY <2>1, SmallestExists
  <2>3. PICK i \in S : x = n - i
    BY <2>2
  <2>4. \A j \in S : j <= i
    <3> TAKE j \in S
    <3>1. n - j \in T
      OBVIOUS
    <3>2. n - i <= n - j
      BY <2>2, <2>3, <3>1
    <3> QED
      BY <3>2
  <2>5. LastOf(S) \in S /\ \A j \in S : j <= LastOf(S)
    BY <1>2, <2>3, <2>4 DEF LastOf
  <2>6. LastOf(S) \in 0..n
    <3>1. \A x1 \in S : x1 \in 0..n
      OBVIOUS
    <3> QED
      BY <2>5, <3>1
  <2> QED
    BY <1>2, <2>5, <2>6
<1> QED
  BY <1>1, <1>2

\* The largest element is the one that is.
LEMMA LastIs ==
  ASSUME NEW n \in Nat, NEW S \in SUBSET (1..n), NEW i \in S, \A j \in S : j <= i
  PROVE  LastOf(S) = i
<1>1. S # {}
  OBVIOUS
<1>2. LastOf(S) \in S /\ i <= LastOf(S)
  BY <1>1, LastLaw
<1>3. LastOf(S) <= i
  BY <1>2
<1>4. \A x \in S : x \in Int
  OBVIOUS
<1>5. LastOf(S) \in Int /\ i \in Int
  BY <1>2, <1>4
<1> QED
  BY <1>2, <1>3, <1>5

\* The newlines are places of the stream, and finitely many.
LEMMA NewlinesType ==
  ASSUME NEW s \in Seq(Bytes)
  PROVE  /\ Len(s) \in Nat
         /\ Newlines(s) \in SUBSET (1..Len(s))
         /\ IsFiniteSet(Newlines(s))
         /\ Cardinality(Newlines(s)) \in Nat
<1>1. Len(s) \in Nat /\ DOMAIN s = 1..Len(s)
  BY LenProperties
<1>2. Newlines(s) \in SUBSET (1..Len(s))
  BY <1>1 DEF Newlines
<1>3. IsFiniteSet(1..Len(s))
  BY <1>1, FS_Interval
<1>4. IsFiniteSet(Newlines(s))
  BY <1>2, <1>3, FS_Subset
<1> QED
  BY <1>1, <1>2, <1>4, FS_CardinalityType

\* The newlines after one more byte.
LEMMA NewlinesAppend ==
  ASSUME NEW s \in Seq(Bytes), NEW e \in Bytes
  PROVE  /\ e = NL => Newlines(Append(s, e)) = Newlines(s) \cup {Len(s) + 1}
         /\ e # NL => Newlines(Append(s, e)) = Newlines(s)
<1>0. PICK n \in Nat : n = Len(s)
  BY LenProperties
<1>1. PICK t : t = Append(s, e)
  OBVIOUS
<1>2. Len(t) = n + 1 /\ t \in Seq(Bytes) /\ t[n + 1] = e /\ \A i \in 1..n : t[i] = s[i]
  BY <1>0, <1>1, AppendProperties
<1>3. DOMAIN s = 1..n /\ DOMAIN t = 1..(n + 1)
  BY <1>0, <1>2, LenProperties
<1>4. 1..(n + 1) = 1..n \cup {n + 1} /\ n + 1 \notin 1..n
  OBVIOUS
<1>5. e = NL => Newlines(t) = Newlines(s) \cup {n + 1}
  BY <1>2, <1>3, <1>4 DEF Newlines
<1>6. e # NL => Newlines(t) = Newlines(s)
  BY <1>2, <1>3, <1>4 DEF Newlines
<1> QED
  BY <1>0, <1>1, <1>5, <1>6

\* How many newlines there are up to place i.
Count(s, i) == Cardinality({j \in Newlines(s) : j <= i})

\* Two newlines are not the same in number.
LEMMA CountInjective ==
  ASSUME NEW s \in Seq(Bytes), NEW i \in Newlines(s), NEW k \in Newlines(s), Count(s, i) = Count(s, k)
  PROVE  i = k
<1>0. PICK N : N = Newlines(s)
  OBVIOUS
<1>1. IsFiniteSet(N) /\ N \subseteq Nat
  BY <1>0, NewlinesType
<1>2. ASSUME NEW a \in N, NEW b \in N, a < b
      PROVE  Count(s, a) # Count(s, b)
  <2>1. PICK A, C : A = {j \in N : j <= a} /\ C = {j \in N : j <= b}
    OBVIOUS
  <2>2. IsFiniteSet(A) /\ IsFiniteSet(C)
    <3>1. A \in SUBSET N /\ C \in SUBSET N
      BY <2>1
    <3> QED
      BY <1>1, <3>1, FS_Subset
  <2>3. b \notin A /\ A \cup {b} \subseteq C
    <3>1. a \in Nat /\ b \in Nat /\ \A j \in N : j \in Nat
      BY <1>1
    <3>2. ~(b <= a) /\ \A j \in N : j <= a => j <= b
      BY <1>2, <3>1
    <3>3. b \notin A
      BY <2>1, <3>2
    <3>4. b <= b
      BY <3>1
    <3> QED
      BY <2>1, <3>2, <3>3, <3>4
  <2>4. Cardinality(A \cup {b}) = Cardinality(A) + 1 /\ IsFiniteSet(A \cup {b})
    BY <2>2, <2>3, FS_AddElement
  <2>5. Cardinality(A \cup {b}) <= Cardinality(C)
    BY <2>2, <2>3, FS_Subset
  <2>6. Cardinality(A) \in Nat /\ Cardinality(C) \in Nat
    BY <2>2, FS_CardinalityType
  <2> QED
    BY <1>0, <2>1, <2>4, <2>5, <2>6 DEF Count
<1> QED
  BY <1>0, <1>1, <1>2

\* The newlines up to a place after one more byte.
LEMMA CountAppend ==
  ASSUME NEW s \in Seq(Bytes), NEW e \in Bytes
  PROVE  /\ \A i \in 1..Len(s) : Count(Append(s, e), i) = Count(s, i)
         /\ e = NL => Count(Append(s, e), Len(s) + 1) = Cardinality(Newlines(s)) + 1
         /\ e = NL => Cardinality(Newlines(Append(s, e))) = Cardinality(Newlines(s)) + 1
<1>1. PICK n \in Nat : n = Len(s)
  BY LenProperties
<1>2. PICK N, M : N = Newlines(s) /\ M = Newlines(Append(s, e))
  OBVIOUS
<1>3. N \subseteq 1..n /\ IsFiniteSet(N)
  BY <1>1, <1>2, NewlinesType
<1>4. (e = NL => M = N \cup {n + 1}) /\ (e # NL => M = N)
  BY <1>1, <1>2, NewlinesAppend
<1>5. ASSUME NEW i \in 1..n
      PROVE  {j \in M : j <= i} = {j \in N : j <= i}
  BY <1>3, <1>4
<1>6. ASSUME e = NL
      PROVE  {j \in M : j <= n + 1} = N \cup {n + 1}
  <2>1. \A j \in N : j <= n + 1
    BY <1>3
  <2>2. M = N \cup {n + 1}
    BY <1>4, <1>6
  <2> QED
    BY <2>1, <2>2
<1>7. Cardinality(N \cup {n + 1}) = Cardinality(N) + 1
  <2>1. PICK x : x = n + 1
    OBVIOUS
  <2>2. x \notin N
    BY <1>3, <2>1
  <2>3. Cardinality(N \cup {x}) = Cardinality(N) + 1
    BY <1>3, <2>2, FS_AddElement
  <2> QED
    BY <2>1, <2>3
<1> QED
  BY <1>1, <1>2, <1>4, <1>5, <1>6, <1>7 DEF Count

\* There is a newline of every number.
LEMMA EndExists ==
  ASSUME NEW s \in Seq(Bytes), NEW n \in 1..Cardinality(Newlines(s))
  PROVE  \E i \in Newlines(s) : Count(s, i) = n
<1> DEFINE T == {x \in Seq(Bytes) : \A m \in 1..Cardinality(Newlines(x)) : \E i \in Newlines(x) : Count(x, i) = m}
<1>1. <<>> \in T
  <2>1. <<>> \in Seq(Bytes) /\ Newlines(<<>>) = {}
    BY EmptySeq DEF Newlines
  <2>2. Cardinality(Newlines(<<>>)) = 0
    BY <2>1, FS_EmptySet
  <2> QED
    BY <2>1, <2>2
<1>2. ASSUME NEW x \in Seq(Bytes), x \in T, NEW e \in Bytes
      PROVE  Append(x, e) \in T
  <2>0. PICK y \in Seq(Bytes) : y = Append(x, e)
    BY AppendProperties
  <2>1. PICK l \in Nat, c \in Nat : l = Len(x) /\ c = Cardinality(Newlines(x)) /\ Newlines(x) \subseteq 1..l
    BY NewlinesType
  <2>2. (e = NL => Newlines(y) = Newlines(x) \cup {l + 1}) /\ (e # NL => Newlines(y) = Newlines(x))
    BY <2>0, <2>1, NewlinesAppend
  <2>3. /\ \A i \in 1..l : Count(y, i) = Count(x, i)
        /\ e = NL => Count(y, l + 1) = c + 1 /\ Cardinality(Newlines(y)) = c + 1
    BY <2>0, <2>1, CountAppend
  <2>4. \A m \in 1..c : \E i \in Newlines(x) : Count(x, i) = m
    BY <1>2, <2>1
  <2>5. \A m \in 1..c : \E i \in Newlines(y) : Count(y, i) = m
    BY <2>1, <2>2, <2>3, <2>4
  <2>6. \A m \in 1..Cardinality(Newlines(y)) : \E i \in Newlines(y) : Count(y, i) = m
    <3>1. CASE e = NL
      <4>1. 1..(c + 1) = 1..c \cup {c + 1}
        OBVIOUS
      <4>2. l + 1 \in Newlines(y) /\ Count(y, l + 1) = c + 1
        BY <2>2, <2>3, <3>1
      <4> QED
        BY <2>3, <2>5, <3>1, <4>1, <4>2
    <3>2. CASE e # NL
      BY <2>1, <2>2, <2>5, <3>2
    <3> QED
      BY <3>1, <3>2
  <2> QED
    BY <2>0, <2>6
<1> HIDE DEF T
<1>3. Seq(Bytes) \subseteq T
  BY <1>1, <1>2, SeqInduction
<1>4. s \in T
  BY <1>3
<1> QED
  BY <1>4 DEF T

\* Where a line ends.
LEMMA EndLaw ==
  ASSUME NEW s \in Seq(Bytes), NEW n \in 1..Cardinality(Newlines(s))
  PROVE  /\ EndOfLine(s, n) \in Newlines(s) /\ Count(s, EndOfLine(s, n)) = n
         /\ \A i \in Newlines(s) : Count(s, i) = n => EndOfLine(s, n) = i
<1>1. EndOfLine(s, n) \in Newlines(s) /\ Count(s, EndOfLine(s, n)) = n
  BY EndExists DEF EndOfLine, Count
<1>2. ASSUME NEW i \in Newlines(s), Count(s, i) = n
      PROVE  EndOfLine(s, n) = i
  <2>1. PICK k \in Newlines(s) : k = EndOfLine(s, n) /\ Count(s, i) = Count(s, k)
    BY <1>1, <1>2
  <2> QED
    BY <2>1, CountInjective
<1> QED
  BY <1>1, <1>2

\* The end of a stream after one more byte.
LEMMA EndOfAppend ==
  ASSUME NEW s \in Seq(Bytes), NEW e \in Bytes, NEW l \in 0..Len(s)
  PROVE  /\ SubSeq(s, l + 1, Len(s)) \in Seq(Bytes)
         /\ SubSeq(Append(s, e), l + 1, Len(s) + 1) = Append(SubSeq(s, l + 1, Len(s)), e)
<1>0. PICK n \in Nat : n = Len(s) /\ l \in 0..n /\ \A i \in 1..n : s[i] \in Bytes
  BY LenProperties, ElementOfSeq
<1>1. PICK t \in Seq(Bytes) : t = Append(s, e)
  BY AppendProperties
<1>2. Len(t) = n + 1 /\ t[n + 1] = e
  BY <1>0, <1>1, AppendProperties
<1>3. <<e>> \in Seq(Bytes) /\ t = s \o <<e>>
  BY <1>1, AppendIsConcat
<1>4. SubSeq(s, l + 1, n) \in Seq(Bytes)
  <2>1. \A i \in (l + 1)..n : s[i] \in Bytes
    BY <1>0
  <2>2. l + 1 \in Int /\ n \in Int
    BY <1>0
  <2> QED
    BY <2>1, <2>2, SubSeqProperties
<1>5. SubSeq(t, l + 1, n) = SubSeq(s, l + 1, n)
  <2>1. CASE l = n
    <3>1. l + 1 \in Int /\ n \in Int /\ n < l + 1
      BY <1>0, <2>1
    <3>2. SubSeq(t, l + 1, n) = <<>> /\ SubSeq(s, l + 1, n) = <<>>
      BY <3>1, SubSeqEmpty
    <3> QED
      BY <3>2
  <2>2. CASE l # n
    <3>1. l + 1 \in 1..Len(s) /\ n \in 1..Len(s)
      BY <1>0, <2>2
    <3> QED
      BY <1>3, <3>1, SubSeqOfConcat1
  <2> QED
    BY <2>1, <2>2
<1>6. SubSeq(t, l + 1, n + 1) = SubSeq(t, l + 1, n) \o <<e>>
  <2>1. l + 1 \in 1..Len(t) /\ n + 1 \in (l + 1)..Len(t) /\ (n + 1) - 1 = n
    BY <1>0, <1>2
  <2>2. SubSeq(t, l + 1, n + 1) = SubSeq(t, l + 1, (n + 1) - 1) \o <<t[n + 1]>>
    BY <2>1, SubSeqRecursiveSecond
  <2> QED
    BY <1>2, <2>1, <2>2
<1>7. SubSeq(s, l + 1, n) \o <<e>> = Append(SubSeq(s, l + 1, n), e)
  BY <1>4, AppendIsConcat
<1> QED
  BY <1>0, <1>1, <1>4, <1>5, <1>6, <1>7

\* What sanitize makes of the end of a stream after one more byte.
LEMMA SanitizeEnd ==
  ASSUME NEW s \in Seq(Bytes), NEW e \in Bytes, NEW l \in 0..Len(s)
  PROVE  /\ sanitize(SubSeq(s, l + 1, Len(s))) \in Seq(Text)
         /\ e \in Text => sanitize(SubSeq(Append(s, e), l + 1, Len(s) + 1))
                            = Append(sanitize(SubSeq(s, l + 1, Len(s))), e)
         /\ e \notin Text => sanitize(SubSeq(Append(s, e), l + 1, Len(s) + 1))
                               = sanitize(SubSeq(s, l + 1, Len(s)))
<1>1. PICK x \in Seq(Bytes) : x = SubSeq(s, l + 1, Len(s))
  BY EndOfAppend
<1>2. SubSeq(Append(s, e), l + 1, Len(s) + 1) = Append(x, e)
  BY <1>1, EndOfAppend
<1>3. /\ e \in Text => Keep(Append(x, e), Text) = Append(Keep(x, Text), e)
      /\ e \notin Text => Keep(Append(x, e), Text) = Keep(x, Text)
  BY KeepAppend
<1>4. Keep(x, Text) \in Seq(Text)
  BY KeepType
<1> QED
  BY <1>1, <1>2, <1>3, <1>4 DEF sanitize

\* What follows the last newline, after one more byte.
LEMMA RestAppend ==
  ASSUME NEW s \in Seq(Bytes), NEW e \in Bytes
  PROVE  /\ Rest(s) \in Seq(Text)
         /\ e = NL => Rest(Append(s, e)) = <<>>
         /\ e \in Text => Rest(Append(s, e)) = Append(Rest(s), e)
         /\ e \notin Text /\ e # NL => Rest(Append(s, e)) = Rest(s)
<1>0. PICK n \in Nat : n = Len(s)
  BY LenProperties
<1>1. PICK t \in Seq(Bytes) : t = Append(s, e)
  BY AppendProperties
<1>2. Len(t) = n + 1
  BY <1>0, <1>1, AppendProperties
<1>3. Newlines(s) \in SUBSET (1..n) /\ Newlines(t) \in SUBSET (1..(n + 1))
  BY <1>0, <1>2, NewlinesType
<1>4. PICK l \in 0..Len(s) : l = LastOf(Newlines(s))
  BY <1>0, <1>3, LastLaw
<1>5. (e = NL => Newlines(t) = Newlines(s) \cup {n + 1}) /\ (e # NL => Newlines(t) = Newlines(s))
  BY <1>0, <1>1, NewlinesAppend
<1>6. Rest(s) = sanitize(SubSeq(s, l + 1, Len(s))) /\ Rest(s) \in Seq(Text)
  <2>1. Rest(s) = sanitize(SubSeq(s, l + 1, Len(s)))
    BY <1>4 DEF Rest
  <2>2. sanitize(SubSeq(s, l + 1, Len(s))) \in Seq(Text)
    BY SanitizeEnd
  <2> QED
    BY <2>1, <2>2
<1>7. CASE e = NL
  <2>1. n + 1 \in Newlines(t) /\ \A j \in Newlines(t) : j <= n + 1
    BY <1>3, <1>5, <1>7
  <2>2. PICK m \in Nat : m = n + 1
    OBVIOUS
  <2>3. LastOf(Newlines(t)) = m
    BY <1>3, <2>1, <2>2, LastIs
  <2>4. SubSeq(t, m + 1, m) = <<>>
    <3>1. m + 1 \in Int /\ m \in Int /\ m < m + 1
      OBVIOUS
    <3> QED
      BY <3>1, SubSeqEmpty
  <2>5. Rest(t) = sanitize(<<>>)
    BY <1>2, <2>2, <2>3, <2>4 DEF Rest
  <2>6. sanitize(<<>>) = <<>>
    BY KeepEmpty DEF sanitize
  <2> QED
    BY <1>1, <1>6, <1>7, <2>5, <2>6, NewlineNotText
<1>8. CASE e # NL
  <2>1. Rest(t) = sanitize(SubSeq(Append(s, e), l + 1, Len(s) + 1))
    BY <1>0, <1>1, <1>2, <1>4, <1>5, <1>8 DEF Rest
  <2>2. /\ e \in Text => sanitize(SubSeq(Append(s, e), l + 1, Len(s) + 1))
                            = Append(sanitize(SubSeq(s, l + 1, Len(s))), e)
        /\ e \notin Text => sanitize(SubSeq(Append(s, e), l + 1, Len(s) + 1))
                              = sanitize(SubSeq(s, l + 1, Len(s)))
    BY SanitizeEnd
  <2> QED
    BY <1>1, <1>6, <1>8, <2>1, <2>2
<1> QED
  BY <1>7, <1>8

\* A line does not change with one more byte behind it.
LEMMA LineToAppend ==
  ASSUME NEW s \in Seq(Bytes), NEW e \in Bytes, NEW i \in 1..Len(s)
  PROVE  LineTo(Append(s, e), i) = LineTo(s, i) /\ LineTo(s, i) \in Seq(Text)
<1>0. PICK n \in Nat : n = Len(s) /\ i \in 1..n /\ \A j \in 1..n : s[j] \in Bytes
  BY LenProperties, ElementOfSeq
<1>1. PICK t \in Seq(Bytes) : t = Append(s, e)
  BY AppendProperties
<1>2. (e = NL => Newlines(t) = Newlines(s) \cup {n + 1}) /\ (e # NL => Newlines(t) = Newlines(s))
  BY <1>0, <1>1, NewlinesAppend
<1>3. PICK M : M = {j \in Newlines(s) : j < i}
  OBVIOUS
<1>4. {j \in Newlines(t) : j < i} = M
  <2>1. ~(n + 1 < i)
    BY <1>0
  <2> QED
    BY <1>2, <1>3, <2>1
<1>5. PICK k \in Nat : k = i - 1
  BY <1>0
<1>6. M \in SUBSET (1..k)
  <2>1. Newlines(s) \in SUBSET (1..n)
    BY <1>0, NewlinesType
  <2>2. \A j \in 1..n : j < i => j \in 1..k
    BY <1>0, <1>5
  <2> QED
    BY <1>3, <2>1, <2>2
<1>7. PICK l \in 0..k : l = LastOf(M)
  BY <1>6, LastLaw
<1>8. l + 1 \in 1..Len(s) /\ i \in 1..Len(s)
  BY <1>0, <1>5
<1>9. SubSeq(t, l + 1, i) = SubSeq(s, l + 1, i)
  <2>1. <<e>> \in Seq(Bytes) /\ t = s \o <<e>>
    BY <1>1, AppendIsConcat
  <2> QED
    BY <1>8, <2>1, SubSeqOfConcat1
<1>10. SubSeq(s, l + 1, i) \in Seq(Bytes)
  <2>1. \A j \in (l + 1)..i : s[j] \in Bytes
    BY <1>0, <1>5
  <2>2. l + 1 \in Int /\ i \in Int
    BY <1>0, <1>5
  <2> QED
    BY <2>1, <2>2, SubSeqProperties
<1>11. sanitize(SubSeq(s, l + 1, i)) \in Seq(Text)
  BY <1>10, KeepType DEF sanitize
<1> QED
  BY <1>1, <1>3, <1>4, <1>7, <1>9, <1>11 DEF LineTo

\* The lines, after one more byte.
LEMMA LinesAppend ==
  ASSUME NEW s \in Seq(Bytes), NEW e \in Bytes
  PROVE  /\ LinesOf(s) \in Seq(Seq(Text))
         /\ e = NL => LinesOf(Append(s, e)) = Append(LinesOf(s), Rest(s))
         /\ e # NL => LinesOf(Append(s, e)) = LinesOf(s)
<1>0. PICK n \in Nat, c \in Nat : n = Len(s) /\ c = Cardinality(Newlines(s)) /\ Newlines(s) \in SUBSET (1..n)
  BY NewlinesType
<1>1. PICK t \in Seq(Bytes) : t = Append(s, e)
  BY AppendProperties
<1>2. Len(t) = n + 1
  BY <1>0, <1>1, AppendProperties
<1>3. (e = NL => Newlines(t) = Newlines(s) \cup {n + 1}) /\ (e # NL => Newlines(t) = Newlines(s))
  BY <1>0, <1>1, NewlinesAppend
<1>4. /\ \A i \in 1..n : Count(t, i) = Count(s, i)
      /\ e = NL => Count(t, n + 1) = c + 1 /\ Cardinality(Newlines(t)) = c + 1
  BY <1>0, <1>1, CountAppend
<1>5. ASSUME NEW k \in 1..c
      PROVE  /\ EndOfLine(t, k) = EndOfLine(s, k)
             /\ LineTo(t, EndOfLine(t, k)) = LineTo(s, EndOfLine(s, k))
             /\ LineTo(s, EndOfLine(s, k)) \in Seq(Text)
  <2>1. k \in 1..Cardinality(Newlines(s)) /\ k \in 1..Cardinality(Newlines(t))
    BY <1>0, <1>3, <1>4
  <2>2. PICK i \in Newlines(s) : i = EndOfLine(s, k) /\ Count(s, i) = k
    BY <2>1, EndLaw
  <2>3. i \in 1..n /\ i \in Newlines(t)
    BY <1>0, <1>3, <2>2
  <2>4. Count(t, i) = k
    BY <1>4, <2>2, <2>3
  <2>5. EndOfLine(t, k) = i
    BY <2>1, <2>3, <2>4, EndLaw
  <2>6. LineTo(t, i) = LineTo(s, i) /\ LineTo(s, i) \in Seq(Text)
    BY <1>0, <1>1, <2>3, LineToAppend
  <2> QED
    BY <2>2, <2>5, <2>6
<1>6. PICK L : L = LinesOf(s)
  OBVIOUS
<1>7. L = [k \in 1..c |-> LineTo(s, EndOfLine(s, k))]
  BY <1>0, <1>6 DEF LinesOf
<1>8. PICK Q : Q = Seq(Text)
  OBVIOUS
<1>9. L \in Seq(Q) /\ Len(L) = c
  <2>1. L \in [1..c -> Q]
    BY <1>5, <1>7, <1>8
  <2> QED
    BY <2>1, LenProperties
<1>10. CASE e # NL
  <2>1. Cardinality(Newlines(t)) = c
    BY <1>0, <1>3, <1>10
  <2>2. LinesOf(t) = [k \in 1..c |-> LineTo(t, EndOfLine(t, k))]
    BY <2>1 DEF LinesOf
  <2>3. LinesOf(t) = L
    BY <1>5, <1>7, <2>2
  <2> QED
    BY <1>1, <1>6, <1>8, <1>9, <1>10, <2>3
<1>11. CASE e = NL
  <2>1. PICK r \in Q : r = Rest(s)
    BY <1>8, RestAppend
  <2>2. PICK M : M = LinesOf(t)
    OBVIOUS
  <2>3. M = [k \in 1..(c + 1) |-> LineTo(t, EndOfLine(t, k))]
    BY <1>4, <1>11, <2>2 DEF LinesOf
  <2>4. EndOfLine(t, c + 1) = n + 1
    <3>1. c + 1 \in 1..Cardinality(Newlines(t)) /\ n + 1 \in Newlines(t) /\ Count(t, n + 1) = c + 1
      BY <1>3, <1>4, <1>11
    <3> QED
      BY <3>1, EndLaw
  <2>5. LineTo(t, n + 1) = r
    <3>1. {j \in Newlines(t) : j < n + 1} = Newlines(s)
      <4>1. \A j \in Newlines(s) : j < n + 1
        BY <1>0
      <4>2. ~(n + 1 < n + 1)
        OBVIOUS
      <4> QED
        BY <1>3, <1>11, <4>1, <4>2
    <3>2. PICK l \in 0..Len(s) : l = LastOf(Newlines(s))
      BY <1>0, LastLaw
    <3>3. LineTo(t, n + 1) = sanitize(SubSeq(Append(s, e), l + 1, Len(s) + 1))
      BY <1>0, <1>1, <3>1, <3>2 DEF LineTo
    <3>4. sanitize(SubSeq(Append(s, e), l + 1, Len(s) + 1)) = sanitize(SubSeq(s, l + 1, Len(s)))
      BY <1>11, SanitizeEnd, NewlineNotText
    <3>5. r = sanitize(SubSeq(s, l + 1, Len(s)))
      BY <2>1, <3>2 DEF Rest
    <3> QED
      BY <3>3, <3>4, <3>5
  <2>6. \A k \in 1..c : M[k] = L[k]
    <3> TAKE k \in 1..c
    <3>1. k \in 1..(c + 1)
      OBVIOUS
    <3> QED
      BY <1>5, <1>7, <2>3, <3>1
  <2>7. M[c + 1] = r
    BY <2>3, <2>4, <2>5
  <2>8. PICK A : A = Append(L, r)
    OBVIOUS
  <2>9. A \in Seq(Q) /\ Len(A) = c + 1 /\ A[c + 1] = r /\ \A k \in 1..c : A[k] = L[k]
    BY <1>9, <2>8, AppendProperties
  <2>10. A = [k \in 1..(c + 1) |-> A[k]]
    BY <2>9, LenProperties
  <2>11. \A k \in 1..(c + 1) : M[k] = A[k]
    <3>1. 1..(c + 1) = 1..c \cup {c + 1}
      OBVIOUS
    <3> QED
      BY <2>6, <2>7, <2>9, <3>1
  <2>12. M = A
    BY <2>3, <2>10, <2>11
  <2> QED
    BY <1>1, <1>6, <1>8, <1>9, <1>11, <2>1, <2>2, <2>8, <2>12
<1> QED
  BY <1>10, <1>11

\* Bytes without a newline add no line, and their text to what follows the last one.
LEMMA LinesConcat ==
  ASSUME NEW s \in Seq(Bytes), NEW t \in Seq(Bytes \ {NL})
  PROVE  LinesOf(s \o t) = LinesOf(s) /\ Rest(s \o t) = Rest(s) \o sanitize(t)
<1>0. PICK P : P = Bytes \ {NL}
  OBVIOUS
<1> DEFINE T == {x \in Seq(P) : LinesOf(s \o x) = LinesOf(s) /\ Rest(s \o x) = Rest(s) \o sanitize(x)}
<1>1. <<>> \in T
  <2>1. Rest(s) \in Seq(Text)
    <3>1. PICK l \in 0..Len(s) : l = LastOf(Newlines(s))
      BY NewlinesType, LastLaw
    <3>2. \A i \in (l + 1)..Len(s) : s[i] \in Bytes
      BY ElementOfSeq, LenProperties
    <3>3. l + 1 \in Int /\ Len(s) \in Int
      BY LenProperties
    <3>4. SubSeq(s, l + 1, Len(s)) \in Seq(Bytes)
      BY <3>2, <3>3, SubSeqProperties
    <3> QED
      BY <3>1, <3>4, KeepType DEF Rest, sanitize
  <2>2. s \o <<>> = s /\ Rest(s) \o <<>> = Rest(s)
    BY <2>1, ConcatEmptySeq
  <2>3. sanitize(<<>>) = <<>>
    BY KeepEmpty DEF sanitize
  <2> QED
    BY <2>2, <2>3, EmptySeq
<1>2. ASSUME NEW x \in Seq(P), x \in T, NEW e \in P
      PROVE  Append(x, e) \in T
  <2>0. e \in Bytes /\ e # NL /\ x \in Seq(Bytes)
    <3>1. P \subseteq Bytes
      BY <1>0
    <3> QED
      BY <1>0, <3>1, SeqMonotonic
  <2>1. PICK y \in Seq(Bytes) : y = s \o x
    BY <2>0, ConcatProperties
  <2>2. s \o Append(x, e) = Append(y, e)
    BY <2>0, <2>1, ConcatAppend
  <2>3. LinesOf(Append(y, e)) = LinesOf(y)
    BY <2>0, LinesAppend
  <2>4. /\ e \in Text => Rest(Append(y, e)) = Append(Rest(y), e)
        /\ e \notin Text => Rest(Append(y, e)) = Rest(y)
    BY <2>0, RestAppend
  <2>5. PICK z \in Seq(Text) : z = sanitize(x)
    BY KeepType DEF sanitize
  <2>6. /\ e \in Text => sanitize(Append(x, e)) = Append(z, e)
        /\ e \notin Text => sanitize(Append(x, e)) = z
    BY <2>5, KeepAppend DEF sanitize
  <2>7. PICK r \in Seq(Text) : r = Rest(s)
    BY <2>0, RestAppend
  <2>8. LinesOf(y) = LinesOf(s) /\ Rest(y) = r \o z
    BY <1>2, <2>1, <2>5, <2>7
  <2>9. e \in Text => r \o Append(z, e) = Append(r \o z, e)
    BY ConcatAppend
  <2>10. Append(x, e) \in Seq(P)
    BY AppendProperties
  <2> QED
    BY <2>2, <2>3, <2>4, <2>5, <2>6, <2>7, <2>8, <2>9, <2>10
<1> HIDE DEF T
<1>3. Seq(P) \subseteq T
  BY <1>1, <1>2, SeqInduction
<1>4. t \in T
  BY <1>0, <1>3
<1> QED
  BY <1>4 DEF T
-----------------------------------------------------------------------------
(***************************************************************************)
(* One read.                                                               *)
(***************************************************************************)
\* Nothing in s ends the buffer, or makes a break of it.
Plain(s) == \A i \in DOMAIN s : s[i] \notin {NUL, IAC, EOT}

\* The buffer up to a zero byte.
LEMMA CStringLaw ==
  ASSUME NEW s \in Seq(Bytes)
  PROVE  CString(s) \in Seq(Bytes) /\ (Plain(s) => CString(s) = s)
<1>1. PICK n \in Nat : n = Len(s) /\ DOMAIN s = 1..n /\ \A i \in 1..n : s[i] \in Bytes
  BY LenProperties, ElementOfSeq
<1>2. PICK zeros : zeros = {i \in DOMAIN s : s[i] = NUL}
  OBVIOUS
<1>3. Plain(s) => zeros = {}
  BY <1>2 DEF Plain
<1>4. CASE zeros = {}
  BY <1>2, <1>4 DEF CString
<1>5. CASE zeros # {}
  <2>1. zeros \in SUBSET Nat /\ zeros \subseteq 1..n
    BY <1>1, <1>2
  <2>2. PICK i \in zeros : \A j \in zeros : i <= j
    BY <1>5, <2>1, SmallestExists
  <2>3. PICK k : k = CHOOSE z \in zeros : \A j \in zeros : z <= j
    OBVIOUS
  <2>4. k \in zeros
    BY <2>2, <2>3
  <2>5. CString(s) = SubSeq(s, 1, k - 1)
    BY <1>2, <1>5, <2>3 DEF CString
  <2>6. \A i1 \in 1..(k - 1) : s[i1] \in Bytes
    BY <1>1, <2>1, <2>4
  <2>7. 1 \in Int /\ k - 1 \in Int
    BY <2>1, <2>4
  <2>8. SubSeq(s, 1, k - 1) \in Seq(Bytes)
    BY <2>6, <2>7, SubSeqProperties
  <2> QED
    BY <1>3, <1>5, <2>5, <2>8
<1> QED
  BY <1>3, <1>4, <1>5

\* The bytes lite_sanitize lets through.
Lite == Text \cup {NL, CR}

\* What lite_sanitize returns.
LEMMA LiteLaw ==
  ASSUME NEW s \in Seq(Bytes)
  PROVE  /\ lite_sanitize(s) \in Seq(Lite)
         /\ ~Contains(lite_sanitize(s), NL) => lite_sanitize(s) \in Seq(Text \cup {CR})
         /\ Plain(s) => /\ sanitize(lite_sanitize(s)) = sanitize(s)
                        /\ Contains(lite_sanitize(s), NL) <=> Contains(s, NL)
<1>1. PICK c \in Seq(Bytes) : c = CString(s) /\ (Plain(s) => c = s)
  BY CStringLaw
<1>2. PICK x : x = lite_sanitize(s)
  OBVIOUS
<1>3. x = Keep(c, Lite)
  BY <1>1, <1>2 DEF lite_sanitize, Lite
<1>4. x \in Seq(Lite)
  BY <1>3, KeepType
<1>5. ASSUME ~Contains(x, NL)
      PROVE  x \in Seq(Text \cup {CR})
  <2>1. Len(x) \in Nat /\ DOMAIN x = 1..Len(x) /\ \A i \in 1..Len(x) : x[i] \in Lite
    BY <1>4, LenProperties, ElementOfSeq
  <2>2. \A i \in 1..Len(x) : x[i] # NL
    BY <1>5 DEF Contains
  <2>3. \A i \in 1..Len(x) : x[i] \in Text \cup {CR}
    BY <2>1, <2>2 DEF Lite
  <2>4. PICK P : P = Text \cup {CR}
    OBVIOUS
  <2>5. x \in [1..Len(x) -> P]
    <3>1. x = [i \in 1..Len(x) |-> x[i]]
      BY <1>4, LenProperties
    <3> QED
      BY <2>3, <2>4, <3>1
  <2>6. x \in Seq(P)
    BY <2>1, <2>5
  <2> QED
    BY <2>4, <2>6
<1>6. Keep(Keep(c, Lite), Text) = Keep(c, Text)
  <2>1. Text \in SUBSET Lite
    BY DEF Lite
  <2> QED
    BY <2>1, KeepKeep
<1>7. Contains(Keep(c, Lite), NL) <=> Contains(c, NL)
  <2>1. NL \in Lite
    BY DEF Lite
  <2> QED
    BY <2>1, KeepContains
<1> QED
  BY <1>1, <1>2, <1>3, <1>4, <1>5, <1>6, <1>7 DEF sanitize

\* What sanitize returns of a read behind an earlier one.
LEMMA Gathered ==
  ASSUME TypeOK, NEW s \in Seq(Bytes)
  PROVE  /\ sanitize(m_current_input \o lite_sanitize(s)) \in Seq(Text)
         /\ Plain(s) => sanitize(m_current_input \o lite_sanitize(s)) = sanitize(m_current_input) \o sanitize(s)
<1>1. m_current_input \in Seq(Lite)
  <2>1. m_current_input \in Seq(Text \cup {CR})
    BY DEF TypeOK
  <2>2. Text \cup {CR} \subseteq Lite
    BY DEF Lite
  <2> QED
    BY <2>1, <2>2, SeqMonotonic
<1>2. PICK a \in Seq(Lite), b \in Seq(Lite) : a = m_current_input /\ b = lite_sanitize(s)
  BY <1>1, LiteLaw
<1>3. a \o b \in Seq(Lite)
  BY ConcatProperties
<1>4. Keep(a \o b, Text) \in Seq(Text)
  BY <1>3, KeepType
<1>5. Keep(a \o b, Text) = Keep(a, Text) \o Keep(b, Text)
  BY KeepConcat
<1>6. Plain(s) => sanitize(b) = sanitize(s)
  BY <1>2, LiteLaw
<1> QED
  BY <1>2, <1>4, <1>5, <1>6 DEF sanitize

\* What a poll reads.
LEMMA BufferType ==
  ASSUME TypeOK
  PROVE  SubSeq(wire, 1, Upto(MaxRead)) \in Seq(Bytes)
<1>1. wire \in Seq(Bytes)
  BY DEF TypeOK
<1>2. PICK n \in Nat : n = Len(wire) /\ \A i \in 1..n : wire[i] \in Bytes
  BY <1>1, LenProperties, ElementOfSeq
<1>3. Upto(MaxRead) \in 0..n
  BY <1>2, BoundsAssumption DEF Upto
<1>4. PICK m \in 0..n : m = Upto(MaxRead)
  BY <1>3
<1>5. \A i \in 1..m : wire[i] \in Bytes
  BY <1>2
<1>6. 1 \in Int /\ m \in Int
  OBVIOUS
<1> QED
  BY <1>4, <1>5, <1>6, SubSeqProperties

\* What every read leaves of the types.
LEMMA ReadTypes ==
  ASSUME TypeOK, NEW s \in Seq(Bytes), NEW outcome \in {"break", "fragment", "line"}, Read(s, outcome)
  PROVE  /\ wire' \in Seq(Bytes) /\ consumed' \in Seq(Bytes) /\ merged' \in BOOLEAN
         /\ outcomes' \in Seq({"break", "fragment", "line"})
         /\ Len(outcomes) \in Nat /\ Len(outcomes') = Len(outcomes) + 1
         /\ outcomes'[Len(outcomes) + 1] = outcome
         /\ \A i \in 1..Len(outcomes) : outcomes'[i] = outcomes[i]
<1>1. wire' \in Seq(Bytes)
  <2>1. wire \in Seq(Bytes)
    BY DEF TypeOK
  <2>2. PICK n \in Nat : n = Len(wire) /\ \A i \in 1..n : wire[i] \in Bytes
    BY <2>1, LenProperties, ElementOfSeq
  <2>3. PICK l \in Nat : l = Len(s)
    BY LenProperties
  <2>4. \A i \in (l + 1)..n : wire[i] \in Bytes
    BY <2>2
  <2>5. l + 1 \in Int /\ n \in Int
    OBVIOUS
  <2>6. SubSeq(wire, l + 1, n) \in Seq(Bytes)
    BY <2>4, <2>5, SubSeqProperties
  <2> QED
    BY <2>2, <2>3, <2>6 DEF Read
<1>2. consumed' \in Seq(Bytes)
  BY ConcatProperties DEF TypeOK, Read
<1>3. merged' \in BOOLEAN
  BY Zenon DEF TypeOK, Read
<1>4. PICK K : K = {"break", "fragment", "line"}
  OBVIOUS
<1>5. outcomes \in Seq(K) /\ outcome \in K /\ outcomes' = Append(outcomes, outcome)
  BY <1>4 DEF TypeOK, Read
<1>6. Len(outcomes) \in Nat
  BY <1>5, LenProperties
<1>7. /\ outcomes' \in Seq(K) /\ Len(outcomes') = Len(outcomes) + 1
      /\ outcomes'[Len(outcomes) + 1] = outcome
      /\ \A i \in 1..Len(outcomes) : outcomes'[i] = outcomes[i]
  BY <1>5, AppendProperties
<1> QED
  BY <1>1, <1>2, <1>3, <1>4, <1>6, <1>7

\* A read adds to the bytes consumed; they are plain if both parts are.
LEMMA PlainRead ==
  ASSUME TypeOK, NEW s \in Seq(Bytes), NEW outcome, Read(s, outcome), Harmless'
  PROVE  /\ Harmless /\ Plain(s) /\ ~over /\ s # <<>>
         /\ consumed \in Seq(Bytes) /\ consumed' = consumed \o s
         /\ ~IsBreak(s)
<1>1. ~over /\ s # <<>> /\ consumed \in Seq(Bytes) /\ consumed' = consumed \o s
  BY DEF Read, TypeOK
<1>2. PICK c : c = consumed'
  OBVIOUS
<1>3. \A i \in DOMAIN c : c[i] \notin {NUL, IAC, EOT}
  BY <1>2 DEF Harmless
<1>4. /\ DOMAIN s = 1..Len(s) /\ Len(s) \in Nat
      /\ \A i \in DOMAIN consumed : i \in DOMAIN (consumed \o s) /\ (consumed \o s)[i] = consumed[i]
      /\ \A i \in DOMAIN s : i + Len(consumed) \in DOMAIN (consumed \o s) /\ (consumed \o s)[i + Len(consumed)] = s[i]
  BY <1>1, ConcatIndices
<1>5. Harmless
  BY <1>1, <1>2, <1>3, <1>4 DEF Harmless
<1>6. Plain(s)
  BY <1>1, <1>2, <1>3, <1>4 DEF Plain
<1>7. ~IsBreak(s)
  <2>1. 1 \in DOMAIN s
    BY <1>1, <1>4, EmptySeq
  <2>2. Head(s) = s[1] /\ s[1] # IAC /\ s[1] # EOT
    BY <1>6, <2>1 DEF Plain
  <2>3. s # <<EOT>>
    BY <2>2
  <2> QED
    BY <2>2, <2>3 DEF IsBreak
<1> QED
  BY <1>1, <1>5, <1>6, <1>7
-----------------------------------------------------------------------------
(***************************************************************************)
(* The invariant.  TwoBreaks says what has ended a session; for the next   *)
(* break to do so rightly, the count has to be of the read before it.      *)
(***************************************************************************)
BreakCounted ==
  m_break_count = 1 => Len(outcomes) > 0 /\ outcomes[Len(outcomes)] = "break"

LineInv == LinesIntact /\ NothingLost /\ TwoBreaks /\ BreakCounted

\* It holds at first.
LEMMA LineInit == Init => TypeOK /\ LineInv
<1> SUFFICES ASSUME Init
             PROVE  TypeOK /\ LineInv
  OBVIOUS
<1>1. PICK e : e = <<>>
  OBVIOUS
<1>2. \A S : e \in Seq(S)
  BY <1>1, EmptySeq
<1>3. /\ wire = e /\ m_current_input = e /\ m_break_count = 0 /\ ~over /\ over = FALSE
      /\ input = e /\ consumed = e /\ outcomes = e /\ merged = FALSE
  BY <1>1 DEF Init
<1>4. TypeOK
  BY <1>2, <1>3 DEF TypeOK
<1>5. sanitize(e) = e
  BY <1>1, KeepEmpty DEF sanitize
<1>6. Newlines(e) = {} /\ Len(e) = 0
  BY <1>1, EmptySeq DEF Newlines
<1>7. Rest(e) = e
  <2>1. LastOf(Newlines(e)) = 0
    BY <1>6 DEF LastOf
  <2>2. SubSeq(e, 0 + 1, 0) = e
    <3>1. 0 + 1 \in Int /\ 0 \in Int /\ 0 < 0 + 1
      OBVIOUS
    <3> QED
      BY <1>1, <3>1, SubSeqEmpty
  <2> QED
    BY <1>5, <1>6, <2>1, <2>2 DEF Rest
<1>8. LinesOf(e) = e
  <2>1. Cardinality(Newlines(e)) = 0
    BY <1>6, FS_EmptySet
  <2>2. LinesOf(e) = [n \in 1..0 |-> LineTo(e, EndOfLine(e, n))]
    BY <2>1 DEF LinesOf
  <2>3. PICK f : f = LinesOf(e)
    OBVIOUS
  <2>4. f \in [1..0 -> {}]
    BY <2>2, <2>3
  <2>5. f \in Seq({}) /\ Len(f) = 0
    BY <2>4, LenProperties
  <2> QED
    BY <1>1, <2>3, <2>5, EmptySeq
<1>9. FlattenSeq(e) = e
  <2>1. e \in Seq(Seq(Text))
    BY <1>2
  <2> QED
    BY <1>1, <2>1, FlattenType
<1>10. e \o e = e
  <2>1. e \in Seq({})
    BY <1>2
  <2> QED
    BY <1>1, <2>1, ConcatEmptySeq
<1>11. LinesIntact
  BY <1>3, <1>5, <1>7, <1>8 DEF LinesIntact
<1>12. NothingLost
  BY <1>3, <1>5, <1>9, <1>10 DEF NothingLost
<1>13. TwoBreaks /\ BreakCounted
  BY <1>3 DEF TwoBreaks, BreakCounted
<1> QED
  BY <1>4, <1>11, <1>12, <1>13 DEF LineInv

\* A break keeps it: the bytes are no longer plain, and the break before it is counted.
LEMMA BreakStep ==
  ASSUME TypeOK, LineInv, NEW s \in Seq(Bytes), ReadBreak(s)
  PROVE  TypeOK' /\ LineInv'
<1>1. Read(s, "break") /\ IsBreak(s)
  BY DEF ReadBreak
<1>2. "break" \in {"break", "fragment", "line"}
  OBVIOUS
<1>3. /\ wire' \in Seq(Bytes) /\ consumed' \in Seq(Bytes) /\ merged' \in BOOLEAN
      /\ outcomes' \in Seq({"break", "fragment", "line"})
      /\ Len(outcomes) \in Nat /\ Len(outcomes') = Len(outcomes) + 1
      /\ outcomes'[Len(outcomes) + 1] = "break"
      /\ \A i \in 1..Len(outcomes) : outcomes'[i] = outcomes[i]
  BY <1>1, <1>2, ReadTypes
<1>4. TypeOK'
  <2>1. m_break_count' \in {0, 1} /\ over' \in BOOLEAN
    BY DEF ReadBreak
  <2>2. m_current_input' = m_current_input /\ input' = input
    BY DEF ReadBreak
  <2> QED
    BY <1>3, <2>1, <2>2 DEF TypeOK
<1>5. ~Harmless'
  BY <1>1, PlainRead
<1>6. LinesIntact' /\ NothingLost'
  BY <1>5 DEF LinesIntact, NothingLost
<1>7. BreakCounted'
  BY <1>3 DEF BreakCounted
<1>8. TwoBreaks'
  <2> SUFFICES ASSUME over'
               PROVE  /\ Len(outcomes') > 1
                      /\ outcomes'[Len(outcomes')] = "break"
                      /\ outcomes'[Len(outcomes') - 1] = "break"
    BY DEF TwoBreaks
  <2>1. m_break_count = 1
    BY DEF ReadBreak, TypeOK
  <2>2. Len(outcomes) > 0 /\ outcomes[Len(outcomes)] = "break"
    BY <2>1 DEF LineInv, BreakCounted
  <2>3. Len(outcomes) \in 1..Len(outcomes) /\ Len(outcomes') - 1 = Len(outcomes)
    BY <1>3, <2>2
  <2> QED
    BY <1>3, <2>2, <2>3
<1> QED
  BY <1>4, <1>6, <1>7, <1>8 DEF LineInv

\* A fragment keeps it.
LEMMA FragmentStep ==
  ASSUME TypeOK, LineInv, NEW s \in Seq(Bytes), ReadFragment(s)
  PROVE  TypeOK' /\ LineInv'
<1>1. Read(s, "fragment") /\ ~Contains(lite_sanitize(s), NL)
  BY DEF ReadFragment
<1>2. "fragment" \in {"break", "fragment", "line"}
  OBVIOUS
<1>3. /\ wire' \in Seq(Bytes) /\ consumed' \in Seq(Bytes) /\ merged' \in BOOLEAN
      /\ outcomes' \in Seq({"break", "fragment", "line"})
  BY <1>1, <1>2, ReadTypes
<1>4. /\ m_break_count' = 0 /\ over' = over /\ input' = input
      /\ m_current_input' = m_current_input \o lite_sanitize(s)
  BY DEF ReadFragment
<1>5. TypeOK'
  <2>1. m_current_input \in Seq(Text \cup {CR}) /\ lite_sanitize(s) \in Seq(Text \cup {CR})
    BY <1>1, LiteLaw DEF TypeOK
  <2>2. m_current_input' \in Seq(Text \cup {CR})
    BY <1>4, <2>1, ConcatProperties
  <2>3. m_break_count' \in {0, 1}
    BY <1>4
  <2> QED
    BY <1>3, <1>4, <2>2, <2>3 DEF TypeOK
<1>6. ~over
  BY <1>1 DEF Read
<1>7. TwoBreaks' /\ BreakCounted'
  BY <1>4, <1>6 DEF TwoBreaks, BreakCounted
<1>8. ASSUME Harmless'
      PROVE  /\ sanitize(m_current_input)' = sanitize(m_current_input) \o sanitize(s)
             /\ s \in Seq(Bytes \ {NL})
             /\ Harmless /\ consumed \in Seq(Bytes) /\ consumed' = consumed \o s
  <2>1. Harmless /\ Plain(s) /\ consumed \in Seq(Bytes) /\ consumed' = consumed \o s
    BY <1>1, <1>8, PlainRead
  <2>2. sanitize(m_current_input \o lite_sanitize(s)) = sanitize(m_current_input) \o sanitize(s)
    BY <2>1, Gathered
  <2>3. ~Contains(s, NL)
    BY <1>1, <2>1, LiteLaw
  <2>4. s \in Seq(Bytes \ {NL})
    <3>1. Len(s) \in Nat /\ \A i \in 1..Len(s) : s[i] \in Bytes
      BY LenProperties, ElementOfSeq
    <3>2. PICK P : P = Bytes \ {NL}
      OBVIOUS
    <3>3. \A i \in 1..Len(s) : s[i] \in P
      BY <2>3, <3>1, <3>2 DEF Contains
    <3>4. s = [i \in 1..Len(s) |-> s[i]]
      BY LenProperties
    <3>5. s \in [1..Len(s) -> P]
      BY <3>3, <3>4
    <3>6. s \in Seq(P)
      BY <3>1, <3>5
    <3> QED
      BY <3>2, <3>6
  <2>5. sanitize(m_current_input)' = sanitize(m_current_input \o lite_sanitize(s))
    BY <1>4 DEF sanitize
  <2> QED
    BY <2>1, <2>2, <2>4, <2>5
<1>9. LinesIntact'
  <2> SUFFICES ASSUME ~merged', Harmless'
               PROVE  /\ sanitize(m_current_input)' = Rest(consumed')
                      /\ LinesOf(consumed') = input'
    BY <1>4, <1>6 DEF LinesIntact
  <2>1. ~merged
    BY <1>1 DEF Read
  <2>2. sanitize(m_current_input) = Rest(consumed) /\ LinesOf(consumed) = input
    BY <1>6, <1>8, <2>1 DEF LineInv, LinesIntact
  <2>3. LinesOf(consumed \o s) = LinesOf(consumed) /\ Rest(consumed \o s) = Rest(consumed) \o sanitize(s)
    BY <1>8, LinesConcat
  <2> QED
    BY <1>4, <1>8, <2>2, <2>3
<1>10. NothingLost'
  <2> SUFFICES ASSUME Harmless'
               PROVE  FlattenSeq(input) \o sanitize(m_current_input)' = sanitize(consumed \o s)
    BY <1>4, <1>8 DEF NothingLost, sanitize
  <2>1. FlattenSeq(input) \o sanitize(m_current_input) = sanitize(consumed)
    BY <1>6, <1>8 DEF LineInv, NothingLost
  <2>2. PICK f \in Seq(Text), m \in Seq(Text), b \in Seq(Text) :
          f = FlattenSeq(input) /\ m = sanitize(m_current_input) /\ b = sanitize(s)
    BY FlattenType, KeepType DEF TypeOK, sanitize
  <2>3. sanitize(consumed \o s) = sanitize(consumed) \o b
    BY <1>8, <2>2, KeepConcat DEF sanitize
  <2>4. f \o (m \o b) = (f \o m) \o b
    <3>1. (f \o m) \o b = f \o (m \o b)
      BY ConcatAssociative
    <3> QED
      BY <3>1
  <2> QED
    BY <1>8, <2>1, <2>2, <2>3, <2>4
<1> QED
  BY <1>5, <1>7, <1>9, <1>10 DEF LineInv

\* A line keeps it.  Not merged with the next, its buffer ends with the newline.
LEMMA LineStep ==
  ASSUME TypeOK, LineInv, NEW s \in Seq(Bytes), ReadLine(s)
  PROVE  TypeOK' /\ LineInv'
<1>1. Read(s, "line") /\ Contains(lite_sanitize(s), NL)
  BY DEF ReadLine
<1>2. "line" \in {"break", "fragment", "line"}
  OBVIOUS
<1>3. /\ wire' \in Seq(Bytes) /\ consumed' \in Seq(Bytes) /\ merged' \in BOOLEAN
      /\ outcomes' \in Seq({"break", "fragment", "line"})
      /\ Len(outcomes') = Len(outcomes) + 1
      /\ outcomes'[Len(outcomes) + 1] = "line"
  BY <1>1, <1>2, ReadTypes
<1>4. PICK final \in Seq(Text) : final = sanitize(m_current_input \o lite_sanitize(s))
  BY Gathered
<1>5. /\ m_break_count' = 0 /\ m_current_input' = <<>>
      /\ over' = (final = QuitWord)
      /\ input' = IF over' THEN input ELSE Append(input, final)
  BY <1>4 DEF ReadLine
<1>6. input \in Seq(Seq(Text))
  BY DEF TypeOK
<1>7. TypeOK'
  <2>1. Append(input, final) \in Seq(Seq(Text))
    BY <1>6, AppendProperties
  <2>2. over' \in BOOLEAN /\ m_break_count' \in {0, 1} /\ input' \in Seq(Seq(Text))
    BY <1>5, <1>6, <2>1
  <2>3. m_current_input' \in Seq(Text \cup {CR})
    BY <1>5, EmptySeq
  <2> QED
    BY <1>3, <2>2, <2>3 DEF TypeOK
<1>8. ~over
  BY <1>1 DEF Read
<1>9. TwoBreaks' /\ BreakCounted'
  BY <1>3, <1>5 DEF TwoBreaks, BreakCounted
<1>10. sanitize(m_current_input)' = <<>>
  BY <1>5, KeepEmpty DEF sanitize
<1>11. ASSUME Harmless'
       PROVE  /\ final = sanitize(m_current_input) \o sanitize(s)
              /\ Contains(s, NL)
              /\ Harmless /\ consumed \in Seq(Bytes) /\ consumed' = consumed \o s
  <2>1. Harmless /\ Plain(s) /\ consumed \in Seq(Bytes) /\ consumed' = consumed \o s
    BY <1>1, <1>11, PlainRead
  <2>2. final = sanitize(m_current_input) \o sanitize(s)
    BY <1>4, <2>1, Gathered
  <2>3. Contains(s, NL)
    BY <1>1, <2>1, LiteLaw
  <2> QED
    BY <2>1, <2>2, <2>3
<1>12. LinesIntact'
  <2> SUFFICES ASSUME ~merged', Harmless'
               PROVE  /\ sanitize(m_current_input)' = Rest(consumed')
                      /\ LinesOf(consumed') = IF over' THEN Append(input', QuitWord) ELSE input'
    BY DEF LinesIntact
  <2>1. ~merged /\ \A i \in 1..(Len(s) - 1) : s[i] # NL
    BY <1>1 DEF Read
  <2>2. s # <<>>
    BY <1>1 DEF Read
  <2>3. PICK t \in Seq(Bytes), e \in Bytes : s = Append(t, e)
    BY <2>2, SequenceEmptyOrAppend
  <2>4. PICK n \in Nat : n = Len(t) /\ \A i \in 1..n : t[i] \in Bytes
    BY LenProperties, ElementOfSeq
  <2>5. Len(s) = n + 1 /\ s[n + 1] = e /\ \A i \in 1..n : s[i] = t[i]
    BY <2>3, <2>4, AppendProperties
  <2>6. \A i \in 1..n : t[i] # NL
    <3>1. Len(s) - 1 = n
      BY <2>5
    <3> QED
      BY <2>1, <2>5, <3>1
  <2>7. e = NL
    <3>1. PICK i \in 1..(n + 1) : s[i] = NL
      BY <1>11, <2>5 DEF Contains
    <3>2. i \in 1..n \/ i = n + 1
      OBVIOUS
    <3> QED
      BY <2>5, <2>6, <3>1, <3>2
  <2>8. t \in Seq(Bytes \ {NL})
    <3>1. PICK P : P = Bytes \ {NL}
      OBVIOUS
    <3>2. \A i \in 1..n : t[i] \in P
      BY <2>4, <2>6, <3>1
    <3>3. t = [i \in 1..n |-> t[i]]
      BY <2>4, LenProperties
    <3>4. t \in [1..n -> P]
      BY <3>2, <3>3
    <3>5. t \in Seq(P)
      BY <3>4
    <3> QED
      BY <3>1, <3>5
  <2>9. PICK c \in Seq(Bytes) : c = consumed \o t
    BY <1>11, ConcatProperties
  <2>10. consumed' = Append(c, e)
    BY <1>11, <2>3, <2>9, ConcatAppend
  <2>11. LinesOf(c) = LinesOf(consumed) /\ Rest(c) = Rest(consumed) \o sanitize(t)
    BY <1>11, <2>8, <2>9, LinesConcat
  <2>12. LinesOf(Append(c, e)) = Append(LinesOf(c), Rest(c))
    BY <2>7, LinesAppend
  <2>13. Rest(Append(c, e)) = <<>>
    BY <2>7, RestAppend
  <2>14. sanitize(m_current_input) = Rest(consumed) /\ LinesOf(consumed) = input
    BY <1>8, <1>11, <2>1 DEF LineInv, LinesIntact
  <2>15. sanitize(s) = sanitize(t)
    <3>1. e \notin Text
      BY <2>7, NewlineNotText
    <3>2. Keep(Append(t, e), Text) = Keep(t, Text)
      BY <3>1, KeepAppend
    <3> QED
      BY <2>3, <3>2 DEF sanitize
  <2>16. Rest(c) = final
    BY <1>11, <2>11, <2>14, <2>15
  <2>17. LinesOf(consumed') = Append(input, final)
    BY <2>10, <2>11, <2>12, <2>14, <2>16
  <2>18. Append(input, final) = IF over' THEN Append(input', QuitWord) ELSE input'
    BY <1>5
  <2> QED
    BY <1>10, <2>10, <2>13, <2>17, <2>18
<1>13. NothingLost'
  <2> SUFFICES ASSUME Harmless', ~over'
               PROVE  FlattenSeq(input') \o sanitize(m_current_input)' = sanitize(consumed \o s)
    BY <1>11 DEF NothingLost, sanitize
  <2>1. FlattenSeq(input) \o sanitize(m_current_input) = sanitize(consumed)
    BY <1>8, <1>11 DEF LineInv, NothingLost
  <2>2. PICK f \in Seq(Text), m \in Seq(Text), b \in Seq(Text) :
          f = FlattenSeq(input) /\ m = sanitize(m_current_input) /\ b = sanitize(s)
    <3>1. FlattenSeq(input) \in Seq(Text)
      BY <1>6, FlattenType
    <3>2. sanitize(m_current_input) \in Seq(Text) /\ sanitize(s) \in Seq(Text)
      BY KeepType DEF TypeOK, sanitize
    <3> QED
      BY <3>1, <3>2
  <2>3. sanitize(consumed \o s) = sanitize(consumed) \o b
    BY <1>11, <2>2, KeepConcat DEF sanitize
  <2>4. f \o (m \o b) = (f \o m) \o b
    <3>1. (f \o m) \o b = f \o (m \o b)
      BY ConcatAssociative
    <3> QED
      BY <3>1
  <2>5. FlattenSeq(input') = f \o final
    <3>1. input' = Append(input, final)
      BY <1>5
    <3> QED
      BY <1>6, <2>2, <3>1, FlattenAppend
  <2>6. final = m \o b
    BY <1>11, <2>2
  <2>7. f \o final \in Seq(Text)
    BY ConcatProperties
  <2>8. (f \o final) \o <<>> = f \o final
    BY <2>7, ConcatEmptySeq
  <2> QED
    BY <1>10, <2>1, <2>2, <2>3, <2>4, <2>5, <2>6, <2>8
<1> QED
  BY <1>7, <1>9, <1>12, <1>13 DEF LineInv

\* So does a byte the client sends: nothing but the receive buffer changes.
LEMMA SendsStep ==
  ASSUME TypeOK, LineInv, NEW b \in Bytes, Sends(b)
  PROVE  TypeOK' /\ LineInv'
<1>1. wire' \in Seq(Bytes)
  BY AppendProperties DEF TypeOK, Sends
<1>2. UNCHANGED <<m_current_input, m_break_count, over, input, consumed, outcomes, merged>>
  BY DEF Sends
<1> QED
  BY <1>1, <1>2 DEF TypeOK, LineInv, LinesIntact, NothingLost, TwoBreaks, BreakCounted,
     Harmless

\* A step that changes nothing.
LEMMA LineStutter ==
  ASSUME TypeOK, LineInv, UNCHANGED vars
  PROVE  TypeOK' /\ LineInv'
BY DEF vars, TypeOK, LineInv, LinesIntact, NothingLost, TwoBreaks, BreakCounted,
   Harmless

\* The invariant holds however the bytes are cut into reads.
THEOREM LineInvHolds == Spec => [](TypeOK /\ LineInv)
<1>1. TypeOK /\ LineInv /\ [Next]_vars => (TypeOK /\ LineInv)'
  <2> SUFFICES ASSUME TypeOK, LineInv, [Next]_vars
               PROVE  (TypeOK /\ LineInv)'
    OBVIOUS
  <2>1. CASE FromUserGetInput
    <3>1. PICK s \in Seq(Bytes) : s = SubSeq(wire, 1, Upto(MaxRead))
      BY BufferType
    <3>2. ReadBreak(s) \/ ReadFragment(s) \/ ReadLine(s)
      BY <2>1, <3>1 DEF FromUserGetInput
    <3> QED
      BY <3>2, BreakStep, FragmentStep, LineStep
  <2>2. CASE \E b \in Bytes : Sends(b)
    BY <2>2, SendsStep
  <2>3. CASE UNCHANGED vars
    BY <2>3, LineStutter
  <2> QED
    BY <2>1, <2>2, <2>3 DEF Next
<1> QED
  BY <1>1, LineInit, PTL DEF Spec

\* The variables keep their types, and a fragment never holds a newline.
THEOREM LineTypes == Spec => []TypeOK
BY LineInvHolds, PTL

\* Lines arrive whole, wherever the network cuts them and whatever the size of the buffer.
THEOREM LinesArriveIntact == Spec => []LinesIntact
<1>1. LineInv => LinesIntact
  BY DEF LineInv
<1> QED
  BY <1>1, LineInvHolds, PTL

\* No byte of text is lost, doubled or out of order, even where lines run together.
THEOREM NoTextLost == Spec => []NothingLost
<1>1. LineInv => NothingLost
  BY DEF LineInv
<1> QED
  BY <1>1, LineInvHolds, PTL

\* Only the word quit, or two breaks in a row, end a session.
THEOREM OnlyTwoBreaksEnd == Spec => []TwoBreaks
<1>1. LineInv => TwoBreaks
  BY DEF LineInv
<1> QED
  BY <1>1, LineInvHolds, PTL
-----------------------------------------------------------------------------
(***************************************************************************)
(* The digests.  First the classes, and the arithmetic of blocks.          *)
(***************************************************************************)
\* A byte of a message.
Octet == 0..255

\* The sizes and marks of the block digests.
IsSponge(c) == c.sponge /\ c.mark \in 0..127
AppendsLength(c) == ~c.sponge /\ c.mark = 128 /\ c.blockSize = 64
IsBlockClass(c) == c.blockSize \in Nat \ {0} /\ (IsSponge(c) \/ AppendsLength(c))

\* Every class but CRC32 is one.
LEMMA BlockClasses ==
  ASSUME NEW c \in Classes, c # CRC32
  PROVE  IsBlockClass(c)
<1>1. CASE c \in {MD5, SHA1, SHA256}
  <2>1. c.blockSize = 64 /\ c.mark = 128
    BY <1>1 DEF MD5, SHA1, SHA256
  <2>2. ~MD5.sponge /\ ~SHA1.sponge /\ ~SHA256.sponge
    BY DEF MD5, SHA1, SHA256
  <2>3. ~c.sponge
    BY <1>1, <2>2, Zenon
  <2> QED
    BY <2>1, <2>3 DEF IsBlockClass, AppendsLength
<1>2. CASE \E b \in Variants : c = Keccak(b) \/ c = SHA3(b)
  <2>1. PICK b \in {224, 256, 384, 512} : c = Keccak(b) \/ c = SHA3(b)
    BY <1>2, VariantsAssumption
  <2>2. Rate(b) \in Nat \ {0}
    BY <2>1 DEF Rate
  <2> QED
    <3>1. c.blockSize = Rate(b) /\ c.mark \in {1, 6}
      BY <2>1 DEF Keccak, SHA3
    <3>2. Keccak(b).sponge /\ SHA3(b).sponge
      BY DEF Keccak, SHA3
    <3>3. c.sponge
      <4>1. CASE c = Keccak(b)
        BY <3>2, <4>1
      <4>2. CASE c = SHA3(b)
        BY <3>2, <4>2
      <4> QED
        BY <2>1, <4>1, <4>2
    <3> QED
      BY <2>2, <3>1, <3>3 DEF IsBlockClass, IsSponge
<1> QED
  BY <1>1, <1>2 DEF Classes

(***************************************************************************)
(* Numbers.                                                                *)
(***************************************************************************)
\* The bytes before block k, in blocks of b.
Start(b, k) == (k - 1) * b

\* The bytes of h blocks and of w blocks.
LEMMA StartSum ==
  ASSUME NEW b \in Nat \ {0}, NEW h \in Nat, NEW w \in Nat
  PROVE  Start(b, h + w + 1) = Start(b, h + 1) + Start(b, w + 1)
<1>1. (h + w) * b = h * b + w * b /\ (h + w + 1) - 1 = h + w /\ (h + 1) - 1 = h /\ (w + 1) - 1 = w
  OBVIOUS
<1> QED
  BY <1>1 DEF Start

\* Where blocks begin.
LEMMA StartLaw ==
  ASSUME NEW b \in Nat \ {0}
  PROVE  /\ \A k \in Nat \ {0} : Start(b, k) \in Nat /\ Start(b, k + 1) = Start(b, k) + b
         /\ Start(b, 1) = 0
         /\ \A h \in Nat : \A k \in 1..h : Start(b, k) + b <= Start(b, h + 1)
<1>1. \A k \in Nat \ {0} : Start(b, k) \in Nat /\ Start(b, k + 1) = Start(b, k) + b
  <2> TAKE k \in Nat \ {0}
  <2>1. PICK j \in Nat : j = k - 1
    OBVIOUS
  <2>2. j * b \in Nat /\ (j + 1) * b = j * b + b /\ (k + 1) - 1 = j + 1
    BY <2>1
  <2> QED
    BY <2>1, <2>2 DEF Start
<1>2. Start(b, 1) = 0
  BY DEF Start
<1>3. ASSUME NEW h \in Nat, NEW k \in 1..h
      PROVE  Start(b, k) + b <= Start(b, h + 1)
  <2>1. PICK w \in Nat : w = h - k
    OBVIOUS
  <2>2. k \in Nat /\ k \in Nat \ {0} /\ k + w + 1 = h + 1 /\ w + 1 \in Nat \ {0}
    BY <2>1
  <2>3. Start(b, h + 1) = Start(b, k + 1) + Start(b, w + 1)
    <3>1. Start(b, k + w + 1) = Start(b, k + 1) + Start(b, w + 1)
      BY <2>2, StartSum
    <3> QED
      BY <2>2, <3>1
  <2>4. Start(b, k + 1) = Start(b, k) + b /\ Start(b, k) \in Nat /\ Start(b, w + 1) \in Nat
    BY <1>1, <2>2
  <2> QED
    BY <2>3, <2>4
<1> QED
  BY <1>1, <1>2, <1>3

\* Division.
LEMMA DivLaw ==
  ASSUME NEW b \in Nat \ {0}, NEW n \in Nat
  PROVE  /\ n \div b \in Nat /\ n % b \in 0..(b - 1)
         /\ n = (n \div b) * b + (n % b)
OBVIOUS

\* A quotient is known from the remainder.
LEMMA DivIs ==
  ASSUME NEW b \in Nat \ {0}, NEW h \in Nat, NEW s \in 0..(b - 1)
  PROVE  (h * b + s) \div b = h
OBVIOUS
-----------------------------------------------------------------------------
(***************************************************************************)
(* The blocks compressed and the bytes in the buffer are the message m.    *)
(***************************************************************************)
Octets(b) == [1..b -> Octet]
Buffers(b) == [1..b -> {Junk} \cup Octet]

\* The blocks of hash are the first of m.
BlocksOf(b, hash, m) == \A k \in 1..Len(hash) : \A i \in 1..b : hash[k][i] = m[Start(b, k) + i]

\* The first size bytes of the buffer are those of m behind place p.
RestOf(size, buffer, m, p) == \A i \in 1..size : buffer[i] = m[p + i]

Content(b, hash, size, buffer, m) ==
  /\ hash \in Seq(Octets(b)) /\ size \in 0..(b - 1) /\ buffer \in Buffers(b)
  /\ Len(m) = Start(b, Len(hash) + 1) + size
  /\ BlocksOf(b, hash, m)
  /\ RestOf(size, buffer, m, Start(b, Len(hash) + 1))

\* bytes behind the first size ones of the buffer.
Filled(b, size, buffer, bytes) ==
  [i \in 1..b |-> IF i - size \in DOMAIN bytes THEN bytes[i - size] ELSE buffer[i]]

\* The buffer after bytes have been copied into it.
LEMMA FilledLaw ==
  ASSUME NEW b \in Nat \ {0}, NEW size \in 0..(b - 1), NEW buffer \in Buffers(b),
         NEW bytes \in Seq(Octet), size + Len(bytes) <= b
  PROVE  /\ Len(bytes) \in Nat
         /\ Filled(b, size, buffer, bytes) \in Buffers(b)
         /\ \A i \in 1..size : Filled(b, size, buffer, bytes)[i] = buffer[i]
         /\ \A i \in (size + 1)..(size + Len(bytes)) : Filled(b, size, buffer, bytes)[i] = bytes[i - size]
<1>1. PICK l \in Nat : l = Len(bytes) /\ DOMAIN bytes = 1..l /\ \A i \in 1..l : bytes[i] \in Octet
  BY LenProperties, ElementOfSeq
<1>2. PICK f : f = Filled(b, size, buffer, bytes)
  OBVIOUS
<1>3. f = [i \in 1..b |-> IF i - size \in 1..l THEN bytes[i - size] ELSE buffer[i]]
  BY <1>1, <1>2 DEF Filled
<1>4. \A i \in 1..b : f[i] \in {Junk} \cup Octet
  BY <1>1, <1>3 DEF Buffers
<1>5. f \in Buffers(b)
  BY <1>3, <1>4 DEF Buffers
<1>6. \A i \in 1..size : i \in 1..b /\ i - size \notin 1..l
  BY <1>1
<1>7. \A i \in (size + 1)..(size + l) : i \in 1..b /\ i - size \in 1..l
  BY <1>1
<1> QED
  BY <1>1, <1>2, <1>3, <1>5, <1>6, <1>7

\* The message with more bytes, place by place.
LEMMA Longer ==
  ASSUME NEW m \in Seq(Octet), NEW bytes \in Seq(Octet)
  PROVE  /\ m \o bytes \in Seq(Octet)
         /\ Len(m) \in Nat /\ Len(bytes) \in Nat /\ Len(m \o bytes) = Len(m) + Len(bytes)
         /\ \A j \in 1..Len(m) : (m \o bytes)[j] = m[j]
         /\ \A j \in 1..Len(bytes) : (m \o bytes)[Len(m) + j] = bytes[j]
<1>1. PICK n \in Nat, l \in Nat : n = Len(m) /\ l = Len(bytes)
  BY LenProperties
<1>2. /\ m \o bytes \in Seq(Octet) /\ Len(m \o bytes) = n + l
      /\ \A i \in 1..(n + l) : (m \o bytes)[i] = IF i <= n THEN m[i] ELSE bytes[i - n]
  BY <1>1, ConcatProperties
<1>3. \A j \in 1..n : (m \o bytes)[j] = m[j]
  BY <1>2
<1>4. \A j \in 1..l : n + j \in 1..(n + l) /\ ~(n + j <= n) /\ (n + j) - n = j
  OBVIOUS
<1>5. \A j \in 1..l : (m \o bytes)[n + j] = bytes[j]
  BY <1>2, <1>4
<1> QED
  BY <1>1, <1>2, <1>3, <1>5

\* The blocks that have been compressed stay those of a longer message.
LEMMA BlocksStay ==
  ASSUME NEW b \in Nat \ {0}, NEW hash, NEW size, NEW buffer, NEW m \in Seq(Octet), NEW bytes \in Seq(Octet),
         Content(b, hash, size, buffer, m)
  PROVE  /\ Len(hash) \in Nat /\ Start(b, Len(hash) + 1) \in Nat
         /\ BlocksOf(b, hash, m \o bytes)
         /\ RestOf(size, buffer, m \o bytes, Start(b, Len(hash) + 1))
<1>1. PICK h \in Nat : h = Len(hash)
  BY LenProperties DEF Content
<1>2. PICK q \in Nat : q = Start(b, h + 1)
  BY StartLaw
<1>3. /\ size \in 0..(b - 1) /\ Len(m) = q + size
      /\ BlocksOf(b, hash, m) /\ RestOf(size, buffer, m, q)
  BY <1>1, <1>2 DEF Content
<1>4. PICK mm : mm = m \o bytes
  OBVIOUS
<1>5. \A j \in 1..Len(m) : mm[j] = m[j]
  BY <1>4, Longer
<1>6. ASSUME NEW k \in 1..h, NEW i \in 1..b
      PROVE  hash[k][i] = mm[Start(b, k) + i]
  <2>0. k \in Nat \ {0}
    OBVIOUS
  <2>1. PICK p \in Nat : p = Start(b, k) /\ p + b <= q
    <3>1. Start(b, k) \in Nat
      BY <2>0, StartLaw
    <3>2. Start(b, k) + b <= Start(b, h + 1)
      BY StartLaw
    <3> QED
      BY <1>2, <3>1, <3>2
  <2>2. p + i \in 1..Len(m)
    BY <1>3, <2>1
  <2>3. hash[k][i] = m[p + i]
    BY <1>1, <1>3, <2>1 DEF BlocksOf
  <2> QED
    BY <1>5, <2>1, <2>2, <2>3
<1>7. ASSUME NEW i \in 1..size
      PROVE  buffer[i] = mm[q + i]
  <2>1. q + i \in 1..Len(m)
    BY <1>3
  <2> QED
    BY <1>3, <1>5, <2>1 DEF RestOf
<1>8. BlocksOf(b, hash, mm)
  BY <1>1, <1>6 DEF BlocksOf
<1>9. RestOf(size, buffer, mm, q)
  BY <1>7 DEF RestOf
<1> QED
  BY <1>1, <1>2, <1>4, <1>8, <1>9

\* The buffer goes on with the bytes behind the message.
LEMMA FilledContent ==
  ASSUME NEW b \in Nat \ {0}, NEW hash, NEW size, NEW buffer, NEW m \in Seq(Octet), NEW bytes \in Seq(Octet),
         Content(b, hash, size, buffer, m), size + Len(bytes) <= b
  PROVE  /\ Filled(b, size, buffer, bytes) \in Buffers(b)
         /\ RestOf(size + Len(bytes), Filled(b, size, buffer, bytes), m \o bytes, Start(b, Len(hash) + 1))
<1>1. PICK q \in Nat : q = Start(b, Len(hash) + 1)
  BY BlocksStay
<1>2. PICK mm : mm = m \o bytes
  OBVIOUS
<1>3. RestOf(size, buffer, mm, q)
  BY <1>1, <1>2, BlocksStay
<1>4. size \in 0..(b - 1) /\ buffer \in Buffers(b) /\ Len(m) = q + size
  BY <1>1 DEF Content
<1>5. PICK l \in Nat : l = Len(bytes)
  BY LenProperties
<1>6. PICK f : f = Filled(b, size, buffer, bytes)
  OBVIOUS
<1>7. /\ f \in Buffers(b)
      /\ \A i \in 1..size : f[i] = buffer[i]
      /\ \A i \in (size + 1)..(size + Len(bytes)) : f[i] = bytes[i - size]
  <2>1. size \in 0..(b - 1) /\ buffer \in Buffers(b)
    BY <1>4
  <2>2. /\ Filled(b, size, buffer, bytes) \in Buffers(b)
        /\ \A i \in 1..size : Filled(b, size, buffer, bytes)[i] = buffer[i]
        /\ \A i \in (size + 1)..(size + Len(bytes)) : Filled(b, size, buffer, bytes)[i] = bytes[i - size]
    BY <2>1, FilledLaw
  <2> QED
    BY <1>6, <2>2
<1>8. \A j \in 1..Len(bytes) : mm[Len(m) + j] = bytes[j]
  BY <1>2, Longer
<1>9. ASSUME NEW i \in 1..(size + l)
      PROVE  f[i] = mm[q + i]
  <2>1. CASE i \in 1..size
    BY <1>3, <1>7, <2>1 DEF RestOf
  <2>2. CASE i \notin 1..size
    <3>1. PICK j \in 1..l : j = i - size
      BY <1>4, <2>2
    <3>2. Len(m) + j = q + i /\ i \in (size + 1)..(size + l)
      BY <1>4, <3>1, <2>2
    <3>3. mm[Len(m) + j] = bytes[j] /\ f[i] = bytes[i - size]
      BY <1>5, <1>7, <1>8, <3>2
    <3> QED
      BY <3>1, <3>2, <3>3
  <2> QED
    BY <2>1, <2>2
<1>10. RestOf(size + l, f, mm, q)
  BY <1>9 DEF RestOf
<1> QED
  BY <1>1, <1>2, <1>5, <1>6, <1>7, <1>10

\* Bytes that do not fill the buffer.
LEMMA FillContent ==
  ASSUME NEW b \in Nat \ {0}, NEW hash, NEW size, NEW buffer, NEW m \in Seq(Octet), NEW bytes \in Seq(Octet),
         Content(b, hash, size, buffer, m), size + Len(bytes) < b
  PROVE  Content(b, hash, size + Len(bytes), Filled(b, size, buffer, bytes), m \o bytes)
<1>1. PICK q \in Nat : q = Start(b, Len(hash) + 1)
  BY BlocksStay
<1>2. BlocksOf(b, hash, m \o bytes)
  BY BlocksStay
<1>3. hash \in Seq(Octets(b)) /\ size \in 0..(b - 1) /\ Len(m) = q + size
  BY <1>1 DEF Content
<1>4. PICK l \in Nat : l = Len(bytes)
  BY LenProperties
<1>5. size + Len(bytes) <= b /\ size + l \in 0..(b - 1)
  BY <1>3, <1>4
<1>6. /\ Filled(b, size, buffer, bytes) \in Buffers(b)
      /\ RestOf(size + Len(bytes), Filled(b, size, buffer, bytes), m \o bytes, Start(b, Len(hash) + 1))
  BY <1>5, FilledContent
<1>7. Len(m \o bytes) = Len(m) + Len(bytes)
  BY Longer
<1>8. Len(m \o bytes) = q + (size + l)
  BY <1>3, <1>4, <1>7
<1> QED
  BY <1>1, <1>2, <1>3, <1>4, <1>5, <1>6, <1>8 DEF Content

\* Bytes that fill the buffer, which is compressed.
LEMMA FlushContent ==
  ASSUME NEW b \in Nat \ {0}, NEW hash, NEW size, NEW buffer, NEW m \in Seq(Octet), NEW bytes \in Seq(Octet),
         Content(b, hash, size, buffer, m), size + Len(bytes) = b
  PROVE  Content(b, Append(hash, Filled(b, size, buffer, bytes)), 0, Filled(b, size, buffer, bytes), m \o bytes)
<1>1. PICK q \in Nat : q = Start(b, Len(hash) + 1)
  BY BlocksStay
<1>2. PICK mm \in Seq(Octet) : mm = m \o bytes
  BY Longer
<1>3. BlocksOf(b, hash, mm)
  BY <1>2, BlocksStay
<1>4. hash \in Seq(Octets(b)) /\ size \in 0..(b - 1) /\ Len(m) = q + size
  BY <1>1 DEF Content
<1>5. PICK l \in Nat : l = Len(bytes)
  BY LenProperties
<1>6. PICK f : f = Filled(b, size, buffer, bytes)
  OBVIOUS
<1>7. f \in Buffers(b) /\ RestOf(b, f, mm, q)
  <2>1. size + Len(bytes) <= b
    OBVIOUS
  <2> QED
    BY <1>1, <1>2, <1>6, <2>1, FilledContent
<1>8. Len(mm) = q + b
  <2>1. Len(mm) = Len(m) + l
    BY <1>2, <1>5, Longer
  <2>2. size + l = b
    BY <1>5
  <2> QED
    BY <1>4, <2>1, <2>2
<1>9. f \in Octets(b)
  <2>1. \A i \in 1..b : f[i] \in Octet
    <3> TAKE i \in 1..b
    <3>1. q + i \in 1..Len(mm)
      BY <1>8
    <3>2. mm[q + i] \in Octet
      BY <3>1, ElementOfSeq
    <3> QED
      BY <1>7, <3>2 DEF RestOf
  <2> QED
    BY <1>7, <2>1 DEF Buffers, Octets
<1>10. PICK h \in Nat : h = Len(hash)
  BY BlocksStay
<1>11. PICK g : g = Append(hash, f)
  OBVIOUS
<1>12. g \in Seq(Octets(b)) /\ Len(g) = h + 1 /\ g[h + 1] = f /\ \A k \in 1..h : g[k] = hash[k]
  BY <1>4, <1>9, <1>10, <1>11, AppendProperties
<1>13. Start(b, (h + 1) + 1) = q + b
  <2>1. h + 1 \in Nat \ {0}
    OBVIOUS
  <2> QED
    BY <1>1, <1>10, <2>1, StartLaw
<1>14. BlocksOf(b, g, mm)
  <2>1. ASSUME NEW k \in 1..(h + 1), NEW i \in 1..b
        PROVE  g[k][i] = mm[Start(b, k) + i]
    <3>1. CASE k \in 1..h
      BY <1>3, <1>10, <1>12, <3>1 DEF BlocksOf
    <3>2. CASE k = h + 1
      <4>1. Start(b, k) = q /\ g[k] = f
        BY <1>1, <1>10, <1>12, <3>2
      <4> QED
        BY <1>7, <4>1 DEF RestOf
    <3> QED
      BY <3>1, <3>2
  <2> QED
    BY <1>12, <2>1 DEF BlocksOf
<1>15. 0 \in 0..(b - 1) /\ Len(mm) = Start(b, Len(g) + 1) + 0
  BY <1>8, <1>12, <1>13
<1>16. RestOf(0, f, mm, Start(b, Len(g) + 1))
  BY DEF RestOf
<1>17. Content(b, g, 0, f, mm)
  BY <1>7, <1>12, <1>14, <1>15, <1>16 DEF Content
<1> QED
  BY <1>2, <1>6, <1>11, <1>17

\* Whole blocks, compressed where they are.
LEMMA BlocksContent ==
  ASSUME NEW b \in Nat \ {0}, NEW hash, NEW buffer, NEW m \in Seq(Octet), NEW bytes \in Seq(Octet),
         Content(b, hash, 0, buffer, m),
         NEW blocks \in Seq(Octets(b)), Len(bytes) = Start(b, Len(blocks) + 1), BlocksOf(b, blocks, bytes)
  PROVE  Content(b, hash \o blocks, 0, buffer, m \o bytes)
<1>1. PICK h \in Nat, w \in Nat : h = Len(hash) /\ w = Len(blocks)
  BY BlocksStay, LenProperties
<1>2. PICK q \in Nat : q = Start(b, h + 1)
  BY <1>1, BlocksStay
<1>3. PICK mm \in Seq(Octet) : mm = m \o bytes
  BY Longer
<1>4. BlocksOf(b, hash, mm)
  BY <1>3, BlocksStay
<1>5. hash \in Seq(Octets(b)) /\ buffer \in Buffers(b) /\ Len(m) = q + 0
  BY <1>1, <1>2 DEF Content
<1>6. PICK g : g = hash \o blocks
  OBVIOUS
<1>7. /\ g \in Seq(Octets(b)) /\ Len(g) = h + w
      /\ \A k \in 1..(h + w) : g[k] = IF k <= h THEN hash[k] ELSE blocks[k - h]
  BY <1>1, <1>5, <1>6, ConcatProperties
<1>8. PICK e \in Nat : e = Start(b, w + 1) /\ Len(bytes) = e
  <2>1. w + 1 \in Nat \ {0}
    OBVIOUS
  <2>2. Start(b, w + 1) \in Nat
    BY <2>1, StartLaw
  <2> QED
    BY <1>1, <2>2
<1>9. Start(b, h + w + 1) = q + e
  <2>1. Start(b, h + w + 1) = Start(b, h + 1) + Start(b, w + 1)
    BY StartSum
  <2> QED
    BY <1>2, <1>8, <2>1
<1>10. Len(mm) = q + e /\ \A j \in 1..e : mm[q + j] = bytes[j]
  <2>1. Len(m) = q
    BY <1>5
  <2>2. Len(mm) = Len(m) + Len(bytes) /\ \A j \in 1..Len(bytes) : mm[Len(m) + j] = bytes[j]
    BY <1>3, Longer
  <2> QED
    BY <1>8, <2>1, <2>2
<1>11. BlocksOf(b, g, mm)
  <2>1. ASSUME NEW k \in 1..(h + w), NEW i \in 1..b
        PROVE  g[k][i] = mm[Start(b, k) + i]
    <3>1. CASE k <= h
      <4>2. k \in 1..h
        BY <3>1
      <4>3. g[k] = hash[k]
        BY <1>7, <3>1
      <4>1. k \in 1..h /\ g[k] = hash[k]
        BY <4>2, <4>3
      <4> QED
        BY <1>1, <1>4, <4>1 DEF BlocksOf
    <3>2. CASE ~(k <= h)
      <4>1. PICK j \in 1..w, v \in Nat : j = k - h /\ v = j - 1
        BY <3>2
      <4>2. j \in Nat \ {0} /\ v + 1 = j /\ h + v + 1 = k
        BY <4>1
      <4>3. Start(b, k) = Start(b, h + 1) + Start(b, v + 1)
        <5>1. Start(b, h + v + 1) = Start(b, h + 1) + Start(b, v + 1)
          BY <4>1, StartSum
        <5> QED
          BY <4>2, <5>1
      <4>4. PICK p \in Nat : p = Start(b, j)
        BY <4>2, StartLaw
      <4>5. p + b <= e
        <5>1. Start(b, j) + b <= Start(b, w + 1)
          BY StartLaw
        <5> QED
          BY <1>8, <4>4, <5>1
      <4>6. p + i \in 1..e /\ Start(b, k) + i = q + (p + i)
        <5>1. p + i \in 1..e
          BY <4>5
        <5>2. Start(b, k) = q + p
          BY <1>2, <4>2, <4>3, <4>4
        <5> QED
          BY <5>1, <5>2
      <4>7. mm[Start(b, k) + i] = bytes[p + i]
        BY <1>10, <4>6
      <4>8. g[k] = blocks[j]
        BY <1>7, <3>2, <4>1
      <4>9. blocks[j][i] = bytes[p + i]
        BY <1>1, <4>4 DEF BlocksOf
      <4> QED
        BY <4>7, <4>8, <4>9
    <3> QED
      BY <3>1, <3>2
  <2> QED
    BY <1>7, <2>1 DEF BlocksOf
<1>12. 0 \in 0..(b - 1) /\ Len(mm) = Start(b, Len(g) + 1) + 0
  BY <1>7, <1>9, <1>10
<1>13. RestOf(0, buffer, mm, Start(b, Len(g) + 1))
  BY DEF RestOf
<1>14. Content(b, g, 0, buffer, mm)
  BY <1>5, <1>7, <1>11, <1>12, <1>13 DEF Content
<1> QED
  BY <1>3, <1>6, <1>14
-----------------------------------------------------------------------------
(***************************************************************************)
(* Objects.                                                                *)
(***************************************************************************)
Object(hash, numBytes, bufferSize, buffer) ==
  [hash |-> hash, numBytes |-> numBytes, bufferSize |-> bufferSize, buffer |-> buffer]

\* The object o of class c is the one that has been given the bytes m.
Absorbs(c, o, m) ==
  \E hash, size, buffer :
    /\ o = Object(hash, Start(c.blockSize, Len(hash) + 1), size, buffer)
    /\ Content(c.blockSize, hash, size, buffer, m)

\* Copying bytes into the buffer.
LEMMA FillIs ==
  ASSUME NEW b \in Nat \ {0}, NEW hash, NEW n, NEW size, NEW buffer \in Buffers(b), NEW bytes
  PROVE  Fill(Object(hash, n, size, buffer), bytes)
           = Object(hash, n, size + Len(bytes), Filled(b, size, buffer, bytes))
<1>1. DOMAIN buffer = 1..b
  BY DEF Buffers
<1>2. PICK f, l : f = Filled(b, size, buffer, bytes) /\ l = size + Len(bytes)
  OBVIOUS
<1>3. PICK o : o = Object(hash, n, size, buffer)
  OBVIOUS
<1>4. o.buffer = buffer /\ o.bufferSize = size
  BY <1>3 DEF Object
<1>5. [i \in DOMAIN o.buffer |-> IF i - o.bufferSize \in DOMAIN bytes THEN bytes[i - o.bufferSize] ELSE o.buffer[i]] = f
  BY <1>1, <1>2, <1>4 DEF Filled
<1>6. Fill(o, bytes) = [o EXCEPT !.buffer = f, !.bufferSize = l]
  BY <1>2, <1>4, <1>5 DEF Fill
<1>7. [o EXCEPT !.buffer = f, !.bufferSize = l] = [[o EXCEPT !.buffer = f] EXCEPT !.bufferSize = l]
  OBVIOUS
<1>8. [o EXCEPT !.buffer = f] = Object(hash, n, size, f)
  BY <1>3 DEF Object
<1>9. [Object(hash, n, size, f) EXCEPT !.bufferSize = l] = Object(hash, n, l, f)
  BY DEF Object
<1> QED
  BY <1>2, <1>3, <1>6, <1>7, <1>8, <1>9

\* Compressing a full buffer.
LEMMA FlushIs ==
  ASSUME NEW c, NEW hash, NEW n, NEW size, NEW buffer
  PROVE  /\ size = c.blockSize =>
              Flush(c, Object(hash, n, size, buffer)) = Object(Append(hash, buffer), n + c.blockSize, 0, buffer)
         /\ size # c.blockSize => Flush(c, Object(hash, n, size, buffer)) = Object(hash, n, size, buffer)
BY DEF Flush, ProcessBlock, Object

\* The first part of add(): the buffer is topped up, and compressed if it is full.
LEMMA Topped ==
  ASSUME NEW c, c.blockSize \in Nat \ {0}, NEW o, NEW m \in Seq(Octet), Absorbs(c, o, m),
         NEW bytes \in Seq(Octet), o.bufferSize + Len(bytes) <= c.blockSize
  PROVE  /\ Absorbs(c, Flush(c, Fill(o, bytes)), m \o bytes)
         /\ o.bufferSize + Len(bytes) = c.blockSize => Flush(c, Fill(o, bytes)).bufferSize = 0
         /\ o.bufferSize + Len(bytes) # c.blockSize =>
              /\ Flush(c, Fill(o, bytes)) = Fill(o, bytes)
              /\ Fill(o, bytes).bufferSize = o.bufferSize + Len(bytes)
<1>1. PICK b \in Nat \ {0} : b = c.blockSize
  OBVIOUS
<1>2. PICK hash, size, buffer : /\ o = Object(hash, Start(b, Len(hash) + 1), size, buffer)
                                /\ Content(b, hash, size, buffer, m)
  BY <1>1 DEF Absorbs
<1>3. o.bufferSize = size /\ buffer \in Buffers(b) /\ size \in 0..(b - 1)
  BY <1>2 DEF Object, Content
<1>4. PICK l \in Nat : l = Len(bytes)
  BY LenProperties
<1>5. PICK n, f : n = Start(b, Len(hash) + 1) /\ f = Filled(b, size, buffer, bytes)
  OBVIOUS
<1>6. Fill(o, bytes) = Object(hash, n, size + Len(bytes), f)
  BY <1>2, <1>3, <1>5, FillIs
<1>7. CASE size + l = b
  <2>1. Flush(c, Fill(o, bytes)) = Object(Append(hash, f), n + c.blockSize, 0, f)
    BY <1>1, <1>4, <1>6, <1>7, FlushIs
  <2>2. Content(b, Append(hash, f), 0, f, m \o bytes)
    BY <1>2, <1>4, <1>5, <1>7, FlushContent
  <2>3. n + b = Start(b, Len(Append(hash, f)) + 1)
    <3>1. PICK h \in Nat : h = Len(hash)
      BY <1>2, BlocksStay
    <3>2. Len(Append(hash, f)) = h + 1
      <4>1. hash \in Seq(Octets(b)) /\ Append(hash, f) \in Seq(Octets(b))
        BY <1>2, <2>2 DEF Content
      <4>2. hash \in Seq(Octets(b) \cup {f}) /\ f \in Octets(b) \cup {f}
        BY <4>1, SeqMonotonic
      <4> QED
        BY <3>1, <4>2, AppendProperties
    <3>3. h + 1 \in Nat \ {0}
      OBVIOUS
    <3> QED
      BY <1>5, <3>1, <3>2, <3>3, StartLaw
  <2>4. Absorbs(c, Flush(c, Fill(o, bytes)), m \o bytes)
    BY <1>1, <2>1, <2>2, <2>3 DEF Absorbs
  <2>5. Flush(c, Fill(o, bytes)).bufferSize = 0
    BY <2>1 DEF Object
  <2> QED
    BY <1>1, <1>3, <1>4, <1>7, <2>4, <2>5
<1>8. CASE size + l # b
  <2>1. Flush(c, Fill(o, bytes)) = Object(hash, n, size + Len(bytes), f)
    BY <1>1, <1>4, <1>6, <1>8, FlushIs
  <2>2. size + Len(bytes) < b
    BY <1>1, <1>3, <1>4, <1>8
  <2>3. Content(b, hash, size + Len(bytes), f, m \o bytes)
    BY <1>2, <1>5, <2>2, FillContent
  <2>4. Absorbs(c, Flush(c, Fill(o, bytes)), m \o bytes)
    BY <1>1, <1>5, <2>1, <2>3 DEF Absorbs
  <2>5. Fill(o, bytes).bufferSize = size + Len(bytes)
    BY <1>6 DEF Object
  <2> QED
    BY <1>1, <1>3, <1>4, <1>6, <1>8, <2>1, <2>4, <2>5
<1> QED
  BY <1>7, <1>8

\* Part of a sequence of bytes.
LEMMA Part ==
  ASSUME NEW data \in Seq(Octet), NEW i \in Nat, NEW j \in Nat, i <= j, j <= Len(data)
  PROVE  /\ SubSeq(data, i + 1, j) \in Seq(Octet)
         /\ Len(SubSeq(data, i + 1, j)) = j - i
         /\ \A x \in 1..(j - i) : SubSeq(data, i + 1, j)[x] = data[i + x]
<1>1. PICK n \in Nat : n = Len(data)
  BY LenProperties
<1>2. i + 1 \in Int /\ j \in Int /\ \A x \in (i + 1)..j : data[x] \in Octet
  <2>1. \A x \in (i + 1)..j : x \in 1..Len(data)
    BY <1>1
  <2> QED
    BY <2>1, ElementOfSeq
<1>3. PICK s : s = SubSeq(data, i + 1, j)
  OBVIOUS
<1>4. /\ s \in Seq(Octet) /\ Len(s) = (IF i + 1 <= j THEN j - (i + 1) + 1 ELSE 0)
      /\ \A x \in 1..(j - (i + 1) + 1) : s[x] = data[(i + 1) + x - 1]
  BY <1>2, <1>3, SubSeqProperties
<1>5. j - (i + 1) + 1 = j - i /\ (~(i + 1 <= j) => j - i = 0)
  OBVIOUS
<1>6. \A x \in 1..(j - i) : (i + 1) + x - 1 = i + x
  OBVIOUS
<1> QED
  BY <1>3, <1>4, <1>5, <1>6

\* Two parts that follow each other.
LEMMA PartsJoin ==
  ASSUME NEW data \in Seq(Octet), NEW i \in Nat, NEW j \in Nat, NEW k \in Nat, i <= j, j <= k, k <= Len(data)
  PROVE  SubSeq(data, i + 1, j) \o SubSeq(data, j + 1, k) = SubSeq(data, i + 1, k)
<1>1. PICK n \in Nat : n = Len(data)
  BY LenProperties
<1>2. i + 1 \in 1..Len(data) + 1 /\ j \in (i + 1) - 1..Len(data) /\ k \in j..Len(data)
  BY <1>1
<1> QED
  BY <1>2, ConcatAdjacentSubSeq

\* The blocks that lie behind the first bytes of data.
BlocksBehind(b, data, taken, whole) ==
  [k \in 1..whole |-> SubSeq(data, taken + (k - 1) * b + 1, taken + k * b)]

\* These are blocks of that part of data.
LEMMA BlocksBehindLaw ==
  ASSUME NEW b \in Nat \ {0}, NEW data \in Seq(Octet), NEW taken \in Nat, NEW whole \in Nat, NEW e \in Nat,
         e = Start(b, whole + 1), taken + e <= Len(data)
  PROVE  /\ BlocksBehind(b, data, taken, whole) \in Seq(Octets(b))
         /\ Len(BlocksBehind(b, data, taken, whole)) = whole
         /\ BlocksOf(b, BlocksBehind(b, data, taken, whole), SubSeq(data, taken + 1, taken + e))
<1>1. PICK n \in Nat : n = Len(data)
  BY LenProperties
<1>2. PICK blocks : blocks = BlocksBehind(b, data, taken, whole)
  OBVIOUS
<1>3. PICK middle : middle = SubSeq(data, taken + 1, taken + e)
  OBVIOUS
<1>4. \A x \in 1..e : middle[x] = data[taken + x]
  <2>1. taken + e \in Nat /\ taken <= taken + e /\ (taken + e) - taken = e
    OBVIOUS
  <2> QED
    BY <1>3, <2>1, Part
<1>5. ASSUME NEW k \in 1..whole
      PROVE  blocks[k] \in Octets(b) /\ \A i \in 1..b : blocks[k][i] = middle[Start(b, k) + i]
  <2>1. k \in Nat \ {0}
    OBVIOUS
  <2>2. PICK p \in Nat : p = Start(b, k) /\ p + b <= e /\ k * b = p + b
    <3>1. Start(b, k) \in Nat /\ Start(b, k) + b <= Start(b, whole + 1) /\ Start(b, k + 1) = Start(b, k) + b
      BY <2>1, StartLaw
    <3>2. Start(b, k + 1) = k * b
      <4>1. (k + 1) - 1 = k
        OBVIOUS
      <4> QED
        BY <4>1 DEF Start
    <3> QED
      BY <3>1, <3>2
  <2>3. blocks[k] = SubSeq(data, (taken + p) + 1, taken + p + b)
    <3>1. blocks[k] = SubSeq(data, taken + Start(b, k) + 1, taken + k * b)
      BY <1>2 DEF BlocksBehind, Start
    <3>2. taken + p + b = taken + (p + b)
      OBVIOUS
    <3> QED
      BY <2>2, <3>1, <3>2
  <2>4. /\ blocks[k] \in Seq(Octet) /\ Len(blocks[k]) = b
        /\ \A x \in 1..b : blocks[k][x] = data[taken + p + x]
    <3>0. p + b <= e
      BY <2>2
    <3>1. /\ taken + p \in Nat /\ taken + p + b \in Nat /\ taken + p <= taken + p + b
          /\ taken + p + b <= Len(data) /\ (taken + p + b) - (taken + p) = b
      BY <1>1, <3>0
    <3> QED
      BY <2>3, <3>1, Part
  <2>5. blocks[k] \in Octets(b)
    BY <2>4, LenProperties DEF Octets
  <2>6. \A i \in 1..b : p + i \in 1..e /\ taken + (p + i) = taken + p + i
    BY <2>2
  <2>7. \A i \in 1..b : middle[p + i] = data[taken + p + i]
    BY <1>4, <2>6
  <2> QED
    BY <2>2, <2>4, <2>5, <2>7
<1>6. blocks \in Seq(Octets(b)) /\ Len(blocks) = whole
  <2>1. blocks \in [1..whole -> Octets(b)]
    BY <1>2, <1>5 DEF BlocksBehind
  <2> QED
    BY <2>1
<1>7. BlocksOf(b, blocks, middle)
  BY <1>5, <1>6 DEF BlocksOf
<1> QED
  BY <1>2, <1>3, <1>6, <1>7

\* The object after blocks, of so many bytes, have been compressed where they are.
Compressed(o, blocks, bytes) == [o EXCEPT !.hash = @ \o blocks, !.numBytes = @ + bytes]

\* Its fields.
LEMMA AbsorbedIs ==
  ASSUME NEW hash, NEW n, NEW buffer, NEW blocks, NEW bytes
  PROVE  Compressed(Object(hash, n, 0, buffer), blocks, bytes)
           = Object(hash \o blocks, n + bytes, 0, buffer)
<1>1. PICK o : o = Object(hash, n, 0, buffer)
  OBVIOUS
<1>2. o.hash = hash /\ o.numBytes = n
  BY <1>1 DEF Object
<1>3. PICK g, l : g = hash \o blocks /\ l = n + bytes
  OBVIOUS
<1>4. Compressed(o, blocks, bytes) = [o EXCEPT !.hash = g, !.numBytes = l]
  BY <1>2, <1>3 DEF Compressed
<1>5. [o EXCEPT !.hash = g, !.numBytes = l] = [[o EXCEPT !.hash = g] EXCEPT !.numBytes = l]
  OBVIOUS
<1>6. [o EXCEPT !.hash = g] = Object(g, n, 0, buffer)
  BY <1>1 DEF Object
<1>7. [Object(g, n, 0, buffer) EXCEPT !.numBytes = l] = Object(g, l, 0, buffer)
  BY DEF Object
<1> QED
  BY <1>1, <1>3, <1>4, <1>5, <1>6, <1>7

\* The object's buffer is empty; the class has blocks of b bytes.
Emptied(o) == o.bufferSize = 0
HasBlocks(c, b) == c.blockSize = b

\* The second part of add(): whole blocks of data, when the buffer is empty.
LEMMA AbsorbsBlocks ==
  ASSUME NEW c, NEW b \in Nat \ {0}, HasBlocks(c, b), NEW o, NEW m \in Seq(Octet), Absorbs(c, o, m),
         Emptied(o),
         NEW data \in Seq(Octet), NEW taken \in Nat, NEW whole \in Nat, NEW e \in Nat,
         e = Start(b, whole + 1), taken + e <= Len(data)
  PROVE  /\ Absorbs(c, Compressed(o, BlocksBehind(b, data, taken, whole), e),
                    m \o SubSeq(data, taken + 1, taken + e))
         /\ Emptied(Compressed(o, BlocksBehind(b, data, taken, whole), e))
<1>1. PICK hash, size, buffer : /\ o = Object(hash, Start(b, Len(hash) + 1), size, buffer)
                                /\ Content(b, hash, size, buffer, m)
  BY DEF Absorbs, HasBlocks
<1>2. size = 0
  BY <1>1 DEF Object, Emptied
<1>3. PICK q : q = Start(b, Len(hash) + 1)
  OBVIOUS
<1>4. PICK blocks, bytes : blocks = BlocksBehind(b, data, taken, whole) /\ bytes = SubSeq(data, taken + 1, taken + e)
  OBVIOUS
<1>5. blocks \in Seq(Octets(b)) /\ Len(blocks) = whole /\ BlocksOf(b, blocks, bytes)
  <2>1. /\ BlocksBehind(b, data, taken, whole) \in Seq(Octets(b))
        /\ Len(BlocksBehind(b, data, taken, whole)) = whole
        /\ BlocksOf(b, BlocksBehind(b, data, taken, whole), SubSeq(data, taken + 1, taken + e))
    BY BlocksBehindLaw
  <2> QED
    BY <1>4, <2>1, Zenon
<1>6. PICK o2 : o2 = Compressed(o, blocks, e)
  OBVIOUS
<1>7. o2 = Object(hash \o blocks, q + e, 0, buffer)
  <2>1. o = Object(hash, q, 0, buffer)
    BY <1>1, <1>2, <1>3
  <2>2. Compressed(Object(hash, q, 0, buffer), blocks, e)
          = Object(hash \o blocks, q + e, 0, buffer)
    BY AbsorbedIs
  <2> QED
    BY <1>6, <2>1, <2>2
<1>8. bytes \in Seq(Octet) /\ Len(bytes) = Start(b, Len(blocks) + 1)
  <2>1. taken + e \in Nat /\ taken <= taken + e /\ (taken + e) - taken = e
    OBVIOUS
  <2>2. bytes \in Seq(Octet) /\ Len(bytes) = (taken + e) - taken
    BY <1>4, <2>1, Part
  <2>3. e = Start(b, Len(blocks) + 1)
    BY <1>5
  <2> QED
    BY <2>1, <2>2, <2>3
<1>9. Content(b, hash \o blocks, 0, buffer, m \o bytes)
  BY <1>1, <1>2, <1>5, <1>8, BlocksContent
<1>10. q + e = Start(b, Len(hash \o blocks) + 1)
  <2>1. PICK h \in Nat : h = Len(hash)
    BY <1>1, BlocksStay
  <2>2. Len(hash \o blocks) = h + whole
    BY <1>1, <1>5, <2>1, ConcatProperties DEF Content
  <2>3. Start(b, h + whole + 1) = Start(b, h + 1) + Start(b, whole + 1)
    BY <2>1, StartSum
  <2> QED
    BY <1>3, <2>1, <2>2, <2>3
<1>11. Absorbs(c, o2, m \o bytes)
  BY <1>7, <1>9, <1>10 DEF Absorbs, HasBlocks
<1>12. Emptied(o2)
  BY <1>7 DEF Object, Emptied
<1> QED
  BY <1>4, <1>6, <1>11, <1>12

\* How much of data goes to a buffer that has been begun.
Taken(b, size, n) == IF size = 0 THEN 0 ELSE IF n < b - size THEN n ELSE b - size

\* It goes into the buffer, and what is left of data is behind a buffer that is full or was empty.
LEMMA TakenLaw ==
  ASSUME NEW b \in Nat \ {0}, NEW size \in 0..(b - 1), NEW n \in Nat
  PROVE  /\ Taken(b, size, n) \in 0..n
         /\ size + Taken(b, size, n) <= b
         /\ Taken(b, size, n) # n => size + Taken(b, size, n) = 0 \/ size + Taken(b, size, n) = b
BY DEF Taken

\* What add() leaves, in the words of its model.
LEMMA AddIs ==
  ASSUME NEW c, NEW b, HasBlocks(c, b), NEW o, NEW data, NEW taken, NEW whole, NEW topped,
         taken = Taken(b, o.bufferSize, Len(data)),
         topped = Flush(c, Fill(o, SubSeq(data, 1, taken))),
         whole = (Len(data) - taken) \div b
  PROVE  Add(c, o, data) =
           IF taken = Len(data) THEN topped
           ELSE Fill(Compressed(topped, BlocksBehind(b, data, taken, whole), whole * b),
                     SubSeq(data, taken + whole * b + 1, Len(data)))
BY DEF Add, HasBlocks, Taken, Compressed, BlocksBehind

\* An object takes more bytes, however they lie across its blocks.
LEMMA AddAbsorbs ==
  ASSUME NEW c, NEW b \in Nat \ {0}, HasBlocks(c, b), NEW o, NEW m \in Seq(Octet), Absorbs(c, o, m),
         NEW data \in Seq(Octet)
  PROVE  Absorbs(c, Add(c, o, data), m \o data)
<1>1. PICK size \in 0..(b - 1) : size = o.bufferSize
  BY DEF Absorbs, HasBlocks, Object, Content
<1>2. PICK n \in Nat : n = Len(data)
  BY LenProperties
<1>3. PICK taken \in 0..n : /\ taken = Taken(b, size, n) /\ size + taken <= b
                            /\ taken # n => size + taken = 0 \/ size + taken = b
  BY TakenLaw
<1>4. PICK head \in Seq(Octet) : head = SubSeq(data, 1, taken) /\ Len(head) = taken
  <2>1. 0 \in Nat /\ taken \in Nat /\ 0 <= taken /\ taken <= Len(data) /\ 0 + 1 = 1 /\ taken - 0 = taken
    BY <1>2
  <2>2. SubSeq(data, 0 + 1, taken) \in Seq(Octet) /\ Len(SubSeq(data, 0 + 1, taken)) = taken - 0
    BY <2>1, Part
  <2> QED
    BY <2>1, <2>2
<1>5. PICK topped : topped = Flush(c, Fill(o, head))
  OBVIOUS
<1>6. /\ Absorbs(c, topped, m \o head)
      /\ taken # n => Emptied(topped)
  <2>1. c.blockSize \in Nat \ {0} /\ o.bufferSize + Len(head) <= c.blockSize
    BY <1>1, <1>3, <1>4 DEF HasBlocks
  <2>2. Absorbs(c, Flush(c, Fill(o, head)), m \o head)
    BY <2>1, Topped
  <2>3. o.bufferSize + Len(head) = c.blockSize => Flush(c, Fill(o, head)).bufferSize = 0
    BY <2>1, Topped
  <2>4. o.bufferSize + Len(head) # c.blockSize =>
          /\ Flush(c, Fill(o, head)) = Fill(o, head)
          /\ Fill(o, head).bufferSize = o.bufferSize + Len(head)
    BY <2>1, Topped
  <2>5. o.bufferSize + Len(head) = size + taken /\ c.blockSize = b
    BY <1>1, <1>4 DEF HasBlocks
  <2>6. ASSUME taken # n
        PROVE  topped.bufferSize = 0
    <3>1. CASE size + taken = b
      BY <1>5, <2>3, <2>5, <3>1
    <3>2. CASE size + taken # b
      <4>1. size + taken = 0
        BY <1>3, <2>6, <3>2
      <4>2. topped = Fill(o, head) /\ Fill(o, head).bufferSize = size + taken
        BY <1>5, <2>4, <2>5, <3>2
      <4> QED
        BY <4>1, <4>2
    <3> QED
      BY <3>1, <3>2
  <2> QED
    BY <1>5, <2>2, <2>6 DEF Emptied
<1>7. PICK whole \in Nat, e \in Nat, r \in 0..(b - 1) :
        /\ whole = (n - taken) \div b /\ e = whole * b /\ n = taken + e + r
  <2>1. PICK d \in Nat : d = n - taken
    OBVIOUS
  <2>2. d \div b \in Nat /\ d % b \in 0..(b - 1) /\ d = (d \div b) * b + (d % b)
    BY DivLaw
  <2>3. PICK w \in Nat : w = d \div b
    BY <2>2
  <2>4. w * b \in Nat
    OBVIOUS
  <2>5. PICK e \in Nat, r \in 0..(b - 1) : e = w * b /\ r = d % b
    BY <2>2, <2>4
  <2>6. d = e + r
    BY <2>2, <2>3, <2>5
  <2>7. n = taken + e + r
    BY <2>1, <2>6
  <2> QED
    BY <2>1, <2>3, <2>5, <2>7
<1>8. Add(c, o, data) =
        IF taken = n THEN topped
        ELSE Fill(Compressed(topped, BlocksBehind(b, data, taken, whole), e), SubSeq(data, taken + e + 1, n))
  <2>1. /\ taken = Taken(b, o.bufferSize, Len(data))
        /\ topped = Flush(c, Fill(o, SubSeq(data, 1, taken)))
        /\ whole = (Len(data) - taken) \div b
    BY <1>1, <1>2, <1>3, <1>4, <1>5, <1>7
  <2>2. Add(c, o, data) =
          IF taken = Len(data) THEN topped
          ELSE Fill(Compressed(topped, BlocksBehind(b, data, taken, whole), whole * b),
                    SubSeq(data, taken + whole * b + 1, Len(data)))
    BY <2>1, AddIs
  <2> QED
    BY <1>2, <1>7, <2>2
<1>9. CASE taken = n
  <2>1. head = data
    BY <1>2, <1>4, <1>9, SubSeqFull
  <2> QED
    BY <1>6, <1>8, <1>9, <2>1
<1>10. CASE taken # n
  <2>1. e = Start(b, whole + 1)
    <3>1. (whole + 1) - 1 = whole
      OBVIOUS
    <3> QED
      BY <1>7, <3>1 DEF Start
  <2>2. taken \in Nat /\ taken + e \in Nat /\ taken + e <= Len(data) /\ taken <= taken + e /\ n <= Len(data)
    BY <1>2, <1>7
  <2>3. PICK middle, tail, o2 : /\ middle = SubSeq(data, taken + 1, taken + e)
                                /\ tail = SubSeq(data, taken + e + 1, n)
                                /\ o2 = Compressed(topped, BlocksBehind(b, data, taken, whole), e)
    OBVIOUS
  <2>4. m \o head \in Seq(Octet)
    BY Longer
  <2>5. Absorbs(c, o2, (m \o head) \o middle) /\ Emptied(o2)
    BY <1>6, <1>10, <2>1, <2>2, <2>3, <2>4, AbsorbsBlocks
  <2>6. middle \in Seq(Octet) /\ (m \o head) \o middle \in Seq(Octet)
    <3>1. middle \in Seq(Octet)
      BY <2>2, <2>3, Part
    <3> QED
      BY <2>4, <3>1, Longer
  <2>7. tail \in Seq(Octet) /\ Len(tail) = r
    <3>1. taken + e <= n /\ n - (taken + e) = r
      BY <1>7
    <3>2. tail \in Seq(Octet) /\ Len(tail) = n - (taken + e)
      BY <2>2, <2>3, <3>1, Part
    <3> QED
      BY <3>1, <3>2
  <2>8. Absorbs(c, Fill(o2, tail), ((m \o head) \o middle) \o tail)
    <3>1. c.blockSize \in Nat \ {0} /\ o2.bufferSize + Len(tail) <= c.blockSize /\ o2.bufferSize + Len(tail) # c.blockSize
      BY <2>5, <2>7 DEF HasBlocks, Emptied
    <3>2. Absorbs(c, Flush(c, Fill(o2, tail)), ((m \o head) \o middle) \o tail)
      BY <2>5, <2>6, <2>7, <3>1, Topped
    <3>3. Flush(c, Fill(o2, tail)) = Fill(o2, tail)
      <4>1. PICK mm \in Seq(Octet) : mm = (m \o head) \o middle
        BY <2>6
      <4>2. Absorbs(c, o2, mm)
        BY <2>5, <4>1
      <4> QED
        BY <2>7, <3>1, <4>2, Topped
    <3> QED
      BY <3>2, <3>3
  <2>9. Add(c, o, data) = Fill(o2, tail)
    BY <1>8, <1>10, <2>3
  <2>10. ((m \o head) \o middle) \o tail = m \o data
    <3>1. head \o middle = SubSeq(data, 1, taken + e)
      <4>1. 0 \in Nat /\ 0 <= taken /\ 0 + 1 = 1
        OBVIOUS
      <4>2. SubSeq(data, 0 + 1, taken) \o SubSeq(data, taken + 1, taken + e) = SubSeq(data, 0 + 1, taken + e)
        BY <2>2, <4>1, PartsJoin
      <4> QED
        BY <1>4, <2>3, <4>1, <4>2
    <3>2. SubSeq(data, 1, taken + e) \o tail = data
      <4>1. 0 \in Nat /\ 0 <= taken + e /\ taken + e <= n /\ 0 + 1 = 1
        BY <1>2, <2>2
      <4>2. SubSeq(data, 0 + 1, taken + e) \o SubSeq(data, taken + e + 1, n) = SubSeq(data, 0 + 1, n)
        BY <2>2, <4>1, PartsJoin
      <4>3. SubSeq(data, 1, n) = data
        BY <1>2, SubSeqFull
      <4> QED
        BY <2>3, <4>1, <4>2, <4>3
    <3>3. (m \o head) \o middle = m \o (head \o middle)
      BY <2>6, ConcatAssociative
    <3>4. PICK front \in Seq(Octet) : front = head \o middle
      BY <2>6, Longer
    <3>5. (m \o front) \o tail = m \o (front \o tail)
      <4>1. PICK end \in Seq(Octet) : end = tail
        BY <2>7
      <4>2. (m \o front) \o end = m \o (front \o end)
        BY ConcatAssociative
      <4> QED
        BY <4>1, <4>2
    <3> QED
      BY <3>1, <3>2, <3>3, <3>4, <3>5
  <2> QED
    BY <2>8, <2>9, <2>10
<1> QED
  BY <1>9, <1>10
-----------------------------------------------------------------------------
(***************************************************************************)
(* The constructor, reset() and getHash().                                 *)
(***************************************************************************)
\* A new object has been given nothing.
LEMMA NewAbsorbs ==
  ASSUME NEW c, NEW b \in Nat \ {0}, HasBlocks(c, b)
  PROVE  Absorbs(c, New(c), <<>>)
<1>1. PICK buffer : buffer = [i \in 1..b |-> Junk]
  OBVIOUS
<1>2. New(c) = Object(<<>>, 0, 0, buffer)
  BY <1>1 DEF New, Object, HasBlocks
<1>3. Start(b, Len(<<>>) + 1) = 0
  <2>1. Start(b, 1) = 0
    BY StartLaw
  <2> QED
    BY <2>1, EmptySeq
<1>4. buffer \in Buffers(b)
  BY <1>1 DEF Buffers
<1>5. BlocksOf(b, <<>>, <<>>) /\ RestOf(0, buffer, <<>>, Start(b, Len(<<>>) + 1))
  BY DEF BlocksOf, RestOf
<1>6. Len(<<>>) = Start(b, Len(<<>>) + 1) + 0
  BY <1>3
<1>7. 0 \in 0..(b - 1) /\ <<>> \in Seq(Octets(b))
  BY EmptySeq
<1>8. Content(b, <<>>, 0, buffer, <<>>)
  BY <1>4, <1>5, <1>6, <1>7 DEF Content
<1> QED
  BY <1>2, <1>3, <1>8 DEF Absorbs, HasBlocks

\* After reset() an object has been given nothing.
LEMMA ResetAbsorbs ==
  ASSUME NEW c, NEW b \in Nat \ {0}, HasBlocks(c, b), NEW o, NEW m, Absorbs(c, o, m)
  PROVE  Absorbs(c, Reset(c, o), <<>>)
<1>1. PICK hash, n, size, buffer : o = Object(hash, n, size, buffer) /\ buffer \in Buffers(b)
  BY DEF Absorbs, HasBlocks, Content
<1>2. Reset(c, o) = Object(<<>>, 0, 0, buffer)
  <2>1. Reset(c, o) = [[[o EXCEPT !.hash = <<>>] EXCEPT !.numBytes = 0] EXCEPT !.bufferSize = 0]
    BY DEF Reset
  <2>2. [o EXCEPT !.hash = <<>>] = Object(<<>>, n, size, buffer)
    BY <1>1 DEF Object
  <2>3. [Object(<<>>, n, size, buffer) EXCEPT !.numBytes = 0] = Object(<<>>, 0, size, buffer)
    BY DEF Object
  <2>4. [Object(<<>>, 0, size, buffer) EXCEPT !.bufferSize = 0] = Object(<<>>, 0, 0, buffer)
    BY DEF Object
  <2> QED
    BY <2>1, <2>2, <2>3, <2>4
<1>3. Start(b, Len(<<>>) + 1) = 0
  <2>1. Start(b, 1) = 0
    BY StartLaw
  <2> QED
    BY <2>1, EmptySeq
<1>5. BlocksOf(b, <<>>, <<>>) /\ RestOf(0, buffer, <<>>, Start(b, Len(<<>>) + 1))
  BY DEF BlocksOf, RestOf
<1>6. Len(<<>>) = Start(b, Len(<<>>) + 1) + 0
  BY <1>3
<1>7. 0 \in 0..(b - 1) /\ <<>> \in Seq(Octets(b))
  BY EmptySeq
<1>8. Content(b, <<>>, 0, buffer, <<>>)
  BY <1>1, <1>5, <1>6, <1>7 DEF Content
<1> QED
  BY <1>2, <1>3, <1>8 DEF Absorbs, HasBlocks

\* A byte of a message's length.
LEMMA LengthBytes ==
  ASSUME NEW c, NEW bits \in Nat, NEW k \in 1..8
  PROVE  LengthByte(c, bits, k) \in Octet
<1>1. \A j \in 0..7 : ByteOf(bits, j) \in Octet
  <2> TAKE j \in 0..7
  <2>1. PICK half \in Nat : half = IF j > 3 THEN (bits \div 65536) \div 65536 ELSE bits
    <3>1. PICK mid \in Nat : mid = bits \div 65536
      OBVIOUS
    <3>2. mid \div 65536 \in Nat
      OBVIOUS
    <3> QED
      BY <3>1, <3>2
  <2>2. PICK place \in 0..3 : place = j % 4
    OBVIOUS
  <2>3. PICK power \in Nat \ {0} : power = 256^place
    <3>1. place = 0 \/ place = 1 \/ place = 2 \/ place = 3
      OBVIOUS
    <3>2. /\ 256^0 \in Nat \ {0} /\ 256^1 \in Nat \ {0}
          /\ 256^2 \in Nat \ {0} /\ 256^3 \in Nat \ {0}
      OBVIOUS
    <3>3. 256^place \in Nat \ {0}
      BY <3>1, <3>2
    <3> QED
      BY <3>3
  <2>4. PICK rest \in Nat : rest = half \div power
    OBVIOUS
  <2>5. ByteOf(bits, j) = rest % 256
    BY <2>1, <2>2, <2>3, <2>4 DEF ByteOf
  <2>6. rest % 256 \in 0..255
    OBVIOUS
  <2> QED
    BY <2>5, <2>6 DEF Octet
<1>2. 8 - k \in 0..7 /\ k - 1 \in 0..7
  OBVIOUS
<1>3. LengthByte(c, bits, k) = ByteOf(bits, 8 - k) \/ LengthByte(c, bits, k) = ByteOf(bits, k - 1)
  BY DEF LengthByte
<1> QED
  BY <1>1, <1>2, <1>3

\* Where the length is put.
LEMMA PaddedLengthLaw ==
  ASSUME NEW size \in 0..63
  PROVE  PaddedLength(size) = IF size <= 55 THEN 56 ELSE 120
<1>1. PICK bits \in 1..505 : bits = size * 8 + 1
  OBVIOUS
<1>2. bits % 512 = bits /\ (bits <= 448 <=> size <= 55)
  BY <1>1
<1>3. PaddedLength(size) = (bits + (IF bits <= 448 THEN 448 ELSE 512 + 448) - bits) \div 8
  BY <1>1, <1>2 DEF PaddedLength
<1>4. (bits + 448 - bits) \div 8 = 56 /\ (bits + (512 + 448) - bits) \div 8 = 120
  OBVIOUS
<1> QED
  BY <1>2, <1>3, <1>4
-----------------------------------------------------------------------------
(***************************************************************************)
(* Padding.                                                                *)
(***************************************************************************)
\* The byte at place i of what the length-appending digests and the sponges
\* compress last, from the first byte of the buffer.
LengthPad(c, size, buffer, bits, end, i) ==
  CASE i <= size -> buffer[i]
    [] i = size + 1 -> c.mark
    [] i \in (size + 2)..end -> 0
    [] OTHER -> LengthByte(c, bits, i - end)

FirstPad(c, b, size, buffer, bits, end) == [i \in 1..b |-> LengthPad(c, size, buffer, bits, end, i)]
SecondPad(c, b, size, buffer, bits, end) == [i \in 1..b |-> LengthPad(c, size, buffer, bits, end, b + i)]

SpongePad(c, size, buffer, b, i) ==
  IF i <= size THEN buffer[i]
  ELSE (IF i = size + 1 THEN c.mark ELSE 0) + (IF i = b THEN 128 ELSE 0)

\* The buffer is replaced and compressed.
LEMMA ProcessIs ==
  ASSUME NEW hash, NEW n, NEW size, NEW buffer, NEW f
  PROVE  /\ [Object(hash, n, size, buffer) EXCEPT !.buffer = f] = Object(hash, n, size, f)
         /\ ProcessBlock(Object(hash, n, size, buffer), f) = Object(Append(hash, f), n, size, buffer)
BY DEF ProcessBlock, Object

\* getHash() of a sponge.
LEMMA SpongeIs ==
  ASSUME NEW c, NEW b, HasBlocks(c, b), IsSponge(c), NEW hash, NEW n, NEW size, NEW buffer, NEW f,
         f = [i \in 1..b |-> SpongePad(c, size, buffer, b, i)]
  PROVE  ProcessBuffer(c, Object(hash, n, size, buffer)) = Object(Append(hash, f), n, size, f)
<1>1. PICK o : o = Object(hash, n, size, buffer)
  OBVIOUS
<1>2. o.bufferSize = size /\ o.buffer = buffer
  BY <1>1 DEF Object
<1>3. PICK p : p = [o EXCEPT !.buffer = f]
  OBVIOUS
<1>4. p = Object(hash, n, size, f)
  BY <1>1, <1>3 DEF Object
<1>5. p.buffer = f
  BY <1>4 DEF Object
<1>6. [i \in 1..c.blockSize |->
         IF i <= o.bufferSize THEN o.buffer[i]
         ELSE (IF i = o.bufferSize + 1 THEN c.mark ELSE 0) + (IF i = c.blockSize THEN 128 ELSE 0)] = f
  BY <1>2 DEF SpongePad, HasBlocks
<1>7. PadSponge(c, o) = ProcessBlock(p, p.buffer)
  BY <1>3, <1>6 DEF PadSponge
<1>8. ProcessBuffer(c, o) = PadSponge(c, o)
  BY DEF ProcessBuffer, IsSponge
<1>9. ProcessBlock(Object(hash, n, size, f), f) = Object(Append(hash, f), n, size, f)
  BY ProcessIs
<1> QED
  BY <1>1, <1>4, <1>5, <1>7, <1>8, <1>9

\* getHash() of a digest that appends the length.
LEMMA LengthIs ==
  ASSUME NEW c, NEW b, HasBlocks(c, b), AppendsLength(c), NEW hash, NEW n, NEW size, NEW buffer,
         NEW end, NEW bits, end = PaddedLength(size), bits = 8 * (n + size), NEW f, NEW extra,
         f = FirstPad(c, b, size, buffer, bits, end), extra = SecondPad(c, b, size, buffer, bits, end)
  PROVE  ProcessBuffer(c, Object(hash, n, size, buffer)) =
           IF end > b THEN Object(Append(Append(hash, f), extra), n, size, f)
           ELSE Object(Append(hash, f), n, size, f)
<1>1. PICK o : o = Object(hash, n, size, buffer)
  OBVIOUS
<1>2. o.bufferSize = size /\ o.buffer = buffer /\ o.numBytes = n
  BY <1>1 DEF Object
<1>3. PICK p : p = [o EXCEPT !.buffer = f]
  OBVIOUS
<1>4. p = Object(hash, n, size, f)
  BY <1>1, <1>3 DEF Object
<1>5. p.buffer = f
  BY <1>4 DEF Object
<1>6. PadWithLength(c, o) =
        IF end > b THEN ProcessBlock(ProcessBlock(p, p.buffer), extra) ELSE ProcessBlock(p, p.buffer)
  BY <1>2, <1>3 DEF PadWithLength, LengthPad, HasBlocks, FirstPad, SecondPad
<1>7. ProcessBuffer(c, o) = PadWithLength(c, o)
  BY DEF ProcessBuffer, AppendsLength
<1>8. ProcessBlock(Object(hash, n, size, f), f) = Object(Append(hash, f), n, size, f)
  BY ProcessIs
<1>9. ProcessBlock(Object(Append(hash, f), n, size, f), extra) = Object(Append(Append(hash, f), extra), n, size, f)
  BY ProcessIs
<1> QED
  BY <1>1, <1>4, <1>5, <1>6, <1>7, <1>8, <1>9
-----------------------------------------------------------------------------
\* The length of the padded message and the byte at place j of it.
TotalOf(c, b, n) == b * ((n + (IF c.sponge THEN 0 ELSE 8)) \div b + 1)
AtOf(c, m, n, total, j) ==
  IF j <= n THEN m[j]
  ELSE IF j = n + 1 /\ j = total THEN c.mark + 128
  ELSE IF j = n + 1 THEN c.mark
  ELSE IF c.sponge THEN (IF j = total THEN 128 ELSE 0)
  ELSE IF j <= total - 8 THEN 0
  ELSE LengthByte(c, 8 * n, j - (total - 8))

\* Its blocks, count of them.
PaddedBlocks(c, b, m, n, total, count) ==
  [k \in 1..count |-> [i \in 1..b |-> AtOf(c, m, n, total, Start(b, k) + i)]]

\* last are the blocks of the padded message from place q on.
LastBlocks(c, b, m, n, total, q, last) ==
  \A k \in 1..Len(last) : \A i \in 1..b : last[k][i] = AtOf(c, m, n, total, q + Start(b, k) + i)

\* So many bytes are so many blocks.
WholeBlocks(b, total, count) == total = b * count

\* The padded message, in the words of Padded.
LEMMA PaddedIs ==
  ASSUME NEW c, NEW b, HasBlocks(c, b), NEW m, NEW n, n = Len(m), NEW total, total = TotalOf(c, b, n)
  PROVE  Padded(c, m) = PaddedBlocks(c, b, m, n, total, total \div b)
BY DEF Padded, HasBlocks, TotalOf, AtOf, Start, PaddedBlocks

\* The padded message ends with these blocks, behind the ones that have been compressed.
EndsWith(c, b, m, hash, last) ==
  /\ WholeBlocks(b, TotalOf(c, b, Len(m)), Len(hash) + Len(last))
  /\ LastBlocks(c, b, m, Len(m), TotalOf(c, b, Len(m)), Start(b, Len(hash) + 1), last)

\* Places behind the first h.
LEMMA Beyond ==
  ASSUME NEW h \in Nat, NEW w \in Nat, NEW k \in 1..(h + w), ~(k <= h)
  PROVE  \E j \in 1..w : j = k - h
OBVIOUS

\* The padded message is what has been compressed and the last blocks.
LEMMA PaddedEnds ==
  ASSUME NEW c, NEW b \in Nat \ {0}, HasBlocks(c, b), NEW hash, NEW size, NEW buffer, NEW m \in Seq(Octet),
         Content(b, hash, size, buffer, m), NEW last \in Seq(Octets(b)), EndsWith(c, b, m, hash, last)
  PROVE  Padded(c, m) = hash \o last
<1>21. PICK n \in Nat, w \in Nat : n = Len(m) /\ w = Len(last)
  BY LenProperties
<1>22. PICK h \in Nat, q \in Nat : h = Len(hash) /\ q = Start(b, h + 1)
  BY EmptySeq, BlocksStay
<1>23. PICK total : total = TotalOf(c, b, n)
  OBVIOUS
<1>24. WholeBlocks(b, total, h + w) /\ LastBlocks(c, b, m, n, total, q, last)
  BY <1>21, <1>22, <1>23 DEF EndsWith
<1>1. total \div b = h + w
  <2>1. h + w \in Nat /\ 0 \in 0..(b - 1)
    OBVIOUS
  <2>2. ((h + w) * b + 0) \div b = h + w
    BY <2>1, DivIs
  <2>3. total = (h + w) * b + 0
    BY <1>24 DEF WholeBlocks
  <2> QED
    BY <2>2, <2>3
<1>2. Padded(c, m) = PaddedBlocks(c, b, m, n, total, h + w)
  BY <1>21, <1>23, <1>1, PaddedIs
<1>3. hash \in Seq(Octets(b)) /\ size \in 0..(b - 1) /\ n = q + size /\ BlocksOf(b, hash, m)
  BY <1>21, <1>22 DEF Content
<1>4. PICK g : g = hash \o last
  OBVIOUS
<1>5. /\ g \in Seq(Octets(b)) /\ Len(g) = h + w
      /\ \A k \in 1..(h + w) : g[k] = IF k <= h THEN hash[k] ELSE last[k - h]
  BY <1>21, <1>22, <1>3, <1>4, ConcatProperties
<1>6. g \in [1..(h + w) -> Octets(b)]
  BY <1>5, LenProperties
<1>7. ASSUME NEW k \in 1..(h + w), NEW i \in 1..b
      PROVE  g[k][i] = AtOf(c, m, n, total, Start(b, k) + i)
  <2>1. CASE k <= h
    <3>1. k \in 1..h /\ k \in Nat \ {0}
      BY <2>1
    <3>2. PICK p \in Nat : p = Start(b, k)
      BY <3>1, StartLaw
    <3>3. p + b <= q
      <4>1. Start(b, k) + b <= Start(b, h + 1)
        BY <3>1, StartLaw
      <4> QED
        BY <1>22, <3>2, <4>1
    <3>4. p + i <= n
      BY <1>3, <3>3
    <3>5. AtOf(c, m, n, total, p + i) = m[p + i]
      BY <3>4 DEF AtOf
    <3>6. hash[k][i] = m[p + i]
      BY <1>22, <1>3, <3>1, <3>2 DEF BlocksOf
    <3>7. g[k] = hash[k]
      BY <1>5, <2>1
    <3> QED
      BY <3>2, <3>5, <3>6, <3>7
  <2>2. CASE ~(k <= h)
    <3>0. PICK j \in 1..w : j = k - h
      BY <2>2, Beyond
    <3>10. PICK v \in Nat : v = j - 1
      OBVIOUS
    <3>1. j = k - h /\ v + 1 = j /\ h + v + 1 = k
      BY <3>0, <3>10
    <3>2. Start(b, k) = q + Start(b, j)
      <4>1. Start(b, h + v + 1) = Start(b, h + 1) + Start(b, v + 1)
        BY <3>1, StartSum
      <4> QED
        BY <1>22, <3>1, <4>1
    <3>3. g[k] = last[j]
      BY <1>5, <2>2, <3>1
    <3> QED
      BY <1>21, <1>24, <3>2, <3>3 DEF LastBlocks
  <2> QED
    BY <2>1, <2>2
<1>8. \A k \in 1..(h + w) : g[k] = [i \in 1..b |-> AtOf(c, m, n, total, Start(b, k) + i)]
  <2> TAKE k \in 1..(h + w)
  <2>1. g[k] \in [1..b -> Octet]
    BY <1>6 DEF Octets
  <2> QED
    BY <1>7, <2>1
<1> QED
  <2>1. g = PaddedBlocks(c, b, m, n, total, h + w)
    BY <1>6, <1>8 DEF PaddedBlocks
  <2> QED
    BY <1>2, <1>4, <2>1

\* A sequence of one element.
LEMMA OneElement ==
  ASSUME NEW S, NEW x \in S
  PROVE  <<x>> \in Seq(S) /\ Len(<<x>>) = 1 /\ <<x>>[1] = x
OBVIOUS

\* The bytes behind the first size ones do not matter.
LEMMA Overwritten ==
  ASSUME NEW b \in Nat \ {0}, NEW hash, NEW size, NEW buffer, NEW m, Content(b, hash, size, buffer, m),
         NEW f \in Buffers(b), \A i \in 1..size : f[i] = buffer[i]
  PROVE  Content(b, hash, size, f, m)
<1>1. RestOf(size, f, m, Start(b, Len(hash) + 1))
  BY DEF Content, RestOf
<1> QED
  BY <1>1 DEF Content

\* What is in the buffer are bytes.
LEMMA BufferBytes ==
  ASSUME NEW b \in Nat \ {0}, NEW hash, NEW size, NEW buffer, NEW m \in Seq(Octet),
         Content(b, hash, size, buffer, m)
  PROVE  \A i \in 1..size : buffer[i] \in Octet
<1>1. PICK q \in Nat : q = Start(b, Len(hash) + 1)
  BY EmptySeq, BlocksStay
<1>2. Len(m) = q + size /\ size \in 0..(b - 1) /\ RestOf(size, buffer, m, q)
  BY <1>1 DEF Content
<1>3. \A i \in 1..size : q + i \in 1..Len(m)
  BY <1>2
<1>4. \A i \in 1..size : m[q + i] \in Octet
  BY <1>3, ElementOfSeq
<1> QED
  BY <1>2, <1>4 DEF RestOf

\* How many bytes a padded message of n bytes has, h whole blocks and size bytes.
LEMMA SpongeTotal ==
  ASSUME NEW c, IsSponge(c), NEW b \in Nat \ {0}, NEW h \in Nat, NEW size \in 0..(b - 1), NEW n, n = Start(b, h + 1) + size
  PROVE  /\ WholeBlocks(b, TotalOf(c, b, n), h + 1)
         /\ TotalOf(c, b, n) = Start(b, h + 1) + b
<1>1. Start(b, h + 1) = h * b
  <2>1. (h + 1) - 1 = h
    OBVIOUS
  <2> QED
    BY <2>1 DEF Start
<1>2. (h * b + size) \div b = h
  BY DivIs
<1>3. PICK v \in Nat : v = h * b
  OBVIOUS
<1>4. n + 0 = v + size
  BY <1>1, <1>3
<1>5. TotalOf(c, b, n) = b * ((n + 0) \div b + 1)
  BY DEF TotalOf, IsSponge
<1>6. TotalOf(c, b, n) = b * (h + 1)
  BY <1>2, <1>3, <1>4, <1>5
<1>7. b * (h + 1) = h * b + b
  OBVIOUS
<1> QED
  BY <1>1, <1>6, <1>7 DEF WholeBlocks

\* A message whose length is appended takes one more block, or two if the eight bytes do not fit.
LEMMA LengthTotal ==
  ASSUME NEW c, AppendsLength(c), NEW h \in Nat, NEW size \in Nat, size < 64, NEW n, n = Start(64, h + 1) + size
  PROVE  /\ size <= 55 => /\ WholeBlocks(64, TotalOf(c, 64, n), h + 1)
                          /\ TotalOf(c, 64, n) = Start(64, h + 1) + 64
         /\ size > 55 => /\ WholeBlocks(64, TotalOf(c, 64, n), h + 2)
                         /\ TotalOf(c, 64, n) = Start(64, h + 1) + 128
<1>1. Start(64, h + 1) = h * 64
  <2>1. (h + 1) - 1 = h
    OBVIOUS
  <2> QED
    BY <2>1 DEF Start
<1>2. TotalOf(c, 64, n) = 64 * ((n + 8) \div 64 + 1)
  BY DEF TotalOf, AppendsLength
<1>3. n + 8 = h * 64 + size + 8
  BY <1>1
<1>4. (size <= 55 => (h * 64 + size + 8) \div 64 = h) /\ (size > 55 => (h * 64 + size + 8) \div 64 = h + 1)
  OBVIOUS
<1> QED
  BY <1>1, <1>2, <1>3, <1>4 DEF WholeBlocks

\* The digest of a sponge is that of the padded message, and the object is as it was
\* but for bytes that do not matter.
LEMMA SpongeDigest ==
  ASSUME NEW c, NEW b \in Nat \ {0}, HasBlocks(c, b), IsSponge(c), NEW o,
         NEW m \in Seq(Octet), Absorbs(c, o, m)
  PROVE  Digest(c, o) = Padded(c, m) /\ Absorbs(c, AfterGetHash(c, o), m)
<1>1. PICK hash, size, buffer : /\ o = Object(hash, Start(b, Len(hash) + 1), size, buffer)
                                /\ Content(b, hash, size, buffer, m)
  BY DEF Absorbs, HasBlocks
<1>2. PICK h \in Nat, q \in Nat : h = Len(hash) /\ q = Start(b, h + 1)
  BY <1>1, EmptySeq, BlocksStay
<1>3. /\ size \in 0..(b - 1) /\ buffer \in Buffers(b) /\ Len(m) = q + size
      /\ RestOf(size, buffer, m, q) /\ hash \in Seq(Octets(b))
  BY <1>1, <1>2 DEF Content
<1>4. PICK f : f = [i \in 1..b |-> SpongePad(c, size, buffer, b, i)]
  OBVIOUS
<1>5. PICK mark \in 0..127 : mark = c.mark
  BY DEF IsSponge
<1>6. \A i \in 1..size : f[i] = buffer[i] /\ buffer[i] \in Octet
  <2>1. \A i \in 1..size : buffer[i] \in Octet
    BY <1>1, BufferBytes
  <2>2. \A i \in 1..size : i \in 1..b /\ i <= size
    BY <1>3
  <2> QED
    BY <1>4, <2>1, <2>2 DEF SpongePad
<1>7. \A i \in 1..b : ~(i <= size) => f[i] = (IF i = size + 1 THEN mark ELSE 0) + (IF i = b THEN 128 ELSE 0)
  BY <1>4, <1>5 DEF SpongePad
<1>8. f \in Octets(b)
  <2>1. \A i \in 1..b : f[i] \in Octet
    <3> TAKE i \in 1..b
    <3>1. CASE i <= size
      BY <1>3, <1>6, <3>1
    <3>2. CASE ~(i <= size)
      <4>1. PICK x, y : /\ x = (IF i = size + 1 THEN mark ELSE 0) /\ y = (IF i = b THEN 128 ELSE 0)
                        /\ f[i] = x + y
        BY <1>7, <3>2
      <4>2. x \in 0..127 /\ y \in {0, 128}
        BY <4>1
      <4>3. x + y \in 0..255
        BY <4>2
      <4> QED
        BY <4>1, <4>3 DEF Octet
    <3> QED
      BY <3>1, <3>2
  <2> QED
    BY <1>4, <2>1 DEF Octets
<1>9. /\ Digest(c, o) = Append(hash, f)
      /\ AfterGetHash(c, o) = Object(hash, q, size, f)
  <2>1. ProcessBuffer(c, Object(hash, q, size, buffer)) = Object(Append(hash, f), q, size, f)
    BY <1>4, SpongeIs
  <2>2. o = Object(hash, q, size, buffer)
    BY <1>1, <1>2
  <2>3. PICK p : p = ProcessBuffer(c, o) /\ p = Object(Append(hash, f), q, size, f)
    BY <2>1, <2>2
  <2>4. p.hash = Append(hash, f) /\ o.hash = hash
    BY <2>2, <2>3 DEF Object
  <2>5. [p EXCEPT !.hash = hash] = Object(hash, q, size, f)
    BY <2>3 DEF Object
  <2> QED
    BY <2>3, <2>4, <2>5 DEF Digest, AfterGetHash
<1>10. Absorbs(c, AfterGetHash(c, o), m)
  <2>1. f \in Buffers(b)
    BY <1>8 DEF Buffers, Octets
  <2>2. Content(b, hash, size, f, m)
    BY <1>1, <1>6, <2>1, Overwritten
  <2> QED
    BY <1>2, <1>9, <2>2 DEF Absorbs, HasBlocks
<1>31. PICK n \in Nat : n = Len(m)
  BY LenProperties
<1>32. PICK total : total = TotalOf(c, b, n)
  OBVIOUS
<1>11. n = Len(m) /\ total = TotalOf(c, b, n)
  BY <1>31, <1>32
<1>12. WholeBlocks(b, total, h + 1) /\ total = q + b
  <2>1. n = Start(b, h + 1) + size
    BY <1>2, <1>3, <1>11
  <2>2. /\ WholeBlocks(b, TotalOf(c, b, n), h + 1)
        /\ TotalOf(c, b, n) = Start(b, h + 1) + b
    BY <1>3, <2>1, SpongeTotal
  <2> QED
    BY <1>2, <1>11, <2>2
<1>13. ASSUME NEW i \in 1..b
       PROVE  f[i] = AtOf(c, m, n, total, q + i)
  <2>1. CASE i <= size
    <3>1. q + i <= n /\ i \in 1..size
      BY <1>3, <1>11, <2>1
    <3>2. AtOf(c, m, n, total, q + i) = m[q + i]
      BY <3>1 DEF AtOf
    <3> QED
      BY <1>3, <1>6, <3>1, <3>2 DEF RestOf
  <2>2. CASE i = size + 1
    <3>1. q + i = n + 1 /\ ~(q + i <= n) /\ (q + i = total <=> i = b)
      BY <1>3, <1>11, <1>12, <2>2
    <3>2. AtOf(c, m, n, total, q + i) = IF i = b THEN mark + 128 ELSE mark
      BY <1>5, <3>1 DEF AtOf
    <3>3. f[i] = mark + (IF i = b THEN 128 ELSE 0)
      BY <1>3, <1>7, <2>2
    <3> QED
      BY <3>2, <3>3
  <2>3. CASE i > size + 1
    <3>1. q + i # n + 1 /\ ~(q + i <= n) /\ (q + i = total <=> i = b)
      BY <1>3, <1>11, <1>12, <2>3
    <3>2. AtOf(c, m, n, total, q + i) = IF i = b THEN 128 ELSE 0
      BY <3>1 DEF AtOf, IsSponge
    <3>3. ~(i <= size) /\ i # size + 1
      BY <1>3, <2>3
    <3>4. f[i] = 0 + (IF i = b THEN 128 ELSE 0)
      BY <1>7, <3>3
    <3> QED
      BY <3>2, <3>4
  <2> QED
    BY <1>3, <2>1, <2>2, <2>3
<1>14. Padded(c, m) = hash \o <<f>>
  <2>1. PICK last \in Seq(Octets(b)) : last = <<f>> /\ Len(last) = 1 /\ last[1] = f
    BY <1>8, OneElement
  <2>2. Start(b, 1) = 0
    BY StartLaw
  <2>3. LastBlocks(c, b, m, n, total, q, last)
    BY <1>13, <2>1, <2>2 DEF LastBlocks
  <2>4. EndsWith(c, b, m, hash, last)
    BY <1>2, <1>11, <1>12, <2>1, <2>3 DEF EndsWith
  <2>5. Padded(c, m) = hash \o last
    BY <1>1, <2>4, PaddedEnds
  <2> QED
    BY <2>1, <2>5
<1>15. Append(hash, f) = hash \o <<f>>
  BY <1>3, <1>8, AppendIsConcat
<1> QED
  BY <1>9, <1>10, <1>14, <1>15
PadLaw(c, size, buffer, bits, end, i) ==
  /\ i <= size => LengthPad(c, size, buffer, bits, end, i) = buffer[i]
  /\ i = size + 1 => LengthPad(c, size, buffer, bits, end, i) = c.mark
  /\ i \in (size + 2)..end => LengthPad(c, size, buffer, bits, end, i) = 0
  /\ i > end => LengthPad(c, size, buffer, bits, end, i) = LengthByte(c, bits, i - end)

\* The bytes of the padding, from the first byte of the buffer.
LEMMA LengthPadIs ==
  ASSUME NEW c, NEW size \in Nat, size < 64, NEW buffer, NEW bits, NEW end \in Nat, end <= 120, size < end,
         NEW i \in 1..128
  PROVE  PadLaw(c, size, buffer, bits, end, i)
<1>1. CASE i <= size
  <2>1. i # size + 1 /\ i \notin (size + 2)..end /\ ~(i > end)
    BY <1>1
  <2> QED
    BY <1>1, <2>1 DEF LengthPad, PadLaw
<1>2. CASE i = size + 1
  <2>1. ~(i <= size) /\ i \notin (size + 2)..end /\ ~(i > end)
    BY <1>2
  <2> QED
    BY <1>2, <2>1 DEF LengthPad, PadLaw
<1>3. CASE i \in (size + 2)..end
  <2>1. ~(i <= size) /\ i # size + 1 /\ ~(i > end)
    BY <1>3
  <2> QED
    BY <1>3, <2>1 DEF LengthPad, PadLaw
<1>4. CASE i > end
  <2>1. ~(i <= size) /\ i # size + 1 /\ i \notin (size + 2)..end
    BY <1>4
  <2> QED
    BY <1>4, <2>1 DEF LengthPad, PadLaw
<1> QED
  BY <1>1, <1>2, <1>3, <1>4

\* The digest of MD5, SHA1 and SHA256 is that of the padded message, whether its length
\* fits in the block or not, and the object is as it was but for bytes that do not matter.
LEMMA LengthDigest ==
  ASSUME NEW c, HasBlocks(c, 64), AppendsLength(c), NEW o, NEW m \in Seq(Octet), Absorbs(c, o, m)
  PROVE  Digest(c, o) = Padded(c, m) /\ Absorbs(c, AfterGetHash(c, o), m)
<1>0. PICK b \in Nat \ {0} : b = 64 /\ HasBlocks(c, b)
  OBVIOUS
<1>40. PICK hash, held, buffer : /\ o = Object(hash, Start(b, Len(hash) + 1), held, buffer)
                                  /\ Content(b, hash, held, buffer, m)
  BY <1>0 DEF Absorbs, HasBlocks
<1>41. PICK size \in Nat : size = held
  BY <1>40 DEF Content
<1>1. /\ o = Object(hash, Start(b, Len(hash) + 1), size, buffer)
      /\ Content(b, hash, size, buffer, m)
  BY <1>40, <1>41
<1>2. PICK h \in Nat, q \in Nat : h = Len(hash) /\ q = Start(b, h + 1)
  BY <1>1, EmptySeq, BlocksStay
<1>3. /\ size < 64 /\ buffer \in Buffers(b) /\ Len(m) = q + size
      /\ RestOf(size, buffer, m, q) /\ hash \in Seq(Octets(b))
  BY <1>0, <1>1, <1>2 DEF Content
<1>30. size < 64
  BY <1>3
<1>31. PaddedLength(size) = IF size <= 55 THEN 56 ELSE 120
  <2>1. size \in 0..63
    BY <1>30
  <2> QED
    BY <2>1, PaddedLengthLaw
<1>4. PICK end \in Nat : /\ end = PaddedLength(size) /\ size < end /\ 56 <= end /\ end <= 120
                         /\ size <= 55 => end = 56
                         /\ size > 55 => end = 120
  BY <1>30, <1>31
<1>5. PICK n \in Nat, bits \in Nat : n = Len(m) /\ n = q + size /\ bits = 8 * (q + size) /\ bits = 8 * n
  BY <1>3
<1>6. PICK P : P = [i \in 1..128 |-> LengthPad(c, size, buffer, bits, end, i)]
  OBVIOUS
<1>7. /\ \A i \in 1..size : P[i] = buffer[i]
      /\ P[size + 1] = 128
      /\ \A i \in (size + 2)..end : P[i] = 0
      /\ \A i \in (end + 1)..(end + 8) : P[i] = LengthByte(c, bits, i - end)
  <2>1. size + 2 <= end + 1 /\ end + 8 <= 128
    BY <1>30, <1>4
  <2>2. \A i \in 1..128 :
          /\ i <= size => P[i] = buffer[i]
          /\ i = size + 1 => P[i] = c.mark
          /\ i \in (size + 2)..end => P[i] = 0
          /\ i > end => P[i] = LengthByte(c, bits, i - end)
    <3> TAKE i \in 1..128
    <3>1. P[i] = LengthPad(c, size, buffer, bits, end, i)
      BY <1>6
    <3>2. end \in Nat /\ end <= 120 /\ size < end
      BY <1>4
    <3>3. PadLaw(c, size, buffer, bits, end, i)
      BY <1>30, <3>2, LengthPadIs
    <3> QED
      BY <3>1, <3>3 DEF PadLaw
  <2>3. c.mark = 128
    BY DEF AppendsLength
  <2>4. \A i \in 1..size : P[i] = buffer[i]
    <3>1. \A i \in 1..size : i \in 1..128 /\ i <= size
      BY <1>30
    <3> QED
      BY <2>2, <3>1
  <2>5. P[size + 1] = 128
    <3>1. size + 1 \in 1..128
      BY <1>30
    <3> QED
      BY <2>2, <2>3, <3>1
  <2>6. \A i \in (size + 2)..end : P[i] = 0
    <3>1. \A i \in (size + 2)..end : i \in 1..128
      BY <1>30, <2>1
    <3> QED
      BY <2>2, <3>1
  <2>7. \A i \in (end + 1)..(end + 8) : P[i] = LengthByte(c, bits, i - end)
    <3>1. \A i \in (end + 1)..(end + 8) : i \in 1..128 /\ i > end
      BY <2>1
    <3> QED
      BY <2>2, <3>1
  <2> QED
    BY <2>4, <2>5, <2>6, <2>7
<1>8. \A i \in 1..(end + 8) : P[i] \in Octet
  <2> TAKE i \in 1..(end + 8)
  <2>1. CASE i \in 1..size
    <3>1. \A j \in 1..size : buffer[j] \in Octet
      BY <1>1, BufferBytes
    <3> QED
      BY <1>7, <2>1, <3>1
  <2>2. CASE i = size + 1
    BY <1>7, <2>2 DEF Octet
  <2>3. CASE i \in (size + 2)..end
    BY <1>7, <2>3 DEF Octet
  <2>4. CASE i \in (end + 1)..(end + 8)
    <3>1. i - end \in 1..8
      BY <2>4
    <3>2. LengthByte(c, bits, i - end) \in Octet
      BY <3>1, LengthBytes
    <3> QED
      BY <1>7, <2>4, <3>2
  <2> QED
    BY <1>30, <1>4, <2>1, <2>2, <2>3, <2>4
<1>9. PICK total : total = TotalOf(c, b, n)
  OBVIOUS
<1>10. /\ total = q + (end + 8)
       /\ size <= 55 => WholeBlocks(b, total, h + 1)
       /\ size > 55 => WholeBlocks(b, total, h + 2)
  <2>1. n = Start(64, h + 1) + size
    BY <1>0, <1>2, <1>5
  <2>2. /\ size <= 55 => /\ WholeBlocks(64, TotalOf(c, 64, n), h + 1)
                         /\ TotalOf(c, 64, n) = Start(64, h + 1) + 64
        /\ size > 55 => /\ WholeBlocks(64, TotalOf(c, 64, n), h + 2)
                        /\ TotalOf(c, 64, n) = Start(64, h + 1) + 128
    BY <1>30, <2>1, LengthTotal
  <2>3. /\ size <= 55 => /\ WholeBlocks(b, total, h + 1) /\ total = q + 64
        /\ size > 55 => /\ WholeBlocks(b, total, h + 2) /\ total = q + 128
    BY <1>0, <1>2, <1>9, <2>2
  <2> QED
    BY <1>30, <1>4, <2>3
<1>11. ASSUME NEW i \in 1..(end + 8)
       PROVE  P[i] = AtOf(c, m, n, total, q + i)
  <2>1. CASE i \in 1..size
    <3>1. q + i <= n
      BY <1>5, <1>30, <2>1
    <3>2. AtOf(c, m, n, total, q + i) = m[q + i]
      BY <3>1 DEF AtOf
    <3> QED
      BY <1>3, <1>7, <2>1, <3>2 DEF RestOf
  <2>2. CASE i = size + 1
    <3>1. q + i = n + 1 /\ ~(q + i <= n) /\ q + i # total
      BY <1>30, <1>4, <1>5, <1>10, <2>2
    <3>2. AtOf(c, m, n, total, q + i) = c.mark
      BY <3>1 DEF AtOf
    <3> QED
      BY <1>7, <2>2, <3>2 DEF AppendsLength
  <2>3. CASE i \in (size + 2)..end
    <3>1. q + i # n + 1 /\ ~(q + i <= n) /\ q + i <= total - 8
      BY <1>30, <1>4, <1>5, <1>10, <2>3
    <3>2. AtOf(c, m, n, total, q + i) = 0
      BY <3>1 DEF AtOf, AppendsLength
    <3> QED
      BY <1>7, <2>3, <3>2
  <2>4. CASE i \in (end + 1)..(end + 8)
    <3>1. q + i # n + 1 /\ ~(q + i <= n) /\ ~(q + i <= total - 8) /\ (q + i) - (total - 8) = i - end
      <4>1. i \in Nat /\ i > end /\ size < end /\ n = q + size /\ total = q + (end + 8)
        BY <1>4, <1>5, <1>10, <2>4
      <4> QED
        BY <4>1
    <3>2. AtOf(c, m, n, total, q + i) = LengthByte(c, 8 * n, (q + i) - (total - 8))
      BY <3>1 DEF AtOf, AppendsLength
    <3> QED
      BY <1>5, <1>7, <2>4, <3>1, <3>2
  <2> QED
    BY <1>30, <1>4, <2>1, <2>2, <2>3, <2>4
<1>12. PICK f, extra : /\ f = FirstPad(c, b, size, buffer, bits, end)
                       /\ extra = SecondPad(c, b, size, buffer, bits, end)
  OBVIOUS
<1>13. \A i \in 1..b : f[i] = P[i] /\ extra[i] = P[b + i]
  <2>1. \A i \in 1..b : i \in 1..128 /\ b + i \in 1..128
    BY <1>0
  <2> QED
    BY <1>6, <1>12, <2>1 DEF FirstPad, SecondPad
<1>14. f \in Octets(b)
  <2>1. \A i \in 1..b : i \in 1..(end + 8)
    BY <1>0, <1>4
  <2>2. \A i \in 1..b : f[i] \in Octet
    BY <1>8, <1>13, <2>1
  <2> QED
    BY <1>12, <2>2 DEF Octets, FirstPad
<1>15. ProcessBuffer(c, Object(hash, q, size, buffer)) =
         IF end > b THEN Object(Append(Append(hash, f), extra), q, size, f)
         ELSE Object(Append(hash, f), q, size, f)
  <2>1. /\ end = PaddedLength(size) /\ bits = 8 * (q + size)
        /\ f = FirstPad(c, b, size, buffer, bits, end) /\ extra = SecondPad(c, b, size, buffer, bits, end)
    BY <1>4, <1>5, <1>12
  <2> QED
    BY <1>0, <2>1, LengthIs
<1>16. o = Object(hash, q, size, buffer)
  BY <1>1, <1>2
<1>17. PICK p, g : /\ p = ProcessBuffer(c, o) /\ p = Object(g, q, size, f)
                   /\ g = IF end > b THEN Append(Append(hash, f), extra) ELSE Append(hash, f)
  <2>1. CASE end > b
    BY <1>15, <1>16, <2>1
  <2>2. CASE ~(end > b)
    BY <1>15, <1>16, <2>2
  <2> QED
    BY <2>1, <2>2
<1>18. Digest(c, o) = g /\ AfterGetHash(c, o) = Object(hash, q, size, f)
  <2>0. p = Object(g, q, size, f)
    BY <1>17
  <2>1. p.hash = g /\ o.hash = hash
    BY <1>16, <2>0 DEF Object
  <2>2. [p EXCEPT !.hash = hash] = Object(hash, q, size, f)
    BY <2>0 DEF Object
  <2> QED
    BY <1>17, <2>1, <2>2 DEF Digest, AfterGetHash
<1>19. Absorbs(c, AfterGetHash(c, o), m)
  <2>1. f \in Buffers(b)
    BY <1>14 DEF Buffers, Octets
  <2>2. \A i \in 1..size : f[i] = buffer[i]
    <3>1. \A i \in 1..size : i \in 1..b
      BY <1>0, <1>30
    <3> QED
      BY <1>7, <1>13, <3>1
  <2>3. Content(b, hash, size, f, m)
    BY <1>1, <2>1, <2>2, Overwritten
  <2> QED
    BY <1>0, <1>2, <1>18, <2>3 DEF Absorbs, HasBlocks
<1>20. Start(b, 1) = 0 /\ Start(b, 2) = b
  BY <1>0 DEF Start
<1>21. Append(hash, f) = hash \o <<f>> /\ <<f>> \in Seq(Octets(b)) /\ Len(<<f>>) = 1 /\ <<f>>[1] = f
  BY <1>3, <1>14, AppendIsConcat, OneElement
<1>22. CASE size <= 55
  <2>1. end = 56
    BY <1>4, <1>22
  <2>2. PICK last \in Seq(Octets(b)) : last = <<f>> /\ Len(last) = 1 /\ last[1] = f
    BY <1>21
  <2>3. \A i \in 1..b : f[i] = AtOf(c, m, n, total, q + 0 + i)
    <3>1. \A i \in 1..b : i \in 1..(end + 8) /\ q + 0 + i = q + i
      BY <1>0, <2>1
    <3> QED
      BY <1>11, <1>13, <3>1
  <2>4. LastBlocks(c, b, m, n, total, q, last)
    BY <1>20, <2>2, <2>3 DEF LastBlocks
  <2>5. EndsWith(c, b, m, hash, last)
    BY <1>2, <1>5, <1>9, <1>10, <1>22, <2>2, <2>4 DEF EndsWith
  <2>6. Padded(c, m) = hash \o last
    BY <1>0, <1>1, <2>5, PaddedEnds
  <2>7. g = Append(hash, f)
    <3>1. ~(end > b)
      BY <1>0, <2>1
    <3> QED
      BY <1>17, <3>1
  <2> QED
    BY <1>18, <1>19, <1>21, <2>2, <2>6, <2>7
<1>23. CASE size > 55
  <2>1. end = 120
    BY <1>30, <1>4, <1>23
  <2>2. extra \in Octets(b)
    <3>1. \A i \in 1..b : b + i \in 1..(end + 8)
      BY <1>0, <2>1
    <3>2. \A i \in 1..b : extra[i] \in Octet
      BY <1>8, <1>13, <3>1
    <3> QED
      BY <1>12, <3>2 DEF Octets, SecondPad
  <2>3. <<extra>> \in Seq(Octets(b)) /\ Len(<<extra>>) = 1 /\ <<extra>>[1] = extra
    BY <2>2, OneElement
  <2>4. PICK last : last = <<f>> \o <<extra>>
    OBVIOUS
  <2>5. /\ last \in Seq(Octets(b)) /\ Len(last) = 1 + 1
        /\ \A k \in 1..(1 + 1) : last[k] = IF k <= 1 THEN <<f>>[k] ELSE <<extra>>[k - 1]
    BY <1>21, <2>3, <2>4, ConcatProperties
  <2>6. Len(last) = 2 /\ last[1] = f /\ last[2] = extra
    BY <1>21, <2>3, <2>5
  <2>7. \A i \in 1..b : f[i] = AtOf(c, m, n, total, q + 0 + i) /\ extra[i] = AtOf(c, m, n, total, q + b + i)
    <3>1. \A i \in 1..b : /\ i \in 1..(end + 8) /\ q + 0 + i = q + i
                          /\ b + i \in 1..(end + 8) /\ q + b + i = q + (b + i)
      BY <1>0, <2>1
    <3>2. \A i \in 1..b : f[i] = AtOf(c, m, n, total, q + i) /\ extra[i] = AtOf(c, m, n, total, q + (b + i))
      BY <1>11, <1>13, <3>1
    <3> QED
      BY <3>1, <3>2
  <2>8. LastBlocks(c, b, m, n, total, q, last)
    <3>1. ASSUME NEW k \in 1..2, NEW i \in 1..b
          PROVE  last[k][i] = AtOf(c, m, n, total, q + Start(b, k) + i)
      <4>1. CASE k = 1
        BY <1>20, <2>6, <2>7, <4>1
      <4>2. CASE k = 2
        BY <1>20, <2>6, <2>7, <4>2
      <4> QED
        BY <4>1, <4>2
    <3> QED
      BY <2>6, <3>1 DEF LastBlocks
  <2>9. EndsWith(c, b, m, hash, last)
    BY <1>2, <1>5, <1>9, <1>10, <1>23, <2>6, <2>8 DEF EndsWith
  <2>10. Padded(c, m) = hash \o last
    <3>1. last \in Seq(Octets(b))
      BY <2>5
    <3> QED
      BY <1>0, <1>1, <2>9, <3>1, PaddedEnds
  <2>11. Append(Append(hash, f), extra) = hash \o last
    <3>1. Append(hash, f) \in Seq(Octets(b))
      BY <1>3, <1>14, AppendProperties
    <3>2. Append(Append(hash, f), extra) = Append(hash, f) \o <<extra>>
      BY <2>2, <3>1, AppendIsConcat
    <3>3. (hash \o <<f>>) \o <<extra>> = hash \o (<<f>> \o <<extra>>)
      BY <1>3, <1>21, <2>3, ConcatAssociative
    <3> QED
      BY <1>21, <2>4, <3>2, <3>3
  <2>12. g = Append(Append(hash, f), extra)
    <3>1. end > b
      BY <1>0, <2>1
    <3> QED
      BY <1>17, <3>1
  <2> QED
    BY <1>18, <1>19, <2>10, <2>11, <2>12
<1> QED
  BY <1>30, <1>22, <1>23

\* getHash() of every block digest.
LEMMA DigestIs ==
  ASSUME NEW c, IsBlockClass(c), NEW o, NEW m \in Seq(Octet), Absorbs(c, o, m)
  PROVE  Digest(c, o) = Padded(c, m) /\ Absorbs(c, AfterGetHash(c, o), m)
<1>1. CASE IsSponge(c)
  <2>1. PICK b \in Nat \ {0} : HasBlocks(c, b)
    BY DEF IsBlockClass, HasBlocks
  <2> QED
    BY <1>1, <2>1, SpongeDigest
<1>2. CASE AppendsLength(c)
  <2>1. HasBlocks(c, 64)
    BY <1>2 DEF AppendsLength, HasBlocks
  <2> QED
    BY <1>2, <2>1, LengthDigest
<1> QED
  BY <1>1, <1>2 DEF IsBlockClass
-----------------------------------------------------------------------------
(***************************************************************************)
(* CRC32: words of 32 bits.                                                *)
(***************************************************************************)
W == SUBSET (0..31)

\* What is in a word that has been shifted.
LEMMA ShiftHas ==
  ASSUME NEW w \in W, NEW n \in Nat
  PROVE  /\ ShiftRight(w, n) \in W
         /\ \A x : x \in ShiftRight(w, n) <=> x \in Nat /\ x + n \in w
<1>1. \A x : x \in ShiftRight(w, n) <=> x \in Nat /\ x + n \in w
  <2>1. ASSUME NEW x \in ShiftRight(w, n)
        PROVE  x \in Nat /\ x + n \in w
    <3>1. PICK y \in w : y >= n /\ x = y - n
      BY DEF ShiftRight
    <3>2. y \in 0..31
      BY DEF W
    <3>3. x \in Nat /\ x + n = y
      BY <3>1, <3>2
    <3> QED
      BY <3>3
  <2>2. ASSUME NEW x \in Nat, x + n \in w
        PROVE  x \in ShiftRight(w, n)
    <3>1. x + n >= n /\ (x + n) - n = x
      OBVIOUS
    <3>2. PICK y \in w : y = x + n
      BY <2>2
    <3>3. y >= n /\ x = y - n
      BY <3>1, <3>2
    <3> QED
      BY <3>3 DEF ShiftRight
  <2> QED
    BY <2>1, <2>2
<1>2. \A x \in ShiftRight(w, n) : x \in 0..31
  <2> TAKE x \in ShiftRight(w, n)
  <2>1. x \in Nat /\ x + n \in 0..31
    BY <1>1 DEF W
  <2> QED
    BY <2>1
<1> QED
  BY <1>1, <1>2 DEF W

\* Exclusive or.
LEMMA XorLaw ==
  ASSUME NEW u \in W, NEW v \in W, NEW w \in W
  PROVE  /\ Xor(u, v) \in W
         /\ Xor(u, v) = Xor(v, u)
         /\ Xor(Xor(u, v), w) = Xor(u, Xor(v, w))
         /\ Xor(u, {}) = u /\ Xor({}, u) = u
BY DEF Xor, W

\* No bits.
LEMMA NoBits ==
  /\ {} \in W
  /\ \A n \in Nat : ShiftRight({}, n) = {}
BY DEF W, ShiftRight

\* A shift distributes over exclusive or.
LEMMA ShiftXor ==
  ASSUME NEW u \in W, NEW v \in W, NEW n \in Nat
  PROVE  ShiftRight(Xor(u, v), n) = Xor(ShiftRight(u, n), ShiftRight(v, n))
<1>1. Xor(u, v) \in W
  BY XorLaw
<1>2. \A x : x \in ShiftRight(Xor(u, v), n) <=> x \in Nat /\ x + n \in Xor(u, v)
  BY <1>1, ShiftHas
<1>3. \A x : x \in ShiftRight(u, n) <=> x \in Nat /\ x + n \in u
  BY ShiftHas
<1>4. \A x : x \in ShiftRight(v, n) <=> x \in Nat /\ x + n \in v
  BY ShiftHas
<1> QED
  BY <1>2, <1>3, <1>4 DEF Xor

\* One shift after another.
LEMMA ShiftShift ==
  ASSUME NEW w \in W, NEW n \in Nat, NEW k \in Nat
  PROVE  ShiftRight(ShiftRight(w, n), k) = ShiftRight(w, n + k)
<1>1. ShiftRight(w, n) \in W /\ \A x : x \in ShiftRight(w, n) <=> x \in Nat /\ x + n \in w
  BY ShiftHas
<1>2. \A x : x \in ShiftRight(ShiftRight(w, n), k) <=> x \in Nat /\ x + k \in ShiftRight(w, n)
  BY <1>1, ShiftHas
<1>3. n + k \in Nat
  OBVIOUS
<1>4. \A x : x \in ShiftRight(w, n + k) <=> x \in Nat /\ x + (n + k) \in w
  BY <1>3, ShiftHas
<1>5. \A x \in Nat : x + k \in Nat /\ (x + k) + n = x + (n + k)
  OBVIOUS
<1> QED
  BY <1>1, <1>2, <1>4, <1>5

\* One round of the generator of the tables.
Round(w) == Xor(ShiftRight(w, 1), IF 0 \in w THEN Polynomial ELSE {})

\* A round is linear, and shifts a word whose lowest bit is not set.
LEMMA RoundLaw ==
  ASSUME NEW u \in W, NEW v \in W
  PROVE  /\ Round(u) \in W
         /\ Round(Xor(u, v)) = Xor(Round(u), Round(v))
         /\ 0 \notin u => Round(u) = ShiftRight(u, 1)
<1>1. Polynomial \in W /\ {} \in W
  BY DEF Polynomial, W
<1>2. PICK p \in W, q \in W : p = (IF 0 \in u THEN Polynomial ELSE {}) /\ q = (IF 0 \in v THEN Polynomial ELSE {})
  BY <1>1
<1>3. PICK a \in W, b \in W : a = ShiftRight(u, 1) /\ b = ShiftRight(v, 1)
  BY ShiftHas
<1>4. (IF 0 \in Xor(u, v) THEN Polynomial ELSE {}) = Xor(p, q)
  BY <1>2 DEF Xor
<1>5. ShiftRight(Xor(u, v), 1) = Xor(a, b)
  BY <1>3, ShiftXor
<1>6. Round(Xor(u, v)) = Xor(Xor(a, b), Xor(p, q))
  BY <1>4, <1>5 DEF Round
<1>7. Round(u) = Xor(a, p) /\ Round(v) = Xor(b, q)
  BY <1>2, <1>3 DEF Round
<1>8. Xor(Xor(a, b), Xor(p, q)) = Xor(Xor(a, p), Xor(b, q))
  BY DEF Xor
<1>9. Xor(a, p) \in W
  BY XorLaw
<1>10. ASSUME 0 \notin u
       PROVE  Round(u) = ShiftRight(u, 1)
  <2>1. p = {}
    BY <1>2, <1>10
  <2>2. Xor(a, {}) = a
    BY XorLaw
  <2> QED
    BY <1>3, <1>7, <2>1, <2>2
<1> QED
  BY <1>6, <1>7, <1>8, <1>9, <1>10

\* The eight rounds.
Rounds(w) ==
  LET crc[j \in 0..8] ==
        IF j = 0 THEN w
        ELSE Xor(ShiftRight(crc[j - 1], 1), IF 0 \in crc[j - 1] THEN Polynomial ELSE {})
  IN  crc

\* EightShifts is eight of them.
LEMMA EightRounds ==
  ASSUME NEW w \in W
  PROVE  EightShifts(w) = Round(Round(Round(Round(Round(Round(Round(Round(w))))))))
<1>0. PICK n \in Nat : n = 8
  OBVIOUS
<1>1. PICK step : step = [i \in 0..n |-> [v \in W |-> Round(v)]]
  OBVIOUS
<1>2. IsSteps(n, W, w, step)
  <2>1. \A v \in W : Round(v) \in W
    BY RoundLaw
  <2> QED
    BY <1>1, <2>1 DEF IsSteps
<1>3. PICK h : Follows(n, W, w, step, h)
  BY <1>2, RecursionExists
<1>4. h \in [0..n -> W] /\ h[0] = w /\ \A i \in 1..n : h[i] = step[i][h[i - 1]]
  BY <1>3 DEF Follows
<1>5. \A i \in 1..n : i \in 0..n /\ i - 1 \in 0..n /\ i # 0
  OBVIOUS
<1>6. \A i \in 0..n : h[i] = IF i = 0 THEN w ELSE Round(h[i - 1])
  <2>1. \A i \in 1..n : h[i - 1] \in W
    BY <1>4, <1>5
  <2>2. \A i \in 1..n : h[i] = Round(h[i - 1])
    BY <1>1, <1>4, <1>5, <2>1
  <2>3. \A i \in 0..n : i # 0 => i \in 1..n
    OBVIOUS
  <2> QED
    BY <1>4, <2>2, <2>3
<1>7. h = [j \in 0..8 |-> IF j = 0 THEN w
                          ELSE Xor(ShiftRight(h[j - 1], 1), IF 0 \in h[j - 1] THEN Polynomial ELSE {})]
  BY <1>0, <1>4, <1>6 DEF Round
<1>8. Rounds(w) = [j \in 0..8 |->
        IF j = 0 THEN w
        ELSE Xor(ShiftRight(Rounds(w)[j - 1], 1), IF 0 \in Rounds(w)[j - 1] THEN Polynomial ELSE {})]
  BY <1>7, Zenon DEF Rounds
<1>9. PICK f : f = Rounds(w)
  OBVIOUS
<1>10. f = [j \in 0..8 |-> IF j = 0 THEN w ELSE Round(f[j - 1])]
  BY <1>8, <1>9 DEF Round
<1>11. f[0] = w /\ \A j \in 1..8 : f[j] = Round(f[j - 1])
  BY <1>10
<1>12. /\ f[1] = Round(f[0]) /\ f[2] = Round(f[1]) /\ f[3] = Round(f[2]) /\ f[4] = Round(f[3])
       /\ f[5] = Round(f[4]) /\ f[6] = Round(f[5]) /\ f[7] = Round(f[6]) /\ f[8] = Round(f[7])
  BY <1>11
<1>13. EightShifts(w) = f[8]
  BY <1>9 DEF EightShifts, Rounds
<1> QED
  BY <1>11, <1>12, <1>13

\* The eight rounds distribute over exclusive or, and they only shift what is above
\* the low byte.
LEMMA ShiftsLaw ==
  ASSUME NEW u \in W, NEW v \in W
  PROVE  /\ EightShifts(u) \in W
         /\ EightShifts(Xor(u, v)) = Xor(EightShifts(u), EightShifts(v))
<1>1. PICK u1 \in W, v1 \in W : u1 = Round(u) /\ v1 = Round(v) /\ Round(Xor(u, v)) = Xor(u1, v1)
  BY RoundLaw
<1>2. PICK u2 \in W, v2 \in W : u2 = Round(u1) /\ v2 = Round(v1) /\ Round(Xor(u1, v1)) = Xor(u2, v2)
  BY RoundLaw
<1>3. PICK u3 \in W, v3 \in W : u3 = Round(u2) /\ v3 = Round(v2) /\ Round(Xor(u2, v2)) = Xor(u3, v3)
  BY RoundLaw
<1>4. PICK u4 \in W, v4 \in W : u4 = Round(u3) /\ v4 = Round(v3) /\ Round(Xor(u3, v3)) = Xor(u4, v4)
  BY RoundLaw
<1>5. PICK u5 \in W, v5 \in W : u5 = Round(u4) /\ v5 = Round(v4) /\ Round(Xor(u4, v4)) = Xor(u5, v5)
  BY RoundLaw
<1>6. PICK u6 \in W, v6 \in W : u6 = Round(u5) /\ v6 = Round(v5) /\ Round(Xor(u5, v5)) = Xor(u6, v6)
  BY RoundLaw
<1>7. PICK u7 \in W, v7 \in W : u7 = Round(u6) /\ v7 = Round(v6) /\ Round(Xor(u6, v6)) = Xor(u7, v7)
  BY RoundLaw
<1>8. PICK u8 \in W, v8 \in W : u8 = Round(u7) /\ v8 = Round(v7) /\ Round(Xor(u7, v7)) = Xor(u8, v8)
  BY RoundLaw
<1>9. EightShifts(u) = u8
  BY <1>1, <1>2, <1>3, <1>4, <1>5, <1>6, <1>7, <1>8, EightRounds
<1>10. EightShifts(v) = v8
  BY <1>1, <1>2, <1>3, <1>4, <1>5, <1>6, <1>7, <1>8, EightRounds
<1>11. Xor(u, v) \in W
  BY XorLaw
<1>12. EightShifts(Xor(u, v)) = Xor(u8, v8)
  BY <1>1, <1>2, <1>3, <1>4, <1>5, <1>6, <1>7, <1>8, <1>11, EightRounds
<1> QED
  BY <1>9, <1>10, <1>12

\* One round shifts a word that has been shifted before, if its lowest bit is zero.
LEMMA RoundShifts ==
  ASSUME NEW w \in W, w \cap (0..7) = {}, NEW n \in 0..7
  PROVE  Round(ShiftRight(w, n)) = ShiftRight(w, n + 1)
<1>1. n \in Nat /\ 1 \in Nat /\ 0 + n = n
  OBVIOUS
<1>2. ShiftRight(w, n) \in W /\ (0 \in ShiftRight(w, n) <=> 0 \in Nat /\ 0 + n \in w)
  BY <1>1, ShiftHas
<1>3. 0 \notin ShiftRight(w, n)
  BY <1>1, <1>2
<1>4. Round(ShiftRight(w, n)) = ShiftRight(ShiftRight(w, n), 1)
  BY <1>2, <1>3, RoundLaw
<1>5. ShiftRight(ShiftRight(w, n), 1) = ShiftRight(w, n + 1)
  BY <1>1, ShiftShift
<1> QED
  BY <1>4, <1>5

\* A word whose lowest byte is empty is only shifted.
LEMMA HighShifts ==
  ASSUME NEW w \in W, w \cap (0..7) = {}
  PROVE  EightShifts(w) = ShiftRight(w, 8)
<1>1. w = ShiftRight(w, 0)
  <2>1. \A x : x \in ShiftRight(w, 0) <=> x \in Nat /\ x + 0 \in w
    BY ShiftHas
  <2>2. \A x \in w : x \in Nat
    BY DEF W
  <2>3. \A x \in Nat : x + 0 = x
    OBVIOUS
  <2> QED
    BY <2>1, <2>2, <2>3
<1>2. \A n \in 0..7 : Round(ShiftRight(w, n)) = ShiftRight(w, n + 1)
  BY RoundShifts
<1>3. /\ Round(ShiftRight(w, 0)) = ShiftRight(w, 1) /\ Round(ShiftRight(w, 1)) = ShiftRight(w, 2)
      /\ Round(ShiftRight(w, 2)) = ShiftRight(w, 3) /\ Round(ShiftRight(w, 3)) = ShiftRight(w, 4)
      /\ Round(ShiftRight(w, 4)) = ShiftRight(w, 5) /\ Round(ShiftRight(w, 5)) = ShiftRight(w, 6)
      /\ Round(ShiftRight(w, 6)) = ShiftRight(w, 7) /\ Round(ShiftRight(w, 7)) = ShiftRight(w, 8)
  BY <1>2
<1>4. EightShifts(w) = Round(Round(Round(Round(Round(Round(Round(Round(w))))))))
  BY EightRounds
<1> QED
  BY <1>1, <1>3, <1>4

\* The low byte goes through the table, the rest is shifted.
LEMMA LowAndHigh ==
  ASSUME NEW w \in W
  PROVE  EightShifts(w) = Xor(ShiftRight(w, 8), EightShifts(w \cap (0..7)))
<1>1. PICK low \in W, high \in W : low = w \cap (0..7) /\ high = w \ (0..7)
  BY DEF W
<1>2. w = Xor(high, low)
  BY <1>1 DEF Xor
<1>3. EightShifts(w) = Xor(EightShifts(high), EightShifts(low))
  BY <1>2, ShiftsLaw
<1>4. high \cap (0..7) = {}
  BY <1>1
<1>5. EightShifts(high) = ShiftRight(high, 8)
  BY <1>4, HighShifts
<1>6. ShiftRight(high, 8) = ShiftRight(w, 8)
  <2>1. \A x : x \in ShiftRight(high, 8) <=> x \in Nat /\ x + 8 \in high
    BY ShiftHas
  <2>2. \A x : x \in ShiftRight(w, 8) <=> x \in Nat /\ x + 8 \in w
    BY ShiftHas
  <2>3. \A x \in Nat : x + 8 \notin 0..7
    OBVIOUS
  <2> QED
    BY <1>1, <2>1, <2>2, <2>3
<1> QED
  BY <1>1, <1>3, <1>5, <1>6

\* The words of one byte.
LowWords == SUBSET (0..7)

\* Taking a byte of a word is linear, and shifting by eight bits goes to the next byte.
LEMMA ByteLaw ==
  ASSUME NEW u \in W, NEW v \in W, NEW k \in Nat
  PROVE  /\ Byte(u, k) \in LowWords /\ Byte(u, k) \in W
         /\ Byte(Xor(u, v), k) = Xor(Byte(u, k), Byte(v, k))
         /\ Byte(u, 0) = u \cap (0..7)
         /\ Byte(ShiftRight(u, 8), k) = Byte(u, k + 1)
<1>1. 8 * k \in Nat /\ 8 * 0 = 0 /\ 8 + 8 * k = 8 * (k + 1) /\ k + 1 \in Nat /\ 0 \in Nat
  OBVIOUS
<1>2. Byte(u, k) \in LowWords /\ Byte(u, k) \in W
  BY DEF Byte, LowWords, W
<1>3. Byte(Xor(u, v), k) = Xor(Byte(u, k), Byte(v, k))
  <2>1. ShiftRight(Xor(u, v), 8 * k) = Xor(ShiftRight(u, 8 * k), ShiftRight(v, 8 * k))
    BY <1>1, ShiftXor
  <2> QED
    BY <2>1 DEF Byte, Xor
<1>4. Byte(u, 0) = u \cap (0..7)
  <2>1. \A x : x \in ShiftRight(u, 0) <=> x \in Nat /\ x + 0 \in u
    BY ShiftHas
  <2>2. \A x \in 0..7 : x \in Nat /\ x + 0 = x
    OBVIOUS
  <2>3. Byte(u, 0) = ShiftRight(u, 0) \cap (0..7)
    BY <1>1 DEF Byte
  <2> QED
    BY <2>1, <2>2, <2>3
<1>5. Byte(ShiftRight(u, 8), k) = Byte(u, k + 1)
  <2>1. ShiftRight(ShiftRight(u, 8), 8 * k) = ShiftRight(u, 8 + 8 * k)
    BY <1>1, ShiftShift
  <2> QED
    BY <1>1, <2>1 DEF Byte
<1> QED
  BY <1>2, <1>3, <1>4, <1>5

\* A byte of the message is one.
LEMMA BitsLaw ==
  ASSUME NEW byte
  PROVE  BitsOf(byte) \in LowWords /\ BitsOf(byte) \in W
<1>1. BitsOf(byte) \subseteq 0..7
  BY Zenon DEF BitsOf
<1>2. \A x \in 0..7 : x \in 0..31
  OBVIOUS
<1> QED
  BY <1>1, <1>2 DEF LowWords, W

\* The remaining bytes, one at a time: what the reference does.
LEMMA OneByteIs ==
  ASSUME NEW crc \in W, NEW byte
  PROVE  /\ BitsOf(byte) \in LowWords /\ BitsOf(byte) \in W
         /\ OneByte(crc, byte) = EightShifts(Xor(crc, BitsOf(byte)))
         /\ EightShifts(Xor(crc, BitsOf(byte))) \in W
<1>1. PICK d \in W : d = BitsOf(byte) /\ d \in LowWords
  BY BitsLaw
<1>2. PICK w \in W : w = Xor(crc, d)
  BY XorLaw
<1>3. EightShifts(w) = Xor(ShiftRight(w, 8), EightShifts(w \cap (0..7)))
  BY LowAndHigh
<1>4. ShiftRight(w, 8) = ShiftRight(crc, 8)
  <2>1. \A x : x \in ShiftRight(w, 8) <=> x \in Nat /\ x + 8 \in w
    BY ShiftHas
  <2>2. \A x : x \in ShiftRight(crc, 8) <=> x \in Nat /\ x + 8 \in crc
    BY ShiftHas
  <2>3. \A x \in Nat : x + 8 \notin d
    BY <1>1 DEF LowWords
  <2> QED
    BY <1>2, <2>1, <2>2, <2>3 DEF Xor
<1>5. w \cap (0..7) = Xor(Byte(crc, 0), d)
  <2>1. Byte(crc, 0) = crc \cap (0..7)
    BY ByteLaw
  <2> QED
    BY <1>1, <1>2, <2>1 DEF Xor, LowWords
<1>6. w \cap (0..7) \in SUBSET (0..7)
  OBVIOUS
<1>7. Lookup0[w \cap (0..7)] = EightShifts(w \cap (0..7))
  BY <1>6 DEF Lookup0
<1>8. OneByte(crc, byte) = EightShifts(w)
  BY <1>1, <1>3, <1>4, <1>5, <1>7 DEF OneByte
<1>9. EightShifts(w) \in W
  BY ShiftsLaw
<1> QED
  BY <1>1, <1>2, <1>8, <1>9

\* Eight rounds for every byte.
E1(w) == EightShifts(w)
E2(w) == E1(EightShifts(w))
E3(w) == E2(EightShifts(w))
E4(w) == E3(EightShifts(w))
E5(w) == E4(EightShifts(w))
E6(w) == E5(EightShifts(w))
E7(w) == E6(EightShifts(w))
E8(w) == E7(EightShifts(w))

\* They distribute over exclusive or.
LEMMA PowersXor ==
  ASSUME NEW u \in W, NEW v \in W
  PROVE  /\ E1(Xor(u, v)) = Xor(E1(u), E1(v)) /\ E2(Xor(u, v)) = Xor(E2(u), E2(v))
         /\ E3(Xor(u, v)) = Xor(E3(u), E3(v)) /\ E4(Xor(u, v)) = Xor(E4(u), E4(v))
         /\ E5(Xor(u, v)) = Xor(E5(u), E5(v)) /\ E6(Xor(u, v)) = Xor(E6(u), E6(v))
         /\ E7(Xor(u, v)) = Xor(E7(u), E7(v)) /\ E8(Xor(u, v)) = Xor(E8(u), E8(v))
<1>0. \A x \in W : EightShifts(x) \in W
  BY ShiftsLaw
<1>1. \A x, y \in W : EightShifts(Xor(x, y)) = Xor(EightShifts(x), EightShifts(y))
  BY ShiftsLaw
<1>2. \A x, y \in W : E1(Xor(x, y)) = Xor(E1(x), E1(y))
  BY <1>1 DEF E1
<1>3. \A x, y \in W : E2(Xor(x, y)) = Xor(E2(x), E2(y))
  BY <1>0, <1>1, <1>2 DEF E2
<1>4. \A x, y \in W : E3(Xor(x, y)) = Xor(E3(x), E3(y))
  BY <1>0, <1>1, <1>3 DEF E3
<1>5. \A x, y \in W : E4(Xor(x, y)) = Xor(E4(x), E4(y))
  BY <1>0, <1>1, <1>4 DEF E4
<1>6. \A x, y \in W : E5(Xor(x, y)) = Xor(E5(x), E5(y))
  BY <1>0, <1>1, <1>5 DEF E5
<1>7. \A x, y \in W : E6(Xor(x, y)) = Xor(E6(x), E6(y))
  BY <1>0, <1>1, <1>6 DEF E6
<1>8. \A x, y \in W : E7(Xor(x, y)) = Xor(E7(x), E7(y))
  BY <1>0, <1>1, <1>7 DEF E7
<1>9. \A x, y \in W : E8(Xor(x, y)) = Xor(E8(x), E8(y))
  BY <1>0, <1>1, <1>8 DEF E8
<1> QED
  BY <1>2, <1>3, <1>4, <1>5, <1>6, <1>7, <1>8, <1>9

\* A table on which a table is built.
LEMMA LookupNext ==
  ASSUME NEW last, DOMAIN last = LowWords, NEW i \in LowWords, last[i] \in W
  PROVE  /\ DOMAIN LookupAfter(last) = LowWords
         /\ LookupAfter(last)[i] = EightShifts(last[i]) /\ LookupAfter(last)[i] \in W
<1>1. PICK w \in W : w = last[i]
  OBVIOUS
<1>2. LookupAfter(last)[i] = Xor(ShiftRight(w, 8), Lookup0[Byte(w, 0)]) /\ DOMAIN LookupAfter(last) = LowWords
  BY <1>1 DEF LookupAfter
<1>3. Byte(w, 0) = w \cap (0..7) /\ Byte(w, 0) \in LowWords
  BY ByteLaw
<1>4. Lookup0[Byte(w, 0)] = EightShifts(w \cap (0..7))
  BY <1>3 DEF Lookup0, LowWords
<1>5. EightShifts(w) = Xor(ShiftRight(w, 8), EightShifts(w \cap (0..7))) /\ EightShifts(w) \in W
  BY LowAndHigh, ShiftsLaw
<1> QED
  BY <1>1, <1>2, <1>4, <1>5

\* One round of eight after the others, or before them.
LEMMA PowersTurn ==
  ASSUME NEW w \in W
  PROVE  /\ E2(w) = EightShifts(E1(w)) /\ E3(w) = EightShifts(E2(w)) /\ E4(w) = EightShifts(E3(w))
         /\ E5(w) = EightShifts(E4(w)) /\ E6(w) = EightShifts(E5(w)) /\ E7(w) = EightShifts(E6(w))
         /\ E8(w) = EightShifts(E7(w))
BY DEF E1, E2, E3, E4, E5, E6, E7, E8

\* The tables.
LEMMA LookupsAre ==
  ASSUME NEW i \in LowWords
  PROVE  /\ Lookup0[i] = E1(i) /\ Lookup1[i] = E2(i) /\ Lookup2[i] = E3(i) /\ Lookup3[i] = E4(i)
         /\ Lookup4[i] = E5(i) /\ Lookup5[i] = E6(i) /\ Lookup6[i] = E7(i) /\ Lookup7[i] = E8(i)
         /\ Lookup0[i] \in W /\ Lookup1[i] \in W /\ Lookup2[i] \in W /\ Lookup3[i] \in W
         /\ Lookup4[i] \in W /\ Lookup5[i] \in W /\ Lookup6[i] \in W /\ Lookup7[i] \in W
<1>0. i \in W
  <2>1. \A x \in 0..7 : x \in 0..31
    OBVIOUS
  <2> QED
    BY <2>1 DEF LowWords, W
<1>1. DOMAIN Lookup0 = LowWords /\ Lookup0[i] = EightShifts(i) /\ Lookup0[i] \in W
  BY <1>0, ShiftsLaw DEF Lookup0, LowWords
<1>2. DOMAIN Lookup1 = LowWords /\ Lookup1[i] = EightShifts(Lookup0[i]) /\ Lookup1[i] \in W
  BY <1>1, LookupNext DEF Lookup1
<1>3. DOMAIN Lookup2 = LowWords /\ Lookup2[i] = EightShifts(Lookup1[i]) /\ Lookup2[i] \in W
  BY <1>2, LookupNext DEF Lookup2
<1>4. DOMAIN Lookup3 = LowWords /\ Lookup3[i] = EightShifts(Lookup2[i]) /\ Lookup3[i] \in W
  BY <1>3, LookupNext DEF Lookup3
<1>5. DOMAIN Lookup4 = LowWords /\ Lookup4[i] = EightShifts(Lookup3[i]) /\ Lookup4[i] \in W
  BY <1>4, LookupNext DEF Lookup4
<1>6. DOMAIN Lookup5 = LowWords /\ Lookup5[i] = EightShifts(Lookup4[i]) /\ Lookup5[i] \in W
  BY <1>5, LookupNext DEF Lookup5
<1>7. DOMAIN Lookup6 = LowWords /\ Lookup6[i] = EightShifts(Lookup5[i]) /\ Lookup6[i] \in W
  BY <1>6, LookupNext DEF Lookup6
<1>8. DOMAIN Lookup7 = LowWords /\ Lookup7[i] = EightShifts(Lookup6[i]) /\ Lookup7[i] \in W
  BY <1>7, LookupNext DEF Lookup7
<1>9. /\ E2(i) = EightShifts(E1(i)) /\ E3(i) = EightShifts(E2(i)) /\ E4(i) = EightShifts(E3(i))
      /\ E5(i) = EightShifts(E4(i)) /\ E6(i) = EightShifts(E5(i)) /\ E7(i) = EightShifts(E6(i))
      /\ E8(i) = EightShifts(E7(i)) /\ E1(i) = EightShifts(i)
  BY <1>0, PowersTurn DEF E1
<1> QED
  BY <1>1, <1>2, <1>3, <1>4, <1>5, <1>6, <1>7, <1>8, <1>9

\* What four bytes in memory are as a word.
LEMMA WordLaw ==
  ASSUME NEW data, NEW at \in Int
  PROVE  /\ Word(data, at) \in W
         /\ \A k \in 0..3 : Byte(Word(data, at), k) = BitsOf(data[at + k])
<1>1. \A k \in 0..3 : BitsOf(data[at + k]) \subseteq 0..7
  BY BitsLaw DEF LowWords
<1>2. PICK B : B = [k \in 0..3 |-> BitsOf(data[at + k])]
  OBVIOUS
<1>3. \A k \in 0..3 : B[k] = BitsOf(data[at + k]) /\ B[k] \subseteq 0..7
  BY <1>1, <1>2
<1>4. PICK w : w = Word(data, at)
  OBVIOUS
<1>5. \A x : x \in w <=> \E k \in 0..3 : \E y \in B[k] : x = y + 8 * k
  BY <1>3, <1>4 DEF Word, ShiftLeft
<1>6. w \in W
  <2>1. \A k \in 0..3 : \A y \in 0..7 : y + 8 * k \in 0..31
    OBVIOUS
  <2> QED
    BY <1>3, <1>5, <2>1 DEF W
<1>7. ASSUME NEW k \in 0..3
      PROVE  Byte(w, k) = B[k]
  <2>1. 8 * k \in Nat
    OBVIOUS
  <2>2. \A x : x \in ShiftRight(w, 8 * k) <=> x \in Nat /\ x + 8 * k \in w
    BY <1>6, <2>1, ShiftHas
  <2>3. \A x \in 0..7 : \A j \in 0..3 : \A y \in 0..7 : x + 8 * k = y + 8 * j => j = k /\ y = x
    OBVIOUS
  <2>4. \A x \in 0..7 : x + 8 * k \in w <=> x \in B[k]
    BY <1>3, <1>5, <2>3
  <2>5. \A x \in 0..7 : x \in Nat
    OBVIOUS
  <2> QED
    BY <1>3, <2>2, <2>4, <2>5 DEF Byte
<1> QED
  BY <1>3, <1>4, <1>6, <1>7

\* One byte of the reference, of a word that is the rest s of the word at the beginning
\* and the contribution t of the bytes so far.
LEMMA NextByte ==
  ASSUME NEW s \in W, NEW t \in W, NEW d \in LowWords, d \in W
  PROVE  /\ EightShifts(Xor(Xor(s, t), d))
              = Xor(ShiftRight(s, 8), Xor(E1(Xor(Byte(s, 0), d)), E1(t)))
         /\ Xor(E1(Xor(Byte(s, 0), d)), E1(t)) \in W /\ Xor(Byte(s, 0), d) \in LowWords /\ Xor(Byte(s, 0), d) \in W
<1>1. PICK v \in W : v = Xor(s, d)
  BY XorLaw
<1>2. Xor(Xor(s, t), d) = Xor(v, t)
  BY <1>1 DEF Xor
<1>3. EightShifts(Xor(v, t)) = Xor(EightShifts(v), EightShifts(t)) /\ EightShifts(t) \in W
  BY ShiftsLaw
<1>4. EightShifts(v) = Xor(ShiftRight(v, 8), EightShifts(v \cap (0..7)))
  BY LowAndHigh
<1>5. ShiftRight(v, 8) = ShiftRight(s, 8) /\ ShiftRight(s, 8) \in W
  <2>1. \A x : x \in ShiftRight(v, 8) <=> x \in Nat /\ x + 8 \in v
    BY ShiftHas
  <2>2. ShiftRight(s, 8) \in W /\ \A x : x \in ShiftRight(s, 8) <=> x \in Nat /\ x + 8 \in s
    BY ShiftHas
  <2>3. \A x \in Nat : x + 8 \notin d
    BY DEF LowWords
  <2> QED
    BY <1>1, <2>1, <2>2, <2>3 DEF Xor
<1>6. PICK low \in W : low = Xor(Byte(s, 0), d) /\ low = v \cap (0..7) /\ low \in LowWords
  <2>1. Byte(s, 0) = s \cap (0..7)
    BY ByteLaw
  <2> QED
    BY <1>1, <2>1 DEF Xor, LowWords, W
<1>7. EightShifts(low) \in W
  BY ShiftsLaw
<1>8. Xor(Xor(ShiftRight(s, 8), EightShifts(low)), EightShifts(t)) = Xor(ShiftRight(s, 8), Xor(EightShifts(low), EightShifts(t)))
  BY <1>3, <1>5, <1>7, XorLaw
<1>9. Xor(EightShifts(low), EightShifts(t)) \in W
  BY <1>3, <1>7, XorLaw
<1> QED
  BY <1>2, <1>3, <1>4, <1>5, <1>6, <1>8, <1>9 DEF E1

\* Slicing by eight is eight times what the reference does for a byte.
LEMMA EightBytesIs ==
  ASSUME NEW data, NEW at \in Int, NEW r,
         r[0] \in W, \A k \in 0..7 : r[k + 1] = EightShifts(Xor(r[k], BitsOf(data[at + k])))
  PROVE  EightBytes(r[0], data, at) = r[8]
<1>1. PICK s0 \in W : s0 = r[0]
  OBVIOUS
<1>2. \A k \in 0..7 : BitsOf(data[at + k]) \in LowWords /\ BitsOf(data[at + k]) \in W
  BY BitsLaw
<1>3. PICK d0 \in LowWords : d0 \in W /\ d0 = BitsOf(data[at + 0]) /\ r[1] = EightShifts(Xor(r[0], d0))
  BY <1>2
<1>4. PICK d1 \in LowWords : d1 \in W /\ d1 = BitsOf(data[at + 1]) /\ r[1 + 1] = EightShifts(Xor(r[1], d1))
  BY <1>2
<1>5. PICK d2 \in LowWords : d2 \in W /\ d2 = BitsOf(data[at + 2]) /\ r[2 + 1] = EightShifts(Xor(r[2], d2))
  BY <1>2
<1>6. PICK d3 \in LowWords : d3 \in W /\ d3 = BitsOf(data[at + 3]) /\ r[3 + 1] = EightShifts(Xor(r[3], d3))
  BY <1>2
<1>7. PICK d4 \in LowWords : d4 \in W /\ d4 = BitsOf(data[at + 4]) /\ r[4 + 1] = EightShifts(Xor(r[4], d4))
  BY <1>2
<1>8. PICK d5 \in LowWords : d5 \in W /\ d5 = BitsOf(data[at + 5]) /\ r[5 + 1] = EightShifts(Xor(r[5], d5))
  BY <1>2
<1>9. PICK d6 \in LowWords : d6 \in W /\ d6 = BitsOf(data[at + 6]) /\ r[6 + 1] = EightShifts(Xor(r[6], d6))
  BY <1>2
<1>10. PICK d7 \in LowWords : d7 \in W /\ d7 = BitsOf(data[at + 7]) /\ r[7 + 1] = EightShifts(Xor(r[7], d7))
  BY <1>2
<1>11. PICK s1 \in W : s1 = ShiftRight(s0, 8) /\ \A j \in Nat : Byte(s1, j) = Byte(s0, j + 1)
  BY ShiftHas, ByteLaw
<1>12. PICK s2 \in W : s2 = ShiftRight(s1, 8) /\ \A j \in Nat : Byte(s2, j) = Byte(s1, j + 1)
  BY ShiftHas, ByteLaw
<1>13. PICK s3 \in W : s3 = ShiftRight(s2, 8) /\ \A j \in Nat : Byte(s3, j) = Byte(s2, j + 1)
  BY ShiftHas, ByteLaw
<1>14. PICK s4 \in W : s4 = ShiftRight(s3, 8) /\ \A j \in Nat : Byte(s4, j) = Byte(s3, j + 1)
  BY ShiftHas, ByteLaw
<1>15. PICK s5 \in W : s5 = ShiftRight(s4, 8) /\ \A j \in Nat : Byte(s5, j) = Byte(s4, j + 1)
  BY ShiftHas, ByteLaw
<1>16. PICK s6 \in W : s6 = ShiftRight(s5, 8) /\ \A j \in Nat : Byte(s6, j) = Byte(s5, j + 1)
  BY ShiftHas, ByteLaw
<1>17. PICK s7 \in W : s7 = ShiftRight(s6, 8) /\ \A j \in Nat : Byte(s7, j) = Byte(s6, j + 1)
  BY ShiftHas, ByteLaw
<1>18. PICK s8 \in W : s8 = ShiftRight(s7, 8) /\ \A j \in Nat : Byte(s8, j) = Byte(s7, j + 1)
  BY ShiftHas, ByteLaw
<1>19. {} \in W /\ s0 = Xor(s0, {})
  BY NoBits, XorLaw
<1>20. PICK o0 \in LowWords, t1 \in W : /\ o0 = Xor(Byte(s0, 0), d0) /\ o0 \in W
                                  /\ t1 = Xor(E1(o0), E1({})) /\ r[1] = Xor(s1, t1)
  <2>1. r[0] = Xor(s0, {})
    BY <1>1, <1>19
  <2>2. {} \in W
    BY <1>19
  <2>3. /\ EightShifts(Xor(Xor(s0, {}), d0))
              = Xor(ShiftRight(s0, 8), Xor(E1(Xor(Byte(s0, 0), d0)), E1({})))
        /\ Xor(E1(Xor(Byte(s0, 0), d0)), E1({})) \in W /\ Xor(Byte(s0, 0), d0) \in LowWords
        /\ Xor(Byte(s0, 0), d0) \in W
    BY <1>3, <2>2, NextByte
  <2>4. r[1] = EightShifts(Xor(r[0], d0))
    BY <1>3
  <2> QED
    BY <1>11, <2>1, <2>3, <2>4
<1>21. PICK o1 \in LowWords, t2 \in W : /\ o1 = Xor(Byte(s1, 0), d1) /\ o1 \in W
                                  /\ t2 = Xor(E1(o1), E1(t1)) /\ r[2] = Xor(s2, t2)
  <2>1. r[1] = Xor(s1, t1)
    BY <1>1, <1>20
  <2>2. t1 \in W
    BY <1>19
  <2>3. /\ EightShifts(Xor(Xor(s1, t1), d1))
              = Xor(ShiftRight(s1, 8), Xor(E1(Xor(Byte(s1, 0), d1)), E1(t1)))
        /\ Xor(E1(Xor(Byte(s1, 0), d1)), E1(t1)) \in W /\ Xor(Byte(s1, 0), d1) \in LowWords
        /\ Xor(Byte(s1, 0), d1) \in W
    BY <1>4, <2>2, NextByte
  <2>4. r[2] = EightShifts(Xor(r[1], d1))
    BY <1>4
  <2> QED
    BY <1>12, <2>1, <2>3, <2>4
<1>22. PICK o2 \in LowWords, t3 \in W : /\ o2 = Xor(Byte(s2, 0), d2) /\ o2 \in W
                                  /\ t3 = Xor(E1(o2), E1(t2)) /\ r[3] = Xor(s3, t3)
  <2>1. r[2] = Xor(s2, t2)
    BY <1>1, <1>21
  <2>2. t2 \in W
    BY <1>19
  <2>3. /\ EightShifts(Xor(Xor(s2, t2), d2))
              = Xor(ShiftRight(s2, 8), Xor(E1(Xor(Byte(s2, 0), d2)), E1(t2)))
        /\ Xor(E1(Xor(Byte(s2, 0), d2)), E1(t2)) \in W /\ Xor(Byte(s2, 0), d2) \in LowWords
        /\ Xor(Byte(s2, 0), d2) \in W
    BY <1>5, <2>2, NextByte
  <2>4. r[3] = EightShifts(Xor(r[2], d2))
    BY <1>5
  <2> QED
    BY <1>13, <2>1, <2>3, <2>4
<1>23. PICK o3 \in LowWords, t4 \in W : /\ o3 = Xor(Byte(s3, 0), d3) /\ o3 \in W
                                  /\ t4 = Xor(E1(o3), E1(t3)) /\ r[4] = Xor(s4, t4)
  <2>1. r[3] = Xor(s3, t3)
    BY <1>1, <1>22
  <2>2. t3 \in W
    BY <1>19
  <2>3. /\ EightShifts(Xor(Xor(s3, t3), d3))
              = Xor(ShiftRight(s3, 8), Xor(E1(Xor(Byte(s3, 0), d3)), E1(t3)))
        /\ Xor(E1(Xor(Byte(s3, 0), d3)), E1(t3)) \in W /\ Xor(Byte(s3, 0), d3) \in LowWords
        /\ Xor(Byte(s3, 0), d3) \in W
    BY <1>6, <2>2, NextByte
  <2>4. r[4] = EightShifts(Xor(r[3], d3))
    BY <1>6
  <2> QED
    BY <1>14, <2>1, <2>3, <2>4
<1>24. PICK o4 \in LowWords, t5 \in W : /\ o4 = Xor(Byte(s4, 0), d4) /\ o4 \in W
                                  /\ t5 = Xor(E1(o4), E1(t4)) /\ r[5] = Xor(s5, t5)
  <2>1. r[4] = Xor(s4, t4)
    BY <1>1, <1>23
  <2>2. t4 \in W
    BY <1>19
  <2>3. /\ EightShifts(Xor(Xor(s4, t4), d4))
              = Xor(ShiftRight(s4, 8), Xor(E1(Xor(Byte(s4, 0), d4)), E1(t4)))
        /\ Xor(E1(Xor(Byte(s4, 0), d4)), E1(t4)) \in W /\ Xor(Byte(s4, 0), d4) \in LowWords
        /\ Xor(Byte(s4, 0), d4) \in W
    BY <1>7, <2>2, NextByte
  <2>4. r[5] = EightShifts(Xor(r[4], d4))
    BY <1>7
  <2> QED
    BY <1>15, <2>1, <2>3, <2>4
<1>25. PICK o5 \in LowWords, t6 \in W : /\ o5 = Xor(Byte(s5, 0), d5) /\ o5 \in W
                                  /\ t6 = Xor(E1(o5), E1(t5)) /\ r[6] = Xor(s6, t6)
  <2>1. r[5] = Xor(s5, t5)
    BY <1>1, <1>24
  <2>2. t5 \in W
    BY <1>19
  <2>3. /\ EightShifts(Xor(Xor(s5, t5), d5))
              = Xor(ShiftRight(s5, 8), Xor(E1(Xor(Byte(s5, 0), d5)), E1(t5)))
        /\ Xor(E1(Xor(Byte(s5, 0), d5)), E1(t5)) \in W /\ Xor(Byte(s5, 0), d5) \in LowWords
        /\ Xor(Byte(s5, 0), d5) \in W
    BY <1>8, <2>2, NextByte
  <2>4. r[6] = EightShifts(Xor(r[5], d5))
    BY <1>8
  <2> QED
    BY <1>16, <2>1, <2>3, <2>4
<1>26. PICK o6 \in LowWords, t7 \in W : /\ o6 = Xor(Byte(s6, 0), d6) /\ o6 \in W
                                  /\ t7 = Xor(E1(o6), E1(t6)) /\ r[7] = Xor(s7, t7)
  <2>1. r[6] = Xor(s6, t6)
    BY <1>1, <1>25
  <2>2. t6 \in W
    BY <1>19
  <2>3. /\ EightShifts(Xor(Xor(s6, t6), d6))
              = Xor(ShiftRight(s6, 8), Xor(E1(Xor(Byte(s6, 0), d6)), E1(t6)))
        /\ Xor(E1(Xor(Byte(s6, 0), d6)), E1(t6)) \in W /\ Xor(Byte(s6, 0), d6) \in LowWords
        /\ Xor(Byte(s6, 0), d6) \in W
    BY <1>9, <2>2, NextByte
  <2>4. r[7] = EightShifts(Xor(r[6], d6))
    BY <1>9
  <2> QED
    BY <1>17, <2>1, <2>3, <2>4
<1>27. PICK o7 \in LowWords, t8 \in W : /\ o7 = Xor(Byte(s7, 0), d7) /\ o7 \in W
                                  /\ t8 = Xor(E1(o7), E1(t7)) /\ r[8] = Xor(s8, t8)
  <2>1. r[7] = Xor(s7, t7)
    BY <1>1, <1>26
  <2>2. t7 \in W
    BY <1>19
  <2>3. /\ EightShifts(Xor(Xor(s7, t7), d7))
              = Xor(ShiftRight(s7, 8), Xor(E1(Xor(Byte(s7, 0), d7)), E1(t7)))
        /\ Xor(E1(Xor(Byte(s7, 0), d7)), E1(t7)) \in W /\ Xor(Byte(s7, 0), d7) \in LowWords
        /\ Xor(Byte(s7, 0), d7) \in W
    BY <1>10, <2>2, NextByte
  <2>4. r[8] = EightShifts(Xor(r[7], d7))
    BY <1>10
  <2> QED
    BY <1>18, <2>1, <2>3, <2>4
<1>28. E1({}) = {}
  <2>1. \A x \in {} \cap (0..7) : FALSE
    OBVIOUS
  <2>2. {} \cap (0..7) = {}
    OBVIOUS
  <2>3. EightShifts({}) = ShiftRight({}, 8)
    BY <1>19, <2>2, HighShifts
  <2> QED
    BY <2>3, NoBits DEF E1
<1>29. s4 = {} /\ s5 = {} /\ s6 = {} /\ s7 = {} /\ s8 = {}
  <2>1. s2 = ShiftRight(s0, 16) /\ s4 = ShiftRight(s2, 16)
    <3>1. ShiftRight(ShiftRight(s0, 8), 8) = ShiftRight(s0, 8 + 8)
      BY ShiftShift
    <3>2. ShiftRight(ShiftRight(s2, 8), 8) = ShiftRight(s2, 8 + 8)
      BY ShiftShift
    <3>3. 8 + 8 = 16
      OBVIOUS
    <3> QED
      BY <1>11, <1>12, <1>13, <1>14, <3>1, <3>2, <3>3
  <2>2. s4 = ShiftRight(s0, 32)
    <3>1. ShiftRight(ShiftRight(s0, 16), 16) = ShiftRight(s0, 16 + 16)
      BY ShiftShift
    <3>2. 16 + 16 = 32
      OBVIOUS
    <3> QED
      BY <2>1, <3>1, <3>2
  <2>3. \A x : x \in ShiftRight(s0, 32) <=> x \in Nat /\ x + 32 \in s0
    BY ShiftHas
  <2>4. \A x \in Nat : x + 32 \notin s0
    BY DEF W
  <2>5. s4 = {}
    BY <2>2, <2>3, <2>4
  <2>6. ShiftRight({}, 8) = {}
    BY NoBits
  <2> QED
    BY <1>15, <1>16, <1>17, <1>18, <2>5, <2>6
<1>30. r[8] = t8
  BY <1>27, <1>29, XorLaw
<1>31. t1 = E1(o0)
  <2>1. E1(o0) \in W
    BY <1>20, ShiftsLaw DEF E1
  <2> QED
    BY <1>20, <1>28, <2>1, XorLaw
<1>32. E6(t2) = Xor(E7(o1), E7(t1))
  <2>1. PICK a \in W, b \in W : a = EightShifts(o1) /\ b = EightShifts(t1)
    BY <1>21, ShiftsLaw
  <2>2. E6(Xor(a, b)) = Xor(E6(a), E6(b))
    BY PowersXor
  <2>3. t2 = Xor(a, b)
    BY <1>21, <2>1 DEF E1
  <2> QED
    BY <2>1, <2>2, <2>3 DEF E7
<1>33. E5(t3) = Xor(E6(o2), E6(t2))
  <2>1. PICK a \in W, b \in W : a = EightShifts(o2) /\ b = EightShifts(t2)
    BY <1>22, ShiftsLaw
  <2>2. E5(Xor(a, b)) = Xor(E5(a), E5(b))
    BY PowersXor
  <2>3. t3 = Xor(a, b)
    BY <1>22, <2>1 DEF E1
  <2> QED
    BY <2>1, <2>2, <2>3 DEF E6
<1>34. E4(t4) = Xor(E5(o3), E5(t3))
  <2>1. PICK a \in W, b \in W : a = EightShifts(o3) /\ b = EightShifts(t3)
    BY <1>23, ShiftsLaw
  <2>2. E4(Xor(a, b)) = Xor(E4(a), E4(b))
    BY PowersXor
  <2>3. t4 = Xor(a, b)
    BY <1>23, <2>1 DEF E1
  <2> QED
    BY <2>1, <2>2, <2>3 DEF E5
<1>35. E3(t5) = Xor(E4(o4), E4(t4))
  <2>1. PICK a \in W, b \in W : a = EightShifts(o4) /\ b = EightShifts(t4)
    BY <1>24, ShiftsLaw
  <2>2. E3(Xor(a, b)) = Xor(E3(a), E3(b))
    BY PowersXor
  <2>3. t5 = Xor(a, b)
    BY <1>24, <2>1 DEF E1
  <2> QED
    BY <2>1, <2>2, <2>3 DEF E4
<1>36. E2(t6) = Xor(E3(o5), E3(t5))
  <2>1. PICK a \in W, b \in W : a = EightShifts(o5) /\ b = EightShifts(t5)
    BY <1>25, ShiftsLaw
  <2>2. E2(Xor(a, b)) = Xor(E2(a), E2(b))
    BY PowersXor
  <2>3. t6 = Xor(a, b)
    BY <1>25, <2>1 DEF E1
  <2> QED
    BY <2>1, <2>2, <2>3 DEF E3
<1>37. E1(t7) = Xor(E2(o6), E2(t6))
  <2>1. PICK a \in W, b \in W : a = EightShifts(o6) /\ b = EightShifts(t6)
    BY <1>26, ShiftsLaw
  <2>2. E1(Xor(a, b)) = Xor(E1(a), E1(b))
    BY PowersXor
  <2>3. t7 = Xor(a, b)
    BY <1>26, <2>1 DEF E1
  <2> QED
    BY <2>1, <2>2, <2>3 DEF E2
<1>38. r[8] = Xor(E1(o7), Xor(E2(o6), Xor(E3(o5), Xor(E4(o4), Xor(E5(o3), Xor(E6(o2), Xor(E7(o1), E8(o0))))))))
  <2>1. E7(t1) = E8(o0)
    BY <1>31 DEF E1, E8
  <2> QED
    BY <1>27, <1>30, <1>32, <1>33, <1>34, <1>35, <1>36, <1>37, <2>1
<1>39. PICK one \in W : /\ one = Xor(Word(data, at), s0)
                       /\ \A k \in 0..3 : Byte(one, k) = Xor(BitsOf(data[at + k]), Byte(s0, k))
  <2>1. PICK w \in W : w = Word(data, at) /\ \A k \in 0..3 : Byte(w, k) = BitsOf(data[at + k])
    BY WordLaw
  <2>2. \A k \in Nat : Byte(Xor(w, s0), k) = Xor(Byte(w, k), Byte(s0, k))
    BY ByteLaw
  <2>3. Xor(w, s0) \in W
    BY XorLaw
  <2> QED
    BY <2>1, <2>2, <2>3
<1>40. PICK two \in W : /\ two = Word(data, at + 4)
                       /\ \A k \in 0..3 : Byte(two, k) = BitsOf(data[(at + 4) + k])
  <2>1. at + 4 \in Int
    OBVIOUS
  <2> QED
    BY <2>1, WordLaw
<1>41. Byte(one, 0) = o0 /\ Byte(one, 1) = o1 /\ Byte(one, 2) = o2 /\ Byte(one, 3) = o3
  <2>1. Byte(s1, 0) = Byte(s0, 1) /\ Byte(s2, 0) = Byte(s1, 1) /\ Byte(s3, 0) = Byte(s2, 1)
    BY <1>11, <1>12, <1>13
  <2>2. Byte(s2, 1) = Byte(s1, 2) /\ Byte(s1, 2) = Byte(s0, 3) /\ Byte(s1, 1) = Byte(s0, 2)
    BY <1>11, <1>12
  <2>3. /\ Byte(one, 0) = Xor(d0, Byte(s0, 0)) /\ Byte(one, 1) = Xor(d1, Byte(s0, 1))
        /\ Byte(one, 2) = Xor(d2, Byte(s0, 2)) /\ Byte(one, 3) = Xor(d3, Byte(s0, 3))
    BY <1>3, <1>4, <1>5, <1>6, <1>39
  <2>4. /\ o0 = Xor(Byte(s0, 0), d0) /\ o1 = Xor(Byte(s0, 1), d1)
        /\ o2 = Xor(Byte(s0, 2), d2) /\ o3 = Xor(Byte(s0, 3), d3)
    BY <1>20, <1>21, <1>22, <1>23, <2>1, <2>2
  <2>5. \A x, y : Xor(x, y) = Xor(y, x)
    BY DEF Xor
  <2> QED
    BY <2>3, <2>4, <2>5
<1>42. Byte(two, 0) = o4 /\ Byte(two, 1) = o5 /\ Byte(two, 2) = o6 /\ Byte(two, 3) = o7
  <2>1. (at + 4) + 0 = at + 4 /\ (at + 4) + 1 = at + 5 /\ (at + 4) + 2 = at + 6 /\ (at + 4) + 3 = at + 7
    OBVIOUS
  <2>2. Byte(two, 0) = d4 /\ Byte(two, 1) = d5 /\ Byte(two, 2) = d6 /\ Byte(two, 3) = d7
    BY <1>7, <1>8, <1>9, <1>10, <1>40, <2>1
  <2>3. Byte({}, 0) = {}
    BY DEF Byte, ShiftRight
  <2>4. Xor({}, d4) = d4 /\ Xor({}, d5) = d5 /\ Xor({}, d6) = d6 /\ Xor({}, d7) = d7
    BY DEF Xor
  <2>5. o4 = d4 /\ o5 = d5 /\ o6 = d6 /\ o7 = d7
    BY <1>24, <1>25, <1>26, <1>27, <1>29, <2>3, <2>4
  <2> QED
    BY <2>2, <2>5
<1>43. /\ Lookup7[o0] = E8(o0) /\ Lookup6[o1] = E7(o1) /\ Lookup5[o2] = E6(o2) /\ Lookup4[o3] = E5(o3)
       /\ Lookup3[o4] = E4(o4) /\ Lookup2[o5] = E3(o5) /\ Lookup1[o6] = E2(o6) /\ Lookup0[o7] = E1(o7)
  BY LookupsAre
<1>44. EightBytes(r[0], data, at) =
         Xor(Xor(Xor(E8(o0), E7(o1)), Xor(E6(o2), E5(o3))), Xor(Xor(E4(o4), E3(o5)), Xor(E2(o6), E1(o7))))
  BY <1>1, <1>39, <1>40, <1>41, <1>42, <1>43 DEF EightBytes
<1>45. \A a, b, c, d, e, f, g, h :
         Xor(Xor(Xor(a, b), Xor(c, d)), Xor(Xor(e, f), Xor(g, h)))
           = Xor(h, Xor(g, Xor(f, Xor(e, Xor(d, Xor(c, Xor(b, a)))))))
  BY DEF Xor
<1> QED
  BY <1>38, <1>44, <1>45

\* A word stays a word.
LEMMA EightBytesType ==
  ASSUME NEW crc \in W, NEW data, NEW at \in Int
  PROVE  EightBytes(crc, data, at) \in W
<1>1. \A x, y \in W : Xor(x, y) \in W
  BY XorLaw
<1>2. PICK one \in W, two \in W : one = Xor(Word(data, at), crc) /\ two = Word(data, at + 4)
  <2>1. at + 4 \in Int
    OBVIOUS
  <2> QED
    BY <1>1, <2>1, WordLaw
<1>3. \A k \in Nat : Byte(one, k) \in LowWords /\ Byte(two, k) \in LowWords
  BY ByteLaw
<1>4. /\ Lookup7[Byte(one, 0)] \in W /\ Lookup6[Byte(one, 1)] \in W
      /\ Lookup5[Byte(one, 2)] \in W /\ Lookup4[Byte(one, 3)] \in W
      /\ Lookup3[Byte(two, 0)] \in W /\ Lookup2[Byte(two, 1)] \in W
      /\ Lookup1[Byte(two, 2)] \in W /\ Lookup0[Byte(two, 3)] \in W
  BY <1>3, LookupsAre
<1> QED
  BY <1>1, <1>2, <1>4 DEF EightBytes

\* The register of the reference after every byte of m.
Register(m) ==
  LET crc[n \in 0..Len(m)] ==
        IF n = 0 THEN 0..31 ELSE EightShifts(Xor(crc[n - 1], BitsOf(m[n])))
  IN  crc

\* The recursive function of CrcReference takes the bytes of m one by one.
LEMMA RegisterLaw ==
  ASSUME NEW S, NEW m \in Seq(S)
  PROVE  /\ Register(m) \in [0..Len(m) -> W]
         /\ Register(m)[0] = 0..31
         /\ \A n \in 1..Len(m) : Register(m)[n] = EightShifts(Xor(Register(m)[n - 1], BitsOf(m[n])))
         /\ CrcReference(m) = Not(Register(m)[Len(m)])
<1>0. PICK n \in Nat : n = Len(m)
  BY LenProperties
<1>1. PICK a \in W : a = 0..31
  BY DEF W
<1>2. PICK step : step = [i \in 0..n |-> [v \in W |-> EightShifts(Xor(v, BitsOf(m[i])))]]
  OBVIOUS
<1>3. \A v \in W : \A i : EightShifts(Xor(v, BitsOf(m[i]))) \in W
  BY OneByteIs
<1>4. IsSteps(n, W, a, step)
  BY <1>2, <1>3 DEF IsSteps
<1>5. PICK h : Follows(n, W, a, step, h)
  BY <1>4, RecursionExists
<1>6. h \in [0..n -> W] /\ h[0] = a /\ \A i \in 1..n : h[i] = step[i][h[i - 1]]
  BY <1>5 DEF Follows
<1>7. \A i \in 1..n : i \in 0..n /\ i - 1 \in 0..n /\ i # 0
  OBVIOUS
<1>8. \A i \in 0..n : h[i] = IF i = 0 THEN a ELSE EightShifts(Xor(h[i - 1], BitsOf(m[i])))
  <2>1. \A i \in 1..n : h[i - 1] \in W
    BY <1>6, <1>7
  <2>2. \A i \in 1..n : step[i][h[i - 1]] = EightShifts(Xor(h[i - 1], BitsOf(m[i])))
    BY <1>2, <1>7, <2>1
  <2>3. \A i \in 0..n : i # 0 => i \in 1..n
    OBVIOUS
  <2> QED
    BY <1>6, <2>2, <2>3
<1>9. h = [i \in 0..Len(m) |-> IF i = 0 THEN 0..31 ELSE EightShifts(Xor(h[i - 1], BitsOf(m[i])))]
  BY <1>0, <1>1, <1>6, <1>8
<1>10. Register(m) = [i \in 0..Len(m) |->
                        IF i = 0 THEN 0..31 ELSE EightShifts(Xor(Register(m)[i - 1], BitsOf(m[i])))]
  BY <1>9, Zenon DEF Register
<1>11. PICK u : u = Register(m)
  OBVIOUS
<1>12. u = [i \in 0..n |-> IF i = 0 THEN a ELSE EightShifts(Xor(u[i - 1], BitsOf(m[i])))]
  BY <1>0, <1>1, <1>10, <1>11
<1>13. u[0] = a /\ \A i \in 1..n : u[i] = EightShifts(Xor(u[i - 1], BitsOf(m[i])))
  <2>1. 0 \in 0..n
    OBVIOUS
  <2> QED
    BY <1>7, <1>12, <2>1
<1>14. 0..n \subseteq {i \in 0..n : u[i] \in W}
  <2> DEFINE T == {i \in 0..n : u[i] \in W}
  <2>1. 0 \in T
    BY <1>13
  <2>2. ASSUME NEW k \in 0..(n - 1), k \in T
        PROVE  k + 1 \in T
    <3>1. k + 1 \in 1..n /\ k + 1 \in 0..n /\ (k + 1) - 1 = k
      OBVIOUS
    <3>2. u[k + 1] = EightShifts(Xor(u[k], BitsOf(m[k + 1])))
      BY <1>13, <3>1
    <3>3. u[k + 1] \in W
      BY <1>3, <2>2, <3>2
    <3> QED
      BY <3>1, <3>3
  <2> HIDE DEF T
  <2>3. 0..n \subseteq T
    BY <2>1, <2>2, UptoInduction
  <2> QED
    BY <2>3 DEF T
<1>15. u \in [0..n -> W]
  BY <1>12, <1>14
<1>16. CrcReference(m) = Not(Register(m)[Len(m)])
  BY DEF CrcReference, Register
<1> QED
  BY <1>0, <1>1, <1>11, <1>13, <1>15, <1>16

\* The register does not depend on the bytes to come.
LEMMA RegisterPrefix ==
  ASSUME NEW S, NEW m \in Seq(S), NEW data \in Seq(S)
  PROVE  \A k \in 0..Len(m) : Register(m \o data)[k] = Register(m)[k]
<1>1. PICK p \in Nat, n \in Nat : p = Len(m) /\ n = Len(data)
  BY LenProperties
<1>0. PICK mm : mm = m \o data
  OBVIOUS
<1>2. /\ mm \in Seq(S) /\ Len(mm) = p + n
      /\ \A i \in 1..(p + n) : mm[i] = IF i <= p THEN m[i] ELSE data[i - p]
  BY <1>0, <1>1, ConcatProperties
<1>3. PICK u, v : u = Register(m) /\ v = Register(mm)
  OBVIOUS
<1>4. u[0] = 0..31 /\ \A i \in 1..p : u[i] = EightShifts(Xor(u[i - 1], BitsOf(m[i])))
  BY <1>1, <1>3, RegisterLaw
<1>5. v[0] = 0..31 /\ \A i \in 1..(p + n) : v[i] = EightShifts(Xor(v[i - 1], BitsOf(mm[i])))
  BY <1>2, <1>3, RegisterLaw
<1> DEFINE T == {k \in 0..p : v[k] = u[k]}
<1>6. 0 \in T
  <2>1. 0 \in 0..p /\ v[0] = u[0]
    BY <1>4, <1>5
  <2> QED
    BY <2>1
<1>7. ASSUME NEW k \in 0..(p - 1), k \in T
      PROVE  k + 1 \in T
  <2>1. k + 1 \in 1..p /\ k + 1 \in 1..(p + n) /\ (k + 1) - 1 = k /\ k + 1 <= p /\ k + 1 \in 0..p
    OBVIOUS
  <2>2. mm[k + 1] = m[k + 1]
    BY <1>2, <2>1
  <2>3. v[k + 1] = u[k + 1]
    BY <1>4, <1>5, <1>7, <2>1, <2>2
  <2> QED
    BY <2>1, <2>3
<1>8. 0..p \subseteq T
  <2> HIDE DEF T
  <2> QED
    BY <1>6, <1>7, UptoInduction
<1> QED
  BY <1>0, <1>1, <1>3, <1>8

\* The loop of add().
Eights(data) == Len(data) \div 8
CrcSteps(data) == Eights(data) + (Len(data) % 8)
OneStep(eights, data, i, v) ==
  IF i <= eights THEN EightBytes(v, data, 8 * (i - 1) + 1) ELSE OneByte(v, data[7 * eights + i])
Loop(start, data) ==
  LET eights == Len(data) \div 8
      steps == eights + (Len(data) % 8)
      crc[n \in 0..steps] ==
        IF n = 0 THEN start
        ELSE IF n <= eights THEN EightBytes(crc[n - 1], data, 8 * (n - 1) + 1)
        ELSE OneByte(crc[n - 1], data[7 * eights + n])
  IN  crc

\* run is what the loop of add() leaves in crc after each of its steps.
IsLoop(run, start, data, eights, steps) ==
  /\ run[0] = start
  /\ \A i \in 1..steps : run[i] = OneStep(eights, data, i, run[i - 1])

\* The recursive function of CrcAdd is that loop.
LEMMA LoopLaw ==
  ASSUME NEW S, NEW data \in Seq(S), NEW start \in W, NEW eights \in Nat, NEW steps \in Nat,
         eights = Eights(data), steps = CrcSteps(data)
  PROVE  IsLoop(Loop(start, data), start, data, eights, steps)
<1>1. PICK step : step = [i \in 0..steps |-> [v \in W |-> OneStep(eights, data, i, v)]]
  OBVIOUS
<1>2. \A i \in 0..steps : \A v \in W : OneStep(eights, data, i, v) \in W
  <2> TAKE i \in 0..steps
  <2> TAKE v \in W
  <2>1. 8 * (i - 1) + 1 \in Int
    OBVIOUS
  <2>2. EightBytes(v, data, 8 * (i - 1) + 1) \in W
    BY <2>1, EightBytesType
  <2>3. OneByte(v, data[7 * eights + i]) \in W
    BY OneByteIs
  <2> QED
    BY <2>2, <2>3 DEF OneStep
<1>3. IsSteps(steps, W, start, step)
  BY <1>1, <1>2 DEF IsSteps
<1>4. PICK h : Follows(steps, W, start, step, h)
  BY <1>3, RecursionExists
<1>5. h \in [0..steps -> W] /\ h[0] = start /\ \A i \in 1..steps : h[i] = step[i][h[i - 1]]
  BY <1>4 DEF Follows
<1>6. \A i \in 1..steps : i \in 0..steps /\ i - 1 \in 0..steps /\ i # 0
  OBVIOUS
<1>7. \A i \in 0..steps : h[i] = IF i = 0 THEN start ELSE OneStep(eights, data, i, h[i - 1])
  <2>1. \A i \in 1..steps : h[i - 1] \in W
    BY <1>5, <1>6
  <2>2. \A i \in 1..steps : step[i][h[i - 1]] = OneStep(eights, data, i, h[i - 1])
    BY <1>1, <1>6, <2>1
  <2>3. \A i \in 0..steps : i # 0 => i \in 1..steps
    OBVIOUS
  <2> QED
    BY <1>5, <2>2, <2>3
<1>8. h = [i \in 0..steps |-> IF i = 0 THEN start ELSE OneStep(eights, data, i, h[i - 1])]
  BY <1>5, <1>7
<1>9. steps = (Len(data) \div 8) + (Len(data) % 8) /\ eights = Len(data) \div 8
  BY DEF CrcSteps, Eights
<1>10. h = [i \in 0..((Len(data) \div 8) + (Len(data) % 8)) |->
              IF i = 0 THEN start
              ELSE IF i <= (Len(data) \div 8) THEN EightBytes(h[i - 1], data, 8 * (i - 1) + 1)
              ELSE OneByte(h[i - 1], data[7 * (Len(data) \div 8) + i])]
  BY <1>8, <1>9 DEF OneStep
<1>11. Loop(start, data) = [i \in 0..((Len(data) \div 8) + (Len(data) % 8)) |->
              IF i = 0 THEN start
              ELSE IF i <= (Len(data) \div 8) THEN EightBytes(Loop(start, data)[i - 1], data, 8 * (i - 1) + 1)
              ELSE OneByte(Loop(start, data)[i - 1], data[7 * (Len(data) \div 8) + i])]
  BY <1>10, Zenon DEF Loop
<1>12. PICK u : u = Loop(start, data)
  OBVIOUS
<1>13. u = [i \in 0..steps |-> IF i = 0 THEN start ELSE OneStep(eights, data, i, u[i - 1])]
  BY <1>9, <1>11, <1>12 DEF OneStep
<1>14. u[0] = start /\ \A i \in 1..steps : u[i] = OneStep(eights, data, i, u[i - 1])
  <2>1. 0 \in 0..steps
    OBVIOUS
  <2> QED
    BY <1>6, <1>13, <2>1
<1> QED
  BY <1>12, <1>14 DEF IsLoop

\* The complement of the complement.
LEMMA NotNot ==
  ASSUME NEW w \in W
  PROVE  Not(Not(w)) = w /\ Not(w) \in W
BY DEF Not, W

\* Where the loop is in data after n steps.
Position(eights, n) == IF n <= eights THEN 8 * n ELSE 7 * eights + n

\* Adding data to the CRC of m gives that of m and data together.
LEMMA CrcAddIs ==
  ASSUME NEW S, NEW m \in Seq(S), NEW data \in Seq(S)
  PROVE  CrcAdd(CrcReference(m), data) = CrcReference(m \o data)
<1>1. PICK p \in Nat, n \in Nat : p = Len(m) /\ n = Len(data)
  BY LenProperties
<1>2. PICK mm : mm = m \o data
  OBVIOUS
<1>3. /\ mm \in Seq(S) /\ Len(mm) = p + n
      /\ \A i \in 1..(p + n) : mm[i] = IF i <= p THEN m[i] ELSE data[i - p]
  BY <1>1, <1>2, ConcatProperties
<1>4. PICK R : R = Register(mm)
  OBVIOUS
<1>5. /\ R \in [0..(p + n) -> W]
      /\ \A i \in 1..(p + n) : R[i] = EightShifts(Xor(R[i - 1], BitsOf(mm[i])))
      /\ CrcReference(mm) = Not(R[p + n])
  BY <1>3, <1>4, RegisterLaw
<1>6. \A i \in 0..(n - 1) : R[p + i + 1] = EightShifts(Xor(R[p + i], BitsOf(data[i + 1])))
  <2> TAKE i \in 0..(n - 1)
  <2>1. PICK j \in 1..(p + n) : j = p + i + 1 /\ j - 1 = p + i /\ ~(j <= p) /\ j - p = i + 1
    OBVIOUS
  <2>2. mm[j] = data[i + 1]
    BY <1>3, <2>1
  <2>3. R[j] = EightShifts(Xor(R[j - 1], BitsOf(mm[j])))
    BY <1>5
  <2> QED
    BY <2>1, <2>2, <2>3
<1>7. CrcReference(m) = Not(R[p]) /\ R[p] \in W
  <2>1. CrcReference(m) = Not(Register(m)[p])
    BY <1>1, RegisterLaw
  <2>2. p \in 0..Len(m) /\ p \in 0..(p + n)
    BY <1>1
  <2>3. Register(m \o data)[p] = Register(m)[p]
    BY <2>2, RegisterPrefix
  <2> QED
    BY <1>2, <1>4, <1>5, <2>1, <2>2, <2>3
<1>8. PICK eights \in Nat, rest \in Nat : /\ eights = Eights(data) /\ n = 8 * eights + rest
                                          /\ eights + rest = CrcSteps(data) /\ rest <= 7
  <2>1. PICK e \in Nat, r \in Nat : e = n \div 8 /\ r = n % 8
    OBVIOUS
  <2>2. n = 8 * e + r /\ r <= 7
    BY <2>1
  <2>3. e = Eights(data) /\ e + r = CrcSteps(data)
    BY <1>1, <2>1 DEF Eights, CrcSteps
  <2> QED
    BY <2>2, <2>3
<1>9. PICK steps \in Nat : steps = eights + rest /\ steps = CrcSteps(data)
  BY <1>8
<1>18. n = 8 * eights + rest /\ steps = eights + rest
  BY <1>8, <1>9
<1>19. eights = Eights(data)
  BY <1>8
<1>10. PICK c : c = Loop(R[p], data)
  OBVIOUS
<1>11. c[0] = R[p] /\ \A i \in 1..steps : c[i] = OneStep(eights, data, i, c[i - 1])
  <2>1. PICK start \in W : start = R[p]
    BY <1>7
  <2>2. steps = CrcSteps(data)
    BY <1>9
  <2>3. IsLoop(Loop(start, data), start, data, eights, steps)
    BY <1>19, <2>2, LoopLaw
  <2> QED
    BY <1>10, <2>1, <2>3 DEF IsLoop
<1> DEFINE T == {k \in 0..steps : c[k] = R[p + Position(eights, k)]}
<1>12. 0 \in T
  <2>1. Position(eights, 0) = 0 /\ p + 0 = p /\ 0 \in 0..steps
    BY DEF Position
  <2> QED
    BY <1>11, <2>1
<1>13. ASSUME NEW k \in 0..(steps - 1), k \in T
       PROVE  k + 1 \in T
  <2>1. k + 1 \in 1..steps /\ k + 1 \in 0..steps /\ (k + 1) - 1 = k /\ k \in Nat
    OBVIOUS
  <2>2. c[k + 1] = OneStep(eights, data, k + 1, c[k])
    BY <1>11, <2>1
  <2>3. c[k] = R[p + Position(eights, k)]
    BY <1>13
  <2>4. CASE k + 1 <= eights
    <3>1. PICK e \in Nat : e = 8 * k /\ e + 8 <= n /\ Position(eights, k) = e /\ Position(eights, k + 1) = e + 8
      <4>1. k <= eights /\ 8 * (k + 1) <= 8 * eights /\ 8 * (k + 1) = 8 * k + 8 /\ 8 * k \in Nat
        BY <2>1, <2>4
      <4>2. 8 * k + 8 <= n
        BY <1>18, <4>1
      <4>3. Position(eights, k) = 8 * k
        BY <4>1 DEF Position
      <4>4. Position(eights, k + 1) = 8 * (k + 1)
        BY <2>4 DEF Position
      <4> QED
        BY <4>1, <4>2, <4>3, <4>4
    <3>2. PICK r : r = [j \in 0..8 |-> R[p + e + j]]
      OBVIOUS
    <3>3. r[0] = R[p + e] /\ r[8] = R[p + e + 8] /\ \A j \in 0..7 : r[j] = R[p + e + j] /\ r[j + 1] = R[p + e + j + 1]
      <4>1. p + e + 0 = p + e /\ \A j \in 0..7 : j + 1 \in 0..8 /\ p + e + (j + 1) = p + e + j + 1 /\ j \in 0..8
        OBVIOUS
      <4> QED
        BY <3>2, <4>1
    <3>4. r[0] \in W
      <4>1. p + e \in 0..(p + n)
        BY <3>1
      <4> QED
        BY <1>5, <3>3, <4>1
    <3>5. \A j \in 0..7 : r[j + 1] = EightShifts(Xor(r[j], BitsOf(data[(e + 1) + j])))
      <4> TAKE j \in 0..7
      <4>1. PICK i \in 0..(n - 1) : i = e + j
        BY <3>1
      <4>2. p + i + 1 = p + e + j + 1 /\ p + i = p + e + j /\ i + 1 = (e + 1) + j
        BY <4>1
      <4>3. R[p + i + 1] = EightShifts(Xor(R[p + i], BitsOf(data[i + 1])))
        BY <1>6
      <4> QED
        BY <3>3, <4>2, <4>3
    <3>6. e + 1 \in Int
      OBVIOUS
    <3>7. EightBytes(r[0], data, e + 1) = r[8]
      BY <3>4, <3>5, <3>6, EightBytesIs
    <3>8. c[k + 1] = EightBytes(c[k], data, e + 1)
      BY <2>1, <2>2, <2>4, <3>1 DEF OneStep
    <3>9. p + (e + 8) = p + e + 8
      OBVIOUS
    <3>10. c[k + 1] = R[p + Position(eights, k + 1)]
      <4>1. c[k] = r[0]
        BY <2>3, <3>1, <3>3
      <4>2. c[k + 1] = R[p + e + 8]
        BY <3>3, <3>7, <3>8, <4>1
      <4> QED
        BY <3>1, <3>9, <4>2
    <3> QED
      BY <2>1, <3>10
  <2>5. CASE ~(k + 1 <= eights)
    <3>1. PICK i \in 0..(n - 1) : /\ i = 7 * eights + k /\ Position(eights, k) = i
                                  /\ Position(eights, k + 1) = i + 1 /\ 7 * eights + (k + 1) = i + 1
      <4>1. 7 * eights + k \in 0..(n - 1)
        BY <1>18, <2>1
      <4>2. Position(eights, k) = 7 * eights + k
        BY <2>5 DEF Position
      <4>3. Position(eights, k + 1) = 7 * eights + k + 1
        BY <2>5 DEF Position
      <4> QED
        BY <4>1, <4>2, <4>3
    <3>2. R[p + i + 1] = EightShifts(Xor(R[p + i], BitsOf(data[i + 1])))
      BY <1>6
    <3>3. R[p + i] \in W
      <4>1. p + i \in 0..(p + n)
        OBVIOUS
      <4> QED
        BY <1>5, <4>1
    <3>4. OneByte(R[p + i], data[i + 1]) = EightShifts(Xor(R[p + i], BitsOf(data[i + 1])))
      BY <3>3, OneByteIs
    <3>5. c[k + 1] = OneByte(c[k], data[i + 1])
      BY <2>2, <2>5, <3>1 DEF OneStep
    <3>6. p + (i + 1) = p + i + 1
      OBVIOUS
    <3>7. c[k + 1] = R[p + Position(eights, k + 1)]
      BY <2>3, <3>1, <3>2, <3>4, <3>5, <3>6
    <3> QED
      BY <2>1, <3>7
  <2> QED
    BY <2>4, <2>5
<1>14. 0..steps \subseteq T
  <2> HIDE DEF T
  <2> QED
    BY <1>12, <1>13, UptoInduction
<1>15. c[steps] = R[p + n]
  <2>1. Position(eights, steps) = n
    <3>1. CASE rest = 0
      <4>1. steps = eights /\ n = 8 * eights
        BY <1>18, <3>1
      <4> QED
        BY <4>1 DEF Position
    <3>2. CASE rest # 0
      <4>1. ~(steps <= eights) /\ n = 7 * eights + steps
        BY <1>18, <3>2
      <4> QED
        BY <4>1 DEF Position
    <3> QED
      BY <3>1, <3>2
  <2>2. steps \in T
    BY <1>14
  <2> QED
    BY <2>1, <2>2
<1>16. CrcAdd(CrcReference(m), data) = Not(Loop(Not(CrcReference(m)), data)[CrcSteps(data)])
  BY DEF CrcAdd, Loop, CrcSteps, Eights
<1>17. Not(CrcReference(m)) = R[p]
  BY <1>7, NotNot
<1> QED
  BY <1>2, <1>5, <1>8, <1>9, <1>10, <1>15, <1>16, <1>17
-----------------------------------------------------------------------------
(***************************************************************************)
(* Objects of either kind.                                                 *)
(***************************************************************************)
\* The CRC is a word, and that of no bytes is what reset() leaves.
LEMMA CrcStart ==
  /\ CrcReset = CrcReference(<<>>)
  /\ \A m \in Seq(Octet) : CrcReference(m) \in W
<1>1. <<>> \in Seq(Octet) /\ Len(<<>>) = 0
  OBVIOUS
<1>2. Register(<<>>)[0] = 0..31 /\ CrcReference(<<>>) = Not(Register(<<>>)[Len(<<>>)])
  BY <1>1, RegisterLaw
<1>3. Not(0..31) = {}
  BY DEF Not
<1>4. CrcReset = CrcReference(<<>>)
  BY <1>1, <1>2, <1>3 DEF CrcReset
<1>5. ASSUME NEW m \in Seq(Octet)
      PROVE  CrcReference(m) \in W
  <2>1. CrcReference(m) = Not(Register(m)[Len(m)])
    BY RegisterLaw
  <2> QED
    BY <2>1 DEF Not, W
<1> QED
  BY <1>4, <1>5

\* The object o of class c is the one that has been given the bytes m.
Took(c, o, m) == IF c = CRC32 THEN o = CrcReference(m) ELSE Absorbs(c, o, m)

\* The classes that have a block size.
LEMMA BlocksOfClass ==
  ASSUME NEW c \in Classes, c # CRC32
  PROVE  \E b \in Nat \ {0} : HasBlocks(c, b)
<1>1. IsBlockClass(c)
  BY BlockClasses
<1> QED
  BY <1>1 DEF IsBlockClass, HasBlocks

\* What a constructor and reset() leave has been given nothing.
LEMMA NothingTaken ==
  ASSUME NEW c \in Classes
  PROVE  /\ Took(c, Constructed(c), <<>>)
         /\ \A o, m : Took(c, o, m) => Took(c, ResetOf(c, o), <<>>)
<1>1. CASE c = CRC32
  BY <1>1, CrcStart DEF Took, Constructed, ResetOf
<1>2. CASE c # CRC32
  <2>1. PICK b \in Nat \ {0} : HasBlocks(c, b)
    BY <1>2, BlocksOfClass
  <2>2. Absorbs(c, New(c), <<>>)
    BY <2>1, NewAbsorbs
  <2>3. \A o, m : Absorbs(c, o, m) => Absorbs(c, Reset(c, o), <<>>)
    BY <2>1, ResetAbsorbs
  <2> QED
    BY <1>2, <2>2, <2>3 DEF Took, Constructed, ResetOf
<1> QED
  BY <1>1, <1>2

\* add() gives the object more bytes, whatever it was given before.
LEMMA AddTaken ==
  ASSUME NEW c \in Classes, NEW o, NEW m \in Seq(Octet), Took(c, o, m), NEW data \in Seq(Octet)
  PROVE  Took(c, Added(c, o, data), m \o data)
<1>1. CASE c = CRC32
  <2>1. CrcAdd(CrcReference(m), data) = CrcReference(m \o data)
    BY CrcAddIs
  <2> QED
    BY <1>1, <2>1 DEF Took, Added
<1>2. CASE c # CRC32
  <2>1. PICK b \in Nat \ {0} : HasBlocks(c, b)
    BY <1>2, BlocksOfClass
  <2>2. Absorbs(c, o, m)
    BY <1>2 DEF Took
  <2>3. Absorbs(c, Add(c, o, data), m \o data)
    BY <2>1, <2>2, AddAbsorbs
  <2> QED
    BY <1>2, <2>3 DEF Took, Added
<1> QED
  BY <1>1, <1>2

\* getHash() gives the digest of the bytes the object was given, and leaves them.
LEMMA HashTaken ==
  ASSUME NEW c \in Classes, NEW o, NEW m \in Seq(Octet), Took(c, o, m)
  PROVE  HashOf(c, o) = Reference(c, m) /\ Took(c, AfterHash(c, o), m)
<1>1. CASE c = CRC32
  BY <1>1 DEF Took, HashOf, AfterHash, Reference
<1>2. CASE c # CRC32
  <2>1. IsBlockClass(c)
    BY <1>2, BlockClasses
  <2>2. Absorbs(c, o, m)
    BY <1>2 DEF Took
  <2>3. Digest(c, o) = Padded(c, m) /\ Absorbs(c, AfterGetHash(c, o), m)
    BY <2>1, <2>2, DigestIs
  <2> QED
    BY <1>2, <2>3 DEF Took, HashOf, AfterHash, Reference
<1> QED
  BY <1>1, <1>2

\* What is hashed consists of bytes.
LEMMA TextType ==
  ASSUME class \in Classes, NEW text \in Texts[class]
  PROVE  text \in Seq(Octet)
BY TextsAssumption DEF Octet

\* The rest of a text.
LEMMA RestType ==
  ASSUME NEW text \in Seq(Octet), NEW n \in Nat, n <= Len(text)
  PROVE  SubSeq(text, n + 1, Len(text)) \in Seq(Octet)
<1>1. Len(text) \in Nat
  BY LenProperties
<1>2. n + 1 \in 1..(Len(text) + 1) /\ Len(text) \in (n + 1 - 1)..Len(text)
  BY <1>1
<1> QED
  BY <1>2, SubSeqProperties
-----------------------------------------------------------------------------
(***************************************************************************)
(* The loop of digest.                                                     *)
(***************************************************************************)
\* Where the first k pieces of a file of n bytes end.
Cut(size, n, k) == IF Start(size, k + 1) < n THEN Start(size, k + 1) ELSE n

\* The number of pieces.
PieceCount(size, n) == n \div size + 1

\* They follow each other up to the end of the file, and only the last may be shorter.
Cuts(size, n, count) ==
  /\ Cut(size, n, 0) = 0 /\ Cut(size, n, count) = n
  /\ \A k \in 0..(count - 1) : /\ Cut(size, n, k) = Start(size, k + 1) /\ Cut(size, n, k) \in Nat
                               /\ Cut(size, n, k + 1) \in Nat
                               /\ Cut(size, n, k) <= Cut(size, n, k + 1) /\ Cut(size, n, k + 1) <= n

\* Where the pieces of a file of n bytes end.
LEMMA CutLaw ==
  ASSUME NEW size \in Nat \ {0}, NEW n \in Nat, NEW count \in Nat, count = PieceCount(size, n)
  PROVE  Cuts(size, n, count)
<1>1. PICK q \in Nat, r \in Nat : q = n \div size /\ r = n % size
  OBVIOUS
<1>2. n = q * size + r /\ r < size
  BY <1>1, DivLaw
<1>3. PICK e \in Nat : e = q * size
  OBVIOUS
<1>4. Start(size, q + 1) = e
  <2>1. (q + 1) - 1 = q
    OBVIOUS
  <2> QED
    BY <1>3, <2>1 DEF Start
<1>5. e <= n /\ n < e + size
  BY <1>2, <1>3
<1>6. /\ \A k \in Nat \ {0} : Start(size, k) \in Nat /\ Start(size, k + 1) = Start(size, k) + size
      /\ Start(size, 1) = 0
      /\ \A k \in 1..q : Start(size, k) + size <= Start(size, q + 1)
  BY StartLaw
<1>7. count = q + 1
  BY <1>1 DEF PieceCount
<1>8. Cut(size, n, 0) = 0
  <2>1. 0 + 1 = 1
    OBVIOUS
  <2> QED
    BY <1>6, <2>1 DEF Cut
<1>9. Cut(size, n, count) = n
  <2>1. Start(size, (q + 1) + 1) = e + size
    BY <1>4, <1>6
  <2> QED
    BY <1>5, <1>7, <2>1 DEF Cut
<1>10. ASSUME NEW k \in 0..(count - 1)
       PROVE  /\ Cut(size, n, k) = Start(size, k + 1) /\ Cut(size, n, k) \in Nat
              /\ Cut(size, n, k + 1) \in Nat
              /\ Cut(size, n, k) <= Cut(size, n, k + 1) /\ Cut(size, n, k + 1) <= n
  <2>1. PICK j \in Nat \ {0} : j = k + 1
    OBVIOUS
  <2>2. PICK s \in Nat, t \in Nat : s = Start(size, j) /\ t = Start(size, j + 1) /\ t = s + size
    BY <1>6
  <2>3. s <= n
    <3>1. CASE j = q + 1
      BY <1>4, <1>5, <2>2, <3>1
    <3>2. CASE j # q + 1
      <4>1. j \in 1..q
        BY <1>7, <2>1, <3>2
      <4>2. s + size <= e
        BY <1>4, <1>6, <2>2, <4>1
      <4> QED
        BY <1>5, <4>2
    <3> QED
      BY <3>1, <3>2
  <2>4. Cut(size, n, k) = s
    BY <2>1, <2>2, <2>3 DEF Cut
  <2>5. Cut(size, n, k + 1) = IF t < n THEN t ELSE n
    BY <2>1, <2>2 DEF Cut
  <2>6. PICK u \in Nat : u = Cut(size, n, k + 1) /\ s <= u /\ u <= n
    BY <2>2, <2>3, <2>5
  <2> QED
    BY <2>1, <2>2, <2>4, <2>6
<1> QED
  BY <1>8, <1>9, <1>10 DEF Cuts

\* The pieces together are the file.
PiecesOf(file, pieces, count) ==
  /\ pieces \in Seq(Seq(Octet)) /\ Len(pieces) = count
  /\ SubSeq(file, 1, Cut(ReadSize, Len(file), 0)) = <<>>
  /\ SubSeq(file, 1, Cut(ReadSize, Len(file), count)) = file
  /\ \A k \in 0..(count - 1) :
       /\ pieces[k + 1] \in Seq(Octet)
       /\ SubSeq(file, 1, Cut(ReadSize, Len(file), k)) \in Seq(Octet)
       /\ SubSeq(file, 1, Cut(ReadSize, Len(file), k)) \o pieces[k + 1]
            = SubSeq(file, 1, Cut(ReadSize, Len(file), k + 1))

\* digest reads all of a file, whatever its size.
LEMMA ReadsLaw ==
  ASSUME NEW file \in Seq(Octet)
  PROVE  \E count \in Nat : PiecesOf(file, Reads(file), count)
<1>1. PICK size \in Nat \ {0}, n \in Nat : size = ReadSize /\ n = Len(file)
  BY ReadSizeAssumption, LenProperties
<1>2. PICK count \in Nat : count = PieceCount(size, n)
  BY DEF PieceCount
<1>3. Cuts(size, n, count)
  BY <1>2, CutLaw
<1>4. /\ Cut(size, n, 0) = 0 /\ Cut(size, n, count) = n
      /\ \A k \in 0..(count - 1) : /\ Cut(size, n, k) = Start(size, k + 1) /\ Cut(size, n, k) \in Nat
                                   /\ Cut(size, n, k + 1) \in Nat
                                   /\ Cut(size, n, k) <= Cut(size, n, k + 1) /\ Cut(size, n, k + 1) <= n
  BY <1>3 DEF Cuts
<1>5. PICK pieces : pieces = Reads(file)
  OBVIOUS
<1>6. pieces = [k \in 1..count |-> SubSeq(file, (k - 1) * size + 1, IF k * size < n THEN k * size ELSE n)]
  BY <1>1, <1>2, <1>5 DEF Reads, PieceCount
<1>7. ASSUME NEW k \in 0..(count - 1)
      PROVE  /\ pieces[k + 1] \in Seq(Octet)
             /\ SubSeq(file, 1, Cut(size, n, k)) \in Seq(Octet)
             /\ SubSeq(file, 1, Cut(size, n, k)) \o pieces[k + 1] = SubSeq(file, 1, Cut(size, n, k + 1))
  <2>1. PICK i \in Nat, j \in Nat : i = Cut(size, n, k) /\ j = Cut(size, n, k + 1) /\ i <= j /\ j <= n
    BY <1>4
  <2>2. i = Start(size, k + 1)
    BY <1>4, <2>1
  <2>3. k + 1 \in 1..count /\ (k + 1) - 1 = k /\ ((k + 1) + 1) - 1 = k + 1
    OBVIOUS
  <2>4. Start(size, k + 1) = ((k + 1) - 1) * size /\ Start(size, (k + 1) + 1) = (k + 1) * size
    BY <2>3 DEF Start
  <2>5. i = ((k + 1) - 1) * size /\ j = IF (k + 1) * size < n THEN (k + 1) * size ELSE n
    BY <2>1, <2>2, <2>4 DEF Cut
  <2>6. pieces[k + 1] = SubSeq(file, i + 1, j)
    BY <1>6, <2>3, <2>5
  <2>11. PICK zero \in Nat : zero = 0
    OBVIOUS
  <2>7. zero <= i /\ j <= Len(file) /\ i <= Len(file)
    BY <1>1, <2>1, <2>11
  <2>8. SubSeq(file, i + 1, j) \in Seq(Octet) /\ SubSeq(file, zero + 1, i) \in Seq(Octet)
    BY <2>1, <2>7, Part
  <2>9. SubSeq(file, zero + 1, i) \o SubSeq(file, i + 1, j) = SubSeq(file, zero + 1, j)
    <3>1. zero <= i /\ i <= j /\ j <= Len(file)
      BY <2>1, <2>7
    <3> QED
      BY <3>1, PartsJoin
  <2>10. zero + 1 = 1
    BY <2>11
  <2> QED
    BY <2>1, <2>6, <2>8, <2>9, <2>10
<1>8. pieces \in Seq(Seq(Octet)) /\ Len(pieces) = count
  <2>1. \A k \in 1..count : k - 1 \in 0..(count - 1) /\ (k - 1) + 1 = k
    OBVIOUS
  <2>2. \A k \in 1..count : pieces[k] \in Seq(Octet)
    BY <1>7, <2>1
  <2>3. pieces \in [1..count -> Seq(Octet)]
    BY <1>6, <2>2
  <2> QED
    BY <2>3, LenProperties
<1>9. SubSeq(file, 1, 0) = <<>> /\ SubSeq(file, 1, n) = file
  <2>1. SubSeq(file, 1, n) = file
    BY <1>1, LenProperties
  <2> QED
    BY <2>1
<1> QED
  BY <1>1, <1>4, <1>5, <1>7, <1>8, <1>9 DEF PiecesOf

\* What an object can be.
Objects(c) ==
  IF c = CRC32 THEN W
  ELSE [hash : Seq(Octets(c.blockSize)), numBytes : Nat, bufferSize : 0..(c.blockSize - 1),
        buffer : Buffers(c.blockSize)]

\* An object that has been given bytes is one.
LEMMA TookType ==
  ASSUME NEW c \in Classes, NEW o, NEW m \in Seq(Octet), Took(c, o, m)
  PROVE  o \in Objects(c)
<1>1. CASE c = CRC32
  BY <1>1, CrcStart DEF Took, Objects
<1>2. CASE c # CRC32
  <2>1. PICK b \in Nat \ {0} : HasBlocks(c, b)
    BY <1>2, BlocksOfClass
  <2>2. PICK hash, size, buffer : /\ o = Object(hash, Start(b, Len(hash) + 1), size, buffer)
                                  /\ Content(b, hash, size, buffer, m)
    BY <1>2, <2>1 DEF Took, Absorbs, HasBlocks
  <2>3. PICK q \in Nat : q = Start(b, Len(hash) + 1)
    BY <2>2, EmptySeq, BlocksStay
  <2>4. hash \in Seq(Octets(b)) /\ size \in 0..(b - 1) /\ buffer \in Buffers(b)
    BY <2>2 DEF Content
  <2>5. o = [hash |-> hash, numBytes |-> q, bufferSize |-> size, buffer |-> buffer]
    BY <2>2, <2>3 DEF Object
  <2>6. o \in [hash : Seq(Octets(b)), numBytes : Nat, bufferSize : 0..(b - 1), buffer : Buffers(b)]
    BY <2>4, <2>5
  <2> QED
    BY <1>2, <2>1, <2>6 DEF Objects, HasBlocks
<1> QED
  BY <1>1, <1>2

\* The objects after each of the calls of add(), when pieces are added to o.
Adding(c, o, pieces) ==
  LET after[k \in 0..Len(pieces)] ==
        IF k = 0 THEN o ELSE Added(c, after[k - 1], pieces[k])
  IN  after

IsAdding(after, c, o, pieces, count) ==
  /\ after[0] = o
  /\ \A k \in 1..count : after[k] = Added(c, after[k - 1], pieces[k])

\* The recursive function of AddAll is that.
LEMMA AddingLaw ==
  ASSUME NEW c \in Classes, NEW o, Took(c, o, <<>>), NEW pieces \in Seq(Seq(Octet)), NEW count \in Nat,
         Len(pieces) = count
  PROVE  IsAdding(Adding(c, o, pieces), c, o, pieces, count)
<1> DEFINE S == {x \in Objects(c) : \E m \in Seq(Octet) : Took(c, x, m)}
<1>1. o \in S
  <2>1. <<>> \in Seq(Octet)
    OBVIOUS
  <2>2. o \in Objects(c)
    BY <2>1, TookType
  <2> QED
    BY <2>1, <2>2
<1>2. ASSUME NEW x \in S, NEW data \in Seq(Octet)
      PROVE  Added(c, x, data) \in S
  <2>1. PICK m \in Seq(Octet) : Took(c, x, m)
    OBVIOUS
  <2>2. Took(c, Added(c, x, data), m \o data) /\ m \o data \in Seq(Octet)
    BY <2>1, AddTaken, Longer
  <2>3. Added(c, x, data) \in Objects(c)
    BY <2>2, TookType
  <2> QED
    BY <2>2, <2>3
<1> HIDE DEF S
<1>3. \A i \in 1..count : pieces[i] \in Seq(Octet)
  BY ElementOfSeq
<1>4. \A i \in 0..count : i # 0 => i \in 1..count
  OBVIOUS
<1>5. PICK step : step = [i \in 0..count |-> [x \in S |-> IF i = 0 THEN x ELSE Added(c, x, pieces[i])]]
  OBVIOUS
<1>6. \A i \in 0..count : \A x \in S : (IF i = 0 THEN x ELSE Added(c, x, pieces[i])) \in S
  BY <1>2, <1>3, <1>4
<1>7. IsSteps(count, S, o, step)
  BY <1>1, <1>5, <1>6 DEF IsSteps
<1>8. PICK h : Follows(count, S, o, step, h)
  BY <1>7, RecursionExists
<1>9. h \in [0..count -> S] /\ h[0] = o /\ \A i \in 1..count : h[i] = step[i][h[i - 1]]
  BY <1>8 DEF Follows
<1>10. \A i \in 1..count : i \in 0..count /\ i - 1 \in 0..count /\ i # 0
  OBVIOUS
<1>11. \A i \in 0..count : h[i] = IF i = 0 THEN o ELSE Added(c, h[i - 1], pieces[i])
  <2>1. \A i \in 1..count : h[i - 1] \in S
    BY <1>9, <1>10
  <2>2. \A i \in 1..count : step[i][h[i - 1]] = Added(c, h[i - 1], pieces[i])
    BY <1>5, <1>10, <2>1
  <2> QED
    BY <1>4, <1>9, <2>2
<1>12. h = [i \in 0..count |-> IF i = 0 THEN o ELSE Added(c, h[i - 1], pieces[i])]
  BY <1>9, <1>11
<1>13. h = [i \in 0..Len(pieces) |-> IF i = 0 THEN o ELSE Added(c, h[i - 1], pieces[i])]
  BY <1>12
<1>14. Adding(c, o, pieces)
         = [i \in 0..Len(pieces) |-> IF i = 0 THEN o ELSE Added(c, Adding(c, o, pieces)[i - 1], pieces[i])]
  BY <1>13, Zenon DEF Adding
<1>15. PICK u : u = Adding(c, o, pieces)
  OBVIOUS
<1>16. u = [i \in 0..count |-> IF i = 0 THEN o ELSE Added(c, u[i - 1], pieces[i])]
  BY <1>14, <1>15
<1>17. u[0] = o /\ \A i \in 1..count : u[i] = Added(c, u[i - 1], pieces[i])
  <2>1. 0 \in 0..count
    OBVIOUS
  <2> QED
    BY <1>10, <1>16, <2>1
<1> QED
  BY <1>15, <1>17 DEF IsAdding

\* digest gives its object the bytes of the file.
LEMMA FileTaken ==
  ASSUME NEW c \in Classes, NEW o, Took(c, o, <<>>), NEW file \in Seq(Octet)
  PROVE  Took(c, AddAll(c, o, Reads(file)), file)
<1>12. PICK pieces : pieces = Reads(file)
  OBVIOUS
<1>1. PICK count \in Nat : PiecesOf(file, pieces, count)
  BY <1>12, ReadsLaw
<1>2. PICK head : head = [k \in 0..count |-> SubSeq(file, 1, Cut(ReadSize, Len(file), k))]
  OBVIOUS
<1>3. /\ pieces \in Seq(Seq(Octet)) /\ Len(pieces) = count /\ head[0] = <<>> /\ head[count] = file
  BY <1>1, <1>2 DEF PiecesOf
<1>4. \A k \in 0..(count - 1) : /\ pieces[k + 1] \in Seq(Octet) /\ head[k] \in Seq(Octet)
                                /\ head[k] \o pieces[k + 1] = head[k + 1]
  <2> TAKE k \in 0..(count - 1)
  <2>1. k \in 0..count /\ k + 1 \in 0..count
    OBVIOUS
  <2> QED
    BY <1>1, <1>2, <2>1 DEF PiecesOf
<1>5. PICK after : after = Adding(c, o, pieces)
  OBVIOUS
<1>6. IsAdding(after, c, o, pieces, count)
  BY <1>3, <1>5, AddingLaw
<1> DEFINE T == {k \in 0..count : Took(c, after[k], head[k])}
<1>7. 0 \in T
  BY <1>3, <1>6 DEF IsAdding
<1>8. ASSUME NEW k \in 0..(count - 1), k \in T
      PROVE  k + 1 \in T
  <2>1. k + 1 \in 1..count /\ k + 1 \in 0..count /\ (k + 1) - 1 = k
    OBVIOUS
  <2>2. after[k + 1] = Added(c, after[k], pieces[k + 1])
    BY <1>6, <2>1 DEF IsAdding
  <2>3. Took(c, after[k], head[k])
    BY <1>8
  <2>4. PICK m \in Seq(Octet), data \in Seq(Octet) : m = head[k] /\ data = pieces[k + 1] /\ m \o data = head[k + 1]
    BY <1>4
  <2>5. Took(c, Added(c, after[k], data), m \o data)
    BY <2>3, <2>4, AddTaken
  <2> QED
    BY <2>1, <2>2, <2>4, <2>5
<1>9. 0..count \subseteq T
  <2> HIDE DEF T
  <2> QED
    BY <1>7, <1>8, UptoInduction
<1>10. Took(c, after[count], file)
  <2>1. count \in T
    BY <1>9
  <2> QED
    BY <1>3, <2>1
<1>11. AddAll(c, o, pieces) = Adding(c, o, pieces)[Len(pieces)]
  BY DEF AddAll, Adding
<1> QED
  BY <1>3, <1>5, <1>10, <1>11, <1>12
-----------------------------------------------------------------------------
(***************************************************************************)
(* The invariant.                                                          *)
(***************************************************************************)
\* The object has been given the bytes of msg, and every digest is right.
HashInv == class \in Classes /\ msg \in Seq(Octet) /\ Took(class, obj, msg) /\ DigestsRight

\* A result is not None.
LEMMA ResultIs ==
  ASSUME NEW m, NEW digest
  PROVE  <<m, digest>> # None /\ <<m, digest>>[1] = m /\ <<m, digest>>[2] = digest
BY DEF None

\* Every call of a method keeps the invariant.
LEMMA MethodsKeep ==
  ASSUME HashInv, Methods, class' = class
  PROVE  HashInv'
<1>1. class \in Classes /\ msg \in Seq(Octet) /\ Took(class, obj, msg)
  BY DEF HashInv
<1>3. <<>> \in Seq(Octet)
  OBVIOUS
<1>4. ASSUME NEW text \in Texts[class], AddPiece(text)
      PROVE  HashInv'
  <2>1. text \in Seq(Octet) /\ Len(msg) \in Nat /\ Len(msg) <= Len(text)
    BY <1>1, <1>4, TextType, LenProperties DEF AddPiece
  <2>2. PICK data \in Seq(Octet) : data = SubSeq(text, Len(msg) + 1, Len(text))
    BY <2>1, RestType
  <2>3. obj' = Added(class, obj, data) /\ msg' = msg \o data /\ result' = None
    BY <1>4, <2>2 DEF AddPiece
  <2>4. Took(class, Added(class, obj, data), msg \o data) /\ msg \o data \in Seq(Octet)
    BY <1>1, AddTaken, Longer
  <2> QED
    BY <1>1, <2>3, <2>4 DEF HashInv, DigestsRight
<1>5. ASSUME NEW data \in Texts[class], CallOperator(data)
      PROVE  HashInv'
  <2>2. data \in Seq(Octet)
    BY <1>1, TextType
  <2>3. PICK o, added : o = ResetOf(class, obj) /\ added = Added(class, o, data)
    OBVIOUS
  <2>4. msg' = data /\ result' = <<data, HashOf(class, added)>> /\ obj' = AfterHash(class, added)
    BY <1>5, <2>3 DEF CallOperator
  <2>5. Took(class, o, <<>>)
    BY <1>1, <2>3, NothingTaken
  <2>6. Took(class, added, <<>> \o data)
    BY <1>1, <1>3, <2>2, <2>3, <2>5, AddTaken
  <2>7. <<>> \o data = data
    BY <2>2
  <2>8. HashOf(class, added) = Reference(class, data) /\ Took(class, AfterHash(class, added), data)
    BY <1>1, <2>2, <2>6, <2>7, HashTaken
  <2> QED
    BY <1>1, <2>2, <2>4, <2>8, ResultIs DEF HashInv, DigestsRight
<1>6. ASSUME GetHash
      PROVE  HashInv'
  <2>1. HashOf(class, obj) = Reference(class, msg) /\ Took(class, AfterHash(class, obj), msg)
    BY <1>1, HashTaken
  <2> QED
    BY <1>1, <1>6, <2>1, ResultIs DEF GetHash, HashInv, DigestsRight
<1>7. ASSUME ResetObject
      PROVE  HashInv'
  <2>1. Took(class, ResetOf(class, obj), <<>>)
    BY <1>1, NothingTaken
  <2> QED
    BY <1>1, <1>3, <1>7, <2>1 DEF ResetObject, HashInv, DigestsRight
<1> QED
  BY <1>4, <1>5, <1>6, <1>7 DEF Methods

\* The program digest keeps it.
LEMMA DigestFileKeeps ==
  ASSUME HashInv, NEW file \in Texts[class], DigestFile(file), class' = class
  PROVE  HashInv'
<1>1. class \in Classes /\ <<>> \in Seq(Octet)
  BY DEF HashInv
<1>3. file \in Seq(Octet)
  BY <1>1, TextType
<1>4. PICK o, read : o = Constructed(class) /\ read = AddAll(class, o, Reads(file))
  OBVIOUS
<1>5. obj' = AfterHash(class, read) /\ msg' = file /\ result' = <<file, HashOf(class, read)>>
  BY <1>4 DEF DigestFile
<1>6. Took(class, o, <<>>)
  BY <1>1, <1>4, NothingTaken
<1>7. Took(class, read, file)
  BY <1>1, <1>3, <1>4, <1>6, FileTaken
<1>8. HashOf(class, read) = Reference(class, file) /\ Took(class, AfterHash(class, read), file)
  BY <1>1, <1>3, <1>7, HashTaken
<1> QED
  BY <1>1, <1>3, <1>5, <1>8, ResultIs DEF HashInv, DigestsRight

\* hash_credentials keeps it: it uses an object of its own.
LEMMA CredentialsKeep ==
  ASSUME HashInv, NEW words \in Texts[class], HashCredentials(words), class' = class
  PROVE  HashInv'
<1>1. /\ class \in Classes /\ class = SHA256 /\ class # CRC32
      /\ msg \in Seq(Octet) /\ Took(class, obj, msg) /\ <<>> \in Seq(Octet)
  BY DEF HashInv, HashCredentials, SHA256, CRC32
<1>3. words \in Seq(Octet)
  BY <1>1, TextType
<1>4. PICK salt \in Salts :
        result' = <<words \o <<Colon>> \o salt,
                    Digest(SHA256, Add(SHA256, Reset(SHA256, New(SHA256)), words \o <<Colon>> \o salt))>>
  BY DEF HashCredentials
<1>5. salt \in Seq(Octet) /\ <<Colon>> \in Seq(Octet)
  BY SaltsAssumption DEF Octet, Colon
<1>6. PICK text \in Seq(Octet) : text = words \o <<Colon>> \o salt
  <2>1. words \o <<Colon>> \in Seq(Octet)
    BY <1>3, <1>5, Longer
  <2> QED
    BY <1>5, <2>1, Longer
<1>7. PICK o, added : o = ResetOf(class, Constructed(class)) /\ added = Added(class, o, text)
  OBVIOUS
<1>8. result' = <<text, HashOf(class, added)>>
  BY <1>1, <1>4, <1>6, <1>7 DEF HashOf, Added, ResetOf, Constructed
<1>9. Took(class, o, <<>>)
  BY <1>1, <1>7, NothingTaken
<1>10. Took(class, added, <<>> \o text)
  BY <1>1, <1>7, <1>9, AddTaken
<1>11. <<>> \o text = text
  OBVIOUS
<1>12. HashOf(class, added) = Reference(class, text)
  <2>1. class \in Classes /\ Took(class, added, text)
    BY <1>1, <1>10, <1>11
  <2> QED
    BY <2>1, HashTaken
<1>13. obj' = obj /\ msg' = msg
  BY DEF HashCredentials
<1> QED
  BY <1>1, <1>8, <1>12, <1>13, ResultIs DEF HashInv, DigestsRight

\* However the methods are called, the object is the one that has been given msg.
THEOREM HashInvHolds == HashSpec => []HashInv
<1>1. HashInit => HashInv
  <2> SUFFICES ASSUME HashInit
               PROVE  HashInv
    OBVIOUS
  <2>1. class \in Classes /\ obj = Constructed(class) /\ msg = <<>> /\ result = None
    BY DEF HashInit
  <2>2. Took(class, Constructed(class), <<>>)
    BY <2>1, NothingTaken
  <2> QED
    BY <2>1, <2>2 DEF HashInv, DigestsRight
<1>2. HashInv /\ [HashNext]_hashVars => HashInv'
  <2> SUFFICES ASSUME HashInv, [HashNext]_hashVars
               PROVE  HashInv'
    OBVIOUS
  <2>1. CASE HashNext
    <3>1. class' = class
      BY <2>1 DEF HashNext
    <3>2. \/ Methods
          \/ \E text \in Texts[class] : DigestFile(text) \/ HashCredentials(text)
      BY <2>1 DEF HashNext, Crc32Methods, Md5Methods, Sha1Methods, Sha256Methods, KeccakMethods, Sha3Methods
    <3> QED
      BY <3>1, <3>2, MethodsKeep, DigestFileKeeps, CredentialsKeep
  <2>2. CASE UNCHANGED hashVars
    BY <2>2 DEF hashVars, HashInv, DigestsRight
  <2> QED
    BY <2>1, <2>2
<1> QED
  BY <1>1, <1>2, PTL DEF HashSpec

\* Every variable has its type: in particular the buffer of a block digest is never
\* full between two calls.
THEOREM HashTypes == HashSpec => []HashTypeOK
<1>1. HashInv => HashTypeOK
  <2> SUFFICES ASSUME HashInv
               PROVE  HashTypeOK
    OBVIOUS
  <2>1. class \in Classes /\ msg \in Seq(Octet) /\ obj \in Objects(class)
    BY TookType DEF HashInv
  <2>2. CASE class = CRC32
    BY <2>1, <2>2 DEF HashTypeOK, Objects, W, Octet
  <2>3. CASE class # CRC32
    <3>1. obj \in [hash : Seq(Octets(class.blockSize)), numBytes : Nat, bufferSize : 0..(class.blockSize - 1),
                   buffer : Buffers(class.blockSize)]
      BY <2>1, <2>3 DEF Objects
    <3>2. /\ obj.hash \in Seq(Octets(class.blockSize)) /\ obj.numBytes \in Nat
          /\ obj.bufferSize \in 0..(class.blockSize - 1) /\ obj.buffer \in Buffers(class.blockSize)
      BY <3>1
    <3> QED
      BY <2>1, <2>3, <3>2 DEF HashTypeOK, Octets, Buffers, Octet
  <2> QED
    BY <2>2, <2>3
<1> QED
  BY <1>1, HashInvHolds, PTL

\* The object is a function of the bytes added since reset(), for pieces of any size.
THEOREM PiecesMakeNoDifference == HashSpec => []Absorbed
<1>1. HashInv => Absorbed
  <2> SUFFICES ASSUME HashInv
               PROVE  Absorbed
    OBVIOUS
  <2>1. class \in Classes /\ msg \in Seq(Octet) /\ Took(class, obj, msg)
    BY DEF HashInv
  <2>2. CASE class = CRC32
    BY <2>1, <2>2 DEF Absorbed, Took
  <2>3. CASE class # CRC32
    <3>1. PICK b \in Nat \ {0} : HasBlocks(class, b)
      BY <2>1, <2>3, BlocksOfClass
    <3>2. PICK hash, size, buffer : /\ obj = Object(hash, Start(b, Len(hash) + 1), size, buffer)
                                    /\ Content(b, hash, size, buffer, msg)
      BY <2>1, <2>3, <3>1 DEF Took, Absorbs, HasBlocks
    <3>3. /\ Len(msg) = Start(b, Len(hash) + 1) + size
          /\ BlocksOf(b, hash, msg) /\ RestOf(size, buffer, msg, Start(b, Len(hash) + 1))
      BY <3>2 DEF Content
    <3>4. PICK whole \in Nat : whole = Len(hash)
      BY <2>1, <3>2, EmptySeq, BlocksStay
    <3>5. Start(b, whole + 1) = whole * b
      <4>1. (whole + 1) - 1 = whole
        OBVIOUS
      <4> QED
        BY <4>1 DEF Start
    <3>6. obj.hash = hash /\ obj.numBytes = whole * b /\ obj.bufferSize = size /\ obj.buffer = buffer
      BY <3>2, <3>4, <3>5 DEF Object
    <3>7. \A k \in 1..whole : \A i \in 1..b : hash[k][i] = msg[(k - 1) * b + i]
      BY <3>3, <3>4 DEF BlocksOf, Start
    <3>8. \A i \in 1..size : buffer[i] = msg[whole * b + i]
      BY <3>3, <3>4, <3>5 DEF RestOf
    <3>9. class.blockSize = b
      BY <3>1 DEF HasBlocks
    <3>10. Len(msg) = whole * b + size
      BY <3>3, <3>4, <3>5
    <3> QED
      BY <2>3, <3>4, <3>6, <3>7, <3>8, <3>9, <3>10 DEF Absorbed
  <2> QED
    BY <2>2, <2>3
<1> QED
  BY <1>1, HashInvHolds, PTL

\* Every digest is that of the padded message, or the bitwise CRC of the message.
THEOREM DigestsAreRight == HashSpec => []DigestsRight
<1>1. HashInv => DigestsRight
  BY DEF HashInv
<1> QED
  BY <1>1, HashInvHolds, PTL
=============================================================================
