----------------------------- MODULE ListLemmas -----------------------------
(***************************************************************************)
(* What the proofs of the servers and of the allocator need of numbers and *)
(* of the lists that the code walks, inserts into and cuts: the least      *)
(* element of a set of naturals, which is what an induction over a list or *)
(* over a loop comes down to, and the elements of a list after a change.   *)
(***************************************************************************)
EXTENDS Integers, Sequences, SequencesExt, SequenceTheorems, WellFoundedInduction, TLAPS

\* A set of natural numbers that is not empty has a least element.
LEMMA NatMin ==
  ASSUME NEW T \in SUBSET Nat, T # {}
  PROVE  \E m \in T : \A k \in T : m <= k
<1>1. PICK x \in T : \A y \in T : ~(<<y, x>> \in OpToRel(<, Nat))
  BY NatLessThanWellFounded, WFMin, Zenon
<1>2. \A y \in T : ~(y < x)
  BY <1>1 DEF OpToRel
<1>3. QED BY <1>2

\* A walk from the first of n entries over those in P ends: at the last one or
\* before the first one that is not in P.
LEMMA WalkEnds ==
  ASSUME NEW n \in Nat, NEW P
  PROVE  \E k \in 0 .. n : (\A j \in 1 .. k : j \in P) /\ (k < n => k + 1 \notin P)
<1> DEFINE T == {k \in Nat : k = n \/ (k < n /\ k + 1 \notin P)}
<1>1. PICK k \in T : \A m \in T : k <= m
  <2>1. T \in SUBSET Nat /\ T # {}
    OBVIOUS
  <2> HIDE DEF T
  <2>2. QED BY <2>1, NatMin
<1>2. k \in 0 .. n /\ (k < n => k + 1 \notin P)
  BY <1>1
<1>3. ASSUME NEW j \in 1 .. k PROVE j \in P
  <2>1. j - 1 \in Nat /\ j - 1 < n /\ ~(k <= j - 1)
    BY <1>2
  <2>2. j - 1 \notin T
    BY <1>1, <2>1
  <2>3. QED BY <2>1, <2>2
<1>4. QED BY <1>2, <1>3

\* A part of a list.
LEMMA SubSeqElements ==
  ASSUME NEW S, NEW s \in Seq(S), NEW a \in 1 .. Len(s) + 1, NEW b \in 0 .. Len(s), a <= b + 1
  PROVE  /\ SubSeq(s, a, b) \in Seq(S)
         /\ Len(SubSeq(s, a, b)) = b - a + 1
         /\ \A j \in 1 .. b - a + 1 : SubSeq(s, a, b)[j] = s[a + j - 1]
<1>1. \A i \in a .. b : s[i] \in S
  OBVIOUS
<1> DEFINE c == SubSeq(s, a, b)
<1>2. /\ c \in Seq(S)
      /\ Len(c) = IF a <= b THEN b - a + 1 ELSE 0
      /\ \A j \in 1 .. b - a + 1 : c[j] = s[a + j - 1]
  BY <1>1, SubSeqProperties, Z3
<1> HIDE DEF c
<1>3. /\ c \in Seq(S)
      /\ Len(c) = b - a + 1
      /\ \A j \in 1 .. b - a + 1 : c[j] = s[a + j - 1]
  BY <1>2
<1>4. QED BY <1>3 DEF c

\* Two lists in a row.
LEMMA ConcatElements ==
  ASSUME NEW S, NEW s \in Seq(S), NEW t \in Seq(S)
  PROVE  /\ s \o t \in Seq(S)
         /\ Len(s \o t) = Len(s) + Len(t)
         /\ \A j \in 1 .. Len(s) + Len(t) :
              (s \o t)[j] = IF j <= Len(s) THEN s[j] ELSE t[j - Len(s)]
BY ConcatProperties, Zenon

\* Linking an entry in at place i keeps the others, in their order.
IsInsert(r, S, s, i, e) ==
  /\ r \in Seq(S)
  /\ Len(r) = Len(s) + 1
  /\ \A j \in 1 .. Len(s) + 1 : r[j] = IF j < i THEN s[j] ELSE IF j = i THEN e ELSE s[j - 1]

LEMMA InsertAtElements ==
  ASSUME NEW S, NEW s \in Seq(S), NEW e \in S, NEW i \in 1 .. Len(s) + 1
  PROVE  IsInsert(InsertAt(s, i, e), S, s, i, e)
<1> DEFINE a == SubSeq(s, 1, i - 1)
           b == SubSeq(s, i, Len(s))
           c == a \o <<e>>
<1>0. Len(s) \in Nat
  OBVIOUS
<1>1. a \in Seq(S) /\ Len(a) = i - 1 /\ \A j \in 1 .. i - 1 : a[j] = s[j]
  <2>1. 1 \in 1 .. Len(s) + 1 /\ i - 1 \in 0 .. Len(s) /\ 1 <= i - 1 + 1
    BY <1>0
  <2>2. /\ a \in Seq(S) /\ Len(a) = i - 1 - 1 + 1
        /\ \A j \in 1 .. i - 1 - 1 + 1 : a[j] = s[1 + j - 1]
    BY <2>1, SubSeqElements, Zenon
  <2> HIDE DEF a
  <2>3. QED BY <2>2, <1>0
<1>2. /\ b \in Seq(S) /\ Len(b) = Len(s) - i + 1
      /\ \A j \in 1 .. Len(s) - i + 1 : b[j] = s[i + j - 1]
  <2>1. Len(s) \in 0 .. Len(s) /\ i <= Len(s) + 1
    BY <1>0
  <2>2. QED BY <2>1, SubSeqElements, Zenon
<1> HIDE DEF a, b
<1>3. /\ c \in Seq(S) /\ Len(c) = i
      /\ \A j \in 1 .. i : c[j] = IF j < i THEN s[j] ELSE e
  BY <1>0, <1>1
<1> HIDE DEF c
<1>4. /\ c \o b \in Seq(S) /\ Len(c \o b) = Len(c) + Len(b)
      /\ \A j \in 1 .. Len(c) + Len(b) :
           (c \o b)[j] = IF j <= Len(c) THEN c[j] ELSE b[j - Len(c)]
  BY <1>2, <1>3, ConcatElements, Zenon
<1>5. ASSUME NEW j \in 1 .. Len(s) + 1
      PROVE  (c \o b)[j] = IF j < i THEN s[j] ELSE IF j = i THEN e ELSE s[j - 1]
  <2>1. CASE j <= i
    BY <2>1, <1>0, <1>2, <1>3, <1>4
  <2>2. CASE j > i
    <3>1. (c \o b)[j] = b[j - i] /\ j - i \in 1 .. Len(s) - i + 1
      BY <2>2, <1>0, <1>2, <1>3, <1>4
    <3>2. b[j - i] = s[i + (j - i) - 1] /\ i + (j - i) - 1 = j - 1
      BY <3>1, <1>2, SMTT(60)
    <3>3. QED BY <2>2, <3>1, <3>2
  <2>3. j <= i \/ j > i
    BY <1>0
  <2>4. QED BY <2>1, <2>2, <2>3
<1>6. /\ c \o b \in Seq(S) /\ Len(c \o b) = Len(s) + 1
  BY <1>0, <1>2, <1>3, <1>4
<1>7. QED BY <1>5, <1>6 DEF InsertAt, IsInsert, a, b, c

\* The list without its first element.
LEMMA TailElements ==
  ASSUME NEW S, NEW s \in Seq(S), s # <<>>
  PROVE  /\ Head(s) = s[1] /\ Head(s) \in S /\ Tail(s) \in Seq(S)
         /\ Len(s) \in Nat \ {0} /\ Len(Tail(s)) = Len(s) - 1
         /\ \A i \in 1 .. Len(s) - 1 : Tail(s)[i] = s[i + 1]
BY HeadTailProperties

\* The list with one more at its end.
LEMMA AppendElements ==
  ASSUME NEW S, NEW s \in Seq(S), NEW e \in S
  PROVE  /\ Append(s, e) \in Seq(S) /\ Len(s) \in Nat
         /\ Len(Append(s, e)) = Len(s) + 1
         /\ \A i \in 1 .. Len(s) : Append(s, e)[i] = s[i]
         /\ Append(s, e)[Len(s) + 1] = e
BY AppendProperties

\* What a loop of n steps leaves behind after each of them, if it starts with a
\* and step k goes from x to g[k][x].
IsLoop(f, n, S, a, g) ==
  f \in [0 .. n -> S] /\ f[0] = a /\ \A k \in 1 .. n : f[k] = g[k][f[k - 1]]

\* Every loop has such values.
LEMMA LoopExists ==
  ASSUME NEW n \in Nat, NEW S, NEW a \in S, NEW g \in [1 .. n -> [S -> S]]
  PROVE  \E f : IsLoop(f, n, S, a, g)
<1> DEFINE T == {m \in Nat : m <= n /\ ~ \E f : IsLoop(f, m, S, a, g)}
<1>1. IsLoop([x \in 0 .. 0 |-> a], 0, S, a, g)
  BY DEF IsLoop
<1>2. ASSUME NEW m \in 1 .. n, NEW f, IsLoop(f, m - 1, S, a, g)
      PROVE  \E h : IsLoop(h, m, S, a, g)
  <2> DEFINE h == [x \in 0 .. m |-> IF x = m THEN g[m][f[m - 1]] ELSE f[x]]
  <2>1. /\ f \in [0 .. m - 1 -> S] /\ f[0] = a /\ m - 1 \in 0 .. m - 1
        /\ \A k \in 1 .. m - 1 : f[k] = g[k][f[k - 1]]
    BY <1>2 DEF IsLoop
  <2>2. g[m][f[m - 1]] \in S
    BY <2>1
  <2>3. h \in [0 .. m -> S] /\ h[0] = a
    BY <2>1, <2>2
  <2>4. ASSUME NEW k \in 1 .. m PROVE h[k] = g[k][h[k - 1]]
    BY <2>1
  <2> HIDE DEF h
  <2>5. QED BY <2>3, <2>4 DEF IsLoop
<1>3. T = {}
  <2> SUFFICES ASSUME T # {} PROVE FALSE
    OBVIOUS
  <2>1. T \in SUBSET Nat
    OBVIOUS
  <2>2. PICK m \in T : \A k \in T : m <= k
    <3> HIDE DEF T
    <3>1. QED BY <2>1, NatMin
  <2>3. m \in 1 .. n /\ ~ \E f : IsLoop(f, m, S, a, g)
    BY <1>1, <2>2
  <2>4. m - 1 \in Nat /\ m - 1 <= n /\ m - 1 \notin T
    BY <2>2, <2>3
  <2>5. \E f : IsLoop(f, m - 1, S, a, g)
    BY <2>4
  <2>6. QED BY <1>2, <2>3, <2>5
<1>4. n \notin T
  BY <1>3
<1>5. QED BY <1>4
=============================================================================
