------------------------------ MODULE ScreenProofs ------------------------------
(***************************************************************************)
(* Proofs about Screen and Renderer for every size of the terminal, every  *)
(* width of the input, any number of pipelines, lines and detachments.     *)
(***************************************************************************)
EXTENDS Screen, FiniteSetTheorems, SequenceTheorems, TLAPS

-----------------------------------------------------------------------------
(* Numbers: the least and the greatest of a set, and induction over a set *)

LEMMA Least ==
  ASSUME NEW S \in SUBSET Nat, S # {}
  PROVE  Min(S) \in S /\ \A y \in S : Min(S) <= y
<1>1. \E x \in S : \A y \in S : ~ (<<y, x>> \in OpToRel(<, Nat))
  BY NatLessThanWellFounded, WFMin
<1>2. \E x \in S : \A y \in S : x <= y
  <2>1. PICK x \in S : \A y \in S : ~ (<<y, x>> \in OpToRel(<, Nat))
    BY <1>1
  <2>2. ASSUME NEW y \in S PROVE x <= y
    <3>1. SUFFICES ASSUME y < x PROVE FALSE
      OBVIOUS
    <3>2. <<y, x>> \in {ss \in Nat \X Nat : ss[1] < ss[2]}
      BY <3>1
    <3> QED  BY <2>1, <3>2 DEF OpToRel
  <2> QED  BY <2>2
<1> QED  BY <1>2 DEF Min

LEMMA Greatest ==
  ASSUME NEW n \in Nat, NEW S \in SUBSET (0..n), S # {}
  PROVE  Max(S) \in S /\ \A y \in S : y <= Max(S)
<1> DEFINE bounds == {m \in Nat : \A y \in S : y <= m}
<1>1. bounds \in SUBSET Nat /\ n \in bounds
  OBVIOUS
<1> DEFINE m == Min(bounds)
<1>2. m \in bounds /\ \A k \in bounds : m <= k
  BY <1>1, Least
<1>3. m \in S
  <2>1. SUFFICES ASSUME m \notin S PROVE FALSE
    OBVIOUS
  <2>2. \A y \in S : y < m /\ y \in Nat
    BY <1>2, <2>1
  <2>3. m \in Nat /\ m > 0
    <3>1. PICK y : y \in S
      OBVIOUS
    <3> QED  BY <1>2, <2>2, <3>1
  <2>4. m - 1 \in bounds
    BY <2>2, <2>3
  <2> QED  BY <1>2, <2>3, <2>4
<1>4. \E x \in S : \A y \in S : x >= y
  BY <1>2, <1>3
<1> QED  BY <1>4 DEF Max

LEMMA Climb ==
  ASSUME NEW n \in Nat, NEW P, 0 \in P, \A k \in 1..n : k - 1 \in P => k \in P
  PROVE  \A k \in 0..n : k \in P
<1> SUFFICES ASSUME NEW j \in 0..n, j \notin P PROVE FALSE
  OBVIOUS
<1> DEFINE S == {k \in 0..n : k \notin P}
<1>1. S \in SUBSET Nat /\ S # {}
  OBVIOUS
<1>2. Min(S) \in S /\ \A y \in S : Min(S) <= y
  BY <1>1, Least
<1>3. Min(S) \in 1..n
  BY <1>2
<1>4. Min(S) - 1 \in 0..n /\ Min(S) - 1 \notin S
  BY <1>2, <1>3
<1> QED  BY <1>2, <1>3, <1>4

-----------------------------------------------------------------------------
(* Folds and recursive definitions *)

\* The sets that a fold goes through.
Few(n, k) == {S \in SUBSET (1..n) : Cardinality(S) <= k}

LEMMA WithoutMax ==
  ASSUME NEW n \in Nat, NEW S \in SUBSET (1..n), S # {}
  PROVE  /\ Max(S) \in S /\ Max(S) \in 1..n /\ S \ {Max(S)} \in SUBSET (1..n)
         /\ IsFiniteSet(S) /\ Cardinality(S) \in Nat
         /\ Cardinality(S \ {Max(S)}) = Cardinality(S) - 1
<1>1. Max(S) \in S
  <2>1. S \in SUBSET (0..n)
    OBVIOUS
  <2> QED  BY <2>1, Greatest
<1>2. IsFiniteSet(S)
  <2>1. IsFiniteSet(1..n)
    BY FS_Interval
  <2> QED  BY <2>1, FS_Subset
<1>3. Cardinality(S) \in Nat
  BY <1>2, FS_CardinalityType
<1>4. Cardinality(S \ {Max(S)}) = Cardinality(S) - 1
  BY <1>1, <1>2, FS_RemoveElement
<1> QED  BY <1>1, <1>2, <1>3, <1>4

\* A fold over the numbers up to n is a function.
IsFold(h, T, base, n, F) ==
  /\ h \in [SUBSET (1..n) -> T]
  /\ \A S \in SUBSET (1..n) : h[S] = IF S = {} THEN base ELSE F[<<Max(S), h[S \ {Max(S)}]>>]

LEMMA FoldExists ==
  ASSUME NEW T, NEW base \in T, NEW n \in Nat, NEW F \in [(1..n) \X T -> T]
  PROVE  \E h : IsFold(h, T, base, n, F)
<1> DEFINE Solves(k, h) ==
             /\ h \in [Few(n, k) -> T]
             /\ \A S \in Few(n, k) : h[S] = IF S = {} THEN base ELSE F[<<Max(S), h[S \ {Max(S)}]>>]
           P == {k \in 0..n : \E h : Solves(k, h)}
<1>1. 0 \in P
  <2> DEFINE h == [S \in Few(n, 0) |-> base]
  <2>1. ASSUME NEW S \in Few(n, 0) PROVE S = {}
    <3>1. S \in SUBSET (1..n) /\ Cardinality(S) <= 0
      BY DEF Few
    <3>2. SUFFICES ASSUME S # {} PROVE FALSE
      OBVIOUS
    <3>3. IsFiniteSet(S) /\ Cardinality(S) \in Nat
      BY <3>1, <3>2, WithoutMax
    <3>4. Cardinality(S) = 0
      BY <3>1, <3>3
    <3> QED  BY <3>2, <3>3, <3>4, FS_EmptySet
  <2>2. Solves(0, h)
    BY <2>1
  <2> HIDE DEF Solves
  <2> QED  BY <2>2
<1>2. ASSUME NEW k \in 1..n, k - 1 \in P PROVE k \in P
  <2>1. PICK h : Solves(k - 1, h)
    BY <1>2
  <2> DEFINE g == [S \in Few(n, k) |-> IF S = {} THEN base ELSE F[<<Max(S), h[S \ {Max(S)}]>>]]
  <2>2. ASSUME NEW S \in Few(n, k), S # {}
        PROVE  /\ Max(S) \in 1..n /\ S \ {Max(S)} \in Few(n, k - 1)
               /\ S \ {Max(S)} \in Few(n, k) /\ h[S \ {Max(S)}] \in T
    <3>1. S \in SUBSET (1..n) /\ Cardinality(S) <= k
      BY DEF Few
    <3>2. /\ Max(S) \in 1..n /\ S \ {Max(S)} \in SUBSET (1..n)
          /\ Cardinality(S) \in Nat /\ Cardinality(S \ {Max(S)}) = Cardinality(S) - 1
      BY <2>2, <3>1, WithoutMax
    <3>3. Cardinality(S \ {Max(S)}) <= k - 1 /\ Cardinality(S \ {Max(S)}) <= k
      BY <3>1, <3>2
    <3> QED  BY <2>1, <3>2, <3>3 DEF Few
  <2>3. g \in [Few(n, k) -> T]
    <3> SUFFICES ASSUME NEW S \in Few(n, k), S # {}
                 PROVE  F[<<Max(S), h[S \ {Max(S)}]>>] \in T
      OBVIOUS
    <3>1. <<Max(S), h[S \ {Max(S)}]>> \in (1..n) \X T
      BY <2>2
    <3> QED  BY <3>1
  <2>4. ASSUME NEW S \in Few(n, k - 1) PROVE S \in Few(n, k) /\ g[S] = h[S]
    <3>1. S \in Few(n, k)
      <4>1. S \in SUBSET (1..n) /\ Cardinality(S) <= k - 1
        BY DEF Few
      <4>2. Cardinality(S) \in Nat
        <5>1. IsFiniteSet(1..n)
          BY FS_Interval
        <5>2. IsFiniteSet(S)
          BY <4>1, <5>1, FS_Subset
        <5> QED  BY <5>2, FS_CardinalityType
      <4>3. Cardinality(S) <= k
        BY <4>1, <4>2
      <4> QED  BY <4>1, <4>3 DEF Few
    <3> QED  BY <2>1, <3>1
  <2>5. \A S \in Few(n, k) : g[S] = IF S = {} THEN base ELSE F[<<Max(S), g[S \ {Max(S)}]>>]
    BY <2>2, <2>4
  <2>6. Solves(k, g)
    BY <2>3, <2>5
  <2> HIDE DEF Solves
  <2> QED  BY <2>6
<1>3. n \in P
  <2>1. \A k \in 1..n : k - 1 \in P => k \in P
    BY <1>2
  <2> HIDE DEF P
  <2>2. \A k \in 0..n : k \in P
    BY <1>1, <2>1, Climb
  <2> QED  BY <2>2
<1>4. Few(n, n) = SUBSET (1..n)
  <2> SUFFICES ASSUME NEW S \in SUBSET (1..n) PROVE Cardinality(S) <= n
    BY DEF Few
  <2>1. IsFiniteSet(1..n) /\ Cardinality(1..n) = n
    BY FS_Interval
  <2>2. Cardinality(S) <= Cardinality(1..n)
    BY <2>1, FS_Subset
  <2> QED  BY <2>1, <2>2
<1> QED  BY <1>3, <1>4 DEF IsFold

\* The numbers up to n, one after another.
LEMMA UpTo ==
  ASSUME NEW n \in Nat
  PROVE  /\ 1..0 = {} /\ 1..n \in SUBSET (1..n)
         /\ \A k \in 1..n : /\ 1..k \in SUBSET (1..n) /\ 1..k # {}
                            /\ Max(1..k) = k /\ (1..k) \ {k} = 1..k - 1
<1> SUFFICES ASSUME NEW k \in 1..n
             PROVE  /\ 1..k \in SUBSET (1..n) /\ 1..k # {}
                    /\ Max(1..k) = k /\ (1..k) \ {k} = 1..k - 1
  OBVIOUS
<1>1. 1..k \in SUBSET (0..k) /\ k \in 1..k /\ k \in Nat /\ 1..k \in SUBSET (1..n)
  OBVIOUS
<1>2. Max(1..k) \in 1..k /\ k <= Max(1..k)
  BY <1>1, Greatest
<1> QED  BY <1>1, <1>2

\* Places of a sequence that stands behind x others.
LEMMA Shift ==
  ASSUME NEW x \in Nat, NEW y \in Nat, NEW j \in 1..y
  PROVE  /\ x + j \in Nat /\ x + j >= 1 /\ x + j <= x + y /\ (x + j) - x = j /\ ~ (x + j <= x)
OBVIOUS
LEMMA ShiftBack ==
  ASSUME NEW x \in Nat, NEW y \in Nat, NEW i \in Nat, x < i, i <= x + y
  PROVE  i - x \in 1..y /\ i = x + (i - x)
OBVIOUS
LEMMA Between ==
  ASSUME NEW i \in Nat, NEW x \in Nat, NEW y \in Nat, NEW z \in Nat,
         i >= 1, i <= x, x <= y, y <= z
  PROVE  i \in 1..z /\ i <= y
OBVIOUS

\* The values of a recursive definition on 0..n, and that it has them.
IsRecursion(h, T, base, n, F) ==
  h \in [0..n -> T] /\ h[0] = base /\ \A k \in 1..n : h[k] = F[<<k, h[k - 1]>>]

LEMMA RecursionExists ==
  ASSUME NEW T, NEW base \in T, NEW n \in Nat, NEW F \in [(1..n) \X T -> T]
  PROVE  \E h : IsRecursion(h, T, base, n, F)
<1>1. PICK f : IsFold(f, T, base, n, F)
  BY FoldExists
<1> DEFINE h == [k \in 0..n |-> f[1..k]]
<1>2. \A k \in 1..n : /\ 1..k \in SUBSET (1..n) /\ 1..k # {}
                      /\ Max(1..k) = k /\ (1..k) \ {k} = 1..k - 1
  BY UpTo
<1>3. 1..0 = {} /\ {} \in SUBSET (1..n)
  BY UpTo
<1>4. h[0] = base
  <2>1. h[0] = f[1..0]
    OBVIOUS
  <2>2. f[{}] = base
    BY <1>1, <1>3 DEF IsFold
  <2> QED  BY <1>3, <2>1, <2>2
<1>5. ASSUME NEW k \in 1..n PROVE h[k] = F[<<k, h[k - 1]>>]
  <2>1. f[1..k] = F[<<k, f[1..k - 1]>>]
    BY <1>1, <1>2 DEF IsFold
  <2>2. k \in 0..n /\ k - 1 \in 0..n
    OBVIOUS
  <2>3. h[k] = f[1..k] /\ h[k - 1] = f[1..k - 1]
    BY <2>2
  <2> HIDE DEF h
  <2> QED  BY <2>1, <2>3
<1>6. ASSUME NEW k \in 0..n PROVE h[k] \in T
  <2>1. 1..k \in SUBSET (1..n)
    OBVIOUS
  <2> QED  BY <1>1, <2>1 DEF IsFold
<1>7. h \in [0..n -> T]
  BY <1>6
<1> HIDE DEF h
<1> QED  BY <1>4, <1>5, <1>7 DEF IsRecursion

LEMMA Lesser ==
  ASSUME NEW a \in Nat, NEW b \in Nat
  PROVE  Min({a, b}) = IF a <= b THEN a ELSE b
<1>1. {a, b} \in SUBSET Nat /\ {a, b} # {}
  OBVIOUS
<1>2. Min({a, b}) \in {a, b} /\ \A y \in {a, b} : Min({a, b}) <= y
  BY <1>1, Least
<1> QED  BY <1>2

LEMMA Greater ==
  ASSUME NEW a \in Nat, NEW b \in Nat
  PROVE  Max({a, b}) = IF a >= b THEN a ELSE b
<1>1. {a, b} \in SUBSET (0..(a + b)) /\ {a, b} # {} /\ a + b \in Nat
  OBVIOUS
<1>2. Max({a, b}) \in {a, b} /\ \A y \in {a, b} : y <= Max({a, b})
  BY <1>1, Greatest
<1> QED  BY <1>2

\* What is left of a sequence behind its first m elements, and those.
LEMMA Rest ==
  ASSUME NEW S, NEW s \in Seq(S), NEW m \in 0..Len(s)
  PROVE  /\ SubSeq(s, m + 1, Len(s)) \in Seq(S) /\ Len(SubSeq(s, m + 1, Len(s))) = Len(s) - m
         /\ \A k \in 1..(Len(s) - m) : SubSeq(s, m + 1, Len(s))[k] = s[m + k]
<1>1. Len(s) \in Nat /\ m \in Nat /\ \A k \in 1..Len(s) : s[k] \in S
  BY LenProperties, ElementOfSeq
<1>2. m + 1 \in Int /\ Len(s) \in Int /\ \A i \in (m + 1)..Len(s) : s[i] \in S
  BY <1>1
<1>3. /\ SubSeq(s, m + 1, Len(s)) \in Seq(S)
      /\ Len(SubSeq(s, m + 1, Len(s))) = IF m + 1 <= Len(s) THEN Len(s) - (m + 1) + 1 ELSE 0
      /\ \A i \in 1..(Len(s) - (m + 1) + 1) : SubSeq(s, m + 1, Len(s))[i] = s[(m + 1) + i - 1]
  BY <1>2, SubSeqProperties
<1>4. Len(SubSeq(s, m + 1, Len(s))) = Len(s) - m
  BY <1>1, <1>3
<1>5. ASSUME NEW k \in 1..(Len(s) - m) PROVE SubSeq(s, m + 1, Len(s))[k] = s[m + k]
  <2>1. k \in 1..(Len(s) - (m + 1) + 1) /\ (m + 1) + k - 1 = m + k
    BY <1>1
  <2> QED  BY <1>3, <2>1
<1> QED  BY <1>3, <1>4, <1>5

LEMMA Start ==
  ASSUME NEW S, NEW s \in Seq(S), NEW m \in 0..Len(s)
  PROVE  /\ SubSeq(s, 1, m) \in Seq(S) /\ Len(SubSeq(s, 1, m)) = m
         /\ \A k \in 1..m : SubSeq(s, 1, m)[k] = s[k]
<1>1. Len(s) \in Nat /\ m \in Nat /\ \A k \in 1..Len(s) : s[k] \in S
  BY LenProperties, ElementOfSeq
<1>2. 1 \in Int /\ m \in Int /\ \A i \in 1..m : s[i] \in S
  BY <1>1
<1>3. /\ SubSeq(s, 1, m) \in Seq(S)
      /\ Len(SubSeq(s, 1, m)) = IF 1 <= m THEN m - 1 + 1 ELSE 0
      /\ \A i \in 1..(m - 1 + 1) : SubSeq(s, 1, m)[i] = s[1 + i - 1]
  BY <1>2, SubSeqProperties
<1>4. Len(SubSeq(s, 1, m)) = m
  BY <1>1, <1>3
<1>5. ASSUME NEW k \in 1..m PROVE SubSeq(s, 1, m)[k] = s[k]
  <2>1. k \in 1..(m - 1 + 1) /\ 1 + k - 1 = k
    BY <1>1
  <2> QED  BY <1>3, <2>1
<1> QED  BY <1>3, <1>4, <1>5

\* The concatenations of the first sequences.
Joins(h, S, seqs) ==
  /\ h \in [0..Len(seqs) -> Seq(S)] /\ h[0] = <<>> /\ h[Len(seqs)] = FlattenSeq(seqs)
  /\ \A k \in 1..Len(seqs) : h[k] = h[k - 1] \o seqs[k]

LEMMA JoinsExist ==
  ASSUME NEW S, NEW seqs \in Seq(Seq(S))
  PROVE  \E h : Joins(h, S, seqs)
<1> DEFINE n == Len(seqs)
           F == [x \in (1..n) \X Seq(S) |-> x[2] \o seqs[x[1]]]
           Good(h) == h = [i \in 1..n |-> IF i = 1 THEN seqs[i] ELSE h[i - 1] \o seqs[i]]
           c == CHOOSE h : Good(h)
<1>1. n \in Nat /\ seqs \in [1..n -> Seq(S)] /\ \A k \in 1..n : seqs[k] \in Seq(S)
  BY LenProperties, ElementOfSeq
<1>2. FlattenSeq(seqs) = IF n = 0 THEN seqs ELSE c[n]
  BY DEF FlattenSeq
<1>3. F \in [(1..n) \X Seq(S) -> Seq(S)]
  <2> SUFFICES ASSUME NEW x \in (1..n) \X Seq(S) PROVE x[2] \o seqs[x[1]] \in Seq(S)
    OBVIOUS
  <2>1. x[1] \in 1..n /\ x[2] \in Seq(S)
    OBVIOUS
  <2> QED  BY <1>1, <2>1, ConcatProperties
<1>4. ASSUME NEW k \in 1..n, NEW m \in Seq(S) PROVE F[<<k, m>>] = m \o seqs[k]
  OBVIOUS
<1> HIDE DEF n, F
<1>5. PICK h : IsRecursion(h, Seq(S), <<>>, n, F)
  <2>1. <<>> \in Seq(S)
    BY EmptySeq
  <2> QED  BY <1>1, <1>3, <2>1, RecursionExists
<1>6. /\ h \in [0..n -> Seq(S)] /\ h[0] = <<>>
      /\ \A k \in 1..n : k \in 0..n /\ k - 1 \in 0..n /\ h[k] = h[k - 1] \o seqs[k]
  <2> SUFFICES ASSUME NEW k \in 1..n
               PROVE  k \in 0..n /\ k - 1 \in 0..n /\ h[k] = h[k - 1] \o seqs[k]
    BY <1>5 DEF IsRecursion
  <2>1. k \in 0..n /\ k - 1 \in 0..n
    BY <1>1
  <2>2. h[k] = F[<<k, h[k - 1]>>] /\ h[k - 1] \in Seq(S)
    BY <1>5, <2>1 DEF IsRecursion
  <2> QED  BY <1>4, <2>1, <2>2
<1>7. ASSUME NEW k \in 1..n, k = 1 PROVE h[k] = seqs[k]
  <2>1. h[k] = <<>> \o seqs[k] /\ seqs[k] \in Seq(S)
    <3>1. k - 1 = 0
      BY <1>7
    <3>2. h[k] = h[0] \o seqs[k]
      BY <1>6, <3>1
    <3> QED  BY <1>1, <1>6, <3>2
  <2> QED  BY <2>1, ConcatEmptySeq
<1> DEFINE f == [i \in 1..n |-> h[i]]
<1>8. Good(f)
  <2>1. ASSUME NEW i \in 1..n PROVE f[i] = IF i = 1 THEN seqs[i] ELSE f[i - 1] \o seqs[i]
    <3>1. CASE i = 1
      BY <1>7, <3>1
    <3>2. CASE i # 1
      <4>1. i - 1 \in 1..n
        BY <1>1, <3>2
      <4>2. f[i - 1] = h[i - 1]
        BY <4>1
      <4> QED  BY <1>6, <3>2, <4>2
    <3> QED  BY <3>1, <3>2
  <2> HIDE DEF f
  <2>2. DOMAIN f = 1..n /\ f = [i \in 1..n |-> f[i]]
    BY DEF f
  <2>3. [i \in 1..n |-> f[i]] = [i \in 1..n |-> IF i = 1 THEN seqs[i] ELSE f[i - 1] \o seqs[i]]
    BY <2>1, Zenon
  <2> QED  BY <2>2, <2>3
<1>9. Good(c)
  <2> HIDE DEF Good
  <2> QED  BY <1>8
<1> HIDE DEF c
<1>10. \A k \in 0..n : k \in {j \in 0..n : j = 0 \/ c[j] = h[j]}
  <2> DEFINE P == {j \in 0..n : j = 0 \/ c[j] = h[j]}
  <2>1. 0 \in P
    BY <1>1
  <2>2. ASSUME NEW j \in 1..n, j - 1 \in P PROVE j \in P
    <3>1. CASE j = 1
      BY <1>6, <1>7, <1>9, <3>1
    <3>2. CASE j # 1
      <4>1. c[j] = c[j - 1] \o seqs[j]
        BY <1>9, <3>2
      <4>2. j - 1 # 0 /\ j \in 0..n
        BY <1>1, <3>2
      <4>3. c[j - 1] = h[j - 1]
        BY <2>2, <4>2
      <4> QED  BY <1>6, <4>1, <4>2, <4>3
    <3> QED  BY <3>1, <3>2
  <2> HIDE DEF P
  <2>3. \A j \in 1..n : j - 1 \in P => j \in P
    BY <2>2
  <2>4. \A j \in 0..n : j \in P
    BY <1>1, <2>1, <2>3, Climb
  <2> QED  BY <2>4 DEF P
<1>11. h[n] = FlattenSeq(seqs)
  <2>1. CASE n = 0
    <3>1. seqs = <<>>
      BY <1>1, <2>1, EmptySeq DEF n
    <3> QED  BY <1>2, <1>6, <2>1, <3>1
  <2>2. CASE n # 0
    <3>1. n \in 0..n
      BY <1>1
    <3> QED  BY <1>2, <1>10, <2>2, <3>1
  <2> QED  BY <2>1, <2>2
<1> QED  BY <1>6, <1>11 DEF Joins, n

\* Where each of several sequences begins in their concatenation.
Laid(off, flat, seqs) ==
  /\ off \in [0..Len(seqs) -> Nat] /\ off[0] = 0 /\ off[Len(seqs)] = Len(flat)
  /\ \A i, k \in 0..Len(seqs) : i <= k => off[i] <= off[k]
  /\ \A k \in 1..Len(seqs) :
       /\ off[k] = off[k - 1] + Len(seqs[k])
       /\ \A j \in 1..Len(seqs[k]) : flat[off[k - 1] + j] = seqs[k][j]

LEMMA Flattened ==
  ASSUME NEW S, NEW seqs \in Seq(Seq(S))
  PROVE  FlattenSeq(seqs) \in Seq(S) /\ \E off : Laid(off, FlattenSeq(seqs), seqs)
<1> DEFINE n == Len(seqs)
<1>1. n \in Nat /\ \A k \in 1..n : seqs[k] \in Seq(S) /\ Len(seqs[k]) \in Nat
  BY LenProperties, ElementOfSeq
<1>2. PICK h : Joins(h, S, seqs)
  BY JoinsExist
<1>3. \A k \in 0..n : h[k] \in Seq(S) /\ Len(h[k]) \in Nat
  BY <1>2, LenProperties DEF Joins
<1>4. h[0] = <<>> /\ h[n] = FlattenSeq(seqs) /\ \A k \in 1..n : h[k] = h[k - 1] \o seqs[k]
  BY <1>2 DEF Joins
<1> DEFINE off == [k \in 0..n |-> Len(h[k])]
<1>5. off \in [0..n -> Nat] /\ \A k \in 0..n : off[k] = Len(h[k])
  BY <1>3
<1> HIDE DEF off, n
<1>6. off[0] = 0 /\ off[n] = Len(FlattenSeq(seqs))
  BY <1>1, <1>4, <1>5, EmptySeq
<1>7. ASSUME NEW k \in 1..n
      PROVE  /\ k - 1 \in 0..n /\ k \in 0..n /\ off[k] = off[k - 1] + Len(seqs[k])
             /\ \A i \in 1..off[k] :
                  h[k][i] = IF i <= off[k - 1] THEN h[k - 1][i] ELSE seqs[k][i - off[k - 1]]
  <2>1. k - 1 \in 0..n /\ k \in 0..n
    BY <1>1
  <2>2. h[k - 1] \in Seq(S) /\ seqs[k] \in Seq(S) /\ h[k] = h[k - 1] \o seqs[k]
    BY <1>1, <1>3, <1>4, <2>1
  <2> DEFINE a == h[k - 1]
             b == seqs[k]
  <2>3. /\ Len(h[k]) = Len(a) + Len(b)
        /\ \A i \in 1..(Len(a) + Len(b)) : h[k][i] = IF i <= Len(a) THEN a[i] ELSE b[i - Len(a)]
    <3>1. a \in Seq(S) /\ b \in Seq(S) /\ h[k] = a \o b
      BY <2>2
    <3> HIDE DEF a, b
    <3>2. /\ Len(a \o b) = Len(a) + Len(b)
          /\ \A i \in 1..(Len(a) + Len(b)) : (a \o b)[i] = IF i <= Len(a) THEN a[i] ELSE b[i - Len(a)]
      BY <3>1, ConcatProperties
    <3> QED  BY <3>1, <3>2
  <2>4. off[k - 1] = Len(h[k - 1]) /\ off[k] = Len(h[k])
    BY <1>5, <2>1
  <2> QED  BY <2>1, <2>3, <2>4
<1>8. ASSUME NEW k \in 0..n, NEW i \in 0..n, i <= k PROVE off[i] <= off[k]
  <2> DEFINE P == {j \in 0..n : i <= j => off[i] <= off[j]}
  <2>1. 0 \in P
    BY <1>1, <1>5
  <2>2. ASSUME NEW j \in 1..n, j - 1 \in P PROVE j \in P
    <3>1. off[j] = off[j - 1] + Len(seqs[j]) /\ Len(seqs[j]) \in Nat /\ j \in 0..n
      BY <1>1, <1>7
    <3>2. off[j] \in Nat /\ off[j - 1] \in Nat /\ off[i] \in Nat
      BY <1>5, <1>7
    <3> QED  BY <1>1, <2>2, <3>1, <3>2
  <2> HIDE DEF P
  <2>3. \A j \in 1..n : j - 1 \in P => j \in P
    BY <2>2
  <2>4. \A j \in 0..n : j \in P
    BY <1>1, <2>1, <2>3, Climb
  <2> QED  BY <1>8, <2>4 DEF P
<1>9. ASSUME NEW k \in 1..n, NEW j \in 1..Len(seqs[k])
      PROVE  FlattenSeq(seqs)[off[k - 1] + j] = seqs[k][j]
  <2> DEFINE at == off[k - 1] + j
             P == {m \in 0..n : k <= m => h[m][at] = seqs[k][j]}
  <2>1. /\ off[k - 1] \in Nat /\ Len(seqs[k]) \in Nat /\ off[k] = off[k - 1] + Len(seqs[k])
        /\ at \in Nat /\ at >= 1 /\ at <= off[k] /\ at - off[k - 1] = j /\ ~ (at <= off[k - 1])
    <3>1. off[k - 1] \in Nat /\ Len(seqs[k]) \in Nat /\ off[k] = off[k - 1] + Len(seqs[k])
      BY <1>1, <1>5, <1>7
    <3> QED  BY <3>1, Shift
  <2>2. 0 \in P
    BY <1>1
  <2> HIDE DEF at
  <2>3. ASSUME NEW m \in 1..n, m - 1 \in P PROVE m \in P
    <3>1. CASE m < k
      BY <1>1, <3>1
    <3>2. CASE m = k
      <4>1. at \in 1..off[k]
        BY <1>5, <1>7, <2>1
      <4>2. h[k][at] = seqs[k][j]
        BY <1>7, <2>1, <4>1
      <4> QED  BY <1>1, <3>2, <4>2
    <3>3. CASE m > k
      <4>1. k <= m - 1 /\ k \in 0..n /\ m - 1 \in 0..n /\ m \in 0..n /\ m - 1 <= m
        BY <1>1, <3>3
      <4>2. off[k] <= off[m - 1] /\ off[m - 1] <= off[m]
        BY <1>8, <4>1
      <4>3. at \in 1..off[m] /\ at <= off[m - 1]
        <5>1. off[k] \in Nat /\ off[m - 1] \in Nat /\ off[m] \in Nat
          BY <1>5, <4>1
        <5>2. at \in Nat /\ at >= 1 /\ at <= off[k]
          BY <2>1
        <5> QED  BY <4>2, <5>1, <5>2, Between
      <4>4. h[m][at] = h[m - 1][at]
        BY <1>7, <4>3
      <4> QED  BY <2>3, <4>1, <4>4
    <3> QED  BY <1>1, <3>1, <3>2, <3>3
  <2> HIDE DEF P
  <2>4. \A m \in 1..n : m - 1 \in P => m \in P
    BY <2>3
  <2>5. \A m \in 0..n : m \in P
    BY <1>1, <2>2, <2>4, Climb
  <2>6. n \in 0..n /\ k <= n
    BY <1>1
  <2> QED  BY <1>4, <2>5, <2>6 DEF P, at
<1>10. FlattenSeq(seqs) \in Seq(S)
  <2>1. n \in 0..n
    BY <1>1
  <2> QED  BY <1>3, <1>4, <2>1
<1>11. Laid(off, FlattenSeq(seqs), seqs)
  <2>1. \A i, k \in 0..n : i <= k => off[i] <= off[k]
    BY <1>8
  <2>2. \A k \in 1..n : /\ off[k] = off[k - 1] + Len(seqs[k])
                        /\ \A j \in 1..Len(seqs[k]) : FlattenSeq(seqs)[off[k - 1] + j] = seqs[k][j]
    BY <1>7, <1>9
  <2> QED  BY <1>5, <1>6, <2>1, <2>2 DEF Laid, n
<1> QED  BY <1>10, <1>11

\* Every place of the concatenation is a place of one of them.
Found(i, off, seqs) == \E k \in 1..Len(seqs) : \E j \in 1..Len(seqs[k]) : i = off[k - 1] + j

LEMMA LaidOut ==
  ASSUME NEW S, NEW seqs \in Seq(Seq(S)), NEW off, NEW flat \in Seq(S),
         Laid(off, flat, seqs), NEW i \in 1..Len(flat)
  PROVE  Found(i, off, seqs)
<1> DEFINE n == Len(seqs)
           P == {k \in 0..n : off[k] < i}
<1>1. n \in Nat /\ Len(flat) \in Nat /\ \A k \in 1..n : Len(seqs[k]) \in Nat
  BY LenProperties, ElementOfSeq
<1>2. off[0] = 0 /\ off[n] = Len(flat) /\ \A k \in 0..n : off[k] \in Nat
  BY DEF Laid
<1> HIDE DEF n
<1>3. 0 \in P /\ n \notin P
  BY <1>1, <1>2
<1>4. PICK k \in 1..n : k - 1 \in P /\ k \notin P
  <2>1. SUFFICES ASSUME \A k \in 1..n : k - 1 \in P => k \in P PROVE FALSE
    OBVIOUS
  <2> HIDE DEF P
  <2>2. \A k \in 0..n : k \in P
    BY <1>1, <1>3, <2>1, Climb
  <2>3. n \in 0..n
    BY <1>1
  <2> QED  BY <1>3, <2>2, <2>3
<1>5. k - 1 \in 0..n /\ k \in 0..n /\ off[k - 1] < i /\ i <= off[k]
  BY <1>1, <1>2, <1>4
<1>6. off[k] = off[k - 1] + Len(seqs[k])
  BY DEF Laid, n
<1>7. i - off[k - 1] \in 1..Len(seqs[k]) /\ i = off[k - 1] + (i - off[k - 1])
  <2>1. /\ off[k - 1] \in Nat /\ Len(seqs[k]) \in Nat /\ i \in Nat
        /\ off[k - 1] < i /\ i <= off[k - 1] + Len(seqs[k])
    BY <1>1, <1>2, <1>5, <1>6
  <2> QED  BY <2>1, ShiftBack
<1> QED  BY <1>7 DEF n, Found

-----------------------------------------------------------------------------
(* The constants and the types *)

Line == Seq(STRING)

\* What the input bar may hold: the caret stands in a line, at or below the first one
\* shown.
BarType ==
  {b \in [lines : Seq(Line), row : Nat, col : Nat, scroll_top : Nat, drop : Nat,
          badge : Nat] :
     b.scroll_top <= b.row /\ b.row < Len(b.lines) /\ b.col <= Len(b.lines[b.row + 1])}

\* One or two progress lines or none, and how many rows each of them takes.
Shapes == {lines \in Seq(Nat \ {0}) : Len(lines) <= 2}

\* A terminal that is larger than the block, an input of at least one row and column,
\* and bounds that are numbers.
ConstantsOK ==
  /\ Height \in Nat /\ WrapWidth \in Nat \ {0} /\ MaxVisible \in Nat \ {0} /\ MaxDrop \in Nat
  /\ Height > MAX_PROMPT_RESERVED_ROWS
  /\ MaxRuns \in Nat /\ MaxLines \in Nat /\ MaxBuffered \in Nat 
  /\ Bars \in SUBSET BarType /\ Progress \in SUBSET Shapes

\* What may stand in the transcript, and what in the block below it.
LineType == {Blank, <<"note">>} \cup {"truncated"} \X Runs \cup {"line", "hint"} \X Runs \X Nat
BlockType ==
  {<<"border">>, <<"indicator">>, <<"footer">>, <<"spinner">>, <<"status">>, Overflow, Blank}
  \cup {"entry"} \X Nat \cup {"input"} \X Nat \X Seq(Nat) \X Nat
RowType == LineType \cup BlockType

ScreenType ==
  {s \in [history : Seq(LineType), rows : [0..(Height - 1) -> RowType],
          cursor : (0..(Height - 1)) \X Nat, caret : (0..(Height - 1)) \X Nat,
          stream_line_open : BOOLEAN, prompt : BarType, ephemeral : Shapes,
          ephemeral_count : 0..2] :
     \A r \in 0..(prompt_top_row - 1) : s.rows[r] \in LineType}

LEMMA TopRow ==
  ASSUME ConstantsOK
  PROVE  /\ prompt_top_row \in Nat /\ prompt_top_row >= 1
         /\ Height = prompt_top_row + MaxVisible + MaxDrop + 5
         /\ MAX_PROMPT_RESERVED_ROWS = MaxVisible + MaxDrop + 5
         /\ MaxVisible \in Nat /\ MaxVisible >= 1 /\ MaxDrop \in Nat
BY DEF ConstantsOK, prompt_top_row, MAX_PROMPT_RESERVED_ROWS

-----------------------------------------------------------------------------
(* The width of a line and its rows *)

LEMMA ColumnsTyped ==
  ASSUME NEW line, NEW n \in Nat, NEW positions, DOMAIN positions = 1..n, Len(positions) = n
  PROVE  Columns(line, positions) \in Nat
<1> DEFINE wide == {k \in DOMAIN positions : line[positions[k]] = "w"}
<1>1. IsFiniteSet(1..n)
  BY FS_Interval
<1>2. wide \in SUBSET (1..n)
  OBVIOUS
<1>3. IsFiniteSet(wide)
  BY <1>1, <1>2, FS_Subset
<1>4. Cardinality(wide) \in Nat
  BY <1>3, FS_CardinalityType
<1> HIDE DEF wide
<1>5. n + Cardinality(wide) \in Nat
  BY <1>4
<1> QED  BY <1>5 DEF Columns, wide

\* The positions of a line up to one of them.
LEMMA Positions ==
  ASSUME NEW n \in Nat
  PROVE  /\ [k \in 1..n |-> k] \in Seq(Nat) /\ Len([k \in 1..n |-> k]) = n
         /\ DOMAIN [k \in 1..n |-> k] = 1..n
OBVIOUS

LEMMA RoundedUp ==
  ASSUME NEW x \in Nat, NEW w \in Nat \ {0}
  PROVE  (x + w - 1) \div w \in Nat
OBVIOUS

LEMMA RowsOfLine ==
  ASSUME ConstantsOK, NEW line \in Line
  PROVE  /\ display_width(line) \in Nat
         /\ wrap_rows(line) \in Nat /\ wrap_rows(line) >= 1
<1>1. Len(line) \in Nat /\ DOMAIN line = 1..Len(line)
  BY LenProperties DEF Line
<1>2. display_width(line) \in Nat
  BY <1>1, Positions, ColumnsTyped DEF display_width
<1> DEFINE d == (display_width(line) + WrapWidth - 1) \div WrapWidth
<1>3. d \in Nat
  <2>1. WrapWidth \in Nat \ {0}
    BY DEF ConstantsOK
  <2> QED  BY <1>2, <2>1, RoundedUp
<1> HIDE DEF d
<1>4. Max({1, d}) \in Nat /\ Max({1, d}) >= 1
  BY <1>3, Greater
<1> QED  BY <1>2, <1>4 DEF wrap_rows, d

\* The rows before each line of an input, and those of all of them.
Tops(g, lines) ==
  /\ g \in [0..Len(lines) -> Nat] /\ g[0] = 0 /\ g[Len(lines)] = RowsOf(lines)
  /\ \A k \in 1..Len(lines) : g[k] = g[k - 1] + wrap_rows(lines[k])

LEMMA TopsExist ==
  ASSUME ConstantsOK, NEW lines \in Seq(Line)
  PROVE  \E g : Tops(g, lines)
<1> DEFINE n == Len(lines)
           F == [x \in (1..n) \X Nat |-> x[2] + wrap_rows(lines[x[1]])]
           Good(h) == h = [k \in 0..n |-> IF k = 0 THEN 0 ELSE h[k - 1] + wrap_rows(lines[k])]
           c == CHOOSE h : Good(h)
<1>1. n \in Nat /\ \A k \in 1..n : lines[k] \in Line
  BY LenProperties, ElementOfSeq
<1>2. RowsOf(lines) = c[n]
  BY DEF RowsOf
<1>3. F \in [(1..n) \X Nat -> Nat]
  <2> SUFFICES ASSUME NEW x \in (1..n) \X Nat PROVE x[2] + wrap_rows(lines[x[1]]) \in Nat
    OBVIOUS
  <2>1. x[1] \in 1..n /\ x[2] \in Nat
    OBVIOUS
  <2>2. wrap_rows(lines[x[1]]) \in Nat
    BY <1>1, <2>1, RowsOfLine
  <2> QED  BY <2>1, <2>2
<1>4. ASSUME NEW k \in 1..n, NEW m \in Nat PROVE F[<<k, m>>] = m + wrap_rows(lines[k])
  OBVIOUS
<1> HIDE DEF n, F
<1>5. PICK h : IsRecursion(h, Nat, 0, n, F)
  <2>1. 0 \in Nat
    OBVIOUS
  <2> QED  BY <1>1, <1>3, <2>1, RecursionExists
<1>6. /\ h \in [0..n -> Nat] /\ h[0] = 0
      /\ \A k \in 1..n : k \in 0..n /\ k - 1 \in 0..n /\ h[k] = h[k - 1] + wrap_rows(lines[k])
  <2> SUFFICES ASSUME NEW k \in 1..n
               PROVE  k \in 0..n /\ k - 1 \in 0..n /\ h[k] = h[k - 1] + wrap_rows(lines[k])
    BY <1>5 DEF IsRecursion
  <2>1. k \in 0..n /\ k - 1 \in 0..n
    BY <1>1
  <2>2. h[k] = F[<<k, h[k - 1]>>] /\ h[k - 1] \in Nat
    BY <1>5, <2>1 DEF IsRecursion
  <2> QED  BY <1>4, <2>1, <2>2
<1>7. Good(h)
  <2>1. \A k \in 0..n : h[k] = IF k = 0 THEN 0 ELSE h[k - 1] + wrap_rows(lines[k])
    <3> SUFFICES ASSUME NEW k \in 0..n, k # 0 PROVE h[k] = h[k - 1] + wrap_rows(lines[k])
      BY <1>6
    <3>1. k \in 1..n
      BY <1>1
    <3> QED  BY <1>6, <3>1
  <2> QED  BY <1>6, <2>1
<1>8. Good(c)
  <2> HIDE DEF Good
  <2> QED  BY <1>7
<1> HIDE DEF c
<1>9. c \in [0..n -> Nat] /\ c[0] = 0
  <2>1. ASSUME NEW k \in 0..n PROVE k \in {j \in 0..n : c[j] = h[j]}
    <3> DEFINE P == {j \in 0..n : c[j] = h[j]}
    <3>1. 0 \in P
      BY <1>1, <1>6, <1>8
    <3>2. ASSUME NEW j \in 1..n, j - 1 \in P PROVE j \in P
      <4>1. c[j] = c[j - 1] + wrap_rows(lines[j])
        BY <1>6, <1>8, <3>2
      <4>2. h[j] = h[j - 1] + wrap_rows(lines[j]) /\ j \in 0..n /\ c[j - 1] = h[j - 1]
        BY <1>6, <3>2
      <4> QED  BY <4>1, <4>2
    <3> HIDE DEF P
    <3> QED  BY <1>1, <3>1, <3>2, Climb DEF P
  <2>2. \A k \in 0..n : c[k] = h[k]
    BY <2>1
  <2> QED  BY <1>1, <1>6, <1>8, <2>2
<1>10. \A k \in 1..n : c[k] = c[k - 1] + wrap_rows(lines[k])
  BY <1>6, <1>8
<1> QED  BY <1>2, <1>9, <1>10 DEF Tops, n

\* The rows of the first lines of an input are those before the next one.
LEMMA RowsOfPrefix ==
  ASSUME ConstantsOK, NEW lines \in Seq(Line), NEW g, Tops(g, lines), NEW k \in 0..Len(lines)
  PROVE  RowsOf(SubSeq(lines, 1, k)) = g[k]
<1> DEFINE part == SubSeq(lines, 1, k)
<1>1. Len(lines) \in Nat
  BY LenProperties
<1>2. part \in Seq(Line) /\ Len(part) = k /\ \A j \in 1..k : part[j] = lines[j]
  BY <1>1
<1> HIDE DEF part
<1>3. PICK h : Tops(h, part)
  BY <1>2, TopsExist
<1>4. \A j \in 0..k : j \in {i \in 0..k : h[i] = g[i]}
  <2> DEFINE P == {i \in 0..k : h[i] = g[i]}
  <2>1. 0 \in P
    BY <1>3 DEF Tops
  <2>2. ASSUME NEW j \in 1..k, j - 1 \in P PROVE j \in P
    <3>1. h[j] = h[j - 1] + wrap_rows(part[j])
      BY <1>2, <1>3 DEF Tops
    <3>2. g[j] = g[j - 1] + wrap_rows(lines[j])
      BY <1>1 DEF Tops
    <3> QED  BY <1>2, <2>2, <3>1, <3>2
  <2> HIDE DEF P
  <2>3. \A j \in 1..k : j - 1 \in P => j \in P
    BY <2>2
  <2>4. k \in Nat
    BY <1>1
  <2>5. \A j \in 0..k : j \in P
    BY <2>1, <2>3, <2>4, Climb
  <2> QED  BY <2>5 DEF P
<1>5. h[k] = g[k] /\ h[k] = RowsOf(part)
  BY <1>2, <1>3, <1>4 DEF Tops
<1> QED  BY <1>5 DEF part

\* The counts grow.
LEMMA TopsGrow ==
  ASSUME ConstantsOK, NEW lines \in Seq(Line), NEW g, Tops(g, lines),
         NEW i \in 0..Len(lines), NEW k \in 0..Len(lines), i <= k
  PROVE  g[k] \in Nat /\ g[i] \in Nat /\ g[i] + (k - i) <= g[k]
<1>1. Len(lines) \in Nat /\ \A j \in 1..Len(lines) : lines[j] \in Line
  BY LenProperties, ElementOfSeq
<1>2. \A j \in 0..Len(lines) : g[j] \in Nat
  BY DEF Tops
<1> DEFINE P == {j \in 0..Len(lines) : i <= j => g[i] + (j - i) <= g[j]}
<1>3. 0 \in P
  BY <1>1, <1>2
<1>4. ASSUME NEW j \in 1..Len(lines), j - 1 \in P PROVE j \in P
  <2>1. wrap_rows(lines[j]) \in Nat /\ wrap_rows(lines[j]) >= 1
    BY <1>1, RowsOfLine
  <2>2. g[j] = g[j - 1] + wrap_rows(lines[j])
    BY DEF Tops
  <2>3. j - 1 \in 0..Len(lines) /\ j \in 0..Len(lines) /\ g[j - 1] \in Nat /\ g[i] \in Nat
    BY <1>1, <1>2
  <2>4. CASE i = j
    BY <2>3, <2>4, <1>2
  <2>5. CASE i # j
    BY <1>4, <2>1, <2>2, <2>3, <2>5
  <2> QED  BY <2>4, <2>5
<1> HIDE DEF P
<1>5. k \in P
  BY <1>1, <1>3, <1>4, Climb
<1> QED  BY <1>2, <1>5 DEF P

\* A prompt that may be shown has a row at least, and its caret is in view.
LEMMA RowsInView ==
  ASSUME ConstantsOK, NEW p \in BarType
  PROVE  /\ Shown(p) \in Seq(Line) /\ Len(Shown(p)) = Len(p.lines) - p.scroll_top
         /\ Len(Shown(p)) >= 1 /\ \A k \in 1..Len(Shown(p)) : Shown(p)[k] = p.lines[p.scroll_top + k]
         /\ RowsOf(Shown(p)) \in Nat /\ RowsOf(Shown(p)) >= 1
         /\ max_in_view(p) \in 1..MaxVisible
<1>1. /\ p.lines \in Seq(Line) /\ Len(p.lines) \in Nat
      /\ p.scroll_top \in Nat /\ p.scroll_top < Len(p.lines)
  BY LenProperties DEF BarType
<1>2. /\ Shown(p) \in Seq(Line) /\ Len(Shown(p)) = Len(p.lines) - p.scroll_top
      /\ \A k \in 1..Len(Shown(p)) : Shown(p)[k] = p.lines[p.scroll_top + k]
  <2>1. p.scroll_top \in 0..Len(p.lines)
    BY <1>1
  <2> QED  BY <1>1, <2>1, Rest DEF Shown
<1>3. Len(Shown(p)) >= 1 /\ Len(Shown(p)) \in Nat
  BY <1>1, <1>2
<1>4. PICK g : Tops(g, Shown(p))
  BY <1>2, TopsExist
<1>5. RowsOf(Shown(p)) \in Nat /\ RowsOf(Shown(p)) >= 1
  <2>1. g[0] = 0 /\ g[Len(Shown(p))] = RowsOf(Shown(p))
    BY <1>4 DEF Tops
  <2>2. 0 \in 0..Len(Shown(p)) /\ Len(Shown(p)) \in 0..Len(Shown(p))
    BY <1>3
  <2>3. g[Len(Shown(p))] \in Nat /\ g[0] + (Len(Shown(p)) - 0) <= g[Len(Shown(p))]
    BY <1>2, <1>3, <1>4, <2>2, TopsGrow
  <2> QED  BY <1>3, <2>1, <2>3
<1>6. max_in_view(p) \in 1..MaxVisible
  BY <1>5, Lesser DEF max_in_view, ConstantsOK
<1> QED  BY <1>2, <1>3, <1>5, <1>6

\* The rows of a line with one character more.
Wrapped(line, rows, k) ==
  LET current == Last(rows)
  IN IF current # <<>> /\ Columns(line, Append(current, k)) > WrapWidth
     THEN Append(rows, <<k>>)
     ELSE Front(rows) \o <<Append(current, k)>>

Fragments == {rows \in Seq(Seq(Nat)) : Len(rows) >= 1}

LEMMA WrappedTyped ==
  ASSUME NEW line, NEW rows \in Fragments, NEW k \in Nat
  PROVE  Wrapped(line, rows, k) \in Fragments
<1>1. rows \in Seq(Seq(Nat)) /\ Len(rows) \in Nat /\ Len(rows) >= 1
  BY LenProperties DEF Fragments
<1>2. Last(rows) \in Seq(Nat)
  BY <1>1, ElementOfSeq DEF Last
<1>3. Append(Last(rows), k) \in Seq(Nat) /\ <<k>> \in Seq(Nat)
  BY <1>2
<1>4. Append(rows, <<k>>) \in Fragments
  <2> DEFINE x == <<k>>
  <2>1. x \in Seq(Nat)
    BY <1>3
  <2> HIDE DEF x
  <2>2. Append(rows, x) \in Seq(Seq(Nat)) /\ Len(Append(rows, x)) = Len(rows) + 1
    BY <1>1, <2>1, AppendProperties
  <2>3. Append(rows, x) \in Fragments
    BY <1>1, <2>2 DEF Fragments
  <2> QED  BY <2>3 DEF x
<1>5. Front(rows) \o <<Append(Last(rows), k)>> \in Fragments
  <2> DEFINE x == Append(Last(rows), k)
  <2>1. x \in Seq(Nat)
    BY <1>3
  <2> HIDE DEF x
  <2>2. Len(rows) - 1 \in 0..Len(rows)
    BY <1>1
  <2>3. Front(rows) \in Seq(Seq(Nat)) /\ Len(Front(rows)) = Len(rows) - 1
    BY <1>1, <2>2, Start DEF Front
  <2>4. <<x>> \in Seq(Seq(Nat)) /\ Len(<<x>>) = 1
    BY <2>1
  <2> DEFINE y == <<x>>
  <2>5. y \in Seq(Seq(Nat)) /\ Len(y) = 1
    BY <2>4
  <2> HIDE DEF y
  <2> DEFINE z == Front(rows)
  <2>6. z \in Seq(Seq(Nat)) /\ Len(z) = Len(rows) - 1
    BY <2>3
  <2> HIDE DEF z
  <2>7. z \o y \in Seq(Seq(Nat)) /\ Len(z \o y) = Len(z) + Len(y)
    BY <2>5, <2>6, ConcatProperties
  <2>8. z \o y \in Fragments
    BY <1>1, <2>5, <2>6, <2>7 DEF Fragments
  <2> QED  BY <2>8 DEF x, y, z
<1> QED  BY <1>4, <1>5 DEF Wrapped

\* The rows of the first characters of a line.
Wrappings(g, line) ==
  /\ g \in [0..Len(line) -> Fragments] /\ g[0] = <<<<>>>> /\ g[Len(line)] = soft_wrap_line(line)
  /\ \A k \in 1..Len(line) : g[k] = Wrapped(line, g[k - 1], k)

LEMMA WrappingsExist ==
  ASSUME NEW line \in Line
  PROVE  \E g : Wrappings(g, line)
<1> DEFINE n == Len(line)
           F == [x \in (1..n) \X Fragments |-> Wrapped(line, x[2], x[1])]
           none == <<<<>>>>
           Good(h) == h = [k \in 0..n |-> IF k = 0 THEN none ELSE Wrapped(line, h[k - 1], k)]
           c == CHOOSE h : Good(h)
<1>1. n \in Nat
  BY LenProperties DEF Line
<1>2. soft_wrap_line(line) = c[n]
  BY DEF soft_wrap_line, Wrapped
<1>3. F \in [(1..n) \X Fragments -> Fragments]
  <2> SUFFICES ASSUME NEW x \in (1..n) \X Fragments PROVE Wrapped(line, x[2], x[1]) \in Fragments
    OBVIOUS
  <2>1. x[1] \in Nat /\ x[2] \in Fragments
    BY <1>1
  <2> QED  BY <2>1, WrappedTyped
<1>4. ASSUME NEW k \in 1..n, NEW m \in Fragments PROVE F[<<k, m>>] = Wrapped(line, m, k)
  OBVIOUS
<1>b. none \in Fragments
  <2>1. <<>> \in Seq(Nat)
    BY EmptySeq
  <2>2. none \in Seq(Seq(Nat)) /\ Len(none) = 1
    BY <2>1
  <2> QED  BY <2>2 DEF Fragments
<1> HIDE DEF n, F, none
<1>5. PICK h : IsRecursion(h, Fragments, none, n, F)
  BY <1>1, <1>3, <1>b, RecursionExists
<1>6. /\ h \in [0..n -> Fragments] /\ h[0] = none
      /\ \A k \in 1..n : k \in 0..n /\ k - 1 \in 0..n /\ h[k] = Wrapped(line, h[k - 1], k)
  <2> SUFFICES ASSUME NEW k \in 1..n
               PROVE  k \in 0..n /\ k - 1 \in 0..n /\ h[k] = Wrapped(line, h[k - 1], k)
    BY <1>5 DEF IsRecursion
  <2>1. k \in 0..n /\ k - 1 \in 0..n
    BY <1>1
  <2>2. h[k] = F[<<k, h[k - 1]>>] /\ h[k - 1] \in Fragments
    BY <1>5, <2>1 DEF IsRecursion
  <2> QED  BY <1>4, <2>1, <2>2
<1>7. Good(h)
  <2>1. \A k \in 0..n : h[k] = IF k = 0 THEN none ELSE Wrapped(line, h[k - 1], k)
    <3> SUFFICES ASSUME NEW k \in 0..n, k # 0 PROVE h[k] = Wrapped(line, h[k - 1], k)
      BY <1>6
    <3>1. k \in 1..n
      BY <1>1
    <3> QED  BY <1>6, <3>1
  <2>2. h = [k \in 0..n |-> h[k]]
    BY <1>6
  <2>3. [k \in 0..n |-> h[k]] = [k \in 0..n |-> IF k = 0 THEN none ELSE Wrapped(line, h[k - 1], k)]
    BY <2>1, Zenon
  <2> QED  BY <2>2, <2>3
<1>8. Good(c)
  <2> HIDE DEF Good
  <2> QED  BY <1>7
<1> HIDE DEF c
<1>9. \A k \in 0..n : k \in {j \in 0..n : c[j] = h[j]}
  <2> DEFINE P == {j \in 0..n : c[j] = h[j]}
  <2>1. 0 \in P
    BY <1>1, <1>6, <1>8
  <2>2. ASSUME NEW j \in 1..n, j - 1 \in P PROVE j \in P
    <3>0. j \in 0..n /\ j # 0
      BY <1>1
    <3>1. c[j] = Wrapped(line, c[j - 1], j)
      BY <1>8, <3>0
    <3>2. h[j] = Wrapped(line, h[j - 1], j) /\ c[j - 1] = h[j - 1]
      BY <1>6, <2>2
    <3> QED  BY <3>0, <3>1, <3>2
  <2> HIDE DEF P
  <2>3. \A j \in 1..n : j - 1 \in P => j \in P
    BY <2>2
  <2>4. \A j \in 0..n : j \in P
    BY <1>1, <2>1, <2>3, Climb
  <2> QED  BY <2>4 DEF P
<1>10. n \in 0..n
  BY <1>1
<1>11. h[n] = soft_wrap_line(line)
  BY <1>2, <1>9, <1>10
<1> QED  BY <1>6, <1>11 DEF Wrappings, n, none

LEMMA SoftWrapTyped ==
  ASSUME NEW line \in Line
  PROVE  soft_wrap_line(line) \in Fragments
<1>1. PICK g : Wrappings(g, line)
  BY WrappingsExist
<1>2. Len(line) \in 0..Len(line)
  BY LenProperties DEF Line
<1> QED  BY <1>1, <1>2 DEF Wrappings

-----------------------------------------------------------------------------
(* The block below the transcript *)

\* The rows of one line of the input, and those of all lines shown.
LineRows(p, l) ==
  [r \in DOMAIN soft_wrap_line(p.lines[l]) |->
     <<"input", l, soft_wrap_line(p.lines[l])[r], IF l = 1 /\ r = 1 THEN p.badge ELSE 0>>]
ShownRows(p) == [k \in DOMAIN Shown(p) |-> LineRows(p, p.scroll_top + k)]

LEMMA LineRowsTyped ==
  ASSUME NEW p \in BarType, NEW l \in 1..Len(p.lines)
  PROVE  /\ LineRows(p, l) \in Seq(BlockType)
         /\ Len(LineRows(p, l)) = Len(soft_wrap_line(p.lines[l]))
<1> DEFINE rows == soft_wrap_line(p.lines[l])
<1>1. p.lines[l] \in Line /\ l \in Nat /\ p.badge \in Nat
  <2>1. p.lines \in Seq(Line) /\ p.badge \in Nat
    BY DEF BarType
  <2> QED  BY <2>1, ElementOfSeq, LenProperties
<1>2. rows \in Seq(Seq(Nat))
  BY <1>1, SoftWrapTyped DEF Fragments
<1> HIDE DEF rows
<1>3. DOMAIN rows = 1..Len(rows) /\ Len(rows) \in Nat /\ \A r \in 1..Len(rows) : rows[r] \in Seq(Nat)
  BY <1>2, LenProperties, ElementOfSeq
<1> DEFINE row(r) == <<"input", l, rows[r], IF l = 1 /\ r = 1 THEN p.badge ELSE 0>>
<1>4. ASSUME NEW r \in 1..Len(rows) PROVE row(r) \in BlockType
  <2>1. rows[r] \in Seq(Nat) /\ (IF l = 1 /\ r = 1 THEN p.badge ELSE 0) \in Nat
    BY <1>1, <1>3
  <2> QED  BY <1>1, <2>1 DEF BlockType
<1>5. LineRows(p, l) = [r \in 1..Len(rows) |-> row(r)]
  BY <1>3 DEF LineRows, rows
<1> HIDE DEF row
<1>6. [r \in 1..Len(rows) |-> row(r)] \in Seq(BlockType)
  BY <1>3, <1>4, IsASeq
<1>7. Len([r \in 1..Len(rows) |-> row(r)]) = Len(rows)
  BY <1>3
<1> QED  BY <1>5, <1>6, <1>7 DEF rows

LEMMA ShownRowsTyped ==
  ASSUME ConstantsOK, NEW p \in BarType
  PROVE  /\ ShownRows(p) \in Seq(Seq(BlockType)) /\ Len(ShownRows(p)) = Len(Shown(p))
         /\ \A k \in 1..Len(Shown(p)) : /\ p.scroll_top + k \in 1..Len(p.lines)
                                        /\ ShownRows(p)[k] = LineRows(p, p.scroll_top + k)
<1>1. /\ Shown(p) \in Seq(Line) /\ Len(Shown(p)) = Len(p.lines) - p.scroll_top
      /\ DOMAIN Shown(p) = 1..Len(Shown(p)) /\ Len(Shown(p)) \in Nat
  BY RowsInView, LenProperties
<1>2. p.scroll_top \in Nat /\ Len(p.lines) \in Nat
  BY LenProperties DEF BarType
<1>3. \A k \in 1..Len(Shown(p)) : p.scroll_top + k \in 1..Len(p.lines)
  BY <1>1, <1>2
<1>4. ShownRows(p) = [k \in 1..Len(Shown(p)) |-> LineRows(p, p.scroll_top + k)]
  BY <1>1 DEF ShownRows
<1> DEFINE rows(k) == LineRows(p, p.scroll_top + k)
<1>5. \A k \in 1..Len(Shown(p)) : rows(k) \in Seq(BlockType)
  BY <1>3, LineRowsTyped
<1>6. [k \in 1..Len(Shown(p)) |-> rows(k)] \in Seq(Seq(BlockType))
  <2> HIDE DEF rows
  <2> QED  BY <1>1, <1>5, IsASeq
<1>7. Len([k \in 1..Len(Shown(p)) |-> rows(k)]) = Len(Shown(p))
  BY <1>1
<1> QED  BY <1>3, <1>4, <1>6, <1>7

\* The input has as many rows as are in view, the first ones of the lines shown.
LEMMA InputRowsTyped ==
  ASSUME ConstantsOK, NEW p \in BarType
  PROVE  /\ InputRows(p) \in Seq(BlockType) /\ Len(InputRows(p)) = max_in_view(p)
         /\ FlattenSeq(ShownRows(p)) \in Seq(BlockType)
         /\ \A i \in 1..max_in_view(p) :
              i <= Len(FlattenSeq(ShownRows(p))) => InputRows(p)[i] = FlattenSeq(ShownRows(p))[i]
<1> DEFINE a == FlattenSeq(ShownRows(p))
           b == [k \in 1..MaxVisible |-> Blank]
           m == max_in_view(p)
<1>1. a \in Seq(BlockType)
  BY ShownRowsTyped, Flattened
<1>2. b \in Seq(BlockType) /\ Len(b) = MaxVisible /\ MaxVisible \in Nat
  <2>1. MaxVisible \in Nat /\ Blank \in BlockType
    BY DEF ConstantsOK, BlockType
  <2> QED  BY <2>1
<1>3. m \in 1..MaxVisible
  BY RowsInView
<1>4. InputRows(p) = SubSeq(a \o b, 1, m)
  BY DEF InputRows, ShownRows, LineRows
<1> HIDE DEF a, b, m
<1>5. /\ a \o b \in Seq(BlockType) /\ Len(a \o b) = Len(a) + Len(b) /\ Len(a) \in Nat
      /\ \A i \in 1..(Len(a) + Len(b)) : (a \o b)[i] = IF i <= Len(a) THEN a[i] ELSE b[i - Len(a)]
  BY <1>1, <1>2, ConcatProperties, LenProperties
<1>6. m \in 0..Len(a \o b) /\ m \in Nat
  BY <1>2, <1>3, <1>5
<1>7. /\ SubSeq(a \o b, 1, m) \in Seq(BlockType) /\ Len(SubSeq(a \o b, 1, m)) = m
      /\ \A k \in 1..m : SubSeq(a \o b, 1, m)[k] = (a \o b)[k]
  BY <1>5, <1>6, Start
<1>8. ASSUME NEW i \in 1..m, i <= Len(a) PROVE SubSeq(a \o b, 1, m)[i] = a[i]
  <2>1. i \in 1..(Len(a) + Len(b))
    BY <1>2, <1>3, <1>5, <1>6
  <2> QED  BY <1>5, <1>7, <1>8, <2>1
<1> QED  BY <1>1, <1>4, <1>7, <1>8 DEF a, m

\* The badge may push what is left of the first row into another one.
LEMMA DrawnRowsTyped ==
  ASSUME ConstantsOK, NEW p \in BarType
  PROVE  /\ DrawnRows(p) \in Seq(BlockType) /\ Len(DrawnRows(p)) \in Nat
         /\ Len(DrawnRows(p)) >= max_in_view(p)
         /\ p.badge = 0 => DrawnRows(p) = InputRows(p)
<1> DEFINE rows == InputRows(p)
           rest == Tail(rows)
           m == max_in_view(p)
<1>1. rows \in Seq(BlockType) /\ Len(rows) = m /\ m \in Nat /\ m >= 1
  BY InputRowsTyped, RowsInView DEF ConstantsOK
<1>2. DrawnRows(p) = IF BadgeWraps(p) THEN <<rows[1], Overflow>> \o rest ELSE rows
  BY DEF DrawnRows
<1>3. p.badge = 0 => ~ BadgeWraps(p)
  BY DEF BadgeWraps
<1>4. Overflow \in BlockType
  BY DEF BlockType
<1> HIDE DEF rows, m
<1>5. rows # <<>>
  BY <1>1
<1>6. rest \in Seq(BlockType) /\ Len(rest) = m - 1
  BY <1>1, <1>5, HeadTailProperties
<1>7. rows[1] \in BlockType
  BY <1>1, ElementOfSeq
<1> DEFINE x == rows[1]
           y == Overflow
           z == <<x, y>>
<1>8. z \in Seq(BlockType) /\ Len(z) = 2
  <2> HIDE DEF x, y
  <2> QED  BY <1>4, <1>7 DEF x, y
<1> HIDE DEF z, rest
<1>9. z \o rest \in Seq(BlockType) /\ Len(z \o rest) = m + 1
  <2>1. z \o rest \in Seq(BlockType) /\ Len(z \o rest) = Len(z) + Len(rest)
    BY <1>6, <1>8, ConcatProperties
  <2> QED  BY <1>1, <1>6, <1>8, <2>1
<1>10. DrawnRows(p) = IF BadgeWraps(p) THEN z \o rest ELSE rows
  BY <1>2 DEF z
<1>11. CASE BadgeWraps(p)
  BY <1>1, <1>3, <1>9, <1>10, <1>11 DEF m
<1>12. CASE ~ BadgeWraps(p)
  BY <1>1, <1>10, <1>12 DEF m, rows
<1> QED  BY <1>11, <1>12

\* How many rows stand above the input in its block, how many the input takes, and all.
Above(p) == 1 + Len(Indicator(p))
InputHeight(p) == Len(DrawnRows(p))
Height_of(p) == Above(p) + InputHeight(p) + 1 + p.drop + 1

\* The block has this many rows, the input stands behind what is above, and the last
\* row is the footer.
BlockShape(p, block) ==
  /\ block \in Seq(BlockType) /\ Len(block) = Height_of(p)
  /\ \A i \in 1..InputHeight(p) : block[Above(p) + i] = DrawnRows(p)[i]
  /\ block[Height_of(p)] = <<"footer">>

LEMMA HeightOf ==
  ASSUME ConstantsOK, NEW p \in BarType
  PROVE  /\ Indicator(p) \in Seq(BlockType) /\ Len(Indicator(p)) \in 0..1
         /\ Above(p) \in 1..2 /\ p.drop \in Nat /\ max_in_view(p) \in 1..MaxVisible
         /\ MaxDrop \in Nat /\ MaxVisible \in Nat
         /\ InputHeight(p) \in Nat /\ InputHeight(p) >= max_in_view(p)
         /\ Height_of(p) \in Nat /\ Height_of(p) >= 4
<1>1. Indicator(p) \in Seq(BlockType) /\ Len(Indicator(p)) \in 0..1
  <2>1. <<>> \in Seq(BlockType) /\ Len(<<>>) = 0
    BY EmptySeq
  <2> DEFINE x == <<"indicator">>
  <2>2. x \in BlockType
    BY DEF BlockType
  <2> HIDE DEF x
  <2>3. <<x>> \in Seq(BlockType) /\ Len(<<x>>) = 1
    BY <2>2
  <2>4. Indicator(p) = IF show_indicator(p) THEN <<x>> ELSE <<>>
    BY DEF Indicator, x
  <2>5. CASE show_indicator(p)
    BY <2>3, <2>4, <2>5
  <2>6. CASE ~ show_indicator(p)
    BY <2>1, <2>4, <2>6
  <2> QED  BY <2>5, <2>6
<1>2. p.drop \in Nat
  BY DEF BarType
<1>3. max_in_view(p) \in 1..MaxVisible
  BY RowsInView
<1>4. MaxDrop \in Nat /\ MaxVisible \in Nat
  BY DEF ConstantsOK
<1>5. Above(p) \in 1..2
  <2> DEFINE m == Len(Indicator(p))
  <2>1. m \in 0..1
    BY <1>1
  <2>2. Above(p) = 1 + m
    BY DEF Above
  <2> HIDE DEF m
  <2> QED  BY <2>1, <2>2
<1>6. InputHeight(p) \in Nat /\ InputHeight(p) >= max_in_view(p)
  BY DrawnRowsTyped DEF InputHeight
<1>7. Height_of(p) \in Nat /\ Height_of(p) >= 4
  BY <1>2, <1>3, <1>4, <1>5, <1>6 DEF Height_of
<1> QED  BY <1>1, <1>2, <1>3, <1>4, <1>5, <1>6, <1>7

\* One sequence behind another.
Concat(t, s1, s2, S) ==
  /\ t \in Seq(S) /\ Len(t) = Len(s1) + Len(s2) /\ Len(s1) \in Nat /\ Len(s2) \in Nat
  /\ \A i \in 1..Len(s1) : t[i] = s1[i]
  /\ \A i \in 1..Len(s2) : t[Len(s1) + i] = s2[i]

LEMMA Concatenated ==
  ASSUME NEW S, NEW s1 \in Seq(S), NEW s2 \in Seq(S)
  PROVE  Concat(s1 \o s2, s1, s2, S)
<1>1. /\ s1 \o s2 \in Seq(S) /\ Len(s1 \o s2) = Len(s1) + Len(s2)
      /\ \A i \in 1..(Len(s1) + Len(s2)) :
           (s1 \o s2)[i] = IF i <= Len(s1) THEN s1[i] ELSE s2[i - Len(s1)]
  BY ConcatProperties
<1>2. Len(s1) \in Nat /\ Len(s2) \in Nat
  BY LenProperties
<1> DEFINE t == s1 \o s2
           m == Len(s1)
           n == Len(s2)
<1> HIDE DEF t, m, n
<1>3. /\ t \in Seq(S) /\ Len(t) = m + n /\ m \in Nat /\ n \in Nat
      /\ \A i \in 1..(m + n) : t[i] = IF i <= m THEN s1[i] ELSE s2[i - m]
  BY <1>1, <1>2 DEF t, m, n
<1>4. \A i \in 1..m : t[i] = s1[i]
  BY <1>3
<1>5. ASSUME NEW i \in 1..n PROVE t[m + i] = s2[i]
  <2>1. m + i \in 1..(m + n) /\ ~ (m + i <= m) /\ m + i - m = i
    BY <1>3
  <2> QED  BY <1>3, <2>1
<1> QED  BY <1>3, <1>4, <1>5 DEF Concat, t, m, n

LEMMA PromptBlockShape ==
  ASSUME ConstantsOK, NEW p \in BarType
  PROVE  BlockShape(p, PromptBlock(p))
<1> DEFINE border == <<"border">>
           footer == <<"footer">>
           a == <<border>>
           b == Indicator(p)
           c == DrawnRows(p)
           f == Entries(p)
           g == <<footer>>
           ab == a \o b
           abc == ab \o c
           abca == abc \o a
           abcaf == abca \o f
           all == abcaf \o g
<1>1. border \in BlockType /\ footer \in BlockType
  BY DEF BlockType
<1>2. f \in Seq(BlockType) /\ Len(f) = p.drop
  <2>1. p.drop \in Nat
    BY HeightOf
  <2>2. \A k \in 1..p.drop : <<"entry", k>> \in BlockType
    BY <2>1 DEF BlockType
  <2> DEFINE e(k) == <<"entry", k>>
  <2> HIDE DEF e
  <2>3. \A k \in 1..p.drop : e(k) \in BlockType
    BY <2>2 DEF e
  <2>4. [k \in 1..p.drop |-> e(k)] \in Seq(BlockType)
    BY <2>1, <2>3, IsASeq
  <2>5. Len([k \in 1..p.drop |-> e(k)]) = p.drop
    BY <2>1
  <2>6. f = [k \in 1..p.drop |-> e(k)]
    BY DEF Entries, e
  <2> QED  BY <2>4, <2>5, <2>6
<1>3. PromptBlock(p) = all
  BY DEF PromptBlock
<1> HIDE DEF border, footer
<1>4. a \in Seq(BlockType) /\ Len(a) = 1 /\ g \in Seq(BlockType) /\ Len(g) = 1 /\ g[1] = footer
  BY <1>1
<1> HIDE DEF a, f, g
<1>5. b \in Seq(BlockType) /\ Len(b) \in 0..1 /\ Above(p) = 1 + Len(b)
  BY HeightOf DEF Above
<1>6. c \in Seq(BlockType) /\ Len(c) = InputHeight(p)
  BY DrawnRowsTyped DEF InputHeight
<1> HIDE DEF b, c
<1>7. Concat(ab, a, b, BlockType)
  BY <1>4, <1>5, Concatenated
<1> HIDE DEF ab
<1>8. Concat(abc, ab, c, BlockType)
  <2>1. ab \in Seq(BlockType)
    BY <1>7 DEF Concat
  <2> QED  BY <1>6, <2>1, Concatenated
<1> HIDE DEF abc
<1>9. Concat(abca, abc, a, BlockType)
  <2>1. abc \in Seq(BlockType)
    BY <1>8 DEF Concat
  <2> QED  BY <1>4, <2>1, Concatenated
<1> HIDE DEF abca
<1>10. Concat(abcaf, abca, f, BlockType)
  <2>1. abca \in Seq(BlockType)
    BY <1>9 DEF Concat
  <2> QED  BY <1>2, <2>1, Concatenated
<1> HIDE DEF abcaf
<1>11. Concat(all, abcaf, g, BlockType)
  <2>1. abcaf \in Seq(BlockType)
    BY <1>10 DEF Concat
  <2> QED  BY <1>4, <2>1, Concatenated
<1> HIDE DEF all
<1>12. /\ Len(ab) = Above(p) /\ Len(abc) = Above(p) + InputHeight(p)
       /\ Len(abca) = Above(p) + InputHeight(p) + 1
       /\ Len(abcaf) = Above(p) + InputHeight(p) + 1 + p.drop
       /\ Len(all) = Height_of(p) /\ Height_of(p) = Len(abcaf) + 1
  BY <1>2, <1>4, <1>5, <1>6, <1>7, <1>8, <1>9, <1>10, <1>11 DEF Concat, Height_of
<1>13. ASSUME NEW i \in 1..InputHeight(p) PROVE all[Above(p) + i] = c[i]
  <2> DEFINE j == Above(p) + i
  <2> DEFINE above == Above(p)
             view == InputHeight(p)
  <2>0. view \in Nat /\ above \in Nat /\ above >= 1 /\ p.drop \in Nat
    BY HeightOf
  <2>1. /\ j \in 1..Len(abc) /\ j \in 1..Len(abca) /\ j \in 1..Len(abcaf) /\ j = Len(ab) + i
        /\ i \in 1..Len(c)
    <3>1. /\ Len(ab) = above /\ Len(abc) = above + view /\ Len(abca) = above + view + 1
          /\ Len(abcaf) = above + view + 1 + p.drop /\ i \in 1..view /\ Len(c) = view
          /\ j = above + i
      BY <1>6, <1>12
    <3> HIDE DEF above, view, j
    <3> QED  BY <2>0, <3>1
  <2> HIDE DEF j
  <2>2. all[j] = abcaf[j]
    BY <1>11, <2>1 DEF Concat
  <2>3. abcaf[j] = abca[j]
    BY <1>10, <2>1 DEF Concat
  <2>4. abca[j] = abc[j]
    BY <1>9, <2>1 DEF Concat
  <2>5. abc[j] = c[i]
    BY <1>8, <2>1 DEF Concat
  <2> QED  BY <2>2, <2>3, <2>4, <2>5 DEF j
<1>14. all[Height_of(p)] = footer
  <2>1. 1 \in 1..Len(g)
    BY <1>4
  <2>2. all[Len(abcaf) + 1] = g[1]
    BY <1>11, <2>1 DEF Concat
  <2> QED  BY <1>4, <1>12, <2>2
<1>15. all \in Seq(BlockType)
  BY <1>11 DEF Concat
<1> QED  BY <1>3, <1>12, <1>13, <1>14, <1>15 DEF BlockShape, c, footer

\* The progress lines take a row each, unless one of them wraps.
LEMMA ProgressLineTyped ==
  ASSUME NEW lines \in Shapes, NEW k \in 1..2, NEW name \in {"spinner", "status"}
  PROVE  /\ ProgressLine(lines, k, name) \in Seq(BlockType)
         /\ Len(ProgressLine(lines, k, name)) = IF k <= Len(lines) THEN lines[k] ELSE 0
<1> DEFINE x == <<name>>
           y == Overflow
<1>1. x \in BlockType /\ y \in BlockType
  BY DEF BlockType
<1>2. lines \in Seq(Nat \ {0}) /\ Len(lines) \in Nat
  BY DEF Shapes
<1>3. ProgressLine(lines, k, name) =
        IF k <= Len(lines) THEN [r \in 1..lines[k] |-> IF r = 1 THEN x ELSE y] ELSE <<>>
  BY DEF ProgressLine
<1> HIDE DEF x, y
<1>4. CASE k <= Len(lines)
  <2>1. lines[k] \in Nat
    BY <1>2, <1>4, ElementOfSeq
  <2> DEFINE n == lines[k]
             e(r) == IF r = 1 THEN x ELSE y
  <2>2. \A r \in 1..n : e(r) \in BlockType
    BY <1>1
  <2>3. ProgressLine(lines, k, name) = [r \in 1..n |-> e(r)]
    BY <1>3, <1>4
  <2> HIDE DEF n, e
  <2>4. n \in Nat
    BY <2>1 DEF n
  <2>5. [r \in 1..n |-> e(r)] \in Seq(BlockType)
    BY <2>2, <2>4, IsASeq
  <2>6. Len([r \in 1..n |-> e(r)]) = n
    BY <2>4
  <2> QED  BY <1>4, <2>3, <2>5, <2>6 DEF n
<1>5. CASE ~ (k <= Len(lines))
  BY <1>3, <1>5, EmptySeq
<1> QED  BY <1>4, <1>5

LEMMA EphemeralTyped ==
  ASSUME NEW lines \in Shapes
  PROVE  /\ Ephemeral(lines) \in Seq(BlockType) /\ Len(Ephemeral(lines)) \in Nat
         /\ (\A k \in DOMAIN lines : lines[k] <= 1) => Len(Ephemeral(lines)) = Len(lines)
         /\ Len(lines) \in 0..2
<1> DEFINE a == ProgressLine(lines, 1, "spinner")
           b == ProgressLine(lines, 2, "status")
           n == Len(lines)
<1>1. /\ lines \in Seq(Nat \ {0}) /\ n \in 0..2 /\ DOMAIN lines = 1..n
      /\ \A k \in 1..n : lines[k] \in Nat \ {0}
  <2>1. lines \in Seq(Nat \ {0}) /\ n <= 2
    BY DEF Shapes
  <2>2. n \in Nat /\ DOMAIN lines = 1..n
    BY <2>1, LenProperties
  <2>3. \A k \in 1..n : lines[k] \in Nat \ {0}
    BY <2>1, ElementOfSeq
  <2> QED  BY <2>1, <2>2, <2>3
<1>2. /\ a \in Seq(BlockType) /\ Len(a) = IF 1 <= n THEN lines[1] ELSE 0
      /\ b \in Seq(BlockType) /\ Len(b) = IF 2 <= n THEN lines[2] ELSE 0
  BY ProgressLineTyped
<1>3. Ephemeral(lines) = a \o b
  BY DEF Ephemeral
<1> HIDE DEF a, b, n
<1>4. a \o b \in Seq(BlockType) /\ Len(a \o b) = Len(a) + Len(b)
  BY <1>2, ConcatProperties
<1>5. Len(a \o b) \in Nat
  BY <1>2, <1>4, LenProperties
<1>6. ASSUME \A k \in DOMAIN lines : lines[k] <= 1 PROVE Len(a) + Len(b) = n
  <2>1. \A k \in 1..n : lines[k] = 1
    BY <1>1, <1>6
  <2> QED  BY <1>1, <1>2, <2>1
<1> QED  BY <1>1, <1>3, <1>4, <1>5, <1>6 DEF n

\* The block with the progress lines shown.
Block(lines, p) == Ephemeral(lines) \o PromptBlock(p)
ProgressHeight(lines) == Len(Ephemeral(lines))

LEMMA BlockShown ==
  ASSUME ConstantsOK, NEW p \in BarType, NEW lines \in Shapes
  PROVE  /\ Block(lines, p) \in Seq(BlockType)
         /\ Len(Block(lines, p)) = ProgressHeight(lines) + Height_of(p)
         /\ \A i \in 1..InputHeight(p) :
              Block(lines, p)[ProgressHeight(lines) + Above(p) + i] = DrawnRows(p)[i]
         /\ Block(lines, p)[ProgressHeight(lines) + Height_of(p)] = <<"footer">>
         /\ ProgressHeight(lines) \in Nat
<1> DEFINE a == Ephemeral(lines)
           b == PromptBlock(p)
           n == ProgressHeight(lines)
           footer == <<"footer">>
<1>1. a \in Seq(BlockType) /\ Len(a) = n /\ n \in Nat
  BY EphemeralTyped DEF ProgressHeight
<1>2. BlockShape(p, b)
  BY PromptBlockShape
<1> HIDE DEF a, b, n, footer
<1>3. /\ b \in Seq(BlockType) /\ Len(b) = Height_of(p) /\ b[Height_of(p)] = footer
      /\ \A i \in 1..InputHeight(p) : b[Above(p) + i] = DrawnRows(p)[i]
  BY <1>2 DEF BlockShape, footer
<1>4. Concat(a \o b, a, b, BlockType)
  BY <1>1, <1>3, Concatenated
<1> DEFINE t == a \o b
<1> HIDE DEF t
<1>5. Concat(t, a, b, BlockType)
  BY <1>4 DEF t
<1>6. t \in Seq(BlockType) /\ Len(t) = n + Height_of(p)
  BY <1>1, <1>3, <1>5 DEF Concat
<1>h. /\ Height_of(p) \in Nat /\ Height_of(p) >= 1 /\ InputHeight(p) \in Nat /\ Above(p) \in Nat
      /\ p.drop \in Nat /\ Height_of(p) = Above(p) + InputHeight(p) + 1 + p.drop + 1
  <2>1. /\ Above(p) \in 1..2 /\ p.drop \in Nat /\ InputHeight(p) \in Nat
        /\ Height_of(p) \in Nat /\ Height_of(p) >= 4
    BY HeightOf
  <2>2. Height_of(p) = Above(p) + InputHeight(p) + 1 + p.drop + 1
    BY DEF Height_of
  <2> QED  BY <2>1, <2>2
<1>7. ASSUME NEW i \in 1..InputHeight(p) PROVE t[n + Above(p) + i] = DrawnRows(p)[i]
  <2>1. Above(p) + i \in 1..Len(b) /\ Len(a) + (Above(p) + i) = n + Above(p) + i
    BY <1>1, <1>3, <1>h
  <2>2. t[Len(a) + (Above(p) + i)] = b[Above(p) + i]
    BY <1>5, <2>1 DEF Concat
  <2> QED  BY <1>3, <2>1, <2>2
<1>8. t[n + Height_of(p)] = footer
  <2>1. Height_of(p) \in 1..Len(b)
    BY <1>3, <1>h
  <2>2. t[Len(a) + Height_of(p)] = b[Height_of(p)]
    BY <1>5, <2>1 DEF Concat
  <2> QED  BY <1>1, <1>3, <2>2
<1> QED  BY <1>1, <1>6, <1>7, <1>8 DEF Block, t, a, b, n, footer

-----------------------------------------------------------------------------
(* The terminal *)

LEMMA CaretTyped ==
  ASSUME ConstantsOK, NEW p \in BarType
  PROVE  visible_cursor_position(p)[1] \in Nat /\ visible_cursor_position(p)[2] \in Nat
<1> DEFINE line == p.lines[p.row + 1]
           before == Columns(line, [k \in 1..p.col |-> k])
           above == RowsOf(SubSeq(p.lines, p.scroll_top + 1, p.row))
<1>1. /\ p.lines \in Seq(Line) /\ Len(p.lines) \in Nat /\ p.row \in Nat /\ p.col \in Nat
      /\ p.scroll_top \in Nat /\ p.scroll_top <= p.row /\ p.row < Len(p.lines)
  BY LenProperties DEF BarType
<1>2. line \in Line
  <2>1. p.row + 1 \in 1..Len(p.lines)
    BY <1>1
  <2> QED  BY <1>1, <2>1, ElementOfSeq
<1>3. before \in Nat
  BY <1>1, Positions, ColumnsTyped
<1>4. above \in Nat
  <2> DEFINE part == SubSeq(p.lines, p.scroll_top + 1, p.row)
  <2>1. part \in Seq(Line)
    <3>1. \A i \in (p.scroll_top + 1)..p.row : p.lines[i] \in Line
      <4> SUFFICES ASSUME NEW i \in (p.scroll_top + 1)..p.row PROVE p.lines[i] \in Line
        OBVIOUS
      <4>1. i \in 1..Len(p.lines)
        BY <1>1
      <4> QED  BY <1>1, <4>1, ElementOfSeq
    <3>2. p.scroll_top + 1 \in Int /\ p.row \in Int
      BY <1>1
    <3> QED  BY <3>1, <3>2, SubSeqProperties
  <2> HIDE DEF part
  <2>2. PICK g : Tops(g, part)
    BY <2>1, TopsExist
  <2>3. Len(part) \in 0..Len(part)
    BY <2>1, LenProperties
  <2>4. RowsOf(part) \in Nat
    BY <2>2, <2>3 DEF Tops
  <2> QED  BY <2>4 DEF part
<1>5. visible_cursor_position(p) =
        <<above + Min({before \div WrapWidth, wrap_rows(line) - 1}), before % WrapWidth>>
  BY DEF visible_cursor_position
<1> HIDE DEF line, before, above
<1>6. before \div WrapWidth \in Nat /\ before % WrapWidth \in Nat /\ wrap_rows(line) - 1 \in Nat
  BY <1>2, <1>3, RowsOfLine DEF ConstantsOK
<1>7. Min({before \div WrapWidth, wrap_rows(line) - 1}) \in Nat
  BY <1>6, Lesser
<1> DEFINE m == Min({before \div WrapWidth, wrap_rows(line) - 1})
           c == before % WrapWidth
<1> HIDE DEF m, c
<1>8. above + m \in Nat /\ c \in Nat /\ visible_cursor_position(p) = <<above + m, c>>
  BY <1>4, <1>5, <1>6, <1>7 DEF m, c
<1> QED  BY <1>8

\* Screens whose cursor stands in the block.
Below == {s \in ScreenType : s.cursor[1] >= prompt_top_row}

\* Two screens that differ in their rows and cursors only.
SameBut(t, s) ==
  /\ t.history = s.history /\ t.caret = s.caret /\ t.stream_line_open = s.stream_line_open
  /\ t.prompt = s.prompt /\ t.ephemeral = s.ephemeral /\ t.ephemeral_count = s.ephemeral_count

LEMMA WriteBelow ==
  ASSUME ConstantsOK, NEW s \in Below, NEW line \in BlockType
  PROVE  /\ Write(s, line) \in Below /\ SameBut(Write(s, line), s)
         /\ Write(s, line).cursor = s.cursor
         /\ \A r \in 0..(Height - 1) :
              Write(s, line).rows[r] = IF r = s.cursor[1] THEN line ELSE s.rows[r]
<1> DEFINE at == s.cursor[1]
           rows == [s.rows EXCEPT ![at] = line]
           t == Write(s, line)
<1>1. /\ s \in ScreenType /\ s.rows \in [0..(Height - 1) -> RowType]
      /\ s.cursor \in (0..(Height - 1)) \X Nat
      /\ at \in 0..(Height - 1) /\ at >= prompt_top_row
      /\ \A r \in 0..(prompt_top_row - 1) : s.rows[r] \in LineType
  BY DEF Below, ScreenType
<1>2. t = [s EXCEPT !.rows = rows]
  BY DEF Write
<1> HIDE DEF at, t
<1>3. prompt_top_row \in Nat /\ line \in RowType
  BY TopRow DEF RowType
<1>4. /\ rows \in [0..(Height - 1) -> RowType]
      /\ \A r \in 0..(Height - 1) : rows[r] = IF r = at THEN line ELSE s.rows[r]
  BY <1>1, <1>3
<1> HIDE DEF rows
<1>5. \A r \in 0..(prompt_top_row - 1) : rows[r] \in LineType
  <2> SUFFICES ASSUME NEW r \in 0..(prompt_top_row - 1) PROVE rows[r] \in LineType
    OBVIOUS
  <2>1. r # at /\ r \in 0..(Height - 1)
    BY <1>1, <1>3, TopRow
  <2> QED  BY <1>1, <1>4, <2>1
<1>6. /\ t.rows = rows /\ t.cursor = s.cursor /\ t.history = s.history /\ t.caret = s.caret
      /\ t.stream_line_open = s.stream_line_open
      /\ t.prompt = s.prompt /\ t.ephemeral = s.ephemeral /\ t.ephemeral_count = s.ephemeral_count
  BY <1>1, <1>2 DEF ScreenType
<1>7. t \in ScreenType
  BY <1>1, <1>2, <1>4, <1>5 DEF ScreenType
<1>8. t \in Below
  BY <1>1, <1>6, <1>7 DEF Below, at
<1> QED  BY <1>4, <1>6, <1>8 DEF SameBut, t, at

LEMMA FeedBelow ==
  ASSUME ConstantsOK, NEW s \in Below
  PROVE  /\ LineFeed(s) \in Below /\ SameBut(LineFeed(s), s) /\ LineFeed(s).rows = s.rows
         /\ LineFeed(s).cursor[1] = IF s.cursor[1] < Height - 1 THEN s.cursor[1] + 1 ELSE Height - 1
<1> DEFINE at == s.cursor[1]
           next == Min({at + 1, Height - 1})
           t == LineFeed(s)
<1>1. /\ s \in ScreenType /\ s.cursor \in (0..(Height - 1)) \X Nat
      /\ at \in 0..(Height - 1) /\ at >= prompt_top_row
  BY DEF Below, ScreenType
<1>2. prompt_top_row \in Nat /\ Height \in Nat /\ Height >= 1
  BY TopRow
<1>3. t = [s EXCEPT !.cursor = <<next, 0>>]
  BY <1>1, <1>2 DEF LineFeed
<1> HIDE DEF at
<1>4. next = (IF at < Height - 1 THEN at + 1 ELSE Height - 1)
  <2>1. at + 1 \in Nat /\ Height - 1 \in Nat
    BY <1>1, <1>2
  <2> QED  BY <1>1, <1>2, <2>1, Lesser
<1>5. next \in 0..(Height - 1) /\ next >= prompt_top_row
  BY <1>1, <1>2, <1>4
<1> HIDE DEF next, t
<1>6. <<next, 0>> \in (0..(Height - 1)) \X Nat
  BY <1>5
<1> DEFINE c == <<next, 0>>
<1>7. c \in (0..(Height - 1)) \X Nat /\ c[1] = next /\ t = [s EXCEPT !.cursor = c]
  BY <1>3, <1>6
<1> HIDE DEF c
<1>8. /\ t.rows = s.rows /\ t.cursor = c /\ t.history = s.history /\ t.caret = s.caret
      /\ t.stream_line_open = s.stream_line_open
      /\ t.prompt = s.prompt /\ t.ephemeral = s.ephemeral /\ t.ephemeral_count = s.ephemeral_count
  BY <1>1, <1>7 DEF ScreenType
<1>9. t \in ScreenType
  BY <1>1, <1>7 DEF ScreenType
<1>10. t \in Below
  BY <1>5, <1>7, <1>8, <1>9 DEF Below
<1> QED  BY <1>4, <1>7, <1>8, <1>10 DEF SameBut, t, at

\* The first k lines of a block stand below the transcript; a line that does not fit
\* takes the last row.
Written(t, s, lines, k) ==
  /\ t \in Below /\ SameBut(t, s)
  /\ t.cursor[1] = IF prompt_top_row + k - 1 < Height - 1 THEN prompt_top_row + k - 1
                   ELSE Height - 1
  /\ \A r \in 0..(Height - 1) :
       t.rows[r] = IF r < prompt_top_row THEN s.rows[r]
                   ELSE IF r = Height - 1 /\ prompt_top_row + k - 1 >= Height - 1 THEN lines[k]
                   ELSE IF r - prompt_top_row + 1 <= k THEN lines[r - prompt_top_row + 1]
                   ELSE s.rows[r]

\* What is written next.
WriteNext(x, line, k) == IF k = 1 THEN Write(x, line) ELSE Write(LineFeed(x), line)

LEMMA WriteNextTyped ==
  ASSUME ConstantsOK, NEW x \in Below, NEW line \in BlockType, NEW k \in Nat
  PROVE  WriteNext(x, line, k) \in Below
<1>1. LineFeed(x) \in Below
  BY FeedBelow
<1>2. Write(x, line) \in Below /\ Write(LineFeed(x), line) \in Below
  BY <1>1, WriteBelow
<1> QED  BY <1>2 DEF WriteNext

LEMMA WriteFirst ==
  ASSUME ConstantsOK, NEW s \in Below, s.cursor[1] = prompt_top_row,
         NEW lines \in Seq(BlockType), Len(lines) >= 1
  PROVE  Written(WriteNext(s, lines[1], 1), s, lines, 1)
<1> DEFINE t == Write(s, lines[1])
<1>0. Len(lines) \in Nat
  BY LenProperties
<1>1. lines[1] \in BlockType
  BY <1>0, ElementOfSeq
<1>2. /\ t \in Below /\ SameBut(t, s) /\ t.cursor = s.cursor
      /\ \A r \in 0..(Height - 1) : t.rows[r] = IF r = s.cursor[1] THEN lines[1] ELSE s.rows[r]
  BY <1>1, WriteBelow
<1>3. WriteNext(s, lines[1], 1) = t
  BY DEF WriteNext
<1> HIDE DEF t
<1>4. prompt_top_row \in Nat /\ Height \in Nat /\ prompt_top_row < Height - 1
  BY TopRow
<1>5. ASSUME NEW r \in 0..(Height - 1)
      PROVE  t.rows[r] = IF r < prompt_top_row THEN s.rows[r]
                   ELSE IF r = Height - 1 /\ prompt_top_row + 1 - 1 >= Height - 1 THEN lines[1]
                   ELSE IF r - prompt_top_row + 1 <= 1 THEN lines[r - prompt_top_row + 1]
                   ELSE s.rows[r]
  <2>1. t.rows[r] = IF r = prompt_top_row THEN lines[1] ELSE s.rows[r]
    BY <1>2
  <2>2. CASE r = prompt_top_row
    BY <1>4, <2>1, <2>2
  <2>3. CASE r # prompt_top_row
    BY <1>4, <2>1, <2>3
  <2> QED  BY <2>2, <2>3
<1>6. t.cursor[1] = IF prompt_top_row + 1 - 1 < Height - 1 THEN prompt_top_row + 1 - 1 ELSE Height - 1
  BY <1>2, <1>4
<1> QED  BY <1>2, <1>3, <1>5, <1>6 DEF Written

LEMMA WriteLater ==
  ASSUME ConstantsOK, NEW s \in Below, NEW lines \in Seq(BlockType),
         NEW k \in 2..Len(lines), NEW x, Written(x, s, lines, k - 1)
  PROVE  Written(WriteNext(x, lines[k], k), s, lines, k)
<1> DEFINE y == LineFeed(x)
           t == Write(y, lines[k])
           top == prompt_top_row
           last == Height - 1
<1>0. k \in Nat /\ k >= 2 /\ Len(lines) \in Nat /\ k \in 1..Len(lines)
  BY LenProperties
<1>1. lines[k] \in BlockType
  BY <1>0, ElementOfSeq
<1>2. WriteNext(x, lines[k], k) = t
  BY <1>0 DEF WriteNext
<1>3. top \in Nat /\ last \in Nat /\ top < last
  BY TopRow
<1>4. /\ x \in Below /\ SameBut(x, s)
      /\ x.cursor[1] = IF top + (k - 1) - 1 < last THEN top + (k - 1) - 1 ELSE last
      /\ \A r \in 0..last :
           x.rows[r] = IF r < top THEN s.rows[r]
                       ELSE IF r = last /\ top + (k - 1) - 1 >= last THEN lines[k - 1]
                       ELSE IF r - top + 1 <= k - 1 THEN lines[r - top + 1]
                       ELSE s.rows[r]
  BY DEF Written
<1>5. /\ y \in Below /\ SameBut(y, x) /\ y.rows = x.rows
      /\ y.cursor[1] = IF x.cursor[1] < last THEN x.cursor[1] + 1 ELSE last
  BY <1>4, FeedBelow
<1> HIDE DEF y
<1>6. /\ t \in Below /\ SameBut(t, y) /\ t.cursor = y.cursor
      /\ \A r \in 0..last : t.rows[r] = IF r = y.cursor[1] THEN lines[k] ELSE y.rows[r]
  BY <1>1, <1>5, WriteBelow
<1> HIDE DEF t
<1>7. SameBut(t, s)
  BY <1>4, <1>5, <1>6 DEF SameBut
<1>8. y.cursor[1] = IF top + k - 1 < last THEN top + k - 1 ELSE last
  <2>1. CASE top + (k - 1) - 1 < last
    <3>1. x.cursor[1] = top + (k - 1) - 1
      BY <1>4, <2>1
    <3> HIDE DEF top, last
    <3> QED  BY <1>0, <1>3, <1>5, <2>1, <3>1
  <2>2. CASE ~ (top + (k - 1) - 1 < last)
    <3>1. x.cursor[1] = last
      BY <1>4, <2>2
    <3> HIDE DEF top, last
    <3> QED  BY <1>0, <1>3, <1>5, <2>2, <3>1
  <2> QED  BY <2>1, <2>2
<1>9. ASSUME NEW r \in 0..last
      PROVE  t.rows[r] = IF r < top THEN s.rows[r]
                         ELSE IF r = last /\ top + k - 1 >= last THEN lines[k]
                         ELSE IF r - top + 1 <= k THEN lines[r - top + 1]
                         ELSE s.rows[r]
  <2>1. t.rows[r] = IF r = y.cursor[1] THEN lines[k] ELSE x.rows[r]
    BY <1>5, <1>6
  <2>2. x.rows[r] = IF r < top THEN s.rows[r]
                    ELSE IF r = last /\ top + (k - 1) - 1 >= last THEN lines[k - 1]
                    ELSE IF r - top + 1 <= k - 1 THEN lines[r - top + 1]
                    ELSE s.rows[r]
    BY <1>4
  <2> HIDE DEF top, last
  <2>3. CASE r = y.cursor[1]
    <3>1. t.rows[r] = lines[k]
      BY <2>1, <2>3
    <3>2. CASE top + k - 1 < last
      <4>1. r - top + 1 = k /\ ~ (r < top) /\ ~ (r = last)
        BY <1>0, <1>3, <1>8, <2>3, <3>2
      <4> QED  BY <1>0, <3>1, <4>1
    <3>3. CASE ~ (top + k - 1 < last)
      <4>1. r = last /\ ~ (r < top) /\ top + k - 1 >= last
        BY <1>0, <1>3, <1>8, <2>3, <3>3
      <4> QED  BY <3>1, <4>1
    <3> QED  BY <3>2, <3>3
  <2>4. CASE r # y.cursor[1]
    <3>1. t.rows[r] = x.rows[r]
      BY <2>1, <2>4
    <3>2. CASE r < top
      BY <2>2, <3>1, <3>2
    <3>3. CASE ~ (r < top)
      <4>1. ~ (r = last /\ top + k - 1 >= last)
        BY <1>0, <1>3, <1>8, <2>4
      <4>2. ~ (r = last /\ top + (k - 1) - 1 >= last)
        BY <1>0, <1>3, <4>1
      <4>3. (r - top + 1 <= k) <=> (r - top + 1 <= k - 1)
        BY <1>0, <1>3, <1>8, <2>4, <3>3
      <4> QED  BY <2>2, <3>1, <3>3, <4>1, <4>2, <4>3
    <3> QED  BY <3>2, <3>3
  <2> QED  BY <2>3, <2>4
<1> QED  BY <1>2, <1>6, <1>7, <1>8, <1>9 DEF Written

LEMMA LinesWritten ==
  ASSUME ConstantsOK, NEW s \in Below, s.cursor[1] = prompt_top_row,
         NEW lines \in Seq(BlockType), Len(lines) >= 1
  PROVE  Written(WriteLines(s, lines), s, lines, Len(lines))
<1> DEFINE n == Len(lines)
           F == [x \in (1..n) \X Below |-> WriteNext(x[2], lines[x[1]], x[1])]
           Good(h) == h = [k \in 1..n |-> IF k = 1 THEN Write(s, lines[1])
                                          ELSE Write(LineFeed(h[k - 1]), lines[k])]
           c == CHOOSE h : Good(h)
<1>1. n \in Nat /\ n >= 1 /\ \A k \in 1..n : lines[k] \in BlockType
  BY LenProperties, ElementOfSeq
<1>2. WriteLines(s, lines) = c[n]
  BY DEF WriteLines
<1>3. F \in [(1..n) \X Below -> Below]
  <2> SUFFICES ASSUME NEW x \in (1..n) \X Below PROVE WriteNext(x[2], lines[x[1]], x[1]) \in Below
    OBVIOUS
  <2>1. x[1] \in 1..n /\ x[2] \in Below
    OBVIOUS
  <2>2. x[1] \in Nat /\ lines[x[1]] \in BlockType
    BY <1>1, <2>1
  <2> QED  BY <2>1, <2>2, WriteNextTyped
<1>4. ASSUME NEW k \in 1..n, NEW x \in Below PROVE F[<<k, x>>] = WriteNext(x, lines[k], k)
  OBVIOUS
<1> HIDE DEF n, F
<1>5. PICK h : IsRecursion(h, Below, s, n, F)
  BY <1>1, <1>3, RecursionExists
<1>6. /\ h[0] = s
      /\ \A k \in 1..n : k - 1 \in 0..n /\ h[k] = WriteNext(h[k - 1], lines[k], k)
  <2> SUFFICES ASSUME NEW k \in 1..n
               PROVE  k - 1 \in 0..n /\ h[k] = WriteNext(h[k - 1], lines[k], k)
    BY <1>5 DEF IsRecursion
  <2>1. k - 1 \in 0..n
    BY <1>1
  <2>2. h[k] = F[<<k, h[k - 1]>>] /\ h[k - 1] \in Below
    BY <1>5, <2>1 DEF IsRecursion
  <2> QED  BY <1>4, <2>1, <2>2
<1> DEFINE f == [k \in 1..n |-> h[k]]
<1>7. Good(f)
  <2>1. ASSUME NEW k \in 1..n
        PROVE  f[k] = IF k = 1 THEN Write(s, lines[1]) ELSE Write(LineFeed(f[k - 1]), lines[k])
    <3>1. h[k] = WriteNext(h[k - 1], lines[k], k)
      BY <1>6
    <3>2. CASE k = 1
      <4>1. h[k - 1] = s
        BY <1>6, <3>2
      <4> QED  BY <3>1, <3>2, <4>1 DEF WriteNext
    <3>3. CASE k # 1
      <4>1. k - 1 \in 1..n
        BY <1>1, <3>3
      <4>2. f[k - 1] = h[k - 1]
        BY <4>1
      <4> QED  BY <3>1, <3>3, <4>2 DEF WriteNext
    <3> QED  BY <3>2, <3>3
  <2> HIDE DEF f
  <2>2. f = [k \in 1..n |-> f[k]]
    BY DEF f
  <2>3. [k \in 1..n |-> f[k]] =
          [k \in 1..n |-> IF k = 1 THEN Write(s, lines[1]) ELSE Write(LineFeed(f[k - 1]), lines[k])]
    BY <2>1, Zenon
  <2> QED  BY <2>2, <2>3
<1>8. Good(c)
  <2> HIDE DEF Good
  <2> QED  BY <1>7
<1> HIDE DEF c
<1>9. \A k \in 1..n : c[k] = WriteNext(IF k = 1 THEN s ELSE c[k - 1], lines[k], k)
  <2> SUFFICES ASSUME NEW k \in 1..n
               PROVE  c[k] = WriteNext(IF k = 1 THEN s ELSE c[k - 1], lines[k], k)
    OBVIOUS
  <2>1. c[k] = IF k = 1 THEN Write(s, lines[1]) ELSE Write(LineFeed(c[k - 1]), lines[k])
    BY <1>8
  <2>2. CASE k = 1
    BY <2>1, <2>2 DEF WriteNext
  <2>3. CASE k # 1
    BY <2>1, <2>3 DEF WriteNext
  <2> QED  BY <2>2, <2>3
<1>10. \A k \in 0..n : k \in {j \in 0..n : j = 0 \/ Written(c[j], s, lines, j)}
  <2> DEFINE P == {j \in 0..n : j = 0 \/ Written(c[j], s, lines, j)}
  <2>1. 0 \in P
    BY <1>1
  <2>2. ASSUME NEW j \in 1..n, j - 1 \in P PROVE j \in P
    <3>0. j \in 0..n
      BY <1>1
    <3>1. CASE j = 1
      <4>1. c[j] = WriteNext(s, lines[1], 1)
        BY <1>9, <3>1
      <4>2. Written(c[j], s, lines, j)
        BY <1>1, <3>1, <4>1, WriteFirst DEF n
      <4> QED  BY <3>0, <4>2
    <3>2. CASE j # 1
      <4>1. c[j] = WriteNext(c[j - 1], lines[j], j)
        BY <1>9, <3>2
      <4>2. j - 1 # 0 /\ j \in 2..Len(lines)
        BY <1>1, <3>2 DEF n
      <4>3. Written(c[j - 1], s, lines, j - 1)
        BY <2>2, <4>2
      <4>4. Written(c[j], s, lines, j)
        BY <4>1, <4>2, <4>3, WriteLater
      <4> QED  BY <3>0, <4>4
    <3> QED  BY <3>1, <3>2
  <2> HIDE DEF P
  <2>3. \A j \in 1..n : j - 1 \in P => j \in P
    BY <2>2
  <2>4. \A j \in 0..n : j \in P
    BY <1>1, <2>1, <2>3, Climb
  <2> QED  BY <2>4 DEF P
<1>11. n \in 0..n /\ n # 0
  BY <1>1
<1>12. Written(c[n], s, lines, n)
  BY <1>10, <1>11
<1> QED  BY <1>2, <1>12 DEF n

-----------------------------------------------------------------------------
(* The block is redrawn *)

\* Two screens with the same transcript, row by row.
SameTop(t, s) ==
  /\ t.history = s.history /\ t.stream_line_open = s.stream_line_open
  /\ \A r \in 0..(prompt_top_row - 1) : t.rows[r] = s.rows[r]

\* Nothing stands below the transcript.
Cleared(s) == \A r \in prompt_top_row..(Height - 1) : s.rows[r] = Blank

\* The block of the current prompt and progress lines stands there, with the cursor
\* at the place that the renderer computes for the caret.
Drawn(s) ==
  /\ BlockIsCurrent(s) /\ s.ephemeral_count = Len(s.ephemeral)
  /\ s.cursor = s.caret
  /\ s.caret[1] = caret_abs_row(s) /\ s.caret[2] = visible_cursor_position(s.prompt)[2]

LEMMA ClearBlock ==
  ASSUME ConstantsOK, NEW s \in ScreenType
  PROVE  /\ clear_bottom_block(s) \in ScreenType /\ Cleared(clear_bottom_block(s))
         /\ SameTop(clear_bottom_block(s), s) /\ clear_bottom_block(s).prompt = s.prompt
<1> DEFINE c == <<prompt_top_row, 0>>
           rows == [r \in DOMAIN s.rows |-> IF r >= prompt_top_row THEN Blank ELSE s.rows[r]]
           t == clear_bottom_block(s)
<1>1. prompt_top_row \in Nat /\ Height \in Nat /\ prompt_top_row < Height /\ prompt_top_row >= 1
  BY TopRow
<1>2. /\ s.rows \in [0..(Height - 1) -> RowType]
      /\ \A r \in 0..(prompt_top_row - 1) : s.rows[r] \in LineType
  BY DEF ScreenType
<1>3. c \in (0..(Height - 1)) \X Nat
  BY <1>1
<1>4. t = [[s EXCEPT !.cursor = c] EXCEPT !.rows = [r \in DOMAIN @ |-> IF r >= prompt_top_row THEN Blank ELSE @[r]]]
  BY DEF clear_bottom_block, MoveTo
<1>5. [s EXCEPT !.cursor = c].rows = s.rows
  BY DEF ScreenType
<1>6. t = [[s EXCEPT !.cursor = c] EXCEPT !.rows = rows]
  BY <1>4, <1>5
<1>7. Blank \in RowType /\ Blank \in LineType
  BY DEF RowType, LineType
<1>8. /\ rows \in [0..(Height - 1) -> RowType]
      /\ \A r \in 0..(Height - 1) : rows[r] = IF r >= prompt_top_row THEN Blank ELSE s.rows[r]
  BY <1>2, <1>7
<1> HIDE DEF rows, t, c
<1>9. \A r \in 0..(prompt_top_row - 1) : r \in 0..(Height - 1) /\ ~ (r >= prompt_top_row)
  BY <1>1
<1>10. \A r \in 0..(prompt_top_row - 1) : rows[r] = s.rows[r] /\ rows[r] \in LineType
  BY <1>2, <1>8, <1>9
<1> DEFINE u == [s EXCEPT !.cursor = c]
<1>11. u \in ScreenType
  BY <1>3 DEF ScreenType
<1>12. u.history = s.history /\ u.stream_line_open = s.stream_line_open /\ u.prompt = s.prompt
  BY DEF ScreenType
<1> HIDE DEF u
<1>13. t = [u EXCEPT !.rows = rows]
  BY <1>6 DEF u
<1>14. t \in ScreenType
  BY <1>8, <1>10, <1>11, <1>13 DEF ScreenType
<1>15. /\ t.rows = rows /\ t.history = u.history /\ t.stream_line_open = u.stream_line_open
       /\ t.prompt = u.prompt
  BY <1>11, <1>13 DEF ScreenType
<1>16. Cleared(t)
  <2>1. \A r \in prompt_top_row..(Height - 1) : r \in 0..(Height - 1) /\ r >= prompt_top_row
    BY <1>1
  <2> QED  BY <1>8, <1>15, <2>1 DEF Cleared
<1> QED  BY <1>10, <1>12, <1>14, <1>15, <1>16 DEF SameTop, t

\* The caret is on the screen.
LEMMA CaretRow ==
  ASSUME ConstantsOK, NEW s \in ScreenType
  PROVE  caret_abs_row(s) \in prompt_top_row..(Height - 1)
<1>1. s.prompt \in BarType /\ s.ephemeral_count \in 0..2
  BY DEF ScreenType
<1> DEFINE p == s.prompt
           v == visible_cursor_position(p)[1]
           m == max_in_view(p)
           low == Min({v, m - 1})
           i == Len(Indicator(p))
<1>2. v \in Nat /\ m \in 1..MaxVisible /\ i \in 0..1 /\ MaxVisible \in Nat
  BY <1>1, CaretTyped, HeightOf
<1>3. caret_abs_row(s) = prompt_top_row + s.ephemeral_count + 1 + i + low
  BY DEF caret_abs_row
<1> HIDE DEF v, m, i
<1>4. low \in Nat /\ low <= m - 1
  <2>1. m - 1 \in Nat
    BY <1>2
  <2> QED  BY <1>2, <2>1, Lesser
<1> HIDE DEF low
<1>5. /\ prompt_top_row \in Nat /\ Height = prompt_top_row + MaxVisible + MaxDrop + 5
      /\ MaxDrop \in Nat
  BY TopRow
<1> QED  BY <1>1, <1>2, <1>3, <1>4, <1>5

\* What a redraw leaves.
Redrawn(t, s) == t \in ScreenType /\ Drawn(t) /\ SameTop(t, s)

LEMMA Redraw ==
  ASSUME ConstantsOK, NEW s \in ScreenType, Cleared(s), s.ephemeral_count = Len(s.ephemeral)
  PROVE  Redrawn(redraw_bottom_block(s), s)
<1> DEFINE top == prompt_top_row
           last == Height - 1
           u == MoveTo(s, top, 0)
           n == s.ephemeral
           w == ProgressHeight(n)
           p == s.prompt
           block == Block(n, p)
           d == WriteLines(u, block)
           caret == <<caret_abs_row(s), visible_cursor_position(p)[2]>>
           e == [d EXCEPT !.cursor = caret]
           t == [e EXCEPT !.caret = caret]
<1>1. /\ top \in Nat /\ last \in Nat /\ top < last /\ MAX_PROMPT_RESERVED_ROWS = last - top + 1
      /\ last - top + 1 = MaxVisible + MaxDrop + 5 /\ MaxVisible \in Nat /\ MaxDrop \in Nat
  BY TopRow
<1>2. p \in BarType /\ n \in Shapes /\ s.ephemeral_count = Len(n)
  BY DEF ScreenType
<1>3. redraw_bottom_block(s) = t
  BY DEF redraw_bottom_block, Block
<1>4. /\ block \in Seq(BlockType) /\ Len(block) = w + Height_of(p)
      /\ block[w + Height_of(p)] = <<"footer">> /\ w \in Nat
  BY <1>2, BlockShown
<1>5. Height_of(p) \in Nat /\ Height_of(p) >= 4
  BY <1>2, HeightOf
<1> HIDE DEF w
<1>6. caret \in (0..last) \X Nat /\ caret[1] = caret_abs_row(s)
      /\ caret[2] = visible_cursor_position(p)[2]
  <2>1. caret_abs_row(s) \in top..last
    BY CaretRow
  <2>2. visible_cursor_position(p)[2] \in Nat
    BY <1>2, CaretTyped
  <2>3. caret_abs_row(s) \in 0..last
    <3> HIDE DEF top, last
    <3> QED  BY <1>1, <2>1
  <2> QED  BY <2>2, <2>3
<1>7. /\ u \in Below /\ u.cursor[1] = top /\ u.rows = s.rows /\ SameBut(u, s)
  <2> DEFINE c == <<top, 0>>
  <2>1. c \in (0..last) \X Nat /\ c[1] = top /\ u = [s EXCEPT !.cursor = c]
    BY <1>1 DEF MoveTo
  <2> HIDE DEF c, top, last, u
  <2>2. u \in ScreenType
    BY <2>1 DEF ScreenType, last
  <2>3. u.cursor = c /\ u.rows = s.rows /\ SameBut(u, s)
    BY <2>1 DEF ScreenType, SameBut
  <2>4. u.cursor[1] = top /\ top >= top
    BY <1>1, <2>1, <2>3
  <2>5. u \in Below
    BY <2>2, <2>4 DEF Below, top
  <2> QED  BY <2>3, <2>4, <2>5
<1> HIDE DEF block, u
<1>8. Written(d, u, block, Len(block))
  <2>1. Len(block) >= 1
    BY <1>2, <1>4, <1>5
  <2> QED  BY <1>4, <1>7, <2>1, LinesWritten
<1> HIDE DEF d, caret, top, last
<1>9. /\ d \in ScreenType /\ SameBut(d, u)
      /\ \A r \in 0..last :
           d.rows[r] = IF r < top THEN u.rows[r]
                       ELSE IF r = last /\ top + Len(block) - 1 >= last THEN block[Len(block)]
                       ELSE IF r - top + 1 <= Len(block) THEN block[r - top + 1]
                       ELSE u.rows[r]
  BY <1>8 DEF Written, Below, top, last
<1>10. e \in ScreenType /\ e.rows = d.rows /\ SameBut(e, d) /\ e.cursor = caret
  <2>1. e \in ScreenType
    BY <1>6, <1>9 DEF ScreenType, last
  <2> QED  BY <1>9, <2>1 DEF ScreenType, SameBut
<1> HIDE DEF e
<1>11. /\ t \in ScreenType /\ t.rows = d.rows /\ t.cursor = caret /\ t.caret = caret
       /\ t.history = e.history /\ t.stream_line_open = e.stream_line_open
       /\ t.prompt = e.prompt /\ t.ephemeral = e.ephemeral
       /\ t.ephemeral_count = e.ephemeral_count
  <2>1. t \in ScreenType
    BY <1>6, <1>10 DEF ScreenType, last
  <2> QED  BY <1>10, <2>1 DEF ScreenType
<1> HIDE DEF t
<1>12. /\ t.history = s.history /\ t.stream_line_open = s.stream_line_open /\ t.prompt = p
       /\ t.ephemeral = n /\ t.ephemeral_count = Len(n)
  BY <1>2, <1>7, <1>9, <1>10, <1>11 DEF SameBut
<1>13. SameTop(t, s)
  <2>1. \A r \in 0..(top - 1) : r \in 0..last /\ r < top
    BY <1>1
  <2>2. \A r \in 0..(top - 1) : t.rows[r] = s.rows[r]
    BY <1>7, <1>9, <1>11, <2>1
  <2> QED  BY <1>12, <2>2 DEF SameTop, top
<1>14. ASSUME NEW r \in 1..MAX_PROMPT_RESERVED_ROWS
       PROVE  t.rows[top + r - 1] =
                IF r = MAX_PROMPT_RESERVED_ROWS /\ Len(block) > r THEN <<"footer">>
                ELSE IF r <= Len(block) THEN block[r] ELSE Blank
  <2> DEFINE q == top + r - 1
             k == Len(block)
             footer == <<"footer">>
  <2>0. MAX_PROMPT_RESERVED_ROWS \in Nat /\ k \in Nat
    BY <1>1, <1>4, <1>5
  <2>1. q \in 0..last /\ ~ (q < top) /\ q - top + 1 = r
    BY <1>1, <2>0
  <2>2. (q = last) <=> (r = MAX_PROMPT_RESERVED_ROWS)
    BY <1>1, <2>0
  <2>3. s.rows[q] = Blank
    <3>1. q \in top..last
      BY <1>1, <2>1
    <3> QED  BY <3>1 DEF Cleared, top, last
  <2>4. block[k] = footer
    BY <1>4
  <2>5. (top + k - 1 >= last) <=> (k >= MAX_PROMPT_RESERVED_ROWS)
    BY <1>1, <2>0
  <2> HIDE DEF q, footer, k
  <2>6. t.rows[q] = IF r = MAX_PROMPT_RESERVED_ROWS /\ k >= MAX_PROMPT_RESERVED_ROWS THEN footer
                    ELSE IF r <= k THEN block[r] ELSE Blank
    <3>1. d.rows[q] = IF q < top THEN u.rows[q]
                      ELSE IF q = last /\ top + k - 1 >= last THEN block[k]
                      ELSE IF q - top + 1 <= k THEN block[q - top + 1]
                      ELSE u.rows[q]
      BY <1>9, <2>1 DEF k
    <3>2. d.rows[q] = IF q = last /\ top + k - 1 >= last THEN footer
                      ELSE IF r <= k THEN block[r] ELSE Blank
      BY <1>7, <2>1, <2>3, <2>4, <3>1
    <3> QED  BY <1>11, <2>2, <2>5, <3>2
  <2>7. CASE k > r
    <3>1. t.rows[q] = IF r = MAX_PROMPT_RESERVED_ROWS /\ k > r THEN footer
                      ELSE IF r <= k THEN block[r] ELSE Blank
      BY <2>0, <2>6, <2>7
    <3> QED  BY <3>1 DEF q, k, footer
  <2>8. CASE ~ (k > r)
    <3>1. t.rows[q] = IF r <= k THEN block[r] ELSE Blank
      <4>1. CASE k = r
        BY <2>0, <2>4, <2>6, <4>1
      <4>2. CASE k # r
        BY <2>0, <2>6, <2>8, <4>2
      <4> QED  BY <4>1, <4>2
    <3>2. t.rows[q] = IF r = MAX_PROMPT_RESERVED_ROWS /\ k > r THEN footer
                      ELSE IF r <= k THEN block[r] ELSE Blank
      BY <2>8, <3>1
    <3> QED  BY <3>2 DEF q, k, footer
  <2> QED  BY <2>7, <2>8
<1>15. BlockIsCurrent(t)
  <2>1. Ephemeral(t.ephemeral) \o PromptBlock(t.prompt) = block
    BY <1>12 DEF block, Block
  <2> QED  BY <1>14, <2>1 DEF BlockIsCurrent, top
<1>16. caret_abs_row(t) = caret_abs_row(s)
  BY <1>2, <1>12 DEF caret_abs_row
<1>17. Drawn(t)
  BY <1>6, <1>11, <1>12, <1>15, <1>16 DEF Drawn
<1> QED  BY <1>3, <1>11, <1>13, <1>17 DEF Redrawn

\* The block of a screen is as it was, and the cursor at the caret.
SameBlock(t, s) ==
  /\ \A r \in prompt_top_row..(Height - 1) : t.rows[r] = s.rows[r]
  /\ t.prompt = s.prompt /\ t.ephemeral = s.ephemeral /\ t.ephemeral_count = s.ephemeral_count
  /\ t.caret = s.caret /\ t.cursor = s.caret

LEMMA StaysDrawn ==
  ASSUME ConstantsOK, NEW s, NEW t, Drawn(s), SameBlock(t, s)
  PROVE  Drawn(t)
<1>1. prompt_top_row \in Nat /\ Height = prompt_top_row + MAX_PROMPT_RESERVED_ROWS
      /\ MAX_PROMPT_RESERVED_ROWS \in Nat
  BY TopRow
<1>2. \A r \in 1..MAX_PROMPT_RESERVED_ROWS : prompt_top_row + r - 1 \in prompt_top_row..(Height - 1)
  BY <1>1
<1>3. \A r \in 1..MAX_PROMPT_RESERVED_ROWS :
        t.rows[prompt_top_row + r - 1] = s.rows[prompt_top_row + r - 1]
  BY <1>2 DEF SameBlock
<1>4. /\ BlockIsCurrent(s) /\ t.prompt = s.prompt /\ t.ephemeral = s.ephemeral
      /\ t.ephemeral_count = s.ephemeral_count
  BY DEF Drawn, SameBlock
<1>5. BlockIsCurrent(t)
  BY <1>3, <1>4 DEF BlockIsCurrent
<1>6. caret_abs_row(t) = caret_abs_row(s)
  BY <1>4 DEF caret_abs_row
<1> QED  BY <1>5, <1>6 DEF Drawn, SameBlock

LEMMA PromptBuilt ==
  ASSUME ConstantsOK, NEW bar \in BarType
  PROVE  build_prompt(bar) \in BarType
<1> DEFINE tops == {top \in bar.scroll_top..bar.row :
                      top = bar.row \/ RowsOf(SubSeq(bar.lines, top + 1, bar.row)) < MaxVisible}
           m == Min(tops)
<1>1. /\ bar.scroll_top \in Nat /\ bar.row \in Nat /\ bar.scroll_top <= bar.row
      /\ bar.row < Len(bar.lines) /\ bar.col <= Len(bar.lines[bar.row + 1])
  BY DEF BarType
<1>2. bar.row \in tops /\ tops \in SUBSET Nat
  BY <1>1
<1>3. m \in tops
  <2> HIDE DEF tops
  <2> QED  BY <1>2, Least
<1>4. m \in Nat /\ m <= bar.row
  BY <1>1, <1>3
<1>5. build_prompt(bar) = [bar EXCEPT !.scroll_top = m]
  BY DEF build_prompt
<1> HIDE DEF m
<1>6. [bar EXCEPT !.scroll_top = m] \in BarType
  BY <1>1, <1>4 DEF BarType
<1> QED  BY <1>5, <1>6

LEMMA SetEphemeral ==
  ASSUME ConstantsOK, NEW s \in ScreenType, NEW lines \in Shapes
  PROVE  Redrawn(set_ephemeral(s, lines), s)
<1> DEFINE c == clear_bottom_block(s)
           n == Len(lines)
           d == [c EXCEPT !.ephemeral = lines]
           e == [d EXCEPT !.ephemeral_count = n]
<1>0. n \in 0..2
  BY EphemeralTyped
<1>1. c \in ScreenType /\ Cleared(c) /\ SameTop(c, s)
  BY ClearBlock
<1>2. set_ephemeral(s, lines) = redraw_bottom_block(e)
  BY DEF set_ephemeral
<1>7. lines \in Seq(Nat \ {0}) /\ n = Len(lines)
  BY DEF Shapes
<1> HIDE DEF c, n
<1>3. /\ d \in ScreenType /\ d.ephemeral = lines /\ d.rows = c.rows /\ d.history = c.history
      /\ d.stream_line_open = c.stream_line_open
  BY <1>1 DEF ScreenType
<1> HIDE DEF d
<1>4. /\ e \in ScreenType /\ e.ephemeral = lines /\ e.ephemeral_count = n /\ e.rows = c.rows
      /\ e.history = c.history /\ e.stream_line_open = c.stream_line_open
  BY <1>0, <1>3 DEF ScreenType
<1> HIDE DEF e
<1>5. Cleared(e) /\ SameTop(e, s)
  BY <1>1, <1>4 DEF Cleared, SameTop
<1>6. Redrawn(redraw_bottom_block(e), e)
  BY <1>4, <1>5, <1>7, Redraw
<1> QED  BY <1>2, <1>5, <1>6 DEF Redrawn, SameTop

LEMMA UpdatePromptTo ==
  ASSUME ConstantsOK, NEW s \in ScreenType, s.ephemeral_count = Len(s.ephemeral), NEW p \in BarType
  PROVE  Redrawn(update_prompt(s, p), s)
<1> DEFINE c == clear_bottom_block(s)
           d == [c EXCEPT !.prompt = p]
<1>1. c \in ScreenType /\ Cleared(c) /\ SameTop(c, s)
  BY ClearBlock
<1>0. c.ephemeral = s.ephemeral /\ c.ephemeral_count = s.ephemeral_count
  BY DEF clear_bottom_block, MoveTo, ScreenType
<1>2. update_prompt(s, p) = redraw_bottom_block(d)
  BY DEF update_prompt
<1> HIDE DEF c
<1>3. /\ d \in ScreenType /\ d.rows = c.rows /\ d.history = c.history
      /\ d.stream_line_open = c.stream_line_open
      /\ d.ephemeral = c.ephemeral /\ d.ephemeral_count = c.ephemeral_count
  BY <1>1 DEF ScreenType
<1> HIDE DEF d
<1>5. Cleared(d) /\ SameTop(d, s)
  BY <1>1, <1>3 DEF Cleared, SameTop
<1>6. Redrawn(redraw_bottom_block(d), d)
  BY <1>0, <1>3, <1>5, Redraw
<1> QED  BY <1>2, <1>5, <1>6 DEF Redrawn, SameTop

LEMMA FirstScreen ==
  ASSUME ConstantsOK, NEW p \in BarType
  PROVE  LET s == init_prompt([r \in 0..(Height - 1) |-> Blank], p)
         IN /\ s \in ScreenType /\ Drawn(s) /\ s.history = <<>> /\ ~ s.stream_line_open
            /\ \A r \in 0..(prompt_top_row - 1) : s.rows[r] = Blank
<1> DEFINE rows == [r \in 0..(Height - 1) |-> Blank]
           zero == <<0, 0>>
           none == <<>>
           u == [history |-> none, rows |-> rows, cursor |-> zero, caret |-> zero,
                 stream_line_open |-> FALSE, prompt |-> p, ephemeral |-> none,
                 ephemeral_count |-> 0]
<1>1. Height \in Nat /\ Height >= 1 /\ prompt_top_row \in Nat /\ prompt_top_row < Height
  BY TopRow
<1>2. Blank \in RowType /\ Blank \in LineType
  BY DEF RowType, LineType
<1>3. /\ rows \in [0..(Height - 1) -> RowType] /\ \A r \in 0..(Height - 1) : rows[r] = Blank
  BY <1>2
<1>4. zero \in (0..(Height - 1)) \X Nat
  BY <1>1
<1>5. none \in Seq(LineType) /\ none \in Shapes /\ Len(none) = 0
  BY EmptySeq DEF Shapes
<1> HIDE DEF rows, zero, none
<1>6. /\ \A r \in 0..(prompt_top_row - 1) : r \in 0..(Height - 1)
      /\ \A r \in prompt_top_row..(Height - 1) : r \in 0..(Height - 1)
  BY <1>1
<1>7. /\ u.history = none /\ u.rows = rows /\ u.cursor = zero /\ u.caret = zero
      /\ ~ u.stream_line_open /\ u.prompt = p /\ u.ephemeral = none /\ u.ephemeral_count = 0
  OBVIOUS
<1>8. u \in ScreenType
  <2>1. \A r \in 0..(prompt_top_row - 1) : u.rows[r] \in LineType
    BY <1>2, <1>3, <1>6, <1>7
  <2>2. u \in [history : Seq(LineType), rows : [0..(Height - 1) -> RowType],
          cursor : (0..(Height - 1)) \X Nat, caret : (0..(Height - 1)) \X Nat,
          stream_line_open : BOOLEAN, prompt : BarType, ephemeral : Shapes,
          ephemeral_count : 0..2]
    BY <1>3, <1>4, <1>5
  <2> HIDE DEF u
  <2> QED  BY <2>1, <2>2 DEF ScreenType
<1>9. init_prompt(rows, p) = redraw_bottom_block(u)
  BY DEF init_prompt, none, zero
<1> HIDE DEF u
<1>10. Cleared(u)
  BY <1>3, <1>6, <1>7 DEF Cleared
<1> DEFINE s == redraw_bottom_block(u)
<1>11. Redrawn(s, u)
  BY <1>5, <1>7, <1>8, <1>10, Redraw
<1> HIDE DEF s
<1>12. /\ s \in ScreenType /\ Drawn(s) /\ s.history = none /\ ~ s.stream_line_open
       /\ \A r \in 0..(prompt_top_row - 1) : s.rows[r] = Blank
  BY <1>3, <1>6, <1>7, <1>11 DEF Redrawn, SameTop
<1> QED  BY <1>9, <1>12 DEF rows, none, s

-----------------------------------------------------------------------------
(* The transcript *)

\* What a mutation may do to a transcript: leave it, add a line, replace the last one.
Keeps(t, s) == Transcript(t) = Transcript(s)
Adds(t, s, line) ==
  /\ Len(Transcript(t)) = Len(Transcript(s)) + 1
  /\ \A k \in 1..Len(Transcript(s)) : Transcript(t)[k] = Transcript(s)[k]
  /\ Transcript(t)[Len(Transcript(s)) + 1] = line
Replaces(t, s, line) ==
  /\ Len(Transcript(t)) = Len(Transcript(s))
  /\ \A k \in 1..(Len(Transcript(s)) - 1) : Transcript(t)[k] = Transcript(s)[k]
  /\ Transcript(t)[Len(Transcript(s))] = line

\* The transcript is the history and the rows above the block.
LEMMA TranscriptIs ==
  ASSUME ConstantsOK, NEW s \in ScreenType
  PROVE  /\ Transcript(s) \in Seq(LineType) /\ Len(Transcript(s)) = Len(s.history) + prompt_top_row
         /\ Len(s.history) \in Nat /\ Len(Transcript(s)) \in Nat /\ Len(Transcript(s)) >= 1
         /\ \A k \in 1..Len(s.history) : Transcript(s)[k] = s.history[k]
         /\ \A k \in 1..prompt_top_row : Transcript(s)[Len(s.history) + k] = s.rows[k - 1]
<1> DEFINE h == s.history
           top == prompt_top_row
           w == [k \in 1..top |-> s.rows[k - 1]]
<1>1. top \in Nat /\ top >= 1
  BY TopRow
<1>2. h \in Seq(LineType) /\ \A r \in 0..(top - 1) : s.rows[r] \in LineType
  BY DEF ScreenType
<1>3. \A k \in 1..top : k - 1 \in 0..(top - 1)
  BY <1>1
<1>4. w \in Seq(LineType) /\ Len(w) = top /\ \A k \in 1..top : w[k] = s.rows[k - 1]
  BY <1>1, <1>2, <1>3
<1>5. Transcript(s) = h \o w
  BY DEF Transcript
<1> HIDE DEF h, w
<1>6. Concat(h \o w, h, w, LineType)
  BY <1>2, <1>4, Concatenated
<1> DEFINE t == h \o w
<1> HIDE DEF t
<1>7. Concat(t, h, w, LineType) /\ Transcript(s) = t
  BY <1>5, <1>6 DEF t
<1>8. /\ t \in Seq(LineType) /\ Len(t) = Len(h) + top /\ Len(h) \in Nat
      /\ \A k \in 1..Len(h) : t[k] = h[k]
      /\ \A k \in 1..top : t[Len(h) + k] = s.rows[k - 1]
  BY <1>4, <1>7 DEF Concat
<1>9. Len(t) \in Nat /\ Len(t) >= 1
  BY <1>1, <1>8
<1> QED  BY <1>7, <1>8, <1>9 DEF h

LEMMA SameTopKeeps ==
  ASSUME ConstantsOK, NEW s \in ScreenType, NEW t \in ScreenType, SameTop(t, s)
  PROVE  Keeps(t, s)
<1>1. \A k \in 1..prompt_top_row : t.rows[k - 1] = s.rows[k - 1]
  <2> SUFFICES ASSUME NEW k \in 1..prompt_top_row PROVE t.rows[k - 1] = s.rows[k - 1]
    OBVIOUS
  <2>1. k - 1 \in 0..(prompt_top_row - 1)
    BY TopRow
  <2> QED  BY <2>1 DEF SameTop
<1>2. [k \in 1..prompt_top_row |-> t.rows[k - 1]] = [k \in 1..prompt_top_row |-> s.rows[k - 1]]
  BY <1>1
<1>3. t.history = s.history
  BY DEF SameTop
<1> QED  BY <1>2, <1>3 DEF Keeps, Transcript

\* The region scrolls by a line.
LEMMA ScrollAtBottom ==
  ASSUME ConstantsOK, NEW s \in ScreenType, NEW line \in LineType
  PROVE  LET t == Write(LineFeed(AtBottom(s)), line)
         IN /\ t \in ScreenType /\ t.history = Append(s.history, s.rows[0])
            /\ LineFeed(AtBottom(s)) \in ScreenType
            /\ LineFeed(AtBottom(s)).stream_line_open = s.stream_line_open
            /\ \A r \in 0..(Height - 1) :
                 t.rows[r] = IF r < prompt_top_row - 1 THEN s.rows[r + 1]
                             ELSE IF r = prompt_top_row - 1 THEN line ELSE s.rows[r]
            /\ t.caret = s.caret /\ t.stream_line_open = s.stream_line_open
            /\ t.prompt = s.prompt /\ t.ephemeral = s.ephemeral
            /\ t.ephemeral_count = s.ephemeral_count
<1> DEFINE top == prompt_top_row
           at == top - 1
           c == <<at, 0>>
           a == AtBottom(s)
           h == Append(s.history, s.rows[0])
           rows == [r \in DOMAIN s.rows |-> IF r < at THEN s.rows[r + 1]
                                            ELSE IF r = at THEN Blank ELSE s.rows[r]]
           b == [a EXCEPT !.history = h]
           f == [b EXCEPT !.rows = rows]
           rows2 == [rows EXCEPT ![at] = line]
           t == [f EXCEPT !.rows = rows2]
<1>1. /\ top \in Nat /\ top >= 1 /\ Height \in Nat /\ top < Height /\ at \in 0..(Height - 1)
      /\ at \in Nat /\ 0 \in 0..(top - 1)
  BY TopRow
<1>2. /\ s.rows \in [0..(Height - 1) -> RowType] /\ s.history \in Seq(LineType)
      /\ \A r \in 0..(top - 1) : s.rows[r] \in LineType
  BY DEF ScreenType
<1>3. c \in (0..(Height - 1)) \X Nat /\ c[1] = at /\ a = [s EXCEPT !.cursor = c]
  BY <1>1 DEF AtBottom, MoveTo
<1>4. h \in Seq(LineType)
  BY <1>1, <1>2, AppendProperties
<1> HIDE DEF c, a, h
<1>5. /\ a \in ScreenType /\ a.history = s.history /\ a.rows = s.rows /\ a.cursor = c
      /\ a.caret = s.caret /\ a.stream_line_open = s.stream_line_open
      /\ a.prompt = s.prompt /\ a.ephemeral = s.ephemeral /\ a.ephemeral_count = s.ephemeral_count
  <2>1. a \in ScreenType
    BY <1>3 DEF ScreenType
  <2> QED  BY <1>3, <2>1 DEF ScreenType
<1>6. LineFeed(a) = f
  <2> DEFINE b0 == [a EXCEPT !.history = Append(@, a.rows[0])]
  <2>1. LineFeed(a) = [b0 EXCEPT !.rows = [r \in DOMAIN b0.rows |->
                                             IF r < a.cursor[1] THEN b0.rows[r + 1]
                                             ELSE IF r = a.cursor[1] THEN Blank ELSE b0.rows[r]]]
    BY <1>3, <1>5 DEF LineFeed
  <2>2. b0 = b
    BY <1>5 DEF h, ScreenType
  <2>3. b.rows = s.rows
    BY <1>5 DEF ScreenType
  <2>4. a.cursor[1] = at
    BY <1>3, <1>5
  <2> HIDE DEF b, b0
  <2> QED  BY <2>1, <2>2, <2>3, <2>4
<1>7. /\ b \in ScreenType /\ b.history = h /\ b.rows = s.rows /\ b.cursor = c
      /\ b.caret = s.caret /\ b.stream_line_open = s.stream_line_open
      /\ b.prompt = s.prompt /\ b.ephemeral = s.ephemeral /\ b.ephemeral_count = s.ephemeral_count
  <2>1. b \in ScreenType
    BY <1>4, <1>5 DEF ScreenType
  <2> QED  BY <1>5, <2>1 DEF ScreenType
<1> HIDE DEF b
<1>8. Blank \in RowType /\ line \in RowType /\ Blank \in LineType
  BY DEF RowType, LineType
<1>9. \A r \in 0..(Height - 1) : r < at => r + 1 \in 0..(Height - 1)
  BY <1>1
<1>10. /\ rows \in [0..(Height - 1) -> RowType]
       /\ \A r \in 0..(Height - 1) : rows[r] = IF r < at THEN s.rows[r + 1]
                                            ELSE IF r = at THEN Blank ELSE s.rows[r]
  <2>1. DOMAIN s.rows = 0..(Height - 1)
    BY <1>2
  <2>2. ASSUME NEW r \in 0..(Height - 1)
        PROVE  (IF r < at THEN s.rows[r + 1] ELSE IF r = at THEN Blank ELSE s.rows[r]) \in RowType
    BY <1>2, <1>8, <1>9
  <2> QED  BY <2>1, <2>2
<1> HIDE DEF rows
<1>11. /\ rows2 \in [0..(Height - 1) -> RowType]
       /\ \A r \in 0..(Height - 1) : rows2[r] = IF r < at THEN s.rows[r + 1]
                                            ELSE IF r = at THEN line ELSE s.rows[r]
  BY <1>1, <1>8, <1>10
<1> HIDE DEF rows2
<1>12. \A r \in 0..(top - 1) : rows[r] \in LineType /\ rows2[r] \in LineType
  <2> SUFFICES ASSUME NEW r \in 0..(top - 1) PROVE rows[r] \in LineType /\ rows2[r] \in LineType
    OBVIOUS
  <2>1. r \in 0..(Height - 1) /\ (r < at => r + 1 \in 0..(top - 1)) /\ (~ (r < at) => r = at)
    BY <1>1
  <2> QED  BY <1>2, <1>8, <1>10, <1>11, <2>1
<1>13. /\ f \in ScreenType /\ f.history = h /\ f.rows = rows /\ f.cursor = c
       /\ f.caret = s.caret /\ f.stream_line_open = s.stream_line_open
       /\ f.prompt = s.prompt /\ f.ephemeral = s.ephemeral /\ f.ephemeral_count = s.ephemeral_count
  <2>1. f \in ScreenType
    BY <1>7, <1>10, <1>12 DEF ScreenType
  <2> QED  BY <1>7, <2>1 DEF ScreenType
<1> HIDE DEF f
<1>14. Write(f, line) = t
  BY <1>3, <1>13 DEF Write, rows2
<1>15. /\ t \in ScreenType /\ t.history = h /\ t.rows = rows2
       /\ t.caret = s.caret /\ t.stream_line_open = s.stream_line_open
       /\ t.prompt = s.prompt /\ t.ephemeral = s.ephemeral /\ t.ephemeral_count = s.ephemeral_count
  <2>1. t \in ScreenType
    BY <1>11, <1>12, <1>13 DEF ScreenType
  <2> QED  BY <1>13, <2>1 DEF ScreenType
<1> HIDE DEF t
<1>16. Write(LineFeed(AtBottom(s)), line) = t
  BY <1>6, <1>14 DEF a
<1>17. LineFeed(AtBottom(s)) \in ScreenType
       /\ LineFeed(AtBottom(s)).stream_line_open = s.stream_line_open
  BY <1>6, <1>13 DEF a
<1> QED  BY <1>11, <1>15, <1>16, <1>17 DEF h

\* The line at the bottom of the region is written again.
LEMMA WriteAtBottom ==
  ASSUME ConstantsOK, NEW s \in ScreenType, NEW line \in LineType
  PROVE  LET t == Write(AtBottom(s), line)
         IN /\ t \in ScreenType /\ t.history = s.history
            /\ \A r \in 0..(Height - 1) :
                 t.rows[r] = IF r = prompt_top_row - 1 THEN line ELSE s.rows[r]
            /\ t.caret = s.caret /\ t.stream_line_open = s.stream_line_open
            /\ t.prompt = s.prompt /\ t.ephemeral = s.ephemeral
            /\ t.ephemeral_count = s.ephemeral_count
<1> DEFINE top == prompt_top_row
           at == top - 1
           c == <<at, 0>>
           a == AtBottom(s)
           rows == [s.rows EXCEPT ![at] = line]
           t == [a EXCEPT !.rows = rows]
<1>1. /\ top \in Nat /\ top >= 1 /\ Height \in Nat /\ top < Height /\ at \in 0..(Height - 1)
      /\ at \in Nat
  BY TopRow
<1>2. /\ s.rows \in [0..(Height - 1) -> RowType]
      /\ \A r \in 0..(top - 1) : s.rows[r] \in LineType
  BY DEF ScreenType
<1>3. c \in (0..(Height - 1)) \X Nat /\ c[1] = at /\ a = [s EXCEPT !.cursor = c]
  BY <1>1 DEF AtBottom, MoveTo
<1> HIDE DEF c, a
<1>5. /\ a \in ScreenType /\ a.history = s.history /\ a.rows = s.rows /\ a.cursor = c
      /\ a.caret = s.caret /\ a.stream_line_open = s.stream_line_open
      /\ a.prompt = s.prompt /\ a.ephemeral = s.ephemeral /\ a.ephemeral_count = s.ephemeral_count
  <2>1. a \in ScreenType
    BY <1>3 DEF ScreenType
  <2> QED  BY <1>3, <2>1 DEF ScreenType
<1>8. line \in RowType
  BY DEF RowType
<1>10. /\ rows \in [0..(Height - 1) -> RowType]
       /\ \A r \in 0..(Height - 1) : rows[r] = IF r = at THEN line ELSE s.rows[r]
  BY <1>1, <1>2, <1>8
<1>14. Write(a, line) = t
  BY <1>3, <1>5 DEF Write
<1> HIDE DEF rows
<1>12. \A r \in 0..(top - 1) : rows[r] \in LineType
  <2> SUFFICES ASSUME NEW r \in 0..(top - 1) PROVE rows[r] \in LineType
    OBVIOUS
  <2>1. r \in 0..(Height - 1)
    BY <1>1
  <2> QED  BY <1>2, <1>10, <2>1
<1>15. /\ t \in ScreenType /\ t.history = s.history /\ t.rows = rows
       /\ t.caret = s.caret /\ t.stream_line_open = s.stream_line_open
       /\ t.prompt = s.prompt /\ t.ephemeral = s.ephemeral /\ t.ephemeral_count = s.ephemeral_count
  <2>1. t \in ScreenType
    BY <1>5, <1>10, <1>12 DEF ScreenType
  <2> QED  BY <1>5, <2>1 DEF ScreenType
<1> HIDE DEF t
<1>16. Write(AtBottom(s), line) = t
  BY <1>14 DEF a
<1> QED  BY <1>10, <1>15, <1>16

\* What a line adds to or replaces in the transcript, from the rows.
LEMMA RowsAdd ==
  ASSUME ConstantsOK, NEW s \in ScreenType, NEW t \in ScreenType, NEW line,
         t.history = Append(s.history, s.rows[0]),
         \A r \in 0..(Height - 1) : t.rows[r] = IF r < prompt_top_row - 1 THEN s.rows[r + 1]
                                                ELSE IF r = prompt_top_row - 1 THEN line ELSE s.rows[r]
  PROVE  Adds(t, s, line)
<1> DEFINE a == Transcript(s)
           b == Transcript(t)
           m == Len(s.history)
           top == prompt_top_row
<1>1. /\ Len(a) = m + top /\ m \in Nat
      /\ \A k \in 1..m : a[k] = s.history[k]
      /\ \A k \in 1..top : a[m + k] = s.rows[k - 1]
  BY TranscriptIs
<1>2. top \in Nat /\ top >= 1 /\ Height \in Nat /\ top < Height
  BY TopRow
<1>3. s.history \in Seq(LineType) /\ s.rows[0] \in LineType
  <2>1. 0 \in 0..(prompt_top_row - 1)
    BY <1>2
  <2> QED  BY <2>1 DEF ScreenType
<1>4. /\ Len(t.history) = m + 1 /\ \A k \in 1..m : t.history[k] = s.history[k]
      /\ t.history[m + 1] = s.rows[0]
  BY <1>3, AppendProperties
<1>5. /\ Len(b) = m + 1 + top
      /\ \A k \in 1..(m + 1) : b[k] = t.history[k]
      /\ \A k \in 1..top : b[m + 1 + k] = t.rows[k - 1]
  <2>1. /\ Len(b) = Len(t.history) + top
        /\ \A k \in 1..Len(t.history) : b[k] = t.history[k]
        /\ \A k \in 1..top : b[Len(t.history) + k] = t.rows[k - 1]
    BY TranscriptIs
  <2> QED  BY <1>4, <2>1
<1> HIDE DEF a, b, m
<1>6. ASSUME NEW k \in 1..Len(a) PROVE b[k] = a[k]
  <2>1. CASE k <= m
    <3>1. k \in 1..m /\ k \in 1..(m + 1)
      BY <1>1, <1>2, <2>1
    <3> QED  BY <1>1, <1>4, <1>5, <3>1
  <2>2. CASE k = m + 1
    <3>1. k \in 1..(m + 1) /\ 1 \in 1..top /\ k = m + 1
      BY <1>1, <1>2, <2>2
    <3>2. b[k] = s.rows[0]
      BY <1>4, <1>5, <3>1
    <3>3. a[m + 1] = s.rows[1 - 1]
      BY <1>1, <3>1
    <3> QED  BY <3>1, <3>2, <3>3
  <2>3. CASE k > m + 1
    <3> DEFINE r == k - m - 2
    <3>1. /\ r + 1 \in 1..top /\ k = m + 1 + (r + 1) /\ r + 2 \in 1..top /\ k = m + (r + 2)
          /\ r \in 0..(Height - 1) /\ r < top - 1 /\ r + 1 - 1 = r /\ r + 2 - 1 = r + 1
      BY <1>1, <1>2, <2>3
    <3> HIDE DEF r
    <3>2. b[k] = t.rows[r]
      BY <1>5, <3>1
    <3>3. t.rows[r] = s.rows[r + 1]
      BY <3>1
    <3>4. a[k] = s.rows[r + 1]
      BY <1>1, <3>1
    <3> QED  BY <3>2, <3>3, <3>4
  <2> QED  BY <1>1, <1>2, <2>1, <2>2, <2>3
<1>7. b[Len(a) + 1] = line
  <2>1. top \in 1..top /\ m + 1 + top = Len(a) + 1 /\ top - 1 \in 0..(Height - 1) /\ ~ (top - 1 < top - 1)
    BY <1>1, <1>2
  <2>2. b[m + 1 + top] = t.rows[top - 1]
    BY <1>5, <2>1
  <2>3. t.rows[top - 1] = line
    BY <2>1
  <2> QED  BY <2>1, <2>2, <2>3
<1>8. Len(b) = Len(a) + 1
  BY <1>1, <1>2, <1>5
<1> QED  BY <1>6, <1>7, <1>8 DEF Adds, a, b

LEMMA RowsReplace ==
  ASSUME ConstantsOK, NEW s \in ScreenType, NEW t \in ScreenType, NEW line,
         t.history = s.history,
         \A r \in 0..(Height - 1) : t.rows[r] = IF r = prompt_top_row - 1 THEN line ELSE s.rows[r]
  PROVE  Replaces(t, s, line)
<1> DEFINE a == Transcript(s)
           b == Transcript(t)
           m == Len(s.history)
           top == prompt_top_row
<1>1. /\ Len(a) = m + top /\ m \in Nat
      /\ \A k \in 1..m : a[k] = s.history[k]
      /\ \A k \in 1..top : a[m + k] = s.rows[k - 1]
  BY TranscriptIs
<1>2. top \in Nat /\ top >= 1 /\ Height \in Nat /\ top < Height
  BY TopRow
<1>5. /\ Len(b) = m + top
      /\ \A k \in 1..m : b[k] = s.history[k]
      /\ \A k \in 1..top : b[m + k] = t.rows[k - 1]
  <2>1. /\ Len(b) = Len(t.history) + top
        /\ \A k \in 1..Len(t.history) : b[k] = t.history[k]
        /\ \A k \in 1..top : b[Len(t.history) + k] = t.rows[k - 1]
    BY TranscriptIs
  <2> QED  BY <2>1
<1> HIDE DEF a, b, m
<1>6. ASSUME NEW k \in 1..(Len(a) - 1) PROVE b[k] = a[k]
  <2>1. CASE k <= m
    <3>1. k \in 1..m
      BY <1>1, <1>2, <2>1
    <3> QED  BY <1>1, <1>5, <3>1
  <2>3. CASE k > m
    <3> DEFINE r == k - m - 1
    <3>1. /\ r + 1 \in 1..top /\ k = m + (r + 1)
          /\ r \in 0..(Height - 1) /\ r # top - 1 /\ r + 1 - 1 = r
      BY <1>1, <1>2, <2>3
    <3> HIDE DEF r
    <3>2. b[k] = t.rows[r]
      BY <1>5, <3>1
    <3>3. t.rows[r] = s.rows[r]
      BY <3>1
    <3>4. a[k] = s.rows[r]
      BY <1>1, <3>1
    <3> QED  BY <3>2, <3>3, <3>4
  <2> QED  BY <1>1, <1>2, <2>1, <2>3
<1>7. b[Len(a)] = line
  <2>1. top \in 1..top /\ m + top = Len(a) /\ top - 1 \in 0..(Height - 1)
    BY <1>1, <1>2
  <2>2. b[m + top] = t.rows[top - 1]
    BY <1>5, <2>1
  <2>3. t.rows[top - 1] = line
    BY <2>1
  <2> QED  BY <2>1, <2>2, <2>3
<1>8. Len(b) = Len(a)
  BY <1>1, <1>2, <1>5
<1> QED  BY <1>6, <1>7, <1>8 DEF Replaces, a, b

\* A committed line replaces an open stream line and follows any other line.
Commits(t, s, line) ==
  /\ t \in ScreenType /\ ~ t.stream_line_open /\ (Drawn(s) => Drawn(t))
  /\ t.ephemeral = s.ephemeral /\ t.ephemeral_count = s.ephemeral_count
  /\ IF s.stream_line_open THEN Replaces(t, s, line) ELSE Adds(t, s, line)

LEMMA Reclosed ==
  ASSUME ConstantsOK, NEW s \in ScreenType
  PROVE  LET t == [s EXCEPT !.stream_line_open = FALSE]
         IN /\ t \in ScreenType /\ ~ t.stream_line_open /\ AtBottom(t) = [AtBottom(s) EXCEPT !.stream_line_open = FALSE]
            /\ t.history = s.history /\ t.rows = s.rows /\ t.prompt = s.prompt
            /\ t.caret = s.caret /\ t.cursor = s.cursor
            /\ t.ephemeral = s.ephemeral /\ t.ephemeral_count = s.ephemeral_count
            /\ (~ s.stream_line_open => t = s)
            /\ Keeps(t, s)
<1> DEFINE t == [s EXCEPT !.stream_line_open = FALSE]
           c == <<prompt_top_row - 1, 0>>
<1>1. /\ t \in ScreenType /\ ~ t.stream_line_open
      /\ t.history = s.history /\ t.rows = s.rows /\ t.prompt = s.prompt
      /\ t.caret = s.caret /\ t.cursor = s.cursor
      /\ t.ephemeral = s.ephemeral /\ t.ephemeral_count = s.ephemeral_count
  <2>1. t \in ScreenType
    BY DEF ScreenType
  <2> QED  BY <2>1 DEF ScreenType
<1>2. [t EXCEPT !.cursor = c] = [[s EXCEPT !.cursor = c] EXCEPT !.stream_line_open = FALSE]
  <2> HIDE DEF c
  <2> QED  BY DEF ScreenType
<1>3. AtBottom(t) = [AtBottom(s) EXCEPT !.stream_line_open = FALSE]
  BY <1>2 DEF AtBottom, MoveTo
<1>4. ~ s.stream_line_open => t = s
  <2> SUFFICES ASSUME ~ s.stream_line_open PROVE t = s
    OBVIOUS
  <2>1. s.stream_line_open = FALSE
    BY DEF ScreenType
  <2> QED  BY <2>1 DEF ScreenType
<1> DEFINE a == AtBottom(t)
           b == [AtBottom(s) EXCEPT !.stream_line_open = FALSE]
<1>6. a = b
  BY <1>3
<1> HIDE DEF t, a, b
<1>5. Keeps(t, s)
  BY <1>1 DEF Keeps, Transcript
<1>7. /\ t \in ScreenType /\ ~ t.stream_line_open /\ a = b
      /\ t.history = s.history /\ t.rows = s.rows /\ t.prompt = s.prompt
      /\ t.caret = s.caret /\ t.cursor = s.cursor
      /\ t.ephemeral = s.ephemeral /\ t.ephemeral_count = s.ephemeral_count
      /\ (~ s.stream_line_open => t = s) /\ Keeps(t, s)
  BY <1>1, <1>4, <1>5, <1>6
<1> QED  BY <1>7 DEF t, a, b

\* The cursor goes back to the caret.
LEMMA BackAt ==
  ASSUME ConstantsOK, NEW s \in ScreenType
  PROVE  LET t == BackToCaret(s)
         IN /\ t \in ScreenType /\ t.cursor = s.caret /\ t.caret = s.caret
            /\ t.history = s.history /\ t.rows = s.rows /\ t.prompt = s.prompt
            /\ t.ephemeral = s.ephemeral /\ t.ephemeral_count = s.ephemeral_count
            /\ t.stream_line_open = s.stream_line_open
            /\ Keeps(t, s)
<1> DEFINE t == BackToCaret(s)
<1>1. t \in ScreenType
  BY DEF BackToCaret, ScreenType
<1>2. /\ t.cursor = s.caret /\ t.caret = s.caret
      /\ t.history = s.history /\ t.rows = s.rows /\ t.prompt = s.prompt
      /\ t.ephemeral = s.ephemeral /\ t.ephemeral_count = s.ephemeral_count
      /\ t.stream_line_open = s.stream_line_open
  BY DEF BackToCaret, ScreenType
<1> HIDE DEF t
<1>3. Keeps(t, s)
  BY <1>2 DEF Keeps, Transcript
<1> QED  BY <1>1, <1>2, <1>3 DEF t

LEMMA CommitLine ==
  ASSUME ConstantsOK, NEW s \in ScreenType, NEW line \in LineType
  PROVE  Commits(commit_line(s, line), s, line)
<1> DEFINE z == [s EXCEPT !.stream_line_open = FALSE]
           x == IF s.stream_line_open THEN Write(AtBottom(z), line)
                ELSE Write(LineFeed(AtBottom(z)), line)
           t == BackToCaret(x)
<1>1. /\ z \in ScreenType /\ ~ z.stream_line_open
      /\ AtBottom(z) = [AtBottom(s) EXCEPT !.stream_line_open = FALSE]
      /\ z.history = s.history /\ z.rows = s.rows /\ z.prompt = s.prompt
      /\ z.caret = s.caret /\ z.ephemeral = s.ephemeral /\ z.ephemeral_count = s.ephemeral_count
      /\ (~ s.stream_line_open => z = s) /\ Keeps(z, s)
  BY Reclosed
<1>2. commit_line(s, line) = t
  <2>1. CASE s.stream_line_open
    BY <1>1, <2>1 DEF commit_line
  <2>2. CASE ~ s.stream_line_open
    <3>1. LineFeed(AtBottom(s)) \in ScreenType /\ ~ LineFeed(AtBottom(s)).stream_line_open
      BY <2>2, ScrollAtBottom
    <3>2. [LineFeed(AtBottom(s)) EXCEPT !.stream_line_open = FALSE] = LineFeed(AtBottom(s))
      BY <3>1, Reclosed
    <3>3. z = s
      BY <1>1, <2>2
    <3> HIDE DEF z
    <3> QED  BY <2>2, <3>2, <3>3 DEF commit_line
  <2> QED  BY <2>1, <2>2
<1> HIDE DEF z
<1>3. /\ x \in ScreenType /\ x.caret = z.caret /\ x.stream_line_open = z.stream_line_open
      /\ x.prompt = z.prompt /\ x.ephemeral = z.ephemeral /\ x.ephemeral_count = z.ephemeral_count
      /\ \A r \in prompt_top_row..(Height - 1) : x.rows[r] = z.rows[r]
      /\ IF s.stream_line_open THEN Replaces(x, z, line) ELSE Adds(x, z, line)
  <2>0. \A r \in prompt_top_row..(Height - 1) :
          r \in 0..(Height - 1) /\ ~ (r < prompt_top_row - 1) /\ r # prompt_top_row - 1
    BY TopRow
  <2>1. CASE s.stream_line_open
    <3> DEFINE y == Write(AtBottom(z), line)
    <3>1. x = y
      BY <2>1
    <3>2. /\ y \in ScreenType /\ y.history = z.history
          /\ \A r \in 0..(Height - 1) : y.rows[r] = IF r = prompt_top_row - 1 THEN line ELSE z.rows[r]
          /\ y.caret = z.caret /\ y.stream_line_open = z.stream_line_open
          /\ y.prompt = z.prompt /\ y.ephemeral = z.ephemeral
          /\ y.ephemeral_count = z.ephemeral_count
      BY <1>1, WriteAtBottom
    <3> HIDE DEF x, y
    <3>3. Replaces(y, z, line)
      BY <1>1, <3>2, RowsReplace
    <3>4. \A r \in prompt_top_row..(Height - 1) : y.rows[r] = z.rows[r]
      BY <2>0, <3>2
    <3> QED  BY <2>1, <3>1, <3>2, <3>3, <3>4
  <2>2. CASE ~ s.stream_line_open
    <3> DEFINE y == Write(LineFeed(AtBottom(z)), line)
    <3>1. x = y
      BY <2>2
    <3>2. /\ y \in ScreenType /\ y.history = Append(z.history, z.rows[0])
          /\ \A r \in 0..(Height - 1) :
               y.rows[r] = IF r < prompt_top_row - 1 THEN z.rows[r + 1]
                           ELSE IF r = prompt_top_row - 1 THEN line ELSE z.rows[r]
          /\ y.caret = z.caret /\ y.stream_line_open = z.stream_line_open
          /\ y.prompt = z.prompt /\ y.ephemeral = z.ephemeral
          /\ y.ephemeral_count = z.ephemeral_count
      BY <1>1, ScrollAtBottom
    <3> HIDE DEF x, y
    <3>3. Adds(y, z, line)
      BY <1>1, <3>2, RowsAdd
    <3>4. \A r \in prompt_top_row..(Height - 1) : y.rows[r] = z.rows[r]
      BY <2>0, <3>2
    <3> QED  BY <2>2, <3>1, <3>2, <3>3, <3>4
  <2> QED  BY <2>1, <2>2
<1> HIDE DEF x
<1>4. /\ t \in ScreenType /\ t.cursor = x.caret /\ t.caret = x.caret
      /\ t.rows = x.rows /\ t.prompt = x.prompt
      /\ t.ephemeral = x.ephemeral /\ t.ephemeral_count = x.ephemeral_count
      /\ t.stream_line_open = x.stream_line_open /\ Keeps(t, x)
  BY <1>3, BackAt
<1> HIDE DEF t
<1>5. SameBlock(t, s)
  BY <1>1, <1>3, <1>4 DEF SameBlock
<1>6. Drawn(s) => Drawn(t)
  BY <1>5, StaysDrawn
<1>7. IF s.stream_line_open THEN Replaces(t, s, line) ELSE Adds(t, s, line)
  BY <1>1, <1>3, <1>4 DEF Keeps, Replaces, Adds
<1> QED  BY <1>1, <1>2, <1>3, <1>4, <1>6, <1>7 DEF Commits

\* A stream line replaces the last line, if none is open.
Streams(t, s, line) ==
  /\ t \in ScreenType /\ t.stream_line_open /\ (Drawn(s) => Drawn(t))
  /\ t.ephemeral = s.ephemeral /\ t.ephemeral_count = s.ephemeral_count
  /\ IF s.stream_line_open THEN Keeps(t, s) ELSE Replaces(t, s, line)

LEMMA UpdateStream ==
  ASSUME ConstantsOK, NEW s \in ScreenType, NEW line \in LineType
  PROVE  Streams(update_stream(s, line), s, line)
<1>1. CASE s.stream_line_open
  <2>1. update_stream(s, line) = s
    BY <1>1 DEF update_stream
  <2> QED  BY <1>1, <2>1 DEF Streams, Keeps
<1>2. CASE ~ s.stream_line_open
  <2> DEFINE z == [s EXCEPT !.stream_line_open = TRUE]
             x == Write(AtBottom(z), line)
             t == BackToCaret(x)
             c == <<prompt_top_row - 1, 0>>
  <2>1. /\ z \in ScreenType /\ z.stream_line_open
        /\ z.history = s.history /\ z.rows = s.rows /\ z.prompt = s.prompt
        /\ z.caret = s.caret /\ z.ephemeral = s.ephemeral /\ z.ephemeral_count = s.ephemeral_count
    <3>1. z \in ScreenType
      BY DEF ScreenType
    <3> QED  BY <3>1 DEF ScreenType
  <2>2. [z EXCEPT !.cursor = c] = [[s EXCEPT !.cursor = c] EXCEPT !.stream_line_open = TRUE]
    <3> HIDE DEF c
    <3> QED  BY DEF ScreenType
  <2>3. AtBottom(z) = [AtBottom(s) EXCEPT !.stream_line_open = TRUE]
    BY <2>2 DEF AtBottom, MoveTo
  <2>4. update_stream(s, line) = t
    BY <1>2, <2>3 DEF update_stream
  <2> HIDE DEF z
  <2>5. /\ x \in ScreenType /\ x.history = z.history
        /\ \A r \in 0..(Height - 1) : x.rows[r] = IF r = prompt_top_row - 1 THEN line ELSE z.rows[r]
        /\ x.caret = z.caret /\ x.stream_line_open = z.stream_line_open
        /\ x.prompt = z.prompt /\ x.ephemeral = z.ephemeral
        /\ x.ephemeral_count = z.ephemeral_count
    BY <2>1, WriteAtBottom
  <2> HIDE DEF x
  <2>6. Replaces(x, z, line)
    BY <2>1, <2>5, RowsReplace
  <2>7. \A r \in prompt_top_row..(Height - 1) : x.rows[r] = z.rows[r]
    <3>1. \A r \in prompt_top_row..(Height - 1) : r \in 0..(Height - 1) /\ r # prompt_top_row - 1
      BY TopRow
    <3> QED  BY <2>5, <3>1
  <2>8. /\ t \in ScreenType /\ t.cursor = x.caret /\ t.caret = x.caret
        /\ t.rows = x.rows /\ t.prompt = x.prompt
        /\ t.ephemeral = x.ephemeral /\ t.ephemeral_count = x.ephemeral_count
        /\ t.stream_line_open = x.stream_line_open /\ Keeps(t, x)
    BY <2>5, BackAt
  <2> HIDE DEF t
  <2>9. SameBlock(t, s)
    BY <2>1, <2>5, <2>7, <2>8 DEF SameBlock
  <2>10. Drawn(s) => Drawn(t)
    BY <2>9, StaysDrawn
  <2>11. Keeps(z, s)
    BY <2>1 DEF Keeps, Transcript
  <2>12. Replaces(t, s, line)
    BY <2>6, <2>8, <2>11 DEF Keeps, Replaces
  <2> QED  BY <1>2, <2>1, <2>4, <2>5, <2>8, <2>10, <2>12 DEF Streams
<1> QED  BY <1>1, <1>2

\* The stream line is closed.
Flushes(t, s) ==
  /\ t \in ScreenType /\ ~ t.stream_line_open /\ (Drawn(s) => Drawn(t)) /\ Keeps(t, s)
  /\ t.ephemeral = s.ephemeral /\ t.ephemeral_count = s.ephemeral_count

LEMMA FlushStream ==
  ASSUME ConstantsOK, NEW s \in ScreenType
  PROVE  Flushes(flush_stream(s), s)
<1> DEFINE t == [s EXCEPT !.stream_line_open = FALSE]
<1>1. /\ t \in ScreenType /\ ~ t.stream_line_open
      /\ t.rows = s.rows /\ t.prompt = s.prompt
      /\ t.caret = s.caret /\ t.cursor = s.cursor
      /\ t.ephemeral = s.ephemeral /\ t.ephemeral_count = s.ephemeral_count
      /\ Keeps(t, s)
  BY Reclosed
<1>2. flush_stream(s) = t
  BY DEF flush_stream
<1> HIDE DEF t
<1>3. Drawn(s) => SameBlock(t, s)
  BY <1>1 DEF Drawn, SameBlock
<1>4. Drawn(s) => Drawn(t)
  BY <1>3, StaysDrawn
<1> QED  BY <1>1, <1>2, <1>4 DEF Flushes

\* The progress lines are set or taken away, or there were none to take away.
LEMMA SetEphemeralOpt ==
  ASSUME ConstantsOK, NEW s \in ScreenType, Drawn(s), NEW lines \in Shapes
  PROVE  Redrawn(set_ephemeral_opt(s, lines), s)
<1>1. CASE lines = <<>> /\ s.ephemeral_count = 0
  <2>1. set_ephemeral_opt(s, lines) = s
    BY <1>1 DEF set_ephemeral_opt
  <2> QED  BY <2>1 DEF Redrawn, SameTop
<1>2. CASE ~ (lines = <<>> /\ s.ephemeral_count = 0)
  <2>1. set_ephemeral_opt(s, lines) = set_ephemeral(s, lines)
    BY <1>2 DEF set_ephemeral_opt
  <2> QED  BY <2>1, SetEphemeral
<1> QED  BY <1>1, <1>2

\* After the end nothing stands below the transcript.
LEMMA ClearedForExit ==
  ASSUME ConstantsOK, NEW s \in ScreenType
  PROVE  /\ clear_for_exit(s) \in ScreenType /\ Cleared(clear_for_exit(s))
         /\ Keeps(clear_for_exit(s), s)
<1> DEFINE c == clear_bottom_block(s)
           none == <<>>
           zero == 0
           d == [c EXCEPT !.ephemeral = none]
           e == [d EXCEPT !.ephemeral_count = zero]
           f == [e EXCEPT !.stream_line_open = FALSE]
<1>1. c \in ScreenType /\ Cleared(c) /\ SameTop(c, s)
  BY ClearBlock
<1>2. clear_for_exit(s) = f
  BY DEF clear_for_exit
<1>3. Keeps(c, s)
  BY <1>1, SameTopKeeps
<1>a. none \in Shapes /\ zero \in 0..2
  BY EmptySeq DEF Shapes
<1> HIDE DEF c, none, zero
<1>4. d \in ScreenType /\ d.rows = c.rows /\ d.history = c.history
  BY <1>1, <1>a DEF ScreenType
<1> HIDE DEF d
<1>5. e \in ScreenType /\ e.rows = c.rows /\ e.history = c.history
  BY <1>4, <1>a DEF ScreenType
<1> HIDE DEF e
<1>6. f \in ScreenType /\ f.rows = c.rows /\ f.history = c.history
  BY <1>5 DEF ScreenType
<1> HIDE DEF f
<1>7. Cleared(f) /\ Keeps(f, s)
  BY <1>1, <1>3, <1>6 DEF Cleared, Keeps, Transcript
<1> QED  BY <1>2, <1>6, <1>7

-----------------------------------------------------------------------------
(* Mutations *)

\* What may be applied to a screen, and the screens it may be applied to.
Commit == {"CommitLine"} \X LineType
Streamed == {"StreamToken"} \X LineType
MutationType ==
  Commit \cup Streamed \cup {Flush} \cup {"SetEphemeral"} \X Shapes
  \cup {"UpdatePrompt"} \X BarType
Live == {s \in ScreenType : Drawn(s)}

\* What a mutation does to the transcript.
Moves(t, s, m) ==
  /\ t \in Live
  /\ m \in Commit => ~ t.stream_line_open /\ IF s.stream_line_open THEN Replaces(t, s, m[2])
                                             ELSE Adds(t, s, m[2])
  /\ m \in Streamed => t.stream_line_open /\ IF s.stream_line_open THEN Keeps(t, s)
                                             ELSE Replaces(t, s, m[2])
  /\ m = Flush => ~ t.stream_line_open /\ Keeps(t, s)
  /\ m \notin Commit \cup Streamed \cup {Flush} =>
       t.stream_line_open = s.stream_line_open /\ Keeps(t, s)

LEMMA MutationMoves ==
  ASSUME ConstantsOK, NEW s \in Live, NEW m \in MutationType
  PROVE  Moves(apply_mutation(s, m), s, m)
<1>1. s \in ScreenType /\ Drawn(s)
  BY DEF Live
<1>2. ASSUME m \in Commit PROVE Moves(apply_mutation(s, m), s, m)
  <2>1. m[1] = "CommitLine" /\ m[2] \in LineType /\ m \notin Streamed /\ m # Flush
    BY <1>2 DEF Commit, Streamed, Flush
  <2>2. apply_mutation(s, m) = commit_line(s, m[2])
    BY <2>1 DEF apply_mutation
  <2>3. Commits(commit_line(s, m[2]), s, m[2])
    BY <1>1, <2>1, CommitLine
  <2> QED  BY <1>1, <1>2, <2>1, <2>2, <2>3 DEF Commits, Moves, Live
<1>3. ASSUME m \in Streamed PROVE Moves(apply_mutation(s, m), s, m)
  <2>1. m[1] = "StreamToken" /\ m[2] \in LineType /\ m \notin Commit /\ m # Flush
    BY <1>3 DEF Commit, Streamed, Flush
  <2>2. apply_mutation(s, m) = update_stream(s, m[2])
    BY <2>1 DEF apply_mutation
  <2>3. Streams(update_stream(s, m[2]), s, m[2])
    BY <1>1, <2>1, UpdateStream
  <2> QED  BY <1>1, <1>3, <2>1, <2>2, <2>3 DEF Streams, Moves, Live
<1>4. ASSUME m = Flush PROVE Moves(apply_mutation(s, m), s, m)
  <2>1. m[1] = "FlushStream" /\ m \notin Commit /\ m \notin Streamed
    BY <1>4 DEF Commit, Streamed, Flush
  <2>2. apply_mutation(s, m) = flush_stream(s)
    BY <2>1 DEF apply_mutation
  <2>3. Flushes(flush_stream(s), s)
    BY <1>1, FlushStream
  <2> QED  BY <1>1, <1>4, <2>1, <2>2, <2>3 DEF Flushes, Moves, Live
<1>5. ASSUME m \in {"SetEphemeral"} \X Shapes PROVE Moves(apply_mutation(s, m), s, m)
  <2>1. /\ m[1] = "SetEphemeral" /\ m[2] \in Shapes
        /\ m \notin Commit /\ m \notin Streamed /\ m # Flush
    BY <1>5 DEF Commit, Streamed, Flush
  <2>2. apply_mutation(s, m) = set_ephemeral_opt(s, m[2])
    BY <2>1 DEF apply_mutation
  <2>3. Redrawn(apply_mutation(s, m), s)
    BY <1>1, <2>1, <2>2, SetEphemeralOpt
  <2>4. Keeps(apply_mutation(s, m), s)
    BY <1>1, <2>3, SameTopKeeps DEF Redrawn
  <2> QED  BY <2>1, <2>3, <2>4 DEF Redrawn, SameTop, Moves, Live
<1>6. ASSUME m \in {"UpdatePrompt"} \X BarType PROVE Moves(apply_mutation(s, m), s, m)
  <2>1. /\ m[1] = "UpdatePrompt" /\ m[2] \in BarType
        /\ m \notin Commit /\ m \notin Streamed /\ m # Flush
    BY <1>6 DEF Commit, Streamed, Flush
  <2>2. apply_mutation(s, m) = update_prompt(s, build_prompt(m[2]))
    BY <2>1 DEF apply_mutation
  <2>3. Redrawn(apply_mutation(s, m), s)
    <3>1. build_prompt(m[2]) \in BarType /\ s.ephemeral_count = Len(s.ephemeral)
      BY <1>1, <2>1, PromptBuilt DEF Drawn
    <3> QED  BY <1>1, <2>2, <3>1, UpdatePromptTo
  <2>4. Keeps(apply_mutation(s, m), s)
    BY <1>1, <2>3, SameTopKeeps DEF Redrawn
  <2> QED  BY <2>1, <2>3, <2>4 DEF Redrawn, SameTop, Moves, Live
<1> QED  BY <1>2, <1>3, <1>4, <1>5, <1>6 DEF MutationType

\* Mutations are applied one after another.
Steps(g, s, mutations) ==
  /\ g \in [0..Len(mutations) -> Live]
  /\ g[0] = s /\ g[Len(mutations)] = ApplyAll(s, mutations)
  /\ \A k \in 1..Len(mutations) : Moves(g[k], g[k - 1], mutations[k])

LEMMA Applied ==
  ASSUME ConstantsOK, NEW s \in Live, NEW mutations \in Seq(MutationType)
  PROVE  \E g : Steps(g, s, mutations)
<1> DEFINE n == Len(mutations)
           F == [p \in (1..n) \X Live |-> apply_mutation(p[2], mutations[p[1]])]
           Good(h) == h = [S \in SUBSET (1..n) |->
                             IF S = {} THEN s
                             ELSE apply_mutation(h[S \ {Max(S)}], mutations[Max(S)])]
           c == CHOOSE h : Good(h)
<1>1. n \in Nat /\ DOMAIN mutations = 1..n /\ \A k \in 1..n : mutations[k] \in MutationType
  BY LenProperties, ElementOfSeq
<1>2. ApplyAll(s, mutations) = c[1..n]
  <2>1. ApplyAll(s, mutations) = (CHOOSE h : h = [S \in SUBSET (DOMAIN mutations) |->
                             IF S = {} THEN s
                             ELSE apply_mutation(h[S \ {Max(S)}], mutations[Max(S)])])[DOMAIN mutations]
    BY DEF ApplyAll, FoldLeft, MapThenFoldSet
  <2> QED  BY <1>1, <2>1
<1> HIDE DEF n
<1>t. \A u \in Live, k \in 1..n : apply_mutation(u, mutations[k]) \in Live
                                  /\ Moves(apply_mutation(u, mutations[k]), u, mutations[k])
  BY <1>1, MutationMoves DEF Moves
<1>3. F \in [(1..n) \X Live -> Live]
  BY <1>1, <1>t
<1> HIDE DEF F
<1>a. PICK h : IsFold(h, Live, s, n, F)
  BY <1>1, <1>3, FoldExists
<1>4. /\ h \in [SUBSET (1..n) -> Live]
      /\ \A S \in SUBSET (1..n) : h[S] = IF S = {} THEN s ELSE F[<<Max(S), h[S \ {Max(S)}]>>]
  BY <1>a DEF IsFold
<1>5. Good(h)
  <2>1. ASSUME NEW S \in SUBSET (1..n), S # {}
        PROVE  F[<<Max(S), h[S \ {Max(S)}]>>] = apply_mutation(h[S \ {Max(S)}], mutations[Max(S)])
    <3>1. Max(S) \in 1..n /\ h[S \ {Max(S)}] \in Live
      BY <1>1, <1>4, <2>1, WithoutMax
    <3> QED  BY <3>1 DEF F
  <2>2. \A S \in SUBSET (1..n) :
          h[S] = IF S = {} THEN s ELSE apply_mutation(h[S \ {Max(S)}], mutations[Max(S)])
    BY <1>4, <2>1
  <2> QED  BY <1>4, <2>2
<1>6. Good(c)
  <2> HIDE DEF Good
  <2> QED  BY <1>5
<1> HIDE DEF c
<1> DEFINE g == [k \in 0..n |-> c[1..k]]
<1>7. g[0] = s
  BY <1>1, <1>6, UpTo
<1>8. ASSUME NEW k \in 1..n PROVE g[k] = apply_mutation(g[k - 1], mutations[k])
  <2>1. 1..k \in SUBSET (1..n) /\ 1..k # {} /\ Max(1..k) = k /\ (1..k) \ {k} = 1..k - 1
    BY <1>1, UpTo
  <2>2. c[1..k] = apply_mutation(c[1..k - 1], mutations[k])
    BY <1>6, <2>1
  <2>3. k \in 0..n /\ k - 1 \in 0..n
    BY <1>1
  <2> QED  BY <2>2, <2>3
<1>9. \A k \in 0..n : k \in {j \in 0..n : g[j] \in Live}
  <2> DEFINE P == {j \in 0..n : g[j] \in Live}
  <2>1. 0 \in P
    BY <1>1, <1>7
  <2>2. ASSUME NEW k \in 1..n, k - 1 \in P PROVE k \in P
    <3>1. g[k - 1] \in Live
      BY <1>1, <2>2
    <3>2. apply_mutation(g[k - 1], mutations[k]) \in Live
      <4> HIDE DEF g
      <4> QED  BY <3>1, <1>t
    <3>3. k \in 0..n
      BY <1>1
    <3>4. g[k] \in Live
      BY <1>8, <3>2
    <3> QED  BY <3>3, <3>4
  <2> HIDE DEF P, g
  <2>3. \A k \in 0..n : k \in P
    BY <1>1, <2>1, <2>2, Climb
  <2> QED  BY <2>3 DEF P
<1>10. g \in [0..n -> Live]
  BY <1>9
<1>11. n \in 0..n /\ g[n] = c[1..n]
  BY <1>1
<1> HIDE DEF g
<1>12. \A k \in 1..n : Moves(g[k], g[k - 1], mutations[k])
  <2> SUFFICES ASSUME NEW k \in 1..n PROVE Moves(g[k], g[k - 1], mutations[k])
    OBVIOUS
  <2>1. k - 1 \in 0..n
    BY <1>1
  <2>2. g[k - 1] \in Live
    BY <1>10, <2>1
  <2> QED  BY <1>8, <1>t, <2>2
<1>13. g[0] = s /\ g[n] = ApplyAll(s, mutations)
  BY <1>2, <1>7, <1>11
<1>14. Steps(g, s, mutations)
  BY <1>10, <1>12, <1>13 DEF Steps, n
<1> QED  BY <1>14

-----------------------------------------------------------------------------
(* What a list of mutations does to the transcript *)

\* The first c lines are as they were and the lines L follow; an open stream line is
\* replaced by the first of them, if nothing closed it before.
Grown(t, s, L, c) ==
  /\ t \in Live /\ L \in Seq(LineType) /\ c \in Nat
  /\ c = Len(Transcript(s))
     \/ (c = Len(Transcript(s)) - 1 /\ s.stream_line_open /\ Len(L) >= 1)
  /\ t.stream_line_open => s.stream_line_open /\ Len(L) = 0
  /\ Len(Transcript(t)) = c + Len(L)
  /\ \A k \in 1..c : Transcript(t)[k] = Transcript(s)[k]
  /\ \A j \in 1..Len(L) : Transcript(t)[c + j] = L[j]

LEMMA GrownKeeps ==
  ASSUME NEW s, NEW u, NEW L, NEW c, NEW t \in Live, Grown(u, s, L, c), Keeps(t, u),
         t.stream_line_open => u.stream_line_open
  PROVE  Grown(t, s, L, c)
BY DEF Grown, Keeps

LEMMA GrownCommit ==
  ASSUME ConstantsOK, NEW s \in Live, NEW u, NEW L, NEW c, NEW t, NEW m \in Commit,
         Grown(u, s, L, c), Moves(t, u, m)
  PROVE  Grown(t, s, Append(L, m[2]), IF u.stream_line_open THEN Len(Transcript(s)) - 1 ELSE c)
<1> DEFINE line == m[2]
           M == Append(L, line)
           d == IF u.stream_line_open THEN Len(Transcript(s)) - 1 ELSE c
           n == Len(L)
           a == Transcript(s)
           b == Transcript(u)
           e == Transcript(t)
<1>1. line \in LineType
  BY DEF Commit
<1>2. u \in Live /\ L \in Seq(LineType) /\ c \in Nat /\ n \in Nat
  BY LenProperties DEF Grown
<1>3. Len(a) \in Nat /\ Len(a) >= 1
  BY TranscriptIs DEF Live
<1>4. t \in Live /\ ~ t.stream_line_open
  BY DEF Moves
<1> HIDE DEF line
<1>5. /\ M \in Seq(LineType) /\ Len(M) = n + 1 /\ M[n + 1] = line
      /\ \A j \in 1..n : M[j] = L[j]
  BY <1>1, <1>2, AppendProperties
<1>6. /\ c = Len(a) \/ (c = Len(a) - 1 /\ s.stream_line_open /\ n >= 1)
      /\ u.stream_line_open => s.stream_line_open /\ n = 0
      /\ Len(b) = c + n
      /\ \A k \in 1..c : b[k] = a[k]
      /\ \A j \in 1..n : b[c + j] = L[j]
  BY DEF Grown
<1>7. CASE u.stream_line_open
  <2>1. Replaces(t, u, line)
    BY <1>7 DEF Moves, line
  <2>2. /\ Len(e) = Len(b) /\ \A k \in 1..(Len(b) - 1) : e[k] = b[k]
        /\ e[Len(b)] = line
    BY <2>1 DEF Replaces
  <2> DEFINE z == Len(a)
  <2>a. d = z - 1
    BY <1>7
  <2> HIDE DEF a, b, e, M, n, d
  <2>3. d = z - 1 /\ c = z /\ n = 0 /\ Len(b) = z /\ z \in Nat /\ z >= 1 /\ s.stream_line_open
    BY <1>3, <1>6, <1>7, <2>a
  <2> HIDE DEF z
  <2>4. /\ d \in Nat /\ Len(M) = 1 /\ Len(e) = d + Len(M)
    BY <1>5, <2>2, <2>3
  <2>5. \A k \in 1..d : e[k] = a[k]
    BY <1>6, <2>2, <2>3
  <2>6. \A j \in 1..Len(M) : e[d + j] = M[j]
    BY <1>5, <2>2, <2>3
  <2>7. d = Len(a) - 1
    BY <2>3 DEF z
  <2>8. Len(M) >= 1
    BY <2>4
  <2> QED  BY <1>4, <1>5, <2>3, <2>4, <2>5, <2>6, <2>7, <2>8 DEF Grown, a, e, M, d, line
<1>8. CASE ~ u.stream_line_open
  <2>1. Adds(t, u, line)
    BY <1>8 DEF Moves, line
  <2>2. /\ Len(e) = Len(b) + 1 /\ \A k \in 1..Len(b) : e[k] = b[k]
        /\ e[Len(b) + 1] = line
    BY <2>1 DEF Adds
  <2> HIDE DEF a, b, e, M
  <2>3. d = c
    BY <1>8
  <2> HIDE DEF d, n
  <2>4. Len(e) = c + Len(M) /\ Len(M) >= 1
    BY <1>2, <1>5, <1>6, <2>2
  <2>5. \A k \in 1..c : e[k] = a[k]
    BY <1>2, <1>6, <2>2
  <2>6. \A j \in 1..Len(M) : e[c + j] = M[j]
    <3> SUFFICES ASSUME NEW j \in 1..Len(M) PROVE e[c + j] = M[j]
      OBVIOUS
    <3>1. CASE j = n + 1
      <4>1. c + j = Len(b) + 1
        BY <1>2, <1>6, <3>1
      <4> QED  BY <1>5, <2>2, <3>1, <4>1
    <3>2. CASE j # n + 1
      <4>1. j \in 1..n /\ c + j \in 1..Len(b)
        BY <1>2, <1>5, <1>6, <3>2
      <4> QED  BY <1>5, <1>6, <2>2, <4>1
    <3> QED  BY <3>1, <3>2
  <2>7. c = Len(a) \/ (c = Len(a) - 1 /\ s.stream_line_open /\ Len(M) >= 1)
    BY <1>6, <2>4
  <2> QED  BY <1>2, <1>4, <1>5, <2>3, <2>4, <2>5, <2>6, <2>7 DEF Grown, a, e, M, d, line
<1> QED  BY <1>7, <1>8

\* The lines L are those that the first k mutations commit, in their order.
Selects(p, L, mutations, k) ==
  /\ p \in [1..Len(L) -> 1..k]
  /\ \A i, j \in 1..Len(L) : i < j => p[i] < p[j]
  /\ \A j \in 1..Len(L) : mutations[p[j]] \in Commit /\ L[j] = mutations[p[j]][2]
  /\ \A i \in 1..k : mutations[i] \in Commit => \E j \in 1..Len(L) : p[j] = i

LEMMA SelectsMore ==
  ASSUME NEW p, NEW L \in Seq(LineType), NEW mutations, NEW k \in Nat \ {0},
         Selects(p, L, mutations, k - 1)
  PROVE  /\ mutations[k] \notin Commit => Selects(p, L, mutations, k)
         /\ mutations[k] \in Commit =>
              \E q : Selects(q, Append(L, mutations[k][2]), mutations, k)
<1> DEFINE n == Len(L)
<1>1. n \in Nat
  BY LenProperties
<1>2. /\ p \in [1..n -> 1..(k - 1)] /\ \A i, j \in 1..n : i < j => p[i] < p[j]
      /\ \A j \in 1..n : mutations[p[j]] \in Commit /\ L[j] = mutations[p[j]][2]
      /\ \A i \in 1..(k - 1) : mutations[i] \in Commit => \E j \in 1..n : p[j] = i
  BY DEF Selects
<1>3. \A i \in 1..(k - 1) : i \in 1..k /\ i < k
  OBVIOUS
<1>4. \A i \in 1..k : i \in 1..(k - 1) \/ i = k
  OBVIOUS
<1>5. ASSUME mutations[k] \notin Commit PROVE Selects(p, L, mutations, k)
  <2> HIDE DEF n
  <2>1. p \in [1..n -> 1..k]
    BY <1>2, <1>3
  <2>2. \A i \in 1..k : mutations[i] \in Commit => \E j \in 1..n : p[j] = i
    BY <1>2, <1>4, <1>5
  <2> QED  BY <1>2, <2>1, <2>2 DEF Selects, n
<1>6. ASSUME mutations[k] \in Commit
      PROVE  \E q : Selects(q, Append(L, mutations[k][2]), mutations, k)
  <2> DEFINE line == mutations[k][2]
             M == Append(L, line)
             q == [j \in 1..(n + 1) |-> IF j <= n THEN p[j] ELSE k]
  <2>1. line \in LineType
    BY <1>6 DEF Commit
  <2> HIDE DEF line
  <2>2. /\ M \in Seq(LineType) /\ Len(M) = n + 1 /\ M[n + 1] = line
        /\ \A j \in 1..n : M[j] = L[j]
    BY <1>1, <2>1, AppendProperties
  <2> HIDE DEF M, n
  <2>3. /\ \A j \in 1..n : j \in 1..(n + 1) /\ j <= n
        /\ n + 1 \in 1..(n + 1) /\ ~ (n + 1 <= n)
        /\ \A j \in 1..(n + 1) : j \in 1..n \/ j = n + 1
        /\ \A i, j \in 1..(n + 1) : i < j => i \in 1..n
    BY <1>1
  <2>4. (\A j \in 1..n : q[j] = p[j]) /\ q[n + 1] = k
    BY <2>3
  <2>5. k \in 1..k
    OBVIOUS
  <2>6. q \in [1..(n + 1) -> 1..k]
    BY <1>2, <1>3, <2>3, <2>5
  <2> HIDE DEF q
  <2>7. \A i, j \in 1..(n + 1) : i < j => q[i] < q[j]
    <3> SUFFICES ASSUME NEW i \in 1..(n + 1), NEW j \in 1..(n + 1), i < j
                 PROVE  q[i] < q[j]
      OBVIOUS
    <3>1. i \in 1..n /\ q[i] = p[i] /\ p[i] \in 1..(k - 1)
      BY <1>2, <2>3, <2>4
    <3>2. CASE j \in 1..n
      BY <1>2, <2>4, <3>1, <3>2
    <3>3. CASE j = n + 1
      BY <1>3, <2>4, <3>1, <3>3
    <3> QED  BY <2>3, <3>2, <3>3
  <2>8. \A j \in 1..(n + 1) : mutations[q[j]] \in Commit /\ M[j] = mutations[q[j]][2]
    <3> SUFFICES ASSUME NEW j \in 1..(n + 1)
                 PROVE  mutations[q[j]] \in Commit /\ M[j] = mutations[q[j]][2]
      OBVIOUS
    <3>1. CASE j \in 1..n
      BY <1>2, <2>2, <2>4, <3>1
    <3>2. CASE j = n + 1
      BY <1>6, <2>2, <2>4, <3>2 DEF line
    <3> QED  BY <2>3, <3>1, <3>2
  <2>9. \A i \in 1..k : mutations[i] \in Commit => \E j \in 1..(n + 1) : q[j] = i
    <3> SUFFICES ASSUME NEW i \in 1..k, mutations[i] \in Commit
                 PROVE  \E j \in 1..(n + 1) : q[j] = i
      OBVIOUS
    <3>1. CASE i = k
      BY <2>3, <2>4, <3>1
    <3>2. CASE i \in 1..(k - 1)
      <4>1. PICK j \in 1..n : p[j] = i
        BY <1>2, <3>2
      <4> QED  BY <2>3, <2>4, <4>1
    <3> QED  BY <1>4, <3>1, <3>2
  <2>10. Selects(q, M, mutations, k)
    BY <2>2, <2>6, <2>7, <2>8, <2>9 DEF Selects
  <2> QED  BY <2>10 DEF M, line
<1> QED  BY <1>5, <1>6

\* Mutations without a stream line add the lines that they commit.
LEMMA LinesUpTo ==
  ASSUME ConstantsOK, NEW s \in Live, NEW mutations \in Seq(MutationType), NEW n \in Nat,
         n <= Len(mutations), NEW g, Steps(g, s, mutations),
         \A k \in 1..n : mutations[k] \notin Streamed
  PROVE  \E L, c, p : Grown(g[n], s, L, c) /\ Selects(p, L, mutations, n)
<1>0. Len(mutations) \in Nat /\ \A k \in 1..Len(mutations) : mutations[k] \in MutationType
  BY LenProperties, ElementOfSeq
<1>1. n \in Nat /\ \A k \in 1..n : mutations[k] \in MutationType \ Streamed
  BY <1>0
<1>3. g[0] = s /\ \A k \in 1..n : Moves(g[k], g[k - 1], mutations[k])
  BY <1>0 DEF Steps
<1> DEFINE Done(k) == \E L, c, p : Grown(g[k], s, L, c) /\ Selects(p, L, mutations, k)
           P == {k \in 0..n : Done(k)}
<1>4. 0 \in P
  <2> DEFINE L == <<>>
             c == Len(Transcript(s))
             p == <<>>
  <2>1. Len(Transcript(s)) \in Nat
    BY TranscriptIs DEF Live
  <2>2. L \in Seq(LineType) /\ Len(L) = 0
    BY EmptySeq
  <2>3. p \in [1..0 -> 1..0]
    OBVIOUS
  <2> HIDE DEF L, p
  <2>4. Grown(s, s, L, c)
    BY <2>1, <2>2 DEF Grown
  <2>5. Selects(p, L, mutations, 0)
    BY <2>2, <2>3 DEF Selects
  <2>6. Done(0)
    BY <1>3, <2>4, <2>5
  <2> QED  BY <1>1, <2>6
<1>5. ASSUME NEW k \in 1..n, k - 1 \in P PROVE k \in P
  <2>1. PICK L, c, p : Grown(g[k - 1], s, L, c) /\ Selects(p, L, mutations, k - 1)
    BY <1>5
  <2>2. L \in Seq(LineType)
    BY <2>1 DEF Grown
  <2>3. k \in Nat \ {0} /\ k \in 0..n
    BY <1>1
  <2>4. Moves(g[k], g[k - 1], mutations[k]) /\ mutations[k] \in MutationType \ Streamed
    BY <1>1, <1>3
  <2>5. CASE mutations[k] \in Commit
    <3>1. Grown(g[k], s, Append(L, mutations[k][2]),
                IF g[k - 1].stream_line_open THEN Len(Transcript(s)) - 1 ELSE c)
      BY <2>1, <2>4, <2>5, GrownCommit
    <3>2. \E q : Selects(q, Append(L, mutations[k][2]), mutations, k)
      BY <2>1, <2>2, <2>3, <2>5, SelectsMore
    <3>3. Done(k)
      BY <3>1, <3>2
    <3> QED  BY <2>3, <3>3
  <2>6. CASE mutations[k] \notin Commit
    <3>1. /\ g[k] \in Live /\ Keeps(g[k], g[k - 1])
          /\ g[k].stream_line_open => g[k - 1].stream_line_open
      BY <2>4, <2>6 DEF Moves
    <3>2. Grown(g[k], s, L, c)
      BY <2>1, <3>1, GrownKeeps
    <3>3. Selects(p, L, mutations, k)
      BY <2>1, <2>2, <2>3, <2>6, SelectsMore
    <3>4. Done(k)
      BY <3>2, <3>3
    <3> QED  BY <2>3, <3>4
  <2> QED  BY <2>5, <2>6
<1> HIDE DEF P
<1>6. \A k \in 0..n : k \in P
  BY <1>1, <1>4, <1>5, Climb
<1>7. n \in 0..n
  BY <1>1
<1>8. Done(n)
  BY <1>6, <1>7 DEF P
<1> QED  BY <1>8

LEMMA LinesShown ==
  ASSUME ConstantsOK, NEW s \in Live, NEW mutations \in Seq(MutationType \ Streamed)
  PROVE  \E L, c, p : /\ Grown(ApplyAll(s, mutations), s, L, c)
                      /\ Selects(p, L, mutations, Len(mutations))
<1> DEFINE n == Len(mutations)
<1>1. n \in Nat /\ DOMAIN mutations = 1..n /\ \A k \in 1..n : mutations[k] \in MutationType \ Streamed
  BY LenProperties, ElementOfSeq
<1>2. mutations \in Seq(MutationType)
  <2>2. \A k \in 1..n : mutations[k] \in MutationType
    BY <1>1
  <2>3. mutations = [k \in 1..n |-> mutations[k]]
    BY <1>1
  <2> HIDE DEF n
  <2>4. [k \in 1..n |-> mutations[k]] \in Seq(MutationType)
    BY <1>1, <2>2
  <2> QED  BY <2>3, <2>4
<1>3. PICK g : Steps(g, s, mutations)
  BY <1>2, Applied
<1>4. \E L, c, p : Grown(g[n], s, L, c) /\ Selects(p, L, mutations, n)
  <2>1. n <= Len(mutations) /\ \A k \in 1..n : mutations[k] \notin Streamed
    BY <1>1
  <2> HIDE DEF n
  <2> QED  BY <1>1, <1>2, <1>3, <2>1, LinesUpTo
<1>5. g[n] = ApplyAll(s, mutations)
  BY <1>3 DEF Steps
<1> QED  BY <1>4, <1>5
-----------------------------------------------------------------------------
(* What waits in the background *)

\* What an entry may hold of its pipeline.
Notice(r) == <<"CommitLine", <<"truncated", r>>>>
Held(r) == {Flush, Notice(r)} \cup {<<"CommitLine", <<"line", r, n>>>> : n \in Nat}

EntryType ==
  {e \in [run : Runs, status : {"running", "done", "error"}, buffered : Seq(Commit \cup {Flush}),
          truncated : BOOLEAN] :
     /\ e.buffered \in Seq(Held(e.run)) /\ Len(e.buffered) <= MaxBuffered + 1
     /\ ~ e.truncated => Len(e.buffered) <= MaxBuffered
     /\ e.truncated => \E j \in DOMAIN e.buffered : e.buffered[j] = Notice(e.run)}

LEMMA HeldTyped ==
  ASSUME ConstantsOK, NEW r \in Runs
  PROVE  /\ Held(r) \in SUBSET (Commit \cup {Flush})
         /\ Commit \cup {Flush} \in SUBSET (MutationType \ Streamed)
         /\ Notice(r) \in Held(r) /\ Flush \in Held(r)
<1>1. \A n \in Nat : <<"line", r, n>> \in LineType
  BY DEF LineType
<1>2. <<"truncated", r>> \in LineType
  BY DEF LineType
<1>3. \A line \in LineType : <<"CommitLine", line>> \in Commit
  BY DEF Commit
<1>4. Notice(r) \in Commit
  BY <1>2, <1>3 DEF Notice
<1>5. Held(r) \in SUBSET (Commit \cup {Flush})
  BY <1>1, <1>3, <1>4 DEF Held
<1>6. \A m \in Commit \cup {Flush} : m \notin Streamed
  BY DEF Commit, Streamed, Flush
<1> QED  BY <1>5, <1>6 DEF MutationType, Held

\* A mutation is kept while there is room; the first that is not leaves a notice.
BufferOne(e, m) ==
  IF Len(e.buffered) < MaxBuffered THEN [e EXCEPT !.buffered = Append(@, m)]
  ELSE IF e.truncated THEN e
  ELSE [e EXCEPT !.truncated = TRUE, !.buffered = Append(@, Notice(e.run))]

Collects(f, e, m) ==
  /\ f \in EntryType /\ f.run = e.run /\ f.status = e.status
  /\ \/ f = e /\ e.truncated
     \/ f.buffered = Append(e.buffered, m)
     \/ f.buffered = Append(e.buffered, Notice(e.run)) /\ f.truncated

LEMMA CollectsOne ==
  ASSUME ConstantsOK, NEW e \in EntryType, NEW m \in Held(e.run)
  PROVE  Collects(BufferOne(e, m), e, m)
<1> DEFINE b == e.buffered
           r == e.run
           n == Len(b)
           Longer(c, x) ==
             /\ c \in Seq(Held(r)) /\ Len(c) = n + 1 /\ c \in Seq(Commit \cup {Flush})
             /\ DOMAIN c = 1..(n + 1) /\ c[n + 1] = x /\ \A j \in 1..n : c[j] = b[j]
<1>1. /\ e \in [run : Runs, status : {"running", "done", "error"},
                buffered : Seq(Commit \cup {Flush}), truncated : BOOLEAN]
      /\ b \in Seq(Held(r)) /\ n <= MaxBuffered + 1 /\ r \in Runs
      /\ ~ e.truncated => n <= MaxBuffered
      /\ e.truncated => \E j \in DOMAIN b : b[j] = Notice(r)
  BY DEF EntryType
<1>2. n \in Nat /\ DOMAIN b = 1..n /\ MaxBuffered \in Nat
  BY <1>1, LenProperties DEF ConstantsOK
<1>3. ASSUME NEW x \in Held(r), NEW c, c = Append(b, x) PROVE Longer(c, x)
  <2> HIDE DEF b
  <2>1. x \in Commit \cup {Flush} /\ b \in Seq(Commit \cup {Flush})
    <3>1. b \in Seq(Commit \cup {Flush})
      BY <1>1 DEF b
    <3> QED  BY <1>1, <3>1, HeldTyped
  <2>2. /\ c \in Seq(Held(r)) /\ Len(c) = n + 1 /\ c[n + 1] = x /\ \A j \in 1..n : c[j] = b[j]
    BY <1>1, <1>3, AppendProperties
  <2>3. c \in Seq(Commit \cup {Flush})
    BY <1>3, <2>1, AppendProperties
  <2>4. DOMAIN c = 1..(n + 1)
    BY <2>2, LenProperties
  <2> QED  BY <2>2, <2>3, <2>4
<1>4. CASE n < MaxBuffered
  <2> DEFINE c == Append(b, m)
             f == [e EXCEPT !.buffered = c]
  <2>1. BufferOne(e, m) = f
    BY <1>4 DEF BufferOne
  <2>0. m \in Held(r) /\ c = Append(b, m)
    OBVIOUS
  <2>2. /\ c \in Seq(Held(r)) /\ Len(c) = n + 1 /\ c \in Seq(Commit \cup {Flush})
        /\ DOMAIN c = 1..(n + 1) /\ \A j \in 1..n : c[j] = b[j]
    <3>1. Longer(c, m)
      <4> HIDE DEF Longer, c, b, r, n
      <4> QED  BY <1>3, <2>0
    <3> QED  BY <3>1
  <2>3. e.truncated => \E j \in DOMAIN c : c[j] = Notice(r)
    <3>1. \A j \in 1..n : j \in 1..(n + 1)
      BY <1>2
    <3> HIDE DEF b, c, n, r
    <3> QED  BY <1>1, <1>2, <2>2, <3>1
  <2> HIDE DEF c
  <2>4. f.buffered = c /\ f.run = r /\ f.status = e.status /\ f.truncated = e.truncated
    BY <1>1
  <2>5. f \in [run : Runs, status : {"running", "done", "error"},
               buffered : Seq(Commit \cup {Flush}), truncated : BOOLEAN]
    BY <1>1, <2>2
  <2>6. Len(c) <= MaxBuffered
    BY <1>2, <1>4, <2>2
  <2>7. Len(c) <= MaxBuffered + 1
    BY <1>2, <1>4, <2>2
  <2> HIDE DEF f, r, b, n
  <2>8. f \in EntryType
    BY <2>2, <2>3, <2>4, <2>5, <2>6, <2>7 DEF EntryType
  <2>9. f.buffered = Append(e.buffered, m) /\ f.run = e.run
    BY <2>4 DEF c, b, r
  <2> QED  BY <2>1, <2>4, <2>8, <2>9 DEF Collects
<1>5. CASE ~ (n < MaxBuffered) /\ e.truncated
  BY <1>5 DEF BufferOne, Collects
<1>6. CASE ~ (n < MaxBuffered) /\ ~ e.truncated
  <2> DEFINE c == Append(b, Notice(r))
             d == [e EXCEPT !.truncated = TRUE]
             f == [d EXCEPT !.buffered = c]
  <2>1. BufferOne(e, m) = f
    BY <1>6 DEF BufferOne
  <2>0. Notice(r) \in Held(r)
    BY <1>1, HeldTyped
  <2>2. /\ c \in Seq(Held(r)) /\ Len(c) = n + 1 /\ c \in Seq(Commit \cup {Flush})
        /\ DOMAIN c = 1..(n + 1) /\ c[n + 1] = Notice(r)
    <3>1. Longer(c, Notice(r))
      <4>1. c = Append(b, Notice(r))
        OBVIOUS
      <4> HIDE DEF Longer, c, b, r, n
      <4> QED  BY <1>3, <2>0, <4>1
    <3> QED  BY <3>1
  <2>3. \E j \in DOMAIN c : c[j] = Notice(r)
    <3>1. n + 1 \in 1..(n + 1)
      BY <1>2
    <3> HIDE DEF c, n, r
    <3> QED  BY <2>2, <3>1
  <2>a. d.buffered = b /\ d.run = r /\ d.status = e.status /\ d.truncated
        /\ d \in [run : Runs, status : {"running", "done", "error"},
                  buffered : Seq(Commit \cup {Flush}), truncated : BOOLEAN]
    BY <1>1
  <2> HIDE DEF c, d
  <2>4. f.buffered = c /\ f.run = r /\ f.status = e.status /\ f.truncated
    BY <2>a
  <2>5. f \in [run : Runs, status : {"running", "done", "error"},
               buffered : Seq(Commit \cup {Flush}), truncated : BOOLEAN]
    BY <2>2, <2>a
  <2>6. Len(c) <= MaxBuffered + 1
    BY <1>1, <1>2, <1>6, <2>2
  <2> HIDE DEF f, r, b, n
  <2>8. f \in EntryType
    BY <2>2, <2>3, <2>4, <2>5, <2>6 DEF EntryType
  <2>9. f.buffered = Append(e.buffered, Notice(e.run)) /\ f.run = e.run
    BY <2>4 DEF c, b, r
  <2> QED  BY <2>1, <2>4, <2>8, <2>9 DEF Collects
<1> QED  BY <1>4, <1>5, <1>6

\* An entry takes what its pipeline pushes, one mutation after another.
Takes(g, e, mutations) ==
  /\ g \in [0..Len(mutations) -> EntryType]
  /\ g[0] = e /\ g[Len(mutations)] = Buffered(e, mutations)
  /\ \A k \in 1..Len(mutations) : Collects(g[k], g[k - 1], mutations[k])

LEMMA Collected ==
  ASSUME ConstantsOK, NEW e \in EntryType, NEW mutations \in Seq(Held(e.run))
  PROVE  \E g : Takes(g, e, mutations) /\ \A k \in 0..Len(mutations) : g[k].run = e.run
<1> DEFINE n == Len(mutations)
           r == e.run
           T == {f \in EntryType : f.run = r}
           F == [p \in (1..n) \X T |-> BufferOne(p[2], mutations[p[1]])]
           Good(h) == h = [S \in SUBSET (1..n) |->
                             IF S = {} THEN e
                             ELSE BufferOne(h[S \ {Max(S)}], mutations[Max(S)])]
           c == CHOOSE h : Good(h)
<1>1. n \in Nat /\ DOMAIN mutations = 1..n /\ \A k \in 1..n : mutations[k] \in Held(r)
  BY LenProperties, ElementOfSeq
<1>2. Buffered(e, mutations) = c[1..n]
  <2>1. Buffered(e, mutations) = (CHOOSE h : h = [S \in SUBSET (DOMAIN mutations) |->
                             IF S = {} THEN e
                             ELSE BufferOne(h[S \ {Max(S)}], mutations[Max(S)])])[DOMAIN mutations]
    BY DEF Buffered, FoldLeft, MapThenFoldSet, BufferOne, Notice
  <2> QED  BY <1>1, <2>1
<1> HIDE DEF n
<1>t. \A u \in T, k \in 1..n : BufferOne(u, mutations[k]) \in T
                               /\ Collects(BufferOne(u, mutations[k]), u, mutations[k])
  BY <1>1, CollectsOne DEF Collects
<1>0. e \in T
  OBVIOUS
<1> HIDE DEF T
<1>3. F \in [(1..n) \X T -> T]
  BY <1>1, <1>t
<1> HIDE DEF F
<1>a. PICK h : IsFold(h, T, e, n, F)
  BY <1>0, <1>1, <1>3, FoldExists
<1>4. /\ h \in [SUBSET (1..n) -> T]
      /\ \A S \in SUBSET (1..n) : h[S] = IF S = {} THEN e ELSE F[<<Max(S), h[S \ {Max(S)}]>>]
  BY <1>a DEF IsFold
<1>5. Good(h)
  <2>1. ASSUME NEW S \in SUBSET (1..n), S # {}
        PROVE  F[<<Max(S), h[S \ {Max(S)}]>>] = BufferOne(h[S \ {Max(S)}], mutations[Max(S)])
    <3>1. Max(S) \in 1..n /\ h[S \ {Max(S)}] \in T
      BY <1>1, <1>4, <2>1, WithoutMax
    <3> QED  BY <3>1 DEF F
  <2>2. \A S \in SUBSET (1..n) :
          h[S] = IF S = {} THEN e ELSE BufferOne(h[S \ {Max(S)}], mutations[Max(S)])
    BY <1>4, <2>1
  <2> QED  BY <1>4, <2>2
<1>6. Good(c)
  <2> HIDE DEF Good
  <2> QED  BY <1>5
<1> HIDE DEF c
<1> DEFINE g == [k \in 0..n |-> c[1..k]]
<1>7. g[0] = e
  BY <1>1, <1>6, UpTo
<1>8. ASSUME NEW k \in 1..n PROVE g[k] = BufferOne(g[k - 1], mutations[k])
  <2>1. 1..k \in SUBSET (1..n) /\ 1..k # {} /\ Max(1..k) = k /\ (1..k) \ {k} = 1..k - 1
    BY <1>1, UpTo
  <2>2. c[1..k] = BufferOne(c[1..k - 1], mutations[k])
    BY <1>6, <2>1
  <2>3. k \in 0..n /\ k - 1 \in 0..n
    BY <1>1
  <2> QED  BY <2>2, <2>3
<1>9. \A k \in 0..n : k \in {j \in 0..n : g[j] \in T}
  <2> DEFINE P == {j \in 0..n : g[j] \in T}
  <2>1. 0 \in P
    BY <1>0, <1>1, <1>7
  <2>2. ASSUME NEW k \in 1..n, k - 1 \in P PROVE k \in P
    <3>1. g[k - 1] \in T
      BY <1>1, <2>2
    <3>2. BufferOne(g[k - 1], mutations[k]) \in T
      <4> HIDE DEF g
      <4> QED  BY <3>1, <1>t
    <3>3. k \in 0..n
      BY <1>1
    <3>4. g[k] \in T
      BY <1>8, <3>2
    <3> QED  BY <3>3, <3>4
  <2> HIDE DEF P, g
  <2>3. \A k \in 0..n : k \in P
    BY <1>1, <2>1, <2>2, Climb
  <2> QED  BY <2>3 DEF P
<1>10. g \in [0..n -> T]
  BY <1>9
<1>11. n \in 0..n /\ g[n] = c[1..n]
  BY <1>1
<1> HIDE DEF g
<1>12. \A k \in 1..n : Collects(g[k], g[k - 1], mutations[k])
  <2> SUFFICES ASSUME NEW k \in 1..n PROVE Collects(g[k], g[k - 1], mutations[k])
    OBVIOUS
  <2>1. k - 1 \in 0..n
    BY <1>1
  <2>2. g[k - 1] \in T
    BY <1>10, <2>1
  <2> QED  BY <1>8, <1>t, <2>2
<1>13. g[0] = e /\ g[n] = Buffered(e, mutations)
  BY <1>2, <1>7, <1>11
<1>14. g \in [0..n -> EntryType] /\ \A k \in 0..n : g[k].run = r
  BY <1>10 DEF T
<1>15. Takes(g, e, mutations)
  BY <1>12, <1>13, <1>14 DEF Takes, n
<1> QED  BY <1>14, <1>15 DEF n

-----------------------------------------------------------------------------
(* Lists of mutations *)

\* What the interface pushes beside the lines of a pipeline.
Shows1 == MutationType \ Streamed
Plain(ms) ==
  ms \in Seq(Shows1) /\ \A i \in 1..Len(ms) : ms[i] \in Commit => ms[i] = Note

\* One line of a pipeline, and before it at most that the stream line is closed.
Utterance(ms, m) ==
  /\ ms \in Seq({Flush, m}) /\ Len(ms) \in Nat \ {0} /\ ms[Len(ms)] = m
  /\ \A i \in 1..(Len(ms) - 1) : ms[i] = Flush

\* One line of a pipeline among what is plain.
Tells(ms, m) ==
  /\ ms \in Seq(Shows1)
  /\ \E i \in 1..Len(ms) : /\ ms[i] = m
                           /\ \A j \in 1..Len(ms) : j # i /\ ms[j] \in Commit => ms[j] = Note

LEMMA PlainOnes ==
  ASSUME ConstantsOK
  PROVE  /\ Plain(<<>>) /\ Plain(<<Note>>) /\ Plain(FlushIfActive) /\ Plain(Summary)
         /\ \A n \in Nat : Plain([k \in 1..n |-> Note])
         /\ \A m \in Shows1 \ Commit : Plain(<<m>>) /\ Plain(<<Note, m>>)
<1>1. Note \in Shows1 /\ Note \in Commit
  BY DEF Note, Shows1, MutationType, Commit, Streamed, LineType
<1>2. Flush \in Shows1
  BY DEF Flush, Shows1, MutationType, Streamed
<1>3. Plain(<<>>)
  BY EmptySeq DEF Plain
<1>4. \A m \in Shows1 : (m \in Commit => m = Note) => Plain(<<m>>)
  <2> SUFFICES ASSUME NEW m \in Shows1, m \in Commit => m = Note PROVE Plain(<<m>>)
    OBVIOUS
  <2> DEFINE one == <<m>>
  <2>1. one \in Seq(Shows1) /\ Len(one) = 1 /\ one[1] = m
    OBVIOUS
  <2> HIDE DEF one
  <2>2. Plain(one)
    BY <2>1 DEF Plain
  <2> QED  BY <2>2 DEF one
<1>5. \A m \in Shows1 : (m \in Commit => m = Note) => Plain(<<Note, m>>)
  <2> SUFFICES ASSUME NEW m \in Shows1, m \in Commit => m = Note PROVE Plain(<<Note, m>>)
    OBVIOUS
  <2> DEFINE two == <<Note, m>>
  <2>1. two \in Seq(Shows1) /\ Len(two) = 2 /\ two[1] = Note /\ two[2] = m
    BY <1>1
  <2> HIDE DEF two
  <2>2. Plain(two)
    BY <2>1 DEF Plain
  <2> QED  BY <2>2 DEF two
<1>6. \A n \in Nat : Plain([k \in 1..n |-> Note])
  <2> SUFFICES ASSUME NEW n \in Nat PROVE Plain([k \in 1..n |-> Note])
    OBVIOUS
  <2> DEFINE notes1 == [k \in 1..n |-> Note]
  <2>1. notes1 \in Seq(Shows1) /\ Len(notes1) = n /\ \A k \in 1..n : notes1[k] = Note
    BY <1>1
  <2> HIDE DEF notes1
  <2>2. Plain(notes1)
    BY <2>1 DEF Plain
  <2> QED  BY <2>2 DEF notes1
<1>7. Plain(<<Note>>)
  BY <1>1, <1>4
<1>8. Flush \notin Commit
  BY DEF Flush, Commit
<1>9. Plain(<<Flush>>)
  BY <1>2, <1>4, <1>8
<1>10. Plain(FlushIfActive) /\ Plain(Summary)
  BY <1>3, <1>7, <1>9 DEF FlushIfActive, Summary
<1> QED  BY <1>3, <1>4, <1>5, <1>6, <1>7, <1>10

LEMMA PlainJoined ==
  ASSUME NEW a, NEW b, Plain(a), Plain(b)
  PROVE  Plain(a \o b)
<1> DEFINE t == a \o b
<1>1. a \in Seq(Shows1) /\ b \in Seq(Shows1)
  BY DEF Plain
<1>2. Concat(a \o b, a, b, Shows1)
  BY <1>1, Concatenated
<1>3. Concat(t, a, b, Shows1)
  BY <1>2
<1> HIDE DEF t
<1>4. /\ t \in Seq(Shows1) /\ Len(t) = Len(a) + Len(b) /\ Len(a) \in Nat /\ Len(b) \in Nat
      /\ \A k \in 1..Len(a) : t[k] = a[k]
      /\ \A k \in 1..Len(b) : t[Len(a) + k] = b[k]
  BY <1>3, <1>1, LenProperties DEF Concat
<1>5. ASSUME NEW i \in 1..Len(t), t[i] \in Commit PROVE t[i] = Note
  <2>1. CASE i <= Len(a)
    <3>1. i \in 1..Len(a)
      BY <2>1
    <3> QED  BY <1>4, <1>5, <3>1 DEF Plain
  <2>2. CASE i > Len(a)
    <3>1. i - Len(a) \in 1..Len(b) /\ i = Len(a) + (i - Len(a))
      BY <1>4, <2>2
    <3>2. t[i] = b[i - Len(a)]
      BY <1>4, <3>1
    <3> QED  BY <1>5, <3>1, <3>2 DEF Plain
  <2> QED  BY <1>4, <2>1, <2>2
<1>6. Plain(t)
  BY <1>4, <1>5 DEF Plain
<1> QED  BY <1>6 DEF t

LEMMA TellsJoined ==
  ASSUME NEW a, NEW b, NEW m
  PROVE  /\ Plain(a) /\ Tells(b, m) => Tells(a \o b, m)
         /\ Tells(a, m) /\ Plain(b) => Tells(a \o b, m)
<1> DEFINE t == a \o b
<1> SUFFICES ASSUME a \in Seq(Shows1), b \in Seq(Shows1)
             PROVE  /\ Plain(a) /\ Tells(b, m) => Tells(a \o b, m)
                    /\ Tells(a, m) /\ Plain(b) => Tells(a \o b, m)
  BY DEF Plain, Tells
<1>2. Concat(a \o b, a, b, Shows1)
  BY Concatenated
<1>3. Concat(t, a, b, Shows1)
  BY <1>2
<1> HIDE DEF t
<1>4. /\ t \in Seq(Shows1) /\ Len(t) = Len(a) + Len(b) /\ Len(a) \in Nat /\ Len(b) \in Nat
      /\ \A k \in 1..Len(a) : t[k] = a[k]
      /\ \A k \in 1..Len(b) : t[Len(a) + k] = b[k]
  BY <1>3, LenProperties DEF Concat
<1>5. \A i \in 1..Len(t) :
        \/ i \in 1..Len(a) /\ t[i] = a[i]
        \/ i - Len(a) \in 1..Len(b) /\ t[i] = b[i - Len(a)]
  <2> SUFFICES ASSUME NEW i \in 1..Len(t)
               PROVE  \/ i \in 1..Len(a) /\ t[i] = a[i]
                      \/ i - Len(a) \in 1..Len(b) /\ t[i] = b[i - Len(a)]
    OBVIOUS
  <2>1. CASE i <= Len(a)
    <3>1. i \in 1..Len(a)
      BY <2>1
    <3> QED  BY <1>4, <3>1
  <2>2. CASE i > Len(a)
    <3>1. i - Len(a) \in 1..Len(b) /\ i = Len(a) + (i - Len(a))
      BY <1>4, <2>2
    <3> QED  BY <1>4, <3>1
  <2> QED  BY <1>4, <2>1, <2>2
<1>6. ASSUME Plain(a), Tells(b, m) PROVE Tells(t, m)
  <2>1. PICK i \in 1..Len(b) : b[i] = m /\ \A j \in 1..Len(b) : j # i /\ b[j] \in Commit => b[j] = Note
    BY <1>6 DEF Tells
  <2>2. Len(a) + i \in 1..Len(t) /\ t[Len(a) + i] = m
    BY <1>4, <2>1
  <2>3. ASSUME NEW j \in 1..Len(t), j # Len(a) + i, t[j] \in Commit PROVE t[j] = Note
    <3>1. CASE j \in 1..Len(a) /\ t[j] = a[j]
      BY <1>6, <2>3, <3>1 DEF Plain
    <3>2. CASE j - Len(a) \in 1..Len(b) /\ t[j] = b[j - Len(a)]
      <4>1. j - Len(a) # i
        BY <1>4, <2>3, <3>2
      <4> QED  BY <2>1, <2>3, <3>2, <4>1
    <3> QED  BY <1>5, <3>1, <3>2
  <2> QED  BY <1>4, <2>2, <2>3 DEF Tells
<1>7. ASSUME Tells(a, m), Plain(b) PROVE Tells(t, m)
  <2>1. PICK i \in 1..Len(a) : a[i] = m /\ \A j \in 1..Len(a) : j # i /\ a[j] \in Commit => a[j] = Note
    BY <1>7 DEF Tells
  <2>2. i \in 1..Len(t) /\ t[i] = m
    BY <1>4, <2>1
  <2>3. ASSUME NEW j \in 1..Len(t), j # i, t[j] \in Commit PROVE t[j] = Note
    BY <1>5, <1>7, <2>1, <2>3 DEF Plain
  <2> QED  BY <1>4, <2>2, <2>3 DEF Tells
<1> QED  BY <1>6, <1>7 DEF t

LEMMA TwoOnes ==
  ASSUME NEW f, NEW m
  PROVE  <<f>> \o <<m>> = <<f, m>>
<1> DEFINE S == {f, m}
           a == <<f>>
           b == <<m>>
           c == a \o b
           d == <<f, m>>
<1>1. a \in Seq(S) /\ Len(a) = 1 /\ a[1] = f
  OBVIOUS
<1>2. b \in Seq(S) /\ Len(b) = 1 /\ b[1] = m
  OBVIOUS
<1>3. d \in Seq(S) /\ Len(d) = 2 /\ d[1] = f /\ d[2] = m
  OBVIOUS
<1> HIDE DEF a, b, d, S
<1>4. Concat(a \o b, a, b, S)
  BY <1>1, <1>2, Concatenated
<1>5. Concat(c, a, b, S)
  BY <1>4
<1> HIDE DEF c
<1>6. c \in Seq(S) /\ Len(c) = 2 /\ c[1] = f /\ c[2] = m
  BY <1>1, <1>2, <1>5 DEF Concat
<1>7. \A i \in 1..2 : c[i] = d[i]
  BY <1>3, <1>6
<1>8. c = d
  BY <1>3, <1>6, <1>7, SeqEqual
<1> QED  BY <1>8 DEF a, b, c, d

\* The three ways in which a line is pushed.
LEMMA Utterances ==
  ASSUME ConstantsOK, NEW m
  PROVE  /\ Utterance(<<m>>, m) /\ Utterance(<<Flush, m>>, m)
         /\ Utterance(FlushIfActive \o <<m>>, m)
<1> DEFINE one == <<m>>
           two == <<Flush, m>>
<1>1. one \in Seq({Flush, m}) /\ Len(one) = 1 /\ one[1] = m
  OBVIOUS
<1>2. two \in Seq({Flush, m}) /\ Len(two) = 2 /\ two[1] = Flush /\ two[2] = m
  OBVIOUS
<1>3. FlushIfActive \o one = IF stream_active THEN two ELSE one
  <2>1. <<Flush>> \o <<m>> = <<Flush, m>>
    BY TwoOnes
  <2>2. <<>> \o <<m>> = <<m>>
    OBVIOUS
  <2> QED  BY <2>1, <2>2 DEF FlushIfActive
<1> HIDE DEF one, two
<1>4. Utterance(one, m) /\ Utterance(two, m)
  BY <1>1, <1>2 DEF Utterance
<1>5. Utterance(FlushIfActive \o one, m)
  BY <1>3, <1>4
<1> QED  BY <1>4, <1>5 DEF one, two

LEMMA UtteranceTells ==
  ASSUME ConstantsOK, NEW r \in Runs, NEW m \in Held(r), NEW ms, Utterance(ms, m)
  PROVE  Tells(ms, m) /\ ms \in Seq(Held(r))
<1>1. Flush \in Held(r) /\ Held(r) \in SUBSET Shows1 /\ Flush \notin Commit
  BY HeldTyped DEF Shows1, Flush, Commit
<1>2. ms \in Seq({Flush, m}) /\ {Flush, m} \in SUBSET Held(r)
  BY <1>1 DEF Utterance
<1>3. DOMAIN ms = 1..Len(ms) /\ Len(ms) \in Nat \ {0}
  BY <1>2, LenProperties DEF Utterance
<1>4. \A i \in 1..Len(ms) : ms[i] \in Held(r)
  BY <1>2, ElementOfSeq, <1>3
<1>5. ms = [i \in 1..Len(ms) |-> ms[i]]
  BY <1>2, <1>3
<1>6. ms \in Seq(Held(r)) /\ ms \in Seq(Shows1)
  <2>1. [i \in 1..Len(ms) |-> ms[i]] \in Seq(Held(r))
    BY <1>3, <1>4
  <2>2. [i \in 1..Len(ms) |-> ms[i]] \in Seq(Shows1)
    BY <1>1, <1>3, <1>4
  <2> QED  BY <1>5, <2>1, <2>2
<1>7. Len(ms) \in 1..Len(ms) /\ ms[Len(ms)] = m
  BY <1>3 DEF Utterance
<1>8. ASSUME NEW j \in 1..Len(ms), j # Len(ms) PROVE ms[j] \notin Commit
  <2> DEFINE n == Len(ms)
  <2>0. n \in Nat \ {0} /\ j \in 1..n /\ j # n
    BY <1>3, <1>8
  <2> HIDE DEF n
  <2>1. j \in 1..(n - 1)
    BY <2>0
  <2> QED  BY <1>1, <2>1 DEF Utterance, n
<1> QED  BY <1>6, <1>7, <1>8 DEF Tells

-----------------------------------------------------------------------------
(* What a step shows *)

\* The lines L follow the first c lines of the transcript, and lost has what the
\* first of them may have taken with it.
LostTo ==
  LET before == Transcript(screen)
      end    == Len(before)
  IN IF screen.stream_line_open /\ Transcript(screen')[end] # before[end]
     THEN lost \cup {<<before[end][2], before[end][3]>>} ELSE lost
Shown2(L, c) == Grown(screen', screen, L, c) /\ lost' = LostTo

ShowsPlain == \E L, c : Shown2(L, c) /\ \A j \in 1..Len(L) : L[j] = <<"note">>
ShowsLine(line) ==
  \E L, c : /\ Shown2(L, c)
            /\ \E i \in 1..Len(L) : /\ L[i] = line
                                    /\ \A j \in 1..Len(L) : j # i => L[j] = <<"note">>
ShowsHint(hint) ==
  \E c \in Nat :
    /\ screen' \in Live /\ lost' = LostTo
    /\ c = Len(Transcript(screen)) \/ (c = Len(Transcript(screen)) - 1 /\ screen.stream_line_open)
    /\ Len(Transcript(screen')) = c + 1 /\ screen'.stream_line_open
    /\ \A k \in 1..c : Transcript(screen')[k] = Transcript(screen)[k]
    /\ Transcript(screen')[c + 1] = hint

LEMMA ShowLost ==
  ASSUME NEW ms, Show(ms)
  PROVE  screen' = ApplyAll(screen, ms) /\ lost' = LostTo
BY DEF Show, LostTo

LEMMA ShowPlain ==
  ASSUME ConstantsOK, screen \in Live, NEW ms, Plain(ms), Show(ms)
  PROVE  ShowsPlain
<1>1. PICK L, c, p : Grown(ApplyAll(screen, ms), screen, L, c) /\ Selects(p, L, ms, Len(ms))
  BY LinesShown DEF Plain, Shows1
<1>2. Shown2(L, c)
  BY <1>1, ShowLost DEF Shown2
<1>3. ASSUME NEW j \in 1..Len(L) PROVE L[j] = <<"note">>
  <2>1. p[j] \in 1..Len(ms) /\ ms[p[j]] \in Commit /\ L[j] = ms[p[j]][2]
    BY <1>1 DEF Selects
  <2>2. ms[p[j]] = Note
    BY <2>1 DEF Plain
  <2> QED  BY <2>1, <2>2 DEF Note
<1> QED  BY <1>2, <1>3 DEF ShowsPlain

LEMMA ShowNothing ==
  ASSUME ConstantsOK, screen \in Live, screen' = screen, lost' = lost
  PROVE  ShowsPlain
<1> DEFINE L == <<>>
           c == Len(Transcript(screen))
<1>1. c \in Nat
  BY TranscriptIs DEF Live
<1>2. L \in Seq(LineType) /\ Len(L) = 0
  BY EmptySeq
<1> HIDE DEF L
<1>3. Grown(screen', screen, L, c)
  BY <1>1, <1>2 DEF Grown
<1>4. lost' = LostTo
  BY DEF LostTo
<1>5. \A j \in 1..Len(L) : L[j] = <<"note">>
  BY <1>2
<1> QED  BY <1>3, <1>4, <1>5 DEF ShowsPlain, Shown2

LEMMA ShowTells ==
  ASSUME ConstantsOK, screen \in Live, NEW m \in Commit, NEW ms, Tells(ms, m), Show(ms)
  PROVE  ShowsLine(m[2])
<1>1. PICK L, c, p : Grown(ApplyAll(screen, ms), screen, L, c) /\ Selects(p, L, ms, Len(ms))
  BY LinesShown DEF Tells, Shows1
<1>2. Shown2(L, c)
  BY <1>1, ShowLost DEF Shown2
<1>3. PICK n \in 1..Len(ms) : ms[n] = m /\ \A j \in 1..Len(ms) : j # n /\ ms[j] \in Commit => ms[j] = Note
  BY DEF Tells
<1>4. PICK i \in 1..Len(L) : p[i] = n
  BY <1>1, <1>3 DEF Selects
<1>5. L[i] = m[2]
  BY <1>1, <1>3, <1>4 DEF Selects
<1>6. ASSUME NEW j \in 1..Len(L), j # i PROVE L[j] = <<"note">>
  <2>1. p[j] \in 1..Len(ms) /\ ms[p[j]] \in Commit /\ L[j] = ms[p[j]][2]
    BY <1>1 DEF Selects
  <2>2. p[j] # n
    <3>1. j < i \/ i < j
      BY <1>6
    <3>2. p[j] < p[i] \/ p[i] < p[j]
      BY <1>1, <3>1 DEF Selects
    <3> QED  BY <1>4, <2>1, <3>2
  <2>3. ms[p[j]] = Note
    BY <1>3, <2>1, <2>2
  <2> QED  BY <2>1, <2>3 DEF Note
<1> QED  BY <1>2, <1>5, <1>6 DEF ShowsLine

\* A line, and a stream line over it.
LEMMA ShowHint ==
  ASSUME ConstantsOK, screen \in Live, NEW r \in Runs, NEW m \in Held(r), m \in Commit,
         NEW ms, Utterance(ms, m), NEW hint \in LineType,
         Show(ms \o << <<"StreamToken", hint>> >>)
  PROVE  ShowsHint(hint)
<1> DEFINE x == <<"StreamToken", hint>>
           one == <<x>>
           all == ms \o one
           n == Len(ms)
           s == screen
<1>1. x \in Streamed /\ x \in MutationType /\ x[2] = hint
  BY DEF Streamed, MutationType
<1>2. ms \in Seq(Held(r)) /\ Held(r) \in SUBSET (MutationType \ Streamed)
  BY UtteranceTells, HeldTyped
<1>3. n \in Nat \ {0} /\ DOMAIN ms = 1..n /\ \A k \in 1..n : ms[k] \in MutationType \ Streamed
  BY <1>2, LenProperties, ElementOfSeq DEF Utterance
<1>4. ms \in Seq(MutationType)
  <2>1. ms = [k \in 1..n |-> ms[k]]
    BY <1>2, <1>3
  <2> HIDE DEF n
  <2>2. [k \in 1..n |-> ms[k]] \in Seq(MutationType)
    BY <1>3
  <2> QED  BY <2>1, <2>2
<1>5. one \in Seq(MutationType) /\ Len(one) = 1 /\ one[1] = x
  <2> HIDE DEF x
  <2> QED  BY <1>1
<1>6. Show(all)
  OBVIOUS
<1> HIDE DEF x, one
<1>7. Concat(ms \o one, ms, one, MutationType)
  BY <1>4, <1>5, Concatenated
<1>8. Concat(all, ms, one, MutationType)
  BY <1>7
<1> HIDE DEF all
<1>9. /\ all \in Seq(MutationType) /\ Len(all) = n + 1 /\ all[n + 1] = x
      /\ \A k \in 1..n : all[k] = ms[k]
  BY <1>5, <1>8 DEF Concat
<1> HIDE DEF n
<1>10. PICK g : Steps(g, s, all)
  BY <1>9, Applied
<1>11. \A k \in 1..n : all[k] \notin Streamed
  BY <1>3, <1>9
<1>12. PICK L, c, p : Grown(g[n], s, L, c) /\ Selects(p, L, all, n)
  <2>1. n \in Nat /\ n <= Len(all)
    BY <1>3, <1>9
  <2> QED  BY <1>9, <1>10, <1>11, <2>1, LinesUpTo
<1> DEFINE u == g[n]
           t == screen'
<1>13. t = ApplyAll(s, all) /\ lost' = LostTo
  BY <1>6, ShowLost
<1>14. Moves(t, u, x)
  <2>1. g[n + 1] = ApplyAll(s, all) /\ n + 1 \in 1..(n + 1) /\ n + 1 - 1 = n
    BY <1>3, <1>9, <1>10 DEF Steps
  <2> DEFINE q == n + 1
  <2>a. q \in 1..Len(all)
    BY <1>9, <2>1
  <2>c. q = n + 1 /\ q - 1 = n
    BY <1>3
  <2> HIDE DEF q
  <2>b. Moves(g[q], g[q - 1], all[q])
    BY <1>10, <2>a DEF Steps
  <2>2. g[q] = t /\ g[q - 1] = u /\ all[q] = x
    BY <1>9, <1>13, <2>1, <2>c
  <2> QED  BY <2>b, <2>2
<1>15. Len(L) = 1
  <2>1. L \in Seq(LineType) /\ Len(L) \in Nat
    BY <1>12, LenProperties DEF Grown
  <2>2. Flush \notin Commit /\ all[n] = m /\ \A k \in 1..n : all[k] \in Commit => k = n
    <3>1. Flush \notin Commit
      BY DEF Flush, Commit
    <3>2. ms[n] = m /\ \A k \in 1..(n - 1) : ms[k] = Flush
      BY DEF Utterance, n
    <3>3. n \in 1..n /\ \A k \in 1..n : k \in 1..(n - 1) \/ k = n
      BY <1>3
    <3> QED  BY <1>9, <3>1, <3>2, <3>3
  <2>3. PICK i \in 1..Len(L) : p[i] = n
    <3>1. n \in 1..n
      BY <1>3
    <3> QED  BY <1>12, <2>2, <3>1 DEF Selects
  <2>4. \A j \in 1..Len(L) : p[j] = n
    BY <1>12, <2>2 DEF Selects
  <2>5. ~ (Len(L) >= 2)
    <3> SUFFICES ASSUME Len(L) >= 2 PROVE FALSE
      OBVIOUS
    <3>1. 1 \in 1..Len(L) /\ 2 \in 1..Len(L) /\ 1 < 2
      BY <2>1
    <3>2. p[1] < p[2]
      BY <1>12, <3>1 DEF Selects
    <3> QED  BY <1>3, <2>4, <3>1, <3>2
  <2> QED  BY <2>1, <2>3, <2>5
<1>16. /\ u \in Live /\ c \in Nat /\ ~ u.stream_line_open
       /\ c = Len(Transcript(s)) \/ (c = Len(Transcript(s)) - 1 /\ s.stream_line_open)
       /\ Len(Transcript(u)) = c + 1
       /\ \A k \in 1..c : Transcript(u)[k] = Transcript(s)[k]
  <2> HIDE DEF u, s
  <2> QED  BY <1>12, <1>15 DEF Grown, u
<1>17. t \in Live /\ t.stream_line_open /\ Replaces(t, u, hint)
  BY <1>1, <1>14, <1>16 DEF Moves
<1> HIDE DEF u
<1>18. /\ Len(Transcript(t)) = c + 1
       /\ \A k \in 1..c : Transcript(t)[k] = Transcript(s)[k]
       /\ Transcript(t)[c + 1] = hint
  <2>1. c + 1 - 1 = c
    BY <1>16
  <2> HIDE DEF t, s
  <2> QED  BY <1>16, <1>17, <2>1 DEF Replaces
<1> QED  BY <1>13, <1>16, <1>17, <1>18 DEF ShowsHint

-----------------------------------------------------------------------------
(* The pipelines *)

Types ==
  /\ screen \in ScreenType /\ (~ quit => Drawn(screen)) /\ (quit => Cleared(screen))
  /\ running \in 0..MaxRuns /\ accepted \in 0..MaxRuns /\ ended \in 0..accepted
  /\ said \in [Runs -> 0..MaxLines] /\ tool_group \in 0..2
  /\ background_entries \in Seq(EntryType)

\* The pipelines run in order; the one at work is in the background iff an entry
\* runs, and that entry is its own.
Pipelines ==
  /\ running # 0 => running = ended + 1 /\ running <= accepted
  /\ phase_active => running # 0 /\ ~ bg_mode
  /\ bg_mode <=> RunningEntries # {}
  /\ \A k \in DOMAIN background_entries :
       IF k \in RunningEntries THEN background_entries[k].run = running
       ELSE background_entries[k].run <= ended
  /\ \A j, k \in DOMAIN background_entries :
       background_entries[j].run = background_entries[k].run => j = k

LEMMA Removed ==
  ASSUME NEW S, NEW s \in Seq(S), NEW k \in 1..Len(s)
  PROVE  /\ RemoveAt(s, k) \in Seq(S) /\ Len(RemoveAt(s, k)) = Len(s) - 1
         /\ \A i \in 1..(Len(s) - 1) : RemoveAt(s, k)[i] = IF i < k THEN s[i] ELSE s[i + 1]
<1> DEFINE n == Len(s)
           a == SubSeq(s, 1, k - 1)
           b == SubSeq(s, k + 1, n)
           t == a \o b
<1>1. n \in Nat /\ k \in 1..n /\ k - 1 \in 0..n /\ k \in 0..n
  BY LenProperties
<1>2. a \in Seq(S) /\ Len(a) = k - 1 /\ \A i \in 1..(k - 1) : a[i] = s[i]
  BY <1>1, Start
<1>3. b \in Seq(S) /\ Len(b) = n - k /\ \A i \in 1..(n - k) : b[i] = s[k + i]
  BY <1>1, Rest
<1>4. RemoveAt(s, k) = t
  BY DEF RemoveAt
<1> HIDE DEF a, b, n
<1>5. Concat(a \o b, a, b, S)
  BY <1>2, <1>3, Concatenated
<1>6. Concat(t, a, b, S)
  BY <1>5
<1> HIDE DEF t
<1>7. /\ t \in Seq(S) /\ Len(t) = (k - 1) + (n - k)
      /\ \A i \in 1..(k - 1) : t[i] = a[i]
      /\ \A i \in 1..(n - k) : t[(k - 1) + i] = b[i]
  BY <1>2, <1>3, <1>6 DEF Concat
<1>8. Len(t) = n - 1
  BY <1>1, <1>7
<1>9. ASSUME NEW i \in 1..(n - 1) PROVE t[i] = IF i < k THEN s[i] ELSE s[i + 1]
  <2>1. CASE i < k
    <3>1. i \in 1..(k - 1)
      BY <1>1, <2>1
    <3> QED  BY <1>2, <1>7, <2>1, <3>1
  <2>2. CASE ~ (i < k)
    <3> DEFINE j == i - (k - 1)
    <3>1. j \in 1..(n - k) /\ (k - 1) + j = i /\ k + j = i + 1
      BY <1>1, <2>2
    <3> HIDE DEF j
    <3>2. t[(k - 1) + j] = b[j] /\ b[j] = s[k + j]
      BY <1>3, <1>7, <3>1
    <3> QED  BY <2>2, <3>1, <3>2
  <2> QED  BY <2>1, <2>2
<1> QED  BY <1>4, <1>7, <1>8, <1>9 DEF n

\* An entry has taken a line of its pipeline, or says that it did not.
Receives(f, e, m) ==
  /\ f \in EntryType /\ f.run = e.run /\ f.status = e.status
  /\ Len(e.buffered) <= Len(f.buffered)
  /\ \A j \in 1..Len(e.buffered) : f.buffered[j] = e.buffered[j]
  /\ \A j \in (Len(e.buffered) + 1)..Len(f.buffered) :
       \/ f.buffered[j] \in {Flush, Notice(e.run)}
       \/ f.buffered[j] = m /\ j = Len(f.buffered)
  /\ f.truncated \/ \E j \in 1..Len(f.buffered) : f.buffered[j] = m

LEMMA Received ==
  ASSUME ConstantsOK, NEW e \in EntryType, NEW m \in Held(e.run), NEW ms, Utterance(ms, m)
  PROVE  Receives(Buffered(e, ms), e, m)
<1> DEFINE n == Len(ms)
           b == e.buffered
           a == Len(b)
           r == e.run
           f == Buffered(e, ms)
<1>0. r \in Runs /\ \A h \in EntryType : h.buffered \in Seq(Held(h.run)) /\ Len(h.buffered) \in Nat
  BY LenProperties DEF EntryType
<1>1. ms \in Seq(Held(r))
  BY <1>0, UtteranceTells
<1>2. PICK g : Takes(g, e, ms) /\ \A k \in 0..Len(ms) : g[k].run = r
  BY <1>1, Collected
<1>3. n \in Nat \ {0} /\ ms[n] = m /\ \A k \in 1..(n - 1) : ms[k] = Flush
  BY DEF Utterance
<1>4. /\ g \in [0..n -> EntryType] /\ g[0] = e /\ g[n] = f
      /\ \A k \in 1..n : Collects(g[k], g[k - 1], ms[k])
      /\ \A k \in 0..n : g[k].run = r
  BY <1>2 DEF Takes
<1> HIDE DEF n, f
<1> DEFINE Before(h) ==
             /\ h \in EntryType /\ h.run = r /\ h.status = e.status
             /\ a <= Len(h.buffered) /\ \A j \in 1..a : h.buffered[j] = b[j]
             /\ \A j \in (a + 1)..Len(h.buffered) : h.buffered[j] \in {Flush, Notice(r)}
           After(c, x) ==
             /\ a <= Len(c.buffered) /\ \A j \in 1..a : c.buffered[j] = b[j]
             /\ \A j \in (a + 1)..Len(c.buffered) :
                  \/ c.buffered[j] \in {Flush, Notice(r)}
                  \/ c.buffered[j] = x /\ j = Len(c.buffered)
             /\ Len(c.buffered) \in 1..Len(c.buffered) /\ c.buffered[Len(c.buffered)] = x
           P == {k \in 0..(n - 1) : Before(g[k])}
<1>5. \A h \in EntryType : \A x \in Held(h.run) :
        /\ Len(Append(h.buffered, x)) = Len(h.buffered) + 1
        /\ Append(h.buffered, x)[Len(h.buffered) + 1] = x
        /\ \A j \in 1..Len(h.buffered) : Append(h.buffered, x)[j] = h.buffered[j]
  BY <1>0, AppendProperties
<1>a. a \in Nat /\ b \in Seq(Held(r))
  BY <1>0
<1>6. ASSUME NEW h, Before(h), NEW x \in Held(r), NEW c \in EntryType,
             c.run = r, c.status = e.status, c.buffered = Append(h.buffered, x)
      PROVE  After(c, x)
  <2> DEFINE y == h.buffered
             z == c.buffered
             l == Len(y)
  <2>1. /\ l \in Nat /\ Len(z) = l + 1 /\ z[l + 1] = x
        /\ \A j \in 1..l : z[j] = y[j]
    BY <1>0, <1>5, <1>6
  <2>2. a <= l /\ (\A j \in 1..a : y[j] = b[j]) /\ \A j \in (a + 1)..l : y[j] \in {Flush, Notice(r)}
    BY <1>6
  <2> HIDE DEF a, b, l, y, z
  <2>3. a <= Len(z) /\ Len(z) \in 1..Len(z) /\ z[Len(z)] = x
    BY <1>a, <2>1, <2>2
  <2>4. \A j \in 1..a : j \in 1..l
    BY <1>a, <2>1, <2>2
  <2>5. \A j \in (a + 1)..(l + 1) : (j \in (a + 1)..l /\ j \in 1..l) \/ j = l + 1
    BY <1>a, <2>1, <2>2
  <2>6. \A j \in 1..a : z[j] = b[j]
    BY <2>1, <2>2, <2>4
  <2>7. \A j \in (a + 1)..Len(z) : z[j] \in {Flush, Notice(r)} \/ (z[j] = x /\ j = Len(z))
    BY <2>1, <2>2, <2>5
  <2> QED  BY <2>3, <2>6, <2>7 DEF z
<1>7. 0 \in P
  <2>1. 0 \in 0..(n - 1) /\ \A j \in (a + 1)..a : FALSE
    BY <1>3, <1>a
  <2>2. Before(e)
    BY <1>a, <2>1
  <2> QED  BY <1>4, <2>1, <2>2
<1>8. ASSUME NEW k \in 1..(n - 1), k - 1 \in P PROVE k \in P
  <2>1. k \in 1..n /\ k \in 0..(n - 1) /\ ms[k] = Flush
    BY <1>3
  <2>2. Collects(g[k], g[k - 1], Flush)
    BY <1>4, <2>1
  <2>3. Before(g[k - 1])
    BY <1>8
  <2>4. Flush \in Held(r) /\ Notice(r) \in Held(r)
    BY <1>0, HeldTyped
  <2>5. g[k] \in EntryType /\ g[k].run = r /\ g[k].status = e.status
    BY <2>2, <2>3 DEF Collects
  <2>6. CASE g[k] = g[k - 1]
    <3>1. Before(g[k])
      BY <2>3, <2>6
    <3> HIDE DEF Before
    <3> QED  BY <2>1, <3>1
  <2>7. ASSUME NEW x \in {Flush, Notice(r)}, g[k].buffered = Append(g[k - 1].buffered, x)
        PROVE  k \in P
    <3>0. x \in Held(r)
      BY <2>4
    <3>1. After(g[k], x)
      <4> HIDE DEF Before, After
      <4> QED  BY <1>6, <2>3, <2>5, <2>7, <3>0, Zenon
    <3>2. Before(g[k])
      BY <2>5, <2>7, <3>1
    <3> HIDE DEF Before
    <3> QED  BY <2>1, <3>2
  <2>8. \/ g[k] = g[k - 1]
        \/ g[k].buffered = Append(g[k - 1].buffered, Flush)
        \/ g[k].buffered = Append(g[k - 1].buffered, Notice(r))
    <3>1. g[k - 1].run = r
      BY <2>3
    <3> QED  BY <2>2, <3>1 DEF Collects
  <2> HIDE DEF P
  <2> QED  BY <2>6, <2>7, <2>8
<1>9. Before(g[n - 1])
  <2> HIDE DEF P
  <2>1. n - 1 \in Nat /\ n - 1 \in 0..(n - 1)
    BY <1>3
  <2>2. \A k \in 0..(n - 1) : k \in P
    BY <1>7, <1>8, <2>1, Climb
  <2>3. n - 1 \in P
    BY <2>1, <2>2
  <2> QED  BY <2>3 DEF P
<1>10. Collects(f, g[n - 1], m)
  <2>1. n \in 1..n
    BY <1>3
  <2> QED  BY <1>3, <1>4, <2>1
<1>11. /\ f \in EntryType /\ f.run = r /\ f.status = e.status
       /\ \/ f = g[n - 1] /\ f.truncated
          \/ f.buffered = Append(g[n - 1].buffered, m)
          \/ f.buffered = Append(g[n - 1].buffered, Notice(r)) /\ f.truncated
  <2>1. g[n - 1].run = r /\ g[n - 1].status = e.status
    BY <1>9
  <2> QED  BY <1>10, <2>1 DEF Collects
<1>12. CASE f = g[n - 1] /\ f.truncated
  <2>1. Before(f)
    BY <1>9, <1>12
  <2> QED  BY <1>12, <2>1 DEF Receives, f
<1>13. ASSUME NEW x \in {m, Notice(r)}, f.buffered = Append(g[n - 1].buffered, x),
              f.truncated \/ x = m
       PROVE  Receives(f, e, m)
  <2>1. x \in Held(r)
    BY <1>0, HeldTyped
  <2>2. After(f, x)
    <3> HIDE DEF Before, After
    <3> QED  BY <1>6, <1>9, <1>11, <1>13, <2>1, Zenon
  <2>3. \A j \in (a + 1)..Len(f.buffered) :
             \/ f.buffered[j] \in {Flush, Notice(r)}
             \/ f.buffered[j] = m /\ j = Len(f.buffered)
    BY <1>13, <2>2
  <2>4. f.truncated \/ \E j \in 1..Len(f.buffered) : f.buffered[j] = m
    BY <1>13, <2>2
  <2> QED  BY <1>11, <2>2, <2>3, <2>4 DEF Receives
<1> QED
  <2> HIDE DEF Before
  <2>1. Receives(f, e, m)
    BY <1>11, <1>12, <1>13 DEF f
  <2> QED  BY <2>1 DEF f

-----------------------------------------------------------------------------
(* What the steps do: something beside the pipelines is shown, a line of the  *)
(* pipeline at work is shown or kept, or an entry is taken back               *)

Spoken(kind) == <<kind, running, said[running] + 1>>
Empty == [run |-> running, status |-> "running", buffered |-> <<>>, truncated |-> FALSE]

PlainStep ==
  /\ ShowsPlain /\ said' = said
  /\ \/ background_entries' = background_entries
     \/ \E k \in RunningEntries, x \in {"done", "error"} :
          background_entries' = [background_entries EXCEPT ![k].status = x]
     \/ /\ ~ bg_mode /\ running \in Runs /\ background_entries' = Append(background_entries, Empty)
ScreenStep ==
  /\ ~ bg_mode /\ Speaks /\ Says /\ background_entries' = background_entries
  /\ ShowsLine(Spoken("line")) \/ ShowsHint(Spoken("hint"))
BackgroundStep ==
  /\ bg_mode /\ Speaks /\ Says /\ ShowsPlain
  /\ \E k \in RunningEntries : \E f :
       /\ Receives(f, background_entries[k], NextLine)
       /\ background_entries' = [background_entries EXCEPT ![k] = f]
TakenBack(k) ==
  /\ k \in 1..Len(background_entries) /\ said' = said
  /\ background_entries' = RemoveAt(background_entries, k)
  /\ \E L, c, p, m : /\ Shown2(L, c) /\ m \in Shows1 \ Commit
                     /\ Selects(p, L, background_entries[k].buffered \o <<Note, m>>,
                                Len(background_entries[k].buffered) + 2)

LEMMA TheEntries ==
  ASSUME ConstantsOK, Types, Pipelines
  PROVE  /\ Len(background_entries) \in Nat
         /\ DOMAIN background_entries = 1..Len(background_entries)
         /\ \A k \in 1..Len(background_entries) : background_entries[k] \in EntryType
         /\ RunningEntries \in SUBSET (1..Len(background_entries))
         /\ bg_mode => /\ running \in Runs /\ Max(RunningEntries) \in RunningEntries
                       /\ background_entries[Max(RunningEntries)].run = running
         /\ running # 0 => running \in Runs
<1>1. /\ Len(background_entries) \in Nat
      /\ DOMAIN background_entries = 1..Len(background_entries)
      /\ \A k \in 1..Len(background_entries) : background_entries[k] \in EntryType
  BY LenProperties, ElementOfSeq DEF Types
<1>2. RunningEntries \in SUBSET (1..Len(background_entries))
  BY <1>1 DEF RunningEntries
<1>3. running # 0 => running \in Runs
  BY DEF Types, Runs, ConstantsOK
<1>4. ASSUME bg_mode
      PROVE  /\ running \in Runs /\ Max(RunningEntries) \in RunningEntries
             /\ background_entries[Max(RunningEntries)].run = running
  <2>1. RunningEntries # {} /\ RunningEntries \in SUBSET (0..Len(background_entries))
    BY <1>1, <1>2, <1>4 DEF Pipelines
  <2>2. Max(RunningEntries) \in RunningEntries
    BY <1>1, <2>1, Greatest
  <2>3. background_entries[Max(RunningEntries)].run = running
    BY <1>1, <1>2, <2>2 DEF Pipelines
  <2>4. background_entries[Max(RunningEntries)] \in EntryType
    BY <1>1, <1>2, <2>2
  <2> QED  BY <2>2, <2>3, <2>4 DEF EntryType
<1> QED  BY <1>1, <1>2, <1>3, <1>4

LEMMA TheLine ==
  ASSUME ConstantsOK, Types, Speaks
  PROVE  /\ running \in Runs /\ said[running] \in Nat /\ said[running] + 1 \in 0..MaxLines
         /\ NextLine \in Held(running) /\ NextLine \in Commit /\ NextLine[2] = Spoken("line")
         /\ Spoken("line") \in LineType /\ Spoken("hint") \in LineType
         /\ MaxLines \in Nat
<1>1. running \in Runs
  BY DEF Types, Runs, ConstantsOK, Speaks
<1>2. /\ said[running] \in 0..MaxLines /\ MaxLines \in Nat /\ said[running] \in Nat
      /\ said[running] + 1 \in 0..MaxLines /\ said[running] + 1 \in Nat
  <2>1. said[running] \in 0..MaxLines /\ MaxLines \in Nat
    BY <1>1 DEF Types, ConstantsOK
  <2> QED  BY <2>1 DEF Speaks
<1>3. Spoken("line") \in LineType /\ Spoken("hint") \in LineType
  BY <1>1, <1>2 DEF Spoken, LineType
<1>4. NextLine = <<"CommitLine", Spoken("line")>>
  BY DEF NextLine, Spoken
<1>5. NextLine \in Commit /\ NextLine[2] = Spoken("line")
  BY <1>3, <1>4 DEF Commit
<1>6. NextLine \in Held(running)
  BY <1>2 DEF NextLine, Held
<1> QED  BY <1>1, <1>2, <1>3, <1>5, <1>6

LEMMA EmitLine ==
  ASSUME ConstantsOK, Types, Pipelines, ~ quit, Speaks, Says,
         NEW first, NEW ms, NEW last, Plain(first), Plain(last), Utterance(ms, NextLine),
         Emit(first, ms, last)
  PROVE  ScreenStep \/ BackgroundStep
<1>0. screen \in Live
  BY DEF Types, Live
<1>1. running \in Runs /\ NextLine \in Held(running) /\ NextLine \in Commit
      /\ NextLine[2] = Spoken("line")
  BY TheLine
<1>2. CASE bg_mode
  <2> DEFINE k == Max(RunningEntries)
             e == background_entries[k]
             f == Buffered(e, ms)
  <2> DEFINE shown == IF bg_mode THEN first \o last ELSE first \o ms \o last
  <2>5. shown = first \o last
    BY <1>2
  <2>6. Show(shown) /\ background_entries' = [background_entries EXCEPT ![k] = f]
    BY <1>2 DEF Emit
  <2> HIDE DEF shown
  <2>1. Show(first \o last) /\ background_entries' = [background_entries EXCEPT ![k] = f]
    BY <2>5, <2>6
  <2>2. ShowsPlain
    BY <1>0, <2>1, PlainJoined, ShowPlain
  <2>3. k \in RunningEntries /\ e \in EntryType /\ e.run = running
    BY <1>2, TheEntries
  <2>4. Receives(f, e, NextLine)
    BY <1>1, <2>3, Received
  <2> QED  BY <1>2, <2>1, <2>2, <2>3, <2>4 DEF BackgroundStep
<1>3. CASE ~ bg_mode
  <2> DEFINE shown == IF bg_mode THEN first \o last ELSE first \o ms \o last
  <2>6. shown = first \o ms \o last
    BY <1>3
  <2>7. Show(shown) /\ background_entries' = background_entries
    BY <1>3 DEF Emit
  <2> HIDE DEF shown
  <2>1. Show(first \o ms \o last) /\ background_entries' = background_entries
    BY <2>6, <2>7
  <2>2. Tells(ms, NextLine)
    BY <1>1, UtteranceTells
  <2>3. Tells(first \o ms, NextLine)
    BY <2>2, TellsJoined
  <2>4. Tells((first \o ms) \o last, NextLine)
    BY <2>3, TellsJoined
  <2>5. ShowsLine(Spoken("line"))
    BY <1>0, <1>1, <2>1, <2>4, ShowTells
  <2> QED  BY <1>3, <2>1, <2>5 DEF ScreenStep
<1> QED  BY <1>2, <1>3

LEMMA TakesBack ==
  ASSUME ConstantsOK, Types, Pipelines, ~ quit, NEW k \in 1..Len(background_entries),
         reattach_pipeline(k), said' = said
  PROVE  TakenBack(k)
<1> DEFINE b == background_entries[k].buffered
           m == UpdatePrompt
           two == <<Note, m>>
           ms == b \o two
           n == Len(b)
<1>0. screen \in Live /\ background_entries[k] \in EntryType
  BY TheEntries DEF Types, Live
<1>1. b \in Seq(Commit \cup {Flush})
  BY <1>0 DEF EntryType
<1>2. Commit \cup {Flush} \in SUBSET Shows1
  BY DEF Shows1, MutationType, Commit, Streamed, Flush
<1>3. b \in Seq(Shows1) /\ n \in Nat
  <2>1. n \in Nat /\ DOMAIN b = 1..n /\ \A i \in 1..n : b[i] \in Shows1
    BY <1>1, <1>2, LenProperties, ElementOfSeq
  <2>2. b = [i \in 1..n |-> b[i]]
    BY <1>1, <2>1
  <2> HIDE DEF b, n
  <2>3. [i \in 1..n |-> b[i]] \in Seq(Shows1)
    BY <2>1
  <2> QED  BY <2>1, <2>2, <2>3
<1>4. m \in Shows1 \ Commit
  <2>1. screen.prompt \in BarType
    BY DEF Types, ScreenType
  <2> QED  BY <2>1 DEF UpdatePrompt, Shows1, MutationType, Commit, Streamed
<1>5. Show(ms) /\ background_entries' = RemoveAt(background_entries, k)
  BY DEF reattach_pipeline
<1> HIDE DEF b, m
<1>6. two \in Seq(Shows1) /\ Len(two) = 2
  <2>1. Note \in Shows1
    BY DEF Note, Shows1, MutationType, Commit, Streamed, LineType
  <2> HIDE DEF Shows1
  <2> QED  BY <1>4, <2>1
<1> HIDE DEF two, n
<1>7. Concat(b \o two, b, two, Shows1)
  BY <1>3, <1>6, Concatenated
<1>8. ms \in Seq(Shows1) /\ Len(ms) = n + 2
  BY <1>6, <1>7 DEF Concat, n
<1>9. PICK L, c, p : Grown(ApplyAll(screen, ms), screen, L, c) /\ Selects(p, L, ms, Len(ms))
  <2> HIDE DEF ms
  <2> QED  BY <1>0, <1>8, LinesShown DEF Shows1
<1>10. Shown2(L, c)
  BY <1>5, <1>9, ShowLost DEF Shown2
<1>11. Selects(p, L, ms, n + 2)
  BY <1>8, <1>9
<1>12. Selects(p, L, background_entries[k].buffered \o <<Note, m>>,
               Len(background_entries[k].buffered) + 2)
  BY <1>11 DEF b, two, n
<1> QED  BY <1>4, <1>5, <1>10, <1>12 DEF TakenBack

Effects ==
  \/ PlainStep \/ ScreenStep \/ BackgroundStep \/ \E k \in DOMAIN background_entries : TakenBack(k)

LEMMA PlainShow ==
  ASSUME ConstantsOK, Types, ~ quit, NEW ms, Plain(ms), Show(ms),
         said' = said, background_entries' = background_entries
  PROVE  PlainStep
BY ShowPlain DEF PlainStep, Types, Live

LEMMA PlainNothing ==
  ASSUME ConstantsOK, Types, ~ quit, screen' = screen, lost' = lost,
         said' = said, background_entries' = background_entries
  PROVE  PlainStep
BY ShowNothing DEF PlainStep, Types, Live

SpeechStep ==
  (PlainStep /\ background_entries' = background_entries) \/ ScreenStep \/ BackgroundStep

\* What is emitted in one of the three ways.
LEMMA EffectsOfSpeech ==
  ASSUME ConstantsOK, Types, Pipelines, ~ quit,
         LlmCallStarting \/ AgentOutput \/ CommitCreated \/ ToolStarted \/ ToolCompleted
         \/ AgentCancelled
  PROVE  SpeechStep
<1>0. Plain(<<>>) /\ Plain(FlushIfActive) /\ Plain(Summary)
  BY PlainOnes
<1>1. /\ Utterance(<<NextLine>>, NextLine) /\ Utterance(<<Flush, NextLine>>, NextLine)
      /\ Utterance(FlushIfActive \o <<NextLine>>, NextLine)
  BY Utterances
<1>2. ASSUME LlmCallStarting PROVE SpeechStep
  <2>1. CASE Speaks /\ Says /\ Emit(<<>>, <<Flush, NextLine>>, <<>>)
    BY <1>0, <1>1, <2>1, EmitLine DEF SpeechStep
  <2>2. CASE UNCHANGED <<said, screen, lost, background_entries>>
    BY <2>2, PlainNothing DEF SpeechStep
  <2> QED  BY <1>2, <2>1, <2>2 DEF LlmCallStarting
<1>3. ASSUME AgentOutput PROVE SpeechStep
  <2>1. Speaks /\ Says /\ Emit(<<>>, FlushIfActive \o <<NextLine>>, <<>>)
    BY <1>3 DEF AgentOutput
  <2> QED  BY <1>0, <1>1, <2>1, EmitLine DEF SpeechStep
<1>4. ASSUME CommitCreated PROVE SpeechStep
  <2>1. Speaks /\ Says /\ Emit(<<>>, <<NextLine>>, <<>>)
    BY <1>4 DEF CommitCreated
  <2> QED  BY <1>0, <1>1, <2>1, EmitLine DEF SpeechStep
<1>5. ASSUME ToolCompleted PROVE SpeechStep
  <2>1. Speaks /\ Says /\ Emit(FlushIfActive, <<NextLine>>, <<>>)
    BY <1>5 DEF ToolCompleted
  <2> QED  BY <1>0, <1>1, <2>1, EmitLine DEF SpeechStep
<1>6. ASSUME AgentCancelled PROVE SpeechStep
  <2>1. Speaks /\ Says /\ Emit(<<>>, <<Flush, NextLine>>, Summary)
    BY <1>6 DEF AgentCancelled
  <2> QED  BY <1>0, <1>1, <2>1, EmitLine DEF SpeechStep
<1>7. ASSUME ToolStarted PROVE SpeechStep
  <2>1. PICK reads \in BOOLEAN :
          /\ Speaks /\ Says
          /\ Emit(<<>>, FlushIfActive \o <<NextLine>>,
                  IF reads /\ ~bg_mode
                  THEN << <<"StreamToken", <<"hint", running, said[running] + 1>>>> >>
                  ELSE <<>>)
    BY <1>7 DEF ToolStarted
  <2>2. CASE ~ (reads /\ ~ bg_mode)
    <3>1. Emit(<<>>, FlushIfActive \o <<NextLine>>, <<>>)
      BY <2>1, <2>2
    <3> QED  BY <1>0, <1>1, <2>1, <3>1, EmitLine DEF SpeechStep
  <2>3. CASE reads /\ ~ bg_mode
    <3> DEFINE ms == FlushIfActive \o <<NextLine>>
               hint == Spoken("hint")
               last == << <<"StreamToken", hint>> >>
               shown == IF bg_mode THEN <<>> \o last ELSE <<>> \o ms \o last
    <3>8. Emit(<<>>, ms, last)
      BY <2>1, <2>3 DEF Spoken
    <3>9. shown = (<<>> \o ms) \o last
      BY <2>3
    <3>10. Show(shown) /\ background_entries' = background_entries
      BY <2>3, <3>8 DEF Emit
    <3>2. Utterance(ms, NextLine)
      BY <1>1
    <3> HIDE DEF shown
    <3>1. Show((<<>> \o ms) \o << <<"StreamToken", hint>> >>)
          /\ background_entries' = background_entries
      BY <3>9, <3>10
    <3> HIDE DEF ms, hint, last
    <3>3. <<>> \o ms = ms
      <4>1. ms \in Seq({Flush, NextLine})
        BY <3>2 DEF Utterance
      <4> QED  BY <4>1, ConcatEmptySeq
    <3>4. Show(ms \o << <<"StreamToken", hint>> >>)
      BY <3>1, <3>3
    <3>5. /\ running \in Runs /\ NextLine \in Held(running) /\ NextLine \in Commit
          /\ hint \in LineType
      BY <2>1, TheLine DEF hint
    <3>6. screen \in Live
      BY DEF Types, Live
    <3>7. ShowsHint(hint)
      BY <3>2, <3>4, <3>5, <3>6, ShowHint
    <3> QED  BY <2>1, <2>3, <3>1, <3>7 DEF SpeechStep, ScreenStep, hint
  <2> QED  BY <2>2, <2>3
<1> QED  BY <1>2, <1>3, <1>4, <1>5, <1>6, <1>7

LEMMA EffectsOfFinish ==
  ASSUME ConstantsOK, Types, Pipelines, ~ quit, FinishRun
  PROVE  Effects
<1>1. PICK ending \in {"done", "error"}, clear \in {<<>>, FlushIfActive \o << <<"SetEphemeral", <<>>>> >>} :
        /\ Show((IF bg_mode \/ ending = "error" THEN <<Note>> ELSE <<>>) \o clear)
        /\ said' = said
        /\ background_entries' =
             IF bg_mode THEN [background_entries EXCEPT ![Max(RunningEntries)].status = ending]
             ELSE background_entries
  BY DEF FinishRun, pipelines
<1>2. Plain(clear)
  <2>0. <<>> \in Shapes
    BY EmptySeq DEF Shapes
  <2>1. <<"SetEphemeral", <<>>>> \in Shows1 \ Commit
    BY <2>0 DEF Shows1, MutationType, Commit, Streamed
  <2>2. Plain(<< <<"SetEphemeral", <<>>>> >>) /\ Plain(FlushIfActive) /\ Plain(<<>>)
    BY <2>1, PlainOnes
  <2>3. Plain(FlushIfActive \o << <<"SetEphemeral", <<>>>> >>)
    BY <2>2, PlainJoined
  <2> QED  BY <1>1, <2>2, <2>3
<1>3. Plain(IF bg_mode \/ ending = "error" THEN <<Note>> ELSE <<>>)
  BY PlainOnes
<1>4. ShowsPlain
  <2>1. screen \in Live
    BY DEF Types, Live
  <2> QED  BY <1>1, <1>2, <1>3, <2>1, PlainJoined, ShowPlain
<1>5. bg_mode => Max(RunningEntries) \in RunningEntries
  BY TheEntries
<1>6. PlainStep
  BY <1>1, <1>4, <1>5 DEF PlainStep
<1> QED  BY <1>6 DEF Effects

\* What is shown whether a pipeline is shown or not.
LEMMA EffectsOfNotes ==
  ASSUME ConstantsOK, Types, Pipelines, ~ quit,
         AcceptTask \/ StartRun \/ AgentRunComplete \/ ToolPendingApproval \/ ShowNote
         \/ Edit \/ RefreshEphemeral
  PROVE  Effects
<1>0. Plain(<<>>) /\ Plain(<<Note>>) /\ Plain(FlushIfActive) /\ Plain(Summary)
  BY PlainOnes
<1>1. ASSUME AcceptTask \/ StartRun PROVE PlainStep
  BY <1>1, PlainNothing DEF AcceptTask, StartRun
<1>2. ASSUME AgentRunComplete PROVE PlainStep
  <2>1. Show(Summary) /\ said' = said /\ background_entries' = background_entries
    BY <1>2 DEF AgentRunComplete, pipelines
  <2> QED  BY <1>0, <2>1, PlainShow
<1>3. ASSUME ToolPendingApproval PROVE PlainStep
  <2>1. /\ Show(IF bg_mode THEN <<Note>> ELSE FlushIfActive \o <<Note>>)
        /\ said' = said /\ background_entries' = background_entries
    BY <1>3 DEF ToolPendingApproval, pipelines
  <2>2. Plain(FlushIfActive \o <<Note>>)
    BY <1>0, PlainJoined
  <2>3. Plain(IF bg_mode THEN <<Note>> ELSE FlushIfActive \o <<Note>>)
    BY <1>0, <2>2
  <2> QED  BY <2>1, <2>3, PlainShow
<1>4. ASSUME ShowNote PROVE PlainStep
  <2>1. Show(<<Note>>) /\ said' = said /\ background_entries' = background_entries
    BY <1>4 DEF ShowNote, pipelines
  <2> QED  BY <1>0, <2>1, PlainShow
<1>5. ASSUME Edit PROVE PlainStep
  <2>1. PICK bar \in Bars : /\ Show(<< <<"UpdatePrompt", bar>> >>)
                            /\ said' = said /\ background_entries' = background_entries
    BY <1>5 DEF Edit, pipelines
  <2>2. <<"UpdatePrompt", bar>> \in Shows1 \ Commit
    BY DEF Shows1, MutationType, Commit, Streamed, ConstantsOK
  <2>3. Plain(<< <<"UpdatePrompt", bar>> >>)
    BY <2>2, PlainOnes
  <2> QED  BY <2>1, <2>3, PlainShow
<1>6. ASSUME RefreshEphemeral PROVE PlainStep
  <2>1. PICK n \in Progress : /\ Show(<< <<"SetEphemeral", n>> >>)
                                    /\ said' = said /\ background_entries' = background_entries
    BY <1>6 DEF RefreshEphemeral, pipelines
  <2>2. n \in Shapes
    BY DEF ConstantsOK
  <2>3. <<"SetEphemeral", n>> \in Shows1 \ Commit
    BY <2>2 DEF Shows1, MutationType, Commit, Streamed
  <2>4. Plain(<< <<"SetEphemeral", n>> >>)
    BY <2>3, PlainOnes
  <2> QED  BY <2>1, <2>4, PlainShow
<1> QED  BY <1>1, <1>2, <1>3, <1>4, <1>5, <1>6 DEF Effects

LEMMA EffectsOfKeys ==
  ASSUME ConstantsOK, Types, Pipelines, ~ quit, handle_ctrl_b \/ SelectBackground
  PROVE  Effects
<1>0. /\ Len(background_entries) \in Nat /\ DOMAIN background_entries = 1..Len(background_entries)
      /\ RunningEntries \in SUBSET (1..Len(background_entries))
      /\ bg_mode => Max(RunningEntries) \in RunningEntries
      /\ running # 0 => running \in Runs
  BY TheEntries
<1>1. ASSUME SelectBackground PROVE Effects
  <2>1. PICK digit \in 1..(MaxRuns + 1) :
          /\ said' = said
          /\ IF digit <= Len(background_entries) THEN reattach_pipeline(digit)
             ELSE Show(<<Note>>) /\ background_entries' = background_entries
    BY <1>1 DEF SelectBackground, pipelines
  <2>2. CASE digit <= Len(background_entries)
    <3>1. digit \in 1..Len(background_entries)
      BY <1>0, <2>2 DEF ConstantsOK
    <3> QED  BY <1>0, <2>1, <2>2, <3>1, TakesBack DEF Effects
  <2>3. CASE ~ (digit <= Len(background_entries))
    BY <2>1, <2>3, PlainOnes, PlainShow DEF Effects
  <2> QED  BY <2>2, <2>3
<1>2. ASSUME handle_ctrl_b PROVE Effects
  <2> DEFINE n == Len(background_entries)
  <2>0. said' = said
    BY <1>2 DEF handle_ctrl_b, pipelines
  <2>1. CASE /\ bg_mode \/ (~phase_active /\ n = 1)
             /\ reattach_pipeline(IF bg_mode THEN Max(RunningEntries) ELSE 1)
    <3> DEFINE k == IF bg_mode THEN Max(RunningEntries) ELSE 1
    <3>a. bg_mode => Max(RunningEntries) \in 1..n
      BY <1>0
    <3>b. ~ bg_mode => 1 \in 1..n
      BY <2>1
    <3>1. k \in 1..n
      BY <3>a, <3>b
    <3>2. reattach_pipeline(k)
      BY <2>1
    <3> HIDE DEF k
    <3> QED  BY <1>0, <2>0, <3>1, <3>2, TakesBack DEF Effects
  <2>2. CASE /\ Show([k \in 1..(IF n = 0 THEN 1 ELSE n + 1) |-> Note])
             /\ UNCHANGED <<background_entries, bg_mode, phase_active>>
    <3> DEFINE j == IF n = 0 THEN 1 ELSE n + 1
    <3>1. j \in Nat
      BY <1>0
    <3>2. Show([k \in 1..j |-> Note])
      BY <2>2
    <3> HIDE DEF j
    <3>3. Plain([k \in 1..j |-> Note])
      BY <3>1, PlainOnes
    <3> QED  BY <2>0, <2>2, <3>2, <3>3, PlainShow DEF Effects
  <2>3. CASE /\ phase_active /\ ~bg_mode
             /\ Show(<<Note, UpdatePrompt>>)
             /\ background_entries' = Append(background_entries, Empty)
    <3>1. UpdatePrompt \in Shows1 \ Commit
      <4>1. screen.prompt \in BarType
        BY DEF Types, ScreenType
      <4> QED  BY <4>1 DEF UpdatePrompt, Shows1, MutationType, Commit, Streamed
    <3>2. Plain(<<Note, UpdatePrompt>>)
      BY <3>1, PlainOnes
    <3>3. ShowsPlain
      BY <2>3, <3>2, ShowPlain DEF Types, Live
    <3>4. running \in Runs
      BY <1>0, <2>3 DEF Pipelines
    <3> QED  BY <2>0, <2>3, <3>3, <3>4 DEF Effects, PlainStep
  <2> QED  BY <1>2, <2>1, <2>2, <2>3 DEF handle_ctrl_b, Empty
<1> QED  BY <1>1, <1>2

LEMMA EveryStep ==
  ASSUME ConstantsOK, Types, Pipelines, Next
  PROVE  ~ quit /\ (Quit \/ (Effects /\ quit' = quit))
<1>1. ~ quit
  BY DEF Next
<1>2. CASE \/ LlmCallStarting \/ AgentOutput \/ CommitCreated \/ ToolStarted \/ ToolCompleted
           \/ AgentCancelled
  <2>1. quit' = quit
    BY <1>2 DEF LlmCallStarting, AgentOutput, CommitCreated, ToolStarted, ToolCompleted, AgentCancelled
  <2> QED  BY <1>1, <1>2, <2>1, EffectsOfSpeech DEF SpeechStep, Effects
<1>3. CASE FinishRun
  <2>1. quit' = quit
    BY <1>3 DEF FinishRun
  <2> QED  BY <1>1, <1>3, <2>1, EffectsOfFinish
<1>4. CASE \/ AcceptTask \/ StartRun \/ AgentRunComplete \/ ToolPendingApproval \/ ShowNote
           \/ Edit \/ RefreshEphemeral
  <2>1. quit' = quit
    BY <1>4 DEF AcceptTask, StartRun, AgentRunComplete, ToolPendingApproval, ShowNote, Edit,
                RefreshEphemeral
  <2> QED  BY <1>1, <1>4, <2>1, EffectsOfNotes
<1>5. CASE handle_ctrl_b \/ SelectBackground
  <2>1. quit' = quit
    BY <1>5 DEF handle_ctrl_b, SelectBackground
  <2> QED  BY <1>1, <1>5, <2>1, EffectsOfKeys
<1> QED  BY <1>1, <1>2, <1>3, <1>4, <1>5 DEF Next

-----------------------------------------------------------------------------
(* The invariant *)

LEMMA StatusChanged ==
  ASSUME NEW e \in EntryType, NEW x \in {"done", "error"}
  PROVE  /\ [e EXCEPT !.status = x] \in EntryType
         /\ [e EXCEPT !.status = x].run = e.run /\ [e EXCEPT !.status = x].status = x
         /\ [e EXCEPT !.status = x].buffered = e.buffered
         /\ [e EXCEPT !.status = x].truncated = e.truncated
<1> DEFINE S == {"running", "done", "error"}
           B == Seq(Commit \cup {Flush})
           f == [e EXCEPT !.status = x]
<1>1. e \in [run : Runs, status : S, buffered : B, truncated : BOOLEAN]
  BY DEF EntryType
<1>2. x \in S
  OBVIOUS
<1> HIDE DEF S, B
<1>3. f \in [run : Runs, status : S, buffered : B, truncated : BOOLEAN]
  BY <1>1, <1>2
<1>4. f.run = e.run /\ f.status = x /\ f.buffered = e.buffered /\ f.truncated = e.truncated
  BY <1>1, <1>2
<1> HIDE DEF f
<1>5. f \in EntryType
  BY <1>3, <1>4 DEF EntryType, S, B
<1> QED  BY <1>4, <1>5 DEF f

LEMMA EmptyTyped ==
  ASSUME ConstantsOK, running \in Runs
  PROVE  /\ Empty \in EntryType /\ Empty.run = running /\ Empty.status = "running"
         /\ Len(Empty.buffered) = 0
<1> DEFINE none == <<>>
           S == {"running", "done", "error"}
           B == Seq(Commit \cup {Flush})
           e == [run |-> running, status |-> "running", buffered |-> none, truncated |-> FALSE]
<1>1. none \in B /\ none \in Seq(Held(running)) /\ Len(none) = 0
  BY EmptySeq
<1>2. "running" \in S
  OBVIOUS
<1> HIDE DEF none, S, B
<1>3. e \in [run : Runs, status : S, buffered : B, truncated : BOOLEAN]
  BY <1>1, <1>2
<1>4. e.run = running /\ e.status = "running" /\ e.buffered = none /\ ~ e.truncated
  OBVIOUS
<1>5. Empty = e
  BY DEF Empty, none
<1> HIDE DEF e
<1>6. Len(none) <= MaxBuffered /\ Len(none) <= MaxBuffered + 1
  BY <1>1 DEF ConstantsOK
<1>7. e \in EntryType
  BY <1>1, <1>3, <1>4, <1>6 DEF EntryType, S, B
<1> QED  BY <1>1, <1>4, <1>5, <1>7

\* How the list of entries changes.
SameEntries == background_entries' = background_entries
EntryEnds(k, x) ==
  /\ k \in RunningEntries /\ x \in {"done", "error"}
  /\ background_entries' = [background_entries EXCEPT ![k].status = x]
EntryBegins ==
  ~ bg_mode /\ running \in Runs /\ background_entries' = Append(background_entries, Empty)
EntryTakes(k, f) ==
  /\ bg_mode /\ k \in RunningEntries /\ Receives(f, background_entries[k], NextLine)
  /\ background_entries' = [background_entries EXCEPT ![k] = f]
EntryLeaves(k) ==
  k \in 1..Len(background_entries) /\ background_entries' = RemoveAt(background_entries, k)

LEMMA EntriesChange ==
  ASSUME Effects, DOMAIN background_entries = 1..Len(background_entries)
  PROVE  \/ SameEntries \/ EntryBegins
         \/ \E k \in RunningEntries : \E x : EntryEnds(k, x) \/ EntryTakes(k, x)
         \/ \E k \in 1..Len(background_entries) : EntryLeaves(k)
BY DEF Effects, PlainStep, ScreenStep, BackgroundStep, TakenBack,
       SameEntries, EntryBegins, EntryEnds, EntryTakes, EntryLeaves

LEMMA EntriesKept ==
  ASSUME ConstantsOK, Types, Pipelines, Effects
  PROVE  background_entries' \in Seq(EntryType)
<1> DEFINE b == background_entries
           n == Len(b)
<1>1. /\ b \in Seq(EntryType) /\ n \in Nat /\ DOMAIN b = 1..n /\ \A k \in 1..n : b[k] \in EntryType
      /\ RunningEntries \in SUBSET (1..n)
  BY TheEntries DEF Types
<1>2. ASSUME EntryBegins PROVE background_entries' \in Seq(EntryType)
  BY <1>1, <1>2, EmptyTyped, AppendProperties DEF EntryBegins
<1>3. ASSUME NEW k \in RunningEntries, NEW x, EntryEnds(k, x)
      PROVE  background_entries' \in Seq(EntryType)
  <2> DEFINE e == [b[k] EXCEPT !.status = x]
  <2>1. k \in 1..n /\ b[k] \in EntryType
    BY <1>1
  <2>2. e \in EntryType
    BY <1>3, <2>1, StatusChanged DEF EntryEnds
  <2>3. background_entries' = [b EXCEPT ![k] = e]
    BY <1>3 DEF EntryEnds
  <2> HIDE DEF e, b
  <2> QED  BY <1>1, <2>1, <2>2, <2>3, ExceptSeq
<1>4. ASSUME NEW k \in RunningEntries, NEW f, EntryTakes(k, f)
      PROVE  background_entries' \in Seq(EntryType)
  <2>1. k \in 1..n /\ f \in EntryType
    BY <1>1, <1>4 DEF EntryTakes, Receives
  <2>2. background_entries' = [b EXCEPT ![k] = f]
    BY <1>4 DEF EntryTakes
  <2> HIDE DEF b
  <2> QED  BY <1>1, <2>1, <2>2, ExceptSeq
<1>5. ASSUME NEW k \in 1..n, EntryLeaves(k) PROVE background_entries' \in Seq(EntryType)
  <2>1. background_entries' = RemoveAt(b, k)
    BY <1>5 DEF EntryLeaves
  <2> HIDE DEF b
  <2> QED  BY <1>1, <2>1, Removed
<1>6. ASSUME SameEntries PROVE background_entries' \in Seq(EntryType)
  BY <1>1, <1>6 DEF SameEntries
<1> QED  BY <1>1, <1>2, <1>3, <1>4, <1>5, <1>6, EntriesChange

LEMMA ScreenKept ==
  ASSUME ConstantsOK, Types, Pipelines, Next
  PROVE  /\ screen' \in ScreenType
         /\ (~ quit' => Drawn(screen')) /\ (quit' => Cleared(screen'))
<1>1. ~ quit /\ (Quit \/ (Effects /\ quit' = quit))
  BY EveryStep
<1>2. ASSUME Quit PROVE screen' \in ScreenType /\ quit' = TRUE /\ Cleared(screen')
  BY <1>2, ClearedForExit DEF Quit, Types
<1>3. ASSUME Effects PROVE screen' \in ScreenType /\ Drawn(screen')
  <2>1. screen' \in Live
    BY <1>3 DEF Effects, PlainStep, ScreenStep, BackgroundStep, TakenBack, ShowsPlain,
                ShowsLine, ShowsHint, Shown2, Grown
  <2> QED  BY <2>1 DEF Live
<1>4. CASE Quit
  <2>1. screen' \in ScreenType /\ quit' /\ Cleared(screen')
    BY <1>2, <1>4
  <2> QED  BY <2>1
<1>5. CASE Effects /\ quit' = quit
  <2>1. screen' \in ScreenType /\ Drawn(screen') /\ ~ quit'
    BY <1>1, <1>3, <1>5
  <2> QED  BY <2>1
<1> QED  BY <1>1, <1>4, <1>5

LEMMA CountersKept ==
  ASSUME ConstantsOK, Types, Pipelines, Next
  PROVE  /\ running' \in 0..MaxRuns /\ accepted' \in 0..MaxRuns /\ ended' \in 0..accepted'
         /\ said' \in [Runs -> 0..MaxLines] /\ tool_group' \in 0..2
<1>1. /\ running \in 0..MaxRuns /\ accepted \in 0..MaxRuns /\ ended \in 0..accepted
      /\ said \in [Runs -> 0..MaxLines] /\ tool_group \in 0..2 /\ MaxRuns \in Nat
      /\ running # 0 => running = ended + 1 /\ running <= accepted
  BY DEF Types, Pipelines, ConstantsOK
<1>2. /\ running' \in 0..MaxRuns /\ accepted' \in 0..MaxRuns /\ ended' \in 0..accepted'
  <2>1. CASE AcceptTask
    BY <1>1, <2>1 DEF AcceptTask
  <2>2. CASE StartRun
    BY <1>1, <2>2 DEF StartRun
  <2>3. CASE FinishRun
    <3>1. running # 0 /\ running' = 0 /\ ended' = ended + 1 /\ accepted' = accepted
      BY <2>3 DEF FinishRun
    <3> QED  BY <1>1, <3>1
  <2>4. CASE ~ (AcceptTask \/ StartRun \/ FinishRun)
    <3>1. running' = running /\ accepted' = accepted /\ ended' = ended
      BY <2>4 DEF Next, LlmCallStarting, AgentOutput, CommitCreated, ToolStarted, ToolCompleted,
                  AgentRunComplete, AgentCancelled, ToolPendingApproval, ShowNote,
                  handle_ctrl_b, SelectBackground, Edit, RefreshEphemeral, Quit, pipelines
    <3> QED  BY <1>1, <3>1
  <2> QED  BY <2>1, <2>2, <2>3, <2>4
<1>3. said' \in [Runs -> 0..MaxLines]
  <2>1. said' = said \/ (Speaks /\ Says)
    BY DEF Next, AcceptTask, StartRun, FinishRun,
                  LlmCallStarting, AgentOutput, CommitCreated, ToolStarted, ToolCompleted,
                  AgentRunComplete, AgentCancelled, ToolPendingApproval, ShowNote,
                  handle_ctrl_b, SelectBackground, Edit, RefreshEphemeral, Quit, pipelines
  <2>2. ASSUME Speaks, Says PROVE said' \in [Runs -> 0..MaxLines]
    <3>1. running \in Runs /\ said[running] + 1 \in 0..MaxLines
      BY <2>2, TheLine
    <3> QED  BY <1>1, <2>2, <3>1 DEF Says
  <2> QED  BY <1>1, <2>1, <2>2
<1>4. tool_group' \in 0..2
  <2>1. CASE ToolCompleted
    <3>1. tool_group' = Min({tool_group + 1, 2}) /\ tool_group + 1 \in Nat
      BY <1>1, <2>1 DEF ToolCompleted
    <3>2. Min({tool_group + 1, 2}) = IF tool_group + 1 <= 2 THEN tool_group + 1 ELSE 2
      BY <3>1, Lesser
    <3> QED  BY <3>1, <3>2
  <2>2. CASE AgentRunComplete \/ AgentCancelled
    BY <2>2 DEF AgentRunComplete, AgentCancelled
  <2>3. CASE ~ (ToolCompleted \/ AgentRunComplete \/ AgentCancelled)
    <3>1. tool_group' = tool_group
      BY <2>3 DEF Next, AcceptTask, StartRun, FinishRun, LlmCallStarting, AgentOutput,
                  CommitCreated, ToolStarted, ToolPendingApproval, ShowNote,
                  handle_ctrl_b, SelectBackground, Edit, RefreshEphemeral, Quit
    <3> QED  BY <1>1, <3>1
  <2> QED  BY <2>1, <2>2, <2>3
<1> QED  BY <1>2, <1>3, <1>4

LEMMA TypesKept ==
  ASSUME ConstantsOK, Types, Pipelines, Next
  PROVE  Types'
<1>1. background_entries' \in Seq(EntryType)
  <2>1. Quit \/ Effects
    BY EveryStep
  <2>2. ASSUME Quit PROVE background_entries' = background_entries
    BY <2>2 DEF Quit
  <2>3. background_entries \in Seq(EntryType)
    BY DEF Types
  <2> QED  BY <2>1, <2>2, <2>3, EntriesKept
<1> QED  BY <1>1, ScreenKept, CountersKept DEF Types

\* The entries are of the same pipelines as before.
SameRuns ==
  /\ DOMAIN background_entries' = DOMAIN background_entries
  /\ \A k \in DOMAIN background_entries :
       /\ background_entries'[k].run = background_entries[k].run
       /\ background_entries'[k].status = background_entries[k].status

LEMMA RunsStay ==
  ASSUME ConstantsOK, Types, Pipelines,
         SameEntries \/ \E k \in RunningEntries : \E f : EntryTakes(k, f)
  PROVE  SameRuns
<1>1. CASE SameEntries
  BY <1>1 DEF SameEntries, SameRuns
<1>2. ASSUME NEW k \in RunningEntries, NEW f, EntryTakes(k, f) PROVE SameRuns
  <2> DEFINE b == background_entries
             c == [b EXCEPT ![k] = f]
  <2>1. background_entries' = c /\ f.run = b[k].run /\ f.status = b[k].status
    BY <1>2 DEF EntryTakes, Receives
  <2>2. DOMAIN c = DOMAIN b /\ \A j \in DOMAIN b : c[j] = IF j = k THEN f ELSE b[j]
    <3> HIDE DEF b
    <3> QED  OBVIOUS
  <2> HIDE DEF c
  <2>3. \A j \in DOMAIN b : c[j].run = b[j].run /\ c[j].status = b[j].status
    BY <2>1, <2>2
  <2> QED  BY <2>1, <2>2, <2>3 DEF SameRuns
<1> QED  BY <1>1, <1>2

LEMMA RunsStayInOrder ==
  ASSUME ConstantsOK, Types, Pipelines, SameRuns, running' = running, ended' = ended,
         bg_mode' = bg_mode, accepted' \in Nat, accepted <= accepted',
         phase_active' => phase_active \/ (running # 0 /\ ~ bg_mode)
  PROVE  Pipelines'
<1> DEFINE b == background_entries
<1>1. RunningEntries' = RunningEntries
  BY DEF RunningEntries, SameRuns
<1>2. running # 0 => running' = ended' + 1 /\ running' <= accepted'
  <2>1. running \in Nat /\ accepted \in Nat
    BY DEF Types, ConstantsOK
  <2> QED  BY <2>1 DEF Pipelines
<1>3. phase_active' => running' # 0 /\ ~ bg_mode'
  BY DEF Pipelines
<1>4. bg_mode' <=> RunningEntries' # {}
  BY <1>1 DEF Pipelines
<1>5. \A k \in DOMAIN b' : IF k \in RunningEntries' THEN b'[k].run = running'
                           ELSE b'[k].run <= ended'
  BY <1>1 DEF Pipelines, SameRuns
<1>6. \A j, k \in DOMAIN b' : b'[j].run = b'[k].run => j = k
  BY DEF Pipelines, SameRuns
<1> QED  BY <1>2, <1>3, <1>4, <1>5, <1>6 DEF Pipelines

LEMMA StartKeepsPipelines ==
  ASSUME ConstantsOK, Types, Pipelines, StartRun
  PROVE  Pipelines'
<1> DEFINE b == background_entries
<1>1. /\ running = 0 /\ accepted > ended /\ running' = ended + 1 /\ ended' = ended
      /\ accepted' = accepted /\ b' = b /\ bg_mode' = bg_mode /\ phase_active' = phase_active
  BY DEF StartRun, flags
<1>2. /\ accepted \in Nat /\ ended \in Nat
      /\ DOMAIN b = 1..Len(b) /\ \A k \in DOMAIN b : b[k] \in EntryType
  BY TheEntries DEF Types, ConstantsOK
<1>3. RunningEntries = {}
  <2> SUFFICES ASSUME NEW k \in RunningEntries PROVE FALSE
    OBVIOUS
  <2>1. k \in DOMAIN b
    BY DEF RunningEntries
  <2>2. b[k].run = 0 /\ b[k].run \in Runs
    BY <1>1, <1>2, <2>1 DEF Pipelines, EntryType
  <2> QED  BY <2>2 DEF Runs
<1>4. RunningEntries' = {}
  BY <1>1, <1>3 DEF RunningEntries
<1>5. ~ bg_mode /\ ~ phase_active
  BY <1>1, <1>3 DEF Pipelines
<1>6. running' = ended' + 1 /\ running' <= accepted'
  BY <1>1, <1>2
<1>7. \A k \in DOMAIN b' : b'[k].run <= ended'
  BY <1>1, <1>3 DEF Pipelines
<1>8. \A j, k \in DOMAIN b' : b'[j].run = b'[k].run => j = k
  BY <1>1 DEF Pipelines
<1> QED  BY <1>1, <1>4, <1>5, <1>6, <1>7, <1>8 DEF Pipelines

LEMMA FinishKeepsPipelines ==
  ASSUME ConstantsOK, Types, Pipelines, FinishRun
  PROVE  Pipelines'
<1> DEFINE b == background_entries
           m == Max(RunningEntries)
<1>1. PICK ending \in {"done", "error"} :
        /\ running # 0 /\ running' = 0 /\ ended' = ended + 1 /\ accepted' = accepted
        /\ phase_active' => phase_active /\ bg_mode
        /\ ~ bg_mode'
        /\ b' = IF bg_mode THEN [b EXCEPT ![m].status = ending] ELSE b
  BY DEF FinishRun
<1>2. /\ accepted \in Nat /\ ended \in Nat /\ running = ended + 1
      /\ DOMAIN b = 1..Len(b) /\ \A k \in DOMAIN b : b[k] \in EntryType
  BY <1>1, TheEntries DEF Types, ConstantsOK, Pipelines
<1>3. ~ phase_active'
  BY <1>1 DEF Pipelines
<1>4. \A j, k \in RunningEntries : j = k
  <2> SUFFICES ASSUME NEW j \in RunningEntries, NEW k \in RunningEntries PROVE j = k
    OBVIOUS
  <2>1. j \in DOMAIN b /\ k \in DOMAIN b
    BY DEF RunningEntries
  <2> QED  BY <2>1 DEF Pipelines
<1>5. /\ DOMAIN b' = DOMAIN b /\ \A k \in DOMAIN b : b'[k].run = b[k].run
      /\ \A k \in DOMAIN b : b'[k].status # "running"
  <2>1. CASE bg_mode
    <3> DEFINE e == [b[m] EXCEPT !.status = ending]
               c == [b EXCEPT ![m] = e]
    <3>1. m \in RunningEntries /\ m \in DOMAIN b
      BY <2>1, TheEntries DEF RunningEntries
    <3>2. e.run = b[m].run /\ e.status = ending
      BY <1>2, <3>1, StatusChanged
    <3>3. b' = c
      BY <1>1, <2>1
    <3> HIDE DEF e, b, m
    <3>4. DOMAIN c = DOMAIN b /\ \A k \in DOMAIN b : c[k] = IF k = m THEN e ELSE b[k]
      OBVIOUS
    <3> HIDE DEF c
    <3>5. \A k \in DOMAIN b : c[k].run = b[k].run
      BY <3>2, <3>4
    <3>6. ASSUME NEW k \in DOMAIN b PROVE c[k].status # "running"
      <4>1. CASE k = m
        BY <3>2, <3>4, <4>1
      <4>2. CASE k # m
        <5>1. b[k].status # "running"
          BY <1>4, <3>1, <4>2 DEF RunningEntries, b
        <5> QED  BY <3>4, <4>2, <5>1
      <4> QED  BY <4>1, <4>2
    <3> QED  BY <3>3, <3>4, <3>5, <3>6
  <2>2. CASE ~ bg_mode
    <3>1. b' = b
      BY <1>1, <2>2
    <3>2. RunningEntries = {}
      BY <2>2 DEF Pipelines
    <3>3. \A k \in DOMAIN b : b[k].status # "running"
      BY <3>2 DEF RunningEntries
    <3> QED  BY <3>1, <3>3
  <2> QED  BY <2>1, <2>2
<1>6. RunningEntries' = {}
  BY <1>5 DEF RunningEntries
<1>7. \A k \in DOMAIN b' : b'[k].run <= ended'
  <2> SUFFICES ASSUME NEW k \in DOMAIN b PROVE b[k].run <= ended + 1
    BY <1>1, <1>5
  <2>1. b[k].run \in Nat /\ (b[k].run = running \/ b[k].run <= ended)
    <3>1. b[k] \in EntryType
      BY <1>2
    <3> QED  BY <3>1 DEF Pipelines, EntryType, Runs
  <2> QED  BY <1>2, <2>1
<1>8. \A j, k \in DOMAIN b' : b'[j].run = b'[k].run => j = k
  BY <1>5 DEF Pipelines
<1> QED  BY <1>1, <1>3, <1>6, <1>7, <1>8 DEF Pipelines

\* An entry is taken back, or a new one detached.
LEMMA LeavingKeepsPipelines ==
  ASSUME ConstantsOK, Types, Pipelines, NEW k \in 1..Len(background_entries),
         reattach_pipeline(k), running' = running, ended' = ended, accepted' = accepted
  PROVE  Pipelines'
<1> DEFINE b == background_entries
           n == Len(b)
           c == RemoveAt(b, k)
           From(i) == IF i < k THEN i ELSE i + 1
<1>1. /\ n \in Nat /\ DOMAIN b = 1..n /\ b \in Seq(EntryType)
      /\ RunningEntries \in SUBSET (1..n) /\ (running # 0 => running \in Runs)
  BY TheEntries DEF Types
<1>2. /\ b' = c
      /\ IF b[k].status = "running" THEN ~ bg_mode' /\ phase_active'
         ELSE bg_mode' = bg_mode /\ phase_active' = phase_active
  BY DEF reattach_pipeline
<1>3. /\ c \in Seq(EntryType) /\ Len(c) = n - 1
      /\ \A i \in 1..(n - 1) : c[i] = IF i < k THEN b[i] ELSE b[i + 1]
  <2>1. k \in 1..Len(b)
    OBVIOUS
  <2> HIDE DEF b
  <2> QED  BY <1>1, <2>1, Removed
<1>4. DOMAIN c = 1..(n - 1)
  BY <1>3, LenProperties
<1> HIDE DEF c, n
<1>5. \A i \in 1..(n - 1) : From(i) \in 1..n /\ From(i) # k /\ c[i] = b[From(i)]
  BY <1>1, <1>3
<1>6. \A i, j \in 1..(n - 1) : From(i) = From(j) => i = j
  BY <1>1
<1>7. \A j \in 1..n : j # k => \E i \in 1..(n - 1) : From(i) = j
  <2> SUFFICES ASSUME NEW j \in 1..n, j # k PROVE \E i \in 1..(n - 1) : From(i) = j
    OBVIOUS
  <2>0. k \in 1..n
    BY DEF n
  <2>1. CASE j < k
    <3>1. j \in 1..(n - 1)
      BY <1>1, <2>0, <2>1
    <3> QED  BY <2>1, <3>1
  <2>2. CASE j > k
    <3>1. j - 1 \in 1..(n - 1) /\ ~ (j - 1 < k) /\ j - 1 + 1 = j
      BY <1>1, <2>0, <2>2
    <3> QED  BY <3>1
  <2> QED  BY <1>1, <2>0, <2>1, <2>2
<1> HIDE DEF From
<1>8. \A j, l \in 1..n : b[j].run = b[l].run => j = l
  BY <1>1 DEF Pipelines
<1>9. \A i, j \in DOMAIN b' : b'[i].run = b'[j].run => i = j
  BY <1>2, <1>4, <1>5, <1>6, <1>8
<1>10. \A i \in 1..(n - 1) : i \in RunningEntries' <=> From(i) \in RunningEntries
  BY <1>1, <1>2, <1>4, <1>5 DEF RunningEntries
<1>11. RunningEntries' \in SUBSET (1..(n - 1))
  BY <1>2, <1>4 DEF RunningEntries
<1>12. \A i \in DOMAIN b' : IF i \in RunningEntries' THEN b'[i].run = running'
                            ELSE b'[i].run <= ended'
  <2>1. \A j \in 1..n : IF j \in RunningEntries THEN b[j].run = running ELSE b[j].run <= ended
    BY <1>1 DEF Pipelines
  <2> QED  BY <1>2, <1>4, <1>5, <1>10, <2>1
<1>13. running' # 0 => running' = ended' + 1 /\ running' <= accepted'
  BY DEF Pipelines
<1>14. k \in 1..n
  BY DEF n
<1>15. CASE b[k].status = "running"
  <2>1. k \in RunningEntries
    BY <1>1, <1>14, <1>15 DEF RunningEntries
  <2>2. \A j \in RunningEntries : j = k
    BY <1>1, <1>8, <2>1 DEF Pipelines
  <2>3. RunningEntries' = {}
    BY <1>5, <1>10, <1>11, <2>2
  <2>4. running # 0
    <3>1. b[k].run = running /\ b[k] \in EntryType
      BY <1>1, <1>14, <2>1, ElementOfSeq DEF Pipelines, n
    <3> QED  BY <3>1 DEF EntryType, Runs
  <2> QED  BY <1>2, <1>9, <1>12, <1>13, <1>15, <2>3, <2>4 DEF Pipelines
<1>16. CASE b[k].status # "running"
  <2>1. k \notin RunningEntries
    BY <1>16 DEF RunningEntries
  <2>2. bg_mode' <=> RunningEntries' # {}
    <3>1. RunningEntries # {} <=> RunningEntries' # {}
      BY <1>1, <1>5, <1>7, <1>10, <1>11, <2>1
    <3> QED  BY <1>2, <1>16, <3>1 DEF Pipelines
  <2>3. phase_active' => running' # 0 /\ ~ bg_mode'
    BY <1>2, <1>16 DEF Pipelines
  <2> QED  BY <1>9, <1>12, <1>13, <2>2, <2>3 DEF Pipelines
<1> QED  BY <1>15, <1>16

LEMMA BeginKeepsPipelines ==
  ASSUME ConstantsOK, Types, Pipelines, phase_active, EntryBegins, bg_mode', ~ phase_active',
         running' = running, ended' = ended, accepted' = accepted
  PROVE  Pipelines'
<1> DEFINE b == background_entries
           n == Len(b)
           c == Append(b, Empty)
<1>1. n \in Nat /\ DOMAIN b = 1..n /\ b \in Seq(EntryType) /\ running # 0 /\ running \in Runs
  BY TheEntries DEF Types, Pipelines
<1>2. Empty \in EntryType /\ Empty.run = running /\ Empty.status = "running"
  BY <1>1, EmptyTyped
<1>3. b' = c
  BY DEF EntryBegins
<1>4. c \in Seq(EntryType) /\ Len(c) = n + 1 /\ c[n + 1] = Empty /\ \A j \in 1..n : c[j] = b[j]
  <2> HIDE DEF b
  <2> QED  BY <1>1, <1>2, AppendProperties
<1>5. DOMAIN c = 1..(n + 1)
  BY <1>4, LenProperties
<1> HIDE DEF c, n
<1>6. RunningEntries = {}
  BY DEF EntryBegins, Pipelines
<1>7. \A j \in 1..n : b[j].status # "running" /\ b[j].run <= ended
  BY <1>1, <1>6 DEF RunningEntries, Pipelines
<1>8. n + 1 \in 1..(n + 1) /\ \A j \in 1..(n + 1) : j \in 1..n \/ j = n + 1
  BY <1>1
<1>9. RunningEntries' = {n + 1}
  BY <1>2, <1>3, <1>4, <1>5, <1>7, <1>8 DEF RunningEntries
<1>10. \A i \in DOMAIN b' : IF i \in RunningEntries' THEN b'[i].run = running'
                            ELSE b'[i].run <= ended'
  BY <1>2, <1>3, <1>4, <1>5, <1>7, <1>8, <1>9
<1>11. running = ended + 1 /\ ended \in Nat
  BY <1>1 DEF Pipelines, Types, ConstantsOK
<1>12. \A j \in 1..n : b[j].run # running
  <2> SUFFICES ASSUME NEW j \in 1..n PROVE b[j].run # running
    OBVIOUS
  <2>1. b[j].run <= ended
    BY <1>7
  <2> HIDE DEF b
  <2> QED  BY <1>11, <2>1
<1>13. \A i, j \in DOMAIN b' : b'[i].run = b'[j].run => i = j
  <2>1. \A i, j \in 1..n : b[i].run = b[j].run => i = j
    BY <1>1 DEF Pipelines
  <2> QED  BY <1>2, <1>3, <1>4, <1>5, <1>8, <1>12, <2>1
<1> QED  BY <1>1, <1>9, <1>10, <1>13 DEF Pipelines

LEMMA PipelinesKept ==
  ASSUME ConstantsOK, Types, Pipelines, Next
  PROVE  Pipelines'
<1>0. ~ quit /\ accepted \in Nat /\ DOMAIN background_entries = 1..Len(background_entries)
  BY EveryStep, TheEntries DEF Types, ConstantsOK
<1>1. ASSUME \/ AcceptTask \/ AgentRunComplete \/ ToolPendingApproval \/ ShowNote \/ Edit
             \/ RefreshEphemeral \/ Quit
      PROVE  Pipelines'
  <2>1. /\ SameEntries /\ running' = running /\ ended' = ended /\ bg_mode' = bg_mode
        /\ accepted' \in {accepted, accepted + 1}
        /\ phase_active' => phase_active
    <3>1. CASE AcceptTask
      BY <3>1 DEF AcceptTask, SameEntries
    <3>2. CASE \/ AgentRunComplete \/ ToolPendingApproval \/ ShowNote \/ Edit
               \/ RefreshEphemeral \/ Quit
      <4>1. /\ SameEntries /\ running' = running /\ ended' = ended /\ bg_mode' = bg_mode
            /\ accepted' = accepted /\ phase_active' = phase_active
        BY <3>2 DEF AgentRunComplete, ToolPendingApproval, ShowNote, Edit,
                    RefreshEphemeral, Quit, pipelines, flags, SameEntries
      <4> QED  BY <4>1
    <3> QED  BY <1>1, <3>1, <3>2
  <2>2. accepted' \in Nat /\ accepted <= accepted'
    BY <1>0, <2>1
  <2> QED  BY <2>1, <2>2, RunsStay, RunsStayInOrder
<1>2. ASSUME \/ LlmCallStarting \/ AgentOutput \/ CommitCreated \/ ToolStarted \/ ToolCompleted
             \/ AgentCancelled
      PROVE  Pipelines'
  <2>1. SameEntries \/ \E k \in RunningEntries : \E f : EntryTakes(k, f)
    <3>1. SpeechStep
      BY <1>0, <1>2, EffectsOfSpeech
    <3> QED  BY <3>1 DEF SpeechStep, ScreenStep, BackgroundStep, SameEntries, EntryTakes
  <2>2. /\ running' = running /\ ended' = ended /\ bg_mode' = bg_mode /\ accepted' = accepted
        /\ running # 0
    BY <1>2 DEF LlmCallStarting, AgentOutput, CommitCreated, ToolStarted, ToolCompleted,
                AgentCancelled, flags, Speaks
  <2>3. phase_active' => phase_active \/ ~ bg_mode
    BY <1>2 DEF LlmCallStarting, AgentOutput, CommitCreated, ToolStarted, ToolCompleted,
                AgentCancelled, flags
  <2>4. accepted' \in Nat /\ accepted <= accepted'
    BY <1>0, <2>2
  <2> QED  BY <2>1, <2>2, <2>3, <2>4, RunsStay, RunsStayInOrder
<1>3. ASSUME SelectBackground PROVE Pipelines'
  <2>1. PICK digit \in 1..(MaxRuns + 1) :
          /\ running' = running /\ ended' = ended /\ accepted' = accepted
          /\ IF digit <= Len(background_entries) THEN reattach_pipeline(digit)
             ELSE background_entries' = background_entries /\ bg_mode' = bg_mode
                  /\ phase_active' = phase_active
    BY <1>3 DEF SelectBackground, pipelines
  <2>2. CASE digit <= Len(background_entries)
    <3>1. digit \in 1..Len(background_entries)
      <4>1. Len(background_entries) \in Nat
        BY TheEntries
      <4> QED  BY <2>2, <4>1 DEF ConstantsOK
    <3> QED  BY <2>1, <2>2, <3>1, LeavingKeepsPipelines
  <2>3. CASE ~ (digit <= Len(background_entries))
    <3>1. SameEntries /\ accepted' \in Nat /\ accepted <= accepted'
      BY <1>0, <2>1, <2>3 DEF SameEntries
    <3> QED  BY <2>1, <2>3, <3>1, RunsStay, RunsStayInOrder
  <2> QED  BY <2>2, <2>3
<1>4. ASSUME handle_ctrl_b PROVE Pipelines'
  <2> DEFINE n == Len(background_entries)
  <2>0. running' = running /\ ended' = ended /\ accepted' = accepted
    BY <1>4 DEF handle_ctrl_b, pipelines
  <2>1. CASE /\ bg_mode \/ (~phase_active /\ n = 1)
             /\ reattach_pipeline(IF bg_mode THEN Max(RunningEntries) ELSE 1)
    <3> DEFINE k == IF bg_mode THEN Max(RunningEntries) ELSE 1
    <3>a. bg_mode => Max(RunningEntries) \in 1..n
      BY TheEntries
    <3>b. ~ bg_mode => 1 \in 1..n
      BY <2>1
    <3>1. k \in 1..n
      BY <3>a, <3>b
    <3>2. reattach_pipeline(k)
      BY <2>1
    <3> HIDE DEF k
    <3> QED  BY <2>0, <3>1, <3>2, LeavingKeepsPipelines
  <2>2. CASE UNCHANGED <<background_entries, bg_mode, phase_active>>
    <3>1. /\ SameEntries /\ accepted' \in Nat /\ accepted <= accepted'
          /\ bg_mode' = bg_mode /\ phase_active' = phase_active
      BY <1>0, <2>0, <2>2 DEF SameEntries
    <3> QED  BY <2>0, <3>1, RunsStay, RunsStayInOrder
  <2>3. CASE /\ phase_active /\ ~bg_mode
             /\ background_entries' = Append(background_entries, Empty)
             /\ bg_mode' = TRUE /\ phase_active' = FALSE
    <3>1. running \in Runs
      <4>1. running # 0
        BY <2>3 DEF Pipelines
      <4> QED  BY <4>1, TheEntries
    <3>2. EntryBegins
      BY <2>3, <3>1 DEF EntryBegins
    <3> QED  BY <2>0, <2>3, <3>2, BeginKeepsPipelines
  <2> QED  BY <1>4, <2>1, <2>2, <2>3 DEF handle_ctrl_b, Empty
<1> QED  BY <1>1, <1>2, <1>3, <1>4, StartKeepsPipelines, FinishKeepsPipelines DEF Next

LEMMA AtFirst ==
  ASSUME ConstantsOK, Init
  PROVE  Types /\ Pipelines
<1>1. PICK bar \in Bars :
        screen = init_prompt([r \in 0..(Height - 1) |-> Blank], build_prompt(bar))
  BY DEF Init
<1>2. bar \in BarType
  BY DEF ConstantsOK
<1>3. build_prompt(bar) \in BarType
  BY <1>2, PromptBuilt
<1>4. screen \in ScreenType /\ Drawn(screen)
  BY <1>1, <1>3, FirstScreen
<1>5. /\ accepted = 0 /\ running = 0 /\ ended = 0 /\ said = [r \in Runs |-> 0]
      /\ ~ phase_active /\ ~ bg_mode /\ background_entries = <<>> /\ tool_group = 0 /\ ~ quit
  BY DEF Init
<1>6. background_entries \in Seq(EntryType) /\ DOMAIN background_entries = {}
  BY <1>5, EmptySeq
<1>7. said \in [Runs -> 0..MaxLines]
  BY <1>5 DEF ConstantsOK
<1>8. RunningEntries = {}
  BY <1>6 DEF RunningEntries
<1>9. 0 \in 0..MaxRuns
  BY DEF ConstantsOK
<1>10. Types
  BY <1>4, <1>5, <1>6, <1>7, <1>9 DEF Types
<1>11. Pipelines
  BY <1>5, <1>6, <1>8 DEF Pipelines
<1> QED  BY <1>10, <1>11

LEMMA UnchangedVars ==
  ASSUME Types, Pipelines, UNCHANGED vars
  PROVE  Types' /\ Pipelines'
<1>1. /\ screen' = screen /\ quit' = quit /\ running' = running /\ accepted' = accepted
      /\ ended' = ended /\ said' = said /\ tool_group' = tool_group
      /\ background_entries' = background_entries /\ phase_active' = phase_active
      /\ bg_mode' = bg_mode
  BY DEF vars, pipelines, flags
<1>2. Types'
  BY <1>1 DEF Types
<1>3. RunningEntries' = RunningEntries
  BY <1>1 DEF RunningEntries
<1>4. Pipelines'
  BY <1>1, <1>3 DEF Pipelines
<1> QED  BY <1>2, <1>4

LEMMA TypesImply ==
  ASSUME ConstantsOK, Types
  PROVE  TypeOK
<1>1. /\ DOMAIN screen.rows = 0..(Height - 1)
      /\ screen.cursor[1] \in 0..(Height - 1) /\ screen.caret[1] \in 0..(Height - 1)
  BY DEF Types, ScreenType
<1>2. \A k \in DOMAIN background_entries :
        /\ background_entries[k].status \in {"running", "done", "error"}
        /\ Len(background_entries[k].buffered) <= MaxBuffered + 1
  <2> SUFFICES ASSUME NEW k \in DOMAIN background_entries
               PROVE  /\ background_entries[k].status \in {"running", "done", "error"}
                      /\ Len(background_entries[k].buffered) <= MaxBuffered + 1
    OBVIOUS
  <2>1. background_entries[k] \in EntryType
    <3>1. background_entries \in Seq(EntryType) /\ k \in 1..Len(background_entries)
      BY LenProperties DEF Types
    <3> QED  BY <3>1, ElementOfSeq
  <2> QED  BY <2>1 DEF EntryType
<1> QED  BY <1>1, <1>2 DEF TypeOK, Types

Inv == Types /\ Pipelines

LEMMA Inductive ==
  ConstantsOK => (Spec => []Inv)
<1> SUFFICES ASSUME ConstantsOK PROVE Spec => []Inv
  OBVIOUS
<1>1. Init => Inv
  BY AtFirst DEF Inv
<1>2. Inv /\ [Next]_vars => Inv'
  BY TypesKept, PipelinesKept, UnchangedVars DEF Inv
<1> QED  BY <1>1, <1>2, PTL DEF Spec

\* Counters stay within their bounds, cursor and caret on the screen, and no entry
\* holds more than it may and the notice of its truncation (state.rs:1342).
THEOREM TypeCorrect == ConstantsOK => (Spec => []TypeOK)
<1> SUFFICES ASSUME ConstantsOK PROVE Spec => []TypeOK
  OBVIOUS
<1>1. Inv => TypeOK
  BY TypesImply DEF Inv
<1>2. Spec => []Inv
  BY Inductive
<1> QED  BY <1>1, <1>2, PTL

-----------------------------------------------------------------------------
(* The transcript only grows *)

LEMMA FirstLinesStay ==
  ASSUME ConstantsOK, screen \in Live, screen' \in ScreenType, NEW c \in Nat,
         c = Len(Transcript(screen)) \/ (c = Len(Transcript(screen)) - 1 /\ screen.stream_line_open),
         Len(Transcript(screen')) >= Len(Transcript(screen)),
         \A k \in 1..c : Transcript(screen')[k] = Transcript(screen)[k]
  PROVE  AppendOnly
<1> DEFINE a == Transcript(screen)
           b == Transcript(screen')
           n == Len(a)
<1>1. n \in Nat /\ DOMAIN a = 1..n
  BY TranscriptIs, LenProperties DEF Live
<1> HIDE DEF a, b
<1>2. Len(b) >= n /\ (c = n \/ (c = n - 1 /\ screen.stream_line_open))
      /\ \A k \in 1..c : b[k] = a[k]
  BY DEF a, b
<1> HIDE DEF n
<1>3. ASSUME NEW k \in DOMAIN a, b[k] # a[k] PROVE k = n /\ screen.stream_line_open
  <2>1. k \in 1..n /\ k \notin 1..c
    BY <1>1, <1>2, <1>3
  <2>2. k > c
    BY <1>1, <2>1
  <2> QED  BY <1>1, <1>2, <2>1, <2>2
<1> QED  BY <1>2, <1>3 DEF AppendOnly, a, b, n

LEMMA StepAppends ==
  ASSUME ConstantsOK, Types, Pipelines, Next
  PROVE  AppendOnly
<1>1. ~ quit /\ (Quit \/ Effects)
  BY EveryStep
<1>2. screen \in Live
  BY <1>1 DEF Types, Live
<1>3. Len(Transcript(screen)) \in Nat /\ Len(Transcript(screen)) >= 1
  BY <1>2, TranscriptIs DEF Live
<1>4. ASSUME NEW L, NEW c, Shown2(L, c) PROVE AppendOnly
  <2>1. /\ screen' \in ScreenType /\ c \in Nat
        /\ c = Len(Transcript(screen))
           \/ (c = Len(Transcript(screen)) - 1 /\ screen.stream_line_open /\ Len(L) >= 1)
        /\ Len(Transcript(screen')) = c + Len(L) /\ Len(L) \in Nat
        /\ \A k \in 1..c : Transcript(screen')[k] = Transcript(screen)[k]
    BY <1>4, LenProperties DEF Shown2, Grown, Live
  <2>2. Len(Transcript(screen')) >= Len(Transcript(screen))
    BY <1>3, <2>1
  <2> QED  BY <1>2, <2>1, <2>2, FirstLinesStay
<1>5. ASSUME NEW hint, ShowsHint(hint) PROVE AppendOnly
  <2>1. PICK c \in Nat :
          /\ screen' \in ScreenType
          /\ c = Len(Transcript(screen))
             \/ (c = Len(Transcript(screen)) - 1 /\ screen.stream_line_open)
          /\ Len(Transcript(screen')) = c + 1
          /\ \A k \in 1..c : Transcript(screen')[k] = Transcript(screen)[k]
    BY <1>5 DEF ShowsHint, Live
  <2>2. Len(Transcript(screen')) >= Len(Transcript(screen))
    BY <1>3, <2>1
  <2> QED  BY <1>2, <2>1, <2>2, FirstLinesStay
<1>6. ASSUME Quit PROVE AppendOnly
  <2>1. Keeps(screen', screen)
    BY <1>6, ClearedForExit DEF Quit, Types
  <2> QED  BY <1>3, <2>1 DEF Keeps, AppendOnly
<1> QED  BY <1>1, <1>4, <1>5, <1>6 DEF Effects, PlainStep, ScreenStep, BackgroundStep, TakenBack,
            ShowsPlain, ShowsLine

\* What was committed stays as it is: a step only adds lines, and replaces at most the
\* last one, if a stream line is open there (renderer.rs:1).
THEOREM CommittedStays == ConstantsOK => (Spec => TranscriptIsAppendOnly)
<1> SUFFICES ASSUME ConstantsOK PROVE Spec => TranscriptIsAppendOnly
  OBVIOUS
<1>1. Inv /\ [Next]_vars => [AppendOnly]_vars
  BY StepAppends DEF Inv
<1>2. Spec => []Inv
  BY Inductive
<1> QED  BY <1>1, <1>2, PTL DEF Spec, TranscriptIsAppendOnly

-----------------------------------------------------------------------------
(* The cursor is at the caret: lines of characters that take one column    *)

Narrow == {line \in Line : "w" \notin Range(line)}

\* The characters before a row of the input.
Before(i) == (i - 1) * WrapWidth

LEMMA BeforeNext ==
  ASSUME ConstantsOK, NEW i \in Nat, i >= 1
  PROVE  Before(i) \in Nat /\ Before(i + 1) = Before(i) + WrapWidth /\ WrapWidth \in Nat
<1>1. WrapWidth \in Nat
  BY DEF ConstantsOK
<1>2. i - 1 \in Nat /\ (i + 1) - 1 = (i - 1) + 1
  OBVIOUS
<1> DEFINE k == i - 1
<1>3. k * WrapWidth \in Nat /\ (k + 1) * WrapWidth = k * WrapWidth + WrapWidth
  <2> HIDE DEF k
  <2>1. k \in Nat
    BY <1>2 DEF k
  <2> QED  BY <1>1, <2>1
<1> QED  BY <1>1, <1>2, <1>3 DEF Before

\* Rows before a row hold no more characters.
LEMMA BeforeGrows ==
  ASSUME ConstantsOK, NEW i \in Nat, NEW k \in Nat, i >= 1, i <= k
  PROVE  Before(i) <= Before(k)
<1> DEFINE a == i - 1
           b == k - 1
<1>1. a \in Nat /\ b \in Nat /\ a <= b /\ WrapWidth \in Nat
  BY DEF ConstantsOK
<1>2. a * WrapWidth <= b * WrapWidth
  <2> HIDE DEF a, b
  <2> QED  BY <1>1
<1> QED  BY <1>2 DEF Before

LEMMA Quotient ==
  ASSUME ConstantsOK, NEW x \in Nat, NEW i \in Nat, i >= 1,
         Before(i) <= x, x < Before(i) + WrapWidth
  PROVE  x \div WrapWidth = i - 1 /\ x % WrapWidth = x - Before(i)
<1> DEFINE w == WrapWidth
           q == x \div w
           r == x % w
           m == i - 1
<1>1. w \in Nat /\ w >= 1 /\ m \in Nat
  BY DEF ConstantsOK
<1>2. q \in Nat /\ r \in Nat /\ r < w /\ x = q * w + r
  <2> HIDE DEF w
  <2> QED  BY <1>1
<1>3. m * w <= x /\ x < m * w + w /\ Before(i) = m * w
  BY DEF Before
<1> HIDE DEF w, q, r, m
<1>4. q = m
  <2>1. q * w \in Nat /\ m * w \in Nat
    BY <1>1, <1>2
  <2>2. ASSUME q < m PROVE FALSE
    <3>1. q + 1 <= m
      BY <1>1, <1>2, <2>2
    <3>2. (q + 1) * w <= m * w
      BY <1>1, <1>2, <3>1
    <3>3. (q + 1) * w = q * w + w
      BY <1>1, <1>2
    <3> QED  BY <1>1, <1>2, <1>3, <2>1, <3>2, <3>3
  <2>3. ASSUME m < q PROVE FALSE
    <3>1. m + 1 <= q
      BY <1>1, <1>2, <2>3
    <3>2. (m + 1) * w <= q * w
      BY <1>1, <1>2, <3>1
    <3>3. (m + 1) * w = m * w + w
      BY <1>1, <1>2
    <3> QED  BY <1>1, <1>2, <1>3, <2>1, <3>2, <3>3
  <2> QED  BY <1>1, <1>2, <2>2, <2>3
<1>5. r = x - m * w
  <2>1. m * w \in Nat
    BY <1>1
  <2> QED  BY <1>2, <1>4, <2>1
<1> QED  BY <1>3, <1>4, <1>5 DEF q, r, m, w

\* Characters that take one column each.
LEMMA NarrowColumns ==
  ASSUME NEW line \in Narrow, NEW n \in Nat, NEW positions, DOMAIN positions = 1..n,
         Len(positions) = n, \A k \in 1..n : positions[k] \in 1..Len(line)
  PROVE  Columns(line, positions) = n
<1>1. \A k \in 1..Len(line) : line[k] # "w"
  <2>1. DOMAIN line = 1..Len(line)
    BY LenProperties DEF Narrow, Line
  <2> QED  BY <2>1 DEF Narrow, Range
<1>2. {k \in DOMAIN positions : line[positions[k]] = "w"} = {}
  BY <1>1
<1>3. Cardinality({}) = 0
  BY FS_EmptySet
<1>4. Columns(line, positions) = n + Cardinality({})
  BY <1>2 DEF Columns
<1> QED  BY <1>3, <1>4

\* The rows of the first k characters: all are full but the last one, which is empty
\* only if there is no character.
Even(rows, k) ==
  /\ rows \in Fragments
  /\ Before(Len(rows)) <= k /\ k <= Before(Len(rows)) + WrapWidth
  /\ k = 0 => Len(rows) = 1
  /\ k > 0 => Before(Len(rows)) < k
  /\ \A i \in 1..Len(rows) :
       /\ Len(rows[i]) = IF i < Len(rows) THEN WrapWidth ELSE k - Before(Len(rows))
       /\ \A j \in 1..Len(rows[i]) : rows[i][j] = Before(i) + j

LEMMA EvenAtFirst ==
  ASSUME ConstantsOK
  PROVE  Even(<<<<>>>>, 0)
<1> DEFINE none == <<<<>>>>
<1>1. none \in Seq(Seq(Nat)) /\ Len(none) = 1 /\ none[1] = <<>> /\ Len(<<>>) = 0
  <2>1. <<>> \in Seq(Nat) /\ Len(<<>>) = 0
    BY EmptySeq
  <2> QED  BY <2>1
<1> HIDE DEF none
<1>2. Before(1) = 0 /\ WrapWidth \in Nat
  <2>1. 1 - 1 = 0 /\ WrapWidth \in Nat /\ 0 * WrapWidth = 0
    BY DEF ConstantsOK
  <2> QED  BY <2>1 DEF Before
<1>3. none \in Fragments
  <2>1. Len(none) >= 1
    BY <1>1
  <2> QED  BY <1>1, <2>1, Zenon DEF Fragments
<1>4. \A i \in 1..1 : Len(none[i]) = 0
  BY <1>1
<1>5. Even(none, 0)
  BY <1>1, <1>2, <1>3, <1>4 DEF Even
<1> QED  BY <1>5 DEF none

\* The next character goes to a new row when the last one is full.
LEMMA EvenNext ==
  ASSUME ConstantsOK, NEW line \in Narrow, NEW k \in 1..Len(line), NEW rows,
         Even(rows, k - 1)
  PROVE  Even(Wrapped(line, rows, k), k)
<1> DEFINE m == Len(rows)
           last == Last(rows)
           longer == Append(last, k)
           t == Wrapped(line, rows, k)
           w == WrapWidth
           b == Before(m)
<1>1. Len(line) \in Nat /\ k \in Nat /\ k >= 1
  BY LenProperties DEF Narrow, Line
<1>2. /\ rows \in Seq(Seq(Nat)) /\ m \in Nat /\ m >= 1
      /\ \A i \in 1..m : rows[i] \in Seq(Nat) /\ Len(rows[i]) \in Nat
  BY LenProperties, ElementOfSeq DEF Even, Fragments
<1>3. last = rows[m] /\ last \in Seq(Nat)
  BY <1>2 DEF Last
<1>4. b \in Nat /\ w \in Nat /\ w >= 1 /\ Before(m + 1) = b + w
  BY <1>2, BeforeNext DEF ConstantsOK
<1>5. /\ b <= k - 1 /\ k - 1 <= b + w
      /\ \A i \in 1..m : /\ Len(rows[i]) = IF i < m THEN w ELSE (k - 1) - b
                         /\ \A j \in 1..Len(rows[i]) : rows[i][j] = Before(i) + j
  BY DEF Even
<1>r. /\ b <= k - 1 /\ k - 1 <= b + w
      /\ \A i \in 1..(m - 1) : Len(rows[i]) = w
      /\ \A i \in 1..m : \A j \in 1..Len(rows[i]) : rows[i][j] = Before(i) + j
  <2>1. \A i \in 1..(m - 1) : i \in 1..m /\ i < m
    BY <1>2
  <2> QED  BY <1>5, <2>1
<1>s. b <= k - 1 /\ k - 1 <= b + w
  BY <1>5
<1>6. m \in 1..m /\ Len(last) = (k - 1) - b /\ Len(last) \in Nat
  BY <1>2, <1>3, <1>5
<1>7. /\ longer \in Seq(Nat) /\ Len(longer) = k - b /\ k - b \in Nat
      /\ \A j \in 1..(k - b) : longer[j] = b + j
  <2> DEFINE d == (k - 1) - b
  <2>1. d \in Nat /\ Len(last) = d /\ d + 1 = k - b
    BY <1>1, <1>4, <1>5, <1>6
  <2>2. /\ longer \in Seq(Nat) /\ Len(longer) = d + 1 /\ longer[d + 1] = k
        /\ \A j \in 1..d : longer[j] = last[j]
    <3> HIDE DEF d
    <3> QED  BY <1>1, <1>3, <2>1, AppendProperties
  <2>3. \A j \in 1..d : last[j] = b + j
    BY <1>3, <1>5, <1>6, <2>1
  <2>4. ASSUME NEW j \in 1..(k - b) PROVE longer[j] = b + j
    <3>1. CASE j \in 1..d
      BY <2>2, <2>3, <3>1
    <3>2. CASE j = d + 1
      BY <1>1, <1>4, <2>1, <2>2, <3>2
    <3> QED  BY <2>1, <3>1, <3>2
  <2> QED  BY <2>1, <2>2, <2>4
<1>8. Columns(line, longer) = k - b
  <2>1. DOMAIN longer = 1..(k - b)
    BY <1>7, LenProperties
  <2>2. \A j \in 1..(k - b) : longer[j] \in 1..Len(line)
    <3> HIDE DEF longer, b
    <3>1. ASSUME NEW j \in 1..(k - b) PROVE b + j \in 1..Len(line)
      BY <1>1, <1>4
    <3> QED  BY <1>7, <3>1
  <2> HIDE DEF longer, b
  <2> QED  BY <1>7, <2>1, <2>2, NarrowColumns
<1>9. last = <<>> <=> Len(last) = 0
  BY <1>3
<1> HIDE DEF m, last, longer, w, b
<1>10. CASE k - b > w
  <2> DEFINE x == <<k>>
  <2>1. last # <<>>
    BY <1>1, <1>4, <1>6, <1>9, <1>10
  <2>2. t = Append(rows, x)
    BY <1>8, <1>10, <2>1 DEF Wrapped, last, longer, w
  <2>3. x \in Seq(Nat) /\ Len(x) = 1 /\ x[1] = k
    BY <1>1
  <2> HIDE DEF x, t
  <2>4. /\ t \in Seq(Seq(Nat)) /\ Len(t) = m + 1 /\ t[m + 1] = x
        /\ \A i \in 1..m : t[i] = rows[i]
    BY <1>2, <2>2, <2>3, AppendProperties DEF m
  <2>5. t \in Fragments
    BY <1>2, <2>4 DEF Fragments
  <2>6. k = b + w + 1 /\ k - (b + w) = 1 /\ b + w < k /\ k <= (b + w) + w
    BY <1>1, <1>4, <1>s, <1>10
  <2>7. ASSUME NEW i \in 1..(m + 1)
        PROVE  /\ Len(t[i]) = IF i < m + 1 THEN w ELSE k - (b + w)
               /\ \A j \in 1..Len(t[i]) : t[i][j] = Before(i) + j
    <3>1. CASE i = m + 1
      <4>1. t[i] = x /\ Len(t[i]) = 1 /\ t[i][1] = k /\ ~ (i < m + 1)
        BY <1>2, <2>3, <2>4, <3>1
      <4>2. Before(i) + 1 = k
        BY <1>4, <2>6, <3>1
      <4> QED  BY <2>6, <4>1, <4>2
    <3>2. CASE i \in 1..m
      <4>1. t[i] = rows[i] /\ i < m + 1
        BY <1>2, <2>4, <3>2
      <4>2. Len(rows[i]) = w
        <5>1. (k - 1) - b = w
          BY <1>4, <2>6
        <5>2. Len(rows[i]) = IF i < m THEN w ELSE (k - 1) - b
          BY <1>5, <3>2
        <5> QED  BY <5>1, <5>2
      <4>3. \A j \in 1..Len(rows[i]) : rows[i][j] = Before(i) + j
        BY <1>r, <3>2
      <4> QED  BY <4>1, <4>2, <4>3
    <3> QED  BY <1>2, <3>1, <3>2
  <2>8. Before(Len(t)) = b + w
    BY <1>4, <2>4
  <2>9. k - 1 > 0
    BY <1>4, <2>6
  <2>10. Even(t, k)
    <3>1. /\ Before(Len(t)) <= k /\ k <= Before(Len(t)) + WrapWidth
          /\ k # 0 /\ Before(Len(t)) < k
      BY <1>1, <1>4, <2>6, <2>8 DEF w
    <3>2. \A i \in 1..Len(t) :
            /\ Len(t[i]) = IF i < Len(t) THEN WrapWidth ELSE k - Before(Len(t))
            /\ \A j \in 1..Len(t[i]) : t[i][j] = Before(i) + j
      BY <2>4, <2>7, <2>8 DEF w
    <3> QED  BY <2>5, <3>1, <3>2 DEF Even
  <2> QED  BY <2>10 DEF t
<1>11. CASE ~ (k - b > w)
  <2> DEFINE y == <<longer>>
             z == Front(rows)
  <2>1. t = z \o y
    BY <1>8, <1>11 DEF Wrapped, last, longer, w
  <2>2. y \in Seq(Seq(Nat)) /\ Len(y) = 1 /\ y[1] = longer
    BY <1>7
  <2>3. z \in Seq(Seq(Nat)) /\ Len(z) = m - 1 /\ \A i \in 1..(m - 1) : z[i] = rows[i]
    <3>1. m - 1 \in 0..Len(rows)
      BY <1>2 DEF m
    <3> QED  BY <1>2, <3>1, Start DEF Front, m
  <2> HIDE DEF y, z, t
  <2>4. /\ t \in Seq(Seq(Nat)) /\ Len(t) = Len(z) + Len(y)
        /\ \A i \in 1..(Len(z) + Len(y)) : t[i] = IF i <= Len(z) THEN z[i] ELSE y[i - Len(z)]
    BY <2>1, <2>2, <2>3, ConcatProperties
  <2>4a. Len(t) = m /\ m \in 1..m /\ m \in Nat /\ m >= 1
    BY <1>2, <2>2, <2>3, <2>4
  <2>4b. \A i \in 1..m : t[i] = IF i <= m - 1 THEN z[i] ELSE y[i - (m - 1)]
    BY <2>2, <2>3, <2>4, <2>4a
  <2>4c. t[m] = longer
    <3>1. ~ (m <= m - 1) /\ m - (m - 1) = 1
      BY <2>4a
    <3> QED  BY <2>2, <2>4a, <2>4b, <3>1
  <2>4d. ASSUME NEW i \in 1..(m - 1) PROVE t[i] = rows[i]
    <3>1. i \in 1..m /\ i <= m - 1
      BY <2>4a
    <3> QED  BY <2>3, <2>4b, <3>1
  <2>5. Len(t) = m /\ t[m] = longer /\ \A i \in 1..(m - 1) : t[i] = rows[i]
    BY <2>4a, <2>4c, <2>4d
  <2>6. t \in Fragments
    BY <1>2, <2>4, <2>5 DEF Fragments
  <2>7. ASSUME NEW i \in 1..m
        PROVE  /\ Len(t[i]) = IF i < m THEN w ELSE k - b
               /\ \A j \in 1..Len(t[i]) : t[i][j] = Before(i) + j
    <3>1. CASE i = m
      BY <1>2, <1>7, <2>5, <3>1 DEF b
    <3>2. CASE i \in 1..(m - 1)
      <4>1. i < m /\ t[i] = rows[i] /\ i \in 1..m
        BY <1>2, <2>5, <3>2
      <4>2. Len(rows[i]) = w
        BY <1>r, <3>2
      <4> QED  BY <1>r, <4>1, <4>2
    <3> QED  BY <1>2, <3>1, <3>2
  <2>8. b <= k /\ k <= b + w /\ b < k
    BY <1>1, <1>4, <1>s, <1>11
  <2>9. Even(t, k)
    BY <1>1, <2>5, <2>6, <2>7, <2>8 DEF Even, w, b
  <2> QED  BY <2>9 DEF t
<1> QED  BY <1>10, <1>11

LEMMA NarrowRows ==
  ASSUME ConstantsOK, NEW line \in Narrow
  PROVE  Even(soft_wrap_line(line), Len(line))
<1>1. line \in Line /\ Len(line) \in Nat
  BY LenProperties DEF Narrow, Line
<1>2. PICK g : Wrappings(g, line)
  BY <1>1, WrappingsExist
<1>3. /\ g[0] = <<<<>>>> /\ g[Len(line)] = soft_wrap_line(line)
      /\ \A k \in 1..Len(line) : g[k] = Wrapped(line, g[k - 1], k)
  BY <1>2 DEF Wrappings
<1> DEFINE n == Len(line)
           P == {k \in 0..n : Even(g[k], k)}
<1>4. 0 \in P
  <2>1. Even(g[0], 0)
    BY <1>3, EvenAtFirst
  <2> QED  BY <1>1, <2>1
<1>5. ASSUME NEW k \in 1..n, k - 1 \in P PROVE k \in P
  <2>1. Even(g[k - 1], k - 1)
    BY <1>5
  <2>2. Even(Wrapped(line, g[k - 1], k), k)
    BY <2>1, EvenNext
  <2> QED  BY <1>1, <1>3, <2>2
<1> HIDE DEF P
<1>6. \A k \in 1..n : k - 1 \in P => k \in P
  BY <1>5
<1>7. n \in 0..n /\ n \in Nat
  BY <1>1
<1>8. n \in P
  <2> HIDE DEF n
  <2> QED  BY <1>4, <1>6, <1>7, Climb
<1> QED  BY <1>3, <1>8 DEF P

\* As many rows as the layout counts, and the caret's is the one of its column.
LEMMA NarrowHeight ==
  ASSUME ConstantsOK, NEW line \in Narrow
  PROVE  wrap_rows(line) = Len(soft_wrap_line(line))
<1> DEFINE n == Len(line)
           rows == soft_wrap_line(line)
           m == Len(rows)
           b == Before(m)
           w == WrapWidth
           q == (n + w - 1) \div w
<1>1. line \in Line /\ n \in Nat /\ DOMAIN line = 1..n
  BY LenProperties DEF Narrow, Line
<1>2. display_width(line) = n
  <2>1. /\ Len([k \in 1..n |-> k]) = n /\ DOMAIN [k \in 1..n |-> k] = 1..n
        /\ \A k \in 1..n : [j \in 1..n |-> j][k] \in 1..n
    BY <1>1, Positions
  <2>2. Columns(line, [k \in 1..n |-> k]) = n
    BY <1>1, <2>1, NarrowColumns
  <2> QED  BY <1>1, <2>2 DEF display_width
<1>3. wrap_rows(line) = Max({1, q})
  BY <1>2 DEF wrap_rows
<1>4. /\ rows \in Fragments /\ b <= n /\ n <= b + w /\ (n = 0 => m = 1) /\ (n > 0 => b < n)
  BY NarrowRows DEF Even
<1>5. m \in Nat /\ m >= 1
  BY <1>4, LenProperties DEF Fragments
<1>6. b \in Nat /\ Before(m + 1) = b + w /\ w \in Nat /\ w >= 1
  BY <1>5, BeforeNext DEF ConstantsOK
<1>7. CASE n = 0
  <2>1. m = 1 /\ n + w - 1 \in Nat /\ Before(1) = 0
    <3>1. 1 - 1 = 0 /\ 0 * w = 0
      BY <1>6
    <3> QED  BY <1>4, <1>6, <1>7, <3>1 DEF Before
  <2>2. Before(1) <= n + w - 1 /\ n + w - 1 < Before(1) + w
    BY <1>6, <1>7, <2>1
  <2>3. q = 0
    <3>1. q = 1 - 1
      BY <2>1, <2>2, Quotient
    <3> QED  BY <3>1
  <2> QED  BY <1>3, <2>1, <2>3, Greater
<1>8. CASE n > 0
  <2> DEFINE x == n + w - 1
             i == m + 1
  <2>1. x \in Nat /\ i \in Nat /\ i >= 1 /\ Before(i) = b + w /\ i - 1 = m
    BY <1>1, <1>5, <1>6, <1>8
  <2>2. Before(i) <= x /\ x < Before(i) + w
    <3> HIDE DEF b, n, w, m
    <3> QED  BY <1>1, <1>4, <1>6, <1>8, <2>1
  <2>3. q = m
    <3> HIDE DEF i
    <3>1. x \div w = i - 1
      BY <2>1, <2>2, Quotient
    <3> QED  BY <2>1, <3>1
  <2> QED  BY <1>3, <1>5, <2>3, Greater
<1> QED  BY <1>1, <1>7, <1>8

\* The caret at this column of a line stands behind the first n characters of a row.
Behind(row, n, line, col) ==
  /\ n \in 0..Len(row)
  /\ \/ n < Len(row) /\ row[n + 1] = col + 1
     \/ n = Len(row) /\ col = Len(line) /\ (n = 0 => col = 0) /\ (n > 0 => row[n] = col)

LEMMA NarrowCaret ==
  ASSUME ConstantsOK, NEW line \in Narrow, NEW col \in 0..Len(line),
         ~ (col = Len(line) /\ col > 0 /\ col % WrapWidth = 0)
  PROVE  /\ col \div WrapWidth \in Nat
         /\ (col \div WrapWidth) + 1 \in 1..Len(soft_wrap_line(line))
         /\ Behind(soft_wrap_line(line)[(col \div WrapWidth) + 1], col % WrapWidth, line, col)
<1> DEFINE n == Len(line)
           rows == soft_wrap_line(line)
           m == Len(rows)
           b == Before(m)
           w == WrapWidth
           d == col \div w
           r == col % w
           i == d + 1
<1>1. line \in Line /\ n \in Nat /\ col \in Nat /\ col <= n
  BY LenProperties DEF Narrow, Line
<1>2. Even(rows, n)
  BY NarrowRows
<1>3. /\ b <= n /\ n <= b + w /\ (n = 0 => m = 1) /\ (n > 0 => b < n)
      /\ \A k \in 1..m : /\ Len(rows[k]) = IF k < m THEN w ELSE n - b
                         /\ \A j \in 1..Len(rows[k]) : rows[k][j] = Before(k) + j
  BY <1>2 DEF Even
<1>4. m \in Nat /\ m >= 1
  BY <1>2, LenProperties DEF Even, Fragments
<1>5. b \in Nat /\ Before(m + 1) = b + w /\ w \in Nat /\ w >= 1
  BY <1>4, BeforeNext DEF ConstantsOK
<1>6. d \in Nat /\ r \in Nat /\ r < w /\ col = d * w + r /\ i \in Nat /\ i >= 1 /\ i - 1 = d
  <2> HIDE DEF w
  <2> QED  BY <1>1, <1>5
<1>7. Before(i) = d * w /\ Before(i) \in Nat
  <2>1. d * w \in Nat
    <3> HIDE DEF d, w
    <3> QED  BY <1>5, <1>6
  <2> QED  BY <1>6, <2>1 DEF Before
<1>8. ~ (col = n /\ col > 0 /\ r = 0)
  OBVIOUS
<1> HIDE DEF n, rows, m, b, w, d, r, i
<1>9. col = Before(i) + r
  BY <1>6, <1>7
<1>10. i <= m
  <2>1. SUFFICES ASSUME m + 1 <= i PROVE FALSE
    BY <1>4, <1>6
  <2>2. Before(m + 1) <= Before(i)
    <3>1. m + 1 \in Nat /\ m + 1 >= 1
      BY <1>4
    <3> QED  BY <1>6, <2>1, <3>1, BeforeGrows
  <2>3. b + w <= col
    BY <1>5, <1>6, <1>7, <1>9, <2>2
  <2>4. col = n /\ n = b + w /\ r = 0
    <3>1. col = n /\ n = b + w
      BY <1>1, <1>3, <1>5, <2>3
    <3>2. r = 0
      BY <1>5, <1>6, <1>7, <1>9, <2>2, <3>1
    <3> QED  BY <3>1, <3>2
  <2>5. col > 0
    BY <1>5, <2>4
  <2> QED  BY <1>8, <2>4, <2>5
<1>11. i \in 1..m
  BY <1>4, <1>6, <1>10
<1>12. /\ Len(rows[i]) = IF i < m THEN w ELSE n - b
       /\ \A j \in 1..Len(rows[i]) : rows[i][j] = Before(i) + j
  BY <1>3, <1>11
<1>13. i < m => b >= Before(i) + w
  <2> SUFFICES ASSUME i < m PROVE b >= Before(i) + w
    OBVIOUS
  <2>1. i + 1 <= m /\ i + 1 \in Nat /\ i + 1 >= 1
    BY <1>4, <1>6
  <2>2. Before(i + 1) <= b /\ Before(i + 1) = Before(i) + w
    BY <1>4, <1>6, <2>1, BeforeGrows, BeforeNext DEF b, w
  <2> QED  BY <2>2
<1>14. CASE col < n
  <2>1. r < Len(rows[i]) /\ r + 1 \in 1..Len(rows[i]) /\ Len(rows[i]) \in Nat
    <3>1. CASE i < m
      BY <1>5, <1>6, <1>12, <3>1
    <3>2. CASE i = m
      <4>1. Before(i) = b
        BY <3>2 DEF b
      <4>2. Len(rows[i]) = n - b /\ n - b \in Nat
        <5>1. b <= n /\ n - b \in Nat
          BY <1>1, <1>3, <1>5
        <5>2. ~ (i < m)
          BY <1>4, <3>2
        <5> QED  BY <1>12, <5>1, <5>2
      <4>3. r < n - b
        BY <1>1, <1>5, <1>6, <1>9, <1>14, <4>1
      <4> DEFINE x == n - b
      <4>4. Len(rows[i]) = x /\ x \in Nat /\ r < x
        BY <4>2, <4>3
      <4> HIDE DEF x
      <4> QED  BY <1>6, <4>4
    <3> QED  BY <1>4, <1>6, <1>10, <3>1, <3>2
  <2>2. rows[i][r + 1] = Before(i) + (r + 1)
    BY <1>12, <2>1
  <2>3. rows[i][r + 1] = col + 1
    BY <1>6, <1>7, <1>9, <2>2
  <2>4. r \in 0..Len(rows[i])
    BY <1>6, <2>1
  <2>5. Behind(rows[i], r, line, col)
    BY <2>1, <2>3, <2>4 DEF Behind
  <2> QED  BY <1>6, <1>11, <2>5 DEF rows, i, r, d, w, m
<1>15. CASE col = n
  <2>1. i = m
    <3>1. SUFFICES ASSUME i < m PROVE FALSE
      BY <1>4, <1>6, <1>10
    <3>2. n > b \/ n = 0
      BY <1>1, <1>3
    <3>3. n = 0 => m = 1
      BY <1>3
    <3> QED  BY <1>1, <1>4, <1>5, <1>6, <1>7, <1>9, <1>13, <1>15, <3>1, <3>2, <3>3
  <2>2. Before(i) = b /\ Len(rows[i]) = n - b
    BY <1>4, <1>12, <2>1 DEF b
  <2>3. n - b = r
    BY <1>1, <1>5, <1>6, <1>9, <1>15, <2>2
  <2>4. r = 0 => col = 0
    BY <1>1, <1>8, <1>15
  <2>5. r > 0 => rows[i][r] = col
    <3> SUFFICES ASSUME r > 0 PROVE rows[i][r] = col
      OBVIOUS
    <3>1. r \in 1..Len(rows[i])
      BY <1>6, <2>2, <2>3
    <3> QED  BY <1>9, <1>12, <3>1
  <2>6. r = Len(rows[i]) /\ r \in 0..Len(rows[i])
    BY <1>6, <2>2, <2>3
  <2>7. Behind(rows[i], r, line, col)
    BY <1>15, <2>4, <2>5, <2>6 DEF Behind, n
  <2> QED  BY <1>6, <1>11, <2>7 DEF rows, i, r, d, w, m
<1> QED  BY <1>1, <1>14, <1>15

LEMMA NotWrapped ==
  ASSUME ConstantsOK, NEW p \in BarType, ~ Wraps(p)
  PROVE  /\ p.badge = 0 /\ \A l \in 1..Len(p.lines) : p.lines[l] \in Narrow
         /\ visible_cursor_position(p)[1] < MaxVisible
         /\ p.row \in Nat /\ p.scroll_top \in Nat /\ p.scroll_top <= p.row /\ Len(p.lines) \in Nat
         /\ p.row + 1 \in 1..Len(p.lines) /\ p.col \in 0..Len(p.lines[p.row + 1])
         /\ ~ (p.col = Len(p.lines[p.row + 1]) /\ p.col > 0 /\ p.col % WrapWidth = 0)
<1>1. /\ p.lines \in Seq(Line) /\ Len(p.lines) \in Nat /\ DOMAIN p.lines = 1..Len(p.lines)
      /\ p.row \in Nat /\ p.col \in Nat /\ p.badge \in Nat
      /\ p.scroll_top \in Nat /\ p.scroll_top <= p.row /\ p.row < Len(p.lines)
      /\ p.col <= Len(p.lines[p.row + 1])
  BY LenProperties DEF BarType
<1>2. ~ (p.badge > 0) /\ ~ (visible_cursor_position(p)[1] >= MaxVisible)
  BY DEF Wraps
<1>3. p.badge = 0
  BY <1>1, <1>2
<1>4. \A l \in 1..Len(p.lines) : p.lines[l] \in Narrow
  <2> SUFFICES ASSUME NEW l \in 1..Len(p.lines) PROVE p.lines[l] \in Narrow
    OBVIOUS
  <2>1. p.lines[l] \in Line
    BY <1>1, ElementOfSeq
  <2>2. "w" \notin Range(p.lines[l])
    BY <1>1 DEF Wraps
  <2> QED  BY <2>1, <2>2 DEF Narrow
<1>5. p.row + 1 \in 1..Len(p.lines)
  BY <1>1
<1>6. p.col \in 0..Len(p.lines[p.row + 1])
  <2>1. p.lines[p.row + 1] \in Line
    BY <1>1, <1>5, ElementOfSeq
  <2>2. Len(p.lines[p.row + 1]) \in Nat
    BY <2>1, LenProperties DEF Line
  <2> QED  BY <1>1, <2>2
<1>7. ~ (p.col = Len(p.lines[p.row + 1]) /\ p.col > 0 /\ p.col % WrapWidth = 0)
  BY DEF Wraps
<1>8. visible_cursor_position(p)[1] < MaxVisible
  <2> DEFINE v == visible_cursor_position(p)[1]
  <2>1. v \in Nat /\ MaxVisible \in Nat /\ ~ (v >= MaxVisible)
    BY <1>2, CaretTyped DEF ConstantsOK
  <2> HIDE DEF v
  <2>2. v < MaxVisible
    BY <2>1
  <2> QED  BY <2>2 DEF v
<1> QED  BY <1>1, <1>3, <1>4, <1>5, <1>6, <1>7, <1>8

\* Where the caret's row is counted.
LEMMA CaretCounted ==
  ASSUME ConstantsOK, NEW p \in BarType, ~ Wraps(p)
  PROVE  /\ visible_cursor_position(p)[1] =
              RowsOf(SubSeq(p.lines, p.scroll_top + 1, p.row)) + p.col \div WrapWidth
         /\ visible_cursor_position(p)[2] = p.col % WrapWidth
<1> DEFINE line == p.lines[p.row + 1]
           before == Columns(line, [k \in 1..p.col |-> k])
           d == p.col \div WrapWidth
           h == wrap_rows(line)
<1>1. /\ line \in Narrow /\ p.col \in 0..Len(line)
      /\ ~ (p.col = Len(line) /\ p.col > 0 /\ p.col % WrapWidth = 0)
  BY NotWrapped
<1>2. Len(line) \in Nat
  BY <1>1, LenProperties DEF Narrow, Line
<1>3. before = p.col
  <2>1. p.col \in Nat /\ \A k \in 1..p.col : k \in 1..Len(line)
    BY <1>1, <1>2
  <2>2. /\ Len([k \in 1..p.col |-> k]) = p.col /\ DOMAIN [k \in 1..p.col |-> k] = 1..p.col
        /\ \A k \in 1..p.col : [j \in 1..p.col |-> j][k] \in 1..Len(line)
    BY <2>1, Positions
  <2> HIDE DEF line
  <2> QED  BY <1>1, <2>1, <2>2, NarrowColumns
<1>4. d \in Nat /\ d + 1 \in 1..Len(soft_wrap_line(line))
  BY <1>1, NarrowCaret
<1>5. h = Len(soft_wrap_line(line))
  BY <1>1, NarrowHeight
<1>6. h \in Nat /\ h >= 1
  BY <1>1, RowsOfLine DEF Narrow
<1>7. visible_cursor_position(p) =
        <<RowsOf(SubSeq(p.lines, p.scroll_top + 1, p.row)) + Min({d, h - 1}), p.col % WrapWidth>>
  BY <1>3 DEF visible_cursor_position
<1> HIDE DEF d, h
<1>8. d <= h - 1 /\ h - 1 \in Nat
  BY <1>4, <1>5, <1>6
<1>9. Min({d, h - 1}) = d
  BY <1>4, <1>8, Lesser
<1> DEFINE a == RowsOf(SubSeq(p.lines, p.scroll_top + 1, p.row)) + d
           c == p.col % WrapWidth
<1>10. visible_cursor_position(p) = <<a, c>>
  BY <1>7, <1>9
<1> HIDE DEF a, c
<1>11. visible_cursor_position(p)[1] = a /\ visible_cursor_position(p)[2] = c
  BY <1>10
<1> QED  BY <1>11 DEF a, c, d

\* The rows shown are laid out as they are counted.
LEMMA LaidAsCounted ==
  ASSUME ConstantsOK, NEW p \in BarType, ~ Wraps(p), NEW off,
         Laid(off, FlattenSeq(ShownRows(p)), ShownRows(p)), NEW g, Tops(g, Shown(p)),
         NEW k \in 0..Len(Shown(p))
  PROVE  off[k] = g[k]
<1> DEFINE n == Len(Shown(p))
           P == {j \in 0..n : off[j] = g[j]}
<1>1. n \in Nat /\ Len(ShownRows(p)) = n
  BY RowsInView, ShownRowsTyped, LenProperties
<1>2. 0 \in P
  BY <1>1 DEF Laid, Tops
<1>3. ASSUME NEW j \in 1..n, j - 1 \in P PROVE j \in P
  <2>1. /\ p.scroll_top + j \in 1..Len(p.lines) /\ ShownRows(p)[j] = LineRows(p, p.scroll_top + j)
        /\ Shown(p)[j] = p.lines[p.scroll_top + j]
    BY ShownRowsTyped, RowsInView
  <2>2. Len(ShownRows(p)[j]) = Len(soft_wrap_line(Shown(p)[j]))
    BY <2>1, LineRowsTyped
  <2>3. Shown(p)[j] \in Narrow
    BY <2>1, NotWrapped
  <2>4. wrap_rows(Shown(p)[j]) = Len(ShownRows(p)[j])
    BY <2>2, <2>3, NarrowHeight
  <2>5. off[j] = off[j - 1] + Len(ShownRows(p)[j])
    BY <1>1 DEF Laid
  <2>6. g[j] = g[j - 1] + wrap_rows(Shown(p)[j])
    BY DEF Tops
  <2> QED  BY <1>1, <1>3, <2>4, <2>5, <2>6
<1> HIDE DEF P
<1>4. \A j \in 1..n : j - 1 \in P => j \in P
  BY <1>3
<1>5. k \in 0..n
  OBVIOUS
<1>6. k \in P
  <2> HIDE DEF n
  <2> QED  BY <1>1, <1>2, <1>4, <1>5, Climb
<1> QED  BY <1>6 DEF P

\* The row of the caret is in view, and shows the part of the line that it stands in.
LEMMA CaretInView ==
  ASSUME ConstantsOK, NEW p \in BarType, ~ Wraps(p)
  PROVE  /\ visible_cursor_position(p)[1] + 1 \in 1..max_in_view(p)
         /\ InputRows(p)[visible_cursor_position(p)[1] + 1] =
              <<"input", p.row + 1,
                soft_wrap_line(p.lines[p.row + 1])[(p.col \div WrapWidth) + 1], 0>>
<1> DEFINE v == visible_cursor_position(p)[1]
           d == p.col \div WrapWidth
           line == p.lines[p.row + 1]
           k == (p.row + 1) - p.scroll_top
           n == Len(Shown(p))
           flat == FlattenSeq(ShownRows(p))
<1>1. /\ p.badge = 0 /\ line \in Narrow /\ v < MaxVisible /\ p.row \in Nat /\ p.scroll_top \in Nat
      /\ p.scroll_top <= p.row /\ Len(p.lines) \in Nat /\ p.row + 1 \in 1..Len(p.lines)
      /\ p.col \in 0..Len(line) /\ ~ (p.col = Len(line) /\ p.col > 0 /\ p.col % WrapWidth = 0)
  BY NotWrapped
<1>2. /\ Shown(p) \in Seq(Line) /\ n = Len(p.lines) - p.scroll_top
      /\ \A j \in 1..n : Shown(p)[j] = p.lines[p.scroll_top + j]
      /\ RowsOf(Shown(p)) \in Nat /\ max_in_view(p) \in 1..MaxVisible
  BY RowsInView
<1>3. k \in 1..n /\ k - 1 \in 0..n /\ k \in 0..n /\ p.scroll_top + k = p.row + 1 /\ n \in Nat
  <2> DEFINE x == p.row
             y == p.scroll_top
             z == Len(p.lines)
  <2>1. x \in Nat /\ y \in Nat /\ y <= x /\ z \in Nat /\ x + 1 \in 1..z /\ n = z - y
        /\ k = (x + 1) - y
    BY <1>1, <1>2
  <2> HIDE DEF x, y, z, n, k
  <2>2. k \in 1..n /\ k - 1 \in 0..n /\ k \in 0..n /\ y + k = x + 1 /\ n \in Nat
    BY <2>1
  <2> QED  BY <2>2 DEF x, y
<1>4. PICK g : Tops(g, Shown(p))
  BY <1>2, TopsExist
<1>5. ShownRows(p) \in Seq(Seq(BlockType)) /\ Len(ShownRows(p)) = n
  BY ShownRowsTyped
<1>6. flat \in Seq(BlockType) /\ \E off : Laid(off, flat, ShownRows(p))
  BY <1>5, Flattened
<1>7. PICK off : Laid(off, flat, ShownRows(p))
  BY <1>6
<1>8. off[k - 1] = g[k - 1] /\ off[k] = g[k] /\ off[n] = g[n]
  <2>1. n \in 0..n
    BY <1>3
  <2> HIDE DEF k, flat
  <2> QED  BY <1>3, <1>4, <1>7, <2>1, LaidAsCounted DEF flat
<1>9. d \in Nat /\ d + 1 \in 1..Len(soft_wrap_line(line))
  BY <1>1, NarrowCaret
<1>10. ShownRows(p)[k] = LineRows(p, p.row + 1)
  BY <1>3, ShownRowsTyped
<1>11. Len(LineRows(p, p.row + 1)) = Len(soft_wrap_line(line))
  BY <1>1, LineRowsTyped
<1>12. LineRows(p, p.row + 1)[d + 1] = <<"input", p.row + 1, soft_wrap_line(line)[d + 1], 0>>
  <2>1. DOMAIN soft_wrap_line(line) = 1..Len(soft_wrap_line(line))
    BY <1>1, SoftWrapTyped, LenProperties DEF Fragments, Narrow
  <2>2. LineRows(p, p.row + 1)[d + 1] =
          <<"input", p.row + 1, soft_wrap_line(line)[d + 1],
            IF p.row + 1 = 1 /\ d + 1 = 1 THEN p.badge ELSE 0>>
    BY <1>9, <2>1 DEF LineRows
  <2> QED  BY <1>1, <2>2
<1>13. v = g[k - 1] + d
  <2> DEFINE before == SubSeq(p.lines, p.scroll_top + 1, p.row)
             part == SubSeq(Shown(p), 1, k - 1)
  <2>1. v = RowsOf(before) + d
    BY CaretCounted
  <2>2. RowsOf(part) = g[k - 1]
    BY <1>2, <1>3, <1>4, RowsOfPrefix
  <2>3. before = part
    <3>1. part \in Seq(Line) /\ Len(part) = k - 1 /\ \A j \in 1..(k - 1) : part[j] = Shown(p)[j]
      BY <1>2, <1>3, Start
    <3>2. /\ before \in Seq(Line) /\ Len(before) = k - 1
          /\ \A j \in 1..(k - 1) : before[j] = p.lines[p.scroll_top + j]
      <4> DEFINE lines == p.lines
                 a == p.scroll_top + 1
                 z == p.row
      <4>1. lines \in Seq(Line) /\ a \in Int /\ z \in Int
        BY <1>1 DEF BarType
      <4>2. \A i \in a..z : lines[i] \in Line
        <5> SUFFICES ASSUME NEW i \in a..z PROVE lines[i] \in Line
          OBVIOUS
        <5>1. i \in 1..Len(lines)
          BY <1>1
        <5> QED  BY <4>1, <5>1, ElementOfSeq
      <4>3. k - 1 = z - a + 1 /\ (a <= z \/ z - a + 1 = 0)
            /\ \A j \in 1..(k - 1) : a + j - 1 = p.scroll_top + j /\ j \in 1..(z - a + 1)
        <5> DEFINE y == p.scroll_top
        <5>1. z \in Nat /\ y \in Nat /\ y <= z /\ a = y + 1 /\ k = (z + 1) - y
          BY <1>1
        <5> HIDE DEF y, z, a, k
        <5>2. k - 1 = z - a + 1 /\ (a <= z \/ z - a + 1 = 0)
              /\ \A j \in 1..(k - 1) : a + j - 1 = y + j /\ j \in 1..(z - a + 1)
          BY <5>1
        <5> QED  BY <5>2 DEF y
      <4> HIDE DEF lines, a, z
      <4>4. /\ SubSeq(lines, a, z) \in Seq(Line)
            /\ Len(SubSeq(lines, a, z)) = IF a <= z THEN z - a + 1 ELSE 0
            /\ \A i \in 1..(z - a + 1) : SubSeq(lines, a, z)[i] = lines[a + i - 1]
        BY <4>1, <4>2, SubSeqProperties
      <4>5. \A j \in 1..(k - 1) : SubSeq(lines, a, z)[j] = lines[p.scroll_top + j]
        BY <4>3, <4>4
      <4>6. Len(SubSeq(lines, a, z)) = k - 1
        <5>1. a <= z \/ z - a + 1 = 0
          BY <4>3
        <5> HIDE DEF k
        <5> QED  BY <4>1, <4>3, <4>4, <5>1
      <4> QED  BY <4>4, <4>5, <4>6 DEF lines, a, z
    <3>3. \A j \in 1..(k - 1) : j \in 1..n
      BY <1>3
    <3> HIDE DEF part, before, k, n
    <3>4. \A j \in 1..Len(part) : before[j] = part[j]
      BY <1>2, <3>1, <3>2, <3>3
    <3> QED  BY <3>1, <3>2, <3>4, SeqEqual
  <2> QED  BY <2>1, <2>2, <2>3
<1>14. flat[off[k - 1] + (d + 1)] = ShownRows(p)[k][d + 1] /\ off[k] <= off[n]
       /\ off[k] = off[k - 1] + Len(ShownRows(p)[k]) /\ off[n] = Len(flat)
  <2>1. d + 1 \in 1..Len(ShownRows(p)[k]) /\ k \in 0..Len(ShownRows(p))
        /\ n \in 0..Len(ShownRows(p)) /\ k <= n /\ k \in 1..Len(ShownRows(p))
    BY <1>3, <1>5, <1>9, <1>10, <1>11
  <2> HIDE DEF k, flat, d, n
  <2>2. \A i, j \in 0..Len(ShownRows(p)) : i <= j => off[i] <= off[j]
    BY <1>7 DEF Laid
  <2>3. /\ off[k] = off[k - 1] + Len(ShownRows(p)[k])
        /\ \A j \in 1..Len(ShownRows(p)[k]) : flat[off[k - 1] + j] = ShownRows(p)[k][j]
    BY <1>7, <2>1 DEF Laid
  <2>4. off[n] = Len(flat)
    BY <1>5, <1>7 DEF Laid
  <2> QED  BY <2>1, <2>2, <2>3, <2>4
<1>15. g[k - 1] \in Nat /\ g[k] \in Nat /\ g[n] \in Nat /\ g[n] = RowsOf(Shown(p))
  <2>1. n \in 0..n
    BY <1>3
  <2>2. \A j \in 0..n : g[j] \in Nat
    BY <1>4 DEF Tops
  <2> QED  BY <1>3, <1>4, <2>1, <2>2 DEF Tops
<1> DEFINE m == max_in_view(p)
           s == RowsOf(Shown(p))
           h == Len(soft_wrap_line(line))
<1>16. h \in Nat
  BY <1>1, SoftWrapTyped, LenProperties DEF Fragments, Narrow
<1>17. m = IF MaxVisible <= s THEN MaxVisible ELSE s
  BY <1>2, Lesser DEF max_in_view, ConstantsOK
<1>18. MaxVisible \in Nat /\ s \in Nat
  BY <1>2 DEF ConstantsOK
<1> HIDE DEF v, d, line, k, n, flat, m, s, h
<1>19. v + 1 <= s /\ v \in Nat /\ v + 1 <= Len(flat)
  <2>1. g[k] = g[k - 1] + h /\ g[k] <= g[n] /\ g[n] = s /\ g[n] = Len(flat)
    BY <1>8, <1>10, <1>11, <1>14, <1>15 DEF s, h
  <2>2. d + 1 <= h
    BY <1>9, <1>16 DEF h
  <2>3. v + 1 <= g[k] /\ v \in Nat
    BY <1>9, <1>13, <1>15, <1>16, <2>1, <2>2
  <2> QED  BY <1>15, <1>18, <2>1, <2>3
<1>20. v + 1 \in 1..m /\ v < MaxVisible
  BY <1>1, <1>17, <1>18, <1>19
<1>21. off[k - 1] + (d + 1) = v + 1
  BY <1>8, <1>9, <1>13, <1>15
<1>22. flat[v + 1] = <<"input", p.row + 1, soft_wrap_line(line)[d + 1], 0>>
  BY <1>10, <1>12, <1>14, <1>21
<1>23. InputRows(p)[v + 1] = flat[v + 1]
  <2>1. \A i \in 1..m : i <= Len(flat) => InputRows(p)[i] = flat[i]
    BY InputRowsTyped DEF m, flat
  <2> QED  BY <1>19, <1>20, <2>1
<1> QED  BY <1>20, <1>22, <1>23 DEF v, d, line, m

\* The cursor of a drawn screen is at the caret.
LEMMA CursorDrawn ==
  ASSUME ConstantsOK, NEW s \in ScreenType, Drawn(s), ~ Wraps(s.prompt), ~ ProgressWraps(s)
  PROVE  CursorIsAtCaret(s)
<1> DEFINE p == s.prompt
           e == s.ephemeral_count
           v == visible_cursor_position(p)[1]
           n == p.col % WrapWidth
           line == p.lines[p.row + 1]
           part == soft_wrap_line(line)[(p.col \div WrapWidth) + 1]
           x == <<"input", p.row + 1, part, 0>>
           m == max_in_view(p)
           c == s.cursor[1]
           r == (c - prompt_top_row) + 1
           block == Block(s.ephemeral, p)
<1>1. p \in BarType /\ s.ephemeral \in Shapes /\ e \in 0..2
  BY DEF ScreenType
<1>a. ProgressHeight(s.ephemeral) = e
  <2>1. e = Len(s.ephemeral)
    BY DEF Drawn
  <2>2. s.ephemeral \in Seq(Nat \ {0}) /\ DOMAIN s.ephemeral = 1..Len(s.ephemeral)
    BY <1>1, LenProperties DEF Shapes
  <2>3. \A k \in 1..Len(s.ephemeral) : s.ephemeral[k] \in Nat
    BY <2>2, ElementOfSeq
  <2>4. \A k \in DOMAIN s.ephemeral : s.ephemeral[k] <= 1
    BY <2>2, <2>3 DEF ProgressWraps
  <2> QED  BY <1>1, <2>1, <2>4, EphemeralTyped DEF ProgressHeight
<1>b. DrawnRows(p) = InputRows(p)
  <2>1. ~ (p.badge > 0)
    BY DEF Wraps
  <2>2. p.badge = 0
    BY <1>1, <2>1 DEF BarType
  <2> QED  BY <1>1, <2>2, DrawnRowsTyped
<1>2. /\ s.cursor[1] = caret_abs_row(s) /\ s.cursor[2] = n
      /\ BlockIsCurrent(s)
  <2>1. s.cursor = s.caret /\ s.caret[1] = caret_abs_row(s)
        /\ s.caret[2] = visible_cursor_position(p)[2] /\ BlockIsCurrent(s)
    BY DEF Drawn
  <2>2. visible_cursor_position(p)[2] = n
    BY <1>1, CaretCounted
  <2> QED  BY <2>1, <2>2
<1>3. v + 1 \in 1..m /\ InputRows(p)[v + 1] = x
  BY <1>1, CaretInView
<1>4. v \in Nat /\ m \in 1..MaxVisible /\ MaxVisible \in Nat /\ MaxDrop \in Nat
      /\ Above(p) \in 1..2 /\ p.drop \in Nat
      /\ Height_of(p) = Above(p) + m + 1 + p.drop + 1 /\ InputHeight(p) = m
  <2>1. InputHeight(p) = m
    BY <1>1, <1>b, InputRowsTyped DEF InputHeight
  <2> QED  BY <1>1, <2>1, CaretTyped, HeightOf DEF Height_of
<1>5. Min({v, m - 1}) = v
  <2> HIDE DEF v, m
  <2>1. m - 1 \in Nat /\ v <= m - 1
    BY <1>3, <1>4
  <2> QED  BY <1>4, <2>1, Lesser
<1>6. c = prompt_top_row + e + Above(p) + v
  <2> DEFINE i == Len(Indicator(p))
  <2>1. caret_abs_row(s) = prompt_top_row + e + 1 + i + Min({v, m - 1})
    BY DEF caret_abs_row
  <2>2. Above(p) = 1 + i /\ i \in Nat
    BY <1>1, HeightOf DEF Above
  <2>3. prompt_top_row \in Nat
    BY TopRow
  <2> HIDE DEF i, v, e, m
  <2> QED  BY <1>1, <1>2, <1>4, <1>5, <2>1, <2>2, <2>3
<1>7. /\ block \in Seq(BlockType) /\ Len(block) = e + Height_of(p)
      /\ block[e + Above(p) + (v + 1)] = InputRows(p)[v + 1]
  <2>1. \A i \in 1..m : block[e + Above(p) + i] = InputRows(p)[i]
    BY <1>1, <1>4, <1>a, <1>b, BlockShown
  <2>2. block \in Seq(BlockType) /\ Len(block) = e + Height_of(p)
    BY <1>1, <1>a, BlockShown
  <2> HIDE DEF block, v, m
  <2> QED  BY <1>3, <2>1, <2>2
<1>8. prompt_top_row \in Nat /\ MAX_PROMPT_RESERVED_ROWS = MaxVisible + MaxDrop + 5
  BY TopRow
<1>9. s.rows[c] = x
  <2> DEFINE a == Above(p)
             d == p.drop
             h == Height_of(p)
  <2>0. a \in 1..2 /\ d \in Nat /\ h = a + m + 1 + d + 1
    BY <1>4
  <2>a. Len(block) = e + h /\ c = prompt_top_row + e + a + v
        /\ block[e + a + (v + 1)] = x
    BY <1>3, <1>6, <1>7
  <2> HIDE DEF a, d, h, v, m, e, block, x
  <2>1. /\ r = e + a + (v + 1) /\ r \in 1..MAX_PROMPT_RESERVED_ROWS
        /\ r < MAX_PROMPT_RESERVED_ROWS /\ r <= Len(block)
        /\ prompt_top_row + r - 1 = c
    <3> HIDE DEF c
    <3> QED  BY <1>1, <1>3, <1>4, <1>8, <2>0, <2>a
  <2> HIDE DEF r
  <2>2. s.rows[prompt_top_row + r - 1] =
          IF r = MAX_PROMPT_RESERVED_ROWS /\ Len(block) > r THEN <<"footer">>
          ELSE IF r <= Len(block) THEN block[r] ELSE Blank
    BY <1>2, <2>1 DEF BlockIsCurrent, Block, block
  <2>3. r # MAX_PROMPT_RESERVED_ROWS
    BY <1>4, <1>8, <2>1
  <2> QED  BY <2>1, <2>2, <2>3, <2>a
<1>10. /\ line \in Narrow /\ p.col \in 0..Len(line)
       /\ ~ (p.col = Len(line) /\ p.col > 0 /\ p.col % WrapWidth = 0)
  BY <1>1, NotWrapped
<1>11. Behind(part, n, line, p.col) /\ n \in 0..Len(part)
  BY <1>10, NarrowCaret DEF Behind
<1>12. Columns(line, SubSeq(part, 1, n)) = n /\ n \in Nat
  <2> DEFINE k == (p.col \div WrapWidth) + 1
             rows == soft_wrap_line(line)
  <2>1. k \in 1..Len(rows) /\ Even(rows, Len(line))
    BY <1>10, NarrowCaret, NarrowRows
  <2>2. rows \in Seq(Seq(Nat)) /\ Len(rows) \in Nat
    BY <2>1, LenProperties DEF Even, Fragments
  <2>3. part \in Seq(Nat)
    BY <2>1, <2>2, ElementOfSeq
  <2>4. \A j \in 1..Len(part) : part[j] \in 1..Len(line)
    <3> DEFINE w == Len(rows)
               z == Len(line)
    <3>0. z \in Nat
      BY <1>10, LenProperties DEF Narrow, Line
    <3>1. /\ Len(part) = IF k < w THEN WrapWidth ELSE z - Before(w)
          /\ \A j \in 1..Len(part) : part[j] = Before(k) + j
          /\ Before(w) <= z
      BY <2>1 DEF Even
    <3>2. k \in Nat /\ k >= 1 /\ w \in Nat /\ w >= 1 /\ k <= w
      BY <2>1, <2>2
    <3> HIDE DEF w, k, z, part, line
    <3>3. /\ Before(k) \in Nat /\ Before(k + 1) = Before(k) + WrapWidth /\ WrapWidth \in Nat
          /\ Before(w) \in Nat
      BY <3>2, BeforeNext
    <3>4. CASE k < w
      <4>1. k + 1 \in Nat /\ k + 1 >= 1 /\ k + 1 <= w
        BY <3>2, <3>4
      <4>2. Before(k + 1) <= Before(w)
        BY <3>2, <4>1, BeforeGrows
      <4>3. ASSUME NEW j \in 1..WrapWidth PROVE Before(k) + j \in 1..z
        BY <3>0, <3>1, <3>3, <4>2
      <4> QED  BY <3>1, <3>4, <4>3 DEF z
    <3>5. CASE k = w
      <4>1. ~ (k < w)
        BY <3>2, <3>5
      <4>2. ASSUME NEW j \in 1..(z - Before(w)) PROVE Before(k) + j \in 1..z
        BY <3>0, <3>3, <3>5
      <4> QED  BY <3>1, <4>1, <4>2 DEF z
    <3> QED  BY <3>2, <3>4, <3>5
  <2> DEFINE t == SubSeq(part, 1, n)
  <2>5. t \in Seq(Nat) /\ Len(t) = n /\ \A j \in 1..n : t[j] = part[j]
    <3> HIDE DEF part, n
    <3> QED  BY <1>11, <2>3, Start
  <2>6. n \in Nat /\ \A j \in 1..n : j \in 1..Len(part)
    <3>1. Len(part) \in Nat
      BY <2>3, LenProperties
    <3> HIDE DEF part, n
    <3> QED  BY <1>11, <3>1
  <2> HIDE DEF part, n, t, line
  <2>7. DOMAIN t = 1..n /\ \A j \in 1..n : t[j] \in 1..Len(line)
    BY <2>4, <2>5, <2>6, LenProperties
  <2>8. Columns(line, t) = n
    BY <1>10, <2>5, <2>6, <2>7, NarrowColumns
  <2> QED  BY <2>6, <2>8 DEF t
<1> DEFINE row == s.rows[s.cursor[1]]
<1>13. row = x
  BY <1>9
<1>14. x[1] = "input" /\ x[2] = p.row + 1 /\ x[3] = part /\ x[4] = 0
  OBVIOUS
<1> HIDE DEF x, row, part, line, n
<1>15. row[1] = "input" /\ row[2] = p.row + 1 /\ row[3] = part /\ row[4] = 0
  BY <1>13, <1>14
<1>16. s.cursor[2] = row[4] + Columns(line, SubSeq(row[3], 1, n))
  BY <1>2, <1>12, <1>15
<1>17. /\ n \in 0..Len(row[3])
       /\ \/ n < Len(row[3]) /\ row[3][n + 1] = p.col + 1
          \/ n = Len(row[3]) /\ p.col = Len(line) /\ (n = 0 => p.col = 0)
             /\ (n > 0 => row[3][n] = p.col)
  BY <1>11, <1>15 DEF Behind
<1> QED  BY <1>15, <1>16, <1>17 DEF CursorIsAtCaret, row, line

\* The block below the transcript is the one of the current prompt and progress, with
\* the cursor at the character before which the caret stands, unless the layout loses
\* it or a progress line wraps; after the end nothing is left of it (renderer.rs:18).
THEOREM PromptIsShown == ConstantsOK => (Spec => []ScreenShowsPrompt)
<1> SUFFICES ASSUME ConstantsOK PROVE Spec => []ScreenShowsPrompt
  OBVIOUS
<1>1. Inv => ScreenShowsPrompt
  <2> SUFFICES ASSUME Types PROVE ScreenShowsPrompt
    BY DEF Inv
  <2>1. CASE quit
    BY <2>1 DEF Types, Cleared, ScreenShowsPrompt
  <2>2. CASE ~ quit
    <3>1. screen \in ScreenType /\ Drawn(screen)
      BY <2>2 DEF Types
    <3>2. CursorIsAtCaret(screen) \/ Wraps(screen.prompt) \/ ProgressWraps(screen)
      BY <3>1, CursorDrawn
    <3>3. BlockIsCurrent(screen)
      BY <3>1 DEF Drawn
    <3> QED  BY <2>2, <3>2, <3>3 DEF ScreenShowsPrompt
  <2> QED  BY <2>1, <2>2
<1>2. Spec => []Inv
  BY Inductive
<1> QED  BY <1>1, <1>2, PTL


-----------------------------------------------------------------------------
(* The order of what a pipeline says *)

\* The line that a mutation commits, and what the places of two lines tell about their
\* numbers if both are of the pipeline r.
LineOf(m) == IF m[1] = "CommitLine" THEN m[2] ELSE Blank
Precedes(r, x, y) == IsOf(r, x) /\ IsOf(r, y) => x[3] < y[3]
Numbered(u, r, x) == IsOf(r, x) => x[3] \in 1..u[r]

\* A line stands for the n-th one of the pipeline r: it is that line, or announces that
\* lines of r are missing.
Covers(x, r, n) == (IsOf(r, x) /\ x[3] = n) \/ x = <<"truncated", r>>

\* The transcript a, and the lines of an entry e behind it, are in order; u tells how
\* many lines each pipeline has said.
TidyTop(a, u) ==
  \A r \in Runs :
    /\ \A i \in 1..Len(a) : Numbered(u, r, a[i])
    /\ \A i, j \in 1..Len(a) : i < j => Precedes(r, a[i], a[j])
Tidy(a, u, e) ==
  \A r \in Runs :
    /\ \A j \in 1..Len(e.buffered) : Numbered(u, r, LineOf(e.buffered[j]))
    /\ \A i, j \in 1..Len(e.buffered) :
         i < j => Precedes(r, LineOf(e.buffered[i]), LineOf(e.buffered[j]))
    /\ \A i \in 1..Len(a), j \in 1..Len(e.buffered) : Precedes(r, a[i], LineOf(e.buffered[j]))

Waits(e, r, n) == \E j \in 1..Len(e.buffered) : Covers(LineOf(e.buffered[j]), r, n)
Told(a, gone, entries, r, n) ==
  \/ \E i \in 1..Len(a) : Covers(a[i], r, n)
  \/ <<r, n>> \in gone
  \/ \E k \in 1..Len(entries) : Waits(entries[k], r, n)

InOrder ==
  /\ TidyTop(Transcript(screen), said)
  /\ \A k \in 1..Len(background_entries) : Tidy(Transcript(screen), said, background_entries[k])
  /\ \A r \in Runs : \A n \in 1..said[r] :
       Told(Transcript(screen), lost, background_entries, r, n)
  /\ ~ quit /\ screen.stream_line_open
     => Transcript(screen)[Len(Transcript(screen))][1] = "hint"

LEMMA KindsOfLines ==
  ASSUME NEW r
  PROVE  /\ ~ IsOf(r, Blank) /\ ~ IsOf(r, <<"note">>) /\ \A q : ~ IsOf(r, <<"truncated", q>>)
         /\ \A q, n : /\ IsOf(r, <<"line", q, n>>) <=> q = r
                      /\ IsOf(r, <<"hint", q, n>>) <=> q = r
                      /\ <<"line", q, n>>[3] = n /\ <<"hint", q, n>>[3] = n
         /\ \A n : ~ Covers(Blank, r, n) /\ ~ Covers(<<"note">>, r, n)
<1>1. ~ IsOf(r, Blank) /\ ~ IsOf(r, <<"note">>)
  BY DEF IsOf, Blank
<1>2. \A q : ~ IsOf(r, <<"truncated", q>>)
  BY DEF IsOf
<1>3. \A q, n : /\ IsOf(r, <<"line", q, n>>) <=> q = r
                /\ IsOf(r, <<"hint", q, n>>) <=> q = r
  BY DEF IsOf
<1>4. \A q, n : <<"line", q, n>>[3] = n /\ <<"hint", q, n>>[3] = n
  OBVIOUS
<1>5. Blank # <<"truncated", r>> /\ <<"note">> # <<"truncated", r>>
  BY DEF Blank
<1> QED  BY <1>1, <1>2, <1>3, <1>4, <1>5 DEF Covers

LEMMA LinesCommitted ==
  /\ LineOf(Flush) = Blank
  /\ \A line : LineOf(<<"CommitLine", line>>) = line
  /\ \A m \in Commit : LineOf(m) = m[2]
  /\ \A r : LineOf(Notice(r)) = <<"truncated", r>>
<1>1. LineOf(Flush) = Blank
  BY DEF LineOf, Flush
<1>2. \A line : LineOf(<<"CommitLine", line>>) = line
  BY DEF LineOf
<1>3. \A m \in Commit : LineOf(m) = m[2]
  BY DEF LineOf, Commit
<1>4. \A r : LineOf(Notice(r)) = <<"truncated", r>>
  BY <1>2 DEF Notice
<1> QED  BY <1>1, <1>2, <1>3, <1>4

\* What an entry holds is of its own pipeline.
LEMMA LinesOfEntry ==
  ASSUME ConstantsOK, NEW e \in EntryType, NEW j \in 1..Len(e.buffered), NEW r
  PROVE  /\ IsOf(r, LineOf(e.buffered[j])) => r = e.run
         /\ \A n : Covers(LineOf(e.buffered[j]), r, n) => r = e.run /\ e.buffered[j] \in Commit
<1> DEFINE m == e.buffered[j]
           q == e.run
<1>1. m \in Held(q) /\ q \in Runs
  BY ElementOfSeq DEF EntryType
<1>2. m \in Commit \cup {Flush}
  BY <1>1, HeldTyped
<1> HIDE DEF m, q
<1>3. CASE m = Flush
  BY <1>3, KindsOfLines, LinesCommitted DEF m, q
<1>4. CASE m = Notice(q)
  <2>1. LineOf(m) = <<"truncated", q>>
    BY <1>4, LinesCommitted
  <2>2. ~ IsOf(r, LineOf(m))
    BY <2>1, KindsOfLines
  <2>3. m \in Commit
    BY <1>1, <1>4, <2>1, HeldTyped DEF Notice, Commit, LineType
  <2>4. \A n : Covers(LineOf(m), r, n) => r = q
    BY <2>1, <2>2 DEF Covers
  <2> QED  BY <2>2, <2>3, <2>4 DEF m, q
<1>5. ASSUME NEW n \in Nat, m = <<"CommitLine", <<"line", q, n>>>>
      PROVE  /\ IsOf(r, LineOf(m)) => r = q
             /\ \A i : Covers(LineOf(m), r, i) => r = q
             /\ m \in Commit
  <2>1. LineOf(m) = <<"line", q, n>>
    BY <1>5, LinesCommitted
  <2>2. IsOf(r, LineOf(m)) => r = q
    BY <2>1 DEF IsOf
  <2>3. LineOf(m) # <<"truncated", r>>
    BY <2>1
  <2>4. m \in Commit
    BY <1>1, <1>5 DEF Commit, LineType
  <2> QED  BY <2>2, <2>3, <2>4 DEF Covers
<1>6. \/ m = Flush \/ m = Notice(q) \/ \E n \in Nat : m = <<"CommitLine", <<"line", q, n>>>>
  BY <1>1 DEF Held
<1> QED  BY <1>3, <1>4, <1>5, <1>6 DEF m, q


\* The transcript b is the first c lines of a, and then L; gone has what was overwritten.
Extends(b, a, L, c) ==
  /\ c \in Nat /\ Len(a) \in Nat /\ L \in Seq(LineType) /\ Len(L) \in Nat
  /\ c = Len(a) \/ (c = Len(a) - 1 /\ Len(L) >= 1 /\ a[Len(a)][1] = "hint")
  /\ Len(b) = c + Len(L)
  /\ \A k \in 1..c : b[k] = a[k]
  /\ \A j \in 1..Len(L) : b[c + j] = L[j]
Loses(gone, had, b, a) ==
  /\ had \in SUBSET gone
  /\ b[Len(a)] = a[Len(a)] \/ <<a[Len(a)][2], a[Len(a)][3]>> \in gone

LEMMA PlacesExtended ==
  ASSUME NEW b, NEW a, NEW L, NEW c, Extends(b, a, L, c), NEW i \in 1..Len(b)
  PROVE  \/ i \in 1..c /\ i \in 1..Len(a) /\ b[i] = a[i]
         \/ \E j \in 1..Len(L) : i = c + j /\ b[i] = L[j]
<1>1. CASE i <= c
  BY <1>1 DEF Extends
<1>2. CASE ~ (i <= c)
  <2> DEFINE j == i - c
  <2>1. j \in 1..Len(L) /\ i = c + j
    BY <1>2 DEF Extends
  <2> HIDE DEF j
  <2> QED  BY <2>1 DEF Extends
<1> QED  BY <1>1, <1>2

\* The lines that follow keep the order, if they are in order and behind what was there.
LEMMA TopStaysTidy ==
  ASSUME NEW b, NEW a, NEW L, NEW c, Extends(b, a, L, c), NEW u, NEW v, TidyTop(a, u),
         \A r \in Runs : u[r] \in Nat /\ v[r] \in Nat /\ u[r] <= v[r],
         \A r \in Runs : \A j \in 1..Len(L) : Numbered(v, r, L[j]),
         \A r \in Runs : \A i, j \in 1..Len(L) : i < j => Precedes(r, L[i], L[j]),
         \A r \in Runs : \A i \in 1..Len(a), j \in 1..Len(L) : Precedes(r, a[i], L[j])
  PROVE  TidyTop(b, v)
<1> SUFFICES ASSUME NEW r \in Runs
             PROVE  /\ \A i \in 1..Len(b) : Numbered(v, r, b[i])
                    /\ \A i, j \in 1..Len(b) : i < j => Precedes(r, b[i], b[j])
  BY DEF TidyTop
<1>1. ASSUME NEW i \in 1..Len(a) PROVE Numbered(v, r, a[i])
  <2>1. Numbered(u, r, a[i])
    BY DEF TidyTop
  <2>2. u[r] \in Nat /\ v[r] \in Nat /\ u[r] <= v[r]
    OBVIOUS
  <2>3. \A n \in 1..u[r] : n \in 1..v[r]
    BY <2>2
  <2> QED  BY <2>1, <2>3 DEF Numbered
<1>2. ASSUME NEW i \in 1..Len(b) PROVE Numbered(v, r, b[i])
  BY <1>1, PlacesExtended
<1>3. c \in Nat
  BY DEF Extends
<1>4. ASSUME NEW i \in 1..Len(b), NEW j \in 1..Len(b), i < j PROVE Precedes(r, b[i], b[j])
  <2>1. CASE j \in 1..c
    <3>1. i \in 1..c
      BY <1>3, <1>4, <2>1
    <3>2. b[i] = a[i] /\ b[j] = a[j] /\ i \in 1..Len(a) /\ j \in 1..Len(a)
      BY <2>1, <3>1 DEF Extends
    <3> QED  BY <1>4, <3>2 DEF TidyTop
  <2>2. ASSUME NEW l \in 1..Len(L), j = c + l, b[j] = L[l] PROVE Precedes(r, b[i], b[j])
    <3>1. CASE i \in 1..Len(a) /\ b[i] = a[i]
      BY <2>2, <3>1
    <3>2. ASSUME NEW k \in 1..Len(L), i = c + k, b[i] = L[k] PROVE Precedes(r, b[i], b[j])
      <4>1. k < l
        BY <1>3, <1>4, <2>2, <3>2
      <4> QED  BY <2>2, <3>2, <4>1
    <3> QED  BY <3>1, <3>2, PlacesExtended
  <2> QED  BY <2>1, <2>2, PlacesExtended
<1> QED  BY <1>2, <1>4

\* What stood for a line still does, or the line is noted as lost.
LEMMA CoverStays ==
  ASSUME NEW b, NEW a, NEW L, NEW c, Extends(b, a, L, c), NEW gone, NEW had,
         Loses(gone, had, b, a), NEW r, NEW n, NEW i \in 1..Len(a), Covers(a[i], r, n)
  PROVE  (\E j \in 1..Len(b) : Covers(b[j], r, n)) \/ <<r, n>> \in gone
<1>1. CASE i \in 1..c
  <2>1. b[i] = a[i] /\ i \in 1..Len(b)
    BY <1>1 DEF Extends
  <2> QED  BY <2>1
<1>2. CASE i \notin 1..c
  <2>1. i = Len(a) /\ i \in 1..Len(b) /\ a[Len(a)][1] = "hint"
    BY <1>2 DEF Extends
  <2>2. CASE b[i] = a[i]
    BY <2>1, <2>2
  <2>3. CASE b[i] # a[i]
    <3>1. <<a[i][2], a[i][3]>> \in gone
      BY <2>1, <2>3 DEF Loses
    <3>2. a[i] # <<"truncated", r>>
      BY <2>1
    <3>3. a[i][2] = r /\ a[i][3] = n
      BY <3>2 DEF Covers, IsOf
    <3> QED  BY <3>1, <3>3
  <2> QED  BY <2>2, <2>3
<1> QED  BY <1>1, <1>2

\* An entry whose pipeline is not among the lines that follow stays in order.
LEMMA EntryStaysTidy ==
  ASSUME NEW b, NEW a, NEW L, NEW c, Extends(b, a, L, c), NEW u, NEW v, NEW e, Tidy(a, u, e),
         \A r \in Runs : u[r] \in Nat /\ v[r] \in Nat /\ u[r] <= v[r],
         \A r \in Runs : \A i \in 1..Len(L), j \in 1..Len(e.buffered) :
           Precedes(r, L[i], LineOf(e.buffered[j]))
  PROVE  Tidy(b, v, e)
<1> DEFINE x(j) == LineOf(e.buffered[j])
           n == Len(e.buffered)
<1> SUFFICES ASSUME NEW r \in Runs
             PROVE  /\ \A j \in 1..n : Numbered(v, r, x(j))
                    /\ \A i, j \in 1..n : i < j => Precedes(r, x(i), x(j))
                    /\ \A i \in 1..Len(b), j \in 1..n : Precedes(r, b[i], x(j))
  BY DEF Tidy
<1>1. /\ \A j \in 1..n : Numbered(u, r, x(j))
      /\ \A i, j \in 1..n : i < j => Precedes(r, x(i), x(j))
      /\ \A i \in 1..Len(a), j \in 1..n : Precedes(r, a[i], x(j))
      /\ \A i \in 1..Len(L), j \in 1..n : Precedes(r, L[i], x(j))
  BY DEF Tidy
<1> HIDE DEF x, n
<1>2. \A k \in 1..u[r] : k \in 1..v[r]
  <2>1. u[r] \in Nat /\ v[r] \in Nat /\ u[r] <= v[r]
    OBVIOUS
  <2> QED  BY <2>1
<1>3. \A j \in 1..n : Numbered(v, r, x(j))
  BY <1>1, <1>2 DEF Numbered
<1>4. ASSUME NEW i \in 1..Len(b), NEW j \in 1..n PROVE Precedes(r, b[i], x(j))
  BY <1>1, PlacesExtended
<1> QED  BY <1>1, <1>3, <1>4


LEMMA ShownExtends ==
  ASSUME ConstantsOK, screen \in Live, NEW L, NEW c, Shown2(L, c),
         screen.stream_line_open => Transcript(screen)[Len(Transcript(screen))][1] = "hint"
  PROVE  /\ Extends(Transcript(screen'), Transcript(screen), L, c)
         /\ Loses(lost', lost, Transcript(screen'), Transcript(screen))
         /\ screen'.stream_line_open
            => Transcript(screen')[Len(Transcript(screen'))][1] = "hint"
<1> DEFINE a == Transcript(screen)
           b == Transcript(screen')
           open == screen.stream_line_open
<1>1. Len(a) \in Nat /\ Len(a) >= 1
  BY TranscriptIs DEF Live
<1>2. /\ L \in Seq(LineType) /\ Len(L) \in Nat /\ c \in Nat
      /\ c = Len(a) \/ (c = Len(a) - 1 /\ open /\ Len(L) >= 1)
      /\ screen'.stream_line_open => open /\ Len(L) = 0
      /\ Len(b) = c + Len(L)
      /\ \A k \in 1..c : b[k] = a[k]
      /\ \A j \in 1..Len(L) : b[c + j] = L[j]
  BY LenProperties DEF Shown2, Grown
<1>3. lost' = IF open /\ b[Len(a)] # a[Len(a)] THEN lost \cup {<<a[Len(a)][2], a[Len(a)][3]>>} ELSE lost
  BY DEF Shown2, LostTo
<1>4. open => a[Len(a)][1] = "hint"
  OBVIOUS
<1> HIDE DEF a, b, open
<1>5. Extends(b, a, L, c)
  BY <1>1, <1>2, <1>4 DEF Extends
<1>6. Loses(lost', lost, b, a)
  <2>1. CASE open
    BY <1>3, <2>1 DEF Loses
  <2>2. CASE ~ open
    <3>1. Len(a) \in 1..c
      BY <1>1, <1>2, <2>2
    <3> QED  BY <1>2, <1>3, <2>2, <3>1 DEF Loses
  <2> QED  BY <2>1, <2>2
<1>7. screen'.stream_line_open => b[Len(b)][1] = "hint"
  <2> SUFFICES ASSUME screen'.stream_line_open PROVE b[Len(b)][1] = "hint"
    OBVIOUS
  <2>1. Len(b) = Len(a) /\ Len(a) \in 1..c /\ open
    BY <1>1, <1>2
  <2> QED  BY <1>2, <1>4, <2>1
<1> QED  BY <1>5, <1>6, <1>7 DEF a, b

LEMMA HintExtends ==
  ASSUME ConstantsOK, screen \in Live, NEW hint \in LineType, ShowsHint(hint), hint[1] = "hint",
         screen.stream_line_open => Transcript(screen)[Len(Transcript(screen))][1] = "hint"
  PROVE  /\ \E L, c : /\ Extends(Transcript(screen'), Transcript(screen), L, c)
                      /\ Len(L) = 1 /\ L[1] = hint
         /\ Loses(lost', lost, Transcript(screen'), Transcript(screen))
         /\ Transcript(screen')[Len(Transcript(screen'))][1] = "hint"
<1> DEFINE a == Transcript(screen)
           b == Transcript(screen')
           open == screen.stream_line_open
           L == <<hint>>
<1>1. Len(a) \in Nat /\ Len(a) >= 1
  BY TranscriptIs DEF Live
<1>2. PICK c \in Nat :
        /\ c = Len(a) \/ (c = Len(a) - 1 /\ open)
        /\ Len(b) = c + 1
        /\ \A k \in 1..c : b[k] = a[k]
        /\ b[c + 1] = hint
  BY DEF ShowsHint
<1>3. lost' = IF open /\ b[Len(a)] # a[Len(a)] THEN lost \cup {<<a[Len(a)][2], a[Len(a)][3]>>} ELSE lost
  BY DEF ShowsHint, LostTo
<1>4. open => a[Len(a)][1] = "hint"
  OBVIOUS
<1>5. L \in Seq(LineType) /\ Len(L) = 1 /\ L[1] = hint
  OBVIOUS
<1> HIDE DEF a, b, open, L
<1>6. Extends(b, a, L, c)
  BY <1>1, <1>2, <1>4, <1>5 DEF Extends
<1>7. Loses(lost', lost, b, a)
  <2>1. CASE open
    BY <1>3, <2>1 DEF Loses
  <2>2. CASE ~ open
    <3>1. Len(a) \in 1..c
      BY <1>1, <1>2, <2>2
    <3> QED  BY <1>2, <1>3, <2>2, <3>1 DEF Loses
  <2> QED  BY <2>1, <2>2
<1>8. b[Len(b)][1] = "hint"
  BY <1>2
<1> QED  BY <1>5, <1>6, <1>7, <1>8 DEF a, b

NextFor(u, v, e, m) ==
  /\ e \in EntryType /\ u[e.run] \in Nat /\ v[e.run] = u[e.run] + 1
  /\ \A r \in Runs : r # e.run => v[r] = u[r]
  /\ m = <<"CommitLine", <<"line", e.run, u[e.run] + 1>>>>
Grew(a, u, v, e, f) ==
  /\ Tidy(a, v, f) /\ \A r, n : Waits(e, r, n) => Waits(f, r, n)
  /\ Waits(f, e.run, u[e.run] + 1)

\* An entry takes the next line of its pipeline, which is behind all it has said.
LEMMA EntryGrows ==
  ASSUME ConstantsOK, NEW a, NEW u, NEW v, NEW e, NEW f, NEW m, NextFor(u, v, e, m),
         TidyTop(a, u), Tidy(a, u, e), Receives(f, e, m)
  PROVE  Grew(a, u, v, e, f)
<1> DEFINE q == e.run
<1> /\ e \in EntryType /\ q \in Runs /\ u[q] \in Nat /\ v[q] = u[q] + 1
    /\ \A r \in Runs : r # q => v[r] = u[r]
    /\ m = <<"CommitLine", <<"line", q, u[q] + 1>>>>
  BY DEF NextFor, EntryType
<1> DEFINE x(j) == LineOf(e.buffered[j])
           y(j) == LineOf(f.buffered[j])
           k == Len(e.buffered)
           n == Len(f.buffered)
           s == u[q] + 1
<1>1. k \in Nat /\ n \in Nat /\ f \in EntryType /\ f.run = q /\ k <= n
  BY LenProperties DEF Receives, EntryType
<1>2. \A j \in 1..k : y(j) = x(j)
  BY DEF Receives
<1>a. LineOf(m) = <<"line", q, s>>
  BY LinesCommitted
<1>3. \A j \in (k + 1)..n : \/ \A r : ~ IsOf(r, y(j))
                            \/ y(j) = <<"line", q, s>> /\ j = n
  <2> SUFFICES ASSUME NEW j \in (k + 1)..n
               PROVE  (\A r : ~ IsOf(r, y(j))) \/ (y(j) = <<"line", q, s>> /\ j = n)
    OBVIOUS
  <2>1. f.buffered[j] \in {Flush, Notice(q)} \/ (f.buffered[j] = m /\ j = n)
    BY DEF Receives
  <2>2. CASE f.buffered[j] = Flush
    BY <2>2, LinesCommitted, KindsOfLines
  <2>3. CASE f.buffered[j] = Notice(q)
    <3>1. y(j) = <<"truncated", q>>
      BY <2>3, LinesCommitted
    <3> QED  BY <3>1 DEF IsOf
  <2>4. CASE f.buffered[j] = m /\ j = n
    BY <1>a, <2>4
  <2> QED  BY <2>1, <2>2, <2>3, <2>4
<1>4. \A j \in 1..n : j \in 1..k \/ j \in (k + 1)..n
  BY <1>1
<1>5. \A r \in Runs : /\ \A j \in 1..k : Numbered(u, r, x(j))
                      /\ \A i, j \in 1..k : i < j => Precedes(r, x(i), x(j))
                      /\ \A i \in 1..Len(a), j \in 1..k : Precedes(r, a[i], x(j))
                      /\ \A i \in 1..Len(a) : Numbered(u, r, a[i])
  BY DEF Tidy, TidyTop
<1>6. s \in 1..v[q] /\ \A i \in 1..u[q] : i < s /\ i \in 1..v[q]
  OBVIOUS
<1>7. \A z : IsOf(q, z) /\ Numbered(u, q, z) => Precedes(q, z, <<"line", q, s>>)
  <2> SUFFICES ASSUME NEW z, IsOf(q, z), Numbered(u, q, z)
               PROVE  Precedes(q, z, <<"line", q, s>>)
    OBVIOUS
  <2>1. z[3] < s
    BY <1>6 DEF Numbered
  <2>2. <<"line", q, s>>[3] = s
    OBVIOUS
  <2> QED  BY <2>1, <2>2 DEF Precedes
<1>8. \A r, z : ~ IsOf(r, z) => /\ Numbered(v, r, z)
                                /\ \A w : Precedes(r, w, z) /\ Precedes(r, z, w)
  BY DEF Numbered, Precedes
<1>9. \A r : r # q => ~ IsOf(r, <<"line", q, s>>)
  BY DEF IsOf
<1>10. \A r \in Runs : \A z : Numbered(u, r, z) => Numbered(v, r, z)
  <2> SUFFICES ASSUME NEW r \in Runs, NEW z, Numbered(u, r, z) PROVE Numbered(v, r, z)
    OBVIOUS
  <2>1. CASE r = q
    BY <1>6, <2>1 DEF Numbered
  <2>2. CASE r # q
    BY <2>2 DEF Numbered
  <2> QED  BY <2>1, <2>2
<1>11. Numbered(v, q, <<"line", q, s>>)
  <2>1. <<"line", q, s>>[3] = s
    OBVIOUS
  <2> QED  BY <1>6, <2>1 DEF Numbered
<1>c. Waits(f, q, s)
  <2>1. f.truncated \/ \E j \in 1..n : f.buffered[j] = m
    BY DEF Receives
  <2>2. CASE f.truncated
    <3>1. PICK j \in DOMAIN f.buffered : f.buffered[j] = Notice(q)
      BY <1>1, <2>2 DEF EntryType
    <3>2. j \in 1..n
      <4>1. f.buffered \in Seq(Held(q))
        BY <1>1 DEF EntryType
      <4> QED  BY <3>1, <4>1, LenProperties
    <3>3. y(j) = <<"truncated", q>>
      BY <3>1, LinesCommitted
    <3> QED  BY <3>2, <3>3 DEF Waits, Covers
  <2>3. ASSUME NEW j \in 1..n, f.buffered[j] = m PROVE Waits(f, q, s)
    <3>1. y(j) = <<"line", q, s>>
      BY <1>a, <2>3
    <3>2. Covers(<<"line", q, s>>, q, s)
      BY DEF Covers, IsOf
    <3> QED  BY <3>1, <3>2 DEF Waits
  <2> QED  BY <2>1, <2>2, <2>3
<1>d. \A r, i : Waits(e, r, i) => Waits(f, r, i)
  <2> SUFFICES ASSUME NEW r, NEW i, NEW j \in 1..k, Covers(x(j), r, i) PROVE Waits(f, r, i)
    BY DEF Waits
  <2>1. j \in 1..n /\ y(j) = x(j)
    BY <1>1, <1>2
  <2> QED  BY <2>1 DEF Waits
<1>12. ASSUME NEW r \in Runs
       PROVE  /\ \A j \in 1..n : Numbered(v, r, y(j))
              /\ \A i, j \in 1..n : i < j => Precedes(r, y(i), y(j))
              /\ \A i \in 1..Len(a), j \in 1..n : Precedes(r, a[i], y(j))
  <2> HIDE DEF x, y, k, n, s
  <2>1. ASSUME NEW j \in 1..n PROVE Numbered(v, r, y(j))
    BY <1>2, <1>3, <1>4, <1>5, <1>8, <1>9, <1>10, <1>11
  <2>2. ASSUME NEW i \in 1..Len(a), NEW j \in 1..n PROVE Precedes(r, a[i], y(j))
    BY <1>2, <1>3, <1>4, <1>5, <1>7, <1>8, <1>9
  <2>3. ASSUME NEW i \in 1..n, NEW j \in 1..n, i < j PROVE Precedes(r, y(i), y(j))
    <3>1. CASE j \in 1..k
      <4>1. i \in 1..k
        BY <1>1, <2>3, <3>1
      <4> QED  BY <1>2, <1>5, <2>3, <3>1, <4>1
    <3>2. CASE i \in 1..k /\ j \in (k + 1)..n
      BY <1>2, <1>3, <1>5, <1>7, <1>8, <1>9, <3>2
    <3>3. CASE i \in (k + 1)..n
      <4>1. i # n
        BY <1>1, <2>3
      <4> QED  BY <1>3, <1>8, <3>3, <4>1
    <3> QED  BY <1>4, <3>1, <3>2, <3>3
  <2> QED  BY <2>1, <2>2, <2>3
<1>13. Tidy(a, v, f)
  BY <1>12 DEF Tidy
<1> QED  BY <1>13, <1>c, <1>d DEF Grew


\* Lines about other things leave all in order.
LEMMA PlainKeepsOrder ==
  ASSUME NEW b, NEW a, NEW L, NEW c, Extends(b, a, L, c), NEW u, NEW v, TidyTop(a, u),
         \A r \in Runs : u[r] \in Nat /\ v[r] \in Nat /\ u[r] <= v[r],
         \A j \in 1..Len(L) : L[j] = <<"note">>
  PROVE  TidyTop(b, v) /\ \A e : Tidy(a, u, e) => Tidy(b, v, e)
<1>1. \A r, j : j \in 1..Len(L) => ~ IsOf(r, L[j])
  BY KindsOfLines
<1>2. \A r, j, x : j \in 1..Len(L) => Precedes(r, L[j], x) /\ Precedes(r, x, L[j])
  BY <1>1 DEF Precedes
<1>3. \A r, j : j \in 1..Len(L) => Numbered(v, r, L[j])
  BY <1>1 DEF Numbered
<1>4. TidyTop(b, v)
  BY <1>2, <1>3, TopStaysTidy
<1>5. ASSUME NEW e, Tidy(a, u, e) PROVE Tidy(b, v, e)
  BY <1>2, <1>5, EntryStaysTidy
<1> QED  BY <1>4, <1>5

\* The step of a pipeline q that says its next line, from the transcript a to b.
SaysNext(b, a, u, v, q) ==
  /\ TidyTop(b, v)
  /\ \A e \in EntryType : e.run # q /\ Tidy(a, u, e) => Tidy(b, v, e)
  /\ \E j \in 1..Len(b) : Covers(b[j], q, u[q] + 1)

\* The next line of the pipeline q, behind all it has said, none of which waits.
LEMMA LineKeepsOrder ==
  ASSUME ConstantsOK, NEW b, NEW a, NEW L, NEW c, Extends(b, a, L, c), NEW u, NEW v, TidyTop(a, u),
         NEW q \in Runs, \A r \in Runs : u[r] \in Nat,
         v[q] = u[q] + 1, \A r \in Runs : r # q => v[r] = u[r],
         NEW x \in {<<"line", q, u[q] + 1>>, <<"hint", q, u[q] + 1>>},
         NEW i \in 1..Len(L), L[i] = x, \A j \in 1..Len(L) : j # i => L[j] = <<"note">>
  PROVE  SaysNext(b, a, u, v, q)
<1> DEFINE s == u[q] + 1
<1>1. IsOf(q, x) /\ x[3] = s /\ \A r : r # q => ~ IsOf(r, x)
  BY DEF IsOf
<1>2. s \in 1..v[q] /\ \A n \in 1..u[q] : n < s
  OBVIOUS
<1>3. \A r \in Runs : u[r] \in Nat /\ v[r] \in Nat /\ u[r] <= v[r]
  <2> SUFFICES ASSUME NEW r \in Runs PROVE u[r] \in Nat /\ v[r] \in Nat /\ u[r] <= v[r]
    OBVIOUS
  <2>1. CASE r = q
    BY <2>1
  <2>2. CASE r # q
    BY <2>2
  <2> QED  BY <2>1, <2>2
<1> HIDE DEF s
<1>4. \A r, j : j \in 1..Len(L) /\ IsOf(r, L[j]) => r = q /\ j = i
  <2> SUFFICES ASSUME NEW r, NEW j \in 1..Len(L), IsOf(r, L[j]) PROVE r = q /\ j = i
    OBVIOUS
  <2>1. ~ IsOf(r, <<"note">>)
    BY DEF IsOf
  <2>2. j = i
    BY <2>1
  <2> QED  BY <1>1, <2>2
<1>5. \A r \in Runs : \A j \in 1..Len(L) : Numbered(v, r, L[j])
  BY <1>1, <1>2, <1>4 DEF Numbered
<1>6. \A r \in Runs : \A j, k \in 1..Len(L) : j < k => Precedes(r, L[j], L[k])
  <2> SUFFICES ASSUME NEW r \in Runs, NEW j \in 1..Len(L), NEW k \in 1..Len(L), j < k,
                      IsOf(r, L[j]), IsOf(r, L[k])
               PROVE  FALSE
    BY DEF Precedes
  <2>1. j = i /\ k = i
    BY <1>4
  <2> QED  BY <2>1
<1>7. \A r \in Runs : \A k \in 1..Len(a), j \in 1..Len(L) : Precedes(r, a[k], L[j])
  <2> SUFFICES ASSUME NEW r \in Runs, NEW k \in 1..Len(a), NEW j \in 1..Len(L),
                      IsOf(r, a[k]), IsOf(r, L[j])
               PROVE  a[k][3] < L[j][3]
    BY DEF Precedes
  <2>1. r = q /\ L[j] = x
    BY <1>4
  <2>2. a[k][3] \in 1..u[q]
    BY <2>1 DEF TidyTop, Numbered
  <2> QED  BY <1>1, <1>2, <2>1, <2>2
<1>8. TidyTop(b, v)
  BY <1>3, <1>5, <1>6, <1>7, TopStaysTidy
<1>9. ASSUME NEW e \in EntryType, e.run # q, Tidy(a, u, e) PROVE Tidy(b, v, e)
  <2>1. \A r \in Runs : \A k \in 1..Len(L), j \in 1..Len(e.buffered) :
          Precedes(r, L[k], LineOf(e.buffered[j]))
    BY <1>4, <1>9, LinesOfEntry DEF Precedes
  <2> QED  BY <1>3, <1>9, <2>1, EntryStaysTidy
<1>10. \E j \in 1..Len(b) : Covers(b[j], q, s)
  <2>1. c + i \in 1..Len(b) /\ b[c + i] = x
    BY DEF Extends
  <2> QED  BY <1>1, <2>1 DEF Covers
<1> QED  BY <1>8, <1>9, <1>10 DEF s, SaysNext

LEMMA ToldStays ==
  ASSUME NEW b, NEW a, NEW L, NEW c, Extends(b, a, L, c), NEW gone, NEW had, Loses(gone, had, b, a),
         NEW es, NEW fs, NEW r, NEW n, Told(a, had, es, r, n),
         \A k \in 1..Len(es) : Waits(es[k], r, n) =>
           \/ \E i \in 1..Len(b) : Covers(b[i], r, n)
           \/ \E j \in 1..Len(fs) : Waits(fs[j], r, n)
  PROVE  Told(b, gone, fs, r, n)
<1>1. ASSUME NEW i \in 1..Len(a), Covers(a[i], r, n) PROVE Told(b, gone, fs, r, n)
  BY <1>1, CoverStays DEF Told
<1>2. CASE <<r, n>> \in had
  BY <1>2 DEF Told, Loses
<1>3. ASSUME NEW k \in 1..Len(es), Waits(es[k], r, n) PROVE Told(b, gone, fs, r, n)
  BY <1>3 DEF Told
<1> QED  BY <1>1, <1>2, <1>3 DEF Told

\* What makes the next state one in order.
LEMMA OrderFollows ==
  ASSUME TidyTop(Transcript(screen'), said'),
         \A k \in 1..Len(background_entries') :
           Tidy(Transcript(screen'), said', background_entries'[k]),
         \A r \in Runs : \A n \in 1..said'[r] :
           Told(Transcript(screen'), lost', background_entries', r, n),
         screen'.stream_line_open
           => Transcript(screen')[Len(Transcript(screen'))][1] = "hint"
  PROVE  InOrder'
BY DEF InOrder

LEMMA EntriesOfPlain ==
  ASSUME ConstantsOK, Types, Pipelines, PlainStep
  PROVE  /\ \A k \in 1..Len(background_entries) :
              k \in 1..Len(background_entries') /\
              background_entries'[k].buffered = background_entries[k].buffered
         /\ \A k \in 1..Len(background_entries') :
              \/ k \in 1..Len(background_entries)
                 /\ background_entries'[k].buffered = background_entries[k].buffered
              \/ Len(background_entries'[k].buffered) = 0
<1> DEFINE es == background_entries
           fs == background_entries'
           n == Len(es)
           Goal == /\ \A k \in 1..n : k \in 1..Len(fs) /\ fs[k].buffered = es[k].buffered
                   /\ \A k \in 1..Len(fs) : \/ k \in 1..n /\ fs[k].buffered = es[k].buffered
                                            \/ Len(fs[k].buffered) = 0
<1>1. /\ es \in Seq(EntryType) /\ n \in Nat /\ DOMAIN es = 1..n
      /\ \A k \in 1..n : es[k] \in EntryType
      /\ RunningEntries \in SUBSET (1..n)
  BY TheEntries DEF Types
<1>2. CASE fs = es
  BY <1>2
<1>3. ASSUME NEW k \in RunningEntries, NEW x \in {"done", "error"}, fs = [es EXCEPT ![k].status = x]
      PROVE  Goal
  <2> DEFINE e == [es[k] EXCEPT !.status = x]
  <2>1. k \in 1..n /\ e \in EntryType /\ e.buffered = es[k].buffered
    BY <1>1, StatusChanged
  <2>2. fs = [es EXCEPT ![k] = e]
    BY <1>3
  <2> HIDE DEF e, es
  <2> DEFINE g == [es EXCEPT ![k] = e]
  <2>3. g \in Seq(EntryType) /\ Len(g) = n /\ \A j \in 1..n : g[j] = IF j = k THEN e ELSE es[j]
    BY <1>1, <2>1, ExceptSeq
  <2> HIDE DEF g
  <2>4. fs = g
    BY <2>2 DEF g
  <2> QED  BY <2>1, <2>3, <2>4
<1>4. CASE ~ bg_mode /\ running \in Runs /\ fs = Append(es, Empty)
  <2>1. Empty \in EntryType /\ Len(Empty.buffered) = 0
    BY <1>4, EmptyTyped
  <2> HIDE DEF es
  <2>2. /\ Len(fs) = n + 1 /\ fs[n + 1] = Empty /\ \A j \in 1..n : fs[j] = es[j]
    BY <1>1, <1>4, <2>1, AppendProperties
  <2>3. \A j \in 1..Len(fs) : j \in 1..n \/ j = n + 1
    BY <1>1, <2>2
  <2>4. \A j \in 1..n : j \in 1..Len(fs)
    BY <1>1, <2>2
  <2>5. n + 1 \in Nat
    BY <1>1
  <2> DEFINE l == n + 1
  <2> HIDE DEF n, l
  <2>6. \A j \in 1..n : j \in 1..Len(fs) /\ fs[j].buffered = es[j].buffered
    BY <2>2, <2>4
  <2>7. fs[l] = Empty /\ \A j \in 1..Len(fs) : j \in 1..n \/ j = l
    BY <2>2, <2>3 DEF l
  <2>8. \A j \in 1..Len(fs) : (j \in 1..n /\ fs[j].buffered = es[j].buffered)
                              \/ Len(fs[j].buffered) = 0
    BY <2>1, <2>6, <2>7
  <2> QED  BY <2>6, <2>8 DEF n, es
<1> HIDE DEF Goal
<1>5. Goal
  <2>1. CASE fs = es
    BY <1>2, <2>1 DEF Goal
  <2> QED  BY <1>3, <1>4, <2>1 DEF PlainStep, Goal
<1> QED  BY <1>5 DEF Goal


\* Entries with the same lines are in order, and wait, alike.
LEMMA SameLines ==
  ASSUME NEW e, NEW f, f.buffered = e.buffered
  PROVE  /\ \A a, u : Tidy(a, u, e) => Tidy(a, u, f)
         /\ \A r, n : Waits(e, r, n) => Waits(f, r, n)
BY DEF Tidy, Waits

LEMMA SaidTyped ==
  ASSUME ConstantsOK, Types
  PROVE  /\ \A r \in Runs : said[r] \in Nat
         /\ Speaks /\ Says =>
              /\ running \in Runs /\ said'[running] = said[running] + 1
              /\ \A r \in Runs : r # running => said'[r] = said[r]
              /\ \A r \in Runs : said'[r] \in Nat /\ said[r] <= said'[r]
<1>1. said \in [Runs -> 0..MaxLines] /\ MaxLines \in Nat
  BY DEF Types, ConstantsOK
<1>2. \A r \in Runs : said[r] \in Nat
  BY <1>1
<1>3. ASSUME Speaks, Says
      PROVE  /\ running \in Runs /\ said'[running] = said[running] + 1
             /\ \A r \in Runs : r # running => said'[r] = said[r]
  BY <1>1, <1>3, TheLine DEF Says
<1>4. ASSUME Speaks, Says, NEW r \in Runs PROVE said'[r] \in Nat /\ said[r] <= said'[r]
  <2>1. CASE r = running
    BY <1>2, <1>3, <1>4, <2>1
  <2>2. CASE r # running
    BY <1>2, <1>3, <1>4, <2>2
  <2> QED  BY <2>1, <2>2
<1> QED  BY <1>2, <1>3, <1>4

LEMMA PlainInOrder ==
  ASSUME ConstantsOK, Types, Pipelines, ~ quit, InOrder, PlainStep
  PROVE  InOrder'
<1> DEFINE a == Transcript(screen)
           b == Transcript(screen')
           es == background_entries
           fs == background_entries'
<1>1. PICK L, c : Shown2(L, c) /\ \A j \in 1..Len(L) : L[j] = <<"note">>
  BY DEF PlainStep, ShowsPlain
<1>2. screen \in Live /\ said' = said
  BY DEF Types, Live, PlainStep
<1>3. /\ Extends(b, a, L, c) /\ Loses(lost', lost, b, a)
      /\ screen'.stream_line_open => b[Len(b)][1] = "hint"
  BY <1>1, <1>2, ShownExtends DEF InOrder
<1>4. \A r \in Runs : said[r] \in Nat /\ said[r] <= said[r]
  BY SaidTyped
<1>5. TidyTop(a, said) /\ \A k \in 1..Len(es) : Tidy(a, said, es[k])
  BY DEF InOrder
<1> HIDE DEF a, b
<1>6. TidyTop(b, said) /\ \A e : Tidy(a, said, e) => Tidy(b, said, e)
  BY <1>1, <1>3, <1>4, <1>5, PlainKeepsOrder
<1>7. /\ \A k \in 1..Len(es) : k \in 1..Len(fs) /\ fs[k].buffered = es[k].buffered
      /\ \A k \in 1..Len(fs) : (k \in 1..Len(es) /\ fs[k].buffered = es[k].buffered)
                               \/ Len(fs[k].buffered) = 0
  BY EntriesOfPlain
<1> HIDE DEF es, fs
<1>8. ASSUME NEW k \in 1..Len(fs) PROVE Tidy(b, said, fs[k])
  <2>1. CASE k \in 1..Len(es) /\ fs[k].buffered = es[k].buffered
    BY <1>5, <1>6, <2>1, SameLines
  <2>2. CASE Len(fs[k].buffered) = 0
    BY <2>2 DEF Tidy
  <2> QED  BY <1>7, <2>1, <2>2
<1>9. ASSUME NEW r \in Runs, NEW n \in 1..said[r] PROVE Told(b, lost', fs, r, n)
  <2>1. Told(a, lost, es, r, n)
    BY DEF InOrder, a, es
  <2>2. \A k \in 1..Len(es) : Waits(es[k], r, n) => \E j \in 1..Len(fs) : Waits(fs[j], r, n)
    BY <1>7, SameLines
  <2> QED  BY <1>3, <2>1, <2>2, ToldStays
<1> QED  BY <1>2, <1>3, <1>6, <1>8, <1>9, OrderFollows DEF b, fs

\* A line of the pipeline at work is shown, while nothing of it waits.
LEMMA LineAdded ==
  ASSUME ConstantsOK, NEW b, NEW a, NEW L, NEW c, Extends(b, a, L, c), NEW u, NEW v, TidyTop(a, u),
         NEW q \in Runs, \A r \in Runs : u[r] \in Nat,
         v[q] = u[q] + 1, \A r \in Runs : r # q => v[r] = u[r],
         \E x \in {<<"line", q, u[q] + 1>>, <<"hint", q, u[q] + 1>>} : \E i \in 1..Len(L) :
           L[i] = x /\ \A j \in 1..Len(L) : j # i => L[j] = <<"note">>
  PROVE  SaysNext(b, a, u, v, q)
<1>1. PICK x \in {<<"line", q, u[q] + 1>>, <<"hint", q, u[q] + 1>>} : \E i \in 1..Len(L) :
        L[i] = x /\ \A j \in 1..Len(L) : j # i => L[j] = <<"note">>
  OBVIOUS
<1>2. PICK i \in 1..Len(L) : L[i] = x /\ \A j \in 1..Len(L) : j # i => L[j] = <<"note">>
  BY <1>1
<1>3. L[i] = x
  BY <1>2
<1>4. \A j \in 1..Len(L) : j # i => L[j] = <<"note">>
  BY <1>2
<1> QED  BY <1>3, <1>4, LineKeepsOrder

LEMMA ScreenInOrder ==
  ASSUME ConstantsOK, Types, Pipelines, ~ quit, InOrder, ScreenStep
  PROVE  InOrder'
<1> DEFINE a == Transcript(screen)
           b == Transcript(screen')
           es == background_entries
           q == running
           s == said[q] + 1
<1>1. /\ ~ bg_mode /\ Speaks /\ Says /\ es' = es
      /\ ShowsLine(Spoken("line")) \/ ShowsHint(Spoken("hint"))
  BY DEF ScreenStep
<1>2. screen \in Live /\ (screen.stream_line_open => a[Len(a)][1] = "hint")
  BY DEF Types, Live, InOrder
<1>3. /\ q \in Runs /\ Spoken("line") = <<"line", q, s>> /\ Spoken("hint") = <<"hint", q, s>>
      /\ Spoken("hint") \in LineType /\ Spoken("hint")[1] = "hint"
  BY <1>1, TheLine DEF Spoken
<1>4. PICK L, c : /\ Extends(b, a, L, c) /\ Loses(lost', lost, b, a)
                  /\ screen'.stream_line_open => b[Len(b)][1] = "hint"
                  /\ \E x \in {<<"line", q, s>>, <<"hint", q, s>>} : \E i \in 1..Len(L) :
                       L[i] = x /\ \A j \in 1..Len(L) : j # i => L[j] = <<"note">>
  <2>1. CASE ShowsLine(Spoken("line"))
    <3>1. PICK L, c : /\ Shown2(L, c)
                      /\ \E i \in 1..Len(L) : /\ L[i] = <<"line", q, s>>
                                              /\ \A j \in 1..Len(L) : j # i => L[j] = <<"note">>
      BY <1>3, <2>1 DEF ShowsLine
    <3>2. /\ Extends(b, a, L, c) /\ Loses(lost', lost, b, a)
          /\ screen'.stream_line_open => b[Len(b)][1] = "hint"
      BY <1>2, <3>1, ShownExtends
    <3> QED  BY <3>1, <3>2
  <2>2. CASE ShowsHint(Spoken("hint"))
    <3>1. /\ \E L, c : Extends(b, a, L, c) /\ Len(L) = 1 /\ L[1] = Spoken("hint")
          /\ Loses(lost', lost, b, a) /\ b[Len(b)][1] = "hint"
      BY <1>2, <1>3, <2>2, HintExtends
    <3>2. PICK L, c : Extends(b, a, L, c) /\ Len(L) = 1 /\ L[1] = Spoken("hint")
      BY <3>1
    <3>3. 1 \in 1..Len(L) /\ \A j \in 1..Len(L) : j # 1 => L[j] = <<"note">>
      BY <3>2
    <3> QED  BY <1>3, <3>1, <3>2, <3>3
  <2> QED  BY <1>1, <2>1, <2>2
<1>7. /\ \A r \in Runs : said[r] \in Nat
      /\ said'[q] = s /\ \A r \in Runs : r # q => said'[r] = said[r]
  BY <1>1, SaidTyped
<1>8. TidyTop(a, said) /\ \A k \in 1..Len(es) : Tidy(a, said, es[k])
  BY DEF InOrder
<1>9. /\ TidyTop(b, said')
      /\ \A e \in EntryType : e.run # q /\ Tidy(a, said, e) => Tidy(b, said', e)
      /\ \E j \in 1..Len(b) : Covers(b[j], q, s)
  <2>1. q \in Runs /\ TidyTop(a, said) /\ Extends(b, a, L, c)
    BY <1>3, <1>4, <1>8
  <2>2. \E x \in {<<"line", q, s>>, <<"hint", q, s>>} : \E i \in 1..Len(L) :
          L[i] = x /\ \A j \in 1..Len(L) : j # i => L[j] = <<"note">>
    BY <1>4
  <2> HIDE DEF a, b, q
  <2>3. SaysNext(b, a, said, said', q)
    BY <1>7, <2>1, <2>2, LineAdded
  <2> QED  BY <2>3 DEF SaysNext
<1>10. \A k \in 1..Len(es) : es[k] \in EntryType /\ es[k].run # q
  <2> SUFFICES ASSUME NEW k \in 1..Len(es) PROVE es[k] \in EntryType /\ es[k].run # q
    OBVIOUS
  <2>1. es[k] \in EntryType /\ k \in DOMAIN es
    BY TheEntries
  <2>2. es[k].run <= ended /\ es[k].run \in Nat
    <3>1. k \notin RunningEntries
      BY <1>1 DEF Pipelines
    <3>2. es[k].run <= ended
      BY <2>1, <3>1 DEF Pipelines
    <3> QED  BY <2>1, <3>2 DEF EntryType, Runs
  <2>3. q = ended + 1 /\ ended \in Nat
    BY <1>1 DEF Pipelines, Types, ConstantsOK, Speaks
  <2> HIDE DEF es, q
  <2> QED  BY <2>1, <2>2, <2>3
<1>11. \A k \in 1..Len(es) : Tidy(b, said', es[k])
  BY <1>8, <1>9, <1>10
<1>12. ASSUME NEW r \in Runs, NEW n \in 1..said'[r] PROVE Told(b, lost', es, r, n)
  <2>1. CASE r = q /\ n = s
    BY <1>9, <2>1 DEF Told
  <2>2. CASE ~ (r = q /\ n = s)
    <3>1. n \in 1..said[r]
      <4>1. said[r] \in Nat /\ said'[r] = IF r = q THEN said[r] + 1 ELSE said[r]
        BY <1>7
      <4> QED  BY <2>2, <4>1
    <3>2. Told(a, lost, es, r, n)
      BY <3>1 DEF InOrder
    <3> HIDE DEF a, b, es
    <3> QED  BY <1>4, <3>2, ToldStays
  <2> QED  BY <2>1, <2>2
<1> HIDE DEF a, b, es
<1>13. es' = background_entries' /\ background_entries' = es
  BY <1>1 DEF es
<1> QED  BY <1>4, <1>9, <1>11, <1>12, <1>13, OrderFollows DEF b


\* A line of the pipeline at work is kept in its entry.
LEMMA BackgroundInOrder ==
  ASSUME ConstantsOK, Types, Pipelines, ~ quit, InOrder, BackgroundStep
  PROVE  InOrder'
<1> DEFINE a == Transcript(screen)
           b == Transcript(screen')
           es == background_entries
           fs == background_entries'
           q == running
           s == said[q] + 1
<1>1. Speaks /\ Says /\ bg_mode
  BY DEF BackgroundStep
<1>2. screen \in Live /\ (screen.stream_line_open => a[Len(a)][1] = "hint")
  BY DEF Types, Live, InOrder
<1>3. PICK L, c : Shown2(L, c) /\ \A j \in 1..Len(L) : L[j] = <<"note">>
  BY DEF BackgroundStep, ShowsPlain
<1>4. /\ Extends(b, a, L, c) /\ Loses(lost', lost, b, a)
      /\ screen'.stream_line_open => b[Len(b)][1] = "hint"
  BY <1>2, <1>3, ShownExtends
<1>5. PICK k \in RunningEntries : \E f :
        Receives(f, es[k], NextLine) /\ fs = [es EXCEPT ![k] = f]
  BY DEF BackgroundStep
<1>6. PICK f : Receives(f, es[k], NextLine) /\ fs = [es EXCEPT ![k] = f]
  BY <1>5
<1>7. /\ Len(es) \in Nat /\ k \in 1..Len(es) /\ es[k] \in EntryType
      /\ es \in Seq(EntryType) /\ DOMAIN es = 1..Len(es)
  BY TheEntries DEF Types
<1>8. es[k].run = q /\ f \in EntryType
  BY <1>6 DEF Pipelines, RunningEntries, Receives
<1>9. /\ q \in Runs /\ \A r \in Runs : said[r] \in Nat /\ said[r] <= said[r]
      /\ said'[q] = s /\ \A r \in Runs : r # q => said'[r] = said[r]
      /\ \A r \in Runs : said'[r] \in Nat /\ said[r] <= said'[r]
  BY <1>1, SaidTyped
<1>10. TidyTop(a, said) /\ \A j \in 1..Len(es) : Tidy(a, said, es[j])
  BY DEF InOrder
<1>11. NextLine = <<"CommitLine", <<"line", q, said[q] + 1>>>>
  BY DEF NextLine
<1>12. fs \in Seq(EntryType) /\ Len(fs) = Len(es) /\ \A j \in 1..Len(es) : fs[j] = IF j = k THEN f ELSE es[j]
  <2> DEFINE g == [es EXCEPT ![k] = f]
  <2> HIDE DEF es
  <2>1. g \in Seq(EntryType) /\ Len(g) = Len(es) /\ \A j \in 1..Len(es) : g[j] = IF j = k THEN f ELSE es[j]
    BY <1>7, <1>8, ExceptSeq
  <2> QED  BY <1>6, <2>1
<1> HIDE DEF a, b, es, fs, q
<1>13. TidyTop(b, said) /\ \A e : Tidy(a, said, e) => Tidy(b, said, e)
  BY <1>3, <1>4, <1>9, <1>10, PlainKeepsOrder
<1>14. TidyTop(b, said') /\ \A e : Tidy(a, said, e) => Tidy(b, said', e)
  BY <1>3, <1>4, <1>9, <1>10, PlainKeepsOrder
<1>15. /\ Tidy(b, said', f) /\ \A r, n : Waits(es[k], r, n) => Waits(f, r, n)
       /\ Waits(f, q, said[q] + 1)
  <2>1. Tidy(b, said, es[k])
    BY <1>7, <1>10, <1>13
  <2>2. /\ said[q] \in Nat /\ said'[q] = said[q] + 1 /\ q \in Runs /\ q = es[k].run
        /\ \A r \in Runs : r # q => said'[r] = said[r]
    BY <1>8, <1>9
  <2>3. TidyTop(b, said) /\ es[k] \in EntryType /\ Receives(f, es[k], NextLine)
    BY <1>6, <1>7, <1>13
  <2>4. NextFor(said, said', es[k], NextLine)
    BY <1>11, <2>2, <2>3 DEF NextFor
  <2>5. Grew(b, said, said', es[k], f)
    BY <2>1, <2>3, <2>4, EntryGrows, Zenon
  <2> QED  BY <1>8, <2>5 DEF Grew
<1>16. \A j \in 1..Len(fs) : Tidy(b, said', fs[j])
  BY <1>10, <1>12, <1>14, <1>15
<1>17. ASSUME NEW r \in Runs, NEW n \in 1..said'[r] PROVE Told(b, lost', fs, r, n)
  <2>1. CASE r = q /\ n = s
    <3>1. k \in 1..Len(fs) /\ fs[k] = f
      BY <1>7, <1>12
    <3> QED  BY <1>15, <2>1, <3>1 DEF Told
  <2>2. CASE ~ (r = q /\ n = s)
    <3>1. n \in 1..said[r]
      <4>1. said[r] \in Nat /\ said'[r] = IF r = q THEN said[r] + 1 ELSE said[r]
        BY <1>9
      <4> QED  BY <2>2, <4>1
    <3>2. Told(a, lost, es, r, n)
      BY <3>1 DEF InOrder, a, es
    <3>3. \A j \in 1..Len(es) : Waits(es[j], r, n) => Waits(fs[j], r, n) /\ j \in 1..Len(fs)
      BY <1>12, <1>15
    <3> QED  BY <1>4, <3>2, <3>3, ToldStays
  <2> QED  BY <2>1, <2>2
<1> QED  BY <1>4, <1>14, <1>16, <1>17, OrderFollows DEF b, fs

\* The lines L are what an entry holds, in its order, and notes.
Replays(p, L, e) ==
  /\ \A j \in 1..Len(L) :
       (p[j] \in 1..Len(e.buffered) /\ L[j] = LineOf(e.buffered[p[j]])) \/ L[j] = <<"note">>
  /\ \A i, j \in 1..Len(L) : i < j => p[i] < p[j]
  /\ \A i \in 1..Len(e.buffered) :
       e.buffered[i] \in Commit => \E j \in 1..Len(L) : L[j] = LineOf(e.buffered[i])

LEMMA SelectedLines ==
  ASSUME ConstantsOK, NEW e \in EntryType, NEW m \in Shows1 \ Commit, NEW p, NEW L,
         Selects(p, L, e.buffered \o <<Note, m>>, Len(e.buffered) + 2), L \in Seq(LineType)
  PROVE  Replays(p, L, e)
<1> DEFINE x == e.buffered
           y == <<Note, m>>
           z == x \o y
           n == Len(x)
<1>1. x \in Seq(Commit \cup {Flush}) /\ n \in Nat
  BY LenProperties DEF EntryType
<1>2. \A i \in 1..n : x[i] \in Shows1
  <2>1. Commit \cup {Flush} \in SUBSET Shows1
    BY DEF Shows1, MutationType, Commit, Streamed, Flush
  <2> QED  BY <1>1, <2>1, ElementOfSeq
<1>3. x \in Seq(Shows1)
  <2>1. x = [i \in 1..n |-> x[i]]
    BY <1>1, LenProperties
  <2> HIDE DEF x, n
  <2>2. [i \in 1..n |-> x[i]] \in Seq(Shows1)
    BY <1>1, <1>2
  <2> QED  BY <2>1, <2>2
<1>4. y \in Seq(Shows1) /\ Len(y) = 2 /\ y[1] = Note /\ y[2] = m
  <2>1. Note \in Shows1
    BY DEF Note, Shows1, MutationType, Commit, Streamed, LineType
  <2> HIDE DEF Shows1
  <2> QED  BY <2>1
<1> HIDE DEF x, y
<1>5. Concat(x \o y, x, y, Shows1)
  BY <1>3, <1>4, Concatenated
<1>6. /\ \A i \in 1..n : z[i] = x[i]
      /\ z[n + 1] = Note /\ z[n + 2] = m
  BY <1>4, <1>5 DEF Concat
<1>7. Selects(p, L, z, n + 2) /\ Len(L) \in Nat
  BY LenProperties DEF x, y
<1> HIDE DEF z, n
<1>8. /\ \A j \in 1..Len(L) : p[j] \in 1..(n + 2)
      /\ \A i, j \in 1..Len(L) : i < j => p[i] < p[j]
      /\ \A j \in 1..Len(L) : z[p[j]] \in Commit /\ L[j] = z[p[j]][2]
      /\ \A i \in 1..(n + 2) : z[i] \in Commit => \E j \in 1..Len(L) : p[j] = i
  BY <1>7 DEF Selects
<1>9. ASSUME NEW j \in 1..Len(L)
      PROVE  (p[j] \in 1..n /\ L[j] = LineOf(x[p[j]])) \/ L[j] = <<"note">>
  <2>1. p[j] \in 1..n \/ p[j] = n + 1 \/ p[j] = n + 2
    BY <1>1, <1>8
  <2>2. CASE p[j] \in 1..n
    <3>1. x[p[j]] \in Commit /\ L[j] = x[p[j]][2]
      BY <1>6, <1>8, <2>2
    <3> QED  BY <2>2, <3>1, LinesCommitted
  <2>3. CASE p[j] = n + 1
    <3>1. L[j] = Note[2]
      BY <1>6, <1>8, <2>3
    <3> QED  BY <3>1 DEF Note
  <2>4. CASE p[j] = n + 2
    BY <1>6, <1>8, <2>4
  <2> QED  BY <2>1, <2>2, <2>3, <2>4
<1>10. ASSUME NEW i \in 1..n, x[i] \in Commit PROVE \E j \in 1..Len(L) : L[j] = LineOf(x[i])
  <2>1. i \in 1..(n + 2)
    BY <1>1
  <2>2. PICK j \in 1..Len(L) : p[j] = i
    BY <1>6, <1>8, <1>10, <2>1
  <2>3. L[j] = x[i][2]
    BY <1>6, <1>8, <2>2
  <2> QED  BY <1>10, <2>3, LinesCommitted
<1> QED  BY <1>8, <1>9, <1>10 DEF x, n, Replays


\* What waited in an entry follows in the transcript when the entry is taken back.
LEMMA ReplayKeepsOrder ==
  ASSUME ConstantsOK, NEW b, NEW a, NEW L, NEW c, Extends(b, a, L, c), NEW u, TidyTop(a, u),
         \A r \in Runs : u[r] \in Nat, NEW e \in EntryType, Tidy(a, u, e), NEW p, Replays(p, L, e)
  PROVE  /\ TidyTop(b, u)
         /\ \A f \in EntryType : f.run # e.run /\ Tidy(a, u, f) => Tidy(b, u, f)
<1> DEFINE x == e.buffered
           n == Len(x)
<1>1. \A r, j : j \in 1..Len(L) /\ IsOf(r, L[j]) =>
        r = e.run /\ p[j] \in 1..n /\ L[j] = LineOf(x[p[j]])
  <2> SUFFICES ASSUME NEW r, NEW j \in 1..Len(L), IsOf(r, L[j])
               PROVE  r = e.run /\ p[j] \in 1..n /\ L[j] = LineOf(x[p[j]])
    OBVIOUS
  <2>1. L[j] # <<"note">>
    BY DEF IsOf
  <2>2. p[j] \in 1..n /\ L[j] = LineOf(x[p[j]])
    BY <2>1 DEF Replays
  <2> QED  BY <2>2, LinesOfEntry
<1>2. \A r \in Runs : /\ \A j \in 1..n : Numbered(u, r, LineOf(x[j]))
                      /\ \A i, j \in 1..n : i < j => Precedes(r, LineOf(x[i]), LineOf(x[j]))
                      /\ \A i \in 1..Len(a), j \in 1..n : Precedes(r, a[i], LineOf(x[j]))
  BY DEF Tidy
<1> HIDE DEF x, n
<1>3. \A r \in Runs : u[r] \in Nat /\ u[r] <= u[r]
  OBVIOUS
<1>4. \A r \in Runs : \A j \in 1..Len(L) : Numbered(u, r, L[j])
  <2> SUFFICES ASSUME NEW r \in Runs, NEW j \in 1..Len(L), IsOf(r, L[j])
               PROVE  L[j][3] \in 1..u[r]
    BY DEF Numbered
  <2>1. p[j] \in 1..n /\ L[j] = LineOf(x[p[j]])
    BY <1>1
  <2>2. Numbered(u, r, LineOf(x[p[j]]))
    BY <1>2, <2>1
  <2> QED  BY <2>1, <2>2 DEF Numbered
<1>5. \A r \in Runs : \A i, j \in 1..Len(L) : i < j => Precedes(r, L[i], L[j])
  <2> SUFFICES ASSUME NEW r \in Runs, NEW i \in 1..Len(L), NEW j \in 1..Len(L), i < j,
                      IsOf(r, L[i]), IsOf(r, L[j])
               PROVE  L[i][3] < L[j][3]
    BY DEF Precedes
  <2>1. /\ p[i] \in 1..n /\ L[i] = LineOf(x[p[i]])
        /\ p[j] \in 1..n /\ L[j] = LineOf(x[p[j]])
    BY <1>1
  <2>2. p[i] < p[j]
    BY DEF Replays
  <2>3. Precedes(r, LineOf(x[p[i]]), LineOf(x[p[j]]))
    BY <1>2, <2>1, <2>2
  <2> QED  BY <2>1, <2>3 DEF Precedes
<1>6. \A r \in Runs : \A i \in 1..Len(a), j \in 1..Len(L) : Precedes(r, a[i], L[j])
  <2> SUFFICES ASSUME NEW r \in Runs, NEW i \in 1..Len(a), NEW j \in 1..Len(L),
                      IsOf(r, a[i]), IsOf(r, L[j])
               PROVE  a[i][3] < L[j][3]
    BY DEF Precedes
  <2>1. p[j] \in 1..n /\ L[j] = LineOf(x[p[j]])
    BY <1>1
  <2>2. Precedes(r, a[i], LineOf(x[p[j]]))
    BY <1>2, <2>1
  <2> QED  BY <2>1, <2>2 DEF Precedes
<1>7. TidyTop(b, u)
  BY <1>3, <1>4, <1>5, <1>6, TopStaysTidy
<1>8. ASSUME NEW f \in EntryType, f.run # e.run, Tidy(a, u, f) PROVE Tidy(b, u, f)
  <2>1. \A r \in Runs : \A i \in 1..Len(L), j \in 1..Len(f.buffered) :
          Precedes(r, L[i], LineOf(f.buffered[j]))
    BY <1>1, <1>8, LinesOfEntry DEF Precedes
  <2> QED  BY <1>3, <1>8, <2>1, EntryStaysTidy
<1> QED  BY <1>7, <1>8

LEMMA TakenBackInOrder ==
  ASSUME ConstantsOK, Types, Pipelines, ~ quit, InOrder,
         NEW k \in DOMAIN background_entries, TakenBack(k)
  PROVE  InOrder'
<1> DEFINE a == Transcript(screen)
           b == Transcript(screen')
           es == background_entries
           fs == background_entries'
           l == Len(es)
           e == es[k]
<1>1. k \in 1..l /\ said' = said /\ fs = RemoveAt(es, k)
  BY DEF TakenBack
<1>2. screen \in Live /\ (screen.stream_line_open => a[Len(a)][1] = "hint")
  BY DEF Types, Live, InOrder
<1>3. PICK L, c, p, m : /\ Shown2(L, c) /\ m \in Shows1 \ Commit
                        /\ Selects(p, L, e.buffered \o <<Note, m>>, Len(e.buffered) + 2)
  BY DEF TakenBack
<1>4. /\ Extends(b, a, L, c) /\ Loses(lost', lost, b, a)
      /\ screen'.stream_line_open => b[Len(b)][1] = "hint"
  BY <1>2, <1>3, ShownExtends
<1>5. /\ l \in Nat /\ es \in Seq(EntryType) /\ DOMAIN es = 1..l
      /\ \A j \in 1..l : es[j] \in EntryType
  BY TheEntries DEF Types
<1>6. \A j \in 1..l : es[j].run = e.run => j = k
  BY <1>1, <1>5 DEF Pipelines
<1>7. TidyTop(a, said) /\ \A j \in 1..l : Tidy(a, said, es[j])
  BY DEF InOrder
<1>8. \A r \in Runs : said[r] \in Nat
  BY SaidTyped
<1>9. L \in Seq(LineType)
  BY <1>3 DEF Shown2, Grown
<1>a. e \in EntryType /\ Tidy(a, said, e)
  BY <1>1, <1>5, <1>7
<1>10. Replays(p, L, e)
  <2>1. Selects(p, L, e.buffered \o <<Note, m>>, Len(e.buffered) + 2) /\ m \in Shows1 \ Commit
    BY <1>3
  <2> HIDE DEF e
  <2> QED  BY <1>9, <1>a, <2>1, SelectedLines, Zenon
<1> HIDE DEF a, b, e
<1>11. /\ TidyTop(b, said)
       /\ \A f \in EntryType : f.run # e.run /\ Tidy(a, said, f) => Tidy(b, said, f)
  BY <1>4, <1>7, <1>8, <1>10, <1>a, ReplayKeepsOrder
<1> HIDE DEF es
<1>12. /\ RemoveAt(es, k) \in Seq(EntryType) /\ Len(RemoveAt(es, k)) = l - 1
       /\ \A i \in 1..(l - 1) : RemoveAt(es, k)[i] = IF i < k THEN es[i] ELSE es[i + 1]
  BY <1>1, <1>5, Removed
<1> HIDE DEF fs, l
<1>13. /\ \A i \in 1..Len(fs) : \E j \in 1..l : j # k /\ fs[i] = es[j]
       /\ \A j \in 1..l : j # k => \E i \in 1..Len(fs) : fs[i] = es[j]
  <2>0. Len(fs) = l - 1 /\ \A i \in 1..(l - 1) : fs[i] = IF i < k THEN es[i] ELSE es[i + 1]
    BY <1>1, <1>12
  <2>1. ASSUME NEW i \in 1..(l - 1) PROVE \E j \in 1..l : j # k /\ fs[i] = es[j]
    <3>1. CASE i < k
      <4>1. i \in 1..l /\ i # k
        BY <1>1, <1>5, <3>1
      <4> QED  BY <2>0, <3>1, <4>1
    <3>2. CASE ~ (i < k)
      <4>1. i + 1 \in 1..l /\ i + 1 # k
        BY <1>1, <1>5, <3>2
      <4> QED  BY <2>0, <3>2, <4>1
    <3> QED  BY <3>1, <3>2
  <2>2. ASSUME NEW j \in 1..l, j # k PROVE \E i \in 1..(l - 1) : fs[i] = es[j]
    <3>1. CASE j < k
      <4>1. j \in 1..(l - 1)
        BY <1>1, <1>5, <3>1
      <4> QED  BY <2>0, <3>1, <4>1
    <3>2. CASE ~ (j < k)
      <4> DEFINE i == j - 1
      <4>1. i \in 1..(l - 1) /\ ~ (i < k) /\ i + 1 = j
        BY <1>1, <1>5, <2>2, <3>2
      <4> HIDE DEF i
      <4> QED  BY <2>0, <4>1
    <3> QED  BY <3>1, <3>2
  <2> QED  BY <2>0, <2>1, <2>2
<1>14. \A i \in 1..Len(fs) : Tidy(b, said, fs[i])
  <2> SUFFICES ASSUME NEW i \in 1..Len(fs) PROVE Tidy(b, said, fs[i])
    OBVIOUS
  <2>1. PICK j \in 1..l : j # k /\ fs[i] = es[j]
    BY <1>13
  <2>2. es[j] \in EntryType /\ es[j].run # e.run /\ Tidy(a, said, es[j])
    BY <1>5, <1>6, <1>7, <2>1
  <2> QED  BY <1>11, <2>1, <2>2
<1>15. ASSUME NEW r \in Runs, NEW n \in 1..said[r] PROVE Told(b, lost', fs, r, n)
  <2>1. Told(a, lost, es, r, n)
    BY DEF InOrder, a, es
  <2>2. ASSUME NEW j \in 1..l, Waits(es[j], r, n)
        PROVE  (\E i \in 1..Len(b) : Covers(b[i], r, n)) \/ \E i \in 1..Len(fs) : Waits(fs[i], r, n)
    <3>1. CASE j # k
      <4>1. PICK i \in 1..Len(fs) : fs[i] = es[j]
        BY <1>13, <3>1
      <4> QED  BY <2>2, <4>1
    <3>2. CASE j = k
      <4>1. PICK i \in 1..Len(e.buffered) : Covers(LineOf(e.buffered[i]), r, n)
        BY <2>2, <3>2 DEF Waits, e
      <4>2. e.buffered[i] \in Commit
        BY <1>a, <4>1, LinesOfEntry
      <4>3. PICK q \in 1..Len(L) : L[q] = LineOf(e.buffered[i])
        BY <1>10, <4>2 DEF Replays
      <4>4. c + q \in 1..Len(b) /\ b[c + q] = L[q]
        BY <1>4 DEF Extends
      <4> QED  BY <4>1, <4>3, <4>4
    <3> QED  BY <3>1, <3>2
  <2> QED  BY <1>4, <2>1, <2>2, ToldStays DEF l
<1> QED  BY <1>1, <1>4, <1>11, <1>14, <1>15, OrderFollows DEF b, fs


LEMMA OrderAtFirst ==
  ASSUME ConstantsOK, Init
  PROVE  InOrder
<1> DEFINE a == Transcript(screen)
<1>1. PICK bar \in Bars :
        screen = init_prompt([r \in 0..(Height - 1) |-> Blank], build_prompt(bar))
  BY DEF Init
<1>2. build_prompt(bar) \in BarType
  BY PromptBuilt DEF ConstantsOK
<1>3. /\ screen \in ScreenType /\ Len(screen.history) = 0 /\ ~ screen.stream_line_open
      /\ \A r \in 0..(prompt_top_row - 1) : screen.rows[r] = Blank
  <2> DEFINE p == build_prompt(bar)
             s == init_prompt([r \in 0..(Height - 1) |-> Blank], p)
  <2>1. screen = s /\ p \in BarType
    BY <1>1, <1>2
  <2> HIDE DEF p
  <2>2. /\ s \in ScreenType /\ s.history = <<>> /\ ~ s.stream_line_open
        /\ \A r \in 0..(prompt_top_row - 1) : s.rows[r] = Blank
    BY <2>1, FirstScreen
  <2> HIDE DEF s
  <2>3. screen.history = <<>>
    BY <2>1, <2>2
  <2>4. Len(screen.history) = 0
    BY <2>3
  <2> QED  BY <2>1, <2>2, <2>4
<1>4. /\ said = [r \in Runs |-> 0] /\ Len(background_entries) = 0
  BY DEF Init
<1>5. \A i \in 1..Len(a) : a[i] = Blank
  <2>1. /\ Len(a) = prompt_top_row
        /\ \A k \in 1..prompt_top_row : a[Len(screen.history) + k] = screen.rows[k - 1]
    <3>1. /\ Len(a) = Len(screen.history) + prompt_top_row
          /\ \A k \in 1..prompt_top_row : a[Len(screen.history) + k] = screen.rows[k - 1]
      BY <1>3, TranscriptIs
    <3>2. Len(a) = prompt_top_row
      <4> HIDE DEF a
      <4> QED  BY <1>3, <3>1, TopRow
    <3> QED  BY <3>1, <3>2
  <2> SUFFICES ASSUME NEW i \in 1..Len(a) PROVE a[i] = Blank
    OBVIOUS
  <2> HIDE DEF a
  <2>2. i \in 1..prompt_top_row /\ i - 1 \in 0..(prompt_top_row - 1) /\ Len(screen.history) + i = i
    BY <1>3, <2>1, TopRow
  <2>3. a[Len(screen.history) + i] = screen.rows[i - 1]
    BY <2>1, <2>2
  <2> QED  BY <1>3, <2>2, <2>3
<1>6. \A r : \A i \in 1..Len(a) : ~ IsOf(r, a[i])
  BY <1>5, KindsOfLines
<1> HIDE DEF a
<1>7. TidyTop(a, said)
  BY <1>6 DEF TidyTop, Numbered, Precedes
<1>8. \A k \in 1..Len(background_entries) : FALSE
  BY <1>4
<1>9. \A r \in Runs : \A n \in 1..said[r] : FALSE
  BY <1>4
<1> QED  BY <1>3, <1>7, <1>8, <1>9 DEF InOrder, a

LEMMA OrderKept ==
  ASSUME ConstantsOK, Types, Pipelines, InOrder, Next
  PROVE  InOrder'
<1>1. ~ quit /\ (Quit \/ Effects)
  BY EveryStep
<1>2. ASSUME Quit PROVE InOrder'
  <2>1. Transcript(screen') = Transcript(screen) /\ quit'
    BY <1>2, ClearedForExit DEF Quit, Types, Keeps
  <2>2. said' = said /\ lost' = lost /\ background_entries' = background_entries
    BY <1>2 DEF Quit, pipelines
  <2>3. TidyTop(Transcript(screen'), said')
    BY <2>1, <2>2 DEF InOrder
  <2>4. \A k \in 1..Len(background_entries') : Tidy(Transcript(screen'), said', background_entries'[k])
    BY <2>1, <2>2 DEF InOrder
  <2>5. \A r \in Runs : \A n \in 1..said'[r] :
          Told(Transcript(screen'), lost', background_entries', r, n)
    BY <2>1, <2>2 DEF InOrder
  <2> QED  BY <2>1, <2>3, <2>4, <2>5 DEF InOrder
<1>3. ASSUME Effects PROVE InOrder'
  BY <1>1, <1>3, PlainInOrder, ScreenInOrder, BackgroundInOrder, TakenBackInOrder DEF Effects
<1> QED  BY <1>1, <1>2, <1>3

LEMMA OrderUnchanged ==
  ASSUME InOrder, UNCHANGED vars
  PROVE  InOrder'
<1>1. /\ screen' = screen /\ quit' = quit /\ said' = said /\ lost' = lost
      /\ background_entries' = background_entries
  BY DEF vars, pipelines
<1> QED  BY <1>1 DEF InOrder

\* Where the elements of a, and of each of several sequences, stand in the list of all.
Stands(off, a, seqs, all) ==
  /\ Len(a) \in Nat /\ DOMAIN all \in SUBSET Nat
  /\ \A i \in 1..Len(a) : i \in DOMAIN all /\ all[i] = a[i]
  /\ \A k \in 1..Len(seqs) :
       /\ off[k - 1] \in Nat
       /\ \A j \in 1..Len(seqs[k]) : /\ Len(a) + off[k - 1] + j \in DOMAIN all
                                     /\ all[Len(a) + off[k - 1] + j] = seqs[k][j]
  /\ \A i \in DOMAIN all :
       \/ i \in 1..Len(a)
       \/ \E k \in 1..Len(seqs) : \E j \in 1..Len(seqs[k]) : i = Len(a) + off[k - 1] + j

LEMMA PlacesOfAll ==
  ASSUME NEW S, NEW a \in Seq(S), NEW seqs \in Seq(Seq(S))
  PROVE  \E off : Stands(off, a, seqs, a \o FlattenSeq(seqs))
<1> DEFINE w == FlattenSeq(seqs)
           all == a \o w
           n == Len(a)
           l == Len(seqs)
           m == Len(w)
<1>1. /\ n \in Nat /\ l \in Nat /\ \A k \in 1..l : seqs[k] \in Seq(S) /\ Len(seqs[k]) \in Nat
  BY LenProperties, ElementOfSeq
<1>2. w \in Seq(S) /\ \E off : Laid(off, w, seqs)
  BY Flattened
<1>3. PICK off : Laid(off, w, seqs)
  BY <1>2
<1> HIDE DEF w, all
<1>4. m \in Nat
  BY <1>2, LenProperties
<1>5. /\ off \in [0..l -> Nat] /\ off[l] = m
      /\ \A i, k \in 0..l : i <= k => off[i] <= off[k]
      /\ \A k \in 1..l : /\ off[k] = off[k - 1] + Len(seqs[k])
                         /\ \A j \in 1..Len(seqs[k]) : w[off[k - 1] + j] = seqs[k][j]
  BY <1>3 DEF Laid
<1>6. \A i \in 1..m : \E k \in 1..l : \E j \in 1..Len(seqs[k]) : i = off[k - 1] + j
  <2> SUFFICES ASSUME NEW i \in 1..m
               PROVE  \E k \in 1..l : \E j \in 1..Len(seqs[k]) : i = off[k - 1] + j
    OBVIOUS
  <2>1. Found(i, off, seqs)
    BY <1>2, <1>3, LaidOut, Zenon
  <2> QED  BY <2>1 DEF Found
<1>7. Concat(a \o w, a, w, S)
  BY <1>2, Concatenated
<1>8. /\ all \in Seq(S) /\ Len(all) = n + m
      /\ \A i \in 1..n : all[i] = a[i]
      /\ \A i \in 1..m : all[n + i] = w[i]
  BY <1>7 DEF Concat, all
<1>9. DOMAIN all = 1..(n + m)
  BY <1>8, LenProperties
<1> HIDE DEF n, l, m
<1>10. ASSUME NEW k \in 1..l
       PROVE  /\ off[k - 1] \in Nat
              /\ \A j \in 1..Len(seqs[k]) : /\ n + off[k - 1] + j \in DOMAIN all
                                            /\ all[n + off[k - 1] + j] = seqs[k][j]
  <2> DEFINE o == off[k - 1]
             q == off[k]
             z == Len(seqs[k])
  <2>1. k - 1 \in 0..l /\ k \in 0..l /\ l \in 0..l /\ k <= l
    BY <1>1
  <2>2. o \in Nat /\ q \in Nat /\ q <= m /\ q = o + z /\ z \in Nat
    BY <1>1, <1>5, <2>1
  <2>3. \A j \in 1..z : w[o + j] = seqs[k][j]
    BY <1>5
  <2> HIDE DEF o, q, z
  <2>4. ASSUME NEW j \in 1..z
        PROVE  n + o + j \in DOMAIN all /\ all[n + o + j] = seqs[k][j]
    <3> DEFINE i == o + j
    <3>1. i \in 1..m /\ n + o + j = n + i /\ n + i \in 1..(n + m)
      BY <1>1, <1>4, <2>2
    <3>2. w[i] = seqs[k][j]
      BY <2>3
    <3> HIDE DEF i
    <3> QED  BY <1>8, <1>9, <3>1, <3>2
  <2> QED  BY <2>2, <2>4 DEF o, z
<1>11. ASSUME NEW i \in DOMAIN all, i \notin 1..n
       PROVE  \E k \in 1..l : \E j \in 1..Len(seqs[k]) : i = n + off[k - 1] + j
  <2> DEFINE h == i - n
  <2>1. h \in 1..m /\ i = n + h
    BY <1>1, <1>4, <1>9, <1>11
  <2> HIDE DEF h
  <2>2. PICK k \in 1..l : \E j \in 1..Len(seqs[k]) : h = off[k - 1] + j
    BY <1>6, <2>1
  <2>3. PICK j \in 1..Len(seqs[k]) : h = off[k - 1] + j
    BY <2>2
  <2> DEFINE o == off[k - 1]
             z == Len(seqs[k])
  <2>4. o \in Nat /\ z \in Nat /\ j \in 1..z /\ h = o + j
    BY <1>1, <1>10, <2>3
  <2> HIDE DEF o, z
  <2>5. i = n + o + j
    BY <1>1, <2>1, <2>4
  <2> QED  BY <2>5 DEF o
<1>12. DOMAIN all \in SUBSET Nat /\ \A i \in 1..n : i \in DOMAIN all
  BY <1>1, <1>4, <1>9
<1>13. Stands(off, a, seqs, all)
  <2>1. n = Len(a) /\ l = Len(seqs)
    BY DEF n, l
  <2> QED  BY <1>1, <1>8, <1>10, <1>11, <1>12, <2>1 DEF Stands
<1> QED  BY <1>13 DEF all, w

\* Of an entry, the lines that it holds.
LinesOf(e) == [j \in 1..Len(e.buffered) |-> LineOf(e.buffered[j])]

LEMMA WaitingIs ==
  ASSUME ConstantsOK, Types, Pipelines
  PROVE  \E seqs \in Seq(Seq(LineType)) :
           /\ Waiting = FlattenSeq(seqs) /\ Len(seqs) = Len(background_entries)
           /\ \A k \in 1..Len(background_entries) :
                /\ Len(seqs[k]) = Len(background_entries[k].buffered)
                /\ \A j \in 1..Len(background_entries[k].buffered) :
                     seqs[k][j] = LineOf(background_entries[k].buffered[j])
<1> DEFINE es == background_entries
           seqs == [k \in 1..Len(es) |-> LinesOf(es[k])]
<1>1. /\ Len(es) \in Nat /\ DOMAIN es = 1..Len(es) /\ \A k \in 1..Len(es) : es[k] \in EntryType
  BY TheEntries
<1>2. ASSUME NEW e \in EntryType
      PROVE  /\ Len(e.buffered) \in Nat /\ DOMAIN e.buffered = 1..Len(e.buffered)
             /\ \A j \in 1..Len(e.buffered) : LineOf(e.buffered[j]) \in LineType
  <2>1. e.buffered \in Seq(Commit \cup {Flush})
    BY DEF EntryType
  <2> DEFINE x == e.buffered
  <2> HIDE DEF x
  <2>2. x \in Seq(Commit \cup {Flush})
    BY <2>1 DEF x
  <2>3. Len(x) \in Nat /\ DOMAIN x = 1..Len(x) /\ \A j \in 1..Len(x) : x[j] \in Commit \cup {Flush}
    BY <2>2, LenProperties, ElementOfSeq
  <2>4. \A m \in Commit : LineOf(m) \in LineType
    BY LinesCommitted DEF Commit
  <2>5. LineOf(Flush) \in LineType
    BY LinesCommitted DEF LineType
  <2> QED  BY <2>3, <2>4, <2>5 DEF x
<1>3. Waiting = FlattenSeq(seqs)
  <2>1. Waiting = FlattenSeq([k \in DOMAIN es |->
                    [j \in DOMAIN es[k].buffered |-> LineOf(es[k].buffered[j])]])
    BY DEF Waiting, LineOf
  <2>2. \A k \in DOMAIN es : [j \in DOMAIN es[k].buffered |-> LineOf(es[k].buffered[j])] = LinesOf(es[k])
    BY <1>1, <1>2 DEF LinesOf
  <2>3. [k \in DOMAIN es |-> [j \in DOMAIN es[k].buffered |-> LineOf(es[k].buffered[j])]] = seqs
    BY <1>1, <2>2
  <2> QED  BY <2>1, <2>3
<1>4. ASSUME NEW e \in EntryType
      PROVE  /\ LinesOf(e) \in Seq(LineType) /\ Len(LinesOf(e)) = Len(e.buffered)
             /\ \A j \in 1..Len(e.buffered) : LinesOf(e)[j] = LineOf(e.buffered[j])
  <2> DEFINE h == Len(e.buffered)
             f(j) == LineOf(e.buffered[j])
  <2>1. h \in Nat /\ \A j \in 1..h : f(j) \in LineType
    BY <1>2
  <2>2. LinesOf(e) = [j \in 1..h |-> f(j)]
    BY DEF LinesOf
  <2> HIDE DEF h, f
  <2>3. LinesOf(e) \in Seq(LineType) /\ Len(LinesOf(e)) = h /\ \A j \in 1..h : LinesOf(e)[j] = f(j)
    BY <2>1, <2>2
  <2> QED  BY <2>3 DEF h, f
<1>5. seqs \in Seq(Seq(LineType)) /\ Len(seqs) = Len(es) /\ \A k \in 1..Len(es) : seqs[k] = LinesOf(es[k])
  <2>1. \A k \in 1..Len(es) : LinesOf(es[k]) \in Seq(LineType)
    BY <1>1, <1>4
  <2> HIDE DEF es
  <2> QED  BY <1>1, <2>1
<1> HIDE DEF seqs
<1>6. \A k \in 1..Len(es) : /\ Len(seqs[k]) = Len(es[k].buffered)
                            /\ \A j \in 1..Len(es[k].buffered) : seqs[k][j] = LineOf(es[k].buffered[j])
  BY <1>1, <1>4, <1>5
<1> QED  BY <1>3, <1>5, <1>6

\* Of two lines of a pipeline that are on the screen or wait, the first has the lower number.
LEMMA AllPrecede ==
  ASSUME ConstantsOK, Types, Pipelines, InOrder,
         NEW seqs, NEW off, NEW all, Stands(off, Transcript(screen), seqs, all),
         Len(seqs) = Len(background_entries),
         \A k \in 1..Len(background_entries) :
           /\ Len(seqs[k]) = Len(background_entries[k].buffered)
           /\ \A j \in 1..Len(background_entries[k].buffered) :
                seqs[k][j] = LineOf(background_entries[k].buffered[j]),
         NEW r \in Runs, NEW i \in DOMAIN all, NEW j \in DOMAIN all,
         i < j, IsOf(r, all[i]), IsOf(r, all[j])
  PROVE  all[i][3] < all[j][3]
<1> DEFINE a == Transcript(screen)
           n == Len(a)
           es == background_entries
           In(x, k, y) == /\ k \in 1..Len(es) /\ y \in 1..Len(es[k].buffered)
                          /\ off[k - 1] \in Nat /\ x = n + off[k - 1] + y
                          /\ all[x] = LineOf(es[k].buffered[y])
<1>1. n \in Nat /\ i \in Nat /\ j \in Nat /\ \A x \in 1..n : all[x] = a[x]
  BY DEF Stands
<1>2. \A x \in DOMAIN all : x \in 1..n \/ \E k, y : In(x, k, y)
  <2> SUFFICES ASSUME NEW x \in DOMAIN all, x \notin 1..n PROVE \E k, y : In(x, k, y)
    OBVIOUS
  <2>1. PICK k \in 1..Len(seqs) : \E y \in 1..Len(seqs[k]) : x = n + off[k - 1] + y
    BY DEF Stands
  <2>2. PICK y \in 1..Len(seqs[k]) : x = n + off[k - 1] + y
    BY <2>1
  <2>3. k \in 1..Len(es) /\ y \in 1..Len(es[k].buffered)
    BY <2>1, <2>2
  <2>4. off[k - 1] \in Nat /\ all[n + off[k - 1] + y] = seqs[k][y]
    BY <2>1, <2>2 DEF Stands
  <2>5. seqs[k][y] = LineOf(es[k].buffered[y])
    BY <2>3
  <2>6. all[x] = LineOf(es[k].buffered[y])
    BY <2>2, <2>4, <2>5
  <2>7. In(x, k, y)
    BY <2>2, <2>3, <2>4, <2>6
  <2> QED  BY <2>7
<1>3. /\ \A k \in 1..Len(es) : es[k] \in EntryType
      /\ DOMAIN es = 1..Len(es)
  BY TheEntries
<1>4. \A x, k, y : In(x, k, y) => k \in 1..Len(es) /\ Tidy(a, said, es[k])
  BY DEF InOrder
<1>5. TidyTop(a, said)
  BY DEF InOrder
<1>6. CASE i \in 1..n /\ j \in 1..n
  <2>1. Precedes(r, a[i], a[j])
    BY <1>5, <1>6 DEF TidyTop
  <2> QED  BY <1>1, <1>6, <2>1 DEF Precedes
<1>7. ASSUME i \in 1..n, NEW k, NEW y, In(j, k, y) PROVE all[i][3] < all[j][3]
  <2>1. Precedes(r, a[i], LineOf(es[k].buffered[y]))
    BY <1>4, <1>7 DEF Tidy
  <2>2. all[i] = a[i] /\ all[j] = LineOf(es[k].buffered[y])
    BY <1>1, <1>7
  <2> QED  BY <2>1, <2>2 DEF Precedes
<1>8. ASSUME NEW k, NEW y, In(i, k, y) PROVE j \notin 1..n
  <2>1. off[k - 1] \in Nat /\ y \in Nat /\ y >= 1 /\ i = n + off[k - 1] + y
    BY <1>8
  <2> QED  BY <1>1, <2>1
<1>9. ASSUME NEW k, NEW y, NEW l, NEW z, In(i, k, y), In(j, l, z) PROVE all[i][3] < all[j][3]
  <2>1. k \in 1..Len(es) /\ l \in 1..Len(es) /\ es[k] \in EntryType /\ es[l] \in EntryType
    BY <1>3, <1>9
  <2>2. /\ y \in 1..Len(es[k].buffered) /\ all[i] = LineOf(es[k].buffered[y])
        /\ z \in 1..Len(es[l].buffered) /\ all[j] = LineOf(es[l].buffered[z])
    BY <1>9
  <2>3. r = es[k].run
    BY <2>1, <2>2, LinesOfEntry
  <2>4. r = es[l].run
    BY <2>1, <2>2, LinesOfEntry
  <2>5. k = l
    BY <1>3, <2>1, <2>3, <2>4 DEF Pipelines
  <2>6. /\ off[k - 1] \in Nat /\ i = n + off[k - 1] + y /\ j = n + off[k - 1] + z
    BY <1>9, <2>5
  <2>7. y \in Int /\ z \in Int
    BY <2>2
  <2>8. y < z
    BY <1>1, <2>6, <2>7
  <2>9. Tidy(a, said, es[k])
    BY <1>4, <1>9
  <2>10. Precedes(r, LineOf(es[k].buffered[y]), LineOf(es[k].buffered[z]))
    BY <2>2, <2>5, <2>8, <2>9 DEF Tidy
  <2> QED  BY <2>2, <2>5, <2>10 DEF Precedes
<1> HIDE DEF n, In
<1> QED  BY <1>2, <1>6, <1>7, <1>8, <1>9

\* Every line that the pipeline r has said is on the screen or waits, or is known to be missing.
LEMMA AllTold ==
  ASSUME ConstantsOK, Types, InOrder,
         NEW seqs, NEW off, NEW all, Stands(off, Transcript(screen), seqs, all),
         Len(seqs) = Len(background_entries),
         \A k \in 1..Len(background_entries) :
           /\ Len(seqs[k]) = Len(background_entries[k].buffered)
           /\ \A j \in 1..Len(background_entries[k].buffered) :
                seqs[k][j] = LineOf(background_entries[k].buffered[j]),
         NEW r \in Runs, NEW n \in 1..said[r]
  PROVE  (\E i \in DOMAIN all : Covers(all[i], r, n)) \/ <<r, n>> \in lost
<1> DEFINE a == Transcript(screen)
           es == background_entries
<1>1. Told(a, lost, es, r, n)
  BY DEF InOrder
<1>2. ASSUME NEW i \in 1..Len(a), Covers(a[i], r, n)
      PROVE  \E x \in DOMAIN all : Covers(all[x], r, n)
  <2>1. i \in DOMAIN all /\ all[i] = a[i]
    BY DEF Stands
  <2> QED  BY <1>2, <2>1
<1>3. ASSUME NEW k \in 1..Len(es), Waits(es[k], r, n)
      PROVE  \E x \in DOMAIN all : Covers(all[x], r, n)
  <2>1. PICK y \in 1..Len(es[k].buffered) : Covers(LineOf(es[k].buffered[y]), r, n)
    BY <1>3 DEF Waits
  <2>2. k \in 1..Len(seqs) /\ y \in 1..Len(seqs[k]) /\ seqs[k][y] = LineOf(es[k].buffered[y])
    OBVIOUS
  <2>3. /\ Len(a) + off[k - 1] + y \in DOMAIN all
        /\ all[Len(a) + off[k - 1] + y] = seqs[k][y]
    BY <2>2 DEF Stands
  <2> QED  BY <2>1, <2>2, <2>3
<1> QED  BY <1>1, <1>2, <1>3 DEF Told

LEMMA OrderImplies ==
  ASSUME ConstantsOK, Types, Pipelines, InOrder
  PROVE  OutputInOrder
<1> DEFINE a == Transcript(screen)
           all == a \o Waiting
<1>1. a \in Seq(LineType)
  BY TranscriptIs DEF Types
<1>2. PICK seqs \in Seq(Seq(LineType)) :
        /\ Waiting = FlattenSeq(seqs) /\ Len(seqs) = Len(background_entries)
        /\ \A k \in 1..Len(background_entries) :
             /\ Len(seqs[k]) = Len(background_entries[k].buffered)
             /\ \A j \in 1..Len(background_entries[k].buffered) :
                  seqs[k][j] = LineOf(background_entries[k].buffered[j])
  BY WaitingIs
<1>3. \E off : Stands(off, a, seqs, a \o FlattenSeq(seqs))
  BY <1>1, <1>2, PlacesOfAll
<1>4. PICK off : Stands(off, a, seqs, all)
  BY <1>2, <1>3
<1> HIDE DEF all
<1>5. \A r \in Runs : \A i, j \in DOMAIN all :
        i < j /\ IsOf(r, all[i]) /\ IsOf(r, all[j]) => all[i][3] < all[j][3]
  BY <1>2, <1>4, AllPrecede
<1>6. \A r \in Runs : \A n \in 1..said[r] :
        (\E i \in DOMAIN all : Covers(all[i], r, n)) \/ <<r, n>> \in lost
  BY <1>2, <1>4, AllTold
<1>7. ASSUME NEW r \in Runs, NEW n \in 1..said[r]
      PROVE  \/ \E i \in {x \in DOMAIN all : IsOf(r, all[x])} : all[i][3] = n
             \/ <<r, n>> \in lost \/ <<"truncated", r>> \in Range(all)
  <2>1. CASE \E i \in DOMAIN all : Covers(all[i], r, n)
    <3>1. PICK i \in DOMAIN all : Covers(all[i], r, n)
      BY <2>1
    <3>2. (IsOf(r, all[i]) /\ all[i][3] = n) \/ all[i] = <<"truncated", r>>
      BY <3>1 DEF Covers
    <3>3. all[i] = <<"truncated", r>> => <<"truncated", r>> \in Range(all)
      BY DEF Range
    <3> QED  BY <3>2, <3>3
  <2> QED  BY <1>6, <2>1
<1> USE DEF all
<1> QED  BY <1>5, <1>7 DEF OutputInOrder

LEMMA OrderInductive ==
  ConstantsOK => (Spec => [](Inv /\ InOrder))
<1> SUFFICES ASSUME ConstantsOK PROVE Spec => [](Inv /\ InOrder)
  OBVIOUS
<1>1. Init => Inv /\ InOrder
  BY AtFirst, OrderAtFirst DEF Inv
<1>2. Inv /\ InOrder /\ [Next]_vars => (Inv /\ InOrder)'
  <2>1. Inv /\ [Next]_vars => Inv'
    BY TypesKept, PipelinesKept, UnchangedVars DEF Inv
  <2>2. Inv /\ InOrder /\ [Next]_vars => InOrder'
    BY OrderKept, OrderUnchanged DEF Inv
  <2> QED  BY <2>1, <2>2
<1> QED  BY <1>1, <1>2, PTL DEF Spec

\* What a pipeline said is shown, or waits to be shown, in the order in which it said it,
\* over any number of detachments and takings back (state.rs:1342, 1374), and a line that
\* is missing was taken by an open stream line or stands behind a notice of truncation.
THEOREM OutputIsInOrder == ConstantsOK => (Spec => []OutputInOrder)
<1> SUFFICES ASSUME ConstantsOK PROVE Spec => []OutputInOrder
  OBVIOUS
<1>1. Inv /\ InOrder => OutputInOrder
  BY OrderImplies DEF Inv
<1>2. Spec => [](Inv /\ InOrder)
  BY OrderInductive
<1> QED  BY <1>1, <1>2, PTL

=============================================================================
