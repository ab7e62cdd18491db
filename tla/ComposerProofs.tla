----------------------------- MODULE ComposerProofs -----------------------------
(***************************************************************************)
(* Proofs about Composer for every length of the text, every number of     *)
(* rows and every dropdown.                                                *)
(***************************************************************************)
EXTENDS Composer, FiniteSetTheorems, SequenceTheorems, TLAPS

-----------------------------------------------------------------------------
(* Numbers: the least and the greatest of a set, and induction over a set *)

LEMMA Least ==
  ASSUME NEW S \in SUBSET Nat, S # {}
  PROVE  Min(S) \in S /\ \A y \in S : Min(S) <= y
<1>1. \E x \in S : \A y \in S : ~ (<<y, x>> \in OpToRel(<, Nat))
  BY NatLessThanWellFounded, WFMin
<1>2. \E x \in S : \A y \in S : x <= y
  <2>1. PICK x \in S : \A y \in S : ~ (<<y, x>> \in OpToRel(<, Nat))
    BY <1>1
  <2>2. ASSUME NEW y \in S PROVE x <= y
    <3>1. SUFFICES ASSUME y < x PROVE FALSE
      OBVIOUS
    <3>2. <<y, x>> \in {ss \in Nat \X Nat : ss[1] < ss[2]}
      BY <3>1
    <3> QED  BY <2>1, <3>2 DEF OpToRel
  <2> QED  BY <2>2
<1> QED  BY <1>2 DEF Min

LEMMA Greatest ==
  ASSUME NEW n \in Nat, NEW S \in SUBSET (0..n), S # {}
  PROVE  Max(S) \in S /\ \A y \in S : y <= Max(S)
<1> DEFINE bounds == {m \in Nat : \A y \in S : y <= m}
<1>1. bounds \in SUBSET Nat /\ n \in bounds
  OBVIOUS
<1> DEFINE m == Min(bounds)
<1>2. m \in bounds /\ \A k \in bounds : m <= k
  BY <1>1, Least
<1>3. m \in S
  <2>1. SUFFICES ASSUME m \notin S PROVE FALSE
    OBVIOUS
  <2>2. \A y \in S : y < m /\ y \in Nat
    BY <1>2, <2>1
  <2>3. m \in Nat /\ m > 0
    <3>1. PICK y : y \in S
      OBVIOUS
    <3> QED  BY <1>2, <2>2, <3>1
  <2>4. m - 1 \in bounds
    BY <2>2, <2>3
  <2> QED  BY <1>2, <2>3, <2>4
<1>4. \E x \in S : \A y \in S : x >= y
  BY <1>2, <1>3
<1> QED  BY <1>4 DEF Max

LEMMA Climb ==
  ASSUME NEW n \in Nat, NEW P, 0 \in P, \A k \in 1..n : k - 1 \in P => k \in P
  PROVE  \A k \in 0..n : k \in P
<1> SUFFICES ASSUME NEW j \in 0..n, j \notin P PROVE FALSE
  OBVIOUS
<1> DEFINE S == {k \in 0..n : k \notin P}
<1>1. S \in SUBSET Nat /\ S # {}
  OBVIOUS
<1>2. Min(S) \in S /\ \A y \in S : Min(S) <= y
  BY <1>1, Least
<1>3. Min(S) \in 1..n
  BY <1>2
<1>4. Min(S) - 1 \in 0..n /\ Min(S) - 1 \notin S
  BY <1>2, <1>3
<1> QED  BY <1>2, <1>3, <1>4

-----------------------------------------------------------------------------
(* Bytes *)

\* The column behind the first k characters.
Place(s, k) == k + Cardinality({j \in 1..k : s[j] = "w"})

LEMMA PlaceIsNat ==
  ASSUME NEW s, NEW k \in Nat
  PROVE  Place(s, k) \in Nat /\ Place(s, k) >= k /\ IsFiniteSet({j \in 1..k : s[j] = "w"})
<1>1. IsFiniteSet({j \in 1..k : s[j] = "w"})
  <2>1. {j \in 1..k : s[j] = "w"} \in SUBSET (1..k) /\ IsFiniteSet(1..k)
    BY FS_Interval
  <2> QED  BY <2>1, FS_Subset
<1> QED  BY <1>1, FS_CardinalityType DEF Place

LEMMA PlaceGrows ==
  ASSUME NEW s, NEW i \in Nat, NEW k \in Nat, i < k
  PROVE  Place(s, i) < Place(s, k)
<1> DEFINE A == {j \in 1..i : s[j] = "w"}
           B == {j \in 1..k : s[j] = "w"}
<1>1. A \in SUBSET B /\ IsFiniteSet(B) /\ IsFiniteSet(A)
  BY PlaceIsNat
<1>2. Cardinality(A) <= Cardinality(B)
  BY <1>1, FS_Subset
<1>3. Cardinality(A) \in Nat /\ Cardinality(B) \in Nat
  BY <1>1, FS_CardinalityType
<1> HIDE DEF A, B
<1>4. i + Cardinality(A) < k + Cardinality(B)
  BY <1>2, <1>3
<1> QED  BY <1>4 DEF Place, A, B

LEMMA SizeIsPlace ==
  ASSUME NEW s \in Seq(Chars), NEW k \in 0..Len(s)
  PROVE  Size(SubSeq(s, 1, k)) = Place(s, k)
<1> DEFINE t == SubSeq(s, 1, k)
<1>1. /\ t \in Seq(Chars) /\ Len(t) = k /\ DOMAIN t = 1..k
      /\ \A j \in 1..k : t[j] = s[j]
  <2>1. \A i \in 1..k : s[i] \in Chars
    BY ElementOfSeq
  <2> QED  BY <2>1, SubSeqProperties
<1>2. {j \in DOMAIN t : t[j] = "w"} = {j \in 1..k : s[j] = "w"}
  BY <1>1
<1> QED  BY <1>1, <1>2 DEF Size, Place

LEMMA Sizes ==
  ASSUME NEW s \in Seq(Chars)
  PROVE  /\ Size(s) = Place(s, Len(s)) /\ Size(s) \in Nat
         /\ Boundaries(s) = {Place(s, k) : k \in 0..Len(s)}
         /\ Boundaries(s) \in SUBSET (0..Size(s))
         /\ 0 \in Boundaries(s) /\ Size(s) \in Boundaries(s)
<1>1. Size(s) = Place(s, Len(s))
  <2>1. Len(s) \in 0..Len(s)
    BY LenProperties
  <2> QED  BY <2>1, SizeIsPlace, SubSeqFull
<1>2. Boundaries(s) = {Place(s, k) : k \in 0..Len(s)}
  BY SizeIsPlace DEF Boundaries
<1>3. \A k \in 0..Len(s) : Place(s, k) \in 0..Size(s)
  <2> SUFFICES ASSUME NEW k \in 0..Len(s) PROVE Place(s, k) \in 0..Size(s)
    OBVIOUS
  <2>1. k \in Nat /\ Len(s) \in Nat
    BY LenProperties
  <2>3. Place(s, k) \in Nat /\ Place(s, Len(s)) \in Nat
    BY <2>1, PlaceIsNat
  <2>2. k = Len(s) \/ k < Len(s)
    OBVIOUS
  <2> QED  BY <1>1, <2>1, <2>2, <2>3, PlaceGrows
<1>4. Place(s, 0) = 0
  <2>1. {j \in 1..0 : s[j] = "w"} = {}
    OBVIOUS
  <2> QED  BY <2>1, FS_EmptySet DEF Place
<1>5. 0 \in 0..Len(s) /\ Len(s) \in 0..Len(s)
  OBVIOUS
<1> QED  BY <1>1, <1>2, <1>3, <1>4, <1>5, PlaceIsNat

\* The characters before and behind a column that is a boundary.
LEMMA Split ==
  ASSUME NEW s \in Seq(Chars), NEW k \in 0..Len(s)
  PROVE  /\ Index(s, Place(s, k)) = k
         /\ Upto(s, Place(s, k)) = SubSeq(s, 1, k)
         /\ Behind(s, Place(s, k)) = SubSeq(s, k + 1, Len(s))
<1> DEFINE T == {b \in Boundaries(s) : b < Place(s, k)}
           f == [i \in 1..k |-> Place(s, i - 1)]
<1>1. \A i, j \in 0..Len(s) : Place(s, i) < Place(s, j) <=> i < j
  <2> SUFFICES ASSUME NEW i \in 0..Len(s), NEW j \in 0..Len(s)
               PROVE  Place(s, i) < Place(s, j) <=> i < j
    OBVIOUS
  <2>3. i \in Nat /\ j \in Nat
    BY LenProperties
  <2>1. Place(s, i) \in Nat /\ Place(s, j) \in Nat
    BY <2>3, PlaceIsNat
  <2>2. i < j \/ i = j \/ j < i
    OBVIOUS
  <2> QED  BY <2>1, <2>2, <2>3, PlaceGrows
<1>2. T = {Place(s, i) : i \in 0..k - 1}
  <2>1. \A i \in 0..k - 1 : i \in 0..Len(s) /\ i < k
    OBVIOUS
  <2>2. \A i \in 0..Len(s) : i < k => i \in 0..k - 1
    OBVIOUS
  <2> HIDE DEF T
  <2>3. \A b \in T : \E i \in 0..k - 1 : b = Place(s, i)
    BY <1>1, <2>2, Sizes DEF T
  <2>4. \A i \in 0..k - 1 : Place(s, i) \in T
    BY <1>1, <2>1, Sizes DEF T
  <2> QED  BY <2>3, <2>4
<1>3. f \in Bijection(1..k, T)
  <2>1. f \in [1..k -> T]
    BY <1>2
  <2>2. \A i, j \in 1..k : f[i] = f[j] => i = j
    <3> SUFFICES ASSUME NEW i \in 1..k, NEW j \in 1..k, f[i] = f[j] PROVE i = j
      OBVIOUS
    <3>1. i - 1 \in 0..Len(s) /\ j - 1 \in 0..Len(s) /\ Place(s, i - 1) = Place(s, j - 1)
      OBVIOUS
    <3>2. Place(s, i - 1) \in Nat
      <4>1. i - 1 \in Nat
        OBVIOUS
      <4> QED  BY <4>1, PlaceIsNat
    <3>3. ~ (i - 1 < j - 1) /\ ~ (j - 1 < i - 1)
      BY <1>1, <3>1, <3>2
    <3> QED  BY <3>3
  <2>3. \A b \in T : \E i \in 1..k : f[i] = b
    <3> SUFFICES ASSUME NEW b \in T PROVE \E i \in 1..k : f[i] = b
      OBVIOUS
    <3>1. PICK i \in 0..k - 1 : b = Place(s, i)
      BY <1>2
    <3>2. i + 1 \in 1..k /\ (i + 1) - 1 = i
      OBVIOUS
    <3> QED  BY <3>1, <3>2
  <2> HIDE DEF f, T
  <2> QED  BY <2>1, <2>2, <2>3 DEF Bijection, Injection, Surjection, IsInjective
<1>4. Cardinality(T) = k
  <2>1. ExistsBijection(1..k, T)
    BY <1>3 DEF ExistsBijection
  <2> QED  BY <2>1, FS_CountingElements
<1> QED  BY <1>4 DEF Index, Upto, Behind

\* snap_to_char_boundary and next_char_boundary find boundaries.
LEMMA Snapped ==
  ASSUME NEW s \in Seq(Chars), NEW c \in Nat
  PROVE  /\ snap_to_char_boundary(s, c) \in Boundaries(s)
         /\ snap_to_char_boundary(s, c) <= c
         /\ \A b \in Boundaries(s) : b <= c => b <= snap_to_char_boundary(s, c)
<1> DEFINE S == {b \in Boundaries(s) : b <= c}
<1>1. S \in SUBSET (0..Size(s)) /\ 0 \in S /\ Size(s) \in Nat
  BY Sizes
<1>2. Max(S) \in S /\ \A y \in S : y <= Max(S)
  BY <1>1, Greatest
<1> QED  BY <1>2 DEF snap_to_char_boundary

LEMMA NextBoundary ==
  ASSUME NEW s \in Seq(Chars), NEW c \in Nat
  PROVE  /\ next_char_boundary(s, c) \in Boundaries(s)
         /\ next_char_boundary(s, c) = Size(s) \/ next_char_boundary(s, c) > c
         /\ \A b \in Boundaries(s) : b > c => next_char_boundary(s, c) <= b
<1> DEFINE S == {Size(s)} \cup {b \in Boundaries(s) : b > c}
<1>1. S \in SUBSET Nat /\ Size(s) \in S /\ S \subseteq Boundaries(s)
  BY Sizes
<1>2. Min(S) \in S /\ \A y \in S : Min(S) <= y
  BY <1>1, Least
<1> QED  BY <1>1, <1>2 DEF next_char_boundary

-----------------------------------------------------------------------------
(* Sequences *)

LEMMA Cut ==
  ASSUME NEW X, NEW u \in Seq(X), NEW v \in Seq(X)
  PROVE  /\ u \o v \in Seq(X) /\ Len(u \o v) = Len(u) + Len(v)
         /\ Len(u) \in Nat /\ Len(v) \in Nat /\ Len(u) \in 0..Len(u \o v)
         /\ SubSeq(u \o v, 1, Len(u)) = u
         /\ SubSeq(u \o v, Len(u) + 1, Len(u \o v)) = v
<1> DEFINE s == u \o v
           a == SubSeq(s, 1, Len(u))
           b == SubSeq(s, Len(u) + 1, Len(s))
<1>1. /\ s \in Seq(X) /\ Len(s) = Len(u) + Len(v) /\ Len(u) \in Nat /\ Len(v) \in Nat
      /\ \A i \in 1..Len(u) + Len(v) : s[i] = IF i <= Len(u) THEN u[i] ELSE v[i - Len(u)]
  BY ConcatProperties, LenProperties
<1>2. \A i \in 1..Len(s) : s[i] \in X
  BY <1>1, ElementOfSeq
<1> HIDE DEF s
<1>3. a \in Seq(X) /\ Len(a) = Len(u) /\ \A i \in 1..Len(u) : a[i] = s[i]
  <2>1. \A i \in 1..Len(u) : s[i] \in X
    BY <1>1, <1>2
  <2> QED  BY <1>1, <2>1, SubSeqProperties
<1>4. b \in Seq(X) /\ Len(b) = Len(v) /\ \A i \in 1..Len(v) : b[i] = s[Len(u) + i]
  <2>1. \A i \in Len(u) + 1..Len(s) : s[i] \in X
    BY <1>1, <1>2
  <2> QED  BY <1>1, <2>1, SubSeqProperties
<1> HIDE DEF a, b
<1>5. a = u
  <2>1. \A i \in 1..Len(a) : a[i] = u[i]
    BY <1>1, <1>3
  <2> QED  BY <1>3, <2>1, SeqEqual
<1>6. b = v
  <2>1. \A i \in 1..Len(b) : b[i] = v[i]
    BY <1>1, <1>4
  <2> QED  BY <1>4, <2>1, SeqEqual
<1> QED  BY <1>1, <1>5, <1>6 DEF s, a, b

LEMMA Halves ==
  ASSUME NEW X, NEW s \in Seq(X), NEW k \in 0..Len(s)
  PROVE  /\ SubSeq(s, 1, k) \in Seq(X) /\ Len(SubSeq(s, 1, k)) = k
         /\ SubSeq(s, k + 1, Len(s)) \in Seq(X) /\ Len(SubSeq(s, k + 1, Len(s))) = Len(s) - k
         /\ s = SubSeq(s, 1, k) \o SubSeq(s, k + 1, Len(s))
         /\ \A i \in 1..k : SubSeq(s, 1, k)[i] = s[i]
         /\ \A i \in 1..Len(s) - k : SubSeq(s, k + 1, Len(s))[i] = s[k + i]
<1>1. Len(s) \in Nat /\ k \in Nat /\ \A i \in 1..Len(s) : s[i] \in X
  BY LenProperties, ElementOfSeq
<1>2. /\ SubSeq(s, 1, k) \in Seq(X) /\ Len(SubSeq(s, 1, k)) = k
      /\ \A i \in 1..k : SubSeq(s, 1, k)[i] = s[i]
  <2>1. \A i \in 1..k : s[i] \in X
    BY <1>1
  <2> QED  BY <1>1, <2>1, SubSeqProperties
<1>3. /\ SubSeq(s, k + 1, Len(s)) \in Seq(X) /\ Len(SubSeq(s, k + 1, Len(s))) = Len(s) - k
      /\ \A i \in 1..Len(s) - k : SubSeq(s, k + 1, Len(s))[i] = s[k + i]
  <2>1. \A i \in k + 1..Len(s) : s[i] \in X
    BY <1>1
  <2>2. SubSeq(s, k + 1, Len(s)) \in Seq(X) /\ Len(SubSeq(s, k + 1, Len(s))) = Len(s) - k
    BY <1>1, <2>1, SubSeqProperties
  <2>3. \A i \in 1..Len(s) - (k + 1) + 1 : SubSeq(s, k + 1, Len(s))[i] = s[k + 1 + i - 1]
    BY <1>1, <2>1, SubSeqProperties
  <2>4. Len(s) - (k + 1) + 1 = Len(s) - k
    BY <1>1
  <2>5. \A i \in 1..Len(s) - k : SubSeq(s, k + 1, Len(s))[i] = s[k + i]
    <3> SUFFICES ASSUME NEW i \in 1..Len(s) - k PROVE SubSeq(s, k + 1, Len(s))[i] = s[k + i]
      OBVIOUS
    <3>1. k + 1 + i - 1 = k + i
      BY <1>1
    <3> QED  BY <2>3, <2>4, <3>1
  <2> QED  BY <2>2, <2>5
<1>4. s = SubSeq(s, 1, k) \o SubSeq(s, k + 1, Len(s))
  <2>1. 1 \in 1..Len(s) + 1 /\ k \in 1 - 1..Len(s) /\ Len(s) \in k..Len(s)
    BY <1>1
  <2>2. SubSeq(s, 1, k) \o SubSeq(s, k + 1, Len(s)) = SubSeq(s, 1, Len(s))
    BY <2>1, ConcatAdjacentSubSeq
  <2> QED  BY <2>2, SubSeqFull
<1> QED  BY <1>2, <1>3, <1>4

\* One entry with others before and behind it.
LEMMA Entry ==
  ASSUME NEW X, NEW A \in Seq(X), NEW B \in Seq(X), NEW x \in X
  PROVE  /\ A \o <<x>> \in Seq(X) /\ Len(A \o <<x>>) = Len(A) + 1
         /\ Len(A) \in Nat /\ Len(B) \in Nat
         /\ A \o <<x>> \o B \in Seq(X) /\ Len(A \o <<x>> \o B) = Len(A) + 1 + Len(B)
         /\ SubSeq(A \o <<x>> \o B, Len(A) + 2, Len(A \o <<x>> \o B)) = B
         /\ \A i \in 1..Len(A) + 1 + Len(B) :
              (A \o <<x>> \o B)[i] = IF i <= Len(A) THEN A[i]
                                     ELSE IF i = Len(A) + 1 THEN x ELSE B[i - (Len(A) + 1)]
<1> DEFINE one == A \o <<x>>
<1>1. <<x>> \in Seq(X) /\ Len(<<x>>) = 1 /\ <<x>>[1] = x
  OBVIOUS
<1>2. /\ one \in Seq(X) /\ Len(one) = Len(A) + 1
      /\ \A i \in 1..Len(A) + 1 : one[i] = IF i <= Len(A) THEN A[i] ELSE <<x>>[i - Len(A)]
  BY <1>1, ConcatProperties
<1>3. Len(A) \in Nat /\ Len(B) \in Nat
  BY LenProperties
<1> HIDE DEF one
<1> DEFINE s == one \o B
<1>4. /\ s \in Seq(X) /\ Len(s) = Len(one) + Len(B)
      /\ SubSeq(s, Len(one) + 1, Len(s)) = B
      /\ \A i \in 1..Len(one) + Len(B) : s[i] = IF i <= Len(one) THEN one[i] ELSE B[i - Len(one)]
  <2>1. one \in Seq(X)
    BY <1>2
  <2>2. SubSeq(s, Len(one) + 1, Len(s)) = B
    BY <2>1, Cut
  <2> QED  BY <2>1, <2>2, ConcatProperties
<1> HIDE DEF s
<1>5. Len(one) + 1 = Len(A) + 2
  BY <1>2, <1>3
<1>6. ASSUME NEW i \in 1..Len(A) + 1 + Len(B)
      PROVE  s[i] = IF i <= Len(A) THEN A[i]
                    ELSE IF i = Len(A) + 1 THEN x ELSE B[i - (Len(A) + 1)]
  BY <1>1, <1>2, <1>3, <1>4
<1>7. SubSeq(s, Len(A) + 2, Len(s)) = B /\ Len(s) = Len(A) + 1 + Len(B)
  BY <1>2, <1>4, <1>5
<1> QED  BY <1>2, <1>3, <1>4, <1>6, <1>7 DEF one, s

LEMMA Middle ==
  ASSUME NEW X, NEW A \in Seq(X), NEW B \in Seq(X), NEW x \in X, NEW y \in X
  PROVE  /\ (A \o <<x>> \o B)[Len(A) + 1] = x
         /\ SubSeq(A \o <<x>> \o B, 1, Len(A)) = A
         /\ [A \o <<x>> \o B EXCEPT ![Len(A) + 1] = y] = A \o <<y>> \o B
<1> DEFINE s == A \o <<x>> \o B
           t == A \o <<y>> \o B
           e == [s EXCEPT ![Len(A) + 1] = y]
<1>1. /\ s \in Seq(X) /\ Len(s) = Len(A) + 1 + Len(B) /\ Len(A) \in Nat /\ Len(B) \in Nat
      /\ \A i \in 1..Len(A) + 1 + Len(B) :
           s[i] = IF i <= Len(A) THEN A[i] ELSE IF i = Len(A) + 1 THEN x ELSE B[i - (Len(A) + 1)]
  BY Entry
<1>2. /\ t \in Seq(X) /\ Len(t) = Len(A) + 1 + Len(B)
      /\ \A i \in 1..Len(A) + 1 + Len(B) :
           t[i] = IF i <= Len(A) THEN A[i] ELSE IF i = Len(A) + 1 THEN y ELSE B[i - (Len(A) + 1)]
  BY Entry
<1> HIDE DEF s, t
<1>3. SubSeq(s, 1, Len(A)) = A
  <2>1. \A i \in 1..Len(A) : s[i] \in X /\ s[i] = A[i]
    BY <1>1, ElementOfSeq
  <2>2. /\ SubSeq(s, 1, Len(A)) \in Seq(X) /\ Len(SubSeq(s, 1, Len(A))) = Len(A)
        /\ \A i \in 1..Len(A) : SubSeq(s, 1, Len(A))[i] = s[i]
    BY <1>1, <2>1, SubSeqProperties
  <2> QED  BY <2>1, <2>2, SeqEqual
<1>4. e \in Seq(X) /\ Len(e) = Len(s)
      /\ \A i \in 1..Len(s) : e[i] = IF i = Len(A) + 1 THEN y ELSE s[i]
  <2>1. Len(A) + 1 \in 1..Len(s)
    BY <1>1
  <2> QED  BY <1>1, <2>1, ExceptSeq
<1> HIDE DEF e
<1>5. e = t
  <2>1. ASSUME NEW i \in 1..Len(e) PROVE e[i] = t[i]
    <3>1. i \in 1..Len(A) + 1 + Len(B) /\ i \in 1..Len(s)
      BY <1>1, <1>4
    <3>2. e[i] = IF i = Len(A) + 1 THEN y ELSE s[i]
      BY <1>4, <3>1
    <3>3. CASE i = Len(A) + 1
      BY <1>1, <1>2, <3>1, <3>2, <3>3
    <3>4. CASE i # Len(A) + 1
      BY <1>1, <1>2, <3>1, <3>2, <3>4
    <3> QED  BY <3>3, <3>4
  <2> QED  BY <1>1, <1>2, <1>4, <2>1, SeqEqual
<1>6. s[Len(A) + 1] = x
  BY <1>1
<1> QED  BY <1>3, <1>5, <1>6 DEF e, s, t

\* A sequence with an entry at k.
LEMMA Around ==
  ASSUME NEW X, NEW s \in Seq(X), NEW k \in 1..Len(s)
  PROVE  /\ s[k] \in X
         /\ SubSeq(s, 1, k - 1) \in Seq(X) /\ Len(SubSeq(s, 1, k - 1)) = k - 1
         /\ SubSeq(s, k + 1, Len(s)) \in Seq(X) /\ Len(SubSeq(s, k + 1, Len(s))) = Len(s) - k
         /\ s = SubSeq(s, 1, k - 1) \o <<s[k]>> \o SubSeq(s, k + 1, Len(s))
<1>1. Len(s) \in Nat /\ s[k] \in X
  BY LenProperties, ElementOfSeq
<1>2. k - 1 \in 0..Len(s) /\ k \in 0..Len(s) /\ k \in 1..k /\ 1 \in 1..Len(s) /\ k \in 1..Len(s)
  BY <1>1
<1>3. SubSeq(s, 1, k) = SubSeq(s, 1, k - 1) \o <<s[k]>>
  BY <1>2, SubSeqRecursiveSecond
<1> QED  BY <1>1, <1>2, <1>3, Halves, ZenonT(60)

\* A last entry.
LEMMA LastEntry ==
  ASSUME NEW X, NEW s \in Seq(X), s # <<>>
  PROVE  /\ Len(s) \in Nat /\ Len(s) > 0 /\ s[Len(s)] \in X
         /\ SubSeq(s, 1, Len(s) - 1) \in Seq(X) /\ Len(SubSeq(s, 1, Len(s) - 1)) = Len(s) - 1
         /\ s = SubSeq(s, 1, Len(s) - 1) \o <<s[Len(s)]>>
<1>1. Len(s) \in Nat /\ Len(s) > 0
  BY EmptySeq
<1>2. 1 \in 1..Len(s) /\ Len(s) \in 1..Len(s)
  BY <1>1
<1>3. SubSeq(s, 1, Len(s)) = SubSeq(s, 1, Len(s) - 1) \o <<s[Len(s)]>>
  BY <1>2, SubSeqRecursiveSecond
<1> QED  BY <1>1, <1>2, <1>3, Around, SubSeqFull

-----------------------------------------------------------------------------
(* A bar is rows, the characters before and behind the caret in its row, and rows *)

Row == Seq(Chars)
Rows == Seq(Row)
Bars == {b \in [lines : Rows, row : Nat, col : Nat] :
           b.row \in 1..Len(b.lines) /\ b.col \in Boundaries(b.lines[b.row])}

At(A, u, v, B) ==
  [lines |-> A \o <<u \o v>> \o B, row |-> Len(A) + 1, col |-> Size(u)]

\* A column at which a line is cut.
LEMMA CutLine ==
  ASSUME NEW u \in Row, NEW v \in Row
  PROVE  /\ u \o v \in Row /\ Size(u) = Place(u \o v, Len(u)) /\ Size(u) \in Nat
         /\ Size(u) \in Boundaries(u \o v) /\ Size(u) <= Size(u \o v)
         /\ Upto(u \o v, Size(u)) = u /\ Behind(u \o v, Size(u)) = v
         /\ snap_to_char_boundary(u \o v, Size(u)) = Size(u)
<1> DEFINE s == u \o v
<1>1. /\ s \in Seq(Chars) /\ Len(u) \in 0..Len(s) /\ SubSeq(s, 1, Len(u)) = u
      /\ SubSeq(s, Len(u) + 1, Len(s)) = v /\ Len(u) \in Nat
  BY Cut DEF Row
<1> HIDE DEF s
<1>2. Size(u) = Place(s, Len(u))
  BY <1>1, SizeIsPlace
<1>3. Size(u) \in Boundaries(s) /\ Size(u) \in 0..Size(s) /\ Size(s) \in Nat
  BY <1>1, <1>2, Sizes
<1>4. Upto(s, Size(u)) = u /\ Behind(s, Size(u)) = v
  BY <1>1, <1>2, Split
<1>5. snap_to_char_boundary(s, Size(u)) = Size(u)
  <2>1. /\ snap_to_char_boundary(s, Size(u)) \in Boundaries(s)
        /\ snap_to_char_boundary(s, Size(u)) <= Size(u)
        /\ Size(u) <= snap_to_char_boundary(s, Size(u))
    BY <1>1, <1>3, Snapped
  <2>2. snap_to_char_boundary(s, Size(u)) \in Nat /\ Size(u) \in Nat
    BY <1>1, <1>3, <2>1, Sizes
  <2> QED  BY <2>1, <2>2
<1> QED  BY <1>1, <1>2, <1>3, <1>4, <1>5 DEF s, Row

\* What is seen of such a bar.
Shows(b, A, u, v, B) ==
  /\ b \in Bars /\ Line(b) = u \o v /\ b.col = Size(u) /\ b.row = Len(A) + 1
  /\ Len(A) \in Nat /\ Len(B) \in Nat
  /\ b.lines = A \o <<u \o v>> \o B /\ Len(b.lines) = Len(A) + 1 + Len(B)

LEMMA AtIsBar ==
  ASSUME NEW A \in Rows, NEW u \in Row, NEW v \in Row, NEW B \in Rows
  PROVE  Shows(At(A, u, v, B), A, u, v, B)
<1>1. u \o v \in Row /\ Size(u) \in Nat /\ Size(u) \in Boundaries(u \o v)
  BY CutLine
<1>2. /\ A \o <<u \o v>> \o B \in Rows /\ Len(A) \in Nat /\ Len(B) \in Nat
      /\ Len(A \o <<u \o v>> \o B) = Len(A) + 1 + Len(B)
      /\ (A \o <<u \o v>> \o B)[Len(A) + 1] = u \o v
  BY <1>1, Entry, Middle DEF Rows
<1> DEFINE L == A \o <<u \o v>> \o B
           b == At(A, u, v, B)
<1>3. /\ b.lines = L /\ b.row = Len(A) + 1 /\ b.col = Size(u)
      /\ b = [lines |-> L, row |-> Len(A) + 1, col |-> Size(u)]
  BY DEF At
<1>4. Len(A) + 1 \in 1..Len(L) /\ Len(A) + 1 \in Nat
  BY <1>2
<1> HIDE DEF b
<1>5. b \in Bars
  <2> HIDE DEF L
  <2> QED  BY <1>1, <1>2, <1>3, <1>4 DEF Bars, L
<1> QED  BY <1>2, <1>3, <1>5 DEF Line, Shows, b

LEMMA BarIsAt ==
  ASSUME NEW b \in Bars
  PROVE  \E A \in Rows, u \in Row, v \in Row, B \in Rows : b = At(A, u, v, B)
<1> DEFINE L == b.lines
           A == SubSeq(L, 1, b.row - 1)
           B == SubSeq(L, b.row + 1, Len(L))
<1>1. /\ b = [lines |-> L, row |-> b.row, col |-> b.col]
      /\ L \in Rows /\ b.row \in 1..Len(L) /\ b.col \in Boundaries(L[b.row]) /\ b.row \in Nat
  BY DEF Bars
<1>2. /\ L[b.row] \in Row /\ A \in Rows /\ Len(A) = b.row - 1 /\ B \in Rows
      /\ L = A \o <<L[b.row]>> \o B
  BY <1>1, Around DEF Rows
<1> DEFINE line == L[b.row]
<1>3. PICK k \in 0..Len(line) : b.col = Place(line, k)
  BY <1>1, <1>2, Sizes DEF Row
<1> DEFINE u == SubSeq(line, 1, k)
           v == SubSeq(line, k + 1, Len(line))
<1>4. u \in Row /\ v \in Row /\ line = u \o v
  BY <1>2, Halves, ZenonT(60) DEF Row
<1>5. Size(u) = b.col
  BY <1>2, <1>3, SizeIsPlace DEF Row
<1>6. Len(A) + 1 = b.row
  BY <1>1, <1>2
<1> HIDE DEF A, B, u, v, line, L
<1>7. b = At(A, u, v, B)
  BY <1>1, <1>2, <1>4, <1>5, <1>6 DEF At, line
<1> QED  BY <1>2, <1>4, <1>7

\* Another line in the place of the caret's.
LEMMA LineAt ==
  ASSUME NEW A \in Rows, NEW u \in Row, NEW v \in Row, NEW B \in Rows,
         NEW x \in Row, NEW y \in Row
  PROVE  WithLine(At(A, u, v, B), x \o y, Size(x)) = At(A, x, y, B)
<1>1. u \o v \in Row /\ x \o y \in Row
  BY CutLine
<1>2. [A \o <<u \o v>> \o B EXCEPT ![Len(A) + 1] = x \o y] = A \o <<x \o y>> \o B
  <2> DEFINE p == u \o v
             q == x \o y
  <2>1. p \in Row /\ q \in Row /\ A \in Seq(Row) /\ B \in Seq(Row)
    BY <1>1 DEF Rows
  <2> HIDE DEF p, q
  <2>2. [A \o <<p>> \o B EXCEPT ![Len(A) + 1] = q] = A \o <<q>> \o B
    BY <2>1, Middle
  <2> QED  BY <2>2 DEF p, q
<1> DEFINE L == A \o <<u \o v>> \o B
           M == A \o <<x \o y>> \o B
           n == Len(A) + 1
<1> HIDE DEF L, M, n
<1>3. At(A, x, y, B) = [lines |-> M, row |-> n, col |-> Size(x)]
  BY DEF At, M, n
<1>4. [L EXCEPT ![n] = x \o y] = M
  BY <1>2 DEF L, M, n
<1> DEFINE b == At(A, u, v, B)
           d == [lines |-> M, row |-> n, col |-> Size(u)]
<1>5. b = [lines |-> L, row |-> n, col |-> Size(u)] /\ b.lines = L /\ b.row = n
  BY DEF At, L, n
<1>6. [b EXCEPT !.lines = M] = d
  BY <1>5
<1>7. [d EXCEPT !.col = Size(x)] = [lines |-> M, row |-> n, col |-> Size(x)]
  OBVIOUS
<1> HIDE DEF b, d
<1>8. WithLine(b, x \o y, Size(x))
        = [[b EXCEPT !.lines = [b.lines EXCEPT ![b.row] = x \o y]] EXCEPT !.col = Size(x)]
  BY DEF WithLine
<1> QED  BY <1>3, <1>4, <1>5, <1>6, <1>7, <1>8 DEF b

\* A line grows by a character.
LEMMA SizeSnoc ==
  ASSUME NEW s \in Row, NEW c \in Chars
  PROVE  s \o <<c>> \in Row /\ Size(s \o <<c>>) = Size(s) + Width(c)
<1> DEFINE t == s \o <<c>>
           W(x) == {j \in DOMAIN x : x[j] = "w"}
           n == Len(s)
<1>1. /\ t \in Seq(Chars) /\ Len(t) = n + 1 /\ n \in Nat
      /\ DOMAIN t = 1..n + 1 /\ DOMAIN s = 1..n
      /\ t[n + 1] = c /\ \A i \in 1..n : t[i] = s[i]
  <2>1. <<c>> \in Seq(Chars) /\ Len(<<c>>) = 1 /\ <<c>>[1] = c /\ s \in Seq(Chars)
    BY DEF Row
  <2>2. /\ t \in Seq(Chars) /\ Len(t) = n + 1
        /\ \A i \in 1..n + 1 : t[i] = IF i <= n THEN s[i] ELSE <<c>>[i - n]
    BY <2>1, ConcatProperties
  <2>3. n \in Nat /\ DOMAIN t = 1..n + 1 /\ DOMAIN s = 1..n
    BY <2>1, <2>2, LenProperties
  <2> HIDE DEF n
  <2> QED  BY <2>1, <2>2, <2>3
<1> HIDE DEF t, n
<1>2. W(t) = IF c = "w" THEN W(s) \cup {n + 1} ELSE W(s)
  BY <1>1
<1>3. IsFiniteSet(W(s)) /\ Cardinality(W(s)) \in Nat
  <2>1. IsFiniteSet(1..n) /\ W(s) \in SUBSET (1..n)
    BY <1>1, FS_Interval
  <2>2. IsFiniteSet(W(s))
    BY <2>1, FS_Subset
  <2> QED  BY <2>2, FS_CardinalityType
<1>4. n + 1 \notin W(s)
  BY <1>1
<1>5. Cardinality(W(t)) = Cardinality(W(s)) + (IF c = "w" THEN 1 ELSE 0)
  <2> HIDE DEF W
  <2>1. Cardinality(W(s) \cup {n + 1}) = Cardinality(W(s)) + 1
    BY <1>3, <1>4, FS_AddElement
  <2> QED  BY <1>2, <1>3, <2>1
<1>6. Size(t) = Len(t) + Cardinality(W(t)) /\ Size(s) = n + Cardinality(W(s))
  BY DEF Size, n
<1> HIDE DEF W
<1>7. Size(t) = Size(s) + Width(c)
  BY <1>1, <1>3, <1>5, <1>6 DEF Width
<1> QED  BY <1>1, <1>7 DEF t, Row

-----------------------------------------------------------------------------
(* What each key does to the rows and the characters around the caret *)

LEMMA Nothing ==
  /\ <<>> \in Row /\ <<>> \in Rows /\ Size(<<>>) = 0 /\ Len(<<>>) = 0
  /\ \A u \in Row : u \o <<>> = u /\ <<>> \o u = u
  /\ \A A \in Rows : A \o <<>> = A /\ <<>> \o A = A
<1>1. <<>> \in Row /\ <<>> \in Rows /\ Len(<<>>) = 0 /\ DOMAIN <<>> = {}
  BY EmptySeq DEF Row, Rows
<1>2. {k \in DOMAIN <<>> : <<>>[k] = "w"} = {}
  BY <1>1
<1>3. Size(<<>>) = 0
  BY <1>1, <1>2, FS_EmptySet DEF Size
<1> QED  BY <1>1, <1>3, ConcatEmptySeq DEF Row, Rows

LEMMA One ==
  /\ \A c \in Chars : <<c>> \in Row /\ Len(<<c>>) = 1 /\ <<c>>[1] = c
  /\ \A l \in Row : <<l>> \in Rows /\ Len(<<l>>) = 1 /\ <<l>>[1] = l
BY DEF Row, Rows

LEMMA Joint ==
  /\ \A u, v \in Row : u \o v \in Row
  /\ \A A, B \in Rows : A \o B \in Rows
  /\ \A u, v, w \in Row : (u \o v) \o w = u \o (v \o w)
  /\ \A A, B, C \in Rows : (A \o B) \o C = A \o (B \o C)
<1>1. \A u, v \in Row : u \o v \in Row
  BY ConcatProperties DEF Row
<1>2. \A A, B \in Rows : A \o B \in Rows
  BY ConcatProperties DEF Rows
<1>3. \A u, v, w \in Row : (u \o v) \o w = u \o (v \o w)
  BY ConcatAssociative DEF Row
<1>4. \A A, B, C \in Rows : (A \o B) \o C = A \o (B \o C)
  BY ConcatAssociative DEF Rows
<1> QED  BY <1>1, <1>2, <1>3, <1>4

\* A line cut between its characters, one after another.
LEMMA Neighbours ==
  ASSUME NEW u \in Row, NEW c \in Chars, NEW v \in Row
  PROVE  /\ snap_to_char_boundary(u \o <<c>> \o v, Size(u \o <<c>>) - 1) = Size(u)
         /\ next_char_boundary(u \o <<c>> \o v, Size(u)) = Size(u \o <<c>>)
         /\ u \o <<c>> \o v = u \o (<<c>> \o v) /\ Size(u \o <<c>>) > Size(u)
         /\ u \o <<c>> \in Row /\ <<c>> \o v \in Row /\ <<c>> \in Row
         /\ Size(u) \in Nat /\ Size(u) < Size(u \o <<c>> \o v)
<1> DEFINE s == u \o <<c>> \o v
           i == Size(u)
           k == Size(u \o <<c>>)
           n == Len(u)
<1>1. /\ <<c>> \in Row /\ u \o <<c>> \in Row /\ <<c>> \o v \in Row
      /\ s = u \o (<<c>> \o v) /\ s \in Row
  BY One, Joint
<1>2. i \in Nat /\ i \in Boundaries(s) /\ i = Place(s, n) /\ i <= Size(s)
  BY <1>1, CutLine
<1>3. k \in Nat /\ k \in Boundaries(s) /\ k = Place(s, Len(u \o <<c>>)) /\ k <= Size(s)
  BY <1>1, CutLine
<1>4. Len(u \o <<c>>) = n + 1 /\ n \in Nat
  BY One, ConcatProperties, LenProperties DEF Row
<1>5. k = i + Width(c) /\ Width(c) \in {1, 2}
  BY SizeSnoc DEF Width
<1> HIDE DEF s, i, k, n
<1>6. Size(s) \in Nat /\ Boundaries(s) \subseteq Nat
  <2>1. s \in Seq(Chars)
    BY <1>1 DEF Row
  <2>2. Size(s) \in Nat /\ Boundaries(s) \in SUBSET (0..Size(s))
    BY <2>1, Sizes
  <2> QED  BY <2>2
<1>7. \A b \in Boundaries(s) : b <= i \/ k <= b
  <2> SUFFICES ASSUME NEW b \in Boundaries(s) PROVE b <= i \/ k <= b
    OBVIOUS
  <2>1. PICK j \in 0..Len(s) : b = Place(s, j)
    <3>1. s \in Seq(Chars)
      BY <1>1 DEF Row
    <3>2. Boundaries(s) = {Place(s, j) : j \in 0..Len(s)}
      BY <3>1, Sizes
    <3> QED  BY <3>2
  <2>6. b \in Nat
    BY <1>6
  <2>2. j \in Nat /\ n + 1 \in Nat
    BY <1>1, <1>4, LenProperties DEF Row
  <2>3. CASE j = n \/ j = n + 1
    BY <1>2, <1>3, <1>4, <2>1, <2>3
  <2>4. CASE j < n
    <3>1. Place(s, j) < Place(s, n)
      BY <1>4, <2>2, <2>4, PlaceGrows
    <3> QED  BY <1>2, <2>6, <2>1, <3>1
  <2>5. CASE j > n + 1
    <3>1. Place(s, n + 1) < Place(s, j)
      BY <2>2, <2>5, PlaceGrows
    <3> QED  BY <1>3, <1>4, <2>6, <2>1, <3>1
  <2> QED  BY <1>4, <2>2, <2>3, <2>4, <2>5
<1>8. snap_to_char_boundary(s, k - 1) = i
  <2> DEFINE x == snap_to_char_boundary(s, k - 1)
  <2>1. k - 1 \in Nat /\ i <= k - 1
    BY <1>2, <1>3, <1>5
  <2>2. x \in Boundaries(s) /\ x <= k - 1 /\ i <= x
    BY <1>1, <1>2, <2>1, Snapped DEF Row
  <2> HIDE DEF x
  <2>3. x \in Nat /\ ~ (k <= x)
    <3>1. x \in Nat
      BY <1>6, <2>2
    <3> QED  BY <1>3, <2>2, <3>1
  <2>4. x = i
    BY <1>2, <1>7, <2>2, <2>3
  <2> QED  BY <2>4 DEF x
<1>9. next_char_boundary(s, i) = k
  <2> DEFINE x == next_char_boundary(s, i)
  <2>1. i < k
    BY <1>2, <1>3, <1>5
  <2>2. x \in Boundaries(s) /\ (x = Size(s) \/ x > i) /\ x <= k
    BY <1>1, <1>2, <1>3, <2>1, NextBoundary DEF Row
  <2> HIDE DEF x
  <2>3. x \in Nat /\ x > i
    BY <1>2, <1>3, <1>6, <2>1, <2>2
  <2>4. x = k
    BY <1>2, <1>3, <1>7, <2>2, <2>3
  <2> QED  BY <2>4 DEF x
<1>10. i < k /\ i < Size(s)
  BY <1>2, <1>3, <1>5, <1>6
<1> QED  BY <1>1, <1>2, <1>8, <1>9, <1>10 DEF s, i, k

LEMMA InsertChar ==
  ASSUME NEW A \in Rows, NEW u \in Row, NEW v \in Row, NEW B \in Rows, NEW c \in Chars
  PROVE  insert_char(At(A, u, v, B), c) = At(A, u \o <<c>>, v, B)
<1> DEFINE b == At(A, u, v, B)
<1>1. Shows(b, A, u, v, B)
  BY AtIsBar
<1>2. /\ snap_to_char_boundary(u \o v, Size(u)) = Size(u)
      /\ Upto(u \o v, Size(u)) = u /\ Behind(u \o v, Size(u)) = v
  BY CutLine
<1>3. u \o <<c>> \in Row /\ Size(u \o <<c>>) = Size(u) + Width(c)
  BY SizeSnoc
<1>4. WithLine(b, (u \o <<c>>) \o v, Size(u \o <<c>>)) = At(A, u \o <<c>>, v, B)
  BY <1>3, LineAt
<1> HIDE DEF b
<1>5. Line(b) = u \o v /\ b.col = Size(u)
  BY <1>1 DEF Shows
<1>6. insert_char(b, c) = WithLine(b, (u \o <<c>>) \o v, Size(u) + Width(c))
  BY <1>2, <1>5 DEF insert_char
<1> QED  BY <1>3, <1>4, <1>6 DEF b

\* Two lines and what is above and below them.
Stacked(L, A, p, q, B) ==
  /\ L \in Rows /\ Len(L) = Len(A) + 2 + Len(B) /\ Len(A) \in Nat /\ Len(B) \in Nat
  /\ A \o <<p>> \in Rows /\ Len(A \o <<p>>) = Len(A) + 1
  /\ <<q>> \o B \in Rows /\ Len(<<q>> \o B) = Len(B) + 1
  /\ L = A \o <<p>> \o <<q>> \o B /\ L = A \o <<p>> \o (<<q>> \o B)
  /\ L = A \o <<p, q>> \o B
  /\ SubSeq(L, 1, Len(A)) = A /\ L[Len(A) + 1] = p /\ L[Len(A) + 2] = q
  /\ SubSeq(L, Len(A) + 3, Len(L)) = B

LEMMA TwoLines ==
  ASSUME NEW A \in Rows, NEW p \in Row, NEW q \in Row, NEW B \in Rows, NEW L,
         L = A \o <<p>> \o <<q>> \o B
  PROVE  Stacked(L, A, p, q, B)
<1>1. <<p>> \in Rows /\ <<q>> \in Rows /\ Len(<<q>>) = 1
  BY One
<1> DEFINE Ap == A \o <<p>>
           qB == <<q>> \o B
<1>2. Ap \in Rows /\ qB \in Rows /\ Ap \o <<q>> \in Rows
  BY <1>1, Joint
<1>3. L = Ap \o qB
  BY <1>1, <1>2, Joint, ZenonT(60)
<1>4. Len(Ap) = Len(A) + 1 /\ Len(qB) = Len(B) + 1 /\ Len(A) \in Nat /\ Len(B) \in Nat
  BY <1>1, ConcatProperties, LenProperties DEF Rows
<1>5. SubSeq(L, 1, Len(A)) = A /\ L[Len(A) + 1] = p
  <2>1. L = A \o <<p>> \o qB
    BY <1>3
  <2> HIDE DEF qB
  <2> QED  BY <1>2, <2>1, Middle, SMTT(40) DEF Rows
<1>6. /\ L \in Rows /\ Len(L) = Len(Ap) + 1 + Len(B) /\ L[Len(Ap) + 1] = q
      /\ SubSeq(L, Len(Ap) + 2, Len(L)) = B
  <2>1. L = Ap \o <<q>> \o B
    OBVIOUS
  <2> HIDE DEF Ap
  <2>2. Ap \in Seq(Row) /\ B \in Seq(Row)
    BY <1>2 DEF Rows
  <2>3. Ap \o <<q>> \o B \in Seq(Row)
    BY <2>2, Entry
  <2>6. Len(Ap \o <<q>> \o B) = Len(Ap) + 1 + Len(B)
    BY <2>2, Entry
  <2>5. SubSeq(L, Len(Ap) + 2, Len(L)) = B
    BY <2>1, <2>2, Entry
  <2>4. L[Len(Ap) + 1] = q
    BY <2>1, <2>2, Middle
  <2> QED  BY <2>1, <2>3, <2>4, <2>5, <2>6 DEF Rows
<1>7. <<p>> \o <<q>> = <<p, q>>
  <2>1. /\ <<p>> \in Seq(Row) /\ <<q>> \in Seq(Row) /\ <<p, q>> \in Seq(Row)
        /\ Len(<<p>>) = 1 /\ Len(<<q>>) = 1 /\ Len(<<p, q>>) = 2
    OBVIOUS
  <2>2. /\ <<p>> \o <<q>> \in Seq(Row) /\ Len(<<p>> \o <<q>>) = 2
        /\ \A i \in 1..2 : (<<p>> \o <<q>>)[i] = IF i <= 1 THEN <<p>>[i] ELSE <<q>>[i - 1]
    BY <2>1, ConcatProperties
  <2>3. \A i \in 1..2 : (<<p>> \o <<q>>)[i] = <<p, q>>[i]
    <3>1. 1 \in 1..2 /\ 2 \in 1..2 /\ \A i \in 1..2 : i = 1 \/ i = 2
      OBVIOUS
    <3>2. (<<p>> \o <<q>>)[1] = p /\ (<<p>> \o <<q>>)[2] = q
      BY <2>2, <3>1
    <3>3. <<p, q>>[1] = p /\ <<p, q>>[2] = q
      OBVIOUS
    <3> QED  BY <3>1, <3>2, <3>3
  <2> QED  BY <2>1, <2>2, <2>3, SeqEqual
<1>8. A \o <<p, q>> = Ap \o <<q>>
  <2>1. (A \o <<p>>) \o <<q>> = A \o (<<p>> \o <<q>>)
    BY <1>1, Joint
  <2> QED  BY <1>7, <2>1
<1>9. Len(Ap) + 1 = Len(A) + 2 /\ Len(Ap) + 2 = Len(A) + 3
  BY <1>4
<1> HIDE DEF Ap, qB
<1>10. Len(L) = Len(A) + 2 + Len(B)
  BY <1>4, <1>6
<1> QED  BY <1>2, <1>3, <1>4, <1>5, <1>6, <1>8, <1>9, <1>10 DEF Ap, qB, Stacked

LEMMA InsertNewline ==
  ASSUME NEW A \in Rows, NEW u \in Row, NEW v \in Row, NEW B \in Rows
  PROVE  insert_newline(At(A, u, v, B)) = At(A \o <<u>>, <<>>, v, B)
<1> DEFINE b == At(A, u, v, B)
           L == b.lines
<1>1. Line(b) = u \o v /\ b.col = Size(u) /\ b.row = Len(A) + 1 /\ Len(A) \in Nat
      /\ L = A \o <<u \o v>> \o B
  <2>1. Shows(b, A, u, v, B)
    BY AtIsBar
  <2> HIDE DEF b
  <2> QED  BY <2>1 DEF Shows
<1>2. /\ snap_to_char_boundary(u \o v, Size(u)) = Size(u)
      /\ Upto(u \o v, Size(u)) = u /\ Behind(u \o v, Size(u)) = v /\ u \o v \in Row
  BY CutLine
<1>3. SubSeq(L, 1, Len(A)) = A
  <2> DEFINE x == u \o v
  <2> HIDE DEF x
  <2>1. x \in Row /\ L = A \o <<x>> \o B
    BY <1>1, <1>2 DEF x
  <2> QED  BY <2>1, Middle DEF Rows
<1>4. SubSeq(L, Len(A) + 2, Len(L)) = B
  BY <1>1, <1>2, Entry DEF Rows
<1> HIDE DEF b, L
<1>5. (Len(A) + 1) - 1 = Len(A) /\ (Len(A) + 1) + 1 = Len(A) + 2
  BY <1>1
<1>6. insert_newline(b) = [lines |-> A \o <<u, v>> \o B, row |-> Len(A) + 2, col |-> 0]
  BY <1>1, <1>2, <1>3, <1>4, <1>5 DEF insert_newline, L
<1>7. A \o <<u, v>> \o B = A \o <<u>> \o <<v>> \o B /\ Len(A \o <<u>>) = Len(A) + 1
  <2>1. Stacked(A \o <<u>> \o <<v>> \o B, A, u, v, B)
    BY TwoLines
  <2> QED  BY <2>1 DEF Stacked
<1>8. At(A \o <<u>>, <<>>, v, B)
        = [lines |-> A \o <<u>> \o <<v>> \o B, row |-> Len(A) + 2, col |-> 0]
  BY <1>5, <1>7, Nothing DEF At
<1> QED  BY <1>6, <1>7, <1>8 DEF b

LEMMA JoinedAt ==
  ASSUME NEW A \in Rows, NEW p \in Row, NEW q \in Row, NEW B \in Rows, NEW b,
         b.lines = A \o <<p>> \o <<q>> \o B
  PROVE  Joined(b, Len(A) + 1) = At(A, p, q, B)
<1> DEFINE L == b.lines
<1>1. /\ SubSeq(L, 1, Len(A)) = A /\ L[Len(A) + 1] = p /\ L[Len(A) + 2] = q
      /\ SubSeq(L, Len(A) + 3, Len(L)) = B /\ Len(A) \in Nat
  <2>1. Stacked(L, A, p, q, B)
    BY TwoLines
  <2> HIDE DEF L
  <2> QED  BY <2>1 DEF Stacked
<1>2. (Len(A) + 1) - 1 = Len(A) /\ (Len(A) + 1) + 1 = Len(A) + 2 /\ (Len(A) + 1) + 2 = Len(A) + 3
  BY <1>1
<1> HIDE DEF L
<1>3. Joined(b, Len(A) + 1)
        = [lines |-> A \o <<p \o q>> \o B, row |-> Len(A) + 1, col |-> Size(p)]
  BY <1>1, <1>2 DEF Joined, L
<1> QED  BY <1>3 DEF At

\* The caret moves in its line.
Moved(b, col) == [b EXCEPT !.col = col]
LEMMA MoveAt ==
  ASSUME NEW A, NEW u, NEW v, NEW B, NEW x, NEW y, x \o y = u \o v
  PROVE  Moved(At(A, u, v, B), Size(x)) = At(A, x, y, B)
<1> DEFINE L == A \o <<u \o v>> \o B
           n == Len(A) + 1
<1>1. At(A, u, v, B) = [lines |-> L, row |-> n, col |-> Size(u)]
  BY DEF At
<1>2. At(A, x, y, B) = [lines |-> L, row |-> n, col |-> Size(x)]
  BY DEF At
<1> HIDE DEF L, n
<1> QED  BY <1>1, <1>2 DEF Moved

LEMMA BackspaceIn ==
  ASSUME NEW A \in Rows, NEW u \in Row, NEW c \in Chars, NEW v \in Row, NEW B \in Rows
  PROVE  /\ backspace(At(A, u \o <<c>>, v, B)) = At(A, u, v, B)
         /\ cursor_left(At(A, u \o <<c>>, v, B)) = At(A, u, <<c>> \o v, B)
<1> DEFINE w == u \o <<c>>
           cv == <<c>> \o v
           b == At(A, w, v, B)
<1>1. /\ snap_to_char_boundary(w \o v, Size(w) - 1) = Size(u)
      /\ w \o v = u \o (<<c>> \o v) /\ w \in Row /\ <<c>> \o v \in Row
      /\ Size(w) > Size(u) /\ Size(u) \in Nat
  BY Neighbours
<1>2. Upto(w \o v, Size(u)) = u
  <2>1. Upto(u \o (<<c>> \o v), Size(u)) = u
    BY <1>1, CutLine
  <2> QED  BY <1>1, <2>1
<1>3. Behind(w \o v, Size(w)) = v /\ Size(w) \in Nat
  BY <1>1, CutLine
<1>c. cv \in Row /\ w \o v = u \o cv
  BY <1>1
<1> HIDE DEF w, cv
<1>4. Shows(b, A, w, v, B)
  BY <1>1, AtIsBar
<1>5. WithLine(b, u \o v, Size(u)) = At(A, u, v, B)
  BY <1>1, LineAt
<1>6. Moved(b, Size(u)) = At(A, u, cv, B)
  <2>1. u \o cv = w \o v
    BY <1>c
  <2> QED  BY <2>1, MoveAt
<1> HIDE DEF b
<1>7. Line(b) = w \o v /\ b.col = Size(w) /\ b.col > 0
  BY <1>1, <1>3, <1>4 DEF Shows
<1>8. backspace(b) = WithLine(b, u \o v, Size(u))
  BY <1>1, <1>2, <1>3, <1>7 DEF backspace, Erase
<1>9. cursor_left(b) = Moved(b, Size(u))
  BY <1>1, <1>7 DEF cursor_left, Moved
<1> QED  BY <1>5, <1>6, <1>8, <1>9 DEF b, w, cv

LEMMA BackspaceUp ==
  ASSUME NEW A \in Rows, NEW l \in Row, NEW v \in Row, NEW B \in Rows
  PROVE  /\ backspace(At(A \o <<l>>, <<>>, v, B)) = At(A, l, v, B)
         /\ cursor_left(At(A \o <<l>>, <<>>, v, B)) = At(A, l, <<>>, <<v>> \o B)
<1> DEFINE Al == A \o <<l>>
           b == At(Al, <<>>, v, B)
           L == Al \o <<v>> \o B
<1>1. Stacked(L, A, l, v, B)
  BY TwoLines
<1> HIDE DEF L
<1>2. /\ Al \in Rows /\ Len(Al) = Len(A) + 1 /\ Len(A) \in Nat /\ L[Len(A) + 1] = l
      /\ L = A \o <<l>> \o (<<v>> \o B)
  BY <1>1 DEF Stacked
<1> HIDE DEF Al
<1>3. Shows(b, Al, <<>>, v, B) /\ <<>> \o v = v /\ l \o <<>> = l /\ Size(<<>>) = 0
  BY <1>2, AtIsBar, Nothing
<1>n. At(A, l, <<>>, <<v>> \o B) = [lines |-> L, row |-> Len(A) + 1, col |-> Size(l)]
  BY <1>2, <1>3 DEF At
<1>4. b = [lines |-> L, row |-> Len(A) + 2, col |-> 0]
  <2>1. b = [lines |-> L, row |-> Len(Al) + 1, col |-> 0]
    BY <1>3 DEF At, L
  <2>2. Len(Al) + 1 = Len(A) + 2
    BY <1>2
  <2> QED  BY <2>1, <2>2
<1> HIDE DEF b
<1>5. b.lines = L /\ b.row = Len(A) + 2 /\ b.col = 0
  BY <1>4
<1>6. Joined(b, Len(A) + 1) = At(A, l, v, B)
  <2>1. b.lines = A \o <<l>> \o <<v>> \o B
    BY <1>5 DEF L, Al
  <2> QED  BY <2>1, JoinedAt, ZenonT(60)
<1>7. b.row > 1 /\ b.row - 1 = Len(A) + 1 /\ ~ (b.col > 0)
  BY <1>2, <1>5
<1>8. backspace(b) = Joined(b, Len(A) + 1)
  BY <1>7 DEF backspace
<1>9. cursor_left(b) = [b EXCEPT !.row = Len(A) + 1, !.col = Size(l)]
  BY <1>2, <1>5, <1>7 DEF cursor_left
<1>10. [b EXCEPT !.row = Len(A) + 1, !.col = Size(l)]
         = [lines |-> L, row |-> Len(A) + 1, col |-> Size(l)]
  <2> DEFINE d == [lines |-> L, row |-> Len(A) + 1, col |-> 0]
  <2>1. [b EXCEPT !.row = Len(A) + 1] = d
    BY <1>4
  <2>2. [d EXCEPT !.col = Size(l)] = [lines |-> L, row |-> Len(A) + 1, col |-> Size(l)]
    OBVIOUS
  <2> HIDE DEF d
  <2> QED  BY <2>1, <2>2
<1> QED  BY <1>6, <1>8, <1>9, <1>10, <1>n DEF b, Al

LEMMA BackspaceTop ==
  ASSUME NEW v \in Row, NEW B \in Rows
  PROVE  /\ backspace(At(<<>>, <<>>, v, B)) = At(<<>>, <<>>, v, B)
         /\ cursor_left(At(<<>>, <<>>, v, B)) = At(<<>>, <<>>, v, B)
<1> DEFINE b == At(<<>>, <<>>, v, B)
<1>1. b.row = 1 /\ b.col = 0
  BY Nothing DEF At
<1> HIDE DEF b
<1> QED  BY <1>1 DEF backspace, cursor_left, b

LEMMA DeleteIn ==
  ASSUME NEW A \in Rows, NEW u \in Row, NEW c \in Chars, NEW v \in Row, NEW B \in Rows
  PROVE  /\ delete_forward(At(A, u, <<c>> \o v, B)) = At(A, u, v, B)
         /\ cursor_right(At(A, u, <<c>> \o v, B)) = At(A, u \o <<c>>, v, B)
<1> DEFINE w == u \o <<c>>
           cv == <<c>> \o v
           b == At(A, u, cv, B)
<1>1. /\ next_char_boundary(w \o v, Size(u)) = Size(w)
      /\ w \o v = u \o cv /\ w \in Row /\ cv \in Row
      /\ Size(u) < Size(w \o v) /\ Size(u) \in Nat
  BY Neighbours
<1> HIDE DEF w, cv
<1>2. Upto(u \o cv, Size(u)) = u
  BY <1>1, CutLine
<1>3. Behind(u \o cv, Size(w)) = v
  <2>1. Behind(w \o v, Size(w)) = v
    BY <1>1, CutLine
  <2> QED  BY <1>1, <2>1
<1>4. Shows(b, A, u, cv, B)
  BY <1>1, AtIsBar
<1>5. WithLine(b, u \o v, Size(u)) = At(A, u, v, B)
  BY <1>1, LineAt
<1>6. Moved(b, Size(w)) = At(A, w, v, B)
  <2>1. w \o v = u \o cv
    BY <1>1
  <2> QED  BY <2>1, MoveAt
<1> HIDE DEF b
<1>7. Line(b) = w \o v /\ b.col = Size(u) /\ b.col < Size(Line(b))
  BY <1>1, <1>4 DEF Shows
<1>8. delete_forward(b) = WithLine(b, u \o v, Size(u))
  BY <1>1, <1>2, <1>3, <1>7 DEF delete_forward, Erase
<1>9. cursor_right(b) = Moved(b, Size(w))
  BY <1>1, <1>7 DEF cursor_right, Moved
<1> QED  BY <1>5, <1>6, <1>8, <1>9 DEF b, cv, w

LEMMA DeleteDown ==
  ASSUME NEW A \in Rows, NEW u \in Row, NEW l \in Row, NEW B \in Rows
  PROVE  /\ delete_forward(At(A, u, <<>>, <<l>> \o B)) = At(A, u, l, B)
         /\ cursor_right(At(A, u, <<>>, <<l>> \o B)) = At(A \o <<u>>, <<>>, l, B)
<1> DEFINE L == A \o <<u>> \o <<l>> \o B
           lB == <<l>> \o B
           b == At(A, u, <<>>, lB)
<1>1. Stacked(L, A, u, l, B)
  BY TwoLines
<1> HIDE DEF L
<1>2. /\ A \o <<u>> \in Rows /\ Len(A \o <<u>>) = Len(A) + 1 /\ Len(A) \in Nat /\ Len(B) \in Nat
      /\ Len(L) = Len(A) + 2 + Len(B) /\ L[Len(A) + 1] = u
      /\ L = A \o <<u>> \o lB /\ lB \in Rows /\ L = A \o <<u>> \o <<l>> \o B
  BY <1>1 DEF Stacked
<1> HIDE DEF lB
<1>3. u \o <<>> = u /\ <<>> \o l = l /\ Size(<<>>) = 0
  BY Nothing
<1>4. b = [lines |-> L, row |-> Len(A) + 1, col |-> Size(u)]
  BY <1>2, <1>3 DEF At
<1>5. At(A \o <<u>>, <<>>, l, B) = [lines |-> L, row |-> Len(A) + 2, col |-> 0]
  <2> DEFINE Au == A \o <<u>>
  <2>1. At(Au, <<>>, l, B) = [lines |-> L, row |-> Len(Au) + 1, col |-> 0]
    BY <1>2, <1>3 DEF At
  <2>2. Len(Au) + 1 = Len(A) + 2
    BY <1>2
  <2> QED  BY <2>1, <2>2
<1>6. Joined(b, Len(A) + 1) = At(A, u, l, B)
  <2>1. b.lines = A \o <<u>> \o <<l>> \o B
    <3>1. b.lines = L
      BY <1>4
    <3> QED  BY <1>2, <3>1
  <2> HIDE DEF b
  <2> QED  BY <2>1, JoinedAt, ZenonT(60)
<1> HIDE DEF b
<1>7. b.lines = L /\ b.row = Len(A) + 1 /\ b.col = Size(u) /\ Line(b) = u
  BY <1>2, <1>4 DEF Line
<1>8. Size(u) \in Nat /\ b.row < Len(b.lines) /\ b.row + 1 = Len(A) + 2
  <2>1. Size(u) \in Nat
    BY Nothing, CutLine
  <2> QED  BY <1>2, <1>7, <2>1
<1>9. delete_forward(b) = Joined(b, Len(A) + 1)
  BY <1>7, <1>8 DEF delete_forward
<1>10. cursor_right(b) = [b EXCEPT !.row = Len(A) + 2, !.col = 0]
  BY <1>7, <1>8 DEF cursor_right
<1>11. [b EXCEPT !.row = Len(A) + 2, !.col = 0] = [lines |-> L, row |-> Len(A) + 2, col |-> 0]
  <2> DEFINE d == [lines |-> L, row |-> Len(A) + 2, col |-> Size(u)]
  <2>1. [b EXCEPT !.row = Len(A) + 2] = d
    BY <1>4
  <2>2. [d EXCEPT !.col = 0] = [lines |-> L, row |-> Len(A) + 2, col |-> 0]
    OBVIOUS
  <2> HIDE DEF d
  <2> QED  BY <2>1, <2>2
<1> QED  BY <1>5, <1>6, <1>9, <1>10, <1>11 DEF b, lB

LEMMA DeleteEnd ==
  ASSUME NEW A \in Rows, NEW u \in Row
  PROVE  /\ delete_forward(At(A, u, <<>>, <<>>)) = At(A, u, <<>>, <<>>)
         /\ cursor_right(At(A, u, <<>>, <<>>)) = At(A, u, <<>>, <<>>)
<1> DEFINE b == At(A, u, <<>>, <<>>)
<1>1. Shows(b, A, u, <<>>, <<>>) /\ u \o <<>> = u /\ Len(<<>>) = 0
  BY AtIsBar, Nothing
<1> HIDE DEF b
<1>2. Line(b) = u /\ b.col = Size(u) /\ Size(u) \in Nat /\ b.row = Len(b.lines) /\ b.row \in Nat
  <2>1. Size(u) \in Nat
    BY Nothing, CutLine
  <2> QED  BY <1>1, <2>1 DEF Shows
<1> QED  BY <1>2 DEF delete_forward, cursor_right, b

\* The characters from some place up to the caret go.
LEMMA KillBack ==
  ASSUME NEW A \in Rows, NEW x \in Row, NEW y \in Row, NEW v \in Row, NEW B \in Rows
  PROVE  Erase(At(A, x \o y, v, B), Size(x), Size(x \o y)) = At(A, x, v, B)
<1> DEFINE u == x \o y
           yv == y \o v
           b == At(A, u, v, B)
<1>1. u \in Row /\ yv \in Row /\ u \o v = x \o yv
  BY Joint
<1>2. Upto(x \o yv, Size(x)) = x
  BY <1>1, CutLine
<1>3. Behind(u \o v, Size(u)) = v
  BY <1>1, CutLine
<1> HIDE DEF u, yv
<1>4. Shows(b, A, u, v, B)
  BY <1>1, AtIsBar
<1>5. WithLine(b, x \o v, Size(x)) = At(A, x, v, B)
  BY <1>1, LineAt
<1> HIDE DEF b
<1>6. Line(b) = u \o v
  BY <1>4 DEF Shows
<1>7. Erase(b, Size(x), Size(u)) = WithLine(b, x \o v, Size(x))
  BY <1>1, <1>2, <1>3, <1>6 DEF Erase
<1> QED  BY <1>5, <1>7 DEF b, u

LEMMA KillEnd ==
  ASSUME NEW A \in Rows, NEW u \in Row, NEW v \in Row, NEW B \in Rows
  PROVE  Erase(At(A, u, v, B), Size(u), Size(u \o v)) = At(A, u, <<>>, B)
<1> DEFINE s == u \o v
           b == At(A, u, v, B)
<1>1. s \in Row /\ s \o <<>> = s /\ Upto(s, Size(u)) = u /\ <<>> \in Row
  BY CutLine, Nothing
<1> HIDE DEF s
<1>2. Behind(s, Size(s)) = <<>>
  <2>1. Behind(s \o <<>>, Size(s)) = <<>>
    BY <1>1, CutLine
  <2> QED  BY <1>1, <2>1
<1>3. Shows(b, A, u, v, B)
  BY AtIsBar
<1>4. WithLine(b, u \o <<>>, Size(u)) = At(A, u, <<>>, B)
  <2>1. PICK e \in Row : e = <<>>
    BY <1>1
  <2>2. WithLine(b, u \o e, Size(u)) = At(A, u, e, B)
    BY LineAt
  <2> QED  BY <2>1, <2>2
<1> HIDE DEF b
<1>5. Line(b) = s
  BY <1>3 DEF Shows, s
<1>6. Erase(b, Size(u), Size(s)) = WithLine(b, u \o <<>>, Size(u))
  BY <1>1, <1>2, <1>5 DEF Erase
<1> QED  BY <1>4, <1>6 DEF b, s

LEMMA SnapCuts ==
  ASSUME NEW s \in Row, NEW c \in Nat
  PROVE  \E x \in Row, y \in Row : s = x \o y /\ snap_to_char_boundary(s, c) = Size(x)
<1>1. s \in Seq(Chars)
  BY DEF Row
<1>2. snap_to_char_boundary(s, c) \in Boundaries(s)
  BY <1>1, Snapped
<1>3. PICK k \in 0..Len(s) : snap_to_char_boundary(s, c) = Size(SubSeq(s, 1, k))
  BY <1>2 DEF Boundaries
<1>4. /\ SubSeq(s, 1, k) \in Row /\ SubSeq(s, k + 1, Len(s)) \in Row
      /\ s = SubSeq(s, 1, k) \o SubSeq(s, k + 1, Len(s))
  BY <1>1, Halves DEF Row
<1> QED  BY <1>3, <1>4

\* The caret is in the line l, at one of its boundaries.
InLine(b, A, l, B) == \E x \in Row, y \in Row : l = x \o y /\ b = At(A, x, y, B)

LEMMA UpAt ==
  ASSUME NEW A \in Rows, NEW l \in Row, NEW u \in Row, NEW v \in Row, NEW B \in Rows
  PROVE  InLine(ToRow(At(A \o <<l>>, u, v, B), Len(A) + 1), A, l, <<u \o v>> \o B)
<1> DEFINE s == u \o v
           Al == A \o <<l>>
           b == At(Al, u, v, B)
           L == Al \o <<s>> \o B
<1>1. s \in Row /\ Size(u) \in Nat
  BY CutLine
<1> HIDE DEF s
<1>2. Stacked(L, A, l, s, B)
  BY <1>1, TwoLines
<1> HIDE DEF L
<1>3. /\ Len(Al) = Len(A) + 1 /\ Len(A) \in Nat /\ Len(B) \in Nat /\ L[Len(A) + 1] = l
      /\ L = A \o <<l>> \o (<<s>> \o B) /\ Len(L) = Len(A) + 2 + Len(B) /\ DOMAIN L = 1..Len(L)
  BY <1>2, LenProperties DEF Stacked, Rows
<1>4. PICK x \in Row, y \in Row : l = x \o y /\ snap_to_char_boundary(l, Size(u)) = Size(x)
  BY <1>1, SnapCuts
<1>5. b = [lines |-> L, row |-> Len(Al) + 1, col |-> Size(u)]
  BY DEF At, L, s
<1> HIDE DEF Al
<1>6. Len(A) + 1 \in DOMAIN L
  BY <1>3
<1>7. ToRow(b, Len(A) + 1) = [lines |-> L, row |-> Len(A) + 1, col |-> Size(x)]
  <2> DEFINE d == [lines |-> L, row |-> Len(A) + 1, col |-> Size(u)]
  <2>1. [b EXCEPT !.row = Len(A) + 1] = d
    BY <1>5
  <2>2. [d EXCEPT !.col = Size(x)] = [lines |-> L, row |-> Len(A) + 1, col |-> Size(x)]
    OBVIOUS
  <2>3. b.lines = L /\ b.col = Size(u)
    BY <1>5
  <2> HIDE DEF d, b
  <2>4. ToRow(b, Len(A) + 1) = [[b EXCEPT !.row = Len(A) + 1] EXCEPT !.col = Size(x)]
    BY <1>3, <1>4, <1>6, <2>3 DEF ToRow
  <2> QED  BY <2>1, <2>2, <2>4
<1>8. At(A, x, y, <<s>> \o B) = [lines |-> L, row |-> Len(A) + 1, col |-> Size(x)]
  BY <1>3, <1>4 DEF At
<1> QED  BY <1>4, <1>7, <1>8 DEF b, Al, s, InLine

LEMMA DownAt ==
  ASSUME NEW A \in Rows, NEW u \in Row, NEW v \in Row, NEW l \in Row, NEW B \in Rows
  PROVE  InLine(ToRow(At(A, u, v, <<l>> \o B), Len(A) + 2), A \o <<u \o v>>, l, B)
<1> DEFINE s == u \o v
           As == A \o <<s>>
           lB == <<l>> \o B
           b == At(A, u, v, lB)
           L == A \o <<s>> \o <<l>> \o B
<1>1. s \in Row /\ Size(u) \in Nat
  BY CutLine
<1> HIDE DEF s
<1>2. Stacked(L, A, s, l, B)
  BY <1>1, TwoLines
<1> HIDE DEF L
<1>3. /\ Len(As) = Len(A) + 1 /\ Len(A) \in Nat /\ Len(B) \in Nat /\ L[Len(A) + 2] = l
      /\ L = A \o <<s>> \o lB /\ L = As \o <<l>> \o B
      /\ Len(L) = Len(A) + 2 + Len(B) /\ DOMAIN L = 1..Len(L)
  BY <1>2, LenProperties DEF Stacked, Rows
<1>4. PICK x \in Row, y \in Row : l = x \o y /\ snap_to_char_boundary(l, Size(u)) = Size(x)
  BY <1>1, SnapCuts
<1> HIDE DEF lB, As
<1>5. b = [lines |-> L, row |-> Len(A) + 1, col |-> Size(u)]
  BY <1>3 DEF At, s
<1>6. Len(A) + 2 \in DOMAIN L /\ Len(As) + 1 = Len(A) + 2
  BY <1>3
<1>7. ToRow(b, Len(A) + 2) = [lines |-> L, row |-> Len(A) + 2, col |-> Size(x)]
  <2> DEFINE d == [lines |-> L, row |-> Len(A) + 2, col |-> Size(u)]
  <2>1. [b EXCEPT !.row = Len(A) + 2] = d
    BY <1>5
  <2>2. [d EXCEPT !.col = Size(x)] = [lines |-> L, row |-> Len(A) + 2, col |-> Size(x)]
    OBVIOUS
  <2>3. b.lines = L /\ b.col = Size(u)
    BY <1>5
  <2> HIDE DEF d, b
  <2>4. ToRow(b, Len(A) + 2) = [[b EXCEPT !.row = Len(A) + 2] EXCEPT !.col = Size(x)]
    BY <1>3, <1>4, <1>6, <2>3 DEF ToRow
  <2> QED  BY <2>1, <2>2, <2>4
<1>8. At(As, x, y, B) = [lines |-> L, row |-> Len(A) + 2, col |-> Size(x)]
  <2>1. L = As \o <<x \o y>> \o B
    BY <1>3, <1>4
  <2> QED  BY <1>6, <2>1 DEF At
<1> QED  BY <1>4, <1>7, <1>8 DEF b, lB, As, s, InLine

\* Above the first line and below the last there is none.
LEMMA NoRow ==
  ASSUME NEW A \in Rows, NEW u \in Row, NEW v \in Row, NEW B \in Rows, NEW r,
         r = 0 \/ r = Len(A) + 2 + Len(B)
  PROVE  ToRow(At(A, u, v, B), r) = At(A, u, v, B)
<1> DEFINE b == At(A, u, v, B)
<1>1. Shows(b, A, u, v, B)
  BY AtIsBar
<1> HIDE DEF b
<1>2. Len(b.lines) = Len(A) + 1 + Len(B) /\ b.lines \in Rows /\ Len(A) \in Nat /\ Len(B) \in Nat
  BY <1>1 DEF Shows, Bars
<1>3. DOMAIN b.lines = 1..Len(A) + 1 + Len(B)
  BY <1>2, LenProperties DEF Rows
<1>4. r \notin DOMAIN b.lines
  BY <1>2, <1>3
<1> QED  BY <1>4 DEF ToRow, b

\* How many characters before the caret delete_word_backward keeps.
Kept(u) ==
  LET blanks == {k \in DOMAIN u : u[k] = " " /\ \E j \in DOMAIN u : u[j] # " " /\ k < j}
  IN IF blanks = {} THEN 0 ELSE Max(blanks)

LEMMA KillWord ==
  ASSUME NEW A \in Rows, NEW u \in Row, NEW v \in Row, NEW B \in Rows, u # <<>>
  PROVE  /\ Kept(u) \in 0..Len(u)
         /\ delete_word_backward(At(A, u, v, B)) = At(A, SubSeq(u, 1, Kept(u)), v, B)
<1> DEFINE b == At(A, u, v, B)
           n == Len(u)
           blanks == {k \in DOMAIN u : u[k] = " " /\ \E j \in DOMAIN u : u[j] # " " /\ k < j}
           m == Kept(u)
           x == SubSeq(u, 1, m)
           y == SubSeq(u, m + 1, n)
<1>1. Shows(b, A, u, v, B) /\ Upto(u \o v, Size(u)) = u
  BY AtIsBar, CutLine
<1>2. n \in Nat /\ n > 0 /\ DOMAIN u = 1..n /\ u \in Seq(Chars)
  BY EmptySeq, LenProperties DEF Row
<1>3. blanks # {} => Max(blanks) \in 1..n
  <2>1. \A k \in blanks : k \in DOMAIN u
    OBVIOUS
  <2> HIDE DEF blanks
  <2>2. blanks \in SUBSET (0..n) /\ blanks \in SUBSET (1..n)
    BY <1>2, <2>1
  <2> QED  BY <1>2, <2>2, Greatest
<1>k. m = IF blanks = {} THEN 0 ELSE Max(blanks)
  BY DEF Kept
<1> HIDE DEF m
<1>4. m \in 0..n
  <2> HIDE DEF blanks, n
  <2> QED  BY <1>2, <1>3, <1>k
<1>5. x \in Row /\ y \in Row /\ u = x \o y
  BY <1>2, <1>4, Halves DEF Row
<1>6. Size(x) = IF blanks = {} THEN 0 ELSE Size(SubSeq(u, 1, Max(blanks)))
  <2>1. CASE blanks = {}
    <3>1. m = 0
      BY <1>k, <2>1
    <3>2. SubSeq(u, 1, 0) = <<>>
      BY SubSeqEmpty
    <3> QED  BY <2>1, <3>1, <3>2, Nothing
  <2>2. CASE blanks # {}
    BY <1>k, <2>2
  <2> QED  BY <2>1, <2>2
<1>7. Size(u) > 0
  <2>1. Size(u) = Place(u, n)
    BY <1>2, Sizes
  <2>2. Place(u, n) \in Nat /\ Place(u, n) >= n
    BY <1>2, PlaceIsNat
  <2> HIDE DEF n
  <2> QED  BY <1>2, <2>1, <2>2
<1>8. Erase(b, Size(x), Size(u)) = At(A, x, v, B)
  <2> HIDE DEF x, y
  <2>1. Erase(At(A, x \o y, v, B), Size(x), Size(x \o y)) = At(A, x, v, B)
    BY <1>5, KillBack
  <2> QED  BY <1>5, <2>1
<1> HIDE DEF b, x, y
<1>9. Line(b) = u \o v /\ b.col = Size(u) /\ b.col # 0
  BY <1>1, <1>7, CutLine DEF Shows
<1>10. delete_word_backward(b) = Erase(b, Size(x), Size(u))
  <2>1. {k \in DOMAIN u : u[k] = " " /\ \E j \in {i \in DOMAIN u : u[i] # " "} : k < j} = blanks
    OBVIOUS
  <2> HIDE DEF blanks
  <2> QED  BY <1>1, <1>6, <1>9, <2>1 DEF delete_word_backward
<1> QED  BY <1>4, <1>8, <1>10 DEF b, x, m

-----------------------------------------------------------------------------
(* Folds *)

\* The sets that a fold goes through.
Few(n, k) == {S \in SUBSET (1..n) : Cardinality(S) <= k}

LEMMA WithoutMax ==
  ASSUME NEW n \in Nat, NEW S \in SUBSET (1..n), S # {}
  PROVE  /\ Max(S) \in S /\ Max(S) \in 1..n /\ S \ {Max(S)} \in SUBSET (1..n)
         /\ IsFiniteSet(S) /\ Cardinality(S) \in Nat
         /\ Cardinality(S \ {Max(S)}) = Cardinality(S) - 1
<1>1. Max(S) \in S
  <2>1. S \in SUBSET (0..n)
    OBVIOUS
  <2> QED  BY <2>1, Greatest
<1>2. IsFiniteSet(S)
  <2>1. IsFiniteSet(1..n)
    BY FS_Interval
  <2> QED  BY <2>1, FS_Subset
<1>3. Cardinality(S) \in Nat
  BY <1>2, FS_CardinalityType
<1>4. Cardinality(S \ {Max(S)}) = Cardinality(S) - 1
  BY <1>1, <1>2, FS_RemoveElement
<1> QED  BY <1>1, <1>2, <1>3, <1>4

\* A fold over the numbers up to n is a function.
IsFold(h, T, base, n, F) ==
  /\ h \in [SUBSET (1..n) -> T]
  /\ \A S \in SUBSET (1..n) : h[S] = IF S = {} THEN base ELSE F[<<Max(S), h[S \ {Max(S)}]>>]

LEMMA FoldExists ==
  ASSUME NEW T, NEW base \in T, NEW n \in Nat, NEW F \in [(1..n) \X T -> T]
  PROVE  \E h : IsFold(h, T, base, n, F)
<1> DEFINE Solves(k, h) ==
             /\ h \in [Few(n, k) -> T]
             /\ \A S \in Few(n, k) : h[S] = IF S = {} THEN base ELSE F[<<Max(S), h[S \ {Max(S)}]>>]
           P == {k \in 0..n : \E h : Solves(k, h)}
<1>1. 0 \in P
  <2> DEFINE h == [S \in Few(n, 0) |-> base]
  <2>1. ASSUME NEW S \in Few(n, 0) PROVE S = {}
    <3>1. S \in SUBSET (1..n) /\ Cardinality(S) <= 0
      BY DEF Few
    <3>2. SUFFICES ASSUME S # {} PROVE FALSE
      OBVIOUS
    <3>3. IsFiniteSet(S) /\ Cardinality(S) \in Nat
      BY <3>1, <3>2, WithoutMax
    <3>4. Cardinality(S) = 0
      BY <3>1, <3>3
    <3> QED  BY <3>2, <3>3, <3>4, FS_EmptySet
  <2>2. Solves(0, h)
    BY <2>1
  <2> HIDE DEF Solves
  <2> QED  BY <2>2
<1>2. ASSUME NEW k \in 1..n, k - 1 \in P PROVE k \in P
  <2>1. PICK h : Solves(k - 1, h)
    BY <1>2
  <2> DEFINE g == [S \in Few(n, k) |-> IF S = {} THEN base ELSE F[<<Max(S), h[S \ {Max(S)}]>>]]
  <2>2. ASSUME NEW S \in Few(n, k), S # {}
        PROVE  /\ Max(S) \in 1..n /\ S \ {Max(S)} \in Few(n, k - 1)
               /\ S \ {Max(S)} \in Few(n, k) /\ h[S \ {Max(S)}] \in T
    <3>1. S \in SUBSET (1..n) /\ Cardinality(S) <= k
      BY DEF Few
    <3>2. /\ Max(S) \in 1..n /\ S \ {Max(S)} \in SUBSET (1..n)
          /\ Cardinality(S) \in Nat /\ Cardinality(S \ {Max(S)}) = Cardinality(S) - 1
      BY <2>2, <3>1, WithoutMax
    <3>3. Cardinality(S \ {Max(S)}) <= k - 1 /\ Cardinality(S \ {Max(S)}) <= k
      BY <3>1, <3>2
    <3> QED  BY <2>1, <3>2, <3>3 DEF Few
  <2>3. g \in [Few(n, k) -> T]
    <3> SUFFICES ASSUME NEW S \in Few(n, k), S # {}
                 PROVE  F[<<Max(S), h[S \ {Max(S)}]>>] \in T
      OBVIOUS
    <3>1. <<Max(S), h[S \ {Max(S)}]>> \in (1..n) \X T
      BY <2>2
    <3> QED  BY <3>1
  <2>4. ASSUME NEW S \in Few(n, k - 1) PROVE S \in Few(n, k) /\ g[S] = h[S]
    <3>1. S \in Few(n, k)
      <4>1. S \in SUBSET (1..n) /\ Cardinality(S) <= k - 1
        BY DEF Few
      <4>2. Cardinality(S) \in Nat
        <5>1. IsFiniteSet(1..n)
          BY FS_Interval
        <5>2. IsFiniteSet(S)
          BY <4>1, <5>1, FS_Subset
        <5> QED  BY <5>2, FS_CardinalityType
      <4>3. Cardinality(S) <= k
        BY <4>1, <4>2
      <4> QED  BY <4>1, <4>3 DEF Few
    <3> QED  BY <2>1, <3>1
  <2>5. \A S \in Few(n, k) : g[S] = IF S = {} THEN base ELSE F[<<Max(S), g[S \ {Max(S)}]>>]
    BY <2>2, <2>4
  <2>6. Solves(k, g)
    BY <2>3, <2>5
  <2> HIDE DEF Solves
  <2> QED  BY <2>6
<1>3. n \in P
  <2>1. \A k \in 1..n : k - 1 \in P => k \in P
    BY <1>2
  <2> HIDE DEF P
  <2>2. \A k \in 0..n : k \in P
    BY <1>1, <2>1, Climb
  <2> QED  BY <2>2
<1>4. Few(n, n) = SUBSET (1..n)
  <2> SUFFICES ASSUME NEW S \in SUBSET (1..n) PROVE Cardinality(S) <= n
    BY DEF Few
  <2>1. IsFiniteSet(1..n) /\ Cardinality(1..n) = n
    BY FS_Interval
  <2>2. Cardinality(S) <= Cardinality(1..n)
    BY <2>1, FS_Subset
  <2> QED  BY <2>1, <2>2
<1> QED  BY <1>3, <1>4 DEF IsFold

\* The numbers up to n, one after another.
LEMMA UpTo ==
  ASSUME NEW n \in Nat
  PROVE  /\ 1..0 = {} /\ 1..n \in SUBSET (1..n)
         /\ \A k \in 1..n : /\ 1..k \in SUBSET (1..n) /\ 1..k # {}
                            /\ Max(1..k) = k /\ (1..k) \ {k} = 1..k - 1
<1> SUFFICES ASSUME NEW k \in 1..n
             PROVE  /\ 1..k \in SUBSET (1..n) /\ 1..k # {}
                    /\ Max(1..k) = k /\ (1..k) \ {k} = 1..k - 1
  OBVIOUS
<1>1. 1..k \in SUBSET (0..k) /\ k \in 1..k /\ k \in Nat /\ 1..k \in SUBSET (1..n)
  OBVIOUS
<1>2. Max(1..k) \in 1..k /\ k <= Max(1..k)
  BY <1>1, Greatest
<1> QED  BY <1>1, <1>2

Letters == Chars \cup {Newline}

\* What insert_str does for each character.
Put(b, c) == IF c = Newline THEN insert_newline(b) ELSE insert_char(b, c)

LEMMA PutTyped ==
  ASSUME NEW b \in Bars, NEW c \in Letters
  PROVE  Put(b, c) \in Bars
<1>1. PICK A \in Rows, u \in Row, v \in Row, B \in Rows : b = At(A, u, v, B)
  BY BarIsAt
<1>2. CASE c = Newline
  <2>1. A \o <<u>> \in Rows /\ <<>> \in Row
    BY One, Joint, Nothing
  <2>2. insert_newline(b) = At(A \o <<u>>, <<>>, v, B)
    BY <1>1, InsertNewline
  <2>3. Shows(At(A \o <<u>>, <<>>, v, B), A \o <<u>>, <<>>, v, B)
    BY <2>1, AtIsBar
  <2> QED  BY <1>2, <2>2, <2>3 DEF Put, Shows
<1>3. CASE c # Newline
  <2>1. c \in Chars
    BY <1>3 DEF Letters
  <2>2. insert_char(b, c) = At(A, u \o <<c>>, v, B)
    BY <1>1, <2>1, InsertChar
  <2>3. u \o <<c>> \in Row
    BY <2>1, One, Joint
  <2>4. Shows(At(A, u \o <<c>>, v, B), A, u \o <<c>>, v, B)
    BY <2>3, AtIsBar
  <2> QED  BY <1>3, <2>2, <2>4 DEF Put, Shows
<1> QED  BY <1>2, <1>3

\* insert_str puts one character after another.
LEMMA InsertStr ==
  ASSUME NEW b \in Bars, NEW s \in Seq(Letters)
  PROVE  \E g \in [0..Len(s) -> Bars] :
           /\ g[0] = b /\ insert_str(b, s) = g[Len(s)]
           /\ \A k \in 1..Len(s) : g[k] = Put(g[k - 1], s[k])
<1> DEFINE n == Len(s)
           F == [p \in (1..n) \X Bars |-> Put(p[2], s[p[1]])]
           Good(h) == h = [S \in SUBSET (1..n) |->
                             IF S = {} THEN b ELSE Put(h[S \ {Max(S)}], s[Max(S)])]
           c == CHOOSE h : Good(h)
<1>1. n \in Nat /\ DOMAIN s = 1..n /\ \A k \in 1..n : s[k] \in Letters
  BY LenProperties, ElementOfSeq
<1>2. insert_str(b, s) = c[1..n]
  <2>1. insert_str(b, s) = (CHOOSE h : h = [S \in SUBSET (DOMAIN s) |->
                             IF S = {} THEN b ELSE Put(h[S \ {Max(S)}], s[Max(S)])])[DOMAIN s]
    BY DEF insert_str, FoldLeft, MapThenFoldSet, Put
  <2> QED  BY <1>1, <2>1
<1> HIDE DEF n
<1>3. F \in [(1..n) \X Bars -> Bars]
  BY <1>1, PutTyped
<1> HIDE DEF F
<1>a. PICK h : IsFold(h, Bars, b, n, F)
  BY <1>1, <1>3, FoldExists
<1>4. /\ h \in [SUBSET (1..n) -> Bars]
      /\ \A S \in SUBSET (1..n) : h[S] = IF S = {} THEN b ELSE F[<<Max(S), h[S \ {Max(S)}]>>]
  BY <1>a DEF IsFold
<1>5. Good(h)
  <2>1. ASSUME NEW S \in SUBSET (1..n), S # {}
        PROVE  F[<<Max(S), h[S \ {Max(S)}]>>] = Put(h[S \ {Max(S)}], s[Max(S)])
    <3>1. Max(S) \in 1..n /\ h[S \ {Max(S)}] \in Bars
      BY <1>1, <1>4, <2>1, WithoutMax
    <3> QED  BY <3>1 DEF F
  <2>2. \A S \in SUBSET (1..n) : h[S] = IF S = {} THEN b ELSE Put(h[S \ {Max(S)}], s[Max(S)])
    BY <1>4, <2>1
  <2> QED  BY <1>4, <2>2
<1>6. Good(c)
  <2> HIDE DEF Good
  <2> QED  BY <1>5
<1> HIDE DEF c
<1> DEFINE g == [k \in 0..n |-> c[1..k]]
<1>7. g[0] = b
  BY <1>1, <1>6, UpTo
<1>8. ASSUME NEW k \in 1..n PROVE g[k] = Put(g[k - 1], s[k])
  <2>1. 1..k \in SUBSET (1..n) /\ 1..k # {} /\ Max(1..k) = k /\ (1..k) \ {k} = 1..k - 1
    BY <1>1, UpTo
  <2>2. c[1..k] = Put(c[1..k - 1], s[k])
    BY <1>6, <2>1
  <2>3. k \in 0..n /\ k - 1 \in 0..n
    BY <1>1
  <2> QED  BY <2>2, <2>3
<1>9. \A k \in 0..n : k \in {j \in 0..n : g[j] \in Bars}
  <2> DEFINE P == {j \in 0..n : g[j] \in Bars}
  <2>1. 0 \in P
    BY <1>1, <1>7
  <2>2. ASSUME NEW k \in 1..n, k - 1 \in P PROVE k \in P
    <3>1. g[k - 1] \in Bars /\ s[k] \in Letters
      BY <1>1, <2>2
    <3>2. Put(g[k - 1], s[k]) \in Bars
      <4> HIDE DEF g
      <4> QED  BY <3>1, PutTyped
    <3> QED  BY <1>8, <3>2
  <2> HIDE DEF P, g
  <2>3. \A k \in 0..n : k \in P
    BY <1>1, <2>1, <2>2, Climb
  <2> QED  BY <2>3 DEF P
<1>10. g \in [0..n -> Bars] /\ insert_str(b, s) = g[n]
  BY <1>1, <1>2, <1>9
<1> HIDE DEF g
<1> QED  BY <1>7, <1>8, <1>10 DEF n

-----------------------------------------------------------------------------
(* The text of rows *)

Flat(L) == FoldLeft(LAMBDA acc, line : Append(acc, Newline) \o line, Head(L), Tail(L))

\* What the text of the first rows is, and of those with one row more.
IsFlat(g, L) ==
  /\ g \in [0..Len(L) - 1 -> Seq(Letters)] /\ g[0] = L[1]
  /\ \A k \in 1..Len(L) - 1 : g[k] = Append(g[k - 1], Newline) \o L[k + 1]

LEMMA RowText ==
  /\ \A l \in Row : l \in Seq(Letters)
  /\ \A s \in Seq(Letters), l \in Row : /\ Append(s, Newline) \o l \in Seq(Letters)
                                        /\ Append(s, Newline) = s \o <<Newline>>
<1>1. ASSUME NEW l \in Row PROVE l \in Seq(Letters)
  <2>1. Chars \subseteq Letters
    BY DEF Letters
  <2> QED  BY <2>1 DEF Row
<1>2. ASSUME NEW s \in Seq(Letters), NEW l \in Row
      PROVE  /\ Append(s, Newline) \o l \in Seq(Letters)
             /\ Append(s, Newline) = s \o <<Newline>>
  <2>1. Newline \in Letters
    BY DEF Letters
  <2>2. l \in Seq(Letters)
    BY <1>1
  <2>3. Append(s, Newline) \in Seq(Letters)
    BY <2>1
  <2>4. Append(s, Newline) = s \o <<Newline>>
    BY <2>1, AppendIsConcat
  <2> QED  BY <2>2, <2>3, <2>4
<1> QED  BY <1>1, <1>2

LEMMA FlatExists ==
  ASSUME NEW L \in Rows, L # <<>>
  PROVE  \E g : IsFlat(g, L) /\ Flat(L) = g[Len(L) - 1]
<1> DEFINE s == Tail(L)
           n == Len(s)
           b == Head(L)
           T == Seq(Letters)
           Add(acc, line) == Append(acc, Newline) \o line
           F == [p \in (1..n) \X T |-> Add(p[2], s[p[1]])]
           Good(h) == h = [S \in SUBSET (1..n) |->
                             IF S = {} THEN b ELSE Add(h[S \ {Max(S)}], s[Max(S)])]
           c == CHOOSE h : Good(h)
<1>1. /\ n \in Nat /\ n = Len(L) - 1 /\ DOMAIN s = 1..n /\ b = L[1] /\ b \in Row
      /\ \A k \in 1..n : s[k] \in Row /\ s[k] = L[k + 1]
  <2>1. /\ L \in Seq(Row) /\ Head(L) \in Row /\ Tail(L) \in Seq(Row) /\ Head(L) = L[1]
        /\ Len(Tail(L)) = Len(L) - 1 /\ \A k \in 1..Len(Tail(L)) : Tail(L)[k] = L[k + 1]
    BY HeadTailProperties DEF Rows
  <2> HIDE DEF s
  <2>2. n \in Nat /\ DOMAIN s = 1..n /\ \A k \in 1..n : s[k] \in Row
    BY <2>1, LenProperties, ElementOfSeq DEF s
  <2> QED  BY <2>1, <2>2 DEF s
<1>t. b \in T /\ \A k \in 1..n : \A a \in T : Add(a, s[k]) \in T
  BY <1>1, RowText
<1>2. Flat(L) = c[1..n]
  <2>1. Flat(L) = (CHOOSE h : h = [S \in SUBSET (DOMAIN s) |->
                      IF S = {} THEN b ELSE Add(h[S \ {Max(S)}], s[Max(S)])])[DOMAIN s]
    BY DEF Flat, FoldLeft, MapThenFoldSet
  <2> QED  BY <1>1, <2>1
<1> HIDE DEF n, s, b, Add, T
<1>3. F \in [(1..n) \X T -> T]
  BY <1>t
<1> HIDE DEF F
<1>a. PICK h : IsFold(h, T, b, n, F)
  BY <1>1, <1>t, <1>3, FoldExists
<1>4. /\ h \in [SUBSET (1..n) -> T]
      /\ \A S \in SUBSET (1..n) : h[S] = IF S = {} THEN b ELSE F[<<Max(S), h[S \ {Max(S)}]>>]
  BY <1>a DEF IsFold
<1>5. Good(h)
  <2>1. ASSUME NEW S \in SUBSET (1..n), S # {}
        PROVE  F[<<Max(S), h[S \ {Max(S)}]>>] = Add(h[S \ {Max(S)}], s[Max(S)])
    <3>1. Max(S) \in 1..n /\ h[S \ {Max(S)}] \in T
      BY <1>1, <1>4, <2>1, WithoutMax
    <3> QED  BY <3>1 DEF F
  <2>2. \A S \in SUBSET (1..n) : h[S] = IF S = {} THEN b ELSE Add(h[S \ {Max(S)}], s[Max(S)])
    BY <1>4, <2>1
  <2> QED  BY <1>4, <2>2
<1>6. Good(c)
  <2> HIDE DEF Good
  <2> QED  BY <1>5
<1> HIDE DEF c
<1> DEFINE g == [k \in 0..n |-> c[1..k]]
<1>7. g[0] = b
  BY <1>1, <1>6, UpTo
<1>8. ASSUME NEW k \in 1..n PROVE g[k] = Add(g[k - 1], s[k])
  <2>1. 1..k \in SUBSET (1..n) /\ 1..k # {} /\ Max(1..k) = k /\ (1..k) \ {k} = 1..k - 1
    BY <1>1, UpTo, ZenonT(60)
  <2>2. c[1..k] = Add(c[1..k - 1], s[k])
    BY <1>6, <2>1
  <2>3. k \in 0..n /\ k - 1 \in 0..n
    BY <1>1
  <2> QED  BY <2>2, <2>3
<1>9. \A k \in 0..n : k \in {j \in 0..n : g[j] \in T}
  <2> DEFINE P == {j \in 0..n : g[j] \in T}
  <2>1. 0 \in P
    BY <1>1, <1>7, <1>t
  <2>2. ASSUME NEW k \in 1..n, k - 1 \in P PROVE k \in P
    <3>1. g[k - 1] \in T
      BY <2>2
    <3>2. Add(g[k - 1], s[k]) \in T
      <4> HIDE DEF g
      <4> QED  BY <3>1, <1>t
    <3>3. g[k] \in T /\ k \in 0..n
      <4>1. g[k] = Add(g[k - 1], s[k])
        BY <1>8
      <4>2. k \in 0..n
        BY <1>1
      <4> HIDE DEF g
      <4> QED  BY <3>2, <4>1, <4>2
    <3> HIDE DEF g
    <3> QED  BY <3>3
  <2> HIDE DEF P, g
  <2>3. \A k \in 0..n : k \in P
    BY <1>1, <2>1, <2>2, Climb
  <2> QED  BY <2>3 DEF P
<1>10. g \in [0..n -> T] /\ Flat(L) = g[n]
  BY <1>1, <1>2, <1>9
<1> HIDE DEF g
<1>11. IsFlat(g, L)
  <2>1. \A k \in 1..n : g[k] = Append(g[k - 1], Newline) \o L[k + 1]
    BY <1>1, <1>8 DEF Add
  <2> QED  BY <1>1, <1>7, <1>10, <2>1 DEF IsFlat, T
<1> QED  BY <1>1, <1>10, <1>11

LEMMA TextTyped ==
  ASSUME NEW b \in Bars
  PROVE  Text(b) \in Seq(Letters) /\ Text(b) = Flat(b.lines)
<1>1. b.lines \in Rows /\ b.lines # <<>> /\ Len(b.lines) \in Nat \ {0}
  <2>1. b.lines \in Rows /\ b.row \in 1..Len(b.lines)
    BY DEF Bars
  <2>2. Len(b.lines) \in Nat
    BY <2>1, LenProperties DEF Rows
  <2> QED  BY <2>1, <2>2, Nothing
<1>2. PICK g : IsFlat(g, b.lines) /\ Flat(b.lines) = g[Len(b.lines) - 1]
  BY <1>1, FlatExists
<1>3. Flat(b.lines) \in Seq(Letters)
  BY <1>1, <1>2 DEF IsFlat
<1> QED  BY <1>3 DEF Text, Flat

-----------------------------------------------------------------------------
(* Keys lead from bars to bars *)

LEMMA EndsOf ==
  /\ \A u \in Row : u = <<>> \/ \E x \in Row, c \in Chars : u = x \o <<c>>
  /\ \A u \in Row : u = <<>> \/ \E x \in Row, c \in Chars : u = <<c>> \o x
  /\ \A A \in Rows : A = <<>> \/ \E C \in Rows, l \in Row : A = C \o <<l>>
  /\ \A A \in Rows : A = <<>> \/ \E C \in Rows, l \in Row : A = <<l>> \o C
<1>1. ASSUME NEW X, NEW s \in Seq(X), s # <<>>
      PROVE  /\ \E x \in Seq(X), c \in X : s = x \o <<c>>
             /\ \E x \in Seq(X), c \in X : s = <<c>> \o x
  <2>1. \E x \in Seq(X), c \in X : s = x \o <<c>>
    <3>1. /\ SubSeq(s, 1, Len(s) - 1) \in Seq(X) /\ s[Len(s)] \in X
          /\ s = SubSeq(s, 1, Len(s) - 1) \o <<s[Len(s)]>>
      BY <1>1, LastEntry
    <3> QED  BY <3>1
  <2>2. \E x \in Seq(X), c \in X : s = <<c>> \o x
    <3>1. Len(s) \in Nat /\ Len(s) > 0
      BY <1>1, LastEntry
    <3>2. 1 \in 1..Len(s)
      BY <3>1
    <3>3. /\ s[1] \in X /\ SubSeq(s, 1 + 1, Len(s)) \in Seq(X)
          /\ s = SubSeq(s, 1, 1 - 1) \o <<s[1]>> \o SubSeq(s, 1 + 1, Len(s))
      BY <3>2, Around
    <3>4. SubSeq(s, 1, 1 - 1) = <<>>
      BY SubSeqEmpty
    <3>5. <<>> \o <<s[1]>> = <<s[1]>>
      BY <3>3, ConcatEmptySeq
    <3> QED  BY <3>3, <3>4, <3>5
  <2> QED  BY <2>1, <2>2
<1>2. \A u \in Row : u = <<>> \/ \E x \in Row, c \in Chars : u = x \o <<c>>
  BY <1>1 DEF Row
<1>3. \A u \in Row : u = <<>> \/ \E x \in Row, c \in Chars : u = <<c>> \o x
  BY <1>1 DEF Row
<1>4. \A A \in Rows : A = <<>> \/ \E C \in Rows, l \in Row : A = C \o <<l>>
  BY <1>1 DEF Rows
<1>5. \A A \in Rows : A = <<>> \/ \E C \in Rows, l \in Row : A = <<l>> \o C
  BY <1>1 DEF Rows
<1> QED  BY <1>2, <1>3, <1>4, <1>5

LEMMA IsBar ==
  \A A, B \in Rows : \A u, v \in Row : At(A, u, v, B) \in Bars
<1> SUFFICES ASSUME NEW A \in Rows, NEW B \in Rows, NEW u \in Row, NEW v \in Row
             PROVE  At(A, u, v, B) \in Bars
  OBVIOUS
<1>1. Shows(At(A, u, v, B), A, u, v, B)
  BY AtIsBar
<1> QED  BY <1>1 DEF Shows

\* The first and the last column of the line.
LEMMA HomeAndEnd ==
  ASSUME NEW A \in Rows, NEW u \in Row, NEW v \in Row, NEW B \in Rows
  PROVE  /\ Moved(At(A, u, v, B), 0) = At(A, <<>>, u \o v, B)
         /\ Moved(At(A, u, v, B), Size(Line(At(A, u, v, B)))) = At(A, u \o v, <<>>, B)
<1> DEFINE b == At(A, u, v, B)
           s == u \o v
<1>1. Shows(b, A, u, v, B)
  BY AtIsBar
<1>2. s \in Row /\ <<>> \o s = u \o v /\ s \o <<>> = u \o v /\ Size(<<>>) = 0
  BY CutLine, Nothing
<1> HIDE DEF b
<1>3. PICK e \in Row : e = <<>>
  BY Nothing
<1>4. Line(b) = s
  BY <1>1 DEF Shows
<1> HIDE DEF s
<1>5. Moved(b, Size(e)) = At(A, e, s, B)
  <2>1. e \o s = u \o v
    BY <1>2, <1>3
  <2> QED  BY <2>1, MoveAt DEF b
<1>6. Moved(b, Size(s)) = At(A, s, e, B)
  <2>1. s \o e = u \o v
    BY <1>2, <1>3
  <2> QED  BY <2>1, MoveAt DEF b
<1> QED  BY <1>2, <1>3, <1>4, <1>5, <1>6 DEF s, b

\* The two kills that empty a part of the line.
LEMMA KillLine ==
  ASSUME NEW A \in Rows, NEW u \in Row, NEW v \in Row, NEW B \in Rows, NEW b, b = At(A, u, v, B)
  PROVE  /\ Erase(b, 0, b.col) = At(A, <<>>, v, B)
         /\ Erase(b, b.col, Size(Line(b))) = At(A, u, <<>>, B)
<1>1. Shows(At(A, u, v, B), A, u, v, B)
  BY AtIsBar
<1>2. b.col = Size(u) /\ Line(b) = u \o v
  BY <1>1 DEF Shows
<1>3. PICK e \in Row : e = <<>>
  BY Nothing
<1>4. e \o u = u /\ Size(e) = 0
  BY <1>3, Nothing
<1>5. Erase(At(A, e \o u, v, B), Size(e), Size(e \o u)) = At(A, e, v, B)
  BY KillBack
<1>6. Erase(At(A, u, v, B), Size(u), Size(u \o v)) = At(A, u, <<>>, B)
  BY KillEnd
<1> QED  BY <1>2, <1>3, <1>4, <1>5, <1>6

LEMMA BackspaceTyped ==
  ASSUME NEW b \in Bars
  PROVE  backspace(b) \in Bars /\ cursor_left(b) \in Bars
<1>1. PICK A \in Rows, u \in Row, v \in Row, B \in Rows : b = At(A, u, v, B)
  BY BarIsAt
<1>2. CASE u # <<>>
  <2>1. PICK x \in Row, c \in Chars : u = x \o <<c>>
    BY <1>2, EndsOf
  <2>2. backspace(b) = At(A, x, v, B) /\ cursor_left(b) = At(A, x, <<c>> \o v, B)
    BY <1>1, <2>1, BackspaceIn
  <2>3. <<c>> \o v \in Row
    BY One, Joint
  <2> QED  BY <2>2, <2>3, IsBar
<1>3. CASE u = <<>> /\ A # <<>>
  <2>1. PICK C \in Rows, l \in Row : A = C \o <<l>>
    BY <1>3, EndsOf
  <2>2. backspace(b) = At(C, l, v, B) /\ cursor_left(b) = At(C, l, <<>>, <<v>> \o B)
    BY <1>1, <1>3, <2>1, BackspaceUp
  <2>3. <<v>> \o B \in Rows /\ <<>> \in Row
    BY One, Joint, Nothing
  <2> QED  BY <2>2, <2>3, IsBar
<1>4. CASE u = <<>> /\ A = <<>>
  <2>1. backspace(b) = b /\ cursor_left(b) = b
    BY <1>1, <1>4, BackspaceTop
  <2> QED  BY <2>1
<1> QED  BY <1>2, <1>3, <1>4

LEMMA DeleteTyped ==
  ASSUME NEW b \in Bars
  PROVE  delete_forward(b) \in Bars /\ cursor_right(b) \in Bars
<1>1. PICK A \in Rows, u \in Row, v \in Row, B \in Rows : b = At(A, u, v, B)
  BY BarIsAt
<1>2. CASE v # <<>>
  <2>1. PICK x \in Row, c \in Chars : v = <<c>> \o x
    BY <1>2, EndsOf
  <2>2. delete_forward(b) = At(A, u, x, B) /\ cursor_right(b) = At(A, u \o <<c>>, x, B)
    BY <1>1, <2>1, DeleteIn
  <2>3. u \o <<c>> \in Row
    BY One, Joint
  <2> QED  BY <2>2, <2>3, IsBar
<1>3. CASE v = <<>> /\ B # <<>>
  <2>1. PICK C \in Rows, l \in Row : B = <<l>> \o C
    BY <1>3, EndsOf
  <2>2. delete_forward(b) = At(A, u, l, C) /\ cursor_right(b) = At(A \o <<u>>, <<>>, l, C)
    BY <1>1, <1>3, <2>1, DeleteDown
  <2>3. A \o <<u>> \in Rows /\ <<>> \in Row
    BY One, Joint, Nothing
  <2> QED  BY <2>2, <2>3, IsBar
<1>4. CASE v = <<>> /\ B = <<>>
  <2>1. delete_forward(b) = b /\ cursor_right(b) = b
    BY <1>1, <1>4, DeleteEnd
  <2> QED  BY <2>1
<1> QED  BY <1>2, <1>3, <1>4

LEMMA ToRowTyped ==
  ASSUME NEW b \in Bars
  PROVE  ToRow(b, b.row - 1) \in Bars /\ ToRow(b, b.row + 1) \in Bars
<1>1. PICK A \in Rows, u \in Row, v \in Row, B \in Rows : b = At(A, u, v, B)
  BY BarIsAt
<1>2. Shows(b, A, u, v, B)
  BY <1>1, AtIsBar
<1>3. /\ b.row = Len(A) + 1 /\ Len(A) \in Nat /\ Len(B) \in Nat /\ u \o v \in Row
      /\ <<u \o v>> \in Rows
  BY <1>2, Joint, One DEF Shows
<1>4. ToRow(b, b.row - 1) \in Bars
  <2>1. CASE A = <<>>
    <3>1. b.row - 1 = 0
      BY <1>3, <2>1, Nothing
    <3> QED  BY <1>1, <3>1, NoRow
  <2>2. CASE A # <<>>
    <3>1. PICK C \in Rows, l \in Row : A = C \o <<l>>
      BY <2>2, EndsOf
    <3>2. b.row - 1 = Len(C) + 1
      <4>1. Len(C \o <<l>>) = Len(C) + 1 /\ Len(C) \in Nat
        BY Entry DEF Rows
      <4> QED  BY <1>3, <3>1, <4>1
    <3>a. InLine(ToRow(At(C \o <<l>>, u, v, B), Len(C) + 1), C, l, <<u \o v>> \o B)
      BY UpAt
    <3>3. PICK x \in Row, y \in Row :
            ToRow(At(C \o <<l>>, u, v, B), Len(C) + 1) = At(C, x, y, <<u \o v>> \o B)
      BY <3>a DEF InLine
    <3>4. <<u \o v>> \o B \in Rows
      BY <1>3, Joint
    <3>5. ToRow(b, b.row - 1) = At(C, x, y, <<u \o v>> \o B)
      BY <1>1, <3>1, <3>2, <3>3
    <3> QED  BY <3>4, <3>5, IsBar
  <2> QED  BY <2>1, <2>2
<1>5. ToRow(b, b.row + 1) \in Bars
  <2>1. CASE B = <<>>
    <3>1. b.row + 1 = Len(A) + 2 + Len(B)
      BY <1>3, <2>1, Nothing
    <3> QED  BY <1>1, <3>1, NoRow
  <2>2. CASE B # <<>>
    <3>1. PICK C \in Rows, l \in Row : B = <<l>> \o C
      BY <2>2, EndsOf
    <3>2. b.row + 1 = Len(A) + 2
      BY <1>3
    <3>a. InLine(ToRow(At(A, u, v, <<l>> \o C), Len(A) + 2), A \o <<u \o v>>, l, C)
      BY DownAt
    <3>3. PICK x \in Row, y \in Row :
            ToRow(At(A, u, v, <<l>> \o C), Len(A) + 2) = At(A \o <<u \o v>>, x, y, C)
      BY <3>a DEF InLine
    <3>4. A \o <<u \o v>> \in Rows
      BY <1>3, Joint
    <3>5. ToRow(b, b.row + 1) = At(A \o <<u \o v>>, x, y, C)
      BY <1>1, <3>1, <3>2, <3>3
    <3> QED  BY <3>4, <3>5, IsBar
  <2> QED  BY <2>1, <2>2
<1> QED  BY <1>4, <1>5

LEMMA KillWordTyped ==
  ASSUME NEW b \in Bars
  PROVE  delete_word_backward(b) \in Bars
<1>1. PICK A \in Rows, u \in Row, v \in Row, B \in Rows : b = At(A, u, v, B)
  BY BarIsAt
<1>2. CASE u = <<>>
  <2>1. Shows(b, A, u, v, B)
    BY <1>1, AtIsBar
  <2>2. b.col = 0
    BY <1>2, <2>1, Nothing DEF Shows
  <2>3. delete_word_backward(b) = backspace(b)
    BY <2>2 DEF delete_word_backward
  <2> QED  BY <2>3, BackspaceTyped
<1>3. CASE u # <<>>
  <2>1. /\ Kept(u) \in 0..Len(u)
        /\ delete_word_backward(b) = At(A, SubSeq(u, 1, Kept(u)), v, B)
    BY <1>1, <1>3, KillWord
  <2>2. SubSeq(u, 1, Kept(u)) \in Row
    BY <2>1, Halves DEF Row
  <2> QED  BY <2>1, <2>2, IsBar
<1> QED  BY <1>2, <1>3

\* What each key of the input bar calls.
LEMMA KeyIs ==
  ASSUME NEW b
  PROVE  /\ \A k \in Chars : handle_key(b, k) = insert_char(b, k)
         /\ handle_key(b, "newline") = insert_newline(b)
         /\ handle_key(b, "backspace") = backspace(b)
         /\ handle_key(b, "delete") = delete_forward(b)
         /\ handle_key(b, "kill_start") = Erase(b, 0, b.col)
         /\ handle_key(b, "kill_end") = Erase(b, b.col, Size(Line(b)))
         /\ handle_key(b, "kill_word") = delete_word_backward(b)
         /\ handle_key(b, "left") = cursor_left(b)
         /\ handle_key(b, "right") = cursor_right(b)
         /\ handle_key(b, "up") = ToRow(b, b.row - 1)
         /\ handle_key(b, "down") = ToRow(b, b.row + 1)
         /\ handle_key(b, "home") = Moved(b, 0)
         /\ handle_key(b, "end") = Moved(b, Size(Line(b)))
<1>1. \A k \in Chars : handle_key(b, k) = insert_char(b, k)
  BY DEF handle_key, Chars
<1>2. handle_key(b, "newline") = insert_newline(b)
  BY DEF handle_key, Chars
<1>3. handle_key(b, "backspace") = backspace(b)
  BY DEF handle_key, Chars
<1>4. handle_key(b, "delete") = delete_forward(b)
  BY DEF handle_key, Chars
<1>5. handle_key(b, "kill_start") = Erase(b, 0, b.col)
  BY DEF handle_key, Chars
<1>6. handle_key(b, "kill_end") = Erase(b, b.col, Size(Line(b)))
  BY DEF handle_key, Chars
<1>7. handle_key(b, "kill_word") = delete_word_backward(b)
  BY DEF handle_key, Chars
<1>8. handle_key(b, "left") = cursor_left(b)
  BY DEF handle_key, Chars
<1>9. handle_key(b, "right") = cursor_right(b)
  BY DEF handle_key, Chars
<1>10. handle_key(b, "up") = ToRow(b, b.row - 1)
  BY DEF handle_key, Chars
<1>11. handle_key(b, "down") = ToRow(b, b.row + 1)
  BY DEF handle_key, Chars
<1>12. handle_key(b, "home") = Moved(b, 0)
  BY DEF handle_key, Chars, Moved
<1>13. handle_key(b, "end") = Moved(b, Size(Line(b)))
  BY DEF handle_key, Chars, Moved
<1> QED  BY <1>1, <1>2, <1>3, <1>4, <1>5, <1>6, <1>7, <1>8, <1>9, <1>10, <1>11, <1>12, <1>13

LEMMA KeyTyped ==
  ASSUME NEW b \in Bars, NEW k \in EditKeys \cup MoveKeys
  PROVE  handle_key(b, k) \in Bars
<1>1. PICK A \in Rows, u \in Row, v \in Row, B \in Rows : b = At(A, u, v, B)
  BY BarIsAt
<1>e. <<>> \in Row /\ u \o v \in Row
  BY Nothing, Joint
<1>2. CASE k \in Chars
  <2>1. Put(b, k) \in Bars /\ k # Newline
    BY <1>2, PutTyped DEF Letters, Chars, Newline
  <2> QED  BY <1>2, <2>1, KeyIs DEF Put
<1>3. CASE k = "newline"
  <2>1. Put(b, Newline) \in Bars
    BY PutTyped DEF Letters
  <2> QED  BY <1>3, <2>1, KeyIs DEF Put
<1>4. CASE k \in {"backspace", "delete", "kill_word", "left", "right", "up", "down"}
  <2>1. /\ backspace(b) \in Bars /\ cursor_left(b) \in Bars
        /\ delete_forward(b) \in Bars /\ cursor_right(b) \in Bars
    BY BackspaceTyped, DeleteTyped
  <2>2. /\ delete_word_backward(b) \in Bars
        /\ ToRow(b, b.row - 1) \in Bars /\ ToRow(b, b.row + 1) \in Bars
    BY KillWordTyped, ToRowTyped
  <2> QED  BY <1>4, <2>1, <2>2, KeyIs
<1>5. CASE k \in {"home", "end"}
  <2>1. Moved(b, 0) \in Bars /\ Moved(b, Size(Line(b))) \in Bars
    BY <1>1, <1>e, HomeAndEnd, IsBar
  <2> QED  BY <1>5, <2>1, KeyIs
<1>6. CASE k \in {"kill_start", "kill_end"}
  <2>1. Erase(b, 0, b.col) \in Bars /\ Erase(b, b.col, Size(Line(b))) \in Bars
    BY <1>1, <1>e, KillLine, IsBar
  <2> QED  BY <1>6, <2>1, KeyIs
<1>7. \/ k \in Chars \/ k = "newline"
      \/ k \in {"backspace", "delete", "kill_word", "left", "right", "up", "down"}
      \/ k \in {"home", "end"} \/ k \in {"kill_start", "kill_end"}
  BY DEF EditKeys, MoveKeys
<1> QED  BY <1>2, <1>3, <1>4, <1>5, <1>6, <1>7

-----------------------------------------------------------------------------
(* Scrolling, and the dropdown *)

Scrolled(b, top) ==
  /\ top \in Nat
  /\ Len(b.lines) <= MaxVisible => top = 0
  /\ top < b.row /\ b.row <= top + MaxVisible

LEMMA Lesser ==
  ASSUME NEW x \in Nat, NEW y \in Nat
  PROVE  /\ Min({x, y}) \in Nat /\ Min({x, y}) <= x /\ Min({x, y}) <= y
         /\ Min({x, y}) = x \/ Min({x, y}) = y
<1>1. {x, y} \in SUBSET Nat /\ {x, y} # {}
  OBVIOUS
<1>2. Min({x, y}) \in {x, y} /\ \A z \in {x, y} : Min({x, y}) <= z
  BY <1>1, Least
<1> QED  BY <1>2

LEMMA ScrollFollows ==
  ASSUME MaxVisible \in Nat \ {0}, NEW b, b.lines \in Rows, b.row \in 1..Len(b.lines),
         NEW top \in Nat
  PROVE  Scrolled(b, clamp_scroll(b, top))
<1> DEFINE n == Len(b.lines)
           r == b.row
           new == clamp_scroll(b, top)
<1>1. n \in Nat /\ r \in Nat /\ 1 <= r /\ r <= n /\ r - 1 \in Nat
  <2>1. n \in Nat
    BY LenProperties DEF Rows
  <2> QED  BY <2>1
<1>2. CASE n <= MaxVisible
  <2>1. new = 0
    BY <1>2 DEF clamp_scroll
  <2> QED  BY <1>1, <1>2, <2>1 DEF Scrolled
<1>3. CASE n > MaxVisible /\ r > top + MaxVisible
  <2>1. new = r - MaxVisible
    BY <1>1, <1>3 DEF clamp_scroll
  <2> HIDE DEF new
  <2>2. Scrolled(b, new)
    BY <1>1, <1>3, <2>1, SMTT(30) DEF Scrolled
  <2> QED  BY <2>2 DEF new
<1>4. CASE n > MaxVisible /\ ~(r > top + MaxVisible)
  <2>1. new = Min({top, r - 1})
    BY <1>1, <1>4 DEF clamp_scroll
  <2>2. new \in Nat /\ new <= top /\ new <= r - 1 /\ (new = top \/ new = r - 1)
    <3> HIDE DEF r, new
    <3> QED  BY <1>1, <2>1, Lesser
  <2> HIDE DEF new
  <2>3. Scrolled(b, new)
    BY <1>1, <1>4, <2>2 DEF Scrolled
  <2> QED  BY <2>3 DEF new
<1> QED  BY <1>1, <1>2, <1>3, <1>4

Dropdowns == [char : Triggers \cup {""}, pos : Nat, items : Nat, selected : Nat, scroll_top : Nat]

\* A dropdown chooses one of its items, and is of a trigger.
Offers(d) ==
  /\ d \in Dropdowns
  /\ d.items > 0 => d.selected < d.items
  /\ d # NoTrigger => d.char \in Triggers

\* TokenUnderCaret, of a dropdown and a bar.
Stands(d, b) ==
  d # NoTrigger => \E k \in Scans(b) : /\ Line(b)[k] = d.char
                                       /\ Size(SubSeq(Line(b), 1, k - 1)) = d.pos

LEMMA ClosedOffers ==
  Offers(NoTrigger) /\ \A b : Stands(NoTrigger, b)
BY DEF Offers, Stands, NoTrigger, Dropdowns

LEMMA Found ==
  ASSUME NEW b \in Bars, NEW k \in Scans(b)
  PROVE  /\ k \in 1..Len(Line(b)) /\ Len(Line(b)) \in Nat /\ Line(b)[k] \in Triggers
         /\ Size(SubSeq(Line(b), 1, k - 1)) \in Boundaries(Line(b))
         /\ Size(SubSeq(Line(b), 1, k - 1)) \in Nat
<1>1. PICK A \in Rows, u \in Row, v \in Row, B \in Rows : b = At(A, u, v, B)
  BY BarIsAt
<1>2. Line(b) = u \o v /\ b.col = Size(u)
  BY <1>1, AtIsBar, ZenonT(60) DEF Shows
<1>3. Upto(Line(b), b.col) = u
  BY <1>2, CutLine
<1>4. k \in DOMAIN u /\ u[k] \in Triggers
  BY <1>3 DEF Scans
<1>5. /\ u \in Seq(Chars) /\ v \in Seq(Chars) /\ Len(u) \in Nat /\ Len(v) \in Nat
      /\ DOMAIN u = 1..Len(u)
  BY LenProperties DEF Row
<1>6. Len(u \o v) = Len(u) + Len(v) /\ (u \o v)[k] = u[k]
  BY <1>4, <1>5, ConcatProperties
<1>7. k \in 1..Len(u \o v) /\ k - 1 \in 0..Len(u \o v) /\ Len(u \o v) \in Nat
  BY <1>4, <1>5, <1>6
<1>8. u \o v \in Seq(Chars)
  BY <1>5, ConcatProperties
<1>9. /\ Size(SubSeq(u \o v, 1, k - 1)) \in Boundaries(u \o v)
      /\ Boundaries(u \o v) \in SUBSET (0..Size(u \o v)) /\ Size(u \o v) \in Nat
  BY <1>7, <1>8, Sizes DEF Boundaries
<1>10. Size(SubSeq(u \o v, 1, k - 1)) \in Nat
  BY <1>9
<1> QED  BY <1>2, <1>4, <1>6, <1>7, <1>9, <1>10

LEMMA Rightmost ==
  ASSUME NEW b \in Bars, Scans(b) # {}
  PROVE  Max(Scans(b)) \in Scans(b) /\ Max(Scans(b)) # 0
<1>1. PICK j \in Scans(b) : TRUE
  OBVIOUS
<1>2. Len(Line(b)) \in Nat
  BY Found
<1>3. \A k \in Scans(b) : k \in 0..Len(Line(b)) /\ k # 0
  <2> SUFFICES ASSUME NEW k \in Scans(b) PROVE k \in 0..Len(Line(b)) /\ k # 0
    OBVIOUS
  <2>1. k \in 1..Len(Line(b))
    BY Found
  <2> QED  BY <1>2, <2>1
<1>4. Scans(b) \in SUBSET (0..Len(Line(b)))
  BY <1>3
<1>5. Max(Scans(b)) \in Scans(b)
  BY <1>2, <1>4, Greatest
<1> QED  BY <1>3, <1>5

LEMMA Refreshed ==
  ASSUME NEW b \in Bars, MaxItems \in Nat, Offers(active_trigger), refresh_trigger(b)
  PROVE  Offers(active_trigger') /\ Stands(active_trigger', b)
<1> DEFINE k == IF Scans(b) = {} THEN 0 ELSE Max(Scans(b))
           char == Line(b)[k]
           same == active_trigger.char = char
<1>1. CASE active_trigger' = NoTrigger
  BY <1>1, ClosedOffers
<1>2. CASE active_trigger' # NoTrigger
  <2>1. PICK items \in 0..MaxItems :
          /\ k # 0
          /\ active_trigger' =
               [char |-> char, pos |-> Size(SubSeq(Line(b), 1, k - 1)), items |-> items,
                selected |-> IF ~same \/ items = 0 THEN 0
                             ELSE Min({active_trigger.selected, items - 1}),
                scroll_top |-> IF same THEN active_trigger.scroll_top ELSE 0]
    BY <1>2 DEF refresh_trigger
  <2>2. Scans(b) # {} /\ k = Max(Scans(b))
    BY <2>1
  <2>3. k \in Scans(b)
    BY <2>2, Rightmost
  <2>4. char \in Triggers /\ Size(SubSeq(Line(b), 1, k - 1)) \in Nat
    <3> HIDE DEF k
    <3> QED  BY <2>3, Found
  <2>5. active_trigger.selected \in Nat /\ active_trigger.scroll_top \in Nat
    BY DEF Offers, Dropdowns
  <2> DEFINE chosen == IF ~same \/ items = 0 THEN 0 ELSE Min({active_trigger.selected, items - 1})
  <2>6. chosen \in Nat /\ (items > 0 => chosen < items)
    <3>1. CASE ~same \/ items = 0
      BY <3>1
    <3>2. CASE same /\ items # 0
      <4>1. items - 1 \in Nat
        BY <3>2
      <4>2. Min({active_trigger.selected, items - 1}) \in Nat
            /\ Min({active_trigger.selected, items - 1}) <= items - 1
        BY <2>5, <4>1, Lesser
      <4> QED  BY <3>2, <4>1, <4>2
    <3> QED  BY <3>1, <3>2
  <2> DEFINE pos == Size(SubSeq(Line(b), 1, k - 1))
             top == IF same THEN active_trigger.scroll_top ELSE 0
  <2>7. top \in Nat
    BY <2>5
  <2>8. active_trigger' = [char |-> char, pos |-> pos, items |-> items,
                           selected |-> chosen, scroll_top |-> top]
    BY <2>1
  <2>9. pos \in Nat /\ items \in Nat
    BY <2>4
  <2>10. Stands(active_trigger', b)
    <3>1. active_trigger'.char = Line(b)[k] /\ active_trigger'.pos = Size(SubSeq(Line(b), 1, k - 1))
      BY <2>8
    <3> HIDE DEF k
    <3> QED  BY <2>3, <3>1 DEF Stands
  <2> HIDE DEF chosen, pos, top, char
  <2>11. Offers(active_trigger')
    BY <2>4, <2>6, <2>7, <2>8, <2>9 DEF Offers, Dropdowns
  <2> QED  BY <2>10, <2>11
<1> QED  BY <1>1, <1>2

LEMMA SizeJoin ==
  ASSUME NEW x \in Row, NEW w \in Row
  PROVE  Size(x \o w) = Size(x) + Size(w)
<1> DEFINE n == Len(w)
           P == {k \in 0..n : Size(x \o SubSeq(w, 1, k)) = Size(x) + Size(SubSeq(w, 1, k))}
<1>1. n \in Nat /\ w \in Seq(Chars) /\ Size(x) \in Nat
  BY LenProperties, Sizes DEF Row
<1>2. 0 \in P
  <2>1. SubSeq(w, 1, 0) = <<>>
    BY SubSeqEmpty
  <2>2. PICK e \in Row : e = <<>>
    BY Nothing
  <2>3. x \o e = x /\ Size(e) = 0
    BY <2>2, Nothing
  <2>4. SubSeq(w, 1, 0) = e
    BY <2>1, <2>2
  <2>5. Size(x \o SubSeq(w, 1, 0)) = Size(x) + Size(SubSeq(w, 1, 0))
    <3> DEFINE z == SubSeq(w, 1, 0)
    <3>1. x \o z = x /\ Size(z) = 0
      BY <2>3, <2>4
    <3> HIDE DEF n, P, z
    <3>2. Size(x \o z) = Size(x) + Size(z)
      BY <1>1, <3>1
    <3> QED  BY <3>2 DEF z
  <2> HIDE DEF n
  <2> QED  BY <1>1, <2>5
<1>3. ASSUME NEW k \in 1..n, k - 1 \in P PROVE k \in P
  <2> DEFINE y == SubSeq(w, 1, k - 1)
             c == w[k]
  <2>1. /\ y \in Row /\ c \in Chars /\ k - 1 \in 0..n
    <3>1. k - 1 \in 0..n
      BY <1>1
    <3>2. y \in Row
      BY <1>1, <3>1, Halves DEF Row
    <3>3. c \in Chars
      BY <1>1, Around
    <3> QED  BY <3>1, <3>2, <3>3
  <2>2. SubSeq(w, 1, k) = y \o <<c>>
    BY <1>1, SubSeqRecursiveSecond
  <2>3. Size(x \o y) = Size(x) + Size(y)
    BY <1>3
  <2> HIDE DEF y, c
  <2>4. x \o y \in Row /\ x \o (y \o <<c>>) = (x \o y) \o <<c>>
    <3>1. <<c>> \in Row
      BY <2>1, One
    <3> QED  BY <2>1, <3>1, Joint
  <2>5. /\ Size(y \o <<c>>) = Size(y) + Width(c)
        /\ Size((x \o y) \o <<c>>) = Size(x \o y) + Width(c)
    BY <2>1, <2>4, SizeSnoc
  <2>6. Size(y) \in Nat /\ Width(c) \in Nat
    BY <2>1, Sizes DEF Row, Width
  <2>7. Size(x \o SubSeq(w, 1, k)) = Size(x) + Size(SubSeq(w, 1, k))
    <3> HIDE DEF n, P
    <3>1. x \o SubSeq(w, 1, k) = (x \o y) \o <<c>>
      BY <2>2, <2>4
    <3>2. Size(x \o SubSeq(w, 1, k)) = Size(x) + Size(y) + Width(c)
      BY <2>3, <2>5, <3>1
    <3>3. Size(SubSeq(w, 1, k)) = Size(y) + Width(c)
      BY <2>2, <2>5
    <3> QED  BY <1>1, <2>6, <3>2, <3>3
  <2>8. k \in 0..n
    BY <1>1
  <2> QED  BY <2>7, <2>8
<1>4. n \in P
  <2>1. \A k \in 1..n : k - 1 \in P => k \in P
    BY <1>3
  <2> HIDE DEF P, n
  <2>2. \A k \in 0..n : k \in P
    BY <1>1, <1>2, <2>1, Climb
  <2> QED  BY <1>1, <2>2
<1>5. SubSeq(w, 1, n) = w
  BY <1>1, SubSeqFull
<1> QED  BY <1>4, <1>5

LEMMA Short ==
  ASSUME NEW X, NEW a \in X, NEW b \in X, NEW c \in X
  PROVE  /\ <<a, b, c>> \in Seq(X) /\ Len(<<a, b, c>>) = 3 /\ Head(<<a, b, c>>) = a
         /\ <<a, b, c>>[1] = a
         /\ <<a, b>> \in Seq(X) /\ Len(<<a, b>>) = 2
<1>1. <<a, b, c>> \in Seq(X)
  OBVIOUS
<1>2. Len(<<a, b, c>>) = 3 /\ Head(<<a, b, c>>) = <<a, b, c>>[1] /\ <<a, b, c>>[1] = a
  OBVIOUS
<1>3. <<a, b>> \in Seq(X)
  OBVIOUS
<1>4. Len(<<a, b>>) = 2
  OBVIOUS
<1> QED  BY <1>1, <1>2, <1>3, <1>4

IsWord(w) == w \in Row /\ Len(w) = 3 /\ Head(w) = w[1]

LEMMA Words ==
  /\ \A w \in Completions : IsWord(w)
  /\ \A s \in Pastes : s \in Seq(Letters) /\ Len(s) = 2
  /\ \A w \in Completions : w \in Seq(Letters)
<1>1. /\ "a" \in Chars /\ " " \in Chars /\ "@" \in Chars /\ "/" \in Chars /\ "$" \in Chars
      /\ "a" \in Letters /\ " " \in Letters /\ "/" \in Letters /\ Newline \in Letters
  BY DEF Chars, Letters
<1>2. ASSUME NEW a \in Chars, NEW b \in Chars, NEW c \in Chars
      PROVE  IsWord(<<a, b, c>>)
  BY Short DEF Row, IsWord
<1>3. IsWord(File) /\ IsWord(Directory) /\ IsWord(Command) /\ IsWord(Skill)
  <2>1. IsWord(<<"@", "a", " ">>)
    BY <1>1, <1>2
  <2>2. IsWord(<<"@", "a", "/">>)
    BY <1>1, <1>2
  <2>3. IsWord(<<"/", "a", " ">>)
    BY <1>1, <1>2
  <2>4. IsWord(<<"$", "a", " ">>)
    BY <1>1, <1>2
  <2> QED  BY <2>1, <2>2, <2>3, <2>4 DEF File, Directory, Command, Skill
<1>4. \A s \in Pastes : s \in Seq(Letters) /\ Len(s) = 2
  <2>1. ASSUME NEW a \in Letters, NEW b \in Letters, NEW s, s = <<a, b>>
        PROVE  s \in Seq(Letters) /\ Len(s) = 2
    BY <2>1, Short
  <2> QED  BY <1>1, <2>1 DEF Pastes
<1>5. \A w \in Completions : IsWord(w)
  BY <1>3 DEF Completions
<1>6. \A w \in Completions : w \in Seq(Letters)
  BY <1>5, RowText DEF IsWord
<1> QED  BY <1>4, <1>5, <1>6

\* The line of the caret up to some boundary, the word, and what is behind the caret.
Filled(b, p, w) == WithLine(b, Upto(Line(b), p) \o w \o Behind(Line(b), b.col), p + Size(w))

LEMMA Completed ==
  ASSUME NEW A \in Rows, NEW u \in Row, NEW v \in Row, NEW B \in Rows,
         NEW x \in Row, NEW w \in Row, Upto(u \o v, Size(x)) = x
  PROVE  Filled(At(A, u, v, B), Size(x), w) = At(A, x \o w, v, B)
<1> DEFINE b == At(A, u, v, B)
           s == u \o v
           z == x \o w
<1>1. Shows(b, A, u, v, B)
  BY AtIsBar
<1>2. Line(b) = s /\ b.col = Size(u)
  BY <1>1 DEF Shows
<1>3. Upto(s, Size(x)) = x /\ Behind(s, Size(u)) = v
  <2>1. Behind(u \o v, Size(u)) = v
    BY CutLine
  <2> QED  BY <2>1
<1>4. z \in Row /\ Size(z) = Size(x) + Size(w)
  BY Joint, SizeJoin
<1> HIDE DEF b, z, s
<1>5. WithLine(b, z \o v, Size(z)) = At(A, z, v, B)
  BY <1>4, LineAt DEF b
<1>6. Upto(Line(b), Size(x)) \o w \o Behind(Line(b), b.col) = z \o v
  BY <1>2, <1>3 DEF z
<1> QED  BY <1>4, <1>5, <1>6 DEF b, z, Filled

LEMMA CompletedTyped ==
  ASSUME NEW b \in Bars, NEW p \in Boundaries(Line(b)), NEW w \in Row
  PROVE  Filled(b, p, w) \in Bars
<1>1. PICK A \in Rows, u \in Row, v \in Row, B \in Rows : b = At(A, u, v, B)
  BY BarIsAt
<1>2. Line(b) = u \o v
  BY <1>1, AtIsBar, ZenonT(60) DEF Shows
<1>3. PICK x \in Row, y \in Row : u \o v = x \o y /\ p = Size(x)
  <2>1. u \o v \in Seq(Chars)
    BY Joint DEF Row
  <2>2. PICK k \in 0..Len(u \o v) : p = Size(SubSeq(u \o v, 1, k))
    BY <1>2 DEF Boundaries
  <2>3. /\ SubSeq(u \o v, 1, k) \in Row /\ SubSeq(u \o v, k + 1, Len(u \o v)) \in Row
        /\ u \o v = SubSeq(u \o v, 1, k) \o SubSeq(u \o v, k + 1, Len(u \o v))
    <3> DEFINE s == u \o v
    <3> HIDE DEF s
    <3>1. s \in Seq(Chars) /\ k \in 0..Len(s)
      BY <2>1 DEF s
    <3>2. /\ SubSeq(s, 1, k) \in Seq(Chars) /\ SubSeq(s, k + 1, Len(s)) \in Seq(Chars)
          /\ s = SubSeq(s, 1, k) \o SubSeq(s, k + 1, Len(s))
      BY <3>1, Halves
    <3> QED  BY <3>2 DEF s, Row
  <2> QED  BY <2>2, <2>3
<1>4. x \o w \in Row
  BY Joint
<1>5. Filled(b, p, w) = At(A, x \o w, v, B)
  <2>1. Upto(u \o v, Size(x)) = x
    <3>1. Upto(x \o y, Size(x)) = x
      BY CutLine
    <3> QED  BY <1>3, <3>1
  <2>2. Filled(At(A, u, v, B), Size(x), w) = At(A, x \o w, v, B)
    BY <2>1, Completed
  <2> QED  BY <1>1, <1>3, <2>2
<1> QED  BY <1>4, <1>5, IsBar

\* The caret is put somewhere else.
LEMMA PlacedTyped ==
  ASSUME NEW b \in Bars, NEW r \in 1..Len(b.lines), NEW c \in Boundaries(b.lines[r])
  PROVE  [b EXCEPT !.row = r, !.col = c] \in Bars
<1>1. b \in [lines : Rows, row : Nat, col : Nat]
  BY DEF Bars
<1>2. Len(b.lines) \in Nat
  BY <1>1, LenProperties DEF Rows
<1>3. b.lines[r] \in Seq(Chars)
  BY <1>1, <1>2, ElementOfSeq DEF Rows, Row
<1>4. Boundaries(b.lines[r]) \in SUBSET (0..Size(b.lines[r])) /\ Size(b.lines[r]) \in Nat
  BY <1>3, Sizes
<1>5. c \in Nat /\ r \in Nat
  BY <1>2, <1>4
<1> DEFINE d == [b EXCEPT !.row = r]
           e == [d EXCEPT !.col = c]
<1>6. d \in [lines : Rows, row : Nat, col : Nat] /\ d.lines = b.lines /\ d.row = r
  BY <1>1, <1>5
<1> HIDE DEF d
<1>7. e \in [lines : Rows, row : Nat, col : Nat] /\ e.lines = b.lines /\ e.row = r /\ e.col = c
  BY <1>5, <1>6
<1>8. e = [b EXCEPT !.row = r, !.col = c]
  BY DEF d
<1> HIDE DEF e
<1>9. e \in Bars
  BY <1>7 DEF Bars
<1> QED  BY <1>8, <1>9

LEMMA EmptyAt ==
  ASSUME NEW e \in Row, e = <<>>, NEW E \in Rows, E = <<>>
  PROVE  At(E, e, e, E) = Empty
<1>1. e \o e = <<>> /\ Size(e) = 0 /\ Len(E) = 0
  BY Nothing
<1>2. <<<<>>>> \in Rows
  BY One
<1>3. E \o <<<<>>>> \o E = <<<<>>>>
  BY <1>2, Nothing
<1> QED  BY <1>1, <1>3 DEF At, Empty

\* What insert_str and set_text make, and the message that is submitted.
LEMMA InsertTyped ==
  /\ \A b \in Bars, s \in Seq(Letters) : insert_str(b, s) \in Bars
  /\ \A s \in Seq(Letters) : set_text(s) \in Bars
  /\ Empty \in Bars
<1>1. ASSUME NEW b \in Bars, NEW s \in Seq(Letters)
      PROVE  insert_str(b, s) \in Bars
  <2>1. PICK g \in [0..Len(s) -> Bars] :
          /\ g[0] = b /\ insert_str(b, s) = g[Len(s)]
          /\ \A k \in 1..Len(s) : g[k] = Put(g[k - 1], s[k])
    BY InsertStr
  <2>2. Len(s) \in 0..Len(s)
    BY LenProperties
  <2> QED  BY <2>1, <2>2
<1>2. Empty \in Bars
  <2>1. PICK e \in Row : e = <<>>
    BY Nothing
  <2>2. PICK E \in Rows : E = <<>>
    BY Nothing
  <2>3. At(E, e, e, E) = Empty
    BY <2>1, <2>2, EmptyAt
  <2> QED  BY <2>3, IsBar
<1> QED  BY <1>1, <1>2 DEF set_text

LEMMA MessageTyped ==
  ASSUME bar \in Bars, Solid # {}
  PROVE  Message \in Seq(Letters)
<1> DEFINE s == Text(bar)
           n == Len(s)
<1>1. s \in Seq(Letters) /\ n \in Nat /\ DOMAIN s = 1..n
  BY TextTyped, LenProperties
<1>2. Solid \in SUBSET (1..n)
  BY <1>1 DEF Solid
<1> HIDE DEF s, n
<1>3. Solid \in SUBSET Nat /\ Solid \in SUBSET (0..n)
  BY <1>1, <1>2
<1>4. Min(Solid) \in Solid /\ Max(Solid) \in Solid
  BY <1>1, <1>3, Least, Greatest
<1>5. Min(Solid) \in 1..n /\ Max(Solid) \in 1..n
  BY <1>2, <1>4
<1>6. SubSeq(s, Min(Solid), Max(Solid)) \in Seq(Letters)
  BY <1>1, <1>5, SubSeqProperties DEF n
<1> QED  BY <1>6 DEF Message, s

-----------------------------------------------------------------------------
(* The inductive invariant.  A bar is rows of characters with the caret at a *)
(* boundary; TypeOK of Composer says it of the caret alone.  A message that  *)
(* waits is one that the bar can hold.                                       *)

IInv ==
  /\ bar \in Bars /\ Scrolled(bar, scroll_top)
  /\ Offers(active_trigger)
  /\ escape_dialog \in Seq(Letters)
  /\ escape_dialog # <<>> => ~Open
  /\ ~PasteAnywhere => Stands(active_trigger, bar) /\ ~panicked

LEMMA InitInv ==
  ASSUME MaxVisible \in Nat \ {0}, Init
  PROVE  IInv
<1>1. bar \in Bars
  BY InsertTyped DEF Init
<1>2. Scrolled(bar, scroll_top)
  <2>1. bar.row = 1 /\ scroll_top = 0
    BY DEF Init, Empty
  <2> QED  BY <2>1 DEF Scrolled
<1>3. Offers(active_trigger) /\ Stands(active_trigger, bar)
  BY ClosedOffers DEF Init
<1>4. escape_dialog \in Seq(Letters)
  BY EmptySeq DEF Init
<1> QED  BY <1>1, <1>2, <1>3, <1>4 DEF Init, IInv

LEMMA SetBarKeeps ==
  ASSUME MaxVisible \in Nat \ {0}, IInv, NEW b \in Bars, SetBar(b)
  PROVE  bar' = b /\ bar' \in Bars /\ Scrolled(bar', scroll_top')
<1>1. scroll_top \in Nat /\ bar' = b /\ scroll_top' = clamp_scroll(b, scroll_top)
  BY DEF IInv, Scrolled, SetBar
<1>2. b.lines \in Rows /\ b.row \in 1..Len(b.lines)
  BY DEF Bars
<1>3. Scrolled(b, clamp_scroll(b, scroll_top))
  BY <1>1, <1>2, ScrollFollows
<1> QED  BY <1>1, <1>3

\* trigger_complete finds its trigger in the line of the caret.
LEMMA TriggerIsThere ==
  ASSUME IInv, ~PasteAnywhere, Open
  PROVE  active_trigger.pos \in Boundaries(Line(bar))
<1>1. bar \in Bars /\ Stands(active_trigger, bar)
  BY DEF IInv
<1>2. PICK k \in Scans(bar) : Size(SubSeq(Line(bar), 1, k - 1)) = active_trigger.pos
  BY <1>1 DEF Stands, Open
<1> QED  BY <1>1, <1>2, Found

LEMMA CompleteKeeps ==
  ASSUME MaxVisible \in Nat \ {0}, MaxItems \in Nat, IInv, Open, Typing, Complete,
         UNCHANGED escape_dialog
  PROVE  IInv'
<1> DEFINE line == Line(bar)
           pos == active_trigger.pos
<1>1. /\ bar \in Bars /\ scroll_top \in Nat /\ Scrolled(bar, scroll_top) /\ Offers(active_trigger)
      /\ escape_dialog = <<>> /\ escape_dialog' = <<>> /\ escape_dialog' \in Seq(Letters)
      /\ ~panicked
  BY DEF IInv, Scrolled, Typing
<1>2. CASE pos \notin Boundaries(line)
  <2>1. UNCHANGED <<bar, scroll_top, active_trigger>>
    BY <1>2 DEF Complete
  <2>2. PasteAnywhere
    BY <1>2, TriggerIsThere
  <2> QED  BY <1>1, <2>1, <2>2 DEF IInv
<1>3. CASE pos \in Boundaries(line)
  <2>1. PICK word \in Completions :
          LET b == WithLine(bar, Upto(line, pos) \o word \o Behind(line, bar.col),
                            pos + Size(word))
              last == [b EXCEPT !.row = Len(b.lines)]
          IN /\ bar' = b /\ scroll_top' = clamp_scroll(b, clamp_scroll(last, scroll_top))
             /\ IF word = Directory THEN refresh_trigger(b) ELSE active_trigger' = NoTrigger
    BY <1>3 DEF Complete
  <2>p. panicked' = panicked
    BY <1>3 DEF Complete
  <2> DEFINE b == Filled(bar, pos, word)
             last == [b EXCEPT !.row = Len(b.lines)]
  <2>2. /\ bar' = b /\ scroll_top' = clamp_scroll(b, clamp_scroll(last, scroll_top))
        /\ IF word = Directory THEN refresh_trigger(b) ELSE active_trigger' = NoTrigger
    BY <2>1 DEF Filled
  <2>3. b \in Bars
    <3>1. word \in Row
      BY Words DEF IsWord
    <3> QED  BY <1>1, <1>3, <3>1, CompletedTyped
  <2> HIDE DEF b
  <2>4. /\ b.lines \in Rows /\ Len(b.lines) \in Nat /\ b.row \in 1..Len(b.lines)
        /\ b \in [lines : Rows, row : Nat, col : Nat]
    BY <2>3, LenProperties DEF Bars, Rows
  <2>5. last.lines = b.lines /\ last.row = Len(b.lines)
    BY <2>4
  <2>6. clamp_scroll(last, scroll_top) \in Nat
    <3>1. last.lines \in Rows /\ last.row \in 1..Len(last.lines)
      BY <2>4, <2>5
    <3> HIDE DEF last
    <3> QED  BY <1>1, <3>1, ScrollFollows DEF Scrolled
  <2> HIDE DEF last
  <2>7. Scrolled(bar', scroll_top')
    BY <2>2, <2>4, <2>6, ScrollFollows
  <2>8. Offers(active_trigger') /\ Stands(active_trigger', b)
    <3>1. CASE word = Directory
      <4>1. refresh_trigger(b)
        BY <2>2, <3>1
      <4> QED  BY <1>1, <2>3, <4>1, Refreshed
    <3>2. CASE word # Directory
      BY <2>2, <3>2, ClosedOffers
    <3> QED  BY <3>1, <3>2
  <2> QED  BY <1>1, <2>2, <2>3, <2>7, <2>8, <2>p DEF IInv
<1> QED  BY <1>2, <1>3

LEMMA SubmitKeeps ==
  ASSUME MaxVisible \in Nat \ {0}, IInv, Typing,
         NEW message \in Seq(Letters), submit(message, Empty)
  PROVE  IInv'
<1>1. Empty \in Bars /\ SetBar(Empty) /\ active_trigger' = NoTrigger /\ panicked' = panicked
  BY InsertTyped DEF submit
<1>2. bar' \in Bars /\ Scrolled(bar', scroll_top')
  BY <1>1, SetBarKeeps
<1>3. escape_dialog' \in Seq(Letters)
  <2>1. escape_dialog' = <<>> \/ escape_dialog' = message
    BY DEF submit
  <2> QED  BY <2>1, EmptySeq
<1>4. Offers(active_trigger') /\ Stands(active_trigger', bar') /\ ~Open' /\ ~panicked'
  BY <1>1, ClosedOffers DEF Open, Typing
<1> QED  BY <1>2, <1>3, <1>4 DEF IInv

LEMMA EditKeeps ==
  ASSUME MaxVisible \in Nat \ {0}, MaxItems \in Nat, IInv, Edit
  PROVE  IInv'
<1>1. PICK k \in EditKeys \cup MoveKeys :
        /\ Typing
        /\ SetBar(handle_key(bar, k))
        /\ IF k \in EditKeys /\ handle_key(bar, k) = bar THEN UNCHANGED active_trigger
           ELSE refresh_trigger(handle_key(bar, k))
        /\ UNCHANGED <<escape_dialog, approved, panicked>>
  BY DEF Edit
<1> DEFINE b == handle_key(bar, k)
<1>2. b \in Bars
  BY KeyTyped DEF IInv
<1>3. SetBar(b) /\ bar \in Bars /\ Offers(active_trigger)
  BY <1>1 DEF IInv
<1> HIDE DEF b
<1>4. bar' = b /\ bar' \in Bars /\ Scrolled(bar', scroll_top')
  BY <1>2, <1>3, SetBarKeeps
<1>5. Offers(active_trigger') /\ (~PasteAnywhere => Stands(active_trigger', bar'))
  <2>1. CASE UNCHANGED active_trigger /\ b = bar
    BY <1>4, <2>1 DEF IInv
  <2>2. CASE refresh_trigger(b)
    BY <1>2, <1>3, <1>4, <2>2, Refreshed
  <2> QED  BY <1>1, <2>1, <2>2 DEF b
<1> QED  BY <1>1, <1>4, <1>5 DEF IInv, Typing

LEMMA Modulo ==
  ASSUME NEW n \in Nat \ {0}, NEW i \in Nat
  PROVE  i % n \in Nat /\ i % n < n
OBVIOUS

LEMMA SelectKeeps ==
  ASSUME MaxRows \in Nat, IInv, Select
  PROVE  IInv'
<1> DEFINE n == active_trigger.items
           top == active_trigger.scroll_top
<1>1. PICK step \in {1, n - 1} :
        /\ Typing /\ Open
        /\ active_trigger' =
             IF n = 0 THEN active_trigger
             ELSE [active_trigger EXCEPT
                     !.selected = (active_trigger.selected + step) % n,
                     !.scroll_top =
                        CASE (active_trigger.selected + step) % n < top
                               -> (active_trigger.selected + step) % n
                          [] (active_trigger.selected + step) % n >= top + MaxRows
                               -> ((active_trigger.selected + step) % n) + 1 - MaxRows
                          [] OTHER -> top]
        /\ UNCHANGED <<bar, scroll_top, escape_dialog, approved, panicked>>
  BY DEF Select
<1> DEFINE chosen == (active_trigger.selected + step) % n
           row == CASE chosen < top -> chosen
                    [] chosen >= top + MaxRows -> chosen + 1 - MaxRows
                    [] OTHER -> top
<1>2. /\ active_trigger \in Dropdowns /\ n \in Nat /\ top \in Nat /\ active_trigger.selected \in Nat
      /\ active_trigger.char \in Triggers
  BY <1>1 DEF IInv, Offers, Dropdowns, Open
<1>3. CASE n = 0
  <2>1. active_trigger' = active_trigger
    BY <1>1, <1>3
  <2> QED  BY <1>1, <2>1 DEF IInv, Open, Typing
<1>4. CASE n # 0
  <2>1. active_trigger' = [active_trigger EXCEPT !.selected = chosen, !.scroll_top = row]
    BY <1>1, <1>4
  <2>2. chosen \in Nat /\ chosen < n
    <3>1. active_trigger.selected + step \in Nat /\ n \in Nat \ {0}
      <4> HIDE DEF n
      <4> QED  BY <1>2, <1>4
    <3> HIDE DEF n
    <3> QED  BY <3>1, Modulo
  <2> HIDE DEF n, chosen, top
  <2>3. row \in Nat
    <3>1. CASE chosen < top
      <4>1. ~(chosen >= top + MaxRows)
        BY <1>2, <2>2, <3>1
      <4>2. row = chosen
        BY <3>1, <4>1
      <4> QED  BY <2>2, <4>2
    <3>2. CASE ~(chosen < top) /\ chosen >= top + MaxRows
      <4>1. row = chosen + 1 - MaxRows
        BY <3>2
      <4> HIDE DEF row
      <4> QED  BY <1>2, <2>2, <3>2, <4>1
    <3>3. CASE ~(chosen < top) /\ ~(chosen >= top + MaxRows)
      BY <1>2, <3>3
    <3> QED  BY <3>1, <3>2, <3>3
  <2> HIDE DEF row
  <2> DEFINE d == [active_trigger EXCEPT !.selected = chosen]
             e == [d EXCEPT !.scroll_top = row]
  <2>4. /\ d \in Dropdowns /\ d.selected = chosen /\ d.items = n /\ d.char = active_trigger.char
        /\ d.pos = active_trigger.pos
    BY <1>2, <2>2 DEF Dropdowns, n
  <2> HIDE DEF d
  <2>5. /\ e \in Dropdowns /\ e.selected = chosen /\ e.items = n /\ e.char = active_trigger.char
        /\ e.pos = active_trigger.pos
    BY <2>3, <2>4 DEF Dropdowns
  <2>6. active_trigger' = e
    BY <2>1 DEF d
  <2> HIDE DEF e
  <2>7. Offers(active_trigger')
    BY <1>2, <2>2, <2>5, <2>6 DEF Offers
  <2>8. Stands(active_trigger, bar) => Stands(active_trigger', bar)
    BY <1>1, <2>5, <2>6 DEF Stands, Open
  <2> QED  BY <1>1, <2>7, <2>8 DEF IInv, Typing
<1> QED  BY <1>3, <1>4

LEMMA TabKeeps ==
  ASSUME MaxVisible \in Nat \ {0}, MaxItems \in Nat, IInv, Tab
  PROVE  IInv'
<1>1. Typing /\ Open /\ UNCHANGED escape_dialog
  BY DEF Tab
<1>2. CASE UNCHANGED <<bar, scroll_top, active_trigger, panicked>>
  BY <1>1, <1>2 DEF IInv, Open
<1>3. CASE Complete
  BY <1>1, <1>3, CompleteKeeps
<1> QED  BY <1>2, <1>3 DEF Tab

LEMMA EnterKeeps ==
  ASSUME MaxVisible \in Nat \ {0}, MaxItems \in Nat, IInv, Enter
  PROVE  IInv'
<1>1. Typing
  BY DEF Enter
<1>2. CASE active_trigger.char = "@"
  <2>1. Complete /\ UNCHANGED escape_dialog
    <3>1. "@" \notin FreeText
      BY DEF FreeText
    <3> QED  BY <1>2, <3>1 DEF Enter
  <2>2. Open
    <3>1. NoTrigger.char = "" /\ "" # "@"
      BY DEF NoTrigger
    <3> QED  BY <1>2, <3>1 DEF Open
  <2> QED  BY <1>1, <2>1, <2>2, CompleteKeeps
<1> DEFINE chosen == active_trigger.items > 0 /\ active_trigger.char \in FreeText
<1>3. CASE active_trigger.char # "@" /\ chosen
  <2>1. PICK word \in Completions : submit(word, Empty)
    BY <1>3 DEF Enter
  <2>2. word \in Seq(Letters)
    BY Words
  <2> QED  BY <1>1, <2>1, <2>2, SubmitKeeps
<1>4. CASE active_trigger.char # "@" /\ ~chosen
  <2>1. CASE Solid = {}
    <3>1. active_trigger' = NoTrigger /\ UNCHANGED <<bar, scroll_top, escape_dialog, panicked>>
      BY <1>4, <2>1 DEF Enter
    <3>2. Offers(active_trigger') /\ Stands(active_trigger', bar) /\ ~Open'
      BY <3>1, ClosedOffers DEF Open
    <3> QED  BY <3>1, <3>2 DEF IInv
  <2>2. CASE Solid # {}
    <3>1. submit(Message, Empty)
      BY <1>4, <2>2 DEF Enter
    <3>2. Message \in Seq(Letters)
      BY <2>2, MessageTyped DEF IInv
    <3> QED  BY <1>1, <3>1, <3>2, SubmitKeeps
  <2> QED  BY <2>1, <2>2
<1> QED  BY <1>2, <1>3, <1>4

LEMMA EscapeKeeps ==
  ASSUME IInv, Escape
  PROVE  IInv'
<1>1. active_trigger' = NoTrigger /\ UNCHANGED <<bar, scroll_top, escape_dialog, panicked>>
  BY DEF Escape
<1>2. Offers(active_trigger') /\ Stands(active_trigger', bar) /\ ~Open'
  BY <1>1, ClosedOffers DEF Open
<1> QED  BY <1>1, <1>2 DEF IInv

LEMMA PasteKeeps ==
  ASSUME MaxVisible \in Nat \ {0}, IInv, Paste
  PROVE  IInv'
<1>1. PICK s \in Pastes :
        /\ Open => PasteAnywhere
        /\ SetBar(insert_str(bar, s))
        /\ UNCHANGED <<active_trigger, escape_dialog, approved, panicked>>
  BY DEF Paste
<1> DEFINE b == insert_str(bar, s)
<1>2. b \in Bars
  BY Words, InsertTyped DEF IInv
<1>3. SetBar(b)
  BY <1>1
<1> HIDE DEF b
<1>4. bar' \in Bars /\ Scrolled(bar', scroll_top')
  BY <1>2, <1>3, SetBarKeeps
<1>5. ~PasteAnywhere => Stands(active_trigger', bar')
  BY <1>1 DEF Stands, Open
<1> QED  BY <1>1, <1>4, <1>5 DEF IInv, Open

LEMMA ApproveKeeps ==
  ASSUME IInv, Approve
  PROVE  IInv'
<1>1. escape_dialog' = <<>> /\ UNCHANGED <<bar, scroll_top, active_trigger, panicked>>
  BY DEF Approve
<1>2. escape_dialog' \in Seq(Letters)
  BY <1>1, EmptySeq
<1> QED  BY <1>1, <1>2 DEF IInv

LEMMA CancelKeeps ==
  ASSUME MaxVisible \in Nat \ {0}, IInv, Cancel
  PROVE  IInv'
<1> DEFINE b == set_text(escape_dialog)
           col == snap_to_char_boundary(b.lines[1], Len(escape_dialog))
           d == [b EXCEPT !.row = 1, !.col = col]
<1>1. /\ SetBar(d) /\ escape_dialog' = <<>> /\ escape_dialog # <<>>
      /\ UNCHANGED <<active_trigger, panicked>>
  BY DEF Cancel
<1>2. b \in Bars
  BY InsertTyped DEF IInv
<1>3. Len(escape_dialog) \in Nat
  BY LenProperties DEF IInv
<1> HIDE DEF b
<1>4. d \in Bars
  <2>1. /\ b.lines \in Seq(Row) /\ Len(b.lines) \in Nat /\ b.row \in 1..Len(b.lines)
    BY <1>2, LenProperties DEF Bars, Rows
  <2>2. 1 \in 1..Len(b.lines)
    BY <2>1
  <2>3. b.lines[1] \in Seq(Chars)
    BY <2>1, <2>2, ElementOfSeq DEF Row
  <2>4. col \in Boundaries(b.lines[1])
    BY <1>3, <2>3, Snapped
  <2> HIDE DEF col
  <2> QED  BY <1>2, <2>2, <2>4, PlacedTyped
<1> HIDE DEF d
<1>5. bar' \in Bars /\ Scrolled(bar', scroll_top')
  BY <1>1, <1>4, SetBarKeeps
<1>6. active_trigger' = NoTrigger
  BY <1>1 DEF IInv, Open
<1>7. Offers(active_trigger') /\ Stands(active_trigger', bar') /\ escape_dialog' \in Seq(Letters)
  BY <1>1, <1>6, ClosedOffers, EmptySeq
<1> QED  BY <1>1, <1>5, <1>7 DEF IInv

LEMMA StepInv ==
  ASSUME MaxVisible \in Nat \ {0}, MaxItems \in Nat, MaxRows \in Nat, IInv, [Next]_vars
  PROVE  IInv'
<1>1. CASE Next
  BY <1>1, EditKeeps, SelectKeeps, TabKeeps, EnterKeeps, EscapeKeeps, PasteKeeps,
     ApproveKeeps, CancelKeeps DEF Next
<1>2. CASE UNCHANGED vars
  BY <1>2 DEF vars, IInv, Open
<1> QED  BY <1>1, <1>2

-----------------------------------------------------------------------------
(* Theorems *)

LimitsAreNumbers == MaxVisible \in Nat \ {0} /\ MaxItems \in Nat /\ MaxRows \in Nat

\* invariants_hold of input_bar.rs: whatever the user types, pastes, deletes and
\* completes, the caret is on a character boundary of a line that is on the screen,
\* and the choice of a dropdown is one of its items.
THEOREM TypeCorrect ==
  ASSUME LimitsAreNumbers
  PROVE  Spec => []TypeOK
<1>1. Init => IInv
  BY InitInv DEF LimitsAreNumbers
<1>2. IInv /\ [Next]_vars => IInv'
  BY StepInv DEF LimitsAreNumbers
<1>3. IInv => TypeOK
  <2> SUFFICES ASSUME IInv PROVE TypeOK
    OBVIOUS
  <2>1. /\ bar.row \in 1..Len(bar.lines) /\ bar.lines \in Rows
        /\ bar.col \in Boundaries(bar.lines[bar.row])
    BY DEF IInv, Bars
  <2>2. bar.row \in DOMAIN bar.lines /\ bar.col \in Boundaries(Line(bar))
    BY <2>1, LenProperties DEF Rows, Line
  <2> QED  BY <2>2 DEF IInv, TypeOK, Scrolled, Offers
<1> QED  BY <1>1, <1>2, <1>3, PTL DEF Spec

\* An open dropdown is about the word at the caret (TokenUnderCaret), unless the
\* user pastes under it: then its trigger may be gone, as the run of that paste shows.
THEOREM DropdownFollowsCaret ==
  ASSUME LimitsAreNumbers, ~PasteAnywhere
  PROVE  Spec => []TokenUnderCaret
<1>1. Init => IInv
  BY InitInv DEF LimitsAreNumbers
<1>2. IInv /\ [Next]_vars => IInv'
  BY StepInv DEF LimitsAreNumbers
<1>3. IInv => TokenUnderCaret
  BY DEF IInv, TokenUnderCaret, Stands, Open
<1> QED  BY <1>1, <1>2, <1>3, PTL DEF Spec

\* So trigger_complete never slices the line out of its range.
THEOREM NeverPanics ==
  ASSUME LimitsAreNumbers, ~PasteAnywhere
  PROVE  Spec => []~panicked
<1>1. Init => IInv
  BY InitInv DEF LimitsAreNumbers
<1>2. IInv /\ [Next]_vars => IInv'
  BY StepInv DEF LimitsAreNumbers
<1>3. IInv => ~panicked
  BY DEF IInv
<1> QED  BY <1>1, <1>2, <1>3, PTL DEF Spec

-----------------------------------------------------------------------------
(* The text before and behind the caret *)

Texts == Seq(Letters)

\* The text of the rows above a line, and of those below it.
Pre(A) == IF A = <<>> THEN <<>> ELSE Flat(A) \o <<Newline>>
Post(B) == IF B = <<>> THEN <<>> ELSE <<Newline>> \o Flat(B)

LEMMA Glue ==
  /\ <<>> \in Texts /\ Len(<<>>) = 0 /\ <<Newline>> \in Texts /\ Len(<<Newline>>) = 1
  /\ \A u \in Row : u \in Texts
  /\ \A x \in Texts : Len(x) \in Nat /\ x \o <<>> = x /\ <<>> \o x = x
  /\ \A x, y \in Texts : x \o y \in Texts /\ Len(x \o y) = Len(x) + Len(y)
  /\ \A x, y, z \in Texts : (x \o y) \o z = x \o (y \o z)
<1>1. <<>> \in Texts /\ Len(<<>>) = 0
  BY EmptySeq DEF Texts
<1>2. <<Newline>> \in Texts /\ Len(<<Newline>>) = 1
  <2>1. Newline \in Letters
    BY DEF Letters
  <2> QED  BY <2>1 DEF Texts
<1>3. \A u \in Row : u \in Texts
  BY RowText DEF Texts
<1>4. \A x \in Texts : Len(x) \in Nat /\ x \o <<>> = x /\ <<>> \o x = x
  BY LenProperties, ConcatEmptySeq DEF Texts
<1>5. \A x, y \in Texts : x \o y \in Texts /\ Len(x \o y) = Len(x) + Len(y)
  BY ConcatProperties DEF Texts
<1>6. \A x, y, z \in Texts : (x \o y) \o z = x \o (y \o z)
  BY ConcatAssociative DEF Texts
<1> QED  BY <1>1, <1>2, <1>3, <1>4, <1>5, <1>6

LEMMA Regroup ==
  ASSUME NEW x \in Texts, NEW y \in Texts, NEW z \in Texts
  PROVE  (x \o y) \o z = x \o (y \o z)
BY Glue

Grouped(x, y, z) == (x \o y) \o z = x \o (y \o z)

LEMMA Groups ==
  ASSUME NEW x \in Texts, NEW y \in Texts, NEW z \in Texts
  PROVE  Grouped(x, y, z)
BY Regroup DEF Grouped

Swapped(x, p, n, q, l) == x \o p \o n \o l = x \o (n \o (q \o l))

LEMMA Swap ==
  ASSUME NEW x \in Texts, NEW p \in Texts, NEW n \in Texts, NEW q \in Texts, NEW l \in Texts,
         p \o n = n \o q
  PROVE  Swapped(x, p, n, q, l)
<1>1. n \o q \in Texts
  BY Glue
<1>2. Grouped(x, p, n) /\ Grouped(n, q, l) /\ Grouped(x, n \o q, l)
  BY <1>1, Groups
<1> QED  BY <1>2 DEF Grouped, Swapped

LEMMA FlatTyped ==
  ASSUME NEW L \in Rows, L # <<>>
  PROVE  Flat(L) \in Texts
<1>1. PICK g : IsFlat(g, L) /\ Flat(L) = g[Len(L) - 1]
  BY FlatExists
<1>2. Len(L) \in Nat \ {0}
  BY LenProperties, EmptySeq DEF Rows
<1> QED  BY <1>1, <1>2 DEF IsFlat, Texts

LEMMA FlatOne ==
  ASSUME NEW l \in Row
  PROVE  Flat(<<l>>) = l
<1> DEFINE L == <<l>>
<1>1. L \in Rows /\ Len(L) = 1 /\ L[1] = l
  BY One
<1>2. L # <<>>
  BY <1>1, Nothing
<1> HIDE DEF L
<1>3. PICK g : IsFlat(g, L) /\ Flat(L) = g[Len(L) - 1]
  BY <1>1, <1>2, FlatExists
<1>4. Flat(L) = l
  BY <1>1, <1>3 DEF IsFlat
<1> QED  BY <1>4 DEF L

\* One row more.
LEMMA FlatMore ==
  ASSUME NEW L \in Rows, L # <<>>, NEW l \in Row
  PROVE  Flat(L \o <<l>>) = Flat(L) \o <<Newline>> \o l
<1> DEFINE M == L \o <<l>>
           n == Len(L)
<1>1. n \in Nat \ {0} /\ Len(M) = n + 1 /\ M \in Rows /\ M[n + 1] = l
      /\ \A k \in 1..n : M[k] = L[k]
  <2>1. n \in Nat \ {0} /\ <<l>> \in Rows /\ Len(<<l>>) = 1 /\ <<l>>[1] = l
    BY LenProperties, EmptySeq, One DEF Rows
  <2>2. M \in Rows
    BY <2>1, Joint
  <2>3. Len(M) = n + 1 /\ M[n + 1] = l /\ \A k \in 1..n : M[k] = L[k]
    BY <2>1, ConcatProperties DEF Rows
  <2> QED  BY <2>1, <2>2, <2>3
<1>2. M # <<>>
  BY <1>1, Nothing
<1> HIDE DEF M
<1>3. PICK g : IsFlat(g, L) /\ Flat(L) = g[n - 1]
  BY FlatExists
<1>4. PICK h : IsFlat(h, M) /\ Flat(M) = h[Len(M) - 1]
  BY <1>1, <1>2, FlatExists
<1> DEFINE P == {k \in 0..n - 1 : h[k] = g[k]}
<1>5. 0 \in P
  BY <1>1, <1>3, <1>4 DEF IsFlat
<1>6. ASSUME NEW k \in 1..n - 1, k - 1 \in P PROVE k \in P
  <2>1. k \in 1..Len(L) - 1 /\ k \in 1..Len(M) - 1 /\ k + 1 \in 1..n /\ k \in 0..n - 1
    BY <1>1
  <2>2. g[k] = Append(g[k - 1], Newline) \o L[k + 1] /\ h[k] = Append(h[k - 1], Newline) \o M[k + 1]
    BY <1>3, <1>4, <2>1 DEF IsFlat
  <2>3. M[k + 1] = L[k + 1] /\ h[k - 1] = g[k - 1]
    BY <1>1, <1>6, <2>1
  <2> QED  BY <2>1, <2>2, <2>3
<1>7. h[n - 1] = g[n - 1]
  <2>1. \A k \in 1..n - 1 : k - 1 \in P => k \in P
    BY <1>6
  <2>2. n - 1 \in Nat
    BY <1>1
  <2> HIDE DEF P, n
  <2>3. \A k \in 0..n - 1 : k \in P
    BY <1>5, <2>1, <2>2, Climb
  <2>4. n - 1 \in P
    BY <2>2, <2>3
  <2> QED  BY <2>4 DEF P
<1>8. h[n] = Append(h[n - 1], Newline) \o M[n + 1]
  <2>1. n \in 1..Len(M) - 1
    BY <1>1
  <2> HIDE DEF n
  <2> QED  BY <1>4, <2>1 DEF IsFlat
<1>9. Flat(M) = Append(Flat(L), Newline) \o l
  <2>1. Len(M) - 1 = n
    BY <1>1
  <2> HIDE DEF n
  <2> QED  BY <1>1, <1>3, <1>4, <1>7, <1>8, <2>1
<1>10. Append(Flat(L), Newline) = Flat(L) \o <<Newline>>
  <2>1. Flat(L) \in Seq(Letters)
    BY FlatTyped DEF Texts
  <2> QED  BY <2>1, RowText
<1> QED  BY <1>9, <1>10 DEF M

LEMMA PreMore ==
  ASSUME NEW A \in Rows, NEW l \in Row
  PROVE  /\ Pre(A) \in Texts /\ Flat(A \o <<l>>) = Pre(A) \o l
         /\ Pre(A \o <<l>>) = Pre(A) \o l \o <<Newline>>
<1>1. A \o <<l>> \in Rows /\ <<l>> \in Rows /\ Len(A \o <<l>>) = Len(A) + 1 /\ Len(A) \in Nat
  <2>1. <<l>> \in Rows /\ Len(<<l>>) = 1 /\ Len(A) \in Nat
    BY One, LenProperties DEF Rows
  <2>2. Len(A \o <<l>>) = Len(A) + 1
    BY <2>1, ConcatProperties DEF Rows
  <2> QED  BY <2>1, <2>2, Joint
<1>2. A \o <<l>> # <<>>
  BY <1>1, Nothing
<1>3. Pre(A) \in Texts
  <2>1. CASE A = <<>>
    BY <2>1, Glue DEF Pre
  <2>2. CASE A # <<>>
    BY <2>2, FlatTyped, Glue DEF Pre
  <2> QED  BY <2>1, <2>2
<1>4. Flat(A \o <<l>>) = Pre(A) \o l
  <2>1. CASE A = <<>>
    <3>1. A \o <<l>> = <<l>>
      BY <1>1, <2>1, Nothing
    <3>2. Pre(A) \o l = l
      BY <2>1, Glue DEF Pre
    <3> QED  BY <3>1, <3>2, FlatOne
  <2>2. CASE A # <<>>
    <3>1. Flat(A \o <<l>>) = Flat(A) \o <<Newline>> \o l
      BY <2>2, FlatMore
    <3> QED  BY <2>2, <3>1 DEF Pre
  <2> QED  BY <2>1, <2>2
<1>5. Pre(A \o <<l>>) = Flat(A \o <<l>>) \o <<Newline>>
  BY <1>2 DEF Pre
<1> QED  BY <1>3, <1>4, <1>5

\* The text of rows around a line.
LEMMA FlatAround ==
  ASSUME NEW A \in Rows, NEW s \in Row, NEW B \in Rows
  PROVE  Post(B) \in Texts /\ Flat(A \o <<s>> \o B) = Pre(A) \o s \o Post(B)
<1> DEFINE Good(C) == Post(C) \in Texts /\ Flat(A \o <<s>> \o C) = Pre(A) \o s \o Post(C)
           n == Len(B)
           P == {k \in 0..n : \A C \in Rows : Len(C) = k => Good(C)}
           T == A \o <<s>>
<1>1. n \in Nat /\ T \in Rows /\ Pre(A) \in Texts /\ s \in Texts /\ Flat(T) = Pre(A) \o s
  <2>1. T \in Rows
    BY One, Joint
  <2> QED  BY <2>1, PreMore, Glue, LenProperties DEF Rows
<1> HIDE DEF T
<1>2. 0 \in P
  <2> SUFFICES ASSUME NEW C \in Rows, Len(C) = 0 PROVE Good(C)
    BY <1>1
  <2>1. C = <<>>
    BY EmptySeq DEF Rows
  <2>2. T \o C = T /\ Post(C) = <<>>
    BY <1>1, <2>1, Nothing DEF Post
  <2>3. (Pre(A) \o s) \o Post(C) = Pre(A) \o s
    <3>1. Pre(A) \o s \in Texts
      BY <1>1, Glue
    <3> QED  BY <2>2, <3>1, Glue
  <2>4. Post(C) \in Texts
    BY <2>2, Glue
  <2> QED  BY <1>1, <2>2, <2>3, <2>4 DEF T
<1>3. ASSUME NEW k \in 1..n, k - 1 \in P PROVE k \in P
  <2>1. k \in 0..n
    BY <1>1
  <2> SUFFICES ASSUME NEW C \in Rows, Len(C) = k PROVE Good(C)
    BY <2>1
  <2>2. C # <<>>
    BY Nothing
  <2>3. PICK D \in Rows, l \in Row : C = D \o <<l>>
    BY <2>2, EndsOf
  <2>4. Len(D) = k - 1 /\ l \in Texts
    <3>1. <<l>> \in Rows /\ Len(<<l>>) = 1 /\ Len(D) \in Nat
      BY One, LenProperties DEF Rows
    <3>2. Len(C) = Len(D) + 1
      BY <2>3, <3>1, ConcatProperties DEF Rows
    <3> QED  BY <3>1, <3>2, Glue
  <2>5. Post(D) \in Texts /\ Flat(T \o D) = Pre(A) \o s \o Post(D)
    BY <1>3, <2>4 DEF T
  <2>6. /\ <<l>> \in Rows /\ (T \o D) \o <<l>> = T \o C /\ T \o D \in Rows
    <3> DEFINE L == <<l>>
    <3>1. L \in Rows
      BY One
    <3> HIDE DEF L
    <3>2. T \o D \in Rows /\ (T \o D) \o L = T \o (D \o L)
      BY <1>1, <3>1, Joint, ZenonT(60)
    <3> QED  BY <2>3, <3>1, <3>2 DEF L
  <2>7. T \o D # <<>>
    <3>1. Len(T \o D) = Len(T) + Len(D) /\ Len(T) = Len(A) + 1 /\ Len(A) \in Nat /\ Len(D) \in Nat
      <4>1. <<s>> \in Rows /\ Len(<<s>>) = 1 /\ Len(A) \in Nat /\ Len(D) \in Nat
        BY One, LenProperties DEF Rows
      <4>2. Len(T) = Len(A) + 1
        BY <4>1, ConcatProperties DEF T, Rows
      <4>3. Len(T \o D) = Len(T) + Len(D)
        BY <1>1, ConcatProperties DEF Rows
      <4> QED  BY <4>1, <4>2, <4>3
    <3> QED  BY <3>1, Nothing
  <2>8. Flat(T \o C) = (Pre(A) \o s \o Post(D)) \o <<Newline>> \o l
    <3>1. Flat((T \o D) \o <<l>>) = Flat(T \o D) \o <<Newline>> \o l
      BY <2>6, <2>7, FlatMore
    <3> QED  BY <2>5, <2>6, <3>1
  <2>9. Post(C) = <<Newline>> \o (Pre(D) \o l) /\ Pre(D) \in Texts
    BY <2>2, <2>3, PreMore DEF Post
  <2>10. Post(D) \o <<Newline>> = <<Newline>> \o Pre(D)
    <3>1. CASE D = <<>>
      BY <3>1, Glue DEF Pre, Post
    <3>2. CASE D # <<>>
      BY <3>2, FlatTyped, Glue DEF Pre, Post
    <3> QED  BY <3>1, <3>2
  <2>11. Pre(A) \o s \in Texts /\ Pre(D) \o l \in Texts /\ Post(C) \in Texts
    BY <1>1, <2>4, <2>9, Glue
  <2>12. Flat(T \o C) = (Pre(A) \o s) \o Post(C)
    <3> DEFINE X == Pre(A) \o s
               N == <<Newline>>
    <3>1. X \in Texts /\ N \in Texts /\ Post(D) \in Texts /\ Pre(D) \in Texts /\ l \in Texts
      BY <2>4, <2>5, <2>9, <2>11, Glue
    <3>2. Flat(T \o C) = X \o Post(D) \o N \o l /\ Post(D) \o N = N \o Pre(D)
      BY <2>8, <2>10
    <3> HIDE DEF X, N
    <3>3. X \o Post(D) \o N \o l = X \o (N \o (Pre(D) \o l))
      <4> DEFINE below == Post(D)
                 above == Pre(D)
      <4>1. below \o N = N \o above /\ below \in Texts /\ above \in Texts
        BY <3>1, <3>2
      <4> HIDE DEF below, above
      <4>2. Swapped(X, below, N, above, l)
        BY <3>1, <4>1, Swap
      <4> QED  BY <4>2 DEF below, above, Swapped
    <3>4. Flat(T \o C) = X \o (N \o (Pre(D) \o l))
      BY <3>2, <3>3
    <3> QED  BY <2>9, <3>4 DEF X, N
  <2> QED  BY <2>11, <2>12 DEF T
<1>4. Good(B)
  <2>1. \A k \in 1..n : k - 1 \in P => k \in P
    BY <1>3
  <2> HIDE DEF P
  <2>2. \A k \in 0..n : k \in P
    BY <1>1, <1>2, <2>1, Climb
  <2>3. n \in P
    BY <1>1, <2>2
  <2> QED  BY <2>3 DEF P
<1> QED  BY <1>4

\* Where the caret is in the text, and a text with what is before and behind it.
CaretOf(b) ==
  Len(Text([lines |-> SubSeq(b.lines, 1, b.row - 1) \o <<Upto(Line(b), b.col)>>,
            row |-> 1, col |-> 0]))

Reads(b, X, Z) ==
  /\ X \in Texts /\ Z \in Texts /\ X \o Z \in Texts /\ Len(X) \in Nat /\ Len(Z) \in Nat
  /\ Text(b) = X \o Z /\ CaretOf(b) = Len(X) /\ Len(X \o Z) = Len(X) + Len(Z)

LEMMA ReadsAt ==
  ASSUME NEW A \in Rows, NEW u \in Row, NEW v \in Row, NEW B \in Rows
  PROVE  Reads(At(A, u, v, B), Pre(A) \o u, v \o Post(B))
<1> DEFINE b == At(A, u, v, B)
           X == Pre(A) \o u
           Z == v \o Post(B)
<1>1. Shows(b, A, u, v, B)
  BY AtIsBar
<1> HIDE DEF b
<1>2. Text(b) = Flat(A \o <<u \o v>> \o B)
  <2>1. Text(b) = Flat(b.lines)
    BY DEF Text, Flat
  <2> QED  BY <1>1, <2>1 DEF Shows
<1>3. /\ u \o v \in Row /\ Pre(A) \in Texts /\ Post(B) \in Texts /\ u \in Texts /\ v \in Texts
  BY CutLine, PreMore, FlatAround, Glue
<1>4. Text(b) = Pre(A) \o (u \o v) \o Post(B)
  BY <1>2, <1>3, FlatAround
<1>5. Pre(A) \o (u \o v) \o Post(B) = X \o Z
  <2>1. (Pre(A) \o (u \o v)) \o Post(B) = ((Pre(A) \o u) \o v) \o Post(B)
    BY <1>3, Glue
  <2>2. X \in Texts
    BY <1>3, Glue
  <2>3. (X \o v) \o Post(B) = X \o Z
    <3>1. v \in Texts /\ Post(B) \in Texts
      BY <1>3
    <3> HIDE DEF X
    <3> QED  BY <2>2, <3>1, Regroup
  <2> QED  BY <2>1, <2>3
<1>6. X \in Texts /\ Z \in Texts
  BY <1>3, Glue
<1>7. CaretOf(b) = Len(X)
  <2>1. b.row - 1 = Len(A) /\ Line(b) = u \o v /\ b.col = Size(u) /\ Upto(u \o v, Size(u)) = u
    BY <1>1, CutLine DEF Shows
  <2>2. SubSeq(b.lines, 1, Len(A)) = A
    BY <1>1, <1>3, Middle DEF Shows, Rows
  <2> DEFINE d == [lines |-> A \o <<u>>, row |-> 1, col |-> 0]
  <2>3. CaretOf(b) = Len(Text(d))
    BY <2>1, <2>2 DEF CaretOf
  <2>4. Text(d) = Flat(d.lines)
    <3> HIDE DEF d
    <3> QED  BY DEF Text, Flat
  <2>5. Text(d) = Flat(A \o <<u>>)
    BY <2>4
  <2> HIDE DEF d
  <2> QED  BY <2>3, <2>5, PreMore
<1> HIDE DEF X, Z
<1>8. Len(X) \in Nat /\ Len(Z) \in Nat /\ X \o Z \in Texts /\ Len(X \o Z) = Len(X) + Len(Z)
  BY <1>6, Glue
<1>9. Reads(b, X, Z)
  BY <1>4, <1>5, <1>6, <1>7, <1>8 DEF Reads
<1> QED  BY <1>9 DEF b, X, Z

-----------------------------------------------------------------------------
(* The operations of TextBuffer on a text in three parts *)

Replaced(t, from, upto, s) == SubSeq(t, 1, from) \o s \o SubSeq(t, upto + 1, Len(t))
LineStartOf(t, p) == Max({0} \cup {k \in 1..p : t[k] = Newline})
LineEndOf(t, p) == Min({Len(t)} \cup {k - 1 : k \in {j \in p + 1..Len(t) : t[j] = Newline}})

\* What stands where in a text of three parts.
InParts(t, X, Y, Z) ==
  /\ Len(X) \in Nat /\ Len(Y) \in Nat /\ Len(Z) \in Nat
  /\ t \in Texts /\ Len(t) = Len(X) + Len(Y) + Len(Z)
  /\ \A k \in 1..Len(X) + Len(Y) + Len(Z) :
       t[k] = IF k <= Len(X) THEN X[k]
              ELSE IF k <= Len(X) + Len(Y) THEN Y[k - Len(X)]
              ELSE Z[k - Len(X) - Len(Y)]

LEMMA Parts ==
  ASSUME NEW X \in Texts, NEW Y \in Texts, NEW Z \in Texts
  PROVE  InParts(X \o Y \o Z, X, Y, Z)
<1> DEFINE W == X \o Y
           t == W \o Z
<1>1. /\ Len(X) \in Nat /\ Len(Y) \in Nat /\ Len(Z) \in Nat
      /\ W \in Texts /\ Len(W) = Len(X) + Len(Y)
  BY Glue
<1>2. \A k \in 1..Len(X) + Len(Y) : W[k] = IF k <= Len(X) THEN X[k] ELSE Y[k - Len(X)]
  BY ConcatProperties DEF Texts
<1> HIDE DEF W
<1>3. t \in Texts /\ Len(t) = Len(W) + Len(Z)
      /\ \A k \in 1..Len(W) + Len(Z) : t[k] = IF k <= Len(W) THEN W[k] ELSE Z[k - Len(W)]
  <2>1. t \in Texts /\ Len(t) = Len(W) + Len(Z)
    BY <1>1, Glue
  <2>2. W \in Seq(Letters) /\ Z \in Seq(Letters)
    BY <1>1 DEF Texts
  <2>3. \A k \in 1..Len(W) + Len(Z) : t[k] = IF k <= Len(W) THEN W[k] ELSE Z[k - Len(W)]
    BY <2>2, ConcatProperties
  <2> QED  BY <2>1, <2>3
<1> HIDE DEF t
<1>4. \A k \in 1..Len(X) + Len(Y) + Len(Z) :
        t[k] = IF k <= Len(X) THEN X[k]
               ELSE IF k <= Len(X) + Len(Y) THEN Y[k - Len(X)]
               ELSE Z[k - Len(X) - Len(Y)]
  BY <1>1, <1>2, <1>3
<1>5. Len(t) = Len(X) + Len(Y) + Len(Z)
  BY <1>1, <1>3
<1>6. InParts(t, X, Y, Z)
  BY <1>1, <1>3, <1>4, <1>5 DEF InParts
<1> QED  BY <1>6 DEF t, W

LEMMA NoBreak ==
  \A u \in Row : \A k \in 1..Len(u) : u[k] \in Chars /\ u[k] # Newline
<1> SUFFICES ASSUME NEW u \in Row, NEW k \in 1..Len(u)
             PROVE  u[k] \in Chars /\ u[k] # Newline
  OBVIOUS
<1>1. u[k] \in Chars
  BY ElementOfSeq DEF Row
<1> QED  BY <1>1 DEF Chars, Newline

\* The line of a place begins behind the last line break before it.
LEMMA StartOfLine ==
  ASSUME NEW Y \in Texts, Y = <<>> \/ Y[Len(Y)] = Newline, NEW u \in Row, NEW Z \in Texts
  PROVE  LineStartOf(Y \o u \o Z, Len(Y) + Len(u)) = Len(Y)
<1> DEFINE t == Y \o u \o Z
           p == Len(Y) + Len(u)
           S == {0} \cup {k \in 1..p : t[k] = Newline}
<1>1. u \in Texts
  BY Glue
<1>2. /\ Len(Y) \in Nat /\ Len(u) \in Nat /\ Len(Z) \in Nat
      /\ \A k \in 1..Len(Y) + Len(u) + Len(Z) :
           t[k] = IF k <= Len(Y) THEN Y[k]
                  ELSE IF k <= Len(Y) + Len(u) THEN u[k - Len(Y)]
                  ELSE Z[k - Len(Y) - Len(u)]
  <2>1. InParts(t, Y, u, Z)
    BY <1>1, Parts
  <2> HIDE DEF t
  <2> QED  BY <2>1 DEF InParts
<1> HIDE DEF t
<1>3. \A k \in S : k <= Len(Y)
  <2> SUFFICES ASSUME NEW k \in 1..p, t[k] = Newline, k > Len(Y) PROVE FALSE
    BY <1>2
  <2>1. k - Len(Y) \in 1..Len(u) /\ t[k] = u[k - Len(Y)]
    BY <1>2
  <2> QED  BY <2>1, NoBreak
<1>4. Len(Y) \in S
  <2>1. CASE Y = <<>>
    BY <2>1, Glue
  <2>2. CASE Y # <<>>
    <3>1. Len(Y) # 0
      BY <2>2, EmptySeq DEF Texts
    <3>2. Len(Y) \in 1..p /\ t[Len(Y)] = Y[Len(Y)]
      BY <1>2, <3>1
    <3> QED  BY <2>2, <3>2
  <2> QED  BY <2>1, <2>2
<1>5. p \in Nat /\ S \in SUBSET (0..p) /\ S # {}
  BY <1>2
<1> HIDE DEF S, p
<1>6. Max(S) \in S /\ Len(Y) <= Max(S)
  BY <1>4, <1>5, Greatest
<1>7. Max(S) = Len(Y)
  <2>1. Max(S) <= Len(Y)
    BY <1>3, <1>6
  <2>2. Max(S) \in 0..p
    BY <1>5, <1>6
  <2> DEFINE n == Max(S)
  <2>3. n <= Len(Y) /\ Len(Y) <= n /\ n \in Nat
    BY <1>5, <1>6, <2>1, <2>2
  <2> HIDE DEF n
  <2>4. n = Len(Y)
    BY <1>2, <2>3
  <2> QED  BY <2>4 DEF n
<1> QED  BY <1>7 DEF S, t, p, LineStartOf

\* It ends before the next line break.
LEMMA EndOfLine ==
  ASSUME NEW X \in Texts, NEW v \in Row, NEW Z \in Texts, Z = <<>> \/ Z[1] = Newline
  PROVE  LineEndOf(X \o v \o Z, Len(X)) = Len(X) + Len(v)
<1> DEFINE t == X \o v \o Z
           p == Len(X)
           n == Len(X) + Len(v)
           Breaks == {j \in p + 1..Len(t) : t[j] = Newline}
           S == {Len(t)} \cup {k - 1 : k \in Breaks}
<1>1. v \in Texts
  BY Glue
<1>2. /\ Len(X) \in Nat /\ Len(v) \in Nat /\ Len(Z) \in Nat
      /\ Len(t) = Len(X) + Len(v) + Len(Z)
      /\ \A k \in 1..Len(X) + Len(v) + Len(Z) :
           t[k] = IF k <= Len(X) THEN X[k]
                  ELSE IF k <= Len(X) + Len(v) THEN v[k - Len(X)]
                  ELSE Z[k - Len(X) - Len(v)]
  <2>1. InParts(t, X, v, Z)
    BY <1>1, Parts
  <2> HIDE DEF t
  <2> QED  BY <2>1 DEF InParts
<1> HIDE DEF t
<1>3. \A k \in Breaks : k - 1 \in Nat /\ n <= k - 1
  <2> SUFFICES ASSUME NEW k \in p + 1..Len(t), t[k] = Newline PROVE k - 1 \in Nat /\ n <= k - 1
    OBVIOUS
  <2>1. k \in Nat /\ k > Len(X) /\ k \in 1..Len(X) + Len(v) + Len(Z)
    BY <1>2
  <2>2. ~(k <= n)
    <3> SUFFICES ASSUME k <= n PROVE FALSE
      OBVIOUS
    <3>1. k - Len(X) \in 1..Len(v) /\ t[k] = v[k - Len(X)]
      BY <1>2, <2>1
    <3> QED  BY <3>1, NoBreak
  <2> QED  BY <1>2, <2>1, <2>2
<1>4. n \in S
  <2>1. CASE Z = <<>>
    <3>1. Len(t) = n
      BY <1>2, <2>1, Glue
    <3> QED  BY <3>1
  <2>2. CASE Z # <<>>
    <3>1. Len(Z) # 0
      BY <2>2, EmptySeq DEF Texts
    <3>2. n + 1 \in 1..Len(X) + Len(v) + Len(Z) /\ n + 1 > Len(X) + Len(v) /\ n + 1 > Len(X)
      BY <1>2, <3>1
    <3>3. t[n + 1] = Z[n + 1 - Len(X) - Len(v)] /\ n + 1 - Len(X) - Len(v) = 1
      BY <1>2, <3>2
    <3>4. n + 1 \in Breaks /\ (n + 1) - 1 = n
      BY <1>2, <2>2, <3>2, <3>3
    <3> QED  BY <3>4
  <2> QED  BY <2>1, <2>2
<1>5. S \in SUBSET Nat /\ S # {} /\ Len(t) \in Nat /\ n <= Len(t) /\ n \in Nat
  BY <1>2, <1>3
<1>6. \A x \in S : n <= x
  BY <1>3, <1>5
<1> HIDE DEF Breaks, S, n
<1>7. Min(S) \in S /\ Min(S) <= n
  BY <1>4, <1>5, Least
<1>8. Min(S) = n
  <2> DEFINE m == Min(S)
  <2>1. m \in Nat /\ n <= m /\ m <= n
    BY <1>5, <1>6, <1>7
  <2> HIDE DEF m
  <2>2. m = n
    BY <1>5, <2>1
  <2> QED  BY <2>2 DEF m
<1> QED  BY <1>8 DEF S, Breaks, t, p, n, LineEndOf

\* Rows above a line end in a line break, those below it begin with one.
LEMMA Breaks ==
  ASSUME NEW A \in Rows
  PROVE  /\ Pre(A) \in Texts /\ (Pre(A) = <<>> \/ Pre(A)[Len(Pre(A))] = Newline)
         /\ Post(A) \in Texts /\ (Post(A) = <<>> \/ Post(A)[1] = Newline)
         /\ Pre(A) = <<>> <=> A = <<>>
         /\ Post(A) = <<>> <=> A = <<>>
<1>1. CASE A = <<>>
  BY <1>1, Glue DEF Pre, Post
<1>2. CASE A # <<>>
  <2>1. Flat(A) \in Texts /\ Len(Flat(A)) \in Nat
    BY <1>2, FlatTyped, Glue
  <2>2. /\ Pre(A) \in Texts /\ Len(Pre(A)) = Len(Flat(A)) + 1
        /\ Pre(A)[Len(Flat(A)) + 1] = Newline
    BY <1>2, <2>1, Glue, ConcatProperties DEF Pre, Texts
  <2>3. /\ Post(A) \in Texts /\ Len(Post(A)) = Len(Flat(A)) + 1
        /\ Post(A)[1] = Newline
    BY <1>2, <2>1, Glue, ConcatProperties DEF Post, Texts
  <2>4. Pre(A) # <<>> /\ Post(A) # <<>>
    BY <2>1, <2>2, <2>3, Glue
  <2> QED  BY <1>2, <2>2, <2>3, <2>4
<1> QED  BY <1>1, <1>2

\* From the bar b to the bar d: a part of the text is replaced and the caret is
\* behind it; or the caret moves.
Writes(b, d, from, upto, s) ==
  Text(d) = Replaced(Text(b), from, upto, s) /\ CaretOf(d) = from + Len(s)
Goes(b, d, place) == Text(d) = Text(b) /\ CaretOf(d) = place

\* What is before and behind a place.
LEMMA Sides ==
  ASSUME NEW X \in Texts, NEW Z \in Texts
  PROVE  SubSeq(X \o Z, 1, Len(X)) = X /\ SubSeq(X \o Z, Len(X) + 1, Len(X \o Z)) = Z
BY Cut DEF Texts

LEMMA ReplacesBack ==
  ASSUME NEW b, NEW d, NEW X \in Texts, NEW y \in Texts, NEW s \in Texts, NEW Z \in Texts,
         Reads(b, X \o y, Z), Reads(d, X \o s, Z)
  PROVE  Writes(b, d, Len(X), CaretOf(b), s)
<1>1. Text(b) = X \o y \o Z /\ Text(d) = X \o s \o Z
  BY DEF Reads
<1>2. CaretOf(b) = Len(X \o y) /\ CaretOf(d) = Len(X \o s)
  BY DEF Reads
<1>3. Len(X \o y) = Len(X) + Len(y) /\ Len(X \o s) = Len(X) + Len(s)
  BY Glue
<1>5. Replaced(Text(b), Len(X), CaretOf(b), s) = X \o s \o Z
  <2>1. X \o y \in Texts /\ y \o Z \in Texts /\ X \o y \o Z = X \o (y \o Z)
    BY Glue
  <2>2. SubSeq(Text(b), 1, Len(X)) = X
    BY <1>1, <2>1, Sides
  <2>3. SubSeq(Text(b), CaretOf(b) + 1, Len(Text(b))) = Z
    BY <1>1, <1>2, <2>1, Sides
  <2> QED  BY <2>2, <2>3 DEF Replaced
<1> QED  BY <1>1, <1>2, <1>3, <1>5 DEF Writes

LEMMA ErasesAhead ==
  ASSUME NEW b, NEW d, NEW X \in Texts, NEW y \in Texts, NEW Z \in Texts,
         Reads(b, X, y \o Z), Reads(d, X, Z), NEW m, m = CaretOf(b) + Len(y)
  PROVE  Writes(b, d, CaretOf(b), m, <<>>)
<1>1. Text(b) = X \o (y \o Z) /\ Text(d) = X \o Z /\ CaretOf(b) = Len(X) /\ CaretOf(d) = Len(X)
  BY DEF Reads
<1>2. X \o (y \o Z) = X \o y \o Z
  BY Regroup
<1>3. X \o <<>> = X /\ Len(<<>>) = 0 /\ Len(X) \in Nat
  BY Glue
<1>4. Text(b) = X \o y \o Z /\ m = Len(X \o y)
  BY <1>1, <1>2, Glue
<1>5. Replaced(Text(b), CaretOf(b), m, <<>>) = X \o <<>> \o Z
  <2>1. X \o y \in Texts /\ y \o Z \in Texts
    BY Glue
  <2>2. SubSeq(Text(b), 1, CaretOf(b)) = X
    BY <1>1, <2>1, Sides
  <2>3. SubSeq(Text(b), m + 1, Len(Text(b))) = Z
    BY <1>4, <2>1, Sides
  <2> QED  BY <2>2, <2>3 DEF Replaced
<1>6. CaretOf(b) + Len(<<>>) = CaretOf(b)
  BY <1>1, <1>3
<1> QED  BY <1>1, <1>3, <1>5, <1>6 DEF Writes

\* The text that a caret splits, and its parts, determine each other.
LEMMA ReadsOnce ==
  ASSUME NEW b, NEW X, NEW Z, NEW Y, NEW W, Reads(b, X, Z), Reads(b, Y, W)
  PROVE  X = Y /\ Z = W
<1>1. X \in Texts /\ Z \in Texts /\ Y \in Texts /\ W \in Texts
  BY DEF Reads
<1>2. X \o Z = Y \o W /\ Len(X) = Len(Y)
  BY DEF Reads
<1>3. SubSeq(X \o Z, 1, Len(X)) = X /\ SubSeq(X \o Z, Len(X) + 1, Len(X \o Z)) = Z
  BY <1>1, Sides
<1>4. SubSeq(Y \o W, 1, Len(Y)) = Y /\ SubSeq(Y \o W, Len(Y) + 1, Len(Y \o W)) = W
  BY <1>1, Sides
<1> QED  BY <1>2, <1>3, <1>4

LEMMA PostMore ==
  ASSUME NEW l \in Row, NEW B \in Rows
  PROVE  Post(<<l>> \o B) = <<Newline>> \o (l \o Post(B)) /\ Post(B) \in Texts /\ l \in Texts
<1>1. <<>> \in Rows /\ <<l>> \in Rows /\ Len(<<l>>) = 1 /\ Len(B) \in Nat
  BY Nothing, One, LenProperties DEF Rows
<1>2. Flat(<<>> \o <<l>> \o B) = Pre(<<>>) \o l \o Post(B) /\ Post(B) \in Texts /\ l \in Texts
  BY <1>1, FlatAround, Glue
<1>3. <<>> \o <<l>> = <<l>> /\ Pre(<<>>) = <<>> /\ <<>> \o l = l
  BY <1>1, <1>2, Nothing, Glue DEF Pre
<1>4. <<l>> \o B # <<>>
  <2>1. Len(<<l>> \o B) = 1 + Len(B)
    BY <1>1, ConcatProperties DEF Rows
  <2> QED  BY <1>1, <2>1, Nothing
<1>5. Flat(<<l>> \o B) = l \o Post(B)
  BY <1>2, <1>3
<1>6. Post(<<l>> \o B) = <<Newline>> \o Flat(<<l>> \o B)
  BY <1>4 DEF Post
<1> QED  BY <1>2, <1>5, <1>6

LEMMA PartsTyped ==
  ASSUME NEW A \in Rows, NEW u \in Row, NEW v \in Row, NEW B \in Rows
  PROVE  /\ Pre(A) \in Texts /\ Post(B) \in Texts /\ u \in Texts /\ v \in Texts
         /\ Pre(A) \o u \in Texts /\ v \o Post(B) \in Texts
BY PreMore, PostMore, Glue

\* The bar at a caret that has a word, or a line break, before or behind it.
LEMMA ReadsBack ==
  ASSUME NEW A \in Rows, NEW x \in Row, NEW y \in Row, NEW v \in Row, NEW B \in Rows
  PROVE  Reads(At(A, x \o y, v, B), Pre(A) \o x \o y, v \o Post(B))
<1>1. x \o y \in Row
  BY Joint
<1>2. Reads(At(A, x \o y, v, B), Pre(A) \o (x \o y), v \o Post(B))
  BY <1>1, ReadsAt
<1>3. Pre(A) \o (x \o y) = Pre(A) \o x \o y
  <2>1. Pre(A) \in Texts /\ x \in Texts /\ y \in Texts
    BY PreMore, Glue
  <2> QED  BY <2>1, Regroup
<1> QED  BY <1>2, <1>3

LEMMA ReadsAhead ==
  ASSUME NEW A \in Rows, NEW u \in Row, NEW y \in Row, NEW v \in Row, NEW B \in Rows
  PROVE  Reads(At(A, u, y \o v, B), Pre(A) \o u, y \o (v \o Post(B)))
<1>1. y \o v \in Row
  BY Joint
<1>2. Reads(At(A, u, y \o v, B), Pre(A) \o u, (y \o v) \o Post(B))
  BY <1>1, ReadsAt
<1>3. (y \o v) \o Post(B) = y \o (v \o Post(B))
  <2>1. y \in Texts /\ v \in Texts /\ Post(B) \in Texts
    BY PostMore, Glue
  <2> QED  BY <2>1, Regroup
<1> QED  BY <1>2, <1>3

LEMMA ReadsTop ==
  ASSUME NEW A \in Rows, NEW l \in Row, NEW v \in Row, NEW B \in Rows
  PROVE  Reads(At(A \o <<l>>, <<>>, v, B), Pre(A) \o l \o <<Newline>>, v \o Post(B))
<1>1. A \o <<l>> \in Rows /\ <<>> \in Row
  BY One, Joint, Nothing
<1>2. Reads(At(A \o <<l>>, <<>>, v, B), Pre(A \o <<l>>) \o <<>>, v \o Post(B))
  BY <1>1, ReadsAt
<1>3. Pre(A \o <<l>>) \o <<>> = Pre(A \o <<l>>)
  <2>1. Pre(A \o <<l>>) \in Texts
    BY <1>1, PartsTyped
  <2> QED  BY <2>1, Glue
<1>4. Pre(A \o <<l>>) = Pre(A) \o l \o <<Newline>>
  BY PreMore
<1> QED  BY <1>2, <1>3, <1>4

LEMMA ReadsEnd ==
  ASSUME NEW A \in Rows, NEW u \in Row, NEW l \in Row, NEW B \in Rows
  PROVE  Reads(At(A, u, <<>>, <<l>> \o B), Pre(A) \o u, <<Newline>> \o (l \o Post(B)))
<1>1. <<l>> \o B \in Rows /\ <<>> \in Row
  BY One, Joint, Nothing
<1>2. Reads(At(A, u, <<>>, <<l>> \o B), Pre(A) \o u, <<>> \o Post(<<l>> \o B))
  BY <1>1, ReadsAt
<1>3. <<>> \o Post(<<l>> \o B) = Post(<<l>> \o B)
  <2>1. Post(<<l>> \o B) \in Texts
    BY <1>1, PartsTyped
  <2> QED  BY <2>1, Glue
<1>4. Post(<<l>> \o B) = <<Newline>> \o (l \o Post(B))
  BY PostMore
<1> QED  BY <1>2, <1>3, <1>4

-----------------------------------------------------------------------------
(* What each key does to the text *)

\* A character, or a line break, is put at the caret.
Puts(b, d, c) == \A X, Z : Reads(b, X, Z) => Reads(d, X \o <<c>>, Z)

LEMMA PutReads ==
  ASSUME NEW b \in Bars, NEW c \in Letters
  PROVE  Puts(b, Put(b, c), c)
<1> SUFFICES ASSUME NEW X, NEW Z, Reads(b, X, Z) PROVE Reads(Put(b, c), X \o <<c>>, Z)
  BY DEF Puts
<1>1. PICK A \in Rows, u \in Row, v \in Row, B \in Rows : b = At(A, u, v, B)
  BY BarIsAt
<1>2. Reads(b, Pre(A) \o u, v \o Post(B))
  BY <1>1, ReadsAt
<1>3. X = Pre(A) \o u /\ Z = v \o Post(B)
  BY <1>2, ReadsOnce
<1>4. CASE c = Newline
  <2>1. Put(b, c) = At(A \o <<u>>, <<>>, v, B)
    BY <1>1, <1>4, InsertNewline DEF Put
  <2> QED  BY <1>3, <1>4, <2>1, ReadsTop
<1>5. CASE c # Newline
  <2>1. c \in Chars /\ <<c>> \in Row
    BY <1>5, One DEF Letters
  <2>2. Put(b, c) = At(A, u \o <<c>>, v, B)
    BY <1>1, <1>5, <2>1, InsertChar DEF Put
  <2> QED  BY <1>3, <2>1, <2>2, ReadsBack
<1> QED  BY <1>4, <1>5

LEMMA PutWrites ==
  ASSUME NEW b \in Bars, NEW c \in Letters
  PROVE  Writes(b, Put(b, c), CaretOf(b), CaretOf(b), <<c>>)
<1>1. PICK A \in Rows, u \in Row, v \in Row, B \in Rows : b = At(A, u, v, B)
  BY BarIsAt
<1> DEFINE X == Pre(A) \o u
           Z == v \o Post(B)
<1>2. Reads(b, X, Z) /\ X \in Texts /\ Z \in Texts
  BY <1>1, ReadsAt, PartsTyped
<1> HIDE DEF X, Z
<1>3. Reads(Put(b, c), X \o <<c>>, Z)
  BY <1>2, PutReads DEF Puts
<1>4. <<c>> \in Texts /\ <<>> \in Texts /\ X \o <<>> = X /\ CaretOf(b) = Len(X)
  BY <1>2, Glue DEF Texts, Reads
<1>5. Reads(b, X \o <<>>, Z)
  BY <1>2, <1>4
<1>6. Writes(b, Put(b, c), Len(X), CaretOf(b), <<c>>)
  BY <1>2, <1>3, <1>4, <1>5, ReplacesBack
<1> QED  BY <1>4, <1>6

LEMMA ReadsSome ==
  ASSUME NEW b \in Bars
  PROVE  \E X \in Texts, Z \in Texts : Reads(b, X, Z)
<1>1. PICK A \in Rows, u \in Row, v \in Row, B \in Rows : b = At(A, u, v, B)
  BY BarIsAt
<1>2. Reads(b, Pre(A) \o u, v \o Post(B))
  BY <1>1, ReadsAt
<1> QED  BY <1>2, PartsTyped

\* Nothing is erased where there is nothing.
LEMMA StaysWrites ==
  ASSUME NEW b \in Bars
  PROVE  Writes(b, b, CaretOf(b), CaretOf(b), <<>>) /\ Goes(b, b, CaretOf(b))
<1>1. PICK X \in Texts, Z \in Texts : Reads(b, X, Z)
  BY ReadsSome
<1>2. <<>> \in Texts /\ X \o <<>> = X /\ CaretOf(b) = Len(X)
  BY <1>1, Glue DEF Reads
<1>3. Reads(b, X \o <<>>, Z)
  BY <1>1, <1>2
<1>4. Writes(b, b, Len(X), CaretOf(b), <<>>)
  BY <1>2, <1>3, ReplacesBack
<1> QED  BY <1>2, <1>4 DEF Goes

\* The caret moves over a part of the text.
LEMMA GoesOver ==
  ASSUME NEW b, NEW d, NEW X, NEW Z, NEW Y, NEW W, Reads(b, X, Z), Reads(d, Y, W),
         X \o Z = Y \o W
  PROVE  Goes(b, d, Len(Y))
BY DEF Goes, Reads

BeforeOf(b) == IF CaretOf(b) = 0 THEN 0 ELSE CaretOf(b) - 1
AfterOf(b) == IF CaretOf(b) = Len(Text(b)) THEN CaretOf(b) ELSE CaretOf(b) + 1

Shrinks(b, X, y, Z) ==
  /\ X \in Texts /\ y \in Texts /\ Z \in Texts /\ Len(y) = 1
  /\ Reads(b, X \o y, Z) /\ Reads(backspace(b), X, Z) /\ Reads(cursor_left(b), X, y \o Z)

LEMMA BackIs ==
  ASSUME NEW b \in Bars
  PROVE  \/ CaretOf(b) = 0 /\ backspace(b) = b /\ cursor_left(b) = b
         \/ \E X, y, Z : Shrinks(b, X, y, Z)
<1>1. PICK A \in Rows, u \in Row, v \in Row, B \in Rows : b = At(A, u, v, B)
  BY BarIsAt
<1>2. CASE \E x \in Row, c \in Chars : u = x \o <<c>>
  <2>1. PICK x \in Row, c \in Chars : u = x \o <<c>>
    BY <1>2
  <2>2. <<c>> \in Row /\ Len(<<c>>) = 1
    BY One
  <2>3. /\ Pre(A) \o x \in Texts /\ v \o Post(B) \in Texts /\ <<c>> \in Texts
    BY <2>2, PartsTyped, Glue
  <2>4. Reads(b, Pre(A) \o x \o <<c>>, v \o Post(B))
    BY <1>1, <2>1, <2>2, ReadsBack
  <2>5. Reads(backspace(b), Pre(A) \o x, v \o Post(B))
    BY <1>1, <2>1, BackspaceIn, ReadsAt
  <2>6. Reads(cursor_left(b), Pre(A) \o x, <<c>> \o (v \o Post(B)))
    BY <1>1, <2>1, <2>2, BackspaceIn, ReadsAhead
  <2>7. Shrinks(b, Pre(A) \o x, <<c>>, v \o Post(B))
    BY <2>2, <2>3, <2>4, <2>5, <2>6 DEF Shrinks
  <2> QED  BY <2>7
<1>3. CASE u = <<>> /\ A = <<>>
  <2>1. backspace(b) = b /\ cursor_left(b) = b
    BY <1>1, <1>3, BackspaceTop
  <2>2. Reads(b, Pre(A) \o u, v \o Post(B))
    BY <1>1, ReadsAt
  <2>3. Pre(A) \o u = <<>>
    BY <1>3, Glue DEF Pre
  <2>4. CaretOf(b) = 0
    BY <2>2, <2>3, Glue DEF Reads
  <2> QED  BY <2>1, <2>4
<1>4. CASE u = <<>> /\ \E C \in Rows, l \in Row : A = C \o <<l>>
  <2>1. PICK C \in Rows, l \in Row : A = C \o <<l>>
    BY <1>4
  <2>2. Pre(C) \o l \in Texts /\ v \o Post(B) \in Texts /\ <<Newline>> \in Texts
        /\ Len(<<Newline>>) = 1
    BY PartsTyped, Glue
  <2>3. Reads(b, Pre(C) \o l \o <<Newline>>, v \o Post(B))
    BY <1>1, <1>4, <2>1, ReadsTop
  <2>4. Reads(backspace(b), Pre(C) \o l, v \o Post(B))
    BY <1>1, <1>4, <2>1, BackspaceUp, ReadsAt
  <2>5. Reads(cursor_left(b), Pre(C) \o l, <<Newline>> \o (v \o Post(B)))
    BY <1>1, <1>4, <2>1, BackspaceUp, ReadsEnd
  <2>6. Shrinks(b, Pre(C) \o l, <<Newline>>, v \o Post(B))
    BY <2>2, <2>3, <2>4, <2>5 DEF Shrinks
  <2> QED  BY <2>6
<1>5. (u = <<>> \/ \E x \in Row, c \in Chars : u = x \o <<c>>)
      /\ (A = <<>> \/ \E C \in Rows, l \in Row : A = C \o <<l>>)
  BY EndsOf
<1> QED  BY <1>2, <1>3, <1>4, <1>5

LEMMA BackWrites ==
  ASSUME NEW b \in Bars
  PROVE  /\ Writes(b, backspace(b), BeforeOf(b), CaretOf(b), <<>>)
         /\ Goes(b, cursor_left(b), BeforeOf(b))
<1>1. CASE CaretOf(b) = 0 /\ backspace(b) = b /\ cursor_left(b) = b
  BY <1>1, StaysWrites DEF BeforeOf
<1>2. CASE \E X, y, Z : Shrinks(b, X, y, Z)
  <2>1. PICK X, y, Z : Shrinks(b, X, y, Z)
    BY <1>2
  <2>2. /\ X \in Texts /\ y \in Texts /\ Z \in Texts /\ Len(y) = 1
        /\ Reads(b, X \o y, Z) /\ Reads(backspace(b), X, Z)
        /\ Reads(cursor_left(b), X, y \o Z)
    BY <2>1 DEF Shrinks
  <2>3. <<>> \in Texts /\ X \o <<>> = X /\ Len(X \o y) = Len(X) + Len(y) /\ Len(X) \in Nat
    BY <2>2, Glue
  <2>4. CaretOf(b) = Len(X) + 1
    BY <2>2, <2>3 DEF Reads
  <2>5. BeforeOf(b) = Len(X)
    BY <2>3, <2>4 DEF BeforeOf
  <2>6. Reads(backspace(b), X \o <<>>, Z)
    BY <2>2, <2>3
  <2>7. Writes(b, backspace(b), Len(X), CaretOf(b), <<>>)
    BY <2>2, <2>3, <2>6, ReplacesBack
  <2>8. X \o y \o Z = X \o (y \o Z)
    BY <2>2, Regroup
  <2>9. Goes(b, cursor_left(b), Len(X))
    BY <2>2, <2>8, GoesOver
  <2> QED  BY <2>5, <2>7, <2>9
<1> QED  BY <1>1, <1>2, BackIs

Eats(b, X, y, Z) ==
  /\ X \in Texts /\ y \in Texts /\ Z \in Texts /\ Len(y) = 1
  /\ Reads(b, X, y \o Z) /\ Reads(delete_forward(b), X, Z) /\ Reads(cursor_right(b), X \o y, Z)

LEMMA AheadIs ==
  ASSUME NEW b \in Bars
  PROVE  \/ CaretOf(b) = Len(Text(b)) /\ delete_forward(b) = b /\ cursor_right(b) = b
         \/ \E X, y, Z : Eats(b, X, y, Z)
<1>1. PICK A \in Rows, u \in Row, v \in Row, B \in Rows : b = At(A, u, v, B)
  BY BarIsAt
<1>2. CASE \E x \in Row, c \in Chars : v = <<c>> \o x
  <2>1. PICK x \in Row, c \in Chars : v = <<c>> \o x
    BY <1>2
  <2>2. <<c>> \in Row /\ Len(<<c>>) = 1
    BY One
  <2>3. Pre(A) \o u \in Texts /\ x \o Post(B) \in Texts /\ <<c>> \in Texts
    BY <2>2, PartsTyped, Glue
  <2>4. Reads(b, Pre(A) \o u, <<c>> \o (x \o Post(B)))
    BY <1>1, <2>1, <2>2, ReadsAhead
  <2>5. Reads(delete_forward(b), Pre(A) \o u, x \o Post(B))
    BY <1>1, <2>1, DeleteIn, ReadsAt
  <2>6. Reads(cursor_right(b), Pre(A) \o u \o <<c>>, x \o Post(B))
    BY <1>1, <2>1, <2>2, DeleteIn, ReadsBack
  <2>7. Eats(b, Pre(A) \o u, <<c>>, x \o Post(B))
    BY <2>2, <2>3, <2>4, <2>5, <2>6 DEF Eats
  <2> QED  BY <2>7
<1>3. CASE v = <<>> /\ B = <<>>
  <2>1. delete_forward(b) = b /\ cursor_right(b) = b
    BY <1>1, <1>3, DeleteEnd
  <2>2. Reads(b, Pre(A) \o u, v \o Post(B)) /\ Pre(A) \o u \in Texts
    BY <1>1, ReadsAt, PartsTyped
  <2>3. v \o Post(B) = <<>>
    BY <1>3, Glue DEF Post
  <2>4. CaretOf(b) = Len(Text(b))
    BY <2>2, <2>3, Glue DEF Reads
  <2> QED  BY <2>1, <2>4
<1>4. CASE v = <<>> /\ \E C \in Rows, l \in Row : B = <<l>> \o C
  <2>1. PICK C \in Rows, l \in Row : B = <<l>> \o C
    BY <1>4
  <2>2. Pre(A) \o u \in Texts /\ l \o Post(C) \in Texts /\ <<Newline>> \in Texts
        /\ Len(<<Newline>>) = 1
    BY PartsTyped, Glue
  <2>3. Reads(b, Pre(A) \o u, <<Newline>> \o (l \o Post(C)))
    BY <1>1, <1>4, <2>1, ReadsEnd
  <2>4. Reads(delete_forward(b), Pre(A) \o u, l \o Post(C))
    BY <1>1, <1>4, <2>1, DeleteDown, ReadsAt
  <2>5. Reads(cursor_right(b), Pre(A) \o u \o <<Newline>>, l \o Post(C))
    BY <1>1, <1>4, <2>1, DeleteDown, ReadsTop
  <2>6. Eats(b, Pre(A) \o u, <<Newline>>, l \o Post(C))
    BY <2>2, <2>3, <2>4, <2>5 DEF Eats
  <2> QED  BY <2>6
<1>5. (v = <<>> \/ \E x \in Row, c \in Chars : v = <<c>> \o x)
      /\ (B = <<>> \/ \E C \in Rows, l \in Row : B = <<l>> \o C)
  BY EndsOf
<1> QED  BY <1>2, <1>3, <1>4, <1>5

LEMMA AheadWrites ==
  ASSUME NEW b \in Bars
  PROVE  /\ Writes(b, delete_forward(b), CaretOf(b), AfterOf(b), <<>>)
         /\ Goes(b, cursor_right(b), AfterOf(b))
<1>1. CASE CaretOf(b) = Len(Text(b)) /\ delete_forward(b) = b /\ cursor_right(b) = b
  BY <1>1, StaysWrites DEF AfterOf
<1>2. CASE \E X, y, Z : Eats(b, X, y, Z)
  <2>1. PICK X, y, Z : Eats(b, X, y, Z)
    BY <1>2
  <2>2. /\ X \in Texts /\ y \in Texts /\ Z \in Texts /\ Len(y) = 1
        /\ Reads(b, X, y \o Z) /\ Reads(delete_forward(b), X, Z)
        /\ Reads(cursor_right(b), X \o y, Z)
    BY <2>1 DEF Eats
  <2>3. /\ Len(X \o y) = Len(X) + Len(y) /\ Len(X) \in Nat
        /\ y \o Z \in Texts /\ Len(y \o Z) = Len(y) + Len(Z) /\ Len(Z) \in Nat
    BY <2>2, Glue
  <2>4. CaretOf(b) = Len(X) /\ Len(Text(b)) = Len(X) + 1 + Len(Z)
    BY <2>2, <2>3 DEF Reads
  <2>5. AfterOf(b) = CaretOf(b) + Len(y) /\ AfterOf(b) = Len(X \o y)
    BY <2>2, <2>3, <2>4 DEF AfterOf
  <2>6. Writes(b, delete_forward(b), CaretOf(b), AfterOf(b), <<>>)
    BY <2>2, <2>5, ErasesAhead
  <2>7. X \o (y \o Z) = X \o y \o Z
    BY <2>2, Regroup
  <2>8. Goes(b, cursor_right(b), Len(X \o y))
    BY <2>2, <2>7, GoesOver
  <2> QED  BY <2>5, <2>6, <2>8
<1> QED  BY <1>1, <1>2, AheadIs

\* The line of the caret in the text.
StartOf(b) == LineStartOf(Text(b), CaretOf(b))
EndOf(b) == LineEndOf(Text(b), CaretOf(b))

LEMMA LineOf ==
  ASSUME NEW A \in Rows, NEW u \in Row, NEW v \in Row, NEW B \in Rows, NEW b,
         b = At(A, u, v, B)
  PROVE  /\ StartOf(b) = Len(Pre(A)) /\ EndOf(b) = Len(Pre(A) \o u) + Len(v)
         /\ CaretOf(b) = Len(Pre(A)) + Len(u)
         /\ Len(Pre(A)) \in Nat /\ Len(u) \in Nat /\ Len(v) \in Nat /\ Len(Post(B)) \in Nat
         /\ Len(Text(b)) = Len(Pre(A)) + Len(u) + Len(v) + Len(Post(B))
         /\ Len(Pre(A) \o u) = Len(Pre(A)) + Len(u)
<1> DEFINE X == Pre(A)
           Z == Post(B)
<1>1. /\ X \in Texts /\ Z \in Texts /\ u \in Texts /\ v \in Texts
      /\ X \o u \in Texts /\ v \o Z \in Texts
  BY PartsTyped
<1>2. Reads(b, X \o u, v \o Z)
  BY ReadsAt
<1>3. (X = <<>> \/ X[Len(X)] = Newline) /\ (Z = <<>> \/ Z[1] = Newline)
  BY Breaks
<1> HIDE DEF X, Z
<1>4. Text(b) = X \o u \o (v \o Z) /\ CaretOf(b) = Len(X \o u)
  BY <1>2 DEF Reads
<1>5. /\ Len(X) \in Nat /\ Len(u) \in Nat /\ Len(v) \in Nat /\ Len(Z) \in Nat
      /\ Len(X \o u) = Len(X) + Len(u) /\ Len(v \o Z) = Len(v) + Len(Z)
      /\ Len(X \o u \o (v \o Z)) = Len(X \o u) + Len(v \o Z)
  BY <1>1, Glue
<1>6. LineStartOf(X \o u \o (v \o Z), Len(X) + Len(u)) = Len(X)
  BY <1>1, <1>3, StartOfLine
<1>7. LineEndOf((X \o u) \o v \o Z, Len(X \o u)) = Len(X \o u) + Len(v)
  BY <1>1, <1>3, EndOfLine
<1>8. (X \o u) \o v \o Z = X \o u \o (v \o Z)
  BY <1>1, Regroup, ZenonT(60)
<1>9. StartOf(b) = Len(X)
  BY <1>4, <1>5, <1>6 DEF StartOf
<1>10. EndOf(b) = Len(X \o u) + Len(v)
  BY <1>4, <1>7, <1>8 DEF EndOf
<1>11. CaretOf(b) = Len(X) + Len(u) /\ Len(Text(b)) = Len(X) + Len(u) + Len(v) + Len(Z)
  BY <1>4, <1>5
<1> QED  BY <1>5, <1>9, <1>10, <1>11 DEF X, Z

LEMMA LineWrites ==
  ASSUME NEW b \in Bars
  PROVE  /\ Writes(b, Erase(b, 0, b.col), StartOf(b), CaretOf(b), <<>>)
         /\ Writes(b, Erase(b, b.col, Size(Line(b))), CaretOf(b), EndOf(b), <<>>)
         /\ Goes(b, Moved(b, 0), StartOf(b)) /\ Goes(b, Moved(b, Size(Line(b))), EndOf(b))
<1>1. PICK A \in Rows, u \in Row, v \in Row, B \in Rows : b = At(A, u, v, B)
  BY BarIsAt
<1> DEFINE X == Pre(A)
           Z == Post(B)
<1>2. /\ X \in Texts /\ Z \in Texts /\ u \in Texts /\ v \in Texts /\ <<>> \in Texts
      /\ X \o u \in Texts /\ v \o Z \in Texts /\ <<>> \in Row
  BY PartsTyped, Glue, Nothing
<1>3. /\ StartOf(b) = Len(X) /\ EndOf(b) = Len(X \o u) + Len(v)
  BY <1>1, LineOf
<1>4. Reads(b, X \o u, v \o Z)
  BY <1>1, ReadsAt
<1>5. Writes(b, Erase(b, 0, b.col), StartOf(b), CaretOf(b), <<>>)
  <2>1. Erase(b, 0, b.col) = At(A, <<>>, v, B)
    BY <1>1, KillLine
  <2>2. Reads(Erase(b, 0, b.col), X \o <<>>, v \o Z)
    BY <1>2, <2>1, ReadsAt
  <2> HIDE DEF X, Z
  <2>3. Writes(b, Erase(b, 0, b.col), Len(X), CaretOf(b), <<>>)
    BY <1>2, <1>4, <2>2, ReplacesBack
  <2> QED  BY <1>3, <2>3
<1>6. Writes(b, Erase(b, b.col, Size(Line(b))), CaretOf(b), EndOf(b), <<>>)
  <2>1. Erase(b, b.col, Size(Line(b))) = At(A, u, <<>>, B)
    BY <1>1, KillLine
  <2>2. Reads(Erase(b, b.col, Size(Line(b))), X \o u, <<>> \o Z)
    BY <1>2, <2>1, ReadsAt
  <2> HIDE DEF X, Z
  <2>3. <<>> \o Z = Z
    BY <1>2, Glue
  <2>4. EndOf(b) = CaretOf(b) + Len(v)
    BY <1>3, <1>4 DEF Reads
  <2>5. Reads(Erase(b, b.col, Size(Line(b))), X \o u, Z)
    BY <2>2, <2>3
  <2> QED  BY <1>2, <1>4, <2>4, <2>5, ErasesAhead
<1>7. Goes(b, Moved(b, 0), StartOf(b))
  <2>1. Moved(b, 0) = At(A, <<>>, u \o v, B)
    BY <1>1, HomeAndEnd
  <2>2. Reads(Moved(b, 0), X \o <<>>, u \o (v \o Z))
    BY <1>2, <2>1, ReadsAhead
  <2> HIDE DEF X, Z
  <2>3. X \o <<>> = X
    BY <1>2, Glue
  <2>4. X \o u \o (v \o Z) = X \o (u \o (v \o Z))
    <3> DEFINE W == v \o Z
    <3>1. W \in Texts /\ X \in Texts /\ u \in Texts
      BY <1>2
    <3> HIDE DEF W
    <3>2. (X \o u) \o W = X \o (u \o W)
      BY <3>1, Glue
    <3> QED  BY <3>2 DEF W
  <2>5. Reads(Moved(b, 0), X, u \o (v \o Z))
    BY <2>2, <2>3
  <2>6. Goes(b, Moved(b, 0), Len(X))
    BY <1>4, <2>4, <2>5, GoesOver
  <2> QED  BY <1>3, <2>6
<1>8. Goes(b, Moved(b, Size(Line(b))), EndOf(b))
  <2>1. Moved(b, Size(Line(b))) = At(A, u \o v, <<>>, B)
    BY <1>1, HomeAndEnd
  <2>2. Reads(Moved(b, Size(Line(b))), X \o u \o v, <<>> \o Z)
    BY <1>2, <2>1, ReadsBack
  <2> HIDE DEF X, Z
  <2>3. <<>> \o Z = Z
    BY <1>2, Glue
  <2>4. X \o u \o (v \o Z) = X \o u \o v \o Z
    BY <1>2, Regroup, ZenonT(60)
  <2>5. Reads(Moved(b, Size(Line(b))), X \o u \o v, Z)
    BY <2>2, <2>3
  <2>6. Goes(b, Moved(b, Size(Line(b))), Len(X \o u \o v))
    BY <1>4, <2>4, <2>5, GoesOver
  <2>7. Len(X \o u \o v) = Len(X \o u) + Len(v)
    BY <1>2, Glue
  <2> QED  BY <1>3, <2>6, <2>7
<1> QED  BY <1>5, <1>6, <1>7, <1>8

\* To another line: the text is the same, and the caret somewhere in that line.
Climbs(b, d) ==
  IF StartOf(b) = 0 THEN Goes(b, d, CaretOf(b))
  ELSE \E p \in LineStartOf(Text(b), StartOf(b) - 1)..StartOf(b) - 1 : Goes(b, d, p)
Falls(b, d) ==
  IF EndOf(b) = Len(Text(b)) THEN Goes(b, d, CaretOf(b))
  ELSE \E p \in EndOf(b) + 1..LineEndOf(Text(b), EndOf(b) + 1) : Goes(b, d, p)

LEMMA UpGoes ==
  ASSUME NEW b \in Bars
  PROVE  Climbs(b, ToRow(b, b.row - 1))
<1>1. PICK A \in Rows, u \in Row, v \in Row, B \in Rows : b = At(A, u, v, B)
  BY BarIsAt
<1>2. StartOf(b) = Len(Pre(A)) /\ b.row = Len(A) + 1 /\ Len(A) \in Nat
      /\ b.lines = A \o <<u \o v>> \o B
  <2>1. StartOf(b) = Len(Pre(A))
    BY <1>1, LineOf
  <2>2. Shows(b, A, u, v, B)
    BY <1>1, AtIsBar
  <2> QED  BY <2>1, <2>2 DEF Shows
<1>3. CASE A = <<>>
  <2>1. StartOf(b) = 0 /\ b.row - 1 = 0
    BY <1>2, <1>3, Nothing, Glue DEF Pre
  <2>2. ToRow(b, b.row - 1) = b
    BY <1>1, <2>1, NoRow
  <2> QED  BY <2>1, <2>2, StaysWrites DEF Climbs
<1>4. ASSUME NEW C \in Rows, NEW l \in Row, A = C \o <<l>>
      PROVE  Climbs(b, ToRow(b, b.row - 1))
  <2>0. PICK z \in Row : z = <<>>
    BY Nothing
  <2> DEFINE d == ToRow(b, b.row - 1)
             D == <<u \o v>> \o B
             e == At(C, l, z, D)
  <2>1. u \o v \in Row /\ D \in Rows /\ l \o z = l
    BY <2>0, One, Joint, Nothing
  <2>2. Stacked(b.lines, C, l, u \o v, B)
    BY <1>2, <1>4, <2>1, TwoLines
  <2>3. b.lines = C \o <<l>> \o D /\ Len(C) \in Nat /\ Len(A) = Len(C) + 1
    BY <1>4, <2>2 DEF Stacked
  <2>4. InLine(d, C, l, D)
    <3>1. b.row - 1 = Len(C) + 1
      BY <1>2, <2>3
    <3> QED  BY <1>1, <1>4, <3>1, UpAt
  <2> HIDE DEF d, D
  <2>5. PICK x \in Row, y \in Row : l = x \o y /\ d = At(C, x, y, D)
    BY <2>4 DEF InLine
  <2>6. Text(d) = Text(b) /\ Text(e) = Text(b)
    <3>1. Shows(d, C, x, y, D) /\ Shows(e, C, l, z, D)
      BY <2>1, <2>5, AtIsBar
    <3> HIDE DEF e
    <3>2. d \in Bars /\ d.lines = b.lines
      BY <2>5, <2>3, <3>1 DEF Shows
    <3>3. e \in Bars /\ e.lines = b.lines
      BY <2>1, <2>3, <3>1 DEF Shows
    <3> QED  BY <3>2, <3>3, TextTyped
  <2>7. CaretOf(d) = Len(Pre(C)) + Len(x) /\ Len(x) \in Nat /\ Len(Pre(C)) \in Nat
    BY <2>1, <2>5, LineOf
  <2>8. StartOf(e) = Len(Pre(C)) /\ CaretOf(e) = Len(Pre(C)) + Len(l) /\ Len(l) \in Nat
    BY <2>1, LineOf
  <2>9. Len(x) <= Len(l)
    <3>1. x \in Texts /\ y \in Texts
      BY Glue
    <3>2. Len(l) = Len(x) + Len(y) /\ Len(y) \in Nat
      BY <2>5, <3>1, Glue
    <3> QED  BY <2>7, <3>2
  <2>10. StartOf(b) = Len(Pre(C)) + Len(l) + 1
    <3>1. Pre(A) = Pre(C) \o l \o <<Newline>>
      BY <1>4, PreMore
    <3>2. Pre(C) \in Texts /\ l \in Texts /\ Pre(C) \o l \in Texts
      BY PartsTyped
    <3>3. Len(Pre(A)) = Len(Pre(C) \o l) + 1 /\ Len(Pre(C) \o l) = Len(Pre(C)) + Len(l)
      BY <3>1, <3>2, Glue
    <3> QED  BY <1>2, <3>3
  <2> HIDE DEF e
  <2>11. StartOf(b) # 0 /\ StartOf(b) - 1 = CaretOf(e)
    BY <2>7, <2>8, <2>10
  <2>12. LineStartOf(Text(b), StartOf(b) - 1) = Len(Pre(C))
    BY <2>6, <2>8, <2>11 DEF StartOf
  <2>13. CaretOf(d) \in LineStartOf(Text(b), StartOf(b) - 1)..StartOf(b) - 1
    BY <2>7, <2>8, <2>9, <2>11, <2>12
  <2>14. Goes(b, d, CaretOf(d))
    BY <2>6 DEF Goes
  <2> QED  BY <2>11, <2>13, <2>14 DEF Climbs, d
<1> QED  BY <1>3, <1>4, EndsOf, ZenonT(60)

LEMMA DownGoes ==
  ASSUME NEW b \in Bars
  PROVE  Falls(b, ToRow(b, b.row + 1))
<1>1. PICK A \in Rows, u \in Row, v \in Row, B \in Rows : b = At(A, u, v, B)
  BY BarIsAt
<1>2. b.row = Len(A) + 1 /\ Len(A) \in Nat /\ b.lines = A \o <<u \o v>> \o B
  <2>1. Shows(b, A, u, v, B)
    BY <1>1, AtIsBar
  <2> QED  BY <2>1 DEF Shows
<1>3. /\ EndOf(b) = Len(Pre(A)) + Len(u) + Len(v) /\ Len(Post(B)) \in Nat
      /\ Len(Text(b)) = Len(Pre(A)) + Len(u) + Len(v) + Len(Post(B))
      /\ Len(Pre(A)) \in Nat /\ Len(u) \in Nat /\ Len(v) \in Nat
  BY <1>1, LineOf
<1>4. CASE B = <<>>
  <2>1. Len(Post(B)) = 0 /\ Len(B) = 0
    BY <1>4, Nothing, Glue DEF Post
  <2>2. EndOf(b) = Len(Text(b)) /\ b.row + 1 = Len(A) + 2 + Len(B)
    BY <1>2, <1>3, <2>1
  <2>3. ToRow(b, b.row + 1) = b
    BY <1>1, <2>2, NoRow
  <2> QED  BY <2>2, <2>3, StaysWrites DEF Falls
<1>5. ASSUME NEW C \in Rows, NEW l \in Row, B = <<l>> \o C
      PROVE  Falls(b, ToRow(b, b.row + 1))
  <2>0. PICK z \in Row : z = <<>>
    BY Nothing
  <2> DEFINE d == ToRow(b, b.row + 1)
             F == A \o <<u \o v>>
             e == At(F, z, l, C)
  <2>1. u \o v \in Row /\ F \in Rows /\ z \o l = l
    BY <2>0, One, Joint, Nothing
  <2>2. b.lines = F \o <<l>> \o C
    <3>1. <<l>> \in Rows
      BY One
    <3> QED  BY <1>2, <1>5, <2>1, <3>1, Joint, ZenonT(60)
  <2>3. InLine(d, F, l, C)
    <3>1. b.row + 1 = Len(A) + 2
      BY <1>2
    <3> QED  BY <1>1, <1>5, <3>1, DownAt
  <2>4. Len(Pre(F)) = EndOf(b) + 1
    <3>1. Pre(F) = Pre(A) \o (u \o v) \o <<Newline>>
      BY <2>1, PreMore
    <3>2. Pre(A) \in Texts /\ u \in Texts /\ v \in Texts /\ u \o v \in Texts
          /\ Pre(A) \o (u \o v) \in Texts
      BY <2>1, PartsTyped, Glue
    <3>3. Len(Pre(F)) = Len(Pre(A) \o (u \o v)) + 1 /\ Len(Pre(A) \o (u \o v)) = Len(Pre(A)) + Len(u \o v)
          /\ Len(u \o v) = Len(u) + Len(v)
      BY <3>1, <3>2, Glue
    <3> QED  BY <1>3, <3>3
  <2> HIDE DEF d, F
  <2>5. PICK x \in Row, y \in Row : l = x \o y /\ d = At(F, x, y, C)
    BY <2>3 DEF InLine
  <2>6. Text(d) = Text(b) /\ Text(e) = Text(b)
    <3>1. Shows(d, F, x, y, C) /\ Shows(e, F, z, l, C)
      BY <2>1, <2>5, AtIsBar
    <3> HIDE DEF e
    <3>2. d \in Bars /\ d.lines = b.lines
      BY <2>5, <2>2, <3>1 DEF Shows
    <3>3. e \in Bars /\ e.lines = b.lines
      BY <2>1, <2>2, <3>1 DEF Shows
    <3> QED  BY <3>2, <3>3, TextTyped
  <2>7. CaretOf(d) = Len(Pre(F)) + Len(x) /\ Len(x) \in Nat /\ Len(Pre(F)) \in Nat
    BY <2>1, <2>5, LineOf
  <2>8. EndOf(e) = Len(Pre(F)) + Len(l) /\ CaretOf(e) = Len(Pre(F)) /\ Len(l) \in Nat
    <3>1. /\ EndOf(e) = Len(Pre(F) \o z) + Len(l) /\ CaretOf(e) = Len(Pre(F)) + Len(z)
          /\ Len(l) \in Nat /\ Len(Pre(F) \o z) = Len(Pre(F)) + Len(z)
      BY <2>1, LineOf
    <3>2. Len(z) = 0
      BY <2>0, Nothing
    <3> QED  BY <2>7, <3>1, <3>2
  <2>9. Len(x) <= Len(l)
    <3>1. x \in Texts /\ y \in Texts
      BY Glue
    <3>2. Len(l) = Len(x) + Len(y) /\ Len(y) \in Nat
      BY <2>5, <3>1, Glue
    <3> QED  BY <2>7, <3>2
  <2>10. Len(Post(B)) # 0
    <3>1. Post(B) = <<Newline>> \o (l \o Post(C)) /\ l \o Post(C) \in Texts
      BY <1>5, PostMore, PartsTyped
    <3>2. Len(Post(B)) = 1 + Len(l \o Post(C)) /\ Len(l \o Post(C)) \in Nat
      BY <3>1, Glue
    <3> QED  BY <3>2
  <2> HIDE DEF e
  <2>11. EndOf(b) # Len(Text(b)) /\ EndOf(b) + 1 = CaretOf(e)
    BY <1>3, <2>4, <2>8, <2>10
  <2>12. LineEndOf(Text(b), EndOf(b) + 1) = Len(Pre(F)) + Len(l)
    BY <2>6, <2>8, <2>11 DEF EndOf
  <2>13. CaretOf(d) \in EndOf(b) + 1..LineEndOf(Text(b), EndOf(b) + 1)
    BY <2>4, <2>7, <2>8, <2>9, <2>12
  <2>14. Goes(b, d, CaretOf(d))
    BY <2>6 DEF Goes
  <2> QED  BY <2>11, <2>13, <2>14 DEF Falls, d
<1> QED  BY <1>4, <1>5, EndsOf, ZenonT(60)

\* Where the word before the caret begins, as TextBuffer says it.
WordFrom(t, from, c) ==
  LET solid == {k \in from + 1..c : t[k] # " "}
      word == IF solid = {} THEN 0 ELSE Max(solid)
  IN Max({from} \cup {k \in from + 1..word : t[k] = " "})
WordStartOf(b) ==
  IF CaretOf(b) = StartOf(b) THEN BeforeOf(b) ELSE WordFrom(Text(b), StartOf(b), CaretOf(b))

\* The last blank with another character behind it.
BlankIn(u, i, j) == i \in 1..Len(u) /\ j \in 1..Len(u) /\ u[i] = " " /\ u[j] # " " /\ i < j
IsKept(u, m) ==
  /\ m # 0 => \E j : BlankIn(u, m, j)
  /\ \A i, j : BlankIn(u, i, j) => i <= m

LEMMA KeptIs ==
  ASSUME NEW u \in Row
  PROVE  Kept(u) \in 0..Len(u) /\ Len(u) \in Nat /\ IsKept(u, Kept(u))
<1> DEFINE blanks == {k \in DOMAIN u : u[k] = " " /\ \E j \in DOMAIN u : u[j] # " " /\ k < j}
<1>1. Len(u) \in Nat /\ DOMAIN u = 1..Len(u)
  BY LenProperties DEF Row
<1>2. Kept(u) = IF blanks = {} THEN 0 ELSE Max(blanks)
  BY DEF Kept
<1>3. \A i, j : BlankIn(u, i, j) => i \in blanks
  BY <1>1 DEF BlankIn
<1>4. \A i \in blanks : \E j : BlankIn(u, i, j)
  BY <1>1 DEF BlankIn
<1>5. \A i \in blanks : i \in 1..Len(u)
  BY <1>1
<1> HIDE DEF blanks
<1>6. CASE blanks = {}
  <2>1. Kept(u) = 0
    BY <1>2, <1>6
  <2>2. IsKept(u, 0)
    BY <1>3, <1>6 DEF IsKept
  <2> QED  BY <1>1, <2>1, <2>2
<1>7. CASE blanks # {}
  <2> DEFINE m == Kept(u)
  <2>1. blanks \in SUBSET (0..Len(u))
    BY <1>1, <1>5
  <2>2. Max(blanks) \in blanks /\ \A y \in blanks : y <= Max(blanks)
    BY <1>1, <1>7, <2>1, Greatest
  <2>3. m \in blanks /\ \A y \in blanks : y <= m
    BY <1>2, <1>7, <2>2
  <2>4. m \in 0..Len(u)
    BY <2>1, <2>3
  <2> HIDE DEF m
  <2>5. IsKept(u, m)
    BY <1>3, <1>4, <2>3 DEF IsKept
  <2> QED  BY <1>1, <2>4, <2>5 DEF m
<1> QED  BY <1>6, <1>7

\* A word stands in the text behind some place.
StandsAt(u, t, from) == \A k \in from + 1..from + Len(u) : t[k] = u[k - from]

LEMMA WordAt ==
  ASSUME NEW u \in Row, NEW from \in Nat, NEW t, StandsAt(u, t, from)
  PROVE  WordFrom(t, from, from + Len(u)) = from + Kept(u)
<1> DEFINE n == Len(u)
           kept == Kept(u)
           c == from + n
           solid == {k \in from + 1..c : t[k] # " "}
           word == IF solid = {} THEN 0 ELSE Max(solid)
           M == {from} \cup {k \in from + 1..word : t[k] = " "}
           m == from + kept
<1>1. kept \in 0..n /\ n \in Nat /\ IsKept(u, kept)
  BY KeptIs
<1>2. \A k \in from + 1..c : t[k] = u[k - from]
  BY DEF StandsAt
<1>3. WordFrom(t, from, from + Len(u)) = Max(M)
  BY DEF WordFrom
<1>4. \A i, j : i \in 1..n /\ j \in 1..n /\ u[i] = " " /\ u[j] # " " /\ i < j => BlankIn(u, i, j)
  BY DEF BlankIn
<1>5. \A i, j : BlankIn(u, i, j) => i \in 1..n /\ j \in 1..n /\ u[i] = " " /\ u[j] # " " /\ i < j
  BY DEF BlankIn
<1> HIDE DEF n, kept
<1>6. c \in Nat /\ m \in Nat /\ kept \in Nat
  BY <1>1
<1>7. \A k \in solid : k \in from + 1..c
  OBVIOUS
<1>s. \A k \in solid : t[k] # " "
  OBVIOUS
<1>8. \A k \in from + 1..c : t[k] # " " => k \in solid
  OBVIOUS
<1>9. word = IF solid = {} THEN 0 ELSE Max(solid)
  OBVIOUS
<1> HIDE DEF solid, word
<1>10. solid \in SUBSET (0..c)
  BY <1>6, <1>7
<1>11. solid # {} => word \in solid /\ \A k \in solid : k <= word
  BY <1>6, <1>9, <1>10, Greatest
<1>12. word \in Nat /\ word <= c /\ (word # 0 => word \in solid)
  <2>1. CASE solid = {}
    BY <1>6, <1>9, <2>1
  <2>2. CASE solid # {}
    <3>1. word \in solid
      BY <1>11, <2>2
    <3>2. word \in 0..c
      BY <1>10, <3>1
    <3> QED  BY <1>6, <3>1, <3>2
  <2> QED  BY <2>1, <2>2
<1>13. \A k \in M : k \in Nat /\ k <= m
  <2>1. from <= m
    BY <1>6
  <2>2. ASSUME NEW k \in from + 1..word, t[k] = " " PROVE k \in Nat /\ k <= m
    <3>1. word # 0
      BY <1>12
    <3>2. word \in solid
      BY <1>12, <3>1
    <3>3. word \in from + 1..c
      BY <1>7, <3>2
    <3>t. t[word] # " "
      BY <1>s, <3>2
    <3>4. k \in from + 1..c
      BY <1>6, <3>3
    <3>5. u[word - from] # " " /\ u[k - from] = " "
      BY <1>2, <2>2, <3>3, <3>4, <3>t
    <3>6. k # word
      BY <2>2, <3>t
    <3>7. k - from \in 1..n /\ word - from \in 1..n /\ k - from < word - from
      BY <1>1, <3>3, <3>4, <3>6
    <3>8. BlankIn(u, k - from, word - from)
      BY <1>4, <3>5, <3>7
    <3>9. k - from <= kept
      BY <1>1, <3>8 DEF IsKept
    <3> QED  BY <1>6, <3>4, <3>9
  <2> QED  BY <2>1, <2>2
<1>14. m \in M
  <2>1. CASE kept = 0
    BY <2>1
  <2>2. CASE kept # 0
    <3>1. PICK j : BlankIn(u, kept, j)
      BY <1>1, <2>2 DEF IsKept
    <3>2. j \in 1..n /\ kept < j
      BY <1>5, <3>1
    <3>t. u[j] # " " /\ u[kept] = " "
      BY <1>5, <3>1
    <3> DEFINE q == from + j
    <3>3. q \in from + 1..c /\ q - from = j
      BY <1>1, <3>2
    <3>4. m \in from + 1..c /\ m - from = kept /\ m < q
      BY <1>1, <2>2, <3>2
    <3> HIDE DEF q, m
    <3>5. q \in solid
      BY <1>2, <1>8, <3>3, <3>t
    <3>6. q <= word
      BY <1>11, <3>5
    <3>7. m \in from + 1..word
      BY <1>12, <3>3, <3>4, <3>6
    <3>8. t[m] = " "
      BY <1>2, <3>4, <3>t
    <3> QED  BY <3>7, <3>8
  <2> QED  BY <2>1, <2>2
<1> HIDE DEF M, m
<1>15. M \in SUBSET (0..m) /\ M # {}
  BY <1>6, <1>13, <1>14
<1>16. Max(M) \in M /\ m <= Max(M)
  BY <1>6, <1>14, <1>15, Greatest
<1>17. Max(M) = m
  <2> DEFINE top == Max(M)
  <2>1. top \in 0..m /\ m <= top
    BY <1>15, <1>16
  <2> HIDE DEF top
  <2>2. top = m
    BY <1>6, <2>1
  <2> QED  BY <2>2 DEF top
<1> QED  BY <1>3, <1>17 DEF m, kept

LEMMA StandsInParts ==
  ASSUME NEW t, NEW X, NEW u, NEW Z, InParts(t, X, u, Z)
  PROVE  StandsAt(u, t, Len(X))
<1>1. Len(X) \in Nat /\ Len(u) \in Nat /\ Len(Z) \in Nat
  BY DEF InParts
<1> SUFFICES ASSUME NEW k \in Len(X) + 1..Len(X) + Len(u) PROVE t[k] = u[k - Len(X)]
  BY DEF StandsAt
<1>2. k \in 1..Len(X) + Len(u) + Len(Z) /\ ~(k <= Len(X)) /\ k <= Len(X) + Len(u)
  BY <1>1
<1> QED  BY <1>2 DEF InParts

LEMMA KillWordWrites ==
  ASSUME NEW b \in Bars
  PROVE  Writes(b, delete_word_backward(b), WordStartOf(b), CaretOf(b), <<>>)
<1>1. PICK A \in Rows, u \in Row, v \in Row, B \in Rows : b = At(A, u, v, B)
  BY BarIsAt
<1>2. /\ StartOf(b) = Len(Pre(A)) /\ CaretOf(b) = Len(Pre(A)) + Len(u)
      /\ Len(Pre(A)) \in Nat /\ Len(u) \in Nat
  BY <1>1, LineOf
<1>3. CASE u = <<>>
  <2>1. b.col = 0
    <3>1. Shows(b, A, u, v, B)
      BY <1>1, AtIsBar
    <3> QED  BY <1>3, <3>1, Nothing DEF Shows
  <2>2. delete_word_backward(b) = backspace(b)
    BY <2>1 DEF delete_word_backward
  <2>3. WordStartOf(b) = BeforeOf(b)
    BY <1>2, <1>3, Nothing DEF WordStartOf
  <2> QED  BY <2>2, <2>3, BackWrites
<1>4. CASE u # <<>>
  <2> DEFINE m == Kept(u)
             x == SubSeq(u, 1, m)
             y == SubSeq(u, m + 1, Len(u))
             d == delete_word_backward(b)
  <2>1. m \in 0..Len(u) /\ d = At(A, x, v, B)
    BY <1>1, <1>4, KillWord
  <2>2. x \in Row /\ y \in Row /\ u = x \o y /\ Len(x) = m
    <3>1. u \in Seq(Chars)
      BY DEF Row
    <3> QED  BY <2>1, <3>1, Halves, ZenonT(60) DEF Row
  <2> HIDE DEF x, y, d
  <2>3. Reads(b, Pre(A) \o x \o y, v \o Post(B))
    BY <1>1, <2>2, ReadsBack
  <2>4. Reads(d, Pre(A) \o x, v \o Post(B))
    BY <2>1, <2>2, ReadsAt
  <2>5. /\ Pre(A) \in Texts /\ x \in Texts /\ y \in Texts /\ v \o Post(B) \in Texts
        /\ Pre(A) \o x \in Texts /\ <<>> \in Texts /\ u \in Texts
    BY <2>2, PartsTyped, Glue
  <2>6. Pre(A) \o x \o <<>> = Pre(A) \o x
    BY <2>5, Glue
  <2>l. Len(Pre(A) \o x) = Len(Pre(A)) + m
    <3>1. Len(Pre(A) \o x) = Len(Pre(A)) + Len(x)
      BY <2>5, Glue
    <3> QED  BY <2>2, <3>1
  <2>7. Reads(d, Pre(A) \o x \o <<>>, v \o Post(B))
    BY <2>4, <2>6
  <2>8. Writes(b, d, Len(Pre(A) \o x), CaretOf(b), <<>>)
    BY <2>3, <2>5, <2>7, ReplacesBack
  <2>9. StandsAt(u, Text(b), Len(Pre(A)))
    <3> DEFINE X == Pre(A)
               Z == v \o Post(B)
    <3>1. Reads(b, X \o u, Z) /\ X \in Texts /\ Z \in Texts
      BY <1>1, <2>5, ReadsAt
    <3> HIDE DEF X, Z
    <3>2. InParts(X \o u \o Z, X, u, Z)
      BY <2>5, <3>1, Parts
    <3>3. StandsAt(u, X \o u \o Z, Len(X))
      BY <3>2, StandsInParts
    <3>4. Text(b) = X \o u \o Z
      BY <3>1 DEF Reads
    <3> QED  BY <3>3, <3>4 DEF X
  <2>10. WordFrom(Text(b), Len(Pre(A)), Len(Pre(A)) + Len(u)) = Len(Pre(A)) + m
    BY <1>2, <2>9, WordAt
  <2>11. Len(u) # 0
    BY <1>4, EmptySeq DEF Row
  <2>12. CaretOf(b) # StartOf(b)
    BY <1>2, <2>11
  <2>13. WordStartOf(b) = Len(Pre(A) \o x)
    BY <1>2, <2>l, <2>10, <2>12 DEF WordStartOf
  <2> QED  BY <2>8, <2>13 DEF d
<1> QED  BY <1>3, <1>4

\* A word is put in the place of the one at the caret, from a trigger on.
Completes(b, d, w, c) ==
  \E from \in (StartOf(b)..CaretOf(b)) \ {CaretOf(b)} :
    /\ Text(b)[from + 1] = c
    /\ \A i \in from + 1..CaretOf(b) : Text(b)[i] # " "
    /\ Writes(b, d, from, CaretOf(b), w)

LEMMA FilledWrites ==
  ASSUME NEW b \in Bars, NEW k \in Scans(b), NEW w \in Row,
         NEW p, p = Size(SubSeq(Line(b), 1, k - 1))
  PROVE  Completes(b, Filled(b, p, w), w, Line(b)[k])
<1>1. PICK A \in Rows, u \in Row, v \in Row, B \in Rows : b = At(A, u, v, B)
  BY BarIsAt
<1>2. Line(b) = u \o v /\ Upto(Line(b), b.col) = u
  <2>1. Shows(b, A, u, v, B)
    BY <1>1, AtIsBar
  <2> QED  BY <2>1, CutLine DEF Shows
<1>3. Len(u) \in Nat /\ DOMAIN u = 1..Len(u) /\ u \in Seq(Chars)
  BY LenProperties DEF Row
<1>4. k \in 1..Len(u)
  BY <1>2, <1>3 DEF Scans
<1>5. \A j \in k..Len(u) : u[j] # " "
  BY <1>2 DEF Scans
<1>6. PICK x \in Row, y \in Row : u = x \o y /\ Len(x) = k - 1
  <2>1. k - 1 \in 0..Len(u)
    BY <1>3, <1>4
  <2>2. /\ SubSeq(u, 1, k - 1) \in Seq(Chars) /\ Len(SubSeq(u, 1, k - 1)) = k - 1
        /\ SubSeq(u, (k - 1) + 1, Len(u)) \in Seq(Chars)
        /\ u = SubSeq(u, 1, k - 1) \o SubSeq(u, (k - 1) + 1, Len(u))
    BY <1>3, <2>1, Halves, ZenonT(60)
  <2> QED  BY <2>2 DEF Row
<1>7. u \o v = x \o (y \o v) /\ y \o v \in Row
  BY <1>6, Joint, SMTT(40)
<1>8. SubSeq(Line(b), 1, k - 1) = x /\ Upto(u \o v, Size(x)) = x
  <2>1. SubSeq(x \o (y \o v), 1, Len(x)) = x
    BY <1>7, Cut DEF Row
  <2>2. Upto(x \o (y \o v), Size(x)) = x
    BY <1>7, CutLine
  <2> QED  BY <1>2, <1>6, <1>7, <2>1, <2>2
<1>9. Filled(b, p, w) = At(A, x \o w, v, B)
  <2>1. Filled(At(A, u, v, B), Size(x), w) = At(A, x \o w, v, B)
    BY <1>8, Completed
  <2> QED  BY <1>1, <1>8, <2>1
<1>10. Line(b)[k] = u[k]
  BY <1>2, <1>3, <1>4, ConcatProperties DEF Row
<1> DEFINE X == Pre(A)
           Z == v \o Post(B)
           from == Len(X \o x)
           d == Filled(b, p, w)
<1>11. /\ X \in Texts /\ x \in Texts /\ y \in Texts /\ w \in Texts /\ Z \in Texts
       /\ u \in Texts /\ X \o x \in Texts /\ X \o u \in Texts
  BY PartsTyped, Glue
<1>12. Reads(b, X \o x \o y, Z) /\ Reads(d, X \o x \o w, Z) /\ Reads(b, X \o u, Z)
  BY <1>1, <1>6, <1>9, ReadsBack, ReadsAt
<1>13. StartOf(b) = Len(X) /\ CaretOf(b) = Len(X) + Len(u) /\ Len(X) \in Nat
  BY <1>1, LineOf
<1> HIDE DEF X, Z, d
<1>14. Len(X \o x) = Len(X) + Len(x)
  BY <1>11, Glue
<1>15. from = Len(X) + (k - 1)
  BY <1>6, <1>14
<1>16. Writes(b, d, Len(X \o x), CaretOf(b), w)
  BY <1>11, <1>12, ReplacesBack
<1>17. StandsAt(u, Text(b), Len(X))
  <2>1. InParts(X \o u \o Z, X, u, Z)
    BY <1>11, Parts
  <2>2. StandsAt(u, X \o u \o Z, Len(X))
    BY <2>1, StandsInParts
  <2>3. Text(b) = X \o u \o Z
    BY <1>12 DEF Reads
  <2> QED  BY <2>2, <2>3
<1> HIDE DEF from
<1>18. from \in (StartOf(b)..CaretOf(b)) \ {CaretOf(b)}
  BY <1>3, <1>4, <1>13, <1>15
<1>19. Text(b)[from + 1] = u[k]
  <2>1. from + 1 \in Len(X) + 1..Len(X) + Len(u) /\ (from + 1) - Len(X) = k
    BY <1>3, <1>4, <1>13, <1>15
  <2> HIDE DEF from
  <2>2. Text(b)[from + 1] = u[(from + 1) - Len(X)]
    BY <1>17, <2>1 DEF StandsAt
  <2> QED  BY <2>1, <2>2
<1>20. \A i \in from + 1..CaretOf(b) : Text(b)[i] # " "
  <2> SUFFICES ASSUME NEW i \in from + 1..CaretOf(b) PROVE Text(b)[i] # " "
    OBVIOUS
  <2>1. i \in Len(X) + 1..Len(X) + Len(u) /\ i - Len(X) \in k..Len(u)
    BY <1>3, <1>4, <1>13, <1>15
  <2>2. Text(b)[i] = u[i - Len(X)]
    BY <1>17, <2>1 DEF StandsAt
  <2> QED  BY <1>5, <2>1, <2>2
<1>21. Writes(b, d, from, CaretOf(b), w)
  BY <1>16 DEF from
<1> QED  BY <1>10, <1>18, <1>19, <1>20, <1>21 DEF Completes, d

\* A text is put at the caret, one character after another.
LEMMA InsertReads ==
  ASSUME NEW b \in Bars, NEW s \in Texts, NEW X, NEW Z, Reads(b, X, Z)
  PROVE  Reads(insert_str(b, s), X \o s, Z)
<1>1. s \in Seq(Letters) /\ X \in Texts /\ Len(s) \in Nat
  BY LenProperties DEF Texts, Reads
<1>2. PICK g \in [0..Len(s) -> Bars] :
        /\ g[0] = b /\ insert_str(b, s) = g[Len(s)]
        /\ \A k \in 1..Len(s) : g[k] = Put(g[k - 1], s[k])
  BY <1>1, InsertStr
<1> DEFINE n == Len(s)
           P == {k \in 0..n : Reads(g[k], X \o SubSeq(s, 1, k), Z)}
<1>3. 0 \in P
  <2>1. SubSeq(s, 1, 0) = <<>>
    BY SubSeqEmpty
  <2>2. X \o SubSeq(s, 1, 0) = X
    BY <1>1, <2>1, Glue
  <2>3. Reads(g[0], X \o SubSeq(s, 1, 0), Z)
    BY <1>2, <2>2
  <2> QED  BY <1>1, <2>3
<1>4. ASSUME NEW k \in 1..n, k - 1 \in P PROVE k \in P
  <2> DEFINE q == SubSeq(s, 1, k - 1)
             c == s[k]
             e == g[k - 1]
  <2>1. k - 1 \in 0..n /\ k \in 0..n /\ 1 \in 1..n
    BY <1>1
  <2>2. c \in Letters /\ e \in Bars /\ q \in Texts
    <3>1. c \in Letters
      BY <1>1, ElementOfSeq
    <3>2. SubSeq(s, 1, k - 1) \in Seq(Letters)
      BY <1>1, <2>1, Halves
    <3> QED  BY <2>1, <3>1, <3>2 DEF Texts
  <2>3. SubSeq(s, 1, k) = q \o <<c>>
    BY <1>1, <2>1, SubSeqRecursiveSecond
  <2>4. g[k] = Put(e, c) /\ Reads(e, X \o q, Z)
    BY <1>2, <1>4
  <2> HIDE DEF q, c, e
  <2>5. Reads(Put(e, c), X \o q \o <<c>>, Z)
    BY <2>2, <2>4, PutReads DEF Puts
  <2>6. <<c>> \in Texts
    BY <2>2 DEF Texts
  <2>7. X \o q \o <<c>> = X \o (q \o <<c>>)
    BY <1>1, <2>2, <2>6, Glue
  <2>8. Reads(g[k], X \o SubSeq(s, 1, k), Z)
    BY <2>3, <2>4, <2>5, <2>7
  <2> QED  BY <2>1, <2>8
<1>5. n \in P
  <2>1. \A k \in 1..n : k - 1 \in P => k \in P
    BY <1>4
  <2> HIDE DEF P, n
  <2>2. n \in Nat
    BY <1>1 DEF n
  <2>3. \A k \in 0..n : k \in P
    BY <1>3, <2>1, <2>2, Climb
  <2> QED  BY <2>2, <2>3
<1>6. SubSeq(s, 1, n) = s
  BY <1>1, SubSeqFull
<1> QED  BY <1>2, <1>5, <1>6

LEMMA EmptyReads ==
  Reads(Empty, <<>>, <<>>)
<1>1. PICK e \in Row : e = <<>>
  BY Nothing
<1>2. PICK E \in Rows : E = <<>>
  BY Nothing
<1>3. At(E, e, e, E) = Empty
  BY <1>1, <1>2, EmptyAt
<1>4. Reads(At(E, e, e, E), Pre(E) \o e, e \o Post(E))
  BY ReadsAt
<1>5. Pre(E) = <<>> /\ Post(E) = <<>>
  BY <1>2 DEF Pre, Post
<1>6. Pre(E) \o e = <<>> /\ e \o Post(E) = <<>>
  BY <1>1, <1>5, Glue
<1> QED  BY <1>3, <1>4, <1>6

-----------------------------------------------------------------------------
(* Every key does to the bar what TextBuffer says of the text *)

LEMMA Primed ==
  /\ Text(bar)' = Text(bar') /\ Caret = CaretOf(bar) /\ Caret' = CaretOf(bar')
<1>1. Text(bar)' = Text(bar')
  OBVIOUS
<1>2. Caret = CaretOf(bar)
  BY DEF Caret, CaretOf
<1>3. Caret' = CaretOf(bar')
  BY DEF Caret, CaretOf
<1> QED  BY <1>1, <1>2, <1>3

LEMMA IsReplace ==
  ASSUME NEW from, NEW upto, NEW s, Writes(bar, bar', from, upto, s)
  PROVE  Buffer!Replace(from, upto, s)
<1>1. Text(bar)' = Text(bar') /\ Caret' = CaretOf(bar')
  BY Primed
<1>2. Text(bar') = SubSeq(Text(bar), 1, from) \o s \o SubSeq(Text(bar), upto + 1, Len(Text(bar)))
  BY DEF Writes, Replaced
<1>3. CaretOf(bar') = from + Len(s)
  BY DEF Writes
<1> QED  BY <1>1, <1>2, <1>3 DEF Buffer!Replace

LEMMA IsMove ==
  ASSUME NEW place, Goes(bar, bar', place)
  PROVE  Buffer!MoveTo(place)
<1>1. Text(bar)' = Text(bar') /\ Caret' = CaretOf(bar')
  BY Primed
<1> QED  BY <1>1 DEF Buffer!MoveTo, Goes

LEMMA Places ==
  /\ \A p : Buffer!LineStart(p) = LineStartOf(Text(bar), p)
  /\ \A p : Buffer!LineEnd(p) = LineEndOf(Text(bar), p)
  /\ Buffer!Before = BeforeOf(bar) /\ Buffer!After = AfterOf(bar)
  /\ Buffer!WordStart = WordStartOf(bar)
  /\ Caret = CaretOf(bar)
<1>1. \A p : Buffer!LineStart(p) = LineStartOf(Text(bar), p)
  BY DEF Buffer!LineStart, LineStartOf, Buffer!Max, Max
<1>2. \A p : Buffer!LineEnd(p) = LineEndOf(Text(bar), p)
  BY DEF Buffer!LineEnd, LineEndOf, Buffer!Min, Min
<1>3. Caret = CaretOf(bar)
  BY Primed
<1>4. Buffer!Before = BeforeOf(bar) /\ Buffer!After = AfterOf(bar)
  BY <1>3 DEF Buffer!Before, BeforeOf, Buffer!After, AfterOf
<1>5. Buffer!LineStart(Caret) = StartOf(bar)
  BY <1>1, <1>3 DEF StartOf
<1>6. Buffer!WordStart = WordStartOf(bar)
  <2>1. Buffer!WordStart = IF Caret = Buffer!LineStart(Caret) THEN Buffer!Before
                           ELSE WordFrom(Text(bar), Buffer!LineStart(Caret), Caret)
    BY DEF Buffer!WordStart, WordFrom, Buffer!Max, Max
  <2> QED  BY <1>3, <1>4, <1>5, <2>1 DEF WordStartOf
<1> QED  BY <1>1, <1>2, <1>3, <1>4, <1>6

LEMMA EditMaps ==
  ASSUME bar \in Bars, NEW k \in EditKeys, bar' = handle_key(bar, k)
  PROVE  Buffer!Edit(k)
<1>1. /\ Buffer!Before = BeforeOf(bar) /\ Buffer!After = AfterOf(bar)
      /\ Buffer!WordStart = WordStartOf(bar) /\ Caret = CaretOf(bar)
      /\ Buffer!LineStart(Caret) = StartOf(bar) /\ Buffer!LineEnd(Caret) = EndOf(bar)
  BY Places DEF StartOf, EndOf
<1>2. CASE k \in Chars
  <2>1. k \in Letters /\ k # Newline
    BY <1>2 DEF Letters, Chars, Newline
  <2>2. bar' = Put(bar, k)
    BY <1>2, <2>1, KeyIs DEF Put
  <2>3. Buffer!Replace(Caret, Caret, <<k>>)
    BY <1>1, <2>1, <2>2, PutWrites, IsReplace
  <2> QED  BY <1>2, <2>3 DEF Buffer!Edit
<1>3. CASE k = "newline"
  <2>1. Newline \in Letters /\ bar' = Put(bar, Newline)
    BY <1>3, KeyIs DEF Put, Letters
  <2>2. Buffer!Replace(Caret, Caret, <<Newline>>)
    BY <1>1, <2>1, PutWrites, IsReplace
  <2> QED  BY <1>3, <2>2 DEF Buffer!Edit
<1>4. CASE k = "backspace"
  <2>1. bar' = backspace(bar)
    BY <1>4, KeyIs
  <2>2. Buffer!Replace(Buffer!Before, Caret, <<>>)
    BY <1>1, <2>1, BackWrites, IsReplace
  <2> QED  BY <1>4, <2>2 DEF Buffer!Edit
<1>5. CASE k = "delete"
  <2>1. bar' = delete_forward(bar)
    BY <1>5, KeyIs
  <2>2. Buffer!Replace(Caret, Buffer!After, <<>>)
    BY <1>1, <2>1, AheadWrites, IsReplace
  <2> QED  BY <1>5, <2>2 DEF Buffer!Edit
<1>6. CASE k = "kill_start"
  <2>1. bar' = Erase(bar, 0, bar.col)
    BY <1>6, KeyIs
  <2>2. Buffer!Replace(Buffer!LineStart(Caret), Caret, <<>>)
    BY <1>1, <2>1, LineWrites, IsReplace
  <2> QED  BY <1>6, <2>2 DEF Buffer!Edit
<1>7. CASE k = "kill_end"
  <2>1. bar' = Erase(bar, bar.col, Size(Line(bar)))
    BY <1>7, KeyIs
  <2>2. Buffer!Replace(Caret, Buffer!LineEnd(Caret), <<>>)
    BY <1>1, <2>1, LineWrites, IsReplace
  <2> QED  BY <1>7, <2>2 DEF Buffer!Edit
<1>8. CASE k = "kill_word"
  <2>1. bar' = delete_word_backward(bar)
    BY <1>8, KeyIs
  <2>2. Buffer!Replace(Buffer!WordStart, Caret, <<>>)
    BY <1>1, <2>1, KillWordWrites, IsReplace
  <2> QED  BY <1>8, <2>2 DEF Buffer!Edit
<1> QED  BY <1>2, <1>3, <1>4, <1>5, <1>6, <1>7, <1>8 DEF EditKeys

LEMMA MoveMaps ==
  ASSUME bar \in Bars, NEW k \in MoveKeys, bar' = handle_key(bar, k)
  PROVE  Buffer!Move(k)
<1>1. /\ Buffer!Before = BeforeOf(bar) /\ Buffer!After = AfterOf(bar) /\ Caret = CaretOf(bar)
      /\ Buffer!LineStart(Caret) = StartOf(bar) /\ Buffer!LineEnd(Caret) = EndOf(bar)
  BY Places DEF StartOf, EndOf
<1>2. CASE k = "left"
  <2>1. bar' = cursor_left(bar)
    BY <1>2, KeyIs
  <2>2. Buffer!MoveTo(Buffer!Before)
    BY <1>1, <2>1, BackWrites, IsMove
  <2> QED  BY <1>2, <2>2 DEF Buffer!Move
<1>3. CASE k = "right"
  <2>1. bar' = cursor_right(bar)
    BY <1>3, KeyIs
  <2>2. Buffer!MoveTo(Buffer!After)
    BY <1>1, <2>1, AheadWrites, IsMove
  <2> QED  BY <1>3, <2>2 DEF Buffer!Move
<1>4. CASE k = "home"
  <2>1. bar' = Moved(bar, 0)
    BY <1>4, KeyIs
  <2>2. Buffer!MoveTo(Buffer!LineStart(Caret))
    BY <1>1, <2>1, LineWrites, IsMove
  <2> QED  BY <1>4, <2>2 DEF Buffer!Move
<1>5. CASE k = "end"
  <2>1. bar' = Moved(bar, Size(Line(bar)))
    BY <1>5, KeyIs
  <2>2. Buffer!MoveTo(Buffer!LineEnd(Caret))
    BY <1>1, <2>1, LineWrites, IsMove
  <2> QED  BY <1>5, <2>2 DEF Buffer!Move
<1>6. CASE k = "up"
  <2>1. Climbs(bar, bar')
    BY <1>6, KeyIs, UpGoes
  <2>2. CASE StartOf(bar) = 0
    <3>1. Buffer!MoveTo(Caret)
      BY <1>1, <2>1, <2>2, IsMove DEF Climbs
    <3> QED  BY <1>1, <1>6, <2>2, <3>1 DEF Buffer!Move
  <2>3. CASE StartOf(bar) # 0
    <3>1. PICK p \in LineStartOf(Text(bar), StartOf(bar) - 1)..StartOf(bar) - 1 : Goes(bar, bar', p)
      BY <2>1, <2>3 DEF Climbs
    <3>2. Buffer!MoveTo(p)
      BY <3>1, IsMove
    <3>3. p \in Buffer!LineStart(Buffer!LineStart(Caret) - 1)..Buffer!LineStart(Caret) - 1
      <4>1. Buffer!LineStart(StartOf(bar) - 1) = LineStartOf(Text(bar), StartOf(bar) - 1)
        BY Places
      <4> QED  BY <1>1, <3>1, <4>1
    <3> QED  BY <1>1, <1>6, <2>3, <3>2, <3>3 DEF Buffer!Move
  <2> QED  BY <2>2, <2>3
<1>7. CASE k = "down"
  <2>1. Falls(bar, bar')
    BY <1>7, KeyIs, DownGoes
  <2>2. CASE EndOf(bar) = Len(Text(bar))
    <3>1. Buffer!MoveTo(Caret)
      BY <1>1, <2>1, <2>2, IsMove DEF Falls
    <3> QED  BY <1>1, <1>7, <2>2, <3>1 DEF Buffer!Move
  <2>3. CASE EndOf(bar) # Len(Text(bar))
    <3>1. PICK p \in EndOf(bar) + 1..LineEndOf(Text(bar), EndOf(bar) + 1) : Goes(bar, bar', p)
      BY <2>1, <2>3 DEF Falls
    <3>2. Buffer!MoveTo(p)
      BY <3>1, IsMove
    <3>3. p \in Buffer!LineEnd(Caret) + 1..Buffer!LineEnd(Buffer!LineEnd(Caret) + 1)
      <4>1. Buffer!LineEnd(EndOf(bar) + 1) = LineEndOf(Text(bar), EndOf(bar) + 1)
        BY Places
      <4> QED  BY <1>1, <3>1, <4>1
    <3> QED  BY <1>1, <1>7, <2>3, <3>2, <3>3 DEF Buffer!Move
  <2> QED  BY <2>2, <2>3
<1> QED  BY <1>2, <1>3, <1>4, <1>5, <1>6, <1>7 DEF MoveKeys

\* trigger_complete finds its trigger (~PasteAnywhere), and completes the word there.
LEMMA CompleteMaps ==
  ASSUME IInv, ~PasteAnywhere, Open, Complete
  PROVE  Buffer!Complete
<1> DEFINE line == Line(bar)
           pos == active_trigger.pos
<1>1. bar \in Bars /\ Stands(active_trigger, bar) /\ pos \in Boundaries(line)
  BY TriggerIsThere DEF IInv
<1>2. PICK word \in Completions :
        Head(word) = active_trigger.char /\ bar' = Filled(bar, pos, word)
  BY <1>1 DEF Complete, Filled
<1>3. PICK k \in Scans(bar) : Line(bar)[k] = active_trigger.char
                              /\ Size(SubSeq(Line(bar), 1, k - 1)) = pos
  BY <1>1 DEF Stands, Open
<1> HIDE DEF line, pos
<1>4. word \in Row /\ word[1] = Line(bar)[k]
  BY <1>2, <1>3, Words DEF IsWord
<1>5. Line(bar)[k] \in Triggers
  BY <1>1, <1>3, Found
<1>6. Completes(bar, bar', word, Line(bar)[k])
  BY <1>1, <1>2, <1>3, <1>4, FilledWrites
<1>7. PICK from \in (StartOf(bar)..CaretOf(bar)) \ {CaretOf(bar)} :
        /\ Text(bar)[from + 1] = Line(bar)[k]
        /\ \A i \in from + 1..CaretOf(bar) : Text(bar)[i] # " "
        /\ Writes(bar, bar', from, CaretOf(bar), word)
  BY <1>6 DEF Completes
<1>8. Buffer!LineStart(Caret) = StartOf(bar) /\ Caret = CaretOf(bar)
  BY Places DEF StartOf
<1>9. Buffer!Replace(from, Caret, word)
  BY <1>7, <1>8, IsReplace
<1>10. Buffer!WordAt(from)
  BY <1>5, <1>7, <1>8 DEF Buffer!WordAt
<1> QED  BY <1>4, <1>7, <1>8, <1>9, <1>10 DEF Buffer!Complete

LEMMA PasteMaps ==
  ASSUME bar \in Bars, NEW s \in Pastes, bar' = insert_str(bar, s)
  PROVE  Buffer!Edit("paste")
<1>1. s \in Texts
  BY Words DEF Texts
<1>2. PICK X \in Texts, Z \in Texts : Reads(bar, X, Z)
  BY ReadsSome
<1>3. Reads(bar', X \o s, Z) /\ <<>> \in Texts /\ X \o <<>> = X
  BY <1>1, <1>2, InsertReads, Glue
<1>4. Reads(bar, X \o <<>>, Z) /\ Len(X) = CaretOf(bar)
  BY <1>2, <1>3 DEF Reads
<1>5. Writes(bar, bar', Len(X), CaretOf(bar), s)
  BY <1>1, <1>2, <1>3, <1>4, ReplacesBack
<1>6. Buffer!Replace(Caret, Caret, s)
  BY <1>4, <1>5, Places, IsReplace
<1> QED  BY <1>6 DEF Buffer!Edit

\* A message that comes back to the bar is its text again, with the caret somewhere
\* in the first line.
LEMMA BackInBar ==
  ASSUME NEW m \in Texts, NEW b, b = set_text(m), NEW c \in Nat,
         NEW d, d = [b EXCEPT !.row = 1, !.col = snap_to_char_boundary(b.lines[1], c)]
  PROVE  Text(d) = m /\ CaretOf(d) \in 0..LineEndOf(m, 0)
<1>1. b \in Bars /\ Text(b) = m
  <2>1. b = insert_str(Empty, m) /\ Empty \in Bars /\ b \in Bars
    BY InsertTyped DEF set_text, Texts
  <2>2. PICK e \in Texts : e = <<>>
    BY Glue
  <2>3. Reads(Empty, e, e)
    BY <2>2, EmptyReads
  <2>4. Reads(b, e \o m, e)
    BY <2>1, <2>2, <2>3, InsertReads
  <2>5. e \o m = m /\ m \o e = m
    BY <2>2, Glue
  <2> QED  BY <2>1, <2>4, <2>5 DEF Reads
<1> DEFINE L == b.lines
           A == SubSeq(L, 1, 0)
           l == L[1]
           B == SubSeq(L, 2, Len(L))
<1>2. /\ L \in Rows /\ Len(L) \in Nat /\ b.row \in 1..Len(L)
      /\ b \in [lines : Rows, row : Nat, col : Nat]
  BY <1>1, LenProperties DEF Bars, Rows
<1>3. A \in Rows /\ Len(A) = 0 /\ l \in Row /\ B \in Rows /\ L = A \o <<l>> \o B
  <2>1. 1 \in 1..Len(L) /\ 1 - 1 = 0 /\ 1 + 1 = 2
    BY <1>2
  <2>2. /\ l \in Row /\ SubSeq(L, 1, 1 - 1) \in Rows /\ Len(SubSeq(L, 1, 1 - 1)) = 1 - 1
        /\ SubSeq(L, 1 + 1, Len(L)) \in Rows
        /\ L = SubSeq(L, 1, 1 - 1) \o <<l>> \o SubSeq(L, 1 + 1, Len(L))
    BY <1>2, <2>1, Around DEF Rows
  <2> QED  BY <2>1, <2>2
<1>4. A = <<>> /\ Pre(A) = <<>>
  BY <1>3, EmptySeq DEF Pre, Rows
<1> HIDE DEF A, l, B
<1>5. PICK x \in Row, y \in Row : l = x \o y /\ snap_to_char_boundary(l, c) = Size(x)
  BY <1>3, SnapCuts
<1>6. d = At(A, x, y, B)
  <2> DEFINE f == [b EXCEPT !.row = 1]
             g == [f EXCEPT !.col = Size(x)]
  <2>1. d = g
    BY <1>2, <1>5 DEF l
  <2>2. f.lines = L /\ f.row = 1 /\ f \in [lines : Rows, row : Nat, col : Nat]
    BY <1>2
  <2> HIDE DEF f
  <2>3. /\ g.lines = L /\ g.row = 1 /\ g.col = Size(x)
        /\ g = [lines |-> g.lines, row |-> g.row, col |-> g.col]
    BY <2>2
  <2> HIDE DEF g
  <2>4. L = A \o <<x \o y>> \o B
    BY <1>3, <1>5
  <2>5. Len(A) + 1 = 1
    BY <1>3
  <2> HIDE DEF L
  <2> QED  BY <2>1, <2>3, <2>4, <2>5 DEF At
<1>7. PICK z \in Row : z = <<>>
  BY Nothing
<1> DEFINE e == At(A, z, l, B)
<1>8. z \o l = l
  BY <1>3, <1>7, Nothing
<1>9. Text(d) = m /\ Text(e) = m
  <2>1. Shows(d, A, x, y, B) /\ Shows(e, A, z, l, B)
    BY <1>3, <1>6, AtIsBar
  <2> HIDE DEF e
  <2>2. d \in Bars /\ e \in Bars /\ d.lines = b.lines /\ e.lines = b.lines
    BY <1>3, <1>5, <1>8, <2>1 DEF Shows
  <2> QED  BY <1>1, <2>2, TextTyped
<1>10. CaretOf(d) = Len(Pre(A)) + Len(x) /\ Len(x) \in Nat
  BY <1>3, <1>6, LineOf
<1>11. /\ CaretOf(e) = Len(Pre(A)) + Len(z) /\ EndOf(e) = Len(Pre(A) \o z) + Len(l)
  BY <1>3, LineOf
<1>12. Len(Pre(A)) = 0 /\ Len(z) = 0 /\ Len(Pre(A) \o z) = 0
  BY <1>4, <1>7, Glue
<1>13. Len(l) \in Nat /\ Len(x) <= Len(l)
  <2>1. x \in Texts /\ y \in Texts
    BY Glue
  <2>2. Len(l) = Len(x) + Len(y) /\ Len(y) \in Nat
    BY <1>5, <2>1, Glue
  <2> QED  BY <1>10, <2>2
<1> HIDE DEF e
<1>14. EndOf(e) = Len(l) /\ CaretOf(e) = 0
  BY <1>11, <1>12, <1>13
<1>15. LineEndOf(m, 0) = Len(l)
  BY <1>9, <1>14 DEF EndOf
<1> QED  BY <1>9, <1>10, <1>12, <1>13, <1>15

LEMMA CancelMaps ==
  ASSUME IInv, Cancel
  PROVE  Buffer!GiveBack
<1> DEFINE m == escape_dialog
           b == set_text(m)
           d == [b EXCEPT !.row = 1, !.col = snap_to_char_boundary(b.lines[1], Len(m))]
           stops == {Len(m)} \cup {k - 1 : k \in {j \in DOMAIN m : m[j] = Newline}}
<1>1. bar' = d /\ m' = <<>>
  BY DEF Cancel, SetBar
<1>2. m \in Texts /\ Len(m) \in Nat /\ DOMAIN m = 1..Len(m)
  BY LenProperties DEF IInv, Texts
<1>3. Text(d) = m /\ CaretOf(d) \in 0..LineEndOf(m, 0)
  BY <1>2, BackInBar
<1>4. Text(bar)' = m /\ Caret' \in 0..LineEndOf(m, 0)
  BY <1>1, <1>3, Primed
<1> HIDE DEF d, b
<1>5. LineEndOf(m, 0) = Min(stops)
  <2>1. DOMAIN m = 0 + 1..Len(m)
    BY <1>2
  <2> QED  BY <2>1 DEF LineEndOf
<1>6. Min(stops) = Buffer!Min(stops)
  BY DEF Buffer!Min, Min
<1>7. Caret' \in 0..Buffer!Min(stops)
  BY <1>4, <1>5, <1>6
<1> QED  BY <1>1, <1>4, <1>7 DEF Buffer!GiveBack

\* A bar that was emptied.
LEMMA EmptyMaps ==
  ASSUME bar' = Empty
  PROVE  Text(bar)' = <<>> /\ Caret' = 0
<1>1. Text(Empty) = <<>> \o <<>> /\ CaretOf(Empty) = Len(<<>>)
  BY EmptyReads DEF Reads
<1>2. Text(Empty) = <<>> /\ CaretOf(Empty) = 0
  BY <1>1, Glue
<1> QED  BY <1>2, Primed

\* Enter on the text: what is sent, or asked about, is the text without the blanks around it.
LEMMA SubmitMaps ==
  ASSUME Solid # {}, submit(Message, Empty)
  PROVE  Buffer!Submit
<1>1. Buffer!Solid = Solid
  BY DEF Buffer!Solid, Solid
<1>2. Buffer!Message = Message
  BY <1>1 DEF Buffer!Message, Message, Buffer!Min, Min, Buffer!Max, Max
<1>3. bar' = Empty /\ escape_dialog' \in {<<>>, Message}
  BY DEF submit, SetBar
<1>4. Text(bar)' = <<>> /\ Caret' = 0
  BY <1>3, EmptyMaps
<1> QED  BY <1>1, <1>2, <1>3, <1>4 DEF Buffer!Submit

LEMMA Triple ==
  ASSUME NEW a, NEW b, NEW c
  PROVE  \A i \in DOMAIN <<a, b, c>> : \/ <<a, b, c>>[i] = a \/ <<a, b, c>>[i] = b
                                        \/ <<a, b, c>>[i] = c
<1>1. DOMAIN <<a, b, c>> = 1..3
  OBVIOUS
<1>2. <<a, b, c>>[1] = a /\ <<a, b, c>>[2] = b /\ <<a, b, c>>[3] = c
  OBVIOUS
<1>3. \A i \in 1..3 : i = 1 \/ i = 2 \/ i = 3
  OBVIOUS
<1> DEFINE t == <<a, b, c>>
<1> HIDE DEF t
<1> QED  BY <1>1, <1>2, <1>3 DEF t

\* Enter on a dropdown of commands or skills: the word is at the caret, it leaves an
\* empty bar, and as it names no file nothing is asked.
LEMMA WordMaps ==
  ASSUME IInv, ~PasteAnywhere, escape_dialog = <<>>, active_trigger.char \in FreeText,
         NEW word \in Completions, Head(word) = active_trigger.char, submit(word, Empty)
  PROVE  Buffer!SubmitWord
<1>1. bar' = Empty
  BY DEF submit, SetBar
<1>2. "@" \notin Range(word)
  <2>1. word # File /\ word # Directory
    <3>1. Head(File) = "@" /\ Head(Directory) = "@"
      BY DEF File, Directory
    <3>2. "@" \notin FreeText
      BY DEF FreeText
    <3> QED  BY <3>1, <3>2
  <2>2. word = Command \/ word = Skill
    BY <2>1 DEF Completions
  <2>3. \A i \in DOMAIN Command : Command[i] = "/" \/ Command[i] = "a" \/ Command[i] = " "
    BY Triple DEF Command
  <2>4. \A i \in DOMAIN Skill : Skill[i] = "$" \/ Skill[i] = "a" \/ Skill[i] = " "
    BY Triple DEF Skill
  <2>5. "@" # "/" /\ "@" # "a" /\ "@" # " " /\ "@" # "$"
    OBVIOUS
  <2>6. "@" \notin Range(Command)
    BY <2>3, <2>5, Zenon DEF Range
  <2>7. "@" \notin Range(Skill)
    BY <2>4, <2>5, Zenon DEF Range
  <2> QED  BY <2>2, <2>6, <2>7
<1>3. escape_dialog' = escape_dialog
  BY <1>2 DEF submit
<1>4. bar \in Bars /\ Stands(active_trigger, bar) /\ Open
  <2>1. Open
    <3>1. NoTrigger.char = "" /\ "" \notin FreeText
      BY DEF NoTrigger, FreeText
    <3> QED  BY <3>1 DEF Open
  <2> QED  BY <2>1 DEF IInv
<1>5. PICK k \in Scans(bar) : Line(bar)[k] = active_trigger.char
  BY <1>4 DEF Stands, Open
<1>6. Line(bar)[k] \in Triggers
  BY <1>4, <1>5, Found
<1>7. PICK d : Completes(bar, d, word, Line(bar)[k])
  <2>1. word \in Row
    BY Words DEF IsWord
  <2> QED  BY <1>4, <1>5, <2>1, FilledWrites
<1>8. PICK from \in (StartOf(bar)..CaretOf(bar)) \ {CaretOf(bar)} :
        /\ Text(bar)[from + 1] = Line(bar)[k]
        /\ \A i \in from + 1..CaretOf(bar) : Text(bar)[i] # " "
  BY <1>7 DEF Completes
<1>9. Buffer!LineStart(Caret) = StartOf(bar) /\ Caret = CaretOf(bar)
  BY Places DEF StartOf
<1>10. Buffer!WordAt(from) /\ Text(bar)[from + 1] \in FreeText
  BY <1>5, <1>6, <1>8, <1>9 DEF Buffer!WordAt
<1> QED  BY <1>1, <1>3, <1>8, <1>9, <1>10, EmptyMaps DEF Buffer!SubmitWord

\* What leaves the bar alone leaves its text alone.
LEMMA SameText ==
  ASSUME UNCHANGED bar
  PROVE  UNCHANGED <<Text(bar), Caret>>
BY Primed

LEMMA NothingSolid ==
  ASSUME Solid = {}, UNCHANGED <<bar, escape_dialog>>
  PROVE  Buffer!Submit
<1>1. Buffer!Solid = {}
  BY DEF Buffer!Solid, Solid
<1> QED  BY <1>1, SameText DEF Buffer!Submit

-----------------------------------------------------------------------------
(* Every action is one of TextBuffer *)

Keys == Chars \cup {"newline", "paste", "backspace", "delete", "kill_start", "kill_end",
                    "kill_word", "left", "right", "home", "end", "up", "down",
                    "tab", "enter", "confirm", "cancel", "choose"}

\* One disjunct of Buffer!Next.
Does(k) ==
  \/ (Buffer!Edit(k) \/ Buffer!Move(k)) /\ (escape_dialog = <<>> \/ k = "paste")
     /\ UNCHANGED escape_dialog
  \/ k = "tab" /\ escape_dialog = <<>>
     /\ ((Buffer!Complete /\ UNCHANGED escape_dialog) \/ Buffer!Choose)
  \/ k = "enter" /\ escape_dialog = <<>>
     /\ ((Buffer!Complete /\ UNCHANGED escape_dialog) \/ Buffer!Submit \/ Buffer!SubmitWord)
  \/ k = "confirm" /\ escape_dialog # <<>> /\ Buffer!Confirm
  \/ k = "cancel" /\ escape_dialog # <<>> /\ Buffer!GiveBack
  \/ k = "choose" /\ Buffer!Choose

LEMMA DoesNext ==
  ASSUME NEW k \in Keys, key' = k, Does(k)
  PROVE  Buffer!Next
BY DEF Does, Keys, Buffer!Next

LEMMA EditDoes ==
  ASSUME IInv, Edit
  PROVE  Buffer!Next
<1>1. PICK k \in EditKeys \cup MoveKeys :
        Typing /\ key' = k /\ bar' = handle_key(bar, k) /\ UNCHANGED escape_dialog
  BY DEF Edit, SetBar
<1>2. bar \in Bars /\ escape_dialog = <<>>
  BY <1>1 DEF IInv, Typing
<1>3. Buffer!Edit(k) \/ Buffer!Move(k)
  BY <1>1, <1>2, EditMaps, MoveMaps
<1>4. k \in Keys
  BY DEF EditKeys, MoveKeys, Keys
<1> QED  BY <1>1, <1>2, <1>3, <1>4, DoesNext DEF Does

LEMMA ChooseDoes ==
  ASSUME Select \/ Escape
  PROVE  Buffer!Next
<1>1. key' = "choose" /\ UNCHANGED <<bar, escape_dialog>>
  BY DEF Select, Escape
<1>2. Buffer!Choose
  BY <1>1, SameText DEF Buffer!Choose
<1> QED  BY <1>1, <1>2, DoesNext DEF Does, Keys

LEMMA TabDoes ==
  ASSUME IInv, ~PasteAnywhere, Tab
  PROVE  Buffer!Next
<1>1. Open /\ key' = "tab" /\ escape_dialog = <<>> /\ UNCHANGED escape_dialog
  BY DEF Tab, Typing
<1>2. CASE active_trigger.items = 0
  <2>1. UNCHANGED bar
    BY <1>2 DEF Tab
  <2>2. Buffer!Choose
    BY <1>1, <2>1, SameText DEF Buffer!Choose
  <2> QED  BY <1>1, <2>2, DoesNext DEF Does, Keys
<1>3. CASE active_trigger.items # 0
  <2>1. Complete
    BY <1>3 DEF Tab
  <2>2. Buffer!Complete
    BY <1>1, <2>1, CompleteMaps
  <2> QED  BY <1>1, <2>2, DoesNext DEF Does, Keys
<1> QED  BY <1>2, <1>3

LEMMA EnterDoes ==
  ASSUME IInv, ~PasteAnywhere, Enter
  PROVE  Buffer!Next
<1>1. key' = "enter" /\ escape_dialog = <<>>
  BY DEF Enter, Typing
<1> DEFINE chars == active_trigger.char = "@"
           command == active_trigger.items > 0 /\ active_trigger.char \in FreeText
<1>2. CASE chars
  <2>1. Complete /\ UNCHANGED escape_dialog
    <3>1. "@" \notin FreeText
      BY DEF FreeText
    <3> QED  BY <1>2, <3>1 DEF Enter
  <2>2. Open
    <3>1. NoTrigger.char = ""
      BY DEF NoTrigger
    <3>2. "@" # ""
      OBVIOUS
    <3> QED  BY <1>2, <3>1, <3>2 DEF Open
  <2>3. Buffer!Complete
    BY <2>1, <2>2, CompleteMaps
  <2> QED  BY <1>1, <2>1, <2>3, DoesNext DEF Does, Keys
<1>3. CASE ~chars /\ command
  <2>1. PICK word \in Completions : Head(word) = active_trigger.char /\ submit(word, Empty)
    BY <1>3 DEF Enter
  <2>2. Buffer!SubmitWord
    BY <1>1, <1>3, <2>1, WordMaps
  <2> QED  BY <1>1, <2>2, DoesNext DEF Does, Keys
<1>4. CASE ~chars /\ ~command
  <2>1. CASE Solid = {}
    <3>1. UNCHANGED <<bar, escape_dialog>>
      BY <1>4, <2>1 DEF Enter
    <3>2. Buffer!Submit
      BY <2>1, <3>1, NothingSolid
    <3> QED  BY <1>1, <3>2, DoesNext DEF Does, Keys
  <2>2. CASE Solid # {}
    <3>1. submit(Message, Empty)
      BY <1>4, <2>2 DEF Enter
    <3>2. Buffer!Submit
      BY <2>2, <3>1, SubmitMaps
    <3> QED  BY <1>1, <3>2, DoesNext DEF Does, Keys
  <2> QED  BY <2>1, <2>2
<1> QED  BY <1>2, <1>3, <1>4

LEMMA PasteDoes ==
  ASSUME IInv, Paste
  PROVE  Buffer!Next
<1>1. PICK s \in Pastes : bar' = insert_str(bar, s)
  BY DEF Paste, SetBar
<1>2. key' = "paste" /\ UNCHANGED escape_dialog
  BY DEF Paste
<1>3. Buffer!Edit("paste")
  BY <1>1, PasteMaps DEF IInv
<1> QED  BY <1>2, <1>3, DoesNext DEF Does, Keys

LEMMA DialogDoes ==
  ASSUME IInv, Approve \/ Cancel
  PROVE  Buffer!Next
<1>1. CASE Approve
  <2>1. key' = "confirm" /\ escape_dialog # <<>> /\ escape_dialog' = <<>> /\ UNCHANGED bar
    BY <1>1 DEF Approve
  <2>2. Buffer!Confirm
    BY <2>1, SameText DEF Buffer!Confirm
  <2> QED  BY <2>1, <2>2, DoesNext DEF Does, Keys
<1>2. CASE Cancel
  <2>1. key' = "cancel" /\ escape_dialog # <<>>
    BY <1>2 DEF Cancel
  <2>2. Buffer!GiveBack
    BY <1>2, CancelMaps
  <2> QED  BY <2>1, <2>2, DoesNext DEF Does, Keys
<1> QED  BY <1>1, <1>2

\* The bar with its rows, bytes and dropdowns implements a text with a caret
\* (TextBuffer): every key of input_bar.rs and every completion, submission and
\* dialog of state.rs does to them what that specification says, as long as nobody
\* pastes under an open dropdown, which may make trigger_complete slice elsewhere.
THEOREM ImplementsBuffer ==
  ASSUME LimitsAreNumbers, ~PasteAnywhere
  PROVE  Spec => ImplementsTextBuffer
<1>1. Init => IInv
  BY InitInv DEF LimitsAreNumbers
<1>2. IInv /\ [Next]_vars => IInv'
  BY StepInv DEF LimitsAreNumbers
<1>3. Init => Buffer!Init
  <2> SUFFICES ASSUME Init PROVE Buffer!Init
    OBVIOUS
  <2>1. bar = Empty /\ escape_dialog = <<>> /\ key = "none"
    BY DEF Init
  <2>2. Text(Empty) = <<>> \o <<>> /\ CaretOf(Empty) = Len(<<>>)
    BY EmptyReads DEF Reads
  <2>3. Text(bar) = <<>> /\ Caret = 0
    BY <2>1, <2>2, Glue, Primed
  <2> QED  BY <2>1, <2>3 DEF Buffer!Init
<1>4. IInv /\ [Next]_vars => [Buffer!Next]_Buffer!vars
  <2> SUFFICES ASSUME IInv, [Next]_vars PROVE [Buffer!Next]_Buffer!vars
    OBVIOUS
  <2>1. CASE Next
    BY <2>1, EditDoes, ChooseDoes, TabDoes, EnterDoes, PasteDoes, DialogDoes DEF Next
  <2>2. CASE UNCHANGED vars
    <3>1. UNCHANGED <<bar, escape_dialog, key>>
      BY <2>2 DEF vars
    <3> QED  BY <3>1, SameText DEF Buffer!vars
  <2> QED  BY <2>1, <2>2
<1> QED  BY <1>1, <1>2, <1>3, <1>4, PTL DEF Spec, ImplementsTextBuffer, Buffer!Spec
=============================================================================
