--------------------------- MODULE SublistsProofs ---------------------------
(***************************************************************************)
(* Lemmas about Sublist: which members it keeps, in which order, and how   *)
(* it goes together with pushing, appending and erasing again.             *)
(***************************************************************************)
EXTENDS Sublists, FiniteSetTheorems, TLAPS

\* The names Sublist gives to its parts.
Hits(l, K)    == {i \in 1 .. Len(l) : l[i] \in K}
Rank(l, K, i) == Cardinality({j \in Hits(l, K) : j <= i})
NthHit(l, K, n) == CHOOSE i \in Hits(l, K) : Rank(l, K, i) = n

LEMMA SublistUnfold ==
  ASSUME NEW l, NEW K
  PROVE  Sublist(l, K) = [n \in 1 .. Cardinality(Hits(l, K)) |-> l[NthHit(l, K, n)]]
BY DEF Sublist, Hits, Rank, NthHit

LEMMA HitsFinite ==
  ASSUME NEW S, NEW l \in Seq(S), NEW K
  PROVE  /\ IsFiniteSet(Hits(l, K))
         /\ Cardinality(Hits(l, K)) \in Nat
<1>1. IsFiniteSet(1 .. Len(l))
  BY FS_Interval
<1>2. Hits(l, K) \in SUBSET (1 .. Len(l))
  BY DEF Hits
<1> QED
  BY <1>1, <1>2, FS_Subset, FS_CardinalityType

\* A later hit has a higher rank.
LEMMA RankIncreases ==
  ASSUME NEW S, NEW l \in Seq(S), NEW K,
         NEW i \in Hits(l, K), NEW j \in Hits(l, K), i < j
  PROVE  Rank(l, K, i) < Rank(l, K, j)
<1> DEFINE A == {x \in Hits(l, K) : x <= i}
           B == {x \in Hits(l, K) : x <= j}
<1>1. IsFiniteSet(B) /\ IsFiniteSet(A)
  BY HitsFinite, FS_Subset
<1>2. A \in SUBSET B
  BY DEF Hits
<1>3. j \in B /\ j \notin A
  BY DEF Hits
<1>4. A # B
  BY <1>3
<1>5. /\ Cardinality(A) \in Nat
      /\ Cardinality(B) \in Nat
  BY <1>1, FS_CardinalityType
<1>6. Cardinality(A) <= Cardinality(B) /\ Cardinality(A) # Cardinality(B)
  BY <1>1, <1>2, <1>4, FS_Subset
<1> QED
  BY <1>5, <1>6 DEF Rank

LEMMA RankBounds ==
  ASSUME NEW S, NEW l \in Seq(S), NEW K, NEW i \in Hits(l, K)
  PROVE  Rank(l, K, i) \in 1 .. Cardinality(Hits(l, K))
<1> DEFINE H == Hits(l, K)
           A == {j \in H : j <= i}
<1>1. IsFiniteSet(H) /\ Cardinality(H) \in Nat
  BY HitsFinite
<1>2. A \in SUBSET H /\ i \in A
  BY DEF Hits
<1>3. IsFiniteSet(A) /\ Cardinality(A) <= Cardinality(H)
  BY <1>1, <1>2, FS_Subset
<1>4. Cardinality(A) \in Nat
  BY <1>3, FS_CardinalityType
<1>5. Cardinality(A) # 0
  BY <1>2, <1>3, FS_EmptySet
<1> QED
  BY <1>1, <1>3, <1>4, <1>5 DEF Rank

LEMMA RankInjective ==
  ASSUME NEW S, NEW l \in Seq(S), NEW K,
         NEW i \in Hits(l, K), NEW j \in Hits(l, K),
         Rank(l, K, i) = Rank(l, K, j)
  PROVE  i = j
<1>1. i \in Int /\ j \in Int
  BY DEF Hits
<1>2. Rank(l, K, i) \in Int /\ Rank(l, K, j) \in Int
  BY RankBounds, HitsFinite
<1>3. CASE i < j
  BY <1>2, <1>3, RankIncreases
<1>4. CASE j < i
  BY <1>2, <1>4, RankIncreases
<1> QED
  BY <1>1, <1>3, <1>4

\* The ranks of the hits are 1, 2, ..., without a gap.
LEMMA RankOnto ==
  ASSUME NEW S, NEW l \in Seq(S), NEW K,
         NEW n \in 1 .. Cardinality(Hits(l, K))
  PROVE  /\ NthHit(l, K, n) \in Hits(l, K)
         /\ Rank(l, K, NthHit(l, K, n)) = n
<1> DEFINE H == Hits(l, K)
           R == 1 .. Cardinality(H)
           f == [i \in H |-> Rank(l, K, i)]
<1>1. f \in [H -> R]
  BY RankBounds
<1>2. f \in Injection(H, R)
  BY <1>1, RankInjective DEF Injection, IsInjective
<1>3. IsFiniteSet(R) /\ Cardinality(R) = Cardinality(H)
  BY HitsFinite, FS_Interval
<1>4. f \in Surjection(H, R)
  BY <1>2, <1>3, FS_Injection
<1>5. \E i \in H : Rank(l, K, i) = n
  BY <1>4 DEF Surjection
<1> QED
  BY <1>5 DEF NthHit

\* Sublist keeps members of the list, the ones that are in K, ...
LEMMA SublistSeq ==
  ASSUME NEW S, NEW l \in Seq(S), NEW K
  PROVE  /\ Sublist(l, K) \in Seq(S)
         /\ Len(Sublist(l, K)) = Cardinality(Hits(l, K))
         /\ \A n \in 1 .. Len(Sublist(l, K)) :
              Sublist(l, K)[n] = l[NthHit(l, K, n)]
<1>1. Cardinality(Hits(l, K)) \in Nat
  BY HitsFinite
<1>2. \A n \in 1 .. Cardinality(Hits(l, K)) : l[NthHit(l, K, n)] \in S
  BY RankOnto DEF Hits
<1> QED
  BY <1>1, <1>2, SublistUnfold

\* ... all of them, ...
LEMMA SublistRange ==
  ASSUME NEW S, NEW l \in Seq(S), NEW K
  PROVE  Range(Sublist(l, K)) = Range(l) \cap K
<1> DEFINE s == Sublist(l, K)
           H == Hits(l, K)
<1>1. /\ Len(s) = Cardinality(H) /\ Cardinality(H) \in Nat
      /\ DOMAIN s = 1 .. Len(s) /\ DOMAIN l = 1 .. Len(l)
      /\ \A n \in 1 .. Len(s) : s[n] = l[NthHit(l, K, n)]
  BY SublistSeq, HitsFinite
<1>2. ASSUME NEW x \in Range(s)
      PROVE  x \in Range(l) \cap K
  <2>1. PICK n \in 1 .. Len(s) : x = s[n]
    BY <1>1 DEF Range
  <2>2. NthHit(l, K, n) \in H
    BY <1>1, RankOnto
  <2> QED
    BY <1>1, <2>1, <2>2 DEF Range, Hits
<1>3. ASSUME NEW x \in Range(l) \cap K
      PROVE  x \in Range(s)
  <2>1. PICK i \in H : x = l[i]
    BY <1>1 DEF Range, Hits
  <2> DEFINE n == Rank(l, K, i)
  <2>2. n \in 1 .. Cardinality(H)
    BY RankBounds
  <2>3. NthHit(l, K, n) = i
    BY <2>2, RankOnto, RankInjective
  <2> QED
    BY <1>1, <2>1, <2>2, <2>3 DEF Range
<1> QED
  BY <1>2, <1>3

\* ... and none twice that the list did not have twice.
LEMMA SublistNoDuplicates ==
  ASSUME NEW S, NEW l \in Seq(S), NEW K, NoDuplicates(l)
  PROVE  NoDuplicates(Sublist(l, K))
<1> DEFINE s == Sublist(l, K)
<1> SUFFICES ASSUME NEW m \in 1 .. Len(s), NEW n \in 1 .. Len(s), s[m] = s[n]
             PROVE  m = n
  BY DEF NoDuplicates
<1>1. /\ Len(s) = Cardinality(Hits(l, K))
      /\ s[m] = l[NthHit(l, K, m)]
      /\ s[n] = l[NthHit(l, K, n)]
  BY SublistSeq
<1>2. /\ NthHit(l, K, m) \in 1 .. Len(l)
      /\ NthHit(l, K, n) \in 1 .. Len(l)
  BY <1>1, RankOnto DEF Hits
<1>3. NthHit(l, K, m) = NthHit(l, K, n)
  BY <1>1, <1>2 DEF NoDuplicates
<1> QED
  BY <1>1, <1>3, RankOnto
-----------------------------------------------------------------------------
(***************************************************************************)
(* Two sublists are equal when there is a bijection between their hits     *)
(* that keeps order and members; everything below is an instance of this.  *)
(***************************************************************************)

\* A bijection that keeps the order keeps the ranks.
LEMMA RankKept ==
  ASSUME NEW S, NEW l \in Seq(S), NEW K, NEW T, NEW m \in Seq(T), NEW L,
         NEW f \in [Hits(l, K) -> Hits(m, L)],
         \A i, j \in Hits(l, K) : i < j => f[i] < f[j],
         \A x \in Hits(m, L) : \E i \in Hits(l, K) : f[i] = x,
         NEW i \in Hits(l, K)
  PROVE  Rank(l, K, i) = Rank(m, L, f[i])
<1> DEFINE A == {j \in Hits(l, K) : j <= i}
           B == {x \in Hits(m, L) : x <= f[i]}
           g == [j \in A |-> f[j]]
<1>1. \A j \in Hits(l, K) : j \in Int /\ f[j] \in Int
  BY DEF Hits
<1>2. IsFiniteSet(A)
  BY HitsFinite, FS_Subset
<1>3. g \in [A -> B]
  BY <1>1
<1>4. \A x, y \in A : g[x] = g[y] => x = y
  BY <1>1
<1>5. ASSUME NEW x \in B
      PROVE  \E j \in A : g[j] = x
  <2>1. PICK j \in Hits(l, K) : f[j] = x
    OBVIOUS
  <2>2. j <= i
    BY <1>1, <2>1
  <2> QED
    BY <2>1, <2>2
<1>6. g \in Bijection(A, B)
  BY <1>3, <1>4, <1>5 DEF Bijection, Injection, Surjection, IsInjective
<1>7. Cardinality(B) = Cardinality(A)
  <2> HIDE DEF A, B, g
  <2> QED
    BY <1>2, <1>6, FS_Bijection DEF ExistsBijection
<1> QED
  BY <1>7 DEF Rank

LEMMA SublistsEqual ==
  ASSUME NEW S, NEW l \in Seq(S), NEW K, NEW T, NEW m \in Seq(T), NEW L,
         NEW f \in [Hits(l, K) -> Hits(m, L)],
         \A i, j \in Hits(l, K) : i < j => f[i] < f[j],
         \A x \in Hits(m, L) : \E i \in Hits(l, K) : f[i] = x,
         \A i \in Hits(l, K) : l[i] = m[f[i]]
  PROVE  Sublist(l, K) = Sublist(m, L)
<1>1. Cardinality(Hits(l, K)) = Cardinality(Hits(m, L))
  <2>1. \A i, j \in Hits(l, K) : f[i] = f[j] => i = j
    <3>1. \A i \in Hits(l, K) : i \in Int /\ f[i] \in Int
      BY DEF Hits
    <3> QED
      BY <3>1
  <2>2. f \in Bijection(Hits(l, K), Hits(m, L))
    BY <2>1 DEF Bijection, Injection, Surjection, IsInjective
  <2> QED
    BY <2>2, HitsFinite, FS_Bijection DEF ExistsBijection
<1>2. ASSUME NEW n \in 1 .. Cardinality(Hits(l, K))
      PROVE  l[NthHit(l, K, n)] = m[NthHit(m, L, n)]
  <2> DEFINE i == NthHit(l, K, n)
  <2>1. i \in Hits(l, K) /\ Rank(l, K, i) = n
    BY RankOnto
  <2>2. Rank(m, L, f[i]) = n
    BY <2>1, RankKept
  <2>3. NthHit(m, L, n) = f[i]
    BY <1>1, <2>1, <2>2, RankOnto, RankInjective
  <2> QED
    BY <2>1, <2>3
<1> QED
  BY <1>1, <1>2, SublistUnfold

\* The members of a sublist stand in the order of the list.
LEMMA NthHitIncreases ==
  ASSUME NEW S, NEW l \in Seq(S), NEW K,
         NEW m \in 1 .. Len(Sublist(l, K)), NEW n \in 1 .. Len(Sublist(l, K)), m < n
  PROVE  /\ NthHit(l, K, m) \in 1 .. Len(l)
         /\ NthHit(l, K, n) \in 1 .. Len(l)
         /\ NthHit(l, K, m) < NthHit(l, K, n)
<1> DEFINE x == NthHit(l, K, m)
           y == NthHit(l, K, n)
<1>1. Len(Sublist(l, K)) = Cardinality(Hits(l, K))
  BY SublistSeq
<1>2. /\ x \in Hits(l, K) /\ Rank(l, K, x) = m
      /\ y \in Hits(l, K) /\ Rank(l, K, y) = n
  BY <1>1, RankOnto
<1>3. x \in 1 .. Len(l) /\ y \in 1 .. Len(l)
  BY <1>2 DEF Hits
<1>4. x # y
  BY <1>2
<1>5. ~(y < x)
  BY <1>2, RankIncreases
<1> QED
  BY <1>3, <1>4, <1>5

\* A list that is in K is its own sublist.
LEMMA SublistWhole ==
  ASSUME NEW S, NEW l \in Seq(S), NEW K, Range(l) \subseteq K
  PROVE  Sublist(l, K) = l
<1>1. Hits(l, K) = 1 .. Len(l)
  BY DEF Hits, Range
<1>2. Len(l) \in Nat
  OBVIOUS
<1>3. ASSUME NEW i \in 1 .. Len(l)
      PROVE  Rank(l, K, i) = i
  <2>1. {j \in Hits(l, K) : j <= i} = 1 .. i
    BY <1>1, <1>2
  <2>2. Cardinality(1 .. i) = i
    BY FS_Interval
  <2> QED
    BY <2>1, <2>2 DEF Rank
<1>4. Cardinality(Hits(l, K)) = Len(l)
  BY <1>1, <1>2, FS_Interval
<1>5. \A n \in 1 .. Len(l) : NthHit(l, K, n) = n
  BY <1>1, <1>3, <1>4, RankOnto
<1> QED
  BY <1>4, <1>5, SublistSeq

\* A sublist of a sublist.
LEMMA SublistTwice ==
  ASSUME NEW S, NEW l \in Seq(S), NEW A, NEW B, NEW C, A \cap B = C
  PROVE  Sublist(Sublist(l, A), B) = Sublist(l, C)
<1> DEFINE m == Sublist(l, A)
           f == [n \in Hits(m, B) |-> NthHit(l, A, n)]
<1>1. /\ m \in Seq(S) /\ Len(m) = Cardinality(Hits(l, A))
      /\ \A n \in 1 .. Len(m) : m[n] = l[NthHit(l, A, n)]
  BY SublistSeq
<1>2. \A n \in 1 .. Len(m) : NthHit(l, A, n) \in 1 .. Len(l)
                              /\ l[NthHit(l, A, n)] \in A
  BY <1>1, RankOnto DEF Hits
<1>3. f \in [Hits(m, B) -> Hits(l, C)]
  BY <1>1, <1>2 DEF Hits
<1>4. \A i, j \in Hits(m, B) : i < j => f[i] < f[j]
  BY NthHitIncreases DEF Hits
<1>5. ASSUME NEW x \in Hits(l, C)
      PROVE  \E n \in Hits(m, B) : f[n] = x
  <2> DEFINE n == Rank(l, A, x)
  <2>1. x \in Hits(l, A) /\ l[x] \in B
    BY DEF Hits
  <2>2. n \in 1 .. Cardinality(Hits(l, A))
    BY <2>1, RankBounds
  <2>3. NthHit(l, A, n) = x
    BY <2>1, <2>2, RankOnto, RankInjective
  <2>4. n \in Hits(m, B)
    BY <1>1, <2>1, <2>2, <2>3 DEF Hits
  <2> QED
    BY <2>3, <2>4
<1>6. \A n \in Hits(m, B) : m[n] = l[f[n]]
  BY <1>1 DEF Hits
<1> HIDE DEF f, m
<1>7. Sublist(m, B) = Sublist(l, C)
  BY <1>1, <1>3, <1>4, <1>5, <1>6, SublistsEqual
<1> QED
  BY <1>7 DEF m

\* Only what is in the list matters of K.
LEMMA SublistSame ==
  ASSUME NEW S, NEW l \in Seq(S), NEW A, NEW B,
         \A x \in Range(l) : x \in A <=> x \in B
  PROVE  Sublist(l, A) = Sublist(l, B)
<1>1. Hits(l, A) = Hits(l, B)
  BY DEF Hits, Range
<1>2. \A n : NthHit(l, A, n) = NthHit(l, B, n)
  BY <1>1 DEF NthHit, Rank
<1> QED
  BY <1>1, <1>2, SublistUnfold

\* Pushing a member that is not kept.
LEMMA SublistPushOther ==
  ASSUME NEW S, NEW l \in Seq(S), NEW x \in S, NEW K, x \notin K
  PROVE  Sublist(<<x>> \o l, K) = Sublist(l, K)
<1> DEFINE m == <<x>> \o l
           f == [i \in Hits(l, K) |-> i + 1]
<1>1. /\ m \in Seq(S) /\ Len(m) = Len(l) + 1 /\ m[1] = x
      /\ \A i \in 1 .. Len(l) : m[i + 1] = l[i]
      /\ Len(l) \in Nat
  OBVIOUS
<1> HIDE DEF m
<1>2. f \in [Hits(l, K) -> Hits(m, K)]
  BY <1>1 DEF Hits
<1>3. ASSUME NEW j \in Hits(m, K)
      PROVE  \E i \in Hits(l, K) : f[i] = j
  <2>1. j \in 1 .. Len(l) + 1 /\ j # 1
    BY <1>1 DEF Hits
  <2>2. j - 1 \in 1 .. Len(l) /\ m[(j - 1) + 1] = l[j - 1] /\ (j - 1) + 1 = j
    BY <1>1, <2>1
  <2>3. j - 1 \in Hits(l, K)
    BY <2>2 DEF Hits
  <2> QED
    BY <2>2, <2>3
<1>4. \A i, j \in Hits(l, K) : i < j => f[i] < f[j]
  BY DEF Hits
<1>5. \A i \in Hits(l, K) : l[i] = m[f[i]]
  BY <1>1 DEF Hits
<1> HIDE DEF f
<1>6. Sublist(l, K) = Sublist(m, K)
  BY <1>1, <1>2, <1>3, <1>4, <1>5, SublistsEqual
<1> QED
  BY <1>6 DEF m

\* The same at the other end.
LEMMA SublistAppendOther ==
  ASSUME NEW S, NEW l \in Seq(S), NEW x \in S, NEW K, x \notin K
  PROVE  Sublist(Append(l, x), K) = Sublist(l, K)
<1> DEFINE m == Append(l, x)
<1>1. /\ m \in Seq(S) /\ Len(m) = Len(l) + 1 /\ m[Len(l) + 1] = x
      /\ \A i \in 1 .. Len(l) : m[i] = l[i]
      /\ Len(l) \in Nat
  OBVIOUS
<1> HIDE DEF m
<1>2. Hits(m, K) = Hits(l, K)
  BY <1>1 DEF Hits
<1>3. Cardinality(Hits(l, K)) = Cardinality(Hits(m, K))
  BY <1>2
<1>4. ASSUME NEW n \in 1 .. Cardinality(Hits(l, K))
      PROVE  m[NthHit(m, K, n)] = l[NthHit(l, K, n)]
  <2>1. NthHit(m, K, n) = NthHit(l, K, n)
    BY <1>2 DEF NthHit, Rank
  <2>2. NthHit(l, K, n) \in 1 .. Len(l)
    BY RankOnto DEF Hits
  <2> QED
    BY <1>1, <2>1, <2>2
<1>5. Sublist(m, K) = Sublist(l, K)
  BY <1>3, <1>4, SublistUnfold
<1> QED
  BY <1>5 DEF m

\* The members of a list that is longer by one.
LEMMA RangePush ==
  ASSUME NEW S, NEW l \in Seq(S), NEW x \in S
  PROVE  Range(<<x>> \o l) = {x} \cup Range(l)
<1> DEFINE m == <<x>> \o l
<1>1. /\ DOMAIN m = 1 .. Len(l) + 1 /\ m[1] = x
      /\ \A i \in 1 .. Len(l) : m[i + 1] = l[i]
      /\ Len(l) \in Nat /\ DOMAIN l = 1 .. Len(l)
  OBVIOUS
<1> HIDE DEF m
<1>2. \A i \in 1 .. Len(l) + 1 : i = 1 \/ (i - 1 \in 1 .. Len(l) /\ (i - 1) + 1 = i)
  BY <1>1
<1>3. ASSUME NEW y \in Range(m)
      PROVE  y \in {x} \cup Range(l)
  <2>1. PICK i \in 1 .. Len(l) + 1 : y = m[i]
    BY <1>1 DEF Range
  <2>2. CASE i = 1
    BY <1>1, <2>1, <2>2
  <2>3. CASE i - 1 \in 1 .. Len(l) /\ (i - 1) + 1 = i
    <3>1. y = l[i - 1]
      BY <1>1, <2>1, <2>3
    <3> QED
      BY <1>1, <2>3, <3>1 DEF Range
  <2> QED
    BY <1>2, <2>2, <2>3
<1>4. \A i \in 1 .. Len(l) : i + 1 \in 1 .. Len(l) + 1
  BY <1>1
<1>5. \A y \in {x} \cup Range(l) : y \in Range(m)
  BY <1>1, <1>4 DEF Range
<1>6. Range(m) = {x} \cup Range(l)
  BY <1>3, <1>5
<1> QED
  BY <1>6 DEF m

LEMMA RangeAppend ==
  ASSUME NEW S, NEW l \in Seq(S), NEW x
  PROVE  Range(Append(l, x)) = Range(l) \cup {x}
<1> DEFINE m == Append(l, x)
<1>1. /\ DOMAIN m = 1 .. Len(l) + 1 /\ m[Len(l) + 1] = x
      /\ \A i \in 1 .. Len(l) : m[i] = l[i]
      /\ Len(l) \in Nat /\ DOMAIN l = 1 .. Len(l)
  OBVIOUS
<1> HIDE DEF m
<1>2. Range(m) = Range(l) \cup {x}
  BY <1>1 DEF Range
<1> QED
  BY <1>2 DEF m

\* Pushing and appending a member that is kept.
LEMMA SublistPush ==
  ASSUME NEW S, NEW l \in Seq(S), NEW x \in S, NEW K, x \in K
  PROVE  Sublist(<<x>> \o l, K) = <<x>> \o Sublist(l, K)
<1> DEFINE s == Sublist(l, K)
           a == <<x>> \o s
           b == <<x>> \o l
           f == [n \in Hits(a, K) |-> IF n = 1 THEN 1 ELSE NthHit(l, K, n - 1) + 1]
<1>1. /\ s \in Seq(S) /\ Len(s) = Cardinality(Hits(l, K))
      /\ \A n \in 1 .. Len(s) : s[n] = l[NthHit(l, K, n)]
      /\ Range(s) = Range(l) \cap K
  BY SublistSeq, SublistRange
<1>2. \A n \in 1 .. Len(s) : /\ NthHit(l, K, n) \in 1 .. Len(l)
                             /\ l[NthHit(l, K, n)] \in K
                             /\ Rank(l, K, NthHit(l, K, n)) = n
  BY <1>1, RankOnto DEF Hits
<1>3. \A m, n \in 1 .. Len(s) : m < n => NthHit(l, K, m) < NthHit(l, K, n)
  BY NthHitIncreases
<1> HIDE DEF s
<1>4. /\ a \in Seq(S) /\ Len(a) = Len(s) + 1 /\ a[1] = x
      /\ \A n \in 2 .. Len(a) : a[n] = s[n - 1]
      /\ b \in Seq(S) /\ Len(b) = Len(l) + 1 /\ b[1] = x
      /\ \A i \in 2 .. Len(b) : b[i] = l[i - 1]
      /\ Len(s) \in Nat /\ Len(l) \in Nat
  BY <1>1
<1>5. Range(a) = {x} \cup Range(s)
  BY <1>1, RangePush
<1>6. Sublist(a, K) = a
  BY <1>1, <1>4, <1>5, SublistWhole
<1> HIDE DEF a, b
<1>7. ASSUME NEW n \in 1 .. Len(a)
      PROVE  /\ n # 1 => /\ n - 1 \in 1 .. Len(s)
                         /\ NthHit(l, K, n - 1) + 1 \in 2 .. Len(b)
                         /\ b[NthHit(l, K, n - 1) + 1] = l[NthHit(l, K, n - 1)]
                         /\ a[n] = l[NthHit(l, K, n - 1)]
             /\ a[n] \in K
  <2>1. CASE n = 1
    BY <1>4, <2>1
  <2>2. CASE n # 1
    <3>1. n - 1 \in 1 .. Len(s) /\ n \in 2 .. Len(a)
      BY <1>4, <2>2
    <3>2. NthHit(l, K, n - 1) \in 1 .. Len(l)
      BY <1>2, <3>1
    <3>3. NthHit(l, K, n - 1) + 1 \in 2 .. Len(b) /\ (NthHit(l, K, n - 1) + 1) - 1 = NthHit(l, K, n - 1)
      BY <1>4, <3>2
    <3>4. b[NthHit(l, K, n - 1) + 1] = l[NthHit(l, K, n - 1)]
      BY <1>4, <3>3
    <3>5. a[n] = l[NthHit(l, K, n - 1)]
      BY <1>1, <1>4, <3>1
    <3> QED
      BY <1>2, <3>1, <3>3, <3>4, <3>5
  <2> QED
    BY <2>1, <2>2
<1>8. Hits(a, K) = 1 .. Len(a)
  BY <1>7 DEF Hits
<1>9. f \in [Hits(a, K) -> Hits(b, K)]
  <2> SUFFICES ASSUME NEW n \in 1 .. Len(a)
               PROVE  (IF n = 1 THEN 1 ELSE NthHit(l, K, n - 1) + 1) \in Hits(b, K)
    BY <1>8
  <2>1. CASE n = 1
    BY <1>4, <2>1 DEF Hits
  <2>2. CASE n # 1
    BY <1>2, <1>7, <2>2 DEF Hits
  <2> QED
    BY <2>1, <2>2
<1>10. ASSUME NEW i \in Hits(a, K), NEW j \in Hits(a, K), i < j
       PROVE  f[i] < f[j]
  <2>1. i \in 1 .. Len(a) /\ j \in 1 .. Len(a) /\ j # 1
    BY <1>4, <1>8, <1>10
  <2>2. j - 1 \in 1 .. Len(s) /\ NthHit(l, K, j - 1) \in 1 .. Len(l)
    BY <1>2, <1>7, <2>1
  <2>3. CASE i = 1
    BY <1>4, <2>1, <2>2, <2>3
  <2>4. CASE i # 1
    <3>1. i - 1 \in 1 .. Len(s)
      BY <1>7, <2>1, <2>4
    <3>2. i - 1 < j - 1 /\ NthHit(l, K, i - 1) \in 1 .. Len(l)
      BY <1>2, <1>4, <1>10, <2>1, <3>1
    <3>3. NthHit(l, K, i - 1) < NthHit(l, K, j - 1)
      BY <1>3, <2>2, <3>1, <3>2
    <3> QED
      BY <2>1, <2>2, <2>4, <3>2, <3>3
  <2> QED
    BY <2>3, <2>4
<1>11. ASSUME NEW y \in Hits(b, K)
       PROVE  \E n \in Hits(a, K) : f[n] = y
  <2>1. y \in 1 .. Len(l) + 1 /\ b[y] \in K
    BY <1>4 DEF Hits
  <2>2. CASE y = 1
    <3>1. 1 \in Hits(a, K)
      BY <1>4, <1>8
    <3> QED
      BY <2>2, <3>1
  <2>3. CASE y # 1
    <3>1. y - 1 \in 1 .. Len(l) /\ b[y] = l[y - 1]
      BY <1>4, <2>1, <2>3
    <3>2. y - 1 \in Hits(l, K)
      BY <2>1, <3>1 DEF Hits
    <3> DEFINE r == Rank(l, K, y - 1)
    <3>3. r \in 1 .. Len(s)
      BY <1>1, <3>2, RankBounds
    <3>4. NthHit(l, K, r) = y - 1
      BY <1>1, <3>2, <3>3, RankOnto, RankInjective
    <3>5. r + 1 \in Hits(a, K) /\ r + 1 # 1 /\ (r + 1) - 1 = r
      BY <1>4, <1>8, <3>3
    <3>6. f[r + 1] = (y - 1) + 1
      BY <3>4, <3>5
    <3>7. (y - 1) + 1 = y
      BY <2>1
    <3> QED
      BY <3>5, <3>6, <3>7
  <2> QED
    BY <2>2, <2>3
<1>12. \A n \in Hits(a, K) : a[n] = b[f[n]]
  BY <1>4, <1>7, <1>8
<1> HIDE DEF f
<1>13. a \in Seq(S) /\ b \in Seq(S)
  BY <1>4
<1>14. Sublist(a, K) = Sublist(b, K)
  <2>1. /\ \A i, j \in Hits(a, K) : i < j => f[i] < f[j]
        /\ \A y \in Hits(b, K) : \E n \in Hits(a, K) : f[n] = y
    BY <1>10, <1>11
  <2> QED
    BY <1>9, <1>12, <1>13, <2>1, SublistsEqual
<1> QED
  BY <1>6, <1>14 DEF a, b, s

LEMMA SublistAppend ==
  ASSUME NEW S, NEW l \in Seq(S), NEW x \in S, NEW K, x \in K
  PROVE  Sublist(Append(l, x), K) = Append(Sublist(l, K), x)
<1> DEFINE s == Sublist(l, K)
           a == Append(s, x)
           b == Append(l, x)
           f == [n \in Hits(a, K) |-> IF n = Len(a) THEN Len(b) ELSE NthHit(l, K, n)]
<1>1. /\ s \in Seq(S) /\ Len(s) = Cardinality(Hits(l, K))
      /\ \A n \in 1 .. Len(s) : s[n] = l[NthHit(l, K, n)]
      /\ Range(s) = Range(l) \cap K
  BY SublistSeq, SublistRange
<1>2. \A n \in 1 .. Len(s) : /\ NthHit(l, K, n) \in 1 .. Len(l)
                             /\ l[NthHit(l, K, n)] \in K
  BY <1>1, RankOnto DEF Hits
<1>3. \A m, n \in 1 .. Len(s) : m < n => NthHit(l, K, m) < NthHit(l, K, n)
  BY NthHitIncreases
<1> HIDE DEF s
<1>4. /\ a \in Seq(S) /\ Len(a) = Len(s) + 1 /\ a[Len(a)] = x
      /\ \A n \in 1 .. Len(s) : a[n] = s[n]
      /\ b \in Seq(S) /\ Len(b) = Len(l) + 1 /\ b[Len(b)] = x
      /\ \A i \in 1 .. Len(l) : b[i] = l[i]
      /\ Len(s) \in Nat /\ Len(l) \in Nat
  BY <1>1
<1>5. Range(a) = Range(s) \cup {x}
  BY <1>1, RangeAppend
<1>6. Sublist(a, K) = a
  BY <1>1, <1>4, <1>5, SublistWhole
<1> HIDE DEF a, b
<1>7. \A n \in 1 .. Len(a) : n = Len(a) \/ n \in 1 .. Len(s)
  BY <1>4
<1>8. \A n \in 1 .. Len(s) : n # Len(a) /\ a[n] = l[NthHit(l, K, n)]
                              /\ b[NthHit(l, K, n)] = l[NthHit(l, K, n)]
                              /\ NthHit(l, K, n) \in 1 .. Len(b)
                              /\ NthHit(l, K, n) < Len(b)
  BY <1>1, <1>2, <1>4
<1>9. Hits(a, K) = 1 .. Len(a)
  BY <1>2, <1>4, <1>7, <1>8 DEF Hits
<1>10. f \in [Hits(a, K) -> Hits(b, K)]
  BY <1>2, <1>4, <1>7, <1>8, <1>9 DEF Hits
<1>11. \A i, j \in Hits(a, K) : i < j => f[i] < f[j]
  BY <1>3, <1>4, <1>7, <1>8, <1>9
<1>12. ASSUME NEW y \in Hits(b, K)
       PROVE  \E n \in Hits(a, K) : f[n] = y
  <2>1. y \in 1 .. Len(b) /\ b[y] \in K
    BY DEF Hits
  <2>2. CASE y = Len(b)
    BY <1>4, <1>9, <2>2
  <2>3. CASE y # Len(b)
    <3>1. y \in 1 .. Len(l) /\ b[y] = l[y]
      BY <1>4, <2>1, <2>3
    <3>2. y \in Hits(l, K)
      BY <2>1, <3>1 DEF Hits
    <3> DEFINE r == Rank(l, K, y)
    <3>3. r \in 1 .. Len(s)
      BY <1>1, <3>2, RankBounds
    <3>4. NthHit(l, K, r) = y
      BY <1>1, <3>2, <3>3, RankOnto, RankInjective
    <3>5. r \in Hits(a, K) /\ r # Len(a)
      BY <1>4, <1>9, <3>3
    <3> QED
      BY <3>4, <3>5
  <2> QED
    BY <2>2, <2>3
<1>13. \A n \in Hits(a, K) : a[n] = b[f[n]]
  BY <1>4, <1>7, <1>8, <1>9
<1> HIDE DEF f
<1>14. a \in Seq(S) /\ b \in Seq(S)
  BY <1>4
<1>15. Sublist(a, K) = Sublist(b, K)
  <2>1. \A y \in Hits(b, K) : \E n \in Hits(a, K) : f[n] = y
    BY <1>12
  <2> QED
    BY <1>10, <1>11, <1>13, <1>14, <2>1, SublistsEqual
<1> QED
  BY <1>6, <1>15 DEF a, b, s

\* A sublist starts with the first member of the list that is in K.
LEMMA SublistHead ==
  ASSUME NEW S, NEW l \in Seq(S), NEW K, Sublist(l, K) # <<>>
  PROVE  \E i \in Hits(l, K) : /\ Sublist(l, K)[1] = l[i]
                               /\ \A j \in Hits(l, K) : i <= j
<1> DEFINE s == Sublist(l, K)
           i == NthHit(l, K, 1)
<1>1. /\ s \in Seq(S) /\ Len(s) = Cardinality(Hits(l, K))
      /\ \A n \in 1 .. Len(s) : s[n] = l[NthHit(l, K, n)]
  BY SublistSeq
<1>2. 1 \in 1 .. Len(s)
  <2>1. s # <<>>
    OBVIOUS
  <2> HIDE DEF s
  <2> QED
    BY <1>1, <2>1
<1>3. i \in Hits(l, K) /\ Rank(l, K, i) = 1 /\ s[1] = l[i]
  BY <1>1, <1>2, RankOnto
<1>4. ASSUME NEW j \in Hits(l, K), ~(i <= j)
      PROVE  FALSE
  <2>1. j < i
    BY <1>3, <1>4 DEF Hits
  <2>2. Rank(l, K, j) < Rank(l, K, i)
    BY <1>3, <2>1, RankIncreases
  <2>3. Rank(l, K, j) \in 1 .. Cardinality(Hits(l, K))
    BY RankBounds
  <2>4. Cardinality(Hits(l, K)) \in Nat
    BY HitsFinite
  <2> QED
    BY <1>3, <2>2, <2>3, <2>4
<1> QED
  BY <1>3, <1>4

\* The head of a list without repetitions is erased by taking the tail.
LEMMA TailErases ==
  ASSUME NEW S, NEW l \in Seq(S), l # <<>>, NoDuplicates(l)
  PROVE  /\ Head(l) \in Range(l)
         /\ Range(Tail(l)) = Range(l) \ {Head(l)}
         /\ \A K : Range(l) \subseteq K => Sublist(l, K \ {Head(l)}) = Tail(l)
<1> DEFINE m == Tail(l)
           h == Head(l)
<1>1. /\ h = l[1] /\ m \in Seq(S) /\ Len(l) \in Nat \ {0} /\ Len(m) = Len(l) - 1
      /\ h \in S
      /\ \A i \in 1 .. Len(m) : m[i] = l[i + 1]
  OBVIOUS
<1>2. l = <<h>> \o m
  <2>1. /\ <<h>> \o m \in Seq(S) /\ Len(<<h>> \o m) = Len(l)
        /\ \A i \in 1 .. Len(l) : (<<h>> \o m)[i] = l[i]
    BY <1>1
  <2> QED
    BY <2>1
<1>3. h \in Range(l)
  BY <1>1 DEF Range
<1> HIDE DEF m, h
<1>4. Range(l) = {h} \cup Range(m)
  BY <1>1, <1>2, RangePush
<1>5. h \notin Range(m)
  <2> SUFFICES ASSUME NEW i \in 1 .. Len(m), m[i] = h PROVE FALSE
    BY <1>1 DEF Range
  <2>1. 1 \in 1 .. Len(l) /\ i + 1 \in 1 .. Len(l) /\ l[i + 1] = l[1] /\ i + 1 # 1
    BY <1>1
  <2> QED
    BY <2>1 DEF NoDuplicates
<1>6. ASSUME NEW K, Range(l) \subseteq K
      PROVE  Sublist(l, K \ {h}) = m
  <2>1. Sublist(l, K \ {h}) = Sublist(m, K \ {h})
    BY <1>1, <1>2, SublistPushOther
  <2>2. Range(m) \subseteq K \ {h}
    BY <1>4, <1>5, <1>6
  <2> QED
    BY <1>1, <2>1, <2>2, SublistWhole
<1> QED
  BY <1>3, <1>4, <1>5, <1>6 DEF m, h

\* A list without repetitions is as long as its set of members is large.
LEMMA LengthIsCardinality ==
  ASSUME NEW S, NEW l \in Seq(S), NoDuplicates(l)
  PROVE  IsFiniteSet(Range(l)) /\ Cardinality(Range(l)) = Len(l)
<1> DEFINE f == [i \in 1 .. Len(l) |-> l[i]]
<1>1. Len(l) \in Nat /\ DOMAIN l = 1 .. Len(l)
  OBVIOUS
<1>2. IsFiniteSet(1 .. Len(l)) /\ Cardinality(1 .. Len(l)) = Len(l)
  BY <1>1, FS_Interval
<1>3. f \in Bijection(1 .. Len(l), Range(l))
  BY <1>1 DEF Bijection, Injection, IsInjective, Surjection, Range, NoDuplicates
<1> QED
  BY <1>2, <1>3, FS_Bijection DEF ExistsBijection
=============================================================================
