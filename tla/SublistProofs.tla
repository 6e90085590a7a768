---------------------------- MODULE SublistProofs ----------------------------
(* What Sublist returns, for every list and every set of its places; and the  *)
(* orders of streaming that rest on it.                                       *)
EXTENDS StreamingOrder, FiniteSetTheorems, SequenceTheorems, NaturalsInduction, TLAPS

LEMMA RankIsBounded ==
    ASSUME NEW I \in SUBSET Int, IsFiniteSet(I), NEW i \in I
    PROVE  Rank(I, i) \in 0..(Cardinality(I) - 1)
<1> DEFINE B == {j \in I : j < i}
<1>1. B \in SUBSET I /\ i \notin B /\ B # I
  OBVIOUS
<1>2. IsFiniteSet(B) /\ Cardinality(B) <= Cardinality(I) /\ Cardinality(B) # Cardinality(I)
  <2> HIDE DEF B
  <2> QED BY <1>1, FS_Subset
<1>3. Cardinality(B) \in Nat /\ Cardinality(I) \in Nat
  <2> HIDE DEF B
  <2> QED BY <1>2, FS_CardinalityType
<1> QED
  BY <1>2, <1>3 DEF Rank

LEMMA RankIsOrdered ==
    ASSUME NEW I \in SUBSET Int, IsFiniteSet(I), NEW i \in I, NEW k \in I, i < k
    PROVE  Rank(I, i) < Rank(I, k)
<1> DEFINE B == {j \in I : j < i}  C == {j \in I : j < k}
<1>1. B \subseteq C /\ i \in C /\ i \notin B /\ C \in SUBSET I
  <2>1. i \in Int /\ k \in Int /\ I \subseteq Int
    OBVIOUS
  <2>2. \A j \in I : j < i => j < k
    BY <2>1
  <2>3. B \subseteq C
    BY <2>2
  <2>4. i \in C /\ i \notin B /\ C \in SUBSET I
    BY <2>1
  <2> QED BY <2>3, <2>4
<1>2. IsFiniteSet(C)
  <2> HIDE DEF B, C
  <2> QED BY <1>1, FS_Subset
<1>3. B \in SUBSET C /\ B # C
  <2> HIDE DEF B, C
  <2> QED BY <1>1
<1>4. IsFiniteSet(B) /\ Cardinality(B) <= Cardinality(C) /\ Cardinality(B) # Cardinality(C)
  <2> HIDE DEF B, C
  <2> QED BY <1>2, <1>3, FS_Subset
<1>5. Cardinality(B) \in Nat /\ Cardinality(C) \in Nat
  <2> HIDE DEF B, C
  <2> QED BY <1>2, <1>4, FS_CardinalityType
<1> QED
  BY <1>4, <1>5 DEF Rank

\* There is an n-th place for every n up to how many there are.
LEMMA PlaceExists ==
    ASSUME NEW I \in SUBSET Int, IsFiniteSet(I), NEW n \in 1..Cardinality(I)
    PROVE  Place(I, n) \in I /\ Rank(I, Place(I, n)) = n - 1
<1> DEFINE N == Cardinality(I)  T == 0..(N - 1)  r == [i \in I |-> Rank(I, i)]
<1>1. N \in Nat
  BY FS_CardinalityType
<1>2. r \in [I -> T]
  BY RankIsBounded
<1>3. \A i, k \in I : r[i] = r[k] => i = k
  <2> SUFFICES ASSUME NEW i \in I, NEW k \in I, i # k PROVE r[i] # r[k]
    OBVIOUS
  <2>1. r[i] \in T /\ r[k] \in T
    BY <1>2
  <2>2. CASE i < k
    BY <2>1, <2>2, RankIsOrdered
  <2>3. CASE k < i
    BY <2>1, <2>3, RankIsOrdered
  <2> QED
    BY <2>2, <2>3
<1>4. r \in Injection(I, T)
  <2> HIDE DEF r, T
  <2> QED BY <1>2, <1>3 DEF Injection, IsInjective
<1>5. IsFiniteSet(T) /\ Cardinality(T) = N
  <2>1. 0 \in Int /\ N - 1 \in Int
    BY <1>1
  <2>2. IsFiniteSet(T) /\ Cardinality(T) = IF 0 > N - 1 THEN 0 ELSE (N - 1) - 0 + 1
    BY <2>1, FS_Interval
  <2> HIDE DEF T, N
  <2> QED BY <2>2, <1>1
<1>6. r \in Surjection(I, T)
  <2> HIDE DEF r, T
  <2> QED BY <1>4, <1>5, FS_Injection
<1>7. PICK i \in I : r[i] = n - 1
  <2>1. n - 1 \in T
    BY <1>1
  <2> HIDE DEF r, T
  <2> QED BY <1>6, <2>1 DEF Surjection
<1>8. \E k \in I : Rank(I, k) = n - 1
  BY <1>7
<1> QED
  BY <1>8 DEF Place

\* A sublist is a list of elements of the list: each of them is at a place asked
\* for, two of them at two places, in order, and nothing at such a place is left out.
THEOREM SublistIsExact ==
    ASSUME NEW S, NEW s \in Seq(S), NEW I \in SUBSET (1..Len(s))
    PROVE  /\ Cardinality(I) \in Nat
           /\ Sublist(s, I) \in Seq(S) /\ Len(Sublist(s, I)) = Cardinality(I)
           /\ \A n \in 1..Cardinality(I) : Place(I, n) \in I /\ Sublist(s, I)[n] = s[Place(I, n)]
           /\ \A n, k \in 1..Cardinality(I) : n < k => Place(I, n) < Place(I, k)
           /\ \A i \in I : \E n \in 1..Cardinality(I) : Place(I, n) = i
<1>1. Len(s) \in Nat /\ IsFiniteSet(I) /\ I \in SUBSET Int
  <2>1. Len(s) \in Nat /\ 1 \in Int /\ Len(s) \in Int
    OBVIOUS
  <2>2. IsFiniteSet(1..Len(s))
    BY <2>1, FS_Interval
  <2>3. IsFiniteSet(I)
    BY <2>2, FS_Subset
  <2> QED BY <2>1, <2>3
<1>2. Cardinality(I) \in Nat
  BY <1>1, FS_CardinalityType
<1>3. \A n \in 1..Cardinality(I) : Place(I, n) \in I /\ Rank(I, Place(I, n)) = n - 1
  BY <1>1, PlaceExists
<1>4. \A n \in 1..Cardinality(I) : s[Place(I, n)] \in S
  <2>1. \A i \in I : s[i] \in S
    OBVIOUS
  <2> QED BY <2>1, <1>3
<1>5. Sublist(s, I) \in Seq(S) /\ Len(Sublist(s, I)) = Cardinality(I)
  BY <1>2, <1>4 DEF Sublist
<1>6. ASSUME NEW n \in 1..Cardinality(I), NEW k \in 1..Cardinality(I), n < k
      PROVE  Place(I, n) < Place(I, k)
  <2>1. Place(I, n) \in I /\ Place(I, k) \in I /\ Rank(I, Place(I, n)) = n - 1 /\ Rank(I, Place(I, k)) = k - 1
    BY <1>3
  <2>2. CASE Place(I, n) = Place(I, k)
    BY <2>1, <2>2, <1>6
  <2>3. CASE Place(I, k) < Place(I, n)
    <3>1. Rank(I, Place(I, k)) < Rank(I, Place(I, n))
      BY <1>1, <2>1, <2>3, RankIsOrdered
    <3> QED
      BY <3>1, <2>1, <1>6
  <2>4. Place(I, n) \in Int /\ Place(I, k) \in Int
    BY <2>1, <1>1
  <2> QED
    BY <2>2, <2>3, <2>4
<1>7. ASSUME NEW i \in I PROVE \E n \in 1..Cardinality(I) : Place(I, n) = i
  <2>1. Rank(I, i) \in 0..(Cardinality(I) - 1)
    BY <1>1, RankIsBounded
  <2>2. Rank(I, i) + 1 \in 1..Cardinality(I)
    BY <2>1, <1>2
  <2> DEFINE k == Place(I, Rank(I, i) + 1)
  <2>3. k \in I /\ Rank(I, k) = Rank(I, i)
    BY <2>1, <2>2, <1>3
  <2>4. ~(k < i) /\ ~(i < k)
    <3> HIDE DEF k
    <3>1. Rank(I, k) \in Int
      BY <2>3, <2>1
    <3>2. CASE k < i
      BY <3>1, <3>2, <2>3, <1>1, RankIsOrdered
    <3>3. CASE i < k
      BY <3>1, <3>3, <2>3, <1>1, RankIsOrdered
    <3> QED BY <3>2, <3>3
  <2>5. k \in Int /\ i \in Int
    BY <2>3, <1>1
  <2>6. k = i
    BY <2>4, <2>5
  <2> QED
    BY <2>2, <2>6
<1> QED
  BY <1>2, <1>3, <1>5, <1>6, <1>7 DEF Sublist

-----------------------------------------------------------------------------
(* The head of a queue.                                                      *)

\* There is a first of some places.
LEMMA FirstPlace ==
    ASSUME NEW J \in SUBSET Int, IsFiniteSet(J), J # {}
    PROVE  Place(J, 1) \in J /\ \A j \in J : Place(J, 1) <= j
<1> DEFINE f == Place(J, 1)
<1>1. Cardinality(J) \in Nat /\ Cardinality(J) # 0
  BY FS_EmptySet, FS_CardinalityType
<1>2. 1 \in 1..Cardinality(J)
  BY <1>1
<1>3. f \in J /\ Rank(J, f) = 1 - 1
  BY <1>2, PlaceExists
<1> HIDE DEF f
<1>4. ASSUME NEW j \in J, j < f PROVE FALSE
  <2>1. Rank(J, j) < Rank(J, f) /\ Rank(J, j) \in 0..(Cardinality(J) - 1)
    BY <1>3, <1>4, RankIsOrdered, RankIsBounded
  <2> QED
    BY <1>3, <2>1
<1>5. \A j \in J : f <= j
  BY <1>3, <1>4
<1> QED
  BY <1>3, <1>5 DEF f

\* A loop over a queue ends: at the first place it does not pass, or at its end.
LEMMA LeadExists ==
    ASSUME NEW A, NEW s \in Seq(A), NEW I
    PROVE  /\ Lead(s, I) \in 0..Len(s) /\ \A i \in 1..Lead(s, I) : i \in I
           /\ Lead(s, I) < Len(s) => Lead(s, I) + 1 \notin I
<1> DEFINE J == (1..Len(s)) \ I
           Ends(k) == 1..k \subseteq I /\ (k < Len(s) => k + 1 \notin I)
<1>1. Len(s) \in Nat /\ J \in SUBSET Int /\ IsFiniteSet(J)
  <2>1. Len(s) \in Nat /\ Len(s) \in Int /\ 1 \in Int
    OBVIOUS
  <2>2. IsFiniteSet(1..Len(s)) /\ J \in SUBSET (1..Len(s)) /\ J \in SUBSET Int
    BY <2>1, FS_Interval
  <2>3. IsFiniteSet(J)
    <3> HIDE DEF J
    <3> QED BY <2>2, FS_Subset
  <2> QED
    BY <2>1, <2>2, <2>3
<1>2. \E k \in 0..Len(s) : Ends(k)
  <2>1. CASE J = {}
    <3>1. Ends(Len(s))
      BY <1>1, <2>1
    <3> QED
      BY <1>1, <3>1
  <2>2. CASE J # {}
    <3> DEFINE f == Place(J, 1)
    <3>1. f \in J /\ \A j \in J : f <= j
      <4> HIDE DEF J
      <4> QED BY <1>1, <2>2, FirstPlace
    <3> HIDE DEF f
    <3>2. f \in 1..Len(s) /\ f \notin I /\ \A i \in 1..Len(s) : i < f => i \in I
      BY <3>1
    <3>3. Ends(f - 1) /\ f - 1 \in 0..Len(s)
      BY <1>1, <3>2
    <3> QED
      BY <3>3
  <2> QED
    BY <2>1, <2>2
<1>3. Lead(s, I) \in 0..Len(s) /\ Ends(Lead(s, I))
  BY <1>2 DEF Lead
<1> QED
  BY <1>3

\* What it passes and what it leaves are the queue, cut where it stops.
LEMMA LeadingIs ==
    ASSUME NEW A, NEW s \in Seq(A), NEW I
    PROVE  LET h == Leading(s, I)
               t == After(s, h)
           IN  /\ h \in Seq(A) /\ t \in Seq(A) /\ Len(h) \in 0..Len(s) /\ Len(t) = Len(s) - Len(h)
               /\ \A i \in 1..Len(h) : h[i] = s[i] /\ i \in I
               /\ Len(h) < Len(s) => Len(h) + 1 \notin I
               /\ \A i \in 1..Len(t) : t[i] = s[Len(h) + i]
<1> DEFINE k == Lead(s, I)
           h == SubSeq(s, 1, k)
<1>1. /\ k \in 0..Len(s) /\ \A i \in 1..k : i \in I
      /\ k < Len(s) => k + 1 \notin I
  BY LeadExists
<1> HIDE DEF k
<1>2. h \in Seq(A) /\ Len(h) = k /\ \A i \in 1..k : h[i] = s[i]
  BY <1>1
<1> HIDE DEF h
<1> DEFINE t == SubSeq(s, k + 1, Len(s))
<1>3. t \in Seq(A) /\ Len(t) = Len(s) - k /\ \A i \in 1..Len(t) : t[i] = s[k + i]
  <2>1. k \in Nat /\ Len(s) \in Nat /\ k <= Len(s)
    BY <1>1
  <2>2. \A i \in (k + 1)..Len(s) : s[i] \in A
    BY <2>1
  <2> QED
    BY <2>1, <2>2
<1>4. Leading(s, I) = h /\ After(s, h) = t
  BY <1>2 DEF Leading, After, h, k
<1> HIDE DEF t
<1> QED
  BY <1>1, <1>2, <1>3, <1>4

-----------------------------------------------------------------------------
(* The order in which chunks are asked for.                                 *)

LEMMA DistanceIsInt ==
    ASSUME NEW c \in Int, NEW f \in Int
    PROVE  Distance(c, f) \in Int
  BY DEF Distance

\* A chunk's score is a number: one of its distances is the least.
LEMMA ScoreIsInt ==
    ASSUME NEW focus \in SUBSET Int, IsFiniteSet(focus), NEW c \in Int
    PROVE  Score(c, focus) \in Int
<1> DEFINE D == {Distance(c, f) : f \in focus}
           g == [f \in focus |-> Distance(c, f)]
<1>1. CASE focus = {}
  BY <1>1 DEF Score
<1>2. CASE focus # {}
  <2>1. D \subseteq Int
    BY DistanceIsInt
  <2>2. g \in Surjection(focus, D)
    BY DEF Surjection
  <2>3. IsFiniteSet(D)
    BY <2>2, FS_Surjection
  <2> HIDE DEF g
  <2>4. D # {}
    BY <1>2
  <2> HIDE DEF D
  <2>5. 1 \in 1..Cardinality(D)
    BY <2>3, <2>4, FS_EmptySet, FS_CardinalityType
  <2>6. Place(D, 1) \in D /\ Rank(D, Place(D, 1)) = 0
    BY <2>1, <2>3, <2>5, PlaceExists
  <2> DEFINE p == Place(D, 1)
             L == {j \in D : j < p}
  <2>7. Cardinality(L) = 0
    BY <2>6 DEF Rank
  <2>8. IsFiniteSet(L)
    BY <2>3, FS_Subset
  <2>9. L = {}
    BY <2>7, <2>8, FS_EmptySet
  <2>10. p \in D /\ \A f \in focus : p <= Distance(c, f)
    <3> SUFFICES ASSUME NEW f \in focus PROVE p <= Distance(c, f)
      BY <2>6
    <3>1. Distance(c, f) \in D
      BY DEF D
    <3>2. ~(Distance(c, f) < p)
      BY <2>9, <3>1
    <3>3. p \in Int /\ Distance(c, f) \in Int
      BY <2>1, <2>6, <3>1
    <3> HIDE DEF p
    <3> QED
      BY <3>2, <3>3
  <2> HIDE DEF p
  <2>11. Score(c, focus) = CHOOSE d \in D : \A f \in focus : d <= Distance(c, f)
    BY <1>2 DEF Score, D
  <2>12. Score(c, focus) \in D
    BY <2>10, <2>11
  <2> QED
    BY <2>1, <2>12
<1> QED
  BY <1>1, <1>2

\* The order is total, and no chunk is before itself.
LEMMA BeforeIsTotal ==
    ASSUME NEW focus \in SUBSET Int, IsFiniteSet(focus)
    PROVE  /\ \A c \in Int : ~Before(c, c, focus)
           /\ \A c, d \in Int : c # d => Before(c, d, focus) \/ Before(d, c, focus)
           /\ \A c, d, e \in Int : Before(c, d, focus) /\ Before(d, e, focus) => Before(c, e, focus)
<1>1. \A c \in Int : Score(c, focus) \in Int
  BY ScoreIsInt
<1> QED
  BY <1>1 DEF Before

\* How many of S are asked for before c.
Ahead(S, c, focus) == Cardinality({d \in S : Before(d, c, focus)})

LEMMA AheadIsBounded ==
    ASSUME NEW focus \in SUBSET Int, IsFiniteSet(focus),
           NEW S \in SUBSET Int, IsFiniteSet(S), NEW c \in S
    PROVE  Ahead(S, c, focus) \in 0..(Cardinality(S) - 1)
<1> DEFINE A == {d \in S : Before(d, c, focus)}
<1>1. A \in SUBSET S /\ c \notin A
  BY BeforeIsTotal
<1> HIDE DEF A
<1>2. IsFiniteSet(A) /\ Cardinality(A) <= Cardinality(S) /\ Cardinality(A) # Cardinality(S)
  BY <1>1, FS_Subset
<1>3. Cardinality(A) \in Nat /\ Cardinality(S) \in Nat
  BY <1>2, FS_CardinalityType
<1> QED
  BY <1>2, <1>3 DEF Ahead, A

LEMMA AheadIsOrdered ==
    ASSUME NEW focus \in SUBSET Int, IsFiniteSet(focus),
           NEW S \in SUBSET Int, IsFiniteSet(S), NEW c \in S, NEW d \in S,
           Before(c, d, focus)
    PROVE  Ahead(S, c, focus) < Ahead(S, d, focus)
<1> DEFINE A == {e \in S : Before(e, c, focus)}
           B == {e \in S : Before(e, d, focus)}
<1>1. A \in SUBSET B /\ c \in B /\ c \notin A /\ B \in SUBSET S
  BY BeforeIsTotal
<1> HIDE DEF A, B
<1>2. IsFiniteSet(B)
  BY <1>1, FS_Subset
<1>3. IsFiniteSet(A) /\ Cardinality(A) <= Cardinality(B) /\ Cardinality(A) # Cardinality(B)
  BY <1>1, <1>2, FS_Subset
<1>4. Cardinality(A) \in Nat /\ Cardinality(B) \in Nat
  BY <1>2, <1>3, FS_CardinalityType
<1> QED
  BY <1>3, <1>4 DEF Ahead, A, B

LEMMA AheadIsInjective ==
    ASSUME NEW focus \in SUBSET Int, IsFiniteSet(focus),
           NEW S \in SUBSET Int, IsFiniteSet(S), NEW c \in S, NEW d \in S, c # d
    PROVE  Ahead(S, c, focus) # Ahead(S, d, focus)
<1>1. Ahead(S, c, focus) \in Int /\ Ahead(S, d, focus) \in Int
  BY AheadIsBounded
<1>2. Before(c, d, focus) \/ Before(d, c, focus)
  BY BeforeIsTotal
<1>3. CASE Before(c, d, focus)
  BY <1>1, <1>3, AheadIsOrdered
<1>4. CASE Before(d, c, focus)
  BY <1>1, <1>4, AheadIsOrdered
<1> QED
  BY <1>2, <1>3, <1>4

\* A budget of k reaches no more than k chunks.
LEMMA NearestIsFew ==
    ASSUME NEW focus \in SUBSET Int, IsFiniteSet(focus),
           NEW S \in SUBSET Int, IsFiniteSet(S), NEW k \in Nat
    PROVE  /\ Nearest(S, k, focus) \in SUBSET S
           /\ IsFiniteSet(Nearest(S, k, focus))
           /\ Cardinality(Nearest(S, k, focus)) \in 0..k
<1> DEFINE N == Nearest(S, k, focus)
           g == [c \in N |-> Ahead(S, c, focus)]
           T == 0..(k - 1)
<1>1. N \in SUBSET S /\ \A c \in N : Ahead(S, c, focus) < k
  BY DEF Nearest, Ahead
<1> HIDE DEF N
<1>2. g \in [N -> T]
  BY <1>1, AheadIsBounded
<1>3. \A c, d \in N : g[c] = g[d] => c = d
  BY <1>1, AheadIsInjective
<1>4. g \in Injection(N, T)
  BY <1>2, <1>3 DEF Injection, IsInjective
<1> HIDE DEF g
<1>5. IsFiniteSet(T) /\ Cardinality(T) = k
  BY FS_Interval
<1> HIDE DEF T
<1>6. IsFiniteSet(N) /\ Cardinality(N) <= k
  BY <1>4, <1>5, FS_Injection
<1>7. Cardinality(N) \in Nat
  BY <1>6, FS_CardinalityType
<1> QED
  BY <1>1, <1>6, <1>7 DEF N

\* The chunks are asked for one by one, and none is left out.
LEMMA InOrderIsExact ==
    ASSUME NEW focus \in SUBSET Int, IsFiniteSet(focus),
           NEW S \in SUBSET Int, IsFiniteSet(S)
    PROVE  /\ Cardinality(S) \in Nat
           /\ \A n \in 1..Cardinality(S) : InOrder(S, focus)[n] \in S
           /\ \A c \in S : \E n \in 1..Cardinality(S) : InOrder(S, focus)[n] = c
           /\ \A n, k \in 1..Cardinality(S) :
                  InOrder(S, focus)[n] = InOrder(S, focus)[k] => n = k
<1> DEFINE T == 0..(Cardinality(S) - 1)
           g == [c \in S |-> Ahead(S, c, focus)]
           at(n) == InOrder(S, focus)[n]
<1>1. Cardinality(S) \in Nat
  BY FS_CardinalityType
<1>2. g \in [S -> T]
  BY AheadIsBounded
<1>3. \A c, d \in S : g[c] = g[d] => c = d
  BY AheadIsInjective
<1>4. g \in Injection(S, T)
  BY <1>2, <1>3 DEF Injection, IsInjective
<1>5. IsFiniteSet(T) /\ Cardinality(T) = Cardinality(S)
  BY <1>1, FS_Interval
<1>6. g \in Surjection(S, T)
  <2> HIDE DEF g, T
  <2> QED
    BY <1>4, <1>5, FS_Injection
<1>7. \A n \in 1..Cardinality(S) : at(n) \in S /\ Ahead(S, at(n), focus) = n - 1
  <2> SUFFICES ASSUME NEW n \in 1..Cardinality(S)
               PROVE  at(n) \in S /\ Ahead(S, at(n), focus) = n - 1
    OBVIOUS
  <2>1. n - 1 \in T
    BY <1>1
  <2>2. PICK c \in S : g[c] = n - 1
    BY <1>6, <2>1 DEF Surjection
  <2>3. Ahead(S, c, focus) = n - 1
    BY <2>2
  <2>4. at(n) = CHOOSE d \in S : Ahead(S, d, focus) = n - 1
    BY DEF InOrder, Ahead
  <2> HIDE DEF at
  <2> QED
    BY <2>3, <2>4
<1>8. \A c \in S : \E n \in 1..Cardinality(S) : at(n) = c
  <2> SUFFICES ASSUME NEW c \in S PROVE \E n \in 1..Cardinality(S) : at(n) = c
    OBVIOUS
  <2>1. Ahead(S, c, focus) + 1 \in 1..Cardinality(S)
    BY <1>1, AheadIsBounded
  <2> DEFINE n == Ahead(S, c, focus) + 1
  <2>2. at(n) \in S /\ Ahead(S, at(n), focus) = Ahead(S, c, focus)
    BY <1>7, <2>1, AheadIsBounded
  <2>3. at(n) = c
    BY <2>2, AheadIsInjective
  <2> QED
    BY <2>1, <2>3
<1>9. \A n, k \in 1..Cardinality(S) : at(n) = at(k) => n = k
  <2> SUFFICES ASSUME NEW n \in 1..Cardinality(S), NEW k \in 1..Cardinality(S), at(n) = at(k)
               PROVE  n = k
    OBVIOUS
  <2>1. Ahead(S, at(n), focus) = n - 1 /\ Ahead(S, at(k), focus) = k - 1
    BY <1>7
  <2> HIDE DEF at
  <2>2. n - 1 = k - 1
    BY <2>1
  <2> QED
    BY <1>1, <2>2
<1> QED
  BY <1>1, <1>7, <1>8, <1>9

-----------------------------------------------------------------------------
(* The reads a frame goes through.                                          *)

\* The places of the reads that have not ended, and the chunks that are told of.
Kept(rs, k) == (1..Len(rs)) \ Ended(rs, k)
Told(rs, k) == {rs[i].chunk : i \in LastOf(rs, k)}

LEMMA EndedIs ==
    ASSUME NEW R, NEW rs \in Seq(R), NEW k \in Nat
    PROVE  /\ Ended(rs, k) \in SUBSET (1..Len(rs)) /\ IsFiniteSet(Ended(rs, k))
           /\ Cardinality(Ended(rs, k)) \in Nat
<1>1. DOMAIN rs = 1..Len(rs) /\ Len(rs) \in Nat
  OBVIOUS
<1>2. IsFiniteSet(1..Len(rs))
  BY <1>1, FS_Interval
<1>3. Ended(rs, k) \in SUBSET (1..Len(rs))
  BY <1>1 DEF Ended
<1>4. IsFiniteSet(Ended(rs, k))
  BY <1>2, <1>3, FS_Subset
<1> QED
  BY <1>3, <1>4, FS_CardinalityType

\* Of every chunk a read of which has ended, one outcome is told.
LEMMA LastIsTold ==
    ASSUME NEW R, NEW rs \in Seq(R), NEW k \in Nat, NEW i \in Ended(rs, k)
    PROVE  rs[i].chunk \in Told(rs, k)
<1> DEFINE J == {j \in Ended(rs, k) : rs[j].chunk = rs[i].chunk}
           p == Place(J, Cardinality(J))
<1>1. J \in SUBSET Ended(rs, k) /\ i \in J
  OBVIOUS
<1>2. J \in SUBSET Int
  BY EndedIs
<1>3. IsFiniteSet(J)
  BY <1>1, EndedIs, FS_Subset
<1> HIDE DEF J
<1>4. Cardinality(J) \in 1..Cardinality(J)
  BY <1>1, <1>3, FS_EmptySet, FS_CardinalityType
<1>5. p \in J /\ Rank(J, p) = Cardinality(J) - 1
  BY <1>2, <1>3, <1>4, PlaceExists
<1> HIDE DEF p
<1>6. \A j \in J : ~(j > p)
  <2> SUFFICES ASSUME NEW j \in J, j > p PROVE FALSE
    OBVIOUS
  <2>1. j \in Int /\ p \in Int /\ p < j
    BY <1>2, <1>5
  <2>2. Rank(J, p) < Rank(J, j)
    BY <1>2, <1>3, <1>5, <2>1, RankIsOrdered
  <2>3. Rank(J, j) \in 0..(Cardinality(J) - 1)
    BY <1>2, <1>3, RankIsBounded
  <2> QED
    BY <1>4, <1>5, <2>2, <2>3
<1>7. p \in LastOf(rs, k)
  BY <1>5, <1>6 DEF LastOf, J
<1> QED
  BY <1>5, <1>7 DEF Told, J

\* The reads that have not ended stay, in their order.
LEMMA StillOutIs ==
    ASSUME NEW R, NEW rs \in Seq(R), NEW k \in Nat
    PROVE  LET o == StillOut(rs, k)
           IN  /\ o \in Seq(R) /\ Len(o) = Len(rs) - Cardinality(Ended(rs, k))
               /\ \A n \in 1..Len(o) : Place(Kept(rs, k), n) \in Kept(rs, k)
                                       /\ o[n] = rs[Place(Kept(rs, k), n)]
               /\ \A n, j \in 1..Len(o) :
                      Place(Kept(rs, k), n) = Place(Kept(rs, k), j) => n = j
               /\ \A i \in Kept(rs, k) : \E n \in 1..Len(o) : o[n] = rs[i]
<1> DEFINE I == Kept(rs, k)
           E == Ended(rs, k)
           o == StillOut(rs, k)
           at(n) == Place(I, n)
<1>1. DOMAIN rs = 1..Len(rs) /\ Len(rs) \in Nat
  OBVIOUS
<1>2. I \in SUBSET (1..Len(rs))
  BY DEF Kept
<1>3. o = Sublist(rs, I)
  BY <1>1 DEF StillOut, Kept
<1>4. Cardinality(I) = Len(rs) - Cardinality(E)
  <2> DEFINE N == 1..Len(rs)
  <2>1. IsFiniteSet(N) /\ Cardinality(N) = Len(rs)
    BY <1>1, FS_Interval
  <2>2. I = N \ E /\ N \cap E = E
    BY EndedIs DEF Kept
  <2> HIDE DEF N, E, I
  <2>3. Cardinality(N \ E) = Cardinality(N) - Cardinality(N \cap E)
    BY <2>1, FS_Difference
  <2> QED
    BY <2>1, <2>2, <2>3
<1> HIDE DEF I, E, o
<1>5. /\ o \in Seq(R) /\ Len(o) = Cardinality(I) /\ Cardinality(I) \in Nat
      /\ \A n \in 1..Cardinality(I) : at(n) \in I /\ o[n] = rs[at(n)]
  BY <1>2, <1>3, SublistIsExact
<1>6. \A n, j \in 1..Cardinality(I) : n < j => at(n) < at(j)
  BY <1>2, SublistIsExact
<1>7. \A i \in I : \E n \in 1..Cardinality(I) : at(n) = i
  BY <1>2, SublistIsExact
<1>8. \A n, j \in 1..Len(o) : at(n) = at(j) => n = j
  <2> SUFFICES ASSUME NEW n \in 1..Len(o), NEW j \in 1..Len(o), at(n) = at(j)
               PROVE  n = j
    OBVIOUS
  <2>1. n \in 1..Cardinality(I) /\ j \in 1..Cardinality(I)
    BY <1>5
  <2>2. at(n) \in Int /\ at(j) \in Int
    <3>1. at(n) \in I /\ at(j) \in I
      BY <1>5, <2>1
    <3>2. \A i \in I : i \in Int
      BY <1>1, <1>2
    <3> QED
      BY <3>1, <3>2
  <2>3. ~(n < j) /\ ~(j < n)
    BY <1>6, <2>1, <2>2
  <2> QED
    BY <2>1, <2>3
<1>9. \A i \in I : \E n \in 1..Len(o) : o[n] = rs[i]
  BY <1>5, <1>7
<1> QED
  BY <1>4, <1>5, <1>8, <1>9 DEF I, E, o

-----------------------------------------------------------------------------
(* Induction, over sets.                                                    *)

\* There is a least.
LEMMA LeastExists ==
    ASSUME NEW T \in SUBSET Nat, T # {}
    PROVE  \E x \in T : \A y \in T : x <= y
<1> DEFINE R == {ss \in Nat \X Nat : ss[1] < ss[2]}
<1>1. IsWellFoundedOn(R, Nat)
  BY NatLessThanWellFounded DEF OpToRel
<1>2. \A x, y \in Nat : <<y, x>> \in R <=> y < x
  OBVIOUS
<1> HIDE DEF R
<1>3. PICK x \in T : \A y \in T : ~(<<y, x>> \in R)
  BY <1>1, WFMin
<1>4. \A y \in T : ~(y < x)
  BY <1>2, <1>3
<1> QED
  BY <1>4

\* Induction over the numbers, and over lists: a set that holds the first and with each
\* the next holds them all.
LEMMA AllNumbers ==
    ASSUME NEW Q, 0 \in Q, \A n \in Nat : n \in Q => n + 1 \in Q
    PROVE  \A n \in Nat : n \in Q
<1> SUFFICES ASSUME Nat \ Q # {} PROVE FALSE
  OBVIOUS
<1>1. PICK x \in Nat \ Q : \A y \in Nat \ Q : x <= y
  BY LeastExists
<1>2. x - 1 \in Nat /\ x - 1 \in Q /\ (x - 1) + 1 = x
  <2>1. x # 0
    BY <1>1
  <2>2. x - 1 \in Nat
    BY <1>1, <2>1
  <2>3. ~(x <= x - 1)
    BY <1>1
  <2> QED
    BY <1>1, <2>2, <2>3
<1> QED
  BY <1>1, <1>2

LEMMA AllLists ==
    ASSUME NEW S, NEW Q, <<>> \in Q,
           \A s \in Seq(S) : \A e \in S : s \in Q => Append(s, e) \in Q
    PROVE  \A s \in Seq(S) : s \in Q
<1> DEFINE N == {n \in Nat : \A s \in Seq(S) : Len(s) = n => s \in Q}
<1>1. 0 \in N
  <2>1. \A s \in Seq(S) : Len(s) = 0 => s = <<>>
    OBVIOUS
  <2> QED
    BY <2>1
<1>2. ASSUME NEW n \in Nat, n \in N PROVE n + 1 \in N
  <2> SUFFICES ASSUME NEW s \in Seq(S), Len(s) = n + 1 PROVE s \in Q
    OBVIOUS
  <2> DEFINE t == SubSeq(s, 1, n)
  <2>1. t \in Seq(S) /\ Len(t) = n /\ s[n + 1] \in S
    OBVIOUS
  <2>2. s = Append(t, s[n + 1])
    <3>1. /\ Append(t, s[n + 1]) \in Seq(S) /\ Len(Append(t, s[n + 1])) = n + 1
          /\ \A i \in 1..(n + 1) : Append(t, s[n + 1])[i] = s[i]
      BY <2>1
    <3> HIDE DEF t
    <3> QED
      BY <3>1, SeqEqual
  <2> HIDE DEF t
  <2>3. t \in Q
    BY <1>2, <2>1
  <2> QED
    BY <2>1, <2>2, <2>3
<1> HIDE DEF N
<1>3. \A n \in Nat : n \in N
  BY <1>1, <1>2, AllNumbers
<1> QED
  BY <1>3 DEF N

-----------------------------------------------------------------------------
(* What is left of a list when something is put at its end.                  *)

LEMMA PlaceOfRank ==
    ASSUME NEW I \in SUBSET Int, IsFiniteSet(I), NEW i \in I
    PROVE  Rank(I, i) + 1 \in 1..Cardinality(I) /\ Place(I, Rank(I, i) + 1) = i
<1>1. Rank(I, i) \in 0..(Cardinality(I) - 1) /\ Cardinality(I) \in Nat
  BY RankIsBounded, FS_CardinalityType
<1>2. Rank(I, i) + 1 \in 1..Cardinality(I)
  BY <1>1
<1> DEFINE k == Place(I, Rank(I, i) + 1)
<1>3. k \in I /\ Rank(I, k) = Rank(I, i)
  BY <1>1, <1>2, PlaceExists
<1> HIDE DEF k
<1>4. ~(k < i) /\ ~(i < k)
  BY <1>1, <1>3, RankIsOrdered
<1>5. k = i
  BY <1>3, <1>4
<1> QED
  BY <1>2, <1>5 DEF k

\* The n-th place of I is what it was when places above all of I are added.
LEMMA PlaceBelow ==
    ASSUME NEW I \in SUBSET Int, IsFiniteSet(I), NEW m \in Int, \A i \in I : i < m
    PROVE  /\ Cardinality(I \cup {m}) = Cardinality(I) + 1 /\ Cardinality(I) \in Nat
           /\ \A n \in 1..Cardinality(I) : Place(I \cup {m}, n) = Place(I, n)
           /\ Place(I \cup {m}, Cardinality(I) + 1) = m
<1> DEFINE J == I \cup {m}
<1>1. m \notin I /\ J \in SUBSET Int /\ m \in J /\ I \subseteq J
  OBVIOUS
<1>2. IsFiniteSet(J) /\ Cardinality(J) = Cardinality(I) + 1 /\ Cardinality(I) \in Nat
  BY <1>1, FS_AddElement, FS_CardinalityType
<1>3. \A i \in I : Rank(J, i) = Rank(I, i)
  <2> SUFFICES ASSUME NEW i \in I PROVE Rank(J, i) = Rank(I, i)
    OBVIOUS
  <2>1. {j \in J : j < i} = {j \in I : j < i}
    BY <1>1
  <2> QED
    BY <2>1 DEF Rank
<1>4. Rank(J, m) = Cardinality(I)
  <2>1. \A j \in I \cup {m} : j < m <=> j \in I
    BY <1>1
  <2>2. {j \in J : j < m} = I
    BY <2>1
  <2> QED
    BY <2>2 DEF Rank
<1> HIDE DEF J
<1>5. ASSUME NEW n \in 1..Cardinality(I) PROVE Place(J, n) = Place(I, n)
  <2>1. Place(I, n) \in I /\ Rank(I, Place(I, n)) = n - 1
    BY PlaceExists
  <2>2. Place(J, (n - 1) + 1) = Place(I, n)
    BY <1>1, <1>2, <1>3, <2>1, PlaceOfRank
  <2> QED
    BY <2>2
<1>6. Place(J, Cardinality(I) + 1) = m
  BY <1>1, <1>2, <1>4, PlaceOfRank
<1> QED
  BY <1>2, <1>5, <1>6 DEF J

\* What is kept of a list, by the places.
OnlyPlaces(s, T) == Sublist(s, {i \in DOMAIN s : s[i] \in T})

LEMMA OnlyPlacesType ==
    ASSUME NEW S, NEW s \in Seq(S), NEW T
    PROVE  OnlyPlaces(s, T) \in Seq(S)
<1>1. {i \in DOMAIN s : s[i] \in T} \in SUBSET (1..Len(s))
  OBVIOUS
<1> QED
  BY <1>1, SublistIsExact DEF OnlyPlaces

LEMMA OnlyPlacesOfNone == ASSUME NEW T PROVE OnlyPlaces(<<>>, T) = <<>>
<1>1. {i \in DOMAIN <<>> : (<<>>)[i] \in T} = {}
  OBVIOUS
<1>2. Cardinality({}) = 0
  BY FS_EmptySet
<1> QED
  BY <1>1, <1>2 DEF OnlyPlaces, Sublist

LEMMA SublistAppend ==
    ASSUME NEW S, NEW s \in Seq(S), NEW e \in S, NEW T
    PROVE  OnlyPlaces(Append(s, e), T)
               = IF e \in T THEN Append(OnlyPlaces(s, T), e) ELSE OnlyPlaces(s, T)
<1> DEFINE t == Append(s, e)
           m == Len(s) + 1
           I == {i \in DOMAIN s : s[i] \in T}
           J == {i \in DOMAIN t : t[i] \in T}
<1>1. /\ t \in Seq(S) /\ Len(t) = m /\ t[m] = e /\ \A i \in 1..Len(s) : t[i] = s[i]
      /\ m \in Int /\ Len(s) \in Nat
  OBVIOUS
<1>2. /\ I \in SUBSET (1..Len(s)) /\ I \in SUBSET Int /\ IsFiniteSet(I)
      /\ \A i \in I : i < m /\ t[i] = s[i]
  <2>1. I \in SUBSET (1..Len(s)) /\ I \in SUBSET Int /\ \A i \in I : i < m /\ t[i] = s[i]
    BY <1>1
  <2>2. IsFiniteSet(1..Len(s))
    BY <1>1, FS_Interval
  <2> QED
    BY <2>1, <2>2, FS_Subset
<1>3. J = IF e \in T THEN I \cup {m} ELSE I
  <2>1. DOMAIN t = 1..m /\ DOMAIN s = 1..Len(s)
    BY <1>1
  <2>2. \A i \in Int : i \in 1..m <=> (i \in 1..Len(s) \/ i = m)
    BY <1>1
  <2>3. \A i : i \in J <=> (i \in I \/ (i = m /\ e \in T))
    BY <1>1, <2>1, <2>2
  <2> QED
    BY <2>3
<1> HIDE DEF I, J, m
<1>4. Cardinality(I) \in Nat /\ \A n \in 1..Cardinality(I) : Place(I, n) \in I
  BY <1>2, PlaceExists, FS_CardinalityType
<1>5. OnlyPlaces(s, T) = [n \in 1..Cardinality(I) |-> s[Place(I, n)]]
  BY DEF OnlyPlaces, Sublist, I
<1>6. OnlyPlaces(t, T) = [n \in 1..Cardinality(J) |-> t[Place(J, n)]]
  BY DEF OnlyPlaces, Sublist, J
<1>7. \A n \in 1..Cardinality(I) : t[Place(I, n)] = s[Place(I, n)]
  BY <1>2, <1>4
<1> HIDE DEF t
<1>8. CASE e \in T
  <2>1. /\ Cardinality(J) = Cardinality(I) + 1 /\ Place(J, Cardinality(I) + 1) = m
        /\ \A n \in 1..Cardinality(I) : Place(J, n) = Place(I, n)
    <3>1. J = I \cup {m}
      BY <1>3, <1>8
    <3> QED
      BY <3>1, <1>1, <1>2, PlaceBelow
  <2> DEFINE a == OnlyPlaces(s, T)  b == OnlyPlaces(t, T)  c == Append(a, e)
  <2>2. a \in Seq(S) /\ Len(a) = Cardinality(I) /\ b \in Seq(S) /\ Len(b) = Cardinality(I) + 1
    <3>1. a \in Seq(S) /\ b \in Seq(S)
      BY <1>1, OnlyPlacesType
    <3> QED
      BY <3>1, <1>4, <1>5, <1>6, <2>1
  <2>3. \A n \in 1..Cardinality(I) : a[n] = b[n]
    BY <1>4, <1>5, <1>6, <1>7, <2>1
  <2>4. b[Cardinality(I) + 1] = e
    BY <1>1, <1>4, <1>6, <2>1
  <2> HIDE DEF a, b
  <2>5. c \in Seq(S) /\ Len(c) = Len(b) /\ \A n \in 1..Len(c) : c[n] = b[n]
    BY <1>4, <2>2, <2>3, <2>4
  <2>6. c = b
    BY <2>2, <2>5, SeqEqual
  <2> QED
    BY <1>8, <2>6 DEF a, b, t
<1>9. CASE e \notin T
  BY <1>3, <1>5, <1>6, <1>7, <1>9 DEF t
<1> QED
  BY <1>8, <1>9

-----------------------------------------------------------------------------
(* The elements of a list that are in a set.                                 *)

\* What has been kept after each element.
KeepsTo(s, T, f) ==
    f = [n \in 0..Len(s) |-> IF n = 0 THEN <<>>
                             ELSE IF s[n] \in T THEN Append(f[n - 1], s[n]) ELSE f[n - 1]]

LEMMA KeptUnique ==
    ASSUME NEW S, NEW s \in Seq(S), NEW p \in Seq(S), NEW T, NEW f, NEW g, Len(s) <= Len(p),
           \A n \in 1..Len(s) : p[n] = s[n], KeepsTo(s, T, f), KeepsTo(p, T, g)
    PROVE  \A n \in 0..Len(s) : f[n] = g[n]
<1> DEFINE Q == {n \in Nat : n <= Len(s) => f[n] = g[n]}
<1>0. Len(s) \in Nat /\ Len(p) \in Nat
  OBVIOUS
<1>1. 0 \in Q
  BY <1>0 DEF KeepsTo
<1>2. ASSUME NEW n \in Nat, n \in Q PROVE n + 1 \in Q
  <2> SUFFICES ASSUME n + 1 <= Len(s) PROVE f[n + 1] = g[n + 1]
    OBVIOUS
  <2>1. n + 1 \in 0..Len(s) /\ n + 1 # 0 /\ n + 1 \in 0..Len(p) /\ (n + 1) - 1 = n /\ n <= Len(s)
    BY <1>0
  <2>2. f[n + 1] = IF s[n + 1] \in T THEN Append(f[n], s[n + 1]) ELSE f[n]
    BY <2>1 DEF KeepsTo
  <2>3. g[n + 1] = IF p[n + 1] \in T THEN Append(g[n], p[n + 1]) ELSE g[n]
    BY <2>1 DEF KeepsTo
  <2>4. f[n] = g[n] /\ p[n + 1] = s[n + 1]
    BY <1>2, <2>1
  <2> QED
    BY <2>2, <2>3, <2>4
<1> HIDE DEF Q
<1>3. \A n \in Nat : n \in Q
  BY <1>1, <1>2, AllNumbers
<1> QED
  BY <1>3 DEF Q

LEMMA KeptExists ==
    ASSUME NEW S, NEW T
    PROVE  \A s \in Seq(S) : \E f : KeepsTo(s, T, f)
<1> DEFINE Q == {s \in Seq(S) : \E f : KeepsTo(s, T, f)}
<1>1. <<>> \in Q
  <2>1. KeepsTo(<<>>, T, [n \in 0..0 |-> <<>>])
    BY DEF KeepsTo
  <2> QED
    BY <2>1
<1>2. ASSUME NEW s \in Seq(S), NEW e \in S, s \in Q PROVE Append(s, e) \in Q
  <2>1. PICK f : KeepsTo(s, T, f)
    BY <1>2
  <2> DEFINE m == Len(s) + 1
             last == IF e \in T THEN Append(f[Len(s)], e) ELSE f[Len(s)]
             g == [n \in 0..m |-> IF n = m THEN last ELSE f[n]]
             p == Append(s, e)
  <2>2. /\ p \in Seq(S) /\ Len(p) = m /\ p[m] = e /\ \A n \in 1..Len(s) : p[n] = s[n]
        /\ Len(s) \in Nat
    OBVIOUS
  <2> HIDE DEF p
  <2>3. \A n \in 0..m : g[n] = IF n = 0 THEN <<>>
                               ELSE IF p[n] \in T THEN Append(g[n - 1], p[n]) ELSE g[n - 1]
    <3> SUFFICES ASSUME NEW n \in 0..m
                 PROVE  g[n] = IF n = 0 THEN <<>>
                               ELSE IF p[n] \in T THEN Append(g[n - 1], p[n]) ELSE g[n - 1]
      OBVIOUS
    <3>1. CASE n = 0
      <4>1. f[0] = <<>>
        BY <2>1, <2>2 DEF KeepsTo
      <4> QED
        BY <3>1, <4>1, <2>2
    <3>2. CASE n = m
      <4>1. n # 0 /\ n - 1 = Len(s) /\ n - 1 # m /\ n - 1 \in 0..m
        BY <2>2, <3>2
      <4>2. g[n] = last /\ g[n - 1] = f[Len(s)] /\ p[n] = e
        BY <2>2, <3>2, <4>1
      <4> HIDE DEF g
      <4> QED
        BY <4>1, <4>2
    <3>3. CASE n \in 1..Len(s)
      <4>1. f[n] = IF s[n] \in T THEN Append(f[n - 1], s[n]) ELSE f[n - 1]
        <5>1. n \in 0..Len(s) /\ n # 0
          BY <2>2, <3>3
        <5> HIDE DEF g, last
        <5> QED
          BY <2>1, <5>1 DEF KeepsTo
      <4>2. n - 1 \in 0..m /\ n - 1 # m /\ n # m /\ n # 0
        BY <2>2, <3>3
      <4>3. g[n] = f[n] /\ g[n - 1] = f[n - 1] /\ p[n] = s[n]
        BY <2>2, <3>3, <4>2
      <4> HIDE DEF g
      <4> QED
        BY <4>1, <4>2, <4>3
    <3> QED
      BY <2>2, <3>1, <3>2, <3>3
  <2>4. KeepsTo(p, T, g)
    <3>1. g = [n \in 0..m |-> g[n]]
      OBVIOUS
    <3> HIDE DEF g
    <3> QED
      BY <2>2, <2>3, <3>1 DEF KeepsTo
  <2> QED
    BY <2>2, <2>4 DEF p
<1> HIDE DEF Q
<1>3. \A s \in Seq(S) : s \in Q
  BY <1>1, <1>2, AllLists
<1> QED
  BY <1>3 DEF Q

LEMMA OnlyIs ==
    ASSUME NEW S, NEW s \in Seq(S), NEW T
    PROVE  \E f : KeepsTo(s, T, f) /\ Only(s, T) = f[Len(s)]
<1> DEFINE f == CHOOSE f : KeepsTo(s, T, f)
<1>1. KeepsTo(s, T, f)
  BY KeptExists
<1>2. Only(s, T) = f[Len(s)]
  BY DEF Only, KeepsTo
<1> QED
  BY <1>1, <1>2

LEMMA OnlyOfNone == ASSUME NEW T PROVE Only(<<>>, T) = <<>>
<1>1. <<>> \in Seq({}) /\ Len(<<>>) = 0
  OBVIOUS
<1>2. PICK f : KeepsTo(<<>>, T, f) /\ Only(<<>>, T) = f[Len(<<>>)]
  BY <1>1, OnlyIs
<1> QED
  BY <1>1, <1>2 DEF KeepsTo

LEMMA OnlyAppend ==
    ASSUME NEW S, NEW s \in Seq(S), NEW e \in S, NEW T
    PROVE  Only(Append(s, e), T) = IF e \in T THEN Append(Only(s, T), e) ELSE Only(s, T)
<1> DEFINE p == Append(s, e)
<1>1. /\ p \in Seq(S) /\ Len(p) = Len(s) + 1 /\ p[Len(s) + 1] = e
      /\ \A n \in 1..Len(s) : p[n] = s[n]
      /\ Len(s) \in Nat
  OBVIOUS
<1> HIDE DEF p
<1>2. PICK f : KeepsTo(s, T, f) /\ Only(s, T) = f[Len(s)]
  BY OnlyIs
<1>3. PICK g : KeepsTo(p, T, g) /\ Only(p, T) = g[Len(p)]
  BY <1>1, OnlyIs
<1>4. f[Len(s)] = g[Len(s)]
  <2>1. Len(s) \in 0..Len(s) /\ Len(s) <= Len(p)
    BY <1>1
  <2> QED
    BY <2>1, <1>1, <1>2, <1>3, KeptUnique
<1>5. g[Len(s) + 1] = IF e \in T THEN Append(g[Len(s)], e) ELSE g[Len(s)]
  <2>1. Len(s) + 1 \in 0..Len(p) /\ Len(s) + 1 # 0 /\ (Len(s) + 1) - 1 = Len(s)
    BY <1>1
  <2> QED
    BY <2>1, <1>1, <1>3 DEF KeepsTo
<1> QED
  BY <1>1, <1>2, <1>3, <1>4, <1>5 DEF p

LEMMA OnlyType ==
    ASSUME NEW S, NEW T
    PROVE  \A s \in Seq(S) : Only(s, T) \in Seq(S)
<1> DEFINE Q == {s \in Seq(S) : Only(s, T) \in Seq(S)}
<1>1. <<>> \in Q
  <2>1. <<>> \in Seq(S)
    OBVIOUS
  <2> QED
    BY <2>1, OnlyOfNone
<1>2. ASSUME NEW s \in Seq(S), NEW e \in S, s \in Q PROVE Append(s, e) \in Q
  <2>1. Only(s, T) \in Seq(S) /\ Append(s, e) \in Seq(S)
    BY <1>2
  <2>2. Only(Append(s, e), T) = IF e \in T THEN Append(Only(s, T), e) ELSE Only(s, T)
    BY OnlyAppend
  <2>3. Only(Append(s, e), T) \in Seq(S)
    BY <2>1, <2>2
  <2> QED
    BY <2>1, <2>3
<1> HIDE DEF Q
<1>3. \A s \in Seq(S) : s \in Q
  BY <1>1, <1>2, AllLists
<1> QED
  BY <1>3 DEF Q

\* The loop that keeps some of a vector leaves the same.
LEMMA OnlyIsSublist ==
    ASSUME NEW S, NEW T
    PROVE  \A s \in Seq(S) : OnlyPlaces(s, T) = Only(s, T)
<1> DEFINE Q == {s \in Seq(S) : OnlyPlaces(s, T) = Only(s, T)}
<1>1. <<>> \in Q
  <2>1. <<>> \in Seq(S)
    OBVIOUS
  <2> QED
    BY <2>1, OnlyOfNone, OnlyPlacesOfNone
<1>2. ASSUME NEW s \in Seq(S), NEW e \in S, s \in Q PROVE Append(s, e) \in Q
  <2>1. OnlyPlaces(s, T) = Only(s, T) /\ Append(s, e) \in Seq(S)
    BY <1>2
  <2>2. Only(Append(s, e), T) = IF e \in T THEN Append(Only(s, T), e) ELSE Only(s, T)
    BY OnlyAppend
  <2>3. OnlyPlaces(Append(s, e), T)
          = IF e \in T THEN Append(OnlyPlaces(s, T), e) ELSE OnlyPlaces(s, T)
    BY SublistAppend
  <2>4. OnlyPlaces(Append(s, e), T) = Only(Append(s, e), T)
    BY <2>1, <2>2, <2>3
  <2> QED
    BY <2>1, <2>4
<1> HIDE DEF Q
<1>3. \A s \in Seq(S) : s \in Q
  BY <1>1, <1>2, AllLists
<1> QED
  BY <1>3 DEF Q

LEMMA AppendConcat ==
    ASSUME NEW S
    PROVE  \A a, b \in Seq(S) : \A e \in S : Append(a \o b, e) = a \o Append(b, e)
  OBVIOUS

\* What is kept of two lists is what is kept of each.
LEMMA OnlyConcat ==
    ASSUME NEW S, NEW s \in Seq(S), NEW T
    PROVE  \A t \in Seq(S) : Only(s \o t, T) = Only(s, T) \o Only(t, T)
<1> DEFINE Q == {t \in Seq(S) : Only(s \o t, T) = Only(s, T) \o Only(t, T)}
<1>1. <<>> \in Q
  <2>1. Only(s, T) \in Seq(S)
    BY OnlyType
  <2> QED
    BY <2>1, OnlyOfNone
<1>a. \A x, y \in Seq(S) : \A z \in S : Append(x \o y, z) = x \o Append(y, z)
  OBVIOUS
<1>2. ASSUME NEW t \in Seq(S), NEW e \in S, t \in Q PROVE Append(t, e) \in Q
  <2>0. \A x, y \in Seq(S) : Append(x \o y, e) = x \o Append(y, e)
    BY <1>a
  <2>1. s \o Append(t, e) = Append(s \o t, e) /\ s \o t \in Seq(S) /\ Append(t, e) \in Seq(S)
    BY AppendConcat
  <2>2. Only(s, T) \in Seq(S) /\ Only(t, T) \in Seq(S)
    BY OnlyType
  <2>3. Append(Only(s, T) \o Only(t, T), e) = Only(s, T) \o Append(Only(t, T), e)
    <3> DEFINE a == Only(s, T)  b == Only(t, T)
    <3>1. a \in Seq(S) /\ b \in Seq(S)
      BY <2>2
    <3> HIDE DEF a, b
    <3>2. Append(a \o b, e) = a \o Append(b, e)
      BY <3>1, <2>0
    <3> QED
      BY <3>2 DEF a, b
  <2>4. Only(s \o t, T) = Only(s, T) \o Only(t, T)
    BY <1>2
  <2>5. Only(Append(t, e), T) = IF e \in T THEN Append(Only(t, T), e) ELSE Only(t, T)
    BY OnlyAppend
  <2>6. Only(Append(s \o t, e), T)
          = IF e \in T THEN Append(Only(s \o t, T), e) ELSE Only(s \o t, T)
    BY <2>1, OnlyAppend
  <2> QED
    BY <2>1, <2>3, <2>4, <2>5, <2>6
<1> HIDE DEF Q
<1>3. \A t \in Seq(S) : t \in Q
  BY <1>1, <1>2, AllLists
<1> QED
  BY <1>3 DEF Q

\* What is kept of what is kept is what is in both sets.
LEMMA OnlyTwice ==
    ASSUME NEW S, NEW T, NEW U
    PROVE  \A s \in Seq(S) : Only(Only(s, T), U) = Only(s, T \cap U)
<1> DEFINE Q == {s \in Seq(S) : Only(Only(s, T), U) = Only(s, T \cap U)}
<1>1. <<>> \in Q
  BY OnlyOfNone
<1>2. ASSUME NEW s \in Seq(S), NEW e \in S, s \in Q PROVE Append(s, e) \in Q
  <2>1. Only(s, T) \in Seq(S) /\ Append(s, e) \in Seq(S) /\ Only(Only(s, T), U) = Only(s, T \cap U)
    BY <1>2, OnlyType
  <2>2. Only(Append(s, e), T) = IF e \in T THEN Append(Only(s, T), e) ELSE Only(s, T)
    BY OnlyAppend
  <2>3. Only(Append(s, e), T \cap U)
          = IF e \in T \cap U THEN Append(Only(s, T \cap U), e) ELSE Only(s, T \cap U)
    BY OnlyAppend
  <2>4. Only(Append(Only(s, T), e), U)
          = IF e \in U THEN Append(Only(Only(s, T), U), e) ELSE Only(Only(s, T), U)
    BY <2>1, OnlyAppend
  <2>5. Only(Only(Append(s, e), T), U) = Only(Append(s, e), T \cap U)
    <3>1. CASE e \notin T
      BY <2>1, <2>2, <2>3, <3>1
    <3>2. CASE e \in T /\ e \notin U
      BY <2>1, <2>2, <2>3, <2>4, <3>2
    <3>3. CASE e \in T /\ e \in U
      BY <2>1, <2>2, <2>3, <2>4, <3>3
    <3> QED
      BY <3>1, <3>2, <3>3
  <2> QED
    BY <2>1, <2>5
<1> HIDE DEF Q
<1>3. \A s \in Seq(S) : s \in Q
  BY <1>1, <1>2, AllLists
<1> QED
  BY <1>3 DEF Q

\* A list whose elements are all in the set is kept as it is.
LEMMA OnlyAll ==
    ASSUME NEW S, NEW s \in Seq(S), NEW T, \A i \in 1..Len(s) : s[i] \in T
    PROVE  Only(s, T) = s
<1> DEFINE Q == {t \in Seq(S) : (\A i \in 1..Len(t) : t[i] \in T) => Only(t, T) = t}
<1>1. <<>> \in Q
  BY OnlyOfNone
<1>2. ASSUME NEW t \in Seq(S), NEW e \in S, t \in Q PROVE Append(t, e) \in Q
  <2> SUFFICES ASSUME \A i \in 1..Len(Append(t, e)) : Append(t, e)[i] \in T
               PROVE  Only(Append(t, e), T) = Append(t, e)
    <3>1. Append(t, e) \in Seq(S)
      OBVIOUS
    <3> QED
      BY <3>1
  <2>1. e \in T /\ \A i \in 1..Len(t) : t[i] \in T
    <3>1. Len(t) + 1 \in 1..Len(Append(t, e)) /\ Append(t, e)[Len(t) + 1] = e
      OBVIOUS
    <3>2. \A i \in 1..Len(t) : i \in 1..Len(Append(t, e)) /\ Append(t, e)[i] = t[i]
      OBVIOUS
    <3> QED
      BY <3>1, <3>2
  <2>2. Only(t, T) = t
    BY <1>2, <2>1
  <2> QED
    BY <2>1, <2>2, OnlyAppend
<1> HIDE DEF Q
<1>3. \A t \in Seq(S) : t \in Q
  BY <1>1, <1>2, AllLists
<1> QED
  BY <1>3 DEF Q

\* Only what is in the list matters.
LEMMA OnlySame ==
    ASSUME NEW S, NEW s \in Seq(S), NEW T, NEW U, \A i \in 1..Len(s) : s[i] \in T <=> s[i] \in U
    PROVE  Only(s, T) = Only(s, U)
<1>1. {i \in DOMAIN s : s[i] \in T} = {i \in DOMAIN s : s[i] \in U}
  OBVIOUS
<1>2. OnlyPlaces(s, T) = OnlyPlaces(s, U)
  BY <1>1 DEF OnlyPlaces
<1> QED
  BY <1>2, OnlyIsSublist

\* What is kept is in the list and in the set.
LEMMA OnlyMembers ==
    ASSUME NEW S, NEW s \in Seq(S), NEW T
    PROVE  \A n \in 1..Len(Only(s, T)) :
               \E i \in 1..Len(s) : Only(s, T)[n] = s[i] /\ s[i] \in T
<1> DEFINE I == {i \in DOMAIN s : s[i] \in T}
<1>1. I \in SUBSET (1..Len(s)) /\ Only(s, T) = Sublist(s, I) /\ \A i \in I : s[i] \in T
  <2>1. OnlyPlaces(s, T) = Only(s, T)
    BY OnlyIsSublist
  <2> QED
    BY <2>1 DEF OnlyPlaces
<1> HIDE DEF I
<1>2. Len(Sublist(s, I)) = Cardinality(I)
      /\ \A n \in 1..Cardinality(I) : Place(I, n) \in I /\ Sublist(s, I)[n] = s[Place(I, n)]
  BY <1>1, SublistIsExact
<1> QED
  BY <1>1, <1>2

-----------------------------------------------------------------------------
(* Lists one behind the other.                                               *)

\* What Joined has put together after each of its lists.
JoinsTo(q, f) == f = [n \in 0..Len(q) |-> IF n = 0 THEN <<>> ELSE f[n - 1] \o q[n]]

\* The join of q exists, for every q, and is unique.
LEMMA JoinUnique ==
    ASSUME NEW S, NEW q \in Seq(S), NEW f, NEW g, NEW p \in Seq(S), Len(q) <= Len(p),
           \A n \in 1..Len(q) : p[n] = q[n], JoinsTo(q, f), JoinsTo(p, g)
    PROVE  \A n \in 0..Len(q) : f[n] = g[n]
<1> DEFINE Q == {n \in Nat : n <= Len(q) => f[n] = g[n]}
<1>0. Len(q) \in Nat /\ Len(p) \in Nat
  OBVIOUS
<1>1. 0 \in Q
  BY <1>0 DEF JoinsTo
<1>2. ASSUME NEW n \in Nat, n \in Q PROVE n + 1 \in Q
  <2> SUFFICES ASSUME n + 1 <= Len(q) PROVE f[n + 1] = g[n + 1]
    OBVIOUS
  <2>1. n + 1 \in 0..Len(q) /\ n + 1 # 0 /\ n + 1 \in 0..Len(p) /\ (n + 1) - 1 = n /\ n <= Len(q)
    BY <1>0
  <2>2. f[n + 1] = f[n] \o q[n + 1]
    BY <2>1 DEF JoinsTo
  <2>3. g[n + 1] = g[n] \o p[n + 1]
    BY <2>1 DEF JoinsTo
  <2>4. f[n] = g[n] /\ p[n + 1] = q[n + 1]
    BY <1>2, <2>1
  <2> QED
    BY <2>2, <2>3, <2>4
<1> HIDE DEF Q
<1>3. \A n \in Nat : n \in Q
  BY <1>1, <1>2, AllNumbers
<1> QED
  BY <1>3 DEF Q

LEMMA JoinExists ==
    ASSUME NEW S
    PROVE  \A q \in Seq(S) : \E f : JoinsTo(q, f)
<1> DEFINE Q == {q \in Seq(S) : \E f : JoinsTo(q, f)}
<1>1. <<>> \in Q
  <2>1. JoinsTo(<<>>, [n \in 0..0 |-> <<>>])
    BY DEF JoinsTo
  <2> QED
    BY <2>1
<1>2. ASSUME NEW q \in Seq(S), NEW e \in S, q \in Q PROVE Append(q, e) \in Q
  <2>1. PICK f : JoinsTo(q, f)
    BY <1>2
  <2> DEFINE m == Len(q) + 1
             g == [n \in 0..m |-> IF n = m THEN f[Len(q)] \o e ELSE f[n]]
  <2>2. /\ Append(q, e) \in Seq(S) /\ Len(Append(q, e)) = m /\ Append(q, e)[m] = e
        /\ \A n \in 1..Len(q) : Append(q, e)[n] = q[n]
        /\ Len(q) \in Nat
    OBVIOUS
  <2>3. \A n \in 0..m : g[n] = IF n = 0 THEN <<>> ELSE g[n - 1] \o Append(q, e)[n]
    <3> SUFFICES ASSUME NEW n \in 0..m
                 PROVE  g[n] = IF n = 0 THEN <<>> ELSE g[n - 1] \o Append(q, e)[n]
      OBVIOUS
    <3>1. CASE n = 0
      <4>1. f[0] = <<>>
        BY <2>1, <2>2 DEF JoinsTo
      <4> QED
        BY <3>1, <4>1, <2>2
    <3>2. CASE n = m
      <4>1. n # 0 /\ n - 1 = Len(q) /\ n - 1 # m /\ n - 1 \in 0..m
        BY <2>2, <3>2
      <4>2. g[n] = f[Len(q)] \o e /\ g[n - 1] = f[n - 1] /\ Append(q, e)[n] = e
        BY <2>2, <3>2, <4>1
      <4> QED
        BY <4>1, <4>2
    <3>3. CASE n \in 1..Len(q)
      <4>1. f[n] = f[n - 1] \o q[n]
        BY <2>1, <2>2, <3>3 DEF JoinsTo
      <4>2. n - 1 \in 0..m /\ n - 1 # m /\ n # m /\ n # 0
        BY <2>2, <3>3
      <4>3. g[n] = f[n] /\ g[n - 1] = f[n - 1] /\ Append(q, e)[n] = q[n]
        BY <2>2, <3>3, <4>2
      <4> QED
        BY <4>1, <4>2, <4>3
    <3> QED
      BY <2>2, <3>1, <3>2, <3>3
  <2>4. JoinsTo(Append(q, e), g)
    <3>1. g = [n \in 0..m |-> g[n]]
      OBVIOUS
    <3> HIDE DEF g
    <3> QED
      BY <2>2, <2>3, <3>1 DEF JoinsTo
  <2> QED
    BY <2>2, <2>4
<1> HIDE DEF Q
<1>3. \A q \in Seq(S) : q \in Q
  BY <1>1, <1>2, AllLists
<1> QED
  BY <1>3 DEF Q

LEMMA JoinedIs ==
    ASSUME NEW S, NEW q \in Seq(S)
    PROVE  \E f : JoinsTo(q, f) /\ Joined(q) = f[Len(q)]
<1> DEFINE f == CHOOSE f : JoinsTo(q, f)
<1>1. JoinsTo(q, f)
  BY JoinExists
<1>2. Joined(q) = f[Len(q)]
  BY DEF Joined, JoinsTo
<1> QED
  BY <1>1, <1>2

LEMMA JoinedNone == Joined(<<>>) = <<>>
<1>1. <<>> \in Seq({}) /\ Len(<<>>) = 0
  OBVIOUS
<1>2. PICK f : JoinsTo(<<>>, f) /\ Joined(<<>>) = f[Len(<<>>)]
  BY <1>1, JoinedIs
<1> QED
  BY <1>1, <1>2 DEF JoinsTo

LEMMA JoinedAppend ==
    ASSUME NEW S, NEW q \in Seq(S), NEW e \in S
    PROVE  Joined(Append(q, e)) = Joined(q) \o e
<1> DEFINE p == Append(q, e)
<1>1. /\ p \in Seq(S) /\ Len(p) = Len(q) + 1 /\ p[Len(q) + 1] = e
      /\ \A n \in 1..Len(q) : p[n] = q[n]
      /\ Len(q) \in Nat
  OBVIOUS
<1> HIDE DEF p
<1>2. PICK f : JoinsTo(q, f) /\ Joined(q) = f[Len(q)]
  BY JoinedIs
<1>3. PICK g : JoinsTo(p, g) /\ Joined(p) = g[Len(p)]
  BY <1>1, JoinedIs
<1>4. f[Len(q)] = g[Len(q)]
  <2>1. Len(q) \in 0..Len(q) /\ Len(q) <= Len(p)
    BY <1>1
  <2> QED
    BY <2>1, <1>1, <1>2, <1>3, JoinUnique
<1>5. g[Len(q) + 1] = g[Len(q)] \o e
  <2>1. Len(q) + 1 \in 0..Len(p) /\ Len(q) + 1 # 0 /\ (Len(q) + 1) - 1 = Len(q)
    BY <1>1
  <2> QED
    BY <2>1, <1>1, <1>3 DEF JoinsTo
<1> QED
  BY <1>1, <1>2, <1>3, <1>4, <1>5 DEF p

LEMMA JoinedType ==
    ASSUME NEW S
    PROVE  \A q \in Seq(Seq(S)) : Joined(q) \in Seq(S)
<1> DEFINE Q == {q \in Seq(Seq(S)) : Joined(q) \in Seq(S)}
<1>1. <<>> \in Q
  <2>1. <<>> \in Seq(S) /\ <<>> \in Seq(Seq(S))
    OBVIOUS
  <2> QED
    BY <2>1, JoinedNone
<1>2. ASSUME NEW q \in Seq(Seq(S)), NEW e \in Seq(S), q \in Q PROVE Append(q, e) \in Q
  <2>1. Joined(Append(q, e)) = Joined(q) \o e /\ Joined(q) \in Seq(S)
    BY <1>2, JoinedAppend
  <2>2. Joined(q) \o e \in Seq(S) /\ Append(q, e) \in Seq(Seq(S))
    BY <2>1
  <2> QED
    BY <2>1, <2>2
<1> HIDE DEF Q
<1>3. \A q \in Seq(Seq(S)) : q \in Q
  BY <1>1, <1>2, AllLists
<1> QED
  BY <1>3 DEF Q

\* Two queues, one behind the other.
LEMMA JoinedConcat ==
    ASSUME NEW S, NEW p \in Seq(Seq(S))
    PROVE  \A q \in Seq(Seq(S)) : Joined(p \o q) = Joined(p) \o Joined(q)
<1> DEFINE Q == {q \in Seq(Seq(S)) : Joined(p \o q) = Joined(p) \o Joined(q)}
<1>0. Joined(p) \in Seq(S)
  BY JoinedType
<1>1. <<>> \in Q
  <2>1. Joined(p) \o <<>> = Joined(p) /\ p \o <<>> = p /\ <<>> \in Seq(Seq(S))
    BY <1>0
  <2> QED
    BY <2>1, JoinedNone
<1>2. ASSUME NEW q \in Seq(Seq(S)), NEW e \in Seq(S), q \in Q PROVE Append(q, e) \in Q
  <2>1. p \o Append(q, e) = Append(p \o q, e) /\ p \o q \in Seq(Seq(S))
    BY AppendConcat
  <2>2. Joined(q) \in Seq(S) /\ Joined(p \o q) = Joined(p) \o Joined(q)
    BY <1>2, JoinedType
  <2>3. Joined(Append(p \o q, e)) = Joined(p \o q) \o e
    BY <2>1, JoinedAppend
  <2>4. Joined(Append(q, e)) = Joined(q) \o e
    BY JoinedAppend
  <2>5. (Joined(p) \o Joined(q)) \o e = Joined(p) \o (Joined(q) \o e)
    BY <1>0, <2>2, ConcatAssociative
  <2>6. Joined(p \o Append(q, e)) = Joined(p) \o Joined(Append(q, e))
    BY <2>1, <2>2, <2>3, <2>4, <2>5
  <2>7. Append(q, e) \in Seq(Seq(S))
    OBVIOUS
  <2> QED
    BY <2>6, <2>7
<1> HIDE DEF Q
<1>3. \A q \in Seq(Seq(S)) : q \in Q
  BY <1>1, <1>2, AllLists
<1> QED
  BY <1>3 DEF Q

LEMMA JoinedOne ==
    ASSUME NEW S, NEW e \in Seq(S)
    PROVE  Joined(<<e>>) = e
<1>1. <<e>> = Append(<<>>, e) /\ <<>> \in Seq(Seq(S)) /\ <<>> \o e = e
  OBVIOUS
<1> QED
  BY <1>1, JoinedAppend, JoinedNone

\* What stands in one of them stands in the line.
LEMMA JoinedMembers ==
    ASSUME NEW S
    PROVE  \A q \in Seq(Seq(S)) : \A i \in 1..Len(q) : \A k \in 1..Len(q[i]) :
               \E n \in 1..Len(Joined(q)) : Joined(q)[n] = q[i][k]
<1> DEFINE In(q) == \A i \in 1..Len(q) : \A k \in 1..Len(q[i]) :
                        \E n \in 1..Len(Joined(q)) : Joined(q)[n] = q[i][k]
           Q == {q \in Seq(Seq(S)) : In(q)}
<1>1. <<>> \in Q
  OBVIOUS
<1>2. ASSUME NEW q \in Seq(Seq(S)), NEW e \in Seq(S), q \in Q PROVE Append(q, e) \in Q
  <2> DEFINE p == Append(q, e)
             a == Joined(q)
             b == Joined(p)
  <2>1. /\ p \in Seq(Seq(S)) /\ Len(p) = Len(q) + 1 /\ p[Len(q) + 1] = e
        /\ \A i \in 1..Len(q) : p[i] = q[i]
        /\ Len(q) \in Nat
    OBVIOUS
  <2>2. b = a \o e /\ a \in Seq(S)
    BY JoinedAppend, JoinedType
  <2> HIDE DEF p, a, b
  <2>3. /\ Len(b) = Len(a) + Len(e) /\ Len(a) \in Nat /\ Len(e) \in Nat
        /\ \A n \in 1..Len(a) : b[n] = a[n]
        /\ \A n \in 1..Len(e) : b[Len(a) + n] = e[n]
    BY <2>2
  <2>4. In(p)
    <3> SUFFICES ASSUME NEW i \in 1..Len(p), NEW k \in 1..Len(p[i])
                 PROVE  \E n \in 1..Len(b) : b[n] = p[i][k]
      BY DEF b
    <3>1. CASE i = Len(q) + 1
      <4>1. p[i] = e /\ k \in 1..Len(e) /\ Len(a) + k \in 1..Len(b)
        BY <2>1, <2>3, <3>1
      <4> QED
        BY <2>3, <4>1
    <3>2. CASE i \in 1..Len(q)
      <4>1. p[i] = q[i] /\ k \in 1..Len(q[i])
        BY <2>1, <3>2
      <4>2. PICK n \in 1..Len(a) : a[n] = q[i][k]
        BY <1>2, <3>2, <4>1 DEF a
      <4>3. n \in 1..Len(b) /\ b[n] = a[n]
        BY <2>3
      <4> QED
        BY <4>1, <4>2, <4>3
    <3> QED
      BY <2>1, <3>1, <3>2
  <2> QED
    BY <2>1, <2>4 DEF p
<1> HIDE DEF Q
<1>3. \A q \in Seq(Seq(S)) : q \in Q
  BY <1>1, <1>2, AllLists
<1> QED
  BY <1>3 DEF Q

\* What stands in the line stands in one of them.
LEMMA JoinedFrom ==
    ASSUME NEW S
    PROVE  \A q \in Seq(Seq(S)) : \A n \in 1..Len(Joined(q)) :
               \E i \in 1..Len(q) : \E k \in 1..Len(q[i]) : Joined(q)[n] = q[i][k]
<1> DEFINE From(q) == \A n \in 1..Len(Joined(q)) :
                          \E i \in 1..Len(q) : \E k \in 1..Len(q[i]) : Joined(q)[n] = q[i][k]
           Q == {q \in Seq(Seq(S)) : From(q)}
<1>1. <<>> \in Q
  <2>1. Len(Joined(<<>>)) = 0
    BY JoinedNone
  <2> QED
    BY <2>1
<1>2. ASSUME NEW q \in Seq(Seq(S)), NEW e \in Seq(S), q \in Q PROVE Append(q, e) \in Q
  <2> DEFINE p == Append(q, e)
             a == Joined(q)
             b == Joined(p)
  <2>1. /\ p \in Seq(Seq(S)) /\ Len(p) = Len(q) + 1 /\ p[Len(q) + 1] = e
        /\ \A i \in 1..Len(q) : p[i] = q[i]
        /\ Len(q) \in Nat
    OBVIOUS
  <2>2. b = a \o e /\ a \in Seq(S)
    BY JoinedAppend, JoinedType
  <2> HIDE DEF p, a, b
  <2>3. /\ Len(b) = Len(a) + Len(e) /\ Len(a) \in Nat /\ Len(e) \in Nat
        /\ \A n \in 1..Len(a) : b[n] = a[n]
        /\ \A n \in 1..Len(e) : b[Len(a) + n] = e[n]
    BY <2>2
  <2>4. From(p)
    <3> SUFFICES ASSUME NEW n \in 1..Len(b)
                 PROVE  \E i \in 1..Len(p) : \E k \in 1..Len(p[i]) : b[n] = p[i][k]
      BY DEF b
    <3>1. CASE n \in 1..Len(a)
      <4>1. PICK i \in 1..Len(q) : \E k \in 1..Len(q[i]) : a[n] = q[i][k]
        BY <1>2, <3>1 DEF a
      <4>2. i \in 1..Len(p) /\ p[i] = q[i] /\ b[n] = a[n]
        BY <2>1, <2>3, <3>1
      <4> QED
        BY <4>1, <4>2
    <3>2. CASE n \in (Len(a) + 1)..Len(b)
      <4> DEFINE k == n - Len(a)
      <4>1. k \in 1..Len(e) /\ Len(a) + k = n
        BY <2>3, <3>2
      <4> HIDE DEF k
      <4>2. b[n] = e[k] /\ p[Len(q) + 1] = e /\ Len(q) + 1 \in 1..Len(p)
        BY <2>1, <2>3, <4>1
      <4> QED
        BY <4>1, <4>2
    <3> QED
      BY <2>3, <3>1, <3>2
  <2> QED
    BY <2>1, <2>4 DEF p
<1> HIDE DEF Q
<1>3. \A q \in Seq(Seq(S)) : q \in Q
  BY <1>1, <1>2, AllLists
<1> QED
  BY <1>3 DEF Q
=============================================================================
