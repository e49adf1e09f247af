--------------------------- MODULE SelectionProofs ---------------------------
(***************************************************************************)
(* Lemmas about Selections.                                                *)
(***************************************************************************)
EXTENDS Selections, Sequences, FiniteSetTheorems, TLAPS

-----------------------------------------------------------------------------
(* Positions and ranks                                                     *)

\* The positions K of a list are numbered in their order.
LEMMA Ranks ==
  ASSUME NEW len \in Nat, NEW K \in SUBSET (1 .. len)
  PROVE  /\ IsFiniteSet(K) /\ Cardinality(K) \in Nat
         /\ \A i \in K : Rank(K, i) \in 1 .. Cardinality(K)
         /\ \A i, j \in K : i < j => Rank(K, i) < Rank(K, j)
<1>1. IsFiniteSet(K) /\ Cardinality(K) \in Nat
  <2>1. IsFiniteSet(1 .. len)
    BY FS_Interval
  <2>2. IsFiniteSet(K)
    BY <2>1, FS_Subset
  <2> QED BY <2>2, FS_CardinalityType
<1>2. ASSUME NEW i \in K
      PROVE  /\ IsFiniteSet(K \cap (1 .. i)) /\ Rank(K, i) \in Nat
             /\ Rank(K, i) <= Cardinality(K) /\ Rank(K, i) # 0
  <2>1. IsFiniteSet(K \cap (1 .. i)) /\ Rank(K, i) <= Cardinality(K)
    BY <1>1, FS_Subset DEF Rank
  <2>2. i \in K \cap (1 .. i)
    BY <1>2
  <2>3. Rank(K, i) # 0
    BY <2>1, <2>2, FS_EmptySet DEF Rank
  <2> QED BY <2>1, <2>3, FS_CardinalityType DEF Rank
<1>3. ASSUME NEW i \in K, NEW j \in K, i < j PROVE Rank(K, i) < Rank(K, j)
  <2>1. K \cap (1 .. i) \in SUBSET (K \cap (1 .. j))
    BY <1>3
  <2>2. j \in K \cap (1 .. j) /\ j \notin K \cap (1 .. i)
    BY <1>3
  <2>3. IsFiniteSet(K \cap (1 .. j)) /\ Rank(K, i) \in Nat /\ Rank(K, j) \in Nat
    BY <1>2
  <2>4. Rank(K, i) <= Rank(K, j) /\ Rank(K, i) # Rank(K, j)
    BY <2>1, <2>2, <2>3, FS_Subset DEF Rank
  <2> QED BY <2>3, <2>4
<1>4. \A i \in K : Rank(K, i) \in 1 .. Cardinality(K)
  <2> SUFFICES ASSUME NEW i \in K PROVE Rank(K, i) \in 1 .. Cardinality(K)
    OBVIOUS
  <2>1. Rank(K, i) \in Nat /\ Rank(K, i) <= Cardinality(K) /\ Rank(K, i) # 0
    BY <1>2
  <2> QED BY <1>1, <2>1
<1>5. \A i, j \in K : i < j => Rank(K, i) < Rank(K, j)
  BY <1>3
<1> QED BY <1>1, <1>4, <1>5

\* Every number is that of a position.
LEMMA RanksOnto ==
  ASSUME NEW len \in Nat, NEW K \in SUBSET (1 .. len), NEW r \in 1 .. Cardinality(K)
  PROVE  \E i \in K : Rank(K, i) = r
<1> DEFINE f == [i \in K |-> Rank(K, i)]
           T == 1 .. Cardinality(K)
<1>1. f \in [K -> T]
  BY Ranks
<1>2. \A i, j \in K : f[i] = f[j] => i = j
  <2> SUFFICES ASSUME NEW i \in K, NEW j \in K, i # j PROVE f[i] # f[j]
    OBVIOUS
  <2>1. i < j \/ j < i
    OBVIOUS
  <2>2. Rank(K, i) \in Int /\ Rank(K, j) \in Int
    <3>1. Rank(K, i) \in 1 .. Cardinality(K) /\ Rank(K, j) \in 1 .. Cardinality(K)
      BY Ranks
    <3> QED BY <3>1
  <2>3. \/ Rank(K, i) < Rank(K, j)
        \/ Rank(K, j) < Rank(K, i)
    BY <2>1, Ranks
  <2> QED BY <2>2, <2>3
<1>3. IsFiniteSet(T) /\ Cardinality(T) = Cardinality(K)
  <2>1. Cardinality(K) \in Nat
    BY Ranks
  <2> QED BY <2>1, FS_Interval
<1> HIDE DEF f, T
<1>4. f \in Surjection(K, T)
  <2>1. f \in Injection(K, T)
    BY <1>1, <1>2 DEF Injection, IsInjective
  <2> QED BY <1>3, <2>1, FS_Injection
<1>5. \A t \in T : \E i \in K : f[i] = t
  BY <1>4 DEF Surjection
<1> QED BY <1>5 DEF f, T

\* What Select takes from a list, and what it takes first.
LEMMA SelectMeans ==
  ASSUME NEW list, NEW len \in Nat, DOMAIN list = 1 .. len, NEW K \in SUBSET (1 .. len)
  PROVE  /\ Cardinality(K) \in Nat /\ (Cardinality(K) = 0 <=> K = {})
         /\ DOMAIN Select(list, K) = 1 .. Cardinality(K)
         /\ \A r \in 1 .. Cardinality(K) : \E i \in K : Select(list, K)[r] = list[i]
         /\ \A i \in K : \E r \in 1 .. Cardinality(K) : Select(list, K)[r] = list[i]
         /\ K # {} => \E i \in K : /\ Select(list, K)[1] = list[i]
                                   /\ \A j \in K : i <= j
<1> DEFINE c == Cardinality(K)
           pos(r) == CHOOSE i \in K : Rank(K, i) = r
<1>1. c \in Nat /\ (c = 0 <=> K = {})
  BY Ranks, FS_EmptySet
<1>2. Select(list, K) = [r \in 1 .. c |-> list[pos(r)]]
  BY DEF Select
<1>3. \A r \in 1 .. c : pos(r) \in K /\ Rank(K, pos(r)) = r
  <2> SUFFICES ASSUME NEW r \in 1 .. c PROVE pos(r) \in K /\ Rank(K, pos(r)) = r
    OBVIOUS
  <2>1. \E i \in K : Rank(K, i) = r
    BY RanksOnto
  <2> QED BY <2>1
<1>4. \A i \in K : Rank(K, i) \in 1 .. c /\ pos(Rank(K, i)) = i
  <2> SUFFICES ASSUME NEW i \in K PROVE Rank(K, i) \in 1 .. c /\ pos(Rank(K, i)) = i
    OBVIOUS
  <2>1. Rank(K, i) \in 1 .. c
    BY Ranks
  <2> DEFINE j == pos(Rank(K, i))
  <2>2. j \in K /\ Rank(K, j) = Rank(K, i)
    BY <1>3, <2>1
  <2> HIDE DEF j
  <2>3. ~(i < j) /\ ~(j < i)
    <3>1. Rank(K, i) \in Int
      BY <2>1
    <3>2. /\ i < j => Rank(K, i) < Rank(K, j)
          /\ j < i => Rank(K, j) < Rank(K, i)
      BY <2>2, Ranks
    <3> QED BY <2>2, <3>1, <3>2
  <2>4. i = j
    BY <2>2, <2>3
  <2> QED BY <2>1, <2>4 DEF j
<1> HIDE DEF c, pos
<1>5. ASSUME K # {}
      PROVE  \E i \in K : Select(list, K)[1] = list[i] /\ \A j \in K : i <= j
  <2>1. 1 \in 1 .. c
    <3>1. c \in Nat /\ c # 0
      BY <1>1, <1>5
    <3> QED BY <3>1
  <2>2. pos(1) \in K /\ Rank(K, pos(1)) = 1 /\ Select(list, K)[1] = list[pos(1)]
    BY <1>2, <1>3, <2>1
  <2>3. ASSUME NEW j \in K PROVE pos(1) <= j
    <3>1. j \in Int /\ pos(1) \in Int
      <4>1. K \subseteq Int
        OBVIOUS
      <4>2. pos(1) \in K
        BY <2>2
      <4> QED BY <4>1, <4>2, Zenon
    <3>2. ~(j < pos(1))
      <4>1. Rank(K, j) \in 1 .. c /\ (j < pos(1) => Rank(K, j) < Rank(K, pos(1)))
        BY <2>2, Ranks DEF c
      <4> QED BY <2>2, <4>1
    <3> QED BY <3>1, <3>2
  <2> QED BY <2>2, <2>3
<1>6. \A r \in 1 .. c : \E i \in K : Select(list, K)[r] = list[i]
  BY <1>2, <1>3
<1>7. \A i \in K : \E r \in 1 .. c : Select(list, K)[r] = list[i]
  BY <1>2, <1>4
<1> QED BY <1>1, <1>2, <1>5, <1>6, <1>7 DEF c

\* What Select takes from which position.
LEMMA SelectAt ==
  ASSUME NEW list, NEW len \in Nat, NEW K \in SUBSET (1 .. len)
  PROVE  /\ DOMAIN Select(list, K) = 1 .. Cardinality(K)
         /\ \A i \in K : Select(list, K)[Rank(K, i)] = list[i]
<1> SUFFICES ASSUME NEW i \in K PROVE Select(list, K)[Rank(K, i)] = list[i]
  BY DEF Select
<1> DEFINE r == Rank(K, i)
           j == CHOOSE k \in K : Rank(K, k) = r
<1>1. r \in 1 .. Cardinality(K)
  BY Ranks
<1>2. j \in K /\ Rank(K, j) = Rank(K, i)
  OBVIOUS
<1> HIDE DEF j
<1>3. j = i
  <2>1. ~(i < j) /\ ~(j < i)
    <3>1. Rank(K, i) \in Int
      BY <1>1
    <3>2. /\ i < j => Rank(K, i) < Rank(K, j)
          /\ j < i => Rank(K, j) < Rank(K, i)
      BY <1>2, Ranks
    <3> QED BY <1>2, <3>1, <3>2
  <2> QED BY <1>2, <2>1
<1> HIDE DEF r
<1>4. Select(list, K)[r] = list[CHOOSE k \in K : Rank(K, k) = r]
  BY <1>1 DEF Select
<1> QED BY <1>3, <1>4 DEF r, j

\* m takes the positions K of a list to those of L in another, in their order.
InOrder(m, K, len, L, len2) ==
  /\ len \in Nat /\ K \in SUBSET (1 .. len)
  /\ len2 \in Nat /\ L \in SUBSET (1 .. len2)
  /\ m \in Surjection(K, L) /\ \A i, j \in K : i < j => m[i] < m[j]

\* A map that keeps the order keeps the ranks.
LEMMA SameRank ==
  ASSUME NEW m, NEW K, NEW len, NEW L, NEW len2, InOrder(m, K, len, L, len2), NEW k \in K
  PROVE  Rank(L, m[k]) = Rank(K, k)
<1> USE DEF InOrder
<1> DEFINE below == K \cap (1 .. k)
           image == L \cap (1 .. m[k])
           f     == [i \in below |-> m[i]]
<1>1. /\ m \in [K -> L] /\ \A l \in L : \E i \in K : m[i] = l
      /\ K \subseteq Int /\ L \subseteq Int
  BY DEF Surjection
<1>2. \A i, j \in K : i <= j <=> m[i] <= m[j]
  <2> SUFFICES ASSUME NEW i \in K, NEW j \in K PROVE i <= j <=> m[i] <= m[j]
    OBVIOUS
  <2>1. i \in Int /\ j \in Int /\ m[i] \in Int /\ m[j] \in Int
    BY <1>1
  <2>2. (i < j => m[i] < m[j]) /\ (j < i => m[j] < m[i]) /\ (i = j => m[i] = m[j])
    OBVIOUS
  <2> QED BY <2>1, <2>2
<1>3. \A i \in K : i \in below <=> m[i] \in image
  <2> SUFFICES ASSUME NEW i \in K PROVE i \in below <=> m[i] \in image
    OBVIOUS
  <2>1. i \in 1 .. len /\ k \in 1 .. len /\ m[i] \in L /\ m[i] \in 1 .. len2
        /\ m[k] \in 1 .. len2 /\ (i <= k <=> m[i] <= m[k])
    BY <1>1, <1>2
  <2> QED BY <2>1
<1>4. f \in Bijection(below, image)
  <2>1. f \in [below -> image]
    BY <1>3
  <2>2. \A i, j \in below : f[i] = f[j] => i = j
    <3> SUFFICES ASSUME NEW i \in below, NEW j \in below, m[i] = m[j] PROVE i = j
      OBVIOUS
    <3>1. i \in Int /\ j \in Int /\ m[i] \in Int /\ (i <= j <=> m[i] <= m[j])
          /\ (j <= i <=> m[j] <= m[i])
      BY <1>1, <1>2
    <3> QED BY <3>1
  <2>3. \A l \in image : \E i \in below : f[i] = l
    BY <1>1, <1>3
  <2> HIDE DEF f
  <2> QED BY <2>1, <2>2, <2>3 DEF Bijection, Injection, Surjection, IsInjective
<1>5. IsFiniteSet(below)
  BY Ranks, FS_Subset
<1>6. ExistsBijection(below, image)
  BY <1>4 DEF ExistsBijection
<1> HIDE DEF below, image
<1>7. Cardinality(image) = Cardinality(below)
  BY <1>5, <1>6, FS_Bijection
<1> QED BY <1>7 DEF below, image, Rank

\* Two selections are the same when their positions, in their order, hold the same.
LEMMA SameSelection ==
  ASSUME NEW list, NEW list2, NEW m, NEW K, NEW len, NEW L, NEW len2,
         InOrder(m, K, len, L, len2), \A i \in K : list2[m[i]] = list[i]
  PROVE  Select(list2, L) = Select(list, K)
<1>0. /\ len \in Nat /\ K \in SUBSET (1 .. len)
      /\ len2 \in Nat /\ L \in SUBSET (1 .. len2)
      /\ m \in [K -> L] /\ m \in Surjection(K, L)
      /\ \A i, j \in K : i < j => m[i] < m[j]
  BY DEF InOrder, Surjection
<1>1. ASSUME NEW i \in K PROVE m[i] \in L /\ Rank(L, m[i]) = Rank(K, i)
  <2>1. m[i] \in L
    BY <1>0
  <2>2. Rank(L, m[i]) = Rank(K, i)
    BY SameRank
  <2> QED BY <2>1, <2>2
<1>2. m \in Injection(K, L)
  <2> SUFFICES ASSUME NEW i \in K, NEW j \in K, m[i] = m[j] PROVE i = j
    BY <1>0 DEF Injection, IsInjective
  <2>1. K \subseteq Int /\ L \subseteq Int
    BY <1>0
  <2>2. i \in Int /\ j \in Int /\ m[i] \in Int
    <3>1. m[i] \in L
      BY <1>1
    <3> QED BY <2>1, <3>1, Zenon
  <2> QED BY <1>0, <2>2
<1>3. Cardinality(L) = Cardinality(K)
  <2>1. IsFiniteSet(K)
    BY <1>0, Ranks
  <2> QED BY <1>0, <1>2, <2>1, FS_Surjection
<1>4. /\ DOMAIN Select(list, K) = 1 .. Cardinality(K)
      /\ DOMAIN Select(list2, L) = 1 .. Cardinality(K)
  BY <1>3 DEF Select
<1>5. ASSUME NEW r \in 1 .. Cardinality(K) PROVE Select(list2, L)[r] = Select(list, K)[r]
  <2>1. PICK i \in K : Rank(K, i) = r
    BY <1>0, RanksOnto
  <2>2. Select(list, K)[r] = list[i]
    BY <1>0, <2>1, SelectAt
  <2>3. Select(list2, L)[r] = list2[m[i]]
    <3>1. m[i] \in L /\ Rank(L, m[i]) = r
      BY <1>1, <2>1
    <3>2. Select(list2, L)[Rank(L, m[i])] = list2[m[i]]
      BY <1>0, <3>1, SelectAt
    <3> QED BY <3>1, <3>2
  <2> QED BY <2>2, <2>3
<1>6. /\ Select(list, K) = [r \in 1 .. Cardinality(K) |-> Select(list, K)[r]]
      /\ Select(list2, L) = [r \in 1 .. Cardinality(K) |-> Select(list2, L)[r]]
  BY <1>4 DEF Select
<1> QED BY <1>5, <1>6

\* A selection from a list of one element.
LEMMA SelectOne ==
  ASSUME NEW t, NEW K \in SUBSET {1}
  PROVE  Select(<<t>>, K) = IF K = {} THEN <<>> ELSE <<t>>
<1>1. CASE K = {}
  BY <1>1, FS_EmptySet DEF Select
<1>2. CASE K = {1}
  <2>1. Cardinality(K) = 1
    BY <1>2, FS_Singleton
  <2>2. K \cap (1 .. 1) = K
    BY <1>2
  <2>3. \A i \in K : i = 1 /\ Rank(K, i) = 1
    BY <1>2, <2>1, <2>2 DEF Rank
  <2> DEFINE pos(r) == CHOOSE i \in K : Rank(K, i) = r
  <2>4. pos(1) = 1
    BY <1>2, <2>3
  <2>5. Select(<<t>>, K) = [r \in 1 .. 1 |-> <<t>>[pos(r)]]
    BY <2>1 DEF Select
  <2> HIDE DEF pos
  <2>6. \A r \in 1 .. 1 : <<t>>[pos(r)] = t
    BY <2>4
  <2>7. Select(<<t>>, K) = <<t>>
    BY <2>5, <2>6
  <2> QED BY <1>2, <2>7
<1> QED BY <1>1, <1>2

LEMMA ListsAreSeqs ==
  ASSUME NEW X, NEW c \in Nat, NEW a \in [1 .. c -> X]
  PROVE  a \in Seq(X) /\ Len(a) = c
OBVIOUS

\* One list after another.
LEMMA Concatenation ==
  ASSUME NEW X, NEW a \in Seq(X), NEW b \in Seq(X)
  PROVE  /\ Len(a) \in Nat /\ Len(b) \in Nat
         /\ DOMAIN a = 1 .. Len(a) /\ DOMAIN b = 1 .. Len(b)
         /\ a \o b \in Seq(X) /\ Len(a \o b) = Len(a) + Len(b)
         /\ DOMAIN (a \o b) = 1 .. Len(a) + Len(b)
         /\ \A i \in 1 .. Len(a) + Len(b) :
              (a \o b)[i] = IF i <= Len(a) THEN a[i] ELSE b[i - Len(a)]
OBVIOUS

LEMMA OneAfterAnother ==
  ASSUME NEW X, NEW a \in Seq(X), NEW b \in Seq(X)
  PROVE  /\ Len(a \o b) = Len(a) + Len(b) /\ DOMAIN (a \o b) = 1 .. Len(a) + Len(b)
         /\ \A i \in 1 .. Len(a) : (a \o b)[i] = a[i]
         /\ \A i \in 1 .. Len(b) : (a \o b)[Len(a) + i] = b[i]
<1> DEFINE c == Len(a)
           e == Len(b)
<1>1. c \in Nat /\ e \in Nat
  OBVIOUS
<1> DEFINE ab == a \o b
<1>2. /\ Len(ab) = c + e /\ DOMAIN ab = 1 .. c + e
      /\ \A i \in 1 .. c + e : ab[i] = IF i <= c THEN a[i] ELSE b[i - c]
  BY Concatenation
<1> HIDE DEF ab, c, e
<1>3. \A i \in 1 .. c : ab[i] = a[i]
  BY <1>1, <1>2
<1>4. ASSUME NEW i \in 1 .. e PROVE ab[c + i] = b[i]
  <2>1. c + i \in 1 .. c + e /\ ~(c + i <= c) /\ (c + i) - c = i
    BY <1>1
  <2> QED BY <1>1, <1>2, <2>1
<1> QED BY <1>1, <1>2, <1>3, <1>4 DEF ab, c, e

=============================================================================
