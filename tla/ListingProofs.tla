---------------------------- MODULE ListingProofs ----------------------------
(***************************************************************************)
(* What the operators of Listing return, for sets of ids of any size.      *)
(* That a finite set can be put in order is shown for a smallest set       *)
(* without an order.                                                       *)
(***************************************************************************)
EXTENDS Listing, SequencesExt, FiniteSetTheorems, WellFoundedInduction, TLAPS

Decreasing(s) == \A i, j \in DOMAIN s : i < j => s[i] > s[j]
Increasing(s) == \A i, j \in DOMAIN s : i < j => s[i] < s[j]

-----------------------------------------------------------------------------
(* Extremes. *)

\* A set of naturals has a least element.
LEMMA Least ==
  ASSUME NEW T, T \subseteq Nat, T # {}
  PROVE  \E m \in T : \A k \in T : m <= k
<1>1. \E m \in T : \A k \in T : <<k, m>> \notin OpToRel(<, Nat)
  BY WFMin, NatLessThanWellFounded, Zenon
<1>2. PICK m \in T : \A k \in T : <<k, m>> \notin OpToRel(<, Nat)
  BY <1>1
<1>3. \A k \in T : ~(k < m)
  BY <1>2, Zenon DEF OpToRel
<1> QED BY <1>3

\* A bounded one has a greatest element.
LEMMA Greatest ==
  ASSUME NEW n \in Nat, NEW T, T \subseteq 1..n, T # {}
  PROVE  \E m \in T : \A k \in T : k <= m
<1> DEFINE U == {n - k : k \in T}
<1>1. U \subseteq Nat /\ U # {}
  <2>1. \A k \in T : n - k \in Nat
    OBVIOUS
  <2> QED BY <2>1
<1>2. PICK u \in U : \A k \in U : u <= k
  BY <1>1, Least
<1>3. PICK m \in T : u = n - m
  OBVIOUS
<1>4. \A k \in T : n - k \in U
  OBVIOUS
<1>5. \A k \in T : n - m <= n - k
  BY <1>2, <1>3, <1>4
<1> QED BY <1>5

-----------------------------------------------------------------------------
(* Lists. *)

LEMMA Elements ==
  ASSUME NEW S, NEW s \in Seq(S)
  PROVE  ToSet(s) = {s[i] : i \in 1..Len(s)} /\ ToSet(s) \subseteq S
BY DEF ToSet

LEMMA Listed ==
  ASSUME NEW S, NEW n \in Nat, NEW s \in [1..n -> S]
  PROVE  s \in Seq(S) /\ Len(s) = n
OBVIOUS

LEMMA NoRepeats ==
  ASSUME NEW S, NEW s \in Seq(S)
  PROVE  IsInjective(s) <=> \A i, j \in 1..Len(s) : s[i] = s[j] => i = j
BY DEF IsInjective

\* Two lists, one behind the other.
LEMMA Concat ==
  ASSUME NEW S, NEW a \in Seq(S), NEW b \in Seq(S)
  PROVE  /\ a \o b \in Seq(S) /\ Len(a \o b) = Len(a) + Len(b)
         /\ Len(a) \in Nat /\ Len(b) \in Nat
         /\ \A i \in 1..Len(a) : (a \o b)[i] = a[i]
         /\ \A i \in 1..Len(a \o b) : i \notin 1..Len(a) =>
              i - Len(a) \in 1..Len(b) /\ (a \o b)[i] = b[i - Len(a)]
         /\ ToSet(a \o b) = ToSet(a) \cup ToSet(b)
<1> DEFINE t == a \o b
<1>1. /\ t \in Seq(S) /\ Len(t) = Len(a) + Len(b) /\ Len(a) \in Nat /\ Len(b) \in Nat
      /\ \A i \in 1..Len(a) : t[i] = a[i]
      /\ \A i \in 1..Len(b) : t[Len(a) + i] = b[i]
  OBVIOUS
<1> HIDE DEF t
<1>2. /\ ToSet(a) = {a[i] : i \in 1..Len(a)} /\ ToSet(b) = {b[i] : i \in 1..Len(b)}
      /\ ToSet(t) = {t[i] : i \in 1..Len(t)}
  BY <1>1, Elements
<1>3. ASSUME NEW i \in 1..Len(t), i \notin 1..Len(a)
      PROVE  i - Len(a) \in 1..Len(b) /\ t[i] = b[i - Len(a)]
  <2> DEFINE j == i - Len(a)
  <2>1. j \in 1..Len(b) /\ i = Len(a) + j
    BY <1>1, <1>3
  <2> HIDE DEF j
  <2>2. t[i] = b[j]
    BY <1>1, <2>1
  <2> QED BY <2>1, <2>2 DEF j
<1>4. \A c \in ToSet(t) : c \in ToSet(a) \cup ToSet(b)
  <2>1. \A i \in 1..Len(t) : t[i] \in ToSet(a) \cup ToSet(b)
    BY <1>1, <1>2, <1>3
  <2> QED BY <1>2, <2>1
<1>5. \A c \in ToSet(a) : c \in ToSet(t)
  <2>1. \A i \in 1..Len(a) : i \in 1..Len(t)
    BY <1>1
  <2> QED BY <1>1, <1>2, <2>1
<1>6. \A c \in ToSet(b) : c \in ToSet(t)
  <2>1. \A i \in 1..Len(b) : Len(a) + i \in 1..Len(t)
    BY <1>1
  <2> QED BY <1>1, <1>2, <2>1
<1>7. ToSet(t) = ToSet(a) \cup ToSet(b)
  BY <1>4, <1>5, <1>6
<1> QED BY <1>1, <1>3, <1>7 DEF t

-----------------------------------------------------------------------------
(* Order. *)

\* A list of one more element behind those of s.
LEMMA OneMore ==
  ASSUME NEW S, NEW m \in S, NEW k \in Nat, NEW s \in [1..k -> S \ {m}]
  PROVE  LET t == [i \in 1..k + 1 |-> IF i <= k THEN s[i] ELSE m]
         IN  /\ t \in [1..k + 1 -> S]
             /\ \A i \in 1..k : t[i] = s[i] /\ s[i] \in S \ {m}
             /\ t[k + 1] = m
<1> DEFINE t == [i \in 1..k + 1 |-> IF i <= k THEN s[i] ELSE m]
<1>1. /\ k + 1 \in 1..k + 1 /\ ~(k + 1 <= k)
      /\ \A i \in 1..k : i \in 1..k + 1 /\ i <= k /\ s[i] \in S \ {m}
      /\ \A i \in 1..k + 1 : i <= k => i \in 1..k
  OBVIOUS
<1>2. t \in [1..k + 1 -> S]
  BY <1>1
<1>3. \A i \in 1..k : t[i] = s[i] /\ s[i] \in S \ {m}
  BY <1>1
<1>4. t[k + 1] = m
  BY <1>1
<1> QED BY <1>2, <1>3, <1>4

\* A set of small naturals is finite.
LEMMA Bounded ==
  ASSUME NEW n \in Nat, NEW S, S \subseteq 1..n
  PROVE  IsFiniteSet(S) /\ Cardinality(S) \in Nat /\ Cardinality(S) <= n /\ S \subseteq Int
<1>1. IsFiniteSet(1..n) /\ Cardinality(1..n) = n
  BY FS_Interval
<1>2. IsFiniteSet(S) /\ Cardinality(S) <= n
  BY <1>1, FS_Subset
<1>3. S \subseteq Int
  OBVIOUS
<1> QED BY <1>2, <1>3, FS_CardinalityType

LEMMA HasDecreasing ==
  ASSUME NEW n \in Nat, NEW S, S \subseteq 1..n
  PROVE  \E s \in [1..Cardinality(S) -> S] : Decreasing(s)
<1> DEFINE Bad(k) == \E T \in SUBSET (1..n) :
                       Cardinality(T) = k /\ ~ \E s \in [1..k -> T] : Decreasing(s)
           Bads == {k \in Nat : Bad(k)}
<1>1. \A T \in SUBSET (1..n) : IsFiniteSet(T) /\ Cardinality(T) \in Nat
  BY Bounded
<1>2. ASSUME Bads # {} PROVE FALSE
  <2>1. PICK k \in Bads : \A j \in Bads : k <= j
    BY <1>2, Least
  <2>2. PICK T \in SUBSET (1..n) : Cardinality(T) = k /\ ~ \E s \in [1..k -> T] : Decreasing(s)
    OBVIOUS
  <2>3. CASE T = {}
    <3>1. k = 0
      BY <2>2, <2>3, FS_EmptySet
    <3>2. <<>> \in [1..k -> T] /\ Decreasing(<<>>)
      BY <3>1 DEF Decreasing
    <3> QED BY <2>2, <3>2
  <2>4. CASE T # {}
    <3>1. PICK m \in T : \A c \in T : m <= c
      <4>1. T \subseteq Nat
        OBVIOUS
      <4> QED BY <2>4, <4>1, Least
    <3> DEFINE R == T \ {m}
    <3>2. Cardinality(R) = k - 1 /\ k - 1 \in Nat /\ R \in SUBSET (1..n)
      BY <1>1, <2>2, FS_RemoveElement
    <3>3. ~Bad(k - 1)
      BY <2>1, <3>2
    <3>4. PICK s \in [1..k - 1 -> R] : Decreasing(s)
      BY <3>2, <3>3
    <3> DEFINE t == [i \in 1..(k - 1) + 1 |-> IF i <= k - 1 THEN s[i] ELSE m]
    <3>5. /\ t \in [1..(k - 1) + 1 -> T]
          /\ \A i \in 1..k - 1 : t[i] = s[i] /\ s[i] \in T \ {m}
          /\ t[(k - 1) + 1] = m
      BY <3>2, OneMore
    <3>6. k \in Nat /\ (k - 1) + 1 = k
      OBVIOUS
    <3> HIDE DEF t
    <3>7. \A i, j \in 1..k : i < j => i \in 1..k - 1 /\ (j \in 1..k - 1 \/ j = k)
      BY <3>6
    <3>8. DOMAIN t = 1..k /\ DOMAIN s = 1..k - 1
      BY <3>4, <3>5, <3>6
    <3>9. Decreasing(t)
      <4> SUFFICES ASSUME NEW i \in 1..k, NEW j \in 1..k, i < j PROVE t[i] > t[j]
        BY <3>8 DEF Decreasing
      <4>1. i \in 1..k - 1 /\ t[i] = s[i] /\ s[i] \in T /\ s[i] # m
        BY <3>5, <3>7
      <4>2. CASE j \in 1..k - 1
        BY <4>1, <4>2, <3>4, <3>5, <3>8 DEF Decreasing
      <4>3. CASE j = k
        <5>1. t[j] = m /\ m <= s[i]
          BY <4>1, <4>3, <3>1, <3>5, <3>6
        <5>2. T \subseteq Int
          BY Bounded
        <5>3. s[i] \in Int /\ m \in Int
          BY <4>1, <5>2
        <5> QED BY <4>1, <5>1, <5>3
      <4> QED BY <4>2, <4>3, <3>7
    <3> QED BY <2>2, <3>5, <3>6, <3>9
  <2> QED BY <2>3, <2>4
<1>3. Cardinality(S) \in Nat /\ ~Bad(Cardinality(S))
  BY <1>1, <1>2
<1> HIDE DEF Bads
<1>4. S \in SUBSET (1..n)
  OBVIOUS
<1> QED BY <1>3, <1>4

LEMMA HasIncreasing ==
  ASSUME NEW n \in Nat, NEW S, S \subseteq 1..n
  PROVE  \E s \in [1..Cardinality(S) -> S] : Increasing(s)
<1>1. Cardinality(S) \in Nat
  BY Bounded
<1>2. PICK s \in [1..Cardinality(S) -> S] : Decreasing(s)
  BY HasDecreasing
<1> DEFINE k == Cardinality(S)
           t == [i \in 1..k |-> s[k + 1 - i]]
<1>3. \A i \in 1..k : k + 1 - i \in 1..k
  BY <1>1
<1>4. t \in [1..k -> S] /\ \A i \in 1..k : t[i] = s[k + 1 - i]
  BY <1>2, <1>3
<1> HIDE DEF t
<1>5. ASSUME NEW i \in 1..k, NEW j \in 1..k, i < j PROVE t[i] < t[j]
  <2>1. k + 1 - j < k + 1 - i /\ k + 1 - j \in 1..k /\ k + 1 - i \in 1..k
    BY <1>1, <1>5
  <2>2. s[k + 1 - j] > s[k + 1 - i]
    BY <1>2, <2>1 DEF Decreasing
  <2>3. s[k + 1 - j] \in S /\ s[k + 1 - i] \in S
    BY <2>1
  <2>4. S \subseteq Int
    BY Bounded
  <2> QED BY <1>4, <2>2, <2>3, <2>4
<1> QED BY <1>4, <1>5 DEF Increasing

\* A strictly ordered list of as many elements as the set has them all.
LEMMA Onto ==
  ASSUME NEW n \in Nat, NEW S, S \subseteq 1..n, NEW s \in [1..Cardinality(S) -> S],
         Decreasing(s) \/ Increasing(s)
  PROVE  /\ s \in Seq(S) /\ Len(s) = Cardinality(S)
         /\ IsInjective(s) /\ ToSet(s) = S
<1>1. IsFiniteSet(S) /\ Cardinality(S) \in Nat
  BY Bounded
<1>2. IsInjective(s)
  <2> SUFFICES ASSUME NEW a \in 1..Cardinality(S), NEW b \in 1..Cardinality(S), s[a] = s[b]
               PROVE  a = b
    BY DEF IsInjective
  <2>1. S \subseteq Int
    BY Bounded
  <2>2. s[a] \in Int /\ s[b] \in Int
    BY <2>1
  <2>3. ~(a < b) /\ ~(b < a)
    BY <2>2 DEF Decreasing, Increasing
  <2> QED BY <1>1, <2>3
<1>3. s \in Injection(1..Cardinality(S), S)
  BY <1>2 DEF Injection
<1>4. Cardinality(1..Cardinality(S)) = Cardinality(S)
  BY <1>1, FS_Interval
<1>5. s \in Surjection(1..Cardinality(S), S)
  BY <1>1, <1>3, <1>4, FS_Injection
<1>6. \A c \in S : \E i \in 1..Cardinality(S) : s[i] = c
  BY <1>5 DEF Surjection
<1>7. ToSet(s) = S
  BY <1>6 DEF ToSet
<1> QED BY <1>1, <1>2, <1>7

LEMMA DescendingList ==
  ASSUME NEW n \in Nat, NEW S, S \subseteq 1..n
  PROVE  /\ Descending(S) \in Seq(S) /\ Len(Descending(S)) = Cardinality(S)
         /\ IsInjective(Descending(S)) /\ ToSet(Descending(S)) = S
         /\ Decreasing(Descending(S))
<1>1. Descending(S) \in [1..Cardinality(S) -> S] /\ Decreasing(Descending(S))
  BY HasDecreasing DEF Descending, Decreasing
<1> QED BY <1>1, Onto

LEMMA AscendingList ==
  ASSUME NEW n \in Nat, NEW S, S \subseteq 1..n
  PROVE  /\ Ascending(S) \in Seq(S) /\ Len(Ascending(S)) = Cardinality(S)
         /\ IsInjective(Ascending(S)) /\ ToSet(Ascending(S)) = S
         /\ Increasing(Ascending(S))
<1>1. Ascending(S) \in [1..Cardinality(S) -> S] /\ Increasing(Ascending(S))
  BY HasIncreasing DEF Ascending, Increasing
<1> QED BY <1>1, Onto

\* A page of a descending list: what is missing of the set is beyond its end.
LEMMA FirstDescending ==
  ASSUME NEW n \in Nat, NEW S, S \subseteq 1..n, NEW k \in Nat \ {0},
         NEW s, s = Prefix(Descending(S), k)
  PROVE  /\ s \in Seq(S) /\ Len(s) <= k /\ IsInjective(s) /\ Decreasing(s)
         /\ ToSet(s) \subseteq S
         /\ \A c \in S \ ToSet(s) : Len(s) >= k /\ c < s[Len(s)]
<1> DEFINE d == Descending(S)
           l == IF k < Len(d) THEN k ELSE Len(d)
<1>1. /\ d \in Seq(S) /\ IsInjective(d) /\ ToSet(d) = S /\ Decreasing(d)
  BY DescendingList
<1> HIDE DEF d
<1>2. l \in Nat /\ l <= k /\ l <= Len(d) /\ (l < k => l = Len(d))
  BY <1>1
<1>3. s = SubSeq(d, 1, l)
  BY DEF Prefix, d
<1> HIDE DEF l
<1>4. s \in Seq(S) /\ Len(s) = l /\ \A i \in 1..l : s[i] = d[i] /\ i \in 1..Len(d)
  BY <1>1, <1>2, <1>3
<1>5. IsInjective(s) /\ Decreasing(s)
  BY <1>1, <1>4 DEF IsInjective, Decreasing
<1>6. ToSet(s) \subseteq S
  BY <1>4 DEF ToSet
<1>7. ASSUME NEW c \in S \ ToSet(s) PROVE Len(s) >= k /\ c < s[Len(s)]
  <2>1. PICK i \in 1..Len(d) : d[i] = c
    BY <1>1, Elements
  <2>2. i > l
    <3>1. ASSUME i <= l PROVE FALSE
      <4>1. i \in 1..l
        BY <1>2, <3>1
      <4>2. c \in ToSet(s)
        BY <1>4, <2>1, <4>1 DEF ToSet
      <4> QED BY <4>2
    <3> QED BY <1>2, <3>1
  <2>3. l = k /\ l \in 1..l /\ l \in 1..Len(d) /\ l < i
    BY <1>1, <1>2, <2>2
  <2>4. d[l] > d[i]
    BY <1>1, <2>3 DEF Decreasing
  <2>5. d[l] \in S /\ d[i] \in S /\ S \subseteq Int
    BY <1>1, <2>3, Bounded
  <2> QED BY <1>4, <2>1, <2>3, <2>4, <2>5
<1> QED BY <1>2, <1>4, <1>5, <1>6, <1>7

\* A batch of an ascending list: what is missing of the set is above all of it.
LEMMA FirstAscending ==
  ASSUME NEW n \in Nat, NEW S, S \subseteq 1..n, NEW k \in Nat \ {0},
         NEW s, s = Prefix(Ascending(S), k)
  PROVE  /\ s \in Seq(S) /\ IsInjective(s) /\ ToSet(s) \subseteq S
         /\ \A c \in S \ ToSet(s) : Len(s) >= k /\ \A e \in ToSet(s) : c > e
<1> DEFINE d == Ascending(S)
           l == IF k < Len(d) THEN k ELSE Len(d)
<1>1. /\ d \in Seq(S) /\ IsInjective(d) /\ ToSet(d) = S /\ Increasing(d)
  BY AscendingList
<1> HIDE DEF d
<1>2. l \in Nat /\ l <= k /\ l <= Len(d) /\ (l < k => l = Len(d))
  BY <1>1
<1>3. s = SubSeq(d, 1, l)
  BY DEF Prefix, d
<1> HIDE DEF l
<1>4. s \in Seq(S) /\ Len(s) = l /\ \A i \in 1..l : s[i] = d[i] /\ i \in 1..Len(d)
  BY <1>1, <1>2, <1>3
<1>5. IsInjective(s)
  BY <1>1, <1>4 DEF IsInjective
<1>6. ToSet(s) \subseteq S
  BY <1>4 DEF ToSet
<1>7. ASSUME NEW c \in S \ ToSet(s) PROVE Len(s) >= k /\ \A e \in ToSet(s) : c > e
  <2>1. PICK i \in 1..Len(d) : d[i] = c
    BY <1>1, Elements
  <2>2. i > l
    <3>1. ASSUME i <= l PROVE FALSE
      <4>1. i \in 1..l
        BY <1>2, <3>1
      <4>2. c \in ToSet(s)
        BY <1>4, <2>1, <4>1 DEF ToSet
      <4> QED BY <4>2
    <3> QED BY <1>2, <3>1
  <2>3. l = k
    BY <1>1, <1>2, <2>2
  <2>4. ASSUME NEW e \in ToSet(s) PROVE c > e
    <3>1. PICK j \in 1..l : e = d[j]
      BY <1>4 DEF ToSet
    <3>2. j \in 1..Len(d) /\ j < i
      BY <1>1, <1>2, <2>2
    <3>3. d[j] < d[i]
      BY <1>1, <3>2 DEF Increasing
    <3>4. d[j] \in S /\ d[i] \in S /\ S \subseteq Int
      BY <1>1, <3>2, Bounded
    <3> QED BY <2>1, <3>1, <3>3, <3>4
  <2> QED BY <1>2, <1>4, <2>3, <2>4
<1> QED BY <1>4, <1>5, <1>6, <1>7

\* A list without one of its elements.
LEMMA Filtered ==
  ASSUME NEW S, NEW s \in Seq(S), NEW e
  PROVE  /\ Without(s, e) \in Seq(S) /\ Len(Without(s, e)) <= Len(s)
         /\ ToSet(Without(s, e)) = ToSet(s) \ {e}
         /\ IsInjective(s) => IsInjective(Without(s, e))
<1> DEFINE kept == {i \in DOMAIN s : s[i] # e}
           o == Ascending(kept)
           w == [k \in 1..Len(o) |-> s[o[k]]]
<1>1. Len(s) \in Nat /\ kept \subseteq 1..Len(s)
  OBVIOUS
<1>2. /\ o \in Seq(kept) /\ Len(o) = Cardinality(kept) /\ IsInjective(o) /\ ToSet(o) = kept
  BY <1>1, AscendingList
<1>3. Cardinality(kept) <= Len(s)
  <2>1. IsFiniteSet(1..Len(s)) /\ Cardinality(1..Len(s)) = Len(s)
    BY <1>1, FS_Interval
  <2> QED BY <1>1, <2>1, FS_Subset
<1>4. Without(s, e) = w
  BY DEF Without
<1> HIDE DEF o
<1>5. \A k \in 1..Len(o) : o[k] \in kept
  BY <1>2
<1>6. w \in [1..Len(o) -> S] /\ \A k \in 1..Len(o) : w[k] = s[o[k]]
  BY <1>5
<1>7. w \in Seq(S) /\ Len(w) = Len(o)
  <2>1. Len(o) \in Nat
    BY <1>2
  <2> QED BY <1>6, <2>1, Listed
<1> HIDE DEF w
<1>8. ToSet(w) = ToSet(s) \ {e}
  <2>1. ASSUME NEW x \in ToSet(w) PROVE x \in ToSet(s) \ {e}
    <3>1. PICK k \in 1..Len(o) : x = s[o[k]]
      BY <1>6, <1>7 DEF ToSet
    <3> QED BY <1>5, <3>1 DEF ToSet
  <2>2. ASSUME NEW x \in ToSet(s) \ {e} PROVE x \in ToSet(w)
    <3>1. PICK i \in kept : s[i] = x
      BY DEF ToSet
    <3>2. PICK k \in 1..Len(o) : o[k] = i
      BY <1>2 DEF ToSet
    <3> QED BY <1>6, <1>7, <3>1, <3>2 DEF ToSet
  <2> QED BY <2>1, <2>2
<1>9. ASSUME IsInjective(s) PROVE IsInjective(w)
  <2>1. ASSUME NEW i \in 1..Len(o), NEW j \in 1..Len(o), w[i] = w[j] PROVE i = j
    <3>1. o[i] = o[j]
      BY <1>5, <1>6, <1>9, <2>1, NoRepeats
    <3> QED BY <1>2, <3>1, NoRepeats
  <2> QED BY <1>7, <2>1, NoRepeats
<1> QED BY <1>2, <1>3, <1>4, <1>7, <1>8, <1>9
=============================================================================
