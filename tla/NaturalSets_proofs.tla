------------------------- MODULE NaturalSets_proofs -------------------------
(***************************************************************************)
(* Induction on natural numbers, stated for sets: what the other proofs    *)
(* need to follow a sequence or a recursive function; and how a sequence   *)
(* lists a set in an order.                                                *)
(***************************************************************************)
EXTENDS NaturalSets, FiniteSetTheorems, WellFoundedInduction, TLAPS

LEMMA LeastNatural ==
  ASSUME NEW T \in SUBSET Nat, T # {}
  PROVE  \E m \in T : \A n \in T : m <= n
<1> DEFINE R == OpToRel(<, Nat)
<1>1. IsWellFoundedOn(R, Nat)
  BY NatLessThanWellFounded
<1>2. \A m, n \in Nat : <<m, n>> \in R <=> m < n
  BY DEF OpToRel
<1> HIDE DEF R
<1>3. PICK m \in T : \A n \in T : ~(<<n, m>> \in R)
  BY <1>1, WFMin
<1>4. ASSUME NEW n \in T
      PROVE  m <= n
  <2>1. ~(n < m)
    BY <1>2, <1>3
  <2> QED
    BY <2>1
<1> QED
  BY <1>4

LEMMA SetInduction ==
  ASSUME NEW S, 0 \in S, \A n \in Nat : n \in S => n + 1 \in S
  PROVE  Nat \subseteq S
<1> SUFFICES ASSUME Nat \ S # {}
             PROVE  FALSE
  OBVIOUS
<1>1. PICK m \in Nat \ S : \A n \in Nat \ S : m <= n
  BY LeastNatural
<1>2. m # 0
  BY <1>1
<1>3. m - 1 \in Nat /\ m - 1 \notin Nat \ S
  BY <1>1, <1>2
<1>4. m - 1 + 1 = m
  BY <1>1
<1> QED
  BY <1>1, <1>3, <1>4

-----------------------------------------------------------------------------
(***************************************************************************)
(* Listings.  The sequence w lists S if it has each element of S and, for  *)
(* a relation R that is an order, has it once and where R wants it.        *)
(***************************************************************************)
Lists(w, S, R) ==
  /\ w \in Seq(S)
  /\ \A x \in S : \E i \in 1..Len(w) : w[i] = x
  /\ \A i, j \in 1..Len(w) : i < j => <<w[i], w[j]>> \in R

Asymmetric(R) == \A x, y : <<x, y>> \in R => <<y, x>> \notin R

\* The rank of a number in a finite set of numbers.
LEMMA Ranks ==
  ASSUME NEW S \in SUBSET Nat, IsFiniteSet(S)
  PROVE  /\ Cardinality(S) \in Nat
         /\ \A i \in S : Rank(S, i) \in 0..Cardinality(S) - 1
         /\ \A i, k \in S : i < k => Rank(S, i) < Rank(S, k)
<1> DEFINE Below(i) == {j \in S : j < i}
<1>1. Cardinality(S) \in Nat
  BY FS_CardinalityType
<1>2. \A i \in S : Below(i) \subseteq S /\ i \notin Below(i)
  OBVIOUS
<1>3. ASSUME NEW i \in S, NEW k \in S, i < k
      PROVE  Below(i) \subseteq Below(k) /\ i \in Below(k)
  <2>1. i \in Nat /\ k \in Nat
    OBVIOUS
  <2>2. ASSUME NEW j \in S, j < i
        PROVE  j < k
    BY <1>3, <2>1, <2>2
  <2> QED
    BY <1>3, <2>2
<1> HIDE DEF Below
<1>4. ASSUME NEW i \in S
      PROVE  IsFiniteSet(Below(i)) /\ Cardinality(Below(i)) \in 0..Cardinality(S) - 1
  <2>1. IsFiniteSet(Below(i)) /\ Cardinality(Below(i)) <= Cardinality(S)
        /\ (Cardinality(S) = Cardinality(Below(i)) => S = Below(i))
    BY <1>2, FS_Subset
  <2>2. Cardinality(Below(i)) \in Nat
    BY <2>1, FS_CardinalityType
  <2> QED
    BY <1>1, <1>2, <2>1, <2>2
<1>5. ASSUME NEW i \in S, NEW k \in S, i < k
      PROVE  Cardinality(Below(i)) < Cardinality(Below(k))
  <2>1. /\ IsFiniteSet(Below(k))
        /\ Cardinality(Below(k)) \in 0..Cardinality(S) - 1
        /\ Cardinality(Below(i)) \in 0..Cardinality(S) - 1
    BY <1>4
  <2>2. Cardinality(Below(i)) <= Cardinality(Below(k))
        /\ (Cardinality(Below(k)) = Cardinality(Below(i)) => Below(k) = Below(i))
    BY <1>3, <1>5, <2>1, FS_Subset
  <2> QED
    BY <1>1, <1>2, <1>3, <1>5, <2>1, <2>2
<1> QED
  BY <1>1, <1>4, <1>5 DEF Rank, Below

LEMMA RankExists ==
  ASSUME NEW S \in SUBSET Nat, IsFiniteSet(S), NEW n \in 1..Cardinality(S)
  PROVE  \E i \in S : Rank(S, i) = n - 1
<1> DEFINE f == [i \in S |-> Rank(S, i) + 1]
           T == 1..Cardinality(S)
<1>1. /\ Cardinality(S) \in Nat
      /\ \A i \in S : Rank(S, i) \in 0..Cardinality(S) - 1
      /\ \A i, k \in S : i < k => Rank(S, i) < Rank(S, k)
  BY Ranks
<1>2. f \in [S -> T]
  BY <1>1
<1>3. ASSUME NEW i \in S, NEW k \in S, i # k
      PROVE  f[i] # f[k]
  <2>1. i < k \/ k < i
    BY <1>3
  <2>2. f[i] = Rank(S, i) + 1 /\ f[k] = Rank(S, k) + 1
    OBVIOUS
  <2> HIDE DEF f
  <2> QED
    BY <1>1, <2>1, <2>2
<1>4. IsFiniteSet(T) /\ Cardinality(T) = Cardinality(S)
  BY <1>1, FS_Interval
<1> HIDE DEF f, T
<1>5. f \in Injection(S, T)
  BY <1>2, <1>3 DEF Injection, IsInjective
<1>6. f \in Surjection(S, T)
  BY <1>4, <1>5, FS_Injection
<1>7. PICK i \in S : f[i] = n
  BY <1>6 DEF Surjection, T
<1>8. f[i] = Rank(S, i) + 1
  BY DEF f
<1> QED
  BY <1>1, <1>7, <1>8

\* Ascending lists its set by size.
LEMMA AscendingLists ==
  ASSUME NEW S \in SUBSET Nat, IsFiniteSet(S), NEW R,
         \A i, j \in S : i < j => <<i, j>> \in R
  PROVE  Lists(Ascending(S), S, R) /\ Len(Ascending(S)) = Cardinality(S)
<1> DEFINE a == Ascending(S)
<1>1. /\ Cardinality(S) \in Nat
      /\ \A i \in S : Rank(S, i) \in 0..Cardinality(S) - 1
      /\ \A i, k \in S : i < k => Rank(S, i) < Rank(S, k)
  BY Ranks
<1>2. a = [n \in 1..Cardinality(S) |-> CHOOSE i \in S : Rank(S, i) = n - 1]
  BY DEF Ascending
<1> HIDE DEF a
<1>3. ASSUME NEW n \in 1..Cardinality(S)
      PROVE  a[n] \in S /\ Rank(S, a[n]) = n - 1
  <2>1. a[n] = CHOOSE i \in S : Rank(S, i) = n - 1
    BY <1>2
  <2>2. \E i \in S : Rank(S, i) = n - 1
    BY RankExists
  <2> QED
    BY <2>1, <2>2
<1>4. a \in Seq(S) /\ Len(a) = Cardinality(S)
  <2>1. a \in [1..Cardinality(S) -> S]
    BY <1>2, <1>3
  <2> QED
    BY <1>1, <2>1
<1>5. ASSUME NEW x \in S
      PROVE  \E n \in 1..Len(a) : a[n] = x
  <2> DEFINE n == Rank(S, x) + 1
  <2>1. n \in 1..Cardinality(S) /\ n - 1 = Rank(S, x)
    BY <1>1
  <2> HIDE DEF n
  <2>2. a[n] \in S /\ Rank(S, a[n]) = Rank(S, x)
    BY <1>3, <2>1
  <2>3. Rank(S, x) \in Int /\ ~(Rank(S, x) < Rank(S, x))
    BY <1>1
  <2>4. ~(x < a[n]) /\ ~(a[n] < x)
    BY <1>1, <2>2, <2>3
  <2>5. x \in Nat /\ a[n] \in Nat
    BY <2>2
  <2>6. x = a[n]
    BY <2>4, <2>5
  <2> QED
    BY <1>4, <2>1, <2>6
<1>6. ASSUME NEW m \in 1..Len(a), NEW n \in 1..Len(a), m < n
      PROVE  <<a[m], a[n]>> \in R
  <2>1. /\ a[m] \in S /\ a[n] \in S
        /\ Rank(S, a[m]) = m - 1 /\ Rank(S, a[n]) = n - 1
    BY <1>3, <1>4
  <2>2. m \in Nat /\ n \in Nat /\ a[m] \in Nat /\ a[n] \in Nat
    <3>1. Len(a) \in Nat
      BY <1>1, <1>4
    <3>2. m \in Nat /\ n \in Nat
      BY <3>1
    <3> QED
      BY <2>1, <3>2
  <2>3. ~(n - 1 < m - 1) /\ m - 1 # n - 1
    BY <1>6, <2>2
  <2>4. ~(a[n] < a[m]) /\ a[n] # a[m]
    BY <1>1, <2>1, <2>3
  <2>5. a[m] < a[n]
    BY <2>2, <2>4
  <2> QED
    BY <2>1, <2>5
<1> QED
  BY <1>4, <1>5, <1>6 DEF Lists, a

LEMMA ListsTogether ==
  ASSUME NEW S, NEW T, NEW R, NEW v, NEW w, Lists(v, S, R), Lists(w, T, R),
         \A x \in S, y \in T : <<x, y>> \in R
  PROVE  Lists(v \o w, S \cup T, R)
<1> DEFINE u == v \o w
<1>1. v \in Seq(S) /\ w \in Seq(T)
  BY DEF Lists
<1>2. /\ Len(u) = Len(v) + Len(w) /\ Len(v) \in Nat /\ Len(w) \in Nat
      /\ \A i \in 1..Len(v) : u[i] = v[i] /\ v[i] \in S
      /\ \A i \in Len(v) + 1..Len(v) + Len(w) : u[i] = w[i - Len(v)] /\ i - Len(v) \in 1..Len(w) /\ w[i - Len(v)] \in T
  BY <1>1
<1>3. u \in Seq(S \cup T)
  <2>1. v \in Seq(S \cup T) /\ w \in Seq(S \cup T)
    BY <1>1
  <2> QED
    BY <2>1
<1> HIDE DEF u
<1>4. ASSUME NEW x \in S \cup T
      PROVE  \E i \in 1..Len(u) : u[i] = x
  <2>1. CASE x \in S
    <3>1. PICK i \in 1..Len(v) : v[i] = x
      BY <2>1 DEF Lists
    <3> QED
      BY <1>2, <3>1
  <2>2. CASE x \in T
    <3>1. PICK i \in 1..Len(w) : w[i] = x
      BY <2>2 DEF Lists
    <3>2. Len(v) + i \in Len(v) + 1..Len(v) + Len(w) /\ Len(v) + i - Len(v) = i /\ Len(v) + i \in 1..Len(u)
      BY <1>2
    <3>3. u[Len(v) + i] = w[i]
      BY <1>2, <3>2
    <3> QED
      BY <3>1, <3>2, <3>3
  <2> QED
    BY <2>1, <2>2
<1>5. ASSUME NEW i \in 1..Len(u), NEW j \in 1..Len(u), i < j
      PROVE  <<u[i], u[j]>> \in R
  <2>1. i \in Nat /\ j \in Nat /\ i <= Len(u) /\ j <= Len(u) /\ 1 <= i
    BY <1>2
  <2>2. CASE j <= Len(v)
    <3>1. i \in 1..Len(v) /\ j \in 1..Len(v)
      BY <1>2, <1>5, <2>1, <2>2
    <3> QED
      BY <1>2, <1>5, <3>1 DEF Lists
  <2>3. CASE i <= Len(v) /\ Len(v) < j
    <3>1. i \in 1..Len(v) /\ j \in Len(v) + 1..Len(v) + Len(w)
      BY <1>2, <2>1, <2>3
    <3> QED
      BY <1>2, <3>1
  <2>4. CASE Len(v) < i
    <3>1. i \in Len(v) + 1..Len(v) + Len(w) /\ j \in Len(v) + 1..Len(v) + Len(w)
      BY <1>2, <1>5, <2>1, <2>4
    <3>2. i - Len(v) < j - Len(v)
      BY <1>2, <1>5, <2>1
    <3> DEFINE k == i - Len(v)
               m == j - Len(v)
    <3>3. k \in 1..Len(w) /\ m \in 1..Len(w) /\ u[i] = w[k] /\ u[j] = w[m]
      BY <1>2, <3>1
    <3> HIDE DEF k, m
    <3>4. k < m
      BY <3>2 DEF k, m
    <3>5. <<w[k], w[m]>> \in R
      BY <3>3, <3>4 DEF Lists
    <3> QED
      BY <3>3, <3>5
  <2> QED
    BY <1>2, <2>1, <2>2, <2>3, <2>4
<1> QED
  BY <1>3, <1>4, <1>5 DEF Lists, u

\* Where a listing has an element: behind those that come before it.
LEMMA ListedAt ==
  ASSUME NEW S, NEW R, NEW w, Lists(w, S, R), Asymmetric(R)
  PROVE  /\ IsFiniteSet(S) /\ Cardinality(S) = Len(w)
         /\ \A i, j \in 1..Len(w) : w[i] = w[j] => i = j
         /\ \A i, j \in 1..Len(w) : <<w[i], w[j]>> \in R <=> i < j
         /\ \A i \in 1..Len(w) : Cardinality({x \in S : <<x, w[i]>> \in R}) = i - 1
<1>1. w \in Seq(S) /\ Len(w) \in Nat /\ w = [i \in 1..Len(w) |-> w[i]]
  BY DEF Lists
<1>2. \A i \in 1..Len(w) : w[i] \in S
  BY <1>1
<1>3. \A i, j \in 1..Len(w) : i < j => <<w[i], w[j]>> \in R
  BY DEF Lists
<1>4. \A x : <<x, x>> \notin R
  BY DEF Asymmetric
<1>5. ASSUME NEW i \in 1..Len(w), NEW j \in 1..Len(w)
      PROVE  /\ w[i] = w[j] => i = j
             /\ <<w[i], w[j]>> \in R <=> i < j
  <2>1. i < j \/ i = j \/ j < i
    OBVIOUS
  <2>2. CASE i < j
    BY <1>3, <1>4, <2>2
  <2>3. CASE i = j
    BY <1>4, <2>3
  <2>4. CASE j < i
    <3>1. <<w[j], w[i]>> \in R /\ ~(i < j)
      BY <1>3, <2>4
    <3> QED
      BY <1>4, <3>1 DEF Asymmetric
  <2> QED
    BY <2>1, <2>2, <2>3, <2>4
<1>6. ASSUME NEW n \in 0..Len(w), NEW T, T = {w[i] : i \in 1..n}
      PROVE  IsFiniteSet(T) /\ Cardinality(T) = n
  <2> DEFINE f == [i \in 1..n |-> w[i]]
  <2>1. f \in [1..n -> T]
    BY <1>6
  <2>2. \A i, j \in 1..n : f[i] = f[j] => i = j
    <3>1. \A i \in 1..n : i \in 1..Len(w)
      BY <1>1
    <3> QED
      BY <1>5, <3>1
  <2>3. \A x \in T : \E i \in 1..n : f[i] = x
    BY <1>6
  <2> HIDE DEF f
  <2>4. f \in Bijection(1..n, T)
    BY <2>1, <2>2, <2>3 DEF Bijection, Injection, Surjection, IsInjective
  <2>5. IsFiniteSet(1..n) /\ Cardinality(1..n) = n
    BY <1>1, FS_Interval
  <2> QED
    BY <2>4, <2>5, FS_Bijection DEF ExistsBijection
<1>7. S = {w[i] : i \in 1..Len(w)}
  BY <1>2 DEF Lists
<1>8. IsFiniteSet(S) /\ Cardinality(S) = Len(w)
  BY <1>1, <1>6, <1>7
<1>9. ASSUME NEW i \in 1..Len(w)
      PROVE  Cardinality({x \in S : <<x, w[i]>> \in R}) = i - 1
  <2> DEFINE T == {x \in S : <<x, w[i]>> \in R}
  <2>1. i - 1 \in 0..Len(w) /\ \A j \in 1..Len(w) : j < i <=> j \in 1..i - 1
    BY <1>1
  <2>2. \A j \in 1..i - 1 : j \in 1..Len(w)
    BY <1>1
  <2>3. T = {w[j] : j \in 1..i - 1}
    BY <1>2, <1>5, <1>7, <2>1, <2>2
  <2> HIDE DEF T
  <2>4. Cardinality(T) = i - 1
    BY <1>6, <2>1, <2>3
  <2> QED
    BY <2>4 DEF T
<1> QED
  BY <1>5, <1>8, <1>9

\* What is chosen from a sequence is the sequence along the listing.
LEMMA ChosenIs ==
  ASSUME NEW E, NEW es \in Seq(E), NEW S \in SUBSET (1..Len(es))
  PROVE  /\ IsFiniteSet(S) /\ S \in SUBSET Nat
         /\ Chosen(es, S) \in Seq(E) /\ Len(Chosen(es, S)) = Len(Ascending(S))
         /\ \A n \in 1..Len(Ascending(S)) : Chosen(es, S)[n] = es[Ascending(S)[n]]
<1>1. Len(es) \in Nat /\ S \in SUBSET Nat
  OBVIOUS
<1>2. IsFiniteSet(1..Len(es))
  BY <1>1, FS_Interval
<1>3. IsFiniteSet(S)
  BY <1>2, FS_Subset
<1> DEFINE R == {e \in Nat \X Nat : e[1] < e[2]}
<1>4. \A i, j \in S : i < j => <<i, j>> \in R
  BY <1>1
<1>5. Lists(Ascending(S), S, R) /\ Len(Ascending(S)) = Cardinality(S)
  <2> HIDE DEF R
  <2> QED
    BY <1>1, <1>3, <1>4, AscendingLists
<1>6. \A n \in 1..Cardinality(S) : es[Ascending(S)[n]] \in E
  <2>1. Ascending(S) \in Seq(S)
    BY <1>5 DEF Lists
  <2>2. \A n \in 1..Cardinality(S) : Ascending(S)[n] \in S
    BY <1>5, <2>1
  <2>3. \A i \in S : i \in 1..Len(es)
    OBVIOUS
  <2>4. \A i \in 1..Len(es) : es[i] \in E
    OBVIOUS
  <2> QED
    BY <2>2, <2>3, <2>4
<1>7. Chosen(es, S) \in Seq(E) /\ Len(Chosen(es, S)) = Cardinality(S)
  <2>1. Cardinality(S) \in Nat
    BY <1>3, FS_CardinalityType
  <2> QED
    BY <1>6, <2>1 DEF Chosen
<1> QED
  BY <1>1, <1>3, <1>5, <1>7 DEF Chosen

(***************************************************************************)
(* A sequence u of elements of es, taken at the positions w.               *)
(***************************************************************************)
Along(u, es, w) ==
  /\ Len(u) = Len(w) /\ Len(w) \in Nat
  /\ \A n \in 1..Len(w) : u[n] = es[w[n]]

LEMMA ChosenAlong ==
  ASSUME NEW E, NEW es \in Seq(E), NEW S \in SUBSET (1..Len(es))
  PROVE  Along(Chosen(es, S), es, Ascending(S))
<1>1. Cardinality(S) \in Nat
  BY ChosenIs, FS_CardinalityType
<1> QED
  BY <1>1 DEF Along, Chosen, Ascending

LEMMA AlongTogether ==
  ASSUME NEW es, NEW E, NEW I, NEW u \in Seq(E), NEW v \in Seq(I), Along(u, es, v),
         NEW x \in Seq(E), NEW y \in Seq(I), Along(x, es, y)
  PROVE  Along(u \o x, es, v \o y)
<1> DEFINE m == Len(u)
           n == Len(x)
<1>1. m \in Nat /\ n \in Nat /\ Len(v) = m /\ Len(y) = n
  BY DEF Along
<1>2. u \o x \in Seq(E) /\ v \o y \in Seq(I) /\ Len(u \o x) = m + n /\ Len(v \o y) = m + n
  BY <1>1
<1>3. ASSUME NEW k \in 1..m + n
      PROVE  (u \o x)[k] = es[(v \o y)[k]]
  <2>1. CASE k \in 1..m
    <3>1. (u \o x)[k] = u[k] /\ (v \o y)[k] = v[k]
      BY <1>1, <2>1
    <3> QED
      BY <1>1, <2>1, <3>1 DEF Along
  <2>2. CASE k \notin 1..m
    <3>1. k - m \in 1..n
      BY <1>1, <2>2
    <3>2. (u \o x)[k] = x[k - m] /\ (v \o y)[k] = y[k - m]
      BY <1>1, <2>2
    <3>3. x[k - m] = es[y[k - m]]
      BY <1>1, <3>1 DEF Along
    <3> QED
      BY <3>2, <3>3
  <2> QED
    BY <2>1, <2>2
<1> HIDE DEF m, n
<1>4. m + n \in Nat
  BY <1>1
<1> DEFINE a == u \o x
           b == v \o y
<1> HIDE DEF a, b
<1>5. Len(a) = Len(b) /\ Len(b) \in Nat /\ \A k \in 1..Len(b) : a[k] = es[b[k]]
  BY <1>2, <1>3, <1>4 DEF a, b
<1>6. Along(a, es, b)
  BY <1>5 DEF Along
<1> QED
  BY <1>6 DEF a, b
=============================================================================
