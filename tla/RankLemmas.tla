----------------------------- MODULE RankLemmas -----------------------------
(* Places in a finite list: an element's rank is the number of those listed *)
(* before it, which is how pages of a listing are cut.  The order is given  *)
(* as the set of pairs <<x, y>> with x before y.                            *)
EXTENDS Integers, FiniteSetTheorems, TLAPS

Before(x, S, R) == {y \in S : <<y, x>> \in R}
Rank(x, S, R) == Cardinality(Before(x, S, R))

\* The elements at the places from a to b - 1.
Between(a, b, S, R) == {x \in S : Rank(x, S, R) \in a..(b - 1)}

OrdersStrictly(R, S) ==
  /\ \A x \in S : <<x, x>> \notin R
  /\ \A x, y, z \in S : <<x, y>> \in R /\ <<y, z>> \in R => <<x, z>> \in R
  /\ \A x, y \in S : x # y => <<x, y>> \in R \/ <<y, x>> \in R

\* Ranks go with the order, and no two elements share one.
LEMMA RanksApart ==
  ASSUME NEW S, NEW R, IsFiniteSet(S), OrdersStrictly(R, S)
  PROVE  /\ Cardinality(S) \in Nat
         /\ \A x \in S : Rank(x, S, R) \in 0..(Cardinality(S) - 1)
         /\ \A x, y \in S : <<x, y>> \in R <=> Rank(x, S, R) < Rank(y, S, R)
         /\ \A x, y \in S : Rank(x, S, R) = Rank(y, S, R) => x = y
<1>1. ASSUME NEW x \in S
      PROVE  /\ IsFiniteSet(Before(x, S, R)) /\ Rank(x, S, R) \in Nat
             /\ Rank(x, S, R) < Cardinality(S) /\ Cardinality(S) \in Nat
  <2>1. Before(x, S, R) \in SUBSET S /\ Before(x, S, R) # S
    BY DEF Before, OrdersStrictly
  <2> QED BY <2>1, FS_Subset, FS_CardinalityType DEF Rank
<1>2. ASSUME NEW x \in S, NEW y \in S, <<x, y>> \in R
      PROVE  Rank(x, S, R) < Rank(y, S, R)
  <2>1. Before(x, S, R) \in SUBSET Before(y, S, R) /\ Before(x, S, R) # Before(y, S, R)
    BY <1>2 DEF Before, OrdersStrictly
  <2> QED BY <1>1, <2>1, FS_Subset DEF Rank
<1>3. ASSUME NEW x \in S, NEW y \in S
      PROVE  /\ <<x, y>> \in R <=> Rank(x, S, R) < Rank(y, S, R)
             /\ Rank(x, S, R) = Rank(y, S, R) => x = y
  <2>1. Rank(x, S, R) \in Nat /\ Rank(y, S, R) \in Nat
    BY <1>1
  <2>2. x = y \/ <<x, y>> \in R \/ <<y, x>> \in R
    BY DEF OrdersStrictly
  <2>3. CASE x = y
    BY <2>1, <2>3 DEF OrdersStrictly
  <2>4. CASE <<x, y>> \in R
    BY <1>2, <2>1, <2>4
  <2>5. CASE <<y, x>> \in R
    <3>1. Rank(y, S, R) < Rank(x, S, R)
      BY <1>2, <2>5
    <3>2. <<x, y>> \in R => Rank(x, S, R) < Rank(y, S, R)
      BY <1>2
    <3> QED BY <2>1, <3>1, <3>2
  <2> QED BY <2>2, <2>3, <2>4, <2>5
<1>4. \A x \in S : Rank(x, S, R) \in 0..(Cardinality(S) - 1)
  BY <1>1
<1> QED BY <1>3, <1>4, FS_CardinalityType

\* No place is left empty.
LEMMA RanksFill ==
  ASSUME NEW S, NEW R, IsFiniteSet(S), OrdersStrictly(R, S)
  PROVE  \A k \in 0..(Cardinality(S) - 1) : \E x \in S : Rank(x, S, R) = k
<1> DEFINE n == Cardinality(S)
           T == 0..(n - 1)
           f == [x \in S |-> Rank(x, S, R)]
<1>1. n \in Nat /\ f \in [S -> T] /\ \A x, y \in S : f[x] = f[y] => x = y
  BY RanksApart
<1>2. IsFiniteSet(T) /\ Cardinality(T) = n
  BY <1>1, FS_Interval
<1>3. f \in Injection(S, T)
  BY <1>1 DEF Injection, IsInjective
<1>4. f \in Surjection(S, T)
  BY <1>2, <1>3, FS_Injection
<1>5. ASSUME NEW k \in T PROVE \E x \in S : Rank(x, S, R) = k
  BY <1>4 DEF Surjection
<1> QED BY <1>5

\* No more elements than places, and as many when the list goes that far.
LEMMA RanksBetween ==
  ASSUME NEW S, NEW R, IsFiniteSet(S), OrdersStrictly(R, S),
         NEW a \in Nat, NEW b \in Nat, a <= b
  PROVE  /\ IsFiniteSet(Between(a, b, S, R)) /\ Cardinality(Between(a, b, S, R)) \in Nat
         /\ Cardinality(Between(a, b, S, R)) <= b - a
         /\ b <= Cardinality(S) => Cardinality(Between(a, b, S, R)) = b - a
<1> DEFINE U == {x \in S : Rank(x, S, R) \in a..(b - 1)}
           T == a..(b - 1)
           f == [x \in U |-> Rank(x, S, R)]
<1>1. U \in SUBSET S /\ IsFiniteSet(U) /\ Cardinality(U) \in Nat
  BY FS_Subset, FS_CardinalityType
<1>2. IsFiniteSet(T) /\ Cardinality(T) = b - a
  <2>1. a \in Int /\ b - 1 \in Int
    OBVIOUS
  <2>2. IsFiniteSet(T) /\ Cardinality(T) = IF a > b - 1 THEN 0 ELSE b - 1 - a + 1
    BY <2>1, FS_Interval
  <2> QED BY <2>2
<1>3. f \in Injection(U, T)
  BY RanksApart DEF Injection, IsInjective
<1>4. Cardinality(U) <= b - a
  BY <1>1, <1>2, <1>3, FS_Injection
<1>5. ASSUME b <= Cardinality(S)
      PROVE  Cardinality(U) = b - a
  <2>1. \A k \in T : \E x \in U : f[x] = k
    <3> SUFFICES ASSUME NEW k \in T PROVE \E x \in U : f[x] = k
      OBVIOUS
    <3>1. k \in 0..(Cardinality(S) - 1)
      BY <1>5, FS_CardinalityType
    <3>2. PICK x \in S : Rank(x, S, R) = k
      BY <3>1, RanksFill
    <3> QED BY <3>2
  <2>2. f \in Surjection(U, T)
    BY <1>3, <2>1 DEF Surjection, Injection
  <2> QED BY <1>2, <1>3, <2>2, FS_Injection
<1> QED BY <1>1, <1>4, <1>5 DEF Between

\* A list by rank has every element once.
Ranked(k, S, R) == CHOOSE x \in S : Rank(x, S, R) = k - 1

LEMMA RanksList ==
  ASSUME NEW S, NEW R, IsFiniteSet(S), OrdersStrictly(R, S)
  PROVE  /\ Cardinality(S) \in Nat
         /\ \A k \in 1..Cardinality(S) : Ranked(k, S, R) \in S
         /\ \A x \in S : \E k \in 1..Cardinality(S) : Ranked(k, S, R) = x
<1>1. Cardinality(S) \in Nat
  BY FS_CardinalityType
<1>2. ASSUME NEW k \in 1..Cardinality(S)
      PROVE  Ranked(k, S, R) \in S /\ Rank(Ranked(k, S, R), S, R) = k - 1
  <2>1. k - 1 \in 0..(Cardinality(S) - 1)
    BY <1>1
  <2>2. \E x \in S : Rank(x, S, R) = k - 1
    BY <2>1, RanksFill
  <2> QED BY <2>2 DEF Ranked
<1>3. ASSUME NEW x \in S PROVE \E k \in 1..Cardinality(S) : Ranked(k, S, R) = x
  <2>1. Rank(x, S, R) \in 0..(Cardinality(S) - 1)
    BY RanksApart
  <2>2. Rank(x, S, R) + 1 \in 1..Cardinality(S) /\ (Rank(x, S, R) + 1) - 1 = Rank(x, S, R)
    BY <1>1, <2>1
  <2>3. PICK k \in 1..Cardinality(S) : k - 1 = Rank(x, S, R)
    BY <2>2
  <2>4. Ranked(k, S, R) \in S /\ Rank(Ranked(k, S, R), S, R) = Rank(x, S, R)
    BY <1>2, <2>3
  <2> QED BY <2>4, RanksApart
<1> QED BY <1>1, <1>2, <1>3

\* A finite set of numbers that is not empty has a greatest.
LEMMA HasGreatest ==
  ASSUME NEW S \in SUBSET Nat, IsFiniteSet(S), S # {}
  PROVE  \E d \in S : \A e \in S : e <= d
<1> DEFINE R == {p \in S \X S : p[1] > p[2]}
<1>1. OrdersStrictly(R, S)
  BY DEF OrdersStrictly
<1>2. Cardinality(S) \in Nat /\ Cardinality(S) # 0
  BY FS_CardinalityType, FS_EmptySet
<1>3. PICK d \in S : Rank(d, S, R) = 0
  <2>1. 0 \in 0..(Cardinality(S) - 1)
    BY <1>2
  <2> HIDE DEF R
  <2> QED BY <1>1, <2>1, RanksFill
<1>4. ASSUME NEW e \in S PROVE e <= d
  <2>1. Rank(e, S, R) \in Nat
    BY <1>1, RanksApart
  <2>2. <<e, d>> \notin R
    BY <1>1, <1>3, <2>1, RanksApart
  <2> QED BY <2>2
<1> QED BY <1>4
=============================================================================
