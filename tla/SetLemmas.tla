------------------------------- MODULE SetLemmas -------------------------------
(***************************************************************************)
(* Facts about finite sets and lists.  The community modules define        *)
(* MapThenSumSet by a recursive function; for natural numbers the sum of F *)
(* over S is the number of pairs of an element x of S and a number of      *)
(* 1..F[x], so what is known of Cardinality gives what it does to a sum to *)
(* add an element to the set.  InOrder of Orders sorts.                    *)
(*                                                                         *)
(* A list that a recursive function gathers one step at a time, as Chosen  *)
(* of Orders does, is a value of that function: that there is one, and     *)
(* what its values are, is shown with a least counterexample.              *)
(***************************************************************************)
EXTENDS Orders, Integers, FiniteSetsExt, FiniteSetTheorems, SequenceTheorems, WellFoundedInduction, TLAPS

\* The sum of F over S.
Sum(F, S) == MapThenSumSet(LAMBDA x : F[x], S)

\* Its units: for each x of S one pair for each number up to F[x].
Units(F, S) == {u \in S \X Nat : u[2] \in 1..F[u[1]]}

\* A set of subsets of a finite set has a least one: what takes the place of
\* an induction over the set.
LEMMA LeastSubset ==
    ASSUME NEW T, IsFiniteSet(T), NEW W, W \subseteq SUBSET T, W # {}
    PROVE  \E S \in W : \A x \in S : S \ {x} \notin W
<1>1. IsWellFoundedOn(StrictSubsetOrdering(T), SUBSET T)
  BY FS_StrictSubsetOrderingWellFounded, FS_FiniteSubsetsOfFinite
<1>2. PICK S \in W : \A U \in W : <<U, S>> \notin StrictSubsetOrdering(T)
  BY <1>1, WFMin
<1>3. ASSUME NEW x \in S, S \ {x} \in W PROVE FALSE
  <2>1. S \in SUBSET T /\ S \ {x} \in SUBSET T /\ S \ {x} \subseteq S /\ S \ {x} # S
    BY <1>3
  <2>2. <<S \ {x}, S>> \in StrictSubsetOrdering(T)
    BY <2>1 DEF StrictSubsetOrdering
  <2> QED BY <1>2, <1>3, <2>2
<1> QED BY <1>3

\* One element more: its units are added.
LEMMA UnitsAdd ==
    ASSUME NEW T, NEW F \in [T -> Nat], NEW S \in SUBSET T, NEW x \in T \ S, IsFiniteSet(Units(F, S))
    PROVE  /\ IsFiniteSet(Units(F, S \cup {x}))
           /\ Cardinality(Units(F, S \cup {x})) = Cardinality(Units(F, S)) + F[x]
<1> DEFINE new == {x} \X (1..F[x])
<1>1. F[x] \in Nat
  OBVIOUS
<1>2. Units(F, S \cup {x}) = Units(F, S) \cup new /\ Units(F, S) \cap new = {}
  BY <1>1 DEF Units
<1>3. IsFiniteSet(1..F[x]) /\ Cardinality(1..F[x]) = F[x]
  BY <1>1, FS_Interval
<1>4. IsFiniteSet(new) /\ Cardinality(new) = F[x]
  <2>1. IsFiniteSet({x}) /\ Cardinality({x}) = 1
    BY FS_Singleton
  <2>2. IsFiniteSet(new) /\ Cardinality(new) = 1 * F[x]
    BY <1>3, <2>1, FS_Product
  <2> QED BY <1>1, <2>2
<1> HIDE DEF new
<1>5. Cardinality(Units(F, S)) \in Nat /\ Cardinality({}) = 0
  BY FS_CardinalityType, FS_EmptySet
<1>6. /\ IsFiniteSet(Units(F, S) \cup new)
      /\ Cardinality(Units(F, S) \cup new) =
            Cardinality(Units(F, S)) + Cardinality(new) - Cardinality(Units(F, S) \cap new)
  BY <1>4, FS_Union
<1>7. Cardinality(Units(F, S) \cap new) = 0
  BY <1>2, <1>5
<1>8. Cardinality(Units(F, S) \cup new) = Cardinality(Units(F, S)) + F[x]
  <2> DEFINE a == Cardinality(Units(F, S) \cup new)
             b == Cardinality(Units(F, S))
             c == Cardinality(new)
             d == Cardinality(Units(F, S) \cap new)
  <2>1. a = b + c - d /\ b \in Nat /\ c = F[x] /\ d = 0
    BY <1>4, <1>5, <1>6, <1>7
  <2> HIDE DEF a, b, c, d
  <2>2. a = b + F[x]
    BY <1>1, <2>1
  <2> QED BY <2>2 DEF a, b
<1> QED BY <1>2, <1>6, <1>8

\* There are finitely many units over a finite set.
LEMMA UnitsFinite ==
    ASSUME NEW T, IsFiniteSet(T), NEW F \in [T -> Nat], NEW S \in SUBSET T
    PROVE  IsFiniteSet(Units(F, S)) /\ Cardinality(Units(F, S)) \in Nat
<1> DEFINE W == {U \in SUBSET T : ~IsFiniteSet(Units(F, U))}
<1>1. W = {}
  <2> SUFFICES ASSUME W # {} PROVE FALSE
    OBVIOUS
  <2>1. PICK U \in W : \A x \in U : U \ {x} \notin W
    <3> HIDE DEF W
    <3>1. W \subseteq SUBSET T
      BY DEF W
    <3> QED BY <3>1, LeastSubset
  <2>2. CASE U = {}
    <3>1. Units(F, U) = {}
      BY <2>2 DEF Units
    <3> QED BY <3>1, FS_EmptySet
  <2>3. ASSUME NEW x \in U PROVE FALSE
    <3>1. U \ {x} \in SUBSET T /\ x \in T \ (U \ {x}) /\ (U \ {x}) \cup {x} = U
      OBVIOUS
    <3>2. IsFiniteSet(Units(F, U \ {x}))
      BY <2>1, <3>1
    <3>3. IsFiniteSet(Units(F, (U \ {x}) \cup {x}))
      BY <3>1, <3>2, UnitsAdd
    <3> QED BY <3>1, <3>3
  <2> QED BY <2>2, <2>3
<1>2. IsFiniteSet(Units(F, S))
  BY <1>1
<1> QED BY <1>2, FS_CardinalityType

\* MapThenSumSet as its modules define it.
LEMMA SumUnfold ==
    ASSUME NEW F, NEW S
    PROVE  Sum(F, S) = (CHOOSE iter :
              iter = [s \in SUBSET S |->
                        IF s = {} THEN 0
                        ELSE F[CHOOSE x \in s : TRUE] + iter[s \ {CHOOSE x \in s : TRUE}]])[S]
BY Zenon DEF Sum, MapThenSumSet, MapThenFoldSet

\* Whatever element the fold chooses next, what it returns is the number of units.
LEMMA SumIsUnits ==
    ASSUME NEW T, IsFiniteSet(T), NEW F \in [T -> Nat], NEW S \in SUBSET T
    PROVE  Sum(F, S) = Cardinality(Units(F, S))
<1> DEFINE first(s) == CHOOSE x \in s : TRUE
           Step(f) == [s \in SUBSET S |-> IF s = {} THEN 0 ELSE F[first(s)] + f[s \ {first(s)}]]
           count == [s \in SUBSET S |-> Cardinality(Units(F, s))]
           iter == CHOOSE f : f = Step(f)
<1>1. Sum(F, S) = iter[S]
  BY SumUnfold, Zenon
<1>2. \A s : s # {} => first(s) \in s
  OBVIOUS
<1> HIDE DEF first
<1>3. ASSUME NEW s \in SUBSET S, s # {}
      PROVE  count[s] = F[first(s)] + count[s \ {first(s)}]
  <2> DEFINE x == first(s)
  <2>1. s \ {x} \in SUBSET T /\ x \in T \ (s \ {x}) /\ (s \ {x}) \cup {x} = s /\ s \ {x} \in SUBSET S
    BY <1>2, <1>3
  <2>2. IsFiniteSet(Units(F, s \ {x})) /\ Cardinality(Units(F, s \ {x})) \in Nat /\ F[x] \in Nat
    BY <2>1, UnitsFinite
  <2> DEFINE r == s \ {x}
  <2>3. Cardinality(Units(F, r \cup {x})) = Cardinality(Units(F, r)) + F[x]
    <3>1. r \in SUBSET T /\ x \in T \ r /\ IsFiniteSet(Units(F, r))
      BY <2>1, <2>2
    <3> HIDE DEF r, x
    <3> QED BY <3>1, UnitsAdd
  <2> QED BY <1>3, <2>1, <2>2, <2>3
<1>4. count[{}] = 0
  <2>1. Units(F, {}) = {}
    BY DEF Units
  <2> QED BY <2>1, FS_EmptySet
<1>5. count = Step(count)
  <2>1. DOMAIN count = SUBSET S /\ DOMAIN Step(count) = SUBSET S
    OBVIOUS
  <2>2. \A s \in SUBSET S : count[s] = Step(count)[s]
    BY <1>3, <1>4
  <2>3. count = [s \in SUBSET S |-> count[s]] /\ Step(count) = [s \in SUBSET S |-> Step(count)[s]]
    OBVIOUS
  <2> QED BY <2>2, <2>3
<1>6. iter = Step(iter)
  <2> HIDE DEF count, Step
  <2> QED BY <1>5
<1> HIDE DEF iter
<1>7. /\ iter[{}] = 0
      /\ \A s \in SUBSET S : s # {} => iter[s] = F[first(s)] + iter[s \ {first(s)}]
  <2>1. \A s \in SUBSET S : iter[s] = Step(iter)[s]
    BY <1>6
  <2> QED BY <2>1
<1> HIDE DEF Step
<1> DEFINE W == {s \in SUBSET S : iter[s] # count[s]}
<1>8. W = {}
  <2> SUFFICES ASSUME W # {} PROVE FALSE
    OBVIOUS
  <2>1. PICK U \in W : \A x \in U : U \ {x} \notin W
    <3>1. W \subseteq SUBSET T
      OBVIOUS
    <3> HIDE DEF W
    <3> QED BY <3>1, LeastSubset
  <2>2. CASE U = {}
    BY <1>4, <1>7, <2>2
  <2>3. CASE U # {}
    <3>1. U \in SUBSET S /\ first(U) \in U /\ U \ {first(U)} \in SUBSET S
      BY <1>2, <2>3
    <3>2. iter[U \ {first(U)}] = count[U \ {first(U)}]
      BY <2>1, <3>1
    <3> QED BY <1>3, <1>7, <2>3, <3>1, <3>2
  <2> QED BY <2>2, <2>3
<1>9. iter[S] = count[S]
  BY <1>8
<1> QED BY <1>1, <1>9

-------------------------------------------------------------------------------
\* A sum is a number, that of nothing is zero, and an element that is added
\* adds its number.
THEOREM SumOverSet ==
    ASSUME NEW T, IsFiniteSet(T), NEW F \in [T -> Nat], NEW S \in SUBSET T
    PROVE  /\ Sum(F, S) \in Nat
           /\ S = {} => Sum(F, S) = 0
           /\ \A x \in T \ S : Sum(F, S \cup {x}) = Sum(F, S) + F[x]
<1>1. Sum(F, S) \in Nat
  BY SumIsUnits, UnitsFinite
<1>2. ASSUME S = {} PROVE Sum(F, S) = 0
  <2>1. Units(F, S) = {}
    BY <1>2 DEF Units
  <2> QED BY <2>1, SumIsUnits, FS_EmptySet
<1>3. ASSUME NEW x \in T \ S PROVE Sum(F, S \cup {x}) = Sum(F, S) + F[x]
  <2>1. S \cup {x} \in SUBSET T
    OBVIOUS
  <2> QED BY <2>1, SumIsUnits, UnitsFinite, UnitsAdd
<1> QED BY <1>1, <1>2, <1>3

\* A larger set has a larger sum.
THEOREM SumMonotone ==
    ASSUME NEW T, IsFiniteSet(T), NEW F \in [T -> Nat], NEW S \in SUBSET T, NEW R \in SUBSET S
    PROVE  Sum(F, R) <= Sum(F, S)
<1>1. R \in SUBSET T /\ Units(F, R) \in SUBSET Units(F, S)
  BY DEF Units
<1> QED BY <1>1, SumIsUnits, UnitsFinite, FS_Subset

\* Sums depend on the numbers alone, and zeros do not count.
LEMMA SumSame ==
    ASSUME NEW T, IsFiniteSet(T), NEW F \in [T -> Nat], NEW U, IsFiniteSet(U), NEW G \in [U -> Nat],
           NEW S \in SUBSET T, NEW R \in SUBSET U,
           \A x \in S \cap R : F[x] = G[x], \A x \in S \ R : F[x] = 0, \A x \in R \ S : G[x] = 0
    PROVE  Sum(F, S) = Sum(G, R)
<1>1. Units(F, S) = Units(G, R)
  <2>1. \A x \in S, k \in Nat : k \in 1..F[x] => x \in R /\ k \in 1..G[x]
    OBVIOUS
  <2>2. \A x \in R, k \in Nat : k \in 1..G[x] => x \in S /\ k \in 1..F[x]
    OBVIOUS
  <2> QED BY <2>1, <2>2 DEF Units
<1> QED BY <1>1, SumIsUnits

\* A sum that is not zero has a number that is not.
LEMMA SumPositive ==
    ASSUME NEW T, IsFiniteSet(T), NEW F \in [T -> Nat], NEW S \in SUBSET T, \A x \in S : F[x] = 0
    PROVE  Sum(F, S) = 0
<1>1. Units(F, S) = {}
  BY DEF Units
<1> QED BY <1>1, SumIsUnits, FS_EmptySet

\* The sum over two sets that share nothing is the sum of their sums.
LEMMA SumUnion ==
    ASSUME NEW T, IsFiniteSet(T), NEW F \in [T -> Nat], NEW S \in SUBSET T, NEW R \in SUBSET T, S \cap R = {}
    PROVE  Sum(F, S \cup R) = Sum(F, S) + Sum(F, R)
<1> DEFINE A == Units(F, S)
           B == Units(F, R)
<1>1. Units(F, S \cup R) = A \cup B /\ A \cap B = {}
  BY DEF Units
<1>2. /\ IsFiniteSet(A) /\ IsFiniteSet(B) /\ Cardinality(A) \in Nat /\ Cardinality(B) \in Nat
      /\ Sum(F, S) = Cardinality(A) /\ Sum(F, R) = Cardinality(B)
      /\ Sum(F, S \cup R) = Cardinality(Units(F, S \cup R))
  BY UnitsFinite, SumIsUnits
<1> HIDE DEF A, B
<1>3. Cardinality(A \cup B) = Cardinality(A) + Cardinality(B) - Cardinality(A \cap B)
  BY <1>2, FS_Union
<1>4. Cardinality(A \cap B) = 0
  BY <1>1, FS_EmptySet
<1>5. Cardinality(A \cup B) = Cardinality(A) + Cardinality(B)
  BY <1>2, <1>3, <1>4
<1> QED BY <1>1, <1>2, <1>5

\* The sum of a constant.
LEMMA SumConstant ==
    ASSUME NEW T, IsFiniteSet(T), NEW F \in [T -> Nat], NEW S \in SUBSET T, NEW c \in Nat, \A x \in S : F[x] = c
    PROVE  Sum(F, S) = Cardinality(S) * c
<1>1. Units(F, S) = S \X (1..c)
  BY DEF Units
<1>2. IsFiniteSet(S) /\ IsFiniteSet(1..c) /\ Cardinality(1..c) = c
  BY FS_Subset, FS_Interval
<1>3. Cardinality(S \X (1..c)) = Cardinality(S) * Cardinality(1..c)
  BY <1>2, FS_Product
<1>4. Sum(F, S) = Cardinality(Units(F, S))
  BY SumIsUnits
<1>5. Sum(F, S) = Cardinality(S) * Cardinality(1..c)
  BY <1>1, <1>3, <1>4
<1> QED BY <1>2, <1>5

\* The sum of sums.
LEMMA SumAdd ==
    ASSUME NEW T, IsFiniteSet(T), NEW F \in [T -> Nat], NEW G \in [T -> Nat], NEW H \in [T -> Nat],
           \A x \in T : H[x] = F[x] + G[x]
    PROVE  Sum(H, T) = Sum(F, T) + Sum(G, T)
<1> DEFINE W == {U \in SUBSET T : Sum(H, U) # Sum(F, U) + Sum(G, U)}
<1>1. W = {}
  <2> SUFFICES ASSUME W # {} PROVE FALSE
    OBVIOUS
  <2>1. PICK U \in W : \A x \in U : U \ {x} \notin W
    <3>1. W \subseteq SUBSET T
      OBVIOUS
    <3> HIDE DEF W
    <3> QED BY <3>1, LeastSubset
  <2>2. CASE U = {}
    BY <2>2, SumOverSet
  <2>3. ASSUME NEW x \in U PROVE FALSE
    <3> DEFINE r == U \ {x}
    <3>1. r \in SUBSET T /\ x \in T /\ x \in T \ r /\ r \cup {x} = U /\ U \in SUBSET T
      OBVIOUS
    <3>2. Sum(H, r) = Sum(F, r) + Sum(G, r)
      BY <2>1, <3>1
    <3> HIDE DEF r
    <3>3. /\ Sum(F, r \cup {x}) = Sum(F, r) + F[x] /\ Sum(G, r \cup {x}) = Sum(G, r) + G[x]
          /\ Sum(H, r \cup {x}) = Sum(H, r) + H[x]
          /\ Sum(F, r) \in Nat /\ Sum(G, r) \in Nat /\ Sum(H, r) \in Nat
      BY <3>1, SumOverSet
    <3>4. H[x] = F[x] + G[x] /\ F[x] \in Nat /\ G[x] \in Nat
      BY <3>1
    <3>5. Sum(H, r \cup {x}) = Sum(F, r \cup {x}) + Sum(G, r \cup {x})
      BY <3>2, <3>3, <3>4
    <3>6. Sum(H, U) = Sum(F, U) + Sum(G, U)
      BY <3>1, <3>5
    <3> QED BY <3>6
  <2> QED BY <2>2, <2>3
<1>2. T \in SUBSET T
  OBVIOUS
<1> QED BY <1>1, <1>2

\* Summing along a list without repetitions is summing over its elements.
LEMMA SumAlong ==
    ASSUME NEW T, IsFiniteSet(T), NEW F \in [T -> Nat], NEW D, IsFiniteSet(D), NEW s \in [D -> T],
           \A j, k \in D : s[j] = s[k] => j = k
    PROVE  Sum([j \in D |-> F[s[j]]], D) = Sum(F, {s[j] : j \in D})
<1> DEFINE G == [j \in D |-> F[s[j]]]
           image(U) == {s[j] : j \in U}
           W == {U \in SUBSET D : Sum(G, U) # Sum(F, image(U))}
<1>1. G \in [D -> Nat]
  OBVIOUS
<1>2. W = {}
  <2> SUFFICES ASSUME W # {} PROVE FALSE
    OBVIOUS
  <2>1. PICK U \in W : \A x \in U : U \ {x} \notin W
    <3>1. W \subseteq SUBSET D
      OBVIOUS
    <3> HIDE DEF W
    <3> QED BY <3>1, LeastSubset
  <2>2. CASE U = {}
    <3>1. image(U) = {}
      BY <2>2
    <3>2. Sum(G, U) = 0
      BY <1>1, <2>2, SumOverSet
    <3>3. Sum(F, {}) = 0
      BY SumOverSet
    <3> QED BY <3>1, <3>2, <3>3
  <2>3. ASSUME NEW x \in U PROVE FALSE
    <3> DEFINE r == U \ {x}
    <3>1. r \in SUBSET D /\ x \in D \ r /\ r \cup {x} = U /\ U \in SUBSET D
      OBVIOUS
    <3>2. Sum(G, r) = Sum(F, image(r))
      BY <2>1, <3>1
    <3>3. /\ image(r) \in SUBSET T /\ s[x] \in T \ image(r) /\ image(U) = image(r) \cup {s[x]}
      BY <3>1
    <3>4. G[x] = F[s[x]]
      BY <3>1
    <3> HIDE DEF r, G, image
    <3>5. Sum(G, r \cup {x}) = Sum(G, r) + G[x]
      BY <1>1, <3>1, SumOverSet
    <3>6. Sum(F, image(r) \cup {s[x]}) = Sum(F, image(r)) + F[s[x]]
      BY <3>3, SumOverSet
    <3>7. Sum(G, U) = Sum(F, image(U))
      BY <3>1, <3>2, <3>3, <3>4, <3>5, <3>6
    <3> QED BY <3>7
  <2> QED BY <2>2, <2>3
<1>3. D \in SUBSET D
  OBVIOUS
<1> QED BY <1>2, <1>3

\* Every set of natural numbers that is not empty has a least element.
LEMMA LeastNatural ==
    ASSUME NEW S \in SUBSET Nat, S # {}
    PROVE  \E x \in S : \A y \in S : x <= y
<1>1. PICK a \in S : TRUE
  OBVIOUS
<1> DEFINE T == 0..a
           W == {U \in SUBSET T : \E x \in Nat : U = 0..x /\ \E y \in S : y <= x}
<1>2. a \in Nat /\ IsFiniteSet(T)
  BY FS_Interval
<1>3. T \in W
  BY <1>2
<1>4. W \subseteq SUBSET T /\ W # {}
  BY <1>3
<1> HIDE DEF W
<1>5. PICK U \in W : \A x \in U : U \ {x} \notin W
  BY <1>2, <1>4, LeastSubset
<1> USE DEF W
<1>6. PICK x \in Nat : U = 0..x /\ \E y \in S : y <= x
  BY <1>5
<1>7. ASSUME NEW y \in S, y < x PROVE FALSE
  <2>1. x - 1 \in Nat /\ y <= x - 1 /\ U \ {x} = 0..(x - 1) /\ x \in U
    BY <1>6, <1>7
  <2>2. U \ {x} \in W
    BY <1>5, <2>1
  <2> QED BY <1>5, <2>1, <2>2
<1> HIDE DEF T, W
<1>8. \A y \in S : x <= y
  <2>1. \A y \in S : y \in Nat /\ ~(y < x)
    BY <1>7
  <2>2. x \in Nat
    BY <1>6
  <2> QED BY <2>1, <2>2
<1>9. x \in S
  BY <1>6, <1>8
<1> QED BY <1>8, <1>9

-------------------------------------------------------------------------------
(* Sorting *)

\* R tells for every two elements of S which comes first.
Orders(S, R) ==
    /\ \A x \in S : <<x, x>> \notin R
    /\ \A x, y \in S : x # y => <<x, y>> \in R \/ <<y, x>> \in R
    /\ \A x, y, z \in S : <<x, y>> \in R /\ <<y, z>> \in R => <<x, z>> \in R

\* What comes before x comes before what x comes before, and x does too.
LEMMA PrecedingGrows ==
    ASSUME NEW S, IsFiniteSet(S), NEW R, Orders(S, R), NEW x \in S, NEW y \in S, <<x, y>> \in R
    PROVE  Cardinality(Preceding(S, R, x)) < Cardinality(Preceding(S, R, y))
<1>1. /\ Preceding(S, R, x) \subseteq Preceding(S, R, y) /\ Preceding(S, R, y) \subseteq S
      /\ x \in Preceding(S, R, y) /\ x \notin Preceding(S, R, x)
  BY DEF Orders, Preceding
<1>2. IsFiniteSet(Preceding(S, R, y)) /\ IsFiniteSet(Preceding(S, R, x))
  BY <1>1, FS_Subset
<1>3. /\ Cardinality(Preceding(S, R, x)) <= Cardinality(Preceding(S, R, y))
      /\ Cardinality(Preceding(S, R, x)) = Cardinality(Preceding(S, R, y))
            => Preceding(S, R, x) = Preceding(S, R, y)
  BY <1>1, <1>2, FS_Subset
<1>4. Cardinality(Preceding(S, R, x)) \in Nat /\ Cardinality(Preceding(S, R, y)) \in Nat
  BY <1>2, FS_CardinalityType
<1> QED BY <1>1, <1>3, <1>4

\* InOrder lists every element of a finite set, once and in order.
THEOREM InOrderSorts ==
    ASSUME NEW S, IsFiniteSet(S), NEW R, Orders(S, R)
    PROVE  /\ InOrder(S, R) \in [1..Cardinality(S) -> S]
           /\ \A x \in S : \E k \in 1..Cardinality(S) : InOrder(S, R)[k] = x
           /\ \A j, k \in 1..Cardinality(S) : j < k => <<InOrder(S, R)[j], InOrder(S, R)[k]>> \in R
<1> DEFINE n == Cardinality(S)
           rank(x) == Cardinality(Preceding(S, R, x))
           place == [x \in S |-> rank(x) + 1]
<1>1. n \in Nat
  BY FS_CardinalityType
<1>2. ASSUME NEW x \in S PROVE rank(x) \in Nat /\ rank(x) < n
  <2>1. Preceding(S, R, x) \subseteq S /\ x \notin Preceding(S, R, x)
    BY DEF Preceding, Orders
  <2>2. /\ IsFiniteSet(Preceding(S, R, x)) /\ rank(x) <= n
        /\ rank(x) = n => Preceding(S, R, x) = S
    BY <2>1, FS_Subset
  <2>3. rank(x) \in Nat
    BY <2>2, FS_CardinalityType
  <2> QED BY <1>1, <2>1, <2>2, <2>3
<1>3. ASSUME NEW x \in S, NEW y \in S, rank(x) = rank(y) PROVE x = y
  <2>1. <<x, y>> \notin R /\ <<y, x>> \notin R
    BY <1>2, <1>3, PrecedingGrows
  <2> QED BY <2>1 DEF Orders
<1> HIDE DEF rank
<1>4. place \in Injection(S, 1..n)
  <2>1. place \in [S -> 1..n]
    BY <1>1, <1>2
  <2>2. ASSUME NEW x \in S, NEW y \in S, place[x] = place[y] PROVE x = y
    BY <1>2, <1>3, <2>2
  <2> HIDE DEF place
  <2> QED BY <2>1, <2>2 DEF Injection, IsInjective
<1>5. \A k \in 1..n : \E x \in S : rank(x) = k - 1
  <2>1. IsFiniteSet(1..n) /\ Cardinality(1..n) = n
    BY <1>1, FS_Interval
  <2>2. place \in Surjection(S, 1..n)
    <3> HIDE DEF place
    <3> QED BY <1>4, <2>1, FS_Injection
  <2>3. \A k \in 1..n : \E x \in S : place[x] = k
    <3> HIDE DEF place
    <3> QED BY <2>2 DEF Surjection
  <2> QED BY <1>1, <1>2, <2>3
<1>6. InOrder(S, R) = [k \in 1..n |-> CHOOSE x \in S : rank(x) = k - 1]
  BY DEF InOrder, rank
<1> DEFINE s == InOrder(S, R)
<1>7. DOMAIN s = 1..n /\ \A k \in 1..n : s[k] \in S /\ rank(s[k]) = k - 1
  BY <1>5, <1>6
<1>8. s = [k \in 1..n |-> s[k]]
  BY <1>6
<1> HIDE DEF s
<1>9. s \in [1..n -> S]
  BY <1>7, <1>8
<1>10. ASSUME NEW x \in S PROVE \E k \in 1..n : s[k] = x
  <2>1. PICK k \in 1..n : k - 1 = rank(x)
    BY <1>1, <1>2
  <2>2. rank(s[k]) = rank(x) /\ s[k] \in S
    BY <1>7, <2>1
  <2> QED BY <1>3, <2>1, <2>2
<1>11. ASSUME NEW j \in 1..n, NEW k \in 1..n, j < k PROVE <<s[j], s[k]>> \in R
  <2>1. s[j] \in S /\ s[k] \in S /\ rank(s[j]) < rank(s[k])
    BY <1>1, <1>7, <1>11
  <2>2. <<s[k], s[j]>> \notin R
    <3> SUFFICES ASSUME <<s[k], s[j]>> \in R PROVE FALSE
      OBVIOUS
    <3>1. rank(s[k]) < rank(s[j])
      BY <2>1, PrecedingGrows DEF rank
    <3> QED BY <1>2, <2>1, <3>1
  <2>3. s[j] # s[k]
    BY <1>2, <2>1
  <2> QED BY <2>1, <2>2, <2>3 DEF Orders
<1> QED BY <1>9, <1>10, <1>11 DEF s

-------------------------------------------------------------------------------
(* Lists that are gathered one step at a time *)

\* f[k] follows from f[k - 1] by G, for as many steps as there are.
Steady(f, V, n, base, G) ==
    f \in [0..n -> V] /\ f[0] = base /\ \A k \in 1..n : f[k] = G[<<k, f[k - 1]>>]

\* What is defined step by step exists.
LEMMA StepByStep ==
    ASSUME NEW V, NEW n \in Nat, NEW base \in V, NEW G \in [(1..n) \X V -> V]
    PROVE  \E f : Steady(f, V, n, base, G)
<1> DEFINE S == {m \in Nat : m <= n /\ ~\E f : Steady(f, V, m, base, G)}
<1>1. ASSUME S # {} PROVE FALSE
  <2>1. PICK m \in S : \A k \in S : m <= k
    <3>1. S \in SUBSET Nat
      OBVIOUS
    <3> HIDE DEF S
    <3> QED BY <1>1, <3>1, LeastNatural
  <2>2. m \in Nat /\ m <= n /\ ~\E f : Steady(f, V, m, base, G)
    BY <2>1
  <2>3. CASE m = 0
    <3> DEFINE f == [k \in 0..0 |-> base]
    <3>1. f \in [0..0 -> V] /\ f[0] = base /\ 1..0 = {}
      OBVIOUS
    <3>2. Steady(f, V, m, base, G)
      <4> HIDE DEF f
      <4> QED BY <2>3, <3>1 DEF Steady
    <3> HIDE DEF f
    <3> QED BY <2>2, <3>2
  <2>4. CASE m # 0
    <3>1. m - 1 \in Nat /\ m - 1 <= n /\ ~(m <= m - 1)
      BY <2>2, <2>4
    <3>2. PICK f : Steady(f, V, m - 1, base, G)
      BY <2>1, <3>1
    <3>3. /\ f \in [0..(m - 1) -> V] /\ f[0] = base
          /\ \A k \in 1..(m - 1) : f[k] = G[<<k, f[k - 1]>>]
      BY <3>2 DEF Steady
    <3> DEFINE g == [k \in 0..m |-> IF k = m THEN G[<<m, f[m - 1]>>] ELSE f[k]]
    <3>4. f[m - 1] \in V /\ <<m, f[m - 1]>> \in (1..n) \X V
      BY <2>2, <2>4, <3>1, <3>3
    <3>5. G[<<m, f[m - 1]>>] \in V
      BY <3>4
    <3>6. \A k \in 0..m : k # m => k \in 0..(m - 1)
      BY <2>2
    <3>7. g \in [0..m -> V]
      BY <3>3, <3>5, <3>6
    <3>8. g[0] = base
      BY <2>2, <2>4, <3>3
    <3>9. ASSUME NEW k \in 1..m PROVE g[k] = G[<<k, g[k - 1]>>]
      <4>1. k \in 0..m /\ k - 1 \in 0..m /\ k - 1 # m
        BY <2>2
      <4>2. g[k - 1] = f[k - 1]
        BY <4>1
      <4>3. CASE k = m
        BY <4>1, <4>2, <4>3
      <4>4. CASE k # m
        <5>1. k \in 1..(m - 1)
          BY <2>2, <4>4
        <5>2. g[k] = f[k] /\ f[k] = G[<<k, f[k - 1]>>]
          BY <3>3, <4>1, <4>4, <5>1
        <5> QED BY <4>2, <5>2
      <4> QED BY <4>3, <4>4
    <3> HIDE DEF g
    <3>10. Steady(g, V, m, base, G)
      BY <3>7, <3>8, <3>9 DEF Steady
    <3> QED BY <2>2, <3>10
  <2> QED BY <2>3, <2>4
<1>2. n \in Nat /\ n <= n
  OBVIOUS
<1> QED BY <1>1, <1>2

\* The function by which Chosen goes through s, where the elements at the places
\* of P pass the test.
Chooses(f, s, P) ==
    f = [k \in 0..Len(s) |->
           IF k = 0 THEN <<>> ELSE IF k \in P THEN Append(f[k - 1], s[k]) ELSE f[k - 1]]

\* There is such a function.
LEMMA ChoosesExists ==
    ASSUME NEW T, NEW s \in Seq(T), NEW P
    PROVE  \E f : Chooses(f, s, P)
<1> DEFINE n == Len(s)
           V == Seq(T)
           base == <<>>
           G == [x \in (1..n) \X V |-> IF x[1] \in P THEN Append(x[2], s[x[1]]) ELSE x[2]]
<1>1. n \in Nat /\ base \in V
  BY EmptySeq
<1>2. G \in [(1..n) \X V -> V]
  <2>1. ASSUME NEW x \in (1..n) \X V
        PROVE  (IF x[1] \in P THEN Append(x[2], s[x[1]]) ELSE x[2]) \in V
    <3>1. x[1] \in 1..n /\ x[2] \in Seq(T) /\ s[x[1]] \in T
      OBVIOUS
    <3>2. Append(x[2], s[x[1]]) \in Seq(T)
      BY <3>1, AppendProperties
    <3> QED BY <3>1, <3>2
  <2> QED BY <2>1
<1>3. PICK f : Steady(f, V, n, base, G)
  <2> HIDE DEF V, n, base, G
  <2> QED BY <1>1, <1>2, StepByStep
<1>4. f \in [0..n -> V] /\ f[0] = base /\ \A k \in 1..n : f[k] = G[<<k, f[k - 1]>>]
  BY <1>3 DEF Steady
<1>5. ASSUME NEW k \in 1..n
      PROVE  f[k] = IF k \in P THEN Append(f[k - 1], s[k]) ELSE f[k - 1]
  <2>1. k - 1 \in 0..n
    BY <1>1
  <2>2. <<k, f[k - 1]>> \in (1..n) \X V
    BY <1>4, <2>1
  <2> QED BY <1>4, <2>2
<1> DEFINE g == [k \in 0..n |-> IF k = 0 THEN <<>> ELSE IF k \in P THEN Append(f[k - 1], s[k]) ELSE f[k - 1]]
<1>6. \A k \in 0..n : f[k] = g[k]
  <2>1. \A k \in 0..n : k # 0 => k \in 1..n
    BY <1>1
  <2> QED BY <1>4, <1>5, <2>1
<1>7. f = g
  <2>1. f = [k \in 0..n |-> f[k]] /\ g = [k \in 0..n |-> g[k]]
    BY <1>4
  <2> QED BY <1>6, <2>1
<1>8. Chooses(f, s, P)
  BY <1>7 DEF Chooses
<1> QED BY <1>8

\* r has the elements of s at the places of P, in their order.
IsChosen(r, s, P) ==
    \E place \in [1..Len(r) -> P] :
        /\ \A j \in 1..Len(r) : r[j] = s[place[j]]
        /\ \A j, k \in 1..Len(r) : j < k => place[j] < place[k]
        /\ \A p \in P : \E j \in 1..Len(r) : place[j] = p

\* Chosen goes through all of s.
LEMMA ChoosesAll ==
    ASSUME NEW T, NEW s \in Seq(T), NEW P \in SUBSET (1..Len(s)), NEW f, Chooses(f, s, P)
    PROVE  f[Len(s)] \in Seq(T) /\ IsChosen(f[Len(s)], s, P)
<1> DEFINE n == Len(s)
           Upto(k) == P \cap (1..k)
           Good(k) == f[k] \in Seq(T) /\ IsChosen(f[k], s, Upto(k))
           S == {k \in Nat : k <= n /\ ~Good(k)}
<1>1. /\ f[0] = <<>>
      /\ \A k \in 1..n : f[k] = IF k \in P THEN Append(f[k - 1], s[k]) ELSE f[k - 1]
  <2> DEFINE entry(k) == IF k = 0 THEN <<>> ELSE IF k \in P THEN Append(f[k - 1], s[k]) ELSE f[k - 1]
  <2>1. f = [k \in 0..n |-> entry(k)]
    BY DEF Chooses
  <2>2. n \in Nat
    OBVIOUS
  <2> HIDE DEF entry, n
  <2>3. \A k \in 0..n : f[k] = entry(k)
    BY <2>1
  <2> USE DEF entry
  <2>4. 0 \in 0..n /\ \A k \in 1..n : k \in 0..n /\ k # 0
    BY <2>2
  <2> QED BY <2>3, <2>4
<1>2. n \in Nat
  OBVIOUS
<1>3. ASSUME S # {} PROVE FALSE
  <2>1. PICK k \in S : \A j \in S : k <= j
    <3>1. S \in SUBSET Nat
      OBVIOUS
    <3> HIDE DEF S
    <3> QED BY <1>3, <3>1, LeastNatural
  <2>2. k \in Nat /\ k <= n /\ ~Good(k)
    BY <2>1
  <2>3. CASE k = 0
    <3> DEFINE place == [j \in 1..0 |-> j]
    <3>1. Upto(0) = {} /\ Len(f[0]) = 0 /\ f[0] \in Seq(T) /\ 1..0 = {}
      BY <1>1, EmptySeq
    <3>2. place \in [1..0 -> {}]
      BY <3>1
    <3> HIDE DEF place
    <3>3. IsChosen(f[0], s, Upto(0))
      BY <3>1, <3>2 DEF IsChosen
    <3> QED BY <2>2, <2>3, <3>1, <3>3
  <2>4. CASE k # 0
    <3>1. k - 1 \in Nat /\ k - 1 <= n /\ ~(k <= k - 1) /\ k \in 1..n
      BY <2>2, <2>4
    <3>2. Good(k - 1)
      BY <2>1, <3>1
    <3> DEFINE b == f[k - 1]
               R == Upto(k - 1)
    <3>3. b \in Seq(T) /\ Len(b) \in Nat
      BY <3>2
    <3>4. PICK place \in [1..Len(b) -> R] :
             /\ \A j \in 1..Len(b) : b[j] = s[place[j]]
             /\ \A i, j \in 1..Len(b) : i < j => place[i] < place[j]
             /\ \A p \in R : \E j \in 1..Len(b) : place[j] = p
      BY <3>2 DEF IsChosen
    <3>5. CASE k \notin P
      <4>1. f[k] = b /\ Upto(k) = R
        <5>1. Upto(k) = Upto(k - 1)
          BY <2>2, <3>1, <3>5
        <5> QED BY <1>1, <3>1, <3>5, <5>1
      <4>2. Good(k)
        BY <3>2, <4>1
      <4> QED BY <2>2, <4>2
    <3>6. CASE k \in P
      <4> DEFINE r == Append(b, s[k])
                 m == Len(b) + 1
                 to == [j \in 1..m |-> IF j = m THEN k ELSE place[j]]
      <4>1. f[k] = r
        BY <1>1, <3>1, <3>6
      <4>2. s[k] \in T
        BY <3>1
      <4>3. r \in Seq(T) /\ Len(r) = m /\ m \in Nat /\ r[m] = s[k] /\ \A j \in 1..Len(b) : r[j] = b[j]
        BY <3>3, <4>2, AppendProperties
      <4>4. Upto(k) = R \cup {k} /\ \A p \in R : p \in Nat /\ p < k
        BY <2>2, <3>1, <3>6
      <4>5. \A j \in 1..m : j # m => j \in 1..Len(b)
        BY <3>3
      <4>6. to \in [1..m -> Upto(k)]
        BY <3>4, <4>4, <4>5
      <4>7. \A j \in 1..m : r[j] = s[to[j]]
        BY <3>4, <4>3, <4>5
      <4>8. ASSUME NEW i \in 1..m, NEW j \in 1..m, i < j PROVE to[i] < to[j]
        <5>1. i # m /\ i \in 1..Len(b)
          BY <3>3, <4>8
        <5>2. to[i] = place[i] /\ place[i] \in R
          BY <3>4, <5>1
        <5>3. CASE j = m
          BY <4>4, <5>2, <5>3
        <5>4. CASE j # m
          BY <3>4, <4>5, <4>8, <5>1, <5>2, <5>4
        <5> QED BY <5>3, <5>4
      <4>9. ASSUME NEW p \in Upto(k) PROVE \E j \in 1..m : to[j] = p
        <5>1. CASE p = k
          <6>1. m \in 1..m
            BY <4>3
          <6> QED BY <5>1, <6>1
        <5>2. CASE p # k
          <6>1. PICK j \in 1..Len(b) : place[j] = p
            BY <3>4, <4>4, <5>2
          <6>2. j \in 1..m /\ j # m
            BY <3>3
          <6> QED BY <6>1, <6>2
        <5> QED BY <5>1, <5>2
      <4> HIDE DEF r, m, to, b, R, Upto
      <4>10. IsChosen(r, s, Upto(k))
        BY <4>3, <4>6, <4>7, <4>8, <4>9 DEF IsChosen
      <4>11. Good(k)
        BY <4>1, <4>3, <4>10
      <4> QED BY <2>2, <4>11
    <3> QED BY <3>5, <3>6
  <2> QED BY <2>3, <2>4
<1>4. Good(n)
  <2> HIDE DEF Good, n
  <2> QED BY <1>2, <1>3
<1>5. Upto(n) = P
  OBVIOUS
<1> QED BY <1>4, <1>5

\* The function by which OverMachines joins the lists of L.
Joins(f, L, n) == f = [i \in 0..n |-> IF i = 0 THEN <<>> ELSE f[i - 1] \o L[i]]

\* There is such a function.
LEMMA JoinsExists ==
    ASSUME NEW T, NEW n \in Nat, NEW L \in [1..n -> Seq(T)]
    PROVE  \E f : Joins(f, L, n)
<1> DEFINE V == Seq(T)
           base == <<>>
           G == [x \in (1..n) \X V |-> x[2] \o L[x[1]]]
<1>1. base \in V
  BY EmptySeq
<1>2. G \in [(1..n) \X V -> V]
  <2>1. ASSUME NEW x \in (1..n) \X V PROVE x[2] \o L[x[1]] \in V
    <3>1. x[2] \in Seq(T) /\ L[x[1]] \in Seq(T)
      OBVIOUS
    <3> QED BY <3>1, ConcatProperties
  <2> QED BY <2>1
<1>3. PICK f : Steady(f, V, n, base, G)
  <2> HIDE DEF V, base, G
  <2> QED BY <1>1, <1>2, StepByStep
<1>4. f \in [0..n -> V] /\ f[0] = base /\ \A k \in 1..n : f[k] = G[<<k, f[k - 1]>>]
  BY <1>3 DEF Steady
<1>5. ASSUME NEW k \in 1..n
      PROVE  f[k] = f[k - 1] \o L[k]
  <2>1. k - 1 \in 0..n
    OBVIOUS
  <2>2. <<k, f[k - 1]>> \in (1..n) \X V
    BY <1>4, <2>1
  <2> QED BY <1>4, <2>2
<1> DEFINE g == [k \in 0..n |-> IF k = 0 THEN <<>> ELSE f[k - 1] \o L[k]]
<1>6. \A k \in 0..n : f[k] = g[k]
  <2>1. \A k \in 0..n : k # 0 => k \in 1..n
    OBVIOUS
  <2> QED BY <1>4, <1>5, <2>1
<1>7. f = g
  <2>1. f = [k \in 0..n |-> f[k]] /\ g = [k \in 0..n |-> g[k]]
    BY <1>4
  <2> QED BY <1>6, <2>1
<1>8. Joins(f, L, n)
  BY <1>7 DEF Joins
<1> QED BY <1>8

\* What the function does, step by step.
LEMMA JoinsSteps ==
    \A n \in Nat : \A L, f : Joins(f, L, n) => f[0] = <<>> /\ \A i \in 1..n : f[i] = f[i - 1] \o L[i]
<1> SUFFICES ASSUME NEW n \in Nat, NEW L, NEW f, Joins(f, L, n)
             PROVE  f[0] = <<>> /\ \A i \in 1..n : f[i] = f[i - 1] \o L[i]
  OBVIOUS
<1> DEFINE entry(i) == IF i = 0 THEN <<>> ELSE f[i - 1] \o L[i]
<1>1. f = [i \in 0..n |-> entry(i)]
  BY DEF Joins
<1> HIDE DEF entry
<1>2. \A i \in 0..n : f[i] = entry(i)
  BY <1>1
<1> USE DEF entry
<1>3. 0 \in 0..n /\ \A i \in 1..n : i \in 0..n /\ i # 0
  OBVIOUS
<1> QED BY <1>2, <1>3

\* The elements of two lists after each other.
LEMMA RangeConcat ==
    ASSUME NEW T, NEW s \in Seq(T), NEW r \in Seq(T)
    PROVE  /\ s \o r \in Seq(T) /\ Range(s) \subseteq T
           /\ Range(s \o r) = Range(s) \cup Range(r)
<1>1. /\ s \o r \in Seq(T) /\ Len(s \o r) = Len(s) + Len(r) /\ Len(s) \in Nat /\ Len(r) \in Nat
      /\ \A i \in 1..Len(s) + Len(r) : (s \o r)[i] = IF i <= Len(s) THEN s[i] ELSE r[i - Len(s)]
  BY ConcatProperties
<1>2. /\ DOMAIN (s \o r) = 1..(Len(s) + Len(r)) /\ DOMAIN s = 1..Len(s) /\ DOMAIN r = 1..Len(r)
  BY <1>1
<1>3. Range(s \o r) \subseteq Range(s) \cup Range(r)
  <2>1. ASSUME NEW i \in 1..(Len(s) + Len(r)) PROVE (s \o r)[i] \in Range(s) \cup Range(r)
    <3>1. CASE i <= Len(s)
      BY <1>1, <1>2, <3>1 DEF Range
    <3>2. CASE ~(i <= Len(s))
      <4>1. i - Len(s) \in 1..Len(r)
        BY <1>1, <3>2
      <4> QED BY <1>1, <1>2, <3>2, <4>1 DEF Range
    <3> QED BY <3>1, <3>2
  <2> QED BY <1>2, <2>1 DEF Range
<1>4. Range(s) \subseteq Range(s \o r)
  <2>1. ASSUME NEW i \in 1..Len(s) PROVE s[i] \in Range(s \o r)
    <3>1. i \in 1..(Len(s) + Len(r)) /\ i <= Len(s)
      BY <1>1
    <3> QED BY <1>1, <1>2, <3>1 DEF Range
  <2> QED BY <1>2, <2>1 DEF Range
<1>5. Range(r) \subseteq Range(s \o r)
  <2>1. ASSUME NEW i \in 1..Len(r) PROVE r[i] \in Range(s \o r)
    <3>1. /\ Len(s) + i \in 1..(Len(s) + Len(r)) /\ ~(Len(s) + i <= Len(s)) /\ Len(s) + i - Len(s) = i
      BY <1>1
    <3>2. (s \o r)[Len(s) + i] = r[i]
      BY <1>1, <3>1
    <3> QED BY <1>2, <3>1, <3>2 DEF Range
  <2> QED BY <1>2, <2>1 DEF Range
<1>6. Range(s) \subseteq T
  BY <1>2 DEF Range
<1> QED BY <1>1, <1>3, <1>4, <1>5, <1>6

ListsOf(T, n) == [1..n -> Seq(T)]

\* x has the elements of the lists L[1] to L[n].
Gathers(x, L, n) == \A y : y \in Range(x) <=> \E i \in 1..n : y \in Range(L[i])

\* The joined lists have the elements of each.
LEMMA JoinsRange ==
    ASSUME NEW T, NEW n \in Nat, NEW L \in ListsOf(T, n), NEW f, Joins(f, L, n)
    PROVE  f[n] \in Seq(T) /\ Gathers(f[n], L, n)
<1> USE DEF ListsOf, Gathers
<1> DEFINE Good(k) == f[k] \in Seq(T) /\ \A x : x \in Range(f[k]) <=> \E i \in 1..k : x \in Range(L[i])
           S == {k \in Nat : k <= n /\ ~Good(k)}
<1>1. f[0] = <<>> /\ \A i \in 1..n : f[i] = f[i - 1] \o L[i]
  BY JoinsSteps
<1>2. ASSUME S # {} PROVE FALSE
  <2>1. PICK k \in S : \A j \in S : k <= j
    <3>1. S \in SUBSET Nat
      OBVIOUS
    <3> HIDE DEF S
    <3> QED BY <1>2, <3>1, LeastNatural
  <2>2. k \in Nat /\ k <= n /\ ~Good(k)
    BY <2>1
  <2>3. CASE k = 0
    <3>1. f[0] \in Seq(T) /\ DOMAIN f[0] = {} /\ 1..0 = {}
      BY <1>1, EmptySeq
    <3>2. Good(0)
      BY <3>1 DEF Range
    <3> QED BY <2>2, <2>3, <3>2
  <2>4. CASE k # 0
    <3>1. k - 1 \in Nat /\ k - 1 <= n /\ ~(k <= k - 1) /\ k \in 1..n
      BY <2>2, <2>4
    <3>2. Good(k - 1)
      BY <2>1, <3>1
    <3>3. f[k] = f[k - 1] \o L[k] /\ L[k] \in Seq(T)
      BY <1>1, <3>1
    <3>4. f[k] \in Seq(T) /\ Range(f[k]) = Range(f[k - 1]) \cup Range(L[k])
      BY <3>2, <3>3, RangeConcat
    <3>5. \A i : i \in 1..k <=> i \in 1..(k - 1) \/ i = k
      BY <3>1
    <3>6. \A x : x \in Range(f[k]) <=> \E i \in 1..k : x \in Range(L[i])
      BY <3>2, <3>4, <3>5
    <3> QED BY <2>2, <3>4, <3>6
  <2> QED BY <2>3, <2>4
<1>3. Good(n)
  <2> HIDE DEF Good
  <2> QED BY <1>2
<1> QED BY <1>3

\* Joining lists is associative.
LEMMA ConcatThree == \A T : \A x, y, z \in Seq(T) : (x \o y) \o z = x \o (y \o z)
BY ConcatAssociative

\* The lists C are the lists A each before that of B; A has elements in the
\* first only.
Prepends(C, A, B, n) ==
    \A i \in 1..n : C[i] = A[i] \o B[i] /\ (i # 1 => A[i] = <<>>)

\* The functions by which all three are joined.
JoinsThree(T, n, A, B, C, f, g, h) ==
    /\ n \in Nat \ {0} /\ {A, B, C} \subseteq ListsOf(T, n)
    /\ Joins(f, A, n) /\ Joins(g, B, n) /\ Joins(h, C, n)

\* h joins what f joins and then what g joins.
JoinsBoth(h, f, g, n) == h[n] = f[n] \o g[n]

\* If only the first of the lists A has elements, it does not matter whether
\* the lists A come before the lists B or each of them before that of B.
LEMMA JoinsFirst ==
    \A T, n, A, B, C, f, g, h :
        JoinsThree(T, n, A, B, C, f, g, h) /\ Prepends(C, A, B, n) => JoinsBoth(h, f, g, n)
<1> SUFFICES ASSUME NEW T, NEW n, NEW A, NEW B, NEW C, NEW f, NEW g, NEW h,
                    JoinsThree(T, n, A, B, C, f, g, h), Prepends(C, A, B, n)
             PROVE  JoinsBoth(h, f, g, n)
  OBVIOUS
<1>4. /\ n \in Nat \ {0} /\ A \in ListsOf(T, n) /\ B \in ListsOf(T, n) /\ C \in ListsOf(T, n)
      /\ Joins(f, A, n) /\ Joins(g, B, n) /\ Joins(h, C, n)
  BY DEF JoinsThree
<1> DEFINE Good(k) == f[k] = A[1] /\ g[k] \in Seq(T) /\ h[k] = A[1] \o g[k]
           S == {k \in Nat : 1 <= k /\ k <= n /\ ~Good(k)}
<1>0. \A x, y, z \in Seq(T) : (x \o y) \o z = x \o (y \o z)
  BY ConcatThree
<1>1. /\ f[0] = <<>> /\ \A i \in 1..n : f[i] = f[i - 1] \o A[i]
      /\ g[0] = <<>> /\ \A i \in 1..n : g[i] = g[i - 1] \o B[i]
      /\ h[0] = <<>> /\ \A i \in 1..n : h[i] = h[i - 1] \o (A[i] \o B[i])
  <2>1. n \in Nat /\ Joins(f, A, n) /\ Joins(g, B, n) /\ Joins(h, C, n)
    BY <1>4
  <2> HIDE DEF S, Good
  <2>2. f[0] = <<>> /\ \A i \in 1..n : f[i] = f[i - 1] \o A[i]
    BY <2>1, JoinsSteps
  <2>3. g[0] = <<>> /\ \A i \in 1..n : g[i] = g[i - 1] \o B[i]
    BY <2>1, JoinsSteps
  <2>4. h[0] = <<>> /\ \A i \in 1..n : h[i] = h[i - 1] \o C[i]
    BY <2>1, JoinsSteps
  <2>5. \A i \in 1..n : C[i] = A[i] \o B[i]
    BY DEF Prepends
  <2> QED BY <2>2, <2>3, <2>4, <2>5
<1>2. ASSUME S # {} PROVE FALSE
  <2>1. PICK k \in S : \A j \in S : k <= j
    <3>1. S \in SUBSET Nat
      BY <1>4
    <3> HIDE DEF S
    <3> QED BY <1>2, <3>1, LeastNatural
  <2>2. k \in Nat /\ 1 <= k /\ k <= n /\ k \in 1..n /\ 1 \in 1..n /\ ~Good(k)
    <3>1. k \in Nat /\ 1 <= k /\ k <= n /\ ~Good(k)
      BY <2>1
    <3>2. n \in Nat
      BY <1>4
    <3> HIDE DEF Good, S
    <3> QED BY <3>1, <3>2
  <2>3. A[1] \in Seq(T) /\ A[k] \in Seq(T) /\ B[k] \in Seq(T)
    BY <1>4, <2>2 DEF ListsOf
  <2>4. CASE k = 1
    <3>1. f[1] = <<>> \o A[1] /\ g[1] = <<>> \o B[1] /\ h[1] = <<>> \o (A[1] \o B[1])
      <4>1. 1 - 1 = 0
        BY <1>4
      <4>2. f[1] = f[1 - 1] \o A[1] /\ g[1] = g[1 - 1] \o B[1] /\ h[1] = h[1 - 1] \o (A[1] \o B[1])
        BY <1>1, <2>2, Zenon
      <4> QED BY <1>1, <4>1, <4>2, Zenon
    <3>2. f[1] = A[1] /\ g[1] = B[1] /\ A[1] \o B[1] \in Seq(T)
      BY <2>3, <2>4, <3>1, ConcatEmptySeq, ConcatProperties
    <3>3. h[1] = A[1] \o B[1]
      BY <3>1, <3>2, ConcatEmptySeq
    <3> QED BY <2>2, <2>3, <2>4, <3>2, <3>3
  <2>5. CASE k # 1
    <3>1. k - 1 \in Nat /\ 1 <= k - 1 /\ k - 1 <= n /\ ~(k <= k - 1)
      BY <1>4, <2>2, <2>5
    <3>2. Good(k - 1)
      BY <2>1, <3>1
    <3>3. f[k] = f[k - 1] \o A[k] /\ g[k] = g[k - 1] \o B[k] /\ h[k] = h[k - 1] \o (A[k] \o B[k])
      BY <1>1, <2>2
    <3>4. A[k] = <<>>
      BY <2>2, <2>5 DEF Prepends
    <3>5. f[k] = A[1]
      BY <2>3, <3>2, <3>3, <3>4, ConcatEmptySeq
    <3>6. g[k] \in Seq(T)
      BY <2>3, <3>2, <3>3, ConcatProperties
    <3>7. A[k] \o B[k] = B[k]
      BY <2>3, <3>4, ConcatEmptySeq
    <3>8. h[k] = (A[1] \o g[k - 1]) \o B[k]
      BY <3>2, <3>3, <3>7
    <3>9. h[k] = A[1] \o (g[k - 1] \o B[k])
      <4> DEFINE x == A[1]
                 y == g[k - 1]
                 z == B[k]
      <4>1. x \in Seq(T) /\ y \in Seq(T) /\ z \in Seq(T) /\ h[k] = (x \o y) \o z
        BY <2>3, <3>2, <3>8
      <4>2. (x \o y) \o z = x \o (y \o z)
        <5> HIDE DEF x, y, z
        <5> QED BY <1>0, <4>1, Zenon
      <4> QED BY <4>1, <4>2
    <3> QED BY <2>2, <3>3, <3>5, <3>6, <3>9
  <2> QED BY <2>4, <2>5
<1>3. Good(n)
  <2>1. n \in Nat /\ 1 <= n /\ n <= n
    BY <1>4
  <2> HIDE DEF Good
  <2> QED BY <1>2, <2>1
<1> QED BY <1>3 DEF JoinsBoth

\* x is a list of m elements, those of s, and then n, those of r.
IsConcat(x, s, m, r, n, T) ==
    /\ x \in Seq(T) /\ Len(x) = m + n /\ m \in Nat /\ n \in Nat
    /\ \A k \in 1..m : x[k] = s[k]
    /\ \A k \in 1..n : x[m + k] = r[k]

\* Two lists after each other.
LEMMA ConcatPlaces ==
    \A T : \A s, r \in Seq(T) : \A x, m, n :
        x = s \o r /\ Len(s) = m /\ Len(r) = n => IsConcat(x, s, m, r, n, T)
<1> SUFFICES ASSUME NEW T, NEW s \in Seq(T), NEW r \in Seq(T), NEW m, NEW n, Len(s) = m, Len(r) = n
             PROVE  IsConcat(s \o r, s, m, r, n, T)
  OBVIOUS
<1>1. m \in Nat /\ n \in Nat
  BY LenProperties
<1>2. /\ s \o r \in Seq(T) /\ Len(s \o r) = Len(s) + Len(r)
      /\ \A k \in 1..(Len(s) + Len(r)) : (s \o r)[k] = IF k <= Len(s) THEN s[k] ELSE r[k - Len(s)]
  BY ConcatProperties
<1> DEFINE both == s \o r
<1>3. /\ both \in Seq(T) /\ Len(both) = m + n
      /\ \A k \in 1..(m + n) : both[k] = IF k <= m THEN s[k] ELSE r[k - m]
  BY <1>1, <1>2
<1> HIDE DEF both
<1>4. \A k \in 1..m : both[k] = s[k]
  BY <1>1, <1>3
<1>5. ASSUME NEW k \in 1..n PROVE both[m + k] = r[k]
  <2>1. m + k \in 1..(m + n) /\ ~(m + k <= m) /\ m + k - m = k
    BY <1>1
  <2> QED BY <1>3, <2>1, SMTT(30)
<1>6. IsConcat(both, s, m, r, n, T)
  BY <1>1, <1>3, <1>4, <1>5 DEF IsConcat
<1> QED BY <1>6 DEF both

\* x is the lists L[1] to L[n] behind each other.
JoinOf(x, L, n) == \E f : Joins(f, L, n) /\ x = f[n]

\* It is a list of what they are lists of, and has their elements.
LEMMA JoinOfRange ==
    ASSUME NEW T, NEW n \in Nat, NEW L \in ListsOf(T, n), NEW x, JoinOf(x, L, n)
    PROVE  x \in Seq(T) /\ Gathers(x, L, n)
<1>1. PICK f : Joins(f, L, n) /\ x = f[n]
  BY DEF JoinOf
<1>2. f[n] \in Seq(T) /\ Gathers(f[n], L, n)
  BY <1>1, JoinsRange
<1> QED BY <1>1, <1>2

\* One list alone is that list.
LEMMA JoinOfOne ==
    ASSUME NEW T, NEW L \in ListsOf(T, 1), NEW x, JoinOf(x, L, 1)
    PROVE  x = L[1]
<1>1. PICK f : Joins(f, L, 1) /\ x = f[1]
  BY DEF JoinOf
<1>2. 1 \in Nat /\ 1 \in 1..1 /\ 1 - 1 = 0
  OBVIOUS
<1>3. f[0] = <<>> /\ \A i \in 1..1 : f[i] = f[i - 1] \o L[i]
  BY <1>1, <1>2, JoinsSteps
<1>4. f[1] = <<>> \o L[1]
  BY <1>2, <1>3
<1>5. L[1] \in Seq(T)
  BY <1>2 DEF ListsOf
<1>6. <<>> \o L[1] = L[1]
  BY <1>5, ConcatEmptySeq
<1> QED BY <1>1, <1>4, <1>6

\* What a kept list has in it.
LEMMA ChosenRange ==
    ASSUME NEW T, NEW s \in Seq(T), NEW r \in Seq(T), NEW P \in SUBSET (1..Len(s)), IsChosen(r, s, P)
    PROVE  /\ \A y : y \in Range(r) <=> \E k \in P : y = s[k]
           /\ r = <<>> <=> P = {}
<1>1. PICK place \in [1..Len(r) -> P] :
         /\ \A j \in 1..Len(r) : r[j] = s[place[j]]
         /\ \A p \in P : \E j \in 1..Len(r) : place[j] = p
  BY DEF IsChosen
<1>2. DOMAIN r = 1..Len(r) /\ Len(r) \in Nat /\ (r = <<>> <=> Len(r) = 0)
  BY EmptySeq
<1>3. \A y : y \in Range(r) <=> \E j \in 1..Len(r) : y = r[j]
  BY <1>2 DEF Range
<1>4. \A j \in 1..Len(r) : place[j] \in P
  BY <1>1
<1> DEFINE D == 1..Len(r)
<1>5. D = {} <=> Len(r) = 0
  BY <1>2
<1>6. /\ \A j \in D : r[j] = s[place[j]] /\ place[j] \in P
      /\ \A p \in P : \E j \in D : place[j] = p
      /\ \A y : y \in Range(r) <=> \E j \in D : y = r[j]
  BY <1>1, <1>3, <1>4
<1> HIDE DEF D
<1>7. ASSUME NEW y PROVE y \in Range(r) <=> \E k \in P : y = s[k]
  <2>1. ASSUME y \in Range(r) PROVE \E k \in P : y = s[k]
    <3>1. PICK j \in D : y = r[j]
      BY <1>6, <2>1
    <3>2. y = s[place[j]] /\ place[j] \in P
      BY <1>6, <3>1
    <3> QED BY <3>2, Zenon
  <2>2. ASSUME NEW k \in P, y = s[k] PROVE y \in Range(r)
    <3>1. PICK j \in D : place[j] = k
      BY <1>6
    <3> QED BY <1>6, <2>2, <3>1
  <2> QED BY <2>1, <2>2
<1>8. D = {} <=> P = {}
  BY <1>6, Zenon
<1> QED BY <1>2, <1>5, <1>7, <1>8, Zenon

-------------------------------------------------------------------------------
(* Numbers, and sums of numbers in order *)

\* One more of v.
LEMMA OneMore == \A x, v \in Nat : (x + 1) * v = x * v + v
  OBVIOUS

\* Products of natural numbers are natural numbers.
LEMMA ProductNat == \A x, v \in Nat : x * v \in Nat
  OBVIOUS

\* Multiplying by a natural number keeps the order.
LEMMA ProductMonotone == \A x, y \in Int : \A c \in Nat : x <= y => x * c <= y * c
  OBVIOUS

\* The sum of the first i numbers.
LEMMA SumUpTo ==
    ASSUME NEW n \in Nat, NEW F \in [1..n -> Nat]
    PROVE  Sum(F, 1..0) = 0 /\ \A i \in 1..n : Sum(F, 1..i) = Sum(F, 1..(i - 1)) + F[i]
<1> DEFINE D == 1..n
<1>1. IsFiniteSet(D) /\ F \in [D -> Nat]
  <2>1. \A k \in Nat : IsFiniteSet(1..k)
    BY FS_Interval
  <2> QED BY <2>1
<1>2. Sum(F, 1..0) = 0
  <2>1. 1..0 = {} /\ {} \in SUBSET D
    OBVIOUS
  <2> HIDE DEF D
  <2> QED BY <1>1, <2>1, SumOverSet
<1>3. ASSUME NEW i \in 1..n PROVE Sum(F, 1..i) = Sum(F, 1..(i - 1)) + F[i]
  <2> DEFINE R == 1..(i - 1)
  <2>1. R \cup {i} = 1..i /\ i \in D \ R /\ R \in SUBSET D
    OBVIOUS
  <2> HIDE DEF R, D
  <2>2. Sum(F, R \cup {i}) = Sum(F, R) + F[i]
    BY <1>1, <2>1, SumOverSet
  <2> QED BY <2>1, <2>2 DEF R
<1> QED BY <1>2, <1>3

\* The sum of the numbers before the i-th.
SumBefore(F, i) == Sum(F, 1..(i - 1))

\* The sums grow by one number at a time.
LEMMA SumsBefore ==
    ASSUME NEW n \in Nat, NEW F \in [1..n -> Nat]
    PROVE  /\ SumBefore(F, 1) = 0
           /\ \A i \in 1..(n + 1) : SumBefore(F, i) \in Nat
           /\ \A i \in 1..n : SumBefore(F, i + 1) = SumBefore(F, i) + F[i]
           /\ \A i, j \in 1..(n + 1) : i <= j => SumBefore(F, i) <= SumBefore(F, j)
<1> DEFINE D == 1..n
<1>1. IsFiniteSet(D) /\ F \in [D -> Nat]
  <2>1. \A k \in Nat : IsFiniteSet(1..k)
    BY FS_Interval
  <2> QED BY <2>1
<1>2. SumBefore(F, 1) = 0
  BY SumUpTo DEF SumBefore
<1>3. ASSUME NEW i \in 1..n PROVE SumBefore(F, i + 1) = SumBefore(F, i) + F[i]
  <2>1. \A k \in 1..n : Sum(F, 1..k) = Sum(F, 1..(k - 1)) + F[k]
    BY SumUpTo
  <2>2. (i + 1) - 1 = i
    OBVIOUS
  <2> QED BY <2>1, <2>2 DEF SumBefore
<1>4. ASSUME NEW i \in 1..(n + 1), NEW j \in 1..(n + 1), i <= j
      PROVE  SumBefore(F, i) \in Nat /\ SumBefore(F, i) <= SumBefore(F, j)
  <2> DEFINE S == 1..(j - 1)
             R == 1..(i - 1)
  <2>1. S \in SUBSET D /\ R \in SUBSET S /\ R \in SUBSET D
    BY <1>4
  <2> HIDE DEF S, R, D
  <2>2. Sum(F, R) <= Sum(F, S) /\ Sum(F, R) \in Nat
    BY <1>1, <2>1, SumMonotone, SumOverSet
  <2> QED BY <2>2 DEF SumBefore, S, R
<1>5. \A i \in 1..(n + 1) : SumBefore(F, i) \in Nat
  BY <1>4
<1> QED BY <1>2, <1>3, <1>4, <1>5

\* Elements of lists put behind each other have different places, before the
\* sum of all lengths.
LEMMA PlacesApart ==
    ASSUME NEW n \in Nat, NEW F \in [1..n -> Nat]
    PROVE  /\ \A i, j \in 1..n : \A k \in 1..F[i], l \in 1..F[j] :
                 SumBefore(F, i) + (k - 1) = SumBefore(F, j) + (l - 1) => i = j /\ k = l
           /\ \A i \in 1..n : \A k \in 1..F[i] : SumBefore(F, i) + (k - 1) < SumBefore(F, n + 1)
<1> DEFINE B(i) == SumBefore(F, i)
<1>1. /\ \A i \in 1..(n + 1) : B(i) \in Nat
      /\ \A i \in 1..n : B(i + 1) = B(i) + F[i]
      /\ \A i, j \in 1..(n + 1) : i <= j => B(i) <= B(j)
  BY SumsBefore
<1> HIDE DEF B
<1>2. ASSUME NEW i \in 1..n, NEW j \in 1..(n + 1), i < j, NEW k \in 1..F[i] PROVE B(i) + (k - 1) < B(j)
  <2>1. i + 1 \in 1..(n + 1) /\ i + 1 <= j /\ i \in 1..(n + 1) /\ F[i] \in Nat
    BY <1>2
  <2>2. B(i) + F[i] <= B(j) /\ B(i) \in Nat /\ B(j) \in Nat
    BY <1>1, <2>1
  <2> QED BY <2>1, <2>2
<1>3. ASSUME NEW i \in 1..n, NEW j \in 1..n, NEW k \in 1..F[i], NEW l \in 1..F[j], B(i) + (k - 1) = B(j) + (l - 1)
      PROVE  i = j /\ k = l
  <2>1. F[i] \in Nat /\ F[j] \in Nat /\ B(i) \in Nat /\ B(j) \in Nat
    BY <1>1
  <2>2. k \in Nat /\ l \in Nat /\ k >= 1 /\ l >= 1
    BY <2>1
  <2>3. j \in 1..(n + 1) /\ i \in 1..(n + 1)
    OBVIOUS
  <2>4. i < j => B(i) + (k - 1) < B(j)
    BY <1>2, <2>3
  <2>5. j < i => B(j) + (l - 1) < B(i)
    BY <1>2, <2>3
  <2>6. i = j
    BY <1>3, <2>1, <2>2, <2>4, <2>5
  <2> QED BY <1>3, <2>1, <2>2, <2>6
<1>4. ASSUME NEW i \in 1..n, NEW k \in 1..F[i] PROVE B(i) + (k - 1) < B(n + 1)
  <2>1. n + 1 \in 1..(n + 1) /\ i < n + 1
    OBVIOUS
  <2> QED BY <1>2, <2>1
<1> QED BY <1>3, <1>4 DEF B

\* The sum of numbers of at most c.
LEMMA SumAtMost ==
    ASSUME NEW n \in Nat, NEW F \in [1..n -> Nat], NEW c \in Nat, \A i \in 1..n : F[i] <= c
    PROVE  SumBefore(F, n + 1) <= n * c
<1> DEFINE B(i) == SumBefore(F, i)
           S == {i \in Nat : i \in 1..(n + 1) /\ ~(B(i) <= (i - 1) * c)}
<1>1. /\ B(1) = 0 /\ \A i \in 1..(n + 1) : B(i) \in Nat
      /\ \A i \in 1..n : B(i + 1) = B(i) + F[i]
  BY SumsBefore
<1> HIDE DEF B
<1>2. ASSUME S # {} PROVE FALSE
  <2>1. PICK i \in S : \A j \in S : i <= j
    <3>1. S \in SUBSET Nat
      OBVIOUS
    <3> HIDE DEF S
    <3> QED BY <1>2, <3>1, LeastNatural
  <2>2. i \in Nat /\ i \in 1..(n + 1) /\ ~(B(i) <= (i - 1) * c)
    BY <2>1
  <2>3. i # 1
    <3>1. (1 - 1) * c = 0
      OBVIOUS
    <3> QED BY <1>1, <2>2, <3>1
  <2> DEFINE j == i - 1
  <2>4. j \in Nat /\ j \in 1..n /\ j \in 1..(n + 1) /\ j + 1 = i /\ ~(i <= j) /\ j - 1 \in Nat /\ (j - 1) + 1 = j
    BY <2>2, <2>3
  <2>5. B(j) <= (j - 1) * c
    BY <2>1, <2>4
  <2> HIDE DEF j
  <2>6. j * c = (j - 1) * c + c /\ (j - 1) * c \in Nat
    BY <2>4, OneMore, ProductNat
  <2>7. B(i) = B(j) + F[j] /\ F[j] <= c /\ F[j] \in Nat /\ B(j) \in Nat
    BY <1>1, <2>4
  <2>8. B(i) <= j * c
    BY <2>5, <2>6, <2>7
  <2> QED BY <2>2, <2>8 DEF j
<1>3. n + 1 \in Nat /\ n + 1 \in 1..(n + 1) /\ (n + 1) - 1 = n
  OBVIOUS
<1>4. B(n + 1) <= ((n + 1) - 1) * c
  BY <1>2, <1>3
<1> QED BY <1>3, <1>4 DEF B

\* A function without two equal values has as many values as arguments.
LEMMA ImageSize ==
    ASSUME NEW S, IsFiniteSet(S), NEW T, NEW f \in [S -> T], \A y \in T : \E x \in S : f[x] = y,
           \A x, y \in S : f[x] = f[y] => x = y
    PROVE  Cardinality(T) = Cardinality(S)
<1>1. f \in Bijection(S, T)
  BY DEF Bijection, Injection, Surjection, IsInjective
<1>2. ExistsBijection(S, T)
  BY <1>1 DEF ExistsBijection
<1> QED BY <1>2, FS_Bijection
=============================================================================
