-------------------------------- MODULE Sums ---------------------------------
(***************************************************************************)
(* What MapThenSumSet computes of a count per element of a finite set: the *)
(* lemmas TankBattleProofs needs to compare totals.                        *)
(*                                                                         *)
(* MapThenSumSet is a recursive function on the subsets of its argument.   *)
(* The lemmas are proved by looking at a smallest subset they fail for.    *)
(***************************************************************************)
EXTENDS Integers, FiniteSetsExt, FiniteSetTheorems, WellFoundedInduction, TLAPS

Sum(f, S) == MapThenSumSet(LAMBDA x : f[x], S)

\* The element MapThenSumSet takes out of a set.
Pick(S) == CHOOSE x \in S : TRUE

\* g is the recursive function it defines.
Summing(f, S, g) ==
    g = [T \in SUBSET S |-> IF T = {} THEN 0 ELSE f[Pick(T)] + g[T \ {Pick(T)}]]

LEMMA SumUnfolds ==
  ASSUME NEW f, NEW S
  PROVE  Sum(f, S) = (CHOOSE g : Summing(f, S, g))[S]
  BY DEF Sum, MapThenSumSet, MapThenFoldSet, Summing, Pick

LEMMA SmallestSet ==
  ASSUME NEW S, IsFiniteSet(S), NEW C \in SUBSET (SUBSET S), C # {}
  PROVE  \E X \in C : \A Y \in C : Y \subseteq X => Y = X
<1>1. C \subseteq FiniteSubsetsOf(S)
  BY FS_Subset DEF FiniteSubsetsOf
<1>2. PICK X \in C : \A Y \in C : <<Y, X>> \notin StrictSubsetOrdering(S)
  BY <1>1, WFMin, FS_StrictSubsetOrderingWellFounded
<1> QED
  BY <1>2 DEF StrictSubsetOrdering

LEMMA PickIsIn ==
  ASSUME NEW S, S # {}
  PROVE  Pick(S) \in S
  BY DEF Pick

-----------------------------------------------------------------------------
(* The recursive function exists, and is the same on the subsets it shares *)
(* with that of another set.                                               *)

LEMMA SummingIs ==
  ASSUME NEW f, NEW S, NEW g, Summing(f, S, g), NEW T \in SUBSET S
  PROVE  g[T] = IF T = {} THEN 0 ELSE f[Pick(T)] + g[T \ {Pick(T)}]
  BY DEF Summing

LEMMA SummingAgrees ==
  ASSUME NEW f, NEW S, IsFiniteSet(S), NEW g, Summing(f, S, g),
         NEW T \in SUBSET S, NEW h, Summing(f, T, h)
  PROVE  g[T] = h[T]
<1> DEFINE C == {X \in SUBSET T : g[X] # h[X]}
<1>1. CASE C = {}
  BY <1>1
<1>2. CASE C # {}
  <2>1. IsFiniteSet(T)
    BY FS_Subset
  <2>2. PICK X \in C : \A Y \in C : Y \subseteq X => Y = X
    <3>1. C \in SUBSET (SUBSET T)
      OBVIOUS
    <3> HIDE DEF C
    <3> QED
      BY <1>2, <2>1, <3>1, SmallestSet
  <2>3. X \subseteq T /\ X \subseteq S
    BY <2>2
  <2>4. X # {}
    BY <2>2, <2>3, SummingIs
  <2>5. Pick(X) \in X
    BY <2>4, PickIsIn
  <2>6. g[X \ {Pick(X)}] = h[X \ {Pick(X)}]
    BY <2>2, <2>3, <2>5
  <2>7. /\ g[X] = f[Pick(X)] + g[X \ {Pick(X)}]
        /\ h[X] = f[Pick(X)] + h[X \ {Pick(X)}]
    BY <2>3, <2>4, SummingIs
  <2> QED
    BY <2>2, <2>6, <2>7
<1> QED
  BY <1>1, <1>2

LEMMA SumIsSumming ==
  ASSUME NEW f, NEW S, NEW g, Summing(f, S, g)
  PROVE  \E h : Summing(f, S, h) /\ Sum(f, S) = h[S]
<1>1. Summing(f, S, CHOOSE h : Summing(f, S, h))
  OBVIOUS
<1> QED
  BY <1>1, SumUnfolds

LEMMA SummingExists ==
  ASSUME NEW f, NEW S, IsFiniteSet(S)
  PROVE  \E g : Summing(f, S, g)
<1> DEFINE C == {X \in SUBSET S : ~ \E g : Summing(f, X, g)}
<1>1. CASE C = {}
  BY <1>1
<1>2. CASE C # {}
  <2>1. PICK X \in C : \A Y \in C : Y \subseteq X => Y = X
    <3>1. C \in SUBSET (SUBSET S)
      OBVIOUS
    <3> HIDE DEF C
    <3> QED
      BY <1>2, <3>1, SmallestSet
  <2>2. X \subseteq S /\ IsFiniteSet(X)
    BY <2>1, FS_Subset
  <2>3. ASSUME NEW Y \in SUBSET X, Y # X
        PROVE  \E h : Summing(f, Y, h) /\ Sum(f, Y) = h[Y]
    <3>1. \E g : Summing(f, Y, g)
      BY <2>1, <2>2, <2>3
    <3> QED
      BY <3>1, SumIsSumming
  <2>4. ASSUME NEW Y \in SUBSET X, Y # X
        PROVE  Sum(f, Y) = IF Y = {} THEN 0 ELSE f[Pick(Y)] + Sum(f, Y \ {Pick(Y)})
    <3>1. PICK h : Summing(f, Y, h) /\ Sum(f, Y) = h[Y]
      BY <2>3, <2>4
    <3>2. CASE Y = {}
      BY <3>1, <3>2, SummingIs
    <3>3. CASE Y # {}
      <4>1. Y \ {Pick(Y)} \in SUBSET X /\ Y \ {Pick(Y)} # X /\ Y \ {Pick(Y)} \in SUBSET Y
        BY <2>4, <3>3, PickIsIn
      <4>2. PICK k : Summing(f, Y \ {Pick(Y)}, k) /\ Sum(f, Y \ {Pick(Y)}) = k[Y \ {Pick(Y)}]
        BY <2>3, <4>1
      <4>3. IsFiniteSet(Y)
        BY <2>2, FS_Subset
      <4>4. h[Y \ {Pick(Y)}] = k[Y \ {Pick(Y)}]
        BY <3>1, <4>1, <4>2, <4>3, SummingAgrees
      <4>5. h[Y] = f[Pick(Y)] + h[Y \ {Pick(Y)}]
        BY <3>1, <3>3, SummingIs
      <4> QED
        BY <3>1, <3>3, <4>2, <4>4, <4>5
    <3> QED
      BY <3>2, <3>3
  <2> DEFINE g == [Y \in SUBSET X |->
                      IF Y = {} THEN 0 ELSE f[Pick(Y)] + Sum(f, Y \ {Pick(Y)})]
  <2>5. ASSUME NEW Y \in SUBSET X
        PROVE  g[Y] = IF Y = {} THEN 0 ELSE f[Pick(Y)] + g[Y \ {Pick(Y)}]
    <3>1. CASE Y = {}
      BY <3>1
    <3>2. CASE Y # {}
      <4> DEFINE Z == Y \ {Pick(Y)}
      <4>1. Z \in SUBSET X /\ Z # X
        BY <3>2, PickIsIn
      <4>2. g[Z] = Sum(f, Z)
        <5> HIDE DEF Z
        <5> QED
          BY <2>4, <4>1
      <4> QED
        BY <3>2, <4>2
    <3> QED
      BY <3>1, <3>2
  <2>6. Summing(f, X, g)
    <3>1. g = [Y \in SUBSET X |-> g[Y]]
      OBVIOUS
    <3> HIDE DEF g
    <3> QED
      BY <2>5, <3>1 DEF Summing
  <2> QED
    BY <2>1, <2>6
<1> QED
  BY <1>1, <1>2

-----------------------------------------------------------------------------
(* Sums.                                                                   *)

\* The recursion: one element is picked, the others are summed.
LEMMA SumIs ==
  ASSUME NEW f, NEW S, IsFiniteSet(S)
  PROVE  Sum(f, S) = IF S = {} THEN 0 ELSE f[Pick(S)] + Sum(f, S \ {Pick(S)})
<1>1. PICK g : Summing(f, S, g) /\ Sum(f, S) = g[S]
  BY SummingExists, SumIsSumming
<1>2. CASE S = {}
  BY <1>1, <1>2, SummingIs
<1>3. CASE S # {}
  <2> DEFINE T == S \ {Pick(S)}
  <2>1. T \in SUBSET S /\ IsFiniteSet(T)
    BY FS_Subset
  <2> HIDE DEF T
  <2>2. PICK h : Summing(f, T, h) /\ Sum(f, T) = h[T]
    BY <2>1, SummingExists, SumIsSumming
  <2>3. g[T] = h[T]
    BY <1>1, <2>1, <2>2, SummingAgrees
  <2> QED
    BY <1>1, <1>3, <2>2, <2>3, SummingIs DEF T
<1> QED
  BY <1>2, <1>3

\* A sum of natural numbers is one.
LEMMA SumIsNat ==
  ASSUME NEW f, NEW S, IsFiniteSet(S), \A x \in S : f[x] \in Nat
  PROVE  Sum(f, S) \in Nat
<1> DEFINE C == {X \in SUBSET S : Sum(f, X) \notin Nat}
<1>1. CASE C = {}
  BY <1>1
<1>2. CASE C # {}
  <2>1. PICK X \in C : \A Y \in C : Y \subseteq X => Y = X
    <3>1. C \in SUBSET (SUBSET S)
      OBVIOUS
    <3> HIDE DEF C
    <3> QED
      BY <1>2, <3>1, SmallestSet
  <2>2. IsFiniteSet(X) /\ X \subseteq S
    BY <2>1, FS_Subset
  <2>3. X # {}
    <3>1. X = {} => Sum(f, X) = 0
      BY <2>2, SumIs
    <3> QED
      BY <2>1, <3>1
  <2>4. Pick(X) \in X
    BY <2>3, PickIsIn
  <2>5. Sum(f, X \ {Pick(X)}) \in Nat
    BY <2>1, <2>2, <2>4
  <2>6. Sum(f, X) = f[Pick(X)] + Sum(f, X \ {Pick(X)})
    BY <2>2, <2>3, SumIs
  <2> QED
    BY <2>1, <2>2, <2>4, <2>5, <2>6
<1> QED
  BY <1>1, <1>2

\* Any element may be taken out first.
LEMMA SumWithout ==
  ASSUME NEW f, NEW S, IsFiniteSet(S), \A x \in S : f[x] \in Nat, NEW x \in S
  PROVE  Sum(f, S) = f[x] + Sum(f, S \ {x})
<1> DEFINE C == {X \in SUBSET S : \E y \in X : Sum(f, X) # f[y] + Sum(f, X \ {y})}
<1>1. CASE C = {}
  BY <1>1
<1>2. CASE C # {}
  <2>1. PICK X \in C : \A Y \in C : Y \subseteq X => Y = X
    <3>1. C \in SUBSET (SUBSET S)
      OBVIOUS
    <3> HIDE DEF C
    <3> QED
      BY <1>2, <3>1, SmallestSet
  <2>2. PICK y \in X : Sum(f, X) # f[y] + Sum(f, X \ {y})
    BY <2>1
  <2> DEFINE p == Pick(X)
  <2>3. p \in X /\ X \subseteq S
    BY <2>1, <2>2, PickIsIn
  <2>4. \A Z \in SUBSET X : IsFiniteSet(Z) /\ Sum(f, Z) \in Nat
    BY <2>3, FS_Subset, SumIsNat
  <2>5. Sum(f, X) = f[p] + Sum(f, X \ {p})
    BY <2>2, <2>4, SumIs
  <2> HIDE DEF p
  <2>6. y # p
    BY <2>2, <2>5
  <2>7. Sum(f, X \ {p}) = f[y] + Sum(f, (X \ {p}) \ {y})
    <3>1. X \ {p} \notin C /\ y \in X \ {p} /\ X \ {p} \in SUBSET S
      BY <2>1, <2>2, <2>3, <2>6
    <3> QED
      BY <3>1
  <2>8. Sum(f, X \ {y}) = f[p] + Sum(f, (X \ {y}) \ {p})
    <3>1. X \ {y} \notin C /\ p \in X \ {y} /\ X \ {y} \in SUBSET S
      BY <2>1, <2>2, <2>3, <2>6
    <3> QED
      BY <3>1
  <2> DEFINE w == Sum(f, (X \ {y}) \ {p})
  <2>9. (X \ {p}) \ {y} = (X \ {y}) \ {p}
    OBVIOUS
  <2>10. f[p] \in Nat /\ f[y] \in Nat /\ w \in Nat
    BY <2>2, <2>3, <2>4
  <2>11. Sum(f, X) = f[p] + (f[y] + w) /\ f[y] + Sum(f, X \ {y}) = f[y] + (f[p] + w)
    BY <2>5, <2>7, <2>8, <2>9
  <2> HIDE DEF w
  <2>12. f[p] + (f[y] + w) = f[y] + (f[p] + w)
    BY <2>10
  <2> QED
    BY <2>2, <2>11, <2>12
<1> QED
  BY <1>1, <1>2

\* A sum depends on the counts of its elements only.
LEMMA SumAgrees ==
  ASSUME NEW f, NEW g, NEW S, IsFiniteSet(S), \A x \in S : f[x] = g[x]
  PROVE  Sum(f, S) = Sum(g, S)
<1> DEFINE C == {X \in SUBSET S : Sum(f, X) # Sum(g, X)}
<1>1. CASE C = {}
  BY <1>1
<1>2. CASE C # {}
  <2>1. PICK X \in C : \A Y \in C : Y \subseteq X => Y = X
    <3>1. C \in SUBSET (SUBSET S)
      OBVIOUS
    <3> HIDE DEF C
    <3> QED
      BY <1>2, <3>1, SmallestSet
  <2>2. IsFiniteSet(X) /\ X \subseteq S
    BY <2>1, FS_Subset
  <2>3. X # {}
    BY <2>1, <2>2, SumIs
  <2>4. Pick(X) \in X
    BY <2>3, PickIsIn
  <2>5. Sum(f, X \ {Pick(X)}) = Sum(g, X \ {Pick(X)})
    BY <2>1, <2>2, <2>4
  <2>6. /\ Sum(f, X) = f[Pick(X)] + Sum(f, X \ {Pick(X)})
        /\ Sum(g, X) = g[Pick(X)] + Sum(g, X \ {Pick(X)})
    BY <2>2, <2>3, SumIs
  <2> QED
    BY <2>1, <2>2, <2>4, <2>5, <2>6
<1> QED
  BY <1>1, <1>2

\* A sum of zeros is zero.
LEMMA SumOfZeros ==
  ASSUME NEW f, NEW S, IsFiniteSet(S), \A x \in S : f[x] = 0
  PROVE  Sum(f, S) = 0
<1> DEFINE C == {X \in SUBSET S : Sum(f, X) # 0}
<1>1. CASE C = {}
  BY <1>1
<1>2. CASE C # {}
  <2>1. PICK X \in C : \A Y \in C : Y \subseteq X => Y = X
    <3>1. C \in SUBSET (SUBSET S)
      OBVIOUS
    <3> HIDE DEF C
    <3> QED
      BY <1>2, <3>1, SmallestSet
  <2>2. IsFiniteSet(X) /\ X \subseteq S
    BY <2>1, FS_Subset
  <2>3. X # {}
    BY <2>1, <2>2, SumIs
  <2>4. Pick(X) \in X
    BY <2>3, PickIsIn
  <2>5. Sum(f, X \ {Pick(X)}) = 0
    BY <2>1, <2>2, <2>4
  <2>6. Sum(f, X) = f[Pick(X)] + Sum(f, X \ {Pick(X)})
    BY <2>2, <2>3, SumIs
  <2> QED
    BY <2>1, <2>2, <2>4, <2>5, <2>6
<1> QED
  BY <1>1, <1>2

\* One more for one element is one more for the sum.
LEMMA SumOfOneMore ==
  ASSUME NEW f, NEW g, NEW S, IsFiniteSet(S), \A y \in S : f[y] \in Nat,
         NEW x \in S, g[x] = f[x] + 1, \A y \in S \ {x} : g[y] = f[y]
  PROVE  Sum(g, S) = Sum(f, S) + 1
<1>1. \A y \in S : g[y] \in Nat
  <2>1. ASSUME NEW y \in S PROVE g[y] \in Nat
    <3>1. CASE y = x
      BY <3>1
    <3>2. CASE y # x
      BY <3>2
    <3> QED
      BY <3>1, <3>2
  <2> QED
    BY <2>1
<1>2. /\ Sum(f, S) = f[x] + Sum(f, S \ {x})
      /\ Sum(g, S) = g[x] + Sum(g, S \ {x})
  BY <1>1, SumWithout
<1>3. IsFiniteSet(S \ {x})
  BY FS_Subset
<1>4. Sum(g, S \ {x}) = Sum(f, S \ {x})
  BY <1>3, SumAgrees
<1>5. Sum(f, S \ {x}) \in Nat
  BY <1>3, SumIsNat
<1> QED
  BY <1>2, <1>4, <1>5
=============================================================================
