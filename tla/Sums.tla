-------------------------------- MODULE Sums --------------------------------
(***************************************************************************)
(* Sums over finite sets, as SumFunctionOnSet of the community modules     *)
(* computes them, and the inductions that reason about them.  The library  *)
(* states induction with an operator parameter; here it is stated with the *)
(* set of those that have the property, and follows from what the library  *)
(* knows of finite sets.                                                   *)
(***************************************************************************)
EXTENDS Functions, FiniteSetTheorems, TLAPS

\* Induction over the natural numbers: if numbers up to k were missing, adding
\* one would map those below k into those between 1 and k.
LEMMA NaturalInduction ==
  ASSUME NEW good \in SUBSET Nat, 0 \in good, \A n \in good : n + 1 \in good
  PROVE  good = Nat
<1> SUFFICES ASSUME NEW k \in Nat \ good PROVE FALSE
  OBVIOUS
<1> DEFINE below == {n \in good : n < k}
           next == [n \in below |-> n + 1]
<1>1. IsFiniteSet(below)
  BY FS_BoundedSetOfNaturals
<1>2. /\ IsFiniteSet(below \ {0}) /\ 0 \in below
      /\ Cardinality(below \ {0}) = Cardinality(below) - 1
  BY <1>1, FS_RemoveElement
<1>3. Cardinality(below) \in Nat
  BY <1>1, FS_CardinalityType
<1>4. next \in [below -> below \ {0}]
  <2> SUFFICES ASSUME NEW n \in below PROVE n + 1 \in below \ {0}
    OBVIOUS
  <2>1. n + 1 \in good /\ n + 1 # k /\ n \in Nat /\ n < k
    OBVIOUS
  <2> QED
    BY <2>1
<1>5. Cardinality(below \ {0}) < Cardinality(below)
  BY <1>2, <1>3
<1> HIDE DEF below
<1>6. \E x, y \in below : x # y /\ next[x] = next[y]
  <2> HIDE DEF next
  <2> QED
    BY <1>1, <1>2, <1>4, <1>5, FS_PigeonHole
<1>7. below \subseteq Nat
  BY DEF below
<1> QED
  BY <1>6, <1>7

\* Induction over the subsets of a finite set.
LEMMA SubsetInduction ==
  ASSUME NEW S, IsFiniteSet(S), NEW good \in SUBSET (SUBSET S),
         \A T \in SUBSET S : (\A U \in (SUBSET T) \ {T} : U \in good) => T \in good
  PROVE  good = SUBSET S
<1> DEFINE bad == (SUBSET S) \ good
           R == StrictSubsetOrdering(S)
           all == SUBSET S
<1>1. SUFFICES ASSUME bad # {} PROVE FALSE
  OBVIOUS
<1>2. FiniteSubsetsOf(S) = SUBSET S
  BY FS_FiniteSubsetsOfFinite
<1>3. IsWellFoundedOn(R, all)
  BY <1>2, FS_StrictSubsetOrderingWellFounded
<1>4. bad \subseteq all
  OBVIOUS
<1>5. \E T \in bad : \A U \in bad : ~ (<<U, T>> \in R)
  <2> HIDE DEF bad, R, all
  <2> QED
    BY <1>1, <1>3, <1>4, WFMin
<1>6. PICK T \in bad : \A U \in bad : ~ (<<U, T>> \in R)
  BY <1>5
<1>7. \A U \in (SUBSET T) \ {T} : U \in good
  BY <1>6 DEF StrictSubsetOrdering
<1> QED
  BY <1>6, <1>7

-----------------------------------------------------------------------------
\* SumFunctionOnSet takes its elements one by one, Some of what is left first.
SumOver(f, S) == SumFunctionOnSet(f, S)
Some(S) == CHOOSE x \in S : TRUE
Rest(S) == S \ {Some(S)}
\* g[T] is what the elements of T add up to, if g[Rest(T)] is so for the rest.
Sums(f, g, T) == g[T] = IF T = {} THEN 0 ELSE f[Some(T)] + g[Rest(T)]

LEMMA SumUnfolds ==
  ASSUME NEW S, NEW f
  PROVE  SumOver(f, S) =
           (CHOOSE g : g = [T \in SUBSET S |->
                         IF T = {} THEN 0 ELSE f[Some(T)] + g[Rest(T)]])[S]
BY DEF SumOver, SumFunctionOnSet, FoldFunctionOnSet, MapThenFoldSet, Some, Rest

LEMMA SomeIsIn == ASSUME NEW S, S # {} PROVE Some(S) \in S
BY DEF Some

\* There is a function of partial sums.
LEMMA SumsExist ==
  ASSUME NEW S, IsFiniteSet(S), NEW f, \A x \in S : f[x] \in Int
  PROVE  \E g \in [SUBSET S -> Int] : \A T \in SUBSET S : Sums(f, g, T)
<1> DEFINE good == {n \in Nat : \E g \in [SUBSET S -> Int] :
                      \A T \in SUBSET S : Cardinality(T) <= n => Sums(f, g, T)}
<1>1. \A T \in SUBSET S : IsFiniteSet(T) /\ Cardinality(T) \in Nat /\ (Cardinality(T) = 0 <=> T = {})
  BY FS_Subset, FS_CardinalityType, FS_EmptySet
<1>2. 0 \in good
  <2>1. \A T \in SUBSET S : Cardinality(T) <= 0 => T = {}
    BY <1>1
  <2> DEFINE g == [T \in SUBSET S |-> 0]
  <2>2. g \in [SUBSET S -> Int] /\ \A T \in SUBSET S : Cardinality(T) <= 0 => Sums(f, g, T)
    BY <2>1 DEF Sums
  <2> QED
    BY <2>2
<1>3. ASSUME NEW n \in good PROVE n + 1 \in good
  <2>1. PICK g \in [SUBSET S -> Int] : \A T \in SUBSET S : Cardinality(T) <= n => Sums(f, g, T)
    OBVIOUS
  <2> DEFINE h == [T \in SUBSET S |-> IF T = {} THEN 0 ELSE f[Some(T)] + g[Rest(T)]]
  <2>2. \A T \in SUBSET S : T # {} =>
          /\ Some(T) \in S /\ Rest(T) \in SUBSET S
          /\ Cardinality(Rest(T)) = Cardinality(T) - 1
    <3> SUFFICES ASSUME NEW T \in SUBSET S, T # {}
                 PROVE  /\ Some(T) \in S /\ Rest(T) \in SUBSET S
                        /\ Cardinality(Rest(T)) = Cardinality(T) - 1
      OBVIOUS
    <3>1. Some(T) \in T
      BY SomeIsIn
    <3> QED
      BY <1>1, <3>1, FS_RemoveElement DEF Rest
  <2>3. h \in [SUBSET S -> Int]
    BY <2>2
  <2>4. ASSUME NEW T \in SUBSET S, Cardinality(T) <= n PROVE h[T] = g[T]
    BY <2>1, <2>4 DEF Sums
  <2>5. ASSUME NEW T \in SUBSET S, Cardinality(T) <= n + 1 PROVE Sums(f, h, T)
    <3>1. CASE T = {}
      BY <3>1 DEF Sums
    <3>2. CASE T # {}
      <4>1. Rest(T) \in SUBSET S /\ Cardinality(Rest(T)) <= n
        BY <1>1, <2>2, <2>5, <3>2
      <4>2. h[Rest(T)] = g[Rest(T)] /\ h[T] = f[Some(T)] + g[Rest(T)]
        BY <2>4, <3>2, <4>1
      <4> QED
        BY <3>2, <4>2 DEF Sums
    <3> QED
      BY <3>1, <3>2
  <2> HIDE DEF h
  <2> QED
    BY <2>3, <2>5
<1>4. good = Nat
  <2>1. good \in SUBSET Nat
    OBVIOUS
  <2> HIDE DEF good
  <2> QED
    BY <1>2, <1>3, <2>1, NaturalInduction
<1>5. PICK g \in [SUBSET S -> Int] :
        \A T \in SUBSET S : Cardinality(T) <= Cardinality(S) => Sums(f, g, T)
  <2>1. Cardinality(S) \in good
    BY <1>4, FS_CardinalityType
  <2> QED
    BY <2>1
<1>6. \A T \in SUBSET S : Cardinality(T) <= Cardinality(S)
  BY FS_Subset
<1> QED
  BY <1>5, <1>6

\* There is only one.
LEMMA SumsAgree ==
  ASSUME NEW S, IsFiniteSet(S), NEW f, NEW g, NEW h,
         \A T \in SUBSET S : Sums(f, g, T) /\ Sums(f, h, T)
  PROVE  g[S] = h[S]
<1> DEFINE good == {T \in SUBSET S : g[T] = h[T]}
<1>1. ASSUME NEW T \in SUBSET S, \A U \in (SUBSET T) \ {T} : U \in good
      PROVE  T \in good
  <2>1. CASE T = {}
    BY <2>1 DEF Sums
  <2>2. CASE T # {}
    <3>1. Some(T) \in T
      BY <2>2, SomeIsIn
    <3>2. Rest(T) \in (SUBSET T) \ {T}
      BY <3>1 DEF Rest
    <3>3. g[Rest(T)] = h[Rest(T)]
      BY <1>1, <3>2
    <3> QED
      BY <2>2, <3>3 DEF Sums
  <2> QED
    BY <2>1, <2>2
<1>2. good = SUBSET S
  <2>1. good \in SUBSET (SUBSET S)
    OBVIOUS
  <2> HIDE DEF good
  <2> QED
    BY <1>1, <2>1, SubsetInduction
<1> QED
  BY <1>2

\* The sum over a finite set is one of these partial sums.
LEMMA SumIsOne ==
  ASSUME NEW S, IsFiniteSet(S), NEW f, \A x \in S : f[x] \in Int
  PROVE  \E g \in [SUBSET S -> Int] : /\ \A T \in SUBSET S : Sums(f, g, T)
                                      /\ SumOver(f, S) = g[S]
<1>1. PICK g \in [SUBSET S -> Int] : \A T \in SUBSET S : Sums(f, g, T)
  BY SumsExist
<1>2. g = [T \in SUBSET S |-> IF T = {} THEN 0 ELSE f[Some(T)] + g[Rest(T)]]
  BY <1>1 DEF Sums
<1>3. PICK h : /\ h = [T \in SUBSET S |-> IF T = {} THEN 0 ELSE f[Some(T)] + h[Rest(T)]]
               /\ SumOver(f, S) = h[S]
  BY <1>2, SumUnfolds
<1>4. \A T \in SUBSET S : Sums(f, h, T)
  BY <1>3 DEF Sums
<1>5. g[S] = h[S]
  <2>1. \A T \in SUBSET S : Sums(f, g, T) /\ Sums(f, h, T)
    BY <1>1, <1>4
  <2> QED
    BY <2>1, SumsAgree
<1> QED
  BY <1>1, <1>3, <1>5

\* What a sum is: one element's share and the sum of the others.
LEMMA SumRest ==
  ASSUME NEW S, IsFiniteSet(S), NEW f, \A x \in S : f[x] \in Int
  PROVE  /\ \A T \in SUBSET S : SumOver(f, T) \in Int
         /\ SumOver(f, {}) = 0
         /\ \A T \in SUBSET S : T # {} => SumOver(f, T) = f[Some(T)] + SumOver(f, Rest(T))
<1>1. PICK g \in [SUBSET S -> Int] : \A T \in SUBSET S : Sums(f, g, T)
  BY SumsExist
<1>2. ASSUME NEW T \in SUBSET S PROVE SumOver(f, T) = g[T]
  <2>1. IsFiniteSet(T) /\ \A x \in T : f[x] \in Int
    BY FS_Subset
  <2>2. PICK h \in [SUBSET T -> Int] : /\ \A U \in SUBSET T : Sums(f, h, U)
                                       /\ SumOver(f, T) = h[T]
    BY <2>1, SumIsOne
  <2>3. \A U \in SUBSET T : Sums(f, g, U) /\ Sums(f, h, U)
    BY <1>1, <2>2
  <2>4. g[T] = h[T]
    BY <2>1, <2>3, SumsAgree
  <2> QED
    BY <2>2, <2>4
<1>3. \A T \in SUBSET S : Rest(T) \in SUBSET S
  BY DEF Rest
<1> QED
  BY <1>1, <1>2, <1>3 DEF Sums

LEMMA SumTakes ==
  ASSUME NEW S, IsFiniteSet(S), NEW f, \A x \in S : f[x] \in Int, NEW x \in S
  PROVE  SumOver(f, S) = f[x] + SumOver(f, S \ {x})
<1> DEFINE good == {T \in SUBSET S : \A y \in T : SumOver(f, T) = f[y] + SumOver(f, T \ {y})}
<1>1. ASSUME NEW T \in SUBSET S, \A U \in (SUBSET T) \ {T} : U \in good
      PROVE  T \in good
  <2> SUFFICES ASSUME NEW y \in T PROVE SumOver(f, T) = f[y] + SumOver(f, T \ {y})
    OBVIOUS
  <2> DEFINE z == Some(T)
  <2>1. z \in T /\ Rest(T) = T \ {z}
    BY SomeIsIn DEF Rest
  <2>2. SumOver(f, T) = f[z] + SumOver(f, T \ {z})
    <3>1. T # {} /\ SumOver(f, T) = f[Some(T)] + SumOver(f, Rest(T))
      BY SumRest
    <3> QED
      BY <2>1, <3>1
  <2> HIDE DEF z
  <2>3. CASE y # z
    <3>1. T \ {z} \in good /\ T \ {y} \in good
      BY <1>1, <2>1
    <3>2. SumOver(f, T \ {z}) = f[y] + SumOver(f, (T \ {z}) \ {y})
      BY <2>3, <3>1
    <3>3. SumOver(f, T \ {y}) = f[z] + SumOver(f, (T \ {y}) \ {z})
      BY <2>1, <2>3, <3>1
    <3>4. PICK U \in SUBSET S : U = (T \ {z}) \ {y}
      OBVIOUS
    <3>5. (T \ {y}) \ {z} = U
      BY <3>4
    <3>6. f[y] \in Int /\ f[z] \in Int /\ SumOver(f, U) \in Int
      BY <2>1, SumRest
    <3>7. /\ SumOver(f, T \ {z}) = f[y] + SumOver(f, U) /\ SumOver(f, T \ {y}) = f[z] + SumOver(f, U)
      BY <3>2, <3>3, <3>4, <3>5
    <3> QED
      BY <2>2, <3>6, <3>7
  <2> QED
    BY <2>2, <2>3
<1>2. good = SUBSET S
  <2>1. good \in SUBSET (SUBSET S)
    OBVIOUS
  <2> HIDE DEF good
  <2> QED
    BY <1>1, <2>1, SubsetInduction
<1>3. S \in good
  BY <1>2
<1> QED
  BY <1>3

LEMMA SumSame ==
  ASSUME NEW S, IsFiniteSet(S), NEW f, \A x \in S : f[x] \in Int,
         NEW h, \A x \in S : h[x] = f[x]
  PROVE  SumOver(h, S) = SumOver(f, S)
<1>1. PICK g \in [SUBSET S -> Int] : (\A T \in SUBSET S : Sums(f, g, T)) /\ SumOver(f, S) = g[S]
  BY SumIsOne
<1>2. PICK k \in [SUBSET S -> Int] : (\A T \in SUBSET S : Sums(h, k, T)) /\ SumOver(h, S) = k[S]
  BY SumIsOne
<1>3. \A T \in SUBSET S : T # {} => Some(T) \in S
  BY SomeIsIn
<1>4. \A T \in SUBSET S : Sums(f, g, T) /\ Sums(f, k, T)
  BY <1>1, <1>2, <1>3 DEF Sums
<1>5. g[S] = k[S]
  BY <1>4, SumsAgree
<1> QED
  BY <1>1, <1>2, <1>5

\* One share changes.
LEMMA SumChanges ==
  ASSUME NEW S, IsFiniteSet(S), NEW f, \A x \in S : f[x] \in Int,
         NEW h, \A x \in S : h[x] \in Int, NEW x \in S, \A y \in S \ {x} : h[y] = f[y]
  PROVE  SumOver(h, S) = SumOver(f, S) + h[x] - f[x]
<1> DEFINE others == S \ {x}
<1>1. IsFiniteSet(others)
  BY FS_Subset
<1>2. SumOver(h, others) = SumOver(f, others)
  BY <1>1, SumSame
<1>3. SumOver(f, S) = f[x] + SumOver(f, others) /\ SumOver(h, S) = h[x] + SumOver(h, others)
  BY SumTakes
<1>4. SumOver(f, others) \in Int
  BY SumRest
<1> HIDE DEF others
<1> QED
  BY <1>2, <1>3, <1>4

LEMMA SumAdds ==
  ASSUME NEW S, IsFiniteSet(S), NEW f, \A x \in S : f[x] \in Int,
         NEW h, \A x \in S : h[x] \in Int, NEW k, \A x \in S : k[x] = f[x] + h[x]
  PROVE  SumOver(k, S) = SumOver(f, S) + SumOver(h, S)
<1> DEFINE good == {T \in SUBSET S : SumOver(k, T) = SumOver(f, T) + SumOver(h, T)}
<1>1. ASSUME NEW T \in SUBSET S, \A U \in (SUBSET T) \ {T} : U \in good
      PROVE  T \in good
  <2>1. \A x \in S : k[x] \in Int
    OBVIOUS
  <2>2. CASE T = {}
    BY <2>1, <2>2, SumRest
  <2>3. CASE T # {}
    <3>1. Some(T) \in T
      BY <2>3, SomeIsIn
    <3>2. Rest(T) \in (SUBSET T) \ {T} /\ Rest(T) \in SUBSET S /\ Some(T) \in S
      BY <3>1 DEF Rest
    <3>3. SumOver(k, Rest(T)) = SumOver(f, Rest(T)) + SumOver(h, Rest(T))
      BY <1>1, <3>2
    <3>4. /\ SumOver(f, T) = f[Some(T)] + SumOver(f, Rest(T))
          /\ SumOver(h, T) = h[Some(T)] + SumOver(h, Rest(T))
          /\ SumOver(k, T) = k[Some(T)] + SumOver(k, Rest(T))
      BY <2>1, <2>3, SumRest
    <3>5. /\ f[Some(T)] \in Int /\ h[Some(T)] \in Int /\ k[Some(T)] = f[Some(T)] + h[Some(T)]
          /\ SumOver(f, Rest(T)) \in Int /\ SumOver(h, Rest(T)) \in Int
      BY <3>2, SumRest
    <3>6. SumOver(k, T) = SumOver(f, T) + SumOver(h, T)
      BY <3>3, <3>4, <3>5
    <3> QED
      BY <3>6
  <2> QED
    BY <2>2, <2>3
<1>2. good = SUBSET S
  <2>1. good \in SUBSET (SUBSET S)
    OBVIOUS
  <2> HIDE DEF good
  <2> QED
    BY <1>1, <2>1, SubsetInduction
<1>3. S \in good
  BY <1>2
<1> QED
  BY <1>3

LEMMA SumAtMost ==
  ASSUME NEW S, IsFiniteSet(S), NEW f, \A x \in S : f[x] \in Int,
         NEW h, \A x \in S : h[x] \in Int, \A x \in S : f[x] <= h[x]
  PROVE  SumOver(f, S) <= SumOver(h, S)
<1> DEFINE good == {T \in SUBSET S : SumOver(f, T) <= SumOver(h, T)}
<1>1. ASSUME NEW T \in SUBSET S, \A U \in (SUBSET T) \ {T} : U \in good
      PROVE  T \in good
  <2>1. CASE T = {}
    BY <2>1, SumRest
  <2>2. CASE T # {}
    <3>1. Some(T) \in T
      BY <2>2, SomeIsIn
    <3>2. Rest(T) \in (SUBSET T) \ {T} /\ Rest(T) \in SUBSET S /\ Some(T) \in S
      BY <3>1 DEF Rest
    <3>3. SumOver(f, Rest(T)) <= SumOver(h, Rest(T))
      BY <1>1, <3>2
    <3>4. /\ SumOver(f, T) = f[Some(T)] + SumOver(f, Rest(T))
          /\ SumOver(h, T) = h[Some(T)] + SumOver(h, Rest(T))
      BY <2>2, SumRest
    <3>5. /\ f[Some(T)] \in Int /\ h[Some(T)] \in Int /\ f[Some(T)] <= h[Some(T)]
          /\ SumOver(f, Rest(T)) \in Int /\ SumOver(h, Rest(T)) \in Int
      BY <3>2, SumRest
    <3>6. SumOver(f, T) <= SumOver(h, T)
      BY <3>3, <3>4, <3>5
    <3> QED
      BY <3>6
  <2> QED
    BY <2>1, <2>2
<1>2. good = SUBSET S
  <2>1. good \in SUBSET (SUBSET S)
    OBVIOUS
  <2> HIDE DEF good
  <2> QED
    BY <1>1, <2>1, SubsetInduction
<1>3. S \in good
  BY <1>2
<1> QED
  BY <1>3

\* No share is more than the sum of natural numbers.
LEMMA SumNat ==
  ASSUME NEW S, IsFiniteSet(S), NEW f, \A x \in S : f[x] \in Nat
  PROVE  /\ SumOver(f, S) \in Nat
         /\ \A x \in S : f[x] <= SumOver(f, S)
<1>1. ASSUME NEW T \in SUBSET S PROVE SumOver(f, T) \in Int /\ 0 <= SumOver(f, T)
  <2> DEFINE none == [x \in T |-> 0]
             good == {U \in SUBSET T : SumOver(none, U) = 0}
  <2>1. IsFiniteSet(T) /\ \A x \in T : f[x] \in Int /\ none[x] \in Int /\ none[x] <= f[x]
    BY FS_Subset
  <2>2. \A x \in T : none[x] = 0
    OBVIOUS
  <2>3. SumOver(none, T) = SumOver(none, T) + SumOver(none, T)
    <3> HIDE DEF none
    <3> QED
      BY <2>1, <2>2, SumAdds
  <2>4. SumOver(none, T) <= SumOver(f, T) /\ SumOver(none, T) \in Int /\ SumOver(f, T) \in Int
    <3> HIDE DEF none
    <3> QED
      BY <2>1, SumAtMost, SumRest
  <2> QED
    BY <2>3, <2>4
<1>2. ASSUME NEW x \in S PROVE f[x] <= SumOver(f, S)
  <2>1. SumOver(f, S) = f[x] + SumOver(f, S \ {x})
    BY SumTakes
  <2>2. SumOver(f, S \ {x}) \in Int /\ 0 <= SumOver(f, S \ {x})
    BY <1>1
  <2> QED
    BY <2>1, <2>2
<1> QED
  BY <1>1, <1>2

LEMMA SumOfNone ==
  ASSUME NEW S, IsFiniteSet(S), NEW f, \A x \in S : f[x] = 0
  PROVE  SumOver(f, S) = 0
<1>1. \A x \in S : f[x] \in Int /\ f[x] = f[x] + f[x]
  OBVIOUS
<1>2. SumOver(f, S) = SumOver(f, S) + SumOver(f, S)
  BY <1>1, SumAdds
<1>3. PICK n \in Int : n = SumOver(f, S)
  BY <1>1, SumRest
<1>4. n = n + n
  BY Zenon, <1>2, <1>3
<1>5. n = 0
  BY ONLY n \in Int, <1>4
<1> QED
  BY Zenon, <1>3, <1>5
=============================================================================
