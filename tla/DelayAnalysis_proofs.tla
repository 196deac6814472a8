------------------------ MODULE DelayAnalysis_proofs ------------------------
(***************************************************************************)
(* Proofs about DelayAnalysis, for any events, contributions and orders.   *)
(* They start with what a sum over a finite set is: the function           *)
(* SumFunctionOnSet is defined by recursion over the subsets of the set.   *)
(***************************************************************************)
EXTENDS DelayAnalysis, FiniteSetTheorems, WellFoundedInduction, TLAPS

\* A set of subsets that has each whose proper subsets it has, has them all.
LEMMA SubsetInduction ==
  ASSUME NEW S, IsFiniteSet(S), NEW T,
         \A s \in SUBSET S : (\A r \in SUBSET s : r # s => r \in T) => s \in T
  PROVE  S \in T
<1> SUFFICES ASSUME S \notin T PROVE FALSE
  OBVIOUS
<1> DEFINE Bad == (SUBSET S) \ T
<1>1. Bad \subseteq FiniteSubsetsOf(S) /\ Bad # {}
  BY FS_Subset DEF FiniteSubsetsOf
<1>2. PICK s \in Bad : \A r \in Bad : <<r, s>> \notin StrictSubsetOrdering(S)
  <2> HIDE DEF Bad
  <2> QED
    BY <1>1, FS_StrictSubsetOrderingWellFounded, WFMin
<1>3. \A r \in SUBSET s : r # s => r \in T
  <2> SUFFICES ASSUME NEW r \in SUBSET s, r # s, r \notin T PROVE FALSE
    OBVIOUS
  <2>1. r \in Bad
    OBVIOUS
  <2>2. <<r, s>> \in StrictSubsetOrdering(S)
    BY DEF StrictSubsetOrdering
  <2> QED
    BY <1>2, <2>1, <2>2
<1> QED
  BY <1>3

-----------------------------------------------------------------------------
(* Sums *)

AnyOf(s) == CHOOSE x \in s : TRUE

\* g gives the sum of f over each subset of S, one element after the other.
Sums(f, S, g) ==
  g = [s \in SUBSET S |-> IF s = {} THEN 0 ELSE f[AnyOf(s)] + g[s \ {AnyOf(s)}]]

TheSums(f, S) == CHOOSE g : Sums(f, S, g)

LEMMA SumUnfolds ==
  ASSUME NEW f, NEW S
  PROVE  SumFunctionOnSet(f, S) = TheSums(f, S)[S]
BY DEF SumFunctionOnSet, FoldFunctionOnSet, MapThenFoldSet, TheSums, Sums, AnyOf

LEMMA AnyOfIsOne ==
  ASSUME NEW s, s # {}
  PROVE  AnyOf(s) \in s
BY DEF AnyOf

LEMMA SumsEntry ==
  ASSUME NEW f, NEW S, NEW g, Sums(f, S, g), NEW s \in SUBSET S
  PROVE  g[s] = IF s = {} THEN 0 ELSE f[AnyOf(s)] + g[s \ {AnyOf(s)}]
<1> DEFINE body(n) == [r \in SUBSET S |-> IF r = {} THEN 0
                                          ELSE f[AnyOf(r)] + n[r \ {AnyOf(r)}]]
<1>1. g = body(g)
  BY DEF Sums
<1>2. body(g)[s] = IF s = {} THEN 0 ELSE f[AnyOf(s)] + g[s \ {AnyOf(s)}]
  OBVIOUS
<1> HIDE DEF body
<1> QED
  BY <1>1, <1>2

\* Two such functions agree wherever both are defined.
LEMMA SumsAgree ==
  ASSUME NEW f, NEW P, NEW Q, NEW g, NEW h, Sums(f, P, g), Sums(f, Q, h),
         NEW S, IsFiniteSet(S), S \subseteq P, S \subseteq Q
  PROVE  g[S] = h[S]
<1> DEFINE T == {s \in SUBSET S : g[s] = h[s]}
<1>1. ASSUME NEW s \in SUBSET S, \A r \in SUBSET s : r # s => r \in T
      PROVE  s \in T
  <2>1. CASE s = {}
    BY <2>1, SumsEntry
  <2>2. CASE s # {}
    <3> DEFINE r == s \ {AnyOf(s)}
    <3>1. r \in SUBSET s /\ r # s
      BY <2>2, AnyOfIsOne
    <3>2. g[r] = h[r]
      BY <1>1, <3>1
    <3>3. g[s] = f[AnyOf(s)] + g[r] /\ h[s] = f[AnyOf(s)] + h[r]
      BY <2>2, SumsEntry
    <3> QED
      BY <3>2, <3>3
  <2> QED
    BY <2>1, <2>2
<1> HIDE DEF T
<1>2. S \in T
  BY <1>1, SubsetInduction
<1> QED
  BY <1>2 DEF T

LEMMA SumsExist ==
  ASSUME NEW f, NEW S, IsFiniteSet(S)
  PROVE  Sums(f, S, TheSums(f, S))
<1> DEFINE T == {s \in SUBSET S : Sums(f, s, TheSums(f, s))}
           here(s) == TheSums(f, s)[s]
<1>1. ASSUME NEW s \in SUBSET S, \A r \in SUBSET s : r # s => r \in T
      PROVE  s \in T
  <2> DEFINE g == [r \in SUBSET s |-> IF r = {} THEN 0
                                      ELSE f[AnyOf(r)] + here(r \ {AnyOf(r)})]
  <2>1. ASSUME NEW r \in SUBSET s, r # s
        PROVE  g[r] = here(r)
    <3>1. Sums(f, r, TheSums(f, r))
      BY <1>1, <2>1
    <3>2. CASE r = {}
      <4>1. here(r) = 0
        BY <3>1, <3>2, SumsEntry
      <4> QED
        BY <3>2, <4>1
    <3>3. CASE r # {}
      <4> DEFINE q == r \ {AnyOf(r)}
      <4>1. q \in SUBSET s /\ q # s /\ q \subseteq r /\ IsFiniteSet(q)
        BY <2>1, <3>3, AnyOfIsOne, FS_Subset
      <4>2. Sums(f, q, TheSums(f, q))
        BY <1>1, <4>1
      <4>3. TheSums(f, r)[q] = here(q)
        BY <3>1, <4>1, <4>2, SumsAgree
      <4>4. here(r) = f[AnyOf(r)] + TheSums(f, r)[q]
        BY <3>1, <3>3, SumsEntry
      <4>5. g[r] = f[AnyOf(r)] + here(q)
        BY <3>3
      <4> QED
        BY <4>3, <4>4, <4>5
    <3> QED
      BY <3>2, <3>3
  <2>2. ASSUME NEW r \in SUBSET s
        PROVE  (IF r = {} THEN 0 ELSE f[AnyOf(r)] + here(r \ {AnyOf(r)}))
                 = (IF r = {} THEN 0 ELSE f[AnyOf(r)] + g[r \ {AnyOf(r)}])
    <3>1. CASE r = {}
      BY <3>1
    <3>2. CASE r # {}
      <4> DEFINE q == r \ {AnyOf(r)}
      <4>1. q \in SUBSET s /\ q # s
        BY <3>2, AnyOfIsOne
      <4>2. g[q] = here(q)
        BY <2>1, <4>1
      <4> HIDE DEF g, here
      <4> QED
        BY <3>2, <4>2
    <3> QED
      BY <3>1, <3>2
  <2>3. Sums(f, s, g)
    <3>1. g = [r \in SUBSET s |-> IF r = {} THEN 0
                                  ELSE f[AnyOf(r)] + here(r \ {AnyOf(r)})]
      OBVIOUS
    <3> HIDE DEF g, here
    <3> QED
      BY <2>2, <3>1 DEF Sums
  <2>4. Sums(f, s, TheSums(f, s))
    BY <2>3 DEF TheSums
  <2> QED
    BY <2>4
<1> HIDE DEF T
<1>2. S \in T
  BY <1>1, SubsetInduction
<1> QED
  BY <1>2 DEF T

LEMMA SumOfNone ==
  ASSUME NEW f
  PROVE  SumFunctionOnSet(f, {}) = 0
BY SumUnfolds, SumsExist, SumsEntry, FS_EmptySet

LEMMA SumOfSome ==
  ASSUME NEW f, NEW S, IsFiniteSet(S), S # {}
  PROVE  SumFunctionOnSet(f, S) = f[AnyOf(S)] + SumFunctionOnSet(f, S \ {AnyOf(S)})
<1> DEFINE r == S \ {AnyOf(S)}
<1>1. IsFiniteSet(r) /\ r \subseteq S
  BY FS_Subset
<1>2. Sums(f, S, TheSums(f, S)) /\ Sums(f, r, TheSums(f, r))
  BY <1>1, SumsExist
<1>3. TheSums(f, S)[r] = TheSums(f, r)[r]
  BY <1>1, <1>2, SumsAgree
<1>4. TheSums(f, S)[S] = f[AnyOf(S)] + TheSums(f, S)[r]
  BY <1>2, SumsEntry
<1> QED
  BY <1>3, <1>4, SumUnfolds

LEMMA SumIsInt ==
  ASSUME NEW S, IsFiniteSet(S), NEW f, \A e \in S : f[e] \in Int
  PROVE  SumFunctionOnSet(f, S) \in Int
<1> DEFINE T == {s \in SUBSET S : SumFunctionOnSet(f, s) \in Int}
<1>1. ASSUME NEW s \in SUBSET S, \A r \in SUBSET s : r # s => r \in T
      PROVE  s \in T
  <2>1. CASE s = {}
    BY <2>1, SumOfNone
  <2>2. CASE s # {}
    <3>1. AnyOf(s) \in s /\ s \ {AnyOf(s)} \in T /\ IsFiniteSet(s)
      BY <1>1, <2>2, AnyOfIsOne, FS_Subset
    <3> QED
      BY <2>2, <3>1, SumOfSome
  <2> QED
    BY <2>1, <2>2
<1> HIDE DEF T
<1>2. S \in T
  BY <1>1, SubsetInduction
<1> QED
  BY <1>2 DEF T

\* A sum does not depend on the order its elements are taken in.
LEMMA SumTakesOut ==
  ASSUME NEW S, IsFiniteSet(S), NEW f, \A e \in S : f[e] \in Int, NEW x \in S
  PROVE  /\ SumFunctionOnSet(f, S) = f[x] + SumFunctionOnSet(f, S \ {x})
         /\ SumFunctionOnSet(f, S \ {x}) \in Int
<1> DEFINE sum(s) == SumFunctionOnSet(f, s)
           T == {s \in SUBSET S : \A e \in s : sum(s) = f[e] + sum(s \ {e})}
<1>1. ASSUME NEW s \in SUBSET S
      PROVE  IsFiniteSet(s) /\ sum(s) \in Int
  BY FS_Subset, SumIsInt
<1>2. ASSUME NEW s \in SUBSET S, \A r \in SUBSET s : r # s => r \in T, NEW e \in s
      PROVE  sum(s) = f[e] + sum(s \ {e})
  <2> DEFINE a == AnyOf(s)
             rest == (s \ {a}) \ {e}
  <2>1. a \in s /\ sum(s) = f[a] + sum(s \ {a})
    BY <1>1, AnyOfIsOne, SumOfSome
  <2>2. CASE e = a
    BY <2>1, <2>2
  <2>3. CASE e # a
    <3>1. sum(s \ {a}) = f[e] + sum(rest)
      BY <1>2, <2>1, <2>3
    <3>2. (s \ {e}) \ {a} = rest
      OBVIOUS
    <3>3. sum(s \ {e}) = f[a] + sum(rest)
      BY <1>2, <2>1, <2>3, <3>2
    <3>4. sum(rest) \in Int /\ f[a] \in Int /\ f[e] \in Int
      BY <1>1, <2>1
    <3> HIDE DEF sum, a, rest
    <3> QED
      BY <2>1, <3>1, <3>3, <3>4
  <2> QED
    BY <2>2, <2>3
<1> HIDE DEF T, sum
<1>3. \A s \in SUBSET S : (\A r \in SUBSET s : r # s => r \in T) => s \in T
  BY <1>2 DEF T
<1>4. S \in T
  BY <1>3, SubsetInduction
<1> QED
  BY <1>1, <1>4 DEF T, sum
LEMMA SumIsNat ==
  ASSUME NEW S, IsFiniteSet(S), NEW f, \A e \in S : f[e] \in Nat
  PROVE  SumFunctionOnSet(f, S) \in Nat
<1> DEFINE T == {s \in SUBSET S : SumFunctionOnSet(f, s) \in Nat}
<1>1. ASSUME NEW s \in SUBSET S, \A r \in SUBSET s : r # s => r \in T
      PROVE  s \in T
  <2>1. CASE s = {}
    BY <2>1, SumOfNone
  <2>2. CASE s # {}
    <3>1. AnyOf(s) \in s /\ s \ {AnyOf(s)} \in T /\ IsFiniteSet(s)
      BY <1>1, <2>2, AnyOfIsOne, FS_Subset
    <3> QED
      BY <2>2, <3>1, SumOfSome
  <2> QED
    BY <2>1, <2>2
<1> HIDE DEF T
<1>2. S \in T
  BY <1>1, SubsetInduction
<1> QED
  BY <1>2 DEF T

\* A sum of larger terms is larger.
LEMMA SumGrows ==
  ASSUME NEW S, IsFiniteSet(S), NEW f, NEW g,
         \A e \in S : f[e] \in Int /\ g[e] \in Int /\ f[e] <= g[e]
  PROVE  SumFunctionOnSet(f, S) <= SumFunctionOnSet(g, S)
<1> DEFINE T == {s \in SUBSET S : SumFunctionOnSet(f, s) <= SumFunctionOnSet(g, s)}
<1>1. ASSUME NEW s \in SUBSET S, \A r \in SUBSET s : r # s => r \in T
      PROVE  s \in T
  <2>1. CASE s = {}
    BY <2>1, SumOfNone
  <2>2. CASE s # {}
    <3> DEFINE r == s \ {AnyOf(s)}
    <3>1. AnyOf(s) \in s /\ r \in T /\ IsFiniteSet(s) /\ IsFiniteSet(r)
      BY <1>1, <2>2, AnyOfIsOne, FS_Subset
    <3>2. SumFunctionOnSet(f, r) \in Int /\ SumFunctionOnSet(g, r) \in Int
      BY <3>1, SumIsInt
    <3>3. /\ SumFunctionOnSet(f, s) = f[AnyOf(s)] + SumFunctionOnSet(f, r)
          /\ SumFunctionOnSet(g, s) = g[AnyOf(s)] + SumFunctionOnSet(g, r)
      BY <2>2, <3>1, SumOfSome
    <3>4. /\ f[AnyOf(s)] \in Int /\ g[AnyOf(s)] \in Int /\ f[AnyOf(s)] <= g[AnyOf(s)]
          /\ SumFunctionOnSet(f, r) <= SumFunctionOnSet(g, r)
      BY <3>1
    <3> HIDE DEF r
    <3>5. SumFunctionOnSet(f, s) <= SumFunctionOnSet(g, s)
      BY <3>2, <3>3, <3>4
    <3> QED
      BY <3>5
  <2> QED
    BY <2>1, <2>2
<1> HIDE DEF T
<1>2. S \in T
  BY <1>1, SubsetInduction
<1> QED
  BY <1>2 DEF T

\* A sum of fewer terms is not larger.
LEMMA SumOfPart ==
  ASSUME NEW S, IsFiniteSet(S), NEW f, \A e \in S : f[e] \in Nat, NEW P \in SUBSET S
  PROVE  SumFunctionOnSet(f, P) <= SumFunctionOnSet(f, S)
<1> DEFINE sum(s) == SumFunctionOnSet(f, s)
           T == {s \in SUBSET S : \A r \in SUBSET s : sum(r) <= sum(s)}
<1>1. ASSUME NEW s \in SUBSET S
      PROVE  IsFiniteSet(s) /\ sum(s) \in Nat
  BY FS_Subset, SumIsNat
<1>2. ASSUME NEW s \in SUBSET S, \A r \in SUBSET s : r # s => r \in T, NEW r \in SUBSET s
      PROVE  sum(r) <= sum(s)
  <2>1. CASE r = s
    BY <1>1, <2>1
  <2>2. CASE r # s
    <3>1. PICK x \in s : x \notin r
      BY <2>2
    <3>2. r \in SUBSET (s \ {x}) /\ s \ {x} \in T
      BY <1>2, <3>1
    <3>3. sum(r) <= sum(s \ {x})
      BY <3>2
    <3>4. sum(s) = f[x] + sum(s \ {x})
      <4>1. \A e \in s : f[e] \in Int
        OBVIOUS
      <4> QED
        BY <1>1, <4>1, SumTakesOut
    <3>5. sum(r) \in Nat /\ sum(s \ {x}) \in Nat /\ f[x] \in Nat
      BY <1>1
    <3> HIDE DEF sum
    <3> QED
      BY <3>3, <3>4, <3>5
  <2> QED
    BY <2>1, <2>2
<1> HIDE DEF T, sum
<1>3. \A s \in SUBSET S : (\A r \in SUBSET s : r # s => r \in T) => s \in T
  BY <1>2 DEF T
<1>4. S \in T
  BY <1>3, SubsetInduction
<1> QED
  BY <1>4 DEF T, sum

\* A sum depends on the terms only.
LEMMA SumOfSame ==
  ASSUME NEW S, IsFiniteSet(S), NEW f, NEW g, \A e \in S : f[e] \in Int /\ f[e] = g[e]
  PROVE  SumFunctionOnSet(f, S) = SumFunctionOnSet(g, S)
<1>1. SumFunctionOnSet(f, S) \in Int /\ SumFunctionOnSet(g, S) \in Int
  BY SumIsInt
<1>2. /\ SumFunctionOnSet(f, S) <= SumFunctionOnSet(g, S)
      /\ SumFunctionOnSet(g, S) <= SumFunctionOnSet(f, S)
  BY SumGrows
<1> QED
  BY <1>1, <1>2

-----------------------------------------------------------------------------
(* Rounded halves *)

LEMMA HalfNear ==
  ASSUME NEW n \in Nat
  PROVE  /\ RoundHalf(n) \in Nat /\ RoundHalf(n) <= n
         /\ n - 1 <= 2 * RoundHalf(n) /\ 2 * RoundHalf(n) <= n + 1
BY DEF RoundHalf, Rounded

\* Rounding to even keeps the order, of the halves and of what they take away.
LEMMA HalfGrows ==
  ASSUME NEW m \in Nat, NEW n \in Nat, m <= n
  PROVE  RoundHalf(m) <= RoundHalf(n) /\ m - RoundHalf(m) <= n - RoundHalf(n)
BY DEF RoundHalf, Rounded

LEMMA HalvedTerms ==
  ASSUME NEW c, NEW S, S \subseteq DOMAIN c, \A e \in S : c[e] \in Nat
  PROVE  \A e \in S : Halved(c)[e] = RoundHalf(c[e]) /\ Halved(c)[e] \in Nat
BY HalfNear DEF Halved

\* Doubling the halves misses the whole by at most one day for each of them.
LEMMA HalvesNear ==
  ASSUME NEW S, IsFiniteSet(S), NEW c, S \subseteq DOMAIN c, \A e \in S : c[e] \in Nat
  PROVE  /\ Cardinality(S) \in Nat
         /\ SumFunctionOnSet(c, S) \in Nat /\ SumFunctionOnSet(Halved(c), S) \in Nat
         /\ SumFunctionOnSet(c, S) - Cardinality(S) <= 2 * SumFunctionOnSet(Halved(c), S)
         /\ 2 * SumFunctionOnSet(Halved(c), S) <= SumFunctionOnSet(c, S) + Cardinality(S)
<1> DEFINE whole(s) == SumFunctionOnSet(c, s)
           half(s) == SumFunctionOnSet(Halved(c), s)
           Near(s) == /\ whole(s) - Cardinality(s) <= 2 * half(s)
                      /\ 2 * half(s) <= whole(s) + Cardinality(s)
           T == {s \in SUBSET S : Near(s)}
<1>1. ASSUME NEW s \in SUBSET S
      PROVE  Cardinality(s) \in Nat /\ IsFiniteSet(s) /\ whole(s) \in Nat /\ half(s) \in Nat
  <2>1. IsFiniteSet(s) /\ Cardinality(s) \in Nat
    BY FS_Subset, FS_CardinalityType
  <2>2. \A e \in s : c[e] \in Nat /\ Halved(c)[e] \in Nat
    BY HalvedTerms
  <2> QED
    BY <2>1, <2>2, SumIsNat
<1>2. ASSUME NEW s \in SUBSET S, \A r \in SUBSET s : r # s => r \in T
      PROVE  Near(s)
  <2>1. CASE s = {}
    <3>1. whole(s) = 0 /\ half(s) = 0 /\ Cardinality(s) = 0
      BY <2>1, SumOfNone, FS_EmptySet
    <3> HIDE DEF whole, half
    <3> QED
      BY <3>1
  <2>2. CASE s # {}
    <3> DEFINE a == AnyOf(s)
               r == s \ {a}
    <3>1. a \in s /\ r \in SUBSET s /\ r # s
      BY <2>2, AnyOfIsOne
    <3>2. Near(r)
      BY <1>2, <3>1
    <3>3. whole(s) = c[a] + whole(r) /\ half(s) = Halved(c)[a] + half(r)
      BY <1>1, <2>2, SumOfSome
    <3>4. Cardinality(s) = Cardinality(r) + 1
      <4>1. Cardinality(r) = Cardinality(s) - 1 /\ Cardinality(s) \in Nat
        BY <1>1, <3>1, FS_RemoveElement
      <4> QED
        BY <4>1
    <3>5. /\ c[a] \in Nat /\ Halved(c)[a] \in Nat
          /\ c[a] - 1 <= 2 * Halved(c)[a] /\ 2 * Halved(c)[a] <= c[a] + 1
      BY <3>1, HalvedTerms, HalfNear
    <3>6. Cardinality(r) \in Nat /\ whole(r) \in Nat /\ half(r) \in Nat
      BY <1>1, <3>1
    <3> HIDE DEF whole, half, a, r
    <3> QED
      BY <3>2, <3>3, <3>4, <3>5, <3>6
  <2> QED
    BY <2>1, <2>2
<1> HIDE DEF Near, whole, half
<1>3. \A s \in SUBSET S : (\A r \in SUBSET s : r # s => r \in T) => s \in T
  BY <1>2
<1> HIDE DEF T
<1>4. S \in T
  BY <1>3, SubsetInduction
<1> QED
  BY <1>1, <1>4 DEF T, Near, whole, half
-----------------------------------------------------------------------------
(* What analyse_order returns *)

\* Each event contributes whole days, and not more at least than at most.
DaysInOrder(contribution, active) ==
  \A e \in active :
    /\ contribution[e].min \in Nat /\ contribution[e].max \in Nat
    /\ contribution[e].min <= contribution[e].max

\* The events that contribute most of those matched.
Tops(contribution, matched) ==
  {t \in matched : \A e \in matched : contribution[e].min <= contribution[t].min}

MinDays(contribution, matched) == [e \in matched |-> contribution[e].min]
MaxDays(contribution, matched) == [e \in matched |-> contribution[e].max]

\* Among finitely many events one contributes most.
LEMMA SomeTop ==
  ASSUME NEW S, IsFiniteSet(S), S # {}, NEW contribution, \A e \in S : contribution[e].min \in Nat
  PROVE  Tops(contribution, S) # {}
<1> DEFINE T == {s \in SUBSET S : s # {} => Tops(contribution, s) # {}}
<1>1. ASSUME NEW s \in SUBSET S, \A r \in SUBSET s : r # s => r \in T
      PROVE  s # {} => Tops(contribution, s) # {}
  <2> SUFFICES ASSUME s # {} PROVE Tops(contribution, s) # {}
    OBVIOUS
  <2> DEFINE a == AnyOf(s)
             r == s \ {a}
  <2>1. a \in s /\ r \in T
    BY <1>1, AnyOfIsOne
  <2>2. CASE r = {}
    <3>1. \A e \in s : e = a
      BY <2>2
    <3>2. contribution[a].min <= contribution[a].min
      BY <2>1
    <3>3. a \in Tops(contribution, s)
      BY <2>1, <3>1, <3>2 DEF Tops
    <3> QED
      BY <3>3
  <2>3. CASE r # {}
    <3>1. PICK t \in r : \A e \in r : contribution[e].min <= contribution[t].min
      BY <2>1, <2>3 DEF Tops
    <3>2. /\ contribution[t].min \in Nat /\ contribution[a].min \in Nat /\ t \in s
          /\ \A e \in s : e = a \/ e \in r
      BY <2>1
    <3> HIDE DEF a, r
    <3>3. CASE contribution[a].min <= contribution[t].min
      <4>1. t \in Tops(contribution, s)
        BY <3>1, <3>2, <3>3 DEF Tops
      <4> QED
        BY <4>1
    <3>4. CASE ~(contribution[a].min <= contribution[t].min)
      <4>1. \A e \in s : contribution[e].min \in Nat
        OBVIOUS
      <4>2. a \in Tops(contribution, s)
        BY <2>1, <3>1, <3>2, <3>4, <4>1 DEF Tops
      <4> QED
        BY <4>2
    <3> QED
      BY <3>3, <3>4
  <2> QED
    BY <2>2, <2>3
<1> HIDE DEF T
<1>2. \A s \in SUBSET S : (\A r \in SUBSET s : r # s => r \in T) => s \in T
  BY <1>1 DEF T
<1>3. S \in T
  BY <1>2, SubsetInduction
<1> QED
  BY <1>3 DEF T

LEMMA MatchedOnes ==
  ASSUME NEW active, IsFiniteSet(active), NEW contribution, DaysInOrder(contribution, active)
  PROVE  LET matched == Matched(contribution, active)
         IN  /\ matched \subseteq active /\ IsFiniteSet(matched)
             /\ \A e \in matched :
                  /\ contribution[e].min \in Nat /\ contribution[e].min > 0
                  /\ contribution[e].max \in Nat
                  /\ contribution[e].min <= contribution[e].max
<1>1. Matched(contribution, active) \subseteq active
  BY DEF Matched
<1>2. IsFiniteSet(Matched(contribution, active))
  BY <1>1, FS_Subset
<1> QED
  BY <1>1, <1>2 DEF Matched, DaysInOrder

LEMMA AnalysisIsOne ==
  ASSUME NEW active, NEW contribution, NEW a \in AnalysesOf(contribution, active)
  PROVE  LET matched == Matched(contribution, active)
         IN  \/ matched = {} /\ a = OnSchedule
             \/ \E t \in Tops(contribution, matched) : a = Analysis(contribution, matched, t)
BY DEF AnalysesOf, Tops

LEMMA HalvesTakeOut ==
  ASSUME NEW S, IsFiniteSet(S), NEW days, S \subseteq DOMAIN days, \A e \in S : days[e] \in Nat,
         NEW t \in S
  PROVE  /\ SumFunctionOnSet(Halved(days), S \ {t}) \in Nat
         /\ SumFunctionOnSet(Halved(days), S) \in Nat
         /\ SumFunctionOnSet(Halved(days), S)
              = RoundHalf(days[t]) + SumFunctionOnSet(Halved(days), S \ {t})
<1>1. \A e \in S : Halved(days)[e] = RoundHalf(days[e]) /\ Halved(days)[e] \in Nat
  BY HalvedTerms
<1>2. IsFiniteSet(S \ {t})
  BY FS_Subset
<1>3. /\ SumFunctionOnSet(Halved(days), S \ {t}) \in Nat
      /\ SumFunctionOnSet(Halved(days), S) \in Nat
  BY <1>1, <1>2, SumIsNat
<1>4. SumFunctionOnSet(Halved(days), S)
        = RoundHalf(days[t]) + SumFunctionOnSet(Halved(days), S \ {t})
  <2>1. \A e \in S : Halved(days)[e] \in Int
    BY <1>1
  <2> QED
    BY <1>1, <2>1, SumTakesOut
<1> QED
  BY <1>3, <1>4

\* The days of one of the columns: the halves of all, and the other half of the top one.
LEMMA CombinedDays ==
  ASSUME NEW S, IsFiniteSet(S), NEW days, S \subseteq DOMAIN days, \A e \in S : days[e] \in Nat,
         NEW t \in S
  PROVE  /\ Combined(days, t, S \ {t}) \in Nat
         /\ SumFunctionOnSet(Halved(days), S \ {t}) \in Nat
         /\ SumFunctionOnSet(Halved(days), S) \in Nat
         /\ Combined(days, t, S \ {t})
              = days[t] - RoundHalf(days[t]) + SumFunctionOnSet(Halved(days), S)
<1>1. /\ SumFunctionOnSet(Halved(days), S \ {t}) \in Nat
      /\ SumFunctionOnSet(Halved(days), S) \in Nat
      /\ SumFunctionOnSet(Halved(days), S)
           = RoundHalf(days[t]) + SumFunctionOnSet(Halved(days), S \ {t})
  BY HalvesTakeOut
<1>2. days[t] \in Nat /\ RoundHalf(days[t]) \in Nat
  BY HalfNear
<1>3. Combined(days, t, S \ {t}) = days[t] + SumFunctionOnSet(Halved(days), S \ {t})
  BY DEF Combined
<1> QED
  BY <1>1, <1>2, <1>3

LEMMA AnalysisFields ==
  ASSUME NEW active, IsFiniteSet(active), NEW contribution, DaysInOrder(contribution, active),
         NEW t \in Tops(contribution, Matched(contribution, active))
  PROVE  LET matched == Matched(contribution, active)
             a == Analysis(contribution, matched, t)
         IN  /\ a.status \in Statuses /\ a.matched = matched
             /\ a \in [status : Statuses, min : Nat, max : Nat, matched : SUBSET active]
             /\ a.min = Combined(MinDays(contribution, matched), t, matched \ {t})
             /\ a.max = Combined(MaxDays(contribution, matched), t, matched \ {t})
             /\ a.min >= 1 /\ a.min <= a.max
<1> DEFINE matched == Matched(contribution, active)
           a == Analysis(contribution, matched, t)
           low == MinDays(contribution, matched)
           high == MaxDays(contribution, matched)
<1>1. /\ matched \subseteq active /\ IsFiniteSet(matched) /\ t \in matched
      /\ \A e \in matched :
           /\ low[e] \in Nat /\ low[e] > 0 /\ high[e] \in Nat /\ low[e] <= high[e]
  BY MatchedOnes DEF Tops, MinDays, MaxDays
<1>2. DOMAIN low = matched /\ DOMAIN high = matched
  BY DEF MinDays, MaxDays
<1>3. /\ a.min = Combined(low, t, matched \ {t})
      /\ a.max = Combined(high, t, matched \ {t})
      /\ a.matched = matched
      /\ a.status = DeriveStatus(a.min, contribution[t].severity)
      /\ a = [status |-> a.status, min |-> a.min, max |-> a.max, matched |-> a.matched]
  BY DEF Analysis, MinDays, MaxDays
<1>4. a.status \in Statuses
  BY <1>3 DEF DeriveStatus, Statuses
<1> HIDE DEF a, low, high, matched
<1>5. /\ a.min \in Nat /\ a.max \in Nat
      /\ a.min = low[t] + SumFunctionOnSet(Halved(low), matched \ {t})
      /\ a.max = high[t] + SumFunctionOnSet(Halved(high), matched \ {t})
      /\ SumFunctionOnSet(Halved(low), matched \ {t}) \in Nat
      /\ SumFunctionOnSet(Halved(high), matched \ {t}) \in Nat
  <2>1. /\ Combined(low, t, matched \ {t}) \in Nat
        /\ SumFunctionOnSet(Halved(low), matched \ {t}) \in Nat
    BY <1>1, <1>2, CombinedDays
  <2>2. /\ Combined(high, t, matched \ {t}) \in Nat
        /\ SumFunctionOnSet(Halved(high), matched \ {t}) \in Nat
    BY <1>1, <1>2, CombinedDays
  <2> QED
    BY <1>3, <2>1, <2>2 DEF Combined
<1>6. SumFunctionOnSet(Halved(low), matched \ {t})
        <= SumFunctionOnSet(Halved(high), matched \ {t})
  <2>1. \A e \in matched \ {t} :
          /\ Halved(low)[e] \in Int /\ Halved(high)[e] \in Int
          /\ Halved(low)[e] <= Halved(high)[e]
    <3>1. \A e \in matched : Halved(low)[e] = RoundHalf(low[e]) /\ Halved(low)[e] \in Nat
      BY <1>1, <1>2, HalvedTerms
    <3>2. \A e \in matched : Halved(high)[e] = RoundHalf(high[e]) /\ Halved(high)[e] \in Nat
      BY <1>1, <1>2, HalvedTerms
    <3>3. \A e \in matched : RoundHalf(low[e]) <= RoundHalf(high[e])
      BY <1>1, HalfGrows
    <3> QED
      BY <3>1, <3>2, <3>3
  <2>2. IsFiniteSet(matched \ {t})
    BY <1>1, FS_Subset
  <2> QED
    BY <2>1, <2>2, SumGrows
<1>7. a.min >= 1 /\ a.min <= a.max
  BY <1>1, <1>5, <1>6
<1> QED
  BY <1>1, <1>3, <1>4, <1>5, <1>7 DEF a, low, high, matched

\* analyse_order always returns, days in order; no days and no status exactly when no event
\* matched. This is what OrderRecompute assumes of its constant Analyses.
THEOREM AnalysesFit ==
  ASSUME NEW active, IsFiniteSet(active), NEW contribution, DaysInOrder(contribution, active)
  PROVE  /\ AnalysesOf(contribution, active) # {}
         /\ \A a \in AnalysesOf(contribution, active) :
              /\ a \in [status : Statuses, min : Nat, max : Nat, matched : SUBSET active]
              /\ a.min <= a.max
              /\ a.matched = Matched(contribution, active)
              /\ a.matched = {} <=>
                   [status |-> a.status, min |-> a.min, max |-> a.max]
                     = [status |-> "ON_SCHEDULE", min |-> 0, max |-> 0]
<1> DEFINE matched == Matched(contribution, active)
<1>1. AnalysesOf(contribution, active) # {}
  <2>1. CASE matched = {}
    BY <2>1 DEF AnalysesOf
  <2>2. CASE matched # {}
    <3>1. Tops(contribution, matched) # {}
      BY <2>2, MatchedOnes, SomeTop
    <3>2. AnalysesOf(contribution, active)
            = {Analysis(contribution, matched, t) : t \in Tops(contribution, matched)}
      BY <2>2 DEF AnalysesOf, Tops
    <3> HIDE DEF matched
    <3> QED
      BY <3>1, <3>2
  <2> QED
    BY <2>1, <2>2
<1>2. ASSUME NEW a \in AnalysesOf(contribution, active)
      PROVE  /\ a \in [status : Statuses, min : Nat, max : Nat, matched : SUBSET active]
             /\ a.min <= a.max
             /\ a.matched = matched
             /\ a.matched = {} <=>
                  [status |-> a.status, min |-> a.min, max |-> a.max]
                    = [status |-> "ON_SCHEDULE", min |-> 0, max |-> 0]
  <2>1. CASE matched = {} /\ a = OnSchedule
    BY <2>1 DEF OnSchedule, Statuses
  <2>2. ASSUME NEW t \in Tops(contribution, matched), a = Analysis(contribution, matched, t)
        PROVE  /\ a \in [status : Statuses, min : Nat, max : Nat, matched : SUBSET active]
               /\ a.min <= a.max /\ a.matched = matched /\ a.matched # {} /\ a.min # 0
    <3>1. /\ a \in [status : Statuses, min : Nat, max : Nat, matched : SUBSET active]
          /\ a.min <= a.max /\ a.matched = matched /\ a.min >= 1
      BY <2>2, AnalysisFields
    <3>2. t \in matched
      BY <2>2 DEF Tops
    <3> HIDE DEF matched
    <3> QED
      BY <3>1, <3>2
  <2> HIDE DEF matched
  <2>3. \/ matched = {} /\ a = OnSchedule
        \/ \E t \in Tops(contribution, matched) : a = Analysis(contribution, matched, t)
    BY AnalysisIsOne DEF matched
  <2>4. a.min # 0 => [status |-> a.status, min |-> a.min, max |-> a.max]
                       # [status |-> "ON_SCHEDULE", min |-> 0, max |-> 0]
    OBVIOUS
  <2> QED
    BY <2>1, <2>2, <2>3, <2>4
<1> QED
  BY <1>1, <1>2
\* The minimum depends on the events alone: all of them halved, and the other half of the
\* largest contribution, whichever event on top has it.
LEMMA MinOfAnalysis ==
  ASSUME NEW active, IsFiniteSet(active), NEW contribution, DaysInOrder(contribution, active),
         NEW a \in AnalysesOf(contribution, active), Matched(contribution, active) # {}
  PROVE  LET matched == Matched(contribution, active)
             days == MinDays(contribution, matched)
         IN  \E t \in Tops(contribution, matched) :
               /\ a.min = days[t] + SumFunctionOnSet(Halved(days), matched \ {t})
               /\ a.min = days[t] - RoundHalf(days[t]) + SumFunctionOnSet(Halved(days), matched)
               /\ SumFunctionOnSet(Halved(days), matched) \in Nat
<1> DEFINE matched == Matched(contribution, active)
           days == MinDays(contribution, matched)
<1>1. PICK t \in Tops(contribution, matched) : a = Analysis(contribution, matched, t)
  BY AnalysisIsOne
<1>2. a.min = Combined(days, t, matched \ {t})
  BY <1>1, AnalysisFields
<1>3. /\ IsFiniteSet(matched) /\ t \in matched /\ matched = DOMAIN days
      /\ \A e \in matched : days[e] \in Nat
  BY <1>1, MatchedOnes DEF Tops, MinDays
<1> HIDE DEF days, matched
<1>4. /\ a.min = days[t] - RoundHalf(days[t]) + SumFunctionOnSet(Halved(days), matched)
      /\ SumFunctionOnSet(Halved(days), matched) \in Nat
  BY <1>2, <1>3, CombinedDays
<1>5. a.min = days[t] + SumFunctionOnSet(Halved(days), matched \ {t})
  BY <1>2 DEF Combined
<1> QED
  BY <1>1, <1>4, <1>5 DEF days, matched

LEMMA NoMatchNoDays ==
  ASSUME NEW active, NEW contribution, NEW a \in AnalysesOf(contribution, active),
         Matched(contribution, active) = {}
  PROVE  a.min = 0 /\ a = OnSchedule
BY DEF AnalysesOf, OnSchedule

\* More events, whatever they contribute, never bring the minimum delay of an order down,
\* though another may get the full credit: rounding halves to even keeps the order.
LEMMA MoreEventsMinimum ==
  ASSUME NEW active, IsFiniteSet(active), NEW contribution, DaysInOrder(contribution, active),
         NEW part \in SUBSET active,
         NEW a \in AnalysesOf(contribution, part),
         NEW b \in AnalysesOf(contribution, active)
  PROVE  a.min \in Nat /\ b.min \in Nat /\ a.min <= b.min
<1> DEFINE fewer == Matched(contribution, part)
           matched == Matched(contribution, active)
           low == MinDays(contribution, fewer)
           days == MinDays(contribution, matched)
<1>1. /\ IsFiniteSet(part) /\ DaysInOrder(contribution, part)
      /\ fewer \subseteq matched
  BY FS_Subset DEF DaysInOrder, Matched
<1>2. /\ IsFiniteSet(matched) /\ IsFiniteSet(fewer)
      /\ DOMAIN days = matched /\ DOMAIN low = fewer
      /\ \A x \in matched : days[x] \in Nat
      /\ \A x \in fewer : low[x] = days[x]
  BY <1>1, MatchedOnes DEF MinDays
<1>3. a.min \in Nat /\ b.min \in Nat
  <2>1. a \in [status : Statuses, min : Nat, max : Nat, matched : SUBSET part]
    BY <1>1, AnalysesFit
  <2>2. b \in [status : Statuses, min : Nat, max : Nat, matched : SUBSET active]
    BY AnalysesFit
  <2> QED
    BY <2>1, <2>2
<1>4. CASE fewer = {}
  BY <1>3, <1>4, NoMatchNoDays
<1>5. CASE fewer # {}
  <2>1. PICK t \in Tops(contribution, fewer) :
          /\ a.min = low[t] - RoundHalf(low[t]) + SumFunctionOnSet(Halved(low), fewer)
          /\ SumFunctionOnSet(Halved(low), fewer) \in Nat
    BY <1>1, <1>5, MinOfAnalysis
  <2>2. PICK u \in Tops(contribution, matched) :
          /\ b.min = days[u] - RoundHalf(days[u]) + SumFunctionOnSet(Halved(days), matched)
          /\ SumFunctionOnSet(Halved(days), matched) \in Nat
    BY <1>1, <1>5, MinOfAnalysis
  <2>3. t \in fewer /\ t \in matched /\ u \in matched /\ days[t] <= days[u]
    BY <1>1, <2>1, <2>2 DEF Tops, MinDays
  <2> HIDE DEF days, low, matched, fewer
  <2>4. days[t] - RoundHalf(days[t]) <= days[u] - RoundHalf(days[u])
    BY <1>2, <2>3, HalfGrows
  <2>5. SumFunctionOnSet(Halved(low), fewer) = SumFunctionOnSet(Halved(days), fewer)
    <3>1. \A x \in fewer : Halved(low)[x] \in Nat /\ Halved(low)[x] = RoundHalf(low[x])
      BY <1>1, <1>2, HalvedTerms
    <3>2. \A x \in fewer : Halved(days)[x] = RoundHalf(days[x])
      BY <1>1, <1>2, HalvedTerms
    <3>3. \A x \in fewer : Halved(low)[x] \in Int /\ Halved(low)[x] = Halved(days)[x]
      BY <1>2, <3>1, <3>2
    <3> QED
      BY <1>2, <3>3, SumOfSame
  <2>6. SumFunctionOnSet(Halved(days), fewer) <= SumFunctionOnSet(Halved(days), matched)
    <3>1. \A x \in matched : Halved(days)[x] \in Nat
      BY <1>2, HalvedTerms
    <3> QED
      BY <1>1, <1>2, <3>1, SumOfPart
  <2>7. /\ days[t] \in Nat /\ days[u] \in Nat /\ low[t] = days[t]
        /\ RoundHalf(days[t]) \in Nat /\ RoundHalf(days[u]) \in Nat
    BY <1>2, <2>3, HalfNear
  <2>8. a.min <= b.min
    BY <2>1, <2>2, <2>4, <2>5, <2>6, <2>7
  <2> QED
    BY <1>3, <2>8
<1> QED
  BY <1>4, <1>5

\* Without a critical event on top a status is as late as the minimum makes it.
LEMMA StatusGrows ==
  ASSUME NEW m \in Nat, NEW n \in Nat, m <= n, NEW s, NEW r,
         Rank[DeriveStatus(n, r)] < Rank[DeriveStatus(m, s)]
  PROVE  s = "critical" /\ r # "critical"
<1>1. ASSUME NEW k \in Nat, NEW q
      PROVE  Rank[DeriveStatus(k, q)] = IF q = "critical" \/ k >= 14 THEN 3
                                        ELSE IF k >= 3 THEN 2 ELSE IF k >= 1 THEN 1 ELSE 0
  BY DEF DeriveStatus, Rank
<1>2. r # "critical"
  <2>1. ASSUME r = "critical" PROVE FALSE
    <3>1. Rank[DeriveStatus(n, r)] = 3
      BY <1>1, <2>1
    <3>2. Rank[DeriveStatus(m, s)] \in 0..3
      BY <1>1
    <3> QED
      BY <3>1, <3>2
  <2> QED
    BY <2>1
<1>3. s = "critical"
  <2>1. ASSUME s # "critical" PROVE FALSE
    BY <1>1, <1>2, <2>1
  <2> QED
    BY <2>1
<1> QED
  BY <1>2, <1>3

\* Two analyses, of some events and of more or the same: the second one has no fewer days,
\* and its status is less late only where a critical event of the first contributes no more
\* than one that is not.
THEOREM MoreEventsAddUp ==
  ASSUME NEW active, IsFiniteSet(active), NEW contribution, DaysInOrder(contribution, active),
         NEW part \in SUBSET active,
         NEW a \in AnalysesOf(contribution, part),
         NEW b \in AnalysesOf(contribution, active)
  PROVE  /\ a.min <= b.min
         /\ Rank[b.status] < Rank[a.status] =>
              \E c \in part, t \in active :
                /\ contribution[c].severity = "critical"
                /\ contribution[t].severity # "critical"
                /\ contribution[c].min <= contribution[t].min
<1> DEFINE fewer == Matched(contribution, part)
           matched == Matched(contribution, active)
<1>1. a.min \in Nat /\ b.min \in Nat /\ a.min <= b.min
  BY MoreEventsMinimum
<1>2. IsFiniteSet(part) /\ DaysInOrder(contribution, part) /\ fewer \subseteq matched
  BY FS_Subset DEF DaysInOrder, Matched
<1>3. ASSUME Rank[b.status] < Rank[a.status]
      PROVE  \E c \in part, t \in active :
               /\ contribution[c].severity = "critical"
               /\ contribution[t].severity # "critical"
               /\ contribution[c].min <= contribution[t].min
  <2>1. CASE fewer = {}
    <3>1. a.status = "ON_SCHEDULE"
      BY <2>1, NoMatchNoDays DEF OnSchedule
    <3>2. b.status \in Statuses
      <4>1. b \in [status : Statuses, min : Nat, max : Nat, matched : SUBSET active]
        BY AnalysesFit
      <4> QED
        BY <4>1
    <3>3. Rank[a.status] = 0 /\ Rank[b.status] \in Nat
      BY <3>1, <3>2 DEF Rank, Statuses
    <3> QED
      BY <1>3, <3>3
  <2>2. CASE fewer # {}
    <3>1. matched # {}
      BY <1>2, <2>2
    <3>2. PICK c \in Tops(contribution, fewer) : a = Analysis(contribution, fewer, c)
      BY <2>2, AnalysisIsOne
    <3>3. PICK t \in Tops(contribution, matched) : b = Analysis(contribution, matched, t)
      BY <3>1, AnalysisIsOne
    <3>4. /\ a.status = DeriveStatus(a.min, contribution[c].severity)
          /\ b.status = DeriveStatus(b.min, contribution[t].severity)
      BY <3>2, <3>3 DEF Analysis
    <3>5. contribution[c].severity = "critical" /\ contribution[t].severity # "critical"
      BY <1>1, <1>3, <3>4, StatusGrows
    <3>6. /\ c \in part /\ t \in active /\ contribution[c].min <= contribution[t].min
      BY <1>2 DEF Tops, Matched
    <3> QED
      BY <3>5, <3>6
  <2> QED
    BY <2>1, <2>2
<1> QED
  BY <1>1, <1>3

\* Contributions, less half of all but a first one, miss the combined days by at most the
\* rounding of those halves.
LEMMA ShownNear ==
  ASSUME NEW S, IsFiniteSet(S), NEW days, S \subseteq DOMAIN days, \A e \in S : days[e] \in Nat,
         NEW t \in S, NEW u \in S, days[t] = days[u]
  PROVE  LET total == days[t] + SumFunctionOnSet(Halved(days), S \ {t})
             shown == SumFunctionOnSet(days, S) - SumFunctionOnSet(Halved(days), S \ {u})
         IN  /\ Cardinality(S) \in Nat /\ Cardinality(S) >= 1 /\ total \in Nat /\ shown \in Int
             /\ 0 - (Cardinality(S) - 1) <= total - shown
             /\ total - shown <= Cardinality(S) - 1
<1> DEFINE others == S \ {t}
           half == SumFunctionOnSet(Halved(days), S)
<1>1. /\ half \in Nat /\ RoundHalf(days[t]) \in Nat
      /\ SumFunctionOnSet(Halved(days), others) \in Nat
      /\ SumFunctionOnSet(Halved(days), S \ {u}) \in Nat
      /\ half = RoundHalf(days[t]) + SumFunctionOnSet(Halved(days), others)
      /\ half = RoundHalf(days[t]) + SumFunctionOnSet(Halved(days), S \ {u})
  <2>1. RoundHalf(days[t]) \in Nat
    BY HalfNear
  <2>2. RoundHalf(days[u]) = RoundHalf(days[t])
    OBVIOUS
  <2>3. /\ half = RoundHalf(days[t]) + SumFunctionOnSet(Halved(days), others)
        /\ SumFunctionOnSet(Halved(days), others) \in Nat /\ half \in Nat
    BY HalvesTakeOut
  <2>4. /\ half = RoundHalf(days[u]) + SumFunctionOnSet(Halved(days), S \ {u})
        /\ SumFunctionOnSet(Halved(days), S \ {u}) \in Nat
    BY HalvesTakeOut
  <2> QED
    BY <2>1, <2>2, <2>3, <2>4
<1>2. SumFunctionOnSet(days, S) = days[t] + SumFunctionOnSet(days, others)
  <2>1. \A e \in S : days[e] \in Int
    OBVIOUS
  <2> QED
    BY <2>1, SumTakesOut
<1>3. /\ IsFiniteSet(others) /\ Cardinality(S) \in Nat
      /\ Cardinality(others) = Cardinality(S) - 1
  BY FS_RemoveElement, FS_CardinalityType
<1>4. /\ SumFunctionOnSet(days, others) \in Nat /\ Cardinality(others) \in Nat
      /\ SumFunctionOnSet(days, others) - Cardinality(others)
           <= 2 * SumFunctionOnSet(Halved(days), others)
      /\ 2 * SumFunctionOnSet(Halved(days), others)
           <= SumFunctionOnSet(days, others) + Cardinality(others)
  <2>1. others \subseteq DOMAIN days /\ \A e \in others : days[e] \in Nat
    OBVIOUS
  <2> HIDE DEF others
  <2> QED
    BY <1>3, <2>1, HalvesNear
<1>5. days[t] \in Nat
  OBVIOUS
<1> HIDE DEF others, half
<1> QED
  BY <1>1, <1>2, <1>3, <1>4, <1>5 DEF others
-----------------------------------------------------------------------------
(* What one event contributes *)

LEMMA RoundedIsNat ==
  ASSUME NEW n \in Nat
  PROVE  Rounded(n, 1000) \in Nat /\ Rounded(n, 10000) \in Nat
BY DEF Rounded

LEMMA RoundedGrows ==
  ASSUME NEW m \in Nat, NEW n \in Nat, m <= n
  PROVE  Rounded(m, 10000) <= Rounded(n, 10000)
BY DEF Rounded

LEMMA Products ==
  ASSUME NEW m \in Nat, NEW n \in Nat, NEW k \in Nat, m <= n
  PROVE  m * k \in Nat /\ n * k \in Nat /\ m * k <= n * k
OBVIOUS

LEMMA ModeFactors ==
  ASSUME NEW mode \in DOMAIN SHIPPING_MODE_FACTORS
  PROVE  SHIPPING_MODE_FACTORS[mode] \in {15, 50, 60, 85, 100}
BY DEF SHIPPING_MODE_FACTORS

\* The days of a delay brought over to air freight.
LEMMA ByAir ==
  ASSUME NEW days \in Nat, NEW mode \in DOMAIN SHIPPING_MODE_FACTORS
  PROVE  Rounded(days * 15, SHIPPING_MODE_FACTORS[mode]) \in Nat
<1> DEFINE full == days * 15
           factor == SHIPPING_MODE_FACTORS[mode]
<1>1. full \in Nat
  OBVIOUS
<1>2. factor = 15 \/ factor = 50 \/ factor = 60 \/ factor = 85 \/ factor = 100
  BY ModeFactors
<1> HIDE DEF full, factor
<1>3. Rounded(full, factor) \in Nat
  <2>1. CASE factor = 15
    BY <1>1, <2>1 DEF Rounded
  <2>2. CASE factor = 50
    BY <1>1, <2>2 DEF Rounded
  <2>3. CASE factor = 60
    BY <1>1, <2>3 DEF Rounded
  <2>4. CASE factor = 85
    BY <1>1, <2>4 DEF Rounded
  <2>5. CASE factor = 100
    BY <1>1, <2>5 DEF Rounded
  <2> QED
    BY <1>2, <2>1, <2>2, <2>3, <2>4, <2>5
<1> QED
  BY <1>3 DEF full, factor

\* More predicted days are no fewer contributed days.
LEMMA ContributionGrows ==
  ASSUME NEW km \in Nat, NEW mode \in DOMAIN SHIPPING_MODE_FACTORS, NEW onLane \in BOOLEAN,
         NEW m \in Nat, NEW n \in Nat, m <= n
  PROVE  /\ Contribution(km, mode, onLane, m) \in Nat
         /\ Contribution(km, mode, onLane, n) \in Nat
         /\ Contribution(km, mode, onLane, m) <= Contribution(km, mode, onLane, n)
<1> DEFINE effective == IF km > PROXIMITY_KM THEN LaneKm ELSE km
           df == DistanceFactor(effective)
           mf == SHIPPING_MODE_FACTORS[mode]
<1>1. df \in Nat /\ mf \in Nat
  <2>1. effective \in Nat
    BY DEF LaneKm
  <2> HIDE DEF effective
  <2>2. df \in Nat
    BY <2>1 DEF DistanceFactor
  <2> QED
    BY <2>2, ModeFactors
<1>2. CASE InReach(km, mode, onLane)
  <2>1. /\ Contribution(km, mode, onLane, m) = Rounded(m * df * mf, 10000)
        /\ Contribution(km, mode, onLane, n) = Rounded(n * df * mf, 10000)
    BY <1>2 DEF Contribution
  <2> HIDE DEF df, mf
  <2>2. m * df \in Nat /\ n * df \in Nat /\ m * df <= n * df
    BY <1>1, Products
  <2>3. m * df * mf \in Nat /\ n * df * mf \in Nat /\ m * df * mf <= n * df * mf
    BY <1>1, <2>2, Products
  <2> QED
    BY <2>1, <2>3, RoundedIsNat, RoundedGrows
<1>3. CASE ~InReach(km, mode, onLane)
  BY <1>3 DEF Contribution
<1> QED
  BY <1>2, <1>3
=============================================================================
