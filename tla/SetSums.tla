------------------------------ MODULE SetSums ------------------------------
(***************************************************************************)
(* Facts about SumFunctionOnSet of the community modules, the sum of f[x]  *)
(* for the x of a finite set S, which the invariants about balances and    *)
(* volumes are written with.                                               *)
(*                                                                         *)
(* Induction over the set is by a smallest counterexample: among finite    *)
(* sets strict inclusion is well-founded.                                  *)
(***************************************************************************)
EXTENDS Integers, FiniteSets, Functions, FiniteSetTheorems, TLAPS

\* The element the sum takes out of a set first.
First(s) == CHOOSE x \in s : TRUE

\* The recursive equation that SumFunctionOnSet chooses a solution of.
IsSumOf(g, f, S) ==
    g = [s \in SUBSET S |-> IF s = {} THEN 0 ELSE f[First(s)] + g[s \ {First(s)}]]

-----------------------------------------------------------------------------
(* The equation has one solution *)

\* A nonempty set of subsets of a finite set has a smallest one.
LEMMA SmallestSubset ==
    ASSUME NEW S, IsFiniteSet(S), NEW B, B \subseteq SUBSET S, B # {}
    PROVE  \E T \in B : \A U \in B : U \subseteq T => U = T
<1> DEFINE R == StrictSubsetOrdering(S)
<1>1. IsWellFoundedOn(R, FiniteSubsetsOf(S))
  BY FS_StrictSubsetOrderingWellFounded
<1>2. B \subseteq FiniteSubsetsOf(S)
  BY FS_FiniteSubsetsOfFinite
<1> HIDE DEF R
<1>3. PICK T \in B : \A U \in B : ~ (<<U, T>> \in R)
  BY <1>1, <1>2, WFMin
<1>4. ASSUME NEW U \in B, U \subseteq T PROVE U = T
  BY <1>3, <1>4 DEF R, StrictSubsetOrdering
<1> QED BY <1>4

\* Taking the first element out of a set leaves a smaller one.
LEMMA FirstIn ==
    ASSUME NEW s, s # {}
    PROVE  First(s) \in s /\ s \ {First(s)} \subseteq s /\ s \ {First(s)} # s
  BY DEF First

\* The sum is read off a chosen solution of the equation.
LEMMA SumIsChosen ==
    ASSUME NEW f, NEW S
    PROVE  SumFunctionOnSet(f, S) = (CHOOSE g : IsSumOf(g, f, S))[S]
  BY DEF SumFunctionOnSet, FoldFunctionOnSet, MapThenFoldSet, IsSumOf, First

\* Two solutions agree where both are defined.
LEMMA SumUnique ==
    ASSUME NEW f, NEW S, NEW T, IsFiniteSet(S), T \subseteq S, NEW g, NEW h,
           IsSumOf(g, f, S), IsSumOf(h, f, T)
    PROVE  \A U \in SUBSET T : g[U] = h[U]
<1> DEFINE B == {U \in SUBSET T : g[U] # h[U]}
<1> SUFFICES ASSUME B # {} PROVE FALSE
  OBVIOUS
<1>1. IsFiniteSet(T) /\ B \subseteq SUBSET T
  BY FS_Subset
<1>2. PICK U \in B : \A W \in B : W \subseteq U => W = U
  <2> HIDE DEF B
  <2> QED BY <1>1, SmallestSubset
<1>3. U \subseteq T /\ g[U] # h[U]
  BY <1>2
<1>4. /\ g[U] = IF U = {} THEN 0 ELSE f[First(U)] + g[U \ {First(U)}]
      /\ h[U] = IF U = {} THEN 0 ELSE f[First(U)] + h[U \ {First(U)}]
  <2>1. U \in SUBSET S /\ U \in SUBSET T
    BY <1>3
  <2> HIDE DEF B
  <2>2. g[U] = IF U = {} THEN 0 ELSE f[First(U)] + g[U \ {First(U)}]
    BY <2>1 DEF IsSumOf
  <2>3. h[U] = IF U = {} THEN 0 ELSE f[First(U)] + h[U \ {First(U)}]
    BY <2>1 DEF IsSumOf
  <2> QED BY <2>2, <2>3
<1>5. CASE U = {}
  BY <1>3, <1>4, <1>5
<1>6. CASE U # {}
  <2> DEFINE W == U \ {First(U)}
  <2>1. W \subseteq U /\ W # U
    BY <1>6, FirstIn
  <2>2. W \notin B
    BY <1>2, <2>1
  <2>3. g[W] = h[W]
    BY <1>3, <2>1, <2>2
  <2> QED BY <1>3, <1>4, <1>6, <2>3
<1> QED BY <1>5, <1>6

\* There is a solution: it is put together from those of the subsets.
LEMMA SumExists ==
    ASSUME NEW f, NEW S, IsFiniteSet(S)
    PROVE  \E g : IsSumOf(g, f, S)
<1> DEFINE B == {U \in SUBSET S : ~ \E g : IsSumOf(g, f, U)}
<1> SUFFICES ASSUME B # {} PROVE FALSE
  OBVIOUS
<1>1. B \subseteq SUBSET S
  OBVIOUS
<1>2. PICK T \in B : \A W \in B : W \subseteq T => W = T
  <2> HIDE DEF B
  <2> QED BY <1>1, SmallestSubset
<1>3. T \subseteq S /\ IsFiniteSet(T) /\ ~ \E g : IsSumOf(g, f, T)
  BY <1>2, FS_Subset
<1> DEFINE G(s) == CHOOSE g : IsSumOf(g, f, s)
           h == [s \in SUBSET T |->
                    IF s = {} THEN 0 ELSE f[First(s)] + G(s \ {First(s)})[s \ {First(s)}]]
<1>4. ASSUME NEW W \in SUBSET T, W # T PROVE IsSumOf(G(W), f, W)
  <2>1. W \notin B
    BY <1>2, <1>4
  <2>2. \E g : IsSumOf(g, f, W)
    BY <1>3, <2>1
  <2> QED BY <2>2
<1>5. ASSUME NEW W \in SUBSET T, W # T PROVE h[W] = G(W)[W]
  <2>1. IsSumOf(G(W), f, W)
    BY <1>4, <1>5
  <2>2. G(W)[W] = IF W = {} THEN 0 ELSE f[First(W)] + G(W)[W \ {First(W)}]
    <3> HIDE DEF G
    <3> QED BY <2>1 DEF IsSumOf
  <2>3. CASE W = {}
    <3>1. h[W] = 0
      BY <2>3
    <3> HIDE DEF h, G
    <3> QED BY <2>2, <2>3, <3>1
  <2>4. CASE W # {}
    <3> DEFINE V == W \ {First(W)}
    <3>1. V \subseteq W /\ V # T /\ V \in SUBSET T
      BY <1>5, <2>4, FirstIn
    <3>2. IsSumOf(G(V), f, V) /\ IsFiniteSet(W)
      BY <1>3, <1>4, <3>1, FS_Subset
    <3>3. G(W)[V] = G(V)[V]
      <4> HIDE DEF G, V
      <4> QED BY <2>1, <3>1, <3>2, SumUnique
    <3>4. h[W] = f[First(W)] + G(V)[V]
      BY <2>4
    <3> HIDE DEF h, G
    <3> QED BY <2>2, <2>4, <3>3, <3>4
  <2> QED BY <2>3, <2>4
<1>6. \A s \in SUBSET T : s # {} => h[s \ {First(s)}] = G(s \ {First(s)})[s \ {First(s)}]
  <2> TAKE s \in SUBSET T
  <2> HAVE s # {}
  <2>1. s \ {First(s)} \in SUBSET T /\ s \ {First(s)} # T
    BY FirstIn
  <2> QED BY <1>5, <2>1
<1>7. IsSumOf(h, f, T)
  <2> DEFINE k == [s \in SUBSET T |-> IF s = {} THEN 0 ELSE f[First(s)] + h[s \ {First(s)}]]
  <2>1. \A s \in SUBSET T : h[s] = k[s]
    <3> TAKE s \in SUBSET T
    <3>1. h[s] = IF s = {} THEN 0 ELSE f[First(s)] + G(s \ {First(s)})[s \ {First(s)}]
      OBVIOUS
    <3> HIDE DEF h, G
    <3>2. k[s] = IF s = {} THEN 0 ELSE f[First(s)] + h[s \ {First(s)}]
      OBVIOUS
    <3> QED BY <1>6, <3>1, <3>2
  <2>2. h = k
    <3>1. h = [s \in SUBSET T |-> h[s]] /\ k = [s \in SUBSET T |-> k[s]]
      OBVIOUS
    <3> HIDE DEF h, k
    <3> QED BY <2>1, <3>1
  <2> QED BY <2>2 DEF IsSumOf
<1> QED BY <1>3, <1>7

\* The sum takes the first element out; over the empty set it is zero.
LEMMA SumFirst ==
    ASSUME NEW f, NEW S, IsFiniteSet(S)
    PROVE  SumFunctionOnSet(f, S) =
               IF S = {} THEN 0
               ELSE f[First(S)] + SumFunctionOnSet(f, S \ {First(S)})
<1> DEFINE G(T) == CHOOSE g : IsSumOf(g, f, T)
           W == S \ {First(S)}
<1>1. IsSumOf(G(S), f, S)
  BY SumExists
<1>2. SumFunctionOnSet(f, S) = G(S)[S] /\ SumFunctionOnSet(f, W) = G(W)[W]
  BY SumIsChosen
<1>3. G(S)[S] = IF S = {} THEN 0 ELSE f[First(S)] + G(S)[W]
  <2> HIDE DEF G
  <2> QED BY <1>1 DEF IsSumOf
<1>4. G(S)[W] = G(W)[W]
  <2>1. IsFiniteSet(W) /\ W \subseteq S
    BY FS_Subset
  <2>2. IsSumOf(G(W), f, W)
    <3> HIDE DEF W
    <3> QED BY <2>1, SumExists
  <2> HIDE DEF G, W
  <2> QED BY <1>1, <2>1, <2>2, SumUnique
<1> HIDE DEF G, W
<1>5. CASE S = {}
  BY <1>2, <1>3, <1>5
<1>6. CASE S # {}
  <2>1. SumFunctionOnSet(f, S) = f[First(S)] + SumFunctionOnSet(f, W)
    BY <1>2, <1>3, <1>4, <1>6
  <2> QED BY <1>6, <2>1 DEF W
<1> QED BY <1>5, <1>6

-----------------------------------------------------------------------------
(* Sums of integers *)

\* The sum of no numbers.
LEMMA SumEmpty ==
    ASSUME NEW f
    PROVE  SumFunctionOnSet(f, {}) = 0
  BY SumFirst, FS_EmptySet

\* A sum of integers is an integer.
LEMMA SumType ==
    ASSUME NEW f, NEW S, IsFiniteSet(S), \A x \in S : f[x] \in Int
    PROVE  SumFunctionOnSet(f, S) \in Int
<1> DEFINE B == {U \in SUBSET S : SumFunctionOnSet(f, U) \notin Int}
<1> SUFFICES ASSUME B # {} PROVE FALSE
  OBVIOUS
<1>1. PICK T \in B : \A W \in B : W \subseteq T => W = T
  <2>1. B \subseteq SUBSET S
    OBVIOUS
  <2> HIDE DEF B
  <2> QED BY <2>1, SmallestSubset
<1>2. T \subseteq S /\ IsFiniteSet(T) /\ SumFunctionOnSet(f, T) \notin Int
  BY <1>1, FS_Subset
<1>3. T # {}
  BY <1>2, SumEmpty
<1> DEFINE W == T \ {First(T)}
<1>4. First(T) \in T /\ W \subseteq T /\ W # T
  BY <1>3, FirstIn
<1>5. SumFunctionOnSet(f, W) \in Int
  BY <1>1, <1>2, <1>4
<1>6. SumFunctionOnSet(f, T) = f[First(T)] + SumFunctionOnSet(f, W)
  BY <1>2, <1>3, SumFirst
<1>7. f[First(T)] \in Int
  BY <1>2, <1>4
<1> HIDE DEF W, B
<1> QED BY <1>2, <1>5, <1>6, <1>7

\* A sum of natural numbers is a natural number.
LEMMA SumIsNatural ==
    ASSUME NEW f, NEW S, IsFiniteSet(S), \A x \in S : f[x] \in Nat
    PROVE  SumFunctionOnSet(f, S) \in Nat
<1> DEFINE B == {U \in SUBSET S : SumFunctionOnSet(f, U) \notin Nat}
<1> SUFFICES ASSUME B # {} PROVE FALSE
  OBVIOUS
<1>1. PICK T \in B : \A W \in B : W \subseteq T => W = T
  <2>1. B \subseteq SUBSET S
    OBVIOUS
  <2> HIDE DEF B
  <2> QED BY <2>1, SmallestSubset
<1>2. T \subseteq S /\ IsFiniteSet(T) /\ SumFunctionOnSet(f, T) \notin Nat
  BY <1>1, FS_Subset
<1>3. T # {}
  BY <1>2, SumEmpty
<1> DEFINE W == T \ {First(T)}
<1>4. First(T) \in T /\ W \subseteq T /\ W # T
  BY <1>3, FirstIn
<1>5. SumFunctionOnSet(f, W) \in Nat
  BY <1>1, <1>2, <1>4
<1>6. SumFunctionOnSet(f, T) = f[First(T)] + SumFunctionOnSet(f, W)
  BY <1>2, <1>3, SumFirst
<1>7. f[First(T)] \in Nat
  BY <1>2, <1>4
<1> HIDE DEF W, B
<1> QED BY <1>2, <1>5, <1>6, <1>7

\* It does not matter which element is taken out.
LEMMA SumRemove ==
    ASSUME NEW f, NEW S, IsFiniteSet(S), \A x \in S : f[x] \in Int, NEW y \in S
    PROVE  SumFunctionOnSet(f, S) = f[y] + SumFunctionOnSet(f, S \ {y})
<1> DEFINE B == {U \in SUBSET S : \E x \in U :
                    SumFunctionOnSet(f, U) # f[x] + SumFunctionOnSet(f, U \ {x})}
<1> SUFFICES ASSUME B # {} PROVE FALSE
  OBVIOUS
<1>1. PICK T \in B : \A W \in B : W \subseteq T => W = T
  <2>1. B \subseteq SUBSET S
    OBVIOUS
  <2> HIDE DEF B
  <2> QED BY <2>1, SmallestSubset
<1>2. T \subseteq S /\ IsFiniteSet(T)
  BY <1>1, FS_Subset
<1>3. PICK b \in T : SumFunctionOnSet(f, T) # f[b] + SumFunctionOnSet(f, T \ {b})
  BY <1>1
<1> DEFINE a == First(T)
<1>4. a \in T
  BY <1>3, FirstIn
<1>5. SumFunctionOnSet(f, T) = f[a] + SumFunctionOnSet(f, T \ {a})
  BY <1>2, <1>3, SumFirst
<1> HIDE DEF a
<1>6. a # b
  BY <1>3, <1>5
<1>7. SumFunctionOnSet(f, T \ {a}) = f[b] + SumFunctionOnSet(f, (T \ {a}) \ {b})
  <2>1. T \ {a} \in SUBSET S /\ T \ {a} \subseteq T /\ T \ {a} # T /\ b \in T \ {a}
    BY <1>2, <1>4, <1>6
  <2>2. T \ {a} \notin B
    BY <1>1, <2>1
  <2> QED BY <2>1, <2>2
<1>8. SumFunctionOnSet(f, T \ {b}) = f[a] + SumFunctionOnSet(f, (T \ {b}) \ {a})
  <2>1. T \ {b} \in SUBSET S /\ T \ {b} \subseteq T /\ T \ {b} # T /\ a \in T \ {b}
    BY <1>2, <1>4, <1>6
  <2>2. T \ {b} \notin B
    BY <1>1, <2>1
  <2> QED BY <2>1, <2>2
<1>9. (T \ {b}) \ {a} = (T \ {a}) \ {b}
  OBVIOUS
<1>10. f[a] \in Int /\ f[b] \in Int /\ SumFunctionOnSet(f, (T \ {a}) \ {b}) \in Int
  <2>1. IsFiniteSet((T \ {a}) \ {b}) /\ (T \ {a}) \ {b} \subseteq T
    BY <1>2, FS_Subset
  <2>2. \A x \in (T \ {a}) \ {b} : f[x] \in Int
    BY <1>2, <2>1
  <2>3. SumFunctionOnSet(f, (T \ {a}) \ {b}) \in Int
    BY <2>1, <2>2, SumType
  <2> QED BY <1>2, <1>4, <2>3
<1> DEFINE u == f[a]
           v == f[b]
           w == SumFunctionOnSet(f, (T \ {a}) \ {b})
<1>11. /\ SumFunctionOnSet(f, T) = u + (v + w)
       /\ SumFunctionOnSet(f, T \ {b}) = u + w
  BY <1>5, <1>7, <1>8, <1>9
<1>12. u + (v + w) # v + (u + w)
  BY <1>3, <1>11
<1>13. u \in Int /\ v \in Int /\ w \in Int
  BY <1>10
<1> HIDE DEF u, v, w
<1> QED BY <1>12, <1>13

\* A new element adds its summand.
LEMMA SumAdd ==
    ASSUME NEW f, NEW S, IsFiniteSet(S), NEW y, y \notin S,
           \A x \in S \cup {y} : f[x] \in Int
    PROVE  SumFunctionOnSet(f, S \cup {y}) = SumFunctionOnSet(f, S) + f[y]
<1>1. IsFiniteSet(S \cup {y}) /\ (S \cup {y}) \ {y} = S
  BY FS_AddElement
<1>2. SumFunctionOnSet(f, S \cup {y}) = f[y] + SumFunctionOnSet(f, (S \cup {y}) \ {y})
  BY <1>1, SumRemove
<1>3. SumFunctionOnSet(f, S) \in Int
  BY SumType
<1> DEFINE u == f[y]
           v == SumFunctionOnSet(f, S)
<1>4. SumFunctionOnSet(f, S \cup {y}) = u + v /\ u \in Int /\ v \in Int
  BY <1>1, <1>2, <1>3
<1>5. u + v = v + u
  <2> HIDE DEF u, v
  <2> QED BY <1>4
<1> QED BY <1>4, <1>5

\* Functions that agree on a set have the same sum over it.
LEMMA SumSame ==
    ASSUME NEW f, NEW g, NEW S, IsFiniteSet(S), \A x \in S : f[x] = g[x]
    PROVE  SumFunctionOnSet(f, S) = SumFunctionOnSet(g, S)
<1> DEFINE B == {U \in SUBSET S : SumFunctionOnSet(f, U) # SumFunctionOnSet(g, U)}
<1> SUFFICES ASSUME B # {} PROVE FALSE
  OBVIOUS
<1>1. PICK T \in B : \A W \in B : W \subseteq T => W = T
  <2>1. B \subseteq SUBSET S
    OBVIOUS
  <2> HIDE DEF B
  <2> QED BY <2>1, SmallestSubset
<1>2. /\ T \subseteq S /\ IsFiniteSet(T)
      /\ SumFunctionOnSet(f, T) # SumFunctionOnSet(g, T)
  BY <1>1, FS_Subset
<1>3. T # {}
  BY <1>2, SumEmpty
<1> DEFINE W == T \ {First(T)}
<1>4. First(T) \in T /\ W \subseteq T /\ W # T
  BY <1>3, FirstIn
<1>5. SumFunctionOnSet(f, W) = SumFunctionOnSet(g, W)
  BY <1>1, <1>2, <1>4
<1>6. /\ SumFunctionOnSet(f, T) = f[First(T)] + SumFunctionOnSet(f, W)
      /\ SumFunctionOnSet(g, T) = g[First(T)] + SumFunctionOnSet(g, W)
  BY <1>2, <1>3, SumFirst
<1>7. f[First(T)] = g[First(T)]
  BY <1>2, <1>4
<1> HIDE DEF W, B
<1> QED BY <1>2, <1>5, <1>6, <1>7

\* Changing one summand changes the sum by as much.
LEMMA SumUpdate ==
    ASSUME NEW f, NEW g, NEW S, IsFiniteSet(S), NEW y \in S,
           \A x \in S : f[x] \in Int, g[y] \in Int,
           \A x \in S \ {y} : g[x] = f[x]
    PROVE  SumFunctionOnSet(g, S) = SumFunctionOnSet(f, S) - f[y] + g[y]
<1>1. IsFiniteSet(S \ {y}) /\ \A x \in S \ {y} : g[x] \in Int /\ f[x] \in Int
  BY FS_Subset
<1>2. \A x \in S : g[x] \in Int
  BY <1>1
<1>3. SumFunctionOnSet(g, S) = g[y] + SumFunctionOnSet(g, S \ {y})
  BY <1>2, SumRemove
<1>4. SumFunctionOnSet(f, S) = f[y] + SumFunctionOnSet(f, S \ {y})
  BY SumRemove
<1>5. SumFunctionOnSet(g, S \ {y}) = SumFunctionOnSet(f, S \ {y})
  BY <1>1, SumSame
<1>6. SumFunctionOnSet(f, S \ {y}) \in Int /\ f[y] \in Int
  BY <1>1, SumType
<1> QED BY <1>3, <1>4, <1>5, <1>6

\* Summands from zero to M: the sum is between zero and as many times M.
LEMMA SumBounds ==
    ASSUME NEW f, NEW S, IsFiniteSet(S), NEW M \in Nat,
           \A x \in S : f[x] \in Int /\ f[x] >= 0 /\ f[x] <= M
    PROVE  /\ SumFunctionOnSet(f, S) \in Nat
           /\ SumFunctionOnSet(f, S) <= M * Cardinality(S)
<1> DEFINE Sum(U) == SumFunctionOnSet(f, U)
           Good(U) == Sum(U) \in Nat /\ Sum(U) <= M * Cardinality(U)
           B == {U \in SUBSET S : ~ Good(U)}
<1> SUFFICES ASSUME B # {} PROVE FALSE
  OBVIOUS
<1>1. PICK T \in B : \A W \in B : W \subseteq T => W = T
  <2>1. B \subseteq SUBSET S
    OBVIOUS
  <2> HIDE DEF B
  <2> QED BY <2>1, SmallestSubset
<1>2. T \subseteq S /\ IsFiniteSet(T) /\ ~ Good(T)
  BY <1>1, FS_Subset
<1>3. T # {}
  <2>1. ASSUME T = {} PROVE Sum(T) = 0 /\ Cardinality(T) = 0
    BY <2>1, SumEmpty, FS_EmptySet
  <2> HIDE DEF Sum, B
  <2> QED BY <1>2, <2>1
<1> DEFINE W == T \ {First(T)}
<1>4. First(T) \in T /\ W \subseteq T /\ W # T
  BY <1>3, FirstIn
<1>5. Good(W)
  BY <1>1, <1>2, <1>4
<1>6. Sum(T) = f[First(T)] + Sum(W)
  BY <1>2, <1>3, SumFirst
<1>7. /\ Cardinality(T) \in Nat /\ Cardinality(W) \in Nat
      /\ Cardinality(T) = Cardinality(W) + 1
  <2>1. IsFiniteSet(W) /\ Cardinality(W) = Cardinality(T) - 1
    BY <1>2, <1>4, FS_RemoveElement
  <2>2. Cardinality(T) \in Nat /\ Cardinality(W) \in Nat
    BY <1>2, <2>1, FS_CardinalityType
  <2> HIDE DEF W
  <2> QED BY <2>1, <2>2
<1>8. f[First(T)] \in Int /\ f[First(T)] >= 0 /\ f[First(T)] <= M
  BY <1>2, <1>4
<1>9. M * (Cardinality(W) + 1) = M * Cardinality(W) + M /\ M * Cardinality(W) \in Nat
  <2> DEFINE n == Cardinality(W)
  <2>1. n \in Nat
    BY <1>7
  <2> HIDE DEF n
  <2>2. M * (n + 1) = M * n + M /\ M * n \in Nat
    BY <2>1
  <2> QED BY <2>2 DEF n
<1>10. Sum(T) \in Nat /\ Sum(T) <= M * Cardinality(W) + M
  <2> DEFINE m == M * Cardinality(W)
             x == f[First(T)]
             y == Sum(W)
  <2>1. m \in Nat /\ x \in Int /\ x >= 0 /\ x <= M /\ y \in Nat /\ y <= m
    BY <1>5, <1>8, <1>9
  <2>2. Sum(T) = x + y
    BY <1>6
  <2> HIDE DEF m, x, y, Sum, W
  <2>3. Sum(T) \in Nat /\ Sum(T) <= m + M
    BY <2>1, <2>2
  <2> QED BY <2>3 DEF m
<1>11. Good(T)
  <2> HIDE DEF W, B, Sum
  <2> QED BY <1>7, <1>9, <1>10
<1> QED BY <1>2, <1>11
=============================================================================
