------------------------------ MODULE SumTheorems ------------------------------
(***************************************************************************)
(* SumFunctionOnSet of module Functions, the sum of the values of a        *)
(* function over a finite set: the empty sum, the sum with one element     *)
(* more, and what follows.  The counters of the tables are such sums.      *)
(*                                                                         *)
(* The induction is over finite sets, as the absence of a least set of     *)
(* which the fact is false.                                                *)
(***************************************************************************)
EXTENDS Integers, FiniteSets, Functions, FiniteSetTheorems, WellFoundedInduction, TLAPS

\* The finite sets have no bad one if each that is bad has a bad strict subset.
LEMMA NoLeast ==
    ASSUME NEW S, IsFiniteSet(S), NEW Bad, Bad \subseteq SUBSET S,
           \A T \in Bad : \E U \in Bad : U \subseteq T /\ U # T
    PROVE  Bad = {}
<1>1. SUFFICES ASSUME Bad # {} PROVE FALSE
    OBVIOUS
<1>2. Bad \subseteq FiniteSubsetsOf(S)
  <2>1. \A T \in SUBSET S : IsFiniteSet(T)
    BY FS_Subset
  <2> QED
    BY <2>1 DEF FiniteSubsetsOf
<1>3. PICK T \in Bad : \A U \in Bad : <<U, T>> \notin StrictSubsetOrdering(S)
    BY <1>1, <1>2, FS_StrictSubsetOrderingWellFounded, WFMin
<1>4. PICK U \in Bad : U \subseteq T /\ U # T
    OBVIOUS
<1>5. <<U, T>> \in StrictSubsetOrdering(S)
    BY <1>4 DEF StrictSubsetOrdering
<1> QED
    BY <1>3, <1>5

\* A set of natural numbers has a least one.
LEMMA Smallest ==
    ASSUME NEW P, P \subseteq Nat, P # {}
    PROVE  \E p \in P : \A q \in P : p <= q
<1> DEFINE T == {0 .. p : p \in P}
<1>1. T \subseteq FiniteSubsetsOf(Nat)
  <2>1. \A p \in P : IsFiniteSet(0 .. p) /\ 0 .. p \subseteq Nat
    BY FS_Interval
  <2> QED
    BY <2>1 DEF FiniteSubsetsOf
<1>2. T # {}
    OBVIOUS
<1>3. PICK I \in T : \A J \in T : ~(<<J, I>> \in StrictSubsetOrdering(Nat))
  <2> HIDE DEF T
  <2> QED
    BY <1>1, <1>2, FS_StrictSubsetOrderingWellFounded, WFMin
<1>4. PICK p \in P : I = 0 .. p
    OBVIOUS
<1>5. ASSUME NEW q \in P, q < p PROVE FALSE
  <2>1. 0 .. q \in T
    OBVIOUS
  <2>2. 0 .. q \subseteq 0 .. p /\ 0 .. q # 0 .. p
    BY <1>5
  <2>3. ~(<<0 .. q, 0 .. p>> \in StrictSubsetOrdering(Nat))
    BY <1>3, <1>4, <2>1
  <2> QED
    BY <2>2, <2>3 DEF StrictSubsetOrdering
<1> QED
    BY <1>5

PickOf(s) == CHOOSE x \in s : TRUE

\* The function by which the sum over S is defined.
IsIter(f, S, g) ==
    g = [s \in SUBSET S |-> IF s = {} THEN 0 ELSE f[PickOf(s)] + g[s \ {PickOf(s)}]]

LEMMA SumIs ==
    ASSUME NEW f, NEW S
    PROVE  SumFunctionOnSet(f, S) = (CHOOSE g : IsIter(f, S, g))[S]
    BY DEF SumFunctionOnSet, FoldFunctionOnSet, MapThenFoldSet, IsIter, PickOf

LEMMA PickIn == ASSUME NEW s, s # {} PROVE PickOf(s) \in s
    BY DEF PickOf

LEMMA IterValue ==
    ASSUME NEW f, NEW S, NEW g, IsIter(f, S, g), NEW s, s \subseteq S
    PROVE  g[s] = IF s = {} THEN 0 ELSE f[PickOf(s)] + g[s \ {PickOf(s)}]
    BY DEF IsIter

LEMMA IterUnique ==
    ASSUME NEW f, NEW S, NEW g, IsIter(f, S, g), NEW R, NEW h, IsIter(f, R, h),
           NEW U, IsFiniteSet(U), U \subseteq S, U \subseteq R
    PROVE  g[U] = h[U]
<1> DEFINE Bad == {V \in SUBSET U : g[V] # h[V]}
<1>1. ASSUME NEW V \in Bad PROVE \E W \in Bad : W \subseteq V /\ W # V
  <2>1. V \subseteq S /\ V \subseteq R
    OBVIOUS
  <2>2. V # {}
    BY <2>1, IterValue
  <2>3. PickOf(V) \in V
    BY <2>2, PickIn
  <2>4. /\ g[V] = f[PickOf(V)] + g[V \ {PickOf(V)}]
        /\ h[V] = f[PickOf(V)] + h[V \ {PickOf(V)}]
    BY <2>1, <2>2, IterValue
  <2>5. V \ {PickOf(V)} \in Bad
    BY <2>4
  <2> QED
    BY <2>3, <2>5
<1>2. Bad = {}
  <2> HIDE DEF Bad
  <2>1. Bad \subseteq SUBSET U
    BY DEF Bad
  <2> QED
    BY <1>1, <2>1, NoLeast
<1> QED
    BY <1>2

IterOf(f, S) == CHOOSE g : IsIter(f, S, g)

\* The recursive definition of the sum is one.
LEMMA IterExists ==
    ASSUME NEW f, NEW S, IsFiniteSet(S)
    PROVE  IsIter(f, S, IterOf(f, S))
<1> DEFINE Bad == {T \in SUBSET S : ~\E g : IsIter(f, T, g)}
<1>1. ASSUME NEW T \in Bad PROVE \E U \in Bad : U \subseteq T /\ U # T
  <2>1. SUFFICES ASSUME \A U \in SUBSET T : U # T => \E g : IsIter(f, U, g)
                 PROVE  FALSE
    OBVIOUS
  <2>2. \A U \in SUBSET T : U # T => IsIter(f, U, IterOf(f, U))
    BY <2>1 DEF IterOf
  <2>3. PICK g : g = [s \in SUBSET T |->
            IF s = {} THEN 0
            ELSE f[PickOf(s)] + IterOf(f, s \ {PickOf(s)})[s \ {PickOf(s)}]]
    OBVIOUS
  <2>4. ASSUME NEW u \in SUBSET T, u # T PROVE g[u] = IterOf(f, u)[u]
    <3>1. CASE u = {}
      BY <2>2, <2>3, <2>4, <3>1, IterValue
    <3>2. CASE u # {}
      <4>1. PICK v : v = u \ {PickOf(u)}
        OBVIOUS
      <4>2. v \subseteq u /\ v \subseteq T /\ v # u /\ v # T
        BY <2>4, <3>2, <4>1, PickIn
      <4>3. IsFiniteSet(v)
        BY <4>2, FS_Subset
      <4>4. IsIter(f, u, IterOf(f, u)) /\ IsIter(f, v, IterOf(f, v))
        BY <2>2, <2>4, <4>2
      <4>5. IterOf(f, u)[v] = IterOf(f, v)[v]
        BY <4>2, <4>3, <4>4, IterUnique
      <4>6. IterOf(f, u)[u] = f[PickOf(u)] + IterOf(f, u)[v]
        BY <3>2, <4>1, <4>4, IterValue
      <4>7. g[u] = f[PickOf(u)] + IterOf(f, v)[v]
        BY <2>3, <2>4, <3>2, <4>1
      <4> QED
        BY <4>5, <4>6, <4>7
    <3> QED
      BY <3>1, <3>2
  <2>5. IsIter(f, T, g)
    <3>1. ASSUME NEW s \in SUBSET T
          PROVE  g[s] = IF s = {} THEN 0 ELSE f[PickOf(s)] + g[s \ {PickOf(s)}]
      <4>1. CASE s = {}
        BY <2>3, <4>1
      <4>2. CASE s # {}
        <5>1. PICK v : v = s \ {PickOf(s)}
          OBVIOUS
        <5>2. v \in SUBSET T /\ v # T
          BY <4>2, <5>1, PickIn
        <5>3. g[v] = IterOf(f, v)[v]
          BY <2>4, <5>2
        <5>4. g[s] = f[PickOf(s)] + IterOf(f, v)[v]
          BY <2>3, <4>2, <5>1
        <5> QED
          BY <4>2, <5>1, <5>3, <5>4
      <4> QED
        BY <4>1, <4>2
    <3> QED
      BY <2>3, <3>1 DEF IsIter
  <2> QED
    BY <2>5
<1>2. Bad = {}
  <2> HIDE DEF Bad
  <2>1. Bad \subseteq SUBSET S
    BY DEF Bad
  <2> QED
    BY <1>1, <2>1, NoLeast
<1> QED
    BY <1>2 DEF IterOf

-------------------------------------------------------------------------------
\* The sum over nothing is 0.
LEMMA SumEmpty == ASSUME NEW f PROVE SumFunctionOnSet(f, {}) = 0
<1>1. IsIter(f, {}, IterOf(f, {}))
    BY IterExists, FS_EmptySet
<1> QED
    BY <1>1, IterValue, SumIs DEF IterOf

LEMMA SumPick ==
    ASSUME NEW f, NEW S, IsFiniteSet(S), S # {}
    PROVE  SumFunctionOnSet(f, S) = f[PickOf(S)] + SumFunctionOnSet(f, S \ {PickOf(S)})
<1>1. PICK T : T = S \ {PickOf(S)}
    OBVIOUS
<1>2. T \subseteq S /\ IsFiniteSet(T)
    BY <1>1, FS_Subset
<1>3. IsIter(f, S, IterOf(f, S)) /\ IsIter(f, T, IterOf(f, T))
    BY <1>2, IterExists
<1>4. IterOf(f, S)[T] = IterOf(f, T)[T]
    BY <1>2, <1>3, IterUnique
<1>5. IterOf(f, S)[S] = f[PickOf(S)] + IterOf(f, S)[T]
    BY <1>1, <1>3, IterValue
<1>6. SumFunctionOnSet(f, S) = IterOf(f, S)[S] /\ SumFunctionOnSet(f, T) = IterOf(f, T)[T]
    BY SumIs DEF IterOf
<1> QED
    BY <1>1, <1>4, <1>5, <1>6

\* A sum of integers is an integer.
LEMMA SumType ==
    ASSUME NEW f, NEW S, IsFiniteSet(S), \A x \in S : f[x] \in Int
    PROVE  SumFunctionOnSet(f, S) \in Int
<1> DEFINE Bad == {T \in SUBSET S : SumFunctionOnSet(f, T) \notin Int}
<1>1. ASSUME NEW T \in Bad PROVE \E U \in Bad : U \subseteq T /\ U # T
  <2>1. T # {}
    BY SumEmpty
  <2>2. PickOf(T) \in T
    BY <2>1, PickIn
  <2>3. SumFunctionOnSet(f, T) = f[PickOf(T)] + SumFunctionOnSet(f, T \ {PickOf(T)})
    BY <2>1, FS_Subset, SumPick
  <2>4. SumFunctionOnSet(f, T \ {PickOf(T)}) \notin Int
    BY <2>2, <2>3
  <2>5. T \ {PickOf(T)} \in Bad
    BY <2>4
  <2> QED
    BY <2>2, <2>5
<1>2. Bad = {}
  <2> HIDE DEF Bad
  <2>1. Bad \subseteq SUBSET S
    BY DEF Bad
  <2> QED
    BY <1>1, <2>1, NoLeast
<1> QED
    BY <1>2

\* Any element can be taken out of the sum.
LEMMA SumRemove ==
    ASSUME NEW f, NEW S, IsFiniteSet(S), \A x \in S : f[x] \in Int, NEW a \in S
    PROVE  SumFunctionOnSet(f, S) = f[a] + SumFunctionOnSet(f, S \ {a})
<1> DEFINE Splits(T) ==
        \A x \in T : SumFunctionOnSet(f, T) = f[x] + SumFunctionOnSet(f, T \ {x})
           Bad == {T \in SUBSET S : ~Splits(T)}
<1>1. \A T \in SUBSET S : IsFiniteSet(T) /\ SumFunctionOnSet(f, T) \in Int
    BY FS_Subset, SumType
<1>2. ASSUME NEW T \in Bad PROVE \E U \in Bad : U \subseteq T /\ U # T
  <2>1. SUFFICES ASSUME \A U \in SUBSET T : U # T => Splits(U) PROVE FALSE
    OBVIOUS
  <2>2. PICK x \in T : SumFunctionOnSet(f, T) # f[x] + SumFunctionOnSet(f, T \ {x})
    OBVIOUS
  <2>3. PICK y \in T : y = PickOf(T)
    BY PickIn
  <2>4. SumFunctionOnSet(f, T) = f[y] + SumFunctionOnSet(f, T \ {y})
    BY <1>1, <2>3, SumPick
  <2>5. x # y
    BY <2>2, <2>4
  <2>6. PICK U : U = (T \ {x}) \ {y} /\ U = (T \ {y}) \ {x}
    OBVIOUS
  <2>7. SumFunctionOnSet(f, T \ {y}) = f[x] + SumFunctionOnSet(f, U)
    BY <2>1, <2>5, <2>6
  <2>8. SumFunctionOnSet(f, T \ {x}) = f[y] + SumFunctionOnSet(f, U)
    BY <2>1, <2>5, <2>6
  <2>9. f[x] \in Int /\ f[y] \in Int /\ SumFunctionOnSet(f, U) \in Int
    BY <1>1, <2>6
  <2> QED
    BY <2>2, <2>4, <2>7, <2>8, <2>9
<1>3. Bad = {}
  <2> HIDE DEF Bad
  <2>1. Bad \subseteq SUBSET S
    BY DEF Bad
  <2> QED
    BY <1>2, <2>1, NoLeast
<1> QED
    BY <1>3

\* Functions that agree on S have the same sum over S.
LEMMA SumSame ==
    ASSUME NEW f, NEW g, NEW S, IsFiniteSet(S), \A x \in S : f[x] = g[x]
    PROVE  SumFunctionOnSet(f, S) = SumFunctionOnSet(g, S)
<1> DEFINE Bad == {T \in SUBSET S : SumFunctionOnSet(f, T) # SumFunctionOnSet(g, T)}
<1>1. ASSUME NEW T \in Bad PROVE \E U \in Bad : U \subseteq T /\ U # T
  <2>1. T # {}
    BY SumEmpty
  <2>2. PickOf(T) \in T
    BY <2>1, PickIn
  <2>3. /\ SumFunctionOnSet(f, T) = f[PickOf(T)] + SumFunctionOnSet(f, T \ {PickOf(T)})
        /\ SumFunctionOnSet(g, T) = g[PickOf(T)] + SumFunctionOnSet(g, T \ {PickOf(T)})
    BY <2>1, FS_Subset, SumPick
  <2>4. T \ {PickOf(T)} \in Bad
    BY <2>2, <2>3
  <2> QED
    BY <2>2, <2>4
<1>2. Bad = {}
  <2> HIDE DEF Bad
  <2>1. Bad \subseteq SUBSET S
    BY DEF Bad
  <2> QED
    BY <1>1, <2>1, NoLeast
<1> QED
    BY <1>2

\* A change of one value changes the sum by as much.
LEMMA SumChange ==
    ASSUME NEW f, NEW g, NEW S, IsFiniteSet(S), NEW a \in S, g[a] \in Int,
           \A x \in S : f[x] \in Int, \A x \in S : x # a => g[x] = f[x]
    PROVE  SumFunctionOnSet(g, S) = SumFunctionOnSet(f, S) - f[a] + g[a]
<1>1. PICK T : T = S \ {a}
    OBVIOUS
<1>2. IsFiniteSet(T) /\ \A x \in T : f[x] = g[x] /\ f[x] \in Int
    BY <1>1, FS_Subset
<1>3. SumFunctionOnSet(f, T) = SumFunctionOnSet(g, T) /\ SumFunctionOnSet(f, T) \in Int
    BY <1>2, SumSame, SumType
<1>4. /\ SumFunctionOnSet(f, S) = f[a] + SumFunctionOnSet(f, T)
      /\ SumFunctionOnSet(g, S) = g[a] + SumFunctionOnSet(g, T)
    BY <1>1, SumRemove
<1> QED
    BY <1>3, <1>4

\* The sum of zeros is 0.
LEMMA SumZero ==
    ASSUME NEW f, NEW S, IsFiniteSet(S), \A x \in S : f[x] = 0
    PROVE  SumFunctionOnSet(f, S) = 0
<1> DEFINE Bad == {T \in SUBSET S : SumFunctionOnSet(f, T) # 0}
<1>1. ASSUME NEW T \in Bad PROVE \E U \in Bad : U \subseteq T /\ U # T
  <2>1. T # {}
    BY SumEmpty
  <2>2. PickOf(T) \in T
    BY <2>1, PickIn
  <2>3. SumFunctionOnSet(f, T) = 0 + SumFunctionOnSet(f, T \ {PickOf(T)})
    BY <2>1, <2>2, FS_Subset, SumPick
  <2>4. T \ {PickOf(T)} \in Bad
    BY <2>3
  <2> QED
    BY <2>2, <2>4
<1>2. Bad = {}
  <2> HIDE DEF Bad
  <2>1. Bad \subseteq SUBSET S
    BY DEF Bad
  <2> QED
    BY <1>1, <2>1, NoLeast
<1> QED
    BY <1>2
\* The sum of sums is the sum of both.
LEMMA SumPlus ==
    ASSUME NEW f, NEW g, NEW h, NEW S, IsFiniteSet(S),
           \A x \in S : f[x] \in Int /\ g[x] \in Int /\ h[x] = f[x] + g[x]
    PROVE  SumFunctionOnSet(h, S) = SumFunctionOnSet(f, S) + SumFunctionOnSet(g, S)
<1> DEFINE Bad == {T \in SUBSET S :
                       SumFunctionOnSet(h, T) # SumFunctionOnSet(f, T) + SumFunctionOnSet(g, T)}
<1>1. ASSUME NEW T \in Bad PROVE \E U \in Bad : U \subseteq T /\ U # T
  <2>1. T # {}
    <3>1. /\ SumFunctionOnSet(f, {}) = 0 /\ SumFunctionOnSet(g, {}) = 0
          /\ SumFunctionOnSet(h, {}) = 0
      BY SumEmpty
    <3>2. {} \notin Bad
      BY <3>1
    <3> QED
      BY <3>2
  <2>2. PICK p \in T : p = PickOf(T)
    BY <2>1, PickIn
  <2>3. PICK U : U = T \ {p}
    OBVIOUS
  <2>4. IsFiniteSet(T) /\ IsFiniteSet(U)
    BY <2>3, FS_Subset
  <2>5. /\ SumFunctionOnSet(f, T) = f[p] + SumFunctionOnSet(f, U)
        /\ SumFunctionOnSet(g, T) = g[p] + SumFunctionOnSet(g, U)
        /\ SumFunctionOnSet(h, T) = h[p] + SumFunctionOnSet(h, U)
    BY <2>1, <2>2, <2>3, <2>4, SumPick
  <2>6. SumFunctionOnSet(f, U) \in Int /\ SumFunctionOnSet(g, U) \in Int
    BY <2>3, <2>4, SumType
  <2>7. f[p] \in Int /\ g[p] \in Int /\ h[p] = f[p] + g[p]
    OBVIOUS
  <2>8. SumFunctionOnSet(h, T) # SumFunctionOnSet(f, T) + SumFunctionOnSet(g, T)
    OBVIOUS
  <2>9. SumFunctionOnSet(h, U) # SumFunctionOnSet(f, U) + SumFunctionOnSet(g, U)
    BY <2>5, <2>6, <2>7, <2>8
  <2>10. U \in Bad
    BY <2>3, <2>9
  <2> QED
    BY <2>3, <2>10
<1>2. Bad = {}
  <2> HIDE DEF Bad
  <2>1. Bad \subseteq SUBSET S
    BY DEF Bad
  <2> QED
    BY <1>1, <2>1, NoLeast
<1> QED
    BY <1>2

\* The sum of the opposites is the opposite of the sum.
LEMMA SumOpposite ==
    ASSUME NEW f, NEW S, IsFiniteSet(S), \A x \in S : f[x] \in Int
    PROVE  SumFunctionOnSet([x \in S |-> -f[x]], S) = -SumFunctionOnSet(f, S)
<1>1. PICK g : g = [x \in S |-> -f[x]]
    OBVIOUS
<1>2. PICK zero : zero = [x \in S |-> 0]
    OBVIOUS
<1>3. \A x \in S : f[x] \in Int /\ g[x] \in Int /\ zero[x] = f[x] + g[x] /\ zero[x] = 0
    BY <1>1, <1>2
<1>4. SumFunctionOnSet(zero, S) = SumFunctionOnSet(f, S) + SumFunctionOnSet(g, S)
    BY <1>3, SumPlus
<1>5. SumFunctionOnSet(zero, S) = 0
    BY <1>3, SumZero
<1>6. SumFunctionOnSet(f, S) \in Int /\ SumFunctionOnSet(g, S) \in Int
    BY <1>3, SumType
<1> QED
    BY <1>1, <1>4, <1>5, <1>6

LEMMA OneMore ==
    ASSUME NEW n \in Nat, NEW bound \in Int
    PROVE  (n + 1) * bound = n * bound + bound
    OBVIOUS

\* A bound on each value bounds the sum.
LEMMA SumAtMost ==
    ASSUME NEW f, NEW S, IsFiniteSet(S), NEW bound \in Int,
           \A x \in S : f[x] \in Int /\ f[x] <= bound
    PROVE  SumFunctionOnSet(f, S) <= Cardinality(S) * bound
<1> DEFINE Bad == {T \in SUBSET S : ~(SumFunctionOnSet(f, T) <= Cardinality(T) * bound)}
<1>1. ASSUME NEW T \in Bad PROVE \E U \in Bad : U \subseteq T /\ U # T
  <2>1. T # {}
    BY SumEmpty, FS_EmptySet
  <2>2. PICK p \in T : p = PickOf(T)
    BY <2>1, PickIn
  <2>3. PICK U : U = T \ {p}
    OBVIOUS
  <2>4. IsFiniteSet(T) /\ IsFiniteSet(U) /\ Cardinality(T) \in Nat /\ Cardinality(U) \in Nat
    BY <2>3, FS_Subset, FS_CardinalityType
  <2>5. Cardinality(T) = Cardinality(U) + 1
    BY <2>3, <2>4, FS_RemoveElement
  <2>6. SumFunctionOnSet(f, T) = f[p] + SumFunctionOnSet(f, U)
    BY <2>1, <2>2, <2>3, <2>4, SumPick
  <2>7. SumFunctionOnSet(f, U) \in Int
    BY <2>3, <2>4, SumType
  <2>8. PICK m : m = Cardinality(U) * bound
    OBVIOUS
  <2>9. m \in Int /\ Cardinality(T) * bound = m + bound
    BY <2>4, <2>5, <2>8, OneMore
  <2>10. ~(SumFunctionOnSet(f, T) <= m + bound) /\ f[p] \in Int /\ f[p] <= bound
    BY <2>9
  <2>11. ~(SumFunctionOnSet(f, U) <= m)
    BY <2>6, <2>7, <2>9, <2>10
  <2>12. U \in Bad
    BY <2>3, <2>8, <2>11
  <2> QED
    BY <2>3, <2>12
<1>2. Bad = {}
  <2> HIDE DEF Bad
  <2>1. Bad \subseteq SUBSET S
    BY DEF Bad
  <2> QED
    BY <1>1, <2>1, NoLeast
<1> QED
    BY <1>2

\* If one value is 0, the others are bounded.
LEMMA SumOfOthers ==
    ASSUME NEW f, NEW S, IsFiniteSet(S), NEW bound \in Nat,
           \A x \in S : f[x] \in Int /\ f[x] <= bound,
           NEW a \in S, f[a] = 0
    PROVE  SumFunctionOnSet(f, S) <= Cardinality(S) * bound - bound
<1>1. PICK h : h = [x \in S |-> IF x = a THEN bound ELSE f[x]]
    OBVIOUS
<1>2. /\ \A x \in S : h[x] \in Int /\ h[x] <= bound
      /\ h[a] = bound /\ \A x \in S : x # a => h[x] = f[x]
    BY <1>1
<1>3. SumFunctionOnSet(h, S) = SumFunctionOnSet(f, S) - f[a] + h[a]
    BY <1>2, SumChange
<1>4. SumFunctionOnSet(h, S) <= Cardinality(S) * bound
    BY <1>2, SumAtMost
<1>5. SumFunctionOnSet(f, S) \in Int /\ Cardinality(S) * bound \in Int
    BY SumType, FS_CardinalityType
<1> QED
    BY <1>2, <1>3, <1>4, <1>5

LEMMA SumOfOthersButTwo ==
    ASSUME NEW f, NEW S, IsFiniteSet(S), NEW bound \in Nat,
           \A x \in S : f[x] \in Int /\ f[x] <= bound,
           NEW a \in S, f[a] = 0, NEW b \in S, f[b] = 0, a # b
    PROVE  SumFunctionOnSet(f, S) <= Cardinality(S) * bound - bound - bound
<1>1. PICK h : h = [x \in S |-> IF x = a THEN bound ELSE f[x]]
    OBVIOUS
<1>2. /\ \A x \in S : h[x] \in Int /\ h[x] <= bound
      /\ h[a] = bound /\ h[b] = 0 /\ \A x \in S : x # a => h[x] = f[x]
    BY <1>1
<1>3. SumFunctionOnSet(h, S) = SumFunctionOnSet(f, S) - f[a] + h[a]
    BY <1>2, SumChange
<1>4. SumFunctionOnSet(h, S) <= Cardinality(S) * bound - bound
    BY <1>2, SumOfOthers
<1>5. SumFunctionOnSet(f, S) \in Int /\ Cardinality(S) * bound \in Int
    BY SumType, FS_CardinalityType
<1> QED
    BY <1>2, <1>3, <1>4, <1>5
===============================================================================
