----------------------------- MODULE SumProofs -----------------------------
(***************************************************************************)
(* Sums over finite sets: what the proofs about coins use of               *)
(* SumFunctionOnSet.  The module library defines it by a recursive         *)
(* function over the subsets of its argument; that this function exists,   *)
(* and what follows about the sum, is shown here by descent on the size of *)
(* a set.                                                                  *)
(***************************************************************************)
EXTENDS Functions, FiniteSetTheorems, WellFoundedInduction, Integers, TLAPS

\* The element the sum takes first.
Pick(S) == CHOOSE x \in S : TRUE

\* The recursive function behind the sum.
IsIteration(f, S, g) ==
    g = [s \in SUBSET S |-> IF s = {} THEN 0
                            ELSE f[Pick(s)] + g[s \ {Pick(s)}]]

Iteration(f, S) == CHOOSE g : IsIteration(f, S, g)

\* A non-empty set of naturals has a least element.
LEMMA LeastNatural ==
    ASSUME NEW B \in SUBSET Nat, B # {}
    PROVE  \E n \in B : \A m \in B : ~(m < n)
<1>1. PICK n \in B : \A m \in B : ~(<<m, n>> \in OpToRel(<, Nat))
  BY NatLessThanWellFounded, WFMin, Zenon
<1>2. \A m \in B : m < n => <<m, n>> \in OpToRel(<, Nat)
  BY DEF OpToRel
<1> QED BY <1>1, <1>2

\* The library's fold is that recursive function.
LEMMA SumIsIteration ==
    ASSUME NEW f, NEW S
    PROVE  SumFunctionOnSet(f, S) = Iteration(f, S)[S]
BY Zenon DEF SumFunctionOnSet, FoldFunctionOnSet, MapThenFoldSet, Iteration,
             IsIteration, Pick

\* The element taken first is one of the set.
LEMMA PickIsIn ==
    ASSUME NEW S, S # {}
    PROVE  Pick(S) \in S
BY DEF Pick

\* g solves the equation of the sum at s; on all sets of at most n elements.
Satisfies(f, g, s) == g[s] = IF s = {} THEN 0 ELSE f[Pick(s)] + g[s \ {Pick(s)}]

IteratesUpTo(f, S, n, g) ==
    /\ g = [s \in SUBSET S |-> g[s]]
    /\ \A s \in SUBSET S : Cardinality(s) <= n => Satisfies(f, g, s)

\* The equation can be solved up to any size, one size at a time.
LEMMA IterateStart ==
    ASSUME NEW f, NEW S, IsFiniteSet(S)
    PROVE  \E g : IteratesUpTo(f, S, 0, g)
<1> DEFINE g == [s \in SUBSET S |-> 0]
<1>1. ASSUME NEW s \in SUBSET S, Cardinality(s) <= 0
      PROVE  s = {}
  BY <1>1, FS_Subset, FS_CardinalityType, FS_EmptySet
<1>2. IteratesUpTo(f, S, 0, g)
  BY <1>1 DEF IteratesUpTo, Satisfies
<1> QED BY <1>2

\* A solution up to n elements extends to one more.
LEMMA IterateStep ==
    ASSUME NEW f, NEW S, IsFiniteSet(S), NEW n \in Nat, NEW g,
           IteratesUpTo(f, S, n, g)
    PROVE  \E h : IteratesUpTo(f, S, n + 1, h)
<1> DEFINE h == [s \in SUBSET S |->
                   IF Cardinality(s) <= n THEN g[s]
                   ELSE f[Pick(s)] + g[s \ {Pick(s)}]]
<1>1. \A s \in SUBSET S : IsFiniteSet(s) /\ Cardinality(s) \in Nat
  BY FS_Subset, FS_CardinalityType
<1>2. ASSUME NEW s \in SUBSET S, s # {}
      PROVE  /\ s \ {Pick(s)} \in SUBSET S
             /\ Cardinality(s \ {Pick(s)}) = Cardinality(s) - 1
  BY <1>1, <1>2, PickIsIn, FS_RemoveElement
<1>3. ASSUME NEW s \in SUBSET S, Cardinality(s) <= n + 1
      PROVE  Satisfies(f, h, s)
  <2>1. CASE s = {}
    <3>1. Cardinality(s) = 0
      BY <2>1, FS_EmptySet
    <3>2. Satisfies(f, g, s)
      BY <3>1 DEF IteratesUpTo
    <3>3. g[s] = 0
      BY <2>1, <3>2 DEF Satisfies
    <3> QED BY <2>1, <3>1, <3>3 DEF Satisfies
  <2>2. CASE s # {}
    <3> DEFINE r == s \ {Pick(s)}
    <3>1. r \in SUBSET S /\ Cardinality(r) <= n
      BY <1>1, <1>2, <1>3, <2>2
    <3>2. h[r] = g[r]
      BY <3>1
    <3>3. h[s] = f[Pick(s)] + g[r]
      <4>1. CASE Cardinality(s) <= n
        BY <2>2, <4>1 DEF IteratesUpTo, Satisfies
      <4>2. CASE ~(Cardinality(s) <= n)
        BY <4>2
      <4> QED BY <4>1, <4>2
    <3> QED BY <2>2, <3>2, <3>3 DEF Satisfies
  <2> QED BY <2>1, <2>2
<1>4. IteratesUpTo(f, S, n + 1, h)
  BY <1>3 DEF IteratesUpTo
<1> QED BY <1>4

\* So the recursive function exists.
LEMMA IterationExists ==
    ASSUME NEW f, NEW S, IsFiniteSet(S)
    PROVE  \E g : IsIteration(f, S, g)
<1> DEFINE B == {n \in Nat : ~ \E g : IteratesUpTo(f, S, n, g)}
<1>1. B = {}
  <2>1. SUFFICES ASSUME B # {} PROVE FALSE
    OBVIOUS
  <2> HIDE DEF B
  <2>2. B \in SUBSET Nat
    BY DEF B
  <2>3. PICK n \in B : \A m \in B : ~(m < n)
    BY <2>1, <2>2, LeastNatural
  <2>4. CASE n = 0
    BY <2>4, <2>3, IterateStart DEF B
  <2>5. CASE n # 0
    <3>1. n - 1 \in Nat /\ n - 1 < n
      BY <2>2, <2>3, <2>5
    <3>2. n - 1 \notin B
      BY <2>3, <3>1
    <3>3. PICK g : IteratesUpTo(f, S, n - 1, g)
      BY <3>1, <3>2 DEF B
    <3>4. PICK h : IteratesUpTo(f, S, (n - 1) + 1, h)
      BY <3>1, <3>3, IterateStep
    <3>5. (n - 1) + 1 = n
      BY <2>2, <2>3
    <3> QED BY <2>3, <3>4, <3>5 DEF B
  <2> QED BY <2>4, <2>5
<1>2. Cardinality(S) \in Nat
  BY FS_CardinalityType
<1>3. PICK g : IteratesUpTo(f, S, Cardinality(S), g)
  BY <1>1, <1>2
<1>4. \A s \in SUBSET S : Cardinality(s) <= Cardinality(S)
  BY FS_Subset
<1>5. \A s \in SUBSET S : g[s] = IF s = {} THEN 0 ELSE f[Pick(s)] + g[s \ {Pick(s)}]
  BY <1>3, <1>4 DEF IteratesUpTo, Satisfies
<1>6. g = [s \in SUBSET S |-> g[s]]
  BY <1>3 DEF IteratesUpTo
<1>7. IsIteration(f, S, g)
  BY <1>5, <1>6 DEF IsIteration
<1> QED BY <1>7

\* And it satisfies its equation.
LEMMA IterationEquation ==
    ASSUME NEW f, NEW S, IsFiniteSet(S)
    PROVE  \A s \in SUBSET S :
             Iteration(f, S)[s] =
               IF s = {} THEN 0
               ELSE f[Pick(s)] + Iteration(f, S)[s \ {Pick(s)}]
<1>1. IsIteration(f, S, Iteration(f, S))
  BY IterationExists, Zenon DEF Iteration
<1> HIDE DEF Iteration
<1> DEFINE g == Iteration(f, S)
<1>2. g = [s \in SUBSET S |-> IF s = {} THEN 0
                              ELSE f[Pick(s)] + g[s \ {Pick(s)}]]
  BY <1>1 DEF IsIteration
<1> HIDE DEF g
<1>3. \A s \in SUBSET S :
        g[s] = IF s = {} THEN 0 ELSE f[Pick(s)] + g[s \ {Pick(s)}]
  BY <1>2
<1> QED BY <1>3 DEF g

\* Descent on finite sets: a property of subsets that holds of a set whenever
\* it holds of the set less any one element holds of every finite set.
LEMMA SetDescent ==
    ASSUME NEW S, IsFiniteSet(S), NEW Good,
           \A s \in SUBSET S : (\A x \in s : s \ {x} \in Good) => s \in Good
    PROVE  S \in Good
<1> DEFINE B == {n \in Nat : \E s \in SUBSET S : Cardinality(s) = n /\ s \notin Good}
<1>1. \A s \in SUBSET S : IsFiniteSet(s) /\ Cardinality(s) \in Nat
  BY FS_Subset, FS_CardinalityType
<1>2. B = {}
  <2>1. SUFFICES ASSUME B # {} PROVE FALSE
    OBVIOUS
  <2> HIDE DEF B
  <2>2. B \in SUBSET Nat
    BY DEF B
  <2>3. PICK n \in B : \A m \in B : ~(m < n)
    BY <2>1, <2>2, LeastNatural
  <2>4. PICK s \in SUBSET S : Cardinality(s) = n /\ s \notin Good
    BY <2>3 DEF B
  <2>5. PICK x \in s : s \ {x} \notin Good
    BY <2>4
  <2> DEFINE r == s \ {x}
  <2>6. r \in SUBSET S
    OBVIOUS
  <2>7. Cardinality(r) = Cardinality(s) - 1
    BY <1>1, FS_RemoveElement
  <2>8. Cardinality(r) \in Nat /\ Cardinality(r) < n
    BY <1>1, <2>4, <2>6, <2>7
  <2>9. r \notin Good
    BY <2>5
  <2> HIDE DEF r
  <2> QED BY <2>3, <2>6, <2>8, <2>9 DEF B
<1>3. Cardinality(S) \in Nat /\ S \in SUBSET S
  BY <1>1
<1> QED BY <1>2, <1>3

\* Iterations over two sets agree where both are defined.
LEMMA IterationsAgree ==
    ASSUME NEW f, NEW S, NEW T \in SUBSET S, IsFiniteSet(S)
    PROVE  Iteration(f, S)[T] = Iteration(f, T)[T]
<1> DEFINE Good == {s \in SUBSET T : Iteration(f, S)[s] = Iteration(f, T)[s]}
<1>1. IsFiniteSet(T)
  BY FS_Subset
<1>2. ASSUME NEW s \in SUBSET T, \A x \in s : s \ {x} \in Good
      PROVE  s \in Good
  <2>1. s \in SUBSET S
    OBVIOUS
  <2> DEFINE r == s \ {Pick(s)}
  <2>2. s # {} => Iteration(f, S)[r] = Iteration(f, T)[r]
    BY <1>2, PickIsIn
  <2>3. Iteration(f, S)[s] = IF s = {} THEN 0 ELSE f[Pick(s)] + Iteration(f, S)[r]
    BY <2>1, IterationEquation
  <2>4. Iteration(f, T)[s] = IF s = {} THEN 0 ELSE f[Pick(s)] + Iteration(f, T)[r]
    BY <1>1, IterationEquation
  <2> HIDE DEF r
  <2> QED BY <2>2, <2>3, <2>4
<1> HIDE DEF Good
<1>3. T \in Good
  BY <1>1, <1>2, SetDescent
<1> QED BY <1>3 DEF Good

\* The sum over no elements is zero.
LEMMA SumEmpty ==
    ASSUME NEW f
    PROVE  SumFunctionOnSet(f, {}) = 0
BY FS_EmptySet, IterationEquation, SumIsIteration

\* The sum takes one element first, and the rest of the set after it.
LEMMA SumUnfolds ==
    ASSUME NEW f, NEW S, S # {}, IsFiniteSet(S)
    PROVE  SumFunctionOnSet(f, S) = f[Pick(S)] + SumFunctionOnSet(f, S \ {Pick(S)})
<1>1. SumFunctionOnSet(f, S) = Iteration(f, S)[S]
  BY SumIsIteration
<1>2. SumFunctionOnSet(f, S \ {Pick(S)}) = Iteration(f, S \ {Pick(S)})[S \ {Pick(S)}]
  BY SumIsIteration
<1>3. Iteration(f, S)[S \ {Pick(S)}]
        = Iteration(f, S \ {Pick(S)})[S \ {Pick(S)}]
  BY IterationsAgree
<1>4. S \in SUBSET S
  OBVIOUS
<1>5. Iteration(f, S)[S] = f[Pick(S)] + Iteration(f, S)[S \ {Pick(S)}]
  BY <1>4, IterationEquation
<1> QED BY <1>1, <1>2, <1>3, <1>5

\* A sum of integers is an integer.
LEMMA SumType ==
    ASSUME NEW f, NEW S, IsFiniteSet(S), \A x \in S : f[x] \in Int
    PROVE  SumFunctionOnSet(f, S) \in Int
<1> DEFINE Good == {s \in SUBSET S : SumFunctionOnSet(f, s) \in Int}
<1>1. ASSUME NEW s \in SUBSET S, \A x \in s : s \ {x} \in Good
      PROVE  s \in Good
  <2>1. CASE s = {}
    BY <2>1, SumEmpty
  <2>2. CASE s # {}
    <3>1. Pick(s) \in s
      BY <2>2, PickIsIn
    <3>2. SumFunctionOnSet(f, s) = f[Pick(s)] + SumFunctionOnSet(f, s \ {Pick(s)})
      BY <2>2, FS_Subset, SumUnfolds
    <3> QED BY <1>1, <3>1, <3>2
  <2> QED BY <2>1, <2>2
<1> HIDE DEF Good
<1>2. S \in Good
  BY <1>1, SetDescent
<1> QED BY <1>2 DEF Good

\* A sum of naturals is a natural.
LEMMA SumOfNaturals ==
    ASSUME NEW f, NEW S, IsFiniteSet(S), \A x \in S : f[x] \in Nat
    PROVE  SumFunctionOnSet(f, S) \in Nat
<1> DEFINE Good == {s \in SUBSET S : SumFunctionOnSet(f, s) \in Nat}
<1>1. ASSUME NEW s \in SUBSET S, \A x \in s : s \ {x} \in Good
      PROVE  s \in Good
  <2>1. CASE s = {}
    BY <2>1, SumEmpty
  <2>2. CASE s # {}
    <3>1. Pick(s) \in s
      BY <2>2, PickIsIn
    <3>2. SumFunctionOnSet(f, s) = f[Pick(s)] + SumFunctionOnSet(f, s \ {Pick(s)})
      BY <2>2, FS_Subset, SumUnfolds
    <3> QED BY <1>1, <3>1, <3>2
  <2> QED BY <2>1, <2>2
<1> HIDE DEF Good
<1>2. S \in Good
  BY <1>1, SetDescent
<1> QED BY <1>2 DEF Good

\* Functions that agree on a set have the same sum over it.
LEMMA SumAgrees ==
    ASSUME NEW S, IsFiniteSet(S), NEW f, NEW g,
           \A x \in S : f[x] = g[x]
    PROVE  SumFunctionOnSet(f, S) = SumFunctionOnSet(g, S)
<1> DEFINE Good == {s \in SUBSET S : SumFunctionOnSet(f, s) = SumFunctionOnSet(g, s)}
<1>1. ASSUME NEW s \in SUBSET S, \A x \in s : s \ {x} \in Good
      PROVE  s \in Good
  <2>1. CASE s = {}
    BY <2>1, SumEmpty
  <2>2. CASE s # {}
    <3>1. Pick(s) \in s
      BY <2>2, PickIsIn
    <3>2. /\ SumFunctionOnSet(f, s) = f[Pick(s)] + SumFunctionOnSet(f, s \ {Pick(s)})
          /\ SumFunctionOnSet(g, s) = g[Pick(s)] + SumFunctionOnSet(g, s \ {Pick(s)})
      BY <2>2, FS_Subset, SumUnfolds
    <3> QED BY <1>1, <3>1, <3>2
  <2> QED BY <2>1, <2>2
<1> HIDE DEF Good
<1>2. S \in Good
  BY <1>1, SetDescent
<1> QED BY <1>2 DEF Good

\* Any element may be taken out of a sum first.
LEMMA SumRemoves ==
    ASSUME NEW f, NEW S, IsFiniteSet(S), \A x \in S : f[x] \in Int, NEW e \in S
    PROVE  SumFunctionOnSet(f, S) = f[e] + SumFunctionOnSet(f, S \ {e})
<1> DEFINE Good == {s \in SUBSET S :
                      \A x \in s :
                        SumFunctionOnSet(f, s) = f[x] + SumFunctionOnSet(f, s \ {x})}
<1>1. ASSUME NEW s \in SUBSET S, \A x \in s : s \ {x} \in Good
      PROVE  s \in Good
  <2>1. SUFFICES ASSUME NEW x \in s
                 PROVE  SumFunctionOnSet(f, s) = f[x] + SumFunctionOnSet(f, s \ {x})
    OBVIOUS
  <2> DEFINE y == Pick(s)
  <2>2. y \in s
    BY PickIsIn
  <2>3. SumFunctionOnSet(f, s) = f[y] + SumFunctionOnSet(f, s \ {y})
    BY FS_Subset, SumUnfolds
  <2> HIDE DEF y
  <2>4. CASE x = y
    BY <2>3, <2>4
  <2>5. CASE x # y
    <3> DEFINE r == (s \ {x}) \ {y}
    <3>1. SumFunctionOnSet(f, s \ {y}) = f[x] + SumFunctionOnSet(f, (s \ {y}) \ {x})
      BY <1>1, <2>2, <2>5
    <3>2. SumFunctionOnSet(f, s \ {x}) = f[y] + SumFunctionOnSet(f, r)
      BY <1>1, <2>2, <2>5
    <3>3. (s \ {y}) \ {x} = r
      OBVIOUS
    <3>4. f[x] \in Int /\ f[y] \in Int
      BY <2>2
    <3>5. SumFunctionOnSet(f, r) \in Int
      BY FS_Subset, SumType
    <3> HIDE DEF r, Good
    <3>6. SumFunctionOnSet(f, s \ {y}) = f[x] + SumFunctionOnSet(f, r)
      BY <3>1, <3>3
    <3> QED BY <2>3, <3>2, <3>4, <3>5, <3>6
  <2> QED BY <2>4, <2>5
<1> HIDE DEF Good
<1>2. S \in Good
  BY <1>1, SetDescent
<1> QED BY <1>2 DEF Good

\* The sum over a set and an element outside it.
LEMMA SumAdds ==
    ASSUME NEW f, NEW S, IsFiniteSet(S), NEW e, e \notin S,
           \A x \in S \cup {e} : f[x] \in Int
    PROVE  SumFunctionOnSet(f, S \cup {e}) = f[e] + SumFunctionOnSet(f, S)
<1>1. IsFiniteSet(S \cup {e})
  BY FS_AddElement
<1>2. (S \cup {e}) \ {e} = S
  OBVIOUS
<1>3. e \in S \cup {e}
  OBVIOUS
<1> QED BY <1>1, <1>2, <1>3, SumRemoves

\* Changing a function at one element changes its sum by the difference.
LEMMA SumChanges ==
    ASSUME NEW S, IsFiniteSet(S), NEW f, NEW g, NEW e \in S,
           \A x \in S : f[x] \in Int /\ g[x] \in Int,
           \A x \in S : x # e => g[x] = f[x]
    PROVE  SumFunctionOnSet(g, S) = SumFunctionOnSet(f, S) + g[e] - f[e]
<1>1. SumFunctionOnSet(g, S \ {e}) = SumFunctionOnSet(f, S \ {e})
  BY FS_RemoveElement, SumAgrees
<1>2. /\ SumFunctionOnSet(f, S) = f[e] + SumFunctionOnSet(f, S \ {e})
      /\ SumFunctionOnSet(g, S) = g[e] + SumFunctionOnSet(g, S \ {e})
  BY SumRemoves
<1>3. SumFunctionOnSet(f, S \ {e}) \in Int
  BY FS_RemoveElement, SumType
<1> QED BY <1>1, <1>2, <1>3

\* No element of a sum of naturals is larger than the sum.
LEMMA SumBounds ==
    ASSUME NEW f, NEW S, IsFiniteSet(S), \A x \in S : f[x] \in Nat, NEW e \in S
    PROVE  f[e] <= SumFunctionOnSet(f, S)
<1>1. SumFunctionOnSet(f, S) = f[e] + SumFunctionOnSet(f, S \ {e})
  BY SumRemoves
<1>2. SumFunctionOnSet(f, S \ {e}) \in Nat
  BY FS_RemoveElement, SumOfNaturals
<1> QED BY <1>1, <1>2
=============================================================================
