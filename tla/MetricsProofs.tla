--------------------------- MODULE MetricsProofs ---------------------------
(***************************************************************************)
(* Proofs about Metrics for any tables, ranges and numbers of ads: types,  *)
(* floors, and that the sums of the reports agree.                         *)
(*                                                                         *)
(* What the sums need is proved first, about SumFunctionOnSet: a fold that *)
(* takes the elements in the order CHOOSE picks them.  In place of an      *)
(* induction each lemma looks at the smallest subset it would fail for.    *)
(***************************************************************************)
EXTENDS Metrics, FiniteSetTheorems, TLAPS

-----------------------------------------------------------------------------
(* Smallest counterexamples.                                               *)

\* A set of numbers has a least one: a minimal element of < on the naturals, which is well-founded.
LEMMA LeastNumber ==
  ASSUME NEW T \in SUBSET Nat, T # {}
  PROVE  \E x \in T : \A y \in T : x <= y
<1> DEFINE R == OpToRel(<, Nat)
<1>1. IsWellFoundedOn(R, Nat)
  BY NatLessThanWellFounded
<1>2. \A x, y \in Nat : x < y => <<x, y>> \in R
  BY DEF OpToRel
<1> HIDE DEF R
<1>3. PICK x \in T : \A y \in T : <<y, x>> \notin R
  BY <1>1, WFMin
<1>4. \A y \in T : ~(y < x)
  BY <1>2, <1>3
<1> QED
  BY <1>4

\* A set of subsets of a finite set has a smallest one: strict inclusion is well-founded.
LEMMA SmallestSubset ==
  ASSUME NEW S, IsFiniteSet(S), NEW X \in SUBSET SUBSET S, X # {}
  PROVE  \E T \in X : \A U \in X : U \subseteq T => U = T
<1> DEFINE R == StrictSubsetOrdering(S)
<1>1. IsWellFoundedOn(R, SUBSET S)
  BY FS_StrictSubsetOrderingWellFounded, FS_FiniteSubsetsOfFinite
<1>2. \A U, T \in SUBSET S : U \subseteq T /\ U # T => <<U, T>> \in R
  BY DEF StrictSubsetOrdering
<1> HIDE DEF R
<1>3. PICK T \in X : \A U \in X : <<U, T>> \notin R
  BY <1>1, WFMin
<1> QED
  BY <1>2, <1>3

\* A finite set has finite images.
LEMMA ImageIsFinite ==
  ASSUME NEW K, IsFiniteSet(K), NEW row, NEW S, S = {row[k] : k \in K}
  PROVE  IsFiniteSet(S)
<1> DEFINE f == [k \in K |-> row[k]]
<1>1. f \in Surjection(K, S)
  BY DEF Surjection
<1> QED
  BY <1>1, FS_Surjection

-----------------------------------------------------------------------------
(* Sums.                                                                   *)

\* What the fold picks first.
First(S) == CHOOSE x \in S : TRUE

\* What the fold of a sum over S computes with.
Sums(f, S, it) == it = [s \in SUBSET S |-> IF s = {} THEN 0 ELSE f[First(s)] + it[s \ {First(s)}]]

\* What the library computes is the fold of S, at S itself.
LEMMA SumIsFold ==
  ASSUME NEW f, NEW S
  PROVE  SumFunctionOnSet(f, S) = (CHOOSE it : Sums(f, S, it))[S]
  BY DEF SumFunctionOnSet, FoldFunctionOnSet, MapThenFoldSet, Sums, First

\* The equation of the fold, up to a size.
SumsUpTo(f, S, it, n) ==
  /\ it \in [SUBSET S -> Nat]
  /\ \A s \in SUBSET S : Cardinality(s) <= n =>
       it[s] = IF s = {} THEN 0 ELSE f[First(s)] + it[s \ {First(s)}]

LEMMA FirstIsIn == \A s : s # {} => First(s) \in s
  BY DEF First

\* Subsets of one more element: their sums are those of smaller ones.
LEMMA SumsUpToOneMore ==
  ASSUME NEW f, NEW S, IsFiniteSet(S), \A x \in S : f[x] \in Nat, NEW n \in Nat, NEW it, SumsUpTo(f, S, it, n)
  PROVE  \E more : SumsUpTo(f, S, more, n + 1)
<1> DEFINE Next(s) == IF Cardinality(s) = n + 1 THEN f[First(s)] + it[s \ {First(s)}] ELSE it[s]
           more == [s \in SUBSET S |-> Next(s)]
<1>1. ASSUME NEW s \in SUBSET S
      PROVE  /\ Cardinality(s) \in Nat /\ (s = {} <=> Cardinality(s) = 0)
             /\ s # {} => /\ Cardinality(s \ {First(s)}) = Cardinality(s) - 1
                          /\ s \ {First(s)} \in SUBSET S /\ First(s) \in S
  <2>1. IsFiniteSet(s)
    BY FS_Subset
  <2> QED
    BY <2>1, FS_CardinalityType, FS_EmptySet, FS_RemoveElement, FirstIsIn
<1>2. \A s \in SUBSET S : it[s] \in Nat
  BY DEF SumsUpTo
<1>3. \A s \in SUBSET S : Next(s) \in Nat
  BY <1>1, <1>2
<1>4. \A s \in SUBSET S : more[s] = Next(s)
  OBVIOUS
<1>5. more \in [SUBSET S -> Nat]
  BY <1>3
<1>6. \A s \in SUBSET S : Cardinality(s) # n + 1 => more[s] = it[s]
  BY <1>4
<1>7. \A s \in SUBSET S : Cardinality(s) = n + 1 => more[s] = f[First(s)] + it[s \ {First(s)}]
  BY <1>4
<1> HIDE DEF more, Next
<1>8. ASSUME NEW s \in SUBSET S, Cardinality(s) <= n + 1
      PROVE  more[s] = IF s = {} THEN 0 ELSE f[First(s)] + more[s \ {First(s)}]
  <2>1. s # {} => more[s \ {First(s)}] = it[s \ {First(s)}]
    BY <1>1, <1>6, <1>8
  <2>2. CASE Cardinality(s) = n + 1
    BY <1>1, <1>7, <2>1, <2>2
  <2>3. CASE Cardinality(s) # n + 1
    <3>0. Cardinality(s) \in Nat
      BY <1>1
    <3>1. Cardinality(s) <= n
      BY <1>8, <2>3, <3>0
    <3>2. it[s] = IF s = {} THEN 0 ELSE f[First(s)] + it[s \ {First(s)}]
      BY <3>1 DEF SumsUpTo
    <3> QED
      BY <1>6, <2>1, <2>3, <3>2
  <2> QED
    BY <2>2, <2>3
<1> QED
  BY <1>5, <1>8 DEF SumsUpTo

\* So the equation has a solution, of numbers.
LEMMA SumsExist ==
  ASSUME NEW f, NEW S, IsFiniteSet(S), \A x \in S : f[x] \in Nat
  PROVE  \E it \in [SUBSET S -> Nat] : Sums(f, S, it)
<1> DEFINE Fails == {n \in Nat : ~ \E it : SumsUpTo(f, S, it, n)}
<1>1. Fails = {}
  <2>1. SUFFICES ASSUME Fails # {} PROVE FALSE
    OBVIOUS
  <2>2. PICK n \in Fails : \A m \in Fails : n <= m
    BY <2>1, LeastNumber
  <2>3. SumsUpTo(f, S, [s \in SUBSET S |-> 0], 0)
    <3>1. \A s \in SUBSET S : Cardinality(s) \in Nat /\ (Cardinality(s) = 0 => s = {})
      BY FS_Subset, FS_CardinalityType, FS_EmptySet
    <3>2. \A s \in SUBSET S : Cardinality(s) <= 0 => s = {}
      BY <3>1
    <3> QED
      BY <3>2 DEF SumsUpTo
  <2>4. n # 0
    BY <2>3
  <2>5. n - 1 \in Nat /\ n - 1 \notin Fails
    BY <2>2, <2>4
  <2>6. PICK it : SumsUpTo(f, S, it, n - 1)
    BY <2>5
  <2>7. \E more : SumsUpTo(f, S, more, (n - 1) + 1)
    BY <2>5, <2>6, SumsUpToOneMore
  <2> QED
    BY <2>2, <2>7
<1>2. Cardinality(S) \in Nat
  BY FS_CardinalityType
<1>3. PICK it : SumsUpTo(f, S, it, Cardinality(S))
  BY <1>1, <1>2
<1>4. \A s \in SUBSET S : Cardinality(s) <= Cardinality(S)
  BY FS_Subset
<1>5. \A s \in SUBSET S : it[s] = IF s = {} THEN 0 ELSE f[First(s)] + it[s \ {First(s)}]
  BY <1>3, <1>4 DEF SumsUpTo
<1>6. it \in [SUBSET S -> Nat]
  BY <1>3 DEF SumsUpTo
<1>7. Sums(f, S, it)
  BY <1>5, <1>6 DEF Sums
<1> QED
  BY <1>6, <1>7

\* Two folds of sums agree where both are defined.
LEMMA SumsAgree ==
  ASSUME NEW S, IsFiniteSet(S), NEW f, NEW T \in SUBSET S,
         NEW one, Sums(f, S, one), NEW other, Sums(f, T, other)
  PROVE  one[T] = other[T]
<1> DEFINE Differ == {s \in SUBSET T : one[s] # other[s]}
<1>1. \A s \in SUBSET T : one[s] = IF s = {} THEN 0 ELSE f[First(s)] + one[s \ {First(s)}]
  BY DEF Sums
<1>2. \A s \in SUBSET T : other[s] = IF s = {} THEN 0 ELSE f[First(s)] + other[s \ {First(s)}]
  BY DEF Sums
<1>3. SUFFICES ASSUME Differ # {} PROVE FALSE
  OBVIOUS
<1>4. Differ \in SUBSET SUBSET T /\ IsFiniteSet(T)
  BY FS_Subset
<1> HIDE DEF Differ
<1>5. PICK s \in Differ : \A u \in Differ : u \subseteq s => u = s
  BY <1>3, <1>4, SmallestSubset
<1> USE DEF Differ
<1>6. s # {}
  BY <1>1, <1>2
<1>7. s \ {First(s)} \subseteq s /\ s \ {First(s)} # s
  BY <1>6, FirstIsIn
<1>8. one[s \ {First(s)}] = other[s \ {First(s)}]
  BY <1>5, <1>7
<1> QED
  BY <1>1, <1>2, <1>6, <1>8

\* From here on sums are known by their first element alone.
Sum(f, S) == SumFunctionOnSet(f, S)

\* A sum takes its first element first, and is a number.
LEMMA SumFirst ==
  ASSUME NEW f, NEW S, IsFiniteSet(S), \A x \in S : f[x] \in Nat
  PROVE  /\ Sum(f, S) \in Nat
         /\ Sum(f, {}) = 0
         /\ S # {} => Sum(f, S) = f[First(S)] + Sum(f, S \ {First(S)})
<1> DEFINE It(T) == CHOOSE it : Sums(f, T, it)
<1>1. \A T \in SUBSET S : Sums(f, T, It(T)) /\ Sum(f, T) = It(T)[T]
  <2> TAKE T \in SUBSET S
  <2>1. IsFiniteSet(T)
    BY FS_Subset
  <2>2. \E it : Sums(f, T, it)
    BY <2>1, SumsExist
  <2> QED
    BY <2>2, SumIsFold DEF Sum
<1>2. Sum(f, S) \in Nat
  <2>1. PICK it \in [SUBSET S -> Nat] : Sums(f, S, it)
    BY SumsExist
  <2>2. it[S] \in Nat
    BY <2>1
  <2>3. Sums(f, S, It(S))
    BY <1>1
  <2>4. It(S)[S] = it[S]
    BY <2>1, <2>3, SumsAgree
  <2> QED
    BY <1>1, <2>2, <2>4
<1>3. Sum(f, {}) = 0
  <2>1. Sums(f, {}, It({})) /\ Sum(f, {}) = It({})[{}]
    BY <1>1
  <2> HIDE DEF It
  <2> QED
    BY <2>1 DEF Sums
<1>4. ASSUME S # {}
      PROVE  Sum(f, S) = f[First(S)] + Sum(f, S \ {First(S)})
  <2> DEFINE T == S \ {First(S)}
  <2>1. T \in SUBSET S
    OBVIOUS
  <2>2. Sums(f, S, It(S)) /\ Sums(f, T, It(T)) /\ Sum(f, S) = It(S)[S] /\ Sum(f, T) = It(T)[T]
    BY <1>1, <2>1
  <2> HIDE DEF It
  <2>3. It(S)[T] = It(T)[T]
    BY <2>1, <2>2, SumsAgree
  <2>4. It(S)[S] = f[First(S)] + It(S)[T]
    BY <1>4, <2>2 DEF Sums
  <2> QED
    BY <2>2, <2>3, <2>4
<1> QED
  BY <1>2, <1>3, <1>4

\* The sum does not depend on the order.
LEMMA SumAny ==
  ASSUME NEW f, NEW S, IsFiniteSet(S), \A x \in S : f[x] \in Nat, NEW e \in S
  PROVE  Sum(f, S) = f[e] + Sum(f, S \ {e})
<1> DEFINE Bad == {s \in SUBSET S : \E x \in s : Sum(f, s) # f[x] + Sum(f, s \ {x})}
<1>1. \A s \in SUBSET S : IsFiniteSet(s) /\ Sum(f, s) \in Nat
  BY FS_Subset, SumFirst
<1>2. \A s \in SUBSET S : s # {} => Sum(f, s) = f[First(s)] + Sum(f, s \ {First(s)}) /\ First(s) \in s
  BY <1>1, SumFirst, FirstIsIn
<1>3. ASSUME Bad # {}
      PROVE  FALSE
  <2>1. Bad \in SUBSET SUBSET S
    OBVIOUS
  <2>2. PICK s \in Bad : \A u \in Bad : u \subseteq s => u = s
    <3> HIDE DEF Bad
    <3> QED
      BY <1>3, <2>1, SmallestSubset
  <2>3. PICK x \in s : Sum(f, s) # f[x] + Sum(f, s \ {x})
    OBVIOUS
  <2> DEFINE y == First(s)
  <2>4. y \in s /\ y # x /\ Sum(f, s) = f[y] + Sum(f, s \ {y})
    BY <1>2, <2>3
  <2>5. s \ {y} \notin Bad /\ s \ {x} \notin Bad
    BY <2>2, <2>3, <2>4
  <2> HIDE DEF y
  <2>6. Sum(f, s \ {y}) = f[x] + Sum(f, (s \ {y}) \ {x})
    BY <2>3, <2>4, <2>5
  <2>7. Sum(f, s \ {x}) = f[y] + Sum(f, (s \ {x}) \ {y})
    BY <2>3, <2>4, <2>5
  <2>8. (s \ {x}) \ {y} = (s \ {y}) \ {x}
    OBVIOUS
  <2>9. f[x] \in Nat /\ f[y] \in Nat /\ Sum(f, (s \ {y}) \ {x}) \in Nat
    BY <1>1, <2>3, <2>4
  <2>10. Sum(f, s \ {x}) = f[y] + Sum(f, (s \ {y}) \ {x})
    BY <2>7, <2>8
  <2>11. \A a, b, c \in Nat : a + (b + c) = b + (a + c)
    OBVIOUS
  <2> QED
    BY <2>3, <2>4, <2>6, <2>9, <2>10, <2>11
<1>4. S \notin Bad
  BY <1>3
<1> QED
  BY <1>4

\* Nothing, or one element.
LEMMA SumOfNone ==
  ASSUME NEW f
  PROVE  Sum(f, {}) = 0
BY SumFirst, FS_EmptySet

LEMMA SumOfOne ==
  ASSUME NEW f, NEW x, f[x] \in Nat
  PROVE  Sum(f, {x}) = f[x]
<1>1. IsFiniteSet({x}) /\ {x} \ {x} = {}
  BY FS_Singleton
<1>2. Sum(f, {x}) = f[x] + Sum(f, {x} \ {x})
  BY <1>1, SumAny
<1> QED
  BY <1>1, <1>2, SumOfNone

\* A sum depends on the summands only.
LEMMA SumSame ==
  ASSUME NEW S, IsFiniteSet(S), NEW f, NEW g, \A x \in S : f[x] \in Nat /\ f[x] = g[x]
  PROVE  Sum(f, S) = Sum(g, S)
<1> DEFINE Bad == {s \in SUBSET S : Sum(f, s) # Sum(g, s)}
<1>1. Bad \in SUBSET SUBSET S
  OBVIOUS
<1>2. ASSUME NEW s \in Bad, \A u \in Bad : u \subseteq s => u = s
      PROVE  FALSE
  <2>1. IsFiniteSet(s)
    BY FS_Subset
  <2>2. s # {}
    BY SumOfNone
  <2>3. PICK e \in s : TRUE
    BY <2>2
  <2>4. Sum(f, s) = f[e] + Sum(f, s \ {e}) /\ Sum(g, s) = g[e] + Sum(g, s \ {e})
    BY <2>1, SumAny
  <2>5. Sum(f, s \ {e}) = Sum(g, s \ {e})
    BY <1>2
  <2> QED
    BY <2>4, <2>5
<1>3. Bad = {}
  <2> HIDE DEF Bad
  <2> QED
    BY <1>1, <1>2, SmallestSubset
<1> QED
  BY <1>3

\* Disjoint sets are summed one after the other.
LEMMA SumUnion ==
  ASSUME NEW S, IsFiniteSet(S), NEW T, IsFiniteSet(T), S \cap T = {}, NEW f, \A x \in S \cup T : f[x] \in Nat
  PROVE  Sum(f, S \cup T) = Sum(f, S) + Sum(f, T)
<1> DEFINE Bad == {s \in SUBSET S : Sum(f, s \cup T) # Sum(f, s) + Sum(f, T)}
<1>1. Bad \in SUBSET SUBSET S
  OBVIOUS
<1>2. ASSUME NEW s \in Bad, \A u \in Bad : u \subseteq s => u = s
      PROVE  FALSE
  <2>1. IsFiniteSet(s) /\ IsFiniteSet(s \cup T)
    BY FS_Subset, FS_Union
  <2>2. Sum(f, T) \in Nat
    BY SumFirst
  <2>3. s # {}
    BY <2>2, SumOfNone
  <2>4. PICK e \in s : TRUE
    BY <2>3
  <2>5. Sum(f, s) = f[e] + Sum(f, s \ {e}) /\ Sum(f, s \cup T) = f[e] + Sum(f, (s \cup T) \ {e})
    BY <2>1, SumAny
  <2>6. (s \cup T) \ {e} = (s \ {e}) \cup T
    OBVIOUS
  <2>7. Sum(f, (s \ {e}) \cup T) = Sum(f, s \ {e}) + Sum(f, T)
    BY <1>2
  <2>8. f[e] \in Nat /\ Sum(f, s \ {e}) \in Nat
    BY <2>1, FS_RemoveElement, SumFirst
  <2>9. \A a, b, c \in Nat : a + (b + c) = (a + b) + c
    OBVIOUS
  <2>10. Sum(f, s \cup T) = f[e] + (Sum(f, s \ {e}) + Sum(f, T))
    BY <2>5, <2>6, <2>7
  <2>11. Sum(f, s) + Sum(f, T) = (f[e] + Sum(f, s \ {e})) + Sum(f, T)
    BY <2>5
  <2> QED
    BY <2>2, <2>8, <2>9, <2>10, <2>11
<1>3. Bad = {}
  <2> HIDE DEF Bad
  <2> QED
    BY <1>1, <1>2, SmallestSubset
<1> QED
  BY <1>3

\* Fewer elements do not sum to more.
LEMMA SumSubset ==
  ASSUME NEW S, IsFiniteSet(S), NEW T \in SUBSET S, NEW f, \A x \in S : f[x] \in Nat
  PROVE  Sum(f, T) <= Sum(f, S)
<1>1. IsFiniteSet(T) /\ IsFiniteSet(S \ T) /\ S = T \cup (S \ T) /\ T \cap (S \ T) = {}
  BY FS_Subset, FS_Difference
<1>2. Sum(f, S) = Sum(f, T) + Sum(f, S \ T)
  BY <1>1, SumUnion
<1>3. Sum(f, T) \in Nat /\ Sum(f, S \ T) \in Nat
  BY <1>1, SumFirst
<1> QED
  BY <1>2, <1>3

\* A sum of several is at least each, and is nothing if each is nothing.
LEMMA SumPositive ==
  ASSUME NEW S, IsFiniteSet(S), NEW f, \A x \in S : f[x] \in Nat
  PROVE  Sum(f, S) > 0 <=> \E x \in S : f[x] > 0
<1>1. ASSUME NEW x \in S
      PROVE  f[x] <= Sum(f, S)
  <2>1. Sum(f, S) = f[x] + Sum(f, S \ {x})
    BY SumAny
  <2>2. Sum(f, S \ {x}) \in Nat
    BY FS_RemoveElement, SumFirst
  <2> QED
    BY <2>1, <2>2
<1>2. Sum(f, S) \in Nat
  BY SumFirst
<1>3. ASSUME \A x \in S : f[x] = 0
      PROVE  Sum(f, S) = 0
  <2> DEFINE Bad == {s \in SUBSET S : Sum(f, s) # 0}
  <2>1. Bad \in SUBSET SUBSET S
    OBVIOUS
  <2>2. ASSUME NEW s \in Bad, \A u \in Bad : u \subseteq s => u = s
        PROVE  FALSE
    <3>1. IsFiniteSet(s)
      BY FS_Subset
    <3>2. s # {}
      BY SumOfNone
    <3>3. PICK e \in s : TRUE
      BY <3>2
    <3>4. Sum(f, s) = f[e] + Sum(f, s \ {e})
      BY <3>1, SumAny
    <3>5. Sum(f, s \ {e}) = 0
      BY <2>2
    <3> QED
      BY <1>3, <3>4, <3>5
  <2>3. Bad = {}
    <3> HIDE DEF Bad
    <3> QED
      BY <2>1, <2>2, SmallestSubset
  <2> QED
    BY <2>3
<1> QED
  BY <1>1, <1>2, <1>3

\* Counting is a sum of ones.
LEMMA SumOfOnes ==
  ASSUME NEW S, IsFiniteSet(S), NEW f, \A x \in S : f[x] = 1
  PROVE  Sum(f, S) = Cardinality(S)
<1> DEFINE Bad == {s \in SUBSET S : Sum(f, s) # Cardinality(s)}
<1>1. Bad \in SUBSET SUBSET S
  OBVIOUS
<1>2. ASSUME NEW s \in Bad, \A u \in Bad : u \subseteq s => u = s
      PROVE  FALSE
  <2>1. IsFiniteSet(s)
    BY FS_Subset
  <2>2. s # {}
    BY SumOfNone, FS_EmptySet
  <2>3. PICK e \in s : TRUE
    BY <2>2
  <2>4. Sum(f, s) = f[e] + Sum(f, s \ {e})
    BY <2>1, SumAny
  <2>5. Sum(f, s \ {e}) = Cardinality(s \ {e})
    BY <1>2
  <2>6. Cardinality(s \ {e}) = Cardinality(s) - 1 /\ Cardinality(s) \in Nat
    BY <2>1, FS_RemoveElement, FS_CardinalityType
  <2> QED
    BY <2>4, <2>5, <2>6
<1>3. Bad = {}
  <2> HIDE DEF Bad
  <2> QED
    BY <1>1, <1>2, SmallestSubset
<1> QED
  BY <1>3

\* What one summand gains the sum gains.
LEMMA SumBump ==
  ASSUME NEW K, IsFiniteSet(K), NEW k \in K, NEW a \in Nat,
         NEW f, NEW g, \A x \in K : f[x] \in Nat,
         \A x \in K : x # k => g[x] = f[x], g[k] = a + f[k]
  PROVE  Sum(g, K) = a + Sum(f, K)
<1>1. IsFiniteSet(K \ {k})
  BY FS_RemoveElement
<1>2. Sum(f, K) = f[k] + Sum(f, K \ {k})
  BY SumAny
<1>3. \A x \in K : g[x] \in Nat
  OBVIOUS
<1>4. Sum(g, K) = g[k] + Sum(g, K \ {k})
  BY <1>3, SumAny
<1>5. Sum(g, K \ {k}) = Sum(f, K \ {k}) /\ Sum(f, K \ {k}) \in Nat
  BY <1>1, SumSame, SumFirst
<1> QED
  BY <1>2, <1>4, <1>5

\* What falls to a key, and its sums key by key.
Part(s, h, k) == {x \in s : h[x] = k}
Parts(f, s, h, K) == [k \in K |-> Sum(f, Part(s, h, k))]

\* What is summed part by part is summed once.
LEMMA SumParts ==
  ASSUME NEW S, IsFiniteSet(S), NEW f, \A x \in S : f[x] \in Nat,
         NEW K, IsFiniteSet(K), NEW h, \A x \in S : h[x] \in K
  PROVE  Sum(Parts(f, S, h, K), K) = Sum(f, S)
<1> DEFINE Bad == {s \in SUBSET S : Sum(Parts(f, s, h, K), K) # Sum(f, s)}
<1>1. Bad \in SUBSET SUBSET S
  OBVIOUS
<1>2. ASSUME NEW s \in SUBSET S, NEW k \in K
      PROVE  Parts(f, s, h, K)[k] = Sum(f, Part(s, h, k)) /\ Sum(f, Part(s, h, k)) \in Nat
  <2>1. IsFiniteSet(Part(s, h, k)) /\ Part(s, h, k) \in SUBSET S
    BY FS_Subset DEF Part
  <2> QED
    BY <2>1, SumFirst DEF Parts
<1>3. Sum(Parts(f, {}, h, K), K) = 0
  <2>1. \A k \in K : Parts(f, {}, h, K)[k] = 0
    BY SumOfNone DEF Parts, Part
  <2>2. \A k \in K : Parts(f, {}, h, K)[k] \in Nat
    BY <2>1
  <2> DEFINE none == Parts(f, {}, h, K)
  <2> HIDE DEF none
  <2>3. Sum(none, K) \in Nat
    BY <2>2, SumFirst DEF none
  <2>4. ~(Sum(none, K) > 0)
    BY <2>1, <2>2, SumPositive DEF none
  <2> QED
    BY <2>3, <2>4 DEF none
<1>4. ASSUME NEW s \in Bad, \A u \in Bad : u \subseteq s => u = s
      PROVE  FALSE
  <2>1. IsFiniteSet(s)
    BY FS_Subset
  <2>2. s # {}
    BY <1>3, SumOfNone
  <2>3. PICK e \in s : TRUE
    BY <2>2
  <2> DEFINE r == s \ {e}
  <2>4. Sum(f, s) = f[e] + Sum(f, r)
    BY <2>1, SumAny
  <2>5. Sum(Parts(f, r, h, K), K) = Sum(f, r)
    BY <1>4
  <2>6. h[e] \in K /\ f[e] \in Nat
    OBVIOUS
  <2>7. ASSUME NEW k \in K, k # h[e]
        PROVE  Parts(f, s, h, K)[k] = Parts(f, r, h, K)[k]
    <3>1. Part(s, h, k) = Part(r, h, k)
      BY <2>7 DEF Part
    <3> QED
      BY <3>1, <2>7 DEF Parts
  <2>8. Parts(f, s, h, K)[h[e]] = f[e] + Parts(f, r, h, K)[h[e]]
    <3>1. Part(s, h, h[e]) \ {e} = Part(r, h, h[e]) /\ e \in Part(s, h, h[e])
      BY DEF Part
    <3>2. IsFiniteSet(Part(s, h, h[e])) /\ \A x \in Part(s, h, h[e]) : f[x] \in Nat
      BY <2>1, FS_Subset DEF Part
    <3> DEFINE part == Part(s, h, h[e])
    <3> HIDE DEF part
    <3>3. Sum(f, part) = f[e] + Sum(f, part \ {e})
      BY <3>1, <3>2, SumAny DEF part
    <3> QED
      BY <2>6, <3>1, <3>3 DEF Parts, part
  <2>9. \A k \in K : Parts(f, r, h, K)[k] \in Nat
    BY <1>2
  <2> DEFINE before == Parts(f, r, h, K)
             after == Parts(f, s, h, K)
  <2>10. Sum(after, K) = f[e] + Sum(before, K)
    <3> HIDE DEF before, after
    <3>1. /\ \A k \in K : before[k] \in Nat
          /\ \A k \in K : k # h[e] => after[k] = before[k]
          /\ after[h[e]] = f[e] + before[h[e]]
      BY <2>7, <2>8, <2>9 DEF before, after
    <3> QED
      BY <2>6, <3>1, SumBump
  <2> QED
    BY <2>4, <2>5, <2>10
<1>5. Bad = {}
  <2> HIDE DEF Bad
  <2> QED
    BY <1>1, <1>4, SmallestSubset
<1> QED
  BY <1>5

\* The sum of a column over rows, when each row is told from the others by what it is a row of.
LEMMA SumOfRows ==
  ASSUME NEW K, IsFiniteSet(K), NEW row, NEW S, \A k \in K : row[k] \in S, \A x \in S : \E k \in K : x = row[k],
         NEW h, \A k \in K : h[row[k]] = k,
         NEW f, NEW g, \A k \in K : f[row[k]] \in Nat /\ g[k] = f[row[k]]
  PROVE  Sum(f, S) = Sum(g, K)
<1>1. IsFiniteSet(S)
  <2>1. S = {row[k] : k \in K}
    OBVIOUS
  <2> QED
    BY <2>1, ImageIsFinite
<1>2. \A x \in S : f[x] \in Nat /\ h[x] \in K
  OBVIOUS
<1> DEFINE parts == Parts(f, S, h, K)
<1>3. ASSUME NEW k \in K
      PROVE  parts[k] = g[k] /\ parts[k] \in Nat
  <2>1. Part(S, h, k) = {row[k]}
    BY DEF Part
  <2>2. Sum(f, {row[k]}) = f[row[k]]
    BY SumOfOne
  <2> QED
    BY <2>1, <2>2 DEF Parts
<1> HIDE DEF parts
<1>4. Sum(parts, K) = Sum(g, K)
  BY <1>3, SumSame
<1>5. Sum(parts, K) = Sum(f, S)
  BY <1>1, <1>2, SumParts DEF parts
<1> QED
  BY <1>4, <1>5

\* Amounts by key.
LEMMA SumByKey ==
  ASSUME NEW S, IsFiniteSet(S), NEW f, \A x \in S : f[x] \in Nat,
         NEW K, IsFiniteSet(K), NEW h, \A x \in S : h[x] \in K,
         NEW g, \A k \in K : g[k] = Sum(f, Part(S, h, k))
  PROVE  Sum(g, K) = Sum(f, S)
<1> DEFINE parts == Parts(f, S, h, K)
<1>1. ASSUME NEW k \in K
      PROVE  parts[k] = g[k] /\ parts[k] \in Nat
  <2>1. IsFiniteSet(Part(S, h, k)) /\ \A x \in Part(S, h, k) : f[x] \in Nat
    BY FS_Subset DEF Part
  <2> QED
    BY <2>1, SumFirst DEF Parts
<1> HIDE DEF parts
<1>2. Sum(parts, K) = Sum(g, K)
  BY <1>1, SumSame
<1> QED
  BY <1>2, SumParts DEF parts

\* Counts by key.
LEMMA CountByKey ==
  ASSUME NEW S, IsFiniteSet(S), NEW K, IsFiniteSet(K), NEW h, \A x \in S : h[x] \in K,
         NEW g, \A k \in K : g[k] = Cardinality(Part(S, h, k))
  PROVE  Sum(g, K) = Cardinality(S)
<1> DEFINE ones == [x \in S |-> 1]
<1>1. \A x \in S : ones[x] = 1
  OBVIOUS
<1> HIDE DEF ones
<1>2. ASSUME NEW k \in K
      PROVE  g[k] = Sum(ones, Part(S, h, k))
  <2>1. IsFiniteSet(Part(S, h, k)) /\ \A x \in Part(S, h, k) : ones[x] = 1
    BY <1>1, FS_Subset DEF Part
  <2> QED
    BY <2>1, SumOfOnes
<1>3. Sum(ones, S) = Cardinality(S)
  BY <1>1, SumOfOnes
<1>4. Sum(g, K) = Sum(ones, S)
  BY <1>1, <1>2, SumByKey
<1> QED
  BY <1>3, <1>4

\* The sums of Metrics are of functions over their whole domain.
LEMMA TableIsSum ==
  ASSUME NEW F, NEW S, DOMAIN F = S
  PROVE  SumFunction(F) = Sum(F, S)
  BY DEF SumFunction, Sum

-----------------------------------------------------------------------------
(* The types.                                                              *)

LEMMA MetricsTypesBegin == MetricsInit => MetricsTypeOK
<1> SUFFICES ASSUME MetricsInit PROVE MetricsTypeOK
  OBVIOUS
<1>1. 1 \in Days
  BY MetricsAssumption DEF Days
<1> QED
  BY <1>1 DEF MetricsInit, MetricsTypeOK, NULL

\* Ads are of accounts that exist.
LEMMA AccountOfAdIsAccount == \A ad \in Ads : AccountOfAd(ad) \in Accounts
  BY MetricsAssumption DEF AccountOfAd

\* A step that changes leads alone.
LEMMA LeadsKeepTypes ==
  ASSUME MetricsTypeOK, NEW ls \in SUBSET LeadRow,
         UNCHANGED <<today, crm, account, deals, insights>>, leads' = ls,
         \A l, m \in ls : l.id = m.id => l = m,
         \A l \in ls : l.ad # MISSING => account[AccountOfAd(l.ad)] # NULL
  PROVE  MetricsTypeOK'
  BY DEF MetricsTypeOK

\* Step by step.
LEMMA StoreLeadKeepsTypes ==
  ASSUME MetricsTypeOK, NEW id \in Leads, NEW contact \in LeadContacts[id], NEW day \in Days,
         StoreLead(id, contact, day)
  PROVE  MetricsTypeOK'
<1> DEFINE new == [id |-> id, contact |-> contact, day |-> day, ad |-> MISSING, status |-> "UNMATCHED"]
<1>1. new \in LeadRow
  BY MetricsAssumption DEF LeadRow
<1>2. new.id = id /\ new.ad = MISSING
  OBVIOUS
<1>3. leads' = leads \cup {new} /\ \A l \in leads : l.id # id
  BY DEF StoreLead
<1>4. UNCHANGED <<today, crm, account, deals, insights>>
  BY DEF StoreLead
<1> HIDE DEF new
<1>5. leads \cup {new} \in SUBSET LeadRow
  BY <1>1 DEF MetricsTypeOK
<1>6. \A l, m \in leads \cup {new} : l.id = m.id => l = m
  BY <1>2, <1>3 DEF MetricsTypeOK
<1>7. \A l \in leads \cup {new} : l.ad # MISSING => account[AccountOfAd(l.ad)] # NULL
  BY <1>2 DEF MetricsTypeOK
<1> QED
  BY <1>3, <1>4, <1>5, <1>6, <1>7, LeadsKeepTypes

LEMMA MatchLeadKeepsTypes ==
  ASSUME MetricsTypeOK, NEW l \in leads, NEW ad \in Ads, NEW status \in {"REVIEW", "MATCHED"},
         MatchLead(l, ad, status)
  PROVE  MetricsTypeOK'
<1> DEFINE new == [l EXCEPT !.ad = ad, !.status = status]
<1>1. l \in LeadRow
  BY DEF MetricsTypeOK
<1>2. new \in LeadRow
  BY <1>1 DEF LeadRow
<1>3. new.id = l.id /\ new.ad = ad
  BY <1>1 DEF LeadRow
<1>4. leads' = (leads \ {l}) \cup {new} /\ account[AccountOfAd(ad)] # NULL
  BY DEF MatchLead
<1>5. UNCHANGED <<today, crm, account, deals, insights>>
  BY DEF MatchLead
<1> HIDE DEF new
<1> DEFINE ls == (leads \ {l}) \cup {new}
<1>6. ls \in SUBSET LeadRow
  BY <1>2 DEF MetricsTypeOK
<1>7. \A x, y \in ls : x.id = y.id => x = y
  BY <1>3 DEF MetricsTypeOK
<1>8. \A x \in ls : x.ad # MISSING => account[AccountOfAd(x.ad)] # NULL
  BY <1>3, <1>4 DEF MetricsTypeOK
<1> QED
  BY <1>4, <1>5, <1>6, <1>7, <1>8, LeadsKeepTypes

LEMMA StoreDealKeepsTypes ==
  ASSUME MetricsTypeOK, NEW id \in Deals, NEW contact \in DealContacts[id], NEW day \in Days,
         NEW canonical \in {"LEAD", "QUALIFIED", "WON"}, StoreDeal(id, contact, day, canonical)
  PROVE  MetricsTypeOK'
<1> DEFINE new == [id |-> id, contact |-> contact, day |-> day, canonical |-> canonical]
<1>1. new \in DealRow /\ new.id = id
  BY MetricsAssumption DEF DealRow
<1>2. deals' = {d \in deals : d.id # id} \cup {new}
  BY DEF StoreDeal
<1>3. UNCHANGED <<today, crm, account, leads, insights>>
  BY DEF StoreDeal
<1> HIDE DEF new
<1>4. deals' \subseteq DealRow
  BY <1>1, <1>2 DEF MetricsTypeOK
<1>5. \A d, e \in deals' : d.id = e.id => d = e
  BY <1>1, <1>2 DEF MetricsTypeOK
<1> QED
  BY <1>3, <1>4, <1>5 DEF MetricsTypeOK

LEMMA StoreInsightKeepsTypes ==
  ASSUME MetricsTypeOK, NEW ad \in Ads, NEW day \in Days, StoreInsight(ad, day)
  PROVE  MetricsTypeOK'
<1> DEFINE new == [ad |-> ad, day |-> day, spend |-> 1]
<1>1. new \in InsightRow /\ new.ad = ad
  BY DEF InsightRow
<1>2. insights' = insights \cup {new} /\ account[AccountOfAd(ad)] # NULL
  BY DEF StoreInsight
<1>3. UNCHANGED <<today, crm, account, leads, deals>>
  BY DEF StoreInsight
<1> HIDE DEF new
<1> QED
  BY <1>1, <1>2, <1>3 DEF MetricsTypeOK

LEMMA RemoveAccountKeepsTypes ==
  ASSUME MetricsTypeOK, NEW acc \in Accounts, RemoveAccount(acc)
  PROVE  MetricsTypeOK'
<1> DEFINE Cut(l) == [l EXCEPT !.ad = IF l.ad # MISSING /\ AccountOfAd(l.ad) = acc THEN MISSING ELSE l.ad]
<1>1. /\ account' = [account EXCEPT ![acc] = NULL]
      /\ insights' = {i \in insights : AccountOfAd(i.ad) # acc}
      /\ leads' = {Cut(l) : l \in leads}
      /\ UNCHANGED <<today, crm, deals>>
  BY DEF RemoveAccount
<1>2. ASSUME NEW l \in leads
      PROVE  /\ Cut(l) \in LeadRow /\ Cut(l).id = l.id
             /\ Cut(l).ad # MISSING => Cut(l).ad = l.ad /\ AccountOfAd(l.ad) # acc
  <2>1. l \in LeadRow
    BY DEF MetricsTypeOK
  <2>2. (IF l.ad # MISSING /\ AccountOfAd(l.ad) = acc THEN MISSING ELSE l.ad) \in Ads \cup {MISSING}
    BY <2>1 DEF LeadRow
  <2> QED
    BY <2>1, <2>2 DEF LeadRow
<1> HIDE DEF Cut
<1>3. /\ account' \in [Accounts -> {NULL} \cup 1..today]
      /\ \A a \in Accounts : a # acc => account'[a] = account[a]
  BY <1>1 DEF MetricsTypeOK
<1>4. leads' \subseteq LeadRow
  BY <1>1, <1>2
<1>5. \A l, m \in leads' : l.id = m.id => l = m
  BY <1>1, <1>2 DEF MetricsTypeOK
<1>6. \A l \in leads' : l.ad # MISSING => account'[AccountOfAd(l.ad)] # NULL
  <2>1. ASSUME NEW l \in leads, Cut(l).ad # MISSING
        PROVE  account'[AccountOfAd(Cut(l).ad)] # NULL
    <3>1. l.ad \in Ads /\ AccountOfAd(l.ad) # acc /\ Cut(l).ad = l.ad
      BY <1>2, <2>1 DEF MetricsTypeOK, LeadRow
    <3>2. account[AccountOfAd(l.ad)] # NULL
      BY <3>1, <2>1 DEF MetricsTypeOK
    <3> QED
      BY <1>3, <3>1, <3>2, AccountOfAdIsAccount
  <2> QED
    BY <1>1, <2>1
<1>7. \A i \in insights' : account'[AccountOfAd(i.ad)] # NULL
  BY <1>1, <1>3, AccountOfAdIsAccount DEF MetricsTypeOK, InsightRow
<1> QED
  BY <1>1, <1>3, <1>4, <1>5, <1>6, <1>7 DEF MetricsTypeOK

LEMMA ConnectAccountKeepsTypes ==
  ASSUME MetricsTypeOK, NEW acc \in Accounts, ConnectAccount(acc)
  PROVE  MetricsTypeOK'
<1>1. /\ account' = [account EXCEPT ![acc] = today]
      /\ UNCHANGED <<today, crm, leads, deals, insights>>
  BY DEF ConnectAccount
<1>2. today \in 1..today /\ today # NULL
  BY MetricsAssumption DEF MetricsTypeOK, Days, NULL
<1>3. account' \in [Accounts -> {NULL} \cup 1..today]
  BY <1>1, <1>2 DEF MetricsTypeOK
<1>4. \A a \in Accounts : account[a] # NULL => account'[a] # NULL
  BY <1>1, <1>2 DEF MetricsTypeOK
<1>5. \A l \in leads : l.ad # MISSING => account'[AccountOfAd(l.ad)] # NULL
  BY <1>4, AccountOfAdIsAccount DEF MetricsTypeOK, LeadRow
<1>6. \A i \in insights : account'[AccountOfAd(i.ad)] # NULL
  BY <1>4, AccountOfAdIsAccount DEF MetricsTypeOK, InsightRow
<1> QED
  BY <1>1, <1>3, <1>5, <1>6 DEF MetricsTypeOK

LEMMA MetricsTypesStep == MetricsTypeOK /\ [MetricsNext]_metricsVars => MetricsTypeOK'
<1> SUFFICES ASSUME MetricsTypeOK, [MetricsNext]_metricsVars PROVE MetricsTypeOK'
  OBVIOUS
<1>1. CASE NextDay
  <2>1. today' \in Days /\ 1..today \subseteq 1..today'
    BY <1>1, MetricsAssumption DEF NextDay, MetricsTypeOK, Days
  <2>2. UNCHANGED <<crm, account, leads, deals, insights>>
    BY <1>1 DEF NextDay
  <2>3. crm' \in {NULL} \cup 1..today' /\ account' \in [Accounts -> {NULL} \cup 1..today']
    BY <2>1, <2>2 DEF MetricsTypeOK
  <2> QED
    BY <2>1, <2>2, <2>3 DEF MetricsTypeOK
<1>2. CASE ConnectCrm \/ RemoveCrm
  <2>1. UNCHANGED <<today, account, leads, deals, insights>> /\ crm' \in {NULL, today}
    BY <1>2 DEF ConnectCrm, RemoveCrm
  <2>2. today \in 1..today
    BY MetricsAssumption DEF MetricsTypeOK, Days
  <2> QED
    BY <2>1, <2>2 DEF MetricsTypeOK
<1>3. CASE \E acc \in Accounts : ConnectAccount(acc) \/ RemoveAccount(acc)
  BY <1>3, ConnectAccountKeepsTypes, RemoveAccountKeepsTypes
<1>4. CASE \E ad \in Ads, day \in Days : StoreInsight(ad, day)
  BY <1>4, StoreInsightKeepsTypes
<1>5. CASE \E id \in Leads : \E contact \in LeadContacts[id], day \in Days : StoreLead(id, contact, day)
  BY <1>5, StoreLeadKeepsTypes
<1>6. CASE \E l \in leads, ad \in Ads, status \in {"REVIEW", "MATCHED"} : MatchLead(l, ad, status)
  BY <1>6, MatchLeadKeepsTypes
<1>7. CASE \E id \in Deals : \E contact \in DealContacts[id], day \in Days,
               canonical \in {"LEAD", "QUALIFIED", "WON"} : StoreDeal(id, contact, day, canonical)
  BY <1>7, StoreDealKeepsTypes
<1>8. CASE UNCHANGED metricsVars
  BY <1>8 DEF metricsVars, MetricsTypeOK
<1> QED
  BY <1>1, <1>2, <1>3, <1>4, <1>5, <1>6, <1>7, <1>8 DEF MetricsNext

\* The tables a report meets have their types: a row per lead and deal, an ad of a lead and an insight
\* only of an account that is connected (Lead, Deal, AdInsightDaily and the rules of deletion).
THEOREM MetricsTypes == MetricsSpec => []MetricsTypeOK
  BY MetricsTypesBegin, MetricsTypesStep, PTL DEF MetricsSpec

\* The tables are finite, which the sums need.
FiniteTables == IsFiniteSet(leads) /\ IsFiniteSet(deals) /\ IsFiniteSet(insights)

\* A step stores one row at most.
LEMMA FiniteTablesStep == FiniteTables /\ [MetricsNext]_metricsVars => FiniteTables'
<1> SUFFICES ASSUME FiniteTables, [MetricsNext]_metricsVars PROVE FiniteTables'
  OBVIOUS
<1>1. ASSUME NEW acc \in Accounts, RemoveAccount(acc)
      PROVE  FiniteTables'
  <2> DEFINE cut == [l \in leads |-> [l EXCEPT !.ad = IF @ # MISSING /\ AccountOfAd(@) = acc THEN MISSING ELSE @]]
  <2>1. leads' = {cut[l] : l \in leads}
    BY <1>1 DEF RemoveAccount
  <2> HIDE DEF cut
  <2>2. IsFiniteSet(leads')
    BY <2>1, ImageIsFinite DEF FiniteTables
  <2>3. insights' \in SUBSET insights /\ deals' = deals
    BY <1>1 DEF RemoveAccount
  <2> QED
    BY <2>2, <2>3, FS_Subset DEF FiniteTables
<1>2. ASSUME NEW ad \in Ads, NEW day \in Days, StoreInsight(ad, day)
      PROVE  FiniteTables'
  BY <1>2, FS_AddElement DEF StoreInsight, FiniteTables
<1>3. ASSUME NEW id \in Leads, NEW contact \in LeadContacts[id], NEW day \in Days, StoreLead(id, contact, day)
      PROVE  FiniteTables'
  BY <1>3, FS_AddElement DEF StoreLead, FiniteTables
<1>4. ASSUME NEW l \in leads, NEW ad \in Ads, NEW status \in {"REVIEW", "MATCHED"}, MatchLead(l, ad, status)
      PROVE  FiniteTables'
  <2>1. PICK new : leads' = (leads \ {l}) \cup {new}
    BY <1>4 DEF MatchLead
  <2>2. IsFiniteSet(leads')
    BY <2>1, FS_RemoveElement, FS_AddElement DEF FiniteTables
  <2> QED
    BY <1>4, <2>2 DEF MatchLead, FiniteTables
<1>5. ASSUME NEW id \in Deals, NEW contact \in DealContacts[id], NEW day \in Days,
             NEW canonical \in {"LEAD", "QUALIFIED", "WON"}, StoreDeal(id, contact, day, canonical)
      PROVE  FiniteTables'
  <2> DEFINE others == {d \in deals : d.id # id}
  <2>1. PICK new : deals' = others \cup {new}
    BY <1>5 DEF StoreDeal
  <2>2. IsFiniteSet(others)
    BY FS_Subset DEF FiniteTables
  <2>3. IsFiniteSet(deals')
    BY <2>1, <2>2, FS_AddElement
  <2> QED
    BY <1>5, <2>3 DEF StoreDeal, FiniteTables
<1>6. ASSUME NEW acc \in Accounts, ConnectAccount(acc)
      PROVE  FiniteTables'
  BY <1>6 DEF ConnectAccount, FiniteTables
<1>7. CASE NextDay \/ ConnectCrm \/ RemoveCrm \/ UNCHANGED metricsVars
  BY <1>7 DEF NextDay, ConnectCrm, RemoveCrm, metricsVars, FiniteTables
<1> QED
  BY <1>1, <1>2, <1>3, <1>4, <1>5, <1>6, <1>7 DEF MetricsNext

\* The tables stay finite: a step stores one row at most.
LEMMA TablesAreFinite == MetricsSpec => []FiniteTables
<1>1. MetricsInit => FiniteTables
  BY FS_EmptySet DEF MetricsInit, FiniteTables
<1> QED
  BY <1>1, FiniteTablesStep, PTL DEF MetricsSpec

\* The days and the floors are numbers.
LEMMA NumbersOfMetrics ==
  ASSUME MetricsTypeOK
  PROVE  /\ today \in Nat /\ crm \in Nat /\ Days \subseteq Nat
         /\ \A a \in Accounts : account[a] \in Nat
         /\ \A from \in Nat : from \in 1..today => from \in Days
  BY MetricsAssumption DEF MetricsTypeOK, Days, NULL

-----------------------------------------------------------------------------
(* The floors.                                                             *)

\* The earliest connection, or none.
LEMMA FloorsAreNumbers ==
  ASSUME MetricsTypeOK
  PROVE  CrmFloor \in Nat /\ MetaFloor \in Nat
<1> DEFINE connected == {account[a] : a \in Accounts} \ {NULL}
<1>1. connected \in SUBSET Nat
  BY NumbersOfMetrics
<1>2. MetaFloor = IF connected = {} THEN NULL ELSE Min(connected)
  BY DEF MetaFloor
<1> HIDE DEF connected
<1>3. CASE connected = {}
  BY <1>2, <1>3, NumbersOfMetrics DEF NULL, CrmFloor
<1>4. CASE connected # {}
  <2>1. \E x \in connected : \A y \in connected : x =< y
    BY <1>1, <1>4, LeastNumber
  <2>2. Min(connected) \in connected
    BY <2>1 DEF Min
  <2> QED
    BY <1>1, <1>2, <1>4, <2>2, NumbersOfMetrics DEF CrmFloor
<1> QED
  BY <1>3, <1>4

\* A query that filters by the floor again finds the same rows.
LEMMA FloorOnce ==
  ASSUME NEW rows, NEW floor \in Nat, NEW from \in Nat, NEW to \in Nat, \A row \in rows : row.day \in Nat
  PROVE  Within(Since(rows, floor), LaterOf(from, floor), to) = Within(rows, LaterOf(from, floor), to)
  BY DEF Within, Since, LaterOf

\* What each query of the reports finds in the tables and in those rows of them that count.
LEMMA SameRows ==
  ASSUME MetricsTypeOK, NEW range \in Ranges
  PROVE  /\ CohortLeads(Database, range) = CohortLeads(Counted, range)
         /\ LeadsInRange(Database, range) = LeadsInRange(Counted, range)
         /\ Within(Database.insights, LaterOf(range.from, MetaFloor), range.to)
              = Within(Counted.insights, LaterOf(range.from, MetaFloor), range.to)
<1>1. range.from \in Nat /\ range.to \in Nat
  BY NumbersOfMetrics DEF Ranges
<1>2. \A row \in leads \cup insights : row.day \in Nat
  BY NumbersOfMetrics DEF MetricsTypeOK, LeadRow, InsightRow
<1>3. /\ Database.leads = leads /\ Database.insights = insights
      /\ Counted.leads = {l \in Since(leads, CrmFloor) : l.status = "MATCHED"}
      /\ Counted.insights = Since(insights, MetaFloor)
  BY DEF Database, Counted
<1>4. Within(Since(leads, CrmFloor), LaterOf(range.from, CrmFloor), range.to)
        = Within(leads, LaterOf(range.from, CrmFloor), range.to)
  BY <1>1, <1>2, FloorsAreNumbers, FloorOnce
<1>5. Within(Since(insights, MetaFloor), LaterOf(range.from, MetaFloor), range.to)
        = Within(insights, LaterOf(range.from, MetaFloor), range.to)
  BY <1>1, <1>2, FloorsAreNumbers, FloorOnce
<1>6. CohortLeads(Database, range) = CohortLeads(Counted, range)
  BY <1>3, <1>4 DEF CohortLeads, Within
<1>7. LeadsInRange(Database, range) = LeadsInRange(Counted, range)
  BY <1>3, <1>4 DEF LeadsInRange, Within
<1> QED
  BY <1>3, <1>5, <1>6, <1>7

\* The same of the deals of those leads and of their touches.
LEMMA SameDealsAndTouches ==
  /\ \A contacts : DealsOf(Database, contacts) = DealsOf(Counted, contacts)
  /\ Touches(Database) = Touches(Counted)
<1>1. /\ Database.leads = leads /\ Database.deals = deals
      /\ Counted.leads = {l \in Since(leads, CrmFloor) : l.status = "MATCHED"}
      /\ Counted.deals = Since(deals, CrmFloor)
  BY DEF Database, Counted
<1>2. \A contacts : DealsOf(Database, contacts) = DealsOf(Counted, contacts)
  BY <1>1 DEF DealsOf, Since
<1>3. Touches(Database) = Touches(Counted)
  BY <1>1 DEF Touches, Since
<1> QED
  BY <1>2, <1>3

\* Connections that were removed and made again leave rows from before the floor behind, matching leaves
\* guesses: every query of every report leaves them out, for any tables and ranges (connectionFloors,
\* laterOf and the status in each where clause).
THEOREM MetricsOnlyConnectedDataCounts == MetricsSpec => []OnlyConnectedDataCounts
<1>1. ASSUME MetricsTypeOK, NEW range \in Ranges
      PROVE  Cohorts(Database, range) = Cohorts(Counted, range)
  <2>1. ASSUME NEW week
        PROVE  Vintage(Database, range, week) = Vintage(Counted, range, week)
    BY <1>1, SameRows DEF Vintage
  <2>2. ASSUME NEW week
        PROVE  CohortRow(Database, range, week) = CohortRow(Counted, range, week)
    <3>1. DealsOf(Database, Vintage(Database, range, week)) = DealsOf(Counted, Vintage(Counted, range, week))
      BY <2>1, SameDealsAndTouches
    <3> QED
      BY <1>1, <2>1, <3>1, SameRows DEF CohortRow
  <2> QED
    BY <2>2 DEF Cohorts
<1>2. \A model : Credits(Database, model) = Credits(Counted, model)
  BY SameDealsAndTouches DEF Credits
<1>3. ASSUME MetricsTypeOK, NEW range \in Ranges, NEW credit
      PROVE  Performance(Database, range, credit) = Performance(Counted, range, credit)
  <2>1. LeadsInRange(Database, range) = LeadsInRange(Counted, range)
    BY <1>3, SameRows
  <2>2. DealsOf(Database, ContactsOf(LeadsInRange(Database, range)))
          = DealsOf(Counted, ContactsOf(LeadsInRange(Counted, range)))
    BY <2>1, SameDealsAndTouches
  <2>3. Sales(Database, range, credit) = Sales(Counted, range, credit)
    BY <2>2 DEF Sales
  <2>4. ASSUME NEW node
        PROVE  PerformanceRow(Database, range, credit, node) = PerformanceRow(Counted, range, credit, node)
    BY <1>3, <2>1, <2>2, <2>3, SameRows DEF PerformanceRow
  <2> QED
    BY <2>4 DEF Performance
<1>4. MetricsTypeOK => OnlyConnectedDataCounts
  BY <1>1, <1>2, <1>3 DEF OnlyConnectedDataCounts
<1> QED
  BY <1>4, MetricsTypes, PTL

-----------------------------------------------------------------------------
(* Performance, summed over a level of the tree of ads.                    *)

\* The rows the columns of the performance report count: in all, and under a node.
QualifiedIn(range) == Qualified(DealsOf(Database, ContactsOf(LeadsInRange(Database, range))))
QualifiedLeads(range) == {l \in LeadsInRange(Database, range) : l.contact \in QualifiedIn(range)}
InsightsIn(range) == Within(insights, LaterOf(range.from, MetaFloor), range.to)

SalesIn(range, credit) == Sales(Database, range, credit)
SpendUnder(range, n) == {i \in InsightsIn(range) : n \in Above(i.ad)}
LeadsUnder(range, n) == {l \in LeadsInRange(Database, range) : n \in Above(l.ad)}
QualifiedUnder(range, n) == {l \in QualifiedLeads(range) : n \in Above(l.ad)}
SalesUnder(range, credit, n) == {d \in SalesIn(range, credit) : n \in Above(credit[d.contact])}

\* What the columns of a node count.
LEMMA PerformanceColumns ==
  ASSUME NEW range, NEW credit, NEW n
  PROVE  /\ PerformanceRow(Database, range, credit, n).id = n
         /\ PerformanceRow(Database, range, credit, n)["spend"] = SpendSum(SpendUnder(range, n))
         /\ PerformanceRow(Database, range, credit, n)["leads"] = Cardinality(LeadsUnder(range, n))
         /\ PerformanceRow(Database, range, credit, n)["qualifiedLeads"] = Cardinality(QualifiedUnder(range, n))
         /\ PerformanceRow(Database, range, credit, n)["sales"] = Cardinality(SalesUnder(range, credit, n))
         /\ PerformanceRow(Database, range, credit, n)["revenue"] = AmountSum(SalesUnder(range, credit, n))
<1>1. {l \in {l \in LeadsInRange(Database, range) : n \in Above(l.ad)} : l.contact \in QualifiedIn(range)}
        = QualifiedUnder(range, n)
  BY DEF QualifiedLeads, QualifiedUnder
<1>2. Database.insights = insights
  BY DEF Database
<1> QED
  BY <1>1, <1>2 DEF PerformanceRow, QualifiedIn, InsightsIn, SpendUnder, LeadsUnder, SalesUnder, SalesIn

\* Money is added up by the sums above.
LEMMA SpendSumIsSum ==
  ASSUME NEW S, IsFiniteSet(S), \A i \in S : i.spend \in Nat, NEW T \in SUBSET S,
         NEW f, \A i \in S : f[i] = i.spend
  PROVE  SpendSum(T) = Sum(f, T) /\ SpendSum(T) \in Nat
<1> DEFINE g == [i \in T |-> i.spend]
<1>1. SpendSum(T) = Sum(g, T)
  BY TableIsSum DEF SpendSum
<1>2. IsFiniteSet(T) /\ \A i \in T : g[i] \in Nat /\ g[i] = f[i]
  BY FS_Subset
<1> HIDE DEF g
<1>3. Sum(g, T) = Sum(f, T)
  BY <1>2, SumSame
<1>4. Sum(g, T) \in Nat
  BY <1>2, SumFirst
<1> QED
  BY <1>1, <1>3, <1>4

LEMMA AmountSumIsSum ==
  ASSUME NEW S, IsFiniteSet(S), \A d \in S : d.id \in Deals, NEW T \in SUBSET S,
         NEW f, \A d \in S : f[d] = Amount[d.id]
  PROVE  AmountSum(T) = Sum(f, T) /\ AmountSum(T) \in Nat /\ \A d \in S : f[d] \in Nat
<1> DEFINE g == [d \in T |-> Amount[d.id]]
<1>1. AmountSum(T) = Sum(g, T)
  BY TableIsSum DEF AmountSum
<1>2. IsFiniteSet(T) /\ \A d \in T : g[d] \in Nat /\ g[d] = f[d]
  BY FS_Subset, MetricsAssumption
<1>3. \A d \in S : f[d] \in Nat
  BY MetricsAssumption
<1> HIDE DEF g
<1>4. Sum(g, T) = Sum(f, T)
  BY <1>2, SumSame
<1>5. Sum(g, T) \in Nat
  BY <1>2, SumFirst
<1> QED
  BY <1>1, <1>3, <1>4, <1>5

\* What the queries return is finite and has its types.
LEMMA RowsFound ==
  ASSUME MetricsTypeOK, FiniteTables, NEW range \in Ranges
  PROVE  /\ IsFiniteSet(InsightsIn(range)) /\ IsFiniteSet(LeadsInRange(Database, range))
         /\ IsFiniteSet(QualifiedLeads(range)) /\ IsFiniteSet(CohortLeads(Database, range))
         /\ \A i \in InsightsIn(range) : i.ad \in Ads /\ i.spend \in Nat /\ i.day \in Days
         /\ \A l \in LeadsInRange(Database, range) : l.ad \in Ads
         /\ \A l \in CohortLeads(Database, range) : l.day \in Days
         /\ LeadsInRange(Database, range) \subseteq CohortLeads(Database, range)
         /\ QualifiedLeads(range) \subseteq LeadsInRange(Database, range)
<1>1. Database.leads = leads
  BY DEF Database
<1>2. InsightsIn(range) \in SUBSET insights
  BY DEF InsightsIn, Within
<1>3. /\ LeadsInRange(Database, range) \in SUBSET leads
      /\ \A l \in LeadsInRange(Database, range) : l.ad # MISSING
  BY <1>1 DEF LeadsInRange, Within
<1>4. CohortLeads(Database, range) \in SUBSET leads
  BY <1>1 DEF CohortLeads, Within
<1>5. QualifiedLeads(range) \in SUBSET leads /\ QualifiedLeads(range) \subseteq LeadsInRange(Database, range)
  BY <1>3 DEF QualifiedLeads
<1>6. LeadsInRange(Database, range) \subseteq CohortLeads(Database, range)
  BY DEF LeadsInRange, CohortLeads
<1>7. \A i \in insights : i.ad \in Ads /\ i.spend \in Nat /\ i.day \in Days
  BY DEF MetricsTypeOK, InsightRow
<1>8. \A l \in leads : l.ad \in Ads \cup {MISSING} /\ l.day \in Days
  BY DEF MetricsTypeOK, LeadRow
<1>9. /\ IsFiniteSet(InsightsIn(range)) /\ IsFiniteSet(LeadsInRange(Database, range))
      /\ IsFiniteSet(QualifiedLeads(range)) /\ IsFiniteSet(CohortLeads(Database, range))
  BY <1>2, <1>3, <1>4, <1>5, FS_Subset DEF FiniteTables
<1> QED
  BY <1>2, <1>3, <1>4, <1>5, <1>6, <1>7, <1>8, <1>9

\* The same of deals.
LEMMA DealsFound ==
  ASSUME MetricsTypeOK, FiniteTables, NEW contacts
  PROVE  /\ IsFiniteSet(DealsOf(Database, contacts)) /\ IsFiniteSet(Won(DealsOf(Database, contacts)))
         /\ \A d \in DealsOf(Database, contacts) : d.id \in Deals /\ d.contact \in contacts
         /\ Won(DealsOf(Database, contacts)) \subseteq DealsOf(Database, contacts)
<1>1. DealsOf(Database, contacts) \in SUBSET deals
  BY DEF Database, DealsOf, Since
<1>2. Won(DealsOf(Database, contacts)) \in SUBSET deals
  BY <1>1 DEF Won
<1>3. \A d \in deals : d.id \in Deals
  BY DEF MetricsTypeOK, DealRow
<1> QED
  BY <1>1, <1>2, <1>3, FS_Subset DEF FiniteTables, DealsOf, Won

\* A level of the tree of ads: each ad counts for one node of it.
IsLevel(N, up) ==
  /\ IsFiniteSet(N)
  /\ \A ad \in Ads : up[ad] \in N /\ \A n \in N : n \in Above(ad) <=> up[ad] = n

\* Ads are a level, and campaigns are.
LEMMA AdsAreALevel == IsLevel(Ads, [ad \in Ads |-> ad])
  BY MetricsAssumption DEF IsLevel, Above

LEMMA CampaignsAreALevel == IsLevel(Campaigns, [ad \in Ads |-> CampaignOf[AdSetOf[ad]]])
  BY MetricsAssumption DEF IsLevel, Above

\* What a report makes of all its rows together.
Whole(range, sales) ==
  [spend |-> SpendSum(InsightsIn(range)), leads |-> Cardinality(LeadsInRange(Database, range)),
   qualifiedLeads |-> Cardinality(QualifiedLeads(range)), sales |-> Cardinality(sales),
   revenue |-> AmountSum(sales)]

\* A column over the nodes of a level.
RowsOf(range, credit, N, c) == [n \in N |-> PerformanceRow(Database, range, credit, n)[c]]

\* Each column of a row counts what is under its node.
LEMMA ColumnsOfRows ==
  ASSUME NEW range, NEW credit, NEW N, NEW n \in N
  PROVE  /\ RowsOf(range, credit, N, "spend")[n] = SpendSum(SpendUnder(range, n))
         /\ RowsOf(range, credit, N, "leads")[n] = Cardinality(LeadsUnder(range, n))
         /\ RowsOf(range, credit, N, "qualifiedLeads")[n] = Cardinality(QualifiedUnder(range, n))
         /\ RowsOf(range, credit, N, "sales")[n] = Cardinality(SalesUnder(range, credit, n))
         /\ RowsOf(range, credit, N, "revenue")[n] = AmountSum(SalesUnder(range, credit, n))
  BY PerformanceColumns DEF RowsOf

\* Column by column: what the nodes of a level count makes up the whole.
LEMMA LevelSpend ==
  ASSUME MetricsTypeOK, FiniteTables, NEW range \in Ranges, NEW credit, NEW N, NEW up, IsLevel(N, up)
  PROVE  /\ Sum(RowsOf(range, credit, N, "spend"), N) = SpendSum(InsightsIn(range))
         /\ \A n \in N : RowsOf(range, credit, N, "spend")[n] \in Nat
<1> DEFINE S == InsightsIn(range)
           f == [i \in S |-> i.spend]
           h == [i \in S |-> up[i.ad]]
           g == RowsOf(range, credit, N, "spend")
<1>1. IsFiniteSet(S) /\ \A i \in S : i.ad \in Ads /\ i.spend \in Nat
  BY RowsFound
<1>2. \A i \in S : f[i] = i.spend /\ h[i] = up[i.ad]
  OBVIOUS
<1>3. ASSUME NEW n \in N
      PROVE  g[n] = SpendSum(SpendUnder(range, n))
  BY ColumnsOfRows
<1> HIDE DEF S, f, h, g
<1>4. ASSUME NEW n \in N
      PROVE  g[n] = Sum(f, Part(S, h, n)) /\ g[n] \in Nat
  <2>1. SpendUnder(range, n) = Part(S, h, n)
    BY <1>1, <1>2 DEF IsLevel, Part, SpendUnder, S
  <2>2. Part(S, h, n) \in SUBSET S
    BY DEF Part
  <2>3. SpendSum(Part(S, h, n)) = Sum(f, Part(S, h, n)) /\ SpendSum(Part(S, h, n)) \in Nat
    BY <1>1, <1>2, <2>2, SpendSumIsSum
  <2> QED
    BY <1>3, <2>1, <2>3
<1>5. IsFiniteSet(N) /\ \A i \in S : h[i] \in N /\ f[i] \in Nat
  BY <1>1, <1>2 DEF IsLevel
<1>6. Sum(g, N) = Sum(f, S)
  BY <1>1, <1>4, <1>5, SumByKey
<1>7. S \in SUBSET S
  OBVIOUS
<1>8. SpendSum(S) = Sum(f, S)
  BY <1>1, <1>2, <1>7, SpendSumIsSum
<1> QED
  BY <1>4, <1>6, <1>8 DEF S, g

\* What counts for a node.
Under(S, adOf, n) == {x \in S : n \in Above(adOf[x])}

\* Any of the counts: rows that are credited to ads by some function.
LEMMA LevelCount ==
  ASSUME NEW S, IsFiniteSet(S), NEW adOf, \A x \in S : adOf[x] \in Ads,
         NEW N, NEW up, IsLevel(N, up),
         NEW g, \A n \in N : g[n] = Cardinality(Under(S, adOf, n))
  PROVE  Sum(g, N) = Cardinality(S) /\ \A n \in N : g[n] \in Nat
<1> DEFINE h == [x \in S |-> up[adOf[x]]]
<1>1. \A x \in S : h[x] = up[adOf[x]]
  OBVIOUS
<1> HIDE DEF h
<1>2. \A x \in S : h[x] \in N
  BY <1>1 DEF IsLevel
<1>3. ASSUME NEW n \in N
      PROVE  g[n] = Cardinality(Part(S, h, n)) /\ g[n] \in Nat
  <2>1. Under(S, adOf, n) = Part(S, h, n)
    BY <1>1 DEF IsLevel, Part, Under
  <2>2. IsFiniteSet(Part(S, h, n))
    BY FS_Subset DEF Part
  <2> QED
    BY <2>1, <2>2, FS_CardinalityType
<1>4. IsFiniteSet(N)
  BY DEF IsLevel
<1> QED
  BY <1>2, <1>3, <1>4, CountByKey

LEMMA LevelLeads ==
  ASSUME MetricsTypeOK, FiniteTables, NEW range \in Ranges, NEW credit, NEW N, NEW up, IsLevel(N, up)
  PROVE  /\ Sum(RowsOf(range, credit, N, "leads"), N) = Cardinality(LeadsInRange(Database, range))
         /\ Sum(RowsOf(range, credit, N, "qualifiedLeads"), N) = Cardinality(QualifiedLeads(range))
         /\ \A n \in N : /\ RowsOf(range, credit, N, "leads")[n] \in Nat
                         /\ RowsOf(range, credit, N, "qualifiedLeads")[n] \in Nat
<1> DEFINE S == LeadsInRange(Database, range)
           Q == QualifiedLeads(range)
           adOf == [l \in S |-> l.ad]
           g == RowsOf(range, credit, N, "leads")
           q == RowsOf(range, credit, N, "qualifiedLeads")
<1>1. IsFiniteSet(S) /\ IsFiniteSet(Q) /\ Q \subseteq S /\ \A l \in S : adOf[l] = l.ad /\ adOf[l] \in Ads
  BY RowsFound
<1>2. ASSUME NEW n \in N
      PROVE  /\ g[n] = Cardinality(LeadsUnder(range, n))
             /\ q[n] = Cardinality(QualifiedUnder(range, n))
  BY ColumnsOfRows
<1> HIDE DEF S, Q, adOf, g, q
<1>3. ASSUME NEW n \in N
      PROVE  g[n] = Cardinality(Under(S, adOf, n)) /\ q[n] = Cardinality(Under(Q, adOf, n))
  <2>1. LeadsUnder(range, n) = Under(S, adOf, n) /\ QualifiedUnder(range, n) = Under(Q, adOf, n)
    BY <1>1 DEF Under, LeadsUnder, QualifiedUnder, S, Q
  <2> QED
    BY <1>2, <2>1
<1>4. Sum(g, N) = Cardinality(S) /\ \A n \in N : g[n] \in Nat
  BY <1>1, <1>3, LevelCount
<1>5. \A l \in Q : adOf[l] \in Ads
  BY <1>1
<1>6. Sum(q, N) = Cardinality(Q) /\ \A n \in N : q[n] \in Nat
  BY <1>1, <1>3, <1>5, LevelCount
<1> QED
  BY <1>4, <1>6 DEF S, Q, g, q

LEMMA LevelSales ==
  ASSUME MetricsTypeOK, FiniteTables, NEW range \in Ranges, NEW N, NEW up, IsLevel(N, up),
         NEW credit, \A d \in SalesIn(range, credit) : credit[d.contact] \in Ads
  PROVE  /\ Sum(RowsOf(range, credit, N, "sales"), N) = Cardinality(SalesIn(range, credit))
         /\ Sum(RowsOf(range, credit, N, "revenue"), N) = AmountSum(SalesIn(range, credit))
         /\ \A n \in N : /\ RowsOf(range, credit, N, "sales")[n] \in Nat
                         /\ RowsOf(range, credit, N, "revenue")[n] \in Nat
<1> DEFINE S == SalesIn(range, credit)
           adOf == [d \in S |-> credit[d.contact]]
           f == [d \in S |-> Amount[d.id]]
           h == [d \in S |-> up[credit[d.contact]]]
           g == RowsOf(range, credit, N, "sales")
           r == RowsOf(range, credit, N, "revenue")
<1>1. IsFiniteSet(S) /\ \A d \in S : d.id \in Deals
  <2>1. S \in SUBSET Won(DealsOf(Database, ContactsOf(LeadsInRange(Database, range))))
    BY DEF SalesIn, Sales
  <2> QED
    BY <2>1, DealsFound, FS_Subset
<1>2. \A d \in S : /\ adOf[d] = credit[d.contact] /\ adOf[d] \in Ads /\ f[d] = Amount[d.id]
                   /\ h[d] = up[credit[d.contact]]
  OBVIOUS
<1>3. ASSUME NEW n \in N
      PROVE  /\ g[n] = Cardinality(SalesUnder(range, credit, n))
             /\ r[n] = AmountSum(SalesUnder(range, credit, n))
  BY ColumnsOfRows
<1> HIDE DEF S, adOf, f, h, g, r
<1>4. ASSUME NEW n \in N
       PROVE  g[n] = Cardinality(Under(S, adOf, n))
  <2>1. SalesUnder(range, credit, n) = Under(S, adOf, n)
    BY <1>2 DEF Under, SalesUnder, S
  <2> QED
    BY <1>3, <2>1
<1>5. \A d \in S : adOf[d] \in Ads
  BY <1>2
<1>6. Sum(g, N) = Cardinality(S) /\ \A n \in N : g[n] \in Nat
  BY <1>1, <1>4, <1>5, LevelCount
<1>7. ASSUME NEW n \in N
      PROVE  r[n] = Sum(f, Part(S, h, n)) /\ r[n] \in Nat
  <2>1. SalesUnder(range, credit, n) = Part(S, h, n)
    BY <1>2 DEF IsLevel, Part, SalesUnder, S
  <2>2. Part(S, h, n) \in SUBSET S
    BY DEF Part
  <2>3. AmountSum(Part(S, h, n)) = Sum(f, Part(S, h, n)) /\ AmountSum(Part(S, h, n)) \in Nat
    BY <1>1, <1>2, <2>2, AmountSumIsSum
  <2> QED
    BY <1>3, <2>1, <2>3
<1>8. IsFiniteSet(N) /\ \A d \in S : h[d] \in N
  BY <1>2 DEF IsLevel
<1>9. S \in SUBSET S
  OBVIOUS
<1>10. AmountSum(S) = Sum(f, S) /\ \A d \in S : f[d] \in Nat
  BY <1>1, <1>2, <1>9, AmountSumIsSum
<1>11. Sum(r, N) = Sum(f, S)
  BY <1>1, <1>7, <1>8, <1>10, SumByKey
<1> QED
  BY <1>6, <1>7, <1>10, <1>11 DEF S, g, r

\* All columns.
LEMMA LevelTotals ==
  ASSUME MetricsTypeOK, FiniteTables, NEW range \in Ranges, NEW N, NEW up, IsLevel(N, up),
         NEW credit, \A d \in SalesIn(range, credit) : credit[d.contact] \in Ads, NEW c \in Columns
  PROVE  /\ Sum(RowsOf(range, credit, N, c), N) = Whole(range, SalesIn(range, credit))[c]
         /\ \A n \in N : RowsOf(range, credit, N, c)[n] \in Nat
<1>1. CASE c = "spend"
  BY <1>1, LevelSpend DEF Whole
<1>2. CASE c = "leads"
  BY <1>2, LevelLeads DEF Whole
<1>3. CASE c = "qualifiedLeads"
  BY <1>3, LevelLeads DEF Whole
<1>4. CASE c = "sales" \/ c = "revenue"
  BY <1>4, LevelSales DEF Whole
<1> QED
  BY <1>1, <1>2, <1>4, <1>3 DEF Columns

RowsOfLevel(range, credit, N) == {row \in Performance(Database, range, credit) : row.id \in N}

\* So the rows of a level add up to the whole.
LEMMA TotalOfLevel ==
  ASSUME MetricsTypeOK, FiniteTables, NEW range \in Ranges, NEW N \in SUBSET Nodes, NEW up, IsLevel(N, up),
         NEW credit, \A d \in SalesIn(range, credit) : credit[d.contact] \in Ads, NEW c \in Columns
  PROVE  /\ Total(RowsOfLevel(range, credit, N), c) = Whole(range, SalesIn(range, credit))[c]
         /\ IsFiniteSet(RowsOfLevel(range, credit, N))
         /\ \A row \in RowsOfLevel(range, credit, N) : row[c] \in Nat
<1> DEFINE S == RowsOfLevel(range, credit, N)
           row == [n \in N |-> PerformanceRow(Database, range, credit, n)]
           f == [x \in S |-> x[c]]
           h == [x \in S |-> x.id]
           g == RowsOf(range, credit, N, c)
<1>1. \A n \in N : row[n] = PerformanceRow(Database, range, credit, n) /\ row[n].id = n
  BY PerformanceColumns
<1>2. S = {row[n] : n \in N}
  <2>1. Performance(Database, range, credit) = {PerformanceRow(Database, range, credit, n) : n \in Nodes}
    BY DEF Performance
  <2>2. \A n \in Nodes : PerformanceRow(Database, range, credit, n).id = n
    BY PerformanceColumns
  <2>3. ASSUME NEW x
        PROVE  x \in S <=> \E n \in N : x = row[n]
    <3> HIDE DEF row
    <3> QED
      BY <1>1, <2>1, <2>2 DEF RowsOfLevel
  <2> HIDE DEF S, row
  <2> QED
    BY <2>3
<1>3. Total(S, c) = Sum(f, S)
  BY TableIsSum DEF Total
<1>4. \A x \in S : f[x] = x[c] /\ h[x] = x.id
  OBVIOUS
<1>5. \A n \in N : g[n] = row[n][c]
  BY DEF RowsOf
<1>6. (\A n \in N : g[n] \in Nat) /\ Sum(g, N) = Whole(range, SalesIn(range, credit))[c] /\ IsFiniteSet(N)
  BY LevelTotals DEF IsLevel
<1> HIDE DEF S, row, f, h, g
<1>7. \A n \in N : h[row[n]] = n /\ f[row[n]] \in Nat /\ g[n] = f[row[n]]
  BY <1>1, <1>2, <1>4, <1>5, <1>6
<1>8. (\A n \in N : row[n] \in S) /\ (\A x \in S : \E n \in N : x = row[n])
  BY <1>2
<1>9. Sum(f, S) = Sum(g, N)
  BY <1>6, <1>7, <1>8, SumOfRows
<1>10. IsFiniteSet(S) /\ \A x \in S : x[c] \in Nat
  BY <1>2, <1>4, <1>6, <1>7, ImageIsFinite
<1> QED
  BY <1>3, <1>6, <1>9, <1>10 DEF S

\* Credit of a deal that counts goes to an ad, and which deals count does not depend on the model.
LEMMA CreditsGoToAds ==
  ASSUME NEW range, NEW model, NEW credit \in Credits(Database, model)
  PROVE  /\ \A d \in SalesIn(range, credit) : credit[d.contact] \in Ads
         /\ DOMAIN credit = {l.contact : l \in Touches(Database)}
  BY DEF Credits, SalesIn, Sales

LEMMA TotalOfCampaigns ==
  ASSUME MetricsTypeOK, FiniteTables, NEW range \in Ranges, NEW model, NEW credit \in Credits(Database, model),
         NEW c \in Columns
  PROVE  Total(Top(Performance(Database, range, credit)), c) = Whole(range, SalesIn(range, credit))[c]
<1>1. Top(Performance(Database, range, credit)) = RowsOfLevel(range, credit, Campaigns)
  BY DEF Top, RowsOfLevel
<1>2. Campaigns \in SUBSET Nodes
  BY DEF Nodes
<1> QED
  BY <1>1, <1>2, CreditsGoToAds, CampaignsAreALevel, TotalOfLevel

\* Credit for the first touch or for the last, a report has the same sums over its campaigns: which deals count
\* depends on who was touched and on the range, and each counts for one ad (contactAd, addUp).
THEOREM MetricsModelsAgree == MetricsSpec => []ModelsAgree
<1>1. ASSUME MetricsTypeOK, FiniteTables
      PROVE  ModelsAgree
  <2>1. SUFFICES ASSUME NEW range \in Ranges, NEW first \in Credits(Database, "FIRST_TOUCH"),
                        NEW last \in Credits(Database, "LAST_TOUCH"), NEW c \in Columns
                 PROVE  Total(Top(Performance(Database, range, first)), c)
                          = Total(Top(Performance(Database, range, last)), c)
    BY DEF ModelsAgree
  <2>2. SalesIn(range, first) = SalesIn(range, last)
    BY CreditsGoToAds DEF SalesIn, Sales
  <2> QED
    BY <1>1, <2>2, TotalOfCampaigns
<1> QED
  BY <1>1, TablesAreFinite, MetricsTypes, PTL

-----------------------------------------------------------------------------
(* The creatives.                                                          *)

Tags == {TagOf[ad] : ad \in Ads}
RowsOfTag(rows, t) == {row \in rows : row.id \in Ads /\ TagOf[row.id] = t}
Creative(rows, t) == [tag |-> t, sum |-> [c \in Columns |-> Total(RowsOfTag(rows, t), c)]]

\* Tags divide the ads, so the creatives sum up to the whole as well.
LEMMA TotalOfCreatives ==
  ASSUME MetricsTypeOK, FiniteTables, NEW range \in Ranges, NEW model, NEW credit \in Credits(Database, model),
         NEW c \in Columns
  PROVE  SumFunction([creative \in CreativeInsights(Performance(Database, range, credit)) |-> creative.sum[c]])
           = Whole(range, SalesIn(range, credit))[c]
<1> DEFINE rows == Performance(Database, range, credit)
           S == RowsOfLevel(range, credit, Ads)
           f == [x \in S |-> x[c]]
           h == [x \in S |-> TagOf[x.id]]
           creative == [t \in Tags |-> Creative(rows, t)]
           C == CreativeInsights(rows)
           F == [x \in C |-> x.sum[c]]
           H == [x \in C |-> x.tag]
           g == [t \in Tags |-> Total(RowsOfTag(rows, t), c)]
<1>1. /\ Total(S, c) = Whole(range, SalesIn(range, credit))[c]
      /\ IsFiniteSet(S) /\ \A x \in S : x[c] \in Nat
  <2>1. Ads \in SUBSET Nodes
    BY DEF Nodes
  <2> QED
    BY <2>1, CreditsGoToAds, AdsAreALevel, TotalOfLevel
<1>2. IsFiniteSet(Tags)
  BY MetricsAssumption, ImageIsFinite DEF Tags
<1>3. Total(S, c) = Sum(f, S)
  BY TableIsSum DEF Total
<1>4. \A x \in S : f[x] = x[c] /\ h[x] = TagOf[x.id] /\ h[x] \in Tags
  BY DEF RowsOfLevel, Tags
<1>5. ASSUME NEW t \in Tags
      PROVE  g[t] = Sum(f, Part(S, h, t)) /\ g[t] \in Nat
  <2> DEFINE T == RowsOfTag(rows, t)
             e == [x \in T |-> x[c]]
  <2>1. T = Part(S, h, t)
    BY DEF RowsOfTag, RowsOfLevel, Part
  <2>2. T \in SUBSET S
    BY DEF RowsOfTag, RowsOfLevel
  <2>3. g[t] = Sum(e, T)
    BY TableIsSum DEF Total
  <2>4. \A x \in T : e[x] = x[c]
    OBVIOUS
  <2> HIDE DEF T, e, S, f, h, g
  <2>5. IsFiniteSet(T) /\ \A x \in T : e[x] \in Nat /\ e[x] = f[x]
    BY <1>1, <1>4, <2>2, <2>4, FS_Subset
  <2>6. Sum(e, T) = Sum(f, T)
    BY <2>5, SumSame
  <2>7. Sum(e, T) \in Nat
    BY <2>5, SumFirst
  <2> QED
    BY <2>1, <2>3, <2>6, <2>7
<1>6. C = {creative[t] : t \in Tags}
  BY DEF CreativeInsights, Creative, RowsOfTag, Tags
<1>7. \A t \in Tags : creative[t].tag = t /\ creative[t].sum[c] = g[t]
  BY DEF Creative
<1>8. SumFunction(F) = Sum(F, C)
  BY TableIsSum
<1>9. \A x \in C : F[x] = x.sum[c] /\ H[x] = x.tag
  OBVIOUS
<1> HIDE DEF rows, S, f, h, creative, C, F, H, g
<1>10. (\A t \in Tags : creative[t] \in C) /\ (\A x \in C : \E t \in Tags : x = creative[t])
  BY <1>6
<1>11. \A t \in Tags : H[creative[t]] = t /\ F[creative[t]] \in Nat /\ g[t] = F[creative[t]]
  BY <1>5, <1>7, <1>9, <1>10
<1>12. Sum(F, C) = Sum(g, Tags)
  BY <1>2, <1>10, <1>11, SumOfRows
<1>13. \A x \in S : f[x] \in Nat /\ h[x] \in Tags
  BY <1>1, <1>4
<1>14. Sum(g, Tags) = Sum(f, S)
  BY <1>1, <1>2, <1>5, <1>13, SumByKey
<1> QED
  BY <1>1, <1>3, <1>8, <1>12, <1>14 DEF F, C, rows

-----------------------------------------------------------------------------
(* The weeks.                                                              *)

\* The weeks of the run.
Weeks == {WeekOf(day) : day \in Days}
\* The rows the columns of a week count, and those of all weeks.
InsightsOfWeek(range, w) == {i \in InsightsIn(range) : WeekOf(i.day) = w}
LeadsOfWeek(range, w) == {l \in CohortLeads(Database, range) : WeekOf(l.day) = w}
SalesOfWeek(range, w) == Won(DealsOf(Database, Vintage(Database, range, w)))
QualifiedOfWeek(range, w) ==
  Vintage(Database, range, w) \cap Qualified(DealsOf(Database, Vintage(Database, range, w)))
CohortSales(range) == Won(DealsOf(Database, ContactsOf(CohortLeads(Database, range))))

WholeOfWeeks(range) ==
  [spend |-> SpendSum(InsightsIn(range)), leads |-> Cardinality(CohortLeads(Database, range)),
   sales |-> Cardinality(CohortSales(range)), revenue |-> AmountSum(CohortSales(range))]

\* What the columns of a week count.
LEMMA CohortColumns ==
  ASSUME NEW range, NEW w
  PROVE  /\ CohortRow(Database, range, w).week = w
         /\ CohortRow(Database, range, w)["spend"] = SpendSum(InsightsOfWeek(range, w))
         /\ CohortRow(Database, range, w)["leads"] = Cardinality(LeadsOfWeek(range, w))
         /\ CohortRow(Database, range, w)["qualifiedLeads"] = Cardinality(QualifiedOfWeek(range, w))
         /\ CohortRow(Database, range, w)["sales"] = Cardinality(SalesOfWeek(range, w))
         /\ CohortRow(Database, range, w)["revenue"] = AmountSum(SalesOfWeek(range, w))
<1>1. Database.insights = insights
  BY DEF Database
<1> QED
  BY <1>1 DEF CohortRow, InsightsIn, InsightsOfWeek, LeadsOfWeek, QualifiedOfWeek, SalesOfWeek

LEMMA WeeksAreFinite == IsFiniteSet(Weeks)
<1> DEFINE week == [day \in Days |-> WeekOf(day)]
<1>1. Weeks = {week[day] : day \in Days}
  BY DEF Weeks
<1>2. IsFiniteSet(Days)
  BY MetricsAssumption, FS_Interval DEF Days
<1> HIDE DEF week
<1> QED
  BY <1>1, <1>2, ImageIsFinite

\* A contact is of one vintage: the week of its earliest lead.
LEMMA OneVintage ==
  ASSUME MetricsTypeOK, FiniteTables, NEW range \in Ranges
  PROVE  /\ \A k \in ContactsOf(CohortLeads(Database, range)) :
              \E w \in Weeks : k \in Vintage(Database, range, w)
         /\ \A w, v, k : k \in Vintage(Database, range, w) /\ k \in Vintage(Database, range, v) => w = v
         /\ \A w : Vintage(Database, range, w) \subseteq ContactsOf(LeadsOfWeek(range, w))
         /\ \A w : Vintage(Database, range, w) \subseteq ContactsOf(CohortLeads(Database, range))
<1> DEFINE rows == CohortLeads(Database, range)
           Earliest(l) == \A y \in rows : y.contact = l.contact => l.day <= y.day
<1>1. \A l \in rows : l.day \in Days /\ l.day \in Nat
  BY RowsFound, NumbersOfMetrics
<1>2. \A w, k : k \in Vintage(Database, range, w) <=>
        k # MISSING /\ \E l \in rows : l.contact = k /\ WeekOf(l.day) = w /\ Earliest(l)
  BY DEF Vintage
<1>3. ASSUME NEW k \in ContactsOf(rows)
      PROVE  \E w \in Weeks : k \in Vintage(Database, range, w)
  <2> DEFINE days == {l.day : l \in {x \in rows : x.contact = k}}
  <2>1. days \in SUBSET Nat /\ days # {}
    BY <1>1 DEF ContactsOf
  <2>2. PICK day \in days : \A other \in days : day <= other
    <3> HIDE DEF days
    <3> QED
      BY <2>1, LeastNumber
  <2>3. PICK l \in rows : l.contact = k /\ l.day = day
    OBVIOUS
  <2>4. Earliest(l)
    BY <2>2, <2>3
  <2>5. WeekOf(l.day) \in Weeks
    BY <1>1 DEF Weeks
  <2>6. k # MISSING
    BY DEF ContactsOf
  <2> HIDE DEF Earliest, rows
  <2> QED
    BY <1>2, <2>3, <2>4, <2>5, <2>6
<1>4. ASSUME NEW w, NEW v, NEW k, k \in Vintage(Database, range, w), k \in Vintage(Database, range, v)
      PROVE  w = v
  <2>1. PICK l \in rows : l.contact = k /\ WeekOf(l.day) = w /\ Earliest(l)
    BY <1>2, <1>4
  <2>2. PICK m \in rows : m.contact = k /\ WeekOf(m.day) = v /\ Earliest(m)
    BY <1>2, <1>4
  <2>3. l.day <= m.day /\ m.day <= l.day
    BY <2>1, <2>2
  <2>4. l.day = m.day
    BY <1>1, <2>3
  <2> QED
    BY <2>1, <2>2, <2>4
<1>5. ASSUME NEW w, NEW k \in Vintage(Database, range, w)
      PROVE  k \in ContactsOf(LeadsOfWeek(range, w)) /\ k \in ContactsOf(rows)
  <2>1. PICK l \in rows : k # MISSING /\ l.contact = k /\ WeekOf(l.day) = w
    BY <1>2
  <2> QED
    BY <2>1 DEF ContactsOf, LeadsOfWeek
<1> QED
  BY <1>3, <1>4, <1>5

WeekRows(range, c) == [w \in Weeks |-> CohortRow(Database, range, w)[c]]

\* Column by column: what the weeks count makes up the whole.
LEMMA WeeksSpend ==
  ASSUME MetricsTypeOK, FiniteTables, NEW range \in Ranges
  PROVE  /\ Sum(WeekRows(range, "spend"), Weeks) = SpendSum(InsightsIn(range))
         /\ \A w \in Weeks : WeekRows(range, "spend")[w] \in Nat
<1> DEFINE S == InsightsIn(range)
           f == [i \in S |-> i.spend]
           h == [i \in S |-> WeekOf(i.day)]
           g == WeekRows(range, "spend")
<1>1. IsFiniteSet(S) /\ \A i \in S : i.day \in Days /\ i.spend \in Nat
  BY RowsFound
<1>2. \A i \in S : f[i] = i.spend /\ h[i] = WeekOf(i.day) /\ h[i] \in Weeks
  BY <1>1 DEF Weeks
<1>3. ASSUME NEW w \in Weeks
      PROVE  g[w] = SpendSum(InsightsOfWeek(range, w))
  BY CohortColumns DEF WeekRows
<1> HIDE DEF S, f, h, g
<1>4. ASSUME NEW w \in Weeks
      PROVE  g[w] = Sum(f, Part(S, h, w)) /\ g[w] \in Nat
  <2>1. InsightsOfWeek(range, w) = Part(S, h, w)
    BY <1>2 DEF Part, InsightsOfWeek, S
  <2>2. Part(S, h, w) \in SUBSET S
    BY DEF Part
  <2>3. SpendSum(Part(S, h, w)) = Sum(f, Part(S, h, w)) /\ SpendSum(Part(S, h, w)) \in Nat
    BY <1>1, <1>2, <2>2, SpendSumIsSum
  <2> QED
    BY <1>3, <2>1, <2>3
<1>5. \A i \in S : h[i] \in Weeks /\ f[i] \in Nat
  BY <1>1, <1>2
<1>6. Sum(g, Weeks) = Sum(f, S)
  BY <1>1, <1>4, <1>5, WeeksAreFinite, SumByKey
<1>7. S \in SUBSET S
  OBVIOUS
<1>8. SpendSum(S) = Sum(f, S)
  BY <1>1, <1>2, <1>7, SpendSumIsSum
<1> QED
  BY <1>4, <1>6, <1>8 DEF S, g

LEMMA WeeksLeads ==
  ASSUME MetricsTypeOK, FiniteTables, NEW range \in Ranges
  PROVE  /\ Sum(WeekRows(range, "leads"), Weeks) = Cardinality(CohortLeads(Database, range))
         /\ \A w \in Weeks : WeekRows(range, "leads")[w] \in Nat
<1> DEFINE S == CohortLeads(Database, range)
           h == [l \in S |-> WeekOf(l.day)]
           g == WeekRows(range, "leads")
<1>1. IsFiniteSet(S) /\ \A l \in S : l.day \in Days
  BY RowsFound
<1>2. \A l \in S : h[l] = WeekOf(l.day) /\ h[l] \in Weeks
  BY <1>1 DEF Weeks
<1>3. ASSUME NEW w \in Weeks
      PROVE  g[w] = Cardinality(LeadsOfWeek(range, w))
  BY CohortColumns DEF WeekRows
<1> HIDE DEF S, h, g
<1>4. ASSUME NEW w \in Weeks
      PROVE  g[w] = Cardinality(Part(S, h, w)) /\ g[w] \in Nat
  <2>1. LeadsOfWeek(range, w) = Part(S, h, w)
    BY <1>2 DEF Part, LeadsOfWeek, S
  <2>2. IsFiniteSet(Part(S, h, w))
    BY <1>1, FS_Subset DEF Part
  <2> QED
    BY <1>3, <2>1, <2>2, FS_CardinalityType
<1>5. \A l \in S : h[l] \in Weeks
  BY <1>2
<1>6. Sum(g, Weeks) = Cardinality(S)
  BY <1>1, <1>4, <1>5, WeeksAreFinite, CountByKey
<1> QED
  BY <1>4, <1>6 DEF S, g

LEMMA WeeksSales ==
  ASSUME MetricsTypeOK, FiniteTables, NEW range \in Ranges
  PROVE  /\ Sum(WeekRows(range, "sales"), Weeks) = Cardinality(CohortSales(range))
         /\ Sum(WeekRows(range, "revenue"), Weeks) = AmountSum(CohortSales(range))
         /\ \A w \in Weeks : WeekRows(range, "sales")[w] \in Nat /\ WeekRows(range, "revenue")[w] \in Nat
<1> DEFINE S == CohortSales(range)
           WeekOfContact(k) == CHOOSE w \in Weeks : k \in Vintage(Database, range, w)
           f == [d \in S |-> Amount[d.id]]
           h == [d \in S |-> WeekOfContact(d.contact)]
           g == WeekRows(range, "sales")
           r == WeekRows(range, "revenue")
<1>1. IsFiniteSet(S) /\ \A d \in S : d.id \in Deals /\ d.contact \in ContactsOf(CohortLeads(Database, range))
  BY DealsFound DEF CohortSales
<1>2. ASSUME NEW k \in ContactsOf(CohortLeads(Database, range))
      PROVE  /\ WeekOfContact(k) \in Weeks
             /\ \A w : k \in Vintage(Database, range, w) <=> WeekOfContact(k) = w
  <2>1. \E w \in Weeks : k \in Vintage(Database, range, w)
    BY OneVintage
  <2>2. WeekOfContact(k) \in Weeks /\ k \in Vintage(Database, range, WeekOfContact(k))
    BY <2>1
  <2> HIDE DEF WeekOfContact
  <2> QED
    BY <2>2, OneVintage
<1>3. \A d \in S : f[d] = Amount[d.id] /\ h[d] = WeekOfContact(d.contact)
  OBVIOUS
<1>4. ASSUME NEW w \in Weeks
      PROVE  g[w] = Cardinality(SalesOfWeek(range, w)) /\ r[w] = AmountSum(SalesOfWeek(range, w))
  BY CohortColumns DEF WeekRows
<1> HIDE DEF WeekOfContact, f, h, g, r
<1>5. ASSUME NEW w \in Weeks
      PROVE  SalesOfWeek(range, w) = Part(S, h, w)
  <2>1. \A d : d \in S <=> d \in Since(Database.deals, CrmFloor) /\ d.canonical = "WON"
                             /\ d.contact \in ContactsOf(CohortLeads(Database, range))
    BY DEF CohortSales, Won, DealsOf
  <2>2. \A d : d \in SalesOfWeek(range, w) <=> d \in Since(Database.deals, CrmFloor) /\ d.canonical = "WON"
                                                /\ d.contact \in Vintage(Database, range, w)
    BY DEF SalesOfWeek, Won, DealsOf
  <2>3. Vintage(Database, range, w) \subseteq ContactsOf(CohortLeads(Database, range))
    BY OneVintage
  <2> HIDE DEF S
  <2>4. \A d : d \in SalesOfWeek(range, w) <=> d \in S /\ h[d] = w
    BY <1>1, <1>2, <1>3, <2>1, <2>2, <2>3
  <2> QED
    BY <2>4 DEF Part
<1> HIDE DEF S
<1>6. ASSUME NEW w \in Weeks
      PROVE  /\ g[w] = Cardinality(Part(S, h, w)) /\ g[w] \in Nat
             /\ r[w] = Sum(f, Part(S, h, w)) /\ r[w] \in Nat
  <2>1. Part(S, h, w) \in SUBSET S
    BY DEF Part
  <2>2. IsFiniteSet(Part(S, h, w))
    BY <1>1, <2>1, FS_Subset
  <2>3. AmountSum(Part(S, h, w)) = Sum(f, Part(S, h, w)) /\ AmountSum(Part(S, h, w)) \in Nat
    BY <1>1, <1>3, <2>1, AmountSumIsSum
  <2> QED
    BY <1>4, <1>5, <2>2, <2>3, FS_CardinalityType
<1>7. \A d \in S : h[d] \in Weeks
  BY <1>1, <1>2, <1>3
<1>8. S \in SUBSET S
  OBVIOUS
<1>9. AmountSum(S) = Sum(f, S) /\ \A d \in S : f[d] \in Nat
  BY <1>1, <1>3, <1>8, AmountSumIsSum
<1>10. Sum(g, Weeks) = Cardinality(S)
  BY <1>1, <1>6, <1>7, WeeksAreFinite, CountByKey
<1>11. Sum(r, Weeks) = Sum(f, S)
  BY <1>1, <1>6, <1>7, <1>9, WeeksAreFinite, SumByKey
<1> QED
  BY <1>6, <1>9, <1>10, <1>11 DEF S, g, r

\* The rows of the cohorts, one per week, sum up to the whole of the weeks.
LEMMA TotalOfWeeks ==
  ASSUME MetricsTypeOK, FiniteTables, NEW range \in Ranges, NEW c \in {"spend", "leads", "sales", "revenue"}
  PROVE  Total(Cohorts(Database, range), c) = WholeOfWeeks(range)[c]
<1> DEFINE S == Cohorts(Database, range)
           row == [w \in Weeks |-> CohortRow(Database, range, w)]
           f == [x \in S |-> x[c]]
           h == [x \in S |-> x.week]
           g == WeekRows(range, c)
<1>1. \A w \in Weeks : row[w].week = w /\ row[w][c] = g[w]
  BY CohortColumns DEF WeekRows
<1>2. (\A w \in Weeks : row[w] \in S) /\ (\A x \in S : \E w \in Weeks : x = row[w])
  BY DEF Cohorts, Weeks
<1>3. Total(S, c) = Sum(f, S)
  BY TableIsSum DEF Total
<1>4. \A x \in S : f[x] = x[c] /\ h[x] = x.week
  OBVIOUS
<1>5. (\A w \in Weeks : g[w] \in Nat) /\ Sum(g, Weeks) = WholeOfWeeks(range)[c]
  <2>1. CASE c = "spend"
    BY <2>1, WeeksSpend DEF WholeOfWeeks
  <2>2. CASE c = "leads"
    BY <2>2, WeeksLeads DEF WholeOfWeeks
  <2>3. CASE c = "sales"
    BY <2>3, WeeksSales DEF WholeOfWeeks
  <2>4. CASE c = "revenue"
    BY <2>4, WeeksSales DEF WholeOfWeeks
  <2> QED
    BY <2>1, <2>2, <2>3, <2>4
<1> HIDE DEF S, row, f, h, g
<1>6. \A w \in Weeks : h[row[w]] = w /\ f[row[w]] \in Nat /\ g[w] = f[row[w]]
  BY <1>1, <1>2, <1>4, <1>5
<1>7. IsFiniteSet(Weeks)
  BY WeeksAreFinite
<1>8. Sum(f, S) = Sum(g, Weeks)
  BY <1>2, <1>6, <1>7, SumOfRows, SMTT(60)
<1> QED
  BY <1>3, <1>5, <1>8 DEF S

\* Every contact in range has been credited.
LEMMA ContactsInRangeAreCredited ==
  ASSUME MetricsTypeOK, NEW range \in Ranges
  PROVE  ContactsOf(LeadsInRange(Database, range)) \subseteq {l.contact : l \in Touches(Database)}
<1>1. range.from \in Nat /\ CrmFloor \in Nat
  BY NumbersOfMetrics DEF Ranges, CrmFloor
<1>2. LaterOf(range.from, CrmFloor) \in Nat /\ LaterOf(range.from, CrmFloor) >= CrmFloor
  BY <1>1 DEF LaterOf
<1>3. \A l \in leads : l.day \in Nat
  BY NumbersOfMetrics DEF MetricsTypeOK, LeadRow
<1>4. Database.leads = leads
  BY DEF Database
<1>5. ASSUME NEW l \in LeadsInRange(Database, range), l.contact # MISSING
      PROVE  l \in Touches(Database)
  <2>1. l \in leads /\ l.day >= LaterOf(range.from, CrmFloor) /\ l.ad # MISSING /\ l.status = "MATCHED"
    BY <1>4 DEF LeadsInRange, Within
  <2>2. l.day >= CrmFloor
    BY <1>1, <1>2, <1>3, <2>1
  <2> QED
    BY <1>4, <1>5, <2>1, <2>2 DEF Touches, Since
<1> QED
  BY <1>5 DEF ContactsOf

\* The deals performance counts are among those of the cohorts, and all of them when no lead has lost its ad.
LEMMA SalesAmongCohorts ==
  ASSUME MetricsTypeOK, FiniteTables, NEW range \in Ranges, NEW model, NEW credit \in Credits(Database, model)
  PROVE  /\ SalesIn(range, credit) \subseteq CohortSales(range)
         /\ CohortLeads(Database, range) = LeadsInRange(Database, range) =>
              SalesIn(range, credit) = CohortSales(range)
         /\ IsFiniteSet(CohortSales(range)) /\ \A d \in CohortSales(range) : d.id \in Deals
<1>1. \A d : d \in SalesIn(range, credit) <=>
        /\ d \in Since(Database.deals, CrmFloor) /\ d.canonical = "WON"
        /\ d.contact \in ContactsOf(LeadsInRange(Database, range)) /\ d.contact \in DOMAIN credit
  BY DEF SalesIn, Sales, Won, DealsOf
<1>2. \A d : d \in CohortSales(range) <=>
        /\ d \in Since(Database.deals, CrmFloor) /\ d.canonical = "WON"
        /\ d.contact \in ContactsOf(CohortLeads(Database, range))
  BY DEF CohortSales, Won, DealsOf
<1>3. ContactsOf(LeadsInRange(Database, range)) \subseteq ContactsOf(CohortLeads(Database, range))
  BY RowsFound DEF ContactsOf
<1>4. ContactsOf(LeadsInRange(Database, range)) \subseteq DOMAIN credit
  BY ContactsInRangeAreCredited, CreditsGoToAds
<1>5. IsFiniteSet(CohortSales(range)) /\ \A d \in CohortSales(range) : d.id \in Deals
  BY DealsFound DEF CohortSales
<1> QED
  BY <1>1, <1>2, <1>3, <1>4, <1>5

\* It holds of any tables with these types.
LEMMA MetricsReports ==
  ASSUME MetricsTypeOK, FiniteTables
  PROVE  ReportsAgree
<1> SUFFICES ASSUME NEW range \in Ranges, NEW credit \in Credits(Database, "LAST_TOUCH")
             PROVE  LET rows == Performance(Database, range, credit)
                        campaigns == Top(rows)
                        weeks == Cohorts(Database, range)
                    IN /\ \A c \in Columns :
                            SumFunction([creative \in CreativeInsights(rows) |-> creative.sum[c]])
                              = Total(campaigns, c)
                       /\ Total(campaigns, "spend") = Total(weeks, "spend")
                       /\ \A c \in {"leads", "sales", "revenue"} : Total(campaigns, c) <= Total(weeks, c)
                       /\ (CohortLeads(Database, range) = LeadsInRange(Database, range)) =>
                            \A c \in {"leads", "sales", "revenue"} : Total(campaigns, c) = Total(weeks, c)
  BY DEF ReportsAgree
<1> DEFINE campaigns == Top(Performance(Database, range, credit))
           weeks == Cohorts(Database, range)
           sales == SalesIn(range, credit)
<1>1. \A c \in Columns : Total(campaigns, c) = Whole(range, sales)[c]
  BY TotalOfCampaigns
<1>2. \A c \in {"spend", "leads", "sales", "revenue"} : Total(weeks, c) = WholeOfWeeks(range)[c]
  BY TotalOfWeeks
<1>3. ASSUME NEW c \in Columns
      PROVE  SumFunction([creative \in CreativeInsights(Performance(Database, range, credit)) |-> creative.sum[c]])
               = Total(campaigns, c)
  BY <1>1, TotalOfCreatives
<1> HIDE DEF campaigns, weeks
<1>4. /\ Total(campaigns, "spend") = SpendSum(InsightsIn(range))
      /\ Total(campaigns, "leads") = Cardinality(LeadsInRange(Database, range))
      /\ Total(campaigns, "sales") = Cardinality(sales)
      /\ Total(campaigns, "revenue") = AmountSum(sales)
  BY <1>1 DEF Columns, Whole
<1>5. /\ Total(weeks, "spend") = SpendSum(InsightsIn(range))
      /\ Total(weeks, "leads") = Cardinality(CohortLeads(Database, range))
      /\ Total(weeks, "sales") = Cardinality(CohortSales(range))
      /\ Total(weeks, "revenue") = AmountSum(CohortSales(range))
  BY <1>2 DEF WholeOfWeeks
<1>6. Cardinality(LeadsInRange(Database, range)) <= Cardinality(CohortLeads(Database, range))
  BY RowsFound, FS_Subset
<1>7. Cardinality(sales) <= Cardinality(CohortSales(range))
  BY SalesAmongCohorts, FS_Subset
<1>8. AmountSum(sales) <= AmountSum(CohortSales(range))
  <2> DEFINE S == CohortSales(range)
             f == [d \in S |-> Amount[d.id]]
  <2>1. IsFiniteSet(S) /\ (\A d \in S : d.id \in Deals) /\ sales \in SUBSET S /\ S \in SUBSET S
    BY SalesAmongCohorts
  <2>2. \A d \in S : f[d] = Amount[d.id]
    OBVIOUS
  <2> HIDE DEF S, sales, f
  <2>3. AmountSum(sales) = Sum(f, sales) /\ \A d \in S : f[d] \in Nat
    BY <2>1, <2>2, AmountSumIsSum
  <2>4. AmountSum(S) = Sum(f, S)
    BY <2>1, <2>2, AmountSumIsSum
  <2>5. Sum(f, sales) <= Sum(f, S)
    BY <2>1, <2>3, SumSubset
  <2> QED
    BY <2>3, <2>4, <2>5 DEF S
<1>9. CohortLeads(Database, range) = LeadsInRange(Database, range) => sales = CohortSales(range)
  BY SalesAmongCohorts
<1>10. \A c \in {"leads", "sales", "revenue"} : Total(campaigns, c) <= Total(weeks, c)
  BY <1>4, <1>5, <1>6, <1>7, <1>8
<1>11. CohortLeads(Database, range) = LeadsInRange(Database, range) =>
         \A c \in {"leads", "sales", "revenue"} : Total(campaigns, c) = Total(weeks, c)
  <2> HIDE DEF sales
  <2> QED
    BY <1>4, <1>5, <1>9
<1> QED
  BY <1>3, <1>4, <1>5, <1>10, <1>11 DEF campaigns, weeks

\* Performance, creatives and cohorts tell one story: ads, tags, campaigns and weeks divide the same insights,
\* leads and deals, but that cohorts keeps the leads whose ad is gone.
THEOREM MetricsReportsAgree == MetricsSpec => []ReportsAgree
  BY MetricsReports, MetricsTypes, TablesAreFinite, PTL

-----------------------------------------------------------------------------

\* Qualified leads of a node are leads of it.
LEMMA RowsOfPerformanceNarrow ==
  ASSUME MetricsTypeOK, FiniteTables, NEW range \in Ranges, NEW credit, NEW n
  PROVE  PerformanceRow(Database, range, credit, n).qualifiedLeads
           <= PerformanceRow(Database, range, credit, n).leads
<1>1. IsFiniteSet(LeadsUnder(range, n)) /\ QualifiedUnder(range, n) \in SUBSET LeadsUnder(range, n)
  BY RowsFound, FS_Subset DEF LeadsUnder, QualifiedUnder
<1>2. Cardinality(QualifiedUnder(range, n)) <= Cardinality(LeadsUnder(range, n))
  BY <1>1, FS_Subset
<1> QED
  BY <1>2, PerformanceColumns

\* The qualified of a week are contacts of its leads, and a won deal is one of theirs.
LEMMA CohortNarrows ==
  ASSUME MetricsTypeOK, FiniteTables, NEW range \in Ranges, NEW w
  PROVE  /\ CohortRow(Database, range, w).qualifiedLeads <= CohortRow(Database, range, w).leads
         /\ CohortRow(Database, range, w).sales > 0 => CohortRow(Database, range, w).qualifiedLeads > 0
<1> DEFINE S == LeadsOfWeek(range, w)
           T == {l.contact : l \in S}
           Q == QualifiedOfWeek(range, w)
           contact == [l \in S |-> l.contact]
<1>1. IsFiniteSet(S)
  BY RowsFound, FS_Subset DEF LeadsOfWeek
<1>2. contact \in Surjection(S, T)
  BY DEF Surjection
<1>3. Q \in SUBSET T
  BY OneVintage DEF QualifiedOfWeek, ContactsOf
<1> HIDE DEF S, T, Q, contact
<1>4. IsFiniteSet(T) /\ Cardinality(T) <= Cardinality(S)
  BY <1>1, <1>2, FS_Surjection
<1>5. IsFiniteSet(Q) /\ Cardinality(Q) <= Cardinality(T)
  BY <1>3, <1>4, FS_Subset
<1>6. Cardinality(Q) \in Nat /\ Cardinality(T) \in Nat /\ Cardinality(S) \in Nat /\ (Cardinality(Q) = 0 => Q = {})
  BY <1>1, <1>4, <1>5, FS_CardinalityType, FS_EmptySet
<1>7. ASSUME Cardinality(SalesOfWeek(range, w)) > 0
      PROVE  Q # {}
  <2>1. SalesOfWeek(range, w) # {}
    BY <1>7, FS_EmptySet
  <2>2. PICK d \in DealsOf(Database, Vintage(Database, range, w)) : d.canonical = "WON"
    BY <2>1 DEF SalesOfWeek, Won
  <2>3. d.contact \in Vintage(Database, range, w)
    BY DealsFound
  <2> QED
    BY <2>2, <2>3 DEF Q, QualifiedOfWeek, Qualified
<1>8. Cardinality(Q) <= Cardinality(S)
  BY <1>4, <1>5, <1>6
<1>9. Cardinality(SalesOfWeek(range, w)) > 0 => Cardinality(Q) > 0
  BY <1>6, <1>7
<1> QED
  BY <1>8, <1>9, CohortColumns DEF S, Q

\* A sale is of a contact in range, and its lead there is a qualified one.
LEMMA SaleIsOfQualified ==
  ASSUME MetricsTypeOK, FiniteTables, NEW range \in Ranges, NEW model, NEW credit \in Credits(Database, model),
         Total(Top(Performance(Database, range, credit)), "sales") > 0
  PROVE  Total(Top(Performance(Database, range, credit)), "qualifiedLeads") > 0
<1> DEFINE top == Top(Performance(Database, range, credit))
<1>1. Total(top, "sales") = Cardinality(SalesIn(range, credit))
  BY TotalOfCampaigns DEF Columns, Whole
<1>2. Total(top, "qualifiedLeads") = Cardinality(QualifiedLeads(range))
  BY TotalOfCampaigns DEF Columns, Whole
<1>3. SalesIn(range, credit) # {}
  BY <1>1, FS_EmptySet
<1> DEFINE rows == DealsOf(Database, ContactsOf(LeadsInRange(Database, range)))
<1>4. PICK d \in rows : d.canonical = "WON"
  BY <1>3 DEF SalesIn, Sales, Won
<1>5. d.contact \in ContactsOf(LeadsInRange(Database, range))
  BY DealsFound
<1>6. d.contact \in QualifiedIn(range)
  BY <1>4 DEF QualifiedIn, Qualified
<1>7. PICK l \in LeadsInRange(Database, range) : l.contact = d.contact
  BY <1>5 DEF ContactsOf
<1>8. QualifiedLeads(range) # {}
  BY <1>6, <1>7 DEF QualifiedLeads
<1>9. IsFiniteSet(QualifiedLeads(range))
  BY RowsFound
<1>10. Cardinality(QualifiedLeads(range)) \in Nat /\ Cardinality(QualifiedLeads(range)) # 0
  BY <1>8, <1>9, FS_CardinalityType, FS_EmptySet
<1> QED
  BY <1>2, <1>10

\* It holds of any tables with these types.
LEMMA MetricsFunnel ==
  ASSUME MetricsTypeOK, FiniteTables
  PROVE  FunnelHolds
<1> SUFFICES ASSUME NEW range \in Ranges, NEW credit \in Credits(Database, "FIRST_TOUCH")
             PROVE  LET rows == Performance(Database, range, credit)
                        weeks == Cohorts(Database, range)
                    IN /\ \A row \in rows \cup weeks : row.qualifiedLeads <= row.leads
                       /\ Total(Top(rows), "sales") > 0 => Total(Top(rows), "qualifiedLeads") > 0
                       /\ \A row \in weeks : row.sales > 0 => row.qualifiedLeads > 0
  BY DEF FunnelHolds
<1>1. \A row \in Performance(Database, range, credit) : row.qualifiedLeads <= row.leads
  BY RowsOfPerformanceNarrow DEF Performance
<1>2. \A row \in Cohorts(Database, range) :
        row.qualifiedLeads <= row.leads /\ (row.sales > 0 => row.qualifiedLeads > 0)
  BY CohortNarrows DEF Cohorts
<1> QED
  BY <1>1, <1>2, SaleIsOfQualified

\* No outcome without what comes before it: qualified leads are leads, in every row, and whoever bought is
\* qualified, in the report as a whole and in every week.
THEOREM MetricsFunnelHolds == MetricsSpec => []FunnelHolds
  BY MetricsFunnel, MetricsTypes, TablesAreFinite, PTL
=============================================================================
