----------------------------- MODULE FiniteSums -----------------------------
(* Lemmas about finite sets and the sums over them (SumFunctionOnSet), for     *)
(* the proofs of the other modules: induction in the form of a set of good     *)
(* subsets, and what a sum is, whatever the order it is taken in.              *)
EXTENDS Integers, FiniteSetsExt, FiniteSetTheorems, WellFoundedInduction, TLAPS

-----------------------------------------------------------------------------
(* Induction *)

\* A set of numbers that is not empty has a least one.
LEMMA LeastNumber ==
  ASSUME NEW N \in SUBSET Nat, N # {}
  PROVE  \E n \in N : \A m \in N : n <= m
<1>1. PICK n \in N : \A m \in N : ~ (<<m, n>> \in OpToRel(<, Nat))
  BY NatLessThanWellFounded, WFMin
<1>2. \A m \in N : ~ (m < n)
  BY <1>1, Zenon DEF OpToRel
<1> QED
  BY <1>2

\* Induction over the subsets of a finite set: a subset is good when each of those with
\* one element less is.
LEMMA SmallerSets ==
  ASSUME NEW S, IsFiniteSet(S), NEW Good,
         \A T \in SUBSET S : (\A x \in T : T \ {x} \in Good) => T \in Good
  PROVE  \A T \in SUBSET S : T \in Good
<1> DEFINE Bad == {T \in SUBSET S : T \notin Good}
           Sizes == {n \in Nat : \E T \in Bad : Cardinality(T) = n}
<1> SUFFICES ASSUME Bad # {} PROVE FALSE
  OBVIOUS
<1>1. \A T \in SUBSET S : IsFiniteSet(T) /\ Cardinality(T) \in Nat
  BY FS_Subset, FS_CardinalityType
<1>2. Sizes # {}
  BY <1>1
<1>3. PICK n \in Sizes : \A m \in Sizes : n <= m
  <2> HIDE DEF Sizes
  <2>1. Sizes \in SUBSET Nat
    BY DEF Sizes
  <2> QED
    BY <1>2, <2>1, LeastNumber
<1>4. PICK T \in Bad : Cardinality(T) = n
  OBVIOUS
<1>5. PICK x \in T : T \ {x} \notin Good
  BY <1>4
<1>6. Cardinality(T \ {x}) = n - 1
  BY <1>1, <1>4, <1>5, FS_RemoveElement
<1>7. T \ {x} \in Bad /\ n - 1 \in Nat
  BY <1>1, <1>4, <1>5, <1>6
<1>8. n - 1 \in Sizes
  BY <1>6, <1>7
<1> QED
  BY <1>3, <1>8

\* One of finitely many numbers is the largest, and Max finds it.
LEMMA Largest ==
  ASSUME NEW S, IsFiniteSet(S), S # {}, NEW f, \A x \in S : f[x] \in Nat
  PROVE  /\ Max({f[x] : x \in S}) \in Nat
         /\ \A x \in S : f[x] <= Max({f[y] : y \in S})
<1> DEFINE Good == {T \in SUBSET S : T # {} => \E m \in T : \A x \in T : f[x] <= f[m]}
<1>1. ASSUME NEW T \in SUBSET S, \A x \in T : T \ {x} \in Good PROVE T \in Good
  <2> SUFFICES ASSUME T # {} PROVE \E m \in T : \A x \in T : f[x] <= f[m]
    OBVIOUS
  <2>1. PICK z \in T : TRUE
    OBVIOUS
  <2>2. CASE T \ {z} = {}
    <3>1. \A x \in T : f[x] <= f[z]
      BY <2>1, <2>2
    <3> QED
      BY <3>1
  <2>3. CASE T \ {z} # {}
    <3>1. PICK m \in T \ {z} : \A x \in T \ {z} : f[x] <= f[m]
      BY <1>1, <2>3
    <3>2. CASE f[z] <= f[m]
      <4>1. \A x \in T : f[x] <= f[m]
        BY <3>1, <3>2
      <4> QED
        BY <4>1
    <3>3. CASE ~ (f[z] <= f[m])
      <4>1. \A x \in T : f[x] <= f[z]
        BY <3>1, <3>3
      <4> QED
        BY <4>1
    <3> QED
      BY <3>2, <3>3
  <2> QED
    BY <2>2, <2>3
<1> HIDE DEF Good
<1>2. S \in Good
  <2>1. \A T \in SUBSET S : T \in Good
    BY <1>1, SmallerSets
  <2> QED
    BY <2>1
<1>3. PICK m \in S : \A x \in S : f[x] <= f[m]
  BY <1>2 DEF Good
<1> DEFINE V == {f[x] : x \in S}
<1>4. \E v \in V : \A w \in V : v >= w
  BY <1>3
<1>5. Max(V) \in V /\ \A w \in V : Max(V) >= w
  BY <1>4 DEF Max
<1> QED
  BY <1>5

-----------------------------------------------------------------------------
(* Sums *)

\* g gives the sum of f over each subset of S.
IsSum(f, S, g) ==
  /\ g \in [SUBSET S -> Nat]
  /\ g[{}] = 0
  /\ \A T \in SUBSET S : \A x \in T : g[T] = f[x] + g[T \ {x}]

\* What the fold computes on the subsets of S, when it computes h.
IsFold(f, S, h) ==
  h = [T \in SUBSET S |-> IF T = {} THEN 0
                          ELSE f[CHOOSE x \in T : TRUE] + h[T \ {CHOOSE x \in T : TRUE}]]

LEMMA SumIsFold ==
  ASSUME NEW f, NEW S
  PROVE  SumFunctionOnSet(f, S) = (CHOOSE h : IsFold(f, S, h))[S]
BY DEF SumFunctionOnSet, FoldFunctionOnSet, MapThenFoldSet, IsFold

\* One element more.
LEMMA SumGrows ==
  ASSUME NEW f, NEW S, NEW z \in S, f[z] \in Nat, \A x \in S : f[x] \in Nat,
         NEW g, IsSum(f, S \ {z}, g)
  PROVE  \E k : IsSum(f, S, k)
<1> DEFINE k == [T \in SUBSET S |-> IF z \in T THEN f[z] + g[T \ {z}] ELSE g[T]]
<1>1. \A T \in SUBSET S : T \ {z} \in SUBSET (S \ {z}) /\ g[T \ {z}] \in Nat
  BY DEF IsSum
<1>2. \A T \in SUBSET S : z \notin T => T \ {z} = T
  OBVIOUS
<1>3. \A T \in SUBSET S : k[T] = IF z \in T THEN f[z] + g[T \ {z}] ELSE g[T]
  OBVIOUS
<1>4. ASSUME NEW T \in SUBSET S PROVE k[T] \in Nat
  <2> HIDE DEF k
  <2>1. CASE z \in T
    <3>1. g[T \ {z}] \in Nat /\ k[T] = f[z] + g[T \ {z}]
      BY <1>1, <1>3, <2>1
    <3> QED
      BY <3>1
  <2>2. CASE z \notin T
    BY <1>1, <1>2, <1>3, <2>2
  <2> QED
    BY <2>1, <2>2
<1>5. k \in [SUBSET S -> Nat]
  BY <1>4
<1>6. k[{}] = 0
  <2>1. {} \in SUBSET S /\ g[{}] = 0
    BY DEF IsSum
  <2> HIDE DEF k
  <2> QED
    BY <1>3, <2>1
<1> HIDE DEF k
<1>7. ASSUME NEW T \in SUBSET S, NEW x \in T PROVE k[T] = f[x] + k[T \ {x}]
  <2>1. T \ {x} \in SUBSET S /\ f[x] \in Nat /\ g[T \ {z}] \in Nat /\ g[(T \ {x}) \ {z}] \in Nat
    BY <1>1
  <2>2. CASE z \notin T
    <3>1. k[T] = g[T] /\ k[T \ {x}] = g[T \ {x}]
      BY <1>3, <2>1, <2>2
    <3>2. T \in SUBSET (S \ {z})
      BY <2>2
    <3> QED
      BY <3>1, <3>2 DEF IsSum
  <2>3. CASE x = z
    <3>1. k[T] = f[z] + g[T \ {z}]
      BY <1>3, <2>3
    <3>2. k[T \ {x}] = g[T \ {z}]
      BY <1>3, <2>1, <2>3
    <3> QED
      BY <2>3, <3>1, <3>2
  <2>4. CASE z \in T /\ x # z
    <3>1. k[T] = f[z] + g[T \ {z}]
      BY <1>3, <2>4
    <3>2. k[T \ {x}] = f[z] + g[(T \ {x}) \ {z}]
      BY <1>3, <2>1, <2>4
    <3>3. (T \ {z}) \ {x} = (T \ {x}) \ {z}
      OBVIOUS
    <3>4. g[T \ {z}] = f[x] + g[(T \ {z}) \ {x}]
      BY <1>1, <2>4 DEF IsSum
    <3>5. g[T \ {z}] = f[x] + g[(T \ {x}) \ {z}]
      BY <3>3, <3>4
    <3> QED
      BY <2>1, <3>1, <3>2, <3>5
  <2> QED
    BY <2>2, <2>3, <2>4
<1> QED
  BY <1>5, <1>6, <1>7 DEF IsSum

\* Every finite set has its sums.
LEMMA SumExists ==
  ASSUME NEW S, IsFiniteSet(S), NEW f, \A x \in S : f[x] \in Nat
  PROVE  \E g : IsSum(f, S, g)
<1> DEFINE Good == {T \in SUBSET S : \E g : IsSum(f, T, g)}
<1>1. ASSUME NEW T \in SUBSET S, \A x \in T : T \ {x} \in Good PROVE T \in Good
  <2>1. CASE T = {}
    <3>1. IsSum(f, T, [U \in SUBSET T |-> 0])
      BY <2>1 DEF IsSum
    <3> QED
      BY <3>1
  <2>2. CASE T # {}
    <3>1. PICK z \in T : TRUE
      BY <2>2
    <3>2. PICK g : IsSum(f, T \ {z}, g)
      BY <1>1
    <3> QED
      BY <3>2, SumGrows
  <2> QED
    BY <2>1, <2>2
<1> HIDE DEF Good
<1>2. \A T \in SUBSET S : T \in Good
  BY <1>1, SmallerSets
<1> QED
  BY <1>2 DEF Good

\* The sums are what the fold computes, whatever element it chooses.
LEMMA SumIs ==
  ASSUME NEW S, IsFiniteSet(S), NEW f, NEW g, IsSum(f, S, g)
  PROVE  SumFunctionOnSet(f, S) = g[S]
<1> DEFINE h == CHOOSE h : IsFold(f, S, h)
           c(T) == CHOOSE x \in T : TRUE
<1>1. \A T \in SUBSET S : T # {} => c(T) \in T
  OBVIOUS
<1>2. IsFold(f, S, g)
  <2>1. \A T \in SUBSET S : g[T] = IF T = {} THEN 0 ELSE f[c(T)] + g[T \ {c(T)}]
    BY <1>1 DEF IsSum
  <2>2. g = [T \in SUBSET S |-> IF T = {} THEN 0 ELSE f[c(T)] + g[T \ {c(T)}]]
    BY <2>1 DEF IsSum
  <2> QED
    BY <2>2 DEF IsFold
<1>3. IsFold(f, S, h)
  BY <1>2
<1> HIDE DEF h
<1>4. \A T \in SUBSET S : h[T] = IF T = {} THEN 0 ELSE f[c(T)] + h[T \ {c(T)}]
  BY <1>3 DEF IsFold
<1>5. \A T \in SUBSET S : h[T] = g[T]
  <2> DEFINE Good == {T \in SUBSET S : h[T] = g[T]}
  <2>1. ASSUME NEW T \in SUBSET S, \A x \in T : T \ {x} \in Good PROVE T \in Good
    <3>1. CASE T = {}
      BY <1>4, <3>1 DEF IsSum
    <3>2. CASE T # {}
      <4>1. PICK x \in T : x = c(T)
        BY <1>1, <3>2
      <4>2. h[T \ {x}] = g[T \ {x}]
        BY <2>1
      <4>3. h[T] = f[x] + h[T \ {x}]
        BY <1>4, <3>2, <4>1
      <4>4. g[T] = f[x] + g[T \ {x}]
        BY DEF IsSum
      <4> QED
        BY <4>2, <4>3, <4>4
    <3> QED
      BY <3>1, <3>2
  <2> HIDE DEF Good
  <2>2. \A T \in SUBSET S : T \in Good
    BY <2>1, SmallerSets
  <2> QED
    BY <2>2 DEF Good
<1> QED
  BY <1>5, SumIsFold DEF h

-----------------------------------------------------------------------------
(* The facts the other modules use *)

LEMMA SumType ==
  ASSUME NEW S, IsFiniteSet(S), NEW f, \A x \in S : f[x] \in Nat
  PROVE  SumFunctionOnSet(f, S) \in Nat
<1>1. PICK g : IsSum(f, S, g)
  BY SumExists
<1>2. g[S] \in Nat
  BY <1>1 DEF IsSum
<1> QED
  BY <1>1, <1>2, SumIs

\* Nothing adds up to nothing.
LEMMA SumZero ==
  ASSUME NEW S, IsFiniteSet(S), NEW f, \A x \in S : f[x] = 0
  PROVE  SumFunctionOnSet(f, S) = 0
<1>1. IsSum(f, S, [T \in SUBSET S |-> 0])
  BY DEF IsSum
<1> QED
  BY <1>1, SumIs

\* One element apart.
LEMMA SumSplit ==
  ASSUME NEW S, IsFiniteSet(S), NEW f, \A x \in S : f[x] \in Nat, NEW x \in S
  PROVE  SumFunctionOnSet(f, S) = f[x] + SumFunctionOnSet(f, S \ {x})
<1>1. PICK g : IsSum(f, S, g)
  BY SumExists
<1> DEFINE k == [T \in SUBSET (S \ {x}) |-> g[T]]
<1>2. IsSum(f, S \ {x}, k)
  BY <1>1 DEF IsSum
<1>3. IsFiniteSet(S \ {x})
  BY FS_RemoveElement
<1>4. k[S \ {x}] = g[S \ {x}]
  OBVIOUS
<1> HIDE DEF k
<1>5. SumFunctionOnSet(f, S \ {x}) = g[S \ {x}]
  BY <1>2, <1>3, <1>4, SumIs
<1>6. SumFunctionOnSet(f, S) = g[S]
  BY <1>1, SumIs
<1> QED
  BY <1>1, <1>5, <1>6 DEF IsSum

\* The sum is that of the values alone.
LEMMA SumSame ==
  ASSUME NEW S, IsFiniteSet(S), NEW f, NEW h, \A x \in S : f[x] \in Nat /\ h[x] = f[x]
  PROVE  SumFunctionOnSet(h, S) = SumFunctionOnSet(f, S)
<1>1. PICK g : IsSum(f, S, g)
  BY SumExists
<1>2. IsSum(h, S, g)
  BY <1>1 DEF IsSum
<1> QED
  BY <1>1, <1>2, SumIs
=============================================================================
