-------------------------- MODULE Benchmark_proofs --------------------------
(***************************************************************************)
(* Proofs about the benchmark program, for every number of threads and of  *)
(* schedulers and every size of the workloads.                             *)
(*                                                                         *)
(* The model has two recursive functions and takes sums over functions,    *)
(* which fold a set one element after the other.  Nothing of these is      *)
(* assumed: induction over the numbers is derived, in the form of a set    *)
(* of numbers that is closed under +1, from < being well-founded, and with *)
(* it that the recursive definitions have solutions and what these are.    *)
(*                                                                         *)
(* The invariant weighs the tasks: each stands for all the tasks that it   *)
(* will become, so that a task that turns into itself and two smaller ones *)
(* leaves the account as it was.                                           *)
(***************************************************************************)
EXTENDS Benchmark, Integers, FiniteSetTheorems, TLAPS

-----------------------------------------------------------------------------
\* Induction: a set that holds 0 and with each number the next holds all.
LEMMA Induction ==
  ASSUME NEW T, 0 \in T, \A n \in Nat : n \in T => n + 1 \in T
  PROVE  Nat \subseteq T
<1> SUFFICES ASSUME Nat \ T # {} PROVE FALSE
  OBVIOUS
<1> DEFINE R == OpToRel(<, Nat)
<1>1. IsWellFoundedOn(R, Nat)
  BY NatLessThanWellFounded
<1>2. \A x, y \in Nat : y < x => <<y, x>> \in R
  BY DEF OpToRel
<1> HIDE DEF R
<1>3. PICK x \in Nat \ T : \A y \in Nat \ T : ~(<<y, x>> \in R)
  BY <1>1, WFMin
<1>4. x # 0
  BY <1>3
<1>5. x - 1 \in Nat /\ <<x - 1, x>> \in R
  BY <1>2, <1>4
<1>6. x - 1 \in T
  BY <1>3, <1>5
<1>7. (x - 1) + 1 \in T
  BY <1>5, <1>6
<1> QED BY <1>3, <1>7

-----------------------------------------------------------------------------
(***************************************************************************)
(* Sums over functions, as SumFunction takes them.                         *)
(***************************************************************************)

\* The element that the sum takes out of a set first, and what it makes of the subsets
\* of a function's domain.
Pick(s) == CHOOSE x \in s : TRUE
Partial(f) ==
  CHOOSE g : g = [s \in SUBSET DOMAIN f |-> IF s = {} THEN 0 ELSE f[Pick(s)] + g[s \ {Pick(s)}]]

\* Induction over the subsets of a finite set.
LEMMA SubsetInduction ==
  ASSUME NEW D, IsFiniteSet(D), NEW T, {} \in T,
         \A s \in SUBSET D : s # {} /\ s \ {Pick(s)} \in T => s \in T
  PROVE  SUBSET D \subseteq T
<1> DEFINE C == {n \in Nat : \A s \in SUBSET D : Cardinality(s) = n => s \in T}
<1>1. ASSUME NEW s \in SUBSET D
      PROVE  /\ IsFiniteSet(s) /\ Cardinality(s) \in Nat
             /\ Cardinality(s) = 0 => s = {}
             /\ s # {} => /\ s \ {Pick(s)} \in SUBSET D /\ Pick(s) \in s
                          /\ Cardinality(s) = Cardinality(s \ {Pick(s)}) + 1
  <2>1. IsFiniteSet(s) /\ Cardinality(s) \in Nat
    BY FS_Subset, FS_CardinalityType
  <2>2. s # {} => Pick(s) \in s
    BY DEF Pick
  <2>3. s # {} => Cardinality(s \ {Pick(s)}) = Cardinality(s) - 1
    BY <2>1, <2>2, FS_RemoveElement
  <2> QED BY <2>1, <2>2, <2>3, FS_EmptySet
<1>2. 0 \in C
  BY <1>1
<1>3. ASSUME NEW n \in Nat, n \in C PROVE n + 1 \in C
  <2> SUFFICES ASSUME NEW s \in SUBSET D, Cardinality(s) = n + 1 PROVE s \in T
    OBVIOUS
  <2>1. s # {}
    BY FS_EmptySet
  <2>2. /\ s \ {Pick(s)} \in SUBSET D /\ Cardinality(s \ {Pick(s)}) \in Nat
        /\ Cardinality(s) = Cardinality(s \ {Pick(s)}) + 1
    BY <1>1, <2>1
  <2>3. s \ {Pick(s)} \in T
    BY <1>3, <2>2
  <2> QED BY <2>1, <2>3
<1> HIDE DEF C
<1>4. Nat \subseteq C
  BY <1>2, <1>3, Induction
<1> QED BY <1>1, <1>4 DEF C

\* There is such a function.
LEMMA PartialDefined ==
  ASSUME NEW f, IsFiniteSet(DOMAIN f)
  PROVE  /\ Partial(f)[{}] = 0
         /\ \A s \in SUBSET DOMAIN f :
              s # {} => Partial(f)[s] = f[Pick(s)] + Partial(f)[s \ {Pick(s)}]
<1> DEFINE D == DOMAIN f
           Upto(n) == {s \in SUBSET D : Cardinality(s) <= n}
           Body(g, s) == IF s = {} THEN 0 ELSE f[Pick(s)] + g[s \ {Pick(s)}]
           C == {n \in Nat : \E g : g = [s \in Upto(n) |-> Body(g, s)]}
<1>1. ASSUME NEW s \in SUBSET D
      PROVE  /\ Cardinality(s) \in Nat
             /\ Cardinality(s) = 0 <=> s = {}
             /\ s # {} => /\ s \ {Pick(s)} \in SUBSET D
                          /\ Cardinality(s) = Cardinality(s \ {Pick(s)}) + 1
  <2>1. IsFiniteSet(s) /\ Cardinality(s) \in Nat
    BY FS_Subset, FS_CardinalityType
  <2>2. s # {} => Pick(s) \in s
    BY DEF Pick
  <2>3. s # {} => Cardinality(s \ {Pick(s)}) = Cardinality(s) - 1
    BY <2>1, <2>2, FS_RemoveElement
  <2> QED BY <2>1, <2>2, <2>3, FS_EmptySet
<1>2. 0 \in C
  <2> DEFINE g == [s \in Upto(0) |-> 0]
  <2>1. ASSUME NEW s \in Upto(0) PROVE s = {}
    <3>1. s \in SUBSET D /\ Cardinality(s) \in Nat /\ Cardinality(s) <= 0
      BY <1>1
    <3>2. Cardinality(s) = 0
      BY <3>1
    <3> QED BY <1>1, <3>1, <3>2
  <2>2. g = [s \in Upto(0) |-> Body(g, s)]
    BY <2>1
  <2> QED BY <2>2
<1>3. ASSUME NEW n \in Nat, n \in C PROVE n + 1 \in C
  <2>1. PICK g : g = [s \in Upto(n) |-> Body(g, s)]
    BY <1>3
  <2> DEFINE h == [s \in Upto(n + 1) |-> Body(g, s)]
  <2>2. ASSUME NEW s \in Upto(n) PROVE s \in Upto(n + 1) /\ h[s] = g[s]
    <3>1. s \in Upto(n + 1)
      <4>1. Cardinality(s) \in Nat /\ Cardinality(s) <= n
        BY <1>1
      <4>2. Cardinality(s) <= n + 1
        BY <4>1
      <4> QED BY <4>2
    <3>2. g[s] = Body(g, s)
      BY <2>1
    <3> QED BY <3>1, <3>2
  <2>3. ASSUME NEW s \in Upto(n + 1) PROVE Body(g, s) = Body(h, s)
    <3>1. CASE s = {}
      BY <3>1
    <3>2. CASE s # {}
      <4>1. s \ {Pick(s)} \in Upto(n)
        <5>1. /\ Cardinality(s) <= n + 1 /\ s \ {Pick(s)} \in SUBSET D
              /\ Cardinality(s \ {Pick(s)}) \in Nat
              /\ Cardinality(s) = Cardinality(s \ {Pick(s)}) + 1
          BY <1>1, <3>2
        <5>2. Cardinality(s \ {Pick(s)}) <= n
          BY <5>1
        <5> QED BY <5>1, <5>2
      <4>2. h[s \ {Pick(s)}] = g[s \ {Pick(s)}]
        BY <2>2, <4>1
      <4> QED BY <3>2, <4>2
    <3> QED BY <3>1, <3>2
  <2>4. h = [s \in Upto(n + 1) |-> Body(h, s)]
    BY <2>3
  <2> HIDE DEF h, Upto, Body
  <2> QED BY <2>4
<1>4. Nat \subseteq C
  <2> HIDE DEF C
  <2> QED BY <1>2, <1>3, Induction
<1>5. Cardinality(D) \in Nat /\ Upto(Cardinality(D)) = SUBSET D
  <2>1. Cardinality(D) \in Nat
    BY FS_CardinalityType
  <2>2. \A s \in SUBSET D : Cardinality(s) <= Cardinality(D)
    BY FS_Subset
  <2> QED BY <2>1, <2>2
<1>6. \E g : g = [s \in SUBSET D |-> Body(g, s)]
  BY <1>4, <1>5
<1>7. Partial(f) = [s \in SUBSET D |-> Body(Partial(f), s)]
  BY <1>6 DEF Partial
<1> QED BY <1>7

\* The sum of a function with finite domain and natural values, and of its parts.
LEMMA PartialNat ==
  ASSUME NEW D, IsFiniteSet(D), NEW f \in [D -> Nat]
  PROVE  \A s \in SUBSET D : Partial(f)[s] \in Nat
<1> DEFINE T == {s \in SUBSET D : Partial(f)[s] \in Nat}
<1>1. /\ Partial(f)[{}] = 0
      /\ \A s \in SUBSET D : s # {} => Partial(f)[s] = f[Pick(s)] + Partial(f)[s \ {Pick(s)}]
  BY PartialDefined
<1>2. {} \in T
  BY <1>1
<1>3. ASSUME NEW s \in SUBSET D, s # {}, s \ {Pick(s)} \in T PROVE s \in T
  <2>1. Pick(s) \in D
    BY <1>3 DEF Pick
  <2>2. f[Pick(s)] \in Nat /\ Partial(f)[s \ {Pick(s)}] \in Nat
    BY <1>3, <2>1
  <2>3. Partial(f)[s] = f[Pick(s)] + Partial(f)[s \ {Pick(s)}]
    BY <1>1, <1>3
  <2>4. Partial(f)[s] \in Nat
    BY <2>2, <2>3
  <2> QED BY <2>4
<1> HIDE DEF T
<1>4. SUBSET D \subseteq T
  BY <1>2, <1>3, SubsetInduction
<1> QED BY <1>4 DEF T

\* A sum is a number, and the sum over an empty domain is zero.
LEMMA SumNat ==
  ASSUME NEW D, IsFiniteSet(D), NEW f \in [D -> Nat]
  PROVE  SumFunction(f) \in Nat /\ SumFunction(f) = Partial(f)[D]
<1>1. SumFunction(f) = Partial(f)[DOMAIN f]
  BY DEF SumFunction, SumFunctionOnSet, FoldFunctionOnSet, MapThenFoldSet, Partial, Pick
<1>2. Partial(f)[D] \in Nat
  BY PartialNat
<1> QED BY <1>1, <1>2

\* Where every value is as large, so is the sum.
LEMMA SumLess ==
  ASSUME NEW D, IsFiniteSet(D), NEW f \in [D -> Nat], NEW g \in [D -> Nat],
         \A x \in D : f[x] <= g[x]
  PROVE  SumFunction(f) <= SumFunction(g)
<1> DEFINE T == {s \in SUBSET D : Partial(f)[s] <= Partial(g)[s]}
<1>1. /\ Partial(f)[{}] = 0 /\ Partial(g)[{}] = 0
      /\ \A s \in SUBSET D : s # {} => Partial(f)[s] = f[Pick(s)] + Partial(f)[s \ {Pick(s)}]
      /\ \A s \in SUBSET D : s # {} => Partial(g)[s] = g[Pick(s)] + Partial(g)[s \ {Pick(s)}]
  <2>1. DOMAIN f = D /\ DOMAIN g = D
    OBVIOUS
  <2> QED BY <2>1, PartialDefined
<1>2. {} \in T
  BY <1>1
<1>3. ASSUME NEW s \in SUBSET D, s # {}, s \ {Pick(s)} \in T PROVE s \in T
  <2>1. Pick(s) \in D /\ s \ {Pick(s)} \in SUBSET D
    BY <1>3 DEF Pick
  <2>2. f[Pick(s)] \in Nat /\ g[Pick(s)] \in Nat /\ f[Pick(s)] <= g[Pick(s)]
    BY <2>1
  <2>3. Partial(f)[s \ {Pick(s)}] \in Nat /\ Partial(g)[s \ {Pick(s)}] \in Nat
    BY <2>1, PartialNat
  <2>4. Partial(f)[s \ {Pick(s)}] <= Partial(g)[s \ {Pick(s)}]
    BY <1>3
  <2>5. /\ Partial(f)[s] = f[Pick(s)] + Partial(f)[s \ {Pick(s)}]
        /\ Partial(g)[s] = g[Pick(s)] + Partial(g)[s \ {Pick(s)}]
    BY <1>1, <1>3
  <2>6. Partial(f)[s] <= Partial(g)[s]
    BY <2>2, <2>3, <2>4, <2>5
  <2> QED BY <2>6
<1> HIDE DEF T
<1>4. SUBSET D \subseteq T
  BY <1>2, <1>3, SubsetInduction
<1>5. D \in T
  BY <1>4
<1> QED BY <1>5, SumNat DEF T

\* When one value changes the sum changes by as much.
LEMMA SumChange ==
  ASSUME NEW D, IsFiniteSet(D), NEW f \in [D -> Nat], NEW g \in [D -> Nat],
         NEW k \in D, \A x \in D : x # k => g[x] = f[x]
  PROVE  SumFunction(g) + f[k] = SumFunction(f) + g[k]
<1> DEFINE T == {s \in SUBSET D : Partial(g)[s] + (IF k \in s THEN f[k] ELSE 0)
                                    = Partial(f)[s] + (IF k \in s THEN g[k] ELSE 0)}
<1>1. /\ Partial(f)[{}] = 0 /\ Partial(g)[{}] = 0
      /\ \A s \in SUBSET D : s # {} => Partial(f)[s] = f[Pick(s)] + Partial(f)[s \ {Pick(s)}]
      /\ \A s \in SUBSET D : s # {} => Partial(g)[s] = g[Pick(s)] + Partial(g)[s \ {Pick(s)}]
  <2>1. DOMAIN f = D /\ DOMAIN g = D
    OBVIOUS
  <2> QED BY <2>1, PartialDefined
<1>2. {} \in T
  BY <1>1
<1>3. ASSUME NEW s \in SUBSET D, s # {}, s \ {Pick(s)} \in T PROVE s \in T
  <2> DEFINE r == s \ {Pick(s)}
  <2>1. Pick(s) \in s /\ Pick(s) \in D /\ r \in SUBSET D
    BY <1>3 DEF Pick
  <2>2. /\ f[Pick(s)] \in Nat /\ g[Pick(s)] \in Nat /\ f[k] \in Nat /\ g[k] \in Nat
    BY <2>1
  <2>3. Partial(f)[r] \in Nat /\ Partial(g)[r] \in Nat
    BY <2>1, PartialNat
  <2>4. /\ Partial(f)[s] = f[Pick(s)] + Partial(f)[r]
        /\ Partial(g)[s] = g[Pick(s)] + Partial(g)[r]
    BY <1>1, <1>3
  <2>5. Partial(g)[r] + (IF k \in r THEN f[k] ELSE 0) = Partial(f)[r] + (IF k \in r THEN g[k] ELSE 0)
    BY <1>3
  <2> HIDE DEF r
  <2>6. CASE Pick(s) = k
    <3>1. k \in s /\ k \notin r
      BY <2>1, <2>6 DEF r
    <3>2. Partial(g)[r] = Partial(f)[r]
      BY <2>3, <2>5, <3>1
    <3>3. Partial(g)[s] + f[k] = Partial(f)[s] + g[k]
      BY <2>2, <2>3, <2>4, <2>6, <3>2
    <3> QED BY <3>1, <3>3
  <2>7. CASE Pick(s) # k
    <3>1. k \in s <=> k \in r
      BY <2>7 DEF r
    <3>2. f[Pick(s)] = g[Pick(s)]
      BY <2>1, <2>7
    <3>3. CASE k \in r
      BY <2>2, <2>3, <2>4, <2>5, <3>1, <3>2, <3>3
    <3>4. CASE k \notin r
      BY <2>2, <2>3, <2>4, <2>5, <3>1, <3>2, <3>4
    <3> QED BY <3>3, <3>4
  <2> QED BY <2>6, <2>7
<1> HIDE DEF T
<1>4. SUBSET D \subseteq T
  BY <1>2, <1>3, SubsetInduction
<1>5. D \in T
  BY <1>4
<1> QED BY <1>5, SumNat DEF T

\* A sum of zeros is zero, and a sum is not less than any of its terms.
LEMMA SumTerms ==
  ASSUME NEW D, IsFiniteSet(D), NEW f \in [D -> Nat]
  PROVE  /\ (\A x \in D : f[x] = 0) => SumFunction(f) = 0
         /\ \A x \in D : f[x] <= SumFunction(f)
<1> DEFINE z == [x \in D |-> 0]
<1>1. z \in [D -> Nat] /\ \A x \in D : z[x] = 0
  OBVIOUS
<1>2. SumFunction(z) = 0
  <2> DEFINE T == {s \in SUBSET D : Partial(z)[s] = 0}
  <2>1. /\ Partial(z)[{}] = 0
        /\ \A s \in SUBSET D : s # {} => Partial(z)[s] = z[Pick(s)] + Partial(z)[s \ {Pick(s)}]
    BY PartialDefined
  <2> HIDE DEF z
  <2>2. {} \in T
    BY <2>1
  <2>3. ASSUME NEW s \in SUBSET D, s # {}, s \ {Pick(s)} \in T PROVE s \in T
    <3>1. Pick(s) \in D
      BY <2>3 DEF Pick
    <3>2. z[Pick(s)] = 0 /\ Partial(z)[s \ {Pick(s)}] = 0
      BY <1>1, <2>3, <3>1
    <3>3. Partial(z)[s] = z[Pick(s)] + Partial(z)[s \ {Pick(s)}]
      BY <2>1, <2>3
    <3>4. Partial(z)[s] = 0
      BY <3>2, <3>3
    <3> QED BY <3>4
  <2> HIDE DEF T
  <2>4. SUBSET D \subseteq T
    BY <2>2, <2>3, SubsetInduction
  <2>5. D \in T
    BY <2>4
  <2> QED BY <1>1, <2>5, SumNat DEF T
<1> HIDE DEF z
<1>3. ASSUME \A x \in D : f[x] = 0 PROVE SumFunction(f) = 0
  <2>1. SumFunction(f) <= SumFunction(z) /\ SumFunction(f) \in Nat
    BY <1>1, <1>3, SumLess, SumNat
  <2> QED BY <1>2, <2>1
<1>4. ASSUME NEW x \in D PROVE f[x] <= SumFunction(f)
  <2> DEFINE g == [f EXCEPT ![x] = 0]
  <2>1. g \in [D -> Nat] /\ g[x] = 0 /\ \A y \in D : y # x => g[y] = f[y]
    OBVIOUS
  <2> HIDE DEF g
  <2>2. SumFunction(g) + f[x] = SumFunction(f) + g[x]
    BY <2>1, SumChange
  <2>3. SumFunction(g) \in Nat /\ SumFunction(f) \in Nat /\ f[x] \in Nat
    BY <2>1, SumNat
  <2> QED BY <2>1, <2>2, <2>3
<1> QED BY <1>3, <1>4

-----------------------------------------------------------------------------
(***************************************************************************)
(* The sizes of trees, and the numbers of threads.                         *)
(***************************************************************************)

\* The equations of Shifted.
LEMMA ShiftedDefined ==
  /\ Shifted[0] = 1
  /\ \A d \in 1..Flat : Shifted[d] = 2 * Shifted[d - 1]
<1> DEFINE Body(g, d) == IF d = 0 THEN 1 ELSE 2 * g[d - 1]
           C == {n \in Nat : \E g : g = [d \in 0..n |-> Body(g, d)]}
<1>1. 0 \in C
  <2> DEFINE g == [d \in 0..0 |-> 1]
  <2>1. g = [d \in 0..0 |-> Body(g, d)]
    OBVIOUS
  <2> HIDE DEF g, Body
  <2> QED BY <2>1
<1>2. ASSUME NEW n \in Nat, n \in C PROVE n + 1 \in C
  <2>1. PICK g : g = [d \in 0..n |-> Body(g, d)]
    BY <1>2
  <2> DEFINE h == [d \in 0..n+1 |-> Body(g, d)]
  <2>2. ASSUME NEW d \in 0..n PROVE h[d] = g[d]
    <3>1. g[d] = Body(g, d) /\ d \in 0..n+1
      BY <2>1
    <3> QED BY <3>1
  <2>3. ASSUME NEW d \in 0..n+1 PROVE Body(g, d) = Body(h, d)
    <3>1. CASE d = 0
      BY <3>1
    <3>2. CASE d # 0
      <4>1. d - 1 \in 0..n
        BY <3>2
      <4> QED BY <2>2, <3>2, <4>1
    <3> QED BY <3>1, <3>2
  <2>4. h = [d \in 0..n+1 |-> Body(h, d)]
    BY <2>3
  <2> HIDE DEF h, Body
  <2> QED BY <2>4
<1>3. Flat \in Nat
  BY SizeAssumption DEF Flat
<1>4. Flat \in C
  <2> HIDE DEF C
  <2> QED BY <1>1, <1>2, <1>3, Induction
<1>5. Shifted = [d \in 0..Flat |-> Body(Shifted, d)]
  <2>1. \E g : g = [d \in 0..Flat |-> Body(g, d)]
    BY <1>4
  <2> QED BY <2>1 DEF Shifted, Tasks
<1>6. ASSUME NEW d \in 0..Flat PROVE Shifted[d] = Body(Shifted, d)
  BY <1>5
<1>7. Shifted[0] = 1
  BY <1>3, <1>6
<1>8. ASSUME NEW d \in 1..Flat PROVE Shifted[d] = 2 * Shifted[d - 1]
  <2>1. d \in 0..Flat /\ d # 0
    BY <1>3
  <2> QED BY <1>6, <2>1
<1> QED BY <1>7, <1>8

\* A tree has leaves.
LEMMA ShiftedNat == \A d \in Tasks : Shifted[d] \in Nat \ {0}
<1> DEFINE T == {n \in Nat : n <= Flat => Shifted[n] \in Nat \ {0}}
<1>0. Flat \in Nat
  BY SizeAssumption DEF Flat
<1>1. 0 \in T
  BY ShiftedDefined
<1>2. ASSUME NEW n \in Nat, n \in T PROVE n + 1 \in T
  <2> SUFFICES ASSUME n + 1 <= Flat PROVE Shifted[n + 1] \in Nat \ {0}
    OBVIOUS
  <2>1. n + 1 \in 1..Flat /\ n <= Flat /\ (n + 1) - 1 = n
    BY <1>0
  <2>2. Shifted[n + 1] = 2 * Shifted[n] /\ Shifted[n] \in Nat \ {0}
    BY <1>2, <2>1, ShiftedDefined
  <2> QED BY <2>2
<1> HIDE DEF T
<1>3. Nat \subseteq T
  BY <1>1, <1>2, Induction
<1> QED BY <1>0, <1>3 DEF T, Tasks

\* A tree is a root and two trees that are one less deep.
LEMMA TreeSizes ==
  /\ \A d \in 0..TreeDepth : TreeSize(d) \in Nat \ {0} /\ Shifted[d] \in Nat \ {0}
  /\ TreeSize(0) = 1 /\ Shifted[0] = 1
  /\ \A d \in 1..TreeDepth : /\ TreeSize(d) = 1 + 2 * TreeSize(d - 1)
                             /\ Shifted[d] = 2 * Shifted[d - 1]
<1>0. TreeDepth \in Nat /\ Flat = TreeDepth + 1
  BY SizeAssumption DEF Flat
<1>1. ASSUME NEW d \in 0..TreeDepth
      PROVE  /\ Shifted[d] \in Nat \ {0} /\ Shifted[d + 1] = 2 * Shifted[d]
             /\ TreeSize(d) = 2 * Shifted[d] - 1
  <2>1. d \in Tasks /\ d + 1 \in 1..Flat /\ (d + 1) - 1 = d
    BY <1>0 DEF Tasks
  <2> QED BY <2>1, ShiftedNat, ShiftedDefined DEF TreeSize
<1>2. ASSUME NEW d \in 0..TreeDepth PROVE TreeSize(d) \in Nat \ {0} /\ Shifted[d] \in Nat \ {0}
  BY <1>1
<1>3. TreeSize(0) = 1 /\ Shifted[0] = 1
  <2>1. 0 \in 0..TreeDepth /\ Shifted[0] = 1
    BY <1>0, ShiftedDefined
  <2>2. TreeSize(0) = 2 * Shifted[0] - 1
    BY <1>1, <2>1
  <2> QED BY <2>1, <2>2
<1>4. ASSUME NEW d \in 1..TreeDepth
      PROVE  TreeSize(d) = 1 + 2 * TreeSize(d - 1) /\ Shifted[d] = 2 * Shifted[d - 1]
  <2>1. d \in 0..TreeDepth /\ d - 1 \in 0..TreeDepth /\ (d - 1) + 1 = d
    BY <1>0
  <2>2. TreeSize(d) = 2 * Shifted[d] - 1 /\ TreeSize(d - 1) = 2 * Shifted[d - 1] - 1
    BY <1>1, <2>1
  <2>3. Shifted[d] = 2 * Shifted[d - 1] /\ Shifted[d - 1] \in Nat
    BY <1>1, <2>1
  <2> QED BY <2>2, <2>3
<1> QED BY <1>2, <1>3, <1>4

\* The equations of CountsFrom.
After(n) == IF n < 4 THEN n + 1 ELSE n * 2

LEMMA CountsDefined ==
  \A n \in 1..2*Hw :
    CountsFrom[n] = IF n > Hw THEN <<>> ELSE <<n>> \o CountsFrom[After(n)]
<1> DEFINE D == 1..2*Hw
           Body(g, n) == IF n > Hw THEN <<>> ELSE <<n>> \o g[After(n)]
           From(m) == {n \in D : n + m >= 2 * Hw}
           C == {m \in Nat : \E g : g = [n \in From(m) |-> Body(g, n)]}
<1>0. Hw \in Nat \ {0}
  BY HwAssumption
<1>1. 0 \in C
  <2> DEFINE g == [n \in From(0) |-> <<>>]
  <2>1. \A n \in From(0) : n > Hw
    BY <1>0
  <2>2. g = [n \in From(0) |-> Body(g, n)]
    BY <2>1
  <2> HIDE DEF g, Body, From
  <2> QED BY <2>2
<1>2. ASSUME NEW m \in Nat, m \in C PROVE m + 1 \in C
  <2>1. PICK g : g = [n \in From(m) |-> Body(g, n)]
    BY <1>2
  <2> DEFINE h == [n \in From(m + 1) |-> Body(g, n)]
  <2>2. ASSUME NEW n \in From(m) PROVE h[n] = g[n]
    <3>1. g[n] = Body(g, n)
      BY <2>1
    <3>2. n \in From(m + 1)
      BY <1>0
    <3> QED BY <3>1, <3>2
  <2>3. ASSUME NEW n \in From(m + 1) PROVE Body(g, n) = Body(h, n)
    <3>1. CASE n > Hw
      BY <3>1
    <3>2. CASE ~(n > Hw)
      <4>1. After(n) \in From(m)
        BY <1>0, <3>2 DEF After
      <4> QED BY <2>2, <3>2, <4>1
    <3> QED BY <3>1, <3>2
  <2>4. h = [n \in From(m + 1) |-> Body(h, n)]
    BY <2>3
  <2> HIDE DEF h, Body, From
  <2> QED BY <2>4
<1>3. 2 * Hw \in C
  <2> HIDE DEF C
  <2>1. 2 * Hw \in Nat
    BY <1>0
  <2> QED BY <1>1, <1>2, <2>1, Induction
<1>4. From(2 * Hw) = D
  BY <1>0
<1>5. CountsFrom = [n \in D |-> Body(CountsFrom, n)]
  <2>1. \E g : g = [n \in D |-> Body(g, n)]
    BY <1>3, <1>4
  <2> QED BY <2>1 DEF CountsFrom, After
<1> QED BY <1>5

\* The elements of a sequence, and a sequence with one more in front or behind.
LEMMA Element == ASSUME NEW S, NEW q \in Seq(S), NEW i \in 1..Len(q) PROVE q[i] \in S
OBVIOUS

LEMMA Prepend ==
  ASSUME NEW S, NEW n \in S, NEW r \in Seq(S)
  PROVE  LET c == <<n>> \o r
         IN  /\ c \in Seq(S) /\ Len(r) \in Nat /\ Len(c) = Len(r) + 1
             /\ c[1] = n /\ \A i \in 1..Len(r) : c[i + 1] = r[i]
OBVIOUS

\* The numbers of threads are at most Hw, and increase.
Increasing(c) == \A i, j \in 1..Len(c) : i < j => c[i] < c[j]

LEMMA CountsIncrease ==
  \A n \in 1..2*Hw :
     /\ CountsFrom[n] \in Seq(1..Hw) /\ Increasing(CountsFrom[n])
     /\ \A i \in 1..Len(CountsFrom[n]) : n <= CountsFrom[n][i]
     /\ n <= Hw => Len(CountsFrom[n]) > 0
<1> DEFINE P(n) == /\ CountsFrom[n] \in Seq(1..Hw) /\ Increasing(CountsFrom[n])
                   /\ \A i \in 1..Len(CountsFrom[n]) : n <= CountsFrom[n][i]
                   /\ n <= Hw => Len(CountsFrom[n]) > 0
           T == {m \in Nat : \A n \in 1..2*Hw : n + m >= 2 * Hw => P(n)}
<1>0. Hw \in Nat \ {0}
  BY HwAssumption
<1>1. ASSUME NEW n \in 1..2*Hw, n > Hw PROVE P(n)
  <2>1. CountsFrom[n] = <<>>
    BY <1>1, CountsDefined
  <2>2. /\ CountsFrom[n] \in Seq(1..Hw) /\ Len(CountsFrom[n]) = 0
    BY <2>1
  <2> HIDE DEF P
  <2>3. ~(n <= Hw) /\ 1..Len(CountsFrom[n]) = {}
    BY <1>0, <1>1, <2>2
  <2> QED BY <2>2, <2>3 DEF Increasing, P
<1>2. 0 \in T
  <2>1. ASSUME NEW n \in 1..2*Hw, n + 0 >= 2 * Hw PROVE P(n)
    <3>1. n > Hw
      BY <1>0, <2>1
    <3> QED BY <1>1, <3>1
  <2> HIDE DEF P
  <2> QED BY <2>1
<1>3. ASSUME NEW m \in Nat, m \in T PROVE m + 1 \in T
  <2>1. ASSUME NEW n \in 1..2*Hw, n + (m + 1) >= 2 * Hw, n <= Hw PROVE P(n)
    <3>1. /\ After(n) \in 1..2*Hw /\ After(n) > n /\ After(n) + m >= 2 * Hw
          /\ n \in 1..Hw
      BY <1>0, <2>1 DEF After
    <3>2. P(After(n))
      BY <1>3, <3>1
    <3> DEFINE r == CountsFrom[After(n)]
               c == CountsFrom[n]
    <3>3. c = <<n>> \o r
      <4>1. ~(n > Hw)
        BY <1>0, <2>1
      <4> QED BY <4>1, CountsDefined
    <3>4. /\ r \in Seq(1..Hw) /\ \A i \in 1..Len(r) : After(n) <= r[i]
          /\ \A i, j \in 1..Len(r) : i < j => r[i] < r[j]
      BY <3>2 DEF Increasing
    <3> HIDE DEF r, c, P
    <3>a. Len(r) \in Nat /\ \A i \in 1..Len(r) : r[i] \in 1..Hw
      <4>1. Len(r) \in Nat
        BY <3>4
      <4>2. \A i \in 1..Len(r) : r[i] \in 1..Hw
        BY <3>4, Element
      <4> QED BY <4>1, <4>2
    <3>5. /\ c \in Seq(1..Hw) /\ Len(c) = Len(r) + 1
          /\ c[1] = n /\ \A i \in 1..Len(r) : c[i + 1] = r[i]
      BY <3>1, <3>3, <3>4, Prepend
    <3>6. \A i \in 2..Len(c) : i - 1 \in 1..Len(r) /\ c[i] = r[i - 1]
      <4> SUFFICES ASSUME NEW i \in 2..Len(c) PROVE i - 1 \in 1..Len(r) /\ c[i] = r[i - 1]
        OBVIOUS
      <4>1. i - 1 \in 1..Len(r) /\ (i - 1) + 1 = i
        BY <3>a, <3>5
      <4> QED BY <3>5, <4>1
    <3>7. \A i \in 1..Len(c) : c[i] \in 1..Hw /\ n <= c[i] /\ (i # 1 => n < c[i])
      <4> SUFFICES ASSUME NEW i \in 1..Len(c)
                   PROVE  c[i] \in 1..Hw /\ n <= c[i] /\ (i # 1 => n < c[i])
        OBVIOUS
      <4>1. CASE i = 1
        BY <3>1, <3>5, <4>1
      <4>2. CASE i # 1
        <5>1. i \in 2..Len(c)
          BY <3>a, <3>5, <4>2
        <5>2. PICK k \in 1..Len(r) : c[i] = r[k]
          BY <3>6, <5>1
        <5>3. r[k] \in 1..Hw /\ After(n) <= r[k]
          BY <3>4, <3>a
        <5> QED BY <1>0, <3>1, <5>2, <5>3
      <4> QED BY <4>1, <4>2
    <3>8. ASSUME NEW i \in 1..Len(c), NEW j \in 1..Len(c), i < j PROVE c[i] < c[j]
      <4>1. CASE i = 1
        BY <3>5, <3>7, <3>8, <4>1
      <4>2. CASE i # 1
        <5>1. i - 1 \in 1..Len(r) /\ j - 1 \in 1..Len(r) /\ i - 1 < j - 1
              /\ c[i] = r[i - 1] /\ c[j] = r[j - 1]
          BY <3>a, <3>5, <3>6, <3>8, <4>2
        <5> QED BY <3>4, <5>1
      <4> QED BY <4>1, <4>2
    <3>9. Len(c) > 0
      BY <3>a, <3>5
    <3> QED BY <3>5, <3>7, <3>8, <3>9 DEF Increasing, c, P
  <2>2. ASSUME NEW n \in 1..2*Hw, n + (m + 1) >= 2 * Hw PROVE P(n)
    <3> HIDE DEF P
    <3>1. n <= Hw \/ n > Hw
      BY <1>0
    <3> QED BY <1>1, <2>1, <2>2, <3>1
  <2> HIDE DEF P
  <2> QED BY <2>2
<1> HIDE DEF P, T
<1>4. 2 * Hw \in T
  <2>1. 2 * Hw \in Nat
    BY <1>0
  <2> QED BY <1>2, <1>3, <2>1, Induction
<1>5. ASSUME NEW n \in 1..2*Hw PROVE P(n)
  <2>1. n + 2 * Hw >= 2 * Hw
    BY <1>0
  <2> QED BY <1>4, <2>1 DEF T
<1> QED BY <1>5 DEF P

\* There are thread counts, all of them at most Hw and no two the same.
LEMMA ThreadCountsFacts ==
  /\ ThreadCounts \in Seq(1..Hw) /\ Len(ThreadCounts) \in Nat \ {0}
  /\ \A i \in 1..Len(ThreadCounts) : ThreadCounts[i] \in 1..Hw
  /\ \A i, j \in 1..Len(ThreadCounts) : ThreadCounts[i] = ThreadCounts[j] => i = j
<1>1. 1 \in 1..2*Hw /\ 1 <= Hw
  BY HwAssumption
<1>2. /\ ThreadCounts \in Seq(1..Hw) /\ Len(ThreadCounts) > 0
      /\ Increasing(ThreadCounts)
  BY <1>1, CountsIncrease DEF ThreadCounts
<1>3. \A i \in 1..Len(ThreadCounts) : ThreadCounts[i] \in 1..Hw
  BY <1>2, Element
<1>4. Len(ThreadCounts) \in Nat \ {0}
  BY <1>2
<1>5. ASSUME NEW i \in 1..Len(ThreadCounts), NEW j \in 1..Len(ThreadCounts),
             ThreadCounts[i] = ThreadCounts[j]
      PROVE  i = j
  <2>1. ~(i < j) /\ ~(j < i)
    BY <1>2, <1>3, <1>5, HwAssumption DEF Increasing
  <2> QED BY <1>4, <2>1
<1> QED BY <1>2, <1>3, <1>4, <1>5

-----------------------------------------------------------------------------
(***************************************************************************)
(* The inductive invariant.                                                *)
(***************************************************************************)

\* How many tasks a task becomes, itself included, and how many leaves.
Size    == [k \in Tasks |-> IF k = Flat THEN 1 ELSE TreeSize(k)]
Breadth == [k \in Tasks |-> IF k = Flat THEN 1 ELSE Shifted[k]]

\* What the tasks in the scheduler become, and the ones that a worker's task has not
\* submitted yet, each task of a kind counted with its weight W.
Waiting(W)     == SumFunction([k \in Tasks |-> todo[k] * W[k]])
Owed(w, W)     == IF task[w] \in 1..TreeDepth THEN (2 - spawned[w]) * W[task[w] - 1] ELSE 0
Unspawned(W)   == SumFunction([w \in Workers |-> Owed(w, W)])
Outstanding(W) == Waiting(W) + Unspawned(W)

Busy == {w \in Workers : task[w] # Idle}

Row == [sched : Nat, bench : 1..3, num_workers : Nat,
        num_tasks : Nat, executed : Nat, counted : Nat]

Types ==
  /\ sched \in 1..Schedulers+1 /\ place \in 1..Len(ThreadCounts) /\ bench \in 1..3
  /\ pass \in {"warm-up", "timed", "table"}
  /\ submitted \in Nat /\ submitted <= Workload.roots
  /\ count \in Nat /\ count <= TreeSize(TreeDepth)
  /\ executed \in Nat
  /\ task \in [Workers -> 0..Idle] /\ spawned \in [Workers -> 0..2]
  /\ results \in Seq(Row)
  /\ todo \in [Tasks -> Nat] /\ running \in [Tasks -> Nat] /\ done \in [Tasks -> Nat]
  /\ driver \in {"out", "in"}

\* The tasks there are belong to the workload.
Kinds ==
  /\ \A k \in Tasks : todo[k] > 0 => (k = Flat <=> Workload.root = Flat)
  /\ \A w \in Busy : task[w] = Flat <=> Workload.root = Flat

\* Workers work in run() only, and run() is called when all is submitted.
Driven ==
  /\ driver = "in" => submitted = Workload.roots /\ pass # "table"
  /\ driver = "out" => Busy = {} /\ executed = 0
  /\ Busy \subseteq Crew
  /\ \A w \in Workers : task[w] \notin 1..TreeDepth => spawned[w] = 0
  /\ SumFunction(running) = Cardinality(Busy)

\* What has been executed, is executed or will be is what was submitted; g_task_count
\* counts what has been started; and no more leaves will be than the tree has.
Accounts ==
  /\ executed + Cardinality(Busy) + Outstanding(Size) = submitted * Size[Workload.root]
  /\ bench = 2 /\ submitted = 1 => count = executed + Cardinality(Busy)
  /\ Outstanding(Breadth) <= submitted * Breadth[Workload.root]

\* There is one row for every turn before this one, and no other.
Before(s, p, b) ==
  \/ s < sched
  \/ s = sched /\ p < place
  \/ s = sched /\ p = place /\ b < bench
IsRow(r, s, p, b) == r.sched = s /\ r.num_workers = ThreadCounts[p] /\ r.bench = b
Rows ==
  /\ \A i \in DOMAIN results :
       \E s \in 1..Schedulers, p \in 1..Len(ThreadCounts), b \in 1..3 :
         Before(s, p, b) /\ IsRow(results[i], s, p, b)
  /\ \A s \in 1..Schedulers, p \in 1..Len(ThreadCounts), b \in 1..3 :
       Before(s, p, b) =>
         \E i \in DOMAIN results : \A j \in DOMAIN results :
           i = j <=> IsRow(results[j], s, p, b)
  /\ pass = "table" <=> sched > Schedulers

IInv == Types /\ Kinds /\ Driven /\ Accounts /\ Rows /\ MeasuresAll

-----------------------------------------------------------------------------
(***************************************************************************)
(* The workloads, and the tasks and workers they are made of.              *)
(***************************************************************************)

\* The finite sets of tasks and workers.
LEMMA TaskFacts ==
  /\ TreeDepth \in Nat /\ Flat = TreeDepth + 1 /\ Idle = TreeDepth + 2
  /\ Tasks = 0..TreeDepth+1 /\ Workers = 1..Hw /\ Hw \in Nat \ {0}
  /\ IsFiniteSet(Tasks) /\ IsFiniteSet(Workers)
<1>1. TreeDepth \in Nat /\ Flat = TreeDepth + 1 /\ Idle = TreeDepth + 2 /\ Hw \in Nat \ {0}
  BY SizeAssumption, HwAssumption DEF Flat, Idle
<1>2. Tasks = 0..TreeDepth+1 /\ Workers = 1..Hw
  BY <1>1 DEF Tasks, Workers
<1>3. IsFiniteSet(0..TreeDepth+1) /\ IsFiniteSet(1..Hw)
  BY <1>1, FS_Interval
<1> QED BY <1>1, <1>2, <1>3

\* The three workloads; the second is the tree.
LEMMA WorkloadsFacts ==
  ASSUME NEW b \in 1..3
  PROVE  LET workload == Workloads[b]
         IN  /\ workload.roots \in Nat /\ workload.root \in Tasks /\ workload.total \in Nat
             /\ workload.root = Flat <=> b # 2
             /\ b = 2 => /\ workload.root = TreeDepth /\ workload.roots = 1
                         /\ workload.total = TreeSize(TreeDepth)
             /\ b # 2 => workload.total = workload.roots
<1>1. TreeSize(TreeDepth) \in Nat
  BY TreeSizes, TaskFacts
<1>2. CASE b = 1
  BY <1>2, TaskFacts, SizeAssumption DEF Workloads
<1>3. CASE b = 2
  BY <1>1, <1>3, TaskFacts, SizeAssumption DEF Workloads
<1>4. CASE b = 3
  BY <1>4, TaskFacts, SizeAssumption DEF Workloads
<1> QED BY <1>2, <1>3, <1>4

LEMMA WorkloadFacts ==
  ASSUME bench \in 1..3
  PROVE  /\ Workload.roots \in Nat /\ Workload.root \in Tasks /\ Workload.total \in Nat
         /\ Workload.root = Flat <=> bench # 2
         /\ bench = 2 => /\ Workload.root = TreeDepth /\ Workload.roots = 1
                         /\ Workload.total = TreeSize(TreeDepth)
         /\ bench # 2 => Workload.total = Workload.roots
BY WorkloadsFacts DEF Workload

\* A task that submits two becomes itself and what these become, and as many leaves.
LEMMA Weights ==
  /\ Size \in [Tasks -> Nat] /\ Breadth \in [Tasks -> Nat]
  /\ \A k \in Tasks : Size[k] > 0 /\ Breadth[k] > 0
  /\ Size[Flat] = 1 /\ Breadth[Flat] = 1
  /\ Size[0] = 1 /\ Size[TreeDepth] = TreeSize(TreeDepth)
  /\ Breadth[TreeDepth] = Shifted[TreeDepth]
  /\ \A k \in 1..TreeDepth : /\ k - 1 \in Tasks
                             /\ Size[k] = 1 + 2 * Size[k - 1]
                             /\ Breadth[k] = 2 * Breadth[k - 1]
<1>1. ASSUME NEW k \in 0..TreeDepth
      PROVE  Size[k] = TreeSize(k) /\ Breadth[k] = Shifted[k]
  BY TaskFacts DEF Size, Breadth
<1>2. Size[Flat] = 1 /\ Breadth[Flat] = 1
  BY TaskFacts DEF Size, Breadth
<1>3. ASSUME NEW k \in Tasks
      PROVE  Size[k] \in Nat /\ Breadth[k] \in Nat /\ Size[k] > 0 /\ Breadth[k] > 0
  <2>1. k = Flat \/ k \in 0..TreeDepth
    BY TaskFacts
  <2> QED BY <1>1, <1>2, <2>1, TreeSizes
<1>4. Size \in [Tasks -> Nat] /\ Breadth \in [Tasks -> Nat]
  BY <1>3 DEF Size, Breadth
<1>5. 0 \in 0..TreeDepth /\ TreeDepth \in 0..TreeDepth
  BY TaskFacts
<1>6. ASSUME NEW k \in 1..TreeDepth
      PROVE  /\ k - 1 \in Tasks
             /\ Size[k] = 1 + 2 * Size[k - 1] /\ Breadth[k] = 2 * Breadth[k - 1]
  <2>1. k \in 0..TreeDepth /\ k - 1 \in 0..TreeDepth /\ k - 1 \in Tasks
    BY TaskFacts
  <2> QED BY <1>1, <2>1, TreeSizes
<1> QED BY <1>1, <1>2, <1>3, <1>4, <1>5, <1>6, TreeSizes

\* The workers of this turn.
LEMMA CrewFacts ==
  ASSUME Types
  PROVE  /\ NumWorkers \in 1..Hw /\ Crew \subseteq Workers
         /\ IsFiniteSet(Busy) /\ Cardinality(Busy) \in Nat
         /\ Busy \subseteq Crew => Cardinality(Busy) <= NumWorkers
<1>1. NumWorkers \in 1..Hw
  BY ThreadCountsFacts DEF Types, NumWorkers
<1>2. Crew \subseteq Workers
  BY <1>1, TaskFacts DEF Crew
<1>3. IsFiniteSet(Busy) /\ Cardinality(Busy) \in Nat
  BY TaskFacts, FS_Subset, FS_CardinalityType DEF Busy
<1>4. ASSUME Busy \subseteq Crew PROVE Cardinality(Busy) <= NumWorkers
  <2>1. IsFiniteSet(Crew) /\ Cardinality(Crew) = NumWorkers
    <3>1. PICK n \in Nat : n = NumWorkers
      BY <1>1, TaskFacts
    <3>2. IsFiniteSet(1..n) /\ Cardinality(1..n) = n
      BY FS_Interval
    <3> QED BY <3>1, <3>2 DEF Crew
  <2> QED BY <1>4, <2>1, FS_Subset
<1> QED BY <1>1, <1>2, <1>3, <1>4

-----------------------------------------------------------------------------
(***************************************************************************)
(* What the steps do to the sums.                                          *)
(***************************************************************************)

\* The sums are numbers.
LEMMA OwedNat ==
  ASSUME task \in [Workers -> 0..Idle], spawned \in [Workers -> 0..2],
         NEW W \in [Tasks -> Nat], NEW w \in Workers
  PROVE  Owed(w, W) \in Nat
<1>1. CASE task[w] \in 1..TreeDepth
  <2>1. task[w] - 1 \in Tasks /\ 2 - spawned[w] \in Nat
    <3>1. spawned[w] \in 0..2
      OBVIOUS
    <3>2. 2 - spawned[w] \in Nat
      BY <3>1
    <3>3. task[w] - 1 \in Tasks
      BY <1>1, TaskFacts
    <3> QED BY <3>2, <3>3
  <2>2. W[task[w] - 1] \in Nat
    BY <2>1
  <2> QED BY <1>1, <2>1, <2>2 DEF Owed
<1>2. CASE task[w] \notin 1..TreeDepth
  BY <1>2 DEF Owed
<1> QED BY <1>1, <1>2

LEMMA OutstandingNat ==
  ASSUME todo \in [Tasks -> Nat], task \in [Workers -> 0..Idle], spawned \in [Workers -> 0..2],
         NEW W \in [Tasks -> Nat]
  PROVE  /\ [k \in Tasks |-> todo[k] * W[k]] \in [Tasks -> Nat]
         /\ [w \in Workers |-> Owed(w, W)] \in [Workers -> Nat]
         /\ Waiting(W) \in Nat /\ Unspawned(W) \in Nat
         /\ Outstanding(W) = Waiting(W) + Unspawned(W)
<1>1. ASSUME NEW k \in Tasks PROVE todo[k] * W[k] \in Nat
  OBVIOUS
<1>2. [k \in Tasks |-> todo[k] * W[k]] \in [Tasks -> Nat]
  BY <1>1
<1>3. [w \in Workers |-> Owed(w, W)] \in [Workers -> Nat]
  BY OwedNat
<1> QED BY <1>2, <1>3, TaskFacts, SumNat DEF Waiting, Unspawned, Outstanding

\* Submissions of one task come or go.
LEMMA WaitingChanges ==
  ASSUME todo \in [Tasks -> Nat], todo' \in [Tasks -> Nat],
         NEW k \in Tasks, \A j \in Tasks : j # k => todo'[j] = todo[j],
         NEW W \in [Tasks -> Nat]
  PROVE  /\ Waiting(W)' \in Nat
         /\ Waiting(W)' + todo[k] * W[k] = Waiting(W) + todo'[k] * W[k]
<1> DEFINE f == [j \in Tasks |-> todo[j] * W[j]]
           g == [j \in Tasks |-> todo'[j] * W[j]]
<1>1. f \in [Tasks -> Nat] /\ g \in [Tasks -> Nat]
  <2>1. \A j \in Tasks : todo[j] * W[j] \in Nat /\ todo'[j] * W[j] \in Nat
    OBVIOUS
  <2> QED BY <2>1
<1>2. \A j \in Tasks : j # k => g[j] = f[j]
  OBVIOUS
<1>3. f[k] = todo[k] * W[k] /\ g[k] = todo'[k] * W[k]
  OBVIOUS
<1>4. Waiting(W) = SumFunction(f) /\ Waiting(W)' = SumFunction(g)
  BY DEF Waiting
<1> HIDE DEF f, g
<1>5. SumFunction(g) \in Nat /\ SumFunction(g) + f[k] = SumFunction(f) + g[k]
  <2>1. IsFiniteSet(Tasks)
    BY TaskFacts
  <2> QED BY <1>1, <1>2, <2>1, SumChange, SumNat
<1> QED BY <1>3, <1>4, <1>5

\* One worker goes on.
LEMMA UnspawnedChanges ==
  ASSUME task \in [Workers -> 0..Idle], spawned \in [Workers -> 0..2],
         task' \in [Workers -> 0..Idle], spawned' \in [Workers -> 0..2],
         NEW w \in Workers,
         \A v \in Workers : v # w => task'[v] = task[v] /\ spawned'[v] = spawned[v],
         NEW W \in [Tasks -> Nat]
  PROVE  /\ Unspawned(W)' \in Nat
         /\ Unspawned(W)' + Owed(w, W) = Unspawned(W) + Owed(w, W)'
<1> DEFINE f == [v \in Workers |-> Owed(v, W)]
           g == [v \in Workers |-> Owed(v, W)']
<1>1. f \in [Workers -> Nat]
  BY OwedNat
<1>2. g \in [Workers -> Nat]
  <2>1. ASSUME NEW v \in Workers PROVE Owed(v, W)' \in Nat
    <3>1. CASE task'[v] \in 1..TreeDepth
      <4>1. task'[v] - 1 \in Tasks /\ 2 - spawned'[v] \in Nat
        <5>1. spawned'[v] \in 0..2
          OBVIOUS
        <5>2. 2 - spawned'[v] \in Nat
          BY <5>1
        <5>3. \A k \in 1..TreeDepth : k - 1 \in Tasks
          BY TaskFacts
        <5> QED BY <3>1, <5>2, <5>3
      <4>2. W[task'[v] - 1] \in Nat
        BY <4>1
      <4> QED BY <3>1, <4>1, <4>2 DEF Owed
    <3>2. CASE task'[v] \notin 1..TreeDepth
      BY <3>2 DEF Owed
    <3> QED BY <3>1, <3>2
  <2> QED BY <2>1
<1>3. \A v \in Workers : v # w => g[v] = f[v]
  BY DEF Owed
<1>4. f[w] = Owed(w, W) /\ g[w] = Owed(w, W)'
  OBVIOUS
<1>5. Unspawned(W) = SumFunction(f) /\ Unspawned(W)' = SumFunction(g)
  BY DEF Unspawned, Workers
<1> HIDE DEF f, g
<1>6. SumFunction(g) \in Nat /\ SumFunction(g) + f[w] = SumFunction(f) + g[w]
  <2>1. IsFiniteSet(Workers)
    BY TaskFacts
  <2> QED BY <1>1, <1>2, <1>3, <2>1, SumChange, SumNat
<1> QED BY <1>4, <1>5, <1>6

-----------------------------------------------------------------------------
\* The scheduler's variables keep their types.
LEMMA StateTypes ==
  ASSUME Types, SetUp \/ Run \/ Return \/ \E w \in Workers : Worker(w)
  PROVE  /\ todo' \in [Tasks -> Nat] /\ running' \in [Tasks -> Nat] /\ done' \in [Tasks -> Nat]
         /\ driver' \in {"out", "in"}
<1> USE DEF Types
<1>1. CASE SetUp
  <2>1. Workload.root \in Tasks
    BY WorkloadFacts
  <2>2. todo' \in [Tasks -> Nat]
    BY <1>1, <2>1 DEF SetUp, Sched!Submit
  <2> QED BY <1>1, <2>2 DEF SetUp, Sched!Submit
<1>2. CASE Run
  BY <1>2 DEF Run, Sched!Run
<1>3. CASE Return
  BY <1>3 DEF Return, Sched!Return
<1>4. ASSUME NEW w \in Workers, NEW k \in Tasks, Start(w, k)
      PROVE  /\ todo' \in [Tasks -> Nat] /\ running' \in [Tasks -> Nat]
             /\ done' = done /\ driver' = driver
  <2>1. /\ todo[k] > 0 /\ todo' = [todo EXCEPT ![k] = @ - 1]
        /\ running' = [running EXCEPT ![k] = @ + 1] /\ done' = done /\ driver' = driver
    BY <1>4 DEF Start, Sched!Start
  <2>2. todo[k] \in Nat /\ running[k] \in Nat
    OBVIOUS
  <2>3. todo[k] - 1 \in Nat /\ running[k] + 1 \in Nat
    BY <2>1, <2>2
  <2> QED BY <2>1, <2>3
<1>5. ASSUME NEW w \in Workers, Spawn(w)
      PROVE  todo' \in [Tasks -> Nat] /\ UNCHANGED <<running, done, driver>>
  <2>1. UNCHANGED <<running, done, driver>> /\ todo' = [todo EXCEPT ![task[w] - 1] = @ + 1]
    BY <1>5 DEF Spawn, Sched!Submit
  <2>2. ASSUME NEW j \in Tasks PROVE todo'[j] \in Nat
    <3>1. todo[j] \in Nat
      OBVIOUS
    <3>2. todo'[j] = todo[j] + 1 \/ todo'[j] = todo[j]
      BY <2>1
    <3> QED BY <3>1, <3>2
  <2>3. todo' = [j \in Tasks |-> todo'[j]]
    BY <2>1
  <2> QED BY <2>1, <2>2, <2>3
<1>6. ASSUME NEW w \in Workers, Finish(w)
      PROVE  /\ running' \in [Tasks -> Nat] /\ done' \in [Tasks -> Nat]
             /\ UNCHANGED <<todo, driver>>
  <2>1. /\ running[task[w]] > 0 /\ running' = [running EXCEPT ![task[w]] = @ - 1]
        /\ done' = [done EXCEPT ![task[w]] = @ + 1] /\ UNCHANGED <<todo, driver>>
    BY <1>6 DEF Finish, Sched!Finish
  <2>2. ASSUME task[w] \in Tasks PROVE running[task[w]] - 1 \in Nat /\ done[task[w]] + 1 \in Nat
    <3>1. running[task[w]] \in Nat /\ done[task[w]] \in Nat
      BY <2>2
    <3> QED BY <2>1, <3>1
  <2> QED BY <2>1, <2>2
<1> QED BY <1>1, <1>2, <1>3, <1>4, <1>5, <1>6 DEF Worker

\* A worker is busy in run() only.
LEMMA BusyInRun ==
  ASSUME Types, Driven, NEW w \in Workers, task[w] # Idle
  PROVE  /\ driver = "in" /\ submitted = Workload.roots /\ pass # "table"
         /\ w \in Busy /\ task[w] \in Tasks
<1>1. w \in Busy
  BY DEF Busy
<1>2. task[w] \in Tasks
  <2>1. task[w] \in 0..Idle
    BY DEF Types
  <2> QED BY <2>1, TaskFacts
<1> QED BY <1>1, <1>2 DEF Driven, Types

\* One more is busy, or one less.
LEMMA BusyChanges ==
  ASSUME Types, NEW w \in Workers
  PROVE  /\ w \notin Busy => Cardinality(Busy \cup {w}) = Cardinality(Busy) + 1
         /\ w \in Busy => Cardinality(Busy \ {w}) = Cardinality(Busy) - 1
<1>1. IsFiniteSet(Busy)
  BY CrewFacts
<1> QED BY <1>1, FS_AddElement, FS_RemoveElement

\* The set-up adds a root.
LEMMA SetUpEffect ==
  ASSUME IInv, SetUp
  PROVE  /\ todo'[Workload.root] = todo[Workload.root] + 1
         /\ \A j \in Tasks : j # Workload.root => todo'[j] = todo[j]
         /\ \A W \in [Tasks -> Nat] : Outstanding(W)' = Outstanding(W) + W[Workload.root]
<1> DEFINE k == Workload.root
<1>1. /\ todo \in [Tasks -> Nat] /\ todo' \in [Tasks -> Nat]
      /\ task \in [Workers -> 0..Idle] /\ spawned \in [Workers -> 0..2]
  BY StateTypes DEF IInv, Types
<1>2. k \in Tasks
  BY WorkloadFacts DEF IInv, Types
<1>3. todo' = [todo EXCEPT ![k] = @ + 1] /\ task' = task /\ spawned' = spawned
  BY DEF SetUp, Sched!Submit
<1> HIDE DEF k
<1>4. todo'[k] = todo[k] + 1
  BY <1>1, <1>2, <1>3
<1>5. \A j \in Tasks : j # k => todo'[j] = todo[j]
  BY <1>1, <1>2, <1>3
<1>6. ASSUME NEW W \in [Tasks -> Nat]
      PROVE  Outstanding(W)' = Outstanding(W) + W[k]
  <2>1. /\ Waiting(W)' \in Nat
        /\ Waiting(W)' + todo[k] * W[k] = Waiting(W) + todo'[k] * W[k]
    BY <1>1, <1>2, <1>5, WaitingChanges
  <2>2. todo'[k] * W[k] = todo[k] * W[k] + W[k]
    <3>1. todo[k] \in Nat /\ W[k] \in Nat
      BY <1>1, <1>2
    <3> QED BY <1>4, <3>1
  <2>3. Unspawned(W)' = Unspawned(W)
    BY <1>3 DEF Unspawned, Owed
  <2>4. /\ Waiting(W) \in Nat /\ Unspawned(W) \in Nat
        /\ Outstanding(W) = Waiting(W) + Unspawned(W)
    BY <1>1, OutstandingNat
  <2>5. Outstanding(W)' = Waiting(W)' + Unspawned(W)'
    BY DEF Outstanding
  <2>6. todo[k] * W[k] \in Nat /\ W[k] \in Nat
    BY <1>1, <1>2
  <2> QED BY <2>1, <2>2, <2>3, <2>4, <2>5, <2>6
<1> QED BY <1>4, <1>5, <1>6 DEF k

-----------------------------------------------------------------------------
\* A task that a worker starts is not waiting any more, and what it submits is owed.
LEMMA StartEffect ==
  ASSUME IInv, NEW w \in Workers, NEW k \in Tasks, Start(w, k)
  PROVE  /\ driver = "in" /\ todo[k] > 0 /\ todo'[k] = todo[k] - 1
         /\ \A j \in Tasks : j # k => todo'[j] = todo[j]
         /\ Busy' = Busy \cup {w} /\ Cardinality(Busy)' = Cardinality(Busy) + 1
         /\ SumFunction(running)' = SumFunction(running) + 1
         /\ spawned[w] = 0 /\ task'[w] = k
         /\ \A v \in Workers : v # w => task'[v] = task[v]
         /\ \A W \in [Tasks -> Nat] :
              /\ Outstanding(W)' \in Nat
              /\ Outstanding(W)' + W[k]
                   = Outstanding(W) + (IF k \in 1..TreeDepth THEN 2 * W[k - 1] ELSE 0)
<1>1. /\ todo \in [Tasks -> Nat] /\ todo' \in [Tasks -> Nat]
      /\ running \in [Tasks -> Nat] /\ running' \in [Tasks -> Nat]
  BY StateTypes DEF IInv, Types, Worker
<1>2. /\ task \in [Workers -> 0..Idle] /\ spawned \in [Workers -> 0..2]
      /\ Types /\ Driven
  BY DEF IInv, Types
<1>3. /\ driver = "in" /\ todo[k] > 0 /\ todo' = [todo EXCEPT ![k] = @ - 1]
      /\ running' = [running EXCEPT ![k] = @ + 1]
      /\ w \in Crew /\ task[w] = Idle /\ task' = [task EXCEPT ![w] = k] /\ spawned' = spawned
  BY DEF Start, Sched!Start
<1>4. k \in 0..Idle /\ k # Idle /\ Idle \notin 1..TreeDepth
  BY TaskFacts
<1>5. todo'[k] = todo[k] - 1 /\ \A j \in Tasks : j # k => todo'[j] = todo[j]
  BY <1>1, <1>3
<1>6. /\ task' \in [Workers -> 0..Idle] /\ spawned' \in [Workers -> 0..2]
      /\ task'[w] = k /\ \A v \in Workers : v # w => task'[v] = task[v]
  BY <1>2, <1>3, <1>4
<1>7. spawned[w] = 0
  BY <1>2, <1>3, <1>4 DEF Driven
<1>8. Busy' = Busy \cup {w} /\ w \notin Busy
  BY <1>3, <1>4, <1>6 DEF Busy
<1>9. Cardinality(Busy)' = Cardinality(Busy) + 1
  BY <1>2, <1>8, BusyChanges
<1>10. SumFunction(running)' = SumFunction(running) + 1
  <2>1. running'[k] = running[k] + 1 /\ \A j \in Tasks : j # k => running'[j] = running[j]
    BY <1>1, <1>3
  <2>2. IsFiniteSet(Tasks)
    BY TaskFacts
  <2>3. /\ SumFunction(running') + running[k] = SumFunction(running) + running'[k]
        /\ SumFunction(running') \in Nat /\ SumFunction(running) \in Nat /\ running[k] \in Nat
    BY <1>1, <2>1, <2>2, SumChange, SumNat
  <2> QED BY <2>1, <2>3
<1>11. ASSUME NEW W \in [Tasks -> Nat]
       PROVE  /\ Outstanding(W)' \in Nat
              /\ Outstanding(W)' + W[k]
                   = Outstanding(W) + (IF k \in 1..TreeDepth THEN 2 * W[k - 1] ELSE 0)
  <2>1. /\ Waiting(W)' \in Nat
        /\ Waiting(W)' + todo[k] * W[k] = Waiting(W) + todo'[k] * W[k]
    BY <1>1, <1>5, WaitingChanges
  <2>2. todo'[k] * W[k] + W[k] = todo[k] * W[k]
    <3>1. todo[k] \in Nat /\ W[k] \in Nat
      BY <1>1
    <3> QED BY <1>5, <3>1
  <2>3. todo[k] * W[k] \in Nat /\ todo'[k] * W[k] \in Nat /\ W[k] \in Nat
    <3>1. todo[k] \in Nat /\ todo'[k] \in Nat /\ W[k] \in Nat
      BY <1>1
    <3> QED BY <3>1
  <2>4. Waiting(W) \in Nat /\ Unspawned(W) \in Nat /\ Outstanding(W) = Waiting(W) + Unspawned(W)
    BY <1>1, <1>2, OutstandingNat
  <2>5. Waiting(W)' + W[k] = Waiting(W)
    BY <2>1, <2>2, <2>3, <2>4
  <2>6. Owed(w, W) = 0
    BY <1>3, <1>4 DEF Owed
  <2>7. Owed(w, W)' = IF k \in 1..TreeDepth THEN 2 * W[k - 1] ELSE 0
    <3>1. CASE k \in 1..TreeDepth
      <4>1. k - 1 \in Tasks /\ spawned'[w] = 0
        BY <1>3, <1>7, <3>1, TaskFacts
      <4>2. Owed(w, W)' = (2 - 0) * W[k - 1]
        BY <1>6, <3>1, <4>1 DEF Owed
      <4>3. W[k - 1] \in Nat
        BY <4>1
      <4> QED BY <3>1, <4>2, <4>3
    <3>2. CASE k \notin 1..TreeDepth
      BY <1>6, <3>2 DEF Owed
    <3> QED BY <3>1, <3>2
  <2>8. Unspawned(W)' \in Nat /\ Unspawned(W)' + Owed(w, W) = Unspawned(W) + Owed(w, W)'
    BY <1>2, <1>3, <1>6, UnspawnedChanges
  <2>9. Outstanding(W)' = Waiting(W)' + Unspawned(W)'
    BY DEF Outstanding
  <2>10. ASSUME NEW b \in Nat, Owed(w, W)' = b
         PROVE  Outstanding(W)' + W[k] = Outstanding(W) + b
    BY <2>1, <2>3, <2>4, <2>5, <2>6, <2>8, <2>9, <2>10
  <2>11. (IF k \in 1..TreeDepth THEN 2 * W[k - 1] ELSE 0) \in Nat
    <3>1. k \in 1..TreeDepth => k - 1 \in Tasks
      BY TaskFacts
    <3>2. k \in 1..TreeDepth => 2 * W[k - 1] \in Nat
      BY <3>1
    <3> QED BY <3>2
  <2>12. Outstanding(W)' \in Nat
    BY <2>1, <2>8, <2>9
  <2> QED BY <2>7, <2>10, <2>11, <2>12
<1> QED BY <1>3, <1>5, <1>6, <1>7, <1>8, <1>9, <1>10, <1>11

\* A task that is submitted by another was owed.
LEMMA SpawnEffect ==
  ASSUME IInv, NEW w \in Workers, Spawn(w)
  PROVE  /\ task[w] \in 1..TreeDepth /\ task[w] - 1 \in Tasks /\ spawned[w] + 1 \in 0..2
         /\ \A j \in Tasks : j # task[w] - 1 => todo'[j] = todo[j]
         /\ spawned'[w] = spawned[w] + 1
         /\ \A v \in Workers : v # w => spawned'[v] = spawned[v]
         /\ \A W \in [Tasks -> Nat] : Outstanding(W)' = Outstanding(W)
<1> DEFINE k == task[w] - 1
<1>1. todo \in [Tasks -> Nat] /\ todo' \in [Tasks -> Nat]
  BY StateTypes DEF IInv, Types, Worker
<1>2. /\ task \in [Workers -> 0..Idle] /\ spawned \in [Workers -> 0..2]
      /\ Types /\ Driven
  BY DEF IInv, Types
<1>3. /\ task[w] # Idle /\ spawned[w] < Children(task[w]) /\ todo' = [todo EXCEPT ![k] = @ + 1]
      /\ task' = task /\ spawned' = [spawned EXCEPT ![w] = @ + 1]
  BY DEF Spawn, Sched!Submit
<1>4. spawned[w] \in 0..2 /\ task[w] \in 0..Idle
  BY <1>2
<1>5. Children(task[w]) = 2
  BY <1>3, <1>4 DEF Children
<1>6. task[w] \in 1..TreeDepth /\ k \in Tasks
  <2>1. task[w] \notin {0, Flat}
    BY <1>3, <1>4 DEF Children
  <2> QED BY <1>3, <1>4, <2>1, TaskFacts
<1>7. spawned[w] + 1 \in 0..2 /\ spawned[w] < 2
  BY <1>3, <1>4, <1>5
<1>8. /\ spawned' \in [Workers -> 0..2] /\ spawned'[w] = spawned[w] + 1
      /\ \A v \in Workers : v # w => spawned'[v] = spawned[v]
  BY <1>2, <1>3, <1>7
<1> HIDE DEF k
<1>9. todo'[k] = todo[k] + 1 /\ \A j \in Tasks : j # k => todo'[j] = todo[j]
  BY <1>1, <1>3, <1>6
<1>10. ASSUME NEW W \in [Tasks -> Nat]
       PROVE  Outstanding(W)' = Outstanding(W)
  <2>1. /\ Waiting(W)' \in Nat
        /\ Waiting(W)' + todo[k] * W[k] = Waiting(W) + todo'[k] * W[k]
    BY <1>1, <1>6, <1>9, WaitingChanges
  <2>2. todo'[k] * W[k] = todo[k] * W[k] + W[k]
    <3>1. todo[k] \in Nat /\ W[k] \in Nat
      BY <1>1, <1>6
    <3> QED BY <1>9, <3>1
  <2>3. todo[k] * W[k] \in Nat /\ todo'[k] * W[k] \in Nat /\ W[k] \in Nat
    <3>1. todo[k] \in Nat /\ todo'[k] \in Nat /\ W[k] \in Nat
      BY <1>1, <1>6
    <3> QED BY <3>1
  <2>4. Waiting(W) \in Nat /\ Unspawned(W) \in Nat /\ Outstanding(W) = Waiting(W) + Unspawned(W)
    BY <1>1, <1>2, OutstandingNat
  <2>5. Waiting(W)' = Waiting(W) + W[k]
    BY <2>1, <2>2, <2>3, <2>4
  <2>6. Owed(w, W) = (2 - spawned[w]) * W[k] /\ Owed(w, W)' = (2 - (spawned[w] + 1)) * W[k]
    BY <1>3, <1>6, <1>8 DEF Owed, k
  <2>7. Owed(w, W) = Owed(w, W)' + W[k] /\ Owed(w, W)' \in Nat
    <3>1. CASE spawned[w] = 0
      BY <2>3, <2>6, <3>1
    <3>2. CASE spawned[w] = 1
      BY <2>3, <2>6, <3>2
    <3> QED BY <1>4, <1>7, <3>1, <3>2
  <2>8. Unspawned(W)' \in Nat /\ Unspawned(W)' + Owed(w, W) = Unspawned(W) + Owed(w, W)'
    BY <1>2, <1>3, <1>8, UnspawnedChanges
  <2>9. Outstanding(W)' = Waiting(W)' + Unspawned(W)'
    BY DEF Outstanding
  <2> QED BY <2>3, <2>4, <2>5, <2>7, <2>8, <2>9
<1> QED BY <1>6, <1>7, <1>8, <1>9, <1>10 DEF k

\* A task that ends has submitted what it owed.
LEMMA FinishEffect ==
  ASSUME IInv, NEW w \in Workers, Finish(w)
  PROVE  /\ w \in Busy /\ Busy' = Busy \ {w} /\ Cardinality(Busy)' = Cardinality(Busy) - 1
         /\ SumFunction(running)' = SumFunction(running) - 1
         /\ task'[w] = Idle /\ spawned'[w] = 0
         /\ \A v \in Workers : v # w => task'[v] = task[v] /\ spawned'[v] = spawned[v]
         /\ \A W \in [Tasks -> Nat] : Outstanding(W)' = Outstanding(W)
<1>1. /\ todo \in [Tasks -> Nat]
      /\ running \in [Tasks -> Nat] /\ running' \in [Tasks -> Nat]
  BY StateTypes DEF IInv, Types, Worker
<1>2. /\ task \in [Workers -> 0..Idle] /\ spawned \in [Workers -> 0..2]
      /\ Types /\ Driven
  BY DEF IInv, Types
<1>3. /\ task[w] # Idle /\ spawned[w] = Children(task[w])
      /\ running[task[w]] > 0 /\ running' = [running EXCEPT ![task[w]] = @ - 1]
      /\ todo' = todo
      /\ task' = [task EXCEPT ![w] = Idle] /\ spawned' = [spawned EXCEPT ![w] = 0]
  BY DEF Finish, Sched!Finish
<1>4. Idle \in 0..Idle /\ Idle \notin 1..TreeDepth
  BY TaskFacts
<1>5. /\ task' \in [Workers -> 0..Idle] /\ spawned' \in [Workers -> 0..2]
      /\ task'[w] = Idle /\ spawned'[w] = 0
      /\ \A v \in Workers : v # w => task'[v] = task[v] /\ spawned'[v] = spawned[v]
  BY <1>2, <1>3, <1>4
<1>6. w \in Busy /\ task[w] \in Tasks
  BY <1>2, <1>3, BusyInRun
<1>7. Busy' = Busy \ {w}
  BY <1>5 DEF Busy
<1>8. Cardinality(Busy)' = Cardinality(Busy) - 1
  BY <1>2, <1>6, <1>7, BusyChanges
<1>9. SumFunction(running)' = SumFunction(running) - 1
  <2> DEFINE k == task[w]
  <2>1. running'[k] = running[k] - 1 /\ \A j \in Tasks : j # k => running'[j] = running[j]
    BY <1>1, <1>3, <1>6
  <2>2. IsFiniteSet(Tasks)
    BY TaskFacts
  <2>3. k \in Tasks
    BY <1>6
  <2> HIDE DEF k
  <2>4. /\ SumFunction(running') + running[k] = SumFunction(running) + running'[k]
        /\ SumFunction(running') \in Nat /\ SumFunction(running) \in Nat /\ running[k] \in Nat
    BY <1>1, <2>1, <2>2, <2>3, SumChange, SumNat
  <2> QED BY <2>1, <2>4
<1>10. ASSUME NEW W \in [Tasks -> Nat]
       PROVE  Outstanding(W)' = Outstanding(W)
  <2>1. Waiting(W)' = Waiting(W)
    BY <1>3 DEF Waiting
  <2>2. Owed(w, W)' = 0
    BY <1>4, <1>5 DEF Owed
  <2>3. Owed(w, W) = 0
    <3>1. CASE task[w] \in 1..TreeDepth
      <4>1. Children(task[w]) = 2
        BY <3>1, TaskFacts DEF Children
      <4>2. task[w] - 1 \in Tasks
        BY <3>1, TaskFacts
      <4>3. W[task[w] - 1] \in Nat
        BY <4>2
      <4>4. Owed(w, W) = (2 - 2) * W[task[w] - 1]
        BY <1>3, <3>1, <4>1 DEF Owed
      <4> QED BY <4>3, <4>4
    <3>2. CASE task[w] \notin 1..TreeDepth
      BY <3>2 DEF Owed
    <3> QED BY <3>1, <3>2
  <2>4. Unspawned(W) \in Nat /\ Waiting(W) \in Nat
    BY <1>1, <1>2, OutstandingNat
  <2>5. Unspawned(W)' \in Nat /\ Unspawned(W)' + Owed(w, W) = Unspawned(W) + Owed(w, W)'
    BY <1>2, <1>5, UnspawnedChanges
  <2>6. Unspawned(W)' = Unspawned(W)
    BY <2>2, <2>3, <2>4, <2>5
  <2> QED BY <2>1, <2>6 DEF Outstanding
<1> QED BY <1>5, <1>6, <1>7, <1>8, <1>9, <1>10

-----------------------------------------------------------------------------
LEMMA OutstandingType == Types => \A W \in [Tasks -> Nat] : Outstanding(W) \in Nat
<1> SUFFICES ASSUME Types, NEW W \in [Tasks -> Nat] PROVE Outstanding(W) \in Nat
  OBVIOUS
<1>1. todo \in [Tasks -> Nat] /\ task \in [Workers -> 0..Idle] /\ spawned \in [Workers -> 0..2]
  BY DEF Types
<1>2. Waiting(W) \in Nat /\ Unspawned(W) \in Nat /\ Outstanding(W) = Waiting(W) + Unspawned(W)
  BY <1>1, OutstandingNat
<1> QED BY <1>2

\* Only the end of a pass touches the rows.
LEMMA RowsStay ==
  ASSUME Rows, MeasuresAll, UNCHANGED <<loops, pass, results>>
  PROVE  Rows' /\ MeasuresAll'
<1>1. sched' = sched /\ place' = place /\ bench' = bench /\ pass' = pass /\ results' = results
  BY DEF loops
<1>2. Rows'
  BY <1>1 DEF Rows, Before, IsRow
<1>3. MeasuresAll'
  BY <1>1 DEF MeasuresAll
<1> QED BY <1>2, <1>3

\* The steps keep the invariant: the set-up,
LEMMA SetUpStep == IInv /\ SetUp => IInv'
<1> SUFFICES ASSUME IInv, SetUp PROVE IInv'
  OBVIOUS
<1>1. /\ pass # "table" /\ driver = "out" /\ submitted < Workload.roots
      /\ submitted' = submitted + 1 /\ count' = AtSetUp
      /\ UNCHANGED <<loops, pass, task, spawned, executed, results>>
      /\ driver' = driver /\ running' = running
  BY DEF SetUp, SetUpGoesOn, Sched!Submit
<1>2. Types /\ Kinds /\ Driven /\ Accounts /\ Rows /\ MeasuresAll
  BY DEF IInv
<1>3. sched' = sched /\ place' = place /\ bench' = bench /\ Workload' = Workload
  BY <1>1 DEF loops, Workload
<1>4. /\ Workload.roots \in Nat /\ Workload.root \in Tasks /\ submitted \in Nat
      /\ Workload.root = Flat <=> bench # 2
  BY <1>2, WorkloadFacts DEF Types
<1>5. Busy' = Busy /\ Busy = {} /\ executed = 0 /\ Cardinality(Busy) = 0
  BY <1>1, <1>2, FS_EmptySet DEF Busy, Driven
<1>6. Types'
  <2>1. submitted' \in Nat /\ submitted' <= Workload.roots
    BY <1>1, <1>4
  <2>2. count' \in Nat /\ count' <= TreeSize(TreeDepth)
    <3>1. TreeDepth \in 0..TreeDepth
      BY TaskFacts
    <3>2. TreeSize(TreeDepth) \in Nat
      BY <3>1, TreeSizes
    <3>3. count' = 0 \/ count' = count
      BY <1>1 DEF AtSetUp
    <3> QED BY <1>2, <3>2, <3>3 DEF Types
  <2> QED BY <1>1, <1>2, <1>3, <2>1, <2>2, StateTypes DEF Types
<1>7. Kinds'
  <2>1. ASSUME NEW j \in Tasks, todo'[j] > 0 PROVE j = Flat <=> Workload.root = Flat
    <3>1. CASE j = Workload.root
      BY <3>1
    <3>2. CASE j # Workload.root
      BY <1>2, <2>1, <3>2, SetUpEffect DEF Kinds
    <3> QED BY <3>1, <3>2
  <2> QED BY <1>3, <1>5, <2>1 DEF Kinds
<1>8. Driven'
  BY <1>1, <1>2, <1>3, <1>5 DEF Driven, Crew, NumWorkers
<1>9. Accounts'
  <2>1. Size \in [Tasks -> Nat] /\ Breadth \in [Tasks -> Nat]
    BY Weights
  <2>2. /\ Outstanding(Size)' = Outstanding(Size) + Size[Workload.root]
        /\ Outstanding(Breadth)' = Outstanding(Breadth) + Breadth[Workload.root]
    BY <2>1, SetUpEffect
  <2>3. /\ Size[Workload.root] \in Nat /\ Breadth[Workload.root] \in Nat
        /\ Outstanding(Size) \in Nat /\ Outstanding(Breadth) \in Nat
    BY <1>2, <1>4, <2>1, OutstandingType
  <2>4. ASSUME NEW z \in Nat PROVE submitted' * z = submitted * z + z
    BY <1>1, <1>4
  <2>5. ASSUME NEW z \in Nat PROVE submitted * z \in Nat
    BY <1>4
  <2>6. /\ Outstanding(Size) = submitted * Size[Workload.root]
        /\ Outstanding(Breadth) <= submitted * Breadth[Workload.root]
    BY <1>2, <1>5, <2>3 DEF Accounts
  <2>7. Outstanding(Size)' = submitted' * Size[Workload.root]
    BY <2>2, <2>3, <2>4, <2>6
  <2>8. Outstanding(Breadth)' <= submitted' * Breadth[Workload.root]
    <3>1. submitted' * Breadth[Workload.root] = submitted * Breadth[Workload.root] + Breadth[Workload.root]
      BY <2>3, <2>4
    <3>2. submitted * Breadth[Workload.root] \in Nat
      BY <2>3, <2>5
    <3> QED BY <2>2, <2>3, <2>6, <3>1, <3>2
  <2>9. executed' + Cardinality(Busy)' = 0
    BY <1>1, <1>5
  <2>10. bench' = 2 => count' = 0
    BY <1>1, <1>3, <1>4 DEF AtSetUp
  <2>11. Outstanding(Size)' \in Nat
    BY <2>2, <2>3
  <2>12. (executed + Cardinality(Busy) + Outstanding(Size))' = submitted' * Size[Workload'.root]
    BY <1>1, <1>3, <1>5, <2>7, <2>11
  <2> QED BY <1>3, <2>8, <2>9, <2>10, <2>12 DEF Accounts
<1>10. Rows' /\ MeasuresAll'
  BY <1>1, <1>2, RowsStay
<1> QED BY <1>6, <1>7, <1>8, <1>9, <1>10 DEF IInv

\* the call of run(),
LEMMA RunStep == IInv /\ Run => IInv'
<1> SUFFICES ASSUME IInv, Run PROVE IInv'
  OBVIOUS
<1>1. /\ pass # "table" /\ driver = "out" /\ ~(submitted < Workload.roots)
      /\ UNCHANGED <<loops, pass, submitted, count, task, spawned, executed, results>>
      /\ driver' = "in" /\ UNCHANGED <<todo, running, done>>
  BY DEF Run, SetUpGoesOn, Sched!Run
<1>2. Types /\ Kinds /\ Driven /\ Accounts /\ Rows /\ MeasuresAll
  BY DEF IInv
<1>3. sched' = sched /\ place' = place /\ bench' = bench /\ Workload' = Workload /\ Busy' = Busy
  BY <1>1 DEF loops, Workload, Busy
<1>4. submitted = Workload.roots
  <2>1. Workload.roots \in Nat /\ submitted \in Nat /\ submitted <= Workload.roots
    BY <1>2, WorkloadFacts DEF Types
  <2> QED BY <1>1, <2>1
<1>5. Types'
  BY <1>1, <1>2, <1>3 DEF Types
<1>6. Kinds'
  BY <1>1, <1>2, <1>3 DEF Kinds
<1>7. Driven'
  BY <1>1, <1>2, <1>3, <1>4 DEF Driven, Crew, NumWorkers
<1>8. Accounts'
  <2>1. Outstanding(Size)' = Outstanding(Size) /\ Outstanding(Breadth)' = Outstanding(Breadth)
    BY <1>1 DEF Outstanding, Waiting, Unspawned, Owed
  <2> QED BY <1>1, <1>2, <1>3, <2>1 DEF Accounts
<1>9. Rows' /\ MeasuresAll'
  BY <1>1, <1>2, RowsStay
<1> QED BY <1>5, <1>6, <1>7, <1>8, <1>9 DEF IInv

\* a worker that takes a task,
LEMMA StartStep ==
  ASSUME IInv, NEW w \in Workers, NEW k \in Tasks, Start(w, k)
  PROVE  IInv'
<1>1. /\ w \in Crew /\ task[w] = Idle /\ task' = [task EXCEPT ![w] = k]
      /\ count' = IF k = Flat THEN count ELSE count + 1
      /\ UNCHANGED <<loops, pass, submitted, spawned, executed, results>>
      /\ driver = "in" /\ todo[k] > 0 /\ driver' = driver
  BY DEF Start, Sched!Start
<1>2. Types /\ Kinds /\ Driven /\ Accounts /\ Rows /\ MeasuresAll
  BY DEF IInv
<1>3. sched' = sched /\ place' = place /\ bench' = bench /\ Workload' = Workload
  BY <1>1 DEF loops, Workload
<1>4. /\ Workload.roots \in Nat /\ Workload.root \in Tasks /\ submitted \in Nat /\ executed \in Nat
      /\ Workload.root = Flat <=> bench # 2
      /\ bench = 2 => Workload.root = TreeDepth /\ Workload.roots = 1
      /\ submitted = Workload.roots
  BY <1>1, <1>2, WorkloadFacts DEF Types, Driven
<1>5. k = Flat <=> Workload.root = Flat
  BY <1>1, <1>2 DEF Kinds
<1>6. /\ Size \in [Tasks -> Nat] /\ Breadth \in [Tasks -> Nat]
      /\ Size[Workload.root] \in Nat /\ Breadth[Workload.root] \in Nat
  BY <1>4, Weights
<1>7. /\ Outstanding(Size) \in Nat /\ Outstanding(Breadth) \in Nat
      /\ Cardinality(Busy) \in Nat /\ Cardinality(Busy)' = Cardinality(Busy) + 1
      /\ Busy' = Busy \cup {w}
  BY <1>2, <1>6, OutstandingType, CrewFacts, StartEffect
<1>8. k = 0 \/ k \in 1..TreeDepth \/ k = Flat
  BY TaskFacts
<1>9. Outstanding(Size)' + 1 = Outstanding(Size)
  <2>1. Outstanding(Size)' + Size[k]
          = Outstanding(Size) + (IF k \in 1..TreeDepth THEN 2 * Size[k - 1] ELSE 0)
    BY <1>6, StartEffect
  <2>2. Outstanding(Size)' \in Nat
    BY <1>6, StartEffect
  <2>3. CASE k \in 1..TreeDepth
    <3>1. k - 1 \in Tasks /\ Size[k] = 1 + 2 * Size[k - 1]
      BY <2>3, Weights
    <3>2. Size[k - 1] \in Nat
      BY <1>6, <3>1
    <3> QED BY <1>7, <2>1, <2>2, <2>3, <3>1, <3>2
  <2>4. CASE k \notin 1..TreeDepth
    <3>1. Size[k] = 1
      BY <1>8, <2>4, Weights
    <3> QED BY <1>7, <2>1, <2>2, <2>4, <3>1
  <2> QED BY <2>3, <2>4
<1>10. Outstanding(Breadth)' <= Outstanding(Breadth)
  <2>1. Outstanding(Breadth)' + Breadth[k]
          = Outstanding(Breadth) + (IF k \in 1..TreeDepth THEN 2 * Breadth[k - 1] ELSE 0)
    BY <1>6, StartEffect
  <2>2. Outstanding(Breadth)' \in Nat
    BY <1>6, StartEffect
  <2>3. CASE k \in 1..TreeDepth
    <3>1. k - 1 \in Tasks /\ Breadth[k] = 2 * Breadth[k - 1]
      BY <2>3, Weights
    <3>2. Breadth[k - 1] \in Nat
      BY <1>6, <3>1
    <3> QED BY <1>7, <2>1, <2>2, <2>3, <3>1, <3>2
  <2>4. CASE k \notin 1..TreeDepth
    <3>1. Breadth[k] \in Nat
      BY <1>6
    <3> QED BY <1>7, <2>1, <2>2, <2>4, <3>1
  <2> QED BY <2>3, <2>4
<1>11. Accounts'
  <2>1. Outstanding(Size)' \in Int /\ Outstanding(Breadth)' \in Int
    BY <1>6, StartEffect
  <2>2. executed' + Cardinality(Busy)' + Outstanding(Size)' = submitted' * Size[Workload'.root]
    <3>1. executed + Cardinality(Busy) + Outstanding(Size) = submitted * Size[Workload.root]
      BY <1>2 DEF Accounts
    <3>2. executed + (Cardinality(Busy) + 1) + Outstanding(Size)'
            = executed + Cardinality(Busy) + Outstanding(Size)
      BY <1>4, <1>7, <1>9, <2>1
    <3> QED BY <1>1, <1>3, <1>7, <3>1, <3>2
  <2>3. bench' = 2 /\ submitted' = 1 => count' = executed' + Cardinality(Busy)'
    <3> SUFFICES ASSUME bench = 2, submitted = 1 PROVE count' = executed + Cardinality(Busy)'
      BY <1>1, <1>3
    <3>1. k # Flat /\ count = executed + Cardinality(Busy)
      BY <1>2, <1>4, <1>5 DEF Accounts
    <3> QED BY <1>1, <1>4, <1>7, <3>1
  <2>4. Outstanding(Breadth)' <= submitted' * Breadth[Workload'.root]
    <3>1. Outstanding(Breadth) <= submitted * Breadth[Workload.root]
      BY <1>2 DEF Accounts
    <3>2. submitted * Breadth[Workload.root] \in Int
      BY <1>4, <1>6
    <3>3. Outstanding(Breadth)' <= submitted * Breadth[Workload.root]
      BY <1>7, <1>10, <2>1, <3>1, <3>2
    <3> QED BY <1>1, <1>3, <3>3
  <2> QED BY <2>2, <2>3, <2>4 DEF Accounts
<1>12. Types'
  <2>1. task' \in [Workers -> 0..Idle]
    <3>1. k \in 0..Idle
      BY TaskFacts
    <3> QED BY <1>1, <1>2, <3>1 DEF Types
  <2>2. count' \in Nat /\ count' <= TreeSize(TreeDepth)
    <3>1. CASE k = Flat
      BY <1>1, <1>2, <3>1 DEF Types
    <3>2. CASE k # Flat
      <4>1. bench = 2 /\ submitted = 1 /\ Workload.root = TreeDepth
        BY <1>4, <1>5, <3>2
      <4>2. count' = executed + Cardinality(Busy)'
        BY <1>1, <1>3, <1>11, <4>1 DEF Accounts
      <4>3. executed + Cardinality(Busy)' + Outstanding(Size)' = 1 * Size[TreeDepth]
        BY <1>1, <1>3, <1>11, <4>1 DEF Accounts
      <4>4. Size[TreeDepth] = TreeSize(TreeDepth) /\ Size[TreeDepth] \in Nat
        BY <1>6, <4>1, Weights
      <4>5. Outstanding(Size)' \in Nat
        BY <1>6, StartEffect
      <4>6. executed + Cardinality(Busy)' \in Nat
        BY <1>4, <1>7
      <4>7. executed + Cardinality(Busy)' <= Size[TreeDepth]
        BY <4>3, <4>4, <4>5, <4>6
      <4> QED BY <4>2, <4>4, <4>6, <4>7
    <3> QED BY <3>1, <3>2
  <2>3. /\ todo' \in [Tasks -> Nat] /\ running' \in [Tasks -> Nat] /\ done' \in [Tasks -> Nat]
        /\ driver' \in {"out", "in"}
    BY <1>2, StateTypes DEF Worker
  <2> QED BY <1>1, <1>2, <1>3, <2>1, <2>2, <2>3 DEF Types
<1>13. Kinds'
  <2>1. ASSUME NEW j \in Tasks, todo'[j] > 0 PROVE j = Flat <=> Workload.root = Flat
    <3>1. CASE j = k
      BY <1>5, <3>1
    <3>2. CASE j # k
      BY <1>2, <2>1, <3>2, StartEffect DEF Kinds
    <3> QED BY <3>1, <3>2
  <2>2. ASSUME NEW v \in Busy' PROVE task'[v] = Flat <=> Workload.root = Flat
    <3>1. v \in Workers
      BY <2>2 DEF Busy
    <3>2. CASE v = w
      BY <1>5, <3>2, StartEffect
    <3>3. CASE v # w
      <4>1. v \in Busy /\ task'[v] = task[v]
        BY <1>7, <2>2, <3>1, <3>3, StartEffect
      <4> QED BY <1>2, <4>1 DEF Kinds
    <3> QED BY <3>2, <3>3
  <2> QED BY <1>3, <2>1, <2>2 DEF Kinds
<1>14. Driven'
  <2>1. ASSUME NEW v \in Workers, task'[v] \notin 1..TreeDepth PROVE spawned'[v] = 0
    <3>1. CASE v = w
      BY <1>1, <3>1, StartEffect
    <3>2. CASE v # w
      BY <1>1, <1>2, <2>1, <3>2, StartEffect DEF Driven
    <3> QED BY <3>1, <3>2
  <2>2. SumFunction(running)' = Cardinality(Busy)'
    <3>1. SumFunction(running)' = SumFunction(running) + 1
      BY StartEffect
    <3> QED BY <1>2, <1>7, <3>1 DEF Driven
  <2>3. Crew' = Crew /\ Busy' \subseteq Crew
    BY <1>1, <1>2, <1>3, <1>7 DEF Crew, NumWorkers, Driven
  <2> QED BY <1>1, <1>2, <1>3, <2>1, <2>2, <2>3 DEF Driven
<1>15. Rows' /\ MeasuresAll'
  BY <1>1, <1>2, RowsStay
<1> QED BY <1>11, <1>12, <1>13, <1>14, <1>15 DEF IInv

-----------------------------------------------------------------------------
\* a task that submits another,
LEMMA SpawnStep ==
  ASSUME IInv, NEW w \in Workers, Spawn(w)
  PROVE  IInv'
<1>1. /\ task[w] # Idle /\ task' = task
      /\ UNCHANGED <<loops, pass, submitted, count, executed, results>>
      /\ driver' = driver /\ running' = running
      /\ spawned' = [spawned EXCEPT ![w] = @ + 1]
  BY DEF Spawn, Sched!Submit
<1>2. Types /\ Kinds /\ Driven /\ Accounts /\ Rows /\ MeasuresAll
  BY DEF IInv
<1>3. sched' = sched /\ place' = place /\ bench' = bench /\ Workload' = Workload /\ Busy' = Busy
  BY <1>1 DEF loops, Workload, Busy
<1>4. driver = "in" /\ w \in Busy
  BY <1>1, <1>2, BusyInRun
<1>5. Types'
  <2>1. spawned[w] + 1 \in 0..2
    BY SpawnEffect
  <2>2. spawned' \in [Workers -> 0..2]
    BY <1>1, <1>2, <2>1 DEF Types
  <2>3. /\ todo' \in [Tasks -> Nat] /\ running' \in [Tasks -> Nat] /\ done' \in [Tasks -> Nat]
        /\ driver' \in {"out", "in"}
    BY <1>2, StateTypes DEF Worker
  <2> QED BY <1>1, <1>2, <1>3, <2>2, <2>3 DEF Types
<1>6. Kinds'
  <2>1. ASSUME NEW j \in Tasks, todo'[j] > 0 PROVE j = Flat <=> Workload.root = Flat
    <3>1. CASE j = task[w] - 1
      <4>1. task[w] \in 1..TreeDepth
        BY SpawnEffect
      <4>2. j # Flat /\ task[w] # Flat
        BY <3>1, <4>1, TaskFacts
      <4> QED BY <1>2, <1>4, <4>2 DEF Kinds
    <3>2. CASE j # task[w] - 1
      BY <1>2, <2>1, <3>2, SpawnEffect DEF Kinds
    <3> QED BY <3>1, <3>2
  <2> QED BY <1>1, <1>2, <1>3, <2>1 DEF Kinds
<1>7. Driven'
  <2>1. ASSUME NEW v \in Workers, task'[v] \notin 1..TreeDepth PROVE spawned'[v] = 0
    BY <1>1, <1>2, <2>1, SpawnEffect DEF Driven
  <2> QED BY <1>1, <1>2, <1>3, <1>4, <2>1 DEF Driven, Crew, NumWorkers
<1>8. Accounts'
  <2>1. Outstanding(Size)' = Outstanding(Size) /\ Outstanding(Breadth)' = Outstanding(Breadth)
    BY Weights, SpawnEffect
  <2> QED BY <1>1, <1>2, <1>3, <2>1 DEF Accounts
<1>9. Rows' /\ MeasuresAll'
  BY <1>1, <1>2, RowsStay
<1> QED BY <1>5, <1>6, <1>7, <1>8, <1>9 DEF IInv

\* a task that ends,
LEMMA FinishStep ==
  ASSUME IInv, NEW w \in Workers, Finish(w)
  PROVE  IInv'
<1>1. /\ task[w] # Idle
      /\ task' = [task EXCEPT ![w] = Idle] /\ spawned' = [spawned EXCEPT ![w] = 0]
      /\ UNCHANGED <<loops, pass, submitted, count, results>>
      /\ executed' = executed + 1
      /\ driver' = driver /\ todo' = todo
  BY DEF Finish, Sched!Finish
<1>2. Types /\ Kinds /\ Driven /\ Accounts /\ Rows /\ MeasuresAll
  BY DEF IInv
<1>3. sched' = sched /\ place' = place /\ bench' = bench /\ Workload' = Workload
  BY <1>1 DEF loops, Workload
<1>4. driver = "in" /\ w \in Busy
  BY <1>1, <1>2, BusyInRun
<1>5. Busy' = Busy \ {w} /\ Cardinality(Busy)' = Cardinality(Busy) - 1
  BY FinishEffect
<1>6. executed \in Nat /\ Cardinality(Busy) \in Nat /\ executed' \in Nat
      /\ executed' + Cardinality(Busy)' = executed + Cardinality(Busy)
  <2>1. executed \in Nat /\ Cardinality(Busy) \in Nat
    BY <1>2, CrewFacts DEF Types
  <2> QED BY <1>1, <1>5, <2>1
<1>7. Types'
  <2>1. Idle \in 0..Idle
    BY TaskFacts
  <2>2. task' \in [Workers -> 0..Idle] /\ spawned' \in [Workers -> 0..2]
    BY <1>1, <1>2, <2>1 DEF Types
  <2>3. /\ todo' \in [Tasks -> Nat] /\ running' \in [Tasks -> Nat] /\ done' \in [Tasks -> Nat]
        /\ driver' \in {"out", "in"}
    BY <1>2, StateTypes DEF Worker
  <2> QED BY <1>1, <1>2, <1>3, <1>6, <2>2, <2>3 DEF Types
<1>8. Kinds'
  <2>1. ASSUME NEW v \in Busy' PROVE v \in Busy /\ task'[v] = task[v]
    BY <1>5, <2>1, FinishEffect DEF Busy
  <2> QED BY <1>1, <1>2, <1>3, <2>1 DEF Kinds
<1>9. Driven'
  <2>1. ASSUME NEW v \in Workers, task'[v] \notin 1..TreeDepth PROVE spawned'[v] = 0
    <3>1. CASE v = w
      BY <3>1, FinishEffect
    <3>2. CASE v # w
      BY <1>2, <2>1, <3>2, FinishEffect DEF Driven
    <3> QED BY <3>1, <3>2
  <2>2. SumFunction(running)' = Cardinality(Busy)'
    <3>1. SumFunction(running)' = SumFunction(running) - 1
      BY FinishEffect
    <3> QED BY <1>2, <1>5, <3>1 DEF Driven
  <2>3. Crew' = Crew /\ Busy' \subseteq Crew
    BY <1>1, <1>2, <1>3, <1>5 DEF Crew, NumWorkers, Driven
  <2> QED BY <1>1, <1>2, <1>3, <1>4, <2>1, <2>2, <2>3 DEF Driven
<1>10. Accounts'
  <2>1. Outstanding(Size)' = Outstanding(Size) /\ Outstanding(Breadth)' = Outstanding(Breadth)
    BY Weights, FinishEffect
  <2> QED BY <1>1, <1>2, <1>3, <1>6, <2>1 DEF Accounts
<1>11. Rows' /\ MeasuresAll'
  BY <1>1, <1>2, RowsStay
<1> QED BY <1>7, <1>8, <1>9, <1>10, <1>11 DEF IInv

-----------------------------------------------------------------------------
\* Without tasks nothing is outstanding.
LEMMA NothingLeft ==
  ASSUME todo = Sched!None, \A w \in Workers : task[w] = Idle
  PROVE  \A W \in [Tasks -> Nat] : Outstanding(W) = 0
<1> SUFFICES ASSUME NEW W \in [Tasks -> Nat] PROVE Outstanding(W) = 0
  OBVIOUS
<1> DEFINE f == [k \in Tasks |-> todo[k] * W[k]]
           g == [w \in Workers |-> Owed(w, W)]
<1>1. f \in [Tasks -> Nat] /\ \A k \in Tasks : f[k] = 0
  <2>1. ASSUME NEW k \in Tasks PROVE todo[k] * W[k] = 0
    <3>1. todo[k] = 0 /\ W[k] \in Nat
      BY DEF Sched!None
    <3> QED BY <3>1
  <2> QED BY <2>1
<1>2. g \in [Workers -> Nat] /\ \A w \in Workers : g[w] = 0
  <2>1. Idle \notin 1..TreeDepth
    BY TaskFacts
  <2>2. ASSUME NEW w \in Workers PROVE Owed(w, W) = 0
    BY <2>1 DEF Owed
  <2> QED BY <2>2
<1>3. IsFiniteSet(Tasks) /\ IsFiniteSet(Workers)
  BY TaskFacts
<1>4. Waiting(W) = SumFunction(f) /\ Unspawned(W) = SumFunction(g)
  BY DEF Waiting, Unspawned
<1> HIDE DEF f, g
<1>5. SumFunction(f) = 0
  BY <1>1, <1>3, SumTerms
<1>6. SumFunction(g) = 0
  BY <1>2, <1>3, SumTerms
<1> QED BY <1>4, <1>5, <1>6 DEF Outstanding

\* run() returns when all of the workload has been executed.
LEMMA ReturnFacts ==
  ASSUME IInv, Return
  PROVE  /\ todo = Sched!None /\ running = Sched!None /\ Busy = {} /\ pass # "table"
         /\ executed = Workload.total
         /\ bench = 2 => count = Workload.total
<1>1. driver = "in" /\ todo = Sched!None /\ running = Sched!None
  BY DEF Return, Sched!Return
<1>2. Types /\ Driven /\ Accounts
  BY DEF IInv
<1>3. pass # "table" /\ submitted = Workload.roots
  BY <1>1, <1>2 DEF Driven
<1>4. Busy = {}
  <2>1. running \in [Tasks -> Nat] /\ \A k \in Tasks : running[k] = 0
    BY <1>1 DEF Sched!None
  <2>2. IsFiniteSet(Tasks)
    BY TaskFacts
  <2>3. SumFunction(running) = 0
    BY <2>1, <2>2, SumTerms
  <2>4. Cardinality(Busy) = 0 /\ IsFiniteSet(Busy)
    BY <1>2, <2>3, CrewFacts DEF Driven
  <2> QED BY <2>4, FS_EmptySet
<1>5. Outstanding(Size) = 0
  <2>1. \A w \in Workers : task[w] = Idle
    BY <1>4 DEF Busy
  <2> QED BY <1>1, <2>1, NothingLeft, Weights
<1>6. executed \in Nat /\ Cardinality(Busy) = 0
  BY <1>2, <1>4, FS_EmptySet DEF Types
<1>7. executed = Workload.roots * Size[Workload.root]
  BY <1>2, <1>3, <1>5, <1>6 DEF Accounts
<1>8. executed = Workload.total
  <2>1. bench \in 1..3
    BY <1>2 DEF Types
  <2>2. CASE bench = 2
    <3>1. Workload.root = TreeDepth /\ Workload.roots = 1 /\ Workload.total = TreeSize(TreeDepth)
      BY <2>1, <2>2, WorkloadFacts
    <3>2. Size[TreeDepth] = TreeSize(TreeDepth)
      BY Weights
    <3>3. executed = 1 * TreeSize(TreeDepth)
      BY <1>7, <3>1, <3>2
    <3>4. TreeSize(TreeDepth) \in Nat
      BY <2>1, <3>1, WorkloadFacts
    <3> QED BY <3>1, <3>3, <3>4
  <2>3. CASE bench # 2
    <3>1. Workload.root = Flat /\ Workload.total = Workload.roots /\ Workload.roots \in Nat
      BY <2>1, <2>3, WorkloadFacts
    <3>2. Size[Flat] = 1
      BY Weights
    <3> QED BY <1>7, <3>1, <3>2
  <2> QED BY <2>2, <2>3
<1>9. bench = 2 => count = Workload.total
  <2>1. bench = 2 => submitted = 1
    BY <1>2, <1>3, WorkloadFacts DEF Types
  <2> QED BY <1>2, <1>6, <1>8, <2>1 DEF Accounts
<1> QED BY <1>1, <1>3, <1>4, <1>8, <1>9

-----------------------------------------------------------------------------
LEMMA AppendFacts ==
  ASSUME NEW S, NEW q \in Seq(S), NEW e \in S
  PROVE  /\ Append(q, e) \in Seq(S) /\ Len(q) \in Nat /\ DOMAIN q = 1..Len(q)
         /\ DOMAIN Append(q, e) = 1..Len(q)+1 /\ Append(q, e)[Len(q) + 1] = e
         /\ \A i \in 1..Len(q) : Append(q, e)[i] = q[i]
OBVIOUS

\* The next turn, and the turns before it.
LEMMA TurnFacts ==
  ASSUME Types, sched <= Schedulers,
         sched' = NextTurn[1], place' = NextTurn[2], bench' = NextTurn[3]
  PROVE  /\ sched' \in 1..Schedulers+1 /\ place' \in 1..Len(ThreadCounts) /\ bench' \in 1..3
         /\ \A s \in 1..Schedulers, p \in 1..Len(ThreadCounts), b \in 1..3 :
              Before(s, p, b)' <=> Before(s, p, b) \/ (s = sched /\ p = place /\ b = bench)
<1>1. Len(Workloads) = 3
  BY DEF Workloads
<1>2. PICK n \in Nat \ {0} : n = Len(ThreadCounts)
  BY ThreadCountsFacts
<1>3. sched \in 1..Schedulers /\ place \in 1..n /\ bench \in 1..3 /\ Schedulers \in Nat \ {0}
  BY <1>2, HwAssumption DEF Types
<1>4. \/ sched' = sched /\ place' = place /\ bench < 3 /\ bench' = bench + 1
      \/ sched' = sched /\ place < n /\ place' = place + 1 /\ bench = 3 /\ bench' = 1
      \/ sched' = sched + 1 /\ place = n /\ place' = 1 /\ bench = 3 /\ bench' = 1
  BY <1>1, <1>2, <1>3 DEF NextTurn, MoreThreads
<1>5. sched' \in 1..Schedulers+1 /\ place' \in 1..n /\ bench' \in 1..3
  BY <1>3, <1>4
<1>6. ASSUME NEW s \in 1..Schedulers, NEW p \in 1..n, NEW b \in 1..3
      PROVE  Before(s, p, b)' <=> Before(s, p, b) \/ (s = sched /\ p = place /\ b = bench)
  <2>1. CASE sched' = sched /\ place' = place /\ bench < 3 /\ bench' = bench + 1
    BY <1>3, <2>1 DEF Before
  <2>2. CASE sched' = sched /\ place < n /\ place' = place + 1 /\ bench = 3 /\ bench' = 1
    BY <1>3, <2>2 DEF Before
  <2>3. CASE sched' = sched + 1 /\ place = n /\ place' = 1 /\ bench = 3 /\ bench' = 1
    BY <1>3, <2>3 DEF Before
  <2> QED BY <1>4, <2>1, <2>2, <2>3
<1> QED BY <1>2, <1>5, <1>6

\* A row tells the turn it is of.
LEMMA IsRowOnce ==
  ASSUME NEW r, NEW s, NEW t, NEW b, NEW c,
         NEW p \in 1..Len(ThreadCounts), NEW q \in 1..Len(ThreadCounts),
         IsRow(r, s, p, b), IsRow(r, t, q, c)
  PROVE  s = t /\ p = q /\ b = c
BY ThreadCountsFacts DEF IsRow

\* The row of a turn comes after those of the turns before.
LEMMA RowAdded ==
  ASSUME Types, Rows, sched <= Schedulers,
         results' = Append(results, Result),
         sched' = NextTurn[1], place' = NextTurn[2], bench' = NextTurn[3],
         pass' = (IF sched' > Schedulers THEN "table" ELSE "warm-up")
  PROVE  Rows'
<1> DEFINE Turn(s, p, b) == s = sched /\ p = place /\ b = bench
           Places == 1..Len(ThreadCounts)
           n == Len(results)
<1>1. /\ results \in Seq(Row) /\ place \in Places /\ bench \in 1..3 /\ sched \in 1..Schedulers
  BY HwAssumption DEF Types
<1>2. IsRow(Result, sched, place, bench)
  BY DEF IsRow, Result, NumWorkers
<1>3. /\ n \in Nat /\ DOMAIN results = 1..n /\ DOMAIN results' = 1..n+1
      /\ results'[n + 1] = Result /\ \A i \in 1..n : results'[i] = results[i]
  <2>1. results' = Append(results, Result) /\ results \in Seq(Row)
    BY <1>1
  <2>2. results \in Seq(Row \cup {Result}) /\ Result \in Row \cup {Result}
    BY <2>1
  <2> QED BY <2>1, <2>2, AppendFacts
<1>4. \A s \in 1..Schedulers, p \in Places, b \in 1..3 :
        Before(s, p, b)' <=> Before(s, p, b) \/ Turn(s, p, b)
  <2>1. \A s \in 1..Schedulers, p \in 1..Len(ThreadCounts), b \in 1..3 :
          Before(s, p, b)' <=> Before(s, p, b) \/ (s = sched /\ p = place /\ b = bench)
    BY TurnFacts
  <2> QED BY <2>1
<1>5. ~Before(sched, place, bench)
  BY <1>1, HwAssumption, ThreadCountsFacts DEF Before
<1>6. \A i \in 1..n :
        \E s \in 1..Schedulers, p \in Places, b \in 1..3 :
          Before(s, p, b) /\ IsRow(results[i], s, p, b)
  BY <1>3 DEF Rows
<1>7. ASSUME NEW i \in 1..n+1
      PROVE  \E s \in 1..Schedulers, p \in Places, b \in 1..3 :
               Before(s, p, b)' /\ IsRow(results'[i], s, p, b)
  <2>1. CASE i = n + 1
    BY <1>1, <1>2, <1>3, <1>4, <2>1
  <2>2. CASE i # n + 1
    <3>1. i \in 1..n
      BY <1>3, <2>2
    <3>2. PICK s \in 1..Schedulers, p \in Places, b \in 1..3 :
            Before(s, p, b) /\ IsRow(results[i], s, p, b)
      BY <1>6, <3>1
    <3> QED BY <1>3, <1>4, <3>1, <3>2
  <2> QED BY <2>1, <2>2
<1>8. ASSUME NEW s \in 1..Schedulers, NEW p \in Places, NEW b \in 1..3, Before(s, p, b)'
      PROVE  \E i \in 1..n+1 : \A j \in 1..n+1 : i = j <=> IsRow(results'[j], s, p, b)
  <2>1. CASE Turn(s, p, b)
    <3>1. ASSUME NEW j \in 1..n+1 PROVE n + 1 = j <=> IsRow(results'[j], s, p, b)
      <4>1. CASE j = n + 1
        BY <1>2, <1>3, <2>1, <4>1
      <4>2. CASE j # n + 1
        <5>1. j \in 1..n
          BY <1>3, <4>2
        <5>2. PICK t \in 1..Schedulers, q \in Places, c \in 1..3 :
                Before(t, q, c) /\ IsRow(results[j], t, q, c)
          BY <1>6, <5>1
        <5>3. ASSUME IsRow(results[j], s, p, b) PROVE FALSE
          <6>1. s = t /\ p = q /\ b = c
            BY <5>2, <5>3, IsRowOnce
          <6> QED BY <1>5, <2>1, <5>2, <6>1
        <5> QED BY <1>3, <4>2, <5>1, <5>3
      <4> QED BY <4>1, <4>2
    <3>2. n + 1 \in 1..n+1
      BY <1>3
    <3> QED BY <3>1, <3>2
  <2>2. CASE ~Turn(s, p, b)
    <3>1. Before(s, p, b)
      BY <1>4, <1>8, <2>2
    <3>2. PICK i \in 1..n : \A j \in 1..n : i = j <=> IsRow(results[j], s, p, b)
      <4>1. \E i \in DOMAIN results : \A j \in DOMAIN results : i = j <=> IsRow(results[j], s, p, b)
        BY <3>1 DEF Rows
      <4> QED BY <1>3, <4>1
    <3>3. ~IsRow(Result, s, p, b)
      BY <1>1, <1>2, <2>2, IsRowOnce
    <3>4. ASSUME NEW j \in 1..n+1 PROVE i = j <=> IsRow(results'[j], s, p, b)
      <4>1. CASE j = n + 1
        BY <1>3, <3>3, <4>1
      <4>2. CASE j # n + 1
        <5>1. j \in 1..n
          BY <1>3, <4>2
        <5> QED BY <1>3, <3>2, <5>1
      <4> QED BY <4>1, <4>2
    <3>5. i \in 1..n+1
      BY <1>3
    <3> QED BY <3>4, <3>5
  <2> QED BY <2>1, <2>2
<1>9. pass' = "table" <=> sched' > Schedulers
  OBVIOUS
<1>10. \A i \in DOMAIN results' :
         \E s \in 1..Schedulers, p \in 1..Len(ThreadCounts), b \in 1..3 :
           Before(s, p, b)' /\ IsRow(results'[i], s, p, b)
  BY <1>3, <1>7
<1>11. \A s \in 1..Schedulers, p \in 1..Len(ThreadCounts), b \in 1..3 :
         Before(s, p, b)' =>
           \E i \in DOMAIN results' : \A j \in DOMAIN results' :
             i = j <=> IsRow(results'[j], s, p, b)
  BY <1>3, <1>8
<1> HIDE DEF Turn, Places, n
<1> QED BY <1>9, <1>10, <1>11 DEF Rows, IsRow

\* and the return from run(), with which a pass or a turn ends.
LEMMA ReturnStep == IInv /\ Return => IInv'
<1> SUFFICES ASSUME IInv, Return PROVE IInv'
  OBVIOUS
<1>1. Types /\ Kinds /\ Driven /\ Accounts /\ Rows /\ MeasuresAll
  BY DEF IInv
<1>2. /\ driver' = "out" /\ UNCHANGED <<todo, running, done>>
      /\ executed' = 0 /\ submitted' = 0 /\ UNCHANGED <<count, task, spawned>>
  BY DEF Return, Sched!Return
<1>3. /\ todo = Sched!None /\ running = Sched!None /\ Busy = {} /\ pass # "table"
      /\ executed = Workload.total
      /\ bench = 2 => count = Workload.total
  BY ReturnFacts
<1>4. sched <= Schedulers
  <2>1. ~(sched > Schedulers) /\ sched \in 1..Schedulers+1
    BY <1>1, <1>3 DEF Rows, Types
  <2> QED BY <2>1, HwAssumption
<1>5. Result \in Row
  <2>1. NumWorkers \in Nat
    BY <1>1, CrewFacts, TaskFacts
  <2>2. sched \in Nat /\ bench \in 1..3 /\ executed \in Nat /\ count \in Nat
    BY <1>1, HwAssumption DEF Types
  <2>3. Workload.total \in Nat
    BY <2>2, WorkloadFacts
  <2> QED BY <2>1, <2>2, <2>3 DEF Result, Row
<1>6. /\ sched' \in 1..Schedulers+1 /\ place' \in 1..Len(ThreadCounts) /\ bench' \in 1..3
      /\ pass' \in {"warm-up", "timed", "table"} /\ results' \in Seq(Row)
      /\ Rows' /\ MeasuresAll'
  <2>1. CASE pass = "warm-up"
    <3>1. pass' = "timed" /\ UNCHANGED <<loops, results>>
      BY <2>1 DEF Return
    <3>2. sched' = sched /\ place' = place /\ bench' = bench /\ results' = results
      BY <3>1 DEF loops
    <3>3. Rows'
      BY <1>1, <2>1, <3>1, <3>2 DEF Rows, Before, IsRow
    <3>4. MeasuresAll'
      BY <1>1, <3>2 DEF MeasuresAll
    <3> QED BY <1>1, <3>1, <3>2, <3>3, <3>4 DEF Types
  <2>2. CASE pass # "warm-up"
    <3>1. /\ results' = Append(results, Result)
          /\ sched' = NextTurn[1] /\ place' = NextTurn[2] /\ bench' = NextTurn[3]
          /\ pass' = IF sched' > Schedulers THEN "table" ELSE "warm-up"
      BY <2>2 DEF Return
    <3>2. /\ sched' \in 1..Schedulers+1 /\ place' \in 1..Len(ThreadCounts) /\ bench' \in 1..3
      BY <1>1, <1>4, <3>1, TurnFacts
    <3>3. Rows'
      BY <1>1, <1>4, <3>1, RowAdded
    <3>4. results \in Seq(Row)
      BY <1>1 DEF Types
    <3>5. MeasuresAll'
      <4>1. /\ Result.executed = Result.num_tasks
            /\ Result.bench = 2 => Result.counted = Result.num_tasks
        BY <1>3 DEF Result
      <4>2. /\ DOMAIN results' = 1..Len(results)+1 /\ results'[Len(results) + 1] = Result
            /\ \A i \in 1..Len(results) : results'[i] = results[i]
            /\ Len(results) \in Nat /\ DOMAIN results = 1..Len(results)
        BY <1>5, <3>1, <3>4, AppendFacts
      <4>3. ASSUME NEW i \in 1..Len(results)+1
            PROVE  /\ results'[i].executed = results'[i].num_tasks
                   /\ results'[i].bench = 2 => results'[i].counted = results'[i].num_tasks
        <5>1. CASE i = Len(results) + 1
          BY <4>1, <4>2, <5>1
        <5>2. CASE i # Len(results) + 1
          <6>1. i \in 1..Len(results)
            BY <4>2, <5>2
          <6> QED BY <1>1, <4>2, <6>1 DEF MeasuresAll
        <5> QED BY <5>1, <5>2
      <4> QED BY <4>2, <4>3 DEF MeasuresAll
    <3>6. results' \in Seq(Row)
      BY <1>5, <3>1, <3>4, AppendFacts
    <3> QED BY <3>1, <3>2, <3>3, <3>5, <3>6
  <2> QED BY <2>1, <2>2
<1>7. Busy' = {} /\ Cardinality(Busy)' = 0
  BY <1>2, <1>3, FS_EmptySet DEF Busy
<1>8. Workload' = Workloads[bench'] /\ Workload'.roots \in Nat /\ Workload'.root \in Tasks
  BY <1>6, WorkloadsFacts DEF Workload
<1>9. Types'
  <2>1. submitted' \in Nat /\ submitted' <= Workload'.roots
    BY <1>2, <1>8
  <2> QED BY <1>1, <1>2, <1>6, <2>1 DEF Types
<1>10. Kinds'
  <2>1. \A k \in Tasks : ~(todo'[k] > 0)
    BY <1>2, <1>3 DEF Sched!None
  <2> QED BY <1>7, <2>1 DEF Kinds
<1>11. Driven'
  <2>1. SumFunction(running)' = Cardinality(Busy)'
    BY <1>1, <1>2, <1>3, <1>7 DEF Driven
  <2> QED BY <1>1, <1>2, <1>7, <2>1 DEF Driven
<1>12. Accounts'
  <2>1. Size \in [Tasks -> Nat] /\ Breadth \in [Tasks -> Nat]
    BY Weights
  <2>2. Outstanding(Size)' = 0 /\ Outstanding(Breadth)' = 0
    <3>1. \A w \in Workers : task[w] = Idle
      BY <1>3 DEF Busy
    <3>2. Outstanding(Size) = 0 /\ Outstanding(Breadth) = 0
      BY <1>3, <2>1, <3>1, NothingLeft
    <3> QED BY <1>2, <3>2 DEF Outstanding, Waiting, Unspawned, Owed
  <2>3. ASSUME NEW z \in Nat PROVE submitted' * z = 0
    BY <1>2, <2>3
  <2>4. Size[Workload'.root] \in Nat /\ Breadth[Workload'.root] \in Nat
    BY <1>8, <2>1
  <2>5. submitted' * Size[Workload'.root] = 0 /\ submitted' * Breadth[Workload'.root] = 0
    BY <2>3, <2>4
  <2> QED BY <1>2, <1>7, <2>2, <2>5 DEF Accounts
<1> QED BY <1>6, <1>9, <1>10, <1>11, <1>12 DEF IInv

-----------------------------------------------------------------------------
\* The invariant holds at the start.
LEMMA InitInvariant == Init => IInv
<1> SUFFICES ASSUME Init PROVE IInv
  OBVIOUS
<1>1. /\ sched = 1 /\ place = 1 /\ bench = 1 /\ pass = "warm-up" /\ submitted = 0
      /\ count = 0 /\ executed = 0 /\ results = <<>> /\ driver = "out"
      /\ task = [w \in Workers |-> Idle] /\ spawned = [w \in Workers |-> 0]
      /\ todo = Sched!None /\ running = Sched!None /\ done = Sched!None
  BY DEF Init, Sched!Init
<1>2. Busy = {} /\ Cardinality(Busy) = 0
  BY <1>1, FS_EmptySet DEF Busy
<1>3. Types
  <2>1. Sched!None \in [Tasks -> Nat]
    BY DEF Sched!None
  <2>2. TreeSize(TreeDepth) \in Nat
    <3>1. TreeDepth \in 0..TreeDepth
      BY TaskFacts
    <3> QED BY <3>1, TreeSizes
  <2>3. 0 <= TreeSize(TreeDepth)
    BY <2>2
  <2>4. sched \in 1..Schedulers+1 /\ place \in 1..Len(ThreadCounts) /\ bench \in 1..3
    BY <1>1, ThreadCountsFacts, HwAssumption
  <2>5. submitted \in Nat /\ submitted <= Workload.roots
    <3>1. Workload.roots \in Nat
      BY <2>4, WorkloadFacts
    <3> QED BY <1>1, <3>1
  <2>6. task \in [Workers -> 0..Idle] /\ spawned \in [Workers -> 0..2]
    <3>1. Idle \in 0..Idle
      BY TaskFacts
    <3> QED BY <1>1, <3>1
  <2> QED BY <1>1, <2>1, <2>3, <2>4, <2>5, <2>6 DEF Types
<1>4. Kinds
  BY <1>1, <1>2 DEF Kinds, Sched!None
<1>5. Driven
  <2>1. SumFunction(running) = 0
    <3>1. running \in [Tasks -> Nat] /\ \A k \in Tasks : running[k] = 0
      BY <1>1 DEF Sched!None
    <3>2. IsFiniteSet(Tasks)
      BY TaskFacts
    <3> QED BY <3>1, <3>2, SumTerms
  <2> QED BY <1>1, <1>2, <2>1 DEF Driven
<1>6. Accounts
  <2>1. Size \in [Tasks -> Nat] /\ Breadth \in [Tasks -> Nat] /\ Workload.root \in Tasks
    BY <1>3, Weights, WorkloadFacts DEF Types
  <2>2. Outstanding(Size) = 0 /\ Outstanding(Breadth) = 0
    BY <1>1, <2>1, NothingLeft
  <2>3. ASSUME NEW z \in Nat PROVE submitted * z = 0
    BY <1>1
  <2>4. submitted * Size[Workload.root] = 0 /\ submitted * Breadth[Workload.root] = 0
    BY <2>1, <2>3
  <2> QED BY <1>1, <1>2, <2>2, <2>4 DEF Accounts
<1>7. Rows
  <2>1. \A s \in 1..Schedulers, p \in 1..Len(ThreadCounts), b \in 1..3 : ~Before(s, p, b)
    BY <1>1, HwAssumption, ThreadCountsFacts DEF Before
  <2>2. ~(sched > Schedulers)
    BY <1>1, HwAssumption
  <2>3. DOMAIN results = {}
    BY <1>1
  <2> QED BY <1>1, <2>1, <2>2, <2>3 DEF Rows
<1>8. MeasuresAll
  BY <1>1 DEF MeasuresAll
<1> QED BY <1>3, <1>4, <1>5, <1>6, <1>7, <1>8 DEF IInv

\* The invariant holds in every behaviour.
LEMMA Invariance == Spec => []IInv
<1>1. Init => IInv
  BY InitInvariant
<1>2. IInv /\ [Next]_vars => IInv'
  <2> SUFFICES ASSUME IInv, [Next]_vars PROVE IInv'
    OBVIOUS
  <2>1. CASE SetUp
    BY <2>1, SetUpStep
  <2>2. CASE Run
    BY <2>2, RunStep
  <2>3. CASE Return
    BY <2>3, ReturnStep
  <2>4. ASSUME NEW w \in Workers, Worker(w) PROVE IInv'
    BY <2>4, StartStep, SpawnStep, FinishStep DEF Worker
  <2>5. CASE UNCHANGED vars
    <3>1. UNCHANGED <<loops, pass, submitted, count, task, spawned, executed, results, state>>
      BY <2>5 DEF vars
    <3>2. /\ UNCHANGED <<todo, running, done, driver>>
          /\ sched' = sched /\ place' = place /\ bench' = bench
      BY <3>1 DEF state, loops
    <3>3. Workload' = Workload /\ Busy' = Busy
      BY <3>1, <3>2 DEF Workload, Busy
    <3>4. Types'
      BY <3>1, <3>2, <3>3 DEF IInv, Types
    <3>5. Kinds' /\ Driven'
      BY <3>1, <3>2, <3>3 DEF IInv, Kinds, Driven, Crew, NumWorkers
    <3>6. Accounts'
      <4>1. Outstanding(Size)' = Outstanding(Size) /\ Outstanding(Breadth)' = Outstanding(Breadth)
        BY <3>1, <3>2 DEF Outstanding, Waiting, Unspawned, Owed
      <4> QED BY <3>1, <3>2, <3>3, <4>1 DEF IInv, Accounts
    <3>7. Rows' /\ MeasuresAll'
      BY <3>1, RowsStay DEF IInv
    <3> QED BY <3>4, <3>5, <3>6, <3>7 DEF IInv
  <2> QED BY <2>1, <2>2, <2>3, <2>4, <2>5 DEF Next
<1> QED BY <1>1, <1>2, PTL DEF Spec

-----------------------------------------------------------------------------
(***************************************************************************)
(* The theorems.                                                           *)
(***************************************************************************)

\* The loops of main.cpp stay within the schedulers, the thread counts and the
\* workloads, and g_task_count never exceeds the number of tasks of the tree.
THEOREM TypeCorrect == Spec => []TypeOK
<1>1. IInv => TypeOK
  <2> SUFFICES ASSUME IInv PROVE TypeOK
    OBVIOUS
  <2>1. Types
    BY DEF IInv
  <2>2. Workload.roots \in Nat
    BY <2>1, WorkloadFacts DEF Types
  <2>3. submitted \in 0..Workload.roots
    BY <2>1, <2>2 DEF Types
  <2>4. TreeSize(TreeDepth) \in Nat
    <3>1. TreeDepth \in 0..TreeDepth
      BY TaskFacts
    <3> QED BY <3>1, TreeSizes
  <2>5. count \in 0..TreeSize(TreeDepth)
    BY <2>1, <2>4 DEF Types
  <2> QED BY <2>1, <2>3, <2>5 DEF Types, TypeOK
<1> QED BY <1>1, Invariance, PTL

\* The tasks a row of the table counts, main.cpp's num_tasks, are the ones that were
\* executed in the time it measures, for every depth, thread count and scheduler.
THEOREM MeasuresAllCorrect == Spec => []MeasuresAll
<1>1. IInv => MeasuresAll
  BY DEF IInv
<1> QED BY <1>1, Invariance, PTL

\* The speedup table, which looks for the first row of a scheduler and workload at the
\* largest thread count, finds one, and there is no other.
THEOREM FindsRowsCorrect == Spec => []FindsRows
<1>1. IInv => FindsRows
  <2> SUFFICES ASSUME IInv, pass = "table", NEW s \in 1..Schedulers, NEW b \in 1..3
               PROVE  \E i \in DOMAIN results : \A j \in DOMAIN results :
                        (i = j) <=> /\ results[j].sched = s /\ results[j].bench = b
                                    /\ results[j].num_workers = ThreadCounts[Len(ThreadCounts)]
    BY DEF FindsRows
  <2> DEFINE last == Len(ThreadCounts)
  <2>1. last \in 1..Len(ThreadCounts)
    BY ThreadCountsFacts
  <2>2. Rows /\ Types
    BY DEF IInv
  <2>3. s < sched
    <3>1. sched > Schedulers /\ sched \in 1..Schedulers+1
      BY <2>2 DEF Rows, Types
    <3> QED BY <3>1, HwAssumption
  <2>4. Before(s, last, b)
    BY <2>3 DEF Before
  <2>5. PICK i \in DOMAIN results : \A j \in DOMAIN results : i = j <=> IsRow(results[j], s, last, b)
    BY <2>1, <2>2, <2>4 DEF Rows
  <2> QED BY <2>5 DEF IsRow
<1> QED BY <1>1, Invariance, PTL

\* There are never more unfinished tasks than the workload submits at the start or the
\* tree has leaves, and one more for each worker: with sizes chosen for it, the ring
\* always has a slot.
THEOREM HighWaterCorrect == Spec => []HighWater
<1>1. IInv => HighWater
  <2> SUFFICES ASSUME IInv PROVE HighWater
    OBVIOUS
  <2>1. Types /\ Driven /\ Accounts
    BY DEF IInv
  <2>2. /\ todo \in [Tasks -> Nat] /\ task \in [Workers -> 0..Idle]
        /\ spawned \in [Workers -> 0..2]
        /\ submitted \in Nat /\ submitted <= Workload.roots /\ executed \in Nat /\ bench \in 1..3
    BY <2>1 DEF Types
  <2>3. /\ SumFunction(running) = Cardinality(Busy) /\ Cardinality(Busy) \in Nat
        /\ Cardinality(Busy) <= NumWorkers /\ NumWorkers \in Nat
    BY <2>1, CrewFacts, TaskFacts DEF Driven
  <2>4. ASSUME NEW W \in [Tasks -> Nat], \A k \in Tasks : W[k] > 0
        PROVE  /\ SumFunction(todo) \in Nat /\ Outstanding(W) \in Nat
               /\ SumFunction(todo) <= Outstanding(W)
    <3> DEFINE f == [k \in Tasks |-> todo[k] * W[k]]
    <3>1. /\ f \in [Tasks -> Nat]
          /\ Waiting(W) \in Nat /\ Unspawned(W) \in Nat
          /\ Outstanding(W) = Waiting(W) + Unspawned(W)
      BY <2>2, OutstandingNat
    <3>2. ASSUME NEW k \in Tasks PROVE todo[k] <= f[k]
      <4>1. todo[k] \in Nat /\ W[k] \in Nat /\ W[k] > 0
        BY <2>2, <2>4
      <4>2. todo[k] <= todo[k] * W[k]
        BY <4>1
      <4> QED BY <4>2
    <3>3. Waiting(W) = SumFunction(f)
      BY DEF Waiting
    <3> HIDE DEF f
    <3>4. IsFiniteSet(Tasks)
      BY TaskFacts
    <3>5. SumFunction(todo) <= SumFunction(f) /\ SumFunction(todo) \in Nat
      BY <2>2, <3>1, <3>2, <3>4, SumLess, SumNat
    <3> QED BY <3>1, <3>3, <3>5
  <2>5. CASE Workload.root = Flat
    <3>1. Size \in [Tasks -> Nat] /\ \A k \in Tasks : Size[k] > 0
      BY Weights
    <3>2. /\ SumFunction(todo) \in Nat /\ Outstanding(Size) \in Nat
          /\ SumFunction(todo) <= Outstanding(Size)
      BY <2>4, <3>1
    <3>3. executed + Cardinality(Busy) + Outstanding(Size) = submitted * 1
      BY <2>1, <2>5, Weights DEF Accounts
    <3>4. Workload.roots \in Nat
      BY <2>2, WorkloadFacts
    <3>5. SumFunction(todo) + SumFunction(running) <= Workload.roots
      BY <2>2, <2>3, <3>2, <3>3, <3>4
    <3>6. bench \in {1, 3}
      BY <2>2, <2>5, TaskFacts, SizeAssumption DEF Workload, Workloads
    <3>7. Workload.roots <= RingSize
      <4>1. CASE bench = 1
        BY <4>1, RingAssumption DEF Workload, Workloads
      <4>2. CASE bench = 3
        BY <4>2, RingAssumption DEF Workload, Workloads
      <4> QED BY <3>6, <4>1, <4>2
    <3> QED BY <2>3, <3>2, <3>4, <3>5, <3>7, RingAssumption DEF HighWater
  <2>6. CASE Workload.root # Flat
    <3>1. Breadth \in [Tasks -> Nat] /\ \A k \in Tasks : Breadth[k] > 0
      BY Weights
    <3>2. /\ SumFunction(todo) \in Nat /\ Outstanding(Breadth) \in Nat
          /\ SumFunction(todo) <= Outstanding(Breadth)
      BY <2>4, <3>1
    <3>3. Workload.root = TreeDepth /\ Workload.roots = 1 /\ TreeDepth \in Tasks
      BY <2>2, <2>6, WorkloadFacts
    <3>4. /\ Breadth[TreeDepth] = Shifted[TreeDepth] /\ Breadth[TreeDepth] \in Nat
          /\ Outstanding(Breadth) <= submitted * Breadth[TreeDepth]
      BY <2>1, <3>1, <3>3, Weights DEF Accounts
    <3>5. submitted * Breadth[TreeDepth] <= Breadth[TreeDepth]
      <4>1. submitted = 0 \/ submitted = 1
        BY <2>2, <3>3
      <4>2. CASE submitted = 0
        BY <3>4, <4>2
      <4>3. CASE submitted = 1
        BY <3>4, <4>3
      <4> QED BY <4>1, <4>2, <4>3
    <3>6. submitted * Breadth[TreeDepth] \in Nat
      BY <2>2, <3>4
    <3>7. Outstanding(Breadth) <= Shifted[TreeDepth] /\ Shifted[TreeDepth] \in Nat
      BY <3>2, <3>4, <3>5, <3>6
    <3>8. SumFunction(todo) + SumFunction(running) <= Shifted[TreeDepth] + NumWorkers
      BY <2>3, <3>2, <3>7
    <3>9. NumWorkers <= Hw
      BY <2>1, ThreadCountsFacts, HwAssumption DEF Types, NumWorkers
    <3> QED BY <2>3, <3>2, <3>7, <3>8, <3>9, RingAssumption, HwAssumption DEF HighWater
  <2> QED BY <2>5, <2>6
<1> QED BY <1>1, Invariance, PTL
=============================================================================
