----------------------------- MODULE FoldTheorems -----------------------------
(***************************************************************************)
(* Sums of functions over finite sets, as SumFunctionOnSet of Functions    *)
(* folds them: what they are for every function with natural values.       *)
(*                                                                         *)
(* The induction theorems of the library take a predicate as a parameter;  *)
(* the two stated here take a set instead, which every prover handles.     *)
(***************************************************************************)
EXTENDS Integers, Functions, FiniteSetTheorems, WellFoundedInduction, TLAPS

-----------------------------------------------------------------------------
(***************************************************************************)
(* Induction.                                                              *)
(***************************************************************************)
\* A set of naturals with 0 and, with each number, the next, is Nat.
LEMMA NatClosed ==
    ASSUME NEW T \in SUBSET Nat, 0 \in T, \A n \in T : n + 1 \in T
    PROVE  T = Nat
<1> SUFFICES ASSUME Nat \ T # {} PROVE FALSE
  OBVIOUS
<1>1. PICK m \in Nat \ T : \A k \in Nat \ T : <<k, m>> \notin OpToRel(<, Nat)
  BY NatLessThanWellFounded, WFMin
<1>2. m - 1 \in Nat /\ m - 1 < m
  OBVIOUS
<1>3. <<m - 1, m>> \in OpToRel(<, Nat)
  BY <1>2 DEF OpToRel
<1>4. m - 1 \in T
  BY <1>1, <1>2, <1>3
<1> QED BY <1>4

\* A family of subsets of a finite set that has each subset whenever it has
\* those of one element less has them all.
LEMMA SubsetsClosed ==
    ASSUME NEW S, IsFiniteSet(S), NEW T \in SUBSET SUBSET S,
           \A s \in SUBSET S : (\A x \in s : s \ {x} \in T) => s \in T
    PROVE  T = SUBSET S
<1> DEFINE N == {n \in Nat : \A s \in SUBSET S : Cardinality(s) = n => s \in T}
<1>1. \A s \in SUBSET S : IsFiniteSet(s) /\ Cardinality(s) \in Nat
  BY FS_Subset, FS_CardinalityType
<1>2. 0 \in N
  BY <1>1, FS_EmptySet
<1>3. ASSUME NEW n \in N PROVE n + 1 \in N
  <2>1. n \in Nat /\ \A s \in SUBSET S : Cardinality(s) = n => s \in T
    BY <1>3
  <2> HIDE DEF N
  <2> SUFFICES ASSUME NEW s \in SUBSET S, Cardinality(s) = n + 1 PROVE s \in T
    BY <2>1 DEF N
  <2>2. ASSUME NEW x \in s PROVE s \ {x} \in T
    <3>1. IsFiniteSet(s)
      BY <1>1
    <3>2. Cardinality(s \ {x}) = Cardinality(s) - 1
      BY <3>1, FS_RemoveElement
    <3>3. Cardinality(s \ {x}) = n
      BY <2>1, <3>2
    <3> QED BY <2>1, <3>3
  <2> QED BY <2>2
<1>4. N = Nat
  <2> HIDE DEF N
  <2>1. N \in SUBSET Nat
    BY DEF N
  <2> QED BY <1>2, <1>3, <2>1, NatClosed
<1> QED BY <1>1, <1>4

-----------------------------------------------------------------------------
(***************************************************************************)
(* Folds.                                                                  *)
(***************************************************************************)
\* it: the values of a fold at each subset of S, which takes from each the
\* element `next' gives.
Folds(it, S, V, base, next, step) ==
    /\ it \in [SUBSET S -> V]
    /\ \A s \in SUBSET S : it[s] = IF s = {} THEN base
                                   ELSE step[<<next[s], it[s \ {next[s]}]>>]

\* Over a finite set it exists: for the subsets of at most n elements, for
\* every n.
LEMMA FoldExists ==
    ASSUME NEW S, IsFiniteSet(S), NEW V, NEW base \in V,
           NEW next, \A s \in SUBSET S : s # {} => next[s] \in s,
           NEW step \in [S \X V -> V]
    PROVE  \E it : Folds(it, S, V, base, next, step)
<1> DEFINE Small(n) == {s \in SUBSET S : Cardinality(s) <= n}
           At(s, g) == IF s = {} THEN base ELSE step[<<next[s], g[s \ {next[s]}]>>]
           Solves(n, g) == g \in [Small(n) -> V] /\ \A s \in Small(n) : g[s] = At(s, g)
           N == {n \in Nat : \E g : Solves(n, g)}
<1>1. \A s \in SUBSET S : /\ IsFiniteSet(s) /\ Cardinality(s) \in Nat
                          /\ Cardinality(s) = 0 <=> s = {}
                          /\ \A x \in s : Cardinality(s \ {x}) = Cardinality(s) - 1
  BY FS_Subset, FS_CardinalityType, FS_EmptySet, FS_RemoveElement
<1>2. 0 \in N
  <2>1. \A s \in Small(0) : s = {}
    BY <1>1
  <2>2. Solves(0, [s \in Small(0) |-> base])
    BY <2>1
  <2>3. \E g : Solves(0, g)
    <3> HIDE DEF Solves
    <3> QED BY <2>2
  <2> QED BY <2>3
<1>3. ASSUME NEW n \in N PROVE n + 1 \in N
  <2>1. n \in Nat
    OBVIOUS
  <2>2. PICK g : Solves(n, g)
    OBVIOUS
  <2> DEFINE h == [s \in Small(n + 1) |-> At(s, g)]
  <2>3. \A s \in Small(n) : s \in Small(n + 1)
    BY <1>1, <2>1
  <2>4. ASSUME NEW s \in Small(n + 1), s # {} PROVE s \ {next[s]} \in Small(n) /\ next[s] \in S
    <3>1. s \in SUBSET S /\ s \ {next[s]} \in SUBSET S /\ Cardinality(s) <= n + 1 /\ next[s] \in s
      BY <2>4
    <3>2. Cardinality(s \ {next[s]}) = Cardinality(s) - 1 /\ Cardinality(s) \in Nat
      BY <1>1, <3>1
    <3>3. Cardinality(s \ {next[s]}) <= n
      BY <2>1, <3>1, <3>2
    <3> QED BY <3>1, <3>3
  <2>5. \A s \in Small(n + 1) : At(s, g) \in V
    <3> HIDE DEF Small
    <3> QED BY <2>2, <2>4
  <2>6. h \in [Small(n + 1) -> V] /\ \A s \in Small(n + 1) : h[s] = At(s, g)
    <3> HIDE DEF Small, At
    <3> QED BY <2>5
  <2>7. \A s \in Small(n) : h[s] = g[s]
    <3> HIDE DEF Small, At, h
    <3> QED BY <2>2, <2>3, <2>6
  <2>8. \A s \in Small(n + 1) : At(s, g) = At(s, h)
    <3> HIDE DEF Small, h
    <3> QED BY <2>4, <2>7
  <2>9. Solves(n + 1, h)
    <3> HIDE DEF Small, At, h
    <3> QED BY <2>6, <2>8
  <2>10. \E k : Solves(n + 1, k)
    <3> HIDE DEF Solves, h
    <3> QED BY <2>9
  <2> HIDE DEF Solves, h
  <2> QED BY <2>1, <2>10
<1>4. N = Nat
  <2> HIDE DEF N
  <2>1. N \in SUBSET Nat
    BY DEF N
  <2> QED BY <1>2, <1>3, <2>1, NatClosed
<1>5. Cardinality(S) \in N /\ Small(Cardinality(S)) = SUBSET S
  <2> HIDE DEF N
  <2>1. \A s \in SUBSET S : Cardinality(s) <= Cardinality(S)
    BY FS_Subset
  <2> QED BY <1>1, <1>4, <2>1
<1>6. PICK g : Solves(Cardinality(S), g)
  <2> HIDE DEF Solves, Small
  <2> QED BY <1>5
<1>7. g \in [SUBSET S -> V] /\ \A s \in SUBSET S : g[s] = At(s, g)
  <2> HIDE DEF Small, At
  <2> QED BY <1>5, <1>6
<1> QED BY <1>7 DEF Folds

-----------------------------------------------------------------------------
(***************************************************************************)
(* The function the fold of a sum defines.                                 *)
(***************************************************************************)
Chosen(s) == CHOOSE y \in s : TRUE

Adds(f, S, sum) ==
    sum = [s \in SUBSET S |-> IF s = {} THEN 0
                              ELSE LET x == CHOOSE y \in s : TRUE IN f[x] + sum[s \ {x}]]

TheSum(f, S) == CHOOSE sum : Adds(f, S, sum)

LEMMA Unfolded ==
    ASSUME NEW f, NEW S
    PROVE  SumFunctionOnSet(f, S) = TheSum(f, S)[S]
  BY DEF SumFunctionOnSet, FoldFunctionOnSet, MapThenFoldSet, TheSum, Adds

\* It exists.
LEMMA SumExists ==
    ASSUME NEW S, IsFiniteSet(S), NEW f, \A x \in S : f[x] \in Nat
    PROVE  Adds(f, S, TheSum(f, S))
<1> DEFINE next == [s \in SUBSET S |-> Chosen(s)]
           step == [p \in S \X Nat |-> f[p[1]] + p[2]]
<1>1. \A s \in SUBSET S : next[s] = Chosen(s) /\ (s # {} => Chosen(s) \in s)
  BY DEF Chosen
<1>2. step \in [S \X Nat -> Nat] /\ \A x \in S, n \in Nat : step[<<x, n>>] = f[x] + n
  OBVIOUS
<1> HIDE DEF next, step
<1>3. PICK it : Folds(it, S, Nat, 0, next, step)
  <2>1. \A s \in SUBSET S : s # {} => next[s] \in s
    BY <1>1
  <2> QED BY <1>2, <2>1, FoldExists
<1>4. \A s \in SUBSET S : it[s] = IF s = {} THEN 0 ELSE f[Chosen(s)] + it[s \ {Chosen(s)}]
  <2> SUFFICES ASSUME NEW s \in SUBSET S, s # {}
               PROVE  it[s] = f[Chosen(s)] + it[s \ {Chosen(s)}]
    BY <1>3 DEF Folds
  <2>1. Chosen(s) \in S /\ it[s \ {Chosen(s)}] \in Nat
    BY <1>1, <1>3 DEF Folds
  <2> QED BY <1>1, <1>2, <1>3, <2>1 DEF Folds
<1>5. it = [s \in SUBSET S |-> it[s]]
  BY <1>3 DEF Folds
<1>6. Adds(f, S, it)
  BY <1>4, <1>5 DEF Adds, Chosen
<1> QED BY <1>6 DEF TheSum

\* The sum of each subset, step by step.
LEMMA StepDef ==
    ASSUME NEW S, IsFiniteSet(S), NEW f, \A x \in S : f[x] \in Nat
    PROVE  \A s \in SUBSET S :
              TheSum(f, S)[s] = IF s = {} THEN 0
                                ELSE f[Chosen(s)] + TheSum(f, S)[s \ {Chosen(s)}]
<1>1. Adds(f, S, TheSum(f, S))
  BY SumExists
<1>2. \A it : Adds(f, S, it) =>
         \A s \in SUBSET S : it[s] = IF s = {} THEN 0 ELSE f[Chosen(s)] + it[s \ {Chosen(s)}]
  BY DEF Adds, Chosen
<1> QED BY <1>1, <1>2

LEMMA StepEmpty ==
    ASSUME NEW S, IsFiniteSet(S), NEW f, \A x \in S : f[x] \in Nat
    PROVE  TheSum(f, S)[{}] = 0
  BY StepDef

LEMMA StepOne ==
    ASSUME NEW S, IsFiniteSet(S), NEW f, \A x \in S : f[x] \in Nat
    PROVE  \A s \in SUBSET S : s # {} =>
              /\ Chosen(s) \in s
              /\ TheSum(f, S)[s] = f[Chosen(s)] + TheSum(f, S)[s \ {Chosen(s)}]
<1>1. \A s \in SUBSET S : s # {} => Chosen(s) \in s
  BY DEF Chosen
<1> QED BY <1>1, StepDef

\* It is a natural number, ...
LEMMA StepType ==
    ASSUME NEW S, IsFiniteSet(S), NEW f, \A x \in S : f[x] \in Nat
    PROVE  \A s \in SUBSET S : TheSum(f, S)[s] \in Nat
<1> DEFINE T == {s \in SUBSET S : TheSum(f, S)[s] \in Nat}
<1>1. ASSUME NEW s \in SUBSET S, \A x \in s : s \ {x} \in T PROVE s \in T
  <2>1. CASE s = {}
    BY <2>1, StepEmpty
  <2>2. CASE s # {}
    <3>1. Chosen(s) \in s /\ TheSum(f, S)[s] = f[Chosen(s)] + TheSum(f, S)[s \ {Chosen(s)}]
      BY <2>2, StepOne
    <3> DEFINE x == Chosen(s)
    <3>2. TheSum(f, S)[s \ {x}] \in Nat /\ f[x] \in Nat
      BY <1>1, <3>1
    <3> QED BY <3>1, <3>2
  <2> QED BY <2>1, <2>2
<1>2. T = SUBSET S
  <2> HIDE DEF T
  <2>1. T \in SUBSET SUBSET S
    BY DEF T
  <2> QED BY <1>1, <2>1, SubsetsClosed
<1> QED BY <1>2

\* ... and takes its elements in any order.
LEMMA StepAny ==
    ASSUME NEW S, IsFiniteSet(S), NEW f, \A x \in S : f[x] \in Nat
    PROVE  \A s \in SUBSET S : \A x \in s :
              TheSum(f, S)[s] = f[x] + TheSum(f, S)[s \ {x}]
<1> DEFINE it == TheSum(f, S)
           T == {s \in SUBSET S : \A x \in s : it[s] = f[x] + it[s \ {x}]}
<1>1. \A s \in SUBSET S : it[s] \in Nat
  BY StepType
<1>2. ASSUME NEW s \in SUBSET S, \A x \in s : s \ {x} \in T PROVE s \in T
  <2> SUFFICES ASSUME NEW x \in s PROVE it[s] = f[x] + it[s \ {x}]
    OBVIOUS
  <2> DEFINE c == Chosen(s)
  <2>1. c \in s /\ it[s] = f[c] + it[s \ {c}]
    BY StepOne
  <2> HIDE DEF c
  <2>2. CASE c = x
    BY <2>1, <2>2
  <2>3. CASE c # x
    <3>1. it[s \ {c}] = f[x] + it[(s \ {c}) \ {x}]
      BY <1>2, <2>1, <2>3
    <3>2. it[s \ {x}] = f[c] + it[(s \ {x}) \ {c}]
      BY <1>2, <2>1, <2>3
    <3>3. (s \ {c}) \ {x} = (s \ {x}) \ {c}
      OBVIOUS
    <3>4. f[x] \in Nat /\ f[c] \in Nat /\ it[(s \ {x}) \ {c}] \in Nat
      <4>1. (s \ {x}) \ {c} \in SUBSET S
        OBVIOUS
      <4> QED BY <1>1, <2>1, <4>1
    <3>5. it[s] = f[c] + (f[x] + it[(s \ {x}) \ {c}])
      BY <2>1, <3>1, <3>3
    <3> HIDE DEF it, T
    <3> QED BY <3>2, <3>4, <3>5
  <2> QED BY <2>2, <2>3
<1>3. T = SUBSET S
  <2> HIDE DEF T
  <2>1. T \in SUBSET SUBSET S
    BY DEF T
  <2> QED BY <1>2, <2>1, SubsetsClosed
<1> QED BY <1>3

\* Sums of functions that agree on a set agree, whatever set they were
\* defined over.
LEMMA StepAgree ==
    ASSUME NEW S, IsFiniteSet(S), NEW U, IsFiniteSet(U), 
           NEW f, \A x \in S : f[x] \in Nat, NEW g, \A x \in U : g[x] \in Nat,
           NEW R \in SUBSET (S \cap U), \A x \in R : f[x] = g[x]
    PROVE  TheSum(f, S)[R] = TheSum(g, U)[R]
<1> DEFINE T == {s \in SUBSET R : TheSum(f, S)[s] = TheSum(g, U)[s]}
<1>1. ASSUME NEW s \in SUBSET R, \A x \in s : s \ {x} \in T PROVE s \in T
  <2>1. s \in SUBSET S /\ s \in SUBSET U
    OBVIOUS
  <2>2. CASE s = {}
    BY <2>1, <2>2, StepEmpty
  <2>3. CASE s # {}
    <3> DEFINE x == Chosen(s)
    <3>1. x \in s /\ TheSum(f, S)[s] = f[x] + TheSum(f, S)[s \ {x}]
      <4>1. \A r \in SUBSET S : r # {} =>
               Chosen(r) \in r /\ TheSum(f, S)[r] = f[Chosen(r)] + TheSum(f, S)[r \ {Chosen(r)}]
        BY StepOne
      <4> HIDE DEF T
      <4> QED BY <2>1, <2>3, <4>1
    <3>2. TheSum(g, U)[s] = g[x] + TheSum(g, U)[s \ {x}]
      <4>1. \A r \in SUBSET U : r # {} =>
               Chosen(r) \in r /\ TheSum(g, U)[r] = g[Chosen(r)] + TheSum(g, U)[r \ {Chosen(r)}]
        BY StepOne
      <4> HIDE DEF T
      <4> QED BY <2>1, <2>3, <4>1
    <3> HIDE DEF x
    <3>3. TheSum(f, S)[s \ {x}] = TheSum(g, U)[s \ {x}] /\ f[x] = g[x]
      BY <1>1, <3>1
    <3> QED BY <3>1, <3>2, <3>3
  <2> QED BY <2>2, <2>3
<1>2. T = SUBSET R
  <2> HIDE DEF T
  <2>1. T \in SUBSET SUBSET R /\ IsFiniteSet(R)
    BY FS_Subset DEF T
  <2> QED BY <1>1, <2>1, SubsetsClosed
<1> QED BY <1>2

-----------------------------------------------------------------------------
(***************************************************************************)
(* What a sum is.                                                          *)
(***************************************************************************)
\* The sum over no element is 0.
LEMMA SumEmpty ==
    ASSUME NEW f
    PROVE  SumFunctionOnSet(f, {}) = 0
  BY Unfolded, StepEmpty, FS_EmptySet

\* The sum of naturals is one.
LEMMA SumType ==
    ASSUME NEW S, IsFiniteSet(S), NEW f, \A x \in S : f[x] \in Nat
    PROVE  SumFunctionOnSet(f, S) \in Nat
  BY Unfolded, StepType

\* A sum depends on the values at its elements alone.
LEMMA SumAgree ==
    ASSUME NEW S, IsFiniteSet(S), NEW f, NEW g, \A x \in S : f[x] \in Nat /\ f[x] = g[x]
    PROVE  SumFunctionOnSet(f, S) = SumFunctionOnSet(g, S)
  BY Unfolded, StepAgree

\* Any element can be taken out of a sum.
LEMMA SumTake ==
    ASSUME NEW S, IsFiniteSet(S), NEW f, \A x \in S : f[x] \in Nat, NEW x \in S
    PROVE  SumFunctionOnSet(f, S) = f[x] + SumFunctionOnSet(f, S \ {x})
<1>1. TheSum(f, S)[S] = f[x] + TheSum(f, S)[S \ {x}]
  BY StepAny
<1>2. IsFiniteSet(S \ {x})
  BY FS_Subset
<1>3. TheSum(f, S)[S \ {x}] = TheSum(f, S \ {x})[S \ {x}]
  BY <1>2, StepAgree
<1> QED BY <1>1, <1>3, Unfolded

\* Functions that agree but at one element.
LEMMA SumBut ==
    ASSUME NEW S, IsFiniteSet(S), NEW f, NEW g, NEW x \in S,
           \A y \in S : f[y] \in Nat /\ g[y] \in Nat,
           \A y \in S \ {x} : f[y] = g[y]
    PROVE  SumFunctionOnSet(f, S) + g[x] = SumFunctionOnSet(g, S) + f[x]
<1> DEFINE R == S \ {x}
<1>1. IsFiniteSet(R)
  BY FS_Subset
<1>2. /\ SumFunctionOnSet(f, S) = f[x] + SumFunctionOnSet(f, R)
      /\ SumFunctionOnSet(g, S) = g[x] + SumFunctionOnSet(g, R)
  BY SumTake
<1>3. SumFunctionOnSet(f, R) = SumFunctionOnSet(g, R)
  BY <1>1, SumAgree
<1>4. SumFunctionOnSet(f, R) \in Nat /\ f[x] \in Nat /\ g[x] \in Nat
  BY <1>1, SumType
<1> HIDE DEF R
<1> QED BY <1>2, <1>3, <1>4

\* Larger values have the larger sum.
LEMMA SumMonotone ==
    ASSUME NEW S, IsFiniteSet(S), NEW f, NEW g,
           \A x \in S : f[x] \in Nat /\ g[x] \in Nat /\ f[x] <= g[x]
    PROVE  SumFunctionOnSet(f, S) <= SumFunctionOnSet(g, S)
<1> DEFINE F == TheSum(f, S)
           G == TheSum(g, S)
           T == {s \in SUBSET S : F[s] <= G[s]}
<1>1. \A s \in SUBSET S : F[s] \in Nat /\ G[s] \in Nat
  BY StepType
<1>2. ASSUME NEW s \in SUBSET S, \A x \in s : s \ {x} \in T PROVE s \in T
  <2>1. CASE s = {}
    BY <2>1, StepEmpty
  <2>2. CASE s # {}
    <3>1. PICK x \in s : TRUE
      BY <2>2
    <3>2. F[s] = f[x] + F[s \ {x}] /\ G[s] = g[x] + G[s \ {x}]
      BY StepAny
    <3>3. F[s \ {x}] <= G[s \ {x}] /\ f[x] <= g[x]
      BY <1>2
    <3>4. f[x] \in Nat /\ g[x] \in Nat /\ F[s \ {x}] \in Nat /\ G[s \ {x}] \in Nat
      BY <1>1
    <3> HIDE DEF F, G
    <3> QED BY <3>2, <3>3, <3>4
  <2> QED BY <2>1, <2>2
<1>3. T = SUBSET S
  <2> HIDE DEF T
  <2>1. T \in SUBSET SUBSET S
    BY DEF T
  <2> QED BY <1>2, <2>1, SubsetsClosed
<1> QED BY <1>3, Unfolded

\* A sum of sums is the sum of the values' sums.
LEMMA SumPlus ==
    ASSUME NEW S, IsFiniteSet(S), NEW f, NEW g, NEW h,
           \A x \in S : f[x] \in Nat /\ g[x] \in Nat /\ h[x] = f[x] + g[x]
    PROVE  SumFunctionOnSet(h, S) = SumFunctionOnSet(f, S) + SumFunctionOnSet(g, S)
<1> DEFINE F == TheSum(f, S)
           G == TheSum(g, S)
           H == TheSum(h, S)
           T == {s \in SUBSET S : H[s] = F[s] + G[s]}
<1>1. \A s \in SUBSET S : F[s] \in Nat /\ G[s] \in Nat
  BY StepType
<1>2. ASSUME NEW s \in SUBSET S, \A x \in s : s \ {x} \in T PROVE s \in T
  <2>1. CASE s = {}
    BY <2>1, StepEmpty
  <2>2. CASE s # {}
    <3>1. PICK x \in s : TRUE
      BY <2>2
    <3>2. \A y \in S : h[y] \in Nat
      OBVIOUS
    <3>3. F[s] = f[x] + F[s \ {x}] /\ G[s] = g[x] + G[s \ {x}] /\ H[s] = h[x] + H[s \ {x}]
      BY <3>2, StepAny
    <3>4. H[s \ {x}] = F[s \ {x}] + G[s \ {x}] /\ h[x] = f[x] + g[x]
      BY <1>2
    <3>5. f[x] \in Nat /\ g[x] \in Nat /\ F[s \ {x}] \in Nat /\ G[s \ {x}] \in Nat
      BY <1>1
    <3> HIDE DEF F, G, H
    <3> QED BY <3>3, <3>4, <3>5
  <2> QED BY <2>1, <2>2
<1>3. T = SUBSET S
  <2> HIDE DEF T
  <2>1. T \in SUBSET SUBSET S
    BY DEF T
  <2> QED BY <1>2, <2>1, SubsetsClosed
<1> QED BY <1>3, Unfolded
=============================================================================
