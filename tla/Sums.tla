-------------------------------- MODULE Sums --------------------------------
(***************************************************************************)
(* What SumFunctionOnSet computes over a finite set of any size: the sum   *)
(* of no terms is 0, one member more adds its term, and equal terms have   *)
(* equal sums.  The fold chooses its members in some order; that no order  *)
(* plays a part is shown by induction over the subsets of the set, in the  *)
(* form of the least counterexample of a well-founded order.               *)
(***************************************************************************)
EXTENDS FiniteSetsExt, FiniteSetTheorems, TLAPS

\* What SumFunctionOnSet computes, one chosen member after the other.
Pick(s) == CHOOSE x \in s : TRUE

Folds(h, f, S) ==
  h = [s \in SUBSET S |-> IF s = {} THEN 0 ELSE f[Pick(s)] + h[s \ {Pick(s)}]]

\* What it should compute: an order plays no part in it.
Sums(h, f, S) ==
  /\ h \in [SUBSET S -> Int]
  /\ h[{}] = 0
  /\ \A T \in SUBSET S : \A x \in S \ T : h[T \cup {x}] = h[T] + f[x]

\* A family of subsets of a finite set has a smallest member.
LEMMA SmallestBadSet ==
  ASSUME NEW S, IsFiniteSet(S), NEW Bad \in SUBSET SUBSET S, Bad # {}
  PROVE  \E T \in Bad : \A U \in Bad : U \subseteq T => U = T
<1>1. IsWellFoundedOn(StrictSubsetOrdering(S), SUBSET S)
  BY FS_StrictSubsetOrderingWellFounded, FS_FiniteSubsetsOfFinite
<1>2. \E T \in Bad : \A U \in Bad : ~(<<U, T>> \in StrictSubsetOrdering(S))
  BY <1>1, WFMin
<1> QED
  BY <1>2 DEF StrictSubsetOrdering

\* Induction over the subsets of a finite set, stated with a set in place of a
\* predicate: what holds of {} and is kept by one element more holds of them all.
LEMMA SubsetInduction ==
  ASSUME NEW S, IsFiniteSet(S), NEW G \in SUBSET SUBSET S, {} \in G,
         \A T \in G : \A x \in S \ T : T \cup {x} \in G
  PROVE  S \in G
<1> SUFFICES ASSUME S \notin G PROVE FALSE
  OBVIOUS
<1> DEFINE Bad == (SUBSET S) \ G
<1>1. PICK T \in Bad : \A U \in Bad : U \subseteq T => U = T
  <2>1. Bad \in SUBSET SUBSET S /\ Bad # {}
    OBVIOUS
  <2> HIDE DEF Bad
  <2> QED
    BY <2>1, SmallestBadSet
<1>2. PICK x : x \in T
  BY <1>1
<1>3. T \ {x} \in G
  BY <1>1, <1>2
<1>4. T = (T \ {x}) \cup {x} /\ x \in S \ (T \ {x})
  BY <1>1, <1>2
<1> QED
  BY <1>1, <1>3, <1>4

\* The recursive function behind the fold exists, and the order of choice plays
\* no part in it.
LEMMA SumExists ==
  ASSUME NEW S, IsFiniteSet(S), NEW f, \A x \in S : f[x] \in Int
  PROVE  \E h : Sums(h, f, S)
<1> DEFINE G == {T \in SUBSET S : \E h : Sums(h, f, T)}
<1>1. {} \in G
  <2>1. Sums([s \in SUBSET {} |-> 0], f, {})
    BY DEF Sums
  <2> QED
    BY <2>1
<1>2. ASSUME NEW T \in G, NEW x \in S \ T PROVE T \cup {x} \in G
  <2>1. PICK h : Sums(h, f, T)
    OBVIOUS
  <2> DEFINE k == [s \in SUBSET (T \cup {x}) |->
                     IF x \in s THEN h[s \ {x}] + f[x] ELSE h[s]]
  <2>2. k \in [SUBSET (T \cup {x}) -> Int] /\ k[{}] = 0
    BY <2>1 DEF Sums
  <2>3. ASSUME NEW U \in SUBSET (T \cup {x}), NEW y \in (T \cup {x}) \ U
        PROVE  k[U \cup {y}] = k[U] + f[y]
    <3>1. CASE y = x
      <4>1. (U \cup {y}) \ {x} = U /\ x \notin U
        BY <3>1
      <4> QED
        BY <3>1, <4>1
    <3>2. CASE y # x /\ x \notin U
      <4>1. U \in SUBSET T /\ y \in T \ U /\ x \notin U \cup {y}
        BY <3>2
      <4> QED
        BY <2>1, <4>1 DEF Sums
    <3>3. CASE y # x /\ x \in U
      <4> DEFINE V == U \ {x}
      <4>1. V \in SUBSET T /\ y \in T \ V /\ (U \cup {y}) \ {x} = V \cup {y}
        BY <3>3
      <4>2. h[V \cup {y}] = h[V] + f[y] /\ h[V] \in Int
        BY <2>1, <4>1 DEF Sums
      <4>3. k[U \cup {y}] = h[V \cup {y}] + f[x] /\ k[U] = h[V] + f[x]
        BY <3>3, <4>1
      <4>4. f[x] \in Int /\ f[y] \in Int
        OBVIOUS
      <4> QED
        BY <4>2, <4>3, <4>4
    <3> QED
      BY <3>1, <3>2, <3>3
  <2>4. Sums(k, f, T \cup {x})
    BY <2>2, <2>3 DEF Sums
  <2> QED
    BY <2>4
<1>3. G \in SUBSET SUBSET S
  OBVIOUS
<1> HIDE DEF G
<1>4. S \in G
  BY <1>1, <1>2, <1>3, SubsetInduction
<1> QED
  BY <1>4 DEF G

\* Whatever order the fold chooses, it computes the sum.
LEMMA FoldIsSum ==
  ASSUME NEW S, IsFiniteSet(S), NEW f, \A x \in S : f[x] \in Int,
         NEW h, Sums(h, f, S)
  PROVE  SumFunctionOnSet(f, S) = h[S]
<1> DEFINE H == CHOOSE k : Folds(k, f, S)
<1>1. SumFunctionOnSet(f, S) = H[S]
  BY DEF SumFunctionOnSet, FoldFunctionOnSet, MapThenFoldSet, Folds, Pick
<1>2. \A s \in SUBSET S : s # {} => Pick(s) \in s
  BY DEF Pick
<1>3. ASSUME NEW s \in SUBSET S, s # {}
      PROVE  h[s] = f[Pick(s)] + h[s \ {Pick(s)}]
  <2> DEFINE p == Pick(s)
  <2>1. p \in s /\ s = (s \ {p}) \cup {p}
    BY <1>2, <1>3
  <2>2. h[(s \ {p}) \cup {p}] = h[s \ {p}] + f[p]
    BY <2>1 DEF Sums
  <2>3. h[s \ {p}] \in Int /\ f[p] \in Int
    BY <2>1 DEF Sums
  <2>4. h[s] = h[s \ {p}] + f[p]
    BY <2>1, <2>2
  <2> HIDE DEF p
  <2>5. h[s] = f[p] + h[s \ {p}]
    BY <2>3, <2>4
  <2> QED
    BY <2>5 DEF p
<1>4. Folds(h, f, S)
  BY <1>3 DEF Folds, Sums
<1>5. Folds(H, f, S)
  <2>1. \E k : Folds(k, f, S)
    BY <1>4
  <2> HIDE DEF Folds
  <2> QED
    BY <2>1
<1>6. ASSUME H[S] # h[S] PROVE FALSE
  <2> DEFINE Bad == {s \in SUBSET S : H[s] # h[s]}
  <2>1. PICK s \in Bad : \A u \in Bad : u \subseteq s => u = s
    <3> HIDE DEF H
    <3>1. Bad \in SUBSET SUBSET S /\ Bad # {}
      BY <1>6
    <3> HIDE DEF Bad
    <3> QED
      BY <3>1, SmallestBadSet
  <2> HIDE DEF H
  <2>2. s # {}
    BY <1>5, <2>1 DEF Folds, Sums
  <2>3. Pick(s) \in s /\ H[s \ {Pick(s)}] = h[s \ {Pick(s)}]
    BY <1>2, <2>1, <2>2
  <2>4. H[s] = f[Pick(s)] + H[s \ {Pick(s)}]
    BY <1>5, <2>1, <2>2 DEF Folds
  <2> QED
    BY <1>3, <2>1, <2>2, <2>3, <2>4
<1> QED
  BY <1>1, <1>6

\* No terms, no sum.
LEMMA SumOfNone == ASSUME NEW f PROVE SumFunctionOnSet(f, {}) = 0
<1>1. IsFiniteSet({}) /\ \A x \in {} : f[x] \in Int
  BY FS_EmptySet
<1>2. PICK h : Sums(h, f, {})
  BY <1>1, SumExists
<1>3. SumFunctionOnSet(f, {}) = h[{}]
  BY <1>1, <1>2, FoldIsSum
<1> QED
  BY <1>2, <1>3 DEF Sums

\* A sum of integers is an integer.
LEMMA SumIsInt ==
  ASSUME NEW S, IsFiniteSet(S), NEW f, \A x \in S : f[x] \in Int
  PROVE  SumFunctionOnSet(f, S) \in Int
<1>1. PICK h : Sums(h, f, S)
  BY SumExists
<1>2. SumFunctionOnSet(f, S) = h[S]
  BY <1>1, FoldIsSum
<1> QED
  BY <1>1, <1>2 DEF Sums

\* A new term is added once.
LEMMA SumWithOneMore ==
  ASSUME NEW S, IsFiniteSet(S), NEW x, x \notin S,
         NEW f, \A y \in S \cup {x} : f[y] \in Int
  PROVE  SumFunctionOnSet(f, S \cup {x}) = SumFunctionOnSet(f, S) + f[x]
<1>1. IsFiniteSet(S \cup {x})
  BY FS_AddElement
<1>2. PICK h : Sums(h, f, S \cup {x})
  BY <1>1, SumExists
<1> DEFINE k == [T \in SUBSET S |-> h[T]]
<1>3. Sums(k, f, S)
  BY <1>2 DEF Sums
<1>4. h[S \cup {x}] = h[S] + f[x]
  BY <1>2 DEF Sums
<1>5. SumFunctionOnSet(f, S \cup {x}) = h[S \cup {x}]
  BY <1>1, <1>2, FoldIsSum
<1>6. SumFunctionOnSet(f, S) = k[S]
  BY <1>3, FoldIsSum
<1> QED
  BY <1>4, <1>5, <1>6

\* Only the terms count.
LEMMA SumOfSameTerms ==
  ASSUME NEW S, IsFiniteSet(S), NEW f, NEW g,
         \A x \in S : f[x] \in Int /\ f[x] = g[x]
  PROVE  SumFunctionOnSet(f, S) = SumFunctionOnSet(g, S)
<1>1. PICK h : Sums(h, f, S)
  BY SumExists
<1>2. Sums(h, g, S)
  BY <1>1 DEF Sums
<1> QED
  BY <1>1, <1>2, FoldIsSum
=============================================================================
