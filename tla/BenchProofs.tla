----------------------------- MODULE BenchProofs -----------------------------
(***************************************************************************)
(* Theorems about a benchmark run (BenchRun): the overshoot of the cap is  *)
(* bounded, the spending that the rows show adds up, and no recorded       *)
(* attempt is lost.                                                        *)
(*                                                                         *)
(* The inductive invariant says which pieces may have a call under way     *)
(* (SiteInv), which generations a runner is on (CursorInv), what is still  *)
(* to be written to the file (FileInv), and that every call is billed to   *)
(* its job and to the guard alike (BooksInv).  The bound of the overshoot  *)
(* is inductive beside it: the calls in flight belong to the generations   *)
(* of the runners, each with its workers.                                  *)
(***************************************************************************)
EXTENDS BenchRun, Sums, SequenceTheorems

-----------------------------------------------------------------------------
\* A call is under way for the plan of a generation that plans, or for a page of
\* one that fills its pages.
OpenInv ==
  \A k \in Pieces : stage[k] \in Open =>
    \/ phase[k[1]] = "plan" /\ k[2] = 0
    \/ phase[k[1]] = "pages" /\ k[2] # 0

SiteInv ==
  /\ phase \in [1 .. Jobs -> {"off", "plan", "pages", "over"}]
  /\ stage \in [Pieces -> {"todo", "first", "retry", "ok", "failed"}]
  /\ call \in [Pieces -> {"none", "ask", "live"} \cup Answers]
  /\ \A k \in Pieces : call[k] # "none" <=> stage[k] \in Open
  /\ OpenInv
  /\ \A j \in 1 .. Jobs : Cardinality(AtWork(j)) <= Workers

\* The runners: as many jobs as begun, at most one each.
CursorInv ==
  /\ cursor \in 0 .. Jobs
  /\ \A j \in 1 .. Jobs : phase[j] = "off" <=> j > cursor
  /\ Cardinality(Active) <= Runners
  /\ finished => Active = {} /\ (stopped \/ cursor = Jobs)

\* The file and what is still to be written to it.
FileInv ==
  /\ saves \in Seq(1 .. Jobs)
  /\ Recorded \subseteq 1 .. Jobs
  /\ \A j \in Recorded : phase[j] = "over"
  /\ file \subseteq Recorded /\ ToSet(saves) \subseteq Recorded
  /\ Recorded \subseteq file \cup ToSet(saves)

\* The books: every call is billed to its job and to the guard.
BooksInv ==
  /\ jobSpent \in [1 .. Jobs -> Nat] /\ spent \in Nat /\ diskErrors \in Nat
  /\ spent = SumFunctionOnSet(jobSpent, 1 .. Jobs)
  /\ \A j \in 1 .. Jobs : j > cursor => jobSpent[j] = 0
  /\ \A j \in Recorded : rows[j] = jobSpent[j]
  /\ unknown /\ diskErrors = 0 => stopped \/ \E k \in Pieces : call[k] = "missing"

BenchInv == SiteInv /\ CursorInv /\ FileInv /\ BooksInv

-----------------------------------------------------------------------------
(* Sums, costs and counts *)

\* One term that grows makes the sum grow.
LEMMA SumOneGrows ==
  ASSUME NEW S, IsFiniteSet(S), NEW f, NEW g, NEW x \in S, NEW c \in Int,
         \A y \in S : f[y] \in Int,
         g[x] = f[x] + c, \A y \in S \ {x} : g[y] = f[y]
  PROVE  SumFunctionOnSet(g, S) = SumFunctionOnSet(f, S) + c
<1> DEFINE R == S \ {x}
<1>1. IsFiniteSet(R) /\ x \notin R /\ R \cup {x} = S
  BY FS_RemoveElement
<1>2. \A y \in R : f[y] \in Int /\ f[y] = g[y]
  OBVIOUS
<1>3. f[x] \in Int /\ g[x] \in Int
  OBVIOUS
<1>4. \A y \in R \cup {x} : f[y] \in Int /\ g[y] \in Int
  BY <1>2, <1>3
<1> HIDE DEF R
<1>5. SumFunctionOnSet(f, R \cup {x}) = SumFunctionOnSet(f, R) + f[x]
  BY <1>1, <1>4, SumWithOneMore
<1>6. SumFunctionOnSet(g, R \cup {x}) = SumFunctionOnSet(g, R) + g[x]
  BY <1>1, <1>4, SumWithOneMore
<1>7. SumFunctionOnSet(f, R) = SumFunctionOnSet(g, R)
  BY <1>1, <1>2, SumOfSameTerms
<1>8. SumFunctionOnSet(f, R) \in Int
  BY <1>1, <1>2, SumIsInt
<1>9. SumFunctionOnSet(g, R \cup {x}) = SumFunctionOnSet(f, R \cup {x}) + c
  <2> DEFINE before == SumFunctionOnSet(f, R \cup {x})
             after  == SumFunctionOnSet(g, R \cup {x})
             rest   == SumFunctionOnSet(f, R)
  <2>1. before = rest + f[x] /\ after = rest + g[x] /\ rest \in Int
    BY <1>5, <1>6, <1>7, <1>8
  <2> HIDE DEF before, after, rest
  <2>2. after = before + c
    BY <1>3, <2>1
  <2> QED
    BY <2>2 DEF before, after
<1> QED
  BY <1>1, <1>9

\* Terms of 0 add nothing.
LEMMA SumOfTheRest ==
  ASSUME NEW S, IsFiniteSet(S), NEW T \in SUBSET S, NEW f,
         \A x \in S : f[x] \in Int, \A x \in S \ T : f[x] = 0
  PROVE  SumFunctionOnSet(f, S) = SumFunctionOnSet(f, T)
<1> DEFINE R == S \ T
           G == {U \in SUBSET R : SumFunctionOnSet(f, T \cup U) = SumFunctionOnSet(f, T)}
<1>1. IsFiniteSet(R) /\ R \subseteq S
  BY FS_Difference
<1>2. {} \in G
  <2>1. T \cup {} = T
    OBVIOUS
  <2> QED
    BY <2>1
<1>3. ASSUME NEW U \in G, NEW x \in R \ U PROVE U \cup {x} \in G
  <2>1. IsFiniteSet(T \cup U) /\ x \notin T \cup U
    BY FS_Subset
  <2>2. \A y \in (T \cup U) \cup {x} : f[y] \in Int
    OBVIOUS
  <2>3. SumFunctionOnSet(f, (T \cup U) \cup {x}) = SumFunctionOnSet(f, T \cup U) + f[x]
    BY <2>1, <2>2, SumWithOneMore
  <2>4. SumFunctionOnSet(f, T \cup U) \in Int
    BY <2>1, <2>2, SumIsInt
  <2>5. f[x] = 0
    OBVIOUS
  <2>6. SumFunctionOnSet(f, (T \cup U) \cup {x}) = SumFunctionOnSet(f, T \cup U)
    BY <2>3, <2>4, <2>5
  <2>7. (T \cup U) \cup {x} = T \cup (U \cup {x})
    OBVIOUS
  <2> QED
    BY <2>6, <2>7
<1>4. G \in SUBSET SUBSET R
  OBVIOUS
<1>5. R \in G
  <2> HIDE DEF G
  <2> QED
    BY <1>1, <1>2, <1>3, <1>4, SubsetInduction
<1>6. T \cup R = S
  OBVIOUS
<1> QED
  BY <1>5, <1>6

\* A finite set of prices with a price in it has a highest one.
LEMMA HighestPrice ==
  ASSUME BenchAssumption
  PROVE  MaxCost \in Costs /\ \A d \in Costs : d <= MaxCost
<1> DEFINE G == {T \in SUBSET Costs : \E c \in Costs : \A d \in T : d <= c}
<1>1. {} \in G
  BY DEF BenchAssumption
<1>2. ASSUME NEW T \in G, NEW x \in Costs \ T PROVE T \cup {x} \in G
  <2>1. PICK c \in Costs : \A d \in T : d <= c
    OBVIOUS
  <2>2. \A d \in Costs : d \in Nat
    BY DEF BenchAssumption
  <2>3. CASE x <= c
    BY <2>1, <2>3
  <2>4. CASE ~(x <= c)
    <3>1. \A d \in T \cup {x} : d <= x
      BY <2>1, <2>2, <2>4
    <3> QED
      BY <3>1
  <2> QED
    BY <2>3, <2>4
<1>3. G \in SUBSET SUBSET Costs
  OBVIOUS
<1>4. Costs \in G
  <2> HIDE DEF G
  <2> QED
    BY <1>1, <1>2, <1>3, SubsetInduction DEF BenchAssumption
<1>5. \E c \in Costs : \A d \in Costs : d <= c
  BY <1>4
<1> QED
  BY <1>5, Zenon DEF MaxCost

\* The pieces are finitely many.
LEMMA PiecesAreFinite ==
  ASSUME GenerateAssumption
  PROVE  IsFiniteSet(Pieces) /\ IsFiniteSet(1 .. Jobs)
<1>1. IsFiniteSet(1 .. Jobs) /\ IsFiniteSet(0 .. Pages)
  BY FS_Interval DEF GenerateAssumption
<1> QED
  BY <1>1, FS_Product DEF Pieces

\* So many jobs with so many pieces each have the product of pieces together.
LEMMA PiecesOfSome ==
  ASSUME GenerateAssumption, NEW A \in SUBSET (1 .. Jobs), NEW X \in SUBSET Pieces,
         \A k \in X : k[1] \in A,
         \A j \in A : Cardinality({k \in X : k[1] = j}) <= Workers
  PROVE  Cardinality(X) <= Cardinality(A) * Workers
<1> DEFINE Of(B) == {k \in X : k[1] \in B}
           G == {B \in SUBSET A : Cardinality(Of(B)) <= Cardinality(B) * Workers}
<1>1. IsFiniteSet(A) /\ IsFiniteSet(X)
  BY PiecesAreFinite, FS_Subset
<1>2. {} \in G
  <2>1. Of({}) = {} /\ Cardinality({}) = 0
    BY FS_EmptySet
  <2> QED
    BY <2>1 DEF GenerateAssumption
<1>3. ASSUME NEW B \in G, NEW j \in A \ B PROVE B \cup {j} \in G
  <2> DEFINE M == {k \in X : k[1] = j}
  <2>1. IsFiniteSet(Of(B)) /\ IsFiniteSet(M) /\ IsFiniteSet(B)
    BY <1>1, FS_Subset
  <2>2. Of(B \cup {j}) = Of(B) \cup M /\ Of(B) \cap M = {}
    OBVIOUS
  <2>3. Cardinality(M) <= Workers /\ Cardinality(Of(B)) <= Cardinality(B) * Workers
    OBVIOUS
  <2> HIDE DEF M, Of
  <2>4. Cardinality(Of(B) \cup M)
          = Cardinality(Of(B)) + Cardinality(M) - Cardinality(Of(B) \cap M)
    BY <2>1, FS_Union
  <2>5. /\ Cardinality(Of(B)) \in Nat /\ Cardinality(M) \in Nat
        /\ Cardinality(B) \in Nat /\ Workers \in Nat
        /\ Cardinality({}) = 0
    BY <2>1, FS_CardinalityType, FS_EmptySet DEF GenerateAssumption
  <2>6. Cardinality(B \cup {j}) = Cardinality(B) + 1
    BY <2>1, FS_AddElement
  <2>7. (Cardinality(B) + 1) * Workers = Cardinality(B) * Workers + Workers
    BY <2>5
  <2>8. Cardinality(Of(B \cup {j})) <= Cardinality(B) * Workers + Workers
    <3>1. Cardinality(Of(B \cup {j})) = Cardinality(Of(B)) + Cardinality(M)
      <4>1. Cardinality(Of(B) \cap M) = 0
        BY <2>2, <2>5
      <4>2. Cardinality(Of(B \cup {j})) = Cardinality(Of(B) \cup M)
        BY <2>2
      <4> QED
        BY <2>4, <2>5, <4>1, <4>2
    <3>2. Cardinality(B) * Workers \in Nat
      BY <2>5
    <3> QED
      BY <2>3, <2>5, <3>1, <3>2
  <2>9. Cardinality(Of(B \cup {j})) <= Cardinality(B \cup {j}) * Workers
    BY <2>6, <2>7, <2>8
  <2>10. B \cup {j} \in SUBSET A
    OBVIOUS
  <2> QED
    BY <2>9, <2>10
<1>4. G \in SUBSET SUBSET A
  OBVIOUS
<1>5. A \in G
  <2> HIDE DEF G
  <2> QED
    BY <1>1, <1>2, <1>3, <1>4, SubsetInduction
<1>6. Of(A) = X
  OBVIOUS
<1> QED
  BY <1>5, <1>6

-----------------------------------------------------------------------------
(* What a step of a generation changes *)

\* The pieces at work are finitely many.
LEMMA AtWorkIsFinite ==
  ASSUME GenerateAssumption, NEW j \in 1 .. Jobs
  PROVE  IsFiniteSet(AtWork(j)) /\ Cardinality(AtWork(j)) \in Nat
<1>1. AtWork(j) \in SUBSET Pieces
  BY DEF AtWork, PiecesOf
<1>2. IsFiniteSet(AtWork(j))
  BY <1>1, PiecesAreFinite, FS_Subset
<1> QED
  BY <1>2, FS_CardinalityType

\* A generation that has ended, or has not begun, has nothing at work, and one
\* that plans has the plan.
LEMMA NothingAtWork ==
  ASSUME SiteInv, NEW j \in 1 .. Jobs
  PROVE  /\ phase[j] \in {"off", "over"} => AtWork(j) = {}
         /\ phase[j] = "plan" => AtWork(j) \subseteq {<<j, 0>>}
BY DEF SiteInv, OpenInv, AtWork, PiecesOf, Pieces

\* One piece's step, seen from the rest of the generations.
OnePiece(k) ==
  /\ \A m \in Pieces \ {k} : stage'[m] = stage[m] /\ call'[m] = call[m]
  /\ \A i \in (1 .. Jobs) \ {k[1]} : phase'[i] = phase[i]

\* The pieces at work of the other generations are what they were.
LEMMA OthersAtWork ==
  ASSUME NEW k \in Pieces, OnePiece(k), NEW j \in 1 .. Jobs, j # k[1]
  PROVE  AtWork(j)' = AtWork(j)
BY DEF OnePiece, AtWork, PiecesOf, Pieces

\* A piece that begins.
LEMMA BeginKeepsSite ==
  ASSUME GenerateAssumption, SiteInv, NEW k \in Pieces, stage[k] \notin Open,
         OnePiece(k),
         phase' \in [1 .. Jobs -> {"off", "plan", "pages", "over"}],
         Ask(k, "first"),
         \/ phase'[k[1]] = "plan" /\ k[2] = 0
         \/ phase'[k[1]] = "pages" /\ k[2] # 0,
         phase[k[1]] \in {"off", phase'[k[1]]},
         Cardinality(AtWork(k[1])) < Workers
  PROVE  SiteInv'
<1> DEFINE j == k[1]
<1>1. j \in 1 .. Jobs
  BY DEF Pieces
<1>2. /\ stage' \in [Pieces -> {"todo", "first", "retry", "ok", "failed"}]
      /\ stage'[k] = "first"
  BY DEF SiteInv, Ask
<1>3. /\ call' \in [Pieces -> {"none", "ask", "live"} \cup Answers]
      /\ call'[k] = "ask"
  BY DEF SiteInv, Ask
<1>4. \A m \in Pieces : call'[m] # "none" <=> stage'[m] \in Open
  BY <1>2, <1>3 DEF SiteInv, OnePiece, Open
<1>5. OpenInv'
  <2> SUFFICES ASSUME NEW m \in Pieces, stage'[m] \in Open
               PROVE  \/ phase'[m[1]] = "plan" /\ m[2] = 0
                      \/ phase'[m[1]] = "pages" /\ m[2] # 0
    BY DEF OpenInv
  <2>1. CASE m = k
    BY <2>1
  <2>2. CASE m # k
    <3>1. /\ m[1] \in 1 .. Jobs /\ stage[m] \in Open
          /\ \/ phase[m[1]] = "plan" /\ m[2] = 0
             \/ phase[m[1]] = "pages" /\ m[2] # 0
      BY <2>2 DEF SiteInv, OpenInv, OnePiece, Pieces
    <3> QED
      BY <3>1 DEF OnePiece
  <2> QED
    BY <2>1, <2>2
<1>6. \A i \in 1 .. Jobs : Cardinality(AtWork(i)') <= Workers
  <2> SUFFICES ASSUME NEW i \in 1 .. Jobs PROVE Cardinality(AtWork(i)') <= Workers
    OBVIOUS
  <2>1. CASE i # j
    <3>1. AtWork(i)' = AtWork(i)
      BY <2>1, OthersAtWork
    <3> QED
      BY <3>1 DEF SiteInv
  <2>2. CASE i = j
    <3>1. AtWork(j)' = AtWork(j) \cup {k}
      BY <1>2, <1>1 DEF AtWork, PiecesOf, OnePiece, Open
    <3>2. IsFiniteSet(AtWork(j)) /\ Cardinality(AtWork(j)) \in Nat
      BY <1>1, AtWorkIsFinite
    <3>3. /\ Cardinality(AtWork(j) \cup {k}) <= Cardinality(AtWork(j)) + 1
          /\ Cardinality(AtWork(j) \cup {k}) \in Nat
      <4>1. PICK w : w = AtWork(j)
        OBVIOUS
      <4>2. /\ IsFiniteSet(w \cup {k})
            /\ Cardinality(w \cup {k})
                 = IF k \in w THEN Cardinality(w) ELSE Cardinality(w) + 1
        BY <3>2, <4>1, FS_AddElement
      <4>3. Cardinality(w) \in Nat
        BY <3>2, <4>1
      <4> QED
        BY <4>1, <4>2, <4>3
    <3>5. Cardinality(AtWork(j) \cup {k}) <= Workers
      <4>1. Cardinality(AtWork(j)) < Workers
        OBVIOUS
      <4> HIDE DEF j
      <4> QED
        BY <3>2, <3>3, <4>1 DEF GenerateAssumption
    <3> QED
      BY <2>2, <3>1, <3>5
  <2> QED
    BY <2>1, <2>2
<1>7. (\A i \in 1 .. Jobs : Cardinality(AtWork(i)) <= Workers)'
  BY <1>6
<1>8. (\A m \in Pieces : call[m] # "none" <=> stage[m] \in Open)'
  BY <1>4
<1> QED
  BY <1>2, <1>3, <1>5, <1>7, <1>8 DEF SiteInv

\* A piece that goes on or ends.
LEMMA EndKeepsSite ==
  ASSUME GenerateAssumption, SiteInv, NEW k \in Pieces, stage[k] \in Open,
         OnePiece(k),
         phase' \in [1 .. Jobs -> {"off", "plan", "pages", "over"}],
         stage' \in [Pieces -> {"todo", "first", "retry", "ok", "failed"}],
         call' \in [Pieces -> {"none", "ask", "live"} \cup Answers],
         call'[k] # "none" <=> stage'[k] \in Open,
         phase'[k[1]] = phase[k[1]] \/ (k[2] = 0 /\ stage'[k] \notin Open)
  PROVE  SiteInv'
<1> DEFINE j == k[1]
<1>1. j \in 1 .. Jobs /\ k = <<k[1], k[2]>>
  BY DEF Pieces
<1>4. \A m \in Pieces : call'[m] # "none" <=> stage'[m] \in Open
  BY DEF SiteInv, OnePiece
<1>5. OpenInv'
  <2> SUFFICES ASSUME NEW m \in Pieces, stage'[m] \in Open
               PROVE  \/ phase'[m[1]] = "plan" /\ m[2] = 0
                      \/ phase'[m[1]] = "pages" /\ m[2] # 0
    BY DEF OpenInv
  <2>1. stage[m] \in Open
    BY DEF OnePiece
  <2>2. /\ m[1] \in 1 .. Jobs
        /\ \/ phase[m[1]] = "plan" /\ m[2] = 0
           \/ phase[m[1]] = "pages" /\ m[2] # 0
    BY <2>1 DEF SiteInv, OpenInv, Pieces
  <2>3. CASE m[1] # j
    BY <2>2, <2>3 DEF OnePiece
  <2>4. CASE m[1] = j /\ phase'[j] = phase[j]
    BY <2>2, <2>4
  <2>5. CASE m[1] = j /\ k[2] = 0 /\ stage'[k] \notin Open
    <3>1. phase[j] = "plan"
      BY <2>5 DEF SiteInv, OpenInv
    <3>2. m[2] = 0
      BY <2>2, <2>5, <3>1
    <3>3. m = <<m[1], m[2]>>
      BY DEF Pieces
    <3>4. m = k
      BY <1>1, <2>5, <3>2, <3>3
    <3> QED
      BY <2>5, <3>4
  <2> QED
    BY <2>3, <2>4, <2>5
<1>6. \A i \in 1 .. Jobs : Cardinality(AtWork(i)') <= Workers
  <2> SUFFICES ASSUME NEW i \in 1 .. Jobs PROVE Cardinality(AtWork(i)') <= Workers
    OBVIOUS
  <2>1. PICK now \in SUBSET Pieces : now = AtWork(i)'
    BY DEF AtWork, PiecesOf
  <2>2. now \subseteq AtWork(i)
    BY <2>1 DEF AtWork, PiecesOf, OnePiece
  <2>3. IsFiniteSet(AtWork(i)) /\ Cardinality(AtWork(i)) \in Nat
    BY AtWorkIsFinite
  <2>4. Cardinality(now) <= Cardinality(AtWork(i)) /\ Cardinality(now) \in Nat
    BY <2>2, <2>3, FS_Subset, FS_CardinalityType
  <2>5. Cardinality(AtWork(i)) <= Workers
    BY DEF SiteInv
  <2> QED
    BY <2>1, <2>3, <2>4, <2>5 DEF GenerateAssumption
<1>7. (\A i \in 1 .. Jobs : Cardinality(AtWork(i)) <= Workers)'
  BY <1>6
<1>8. (\A m \in Pieces : call[m] # "none" <=> stage[m] \in Open)'
  BY <1>4
<1> QED
  BY <1>5, <1>7, <1>8 DEF SiteInv

\* What every step of a call does to its generation.
LEMMA ReturnKeepsSite ==
  ASSUME GenerateAssumption, SiteInv, NEW k \in Pieces, NEW good \in BOOLEAN,
         Return(k, good)
  PROVE  /\ SiteInv' /\ OnePiece(k)
         /\ call'[k] \in {"none", "ask"}
         /\ phase'[k[1]] # "off"
<1>1. k[1] \in 1 .. Jobs /\ stage[k] \in Open /\ phase[k[1]] \in {"plan", "pages"}
  BY DEF Return, SiteInv, OpenInv, Pieces
<1>2. /\ stage' \in [Pieces -> {"todo", "first", "retry", "ok", "failed"}]
      /\ call' \in [Pieces -> {"none", "ask", "live"} \cup Answers]
      /\ call'[k] # "none" <=> stage'[k] \in Open
      /\ call'[k] \in {"none", "ask"}
      /\ \A m \in Pieces \ {k} : stage'[m] = stage[m] /\ call'[m] = call[m]
  BY DEF Return, Ask, SiteInv, Open
<1>3. /\ phase' \in [1 .. Jobs -> {"off", "plan", "pages", "over"}]
      /\ \A i \in (1 .. Jobs) \ {k[1]} : phase'[i] = phase[i]
      /\ phase'[k[1]] # "off"
      /\ phase'[k[1]] = phase[k[1]] \/ (k[2] = 0 /\ stage'[k] \notin Open)
  <2>1. CASE ~good /\ stage[k] = "first" /\ Ask(k, "retry") /\ UNCHANGED phase
    BY <1>1, <2>1 DEF SiteInv
  <2>2. ASSUME stage' = [stage EXCEPT ![k] = IF good THEN "ok" ELSE "failed"],
               NEW p \in After(k, good), phase' = [phase EXCEPT ![k[1]] = p]
        PROVE  <1>3!1 /\ <1>3!2 /\ <1>3!3 /\ <1>3!4
    <3>1. stage'[k] \notin Open
      BY <2>2 DEF SiteInv, Open
    <3>2. p = phase[k[1]] \/ (k[2] = 0 /\ p \in {"pages", "over"})
      BY <2>2 DEF After
    <3> QED
      BY <1>1, <2>2, <3>1, <3>2 DEF SiteInv
  <2> QED
    BY <2>1, <2>2 DEF Return
<1>4. OnePiece(k)
  BY <1>2, <1>3 DEF OnePiece
<1>5. SiteInv'
  BY <1>1, <1>2, <1>3, <1>4, EndKeepsSite
<1> QED
  BY <1>2, <1>3, <1>4, <1>5

\* One piece of a generation that is not over moves, and the generation has begun.
Moves(k) ==
  /\ k \in Pieces /\ OnePiece(k)
  /\ phase[k[1]] # "over" /\ phase'[k[1]] # "off"

\* A generation begins with its plan, or ends where it begins.
LEMMA GenerateMoves ==
  ASSUME GenerateAssumption, SiteInv, NEW j \in 1 .. Jobs, Generate(j)
  PROVE  /\ SiteInv' /\ Moves(<<j, 0>>)
         /\ call[<<j, 0>>] = "none" /\ call'[<<j, 0>>] \in {"none", "ask"}
<1> DEFINE k == <<j, 0>>
<1>1. k \in Pieces /\ k[1] = j /\ k[2] = 0
  BY DEF Pieces, GenerateAssumption
<1>2. phase[j] = "off" /\ stage[k] \notin Open /\ call[k] = "none"
  BY <1>1 DEF Generate, SiteInv, OpenInv
<1>3. AtWork(j) = {}
  BY <1>2, NothingAtWork
<1>4. Cardinality(AtWork(j)) < Workers
  BY <1>3, FS_EmptySet DEF GenerateAssumption
<1>5. CASE phase' = [phase EXCEPT ![j] = "plan"] /\ Ask(k, "first")
  <2>1. OnePiece(k) /\ call'[k] = "ask"
    BY <1>1, <1>5 DEF OnePiece, Ask, SiteInv
  <2>2. /\ phase' \in [1 .. Jobs -> {"off", "plan", "pages", "over"}]
        /\ phase'[j] = "plan"
    BY <1>5 DEF SiteInv
  <2> HIDE DEF k
  <2>3. SiteInv'
    BY <1>1, <1>2, <1>4, <1>5, <2>1, <2>2, BeginKeepsSite
  <2> QED
    BY <1>1, <1>2, <2>1, <2>2, <2>3 DEF Moves, k
<1>6. CASE phase' = [phase EXCEPT ![j] = "over"] /\ UNCHANGED <<stage, call>>
  <2>1. OnePiece(k) /\ phase'[j] = "over"
    BY <1>1, <1>6 DEF OnePiece, SiteInv
  <2>2. OpenInv'
    BY <1>2, <1>6 DEF OpenInv, SiteInv, Pieces
  <2>3. \A i \in 1 .. Jobs : AtWork(i)' = AtWork(i)
    BY <1>6 DEF AtWork, PiecesOf
  <2>4. (\A i \in 1 .. Jobs : Cardinality(AtWork(i)) <= Workers)'
    BY <2>3 DEF SiteInv
  <2>5. SiteInv'
    BY <1>6, <2>2, <2>4 DEF SiteInv
  <2> QED
    BY <1>1, <1>2, <1>6, <2>1, <2>5 DEF Moves
<1> QED
  BY <1>5, <1>6 DEF Generate

\* A generation that fills its pages takes one, or ends with nothing at work.
LEMMA SiteStepMoves ==
  ASSUME GenerateAssumption, SiteInv, NEW j \in 1 .. Jobs, SiteStep(j)
  PROVE  /\ SiteInv' /\ phase[j] # "off"
         /\ \E k \in Pieces : /\ Moves(k) /\ k[1] = j
                              /\ call[k] = "none" /\ call'[k] \in {"none", "ask"}
<1>1. CASE Filled(j)
  <2> DEFINE k == <<j, 0>>
  <2>1. k \in Pieces /\ k[1] = j /\ k[2] = 0
    BY DEF Pieces, GenerateAssumption
  <2>2. /\ phase[j] = "pages" /\ phase' = [phase EXCEPT ![j] = "over"]
        /\ stage' = stage /\ call' = call /\ AtWork(j) = {}
    BY <1>1 DEF Filled, Rested
  <2>3. OnePiece(k) /\ phase'[j] = "over" /\ call[k] = "none"
    BY <2>1, <2>2 DEF OnePiece, SiteInv, OpenInv
  <2>4. OpenInv'
    BY <2>2 DEF OpenInv, SiteInv, Pieces, AtWork, PiecesOf
  <2>5. \A i \in 1 .. Jobs : AtWork(i)' = AtWork(i)
    BY <2>2 DEF AtWork, PiecesOf
  <2>6. (\A i \in 1 .. Jobs : Cardinality(AtWork(i)) <= Workers)'
    BY <2>5 DEF SiteInv
  <2>7. SiteInv'
    BY <2>2, <2>4, <2>6 DEF SiteInv
  <2>8. Moves(k)
    BY <2>1, <2>2, <2>3 DEF Moves
  <2> QED
    BY <2>1, <2>2, <2>3, <2>7, <2>8
<1>2. ASSUME NEW k \in PagesOf(j), Fill(k)
      PROVE  /\ SiteInv' /\ phase[j] # "off"
             /\ Moves(k) /\ k \in Pieces /\ k[1] = j
             /\ call[k] = "none" /\ call'[k] \in {"none", "ask"}
  <2>1. k \in Pieces /\ k[1] = j /\ k[2] # 0
    BY DEF PagesOf, PiecesOf
  <2>2. /\ phase[j] = "pages" /\ stage[k] = "todo" /\ phase' = phase
        /\ Ask(k, "first") /\ Cardinality(AtWork(j)) < Workers
    BY <1>2, <2>1 DEF Fill
  <2>3. call[k] = "none" /\ stage[k] \notin Open
    BY <2>1, <2>2 DEF SiteInv, Open
  <2>4. OnePiece(k) /\ call'[k] = "ask"
    BY <2>1, <2>2 DEF OnePiece, Ask, SiteInv
  <2>5. phase' \in [1 .. Jobs -> {"off", "plan", "pages", "over"}]
    BY <2>2 DEF SiteInv
  <2>6. SiteInv'
    BY <2>1, <2>2, <2>3, <2>4, <2>5, BeginKeepsSite
  <2> QED
    BY <2>1, <2>2, <2>3, <2>4, <2>6 DEF Moves
<1> QED
  BY <1>1, <1>2 DEF SiteStep

\* What the calls of a run change outside their own piece: nothing of the file, and
\* a reason to stop stays.
LEMMA CallMoves ==
  ASSUME GenerateAssumption, SiteInv, NEW k \in Pieces, CallStep(k)
  PROVE  /\ SiteInv' /\ Moves(k) /\ phase[k[1]] # "off"
         /\ call[k] # "none"
         /\ UNCHANGED <<mode, cursor, fileVars, finished>>
         /\ stopped => stopped'
<1>1. ASSUME NEW good \in BOOLEAN, Return(k, good)
      PROVE  /\ SiteInv' /\ Moves(k) /\ phase[k[1]] # "off"
             /\ call[k] # "none"
  <2>1. SiteInv' /\ OnePiece(k) /\ phase'[k[1]] # "off"
    BY <1>1, ReturnKeepsSite
  <2>2. phase[k[1]] \in {"plan", "pages"} /\ call[k] # "none"
    BY <1>1 DEF Return, SiteInv, OpenInv
  <2> QED
    BY <2>1, <2>2 DEF Moves
<1>2. ASSUME NEW a, Deliver(k, a)
      PROVE  /\ SiteInv' /\ Moves(k) /\ phase[k[1]] # "off"
             /\ call[k] # "none" /\ (stopped => stopped')
  BY <1>1, <1>2 DEF Deliver
<1>3. ASSUME call[k] # "none", UNCHANGED <<phase, stage, made>>,
             NEW a \in {"live"} \cup Answers, call' = [call EXCEPT ![k] = a]
      PROVE  SiteInv' /\ Moves(k) /\ phase[k[1]] # "off"
  <2>1. stage[k] \in Open /\ phase[k[1]] \in {"plan", "pages"} /\ k[1] \in 1 .. Jobs
    BY <1>3 DEF SiteInv, OpenInv, Pieces
  <2>2. OnePiece(k)
    BY <1>3 DEF OnePiece, SiteInv
  <2>3. call' \in [Pieces -> {"none", "ask", "live"} \cup Answers] /\ call'[k] = a
    BY <1>3 DEF SiteInv
  <2>4. /\ phase' \in [1 .. Jobs -> {"off", "plan", "pages", "over"}]
        /\ stage' \in [Pieces -> {"todo", "first", "retry", "ok", "failed"}]
        /\ phase'[k[1]] = phase[k[1]] /\ stage'[k] \in Open /\ call'[k] # "none"
    BY <1>3, <2>1, <2>3 DEF SiteInv, Answers
  <2>5. SiteInv'
    BY <2>1, <2>2, <2>3, <2>4, EndKeepsSite
  <2> QED
    BY <2>1, <2>2, <2>4, <2>5 DEF Moves
<1>4. CASE Hit(k)
  BY <1>2, <1>4 DEF Hit
<1>5. CASE Refuse(k)
  BY <1>1, <1>5 DEF Refuse
<1>6. CASE GoLive(k)
  BY <1>3, <1>6 DEF GoLive
<1>7. CASE Answer(k)
  BY <1>3, <1>7 DEF Answer
<1>8. CASE Settle(k)
  BY <1>2, <1>8 DEF Settle
<1>9. CASE StoreFails(k)
  BY <1>1, <1>9 DEF StoreFails
<1> QED
  BY <1>4, <1>5, <1>6, <1>7, <1>8, <1>9 DEF CallStep

-----------------------------------------------------------------------------
(* The runners, the file and the books *)

\* Only what has begun is recorded, and a runner is on what is not in the file.
LEMMA RecordedHasBegun ==
  ASSUME GenerateAssumption, SiteInv, CursorInv, FileInv
  PROVE  /\ Recorded \subseteq 1 .. cursor
         /\ Active \in SUBSET (1 .. Jobs) /\ IsFiniteSet(Active)
         /\ Cardinality(Active) \in Nat
         /\ \A k \in Pieces : call[k] # "none" => k[1] \in Active
<1>1. Recorded \subseteq 1 .. cursor
  <2> SUFFICES ASSUME NEW j \in Recorded PROVE j \in 1 .. cursor
    OBVIOUS
  <2>1. j \in 1 .. Jobs /\ phase[j] = "over"
    BY DEF FileInv
  <2>2. ~(j > cursor)
    BY <2>1 DEF CursorInv
  <2> QED
    BY <2>1, <2>2 DEF CursorInv, GenerateAssumption
<1>2. Active \in SUBSET (1 .. Jobs)
  BY DEF Active, CursorInv, GenerateAssumption
<1>3. IsFiniteSet(Active) /\ Cardinality(Active) \in Nat
  BY <1>2, PiecesAreFinite, FS_Subset, FS_CardinalityType
<1>4. ASSUME NEW k \in Pieces, call[k] # "none" PROVE k[1] \in Active
  <2>1. k[1] \in 1 .. Jobs /\ phase[k[1]] \in {"plan", "pages"}
    BY <1>4 DEF SiteInv, OpenInv, Pieces
  <2>2. ~(k[1] > cursor)
    BY <2>1 DEF CursorInv
  <2>3. k[1] \in 1 .. cursor
    BY <2>1, <2>2 DEF CursorInv, GenerateAssumption
  <2>4. k[1] \notin Recorded
    BY <2>1 DEF FileInv
  <2> QED
    BY <2>3, <2>4 DEF Active
<1> QED
  BY <1>1, <1>2, <1>3, <1>4

\* A generation that moves is none of the recorded ones.
LEMMA MovesKeepFile ==
  ASSUME SiteInv, FileInv, NEW k, Moves(k), UNCHANGED fileVars
  PROVE  FileInv'
<1>1. rows' = rows /\ file' = file /\ saves' = saves /\ Recorded' = Recorded
  BY DEF fileVars, Recorded
<1>2. \A j \in Recorded : phase'[j] = "over"
  <2> SUFFICES ASSUME NEW j \in Recorded PROVE phase'[j] = "over"
    OBVIOUS
  <2>1. j \in 1 .. Jobs /\ phase[j] = "over"
    BY DEF FileInv
  <2>2. j # k[1]
    BY <2>1 DEF Moves
  <2> QED
    BY <2>1, <2>2 DEF Moves, OnePiece
<1> QED
  BY <1>1, <1>2 DEF FileInv

\* The runners' count, too, sees nothing of a generation that moves.
LEMMA MovesKeepCursor ==
  ASSUME CursorInv, NEW k, Moves(k), phase[k[1]] # "off",
         UNCHANGED <<cursor, fileVars, finished>>, stopped => stopped'
  PROVE  CursorInv'
<1>1. cursor' = cursor /\ finished' = finished /\ Active' = Active
  BY DEF fileVars, Active, Recorded
<1>2. k[1] \in 1 .. Jobs
  BY DEF Moves, Pieces
<1>3. \A j \in 1 .. Jobs : phase'[j] = "off" <=> phase[j] = "off"
  BY <1>2 DEF Moves, OnePiece
<1>4. (\A j \in 1 .. Jobs : phase[j] = "off" <=> j > cursor)'
  BY <1>1, <1>3 DEF CursorInv
<1> QED
  BY <1>1, <1>4 DEF CursorInv

\* Elements of a sequence of jobs, one appended and one taken off.
LEMMA ToSetOfAppend ==
  ASSUME NEW S, NEW s \in Seq(S), NEW x \in S
  PROVE  Append(s, x) \in Seq(S) /\ ToSet(Append(s, x)) = ToSet(s) \cup {x}
<1>1. /\ Append(s, x) \in Seq(S) /\ Len(Append(s, x)) = Len(s) + 1
      /\ Len(s) \in Nat
      /\ \A i \in 1 .. Len(s) : Append(s, x)[i] = s[i]
      /\ Append(s, x)[Len(s) + 1] = x
      /\ DOMAIN s = 1 .. Len(s) /\ DOMAIN Append(s, x) = 1 .. Len(Append(s, x))
  BY AppendProperties, LenProperties
<1>2. ASSUME NEW y \in ToSet(Append(s, x)) PROVE y \in ToSet(s) \cup {x}
  <2>1. PICK i \in 1 .. Len(s) + 1 : y = Append(s, x)[i]
    BY <1>1 DEF ToSet
  <2>2. i \in 1 .. Len(s) \/ i = Len(s) + 1
    BY <1>1
  <2> QED
    BY <1>1, <2>1, <2>2 DEF ToSet
<1>3. ASSUME NEW y \in ToSet(s) \cup {x} PROVE y \in ToSet(Append(s, x))
  <2>1. CASE y \in ToSet(s)
    <3>1. PICK i \in 1 .. Len(s) : y = s[i]
      BY <1>1, <2>1 DEF ToSet
    <3>2. i \in DOMAIN Append(s, x) /\ y = Append(s, x)[i]
      BY <1>1, <3>1
    <3> QED
      BY <3>2 DEF ToSet
  <2>2. CASE y = x
    <3>1. Len(s) + 1 \in DOMAIN Append(s, x)
      BY <1>1
    <3> QED
      BY <1>1, <2>2, <3>1 DEF ToSet
  <2> QED
    BY <2>1, <2>2
<1> QED
  BY <1>1, <1>2, <1>3

\* What is taken off leaves no new element.
LEMMA ToSetOfTail ==
  ASSUME NEW S, NEW s \in Seq(S), s # << >>
  PROVE  Tail(s) \in Seq(S) /\ ToSet(Tail(s)) \subseteq ToSet(s)
<1>1. /\ Tail(s) \in Seq(S) /\ Len(Tail(s)) = Len(s) - 1
      /\ \A i \in 1 .. Len(Tail(s)) : Tail(s)[i] = s[i + 1]
      /\ Len(s) \in Nat /\ Len(Tail(s)) \in Nat
      /\ DOMAIN s = 1 .. Len(s) /\ DOMAIN Tail(s) = 1 .. Len(Tail(s))
  BY HeadTailProperties, LenProperties
<1>2. ASSUME NEW y \in ToSet(Tail(s)) PROVE y \in ToSet(s)
  <2>1. PICK i \in 1 .. Len(Tail(s)) : y = Tail(s)[i]
    BY <1>1 DEF ToSet
  <2>2. i + 1 \in DOMAIN s /\ y = s[i + 1]
    BY <1>1, <2>1
  <2> QED
    BY <2>2 DEF ToSet
<1> QED
  BY <1>1, <1>2

-----------------------------------------------------------------------------
(* One lemma for each step of a run *)

\* A run begins with nothing begun, billed or written.
LEMMA InitBooks ==
  ASSUME GenerateAssumption, BenchAssumption, Init
  PROVE  BenchInv
<1>1. /\ phase = [j \in 1 .. Jobs |-> "off"] /\ stage = [k \in Pieces |-> "todo"]
      /\ call = [k \in Pieces |-> "none"]
      /\ cursor = 0 /\ spent = 0 /\ jobSpent = [j \in 1 .. Jobs |-> 0]
      /\ rows = << >> /\ file = {} /\ saves = << >>
      /\ ~finished /\ ~unknown /\ diskErrors = 0
  BY DEF Init, SiteInit
<1>2. SiteInv
  <2>1. \A j \in 1 .. Jobs : AtWork(j) = {}
    BY <1>1 DEF AtWork, PiecesOf, Open
  <2>2. \A j \in 1 .. Jobs : Cardinality(AtWork(j)) <= Workers
    BY <2>1, FS_EmptySet DEF GenerateAssumption
  <2>3. \A k \in Pieces : stage[k] \notin Open /\ call[k] = "none"
    BY <1>1 DEF Open
  <2> QED
    BY <1>1, <2>2, <2>3 DEF SiteInv, OpenInv
<1>3. Active = {} /\ Recorded = {} /\ saves \in Seq(1 .. Jobs) /\ ToSet(saves) = {}
  <2>1. Active = {}
    BY <1>1 DEF Active
  <2>2. Recorded = {} /\ ToSet(saves) = {}
    BY <1>1 DEF Recorded, ToSet
  <2> QED
    BY <1>1, <2>1, <2>2, EmptySeq
<1>4. CursorInv
  <2>1. Cardinality(Active) <= Runners
    BY <1>3, FS_EmptySet DEF BenchAssumption
  <2>2. \A j \in 1 .. Jobs : phase[j] = "off" <=> j > cursor
    BY <1>1
  <2>3. cursor \in 0 .. Jobs
    BY <1>1 DEF GenerateAssumption
  <2> QED
    BY <1>1, <2>1, <2>2, <2>3 DEF CursorInv
<1>5. FileInv
  BY <1>1, <1>3 DEF FileInv
<1>6. BooksInv
  <2>1. SumFunctionOnSet(jobSpent, {}) = 0
    BY SumOfNone
  <2>2. SumFunctionOnSet(jobSpent, 1 .. Jobs) = SumFunctionOnSet(jobSpent, {})
    <3>1. \A j \in 1 .. Jobs : jobSpent[j] \in Int /\ jobSpent[j] = 0
      BY <1>1
    <3> QED
      BY <3>1, PiecesAreFinite, SumOfTheRest
  <2>3. jobSpent \in [1 .. Jobs -> Nat] /\ \A j \in 1 .. Jobs : jobSpent[j] = 0
    BY <1>1
  <2> QED
    BY <1>1, <1>3, <2>1, <2>2, <2>3 DEF BooksInv
<1> QED
  BY <1>2, <1>4, <1>5, <1>6 DEF BenchInv

\* A free runner takes the next generation.
LEMMA StartKeeps ==
  ASSUME GenerateAssumption, BenchAssumption, BenchInv, NEW j \in 1 .. Jobs, Start(j)
  PROVE  BenchInv'
<1> USE DEF BenchInv
<1> DEFINE k == <<j, 0>>
<1>1. /\ ~stopped /\ j = cursor + 1 /\ cursor' = j /\ Cardinality(Active) < Runners
      /\ stopped' = stopped /\ finished' = finished /\ diskErrors' = diskErrors
      /\ rows' = rows /\ file' = file /\ saves' = saves
      /\ spent' = spent /\ unknown' = unknown /\ jobSpent' = jobSpent
      /\ UNCHANGED fileVars
  BY DEF Start, fileVars, guardVars
<1>2. /\ SiteInv' /\ Moves(k) /\ k[1] = j
      /\ call[k] = "none" /\ call'[k] \in {"none", "ask"}
  BY GenerateMoves DEF Start
<1>3. cursor \in 0 .. Jobs /\ cursor \in Nat /\ cursor' \in 0 .. Jobs
  BY <1>1 DEF CursorInv, GenerateAssumption
<1>4. FileInv'
  BY <1>1, <1>2, MovesKeepFile
<1>5. CursorInv'
  <2>1. phase[j] = "off"
    BY DEF Start, Generate
  <2>2. j \notin Recorded
    BY <2>1 DEF FileInv
  <2>3. Active' = Active \cup {j}
    BY <1>1, <1>3, <2>2 DEF Active, Recorded
  <2>4. IsFiniteSet(Active) /\ Cardinality(Active) \in Nat
    BY RecordedHasBegun
  <2>5. Cardinality(Active') <= Runners
    <3>1. PICK w : w = Active
      OBVIOUS
    <3>2. Cardinality(w \cup {j}) = IF j \in w THEN Cardinality(w) ELSE Cardinality(w) + 1
      BY <2>4, <3>1, FS_AddElement
    <3>3. Cardinality(w) \in Nat /\ Cardinality(w) < Runners
      BY <1>1, <2>4, <3>1
    <3>4. Cardinality(w \cup {j}) <= Runners
      BY <3>2, <3>3 DEF BenchAssumption
    <3> QED
      BY <2>3, <3>1, <3>4
  <2>6. \A i \in 1 .. Jobs : phase'[i] = "off" <=> i > cursor'
    <3> SUFFICES ASSUME NEW i \in 1 .. Jobs PROVE phase'[i] = "off" <=> i > cursor'
      OBVIOUS
    <3>1. CASE i = j
      BY <1>1, <1>2, <3>1 DEF Moves
    <3>2. CASE i # j
      <4>1. phase'[i] = phase[i]
        BY <1>2, <3>2 DEF Moves, OnePiece
      <4>2. phase[i] = "off" <=> i > cursor
        BY DEF CursorInv
      <4>3. i > cursor <=> i > cursor'
        BY <1>1, <1>3, <3>2
      <4> QED
        BY <4>1, <4>2, <4>3
    <3> QED
      BY <3>1, <3>2
  <2>7. ~finished
    BY <1>1, <1>3 DEF CursorInv
  <2> QED
    BY <1>1, <1>3, <2>5, <2>6, <2>7 DEF CursorInv
<1>6. BooksInv'
  <2>1. \A i \in 1 .. Jobs : i > cursor' => jobSpent[i] = 0
    BY <1>1, <1>3 DEF BooksInv
  <2>2. \A m \in Pieces : call[m] = "missing" => call'[m] = "missing"
    BY <1>2 DEF Moves, OnePiece
  <2> QED
    BY <1>1, <2>1, <2>2 DEF BooksInv, Recorded
<1> QED
  BY <1>2, <1>4, <1>5, <1>6

\* A generation fills its pages or ends.
LEMMA ProceedKeeps ==
  ASSUME GenerateAssumption, BenchAssumption, BenchInv, NEW j \in 1 .. Jobs, Proceed(j)
  PROVE  BenchInv'
<1> USE DEF BenchInv
<1>1. /\ stopped' = stopped /\ finished' = finished /\ diskErrors' = diskErrors
      /\ rows' = rows /\ file' = file /\ saves' = saves /\ cursor' = cursor
      /\ spent' = spent /\ unknown' = unknown /\ jobSpent' = jobSpent
      /\ UNCHANGED fileVars
  BY DEF Proceed, fileVars, guardVars
<1>2. SiteInv' /\ phase[j] # "off"
  BY SiteStepMoves DEF Proceed
<1>3. PICK k \in Pieces : Moves(k) /\ k[1] = j /\ call[k] = "none"
  BY SiteStepMoves DEF Proceed
<1>4. FileInv'
  BY <1>1, <1>3, MovesKeepFile
<1>5. CursorInv'
  BY <1>1, <1>2, <1>3, MovesKeepCursor
<1>6. BooksInv'
  <2>1. \A m \in Pieces : call[m] = "missing" => call'[m] = "missing"
    BY <1>3 DEF Moves, OnePiece
  <2> QED
    BY <1>1, <2>1 DEF BooksInv, Recorded
<1> QED
  BY <1>2, <1>4, <1>5, <1>6

\* A generation that is over gets its row, and a save of it is queued.
LEMMA RecordKeeps ==
  ASSUME GenerateAssumption, BenchAssumption, BenchInv, NEW j \in 1 .. Jobs, Record(j)
  PROVE  BenchInv'
<1> USE DEF BenchInv
<1>1. /\ phase[j] = "over" /\ j \notin Recorded
      /\ rows' = [i \in Recorded \cup {j} |-> IF i = j THEN jobSpent[j] ELSE rows[i]]
      /\ saves' = Append(saves, j)
      /\ phase' = phase /\ stage' = stage /\ call' = call
      /\ finished' = finished /\ diskErrors' = diskErrors
      /\ file' = file /\ cursor' = cursor
      /\ spent' = spent /\ unknown' = unknown /\ jobSpent' = jobSpent
  BY DEF Record, siteVars, guardVars
<1>2. stopped => stopped'
  BY DEF Record
<1>3. SiteInv'
  <2>1. \A i \in 1 .. Jobs : AtWork(i)' = AtWork(i)
    BY <1>1 DEF AtWork
  <2>2. (\A i \in 1 .. Jobs : Cardinality(AtWork(i)) <= Workers)'
    BY <2>1 DEF SiteInv
  <2> QED
    BY <1>1, <2>2 DEF SiteInv, OpenInv
<1>4. Recorded' = Recorded \cup {j}
  BY <1>1 DEF Recorded
<1>5. saves' \in Seq(1 .. Jobs) /\ ToSet(saves') = ToSet(saves) \cup {j}
  BY <1>1, ToSetOfAppend DEF FileInv
<1>6. FileInv'
  BY <1>1, <1>4, <1>5 DEF FileInv
<1>7. j \in 1 .. cursor
  BY <1>1 DEF CursorInv, GenerateAssumption
<1>8. Active' = Active
  BY <1>1, <1>4, <1>5, <1>7 DEF Active
<1>9. CursorInv'
  BY <1>1, <1>2, <1>8 DEF CursorInv
<1>10. BooksInv'
  <2>1. \A i \in Recorded' : rows'[i] = jobSpent[i]
    BY <1>1, <1>4 DEF BooksInv
  <2>2. unknown /\ diskErrors = 0 => stopped' \/ \E k \in Pieces : call[k] = "missing"
    BY <1>2 DEF BooksInv
  <2> QED
    BY <1>1, <2>1, <2>2 DEF BooksInv
<1> QED
  BY <1>3, <1>6, <1>9, <1>10

\* The first queued save writes every row there is.
LEMMA SaveKeeps ==
  ASSUME GenerateAssumption, BenchAssumption, BenchInv, Save
  PROVE  BenchInv'
<1> USE DEF BenchInv
<1>1. /\ saves # << >> /\ file' = Recorded /\ saves' = Tail(saves) /\ rows' = rows
      /\ phase' = phase /\ stage' = stage /\ call' = call
      /\ stopped' = stopped /\ finished' = finished /\ diskErrors' = diskErrors
      /\ cursor' = cursor
      /\ spent' = spent /\ unknown' = unknown /\ jobSpent' = jobSpent
  BY DEF Save, siteVars, guardVars, Content
<1>2. SiteInv'
  <2>1. \A i \in 1 .. Jobs : AtWork(i)' = AtWork(i)
    BY <1>1 DEF AtWork
  <2>2. (\A i \in 1 .. Jobs : Cardinality(AtWork(i)) <= Workers)'
    BY <2>1 DEF SiteInv
  <2> QED
    BY <1>1, <2>2 DEF SiteInv, OpenInv
<1>3. Recorded' = Recorded
  BY <1>1 DEF Recorded
<1>4. saves' \in Seq(1 .. Jobs) /\ ToSet(saves') \subseteq ToSet(saves)
  BY <1>1, ToSetOfTail DEF FileInv
<1>5. FileInv'
  BY <1>1, <1>3, <1>4 DEF FileInv
<1>6. CursorInv'
  <2>1. Active' \subseteq Active
    BY <1>1, <1>3, <1>4 DEF Active
  <2>2. IsFiniteSet(Active) /\ Cardinality(Active) \in Nat
    BY RecordedHasBegun
  <2>3. Cardinality(Active') <= Cardinality(Active) /\ Cardinality(Active') \in Nat
    <3>1. PICK w : w = Active'
      OBVIOUS
    <3>2. Cardinality(w) <= Cardinality(Active) /\ Cardinality(w) \in Nat
      BY <2>1, <2>2, <3>1, FS_Subset, FS_CardinalityType
    <3> QED
      BY <3>1, <3>2
  <2>4. Cardinality(Active') <= Runners
    BY <2>2, <2>3 DEF CursorInv, BenchAssumption
  <2> QED
    BY <1>1, <2>1, <2>4 DEF CursorInv
<1>7. BooksInv'
  BY <1>1, <1>3 DEF BooksInv
<1> QED
  BY <1>2, <1>5, <1>6, <1>7

\* The end of the run, and steps of nothing.
LEMMA FinishKeeps ==
  ASSUME BenchInv, Finish \/ UNCHANGED vars
  PROVE  BenchInv'
<1> USE DEF BenchInv
<1>1. /\ phase' = phase /\ stage' = stage /\ call' = call
      /\ stopped' = stopped /\ diskErrors' = diskErrors /\ cursor' = cursor
      /\ rows' = rows /\ file' = file /\ saves' = saves
      /\ spent' = spent /\ unknown' = unknown /\ jobSpent' = jobSpent
      /\ finished' => finished \/ (Active = {} /\ (stopped \/ cursor = Jobs))
  BY DEF Finish, vars, siteVars, guardVars, fileVars
<1>2. SiteInv'
  <2>1. \A i \in 1 .. Jobs : AtWork(i)' = AtWork(i)
    BY <1>1 DEF AtWork
  <2>2. (\A i \in 1 .. Jobs : Cardinality(AtWork(i)) <= Workers)'
    BY <2>1 DEF SiteInv
  <2> QED
    BY <1>1, <2>2 DEF SiteInv, OpenInv
<1>3. Recorded' = Recorded /\ Active' = Active
  BY <1>1 DEF Recorded, Active
<1> QED
  BY <1>1, <1>2, <1>3 DEF CursorInv, FileInv, BooksInv

\* What a call changes in the books: an answer is billed once to its job and to the
\* guard, nothing else is, and what is unknown is a reason to stop, or about to be.
LEMMA CallBooks ==
  ASSUME GenerateAssumption, BenchAssumption, SiteInv, BooksInv,
         NEW k \in Pieces, CallStep(k)
  PROVE  \E c \in Costs :
           /\ spent' = spent + c
           /\ jobSpent' = [jobSpent EXCEPT ![k[1]] = @ + c]
           /\ c # 0 => call[k] = "live" /\ call'[k] # "live"
           /\ spent' \in Nat /\ diskErrors' \in Nat
           /\ unknown' /\ diskErrors' = 0 =>
                stopped' \/ \E m \in Pieces : call'[m] = "missing"
<1>1. 0 \in Costs /\ k[1] \in 1 .. Jobs /\ spent \in Nat /\ diskErrors \in Nat
  BY DEF BenchAssumption, BooksInv, Pieces
<1>2. jobSpent = [jobSpent EXCEPT ![k[1]] = @ + 0] /\ spent = spent + 0
  BY <1>1 DEF BooksInv
<1>3. unknown /\ diskErrors = 0 => stopped \/ \E m \in Pieces : call[m] = "missing"
  BY DEF BooksInv
<1>4. /\ Moves(k)
      /\ \A m \in Pieces \ {k} : call'[m] = call[m]
      /\ stopped => stopped'
  BY CallMoves DEF Moves, OnePiece
<1>5. ASSUME UNCHANGED <<guardVars, diskErrors>>, call[k] # "missing" \/ stopped'
      PROVE  /\ spent' = spent + 0
             /\ jobSpent' = [jobSpent EXCEPT ![k[1]] = @ + 0]
             /\ spent' \in Nat /\ diskErrors' \in Nat
             /\ unknown' /\ diskErrors' = 0 =>
                  stopped' \/ \E m \in Pieces : call'[m] = "missing"
  <2>1. /\ spent' = spent /\ jobSpent' = jobSpent
        /\ unknown' = unknown /\ diskErrors' = diskErrors
    BY <1>5 DEF guardVars
  <2>2. unknown' /\ diskErrors' = 0 =>
          stopped' \/ \E m \in Pieces : call'[m] = "missing"
    BY <1>3, <1>4, <1>5, <2>1
  <2> QED
    BY <1>1, <1>2, <2>1, <2>2
<1>6. CASE Hit(k)
  <2>1. call[k] = "ask"
    BY <1>6 DEF Hit
  <2> QED
    BY <1>1, <1>5, <1>6, <2>1 DEF Hit
<1>7. CASE Refuse(k)
  BY <1>1, <1>5, <1>7 DEF Refuse
<1>8. CASE GoLive(k)
  BY <1>1, <1>5, <1>8 DEF GoLive
<1>9. CASE Settle(k)
  <2>1. call[k] # "missing" \/ stopped'
    BY <1>9 DEF Settle, Deliver, Halts
  <2>2. UNCHANGED <<guardVars, diskErrors>>
    BY <1>9 DEF Settle
  <2> QED
    BY <1>1, <1>5, <2>1, <2>2
<1>10. CASE StoreFails(k)
  <2>1. /\ diskErrors' = diskErrors + 1 /\ spent' = spent /\ jobSpent' = jobSpent
    BY <1>10 DEF StoreFails, guardVars
  <2>2. diskErrors' \in Nat /\ diskErrors' # 0
    BY <1>1, <2>1
  <2> QED
    BY <1>1, <1>2, <2>1, <2>2
<1>11. CASE Answer(k)
  <2>1. PICK c \in Costs : Bill(k, c)
    BY <1>1, <1>11 DEF Answer
  <2>2. call[k] = "live" /\ call'[k] # "live"
    BY <1>11 DEF Answer, Answers, SiteInv
  <2>3. c \in Nat /\ spent' = spent + c /\ spent' \in Nat
    BY <1>1, <2>1 DEF Bill, BenchAssumption
  <2>4. diskErrors' = diskErrors /\ stopped' = stopped
    BY <1>11 DEF Answer
  <2>5. unknown' => unknown \/ call'[k] = "missing"
    <3>1. unknown' = (unknown \/ call'[k] = "missing")
      BY <1>11, Zenon DEF Answer
    <3> QED
      BY <3>1, Zenon
  <2>6. unknown' /\ diskErrors' = 0 =>
          stopped' \/ \E m \in Pieces : call'[m] = "missing"
    <3>1. CASE unknown
      <4>1. diskErrors = 0 => stopped \/ \E m \in Pieces : call[m] = "missing"
        BY <1>3, <3>1
      <4>2. \A m \in Pieces : call[m] = "missing" => call'[m] = "missing"
        BY <1>4, <2>2
      <4> QED
        BY <2>4, <4>1, <4>2
    <3>2. CASE call'[k] = "missing"
      BY <3>2
    <3> QED
      BY <2>5, <3>1, <3>2
  <2> QED
    BY <1>1, <2>1, <2>2, <2>3, <2>4, <2>6 DEF Bill
<1> QED
  BY <1>6, <1>7, <1>8, <1>9, <1>10, <1>11 DEF CallStep

\* A call, by way of what it changes in the books.
LEMMA CallKeeps ==
  ASSUME GenerateAssumption, BenchAssumption, BenchInv, NEW k \in Pieces, CallStep(k)
  PROVE  BenchInv'
<1> USE DEF BenchInv
<1>1. /\ SiteInv' /\ Moves(k) /\ phase[k[1]] # "off"
      /\ UNCHANGED <<mode, cursor, fileVars, finished>>
      /\ stopped => stopped'
  BY CallMoves
<1>2. cursor' = cursor /\ rows' = rows /\ Recorded' = Recorded
  BY <1>1 DEF fileVars, Recorded
<1>3. FileInv'
  BY <1>1, MovesKeepFile
<1>4. CursorInv'
  BY <1>1, MovesKeepCursor
<1>5. PICK c \in Costs :
         /\ spent' = spent + c
         /\ jobSpent' = [jobSpent EXCEPT ![k[1]] = @ + c]
         /\ spent' \in Nat /\ diskErrors' \in Nat
         /\ unknown' /\ diskErrors' = 0 =>
              stopped' \/ \E m \in Pieces : call'[m] = "missing"
  BY CallBooks
<1>6. /\ k[1] \in 1 .. Jobs /\ k[1] \notin Recorded /\ ~(k[1] > cursor)
      /\ c \in Nat
  BY <1>1 DEF Moves, Pieces, FileInv, CursorInv, BenchAssumption
<1>7. jobSpent \in [1 .. Jobs -> Nat] /\ spent = SumFunctionOnSet(jobSpent, 1 .. Jobs)
  BY DEF BooksInv
<1>8. /\ jobSpent' \in [1 .. Jobs -> Nat]
      /\ jobSpent'[k[1]] = jobSpent[k[1]] + c
      /\ \A j \in (1 .. Jobs) \ {k[1]} : jobSpent'[j] = jobSpent[j]
  BY <1>5, <1>6, <1>7
<1>9. spent' = SumFunctionOnSet(jobSpent', 1 .. Jobs)
  <2>1. \A j \in 1 .. Jobs : jobSpent[j] \in Int
    BY <1>7
  <2>2. SumFunctionOnSet(jobSpent', 1 .. Jobs) = SumFunctionOnSet(jobSpent, 1 .. Jobs) + c
    <3>1. PICK after : after = jobSpent'
      OBVIOUS
    <3>2. /\ after[k[1]] = jobSpent[k[1]] + c
          /\ \A j \in (1 .. Jobs) \ {k[1]} : after[j] = jobSpent[j]
      BY <1>8, <3>1
    <3>3. k[1] \in 1 .. Jobs /\ c \in Int /\ IsFiniteSet(1 .. Jobs)
      BY <1>6, PiecesAreFinite
    <3>4. PICK all, x : all = 1 .. Jobs /\ x = k[1]
      OBVIOUS
    <3>5. /\ IsFiniteSet(all) /\ x \in all /\ \A y \in all : jobSpent[y] \in Int
          /\ after[x] = jobSpent[x] + c /\ \A y \in all \ {x} : after[y] = jobSpent[y]
      BY <2>1, <3>2, <3>3, <3>4
    <3>6. SumFunctionOnSet(after, all) = SumFunctionOnSet(jobSpent, all) + c
      BY ONLY <3>3, <3>5, SumOneGrows
    <3> QED
      BY <3>1, <3>4, <3>6
  <2> QED
    BY <1>5, <1>7, <2>2
<1>10. \A j \in 1 .. Jobs : j > cursor => jobSpent'[j] = 0
  BY <1>6, <1>8 DEF BooksInv
<1>11. \A j \in Recorded : rows[j] = jobSpent'[j]
  BY <1>6, <1>8 DEF BooksInv, FileInv
<1>12. BooksInv'
  BY <1>2, <1>5, <1>8, <1>9, <1>10, <1>11 DEF BooksInv
<1> QED
  BY <1>1, <1>3, <1>4, <1>12

\* The invariant is inductive.
LEMMA StepKeepsBooks ==
  ASSUME GenerateAssumption, BenchAssumption, BenchInv, [Next]_vars
  PROVE  BenchInv'
BY StartKeeps, ProceedKeeps, RecordKeeps, SaveKeeps, FinishKeeps, CallKeeps
   DEF Next, RunStep, Rest

-----------------------------------------------------------------------------
(* The three properties *)

\* The calls in flight are no more than the runners' workers.
LEMMA FewInFlight ==
  ASSUME GenerateAssumption, BenchAssumption, BenchInv
  PROVE  /\ IsFiniteSet(InFlight) /\ Cardinality(InFlight) \in Nat
         /\ Parallel \in Nat
         /\ \A X \in SUBSET Pieces :
              (\A k \in X : call[k] # "none") => Cardinality(X) <= Parallel
<1> USE DEF BenchInv
<1>1. IsFiniteSet(InFlight) /\ Cardinality(InFlight) \in Nat
  <2>1. InFlight \in SUBSET Pieces
    BY DEF InFlight
  <2> QED
    BY <2>1, PiecesAreFinite, FS_Subset, FS_CardinalityType
<1>2. Parallel \in Nat
  BY DEF Parallel, GenerateAssumption, BenchAssumption
<1>3. ASSUME NEW X \in SUBSET Pieces, \A k \in X : call[k] # "none"
      PROVE  Cardinality(X) <= Parallel
  <2>1. Active \in SUBSET (1 .. Jobs) /\ Cardinality(Active) \in Nat
    BY RecordedHasBegun
  <2>2. \A k \in X : k[1] \in Active
    BY <1>3, RecordedHasBegun
  <2>3. ASSUME NEW j \in Active PROVE Cardinality({k \in X : k[1] = j}) <= Workers
    <3> DEFINE M == {k \in X : k[1] = j}
    <3>1. j \in 1 .. Jobs
      BY <2>1
    <3>2. M \subseteq AtWork(j)
      BY <1>3 DEF AtWork, PiecesOf, SiteInv
    <3>3. IsFiniteSet(AtWork(j)) /\ Cardinality(AtWork(j)) \in Nat
      BY <3>1, AtWorkIsFinite
    <3>4. Cardinality(M) <= Cardinality(AtWork(j)) /\ Cardinality(M) \in Nat
      BY <3>2, <3>3, FS_Subset, FS_CardinalityType
    <3>5. Cardinality(AtWork(j)) <= Workers
      BY <3>1 DEF SiteInv
    <3> HIDE DEF M
    <3>6. Cardinality(M) <= Workers
      BY <3>3, <3>4, <3>5 DEF GenerateAssumption
    <3> QED
      BY <3>6 DEF M
  <2>4. Cardinality(X) <= Cardinality(Active) * Workers
    BY <2>1, <2>2, <2>3, PiecesOfSome
  <2>5. Cardinality(Active) * Workers <= Runners * Workers
    <3> DEFINE a == Cardinality(Active)
    <3>1. a \in Nat /\ a <= Runners /\ Runners \in Nat /\ Workers \in Nat
      BY <2>1 DEF CursorInv, GenerateAssumption, BenchAssumption
    <3> HIDE DEF a
    <3>2. (Runners - a) * Workers >= 0
      BY <3>1
    <3>3. (Runners - a) * Workers = Runners * Workers - a * Workers
      BY <3>1
    <3>4. a * Workers <= Runners * Workers
      BY <3>1, <3>2, <3>3
    <3> QED
      BY <3>4 DEF a
  <2>6. /\ Cardinality(X) \in Nat /\ Cardinality(Active) * Workers \in Nat
        /\ Runners * Workers \in Nat
    <3>1. Cardinality(X) \in Nat
      BY PiecesAreFinite, FS_Subset, FS_CardinalityType
    <3> QED
      BY <2>1, <3>1 DEF GenerateAssumption, BenchAssumption
  <2> QED
    BY <2>4, <2>5, <2>6 DEF Parallel
<1> QED
  BY <1>1, <1>2, <1>3

\* The overshoot is bounded from one step to the next.
LEMMA StepKeepsOvershoot ==
  ASSUME GenerateAssumption, BenchAssumption, BenchInv, BenchInv', OvershootIsBounded,
         [Next]_vars
  PROVE  OvershootIsBounded'
<1>1. /\ spent \in Nat /\ MaxCost \in Nat /\ Cap \in Nat
      /\ \A c \in Costs : c <= MaxCost /\ c \in Nat
  BY HighestPrice DEF BenchInv, BooksInv, BenchAssumption
<1>2. /\ IsFiniteSet(InFlight) /\ Cardinality(InFlight) \in Nat /\ Parallel \in Nat
  BY FewInFlight
<1>3. ASSUME InFlight' = InFlight, spent' = spent PROVE OvershootIsBounded'
  <2>1. Parallel' = Parallel /\ MaxCost' = MaxCost
    BY DEF Parallel, MaxCost
  <2> QED
    BY <1>3, <2>1 DEF OvershootIsBounded
<1>4. ASSUME NEW k \in Pieces, OnePiece(k), call[k] # "live", call'[k] # "live"
      PROVE  InFlight' = InFlight
  BY <1>4 DEF InFlight, OnePiece
<1>5. ASSUME NEW j \in 1 .. Jobs, Start(j) PROVE OvershootIsBounded'
  <2>1. /\ Moves(<<j, 0>>) /\ call[<<j, 0>>] = "none" /\ call'[<<j, 0>>] \in {"none", "ask"}
        /\ spent' = spent
    BY <1>5, GenerateMoves DEF BenchInv, Start, guardVars
  <2> QED
    BY <1>3, <1>4, <2>1 DEF Moves
<1>6. ASSUME NEW j \in 1 .. Jobs, Proceed(j) PROVE OvershootIsBounded'
  <2>1. PICK k \in Pieces : Moves(k) /\ call[k] = "none" /\ call'[k] \in {"none", "ask"}
    BY <1>6, SiteStepMoves DEF BenchInv, Proceed
  <2>2. spent' = spent
    BY <1>6 DEF Proceed, guardVars
  <2> QED
    BY <1>3, <1>4, <2>1, <2>2 DEF Moves
<1>7. ASSUME NEW k \in Pieces, GoLive(k) PROVE OvershootIsBounded'
  <2>1. ~(spent >= Cap) /\ spent' = spent
    BY <1>7 DEF GoLive, Refused, guardVars
  <2>2. PICK now \in SUBSET Pieces : now = InFlight'
    BY DEF InFlight
  <2>3. \A m \in now : call'[m] # "none"
    BY <2>2 DEF InFlight
  <2>4. \A m \in now : call[m] # "none"
    BY <1>7, <2>3 DEF GoLive, BenchInv, SiteInv
  <2>5. Cardinality(now) <= Parallel /\ Cardinality(now) \in Nat
    BY <2>4, FewInFlight, PiecesAreFinite, FS_Subset, FS_CardinalityType
  <2>6. MaxCost * Cardinality(now) <= MaxCost * Parallel
    <3> DEFINE n == Cardinality(now)
    <3>1. n \in Nat /\ n <= Parallel
      BY <2>5
    <3> HIDE DEF n
    <3>2. MaxCost * (Parallel - n) >= 0
      BY <1>1, <1>2, <3>1
    <3>3. MaxCost * (Parallel - n) = MaxCost * Parallel - MaxCost * n
      BY <1>1, <1>2, <3>1
    <3>4. MaxCost * n <= MaxCost * Parallel
      BY <1>1, <1>2, <3>1, <3>2, <3>3
    <3> QED
      BY <3>4 DEF n
  <2>7. spent + MaxCost * Cardinality(now) < Cap + MaxCost * Parallel
    <3>1. MaxCost * Cardinality(now) \in Int /\ MaxCost * Parallel \in Int
      BY <1>1, <1>2, <2>5
    <3> QED
      BY <1>1, <2>1, <2>6, <3>1
  <2> QED
    BY <2>1, <2>2, <2>7 DEF OvershootIsBounded, Parallel, MaxCost
<1>8. ASSUME NEW k \in Pieces, Answer(k) PROVE OvershootIsBounded'
  <2>1. CallStep(k)
    BY <1>8 DEF CallStep
  <2>2. PICK c \in Costs : spent' = spent + c
    BY <2>1, CallBooks DEF BenchInv
  <2>3. OnePiece(k)
    BY <2>1, CallMoves DEF BenchInv, Moves
  <2>4. call[k] = "live" /\ call'[k] # "live"
    BY <1>8 DEF Answer, Answers, BenchInv, SiteInv
  <2>5. k \in InFlight /\ InFlight' = InFlight \ {k}
    BY <2>3, <2>4 DEF InFlight, OnePiece
  <2>6. spent + MaxCost * Cardinality(InFlight) < Cap + MaxCost * Parallel
    BY <2>5 DEF OvershootIsBounded
  <2> DEFINE n == Cardinality(InFlight)
             m == Cardinality(InFlight')
             all == MaxCost * Parallel
  <2>7. m = n - 1 /\ n \in Nat
    <3>1. PICK w : w = InFlight
      OBVIOUS
    <3>2. Cardinality(w \ {k}) = Cardinality(w) - 1
      BY <1>2, <2>5, <3>1, FS_RemoveElement
    <3> QED
      BY <1>2, <2>5, <3>1, <3>2
  <2>8. all \in Int /\ spent + MaxCost * n < Cap + all
    BY <1>1, <1>2, <2>6
  <2>9. c \in Nat /\ c <= MaxCost
    BY <1>1
  <2>10. m \in Int
    BY <2>7
  <2> HIDE DEF n, m, all
  <2>11. MaxCost * m = MaxCost * n - MaxCost /\ MaxCost * n \in Int
    BY <1>1, <2>7
  <2>12. spent' + MaxCost * m < Cap + all
    BY <1>1, <2>2, <2>8, <2>9, <2>11
  <2> QED
    BY <2>12 DEF OvershootIsBounded, Parallel, MaxCost, m, all
<1>9. ASSUME NEW k \in Pieces, Hit(k) \/ Refuse(k) \/ Settle(k) \/ StoreFails(k)
      PROVE  OvershootIsBounded'
  <2>1. call[k] # "live" /\ spent' = spent
    BY <1>9 DEF Hit, Refuse, Settle, StoreFails, Answers, guardVars
  <2>2. \E good \in BOOLEAN : Return(k, good)
    BY <1>9 DEF Hit, Refuse, Settle, StoreFails, Deliver
  <2>3. OnePiece(k) /\ call'[k] \in {"none", "ask"}
    BY <2>2, ReturnKeepsSite DEF BenchInv
  <2> QED
    BY <1>3, <1>4, <2>1, <2>3
<1>10. ASSUME (\E j \in 1 .. Jobs : Record(j)) \/ Save \/ Finish \/ UNCHANGED vars
       PROVE  OvershootIsBounded'
  <2>1. call' = call /\ spent' = spent
    BY <1>10 DEF Record, Save, Finish, vars, siteVars, guardVars
  <2> QED
    BY <1>3, <2>1 DEF InFlight
<1> QED
  BY <1>5, <1>6, <1>7, <1>8, <1>9, <1>10 DEF Next, RunStep, Rest, CallStep

\* A finished run is at rest: no runner is on anything.
LEMMA FinishedIsAtRest ==
  ASSUME GenerateAssumption, BenchInv, finished
  PROVE  /\ Recorded = 1 .. cursor /\ ToSet(saves) = {}
         /\ \A k \in Pieces : call[k] = "none"
<1> USE DEF BenchInv
<1>1. Active = {}
  BY DEF CursorInv
<1>2. /\ Recorded \subseteq 1 .. cursor
      /\ \A k \in Pieces : call[k] # "none" => k[1] \in Active
  BY RecordedHasBegun
<1>3. 1 .. cursor \subseteq Recorded
  BY <1>1 DEF Active
<1>4. ToSet(saves) \cap (1 .. cursor) = {}
  BY <1>1 DEF Active
<1>5. ToSet(saves) = {}
  BY <1>2, <1>4 DEF FileInv
<1> QED
  BY <1>1, <1>2, <1>3, <1>5

\* Generations without a runner have all their calls billed.
LEMMA BooksReport == ASSUME GenerateAssumption, BenchInv PROVE SpendIsReported
<1> USE DEF BenchInv
<1>1. \A j \in Recorded : rows[j] = jobSpent[j] /\ AtWork(j) = {}
  BY NothingAtWork DEF BooksInv, FileInv
<1>2. ASSUME finished PROVE spent = FoldFunctionOnSet(+, 0, rows, Recorded)
  <2>1. Recorded = 1 .. cursor /\ cursor \in 0 .. Jobs
    BY <1>2, FinishedIsAtRest DEF CursorInv
  <2>2. Recorded \in SUBSET (1 .. Jobs)
    BY DEF FileInv
  <2>3. \A j \in (1 .. Jobs) \ Recorded : jobSpent[j] = 0
    BY <2>1 DEF BooksInv, GenerateAssumption
  <2>4. \A j \in 1 .. Jobs : jobSpent[j] \in Int
    BY DEF BooksInv
  <2>5. SumFunctionOnSet(jobSpent, 1 .. Jobs) = SumFunctionOnSet(jobSpent, Recorded)
    BY <2>2, <2>3, <2>4, PiecesAreFinite, SumOfTheRest
  <2>6. SumFunctionOnSet(jobSpent, Recorded) = SumFunctionOnSet(rows, Recorded)
    <3>1. \A j \in Recorded : jobSpent[j] \in Int /\ jobSpent[j] = rows[j]
      BY <1>1, <2>2, <2>4
    <3>2. IsFiniteSet(Recorded)
      BY <2>2, PiecesAreFinite, FS_Subset
    <3> QED
      BY <3>1, <3>2, SumOfSameTerms
  <2>7. SumFunctionOnSet(rows, Recorded) = FoldFunctionOnSet(+, 0, rows, Recorded)
    BY DEF SumFunctionOnSet
  <2> QED
    BY <2>5, <2>6, <2>7 DEF BooksInv
<1>3. ASSUME finished, unknown, diskErrors = 0 PROVE stopped
  <2>1. \A k \in Pieces : call[k] # "missing"
    BY <1>3, FinishedIsAtRest
  <2> QED
    BY <1>3, <2>1 DEF BooksInv
<1> QED
  BY <1>1, <1>2, <1>3 DEF SpendIsReported

\* Without saves to come, the file has what is recorded.
LEMMA FileHoldsRows == ASSUME GenerateAssumption, BenchInv PROVE NoRowIsLost
<1> USE DEF BenchInv
<1>1. \A j \in Recorded \ file : j \in ToSet(saves)
  BY DEF FileInv
<1>2. ASSUME finished PROVE file = 1 .. cursor /\ (stopped \/ cursor = Jobs)
  <2>1. Recorded = 1 .. cursor /\ ToSet(saves) = {}
    BY <1>2, FinishedIsAtRest
  <2> QED
    BY <1>2, <2>1 DEF FileInv, CursorInv
<1> QED
  BY <1>1, <1>2 DEF NoRowIsLost

\* Nothing is spent and nothing is in flight at the beginning.
LEMMA InitOvershoot == ASSUME Init PROVE OvershootIsBounded
<1>1. spent = 0 /\ InFlight = {}
  BY DEF Init, SiteInit, InFlight
<1> QED
  BY <1>1 DEF OvershootIsBounded

-----------------------------------------------------------------------------
\* The cap of a run is overshot by less than what the calls that run side by side
\* can cost, for any number of runners, workers, jobs and pages and any prices
\* (SpendGuard in spend.ts: its check and the start of a call are one step).
THEOREM OvershootStaysBounded == Spec => []OvershootIsBounded
<1>1. Init => BenchInv /\ OvershootIsBounded
  BY InitBooks, InitOvershoot, GenerateAssumption, BenchAssumption
<1>2. BenchInv /\ OvershootIsBounded /\ [Next]_vars => (BenchInv /\ OvershootIsBounded)'
  BY StepKeepsBooks, StepKeepsOvershoot, GenerateAssumption, BenchAssumption
<1> QED
  BY <1>1, <1>2, PTL DEF Spec

\* What a row shows is final when it is recorded, and the rows of a finished run add
\* up to what the guard counted, or the run says that it stopped (run.ts, spend.ts).
THEOREM RowsAddUp == Spec => []SpendIsReported
<1>1. Init => BenchInv
  BY InitBooks, GenerateAssumption, BenchAssumption
<1>2. BenchInv /\ [Next]_vars => BenchInv'
  BY StepKeepsBooks, GenerateAssumption, BenchAssumption
<1>3. BenchInv => SpendIsReported
  BY BooksReport, GenerateAssumption
<1> QED
  BY <1>1, <1>2, <1>3, PTL DEF Spec

\* No recorded attempt is lost between checkpoints that overlap, and a finished run
\* has every attempt it began in its file (the chained saves of run.ts).
THEOREM AttemptsReachTheFile == Spec => []NoRowIsLost
<1>1. Init => BenchInv
  BY InitBooks, GenerateAssumption, BenchAssumption
<1>2. BenchInv /\ [Next]_vars => BenchInv'
  BY StepKeepsBooks, GenerateAssumption, BenchAssumption
<1>3. BenchInv => NoRowIsLost
  BY FileHoldsRows, GenerateAssumption
<1> QED
  BY <1>1, <1>2, <1>3, PTL DEF Spec
=============================================================================
