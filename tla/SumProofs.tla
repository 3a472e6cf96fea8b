----------------------------- MODULE SumProofs -----------------------------
(***************************************************************************)
(* Sums over finite sets, for the proofs about what is owed and what an    *)
(* answer is worth.                                                        *)
(*                                                                         *)
(* MapThenSumSet takes its elements out in the order of a CHOOSE.  That    *)
(* any other order gives the same sum is proved by induction on the finite *)
(* set; as no prover instantiates an induction rule, each induction takes  *)
(* a least counterexample instead (LeastSubset).                           *)
(***************************************************************************)
EXTENDS Integers, FiniteSets, Summation, FiniteSetTheorems, WellFoundedInduction, TLAPS

\* Of some subsets of a finite set there is one that none of the others lies within.
LEMMA LeastSubset ==
    ASSUME NEW S, IsFiniteSet(S), NEW Bad, Bad \subseteq SUBSET S, Bad # {}
    PROVE  \E s \in Bad : \A t \in SUBSET s : t # s => t \notin Bad
<1>1. IsWellFoundedOn(StrictSubsetOrdering(S), SUBSET S)
  BY FS_StrictSubsetOrderingWellFounded, FS_FiniteSubsetsOfFinite
<1>2. PICK s \in Bad : \A t \in Bad : <<t, s>> \notin StrictSubsetOrdering(S)
  BY <1>1, WFMin
<1>3. ASSUME NEW t \in SUBSET s, t # s, t \in Bad PROVE FALSE
  <2>1. <<t, s>> \in StrictSubsetOrdering(S)
    BY <1>2, <1>3 DEF StrictSubsetOrdering
  <2> QED
    BY <1>2, <1>3, <2>1
<1> QED
  BY <1>2, <1>3

-----------------------------------------------------------------------------
(* The function that the fold of the community modules computes.            *)

Picked(s) == CHOOSE x \in s : TRUE

\* The sum of f over s, given the sums over the smaller sets.
NextSum(f, sum, s) == IF s = {} THEN 0 ELSE f[Picked(s)] + sum[s \ {Picked(s)}]

\* sum holds the sums of f over all subsets of S.
Sums(f, S, sum) == sum = [s \in SUBSET S |-> NextSum(f, sum, s)]

LEMMA PickedIn == ASSUME NEW s, s # {} PROVE Picked(s) \in s
  BY DEF Picked

LEMMA SumsAt ==
    ASSUME NEW f, NEW S, NEW sum, Sums(f, S, sum), NEW s \in SUBSET S
    PROVE  /\ s = {} => sum[s] = 0
           /\ s # {} => /\ Picked(s) \in s
                        /\ s \ {Picked(s)} \in SUBSET S
                        /\ sum[s] = f[Picked(s)] + sum[s \ {Picked(s)}]
<1>1. sum[s] = NextSum(f, sum, s)
  BY DEF Sums
<1> QED
  BY <1>1, PickedIn DEF NextSum

\* Sums over the subsets of two sets agree where the summands do.
LEMMA SumsAgree ==
    ASSUME NEW S, NEW T, NEW f, NEW g, NEW sum, NEW tot, Sums(f, S, sum), Sums(g, T, tot),
           NEW U, IsFiniteSet(U), U \subseteq S, U \subseteq T, \A x \in U : f[x] = g[x]
    PROVE  \A s \in SUBSET U : sum[s] = tot[s]
<1> DEFINE Bad == {s \in SUBSET U : sum[s] # tot[s]}
<1> SUFFICES ASSUME Bad # {} PROVE FALSE
  OBVIOUS
<1>1. PICK s \in Bad : \A t \in SUBSET s : t # s => t \notin Bad
  <2>1. Bad \subseteq SUBSET U
    OBVIOUS
  <2> HIDE DEF Bad
  <2> QED
    BY <2>1, LeastSubset
<1>2. s \in SUBSET U /\ s \in SUBSET S /\ s \in SUBSET T /\ sum[s] # tot[s]
  OBVIOUS
<1>3. CASE s = {}
  BY <1>2, <1>3, SumsAt
<1>4. CASE s # {}
  <2> DEFINE x == Picked(s)
             t == s \ {x}
  <2>1. x \in s /\ t \in SUBSET s /\ t # s /\ t \in SUBSET U
    BY <1>2, <1>4, PickedIn
  <2>2. sum[s] = f[x] + sum[t] /\ tot[s] = g[x] + tot[t]
    BY <1>2, <1>4, SumsAt
  <2>3. sum[t] = tot[t]
    BY <1>1, <2>1
  <2>4. f[x] = g[x]
    BY <1>2, <2>1
  <2> QED
    BY <1>2, <2>2, <2>3, <2>4
<1> QED
  BY <1>3, <1>4

\* The function exists: the sums over the subsets of a set come from those over the
\* subsets of its proper subsets, which agree with one another.
LEMMA SumsExist ==
    ASSUME NEW S, IsFiniteSet(S), NEW f
    PROVE  \E sum : Sums(f, S, sum)
<1> DEFINE Bad == {T \in SUBSET S : ~ \E sum : Sums(f, T, sum)}
<1> SUFFICES ASSUME Bad # {} PROVE FALSE
  <2>1. S \in SUBSET S
    OBVIOUS
  <2> QED
    BY <2>1
<1>1. PICK T \in Bad : \A R \in SUBSET T : R # T => R \notin Bad
  <2>1. Bad \subseteq SUBSET S
    OBVIOUS
  <2> HIDE DEF Bad
  <2> QED
    BY <2>1, LeastSubset
<1>2. T \in SUBSET S /\ ~ \E sum : Sums(f, T, sum)
  OBVIOUS
<1>3. \A R \in SUBSET T : R # T => \E sum : Sums(f, R, sum)
  BY <1>1, <1>2
<1> HIDE DEF Bad
<1> DEFINE Of(R) == CHOOSE sum : Sums(f, R, sum)
           rest(s) == s \ {Picked(s)}
           all == [s \in SUBSET T |-> IF s = {} THEN 0 ELSE f[Picked(s)] + Of(rest(s))[rest(s)]]
<1>4. \A R \in SUBSET T : R # T => Sums(f, R, Of(R))
  BY <1>3
<1>5. ASSUME NEW s \in SUBSET T PROVE all[s] = NextSum(f, all, s)
  <2>1. CASE s = {}
    BY <2>1 DEF NextSum
  <2>2. CASE s # {}
    <3> DEFINE r == rest(s)
               q == rest(r)
    <3>1. Picked(s) \in s /\ r \in SUBSET T /\ r # T /\ r \in SUBSET r
      BY <2>2, PickedIn
    <3>2. all[s] = f[Picked(s)] + Of(r)[r]
      BY <2>2
    <3>3. Sums(f, r, Of(r))
      BY <3>1, <1>4
    <3>4. all[r] = Of(r)[r]
      <4>1. CASE r = {}
        <5>1. all[r] = 0
          BY <3>1, <4>1
        <5>2. Of(r)[r] = 0
          <6> HIDE DEF Of, r
          <6> QED
            BY <3>1, <3>3, <4>1, SumsAt
        <5> QED
          BY <5>1, <5>2
      <4>2. CASE r # {}
        <5>1. all[r] = f[Picked(r)] + Of(q)[q]
          BY <3>1, <4>2
        <5>2. Of(r)[r] = f[Picked(r)] + Of(r)[q]
          <6>1. q = r \ {Picked(r)}
            OBVIOUS
          <6> HIDE DEF Of, r, q
          <6> QED
            BY <3>1, <3>3, <4>2, <6>1, SumsAt
        <5>3. Picked(r) \in r /\ q \in SUBSET r /\ q # T /\ q \in SUBSET T /\ q \in SUBSET q
          BY <3>1, <4>2, PickedIn
        <5>4. Sums(f, q, Of(q))
          BY <5>3, <1>4
        <5>5. IsFiniteSet(q)
          BY <5>3, <1>2, FS_Subset
        <5>6. Of(q)[q] = Of(r)[q]
          <6> HIDE DEF Of, r, q
          <6>1. \A x \in q : f[x] = f[x]
            OBVIOUS
          <6>2. \A s1 \in SUBSET q : Of(q)[s1] = Of(r)[s1]
            BY <3>3, <5>3, <5>4, <5>5, <6>1, SumsAgree
          <6> QED
            BY <5>3, <6>2
        <5> QED
          BY <5>1, <5>2, <5>6
      <4> QED
        BY <4>1, <4>2
    <3> HIDE DEF all, r, Of
    <3>5. NextSum(f, all, s) = f[Picked(s)] + all[r]
      BY <2>2 DEF NextSum, r
    <3> QED
      BY <3>2, <3>4, <3>5
  <2> QED
    BY <2>1, <2>2
<1>6. Sums(f, T, all)
  <2>1. all = [s \in SUBSET T |-> all[s]]
    OBVIOUS
  <2> HIDE DEF all
  <2>2. all = [s \in SUBSET T |-> NextSum(f, all, s)]
    BY <1>5, <2>1
  <2> QED
    BY <2>2 DEF Sums
<1> QED
  BY <1>2, <1>6

-----------------------------------------------------------------------------
(* Order does not matter.                                                   *)

LEMMA SumsInteger ==
    ASSUME NEW S, IsFiniteSet(S), NEW f, NEW sum, Sums(f, S, sum), \A x \in S : f[x] \in Int
    PROVE  \A s \in SUBSET S : sum[s] \in Int
<1>0. \A s \in SUBSET S :
        /\ s = {} => sum[s] = 0
        /\ s # {} => sum[s] = f[Picked(s)] + sum[s \ {Picked(s)}]
  BY SumsAt
<1> DEFINE Bad == {s \in SUBSET S : sum[s] \notin Int}
<1> SUFFICES ASSUME Bad # {} PROVE FALSE
  OBVIOUS
<1>1. PICK s \in Bad : \A t \in SUBSET s : t # s => t \notin Bad
  <2>1. Bad \subseteq SUBSET S
    OBVIOUS
  <2> HIDE DEF Bad
  <2> QED
    BY <2>1, LeastSubset
<1>2. s \in SUBSET S
  OBVIOUS
<1>3. sum[s] \notin Int
  OBVIOUS
<1>4. \A t \in SUBSET s : t # s => sum[t] \in Int
  BY <1>1
<1> HIDE DEF Bad
<1>5. CASE s = {}
  <2>1. sum[s] = 0
    BY <1>2, <1>5, <1>0
  <2> QED
    BY <1>3, <2>1
<1>6. CASE s # {}
  <2> DEFINE x == Picked(s)
             t == s \ {x}
  <2>1. x \in s /\ t \in SUBSET s /\ t # s /\ t \in SUBSET S
    BY <1>2, <1>6, PickedIn
  <2>2. sum[s] = f[x] + sum[t]
    BY <1>2, <1>6, <1>0
  <2>3. sum[t] \in Int /\ f[x] \in Int
    BY <1>2, <1>4, <2>1
  <2> QED
    BY <1>3, <2>2, <2>3
<1> QED
  BY <1>5, <1>6

\* Any element may be taken out first.
LEMMA SumsRemove ==
    ASSUME NEW S, IsFiniteSet(S), NEW f, NEW sum, Sums(f, S, sum), \A x \in S : f[x] \in Int,
           NEW z \in S
    PROVE  sum[S] = f[z] + sum[S \ {z}]
<1> DEFINE Bad == {s \in SUBSET S : \E x \in s : sum[s] # f[x] + sum[s \ {x}]}
<1> SUFFICES ASSUME Bad # {} PROVE FALSE
  OBVIOUS
<1>0. \A s \in SUBSET S : sum[s] \in Int
  BY SumsInteger
<1>1. PICK s \in Bad : \A t \in SUBSET s : t # s => t \notin Bad
  <2>1. Bad \subseteq SUBSET S
    OBVIOUS
  <2> HIDE DEF Bad
  <2> QED
    BY <2>1, LeastSubset
<1>2. PICK x \in s : sum[s] # f[x] + sum[s \ {x}]
  OBVIOUS
<1> DEFINE y == Picked(s)
<1>3. s \in SUBSET S /\ s # {} /\ y \in s /\ x \in S /\ y \in S
  BY <1>2, PickedIn
<1>4. sum[s] = f[y] + sum[s \ {y}]
  BY <1>3, SumsAt
<1>5. x # y
  BY <1>2, <1>4
<1> DEFINE without == (s \ {x}) \ {y}
<1>6. sum[s \ {y}] = f[x] + sum[without]
  <2>1. s \ {y} \in SUBSET s /\ s \ {y} # s /\ s \ {y} \in SUBSET S /\ x \in s \ {y}
    BY <1>2, <1>3, <1>5
  <2>2. s \ {y} \notin Bad
    BY <1>1, <2>1
  <2>3. (s \ {y}) \ {x} = without
    OBVIOUS
  <2> HIDE DEF y
  <2> QED
    BY <2>1, <2>2, <2>3
<1>7. sum[s \ {x}] = f[y] + sum[without]
  <2>1. s \ {x} \in SUBSET s /\ s \ {x} # s /\ s \ {x} \in SUBSET S /\ y \in s \ {x}
    BY <1>2, <1>3, <1>5
  <2>2. s \ {x} \notin Bad
    BY <1>1, <2>1
  <2> HIDE DEF y
  <2> QED
    BY <2>1, <2>2
<1>8. f[x] \in Int /\ f[y] \in Int /\ sum[without] \in Int
  BY <1>0, <1>3
<1> HIDE DEF y, without
<1> QED
  BY <1>2, <1>4, <1>6, <1>7, <1>8

-----------------------------------------------------------------------------
(* What the library's operator is.                                          *)

LEMMA SumOverSums ==
    ASSUME NEW S, IsFiniteSet(S), NEW f
    PROVE  \E sum : Sums(f, S, sum) /\ SumOver(f, S) = sum[S]
<1> DEFINE iter == CHOOSE sum : sum = [s \in SUBSET S |->
                      IF s = {} THEN 0
                      ELSE f[CHOOSE y \in s : TRUE] + sum[s \ {CHOOSE y \in s : TRUE}]]
<1>1. SumOver(f, S) = iter[S]
  BY DEF SumOver, MapThenSumSet, MapThenFoldSet
<1>2. Sums(f, S, iter)
  <2>1. \E sum : Sums(f, S, sum)
    BY SumsExist
  <2> QED
    BY <2>1 DEF Sums, NextSum, Picked
<1> QED
  BY <1>1, <1>2

LEMMA SumOverInt ==
    ASSUME NEW S, IsFiniteSet(S), NEW f, \A x \in S : f[x] \in Int
    PROVE  SumOver(f, S) \in Int
<1>1. PICK sum : Sums(f, S, sum) /\ SumOver(f, S) = sum[S]
  BY SumOverSums
<1>2. \A s \in SUBSET S : sum[s] \in Int
  BY <1>1, SumsInteger
<1> QED
  BY <1>1, <1>2

LEMMA SumOverAgree ==
    ASSUME NEW S, IsFiniteSet(S), NEW f, NEW g, \A x \in S : f[x] = g[x]
    PROVE  SumOver(f, S) = SumOver(g, S)
<1>1. PICK sum : Sums(f, S, sum) /\ SumOver(f, S) = sum[S]
  BY SumOverSums
<1>2. PICK tot : Sums(g, S, tot) /\ SumOver(g, S) = tot[S]
  BY SumOverSums
<1>3. \A s \in SUBSET S : sum[s] = tot[s]
  BY <1>1, <1>2, SumsAgree
<1> QED
  BY <1>1, <1>2, <1>3

LEMMA SumOverEmpty == ASSUME NEW f PROVE SumOver(f, {}) = 0
<1>1. IsFiniteSet({})
  BY FS_EmptySet
<1>2. PICK sum : Sums(f, {}, sum) /\ SumOver(f, {}) = sum[{}]
  BY <1>1, SumOverSums
<1>3. {} \in SUBSET {}
  OBVIOUS
<1> QED
  BY <1>2, <1>3, SumsAt

LEMMA SumOverAdd ==
    ASSUME NEW S, IsFiniteSet(S), NEW y, y \notin S,
           NEW f, \A x \in S \cup {y} : f[x] \in Int
    PROVE  SumOver(f, S \cup {y}) = SumOver(f, S) + f[y]
<1> DEFINE T == S \cup {y}
<1>1. IsFiniteSet(T)
  BY FS_AddElement
<1>2. PICK sum : Sums(f, T, sum) /\ SumOver(f, T) = sum[T]
  BY <1>1, SumOverSums
<1>3. PICK tot : Sums(f, S, tot) /\ SumOver(f, S) = tot[S]
  BY SumOverSums
<1>4. tot[S] = sum[S]
  <2>1. S \subseteq T /\ S \subseteq S /\ S \in SUBSET S /\ \A x \in S : f[x] = f[x]
    OBVIOUS
  <2> HIDE DEF T
  <2>2. \A s \in SUBSET S : tot[s] = sum[s]
    BY <1>2, <1>3, <2>1, SumsAgree
  <2> QED
    BY <2>1, <2>2
<1>5. sum[T] = f[y] + sum[T \ {y}]
  <2>1. T \in SUBSET T /\ y \in T
    OBVIOUS
  <2>2. \A x \in T : f[x] \in Int
    OBVIOUS
  <2> HIDE DEF T
  <2>3. Sums(f, T, sum)
    BY <1>2
  <2> QED
    BY <1>1, <2>1, <2>2, <2>3, SumsRemove
<1>6. T \ {y} = S
  OBVIOUS
<1>7. f[y] \in Int
  OBVIOUS
<1>8. SumOver(f, S) \in Int
  BY SumOverInt
<1> HIDE DEF T
<1>9. SumOver(f, T) = SumOver(f, S) + f[y]
  <2>1. SumOver(f, T) = f[y] + sum[S]
    BY <1>2, <1>5, <1>6
  <2>2. SumOver(f, S) = sum[S]
    BY <1>3, <1>4
  <2> QED
    BY <1>7, <1>8, <2>1, <2>2
<1> QED
  BY <1>9 DEF T

\* More summands that are not negative give no smaller sum.
LEMMA SumOverGrows ==
    ASSUME NEW S, IsFiniteSet(S), NEW f, \A x \in S : f[x] \in Nat,
           NEW R, R \subseteq S
    PROVE  SumOver(f, R) <= SumOver(f, S)
<1> DEFINE Bad == {d \in SUBSET S : ~(SumOver(f, S \ d) <= SumOver(f, S))}
<1>0. \A d \in SUBSET S : IsFiniteSet(S \ d) /\ SumOver(f, S \ d) \in Int
  BY FS_Subset, SumOverInt
<1>1. ASSUME Bad # {} PROVE FALSE
  <2>1. PICK d \in Bad : \A t \in SUBSET d : t # d => t \notin Bad
    <3>1. Bad \subseteq SUBSET S
      OBVIOUS
    <3> HIDE DEF Bad
    <3> QED
      BY <1>1, <3>1, LeastSubset
  <2>2. d \in SUBSET S
    OBVIOUS
  <2>3. ~(SumOver(f, S \ d) <= SumOver(f, S))
    OBVIOUS
  <2>4. SumOver(f, S) \in Int
    BY SumOverInt
  <2>5. CASE d = {}
    <3>1. S \ d = S
      BY <2>5
    <3> QED
      BY <2>3, <2>4, <3>1
  <2>6. CASE d # {}
    <3>1. PICK x \in d : TRUE
      BY <2>6
    <3> DEFINE e == d \ {x}
    <3>2. e \in SUBSET d /\ e # d /\ e \in SUBSET S
      BY <2>2
    <3>3. SumOver(f, S \ e) <= SumOver(f, S)
      BY <2>1, <3>2
    <3>4. S \ e = (S \ d) \cup {x} /\ x \notin S \ d /\ x \in S
      BY <2>2
    <3>5. SumOver(f, (S \ d) \cup {x}) = SumOver(f, S \ d) + f[x]
      <4>1. IsFiniteSet(S \ d) /\ \A y \in (S \ d) \cup {x} : f[y] \in Int
        BY <1>0, <2>2, <3>4
      <4> QED
        BY <3>4, <4>1, SumOverAdd
    <3>6. SumOver(f, S \ d) \in Int /\ f[x] \in Nat
      BY <1>0, <2>2, <3>4
    <3> HIDE DEF e
    <3> QED
      BY <2>3, <2>4, <3>3, <3>4, <3>5, <3>6
  <2> QED
    BY <2>5, <2>6
<1>2. S \ (S \ R) = R /\ S \ R \in SUBSET S
  OBVIOUS
<1>3. S \ R \notin Bad
  BY <1>1
<1> QED
  BY <1>2, <1>3

LEMMA SumOverNat ==
    ASSUME NEW S, IsFiniteSet(S), NEW f, \A x \in S : f[x] \in Nat
    PROVE  SumOver(f, S) \in Nat
<1>1. SumOver(f, S) \in Int
  BY SumOverInt
<1>2. SumOver(f, {}) <= SumOver(f, S)
  BY SumOverGrows
<1>3. SumOver(f, {}) = 0
  BY SumOverEmpty
<1> QED
  BY <1>1, <1>2, <1>3

-----------------------------------------------------------------------------
(* How sums are compared, split and shared out.                            *)

\* What holds of the empty set and of every subset with one more element holds of all.
LEMMA SubsetsFromEmpty ==
    ASSUME NEW S, IsFiniteSet(S), NEW Good, {} \in Good,
           \A s \in SUBSET S : s \in Good => \A x \in S \ s : s \cup {x} \in Good
    PROVE  S \in Good
<1> DEFINE Bad == {d \in SUBSET S : d \notin Good}
<1> SUFFICES ASSUME Bad # {} PROVE FALSE
  <2>1. S \in SUBSET S
    OBVIOUS
  <2> QED
    BY <2>1
<1>1. PICK d \in Bad : \A t \in SUBSET d : t # d => t \notin Bad
  <2>1. Bad \subseteq SUBSET S
    OBVIOUS
  <2> HIDE DEF Bad
  <2> QED
    BY <2>1, LeastSubset
<1>2. d \in SUBSET S /\ d \notin Good
  OBVIOUS
<1>3. PICK x \in d : TRUE
  BY <1>2
<1>4. d \ {x} \in SUBSET d /\ d \ {x} # d /\ d \ {x} \in SUBSET S /\ x \in S \ (d \ {x})
  BY <1>2
<1>5. d \ {x} \in Good
  BY <1>1, <1>4
<1>6. (d \ {x}) \cup {x} \in Good
  BY <1>4, <1>5
<1>7. (d \ {x}) \cup {x} = d
  OBVIOUS
<1> QED
  BY <1>2, <1>6, <1>7

\* A sum is that of its parts with the summands of two functions.
LEMMA SumOverPlus ==
    ASSUME NEW S, IsFiniteSet(S), NEW f, NEW g, NEW h,
           \A x \in S : f[x] \in Int /\ g[x] \in Int /\ h[x] = f[x] + g[x]
    PROVE  SumOver(h, S) = SumOver(f, S) + SumOver(g, S)
<1> DEFINE Good == {s \in SUBSET S : SumOver(h, s) = SumOver(f, s) + SumOver(g, s)}
<1>1. {} \in Good
  <2>1. SumOver(h, {}) = 0 /\ SumOver(f, {}) = 0 /\ SumOver(g, {}) = 0
    BY SumOverEmpty
  <2> QED
    BY <2>1
<1>2. ASSUME NEW s \in SUBSET S, s \in Good, NEW x \in S \ s PROVE s \cup {x} \in Good
  <2>0. IsFiniteSet(s)
    BY FS_Subset
  <2>1. SumOver(h, s) = SumOver(f, s) + SumOver(g, s)
    BY <1>2
  <2>2. SumOver(f, s) \in Int /\ SumOver(g, s) \in Int
    BY <2>0, SumOverInt
  <2>3. \A y \in s \cup {x} : f[y] \in Int /\ g[y] \in Int /\ h[y] \in Int
    OBVIOUS
  <2>4. x \notin s
    OBVIOUS
  <2>5. SumOver(f, s \cup {x}) = SumOver(f, s) + f[x]
    BY <2>0, <2>3, <2>4, SumOverAdd
  <2>6. SumOver(g, s \cup {x}) = SumOver(g, s) + g[x]
    BY <2>0, <2>3, <2>4, SumOverAdd
  <2>7. SumOver(h, s \cup {x}) = SumOver(h, s) + h[x]
    BY <2>0, <2>3, <2>4, SumOverAdd
  <2>8. h[x] = f[x] + g[x] /\ f[x] \in Int /\ g[x] \in Int
    OBVIOUS
  <2>9. SumOver(h, s \cup {x}) = SumOver(f, s \cup {x}) + SumOver(g, s \cup {x})
    BY <2>1, <2>2, <2>5, <2>6, <2>7, <2>8
  <2> QED
    BY <2>9
<1>3. S \in Good
  <2> HIDE DEF Good
  <2> QED
    BY <1>1, <1>2, SubsetsFromEmpty
<1> QED
  BY <1>3

\* Summands that are nowhere greater give no greater sum.
LEMMA SumOverAtMost ==
    ASSUME NEW S, IsFiniteSet(S), NEW f, NEW g,
           \A x \in S : f[x] \in Int /\ g[x] \in Int /\ f[x] <= g[x]
    PROVE  SumOver(f, S) <= SumOver(g, S)
<1> DEFINE d == [x \in S |-> g[x] - f[x]]
<1>1. \A x \in S : d[x] \in Nat /\ g[x] = f[x] + d[x] /\ f[x] \in Int /\ d[x] \in Int
  OBVIOUS
<1> HIDE DEF d
<1>2. SumOver(d, S) \in Nat
  BY <1>1, SumOverNat
<1>3. SumOver(g, S) = SumOver(f, S) + SumOver(d, S)
  BY <1>1, SumOverPlus
<1>4. SumOver(f, S) \in Int
  BY SumOverInt
<1> QED
  BY <1>2, <1>3, <1>4

\* Two facts of arithmetic, for steps that the other hypotheses make too large.
LEMMA TwiceIsZero == \A a \in Int : a = a + a => a = 0
  OBVIOUS

LEMMA AddGroups == \A a, b, c \in Int : a + (b + c) = (a + b) + c
  OBVIOUS

\* A sum of zeros.
LEMMA SumOverZero ==
    ASSUME NEW S, IsFiniteSet(S), NEW f, \A x \in S : f[x] = 0
    PROVE  SumOver(f, S) = 0
<1>0. \A x \in S : f[x] \in Int /\ f[x] = f[x] + f[x]
  <2> SUFFICES ASSUME NEW x \in S PROVE f[x] \in Int /\ f[x] = f[x] + f[x]
    OBVIOUS
  <2>1. f[x] = 0
    OBVIOUS
  <2> QED
    BY <2>1
<1>1. SumOver(f, S) \in Int
  BY <1>0, SumOverInt
<1>2. SumOver(f, S) = SumOver(f, S) + SumOver(f, S)
  BY <1>0, SumOverPlus
<1> QED
  BY <1>1, <1>2, TwiceIsZero, Zenon

\* A sum over a set is that over a part of it and that over the rest.
LEMMA SumOverParts ==
    ASSUME NEW S, IsFiniteSet(S), NEW f, \A x \in S : f[x] \in Int, NEW R, R \subseteq S
    PROVE  SumOver(f, S) = SumOver(f, R) + SumOver(f, S \ R)
<1>0. IsFiniteSet(R) /\ IsFiniteSet(S \ R)
  BY FS_Subset
<1> DEFINE D == S \ R
           Good == {s \in SUBSET D : SumOver(f, R \cup s) = SumOver(f, R) + SumOver(f, s)}
<1>1. {} \in Good
  <2>1. SumOver(f, {}) = 0
    BY SumOverEmpty
  <2>2. R \cup {} = R
    OBVIOUS
  <2>3. SumOver(f, R) \in Int
    BY <1>0, SumOverInt
  <2> QED
    BY <2>1, <2>2, <2>3
<1>2. ASSUME NEW s \in SUBSET D, s \in Good, NEW x \in D \ s PROVE s \cup {x} \in Good
  <2>0. IsFiniteSet(s) /\ IsFiniteSet(R \cup s)
    BY <1>0, FS_Subset, FS_Union
  <2>1. SumOver(f, R \cup s) = SumOver(f, R) + SumOver(f, s)
    BY <1>2
  <2>2. SumOver(f, R) \in Int /\ SumOver(f, s) \in Int
    <3>1. \A y \in s : f[y] \in Int
      OBVIOUS
    <3> QED
      BY <1>0, <2>0, <3>1, SumOverInt
  <2>3. SumOver(f, s \cup {x}) = SumOver(f, s) + f[x]
    <3>1. x \notin s /\ \A y \in s \cup {x} : f[y] \in Int
      OBVIOUS
    <3> QED
      BY <2>0, <3>1, SumOverAdd
  <2>4. SumOver(f, (R \cup s) \cup {x}) = SumOver(f, R \cup s) + f[x]
    <3>1. x \notin R \cup s /\ \A y \in (R \cup s) \cup {x} : f[y] \in Int
      OBVIOUS
    <3> QED
      BY <2>0, <3>1, SumOverAdd
  <2>5. R \cup (s \cup {x}) = (R \cup s) \cup {x} /\ f[x] \in Int
    OBVIOUS
  <2>6. SumOver(f, R \cup (s \cup {x})) = SumOver(f, R) + SumOver(f, s \cup {x})
    <3>1. SumOver(f, R \cup (s \cup {x})) = (SumOver(f, R) + SumOver(f, s)) + f[x]
      BY <2>1, <2>4, <2>5, Zenon
    <3>2. SumOver(f, R) + (SumOver(f, s) + f[x]) = (SumOver(f, R) + SumOver(f, s)) + f[x]
      BY <2>2, <2>5, AddGroups, Zenon
    <3> QED
      BY <2>3, <3>1, <3>2, Zenon
  <2>7. s \cup {x} \in SUBSET D
    OBVIOUS
  <2> HIDE DEF D
  <2> QED
    BY <2>6, <2>7
<1>3. D \in Good
  <2> HIDE DEF Good
  <2> QED
    BY <1>0, <1>1, <1>2, SubsetsFromEmpty
<1>4. R \cup D = S
  OBVIOUS
<1> QED
  BY <1>3, <1>4

\* When one summand is greater by n, the sum is.
LEMMA SumOverRaise ==
    ASSUME NEW S, IsFiniteSet(S), NEW f, NEW g, NEW j \in S, NEW n \in Int,
           \A x \in S : f[x] \in Int, \A x \in S \ {j} : g[x] = f[x], g[j] = f[j] + n
    PROVE  SumOver(g, S) = SumOver(f, S) + n
<1> DEFINE R == S \ {j}
<1>1. IsFiniteSet(R) /\ j \notin R /\ R \cup {j} = S
  BY FS_Subset
<1>2. \A x \in R : f[x] \in Int /\ g[x] = f[x] /\ g[x] \in Int
  OBVIOUS
<1>3. f[j] \in Int /\ g[j] \in Int /\ g[j] = f[j] + n
  OBVIOUS
<1> HIDE DEF R
<1>4. SumOver(f, R \cup {j}) = SumOver(f, R) + f[j]
  BY <1>1, <1>2, <1>3, SumOverAdd
<1>5. SumOver(g, R \cup {j}) = SumOver(g, R) + g[j]
  BY <1>1, <1>2, <1>3, SumOverAdd
<1>6. SumOver(g, R) = SumOver(f, R)
  BY <1>1, <1>2, SumOverAgree
<1>7. SumOver(f, R) \in Int
  BY <1>1, <1>2, SumOverInt
<1>8. SumOver(g, S) = SumOver(f, R) + (f[j] + n)
  BY <1>1, <1>3, <1>5, <1>6, Zenon
<1>9. SumOver(f, R) + (f[j] + n) = (SumOver(f, R) + f[j]) + n
  BY <1>3, <1>7, AddGroups, Zenon
<1> QED
  BY <1>1, <1>4, <1>8, <1>9, Zenon

\* The elements of S that k takes to i.
Fibre(S, k, i) == {x \in S : k[x] = i}

\* A sum is shared out among the values that a function takes.
LEMMA SumOverFibres ==
    ASSUME NEW S, IsFiniteSet(S), NEW f, \A x \in S : f[x] \in Int,
           NEW I, IsFiniteSet(I), NEW k, \A x \in S : k[x] \in I,
           NEW g, \A i \in I : g[i] = SumOver(f, Fibre(S, k, i))
    PROVE  SumOver(g, I) = SumOver(f, S)
<1> DEFINE by(s) == [i \in I |-> SumOver(f, Fibre(s, k, i))]
           Good == {s \in SUBSET S : SumOver(by(s), I) = SumOver(f, s)}
<1>0. ASSUME NEW s \in SUBSET S, NEW i \in I
      PROVE  /\ IsFiniteSet(s) /\ IsFiniteSet(Fibre(s, k, i))
             /\ by(s)[i] = SumOver(f, Fibre(s, k, i)) /\ by(s)[i] \in Int
  <2>1. IsFiniteSet(s) /\ IsFiniteSet(Fibre(s, k, i)) /\ Fibre(s, k, i) \subseteq S
    BY FS_Subset DEF Fibre
  <2>2. \A x \in Fibre(s, k, i) : f[x] \in Int
    BY <2>1
  <2>3. SumOver(f, Fibre(s, k, i)) \in Int
    BY <2>1, <2>2, SumOverInt
  <2> QED
    BY <2>1, <2>3
<1>1. {} \in Good
  <2>1. \A i \in I : by({})[i] = 0
    <3> SUFFICES ASSUME NEW i \in I PROVE by({})[i] = 0
      OBVIOUS
    <3>1. Fibre({}, k, i) = {}
      BY DEF Fibre
    <3> QED
      BY <3>1, SumOverEmpty
  <2>2. SumOver(f, {}) = 0
    BY SumOverEmpty
  <2>3. SumOver(by({}), I) = 0
    <3> HIDE DEF by
    <3> QED
      BY <2>1, SumOverZero
  <2> QED
    BY <2>2, <2>3
<1>2. ASSUME NEW s \in SUBSET S, s \in Good, NEW x \in S \ s PROVE s \cup {x} \in Good
  <2> DEFINE t == s \cup {x}
             j == k[x]
  <2>1. j \in I /\ f[x] \in Int /\ x \notin s /\ t \in SUBSET S
    OBVIOUS
  <2>2. SumOver(f, t) = SumOver(f, s) + f[x]
    <3>1. IsFiniteSet(s) /\ \A y \in s \cup {x} : f[y] \in Int
      BY FS_Subset
    <3> QED
      BY <2>1, <3>1, SumOverAdd
  <2>3. \A i \in I \ {j} : by(t)[i] = by(s)[i]
    <3> SUFFICES ASSUME NEW i \in I \ {j} PROVE by(t)[i] = by(s)[i]
      OBVIOUS
    <3>1. Fibre(t, k, i) = Fibre(s, k, i)
      BY DEF Fibre
    <3> QED
      BY <3>1
  <2>4. by(t)[j] = by(s)[j] + f[x]
    <3>1. Fibre(t, k, j) = Fibre(s, k, j) \cup {x} /\ x \notin Fibre(s, k, j)
      BY DEF Fibre
    <3>2. IsFiniteSet(Fibre(s, k, j)) /\ Fibre(s, k, j) \subseteq s
      BY <1>0, <2>1 DEF Fibre
    <3>3. \A y \in Fibre(s, k, j) \cup {x} : f[y] \in Int
      BY <3>2
    <3>4. SumOver(f, Fibre(s, k, j) \cup {x}) = SumOver(f, Fibre(s, k, j)) + f[x]
      BY <3>1, <3>2, <3>3, SumOverAdd
    <3> QED
      BY <2>1, <3>1, <3>4
  <2>5. \A i \in I : by(s)[i] \in Int
    BY <1>0
  <2>6. SumOver(by(t), I) = SumOver(by(s), I) + f[x]
    <3> DEFINE p == by(t)
               q == by(s)
               n == f[x]
    <3>1. \A i \in I \ {j} : p[i] = q[i]
      BY <2>3
    <3>2. p[j] = q[j] + n /\ n \in Int /\ j \in I
      BY <2>1, <2>4
    <3>3. \A i \in I : q[i] \in Int
      BY <2>5
    <3> HIDE DEF p, q, n, j
    <3>4. SumOver(p, I) = SumOver(q, I) + n
      BY <3>1, <3>2, <3>3, SumOverRaise
    <3> QED
      BY <3>4 DEF p, q, n
  <2>7. SumOver(by(s), I) = SumOver(f, s)
    BY <1>2
  <2> HIDE DEF by
  <2> QED
    BY <2>1, <2>2, <2>6, <2>7
<1>3. S \in Good
  <2> HIDE DEF Good
  <2> QED
    BY <1>1, <1>2, SubsetsFromEmpty
<1>4. SumOver(by(S), I) = SumOver(f, S)
  BY <1>3
<1>5. SumOver(g, I) = SumOver(by(S), I)
  <2>1. \A i \in I : g[i] = by(S)[i]
    OBVIOUS
  <2> HIDE DEF by
  <2> QED
    BY <2>1, SumOverAgree
<1> QED
  BY <1>4, <1>5

\* To count is to add ones.
LEMMA CardinalitySums ==
    ASSUME NEW S, IsFiniteSet(S), NEW one, \A x \in S : one[x] = 1
    PROVE  SumOver(one, S) = Cardinality(S)
<1> DEFINE Good == {s \in SUBSET S : SumOver(one, s) = Cardinality(s)}
<1>1. {} \in Good
  <2>1. SumOver(one, {}) = 0 /\ Cardinality({}) = 0
    BY SumOverEmpty, FS_EmptySet
  <2> QED
    BY <2>1
<1>2. ASSUME NEW s \in SUBSET S, s \in Good, NEW x \in S \ s PROVE s \cup {x} \in Good
  <2>0. IsFiniteSet(s) /\ x \notin s
    BY FS_Subset
  <2>1. SumOver(one, s) = Cardinality(s)
    BY <1>2
  <2>2. \A y \in s \cup {x} : one[y] = 1
    OBVIOUS
  <2>3. SumOver(one, s \cup {x}) = SumOver(one, s) + one[x]
    <3>1. \A y \in s \cup {x} : one[y] \in Int
      BY <2>2
    <3> QED
      BY <2>0, <3>1, SumOverAdd
  <2>4. Cardinality(s \cup {x}) = Cardinality(s) + 1
    BY <2>0, FS_AddElement
  <2> QED
    BY <2>1, <2>2, <2>3, <2>4
<1>3. S \in Good
  <2> HIDE DEF Good
  <2> QED
    BY <1>1, <1>2, SubsetsFromEmpty
<1> QED
  BY <1>3

\* A set is counted by the values that a function takes.
LEMMA CardinalityFibres ==
    ASSUME NEW S, IsFiniteSet(S), NEW I, IsFiniteSet(I), NEW k, \A x \in S : k[x] \in I,
           NEW g, \A i \in I : g[i] = Cardinality(Fibre(S, k, i))
    PROVE  SumOver(g, I) = Cardinality(S)
<1> DEFINE one == [x \in S |-> 1]
<1>1. \A x \in S : one[x] = 1 /\ one[x] \in Int
  OBVIOUS
<1> HIDE DEF one
<1>2. \A i \in I : g[i] = SumOver(one, Fibre(S, k, i))
  <2> SUFFICES ASSUME NEW i \in I PROVE g[i] = SumOver(one, Fibre(S, k, i))
    OBVIOUS
  <2>1. IsFiniteSet(Fibre(S, k, i)) /\ Fibre(S, k, i) \subseteq S
    BY FS_Subset DEF Fibre
  <2>2. \A x \in Fibre(S, k, i) : one[x] = 1
    BY <1>1, <2>1
  <2> QED
    BY <2>1, <2>2, CardinalitySums
<1>3. SumOver(g, I) = SumOver(one, S)
  BY <1>1, <1>2, SumOverFibres
<1>4. SumOver(one, S) = Cardinality(S)
  BY <1>1, CardinalitySums
<1> QED
  BY <1>3, <1>4

\* A sum over part of a set is one over the set of what is zero elsewhere.
LEMMA SumOverWithin ==
    ASSUME NEW S, IsFiniteSet(S), NEW R, R \subseteq S, NEW f, NEW g,
           \A x \in R : f[x] \in Int /\ g[x] = f[x], \A x \in S \ R : g[x] = 0
    PROVE  SumOver(g, S) = SumOver(f, R)
<1>1. IsFiniteSet(R) /\ IsFiniteSet(S \ R)
  BY FS_Subset
<1>2. \A x \in S : g[x] \in Int
  <2> SUFFICES ASSUME NEW x \in S PROVE g[x] \in Int
    OBVIOUS
  <2>1. CASE x \in R
    BY <2>1
  <2>2. CASE x \notin R
    <3>1. g[x] = 0
      BY <2>2
    <3> QED
      BY <3>1
  <2> QED
    BY <2>1, <2>2
<1>3. SumOver(g, S) = SumOver(g, R) + SumOver(g, S \ R)
  BY <1>2, SumOverParts
<1>4. SumOver(g, S \ R) = 0
  BY <1>1, SumOverZero
<1>5. SumOver(g, R) = SumOver(f, R)
  BY <1>1, SumOverAgree
<1>6. SumOver(f, R) \in Int
  BY <1>1, SumOverInt
<1> QED
  BY <1>3, <1>4, <1>5, <1>6

\* When every summand is c times as much, the sum is.
LEMMA SumOverTimes ==
    ASSUME NEW S, IsFiniteSet(S), NEW f, NEW g, NEW c \in Int,
           \A x \in S : f[x] \in Int /\ g[x] = c * f[x]
    PROVE  SumOver(g, S) = c * SumOver(f, S)
<1> DEFINE Good == {s \in SUBSET S : SumOver(g, s) = c * SumOver(f, s)}
<1>1. {} \in Good
  <2>1. SumOver(g, {}) = 0 /\ SumOver(f, {}) = 0
    BY SumOverEmpty
  <2> QED
    BY <2>1
<1>2. ASSUME NEW s \in SUBSET S, s \in Good, NEW x \in S \ s PROVE s \cup {x} \in Good
  <2>0. IsFiniteSet(s) /\ x \notin s
    BY FS_Subset
  <2>1. SumOver(g, s) = c * SumOver(f, s)
    BY <1>2
  <2>2. \A y \in s \cup {x} : f[y] \in Int /\ g[y] \in Int
    <3> SUFFICES ASSUME NEW y \in s \cup {x} PROVE f[y] \in Int /\ g[y] \in Int
      OBVIOUS
    <3>1. f[y] \in Int /\ g[y] = c * f[y]
      OBVIOUS
    <3> QED
      BY <3>1
  <2>3. SumOver(f, s \cup {x}) = SumOver(f, s) + f[x]
    BY <2>0, <2>2, SumOverAdd
  <2>4. SumOver(g, s \cup {x}) = SumOver(g, s) + g[x]
    BY <2>0, <2>2, SumOverAdd
  <2>5. g[x] = c * f[x] /\ f[x] \in Int
    OBVIOUS
  <2>6. SumOver(f, s) \in Int
    <3>1. \A y \in s : f[y] \in Int
      OBVIOUS
    <3> QED
      BY <2>0, <3>1, SumOverInt
  <2>7. c * (SumOver(f, s) + f[x]) = c * SumOver(f, s) + c * f[x]
    BY <2>5, <2>6
  <2>8. SumOver(g, s \cup {x}) = c * SumOver(f, s \cup {x})
    BY <2>1, <2>3, <2>4, <2>5, <2>7
  <2> QED
    BY <2>8
<1>3. S \in Good
  <2> HIDE DEF Good
  <2> QED
    BY <1>1, <1>2, SubsetsFromEmpty
<1> QED
  BY <1>3

\* The weights of the first parts of pairs, when every one comes with as many second parts.
LEMMA SumOverRepeats ==
    ASSUME NEW J, IsFiniteSet(J), NEW S, IsFiniteSet(S), NEW k, \A x \in J : k[x] \in S,
           NEW f, \A x \in S : f[x] \in Int, NEW n \in Nat,
           \A x \in S : Cardinality(Fibre(J, k, x)) = n,
           NEW g, \A x \in J : g[x] = f[k[x]]
    PROVE  SumOver(g, J) = n * SumOver(f, S)
<1> DEFINE share == [x \in S |-> SumOver(g, Fibre(J, k, x))]
<1>1. \A x \in J : g[x] \in Int
  OBVIOUS
<1>2. SumOver(share, S) = SumOver(g, J)
  <2>1. \A x \in S : share[x] = SumOver(g, Fibre(J, k, x))
    OBVIOUS
  <2> HIDE DEF share
  <2> QED
    BY <1>1, <2>1, SumOverFibres
<1>3. \A x \in S : share[x] = n * f[x]
  <2> SUFFICES ASSUME NEW x \in S PROVE SumOver(g, Fibre(J, k, x)) = n * f[x]
    OBVIOUS
  <2> DEFINE R == Fibre(J, k, x)
             one == [y \in R |-> 1]
  <2>1. IsFiniteSet(R) /\ \A y \in R : g[y] = f[x]
    BY FS_Subset DEF Fibre
  <2>2. f[x] \in Int /\ Cardinality(R) = n
    OBVIOUS
  <2>3. \A y \in R : one[y] = 1
    OBVIOUS
  <2> HIDE DEF R, one
  <2>4. SumOver(one, R) = n
    BY <2>1, <2>2, <2>3, CardinalitySums
  <2>5. \A y \in R : one[y] \in Int /\ g[y] = f[x] * one[y]
    BY <2>1, <2>2, <2>3
  <2>6. SumOver(g, R) = f[x] * SumOver(one, R)
    BY <2>1, <2>2, <2>5, SumOverTimes
  <2>7. f[x] * n = n * f[x]
    BY <2>2
  <2> QED
    BY <2>4, <2>6, <2>7 DEF R
<1>4. \A x \in S : f[x] \in Int /\ share[x] = n * f[x]
  BY <1>3
<1> HIDE DEF share
<1>5. SumOver(share, S) = n * SumOver(f, S)
  BY <1>4, SumOverTimes
<1> QED
  BY <1>2, <1>5

-----------------------------------------------------------------------------
(* Sums over the second parts of pairs: what is summed is then a set of     *)
(* values that were read, each with the key that it was read at.            *)

PairSum(pairs)  == MapThenSumSet(LAMBDA x : x[2], pairs)
PairsOf(w, A) == {<<p, w[p]>> : p \in A}

LEMMA PairSumIs ==
    ASSUME NEW pairs, IsFiniteSet(pairs)
    PROVE  PairSum(pairs) = SumOver([x \in pairs |-> x[2]], pairs)
<1> DEFINE f == [x \in pairs |-> x[2]]
           Is(sum) == sum = [s \in SUBSET pairs |->
                        IF s = {} THEN 0
                        ELSE (CHOOSE y \in s : TRUE)[2] + sum[s \ {CHOOSE y \in s : TRUE}]]
           iter == CHOOSE sum : Is(sum)
<1>1. PairSum(pairs) = iter[pairs]
  BY DEF PairSum, MapThenSumSet, MapThenFoldSet
<1>2. ASSUME NEW sum PROVE Is(sum) <=> Sums(f, pairs, sum)
  <2>1. ASSUME NEW s \in SUBSET pairs, s # {} PROVE f[Picked(s)] = (CHOOSE y \in s : TRUE)[2]
    BY <2>1, PickedIn DEF Picked
  <2>2. \A s \in SUBSET pairs :
          NextSum(f, sum, s) =
            IF s = {} THEN 0
            ELSE (CHOOSE y \in s : TRUE)[2] + sum[s \ {CHOOSE y \in s : TRUE}]
    BY <2>1 DEF NextSum, Picked
  <2> QED
    BY <2>2 DEF Sums
<1>3. PICK sum : Sums(f, pairs, sum) /\ SumOver(f, pairs) = sum[pairs]
  BY SumOverSums
<1>4. Is(iter)
  <2>1. Is(sum)
    BY <1>2, <1>3
  <2> HIDE DEF Is
  <2> QED
    BY <2>1
<1>5. Sums(f, pairs, iter)
  BY <1>2, <1>4
<1>6. iter[pairs] = sum[pairs]
  <2> HIDE DEF iter, f
  <2>1. pairs \in SUBSET pairs /\ pairs \subseteq pairs /\ \A x \in pairs : f[x] = f[x]
    OBVIOUS
  <2>2. \A s \in SUBSET pairs : iter[s] = sum[s]
    BY <1>3, <1>5, <2>1, SumsAgree
  <2> QED
    BY <2>1, <2>2
<1> QED
  BY <1>1, <1>3, <1>6

LEMMA PairSumAdd ==
    ASSUME NEW pairs, IsFiniteSet(pairs), NEW p, NEW n \in Int, <<p, n>> \notin pairs,
           \A x \in pairs : x[2] \in Int
    PROVE  PairSum(pairs \cup {<<p, n>>}) = PairSum(pairs) + n
<1> DEFINE y == <<p, n>>
           T == pairs \cup {y}
           f == [x \in T |-> x[2]]
           g == [x \in pairs |-> x[2]]
<1>1. IsFiniteSet(T)
  BY FS_AddElement
<1>2. PairSum(T) = SumOver(f, T) /\ PairSum(pairs) = SumOver(g, pairs)
  BY <1>1, PairSumIs
<1>3. SumOver(f, pairs) = SumOver(g, pairs)
  <2>1. \A x \in pairs : f[x] = g[x]
    OBVIOUS
  <2> HIDE DEF f, g
  <2> QED
    BY <2>1, SumOverAgree
<1>4. SumOver(f, T) = SumOver(f, pairs) + f[y]
  <2>1. y \notin pairs
    OBVIOUS
  <2>2. \A x \in pairs \cup {y} : f[x] \in Int
    OBVIOUS
  <2> HIDE DEF f, y
  <2> QED
    BY <2>1, <2>2, SumOverAdd
<1>5. f[y] = n
  OBVIOUS
<1> HIDE DEF f, g, T
<1> QED
  BY <1>2, <1>3, <1>4, <1>5 DEF T

LEMMA PairSumOver ==
    ASSUME NEW A, IsFiniteSet(A), NEW w, \A p \in A : w[p] \in Int
    PROVE  PairSum(PairsOf(w, A)) = SumOver(w, A)
<1> DEFINE Bad == {B \in SUBSET A : PairSum(PairsOf(w, B)) # SumOver(w, B)}
<1>1. ASSUME Bad # {} PROVE FALSE
  <2>1. PICK B \in Bad : \A C \in SUBSET B : C # B => C \notin Bad
    <3>1. Bad \subseteq SUBSET A
      OBVIOUS
    <3> HIDE DEF Bad
    <3> QED
      BY <1>1, <3>1, LeastSubset
  <2>2. B \in SUBSET A /\ PairSum(PairsOf(w, B)) # SumOver(w, B)
    OBVIOUS
  <2>3. \A C \in SUBSET B : C # B => PairSum(PairsOf(w, C)) = SumOver(w, C)
    BY <2>1, <2>2
  <2> HIDE DEF Bad
  <2>4. CASE B = {}
    <3>1. PairsOf(w, B) = {} /\ IsFiniteSet({})
      BY <2>4, FS_EmptySet DEF PairsOf
    <3>2. PairSum({}) = SumOver([x \in {} |-> x[2]], {})
      BY <3>1, PairSumIs
    <3>3. PairSum({}) = 0
      BY <3>2, SumOverEmpty
    <3>4. SumOver(w, {}) = 0
      BY SumOverEmpty
    <3> QED
      BY <2>2, <2>4, <3>1, <3>3, <3>4
  <2>5. CASE B # {}
    <3>1. PICK p \in B : TRUE
      BY <2>5
    <3> DEFINE C == B \ {p}
    <3>2. C \in SUBSET B /\ C # B /\ p \notin C /\ B = C \cup {p} /\ p \in A
      BY <2>2
    <3>3. IsFiniteSet(C) /\ w[p] \in Int
      BY <2>2, <3>2, FS_Subset
    <3>4. PairsOf(w, B) = PairsOf(w, C) \cup {<<p, w[p]>>} /\ <<p, w[p]>> \notin PairsOf(w, C)
      BY <3>2 DEF PairsOf
    <3>5. IsFiniteSet(PairsOf(w, C))
      <4> DEFINE h == [q \in C |-> <<q, w[q]>>]
      <4>1. h \in Surjection(C, PairsOf(w, C))
        BY DEF Surjection, PairsOf
      <4> HIDE DEF h, C
      <4> QED
        BY <3>3, <4>1, FS_Surjection
    <3>6. PairSum(PairsOf(w, B)) = PairSum(PairsOf(w, C)) + w[p]
      <4>1. \A x \in PairsOf(w, C) : x[2] \in Int
        BY <2>2 DEF PairsOf
      <4> HIDE DEF C
      <4> QED
        BY <3>3, <3>4, <3>5, <4>1, PairSumAdd
    <3>7. SumOver(w, B) = SumOver(w, C) + w[p]
      <4>1. \A x \in C \cup {p} : w[x] \in Int
        BY <2>2
      <4> HIDE DEF C
      <4> QED
        BY <3>2, <3>3, <4>1, SumOverAdd
    <3>8. PairSum(PairsOf(w, C)) = SumOver(w, C)
      BY <2>3, <3>2
    <3> QED
      BY <2>2, <3>6, <3>7, <3>8
  <2> QED
    BY <2>4, <2>5
<1>2. A \in SUBSET A /\ A \notin Bad
  BY <1>1
<1> QED
  BY <1>2

=============================================================================
