----------------------------- MODULE FoldLemmas -----------------------------
(***************************************************************************)
(* Facts about finite sets, sums and powers that the proofs of the         *)
(* dashboard rest on: the sums of the overview and of a bar of the chart   *)
(* are folds, and what a fold yields follows by induction over the         *)
(* subsets of its domain.  The induction is stated with a set in the place *)
(* of a predicate.                                                         *)
(***************************************************************************)
EXTENDS Functions, FiniteSetTheorems, TLAPS

-----------------------------------------------------------------------------
(* Induction over finite sets.                                             *)

\* What holds of a subset when it holds of the smaller ones, holds of all.
LEMMA SubsetInduction ==
    ASSUME NEW S, IsFiniteSet(S), NEW G,
           \A T \in SUBSET S : (\A U \in SUBSET T : U # T => U \in G) => T \in G
    PROVE  SUBSET S \subseteq G
<1> DEFINE R == StrictSubsetOrdering(S)
           B == (SUBSET S) \ G
<1>1. IsWellFoundedOn(R, SUBSET S)
      BY FS_StrictSubsetOrderingWellFounded, FS_FiniteSubsetsOfFinite
<1>2. SUFFICES ASSUME B # {}  PROVE FALSE
      OBVIOUS
<1>3. PICK T \in B : \A U \in B : ~ (<<U, T>> \in R)
  <2>1. B \subseteq SUBSET S
        OBVIOUS
  <2> HIDE DEF R, B
  <2> QED BY <1>1, <1>2, <2>1, WFMin
<1>4. ASSUME NEW U \in SUBSET T, U # T  PROVE U \in G
  <2>1. <<U, T>> \in R
        BY <1>4 DEF R, StrictSubsetOrdering
  <2> QED BY <1>3, <2>1
<1> QED BY <1>3, <1>4

\* What holds of a number when it holds of the smaller ones, holds of all.
LEMMA NumberInduction ==
    ASSUME NEW G, \A n \in Nat : (\A k \in Nat : k < n => k \in G) => n \in G
    PROVE  Nat \subseteq G
<1> SUFFICES ASSUME NEW n \in Nat  PROVE n \in G
    OBVIOUS
<1> DEFINE S == 0 .. n
           H == {T \in SUBSET S : \A k \in Nat : T = 0 .. k => k \in G}
<1>1. ASSUME NEW T \in SUBSET S, \A U \in SUBSET T : U # T => U \in H
      PROVE  T \in H
  <2> SUFFICES ASSUME NEW k \in Nat, T = 0 .. k  PROVE k \in G
      OBVIOUS
  <2>1. ASSUME NEW j \in Nat, j < k  PROVE j \in G
    <3>1. (0 .. j) \in SUBSET T /\ k \notin 0 .. j /\ k \in T
          BY <2>1
    <3>2. (0 .. j) \in H
          BY <1>1, <3>1
    <3> QED BY <3>2
  <2> QED BY <2>1
<1>2. IsFiniteSet(S)
      BY FS_Interval
<1>3. SUBSET S \subseteq H
  <2> HIDE DEF S, H
  <2> QED BY <1>1, <1>2, SubsetInduction
<1>4. S \in H
      BY <1>3
<1> QED BY <1>4

\* A finite set of numbers that is not empty has a greatest one.
LEMMA HasGreatest ==
    ASSUME NEW S \in SUBSET Int, IsFiniteSet(S), S # {}
    PROVE  \E m \in S : \A x \in S : x <= m
<1> DEFINE G == {T \in SUBSET S : T # {} => \E m \in T : \A x \in T : x <= m}
<1>1. ASSUME NEW T \in SUBSET S, \A U \in SUBSET T : U # T => U \in G  PROVE T \in G
  <2> SUFFICES ASSUME T # {}  PROVE \E m \in T : \A x \in T : x <= m
      OBVIOUS
  <2>1. PICK y \in T : TRUE
        OBVIOUS
  <2>2. T \ {y} \in G
        BY <1>1, <2>1
  <2>3. CASE T \ {y} = {}
    <3>1. \A x \in T : x = y
          BY <2>3
    <3> QED BY <2>1, <3>1
  <2>4. CASE T \ {y} # {}
    <3>1. PICK m \in T \ {y} : \A x \in T \ {y} : x <= m
          BY <2>2, <2>4
    <3> QED BY <2>1, <3>1
  <2> QED BY <2>3, <2>4
<1>2. SUBSET S \subseteq G
  <2> HIDE DEF G
  <2> QED BY <1>1, SubsetInduction
<1> QED BY <1>2

-----------------------------------------------------------------------------
(* The sum of a function's values.                                         *)

Total(f) == FoldFunction(LAMBDA a, b : a + b, 0, f)

\* The element that is added next, and the step of the sum.
Pick(s) == CHOOSE x \in s : TRUE
SumStep(f, g, s) == IF s = {} THEN 0 ELSE f[Pick(s)] + g[s \ {Pick(s)}]

\* g adds up f over each subset of T.
AddsUp(f, g, T) ==
    g \in [SUBSET T -> Nat] /\ \A s \in SUBSET T : g[s] = SumStep(f, g, s)

LEMMA Picked == \A s : s # {} => Pick(s) \in s
    BY DEF Pick

\* Whatever obeys the step agrees with a function that adds up.
LEMMA SumsAgree ==
    ASSUME NEW f, NEW T, IsFiniteSet(T), NEW U, T \subseteq U, NEW g, AddsUp(f, g, T), NEW h,
           \A s \in SUBSET U : h[s] = SumStep(f, h, s)
    PROVE  \A s \in SUBSET T : h[s] = g[s]
<1> DEFINE G == {s \in SUBSET T : h[s] = g[s]}
<1>1. ASSUME NEW s \in SUBSET T, \A u \in SUBSET s : u # s => u \in G  PROVE s \in G
  <2>1. h[s] = SumStep(f, h, s) /\ g[s] = SumStep(f, g, s)
        BY DEF AddsUp
  <2>2. CASE s = {}
        BY <2>1, <2>2 DEF SumStep
  <2>3. CASE s # {}
    <3>1. s \ {Pick(s)} \in G
          BY <1>1, <2>3, Picked
    <3> QED BY <2>1, <2>3, <3>1 DEF SumStep
  <2> QED BY <2>2, <2>3
<1>2. SUBSET T \subseteq G
  <2> HIDE DEF G
  <2> QED BY <1>1, SubsetInduction
<1> QED BY <1>2

\* A function over a finite set can be added up.
LEMMA SumExists ==
    ASSUME NEW D, IsFiniteSet(D), NEW f \in [D -> Nat]
    PROVE  \E g : AddsUp(f, g, D)
<1> DEFINE G == {T \in SUBSET D : \E g : AddsUp(f, g, T)}
           of(s) == CHOOSE g : AddsUp(f, g, s)
<1>1. ASSUME NEW T \in SUBSET D, \A U \in SUBSET T : U # T => U \in G  PROVE T \in G
  <2> DEFINE last == IF T = {} THEN 0 ELSE f[Pick(T)] + of(T \ {Pick(T)})[T \ {Pick(T)}]
             h == [s \in SUBSET T |-> IF s = T THEN last ELSE of(s)[s]]
  <2>1. ASSUME NEW s \in SUBSET T, s # T  PROVE AddsUp(f, of(s), s)
        BY <1>1, <2>1
  <2> HIDE DEF of
  <2>2. ASSUME NEW s \in SUBSET T, s # T  PROVE of(s)[s] \in Nat
        BY <2>1, <2>2 DEF AddsUp
  <2>3. T # {} => /\ Pick(T) \in D /\ f[Pick(T)] \in Nat
                  /\ T \ {Pick(T)} \in SUBSET T /\ T \ {Pick(T)} # T
        BY Picked
  <2>4. last \in Nat
        BY <2>2, <2>3
  <2>5. h \in [SUBSET T -> Nat]
        BY <2>2, <2>4
  <2>6. ASSUME NEW s \in SUBSET T  PROVE h[s] = SumStep(f, h, s)
    <3>1. CASE s = {}
      <4>1. CASE T = {}
            BY <3>1, <4>1 DEF SumStep
      <4>2. CASE T # {}
        <5>1. h[s] = of(s)[s] /\ of(s)[s] = SumStep(f, of(s), s)
              BY <2>1, <3>1, <4>2 DEF AddsUp
        <5> QED BY <3>1, <5>1 DEF SumStep
      <4> QED BY <4>1, <4>2
    <3>2. CASE s # {}
      <4> DEFINE u == s \ {Pick(s)}
      <4>1. u \in SUBSET s /\ u # s /\ u \in SUBSET T /\ u # T
            BY <3>2, Picked
      <4>2. h[u] = of(u)[u]
            BY <4>1
      <4>3. SumStep(f, h, s) = f[Pick(s)] + of(u)[u]
            BY <3>2, <4>2 DEF SumStep
      <4>4. CASE s = T
            BY <3>2, <4>3, <4>4
      <4>5. CASE s # T
        <5>1. /\ AddsUp(f, of(s), s) /\ AddsUp(f, of(u), u) /\ h[s] = of(s)[s]
              BY <2>1, <4>1, <4>5
        <5>2. IsFiniteSet(u)
              BY <4>1, FS_Subset
        <5>3. of(s)[u] = of(u)[u]
          <6> HIDE DEF u
          <6>1. \A v \in SUBSET s : of(s)[v] = SumStep(f, of(s), v)
                BY <5>1 DEF AddsUp
          <6>2. \A v \in SUBSET u : of(s)[v] = of(u)[v]
                BY <4>1, <5>1, <5>2, <6>1, SumsAgree
          <6> QED BY <6>2
        <5>4. of(s)[s] = f[Pick(s)] + of(s)[u]
              BY <3>2, <5>1 DEF AddsUp, SumStep
        <5> QED BY <4>3, <5>1, <5>3, <5>4
      <4> QED BY <4>4, <4>5
    <3> QED BY <3>1, <3>2
  <2>7. AddsUp(f, h, T)
        BY <2>5, <2>6 DEF AddsUp
  <2> QED BY <2>7
<1>2. SUBSET D \subseteq G
  <2> HIDE DEF G
  <2> QED BY <1>1, SubsetInduction
<1> QED BY <1>2

\* The fold is the sum.
LEMMA TotalAddsUp ==
    ASSUME NEW D, IsFiniteSet(D), NEW f \in [D -> Nat]
    PROVE  \E g : AddsUp(f, g, D) /\ Total(f) = g[D]
<1> DEFINE iter == CHOOSE g : g = [s \in SUBSET D |-> SumStep(f, g, s)]
<1>1. Total(f) = iter[D]
  <2>1. DOMAIN f = D
        OBVIOUS
  <2> QED BY <2>1 DEF Total, FoldFunction, FoldFunctionOnSet, MapThenFoldSet, SumStep, Pick
<1>2. PICK g : AddsUp(f, g, D)
      BY SumExists
<1>3. g = [s \in SUBSET D |-> SumStep(f, g, s)]
      BY <1>2 DEF AddsUp
<1>4. iter = [s \in SUBSET D |-> SumStep(f, iter, s)]
      BY <1>3
<1> HIDE DEF iter
<1>5. \A s \in SUBSET D : iter[s] = SumStep(f, iter, s)
      BY <1>4
<1>6. iter[D] = g[D]
      BY <1>2, <1>5, SumsAgree
<1> QED BY <1>1, <1>2, <1>6

\* A sum of naturals is one.
LEMMA TotalIsNat ==
    ASSUME NEW D, IsFiniteSet(D), NEW f \in [D -> Nat]
    PROVE  Total(f) \in Nat
<1>1. PICK g : AddsUp(f, g, D) /\ Total(f) = g[D]
      BY TotalAddsUp
<1> QED BY <1>1 DEF AddsUp

\* Numbers that are at most the sizes of disjoint sets add up to at most the
\* size of what the sets have together.
LEMMA TotalWithinUnion ==
    ASSUME NEW D, IsFiniteSet(D), NEW f \in [D -> Nat],
           NEW K, IsFiniteSet(K), NEW M \in [D -> SUBSET K],
           \A x, y \in D : x # y => M[x] \cap M[y] = {},
           \A x \in D : f[x] <= Cardinality(M[x])
    PROVE  Total(f) <= Cardinality(UNION {M[x] : x \in D})
<1> DEFINE all(s) == UNION {M[x] : x \in s}
<1>1. PICK g : AddsUp(f, g, D) /\ Total(f) = g[D]
      BY TotalAddsUp
<1> DEFINE G == {s \in SUBSET D : g[s] <= Cardinality(all(s))}
<1>2. ASSUME NEW s \in SUBSET D, \A u \in SUBSET s : u # s => u \in G  PROVE s \in G
  <2>1. CASE s = {}
    <3>1. g[s] = 0 /\ all(s) = {}
          BY <1>1, <2>1 DEF AddsUp, SumStep
    <3> QED BY <3>1, FS_EmptySet
  <2>2. CASE s # {}
    <3> DEFINE x == Pick(s)
               u == s \ {x}
    <3>1. x \in s /\ u \in SUBSET s /\ u # s /\ x \notin u /\ s = u \cup {x} /\ u \in SUBSET D
          BY <2>2, Picked
    <3>2. g[s] = f[x] + g[u]
          BY <1>1, <2>2 DEF AddsUp, SumStep
    <3> HIDE DEF x, u
    <3>3. /\ g[u] <= Cardinality(all(u)) /\ f[x] <= Cardinality(M[x])
          /\ g[u] \in Nat /\ f[x] \in Nat
          BY <1>1, <1>2, <3>1 DEF AddsUp
    <3>4. /\ all(s) = M[x] \cup all(u) /\ M[x] \cap all(u) = {}
          /\ M[x] \in SUBSET K /\ all(u) \in SUBSET K
          BY <3>1
    <3>5. /\ IsFiniteSet(M[x]) /\ Cardinality(M[x]) \in Nat
          /\ IsFiniteSet(all(u)) /\ Cardinality(all(u)) \in Nat
          BY <3>4, FS_Subset, FS_CardinalityType
    <3> HIDE DEF all
    <3>6. Cardinality(all(s)) = Cardinality(M[x]) + Cardinality(all(u))
          BY <3>4, <3>5, FS_Union, FS_EmptySet
    <3> QED BY <3>2, <3>3, <3>5, <3>6
  <2> QED BY <2>1, <2>2
<1>3. SUBSET D \subseteq G
  <2> HIDE DEF G
  <2> QED BY <1>2, SubsetInduction
<1> QED BY <1>1, <1>3

=============================================================================
