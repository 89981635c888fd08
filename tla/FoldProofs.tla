------------------------------- MODULE FoldProofs ------------------------------
(***************************************************************************)
(* Induction over numbers and over folds, in the form that the provers can *)
(* use: the set of the numbers with a property instead of the property,    *)
(* and a step of a fold as a function instead of an operator.              *)
(***************************************************************************)
EXTENDS Integers, Sequences, FiniteSets, SequencesExt, WellFoundedInduction,
        FiniteSetTheorems, TLAPS

--------------------------------------------------------------------------------
\* What holds of zero and of the successor of each number it holds of, holds
\* of all.
LEMMA NatSetInduction ==
  ASSUME NEW S, 0 \in S, \A n \in Nat : n \in S => n + 1 \in S
  PROVE  \A n \in Nat : n \in S
  <1> DEFINE R == {ss \in Nat \X Nat : ss[1] < ss[2]}
             T == Nat \ S
  <1>1. IsWellFoundedOn(R, Nat)
    BY NatLessThanWellFounded, Zenon DEF OpToRel
  <1>2. SUFFICES ASSUME T # {} PROVE FALSE
    BY Zenon
  <1>3. T \subseteq Nat
    OBVIOUS
  <1> HIDE DEF R, T
  <1>4. PICK x \in T : \A y \in T : ~ (<<y, x>> \in R)
    BY <1>1, <1>2, <1>3, WFMin
  <1>5. x \in Nat /\ x # 0 /\ x - 1 \in Nat
    BY <1>4 DEF T
  <1>6. <<x - 1, x>> \in R
    BY <1>5 DEF R
  <1>7. x - 1 \in S
    BY <1>4, <1>5, <1>6 DEF T
  <1>8. x \in S
    BY <1>5, <1>7
  <1> QED
    BY <1>4, <1>8 DEF T

\* The greatest of the numbers from 1 to k, and of some of them with the last.
LEMMA MaxOfInterval ==
  ASSUME NEW k \in Nat, NEW s \in SUBSET (1 .. k + 1), k + 1 \in s
  PROVE  Max(s) = k + 1
  <1>1. \A y \in s : k + 1 >= y
    OBVIOUS
  <1>2. \A x \in s : (\A y \in s : x >= y) => x = k + 1
    BY <1>1
  <1> QED
    BY <1>1, <1>2 DEF Max

\* Some numbers up to n have a greatest one.
LEMMA GreatestOfSome ==
  ASSUME NEW n \in Nat, NEW s \in SUBSET (1 .. n), s # {}
  PROVE  Max(s) \in s
  <1> DEFINE T == {k \in Nat : n - k \in s}
             R == {ss \in Nat \X Nat : ss[1] < ss[2]}
  <1>1. IsWellFoundedOn(R, Nat)
    BY NatLessThanWellFounded, Zenon DEF OpToRel
  <1>2. \A x \in s : n - x \in T /\ x \in Nat
    OBVIOUS
  <1>3. T # {} /\ T \subseteq Nat
    BY <1>2
  <1> HIDE DEF R, T
  <1>4. PICK k \in T : \A y \in T : ~ (<<y, k>> \in R)
    BY <1>1, <1>3, WFMin
  <1>5. k \in Nat /\ n - k \in s
    BY <1>4 DEF T
  <1>6. \A x \in s : n - k >= x
    <2> SUFFICES ASSUME NEW x \in s PROVE n - k >= x
      OBVIOUS
    <2>1. n - x \in Nat /\ ~ (<<n - x, k>> \in R)
      BY <1>2, <1>3, <1>4
    <2>2. ~ (n - x < k)
      BY <1>5, <2>1 DEF R
    <2> QED
      BY <1>2, <1>5, <2>2
  <1> QED
    BY <1>5, <1>6 DEF Max

\* The recursion that MapThenFoldSet defines has a solution: every set of
\* indices is folded from its least element to its greatest.
FoldOf(g, b, n, f) ==
  g = [s \in SUBSET (1 .. n) |-> IF s = {} THEN b ELSE f[<<g[s \ {Max(s)}], Max(s)>>]]

LEMMA FoldExists ==
  ASSUME NEW S, NEW b \in S, NEW N \in Nat, NEW f \in [S \X (1 .. N) -> S]
  PROVE  \E g \in [SUBSET (1 .. N) -> S] : FoldOf(g, b, N, f)
  <1> DEFINE Has(n) == n <= N => \E g \in [SUBSET (1 .. n) -> S] : FoldOf(g, b, n, f)
  <1>1. Has(0)
    <2> DEFINE g == [s \in SUBSET (1 .. 0) |-> b]
    <2>1. g \in [SUBSET (1 .. 0) -> S] /\ \A s \in SUBSET (1 .. 0) : s = {}
      OBVIOUS
    <2>2. FoldOf(g, b, 0, f)
      BY <2>1 DEF FoldOf
    <2> QED
      BY <2>1, <2>2
  <1>2. ASSUME NEW n \in Nat, Has(n) PROVE Has(n + 1)
    <2> SUFFICES ASSUME n + 1 <= N
                 PROVE  \E g \in [SUBSET (1 .. n + 1) -> S] : FoldOf(g, b, n + 1, f)
      OBVIOUS
    <2>0. n <= N
      OBVIOUS
    <2>1. PICK g \in [SUBSET (1 .. n) -> S] : FoldOf(g, b, n, f)
      BY <1>2, <2>0
    <2> DEFINE h == [s \in SUBSET (1 .. n + 1) |->
                       IF n + 1 \in s THEN f[<<g[s \ {n + 1}], n + 1>>] ELSE g[s]]
    <2>2. \A s \in SUBSET (1 .. n + 1) : s \ {n + 1} \in SUBSET (1 .. n)
      OBVIOUS
    <2>3. \A s \in SUBSET (1 .. n + 1) : n + 1 \notin s => s \in SUBSET (1 .. n)
      OBVIOUS
    <2>4. n + 1 \in 1 .. N
      OBVIOUS
    <2>5. h \in [SUBSET (1 .. n + 1) -> S]
      <3> SUFFICES ASSUME NEW s \in SUBSET (1 .. n + 1)
                   PROVE  (IF n + 1 \in s THEN f[<<g[s \ {n + 1}], n + 1>>] ELSE g[s]) \in S
        OBVIOUS
      <3>1. CASE n + 1 \in s
        <4>1. g[s \ {n + 1}] \in S
          BY <2>1, <2>2
        <4>2. <<g[s \ {n + 1}], n + 1>> \in S \X (1 .. N)
          BY <4>1, <2>4
        <4> QED
          BY <3>1, <4>2
      <3>2. CASE n + 1 \notin s
        BY <2>1, <2>3, <3>2
      <3> QED
        BY <3>1, <3>2
    <2>6. ASSUME NEW s \in SUBSET (1 .. n + 1)
          PROVE  h[s] = IF s = {} THEN b ELSE f[<<h[s \ {Max(s)}], Max(s)>>]
      <3>1. CASE n + 1 \in s
        <4>1. Max(s) = n + 1
          BY <3>1, MaxOfInterval
        <4>2. s # {} /\ h[s] = f[<<g[s \ {n + 1}], n + 1>>]
          BY <3>1
        <4>3. s \ {n + 1} \in SUBSET (1 .. n + 1) /\ n + 1 \notin s \ {n + 1}
          OBVIOUS
        <4>4. h[s \ {n + 1}] = g[s \ {n + 1}]
          BY <4>3
        <4> QED
          BY <4>1, <4>2, <4>4
      <3>2. CASE n + 1 \notin s
        <4>1. s \in SUBSET (1 .. n) /\ h[s] = g[s]
          BY <2>3, <3>2
        <4>2. g[s] = IF s = {} THEN b ELSE f[<<g[s \ {Max(s)}], Max(s)>>]
          BY <2>1, <4>1 DEF FoldOf
        <4>3. s \ {Max(s)} \in SUBSET (1 .. n + 1) /\ n + 1 \notin s \ {Max(s)}
          BY <3>2
        <4>4. h[s \ {Max(s)}] = g[s \ {Max(s)}]
          BY <4>3
        <4> QED
          BY <4>1, <4>2, <4>4
      <3> QED
        BY <3>1, <3>2
    <2>7. FoldOf(h, b, n + 1, f)
      <3> HIDE DEF h
      <3>1. h = [s \in SUBSET (1 .. n + 1) |-> h[s]]
        BY <2>5
      <3> QED
        BY <2>6, <3>1 DEF FoldOf
    <2> HIDE DEF h
    <2> QED
      BY <2>5, <2>7
  <1> DEFINE Solved == {n \in Nat : Has(n)}
  <1> HIDE DEF Has
  <1>3. 0 \in Solved /\ \A n \in Nat : n \in Solved => n + 1 \in Solved
    BY <1>1, <1>2
  <1>4. N \in Solved
    <2> HIDE DEF Solved
    <2> QED
      BY <1>3, NatSetInduction
  <1>5. Has(N) /\ N <= N
    BY <1>4
  <1> QED
    BY <1>5 DEF Has

\* The sets of indices that a fold of a sequence goes through.
LEMMA InitialIndices ==
  /\ 1 .. 0 = {}
  /\ \A n \in Nat : \A k \in 1 .. n :
       /\ 1 .. k \in SUBSET (1 .. n) /\ 1 .. k # {} /\ Max(1 .. k) = k
       /\ (1 .. k) \ {k} = 1 .. (k - 1) /\ k - 1 \in 0 .. n
  <1>1. ASSUME NEW n \in Nat, NEW k \in 1 .. n PROVE Max(1 .. k) = k
    <2>1. k - 1 \in Nat /\ (k - 1) + 1 = k
      OBVIOUS
    <2>2. 1 .. k \in SUBSET (1 .. (k - 1) + 1) /\ (k - 1) + 1 \in 1 .. k
      OBVIOUS
    <2> QED
      BY <2>1, <2>2, MaxOfInterval
  <1>2. ASSUME NEW n \in Nat, NEW k \in 1 .. n
        PROVE  /\ 1 .. k \in SUBSET (1 .. n) /\ 1 .. k # {}
               /\ (1 .. k) \ {k} = 1 .. (k - 1) /\ k - 1 \in 0 .. n
    OBVIOUS
  <1> QED
    BY <1>1, <1>2
================================================================================
