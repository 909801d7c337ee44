------------------------------ MODULE NumberLemmas ------------------------------
(***************************************************************************)
(* Lemmas about the natural numbers that the proofs of several modules     *)
(* rest on: least and greatest elements, induction, and that a loop, which *)
(* the models write as a recursive function of the round, has results.     *)
(***************************************************************************)
EXTENDS Integers, FiniteSetTheorems, WellFoundedInduction, TLAPS

(* A set of numbers that is not empty has a least element.                 *)
LEMMA LeastElement ==
  ASSUME NEW T, T \subseteq Nat, T # {}
  PROVE  \E x \in T : \A y \in T : x <= y
  <1>1. PICK m \in T : TRUE
    OBVIOUS
  <1> DEFINE low == {i \in T : i <= m}
             cuts == {0 .. i : i \in low}
             S == 0 .. m
  <1>2. IsWellFoundedOn(StrictSubsetOrdering(S), FiniteSubsetsOf(S))
    BY FS_StrictSubsetOrderingWellFounded
  <1>3. cuts \subseteq FiniteSubsetsOf(S)
    <2> SUFFICES ASSUME NEW i \in low PROVE 0 .. i \in FiniteSubsetsOf(S)
      OBVIOUS
    <2>1. i \in Nat /\ m \in Nat /\ i <= m
      OBVIOUS
    <2>2. 0 .. i \subseteq S
      BY <2>1
    <2>3. IsFiniteSet(0 .. i)
      BY <2>1, FS_Interval
    <2> QED
      BY <2>2, <2>3 DEF FiniteSubsetsOf
  <1>4. cuts # {}
    OBVIOUS
  <1>5. PICK c \in cuts : \A d \in cuts : ~(<<d, c>> \in StrictSubsetOrdering(S))
    <2> HIDE DEF cuts, S
    <2> QED
      BY <1>2, <1>3, <1>4, WFMin
  <1>6. PICK x \in low : c = 0 .. x
    OBVIOUS
  <1>7. ASSUME NEW y \in T, y < x PROVE FALSE
    <2>1. y \in low /\ y \in Nat /\ x \in Nat /\ x <= m /\ m \in Nat
      BY <1>7
    <2>2. 0 .. y \subseteq 0 .. x /\ x \notin 0 .. y /\ x \in 0 .. x
      BY <2>1, <1>7
    <2>3. 0 .. y \in SUBSET S /\ 0 .. x \in SUBSET S
      BY <2>1
    <2>4. <<0 .. y, 0 .. x>> \in StrictSubsetOrdering(S)
      BY <2>2, <2>3 DEF StrictSubsetOrdering
    <2> QED
      BY <1>5, <1>6, <2>1, <2>4
  <1> QED
    BY <1>7

(* Induction, with the set of the numbers that have the property.          *)
LEMMA SetInduction ==
  ASSUME NEW S, 0 \in S, \A n \in Nat : n \in S => n + 1 \in S
  PROVE  Nat \subseteq S
  <1> DEFINE T == Nat \ S
  <1> SUFFICES ASSUME T # {} PROVE FALSE
    OBVIOUS
  <1>1. PICK x \in T : \A y \in T : x <= y
    <2> HIDE DEF T
    <2> QED
      BY LeastElement DEF T
  <1>2. x - 1 \in Nat /\ x - 1 \notin S
    BY <1>1
  <1>3. (x - 1) + 1 = x
    BY <1>1
  <1> QED
    BY <1>2, <1>3, <1>1

(* Among finitely many ranked numbers one has the greatest rank.           *)
LEMMA GreatestRank ==
  ASSUME NEW m \in Nat, NEW I, I \subseteq 0 .. m, I # {}, NEW rank \in [I -> Nat]
  PROVE  \E i \in I : \A j \in I : rank[j] <= rank[i]
  <1> DEFINE upto(n) == {i \in I : i <= n}
             S == {n \in Nat : upto(n) # {} =>
                     \E i \in upto(n) : \A j \in upto(n) : rank[j] <= rank[i]}
  <1>0. \A i \in I : i \in Nat /\ i <= m /\ rank[i] \in Nat
    OBVIOUS
  <1>1. 0 \in S
    <2>1. \A i, j \in upto(0) : i = j /\ rank[j] <= rank[i]
      BY <1>0
    <2> QED
      BY <2>1
  <1>2. ASSUME NEW n \in Nat, n \in S PROVE n + 1 \in S
    <2> SUFFICES ASSUME upto(n + 1) # {}
                 PROVE  \E i \in upto(n + 1) : \A j \in upto(n + 1) : rank[j] <= rank[i]
      OBVIOUS
    <2>1. \A i \in upto(n + 1) : i = n + 1 \/ i \in upto(n)
      BY <1>0
    <2>2. ASSUME NEW i \in upto(n) PROVE i \in upto(n + 1)
      <3>1. i \in I /\ i <= n /\ i \in Nat
        BY <1>0
      <3> QED
        BY <3>1
    <2>3. CASE n + 1 \notin I \/ upto(n) = {}
      <3>1. CASE n + 1 \notin I
        <4>1. upto(n + 1) = upto(n)
          BY <2>1, <2>2, <3>1
        <4> QED
          BY <4>1, <1>2
      <3>2. CASE upto(n) = {}
        <4>1. \A i, j \in upto(n + 1) : i = j /\ rank[j] <= rank[i]
          BY <1>0, <2>1, <3>2
        <4> QED
          BY <4>1
      <3> QED
        BY <2>3, <3>1, <3>2
    <2>4. CASE n + 1 \in I /\ upto(n) # {}
      <3>1. PICK i \in upto(n) : \A j \in upto(n) : rank[j] <= rank[i]
        BY <1>2, <2>4
      <3>2. i \in upto(n + 1) /\ n + 1 \in upto(n + 1)
        BY <2>2, <2>4, <1>0
      <3>3. \A j \in upto(n + 1) : rank[j] \in Nat
        OBVIOUS
      <3>4. CASE rank[i] <= rank[n + 1]
        <4>1. \A j \in upto(n + 1) : rank[j] <= rank[n + 1]
          BY <2>1, <3>1, <3>2, <3>3, <3>4
        <4> QED
          BY <4>1, <3>2
      <3>5. CASE ~(rank[i] <= rank[n + 1])
        <4>1. \A j \in upto(n + 1) : rank[j] <= rank[i]
          BY <2>1, <3>1, <3>2, <3>3, <3>5
        <4> QED
          BY <4>1, <3>2
      <3> QED
        BY <3>4, <3>5
    <2> QED
      BY <2>3, <2>4
  <1>3. m \in S
    <2> HIDE DEF S
    <2> QED
      BY <1>1, <1>2, SetInduction
  <1>4. upto(m) = I
    BY <1>0
  <1> QED
    BY <1>3, <1>4

(* What the rounds of a loop may do to the elements of D.                  *)
Rounds(D) == [Nat -> [D -> D]]

(* g holds the results of a loop that starts from base and takes a step    *)
(* per round.                                                              *)
Recurs(D, base, step, g) ==
  /\ g \in [Nat -> D]
  /\ g[0] = base
  /\ \A i \in Nat : g[i + 1] = step[i + 1][g[i]]

(* A loop that starts from base and takes a step per round has results.    *)
LEMMA RecursionExists ==
  ASSUME NEW D, NEW base \in D, NEW step \in Rounds(D)
  PROVE  \E g : Recurs(D, base, step, g)
  <1>0. step \in [Nat -> [D -> D]]
    BY DEF Rounds
  <1> DEFINE Run(n) == {g \in [0 .. n -> D] :
                          /\ g[0] = base
                          /\ \A i \in 0 .. n - 1 : g[i + 1] = step[i + 1][g[i]]}
             S == {n \in Nat : Run(n) # {}}
  <1>1. 0 \in S
    <2>1. [i \in 0 .. 0 |-> base] \in Run(0)
      OBVIOUS
    <2> QED
      BY <2>1
  <1>2. ASSUME NEW n \in Nat, n \in S PROVE n + 1 \in S
    <2>1. PICK g : g \in Run(n)
      BY <1>2
    <2>2. /\ g \in [0 .. n -> D] /\ g[0] = base
          /\ \A i \in 0 .. n - 1 : g[i + 1] = step[i + 1][g[i]]
      BY <2>1
    <2> DEFINE h == [i \in 0 .. n + 1 |-> IF i = n + 1 THEN step[n + 1][g[n]] ELSE g[i]]
    <2>3. step[n + 1][g[n]] \in D
      BY <1>0, <2>2
    <2>4. h \in [0 .. n + 1 -> D]
      BY <2>2, <2>3
    <2>5. ASSUME NEW i \in 0 .. n PROVE h[i + 1] = step[i + 1][h[i]]
      <3>1. CASE i = n
        BY <3>1, <2>2
      <3>2. CASE i # n
        BY <3>2, <2>2
      <3> QED
        BY <3>1, <3>2
    <2>6. h[0] = base /\ (n + 1) - 1 = n
      BY <2>2
    <2> HIDE DEF h
    <2>7. h \in Run(n + 1)
      BY <2>4, <2>5, <2>6
    <2> QED
      BY <2>7
  <1>3. Nat \subseteq S
    <2> HIDE DEF S
    <2> QED
      BY <1>1, <1>2, SetInduction
  <1>4. ASSUME NEW n \in Nat, NEW m \in Nat, n <= m, NEW g, g \in Run(n), NEW h, h \in Run(m)
        PROVE  \A i \in 0 .. n : g[i] = h[i]
    <2> DEFINE E == {i \in Nat : i <= n => g[i] = h[i]}
    <2>1. 0 \in E
      BY <1>4
    <2>2. ASSUME NEW i \in Nat, i \in E PROVE i + 1 \in E
      <3> SUFFICES ASSUME i + 1 <= n PROVE g[i + 1] = h[i + 1]
        OBVIOUS
      <3>1. g[i] = h[i]
        BY <2>2
      <3>2. i \in 0 .. n - 1 /\ i \in 0 .. m - 1
        BY <1>4
      <3> QED
        BY <3>1, <3>2, <1>4
    <2>3. Nat \subseteq E
      <3> HIDE DEF E
      <3> QED
        BY <2>1, <2>2, SetInduction
    <2> QED
      BY <2>3
  <1> DEFINE run == [n \in Nat |-> CHOOSE g : g \in Run(n)]
  <1>5. ASSUME NEW n \in Nat PROVE run[n] \in Run(n)
    <2>1. \E g : g \in Run(n)
      BY <1>3
    <2> HIDE DEF Run
    <2> QED
      BY <2>1
  <1> HIDE DEF run
  <1> DEFINE f == [n \in Nat |-> run[n][n]]
  <1>6. \A n \in Nat : run[n][n] \in D
    BY <1>5
  <1>7. run[0][0] = base
    BY <1>5
  <1>8. ASSUME NEW n \in Nat PROVE run[n + 1][n + 1] = step[n + 1][run[n][n]]
    <2>1. run[n] \in Run(n) /\ run[n + 1] \in Run(n + 1)
      BY <1>5
    <2>2. run[n + 1][n + 1] = step[n + 1][run[n + 1][n]]
      BY <2>1
    <2>3. run[n][n] = run[n + 1][n]
      <3> HIDE DEF Run
      <3> QED
        BY <1>4, <2>1
    <2> QED
      BY <2>2, <2>3
  <1>9. f \in [Nat -> D] /\ f[0] = base /\ \A i \in Nat : f[i + 1] = step[i + 1][f[i]]
    BY <1>6, <1>7, <1>8
  <1> HIDE DEF f
  <1> QED
    BY <1>9 DEF Recurs

(* f holds the results of the N rounds of a loop.                          *)
Results(D, base, step, N, f) ==
  /\ f \in [0 .. N -> D]
  /\ \A i \in 0 .. N : f[i] = IF i = 0 THEN base ELSE step[i][f[i - 1]]

(* A loop of N rounds has results.                                         *)
LEMMA LoopExists ==
  ASSUME NEW D, NEW base \in D, NEW step \in Rounds(D), NEW N \in Nat
  PROVE  \E f : Results(D, base, step, N, f)
  <1>1. PICK g \in [Nat -> D] : g[0] = base /\ \A i \in Nat : g[i + 1] = step[i + 1][g[i]]
    BY RecursionExists DEF Recurs
  <1> DEFINE f == [i \in 0 .. N |-> g[i]]
  <1>2. ASSUME NEW i \in 0 .. N
        PROVE  f[i] = IF i = 0 THEN base ELSE step[i][f[i - 1]]
    <2>1. CASE i = 0
      BY <1>1, <2>1
    <2>2. CASE i # 0
      <3>1. i - 1 \in 0 .. N /\ i - 1 \in Nat /\ (i - 1) + 1 = i
        BY <2>2
      <3> QED
        BY <1>1, <2>2, <3>1
    <2> QED
      BY <2>1, <2>2
  <1>3. f \in [0 .. N -> D]
    BY <1>1
  <1> HIDE DEF f
  <1> QED
    BY <1>2, <1>3 DEF Results
================================================================================
