---------------------------- MODULE SchedAlgProofs ----------------------------
(***************************************************************************)
(* Proofs about the tests of sched_alg.cc: the iteration of the response   *)
(* time analysis finds a deadline met exactly when time-demand analysis    *)
(* does; RTA refuses nothing that fits; and what the sufficient test       *)
(* accepts fits, unless it has summed up utilizations beyond 1.            *)
(***************************************************************************)
EXTENDS SchedAlg, NumberLemmas, SequenceTheorems

\* The numbers of a task.
Timed(t) ==
  /\ t.wcet \in Nat
  /\ t.inter_arrival \in Nat \ {0}
  /\ t.deadline \in Nat
  /\ t.prio \in Int

-----------------------------------------------------------------------------
(* Rounding up                                                             *)

(* Multiplying keeps the order.                                            *)
LEMMA ProductGrows ==
  ASSUME NEW b \in Nat, NEW p \in Int, NEW q \in Int, p <= q
  PROVE  b * p <= b * q
  BY Z3

LEMMA ProductInt ==
  ASSUME NEW p \in Int, NEW q \in Int
  PROVE  p * q \in Int
  BY Z3

(* The quotient and its remainder.                                         *)
LEMMA Division ==
  ASSUME NEW x \in Nat, NEW b \in Nat \ {0}
  PROVE  x \div b \in Nat /\ b * (x \div b) <= x /\ x < b * (x \div b) + b
  BY Z3

LEMMA QuotientGrows ==
  ASSUME NEW x \in Nat, NEW y \in Nat, x <= y, NEW b \in Nat \ {0}
  PROVE  x \div b <= y \div b
  <1> DEFINE p == x \div b
             q == y \div b
  <1>1. /\ p \in Nat /\ b * p <= x
        /\ q \in Nat /\ y < b * q + b
    BY Division
  <1> HIDE DEF p, q
  <1> SUFFICES ASSUME q < p PROVE FALSE
    BY <1>1 DEF p, q
  <1>2. q + 1 <= p /\ q + 1 \in Int
    BY <1>1
  <1>3. b * (q + 1) <= b * p
    BY <1>1, <1>2, ProductGrows
  <1>4. b * (q + 1) = b * q + b
    BY <1>1, Z3
  <1>5. b * q \in Int /\ b * p \in Int
    BY <1>1, Z3
  <1> HIDE DEF p, q
  <1> QED
    BY <1>1, <1>3, <1>4, <1>5

LEMMA CeilingGrows ==
  ASSUME NEW r \in Nat, NEW s \in Nat, r <= s, NEW b \in Nat \ {0}
  PROVE  /\ Ceiling(r, b) \in Nat
         /\ Ceiling(s, b) \in Nat
         /\ Ceiling(r, b) <= Ceiling(s, b)
  <1>1. r + b - 1 \in Nat /\ s + b - 1 \in Nat /\ r + b - 1 <= s + b - 1
    OBVIOUS
  <1> QED
    BY <1>1, Division, QuotientGrows DEF Ceiling

-----------------------------------------------------------------------------
(* The processor time asked for                                            *)

\* What the jobs of o take in r ticks.
Load(o, r) == Ceiling(r, o.inter_arrival) * o.wcet

LEMMA LoadGrows ==
  ASSUME NEW o, Timed(o), NEW r \in Nat, NEW s \in Nat, r <= s
  PROVE  Load(o, r) \in Nat /\ Load(o, s) \in Nat /\ Load(o, r) <= Load(o, s)
  <1> DEFINE p == Ceiling(r, o.inter_arrival)
             q == Ceiling(s, o.inter_arrival)
             w == o.wcet
  <1>1. p \in Nat /\ q \in Nat /\ p <= q /\ w \in Nat
    BY CeilingGrows DEF Timed
  <1> HIDE DEF p, q, w
  <1>2. w * p <= w * q
    BY <1>1, ProductGrows
  <1>3. p * w = w * p /\ q * w = w * q /\ p * w \in Nat /\ q * w \in Nat
    BY <1>1, Z3
  <1>4. Load(o, r) = p * w /\ Load(o, s) = q * w
    BY DEF Load, p, q, w
  <1> QED
    BY <1>2, <1>3, <1>4

\* f holds the sums of the loop over others.
Sums(t, others, r, f) ==
  /\ f \in [0 .. Len(others) -> Nat]
  /\ f[0] = t.wcet
  /\ \A i \in 1 .. Len(others) : f[i] = f[i - 1] + Load(others[i], r)

(* The loop over the others adds them up, and its result is the demand.    *)
LEMMA DemandSums ==
  ASSUME NEW X, \A x \in X : Timed(x), NEW others \in Seq(X), NEW t, Timed(t), NEW r \in Nat
  PROVE  \E f : Sums(t, others, r, f) /\ Demand(t, others, r) = f[Len(others)]
  <1> DEFINE L == Len(others)
             next(i, s) == s + Ceiling(r, others[i].inter_arrival) * others[i].wcet
             step == [i \in Nat |-> [s \in Nat |-> IF i \in 1 .. L THEN next(i, s) ELSE s]]
             Loop(f) == f = [i \in 0 .. L |-> IF i = 0 THEN t.wcet ELSE next(i, f[i - 1])]
             sum == CHOOSE f : Loop(f)
  <1>1. L \in Nat /\ t.wcet \in Nat /\ \A i \in 1 .. L : Timed(others[i])
    BY DEF Timed
  <1>2. \A s \in Nat, i \in 1 .. L : next(i, s) = s + Load(others[i], r) /\ next(i, s) \in Nat
    <2> SUFFICES ASSUME NEW s \in Nat, NEW i \in 1 .. L
                 PROVE  next(i, s) = s + Load(others[i], r) /\ next(i, s) \in Nat
      OBVIOUS
    <2>1. next(i, s) = s + Load(others[i], r)
      BY DEF Load
    <2>2. Load(others[i], r) \in Nat
      <3>1. Timed(others[i]) /\ r <= r
        BY <1>1
      <3> QED
        BY <3>1, LoadGrows
    <2> QED
      BY <2>1, <2>2
  <1>3. step \in Rounds(Nat)
    <2> HIDE DEF L, next
    <2> QED
      BY <1>2 DEF Rounds
  <1>4. PICK f \in [0 .. L -> Nat] :
          \A i \in 0 .. L : f[i] = IF i = 0 THEN t.wcet ELSE step[i][f[i - 1]]
    <2> DEFINE base == t.wcet
               D == Nat
    <2>1. base \in D /\ step \in Rounds(D) /\ L \in Nat
      BY <1>1, <1>3
    <2> HIDE DEF L, step, base, D
    <2>2. \E f : Results(D, base, step, L, f)
      BY <2>1, LoopExists
    <2> QED
      BY <2>2 DEF base, D, Results
  <1>5. Loop(f)
    <2> HIDE DEF next
    <2>1. ASSUME NEW i \in 0 .. L, i # 0 PROVE step[i][f[i - 1]] = next(i, f[i - 1])
      <3>1. i \in 1 .. L /\ i \in Nat /\ i - 1 \in 0 .. L
        BY <1>1, <2>1
      <3>2. f[i - 1] \in Nat
        BY <3>1
      <3> QED
        BY <3>1, <3>2
    <2> HIDE DEF step
    <2>2. \A i \in 0 .. L : f[i] = IF i = 0 THEN t.wcet ELSE next(i, f[i - 1])
      BY <1>4, <2>1
    <2>3. f = [i \in 0 .. L |-> f[i]]
      OBVIOUS
    <2> QED
      BY <2>2, <2>3
  <1>6. Loop(sum)
    <2> HIDE DEF Loop
    <2> QED
      BY <1>5
  <1>7. Demand(t, others, r) = sum[L]
    BY DEF Demand
  <1> HIDE DEF sum, next
  <1>8. /\ DOMAIN sum = 0 .. L /\ sum = [i \in 0 .. L |-> sum[i]]
        /\ sum[0] = t.wcet
        /\ \A i \in 1 .. L : sum[i] = next(i, sum[i - 1])
    <2>1. 0 \in 0 .. L /\ \A i \in 1 .. L : i \in 0 .. L /\ i # 0
      BY <1>1
    <2> HIDE DEF L
    <2> QED
      BY <1>6, <2>1
  <1> HIDE DEF Loop
  <1> DEFINE S == {i \in Nat : i <= L => sum[i] \in Nat}
  <1>9. 0 \in S
    BY <1>1, <1>8
  <1>10. ASSUME NEW i \in Nat, i \in S PROVE i + 1 \in S
    <2> SUFFICES ASSUME i + 1 <= L PROVE sum[i + 1] \in Nat
      OBVIOUS
    <2>1. i + 1 \in 1 .. L /\ (i + 1) - 1 = i /\ i <= L
      BY <1>1
    <2>2. sum[i] \in Nat
      BY <1>10, <2>1
    <2>3. sum[i + 1] = next(i + 1, sum[i])
      BY <1>8, <2>1
    <2> QED
      BY <1>2, <2>1, <2>2, <2>3
  <1>11. Nat \subseteq S
    <2> HIDE DEF S
    <2> QED
      BY <1>9, <1>10, SetInduction
  <1>12. \A i \in 0 .. L : sum[i] \in Nat
    BY <1>1, <1>11
  <1>13. sum \in [0 .. L -> Nat]
    <2> HIDE DEF L
    <2> QED
      BY <1>8, <1>12
  <1>14. \A i \in 1 .. L : sum[i] = sum[i - 1] + Load(others[i], r)
    <2> SUFFICES ASSUME NEW i \in 1 .. L PROVE sum[i] = sum[i - 1] + Load(others[i], r)
      OBVIOUS
    <2>1. i - 1 \in 0 .. L
      BY <1>1
    <2> QED
      BY <1>2, <1>8, <1>12, <2>1
  <1> QED
    BY <1>7, <1>8, <1>13, <1>14 DEF Sums

(* The demand is at least the task's own time, and grows with the time.    *)
LEMMA DemandGrows ==
  ASSUME NEW X, \A x \in X : Timed(x), NEW others \in Seq(X), NEW t, Timed(t),
         NEW r \in Nat, NEW s \in Nat, r <= s
  PROVE  /\ Demand(t, others, r) \in Nat
         /\ Demand(t, others, s) \in Nat
         /\ Demand(t, others, r) <= Demand(t, others, s)
         /\ t.wcet <= Demand(t, others, r)
  <1> DEFINE L == Len(others)
  <1>1. PICK f : Sums(t, others, r, f) /\ Demand(t, others, r) = f[L]
    BY DemandSums
  <1>2. PICK g : Sums(t, others, s, g) /\ Demand(t, others, s) = g[L]
    BY DemandSums
  <1>3. L \in Nat /\ t.wcet \in Nat /\ \A i \in 1 .. L : Timed(others[i])
    BY DEF Timed
  <1>4. /\ f \in [0 .. L -> Nat] /\ f[0] = t.wcet
        /\ \A i \in 1 .. L : f[i] = f[i - 1] + Load(others[i], r)
        /\ g \in [0 .. L -> Nat] /\ g[0] = t.wcet
        /\ \A i \in 1 .. L : g[i] = g[i - 1] + Load(others[i], s)
    BY <1>1, <1>2 DEF Sums
  <1> HIDE DEF L
  <1> DEFINE S == {i \in Nat : i <= L => t.wcet <= f[i] /\ f[i] <= g[i]}
  <1>5. 0 \in S
    BY <1>3, <1>4
  <1>6. ASSUME NEW i \in Nat, i \in S PROVE i + 1 \in S
    <2> SUFFICES ASSUME i + 1 <= L PROVE t.wcet <= f[i + 1] /\ f[i + 1] <= g[i + 1]
      OBVIOUS
    <2>1. i + 1 \in 1 .. L /\ (i + 1) - 1 = i /\ i <= L /\ i \in 0 .. L
      BY <1>3
    <2>2. /\ f[i] \in Nat /\ g[i] \in Nat /\ t.wcet <= f[i] /\ f[i] <= g[i]
          /\ f[i + 1] = f[i] + Load(others[i + 1], r)
          /\ g[i + 1] = g[i] + Load(others[i + 1], s)
      BY <1>4, <1>6, <2>1
    <2>3. /\ Load(others[i + 1], r) \in Nat /\ Load(others[i + 1], s) \in Nat
          /\ Load(others[i + 1], r) <= Load(others[i + 1], s)
      BY <1>3, <2>1, LoadGrows
    <2> QED
      BY <1>3, <2>2, <2>3
  <1>7. Nat \subseteq S
    <2> HIDE DEF S
    <2> QED
      BY <1>5, <1>6, SetInduction
  <1>8. L \in S /\ L \in 0 .. L
    BY <1>3, <1>7
  <1> QED
    BY <1>1, <1>2, <1>3, <1>4, <1>8

\* In a, the last of the n + 1 elements of b comes after the first m already.
MovedAhead(a, b, n, m) ==
  /\ Len(a) = n + 1
  /\ Len(b) = n + 1
  /\ a[m + 1] = b[n + 1]
  /\ \A k \in 1 .. m : a[k] = b[k]
  /\ \A k \in m + 2 .. n + 1 : a[k] = b[k - 1]

(* The place of one of the others makes no difference to the demand.       *)
LEMMA DemandMoved ==
  ASSUME NEW X, \A x \in X : Timed(x), NEW t, Timed(t), NEW r \in Nat,
         NEW a \in Seq(X), NEW b \in Seq(X), NEW n \in Nat, NEW m \in 0 .. n,
         MovedAhead(a, b, n, m)
  PROVE  Demand(t, a, r) = Demand(t, b, r)
  <1>0. /\ Len(a) = n + 1
        /\ Len(b) = n + 1
        /\ a[m + 1] = b[n + 1]
        /\ \A k \in 1 .. m : a[k] = b[k]
        /\ \A k \in m + 2 .. n + 1 : a[k] = b[k - 1]
    BY DEF MovedAhead
  <1> DEFINE L == n + 1
             e == Load(a[m + 1], r)
  <1>1. PICK f : Sums(t, a, r, f) /\ Demand(t, a, r) = f[Len(a)]
    BY DemandSums
  <1>2. PICK g : Sums(t, b, r, g) /\ Demand(t, b, r) = g[Len(b)]
    BY DemandSums
  <1>3. /\ f \in [0 .. L -> Nat] /\ f[0] = t.wcet
        /\ \A i \in 1 .. L : f[i] = f[i - 1] + Load(a[i], r)
        /\ g \in [0 .. L -> Nat] /\ g[0] = t.wcet
        /\ \A i \in 1 .. L : g[i] = g[i - 1] + Load(b[i], r)
    BY <1>0, <1>1, <1>2 DEF Sums
  <1>4. \A k \in 1 .. L : Load(a[k], r) \in Nat /\ Load(b[k], r) \in Nat
    <2> SUFFICES ASSUME NEW k \in 1 .. L PROVE Load(a[k], r) \in Nat /\ Load(b[k], r) \in Nat
      OBVIOUS
    <2>1. Timed(a[k]) /\ Timed(b[k]) /\ r <= r
      BY <1>0
    <2> QED
      BY <2>1, LoadGrows
  <1>5. e \in Nat
    <2>1. m + 1 \in 1 .. L
      OBVIOUS
    <2> QED
      BY <1>4, <2>1
  <1>6. \A k \in 1 .. m : Load(a[k], r) = Load(b[k], r)
    BY <1>0
  <1>7. \A k \in m + 2 .. L : Load(a[k], r) = Load(b[k - 1], r)
    BY <1>0
  <1>8. e = Load(b[L], r)
    BY <1>0
  <1> DEFINE S == {i \in Nat : i <= n => IF i <= m THEN f[i] = g[i] ELSE f[i] = g[i - 1] + e}
  <1>9. 0 \in S
    BY <1>3
  <1>10. ASSUME NEW i \in Nat, i \in S PROVE i + 1 \in S
    <2> SUFFICES ASSUME i + 1 <= n
                 PROVE  IF i + 1 <= m THEN f[i + 1] = g[i + 1] ELSE f[i + 1] = g[(i + 1) - 1] + e
      OBVIOUS
    <2>1. i + 1 \in 1 .. L /\ (i + 1) - 1 = i /\ i \in 0 .. L /\ i <= n
      OBVIOUS
    <2>2. f[i + 1] = f[i] + Load(a[i + 1], r) /\ f[i] \in Nat /\ g[i] \in Nat
      BY <1>3, <2>1
    <2>3. CASE i + 1 <= m
      <3>1. g[i + 1] = g[i] + Load(b[i + 1], r) /\ f[i] = g[i]
        BY <1>3, <1>10, <2>1, <2>3
      <3>2. i + 1 \in 1 .. m
        BY <2>3
      <3> HIDE DEF e, L
      <3> QED
        BY <1>6, <2>2, <2>3, <3>1, <3>2
    <2>4. CASE i = m
      <3>1. f[i] = g[i]
        BY <1>10, <2>1, <2>4
      <3>2. f[i + 1] = g[i] + e
        BY <2>2, <2>4, <3>1
      <3> HIDE DEF e, L
      <3> QED
        BY <2>1, <2>4, <3>2
    <2>5. CASE i > m
      <3>1. f[i] = g[i - 1] + e /\ i \in 1 .. L /\ i + 1 \in m + 2 .. L /\ i - 1 \in 0 .. L
        BY <1>10, <2>1, <2>5
      <3>2. /\ Load(a[i + 1], r) = Load(b[i], r) /\ g[i] = g[i - 1] + Load(b[i], r)
            /\ g[i - 1] \in Nat /\ Load(b[i], r) \in Nat
        BY <1>3, <1>4, <1>7, <2>1, <3>1
      <3>3. ~(i + 1 <= m)
        BY <2>5
      <3> HIDE DEF e, L
      <3>4. f[i + 1] = g[i] + e
        <4>1. f[i + 1] = (g[i - 1] + e) + Load(b[i], r)
          BY <2>2, <3>1, <3>2
        <4>2. (g[i - 1] + e) + Load(b[i], r) = (g[i - 1] + Load(b[i], r)) + e
          BY <1>5, <3>2
        <4> QED
          BY <3>2, <4>1, <4>2
      <3> QED
        BY <2>1, <3>3, <3>4
    <2> QED
      BY <2>3, <2>4, <2>5
  <1>11. n \in S
    <2> HIDE DEF S
    <2> QED
      BY <1>9, <1>10, SetInduction
  <1>12. /\ f[L] = f[n] + Load(a[L], r) /\ g[L] = g[n] + Load(b[L], r)
         /\ f[n] \in Nat /\ g[n] \in Nat
    <2>1. L \in 1 .. L /\ L - 1 = n /\ n \in 0 .. L
      OBVIOUS
    <2> HIDE DEF L
    <2> QED
      BY <1>3, <2>1
  <1>13. CASE m = n
    BY <1>0, <1>1, <1>2, <1>8, <1>11, <1>12, <1>13
  <1>14. CASE m < n
    <2>1. f[n] = g[n - 1] + e
      BY <1>11, <1>14
    <2>2. /\ n \in 1 .. L /\ L \in m + 2 .. L /\ L - 1 = n /\ n - 1 \in 0 .. L
      BY <1>14
    <2>3. /\ g[n] = g[n - 1] + Load(b[n], r)
          /\ Load(a[L], r) = Load(b[n], r)
          /\ g[n - 1] \in Nat /\ Load(b[n], r) \in Nat
      <3> HIDE DEF L
      <3> QED
        BY <1>3, <1>4, <1>7, <2>2
    <2>4. Demand(t, a, r) = f[L] /\ Demand(t, b, r) = g[L]
      BY <1>0, <1>1, <1>2
    <2> HIDE DEF L, e
    <2>5. f[L] = (g[n - 1] + e) + Load(b[n], r) /\ g[L] = (g[n - 1] + Load(b[n], r)) + e
      BY <1>8, <1>12, <2>1, <2>3
    <2>6. (g[n - 1] + e) + Load(b[n], r) = (g[n - 1] + Load(b[n], r)) + e
      BY <1>5, <2>3
    <2> QED
      BY <2>4, <2>5, <2>6
  <1> QED
    BY <1>13, <1>14

-----------------------------------------------------------------------------
(* The iteration                                                           *)

\* settles says of every time whether the iteration that has come to it ends
\* with a deadline met, as the code decides it.
Settles(dem, d, settles) ==
  settles = [old \in Nat |-> dem[old] <= d /\ (dem[old] <= old \/ settles[dem[old]])]

\* g is the iteration from old on, and after i rounds it no longer grows.
Halts(dem, d, old, g, i) ==
  /\ g \in [Nat -> Nat]
  /\ g[0] = old
  /\ \A j \in Nat : g[j + 1] = dem[g[j]]
  /\ i \in Nat
  /\ g[i + 1] <= g[i]
  /\ \A j \in 0 .. i : g[j + 1] <= d

(* The recursion of the iteration has a solution, although nothing says    *)
(* that it ends.                                                           *)
LEMMA SettlesExists ==
  ASSUME NEW dem \in [Nat -> Nat], NEW d \in Nat
  PROVE  \E settles : Settles(dem, d, settles)
  <1> DEFINE Ends(old) == \E g, i : Halts(dem, d, old, g, i)
  <1>1. ASSUME NEW old \in Nat
        PROVE  Ends(old) <=> dem[old] <= d /\ (dem[old] <= old \/ Ends(dem[old]))
    <2>1. ASSUME Ends(old) PROVE dem[old] <= d /\ (dem[old] <= old \/ Ends(dem[old]))
      <3>1. PICK g, i : Halts(dem, d, old, g, i)
        BY <2>1
      <3>2. /\ g \in [Nat -> Nat] /\ g[0] = old /\ i \in Nat /\ g[i + 1] <= g[i]
            /\ \A j \in Nat : g[j + 1] = dem[g[j]]
            /\ \A j \in 0 .. i : g[j + 1] <= d
        BY <3>1 DEF Halts
      <3>3. g[0 + 1] = dem[g[0]] /\ g[0 + 1] <= d /\ 0 + 1 = 1
        <4>1. 0 \in Nat /\ 0 \in 0 .. i /\ 0 + 1 = 1
          BY <3>2
        <4> QED
          BY <3>2, <4>1
      <3>4. CASE i = 0
        BY <3>2, <3>3, <3>4
      <3>5. CASE i # 0
        <4> DEFINE h == [j \in Nat |-> g[j + 1]]
        <4>1. h \in [Nat -> Nat] /\ h[0] = dem[old]
          BY <3>2, <3>3
        <4>2. \A j \in Nat : h[j + 1] = dem[h[j]]
          BY <3>2
        <4>3. i - 1 \in Nat /\ (i - 1) + 1 = i
          BY <3>2, <3>5
        <4>4. h[(i - 1) + 1] <= h[i - 1]
          BY <3>2, <4>3
        <4>5. \A j \in 0 .. i - 1 : h[j + 1] <= d
          <5> SUFFICES ASSUME NEW j \in 0 .. i - 1 PROVE h[j + 1] <= d
            OBVIOUS
          <5>1. j + 1 \in 0 .. i /\ j + 1 \in Nat /\ h[j + 1] = g[(j + 1) + 1]
            BY <3>2
          <5> QED
            BY <3>2, <5>1
        <4> HIDE DEF h
        <4>6. Halts(dem, d, dem[old], h, i - 1)
          BY <4>1, <4>2, <4>3, <4>4, <4>5 DEF Halts
        <4> QED
          BY <3>2, <3>3, <4>6
      <3> QED
        BY <3>4, <3>5
    <2>2. ASSUME dem[old] <= d, dem[old] <= old PROVE Ends(old)
      <3> DEFINE D == Nat
                 step == [j \in Nat |-> dem]
      <3>1. old \in D /\ step \in Rounds(D)
        BY DEF Rounds
      <3> HIDE DEF D, step
      <3>2. PICK g \in [Nat -> D] : g[0] = old /\ \A j \in Nat : g[j + 1] = step[j + 1][g[j]]
        <4>1. \E g : Recurs(D, old, step, g)
          BY <3>1, RecursionExists
        <4> QED
          BY <4>1 DEF Recurs
      <3>3. \A j \in Nat : g[j + 1] = dem[g[j]]
        BY <3>2 DEF step
      <3>4. g[0 + 1] <= g[0] /\ g[0 + 1] <= d
        <4>1. g[0 + 1] = dem[g[0]]
          BY <3>3
        <4> QED
          BY <2>2, <3>2, <4>1
      <3>5. \A j \in 0 .. 0 : g[j + 1] <= d
        <4>1. \A j \in 0 .. 0 : j = 0
          OBVIOUS
        <4> QED
          BY <3>4, <4>1
      <3>6. Halts(dem, d, old, g, 0)
        BY <3>2, <3>3, <3>4, <3>5 DEF Halts, D
      <3> QED
        BY <3>6
    <2>3. ASSUME dem[old] <= d, Ends(dem[old]) PROVE Ends(old)
      <3>1. PICK h, i : Halts(dem, d, dem[old], h, i)
        BY <2>3
      <3>2. /\ h \in [Nat -> Nat] /\ h[0] = dem[old] /\ i \in Nat /\ h[i + 1] <= h[i]
            /\ \A j \in Nat : h[j + 1] = dem[h[j]]
            /\ \A j \in 0 .. i : h[j + 1] <= d
        BY <3>1 DEF Halts
      <3> DEFINE g == [j \in Nat |-> IF j = 0 THEN old ELSE h[j - 1]]
      <3>3. g[0] = old /\ g \in [Nat -> Nat] /\ \A j \in Nat : g[j + 1] = h[j]
        BY <3>2
      <3>4. \A j \in Nat : j # 0 => g[j] = h[j - 1] /\ j - 1 \in Nat /\ (j - 1) + 1 = j
        OBVIOUS
      <3> HIDE DEF g
      <3>5. ASSUME NEW j \in Nat PROVE g[j + 1] = dem[g[j]]
        <4>1. CASE j = 0
          BY <3>2, <3>3, <4>1
        <4>2. CASE j # 0
          <5>1. g[j] = h[j - 1] /\ j - 1 \in Nat /\ (j - 1) + 1 = j
            BY <3>4, <4>2
          <5>2. h[(j - 1) + 1] = dem[h[j - 1]]
            BY <3>2, <5>1
          <5> QED
            BY <3>3, <5>1, <5>2
        <4> QED
          BY <4>1, <4>2
      <3>6. g[(i + 1) + 1] <= g[i + 1] /\ i + 1 \in Nat
        BY <3>2, <3>3
      <3>7. ASSUME NEW j \in 0 .. i + 1 PROVE g[j + 1] <= d
        <4>1. CASE j = 0
          BY <2>3, <3>2, <3>3, <4>1
        <4>2. CASE j # 0
          <5>1. j - 1 \in 0 .. i /\ j \in Nat /\ (j - 1) + 1 = j
            BY <3>2, <3>7, <4>2
          <5>2. h[j] <= d
            BY <3>2, <5>1
          <5> QED
            BY <3>3, <5>1, <5>2
        <4> QED
          BY <4>1, <4>2
      <3>8. Halts(dem, d, old, g, i + 1)
        BY <3>3, <3>5, <3>6, <3>7 DEF Halts
      <3> QED
        BY <3>8
    <2> QED
      BY <2>1, <2>2, <2>3
  <1> DEFINE settles == [old \in Nat |-> Ends(old)]
  <1>2. \A old \in Nat : dem[old] \in Nat /\ Ends(old) \in BOOLEAN
    OBVIOUS
  <1> HIDE DEF Ends
  <1>3. ASSUME NEW old \in Nat
        PROVE  settles[old] = (dem[old] <= d /\ (dem[old] <= old \/ settles[dem[old]]))
    <2>1. settles[old] = Ends(old) /\ settles[dem[old]] = Ends(dem[old])
      BY <1>2
    <2>2. Ends(old) = (dem[old] <= d /\ (dem[old] <= old \/ Ends(dem[old])))
      BY <1>1, <1>2
    <2> QED
      BY <2>1, <2>2
  <1>4. settles = [old \in Nat |-> settles[old]]
    OBVIOUS
  <1> HIDE DEF settles
  <1>5. Settles(dem, d, settles)
    BY <1>3, <1>4 DEF Settles
  <1> QED
    BY <1>5

(* Where the iteration ends is a time by which what was asked for is done. *)
LEMMA SettlesSound ==
  ASSUME NEW dem \in [Nat -> Nat], NEW d \in Nat, NEW settles, Settles(dem, d, settles),
         NEW old \in 0 .. d, settles[old]
  PROVE  \E r \in 0 .. d : dem[r] <= r
  <1>1. \A t \in Nat : /\ dem[t] \in Nat
                       /\ settles[t] <=> dem[t] <= d /\ (dem[t] <= t \/ settles[dem[t]])
    BY DEF Settles
  <1> DEFINE Found == \E r \in 0 .. d : dem[r] <= r
             S == {k \in Nat : \A t \in 0 .. d : d - t <= k /\ settles[t] => Found}
  <1>2. ASSUME NEW t \in 0 .. d, settles[t], dem[t] <= t PROVE Found
    BY <1>2
  <1> HIDE DEF Found
  <1>3. 0 \in S
    <2> SUFFICES ASSUME NEW t \in 0 .. d, d - t <= 0, settles[t] PROVE Found
      OBVIOUS
    <2>1. t = d /\ t \in Nat
      OBVIOUS
    <2>2. dem[t] <= d
      BY <1>1, <2>1
    <2> QED
      BY <1>2, <2>1, <2>2
  <1>4. ASSUME NEW k \in Nat, k \in S PROVE k + 1 \in S
    <2> SUFFICES ASSUME NEW t \in 0 .. d, d - t <= k + 1, settles[t] PROVE Found
      OBVIOUS
    <2>1. t \in Nat /\ dem[t] \in Nat /\ dem[t] <= d /\ (dem[t] <= t \/ settles[dem[t]])
      BY <1>1
    <2>2. CASE dem[t] <= t
      BY <1>2, <2>2
    <2>3. CASE ~(dem[t] <= t)
      <3>1. dem[t] \in 0 .. d /\ d - dem[t] <= k
        BY <2>1, <2>3
      <3> QED
        BY <1>4, <2>1, <2>3, <3>1
    <2> QED
      BY <2>2, <2>3
  <1>5. d \in S
    <2> HIDE DEF S
    <2> QED
      BY <1>3, <1>4, SetInduction
  <1>6. d - old <= d
    OBVIOUS
  <1> QED
    BY <1>5, <1>6 DEF Found

(* If there is such a time, the iteration finds one before it.             *)
LEMMA SettlesComplete ==
  ASSUME NEW dem \in [Nat -> Nat], NEW d \in Nat, NEW settles, Settles(dem, d, settles),
         \A p, q \in Nat : p <= q => dem[p] <= dem[q],
         NEW r \in 0 .. d, dem[r] <= r, NEW old \in 0 .. r
  PROVE  settles[old]
  <1>1. \A t \in Nat : /\ dem[t] \in Nat
                       /\ settles[t] <=> dem[t] <= d /\ (dem[t] <= t \/ settles[dem[t]])
    BY DEF Settles
  <1>2. r \in Nat /\ r <= d
    OBVIOUS
  <1>3. \A t \in 0 .. r : t \in Nat /\ dem[t] \in Nat /\ dem[t] <= r
    <2> SUFFICES ASSUME NEW t \in 0 .. r PROVE t \in Nat /\ dem[t] \in Nat /\ dem[t] <= r
      OBVIOUS
    <2>1. t \in Nat /\ t <= r
      OBVIOUS
    <2>2. dem[t] <= dem[r] /\ dem[t] \in Nat /\ dem[r] \in Nat
      BY <1>1, <1>2, <2>1
    <2> QED
      BY <1>2, <2>1, <2>2
  <1> DEFINE S == {k \in Nat : \A t \in 0 .. r : r - t <= k => settles[t]}
  <1>4. 0 \in S
    <2> SUFFICES ASSUME NEW t \in 0 .. r, r - t <= 0 PROVE settles[t]
      OBVIOUS
    <2>1. t = r
      OBVIOUS
    <2>2. dem[t] <= d /\ dem[t] <= t
      BY <1>2, <1>3, <2>1
    <2> QED
      BY <1>1, <1>2, <2>1, <2>2
  <1>5. ASSUME NEW k \in Nat, k \in S PROVE k + 1 \in S
    <2> SUFFICES ASSUME NEW t \in 0 .. r, r - t <= k + 1 PROVE settles[t]
      OBVIOUS
    <2>1. t \in Nat /\ dem[t] \in Nat /\ dem[t] <= r /\ dem[t] <= d
      BY <1>2, <1>3
    <2>2. CASE dem[t] <= t
      BY <1>1, <2>1, <2>2
    <2>3. CASE ~(dem[t] <= t)
      <3>1. dem[t] \in 0 .. r /\ r - dem[t] <= k
        BY <1>2, <2>1, <2>3
      <3>2. settles[dem[t]]
        BY <1>5, <3>1
      <3> QED
        BY <1>1, <2>1, <3>2
    <2> QED
      BY <2>2, <2>3
  <1>6. r \in S
    <2> HIDE DEF S
    <2> QED
      BY <1>2, <1>4, <1>5, SetInduction
  <1>7. r - old <= r
    BY <1>2
  <1> QED
    BY <1>6, <1>7

(* _compute_repsonse_time finds the deadline of a task met exactly when    *)
(* there is a time up to the deadline by which everything asked for until  *)
(* then is done, whatever the tasks it is given.                           *)
THEOREM ResponseTimeExact ==
  ASSUME NEW X, \A x \in X : Timed(x), NEW others \in Seq(X), NEW t, Timed(t)
  PROVE  ResponseTimeMet(t, others) <=> MeetsDeadline(t, others)
  <1> DEFINE d == t.deadline
             dem == [r \in Nat |-> Demand(t, others, r)]
             Loop(f) == f = [old \in Nat |->
                              /\ Demand(t, others, old) <= d
                              /\ Demand(t, others, old) <= old \/ f[Demand(t, others, old)]]
             settles == CHOOSE f : Loop(f)
  <1>1. d \in Nat /\ t.wcet \in Nat
    BY DEF Timed
  <1>2. \A r \in Nat : Demand(t, others, r) \in Nat /\ t.wcet <= Demand(t, others, r)
    <2> SUFFICES ASSUME NEW r \in Nat
                 PROVE  Demand(t, others, r) \in Nat /\ t.wcet <= Demand(t, others, r)
      OBVIOUS
    <2>1. r <= r
      OBVIOUS
    <2> QED
      BY <2>1, DemandGrows
  <1>3. dem \in [Nat -> Nat]
    BY <1>2
  <1>4. \A p, q \in Nat : p <= q => dem[p] <= dem[q]
    <2> SUFFICES ASSUME NEW p \in Nat, NEW q \in Nat, p <= q PROVE dem[p] <= dem[q]
      OBVIOUS
    <2>1. Demand(t, others, p) <= Demand(t, others, q)
      BY DemandGrows
    <2> QED
      BY <2>1
  <1>5. ResponseTimeMet(t, others) = settles[t.wcet]
    BY DEF ResponseTimeMet
  <1>6. \A f : Loop(f) <=> Settles(dem, d, f)
    BY DEF Settles
  <1>7. Settles(dem, d, settles)
    <2>1. \E f : Loop(f)
      <3> HIDE DEF Loop, dem
      <3> QED
        BY <1>1, <1>3, <1>6, SettlesExists
    <2>2. Loop(settles)
      <3> HIDE DEF Loop
      <3> QED
        BY <2>1
    <2> HIDE DEF Loop, settles
    <2> QED
      BY <1>6, <2>2
  <1>8. \A r \in Nat : dem[r] = Demand(t, others, r)
    OBVIOUS
  <1> HIDE DEF Loop, settles, dem
  <1>9. ASSUME settles[t.wcet] PROVE MeetsDeadline(t, others)
    <2>1. dem[t.wcet] <= d /\ t.wcet <= dem[t.wcet] /\ dem[t.wcet] \in Nat
      <3> DEFINE w == t.wcet
      <3>1. w \in Nat /\ settles[w]
        BY <1>1, <1>9
      <3>2. dem[w] \in Nat /\ w <= dem[w]
        BY <1>2, <1>8, <3>1
      <3> HIDE DEF w
      <3>3. settles[w] <=> dem[w] <= d /\ (dem[w] <= w \/ settles[dem[w]])
        BY <1>7, <3>1 DEF Settles
      <3> QED
        BY <3>1, <3>2, <3>3 DEF w
    <2>2. t.wcet \in 0 .. d
      BY <1>1, <2>1
    <2>3. PICK r \in 0 .. d : dem[r] <= r
      BY <1>1, <1>3, <1>7, <1>9, <2>2, SettlesSound
    <2> QED
      BY <1>1, <1>8, <2>3 DEF MeetsDeadline
  <1>10. ASSUME MeetsDeadline(t, others) PROVE settles[t.wcet]
    <2>1. PICK r \in 0 .. d : dem[r] <= r
      BY <1>1, <1>8, <1>10 DEF MeetsDeadline
    <2>2. r \in Nat /\ t.wcet <= dem[r] /\ dem[r] \in Nat
      <3>1. r \in Nat
        BY <1>1
      <3> QED
        BY <1>2, <1>8, <3>1
    <2>3. t.wcet \in 0 .. r
      BY <1>1, <2>1, <2>2
    <2> QED
      BY <1>1, <1>3, <1>4, <1>7, <2>1, <2>3, SettlesComplete
  <1> QED
    BY <1>5, <1>9, <1>10

-----------------------------------------------------------------------------
(* RTA                                                                     *)

(* The elements of a run queue sorted by priority that are above the new   *)
(* task come first, and the new task is placed after them.                 *)
LEMMA PlacedAfter ==
  ASSUME NEW X, \A x \in X : Timed(x), NEW queue \in Seq(X), NEW new \in X, Sorted(queue)
  PROVE  \E m \in 0 .. Len(queue) :
           /\ \A i \in 1 .. Len(queue) : queue[i].prio > new.prio <=> i <= m
           /\ Placed(new, queue) = InsertAt(queue, m + 1, new)
  <1> DEFINE n == Len(queue)
             p(i) == queue[i].prio
             Low == {i \in 1 .. n : ~(p(i) > new.prio)}
  <1>1. n \in Nat /\ new.prio \in Int /\ \A i \in 1 .. n : p(i) \in Int
    BY DEF Timed
  <1>2. \A i \in 1 .. n - 1 : p(i) >= p(i + 1)
    BY DEF Sorted
  <1> HIDE DEF p, n
  <1>3. ASSUME NEW i \in Low PROVE \A j \in i .. n : j \in Low
    <2> DEFINE S == {k \in Nat : i + k <= n => i + k \in Low}
    <2>0. i \in 1 .. n /\ i \in Nat
      BY <1>1
    <2>1. 0 \in S
      BY <2>0
    <2>2. ASSUME NEW k \in Nat, k \in S PROVE k + 1 \in S
      <3> SUFFICES ASSUME i + (k + 1) <= n PROVE i + (k + 1) \in Low
        OBVIOUS
      <3> DEFINE j == i + k
      <3>1. j \in Low /\ j \in 1 .. n - 1 /\ j + 1 \in 1 .. n /\ i + (k + 1) = j + 1
        BY <1>1, <2>0, <2>2
      <3>2. p(j) >= p(j + 1) /\ ~(p(j) > new.prio)
        BY <1>2, <3>1
      <3> HIDE DEF j
      <3>3. ~(p(j + 1) > new.prio)
        BY <1>1, <3>1, <3>2
      <3> QED
        BY <3>1, <3>3
    <2>3. Nat \subseteq S
      <3> HIDE DEF S
      <3> QED
        BY <2>1, <2>2, SetInduction
    <2> SUFFICES ASSUME NEW j \in i .. n PROVE j \in Low
      OBVIOUS
    <2>4. j - i \in Nat /\ i + (j - i) = j /\ j <= n
      BY <1>1, <2>0
    <2>5. j - i \in S
      BY <2>3, <2>4
    <2> QED
      BY <2>4, <2>5
  <1>4. \E m \in 0 .. n : \A i \in 1 .. n : p(i) > new.prio <=> i <= m
    <2>1. CASE Low = {}
      <3>1. \A i \in 1 .. n : p(i) > new.prio /\ i <= n
        BY <1>1, <2>1
      <3>2. n \in 0 .. n
        BY <1>1
      <3> QED
        BY <3>1, <3>2
    <2>2. CASE Low # {}
      <3>1. Low \subseteq Nat
        BY <1>1
      <3> HIDE DEF Low
      <3>2. PICK l \in Low : \A j \in Low : l <= j
        BY <2>2, <3>1, LeastElement
      <3> USE DEF Low
      <3>3. l \in 1 .. n /\ l - 1 \in 0 .. n
        BY <1>1
      <3>4. ASSUME NEW i \in 1 .. n PROVE p(i) > new.prio <=> i <= l - 1
        <4>1. i \in Nat /\ l \in Nat
          BY <1>1, <3>3
        <4>2. CASE i <= l - 1
          <5>1. i \notin Low
            <6> HIDE DEF Low
            <6> QED
              BY <3>2, <4>1, <4>2
          <5> QED
            BY <4>2, <5>1
        <4>3. CASE ~(i <= l - 1)
          <5>1. i \in l .. n
            BY <4>1, <4>3, <1>1
          <5>2. i \in Low
            <6> HIDE DEF Low
            <6> QED
              BY <1>3, <3>2, <5>1
          <5> QED
            BY <4>3, <5>2
        <4> QED
          BY <4>2, <4>3
      <3> QED
        BY <3>3, <3>4
    <2> QED
      BY <2>1, <2>2
  <1>5. PICK m \in 0 .. n : \A i \in 1 .. n : p(i) > new.prio <=> i <= m
    BY <1>4
  <1>6. Cardinality({i \in DOMAIN queue : queue[i].prio > new.prio}) = m
    <2>1. {i \in DOMAIN queue : queue[i].prio > new.prio} = 1 .. m
      <3>1. DOMAIN queue = 1 .. n
        BY DEF n
      <3>2. {i \in 1 .. n : p(i) > new.prio} = 1 .. m
        BY <1>1, <1>5
      <3> QED
        BY <3>1, <3>2 DEF p
    <2>2. m \in Nat
      BY <1>1
    <2>3. Cardinality(1 .. m) = m
      BY <2>2, FS_Interval
    <2> QED
      BY <2>1, <2>3
  <1> QED
    BY <1>5, <1>6 DEF Placed, p, n

\* r is s with e after its first m elements.
Inserted(s, m, e, r) ==
  /\ Len(r) = Len(s) + 1
  /\ \A k \in 1 .. m : r[k] = s[k]
  /\ r[m + 1] = e
  /\ \A k \in m + 2 .. Len(s) + 1 : r[k] = s[k - 1]

(* What InsertAt returns.                                                  *)
LEMMA InsertedValue ==
  ASSUME NEW X, NEW s \in Seq(X), NEW m \in 0 .. Len(s), NEW e \in X
  PROVE  InsertAt(s, m + 1, e) \in Seq(X) /\ Inserted(s, m, e, InsertAt(s, m + 1, e))
  <1> DEFINE a == SubSeq(s, 1, m)
             b == <<e>>
             c == SubSeq(s, m + 1, Len(s))
  <1>1. Len(s) \in Nat /\ m \in Nat
    OBVIOUS
  <1>2. a \in Seq(X) /\ Len(a) = m /\ \A k \in 1 .. m : a[k] = s[k]
    BY <1>1
  <1>3. c \in Seq(X) /\ Len(c) = Len(s) - m /\ \A k \in 1 .. Len(s) - m : c[k] = s[m + k]
    BY <1>1
  <1>4. b \in Seq(X) /\ Len(b) = 1 /\ b[1] = e
    OBVIOUS
  <1>5. InsertAt(s, m + 1, e) = a \o b \o c
    <2>1. (m + 1) - 1 = m
      BY <1>1
    <2> QED
      BY <2>1 DEF InsertAt
  <1> HIDE DEF a, b, c
  <1> DEFINE ab == a \o b
  <1>6. /\ ab \in Seq(X) /\ Len(ab) = m + 1
        /\ \A k \in 1 .. m : ab[k] = s[k]
        /\ ab[m + 1] = e
    <2>1. /\ ab \in Seq(X) /\ Len(ab) = Len(a) + Len(b)
          /\ \A k \in 1 .. Len(a) + Len(b) :
               ab[k] = IF k <= Len(a) THEN a[k] ELSE b[k - Len(a)]
      BY <1>2, <1>4, ConcatProperties
    <2>2. \A k \in 1 .. m + 1 : ab[k] = IF k <= m THEN a[k] ELSE b[k - m]
      BY <1>2, <1>4, <2>1
    <2> HIDE DEF ab
    <2>3. m + 1 \in 1 .. m + 1 /\ (m + 1) - m = 1 /\ ~(m + 1 <= m)
      BY <1>1
    <2>4. ab[m + 1] = b[1]
      BY <2>2, <2>3
    <2>5. \A k \in 1 .. m : k \in 1 .. m + 1 /\ k <= m
      BY <1>1
    <2>6. \A k \in 1 .. m : ab[k] = a[k]
      BY <2>2, <2>5
    <2> QED
      BY <1>1, <1>2, <1>4, <2>1, <2>4, <2>6
  <1> HIDE DEF ab
  <1> DEFINE q == ab \o c
  <1>7. /\ q \in Seq(X) /\ Len(q) = Len(s) + 1
        /\ \A k \in 1 .. m + 1 : q[k] = ab[k]
        /\ \A k \in m + 2 .. Len(s) + 1 : q[k] = c[k - (m + 1)]
    BY <1>1, <1>3, <1>6
  <1>8. \A k \in m + 2 .. Len(s) + 1 : q[k] = s[k - 1]
    <2> SUFFICES ASSUME NEW k \in m + 2 .. Len(s) + 1 PROVE q[k] = s[k - 1]
      OBVIOUS
    <2>1. k - (m + 1) \in 1 .. Len(s) - m /\ m + (k - (m + 1)) = k - 1
      BY <1>1
    <2> HIDE DEF q
    <2> QED
      BY <1>3, <1>7, <2>1
  <1> HIDE DEF q
  <1>9. q = InsertAt(s, m + 1, e)
    BY <1>5 DEF q, ab
  <1>10. Inserted(s, m, e, q)
    BY <1>1, <1>6, <1>7, <1>8 DEF Inserted
  <1> QED
    BY <1>7, <1>9, <1>10

(* RTA refuses no task that fits, wherever its priority places it: if the  *)
(* run queue, sorted by priority, meets its deadlines with the new task in *)
(* it, the task is accepted, whatever the record after the queue holds.    *)
THEOREM FittingIsAccepted ==
  ASSUME NEW X, \A x \in X : Timed(x), NEW queue \in Seq(X), queue # <<>>, Sorted(queue),
         NEW new \in X, NEW Y, NEW walk \in Seq(Y), Len(walk) = Len(queue) + 1,
         \A k \in 1 .. Len(queue) : walk[k] = queue[k],
         Schedulable(Placed(new, queue))
  PROVE  RTA(new, walk, queue[Len(queue)])
  <1> DEFINE n == Len(queue)
             Before(i) == SubSeq(walk, 1, i)
  <1>1. n \in Nat /\ n > 0 /\ new.prio \in Int /\ \A i \in 1 .. n : queue[i].prio \in Int
    BY DEF Timed
  <1>2. PICK m \in 0 .. n :
          /\ \A i \in 1 .. n : queue[i].prio > new.prio <=> i <= m
          /\ Placed(new, queue) = InsertAt(queue, m + 1, new)
    BY PlacedAfter
  <1> DEFINE q == InsertAt(queue, m + 1, new)
  <1>3. /\ q \in Seq(X) /\ Len(q) = n + 1
        /\ \A k \in 1 .. m : q[k] = queue[k]
        /\ q[m + 1] = new
        /\ \A k \in m + 2 .. n + 1 : q[k] = queue[k - 1]
    <2>1. q \in Seq(X) /\ Inserted(queue, m, new, q)
      BY InsertedValue
    <2> HIDE DEF q
    <2> QED
      BY <2>1 DEF Inserted
  <1> HIDE DEF q
  <1>4. \A k \in 1 .. n + 1 : MeetsDeadline(q[k], SubSeq(q, 1, k - 1))
    <2>1. DOMAIN q = 1 .. n + 1 /\ Schedulable(q)
      BY <1>1, <1>2, <1>3 DEF q
    <2> QED
      BY <2>1 DEF Schedulable
  <1>5. ASSUME NEW i \in 0 .. n
        PROVE  /\ Before(i) \in Seq(X) /\ Len(Before(i)) = i
               /\ \A k \in 1 .. i : Before(i)[k] = queue[k]
    <2>1. i \in Nat /\ \A k \in 1 .. i : k \in 1 .. n /\ walk[k] = queue[k] /\ queue[k] \in X
      BY <1>1
    <2> QED
      BY <1>1, <2>1
  <1> HIDE DEF Before
  <1>6. ResponseTimeMet(new, Before(m))
    <2>1. SubSeq(q, 1, (m + 1) - 1) = Before(m)
      <3>1. (m + 1) - 1 = m /\ m \in Nat
        BY <1>1
      <3>2. /\ SubSeq(q, 1, m) \in Seq(X) /\ Len(SubSeq(q, 1, m)) = m
            /\ \A k \in 1 .. m : SubSeq(q, 1, m)[k] = queue[k]
        BY <1>1, <1>3, <3>1
      <3> QED
        BY <1>5, <3>1, <3>2
    <2>2. MeetsDeadline(new, Before(m))
      <3>1. m + 1 \in 1 .. n + 1
        BY <1>1
      <3> QED
        BY <1>3, <1>4, <2>1, <3>1
    <2> QED
      BY <1>5, <2>2, ResponseTimeExact
  <1>7. ASSUME NEW i \in 1 .. n, i > m PROVE ResponseTimeMet(queue[i], Append(Before(i - 1), new))
    <2> DEFINE t == queue[i]
               a == SubSeq(q, 1, i)
               b == Append(Before(i - 1), new)
               k == i - 1
    <2>1. i \in Nat /\ k \in 0 .. n /\ m \in 0 .. k /\ k + 1 = i /\ k \in Nat
      BY <1>1, <1>7
    <2>2. a \in Seq(X) /\ Len(a) = k + 1 /\ \A j \in 1 .. i : a[j] = q[j]
      BY <1>1, <1>3, <2>1
    <2>3. /\ b \in Seq(X) /\ Len(b) = k + 1 /\ b[k + 1] = new
          /\ \A j \in 1 .. k : b[j] = queue[j]
      BY <1>5, <2>1
    <2>4. t \in X /\ Timed(t)
      OBVIOUS
    <2>5. MeetsDeadline(t, a)
      <3>1. i + 1 \in m + 2 .. n + 1 /\ i + 1 \in 1 .. n + 1 /\ (i + 1) - 1 = i
        BY <1>1, <1>7
      <3>2. q[i + 1] = t
        BY <1>3, <3>1
      <3>3. MeetsDeadline(q[i + 1], SubSeq(q, 1, (i + 1) - 1))
        BY <1>4, <3>1
      <3> QED
        BY <3>1, <3>2, <3>3
    <2> HIDE DEF a, b, k, t
    <2>6. /\ a[m + 1] = b[k + 1]
          /\ \A j \in 1 .. m : a[j] = b[j]
          /\ \A j \in m + 2 .. k + 1 : a[j] = b[j - 1]
      <3>1. a[m + 1] = b[k + 1]
        BY <1>1, <1>3, <2>1, <2>2, <2>3
      <3>2. \A j \in 1 .. m : a[j] = b[j]
        BY <1>1, <1>3, <2>1, <2>2, <2>3
      <3>3. ASSUME NEW j \in m + 2 .. k + 1 PROVE a[j] = b[j - 1]
        <4>1. j \in m + 2 .. n + 1 /\ j \in 1 .. i /\ j - 1 \in 1 .. k
          BY <1>1, <2>1
        <4> QED
          BY <1>3, <2>2, <2>3, <4>1
      <3> QED
        BY <3>1, <3>2, <3>3
    <2>7. ASSUME NEW r \in Nat PROVE Demand(t, a, r) = Demand(t, b, r)
      <3>1. MovedAhead(a, b, k, m)
        BY <2>2, <2>3, <2>6 DEF MovedAhead
      <3>2. a \in Seq(X) /\ b \in Seq(X) /\ k \in Nat /\ m \in 0 .. k /\ Timed(t)
        BY <2>1, <2>2, <2>3, <2>4
      <3> QED
        BY <3>1, <3>2, DemandMoved
    <2>8. MeetsDeadline(t, b)
      <3>1. \A r \in 0 .. t.deadline : r \in Nat
        BY <2>4 DEF Timed
      <3> QED
        BY <2>5, <2>7, <3>1 DEF MeetsDeadline
    <2>9. ResponseTimeMet(t, b)
      BY <2>3, <2>4, <2>8, ResponseTimeExact
    <2> QED
      BY <2>9 DEF t, b, k
  <1>8. ASSUME new.prio < queue[n].prio PROVE ResponseTimeMet(new, Before(n))
    <2>1. m = n
      BY <1>1, <1>2, <1>8
    <2> QED
      BY <1>6, <2>1
  <1>9. ASSUME NEW i \in 1 .. n, walk[i].prio <= new.prio
        PROVE  ResponseTimeMet(walk[i], Append(Before(i - 1), new))
    <2>1. walk[i] = queue[i] /\ i > m
      BY <1>1, <1>2, <1>9
    <2> QED
      BY <1>7, <2>1
  <1>10. ASSUME NEW i \in 1 .. n, walk[i].prio > new.prio, walk[i + 1].prio <= new.prio
         PROVE  ResponseTimeMet(new, Before(i))
    <2>1. walk[i] = queue[i] /\ i <= m
      BY <1>1, <1>2, <1>10
    <2>2. i = m
      <3> SUFFICES ASSUME i # m PROVE FALSE
        OBVIOUS
      <3>1. i + 1 \in 1 .. n /\ i + 1 <= m /\ walk[i + 1] = queue[i + 1]
        BY <1>1, <2>1
      <3> QED
        BY <1>1, <1>2, <1>10, <3>1
    <2> QED
      BY <1>6, <2>2
  <1>11. Len(walk) - 1 = n
    BY <1>1
  <1> HIDE DEF n
  <1> QED
    BY <1>8, <1>9, <1>10, <1>11 DEF RTA, Before, n

-----------------------------------------------------------------------------
(* The sufficient test: dividing                                           *)

(* A quotient is known from its bounds.                                    *)
LEMMA QuotientBetween ==
  ASSUME NEW y \in Nat, NEW b \in Nat \ {0}, NEW k \in Nat, b * k <= y, y < b * k + b
  PROVE  y \div b = k
  <1> DEFINE p == y \div b
  <1>1. p \in Nat /\ b * p <= y /\ y < b * p + b
    BY Division
  <1> HIDE DEF p
  <1>2. p <= k
    <2> SUFFICES ASSUME k + 1 <= p PROVE FALSE
      BY <1>1
    <2>1. b * (k + 1) <= b * p
      BY <1>1, ProductGrows
    <2>2. b * (k + 1) = b * k + b
      BY Z3
    <2> QED
      BY <1>1, <2>1, <2>2, Z3
  <1>3. k <= p
    <2> SUFFICES ASSUME p + 1 <= k PROVE FALSE
      BY <1>1
    <2>1. b * (p + 1) <= b * k
      BY <1>1, ProductGrows
    <2>2. b * (p + 1) = b * p + b
      BY <1>1, Z3
    <2> QED
      BY <1>1, <2>1, <2>2, Z3
  <1> QED
    BY <1>1, <1>2, <1>3 DEF p

(* A time of k intervals and x ticks starts one more interval if x > 0.    *)
LEMMA CeilingValue ==
  ASSUME NEW b \in Nat \ {0}, NEW k \in Nat, NEW x \in Nat, x < b
  PROVE  Ceiling(b * k + x, b) = IF x = 0 THEN k ELSE k + 1
  <1>1. b * k \in Nat /\ b * (k + 1) = b * k + b
    BY Z3
  <1>2. CASE x = 0
    <2>1. (b * k + x) + b - 1 \in Nat /\ b * k <= (b * k + x) + b - 1
          /\ (b * k + x) + b - 1 < b * k + b
      BY <1>1, <1>2
    <2> QED
      BY <1>2, <2>1, QuotientBetween DEF Ceiling
  <1>3. CASE x # 0
    <2>1. (b * k + x) + b - 1 \in Nat /\ b * (k + 1) <= (b * k + x) + b - 1
          /\ (b * k + x) + b - 1 < b * (k + 1) + b
      BY <1>1, <1>3
    <2>2. k + 1 \in Nat
      OBVIOUS
    <2> QED
      BY <1>3, <2>1, <2>2, QuotientBetween DEF Ceiling
  <1> QED
    BY <1>2, <1>3

(* What the sums of the test hold of a task bounds its load: in d ticks    *)
(* there is a time from which on it asks for no more than its utilization  *)
(* and its rest allow.                                                     *)
LEMMA ShareBounded ==
  ASSUME NEW H \in Nat, NEW c \in Nat, NEW T \in Nat \ {0}, NEW u \in 0 .. H,
         u * T = c * H, NEW d \in Nat
  PROVE  \E s \in 0 .. d : H * (Ceiling(s, T) * c + (d - s)) <= u * d + c * (H - u)
  <1> DEFINE k == d \div T
             x == d - T * k
  <1>1. k \in Nat /\ T * k \in Nat /\ T * k <= d /\ d < T * k + T
    <2>1. k \in Nat /\ T * k <= d /\ d < T * k + T
      BY Division
    <2> HIDE DEF k
    <2> QED
      BY <2>1, Z3
  <1>2. x \in Nat /\ x < T /\ d = T * k + x
    <2> HIDE DEF k
    <2> QED
      BY <1>1
  <1> HIDE DEF k, x
  <1>3. u * d + c * (H - u) = H * (k * c) + u * x + c * (H - u)
    <2>1. u * (T * k + x) = (u * T) * k + u * x
      BY <1>1, <1>2, Z3
    <2>2. (c * H) * k = H * (k * c)
      BY <1>1, Z3
    <2> QED
      BY <1>2, <2>1, <2>2
  <1>4. CASE x <= c
    <2>1. T * k \in 0 .. d /\ Ceiling(T * k, T) = k /\ d - T * k = x
      <3>1. \A y \in Nat : y < T => Ceiling(T * k + y, T) = IF y = 0 THEN k ELSE k + 1
        BY <1>1, CeilingValue
      <3>2. Ceiling(T * k + 0, T) = k
        BY <3>1
      <3> HIDE DEF Ceiling
      <3> QED
        BY <1>1, <1>2, <3>2
    <2>2. H * (k * c + x) = H * (k * c) + H * x
      BY <1>1, <1>2, Z3
    <2>3. H * x <= u * x + c * (H - u)
      <3> DEFINE v == H - u
      <3>1. v \in Nat /\ H = u + v
        OBVIOUS
      <3> HIDE DEF v
      <3>2. v * x <= v * c
        BY <1>2, <1>4, <3>1, ProductGrows
      <3>3. H * x = u * x + v * x /\ v * c = c * v
        BY <1>2, <3>1, Z3
      <3>4. H * x <= u * x + c * v
        BY <1>2, <3>1, <3>2, <3>3, Z3
      <3> QED
        BY <3>4 DEF v
    <2>4. H * (Ceiling(T * k, T) * c + (d - T * k)) <= u * d + c * (H - u)
      <3>1. H * (k * c) \in Int /\ H * x \in Int /\ u * x \in Int /\ c * (H - u) \in Int
        BY <1>1, <1>2, Z3
      <3> HIDE DEF Ceiling
      <3> QED
        BY <1>3, <2>1, <2>2, <2>3, <3>1
    <2> QED
      BY <2>1, <2>4
  <1>5. CASE x > c
    <2>1. Ceiling(d, T) = k + 1 /\ d \in 0 .. d
      <3>1. \A y \in Nat : y < T => Ceiling(T * k + y, T) = IF y = 0 THEN k ELSE k + 1
        BY <1>1, CeilingValue
      <3>2. Ceiling(T * k + x, T) = k + 1
        BY <1>2, <1>5, <3>1
      <3> QED
        BY <1>2, <3>2
    <2>2. H * ((k + 1) * c + (d - d)) = H * (k * c) + c * H
      BY <1>1, Z3
    <2>3. c * H <= u * x + c * (H - u)
      <3>1. u * c <= u * x
        BY <1>2, <1>5, ProductGrows
      <3>2. c * (H - u) = c * H - u * c /\ u * c \in Int /\ u * x \in Int /\ c * H \in Int
        BY <1>2, Z3
      <3> QED
        BY <3>1, <3>2
    <2>4. H * (Ceiling(d, T) * c + (d - d)) <= u * d + c * (H - u)
      <3>1. H * (k * c) \in Int /\ c * H \in Int /\ u * x \in Int /\ c * (H - u) \in Int
        BY <1>1, <1>2, Z3
      <3> HIDE DEF Ceiling
      <3> QED
        BY <1>3, <2>1, <2>2, <2>3, <3>1
    <2> QED
      BY <2>1, <2>4
  <1> QED
    BY <1>2, <1>4, <1>5

-----------------------------------------------------------------------------
(* The sufficient test: the bound of a task                                *)

(* What one more of the others adds to the demand.                         *)
LEMMA DemandAppended ==
  ASSUME NEW X, \A x \in X : Timed(x), NEW others \in Seq(X), NEW o \in X,
         NEW t, Timed(t), NEW r \in Nat
  PROVE  Demand(t, Append(others, o), r) = Demand(t, others, r) + Load(o, r)
  <1> DEFINE n == Len(others)
             more == Append(others, o)
  <1>1. /\ n \in Nat /\ more \in Seq(X) /\ Len(more) = n + 1 /\ more[n + 1] = o
        /\ \A i \in 1 .. n : more[i] = others[i]
    OBVIOUS
  <1> HIDE DEF more
  <1>2. PICK f : Sums(t, others, r, f) /\ Demand(t, others, r) = f[n]
    BY DemandSums
  <1>3. PICK g : Sums(t, more, r, g) /\ Demand(t, more, r) = g[n + 1]
    BY <1>1, DemandSums
  <1>4. /\ f[0] = t.wcet
        /\ \A i \in 1 .. n : f[i] = f[i - 1] + Load(others[i], r)
        /\ g[0] = t.wcet
        /\ \A i \in 1 .. n + 1 : g[i] = g[i - 1] + Load(more[i], r)
    BY <1>1, <1>2, <1>3 DEF Sums
  <1> HIDE DEF n
  <1> DEFINE S == {i \in Nat : i <= n => f[i] = g[i]}
  <1>5. 0 \in S
    BY <1>4
  <1>6. ASSUME NEW i \in Nat, i \in S PROVE i + 1 \in S
    <2> SUFFICES ASSUME i + 1 <= n PROVE f[i + 1] = g[i + 1]
      OBVIOUS
    <2>1. i + 1 \in 1 .. n /\ i + 1 \in 1 .. n + 1 /\ (i + 1) - 1 = i /\ i <= n
      BY <1>1
    <2>2. f[i] = g[i] /\ others[i + 1] = more[i + 1]
      BY <1>1, <1>6, <2>1
    <2> QED
      BY <1>4, <2>1, <2>2
  <1>7. n \in S
    <2> HIDE DEF S
    <2> QED
      BY <1>1, <1>5, <1>6, SetInduction
  <1>8. g[n + 1] = g[n] + Load(more[n + 1], r)
    <2>1. n + 1 \in 1 .. n + 1 /\ (n + 1) - 1 = n
      BY <1>1
    <2> QED
      BY <1>4, <2>1
  <1> QED
    BY <1>1, <1>2, <1>3, <1>7, <1>8 DEF more

\* Multiplying by Hyper keeps utilizations whole.
Whole(t) == Utilization(t) * t.inter_arrival = t.wcet * Hyper

\* The sums of the tasks in others bound what they and any other task ask
\* for: in d ticks there is a time r from which on it is no more than that.
Bounded(others, sums) ==
  \A t : Timed(t) => \A d \in Nat : \E r \in 0 .. d :
    Hyper * (Demand(t, others, r) + (d - r)) <= t.wcet * Hyper + d * sums.util + sums.wcet

\* Sums as they are while all checks have passed.
Summed(sums) == sums.util \in 0 .. Hyper /\ sums.wcet \in Nat

LEMMA NoneBounded ==
  ASSUME NEW X, \A x \in X : Timed(x), NEW sums, sums.util = 0, sums.wcet = 0
  PROVE  Bounded(<<>>, sums)
  <1> SUFFICES ASSUME NEW t, Timed(t), NEW d \in Nat
               PROVE  \E r \in 0 .. d :
                        Hyper * (Demand(t, <<>>, r) + (d - r)) <= t.wcet * Hyper + d * sums.util + sums.wcet
    BY DEF Bounded
  <1>1. d \in 0 .. d
    OBVIOUS
  <1>2. Demand(t, <<>>, d) = t.wcet /\ t.wcet \in Nat
    <2> DEFINE e == <<>>
    <2>1. e \in Seq(X) /\ Len(e) = 0 /\ Timed(t)
      OBVIOUS
    <2> HIDE DEF e
    <2>2. PICK f : Sums(t, e, d, f) /\ Demand(t, e, d) = f[Len(e)]
      BY <2>1, DemandSums
    <2>3. f[0] = t.wcet
      BY <2>2 DEF Sums
    <2> QED
      BY <2>1, <2>2, <2>3 DEF e, Timed
  <1>3. Hyper * (t.wcet + (d - d)) <= t.wcet * Hyper + d * 0 + 0
    <2>1. Hyper * t.wcet = t.wcet * Hyper /\ Hyper * t.wcet \in Int
      BY <1>2, HyperAssumption, Z3
    <2> QED
      BY <1>2, <2>1, HyperAssumption
  <1> QED
    BY <1>1, <1>2, <1>3

(* A bound stays one when the sums grow.                                   *)
LEMMA BoundedMore ==
  ASSUME NEW X, \A x \in X : Timed(x), NEW others \in Seq(X), NEW old, Summed(old),
         Bounded(others, old), NEW sums, Summed(sums),
         old.util <= sums.util, old.wcet <= sums.wcet
  PROVE  Bounded(others, sums)
  <1> SUFFICES ASSUME NEW t, Timed(t), NEW d \in Nat
               PROVE  \E r \in 0 .. d :
                        Hyper * (Demand(t, others, r) + (d - r)) <= t.wcet * Hyper + d * sums.util + sums.wcet
    BY DEF Bounded
  <1>1. PICK r \in 0 .. d :
          Hyper * (Demand(t, others, r) + (d - r)) <= t.wcet * Hyper + d * old.util + old.wcet
    BY DEF Bounded
  <1>2. Hyper \in Nat /\ old.util \in Int /\ sums.util \in Int /\ t.wcet \in Nat /\ r \in Nat
        /\ old.wcet \in Int /\ sums.wcet \in Int
    BY HyperAssumption DEF Summed, Timed
  <1>3. Demand(t, others, r) \in Nat
    <2>1. r <= r /\ Timed(t)
      BY <1>2
    <2> QED
      BY <1>2, <2>1, DemandGrows
  <1>4. d * old.util <= d * sums.util
    BY <1>2, ProductGrows
  <1>5. /\ d * old.util \in Int /\ d * sums.util \in Int /\ t.wcet * Hyper \in Int
        /\ Hyper * (Demand(t, others, r) + (d - r)) \in Int
    <2>1. Demand(t, others, r) + (d - r) \in Int /\ Hyper \in Int /\ d \in Int /\ t.wcet \in Int
      BY <1>2, <1>3
    <2> QED
      BY <1>2, <2>1, ProductInt
  <1> DEFINE l == Hyper * (Demand(t, others, r) + (d - r))
             w == t.wcet * Hyper
             p == d * old.util
             q == d * sums.util
  <1>6. l <= w + q + sums.wcet
    <2>1. l <= w + p + old.wcet /\ p <= q
      BY <1>1, <1>4
    <2>2. l \in Int /\ w \in Int /\ p \in Int /\ q \in Int
      BY <1>5
    <2> HIDE DEF l, w, p, q
    <2> QED
      BY <1>2, <2>1, <2>2
  <1> QED
    BY <1>6

(* A task and its share of the sums are added together.                    *)
LEMMA BoundedAppended ==
  ASSUME NEW X, \A x \in X : Timed(x), NEW others \in Seq(X), NEW o \in X, Whole(o),
         NEW old, Summed(old), Bounded(others, old),
         NEW sums, Summed(sums), Utilization(o) \in 0 .. Hyper,
         sums.util = old.util + Utilization(o),
         sums.wcet = old.wcet + o.wcet * (Hyper - Utilization(o))
  PROVE  Bounded(Append(others, o), sums)
  <1> SUFFICES ASSUME NEW t, Timed(t), NEW d \in Nat
               PROVE  \E m \in 0 .. d :
                        Hyper * (Demand(t, Append(others, o), m) + (d - m))
                          <= t.wcet * Hyper + d * sums.util + sums.wcet
    BY DEF Bounded
  <1> DEFINE u == Utilization(o)
             rest == o.wcet * (Hyper - u)
             P(r) == Demand(t, others, r)
             L(r) == Load(o, r)
  <1>0. /\ Hyper \in Nat /\ u \in 0 .. Hyper /\ old.util \in Int /\ old.wcet \in Int
        /\ t.wcet \in Nat /\ o.wcet \in Nat /\ o.inter_arrival \in Nat \ {0}
    BY HyperAssumption DEF Summed, Timed
  <1>1. PICK r \in 0 .. d : Hyper * (P(r) + (d - r)) <= t.wcet * Hyper + d * old.util + old.wcet
    BY DEF Bounded
  <1>2. PICK s \in 0 .. d : Hyper * (L(s) + (d - s)) <= u * d + rest
    <2>1. u * o.inter_arrival = o.wcet * Hyper
      BY DEF Whole
    <2>2. \E s \in 0 .. d :
            Hyper * (Ceiling(s, o.inter_arrival) * o.wcet + (d - s)) <= u * d + o.wcet * (Hyper - u)
      <3> HIDE DEF u
      <3> QED
        BY <1>0, <2>1, ShareBounded
    <2> QED
      BY <2>2 DEF Load
  <1>3. \A p, q \in Nat : p <= q => P(p) \in Nat /\ P(q) \in Nat /\ P(p) <= P(q)
    <2> SUFFICES ASSUME NEW p \in Nat, NEW q \in Nat, p <= q
                 PROVE  P(p) \in Nat /\ P(q) \in Nat /\ P(p) <= P(q)
      OBVIOUS
    <2>1. Timed(t)
      OBVIOUS
    <2> QED
      BY <2>1, DemandGrows
  <1>4. \A p, q \in Nat : p <= q => L(p) \in Nat /\ L(q) \in Nat /\ L(p) <= L(q)
    BY LoadGrows
  <1>5. \A p \in Nat : Demand(t, Append(others, o), p) = P(p) + L(p)
    <2> SUFFICES ASSUME NEW p \in Nat PROVE Demand(t, Append(others, o), p) = P(p) + L(p)
      OBVIOUS
    <2>1. Timed(t)
      OBVIOUS
    <2> QED
      BY <2>1, DemandAppended
  <1>6. t.wcet * Hyper + d * sums.util + sums.wcet
          = (t.wcet * Hyper + d * old.util + old.wcet) + (u * d + rest)
    <2>1. d * (old.util + u) = d * old.util + u * d /\ u * d \in Int /\ d * old.util \in Int
      BY <1>0, Z3
    <2>2. rest \in Int /\ t.wcet * Hyper \in Int
      BY <1>0, Z3
    <2>3. sums.util = old.util + u /\ sums.wcet = old.wcet + rest
      OBVIOUS
    <2> HIDE DEF rest, u
    <2>4. d * sums.util = d * old.util + u * d
      BY <2>1, <2>3
    <2> DEFINE w == t.wcet * Hyper
               p == d * old.util
               q == u * d
    <2>5. w \in Int /\ p \in Int /\ q \in Int
      BY <2>1, <2>2
    <2> HIDE DEF w, p, q
    <2>6. w + (p + q) + (old.wcet + rest) = (w + p + old.wcet) + (q + rest)
      BY <1>0, <2>2, <2>5
    <2> QED
      BY <2>3, <2>4, <2>6 DEF w, p, q
  <1> HIDE DEF P, L
  <1> DEFINE b == P(r) + (d - r)
             c == L(s) + (d - s)
  <1>7. PICK m \in 0 .. d : P(m) + L(m) + (d - m) <= b + c /\ P(m) + L(m) + (d - m) \in Int
    <2>0. r \in Nat /\ s \in Nat /\ r <= d /\ s <= d
      OBVIOUS
    <2>1. CASE r <= s
      <3>1. L(r) \in Nat /\ L(s) \in Nat /\ L(r) <= L(s) /\ P(r) \in Nat
        BY <1>3, <1>4, <2>0, <2>1
      <3>2. P(r) + L(r) + (d - r) <= b + c
        BY <2>0, <3>1
      <3> QED
        BY <3>1, <3>2
    <2>2. CASE s <= r
      <3>1. P(s) \in Nat /\ P(r) \in Nat /\ P(s) <= P(r) /\ L(s) \in Nat
        BY <1>3, <1>4, <2>0, <2>2
      <3>2. P(s) + L(s) + (d - s) <= b + c
        BY <2>0, <3>1
      <3> QED
        BY <3>1, <3>2
    <2> QED
      BY <2>0, <2>1, <2>2
  <1>8. b \in Int /\ c \in Int
    <2>1. r <= r /\ s <= s /\ r \in Nat /\ s \in Nat
      OBVIOUS
    <2>2. P(r) \in Nat /\ L(s) \in Nat
      BY <1>3, <1>4, <2>1
    <2> QED
      BY <2>2
  <1> HIDE DEF b, c
  <1> DEFINE a == P(m) + L(m) + (d - m)
  <1>9. Hyper * a <= Hyper * b + Hyper * c
    <2>1. a \in Int /\ a <= b + c /\ b + c \in Int
      BY <1>7, <1>8
    <2> HIDE DEF a
    <2>2. Hyper * a <= Hyper * (b + c)
      BY <1>0, <2>1, ProductGrows
    <2>3. Hyper * (b + c) = Hyper * b + Hyper * c
      BY <1>0, <1>8, Z3
    <2> QED
      BY <2>2, <2>3
  <1>10. Hyper * a <= t.wcet * Hyper + d * sums.util + sums.wcet
    <2> DEFINE y == t.wcet * Hyper + d * old.util + old.wcet
               z == u * d + rest
    <2>1. Hyper * b <= y /\ Hyper * c <= z
      BY <1>1, <1>2 DEF b, c
    <2>2. y \in Int /\ z \in Int /\ Hyper * a \in Int /\ Hyper * b \in Int /\ Hyper * c \in Int
      <3>1. a \in Int
        BY <1>7
      <3> HIDE DEF a, u
      <3>2. /\ Hyper * a \in Int /\ Hyper * b \in Int /\ Hyper * c \in Int
            /\ t.wcet * Hyper \in Int /\ d * old.util \in Int /\ u * d \in Int
            /\ o.wcet * (Hyper - u) \in Int
        <4>1. /\ Hyper \in Int /\ b \in Int /\ c \in Int /\ t.wcet \in Int /\ d \in Int
              /\ old.util \in Int /\ u \in Int /\ o.wcet \in Int /\ Hyper - u \in Int
          BY <1>0, <1>8
        <4> HIDE DEF b, c
        <4> QED
          BY <3>1, <4>1, ProductInt
      <3>3. y \in Int /\ rest \in Int
        <4> DEFINE v == t.wcet * Hyper
                   w == d * old.util
        <4>1. v \in Int /\ w \in Int
          BY <3>2
        <4> HIDE DEF v, w
        <4>2. v + w + old.wcet \in Int
          BY <1>0, <4>1
        <4> QED
          BY <3>2, <4>2 DEF v, w
      <3>4. z \in Int
        <4> DEFINE v == u * d
        <4>1. v \in Int
          BY <3>2
        <4> HIDE DEF v, rest
        <4> QED
          BY <3>3, <4>1 DEF v
      <3> QED
        BY <3>2, <3>3, <3>4
    <2> HIDE DEF y, z, a
    <2>3. Hyper * a <= y + z
      BY <1>9, <2>1, <2>2
    <2> QED
      BY <1>6, <2>3 DEF y, z
  <1>11. Demand(t, Append(others, o), m) + (d - m) = a
    <2>1. m \in Nat
      OBVIOUS
    <2> QED
      BY <1>5, <2>1
  <1> HIDE DEF a
  <1> QED
    BY <1>10, <1>11

\* A task whose deadline is no later than its next arrival.
Limited(t) == t.deadline <= t.inter_arrival

\* The sums are those of a test that has accepted the tasks in others.
Good(others, sums) == Summed(sums) /\ Bounded(others, sums)

(* A task that passes the check meets its bound, if the divisor is not yet *)
(* negative.                                                               *)
LEMMA BoundKept ==
  ASSUME NEW t, Timed(t), NEW sums, Summed(sums), CheckBound(sums, t).ok
  PROVE  /\ sums.ok
         /\ t.wcet * Hyper + sums.wcet <= t.deadline * (Hyper - sums.util)
  <1> DEFINE num == t.wcet * Hyper + sums.wcet
             den == Hyper - sums.util
             d == t.deadline
  <1>1. /\ d \in Nat /\ t.wcet \in Nat
        /\ Hyper \in Nat /\ sums.wcet \in Nat /\ den \in Nat
    BY HyperAssumption DEF Timed, Summed
  <1>2. t.wcet * Hyper \in Nat /\ d * den \in Nat
    <2> HIDE DEF den, d
    <2> QED
      BY <1>1, Z3
  <1>3. sums.ok /\ ~Exceeds(num, den, d)
    BY DEF CheckBound
  <1>4. num \in Nat
    <2> DEFINE w == t.wcet * Hyper
    <2>1. w \in Nat
      BY <1>2
    <2> HIDE DEF w
    <2> QED
      BY <1>1, <2>1 DEF w
  <1>5. num <= d * den
    <2> HIDE DEF num, den, d
    <2>1. CASE den > 0
      BY <1>2, <1>3, <1>4, <2>1 DEF Exceeds
    <2>2. CASE den = 0
      <3>1. ~(num > 0)
        BY <1>3, <2>2 DEF Exceeds
      <3> QED
        BY <1>2, <1>4, <3>1
    <2> QED
      BY <1>1, <2>1, <2>2
  <1> QED
    BY <1>3, <1>5

LEMMA UtilizationTyped ==
  ASSUME NEW t, Timed(t)
  PROVE  Utilization(t) \in Nat
  <1>1. t.wcet * Hyper \in Nat
    <2>1. t.wcet \in Nat /\ Hyper \in Nat
      BY HyperAssumption DEF Timed
    <2> QED
      BY <2>1, Z3
  <1> QED
    BY <1>1, Division DEF Utilization, Timed

(* A task whose upper bound is below its deadline has a utilization that   *)
(* is still left, so the divisor of the next bound is no less than 0.      *)
LEMMA BoundMet ==
  ASSUME NEW t, Timed(t), Whole(t), Limited(t), NEW sums, Summed(sums), CheckBound(sums, t).ok
  PROVE  Utilization(t) \in 0 .. Hyper - sums.util
  <1> DEFINE num == t.wcet * Hyper + sums.wcet
             den == Hyper - sums.util
             d == t.deadline
             T == t.inter_arrival
             u == Utilization(t)
  <1>1. /\ d \in Nat /\ T \in Nat \ {0} /\ d <= T /\ t.wcet \in Nat /\ u * T = t.wcet * Hyper
        /\ Hyper \in Nat /\ sums.wcet \in Nat /\ den \in Nat
    BY HyperAssumption DEF Limited, Timed, Whole, Summed
  <1>2. t.wcet * Hyper \in Nat /\ d * den \in Nat
    <2> HIDE DEF den, d
    <2> QED
      BY <1>1, Z3
  <1>3. num <= d * den
    BY BoundKept
  <1>4. num \in Nat /\ t.wcet * Hyper <= num
    <2> DEFINE w == t.wcet * Hyper
    <2>1. w \in Nat
      BY <1>2
    <2> HIDE DEF w
    <2> QED
      BY <1>1, <2>1 DEF w
  <1>5. u \in Nat
    BY UtilizationTyped
  <1>6. T * u <= T * den
    <2> HIDE DEF num, den, d, T, u
    <2>2. den * d <= den * T
      BY <1>1, ProductGrows
    <2>3. den * d = d * den /\ den * T = T * den /\ u * T = T * u
      BY <1>1, <1>5, Z3
    <2>4. T * u = t.wcet * Hyper /\ T * den \in Int
      BY <1>1, <2>3, Z3
    <2> DEFINE w == t.wcet * Hyper
               x == d * den
               y == T * den
    <2>5. w <= num /\ num <= x /\ x <= y /\ w \in Int /\ x \in Int /\ y \in Int
      BY <1>2, <1>3, <1>4, <2>2, <2>3, <2>4
    <2> HIDE DEF w, x, y
    <2>6. w <= y
      BY <1>4, <2>5
    <2> QED
      BY <2>4, <2>6 DEF w, y
  <1>7. u <= den
    <2> HIDE DEF den, T, u
    <2> SUFFICES ASSUME den + 1 <= u PROVE FALSE
      BY <1>1, <1>5
    <2>1. T * (den + 1) <= T * u
      BY <1>1, <1>5, ProductGrows
    <2>2. T * (den + 1) = T * den + T /\ T * den \in Int /\ T * u \in Int
      BY <1>1, <1>5, Z3
    <2> QED
      BY <1>1, <1>6, <2>1, <2>2
  <1> HIDE DEF den, u
  <1> QED
    BY <1>1, <1>5, <1>7 DEF den, u

(* A task that meets its bound meets its deadline.                         *)
LEMMA BoundFits ==
  ASSUME NEW X, \A x \in X : Timed(x), NEW others \in Seq(X), NEW t, Timed(t),
         NEW sums, Good(others, sums),
         t.wcet * Hyper + sums.wcet <= t.deadline * (Hyper - sums.util)
  PROVE  MeetsDeadline(t, others)
  <1> DEFINE d == t.deadline
  <1>1. /\ Hyper \in Nat \ {0} /\ sums.util \in 0 .. Hyper /\ sums.wcet \in Nat
        /\ t.wcet \in Nat /\ d \in Nat
    BY HyperAssumption DEF Good, Summed, Timed
  <1>2. PICK r \in 0 .. d :
          Hyper * (Demand(t, others, r) + (d - r)) <= t.wcet * Hyper + d * sums.util + sums.wcet
    BY <1>1 DEF Good, Bounded
  <1> DEFINE a == Demand(t, others, r)
  <1>3. a \in Nat /\ r \in Nat
    <2>1. r \in Nat /\ r <= r
      BY <1>1
    <2> QED
      BY <2>1, DemandGrows
  <1>4. Hyper * (a + (d - r)) <= t.wcet * Hyper + d * sums.util + sums.wcet
    BY <1>2
  <1> HIDE DEF a
  <1>5. Hyper * (a + (d - r)) <= Hyper * d
    <2> DEFINE v == t.wcet * Hyper
               w == d * sums.util
               x == d * (Hyper - sums.util)
               y == Hyper * d
               z == Hyper * (a + (d - r))
    <2>1. v \in Int /\ w \in Int /\ x \in Int /\ y \in Int /\ z \in Int /\ x = y - w
      <3> DEFINE b == a + (d - r)
      <3>1. b \in Int
        BY <1>1, <1>3
      <3> HIDE DEF b, d
      <3>2. v \in Int /\ w \in Int /\ x \in Int /\ y \in Int /\ Hyper * b \in Int /\ x = y - w
        BY <1>1, <3>1, Z3
      <3> QED
        BY <3>2 DEF b
    <2>2. z <= v + w + sums.wcet /\ v + sums.wcet <= x
      BY <1>4
    <2> HIDE DEF v, w, x, y, z
    <2>3. z <= y
      BY <1>1, <2>1, <2>2
    <2> QED
      BY <2>3 DEF y, z
  <1>6. a + (d - r) <= d
    <2> DEFINE b == a + (d - r)
    <2>1. b \in Int /\ Hyper * b <= Hyper * d
      BY <1>1, <1>3, <1>5
    <2> HIDE DEF b, d
    <2> SUFFICES ASSUME d + 1 <= b PROVE FALSE
      BY <1>1, <2>1 DEF b
    <2>2. Hyper * (d + 1) <= Hyper * b
      BY <1>1, <2>1, ProductGrows
    <2>3. Hyper * (d + 1) = Hyper * d + Hyper /\ Hyper * d \in Int /\ Hyper * b \in Int
      BY <1>1, <2>1, Z3
    <2> QED
      BY <1>1, <2>1, <2>2, <2>3
  <1>7. a <= r
    BY <1>1, <1>3, <1>6
  <1> QED
    BY <1>2, <1>7 DEF MeetsDeadline, a

(* If its utilization is left, too, every later job is in time as well.    *)
LEMMA JobsFit ==
  ASSUME NEW X, \A x \in X : Timed(x), NEW others \in Seq(X), NEW t, Timed(t), Whole(t),
         NEW sums, Good(others, sums), Utilization(t) \in 0 .. Hyper - sums.util,
         t.wcet * Hyper + sums.wcet <= t.deadline * (Hyper - sums.util)
  PROVE  AlwaysMeets(t, others)
  <1> SUFFICES ASSUME NEW k \in Nat \ {0} PROVE MeetsDeadline(Jobs(k, t), others)
    <2>1. Hyper \div t.inter_arrival \in Nat
      BY HyperAssumption, Division DEF Timed
    <2> QED
      BY <2>1 DEF AlwaysMeets
  <1> DEFINE C == t.wcet
             T == t.inter_arrival
             D == t.deadline
             u == Utilization(t)
             v == Hyper - sums.util
             j == k - 1
             p == j * T
  <1>1. /\ C \in Nat /\ T \in Nat \ {0} /\ D \in Nat /\ j \in Nat /\ u \in 0 .. v /\ v \in Nat
        /\ sums.wcet \in Nat /\ Hyper \in Nat /\ u * T = C * Hyper
        /\ C * Hyper + sums.wcet <= D * v /\ t.prio \in Int
    BY HyperAssumption DEF Timed, Whole, Good, Summed
  <1>2. p \in Nat
    <2> HIDE DEF j, T
    <2> QED
      BY <1>1, Z3
  <1> DEFINE x == Jobs(k, t)
  <1>3. Timed(x) /\ x.wcet = k * C /\ x.deadline = p + D
    <2>1. k * C \in Nat
      <3> HIDE DEF C
      <3> QED
        BY <1>1, Z3
    <2> DEFINE w == k * C
    <2>2. w \in Nat
      BY <2>1
    <2>3. x = [wcet |-> w, deadline |-> p + D, inter_arrival |-> T, prio |-> t.prio]
      BY DEF Jobs
    <2> HIDE DEF p, x, w, C, T, D
    <2>4. p + D \in Nat
      BY <1>1, <1>2
    <2>5. Timed(x) /\ x.wcet = w /\ x.deadline = p + D
      BY <1>1, <2>2, <2>3, <2>4 DEF Timed
    <2> QED
      BY <2>5 DEF w
  <1> HIDE DEF x
  <1>4. (k * C) * Hyper + sums.wcet <= (p + D) * v
    <2> HIDE DEF C, T, D, u, v
    <2>1. (k * C) * Hyper = j * (C * Hyper) + C * Hyper
      <3>1. k = j + 1 /\ j \in Int
        BY <1>1
      <3> HIDE DEF j
      <3>2. ((j + 1) * C) * Hyper = j * (C * Hyper) + C * Hyper
        BY <1>1, Z3
      <3> QED
        BY <3>1, <3>2
    <2> HIDE DEF j
    <2>2. j * (u * T) = p * u
      BY <1>1, Z3
    <2> HIDE DEF p
    <2>3. p * u <= p * v
      BY <1>1, <1>2, ProductGrows
    <2>4. (p + D) * v = p * v + D * v
      BY <1>1, <1>2, Z3
    <2> DEFINE a == C * Hyper
               b == j * a
               c == p * u
               d == p * v
               e == D * v
    <2>5. a \in Int /\ b \in Int /\ c \in Int /\ d \in Int /\ e \in Int
      <3>1. a \in Int /\ c \in Int /\ d \in Int /\ e \in Int
        BY <1>1, <1>2, ProductInt
      <3> HIDE DEF a
      <3> QED
        BY <1>1, <3>1, ProductInt
    <2>6. a = u * T /\ b = c /\ c <= d /\ a + sums.wcet <= e
      BY <1>1, <2>2, <2>3
    <2>7. (k * C) * Hyper = b + a /\ (p + D) * v = d + e
      BY <2>1, <2>4
    <2> HIDE DEF a, b, c, d, e
    <2>8. (b + a) + sums.wcet <= d + e
      BY <1>1, <2>5, <2>6
    <2> QED
      BY <2>7, <2>8
  <1>5. x.wcet * Hyper + sums.wcet <= x.deadline * (Hyper - sums.util)
    BY <1>3, <1>4
  <1> QED
    BY <1>3, <1>5, BoundFits DEF x

\* A test that has come to these sums is sound: it has not lost sight of the tasks
\* it has accepted, or none of them is due after its next arrival.
Trusted(X, sums) == sums.util <= Hyper \/ \A x \in X : Limited(x)

(* A task that passes the check fits behind the tasks already summed up,   *)
(* and the sums stay good whether it is one more of them or one that was   *)
(* added before.                                                           *)
LEMMA CheckSound ==
  ASSUME NEW X, \A x \in X : Timed(x) /\ Whole(x), NEW others \in Seq(X), NEW t \in X,
         NEW sums, Good(others, sums), CheckBound(sums, t).ok,
         Trusted(X, CheckBound(sums, t))
  PROVE  /\ AlwaysMeets(t, others)
         /\ Good(others, CheckBound(sums, t))
         /\ Good(Append(others, t), CheckBound(sums, t))
  <1> DEFINE u == Utilization(t)
             rest == t.wcet * (Hyper - u)
             next == CheckBound(sums, t)
             d == t.deadline
  <1>1. Summed(sums) /\ Bounded(others, sums) /\ Timed(t) /\ Whole(t) /\ \A x \in X : Timed(x)
    BY DEF Good
  <1>2. next.util = sums.util + u /\ next.wcet = sums.wcet + rest
    BY DEF CheckBound
  <1>3. /\ t.wcet * Hyper + sums.wcet <= d * (Hyper - sums.util)
        /\ u \in 0 .. Hyper - sums.util
    <2>1. t.wcet * Hyper + sums.wcet <= d * (Hyper - sums.util)
      BY <1>1, BoundKept
    <2>2. CASE next.util <= Hyper
      <3>1. u \in Nat /\ sums.util \in 0 .. Hyper /\ Hyper \in Nat
        BY <1>1, UtilizationTyped, HyperAssumption DEF Summed
      <3> HIDE DEF u, next
      <3>2. u <= Hyper - sums.util
        BY <1>2, <2>2, <3>1
      <3> QED
        BY <2>1, <3>1, <3>2
    <2>3. CASE \A x \in X : Limited(x)
      <3>1. Limited(t)
        BY <2>3
      <3> QED
        BY <1>1, <2>1, <3>1, BoundMet
    <2> QED
      BY <2>2, <2>3 DEF Trusted
  <1>4. /\ Hyper \in Nat \ {0} /\ sums.util \in 0 .. Hyper /\ sums.wcet \in Nat
        /\ t.wcet \in Nat /\ d \in Nat
    BY <1>1, HyperAssumption DEF Summed, Timed
  <1>5. rest \in Nat
    <2>1. Hyper - u \in Nat
      BY <1>3, <1>4
    <2> QED
      BY <1>4, <2>1, Z3
  <1> HIDE DEF next, rest, u
  <1>6. Summed(next) /\ sums.util <= next.util /\ sums.wcet <= next.wcet /\ u \in 0 .. Hyper
    <2>1. u \in 0 .. Hyper - sums.util /\ u \in Nat
      BY <1>3, <1>4
    <2>2. Hyper \in Nat /\ sums.util \in 0 .. Hyper /\ sums.wcet \in Nat
      BY <1>4
    <2> QED
      BY <1>2, <1>5, <2>1, <2>2 DEF Summed
  <1>7. Good(others, next)
    BY <1>1, <1>6, BoundedMore DEF Good
  <1>8. Good(Append(others, t), next)
    <2>1. Bounded(Append(others, t), next)
      <3>1. Whole(t) /\ Utilization(t) \in 0 .. Hyper
        BY <1>1, <1>6 DEF u
      <3>2. /\ next.util = sums.util + Utilization(t)
            /\ next.wcet = sums.wcet + t.wcet * (Hyper - Utilization(t))
        BY <1>2 DEF u, rest
      <3> QED
        BY <1>1, <1>6, <3>1, <3>2, BoundedAppended
    <2> QED
      BY <1>6, <2>1 DEF Good
  <1>9. AlwaysMeets(t, others)
    <2>1. Good(others, sums) /\ Utilization(t) \in 0 .. Hyper - sums.util
      BY <1>3 DEF u
    <2> QED
      BY <1>1, <1>3, <2>1, JobsFit
  <1> QED
    BY <1>7, <1>8, <1>9 DEF next

-----------------------------------------------------------------------------
(* The sufficient test: its loop                                           *)

\* What a round of the loop makes of the sums when it comes to t.
Round(new, s, t) == CheckBound(IF new.prio >= t.prio THEN CheckBound(s, new) ELSE s, t)

(* The sums are numbers, whether a check passes or not.                    *)
LEMMA CheckTyped ==
  ASSUME NEW D, D = [ok : BOOLEAN, util : Int, wcet : Int], NEW s \in D, NEW t, Timed(t)
  PROVE  CheckBound(s, t) \in D
  <1>1. /\ t.wcet \in Nat /\ t.inter_arrival \in Nat \ {0} /\ t.deadline \in Nat
        /\ Hyper \in Nat /\ s.util \in Int /\ s.wcet \in Int /\ s.ok \in BOOLEAN
    BY HyperAssumption DEF Timed
  <1>2. Utilization(t) \in Int
    <2>1. t.wcet * Hyper \in Nat
      BY <1>1, Z3
    <2> QED
      BY <1>1, <2>1, Division DEF Utilization
  <1>3. t.wcet * (Hyper - Utilization(t)) \in Int
    BY <1>1, <1>2, Z3
  <1> DEFINE bad == Exceeds(t.wcet * Hyper + s.wcet, Hyper - s.util, t.deadline)
  <1>4. CheckBound(s, t) = [ok |-> s.ok /\ ~bad, util |-> s.util + Utilization(t),
                            wcet |-> s.wcet + t.wcet * (Hyper - Utilization(t))]
    BY DEF CheckBound
  <1>5. (s.ok /\ ~bad) \in BOOLEAN
    OBVIOUS
  <1> DEFINE rest == t.wcet * (Hyper - Utilization(t))
             util == s.util + Utilization(t)
             ok == s.ok /\ ~bad
  <1>6. util \in Int /\ s.wcet + rest \in Int /\ ok \in BOOLEAN
    <2>1. rest \in Int
      BY <1>3
    <2> HIDE DEF rest
    <2> QED
      BY <1>1, <1>2, <1>5, <2>1
  <1>7. CheckBound(s, t) = [ok |-> ok, util |-> util, wcet |-> s.wcet + rest]
    BY <1>4
  <1> HIDE DEF ok, util, rest
  <1> QED
    BY <1>6, <1>7

\* f holds the sums of the loop over the queue.
TestSums(new, queue, f) ==
  /\ f[0] = [ok |-> TRUE, util |-> 0, wcet |-> 0]
  /\ \A i \in 1 .. Len(queue) : f[i] = Round(new, f[i - 1], queue[i])
  /\ \A i \in 0 .. Len(queue) : f[i].util \in Int

\* The sums the test ends with.
Final(new, queue, f) ==
  LET n == Len(queue)
  IN  IF new.prio < queue[n].prio THEN CheckBound(f[n], new) ELSE f[n]

(* The loop has sums, and the test ends with them.                         *)
LEMMA LoopSums ==
  ASSUME NEW X, \A x \in X : Timed(x), NEW queue \in Seq(X), queue # <<>>, NEW new \in X
  PROVE  \E f : TestSums(new, queue, f) /\ FpSums(new, queue) = Final(new, queue, f)
  <1> DEFINE n == Len(queue)
             base == [ok |-> TRUE, util |-> 0, wcet |-> 0]
             D == [ok : BOOLEAN, util : Int, wcet : Int]
             next(i, s) == CheckBound(IF new.prio >= queue[i].prio THEN CheckBound(s, new) ELSE s,
                                      queue[i])
             step == [i \in Nat |-> [s \in D |-> IF i \in 1 .. n THEN next(i, s) ELSE s]]
             Loop(f) == f = [i \in 0 .. n |-> IF i = 0 THEN base ELSE next(i, f[i - 1])]
             sums == CHOOSE f : Loop(f)
  <1>1. n \in Nat /\ n > 0 /\ Timed(new) /\ \A i \in 1 .. n : Timed(queue[i])
    OBVIOUS
  <1>2. base \in D
    OBVIOUS
  <1>3. \A s \in D, i \in 1 .. n : next(i, s) \in D
    <2> SUFFICES ASSUME NEW s \in D, NEW i \in 1 .. n PROVE next(i, s) \in D
      OBVIOUS
    <2>1. CheckBound(s, new) \in D
      BY <1>1, CheckTyped
    <2>2. \A r \in D : CheckBound(r, queue[i]) \in D
      BY <1>1, CheckTyped
    <2> HIDE DEF D
    <2> QED
      BY <2>1, <2>2
  <1>4. FpSums(new, queue) =
          IF new.prio < queue[n].prio THEN CheckBound(sums[n], new) ELSE sums[n]
    BY DEF FpSums, Last
  <1> HIDE DEF next, D, base
  <1>5. step \in Rounds(D)
    <2> HIDE DEF n
    <2> QED
      BY <1>3 DEF Rounds
  <1>6. PICK f \in [0 .. n -> D] : \A i \in 0 .. n : f[i] = IF i = 0 THEN base ELSE step[i][f[i - 1]]
    <2> HIDE DEF n, step
    <2>1. \E f : Results(D, base, step, n, f)
      BY <1>1, <1>2, <1>5, LoopExists
    <2> QED
      BY <2>1 DEF Results
  <1> HIDE DEF n
  <1>7. Loop(f)
    <2>1. ASSUME NEW i \in 0 .. n, i # 0 PROVE step[i][f[i - 1]] = next(i, f[i - 1])
      <3>1. i \in 1 .. n /\ i \in Nat /\ i - 1 \in 0 .. n
        BY <1>1, <2>1
      <3>2. f[i - 1] \in D
        BY <3>1
      <3> QED
        BY <3>1, <3>2
    <2> HIDE DEF step
    <2>2. \A i \in 0 .. n : f[i] = IF i = 0 THEN base ELSE next(i, f[i - 1])
      BY <1>6, <2>1
    <2>3. f = [i \in 0 .. n |-> f[i]]
      OBVIOUS
    <2> QED
      BY <2>2, <2>3
  <1>8. Loop(sums)
    <2> HIDE DEF Loop
    <2> QED
      BY <1>7
  <1> HIDE DEF sums
  <1>9. sums[0] = base /\ \A i \in 1 .. n : sums[i] = next(i, sums[i - 1])
    <2>1. 0 \in 0 .. n /\ \A i \in 1 .. n : i \in 0 .. n /\ i # 0
      BY <1>1
    <2> QED
      BY <1>8, <2>1
  <1>10. \A i \in 1 .. n : sums[i] = Round(new, sums[i - 1], queue[i])
    BY <1>9 DEF Round, next
  <1>11. \A i \in 0 .. n : sums[i].util \in Int
    <2> DEFINE S == {i \in Nat : i <= n => sums[i] \in D}
    <2>1. 0 \in S
      BY <1>2, <1>9
    <2>2. ASSUME NEW i \in Nat, i \in S PROVE i + 1 \in S
      <3> SUFFICES ASSUME i + 1 <= n PROVE sums[i + 1] \in D
        OBVIOUS
      <3>1. i + 1 \in 1 .. n /\ (i + 1) - 1 = i /\ sums[i] \in D
        BY <1>1, <2>2
      <3>2. sums[i + 1] = next(i + 1, sums[i])
        BY <1>9, <3>1
      <3> QED
        BY <1>3, <3>1, <3>2
    <2>3. \A i \in 0 .. n : sums[i] \in D
      <3> HIDE DEF S
      <3>1. \A i \in Nat : i \in S
        BY <2>1, <2>2, SetInduction
      <3> QED
        BY <1>1, <3>1 DEF S
    <2> QED
      BY <2>3 DEF D
  <1> HIDE DEF Loop
  <1> QED
    BY <1>4, <1>9, <1>10, <1>11 DEF base, n, TestSums, Final

(* A queue that fits and a task that meets its deadlines behind it.        *)
LEMMA SchedulableAppended ==
  ASSUME NEW X, NEW others \in Seq(X), NEW t \in X, AlwaysSchedulable(others), AlwaysMeets(t, others)
  PROVE  AlwaysSchedulable(Append(others, t))
  <1> DEFINE n == Len(others)
             more == Append(others, t)
  <1>1. /\ n \in Nat /\ more \in Seq(X) /\ DOMAIN more = 1 .. n + 1 /\ more[n + 1] = t
        /\ DOMAIN others = 1 .. n /\ \A i \in 1 .. n : more[i] = others[i]
    OBVIOUS
  <1> SUFFICES ASSUME NEW i \in 1 .. n + 1 PROVE AlwaysMeets(more[i], SubSeq(more, 1, i - 1))
    BY <1>1 DEF AlwaysSchedulable
  <1>2. SubSeq(more, 1, i - 1) = SubSeq(others, 1, i - 1)
    <2> DEFINE k == i - 1
               a == SubSeq(more, 1, k)
               b == SubSeq(others, 1, k)
    <2>1. k \in 0 .. n
      BY <1>1
    <2>2. a \in Seq(X) /\ Len(a) = k /\ \A j \in 1 .. k : a[j] = more[j]
      <3> HIDE DEF more, k
      <3> QED
        BY <1>1, <2>1
    <2>3. b \in Seq(X) /\ Len(b) = k /\ \A j \in 1 .. k : b[j] = others[j]
      <3> HIDE DEF k
      <3> QED
        BY <1>1, <2>1
    <2> HIDE DEF a, b, more, k
    <2>4. \A j \in 1 .. k : a[j] = b[j]
      BY <1>1, <2>1, <2>2, <2>3
    <2>5. a = b
      BY <2>2, <2>3, <2>4, SeqEqual
    <2> QED
      BY <2>5 DEF a, b, k
  <1>3. CASE i = n + 1
    <2>1. SubSeq(others, 1, i - 1) = others
      <3>1. i - 1 = n
        BY <1>1, <1>3
      <3> DEFINE a == SubSeq(others, 1, n)
      <3>2. a \in Seq(X) /\ Len(a) = n /\ \A j \in 1 .. n : a[j] = others[j]
        BY <1>1
      <3> HIDE DEF a
      <3>3. a = others
        BY <3>2, SeqEqual
      <3> QED
        BY <3>1, <3>3 DEF a
    <2> HIDE DEF more
    <2> QED
      BY <1>1, <1>2, <1>3, <2>1
  <1>4. CASE i # n + 1
    <2>1. i \in 1 .. n
      BY <1>1, <1>4
    <2>2. AlwaysMeets(others[i], SubSeq(others, 1, i - 1))
      BY <1>1, <2>1 DEF AlwaysSchedulable
    <2> HIDE DEF more
    <2> QED
      BY <1>1, <1>2, <2>1, <2>2
  <1> QED
    BY <1>3, <1>4

(* A prefix and the element after it.                                      *)
LEMMA PrefixAppended ==
  ASSUME NEW X, NEW s \in Seq(X), NEW k \in 0 .. Len(s) - 1
  PROVE  /\ SubSeq(s, 1, k) \in Seq(X)
         /\ s[k + 1] \in X
         /\ SubSeq(s, 1, k + 1) = Append(SubSeq(s, 1, k), s[k + 1])
  <1> DEFINE a == SubSeq(s, 1, k)
             b == SubSeq(s, 1, k + 1)
             c == Append(a, s[k + 1])
  <1>1. k \in Nat /\ s[k + 1] \in X
    OBVIOUS
  <1>2. a \in Seq(X) /\ Len(a) = k /\ \A j \in 1 .. k : a[j] = s[j]
    BY <1>1
  <1>3. b \in Seq(X) /\ Len(b) = k + 1 /\ \A j \in 1 .. k + 1 : b[j] = s[j]
    BY <1>1
  <1> HIDE DEF a, b
  <1>4. c \in Seq(X) /\ Len(c) = k + 1 /\ c[k + 1] = s[k + 1] /\ \A j \in 1 .. k : c[j] = s[j]
    BY <1>1, <1>2
  <1> HIDE DEF c
  <1>5. \A j \in 1 .. k + 1 : b[j] = c[j]
    <2> SUFFICES ASSUME NEW j \in 1 .. k + 1 PROVE b[j] = c[j]
      OBVIOUS
    <2>1. j \in 1 .. k \/ j = k + 1
      BY <1>1
    <2> QED
      BY <1>3, <1>4, <2>1
  <1>6. b = c
    BY <1>3, <1>4, <1>5, SeqEqual
  <1> QED
    BY <1>1, <1>2, <1>6 DEF a, b, c

(* What is trusted in the end was trusted all along: sum_util only grows.  *)
LEMMA TrustedBefore ==
  ASSUME NEW X, NEW sums, sums.util \in Int, NEW t, Timed(t), Trusted(X, CheckBound(sums, t))
  PROVE  Trusted(X, sums)
  <1>1. Utilization(t) \in Nat /\ Hyper \in Nat
    BY UtilizationTyped, HyperAssumption
  <1>2. CheckBound(sums, t).util = sums.util + Utilization(t)
    BY DEF CheckBound
  <1> DEFINE u == Utilization(t)
             next == CheckBound(sums, t)
  <1> HIDE DEF u, next
  <1>3. next.util <= Hyper => sums.util <= Hyper
    BY <1>1, <1>2 DEF u, next
  <1> QED
    BY <1>3 DEF Trusted, next

(* fp_sufficient_test is sound as long as the utilizations it sums up are  *)
(* no more than 1, and for tasks whose deadlines are no later than their   *)
(* next arrival always: if it accepts a new task, every job of the run     *)
(* queue, sorted by priority, meets its deadline with the task at its      *)
(* place, although the code checks and adds the new task again before      *)
(* every element it is not below.                                          *)
THEOREM AcceptedFits ==
  ASSUME NEW X, \A x \in X : Timed(x) /\ Whole(x), NEW queue \in Seq(X), queue # <<>>,
         Sorted(queue), NEW new \in X, FpSufficientTest(new, queue),
         \/ FpSums(new, queue).util <= Hyper
         \/ \A x \in X : x.deadline <= x.inter_arrival
  PROVE  AlwaysSchedulable(Placed(new, queue))
  <1> DEFINE n == Len(queue)
  <1>0. \A x \in X : Timed(x)
    OBVIOUS
  <1>1. n \in Nat /\ n > 0 /\ new.prio \in Int /\ \A i \in 1 .. n : queue[i].prio \in Int
    BY <1>0 DEF Timed
  <1>2. PICK m \in 0 .. n :
          /\ \A i \in 1 .. n : queue[i].prio > new.prio <=> i <= m
          /\ Placed(new, queue) = InsertAt(queue, m + 1, new)
    BY <1>0, PlacedAfter
  <1> DEFINE q == InsertAt(queue, m + 1, new)
  <1>3. /\ q \in Seq(X) /\ Len(q) = n + 1
        /\ \A k \in 1 .. m : q[k] = queue[k]
        /\ q[m + 1] = new
        /\ \A k \in m + 2 .. n + 1 : q[k] = queue[k - 1]
    <2>1. q \in Seq(X) /\ Inserted(queue, m, new, q)
      BY InsertedValue
    <2> HIDE DEF q
    <2> QED
      BY <2>1 DEF Inserted
  <1>4. PICK f :
          /\ f[0] = [ok |-> TRUE, util |-> 0, wcet |-> 0]
          /\ \A i \in 1 .. n : f[i] = Round(new, f[i - 1], queue[i])
          /\ \A i \in 0 .. n : f[i].util \in Int
          /\ LET s == IF new.prio < queue[n].prio THEN CheckBound(f[n], new) ELSE f[n]
             IN  s.ok /\ Trusted(X, s)
    <2>1. FpSums(new, queue).ok /\ Trusted(X, FpSums(new, queue))
      BY DEF FpSufficientTest, Trusted, Limited
    <2>2. PICK f : TestSums(new, queue, f) /\ FpSums(new, queue) = Final(new, queue, f)
      BY <1>0, LoopSums
    <2> QED
      BY <2>1, <2>2 DEF TestSums, Final
  <1> HIDE DEF q
  <1> DEFINE P(k) == SubSeq(q, 1, k)
             Fits(k, s) == s.ok /\ Trusted(X, s) => Good(P(k), s) /\ AlwaysSchedulable(P(k))
  <1>5. ASSUME NEW k \in 0 .. n, NEW s, s.util \in Int, NEW t, t = q[k + 1], Fits(k, s)
        PROVE  Fits(k + 1, CheckBound(s, t))
    <2> SUFFICES ASSUME CheckBound(s, t).ok, Trusted(X, CheckBound(s, t))
                 PROVE  Good(P(k + 1), CheckBound(s, t)) /\ AlwaysSchedulable(P(k + 1))
      OBVIOUS
    <2>1. k \in 0 .. Len(q) - 1
      BY <1>1, <1>3
    <2>2. P(k) \in Seq(X) /\ t \in X /\ P(k + 1) = Append(P(k), t)
      <3> HIDE DEF n
      <3> QED
        BY <1>3, <1>5, <2>1, PrefixAppended
    <2>3. s.ok /\ Trusted(X, s)
      BY <1>0, <1>5, <2>2, TrustedBefore DEF CheckBound
    <2>4. Good(P(k), s) /\ AlwaysSchedulable(P(k))
      BY <1>5, <2>3
    <2> HIDE DEF P
    <2>5. AlwaysMeets(t, P(k)) /\ Good(Append(P(k), t), CheckBound(s, t))
      BY <2>2, <2>4, CheckSound
    <2>6. AlwaysSchedulable(Append(P(k), t))
      BY <2>2, <2>4, <2>5, SchedulableAppended
    <2> QED
      BY <2>2, <2>5, <2>6
  <1>6. ASSUME NEW k \in 0 .. n + 1, NEW s, s.util \in Int, Fits(k, s)
        PROVE  Fits(k, CheckBound(s, new))
    <2> SUFFICES ASSUME CheckBound(s, new).ok, Trusted(X, CheckBound(s, new))
                 PROVE  Good(P(k), CheckBound(s, new)) /\ AlwaysSchedulable(P(k))
      OBVIOUS
    <2>1. P(k) \in Seq(X)
      BY <1>3
    <2>2. s.ok /\ Trusted(X, s)
      BY <1>0, <1>6, TrustedBefore DEF CheckBound
    <2>3. Good(P(k), s) /\ AlwaysSchedulable(P(k))
      BY <1>6, <2>2
    <2> HIDE DEF P
    <2>4. Good(P(k), CheckBound(s, new))
      BY <2>1, <2>3, CheckSound
    <2> QED
      BY <2>3, <2>4
  <1> HIDE DEF Fits, P, n
  <1> DEFINE place(i) == IF i <= m THEN i ELSE i + 1
             S == {i \in Nat : i <= n => Fits(place(i), f[i])}
  <1>7. 0 \in S
    <2>1. place(0) = 0 /\ P(0) = <<>>
      <3>1. SubSeq(q, 1, 0) = <<>>
        BY <1>3
      <3> QED
        BY <1>1, <3>1 DEF P
    <2>2. Bounded(<<>>, f[0]) /\ Summed(f[0])
      <3>1. f[0].util = 0 /\ f[0].wcet = 0
        BY <1>4
      <3>2. Summed(f[0])
        BY <3>1, HyperAssumption DEF Summed
      <3> QED
        BY <1>0, <3>1, <3>2, NoneBounded
    <2>3. AlwaysSchedulable(<<>>)
      BY DEF AlwaysSchedulable
    <2> HIDE DEF place
    <2>4. Fits(place(0), f[0])
      BY <2>1, <2>2, <2>3 DEF Fits, Good
    <2> QED
      BY <2>4
  <1>8. ASSUME NEW i \in Nat, i \in S PROVE i + 1 \in S
    <2> SUFFICES ASSUME i + 1 <= n PROVE Fits(place(i + 1), f[i + 1])
      OBVIOUS
    <2> DEFINE t == queue[i + 1]
               r == CheckBound(f[i], new)
    <2>1. i + 1 \in 1 .. n /\ (i + 1) - 1 = i /\ i <= n /\ m \in Nat /\ m <= n
      BY <1>1
    <2>2. f[i + 1] = Round(new, f[i], t) /\ Fits(place(i), f[i]) /\ f[i].util \in Int
      BY <1>4, <1>8, <2>1
    <2>3. t.prio > new.prio <=> i + 1 <= m
      BY <1>2, <2>1
    <2>4. new.prio \in Int /\ t.prio \in Int
      BY <1>1, <2>1
    <2> HIDE DEF t, r
    <2>5. CASE i + 1 <= m
      <3>1. f[i + 1] = CheckBound(f[i], t)
        BY <2>2, <2>3, <2>4, <2>5 DEF Round
      <3>2. i \in 0 .. n /\ t = q[i + 1] /\ place(i) = i /\ place(i + 1) = i + 1
        <4>1. i + 1 \in 1 .. m
          BY <2>1, <2>5
        <4> QED
          BY <1>3, <2>1, <2>5, <4>1 DEF t
      <3> QED
        BY <1>5, <2>2, <3>1, <3>2
    <2>6. CASE i + 1 > m
      <3>1. f[i + 1] = CheckBound(r, t)
        BY <2>2, <2>3, <2>4, <2>6, <2>1 DEF Round, r
      <3>2. r.util \in Int
        <4>1. r.util = f[i].util + Utilization(new) /\ Utilization(new) \in Int
          BY <1>0, UtilizationTyped DEF r, CheckBound
        <4> QED
          BY <2>2, <4>1
      <3>3. i + 1 \in 0 .. n /\ t = q[(i + 1) + 1] /\ place(i + 1) = (i + 1) + 1
        <4>1. i + 2 \in m + 2 .. n + 1 /\ (i + 2) - 1 = i + 1 /\ (i + 1) + 1 = i + 2
          BY <1>1, <2>1, <2>6
        <4>2. q[i + 2] = queue[i + 1]
          BY <1>3, <4>1
        <4> QED
          BY <2>1, <2>6, <4>1, <4>2 DEF t
      <3>4. Fits(i + 1, r)
        <4>1. CASE i = m
          <5>1. i \in 0 .. n /\ new = q[i + 1] /\ place(i) = i
            BY <1>3, <2>1, <4>1
          <5> QED
            BY <1>5, <2>2, <5>1 DEF r
        <4>2. CASE i > m
          <5>1. i + 1 \in 0 .. n + 1 /\ place(i) = i + 1
            BY <1>1, <2>1, <4>2
          <5> QED
            BY <1>6, <2>2, <5>1 DEF r
        <4> QED
          BY <2>1, <2>6, <4>1, <4>2
      <3>5. Fits((i + 1) + 1, CheckBound(r, t))
        BY <1>5, <3>2, <3>3, <3>4
      <3> QED
        BY <3>1, <3>3, <3>5
    <2> QED
      BY <2>1, <2>5, <2>6
  <1>9. Fits(place(n), f[n]) /\ f[n].util \in Int
    <2>1. n \in S
      <3> HIDE DEF S
      <3> QED
        BY <1>1, <1>7, <1>8, SetInduction
    <2> QED
      BY <1>1, <1>4, <2>1
  <1>10. P(n + 1) = q /\ n \in 1 .. n
    <2> DEFINE a == SubSeq(q, 1, n + 1)
    <2>1. a \in Seq(X) /\ Len(a) = n + 1 /\ \A j \in 1 .. n + 1 : a[j] = q[j]
      BY <1>1, <1>3
    <2> HIDE DEF a
    <2>2. a = q
      BY <1>3, <2>1, SeqEqual
    <2> QED
      BY <1>1, <2>2 DEF a, P
  <1>11. AlwaysSchedulable(P(n + 1))
    <2>1. CASE m = n
      <3>1. queue[n].prio > new.prio /\ place(n) = n
        BY <1>1, <1>2, <1>10, <2>1
      <3>2. CheckBound(f[n], new).ok /\ Trusted(X, CheckBound(f[n], new))
        BY <1>1, <1>4, <1>10, <3>1
      <3>3. n \in 0 .. n /\ new = q[n + 1]
        BY <1>1, <1>3, <2>1
      <3>4. Fits(n + 1, CheckBound(f[n], new))
        BY <1>5, <1>9, <3>1, <3>3
      <3> QED
        BY <3>2, <3>4 DEF Fits
    <2>2. CASE m # n
      <3>1. ~(queue[n].prio > new.prio) /\ place(n) = n + 1
        BY <1>1, <1>2, <1>10, <2>2
      <3>2. f[n].ok /\ Trusted(X, f[n])
        BY <1>1, <1>4, <1>10, <3>1
      <3>3. Fits(n + 1, f[n])
        BY <1>9, <3>1
      <3> QED
        BY <3>2, <3>3 DEF Fits
    <2> QED
      BY <2>1, <2>2
  <1> QED
    BY <1>2, <1>10, <1>11 DEF q

===============================================================================
