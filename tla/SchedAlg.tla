------------------------------- MODULE SchedAlg -------------------------------
(***************************************************************************)
(* The schedulability tests of src/sched_controller/sched_alg.cc.          *)
(*                                                                         *)
(* A test is given the new task and the run queue as the sequence of the   *)
(* records it walks over, beginning with the first element.  A task is a   *)
(* record with (at least) prio, wcet, inter_arrival and deadline; a larger *)
(* prio is a higher priority.                                              *)
(*                                                                         *)
(* The doubles of the sufficient test are fractions with the denominator   *)
(* Hyper.  With inter-arrival times that are powers of two the doubles are *)
(* exact, so nothing is lost by it.                                        *)
(***************************************************************************)
EXTENDS Integers, Sequences, FiniteSets, SequencesExt

CONSTANT Hyper   \* a common multiple of all inter-arrival times

ASSUME HyperAssumption == Hyper \in Nat \ {0}

-----------------------------------------------------------------------------
(* _compute_repsonse_time *)

Ceiling(a, b) == (a + b - 1) \div b

\* Processor time asked for in r ticks: one job of t and all of the others.
Demand(t, others, r) ==
  LET sum[i \in 0 .. Len(others)] ==
        IF i = 0 THEN t.wcet
        ELSE sum[i - 1] + Ceiling(r, others[i].inter_arrival) * others[i].wcet
  IN  sum[Len(others)]

\* The iteration of the code, from the wcet up to the deadline or a fixpoint.
ResponseTimeMet(t, others) ==
  LET settles[old \in Nat] ==
        LET new == Demand(t, others, old)
        IN  new <= t.deadline /\ (new <= old \/ settles[new])
  IN  settles[t.wcet]

-----------------------------------------------------------------------------
(* RTA.  walk has one record more than the queue has elements, as the code *)
(* looks one record ahead; last is what get_last_element points to.        *)

\* Deviation: the task under test is counted among those before it.
RTACountsItself(new, walk, last) ==
  LET n == Len(walk) - 1
      Before(i) == SubSeq(walk, 1, i)
  IN  IF n = 0 THEN TRUE
      ELSE IF new.prio < last.prio THEN ResponseTimeMet(new, Before(n))
      ELSE \A i \in 1 .. n :
             walk[i].prio <= new.prio =>
               ResponseTimeMet(walk[i], Append(Before(i), new))

\* Deviation: the last element is left out when the new task comes after it.
RTAForgetsLast(new, walk, last) ==
  LET n == Len(walk) - 1
      Before(i) == SubSeq(walk, 1, i)
  IN  IF n = 0 THEN TRUE
      ELSE IF new.prio < last.prio THEN ResponseTimeMet(new, Before(n - 1))
      ELSE \A i \in 1 .. n :
             walk[i].prio <= new.prio =>
               ResponseTimeMet(walk[i], Append(Before(i - 1), new))

RTA(new, walk, last) ==
  LET n == Len(walk) - 1
      Before(i) == SubSeq(walk, 1, i)
  IN  IF n = 0 THEN TRUE
      ELSE IF new.prio < last.prio THEN ResponseTimeMet(new, Before(n))
      ELSE \A i \in 1 .. n :
             /\ walk[i].prio <= new.prio =>
                  ResponseTimeMet(walk[i], Append(Before(i - 1), new))
             /\ (i > 1 /\ walk[i].prio > new.prio /\ walk[i + 1].prio <= new.prio) =>
                  ResponseTimeMet(new, Before(i))

-----------------------------------------------------------------------------
(* fp_sufficient_test *)

\* num / den > deadline as doubles compare, also for den <= 0.
Exceeds(num, den, deadline) ==
  CASE den > 0 -> num > deadline * den
    [] den = 0 -> num > 0
    [] OTHER   -> num < deadline * den

Utilization(t) == (t.wcet * Hyper) \div t.inter_arrival

\* Deviation: a task's utilization is added, its sum_util_wcet is not.
CheckBoundWithoutRest(s, t) ==
  [ok |-> s.ok /\ ~Exceeds(t.wcet * Hyper + s.wcet, Hyper - s.util, t.deadline),
   util |-> s.util + Utilization(t),
   wcet |-> s.wcet]

\* Compares the bound R_ub of t with its deadline, then adds t to the sums.
CheckBound(s, t) ==
  [ok |-> s.ok /\ ~Exceeds(t.wcet * Hyper + s.wcet, Hyper - s.util, t.deadline),
   util |-> s.util + Utilization(t),
   wcet |-> s.wcet + t.wcet * (Hyper - Utilization(t))]

\* The new task is checked and added before every element it is not below, and
\* once at the end if it is below the last one.
FpSums(new, queue) ==
  LET Round(s, t) == CheckBound(IF new.prio >= t.prio THEN CheckBound(s, new) ELSE s, t)
      sums[i \in 0 .. Len(queue)] ==
        IF i = 0 THEN [ok |-> TRUE, util |-> 0, wcet |-> 0]
        ELSE Round(sums[i - 1], queue[i])
      all == sums[Len(queue)]
  IN  IF new.prio < Last(queue).prio THEN CheckBound(all, new) ELSE all

FpSufficientTest(new, queue) == queue = <<>> \/ FpSums(new, queue).ok

-----------------------------------------------------------------------------
(* The reference: time-demand analysis of fixed priorities, from a moment  *)
(* at which all tasks ask for the processor at once.                       *)

Sorted(queue) == \A i \in 1 .. Len(queue) - 1 : queue[i].prio >= queue[i + 1].prio

\* The first job of t is done in time.
MeetsDeadline(t, higher) == \E r \in 0 .. t.deadline : Demand(t, higher, r) <= r

Schedulable(queue) ==
  \A i \in DOMAIN queue : MeetsDeadline(queue[i], SubSeq(queue, 1, i - 1))

\* The first k jobs of t as one, due when the last of them is.
Jobs(k, t) ==
  [wcet |-> k * t.wcet, deadline |-> (k - 1) * t.inter_arrival + t.deadline,
   inter_arrival |-> t.inter_arrival, prio |-> t.prio]

\* So is every job.  A deadline may be later than the next arrival; a job then
\* waits for those of its own task before it, too.
AlwaysMeets(t, higher) ==
  \A k \in 1 .. Hyper \div t.inter_arrival : MeetsDeadline(Jobs(k, t), higher)

AlwaysSchedulable(queue) ==
  \A i \in DOMAIN queue : AlwaysMeets(queue[i], SubSeq(queue, 1, i - 1))

\* The queue with the new task at its place, before those of equal priority.
Placed(new, queue) ==
  InsertAt(queue, Cardinality({i \in DOMAIN queue : queue[i].prio > new.prio}) + 1, new)
======================================================================
