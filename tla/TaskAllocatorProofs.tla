-------------------------- MODULE TaskAllocatorProofs --------------------------
(***************************************************************************)
(* Proofs about the allocator: what it settles on is a run queue it asked, *)
(* an idle core is preferred, and the raw clients and enq keep the words   *)
(* of the rings in step.                                                   *)
(***************************************************************************)
EXTENDS TaskAllocator, SchedControllerProofs, NumberLemmas

\* What is known of the measurements: the core measured was idle in as many
\* ticks as it slept, if it was idle ever since the call began, and of the cores
\* compared the best has utilization 0 if one of them was that idle.
Measured ==
  alloc.pc # "idle" =>
    /\ alloc.slept \in Nat
    /\ alloc.idled \in Nat
    /\ alloc.idled <= alloc.slept
    /\ alloc.todo # <<>> /\ Head(alloc.todo) \in resting => alloc.idled = alloc.slept
    /\ ~alloc.late /\ alloc.seen \subseteq 0 .. 3 =>
         /\ alloc.util \in {0, 1, 100}
         /\ alloc.util = 0 => alloc.best \in alloc.rested
         /\ alloc.seen \cap resting # {} => alloc.util = 0

\* The call is a record of these fields.
Called ==
  alloc.pc # "idle" =>
    alloc = [pc |-> "sleep", task |-> alloc.task, best |-> alloc.best, util |-> alloc.util,
             todo |-> alloc.todo, slept |-> alloc.slept, idled |-> alloc.idled,
             seen |-> alloc.seen, rested |-> alloc.rested, late |-> alloc.late]

AllocInv == Called /\ Measured

(* A quotient below two tells only whether the whole divisor is there.     *)
LEMMA Quotient ==
  ASSUME NEW n \in Nat, NEW d \in Nat \ {0}, n < 2 * d
  PROVE  n \div d = IF n >= d THEN 1 ELSE 0
  BY Z3

LEMMA ComparedRecord ==
  ASSUME NEW a, NEW best, NEW util, NEW todo, NEW seen, NEW rested, NEW late,
         a = [pc |-> "sleep", task |-> a.task, best |-> a.best, util |-> a.util,
              todo |-> a.todo, slept |-> a.slept, idled |-> a.idled,
              seen |-> a.seen, rested |-> a.rested, late |-> a.late]
  PROVE  [a EXCEPT !.todo = todo, !.seen = seen, !.rested = rested, !.late = late,
                   !.slept = 0, !.idled = 0] =
           [pc |-> "sleep", task |-> a.task, best |-> a.best, util |-> a.util,
            todo |-> todo, slept |-> 0, idled |-> 0,
            seen |-> seen, rested |-> rested, late |-> late]
  <1> DEFINE q1 == [a EXCEPT !.todo = todo]
             q2 == [q1 EXCEPT !.seen = seen]
             q3 == [q2 EXCEPT !.rested = rested]
             q4 == [q3 EXCEPT !.late = late]
             q5 == [q4 EXCEPT !.slept = 0]
             q6 == [q5 EXCEPT !.idled = 0]
  <1>1. q1 = [pc |-> "sleep", task |-> a.task, best |-> a.best, util |-> a.util,
             todo |-> todo, slept |-> a.slept, idled |-> a.idled,
             seen |-> a.seen, rested |-> a.rested, late |-> a.late]
    OBVIOUS
  <1> HIDE DEF q1
  <1>2. q2 = [pc |-> "sleep", task |-> a.task, best |-> a.best, util |-> a.util,
             todo |-> todo, slept |-> a.slept, idled |-> a.idled,
             seen |-> seen, rested |-> a.rested, late |-> a.late]
    BY <1>1
  <1> HIDE DEF q2
  <1>3. q3 = [pc |-> "sleep", task |-> a.task, best |-> a.best, util |-> a.util,
             todo |-> todo, slept |-> a.slept, idled |-> a.idled,
             seen |-> seen, rested |-> rested, late |-> a.late]
    BY <1>2
  <1> HIDE DEF q3
  <1>4. q4 = [pc |-> "sleep", task |-> a.task, best |-> a.best, util |-> a.util,
             todo |-> todo, slept |-> a.slept, idled |-> a.idled,
             seen |-> seen, rested |-> rested, late |-> late]
    BY <1>3
  <1> HIDE DEF q4
  <1>5. q5 = [pc |-> "sleep", task |-> a.task, best |-> a.best, util |-> a.util,
             todo |-> todo, slept |-> 0, idled |-> a.idled,
             seen |-> seen, rested |-> rested, late |-> late]
    BY <1>4
  <1> HIDE DEF q5
  <1>6. q6 = [pc |-> "sleep", task |-> a.task, best |-> a.best, util |-> a.util,
             todo |-> todo, slept |-> 0, idled |-> 0,
             seen |-> seen, rested |-> rested, late |-> late]
    BY <1>5
  <1> QED
    BY <1>6 DEF q1, q2, q3, q4, q5, q6

-----------------------------------------------------------------------------
(* An idle core is preferred.                                              *)

LEMMA AllocInitInv == AllocInit => AllocInv
  BY DEF AllocInit, NoCall, AllocInv, Called, Measured

(* A new call has compared nothing, and measured nothing of its first core.*)
LEMMA AllocateTaskStep ==
  ASSUME NEW t \in Tasks, AllocateTask(t)
  PROVE  AllocInv'
  <1> DEFINE todo == [k \in 1 .. numCores |-> k - 1] \o WhichRunqueues(t)
  <1>1. alloc' = [pc |-> "sleep", task |-> t, best |-> 0, util |-> 100, todo |-> todo,
                  slept |-> 0, idled |-> 0, seen |-> {}, rested |-> {}, late |-> FALSE]
    BY DEF AllocateTask
  <1> HIDE DEF todo
  <1> QED
    BY <1>1 DEF AllocInv, Called, Measured

(* A tick changes nothing but the times.                                   *)
LEMMA TickValues ==
  ASSUME AllocInv, NEW idle \in SUBSET (0 .. MonCores - 1), Tick(idle)
  PROVE  alloc' = [pc |-> "sleep", task |-> alloc.task, best |-> alloc.best,
                   util |-> alloc.util, todo |-> alloc.todo, slept |-> alloc.slept + 1,
                   idled |-> IF Head(alloc.todo) \in idle THEN alloc.idled + 1
                             ELSE alloc.idled,
                   seen |-> alloc.seen, rested |-> alloc.rested, late |-> alloc.late]
  <1> DEFINE slept == alloc.slept + 1
             idled == IF Head(alloc.todo) \in idle THEN alloc.idled + 1 ELSE alloc.idled
  <1>1. /\ alloc = [pc |-> "sleep", task |-> alloc.task, best |-> alloc.best,
                    util |-> alloc.util, todo |-> alloc.todo, slept |-> alloc.slept,
                    idled |-> alloc.idled, seen |-> alloc.seen, rested |-> alloc.rested,
                    late |-> alloc.late]
        /\ Measured /\ alloc.pc # "idle"
    BY DEF Tick, Asleep, AllocInv, Called
  <1> DEFINE a == [alloc EXCEPT !.slept = slept]
  <1>2. alloc' = [a EXCEPT !.idled = idled]
    BY <1>1 DEF Tick
  <1> HIDE DEF slept, idled
  <1>3. a = [pc |-> "sleep", task |-> alloc.task, best |-> alloc.best,
             util |-> alloc.util, todo |-> alloc.todo, slept |-> slept,
             idled |-> alloc.idled, seen |-> alloc.seen, rested |-> alloc.rested,
             late |-> alloc.late]
    BY <1>1
  <1> HIDE DEF a
  <1> QED
    BY <1>2, <1>3 DEF slept, idled

(* A core that is idle in every tick is so in every tick of its sleep.     *)
LEMMA TickStep ==
  ASSUME AllocInv, NEW idle \in SUBSET (0 .. MonCores - 1), Tick(idle)
  PROVE  AllocInv'
  <1> DEFINE slept == alloc.slept + 1
             idled == IF Head(alloc.todo) \in idle THEN alloc.idled + 1 ELSE alloc.idled
  <1>1. Measured /\ alloc.pc # "idle"
    BY DEF Tick, Asleep, AllocInv
  <1>2. alloc' = [pc |-> "sleep", task |-> alloc.task, best |-> alloc.best,
                  util |-> alloc.util, todo |-> alloc.todo, slept |-> slept,
                  idled |-> idled, seen |-> alloc.seen, rested |-> alloc.rested,
                  late |-> alloc.late]
    BY TickValues
  <1>3. /\ slept \in Nat /\ idled \in Nat /\ idled <= slept
        /\ alloc.todo # <<>> /\ Head(alloc.todo) \in resting' => idled = slept
    BY <1>1 DEF slept, idled, Measured, Tick
  <1>4. resting' \subseteq resting
    BY DEF Tick
  <1> QED
    BY <1>1, <1>2, <1>3, <1>4 DEF AllocInv, Called, Measured

(* In time, the utilization of a core is 0 or 1, and 0 is only given to one *)
(* that was idle for the interval.                                          *)
LEMMA UtilizationInTime ==
  ASSUME NEW core \in 0 .. 3, NEW idled \in Nat, idled < 2 * Interval,
         NEW util \in GetUtilization(core, idled)
  PROVE  util = IF idled >= Interval THEN 0 ELSE 1
  <1>1. Interval \in Nat \ {0}
    BY QueueAssumption
  <1>2. idled \div Interval = IF idled >= Interval THEN 1 ELSE 0
    BY <1>1, Quotient
  <1> QED
    BY <1>2 DEF GetUtilization

(* What the next core's utilization changes.                               *)
LEMMA CompareValues ==
  ASSUME AllocInv, Compare
  PROVE  \E util \in GetUtilization(Head(alloc.todo), alloc.idled) :
           alloc' = [pc |-> "sleep", task |-> alloc.task,
                     best |-> IF util < alloc.util THEN Head(alloc.todo) ELSE alloc.best,
                     util |-> IF util < alloc.util THEN util ELSE alloc.util,
                     todo |-> Tail(alloc.todo), slept |-> 0, idled |-> 0,
                     seen |-> alloc.seen \cup {Head(alloc.todo)},
                     rested |-> IF alloc.idled >= Interval
                                THEN alloc.rested \cup {Head(alloc.todo)} ELSE alloc.rested,
                     late |-> alloc.late \/ alloc.slept >= 2 * Interval]
  <1> DEFINE core == Head(alloc.todo)
             rested == IF alloc.idled >= Interval THEN alloc.rested \cup {core} ELSE alloc.rested
             late == alloc.late \/ alloc.slept >= 2 * Interval
             seen == alloc.seen \cup {core}
             rest == Tail(alloc.todo)
  <1>1. /\ alloc = [pc |-> "sleep", task |-> alloc.task, best |-> alloc.best,
                    util |-> alloc.util, todo |-> alloc.todo, slept |-> alloc.slept,
                    idled |-> alloc.idled, seen |-> alloc.seen, rested |-> alloc.rested,
                    late |-> alloc.late]
        /\ Measured /\ alloc.pc # "idle" /\ alloc.todo # <<>>
        /\ alloc.slept >= Interval
        /\ resting' = resting
    BY DEF Compare, Asleep, AllocInv, Called
  <1>2. PICK util \in GetUtilization(core, alloc.idled) :
          alloc' = [Better(alloc, core, util) EXCEPT
                      !.todo = Tail(@), !.seen = @ \cup {core},
                      !.rested = IF alloc.idled >= Interval THEN @ \cup {core} ELSE @,
                      !.late = @ \/ alloc.slept >= 2 * Interval,
                      !.slept = 0, !.idled = 0]
    BY DEF Compare
  <1> DEFINE b == Better(alloc, core, util)
             best == IF util < alloc.util THEN core ELSE alloc.best
             least == IF util < alloc.util THEN util ELSE alloc.util
  <1>3. b = [pc |-> "sleep", task |-> alloc.task, best |-> best, util |-> least,
             todo |-> alloc.todo, slept |-> alloc.slept, idled |-> alloc.idled,
             seen |-> alloc.seen, rested |-> alloc.rested, late |-> alloc.late]
    <2> HIDE DEF core
    <2>1. CASE util < alloc.util
      <3> DEFINE c == [alloc EXCEPT !.best = core]
      <3>1. b = [c EXCEPT !.util = util]
        BY <1>1, <2>1 DEF Better
      <3>2. c = [pc |-> "sleep", task |-> alloc.task, best |-> core, util |-> alloc.util,
                 todo |-> alloc.todo, slept |-> alloc.slept, idled |-> alloc.idled,
                 seen |-> alloc.seen, rested |-> alloc.rested, late |-> alloc.late]
        BY <1>1
      <3> HIDE DEF b, c
      <3>3. b = [pc |-> "sleep", task |-> alloc.task, best |-> core, util |-> util,
                 todo |-> alloc.todo, slept |-> alloc.slept, idled |-> alloc.idled,
                 seen |-> alloc.seen, rested |-> alloc.rested, late |-> alloc.late]
        BY <3>1, <3>2
      <3> QED
        BY <2>1, <3>3
    <2>2. CASE ~(util < alloc.util)
      BY <1>1, <2>2 DEF Better
    <2> QED
      BY <2>1, <2>2
  <1> HIDE DEF b, best, least
  <1>4. alloc' = [pc |-> "sleep", task |-> b.task, best |-> b.best, util |-> b.util,
                  todo |-> rest, slept |-> 0, idled |-> 0,
                  seen |-> seen, rested |-> rested, late |-> late]
    <2>1. b = [pc |-> "sleep", task |-> b.task, best |-> b.best, util |-> b.util,
               todo |-> b.todo, slept |-> b.slept, idled |-> b.idled,
               seen |-> b.seen, rested |-> b.rested, late |-> b.late]
      BY <1>3
    <2>2. /\ b.todo = alloc.todo /\ b.seen = alloc.seen
          /\ b.rested = alloc.rested /\ b.late = alloc.late
      BY <1>3
    <2>3. alloc' = [b EXCEPT !.todo = rest, !.seen = seen, !.rested = rested, !.late = late,
                             !.slept = 0, !.idled = 0]
      BY <1>2, <2>2 DEF b
    <2> HIDE DEF rest, seen, rested, late, core
    <2> QED
      BY <2>1, <2>3, ComparedRecord
  <1>5. b.task = alloc.task /\ b.best = best /\ b.util = least
    BY <1>3
  <1>6. alloc' = [pc |-> "sleep", task |-> alloc.task, best |-> best, util |-> least,
                  todo |-> rest, slept |-> 0, idled |-> 0,
                  seen |-> seen, rested |-> rested, late |-> late]
    BY <1>4, <1>5
  <1> QED
    BY <1>6 DEF best, least

LEMMA CompareStep ==
  ASSUME AllocInv, Compare
  PROVE  AllocInv'
  <1> DEFINE core == Head(alloc.todo)
             rested == IF alloc.idled >= Interval THEN alloc.rested \cup {core} ELSE alloc.rested
             late == alloc.late \/ alloc.slept >= 2 * Interval
             seen == alloc.seen \cup {core}
             rest == Tail(alloc.todo)
  <1>1. /\ Measured /\ alloc.pc # "idle" /\ alloc.todo # <<>>
        /\ alloc.slept >= Interval
        /\ resting' = resting
    BY DEF Compare, Asleep, AllocInv
  <1>2. PICK util \in GetUtilization(core, alloc.idled) :
          alloc' = [pc |-> "sleep", task |-> alloc.task,
                    best |-> IF util < alloc.util THEN core ELSE alloc.best,
                    util |-> IF util < alloc.util THEN util ELSE alloc.util,
                    todo |-> rest, slept |-> 0, idled |-> 0,
                    seen |-> seen, rested |-> rested, late |-> late]
    BY CompareValues
  <1> DEFINE best == IF util < alloc.util THEN core ELSE alloc.best
             least == IF util < alloc.util THEN util ELSE alloc.util
  <1>3. ~late /\ seen \subseteq 0 .. 3 =>
          /\ least \in {0, 1, 100}
          /\ least = 0 => best \in rested
          /\ seen \cap resting # {} => least = 0
    <2> SUFFICES ASSUME ~late, seen \subseteq 0 .. 3
                 PROVE  /\ least \in {0, 1, 100}
                        /\ least = 0 => best \in rested
                        /\ seen \cap resting # {} => least = 0
      OBVIOUS
    <2>1. /\ alloc.slept \in Nat /\ alloc.idled \in Nat /\ alloc.idled <= alloc.slept
          /\ core \in resting => alloc.idled = alloc.slept
          /\ alloc.util \in {0, 1, 100}
          /\ alloc.util = 0 => alloc.best \in alloc.rested
          /\ alloc.seen \cap resting # {} => alloc.util = 0
      BY <1>1 DEF Measured
    <2>2. util = IF alloc.idled >= Interval THEN 0 ELSE 1
      <3>1. core \in 0 .. 3
        OBVIOUS
      <3>2. alloc.slept < 2 * Interval /\ Interval \in Nat
        BY <2>1, QueueAssumption
      <3>3. alloc.idled < 2 * Interval
        BY <2>1, <3>2
      <3> HIDE DEF core
      <3> QED
        BY <2>1, <3>1, <3>3, UtilizationInTime
    <2>3. core \in resting => util = 0
      BY <1>1, <2>1, <2>2
    <2> HIDE DEF core
    <2> QED
      BY <2>1, <2>2, <2>3
  <1> HIDE DEF rest, seen, rested, late, core
  <1> QED
    BY <1>1, <1>2, <1>3 DEF AllocInv, Called, Measured

LEMMA AllocStep == AllocInv /\ [AllocNext]_allVars => AllocInv'
  <1> SUFFICES ASSUME AllocInv, [AllocNext]_allVars PROVE AllocInv'
    OBVIOUS
  <1>1. CASE UNCHANGED <<alloc, resting>>
    BY <1>1 DEF AllocInv, Called, Measured
  <1>2. CASE Controller \/ (\E c \in Clients : Client(c)) \/ UNCHANGED allVars
    BY <1>1, <1>2 DEF Controller, Client, ClientLock, ClientNoLock, ClientHead, ClientWindow,
                      ClientUnlock, ClientStep, allocVars, allVars
  <1>3. CASE \E t \in Tasks : AllocateTask(t)
    BY <1>3, AllocateTaskStep
  <1>4. CASE Compare
    BY <1>4, CompareStep
  <1>5. CASE Place
    BY <1>5 DEF Place, NoCall, AllocInv, Called, Measured
  <1>6. CASE \E idle \in SUBSET (0 .. MonCores - 1) : Tick(idle)
    BY <1>6, TickStep
  <1> QED
    BY <1>2, <1>3, <1>4, <1>5, <1>6 DEF AllocNext, Allocator

(* allocate_task: if a core that it asked was idle all along, the core it  *)
(* settles on was idle for a whole interval, whatever the interval and the *)
(* order of the measurements.                                              *)
THEOREM IdleIsPreferred == AllocSpec => []IdlePreferred
  <1>1. AllocInv => IdlePreferred
    BY DEF AllocInv, Measured, IdlePreferred, Chosen
  <1> QED
    BY <1>1, AllocInitInv, AllocStep, PTL DEF AllocSpec

-----------------------------------------------------------------------------
(* The records of the controller agree while the allocator and the clients *)
(* run, too.                                                               *)

TaskKnown == alloc.pc # "idle" => alloc.task \in Tasks

\* A client writes one word of ring 0.
ClientWrites(q) ==
  /\ rings' = [rings EXCEPT ![0] = q]
  /\ Formed(q)
  /\ q.tail = rings[0].tail /\ q.buf = rings[0].buf

(* A step of a client is one of these on ring 0.                           *)
LEMMA ClientSteps ==
  ASSUME RingsFormed, NEW c \in Clients, Client(c)
  PROVE  /\ up /\ UNCHANGED <<setup, records, call, result, outside, allocVars>>
         /\ LET r == rings[0]
            IN  \E q, to :
                  /\ ClientWrites(q)
                  /\ client' = [client EXCEPT ![c] = to]
                  /\ \/ /\ client[c] = "lock" /\ ~r.lock /\ to = "head"
                        /\ Words(r, q, TRUE, r.head, r.window)
                     \/ /\ client[c] = "lock" /\ to = "done"
                        /\ Words(r, q, r.lock, r.head, r.window)
                     \/ /\ client[c] = "head" /\ to = "window"
                        /\ Words(r, q, r.lock, r.head + 1, r.window)
                     \/ /\ client[c] = "window" /\ to = "unlock"
                        /\ Words(r, q, r.lock, r.head, r.window + 1)
                     \/ /\ client[c] = "unlock" /\ to = "done"
                        /\ Words(r, q, FALSE, r.head, r.window)
  <1> USE DEF ClientStep
  <1> DEFINE r == rings[0]
  <1>1. 0 \in Rings
    BY RingAssumption DEF Rings
  <1>2. Formed(r) /\ rings = [rings EXCEPT ![0] = r]
    BY <1>1 DEF RingsFormed
  <1>3. up /\ UNCHANGED <<setup, records, call, result, outside, allocVars>>
    BY DEF Client, ClientLock, ClientNoLock, ClientHead, ClientWindow, ClientUnlock
  <1>4. CASE ClientLock(c)
    <2> DEFINE q == [r EXCEPT !.lock = TRUE]
    <2>1. /\ rings' = [rings EXCEPT ![0] = q] /\ client[c] = "lock" /\ ~r.lock
          /\ client' = [client EXCEPT ![c] = "head"]
      BY <1>4 DEF ClientLock
    <2>2. /\ Formed(q)
          /\ q = [lock |-> TRUE, head |-> r.head, tail |-> r.tail,
                  window |-> r.window, buf |-> r.buf]
      BY <1>2, WordWritten
    <2> HIDE DEF q, r
    <2>3. ClientWrites(q) /\ Words(r, q, TRUE, r.head, r.window)
      BY <2>1, <2>2 DEF ClientWrites, Words, r
    <2> QED
      BY <1>3, <2>1, <2>3 DEF r
  <1>5. CASE ClientNoLock(c)
    <2>1. /\ rings' = [rings EXCEPT ![0] = r] /\ client[c] = "lock"
          /\ client' = [client EXCEPT ![c] = "done"]
      BY <1>2, <1>5 DEF ClientNoLock
    <2> HIDE DEF r
    <2>2. ClientWrites(r) /\ Words(r, r, r.lock, r.head, r.window)
      BY <1>2, <2>1 DEF ClientWrites, Words, r
    <2> QED
      BY <1>3, <2>1, <2>2 DEF r
  <1>6. CASE ClientHead(c)
    <2> DEFINE x == r.head + 1
               q == [r EXCEPT !.head = x]
    <2>1. /\ rings' = [rings EXCEPT ![0] = q] /\ client[c] = "head"
          /\ client' = [client EXCEPT ![c] = "window"]
      BY <1>1, <1>6 DEF ClientHead, RingsFormed
    <2> HIDE DEF x
    <2>2. /\ Formed(q)
          /\ q = [lock |-> r.lock, head |-> x, tail |-> r.tail,
                  window |-> r.window, buf |-> r.buf]
      BY <1>2, WordWritten
    <2> HIDE DEF q, r
    <2>3. ClientWrites(q) /\ Words(r, q, r.lock, x, r.window)
      BY <2>1, <2>2 DEF ClientWrites, Words, r
    <2> QED
      BY <1>3, <2>1, <2>3 DEF r, x
  <1>7. CASE ClientWindow(c)
    <2> DEFINE x == r.window + 1
               q == [r EXCEPT !.window = x]
    <2>1. /\ rings' = [rings EXCEPT ![0] = q] /\ client[c] = "window"
          /\ client' = [client EXCEPT ![c] = "unlock"]
      BY <1>1, <1>7 DEF ClientWindow, RingsFormed
    <2> HIDE DEF x
    <2>2. /\ Formed(q)
          /\ q = [lock |-> r.lock, head |-> r.head, tail |-> r.tail,
                  window |-> x, buf |-> r.buf]
      BY <1>2, WordWritten
    <2> HIDE DEF q, r
    <2>3. ClientWrites(q) /\ Words(r, q, r.lock, r.head, x)
      BY <2>1, <2>2 DEF ClientWrites, Words, r
    <2> QED
      BY <1>3, <2>1, <2>3 DEF r, x
  <1>8. CASE ClientUnlock(c)
    <2> DEFINE q == [r EXCEPT !.lock = FALSE]
    <2>1. /\ rings' = [rings EXCEPT ![0] = q] /\ client[c] = "unlock"
          /\ client' = [client EXCEPT ![c] = "done"]
      BY <1>8 DEF ClientUnlock
    <2>2. /\ Formed(q)
          /\ q = [lock |-> FALSE, head |-> r.head, tail |-> r.tail,
                  window |-> r.window, buf |-> r.buf]
      BY <1>2, WordWritten
    <2> HIDE DEF q, r
    <2>3. ClientWrites(q) /\ Words(r, q, FALSE, r.head, r.window)
      BY <2>1, <2>2 DEF ClientWrites, Words, r
    <2> QED
      BY <1>3, <2>1, <2>3 DEF r
  <1> QED
    BY <1>4, <1>5, <1>6, <1>7, <1>8 DEF Client

LEMMA RecordsStep ==
  ASSUME AllocInv, TaskKnown, IInv, [AllocNext]_allVars
  PROVE  TaskKnown' /\ IInv'
  <1>1. CASE UNCHANGED <<vars, alloc>>
    BY <1>1, Step DEF TaskKnown
  <1>2. CASE UNCHANGED allVars
    BY <1>1, <1>2 DEF allVars, allocVars
  <1>3. CASE \E t \in Tasks : AllocateTask(t)
    <2> PICK t \in Tasks : AllocateTask(t)
      BY <1>3
    <2> DEFINE todo == [k \in 1 .. numCores |-> k - 1] \o WhichRunqueues(t)
    <2>1. /\ alloc' = [pc |-> "sleep", task |-> t, best |-> 0, util |-> 100, todo |-> todo,
                       slept |-> 0, idled |-> 0, seen |-> {}, rested |-> {}, late |-> FALSE]
          /\ UNCHANGED vars
      BY DEF AllocateTask
    <2> HIDE DEF todo
    <2>2. alloc'.task = t
      BY <2>1
    <2> QED
      BY <2>1, <2>2, Step DEF TaskKnown
  <1>4. CASE Compare
    <2>1. alloc'.task = alloc.task
      BY <1>4, CompareValues
    <2> QED
      BY <1>4, <2>1, Step DEF Compare, Asleep, TaskKnown
  <1>5. CASE \E idle \in SUBSET (0 .. MonCores - 1) : Tick(idle)
    <2> PICK idle \in SUBSET (0 .. MonCores - 1) : Tick(idle)
      BY <1>5
    <2>1. alloc'.task = alloc.task
      BY TickValues
    <2> QED
      BY <2>1, Step DEF Tick, Asleep, TaskKnown
  <1>6. CASE Place
    <2>1. alloc.task \in Tasks /\ alloc' = NoCall
      BY <1>6 DEF Place, Chosen, TaskKnown
    <2>2. CASE NewTask(alloc.best, alloc.task)
      BY <2>1, <2>2, NewTaskStep DEF TaskKnown, NoCall
    <2>3. CASE NoSuchCore(alloc.best)
      <3>1. UNCHANGED <<rings, setup, records, outside>> /\ call' = Idle /\ result' = -1
        BY <2>3 DEF NoSuchCore, Return
      <3>2. CallRecorded' /\ CountsTyped'
        BY <3>1, SameCounts DEF CallRecorded, IInv, outside
      <3> QED
        BY <2>1, <3>1, <3>2, QuietStep DEF TaskKnown, NoCall
    <2> QED
      BY <1>6, <2>2, <2>3 DEF Place
  <1>7. CASE Controller
    <2>1. TaskKnown'
      BY <1>7 DEF Controller, allocVars, TaskKnown
    <2>2. Enq \/ WildRing \/ SetSyncDs
      BY <1>7 DEF Controller
    <2>3. [Next]_vars
      BY <2>2 DEF Next
    <2> QED
      BY <2>1, <2>3, Step
  <1>8. CASE \E c \in Clients : Client(c)
    <2> PICK c \in Clients : Client(c)
      BY <1>8
    <2>1. RingsFormed /\ SlotsRecorded /\ CallRecorded /\ MapKnown /\ CountsTyped
      BY DEF IInv
    <2>2. UNCHANGED <<setup, records, call, result, outside, allocVars>>
      BY <2>1, ClientSteps
    <2>3. PICK q : ClientWrites(q)
      BY <2>1, ClientSteps
    <2>4. 0 \in Rings
      BY RingAssumption DEF Rings
    <2>5. \A k \in 0 .. Mapped - 1 : Recorded(q.buf[k])
      BY <2>1, <2>3, <2>4 DEF ClientWrites, SlotsRecorded
    <2>6. RingsFormed' /\ SlotsRecorded'
      BY <2>1, <2>2, <2>3, <2>4, <2>5, RingReplaced DEF ClientWrites, records
    <2>7. CallRecorded' /\ MapKnown' /\ TaskKnown'
      BY <2>1, <2>2 DEF CallRecorded, Served, Recorded, MapKnown, TaskKnown, allocVars, records
    <2>8. CountsTyped'
      BY <2>1, <2>2, SameCounts DEF outside
    <2> QED
      BY <2>6, <2>7, <2>8 DEF IInv
  <1> QED
    BY <1>2, <1>3, <1>4, <1>5, <1>6, <1>7, <1>8 DEF AllocNext, Allocator

-----------------------------------------------------------------------------
(* The words of the rings.                                                 *)

Inside == {"head", "window", "unlock"}
Passed == {"enq_window", "enq_shrink"}

\* A client, or enq, holds the lock of ring i.
Entered(i) == i = 0 /\ \E c \in Clients : client[c] \in Inside
Enqueuing(i) == call.core = i /\ call.pc \in Holding

\* The client has moved the head, or enq the tail, and not the window.
Taken(i) == IF i = 0 /\ \E c \in Clients : client[c] = "window" THEN -1 ELSE 0
Skew(i) == IF call.pc \in Passed /\ call.core = i THEN 1 ELSE Taken(i)

Kept(r, held, skew) ==
  /\ r.lock <=> held
  /\ r.head \in Nat
  /\ r.tail \in 0 .. Mapped
  /\ r.window = BufSize - (r.tail - r.head) + skew

\* The words of each ring are in step, but for a client or an enq halfway, and
\* only one of all these can be there.
WordsInv ==
  /\ client = [c \in Clients |-> client[c]]
  /\ \A c, d \in Clients : client[c] \in Inside /\ client[d] \in Inside => c = d
  /\ call.pc \in Holding => ~Entered(call.core)
  /\ call.pc = "enq_shrink" => call.word = Ring.window
  /\ \A i \in Rings : Kept(rings[i], Entered(i) \/ Enqueuing(i), Skew(i))

\* After a fault nobody goes on.
WordsHeld == IF up THEN WordsInv ELSE WordsInStep

LEMMA FreeInStep == WordsInv => WordsInStep
  <1> SUFFICES ASSUME WordsInv, NEW i \in Rings, ~rings[i].lock
               PROVE  NumElements(rings[i]) = rings[i].tail - rings[i].head
    BY DEF WordsInStep
  <1>1. Kept(rings[i], Entered(i) \/ Enqueuing(i), Skew(i))
    BY DEF WordsInv
  <1>2. ~Entered(i) /\ ~Enqueuing(i)
    BY <1>1 DEF Kept
  <1>3. Skew(i) = 0
    BY <1>2 DEF Skew, Taken, Passed, Entered, Enqueuing, Inside, Holding
  <1> QED
    BY <1>1, <1>3, RingAssumption DEF Kept, NumElements

LEMMA InitWords == AllocInit => WordsHeld
  <1> SUFFICES ASSUME AllocInit PROVE WordsInv
    BY DEF WordsHeld, AllocInit, Init
  <1>1. \A i \in Rings : ~Entered(i) /\ ~Enqueuing(i) /\ Skew(i) = 0
    BY DEF AllocInit, Init, Idle, Entered, Enqueuing, Skew, Taken, Passed, Inside, Holding
  <1>2. \A i \in Rings : Kept(rings[i], FALSE, 0)
    BY RingAssumption DEF AllocInit, Init, EmptyRing, Kept
  <1>3. call.pc = "idle"
    BY DEF AllocInit, Init, Idle
  <1> QED
    BY <1>1, <1>2, <1>3 DEF AllocInit, WordsInv, Inside, Holding

(* enq on a ring r, which becomes q, while a client is inside or not.      *)
LEMMA EnqKept ==
  ASSUME NEW r, Formed(r), NEW p \in Holding \cup {"enq_lock"}, NEW w, NEW t, NEW q, NEW p2, NEW w2,
         WorkMoves(r, p, w, t, q, p2, w2),
         NEW entered \in BOOLEAN, NEW taken \in {-1, 0}, taken # 0 => entered,
         p \in Holding => ~entered,
         p = "enq_shrink" => w = r.window,
         Kept(r, entered \/ p \in Holding, IF p \in Passed THEN 1 ELSE taken)
  PROVE  /\ Kept(q, entered \/ p2 \in Holding, IF p2 \in Passed THEN 1 ELSE taken)
         /\ p2 \in Holding => ~entered
         /\ p2 = "enq_shrink" => w2 = q.window
  <1> USE DEF Kept, Holding, Passed
  <1>1. CASE p = "enq_lock"
    BY <1>1 DEF WorkMoves, Words
  <1>2. CASE p = "enq_store" /\ p2 = "enq_full"
    BY <1>2 DEF WorkMoves
  <1>3. CASE p = "enq_store" /\ p2 # "enq_full"
    <2>1. /\ p2 = "enq_window" /\ ~entered /\ taken = 0 /\ r.lock = TRUE /\ ~Faults(r)
          /\ q = Stored(r, t)
      BY <1>3 DEF WorkMoves
    <2>2. /\ q.lock = r.lock /\ q.head = r.head /\ q.tail = Wrapped(r.tail)
          /\ q.window = r.window
      BY <2>1, StoredSlots
    <2>3. q.tail = r.tail + 1 /\ q.tail \in 0 .. Mapped
      BY <2>1, <2>2, RingAssumption DEF Faults, Wrapped
    <2>4. r.window = BufSize - (r.tail - r.head) + 0 /\ r.head \in Nat
      BY <1>3, <2>1
    <2>5. q.window = BufSize - (q.tail - q.head) + 1
      BY <2>2, <2>3, <2>4, RingAssumption
    <2> QED
      BY <2>1, <2>2, <2>3, <2>4, <2>5
  <1>4. CASE p = "enq_window"
    BY <1>4 DEF WorkMoves
  <1>5. CASE p = "enq_shrink"
    <2>1. /\ p2 = "enq_unlock" /\ ~entered /\ taken = 0
          /\ q.lock = r.lock /\ q.head = r.head /\ q.tail = r.tail
          /\ q.window = r.window - 1
      BY <1>5 DEF WorkMoves, Words
    <2>2. r.window = BufSize - (r.tail - r.head) + 1 /\ r.head \in Nat /\ r.tail \in 0 .. Mapped
      BY <1>5
    <2>3. q.window = BufSize - (q.tail - q.head) + 0
      BY <2>1, <2>2, RingAssumption
    <2> QED
      BY <1>5, <2>1, <2>2, <2>3
  <1>6. CASE p \in {"enq_full", "enq_unlock"}
    BY <1>6 DEF WorkMoves, Words
  <1> QED
    BY <1>1, <1>2, <1>3, <1>4, <1>5, <1>6

LEMMA EnqWords ==
  ASSUME IInv, WordsInv, Enq, UNCHANGED client
  PROVE  WordsHeld'
  <1> DEFINE i == call.core
             r == Ring
  <1>1. Works /\ call.pc \in Holding \cup {"enq_lock"}
    BY DEF Works, Enq, EnqLock, EnqLocked, EnqFull, EnqStore, EnqFault, EnqWindow, EnqShrink,
           EnqUnlock, EnqStep, EnqReturn, At, Holding
  <1>2. /\ up /\ i \in Rings
        /\ call' = Idle \/ (Continues /\ call'.core = i)
        /\ \/ up' = FALSE /\ UNCHANGED rings
           \/ UNCHANGED up /\ \E q : WorksTo(q)
    BY <1>1, WorkSteps DEF Continues
  <1>3. CASE up' = FALSE /\ UNCHANGED rings
    BY <1>3, FreeInStep DEF WordsHeld, WordsInStep, Rings, NumElements
  <1>4. CASE UNCHANGED up /\ \E q : WorksTo(q)
    <2>1. PICK q : WorksTo(q)
      BY <1>4
    <2>2. /\ rings' = [rings EXCEPT ![i] = q]
          /\ WorkMoves(r, call.pc, call.word, call.task, q, call'.pc, call'.word)
      BY <2>1 DEF WorksTo
    <2>3. RingsFormed
      BY DEF IInv
    <2>4. r = rings[i] /\ Formed(r) /\ \A j \in Rings : rings'[j] = IF j = i THEN q ELSE rings[j]
      BY <1>2, <2>2, <2>3 DEF RingsFormed, Ring
    <2>5. \A j \in Rings : Entered(j)' = Entered(j) /\ Taken(j)' = Taken(j)
      BY DEF Entered, Taken, Inside, Rings
    <2>6. \A j \in Rings : Taken(j) \in {-1, 0} /\ (Taken(j) # 0 => Entered(j))
      BY DEF Taken, Entered, Inside
    <2>7. /\ Kept(r, Entered(i) \/ call.pc \in Holding,
                     IF call.pc \in Passed THEN 1 ELSE Taken(i))
          /\ call.pc \in Holding => ~Entered(i)
          /\ call.pc = "enq_shrink" => call.word = r.window
      BY <1>2, <2>4 DEF WordsInv, Enqueuing, Skew
    <2>8. Entered(i) \in BOOLEAN
      BY DEF Entered
    <2> HIDE DEF r
    <2>9. /\ Kept(q, Entered(i) \/ call'.pc \in Holding,
                     IF call'.pc \in Passed THEN 1 ELSE Taken(i))
          /\ call'.pc \in Holding => ~Entered(i)
          /\ call'.pc = "enq_shrink" => call'.word = q.window
      <3>1. Taken(i) \in {-1, 0} /\ (Taken(i) # 0 => Entered(i))
        BY <1>2, <2>6
      <3> QED
        BY <1>1, <2>2, <2>4, <2>7, <2>8, <3>1, EnqKept
    <2> HIDE DEF i
    <2>10. call'.pc \in Holding \cup Passed => call'.core = i
      BY <1>2 DEF Idle, Holding, Passed
    <2>11. ASSUME NEW j \in Rings
           PROVE  Kept(rings'[j], Entered(j)' \/ Enqueuing(j)', Skew(j)')
      <3>1. CASE j = i
        <4>1. Enqueuing(j)' <=> call'.pc \in Holding
          BY <2>10, <3>1 DEF Enqueuing
        <4>2. Skew(j)' = IF call'.pc \in Passed THEN 1 ELSE Taken(i)
          BY <2>5, <2>10, <2>11, <3>1 DEF Skew
        <4>3. rings'[j] = q /\ Entered(j)' = Entered(i)
          BY <2>4, <2>5, <2>11, <3>1
        <4> QED
          BY <2>9, <4>1, <4>2, <4>3 DEF Kept
      <3>2. CASE j # i
        <4>1. ~Enqueuing(j)' /\ Skew(j)' = Taken(j)
          BY <2>5, <2>10, <2>11, <3>2 DEF Enqueuing, Skew
        <4>2. ~Enqueuing(j) /\ Skew(j) = Taken(j)
          BY <3>2 DEF Enqueuing, Skew, i
        <4>3. Kept(rings[j], Entered(j) \/ Enqueuing(j), Skew(j))
          BY DEF WordsInv
        <4>4. rings'[j] = rings[j] /\ Entered(j)' = Entered(j)
          BY <2>4, <2>5, <2>11, <3>2
        <4> QED
          BY <4>1, <4>2, <4>3, <4>4 DEF Kept
      <3> QED
        BY <3>1, <3>2
    <2>12. (call.pc \in Holding => ~Entered(call.core))'
      <3>1. call'.pc \in Holding => call'.core = call.core /\ ~Entered(call.core)
        BY <2>9, <2>10 DEF i
      <3> QED
        BY <3>1 DEF Entered
    <2>13. call'.pc = "enq_shrink" => call'.word = Ring'.window
      BY <1>2, <2>4, <2>9, <2>10 DEF Ring, Holding, i
    <2>14. WordsInv'
      BY <2>11, <2>12, <2>13 DEF WordsInv, Rings
    <2> QED
      BY <1>2, <1>4, <2>14 DEF WordsHeld
  <1> QED
    BY <1>2, <1>3, <1>4

(* A client that alone holds the lock, or takes or frees it, moves on with *)
(* the words that fit where it is then.                                    *)
LEMMA ClientWords ==
  ASSUME IInv, WordsInv, NEW c \in Clients, Client(c)
  PROVE  WordsHeld'
  <1> DEFINE r == rings[0]
  <1>1. 0 \in Rings /\ RingsFormed
    BY RingAssumption DEF Rings, IInv
  <1>2. up /\ UNCHANGED <<setup, records, call, result, outside, allocVars>>
    BY <1>1, ClientSteps
  <1>3. PICK q, to :
          /\ ClientWrites(q)
          /\ client' = [client EXCEPT ![c] = to]
          /\ \/ /\ client[c] = "lock" /\ ~r.lock /\ to = "head"
                /\ Words(r, q, TRUE, r.head, r.window)
             \/ /\ client[c] = "lock" /\ to = "done"
                /\ Words(r, q, r.lock, r.head, r.window)
             \/ /\ client[c] = "head" /\ to = "window"
                /\ Words(r, q, r.lock, r.head + 1, r.window)
             \/ /\ client[c] = "window" /\ to = "unlock"
                /\ Words(r, q, r.lock, r.head, r.window + 1)
             \/ /\ client[c] = "unlock" /\ to = "done"
                /\ Words(r, q, FALSE, r.head, r.window)
    BY <1>1, ClientSteps
  <1>4. \A d \in Clients : client'[d] = IF d = c THEN to ELSE client[d]
    BY <1>3 DEF WordsInv
  <1>5. \A j \in Rings : rings'[j] = IF j = 0 THEN q ELSE rings[j]
    BY <1>1, <1>3 DEF RingsFormed, ClientWrites
  <1>6. Kept(r, Entered(0) \/ Enqueuing(0), Skew(0))
    BY <1>1 DEF WordsInv
  <1>7. Enqueuing(0) => ~Entered(0)
    BY DEF WordsInv, Enqueuing
  <1>8. \A j : Enqueuing(j)' = Enqueuing(j)
    BY <1>2 DEF Enqueuing
  <1> HIDE DEF r
  <1>9. CASE client[c] = "lock" /\ to = "done"
    <2>1. \A d \in Clients, at \in Inside : client'[d] = at <=> client[d] = at
      BY <1>4, <1>9 DEF Inside
    <2>2. \A j \in Rings : Entered(j)' = Entered(j) /\ Skew(j)' = Skew(j)
      BY <1>2, <2>1 DEF Entered, Skew, Taken, Inside, Rings
    <2>3. Entered(call.core)' = Entered(call.core)
      BY <1>2, <2>1 DEF Entered, Inside
    <2>4. q = r
      BY <1>1, <1>3, <1>9 DEF ClientWrites, Words, Formed, RingsFormed, r
    <2>5. UNCHANGED rings
      BY <1>1, <1>3, <2>4 DEF ClientWrites, RingsFormed, r
    <2>6. client' = [d \in Clients |-> client'[d]]
      BY <1>3 DEF WordsInv
    <2>7. \A d, e \in Clients : client'[d] \in Inside /\ client'[e] \in Inside => d = e
      BY <2>1 DEF WordsInv
    <2>8. \A j \in Rings : Kept(rings[j], Entered(j) \/ Enqueuing(j), Skew(j))'
      BY <1>8, <2>2, <2>5 DEF WordsInv, Kept
    <2>9. WordsInv'
      BY <1>2, <2>3, <2>5, <2>6, <2>7, <2>8 DEF WordsInv, Ring, Rings
    <2> QED
      BY <1>2, <2>9 DEF WordsHeld, outside
  <1>10. CASE to # "done" \/ client[c] # "lock"
    <2>1. Entered(0) \/ Enqueuing(0) => client[c] \in Inside
      BY <1>3, <1>6, <1>10 DEF Kept, Inside
    <2>2. client[c] \in Inside => Entered(0)
      BY DEF Entered
    <2>3. ~Enqueuing(0) /\ \A d \in Clients : client[d] \in Inside => d = c
      <3>1. ASSUME NEW d \in Clients, client[d] \in Inside PROVE d = c
        <4>1. Entered(0)
          BY <3>1 DEF Entered
        <4> QED
          BY <2>1, <3>1, <4>1 DEF WordsInv
      <3> QED
        BY <1>7, <2>1, <2>2, <3>1
    <2>4. Skew(0) = IF client[c] = "window" THEN -1 ELSE 0
      BY <2>3 DEF Skew, Taken, Enqueuing, Passed, Holding, Inside
    <2>5. Entered(0) <=> client[c] \in Inside
      BY <2>3 DEF Entered
    <2>6. Entered(0)' <=> to \in Inside
      BY <1>4, <2>3 DEF Entered
    <2>7. Skew(0)' = IF to = "window" THEN -1 ELSE 0
      BY <1>2, <1>4, <2>3 DEF Skew, Taken, Enqueuing, Passed, Holding, Inside
    <2>8. Kept(q, to \in Inside, IF to = "window" THEN -1 ELSE 0)
      <3>1. /\ q.tail = r.tail /\ r.tail \in 0 .. Mapped /\ r.head \in Nat
            /\ r.window = BufSize - (r.tail - r.head) + (IF client[c] = "window" THEN -1 ELSE 0)
            /\ r.lock <=> client[c] \in Inside
        BY <1>3, <1>6, <2>3, <2>4, <2>5 DEF ClientWrites, Kept, r
      <3>2. BufSize \in Int /\ Mapped \in Int
        BY RingAssumption
      <3>3. q.lock <=> to \in Inside
        BY <1>3, <1>10, <3>1 DEF Words, Inside
      <3>4. q.head \in Nat /\ q.tail \in 0 .. Mapped
        BY <1>3, <3>1 DEF Words
      <3>5. q.window = BufSize - (q.tail - q.head) + (IF to = "window" THEN -1 ELSE 0)
        BY <1>3, <1>10, <3>1, <3>2 DEF Words
      <3> QED
        BY <3>3, <3>4, <3>5 DEF Kept
    <2>9. ASSUME NEW j \in Rings
          PROVE  Kept(rings'[j], Entered(j)' \/ Enqueuing(j)', Skew(j)')
      <3>1. CASE j = 0
        BY <1>5, <1>8, <2>3, <2>6, <2>7, <2>8, <2>9, <3>1 DEF Kept
      <3>2. CASE j # 0
        <4>1. Entered(j)' = Entered(j) /\ Skew(j)' = Skew(j)
          BY <1>2, <3>2 DEF Entered, Skew, Taken
        <4> QED
          BY <1>5, <1>8, <2>9, <3>2, <4>1 DEF WordsInv, Kept
      <3> QED
        BY <3>1, <3>2
    <2>10. /\ (call.pc \in Holding => ~Entered(call.core))'
           /\ call.pc \in Holding => call.core # 0
      BY <1>2, <2>3 DEF Enqueuing, Entered
    <2>11. call'.pc = "enq_shrink" => call'.word = Ring'.window
      <3> SUFFICES ASSUME call.pc = "enq_shrink" PROVE call.word = Ring'.window
        BY <1>2
      <3>1. call.core # 0 /\ call.word = Ring.window
        BY <1>2, <2>10 DEF WordsInv, Holding
      <3>2. Ring' = Ring
        BY <1>1, <1>2, <1>3, <3>1 DEF Ring, RingsFormed, ClientWrites
      <3> QED
        BY <3>1, <3>2
    <2>12. client' = [d \in Clients |-> client'[d]]
      BY <1>3 DEF WordsInv
    <2>13. \A d, e \in Clients : client'[d] \in Inside /\ client'[e] \in Inside => d = e
      BY <1>4, <2>3
    <2>14. WordsInv'
      BY <2>9, <2>10, <2>11, <2>12, <2>13 DEF WordsInv, Rings
    <2> QED
      BY <1>2, <2>14 DEF WordsHeld, outside
  <1> QED
    BY <1>9, <1>10

LEMMA WordsStep ==
  ASSUME IInv, WordsHeld, [AllocNext]_allVars
  PROVE  WordsHeld'
  <1>1. CASE UNCHANGED <<rings, up, client>> /\ call'.pc \notin Holding /\ call.pc \notin Holding
    <2>1. \A i \in Rings : /\ Entered(i)' = Entered(i) /\ Enqueuing(i)' = Enqueuing(i)
                           /\ Skew(i)' = Skew(i)
      BY <1>1 DEF Entered, Enqueuing, Skew, Taken, Inside, Passed, Holding, Rings
    <2>2. WordsInv => WordsInv'
      BY <1>1, <2>1 DEF WordsInv, Kept, Rings, Inside, Holding
    <2> QED
      BY <1>1, <2>2 DEF WordsHeld, WordsInStep, Rings, NumElements
  <1>2. CASE UNCHANGED <<rings, up, client, call>>
    <2>1. \A i \in Rings : /\ Entered(i)' = Entered(i) /\ Enqueuing(i)' = Enqueuing(i)
                           /\ Skew(i)' = Skew(i)
      BY <1>2 DEF Entered, Enqueuing, Skew, Taken, Rings
    <2>2. Entered(call.core)' = Entered(call.core)
      BY <1>2 DEF Entered
    <2>3. WordsInv => WordsInv'
      BY <1>2, <2>1, <2>2 DEF WordsInv, Kept, Rings, Ring
    <2> QED
      BY <1>2, <2>3 DEF WordsHeld, WordsInStep, Rings, NumElements
  <1>3. CASE UNCHANGED allVars
    BY <1>2, <1>3 DEF allVars, vars, outside
  <1>4. CASE (\E t \in Tasks : AllocateTask(t)) \/ Compare
             \/ \E idle \in SUBSET (0 .. MonCores - 1) : Tick(idle)
    BY <1>2, <1>4 DEF AllocateTask, Compare, Tick, vars, outside
  <1>5. CASE Place
    <2>1. CASE NewTask(alloc.best, alloc.task)
      <3>1. PICK pc \in {"fp_count", "enq_lock"} :
              call' = Serve("new_task", alloc.best, pc, Scheduled(alloc.task), <<>>)
        BY <2>1 DEF NewTask
      <3>2. call'.pc = pc
        BY <3>1, ServeShape DEF Serving, Testing
      <3>3. call.pc = "idle" /\ UNCHANGED <<rings, up, client>>
        BY <1>5, <2>1 DEF Place, NewTask, outside
      <3> QED
        BY <1>1, <3>2, <3>3 DEF Holding
    <2>2. CASE NoSuchCore(alloc.best)
      BY <1>1, <1>5, <2>2 DEF Place, NoSuchCore, Return, Idle, Holding, outside
    <2> QED
      BY <1>5, <2>1, <2>2 DEF Place
  <1>6. CASE Controller
    <2>1. CASE Enq
      <3>1. up
        BY <2>1 DEF Enq, EnqLock, EnqLocked, EnqFull, EnqStore, EnqFault, EnqWindow, EnqShrink,
               EnqUnlock, EnqStep, EnqReturn, At
      <3> QED
        BY <1>6, <2>1, <3>1, EnqWords DEF Controller, WordsHeld
    <2>2. CASE WildRing
      <3>1. up /\ up' = FALSE /\ UNCHANGED rings
        BY <2>2 DEF WildRing, Fault
      <3> QED
        BY <3>1, FreeInStep DEF WordsHeld, WordsInStep, Rings, NumElements
    <2>3. CASE SetSyncDs
      BY <1>2, <1>6, <2>3 DEF Controller, SetSyncDs, outside
    <2> QED
      BY <1>6, <2>1, <2>2, <2>3 DEF Controller
  <1>7. CASE \E c \in Clients : Client(c)
    <2> PICK c \in Clients : Client(c)
      BY <1>7
    <2>1. up
      BY ClientSteps DEF IInv
    <2> QED
      BY <2>1, ClientWords DEF WordsHeld
  <1> QED
    BY <1>3, <1>4, <1>5, <1>6, <1>7 DEF AllocNext, Allocator

(* rq_client moves head and window by hand, enq tail and window, each in   *)
(* stores of its own: whenever the lock is free they agree on how much the *)
(* ring holds, for any number of clients.                                  *)
THEOREM WordsStayInStep == AllocSpec => []WordsInStep
  <1>1. AllocInit => AllocInv /\ TaskKnown /\ IInv /\ WordsHeld
    <2>1. AllocInit => Init /\ alloc.pc = "idle"
      BY DEF AllocInit, NoCall
    <2> QED
      BY <2>1, AllocInitInv, InitIInv, InitWords DEF TaskKnown
  <1>2. AllocInv /\ TaskKnown /\ IInv /\ WordsHeld /\ [AllocNext]_allVars =>
          AllocInv' /\ TaskKnown' /\ IInv' /\ WordsHeld'
    BY AllocStep, RecordsStep, WordsStep
  <1>3. WordsHeld => WordsInStep
    BY FreeInStep DEF WordsHeld
  <1> QED
    BY <1>1, <1>2, <1>3, PTL DEF AllocSpec

-----------------------------------------------------------------------------
(* The run queues asked.                                                   *)

\* The cores, and what the entries of _runqueue take for one.
Targets == (0 .. MonCores - 1) \cup {q.rq_buffer : q \in Range(runqueue)}

\* What a call knows: its best is where it started or one of those it saw.
Settled ==
  /\ DOMAIN runqueue = Entries
  /\ numCores \in 1 .. MonCores
  /\ alloc.pc # "idle" =>
       /\ alloc.best \in {0} \cup alloc.seen
       /\ alloc.seen \subseteq Targets
       /\ alloc.todo \in Seq(Targets)
       /\ alloc.util \in Int
       /\ alloc.util <= 100

(* which_runqueues collects rings of entries only.                         *)
LEMMA WhichRunqueuesTargets ==
  ASSUME DOMAIN runqueue = Entries, NEW t
  PROVE  WhichRunqueues(t) \in Seq(Targets)
  <1> DEFINE D == Seq(Targets)
             next(i, s) == IF Suits(runqueue[i - 1], t)
                           THEN Append(s, runqueue[i - 1].rq_buffer) ELSE s
             step == [i \in Nat |-> [s \in D |-> IF i \in 1 .. NumRqs THEN next(i, s) ELSE s]]
             Loop(f) == f = [i \in 0 .. NumRqs |-> IF i = 0 THEN <<>> ELSE next(i, f[i - 1])]
             rq == CHOOSE f : Loop(f)
  <1>1. NumRqs \in Nat
    BY QueueAssumption
  <1>2. \A s \in D, i \in 1 .. NumRqs : next(i, s) \in D
    <2> SUFFICES ASSUME NEW s \in D, NEW i \in 1 .. NumRqs PROVE next(i, s) \in D
      OBVIOUS
    <2>1. i - 1 \in DOMAIN runqueue
      BY <1>1 DEF Entries
    <2>2. runqueue[i - 1].rq_buffer \in Targets
      BY <2>1 DEF Targets, Range
    <2> QED
      BY <2>2
  <1>3. step \in Rounds(D)
    <2> HIDE DEF D, next
    <2> QED
      BY <1>2 DEF Rounds
  <1>4. PICK f \in [0 .. NumRqs -> D] :
          \A i \in 0 .. NumRqs : f[i] = IF i = 0 THEN <<>> ELSE step[i][f[i - 1]]
    <2> DEFINE none == <<>>
    <2>1. none \in D
      OBVIOUS
    <2> HIDE DEF D, step, none
    <2>2. \E f : Results(D, none, step, NumRqs, f)
      BY <1>1, <1>3, <2>1, LoopExists
    <2> QED
      BY <2>2 DEF none, Results
  <1>5. Loop(f)
    <2> HIDE DEF next, D
    <2>1. ASSUME NEW i \in 0 .. NumRqs, i # 0 PROVE step[i][f[i - 1]] = next(i, f[i - 1])
      <3>1. i \in 1 .. NumRqs /\ i \in Nat /\ i - 1 \in 0 .. NumRqs
        BY <1>1, <2>1
      <3>2. f[i - 1] \in D
        BY <3>1
      <3> QED
        BY <3>1, <3>2
    <2> HIDE DEF step
    <2>2. \A i \in 0 .. NumRqs : f[i] = IF i = 0 THEN <<>> ELSE next(i, f[i - 1])
      BY <1>4, <2>1
    <2>3. f = [i \in 0 .. NumRqs |-> f[i]]
      OBVIOUS
    <2> QED
      BY <2>2, <2>3
  <1>6. Loop(rq)
    <2> HIDE DEF Loop
    <2> QED
      BY <1>5
  <1>7. WhichRunqueues(t) = rq[NumRqs]
    BY DEF WhichRunqueues
  <1> HIDE DEF rq, next, D
  <1>8. rq[0] = <<>> /\ \A i \in 1 .. NumRqs : rq[i] = next(i, rq[i - 1])
    <2>1. 0 \in 0 .. NumRqs /\ \A i \in 1 .. NumRqs : i \in 0 .. NumRqs /\ i # 0
      BY <1>1
    <2> QED
      BY <1>6, <2>1
  <1> DEFINE S == {i \in Nat : i <= NumRqs => rq[i] \in D}
  <1>9. 0 \in S
    <2>1. rq[0] \in D
      BY <1>8 DEF D
    <2> QED
      BY <2>1
  <1>10. ASSUME NEW i \in Nat, i \in S PROVE i + 1 \in S
    <2>1. i + 1 <= NumRqs => i + 1 \in 1 .. NumRqs /\ (i + 1) - 1 = i /\ i <= NumRqs
      BY <1>1
    <2> QED
      BY <1>2, <1>8, <1>10, <2>1
  <1>11. NumRqs \in S
    <2> HIDE DEF S
    <2> QED
      BY <1>1, <1>9, <1>10, SetInduction
  <1> QED
    BY <1>1, <1>7, <1>11 DEF D

LEMMA InitSettled == AllocInit => Settled
  <1> SUFFICES ASSUME AllocInit PROVE Settled
    OBVIOUS
  <1>1. DOMAIN runqueue = Entries /\ alloc.pc = "idle"
    BY DEF AllocInit, NoCall
  <1>2. numCores \in 1 .. MonCores
    BY RingAssumption DEF AllocInit, Init
  <1> QED
    BY <1>1, <1>2 DEF Settled

(* The first run queues asked are the cores, then those that suit.         *)
LEMMA AllocateTaskSettled ==
  ASSUME Settled, NEW t \in Tasks, AllocateTask(t)
  PROVE  Settled'
  <1> DEFINE cores == [k \in 1 .. numCores |-> k - 1]
             todo == cores \o WhichRunqueues(t)
  <1>1. /\ alloc' = [pc |-> "sleep", task |-> t, best |-> 0, util |-> 100, todo |-> todo,
                     slept |-> 0, idled |-> 0, seen |-> {}, rested |-> {}, late |-> FALSE]
        /\ UNCHANGED <<runqueue, numCores>>
    BY DEF AllocateTask, vars, setup
  <1>2. /\ DOMAIN runqueue = Entries
        /\ numCores \in 1 .. MonCores
    BY DEF Settled
  <1>3. cores \in Seq(Targets)
    <2>1. numCores \in Nat /\ \A k \in 1 .. numCores : k - 1 \in 0 .. MonCores - 1
      BY <1>2, RingAssumption
    <2>2. \A k \in 1 .. numCores : k - 1 \in Targets
      BY <2>1 DEF Targets
    <2> QED
      BY <2>1, <2>2
  <1>4. todo \in Seq(Targets)
    <2>1. WhichRunqueues(t) \in Seq(Targets)
      BY <1>2, WhichRunqueuesTargets
    <2> HIDE DEF cores
    <2> QED
      BY <1>3, <2>1, ConcatProperties
  <1> HIDE DEF todo
  <1>5. Targets' = Targets
    BY <1>1 DEF Targets
  <1> QED
    BY <1>1, <1>2, <1>4, <1>5 DEF Settled, Entries

(* Whatever get_utilization returns is a number.                           *)
LEMMA ReadingTyped ==
  ASSUME NEW core, NEW idled \in Nat, NEW util \in GetUtilization(core, idled)
  PROVE  util \in Int
  <1>1. idled \div Interval \in Int
    BY QueueAssumption
  <1> QED
    BY <1>1 DEF GetUtilization

(* The core compared moves from what is to be asked to what was seen.      *)
LEMMA CompareSettled ==
  ASSUME AllocInv, Settled, Compare
  PROVE  Settled'
  <1> DEFINE core == Head(alloc.todo)
             seen == alloc.seen \cup {core}
             rest == Tail(alloc.todo)
  <1>1. /\ alloc.pc # "idle" /\ alloc.todo # <<>>
        /\ UNCHANGED <<runqueue, numCores>>
    BY DEF Compare, Asleep, vars, setup
  <1>2. /\ alloc.best \in {0} \cup alloc.seen
        /\ alloc.seen \subseteq Targets
        /\ alloc.todo \in Seq(Targets)
        /\ alloc.util \in Int
        /\ alloc.util <= 100
        /\ alloc.idled \in Nat
    BY <1>1 DEF Settled, AllocInv, Measured
  <1>3. core \in Targets /\ rest \in Seq(Targets)
    BY <1>1, <1>2
  <1> DEFINE best(util) == IF util < alloc.util THEN core ELSE alloc.best
             least(util) == IF util < alloc.util THEN util ELSE alloc.util
             rested == IF alloc.idled >= Interval THEN alloc.rested \cup {core} ELSE alloc.rested
             late == alloc.late \/ alloc.slept >= 2 * Interval
  <1>4. PICK util \in GetUtilization(core, alloc.idled) :
          alloc' = [pc |-> "sleep", task |-> alloc.task, best |-> best(util),
                    util |-> least(util), todo |-> rest, slept |-> 0, idled |-> 0,
                    seen |-> seen, rested |-> rested, late |-> late]
    BY CompareValues
  <1>5. util \in Int
    BY <1>2, ReadingTyped
  <1>6. /\ alloc'.best = best(util) /\ alloc'.util = least(util)
        /\ alloc'.todo = rest /\ alloc'.seen = seen
    <2> HIDE DEF best, least, rest, seen, rested, late
    <2> QED
      BY <1>4
  <1> HIDE DEF core, rest
  <1>7. /\ alloc'.best \in {0} \cup alloc'.seen
        /\ alloc'.seen \subseteq Targets
        /\ alloc'.todo \in Seq(Targets)
        /\ alloc'.util \in Int
        /\ alloc'.util <= 100
    BY <1>2, <1>3, <1>5, <1>6
  <1>8. Targets' = Targets
    BY <1>1 DEF Targets
  <1> QED
    BY <1>1, <1>7, <1>8 DEF Settled, Entries

LEMMA SettledStep == AllocInv /\ Settled /\ [AllocNext]_allVars => Settled'
  <1> SUFFICES ASSUME AllocInv, Settled, [AllocNext]_allVars PROVE Settled'
    OBVIOUS
  <1>1. ASSUME UNCHANGED runqueue PROVE Targets' = Targets
    BY <1>1 DEF Targets
  <1>2. CASE UNCHANGED <<runqueue, numCores, alloc>>
    BY <1>1, <1>2 DEF Settled, Entries
  <1>3. CASE UNCHANGED allVars
    BY <1>2, <1>3 DEF allVars, allocVars, vars, setup
  <1>4. CASE \E t \in Tasks : AllocateTask(t)
    BY <1>4, AllocateTaskSettled
  <1>5. CASE Compare
    BY <1>5, CompareSettled
  <1>6. CASE Place
    <2>1. /\ alloc' = NoCall /\ UNCHANGED <<runqueue, numCores>>
      BY <1>6 DEF Place, NewTask, NoSuchCore, Return, setup
    <2> QED
      BY <1>1, <2>1 DEF Settled, Entries, NoCall
  <1>7. CASE \E idle \in SUBSET (0 .. MonCores - 1) : Tick(idle)
    <2> PICK idle \in SUBSET (0 .. MonCores - 1) : Tick(idle)
      BY <1>7
    <2>1. /\ alloc'.best = alloc.best /\ alloc'.util = alloc.util
          /\ alloc'.todo = alloc.todo /\ alloc'.seen = alloc.seen
          /\ alloc.pc # "idle"
      BY TickValues DEF Tick, Asleep
    <2>2. UNCHANGED <<runqueue, numCores>>
      BY <1>7 DEF Tick, vars, setup
    <2> QED
      BY <1>1, <2>1, <2>2 DEF Settled, Entries
  <1>8. CASE Controller
    <2>1. CASE Enq \/ WildRing
      BY <1>2, <1>8, <2>1 DEF Controller, Enq, EnqLock, EnqLocked, EnqFull, EnqStore, EnqFault,
         EnqWindow, EnqShrink, EnqUnlock, EnqStep, EnqReturn, WildRing, Fault, allocVars, setup
    <2>2. CASE alloc.pc = "idle" /\ SetSyncDs
      <3>1. alloc'.pc = "idle" /\ numCores' = 1 /\ UNCHANGED runqueue
        BY <1>8, <2>2 DEF Controller, SetSyncDs, allocVars
      <3>2. 1 \in 1 .. MonCores
        BY RingAssumption
      <3> QED
        BY <3>1, <3>2 DEF Settled, Entries
    <2> QED
      BY <1>8, <2>1, <2>2 DEF Controller
  <1>9. CASE \E c \in Clients : Client(c)
    BY <1>2, <1>9 DEF Client, ClientLock, ClientNoLock, ClientHead, ClientWindow,
                      ClientUnlock, ClientStep, allocVars, setup
  <1> QED
    BY <1>3, <1>4, <1>5, <1>6, <1>7, <1>8, <1>9 DEF AllocNext, Allocator

(* The run queue allocate_task settles on is the one it starts from or one *)
(* whose utilization it asked for, and it asks for none but the cores and  *)
(* what the entries of _runqueue name, whatever memory those were left in. *)
THEOREM AllocTypeCorrect == AllocSpec => []AllocTypeOK
  <1>1. Settled => AllocTypeOK
    <2> SUFFICES ASSUME Settled, alloc.pc # "idle" PROVE AllocTypeOK
      BY DEF AllocTypeOK
    <2>1. Range(alloc.todo) \subseteq Targets
      BY DEF Settled, Range
    <2> QED
      BY <2>1 DEF Settled, AllocTypeOK, Targets
  <1> QED
    BY <1>1, AllocInitInv, AllocStep, InitSettled, SettledStep, PTL DEF AllocSpec

================================================================================
