----------------------------- MODULE TaskAllocator -----------------------------
(***************************************************************************)
(* Task_allocator::allocate_task of src/sched_controller/task_allocator.cc *)
(* with the functions of Sched_controller it calls, and the raw client of  *)
(* src/rq_client/main.cc, which takes the tasks off the ring of core 0.    *)
(* No RPC calls Sched_controller::allocate_task yet; here a task may come  *)
(* whenever the controller is idle.  The client gets its ring from         *)
(* Rq_manager, a service outside the repository; here it is the ring the   *)
(* controller fills, which has the layout the client expects.              *)
(*                                                                         *)
(* The allocator measures the utilization of every core and then of every  *)
(* run queue that suits the task, sleeping 100 ms for each, and hands the  *)
(* task to enq of SchedController with the number of the least utilized.   *)
(* Cores turn idle and busy meanwhile.                                     *)
(***************************************************************************)
EXTENDS SchedController

CONSTANTS
  NumRqs,      \* _num_rqs: length of the array _runqueue (128)
  WildQueues,  \* what an entry of it that is never initialised may hold
  Deadlined,   \* the tasks with the strategy deadline
  Interval,    \* ticks a measurement sleeps at least (100 ms)
  MaxSleep,    \* bound on the ticks a measurement takes
  Clients      \* the processes rq_client, each of which runs once

ASSUME QueueAssumption ==
  /\ {NumRqs, Interval, MaxSleep} \subseteq Nat
  /\ Interval > 0
  /\ MonCores <= NumRqs
  /\ Deadlined \subseteq Tasks

VARIABLES
  runqueue,    \* the array _runqueue
  alloc,       \* the call of allocate_task in progress
  resting,     \* history: the cores idle ever since that call began
  client       \* client[c]: the statement raw client c executes next

allocVars == <<runqueue, alloc, resting>>
allVars == <<vars, allocVars, client>>

Entries == 0 .. NumRqs - 1
NoCall == [pc |-> "idle"]

InitRunqueue(i) == [task_class |-> "lo", task_strategy |-> "priority", rq_buffer |-> i]

AllocInit ==
  /\ Init
  /\ runqueue \in [Entries -> {InitRunqueue(i) : i \in 0 .. MonCores - 1} \cup WildQueues]
  /\ \A i \in Entries : IF i < MonCores THEN runqueue[i] = InitRunqueue(i)
                        ELSE runqueue[i] \in WildQueues
  /\ alloc = NoCall
  /\ resting = {}
  /\ client = [c \in Clients |-> "lock"]

-----------------------------------------------------------------------------
(* void allocate_task(Sched_controller *sc, Rq_task *task)                 *)

Strategy(t) == IF t \in Deadlined THEN "deadline" ELSE "priority"

Suits(q, t) == q.task_class = t.task_class /\ q.task_strategy = Strategy(t)

\* Deviation: the index of an entry is taken for its ring.
WhichRunqueuesByIndex(t) ==
  LET rq[i \in 0 .. NumRqs] ==
        IF i = 0 THEN <<>>
        ELSE IF Suits(runqueue[i - 1], t) THEN Append(rq[i - 1], i - 1) ELSE rq[i - 1]
  IN  rq[NumRqs]

\* The rings of the entries with the class and strategy of t, in their order.
WhichRunqueues(t) ==
  LET rq[i \in 0 .. NumRqs] ==
        IF i = 0 THEN <<>>
        ELSE IF Suits(runqueue[i - 1], t) THEN Append(rq[i - 1], runqueue[i - 1].rq_buffer)
        ELSE rq[i - 1]
  IN  rq[NumRqs]

\* The first call of get_utilization reads the idle times and sleeps.
\* A hi task, and one that suits no run queue, is dropped without a trace: no
\* step.  All cores have a run queue, so get_unused_cores finds none for it.
AllocateTask(t) ==
  /\ up /\ call.pc = "idle" /\ alloc.pc = "idle"
  /\ t.task_class # "hi"
  /\ WhichRunqueues(t) # <<>>
  /\ alloc' = [pc |-> "sleep", task |-> t, best |-> 0, util |-> 100,
               todo |-> [k \in 1 .. numCores |-> k - 1] \o WhichRunqueues(t),
               slept |-> 0, idled |-> 0, seen |-> {}, rested |-> {}, late |-> FALSE]
  /\ resting' = 0 .. MonCores - 1
  /\ UNCHANGED <<vars, runqueue, client>>

\* One unsigned 64-bit division: 1 unless the core was idle for the interval.
\* From two intervals on 1 - 2 wraps, and the double does not fit the int.
GetUtilization(core, idled) ==
  LET quotient == idled \div Interval
  IN  CASE core \notin 0 .. 3 -> {-1}
        [] quotient <= 1 -> {1 - quotient}
        [] OTHER -> {-2147483647 - 1, 2147483647}

\* The new_util that is less than util is kept, with its core ...
\* Deviation: ... util is not.
BetterForgotten(a, core, new_util) ==
  IF new_util < a.util THEN [a EXCEPT !.best = core] ELSE a

Better(a, core, new_util) ==
  IF new_util < a.util THEN [a EXCEPT !.best = core, !.util = new_util] ELSE a

Asleep == up /\ alloc.pc = "sleep" /\ alloc.todo # <<>>

Compare ==   \* get_utilization returns, and is called for the next one
  /\ Asleep
  /\ alloc.slept >= Interval
  /\ LET core == Head(alloc.todo)
     IN  \E new_util \in GetUtilization(core, alloc.idled) :
           alloc' = [Better(alloc, core, new_util) EXCEPT
                      !.todo = Tail(@),
                      !.seen = @ \cup {core},
                      !.rested = IF alloc.idled >= Interval THEN @ \cup {core} ELSE @,
                      !.late = @ \/ alloc.slept >= 2 * Interval,
                      !.slept = 0, !.idled = 0]
  /\ UNCHANGED <<vars, runqueue, resting, client>>

Chosen == up /\ alloc.pc = "sleep" /\ alloc.todo = <<>>

Place ==   \* task_to_rq: what enq returns is dropped
  /\ Chosen
  /\ \/ NewTask(alloc.best, alloc.task)
     \/ NoSuchCore(alloc.best)
  /\ alloc' = NoCall
  /\ resting' = {}
  /\ UNCHANGED <<runqueue, client>>

-----------------------------------------------------------------------------
(* The cores: in a tick those in idle do nothing.                          *)

Tick(idle) ==
  /\ Asleep
  /\ alloc.slept < MaxSleep
  /\ resting' = resting \cap idle
  /\ alloc' = [alloc EXCEPT !.slept = @ + 1,
                 !.idled = IF Head(alloc.todo) \in idle THEN @ + 1 ELSE @]
  /\ UNCHANGED <<vars, runqueue, client>>

-----------------------------------------------------------------------------
(* int main() of rq_client, on the ring of core 0: one store to the ring a *)
(* step.  The records it prints are read and forgotten.                    *)

ClientStep(c, from, to) ==
  /\ up
  /\ client[c] = from
  /\ client' = [client EXCEPT ![c] = to]
  /\ UNCHANGED <<setup, records, call, result, outside, allocVars>>

ClientLock(c) ==
  /\ ClientStep(c, "lock", "head")
  /\ ~rings[0].lock
  /\ rings' = [rings EXCEPT ![0].lock = TRUE]

ClientNoLock(c) ==   \* "Did not obtain lock"
  /\ ClientStep(c, "lock", "done")
  /\ rings[0].lock
  /\ UNCHANGED rings

ClientHead(c) ==
  /\ ClientStep(c, "head", "window")
  /\ rings' = [rings EXCEPT ![0].head = @ + 1]

\* Deviation: the window shrinks, as if the client had enqueued.
ClientWindowShrinks(c) ==
  /\ ClientStep(c, "window", "unlock")
  /\ rings' = [rings EXCEPT ![0].window = @ - 1]

ClientWindow(c) ==
  /\ ClientStep(c, "window", "unlock")
  /\ rings' = [rings EXCEPT ![0].window = @ + 1]

ClientUnlock(c) ==
  /\ ClientStep(c, "unlock", "done")
  /\ rings' = [rings EXCEPT ![0].lock = FALSE]

-----------------------------------------------------------------------------

Allocator ==
  \/ \E t \in Tasks : AllocateTask(t)
  \/ Compare \/ Place
  \/ \E idle \in SUBSET (0 .. MonCores - 1) : Tick(idle)

Controller ==   \* the rest of enq, and the other RPC that moves _num_cores
  /\ \/ Enq \/ WildRing
     \/ alloc.pc = "idle" /\ SetSyncDs
  /\ UNCHANGED <<allocVars, client>>

Client(c) ==
  \/ ClientLock(c) \/ ClientNoLock(c)
  \/ ClientHead(c) \/ ClientWindow(c) \/ ClientUnlock(c)

AllocNext == Allocator \/ Controller \/ \E c \in Clients : Client(c)

AllocSpec == AllocInit /\ [][AllocNext]_allVars

-----------------------------------------------------------------------------
(* Properties *)

(* The allocator hands out rings by their number: the one it settles on is *)
(* ring 0, where the search starts, or one whose utilization it asked for, *)
(* with a utilization that get_utilization may return.                     *)
AllocTypeOK ==
  alloc.pc # "idle" =>
    /\ alloc.best \in {0} \cup alloc.seen
    /\ alloc.seen \cup Range(alloc.todo) \subseteq
         (0 .. MonCores - 1) \cup {q.rq_buffer : q \in Range(runqueue)}
    /\ alloc.util <= 100

(* A core with nothing to do gets the task: if one of the cores asked has  *)
(* been idle ever since the call began, the core chosen was idle for a     *)
(* whole interval of it, although by then the readings are of different    *)
(* ages.  So the truncated quotients (1 - idle / 100000 in whole numbers)  *)
(* still tell an idle core from a busy one, provided that no sleep lasted  *)
(* twice its time and no entry of garbage named a core that is not one.    *)
IdlePreferred ==
  /\ Chosen
  /\ ~alloc.late
  /\ alloc.seen \subseteq 0 .. 3
  /\ alloc.seen \cap resting # {}
  => alloc.best \in alloc.rested

(* The raw client and enq leave the control words of a ring in step: as    *)
(* many elements as the tail is ahead of the head, also when the client    *)
(* has taken more than there were and the number is below zero.            *)
WordsInStep ==
  \A i \in Rings :
    ~rings[i].lock => NumElements(rings[i]) = rings[i].tail - rings[i].head
================================================================================
