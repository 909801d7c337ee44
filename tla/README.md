# Verification of the scheduling controller

The repository holds a user-land scheduling controller for Genode/Fiasco.OC: a
server that admits real-time tasks to per-core run queues, and an *optimizer*
that watches the tasks' jobs through a monitoring service and decides which
tasks may be started. This directory holds TLA+ modules for it, TLC
configurations that check them on small instances, and TLAPS proofs.

Paths below are relative to the repository (`src/...`, `include/...`).

## The system

| Part | Code | State it keeps | Operations |
|---|---|---|---|
| Run-queue ring | `include/sched_controller/rq_buffer.h` | in a shared dataspace: `_lock`, `_head`, `_tail`, `_window`, the slots | `init_w_shared_ds`, `enq`, `deq`, `get_first_element`, `get_last_element`, `get_num_elements` |
| Optimizer | `src/sched_controller/sched_opt.cc` | `_tasks`, `_ended_tasks`, `_related_tasks`, `_opt_goal` | `add_task`, `set_goal`, `start_optimizing`, `last_job_started`, `scheduling_allowed`, and the private functions behind `start_optimizing` |
| Schedulability tests | `src/sched_controller/sched_alg.cc` | none of its own; reads a ring | `fp_sufficient_test`, `RTA` |
| Controller and RPC session | `src/sched_controller/sched_controller.cc`, `main.cc`, `include/sched_controller_session/` | `task_map`, the ring array, the dataspaces, `_num_cores` | `enq`/`new_task`, `update_rq_buffer`, `init_ds`, `set_sync_ds`, `are_you_ready`, `the_cycle` |
| Allocator and pcores | `task_allocator.cc`, `pcore.cc` | none between calls; the pcores and the array `_runqueue` of the controller | `allocate_task`, with the controller's `which_runqueues`, `get_utilization`, `task_to_rq` |
| Raw ring client | `src/rq_client/main.cc` | the shared dataspace | a dequeue written out by hand, by address |
| Outside the repository | `include/sched_controller/monitor.h` | the monitor's thread list, the list of dead threads, the kernel, the task loader | |

How they interact:

* The loader calls `new_task`. `Sched_controller::enq` puts the task into
  `task_map`, hands it to the optimizer and enqueues it in the ring of its
  core. The ring lies in a dataspace that a *consumer in another process*
  maps; `_lock` is the only thing between the two.
* Before it starts a job the loader calls `scheduling_allowed`; when it has
  started one it calls `optimize`; with the last job it calls
  `last_job_started`. `optimize` does not return before the deadline of the
  task has come and the monitor's data has been analysed.
* The allocator measures the cores for 100 ms each and calls the controller's
  `enq` with the least utilized one. No RPC reaches it yet.
* After `are_you_ready` the controller no longer answers: `the_cycle` fills a
  ring with the monitor's list, again and again, for a kernel to take over.
* The optimizer fetches a copy of the monitor's thread list and reads the list
  of dead threads in place. Meanwhile the kernel starts, ends and kills jobs.

What is hard in it:

* **Interleaving.** enq and deq of several processes are sequences of separate
  loads and stores on the same words; an operation that finds the lock taken
  gives up with code 2 instead of waiting.
* **Boundary arithmetic.** The ring's head and tail wrap; the window counts
  the free slots; the optimizer has unsigned indices that start as -1.
* **Long sequences.** The optimizer's lists of related tasks are kept three
  times (an id in each task, a set of names in each list, the map of lists),
  and created, joined, merged and dissolved while tasks come and go; each
  `.at()` relies on the three copies and aborts the process if they differ.
* **Stale data.** The thread list is a copy, the list of dead threads is not;
  the clock is read before either; a task's newest job is noted only while
  other tasks are analysed; the fairness counters of every task lie in a stack
  frame that is gone.
* **Everyone waiting on everyone.** Tasks deny one another the processor.

What makes each part correct: the ring is a bounded first-in first-out queue
and its lock is always released; the optimizer's copies of the relation agree,
`max_value` is what it caches, knowledge of jobs only moves forward, no task
is denied for a reason that is gone, and a task of each list may run; the
schedulability tests accept no set of tasks the exact analysis refuses; the
controller's `task_map` and the optimizer know every task that is in a ring,
and the tests read nothing but the queue; the allocator prefers an idle core
although it measures one after the other.

## Modules

| Module | Contents |
|---|---|
| `BoundedFifo` | what a run queue promises: a bounded queue on which each call takes effect at one instant, or is refused with code 1 (full, empty) or 2 (another call is running) |
| `RqBuffer` | the ring, one shared-memory access per step |
| `MCRqBuffer` | its instance for TLC |
| `RqBufferProofs` | its inductive invariant, the theorems about its safety and the proof that it implements `BoundedFifo` |
| `RelatedTasks` | what the optimizer promises of its lists of related tasks: disjoint groups that only grow together, and go with their last pair |
| `RelatedTasksProofs` | the proof that those groups are disjoint |
| `SchedOpt` | the optimizer with its environment; implements `RelatedTasks` |
| `MCSchedOpt` | its instances for TLC |
| `SchedOptLemmas` | lemmas about its functions: what each keeps, that the lists stay sound when tasks are blamed |
| `SchedOptProofs` | its inductive invariant, the theorems about its safety and the proof that it implements `RelatedTasks` |
| `SchedAlg` | the two schedulability tests as functions, and time-demand analysis as the reference they are compared with |
| `SchedAlgProofs` | the proofs that the response-time iteration is exact, that RTA refuses nothing that fits, and that what the sufficient test accepts fits while the load is no more than one |
| `NumberLemmas` | lemmas shared by the proofs: least elements, induction over a set of numbers, loops over a set of states |
| `SchedController` | `new_task`, `update_rq_buffer`, `set_sync_ds` and `are_you_ready` over the rings, with a consumer on each ring |
| `MCSchedController` | its instances for TLC |
| `SchedControllerProofs` | the proofs that its records of a task agree, about the control words of its rings (types, what the tests read, what `the_cycle` fills), and about what RTA answers |
| `TaskAllocator` | `allocate_task` on top of `SchedController`, with cores that turn idle and busy, and raw clients of ring 0 |
| `MCTaskAllocator` | its instances for TLC |
| `TaskAllocatorProofs` | the proofs that an idle core is preferred, that only rings are chosen that a core or a run queue names, and that raw clients keep the words of a ring in step |

### RqBuffer

Each process has a program counter `pc[p]`; its values name the statement that
comes next. The actions are the statements of `enq` (`EnqLock`/`EnqBusy` for
the compare-and-exchange, `EnqFull`/`EnqStore` for the window test,
`EnqTail`, `EnqWrap`, `EnqWindow`) and of `deq` (the same, with `DeqPtr`
storing `&_buf[*_head]`); `ReturnDone` and `ReturnRefused` clear the lock and
return. `++(*_tail)` and the wrap-around `if` are two steps, so a tail equal to
`_buf_size` is visible to other processes. `deq` returns a *pointer*: the
model keeps the index of the slot and a history variable with the element that
was in it, which the refinement compares with what leaves the queue; `Forget` is
the moment the consumer, a program outside the repository, is done with it. No
program in the repository reads a record through that pointer, so how long it
stays good is not a property here. A task is an opaque element.

Several producers and consumers are allowed, more than the controller uses, as
the lock does not say who may call.

Abstracted: memory is sequentially consistent (the code's plain store that
frees the lock has no barrier, which on a weak memory model would be a
question of its own); the array is as long as `_buf_size`; the ring is
initialised once, before the processes run. `SchedController` drops the last
two. What is shown here is about rings that are not initialised in use:
`init_w_shared_ds` does not ask for the lock.

### SchedOpt

`tasks`, `ended`, `related` and `goal` are the members of `Sched_opt`. The
private functions are operators with the functions' names on a record of those
members, since they run inside one RPC that nothing else interrupts. A loop in
which each round works on what the last one left is a recursive function over
its rounds (`SearchRip`, `ManyNewJobs`, `UnlistAll`); one whose rounds do not
meet is a function over the tasks (`NoteOthers`, `ResetValues`). A function
whose result depends on the order of an `unordered_map` yields a
*set* of records (`RemoveTask` over all orders of the remaining tasks,
`Causes` for whichever owner of a job is found first). An uncaught
`out_of_range` and the dereference of an end iterator set `up` to FALSE.

The RPC `optimize` is split where time passes: `StartOptimizing`, `Poll` (the
last round of the polling loop, which reads the time and then copies the
monitor's list), `Analyse` (all of `_query_monitor` and what it calls) and
`Return` after the sleep. Between them, and only between them, the environment
moves: `Tick`, `StartJob`, `EndJob`, `KillJob`, `DropJob`. As in the code the
list of dead threads is read at the time of the analysis, not of the copy, and
the time the analysis works with may be older than both (`Lag`).

What the code leaves undefined is a choice:

* `_threads[-1]`, read while the two most recent threads are looked for: its
  name is nobody's, its arrival time is `WildArrival`. (On the 32-bit target
  the index wraps to the record before the array, which is mapped.)
* `value` points into the stack frame of `add_task`: before each analysis
  `Clobber` may replace all values with any of `StackWords`, or leave them.

`ImplementsGroups` relates the module to `RelatedTasks`: the groups are the
sets of names of the lists, the tasks alive and gone are the keys of the two
maps. An analysis, which may relate a task to several others, merge lists and
remove the task, must be one `Judge`, one `Leave`, or leave the groups as they
are.

Assumptions about the environment: the monitor and the optimizer's timer show
the same clock; the monitor lists threads in the order in which they were
started; threads run on cores the optimizer knows; the dead threads' times are
compared as they stand, as the code does (the comment at
`sched_opt.cc:530` speaks of a division by 1000 that is not there); the list
of dead threads does not change while one analysis reads it; the loader
asks `scheduling_allowed`, keeps to the inter-arrival time and starts nothing
after the job it announced as the last; a job takes at least a tick, and time
passes between one `optimize` call and the next.

A behaviour is followed until the process aborts. The clock, the number of
jobs and an abort end it, so these runs do not check for deadlock.

### SchedAlg and SchedController

`SchedAlg` has `RTA` and `FpSufficientTest` as functions of the new task and of
the sequence of records the code walks over. `ResponseTimeMet` is the loop of
`_compute_repsonse_time`, a recursive function from the wcet up, and `Demand`
its inner loop over the records. `FpSufficientTest` is a recursive function over
the rounds of the loop, whose value is the sums that are left. The doubles are
fractions with the denominator `Hyper`: exact, as every inter-arrival time has
to divide it (`HyperMultiple`), and equal to the doubles when those are powers
of two, as they are in the instances. `Exceeds` compares them as
doubles do when the divisor `1 - sum_util` is zero or negative. The reference,
`Schedulable`, is time-demand analysis: each task of the queue must find a time
up to its deadline by which the demand of itself and of all before it is met.
`AlwaysSchedulable` asks this of every job, not of the first: `Jobs(k, t)` are
the first k jobs of a task as one, due when the last of them is, because with a
deadline later than the next arrival a job waits for those of its own task, too.
For deadlines up to the inter-arrival time the two are the same analysis.
`Placed` is the queue with the new task behind all elements of a higher
priority. The code's counters are 64 bits wide; the numbers of the model do not
overflow.

`SchedController` serves one RPC at a time (`call`), since the session has one
entrypoint. `NewTask` is `enq` up to the tests: the insertion into `task_map`
(which keeps an entry that is there) and the call of the optimizer. The tests
read the ring without its lock, so each reading is a step: `FpCount`, `FpFirst`
and `FpWalk`, `RtaCount`, `RtaFirst`, `RtaHead`, `RtaLast` and `RtaWalk`.

A ring has two sides, and only three of its words are used by both: the lock,
the head and the window. *A step reads or writes one of these.* On the
controller's side `enq` is `EnqLock`, the window test (`EnqFull`, `EnqStore`),
the window's load and store (`EnqWindow`, `EnqShrink`) and `EnqUnlock`;
`init_w_shared_ds` is `InitLock`, `InitHead`, `InitTail` and `InitWindow`, in the
order of the code and without looking at the lock. On the consumer's side `deq`
is `DeqLock`, `DeqTest`, `DeqHead` and `DeqMove` (load and store of the head),
`DeqWrap`, `DeqWindow` and `DeqFree` (load and store of the window) and
`DeqUnlock`; the word it has loaded and not yet stored is in `reader`. The tail
and the slots are the controller's alone, so `EnqStore` writes the slot and moves
the tail in one step. All of these interleave: the reset may find the consumer
at any of its accesses, the consumer may take the lock the reset has just
cleared, and a consumer that was overtaken may free a lock that `enq` has taken.

After a reset that meets a `deq` the words of a ring need not agree. Let a
consumer be past the window test, and the reset clear lock and head; the
consumer stores head 1, its window and the lock, and then the reset stores tail
and window. The ring counts as empty and its head is at slot 1; after the next
`enq`, which fills slot 0, a test walks over a slot that may never have been
written. `torn` is a history variable with the rings whose last reset met a
`deq`; a reset that meets none takes its ring out again. What is claimed of the
tests is claimed of the other rings, and what becomes of a torn one is the
finding of `controller_update`.

`UpdateRqBuffer` initialises the ring and then handles the monitor's list one
entry after the other (`Refill` and the steps of `enq`, `RefillUnknown`,
`RefillEnd`). The list holds threads and may name a task more than once.
`SetSyncDs` replaces the array of rings by one ring without memory.

What ends the process sets `up` to FALSE: a store behind the end of the
dataspace (`Mapped` slots, fewer than the `BufSize` the ring is told), the
null pointer `get_first_element` returns after the ring has been emptied under
the walk, a walk or `get_last_element` that leaves the records ever written,
`.at()` of a dataspace that does not exist, a ring beyond the array `_rqs` or
without memory. Where the access is undefined rather than faulting the test
may also answer either way (`FpWalk`, `RtaWalk` over `BOOLEAN`).

`AreYouReady` enters `the_cycle`, which attaches rings 0 and 1 to the same
dataspace; from then on nothing reads the other rings, so that one dataspace is
a field of the call (`call.sync`). Each round is `CycleUpdate`, which
initialises the ring, a `CycleFill` for each entry of the list, and
`CycleDeploy`. There the loop tests a pointer that is never set: if it happens
to be null the round ends and the next begins, and otherwise the list is
written past its dataspace. The call never returns.

Abstracted: the body of the optimizer's `add_task` (it is `SchedOpt`'s
`AddTask`) is the set of names it was given; a slot is copied as a whole;
attributes that no test reads are left out.

### TaskAllocator

`AllocateTask` starts the call of a task: `todo` is what `get_utilization` is
asked for, first each core, then each run queue of the array that suits the
task (`WhichRunqueues`, the loop over the array). A measurement is a sleep of at least `Interval` ticks;
in each `Tick` any set of cores is idle. `Compare` ends it, computes the
utilization and keeps the better core; `Place` hands the task to `enq`
(`NewTask` or `NoSuchCore`), whose status the code drops, and the steps `Enq` of
`SchedController` finish it.

`GetUtilization` is the code's arithmetic: `1 - idle / 100000` in unsigned
64-bit integers, so 1 or 0, and when the sleep lasted two intervals 1 - 2
wraps; the conversion of that double to an `int` is undefined and yields any
extreme value. A number that is no core yields -1, which is less than
everything. Only the first `MonCores` of the `NumRqs` run queues are
initialised; the others hold any of `WildQueues`, and a matching one is
searched, and chosen, like the rest.

`resting` (the cores idle since the call began) and the fields `seen`,
`rested` and `late` of the call are history. They are what the property of
the choice is about.

`rq_client` does by hand what `deq` does, with one access a step
(`ClientLock`, `ClientHead`, `ClientWindow`, `ClientUnlock`), and neither
wraps the head nor looks whether the queue is empty. It asks a service outside
the repository for its ring; here it is given ring 0 of the controller, whose
layout its addresses presume. Its accesses and those of `enq` interleave.

## Runs

### The ring

| Run | Instance | Question and result |
|---|---|---|
| `ring` | 1 producer, 2 consumers, 2 elements, 2 slots, fair | Are the control words changed under mutual exclusion, do head, tail and window agree between any two stores, is no queued slot overwritten, is every behaviour one of `BoundedFifo`, and is a lock that was taken always released, on all four return paths? Yes. |

Two slots and two elements are enough for the ring to be empty, partly filled,
full and wrapped several times, and to tell order from loss; a third process
meets a lock the other two contend for. The proofs remove these bounds.

`LockReleased` assumes weak fairness of the steps of a process *inside* a
call. A call of the ring never waits for another process, so this only says
that the kernel does not stop a process for ever in the middle of it. No
process is assumed to make a call.

### The optimizer

All tasks are enqueued and goals are chosen at time 0 (`SetupTime`). Deadlines
are one tick, inter-arrival times one or two. Jobs are started, end late or in
time, and are killed, early or late, in every order. No single instance can
have everything at once, so three of them divide the ways a list of related
tasks comes and goes: with four jobs of two tasks each can be put on a list of
its own before both meet and the lists merge, and tasks finish with their last
job; three tasks grow a list and collect competitors; two cores and killed jobs
bring the removals that depend on what the optimizer knows of a job. Every
property is violated by a small deviation in the code within the same bounds.

| Run | Instance | Question and result |
|---|---|---|
| `optimizer` | 2 tasks, 4 jobs, 4 ticks, last jobs at any time | Does the bookkeeping survive misses, blame, merges of lists and removals? `RelatedPartition`, `CompetitorsRelated`, `MaxValueExact`, `NewestJobIsOwn`, `EndedRemembered`, `ImplementsGroups` hold. |
| `optimizer_three` | 3 tasks, 4 jobs, 3 ticks, both goals, values overwritten with 2, no last jobs | Lists of three tasks and tasks with two competitors: `RelatedPartition`, `MaxValueExact`, `ImplementsGroups` hold, and `SomeoneMayRun` does not depend on the values being what the optimizer stored. |
| `optimizer_cores` | 2 tasks on 2 cores, both goals, 2 jobs, 1 killed, 1 dropped, a thread older than the tasks, a clock reading up to a tick old, inter-arrival time twice the deadline | Is what is known of jobs right, and does it only move forward? `SomeoneMayRun`, `NewestJobIsOwn`, `JobsForward`, `EndedRemembered` hold. |
| `optimizer_removal` | 1 task | `RemovalSurvives` fails: removing a task that is alone on its list dereferences the end of an empty set. |
| `optimizer_denied` | 2 tasks, 2 jobs, none killed | `DeniedForAReason` fails: the rival a task was denied for ends, and the task stays denied. |
| `optimizer_greatest` | 2 tasks, 3 jobs | `GreatestAllowed` fails: a task that is its own competitor allows and then denies itself. |

The properties, and what a step has to get wrong to break them:

* `RelatedPartition` — the id of a task, the set of names and the map of lists
  describe one partition. Broken by a join that forgets the id or a removal
  that leaves one behind.
* `CompetitorsRelated` — a competitor is a living task, listed once, on the
  same list.
* `MaxValueExact` — the cached `max_value` is one more than the longest
  competitor list of the related tasks, also after merges.
* `ImplementsGroups` — of all that one analysis may do to the lists, nothing
  but the task's own list and those of the tasks it blames is touched; lists
  merge whole and never split; a removed task takes its list with it only if
  one other task was on it. Broken by giving a task that is on a list a new one,
  or by a merge that keeps both lists.
* `SomeoneMayRun` — unless some task of a list was made its own competitor,
  one task of the list is allowed. The exception is the finding of
  `optimizer_greatest`.
* `JobsForward` — a task's `arrival_time` and the arrival time of its
  `newest_job` never decrease.
* `NewestJobIsOwn` — a job stored in a task is that task's, so a death found
  under its id is that task's death.
* `EndedRemembered` — a task is removed only for a last job or a kill before
  its deadline, and its entry among the ended tasks stays.

Behaviour seen while modelling that no run states as a property, as nothing in
the repository promises otherwise: on a task's first analysis the window of
possible causes begins at 0, so a thread that has not ended (`exit_time` 0)
counts as the cause; a job that was killed exactly at its deadline makes its
task its own competitor; removing one of three or more related tasks looks up
the erased task and ends the process (`sched_opt.cc:814`); a task that was left
without a list while denied ends the process in its next analysis
(`_reset_values` of id 0); of several new threads in the order of arrival the
second most recent one is never noted, as `second_recent_thread` is only written
for a thread older than the most recent one; a task counts as finished although
an older job of it still runs; choosing the goal NONE does not lift earlier
denials; with several new threads the loop at `sched_opt.cc:360` indexes the
thread list with its own counter, so the core of a task may become that of
another task's job.

### The controller

| Run | Instance | Question and result |
|---|---|---|
| `controller` | ring 0 with 2 mapped slots out of 3 and a second ring, 1 core, 3 kinds of tasks with 2 names, lists of up to 2 threads and one of 3 | Do the records agree (`QueuedListed`), whatever is refused, faults or moves in between? Do the tests read nothing but the queue (`WalkSafe`)? Does what the sufficient test accepts meet all its deadlines (`AcceptanceMeetsDeadlines`), does the exact test refuse only what does not fit (`RefusalJustified`), and is it exact for a task of the lowest priority (`LowestExact`)? Does `the_cycle` fill its ring with the current list alone (`CycleFresh`)? Yes. |
| `controller_accept` | 1 ring, 5 kinds of tasks with 2 names | `AcceptanceJustified` fails: with exactly one task before it the new task's own response time is never computed. |
| `controller_overload` | 1 ring, 3 tasks whose deadlines are later than their next arrival | `SufficientSound` fails: behind tasks that ask for 9/8 of the processor the bound of the new task is -29, and it is accepted. |
| `controller_update` | the tasks of `controller`, 1 ring, 2 cores | `WindowInRange` fails: a ring initialised while a consumer is inside `deq` counts one free slot more than it has. |

The properties of the tests are about the moment a test has read the ring, for
a run queue that is sorted by priority, as `sched_alg.h` demands, that has not
moved since it was counted, in a ring whose last reset met no `deq`. Unsorted
queues, queues that move and torn rings are reachable; nothing is claimed of
them except that the records agree and the indices stay in range. The three
tasks are chosen so that each test accepts some queue, refuses some queue, so
that the sufficient test refuses queues the exact one accepts, and so that one
of them may be still at it when it arrives anew. Two mapped slots let the new
task go before, between and after the others and let the next `enq` run behind
the dataspace, as it does on a ring of 10000 slots over 32 records; two are
also enough for a head that was moved past a reset. The run has 1.5 million
distinct states; the proofs have no such bounds.

`Cores` has one value that is neither a core nor a ring, so `init_ds`'s second
ring is only there for `the_cycle`, which needs it. `VIEW Seen` names what
tells states apart: what a call returned last and what a call has read and does
not need again are read by no step, the rings that are not in `Cores` are read
by none either, and once the process has ended, or is in `the_cycle`, the rest
is not read any more. All that is left out was checked before it left the view,
and then stays as it was (a ring that nothing fills stays empty), except for
`result` and `made`, which are in no property but `TypeOK`; that one is proved.

* `QueuedListed` — a task in a ring, also one that has been dequeued but whose
  slot was not reused, is in `task_map`, and a lo task is known to the
  optimizer. Broken by recording only when the ring has accepted, or only one
  class of tasks.
* `WalkSafe` — a test that counted the queue and finds it as long as that when
  it walks over it stays on records that were written, unless the ring's last
  reset met a `deq`. This ties the head, the tail, the window and the slots
  together over every mix of enqueues, dequeues, refills and resets, with any
  access of a consumer between any two of them. Broken by a count that is off by
  one.
* `CycleFresh` — broken by a round that fills the ring on without initialising it.
* `AcceptanceMeetsDeadlines` — with the new task at its place every job of the
  run queue meets its deadline, also where a deadline is later than the next
  arrival. The condition is that the sums of the test have not passed a
  utilization of one; without it acceptance is only right if no deadline is later
  than the next arrival, and `SufficientSound` is the claim of the code that
  drops it. Broken by adding a task to one sum of the bound and not to the other.
* `RefusalJustified` — broken by counting the tested task among its own
  interference.
* `LowestExact` — broken by leaving out one of the tasks before it.

These runs may end with the process, so they do not check for deadlock.

### The allocator

| Run | Instance | Question and result |
|---|---|---|
| `allocator` | 2 cores, 3 run queues of which 2 are initialised, 1 lo task, measurements of 2 to 4 ticks, 2 raw clients, 2 mapped slots | Is an idle core preferred (`IdlePreferred`), are only rings chosen that a run queue names (`AllocTypeOK`), and do raw clients and `enq` leave the words of the ring in step (`WordsInStep`)? Yes. |

The third run queue starts as one of four records: zeroed memory, one that
asks for the other strategy, one that repeats ring 1 and one that names a ring
that does not exist. Two ticks are the shortest interval in which a core can
be idle for a part of the sleep; four reach the wrapped quotient.

* `IdlePreferred` — if one of the cores asked was idle from the beginning of
  the call, the chosen one was idle for a whole interval. It holds although the
  readings are up to four sleeps apart. Excluded are the two cases in which the
  code cannot keep it: a sleep of twice the interval (`late`), and a garbage
  run queue that names no core. These and a core that turned busy after it was
  measured are in the model, and no property is about them. Broken by a search
  that forgets the least utilization it has seen.
* `AllocTypeOK` — the run queues are handed on by the number of their ring, not
  by their place in the array.
* `WordsInStep` — the window is the distance of head and tail as long as
  neither has reached the end of the buffer, whatever accesses of `enq` and of
  the clients come between one another. It says nothing of the missing
  wrap-around and of the missing test for an empty queue, which the client's
  comment owns up to (`rq_client/main.cc:89`); after a dequeue from an empty
  ring the distance is negative and the property holds. Broken by a client that
  moves the window the wrong way.

The comment at `task_allocator.cc:57` asks for the core with the lowest
utilization. All cores that are not fully idle measure the same 1, and the
first of them is taken; as the comment does not say how utilization is
measured, no run holds that against it.

### What is not explored

A task that ended is never enqueued again (`SetupTime` is 0, so that the states
of the four-job instances stay few). `WildArrival` is 0. Longer deadlines than
one tick, three tasks together with removals (every removal from a list of
three aborts), finished tasks together with killed ones, and more than four
jobs are outside the bounds. Raw clients run on a ring whose end is not
reached, together with `enq` but not with the controller's own consumer; the
head they leave behind the end of the ring is not followed. What is proved of
the optimizer and of the rings holds beyond these bounds, for every value of
the constants.

The rings of the controller runs are never full: the dataspace ends first, as it
does in the program, and `RqBuffer` has the full ring. A ring whose reset met a
`deq` is followed on, but apart from `TypeOK`, `QueuedListed` and `CycleFresh`
nothing is claimed of it until a reset meets none.

## Proofs

`RqBufferProofs` holds for any sets of producers and consumers, any elements and
every ring size, from the assumptions `BufSizeAssumption` (at least one slot) and `ActorsAssumption` (no process is
both producer and consumer).

| Theorem | States |
|---|---|
| `Invariance` | `Spec => []IInv` |
| `TypeCorrect` | `Spec => []TypeOK`; no index leaves the array |
| `Mutex` | `Spec => []MutualExclusion` |
| `WindowCorrect` | `Spec => []WindowAgrees` |
| `NoOverwrite` | `Spec => QueuedKept` |
| `Refinement` | `Spec => ImplementsFifo` |

The inductive invariant is
`IInv == TypeOK /\ MutualExclusion /\ OwnCode /\ RingInv`.
`TypeOK` alone is not inductive: that the tail stays at most `BufSize` after
an increment needs that it was inside the array before, which only holds
because no other process is between *its* increment and wrap-around.
`MutualExclusion` gives that, `OwnCode` keeps producers out of the consumers'
code, and `RingInv` says for each of the six statements that move a control
word how head, tail and window relate at that statement, and that they agree
when no process is at one. `WindowAgrees` cannot serve as its own
strengthening, since it does not say where an unfinished operation left each
word. The step lemma is split by conjunct (`OwnCodeStep`, `MutexStep`,
`TypeStep`, `RingStep`) and each by action.

For the refinement the queue is the sequence of slots from the head *before*
an unfinished dequeue, as long as the window says; an operation takes effect
when it writes the window. `QuietStep` covers the statements the queue does
not see, and one lemma each the calls, the refusals, `EnqWindow`, `DeqWindow`
and the returns.

`SchedControllerProofs` holds for any tasks, cores, rings, sizes and lists,
from `TaskAssumption` (a task has the six attributes, its times are natural
numbers and its inter-arrival time is not 0, by which both tests divide),
`ListAssumption` (a list names tasks, with a priority each), `RingAssumption`
(sizes are positive, and the dataspace is smaller than the ring is told, as it
is: 32 records, 10000 slots) and `BlankAssumption` (a task is not mistaken for
a slot never written):

| Theorem | States |
|---|---|
| `Recording` | `Spec => []IInv` |
| `QueuedAreListed` | `Spec => []QueuedListed` |
| `Typing` | `Spec => []TypedInv` |
| `RingOrder` | `Spec => []RingsOrdered` |
| `TypeCorrect` | `Spec => []TypeOK` |
| `WalksAreSafe` | `Spec => []WalkSafe` |
| `CycleIsFresh` | `Spec => []CycleFresh` |
| `RefusalIsJustified` | `Spec => []RefusalJustified` |
| `LowestIsExact` | `Spec => []LowestExact` |
| `SufficientIsSound` | `Spec => []AcceptanceMeetsDeadlines` |

The steps come in four sorts: those of a consumer (`DeqMoves`), those that work
on the ring of the call (`WorkMoves`, the stores of `enq` and of the reset), those
of `the_cycle`, and those that leave all rings alone. Each invariant has one
lemma for each sort, and they build on one another:

1. `IInv == RingsFormed /\ SlotsRecorded /\ CallRecorded /\ MapKnown` (`Recording`).
   `QueuedListed` is about slots alone and not inductive: `EnqStore` writes a task
   that was recorded several steps before, so `CallRecorded` carries that fact
   through the tests; a refill writes a copy from `task_map` under the name of the
   list's entry, so `MapKnown` says that an entry is kept under its own name;
   `RingsFormed` says that a ring keeps its shape whoever moves its control words.
2. `TypedInv == RingsTyped /\ CallWritten /\ CycleFilled` (`Typing`) is what holds
   of every ring, torn or not. The head stays at most `BufSize`, and is that only
   between its increment and the wrap-around; all slots before the tail were
   written, since the reset only lowers the tail; and not just with tasks but with
   tasks with numbers (`Written`), also those whose priority the monitor has
   replaced. `CycleFilled` splits the list into what is in the ring and what is
   left of it, element by element, as `CycleFresh` is about a concatenation that no
   step can extend directly.
3. `RingsOrdered` (`RingOrder`) is what holds of a ring that is not torn. `Ordered`
   is by cases of where the two sides are. Inside the reset the lock is free and
   nobody is in `deq`, since whoever enters tears the ring. Otherwise the lock is
   taken exactly if one side is inside, never both; the window is the distance of
   head and tail, up to the element one of the two is in the middle of taking or
   adding; and what a side has loaded is what the word still holds.
4. `Counted` (`Counting`): as a consumer only takes, what is left in the ring is no
   more than what the test has counted, and it lies behind the first element the
   test has read. A test that counted no element does not walk.

`TestedQueue` draws the conclusion: if the ring has not moved, what the test reads
off it, slot by slot, is the run queue the properties speak of. `WalksAreSafe`
follows at once, and the last three theorems with those of `SchedAlgProofs`:
`FittingIsAccepted`, `ResponseTimeExact` and `AcceptedFits`. The model works with
fractions over `Hyper`; `LoadedWhole` shows that they are whole for every task a
slot can hold, so that `SufficientIsSound` is not about rounding.

`SchedAlgProofs` is about the tests alone, for tasks whose times are natural
numbers with an inter-arrival time that is not 0 (`Timed`):

| Theorem | States |
|---|---|
| `ResponseTimeExact` | `ResponseTimeMet(t, others) <=> MeetsDeadline(t, others)`, for every sequence of tasks |
| `FittingIsAccepted` | `Sorted(queue) /\ Schedulable(Placed(new, queue))` implies that `RTA` accepts `new`, for every queue and whatever the record after it holds |
| `AcceptedFits` | `Sorted(queue) /\ FpSufficientTest(new, queue)` implies `AlwaysSchedulable(Placed(new, queue))`, if the utilizations sum up to no more than one or no deadline is later than the next arrival |

The iteration asks for the demand at a time and goes on with the answer as the
next time. `DemandGrows` says that more time means no less demand and that the
demand is at least the wcet. Hence the iteration never passes a time at which
the demand is met (`SettlesComplete`), and where it stops the demand is met
(`SettlesSound`). Each round that does not stop gets closer to the deadline, so
the loop ends and the recursive function is well defined (`SettlesExists`):
this is also the proof that `_compute_repsonse_time` terminates. Nothing of it
needs deadlines up to the inter-arrival time. For `RTA`, `PlacedAfter` finds
the place of the new task in a sorted queue, and `DemandMoved` shows that the
demand does not change when the new task is added behind the others, as the
code does, instead of at its place; RTA then compares what `Schedulable`
compares, for as many of the tasks as it looks at. That it looks at too few is
the finding of `controller_accept`.

For the sufficient test, `Bounded` says what its two sums are worth: for every
task and every d there is a time r up to d at which the demand, plus the d - r
that are left, is no more than the task's wcet, d times the first sum and the
second sum (`ShareBounded` is the case of one task in whole numbers). A check
that passes, with d the deadline, then yields a time by which the demand is met
(`CheckSound`); `JobsFit` does the same for the first k jobs as one, whose bound is
the one of the first job plus k - 1 times the wcet, no more than k - 1
inter-arrival times later. Both need that the sum, the task's own share included,
is at one or below. Either the hypothesis says so (`TrustedBefore`: the sums
only grow, so what holds at the end holds before), or the deadline is no later than
the next arrival and the check itself implies it (`BoundMet`). The code adds the
new task again before every element it is not below; that only raises the sums,
and `BoundedMore` says that larger sums still bound the queue in which it stands
once.

`TaskAllocatorProofs` holds for any tasks, cores, run queues, intervals and
clients, from the assumptions above and `QueueAssumption`:

| Theorem | States |
|---|---|
| `IdleIsPreferred` | `AllocSpec => []IdlePreferred` |
| `WordsStayInStep` | `AllocSpec => []WordsInStep` |
| `AllocTypeCorrect` | `AllocSpec => []AllocTypeOK` |

`IdlePreferred` is about the end of a call; its invariant `Measured` says that
the core being measured was idle in every tick of its sleep if it was idle
since the call began, and that the least utilization so far is 0 if a core of
those compared was. The truncated division is `Quotient`. `WordsInv` says for
each ring who holds its lock, a client or `enq`, and by how much the window is off
between the stores of that one; `WordsInStep` is the case in which nobody has it. For `AllocTypeOK` the invariant
`Settled` says what each number still to be measured is: a core of the monitor
or the ring of a run queue. `WhichRunqueuesTargets` shows it of the loop over
the array, round by round.

`RelatedTasksProofs` holds for any set of tasks, without assumptions. Its
theorem `GroupsDisjoint` states `Spec => []Disjoint`: no task is in two groups,
none is empty, and none names a task that is gone. `Disjoint` is inductive; the
step that matters is `Relate`, where the new group takes in exactly the groups
it would overlap. `Refines`, below, carries the conclusion to the lists of
`SchedOpt`.

`SchedOptProofs` holds for any tasks, cores, deadlines, residents and goals,
any number of jobs, kills and ticks, and whatever `_threads[-1]` and the dead
stack frame hold. It assumes that deadlines are positive
(`PeriodAssumption`), that the empty string is no task's name
(`NameAssumption`), that core 0 exists (`CoreAssumption`), that goals are the
three of the code (`GoalAssumption`) and that numbers are unsigned
(`NumberAssumption`, `ResidentAssumption`):

| Theorem | States |
|---|---|
| `Invariance` | `Spec => []OptInv` |
| `TypeCorrect` | `Spec => []TypeOK` |
| `PartitionKept` | `Spec => []RelatedPartition` |
| `CompetitorsKept` | `Spec => []CompetitorsRelated` |
| `MaximumExact` | `Spec => []MaxValueExact` |
| `NewestIsOwn` | `Spec => []NewestJobIsOwn` |
| `KnowledgeForward` | `Spec => JobsForward` |
| `EndsRemembered` | `Spec => EndedRemembered` |
| `Refines` | `Spec => ImplementsGroups` |
| `SomeoneIsAllowed` | `Spec /\ [][goal' = "NONE" => goal = "NONE"]_goal => []SomeoneMayRun` |

The inductive invariant is `OptInv == TypeOK /\ Sound(State) /\ Serves /\
ThreadsKnown /\ DeadKnown /\ MonitorKnown /\ JobsKnown`.

* `Sound` holds the partition, the competitors and the maxima *together*. None
  of them is inductive alone: `.at()` of a competitor is defined because
  competitors are on the list, `max_value` after a merge is that of the longest
  competitor list because no competitor list is left out of the partition, and
  the list a removal dissolves has one task left because of both.
* `Serves` says that the task being served exists until its analysis: the RPC
  runs over many steps.
* `ThreadsKnown`, `DeadKnown` and `MonitorKnown` say that an id stands for one
  job, which dies at most once, is not listed any more when it is dead, and bears
  the name in the fetched list that it bears in the kernel's. If a job died
  twice, the search among the dead would look up a task after removing it.
* `JobsKnown` adds to `NewestJobIsOwn` that the stored job was started, as the
  job may outlive its thread and a new thread must not get its id.

What one call of a private function does is stated as a relation between
records, and these compose: `Kept` (the fields named stay as they are), `JobsFrom`
(newest jobs come from the list, under the right name), `Passes` (the task
served has blamed others, and lists merged), `Follows` (the same, and no list
was left without a task that may run), `Left` (a task was removed),
`Advances` and `Dismisses` (what a whole analysis does, with and without a
removal). `AnalyseOutcome` is the whole of `_query_monitor`, and both the
invariant and the three theorems about steps rest on it. A loop blames the
same task's rivals several times; that several merges are one `Judge` is
`RegroupTwice`.

The loops are recursive functions, and `NumberLemmas` is what the proofs say of
them. `LoopExists` shows, for a step given as a *function* on a set of states,
that such a function is there and what its values are; `SetInduction` is
induction over the *set* of the numbers that have a property. Both avoid
operators as parameters, which the provers cannot instantiate. The greatest
element of a finite set, which `Max` chooses, comes from the same source.

`SomeoneIsAllowed` needs a second invariant beside `OptInv`, `Fair(State)`: with
the goal NONE all tasks are allowed, and with another goal every list has a task
that is allowed or its own competitor. It is judged at the end of a call, not
inside one: after `_deadline_reached` has blamed a task, the new list may hold
denied tasks only, until `_set_to_schedule` allows the task served or its
foremost competitor. `AlmostFair` is the state in between, which excepts the
list of the task served, provided that task has a competitor; `BlamePasses`
carries `Fair` through blame, raise and reset to `_set_to_schedule`, whose lemma
`ScheduleFair` turns `AlmostFair` back into `Fair`. It uses no property of the
values but that one of finitely many is the greatest, which is why it does not
matter that they lie in a dead stack frame. A removal disturbs the flags of
the tasks on the list it dissolves and of no others (`Disturbed`, `Reduced`),
and a task that is left without a list owes nobody a turn.

The hypothesis is that a user who chose a goal does not go back to NONE; the
runs that check `SomeoneMayRun` leave NONE out of `Goals`, which implies it.
Without it `Fair` is not preserved: choosing NONE leaves the denials as they
are, and while it is chosen `_set_to_schedule` does nothing, so two denied tasks
without a list, whose jobs still run, come onto one list when one of them blames
the other, and both stay denied.

Only model-checked:

* `LockReleased`: liveness under fairness is outside the proof system's reach.

## Plan

Done: the ring with its refinement, the optimizer with the abstract
specification of its lists, the tests, the RPCs of the controller, the
allocator, and the raw client. What is left, in this order:

1. The controller with `SchedOpt`'s `AddTask` in place of the set of names.
2. A raw client and the controller's own consumer on one ring, with resets.

## Not modelled

* The monitor (`monitor.h`, `sched_tmonitor`): a struct, and a stub that lists
  trace subjects; the monitor the optimizer reads is a service outside the
  repository and appears as the environment of `SchedOpt`.
* The load generators and the test client: straight-line programs that burn
  time or make one call each.
* `rq_task.h`: a plain record, as much of it as each module needs.
* `Sched_controller::deq`, which nothing calls, and the queries that return
  constants (`get_num_rqs`, `get_num_cores` and the like). The consumer of each
  ring takes the place of the first.
* How long the session is occupied: `optimize` holds its only entrypoint until
  the task's deadline and `are_you_ready` for ever. The modules serve one call
  at a time, and the repository promises no latency to check.
* The order in which other processors see the stores to the ring.
* The XML parsing in `set_goal`, which appears as the choice of a goal.

## Running

    tlc -workers 2 -config RqBuffer.cfg MCRqBuffer.tla
    tlc -workers 2 -config SchedOpt.cfg MCSchedOpt.tla
    tlc -workers 2 -config SchedController.cfg MCSchedController.tla
    tlc -workers 2 -config TaskAllocator.cfg MCTaskAllocator.tla
    tlapm RqBufferProofs.tla
    tlapm RelatedTasksProofs.tla
    tlapm NumberLemmas.tla
    tlapm SchedOptLemmas.tla
    tlapm SchedOptProofs.tla
    tlapm SchedControllerProofs.tla
    tlapm SchedAlgProofs.tla
    tlapm TaskAllocatorProofs.tla

`RqBuffer.cfg` belongs to `MCRqBuffer`, `SchedOpt*.cfg` to `MCSchedOpt`,
`SchedController*.cfg` to `MCSchedController`, `TaskAllocator.cfg` to
`MCTaskAllocator`. The largest runs take about three minutes with two workers.
