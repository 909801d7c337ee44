---------------------------- MODULE SchedController ----------------------------
(***************************************************************************)
(* The controller of src/sched_controller/sched_controller.cc: the RPCs    *)
(* new_task (enq), update_rq_buffer, set_sync_ds and are_you_ready, with   *)
(* the tests of SchedAlg and the run-queue rings they fill, while a        *)
(* consumer in another process takes elements off each ring.               *)
(*                                                                         *)
(* A step reads or writes one word that both sides use: the lock, the head *)
(* or the window.  The tail and the slots are the controller's alone, so   *)
(* what it does with them goes with the access next to it.  The tests read *)
(* without the lock, and update_rq_buffer initialises a ring without it,   *)
(* in the middle of a deq possibly.                                        *)
(***************************************************************************)
EXTENDS SchedAlg

CONSTANTS
  Tasks,       \* the Rq_task records the loader passes: name, task_class, prio,
               \* wcet, inter_arrival, deadline
  Lists,       \* the lists of running threads the monitor reports, several of a
               \* task possibly, with the priority they have by now
  Cores,       \* the values the argument core takes
  NumRings,    \* rings made by init_ds (two in main.cc)
  MonCores,    \* cores the monitor counts
  BufSize,     \* _buf_size (10000)
  Mapped,      \* slots the dataspace behind a ring has room for
  Blank        \* a slot never written

ASSUME RingAssumption ==
  /\ {NumRings, BufSize, Mapped, MonCores} \subseteq Nat \ {0}
  /\ Mapped < BufSize   \* 32 records (main.cc:122) against 10000

ASSUME TaskAssumption ==
  \A t \in Tasks :
    /\ DOMAIN t = {"name", "task_class", "prio", "wcet", "inter_arrival", "deadline"}
    /\ {t.wcet, t.inter_arrival, t.deadline} \subseteq Nat
    /\ t.inter_arrival > 0   \* the tests divide by it
    /\ t.prio \in Int

ASSUME HyperMultiple ==   \* the fractions of SchedAlg are exact
  \A t \in Tasks : Hyper % t.inter_arrival = 0

ASSUME ListAssumption ==
  \A list \in Lists : list \in Seq([name : {t.name : t \in Tasks}, prio : Int])

VARIABLES
  rings,      \* the control words and slots of each ring
  made,       \* length of the array _rqs
  attached,   \* the rings of it whose pointers are set
  numCores,   \* _num_cores
  taskMap,    \* task_map: name -> attributes, a partial function
  optimized,  \* names handed to the optimizer
  call,       \* the RPC being served
  result,     \* what the last new_task returned
  reader,     \* what each ring's consumer is doing
  torn,       \* history: the rings whose last initialisation met a deq
  up          \* the process lives

setup == <<made, attached, numCores>>
records == <<taskMap, optimized>>
outside == <<reader, torn, up>>
vars == <<rings, setup, records, call, result, outside>>

Rings == 0 .. NumRings - 1
Idle == [pc |-> "idle"]
Resting == [pc |-> "idle", word |-> 0]

EmptyRing(buf) ==
  [lock |-> FALSE, head |-> 0, tail |-> 0, window |-> BufSize, buf |-> buf]

Init ==   \* after init_ds
  /\ rings = [i \in Rings |-> EmptyRing([k \in 0 .. Mapped - 1 |-> Blank])]
  /\ made = NumRings
  /\ attached = Rings
  /\ numCores = MonCores
  /\ taskMap = <<>>
  /\ optimized = {}
  /\ call = Idle
  /\ result = 0
  /\ reader = [i \in Rings |-> Resting]
  /\ torn = {}
  /\ up = TRUE

-----------------------------------------------------------------------------
(* int deq(T ** ), called by a process on the other side of ring i.  What   *)
(* it has read and not yet used is its word.                               *)

Wrapped(i) == IF i + 1 >= BufSize THEN 0 ELSE i + 1

Reader(i, from, to, word) ==
  /\ up
  /\ reader[i].pc = from
  /\ reader' = [reader EXCEPT ![i] = [pc |-> to, word |-> word]]
  /\ UNCHANGED <<setup, records, call, result, up>>

\* update_rq_buffer has freed the lock of ring i, and not yet set its window.
Initialising(i) ==
  call.pc \in {"init_head", "init_tail", "init_window"} /\ call.core = i

DeqLock(i) ==   \* "Buffer locked" changes nothing
  /\ Reader(i, "idle", "test", 0)
  /\ ~rings[i].lock
  /\ rings' = [rings EXCEPT ![i].lock = TRUE]
  /\ torn' = IF Initialising(i) THEN torn \cup {i} ELSE torn

DeqTest(i) ==
  /\ Reader(i, "test", IF rings[i].window >= BufSize THEN "unlock" ELSE "head", 0)
  /\ UNCHANGED <<rings, torn>>

DeqHead(i) ==
  /\ Reader(i, "head", "move", rings[i].head)
  /\ UNCHANGED <<rings, torn>>

DeqMove(i) ==
  /\ Reader(i, "move", IF reader[i].word + 1 >= BufSize THEN "wrap" ELSE "window", 0)
  /\ rings' = [rings EXCEPT ![i].head = reader[i].word + 1]
  /\ UNCHANGED torn

DeqWrap(i) ==
  /\ Reader(i, "wrap", "window", 0)
  /\ rings' = [rings EXCEPT ![i].head = 0]
  /\ UNCHANGED torn

DeqWindow(i) ==
  /\ Reader(i, "window", "free", rings[i].window)
  /\ UNCHANGED <<rings, torn>>

DeqFree(i) ==
  /\ Reader(i, "free", "unlock", 0)
  /\ rings' = [rings EXCEPT ![i].window = reader[i].word + 1]
  /\ UNCHANGED torn

DeqUnlock(i) ==
  /\ Reader(i, "unlock", "idle", 0)
  /\ rings' = [rings EXCEPT ![i].lock = FALSE]
  /\ UNCHANGED torn

\* The head is past the element, the window does not yet know.
Taking(i) == reader[i].pc \in {"wrap", "window", "free"}

-----------------------------------------------------------------------------
(* The ring as the controller uses it.                                     *)

\* Deviation: the slot at the tail is counted, too.
NumElementsAndTail(r) == BufSize - r.window + 1

NumElements(r) == BufSize - r.window

\* The tail moves past the element, which is one more.
Stored(r, t) == [r EXCEPT !.buf[r.tail] = t, !.tail = Wrapped(r.tail)]

\* A store behind the dataspace is an unresolvable fault.
Faults(r) == r.tail >= Mapped

-----------------------------------------------------------------------------
(* int enq(int core, Rq_task task), for new_task                           *)

Fault ==
  /\ up' = FALSE
  /\ call' = Idle
  /\ UNCHANGED <<rings, setup, records, result, reader, torn>>

Return(code) ==
  /\ call' = Idle
  /\ result' = code
  /\ UNCHANGED <<rings, setup, records, outside>>

Goto(pc) ==
  /\ call' = [call EXCEPT !.pc = pc]
  /\ UNCHANGED <<rings, setup, records, result, outside>>

\* What of a task is read again once it is in a ring; its class is not.
Scheduled(t) == Restrict(t, DOMAIN t \ {"task_class"})

\* An element is not mistaken for a slot never written.
ASSUME BlankAssumption ==
  \A t \in Tasks :
    /\ Scheduled(t) # Blank
    /\ \A list \in Lists : \A k \in DOMAIN list :
         [Scheduled(t) EXCEPT !.prio = list[k].prio] # Blank

Listed(t) ==   \* insert: an entry that is there stays
  [n \in DOMAIN taskMap \cup {t.name} |-> IF n \in DOMAIN taskMap THEN taskMap[n] ELSE t]

\* An RPC on ring core: what it stores there next, and has to store after it; the
\* elements it has counted, the first of them, and the window it has read.
Serve(rpc, core, pc, t, list) ==
  [rpc |-> rpc, core |-> core, pc |-> pc, task |-> t, todo |-> list,
   num |-> 0, first |-> 0, word |-> 0]

\* Deviation: only tasks that need no test are recorded in task_map.
NewTaskUnlisted(core, t) ==
  /\ up /\ call.pc = "idle"
  /\ core < numCores
  /\ taskMap' = IF t.task_class = "hi" THEN taskMap ELSE Listed(t)
  /\ optimized' = IF t.task_class = "lo" THEN optimized \cup {t.name} ELSE optimized
  /\ LET pc == IF t.task_class = "hi" THEN "fp_count" ELSE "enq_lock"
     IN  call' = Serve("new_task", core, pc, Scheduled(t), <<>>)
  /\ UNCHANGED <<rings, setup, result, outside>>

NewTask(core, t) ==
  /\ up /\ call.pc = "idle"
  /\ core < numCores
  /\ taskMap' = Listed(t)
  /\ optimized' = IF t.task_class = "lo" THEN optimized \cup {t.name} ELSE optimized
  /\ LET pc == IF t.task_class = "hi" THEN "fp_count" ELSE "enq_lock"
     IN  call' = Serve("new_task", core, pc, Scheduled(t), <<>>)
  /\ UNCHANGED <<rings, setup, result, outside>>

NoSuchCore(core) ==
  /\ up /\ call.pc = "idle"
  /\ core >= numCores
  /\ Return(-1)

\* A core below _num_cores without a ring, or a ring without memory: the
\* behaviour is undefined, and is followed no further.
WildRing ==
  /\ up /\ call.pc \in {"fp_count", "enq_lock"}
  /\ call.core \notin attached
  /\ Fault

At(pc) == up /\ call.pc = pc /\ call.core \in attached

Ring == rings[call.core]

Count(from, to) ==   \* get_num_elements
  /\ At(from)
  /\ IF NumElements(Ring) = 0 THEN Goto("enq_lock")
     ELSE /\ call' = [call EXCEPT !.pc = to, !.num = NumElements(Ring)]
          /\ UNCHANGED <<rings, setup, records, result, outside>>

FpCount == Count("fp_count", "fp_first")
RtaCount == Count("rta_count", "rta_first")

\* get_first_element and get_last_element return nullptr.
NoElement == Ring.window >= BufSize

\* The records from the first element on; one that was never written or lies
\* outside the dataspace shows that the walk has left the queue.
Slot(k) == IF k \in DOMAIN Ring.buf THEN Ring.buf[k] ELSE Blank
Walk(first, len) == [k \in 1 .. len |-> Slot(first + k - 1)]
Strays(first, len) == len < 1 \/ Blank \in Range(Walk(first, len))

FpAccepts == FpSufficientTest(call.task, Walk(Ring.head, call.num))

Moved == call.num # NumElements(Ring) \/ Taking(call.core)
LastSlot == Slot(Ring.tail - 1)
RtaAccepts == RTA(call.task, Walk(call.first, call.num + 1), LastSlot)

\* The record after the walk is only looked at if the walk does not end with the
\* last element.
RtaStrays ==
  \/ Strays(call.first, call.num)
  \/ LastSlot = Blank
  \/ /\ Slot(call.first + call.num - 1) # LastSlot
     /\ Strays(call.first, call.num + 1)

FpFirst == At("fp_first") /\ ~NoElement /\ Goto("fp_walk")

FpWalk ==
  /\ At("fp_walk")
  /\ \E accepts \in IF Strays(Ring.head, call.num) THEN BOOLEAN ELSE {FpAccepts} :
       Goto(IF accepts THEN "enq_lock" ELSE "rta_count")

RtaFirst == At("rta_first") /\ ~(NoElement /\ call.num > 0) /\ Goto("rta_head")

RtaHead ==
  /\ At("rta_head")
  /\ call' = [call EXCEPT !.pc = "rta_last", !.first = Ring.head]
  /\ UNCHANGED <<rings, setup, records, result, outside>>

RtaLast == At("rta_last") /\ ~NoElement /\ Goto("rta_walk")

RtaWalk ==   \* asks for the last element once more
  /\ At("rta_walk")
  /\ ~NoElement
  /\ \E accepts \in IF RtaStrays THEN BOOLEAN ELSE {RtaAccepts} :
       IF accepts THEN Goto("enq_lock") ELSE Return(-1)

\* The null pointer or a record outside the dataspace is dereferenced.
WildWalk ==
  /\ \/ At("fp_first") /\ NoElement
     \/ At("fp_walk") /\ Strays(Ring.head, call.num)
     \/ At("rta_first") /\ NoElement /\ call.num > 0
     \/ At("rta_last") /\ NoElement
     \/ At("rta_walk") /\ (NoElement \/ RtaStrays)
  /\ Fault

-----------------------------------------------------------------------------
(* int enq(T) of the ring, for new_task and for update_rq_buffer.          *)

EnqStep(from, to, r, word) ==
  /\ At(from)
  /\ rings' = [rings EXCEPT ![call.core] = r]
  /\ call' = [call EXCEPT !.pc = to, !.word = word]
  /\ UNCHANGED <<setup, records, result, outside>>

EnqReturn(from, r, code) ==
  /\ At(from)
  /\ rings' = [rings EXCEPT ![call.core] = r]
  /\ IF call.rpc = "new_task" THEN call' = Idle /\ result' = code
     ELSE call' = [call EXCEPT !.pc = "refill"] /\ result' = result
  /\ UNCHANGED <<setup, records, outside>>

EnqLock ==
  /\ EnqStep("enq_lock", "enq_store", [Ring EXCEPT !.lock = TRUE], 0)
  /\ ~Ring.lock

EnqLocked == EnqReturn("enq_lock", Ring, 2) /\ Ring.lock

EnqFull == EnqStep("enq_store", "enq_full", Ring, 0) /\ Ring.window < 1

EnqStore ==
  /\ At("enq_store")
  /\ Ring.window >= 1
  /\ ~Faults(Ring)
  /\ EnqStep("enq_store", "enq_window", Stored(Ring, call.task), 0)

EnqFault == At("enq_store") /\ Ring.window >= 1 /\ Faults(Ring) /\ Fault

EnqWindow == EnqStep("enq_window", "enq_shrink", Ring, Ring.window)

EnqShrink ==
  EnqStep("enq_shrink", "enq_unlock", [Ring EXCEPT !.window = call.word - 1], 0)

EnqUnlock ==
  \/ EnqReturn("enq_full", [Ring EXCEPT !.lock = FALSE], 1)
  \/ EnqReturn("enq_unlock", [Ring EXCEPT !.lock = FALSE], 0)

Enq ==
  \/ EnqLock \/ EnqLocked \/ EnqFull \/ EnqStore \/ EnqFault
  \/ EnqWindow \/ EnqShrink \/ EnqUnlock

-----------------------------------------------------------------------------
(* int update_rq_buffer(int core): the ring is initialised anew and filled *)
(* with the running tasks the monitor lists, as far as task_map has them.  *)

Entry(e) == [Scheduled(taskMap[e.name]) EXCEPT !.prio = e.prio]

\* Deviation: the core is compared with <= instead of <.
UpdateRqBufferOneMore(core, list) ==
  /\ up /\ call.pc = "idle"
  /\ core \in 0 .. made
  /\ attached' = attached \cup {core}
  /\ call' = Serve("update", core, "init_lock", Blank, list)
  /\ UNCHANGED <<rings, made, numCores, records, result, outside>>

UpdateRqBuffer(core, list) ==
  /\ up /\ call.pc = "idle"
  /\ core \in 0 .. made - 1
  /\ attached' = attached \cup {core}
  /\ call' = Serve("update", core, "init_lock", Blank, list)
  /\ UNCHANGED <<rings, made, numCores, records, result, outside>>

\* init_w_shared_ds stores the control words in this order, and takes no lock.
Initialise(from, to, r) ==
  /\ At(from)
  /\ rings' = [rings EXCEPT ![call.core] = r]
  /\ call' = [call EXCEPT !.pc = to]
  /\ UNCHANGED <<setup, records, result, reader, up>>

InitLock ==
  /\ Initialise("init_lock", "init_head", [Ring EXCEPT !.lock = FALSE])
  /\ torn' = IF reader[call.core] = Resting THEN torn \ {call.core}
             ELSE torn \cup {call.core}

InitHead ==
  Initialise("init_head", "init_tail", [Ring EXCEPT !.head = 0]) /\ UNCHANGED torn

InitTail ==
  Initialise("init_tail", "init_window", [Ring EXCEPT !.tail = 0]) /\ UNCHANGED torn

InitWindow ==
  Initialise("init_window", "refill", [Ring EXCEPT !.window = BufSize]) /\ UNCHANGED torn

\* vector::at throws, or the index is past the array _rqs.
UpdateWildRing(core) ==
  /\ up /\ call.pc = "idle"
  /\ core \notin 0 .. made - 1
  /\ Fault

Refill ==
  /\ At("refill")
  /\ call.todo # <<>>
  /\ LET e == Head(call.todo)
     IN  /\ e.name \in DOMAIN taskMap
         /\ call' = [call EXCEPT !.pc = "enq_lock", !.task = Entry(e), !.todo = Tail(@)]
  /\ UNCHANGED <<rings, setup, records, result, outside>>

RefillUnknown ==
  /\ At("refill")
  /\ call.todo # <<>>
  /\ Head(call.todo).name \notin DOMAIN taskMap
  /\ call' = [call EXCEPT !.todo = Tail(@)]
  /\ UNCHANGED <<rings, setup, records, result, outside>>

RefillEnd == At("refill") /\ call.todo = <<>> /\ Return(result)

\* void set_sync_ds(Dataspace_capability): one ring, not attached to anything.
SetSyncDs ==
  /\ up /\ call.pc = "idle"
  /\ numCores' = 1
  /\ made' = 1
  /\ attached' = {}
  /\ UNCHANGED <<rings, records, call, result, outside>>

-----------------------------------------------------------------------------
(* int are_you_ready(): the_cycle, which calls itself and never returns.   *)
(* Rings 0 and 1 are both attached to the one dataspace sync_ds_cap, here  *)
(* call.sync, and nothing reads the others again.                          *)

AreYouReady ==
  /\ up /\ call.pc = "idle"
  /\ call' = [pc |-> "cycle", sync |-> EmptyRing([k \in 0 .. Mapped - 1 |-> Blank])]
  /\ UNCHANGED <<rings, setup, records, result, outside>>

\* Deviation: the ring is filled on without being initialised first.
CycleUpdateFillsOn(list) ==
  /\ up /\ call.pc = "cycle"
  /\ made > 1
  /\ call' = [pc |-> "cycle_fill", list |-> list, todo |-> list, sync |-> call.sync]
  /\ UNCHANGED <<rings, setup, records, result, outside>>

CycleUpdate(list) ==
  /\ up /\ call.pc = "cycle"
  /\ made > 1
  /\ call' = [pc |-> "cycle_fill", list |-> list, todo |-> list,
              sync |-> EmptyRing(call.sync.buf)]
  /\ UNCHANGED <<rings, setup, records, result, outside>>

CycleWildRing == up /\ call.pc = "cycle" /\ made <= 1 /\ Fault   \* no _rqs[1]

\* What enq makes of a ring that is free, and never full before it faults.
Filled(r, t) == [Stored(r, t) EXCEPT !.window = @ - 1]

CycleFill ==
  /\ up /\ call.pc = "cycle_fill"
  /\ call.todo # <<>>
  /\ IF Faults(call.sync) THEN Fault
     ELSE /\ call' = [call EXCEPT !.sync = Filled(@, Head(call.todo)), !.todo = Tail(@)]
          /\ UNCHANGED <<rings, setup, records, result, outside>>

\* dequeued_task is never set.  If it happens to be null, a list without tasks
\* is deployed and the cycle begins again, one stack frame deeper; if not, the
\* loop writes the list past its dataspace.
CycleDeploy ==
  /\ up /\ call.pc = "cycle_fill"
  /\ call.todo = <<>>
  /\ \/ /\ call' = [pc |-> "cycle", sync |-> call.sync]
        /\ UNCHANGED <<rings, setup, records, result, outside>>
     \/ Fault

-----------------------------------------------------------------------------
Next ==
  \/ \E core \in Cores :
       \/ \E t \in Tasks : NewTask(core, t)
       \/ NoSuchCore(core)
       \/ \E list \in Lists : UpdateRqBuffer(core, list)
       \/ UpdateWildRing(core)
  \/ WildRing
  \/ FpCount \/ FpFirst \/ FpWalk
  \/ RtaCount \/ RtaFirst \/ RtaHead \/ RtaLast \/ RtaWalk
  \/ WildWalk
  \/ Enq
  \/ InitLock \/ InitHead \/ InitTail \/ InitWindow
  \/ Refill \/ RefillUnknown \/ RefillEnd
  \/ SetSyncDs
  \/ AreYouReady \/ CycleWildRing \/ CycleFill \/ CycleDeploy
  \/ \E list \in Lists : CycleUpdate(list)
  \/ \E i \in Rings :
       \/ DeqLock(i) \/ DeqTest(i) \/ DeqHead(i) \/ DeqMove(i) \/ DeqWrap(i)
       \/ DeqWindow(i) \/ DeqFree(i) \/ DeqUnlock(i)

Spec == Init /\ [][Next]_vars

-----------------------------------------------------------------------------
(* Properties *)

\* What a ring holds, oldest first.
Queue(r) == [k \in 1 .. NumElements(r) |-> r.buf[r.head + k - 1]]

TypeOK ==
  /\ DOMAIN rings = Rings
  /\ \A i \in Rings : /\ rings[i].head \in 0 .. BufSize
                     /\ rings[i].tail \in 0 .. Mapped
                     /\ reader[i].word \in Int
  /\ attached \subseteq 0 .. made - 1
  /\ numCores \in Nat
  /\ \A n \in DOMAIN taskMap : taskMap[n] \in Tasks
  /\ result \in {-1, 0, 1, 2}
  /\ torn \subseteq Rings

(* task_map, the optimizer and the rings agree: a task in a ring is in     *)
(* task_map, from which alone update_rq_buffer can refill the ring, and a  *)
(* task that is there as a lo task is known to the optimizer.              *)
QueuedListed ==
  \A i \in Rings, k \in 0 .. Mapped - 1 :
    LET t == rings[i].buf[k]
    IN  t # Blank => /\ t.name \in DOMAIN taskMap
                     /\ taskMap[t.name].task_class = "lo" => t.name \in optimized

(* A test reads nothing but the queue, unless that has moved since it was  *)
(* counted, or the ring was last initialised in the middle of a deq, after *)
(* which its words need not agree: nothing else makes a walk leave it.     *)
WalkSafe ==
  (At("fp_walk") \/ At("rta_walk")) /\ call.core \notin torn /\ ~Moved =>
    ~Strays(IF call.pc = "fp_walk" THEN Ring.head ELSE call.first, call.num)

(* In each round of the_cycle the ring holds the tasks the monitor has     *)
(* just listed, in that order, and none of the rounds before.              *)
CycleFresh ==
  call.pc = "cycle_fill" => Queue(call.sync) \o call.todo = call.list

\* The run queue is as the tests want it, and has not moved under the call.
Testable(pc) ==
  /\ At(pc)
  /\ call.core \notin torn
  /\ ~Moved
  /\ Sorted(Queue(Ring))

(* A task the sufficient test accepts fits: with it at its place every job *)
(* of the run queue meets its deadline, the ones due after the next        *)
(* arrival, too.  This takes that sum_util has not passed 1, the case the  *)
(* test forgets, or that no deadline is later than the next arrival.       *)
AcceptanceMeetsDeadlines ==
  LET queue == Queue(Ring)
  IN  /\ Testable("fp_walk")
      /\ FpAccepts
      /\ \/ FpSums(call.task, queue).util <= Hyper
         \/ \A t \in Range(Append(queue, call.task)) : t.deadline <= t.inter_arrival
      => AlwaysSchedulable(Placed(call.task, queue))

(* RTA, the exact test, refuses only what does not fit, wherever the new   *)
(* task's priority places it.                                              *)
RefusalJustified ==
  Testable("rta_walk") /\ Schedulable(Placed(call.task, Queue(Ring))) => RtaAccepts

(* For a new task of the lowest priority RTA's acceptance is exact, too.   *)
LowestExact ==
  Testable("rta_walk") /\ call.task.prio < LastSlot.prio /\ RtaAccepts =>
    MeetsDeadline(call.task, Queue(Ring))

-----------------------------------------------------------------------------
(* What the comments promise and the code does not keep.                   *)

(* A task of the lowest priority that the sufficient test accepts fits     *)
(* ("Upper bound lower then deadline --> task-set is schedulable!",        *)
(* sched_alg.cc:197), also when those above it ask for more than the       *)
(* processor, so that 1 - sum_util is negative.                            *)
SufficientSound ==
  /\ Testable("fp_walk")
  /\ call.task.prio < LastSlot.prio
  /\ Schedulable(Queue(Ring))
  /\ FpAccepts
  => Schedulable(Append(Queue(Ring), call.task))

(* A task RTA accepts into a schedulable run queue fits ("All Task-Sets    *)
(* passed the RTA Algorithm -> Task-Set schedulable!", sched_alg.cc:131).  *)
AcceptanceJustified ==
  Testable("rta_walk") /\ Schedulable(Queue(Ring)) /\ RtaAccepts =>
    Schedulable(Placed(call.task, Queue(Ring)))

(* The window is the number of free slots (rq_buffer.h:77), so a ring      *)
(* never has more of them than slots and get_num_elements is no less than  *)
(* 0, also when update_rq_buffer initialises a ring in use.                *)
WindowInRange == \A i \in Rings : rings[i].window \in 0 .. BufSize
==============================================================================
