------------------------- MODULE SchedControllerProofs -------------------------
(***************************************************************************)
(* Proofs about the controller, for every set of tasks, every number of    *)
(* rings and every size: its records of a task agree; the control words of *)
(* a ring do, unless it was initialised in the middle of a deq, so that a  *)
(* test reads nothing but the queue it counted; and what the tests answer  *)
(* about that queue is justified.                                          *)
(***************************************************************************)
EXTENDS SchedController, SchedAlgProofs

USE DEF setup, records, outside

Recorded(t) == t # Blank => t.name \in DOMAIN taskMap

\* A ring is a record with an array of Mapped slots.
Formed(r) ==
  /\ r = [lock |-> r.lock, head |-> r.head, tail |-> r.tail,
          window |-> r.window, buf |-> r.buf]
  /\ r.buf = [k \in 0 .. Mapped - 1 |-> r.buf[k]]

RingsFormed ==
  /\ rings = [i \in Rings |-> rings[i]]
  /\ \A i \in Rings : Formed(rings[i])

\* Whatever a slot holds, in the queue or left behind, is in task_map.
SlotsRecorded == \A i \in Rings, k \in 0 .. Mapped - 1 : Recorded(rings[i].buf[k])

\* Where an RPC is: in a test, which reads the queue in most of its steps, inside
\* the lock of enq, in init_w_shared_ds, or between them.
Walking == {"fp_first", "fp_walk", "rta_first", "rta_head", "rta_last", "rta_walk"}
Testing == {"fp_count", "rta_count"} \cup Walking
Holding == {"enq_store", "enq_full", "enq_window", "enq_shrink", "enq_unlock"}
Clearing == {"init_head", "init_tail", "init_window"}
Serving == Testing \cup Holding \cup Clearing \cup {"enq_lock", "init_lock", "refill"}

Served(c) ==
  /\ c = [rpc |-> c.rpc, core |-> c.core, pc |-> c.pc, task |-> c.task, todo |-> c.todo,
          num |-> c.num, first |-> c.first, word |-> c.word]
  /\ c.pc \in Serving

\* The task being enqueued already is.
CallRecorded ==
  \/ call = Idle
  \/ call = [pc |-> "cycle", sync |-> call.sync]
  \/ call = [pc |-> "cycle_fill", list |-> call.list, todo |-> call.todo, sync |-> call.sync]
  \/ Served(call) /\ Recorded(call.task)

\* task_map keeps a task under its name, and the optimizer knows the lo tasks.
MapKnown ==
  \A n \in DOMAIN taskMap :
    /\ taskMap[n] \in Tasks
    /\ taskMap[n].name = n
    /\ taskMap[n].task_class = "lo" => n \in optimized

CountsTyped ==
  /\ made \in 1 .. NumRings
  /\ numCores \in Nat
  /\ attached \subseteq 0 .. made - 1
  /\ torn \subseteq Rings
  /\ result \in {-1, 0, 1, 2}

IInv == RingsFormed /\ SlotsRecorded /\ CallRecorded /\ MapKnown /\ CountsTyped

-----------------------------------------------------------------------------
(* What the helpers keep.                                                  *)

(* A task is known by the same name when its class is left out.            *)
LEMMA ScheduledName ==
  ASSUME NEW t \in Tasks PROVE Scheduled(t).name = t.name
  BY TaskAssumption DEF Scheduled, Restrict

(* An entry of the monitor's list is enqueued under the name it had there. *)
LEMMA EntryName ==
  ASSUME MapKnown, NEW e, e.name \in DOMAIN taskMap
  PROVE  Entry(e).name = e.name
  <1>1. taskMap[e.name] \in Tasks /\ taskMap[e.name].name = e.name
    BY DEF MapKnown
  <1>2. "name" \in DOMAIN Scheduled(taskMap[e.name])
    BY <1>1, TaskAssumption DEF Scheduled, Restrict
  <1>3. Scheduled(taskMap[e.name]).name = e.name
    BY <1>1, ScheduledName
  <1> QED
    BY <1>2, <1>3 DEF Entry

(* Writing one control word changes nothing else.                          *)
LEMMA WordWritten ==
  ASSUME NEW r, Formed(r), NEW x
  PROVE  /\ Formed([r EXCEPT !.lock = x])
         /\ [r EXCEPT !.lock = x] = [lock |-> x, head |-> r.head, tail |-> r.tail,
                                     window |-> r.window, buf |-> r.buf]
         /\ Formed([r EXCEPT !.head = x])
         /\ [r EXCEPT !.head = x] = [lock |-> r.lock, head |-> x, tail |-> r.tail,
                                     window |-> r.window, buf |-> r.buf]
         /\ Formed([r EXCEPT !.tail = x])
         /\ [r EXCEPT !.tail = x] = [lock |-> r.lock, head |-> r.head, tail |-> x,
                                     window |-> r.window, buf |-> r.buf]
         /\ Formed([r EXCEPT !.window = x])
         /\ [r EXCEPT !.window = x] = [lock |-> r.lock, head |-> r.head, tail |-> r.tail,
                                       window |-> x, buf |-> r.buf]
  <1>1. r = [lock |-> r.lock, head |-> r.head, tail |-> r.tail,
             window |-> r.window, buf |-> r.buf]
    BY DEF Formed
  <1> DEFINE l == [r EXCEPT !.lock = x]
             h == [r EXCEPT !.head = x]
             t == [r EXCEPT !.tail = x]
             w == [r EXCEPT !.window = x]
  <1>2. l = [lock |-> x, head |-> r.head, tail |-> r.tail, window |-> r.window, buf |-> r.buf]
    BY <1>1
  <1>3. h = [lock |-> r.lock, head |-> x, tail |-> r.tail, window |-> r.window, buf |-> r.buf]
    BY <1>1
  <1>4. t = [lock |-> r.lock, head |-> r.head, tail |-> x, window |-> r.window, buf |-> r.buf]
    BY <1>1
  <1>5. w = [lock |-> r.lock, head |-> r.head, tail |-> r.tail, window |-> x, buf |-> r.buf]
    BY <1>1
  <1> HIDE DEF l, h, t, w
  <1>6. Formed(l) /\ Formed(h) /\ Formed(t) /\ Formed(w)
    BY <1>2, <1>3, <1>4, <1>5 DEF Formed
  <1> QED
    BY <1>2, <1>3, <1>4, <1>5, <1>6 DEF l, h, t, w

(* enq writes no slot but the one at the tail, and nothing but the element *)
(* it is given.                                                            *)
LEMMA StoredSlots ==
  ASSUME NEW r, Formed(r), NEW t
  PROVE  /\ Formed(Stored(r, t))
         /\ Stored(r, t) = [lock |-> r.lock, head |-> r.head, tail |-> Wrapped(r.tail),
                            window |-> r.window, buf |-> [r.buf EXCEPT ![r.tail] = t]]
         /\ \A k \in 0 .. Mapped - 1 : Stored(r, t).buf[k] \in {r.buf[k], t}
  <1> DEFINE b == [r.buf EXCEPT ![r.tail] = t]
  <1>1. Stored(r, t) = [lock |-> r.lock, head |-> r.head, tail |-> Wrapped(r.tail),
                        window |-> r.window, buf |-> b]
    <2>1. r = [lock |-> r.lock, head |-> r.head, tail |-> r.tail,
               window |-> r.window, buf |-> r.buf]
      BY DEF Formed
    <2> DEFINE q == [r EXCEPT !.buf = b]
               x == Wrapped(r.tail)
    <2>2. Stored(r, t) = [q EXCEPT !.tail = x]
      BY DEF Stored
    <2> HIDE DEF b, x
    <2>3. q = [lock |-> r.lock, head |-> r.head, tail |-> r.tail,
               window |-> r.window, buf |-> b]
      BY <2>1
    <2> HIDE DEF q
    <2>4. [q EXCEPT !.tail = x] = [lock |-> r.lock, head |-> r.head, tail |-> x,
                                   window |-> r.window, buf |-> b]
      BY <2>3
    <2> QED
      BY <2>2, <2>4 DEF x
  <1>2. b = [k \in 0 .. Mapped - 1 |-> b[k]]
    BY DEF Formed
  <1>3. \A k \in 0 .. Mapped - 1 : b[k] \in {r.buf[k], t}
    BY DEF Formed
  <1>4. Stored(r, t).buf = b
    BY <1>1
  <1> HIDE DEF b
  <1>5. Formed(Stored(r, t))
    BY <1>1, <1>2, <1>4 DEF Formed
  <1> QED
    BY <1>1, <1>3, <1>4, <1>5 DEF b

(* A step that replaces one ring by one whose slots are recorded keeps the *)
(* rings in order.                                                         *)
LEMMA RingReplaced ==
  ASSUME RingsFormed, SlotsRecorded, NEW i \in Rings, NEW r,
         rings' = [rings EXCEPT ![i] = r],
         Formed(r),
         \A k \in 0 .. Mapped - 1 : Recorded(r.buf[k]),
         UNCHANGED taskMap
  PROVE  RingsFormed' /\ SlotsRecorded'
  <1>1. rings' = [j \in Rings |-> rings'[j]]
    BY DEF RingsFormed
  <1>2. \A j \in Rings : rings'[j] = IF j = i THEN r ELSE rings[j]
    BY DEF RingsFormed
  <1>3. \A j \in Rings : Formed(rings'[j])
    BY <1>2 DEF RingsFormed
  <1>4. RingsFormed'
    BY <1>1, <1>3 DEF RingsFormed, Formed, Rings
  <1>5. ASSUME NEW j \in Rings, NEW k \in 0 .. Mapped - 1
        PROVE  Recorded(rings[j].buf[k])'
    BY <1>2 DEF SlotsRecorded, Recorded
  <1> QED
    BY <1>4, <1>5 DEF SlotsRecorded, Rings

\* What becomes of a call that goes on.
Going(c, p, num, first, word) ==
  [rpc |-> c.rpc, core |-> c.core, pc |-> p, task |-> c.task, todo |-> c.todo,
   num |-> num, first |-> first, word |-> word]

LEMMA ServedMoves ==
  ASSUME NEW c, Served(c), NEW p, NEW x
  PROVE  /\ [c EXCEPT !.pc = p] = Going(c, p, c.num, c.first, c.word)
         /\ [c EXCEPT !.pc = p, !.num = x] = Going(c, p, x, c.first, c.word)
         /\ [c EXCEPT !.pc = p, !.first = x] = Going(c, p, c.num, x, c.word)
  <1>1. c = [rpc |-> c.rpc, core |-> c.core, pc |-> c.pc, task |-> c.task, todo |-> c.todo,
             num |-> c.num, first |-> c.first, word |-> c.word]
    BY DEF Served
  <1> DEFINE d == [c EXCEPT !.pc = p]
  <1>2. d = [rpc |-> c.rpc, core |-> c.core, pc |-> p, task |-> c.task, todo |-> c.todo,
             num |-> c.num, first |-> c.first, word |-> c.word]
    BY <1>1
  <1> HIDE DEF d
  <1>3. [d EXCEPT !.num = x] =
          [rpc |-> c.rpc, core |-> c.core, pc |-> p, task |-> c.task, todo |-> c.todo,
           num |-> x, first |-> c.first, word |-> c.word]
    BY <1>2
  <1>4. [d EXCEPT !.first = x] =
          [rpc |-> c.rpc, core |-> c.core, pc |-> p, task |-> c.task, todo |-> c.todo,
           num |-> c.num, first |-> x, word |-> c.word]
    BY <1>2
  <1> QED
    BY <1>2, <1>3, <1>4 DEF d, Going

LEMMA ServedWords ==
  ASSUME NEW c, Served(c), NEW p, NEW x
  PROVE  [c EXCEPT !.pc = p, !.word = x] = Going(c, p, c.num, c.first, x)
  <1> DEFINE d == [c EXCEPT !.pc = p]
  <1>1. d = [rpc |-> c.rpc, core |-> c.core, pc |-> p, task |-> c.task, todo |-> c.todo,
             num |-> c.num, first |-> c.first, word |-> c.word]
    BY ServedMoves DEF Going
  <1> HIDE DEF d
  <1>2. [d EXCEPT !.word = x] =
          [rpc |-> c.rpc, core |-> c.core, pc |-> p, task |-> c.task, todo |-> c.todo,
           num |-> c.num, first |-> c.first, word |-> x]
    BY <1>1
  <1> QED
    BY <1>2 DEF d, Going

LEMMA GoingFields ==
  ASSUME NEW c, NEW p \in Serving, NEW num, NEW first, NEW word
  PROVE  LET d == Going(c, p, num, first, word)
         IN  /\ Served(d)
             /\ d.rpc = c.rpc /\ d.core = c.core /\ d.pc = p /\ d.task = c.task
             /\ d.todo = c.todo /\ d.num = num /\ d.first = first /\ d.word = word
  <1> DEFINE d == Going(c, p, num, first, word)
  <1>1. d = [rpc |-> c.rpc, core |-> c.core, pc |-> p, task |-> c.task, todo |-> c.todo,
             num |-> num, first |-> first, word |-> word]
    BY DEF Going
  <1> HIDE DEF d
  <1>2. /\ d.rpc = c.rpc /\ d.core = c.core /\ d.pc = p /\ d.task = c.task
        /\ d.todo = c.todo /\ d.num = num /\ d.first = first /\ d.word = word
    BY <1>1
  <1>3. Served(d)
    BY <1>1, <1>2 DEF Served
  <1> QED
    BY <1>2, <1>3 DEF d

-----------------------------------------------------------------------------
(* Where a call goes.                                                      *)

\* It goes on with the same task and list.
Continues ==
  /\ Served(call) /\ Served(call')
  /\ call'.rpc = call.rpc
  /\ call'.core = call.core
  /\ call'.task = call.task
  /\ call'.todo = call.todo
  /\ \/ call.pc \in Testing /\ call'.pc \in Testing \cup {"enq_lock"}
     \/ call.pc \in Holding \cup {"enq_lock"} /\ call'.pc \in Holding \cup {"refill"}
     \/ call.pc \in Clearing \cup {"init_lock"} /\ call'.pc \in Clearing \cup {"refill"}

(* A test, step by step.                                                   *)
LEMMA TestMoves ==
  ASSUME CallRecorded,
         \/ FpCount \/ FpFirst \/ FpWalk
         \/ RtaCount \/ RtaFirst \/ RtaHead \/ RtaLast \/ RtaWalk
  PROVE  call' = Idle \/ Continues
  <1>1. call.pc \in Testing
    BY DEF FpCount, RtaCount, Count, FpFirst, FpWalk, RtaFirst, RtaHead, RtaLast, RtaWalk, At,
           Testing, Walking
  <1>2. Served(call)
    BY <1>1 DEF CallRecorded, Idle, Testing, Walking
  <1>3. \/ call' = Idle
        \/ \E p \in Testing \cup {"enq_lock"}, x \in {NumElements(Ring), Ring.head} :
             \/ call' = [call EXCEPT !.pc = p]
             \/ call' = [call EXCEPT !.pc = p, !.num = x]
             \/ call' = [call EXCEPT !.pc = p, !.first = x]
    BY DEF FpCount, RtaCount, Count, FpFirst, FpWalk, RtaFirst, RtaHead, RtaLast, RtaWalk, At,
           Testing, Walking, Goto, Return
  <1>4. ASSUME NEW p \in Testing \cup {"enq_lock"}, NEW x,
               \/ call' = [call EXCEPT !.pc = p]
               \/ call' = [call EXCEPT !.pc = p, !.num = x]
               \/ call' = [call EXCEPT !.pc = p, !.first = x]
        PROVE  Continues
    <2>0. /\ [call EXCEPT !.pc = p] = Going(call, p, call.num, call.first, call.word)
          /\ [call EXCEPT !.pc = p, !.num = x] = Going(call, p, x, call.first, call.word)
          /\ [call EXCEPT !.pc = p, !.first = x] = Going(call, p, call.num, x, call.word)
      BY <1>2, ServedMoves
    <2>1. PICK n, f : call' = Going(call, p, n, f, call.word)
      BY <1>4, <2>0, Zenon
    <2>2. p \in Serving
      BY DEF Serving
    <2>3. /\ Served(call')
          /\ call'.rpc = call.rpc /\ call'.core = call.core /\ call'.pc = p
          /\ call'.task = call.task /\ call'.todo = call.todo
      BY <2>1, <2>2, GoingFields
    <2> QED
      BY <1>1, <1>2, <2>3 DEF Continues
  <1> QED
    BY <1>3, <1>4

\* It goes on at p, with what it has read.
To(p) == [call EXCEPT !.pc = p]
WithWord(p, x) == [call EXCEPT !.pc = p, !.word = x]

(* A word read, a ring changed: enq and init_w_shared_ds.                  *)
LEMMA WordMoves ==
  ASSUME Served(call), NEW p \in Serving, NEW x
  PROVE  call' = To(p) \/ call' = WithWord(p, x) =>
           /\ Served(call')
           /\ call'.rpc = call.rpc /\ call'.core = call.core /\ call'.task = call.task
           /\ call'.todo = call.todo /\ call'.pc = p
           /\ call' = WithWord(p, x) => call'.word = x
  <1>1. call = [rpc |-> call.rpc, core |-> call.core, pc |-> call.pc, task |-> call.task,
                todo |-> call.todo, num |-> call.num, first |-> call.first,
                word |-> call.word]
    BY DEF Served
  <1> DEFINE d == [call EXCEPT !.pc = p]
             e == [d EXCEPT !.word = x]
  <1>2. d = [rpc |-> call.rpc, core |-> call.core, pc |-> p, task |-> call.task,
             todo |-> call.todo, num |-> call.num, first |-> call.first, word |-> call.word]
    BY <1>1
  <1>3. [call EXCEPT !.pc = p, !.word = x] = e
    OBVIOUS
  <1> HIDE DEF d
  <1>4. e = [rpc |-> call.rpc, core |-> call.core, pc |-> p, task |-> call.task,
             todo |-> call.todo, num |-> call.num, first |-> call.first, word |-> x]
    BY <1>2
  <1> HIDE DEF e
  <1>5. /\ d.rpc = call.rpc /\ d.core = call.core /\ d.task = call.task
        /\ d.todo = call.todo /\ d.pc = p /\ d.num = call.num /\ d.first = call.first
        /\ d.word = call.word
    BY <1>2
  <1>6. /\ e.rpc = call.rpc /\ e.core = call.core /\ e.task = call.task
        /\ e.todo = call.todo /\ e.pc = p /\ e.num = call.num /\ e.first = call.first
        /\ e.word = x
    BY <1>4
  <1>7. Served(d)
    BY <1>2, <1>5 DEF Served
  <1>8. Served(e)
    BY <1>4, <1>6 DEF Served
  <1>9. To(p) = d /\ WithWord(p, x) = e
    BY <1>3 DEF d, To, WithWord
  <1> QED
    BY <1>5, <1>6, <1>7, <1>8, <1>9

(* enq, step by step.                                                      *)
LEMMA EnqMoves ==
  ASSUME CallRecorded, Enq
  PROVE  call' = Idle \/ Continues
  <1>1. call.pc \in Holding \cup {"enq_lock"}
    BY DEF Enq, EnqLock, EnqLocked, EnqFull, EnqStore, EnqFault, EnqWindow, EnqShrink, EnqUnlock,
           EnqStep, EnqReturn, At, Holding
  <1>2. Served(call)
    BY <1>1 DEF CallRecorded, Idle, Holding
  <1>3. \/ call' = Idle
        \/ \E p \in Holding \cup {"refill"}, x \in {0, Ring.window} :
             call' = To(p) \/ call' = WithWord(p, x)
    BY DEF Enq, EnqLock, EnqLocked, EnqFull, EnqStore, EnqFault, EnqWindow, EnqShrink, EnqUnlock,
           EnqStep, EnqReturn, Holding, Fault, To, WithWord
  <1>4. ASSUME NEW p \in Holding \cup {"refill"}, NEW x,
               call' = To(p) \/ call' = WithWord(p, x)
        PROVE  Continues
    <2>1. p \in Serving
      BY DEF Serving
    <2>2. /\ Served(call') /\ call'.rpc = call.rpc /\ call'.core = call.core
          /\ call'.task = call.task /\ call'.todo = call.todo /\ call'.pc = p
      BY <1>2, <1>4, <2>1, WordMoves
    <2> QED
      BY <1>1, <1>2, <2>2 DEF Continues
  <1>5. CASE call' = Idle
    BY <1>5
  <1>6. CASE \E p \in Holding \cup {"refill"}, x \in {0, Ring.window} :
               call' = To(p) \/ call' = WithWord(p, x)
    <2>1. PICK p \in Holding \cup {"refill"}, x \in {0, Ring.window} :
                 call' = To(p) \/ call' = WithWord(p, x)
      BY <1>6, Zenon
    <2> QED
      BY <1>4, <2>1, Zenon
  <1> QED
    BY <1>3, <1>5, <1>6, Zenon

LEMMA InitMoves ==
  ASSUME CallRecorded, InitLock \/ InitHead \/ InitTail \/ InitWindow
  PROVE  Continues
  <1>1. call.pc \in Clearing \cup {"init_lock"}
    BY DEF InitLock, InitHead, InitTail, InitWindow, Initialise, At, Clearing
  <1>2. Served(call)
    BY <1>1 DEF CallRecorded, Idle, Clearing
  <1>3. PICK p \in Clearing \cup {"refill"} : call' = To(p)
    BY DEF InitLock, InitHead, InitTail, InitWindow, Initialise, Clearing, To
  <1>4. p \in Serving
    BY DEF Serving
  <1> QED
    BY <1>1, <1>2, <1>3, <1>4, WordMoves DEF Continues

(* update_rq_buffer takes the next thread of its list.                     *)
LEMMA RefillMoves ==
  ASSUME CallRecorded
  PROVE  /\ Refill => /\ Served(call) /\ Served(call')
                      /\ call.pc = "refill" /\ call'.pc = "enq_lock"
                      /\ call'.core = call.core
                      /\ call.todo # <<>> /\ call'.todo = Tail(call.todo)
                      /\ Head(call.todo).name \in DOMAIN taskMap
                      /\ call'.task = Entry(Head(call.todo))
         /\ RefillUnknown => /\ Served(call) /\ Served(call')
                             /\ call.pc = "refill" /\ call'.pc = "refill"
                             /\ call'.core = call.core
                             /\ call.todo # <<>> /\ call'.todo = Tail(call.todo)
                             /\ call'.task = call.task
  <1>1. ASSUME call.pc = "refill"
        PROVE  /\ Served(call)
               /\ call = [rpc |-> call.rpc, core |-> call.core, pc |-> call.pc,
                          task |-> call.task, todo |-> call.todo, num |-> call.num,
                          first |-> call.first, word |-> call.word]
    BY <1>1 DEF CallRecorded, Idle, Served
  <1>2. CASE Refill
    <2> DEFINE t == Entry(Head(call.todo))
               rest == Tail(call.todo)
    <2>1. /\ call.pc = "refill" /\ call.todo # <<>> /\ Head(call.todo).name \in DOMAIN taskMap
          /\ call' = [call EXCEPT !.pc = "enq_lock", !.task = t, !.todo = rest]
      BY <1>2 DEF Refill, At
    <2> HIDE DEF t, rest
    <2>2. call' = [rpc |-> call.rpc, core |-> call.core, pc |-> "enq_lock", task |-> t,
                   todo |-> rest, num |-> call.num, first |-> call.first, word |-> call.word]
      BY <1>1, <2>1
    <2>3. /\ call'.rpc = call.rpc /\ call'.core = call.core /\ call'.task = t
          /\ call'.todo = rest /\ call'.pc = "enq_lock" /\ call'.num = call.num
          /\ call'.first = call.first /\ call'.word = call.word
      BY <2>2
    <2>4. Served(call')
      BY <2>2, <2>3 DEF Served, Serving
    <2>5. ~RefillUnknown
      BY <2>1 DEF RefillUnknown
    <2> QED
      BY <1>1, <2>1, <2>3, <2>4, <2>5 DEF t, rest
  <1>3. CASE RefillUnknown
    <2> DEFINE rest == Tail(call.todo)
    <2>1. /\ call.pc = "refill" /\ call.todo # <<>> /\ Head(call.todo).name \notin DOMAIN taskMap
          /\ call' = [call EXCEPT !.todo = rest]
      BY <1>3 DEF RefillUnknown, At
    <2> HIDE DEF rest
    <2>2. call' = [rpc |-> call.rpc, core |-> call.core, pc |-> call.pc, task |-> call.task,
                   todo |-> rest, num |-> call.num, first |-> call.first, word |-> call.word]
      BY <1>1, <2>1
    <2>3. /\ call'.rpc = call.rpc /\ call'.core = call.core /\ call'.task = call.task
          /\ call'.todo = rest /\ call'.pc = call.pc /\ call'.num = call.num
          /\ call'.first = call.first /\ call'.word = call.word
      BY <2>2
    <2>4. Served(call')
      BY <2>1, <2>2, <2>3 DEF Served, Serving
    <2>5. ~Refill
      BY <2>1 DEF Refill
    <2> QED
      BY <1>1, <2>1, <2>3, <2>4, <2>5 DEF rest
  <1> QED
    BY <1>2, <1>3

(* A new RPC.                                                              *)
LEMMA ServeShape ==
  ASSUME NEW rpc, NEW core, NEW pc \in Serving, NEW t, NEW list
  PROVE  LET c == Serve(rpc, core, pc, t, list)
         IN  /\ Served(c)
             /\ c.rpc = rpc /\ c.core = core /\ c.pc = pc /\ c.task = t /\ c.todo = list
             /\ c.num = 0 /\ c.first = 0 /\ c.word = 0
  <1> DEFINE c == Serve(rpc, core, pc, t, list)
  <1>1. c = [rpc |-> rpc, core |-> core, pc |-> pc, task |-> t, todo |-> list,
             num |-> 0, first |-> 0, word |-> 0]
    BY DEF Serve
  <1> HIDE DEF c
  <1>2. /\ c.rpc = rpc /\ c.core = core /\ c.pc = pc /\ c.task = t /\ c.todo = list
        /\ c.num = 0 /\ c.first = 0 /\ c.word = 0
    BY <1>1
  <1>3. Served(c)
    BY <1>1, <1>2 DEF Served
  <1> QED
    BY <1>2, <1>3 DEF c

-----------------------------------------------------------------------------
(* What a step makes of a ring.                                            *)

\* A ring with other control words, the tail excepted.
Ctl(r, lock, head, window) ==
  [lock |-> lock, head |-> head, tail |-> r.tail, window |-> window, buf |-> r.buf]

Consumer(pc, word) == [pc |-> pc, word |-> word]

\* The steps of deq, on a ring r and its consumer c, which become q and d.
DeqMoves(r, c, q, d) ==
  /\ q.tail = r.tail /\ q.buf = r.buf
  /\ d = Consumer(d.pc, d.word)
  /\ \/ /\ c.pc = "idle" /\ ~r.lock
        /\ q.lock = TRUE /\ q.head = r.head /\ q.window = r.window
        /\ d.pc = "test" /\ d.word = 0
     \/ /\ c.pc = "test"
        /\ q.lock = r.lock /\ q.head = r.head /\ q.window = r.window
        /\ \/ d.pc = "unlock" /\ r.window >= BufSize
           \/ d.pc = "head" /\ ~(r.window >= BufSize)
        /\ d.word = 0
     \/ /\ c.pc = "head"
        /\ q.lock = r.lock /\ q.head = r.head /\ q.window = r.window
        /\ d.pc = "move" /\ d.word = r.head
     \/ /\ c.pc = "move"
        /\ q.lock = r.lock /\ q.head = c.word + 1 /\ q.window = r.window
        /\ \/ d.pc = "wrap" /\ c.word + 1 >= BufSize
           \/ d.pc = "window" /\ ~(c.word + 1 >= BufSize)
        /\ d.word = 0
     \/ /\ c.pc = "wrap"
        /\ q.lock = r.lock /\ q.head = 0 /\ q.window = r.window
        /\ d.pc = "window" /\ d.word = 0
     \/ /\ c.pc = "window"
        /\ q.lock = r.lock /\ q.head = r.head /\ q.window = r.window
        /\ d.pc = "free" /\ d.word = r.window
     \/ /\ c.pc = "free"
        /\ q.lock = r.lock /\ q.head = r.head /\ q.window = c.word + 1
        /\ d.pc = "unlock" /\ d.word = 0
     \/ /\ c.pc = "unlock"
        /\ q.lock = FALSE /\ q.head = r.head /\ q.window = r.window
        /\ d.pc = "idle" /\ d.word = 0

\* A step of the consumer of ring i.
Consumes(i) ==
  \/ DeqLock(i) \/ DeqTest(i) \/ DeqHead(i) \/ DeqMove(i) \/ DeqWrap(i)
  \/ DeqWindow(i) \/ DeqFree(i) \/ DeqUnlock(i)

LEMMA CtlShape ==
  ASSUME NEW r, Formed(r), NEW lock, NEW head, NEW window
  PROVE  LET q == Ctl(r, lock, head, window)
         IN  /\ Formed(q)
             /\ q.lock = lock /\ q.head = head /\ q.tail = r.tail /\ q.window = window
             /\ q.buf = r.buf
  <1> DEFINE q == Ctl(r, lock, head, window)
  <1>1. q = [lock |-> lock, head |-> head, tail |-> r.tail, window |-> window, buf |-> r.buf]
    BY DEF Ctl
  <1> HIDE DEF q
  <1>2. q.lock = lock /\ q.head = head /\ q.tail = r.tail /\ q.window = window /\ q.buf = r.buf
    BY <1>1
  <1>3. Formed(q)
    BY <1>1, <1>2 DEF Formed
  <1> QED
    BY <1>2, <1>3 DEF q

(* A step of deq is one of the moves on its ring and its consumer.         *)
LEMMA DeqSteps ==
  ASSUME RingsFormed, NEW i \in Rings, Consumes(i)
  PROVE  /\ up
         /\ UNCHANGED <<setup, records, call, result, up>>
         /\ torn' \in {torn, torn \cup {i}}
         /\ reader[i].pc = "idle" /\ Initialising(i) => i \in torn'
         /\ \E q, d : /\ rings' = [rings EXCEPT ![i] = q]
                      /\ reader' = [reader EXCEPT ![i] = d]
                      /\ DeqMoves(rings[i], reader[i], q, d)
                      /\ Formed(q)
  <1> USE DEF Reader
  <1> DEFINE r == rings[i]
             c == reader[i]
  <1>0. Formed(r) /\ rings = [rings EXCEPT ![i] = r]
    BY DEF RingsFormed
  <1>1. /\ up
        /\ UNCHANGED <<setup, records, call, result, up>>
        /\ torn' \in {torn, torn \cup {i}}
        /\ reader[i].pc = "idle" /\ Initialising(i) => i \in torn'
    BY DEF Consumes, DeqLock, DeqTest, DeqHead, DeqMove, DeqWrap, DeqWindow, DeqFree, DeqUnlock
  <1>2. CASE DeqLock(i)
    <2> DEFINE q == [r EXCEPT !.lock = TRUE]
               d == Consumer("test", 0)
    <2>1. rings' = [rings EXCEPT ![i] = q] /\ reader' = [reader EXCEPT ![i] = d] /\ c.pc = "idle"
      BY <1>2 DEF DeqLock, Consumer
    <2>2. Formed(q) /\ q = Ctl(r, TRUE, r.head, r.window)
      BY <1>0, WordWritten DEF Ctl
    <2> HIDE DEF q
    <2>3. /\ q.lock = TRUE /\ q.head = r.head /\ q.window = r.window
          /\ q.tail = r.tail /\ q.buf = r.buf
      BY <2>2 DEF Ctl
    <2>4. d = Consumer(d.pc, d.word) /\ d.pc = "test" /\ d.word = 0
      BY DEF Consumer
    <2> HIDE DEF d
    <2>5. DeqMoves(r, c, q, d)
      BY <1>2, <2>1, <2>3, <2>4 DEF DeqMoves, DeqLock
    <2> QED
      BY <1>1, <2>1, <2>2, <2>5
  <1>3. CASE DeqTest(i) \/ DeqHead(i) \/ DeqWindow(i)
    <2>1. PICK d : /\ UNCHANGED rings
                   /\ reader' = [reader EXCEPT ![i] = d]
                   /\ \/ c.pc = "test" /\ d = Consumer(IF r.window >= BufSize THEN "unlock" ELSE "head", 0)
                      \/ c.pc = "head" /\ d = Consumer("move", r.head)
                      \/ c.pc = "window" /\ d = Consumer("free", r.window)
      BY <1>3 DEF DeqTest, DeqHead, DeqWindow, Consumer
    <2>2. /\ d = Consumer(d.pc, d.word)
          /\ \/ c.pc = "test" /\ d.word = 0 /\ d.pc = IF r.window >= BufSize THEN "unlock" ELSE "head"
             \/ c.pc = "head" /\ d.pc = "move" /\ d.word = r.head
             \/ c.pc = "window" /\ d.pc = "free" /\ d.word = r.window
      BY <2>1 DEF Consumer
    <2>3. DeqMoves(r, c, r, d)
      BY <2>2 DEF DeqMoves
    <2> QED
      BY <1>0, <1>1, <2>1, <2>3
  <1>4. CASE DeqMove(i)
    <2> DEFINE x == c.word + 1
               q == [r EXCEPT !.head = x]
               p == IF x >= BufSize THEN "wrap" ELSE "window"
               d == Consumer(p, 0)
    <2>1. rings' = [rings EXCEPT ![i] = q] /\ reader' = [reader EXCEPT ![i] = d] /\ c.pc = "move"
      BY <1>4 DEF DeqMove, Consumer
    <2> HIDE DEF p, x
    <2>2. Formed(q) /\ q = Ctl(r, r.lock, x, r.window)
      BY <1>0, WordWritten DEF Ctl
    <2> HIDE DEF q
    <2>3. /\ q.lock = r.lock /\ q.head = x /\ q.window = r.window
          /\ q.tail = r.tail /\ q.buf = r.buf
      BY <1>0, <2>2, CtlShape
    <2>4. d = Consumer(d.pc, d.word) /\ d.pc = p /\ d.word = 0
      BY DEF Consumer
    <2> HIDE DEF d
    <2>5. \/ d.pc = "wrap" /\ c.word + 1 >= BufSize
          \/ d.pc = "window" /\ ~(c.word + 1 >= BufSize)
      BY <2>4 DEF p, x
    <2>6. q.head = c.word + 1
      BY <2>3 DEF x
    <2> HIDE DEF r, c
    <2>7. DeqMoves(r, c, q, d)
      BY <2>1, <2>3, <2>4, <2>5, <2>6 DEF DeqMoves
    <2> USE DEF r, c
    <2> QED
      BY <1>1, <2>1, <2>2, <2>7
  <1>5. CASE DeqWrap(i)
    <2> DEFINE q == [r EXCEPT !.head = 0]
               d == Consumer("window", 0)
    <2>1. rings' = [rings EXCEPT ![i] = q] /\ reader' = [reader EXCEPT ![i] = d] /\ c.pc = "wrap"
      BY <1>5 DEF DeqWrap, Consumer
    <2>2. Formed(q) /\ q = Ctl(r, r.lock, 0, r.window)
      BY <1>0, WordWritten DEF Ctl
    <2> HIDE DEF q
    <2>3. /\ q.lock = r.lock /\ q.head = 0 /\ q.window = r.window
          /\ q.tail = r.tail /\ q.buf = r.buf
      BY <1>0, <2>2, CtlShape
    <2>4. d = Consumer(d.pc, d.word) /\ d.pc = "window" /\ d.word = 0
      BY DEF Consumer
    <2> HIDE DEF d
    <2>5. DeqMoves(r, c, q, d)
      BY <1>5, <2>1, <2>3, <2>4 DEF DeqMoves
    <2> QED
      BY <1>1, <2>1, <2>2, <2>5
  <1>6. CASE DeqFree(i)
    <2> DEFINE x == c.word + 1
               q == [r EXCEPT !.window = x]
               d == Consumer("unlock", 0)
    <2>1. rings' = [rings EXCEPT ![i] = q] /\ reader' = [reader EXCEPT ![i] = d] /\ c.pc = "free"
      BY <1>6 DEF DeqFree, Consumer
    <2> HIDE DEF x
    <2>2. Formed(q) /\ q = Ctl(r, r.lock, r.head, x)
      BY <1>0, WordWritten DEF Ctl
    <2> HIDE DEF q
    <2>3. /\ q.lock = r.lock /\ q.head = r.head /\ q.window = x
          /\ q.tail = r.tail /\ q.buf = r.buf
      BY <1>0, <2>2, CtlShape
    <2>4. d = Consumer(d.pc, d.word) /\ d.pc = "unlock" /\ d.word = 0
      BY DEF Consumer
    <2> HIDE DEF d
    <2>5. DeqMoves(r, c, q, d)
      BY <1>6, <2>1, <2>3, <2>4 DEF x, DeqMoves
    <2> QED
      BY <1>1, <2>1, <2>2, <2>5
  <1>7. CASE DeqUnlock(i)
    <2> DEFINE q == [r EXCEPT !.lock = FALSE]
               d == Consumer("idle", 0)
    <2>1. rings' = [rings EXCEPT ![i] = q] /\ reader' = [reader EXCEPT ![i] = d] /\ c.pc = "unlock"
      BY <1>7 DEF DeqUnlock, Consumer
    <2>2. Formed(q) /\ q = Ctl(r, FALSE, r.head, r.window)
      BY <1>0, WordWritten DEF Ctl
    <2> HIDE DEF q
    <2>3. /\ q.lock = FALSE /\ q.head = r.head /\ q.window = r.window
          /\ q.tail = r.tail /\ q.buf = r.buf
      BY <2>2 DEF Ctl
    <2>4. d = Consumer(d.pc, d.word) /\ d.pc = "idle" /\ d.word = 0
      BY DEF Consumer
    <2> HIDE DEF d
    <2>5. DeqMoves(r, c, q, d)
      BY <1>7, <2>1, <2>3, <2>4 DEF DeqMoves
    <2> QED
      BY <1>1, <2>1, <2>2, <2>5
  <1> QED
    BY <1>2, <1>3, <1>4, <1>5, <1>6, <1>7 DEF Consumes

\* The words of a ring, the tail and the slots as they were.
Words(r, q, lock, head, window) ==
  /\ q.lock = lock /\ q.head = head /\ q.window = window
  /\ q.tail = r.tail /\ q.buf = r.buf

\* The steps of enq and init_w_shared_ds, on a ring r, which becomes q, where the call is
\* at p and has read w: it goes on at p2 with w2, the element t is stored.
WorkMoves(r, p, w, t, q, p2, w2) ==
  \/ p = "enq_lock" /\ ~r.lock /\ p2 = "enq_store" /\ Words(r, q, TRUE, r.head, r.window)
  \/ p = "enq_lock" /\ p2 \in {"idle", "refill"} /\ q = r
  \/ p = "enq_store" /\ p2 = "enq_full" /\ q = r
  \/ p = "enq_store" /\ ~Faults(r) /\ p2 = "enq_window" /\ q = Stored(r, t)
  \/ p = "enq_window" /\ p2 = "enq_shrink" /\ w2 = r.window /\ q = r
  \/ p = "enq_shrink" /\ p2 = "enq_unlock" /\ Words(r, q, r.lock, r.head, w - 1)
  \/ /\ p \in {"enq_full", "enq_unlock"} /\ p2 \in {"idle", "refill"}
     /\ Words(r, q, FALSE, r.head, r.window)
  \/ p = "init_lock" /\ p2 = "init_head" /\ Words(r, q, FALSE, r.head, r.window)
  \/ p = "init_head" /\ p2 = "init_tail" /\ Words(r, q, r.lock, 0, r.window)
  \/ /\ p = "init_tail" /\ p2 = "init_window"
     /\ q.lock = r.lock /\ q.head = r.head /\ q.tail = 0 /\ q.window = r.window
     /\ q.buf = r.buf
  \/ p = "init_window" /\ p2 = "refill" /\ Words(r, q, r.lock, r.head, BufSize)

\* Such a step, and what it touches.
Works == Enq \/ InitLock \/ InitHead \/ InitTail \/ InitWindow
WorksTo(q) ==
  /\ rings' = [rings EXCEPT ![call.core] = q]
  /\ Formed(q)
  /\ \A k \in 0 .. Mapped - 1 : q.buf[k] \in {Ring.buf[k], call.task}
  /\ WorkMoves(Ring, call.pc, call.word, call.task, q, call'.pc, call'.word)

(* A step of enq or init_w_shared_ds is a fault or one of the moves on the *)
(* ring of the call.                                                       *)
LEMMA WorkSteps ==
  ASSUME IInv, Works
  PROVE  /\ up /\ call.core \in attached /\ call.core \in Rings
         /\ Served(call)
         /\ UNCHANGED <<setup, records, reader>>
         /\ call' = Idle \/ Continues
         /\ torn \subseteq torn' \/ reader[call.core] = Resting
         /\ torn' \in {torn, torn \cup {call.core}, torn \ {call.core}}
         /\ \/ call' = Idle /\ up' = FALSE /\ UNCHANGED <<rings, result, torn>>
            \/ /\ UNCHANGED up
               /\ result' \in {result, 0, 1, 2}
               /\ call.pc # "init_lock" => torn' = torn
               /\ call.pc = "init_lock" =>
                    torn' = IF reader[call.core] = Resting THEN torn \ {call.core}
                            ELSE torn \cup {call.core}
               /\ \E q : WorksTo(q)
  <1> USE DEF At
  <1>0. /\ RingsFormed /\ CallRecorded /\ CountsTyped
    BY DEF IInv
  <1>1. /\ call.pc \in Holding \cup Clearing \cup {"enq_lock", "init_lock"}
        /\ up /\ call.core \in attached
        /\ UNCHANGED <<setup, records, reader>>
    BY DEF Works, Enq, EnqLock, EnqLocked, EnqFull, EnqStore, EnqFault, EnqWindow, EnqShrink,
           EnqUnlock, EnqStep, EnqReturn, InitLock, InitHead, InitTail, InitWindow, Initialise,
           Holding, Clearing, Fault
  <1>2. Served(call)
    BY <1>0, <1>1 DEF CallRecorded, Idle, Holding, Clearing
  <1>3. call.core \in Rings
    <2>1. call.core \in 0 .. made - 1 /\ made \in 1 .. NumRings
      BY <1>0, <1>1 DEF CountsTyped
    <2>2. NumRings \in Nat
      BY RingAssumption
    <2> QED
      BY <2>1, <2>2 DEF Rings
  <1>4. call' = Idle \/ Continues
    BY <1>0, EnqMoves, InitMoves DEF Works
  <1>5. Formed(Ring) /\ rings = [rings EXCEPT ![call.core] = Ring]
    BY <1>0, <1>3 DEF RingsFormed, Ring
  <1>6. \/ call' = Idle /\ up' = FALSE /\ UNCHANGED <<rings, result, torn>>
        \/ /\ UNCHANGED up
           /\ result' \in {result, 0, 1, 2}
           /\ call.pc # "init_lock" => torn' = torn
           /\ call.pc = "init_lock" =>
                torn' = IF reader[call.core] = Resting THEN torn \ {call.core}
                        ELSE torn \cup {call.core}
    BY DEF Works, Enq, EnqLock, EnqLocked, EnqFull, EnqStore, EnqFault, EnqWindow, EnqShrink,
           EnqUnlock, EnqStep, EnqReturn, InitLock, InitHead, InitTail, InitWindow, Initialise,
           Fault
  <1>7. torn' \in {torn, torn \cup {call.core}, torn \ {call.core}}
    BY <1>6
  <1>8. torn \subseteq torn' \/ reader[call.core] = Resting
    BY <1>6
  <1> DEFINE Goal == \E q : WorksTo(q)
  \* Only control words are written.
  <1>9. ASSUME NEW q, rings' = [rings EXCEPT ![call.core] = q], Formed(q), q.buf = Ring.buf,
               WorkMoves(Ring, call.pc, call.word, call.task, q, call'.pc, call'.word)
        PROVE  Goal
    BY <1>9 DEF WorksTo
  <1> HIDE DEF Goal
  <1>10. \A x : /\ Formed([Ring EXCEPT !.lock = x])
                /\ Words(Ring, [Ring EXCEPT !.lock = x], x, Ring.head, Ring.window)
                /\ Formed([Ring EXCEPT !.head = x])
                /\ Words(Ring, [Ring EXCEPT !.head = x], Ring.lock, x, Ring.window)
                /\ Formed([Ring EXCEPT !.window = x])
                /\ Words(Ring, [Ring EXCEPT !.window = x], Ring.lock, Ring.head, x)
    <2> TAKE x
    <2> DEFINE l == [Ring EXCEPT !.lock = x]
               h == [Ring EXCEPT !.head = x]
               v == [Ring EXCEPT !.window = x]
    <2>1. /\ Formed(l) /\ l = Ctl(Ring, x, Ring.head, Ring.window)
          /\ Formed(h) /\ h = Ctl(Ring, Ring.lock, x, Ring.window)
          /\ Formed(v) /\ v = Ctl(Ring, Ring.lock, Ring.head, x)
      BY <1>5, WordWritten DEF Ctl
    <2> HIDE DEF l, h, v
    <2>2. Words(Ring, l, x, Ring.head, Ring.window)
      BY <2>1 DEF Ctl, Words
    <2>3. Words(Ring, h, Ring.lock, x, Ring.window)
      BY <2>1 DEF Ctl, Words
    <2>4. Words(Ring, v, Ring.lock, Ring.head, x)
      BY <2>1 DEF Ctl, Words
    <2> QED
      BY <2>1, <2>2, <2>3, <2>4 DEF l, h, v
  <1>11. ASSUME EnqLock PROVE Goal
    <2> DEFINE q == [Ring EXCEPT !.lock = TRUE]
    <2>1. /\ call' = WithWord("enq_store", 0) /\ call.pc = "enq_lock" /\ ~Ring.lock
          /\ rings' = [rings EXCEPT ![call.core] = q]
      BY <1>11 DEF EnqLock, EnqStep, WithWord
    <2>2. call'.pc = "enq_store"
      BY <1>2, <2>1, WordMoves DEF Serving, Holding
    <2>3. Formed(q) /\ Words(Ring, q, TRUE, Ring.head, Ring.window)
      BY <1>10
    <2> HIDE DEF q
    <2>4. q.buf = Ring.buf
      BY <2>3 DEF Words
    <2>5. WorkMoves(Ring, call.pc, call.word, call.task, q, call'.pc, call'.word)
      BY <2>1, <2>2, <2>3 DEF WorkMoves
    <2> QED
      BY <1>9, <2>1, <2>3, <2>4, <2>5
  <1>12. ASSUME EnqLocked PROVE Goal
    <2>1. /\ call.pc = "enq_lock" /\ Ring.lock
          /\ rings' = [rings EXCEPT ![call.core] = Ring]
          /\ call' = Idle \/ call' = To("refill")
      BY <1>12 DEF EnqLocked, EnqReturn, To
    <2>2. call'.pc \in {"idle", "refill"}
      BY <1>2, <2>1, WordMoves DEF Serving, Holding, Idle
    <2> QED
      BY <1>5, <1>9, <2>1, <2>2 DEF WorkMoves
  <1>13. ASSUME EnqFull PROVE Goal
    <2>1. /\ call' = WithWord("enq_full", 0) /\ call.pc = "enq_store" /\ Ring.window < 1
          /\ rings' = [rings EXCEPT ![call.core] = Ring]
      BY <1>13 DEF EnqFull, EnqStep, WithWord
    <2>2. call'.pc = "enq_full"
      BY <1>2, <2>1, WordMoves DEF Serving, Holding
    <2> QED
      BY <1>5, <1>9, <2>1, <2>2 DEF WorkMoves
  <1>14. ASSUME EnqStore PROVE Goal
    <2>1. /\ call' = WithWord("enq_window", 0) /\ call.pc = "enq_store"
          /\ Ring.window >= 1 /\ ~Faults(Ring)
          /\ rings' = [rings EXCEPT ![call.core] = Stored(Ring, call.task)]
      BY <1>14 DEF EnqStore, EnqStep, WithWord
    <2>2. call'.pc = "enq_window"
      BY <1>2, <2>1, WordMoves DEF Serving, Holding
    <2> DEFINE q == Stored(Ring, call.task)
    <2>3. Formed(q) /\ \A k \in 0 .. Mapped - 1 : q.buf[k] \in {Ring.buf[k], call.task}
      BY <1>5, StoredSlots
    <2>4. WorkMoves(Ring, call.pc, call.word, call.task, q, call'.pc, call'.word)
      BY <2>1, <2>2 DEF WorkMoves
    <2> QED
      BY <2>1, <2>3, <2>4 DEF Goal, WorksTo
  <1>15. ASSUME EnqFault PROVE call' = Idle /\ up' = FALSE /\ UNCHANGED <<rings, result, torn>>
    BY <1>15 DEF EnqFault, Fault
  <1>16. ASSUME EnqWindow PROVE Goal
    <2>1. /\ call' = WithWord("enq_shrink", Ring.window) /\ call.pc = "enq_window"
          /\ rings' = [rings EXCEPT ![call.core] = Ring]
      BY <1>16 DEF EnqWindow, EnqStep, WithWord
    <2>2. call'.pc = "enq_shrink" /\ call'.word = Ring.window
      BY <1>2, <2>1, WordMoves DEF Serving, Holding
    <2> QED
      BY <1>5, <1>9, <2>1, <2>2 DEF WorkMoves
  <1>17. ASSUME EnqShrink PROVE Goal
    <2> DEFINE w == call.word - 1
               q == [Ring EXCEPT !.window = w]
    <2>1. /\ call' = WithWord("enq_unlock", 0) /\ call.pc = "enq_shrink"
          /\ rings' = [rings EXCEPT ![call.core] = q]
      BY <1>17 DEF EnqShrink, EnqStep, WithWord
    <2>2. call'.pc = "enq_unlock"
      BY <1>2, <2>1, WordMoves DEF Serving, Holding
    <2> HIDE DEF w
    <2>3. Formed(q) /\ Words(Ring, q, Ring.lock, Ring.head, w)
      BY <1>10
    <2> HIDE DEF q
    <2>4. q.buf = Ring.buf
      BY <2>3 DEF Words
    <2>5. WorkMoves(Ring, call.pc, call.word, call.task, q, call'.pc, call'.word)
      BY <2>1, <2>2, <2>3 DEF WorkMoves, w
    <2> QED
      BY <1>9, <2>1, <2>3, <2>4, <2>5
  <1>18. ASSUME EnqUnlock PROVE Goal
    <2> DEFINE q == [Ring EXCEPT !.lock = FALSE]
    <2>1. /\ call' = Idle \/ call' = To("refill")
          /\ call.pc \in {"enq_full", "enq_unlock"}
          /\ rings' = [rings EXCEPT ![call.core] = q]
      BY <1>18 DEF EnqUnlock, EnqReturn, To
    <2>2. call'.pc \in {"idle", "refill"}
      BY <1>2, <2>1, WordMoves DEF Serving, Holding, Idle
    <2>3. Formed(q) /\ Words(Ring, q, FALSE, Ring.head, Ring.window)
      BY <1>10
    <2> HIDE DEF q
    <2>4. q.buf = Ring.buf
      BY <2>3 DEF Words
    <2>5. WorkMoves(Ring, call.pc, call.word, call.task, q, call'.pc, call'.word)
      BY <2>1, <2>2, <2>3 DEF WorkMoves
    <2> QED
      BY <1>9, <2>1, <2>3, <2>4, <2>5
  <1>19. ASSUME InitLock PROVE Goal
    <2> DEFINE q == [Ring EXCEPT !.lock = FALSE]
    <2>1. /\ call' = To("init_head") /\ call.pc = "init_lock"
          /\ rings' = [rings EXCEPT ![call.core] = q]
      BY <1>19 DEF InitLock, Initialise, To
    <2>2. call'.pc = "init_head"
      BY <1>2, <2>1, WordMoves DEF Serving, Clearing
    <2>3. Formed(q) /\ Words(Ring, q, FALSE, Ring.head, Ring.window)
      BY <1>10
    <2> HIDE DEF q
    <2>4. q.buf = Ring.buf
      BY <2>3 DEF Words
    <2>5. WorkMoves(Ring, call.pc, call.word, call.task, q, call'.pc, call'.word)
      BY <2>1, <2>2, <2>3 DEF WorkMoves
    <2> QED
      BY <1>9, <2>1, <2>3, <2>4, <2>5
  <1>20. ASSUME InitHead PROVE Goal
    <2> DEFINE q == [Ring EXCEPT !.head = 0]
    <2>1. /\ call' = To("init_tail") /\ call.pc = "init_head"
          /\ rings' = [rings EXCEPT ![call.core] = q]
      BY <1>20 DEF InitHead, Initialise, To
    <2>2. call'.pc = "init_tail"
      BY <1>2, <2>1, WordMoves DEF Serving, Clearing
    <2>3. Formed(q) /\ Words(Ring, q, Ring.lock, 0, Ring.window)
      BY <1>10
    <2> HIDE DEF q
    <2>4. q.buf = Ring.buf
      BY <2>3 DEF Words
    <2>5. WorkMoves(Ring, call.pc, call.word, call.task, q, call'.pc, call'.word)
      BY <2>1, <2>2, <2>3 DEF WorkMoves
    <2> QED
      BY <1>9, <2>1, <2>3, <2>4, <2>5
  <1>21. ASSUME InitTail PROVE Goal
    <2> DEFINE q == [Ring EXCEPT !.tail = 0]
    <2>1. /\ call' = To("init_window") /\ call.pc = "init_tail"
          /\ rings' = [rings EXCEPT ![call.core] = q]
      BY <1>21 DEF InitTail, Initialise, To
    <2>2. call'.pc = "init_window"
      BY <1>2, <2>1, WordMoves DEF Serving, Clearing
    <2>3. /\ Formed(q)
          /\ q = [lock |-> Ring.lock, head |-> Ring.head, tail |-> 0,
                  window |-> Ring.window, buf |-> Ring.buf]
      BY <1>5, WordWritten
    <2> HIDE DEF q
    <2>4. /\ q.lock = Ring.lock /\ q.head = Ring.head /\ q.tail = 0
          /\ q.window = Ring.window /\ q.buf = Ring.buf
      BY <2>3
    <2>5. WorkMoves(Ring, call.pc, call.word, call.task, q, call'.pc, call'.word)
      BY <2>1, <2>2, <2>4 DEF WorkMoves
    <2> QED
      BY <1>9, <2>1, <2>3, <2>4, <2>5
  <1>22. ASSUME InitWindow PROVE Goal
    <2> DEFINE q == [Ring EXCEPT !.window = BufSize]
    <2>1. /\ call' = To("refill") /\ call.pc = "init_window"
          /\ rings' = [rings EXCEPT ![call.core] = q]
      BY <1>22 DEF InitWindow, Initialise, To
    <2>2. call'.pc = "refill"
      BY <1>2, <2>1, WordMoves DEF Serving, Clearing
    <2>3. Formed(q) /\ Words(Ring, q, Ring.lock, Ring.head, BufSize)
      BY <1>10
    <2> HIDE DEF q
    <2>4. q.buf = Ring.buf
      BY <2>3 DEF Words
    <2>5. WorkMoves(Ring, call.pc, call.word, call.task, q, call'.pc, call'.word)
      BY <2>1, <2>2, <2>3 DEF WorkMoves
    <2> QED
      BY <1>9, <2>1, <2>3, <2>4, <2>5
  <1> QED
    <2>1. Goal \/ (call' = Idle /\ up' = FALSE /\ UNCHANGED <<rings, result, torn>>)
      BY <1>11, <1>12, <1>13, <1>14, <1>15, <1>16, <1>17, <1>18, <1>19, <1>20, <1>21, <1>22
      DEF Works, Enq
    <2>2. /\ UNCHANGED <<setup, records, reader>> /\ up /\ call.core \in attached
          /\ call.core \in Rings /\ Served(call)
          /\ call' = Idle \/ Continues
          /\ torn \subseteq torn' \/ reader[call.core] = Resting
          /\ torn' \in {torn, torn \cup {call.core}, torn \ {call.core}}
      BY <1>1, <1>2, <1>3, <1>4, <1>7, <1>8
    <2>3. \/ call' = Idle /\ up' = FALSE /\ UNCHANGED <<rings, result, torn>>
          \/ /\ UNCHANGED up
             /\ result' \in {result, 0, 1, 2}
             /\ call.pc # "init_lock" => torn' = torn
             /\ call.pc = "init_lock" =>
                  torn' = IF reader[call.core] = Resting THEN torn \ {call.core}
                          ELSE torn \cup {call.core}
             /\ Goal
      BY <1>6, <2>1, Zenon
    <2> QED
      BY <2>2, <2>3 DEF Goal

-----------------------------------------------------------------------------
(* The records agree.                                                      *)

LEMMA InitIInv == Init => IInv
  <1> SUFFICES ASSUME Init PROVE IInv
    OBVIOUS
  <1>1. RingsFormed
    BY DEF Init, RingsFormed, Formed, EmptyRing
  <1>2. \A i \in Rings, k \in 0 .. Mapped - 1 : rings[i].buf[k] = Blank
    BY DEF Init, EmptyRing
  <1>3. SlotsRecorded
    BY <1>2 DEF SlotsRecorded, Recorded
  <1>4. CallRecorded /\ MapKnown
    BY DEF Init, CallRecorded, MapKnown
  <1>5. CountsTyped
    BY RingAssumption DEF Init, CountsTyped, Rings
  <1> QED
    BY <1>1, <1>3, <1>4, <1>5 DEF IInv

\* A step of a test, and one of the_cycle, which has a ring of its own.
Tests ==
  \/ FpCount \/ FpFirst \/ FpWalk
  \/ RtaCount \/ RtaFirst \/ RtaHead \/ RtaLast \/ RtaWalk
Cycles ==
  \/ AreYouReady \/ CycleWildRing \/ CycleFill \/ CycleDeploy
  \/ \E list \in Lists : CycleUpdate(list)

(* A call ends; what it leaves is as it was.                               *)
Ends ==
  \/ \E core \in Cores : NoSuchCore(core) \/ UpdateWildRing(core)
  \/ WildRing \/ WildWalk \/ RefillEnd

(* The steps, by what they do.                                             *)
LEMMA Kinds ==
  ASSUME [Next]_vars
  PROVE  \/ \E i \in Rings : Consumes(i)
         \/ Works
         \/ \E core \in Cores, t \in Tasks : NewTask(core, t)
         \/ \E core \in Cores, list \in Lists : UpdateRqBuffer(core, list)
         \/ Tests \/ Cycles \/ Ends
         \/ Refill \/ RefillUnknown \/ SetSyncDs \/ UNCHANGED vars
  BY DEF Next, Consumes, Works, Tests, Cycles, Ends

LEMMA EndsQuiet ==
  ASSUME Ends
  PROVE  /\ UNCHANGED <<rings, setup, records, reader, torn>>
         /\ call' = Idle
         /\ up /\ up' \in BOOLEAN
         /\ result' \in {result, -1}
  BY DEF Ends, NoSuchCore, UpdateWildRing, WildRing, WildWalk, RefillEnd, Fault, Return, At

LEMMA TestsQuiet ==
  ASSUME Tests
  PROVE  /\ UNCHANGED <<rings, setup, records, outside>>
         /\ up
         /\ result' \in {result, -1}
  BY DEF Tests, FpCount, RtaCount, Count, FpFirst, FpWalk, RtaFirst, RtaHead, RtaLast, RtaWalk,
         Goto, Return, At

LEMMA CyclesQuiet ==
  ASSUME Cycles
  PROVE  /\ UNCHANGED <<rings, setup, records, result, reader, torn>>
         /\ up /\ up' \in {up, FALSE}
  BY DEF Cycles, AreYouReady, CycleWildRing, CycleFill, CycleDeploy, CycleUpdate, Fault

(* A round of the_cycle enqueues the first of what is left of its list.    *)
LEMMA FillMoves ==
  ASSUME CallRecorded, CycleFill
  PROVE  \/ call' = Idle
         \/ /\ ~Faults(call.sync) /\ call.todo # <<>>
            /\ call' = [pc |-> "cycle_fill", list |-> call.list, todo |-> Tail(call.todo),
                        sync |-> Filled(call.sync, Head(call.todo))]
  <1>1. CASE call' = Idle
    BY <1>1
  <1>2. CASE /\ ~Faults(call.sync) /\ call.todo # <<>>
             /\ call' = [call EXCEPT !.sync = Filled(@, Head(call.todo)), !.todo = Tail(@)]
    <2>1. call = [pc |-> "cycle_fill", list |-> call.list, todo |-> call.todo,
                  sync |-> call.sync]
      BY DEF CycleFill, CallRecorded, Idle, Served, Serving, Testing, Walking, Holding, Clearing
    <2> DEFINE r == Filled(call.sync, Head(call.todo))
               rest == Tail(call.todo)
               c == [call EXCEPT !.sync = r]
    <2>2. call' = [c EXCEPT !.todo = rest]
      BY <1>2
    <2> HIDE DEF r, rest
    <2>3. c = [pc |-> "cycle_fill", list |-> call.list, todo |-> call.todo, sync |-> r]
      BY <2>1
    <2> HIDE DEF c
    <2>4. call' = [pc |-> "cycle_fill", list |-> call.list, todo |-> rest, sync |-> r]
      BY <2>2, <2>3
    <2> QED
      BY <1>2, <2>4 DEF r, rest
  <1> QED
    BY <1>1, <1>2 DEF CycleFill, Fault

LEMMA CyclesStay ==
  ASSUME CallRecorded, Cycles
  PROVE  {call.pc, call'.pc} \subseteq {"idle", "cycle", "cycle_fill"}
  <1>1. call.pc \in {"idle", "cycle", "cycle_fill"}
    BY DEF Cycles, AreYouReady, CycleWildRing, CycleFill, CycleDeploy, CycleUpdate
  <1>2. CASE CycleFill
    BY <1>1, <1>2, FillMoves DEF Idle
  <1>3. CASE CycleDeploy
    <2>1. call' = Idle \/ call' = [pc |-> "cycle", sync |-> call.sync]
      BY <1>3 DEF CycleDeploy, Fault
    <2> QED
      BY <1>1, <2>1 DEF Idle
  <1>4. CASE AreYouReady \/ CycleWildRing \/ \E list \in Lists : CycleUpdate(list)
    BY <1>1, <1>4 DEF AreYouReady, CycleWildRing, CycleUpdate, Fault, Idle
  <1> QED
    BY <1>2, <1>3, <1>4 DEF Cycles

(* The call stays in one of its forms.                                     *)
LEMMA CycleRecorded ==
  ASSUME CallRecorded, Cycles
  PROVE  CallRecorded'
  <1>1. CASE AreYouReady
    BY <1>1 DEF AreYouReady, CallRecorded
  <1>2. CASE CycleWildRing
    BY <1>2 DEF CycleWildRing, Fault, CallRecorded
  <1>3. CASE CycleFill
    BY <1>3, FillMoves DEF CallRecorded
  <1>4. CASE CycleDeploy
    <2>1. call' = Idle \/ call' = [pc |-> "cycle", sync |-> call.sync]
      BY <1>4 DEF CycleDeploy, Fault
    <2> QED
      BY <2>1 DEF CallRecorded
  <1>5. CASE \E list \in Lists : CycleUpdate(list)
    BY <1>5 DEF CycleUpdate, CallRecorded
  <1> QED
    BY <1>1, <1>2, <1>3, <1>4, <1>5 DEF Cycles

(* The steps that leave the rings and the records alone.                   *)
LEMMA QuietStep ==
  ASSUME IInv, UNCHANGED <<rings, records>>, CallRecorded', CountsTyped'
  PROVE  IInv'
  BY DEF IInv, RingsFormed, Formed, Rings, SlotsRecorded, Recorded, MapKnown

LEMMA SameCounts ==
  ASSUME CountsTyped, UNCHANGED <<setup, torn>>, result' \in {result, -1, 0, 1, 2}
  PROVE  CountsTyped'
  BY DEF CountsTyped, Rings

(* A new task is recorded before anything else is done with it.            *)
LEMMA NewTaskStep ==
  ASSUME IInv, NEW core, NEW t \in Tasks, NewTask(core, t)
  PROVE  IInv'
  <1>1. /\ \A n \in DOMAIN taskMap : n \in DOMAIN taskMap' /\ taskMap'[n] = taskMap[n]
        /\ t.name \in DOMAIN taskMap'
        /\ \A n \in DOMAIN taskMap' : n \notin DOMAIN taskMap => n = t.name /\ taskMap'[n] = t
    BY DEF NewTask, Listed
  <1>2. RingsFormed'
    BY DEF IInv, NewTask, RingsFormed, Formed, Rings
  <1>3. SlotsRecorded'
    BY <1>1 DEF IInv, NewTask, SlotsRecorded, Recorded, Rings
  <1>4. CallRecorded'
    <2>1. Scheduled(t).name \in DOMAIN taskMap'
      BY <1>1, ScheduledName
    <2>2. PICK pc \in {"fp_count", "enq_lock"} :
            call' = Serve("new_task", core, pc, Scheduled(t), <<>>)
      BY DEF NewTask
    <2>3. pc \in Serving
      BY DEF Serving, Testing
    <2>4. Served(call') /\ call'.task = Scheduled(t)
      BY <2>2, <2>3, ServeShape
    <2> QED
      BY <2>1, <2>4 DEF CallRecorded, Recorded
  <1>5. MapKnown'
    BY <1>1 DEF IInv, NewTask, MapKnown
  <1>6. CountsTyped'
    BY SameCounts DEF IInv, NewTask
  <1> QED
    BY <1>2, <1>3, <1>4, <1>5, <1>6 DEF IInv

(* update_rq_buffer sets out with no task yet.                             *)
LEMMA UpdateStep ==
  ASSUME IInv, NEW core \in Cores, NEW list \in Lists, UpdateRqBuffer(core, list)
  PROVE  IInv'
  <1>1. CallRecorded'
    <2>1. Served(call') /\ call'.task = Blank
      BY ServeShape DEF UpdateRqBuffer, Serving
    <2> QED
      BY <2>1 DEF CallRecorded, Recorded
  <1>2. CountsTyped'
    BY DEF UpdateRqBuffer, IInv, CountsTyped
  <1> QED
    BY <1>1, <1>2, QuietStep DEF UpdateRqBuffer

(* A running task is enqueued again under its recorded name.               *)
LEMMA RefillStep ==
  ASSUME IInv, Refill \/ RefillUnknown
  PROVE  IInv'
  <1>1. CallRecorded /\ MapKnown
    BY DEF IInv
  <1>2. UNCHANGED <<rings, setup, records, result, outside>>
    BY DEF Refill, RefillUnknown
  <1>3. CallRecorded'
    <2>1. CASE Refill
      <3>1. /\ Served(call') /\ call'.task = Entry(Head(call.todo))
            /\ Head(call.todo).name \in DOMAIN taskMap
        BY <1>1, <2>1, RefillMoves
      <3>2. call'.task.name \in DOMAIN taskMap'
        BY <1>1, <1>2, <3>1, EntryName
      <3> QED
        BY <3>1, <3>2 DEF CallRecorded, Recorded
    <2>2. CASE RefillUnknown
      <3>1. Served(call) /\ call.pc = "refill" /\ Served(call') /\ call'.task = call.task
        BY <1>1, <2>2, RefillMoves
      <3>2. Recorded(call.task)
        BY <1>1, <3>1 DEF CallRecorded, Idle
      <3> QED
        BY <1>2, <3>1, <3>2 DEF CallRecorded, Recorded
    <2> QED
      BY <2>1, <2>2
  <1> QED
    BY <1>2, <1>3, QuietStep, SameCounts DEF IInv

(* A consumer writes control words of a ring, not its slots.               *)
LEMMA ConsumerStep ==
  ASSUME IInv, NEW i \in Rings, Consumes(i)
  PROVE  IInv'
  <1>1. RingsFormed /\ SlotsRecorded /\ CallRecorded /\ MapKnown /\ CountsTyped
    BY DEF IInv
  <1>2. /\ UNCHANGED <<setup, records, call, result, up>>
        /\ torn' \in {torn, torn \cup {i}}
    BY <1>1, DeqSteps
  <1>3. PICK q : /\ rings' = [rings EXCEPT ![i] = q]
                 /\ Formed(q)
                 /\ q.buf = rings[i].buf
    BY <1>1, DeqSteps DEF DeqMoves
  <1>4. \A k \in 0 .. Mapped - 1 : Recorded(q.buf[k])
    BY <1>1, <1>3 DEF SlotsRecorded
  <1>5. RingsFormed' /\ SlotsRecorded'
    BY <1>1, <1>2, <1>3, <1>4, RingReplaced
  <1>6. CallRecorded' /\ MapKnown'
    BY <1>1, <1>2 DEF CallRecorded, Served, Recorded, MapKnown
  <1>7. CountsTyped'
    BY <1>1, <1>2 DEF CountsTyped, Rings
  <1> QED
    BY <1>5, <1>6, <1>7 DEF IInv

(* enq stores the call's task and no other; init_w_shared_ds none.         *)
LEMMA WorkStep ==
  ASSUME IInv, Works
  PROVE  IInv'
  <1>1. RingsFormed /\ SlotsRecorded /\ CallRecorded /\ MapKnown /\ CountsTyped
    BY DEF IInv
  <1>2. /\ UNCHANGED <<setup, records>> /\ call.core \in Rings /\ Served(call)
        /\ call' = Idle \/ Continues
        /\ torn' \in {torn, torn \cup {call.core}, torn \ {call.core}}
        /\ result' \in {result, 0, 1, 2}
    BY WorkSteps
  <1>3. Recorded(call.task)
    BY <1>1, <1>2 DEF CallRecorded, Idle, Served, Serving, Testing, Walking, Holding, Clearing
  <1>4. CallRecorded'
    BY <1>2, <1>3 DEF CallRecorded, Continues, Recorded
  <1>5. CountsTyped'
    BY <1>1, <1>2 DEF CountsTyped, Rings
  <1>6. RingsFormed' /\ SlotsRecorded'
    <2>1. CASE UNCHANGED rings
      BY <1>1, <1>2, <2>1 DEF RingsFormed, Formed, Rings, SlotsRecorded, Recorded
    <2>2. CASE \E q : WorksTo(q)
      <3>1. PICK q : WorksTo(q)
        BY <2>2
      <3>2. /\ rings' = [rings EXCEPT ![call.core] = q]
            /\ Formed(q)
            /\ \A k \in 0 .. Mapped - 1 : q.buf[k] \in {Ring.buf[k], call.task}
        BY <3>1 DEF WorksTo
      <3>3. \A k \in 0 .. Mapped - 1 : Recorded(Ring.buf[k])
        BY <1>1, <1>2 DEF SlotsRecorded, Ring
      <3>4. \A k \in 0 .. Mapped - 1 : Recorded(q.buf[k])
        BY <1>3, <3>2, <3>3
      <3> QED
        BY <1>1, <1>2, <3>2, <3>4, RingReplaced
    <2> QED
      BY <2>1, <2>2, WorkSteps
  <1>7. MapKnown'
    BY <1>1, <1>2 DEF MapKnown
  <1> QED
    BY <1>4, <1>5, <1>6, <1>7 DEF IInv

LEMMA Step == IInv /\ [Next]_vars => IInv'
  <1> SUFFICES ASSUME IInv, [Next]_vars PROVE IInv'
    OBVIOUS
  <1>0. CallRecorded /\ CountsTyped
    BY DEF IInv
  <1>1. CASE \E i \in Rings : Consumes(i)
    BY <1>1, ConsumerStep
  <1>2. CASE Works
    BY <1>2, WorkStep
  <1>3. CASE \E core \in Cores, t \in Tasks : NewTask(core, t)
    BY <1>3, NewTaskStep
  <1>4. CASE \E core \in Cores, list \in Lists : UpdateRqBuffer(core, list)
    BY <1>4, UpdateStep
  <1>5. CASE Tests
    <2>1. UNCHANGED <<rings, setup, records, outside>> /\ result' \in {result, -1}
      BY <1>5, TestsQuiet
    <2>2. call' = Idle \/ Continues
      BY <1>0, <1>5, TestMoves DEF Tests
    <2>3. Continues => call.pc \in Serving /\ call # Idle
      BY DEF Continues, Served, Idle, Serving, Testing, Walking, Holding, Clearing
    <2>4. CallRecorded'
      BY <1>0, <2>1, <2>2, <2>3 DEF CallRecorded, Continues, Recorded, Serving, Testing, Walking,
         Holding, Clearing
    <2> QED
      BY <1>0, <2>1, <2>4, QuietStep, SameCounts
  <1>6. CASE Cycles
    BY <1>0, <1>6, CyclesQuiet, CycleRecorded, QuietStep, SameCounts
  <1>7. CASE Ends
    <2>1. CallRecorded'
      BY <1>7, EndsQuiet DEF CallRecorded
    <2> QED
      BY <1>0, <1>7, <2>1, EndsQuiet, QuietStep, SameCounts
  <1>8. CASE Refill \/ RefillUnknown
    BY <1>8, RefillStep
  <1>9. CASE SetSyncDs
    <2>1. CallRecorded'
      BY <1>0, <1>9 DEF SetSyncDs, CallRecorded, Served, Recorded
    <2>2. CountsTyped'
      BY <1>0, <1>9, RingAssumption DEF SetSyncDs, CountsTyped, Rings
    <2> QED
      BY <1>9, <2>1, <2>2, QuietStep DEF SetSyncDs
  <1>10. CASE UNCHANGED vars
    <2>1. CallRecorded'
      BY <1>0, <1>10 DEF vars, CallRecorded, Served, Recorded
    <2> QED
      BY <1>0, <1>10, <2>1, QuietStep, SameCounts DEF vars
  <1> QED
    BY <1>1, <1>2, <1>3, <1>4, <1>5, <1>6, <1>7, <1>8, <1>9, <1>10, Kinds

(* The slots, the call being served, task_map and the optimizer agree.     *)
THEOREM Recording == Spec => []IInv
  BY InitIInv, Step, PTL DEF Spec

(* No task is in a ring that task_map does not have, and none of them that *)
(* is a lo task is unknown to the optimizer (enq records before it stores).*)
THEOREM QueuedAreListed == Spec => []QueuedListed
  <1>1. IInv => QueuedListed
    BY DEF IInv, SlotsRecorded, Recorded, MapKnown, QueuedListed
  <1> QED
    BY <1>1, Recording, PTL

-----------------------------------------------------------------------------
(* What the words of a ring may be, in whatever state it was initialised;  *)
(* that a call has a task to enqueue; and what the_cycle has filled.       *)

\* t has the numbers of a task the loader passes.
Loaded(t) ==
  \E l \in Tasks :
    t.wcet = l.wcet /\ t.inter_arrival = l.inter_arrival /\ t.deadline = l.deadline

\* A record the tests can read: it was written, and its numbers are a task's.
Written(t) == t # Blank /\ Timed(t) /\ Loaded(t)

Reading == {"idle", "test", "head", "move", "wrap", "window", "free", "unlock"}

\* A ring r and its consumer c.  The head is at the end of the buffer only until it is
\* wrapped, and all slots before the tail were written.
RingTyped(r, c) ==
  /\ c = Consumer(c.pc, c.word)
  /\ c.pc \in Reading
  /\ c.word \in Int
  /\ c.pc = "idle" => c.word = 0
  /\ c.pc = "move" => c.word \in 0 .. BufSize - 1
  /\ r.lock \in BOOLEAN
  /\ r.head \in 0 .. BufSize
  /\ r.head = BufSize => c.pc = "wrap"
  /\ r.tail \in 0 .. Mapped
  /\ r.window \in Int
  /\ \A k \in 0 .. Mapped - 1 : k < r.tail => Written(r.buf[k])

RingsTyped ==
  /\ reader = [i \in Rings |-> reader[i]]
  /\ \A i \in Rings : RingTyped(rings[i], reader[i])

\* All threads the monitor may list.
Threads == UNION {Range(list) : list \in Lists}

CallWritten ==
  call.pc \in Serving =>
    /\ call.todo \in Seq(Threads)
    /\ call.pc \in Testing \cup Holding \cup {"enq_lock"} => Written(call.task)
    /\ call.pc = "enq_shrink" => call.word \in Int

\* The ring of the_cycle holds the tasks of the list that were enqueued.
CycleFilled ==
  /\ call.pc \in {"cycle", "cycle_fill"} => Formed(call.sync)
  /\ call.pc = "cycle_fill" =>
       LET r == call.sync
       IN  /\ call.list \in Seq(Threads)
           /\ call.todo \in Seq(Threads)
           /\ r.lock = FALSE
           /\ r.head = 0
           /\ r.tail \in 0 .. Mapped
           /\ r.window = BufSize - r.tail
           /\ Len(call.list) = r.tail + Len(call.todo)
           /\ \A k \in 1 .. r.tail : r.buf[k - 1] = call.list[k]
           /\ \A k \in 1 .. Len(call.todo) : call.todo[k] = call.list[r.tail + k]

TypedInv == RingsTyped /\ CallWritten /\ CycleFilled

(* The monitor's lists are sequences of threads.                           *)
LEMMA ListIsSeq == \A list \in Lists : list \in Seq(Threads)
  <1> SUFFICES ASSUME NEW list \in Lists PROVE list \in Seq(Threads)
    OBVIOUS
  <1> DEFINE S == [name : {t.name : t \in Tasks}, prio : Int]
  <1>1. list \in Seq(S)
    BY ListAssumption
  <1> HIDE DEF S
  <1>2. Len(list) \in Nat /\ list \in [1 .. Len(list) -> S] /\ DOMAIN list = 1 .. Len(list)
    BY <1>1, LenProperties
  <1>3. \A k \in 1 .. Len(list) : list[k] \in Threads
    BY <1>2 DEF Threads, Range
  <1>4. list \in [1 .. Len(list) -> Threads]
    BY <1>2, <1>3
  <1> QED
    BY <1>2, <1>4, SeqDef

(* A task keeps its numbers when its class is left out.                    *)
LEMMA ScheduledTimed ==
  ASSUME NEW t \in Tasks
  PROVE  /\ Written(Scheduled(t))
         /\ Scheduled(t) = [f \in {"name", "prio", "wcet", "inter_arrival", "deadline"} |-> t[f]]
  <1> DEFINE F == {"name", "prio", "wcet", "inter_arrival", "deadline"}
  <1>1. DOMAIN t \ {"task_class"} = F
    BY TaskAssumption
  <1>2. Scheduled(t) = [f \in F |-> t[f]]
    BY <1>1 DEF Scheduled, Restrict
  <1>3. Timed(Scheduled(t))
    BY <1>2, TaskAssumption DEF Timed
  <1>4. Loaded(Scheduled(t))
    BY <1>2 DEF Loaded
  <1> QED
    BY <1>2, <1>3, <1>4, BlankAssumption DEF Written

(* An entry of a list is enqueued as a task.                               *)
LEMMA EntryWritten ==
  ASSUME MapKnown, NEW e \in Threads, e.name \in DOMAIN taskMap
  PROVE  Written(Entry(e))
  <1>1. taskMap[e.name] \in Tasks
    BY DEF MapKnown
  <1>2. PICK list \in Lists : \E k \in DOMAIN list : e = list[k]
    BY DEF Threads, Range
  <1>3. [Scheduled(taskMap[e.name]) EXCEPT !.prio = e.prio] # Blank
    BY <1>1, <1>2, BlankAssumption
  <1>4. e.prio \in Int
    <2> DEFINE S == [name : {t.name : t \in Tasks}, prio : Int]
    <2>1. list \in Seq(S)
      BY ListAssumption
    <2> HIDE DEF S
    <2>2. DOMAIN list = 1 .. Len(list) /\ list \in [1 .. Len(list) -> S]
      BY <2>1, LenProperties
    <2>3. e \in S
      BY <1>2, <2>2
    <2> QED
      BY <2>3 DEF S
  <1>5. Timed(Entry(e)) /\ Loaded(Entry(e))
    <2> DEFINE t == Scheduled(taskMap[e.name])
    <2>1. Timed(t) /\ Loaded(t) /\ {"wcet", "inter_arrival", "deadline", "prio"} \subseteq DOMAIN t
      BY <1>1, ScheduledTimed DEF Written
    <2> HIDE DEF t
    <2>2. Timed([t EXCEPT !.prio = e.prio]) /\ Loaded([t EXCEPT !.prio = e.prio])
      BY <1>4, <2>1 DEF Timed, Loaded
    <2> QED
      BY <2>2 DEF Entry, t
  <1> QED
    BY <1>2, <1>3, <1>5 DEF Entry, Written

(* Each step of deq keeps the words of its ring what they may be.          *)
LEMMA DeqTyped ==
  ASSUME NEW r, NEW c, NEW q, NEW d, RingTyped(r, c), DeqMoves(r, c, q, d)
  PROVE  RingTyped(q, d)
  <1>1. /\ c.pc \in Reading /\ c.word \in Int
        /\ c.pc = "move" => c.word \in 0 .. BufSize - 1
        /\ r.lock \in BOOLEAN /\ r.head \in 0 .. BufSize
        /\ r.head = BufSize => c.pc = "wrap"
        /\ r.tail \in 0 .. Mapped /\ r.window \in Int
        /\ \A k \in 0 .. Mapped - 1 : k < r.tail => Written(r.buf[k])
    BY DEF RingTyped
  <1>2. BufSize \in Nat \ {0}
    BY RingAssumption
  <1>3. d = Consumer(d.pc, d.word) /\ q.tail = r.tail /\ q.buf = r.buf
    BY DEF DeqMoves
  <1>4. q.lock \in BOOLEAN
    BY <1>1 DEF DeqMoves
  <1>5. /\ d.pc \in Reading /\ d.word \in Int /\ (d.pc = "idle" => d.word = 0)
        /\ q.window \in Int
    BY <1>1, <1>2 DEF DeqMoves, Reading
  <1>6. /\ d.pc = "move" => d.word \in 0 .. BufSize - 1
        /\ q.head \in 0 .. BufSize
        /\ q.head = BufSize => d.pc = "wrap"
    BY <1>1, <1>2 DEF DeqMoves
  <1> QED
    BY <1>1, <1>3, <1>4, <1>5, <1>6 DEF RingTyped

(* So does each step of enq and of init_w_shared_ds.                       *)
LEMMA WorkTyped ==
  ASSUME NEW r, NEW c, Formed(r), RingTyped(r, c),
         NEW p, NEW w, NEW t, NEW q, NEW p2, NEW w2, WorkMoves(r, p, w, t, q, p2, w2),
         p = "enq_store" => Written(t),
         p = "enq_shrink" => w \in Int
  PROVE  /\ RingTyped(q, c)
         /\ p2 = "enq_shrink" => w2 \in Int
  <1>1. /\ r.lock \in BOOLEAN /\ r.head \in 0 .. BufSize
        /\ r.head = BufSize => c.pc = "wrap"
        /\ r.tail \in 0 .. Mapped /\ r.window \in Int
        /\ \A k \in 0 .. Mapped - 1 : k < r.tail => Written(r.buf[k])
    BY DEF RingTyped
  <1>2. BufSize \in Nat \ {0} /\ Mapped \in Nat \ {0} /\ Mapped < BufSize
    BY RingAssumption
  <1>3. p2 = "enq_shrink" => w2 \in Int
    BY <1>1 DEF WorkMoves
  <1>4. CASE p = "enq_store" /\ ~Faults(r) /\ q = Stored(r, t)
    <2> DEFINE b == [r.buf EXCEPT ![r.tail] = t]
    <2>1. /\ q.lock = r.lock /\ q.head = r.head /\ q.tail = Wrapped(r.tail)
          /\ q.window = r.window /\ q.buf = b
      BY <1>4, StoredSlots
    <2>2. r.tail \in 0 .. Mapped - 1 /\ Wrapped(r.tail) = r.tail + 1
      BY <1>1, <1>2, <1>4 DEF Faults, Wrapped
    <2>3. \A k \in 0 .. Mapped - 1 : k < r.tail + 1 => Written(b[k])
      BY <1>1, <1>4, <2>2 DEF Formed
    <2> HIDE DEF b
    <2>4. q.tail \in 0 .. Mapped /\ \A k \in 0 .. Mapped - 1 : k < q.tail => Written(q.buf[k])
      BY <1>2, <2>1, <2>2, <2>3
    <2> QED
      BY <1>1, <1>3, <2>1, <2>4 DEF RingTyped
  <1>5. CASE q = r
    BY <1>3, <1>5
  <1>6. CASE /\ q.lock \in BOOLEAN /\ (q.head = r.head \/ q.head = 0)
             /\ (q.tail = r.tail \/ q.tail = 0)
             /\ q.window \in Int /\ q.buf = r.buf
    <2>1. q.head \in 0 .. BufSize /\ (q.head = BufSize => c.pc = "wrap") /\ q.tail \in 0 .. Mapped
      BY <1>1, <1>2, <1>6
    <2>2. \A k \in 0 .. Mapped - 1 : k < q.tail => Written(q.buf[k])
      BY <1>1, <1>2, <1>6
    <2> QED
      BY <1>3, <1>6, <2>1, <2>2 DEF RingTyped
  <1> QED
    <2>1. CASE p \in {"enq_lock", "enq_full", "enq_unlock", "init_lock"} /\ q # r
      <3>1. Words(r, q, TRUE, r.head, r.window) \/ Words(r, q, FALSE, r.head, r.window)
        BY <2>1 DEF WorkMoves
      <3> QED
        BY <1>1, <1>6, <3>1 DEF Words
    <2>2. CASE p \in {"enq_shrink", "init_head", "init_window"}
      <3>1. \/ Words(r, q, r.lock, r.head, w - 1) /\ w \in Int
            \/ Words(r, q, r.lock, 0, r.window)
            \/ Words(r, q, r.lock, r.head, BufSize)
        BY <2>2 DEF WorkMoves
      <3> QED
        BY <1>1, <1>2, <1>6, <3>1 DEF Words
    <2>3. CASE p = "init_tail"
      BY <1>1, <1>6, <2>3 DEF WorkMoves
    <2> QED
      BY <1>4, <1>5, <2>1, <2>2, <2>3 DEF WorkMoves

-----------------------------------------------------------------------------
(* The steps.                                                              *)

\* A step that leaves the rings, their consumers and the history alone.
Quiet ==
  \/ \E core \in Cores, t \in Tasks : NewTask(core, t)
  \/ \E core \in Cores, list \in Lists : UpdateRqBuffer(core, list)
  \/ Tests \/ Cycles \/ Ends
  \/ Refill \/ RefillUnknown \/ SetSyncDs \/ UNCHANGED vars

LEMMA QuietMoves ==
  ASSUME IInv, Quiet
  PROVE  /\ UNCHANGED <<rings, reader, torn>>
         /\ up' => up
         /\ \/ call' = call
            \/ call.pc \notin Holding \cup Clearing /\ call'.pc \notin Holding \cup Clearing
  <1>0. CallRecorded
    BY DEF IInv
  <1> USE DEF Serving, Testing, Walking, Holding, Clearing
  <1>1. CASE \E core \in Cores, t \in Tasks : NewTask(core, t)
    <2>1. PICK core \in Cores, t \in Tasks, pc \in {"fp_count", "enq_lock"} :
            call' = Serve("new_task", core, pc, Scheduled(t), <<>>)
      BY <1>1 DEF NewTask
    <2>2. call'.pc = pc
      BY <2>1, ServeShape
    <2> QED
      BY <1>1, <2>2 DEF NewTask
  <1>2. CASE \E core \in Cores, list \in Lists : UpdateRqBuffer(core, list)
    <2>1. PICK core, list : call' = Serve("update", core, "init_lock", Blank, list)
      BY <1>2 DEF UpdateRqBuffer
    <2>2. call'.pc = "init_lock"
      BY <2>1, ServeShape
    <2> QED
      BY <1>2, <2>2 DEF UpdateRqBuffer
  <1>3. CASE Tests
    <2>1. call' = Idle \/ Continues
      BY <1>0, <1>3, TestMoves DEF Tests
    <2>2. call.pc \in Testing
      BY <1>3 DEF Tests, FpCount, RtaCount, Count, FpFirst, FpWalk, RtaFirst, RtaHead, RtaLast,
                  RtaWalk, At
    <2> QED
      BY <1>3, <2>1, <2>2, TestsQuiet DEF Continues, Idle
  <1>4. CASE Cycles
    BY <1>0, <1>4, CyclesQuiet, CyclesStay
  <1>5. CASE Ends
    <2>1. call.pc \in Testing \cup {"idle", "enq_lock", "refill"}
      BY <1>5 DEF Ends, NoSuchCore, UpdateWildRing, WildRing, WildWalk, RefillEnd, At
    <2> QED
      BY <1>5, <2>1, EndsQuiet DEF Idle
  <1>6. CASE Refill \/ RefillUnknown
    <2>1. call.pc = "refill" /\ call'.pc \in {"refill", "enq_lock"}
      BY <1>0, <1>6, RefillMoves
    <2> QED
      BY <1>6, <2>1 DEF Refill, RefillUnknown
  <1>7. CASE SetSyncDs \/ UNCHANGED vars
    BY <1>7 DEF SetSyncDs, vars
  <1> QED
    BY <1>1, <1>2, <1>3, <1>4, <1>5, <1>6, <1>7 DEF Quiet

LEMMA InitTypedInv == Init => TypedInv
  <1> SUFFICES ASSUME Init PROVE TypedInv
    OBVIOUS
  <1>1. RingsTyped
    <2>1. \A i \in Rings : /\ reader[i].pc = "idle" /\ reader[i].word = 0
                           /\ reader[i] = Consumer("idle", 0)
      BY DEF Init, Resting, Consumer
    <2>2. \A i \in Rings : /\ rings[i].lock = FALSE /\ rings[i].head = 0
                           /\ rings[i].tail = 0 /\ rings[i].window = BufSize
      BY DEF Init, EmptyRing
    <2>3. BufSize \in Nat \ {0} /\ Mapped \in Nat \ {0}
      BY RingAssumption
    <2>4. ASSUME NEW i \in Rings PROVE RingTyped(rings[i], reader[i])
      <3> DEFINE r == rings[i]
                 c == reader[i]
      <3>1. c = Consumer(c.pc, c.word) /\ c.pc = "idle" /\ c.word = 0
        BY <2>1, Zenon
      <3>2. r.lock = FALSE /\ r.head = 0 /\ r.tail = 0 /\ r.window = BufSize
        BY <2>2
      <3> HIDE DEF r, c
      <3>3. \A k \in 0 .. Mapped - 1 : ~(k < r.tail)
        BY <2>3, <3>2
      <3>4. /\ r.head \in 0 .. BufSize /\ r.head # BufSize
            /\ r.tail \in 0 .. Mapped /\ r.window \in Int
        BY <2>3, <3>2
      <3>7. r.lock \in BOOLEAN
        BY <3>2, Zenon
      <3>5. c.pc \in Reading /\ c.pc # "move" /\ c.word \in Int
        BY <3>1 DEF Reading
      <3>6. RingTyped(r, c)
        BY <3>1, <3>3, <3>4, <3>5, <3>7 DEF RingTyped
      <3> QED
        BY <3>6 DEF r, c
    <2> QED
      BY <2>4 DEF Init, RingsTyped
  <1>2. CallWritten /\ CycleFilled
    BY DEF Init, Idle, CallWritten, CycleFilled, Serving, Testing, Walking, Holding, Clearing
  <1> QED
    BY <1>1, <1>2 DEF TypedInv

LEMMA RingsTypedStep ==
  ASSUME IInv, RingsTyped, CallWritten, [Next]_vars
  PROVE  RingsTyped'
  <1>0. RingsFormed
    BY DEF IInv
  <1>1. CASE \E i \in Rings : Consumes(i)
    <2>1. PICK i \in Rings : Consumes(i)
      BY <1>1
    <2>2. PICK q, d : /\ rings' = [rings EXCEPT ![i] = q]
                      /\ reader' = [reader EXCEPT ![i] = d]
                      /\ DeqMoves(rings[i], reader[i], q, d)
      BY <1>0, <2>1, DeqSteps
    <2>3. RingTyped(q, d)
      BY <2>2, DeqTyped DEF RingsTyped
    <2>4. \A j \in Rings : /\ rings'[j] = IF j = i THEN q ELSE rings[j]
                           /\ reader'[j] = IF j = i THEN d ELSE reader[j]
      BY <1>0, <2>2 DEF RingsFormed, RingsTyped
    <2>5. reader' = [j \in Rings |-> reader'[j]]
      BY <2>2 DEF RingsTyped
    <2>6. \A j \in Rings : RingTyped(rings'[j], reader'[j])
      BY <2>3, <2>4 DEF RingsTyped
    <2> QED
      BY <2>5, <2>6 DEF RingsTyped, RingTyped, Rings, Written, Loaded
  <1>2. CASE Works
    <2>1. UNCHANGED reader /\ call.core \in Rings /\ Served(call)
      BY <1>2, WorkSteps
    <2>2. CASE UNCHANGED rings
      BY <2>1, <2>2 DEF RingsTyped, RingTyped, Rings, Written, Loaded
    <2>3. CASE \E q : WorksTo(q)
      <3>1. PICK q : WorksTo(q)
        BY <2>3
      <3>2. /\ rings' = [rings EXCEPT ![call.core] = q]
            /\ WorkMoves(Ring, call.pc, call.word, call.task, q, call'.pc, call'.word)
        BY <3>1 DEF WorksTo
      <3>3. Formed(Ring) /\ RingTyped(Ring, reader[call.core])
        BY <1>0, <2>1 DEF RingsFormed, RingsTyped, Ring
      <3>4. call.pc = "enq_store" => Written(call.task)
        BY <2>1 DEF CallWritten, Served, Holding
      <3>5. call.pc = "enq_shrink" => call.word \in Int
        BY <2>1 DEF CallWritten, Served
      <3>6. RingTyped(q, reader[call.core])
        BY <3>2, <3>3, <3>4, <3>5, WorkTyped
      <3>7. \A j \in Rings : rings'[j] = IF j = call.core THEN q ELSE rings[j]
        BY <1>0, <3>2 DEF RingsFormed
      <3>8. \A j \in Rings : RingTyped(rings'[j], reader'[j])
        BY <2>1, <3>6, <3>7 DEF RingsTyped
      <3> QED
        BY <2>1, <3>8 DEF RingsTyped, RingTyped, Rings, Written, Loaded
    <2> QED
      BY <1>2, <2>2, <2>3, WorkSteps
  <1>3. CASE Quiet
    BY <1>3, QuietMoves DEF RingsTyped, RingTyped, Rings, Written, Loaded
  <1> QED
    BY <1>1, <1>2, <1>3, Kinds DEF Quiet

(* What a call goes on to enqueue is a task, and so is all it will.        *)
LEMMA CallWrittenStep ==
  ASSUME IInv, RingsTyped, CallWritten, [Next]_vars
  PROVE  CallWritten'
  <1>0. CallRecorded /\ MapKnown
    BY DEF IInv
  <1>1. CASE call' = call
    BY <1>1 DEF CallWritten, Written, Loaded
  <1>2. CASE call'.pc \notin Serving
    BY <1>2 DEF CallWritten
  <1>3. ASSUME call'.todo \in Seq(Threads),
               call'.pc \in Testing \cup Holding \cup {"enq_lock"} => Written(call'.task),
               call'.pc = "enq_shrink" => call'.word \in Int
        PROVE  CallWritten'
    BY <1>3 DEF CallWritten, Written, Loaded
  <1>4. CASE Continues /\ (call'.pc = "enq_shrink" => call'.word \in Int)
    <2>1. /\ call.pc \in Serving /\ call'.todo = call.todo /\ call'.task = call.task
      BY <1>4 DEF Continues, Served
    <2>2. call'.pc \in Testing \cup Holding \cup {"enq_lock"} =>
            call.pc \in Testing \cup Holding \cup {"enq_lock"}
      BY <1>4 DEF Continues, Testing, Walking, Holding, Clearing
    <2> QED
      BY <1>3, <1>4, <2>1, <2>2 DEF CallWritten
  <1>5. CASE Works
    <2>1. call' = Idle \/ Continues
      BY <1>5, WorkSteps
    <2>2. CASE call' = Idle
      BY <1>2, <2>2 DEF Idle, Serving, Testing, Walking, Holding, Clearing
    <2>3. CASE Continues
      <3>1. ASSUME call'.pc = "enq_shrink" PROVE call'.word \in Int
        <4>1. call.core \in Rings /\ call' # Idle
          BY <1>5, <3>1, WorkSteps DEF Idle
        <4>2. PICK q : WorksTo(q)
          BY <1>5, <4>1, WorkSteps
        <4>3. call'.word = Ring.window
          BY <3>1, <4>2 DEF WorksTo, WorkMoves
        <4> QED
          BY <4>1, <4>3 DEF RingsTyped, RingTyped, Ring
      <3> QED
        BY <1>4, <2>3, <3>1
    <2> QED
      BY <2>1, <2>2, <2>3
  <1>6. CASE Tests
    <2>1. call' = Idle \/ Continues
      BY <1>0, <1>6, TestMoves DEF Tests
    <2>2. call.pc \in Testing
      BY <1>6 DEF Tests, FpCount, RtaCount, Count, FpFirst, FpWalk, RtaFirst, RtaHead, RtaLast,
                  RtaWalk, At, Testing, Walking
    <2>3. Continues => call'.pc # "enq_shrink"
      BY <2>2 DEF Continues, Testing, Walking, Holding, Clearing
    <2> QED
      BY <1>2, <1>4, <2>1, <2>3 DEF Idle, Serving, Testing, Walking, Holding, Clearing
  <1>7. CASE \E core \in Cores, t \in Tasks : NewTask(core, t)
    <2>1. PICK core \in Cores, t \in Tasks, pc \in {"fp_count", "enq_lock"} :
            call' = Serve("new_task", core, pc, Scheduled(t), <<>>)
      BY <1>7 DEF NewTask
    <2>2. pc \in Serving
      BY DEF Serving, Testing
    <2>3. call'.pc = pc /\ call'.task = Scheduled(t) /\ call'.todo = <<>>
      BY <2>1, <2>2, ServeShape
    <2>4. Written(Scheduled(t)) /\ <<>> \in Seq(Threads)
      BY ScheduledTimed
    <2> QED
      BY <1>3, <2>3, <2>4
  <1>8. CASE \E core \in Cores, list \in Lists : UpdateRqBuffer(core, list)
    <2>1. PICK core \in Cores, list \in Lists :
            call' = Serve("update", core, "init_lock", Blank, list)
      BY <1>8 DEF UpdateRqBuffer
    <2>2. call'.pc = "init_lock" /\ call'.todo = list
      BY <2>1, ServeShape DEF Serving
    <2> QED
      BY <1>3, <2>2, ListIsSeq DEF Testing, Walking, Holding
  <1>9. CASE Refill \/ RefillUnknown
    <2>1. /\ Served(call) /\ call.todo # <<>> /\ call'.todo = Tail(call.todo)
          /\ Refill => /\ call'.pc = "enq_lock" /\ call'.task = Entry(Head(call.todo))
                       /\ Head(call.todo).name \in DOMAIN taskMap
          /\ RefillUnknown => call'.pc = "refill"
      BY <1>0, <1>9, RefillMoves
    <2>2. call.todo \in Seq(Threads)
      BY <2>1 DEF CallWritten, Served
    <2>3. call'.todo \in Seq(Threads) /\ Head(call.todo) \in Threads
      BY <2>1, <2>2, HeadTailProperties
    <2>4. Refill => Written(call'.task)
      BY <1>0, <2>1, <2>3, EntryWritten
    <2> QED
      BY <1>3, <1>9, <2>1, <2>3, <2>4 DEF Testing, Walking, Holding
  <1>10. CASE Cycles
    BY <1>0, <1>2, <1>10, CyclesStay DEF Serving, Testing, Walking, Holding, Clearing
  <1>11. CASE Ends
    BY <1>2, <1>11, EndsQuiet DEF Idle, Serving, Testing, Walking, Holding, Clearing
  <1>12. CASE (\E i \in Rings : Consumes(i)) \/ SetSyncDs \/ UNCHANGED vars
    <2>1. call' = call
      BY <1>12, DeqSteps DEF IInv, SetSyncDs, vars
    <2> QED
      BY <1>1, <2>1
  <1> QED
    BY <1>5, <1>6, <1>7, <1>8, <1>9, <1>10, <1>11, <1>12, Kinds

(* Each step of a round moves one thread from the rest of the list into    *)
(* the ring, behind the ones before it in the list.                        *)
LEMMA CycleFilledStep ==
  ASSUME IInv, CycleFilled, [Next]_vars
  PROVE  CycleFilled'
  <1>0. CallRecorded
    BY DEF IInv
  <1>1. CASE call' = call
    BY <1>1 DEF CycleFilled, Formed
  <1>2. CASE call'.pc \notin {"cycle", "cycle_fill"}
    BY <1>2 DEF CycleFilled
  <1>3. CASE call' = Idle \/ Served(call')
    BY <1>2, <1>3 DEF Idle, Served, Serving, Testing, Walking, Holding, Clearing
  <1>4. \A buf : buf = [k \in 0 .. Mapped - 1 |-> buf[k]] => Formed(EmptyRing(buf))
    BY DEF Formed, EmptyRing
  <1>5. CASE AreYouReady
    <2>1. call'.pc = "cycle" /\ Formed(call'.sync)
      BY <1>4, <1>5 DEF AreYouReady
    <2> QED
      BY <2>1 DEF CycleFilled, Formed
  <1>6. CASE CycleDeploy
    <2>1. call'.pc = "idle" \/ (call'.pc = "cycle" /\ call'.sync = call.sync)
      <3>1. CASE Fault
        BY <3>1 DEF Fault, Idle
      <3>2. CASE call' = [pc |-> "cycle", sync |-> call.sync]
        BY <3>2
      <3> QED
        BY <1>6, <3>1, <3>2 DEF CycleDeploy
    <2>2. Formed(call.sync)
      BY <1>6 DEF CycleDeploy, CycleFilled
    <2> QED
      BY <2>1, <2>2 DEF CycleFilled, Formed
  <1>7. CASE \E list \in Lists : CycleUpdate(list)
    <2>1. PICK list \in Lists : CycleUpdate(list)
      BY <1>7
    <2> DEFINE r == EmptyRing(call.sync.buf)
    <2>2. call' = [pc |-> "cycle_fill", list |-> list, todo |-> list, sync |-> r]
      BY <2>1 DEF CycleUpdate
    <2>3. Formed(call.sync)
      BY <2>1 DEF CycleUpdate, CycleFilled
    <2>4. Formed(r) /\ r.lock = FALSE /\ r.head = 0 /\ r.tail = 0 /\ r.window = BufSize
      BY <2>3, <1>4 DEF Formed, EmptyRing
    <2>5. list \in Seq(Threads) /\ Len(list) \in Nat
      BY ListIsSeq, LenProperties
    <2> HIDE DEF r
    <2> QED
      BY <2>2, <2>4, <2>5, RingAssumption DEF CycleFilled, Formed
  <1>8. CASE CycleFill
    <2>1. CASE call' = Idle
      BY <1>2, <2>1 DEF Idle
    <2> DEFINE r == call.sync
               h == Head(call.todo)
               rest == Tail(call.todo)
               q == Filled(r, h)
    <2>2. CASE /\ ~Faults(r) /\ call.todo # <<>>
               /\ call' = [pc |-> "cycle_fill", list |-> call.list, todo |-> rest, sync |-> q]
      <3>1. /\ Formed(r) /\ r.lock = FALSE /\ r.head = 0
            /\ r.tail \in 0 .. Mapped /\ r.window = BufSize - r.tail
            /\ call.list \in Seq(Threads) /\ call.todo \in Seq(Threads)
            /\ Len(call.list) = r.tail + Len(call.todo)
            /\ \A k \in 1 .. r.tail : r.buf[k - 1] = call.list[k]
            /\ \A k \in 1 .. Len(call.todo) : call.todo[k] = call.list[r.tail + k]
        BY <1>8 DEF CycleFill, CycleFilled
      <3>2. r.tail \in 0 .. Mapped - 1 /\ Wrapped(r.tail) = r.tail + 1
        <4>1. BufSize \in Nat /\ Mapped \in Nat /\ Mapped < BufSize
          BY RingAssumption
        <4>2. ~(r.tail >= Mapped)
          BY <2>2 DEF Faults
        <4> QED
          BY <3>1, <4>1, <4>2 DEF Wrapped
      <3>3. /\ rest \in Seq(Threads)
            /\ Len(call.todo) \in Nat \ {0}
            /\ Len(rest) = Len(call.todo) - 1
            /\ \A k \in 1 .. Len(rest) : rest[k] = call.todo[k + 1]
            /\ h = call.todo[1]
        BY <2>2, <3>1, HeadTailProperties, EmptySeq, LenProperties
      <3> DEFINE b == [r.buf EXCEPT ![r.tail] = h]
      <3>4. /\ Formed(q)
            /\ q.lock = FALSE /\ q.head = 0 /\ q.tail = r.tail + 1
            /\ q.window = BufSize - (r.tail + 1) /\ q.buf = b
        <4> DEFINE v == r.window - 1
                   s == Stored(r, h)
        <4>1. /\ Formed(s)
              /\ s = [lock |-> r.lock, head |-> r.head, tail |-> Wrapped(r.tail),
                      window |-> r.window, buf |-> b]
          BY <3>1, StoredSlots
        <4>2. q = [s EXCEPT !.window = v]
          <5>1. s.window = r.window
            BY <4>1
          <5> QED
            BY <5>1 DEF Filled
        <4> HIDE DEF s, v, b, q
        <4>3. Formed([s EXCEPT !.window = v])
          BY <4>1, WordWritten
        <4>4. [s EXCEPT !.window = v] = [lock |-> r.lock, head |-> r.head,
                 tail |-> Wrapped(r.tail), window |-> v, buf |-> b]
          BY <4>1
        <4>5. v = BufSize - (r.tail + 1)
          BY <3>1, <3>2, RingAssumption DEF v
        <4> QED
          BY <3>1, <3>2, <4>2, <4>3, <4>4, <4>5
      <3>5. \A k \in 1 .. r.tail + 1 : b[k - 1] = call.list[k]
        <4> SUFFICES ASSUME NEW k \in 1 .. r.tail + 1 PROVE b[k - 1] = call.list[k]
          OBVIOUS
        <4>1. r.buf = [j \in 0 .. Mapped - 1 |-> r.buf[j]]
          BY <3>1 DEF Formed
        <4>2. CASE k = r.tail + 1
          <5>1. k - 1 = r.tail /\ call.list[k] = h
            BY <3>1, <3>2, <3>3, <4>2
          <5> QED
            BY <3>2, <4>1, <5>1
        <4>3. CASE k # r.tail + 1
          <5>1. k \in 1 .. r.tail /\ k - 1 \in 0 .. Mapped - 1 /\ k - 1 # r.tail
            BY <3>2, <4>3, RingAssumption
          <5>2. b[k - 1] = r.buf[k - 1]
            BY <4>1, <5>1
          <5> QED
            BY <3>1, <5>1, <5>2
        <4> QED
          BY <4>2, <4>3
      <3> HIDE DEF b, q, rest, h
      <3>6. \A k \in 1 .. Len(rest) : rest[k] = call.list[r.tail + 1 + k]
        <4> SUFFICES ASSUME NEW k \in 1 .. Len(rest)
                     PROVE  rest[k] = call.list[r.tail + 1 + k]
          OBVIOUS
        <4>1. rest[k] = call.todo[k + 1] /\ k + 1 \in 1 .. Len(call.todo)
          BY <3>3
        <4>2. r.tail \in Int /\ k \in Int
          BY <3>2, RingAssumption
        <4>3. r.tail + (k + 1) = r.tail + 1 + k
          BY <4>2
        <4> QED
          BY <3>1, <4>1, <4>3
      <3>7. call'.pc = "cycle_fill" /\ call'.list = call.list /\ call'.todo = rest /\ call'.sync = q
        BY <2>2
      <3>8. /\ q.tail \in 0 .. Mapped /\ q.window = BufSize - q.tail
            /\ Len(call.list) = q.tail + Len(rest)
            /\ \A k \in 1 .. q.tail : q.buf[k - 1] = call.list[k]
            /\ \A k \in 1 .. Len(rest) : rest[k] = call.list[q.tail + k]
        <4>1. q.tail \in 0 .. Mapped
          BY <3>2, <3>4, RingAssumption
        <4>2. Len(call.list) = q.tail + Len(rest)
          <5>1. r.tail \in Int /\ Len(call.todo) \in Int
            BY <3>2, <3>3, RingAssumption
          <5>2. /\ Len(call.list) = r.tail + Len(call.todo)
                /\ Len(rest) = Len(call.todo) - 1
                /\ q.tail = r.tail + 1
            BY <3>1, <3>3, <3>4
          <5> QED
            BY <5>1, <5>2
        <4> QED
          BY <3>4, <3>5, <3>6, <4>1, <4>2
      <3> QED
        <4>1. Formed(call.sync)'
          BY <3>4, <3>7 DEF Formed
        <4>2. /\ call'.list \in Seq(Threads) /\ call'.todo \in Seq(Threads)
              /\ call'.sync.lock = FALSE /\ call'.sync.head = 0
          BY <3>1, <3>3, <3>4, <3>7
        <4>3. Threads' = Threads
          OBVIOUS
        <4> QED
          BY <3>7, <3>8, <4>1, <4>2, <4>3 DEF CycleFilled
    <2> QED
      BY <1>8, <2>1, <2>2, FillMoves DEF IInv
  <1> QED
    <2>1. CASE Works
      BY <1>3, <2>1, WorkSteps DEF Continues
    <2>2. CASE \E core \in Cores, t \in Tasks : NewTask(core, t)
      <3>1. PICK core \in Cores, t \in Tasks, pc \in {"fp_count", "enq_lock"} :
              call' = Serve("new_task", core, pc, Scheduled(t), <<>>)
        BY <2>2 DEF NewTask
      <3> QED
        BY <1>3, <3>1, ServeShape DEF Serving, Testing
    <2>3. CASE \E core \in Cores, list \in Lists : UpdateRqBuffer(core, list)
      BY <1>3, <2>3, ServeShape DEF UpdateRqBuffer, Serving
    <2>4. CASE Tests
      BY <1>0, <1>3, <2>4, TestMoves DEF Tests, Continues
    <2>5. CASE Ends
      BY <1>3, <2>5, EndsQuiet
    <2>6. CASE Refill \/ RefillUnknown
      BY <1>0, <1>3, <2>6, RefillMoves
    <2>7. CASE (\E i \in Rings : Consumes(i)) \/ SetSyncDs \/ UNCHANGED vars
      <3>1. call' = call
        BY <2>7, DeqSteps DEF IInv, SetSyncDs, vars
      <3> QED
        BY <1>1, <3>1
    <2>8. CASE CycleWildRing
      BY <1>3, <2>8 DEF CycleWildRing, Fault
    <2> QED
      BY <1>5, <1>6, <1>7, <1>8, <2>1, <2>2, <2>3, <2>4, <2>5, <2>6, <2>7, <2>8, Kinds DEF Cycles

LEMMA TypedStep == IInv /\ TypedInv /\ [Next]_vars => TypedInv'
  BY RingsTypedStep, CallWrittenStep, CycleFilledStep DEF TypedInv

(* Whenever a ring is initialised, its words stay what they may be.        *)
THEOREM Typing == Spec => []TypedInv
  BY InitTypedInv, TypedStep, Recording, PTL DEF Spec

(* No head or tail leaves its ring, or the dataspace behind it by more     *)
(* than the slot a store would fault on, no ring beyond the array is       *)
(* attached, and task_map only has tasks the loader passed.                *)
THEOREM TypeCorrect == Spec => []TypeOK
  <1>1. IInv /\ TypedInv => TypeOK
    <2> SUFFICES ASSUME IInv, TypedInv PROVE TypeOK
      OBVIOUS
    <2>1. DOMAIN rings = Rings
      BY DEF IInv, RingsFormed
    <2>2. \A i \in Rings : /\ rings[i].head \in 0 .. BufSize
                           /\ rings[i].tail \in 0 .. Mapped
                           /\ reader[i].word \in Int
      BY DEF TypedInv, RingsTyped, RingTyped
    <2> QED
      BY <2>1, <2>2 DEF IInv, MapKnown, CountsTyped, TypeOK
  <1> QED
    BY <1>1, Recording, Typing, PTL

(* In every round of the_cycle the ring and the rest of the list are the   *)
(* list the monitor gave in this round.                                    *)
THEOREM CycleIsFresh == Spec => []CycleFresh
  <1>1. IInv /\ TypedInv => CycleFresh
    <2> SUFFICES ASSUME IInv, TypedInv, call.pc = "cycle_fill"
                 PROVE  Queue(call.sync) \o call.todo = call.list
      BY DEF CycleFresh
    <2> DEFINE r == call.sync
               n == r.tail
               q == Queue(r)
    <2>1. /\ r.head = 0 /\ n \in 0 .. Mapped /\ r.window = BufSize - n
          /\ call.list \in Seq(Threads) /\ call.todo \in Seq(Threads)
          /\ Len(call.list) = n + Len(call.todo)
          /\ \A k \in 1 .. n : r.buf[k - 1] = call.list[k]
          /\ \A k \in 1 .. Len(call.todo) : call.todo[k] = call.list[n + k]
      BY DEF TypedInv, CycleFilled
    <2>2. q = [k \in 1 .. n |-> r.buf[k - 1]]
      <3>1. NumElements(r) = n
        BY <2>1, RingAssumption DEF NumElements
      <3>2. \A k \in 1 .. n : r.head + k - 1 = k - 1
        BY <2>1
      <3> QED
        BY <3>1, <3>2 DEF Queue
    <2>3. Len(call.todo) \in Nat /\ Len(call.list) \in Nat
      BY <2>1, LenProperties
    <2>4. \A k \in 1 .. n : call.list[k] \in Threads
      BY <2>1, <2>3, ElementOfSeq, RingAssumption
    <2>5. n \in Nat
      BY <2>1, RingAssumption
    <2> HIDE DEF q, n
    <2>6. q \in [1 .. n -> Threads] /\ \A k \in 1 .. n : q[k] = call.list[k]
      BY <2>1, <2>2, <2>4
    <2>7. q \in Seq(Threads) /\ Len(q) = n
      BY <2>5, <2>6, SeqDef, LenProperties
    <2> DEFINE s == q \o call.todo
               m == Len(call.todo)
    <2>8. /\ s \in Seq(Threads)
          /\ Len(s) = n + m
          /\ \A k \in 1 .. n + m : s[k] = IF k <= n THEN q[k] ELSE call.todo[k - n]
      <3>1. /\ s \in Seq(Threads)
            /\ Len(s) = Len(q) + m
            /\ \A k \in 1 .. Len(q) + m : s[k] = IF k <= Len(q) THEN q[k] ELSE call.todo[k - Len(q)]
        BY <2>1, <2>7, ConcatProperties
      <3> QED
        BY <2>7, <3>1
    <2> HIDE DEF s
    <2>9. \A k \in 1 .. n + m : s[k] = call.list[k]
      <3> SUFFICES ASSUME NEW k \in 1 .. n + m PROVE s[k] = call.list[k]
        OBVIOUS
      <3>1. CASE k <= n
        BY <2>3, <2>5, <2>6, <2>8, <3>1
      <3>2. CASE ~(k <= n)
        <4>1. s[k] = call.todo[k - n] /\ k - n \in 1 .. m /\ n + (k - n) = k
          BY <2>3, <2>5, <2>8, <3>2
        <4> QED
          BY <2>1, <4>1
      <3> QED
        BY <3>1, <3>2
    <2>10. s = call.list
      BY <2>1, <2>8, <2>9, SeqEqual
    <2> QED
      BY <2>10 DEF s, q
  <1> QED
    BY <1>1, Recording, Typing, PTL

-----------------------------------------------------------------------------
(* The control words of a ring that was not initialised in the middle of a *)
(* deq agree, between any two accesses.                                    *)

\* What the RPC being served is doing to ring i.
Doing(i) == IF call.pc \in Holding \cup Clearing /\ call.core = i THEN call.pc ELSE "nothing"

\* A ring r, its consumer c, and what the controller is doing to it, which has read word.
\* Nobody is inside while it is cleared.  Else the lock is held by one of the two, the head
\* is not behind the tail, and the window is their distance, but for the element that is
\* being stored or taken.
Ordered(r, c, doing, word) ==
  IF doing \in Clearing
  THEN /\ ~r.lock
       /\ c.pc = "idle"
       /\ doing # "init_head" => r.head = 0
       /\ doing = "init_window" => r.tail = 0
  ELSE /\ r.lock <=> c.pc # "idle" \/ doing \in Holding
       /\ c.pc = "idle" \/ doing \notin Holding
       /\ r.head <= r.tail
       /\ r.window = BufSize - (r.tail - r.head)
                       + (IF doing \in {"enq_window", "enq_shrink"} THEN 1 ELSE 0)
                       - (IF c.pc \in {"window", "free"} THEN 1 ELSE 0)
       /\ c.pc # "wrap"
       /\ c.pc \in {"head", "move"} => r.head < r.tail
       /\ c.pc = "move" => c.word = r.head
       /\ c.pc = "free" => c.word = r.window
       /\ doing = "enq_shrink" => word = r.window

RingsOrdered ==
  up => \A i \in Rings \ torn : Ordered(rings[i], reader[i], Doing(i), call.word)

(* deq keeps a ring in order, if it does not begin while that is cleared.  *)
LEMMA DeqOrdered ==
  ASSUME NEW r, NEW c, NEW q, NEW d, NEW doing, NEW word,
         RingTyped(r, c), DeqMoves(r, c, q, d), Ordered(r, c, doing, word),
         ~(doing \in Clearing /\ c.pc = "idle")
  PROVE  /\ Ordered(q, d, doing, word)
         /\ q.tail = r.tail /\ q.head >= r.head /\ q.window >= r.window
  <1>1. /\ c.pc \in Reading /\ c.word \in Int
        /\ r.lock \in BOOLEAN /\ r.head \in Int
        /\ r.tail \in 0 .. Mapped /\ r.window \in Int
    BY DEF RingTyped
  <1>2. BufSize \in Nat /\ Mapped \in Nat /\ Mapped < BufSize
    BY RingAssumption
  <1>3. doing \notin Clearing
    BY DEF Ordered
  <1>4. /\ r.lock <=> c.pc # "idle" \/ doing \in Holding
        /\ c.pc = "idle" \/ doing \notin Holding
        /\ r.head <= r.tail
        /\ r.window = BufSize - (r.tail - r.head)
                        + (IF doing \in {"enq_window", "enq_shrink"} THEN 1 ELSE 0)
                        - (IF c.pc \in {"window", "free"} THEN 1 ELSE 0)
        /\ c.pc # "wrap"
        /\ c.pc \in {"head", "move"} => r.head < r.tail
        /\ c.pc = "move" => c.word = r.head
        /\ c.pc = "free" => c.word = r.window
        /\ doing = "enq_shrink" => word = r.window
    BY <1>3 DEF Ordered
  <1>5. q.tail = r.tail /\ doing \notin Holding
    BY <1>4 DEF DeqMoves
  <1>6. doing \notin {"enq_window", "enq_shrink"}
    BY <1>5 DEF Holding
  <1>7. q.lock <=> d.pc # "idle"
    BY <1>1, <1>4, <1>5 DEF DeqMoves
  <1>8. /\ q.head <= q.tail /\ q.head >= r.head /\ q.window >= r.window
        /\ q.window = BufSize - (q.tail - q.head) - (IF d.pc \in {"window", "free"} THEN 1 ELSE 0)
        /\ d.pc # "wrap"
        /\ d.pc \in {"head", "move"} => q.head < q.tail
        /\ d.pc = "move" => d.word = q.head
        /\ d.pc = "free" => d.word = q.window
    BY <1>1, <1>2, <1>4, <1>5, <1>6 DEF DeqMoves
  <1>9. q.tail - q.head \in Int /\ BufSize \in Int
    BY <1>1, <1>2, <1>4 DEF DeqMoves
  <1> QED
    BY <1>3, <1>5, <1>6, <1>7, <1>8, <1>9 DEF Ordered

(* So do enq and init_w_shared_ds: a cleared ring is in order when nobody  *)
(* was inside as its lock was freed, whatever it was before.               *)
LEMMA WorkOrdered ==
  ASSUME NEW r, NEW c, Formed(r), RingTyped(r, c),
         NEW p, NEW w, NEW t, NEW q, NEW p2, NEW w2, WorkMoves(r, p, w, t, q, p2, w2),
         NEW doing, doing = IF p \in Holding \cup Clearing THEN p ELSE "nothing",
         NEW doing2, doing2 = IF p2 \in Holding \cup Clearing THEN p2 ELSE "nothing",
         p = "init_lock" => c.pc = "idle",
         p # "init_lock" => Ordered(r, c, doing, w)
  PROVE  Ordered(q, c, doing2, w2)
  <1>1. /\ c.pc \in Reading /\ c.word \in Int
        /\ r.lock \in BOOLEAN /\ r.head \in Int
        /\ r.tail \in 0 .. Mapped /\ r.window \in Int
    BY DEF RingTyped
  <1>2. BufSize \in Nat /\ Mapped \in Nat /\ Mapped < BufSize
    BY RingAssumption
  <1>3. CASE p \in Clearing \cup {"init_lock"}
    <2>1. CASE p = "init_lock"
      <3>1. doing2 = "init_head" /\ q.lock = FALSE
        BY <2>1 DEF WorkMoves, Words, Clearing
      <3> QED
        BY <2>1, <3>1 DEF Ordered, Clearing
    <2>2. CASE p = "init_head"
      <3>1. doing2 = "init_tail" /\ q.lock = r.lock /\ q.head = 0
        BY <2>2 DEF WorkMoves, Words, Clearing
      <3> QED
        BY <2>2, <3>1 DEF Ordered, Clearing
    <2>3. CASE p = "init_tail"
      <3>1. doing2 = "init_window" /\ q.lock = r.lock /\ q.head = r.head /\ q.tail = 0
        BY <2>3 DEF WorkMoves, Clearing
      <3> QED
        BY <2>3, <3>1 DEF Ordered, Clearing
    <2>4. CASE p = "init_window"
      <3>1. /\ doing2 = "nothing" /\ q.lock = r.lock /\ q.head = r.head /\ q.tail = r.tail
            /\ q.window = BufSize
        BY <2>4 DEF WorkMoves, Words, Clearing, Holding
      <3>2. ~r.lock /\ c.pc = "idle" /\ r.head = 0 /\ r.tail = 0
        BY <2>4 DEF Ordered, Clearing
      <3> QED
        BY <1>2, <3>1, <3>2 DEF Ordered, Clearing, Holding
    <2> QED
      BY <1>3, <2>1, <2>2, <2>3, <2>4 DEF Clearing
  <1>4. CASE p \notin Clearing \cup {"init_lock"}
    <2>1. doing \notin Clearing /\ Ordered(r, c, doing, w)
      BY <1>4 DEF Clearing
    <2>2. /\ r.lock <=> c.pc # "idle" \/ doing \in Holding
          /\ c.pc = "idle" \/ doing \notin Holding
          /\ r.head <= r.tail
          /\ r.window = BufSize - (r.tail - r.head)
                          + (IF doing \in {"enq_window", "enq_shrink"} THEN 1 ELSE 0)
                          - (IF c.pc \in {"window", "free"} THEN 1 ELSE 0)
          /\ c.pc # "wrap"
          /\ c.pc \in {"head", "move"} => r.head < r.tail
          /\ c.pc = "move" => c.word = r.head
          /\ c.pc = "free" => c.word = r.window
          /\ doing = "enq_shrink" => w = r.window
      BY <2>1 DEF Ordered
    <2>3. CASE p = "enq_lock"
      <3>1. CASE q = r /\ p2 \in {"idle", "refill"}
        BY <1>4, <2>1, <2>3, <3>1 DEF Ordered, Holding, Clearing
      <3>2. CASE p2 = "enq_store" /\ ~r.lock /\ Words(r, q, TRUE, r.head, r.window)
        <4>1. doing2 = "enq_store" /\ doing = "nothing" /\ c.pc = "idle" /\ q.lock
          BY <2>2, <2>3, <3>2 DEF Holding, Clearing, Words
        <4> QED
          BY <2>2, <3>2, <4>1 DEF Ordered, Holding, Clearing, Words
      <3> QED
        BY <2>3, <3>1, <3>2 DEF WorkMoves
    <2>4. CASE p = "enq_store"
      <3>0. doing = "enq_store"
        BY <2>4 DEF Holding
      <3>1. CASE p2 = "enq_full" /\ q = r
        BY <2>2, <3>0, <3>1 DEF Ordered, Holding, Clearing
      <3>2. CASE ~Faults(r) /\ p2 = "enq_window" /\ q = Stored(r, t)
        <4>1. /\ q.lock = r.lock /\ q.head = r.head /\ q.tail = Wrapped(r.tail)
              /\ q.window = r.window
          BY <3>2, StoredSlots
        <4>2. Wrapped(r.tail) = r.tail + 1
          BY <1>1, <1>2, <3>2 DEF Faults, Wrapped
        <4>3. doing2 = "enq_window" /\ c.pc = "idle" /\ q.lock
          BY <2>2, <3>0, <3>2, <4>1 DEF Holding
        <4>4. q.head <= q.tail /\ q.window = BufSize - (q.tail - q.head) + 1
          BY <1>1, <1>2, <2>2, <3>0, <4>1, <4>2, <4>3
        <4>5. q.window = BufSize - (q.tail - q.head) + 1 - 0
          BY <1>1, <4>1, <4>4
        <4> QED
          BY <4>3, <4>4, <4>5 DEF Ordered, Holding, Clearing
      <3> QED
        BY <2>4, <3>1, <3>2 DEF WorkMoves
    <2>5. CASE p = "enq_window"
      <3>1. doing = "enq_window" /\ doing2 = "enq_shrink" /\ w2 = r.window /\ q = r
        BY <2>5 DEF WorkMoves, Holding
      <3> QED
        BY <2>2, <3>1 DEF Ordered, Holding, Clearing
    <2>6. CASE p = "enq_shrink"
      <3>1. /\ doing = "enq_shrink" /\ doing2 = "enq_unlock"
            /\ Words(r, q, r.lock, r.head, w - 1)
        BY <2>6 DEF WorkMoves, Holding
      <3>2. c.pc = "idle" /\ q.window = r.window - 1 /\ w = r.window
        BY <2>2, <3>1 DEF Holding, Words
      <3>3. q.window = BufSize - (q.tail - q.head) + 0 - 0
        BY <1>1, <1>2, <2>2, <3>1, <3>2 DEF Words
      <3> QED
        BY <2>2, <3>1, <3>2, <3>3 DEF Ordered, Holding, Clearing, Words
    <2>7. CASE p \in {"enq_full", "enq_unlock"}
      <3>1. /\ doing = p /\ doing2 = "nothing" /\ Words(r, q, FALSE, r.head, r.window)
        BY <2>7 DEF WorkMoves, Holding, Clearing
      <3>2. c.pc = "idle" /\ ~q.lock
        BY <2>2, <2>7, <3>1 DEF Holding, Words
      <3> QED
        BY <2>2, <2>7, <3>1, <3>2 DEF Ordered, Holding, Clearing, Words
    <2> QED
      BY <1>4, <2>3, <2>4, <2>5, <2>6, <2>7 DEF WorkMoves, Clearing
  <1> QED
    BY <1>3, <1>4

LEMMA InitOrdered == Init => RingsOrdered
  <1> SUFFICES ASSUME Init, NEW i \in Rings
               PROVE  Ordered(rings[i], reader[i], Doing(i), call.word)
    BY DEF RingsOrdered
  <1> DEFINE r == rings[i]
             c == reader[i]
  <1>1. r.lock = FALSE /\ r.head = 0 /\ r.tail = 0 /\ r.window = BufSize
    BY DEF Init, EmptyRing
  <1>2. c.pc = "idle"
    BY DEF Init, Resting
  <1>3. Doing(i) = "nothing"
    BY DEF Init, Idle, Doing, Holding, Clearing
  <1> HIDE DEF r, c
  <1>4. Ordered(r, c, "nothing", call.word)
    BY <1>1, <1>2, RingAssumption DEF Ordered, Holding, Clearing
  <1> QED
    BY <1>3, <1>4 DEF r, c

LEMMA RingsOrderedStep ==
  ASSUME IInv, TypedInv, RingsOrdered, [Next]_vars
  PROVE  RingsOrdered'
  <1> SUFFICES ASSUME up', NEW i \in Rings, i \notin torn'
               PROVE  Ordered(rings'[i], reader'[i], Doing(i)', call'.word)
    BY DEF RingsOrdered, Rings, Ordered
  <1>0. RingsFormed /\ RingsTyped /\ CountsTyped
    BY DEF IInv, TypedInv
  <1>1. ASSUME UNCHANGED <<rings, reader, torn, up>>, Doing(i)' = Doing(i),
               Doing(i) = "enq_shrink" => call'.word = call.word
        PROVE  Ordered(rings'[i], reader'[i], Doing(i)', call'.word)
    <2>1. Ordered(rings[i], reader[i], Doing(i), call.word)
      BY <1>1 DEF RingsOrdered
    <2> QED
      BY <1>1, <2>1 DEF Ordered
  <1>2. CASE \E j \in Rings : Consumes(j)
    <2>1. PICK j \in Rings : Consumes(j)
      BY <1>2
    <2>2. /\ UNCHANGED <<call, up>>
          /\ torn' \in {torn, torn \cup {j}}
          /\ reader[j].pc = "idle" /\ Initialising(j) => j \in torn'
      BY <1>0, <2>1, DeqSteps
    <2>3. PICK q, d : /\ rings' = [rings EXCEPT ![j] = q]
                      /\ reader' = [reader EXCEPT ![j] = d]
                      /\ DeqMoves(rings[j], reader[j], q, d)
      BY <1>0, <2>1, DeqSteps
    <2>4. Ordered(rings[i], reader[i], Doing(i), call.word)
      BY <2>2 DEF RingsOrdered
    <2>5. Doing(i)' = Doing(i) /\ call'.word = call.word
      BY <2>2 DEF Doing
    <2>6. CASE i = j
      <3>1. rings'[i] = q /\ reader'[i] = d
        BY <1>0, <2>3, <2>6 DEF RingsFormed, RingsTyped
      <3>2. ~(Doing(i) \in Clearing /\ reader[i].pc = "idle")
        BY <2>2, <2>6 DEF Doing, Initialising, Clearing
      <3>3. RingTyped(rings[i], reader[i])
        BY <1>0 DEF RingsTyped
      <3>4. Ordered(q, d, Doing(i), call.word)
        BY <2>3, <2>4, <2>6, <3>2, <3>3, DeqOrdered
      <3> QED
        BY <2>5, <3>1, <3>4
    <2>7. CASE i # j
      <3>1. rings'[i] = rings[i] /\ reader'[i] = reader[i]
        BY <1>0, <2>3, <2>7 DEF RingsFormed, RingsTyped
      <3> QED
        BY <2>4, <2>5, <3>1
    <2> QED
      BY <2>6, <2>7
  <1>3. CASE Works
    <2>1. /\ up /\ call.core \in Rings /\ Served(call)
          /\ UNCHANGED reader
          /\ call' = Idle \/ Continues
          /\ torn' \in {torn, torn \cup {call.core}, torn \ {call.core}}
          /\ call.pc # "init_lock" => torn' = torn
          /\ call.pc = "init_lock" =>
               torn' = IF reader[call.core] = Resting THEN torn \ {call.core}
                       ELSE torn \cup {call.core}
          /\ \E q : WorksTo(q)
      BY <1>3, WorkSteps
    <2>2. PICK q : WorksTo(q)
      BY <2>1
    <2>3. /\ rings' = [rings EXCEPT ![call.core] = q]
          /\ WorkMoves(Ring, call.pc, call.word, call.task, q, call'.pc, call'.word)
      BY <2>2 DEF WorksTo
    <2>4. CASE i = call.core
      <3>1. rings'[i] = q /\ reader'[i] = reader[i]
        BY <1>0, <2>1, <2>3, <2>4 DEF RingsFormed
      <3>2. Formed(rings[i]) /\ RingTyped(rings[i], reader[i]) /\ Ring = rings[i]
        BY <1>0, <2>4 DEF RingsFormed, RingsTyped, Ring
      <3>3. call.pc = "init_lock" => reader[i].pc = "idle"
        BY <2>1, <2>4 DEF Resting
      <3>4. call.pc # "init_lock" => Ordered(rings[i], reader[i], Doing(i), call.word)
        BY <2>1 DEF RingsOrdered
      <3>5. Doing(i) = IF call.pc \in Holding \cup Clearing THEN call.pc ELSE "nothing"
        BY <2>4 DEF Doing
      <3>6. Doing(i)' = IF call'.pc \in Holding \cup Clearing THEN call'.pc ELSE "nothing"
        BY <2>1, <2>4 DEF Doing, Continues, Idle, Holding, Clearing
      <3> DEFINE a == Doing(i)
                 b == Doing(i)'
      <3> HIDE DEF a, b
      <3>7. Ordered(q, reader[i], b, call'.word)
        <4>1. WorkMoves(rings[i], call.pc, call.word, call.task, q, call'.pc, call'.word)
          BY <2>3, <3>2
        <4>2. a = IF call.pc \in Holding \cup Clearing THEN call.pc ELSE "nothing"
          BY <3>5 DEF a
        <4>3. b = IF call'.pc \in Holding \cup Clearing THEN call'.pc ELSE "nothing"
          BY <3>6 DEF b
        <4>4. call.pc # "init_lock" => Ordered(rings[i], reader[i], a, call.word)
          BY <3>4 DEF a
        <4> QED
          BY <3>2, <3>3, <4>1, <4>2, <4>3, <4>4, WorkOrdered
      <3> QED
        BY <3>1, <3>7 DEF b
    <2>5. CASE i # call.core
      <3>1. rings'[i] = rings[i] /\ reader'[i] = reader[i]
        BY <1>0, <2>1, <2>3, <2>5 DEF RingsFormed
      <3>2. Ordered(rings[i], reader[i], Doing(i), call.word)
        BY <2>1, <2>5 DEF RingsOrdered
      <3>3. Doing(i) = "nothing" /\ Doing(i)' = "nothing"
        BY <2>1, <2>5 DEF Doing, Continues, Idle, Holding, Clearing
      <3> QED
        BY <3>1, <3>2, <3>3 DEF Ordered
    <2> QED
      BY <2>4, <2>5
  <1>4. CASE Quiet
    <2>1. /\ UNCHANGED <<rings, reader, torn>> /\ up
          /\ \/ call' = call
             \/ call.pc \notin Holding \cup Clearing /\ call'.pc \notin Holding \cup Clearing
      BY <1>4, QuietMoves
    <2>2. up' = up
      BY <1>4, <2>1 DEF Quiet, NewTask, UpdateRqBuffer, Tests, Cycles, Ends, Refill, RefillUnknown,
            SetSyncDs, vars, FpCount, RtaCount, Count, FpFirst, FpWalk, RtaFirst, RtaHead, RtaLast,
            RtaWalk, Goto, Return, AreYouReady, CycleWildRing, CycleFill, CycleDeploy,
            CycleUpdate, NoSuchCore, UpdateWildRing, WildRing, WildWalk, RefillEnd, Fault
    <2>3. CASE call' = call
      BY <1>1, <2>1, <2>2, <2>3 DEF Doing
    <2>4. CASE call.pc \notin Holding \cup Clearing /\ call'.pc \notin Holding \cup Clearing
      <3>1. Doing(i) = "nothing" /\ Doing(i)' = "nothing"
        BY <2>4 DEF Doing
      <3> QED
        BY <1>1, <2>1, <2>2, <3>1
    <2> QED
      BY <2>1, <2>3, <2>4
  <1> QED
    BY <1>2, <1>3, <1>4, Kinds DEF Quiet

(* Whatever the controller, its tests and the consumers do between one     *)
(* another's accesses, and whenever update_rq_buffer initialises a ring:   *)
(* its words agree until one initialisation meets a deq, and again from    *)
(* the next that does not.                                                 *)
THEOREM RingOrder == Spec => []RingsOrdered
  BY InitOrdered, RingsOrderedStep, Recording, Typing, PTL DEF Spec

-----------------------------------------------------------------------------
(* What a test has counted.                                                *)

(* The steps of a test that go on with it.                                 *)
LEMMA TestGoes ==
  ASSUME CallRecorded, Tests, call'.pc \in Walking
  PROVE  /\ Served(call) /\ call'.core = call.core /\ call.core \in attached /\ up
         /\ \/ /\ call'.pc \in {"fp_first", "rta_first"}
               /\ call'.num = NumElements(Ring) /\ NumElements(Ring) # 0
            \/ /\ call.pc \in Walking \ {"rta_head"}
               /\ call'.pc # "rta_last"
               /\ call'.pc = "rta_walk" => call.pc = "rta_last"
               /\ call'.num = call.num /\ call'.first = call.first
            \/ /\ call.pc = "rta_head" /\ call'.pc = "rta_last"
               /\ call'.num = call.num /\ call'.first = Ring.head
  <1>1. call.pc \in Testing /\ call.core \in attached /\ up
    BY DEF Tests, FpCount, RtaCount, Count, FpFirst, FpWalk, RtaFirst, RtaHead, RtaLast, RtaWalk,
           At, Testing, Walking
  <1>2. Served(call)
    BY <1>1 DEF CallRecorded, Idle, Testing, Walking
  <1>3. \A p, x : /\ [call EXCEPT !.pc = p] = Going(call, p, call.num, call.first, call.word)
                  /\ [call EXCEPT !.pc = p, !.num = x]
                       = Going(call, p, x, call.first, call.word)
                  /\ [call EXCEPT !.pc = p, !.first = x]
                       = Going(call, p, call.num, x, call.word)
    BY <1>2, ServedMoves
  <1>4. \A n, f : \A p \in Serving :
          LET d == Going(call, p, n, f, call.word)
          IN  d.core = call.core /\ d.pc = p /\ d.num = n /\ d.first = f
    BY GoingFields
  <1>5. ASSUME NEW p \in Serving, Goto(p)
        PROVE  /\ call'.core = call.core /\ call'.pc = p
               /\ call'.num = call.num /\ call'.first = call.first
    <2>1. call' = Going(call, p, call.num, call.first, call.word)
      BY <1>3, <1>5 DEF Goto
    <2> QED
      BY <1>4, <2>1
  <1>6. {"enq_lock", "rta_count"} \cup Walking \subseteq Serving
    BY DEF Serving, Testing
  <1>7. CASE FpCount \/ RtaCount
    <2>1. CASE NumElements(Ring) = 0
      <3>1. Goto("enq_lock")
        BY <1>7, <2>1 DEF FpCount, RtaCount, Count
      <3> QED
        BY <1>5, <1>6, <3>1 DEF Walking
    <2>2. CASE NumElements(Ring) # 0
      <3> DEFINE n == NumElements(Ring)
      <3>1. PICK p \in {"fp_first", "rta_first"} : call' = [call EXCEPT !.pc = p, !.num = n]
        BY <1>7, <2>2 DEF FpCount, RtaCount, Count
      <3>2. p \in Serving
        BY <1>6 DEF Walking
      <3> HIDE DEF n
      <3>3. call' = Going(call, p, n, call.first, call.word)
        BY <1>3, <3>1
      <3>4. call'.core = call.core /\ call'.pc = p /\ call'.num = n
        BY <1>4, <3>2, <3>3
      <3> QED
        BY <1>1, <1>2, <2>2, <3>4 DEF n
    <2> QED
      BY <2>1, <2>2
  <1>8. CASE FpWalk
    <2>1. Goto("enq_lock") \/ Goto("rta_count")
      BY <1>8 DEF FpWalk
    <2> QED
      BY <1>5, <1>6, <2>1 DEF Walking
  <1>9. CASE RtaWalk
    <2>1. Goto("enq_lock") \/ call' = Idle
      BY <1>9 DEF RtaWalk, Return
    <2> QED
      BY <1>5, <1>6, <2>1 DEF Walking, Idle
  <1>10. CASE RtaHead
    <2>1. call.pc = "rta_head" /\ call' = [call EXCEPT !.pc = "rta_last", !.first = Ring.head]
      BY <1>10 DEF RtaHead, At
    <2> DEFINE f == Ring.head
    <2> HIDE DEF f
    <2>2. call' = Going(call, "rta_last", call.num, f, call.word)
      BY <1>3, <2>1 DEF f
    <2>3. call'.core = call.core /\ call'.pc = "rta_last" /\ call'.num = call.num /\ call'.first = f
      BY <1>4, <1>6, <2>2 DEF Walking
    <2> QED
      BY <1>1, <1>2, <2>1, <2>3 DEF f
  <1>11. CASE FpFirst \/ RtaFirst \/ RtaLast
    <2>1. \/ call.pc = "fp_first" /\ Goto("fp_walk")
          \/ call.pc = "rta_first" /\ Goto("rta_head")
          \/ call.pc = "rta_last" /\ Goto("rta_walk")
      BY <1>11 DEF FpFirst, RtaFirst, RtaLast, At
    <2> QED
      BY <1>1, <1>2, <1>5, <1>6, <2>1 DEF Walking
  <1> QED
    BY <1>7, <1>8, <1>9, <1>10, <1>11 DEF Tests

\* The ring holds no more than was counted, and its queue ends no later, counted from the
\* element RTA has taken for the first.
Counted ==
  call.pc \in Walking =>
    /\ call.num \in Int \ {0}
    /\ up /\ call.core \in Rings \ torn =>
         /\ call.num >= NumElements(Ring)
         /\ call.pc \in {"rta_last", "rta_walk"} =>
              /\ call.first \in Int
              /\ call.first <= Ring.head
              /\ call.num >= Ring.tail - call.first

LEMMA CountedStep ==
  ASSUME IInv, TypedInv, RingsOrdered, Counted, [Next]_vars
  PROVE  Counted'
  <1>0. RingsFormed /\ RingsTyped /\ CallRecorded /\ CountsTyped
    BY DEF IInv, TypedInv
  <1>1. CASE call'.pc \notin Walking
    BY <1>1 DEF Counted
  <1>2. CASE UNCHANGED <<call, rings, torn>> /\ (up' => up)
    BY <1>2 DEF Counted, Ring, Rings, NumElements
  <1>3. CASE \E i \in Rings : Consumes(i)
    <2>1. PICK i \in Rings : Consumes(i)
      BY <1>3
    <2>2. /\ UNCHANGED <<call, up>> /\ torn \subseteq torn'
          /\ reader[i].pc = "idle" /\ Initialising(i) => i \in torn'
      BY <1>0, <2>1, DeqSteps
    <2>3. PICK q, d : /\ rings' = [rings EXCEPT ![i] = q]
                      /\ reader' = [reader EXCEPT ![i] = d]
                      /\ DeqMoves(rings[i], reader[i], q, d)
      BY <1>0, <2>1, DeqSteps
    <2> SUFFICES ASSUME call.pc \in Walking, up, call.core \in Rings, call.core \notin torn'
                 PROVE  /\ call.num >= NumElements(Ring')
                        /\ call.pc \in {"rta_last", "rta_walk"} =>
                             /\ call.first <= Ring'.head
                             /\ call.num >= Ring'.tail - call.first
      BY <2>2 DEF Counted, Ring, Rings, NumElements
    <2>4. /\ call.num \in Int /\ call.num >= NumElements(Ring)
          /\ call.pc \in {"rta_last", "rta_walk"} =>
               /\ call.first \in Int
               /\ call.first <= Ring.head
               /\ call.num >= Ring.tail - call.first
      BY <2>2 DEF Counted
    <2>5. CASE i = call.core
      <3>1. Ring' = q /\ Ring = rings[i]
        BY <1>0, <2>2, <2>3, <2>5 DEF RingsFormed, Ring
      <3>2. Ordered(rings[i], reader[i], Doing(i), call.word) /\ RingTyped(rings[i], reader[i])
        BY <1>0, <2>2, <2>5 DEF RingsOrdered, RingsTyped
      <3>3. Doing(i) \notin Clearing
        BY DEF Doing, Walking, Holding, Clearing
      <3>4. q.tail = Ring.tail /\ q.head >= Ring.head /\ q.window >= Ring.window
        BY <2>3, <3>1, <3>2, <3>3, DeqOrdered
      <3>5. RingTyped(q, d)
        BY <2>3, <3>2, DeqTyped
      <3>6. /\ Ring.head \in Int /\ Ring.tail \in Int /\ Ring.window \in Int
            /\ q.head \in Int /\ q.window \in Int
        BY <3>1, <3>2, <3>5, RingAssumption DEF RingTyped
      <3>7. call.num >= NumElements(q)
        BY <2>4, <3>4, <3>6, RingAssumption DEF NumElements
      <3>8. call.pc \in {"rta_last", "rta_walk"} =>
               /\ call.first <= q.head
               /\ call.num >= q.tail - call.first
        BY <2>4, <3>4, <3>6
      <3> QED
        BY <3>1, <3>7, <3>8
    <2>6. CASE i # call.core
      <3>1. Ring' = Ring
        BY <1>0, <2>2, <2>3, <2>6 DEF RingsFormed, Ring
      <3> QED
        BY <2>4, <3>1
    <2> QED
      BY <2>5, <2>6
  <1>4. CASE Works
    <2>1. call' = Idle \/ Continues
      BY <1>4, WorkSteps
    <2>2. call.pc \in Holding \cup Clearing \cup {"enq_lock", "init_lock"}
      BY <1>4 DEF Works, Enq, EnqLock, EnqLocked, EnqFull, EnqStore, EnqFault, EnqWindow,
           EnqShrink, EnqUnlock, EnqStep, EnqReturn, InitLock, InitHead, InitTail, InitWindow,
           Initialise, At, Holding, Clearing
    <2> QED
      BY <1>1, <2>1, <2>2 DEF Continues, Idle, Testing, Walking, Holding, Clearing
  <1>5. CASE Tests
    <2> SUFFICES ASSUME call'.pc \in Walking PROVE Counted'
      BY <1>1
    <2>1. UNCHANGED <<rings, torn, up>>
      BY <1>5, TestsQuiet
    <2>2. /\ Served(call) /\ call'.core = call.core /\ call.core \in attached /\ up
          /\ \/ /\ call'.pc \in {"fp_first", "rta_first"}
                /\ call'.num = NumElements(Ring) /\ NumElements(Ring) # 0
             \/ /\ call.pc \in Walking \ {"rta_head"}
                /\ call'.pc # "rta_last"
                /\ call'.pc = "rta_walk" => call.pc = "rta_last"
                /\ call'.num = call.num /\ call'.first = call.first
             \/ /\ call.pc = "rta_head" /\ call'.pc = "rta_last"
                /\ call'.num = call.num /\ call'.first = Ring.head
      BY <1>0, <1>5, TestGoes
    <2>3. call.core \in Rings
      BY <1>0, <2>2, RingAssumption DEF CountsTyped, Rings
    <2>4. RingTyped(Ring, reader[call.core])
      BY <1>0, <2>3 DEF RingsTyped, Ring
    <2>5. /\ Ring.head \in Int /\ Ring.tail \in Int /\ Ring.window \in Int /\ BufSize \in Int
      BY <2>4, RingAssumption DEF RingTyped
    <2>6. Ring' = Ring
      BY <2>1, <2>2 DEF Ring
    <2>7. CASE /\ call'.pc \in {"fp_first", "rta_first"}
               /\ call'.num = NumElements(Ring) /\ NumElements(Ring) # 0
      BY <2>5, <2>6, <2>7 DEF Counted, NumElements
    <2>8. CASE /\ call.pc \in Walking \ {"rta_head"}
               /\ call'.pc # "rta_last"
               /\ call'.pc = "rta_walk" => call.pc = "rta_last"
               /\ call'.num = call.num /\ call'.first = call.first
      BY <2>1, <2>2, <2>6, <2>8 DEF Counted, NumElements, Rings
    <2>9. CASE /\ call.pc = "rta_head" /\ call'.pc = "rta_last"
               /\ call'.num = call.num /\ call'.first = Ring.head
      <3>1. call.num \in Int \ {0}
        BY <2>9 DEF Counted, Walking
      <3>2. ASSUME call.core \notin torn
            PROVE  call.num >= NumElements(Ring) /\ NumElements(Ring) >= Ring.tail - Ring.head
        <4>1. call.num >= NumElements(Ring)
          BY <2>2, <2>3, <2>9, <3>2 DEF Counted, Walking
        <4>2. Ordered(Ring, reader[call.core], Doing(call.core), call.word)
          BY <2>2, <2>3, <3>2 DEF RingsOrdered, Ring
        <4>3. Doing(call.core) = "nothing"
          BY <2>9 DEF Doing, Holding, Clearing
        <4>4. Ring.window = BufSize - (Ring.tail - Ring.head) + 0
                              - (IF reader[call.core].pc \in {"window", "free"} THEN 1 ELSE 0)
          BY <4>2, <4>3 DEF Ordered, Clearing
        <4> QED
          BY <2>5, <4>1, <4>4 DEF NumElements
      <3>3. NumElements(Ring) \in Int
        BY <2>5 DEF NumElements
      <3>4. call.core \notin torn => call.num >= Ring.tail - Ring.head
        BY <2>5, <3>1, <3>2, <3>3
      <3> QED
        BY <2>1, <2>2, <2>5, <2>6, <2>9, <3>1, <3>2, <3>4 DEF Counted, NumElements, Rings
    <2> QED
      BY <2>2, <2>7, <2>8, <2>9
  <1>6. CASE \E core \in Cores, t \in Tasks : NewTask(core, t)
    <2>1. PICK core \in Cores, t \in Tasks, pc \in {"fp_count", "enq_lock"} :
            call' = Serve("new_task", core, pc, Scheduled(t), <<>>)
      BY <1>6 DEF NewTask
    <2>2. call'.pc = pc
      BY <2>1, ServeShape DEF Serving, Testing
    <2> QED
      BY <1>1, <2>2 DEF Walking
  <1>7. CASE \E core \in Cores, list \in Lists : UpdateRqBuffer(core, list)
    BY <1>1, <1>7, ServeShape DEF UpdateRqBuffer, Serving, Walking
  <1>8. CASE Cycles
    BY <1>0, <1>1, <1>8, CyclesStay DEF Walking
  <1>9. CASE Ends
    BY <1>1, <1>9, EndsQuiet DEF Idle, Walking
  <1>10. CASE Refill \/ RefillUnknown
    BY <1>0, <1>1, <1>10, RefillMoves DEF Walking
  <1>11. CASE SetSyncDs \/ UNCHANGED vars
    BY <1>2, <1>11 DEF SetSyncDs, vars
  <1> QED
    BY <1>3, <1>4, <1>5, <1>6, <1>7, <1>8, <1>9, <1>10, <1>11, Kinds

LEMMA Counting == Spec => []Counted
  <1>1. Init => Counted
    BY DEF Init, Idle, Counted, Walking
  <1>2. IInv /\ TypedInv /\ RingsOrdered /\ Counted /\ [Next]_vars => Counted'
    BY CountedStep
  <1> QED
    BY <1>1, <1>2, Recording, Typing, RingOrder, PTL DEF Spec

\* All that holds between any two steps.
ReadInv == IInv /\ TypedInv /\ RingsOrdered /\ Counted

LEMMA Reads == Spec => []ReadInv
  BY Recording, Typing, RingOrder, Counting, PTL DEF ReadInv

(* What a test reads as long as the ring has not moved, and was last       *)
(* initialised with no deq inside: the records of the queue, and RTA one   *)
(* after them, and the last of the queue once more.                        *)
LEMMA TestedQueue ==
  ASSUME ReadInv, At("fp_walk") \/ At("rta_walk"), call.core \notin torn, ~Moved
  PROVE  LET q == Queue(Ring)
             n == call.num
             first == IF call.pc = "fp_walk" THEN Ring.head ELSE call.first
         IN  /\ n \in Nat \ {0}
             /\ first = Ring.head
             /\ q = [k \in 1 .. n |-> q[k]]
             /\ \A k \in 1 .. n : Written(q[k]) /\ Walk(first, n + 1)[k] = q[k]
             /\ Walk(first, n) = q
             /\ LastSlot = q[n]
             /\ Written(call.task)
  <1> DEFINE r == Ring
             n == call.num
             q == Queue(r)
             first == IF call.pc = "fp_walk" THEN Ring.head ELSE call.first
  <1>1. call.pc \in Walking /\ call.core \in attached /\ up
    BY DEF At, Walking
  <1>2. call.core \in Rings
    <2>1. made \in 1 .. NumRings /\ call.core \in 0 .. made - 1
      BY <1>1 DEF ReadInv, IInv, CountsTyped
    <2> QED
      BY <2>1, RingAssumption DEF Rings
  <1> DEFINE c == reader[call.core]
  <1>3. /\ Formed(r) /\ RingTyped(r, c) /\ Ordered(r, c, Doing(call.core), call.word)
    BY <1>1, <1>2 DEF ReadInv, IInv, TypedInv, RingsFormed, RingsTyped, RingsOrdered, Ring
  <1>4. Doing(call.core) = "nothing"
    BY <1>1 DEF Doing, Walking, Holding, Clearing
  <1>5. c.pc \notin {"window", "free"} /\ n = NumElements(r)
    BY DEF Moved, Taking
  <1>6. /\ r.head \in 0 .. BufSize /\ r.tail \in 0 .. Mapped /\ Mapped \in Nat /\ BufSize \in Nat
        /\ \A k \in 0 .. Mapped - 1 : k < r.tail => Written(r.buf[k])
    BY <1>3, RingAssumption DEF RingTyped
  <1>7. r.head <= r.tail /\ r.window = BufSize - (r.tail - r.head)
    BY <1>3, <1>4, <1>5, <1>6 DEF Ordered, Holding, Clearing
  <1>8. n = r.tail - r.head
    BY <1>5, <1>6, <1>7 DEF NumElements
  <1>9. n \in Nat \ {0}
    BY <1>1, <1>6, <1>7, <1>8 DEF ReadInv, Counted
  <1>10. first = r.head
    <2>1. CASE call.pc = "rta_walk"
      <3>1. call.first \in Int /\ call.first <= r.head /\ n >= r.tail - call.first
        BY <1>1, <1>2, <2>1 DEF ReadInv, Counted
      <3> QED
        BY <1>6, <1>8, <2>1, <3>1
    <2> QED
      BY <2>1 DEF At
  <1>11. DOMAIN r.buf = 0 .. Mapped - 1
    BY <1>3 DEF Formed
  <1>12. q = [k \in 1 .. n |-> r.buf[r.head + k - 1]]
    BY <1>5 DEF Queue
  <1> HIDE DEF first
  <1>13. \A k \in 1 .. n : Written(q[k]) /\ Walk(first, n + 1)[k] = q[k]
    <2> SUFFICES ASSUME NEW k \in 1 .. n
                 PROVE  Written(q[k]) /\ Walk(first, n + 1)[k] = q[k]
      OBVIOUS
    <2>1. r.head + k - 1 \in 0 .. Mapped - 1 /\ r.head + k - 1 < r.tail
      BY <1>6, <1>8, <1>9
    <2>2. Written(r.buf[r.head + k - 1])
      BY <1>6, <2>1
    <2>3. k \in 1 .. n + 1
      BY <1>9
    <2>4. Walk(first, n + 1)[k] = Slot(r.head + k - 1)
      BY <1>10, <2>3 DEF Walk
    <2> QED
      BY <1>11, <1>12, <2>1, <2>2, <2>4 DEF Slot
  <1>14. LastSlot = q[n]
    <2>1. r.tail - 1 \in 0 .. Mapped - 1 /\ r.head + n - 1 = r.tail - 1 /\ n \in 1 .. n
      BY <1>6, <1>8, <1>9
    <2> QED
      BY <1>11, <1>12, <2>1 DEF LastSlot, Slot
  <1>15. Written(call.task)
    BY <1>1 DEF ReadInv, TypedInv, CallWritten, Serving, Testing
  <1>16. Walk(first, n) = q
    <2>1. ASSUME NEW k \in 1 .. n PROVE Slot(first + k - 1) = r.buf[r.head + k - 1]
      <3>1. r.head + k - 1 \in 0 .. Mapped - 1
        BY <1>6, <1>8, <1>9
      <3> QED
        BY <1>10, <1>11, <3>1 DEF Slot
    <2> QED
      BY <1>12, <2>1 DEF Walk
  <1> HIDE DEF q, n, r
  <1>17. q = [k \in 1 .. n |-> q[k]]
    BY <1>12
  <1> QED
    BY <1>9, <1>10, <1>13, <1>14, <1>15, <1>16, <1>17 DEF q, n, r, first

(* fp_sufficient_test and RTA read nothing but the queue they counted, if  *)
(* that has not moved by the time they walk, and the ring was not last     *)
(* initialised in the middle of a deq.                                     *)
THEOREM WalksAreSafe == Spec => []WalkSafe
  <1>1. ReadInv => WalkSafe
    <2> DEFINE first == IF call.pc = "fp_walk" THEN Ring.head ELSE call.first
               n == call.num
               q == Queue(Ring)
    <2> SUFFICES ASSUME ReadInv, At("fp_walk") \/ At("rta_walk"), call.core \notin torn, ~Moved
                 PROVE  ~Strays(first, n)
      BY DEF WalkSafe
    <2>1. /\ n \in Nat \ {0} /\ q = [k \in 1 .. n |-> q[k]]
          /\ \A k \in 1 .. n : Written(q[k])
          /\ Walk(first, n) = q
      BY TestedQueue
    <2> HIDE DEF first, n, q
    <2>2. Blank \notin Range(q)
      BY <2>1 DEF Range, Written
    <2> QED
      BY <2>1, <2>2 DEF Strays
  <1> QED
    BY <1>1, Reads, PTL

(* RTA refuses no task that fits its run queue.                            *)
THEOREM RefusalIsJustified == Spec => []RefusalJustified
  <1>1. ReadInv => RefusalJustified
    <2> SUFFICES ASSUME ReadInv, Testable("rta_walk"),
                        Schedulable(Placed(call.task, Queue(Ring)))
                 PROVE  RtaAccepts
      BY DEF RefusalJustified
    <2> DEFINE q == Queue(Ring)
               n == call.num
               t == call.task
               walk == Walk(call.first, n + 1)
               X == {x \in Range(q) \cup {t} : Timed(x)}
               Y == Range(walk)
    <2>1. /\ n \in Nat \ {0}
          /\ q = [k \in 1 .. n |-> q[k]]
          /\ \A k \in 1 .. n : Timed(q[k]) /\ walk[k] = q[k]
          /\ LastSlot = q[n]
          /\ t \in X
      BY TestedQueue DEF Testable, At, Written
    <2>2. walk = [k \in 1 .. n + 1 |-> walk[k]]
      BY DEF Walk
    <2>3. Sorted(q) /\ Schedulable(Placed(t, q))
      BY DEF Testable
    <2> HIDE DEF q, n, t, walk
    <2>4. \A x \in X : Timed(x)
      OBVIOUS
    <2>5. q \in [1 .. n -> X]
      <3>1. \A k \in 1 .. n : q[k] \in X
        BY <2>1 DEF Range
      <3> QED
        BY <2>1, <3>1
    <2>6. q \in Seq(X) /\ Len(q) = n /\ q # <<>>
      <3>1. n \in Nat
        BY <2>1
      <3> HIDE DEF X
      <3>2. q \in Seq(X) /\ Len(q) = n
        BY <2>5, <3>1, SeqDef, LenProperties
      <3> QED
        BY <2>1, <3>2
    <2>7. walk \in [1 .. n + 1 -> Y]
      BY <2>2 DEF Range
    <2>8. walk \in Seq(Y) /\ Len(walk) = n + 1
      BY <2>1, <2>7, SeqDef, LenProperties
    <2> HIDE DEF X, Y
    <2>9. RTA(t, walk, q[n])
      BY <2>1, <2>3, <2>4, <2>6, <2>8, FittingIsAccepted
    <2> QED
      BY <2>1, <2>9 DEF RtaAccepts, t, walk, n
  <1> QED
    BY <1>1, Reads, PTL

(* A task of the lowest priority that RTA accepts meets its deadline with  *)
(* all of the run queue before it.                                         *)
THEOREM LowestIsExact == Spec => []LowestExact
  <1>1. ReadInv => LowestExact
    <2> SUFFICES ASSUME ReadInv, Testable("rta_walk"),
                        call.task.prio < LastSlot.prio, RtaAccepts
                 PROVE  MeetsDeadline(call.task, Queue(Ring))
      BY DEF LowestExact
    <2> DEFINE q == Queue(Ring)
               n == call.num
               t == call.task
               walk == Walk(call.first, n + 1)
               X == {x \in Range(q) \cup {t} : Timed(x)}
               Y == Range(walk)
    <2>1. /\ n \in Nat \ {0}
          /\ q = [k \in 1 .. n |-> q[k]]
          /\ \A k \in 1 .. n : Timed(q[k]) /\ walk[k] = q[k]
          /\ t \in X
      BY TestedQueue DEF Testable, At, Written
    <2>2. walk = [k \in 1 .. n + 1 |-> walk[k]]
      BY DEF Walk
    <2>3. t.prio < LastSlot.prio /\ RTA(t, walk, LastSlot)
      BY DEF RtaAccepts
    <2> HIDE DEF q, n, t, walk
    <2>4. \A k \in 1 .. n : q[k] \in X
      BY <2>1 DEF Range
    <2>5. q \in Seq(X) /\ SubSeq(walk, 1, Len(walk) - 1) = q /\ Len(walk) - 1 # 0
      <3>1. q \in [1 .. n -> X] /\ walk \in [1 .. n + 1 -> Y]
        BY <2>1, <2>2, <2>4 DEF Range
      <3> HIDE DEF X, Y
      <3>2. q \in Seq(X) /\ Len(q) = n
        BY <2>1, <3>1, SeqDef, LenProperties
      <3>3. walk \in Seq(Y) /\ Len(walk) = n + 1
        BY <2>1, <3>1, SeqDef, LenProperties
      <3> DEFINE s == SubSeq(walk, 1, n)
      <3>4. s \in Seq(Y) /\ Len(s) = n /\ \A k \in 1 .. n : s[k] = walk[k]
        BY <2>1, <3>3
      <3> HIDE DEF s
      <3>5. s = q
        BY <2>1, <3>2, <3>4, SeqEqual
      <3> QED
        BY <2>1, <3>2, <3>3, <3>5 DEF s
    <2>6. ResponseTimeMet(t, q)
      BY <2>3, <2>5 DEF RTA
    <2>7. \A x \in X : Timed(x)
      OBVIOUS
    <2> HIDE DEF X
    <2>8. MeetsDeadline(t, q)
      BY <2>1, <2>5, <2>6, <2>7, ResponseTimeExact
    <2> QED
      BY <2>8 DEF t, q
  <1> QED
    BY <1>1, Reads, PTL

(* The sums of the sufficient test are exact for the tasks of the loader.  *)
LEMMA LoadedWhole ==
  ASSUME NEW t, Timed(t), Loaded(t)
  PROVE  Whole(t)
  <1> DEFINE T == t.inter_arrival
             c == t.wcet
             k == Hyper \div T
  <1>1. T \in Nat \ {0} /\ c \in Nat /\ Hyper \in Nat /\ Hyper % T = 0
    BY HyperAssumption, HyperMultiple DEF Timed, Loaded
  <1>2. k \in Nat /\ Hyper = T * k
    <2> HIDE DEF T
    <2> QED
      BY <1>1, Z3
  <1> HIDE DEF k, T, c
  <1>3. (c * Hyper) \div T = c * k
    <2>1. c * Hyper = T * (c * k) /\ c * k \in Nat /\ c * Hyper \in Nat
      BY <1>1, <1>2, Z3
    <2> DEFINE y == c * Hyper
               z == c * k
    <2>2. y \in Nat /\ z \in Nat /\ T * z <= y /\ y < T * z + T
      <3> HIDE DEF z
      <3>1. T * z \in Int
        BY <1>1, <2>1, Z3 DEF z
      <3> HIDE DEF y
      <3> QED
        BY <1>1, <2>1, <3>1 DEF y, z
    <2> HIDE DEF y, z
    <2>3. y \div T = z
      BY <1>1, <2>2, QuotientBetween
    <2> QED
      BY <2>3 DEF y, z
  <1>4. (c * k) * T = c * (T * k)
    BY <1>1, <1>2, Z3
  <1> QED
    BY <1>2, <1>3, <1>4 DEF Whole, Utilization, T, c

(* A task the sufficient test accepts fits: all its jobs and those of the  *)
(* run queue meet their deadlines, however late these are, as long as      *)
(* sum_util has not passed 1; beyond that, if no deadline is later than    *)
(* the next arrival.                                                       *)
THEOREM SufficientIsSound == Spec => []AcceptanceMeetsDeadlines
  <1>1. ReadInv => AcceptanceMeetsDeadlines
    <2> DEFINE q == Queue(Ring)
               n == call.num
               t == call.task
               X == Range(q) \cup {t}
    <2> SUFFICES ASSUME ReadInv, Testable("fp_walk"), FpAccepts,
                        \/ FpSums(t, q).util <= Hyper
                        \/ \A x \in Range(Append(q, t)) : x.deadline <= x.inter_arrival
                 PROVE  AlwaysSchedulable(Placed(t, q))
      BY DEF AcceptanceMeetsDeadlines
    <2>1. /\ n \in Nat \ {0}
          /\ q = [k \in 1 .. n |-> q[k]]
          /\ \A k \in 1 .. n : Written(q[k])
          /\ Walk(Ring.head, n) = q
          /\ Written(t)
      BY TestedQueue DEF Testable, At
    <2>2. Sorted(q) /\ FpSufficientTest(t, q)
      BY <2>1 DEF Testable, FpAccepts
    <2> HIDE DEF q, n, t
    <2>3. t \in X /\ \A k \in 1 .. n : q[k] \in X
      BY <2>1 DEF Range
    <2>4. \A x \in X : Timed(x) /\ Whole(x)
      <3>1. \A x \in X : Written(x)
        BY <2>1 DEF Range
      <3> QED
        BY <3>1, LoadedWhole DEF Written
    <2>5. q \in [1 .. n -> X]
      BY <2>1, <2>3
    <2>6. q \in Seq(X) /\ Len(q) = n /\ q # <<>>
      <3>1. n \in Nat
        BY <2>1
      <3> HIDE DEF X
      <3>2. q \in Seq(X) /\ Len(q) = n
        BY <2>5, <3>1, SeqDef, LenProperties
      <3> QED
        BY <2>1, <3>2
    <2>7. X = Range(Append(q, t))
      <3> DEFINE more == Append(q, t)
      <3>1. /\ DOMAIN more = 1 .. n + 1 /\ more[n + 1] = t
            /\ \A k \in 1 .. n : more[k] = q[k]
        <4> HIDE DEF X
        <4> QED
          BY <2>1, <2>3, <2>6
      <3>2. DOMAIN q = 1 .. n /\ n \in Nat
        BY <2>1
      <3> HIDE DEF more
      <3>3. \A x \in X : \E k \in 1 .. n + 1 : more[k] = x
        BY <3>1, <3>2 DEF Range
      <3>4. \A k \in 1 .. n + 1 : more[k] \in X
        <4> SUFFICES ASSUME NEW k \in 1 .. n + 1 PROVE more[k] \in X
          OBVIOUS
        <4>1. k \in 1 .. n \/ k = n + 1
          BY <3>2
        <4> HIDE DEF X
        <4> QED
          BY <2>3, <3>1, <4>1
      <3> HIDE DEF X
      <3> QED
        BY <3>1, <3>3, <3>4 DEF Range, more
    <2>8. \/ FpSums(t, q).util <= Hyper
          \/ \A x \in X : x.deadline <= x.inter_arrival
      BY <2>7 DEF q, t
    <2> HIDE DEF X
    <2>9. AlwaysSchedulable(Placed(t, q))
      BY <2>2, <2>3, <2>4, <2>6, <2>8, AcceptedFits
    <2> QED
      BY <2>9 DEF t, q
  <1> QED
    BY <1>1, Reads, PTL

=============================================================================
