------------------------------- MODULE RqBuffer -------------------------------
(***************************************************************************)
(* The run-queue ring buffer Rq_buffer<T> of                               *)
(* include/sched_controller/rq_buffer.h.  The four control words and the   *)
(* slots lie in a dataspace that several processes map; every process      *)
(* executes enq or deq on its own, one shared-memory access per step, and  *)
(* takes the lock word with one compare-and-exchange that is never retried.*)
(*                                                                         *)
(* Memory is sequentially consistent here: a store is seen by all          *)
(* processes when it is executed.                                          *)
(***************************************************************************)
EXTENDS Integers, Sequences

CONSTANTS
  Producers,  \* processes that call enq (the scheduling controller)
  Consumers,  \* processes that call deq (whoever executes the run queue)
  Elements,   \* the Rq_task records that are enqueued
  None,       \* the null pointer, and a slot never written
  BufSize     \* _buf_size

ASSUME BufSizeAssumption == BufSize \in Nat \ {0}
ASSUME ActorsAssumption == Producers \cap Consumers = {}

VARIABLES
  lock, head, tail, window, buf,  \* the shared dataspace
  pc,      \* pc[p]: the statement process p executes next
  arg,     \* arg[p]: the argument t of p's enq
  ptr,     \* ptr[c]: the index of the slot that c's *t points to, or None
  res,     \* res[p]: the code p's last call returned
  taken    \* history: taken[c] is what the slot held when c dequeued it

shared == <<lock, head, tail, window, buf>>
vars == <<lock, head, tail, window, buf, pc, arg, ptr, res, taken>>

Procs == Producers \cup Consumers
Slots == 0 .. BufSize - 1

Init ==
  /\ lock = FALSE
  /\ head = 0
  /\ tail = 0
  /\ window = BufSize
  /\ buf = [i \in Slots |-> None]
  /\ pc = [p \in Procs |-> "idle"]
  /\ arg = [p \in Producers |-> None]
  /\ ptr = [c \in Consumers |-> None]
  /\ res = [p \in Procs |-> 0]
  /\ taken = [c \in Consumers |-> None]

Goto(p, from, to) ==
  /\ pc[p] = from
  /\ pc' = [pc EXCEPT ![p] = to]

Code(p, code) == res' = [res EXCEPT ![p] = code]

-----------------------------------------------------------------------------
(* int enq(T t) *)

EnqCall(p, t) ==
  /\ Goto(p, "idle", "enq_lock")
  /\ arg' = [arg EXCEPT ![p] = t]
  /\ UNCHANGED <<shared, ptr, res, taken>>

\* Deviation: the lock word is set without comparing it first.
EnqLockBlindly(p) ==
  /\ Goto(p, "enq_lock", "enq_check")
  /\ lock' = TRUE
  /\ UNCHANGED <<head, tail, window, buf, arg, ptr, res, taken>>

EnqLock(p) ==   \* cmpxchg(_lock, false, true) succeeds
  /\ ~lock
  /\ Goto(p, "enq_lock", "enq_check")
  /\ lock' = TRUE
  /\ UNCHANGED <<head, tail, window, buf, arg, ptr, res, taken>>

EnqBusy(p) ==
  /\ lock
  /\ Goto(p, "enq_lock", "idle")
  /\ Code(p, 2)
  /\ UNCHANGED <<shared, arg, ptr, taken>>

EnqFull(p) ==
  /\ window < 1
  /\ Goto(p, "enq_check", "refused")
  /\ UNCHANGED <<shared, arg, ptr, res, taken>>

\* Deviation: the window is compared with 0, so a full buffer is written to.
EnqStoreFull(p) ==
  /\ ~(window < 0)
  /\ Goto(p, "enq_check", "enq_tail")
  /\ buf' = [buf EXCEPT ![tail] = arg[p]]
  /\ UNCHANGED <<lock, head, tail, window, arg, ptr, res, taken>>

EnqStore(p) ==  \* the else branch: _buf[*_tail] = t
  /\ ~(window < 1)
  /\ Goto(p, "enq_check", "enq_tail")
  /\ buf' = [buf EXCEPT ![tail] = arg[p]]
  /\ UNCHANGED <<lock, head, tail, window, arg, ptr, res, taken>>

EnqTail(p) ==
  /\ Goto(p, "enq_tail", "enq_wrap")
  /\ tail' = tail + 1
  /\ UNCHANGED <<lock, head, window, buf, arg, ptr, res, taken>>

\* Deviation: the tail is brought back one slot late.
EnqWrapLate(p) ==
  /\ Goto(p, "enq_wrap", "enq_window")
  /\ tail' = IF tail > BufSize THEN 0 ELSE tail
  /\ UNCHANGED <<lock, head, window, buf, arg, ptr, res, taken>>

EnqWrap(p) ==
  /\ Goto(p, "enq_wrap", "enq_window")
  /\ tail' = IF tail >= BufSize THEN 0 ELSE tail
  /\ UNCHANGED <<lock, head, window, buf, arg, ptr, res, taken>>

EnqWindow(p) ==
  /\ Goto(p, "enq_window", "done")
  /\ window' = window - 1
  /\ UNCHANGED <<lock, head, tail, buf, arg, ptr, res, taken>>

-----------------------------------------------------------------------------
(* int deq(T **t) *)

DeqCall(c) ==
  /\ Goto(c, "idle", "deq_lock")
  /\ UNCHANGED <<shared, arg, ptr, res, taken>>

DeqLock(c) ==
  /\ ~lock
  /\ Goto(c, "deq_lock", "deq_check")
  /\ lock' = TRUE
  /\ UNCHANGED <<head, tail, window, buf, arg, ptr, res, taken>>

DeqBusy(c) ==
  /\ lock
  /\ Goto(c, "deq_lock", "idle")
  /\ Code(c, 2)
  /\ UNCHANGED <<shared, arg, ptr, taken>>

DeqEmpty(c) ==
  /\ window >= BufSize
  /\ Goto(c, "deq_check", "refused")
  /\ ptr' = [ptr EXCEPT ![c] = None]
  /\ UNCHANGED <<shared, arg, res, taken>>

\* Deviation: the pointer is taken after the head has moved.
DeqPtrNext(c) ==
  /\ ~(window >= BufSize)
  /\ Goto(c, "deq_check", "deq_head")
  /\ ptr' = [ptr EXCEPT ![c] = (head + 1) % BufSize]
  /\ UNCHANGED <<shared, arg, res, taken>>

DeqPtr(c) ==    \* the else branch: *t = &_buf[*_head]
  /\ ~(window >= BufSize)
  /\ Goto(c, "deq_check", "deq_head")
  /\ ptr' = [ptr EXCEPT ![c] = head]
  /\ UNCHANGED <<shared, arg, res, taken>>

DeqHead(c) ==
  /\ Goto(c, "deq_head", "deq_wrap")
  /\ head' = head + 1
  /\ UNCHANGED <<lock, tail, window, buf, arg, ptr, res, taken>>

\* Deviation: the head is brought back one slot late.
DeqWrapLate(c) ==
  /\ Goto(c, "deq_wrap", "deq_window")
  /\ head' = IF head > BufSize THEN 0 ELSE head
  /\ UNCHANGED <<lock, tail, window, buf, arg, ptr, res, taken>>

DeqWrap(c) ==
  /\ Goto(c, "deq_wrap", "deq_window")
  /\ head' = IF head >= BufSize THEN 0 ELSE head
  /\ UNCHANGED <<lock, tail, window, buf, arg, ptr, res, taken>>

DeqWindow(c) ==
  /\ Goto(c, "deq_window", "done")
  /\ window' = window + 1
  /\ taken' = [taken EXCEPT ![c] = buf[ptr[c]]]
  /\ UNCHANGED <<lock, head, tail, buf, arg, ptr, res>>

-----------------------------------------------------------------------------
(* Every path that took the lock ends with *_lock = false and the return.  *)

ReturnDone(p) ==
  /\ Goto(p, "done", IF p \in Consumers THEN "use" ELSE "idle")
  /\ lock' = FALSE
  /\ Code(p, 0)
  /\ UNCHANGED <<head, tail, window, buf, arg, ptr, taken>>

\* Deviation: the early return leaves the lock taken.
ReturnRefusedLocked(p) ==
  /\ Goto(p, "refused", "idle")
  /\ Code(p, 1)
  /\ UNCHANGED <<shared, arg, ptr, taken>>

ReturnRefused(p) ==   \* "buffer full" or "buffer empty"
  /\ Goto(p, "refused", "idle")
  /\ lock' = FALSE
  /\ Code(p, 1)
  /\ UNCHANGED <<head, tail, window, buf, arg, ptr, taken>>

Return(p) == ReturnDone(p) \/ ReturnRefused(p)

\* A successful deq hands out a pointer into the dataspace, not a copy.  The
\* consumer, a program outside the repository, is done with it some time later.
Forget(c) ==
  /\ Goto(c, "use", "idle")
  /\ UNCHANGED <<shared, arg, ptr, res, taken>>

EnqStep(p) ==
  \/ EnqLock(p) \/ EnqBusy(p) \/ EnqFull(p) \/ EnqStore(p)
  \/ EnqTail(p) \/ EnqWrap(p) \/ EnqWindow(p)

DeqStep(c) ==
  \/ DeqLock(c) \/ DeqBusy(c) \/ DeqEmpty(c) \/ DeqPtr(c)
  \/ DeqHead(c) \/ DeqWrap(c) \/ DeqWindow(c) \/ Forget(c)

Next ==
  \/ \E p \in Producers : EnqStep(p) \/ \E t \in Elements : EnqCall(p, t)
  \/ \E c \in Consumers : DeqStep(c) \/ DeqCall(c)
  \/ \E p \in Procs : Return(p)

Spec == Init /\ [][Next]_vars

\* A process inside a call keeps running: no call waits for another process,
\* and no process is assumed to start a call.
Fairness ==
  /\ \A p \in Producers : WF_vars(EnqStep(p))
  /\ \A c \in Consumers : WF_vars(DeqStep(c))
  /\ \A p \in Procs : WF_vars(Return(p))

FairSpec == Spec /\ Fairness

-----------------------------------------------------------------------------
(* Properties *)

InsideLock == {"enq_check", "enq_tail", "enq_wrap", "enq_window",
               "deq_check", "deq_head", "deq_wrap", "deq_window",
               "done", "refused"}

Holders == {p \in Procs : pc[p] \in InsideLock}

TypeOK ==
  /\ lock \in BOOLEAN
  /\ head \in 0 .. BufSize
  /\ tail \in 0 .. BufSize
  /\ window \in 0 .. BufSize
  /\ buf \in [Slots -> Elements \cup {None}]
  /\ pc \in [Procs -> InsideLock \cup {"idle", "enq_lock", "deq_lock", "use"}]
  /\ arg \in [Producers -> Elements \cup {None}]
  /\ ptr \in [Consumers -> Slots \cup {None}]
  /\ res \in [Procs -> 0 .. 2]
  /\ taken \in [Consumers -> Elements \cup {None}]

(* The lock word is set exactly while one process is between its           *)
(* compare-and-exchange and its release, and never more than one is: the   *)
(* buffer is only changed under mutual exclusion.                          *)
MutualExclusion ==
  /\ lock <=> Holders # {}
  /\ \A p, q \in Holders : p = q

\* An index one lap on at most, brought back into the array.
Wrapped(i) == IF i < BufSize THEN i ELSE i - BufSize

\* The head as it was before the dequeue in progress, if there is one.
DequeuedHead ==
  IF \E c \in Consumers : pc[c] \in {"deq_wrap", "deq_window"}
  THEN ptr[CHOOSE c \in Consumers : pc[c] \in {"deq_wrap", "deq_window"}]
  ELSE head

\* 1 while a slot is stored and passed by the tail but still in the window.
Stored ==
  IF \E p \in Producers : pc[p] \in {"enq_wrap", "enq_window"} THEN 1 ELSE 0

(* The two positions and the window always tell the same story: the tail   *)
(* is as many slots behind the head as there are elements, across          *)
(* wrap-around and between the separate stores of both operations, so no   *)
(* slot is handed out twice and none is lost.                              *)
WindowAgrees ==
  /\ window >= Stored
  /\ Wrapped(tail) = Wrapped(DequeuedHead + BufSize - window + Stored)

\* The slots between the head and the tail, in or out of a running call.
Queued(i) == \E k \in 0 .. BufSize - window + Stored - 1 :
               i = Wrapped(DequeuedHead + k)

(* No step of any process changes a slot whose element is still queued:    *)
(* the tail never runs over the head, however enq and deq interleave.      *)
QueuedKept == [][\A i \in Slots : Queued(i) => buf'[i] = buf[i]]_vars

(* The lock does not stay taken: whoever holds it releases it, so a caller *)
(* told "locked" that keeps retrying does not retry against a dead lock.   *)
LockReleased == lock ~> ~lock

-----------------------------------------------------------------------------
(* The ring implements the bounded first-in first-out queue.  An element   *)
(* counts as enqueued or dequeued when the window is changed.              *)

Contents == [k \in 1 .. BufSize - window |->
               buf[Wrapped(DequeuedHead + k - 1)]]

Phase(p) ==
  CASE pc[p] \in {"idle", "use"} -> "idle"
    [] pc[p] = "done" -> "applied"
    [] OTHER -> "called"

Fifo == INSTANCE BoundedFifo WITH
  Capacity <- BufSize,
  queue <- Contents,
  phase <- [p \in Procs |-> Phase(p)],
  got <- taken

(* Every behaviour of the ring, with any interleaving of the processes'    *)
(* memory accesses, is one of the bounded queue: elements leave in the     *)
(* order they came, none is lost or doubled, "full" and "empty" are only   *)
(* returned when the queue is, "locked" only while another call runs.      *)
ImplementsFifo == Fifo!Spec
==============================================================================
