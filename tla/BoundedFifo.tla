----------------------------- MODULE BoundedFifo -----------------------------
(***************************************************************************)
(* What a run queue promises its users: a bounded first-in first-out queue *)
(* on which every call takes effect at one instant between its call and    *)
(* its return, or is refused with a return code that tells why.            *)
(*                                                                         *)
(* Return codes are those of Rq_buffer<T>::enq and deq:                    *)
(*   0 done, 1 buffer full (enq) or empty (deq), 2 buffer locked.          *)
(***************************************************************************)
EXTENDS Integers, Sequences

CONSTANTS
  Producers,  \* processes that call enq
  Consumers,  \* processes that call deq
  Elements,   \* the tasks a run queue can hold
  None,       \* "no element": the null pointer
  Capacity    \* how many elements fit

VARIABLES
  queue,      \* the elements, oldest first
  phase,      \* phase[p]: "idle", "called" or "applied"
  arg,        \* arg[p]: the element producer p last passed to enq
  res,        \* res[p]: return code of p's last completed call
  got         \* got[c]: the element consumer c last took off the queue

vars == <<queue, phase, arg, res, got>>

Procs == Producers \cup Consumers

Init ==
  /\ queue = <<>>
  /\ phase = [p \in Procs |-> "idle"]
  /\ arg = [p \in Producers |-> None]
  /\ res = [p \in Procs |-> 0]
  /\ got = [c \in Consumers |-> None]

Move(p, from, to) ==
  /\ phase[p] = from
  /\ phase' = [phase EXCEPT ![p] = to]

Return(p, code) == res' = [res EXCEPT ![p] = code]

CallEnq(p, e) ==
  /\ Move(p, "idle", "called")
  /\ arg' = [arg EXCEPT ![p] = e]
  /\ UNCHANGED <<queue, res, got>>

CallDeq(c) ==
  /\ Move(c, "idle", "called")
  /\ UNCHANGED <<queue, arg, res, got>>

ApplyEnq(p) ==
  /\ Move(p, "called", "applied")
  /\ Len(queue) < Capacity
  /\ queue' = Append(queue, arg[p])
  /\ UNCHANGED <<arg, res, got>>

ApplyDeq(c) ==
  /\ Move(c, "called", "applied")
  /\ queue # <<>>
  /\ queue' = Tail(queue)
  /\ got' = [got EXCEPT ![c] = Head(queue)]
  /\ UNCHANGED <<arg, res>>

Done(p) ==
  /\ Move(p, "applied", "idle")
  /\ Return(p, 0)
  /\ UNCHANGED <<queue, arg, got>>

RefuseEnq(p) ==
  /\ Move(p, "called", "idle")
  /\ Len(queue) = Capacity
  /\ Return(p, 1)
  /\ UNCHANGED <<queue, arg, got>>

RefuseDeq(c) ==
  /\ Move(c, "called", "idle")
  /\ queue = <<>>
  /\ Return(c, 1)
  /\ UNCHANGED <<queue, arg, got>>

\* "Locked" may be answered only while another process is inside a call.
Busy(p) ==
  /\ Move(p, "called", "idle")
  /\ \E q \in Procs \ {p} : phase[q] # "idle"
  /\ Return(p, 2)
  /\ UNCHANGED <<queue, arg, got>>

Next ==
  \/ \E p \in Producers : \/ \E e \in Elements : CallEnq(p, e)
                          \/ ApplyEnq(p)
                          \/ RefuseEnq(p)
  \/ \E c \in Consumers : CallDeq(c) \/ ApplyDeq(c) \/ RefuseDeq(c)
  \/ \E p \in Procs : Done(p) \/ Busy(p)

Spec == Init /\ [][Next]_vars
==============================================================================
