---------------------------- MODULE RqBufferProofs ----------------------------
(***************************************************************************)
(* What is proved of the run-queue ring for every number of producers,     *)
(* consumers, elements and slots.  The properties do not follow from one   *)
(* another; they follow together from IInv, which ties the lock word and   *)
(* the three control words to the statement the lock's holder has reached. *)
(* The last part shows that the ring implements BoundedFifo.               *)
(***************************************************************************)
EXTENDS RqBuffer, SequenceTheorems, TLAPS

\* A producer executes enq only, a consumer deq only.
EnqPc == {"idle", "enq_lock", "enq_check", "enq_tail", "enq_wrap",
          "enq_window", "done", "refused"}
DeqPc == {"idle", "deq_lock", "deq_check", "deq_head", "deq_wrap",
          "deq_window", "done", "refused", "use"}

OwnCode ==
  /\ \A p \in Producers : pc[p] \in EnqPc
  /\ \A c \in Consumers : pc[c] \in DeqPc

\* Between these statements the control words are being changed.
Moving == {"enq_tail", "enq_wrap", "enq_window",
           "deq_head", "deq_wrap", "deq_window"}

\* Head h, tail t and window w describe one and the same queue.
Agree(h, t, w) ==
  /\ h \in Slots
  /\ t \in Slots
  /\ t = Wrapped(h + BufSize - w)

EnqMoves(p) ==
  /\ pc[p] = "enq_tail" => Agree(head, tail, window)
  /\ pc[p] = "enq_wrap" => tail \in 1 .. BufSize /\ Agree(head, tail - 1, window)
  /\ pc[p] = "enq_window" => Agree(head, tail, window - 1)
  /\ pc[p] \in Moving => /\ window >= 1
                         /\ buf[Wrapped(head + BufSize - window)] = arg[p]
  /\ pc[p] = "refused" => window < 1

DeqMoves(c) ==
  /\ pc[c] \in Moving => ptr[c] \in Slots /\ window < BufSize
  /\ pc[c] \in Moving => Agree(ptr[c], tail, window)
  /\ pc[c] = "deq_head" => head = ptr[c]
  /\ pc[c] = "deq_wrap" => head = ptr[c] + 1
  /\ pc[c] = "deq_window" => head = Wrapped(ptr[c] + 1)
  /\ pc[c] = "refused" => window >= BufSize

RingInv ==
  /\ \A p \in Producers : EnqMoves(p)
  /\ \A c \in Consumers : DeqMoves(c)
  /\ (\A p \in Procs : pc[p] \notin Moving) => Agree(head, tail, window)

IInv == TypeOK /\ MutualExclusion /\ OwnCode /\ RingInv

-----------------------------------------------------------------------------

LEMMA InitIInv == Init => IInv
  <1> SUFFICES ASSUME Init PROVE IInv
    OBVIOUS
  <1> USE BufSizeAssumption DEF Init
  <1>1. TypeOK
    <2>1. window \in 0 .. BufSize /\ head \in 0 .. BufSize /\ tail \in 0 .. BufSize
      OBVIOUS
    <2>2. buf \in [Slots -> Elements \cup {None}]
      OBVIOUS
    <2>3. pc \in [Procs -> InsideLock \cup {"idle", "enq_lock", "deq_lock", "use"}]
      OBVIOUS
    <2>4. /\ arg \in [Producers -> Elements \cup {None}]
          /\ ptr \in [Consumers -> Slots \cup {None}]
          /\ taken \in [Consumers -> Elements \cup {None}]
      OBVIOUS
    <2>5. res \in [Procs -> 0 .. 2]
      OBVIOUS
    <2> QED
      BY <2>1, <2>2, <2>3, <2>4, <2>5 DEF TypeOK
  <1>2. MutualExclusion
    BY DEF MutualExclusion, Holders, InsideLock
  <1>3. OwnCode
    BY DEF OwnCode, EnqPc, DeqPc, Procs
  <1>4. RingInv
    BY DEF RingInv, EnqMoves, DeqMoves, Agree, Wrapped, Slots, Moving, Procs
  <1> QED
    BY <1>1, <1>2, <1>3, <1>4 DEF IInv
(* One step keeps each part of the invariant. *)

LEMMA OwnCodeStep ==
  ASSUME TypeOK, OwnCode, [Next]_vars
  PROVE  OwnCode'
  <1> USE ActorsAssumption DEF TypeOK, OwnCode, EnqPc, DeqPc, Procs, Goto
  <1>1. ASSUME NEW p \in Producers, NEW t \in Elements, EnqCall(p, t) PROVE OwnCode'
    BY <1>1 DEF EnqCall
  <1>2. ASSUME NEW p \in Producers, EnqLock(p) PROVE OwnCode'
    BY <1>2 DEF EnqLock
  <1>3. ASSUME NEW p \in Producers, EnqBusy(p) PROVE OwnCode'
    BY <1>3 DEF EnqBusy
  <1>4. ASSUME NEW p \in Producers, EnqFull(p) PROVE OwnCode'
    BY <1>4 DEF EnqFull
  <1>5. ASSUME NEW p \in Producers, EnqStore(p) PROVE OwnCode'
    BY <1>5 DEF EnqStore
  <1>6. ASSUME NEW p \in Producers, EnqTail(p) PROVE OwnCode'
    BY <1>6 DEF EnqTail
  <1>7. ASSUME NEW p \in Producers, EnqWrap(p) PROVE OwnCode'
    BY <1>7 DEF EnqWrap
  <1>8. ASSUME NEW p \in Producers, EnqWindow(p) PROVE OwnCode'
    BY <1>8 DEF EnqWindow
  <1>9. ASSUME NEW c \in Consumers, DeqCall(c) PROVE OwnCode'
    BY <1>9 DEF DeqCall
  <1>10. ASSUME NEW c \in Consumers, DeqLock(c) PROVE OwnCode'
    BY <1>10 DEF DeqLock
  <1>11. ASSUME NEW c \in Consumers, DeqBusy(c) PROVE OwnCode'
    BY <1>11 DEF DeqBusy
  <1>12. ASSUME NEW c \in Consumers, DeqEmpty(c) PROVE OwnCode'
    BY <1>12 DEF DeqEmpty
  <1>13. ASSUME NEW c \in Consumers, DeqPtr(c) PROVE OwnCode'
    BY <1>13 DEF DeqPtr
  <1>14. ASSUME NEW c \in Consumers, DeqHead(c) PROVE OwnCode'
    BY <1>14 DEF DeqHead
  <1>15. ASSUME NEW c \in Consumers, DeqWrap(c) PROVE OwnCode'
    BY <1>15 DEF DeqWrap
  <1>16. ASSUME NEW c \in Consumers, DeqWindow(c) PROVE OwnCode'
    BY <1>16 DEF DeqWindow
  <1>17. ASSUME NEW c \in Consumers, Forget(c) PROVE OwnCode'
    BY <1>17 DEF Forget
  <1>18. ASSUME NEW p \in Procs, ReturnDone(p) PROVE OwnCode'
    BY <1>18 DEF ReturnDone
  <1>19. ASSUME NEW p \in Procs, ReturnRefused(p) PROVE OwnCode'
    BY <1>19 DEF ReturnRefused
  <1>20. CASE UNCHANGED vars
    BY <1>20 DEF vars
  <1> QED
    BY <1>1, <1>2, <1>3, <1>4, <1>5, <1>6, <1>7, <1>8, <1>9, <1>10, <1>11, <1>12,
       <1>13, <1>14, <1>15, <1>16, <1>17, <1>18, <1>19, <1>20
       DEF Next, EnqStep, DeqStep, Return

\* A step inside the lock, or outside it, leaves the holders as they are.
LEMMA StaysMutex ==
  ASSUME TypeOK, MutualExclusion, NEW p \in Procs, NEW x, lock' = lock,
         pc' = [pc EXCEPT ![p] = x], x \in InsideLock <=> pc[p] \in InsideLock
  PROVE  MutualExclusion'
  <1>1. Holders' = Holders
    BY DEF Holders, TypeOK
  <1> QED
    BY <1>1 DEF MutualExclusion

\* Taking the lock word makes the taker the only holder.
LEMMA EntersMutex ==
  ASSUME TypeOK, MutualExclusion, NEW p \in Procs, NEW x, ~lock, lock' = TRUE,
         pc' = [pc EXCEPT ![p] = x], x \in InsideLock
  PROVE  MutualExclusion'
  <1>1. Holders' = {p}
    BY DEF Holders, TypeOK, MutualExclusion
  <1> QED
    BY <1>1 DEF MutualExclusion

\* Releasing it leaves no holder.
LEMMA LeavesMutex ==
  ASSUME TypeOK, MutualExclusion, NEW p \in Procs, NEW x, lock' = FALSE,
         pc' = [pc EXCEPT ![p] = x], pc[p] \in InsideLock, x \notin InsideLock
  PROVE  MutualExclusion'
  <1>1. Holders = {p}
    BY DEF Holders, MutualExclusion
  <1>2. Holders' = {}
    BY <1>1 DEF Holders, TypeOK
  <1> QED
    BY <1>2 DEF MutualExclusion

LEMMA MutexStep ==
  ASSUME TypeOK, MutualExclusion, [Next]_vars
  PROVE  MutualExclusion'
  <1> USE DEF Goto, InsideLock, Procs
  <1>1. ASSUME NEW p \in Producers, NEW t \in Elements, EnqCall(p, t) PROVE MutualExclusion'
    BY <1>1, StaysMutex DEF EnqCall, shared
  <1>2. ASSUME NEW p \in Producers, EnqLock(p) PROVE MutualExclusion'
    BY <1>2, EntersMutex DEF EnqLock
  <1>3. ASSUME NEW p \in Producers, EnqBusy(p) PROVE MutualExclusion'
    BY <1>3, StaysMutex DEF EnqBusy, shared
  <1>4. ASSUME NEW p \in Producers, EnqFull(p) PROVE MutualExclusion'
    BY <1>4, StaysMutex DEF EnqFull, shared
  <1>5. ASSUME NEW p \in Producers, EnqStore(p) PROVE MutualExclusion'
    BY <1>5, StaysMutex DEF EnqStore
  <1>6. ASSUME NEW p \in Producers, EnqTail(p) PROVE MutualExclusion'
    BY <1>6, StaysMutex DEF EnqTail
  <1>7. ASSUME NEW p \in Producers, EnqWrap(p) PROVE MutualExclusion'
    BY <1>7, StaysMutex DEF EnqWrap
  <1>8. ASSUME NEW p \in Producers, EnqWindow(p) PROVE MutualExclusion'
    BY <1>8, StaysMutex DEF EnqWindow
  <1>9. ASSUME NEW c \in Consumers, DeqCall(c) PROVE MutualExclusion'
    BY <1>9, StaysMutex DEF DeqCall, shared
  <1>10. ASSUME NEW c \in Consumers, DeqLock(c) PROVE MutualExclusion'
    BY <1>10, EntersMutex DEF DeqLock
  <1>11. ASSUME NEW c \in Consumers, DeqBusy(c) PROVE MutualExclusion'
    BY <1>11, StaysMutex DEF DeqBusy, shared
  <1>12. ASSUME NEW c \in Consumers, DeqEmpty(c) PROVE MutualExclusion'
    BY <1>12, StaysMutex DEF DeqEmpty, shared
  <1>13. ASSUME NEW c \in Consumers, DeqPtr(c) PROVE MutualExclusion'
    BY <1>13, StaysMutex DEF DeqPtr, shared
  <1>14. ASSUME NEW c \in Consumers, DeqHead(c) PROVE MutualExclusion'
    BY <1>14, StaysMutex DEF DeqHead
  <1>15. ASSUME NEW c \in Consumers, DeqWrap(c) PROVE MutualExclusion'
    BY <1>15, StaysMutex DEF DeqWrap
  <1>16. ASSUME NEW c \in Consumers, DeqWindow(c) PROVE MutualExclusion'
    BY <1>16, StaysMutex DEF DeqWindow
  <1>17. ASSUME NEW c \in Consumers, Forget(c) PROVE MutualExclusion'
    BY <1>17, StaysMutex DEF Forget, shared
  <1>18. ASSUME NEW p \in Procs, ReturnDone(p) PROVE MutualExclusion'
    <2> DEFINE x == IF p \in Consumers THEN "use" ELSE "idle"
    <2>1. pc[p] = "done" /\ pc' = [pc EXCEPT ![p] = x] /\ lock' = FALSE
      BY <1>18 DEF ReturnDone
    <2>2. x \notin InsideLock
      OBVIOUS
    <2> HIDE DEF x
    <2> QED
      BY <2>1, <2>2, LeavesMutex
  <1>19. ASSUME NEW p \in Procs, ReturnRefused(p) PROVE MutualExclusion'
    BY <1>19, LeavesMutex DEF ReturnRefused
  <1>20. CASE UNCHANGED vars
    BY <1>20 DEF vars, shared, MutualExclusion, Holders
  <1> QED
    BY <1>1, <1>2, <1>3, <1>4, <1>5, <1>6, <1>7, <1>8, <1>9, <1>10, <1>11, <1>12,
       <1>13, <1>14, <1>15, <1>16, <1>17, <1>18, <1>19, <1>20
       DEF Next, EnqStep, DeqStep, Return

LEMMA TypeStep ==
  ASSUME IInv, [Next]_vars
  PROVE  TypeOK'
  <1> USE BufSizeAssumption
        DEF IInv, TypeOK, Slots, Procs, InsideLock, Goto, shared, RingInv, EnqMoves,
            DeqMoves, Moving, Agree, Wrapped
  <1>1. ASSUME NEW p \in Producers, NEW t \in Elements, EnqCall(p, t) PROVE TypeOK'
    BY <1>1 DEF EnqCall
  <1>2. ASSUME NEW p \in Producers, EnqLock(p) PROVE TypeOK'
    BY <1>2 DEF EnqLock
  <1>3. ASSUME NEW p \in Producers, EnqBusy(p) PROVE TypeOK'
    BY <1>3 DEF EnqBusy, Code
  <1>4. ASSUME NEW p \in Producers, EnqFull(p) PROVE TypeOK'
    BY <1>4 DEF EnqFull
  <1>5. ASSUME NEW p \in Producers, EnqStore(p) PROVE TypeOK'
    BY <1>5 DEF EnqStore
  <1>6. ASSUME NEW p \in Producers, EnqTail(p) PROVE TypeOK'
    BY <1>6 DEF EnqTail
  <1>7. ASSUME NEW p \in Producers, EnqWrap(p) PROVE TypeOK'
    BY <1>7 DEF EnqWrap
  <1>8. ASSUME NEW p \in Producers, EnqWindow(p) PROVE TypeOK'
    BY <1>8 DEF EnqWindow
  <1>9. ASSUME NEW c \in Consumers, DeqCall(c) PROVE TypeOK'
    BY <1>9 DEF DeqCall
  <1>10. ASSUME NEW c \in Consumers, DeqLock(c) PROVE TypeOK'
    BY <1>10 DEF DeqLock
  <1>11. ASSUME NEW c \in Consumers, DeqBusy(c) PROVE TypeOK'
    BY <1>11 DEF DeqBusy, Code
  <1>12. ASSUME NEW c \in Consumers, DeqEmpty(c) PROVE TypeOK'
    BY <1>12 DEF DeqEmpty
  <1>13. ASSUME NEW c \in Consumers, DeqPtr(c) PROVE TypeOK'
    <2>1. \A p \in Procs : pc[p] \notin Moving
      BY <1>13 DEF DeqPtr, MutualExclusion, Holders
    <2>2. head \in Slots
      BY <2>1
    <2> QED
      BY <1>13, <2>2 DEF DeqPtr
  <1>14. ASSUME NEW c \in Consumers, DeqHead(c) PROVE TypeOK'
    BY <1>14 DEF DeqHead
  <1>15. ASSUME NEW c \in Consumers, DeqWrap(c) PROVE TypeOK'
    BY <1>15 DEF DeqWrap
  <1>16. ASSUME NEW c \in Consumers, DeqWindow(c) PROVE TypeOK'
    BY <1>16 DEF DeqWindow
  <1>17. ASSUME NEW c \in Consumers, Forget(c) PROVE TypeOK'
    BY <1>17 DEF Forget
  <1>18. ASSUME NEW p \in Procs, ReturnDone(p) PROVE TypeOK'
    <2>1. pc' \in [Procs -> InsideLock \cup {"idle", "enq_lock", "deq_lock", "use"}]
      BY <1>18 DEF ReturnDone
    <2>2. res' \in [Procs -> 0 .. 2]
      BY <1>18 DEF ReturnDone, Code
    <2> QED
      BY <1>18, <2>1, <2>2 DEF ReturnDone
  <1>19. ASSUME NEW p \in Procs, ReturnRefused(p) PROVE TypeOK'
    <2>1. pc' \in [Procs -> InsideLock \cup {"idle", "enq_lock", "deq_lock", "use"}]
      BY <1>19 DEF ReturnRefused
    <2>2. res' \in [Procs -> 0 .. 2]
      BY <1>19 DEF ReturnRefused, Code
    <2> QED
      BY <1>19, <2>1, <2>2 DEF ReturnRefused
  <1>20. CASE UNCHANGED vars
    BY <1>20 DEF vars, shared
  <1> QED
    BY <1>1, <1>2, <1>3, <1>4, <1>5, <1>6, <1>7, <1>8, <1>9, <1>10, <1>11, <1>12,
       <1>13, <1>14, <1>15, <1>16, <1>17, <1>18, <1>19, <1>20
       DEF Next, EnqStep, DeqStep, Return

LEMMA RingStep ==
  ASSUME IInv, [Next]_vars
  PROVE  RingInv'
  <1> USE BufSizeAssumption
        DEF IInv, TypeOK, MutualExclusion, Holders, OwnCode, EnqPc, DeqPc, Slots,
            Procs, InsideLock, Goto, shared, RingInv, EnqMoves, DeqMoves, Moving,
            Agree, Wrapped
  <1>1. ASSUME NEW p \in Producers, NEW t \in Elements, EnqCall(p, t) PROVE RingInv'
    BY <1>1 DEF EnqCall
  <1>2. ASSUME NEW p \in Producers, EnqLock(p) PROVE RingInv'
    BY <1>2 DEF EnqLock
  <1>3. ASSUME NEW p \in Producers, EnqBusy(p) PROVE RingInv'
    BY <1>3 DEF EnqBusy
  <1>4. ASSUME NEW p \in Producers, EnqFull(p) PROVE RingInv'
    BY <1>4 DEF EnqFull
  <1>5. ASSUME NEW p \in Producers, EnqStore(p) PROVE RingInv'
    BY <1>5 DEF EnqStore
  <1>6. ASSUME NEW p \in Producers, EnqTail(p) PROVE RingInv'
    BY <1>6 DEF EnqTail
  <1>7. ASSUME NEW p \in Producers, EnqWrap(p) PROVE RingInv'
    BY <1>7 DEF EnqWrap
  <1>8. ASSUME NEW p \in Producers, EnqWindow(p) PROVE RingInv'
    BY <1>8 DEF EnqWindow
  <1>9. ASSUME NEW c \in Consumers, DeqCall(c) PROVE RingInv'
    BY <1>9 DEF DeqCall
  <1>10. ASSUME NEW c \in Consumers, DeqLock(c) PROVE RingInv'
    BY <1>10 DEF DeqLock
  <1>11. ASSUME NEW c \in Consumers, DeqBusy(c) PROVE RingInv'
    BY <1>11 DEF DeqBusy
  <1>12. ASSUME NEW c \in Consumers, DeqEmpty(c) PROVE RingInv'
    BY <1>12 DEF DeqEmpty
  <1>13. ASSUME NEW c \in Consumers, DeqPtr(c) PROVE RingInv'
    BY <1>13 DEF DeqPtr
  <1>14. ASSUME NEW c \in Consumers, DeqHead(c) PROVE RingInv'
    BY <1>14 DEF DeqHead
  <1>15. ASSUME NEW c \in Consumers, DeqWrap(c) PROVE RingInv'
    <2>1. /\ pc[c] = "deq_wrap" /\ ptr[c] \in Slots /\ head = ptr[c] + 1
          /\ window < BufSize /\ Agree(ptr[c], tail, window)
      BY <1>15 DEF DeqWrap
    <2>2. \A p \in Procs : p # c => pc[p] \notin Moving /\ pc'[p] = pc[p]
      BY <1>15 DEF DeqWrap
    <2>3. head' = Wrapped(ptr[c] + 1) /\ pc'[c] = "deq_window"
      BY <1>15, <2>1 DEF DeqWrap
    <2>4. \A p \in Producers : EnqMoves(p)'
      BY <2>2, <1>15, ActorsAssumption DEF DeqWrap
    <2>5. \A d \in Consumers : DeqMoves(d)'
      BY <2>1, <2>2, <2>3, <1>15 DEF DeqWrap
    <2> QED
      BY <2>3, <2>4, <2>5
  <1>16. ASSUME NEW c \in Consumers, DeqWindow(c) PROVE RingInv'
    BY <1>16 DEF DeqWindow
  <1>17. ASSUME NEW c \in Consumers, Forget(c) PROVE RingInv'
    BY <1>17 DEF Forget
  <1>18. ASSUME NEW p \in Procs, ReturnDone(p) PROVE RingInv'
    BY <1>18 DEF ReturnDone
  <1>19. ASSUME NEW p \in Procs, ReturnRefused(p) PROVE RingInv'
    BY <1>19 DEF ReturnRefused
  <1>20. CASE UNCHANGED vars
    BY <1>20 DEF vars, shared
  <1> QED
    BY <1>1, <1>2, <1>3, <1>4, <1>5, <1>6, <1>7, <1>8, <1>9, <1>10, <1>11, <1>12,
       <1>13, <1>14, <1>15, <1>16, <1>17, <1>18, <1>19, <1>20
       DEF Next, EnqStep, DeqStep, Return

(* The step of every theorem below. *)
LEMMA StepIInv == IInv /\ [Next]_vars => IInv'
  BY OwnCodeStep, MutexStep, TypeStep, RingStep DEF IInv

(* The strengthened invariant of the ring.                                 *)
THEOREM Invariance == Spec => []IInv
  BY InitIInv, StepIInv, PTL DEF Spec

(* Every reachable state of the ring, for any number of processes and      *)
(* slots, is well typed: the positions and the window stay in their range, *)
(* in every statement of enq and deq.                                      *)
THEOREM TypeCorrect == Spec => []TypeOK
  <1>1. IInv => TypeOK
    BY DEF IInv
  <1> QED
    BY <1>1, Invariance, PTL

(* The compare-and-exchange without retry is a lock: enq and deq change    *)
(* the buffer one process at a time.                                       *)
THEOREM Mutex == Spec => []MutualExclusion
  <1>1. IInv => MutualExclusion
    BY DEF IInv
  <1> QED
    BY <1>1, Invariance, PTL

\* The slot a running deq started from, and the slot a running enq fills.
AtWindow == {"deq_wrap", "deq_window", "enq_wrap", "enq_window"}

Movers ==
  /\ \A c \in Consumers : pc[c] \in {"deq_wrap", "deq_window"} =>
       DequeuedHead = ptr[c] /\ Stored = 0
  /\ \A p \in Producers : pc[p] \in {"enq_wrap", "enq_window"} =>
       DequeuedHead = head /\ Stored = 1
  /\ (\A q \in Procs : pc[q] \notin AtWindow) =>
       DequeuedHead = head /\ Stored = 0

LEMMA MoverValues == IInv => Movers
  <1> SUFFICES ASSUME IInv PROVE Movers
    OBVIOUS
  <1> USE ActorsAssumption DEF IInv, MutualExclusion, Holders, InsideLock,
          Procs, OwnCode, EnqPc, DeqPc
  <1>1. ASSUME NEW c \in Consumers, pc[c] \in {"deq_wrap", "deq_window"}
        PROVE  DequeuedHead = ptr[c] /\ Stored = 0
    <2>1. \A d \in Consumers : pc[d] \in {"deq_wrap", "deq_window"} => d = c
      BY <1>1
    <2>2. DequeuedHead = ptr[c]
      BY <1>1, <2>1 DEF DequeuedHead
    <2> QED
      BY <1>1, <2>2 DEF Stored
  <1>2. ASSUME NEW p \in Producers, pc[p] \in {"enq_wrap", "enq_window"}
        PROVE  DequeuedHead = head /\ Stored = 1
    BY <1>2 DEF DequeuedHead, Stored
  <1>3. ASSUME \A q \in Procs : pc[q] \notin AtWindow
        PROVE  DequeuedHead = head /\ Stored = 0
    BY <1>3 DEF DequeuedHead, Stored, AtWindow
  <1> QED
    BY <1>1, <1>2, <1>3 DEF Movers

LEMMA PositionsAgree == IInv => WindowAgrees
  <1> SUFFICES ASSUME IInv PROVE WindowAgrees
    OBVIOUS
  <1> USE BufSizeAssumption DEF WindowAgrees, Wrapped, Slots, Movers
  <1>1. CASE \E c \in Consumers : pc[c] \in {"deq_wrap", "deq_window"}
    <2>1. PICK c \in Consumers : pc[c] \in {"deq_wrap", "deq_window"}
      BY <1>1
    <2>2. Agree(ptr[c], tail, window) /\ window < BufSize
      BY <2>1 DEF IInv, RingInv, DeqMoves, Moving
    <2>3. DequeuedHead = ptr[c] /\ Stored = 0
      BY <2>1, MoverValues
    <2> QED
      BY <2>2, <2>3 DEF IInv, TypeOK, Agree
  <1>2. CASE \E p \in Producers : pc[p] \in {"enq_wrap", "enq_window"}
    <2>1. PICK p \in Producers : pc[p] \in {"enq_wrap", "enq_window"}
      BY <1>2
    <2>2. DequeuedHead = head /\ Stored = 1 /\ window >= 1 /\ head \in Slots
      BY <2>1, MoverValues DEF IInv, RingInv, EnqMoves, Moving, Agree
    <2>3. CASE pc[p] = "enq_wrap"
      BY <2>1, <2>2, <2>3 DEF IInv, TypeOK, RingInv, EnqMoves, Agree
    <2>4. CASE pc[p] = "enq_window"
      BY <2>1, <2>2, <2>4 DEF IInv, TypeOK, RingInv, EnqMoves, Agree
    <2> QED
      BY <2>1, <2>3, <2>4
  <1>3. CASE \A q \in Procs : pc[q] \notin AtWindow
    <2>1. Agree(head, tail, window)
      BY <1>3 DEF AtWindow, IInv, RingInv, EnqMoves, DeqMoves, Moving, OwnCode, EnqPc, DeqPc, Procs
    <2> QED
      BY <1>3, <2>1, MoverValues DEF IInv, TypeOK, Agree
  <1> QED
    BY <1>1, <1>2, <1>3 DEF AtWindow, IInv, OwnCode, EnqPc, DeqPc, Procs

(* The two positions and the window always describe one queue, however far *)
(* the processes have got in their calls.                                  *)
THEOREM WindowCorrect == Spec => []WindowAgrees
  BY PositionsAgree, Invariance, PTL

LEMMA StepQueuedKept ==
  ASSUME IInv, [Next]_vars, NEW i \in Slots, Queued(i)
  PROVE  buf'[i] = buf[i]
  <1>1. CASE \E p \in Producers : EnqStore(p)
    <2>1. PICK p \in Producers : EnqStore(p)
      BY <1>1
    <2>2. \A q \in Procs : pc[q] \notin Moving
      BY <2>1 DEF EnqStore, Goto, IInv, MutualExclusion, Holders, InsideLock,
                  Procs, Moving
    <2>3. Agree(head, tail, window) /\ DequeuedHead = head /\ Stored = 0
      BY <2>2, MoverValues DEF Movers, AtWindow, IInv, RingInv, Moving
    <2>4. PICK k \in 0 .. BufSize - window + Stored - 1 : i = Wrapped(DequeuedHead + k)
      BY DEF Queued
    <2>5. i # tail
      BY <2>1, <2>3, <2>4, BufSizeAssumption
         DEF EnqStore, Agree, Wrapped, Slots, IInv, TypeOK
    <2> QED
      BY <2>1, <2>5 DEF EnqStore, IInv, TypeOK
  <1>2. CASE ~ \E p \in Producers : EnqStore(p)
    <2>1. buf' = buf
      BY <1>2 DEF Next, EnqStep, DeqStep, Return, EnqCall, EnqLock, EnqBusy,
         EnqFull, EnqTail, EnqWrap, EnqWindow, DeqCall, DeqLock, DeqBusy,
         DeqEmpty, DeqPtr, DeqHead, DeqWrap, DeqWindow, Forget, ReturnDone,
         ReturnRefused, vars, shared
    <2> QED
      BY <2>1
  <1> QED
    BY <1>1, <1>2

(* No step overwrites an element that is still queued: the only store into *)
(* the array goes to a slot outside the queue.                             *)
THEOREM NoOverwrite == Spec => QueuedKept
  <1>1. IInv /\ [Next]_vars => [\A i \in Slots : Queued(i) => buf'[i] = buf[i]]_vars
    BY StepQueuedKept
  <1> QED
    BY <1>1, Invariance, PTL DEF Spec, QueuedKept

-----------------------------------------------------------------------------
(* Refinement: the ring implements the bounded queue of BoundedFifo.  Every *)
(* step of the ring is a step of the queue or leaves it alone: an element   *)
(* enters at the store into the window that ends enq, and leaves at the one *)
(* that ends deq.                                                           *)

phase == [p \in Procs |-> Phase(p)]

Items == Elements \cup {None}

\* The queue read off the ring, when the processes' places are known.
QueueRead ==
  /\ DequeuedHead \in Slots
  /\ Contents \in Seq(Items)
  /\ Len(Contents) = BufSize - window
  /\ \A k \in 1 .. BufSize - window :
       Contents[k] = buf[Wrapped(DequeuedHead + k - 1)]

LEMMA ContentsValue == IInv => QueueRead
  <1> SUFFICES ASSUME IInv PROVE QueueRead
    OBVIOUS
  <1>1. DequeuedHead \in Slots
    <2> USE DEF Movers, AtWindow
    <2>1. CASE \E c \in Consumers : pc[c] \in {"deq_wrap", "deq_window"}
      BY <2>1, MoverValues DEF IInv, RingInv, DeqMoves, Moving
    <2>2. CASE \E p \in Producers : pc[p] \in {"enq_wrap", "enq_window"}
      BY <2>2, MoverValues DEF IInv, RingInv, EnqMoves, Moving, Agree
    <2>3. CASE \A q \in Procs : pc[q] \notin AtWindow
      BY <2>3, MoverValues DEF IInv, RingInv, EnqMoves, DeqMoves, Moving,
                               Agree, OwnCode, EnqPc, DeqPc, Procs
    <2> QED
      BY <2>1, <2>2, <2>3 DEF IInv, OwnCode, EnqPc, DeqPc, Procs
  <1>2. BufSize - window \in Nat
    BY BufSizeAssumption DEF IInv, TypeOK
  <1>3. \A k \in 1 .. BufSize - window : Wrapped(DequeuedHead + k - 1) \in Slots
    BY <1>1, <1>2, BufSizeAssumption DEF Slots, Wrapped, IInv, TypeOK
  <1>4. \A k \in 1 .. BufSize - window : buf[Wrapped(DequeuedHead + k - 1)] \in Items
    BY <1>3 DEF IInv, TypeOK, Items
  <1>5. Contents \in [1 .. BufSize - window -> Items]
    BY <1>4 DEF Contents
  <1>6. Contents \in Seq(Items)
    BY <1>2, <1>5
  <1>7. Len(Contents) = BufSize - window
    BY <1>2, <1>5
  <1> QED
    BY <1>1, <1>6, <1>7 DEF Contents, QueueRead

LEMMA BothStates ==
  ASSUME IInv, [Next]_vars
  PROVE  IInv' /\ Movers /\ Movers' /\ QueueRead /\ QueueRead'
  <1>1. IInv'
    BY StepIInv
  <1>2. Movers' /\ QueueRead'
    BY <1>1, MoverValues, ContentsValue, PTL
  <1> QED
    BY <1>1, <1>2, MoverValues, ContentsValue

\* What every step does to the phases.
LEMMA PhaseStep ==
  ASSUME TypeOK, NEW p \in Procs, NEW x, pc' = [pc EXCEPT ![p] = x]
  PROVE  phase' = [phase EXCEPT ![p] =
           CASE x \in {"idle", "use"} -> "idle" [] x = "done" -> "applied"
             [] OTHER -> "called"]
  <1> DEFINE v == CASE x \in {"idle", "use"} -> "idle" [] x = "done" -> "applied"
                    [] OTHER -> "called"
  <1>1. Phase(p)' = v
    BY DEF Phase, TypeOK
  <1>2. \A q \in Procs : q # p => Phase(q)' = Phase(q)
    BY DEF Phase, TypeOK
  <1> HIDE DEF v
  <1>3. phase' = [phase EXCEPT ![p] = v]
    BY <1>1, <1>2 DEF phase
  <1> QED
    BY <1>3 DEF v

\* A step that passes no store into the window, head or array ...
LEMMA SameHead ==
  ASSUME IInv, [Next]_vars, NEW p \in Procs, NEW x, pc' = [pc EXCEPT ![p] = x],
         pc[p] \notin AtWindow, x \notin AtWindow, head' = head,
         \A c \in Consumers : c # p => ptr'[c] = ptr[c]
  PROVE  DequeuedHead' = DequeuedHead
  <1> USE BothStates DEF Movers, IInv, TypeOK, Procs, AtWindow
  <1>1. CASE \E c \in Consumers : pc[c] \in {"deq_wrap", "deq_window"}
    <2>1. PICK c \in Consumers : pc[c] \in {"deq_wrap", "deq_window"}
      BY <1>1
    <2>2. c # p /\ pc'[c] = pc[c]
      BY <2>1
    <2>3. DequeuedHead = ptr[c] /\ DequeuedHead' = ptr'[c]
      BY <2>1, <2>2
    <2> QED
      BY <2>2, <2>3
  <1>2. CASE \E q \in Producers : pc[q] \in {"enq_wrap", "enq_window"}
    <2>1. PICK q \in Producers : pc[q] \in {"enq_wrap", "enq_window"}
      BY <1>2
    <2>2. q # p /\ pc'[q] = pc[q]
      BY <2>1
    <2> QED
      BY <2>1, <2>2
  <1>3. CASE \A q \in Procs : pc[q] \notin AtWindow
    <2>1. \A q \in Procs : pc'[q] \notin AtWindow
      BY <1>3
    <2> QED
      BY <1>3, <2>1
  <1> QED
    BY <1>1, <1>2, <1>3 DEF OwnCode, EnqPc, DeqPc

\* ... leaves the queue as it is.
LEMMA SameContents ==
  ASSUME DequeuedHead' = DequeuedHead, window' = window, buf' = buf
  PROVE  Contents' = Contents
  BY DEF Contents

-----------------------------------------------------------------------------
(* The steps one by one. *)

fifo == <<Contents, phase, arg, res, taken>>

LEMMA QuietStep ==   \* a statement inside a call that the queue does not see
  ASSUME IInv, [Next]_vars, NEW p \in Procs, NEW x, pc' = [pc EXCEPT ![p] = x],
         pc[p] \notin {"idle", "use", "done"}, x \notin {"idle", "use", "done"},
         Contents' = Contents, arg' = arg, res' = res, taken' = taken
  PROVE  UNCHANGED fifo
  <1>1. phase[p] = "called"
    BY DEF phase, Phase
  <1>2. phase' = [phase EXCEPT ![p] = "called"]
    BY PhaseStep DEF IInv
  <1>3. phase' = phase
    BY <1>1, <1>2 DEF phase
  <1> QED
    BY <1>3 DEF fifo

(* A call begins the call.                                                 *)
LEMMA CallPhase ==
  ASSUME IInv, NEW p \in Procs, pc[p] = "idle",
         NEW x \in {"enq_lock", "deq_lock"}, pc' = [pc EXCEPT ![p] = x]
  PROVE  phase[p] = "idle" /\ phase' = [phase EXCEPT ![p] = "called"]
  <1>1. phase[p] = "idle"
    BY DEF phase, Phase
  <1>2. phase' = [phase EXCEPT ![p] = "called"]
    BY PhaseStep DEF IInv
  <1> QED
    BY <1>1, <1>2

LEMMA CallSteps ==
  /\ \A p \in Producers, t \in Elements :
       IInv /\ [Next]_vars /\ EnqCall(p, t) => Fifo!CallEnq(p, t)
  /\ \A c \in Consumers :
       IInv /\ [Next]_vars /\ DeqCall(c) => Fifo!CallDeq(c)
  <1>1. ASSUME NEW p \in Producers, NEW t \in Elements, IInv, [Next]_vars, EnqCall(p, t)
        PROVE  Fifo!CallEnq(p, t)
    <2> USE <1>1 DEF Procs
    <2>1. pc[p] = "idle" /\ pc' = [pc EXCEPT ![p] = "enq_lock"]
      BY DEF EnqCall, Goto
    <2>2. UNCHANGED <<shared, ptr, res, taken>> /\ arg' = [arg EXCEPT ![p] = t]
      BY DEF EnqCall
    <2>3. Contents' = Contents
      BY <2>1, <2>2, SameHead, SameContents DEF shared, AtWindow
    <2>4. phase[p] = "idle" /\ phase' = [phase EXCEPT ![p] = "called"]
      BY <2>1, CallPhase
    <2> QED
      BY <2>2, <2>3, <2>4 DEF phase, Fifo!CallEnq, Fifo!Move
  <1>2. ASSUME NEW c \in Consumers, IInv, [Next]_vars, DeqCall(c)
        PROVE  Fifo!CallDeq(c)
    <2> USE <1>2 DEF Procs
    <2>1. pc[c] = "idle" /\ pc' = [pc EXCEPT ![c] = "deq_lock"]
      BY DEF DeqCall, Goto
    <2>2. UNCHANGED <<shared, arg, ptr, res, taken>>
      BY DEF DeqCall
    <2>3. Contents' = Contents
      BY <2>1, <2>2, SameHead, SameContents DEF shared, AtWindow
    <2>4. phase[c] = "idle" /\ phase' = [phase EXCEPT ![c] = "called"]
      BY <2>1, CallPhase
    <2> QED
      BY <2>2, <2>3, <2>4 DEF phase, Fifo!CallDeq, Fifo!Move
  <1> QED
    BY <1>1, <1>2

LEMMA LockSteps ==
  ASSUME IInv, [Next]_vars, NEW p \in Procs,
         \/ p \in Producers /\ (EnqLock(p) \/ EnqFull(p))
         \/ p \in Consumers /\ (DeqLock(p) \/ DeqEmpty(p) \/ DeqPtr(p))
  PROVE  UNCHANGED fifo
  <1>1. PICK x \in {"enq_check", "refused", "deq_check", "deq_head"} :
          pc' = [pc EXCEPT ![p] = x]
    BY DEF EnqLock, EnqFull, DeqLock, DeqEmpty, DeqPtr, Goto
  <1>2. pc[p] \in {"enq_lock", "enq_check", "deq_lock", "deq_check"}
    BY DEF EnqLock, EnqFull, DeqLock, DeqEmpty, DeqPtr, Goto
  <1>3. /\ UNCHANGED <<head, tail, window, buf, arg, res, taken>>
        /\ \A c \in Consumers : c # p => ptr'[c] = ptr[c]
    BY DEF EnqLock, EnqFull, DeqLock, DeqEmpty, DeqPtr, shared, IInv, TypeOK
  <1>4. Contents' = Contents
    BY <1>1, <1>2, <1>3, SameHead, SameContents DEF AtWindow
  <1> QED
    BY <1>1, <1>2, <1>3, <1>4, QuietStep

LEMMA BusySteps ==
  ASSUME IInv, [Next]_vars, NEW p \in Procs,
         \/ p \in Producers /\ EnqBusy(p)
         \/ p \in Consumers /\ DeqBusy(p)
  PROVE  Fifo!Busy(p)
  <1>1. /\ pc[p] \in {"enq_lock", "deq_lock"} /\ pc' = [pc EXCEPT ![p] = "idle"]
        /\ lock /\ res' = [res EXCEPT ![p] = 2]
        /\ UNCHANGED <<head, tail, window, buf, arg, ptr, taken>>
    BY DEF EnqBusy, DeqBusy, Goto, Code, shared
  <1>2. Contents' = Contents
    BY <1>1, SameHead, SameContents DEF AtWindow
  <1>3. PICK q \in Procs : pc[q] \in InsideLock
    BY <1>1 DEF IInv, MutualExclusion, Holders
  <1>4. q # p /\ phase[q] # "idle"
    BY <1>1, <1>3 DEF InsideLock, phase, Phase
  <1>5. phase[p] = "called" /\ phase' = [phase EXCEPT ![p] = "idle"]
    BY <1>1, PhaseStep DEF IInv, phase, Phase
  <1> QED
    BY <1>1, <1>2, <1>4, <1>5 DEF phase, Fifo!Busy, Fifo!Move, Fifo!Return,
       Fifo!Procs, Procs

LEMMA StoreStep ==
  ASSUME IInv, [Next]_vars, NEW p \in Producers, EnqStore(p)
  PROVE  UNCHANGED fifo
  <1>1. /\ pc[p] = "enq_check" /\ pc' = [pc EXCEPT ![p] = "enq_tail"]
        /\ UNCHANGED <<lock, head, tail, window, arg, ptr, res, taken>>
    BY DEF EnqStore, Goto
  <1>2. DequeuedHead' = DequeuedHead
    BY <1>1, SameHead DEF AtWindow, Procs
  <1>3. \A k \in 1 .. BufSize - window :
          LET i == Wrapped(DequeuedHead + k - 1)
          IN  i \in Slots /\ buf'[i] = buf[i]
    <2> SUFFICES ASSUME NEW k \in 1 .. BufSize - window
                 PROVE  LET i == Wrapped(DequeuedHead + k - 1)
                        IN  i \in Slots /\ buf'[i] = buf[i]
      OBVIOUS
    <2> DEFINE i == Wrapped(DequeuedHead + k - 1)
    <2>1. i \in Slots
      <3>1. DequeuedHead \in 0 .. BufSize - 1 /\ window \in 0 .. BufSize
        BY BothStates DEF QueueRead, Slots, IInv, TypeOK
      <3> QED
        BY <3>1, BufSizeAssumption DEF Slots, Wrapped
    <2>2. Stored \in 0 .. 1 /\ k - 1 \in 0 .. BufSize - window + Stored - 1
      BY BufSizeAssumption DEF Stored, IInv, TypeOK
    <2>3. Wrapped(DequeuedHead + (k - 1)) = i
      BY BothStates, BufSizeAssumption DEF QueueRead, Slots
    <2>4. Queued(i)
      BY <2>2, <2>3 DEF Queued
    <2> QED
      BY <2>1, <2>4, StepQueuedKept
  <1>4. Contents' = Contents
    BY <1>1, <1>2, <1>3 DEF Contents
  <1> QED
    BY <1>1, <1>4, QuietStep DEF Procs

LEMMA EnqSteps ==
  ASSUME IInv, [Next]_vars, NEW p \in Producers, EnqTail(p) \/ EnqWrap(p)
  PROVE  UNCHANGED fifo
  <1>1. PICK x \in {"enq_wrap", "enq_window"} : pc' = [pc EXCEPT ![p] = x]
    BY DEF EnqTail, EnqWrap, Goto
  <1>2. /\ pc[p] \in {"enq_tail", "enq_wrap"}
        /\ UNCHANGED <<head, window, buf, arg, res, taken>>
    BY DEF EnqTail, EnqWrap, Goto
  <1>3. DequeuedHead = head
    <2>1. \A c \in Consumers : pc[c] \notin {"deq_wrap", "deq_window"}
      BY <1>2, ActorsAssumption DEF IInv, MutualExclusion, Holders, InsideLock, Procs
    <2> QED
      BY <2>1 DEF DequeuedHead
  <1>4. DequeuedHead' = head'
    BY <1>1, BothStates DEF Movers, IInv, TypeOK, Procs
  <1>5. Contents' = Contents
    BY <1>2, <1>3, <1>4, SameContents
  <1> QED
    BY <1>1, <1>2, <1>5, QuietStep DEF Procs

LEMMA EnqEffect ==
  ASSUME IInv, [Next]_vars, NEW p \in Producers, EnqWindow(p)
  PROVE  Fifo!ApplyEnq(p)
  <1>1. /\ pc[p] = "enq_window" /\ pc' = [pc EXCEPT ![p] = "done"]
        /\ window' = window - 1
        /\ UNCHANGED <<head, tail, buf, arg, ptr, res, taken>>
    BY DEF EnqWindow, Goto
  <1>2. /\ window >= 1 /\ DequeuedHead = head
        /\ buf[Wrapped(head + BufSize - window)] = arg[p]
    BY <1>1, BothStates DEF IInv, RingInv, EnqMoves, Moving, Movers
  <1>3. DequeuedHead' = head
    <2>1. \A c \in Consumers : pc'[c] \notin {"deq_wrap", "deq_window"}
      BY <1>1, ActorsAssumption
         DEF IInv, TypeOK, MutualExclusion, Holders, InsideLock, Procs
    <2> QED
      BY <1>1, <2>1 DEF DequeuedHead
  <1>4. /\ Contents \in Seq(Items) /\ Contents' \in Seq(Items) /\ arg[p] \in Items
        /\ Len(Contents) = BufSize - window /\ Len(Contents') = BufSize - window + 1
    BY <1>1, <1>2, BothStates, BufSizeAssumption DEF QueueRead, IInv, TypeOK, Items
  <1>5. Append(Contents, arg[p]) \in Seq(Items)
        /\ Len(Append(Contents, arg[p])) = BufSize - window + 1
    BY <1>4
  <1>6. \A k \in 1 .. BufSize - window + 1 : Contents'[k] = Append(Contents, arg[p])[k]
    <2> SUFFICES ASSUME NEW k \in 1 .. BufSize - window + 1
                 PROVE  Contents'[k] = Append(Contents, arg[p])[k]
      OBVIOUS
    <2>1. BufSize \in Nat /\ window \in 1 .. BufSize /\ head \in Nat
      BY <1>2, BufSizeAssumption DEF IInv, TypeOK
    <2>2. k \in 1 .. BufSize - window'
      BY <1>1, <2>1
    <2>3. Contents'[k] = buf[Wrapped(head + k - 1)]
      BY <1>1, <1>3, <2>2, BothStates DEF QueueRead
    <2>4. CASE k = BufSize - window + 1
      <3>1. head + k - 1 = head + BufSize - window
        BY <2>1, <2>4
      <3> QED
        BY <1>2, <1>4, <2>3, <2>4, <3>1
    <2>5. CASE k # BufSize - window + 1
      <3>1. k \in 1 .. BufSize - window
        BY <2>1, <2>5
      <3>2. Contents[k] = buf[Wrapped(head + k - 1)]
        BY <1>2, <3>1, BothStates DEF QueueRead
      <3> QED
        BY <1>4, <2>3, <3>1, <3>2
    <2> QED
      BY <2>4, <2>5
  <1>7. Contents' = Append(Contents, arg[p])
    BY <1>4, <1>5, <1>6, SeqEqual
  <1>8. phase[p] = "called" /\ phase' = [phase EXCEPT ![p] = "applied"]
    BY <1>1, PhaseStep DEF IInv, phase, Phase, Procs
  <1>9. Len(Contents) < BufSize
    BY <1>2, <1>4, BufSizeAssumption DEF IInv, TypeOK
  <1> QED
    BY <1>1, <1>7, <1>8, <1>9 DEF phase, Fifo!ApplyEnq, Fifo!Move

LEMMA DeqSteps ==
  ASSUME IInv, [Next]_vars, NEW c \in Consumers, DeqHead(c) \/ DeqWrap(c)
  PROVE  UNCHANGED fifo
  <1>1. PICK x \in {"deq_wrap", "deq_window"} : pc' = [pc EXCEPT ![c] = x]
    BY DEF DeqHead, DeqWrap, Goto
  <1>2. /\ pc[c] \in {"deq_head", "deq_wrap"}
        /\ UNCHANGED <<window, buf, arg, ptr, res, taken>>
    BY DEF DeqHead, DeqWrap, Goto
  <1>3. DequeuedHead' = ptr[c]
    BY <1>1, <1>2, BothStates DEF Movers, IInv, TypeOK, Procs
  <1>4. DequeuedHead = ptr[c]
    <2>1. CASE pc[c] = "deq_wrap"
      BY <2>1, BothStates DEF Movers
    <2>2. CASE pc[c] = "deq_head"
      <3>1. \A d \in Consumers : pc[d] \notin {"deq_wrap", "deq_window"}
        BY <2>2 DEF IInv, MutualExclusion, Holders, InsideLock, Procs
      <3>2. head = ptr[c]
        BY <2>2 DEF IInv, RingInv, DeqMoves
      <3> QED
        BY <3>1, <3>2 DEF DequeuedHead
    <2> QED
      BY <1>2, <2>1, <2>2
  <1>5. Contents' = Contents
    BY <1>2, <1>3, <1>4, SameContents
  <1> QED
    BY <1>1, <1>2, <1>5, QuietStep DEF Procs

LEMMA DeqEffect ==
  ASSUME IInv, [Next]_vars, NEW c \in Consumers, DeqWindow(c)
  PROVE  Fifo!ApplyDeq(c)
  <1>1. /\ pc[c] = "deq_window" /\ pc' = [pc EXCEPT ![c] = "done"]
        /\ window' = window + 1
        /\ taken' = [taken EXCEPT ![c] = buf[ptr[c]]]
        /\ UNCHANGED <<head, tail, buf, arg, ptr, res>>
    BY DEF DeqWindow, Goto
  <1>2. /\ window < BufSize /\ DequeuedHead = ptr[c] /\ ptr[c] \in Slots
        /\ head = Wrapped(ptr[c] + 1)
    BY <1>1, BothStates DEF IInv, RingInv, DeqMoves, Moving, Movers
  <1>3. DequeuedHead' = head
    <2>1. \A d \in Consumers : pc'[d] \notin {"deq_wrap", "deq_window"}
      BY <1>1 DEF IInv, TypeOK, MutualExclusion, Holders, InsideLock, Procs
    <2> QED
      BY <1>1, <2>1 DEF DequeuedHead
  <1>4. BufSize \in Nat \ {0} /\ window \in 0 .. BufSize - 1
    BY <1>2, BufSizeAssumption DEF IInv, TypeOK
  <1>5. /\ Contents \in Seq(Items) /\ Contents' \in Seq(Items) /\ Contents # <<>>
        /\ Len(Contents) = BufSize - window /\ Len(Contents') = BufSize - window - 1
    BY <1>1, <1>4, BothStates DEF QueueRead
  <1>6. /\ Tail(Contents) \in Seq(Items)
        /\ Len(Tail(Contents)) = BufSize - window - 1
        /\ \A k \in 1 .. BufSize - window - 1 : Tail(Contents)[k] = Contents[k + 1]
    BY <1>5, HeadTailProperties
  <1>7. \A k \in 1 .. BufSize - window - 1 : Contents'[k] = Tail(Contents)[k]
    <2> SUFFICES ASSUME NEW k \in 1 .. BufSize - window - 1
                 PROVE  Contents'[k] = Contents[k + 1]
      BY <1>6
    <2>1. k \in 1 .. BufSize - window' /\ k + 1 \in 1 .. BufSize - window
      BY <1>1, <1>4
    <2>2. Contents'[k] = buf[Wrapped(head + k - 1)]
      BY <1>1, <1>3, <2>1, BothStates DEF QueueRead
    <2>3. Contents[k + 1] = buf[Wrapped(ptr[c] + (k + 1) - 1)]
      BY <1>2, <2>1, BothStates DEF QueueRead
    <2>4. Wrapped(head + k - 1) = Wrapped(ptr[c] + (k + 1) - 1)
      BY <1>2, <1>4 DEF Wrapped, Slots
    <2> QED
      BY <2>2, <2>3, <2>4
  <1>8. Contents' = Tail(Contents)
    BY <1>5, <1>6, <1>7, SeqEqual
  <1>9. Head(Contents) = buf[ptr[c]]
    <2>1. 1 \in 1 .. BufSize - window
      BY <1>4
    <2>2. Contents[1] = buf[Wrapped(ptr[c] + 1 - 1)]
      BY <1>2, <2>1, BothStates DEF QueueRead
    <2>3. Wrapped(ptr[c] + 1 - 1) = ptr[c]
      BY <1>2, <1>4 DEF Wrapped, Slots
    <2> QED
      BY <1>5, <2>2, <2>3
  <1>10. phase[c] = "called" /\ phase' = [phase EXCEPT ![c] = "applied"]
    BY <1>1, PhaseStep DEF IInv, phase, Phase, Procs
  <1> QED
    BY <1>1, <1>5, <1>8, <1>9, <1>10 DEF phase, Fifo!ApplyDeq, Fifo!Move

LEMMA ReturnSteps ==
  ASSUME IInv, [Next]_vars, NEW p \in Procs, Return(p)
  PROVE  \/ Fifo!Done(p)
         \/ p \in Producers /\ Fifo!RefuseEnq(p)
         \/ p \in Consumers /\ Fifo!RefuseDeq(p)
  <1>1. PICK x \in {"idle", "use"} : pc' = [pc EXCEPT ![p] = x]
    BY DEF Return, ReturnDone, ReturnRefused, Goto
  <1>2. /\ pc[p] \in {"done", "refused"}
        /\ UNCHANGED <<head, tail, window, buf, arg, ptr, taken>>
    BY DEF Return, ReturnDone, ReturnRefused, Goto
  <1>3. Contents' = Contents
    BY <1>1, <1>2, SameHead, SameContents DEF AtWindow
  <1>4. phase' = [phase EXCEPT ![p] = "idle"]
    BY <1>1, PhaseStep DEF IInv
  <1>5. CASE ReturnDone(p)
    <2>1. phase[p] = "applied" /\ res' = [res EXCEPT ![p] = 0]
      BY <1>5 DEF ReturnDone, Goto, Code, phase, Phase
    <2>2. Fifo!Done(p)
      BY <1>2, <1>3, <1>4, <2>1 DEF phase, Fifo!Done, Fifo!Move, Fifo!Return
    <2> QED
      BY <2>2
  <1>6. CASE ReturnRefused(p)
    <2>1. phase[p] = "called" /\ pc[p] = "refused" /\ res' = [res EXCEPT ![p] = 1]
      BY <1>6 DEF ReturnRefused, Goto, Code, phase, Phase
    <2>2. ASSUME p \in Producers PROVE Fifo!RefuseEnq(p)
      <3>1. Len(Contents) = BufSize
        BY <2>1, <2>2, BothStates, BufSizeAssumption
           DEF IInv, TypeOK, RingInv, EnqMoves, QueueRead
      <3> QED
        BY <1>2, <1>3, <1>4, <2>1, <3>1
           DEF phase, Fifo!RefuseEnq, Fifo!Move, Fifo!Return
    <2>3. ASSUME p \in Consumers PROVE Fifo!RefuseDeq(p)
      <3>1. Contents = <<>>
        BY <2>1, <2>3, BothStates, BufSizeAssumption
           DEF IInv, TypeOK, RingInv, DeqMoves, QueueRead
      <3> QED
        BY <1>2, <1>3, <1>4, <2>1, <3>1
           DEF phase, Fifo!RefuseDeq, Fifo!Move, Fifo!Return
    <2> QED
      BY <2>2, <2>3 DEF Procs
  <1> QED
    BY <1>5, <1>6 DEF Return

LEMMA ForgetStep ==
  ASSUME IInv, [Next]_vars, NEW c \in Consumers, Forget(c)
  PROVE  UNCHANGED fifo
  <1>1. /\ pc[c] = "use" /\ pc' = [pc EXCEPT ![c] = "idle"]
        /\ UNCHANGED <<shared, arg, ptr, res, taken>>
    BY DEF Forget, Goto
  <1>2. Contents' = Contents
    BY <1>1, SameHead, SameContents DEF AtWindow, shared, Procs
  <1>3. phase' = phase
    BY <1>1, PhaseStep DEF IInv, phase, Phase, Procs
  <1> QED
    BY <1>1, <1>2, <1>3 DEF fifo

-----------------------------------------------------------------------------

LEMMA InitFifo == Init => Fifo!Init
  <1> SUFFICES ASSUME Init PROVE Fifo!Init
    OBVIOUS
  <1>1. Contents = <<>>
    <2>1. IInv
      BY InitIInv
    <2> QED
      BY <2>1, ContentsValue, BufSizeAssumption DEF QueueRead, Init
  <1>2. phase = [p \in Procs |-> "idle"]
    BY DEF Init, phase, Phase
  <1> QED
    BY <1>1, <1>2 DEF Init, phase, Fifo!Init, Fifo!Procs, Procs

LEMMA StepFifo ==
  ASSUME IInv, [Next]_vars
  PROVE  [Fifo!Next]_(Fifo!vars)
  <1> USE DEF Fifo!Next, Fifo!Procs, Procs
  <1>1. CASE \E p \in Producers : \E t \in Elements : EnqCall(p, t)
    BY <1>1, CallSteps
  <1>2. CASE \E c \in Consumers : DeqCall(c)
    BY <1>2, CallSteps
  <1>3. CASE \E p \in Producers : EnqBusy(p)
    BY <1>3, BusySteps
  <1>4. CASE \E c \in Consumers : DeqBusy(c)
    BY <1>4, BusySteps
  <1>5. CASE \E p \in Producers : EnqWindow(p)
    BY <1>5, EnqEffect
  <1>6. CASE \E c \in Consumers : DeqWindow(c)
    BY <1>6, DeqEffect
  <1>7. CASE \E p \in Procs : Return(p)
    BY <1>7, ReturnSteps
  <1>8. ASSUME UNCHANGED fifo PROVE UNCHANGED Fifo!vars
    BY <1>8 DEF fifo, phase, Fifo!vars
  <1>9. CASE \E p \in Producers : EnqLock(p) \/ EnqFull(p) \/ EnqStore(p)
                                 \/ EnqTail(p) \/ EnqWrap(p)
    BY <1>8, <1>9, LockSteps, StoreStep, EnqSteps
  <1>10. CASE \E c \in Consumers : DeqLock(c) \/ DeqEmpty(c) \/ DeqPtr(c)
                                  \/ DeqHead(c) \/ DeqWrap(c) \/ Forget(c)
    BY <1>8, <1>10, LockSteps, DeqSteps, ForgetStep
  <1>11. CASE UNCHANGED vars
    <2>1. UNCHANGED fifo
      BY <1>11 DEF vars, shared, fifo, Contents, phase, Phase, DequeuedHead
    <2> QED
      BY <1>8, <2>1
  <1> QED
    BY <1>1, <1>2, <1>3, <1>4, <1>5, <1>6, <1>7, <1>9, <1>10, <1>11
       DEF Next, EnqStep, DeqStep

(* The ring of any size, used by any number of processes, behaves as the   *)
(* bounded queue: elements leave in the order they came, none is lost or   *)
(* doubled, and a refusal is answered only when it is true.                *)
THEOREM Refinement == Spec => ImplementsFifo
  BY InitFifo, StepFifo, Invariance, PTL DEF Spec, ImplementsFifo, Fifo!Spec
==============================================================================
