--------------------------- MODULE MCSchedController ---------------------------
(* The controller with one ring in use and a few kinds of tasks.             *)
EXTENDS SchedController

CONSTANTS a, b

Task(n, class, p, c, t, d) ==
  [name |-> n, task_class |-> class, prio |-> p, wcet |-> c,
   inter_arrival |-> t, deadline |-> d]

ThreeKinds == {Task(a, "hi", 1, 1, 4, 3), Task(a, "lo", 2, 3, 8, 6),
               Task(b, "hi", 3, 2, 4, 6)}
FiveKinds == {Task(a, "hi", 1, 2, 4, 4), Task(a, "lo", 1, 3, 8, 8),
              Task(b, "hi", 2, 1, 2, 2), Task(a, "hi", 2, 2, 8, 2),
              Task(b, "lo", 3, 1, 4, 1)}

\* Tasks that may still be at it when they arrive anew: together the two above
\* priority 1 ask for 9/8 of the processor.
LateKinds == {Task(a, "hi", 3, 3, 4, 8), Task(b, "hi", 2, 3, 8, 16),
              Task(a, "hi", 1, 1, 8, 8)}

\* Lists that fit into the dataspace, and one that does not.
Running(n) == [name |-> n, prio |-> 1]
ShortLists == {<<>>, <<Running(a), Running(b)>>, [i \in 1 .. Mapped + 1 |-> Running(a)]}

\* States that differ only in what no step depends on are one: all after a
\* fault; the last result; what a call has read and does not need again; the
\* rings that no RPC fills and, in the_cycle, all of them; and the length of the
\* array, which only the_cycle compares with more than the values of Cores.
CallSeen ==
  CASE call.pc \in {"refill", "enq_full", "enq_unlock"} ->
         <<call.rpc, call.pc, call.core, call.todo>>
    [] call.pc \in {"enq_lock", "enq_store", "enq_window", "enq_shrink"} ->
         <<call.rpc, call.pc, call.core, call.todo, call.task, call.word>>
    [] OTHER -> <<call>>

Seen ==
  CASE ~up -> <<up>>
    [] call.pc \in {"cycle", "cycle_fill"} -> <<call, made>>
    [] OTHER -> <<[i \in Rings \cap Cores |-> <<rings[i], reader[i], i \in torn>>],
                  attached \cap Cores, numCores, taskMap, optimized, CallSeen>>
================================================================================
