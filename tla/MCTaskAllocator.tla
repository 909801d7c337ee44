---------------------------- MODULE MCTaskAllocator ----------------------------
(* The allocator on two cores, with one entry of _runqueue left as it was.   *)
EXTENDS TaskAllocator, TLC

CONSTANTS a

Task(n, class) ==
  [name |-> n, task_class |-> class, prio |-> 1, wcet |-> 1,
   inter_arrival |-> 2, deadline |-> 2]

OneTask == {Task(a, "lo")}
ByDeadline == {}

Memory(class, strategy, rq) ==
  [task_class |-> class, task_strategy |-> strategy, rq_buffer |-> rq]

\* Memory that was zero, one that looks like an entry of the other strategy, and
\* two that look like one of the right kind.
Garbage == {Memory("hi", "priority", 0), Memory("lo", "deadline", 1),
            Memory("lo", "priority", 1), Memory("lo", "priority", 7)}

ClientSymmetry == Permutations(Clients)

\* No step depends on what enq returned last; reader and torn never change.
AllSeen == <<rings, setup, records, call, up, allocVars, client>>
================================================================================
