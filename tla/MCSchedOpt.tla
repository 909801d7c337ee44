------------------------------ MODULE MCSchedOpt ------------------------------
(* The optimizer on small instances: periods of one or two ticks, with and   *)
(* without a thread that runs before the first task.                         *)
EXTENDS SchedOpt

OneTick == [n \in Names |-> 1]
TwoTicks == [n \in Names |-> 2]
NoResident == <<>>
OneResident == <<"init">>
NameSymmetry == Permutations(Names)
==============================================================================
