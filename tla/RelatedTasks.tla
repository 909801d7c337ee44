----------------------------- MODULE RelatedTasks ------------------------------
(***************************************************************************)
(* What the optimizer promises of its lists of related tasks               *)
(* (_related_tasks of sched_opt.h): they are disjoint groups of the tasks  *)
(* it optimizes, which only grow together.  Judging a task touches no      *)
(* group but the task's own and those of the tasks it blames.  A group is  *)
(* given up when a task that ended leaves a single other one in it.        *)
(***************************************************************************)
EXTENDS FiniteSets

CONSTANT Names

VARIABLES
  alive,    \* the tasks optimized
  gone,     \* the tasks that ended
  groups,   \* the groups of related tasks among those alive
  up        \* the optimizer lives

vars == <<alive, gone, groups, up>>

Init == alive = {} /\ gone = {} /\ groups = {} /\ up = TRUE

Enter(n) ==
  /\ alive' = alive \cup {n}
  /\ UNCHANGED <<gone, groups, up>>

\* t and the tasks it blames, perhaps itself, come into one group, and bring
\* with them the groups they were in.
Relate(t, blamed) ==
  LET met == {t} \cup blamed
      touched == {g \in groups : g \cap met # {}}
  IN  groups' = (groups \ touched) \cup {met \cup UNION touched}

Judge(t) ==
  /\ \E blamed \in SUBSET alive : blamed # {} /\ Relate(t, blamed)
  /\ UNCHANGED <<alive, gone, up>>

\* A task in no group, or in one with a single other task, ends.
Leave(t) ==
  LET own == {g \in groups : t \in g}
  IN  /\ \A g \in own : Cardinality(g) = 2
      /\ groups' = groups \ own
  /\ alive' = alive \ {t}
  /\ gone' = gone \cup {t}
  /\ UNCHANGED up

Crash == up' = FALSE /\ alive' = {} /\ gone' = {} /\ groups' = {}

Next ==
  /\ up
  /\ \/ \E n \in Names : Enter(n)
     \/ \E t \in alive : Judge(t) \/ Leave(t)
     \/ Crash

Spec == Init /\ [][Next]_vars

-----------------------------------------------------------------------------

(* A task is in one group at most, and every group consists of tasks that  *)
(* are optimized: no list of _related_tasks names a removed task.          *)
Disjoint ==
  /\ {} \notin groups
  /\ \A g \in groups : g \subseteq alive
  /\ \A g, h \in groups : g \cap h # {} => g = h
================================================================================
