--------------------------- MODULE RelatedTasksProofs ---------------------------
(***************************************************************************)
(* Proof that the groups of related tasks stay disjoint groups of living   *)
(* tasks, for any set of tasks.                                            *)
(***************************************************************************)
EXTENDS RelatedTasks, TLAPS

(* Whomever a task blames, the groups that come together become one, and   *)
(* no other group loses or gains a task.                                   *)
LEMMA JudgeStep ==
  ASSUME Disjoint, NEW t \in alive, Judge(t)
  PROVE  Disjoint'
  <1>1. PICK blamed \in SUBSET alive : Relate(t, blamed)
    BY DEF Judge
  <1> DEFINE met == {t} \cup blamed
             touched == {g \in groups : g \cap met # {}}
             joined == met \cup UNION touched
  <1>2. groups' = (groups \ touched) \cup {joined} /\ alive' = alive
    BY <1>1 DEF Relate, Judge
  <1>3. joined # {} /\ joined \subseteq alive
    BY <1>1 DEF Disjoint
  <1>4. \A g \in groups \ touched : g \cap joined = {}
    <2> SUFFICES ASSUME NEW g \in groups \ touched, NEW x \in g, x \in joined
                 PROVE  FALSE
      OBVIOUS
    <2>1. x \notin met
      OBVIOUS
    <2>2. PICK h \in touched : x \in h
      BY <2>1
    <2>3. g = h
      BY <2>2 DEF Disjoint
    <2> QED
      BY <2>2, <2>3
  <1> HIDE DEF joined, touched
  <1> QED
    BY <1>2, <1>3, <1>4 DEF Disjoint

(* A task that ends takes its own group with it, so no group names it.     *)
LEMMA LeaveStep ==
  ASSUME Disjoint, NEW t \in alive, Leave(t)
  PROVE  Disjoint'
  <1>1. /\ groups' = {g \in groups : t \notin g}
        /\ alive' = alive \ {t}
    BY DEF Leave
  <1> QED
    BY <1>1 DEF Disjoint

LEMMA Step == Disjoint /\ [Next]_vars => Disjoint'
  <1> SUFFICES ASSUME Disjoint, [Next]_vars PROVE Disjoint'
    OBVIOUS
  <1>1. CASE \E n \in Names : Enter(n)
    BY <1>1 DEF Enter, Disjoint
  <1>2. CASE \E t \in alive : Judge(t)
    BY <1>2, JudgeStep
  <1>3. CASE \E t \in alive : Leave(t)
    BY <1>3, LeaveStep
  <1>4. CASE Crash
    BY <1>4 DEF Crash, Disjoint
  <1>5. CASE UNCHANGED vars
    BY <1>5 DEF vars, Disjoint
  <1> QED
    BY <1>1, <1>2, <1>3, <1>4, <1>5 DEF Next

(* The lists of related tasks are disjoint sets of living tasks, whatever  *)
(* is judged, blamed and removed in whatever order (_deadline_reached and  *)
(* _remove_task, as far as they implement these groups).                   *)
THEOREM GroupsDisjoint == Spec => []Disjoint
  <1>1. Init => Disjoint
    BY DEF Init, Disjoint
  <1> QED
    BY <1>1, Step, PTL DEF Spec
================================================================================
