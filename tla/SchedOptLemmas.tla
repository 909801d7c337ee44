----------------------------- MODULE SchedOptLemmas -----------------------------
(***************************************************************************)
(* Lemmas the proofs about the optimizer rest on: for each private         *)
(* function of sched_opt.cc, which fields of the tasks it leaves as they   *)
(* are.                                                                    *)
(***************************************************************************)
EXTENDS SchedOpt, NumberLemmas, SequenceTheorems

-----------------------------------------------------------------------------
(* Numbers                                                                 *)

(* Min takes the least number.                                             *)
LEMMA MinIsLeast ==
  ASSUME NEW T, T \subseteq Nat, T # {}
  PROVE  Min(T) \in T /\ \A y \in T : Min(T) <= y
  BY LeastElement DEF Min

(* A bounded set of numbers has a greatest element.                        *)
LEMMA MaxIsGreatest ==
  ASSUME NEW T, T \subseteq Nat, T # {}, NEW m \in Nat, \A y \in T : y <= m
  PROVE  Max(T) \in T /\ \A y \in T : y <= Max(T)
  <1> DEFINE bounds == {b \in Nat : \A y \in T : y <= b}
  <1>1. PICK b \in bounds : \A c \in bounds : b <= c
    <2>1. bounds \subseteq Nat /\ bounds # {}
      OBVIOUS
    <2> HIDE DEF bounds
    <2> QED
      BY <2>1, LeastElement
  <1>2. b \in T
    <2> SUFFICES ASSUME b \notin T PROVE FALSE
      OBVIOUS
    <2>1. \A y \in T : y \in Nat /\ y <= b - 1 /\ b > 0
      OBVIOUS
    <2>2. b - 1 \in Nat
      <3>1. PICK y \in T : TRUE
        OBVIOUS
      <3> QED
        BY <2>1, <3>1
    <2>3. b - 1 \in bounds
      BY <2>1, <2>2
    <2> QED
      BY <1>1, <2>3
  <1> QED
    BY <1>2 DEF Max

-----------------------------------------------------------------------------
(* The records the private functions work on                               *)

Maps(K, V) == UNION {[S -> V] : S \in SUBSET K}

Opt == [tasks : Maps(Names, Task), ended : Maps(Names, EndedTask),
        related : Maps(Nat \ {0}, RelatedList), up : BOOLEAN]

Fields == {"core", "arrival_time", "to_schedule", "last_job_started", "competitor",
           "id_related", "newest_job", "value", "utilization"}

(* From o to x the optimizer goes on with the same tasks and remembers the *)
(* same ended ones, and in no task one of the fields F changes.            *)
Kept(o, x, F) ==
  /\ x \in Opt
  /\ x.up = o.up /\ x.ended = o.ended
  /\ DOMAIN x.tasks = DOMAIN o.tasks
  /\ \A n \in DOMAIN o.tasks, f \in F : x.tasks[n][f] = o.tasks[n][f]

(* What was fetched from the monitor.                                      *)
Fetched ==
  /\ mon \in Seq(Thread)
  /\ rip \in Seq([foc_id : Nat, time : Nat])
  /\ current \in Nat

(* What a record knows of a task has the types of a task.                  *)
LEMMA TaskOf ==
  ASSUME NEW o \in Opt, NEW n \in DOMAIN o.tasks
  PROVE  o.tasks[n] \in Task /\ n \in Names
  BY DEF Opt, Maps

(* A list of related tasks has the types of one, and a number above 0.     *)
LEMMA ListOf ==
  ASSUME NEW o \in Opt, NEW id \in DOMAIN o.related
  PROVE  o.related[id] \in RelatedList /\ id \in Nat \ {0}
  <1>1. PICK S \in SUBSET (Nat \ {0}) : o.related \in [S -> RelatedList]
    BY DEF Opt, Maps
  <1> QED
    BY <1>1

(* Who keeps some fields keeps fewer.                                      *)
LEMMA KeptFewer ==
  ASSUME NEW o, NEW x, NEW F, NEW G, Kept(o, x, F), G \subseteq F
  PROVE  Kept(o, x, G)
  BY DEF Kept

(* One task's record is replaced.                                          *)
Put(o, t, r) == [o EXCEPT !.tasks[t] = r]

(* Replacing one task leaves everything else as it is.                     *)
LEMMA PutElse ==
  ASSUME NEW o \in Opt, NEW t \in DOMAIN o.tasks, NEW r \in Task
  PROVE  /\ Put(o, t, r) \in Opt
         /\ Put(o, t, r).related = o.related
         /\ Put(o, t, r).up = o.up
         /\ Put(o, t, r).ended = o.ended
         /\ DOMAIN Put(o, t, r).tasks = DOMAIN o.tasks
         /\ \A n \in DOMAIN o.tasks :
              Put(o, t, r).tasks[n] = IF n = t THEN r ELSE o.tasks[n]
  <1> DEFINE x == Put(o, t, r)
  <1>1. x = [o EXCEPT !.tasks[t] = r]
    BY DEF Put
  <1> HIDE DEF x
  <1>2. x \in Opt
    BY <1>1 DEF Opt, Maps
  <1>3. x.tasks = [o.tasks EXCEPT ![t] = r]
    BY <1>1 DEF Opt
  <1>4. x.related = o.related /\ x.up = o.up /\ x.ended = o.ended
    BY <1>1 DEF Opt
  <1>5. o.tasks \in [DOMAIN o.tasks -> Task]
    BY DEF Opt, Maps
  <1>6. DOMAIN x.tasks = DOMAIN o.tasks
    BY <1>3, <1>5
  <1>7. \A n \in DOMAIN o.tasks : x.tasks[n] = IF n = t THEN r ELSE o.tasks[n]
    BY <1>3, <1>5
  <1> QED
    BY <1>2, <1>4, <1>6, <1>7 DEF x

(* A replaced task keeps the fields the new record agrees on.              *)
LEMMA PutKeeps ==
  ASSUME NEW o \in Opt, NEW t \in DOMAIN o.tasks, NEW r \in Task, NEW F,
         \A f \in F : r[f] = o.tasks[t][f]
  PROVE  Kept(o, Put(o, t, r), F)
  BY PutElse DEF Kept

(* What the monitor reported of a thread has the types of a thread.        *)
LEMMA MonitoredThread ==
  ASSUME Fetched, NEW k \in DOMAIN mon
  PROVE  /\ mon[k] \in Thread
         /\ mon[k].core \in Cores
         /\ mon[k].execution_time \in Nat
         /\ mon[k].foc_id \in Nat
         /\ mon[k].arrival_time \in Nat
  <1>1. mon[k] \in Thread
    BY DEF Fetched
  <1> QED
    BY <1>1 DEF Thread

(* Also what stands before the list is taken for an arrival time.          *)
LEMMA ArrivalType ==
  ASSUME Fetched, NEW k
  PROVE  Arrival(k) \in Nat
  BY MonitoredThread, NumberAssumption DEF Arrival

(* A task that moves changes its core only.                                *)
LEMMA MoveKeeps ==
  ASSUME NEW o \in Opt, NEW t \in DOMAIN o.tasks, NEW core \in Cores
  PROVE  /\ Kept(o, Move(o, t, core), Fields \ {"core"})
         /\ Move(o, t, core).related = o.related
  <1> DEFINE r == [o.tasks[t] EXCEPT !.core = core]
  <1>1. r \in Task
    BY TaskOf DEF Task
  <1>2. Move(o, t, core) = Put(o, t, r)
    BY DEF Move, Put
  <1>3. \A f \in Fields \ {"core"} : r[f] = o.tasks[t][f]
    BY TaskOf DEF Task, Fields
  <1> HIDE DEF r
  <1> QED
    BY <1>1, <1>2, <1>3, PutElse, PutKeeps

(* A missed deadline raises a value and nothing else.                      *)
LEMMA RaiseValueKeeps ==
  ASSUME NEW o \in Opt, NEW t \in DOMAIN o.tasks
  PROVE  /\ Kept(o, RaiseValue(o, t), Fields \ {"value"})
         /\ RaiseValue(o, t).related = o.related
  <1> DEFINE core == o.tasks[t].core
             v == [o.tasks[t].value EXCEPT ![core] = @ + 1]
             r == [o.tasks[t] EXCEPT !.value = v]
  <1>1. o.tasks[t].value \in [Cores -> Nat] /\ core \in Cores
    BY TaskOf DEF Task
  <1>2. v \in [Cores -> Nat]
    BY <1>1
  <1>3. RaiseValue(o, t) = Put(o, t, r)
    BY DEF RaiseValue, Put
  <1> HIDE DEF v
  <1>4. r \in Task
    BY <1>2, TaskOf DEF Task
  <1>5. \A f \in Fields \ {"value"} : r[f] = o.tasks[t][f]
    BY TaskOf DEF Task, Fields
  <1> HIDE DEF r
  <1> QED
    BY <1>3, <1>4, <1>5, PutElse, PutKeeps

(* A deadline met changes a value, never below zero, and the utilization.  *)
LEMMA RewardKeeps ==
  ASSUME NEW o \in Opt, NEW t \in DOMAIN o.tasks, Fetched, NEW k \in DOMAIN mon
  PROVE  /\ Kept(o, Reward(o, t, k), Fields \ {"value", "utilization"})
         /\ Reward(o, t, k).related = o.related
  <1> DEFINE core == mon[k].core
             v == [o.tasks[t].value EXCEPT ![core] = IF @ > 0 THEN @ - 1 ELSE @]
             u == mon[k].execution_time \div InterArrival[t]
             r == [o.tasks[t] EXCEPT !.value = v, !.utilization = u]
  <1>1. core \in Cores /\ mon[k].execution_time \in Nat
    BY MonitoredThread
  <1>2. InterArrival[t] \in Nat \ {0}
    BY TaskOf, PeriodAssumption
  <1>3. u \in Nat
    BY <1>1, <1>2
  <1>4. o.tasks[t].value \in [Cores -> Nat]
    BY TaskOf DEF Task
  <1>5. v \in [Cores -> Nat]
    BY <1>1, <1>4
  <1>6. Reward(o, t, k) = Put(o, t, r)
    BY DEF Reward, Put
  <1> HIDE DEF u, v
  <1>7. r \in Task
    BY <1>3, <1>5, TaskOf DEF Task
  <1>8. \A f \in Fields \ {"value", "utilization"} : r[f] = o.tasks[t][f]
    BY TaskOf DEF Task, Fields
  <1> HIDE DEF r
  <1> QED
    BY <1>6, <1>7, <1>8, PutElse, PutKeeps

(* The flag dispatched is set in the newest job, which stays the same job. *)
LEMMA DispatchKeeps ==
  ASSUME NEW o \in Opt, NEW t \in DOMAIN o.tasks, NEW b \in BOOLEAN
  PROVE  LET x == Dispatch(o, t, b)
         IN  /\ Kept(o, x, Fields \ {"newest_job"})
             /\ x.related = o.related
             /\ \A n \in DOMAIN o.tasks :
                  /\ x.tasks[n].newest_job.foc_id = o.tasks[n].newest_job.foc_id
                  /\ x.tasks[n].newest_job.arrival_time
                       = o.tasks[n].newest_job.arrival_time
  <1> DEFINE x == Dispatch(o, t, b)
             job == o.tasks[t].newest_job
             j == [job EXCEPT !.dispatched = job.dispatched \/ b]
             r == [o.tasks[t] EXCEPT !.newest_job = j]
  <1>1. job \in Job
    BY TaskOf DEF Task
  <1>2. j \in Job /\ j.foc_id = job.foc_id /\ j.arrival_time = job.arrival_time
    <2>1. (job.dispatched \/ b) \in BOOLEAN
      OBVIOUS
    <2> QED
      BY <1>1, <2>1 DEF Job
  <1>3. x = Put(o, t, r)
    BY DEF Dispatch, Put
  <1> HIDE DEF j
  <1>4. r \in Task /\ r.newest_job = j
    BY <1>2, TaskOf, ZenonT(40) DEF Task
  <1>5. \A f \in Fields \ {"newest_job"} : r[f] = o.tasks[t][f]
    BY TaskOf DEF Task, Fields
  <1> HIDE DEF r, x
  <1>6. /\ Kept(o, x, Fields \ {"newest_job"}) /\ x.related = o.related
        /\ \A n \in DOMAIN o.tasks : x.tasks[n] = IF n = t THEN r ELSE o.tasks[n]
    BY <1>3, <1>4, <1>5, PutElse, PutKeeps
  <1>7. ASSUME NEW n \in DOMAIN o.tasks
        PROVE  /\ x.tasks[n].newest_job.foc_id = o.tasks[n].newest_job.foc_id
               /\ x.tasks[n].newest_job.arrival_time = o.tasks[n].newest_job.arrival_time
    <2>1. CASE n = t
      BY <2>1, <1>2, <1>4, <1>6
    <2>2. CASE n # t
      BY <2>2, <1>6
    <2> QED
      BY <2>1, <2>2
  <1> QED
    BY <1>6, <1>7 DEF x

(* From o to x a task's newest job is not replaced by an older one, and    *)
(* only by one the monitor listed under the task's name.                   *)
JobsFrom(o, x) ==
  \A n \in DOMAIN o.tasks \cap DOMAIN x.tasks :
    LET old == o.tasks[n].newest_job
        new == x.tasks[n].newest_job
    IN  /\ new.arrival_time >= old.arrival_time
        /\ \/ new.foc_id = old.foc_id
           \/ \E k \in DOMAIN mon : mon[k].name = n /\ mon[k].foc_id = new.foc_id

(* The newest job of a task has the types of a job.                        *)
LEMMA JobOf ==
  ASSUME NEW o \in Opt, NEW n \in DOMAIN o.tasks
  PROVE  /\ o.tasks[n].newest_job \in Job
         /\ o.tasks[n].newest_job.arrival_time \in Nat
         /\ o.tasks[n].newest_job.foc_id \in Nat
         /\ o.tasks[n].newest_job.core \in Cores
  <1>1. o.tasks[n].newest_job \in Job
    BY TaskOf DEF Task
  <1> QED
    BY <1>1 DEF Job

(* What two steps do to the newest jobs, one after the other.              *)
LEMMA JobsFromAgain ==
  ASSUME NEW o \in Opt, NEW x \in Opt, NEW y \in Opt, JobsFrom(o, x), JobsFrom(x, y),
         DOMAIN y.tasks \cap DOMAIN o.tasks \subseteq DOMAIN x.tasks
  PROVE  JobsFrom(o, y)
  <1> SUFFICES ASSUME NEW n \in DOMAIN o.tasks, n \in DOMAIN y.tasks
               PROVE  LET old == o.tasks[n].newest_job
                          new == y.tasks[n].newest_job
                      IN  /\ new.arrival_time >= old.arrival_time
                          /\ \/ new.foc_id = old.foc_id
                             \/ \E k \in DOMAIN mon :
                                  mon[k].name = n /\ mon[k].foc_id = new.foc_id
    BY DEF JobsFrom
  <1>1. n \in DOMAIN x.tasks
    OBVIOUS
  <1>2. /\ o.tasks[n].newest_job.arrival_time \in Nat
        /\ x.tasks[n].newest_job.arrival_time \in Nat
        /\ y.tasks[n].newest_job.arrival_time \in Nat
    BY <1>1, JobOf
  <1> QED
    BY <1>1, <1>2 DEF JobsFrom

(* Who keeps the newest jobs takes none from elsewhere.                    *)
LEMMA JobsKept ==
  ASSUME NEW o \in Opt, NEW x, NEW F, Kept(o, x, F), "newest_job" \in F
  PROVE  JobsFrom(o, x)
  BY JobOf DEF JobsFrom, Kept

(* A newer job is stored in the task whose name the thread bears.          *)
LEMMA SetNewestJobKeeps ==
  ASSUME NEW o \in Opt, NEW t \in DOMAIN o.tasks, Fetched, NEW k \in DOMAIN mon,
         mon[k].name = t
  PROVE  LET x == SetNewestJob(o, t, k)
         IN  /\ Kept(o, x, Fields \ {"newest_job"})
             /\ x.related = o.related
             /\ JobsFrom(o, x)
             /\ \A n \in DOMAIN o.tasks \ {t} : x.tasks[n] = o.tasks[n]
  <1> DEFINE x == SetNewestJob(o, t, k)
             j == [foc_id |-> mon[k].foc_id, arrival_time |-> mon[k].arrival_time,
                   core |-> mon[k].core, dispatched |-> FALSE]
             r == [o.tasks[t] EXCEPT !.newest_job = j]
  <1>0. mon[k].arrival_time \in Nat /\ o.tasks[t].newest_job.arrival_time \in Nat
    BY MonitoredThread, JobOf
  <1>1. CASE ~(mon[k].arrival_time > o.tasks[t].newest_job.arrival_time)
    <2>1. x = o
      BY <1>1 DEF SetNewestJob
    <2> QED
      BY <2>1, JobOf DEF Kept, JobsFrom
  <1>2. CASE mon[k].arrival_time > o.tasks[t].newest_job.arrival_time
    <2>1. j \in Job /\ j.foc_id = mon[k].foc_id /\ j.arrival_time = mon[k].arrival_time
      BY MonitoredThread DEF Job
    <2>2. x = Put(o, t, r)
      BY <1>2 DEF SetNewestJob, Put
    <2> HIDE DEF j
    <2>3. r \in Task /\ r.newest_job = j
      BY <2>1, TaskOf, ZenonT(40) DEF Task
    <2>4. \A f \in Fields \ {"newest_job"} : r[f] = o.tasks[t][f]
      BY TaskOf DEF Task, Fields
    <2> HIDE DEF r, x
    <2>5. /\ Kept(o, x, Fields \ {"newest_job"}) /\ x.related = o.related
          /\ \A n \in DOMAIN o.tasks : x.tasks[n] = IF n = t THEN r ELSE o.tasks[n]
      BY <2>2, <2>3, <2>4, PutElse, PutKeeps
    <2>6. ASSUME NEW n \in DOMAIN o.tasks
          PROVE  LET old == o.tasks[n].newest_job
                     new == x.tasks[n].newest_job
                 IN  /\ new.arrival_time >= old.arrival_time
                     /\ \/ new.foc_id = old.foc_id
                        \/ \E i \in DOMAIN mon :
                             mon[i].name = n /\ mon[i].foc_id = new.foc_id
      <3>1. CASE n = t
        <4>1. x.tasks[n].newest_job = j
          BY <3>1, <2>5, <2>3
        <4> QED
          BY <4>1, <2>1, <3>1, <1>0, <1>2
      <3>2. CASE n # t
        BY <3>2, <2>5, JobOf
      <3> QED
        BY <3>1, <3>2
    <2>7. JobsFrom(o, x)
      BY <2>6 DEF JobsFrom
    <2> QED
      BY <2>5, <2>7 DEF x
  <1> QED
    BY <1>1, <1>2

(* The arrival time waited for is not before the one seen.                 *)
LEMMA SetArrivalTimeKeeps ==
  ASSUME NEW o \in Opt, NEW t \in DOMAIN o.tasks, Fetched, NEW k, NEW b \in BOOLEAN
  PROVE  LET x == SetArrivalTime(o, t, k, b)
         IN  /\ Kept(o, x, Fields \ {"arrival_time"})
             /\ x.related = o.related
             /\ x.tasks[t].arrival_time >= Arrival(k)
             /\ \A n \in DOMAIN o.tasks \ {t} :
                  x.tasks[n].arrival_time = o.tasks[n].arrival_time
  <1> DEFINE x == SetArrivalTime(o, t, k, b)
             a == Arrival(k) + IF b THEN InterArrival[t] ELSE 0
             r == [o.tasks[t] EXCEPT !.arrival_time = a]
  <1>1. a \in Nat /\ a >= Arrival(k)
    BY ArrivalType, TaskOf, PeriodAssumption
  <1>2. x = Put(o, t, r)
    BY DEF SetArrivalTime, Put
  <1> HIDE DEF a
  <1>3. r \in Task /\ r.arrival_time = a
    BY <1>1, TaskOf DEF Task
  <1>4. \A f \in Fields \ {"arrival_time"} : r[f] = o.tasks[t][f]
    BY TaskOf DEF Task, Fields
  <1> HIDE DEF r, x
  <1>5. /\ Kept(o, x, Fields \ {"arrival_time"}) /\ x.related = o.related
        /\ \A n \in DOMAIN o.tasks : x.tasks[n] = IF n = t THEN r ELSE o.tasks[n]
    BY <1>2, <1>3, <1>4, PutElse, PutKeeps
  <1> QED
    BY <1>1, <1>3, <1>5 DEF x

(* All tasks' records are replaced.                                        *)
PutAll(o, f) == [o EXCEPT !.tasks = f]

(* Replacing all tasks leaves everything else as it is.                    *)
LEMMA PutAllElse ==
  ASSUME NEW o \in Opt, NEW f \in [DOMAIN o.tasks -> Task]
  PROVE  /\ PutAll(o, f) \in Opt
         /\ PutAll(o, f).related = o.related
         /\ PutAll(o, f).up = o.up
         /\ PutAll(o, f).ended = o.ended
         /\ PutAll(o, f).tasks = f
  BY DEF PutAll, Opt, Maps

(* Replaced tasks keep the fields the new records agree on.                *)
LEMMA PutAllKeeps ==
  ASSUME NEW o \in Opt, NEW f \in [DOMAIN o.tasks -> Task], NEW F,
         \A n \in DOMAIN o.tasks, g \in F : f[n][g] = o.tasks[n][g]
  PROVE  Kept(o, PutAll(o, f), F)
  BY PutAllElse DEF Kept

(* Allow sets who may be scheduled and nothing else.                       *)
LEMMA AllowFlags ==
  ASSUME NEW o \in Opt, NEW n, NEW rivals
  PROVE  LET x == Allow(o, n, rivals)
         IN  /\ Kept(o, x, Fields \ {"to_schedule"})
             /\ x.related = o.related
             /\ \A m \in DOMAIN o.tasks :
                  x.tasks[m].to_schedule <=> /\ m \notin rivals
                                             /\ o.tasks[m].to_schedule \/ m = n
  <1> DEFINE x == Allow(o, n, rivals)
             T(m) == IF m \in rivals THEN [o.tasks[m] EXCEPT !.to_schedule = FALSE]
                     ELSE IF m = n THEN [o.tasks[m] EXCEPT !.to_schedule = TRUE]
                     ELSE o.tasks[m]
             f == [m \in DOMAIN o.tasks |-> T(m)]
  <1>1. \A m \in DOMAIN o.tasks : T(m) \in Task
    BY TaskOf DEF Task
  <1>2. \A m \in DOMAIN o.tasks, g \in Fields \ {"to_schedule"} : T(m)[g] = o.tasks[m][g]
    BY TaskOf DEF Task, Fields
  <1>3. ASSUME NEW m \in DOMAIN o.tasks
        PROVE  T(m).to_schedule <=> m \notin rivals /\ (o.tasks[m].to_schedule \/ m = n)
    <2>1. o.tasks[m] \in Task
      BY TaskOf
    <2>2. CASE m \in rivals
      BY <2>1, <2>2 DEF Task
    <2>3. CASE m \notin rivals /\ m = n
      BY <2>1, <2>3 DEF Task
    <2>4. CASE m \notin rivals /\ m # n
      BY <2>4
    <2> QED
      BY <2>2, <2>3, <2>4
  <1>4. x = PutAll(o, f)
    BY DEF Allow, PutAll
  <1> HIDE DEF T
  <1>5. f \in [DOMAIN o.tasks -> Task] /\ \A m \in DOMAIN o.tasks : f[m] = T(m)
    BY <1>1
  <1> HIDE DEF f, x
  <1> QED
    BY <1>2, <1>3, <1>4, <1>5, PutAllElse, PutAllKeeps DEF x

(* The same, without the flags.                                            *)
LEMMA AllowKeeps ==
  ASSUME NEW o \in Opt, NEW n, NEW rivals
  PROVE  /\ Kept(o, Allow(o, n, rivals), Fields \ {"to_schedule"})
         /\ Allow(o, n, rivals).related = o.related
  BY AllowFlags

(* Nothing changes when nothing is done.                                   *)
LEMMA KeptSame ==
  ASSUME NEW o \in Opt, NEW F
  PROVE  Kept(o, o, F)
  BY DEF Kept

(* Aborting changes only that the process lives.                           *)
LEMMA AbortElse ==
  ASSUME NEW o \in Opt
  PROVE  /\ Abort(o) \in Opt
         /\ ~Abort(o).up
         /\ Abort(o).tasks = o.tasks
         /\ Abort(o).ended = o.ended
         /\ Abort(o).related = o.related
  BY DEF Abort, Opt

(* Who may be scheduled is all that _set_to_schedule changes.              *)
LEMMA SetToScheduleKeeps ==
  ASSUME NEW o \in Opt, NEW t \in DOMAIN o.tasks,
         Range(o.tasks[t].competitor) \subseteq DOMAIN o.tasks
  PROVE  LET x == SetToSchedule(o, t)
         IN  /\ Kept(o, x, Fields \ {"to_schedule"})
             /\ x.related = o.related
  <1>1. CASE o.tasks[t].competitor = <<>> \/ goal = "NONE"
    <2>1. SetToSchedule(o, t) = o
      BY <1>1 DEF SetToSchedule
    <2> QED
      BY <2>1, KeptSame
  <1>2. CASE ~(o.tasks[t].competitor = <<>> \/ goal = "NONE")
    <2>1. PICK n, rivals : SetToSchedule(o, t) = Allow(o, n, rivals)
      BY <1>2 DEF SetToSchedule
    <2> DEFINE x == SetToSchedule(o, t)
    <2>2. x = Allow(o, n, rivals)
      BY <2>1
    <2> HIDE DEF x
    <2>3. /\ Kept(o, Allow(o, n, rivals), Fields \ {"to_schedule"})
          /\ Allow(o, n, rivals).related = o.related
      BY AllowKeeps
    <2> QED
      BY <2>2, <2>3 DEF x
  <1> QED
    BY <1>1, <1>2

(* Values are all that _reset_values changes.                              *)
LEMMA ResetValuesKeeps ==
  ASSUME NEW o \in Opt, NEW t \in DOMAIN o.tasks, o.tasks[t].id_related \in DOMAIN o.related
  PROVE  LET x == ResetValues(o, t)
         IN  /\ Kept(o, x, Fields \ {"value"})
             /\ x.related = o.related
  <1> DEFINE core == o.tasks[t].core
             list == o.related[o.tasks[t].id_related]
             V(n) == IF o.tasks[n].value[core] >= list.max_value
                     THEN o.tasks[n].value[core] - list.max_value ELSE 0
             W(n) == [o.tasks[n].value EXCEPT ![core] = V(n)]
             T(n) == IF n \in list.tasks THEN [o.tasks[n] EXCEPT !.value = W(n)]
                     ELSE o.tasks[n]
             f == [n \in DOMAIN o.tasks |-> T(n)]
  <1>1. list.max_value \in Nat
    BY ListOf DEF RelatedList
  <1>2. core \in Cores
    BY TaskOf DEF Task
  <1>3. \A n \in DOMAIN o.tasks : o.tasks[n].value \in [Cores -> Nat]
    BY TaskOf DEF Task
  <1>4. \A n \in DOMAIN o.tasks : V(n) \in Nat
    BY <1>1, <1>2, <1>3
  <1>5. ResetValues(o, t) = o \/ ResetValues(o, t) = PutAll(o, f)
    BY DEF ResetValues, PutAll
  <1> HIDE DEF V
  <1>6. \A n \in DOMAIN o.tasks : W(n) \in [Cores -> Nat]
    BY <1>2, <1>3, <1>4
  <1> HIDE DEF W
  <1>7. \A n \in DOMAIN o.tasks : T(n) \in Task
    BY <1>6, TaskOf, ZenonT(40) DEF Task
  <1>8. \A n \in DOMAIN o.tasks, g \in Fields \ {"value"} : T(n)[g] = o.tasks[n][g]
    BY TaskOf DEF Task, Fields
  <1> HIDE DEF T
  <1>9. f \in [DOMAIN o.tasks -> Task] /\ \A n \in DOMAIN o.tasks : f[n] = T(n)
    BY <1>7
  <1> HIDE DEF f
  <1>10. CASE ResetValues(o, t) = o
    BY <1>10, KeptSame
  <1>11. CASE ResetValues(o, t) = PutAll(o, f)
    BY <1>8, <1>9, <1>11, PutAllElse, PutAllKeeps
  <1> QED
    BY <1>5, <1>10, <1>11

(* Among some threads one arrived last.                                    *)
LEMMA LatestIsOne ==
  ASSUME Fetched, NEW ks, ks \subseteq 0 .. Len(mon), ks # {}
  PROVE  /\ Latest(ks) \in ks
         /\ \A k \in ks : Arrival(k) <= Arrival(Latest(ks))
  <1> DEFINE rank == [k \in ks |-> Arrival(k)]
             best == {k \in ks : \A j \in ks : Arrival(j) <= Arrival(k)}
  <1>1. rank \in [ks -> Nat]
    BY ArrivalType
  <1>2. Len(mon) \in Nat
    BY DEF Fetched
  <1>3. \E k \in ks : \A j \in ks : rank[j] <= rank[k]
    <2> HIDE DEF rank
    <2> QED
      BY <1>1, <1>2, GreatestRank
  <1>4. best # {} /\ best \subseteq Nat
    <2>1. PICK k \in ks : \A j \in ks : Arrival(j) <= Arrival(k)
      BY <1>3
    <2>2. ks \subseteq Nat
      BY <1>2
    <2> QED
      BY <2>1, <2>2
  <1>5. Latest(ks) = Min(best)
    BY DEF Latest
  <1>6. Min(best) \in best
    <2> HIDE DEF best
    <2> QED
      BY <1>4, MinIsLeast
  <1> QED
    BY <1>5, <1>6

(* The other tasks get newer jobs of their own, the served one none.       *)
LEMMA NoteOthersKeeps ==
  ASSUME NEW o \in Opt, NEW t \in DOMAIN o.tasks, Fetched
  PROVE  LET x == NoteOthers(o, t)
         IN  /\ Kept(o, x, Fields \ {"newest_job"})
             /\ x.related = o.related
             /\ JobsFrom(o, x)
             /\ x.tasks[t] = o.tasks[t]
  <1> DEFINE x == NoteOthers(o, t)
             Listed(n) == {k \in DOMAIN mon : mon[k].name = n}
             T(n) == IF n = t \/ Listed(n) = {} THEN o.tasks[n]
                     ELSE SetNewestJob(o, n, Latest(Listed(n))).tasks[n]
             f == [n \in DOMAIN o.tasks |-> T(n)]
  <1>1. ASSUME NEW n \in DOMAIN o.tasks
        PROVE  /\ T(n) \in Task
               /\ \A g \in Fields \ {"newest_job"} : T(n)[g] = o.tasks[n][g]
               /\ T(n).newest_job.arrival_time >= o.tasks[n].newest_job.arrival_time
               /\ \/ T(n).newest_job.foc_id = o.tasks[n].newest_job.foc_id
                  \/ \E k \in DOMAIN mon :
                       mon[k].name = n /\ mon[k].foc_id = T(n).newest_job.foc_id
    <2>1. CASE n = t \/ Listed(n) = {}
      BY <2>1, TaskOf, JobOf
    <2>2. CASE ~(n = t \/ Listed(n) = {})
      <3> DEFINE k == Latest(Listed(n))
                 y == SetNewestJob(o, n, k)
      <3>1. mon \in Seq(Thread)
        BY DEF Fetched
      <3>2. Listed(n) \subseteq 0 .. Len(mon) /\ Listed(n) # {}
        BY <3>1, <2>2
      <3>3. k \in Listed(n)
        <4> HIDE DEF Listed
        <4> QED
          BY <3>2, LatestIsOne
      <3>4. k \in DOMAIN mon /\ mon[k].name = n
        BY <3>3
      <3>5. T(n) = y.tasks[n]
        BY <2>2
      <3> HIDE DEF k, T
      <3>6. /\ Kept(o, y, Fields \ {"newest_job"}) /\ JobsFrom(o, y)
        BY <3>4, SetNewestJobKeeps
      <3> HIDE DEF y
      <3>7. y \in Opt /\ n \in DOMAIN y.tasks
        BY <3>6 DEF Kept
      <3> QED
        BY <3>5, <3>6, <3>7, TaskOf DEF Kept, JobsFrom
    <2> QED
      BY <2>1, <2>2
  <1>2. x = PutAll(o, f)
    BY DEF NoteOthers, PutAll
  <1>3. T(t) = o.tasks[t]
    OBVIOUS
  <1> HIDE DEF T
  <1>4. f \in [DOMAIN o.tasks -> Task] /\ \A n \in DOMAIN o.tasks : f[n] = T(n)
    BY <1>1
  <1> HIDE DEF f, x
  <1>5. Kept(o, x, Fields \ {"newest_job"}) /\ x.related = o.related /\ x.tasks = f
    BY <1>1, <1>2, <1>4, PutAllElse, PutAllKeeps
  <1>6. JobsFrom(o, x)
    BY <1>1, <1>4, <1>5 DEF JobsFrom
  <1> QED
    BY <1>3, <1>4, <1>5, <1>6 DEF x

-----------------------------------------------------------------------------
(* The lists of related tasks                                              *)

(* What RelatedPartition, CompetitorsRelated and MaxValueExact say of the  *)
(* state, said of a record.                                                *)
Lists(o) ==
  /\ \A n \in DOMAIN o.tasks :
       o.tasks[n].id_related # 0 => o.tasks[n].id_related \in DOMAIN o.related
  /\ \A id \in DOMAIN o.related :
       /\ o.related[id].tasks # {}
       /\ o.related[id].tasks = {n \in DOMAIN o.tasks : o.tasks[n].id_related = id}

Competitors(o) ==
  \A n \in DOMAIN o.tasks :
    LET comp == o.tasks[n].competitor
    IN  /\ IsInjective(comp)
        /\ \A c \in Range(comp) :
             /\ c \in DOMAIN o.tasks
             /\ c # n => /\ o.tasks[c].id_related = o.tasks[n].id_related
                         /\ o.tasks[n].id_related # 0

Maxima(o) ==
  \A id \in DOMAIN o.related :
    /\ \A n \in o.related[id].tasks : Len(o.tasks[n].competitor) + 1 <= o.related[id].max_value
    /\ \E n \in o.related[id].tasks : Len(o.tasks[n].competitor) + 1 = o.related[id].max_value

(* The numbers in use for lists are bounded, so there is a next one.       *)
Numbered(o) == \E m \in Nat : \A id \in DOMAIN o.related : id <= m

Sound(o) ==
  /\ o \in Opt
  /\ IsFiniteSet(DOMAIN o.tasks)
  /\ Numbered(o)
  /\ Lists(o)
  /\ Competitors(o)
  /\ Maxima(o)

(* A step that leaves lists and competitors alone leaves them sound.       *)
LEMMA SoundKept ==
  ASSUME NEW o, Sound(o), NEW x, NEW F, Kept(o, x, F), {"competitor", "id_related"} \subseteq F,
         x.related = o.related
  PROVE  Sound(x)
  <1>1. x \in Opt /\ IsFiniteSet(DOMAIN x.tasks) /\ Numbered(x)
    BY DEF Sound, Kept, Numbered
  <1>2. /\ DOMAIN x.tasks = DOMAIN o.tasks
        /\ \A n \in DOMAIN o.tasks : /\ x.tasks[n].competitor = o.tasks[n].competitor
                                     /\ x.tasks[n].id_related = o.tasks[n].id_related
    BY DEF Kept
  <1>3. Lists(x)
    BY <1>2 DEF Sound, Lists
  <1>4. Competitors(x)
    BY <1>2 DEF Sound, Competitors
  <1>5. Maxima(x)
    <2>1. \A id \in DOMAIN o.related : o.related[id].tasks \subseteq DOMAIN o.tasks
      BY DEF Sound, Lists
    <2> QED
      BY <1>2, <2>1 DEF Sound, Maxima
  <1> QED
    BY <1>1, <1>3, <1>4, <1>5 DEF Sound

(* A competitor is added at the end, unless it is listed.                  *)
LEMMA AddCompetitorAdds ==
  ASSUME NEW o \in Opt, NEW t \in DOMAIN o.tasks, NEW c \in DOMAIN o.tasks,
         IsInjective(o.tasks[t].competitor)
  PROVE  LET x == AddCompetitor(o, t, c)
             comp == x.tasks[t].competitor
         IN  /\ Kept(o, x, Fields \ {"competitor"})
             /\ x.related = o.related
             /\ \A n \in DOMAIN o.tasks \ {t} : x.tasks[n] = o.tasks[n]
             /\ IsInjective(comp)
             /\ Range(comp) = Range(o.tasks[t].competitor) \cup {c}
             /\ Len(comp) >= Len(o.tasks[t].competitor)
  <1> DEFINE x == AddCompetitor(o, t, c)
             old == o.tasks[t].competitor
             comp == Append(old, c)
             r == [o.tasks[t] EXCEPT !.competitor = comp]
  <1>0. old \in Seq(Names) /\ c \in Names
    BY TaskOf DEF Task
  <1>1. CASE c \in Range(old)
    <2>1. x = o
      BY <1>1 DEF AddCompetitor
    <2>2. Range(old) = Range(old) \cup {c} /\ Len(old) >= Len(old)
      BY <1>1, <1>0
    <2> QED
      BY <2>1, <2>2, KeptSame
  <1>2. CASE c \notin Range(old)
    <2>1. comp \in Seq(Names) /\ Len(comp) >= Len(old)
      BY <1>0
    <2>2. Range(comp) = Range(old) \cup {c}
      <3>1. /\ DOMAIN comp = 1 .. Len(old) + 1 /\ DOMAIN old = 1 .. Len(old)
            /\ Len(old) \in Nat
            /\ \A i \in 1 .. Len(old) : comp[i] = old[i]
            /\ comp[Len(old) + 1] = c
        BY <1>0
      <3> HIDE DEF comp, old
      <3>2. Range(comp) \subseteq Range(old) \cup {c}
        BY <3>1 DEF Range
      <3>3. Range(old) \cup {c} \subseteq Range(comp)
        BY <3>1 DEF Range
      <3> QED
        BY <3>2, <3>3
    <2>3. IsInjective(comp)
      BY <1>0, <1>2 DEF IsInjective, Range
    <2>4. x = Put(o, t, r)
      BY <1>2 DEF AddCompetitor, Put
    <2> HIDE DEF comp
    <2>5. r \in Task /\ r.competitor = comp
      BY <2>1, TaskOf DEF Task
    <2>6. \A f \in Fields \ {"competitor"} : r[f] = o.tasks[t][f]
      BY TaskOf DEF Task, Fields
    <2> HIDE DEF r, x
    <2>7. /\ Kept(o, x, Fields \ {"competitor"}) /\ x.related = o.related
          /\ \A n \in DOMAIN o.tasks : x.tasks[n] = IF n = t THEN r ELSE o.tasks[n]
      BY <2>4, <2>5, <2>6, PutElse, PutKeeps
    <2>8. x.tasks[t].competitor = comp
      BY <2>5, <2>7
    <2> QED
      BY <2>1, <2>2, <2>3, <2>7, <2>8 DEF x
  <1> QED
    BY <1>1, <1>2

(* A list of competitors that names nobody but one task has one entry at   *)
(* most, and one that names somebody has one at least.                     *)
LEMMA ShortList ==
  ASSUME NEW comp \in Seq(Names), NEW c
  PROVE  /\ IsInjective(comp) /\ Range(comp) \subseteq {c} => Len(comp) <= 1
         /\ c \in Range(comp) => Len(comp) >= 1
  <1>1. Len(comp) \in Nat /\ DOMAIN comp = 1 .. Len(comp)
    OBVIOUS
  <1>2. ASSUME IsInjective(comp), Range(comp) \subseteq {c}, Len(comp) > 1 PROVE FALSE
    <2>1. 1 \in DOMAIN comp /\ 2 \in DOMAIN comp
      BY <1>1, <1>2
    <2>2. comp[1] = c /\ comp[2] = c
      BY <1>2, <2>1 DEF Range
    <2> QED
      BY <1>2, <2>1, <2>2 DEF IsInjective
  <1>3. ASSUME c \in Range(comp) PROVE Len(comp) >= 1
    BY <1>1, <1>3 DEF Range
  <1> QED
    BY <1>1, <1>2, <1>3

(* From o to x the lists that t and c were on have become one.             *)
Joined(o, x, t, c) ==
  LET old == {o.tasks[t].id_related, o.tasks[c].id_related} \ {0}
  IN  \E id \in Nat :
        /\ id \notin DOMAIN o.related \ old
        /\ DOMAIN x.related = (DOMAIN o.related \ old) \cup {id}
        /\ x.related[id].tasks = {t, c} \cup UNION {o.related[i].tasks : i \in old}
        /\ \A i \in DOMAIN o.related \ old : x.related[i] = o.related[i]

\* From o to x, t has c among its competitors, and nothing else changed there.
Blamed(o, x, t, c) ==
  /\ Range(x.tasks[t].competitor) = Range(o.tasks[t].competitor) \cup {c}
  /\ \A n \in DOMAIN o.tasks \ {t} : x.tasks[n].competitor = o.tasks[n].competitor

(* Blaming a task adds a competitor and joins the lists of the two.        *)
LEMMA BlameSound ==
  ASSUME NEW o, Sound(o), NEW t \in DOMAIN o.tasks, NEW c \in DOMAIN o.tasks
  PROVE  LET q == Relate(AddCompetitor(o, t, c), t, c)
         IN  /\ Sound(q)
             /\ Kept(o, q, Fields \ {"competitor", "id_related"})
             /\ Joined(o, q, t, c)
             /\ q.tasks[t].id_related # 0
             /\ Blamed(o, q, t, c)
  <1> DEFINE p == AddCompetitor(o, t, c)
             q == Relate(p, t, c)
             own == p.tasks[t].id_related
             other == p.tasks[c].id_related
             old == {own, other} \ {0}
             Size(i) == Cardinality(p.related[i].tasks)
             id == IF old = {} THEN 1 + Max(DOMAIN p.related \cup {0})
                   ELSE IF own = 0 \/ (other # 0 /\ Size(own) < Size(other))
                   THEN other ELSE own
             members == {t, c} \cup UNION {p.related[i].tasks : i \in old}
             maxima == {p.related[i].max_value : i \in old}
             max == Max(maxima \cup {Len(p.tasks[t].competitor) + 1})
             list == [max_value |-> max, tasks |-> members]
             rel == With(Restrict(p.related, DOMAIN p.related \ old), id, list)
             T(n) == IF n \in members THEN [p.tasks[n] EXCEPT !.id_related = id]
                     ELSE p.tasks[n]
             f == [n \in DOMAIN p.tasks |-> T(n)]
  <1>1. q = [p EXCEPT !.related = rel, !.tasks = f]
    BY DEF Relate
  <1>2. o \in Opt /\ Lists(o) /\ Competitors(o) /\ Maxima(o) /\ Numbered(o)
        /\ IsFiniteSet(DOMAIN o.tasks)
    BY DEF Sound
  <1>3. /\ Kept(o, p, Fields \ {"competitor"})
        /\ p.related = o.related
        /\ \A n \in DOMAIN o.tasks \ {t} : p.tasks[n] = o.tasks[n]
        /\ IsInjective(p.tasks[t].competitor)
        /\ Range(p.tasks[t].competitor) = Range(o.tasks[t].competitor) \cup {c}
        /\ Len(p.tasks[t].competitor) >= Len(o.tasks[t].competitor)
    <2>1. IsInjective(o.tasks[t].competitor)
      BY <1>2 DEF Competitors
    <2> QED
      BY <1>2, <2>1, AddCompetitorAdds
  <1> HIDE DEF p, q
  <1>4. /\ p \in Opt /\ p.up = o.up /\ p.ended = o.ended
        /\ DOMAIN p.tasks = DOMAIN o.tasks
        /\ \A n \in DOMAIN o.tasks : p.tasks[n].id_related = o.tasks[n].id_related
    BY <1>3 DEF Kept, Fields
  <1>5. own \in Nat /\ other \in Nat
    BY <1>4, TaskOf DEF Task
  <1>6. old \subseteq DOMAIN p.related
    BY <1>2, <1>3, <1>4 DEF Lists
  <1>7. \A i \in DOMAIN p.related : /\ i \in Nat \ {0}
                                    /\ p.related[i].max_value \in Nat
                                    /\ p.related[i].tasks \subseteq Names
    BY <1>4, ListOf DEF RelatedList
  <1>8. id \in Nat \ {0} /\ id \notin DOMAIN p.related \ old /\ (old # {} => id \in old)
    <2>1. CASE old = {}
      <3> DEFINE used == DOMAIN p.related \cup {0}
      <3>1. PICK m \in Nat : \A i \in used : i <= m
        BY <1>2, <1>3 DEF Numbered
      <3>2. used \subseteq Nat /\ used # {}
        BY <1>7
      <3>3. Max(used) \in used /\ \A i \in used : i <= Max(used)
        <4> HIDE DEF used
        <4> QED
          BY <3>1, <3>2, MaxIsGreatest
      <3>4. id = 1 + Max(used)
        BY <2>1
      <3> HIDE DEF id, used
      <3>5. Max(used) \in Nat
        BY <3>2, <3>3
      <3>6. id \notin DOMAIN p.related
        <4>1. ASSUME id \in DOMAIN p.related PROVE FALSE
          <5>1. id <= Max(used)
            BY <3>3, <4>1 DEF used
          <5> QED
            BY <5>1, <3>4, <3>5
        <4> QED
          BY <4>1
      <3>7. id \in Nat \ {0}
        BY <3>4, <3>5
      <3> QED
        BY <2>1, <3>6, <3>7
    <2>2. CASE old # {}
      <3>1. id \in old
        BY <2>2
      <3> QED
        BY <3>1, <1>5, <2>2
    <2> QED
      BY <2>1, <2>2
  <1> HIDE DEF id
  <1>9. \A n \in DOMAIN o.tasks :
          n \in members <=> n = t \/ n = c \/ p.tasks[n].id_related \in old
    <2>1. \A i \in old : p.related[i].tasks = {n \in DOMAIN o.tasks : p.tasks[n].id_related = i}
      BY <1>2, <1>3, <1>4, <1>6 DEF Lists
    <2> HIDE DEF old
    <2>2. ASSUME NEW n \in DOMAIN o.tasks
          PROVE  n \in members <=> n = t \/ n = c \/ p.tasks[n].id_related \in old
      BY <2>1
    <2> QED
      BY <2>2
  <1>10. members \subseteq DOMAIN o.tasks /\ t \in members /\ c \in members
    <2>1. \A i \in old : p.related[i].tasks \subseteq DOMAIN o.tasks
      BY <1>2, <1>3, <1>6 DEF Lists
    <2> QED
      BY <2>1
  <1> HIDE DEF members
  <1>11. /\ max \in Nat
         /\ \A i \in old : p.related[i].max_value <= max
         /\ Len(p.tasks[t].competitor) + 1 <= max
         /\ \/ max = Len(p.tasks[t].competitor) + 1
            \/ \E i \in old : max = p.related[i].max_value
    <2> DEFINE L == Len(p.tasks[t].competitor)
               M == maxima \cup {L + 1}
               B(i) == IF i = 0 THEN 0 ELSE p.related[i].max_value
               m == B(own) + B(other) + L + 1
    <2>1. L \in Nat
      BY <1>4, TaskOf DEF Task
    <2>2. \A i \in old \cup {0} : B(i) \in Nat
      BY <1>6, <1>7
    <2>3. \A i \in old : p.related[i].max_value = B(i)
      OBVIOUS
    <2>4. M \subseteq Nat /\ L + 1 \in M
      BY <2>1, <1>6, <1>7
    <2>5. B(own) \in Nat /\ B(other) \in Nat
      BY <1>5, <2>2
    <2>6. m \in Nat /\ \A y \in M : y <= m
      <3>1. \A i \in old : i = own \/ i = other
        OBVIOUS
      <3> HIDE DEF L, B, old
      <3>2. \A i \in old : B(i) <= m /\ L + 1 <= m
        BY <3>1, <2>1, <2>5
      <3>3. L + 1 <= m /\ m \in Nat
        BY <2>1, <2>5
      <3> QED
        BY <3>2, <3>3, <2>3
    <2>7. Max(M) \in M /\ \A y \in M : y <= Max(M)
      <3> HIDE DEF M, m
      <3> QED
        BY <2>4, <2>6, MaxIsGreatest
    <2>8. max = Max(M)
      OBVIOUS
    <2> HIDE DEF max
    <2> QED
      BY <2>4, <2>7, <2>8
  <1> HIDE DEF max
  <1>12. list \in RelatedList /\ list.tasks = members /\ list.max_value = max
    <2>1. members \subseteq Names
      BY <1>2, <1>10, TaskOf
    <2> QED
      BY <2>1, <1>11 DEF RelatedList
  <1> HIDE DEF list
  <1>13. /\ DOMAIN rel = (DOMAIN p.related \ old) \cup {id}
         /\ rel[id] = list
         /\ \A i \in DOMAIN p.related \ old : rel[i] = p.related[i]
         /\ rel \in Maps(Nat \ {0}, RelatedList)
    <2> DEFINE D == (DOMAIN p.related \ old) \cup {id}
    <2>1. /\ rel = [i \in D |-> IF i = id THEN list ELSE p.related[i]]
          /\ DOMAIN rel = D
          /\ rel[id] = list
          /\ \A i \in DOMAIN p.related \ old : rel[i] = p.related[i]
      <3>1. rel = With(Restrict(p.related, DOMAIN p.related \ old), id, list)
        OBVIOUS
      <3> HIDE DEF old, rel
      <3> QED
        BY <3>1, <1>8 DEF With, Restrict
    <2>2. \A i \in DOMAIN p.related : p.related[i] \in RelatedList
      BY <1>4, ListOf
    <2>3. D \subseteq Nat \ {0}
      BY <1>7, <1>8
    <2> HIDE DEF rel, old
    <2>4. rel \in [D -> RelatedList]
      BY <2>1, <2>2, <1>12
    <2> HIDE DEF D
    <2>5. rel \in Maps(Nat \ {0}, RelatedList)
      BY <2>3, <2>4 DEF Maps
    <2> QED
      BY <2>1, <2>5 DEF D
  <1>14. \A n \in DOMAIN o.tasks :
           /\ T(n) \in Task
           /\ T(n).id_related = IF n \in members THEN id ELSE p.tasks[n].id_related
           /\ T(n).competitor = p.tasks[n].competitor
           /\ \A g \in Fields \ {"id_related"} : T(n)[g] = p.tasks[n][g]
    <2>1. \A n \in DOMAIN o.tasks : p.tasks[n] \in Task
      BY <1>4, TaskOf
    <2> QED
      BY <2>1, <1>8 DEF Task, Fields
  <1> HIDE DEF T, rel
  <1>15. f \in [DOMAIN o.tasks -> Task] /\ \A n \in DOMAIN o.tasks : f[n] = T(n)
    BY <1>4, <1>14
  <1> HIDE DEF f
  <1>16. /\ q \in Opt /\ q.related = rel /\ q.tasks = f
         /\ q.up = o.up /\ q.ended = o.ended
    <2>1. f \in Maps(Names, Task)
      <3>1. DOMAIN o.tasks \in SUBSET Names
        BY <1>2, TaskOf
      <3> QED
        BY <3>1, <1>15 DEF Maps
    <2> QED
      BY <2>1, <1>1, <1>4, <1>13 DEF Opt
  <1>17. DOMAIN q.tasks = DOMAIN o.tasks /\ \A n \in DOMAIN o.tasks : q.tasks[n] = T(n)
    BY <1>15, <1>16
  <1>18. \A n \in DOMAIN o.tasks :
           /\ q.tasks[n].id_related = IF n \in members THEN id ELSE o.tasks[n].id_related
           /\ q.tasks[n].competitor = p.tasks[n].competitor
    BY <1>4, <1>14, <1>17
  <1>19. Kept(o, q, Fields \ {"competitor", "id_related"})
    <2>1. \A n \in DOMAIN o.tasks, g \in Fields \ {"competitor", "id_related"} :
            q.tasks[n][g] = o.tasks[n][g]
      BY <1>3, <1>14, <1>17 DEF Kept
    <2> QED
      BY <2>1, <1>16, <1>17 DEF Kept
  <1>20. /\ DOMAIN q.related = (DOMAIN o.related \ old) \cup {id}
         /\ q.related[id] = list
         /\ \A i \in DOMAIN o.related \ old : i # id /\ q.related[i] = o.related[i]
    BY <1>3, <1>8, <1>13, <1>16
  <1>21. Joined(o, q, t, c)
    <2>1. {o.tasks[t].id_related, o.tasks[c].id_related} \ {0} = old
      BY <1>4
    <2>2. members = {t, c} \cup UNION {o.related[i].tasks : i \in old}
      BY <1>3 DEF members
    <2> HIDE DEF old
    <2> QED
      BY <2>1, <2>2, <1>8, <1>3, <1>12, <1>20 DEF Joined
  <1>22. Numbered(q)
    <2>1. PICK m \in Nat : \A i \in DOMAIN o.related : i <= m
      BY <1>2 DEF Numbered
    <2>2. m + id \in Nat /\ id <= m + id
      BY <1>8
    <2>3. ASSUME NEW i \in DOMAIN q.related PROVE i <= m + id
      <3>1. CASE i = id
        BY <3>1, <2>2
      <3>2. CASE i # id
        <4>1. i \in DOMAIN o.related
          BY <3>2, <1>20
        <4>2. i <= m /\ i \in Nat
          BY <4>1, <2>1, <1>3, <1>7
        <4> QED
          BY <4>2, <1>8
      <3> QED
        BY <3>1, <3>2
    <2> QED
      BY <2>2, <2>3 DEF Numbered
  <1> HIDE DEF old
  <1>23. \A i \in DOMAIN o.related :
           o.related[i].tasks = {n \in DOMAIN o.tasks : o.tasks[n].id_related = i}
    BY <1>2 DEF Lists
  <1>24. Lists(q)
    <2>1. ASSUME NEW n \in DOMAIN q.tasks, q.tasks[n].id_related # 0
          PROVE  q.tasks[n].id_related \in DOMAIN q.related
      <3>1. CASE n \in members
        BY <3>1, <1>17, <1>18, <1>20
      <3>2. CASE n \notin members
        <4>1. q.tasks[n].id_related = o.tasks[n].id_related
          BY <3>2, <1>17, <1>18
        <4>2. o.tasks[n].id_related \in DOMAIN o.related
          BY <4>1, <2>1, <1>17, <1>2 DEF Lists
        <4>3. o.tasks[n].id_related \notin old
          BY <3>2, <1>4, <1>9, <1>17
        <4> QED
          BY <4>1, <4>2, <4>3, <1>20
      <3> QED
        BY <3>1, <3>2
    <2>2. ASSUME NEW i \in DOMAIN q.related
          PROVE  /\ q.related[i].tasks # {}
                 /\ q.related[i].tasks = {n \in DOMAIN q.tasks : q.tasks[n].id_related = i}
      <3>1. CASE i = id
        <4>1. q.related[i].tasks = members /\ members # {}
          BY <3>1, <1>20, <1>12, <1>10
        <4>2. ASSUME NEW n \in DOMAIN o.tasks, n \notin members PROVE q.tasks[n].id_related # id
          <5>1. q.tasks[n].id_related = o.tasks[n].id_related
            BY <4>2, <1>18
          <5>2. o.tasks[n].id_related \notin old
            BY <4>2, <1>4, <1>9
          <5>3. o.tasks[n].id_related = 0 \/ o.tasks[n].id_related \in DOMAIN o.related
            BY <1>2 DEF Lists
          <5> QED
            BY <5>1, <5>2, <5>3, <1>3, <1>8
        <4>3. \A n \in DOMAIN o.tasks : n \in members <=> q.tasks[n].id_related = id
          BY <4>2, <1>18
        <4> QED
          BY <4>1, <4>3, <3>1, <1>10, <1>17
      <3>2. CASE i # id
        <4>1. i \in DOMAIN o.related \ old /\ q.related[i] = o.related[i]
          BY <3>2, <1>20
        <4>2. \A n \in DOMAIN o.tasks : q.tasks[n].id_related = i <=> o.tasks[n].id_related = i
          <5> SUFFICES ASSUME NEW n \in DOMAIN o.tasks
                       PROVE  q.tasks[n].id_related = i <=> o.tasks[n].id_related = i
            OBVIOUS
          <5>1. CASE n \in members
            <6>1. n = t \/ n = c \/ o.tasks[n].id_related \in old
              BY <5>1, <1>4, <1>9
            <6>2. o.tasks[n].id_related = 0 \/ o.tasks[n].id_related \in old
              BY <6>1, <1>4 DEF old
            <6>3. i # 0
              BY <4>1, <1>3, <1>7
            <6> QED
              BY <6>2, <6>3, <4>1, <3>2, <5>1, <1>18
          <5>2. CASE n \notin members
            BY <5>2, <1>18
          <5> QED
            BY <5>1, <5>2
        <4>3. q.related[i].tasks = {n \in DOMAIN o.tasks : o.tasks[n].id_related = i}
          BY <4>1, <1>23
        <4>4. q.related[i].tasks # {}
          BY <4>1, <1>2 DEF Lists
        <4> QED
          BY <4>2, <4>3, <4>4, <1>17
      <3> QED
        BY <3>1, <3>2
    <2> QED
      BY <2>1, <2>2 DEF Lists
  <1>25. \A n \in DOMAIN o.tasks :
           /\ n \in members => o.tasks[n].id_related \in old \cup {0}
           /\ o.tasks[n].id_related \in old => n \in members
    BY <1>4, <1>9 DEF old
  <1>26. \A n \in DOMAIN o.tasks \ {t} : q.tasks[n].competitor = o.tasks[n].competitor
    BY <1>3, <1>18
  <1>27. q.tasks[t].competitor = p.tasks[t].competitor /\ q.tasks[t].id_related = id
    BY <1>10, <1>18
  <1>28. Competitors(q)
    <2>1. ASSUME NEW n \in DOMAIN o.tasks
          PROVE  IsInjective(q.tasks[n].competitor)
      <3>1. CASE n = t
        BY <3>1, <1>27, <1>3
      <3>2. CASE n # t
        BY <3>2, <1>26, <1>2 DEF Competitors
      <3> QED
        BY <3>1, <3>2
    <2>2. ASSUME NEW n \in DOMAIN o.tasks, NEW d \in Range(o.tasks[n].competitor)
          PROVE  /\ d \in DOMAIN o.tasks
                 /\ d # n => /\ q.tasks[d].id_related = q.tasks[n].id_related
                             /\ q.tasks[n].id_related # 0
      <3>1. /\ d \in DOMAIN o.tasks
            /\ d # n => /\ o.tasks[d].id_related = o.tasks[n].id_related
                        /\ o.tasks[n].id_related # 0
        BY <1>2 DEF Competitors
      <3> SUFFICES ASSUME d # n
                   PROVE  /\ q.tasks[d].id_related = q.tasks[n].id_related
                          /\ q.tasks[n].id_related # 0
        BY <3>1
      <3>2. CASE o.tasks[n].id_related \in old
        <4>1. n \in members /\ d \in members
          BY <3>1, <3>2, <1>25
        <4> QED
          BY <4>1, <3>1, <1>18, <1>8
      <3>3. CASE o.tasks[n].id_related \notin old
        <4>1. n \notin members /\ d \notin members
          BY <3>1, <3>3, <1>25
        <4> QED
          BY <4>1, <3>1, <1>18
      <3> QED
        BY <3>2, <3>3
    <2>3. q.tasks[c].id_related = id /\ id # 0
      BY <1>8, <1>10, <1>18
    <2>4. ASSUME NEW n \in DOMAIN o.tasks, NEW d \in Range(q.tasks[n].competitor)
          PROVE  /\ d \in DOMAIN o.tasks
                 /\ d # n => /\ q.tasks[d].id_related = q.tasks[n].id_related
                             /\ q.tasks[n].id_related # 0
      <3>1. CASE d \in Range(o.tasks[n].competitor)
        BY <3>1, <2>2
      <3>2. CASE d \notin Range(o.tasks[n].competitor)
        <4>1. n = t /\ d = c
          <5>1. n = t
            BY <3>2, <1>26
          <5> QED
            BY <5>1, <3>2, <1>27, <1>3
        <4> QED
          BY <4>1, <2>3, <1>27
      <3> QED
        BY <3>1, <3>2
    <2> QED
      BY <2>1, <2>4, <1>17 DEF Competitors
  <1>29. /\ p.tasks[t].competitor \in Seq(Names)
         /\ \A n \in DOMAIN o.tasks : o.tasks[n].competitor \in Seq(Names)
    BY <1>2, <1>4, TaskOf DEF Task
  <1>30. Maxima(q)
    <2>1. ASSUME NEW n \in members
          PROVE  Len(q.tasks[n].competitor) + 1 <= max
      <3>0. n \in DOMAIN o.tasks
        BY <1>10
      <3>1. CASE n = t
        BY <3>1, <1>27, <1>11
      <3>2. CASE n # t /\ o.tasks[n].id_related \in old
        <4> DEFINE i == o.tasks[n].id_related
        <4>1. i \in DOMAIN o.related /\ n \in o.related[i].tasks
          BY <3>0, <3>2, <1>3, <1>6, <1>23
        <4>2. Len(o.tasks[n].competitor) + 1 <= o.related[i].max_value
          BY <4>1, <1>2 DEF Maxima
        <4>3. o.related[i].max_value <= max /\ o.related[i].max_value \in Nat
          BY <3>2, <4>1, <1>11, <1>3, <1>7
        <4>4. Len(o.tasks[n].competitor) \in Nat
          BY <3>0, <1>29
        <4> QED
          BY <4>2, <4>3, <4>4, <1>11, <3>0, <3>2, <1>26
      <3>3. CASE n # t /\ o.tasks[n].id_related \notin old
        <4>1. n = c /\ o.tasks[n].id_related = 0
          BY <3>0, <3>3, <1>4, <1>9, <1>25
        <4>2. /\ IsInjective(o.tasks[n].competitor)
              /\ Range(o.tasks[n].competitor) \subseteq {n}
          BY <3>0, <4>1, <1>2 DEF Competitors
        <4>3. Len(o.tasks[n].competitor) <= 1 /\ Len(p.tasks[t].competitor) >= 1
          BY <4>2, <3>0, <1>3, <1>29, ShortList
        <4>4. Len(o.tasks[n].competitor) \in Nat /\ Len(p.tasks[t].competitor) \in Nat
          BY <3>0, <1>29
        <4> QED
          BY <4>3, <4>4, <1>11, <3>0, <3>3, <1>26
      <3> QED
        BY <3>1, <3>2, <3>3
    <2>2. \E n \in members : Len(q.tasks[n].competitor) + 1 = max
      <3>1. CASE max = Len(p.tasks[t].competitor) + 1
        BY <3>1, <1>10, <1>27
      <3>2. CASE \E i \in old : max = p.related[i].max_value
        <4>1. PICK i \in old : max = p.related[i].max_value
          BY <3>2
        <4>2. i \in DOMAIN o.related
          BY <1>3, <1>6
        <4>3. PICK n \in o.related[i].tasks :
                Len(o.tasks[n].competitor) + 1 = o.related[i].max_value
          BY <4>2, <1>2 DEF Maxima
        <4>4. n \in DOMAIN o.tasks /\ n \in members
          BY <4>2, <1>23, <1>25
        <4>5. CASE n # t
          BY <4>5, <4>4, <4>3, <4>1, <1>3, <1>26
        <4>6. CASE n = t
          <5> DEFINE a == Len(o.tasks[t].competitor)
                     b == Len(p.tasks[t].competitor)
          <5>1. a \in Nat /\ b \in Nat /\ a <= b
            BY <1>3, <1>29
          <5>2. max = a + 1 /\ b + 1 <= max
            BY <4>1, <4>3, <4>6, <1>3, <1>11
          <5> HIDE DEF a, b
          <5>3. max = b + 1
            BY <5>1, <5>2
          <5> USE DEF b
          <5> QED
            BY <5>3, <1>10, <1>27
        <4> QED
          BY <4>5, <4>6
      <3> QED
        BY <3>1, <3>2, <1>11
    <2>3. ASSUME NEW i \in DOMAIN q.related
          PROVE  /\ \A n \in q.related[i].tasks :
                      Len(q.tasks[n].competitor) + 1 <= q.related[i].max_value
                 /\ \E n \in q.related[i].tasks :
                      Len(q.tasks[n].competitor) + 1 = q.related[i].max_value
      <3>1. CASE i = id
        BY <3>1, <2>1, <2>2, <1>12, <1>20
      <3>2. CASE i # id
        <4>1. i \in DOMAIN o.related \ old /\ q.related[i] = o.related[i]
          BY <3>2, <1>20
        <4>2. \A n \in o.related[i].tasks : n \in DOMAIN o.tasks \ {t}
          <5> SUFFICES ASSUME NEW n \in o.related[i].tasks, n = t PROVE FALSE
            BY <4>1, <1>23
          <5>1. o.tasks[t].id_related = i
            BY <4>1, <1>23
          <5>2. i \in old \cup {0}
            BY <5>1, <1>10, <1>25
          <5> QED
            BY <5>2, <4>1, <1>3, <1>7
        <4>3. \A n \in o.related[i].tasks : q.tasks[n].competitor = o.tasks[n].competitor
          BY <4>2, <1>26
        <4> QED
          BY <4>1, <4>3, <1>2 DEF Maxima
      <3> QED
        BY <3>1, <3>2
    <2> QED
      BY <2>3 DEF Maxima
  <1>31. Sound(q)
    BY <1>2, <1>16, <1>17, <1>22, <1>24, <1>28, <1>30 DEF Sound
  <1>32. Blamed(o, q, t, c)
    BY <1>3, <1>26, <1>27 DEF Blamed
  <1> QED
    BY <1>8, <1>19, <1>21, <1>27, <1>31, <1>32 DEF p, q

-----------------------------------------------------------------------------
(* Who may be scheduled                                                    *)

Allowed(o) == {n \in DOMAIN o.tasks : o.tasks[n].to_schedule}

\* The tasks that may run, and those that were blamed for their own misses.
Spared(o) == Allowed(o) \cup {n \in DOMAIN o.tasks : n \in Range(o.tasks[n].competitor)}

(* Without a goal nobody is denied, and with one nobody has denied all     *)
(* tasks of a list.                                                        *)
Fair(o) ==
  IF goal = "NONE" THEN Allowed(o) = DOMAIN o.tasks
  ELSE \A id \in DOMAIN o.related : o.related[id].tasks \cap Spared(o) # {}

\* The same, but the list of t may be waiting for _set_to_schedule.
AlmostFair(o, t) ==
  IF goal = "NONE" THEN Allowed(o) = DOMAIN o.tasks
  ELSE \A id \in DOMAIN o.related :
         \/ o.related[id].tasks \cap Spared(o) # {}
         \/ id = o.tasks[t].id_related /\ o.tasks[t].competitor # <<>>

\* The flags of the tasks outside S are those in o.
FlagsKept(o, x, S) ==
  /\ \A n \in DOMAIN o.tasks \ S : x.tasks[n].to_schedule = o.tasks[n].to_schedule
  /\ goal = "NONE" => \A n \in DOMAIN o.tasks : o.tasks[n].to_schedule => x.tasks[n].to_schedule

(* A step that leaves lists, competitors and flags alone leaves it fair.   *)
LEMMA FairKept ==
  ASSUME NEW o, NEW x, NEW F, Kept(o, x, F), {"to_schedule", "competitor", "id_related"} \subseteq F,
         x.related = o.related
  PROVE  /\ Fair(o) => Fair(x)
         /\ \A t \in DOMAIN o.tasks : AlmostFair(o, t) => AlmostFair(x, t)
  <1>1. /\ DOMAIN x.tasks = DOMAIN o.tasks
        /\ \A n \in DOMAIN o.tasks : /\ x.tasks[n].to_schedule = o.tasks[n].to_schedule
                                     /\ x.tasks[n].competitor = o.tasks[n].competitor
                                     /\ x.tasks[n].id_related = o.tasks[n].id_related
    BY DEF Kept
  <1>2. Allowed(x) = Allowed(o) /\ Spared(x) = Spared(o)
    BY <1>1 DEF Allowed, Spared
  <1> QED
    BY <1>1, <1>2 DEF Fair, AlmostFair

(* The foremost competitor is one, and not the task itself.                *)
LEMMA ForemostIsRival ==
  ASSUME NEW o \in Opt, NEW t \in DOMAIN o.tasks,
         Range(o.tasks[t].competitor) \subseteq DOMAIN o.tasks, Ahead(o, t) # {}
  PROVE  Foremost(o, t) \in Range(o.tasks[t].competitor) \ {t}
  <1> DEFINE comp == o.tasks[t].competitor
             ahead == Ahead(o, t)
             rank == [i \in ahead |-> Rank(o, comp[i])]
             best == {i \in ahead : \A j \in ahead : Rank(o, comp[j]) <= Rank(o, comp[i])}
  <1>1. comp \in Seq(Names) /\ Len(comp) \in Nat /\ DOMAIN comp = 1 .. Len(comp)
    BY TaskOf DEF Task
  <1>2. /\ ahead \subseteq DOMAIN comp
        /\ \A i \in ahead : Rank(o, comp[i]) > Rank(o, t)
    BY DEF Ahead
  <1> HIDE DEF comp, ahead
  <1>3. \A n \in DOMAIN o.tasks : Rank(o, n) \in Nat
    BY TaskOf DEF Rank, Task
  <1>4. \A i \in ahead : comp[i] \in Range(comp) /\ comp[i] \in DOMAIN o.tasks
    BY <1>2 DEF Range, comp
  <1>5. rank \in [ahead -> Nat]
    BY <1>3, <1>4
  <1>6. ahead \subseteq 0 .. Len(comp) /\ ahead # {}
    BY <1>1, <1>2 DEF ahead
  <1>7. PICK i \in ahead : \A j \in ahead : rank[j] <= rank[i]
    <2> HIDE DEF rank
    <2> QED
      BY <1>1, <1>5, <1>6, GreatestRank
  <1>8. i \in best
    BY <1>7
  <1>9. best \subseteq Nat
    <2>1. best \subseteq ahead
      OBVIOUS
    <2>2. ahead \subseteq Nat
      BY <1>1, <1>6
    <2> HIDE DEF best
    <2> QED
      BY <2>1, <2>2
  <1> HIDE DEF best
  <1>10. Min(best) \in best
    BY <1>8, <1>9, MinIsLeast
  <1>11. Foremost(o, t) = comp[Min(best)]
    BY DEF Foremost, best, comp, ahead
  <1>12. Min(best) \in ahead
    BY <1>10 DEF best
  <1>13. comp[Min(best)] # t
    BY <1>2, <1>3, <1>12
  <1> QED
    BY <1>4, <1>11, <1>12, <1>13 DEF comp

(* _set_to_schedule changes the flags of the task and its competitors at   *)
(* most, none without a goal; then one of them is allowed, or the task was *)
(* its own competitor.                                                     *)
LEMMA ScheduleFlags ==
  ASSUME NEW o \in Opt, NEW t \in DOMAIN o.tasks,
         Range(o.tasks[t].competitor) \subseteq DOMAIN o.tasks
  PROVE  LET comp == o.tasks[t].competitor
             x == SetToSchedule(o, t)
         IN  /\ FlagsKept(o, x, {t} \cup Range(comp))
             /\ comp = <<>> => x = o
             /\ goal # "NONE" /\ comp # <<>> /\ t \notin Range(comp) =>
                  \E n \in {t} \cup Range(comp) : x.tasks[n].to_schedule
  <1> DEFINE comp == o.tasks[t].competitor
             x == SetToSchedule(o, t)
  <1>1. CASE comp = <<>> \/ goal = "NONE"
    <2>1. x = o
      BY <1>1 DEF SetToSchedule
    <2> QED
      BY <2>1, <1>1 DEF FlagsKept
  <1>2. CASE comp # <<>> /\ goal # "NONE" /\ Ahead(o, t) = {}
    <2>1. x = Allow(o, t, Range(comp))
      BY <1>2 DEF SetToSchedule
    <2> HIDE DEF x
    <2>2. \A m \in DOMAIN o.tasks :
            x.tasks[m].to_schedule <=> /\ m \notin Range(comp)
                                       /\ o.tasks[m].to_schedule \/ m = t
      BY <2>1, AllowFlags
    <2>3. DOMAIN x.tasks = DOMAIN o.tasks /\ x \in Opt
      BY <2>1, AllowKeeps DEF Kept
    <2>4. ASSUME NEW m \in DOMAIN o.tasks, m \notin {t} \cup Range(comp)
          PROVE  x.tasks[m].to_schedule = o.tasks[m].to_schedule
      <3>1. x.tasks[m].to_schedule \in BOOLEAN /\ o.tasks[m].to_schedule \in BOOLEAN
        BY <2>3, TaskOf DEF Task
      <3> QED
        BY <3>1, <2>2, <2>4
    <2> QED
      BY <1>2, <2>2, <2>4 DEF FlagsKept, x
  <1>3. CASE comp # <<>> /\ goal # "NONE" /\ Ahead(o, t) # {}
    <2> DEFINE n == Foremost(o, t)
    <2>1. x = Allow(o, n, {t})
      BY <1>3 DEF SetToSchedule
    <2>2. n \in Range(comp) \ {t}
      BY <1>3, ForemostIsRival
    <2> HIDE DEF x, n
    <2>3. \A m \in DOMAIN o.tasks :
            x.tasks[m].to_schedule <=> m \notin {t} /\ (o.tasks[m].to_schedule \/ m = n)
      BY <2>1, AllowFlags
    <2>4. DOMAIN x.tasks = DOMAIN o.tasks /\ x \in Opt
      BY <2>1, AllowKeeps DEF Kept
    <2>5. ASSUME NEW m \in DOMAIN o.tasks, m \notin {t} \cup Range(comp)
          PROVE  x.tasks[m].to_schedule = o.tasks[m].to_schedule
      <3>1. x.tasks[m].to_schedule \in BOOLEAN /\ o.tasks[m].to_schedule \in BOOLEAN
        BY <2>4, TaskOf DEF Task
      <3> QED
        BY <3>1, <2>2, <2>3, <2>5
    <2> QED
      BY <1>3, <2>2, <2>3, <2>5 DEF FlagsKept, x
  <1> QED
    BY <1>1, <1>2, <1>3

(* After _set_to_schedule, the list that waited for it is fair as well:    *)
(* all whose flags change are on it.                                       *)
LEMMA ScheduleFair ==
  ASSUME NEW o, Sound(o), NEW t \in DOMAIN o.tasks, AlmostFair(o, t)
  PROVE  Fair(SetToSchedule(o, t))
  <1> DEFINE comp == o.tasks[t].competitor
             x == SetToSchedule(o, t)
  <1>1. o \in Opt /\ Range(comp) \subseteq DOMAIN o.tasks
    BY DEF Sound, Competitors
  <1>2. Kept(o, x, Fields \ {"to_schedule"}) /\ x.related = o.related
    BY <1>1, SetToScheduleKeeps
  <1>3. /\ FlagsKept(o, x, {t} \cup Range(comp))
        /\ comp = <<>> => x = o
        /\ goal # "NONE" /\ comp # <<>> /\ t \notin Range(comp) =>
             \E n \in {t} \cup Range(comp) : x.tasks[n].to_schedule
    BY <1>1, ScheduleFlags
  <1>4. \A c \in Range(comp) : c # t => o.tasks[c].id_related = o.tasks[t].id_related
    BY DEF Sound, Competitors
  <1> HIDE DEF x
  <1>5. /\ DOMAIN x.tasks = DOMAIN o.tasks
        /\ \A n \in DOMAIN o.tasks : x.tasks[n].competitor = o.tasks[n].competitor
    BY <1>2 DEF Kept, Fields
  <1> SUFFICES Fair(x)
    BY DEF x
  <1>6. CASE goal = "NONE"
    BY <1>3, <1>5, <1>6 DEF Fair, AlmostFair, Allowed, FlagsKept
  <1>7. CASE goal # "NONE"
    <2> SUFFICES ASSUME NEW id \in DOMAIN o.related
                 PROVE  o.related[id].tasks \cap Spared(x) # {}
      BY <1>2, <1>7 DEF Fair
    <2>1. o.related[id].tasks = {n \in DOMAIN o.tasks : o.tasks[n].id_related = id}
      BY DEF Sound, Lists
    <2>2. \/ o.related[id].tasks \cap Spared(o) # {}
          \/ id = o.tasks[t].id_related /\ comp # <<>>
      BY <1>7 DEF AlmostFair
    <2>3. CASE comp = <<>>
      BY <2>2, <2>3, <1>3
    <2>4. CASE comp # <<>> /\ id = o.tasks[t].id_related
      <3>1. CASE t \in Range(comp)
        <4>1. t \in o.related[id].tasks /\ t \in Spared(x)
          BY <2>1, <2>4, <3>1, <1>5 DEF Spared
        <4> QED
          BY <4>1
      <3>2. CASE t \notin Range(comp)
        <4>1. PICK n \in {t} \cup Range(comp) : x.tasks[n].to_schedule
          BY <1>3, <1>7, <2>4, <3>2
        <4>2. n \in DOMAIN o.tasks /\ o.tasks[n].id_related = id
          BY <1>1, <1>4, <2>4
        <4>3. n \in o.related[id].tasks /\ n \in Spared(x)
          BY <2>1, <4>1, <4>2, <1>5 DEF Spared, Allowed
        <4> QED
          BY <4>3
      <3> QED
        BY <3>1, <3>2
    <2>5. CASE id # o.tasks[t].id_related
      <3>1. PICK n \in o.related[id].tasks : n \in Spared(o)
        BY <2>2, <2>5
      <3>2. n \in DOMAIN o.tasks \ ({t} \cup Range(comp))
        BY <3>1, <2>1, <2>5, <1>4
      <3>3. /\ x.tasks[n].to_schedule = o.tasks[n].to_schedule
            /\ x.tasks[n].competitor = o.tasks[n].competitor
        BY <3>2, <1>3, <1>5 DEF FlagsKept
      <3>4. n \in Spared(x)
        BY <3>1, <3>2, <3>3, <1>5 DEF Spared, Allowed
      <3> QED
        BY <3>1, <3>4
    <2> QED
      BY <2>3, <2>4, <2>5
  <1> QED
    BY <1>6, <1>7

-----------------------------------------------------------------------------
(* What an analysis leaves as it is, and how it regroups the tasks         *)

Grouping(o) == {o.related[id].tasks : id \in DOMAIN o.related}

\* The groups after t and the tasks it blames have come together.
Regroup(G, t, blamed) ==
  LET met == {t} \cup blamed
      touched == {g \in G : g \cap met # {}}
  IN  (G \ touched) \cup {met \cup UNION touched}

Regrouped(o, x, t) ==
  \/ Grouping(x) = Grouping(o)
  \/ \E blamed \in SUBSET (DOMAIN o.tasks) :
       blamed # {} /\ Grouping(x) = Regroup(Grouping(o), t, blamed)

(* Coming together twice is coming together once with all of them.         *)
LEMMA RegroupTwice ==
  ASSUME NEW G, NEW t, NEW b, NEW d
  PROVE  Regroup(Regroup(G, t, b), t, d) = Regroup(G, t, b \cup d)
  <1> DEFINE first == {g \in G : g \cap ({t} \cup b) # {}}
             rest == {g \in G \ first : g \cap ({t} \cup d) # {}}
             joint == ({t} \cup b) \cup UNION first
             H == (G \ first) \cup {joint}
             second == {g \in H : g \cap ({t} \cup d) # {}}
             all == {g \in G : g \cap ({t} \cup (b \cup d)) # {}}
  <1>1. Regroup(G, t, b) = H
    BY DEF Regroup
  <1>2. Regroup(H, t, d) = (H \ second) \cup {({t} \cup d) \cup UNION second}
    BY DEF Regroup
  <1>3. Regroup(G, t, b \cup d) = (G \ all) \cup {({t} \cup (b \cup d)) \cup UNION all}
    BY DEF Regroup
  <1>4. t \in joint /\ joint \notin G \ first
    OBVIOUS
  <1>5. all = first \cup rest
    OBVIOUS
  <1>6. second = rest \cup {joint}
    BY <1>4
  <1> HIDE DEF rest, all, second
  <1>7. H \ second = G \ all
    BY <1>4, <1>5, <1>6
  <1>8. UNION second = joint \cup UNION rest
    BY <1>6
  <1>9. UNION all = (UNION first) \cup UNION rest
    BY <1>5
  <1>10. ({t} \cup d) \cup UNION second = ({t} \cup (b \cup d)) \cup UNION all
    BY <1>8, <1>9
  <1> QED
    BY <1>1, <1>2, <1>3, <1>7, <1>10

(* Lists that were joined are groups that came together.                   *)
LEMMA JoinedRegroups ==
  ASSUME NEW o, Sound(o), NEW t \in DOMAIN o.tasks, NEW c \in DOMAIN o.tasks, NEW x,
         Joined(o, x, t, c)
  PROVE  Regrouped(o, x, t)
  <1> DEFINE old == {o.tasks[t].id_related, o.tasks[c].id_related} \ {0}
             G == Grouping(o)
             touched == {g \in G : g \cap ({t} \cup {c}) # {}}
             joint == {t, c} \cup UNION {o.related[i].tasks : i \in old}
  <1>1. PICK id \in Nat :
          /\ id \notin DOMAIN o.related \ old
          /\ DOMAIN x.related = (DOMAIN o.related \ old) \cup {id}
          /\ x.related[id].tasks = joint
          /\ \A i \in DOMAIN o.related \ old : x.related[i] = o.related[i]
    BY DEF Joined
  <1>2. \A i \in DOMAIN o.related :
          /\ o.related[i].tasks = {n \in DOMAIN o.tasks : o.tasks[n].id_related = i}
          /\ i # 0
    BY ListOf DEF Sound, Lists
  <1>3. old \subseteq DOMAIN o.related
    BY DEF Sound, Lists
  <1>4. \A i \in DOMAIN o.related : o.related[i].tasks \cap ({t} \cup {c}) # {} <=> i \in old
    <2> SUFFICES ASSUME NEW i \in DOMAIN o.related
                 PROVE  o.related[i].tasks \cap ({t} \cup {c}) # {} <=> i \in old
      OBVIOUS
    <2>1. t \in o.related[i].tasks <=> o.tasks[t].id_related = i
      BY <1>2
    <2>2. c \in o.related[i].tasks <=> o.tasks[c].id_related = i
      BY <1>2
    <2>3. i \in old <=> o.tasks[t].id_related = i \/ o.tasks[c].id_related = i
      BY <1>2
    <2> QED
      BY <2>1, <2>2, <2>3
  <1> HIDE DEF old
  <1>5. touched = {o.related[i].tasks : i \in old}
    BY <1>3, <1>4 DEF Grouping
  <1>6. G \ touched = {o.related[i].tasks : i \in DOMAIN o.related \ old}
    BY <1>4 DEF Grouping
  <1>7. Grouping(x) = {o.related[i].tasks : i \in DOMAIN o.related \ old} \cup {joint}
    <2>1. \A i \in DOMAIN o.related \ old : x.related[i].tasks = o.related[i].tasks
      BY <1>1
    <2> HIDE DEF joint
    <2> QED
      BY <2>1, <1>1 DEF Grouping
  <1>8. joint = ({t} \cup {c}) \cup UNION touched
    BY <1>5
  <1> HIDE DEF joint, touched
  <1>9. Grouping(x) = (G \ touched) \cup {({t} \cup {c}) \cup UNION touched}
    BY <1>6, <1>7, <1>8
  <1>10. Grouping(x) = Regroup(G, t, {c})
    BY <1>9 DEF Regroup, touched
  <1> QED
    BY <1>10 DEF Regrouped

(* Coming together twice at most is coming together once at most.          *)
LEMMA RegroupedAgain ==
  ASSUME NEW o, NEW x, NEW y, NEW t, DOMAIN x.tasks = DOMAIN o.tasks,
         Regrouped(o, x, t), Regrouped(x, y, t)
  PROVE  Regrouped(o, y, t)
  <1>1. CASE Grouping(x) = Grouping(o) \/ Grouping(y) = Grouping(x)
    BY <1>1 DEF Regrouped
  <1>2. CASE ~(Grouping(x) = Grouping(o) \/ Grouping(y) = Grouping(x))
    <2>1. PICK b \in SUBSET (DOMAIN o.tasks) :
            b # {} /\ Grouping(x) = Regroup(Grouping(o), t, b)
      BY <1>2 DEF Regrouped
    <2>2. PICK d \in SUBSET (DOMAIN o.tasks) :
            d # {} /\ Grouping(y) = Regroup(Grouping(x), t, d)
      BY <1>2 DEF Regrouped
    <2>3. Grouping(y) = Regroup(Grouping(o), t, b \cup d)
      BY <2>1, <2>2, RegroupTwice
    <2>4. b \cup d \in SUBSET (DOMAIN o.tasks) /\ b \cup d # {}
      BY <2>1, <2>2
    <2> QED
      BY <2>3, <2>4 DEF Regrouped
  <1> QED
    BY <1>1, <1>2

(* From o, serving t has come to x, and t was neither removed nor waited   *)
(* for later.                                                              *)
Passes(o, x, t) ==
  /\ Sound(x)
  /\ Kept(o, x, {"arrival_time", "last_job_started"})
  /\ JobsFrom(o, x)
  /\ Regrouped(o, x, t)

\* The same, when nobody's denial is left halfway.
Follows(o, x, t) == Passes(o, x, t) /\ (Fair(o) => Fair(x))

(* Two steps of serving a task are one.                                    *)
LEMMA PassesAgain ==
  ASSUME NEW o \in Opt, NEW x, NEW y, NEW t, Passes(o, x, t), Passes(x, y, t)
  PROVE  Passes(o, y, t)
  <1>1. /\ x \in Opt /\ y \in Opt
        /\ DOMAIN x.tasks = DOMAIN o.tasks /\ DOMAIN y.tasks = DOMAIN o.tasks
    BY DEF Passes, Kept
  <1>2. JobsFrom(o, y)
    BY <1>1, JobsFromAgain DEF Passes
  <1>3. Regrouped(o, y, t)
    BY <1>1, RegroupedAgain DEF Passes
  <1>4. Kept(o, y, {"arrival_time", "last_job_started"})
    BY DEF Passes, Kept
  <1> QED
    BY <1>2, <1>3, <1>4 DEF Passes

LEMMA FollowsAgain ==
  ASSUME NEW o \in Opt, NEW x, NEW y, NEW t, Follows(o, x, t), Follows(x, y, t)
  PROVE  Follows(o, y, t)
  BY PassesAgain DEF Follows

(* A step that leaves lists and competitors alone follows.                 *)
LEMMA PassesKept ==
  ASSUME NEW o, Sound(o), NEW x, NEW t, NEW F, Kept(o, x, F), x.related = o.related,
         {"competitor", "id_related", "arrival_time", "last_job_started"} \subseteq F,
         JobsFrom(o, x)
  PROVE  Passes(o, x, t)
  <1>1. Sound(x)
    BY SoundKept
  <1>2. Kept(o, x, {"arrival_time", "last_job_started"})
    BY KeptFewer
  <1>3. Regrouped(o, x, t)
    BY DEF Regrouped, Grouping
  <1> QED
    BY <1>1, <1>2, <1>3 DEF Passes

LEMMA FollowsKept ==
  ASSUME NEW o, Sound(o), NEW x, NEW t, NEW F, Kept(o, x, F), x.related = o.related,
         {"to_schedule", "competitor", "id_related", "arrival_time", "last_job_started"}
           \subseteq F,
         JobsFrom(o, x)
  PROVE  Follows(o, x, t)
  <1>1. Passes(o, x, t)
    BY PassesKept
  <1>2. Fair(o) => Fair(x)
    BY FairKept
  <1> QED
    BY <1>1, <1>2 DEF Follows

-----------------------------------------------------------------------------
(* Judging a task                                                          *)

LEMMA CausesLive ==
  ASSUME NEW o, NEW t
  PROVE  Causes(o, t) \subseteq DOMAIN o.tasks \cup {NoTask}
  BY DEF Causes

(* The part of t's job that says which job it is.                          *)
SameJob(o, x, t) ==
  /\ x.tasks[t].newest_job.foc_id = o.tasks[t].newest_job.foc_id
  /\ x.tasks[t].newest_job.arrival_time = o.tasks[t].newest_job.arrival_time

(* _set_to_schedule finds all competitors and changes flags only; it ends  *)
(* what a blame has left halfway.                                          *)
LEMMA ScheduleFollows ==
  ASSUME NEW o, Sound(o), NEW t \in DOMAIN o.tasks
  PROVE  /\ Follows(o, SetToSchedule(o, t), t)
         /\ AlmostFair(o, t) => Fair(SetToSchedule(o, t))
         /\ Kept(o, SetToSchedule(o, t), {"newest_job"})
  <1> DEFINE x == SetToSchedule(o, t)
  <1>1. o \in Opt /\ Range(o.tasks[t].competitor) \subseteq DOMAIN o.tasks
    BY DEF Sound, Competitors
  <1>2. Kept(o, x, Fields \ {"to_schedule"}) /\ x.related = o.related
    BY <1>1, SetToScheduleKeeps
  <1>3. AlmostFair(o, t) => Fair(x)
    BY ScheduleFair
  <1> HIDE DEF x
  <1>4. {"competitor", "id_related", "arrival_time", "last_job_started", "newest_job"}
          \subseteq Fields \ {"to_schedule"}
    BY DEF Fields
  <1>5. JobsFrom(o, x)
    BY <1>1, <1>2, <1>4, JobsKept
  <1>6. Passes(o, x, t)
    BY <1>2, <1>4, <1>5, PassesKept
  <1>7. Fair(o) => AlmostFair(o, t)
    BY DEF Fair, AlmostFair
  <1>8. Kept(o, x, {"newest_job"})
    BY <1>2, <1>4, KeptFewer
  <1> QED
    BY <1>3, <1>6, <1>7, <1>8 DEF x, Follows

(* Counting a miss changes a value only.                                   *)
LEMMA RaiseFollows ==
  ASSUME NEW o, Sound(o), NEW t \in DOMAIN o.tasks
  PROVE  /\ Follows(o, RaiseValue(o, t), t)
         /\ AlmostFair(o, t) => AlmostFair(RaiseValue(o, t), t)
         /\ Kept(o, RaiseValue(o, t), {"newest_job", "id_related"})
  <1> DEFINE x == RaiseValue(o, t)
  <1>1. o \in Opt
    BY DEF Sound
  <1>2. Kept(o, x, Fields \ {"value"}) /\ x.related = o.related
    BY <1>1, RaiseValueKeeps
  <1> HIDE DEF x
  <1>3. {"to_schedule", "competitor", "id_related", "arrival_time", "last_job_started",
         "newest_job"} \subseteq Fields \ {"value"}
    BY DEF Fields
  <1>4. JobsFrom(o, x)
    BY <1>1, <1>2, <1>3, JobsKept
  <1>5. Follows(o, x, t)
    BY <1>2, <1>3, <1>4, FollowsKept
  <1>6. Kept(o, x, {"newest_job", "id_related"})
    BY <1>2, <1>3, KeptFewer
  <1>7. AlmostFair(o, t) => AlmostFair(x, t)
    BY <1>2, <1>3, FairKept
  <1> QED
    BY <1>5, <1>6, <1>7 DEF x

(* _reset_values finds the list of its task and changes values only.       *)
LEMMA ResetFollows ==
  ASSUME NEW o, Sound(o), NEW t \in DOMAIN o.tasks, o.tasks[t].id_related # 0
  PROVE  /\ Follows(o, ResetValues(o, t), t)
         /\ AlmostFair(o, t) => AlmostFair(ResetValues(o, t), t)
         /\ Kept(o, ResetValues(o, t), {"newest_job"})
  <1> DEFINE x == ResetValues(o, t)
  <1>1. o \in Opt /\ o.tasks[t].id_related \in DOMAIN o.related
    BY DEF Sound, Lists
  <1>2. Kept(o, x, Fields \ {"value"}) /\ x.related = o.related
    BY <1>1, ResetValuesKeeps
  <1> HIDE DEF x
  <1>3. {"to_schedule", "competitor", "id_related", "arrival_time", "last_job_started",
         "newest_job"} \subseteq Fields \ {"value"}
    BY DEF Fields
  <1>4. JobsFrom(o, x)
    BY <1>1, <1>2, <1>3, JobsKept
  <1>5. Follows(o, x, t)
    BY <1>2, <1>3, <1>4, FollowsKept
  <1>6. Kept(o, x, {"newest_job"})
    BY <1>2, <1>3, KeptFewer
  <1>7. AlmostFair(o, t) => AlmostFair(x, t)
    BY <1>2, <1>3, FairKept
  <1> QED
    BY <1>5, <1>6, <1>7 DEF x

(* Blaming a task passes; the joined list, whose tasks may all be denied,  *)
(* has a task with a competitor.                                           *)
LEMMA BlamePasses ==
  ASSUME NEW o, Sound(o), NEW t \in DOMAIN o.tasks, NEW c \in DOMAIN o.tasks
  PROVE  LET x == Relate(AddCompetitor(o, t, c), t, c)
         IN  /\ Passes(o, x, t)
             /\ Fair(o) => AlmostFair(x, t)
             /\ Kept(o, x, {"newest_job"})
  <1> DEFINE x == Relate(AddCompetitor(o, t, c), t, c)
  <1>1. /\ Sound(x)
        /\ Kept(o, x, Fields \ {"competitor", "id_related"})
        /\ Joined(o, x, t, c)
        /\ Blamed(o, x, t, c)
    BY BlameSound
  <1> HIDE DEF x
  <1>2. {"to_schedule", "arrival_time", "last_job_started", "newest_job"}
          \subseteq Fields \ {"competitor", "id_related"}
    BY DEF Fields
  <1>3. o \in Opt /\ JobsFrom(o, x)
    BY <1>1, <1>2, JobsKept DEF Sound
  <1>4. Regrouped(o, x, t)
    BY <1>1, JoinedRegroups
  <1>5. /\ Kept(o, x, {"arrival_time", "last_job_started"})
        /\ Kept(o, x, {"newest_job"})
        /\ Kept(o, x, {"to_schedule"})
    BY <1>1, <1>2, KeptFewer
  <1>6. ASSUME Fair(o) PROVE AlmostFair(x, t)
    <2>1. /\ DOMAIN x.tasks = DOMAIN o.tasks
          /\ \A n \in DOMAIN o.tasks : x.tasks[n].to_schedule = o.tasks[n].to_schedule
      BY <1>5 DEF Kept
    <2>2. Allowed(x) = Allowed(o)
      BY <2>1 DEF Allowed
    <2>3. Spared(o) \subseteq Spared(x)
      BY <2>1, <2>2, <1>1 DEF Spared, Blamed
    <2>4. CASE goal = "NONE"
      BY <1>6, <2>1, <2>2, <2>4 DEF Fair, AlmostFair
    <2>5. CASE goal # "NONE"
      <3> DEFINE old == {o.tasks[t].id_related, o.tasks[c].id_related} \ {0}
      <3>1. PICK id \in Nat :
              /\ DOMAIN x.related = (DOMAIN o.related \ old) \cup {id}
              /\ t \in x.related[id].tasks
              /\ \A i \in DOMAIN o.related \ old : x.related[i] = o.related[i]
        BY <1>1 DEF Joined
      <3> HIDE DEF old
      <3>2. x.tasks[t].id_related = id
        BY <1>1, <3>1 DEF Sound, Lists
      <3>3. x.tasks[t].competitor # <<>>
        <4>1. c \in Range(x.tasks[t].competitor)
          BY <1>1 DEF Blamed
        <4> QED
          BY <4>1 DEF Range
      <3>4. \A i \in DOMAIN o.related \ old : x.related[i].tasks \cap Spared(x) # {}
        BY <1>6, <2>3, <2>5, <3>1 DEF Fair
      <3> QED
        BY <2>5, <3>1, <3>2, <3>3, <3>4 DEF AlmostFair
    <2> QED
      BY <2>4, <2>5
  <1>7. Passes(o, x, t)
    BY <1>1, <1>3, <1>4, <1>5 DEF Passes
  <1> QED
    BY <1>5, <1>6, <1>7 DEF x

(* A missed deadline never finds a list or a task that is gone: whoever is *)
(* blamed, the lists stay as they should be, one task of each may run, and *)
(* the process goes on.                                                    *)
LEMMA DeadlineReachedFollows ==
  ASSUME NEW o, Sound(o), NEW t \in DOMAIN o.tasks, NEW x \in DeadlineReached(o, t)
  PROVE  Follows(o, x, t) /\ Kept(o, x, {"newest_job"})
  <1> DEFINE Blame(c) == IF c = NoTask THEN o ELSE Relate(AddCompetitor(o, t, c), t, c)
             Raised(c) == RaiseValue(Blame(c), t)
             Settle(r) == IF r.tasks[t].id_related = 0 THEN r ELSE ResetValues(r, t)
  <1>1. PICK c \in Causes(o, t) : x = SetToSchedule(Settle(Raised(c)), t)
    BY DEF DeadlineReached
  <1> DEFINE b == Blame(c)
             r == Raised(c)
             s == Settle(r)
  <1>2. o \in Opt
    BY DEF Sound
  <1>3. Passes(o, b, t) /\ (Fair(o) => AlmostFair(b, t)) /\ Kept(o, b, {"newest_job"})
    <2>1. CASE c = NoTask
      <3>1. b = o
        BY <2>1
      <3>2. Kept(o, o, {"competitor", "id_related", "arrival_time", "last_job_started"})
            /\ Kept(o, o, {"newest_job"})
        BY <1>2, KeptSame
      <3>3. JobsFrom(o, o)
        BY <1>2, <3>2, JobsKept
      <3>4. Fair(o) => AlmostFair(o, t)
        BY DEF Fair, AlmostFair
      <3>5. Passes(o, o, t)
        BY <3>2, <3>3, PassesKept
      <3> QED
        BY <3>1, <3>2, <3>4, <3>5
    <2>2. CASE c # NoTask
      <3>1. c \in DOMAIN o.tasks
        BY <2>2, CausesLive
      <3> QED
        BY <3>1, <2>2, BlamePasses
    <2> QED
      BY <2>1, <2>2
  <1> HIDE DEF Blame
  <1>4. Sound(b) /\ t \in DOMAIN b.tasks
    BY <1>3 DEF Passes, Kept
  <1>5. /\ Passes(b, r, t) /\ (AlmostFair(b, t) => AlmostFair(r, t))
        /\ Kept(b, r, {"newest_job", "id_related"})
    BY <1>4, RaiseFollows DEF Follows
  <1> HIDE DEF Raised
  <1>6. Sound(r) /\ t \in DOMAIN r.tasks /\ r \in Opt
    BY <1>4, <1>5 DEF Passes, Kept
  <1>7. /\ Passes(r, s, t) /\ (AlmostFair(r, t) => AlmostFair(s, t))
        /\ Kept(r, s, {"newest_job"})
    <2>1. CASE r.tasks[t].id_related = 0
      <3>1. s = r
        BY <2>1
      <3>2. Kept(r, r, {"competitor", "id_related", "arrival_time", "last_job_started"})
            /\ Kept(r, r, {"newest_job"})
        BY <1>6, KeptSame
      <3>3. JobsFrom(r, r)
        BY <1>6, <3>2, JobsKept
      <3>4. Passes(r, r, t)
        BY <1>6, <3>2, <3>3, PassesKept
      <3> QED
        BY <3>1, <3>2, <3>4
    <2>2. CASE r.tasks[t].id_related # 0
      <3>1. s = ResetValues(r, t)
        BY <2>2
      <3> QED
        BY <3>1, <2>2, <1>6, ResetFollows DEF Follows
    <2> QED
      BY <2>1, <2>2
  <1> HIDE DEF Settle
  <1>8. Sound(s) /\ t \in DOMAIN s.tasks
    BY <1>6, <1>7 DEF Passes, Kept
  <1>9. Passes(s, x, t) /\ (AlmostFair(s, t) => Fair(x)) /\ Kept(s, x, {"newest_job"})
    BY <1>1, <1>8, ScheduleFollows DEF Follows
  <1> HIDE DEF b, r, s
  <1>10. b \in Opt /\ r \in Opt /\ s \in Opt
    BY <1>4, <1>6, <1>8 DEF Sound
  <1>11. Passes(o, x, t)
    <2>1. Passes(o, r, t)
      BY <1>2, <1>3, <1>5, PassesAgain
    <2>2. Passes(o, s, t)
      BY <1>2, <2>1, <1>7, PassesAgain
    <2> QED
      BY <1>2, <2>2, <1>9, PassesAgain
  <1>12. Fair(o) => Fair(x)
    BY <1>3, <1>5, <1>7, <1>9
  <1>13. Kept(o, x, {"newest_job"})
    BY <1>3, <1>5, <1>7, <1>9 DEF Kept
  <1> QED
    BY <1>11, <1>12, <1>13 DEF Follows

================================================================================
