------------------------------- MODULE SchedOpt -------------------------------
(***************************************************************************)
(* The optimizer Sched_opt of src/sched_controller/sched_opt.cc.           *)
(*                                                                         *)
(* It runs in the single-threaded entrypoint of the controller, so one RPC *)
(* is served at a time.  The RPC "optimize" polls until the asked task's   *)
(* deadline has come, fetches the monitor's list of threads, analyses it   *)
(* together with the list of dead threads, sleeps, and returns.  Meanwhile *)
(* time passes and the kernel starts, ends and kills jobs.                 *)
(*                                                                         *)
(* The private functions are operators on a record o with the fields       *)
(* tasks, ended, related and up; `up' turns FALSE when the code throws an  *)
(* uncaught std::out_of_range or leaves an iterator's range, which ends    *)
(* the process.  Where the order of an unordered_map decides, an operator  *)
(* yields the set of records that the call may leave.  C++ array index i   *)
(* is the TLA+ index i + 1.                                                *)
(***************************************************************************)
EXTENDS Integers, Sequences, FiniteSets, SequencesExt

CONSTANTS
  Names,         \* names of the tasks that may be enqueued
  Cores,         \* 0 .. num_cores - 1
  NoTask,        \* the empty string
  Deadline,      \* Deadline[n], InterArrival[n]: attributes of the Rq_task
  InterArrival,
  Goals,         \* optimization goals the user switches between
  Finite,        \* the tasks that come to a last job
  Residents,     \* names of the threads that run before the first task
  ExecTimes,     \* execution times the monitor reports
  WildArrival,   \* what _threads[-1].arrival_time happens to hold
  StackWords,    \* what a dead stack word may hold later
  Lag,           \* ticks by which current_time may be older than the data
  SetupTime,     \* bound on when tasks are enqueued and goals chosen
  MaxTime,       \* bound on the clock; the last job starts before it
  MaxJobs,       \* bounds on the jobs started, killed, and dropped from the
  MaxKills,      \* monitor's list
  MaxDrops

ASSUME PeriodAssumption ==
  /\ Deadline \in [Names -> Nat \ {0}]
  /\ InterArrival \in [Names -> Nat \ {0}]
ASSUME NameAssumption == NoTask \notin Names
ASSUME CoreAssumption == 0 \in Cores
ASSUME GoalAssumption == Goals \subseteq {"NONE", "FAIRNESS", "UTILIZATION"}
ASSUME ResidentAssumption == Residents \in Seq(STRING)
ASSUME NumberAssumption ==   \* what the code keeps in unsigned variables
  /\ ExecTimes \cup StackWords \subseteq Nat
  /\ {WildArrival, Lag, SetupTime, MaxTime, MaxJobs, MaxKills, MaxDrops} \subseteq Nat

VARIABLES
  tasks,      \* _tasks: name -> Optimization_task, a partial function
  ended,      \* _ended_tasks: name -> Ended_task
  related,    \* _related_tasks: id -> Related_tasks
  goal,       \* _opt_goal
  up,         \* the process lives
  serving,    \* the task whose "optimize" RPC is being served, or NoTask
  phase,      \* where that call is: "wait", "analyse", "sleep"
  current,    \* current_time; while asleep, when the sleep began
  mon,        \* _threads: the monitor data last fetched
  now,        \* the clock
  threads,    \* the kernel's threads, in the order the monitor lists them
  rip,        \* the monitor's list of dead threads
  jobs        \* jobs started so far; the source of foc_ids

optVars == <<tasks, ended, related, goal, up>>
callVars == <<serving, phase, current, mon>>
envVars == <<now, threads, rip, jobs>>
vars == <<optVars, callVars, envVars>>

Abort(o) == [o EXCEPT !.up = FALSE]

\* The map f with the entry v under the key k.
With(f, k, v) == [x \in DOMAIN f \cup {k} |-> IF x = k THEN v ELSE f[x]]

-----------------------------------------------------------------------------
(* _set_to_schedule *)

Rank(o, n) ==
  LET task == o.tasks[n]
  IN  IF goal = "FAIRNESS" THEN task.value[task.core] ELSE task.utilization

\* Where in t's list the competitors stand that come before t on its core.
Ahead(o, t) ==
  LET comp == o.tasks[t].competitor
  IN  {i \in DOMAIN comp : /\ o.tasks[comp[i]].core = o.tasks[t].core
                           /\ Rank(o, comp[i]) > Rank(o, t)}

\* The first of those with the greatest rank.
Foremost(o, t) ==
  LET comp == o.tasks[t].competitor
      ahead == Ahead(o, t)
      best == {i \in ahead : \A j \in ahead : Rank(o, comp[j]) <= Rank(o, comp[i])}
  IN  comp[Min(best)]

\* n may be scheduled, its rivals may not.
Allow(o, n, rivals) ==
  [o EXCEPT !.tasks =
    [m \in DOMAIN o.tasks |->
      IF m \in rivals THEN [o.tasks[m] EXCEPT !.to_schedule = FALSE]
      ELSE IF m = n THEN [o.tasks[m] EXCEPT !.to_schedule = TRUE]
      ELSE o.tasks[m]]]

\* Deviation: t is denied, but the foremost competitor is not allowed.
SetToScheduleDenyOnly(o, t) ==
  LET comp == o.tasks[t].competitor
  IN  IF ~(Range(comp) \subseteq DOMAIN o.tasks) THEN Abort(o)
      ELSE IF comp = <<>> \/ goal = "NONE" THEN o
      ELSE IF Ahead(o, t) = {} THEN Allow(o, t, Range(comp))
      ELSE Allow(o, t, {t})

\* Deviation: the foremost task's own flag is cleared with its competitors'.
SetToScheduleDenyAll(o, t) ==
  LET comp == o.tasks[t].competitor
  IN  IF ~(Range(comp) \subseteq DOMAIN o.tasks) THEN Abort(o)
      ELSE IF comp = <<>> \/ goal = "NONE" THEN o
      ELSE IF Ahead(o, t) = {} THEN Allow(o, t, {t} \cup Range(comp))
      ELSE Allow(o, Foremost(o, t), {t})

SetToSchedule(o, t) ==
  LET comp == o.tasks[t].competitor
  IN  IF ~(Range(comp) \subseteq DOMAIN o.tasks) THEN Abort(o)
      ELSE IF comp = <<>> \/ goal = "NONE" THEN o
      ELSE IF Ahead(o, t) = {} THEN Allow(o, t, Range(comp))
      ELSE Allow(o, Foremost(o, t), {t})

-----------------------------------------------------------------------------
(* _reset_values *)

ResetValues(o, t) ==
  LET core == o.tasks[t].core
      id == o.tasks[t].id_related
      list == o.related[id]
      Reached(n) == o.tasks[n].value[core] >= list.max_value
      all == /\ Reached(t)
             /\ \A n \in list.tasks : o.tasks[n].core = core => Reached(n)
      Lowered(n) == IF Reached(n) THEN o.tasks[n].value[core] - list.max_value ELSE 0
  IN  IF id \notin DOMAIN o.related THEN Abort(o)
      ELSE IF ~all THEN o
      ELSE [o EXCEPT !.tasks =
             [n \in DOMAIN o.tasks |->
               IF n \in list.tasks
               THEN [o.tasks[n] EXCEPT !.value[core] = Lowered(n)]
               ELSE o.tasks[n]]]

-----------------------------------------------------------------------------
(* _get_cause_task: who kept t from meeting its deadline                   *)

Arrival(k) == IF k \in DOMAIN mon THEN mon[k].arrival_time ELSE WildArrival

\* The name of the task to blame, NoTask for none.  _threads[-1] (thread = 0)
\* is taken to hold no task's name: then both outcomes of the comparison with
\* it lead to the dead-threads list.
Causes(o, t) ==
  LET start == o.tasks[t].arrival_time
      window == start .. start + Deadline[t]
      exits == {k \in DOMAIN mon : mon[k].exit_time \in window}
      last == {k \in exits : \A j \in exits : mon[j].exit_time <= mon[k].exit_time}
      thread == Min(last \cup (IF last = {} THEN {0} ELSE {}))
      deaths == {i \in DOMAIN rip : rip[i].time \in window /\ rip[i].time > 0}
      time == Max({rip[i].time : i \in deaths} \cup {0})
      foc == IF deaths = {} THEN 0
             ELSE rip[Min({i \in deaths : rip[i].time = time})].foc_id
      owners == {n \in DOMAIN o.tasks : o.tasks[n].newest_job.foc_id = foc}
      later == thread > 0 /\ (time = 0 \/ mon[thread].exit_time > time)
  IN  IF time = 0 /\ thread <= 1 THEN {NoTask}
      ELSE IF later /\ mon[thread].name \in DOMAIN o.tasks THEN {mon[thread].name}
      ELSE IF /\ thread <= 1 \/ mon[thread].exit_time <= time
              /\ owners # {}
      THEN owners ELSE {NoTask}

-----------------------------------------------------------------------------
(* _deadline_reached *)

\* Deviation: the search for a competitor that is already listed is left out.
AddCompetitorAgain(o, t, c) ==
  [o EXCEPT !.tasks[t].competitor = Append(@, c)]

AddCompetitor(o, t, c) ==
  IF c \in Range(o.tasks[t].competitor) THEN o
  ELSE [o EXCEPT !.tasks[t].competitor = Append(@, c)]

\* Deviation: a task that joins a list is not told its id.
RelateJoinsSilently(o, t, c) ==
  LET old == {o.tasks[t].id_related, o.tasks[c].id_related} \ {0}
      id == IF old = {} THEN 1 + Max(DOMAIN o.related \cup {0}) ELSE Min(old)
      members == {t, c} \cup UNION {o.related[i].tasks : i \in old}
      max == Max({o.related[i].max_value : i \in old}
                 \cup {Len(o.tasks[t].competitor) + 1})
      kept == Restrict(o.related, DOMAIN o.related \ old)
  IN  [o EXCEPT
        !.related = With(kept, id, [max_value |-> max, tasks |-> members]),
        !.tasks = [n \in DOMAIN o.tasks |->
                    IF n \in members /\ (old = {} \/ o.tasks[n].id_related # 0)
                    THEN [o.tasks[n] EXCEPT !.id_related = id]
                    ELSE o.tasks[n]]]

\* Deviation: max_value is only set when a list is created.
RelateKeepsMaximum(o, t, c) ==
  LET old == {o.tasks[t].id_related, o.tasks[c].id_related} \ {0}
      id == IF old = {} THEN 1 + Max(DOMAIN o.related \cup {0}) ELSE Min(old)
      members == {t, c} \cup UNION {o.related[i].tasks : i \in old}
      max == IF old = {} THEN Len(o.tasks[t].competitor) + 1
             ELSE Max({o.related[i].max_value : i \in old})
      kept == Restrict(o.related, DOMAIN o.related \ old)
  IN  [o EXCEPT
        !.related = With(kept, id, [max_value |-> max, tasks |-> members]),
        !.tasks = [n \in DOMAIN o.tasks |->
                    IF n \in members THEN [o.tasks[n] EXCEPT !.id_related = id]
                    ELSE o.tasks[n]]]

\* Deviation: t and c always get a list of their own.
RelateAnew(o, t, c) ==
  LET id == 1 + Max(DOMAIN o.related \cup {0})
      Left(i) == [o.related[i] EXCEPT !.tasks = @ \ {t, c}]
      kept == {i \in DOMAIN o.related : Left(i).tasks # {}}
  IN  [o EXCEPT
        !.related = With([i \in kept |-> Left(i)], id,
                         [max_value |-> Len(o.tasks[t].competitor) + 1,
                          tasks |-> {t, c}]),
        !.tasks = [n \in DOMAIN o.tasks |->
                    IF n \in {t, c} THEN [o.tasks[n] EXCEPT !.id_related = id]
                    ELSE o.tasks[n]]]

\* Deviation: the list that is taken over is not erased.
RelateKeepsBoth(o, t, c) ==
  LET own == o.tasks[t].id_related
      other == o.tasks[c].id_related
      old == {own, other} \ {0}
      id == IF old = {} THEN 1 + Max(DOMAIN o.related \cup {0})
            ELSE IF own = 0 THEN other ELSE own
      members == {t, c} \cup UNION {o.related[i].tasks : i \in old}
      max == Max({o.related[i].max_value : i \in old}
                 \cup {Len(o.tasks[t].competitor) + 1})
      kept == Restrict(o.related, DOMAIN o.related \ {id})
  IN  [o EXCEPT
        !.related = With(kept, id, [max_value |-> max, tasks |-> members]),
        !.tasks = [n \in DOMAIN o.tasks |->
                    IF n \in members THEN [o.tasks[n] EXCEPT !.id_related = id]
                    ELSE o.tasks[n]]]

\* Puts t and c on one list: a new one, the one of them that is on a list,
\* or the longer of two (t's if they are equally long), which takes over the
\* other's tasks and the larger max_value.  Then max_value is updated.
Relate(o, t, c) ==
  LET own == o.tasks[t].id_related
      other == o.tasks[c].id_related
      old == {own, other} \ {0}
      Size(i) == Cardinality(o.related[i].tasks)
      id == IF old = {} THEN 1 + Max(DOMAIN o.related \cup {0})
            ELSE IF own = 0 \/ (other # 0 /\ Size(own) < Size(other))
            THEN other ELSE own
      members == {t, c} \cup UNION {o.related[i].tasks : i \in old}
      maxima == {o.related[i].max_value : i \in old}
      max == Max(maxima \cup {Len(o.tasks[t].competitor) + 1})
      kept == Restrict(o.related, DOMAIN o.related \ old)
  IN  [o EXCEPT
        !.related = With(kept, id, [max_value |-> max, tasks |-> members]),
        !.tasks = [n \in DOMAIN o.tasks |->
                    IF n \in members THEN [o.tasks[n] EXCEPT !.id_related = id]
                    ELSE o.tasks[n]]]

RaiseValue(o, t) == [o EXCEPT !.tasks[t].value[o.tasks[t].core] = @ + 1]

DeadlineReached(o, t) ==
  LET Blame(c) == IF c = NoTask THEN o ELSE Relate(AddCompetitor(o, t, c), t, c)
      raised == {RaiseValue(Blame(c), t) : c \in Causes(o, t)}
      reset == {IF x.tasks[t].id_related = 0 THEN x ELSE ResetValues(x, t) : x \in raised}
  IN  {SetToSchedule(x, t) : x \in reset}

-----------------------------------------------------------------------------
(* _remove_task *)

Ended(foc, cause) == [last_foc_id |-> foc, cause_of_death |-> cause]

\* Takes t off n's competitors and updates who may be scheduled.
Unlist(o, n, t) ==
  LET comp == o.tasks[n].competitor
      rest == RemoveAt(comp, Min({i \in DOMAIN comp : comp[i] = t}))
      cut == [o EXCEPT !.tasks[n].competitor = rest]
  IN  IF t \notin Range(comp) THEN o
      ELSE IF rest = <<>> THEN Allow(cut, n, {}) ELSE SetToSchedule(cut, n)

\* Goes through the tasks in the order in which the map holds them.
UnlistAll(o, t, order) ==
  LET after[i \in 0 .. Len(order)] ==
        IF i = 0 THEN o ELSE Unlist(after[i - 1], order[i], t)
  IN  after[Len(order)]

\* Deviation: the last task of a dissolved list keeps its id.
UnrelateForgetsLast(o, id, t) ==
  IF id = 0 THEN o
  ELSE IF Cardinality(o.related[id].tasks \ {t}) # 1 THEN Abort(o)
  ELSE [o EXCEPT !.related = Restrict(@, DOMAIN @ \ {id})]

\* Takes t off its list.  With two or more tasks left the code reads
\* _tasks.at(t), which it has just erased; with none left it dereferences an
\* end iterator.
Unrelate(o, id, t) ==
  LET left == o.related[id].tasks \ {t}
  IN  IF id = 0 THEN o
      ELSE IF Cardinality(left) # 1 THEN Abort(o)
      ELSE [o EXCEPT
             !.related = Restrict(@, DOMAIN @ \ {id}),
             !.tasks = [n \in DOMAIN @ |->
                         IF n \in left THEN [@[n] EXCEPT !.id_related = 0] ELSE @[n]]]

Erase(o, t, foc, cause) ==
  [o EXCEPT
    !.tasks = Restrict(o.tasks, DOMAIN o.tasks \ {t}),
    !.ended = IF t \in DOMAIN o.ended THEN o.ended
              ELSE With(o.ended, t, Ended(foc, cause))]

RemoveTask(o, t, foc, cause) ==
  LET id == o.tasks[t].id_related
      erased == Erase(o, t, foc, cause)
  IN  {Unrelate(UnlistAll(erased, t, order), id, t) :
         order \in SetToSeqs(DOMAIN o.tasks \ {t})}

-----------------------------------------------------------------------------
(* _set_newest_job, _set_arrival_time, _task_executed, _task_not_executed *)

\* Deviation: the comparison of arrival times is left out.
SetNewestJobAlways(o, t, k) ==
  [o EXCEPT !.tasks[t].newest_job =
    [foc_id |-> mon[k].foc_id, arrival_time |-> mon[k].arrival_time,
     core |-> mon[k].core, dispatched |-> FALSE]]

SetNewestJob(o, t, k) ==
  IF ~(mon[k].arrival_time > o.tasks[t].newest_job.arrival_time) THEN o
  ELSE [o EXCEPT !.tasks[t].newest_job =
         [foc_id |-> mon[k].foc_id, arrival_time |-> mon[k].arrival_time,
          core |-> mon[k].core, dispatched |-> FALSE]]

SetArrivalTime(o, t, k, reached) ==
  [o EXCEPT !.tasks[t].arrival_time =
    Arrival(k) + IF reached THEN InterArrival[t] ELSE 0]

InTime(t, k) ==
  /\ mon[k].exit_time > 0
  /\ mon[k].exit_time <= mon[k].arrival_time + Deadline[t]

\* Deviation: the value is lowered without looking at it.
RewardBelowZero(o, t, k) ==
  [o EXCEPT
    !.tasks[t].value[mon[k].core] = @ - 1,
    !.tasks[t].utilization = mon[k].execution_time \div InterArrival[t]]

\* A job of t that met its deadline: lower the value of its core.
Reward(o, t, k) ==
  [o EXCEPT
    !.tasks[t].value[mon[k].core] = IF @ > 0 THEN @ - 1 ELSE @,
    !.tasks[t].utilization = mon[k].execution_time \div InterArrival[t]]

Move(o, t, core) == [o EXCEPT !.tasks[t].core = core]

Dispatch(o, t, b) == [o EXCEPT !.tasks[t].newest_job.dispatched = @ \/ b]

TaskExecuted(o, t, k, set) ==
  LET moved == Move(o, t, mon[k].core)
      judged == IF InTime(t, k) THEN {Reward(moved, t, k)}
                ELSE UNION {DeadlineReached(x, t) : x \in {moved}}
      same(x) == mon[k].foc_id = x.tasks[t].newest_job.foc_id
  IN  IF set
      THEN {Dispatch(SetToSchedule(x, t), t, same(x)) : x \in judged}
      ELSE judged

\* Deviation: a job killed when its deadline had just come counts as early.
InRipLate(o, t, dead) ==
  IF ~o.up THEN {o}
  ELSE IF t \notin DOMAIN o.tasks THEN {Abort(o)}
  ELSE LET job == o.tasks[t].newest_job IN
    IF job.foc_id # dead.foc_id THEN {o}
    ELSE IF dead.time > job.arrival_time + Deadline[t]
    THEN {Dispatch(y, t, TRUE) :
            y \in UNION {DeadlineReached(x, t) : x \in {Move(o, t, job.core)}}}
    ELSE RemoveTask(o, t, dead.foc_id, "KILLED")

\* One round of the loop over the dead-threads list.
InRip(o, t, dead) ==
  IF ~o.up THEN {o}
  ELSE IF t \notin DOMAIN o.tasks THEN {Abort(o)}
  ELSE LET job == o.tasks[t].newest_job IN
    IF job.foc_id # dead.foc_id THEN {o}
    ELSE IF dead.time >= job.arrival_time + Deadline[t]
    THEN {Dispatch(y, t, TRUE) :
            y \in UNION {DeadlineReached(x, t) : x \in {Move(o, t, job.core)}}}
    ELSE RemoveTask(o, t, dead.foc_id, "KILLED")

\* The loop over the dead-threads list.
SearchRip(o, t) ==
  LET after[i \in 0 .. Len(rip)] ==
        IF i = 0 THEN {o} ELSE UNION {InRip(x, t, rip[i]) : x \in after[i - 1]}
  IN  after[Len(rip)]

\* Deviation: a task is taken for finished without having announced its end.
TaskNotExecutedTooSoon(o, t) ==
  LET task == o.tasks[t]
      job == task.newest_job
  IN  IF ~task.to_schedule THEN {SetToSchedule(ResetValues(RaiseValue(o, t), t), t)}
      ELSE IF ~job.dispatched /\ task.arrival_time <= job.arrival_time
      THEN SearchRip(o, t)
      ELSE IF job.dispatched
      THEN RemoveTask(o, t, job.foc_id, "FINISHED")
      ELSE {o}

TaskNotExecuted(o, t) ==
  LET task == o.tasks[t]
      job == task.newest_job
  IN  IF ~task.to_schedule THEN {SetToSchedule(ResetValues(RaiseValue(o, t), t), t)}
      ELSE IF ~job.dispatched /\ task.arrival_time <= job.arrival_time
      THEN SearchRip(o, t)
      ELSE IF job.dispatched /\ task.last_job_started
      THEN RemoveTask(o, t, job.foc_id, "FINISHED")
      ELSE {o}

-----------------------------------------------------------------------------
(* _query_monitor *)

\* The first of those that arrived last.
Latest(ks) == Min({k \in ks : \A j \in ks : Arrival(j) <= Arrival(k)})

\* The most and the second most recent of the new threads.  Both start as
\* (unsigned) -1, here 0, and the test for "not set" is never true.  A thread
\* that is the most recent when it is met is not considered as the second.
Recent(new) ==
  LET overtaken == {k \in new : \E j \in {0} \cup new :
                                  j < k /\ Arrival(j) >= Arrival(k)}
  IN  [most |-> Latest({0} \cup new), second |-> Latest({0} \cup overtaken)]

Reached(t, k) == current >= Arrival(k) + Deadline[t]

\* One round of the loop over the new threads.  It counts i up to their number
\* and uses i itself as the index into _threads.
HandleNewJob(o, t, new, i) ==
  LET recent == Recent(new)
      reached == Reached(t, recent.most)
      consider == IF reached THEN recent.most ELSE recent.second
  IN  IF i = recent.most /\ ~reached THEN {SetNewestJob(o, t, i)}
      ELSE TaskExecuted(o, t, i, i = consider)

ManyNewJobs(o, t, new) ==
  LET after[i \in 0 .. Cardinality(new)] ==
        IF i = 0 THEN {o}
        ELSE UNION {HandleNewJob(x, t, new, i) : x \in after[i - 1]}
      most == Recent(new).most
  IN  {SetArrivalTime(x, t, most, Reached(t, most)) : x \in after[Cardinality(new)]}

OneNewJob(o, t, k) ==
  LET handled == IF Reached(t, k) THEN TaskExecuted(o, t, k, TRUE)
                 ELSE {SetNewestJob(o, t, k)}
  IN  {SetArrivalTime(x, t, k, Reached(t, k)) : x \in handled}

React(o, t, new) ==
  IF Cardinality(new) = 1 THEN OneNewJob(o, t, Min(new))
  ELSE IF new # {} THEN ManyNewJobs(o, t, new)
  ELSE IF o.tasks[t].arrival_time > 0 THEN TaskNotExecuted(o, t)
  ELSE {o}

\* The indices of the new threads of t.
NewThreads(o, t) ==
  {k \in DOMAIN mon : /\ mon[k].name = t
                      /\ mon[k].arrival_time >= o.tasks[t].arrival_time
                      /\ mon[k].arrival_time < current}

\* Deviation: a job of another task is stored as the asked task's newest.
NoteMixed(o, t) ==
  LET others == {k \in DOMAIN mon : mon[k].name \in DOMAIN o.tasks \ {t}}
  IN  IF others = {} THEN o ELSE SetNewestJob(o, t, Latest(others))

\* The threads of the other tasks are stored as their newest jobs.
NoteOthers(o, t) ==
  LET Listed(n) == {k \in DOMAIN mon : mon[k].name = n}
  IN  [o EXCEPT !.tasks =
        [n \in DOMAIN o.tasks |->
          IF n = t \/ Listed(n) = {} THEN o.tasks[n]
          ELSE SetNewestJob(o, n, Latest(Listed(n))).tasks[n]]]

QueryMonitor(o, t) == React(NoteOthers(o, t), t, NewThreads(o, t))

-----------------------------------------------------------------------------
(* The RPCs.  Only one is served at a time.                                *)

Init ==
  /\ tasks = <<>> /\ ended = <<>> /\ related = <<>>
  /\ goal = "NONE"
  /\ up = TRUE
  /\ serving = NoTask /\ phase = "idle" /\ current = 0 /\ mon = <<>>
  /\ now = 0
  /\ threads = [k \in DOMAIN Residents |->
                 [name |-> Residents[k], foc_id |-> k, arrival_time |-> 0,
                  exit_time |-> 0, core |-> 0, execution_time |-> 0]]
  /\ rip = <<>>
  /\ jobs = 0

Idle == up /\ serving = NoTask

NewTask(core) ==
  [core |-> core, arrival_time |-> 0, to_schedule |-> TRUE,
   last_job_started |-> FALSE, competitor |-> <<>>, id_related |-> 0,
   newest_job |-> [foc_id |-> 0, arrival_time |-> 0, core |-> 0,
                   dispatched |-> TRUE],
   value |-> [c \in Cores |-> 0], utilization |-> 1]

AddTask(n, core) ==
  /\ Idle
  /\ now <= SetupTime
  /\ n \notin DOMAIN tasks    \* insert keeps what is there
  /\ tasks' = With(tasks, n, NewTask(core))
  /\ UNCHANGED <<ended, related, goal, up, callVars, envVars>>

LastJobStarted(n) ==   \* called by the loader, which started a job before
  /\ Idle
  /\ n \in DOMAIN tasks \cap Finite
  /\ \E k \in DOMAIN threads : threads[k].name = n
  /\ tasks' = [tasks EXCEPT ![n].last_job_started = TRUE]
  /\ UNCHANGED <<ended, related, goal, up, callVars, envVars>>

SetGoal(g) ==
  /\ Idle
  /\ now <= SetupTime
  /\ goal' = g
  /\ UNCHANGED <<tasks, ended, related, up, callVars, envVars>>

\* What the loader is told: 1 yes, 0 no, -1 for a task that ended or is unknown.
SchedulingAllowed(n) ==
  IF n \notin DOMAIN tasks THEN -1 ELSE IF tasks[n].to_schedule THEN 1 ELSE 0

StartOptimizing(n) ==
  /\ Idle
  /\ n \in DOMAIN tasks
  /\ serving' = n
  /\ phase' = "wait"
  /\ UNCHANGED <<optVars, current, mon, envVars>>

\* The round of the polling loop in which the deadline has come; the rounds
\* before it only sleep.
Poll(t) ==
  /\ up /\ phase = "wait"
  /\ t \in now - Lag .. now
  /\ LET task == tasks[serving]
     IN  \/ t >= task.arrival_time + Deadline[serving]
         \/ task.arrival_time = 0
  /\ current' = t
  /\ mon' = threads
  /\ phase' = "analyse"
  /\ UNCHANGED <<optVars, serving, envVars>>

\* What the value arrays hold: add_task leaves each task a pointer to an array
\* in its own stack frame, which later calls may have overwritten.
Clobber(ts) ==
  {ts} \cup {[n \in DOMAIN ts |-> [ts[n] EXCEPT !.value = v[n]]] :
               v \in [DOMAIN ts -> [Cores -> StackWords]]}

Analyse ==
  /\ up /\ phase = "analyse"
  /\ \E ts \in Clobber(tasks) :
       LET before == [tasks |-> ts, ended |-> ended, related |-> related, up |-> TRUE]
       IN  \E o \in QueryMonitor(before, serving) :
             /\ tasks' = IF o.up THEN o.tasks ELSE <<>>
             /\ ended' = IF o.up THEN o.ended ELSE <<>>
             /\ related' = IF o.up THEN o.related ELSE <<>>
             /\ up' = o.up
  /\ current' = now
  /\ mon' = <<>>
  /\ phase' = "sleep"
  /\ UNCHANGED <<goal, serving, envVars>>

Return ==   \* after msleep(query_intervall)
  /\ up /\ phase = "sleep"
  /\ now > current
  /\ serving' = NoTask
  /\ phase' = "idle"
  /\ current' = 0
  /\ UNCHANGED <<optVars, mon, envVars>>

-----------------------------------------------------------------------------
(* The kernel, the task loader and the user, followed while the optimizer  *)
(* lives.                                                                  *)

Tick ==
  /\ up
  /\ now < MaxTime
  /\ now' = now + 1
  /\ UNCHANGED <<optVars, callVars, threads, rip, jobs>>

\* The loader asks scheduling_allowed first, keeps to the inter-arrival time
\* and starts no job after the one it announced as the last.
StartJob(n, core) ==
  /\ Idle
  /\ SchedulingAllowed(n) = 1
  /\ ~tasks[n].last_job_started
  /\ \A k \in DOMAIN threads :
       threads[k].name = n => now >= threads[k].arrival_time + InterArrival[n]
  /\ now \in 1 .. MaxTime - 1
  /\ jobs < MaxJobs
  /\ jobs' = jobs + 1
  /\ threads' = Append(threads,
       [name |-> n, foc_id |-> Len(Residents) + jobs + 1, arrival_time |-> now,
        exit_time |-> 0, core |-> core, execution_time |-> 0])
  /\ UNCHANGED <<optVars, callVars, now, rip>>

Running(k) == up /\ threads[k].name \in Names /\ threads[k].exit_time = 0

EndJob(k, time) ==   \* a job takes a tick at least
  /\ Running(k)
  /\ threads[k].arrival_time < now
  /\ threads' = [threads EXCEPT ![k].exit_time = now,
                                ![k].execution_time = time]
  /\ UNCHANGED <<optVars, callVars, now, rip, jobs>>

KillJob(k) ==
  /\ Running(k)
  /\ Len(rip) < MaxKills
  /\ threads' = RemoveAt(threads, k)
  /\ rip' = Append(rip, [foc_id |-> threads[k].foc_id, time |-> now])
  /\ UNCHANGED <<optVars, callVars, now, jobs>>

DropJob(k) ==   \* an ended thread leaves the monitor's list
  /\ up
  /\ threads[k].exit_time > 0
  /\ Len(Residents) + jobs - Len(rip) - Len(threads) < MaxDrops
  /\ threads' = RemoveAt(threads, k)
  /\ UNCHANGED <<optVars, callVars, now, rip, jobs>>

Environment ==
  \/ Tick
  \/ \E n \in Names, core \in Cores : StartJob(n, core)
  \/ \E k \in DOMAIN threads :
       \/ \E time \in ExecTimes : EndJob(k, time)
       \/ KillJob(k)
       \/ DropJob(k)

Call ==
  \/ \E n \in Names, core \in Cores : AddTask(n, core)
  \/ \E n \in Names : LastJobStarted(n) \/ StartOptimizing(n)
  \/ \E g \in Goals \ {goal} : SetGoal(g)
  \/ \E t \in 0 .. MaxTime : Poll(t)
  \/ Analyse
  \/ Return

Next == Environment \/ Call

Spec == Init /\ [][Next]_vars

-----------------------------------------------------------------------------
(* Properties *)

Job == [foc_id : Nat, arrival_time : Nat, core : Cores, dispatched : BOOLEAN]

Task ==
  [core : Cores, arrival_time : Nat, to_schedule : BOOLEAN,
   last_job_started : BOOLEAN, competitor : Seq(Names), id_related : Nat,
   newest_job : Job, value : [Cores -> Nat], utilization : Nat]

EndedTask == [last_foc_id : Nat, cause_of_death : {"KILLED", "FINISHED"}]

RelatedList == [max_value : Nat, tasks : SUBSET Names]

Thread ==
  [name : Names \cup Range(Residents), foc_id : Nat, arrival_time : Nat,
   exit_time : Nat, core : Cores, execution_time : Nat]

TypeOK ==
  /\ DOMAIN tasks \subseteq Names /\ tasks \in [DOMAIN tasks -> Task]
  /\ DOMAIN ended \subseteq Names /\ ended \in [DOMAIN ended -> EndedTask]
  /\ DOMAIN related \subseteq Nat \ {0} /\ related \in [DOMAIN related -> RelatedList]
  /\ goal \in {"NONE", "FAIRNESS", "UTILIZATION"}
  /\ up \in BOOLEAN
  /\ serving \in Names \cup {NoTask}
  /\ phase \in {"idle", "wait", "analyse", "sleep"}
  /\ {current, now, jobs} \subseteq Nat
  /\ mon \in Seq(Thread) /\ threads \in Seq(Thread)
  /\ rip \in Seq([foc_id : Nat, time : Nat])

(* The lists of related tasks partition the tasks that are on one: a task  *)
(* is on the list its id_related names and on no other, every list that    *)
(* exists has tasks, all of them alive.  The .at() lookups of the          *)
(* optimizer rest on this through additions, merges and removals.          *)
RelatedPartition ==
  /\ \A n \in DOMAIN tasks : tasks[n].id_related # 0 =>
       tasks[n].id_related \in DOMAIN related
  /\ \A id \in DOMAIN related :
       /\ related[id].tasks # {}
       /\ related[id].tasks = {n \in DOMAIN tasks : tasks[n].id_related = id}

(* A competitor is a living task, listed once, and on the same list of     *)
(* related tasks as the task it competes with.                             *)
CompetitorsRelated ==
  \A n \in DOMAIN tasks :
    LET comp == tasks[n].competitor
    IN  /\ IsInjective(comp)
        /\ \A c \in Range(comp) :
             /\ c \in DOMAIN tasks
             /\ c # n => /\ tasks[c].id_related = tasks[n].id_related
                         /\ tasks[n].id_related # 0

(* max_value, up to which a task's value counts misses before all related  *)
(* tasks are lowered, is the size of the largest group (a task and its     *)
(* competitors) on the list, also after lists were merged.                 *)
MaxValueExact ==
  \A id \in DOMAIN related :
    related[id].max_value =
      1 + Max({Len(tasks[n].competitor) : n \in related[id].tasks})

OwnRival(n) == n \in Range(tasks[n].competitor)

(* The tasks of a list do not deny each other in a circle: as long as none *)
(* of them was made its own competitor, one of them may be scheduled.      *)
SomeoneMayRun ==
  \A id \in DOMAIN related :
    \/ \E n \in related[id].tasks : tasks[n].to_schedule
    \/ \E n \in related[id].tasks : OwnRival(n)

(* What the optimizer knows of a task's jobs only moves forward, whatever  *)
(* order the monitor lists threads in and however late it is asked: the    *)
(* arrival time a task is waited for, and the job it will look up among    *)
(* the dead.                                                               *)
JobsForward ==
  [][\A n \in DOMAIN tasks \cap DOMAIN tasks' :
       /\ tasks'[n].arrival_time >= tasks[n].arrival_time
       /\ tasks'[n].newest_job.arrival_time >= tasks[n].newest_job.arrival_time]_vars

(* A task that ended is remembered as long as the process lives: it leaves *)
(* the task list only for the list of ended tasks, whose entries stay, and *)
(* only if it announced its last job or its newest job was killed before   *)
(* its deadline.                                                           *)
EndedRemembered ==
  [][up' => /\ DOMAIN tasks \subseteq DOMAIN tasks' \cup DOMAIN ended'
            /\ \A n \in DOMAIN ended : n \in DOMAIN ended' /\ ended'[n] = ended[n]
            /\ \A n \in DOMAIN tasks \ DOMAIN tasks' :
                 \/ tasks[n].last_job_started
                 \/ \E d \in Range(rip) :
                      LET job == tasks[n].newest_job
                      IN  /\ d.foc_id = job.foc_id
                          /\ d.time < job.arrival_time + Deadline[n]]_vars

(* newest_job is a job of the task it is stored in, so what the optimizer  *)
(* finds among the dead under its foc_id is that task's death.             *)
NewestJobIsOwn ==
  \A n \in DOMAIN tasks, k \in DOMAIN threads :
    threads[k].foc_id = tasks[n].newest_job.foc_id => threads[k].name = n

(* The ids, maps and sets of names implement the groups of RelatedTasks:   *)
(* an analysis leaves the lists of tasks it has no business with as they   *)
(* are, lists merge but never split, and a list goes only with its last    *)
(* pair, whatever happens in one analysis.                                 *)
Groups == INSTANCE RelatedTasks
            WITH alive <- DOMAIN tasks, gone <- DOMAIN ended,
                 groups <- {related[id].tasks : id \in DOMAIN related}

ImplementsGroups == Groups!Spec

-----------------------------------------------------------------------------
(* What the comments promise and the code does not keep.                   *)

(* Removing an ended task does not end the optimizer: "if this list now    *)
(* only contains one competitor, this list is not required any more"       *)
(* (sched_opt.cc:806), else its max_value is recomputed (814-825).         *)
RemovalSurvives == up

(* Nobody waits for a deleted task (sched_opt.cc:789): a task is denied    *)
(* only while it or another task counts it among competitors.              *)
DeniedForAReason ==
  \A n \in DOMAIN tasks :
    \/ tasks[n].to_schedule
    \/ tasks[n].competitor # <<>>
    \/ \E m \in DOMAIN tasks : n \in Range(tasks[m].competitor)

(* The task with the greatest value is the one that is allowed             *)
(* (sched_opt.cc:903-916), so in no list all tasks are denied.             *)
GreatestAllowed ==
  \A id \in DOMAIN related : \E n \in related[id].tasks : tasks[n].to_schedule
==============================================================================
