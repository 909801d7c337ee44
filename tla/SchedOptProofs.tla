----------------------------- MODULE SchedOptProofs -----------------------------
(***************************************************************************)
(* Proofs about the optimizer, for any set of tasks, any periods and any   *)
(* history of the kernel.                                                  *)
(***************************************************************************)
EXTENDS SchedOptLemmas

-----------------------------------------------------------------------------
(* A job that was executed                                                 *)

LEMMA MoveFollows ==
  ASSUME NEW o, Sound(o), NEW t \in DOMAIN o.tasks, NEW core \in Cores
  PROVE  /\ Follows(o, Move(o, t, core), t)
         /\ Kept(o, Move(o, t, core), {"newest_job"})
  <1> DEFINE x == Move(o, t, core)
  <1>1. o \in Opt
    BY DEF Sound
  <1>2. Kept(o, x, Fields \ {"core"}) /\ x.related = o.related
    BY <1>1, MoveKeeps
  <1> HIDE DEF x
  <1>3. {"to_schedule", "competitor", "id_related", "arrival_time", "last_job_started",
         "newest_job"} \subseteq Fields \ {"core"}
    BY DEF Fields
  <1>4. JobsFrom(o, x)
    BY <1>1, <1>2, <1>3, JobsKept
  <1>5. Follows(o, x, t)
    BY <1>2, <1>3, <1>4, FollowsKept
  <1>6. Kept(o, x, {"newest_job"})
    BY <1>2, <1>3, KeptFewer
  <1> QED
    BY <1>5, <1>6 DEF x

(* Rewarding a job in time changes no list.                                *)
LEMMA RewardFollows ==
  ASSUME NEW o, Sound(o), NEW t \in DOMAIN o.tasks, Fetched, NEW k \in DOMAIN mon
  PROVE  /\ Follows(o, Reward(o, t, k), t)
         /\ Kept(o, Reward(o, t, k), {"newest_job"})
  <1> DEFINE x == Reward(o, t, k)
  <1>1. o \in Opt
    BY DEF Sound
  <1>2. Kept(o, x, Fields \ {"value", "utilization"}) /\ x.related = o.related
    BY <1>1, RewardKeeps
  <1> HIDE DEF x
  <1>3. {"to_schedule", "competitor", "id_related", "arrival_time", "last_job_started",
         "newest_job"} \subseteq Fields \ {"value", "utilization"}
    BY DEF Fields
  <1>4. JobsFrom(o, x)
    BY <1>1, <1>2, <1>3, JobsKept
  <1>5. Follows(o, x, t)
    BY <1>2, <1>3, <1>4, FollowsKept
  <1>6. Kept(o, x, {"newest_job"})
    BY <1>2, <1>3, KeptFewer
  <1> QED
    BY <1>5, <1>6 DEF x

(* Marking a job as dispatched changes no list.                            *)
LEMMA DispatchFollows ==
  ASSUME NEW o, Sound(o), NEW t \in DOMAIN o.tasks, NEW b \in BOOLEAN
  PROVE  /\ Follows(o, Dispatch(o, t, b), t)
         /\ SameJob(o, Dispatch(o, t, b), t)
  <1> DEFINE x == Dispatch(o, t, b)
  <1>1. o \in Opt
    BY DEF Sound
  <1>2. /\ Kept(o, x, Fields \ {"newest_job"}) /\ x.related = o.related
        /\ \A n \in DOMAIN o.tasks :
             /\ x.tasks[n].newest_job.foc_id = o.tasks[n].newest_job.foc_id
             /\ x.tasks[n].newest_job.arrival_time = o.tasks[n].newest_job.arrival_time
    BY <1>1, DispatchKeeps
  <1> HIDE DEF x
  <1>3. {"to_schedule", "competitor", "id_related", "arrival_time", "last_job_started"}
          \subseteq Fields \ {"newest_job"}
    BY DEF Fields
  <1>4. JobsFrom(o, x)
    BY <1>1, <1>2, JobOf DEF JobsFrom
  <1>5. Follows(o, x, t)
    BY <1>2, <1>3, <1>4, FollowsKept
  <1>6. SameJob(o, x, t)
    BY <1>2 DEF SameJob
  <1> QED
    BY <1>5, <1>6 DEF x

(* Storing a newer job changes no list.                                    *)
LEMMA SetNewestJobFollows ==
  ASSUME NEW o, Sound(o), NEW t \in DOMAIN o.tasks, Fetched, NEW k \in DOMAIN mon,
         mon[k].name = t
  PROVE  Follows(o, SetNewestJob(o, t, k), t)
  <1> DEFINE x == SetNewestJob(o, t, k)
  <1>1. o \in Opt
    BY DEF Sound
  <1>2. Kept(o, x, Fields \ {"newest_job"}) /\ x.related = o.related /\ JobsFrom(o, x)
    BY <1>1, SetNewestJobKeeps
  <1> HIDE DEF x
  <1>3. {"to_schedule", "competitor", "id_related", "arrival_time", "last_job_started"}
          \subseteq Fields \ {"newest_job"}
    BY DEF Fields
  <1>4. Follows(o, x, t)
    BY <1>2, <1>3, FollowsKept
  <1> QED
    BY <1>4 DEF x

(* The served task is still there.                                         *)
LEMMA FollowsKeepsTask ==
  ASSUME NEW o, NEW x, NEW t \in DOMAIN o.tasks, Follows(o, x, t)
  PROVE  Sound(x) /\ x \in Opt /\ t \in DOMAIN x.tasks
  BY DEF Follows, Passes, Kept

(* The job looked for stays the same through two steps.                    *)
LEMMA SameJobAgain ==
  ASSUME NEW o, NEW x, NEW y, NEW t, SameJob(o, x, t), SameJob(x, y, t)
  PROVE  SameJob(o, y, t)
  BY DEF SameJob

(* The job looked for stays the same when newest jobs do.                  *)
LEMMA SameJobKept ==
  ASSUME NEW o, NEW x, NEW t \in DOMAIN o.tasks, Kept(o, x, {"newest_job"})
  PROVE  SameJob(o, x, t)
  BY DEF SameJob, Kept

(* Judging a job that ended follows.                                       *)
LEMMA TaskExecutedFollows ==
  ASSUME NEW o, Sound(o), NEW t \in DOMAIN o.tasks, Fetched, NEW k \in DOMAIN mon,
         NEW set \in BOOLEAN, NEW x \in TaskExecuted(o, t, k, set)
  PROVE  Follows(o, x, t) /\ SameJob(o, x, t)
  <1> DEFINE m == Move(o, t, mon[k].core)
             judged == IF InTime(t, k) THEN {Reward(m, t, k)} ELSE DeadlineReached(m, t)
             same(y) == mon[k].foc_id = y.tasks[t].newest_job.foc_id
             Settle(y) == Dispatch(SetToSchedule(y, t), t, same(y))
  <1>1. UNION {DeadlineReached(y, t) : y \in {m}} = DeadlineReached(m, t)
    OBVIOUS
  <1>2. x \in IF set THEN {Settle(y) : y \in judged} ELSE judged
    BY <1>1 DEF TaskExecuted
  <1>3. o \in Opt
    BY DEF Sound
  <1>4. Follows(o, m, t) /\ SameJob(o, m, t)
    <2>1. mon[k].core \in Cores
      BY MonitoredThread
    <2> QED
      BY <2>1, MoveFollows, SameJobKept
  <1> HIDE DEF m
  <1>5. Sound(m) /\ m \in Opt /\ t \in DOMAIN m.tasks
    BY <1>4, FollowsKeepsTask
  <1>6. ASSUME NEW y \in judged PROVE Follows(o, y, t) /\ SameJob(o, y, t)
    <2>1. Follows(m, y, t) /\ SameJob(m, y, t)
      <3>1. CASE InTime(t, k)
        <4>1. y = Reward(m, t, k)
          BY <3>1, <1>6
        <4> QED
          BY <4>1, <1>5, RewardFollows, SameJobKept
      <3>2. CASE ~InTime(t, k)
        <4>1. y \in DeadlineReached(m, t)
          BY <3>2, <1>6
        <4> QED
          BY <4>1, <1>5, DeadlineReachedFollows, SameJobKept
      <3> QED
        BY <3>1, <3>2
    <2> QED
      BY <2>1, <1>3, <1>4, FollowsAgain, SameJobAgain
  <1> HIDE DEF judged
  <1>7. CASE ~set
    BY <1>2, <1>6, <1>7
  <1>8. CASE set
    <2>1. PICK y \in judged : x = Settle(y)
      BY <1>2, <1>8
    <2> DEFINE s == SetToSchedule(y, t)
    <2>2. Follows(o, y, t) /\ SameJob(o, y, t)
      BY <1>6
    <2>3. Sound(y) /\ t \in DOMAIN y.tasks
      BY <2>2, FollowsKeepsTask
    <2>4. Follows(y, s, t) /\ SameJob(y, s, t)
      BY <2>3, ScheduleFollows, SameJobKept
    <2>5. x = Dispatch(s, t, same(y)) /\ same(y) \in BOOLEAN
      BY <2>1
    <2> HIDE DEF s, same
    <2>6. Sound(s) /\ t \in DOMAIN s.tasks
      BY <2>3, <2>4, FollowsKeepsTask
    <2>7. Follows(s, x, t) /\ SameJob(s, x, t)
      BY <2>5, <2>6, DispatchFollows
    <2>8. Follows(o, s, t) /\ SameJob(o, s, t)
      BY <1>3, <2>2, <2>4, FollowsAgain, SameJobAgain
    <2> QED
      BY <1>3, <2>7, <2>8, FollowsAgain, SameJobAgain
  <1> QED
    BY <1>7, <1>8

-----------------------------------------------------------------------------
(* A task that is removed                                                  *)

(* Taking an entry out of a sequence moves the later ones up.              *)
LEMMA RemoveAtShifts ==
  ASSUME NEW S, NEW s \in Seq(S), NEW k \in DOMAIN s
  PROVE  /\ RemoveAt(s, k) \in Seq(S)
         /\ DOMAIN RemoveAt(s, k) = 1 .. Len(s) - 1
         /\ \A i \in 1 .. Len(s) - 1 : RemoveAt(s, k)[i] = IF i < k THEN s[i] ELSE s[i + 1]
  <1> DEFINE n == Len(s)
             a == SubSeq(s, 1, k - 1)
             b == SubSeq(s, k + 1, n)
             r == RemoveAt(s, k)
  <1>1. n \in Nat /\ k \in 1 .. n /\ DOMAIN s = 1 .. n
    OBVIOUS
  <1>2. a \in Seq(S) /\ Len(a) = k - 1 /\ \A i \in 1 .. k - 1 : a[i] = s[i]
    BY <1>1
  <1>3. b \in Seq(S) /\ Len(b) = n - k /\ \A i \in 1 .. n - k : b[i] = s[i + k]
    BY <1>1
  <1>4. r = a \o b
    BY DEF RemoveAt
  <1> HIDE DEF a, b, r, n
  <1>5. r \in Seq(S) /\ Len(r) = n - 1 /\ DOMAIN r = 1 .. n - 1
    <2>0. a \in Seq(S) /\ b \in Seq(S)
      BY <1>2, <1>3
    <2>1. r \in Seq(S) /\ Len(r) = Len(a) + Len(b)
      BY <2>0, <1>4, ConcatProperties
    <2>2. Len(r) = n - 1
      BY <2>1, <1>1, <1>2, <1>3
    <2> QED
      BY <2>1, <2>2
  <1>6. \A i \in 1 .. n - 1 : r[i] = IF i < k THEN s[i] ELSE s[i + 1]
    <2> SUFFICES ASSUME NEW i \in 1 .. n - 1 PROVE r[i] = IF i < k THEN s[i] ELSE s[i + 1]
      OBVIOUS
    <2>1. CASE i < k
      BY <2>1, <1>1, <1>2, <1>3, <1>4
    <2>2. CASE ~(i < k)
      <3>1. r[i] = b[i - (k - 1)] /\ i - (k - 1) \in 1 .. n - k
        BY <2>2, <1>1, <1>2, <1>3, <1>4
      <3>2. b[i - (k - 1)] = s[(i - (k - 1)) + k] /\ (i - (k - 1)) + k = i + 1
        BY <3>1, <1>1, <1>3
      <3> QED
        BY <2>2, <3>1, <3>2
    <2> QED
      BY <2>1, <2>2
  <1> QED
    BY <1>5, <1>6 DEF r, n

(* Every entry that stays was one of the others, and each only once.       *)
LEMMA RemoveAtStays ==
  ASSUME NEW S, NEW s \in Seq(S), NEW k \in DOMAIN s
  PROVE  /\ RemoveAt(s, k) \in Seq(S)
         /\ \A i \in DOMAIN RemoveAt(s, k) : \E j \in DOMAIN s \ {k} : RemoveAt(s, k)[i] = s[j]
         /\ (\A i, j \in DOMAIN s : s[i] = s[j] => i = j) =>
              \A i, j \in DOMAIN RemoveAt(s, k) : RemoveAt(s, k)[i] = RemoveAt(s, k)[j] => i = j
  <1> DEFINE n == Len(s)
             r == RemoveAt(s, k)
  <1>1. n \in Nat /\ k \in 1 .. n /\ DOMAIN s = 1 .. n
    OBVIOUS
  <1>2. /\ r \in Seq(S) /\ DOMAIN r = 1 .. n - 1
        /\ \A i \in 1 .. n - 1 : r[i] = IF i < k THEN s[i] ELSE s[i + 1]
    BY RemoveAtShifts
  <1> HIDE DEF n, r
  <1>3. ASSUME NEW i \in 1 .. n - 1
        PROVE  /\ i < k => i \in DOMAIN s \ {k} /\ r[i] = s[i]
               /\ ~(i < k) => i + 1 \in DOMAIN s \ {k} /\ r[i] = s[i + 1]
    BY <1>1, <1>2
  <1>4. \A i \in DOMAIN r : \E j \in DOMAIN s \ {k} : r[i] = s[j]
    BY <1>2, <1>3
  <1>5. ASSUME \A i, j \in DOMAIN s : s[i] = s[j] => i = j,
               NEW i \in DOMAIN r, NEW j \in DOMAIN r, r[i] = r[j]
        PROVE  i = j
    <2>1. i \in 1 .. n - 1 /\ j \in 1 .. n - 1 /\ i \in Int /\ j \in Int /\ k \in Int
      BY <1>1, <1>2
    <2>2. CASE i < k /\ j < k
      BY <1>3, <1>5, <2>1, <2>2
    <2>3. CASE i < k /\ ~(j < k)
      <3>1. i = j + 1
        BY <1>3, <1>5, <2>1, <2>3
      <3> QED
        BY <2>1, <2>3, <3>1
    <2>4. CASE ~(i < k) /\ j < k
      <3>1. i + 1 = j
        BY <1>3, <1>5, <2>1, <2>4
      <3> QED
        BY <2>1, <2>4, <3>1
    <2>5. CASE ~(i < k) /\ ~(j < k)
      <3>1. i + 1 = j + 1
        BY <1>3, <1>5, <2>1, <2>5
      <3> QED
        BY <2>1, <3>1
    <2> QED
      BY <2>2, <2>3, <2>4, <2>5
  <1> QED
    BY <1>2, <1>4, <1>5 DEF r

(* Taking one entry out of a list without repetitions takes its task out.  *)
LEMMA RemoveAtTakesOut ==
  ASSUME NEW s \in Seq(Names), IsInjective(s), NEW k \in DOMAIN s
  PROVE  /\ RemoveAt(s, k) \in Seq(Names)
         /\ IsInjective(RemoveAt(s, k))
         /\ Range(RemoveAt(s, k)) \subseteq Range(s) \ {s[k]}
  <1>1. \A i, j \in DOMAIN s : s[i] = s[j] => i = j
    BY DEF IsInjective
  <1>2. /\ RemoveAt(s, k) \in Seq(Names)
        /\ \A i \in DOMAIN RemoveAt(s, k) : \E j \in DOMAIN s \ {k} : RemoveAt(s, k)[i] = s[j]
        /\ \A i, j \in DOMAIN RemoveAt(s, k) : RemoveAt(s, k)[i] = RemoveAt(s, k)[j] => i = j
    BY <1>1, RemoveAtStays
  <1> QED
    BY <1>1, <1>2 DEF IsInjective, Range

\* The tasks that compete with t, and those they compete with.
Disturbed(e, t) ==
  {n \in DOMAIN e.tasks :
    \E m \in DOMAIN e.tasks :
      /\ t \in Range(e.tasks[m].competitor)
      /\ n = m \/ n \in Range(e.tasks[m].competitor)}

(* What going through the tasks may leave of e, from which t was erased.   *)
Reduced(e, x, t) ==
  /\ Kept(e, x, Fields \ {"competitor", "to_schedule"})
  /\ x.related = e.related
  /\ FlagsKept(e, x, Disturbed(e, t))
  /\ \A n \in DOMAIN e.tasks :
       LET comp == x.tasks[n].competitor
           old == e.tasks[n].competitor
       IN  /\ IsInjective(comp)
           /\ Range(comp) \subseteq Range(old)
           /\ t \notin Range(old) => comp = old

(* Two steps that disturb no others disturb no others together.            *)
LEMMA FlagsAgain ==
  ASSUME NEW e, NEW x, NEW y, NEW S, NEW T, DOMAIN x.tasks = DOMAIN e.tasks,
         FlagsKept(e, x, S), FlagsKept(x, y, T), T \subseteq S
  PROVE  FlagsKept(e, y, S)
  BY DEF FlagsKept

(* Taking the ended task off one other task's competitors.                 *)
LEMMA UnlistReduces ==
  ASSUME NEW e \in Opt, NEW t, NEW x, Reduced(e, x, t), NEW n \in DOMAIN e.tasks,
         \A m \in DOMAIN e.tasks : Range(e.tasks[m].competitor) \subseteq DOMAIN e.tasks \cup {t}
  PROVE  /\ Reduced(e, Unlist(x, n, t), t)
         /\ t \notin Range(Unlist(x, n, t).tasks[n].competitor)
         /\ \A m \in DOMAIN e.tasks : t \notin Range(x.tasks[m].competitor)
              => t \notin Range(Unlist(x, n, t).tasks[m].competitor)
  <1> DEFINE comp == x.tasks[n].competitor
             k == Min({i \in DOMAIN comp : comp[i] = t})
             rest == RemoveAt(comp, k)
             r == [x.tasks[n] EXCEPT !.competitor = rest]
             cut == Put(x, n, r)
             y == Unlist(x, n, t)
  <1>1. x \in Opt /\ DOMAIN x.tasks = DOMAIN e.tasks /\ n \in DOMAIN x.tasks
    BY DEF Reduced, Kept
  <1>2. comp \in Seq(Names) /\ IsInjective(comp)
    <2>1. x.tasks[n] \in Task
      BY <1>1, TaskOf
    <2> QED
      BY <2>1 DEF Task, Reduced
  <1>3. CASE t \notin Range(comp)
    <2>1. y = x
      BY <1>3 DEF Unlist
    <2> QED
      BY <2>1, <1>3
  <1>4. CASE t \in Range(comp)
    <2>1. k \in DOMAIN comp /\ comp[k] = t
      <3> DEFINE K == {i \in DOMAIN comp : comp[i] = t}
      <3>1. K \subseteq Nat /\ K # {}
        BY <1>2, <1>4 DEF Range
      <3>2. Min(K) \in K
        <4> HIDE DEF K
        <4> QED
          BY <3>1, MinIsLeast
      <3> QED
        BY <3>2
    <2>2. y = IF rest = <<>> THEN Allow(cut, n, {}) ELSE SetToSchedule(cut, n)
      BY <1>4 DEF Unlist, Put
    <2> HIDE DEF k
    <2>3. /\ rest \in Seq(Names) /\ IsInjective(rest)
          /\ Range(rest) \subseteq Range(comp) \ {t}
      <3> HIDE DEF comp
      <3> QED
        BY <1>2, <2>1, RemoveAtTakesOut
    <2> HIDE DEF rest
    <2>4. x.tasks[n] \in Task
      BY <1>1, TaskOf
    <2>5. /\ r \in Task /\ r.competitor = rest
          /\ \A g \in Fields \ {"competitor"} : r[g] = x.tasks[n][g]
      BY <2>3, <2>4 DEF Task, Fields
    <2> HIDE DEF r
    <2>6. /\ Kept(x, cut, Fields \ {"competitor"})
          /\ cut.related = x.related
          /\ \A m \in DOMAIN e.tasks : cut.tasks[m] = IF m = n THEN r ELSE x.tasks[m]
      BY <1>1, <2>5, PutElse, PutKeeps
    <2> HIDE DEF cut
    <2>7. cut \in Opt /\ n \in DOMAIN cut.tasks /\ DOMAIN cut.tasks = DOMAIN e.tasks
      BY <2>6, <1>1 DEF Kept
    <2>8. Range(cut.tasks[n].competitor) \subseteq DOMAIN cut.tasks
      <3>1. Range(comp) \subseteq DOMAIN e.tasks \cup {t}
        BY DEF Reduced
      <3> QED
        BY <3>1, <2>3, <2>5, <2>6, <2>7
    <2>18. FlagsKept(cut, y, {n} \cup Range(rest))
      <3>1. CASE rest = <<>>
        <4>1. y = Allow(cut, n, {})
          BY <3>1, <2>2
        <4> HIDE DEF y
        <4>2. \A m \in DOMAIN cut.tasks :
                y.tasks[m].to_schedule <=> m \notin {} /\ (cut.tasks[m].to_schedule \/ m = n)
          BY <4>1, <2>7, AllowFlags
        <4>3. y \in Opt /\ DOMAIN y.tasks = DOMAIN cut.tasks
          BY <4>1, <2>7, AllowKeeps DEF Kept
        <4>4. ASSUME NEW m \in DOMAIN cut.tasks, m # n
              PROVE  y.tasks[m].to_schedule = cut.tasks[m].to_schedule
          <5>1. y.tasks[m].to_schedule \in BOOLEAN /\ cut.tasks[m].to_schedule \in BOOLEAN
            BY <4>3, <2>7, TaskOf DEF Task
          <5> QED
            BY <5>1, <4>2, <4>4
        <4> QED
          BY <4>2, <4>4 DEF FlagsKept
      <3>2. CASE rest # <<>>
        <4>1. y = SetToSchedule(cut, n)
          BY <3>2, <2>2
        <4>2. cut.tasks[n].competitor = rest
          BY <2>5, <2>6
        <4>3. FlagsKept(cut, SetToSchedule(cut, n), {n} \cup Range(cut.tasks[n].competitor))
          BY <2>7, <2>8, ScheduleFlags
        <4> HIDE DEF y
        <4> QED
          BY <4>1, <4>2, <4>3
      <3> QED
        BY <3>1, <3>2
    <2>9. /\ Kept(cut, y, Fields \ {"to_schedule"})
          /\ y.related = cut.related
      <3>1. CASE rest = <<>>
        <4>1. y = Allow(cut, n, {})
          BY <3>1, <2>2
        <4>2. /\ Kept(cut, Allow(cut, n, {}), Fields \ {"to_schedule"})
              /\ Allow(cut, n, {}).related = cut.related
          BY <2>7, AllowKeeps
        <4> QED
          BY <4>1, <4>2
      <3>2. CASE rest # <<>>
        <4>1. y = SetToSchedule(cut, n)
          BY <3>2, <2>2
        <4> QED
          BY <4>1, <2>7, <2>8, SetToScheduleKeeps
      <3> QED
        BY <3>1, <3>2
    <2> HIDE DEF y
    <2>10. \A m \in DOMAIN e.tasks : y.tasks[m].competitor = cut.tasks[m].competitor
      <3>1. "competitor" \in Fields \ {"to_schedule"}
        BY DEF Fields
      <3> QED
        BY <3>1, <2>7, <2>9 DEF Kept
    <2>11. \A m \in DOMAIN e.tasks :
             y.tasks[m].competitor = IF m = n THEN rest ELSE x.tasks[m].competitor
      BY <2>5, <2>6, <2>10
    <2>12. Kept(e, y, Fields \ {"competitor", "to_schedule"})
      BY <2>6, <2>9 DEF Kept, Reduced
    <2>13. y.related = e.related
      BY <2>6, <2>9 DEF Reduced
    <2>14. ASSUME NEW m \in DOMAIN e.tasks
           PROVE  LET c == y.tasks[m].competitor
                      old == e.tasks[m].competitor
                  IN  /\ IsInjective(c)
                      /\ Range(c) \subseteq Range(old)
                      /\ t \notin Range(old) => c = old
      <3>1. CASE m = n
        <4>1. y.tasks[m].competitor = rest
          BY <3>1, <2>11
        <4>2. Range(comp) \subseteq Range(e.tasks[m].competitor)
          BY <3>1 DEF Reduced
        <4> HIDE DEF comp
        <4> QED
          BY <4>1, <4>2, <2>3, <1>4
      <3>2. CASE m # n
        BY <3>2, <2>11 DEF Reduced
      <3> QED
        BY <3>1, <3>2
    <2>19. {n} \cup Range(rest) \subseteq Disturbed(e, t)
      <3>1. Range(comp) \subseteq Range(e.tasks[n].competitor)
        BY DEF Reduced
      <3> HIDE DEF comp
      <3>2. t \in Range(e.tasks[n].competitor)
        BY <3>1, <1>4
      <3>3. Range(rest) \subseteq Range(e.tasks[n].competitor)
        BY <3>1, <2>3
      <3>4. Range(rest) \subseteq DOMAIN e.tasks
        BY <2>5, <2>6, <2>7, <2>8
      <3> QED
        BY <3>2, <3>3, <3>4 DEF Disturbed
    <2>20. FlagsKept(e, y, Disturbed(e, t))
      <3>1. FlagsKept(x, cut, {})
        <4>1. "to_schedule" \in Fields \ {"competitor"}
          BY DEF Fields
        <4> QED
          BY <4>1, <2>6 DEF Kept, FlagsKept
      <3>2. FlagsKept(e, cut, Disturbed(e, t))
        BY <3>1, <1>1, FlagsAgain DEF Reduced
      <3> QED
        BY <3>2, <2>7, <2>18, <2>19, FlagsAgain
    <2>15. Reduced(e, y, t)
      BY <2>12, <2>13, <2>14, <2>20 DEF Reduced
    <2>16. t \notin Range(y.tasks[n].competitor)
      BY <2>3, <2>11
    <2>17. \A m \in DOMAIN e.tasks : t \notin Range(x.tasks[m].competitor)
             => t \notin Range(y.tasks[m].competitor)
      BY <2>11, <2>16
    <2> QED
      BY <2>15, <2>16, <2>17 DEF y
  <1> QED
    BY <1>3, <1>4

(* The order in which the map holds its entries names each of them.        *)
LEMMA OrderNamesAll ==
  ASSUME NEW S, IsFiniteSet(S), NEW order \in SetToSeqs(S)
  PROVE  /\ Len(order) \in Nat /\ DOMAIN order = 1 .. Len(order)
         /\ \A i \in 1 .. Len(order) : order[i] \in S
         /\ \A n \in S : \E i \in 1 .. Len(order) : order[i] = n
  <1> DEFINE c == Cardinality(S)
             D == 1 .. c
  <1>1. c \in Nat
    BY FS_CardinalityType
  <1>2. order \in [D -> S] /\ \A i, j \in D : i # j => order[i] # order[j]
    BY DEF SetToSeqs
  <1>3. order \in Injection(D, S)
    BY <1>2 DEF Injection, IsInjective
  <1>4. Cardinality(D) = c
    BY <1>1, FS_Interval
  <1>5. order \in Surjection(D, S)
    <2> HIDE DEF D
    <2> QED
      BY <1>3, <1>4, FS_Injection
  <1>6. \A n \in S : \E i \in D : order[i] = n
    BY <1>5 DEF Surjection
  <1>7. Len(order) = c
    BY <1>1, <1>2
  <1> QED
    BY <1>1, <1>2, <1>6, <1>7

(* After the loop nobody competes with the task that was erased.           *)
LEMMA UnlistAllReduces ==
  ASSUME NEW e \in Opt, NEW t, Reduced(e, e, t), IsFiniteSet(DOMAIN e.tasks),
         \A m \in DOMAIN e.tasks : Range(e.tasks[m].competitor) \subseteq DOMAIN e.tasks \cup {t},
         NEW order \in SetToSeqs(DOMAIN e.tasks)
  PROVE  LET x == UnlistAll(e, t, order)
         IN  /\ Reduced(e, x, t)
             /\ \A m \in DOMAIN e.tasks : t \notin Range(x.tasks[m].competitor)
  <1> DEFINE L == Len(order)
             D == {x \in Opt : Reduced(e, x, t)}
             step == [i \in Nat |->
                       [x \in D |-> IF i \in 1 .. L THEN Unlist(x, order[i], t) ELSE x]]
             Loop(f) == f = [i \in 0 .. L |-> IF i = 0 THEN e ELSE Unlist(f[i - 1], order[i], t)]
             after == CHOOSE f : Loop(f)
  <1>1. /\ L \in Nat
        /\ \A i \in 1 .. L : order[i] \in DOMAIN e.tasks
        /\ \A n \in DOMAIN e.tasks : \E i \in 1 .. L : order[i] = n
    BY OrderNamesAll
  <1>2. e \in D
    OBVIOUS
  <1>3. \A x \in D, i \in 1 .. L : Unlist(x, order[i], t) \in D
    <2> SUFFICES ASSUME NEW x \in D, NEW i \in 1 .. L PROVE Unlist(x, order[i], t) \in D
      OBVIOUS
    <2>1. Reduced(e, x, t) /\ order[i] \in DOMAIN e.tasks
      BY <1>1
    <2>2. Reduced(e, Unlist(x, order[i], t), t)
      BY <2>1, UnlistReduces
    <2>3. Unlist(x, order[i], t) \in Opt
      BY <2>2 DEF Reduced, Kept
    <2> QED
      BY <2>2, <2>3
  <1>4. step \in Rounds(D)
    <2> HIDE DEF D, L
    <2> QED
      BY <1>3 DEF Rounds
  <1>5. L \in Nat
    BY <1>1
  <1>6. \E f : Loop(f)
    <2>1. PICK f : Results(D, e, step, L, f)
      <3> HIDE DEF D, step, L
      <3> QED
        BY <1>2, <1>4, <1>5, LoopExists
    <2>2. f = [i \in 0 .. L |-> f[i]] /\ \A i \in 0 .. L : f[i] \in D
      BY <2>1 DEF Results
    <2>3. ASSUME NEW i \in 0 .. L
          PROVE  f[i] = IF i = 0 THEN e ELSE Unlist(f[i - 1], order[i], t)
      <3>1. f[i] = IF i = 0 THEN e ELSE step[i][f[i - 1]]
        BY <2>1 DEF Results
      <3>2. CASE i # 0
        <4>1. i \in Nat /\ i \in 1 .. L /\ i - 1 \in 0 .. L
          BY <3>2, <1>1
        <4>2. step[i][f[i - 1]] = Unlist(f[i - 1], order[i], t)
          BY <2>2, <4>1
        <4> QED
          BY <3>1, <3>2, <4>2
      <3> QED
        BY <3>1, <3>2
    <2>4. Loop(f)
      BY <2>2, <2>3
    <2> HIDE DEF Loop
    <2> QED
      BY <2>4
  <1>7. Loop(after)
    <2> HIDE DEF Loop
    <2> QED
      BY <1>6
  <1>8. UnlistAll(e, t, order) = after[L]
    BY DEF UnlistAll
  <1> HIDE DEF after
  <1>9. after[0] = e /\ \A i \in 1 .. L : after[i] = Unlist(after[i - 1], order[i], t)
    <2>1. after = [i \in 0 .. L |-> IF i = 0 THEN e ELSE Unlist(after[i - 1], order[i], t)]
      BY <1>7
    <2>2. 0 \in 0 .. L /\ \A i \in 1 .. L : i \in 0 .. L /\ i # 0
      BY <1>1
    <2> QED
      BY <2>1, <2>2
  <1> DEFINE S == {i \in Nat : i <= L =>
                     /\ Reduced(e, after[i], t)
                     /\ \A j \in 1 .. i : t \notin Range(after[i].tasks[order[j]].competitor)}
  <1>10. 0 \in S
    BY <1>9
  <1>11. ASSUME NEW i \in Nat, i \in S PROVE i + 1 \in S
    <2> SUFFICES ASSUME i + 1 <= L
                 PROVE  /\ Reduced(e, after[i + 1], t)
                        /\ \A j \in 1 .. i + 1 :
                             t \notin Range(after[i + 1].tasks[order[j]].competitor)
      OBVIOUS
    <2>1. /\ Reduced(e, after[i], t)
          /\ \A j \in 1 .. i : t \notin Range(after[i].tasks[order[j]].competitor)
      BY <1>1, <1>11
    <2>2. i + 1 \in 1 .. L /\ (i + 1) - 1 = i
      BY <1>1
    <2>3. after[i + 1] = Unlist(after[i], order[i + 1], t) /\ order[i + 1] \in DOMAIN e.tasks
      BY <1>1, <1>9, <2>2
    <2> DEFINE y == Unlist(after[i], order[i + 1], t)
    <2>4. /\ Reduced(e, y, t)
          /\ t \notin Range(y.tasks[order[i + 1]].competitor)
          /\ \A m \in DOMAIN e.tasks : t \notin Range(after[i].tasks[m].competitor)
               => t \notin Range(y.tasks[m].competitor)
      BY <2>1, <2>3, UnlistReduces
    <2> HIDE DEF y
    <2>7. after[i + 1] = y
      BY <2>3 DEF y
    <2>5. \A j \in 1 .. i : order[j] \in DOMAIN e.tasks
      BY <1>1, <2>2
    <2>6. \A j \in 1 .. i + 1 : j \in 1 .. i \/ j = i + 1
      OBVIOUS
    <2> QED
      BY <2>1, <2>4, <2>5, <2>6, <2>7
  <1>12. L \in S
    <2> HIDE DEF S
    <2> QED
      BY <1>1, <1>10, <1>11, SetInduction
  <1>13. /\ Reduced(e, after[L], t)
         /\ \A j \in 1 .. L : t \notin Range(after[L].tasks[order[j]].competitor)
    BY <1>1, <1>12
  <1> QED
    BY <1>1, <1>8, <1>13

(* Erasing a task moves it to the ended ones and touches no list.          *)
LEMMA EraseElse ==
  ASSUME NEW o \in Opt, NEW t \in DOMAIN o.tasks, NEW foc \in Nat,
         NEW cause \in {"KILLED", "FINISHED"}
  PROVE  LET e == Erase(o, t, foc, cause)
         IN  /\ e \in Opt /\ e.up = o.up /\ e.related = o.related
             /\ DOMAIN e.tasks = DOMAIN o.tasks \ {t}
             /\ \A n \in DOMAIN o.tasks \ {t} : e.tasks[n] = o.tasks[n]
             /\ DOMAIN e.ended = DOMAIN o.ended \cup {t}
             /\ \A n \in DOMAIN o.ended : e.ended[n] = o.ended[n]
  <1> DEFINE e == Erase(o, t, foc, cause)
             rest == Restrict(o.tasks, DOMAIN o.tasks \ {t})
             r == [last_foc_id |-> foc, cause_of_death |-> cause]
             more == With(o.ended, t, r)
             final == IF t \in DOMAIN o.ended THEN o.ended ELSE more
  <1>1. e = [o EXCEPT !.tasks = rest, !.ended = final]
    BY DEF Erase, Ended
  <1>2. /\ t \in Names /\ DOMAIN o.tasks \subseteq Names
        /\ \A n \in DOMAIN o.tasks : o.tasks[n] \in Task
    BY TaskOf
  <1>3. /\ DOMAIN rest = DOMAIN o.tasks \ {t}
        /\ \A n \in DOMAIN o.tasks \ {t} : rest[n] = o.tasks[n]
        /\ rest \in [DOMAIN o.tasks \ {t} -> Task]
    BY <1>2 DEF Restrict
  <1>4. rest \in Maps(Names, Task)
    <2>1. DOMAIN o.tasks \ {t} \in SUBSET Names
      BY <1>2
    <2> HIDE DEF rest
    <2> QED
      BY <1>3, <2>1 DEF Maps
  <1>5. PICK E \in SUBSET Names : o.ended \in [E -> EndedTask]
    BY DEF Opt, Maps
  <1>6. r \in EndedTask
    BY DEF EndedTask
  <1> HIDE DEF r
  <1>7. /\ more = [n \in E \cup {t} |-> IF n = t THEN r ELSE o.ended[n]]
        /\ more \in [E \cup {t} -> EndedTask]
    BY <1>5, <1>6 DEF With
  <1>8. more \in Maps(Names, EndedTask)
    <2>1. E \cup {t} \in SUBSET Names
      BY <1>2
    <2> HIDE DEF more
    <2> QED
      BY <1>7, <2>1 DEF Maps
  <1>9. /\ final \in Maps(Names, EndedTask)
        /\ DOMAIN final = DOMAIN o.ended \cup {t}
        /\ \A n \in DOMAIN o.ended : final[n] = o.ended[n]
    <2>1. CASE t \in DOMAIN o.ended
      BY <2>1 DEF Opt
    <2>2. CASE t \notin DOMAIN o.ended
      <3>1. DOMAIN o.ended = E
        BY <1>5
      <3> HIDE DEF more
      <3> QED
        BY <2>2, <3>1, <1>7, <1>8
    <2> QED
      BY <2>1, <2>2
  <1> HIDE DEF rest, final
  <1>10. e \in Opt
    BY <1>1, <1>4, <1>9 DEF Opt
  <1>11. e.up = o.up /\ e.related = o.related /\ e.tasks = rest /\ e.ended = final
    BY <1>1 DEF Opt
  <1> QED
    BY <1>3, <1>9, <1>10, <1>11 DEF e

(* From o to x the task t has ended, and its list, if it was on one, has   *)
(* been given up with its last pair.                                       *)
Left(o, x, t) ==
  /\ Sound(x)
  /\ x.up = o.up
  /\ DOMAIN x.tasks = DOMAIN o.tasks \ {t}
  /\ DOMAIN x.ended = DOMAIN o.ended \cup {t}
  /\ \A n \in DOMAIN o.ended : x.ended[n] = o.ended[n]
  /\ \A n \in DOMAIN x.tasks : /\ x.tasks[n].newest_job = o.tasks[n].newest_job
                               /\ x.tasks[n].arrival_time = o.tasks[n].arrival_time
  /\ \A g \in Grouping(o) : t \in g => Cardinality(g) = 2
  /\ Grouping(x) = {g \in Grouping(o) : t \notin g}
  /\ Fair(o) => Fair(x)

(* u: t's entry is erased, and nobody lists it; who did not list it before *)
(* has the same competitors as before, and who was not on its list is      *)
(* denied or allowed as before.                                            *)
Unlisted(o, u, t) ==
  /\ u \in Opt
  /\ u.up = o.up
  /\ u.related = o.related
  /\ DOMAIN u.tasks = DOMAIN o.tasks \ {t}
  /\ DOMAIN u.ended = DOMAIN o.ended \cup {t}
  /\ \A n \in DOMAIN o.ended : u.ended[n] = o.ended[n]
  /\ \A n \in DOMAIN u.tasks :
       /\ u.tasks[n].newest_job = o.tasks[n].newest_job
       /\ u.tasks[n].arrival_time = o.tasks[n].arrival_time
       /\ u.tasks[n].id_related = o.tasks[n].id_related
       /\ IsInjective(u.tasks[n].competitor)
       /\ t \notin Range(u.tasks[n].competitor)
       /\ Range(u.tasks[n].competitor) \subseteq Range(o.tasks[n].competitor)
       /\ t \notin Range(o.tasks[n].competitor) =>
            u.tasks[n].competitor = o.tasks[n].competitor
       /\ o.tasks[n].id_related \notin {o.tasks[t].id_related} \ {0} =>
            u.tasks[n].to_schedule = o.tasks[n].to_schedule
       /\ goal = "NONE" /\ o.tasks[n].to_schedule => u.tasks[n].to_schedule

(* Once it went through all others, nobody lists the ended task.           *)
LEMMA EraseUnlists ==
  ASSUME NEW o, Sound(o), NEW t \in DOMAIN o.tasks, NEW foc \in Nat,
         NEW cause \in {"KILLED", "FINISHED"}, NEW order \in SetToSeqs(DOMAIN o.tasks \ {t})
  PROVE  Unlisted(o, UnlistAll(Erase(o, t, foc, cause), t, order), t)
  <1> DEFINE e == Erase(o, t, foc, cause)
             u == UnlistAll(e, t, order)
  <1>1. o \in Opt /\ IsFiniteSet(DOMAIN o.tasks) /\ Competitors(o)
    BY DEF Sound
  <1>2. /\ e \in Opt /\ e.up = o.up /\ e.related = o.related
        /\ DOMAIN e.tasks = DOMAIN o.tasks \ {t}
        /\ \A n \in DOMAIN o.tasks \ {t} : e.tasks[n] = o.tasks[n]
        /\ DOMAIN e.ended = DOMAIN o.ended \cup {t}
        /\ \A n \in DOMAIN o.ended : e.ended[n] = o.ended[n]
    BY <1>1, EraseElse
  <1> HIDE DEF e
  <1>3. IsFiniteSet(DOMAIN e.tasks)
    BY <1>1, <1>2, FS_RemoveElement
  <1>4. \A n \in DOMAIN e.tasks :
          /\ IsInjective(e.tasks[n].competitor)
          /\ Range(e.tasks[n].competitor) \subseteq DOMAIN e.tasks \cup {t}
    BY <1>1, <1>2 DEF Competitors
  <1>5. Reduced(e, e, t)
    <2>1. Kept(e, e, Fields \ {"competitor", "to_schedule"})
      BY <1>2, KeptSame
    <2>2. FlagsKept(e, e, Disturbed(e, t))
      BY DEF FlagsKept
    <2> QED
      BY <1>4, <2>1, <2>2 DEF Reduced
  <1>6. /\ Reduced(e, u, t)
        /\ \A m \in DOMAIN e.tasks : t \notin Range(u.tasks[m].competitor)
    BY <1>2, <1>3, <1>4, <1>5, UnlistAllReduces
  <1> HIDE DEF u
  <1>7. /\ u \in Opt /\ u.up = e.up /\ u.ended = e.ended /\ u.related = e.related
        /\ DOMAIN u.tasks = DOMAIN e.tasks
        /\ \A n \in DOMAIN e.tasks :
             /\ u.tasks[n].newest_job = e.tasks[n].newest_job
             /\ u.tasks[n].arrival_time = e.tasks[n].arrival_time
             /\ u.tasks[n].id_related = e.tasks[n].id_related
    BY <1>6 DEF Reduced, Kept, Fields
  <1>8. \A n \in DOMAIN e.tasks :
          /\ IsInjective(u.tasks[n].competitor)
          /\ Range(u.tasks[n].competitor) \subseteq Range(o.tasks[n].competitor)
          /\ t \notin Range(o.tasks[n].competitor) =>
               u.tasks[n].competitor = o.tasks[n].competitor
    BY <1>2, <1>6 DEF Reduced
  <1>9. ASSUME NEW n \in DOMAIN e.tasks, n \in Disturbed(e, t)
        PROVE  o.tasks[n].id_related \in {o.tasks[t].id_related} \ {0}
    <2>1. PICK m \in DOMAIN e.tasks :
            /\ t \in Range(e.tasks[m].competitor)
            /\ n = m \/ n \in Range(e.tasks[m].competitor)
      BY <1>9 DEF Disturbed
    <2>2. /\ m \in DOMAIN o.tasks /\ m # t
          /\ t \in Range(o.tasks[m].competitor)
          /\ n = m \/ n \in Range(o.tasks[m].competitor)
      BY <1>2, <2>1
    <2>3. /\ o.tasks[t].id_related = o.tasks[m].id_related /\ o.tasks[m].id_related # 0
          /\ o.tasks[n].id_related = o.tasks[m].id_related
      BY <1>1, <2>2 DEF Competitors
    <2> QED
      BY <2>3
  <1>10. \A n \in DOMAIN e.tasks :
           /\ n \notin Disturbed(e, t) => u.tasks[n].to_schedule = o.tasks[n].to_schedule
           /\ goal = "NONE" /\ o.tasks[n].to_schedule => u.tasks[n].to_schedule
    BY <1>2, <1>6 DEF Reduced, FlagsKept
  <1>11. Unlisted(o, u, t)
    BY <1>2, <1>6, <1>7, <1>8, <1>9, <1>10 DEF Unlisted
  <1> QED
    BY <1>11 DEF u, e

(* If the lists that remain are untouched, they remain fair.               *)
LEMMA LeavesFair ==
  ASSUME NEW o, NEW x, NEW t, DOMAIN x.tasks = DOMAIN o.tasks \ {t},
         DOMAIN x.related \subseteq DOMAIN o.related,
         \A i \in DOMAIN x.related :
           /\ x.related[i] = o.related[i]
           /\ \A n \in x.related[i].tasks :
                /\ n \in DOMAIN x.tasks
                /\ x.tasks[n].to_schedule = o.tasks[n].to_schedule
                /\ x.tasks[n].competitor = o.tasks[n].competitor,
         \A n \in DOMAIN x.tasks :
           goal = "NONE" /\ o.tasks[n].to_schedule => x.tasks[n].to_schedule
  PROVE  Fair(o) => Fair(x)
  <1> SUFFICES ASSUME Fair(o) PROVE Fair(x)
    OBVIOUS
  <1>1. CASE goal = "NONE"
    BY <1>1 DEF Fair, Allowed
  <1>2. CASE goal # "NONE"
    <2> SUFFICES ASSUME NEW i \in DOMAIN x.related
                 PROVE  x.related[i].tasks \cap Spared(x) # {}
      BY <1>2 DEF Fair
    <2>1. PICK n \in o.related[i].tasks : n \in Spared(o)
      BY <1>2 DEF Fair
    <2>2. n \in x.related[i].tasks /\ n \in Spared(x)
      BY <2>1 DEF Spared, Allowed
    <2> QED
      BY <2>2
  <1> QED
    BY <1>1, <1>2

(* A task on no list is nobody's competitor but perhaps its own.           *)
LEMMA AloneLeaves ==
  ASSUME NEW o, Sound(o), NEW t \in DOMAIN o.tasks, o.tasks[t].id_related = 0,
         NEW u, Unlisted(o, u, t)
  PROVE  Left(o, u, t)
  <1>1. /\ o \in Opt /\ u \in Opt /\ DOMAIN u.tasks = DOMAIN o.tasks \ {t}
        /\ u.related = o.related
    BY DEF Sound, Unlisted
  <1>2. \A n \in DOMAIN u.tasks : t \notin Range(o.tasks[n].competitor)
    BY <1>1 DEF Sound, Competitors
  <1>3. \A n \in DOMAIN u.tasks : /\ u.tasks[n].competitor = o.tasks[n].competitor
                                  /\ u.tasks[n].id_related = o.tasks[n].id_related
    BY <1>2 DEF Unlisted
  <1>4. \A i \in DOMAIN o.related : i # 0 /\ t \notin o.related[i].tasks
    BY <1>1, ListOf DEF Sound, Lists
  <1>5. IsFiniteSet(DOMAIN u.tasks) /\ Numbered(u)
    BY <1>1, FS_RemoveElement DEF Sound, Numbered
  <1>6. Lists(u)
    <2>1. ASSUME NEW n \in DOMAIN u.tasks, u.tasks[n].id_related # 0
          PROVE  u.tasks[n].id_related \in DOMAIN u.related
      BY <2>1, <1>1, <1>3 DEF Sound, Lists
    <2>2. ASSUME NEW i \in DOMAIN u.related
          PROVE  /\ u.related[i].tasks # {}
                 /\ u.related[i].tasks = {n \in DOMAIN u.tasks : u.tasks[n].id_related = i}
      <3>1. /\ o.related[i].tasks = {n \in DOMAIN o.tasks : o.tasks[n].id_related = i}
            /\ o.related[i].tasks # {}
        BY <1>1, <2>2 DEF Sound, Lists
      <3>2. t \notin o.related[i].tasks
        BY <1>1, <1>4, <2>2
      <3> QED
        BY <3>1, <3>2, <1>1, <1>3
    <2> QED
      BY <2>1, <2>2 DEF Lists
  <1>7. Competitors(u)
    <2>1. \A n \in DOMAIN u.tasks :
            LET comp == o.tasks[n].competitor
            IN  /\ IsInjective(comp)
                /\ \A c \in Range(comp) :
                     /\ c \in DOMAIN o.tasks
                     /\ c # n => /\ o.tasks[c].id_related = o.tasks[n].id_related
                                 /\ o.tasks[n].id_related # 0
      BY <1>1 DEF Sound, Competitors
    <2> QED
      BY <2>1, <1>1, <1>2, <1>3 DEF Competitors
  <1>8. Maxima(u)
    <2>1. \A i \in DOMAIN o.related : o.related[i].tasks \subseteq DOMAIN u.tasks
      BY <1>1, <1>4 DEF Sound, Lists
    <2>2. \A i \in DOMAIN o.related : \A n \in o.related[i].tasks :
            u.tasks[n].competitor = o.tasks[n].competitor
      BY <2>1, <1>3
    <2>3. Maxima(o)
      BY DEF Sound
    <2> QED
      BY <2>2, <2>3, <1>1 DEF Maxima
  <1>9. Sound(u)
    BY <1>1, <1>5, <1>6, <1>7, <1>8 DEF Sound
  <1>10. \A g \in Grouping(o) : t \notin g
    BY <1>4 DEF Grouping
  <1>11. Grouping(u) = {g \in Grouping(o) : t \notin g}
    BY <1>10, <1>1 DEF Grouping
  <1>12. Fair(o) => Fair(u)
    <2>1. \A n \in DOMAIN u.tasks :
            /\ u.tasks[n].to_schedule = o.tasks[n].to_schedule
            /\ goal = "NONE" /\ o.tasks[n].to_schedule => u.tasks[n].to_schedule
      BY DEF Unlisted
    <2>2. \A i \in DOMAIN u.related :
            /\ u.related[i] = o.related[i]
            /\ \A n \in u.related[i].tasks :
                 /\ n \in DOMAIN u.tasks
                 /\ u.tasks[n].to_schedule = o.tasks[n].to_schedule
                 /\ u.tasks[n].competitor = o.tasks[n].competitor
      <3>1. \A i \in DOMAIN u.related : \A n \in u.related[i].tasks : n \in DOMAIN u.tasks
        BY <1>6 DEF Lists
      <3> QED
        BY <3>1, <2>1, <1>1, <1>3
    <2>3. DOMAIN u.related \subseteq DOMAIN o.related
      BY <1>1
    <2> QED
      BY <2>1, <2>2, <2>3, <1>1, LeavesFair
  <1> QED
    BY <1>9, <1>10, <1>11, <1>12 DEF Left, Unlisted

(* When one task is left of a list, the list is dissolved.                 *)
LEMMA PairLeaves ==
  ASSUME NEW o, Sound(o), NEW t \in DOMAIN o.tasks, NEW m,
         NEW id, id = o.tasks[t].id_related, id # 0, o.related[id].tasks \ {t} = {m},
         NEW u, Unlisted(o, u, t)
  PROVE  Left(o, Unrelate(u, id, t), t)
  <1> DEFINE x == Unrelate(u, id, t)
             T(n) == IF n \in {m} THEN [u.tasks[n] EXCEPT !.id_related = 0] ELSE u.tasks[n]
             f == [n \in DOMAIN u.tasks |-> T(n)]
             rel == Restrict(u.related, DOMAIN u.related \ {id})
  <1>1. /\ o \in Opt /\ u \in Opt /\ DOMAIN u.tasks = DOMAIN o.tasks \ {t}
        /\ u.related = o.related /\ u.up = o.up
        /\ Lists(o) /\ Competitors(o) /\ Maxima(o)
    BY DEF Sound, Unlisted
  <1>2. id \in DOMAIN o.related /\ t \in o.related[id].tasks
    BY <1>1 DEF Lists
  <1>3. o.related[id].tasks = {t, m} /\ m # t /\ m \in DOMAIN u.tasks
    BY <1>1, <1>2 DEF Lists
  <1>4. x = [u EXCEPT !.related = rel, !.tasks = f]
    <2>1. Cardinality({m}) = 1
      BY FS_Singleton
    <2>2. u.related[id].tasks \ {t} = {m}
      BY <1>1
    <2> QED
      BY <2>1, <2>2 DEF Unrelate
  <1>5. \A n \in DOMAIN u.tasks :
          /\ T(n) \in Task
          /\ T(n).id_related = IF n = m THEN 0 ELSE u.tasks[n].id_related
          /\ \A g \in Fields \ {"id_related"} : T(n)[g] = u.tasks[n][g]
    <2>1. \A n \in DOMAIN u.tasks : u.tasks[n] \in Task
      BY <1>1, TaskOf
    <2> QED
      BY <2>1 DEF Task, Fields
  <1> HIDE DEF T
  <1>6. /\ f \in Maps(Names, Task) /\ DOMAIN f = DOMAIN u.tasks
        /\ \A n \in DOMAIN u.tasks : f[n] = T(n)
    <2>1. DOMAIN u.tasks \in SUBSET Names
      BY <1>1, TaskOf
    <2>2. f \in [DOMAIN u.tasks -> Task]
      BY <1>5
    <2> QED
      BY <2>1, <2>2 DEF Maps
  <1>7. /\ rel \in Maps(Nat \ {0}, RelatedList)
        /\ DOMAIN rel = DOMAIN o.related \ {id}
        /\ \A i \in DOMAIN o.related \ {id} : rel[i] = o.related[i]
    <2>1. \A i \in DOMAIN u.related : u.related[i] \in RelatedList /\ i \in Nat \ {0}
      BY <1>1, ListOf
    <2>2. DOMAIN u.related \ {id} \in SUBSET (Nat \ {0})
      BY <2>1
    <2>3. rel \in [DOMAIN u.related \ {id} -> RelatedList]
      BY <2>1 DEF Restrict
    <2>4. rel \in Maps(Nat \ {0}, RelatedList)
      <3> HIDE DEF rel
      <3> QED
        BY <2>2, <2>3 DEF Maps
    <2> QED
      BY <2>4, <1>1 DEF Restrict
  <1> HIDE DEF f, rel
  <1>8. /\ x \in Opt /\ x.related = rel /\ x.tasks = f
        /\ x.up = u.up /\ x.ended = u.ended
    BY <1>1, <1>4, <1>6, <1>7 DEF Opt
  <1> HIDE DEF x
  <1>9. DOMAIN x.tasks = DOMAIN o.tasks \ {t} /\ DOMAIN x.related = DOMAIN o.related \ {id}
    BY <1>1, <1>6, <1>7, <1>8
  <1>10. \A n \in DOMAIN x.tasks :
           /\ x.tasks[n].id_related = IF n = m THEN 0 ELSE o.tasks[n].id_related
           /\ x.tasks[n].competitor = u.tasks[n].competitor
           /\ x.tasks[n].newest_job = o.tasks[n].newest_job
           /\ x.tasks[n].arrival_time = o.tasks[n].arrival_time
    BY <1>1, <1>5, <1>6, <1>8, <1>9 DEF Unlisted, Fields
  <1>11. \A i \in DOMAIN x.related : x.related[i] = o.related[i] /\ i # id /\ i # 0
    BY <1>1, <1>7, <1>8, ListOf
  <1>12. \A n \in DOMAIN o.tasks : o.tasks[n].id_related = id <=> n = t \/ n = m
    BY <1>1, <1>2, <1>3 DEF Lists
  <1>13. \A n \in DOMAIN x.tasks \ {m} :
           /\ t \notin Range(o.tasks[n].competitor)
           /\ x.tasks[n].competitor = o.tasks[n].competitor
    <2> SUFFICES ASSUME NEW n \in DOMAIN x.tasks \ {m}
                 PROVE  t \notin Range(o.tasks[n].competitor)
      BY <1>1, <1>9, <1>10 DEF Unlisted
    <2>1. o.tasks[n].id_related # id
      BY <1>9, <1>12
    <2> QED
      BY <2>1, <1>1, <1>9, <1>12 DEF Competitors
  <1>14. IsFiniteSet(DOMAIN x.tasks) /\ Numbered(x)
    BY <1>9, FS_RemoveElement DEF Sound, Numbered
  <1>15. Lists(x)
    <2>1. ASSUME NEW n \in DOMAIN x.tasks, x.tasks[n].id_related # 0
          PROVE  x.tasks[n].id_related \in DOMAIN x.related
      <3>1. n # m /\ n # t /\ n \in DOMAIN o.tasks
        BY <2>1, <1>9, <1>10
      <3>2. x.tasks[n].id_related = o.tasks[n].id_related
        BY <2>1, <3>1, <1>10
      <3>3. o.tasks[n].id_related \in DOMAIN o.related
        BY <2>1, <3>1, <3>2, <1>1 DEF Lists
      <3> QED
        BY <3>1, <3>2, <3>3, <1>9, <1>12
    <2>2. ASSUME NEW i \in DOMAIN x.related
          PROVE  /\ x.related[i].tasks # {}
                 /\ x.related[i].tasks = {n \in DOMAIN x.tasks : x.tasks[n].id_related = i}
      <3>1. /\ x.related[i].tasks # {}
            /\ x.related[i].tasks = {n \in DOMAIN o.tasks : o.tasks[n].id_related = i}
        BY <1>1, <1>9, <1>11 DEF Lists
      <3>2. i # id /\ i # 0
        BY <1>11
      <3>3. \A n \in DOMAIN o.tasks : o.tasks[n].id_related = i <=>
              n \in DOMAIN x.tasks /\ x.tasks[n].id_related = i
        <4> SUFFICES ASSUME NEW n \in DOMAIN o.tasks
                     PROVE  o.tasks[n].id_related = i <=>
                              n \in DOMAIN x.tasks /\ x.tasks[n].id_related = i
          OBVIOUS
        <4>1. CASE n = t \/ n = m
          BY <4>1, <3>2, <1>9, <1>10, <1>12
        <4>2. CASE n # t /\ n # m
          BY <4>2, <1>9, <1>10
        <4> QED
          BY <4>1, <4>2
      <3> QED
        BY <3>1, <3>3, <1>9
    <2> QED
      BY <2>1, <2>2 DEF Lists
  <1>16. Competitors(x)
    <2>1. ASSUME NEW n \in DOMAIN x.tasks
          PROVE  IsInjective(x.tasks[n].competitor)
      BY <1>1, <1>9, <1>10 DEF Unlisted
    <2>2. ASSUME NEW n \in DOMAIN x.tasks, NEW c \in Range(x.tasks[n].competitor)
          PROVE  /\ c \in DOMAIN x.tasks
                 /\ c # n => /\ x.tasks[c].id_related = x.tasks[n].id_related
                             /\ x.tasks[n].id_related # 0
      <3>1. c \in Range(o.tasks[n].competitor) /\ c # t
        BY <1>1, <1>9, <1>10 DEF Unlisted
      <3>2. /\ c \in DOMAIN x.tasks
            /\ c # n => /\ o.tasks[c].id_related = o.tasks[n].id_related
                        /\ o.tasks[n].id_related # 0
        BY <3>1, <1>1, <1>9 DEF Competitors
      <3> SUFFICES ASSUME c # n
                   PROVE  /\ x.tasks[c].id_related = x.tasks[n].id_related
                          /\ x.tasks[n].id_related # 0
        BY <3>2
      <3>3. n # m /\ c # m
        BY <3>1, <3>2, <1>9, <1>12
      <3> QED
        BY <3>2, <3>3, <1>10
    <2> QED
      BY <2>1, <2>2 DEF Competitors
  <1>17. Maxima(x)
    <2> SUFFICES ASSUME NEW i \in DOMAIN x.related
                 PROVE  /\ \A n \in x.related[i].tasks :
                             Len(x.tasks[n].competitor) + 1 <= x.related[i].max_value
                        /\ \E n \in x.related[i].tasks :
                             Len(x.tasks[n].competitor) + 1 = x.related[i].max_value
      BY DEF Maxima
    <2>1. x.related[i] = o.related[i] /\ i \in DOMAIN o.related /\ i # id /\ i # 0
      BY <1>9, <1>11
    <2>2. \A n \in x.related[i].tasks : n \in DOMAIN x.tasks /\ n # m
      <3>1. \A n \in x.related[i].tasks : n \in DOMAIN o.tasks /\ o.tasks[n].id_related = i
        BY <2>1, <1>1 DEF Lists
      <3> QED
        BY <3>1, <2>1, <1>9, <1>12
    <2>3. \A n \in x.related[i].tasks : x.tasks[n].competitor = o.tasks[n].competitor
      BY <2>2, <1>13
    <2> QED
      BY <2>1, <2>3, <1>1 DEF Maxima
  <1>18. Sound(x)
    BY <1>8, <1>14, <1>15, <1>16, <1>17 DEF Sound
  <1>19. \A i \in DOMAIN o.related : t \in o.related[i].tasks <=> i = id
    BY <1>1, <1>12 DEF Lists
  <1>20. \A g \in Grouping(o) : t \in g => Cardinality(g) = 2
    <2>1. Cardinality({t, m}) = 2
      <3>1. IsFiniteSet({m}) /\ Cardinality({m}) = 1
        BY FS_Singleton
      <3>2. Cardinality({m} \cup {t}) = 2
        <4>1. t \notin {m}
          BY <1>3
        <4>2. Cardinality({m} \cup {t}) = Cardinality({m}) + 1
          BY <3>1, <4>1, FS_AddElement
        <4> QED
          BY <3>1, <4>2
      <3>3. {m} \cup {t} = {t, m}
        OBVIOUS
      <3> QED
        BY <3>2, <3>3
    <2> QED
      BY <2>1, <1>3, <1>19 DEF Grouping
  <1>21. Grouping(x) = {g \in Grouping(o) : t \notin g}
    BY <1>9, <1>11, <1>19 DEF Grouping
  <1>22. /\ x.up = o.up
         /\ DOMAIN x.ended = DOMAIN o.ended \cup {t}
         /\ \A n \in DOMAIN o.ended : x.ended[n] = o.ended[n]
    BY <1>8 DEF Unlisted
  <1>23. Fair(o) => Fair(x)
    <2>1. \A n \in DOMAIN x.tasks : x.tasks[n].to_schedule = u.tasks[n].to_schedule
      BY <1>1, <1>5, <1>6, <1>8, <1>9 DEF Fields
    <2>2. \A n \in DOMAIN x.tasks : goal = "NONE" /\ o.tasks[n].to_schedule => x.tasks[n].to_schedule
      BY <2>1, <1>1, <1>9 DEF Unlisted
    <2>3. ASSUME NEW i \in DOMAIN x.related, NEW n \in x.related[i].tasks
          PROVE  /\ n \in DOMAIN x.tasks
                 /\ x.tasks[n].to_schedule = o.tasks[n].to_schedule
                 /\ x.tasks[n].competitor = o.tasks[n].competitor
      <3>1. n \in DOMAIN x.tasks /\ x.tasks[n].id_related = i /\ i # 0 /\ i # id
        BY <2>3, <1>11, <1>15 DEF Lists
      <3>2. n # m /\ o.tasks[n].id_related = i
        BY <3>1, <1>10
      <3>3. o.tasks[n].id_related \notin {o.tasks[t].id_related} \ {0}
        BY <3>1, <3>2
      <3>4. u.tasks[n].to_schedule = o.tasks[n].to_schedule
        BY <3>1, <3>3, <1>1, <1>9 DEF Unlisted
      <3> QED
        BY <3>1, <3>2, <3>4, <2>1, <1>13
    <2> QED
      BY <2>2, <2>3, <1>9, <1>11, LeavesFair
  <1>24. Left(o, x, t)
    BY <1>9, <1>10, <1>18, <1>20, <1>21, <1>22, <1>23 DEF Left
  <1> QED
    BY <1>24 DEF x

(* Whatever the removal of a task leaves of a living process, it leaves    *)
(* lists that are as they should be.                                       *)
LEMMA RemoveTaskLeaves ==
  ASSUME NEW o, Sound(o), NEW t \in DOMAIN o.tasks, NEW foc \in Nat,
         NEW cause \in {"KILLED", "FINISHED"}, NEW x \in RemoveTask(o, t, foc, cause)
  PROVE  x \in Opt /\ (x.up => Left(o, x, t))
  <1> DEFINE id == o.tasks[t].id_related
  <1>1. PICK order \in SetToSeqs(DOMAIN o.tasks \ {t}) :
          x = Unrelate(UnlistAll(Erase(o, t, foc, cause), t, order), id, t)
    BY DEF RemoveTask
  <1> DEFINE u == UnlistAll(Erase(o, t, foc, cause), t, order)
             left == u.related[id].tasks \ {t}
  <1>2. Unlisted(o, u, t)
    BY EraseUnlists
  <1>3. x = Unrelate(u, id, t)
    BY <1>1
  <1> HIDE DEF u
  <1>4. CASE id = 0
    <2>1. x = u
      BY <1>3, <1>4 DEF Unrelate
    <2> QED
      BY <2>1, <1>2, <1>4, AloneLeaves DEF Unlisted
  <1>5. CASE id # 0 /\ Cardinality(left) # 1
    <2>1. x = Abort(u)
      BY <1>3, <1>5 DEF Unrelate
    <2>2. u \in Opt
      BY <1>2 DEF Unlisted
    <2> QED
      BY <2>1, <2>2, AbortElse
  <1>6. CASE id # 0 /\ Cardinality(left) = 1
    <2>1. u.related = o.related /\ o \in Opt /\ IsFiniteSet(DOMAIN o.tasks)
      BY <1>2 DEF Unlisted, Sound
    <2>2. left \subseteq DOMAIN o.tasks
      BY <1>6, <2>1 DEF Sound, Lists
    <2>3. IsFiniteSet(left)
      BY <2>1, <2>2, FS_Subset
    <2>4. PICK m : left = {m}
      <3> HIDE DEF left
      <3> QED
        BY <2>3, <1>6, FS_Singleton
    <2>5. o.related[id].tasks \ {t} = {m}
      BY <2>1, <2>4
    <2>6. Left(o, x, t)
      BY <1>2, <1>3, <1>6, <2>5, PairLeaves
    <2> QED
      BY <2>6 DEF Left, Sound
  <1> QED
    BY <1>4, <1>5, <1>6

-----------------------------------------------------------------------------
(* Loops whose rounds have several outcomes                                *)

Branches(U) == [Nat -> [U -> SUBSET U]]

\* What there is after each of N rounds.
Outcomes(U, base, N, R) ==
  {g \in [0 .. N -> SUBSET U] :
     \A i \in 0 .. N : g[i] = IF i = 0 THEN base ELSE UNION {R[i][x] : x \in g[i - 1]}}

(* A loop over choices that stay in a set has its rounds.                  *)
LEMMA ChoicesExist ==
  ASSUME NEW U, NEW base \in SUBSET U, NEW N \in Nat, NEW R \in Branches(U)
  PROVE  \E g : g \in Outcomes(U, base, N, R)
  <1> DEFINE D == SUBSET U
             step == [i \in Nat |-> [X \in D |-> UNION {R[i][x] : x \in X}]]
  <1>1. \A i \in Nat, x \in U : R[i][x] \in SUBSET U
    BY DEF Branches
  <1>2. \A i \in Nat, X \in D : UNION {R[i][x] : x \in X} \in D
    BY <1>1
  <1>3. step \in Rounds(D)
    BY <1>2 DEF Rounds
  <1>4. PICK g : Results(D, base, step, N, g)
    <2>1. base \in D
      OBVIOUS
    <2> HIDE DEF D, step
    <2> QED
      BY <1>3, <2>1, LoopExists
  <1>5. g \in [0 .. N -> D]
    BY <1>4 DEF Results
  <1>6. ASSUME NEW i \in 0 .. N
        PROVE  g[i] = IF i = 0 THEN base ELSE UNION {R[i][x] : x \in g[i - 1]}
    <2>1. g[i] = IF i = 0 THEN base ELSE step[i][g[i - 1]]
      BY <1>4 DEF Results
    <2>2. CASE i # 0
      <3>1. i \in Nat /\ i - 1 \in 0 .. N
        BY <2>2
      <3>2. step[i][g[i - 1]] = UNION {R[i][x] : x \in g[i - 1]}
        BY <1>5, <3>1
      <3> QED
        BY <2>1, <2>2, <3>2
    <2> QED
      BY <2>1, <2>2
  <1>7. g \in Outcomes(U, base, N, R)
    BY <1>5, <1>6 DEF Outcomes
  <1> QED
    BY <1>7

-----------------------------------------------------------------------------
(* The search among the dead                                               *)

(* The entry d says that t's newest job was killed before its deadline.    *)
Killed(o, t, d) ==
  LET job == o.tasks[t].newest_job
  IN  d.foc_id = job.foc_id /\ d.time < job.arrival_time + Deadline[t]

(* An entry of the dead-threads list has a foc_id and a time.              *)
LEMMA DeadThread ==
  ASSUME Fetched, NEW i \in DOMAIN rip
  PROVE  rip[i].foc_id \in Nat /\ rip[i].time \in Nat
  <1> DEFINE E == [foc_id : Nat, time : Nat]
  <1>1. rip \in Seq(E)
    BY DEF Fetched
  <1>2. rip[i] \in E
    <2> HIDE DEF E
    <2> QED
      BY <1>1
  <1> QED
    BY <1>2

(* One round of the search: not this job, a late death, an early one.      *)
LEMMA InRipCases ==
  ASSUME NEW o, Sound(o), o.up, NEW t \in DOMAIN o.tasks, Fetched, NEW i \in DOMAIN rip,
         NEW x \in InRip(o, t, rip[i])
  PROVE  \/ x = o /\ rip[i].foc_id # o.tasks[t].newest_job.foc_id
         \/ /\ rip[i].foc_id = o.tasks[t].newest_job.foc_id
            /\ Follows(o, x, t)
            /\ SameJob(o, x, t)
         \/ /\ Killed(o, t, rip[i])
            /\ x \in Opt
            /\ x.up => Left(o, x, t)
  <1> DEFINE job == o.tasks[t].newest_job
             dead == rip[i]
  <1>0. o \in Opt /\ job \in Job /\ t \in Names
    BY JobOf, TaskOf DEF Sound
  <1>1. /\ dead.foc_id \in Nat /\ dead.time \in Nat
        /\ job.foc_id \in Nat /\ job.arrival_time \in Nat /\ job.core \in Cores
        /\ Deadline[t] \in Nat
    BY <1>0, DeadThread, PeriodAssumption DEF Job
  <1>2. CASE job.foc_id # dead.foc_id
    <2>1. x = o
      BY <1>2 DEF InRip
    <2> QED
      BY <2>1, <1>2
  <1>3. CASE job.foc_id = dead.foc_id /\ dead.time >= job.arrival_time + Deadline[t]
    <2> DEFINE m == Move(o, t, job.core)
    <2>1. UNION {DeadlineReached(y, t) : y \in {m}} = DeadlineReached(m, t)
      OBVIOUS
    <2>2. PICK y \in DeadlineReached(m, t) : x = Dispatch(y, t, TRUE)
      BY <1>3, <2>1 DEF InRip
    <2>3. Follows(o, m, t) /\ SameJob(o, m, t)
      BY <1>1, MoveFollows, SameJobKept
    <2> HIDE DEF m
    <2>4. Sound(m) /\ m \in Opt /\ t \in DOMAIN m.tasks
      BY <2>3, FollowsKeepsTask
    <2>5. Follows(m, y, t) /\ SameJob(m, y, t)
      BY <2>4, DeadlineReachedFollows, SameJobKept
    <2>6. Sound(y) /\ t \in DOMAIN y.tasks
      BY <2>4, <2>5, FollowsKeepsTask
    <2>7. Follows(y, x, t) /\ SameJob(y, x, t)
      BY <2>2, <2>6, DispatchFollows
    <2>8. Follows(o, y, t) /\ SameJob(o, y, t)
      BY <1>0, <2>3, <2>5, FollowsAgain, SameJobAgain
    <2>9. Follows(o, x, t) /\ SameJob(o, x, t)
      BY <1>0, <2>7, <2>8, FollowsAgain, SameJobAgain
    <2> QED
      BY <1>3, <2>9
  <1>4. CASE job.foc_id = dead.foc_id /\ ~(dead.time >= job.arrival_time + Deadline[t])
    <2>1. x \in RemoveTask(o, t, dead.foc_id, "KILLED")
      BY <1>4 DEF InRip
    <2>2. x \in Opt /\ (x.up => Left(o, x, t))
      BY <2>1, <1>1, RemoveTaskLeaves
    <2>3. dead.time < job.arrival_time + Deadline[t]
      BY <1>1, <1>4
    <2>4. Killed(o, t, dead)
      BY <1>4, <2>3 DEF Killed
    <2> QED
      BY <2>2, <2>4
  <1> QED
    BY <1>2, <1>3, <1>4

(* After the process ended, or the task was erased, nothing is found.      *)
LEMMA InRipOver ==
  ASSUME NEW o \in Opt, NEW t, NEW d, ~o.up \/ t \notin DOMAIN o.tasks,
         NEW x \in InRip(o, t, d)
  PROVE  x \in Opt /\ ~x.up
  <1>1. CASE ~o.up
    BY <1>1 DEF InRip
  <1>2. CASE o.up
    <2>1. x = Abort(o)
      BY <1>2 DEF InRip
    <2> QED
      BY <2>1, AbortElse
  <1> QED
    BY <1>1, <1>2

(* A job died once.                                                        *)
DiedOnce == \A i, j \in DOMAIN rip : rip[i].foc_id = rip[j].foc_id => i = j

(* The whole search: the task stays, or one early death ended it.          *)
LEMMA SearchRipFollows ==
  ASSUME NEW o, Sound(o), o.up, NEW t \in DOMAIN o.tasks, Fetched, DiedOnce,
         NEW x \in SearchRip(o, t)
  PROVE  /\ x \in Opt
         /\ x.up => \/ Follows(o, x, t)
                    \/ Left(o, x, t) /\ \E i \in DOMAIN rip : Killed(o, t, rip[i])
  <1> DEFINE L == Len(rip)
             U == {y \in Opt : y.up => Sound(y)}
             R == [i \in Nat |-> [y \in U |-> IF i \in 1 .. L THEN InRip(y, t, rip[i]) ELSE {}]]
             Loop(f) == f = [i \in 0 .. L |->
                              IF i = 0 THEN {o} ELSE UNION {InRip(y, t, rip[i]) : y \in f[i - 1]}]
             after == CHOOSE f : Loop(f)
  <1>1. L \in Nat /\ DOMAIN rip = 1 .. L
    BY DEF Fetched
  <1>2. o \in U
    BY DEF Sound
  <1>3. \A y \in U, i \in 1 .. L : InRip(y, t, rip[i]) \in SUBSET U
    <2> SUFFICES ASSUME NEW y \in U, NEW i \in 1 .. L, NEW z \in InRip(y, t, rip[i])
                 PROVE  z \in Opt /\ (z.up => Sound(z))
      OBVIOUS
    <2>1. CASE y.up /\ t \in DOMAIN y.tasks
      BY <2>1, <1>1, InRipCases DEF Follows, Passes, Left, Kept
    <2>2. CASE ~(y.up /\ t \in DOMAIN y.tasks)
      BY <2>2, InRipOver
    <2> QED
      BY <2>1, <2>2
  <1>4. R \in Branches(U)
    <2> HIDE DEF U, L
    <2> QED
      BY <1>3 DEF Branches
  <1>5. PICK g : /\ g \in [0 .. L -> SUBSET U]
                 /\ \A i \in 0 .. L :
                      g[i] = IF i = 0 THEN {o} ELSE UNION {R[i][y] : y \in g[i - 1]}
    <2>1. {o} \in SUBSET U
      BY <1>2
    <2> HIDE DEF U, L, R
    <2>2. PICK g : g \in Outcomes(U, {o}, L, R)
      BY <1>1, <1>4, <2>1, ChoicesExist
    <2> QED
      BY <2>2 DEF Outcomes
  <1>6. Loop(g)
    <2>1. ASSUME NEW i \in 0 .. L, i # 0
          PROVE  {R[i][y] : y \in g[i - 1]} = {InRip(y, t, rip[i]) : y \in g[i - 1]}
      <3>1. i \in Nat /\ i \in 1 .. L /\ i - 1 \in 0 .. L
        BY <1>1, <2>1
      <3>2. g[i - 1] \subseteq U
        BY <1>5, <3>1
      <3>3. \A y \in g[i - 1] : R[i][y] = InRip(y, t, rip[i])
        BY <3>1, <3>2
      <3> HIDE DEF R
      <3> QED
        BY <3>3
    <2>2. \A i \in 0 .. L : g[i] = IF i = 0 THEN {o}
                                   ELSE UNION {InRip(y, t, rip[i]) : y \in g[i - 1]}
      <3> HIDE DEF R
      <3> QED
        BY <1>5, <2>1
    <2>3. g = [i \in 0 .. L |-> g[i]]
      BY <1>5
    <2> QED
      BY <2>2, <2>3
  <1>7. Loop(after)
    <2> HIDE DEF Loop
    <2> QED
      BY <1>6
  <1>8. SearchRip(o, t) = after[L]
    BY DEF SearchRip
  <1> HIDE DEF after
  <1>9. /\ after[0] = {o}
        /\ \A i \in 1 .. L : after[i] = UNION {InRip(y, t, rip[i]) : y \in after[i - 1]}
    <2>1. after = [i \in 0 .. L |->
                    IF i = 0 THEN {o} ELSE UNION {InRip(y, t, rip[i]) : y \in after[i - 1]}]
      BY <1>7
    <2>2. 0 \in 0 .. L /\ \A i \in 1 .. L : i \in 0 .. L /\ i # 0
      BY <1>1
    <2> QED
      BY <2>1, <2>2
  <1> DEFINE foc == o.tasks[t].newest_job.foc_id
             Met(i, y) == /\ y \in Opt
                          /\ y.up => \/ y = o
                                     \/ /\ Follows(o, y, t) /\ SameJob(o, y, t)
                                        /\ \E j \in 1 .. i : rip[j].foc_id = foc
                                     \/ /\ Left(o, y, t)
                                        /\ \E j \in 1 .. i : Killed(o, t, rip[j])
             S == {i \in Nat : i <= L => \A y \in after[i] : Met(i, y)}
  <1>10. 0 \in S
    BY <1>9 DEF Sound
  <1>11. ASSUME NEW i \in Nat, i \in S PROVE i + 1 \in S
    <2> SUFFICES ASSUME i + 1 <= L, NEW z \in after[i + 1] PROVE Met(i + 1, z)
      OBVIOUS
    <2>1. i + 1 \in 1 .. L /\ (i + 1) - 1 = i /\ i <= L /\ i + 1 \in DOMAIN rip
      BY <1>1
    <2>2. PICK y \in after[i] : z \in InRip(y, t, rip[i + 1])
      BY <1>9, <2>1
    <2>3. Met(i, y)
      BY <1>11, <2>1, <2>2
    <2>4. 1 .. i \subseteq 1 .. i + 1 /\ i + 1 \in 1 .. i + 1 /\ 1 .. i \subseteq DOMAIN rip
      BY <1>1, <2>1
    <2>5. CASE ~y.up
      BY <2>2, <2>3, <2>5, InRipOver
    <2>6. CASE y.up /\ y = o
      <3>1. \/ z = o
            \/ rip[i + 1].foc_id = foc /\ Follows(o, z, t) /\ SameJob(o, z, t)
            \/ Killed(o, t, rip[i + 1]) /\ z \in Opt /\ (z.up => Left(o, z, t))
        BY <2>1, <2>2, <2>6, InRipCases
      <3>2. o \in Opt /\ (Follows(o, z, t) => z \in Opt)
        BY DEF Sound, Follows, Passes
      <3> QED
        BY <3>1, <3>2, <2>4
    <2>7. CASE /\ y.up /\ Follows(o, y, t) /\ SameJob(o, y, t)
               /\ \E j \in 1 .. i : rip[j].foc_id = foc
      <3>1. Sound(y) /\ y \in Opt /\ t \in DOMAIN y.tasks /\ y.tasks[t].newest_job.foc_id = foc
        BY <2>7, FollowsKeepsTask DEF SameJob
      <3>2. rip[i + 1].foc_id # foc
        <4>1. PICK j \in 1 .. i : rip[j].foc_id = foc
          BY <2>7
        <4>2. j # i + 1 /\ j \in DOMAIN rip
          BY <2>4
        <4> QED
          BY <4>1, <4>2, <2>1 DEF DiedOnce
      <3>3. z = y
        BY <2>2, <2>7, <3>1, <3>2 DEF InRip
      <3> QED
        BY <3>1, <3>3, <2>4, <2>7
    <2>8. CASE y.up /\ Left(o, y, t)
      <3>1. t \notin DOMAIN y.tasks /\ y \in Opt
        BY <2>3, <2>8 DEF Left
      <3> QED
        BY <3>1, <2>2, InRipOver
    <2> QED
      BY <2>3, <2>5, <2>6, <2>7, <2>8
  <1>12. L \in S
    <2> HIDE DEF S
    <2> QED
      BY <1>1, <1>10, <1>11, SetInduction
  <1>13. Met(L, x)
    BY <1>1, <1>8, <1>12
  <1>14. Follows(o, o, t)
    <2>1. o \in Opt
      BY DEF Sound
    <2>2. Kept(o, o, {"to_schedule", "competitor", "id_related", "arrival_time", "last_job_started"})
          /\ Kept(o, o, {"newest_job"})
      BY <2>1, KeptSame
    <2>3. JobsFrom(o, o)
      BY <2>1, <2>2, JobsKept
    <2> QED
      BY <2>2, <2>3, FollowsKept
  <1> QED
    BY <1>1, <1>13, <1>14

-----------------------------------------------------------------------------
(* A task whose job was not executed                                       *)

LEMMA StaysFollows ==
  ASSUME NEW o, Sound(o), NEW t
  PROVE  Follows(o, o, t) /\ SameJob(o, o, t)
  <1>1. o \in Opt
    BY DEF Sound
  <1>2. Kept(o, o, {"to_schedule", "competitor", "id_related", "arrival_time", "last_job_started"})
        /\ Kept(o, o, {"newest_job"})
    BY <1>1, KeptSame
  <1>3. JobsFrom(o, o)
    BY <1>1, <1>2, JobsKept
  <1>4. Follows(o, o, t)
    BY <1>2, <1>3, FollowsKept
  <1> QED
    BY <1>4 DEF SameJob

(* No new job: the task stays, or ended for a reason.                      *)
LEMMA TaskNotExecutedFollows ==
  ASSUME NEW o, Sound(o), o.up, NEW t \in DOMAIN o.tasks, Fetched, DiedOnce,
         NEW x \in TaskNotExecuted(o, t)
  PROVE  /\ x \in Opt
         /\ x.up => \/ Follows(o, x, t)
                    \/ /\ Left(o, x, t)
                       /\ \/ o.tasks[t].last_job_started
                          \/ \E i \in DOMAIN rip : Killed(o, t, rip[i])
  <1> DEFINE task == o.tasks[t]
             job == task.newest_job
             r == RaiseValue(o, t)
             v == ResetValues(r, t)
  <1>0. o \in Opt
    BY DEF Sound
  <1>1. CASE ~task.to_schedule
    <2>1. x = SetToSchedule(v, t)
      BY <1>1 DEF TaskNotExecuted
    <2>2. Follows(o, r, t)
      BY RaiseFollows
    <2> HIDE DEF r
    <2>3. Sound(r) /\ r \in Opt /\ t \in DOMAIN r.tasks
      BY <2>2, FollowsKeepsTask
    <2>4. CASE r.tasks[t].id_related # 0
      <3>1. Follows(r, v, t)
        BY <2>3, <2>4, ResetFollows
      <3> HIDE DEF v
      <3>2. Sound(v) /\ v \in Opt /\ t \in DOMAIN v.tasks
        BY <2>3, <3>1, FollowsKeepsTask
      <3>3. Follows(v, x, t)
        BY <2>1, <3>2, ScheduleFollows
      <3>4. Follows(o, x, t)
        BY <1>0, <2>2, <2>3, <3>1, <3>3, FollowsAgain
      <3> QED
        BY <3>4 DEF Follows, Passes, Sound
    <2>5. CASE r.tasks[t].id_related = 0
      <3>1. r.tasks[t].id_related \notin DOMAIN r.related
        BY <2>3, <2>5, ListOf
      <3>2. v = Abort(r)
        BY <3>1 DEF ResetValues
      <3> HIDE DEF v
      <3>3. v \in Opt /\ ~v.up /\ v.tasks = r.tasks
        BY <2>3, <3>2, AbortElse
      <3>4. Range(v.tasks[t].competitor) \subseteq DOMAIN v.tasks
        BY <2>3, <3>3 DEF Sound, Competitors
      <3>5. Kept(v, x, Fields \ {"to_schedule"})
        BY <2>1, <2>3, <3>3, <3>4, SetToScheduleKeeps
      <3> QED
        BY <3>3, <3>5 DEF Kept
    <2> QED
      BY <2>4, <2>5
  <1>2. CASE task.to_schedule /\ ~job.dispatched /\ task.arrival_time <= job.arrival_time
    <2>1. x \in SearchRip(o, t)
      BY <1>2 DEF TaskNotExecuted
    <2> QED
      BY <2>1, SearchRipFollows
  <1>3. CASE /\ task.to_schedule /\ ~(~job.dispatched /\ task.arrival_time <= job.arrival_time)
             /\ job.dispatched /\ task.last_job_started
    <2>1. x \in RemoveTask(o, t, job.foc_id, "FINISHED")
      BY <1>3 DEF TaskNotExecuted
    <2>2. job.foc_id \in Nat
      BY <1>0, JobOf
    <2>3. x \in Opt /\ (x.up => Left(o, x, t))
      BY <2>1, <2>2, RemoveTaskLeaves
    <2> QED
      BY <1>3, <2>3
  <1>4. CASE /\ task.to_schedule /\ ~(~job.dispatched /\ task.arrival_time <= job.arrival_time)
             /\ ~(job.dispatched /\ task.last_job_started)
    <2>1. x = o
      BY <1>4 DEF TaskNotExecuted
    <2> QED
      BY <2>1, <1>0, StaysFollows
  <1> QED
    BY <1>1, <1>2, <1>3, <1>4

-----------------------------------------------------------------------------
(* New jobs                                                                *)

(* Threads of t that the monitor lists.                                    *)
Listed(t) == {k \in DOMAIN mon : mon[k].name = t}

(* The list is indexed from 1.                                             *)
LEMMA MonitorIndices ==
  ASSUME Fetched
  PROVE  Len(mon) \in Nat /\ DOMAIN mon = 1 .. Len(mon)
  BY DEF Fetched

(* The most recent of the new threads is one that arrived last.            *)
LEMMA MostRecent ==
  ASSUME Fetched, NEW new, new \subseteq DOMAIN mon
  PROVE  /\ Recent(new).most \in {0} \cup new
         /\ \A k \in new : Arrival(k) <= Arrival(Recent(new).most)
  <1> DEFINE ks == {0} \cup new
  <1>1. ks \subseteq 0 .. Len(mon) /\ ks # {}
    BY MonitorIndices
  <1>2. Latest(ks) \in ks /\ \A k \in ks : Arrival(k) <= Arrival(Latest(ks))
    <2> HIDE DEF ks
    <2> QED
      BY <1>1, LatestIsOne
  <1>3. Recent(new).most = Latest(ks)
    BY DEF Recent
  <1> QED
    BY <1>2, <1>3

(* One round of the loop over the new threads.                             *)
LEMMA HandleNewJobFollows ==
  ASSUME NEW o, Sound(o), NEW t \in DOMAIN o.tasks, Fetched, NEW new, new \subseteq Listed(t),
         NEW i \in DOMAIN mon, NEW x \in HandleNewJob(o, t, new, i)
  PROVE  Follows(o, x, t)
  <1> DEFINE recent == Recent(new)
             reached == Reached(t, recent.most)
             consider == IF reached THEN recent.most ELSE recent.second
  <1>1. CASE i = recent.most /\ ~reached
    <2>1. x = SetNewestJob(o, t, i)
      BY <1>1 DEF HandleNewJob
    <2>2. i \in new
      <3>1. new \subseteq DOMAIN mon
        BY DEF Listed
      <3>2. i \in {0} \cup new
        BY <1>1, <3>1, MostRecent
      <3>3. i # 0
        BY MonitorIndices
      <3> QED
        BY <3>2, <3>3
    <2>3. mon[i].name = t
      BY <2>2 DEF Listed
    <2> QED
      BY <2>1, <2>3, SetNewestJobFollows
  <1>2. CASE ~(i = recent.most /\ ~reached)
    <2>1. x \in TaskExecuted(o, t, i, i = consider)
      BY <1>2 DEF HandleNewJob
    <2>2. (i = consider) \in BOOLEAN
      OBVIOUS
    <2> HIDE DEF consider
    <2> QED
      BY <2>1, <2>2, TaskExecutedFollows
  <1> QED
    BY <1>1, <1>2

(* From o, serving t has come to x, which sets when t is waited for next.  *)
Advances(o, x, t) ==
  /\ Sound(x)
  /\ x.up = o.up /\ x.ended = o.ended
  /\ DOMAIN x.tasks = DOMAIN o.tasks
  /\ \A n \in DOMAIN o.tasks : x.tasks[n].arrival_time >= o.tasks[n].arrival_time
  /\ JobsFrom(o, x)
  /\ Regrouped(o, x, t)
  /\ Fair(o) => Fair(x)

(* Arrival times are not negative.                                         *)
LEMMA ArrivalNat ==
  ASSUME NEW o \in Opt, NEW n \in DOMAIN o.tasks
  PROVE  o.tasks[n].arrival_time \in Nat
  BY TaskOf DEF Task

(* Who does not change what is waited for does not turn it back.           *)
LEMMA FollowsAdvances ==
  ASSUME NEW o \in Opt, NEW x, NEW t, Follows(o, x, t)
  PROVE  Advances(o, x, t)
  <1>1. \A n \in DOMAIN o.tasks : x.tasks[n].arrival_time = o.tasks[n].arrival_time
    BY DEF Follows, Passes, Kept
  <1>2. \A n \in DOMAIN o.tasks : x.tasks[n].arrival_time >= o.tasks[n].arrival_time
    BY <1>1, ArrivalNat
  <1> QED
    BY <1>2 DEF Follows, Passes, Kept, Advances

(* The next arrival waited for is later than the last one.                 *)
LEMMA SetArrivalTimeAdvances ==
  ASSUME NEW o \in Opt, NEW y, NEW t \in DOMAIN o.tasks, Follows(o, y, t), Fetched,
         NEW k, NEW b \in BOOLEAN, Arrival(k) >= o.tasks[t].arrival_time
  PROVE  Advances(o, SetArrivalTime(y, t, k, b), t)
  <1> DEFINE x == SetArrivalTime(y, t, k, b)
  <1>1. Sound(y) /\ y \in Opt /\ t \in DOMAIN y.tasks /\ DOMAIN y.tasks = DOMAIN o.tasks
    BY FollowsKeepsTask DEF Follows, Passes, Kept
  <1>2. /\ Kept(y, x, Fields \ {"arrival_time"})
        /\ x.related = y.related
        /\ x.tasks[t].arrival_time >= Arrival(k)
        /\ \A n \in DOMAIN y.tasks \ {t} : x.tasks[n].arrival_time = y.tasks[n].arrival_time
    <2>1. y \in Opt /\ t \in DOMAIN y.tasks
      BY <1>1
    <2> QED
      BY <2>1, SetArrivalTimeKeeps
  <1> HIDE DEF x
  <1>3. {"competitor", "id_related", "newest_job"} \subseteq Fields \ {"arrival_time"}
    BY DEF Fields
  <1>4. Sound(x)
    <2>1. {"competitor", "id_related"} \subseteq Fields \ {"arrival_time"}
      BY <1>3
    <2> QED
      BY <1>1, <1>2, <2>1, SoundKept
  <1>5. x \in Opt /\ DOMAIN x.tasks = DOMAIN o.tasks
    BY <1>1, <1>2 DEF Kept
  <1>6. JobsFrom(o, x)
    <2>1. JobsFrom(y, x)
      BY <1>1, <1>2, <1>3, JobsKept
    <2>2. JobsFrom(o, y)
      BY DEF Follows, Passes
    <2> QED
      BY <1>1, <1>5, <2>1, <2>2, JobsFromAgain
  <1>7. Regrouped(o, x, t)
    <2>1. Grouping(x) = Grouping(y)
      BY <1>2 DEF Grouping
    <2> QED
      BY <2>1 DEF Regrouped, Follows, Passes
  <1>8. \A n \in DOMAIN o.tasks : x.tasks[n].arrival_time >= o.tasks[n].arrival_time
    <2> SUFFICES ASSUME NEW n \in DOMAIN o.tasks
                 PROVE  x.tasks[n].arrival_time >= o.tasks[n].arrival_time
      OBVIOUS
    <2>1. o.tasks[n].arrival_time \in Nat /\ x.tasks[n].arrival_time \in Nat
      BY <1>5, ArrivalNat
    <2>2. CASE n = t
      <3>1. Arrival(k) \in Nat
        BY ArrivalType
      <3> QED
        BY <3>1, <2>1, <2>2, <1>2
    <2>3. CASE n # t
      <3>1. x.tasks[n].arrival_time = y.tasks[n].arrival_time
        BY <2>3, <1>1, <1>2
      <3>2. y.tasks[n].arrival_time = o.tasks[n].arrival_time
        BY DEF Follows, Passes, Kept
      <3> QED
        BY <3>1, <3>2, <2>1
    <2> QED
      BY <2>2, <2>3
  <1>9. x.up = o.up /\ x.ended = o.ended
    BY <1>2 DEF Follows, Passes, Kept
  <1>10. Fair(o) => Fair(x)
    <2>1. {"to_schedule", "competitor", "id_related"} \subseteq Fields \ {"arrival_time"}
      BY DEF Fields
    <2>2. Fair(y) => Fair(x)
      BY <1>2, <2>1, FairKept
    <2> QED
      BY <2>2 DEF Follows
  <1> QED
    BY <1>4, <1>5, <1>6, <1>7, <1>8, <1>9, <1>10 DEF Advances, x

(* The branch for one new job.                                             *)
LEMMA OneNewJobAdvances ==
  ASSUME NEW o, Sound(o), NEW t \in DOMAIN o.tasks, Fetched, NEW k \in Listed(t),
         Arrival(k) >= o.tasks[t].arrival_time, NEW x \in OneNewJob(o, t, k)
  PROVE  Advances(o, x, t)
  <1> DEFINE handled == IF Reached(t, k) THEN TaskExecuted(o, t, k, TRUE)
                        ELSE {SetNewestJob(o, t, k)}
  <1>1. PICK y \in handled : x = SetArrivalTime(y, t, k, Reached(t, k))
    BY DEF OneNewJob
  <1>2. k \in DOMAIN mon /\ mon[k].name = t /\ o \in Opt
    BY DEF Listed, Sound
  <1>3. Follows(o, y, t)
    <2>1. CASE Reached(t, k)
      <3>1. y \in TaskExecuted(o, t, k, TRUE)
        BY <2>1
      <3> QED
        BY <3>1, <1>2, TaskExecutedFollows
    <2>2. CASE ~Reached(t, k)
      <3>1. y = SetNewestJob(o, t, k)
        BY <2>2
      <3> QED
        BY <3>1, <1>2, SetNewestJobFollows
    <2> QED
      BY <2>1, <2>2
  <1>4. Reached(t, k) \in BOOLEAN
    BY DEF Reached
  <1> QED
    BY <1>1, <1>2, <1>3, <1>4, SetArrivalTimeAdvances

(* The branch for several new jobs: every round follows the one before.    *)
LEMMA ManyNewJobsAdvance ==
  ASSUME NEW o, Sound(o), NEW t \in DOMAIN o.tasks, Fetched, NEW new, new \subseteq Listed(t),
         new # {}, \A k \in new : Arrival(k) >= o.tasks[t].arrival_time,
         NEW x \in ManyNewJobs(o, t, new)
  PROVE  Advances(o, x, t)
  <1> DEFINE L == Cardinality(new)
             most == Recent(new).most
             U == {y \in Opt : Follows(o, y, t)}
             R == [i \in Nat |-> [y \in U |-> IF i \in 1 .. L THEN HandleNewJob(y, t, new, i)
                                              ELSE {}]]
             Loop(f) == f = [i \in 0 .. L |->
                              IF i = 0 THEN {o}
                              ELSE UNION {HandleNewJob(y, t, new, i) : y \in f[i - 1]}]
             after == CHOOSE f : Loop(f)
  <1>0. o \in Opt /\ new \subseteq DOMAIN mon
    BY DEF Sound, Listed
  <1>1. L \in Nat /\ 1 .. L \subseteq DOMAIN mon
    <2>1. Len(mon) \in Nat /\ DOMAIN mon = 1 .. Len(mon)
      BY MonitorIndices
    <2>2. IsFiniteSet(DOMAIN mon) /\ Cardinality(DOMAIN mon) = Len(mon)
      <3> DEFINE n == Len(mon)
      <3>1. n \in Nat /\ 1 \in Int /\ n \in Int /\ DOMAIN mon = 1 .. n
        BY <2>1
      <3> HIDE DEF n
      <3>2. IsFiniteSet(1 .. n) /\ Cardinality(1 .. n) = IF 1 > n THEN 0 ELSE n - 1 + 1
        BY <3>1, FS_Interval
      <3>3. (IF 1 > n THEN 0 ELSE n - 1 + 1) = n
        BY <3>1
      <3> QED
        BY <3>1, <3>2, <3>3 DEF n
    <2>3. IsFiniteSet(new) /\ L <= Len(mon)
      BY <1>0, <2>2, FS_Subset
    <2>4. L \in Nat
      BY <2>3, FS_CardinalityType
    <2> HIDE DEF L
    <2> QED
      BY <2>1, <2>3, <2>4
  <1>2. o \in U
    BY <1>0, StaysFollows
  <1>3. \A y \in U, i \in 1 .. L : HandleNewJob(y, t, new, i) \in SUBSET U
    <2> SUFFICES ASSUME NEW y \in U, NEW i \in 1 .. L, NEW z \in HandleNewJob(y, t, new, i)
                 PROVE  z \in Opt /\ Follows(o, z, t)
      OBVIOUS
    <2>1. Sound(y) /\ y \in Opt /\ t \in DOMAIN y.tasks
      BY FollowsKeepsTask
    <2>2. i \in DOMAIN mon
      BY <1>1
    <2>3. Follows(y, z, t)
      BY <2>1, <2>2, HandleNewJobFollows
    <2>4. Follows(o, z, t)
      BY <1>0, <2>3, FollowsAgain
    <2> QED
      BY <2>4, FollowsKeepsTask
  <1>4. R \in Branches(U)
    <2> HIDE DEF U, L
    <2> QED
      BY <1>3 DEF Branches
  <1>5. PICK g : /\ g \in [0 .. L -> SUBSET U]
                 /\ \A i \in 0 .. L :
                      g[i] = IF i = 0 THEN {o} ELSE UNION {R[i][y] : y \in g[i - 1]}
    <2>1. {o} \in SUBSET U
      BY <1>2
    <2> HIDE DEF U, L, R
    <2>2. PICK g : g \in Outcomes(U, {o}, L, R)
      BY <1>1, <1>4, <2>1, ChoicesExist
    <2> QED
      BY <2>2 DEF Outcomes
  <1>6. Loop(g)
    <2>1. ASSUME NEW i \in 0 .. L, i # 0
          PROVE  {R[i][y] : y \in g[i - 1]} = {HandleNewJob(y, t, new, i) : y \in g[i - 1]}
      <3>1. i \in Nat /\ i \in 1 .. L /\ i - 1 \in 0 .. L
        BY <1>1, <2>1
      <3>2. g[i - 1] \subseteq U
        BY <1>5, <3>1
      <3>3. \A y \in g[i - 1] : R[i][y] = HandleNewJob(y, t, new, i)
        BY <3>1, <3>2
      <3> HIDE DEF R
      <3> QED
        BY <3>3
    <2>2. \A i \in 0 .. L : g[i] = IF i = 0 THEN {o}
                                   ELSE UNION {HandleNewJob(y, t, new, i) : y \in g[i - 1]}
      <3> HIDE DEF R
      <3> QED
        BY <1>5, <2>1
    <2>3. g = [i \in 0 .. L |-> g[i]]
      BY <1>5
    <2> QED
      BY <2>2, <2>3
  <1>7. Loop(after)
    <2> HIDE DEF Loop
    <2> QED
      BY <1>6
  <1>8. ManyNewJobs(o, t, new) = {SetArrivalTime(y, t, most, Reached(t, most)) : y \in after[L]}
    BY DEF ManyNewJobs
  <1> HIDE DEF after
  <1>9. /\ after[0] = {o}
        /\ \A i \in 1 .. L : after[i] = UNION {HandleNewJob(y, t, new, i) : y \in after[i - 1]}
    <2>1. after = [i \in 0 .. L |->
                    IF i = 0 THEN {o}
                    ELSE UNION {HandleNewJob(y, t, new, i) : y \in after[i - 1]}]
      BY <1>7
    <2>2. 0 \in 0 .. L /\ \A i \in 1 .. L : i \in 0 .. L /\ i # 0
      BY <1>1
    <2> QED
      BY <2>1, <2>2
  <1> DEFINE S == {i \in Nat : i <= L => after[i] \subseteq U}
  <1>10. 0 \in S
    BY <1>2, <1>9
  <1>11. ASSUME NEW i \in Nat, i \in S PROVE i + 1 \in S
    <2> SUFFICES ASSUME i + 1 <= L PROVE after[i + 1] \subseteq U
      OBVIOUS
    <2>1. i + 1 \in 1 .. L /\ (i + 1) - 1 = i /\ after[i] \subseteq U
      BY <1>1, <1>11
    <2>2. after[i + 1] = UNION {HandleNewJob(y, t, new, i + 1) : y \in after[i]}
      BY <1>9, <2>1
    <2> HIDE DEF U
    <2> QED
      BY <1>3, <2>1, <2>2
  <1>12. L \in S
    <2> HIDE DEF S
    <2> QED
      BY <1>1, <1>10, <1>11, SetInduction
  <1>13. PICK y \in after[L] : x = SetArrivalTime(y, t, most, Reached(t, most))
    BY <1>8
  <1>14. Follows(o, y, t)
    BY <1>1, <1>12, <1>13
  <1>15. Arrival(most) >= o.tasks[t].arrival_time
    <2>1. PICK k \in new : TRUE
      OBVIOUS
    <2>2. Arrival(k) <= Arrival(most)
      BY <1>0, MostRecent
    <2>3. Arrival(k) \in Nat /\ Arrival(most) \in Nat /\ o.tasks[t].arrival_time \in Nat
      BY <1>0, ArrivalType, ArrivalNat
    <2>4. Arrival(k) >= o.tasks[t].arrival_time
      OBVIOUS
    <2> HIDE DEF most
    <2> QED
      BY <2>2, <2>3, <2>4
  <1>16. Reached(t, most) \in BOOLEAN
    BY DEF Reached
  <1> QED
    BY <1>0, <1>13, <1>14, <1>15, <1>16, SetArrivalTimeAdvances

-----------------------------------------------------------------------------
(* The whole analysis                                                      *)

(* From o, serving t has come to x, and t has ended.                       *)
Dismisses(o, x, t) ==
  /\ Sound(x)
  /\ x.up = o.up
  /\ DOMAIN x.tasks = DOMAIN o.tasks \ {t}
  /\ DOMAIN x.ended = DOMAIN o.ended \cup {t}
  /\ \A n \in DOMAIN o.ended : x.ended[n] = o.ended[n]
  /\ \A n \in DOMAIN x.tasks : x.tasks[n].arrival_time >= o.tasks[n].arrival_time
  /\ JobsFrom(o, x)
  /\ \A g \in Grouping(o) : t \in g => Cardinality(g) = 2
  /\ Grouping(x) = {g \in Grouping(o) : t \notin g}
  /\ \/ o.tasks[t].last_job_started
     \/ \E i \in DOMAIN rip : Killed(o, t, rip[i])
  /\ Fair(o) => Fair(x)

(* A task that ended after others were noted has been dismissed.           *)
LEMMA LeftDismisses ==
  ASSUME NEW o \in Opt, NEW t \in DOMAIN o.tasks, NEW y, Follows(o, y, t),
         y.tasks[t] = o.tasks[t], Grouping(y) = Grouping(o), NEW x, Left(y, x, t),
         \/ y.tasks[t].last_job_started
         \/ \E i \in DOMAIN rip : Killed(y, t, rip[i])
  PROVE  Dismisses(o, x, t)
  <1>1. y \in Opt /\ DOMAIN y.tasks = DOMAIN o.tasks /\ y.ended = o.ended /\ y.up = o.up
    BY DEF Follows, Passes, Kept
  <1>2. /\ Sound(x) /\ x \in Opt /\ x.up = o.up
        /\ DOMAIN x.tasks = DOMAIN o.tasks \ {t}
        /\ DOMAIN x.ended = DOMAIN o.ended \cup {t}
        /\ \A n \in DOMAIN o.ended : x.ended[n] = o.ended[n]
    BY <1>1 DEF Left, Sound
  <1>3. \A n \in DOMAIN x.tasks : x.tasks[n].arrival_time = o.tasks[n].arrival_time
    BY <1>2 DEF Left, Follows, Passes, Kept
  <1>4. \A n \in DOMAIN x.tasks : x.tasks[n].arrival_time >= o.tasks[n].arrival_time
    <2>1. \A n \in DOMAIN x.tasks : o.tasks[n].arrival_time \in Nat
      BY <1>2, ArrivalNat
    <2> QED
      BY <1>3, <2>1
  <1>5. JobsFrom(y, x)
    <2>1. \A n \in DOMAIN x.tasks : x.tasks[n].newest_job = y.tasks[n].newest_job
      BY DEF Left
    <2> QED
      BY <1>1, <2>1, JobOf DEF JobsFrom
  <1>6. JobsFrom(o, x)
    BY <1>1, <1>2, <1>5, JobsFromAgain DEF Follows, Passes
  <1>7. \/ o.tasks[t].last_job_started
        \/ \E i \in DOMAIN rip : Killed(o, t, rip[i])
    BY DEF Killed
  <1>8. /\ \A g \in Grouping(o) : t \in g => Cardinality(g) = 2
        /\ Grouping(x) = {g \in Grouping(o) : t \notin g}
    BY DEF Left
  <1>9. Fair(o) => Fair(x)
    BY DEF Follows, Left
  <1> QED
    BY <1>2, <1>4, <1>6, <1>7, <1>8, <1>9 DEF Dismisses

(* What the analysis of the monitor's data leaves of a process that lives. *)
LEMMA QueryMonitorOutcome ==
  ASSUME NEW o, Sound(o), o.up, NEW t \in DOMAIN o.tasks, Fetched, DiedOnce,
         NEW x \in QueryMonitor(o, t)
  PROVE  /\ x \in Opt
         /\ x.up => Advances(o, x, t) \/ Dismisses(o, x, t)
  <1> DEFINE y == NoteOthers(o, t)
             new == NewThreads(o, t)
  <1>1. o \in Opt
    BY DEF Sound
  <1>2. /\ Kept(o, y, Fields \ {"newest_job"})
        /\ y.related = o.related
        /\ JobsFrom(o, y)
        /\ y.tasks[t] = o.tasks[t]
    BY <1>1, NoteOthersKeeps
  <1>3. x \in React(y, t, new)
    BY DEF QueryMonitor
  <1> HIDE DEF y
  <1>4. {"to_schedule", "competitor", "id_related", "arrival_time", "last_job_started"}
          \subseteq Fields \ {"newest_job"}
    BY DEF Fields
  <1>5. Follows(o, y, t) /\ Grouping(y) = Grouping(o) /\ y.up
    <2>1. Follows(o, y, t)
      BY <1>2, <1>4, FollowsKept
    <2> QED
      BY <2>1, <1>2 DEF Grouping, Follows, Passes, Kept
  <1>6. Sound(y) /\ y \in Opt /\ t \in DOMAIN y.tasks
    BY <1>5, FollowsKeepsTask
  <1>7. /\ new \subseteq Listed(t)
        /\ \A k \in new : Arrival(k) >= y.tasks[t].arrival_time
    BY <1>2 DEF NewThreads, Listed, Arrival
  <1> HIDE DEF new
  <1>8. ASSUME NEW z, Advances(y, z, t) PROVE Advances(o, z, t) /\ z \in Opt
    <2>1. z \in Opt /\ DOMAIN z.tasks = DOMAIN y.tasks /\ DOMAIN y.tasks = DOMAIN o.tasks
      BY <1>5, <1>8 DEF Advances, Sound, Follows, Passes, Kept
    <2>2. JobsFrom(o, z)
      BY <1>1, <1>2, <1>6, <1>8, <2>1, JobsFromAgain DEF Advances
    <2>3. Regrouped(o, z, t)
      BY <1>5, <1>8, <2>1 DEF Advances, Regrouped
    <2>4. \A n \in DOMAIN o.tasks : z.tasks[n].arrival_time >= o.tasks[n].arrival_time
      BY <1>5, <1>8, <2>1 DEF Advances, Follows, Passes, Kept
    <2>5. z.up = o.up /\ z.ended = o.ended /\ Sound(z)
      BY <1>5, <1>8 DEF Advances, Follows, Passes, Kept
    <2>6. Fair(o) => Fair(z)
      BY <1>5, <1>8 DEF Advances, Follows
    <2> QED
      BY <2>1, <2>2, <2>3, <2>4, <2>5, <2>6 DEF Advances
  <1>9. CASE Cardinality(new) = 1
    <2>1. x \in OneNewJob(y, t, Min(new))
      BY <1>3, <1>9 DEF React
    <2>2. new \subseteq Nat /\ new # {}
      <3>1. new \subseteq Nat
        BY <1>7, MonitorIndices DEF Listed
      <3>2. new # {}
        BY <1>9, FS_EmptySet
      <3> QED
        BY <3>1, <3>2
    <2>3. Min(new) \in new
      BY <2>2, MinIsLeast
    <2>4. Min(new) \in Listed(t) /\ Arrival(Min(new)) >= y.tasks[t].arrival_time
      BY <2>3, <1>7
    <2>5. Advances(y, x, t)
      BY <2>1, <2>4, <1>6, OneNewJobAdvances
    <2> QED
      BY <2>5, <1>8
  <1>10. CASE Cardinality(new) # 1 /\ new # {}
    <2>1. x \in ManyNewJobs(y, t, new)
      BY <1>3, <1>10 DEF React
    <2>2. Advances(y, x, t)
      BY <2>1, <1>6, <1>7, <1>10, ManyNewJobsAdvance
    <2> QED
      BY <2>2, <1>8
  <1>11. CASE new = {} /\ y.tasks[t].arrival_time > 0
    <2>1. Cardinality(new) # 1
      BY <1>11, FS_EmptySet
    <2>2. x \in TaskNotExecuted(y, t)
      BY <1>3, <1>11, <2>1 DEF React
    <2>3. /\ x \in Opt
          /\ x.up => \/ Follows(y, x, t)
                     \/ /\ Left(y, x, t)
                        /\ \/ y.tasks[t].last_job_started
                           \/ \E i \in DOMAIN rip : Killed(y, t, rip[i])
      BY <2>2, <1>5, <1>6, TaskNotExecutedFollows
    <2>4. Follows(y, x, t) => Advances(o, x, t)
      BY <1>6, <1>8, FollowsAdvances
    <2>5. ASSUME Left(y, x, t),
                 \/ y.tasks[t].last_job_started
                 \/ \E i \in DOMAIN rip : Killed(y, t, rip[i])
          PROVE  Dismisses(o, x, t)
      BY <2>5, <1>1, <1>2, <1>5, LeftDismisses
    <2> QED
      BY <2>3, <2>4, <2>5
  <1>12. CASE new = {} /\ ~(y.tasks[t].arrival_time > 0)
    <2>1. Cardinality(new) # 1
      BY <1>12, FS_EmptySet
    <2>2. x = y
      BY <1>3, <1>12, <2>1 DEF React
    <2>3. Advances(o, y, t)
      BY <1>1, <1>5, FollowsAdvances
    <2> QED
      BY <2>2, <2>3, <1>6
  <1> QED
    BY <1>9, <1>10, <1>11, <1>12

-----------------------------------------------------------------------------
(* The inductive invariant                                                 *)

State == [tasks |-> tasks, ended |-> ended, related |-> related, up |-> up]

(* The task whose analysis is awaited exists: the caller looked it up, and *)
(* only an analysis removes tasks.                                         *)
Serves == up /\ phase \in {"wait", "analyse"} => serving \in DOMAIN tasks

\* The foc_ids given out so far.
Started == 1 .. Len(Residents) + jobs

(* A foc_id stands for one thread, which the monitor lists among the       *)
(* living or among the dead, and always under the same name.               *)
ThreadsKnown ==
  /\ \A k \in DOMAIN threads : threads[k].foc_id \in Started
  /\ \A j, k \in DOMAIN threads : threads[j].foc_id = threads[k].foc_id => j = k

DeadKnown ==
  /\ \A i \in DOMAIN rip : rip[i].foc_id \in Started
  /\ DiedOnce
  /\ \A i \in DOMAIN rip, k \in DOMAIN threads : rip[i].foc_id # threads[k].foc_id

MonitorKnown ==
  \A i \in DOMAIN mon :
    /\ mon[i].foc_id \in Started
    /\ \A k \in DOMAIN threads :
         threads[k].foc_id = mon[i].foc_id => threads[k].name = mon[i].name

JobsKnown ==
  \A n \in DOMAIN tasks :
    /\ tasks[n].newest_job.foc_id \in {0} \cup Started
    /\ \A k \in DOMAIN threads :
         threads[k].foc_id = tasks[n].newest_job.foc_id => threads[k].name = n

OptInv ==
  /\ TypeOK
  /\ Sound(State)
  /\ Serves
  /\ ThreadsKnown
  /\ DeadKnown
  /\ MonitorKnown
  /\ JobsKnown

(* The typed state is a record of the private functions.                   *)
LEMMA StateTyped ==
  ASSUME TypeOK
  PROVE  State \in Opt /\ Fetched
  <1>1. tasks \in Maps(Names, Task)
    BY DEF TypeOK, Maps
  <1>2. ended \in Maps(Names, EndedTask)
    BY DEF TypeOK, Maps
  <1>3. related \in Maps(Nat \ {0}, RelatedList)
    BY DEF TypeOK, Maps
  <1>4. up \in BOOLEAN /\ Fetched
    BY DEF TypeOK, Fetched
  <1> QED
    BY <1>1, <1>2, <1>3, <1>4 DEF State, Opt

(* A record of the private functions types the state.                      *)
LEMMA TypedState ==
  ASSUME NEW o \in Opt
  PROVE  /\ DOMAIN o.tasks \subseteq Names /\ o.tasks \in [DOMAIN o.tasks -> Task]
         /\ DOMAIN o.ended \subseteq Names /\ o.ended \in [DOMAIN o.ended -> EndedTask]
         /\ DOMAIN o.related \subseteq Nat \ {0}
         /\ o.related \in [DOMAIN o.related -> RelatedList]
         /\ o.up \in BOOLEAN
  <1>1. /\ o.tasks \in Maps(Names, Task) /\ o.ended \in Maps(Names, EndedTask)
        /\ o.related \in Maps(Nat \ {0}, RelatedList) /\ o.up \in BOOLEAN
    BY DEF Opt
  <1>2. ASSUME NEW K, NEW V, NEW f \in Maps(K, V)
        PROVE  DOMAIN f \subseteq K /\ f \in [DOMAIN f -> V]
    BY DEF Maps
  <1> QED
    BY <1>1, <1>2

(* An optimizer that knows no task is sound.                               *)
LEMMA EmptySound ==
  ASSUME NEW o \in Opt, DOMAIN o.tasks = {}, DOMAIN o.related = {}
  PROVE  Sound(o)
  <1>1. IsFiniteSet(DOMAIN o.tasks)
    BY FS_EmptySet
  <1> QED
    BY <1>1 DEF Sound, Numbered, Lists, Competitors, Maxima

(* The optimizer starts without tasks.                                     *)
LEMMA InitInv == Init => OptInv
  <1> SUFFICES ASSUME Init PROVE OptInv
    OBVIOUS
  <1>0. Len(Residents) \in Nat /\ DOMAIN Residents = 1 .. Len(Residents)
    BY ResidentAssumption
  <1>1. threads \in Seq(Thread)
    <2>1. \A k \in DOMAIN Residents : threads[k] \in Thread
      <3> SUFFICES ASSUME NEW k \in DOMAIN Residents PROVE threads[k] \in Thread
        OBVIOUS
      <3>1. /\ threads[k] = [name |-> Residents[k], foc_id |-> k, arrival_time |-> 0,
                             exit_time |-> 0, core |-> 0, execution_time |-> 0]
            /\ k \in Nat
        BY <1>0 DEF Init
      <3>2. Residents[k] \in Range(Residents)
        BY DEF Range
      <3> QED
        BY <3>1, <3>2, CoreAssumption DEF Thread
    <2>2. threads = [k \in 1 .. Len(Residents) |-> threads[k]]
      BY <1>0 DEF Init
    <2> QED
      BY <1>0, <2>1, <2>2
  <1>2. TypeOK
    <2>1. tasks = <<>> /\ ended = <<>> /\ related = <<>> /\ mon = <<>> /\ rip = <<>>
      BY DEF Init
    <2>2. /\ DOMAIN tasks = {} /\ tasks \in [DOMAIN tasks -> Task]
          /\ DOMAIN ended = {} /\ ended \in [DOMAIN ended -> EndedTask]
          /\ DOMAIN related = {} /\ related \in [DOMAIN related -> RelatedList]
      BY <2>1
    <2>3. mon \in Seq(Thread) /\ rip \in Seq([foc_id : Nat, time : Nat])
      BY <2>1
    <2> QED
      BY <1>1, <2>2, <2>3 DEF Init, TypeOK
  <1>3. Sound(State)
    BY <1>2, StateTyped, EmptySound DEF Init, State
  <1>4. Serves
    BY DEF Init, Serves
  <1>5. ThreadsKnown
    BY <1>0 DEF Init, ThreadsKnown, Started
  <1>6. DeadKnown /\ MonitorKnown /\ JobsKnown
    BY DEF Init, DeadKnown, DiedOnce, MonitorKnown, JobsKnown
  <1> QED
    BY <1>2, <1>3, <1>4, <1>5, <1>6 DEF OptInv

-----------------------------------------------------------------------------
(* The steps that leave the kernel's threads as they are                   *)

LEMMA OptKept ==
  ASSUME OptInv, UNCHANGED optVars
  PROVE  Sound(State)' /\ State' = State
  <1>1. State' = State
    BY DEF State, optVars
  <1> QED
    BY <1>1 DEF OptInv

(* What is known of threads stays when no thread changes.                  *)
LEMMA ThreadsKept ==
  ASSUME OptInv, UNCHANGED <<threads, rip, jobs>>
  PROVE  ThreadsKnown' /\ DeadKnown'
  BY DEF OptInv, ThreadsKnown, DeadKnown, DiedOnce, Started

(* What is known of the fetched data stays when no thread changes.         *)
LEMMA MonitorKept ==
  ASSUME OptInv, UNCHANGED <<mon, threads, jobs>>
  PROVE  MonitorKnown'
  BY DEF OptInv, MonitorKnown, Started

(* What is known of newest jobs stays when no task or thread changes.      *)
LEMMA JobsStay ==
  ASSUME OptInv, UNCHANGED <<tasks, threads, jobs>>
  PROVE  JobsKnown'
  BY DEF OptInv, JobsKnown, Started

(* Time passes.                                                            *)
LEMMA TickInv == OptInv /\ Tick => OptInv'
  <1> SUFFICES ASSUME OptInv, Tick PROVE OptInv'
    OBVIOUS
  <1>1. TypeOK'
    BY DEF OptInv, TypeOK, Tick, optVars, callVars
  <1>2. Serves'
    BY DEF OptInv, Serves, Tick, optVars, callVars
  <1> QED
    BY <1>1, <1>2, OptKept, ThreadsKept, MonitorKept, JobsStay
       DEF OptInv, Tick, optVars, callVars

(* The user chooses another goal.                                          *)
LEMMA SetGoalInv == ASSUME NEW g \in Goals PROVE OptInv /\ SetGoal(g) => OptInv'
  <1> SUFFICES ASSUME OptInv, SetGoal(g) PROVE OptInv'
    OBVIOUS
  <1>1. TypeOK'
    BY GoalAssumption DEF OptInv, TypeOK, SetGoal, callVars, envVars
  <1>2. Serves'
    BY DEF OptInv, Serves, SetGoal, callVars
  <1>3. Sound(State)'
    <2>1. State' = State
      BY DEF State, SetGoal
    <2> QED
      BY <2>1 DEF OptInv
  <1> QED
    BY <1>1, <1>2, <1>3, ThreadsKept, MonitorKept, JobsStay
       DEF OptInv, SetGoal, callVars, envVars

(* The call looks its task up before it waits.                             *)
LEMMA StartOptimizingInv ==
  ASSUME NEW n \in Names PROVE OptInv /\ StartOptimizing(n) => OptInv'
  <1> SUFFICES ASSUME OptInv, StartOptimizing(n) PROVE OptInv'
    OBVIOUS
  <1>1. TypeOK'
    BY DEF OptInv, TypeOK, StartOptimizing, optVars, envVars
  <1>2. Serves'
    BY DEF Serves, StartOptimizing, optVars
  <1> QED
    BY <1>1, <1>2, OptKept, ThreadsKept, MonitorKept, JobsStay
       DEF OptInv, StartOptimizing, optVars, envVars

(* The call returns after its sleep.                                       *)
LEMMA ReturnInv == OptInv /\ Return => OptInv'
  <1> SUFFICES ASSUME OptInv, Return PROVE OptInv'
    OBVIOUS
  <1>1. TypeOK'
    BY DEF OptInv, TypeOK, Return, optVars, envVars
  <1>2. Serves'
    BY DEF Serves, Return
  <1> QED
    BY <1>1, <1>2, OptKept, ThreadsKept, MonitorKept, JobsStay
       DEF OptInv, Return, optVars, envVars

(* What is fetched are the threads of that moment.                         *)
LEMMA PollInv == ASSUME NEW t \in 0 .. MaxTime PROVE OptInv /\ Poll(t) => OptInv'
  <1> SUFFICES ASSUME OptInv, Poll(t) PROVE OptInv'
    OBVIOUS
  <1>1. t \in Nat
    BY NumberAssumption
  <1>2. TypeOK'
    BY <1>1 DEF OptInv, TypeOK, Poll, optVars, envVars
  <1>3. Serves'
    BY DEF OptInv, Serves, Poll, optVars
  <1>4. MonitorKnown'
    BY DEF OptInv, ThreadsKnown, MonitorKnown, Started, Poll, envVars
  <1> QED
    BY <1>2, <1>3, <1>4, OptKept, ThreadsKept, JobsStay
       DEF OptInv, Poll, optVars, envVars

(* A task that announces its last job is otherwise the same.               *)
LEMMA LastJobStartedPuts ==
  ASSUME OptInv, NEW n \in Names, LastJobStarted(n)
  PROVE  /\ Kept(State, State', Fields \ {"last_job_started"})
         /\ related' = related
  <1> DEFINE r == [tasks[n] EXCEPT !.last_job_started = TRUE]
  <1>1. State \in Opt /\ n \in DOMAIN State.tasks /\ State.tasks = tasks
    BY StateTyped DEF OptInv, LastJobStarted, State
  <1>2. State' = Put(State, n, r)
    <2>1. tasks' = [tasks EXCEPT ![n] = r] /\ UNCHANGED <<ended, related, up>>
      BY DEF LastJobStarted
    <2> HIDE DEF r
    <2>2. [State EXCEPT !.tasks[n] = r]
            = [tasks |-> [tasks EXCEPT ![n] = r], ended |-> ended, related |-> related, up |-> up]
      BY DEF State
    <2> QED
      BY <2>1, <2>2 DEF State, Put
  <1>3. tasks[n] \in Task
    BY <1>1, TaskOf
  <1>4. r \in Task /\ \A f \in Fields \ {"last_job_started"} : r[f] = tasks[n][f]
    BY <1>3 DEF Task, Fields
  <1> HIDE DEF r
  <1>5. Kept(State, Put(State, n, r), Fields \ {"last_job_started"})
    BY <1>1, <1>4, PutKeeps
  <1> QED
    BY <1>2, <1>5 DEF LastJobStarted

(* The announcement of the last job changes no list or job.                *)
LEMMA LastJobStartedInv ==
  ASSUME NEW n \in Names PROVE OptInv /\ LastJobStarted(n) => OptInv'
  <1> SUFFICES ASSUME OptInv, LastJobStarted(n) PROVE OptInv'
    OBVIOUS
  <1>1. Kept(State, State', Fields \ {"last_job_started"}) /\ related' = related
    BY LastJobStartedPuts
  <1>2. {"competitor", "id_related", "newest_job"} \subseteq Fields \ {"last_job_started"}
    BY DEF Fields
  <1>3. Sound(State')
    <2>1. State.related = related /\ State'.related = related'
      BY DEF State
    <2>2. {"competitor", "id_related"} \subseteq Fields \ {"last_job_started"}
      BY <1>2
    <2> QED
      BY <1>1, <2>1, <2>2, SoundKept DEF OptInv
  <1>4. TypeOK'
    <2>1. State' \in Opt /\ State'.tasks = tasks'
      BY <1>1 DEF Kept, State
    <2>2. DOMAIN tasks' \subseteq Names /\ tasks' \in [DOMAIN tasks' -> Task]
      BY <2>1, TypedState
    <2> QED
      BY <2>2 DEF OptInv, TypeOK, LastJobStarted, callVars, envVars
  <1>5. DOMAIN tasks' = DOMAIN tasks
    BY DEF LastJobStarted
  <1>6. Serves'
    BY <1>5 DEF OptInv, Serves, LastJobStarted, callVars
  <1>7. JobsKnown'
    <2>1. \A m \in DOMAIN tasks : tasks'[m].newest_job = tasks[m].newest_job
      BY <1>1, <1>2 DEF Kept, State
    <2> QED
      BY <1>5, <2>1 DEF OptInv, JobsKnown, Started, LastJobStarted, envVars
  <1> QED
    BY <1>3, <1>4, <1>6, <1>7, ThreadsKept, MonitorKept
       DEF OptInv, LastJobStarted, callVars, envVars

-----------------------------------------------------------------------------
(* A new task                                                              *)

LEMMA NewTaskTyped ==
  ASSUME NEW core \in Cores
  PROVE  NewTask(core) \in Task
  <1>1. [c \in Cores |-> 0] \in [Cores -> Nat]
    OBVIOUS
  <1>2. [foc_id |-> 0, arrival_time |-> 0, core |-> 0, dispatched |-> TRUE] \in Job
    BY CoreAssumption DEF Job
  <1>3. <<>> \in Seq(Names)
    OBVIOUS
  <1> QED
    BY <1>1, <1>2, <1>3 DEF NewTask, Task

Added(o, n, core) == [o EXCEPT !.tasks = With(o.tasks, n, NewTask(core))]

(* A new task competes with nobody and is on no list.                      *)
LEMMA AddTaskSound ==
  ASSUME NEW o, Sound(o), NEW n \in Names, n \notin DOMAIN o.tasks, NEW core \in Cores
  PROVE  LET x == Added(o, n, core)
         IN  /\ Sound(x)
             /\ DOMAIN x.tasks = DOMAIN o.tasks \cup {n}
             /\ x.tasks[n] = NewTask(core)
             /\ \A m \in DOMAIN o.tasks : x.tasks[m] = o.tasks[m]
  <1> DEFINE x == Added(o, n, core)
             new == With(o.tasks, n, NewTask(core))
  <1>1. o \in Opt
    BY DEF Sound
  <1>2. /\ DOMAIN new = DOMAIN o.tasks \cup {n}
        /\ new[n] = NewTask(core)
        /\ \A m \in DOMAIN o.tasks : new[m] = o.tasks[m]
        /\ new = [m \in DOMAIN new |-> new[m]]
    BY DEF With
  <1> HIDE DEF new
  <1>3. x.tasks = new /\ x.ended = o.ended /\ x.related = o.related /\ x.up = o.up
    BY <1>1 DEF Opt, Added, new
  <1>4. new \in Maps(Names, Task)
    <2>1. \A m \in DOMAIN new : new[m] \in Task /\ m \in Names
      BY <1>1, <1>2, TaskOf, NewTaskTyped
    <2>2. new \in [DOMAIN new -> Task]
      BY <1>2, <2>1
    <2> QED
      BY <2>1, <2>2 DEF Maps
  <1>5. x \in Opt
    BY <1>1, <1>4 DEF Opt, Added, new
  <1> HIDE DEF x
  <1>6. IsFiniteSet(DOMAIN x.tasks)
    BY <1>2, <1>3, FS_AddElement DEF Sound
  <1>7. Numbered(x)
    BY <1>3 DEF Sound, Numbered
  <1>8. new[n].id_related = 0 /\ new[n].competitor = <<>>
    BY <1>2 DEF NewTask
  <1>9. Lists(x)
    <2>1. \A id \in DOMAIN o.related : id # 0
      BY <1>1, ListOf
    <2> QED
      BY <1>2, <1>3, <1>8, <2>1 DEF Sound, Lists
  <1>10. Competitors(x)
    <2>1. IsInjective(new[n].competitor) /\ Range(new[n].competitor) = {}
      BY <1>8 DEF IsInjective, Range
    <2>2. \A m \in DOMAIN new \ {n} : new[m] = o.tasks[m] /\ m \in DOMAIN o.tasks
      BY <1>2
    <2> QED
      BY <1>2, <1>3, <2>1, <2>2 DEF Sound, Competitors
  <1>11. Maxima(x)
    <2>1. \A id \in DOMAIN o.related : o.related[id].tasks \subseteq DOMAIN o.tasks
      BY DEF Sound, Lists
    <2> QED
      BY <1>2, <1>3, <2>1 DEF Sound, Maxima
  <1> QED
    BY <1>2, <1>3, <1>5, <1>6, <1>7, <1>9, <1>10, <1>11 DEF Sound, x

(* add_task adds one task and changes no other.                            *)
LEMMA AddTaskAdds ==
  ASSUME OptInv, NEW n \in Names, NEW core \in Cores, AddTask(n, core)
  PROVE  /\ Sound(State')
         /\ DOMAIN tasks' = DOMAIN tasks \cup {n}
         /\ tasks'[n] = NewTask(core)
         /\ \A m \in DOMAIN tasks : tasks'[m] = tasks[m]
  <1>1. State' = Added(State, n, core)
    BY DEF AddTask, State, Added
  <1>2. Sound(State) /\ n \notin DOMAIN State.tasks
    BY DEF OptInv, AddTask, State
  <1>3. State.tasks = tasks /\ State'.tasks = tasks'
    BY DEF State
  <1> DEFINE o == State
             x == Added(o, n, core)
  <1>4. /\ Sound(x)
        /\ DOMAIN x.tasks = DOMAIN o.tasks \cup {n}
        /\ x.tasks[n] = NewTask(core)
        /\ \A m \in DOMAIN o.tasks : x.tasks[m] = o.tasks[m]
    <2> HIDE DEF o
    <2>1. Sound(o) /\ n \notin DOMAIN o.tasks
      BY <1>2 DEF o
    <2> QED
      BY <2>1, AddTaskSound
  <1> QED
    BY <1>1, <1>3, <1>4

(* A new task knows of no job yet.                                         *)
LEMMA AddTaskInv ==
  ASSUME NEW n \in Names, NEW core \in Cores PROVE OptInv /\ AddTask(n, core) => OptInv'
  <1> SUFFICES ASSUME OptInv, AddTask(n, core) PROVE OptInv'
    OBVIOUS
  <1>1. /\ Sound(State')
        /\ DOMAIN tasks' = DOMAIN tasks \cup {n}
        /\ tasks'[n] = NewTask(core)
        /\ \A m \in DOMAIN tasks : tasks'[m] = tasks[m]
    BY AddTaskAdds
  <1>2. TypeOK'
    <2>1. State' \in Opt /\ State'.tasks = tasks'
      BY <1>1 DEF Sound, State
    <2>2. DOMAIN tasks' \subseteq Names /\ tasks' \in [DOMAIN tasks' -> Task]
      BY <2>1, TypedState
    <2> QED
      BY <2>2 DEF OptInv, TypeOK, AddTask, callVars, envVars
  <1>3. Serves'
    BY <1>1 DEF OptInv, Serves, AddTask, callVars
  <1>4. JobsKnown'
    <2>1. tasks'[n].newest_job.foc_id = 0
      BY <1>1 DEF NewTask
    <2>2. \A k \in DOMAIN threads : threads[k].foc_id # 0
      BY DEF OptInv, ThreadsKnown, Started
    <2> QED
      BY <1>1, <2>1, <2>2 DEF OptInv, JobsKnown, Started, AddTask, envVars
  <1> QED
    BY <1>1, <1>2, <1>3, <1>4, ThreadsKept, MonitorKept
       DEF OptInv, AddTask, callVars, envVars

-----------------------------------------------------------------------------
(* The analysis, whatever became of the value arrays                       *)

(* o with other value arrays.                                              *)
Overwritten(o, b) == Kept(o, b, Fields \ {"value"}) /\ b.related = o.related

(* Overwritten value arrays still hold numbers.                            *)
LEMMA ClobberOverwrites ==
  ASSUME OptInv, up, NEW ts \in Clobber(tasks)
  PROVE  Overwritten(State, [tasks |-> ts, ended |-> ended, related |-> related, up |-> TRUE])
  <1> DEFINE b == [tasks |-> ts, ended |-> ended, related |-> related, up |-> TRUE]
  <1>1. State \in Opt /\ State.tasks = tasks /\ tasks \in [DOMAIN tasks -> Task]
    BY StateTyped DEF OptInv, TypeOK, State
  <1>2. up = TRUE
    BY DEF OptInv, TypeOK
  <1>3. CASE ts = tasks
    <2>1. b = State
      BY <1>2, <1>3 DEF State
    <2> QED
      BY <1>1, <2>1, KeptSame DEF Overwritten
  <1>4. CASE ts # tasks
    <2>1. PICK v \in [DOMAIN tasks -> [Cores -> StackWords]] :
            ts = [n \in DOMAIN tasks |-> [tasks[n] EXCEPT !.value = v[n]]]
      BY <1>4 DEF Clobber
    <2>2. \A n \in DOMAIN tasks : v[n] \in [Cores -> Nat]
      <3>1. StackWords \subseteq Nat
        BY NumberAssumption
      <3> QED
        BY <3>1
    <2>3. \A n \in DOMAIN tasks : /\ ts[n] \in Task
                                  /\ \A f \in Fields \ {"value"} : ts[n][f] = tasks[n][f]
      <3> SUFFICES ASSUME NEW n \in DOMAIN tasks
                   PROVE  /\ ts[n] \in Task
                          /\ \A f \in Fields \ {"value"} : ts[n][f] = tasks[n][f]
        OBVIOUS
      <3>1. tasks[n] \in Task /\ v[n] \in [Cores -> Nat]
        BY <1>1, <2>2
      <3>2. ts[n] = [tasks[n] EXCEPT !.value = v[n]]
        BY <2>1
      <3> QED
        BY <3>1, <3>2 DEF Task, Fields
    <2>4. ts \in [DOMAIN tasks -> Task]
      BY <2>1, <2>3
    <2>5. b = PutAll(State, ts)
      <3> DEFINE p == PutAll(State, ts)
      <3>1. p \in Opt /\ p.tasks = ts /\ p.ended = ended /\ p.related = related /\ p.up = up
        <4>1. State.ended = ended /\ State.related = related /\ State.up = up
          BY DEF State
        <4>2. /\ p \in Opt /\ p.tasks = ts
              /\ p.ended = State.ended /\ p.related = State.related /\ p.up = State.up
          BY <1>1, <2>4, PutAllElse
        <4> QED
          BY <4>1, <4>2
      <3> HIDE DEF p
      <3>2. p = [tasks |-> p.tasks, ended |-> p.ended, related |-> p.related, up |-> p.up]
        BY <3>1 DEF Opt
      <3> QED
        BY <1>2, <3>1, <3>2 DEF p
    <2>6. Kept(State, PutAll(State, ts), Fields \ {"value"})
      BY <1>1, <2>3, <2>4, PutAllKeeps
    <2>7. PutAll(State, ts).related = State.related
      BY <1>1, <2>4, PutAllElse
    <2> QED
      BY <2>5, <2>6, <2>7 DEF Overwritten
  <1> QED
    BY <1>3, <1>4

(* Overwritten value arrays touch no list.                                 *)
LEMMA OverwrittenSound ==
  ASSUME NEW o, Sound(o), NEW b, Overwritten(o, b)
  PROVE  Sound(b)
  <1>1. {"competitor", "id_related"} \subseteq Fields \ {"value"}
    BY DEF Fields
  <1> QED
    BY <1>1, SoundKept DEF Overwritten

(* Overwritten value arrays leave everything else as it is.                *)
LEMMA OverwrittenElse ==
  ASSUME NEW o \in Opt, NEW b, Overwritten(o, b)
  PROVE  /\ b \in Opt /\ b.up = o.up /\ b.ended = o.ended
         /\ DOMAIN b.tasks = DOMAIN o.tasks
         /\ \A n \in DOMAIN o.tasks :
              /\ b.tasks[n].newest_job = o.tasks[n].newest_job
              /\ b.tasks[n].arrival_time = o.tasks[n].arrival_time
              /\ b.tasks[n].last_job_started = o.tasks[n].last_job_started
         /\ Grouping(b) = Grouping(o)
         /\ Fair(o) => Fair(b)
  <1>1. {"newest_job", "arrival_time", "last_job_started"} \subseteq Fields \ {"value"}
    BY DEF Fields
  <1>2. Fair(o) => Fair(b)
    <2>1. {"to_schedule", "competitor", "id_related"} \subseteq Fields \ {"value"}
      BY DEF Fields
    <2> QED
      BY <2>1, FairKept DEF Overwritten
  <1> QED
    BY <1>1, <1>2 DEF Overwritten, Kept, Grouping

(* What an analysis does to lists and jobs does not depend on values.      *)
LEMMA AdvancesOverwritten ==
  ASSUME NEW o \in Opt, NEW b, Overwritten(o, b), NEW x, NEW t, Advances(b, x, t)
  PROVE  Advances(o, x, t)
  <1>1. /\ DOMAIN b.tasks = DOMAIN o.tasks
        /\ \A n \in DOMAIN o.tasks :
              /\ b.tasks[n].newest_job = o.tasks[n].newest_job
              /\ b.tasks[n].arrival_time = o.tasks[n].arrival_time
        /\ Grouping(b) = Grouping(o)
        /\ b.up = o.up /\ b.ended = o.ended
        /\ Fair(o) => Fair(b)
    BY OverwrittenElse
  <1>2. JobsFrom(o, x)
    BY <1>1 DEF Advances, JobsFrom
  <1>3. Regrouped(o, x, t)
    BY <1>1 DEF Advances, Regrouped
  <1> QED
    BY <1>1, <1>2, <1>3 DEF Advances

(* Nor does whether a task has ended.                                      *)
LEMMA DismissesOverwritten ==
  ASSUME NEW o \in Opt, NEW b, Overwritten(o, b), NEW x, NEW t \in DOMAIN o.tasks,
         Dismisses(b, x, t)
  PROVE  Dismisses(o, x, t)
  <1>1. /\ DOMAIN b.tasks = DOMAIN o.tasks
        /\ \A n \in DOMAIN o.tasks :
              /\ b.tasks[n].newest_job = o.tasks[n].newest_job
              /\ b.tasks[n].arrival_time = o.tasks[n].arrival_time
              /\ b.tasks[n].last_job_started = o.tasks[n].last_job_started
        /\ Grouping(b) = Grouping(o)
        /\ b.up = o.up /\ b.ended = o.ended
        /\ Fair(o) => Fair(b)
    BY OverwrittenElse
  <1>2. JobsFrom(o, x)
    BY <1>1 DEF Dismisses, JobsFrom
  <1>3. \/ o.tasks[t].last_job_started
        \/ \E i \in DOMAIN rip : Killed(o, t, rip[i])
    BY <1>1 DEF Dismisses, Killed
  <1>4. \A n \in DOMAIN x.tasks : x.tasks[n].arrival_time >= o.tasks[n].arrival_time
    BY <1>1 DEF Dismisses
  <1>5. /\ \A g \in Grouping(o) : t \in g => Cardinality(g) = 2
        /\ Grouping(x) = {g \in Grouping(o) : t \notin g}
    BY <1>1 DEF Dismisses
  <1> QED
    BY <1>1, <1>2, <1>3, <1>4, <1>5 DEF Dismisses

Aborted == up = FALSE /\ tasks = <<>> /\ ended = <<>> /\ related = <<>>

(* An analysis ends the process, dismisses the task it serves, or goes on. *)
LEMMA AnalyseOutcome ==
  ASSUME OptInv, Analyse
  PROVE  \/ Aborted'
         \/ up' /\ Advances(State, State', serving)
         \/ up' /\ Dismisses(State, State', serving)
  <1>1. PICK ts \in Clobber(tasks) :
          LET before == [tasks |-> ts, ended |-> ended, related |-> related, up |-> TRUE]
          IN  \E o \in QueryMonitor(before, serving) :
                /\ tasks' = IF o.up THEN o.tasks ELSE <<>>
                /\ ended' = IF o.up THEN o.ended ELSE <<>>
                /\ related' = IF o.up THEN o.related ELSE <<>>
                /\ up' = o.up
    BY DEF Analyse
  <1> DEFINE b == [tasks |-> ts, ended |-> ended, related |-> related, up |-> TRUE]
  <1>2. PICK o \in QueryMonitor(b, serving) :
          /\ tasks' = IF o.up THEN o.tasks ELSE <<>>
          /\ ended' = IF o.up THEN o.ended ELSE <<>>
          /\ related' = IF o.up THEN o.related ELSE <<>>
          /\ up' = o.up
    BY <1>1
  <1>3. up /\ Overwritten(State, b)
    BY ClobberOverwrites DEF Analyse
  <1>4. b.up
    OBVIOUS
  <1> HIDE DEF b
  <1>5. State \in Opt /\ Fetched /\ DiedOnce /\ Sound(State)
    BY StateTyped DEF OptInv, DeadKnown
  <1>6. serving \in DOMAIN State.tasks
    BY DEF OptInv, Serves, Analyse, State
  <1>7. Sound(b) /\ serving \in DOMAIN b.tasks
    BY <1>3, <1>5, <1>6, OverwrittenSound, OverwrittenElse
  <1>8. o \in Opt /\ (o.up => Advances(b, o, serving) \/ Dismisses(b, o, serving))
    BY <1>2, <1>4, <1>5, <1>7, QueryMonitorOutcome
  <1>9. CASE ~o.up
    BY <1>2, <1>8, <1>9 DEF Aborted, Opt
  <1>10. CASE o.up
    <2>1. State' = o
      <3>1. o.up = TRUE /\ o = [tasks |-> o.tasks, ended |-> o.ended,
                                related |-> o.related, up |-> o.up]
        BY <1>8, <1>10 DEF Opt
      <3>2. tasks' = o.tasks /\ ended' = o.ended /\ related' = o.related /\ up' = o.up
        BY <1>2, <1>10
      <3> QED
        BY <3>1, <3>2 DEF State
    <2>2. Advances(b, o, serving) => Advances(State, o, serving)
      BY <1>3, <1>5, AdvancesOverwritten
    <2>3. Dismisses(b, o, serving) => Dismisses(State, o, serving)
      BY <1>3, <1>5, <1>6, DismissesOverwritten
    <2> QED
      BY <1>2, <1>8, <1>10, <2>1, <2>2, <2>3
  <1> QED
    BY <1>9, <1>10

(* The analysis, whichever of its outcomes it has.                         *)
LEMMA AnalyseInv == OptInv /\ Analyse => OptInv'
  <1> SUFFICES ASSUME OptInv, Analyse PROVE OptInv'
    OBVIOUS
  <1>1. State \in Opt /\ Fetched /\ State.tasks = tasks
    BY StateTyped DEF OptInv, State
  <1>2. Sound(State') /\ State'.tasks = tasks'
        /\ (DOMAIN tasks' \subseteq DOMAIN tasks) /\ JobsFrom(State, State')
    <2>1. CASE Aborted'
      <3>1. DOMAIN State'.tasks = {} /\ DOMAIN State'.related = {}
        BY <2>1 DEF Aborted, State
      <3>2. State' \in Opt
        <4>1. <<>> \in Maps(Names, Task) /\ <<>> \in Maps(Names, EndedTask)
              /\ <<>> \in Maps(Nat \ {0}, RelatedList)
          <5>1. ASSUME NEW K, NEW V PROVE <<>> \in Maps(K, V)
            <6>1. <<>> \in [{} -> V]
              OBVIOUS
            <6> QED
              BY <6>1 DEF Maps
          <5> QED
            BY <5>1
        <4>2. tasks' = <<>> /\ ended' = <<>> /\ related' = <<>> /\ up' \in BOOLEAN
          BY <2>1 DEF Aborted
        <4> QED
          BY <4>1, <4>2 DEF State, Opt
      <3> QED
        BY <3>1, <3>2, EmptySound DEF State, JobsFrom
    <2>2. CASE Advances(State, State', serving)
      BY <1>1, <2>2 DEF Advances, State
    <2>3. CASE Dismisses(State, State', serving)
      BY <1>1, <2>3 DEF Dismisses, State
    <2> QED
      BY <2>1, <2>2, <2>3, AnalyseOutcome
  <1>3. TypeOK'
    <2>1. State' \in Opt /\ State'.tasks = tasks' /\ State'.ended = ended'
          /\ State'.related = related' /\ State'.up = up'
      BY <1>2 DEF Sound, State
    <2>2. /\ DOMAIN tasks' \subseteq Names /\ tasks' \in [DOMAIN tasks' -> Task]
          /\ DOMAIN ended' \subseteq Names /\ ended' \in [DOMAIN ended' -> EndedTask]
          /\ DOMAIN related' \subseteq Nat \ {0}
          /\ related' \in [DOMAIN related' -> RelatedList]
          /\ up' \in BOOLEAN
      BY <2>1, TypedState
    <2>3. mon' = <<>> /\ mon' \in Seq(Thread)
      BY DEF Analyse
    <2> QED
      BY <2>2, <2>3 DEF OptInv, TypeOK, Analyse, envVars
  <1>4. Serves'
    BY DEF Serves, Analyse
  <1>5. MonitorKnown'
    BY DEF MonitorKnown, Analyse
  <1>6. JobsKnown'
    <2> SUFFICES ASSUME NEW n \in DOMAIN tasks'
                 PROVE  LET foc == tasks'[n].newest_job.foc_id
                        IN  /\ foc \in {0} \cup Started
                            /\ \A k \in DOMAIN threads : threads[k].foc_id = foc => threads[k].name = n
      BY DEF JobsKnown, Started, Analyse, envVars
    <2>1. \/ tasks'[n].newest_job.foc_id = tasks[n].newest_job.foc_id
          \/ \E k \in DOMAIN mon : /\ mon[k].name = n
                                   /\ mon[k].foc_id = tasks'[n].newest_job.foc_id
      BY <1>1, <1>2 DEF JobsFrom
    <2>2. n \in DOMAIN tasks
      BY <1>2
    <2> QED
      BY <2>1, <2>2 DEF OptInv, JobsKnown, MonitorKnown
  <1> QED
    BY <1>2, <1>3, <1>4, <1>5, <1>6, ThreadsKept DEF OptInv, Analyse, envVars

-----------------------------------------------------------------------------
(* The kernel's threads                                                    *)

LEMMA ThreadOf ==
  ASSUME TypeOK, NEW k \in DOMAIN threads
  PROVE  /\ threads[k] \in Thread
         /\ threads[k].foc_id \in Nat /\ threads[k].arrival_time \in Nat
         /\ k \in 1 .. Len(threads) /\ Len(threads) \in Nat
  <1>1. threads[k] \in Thread /\ k \in 1 .. Len(threads) /\ Len(threads) \in Nat
    <2>1. threads \in Seq(Thread)
      BY DEF TypeOK
    <2> QED
      BY <2>1
  <1> QED
    BY <1>1 DEF Thread

(* A thread is listed after the others, under a new foc_id.                *)
LEMMA StartJobAppends ==
  ASSUME OptInv, NEW n \in Names, NEW core \in Cores, StartJob(n, core)
  PROVE  /\ threads' \in Seq(Thread)
         /\ DOMAIN threads' = 1 .. Len(threads) + 1
         /\ Len(threads) \in Nat
         /\ \A k \in DOMAIN threads : k \in 1 .. Len(threads) /\ threads'[k] = threads[k]
         /\ \A k \in DOMAIN threads' : k \in DOMAIN threads \/ k = Len(threads) + 1
         /\ threads'[Len(threads) + 1].foc_id = Len(Residents) + jobs + 1
         /\ threads'[Len(threads) + 1].name = n
  <1> DEFINE r == [name |-> n, foc_id |-> Len(Residents) + jobs + 1, arrival_time |-> now,
                   exit_time |-> 0, core |-> core, execution_time |-> 0]
  <1>1. Len(Residents) \in Nat /\ jobs \in Nat /\ now \in Nat /\ threads \in Seq(Thread)
    BY ResidentAssumption DEF OptInv, TypeOK
  <1>2. r \in Thread
    BY <1>1 DEF Thread
  <1>3. threads' = Append(threads, r)
    BY DEF StartJob
  <1>4. r.foc_id = Len(Residents) + jobs + 1 /\ r.name = n
    OBVIOUS
  <1> HIDE DEF r
  <1> QED
    BY <1>1, <1>2, <1>3, <1>4

(* A job starts: its foc_id was never used before.                         *)
LEMMA StartJobInv ==
  ASSUME NEW n \in Names, NEW core \in Cores PROVE OptInv /\ StartJob(n, core) => OptInv'
  <1> SUFFICES ASSUME OptInv, StartJob(n, core) PROVE OptInv'
    OBVIOUS
  <1> DEFINE next == Len(Residents) + jobs + 1
             last == Len(threads) + 1
  <1>1. /\ threads' \in Seq(Thread)
        /\ Len(threads) \in Nat
        /\ \A k \in DOMAIN threads : k \in 1 .. Len(threads) /\ threads'[k] = threads[k]
        /\ \A k \in DOMAIN threads' : k \in DOMAIN threads \/ k = last
        /\ threads'[last].foc_id = next /\ threads'[last].name = n
    BY StartJobAppends
  <1>2. Len(Residents) \in Nat /\ jobs \in Nat /\ jobs' = jobs + 1
    BY ResidentAssumption DEF OptInv, TypeOK, StartJob
  <1>3. Started \subseteq Started' /\ next \in Started' /\ next \notin Started /\ next # 0
    BY <1>2 DEF Started
  <1> HIDE DEF next, last
  <1>4. TypeOK'
    BY <1>1, <1>2 DEF OptInv, TypeOK, StartJob, optVars, callVars
  <1>5. Serves'
    BY DEF OptInv, Serves, StartJob, optVars, callVars
  <1>6. ThreadsKnown'
    BY <1>1, <1>3 DEF OptInv, ThreadsKnown
  <1>7. DeadKnown'
    <2>1. rip' = rip
      BY DEF StartJob
    <2> QED
      BY <1>1, <1>3, <2>1 DEF OptInv, DeadKnown, DiedOnce
  <1>8. MonitorKnown'
    <2>1. mon' = mon
      BY DEF StartJob, callVars
    <2> QED
      BY <1>1, <1>3, <2>1 DEF OptInv, MonitorKnown
  <1>9. JobsKnown'
    <2>1. tasks' = tasks
      BY DEF StartJob, optVars
    <2>2. ASSUME NEW m \in DOMAIN tasks, NEW k \in DOMAIN threads',
                 threads'[k].foc_id = tasks[m].newest_job.foc_id
          PROVE  threads'[k].name = m
      <3>1. tasks[m].newest_job.foc_id # next
        BY <1>3 DEF OptInv, JobsKnown
      <3>2. k \in DOMAIN threads /\ threads'[k] = threads[k]
        BY <1>1, <2>2, <3>1
      <3> QED
        BY <2>2, <3>2 DEF OptInv, JobsKnown
    <2>3. \A m \in DOMAIN tasks : tasks[m].newest_job.foc_id \in {0} \cup Started'
      BY <1>3 DEF OptInv, JobsKnown
    <2> QED
      BY <2>1, <2>2, <2>3 DEF JobsKnown
  <1> QED
    BY <1>4, <1>5, <1>6, <1>7, <1>8, <1>9, OptKept DEF OptInv, StartJob

(* A thread's times change, not its name or foc_id.                        *)
LEMMA EndJobInv ==
  ASSUME NEW k \in DOMAIN threads, NEW time \in ExecTimes
  PROVE  OptInv /\ EndJob(k, time) => OptInv'
  <1> SUFFICES ASSUME OptInv, EndJob(k, time) PROVE OptInv'
    OBVIOUS
  <1> DEFINE r == [threads[k] EXCEPT !.exit_time = now, !.execution_time = time]
  <1>1. threads \in Seq(Thread) /\ now \in Nat /\ time \in Nat /\ threads[k] \in Thread
    BY ThreadOf, NumberAssumption DEF OptInv, TypeOK
  <1>2. r \in Thread /\ r.foc_id = threads[k].foc_id /\ r.name = threads[k].name
    BY <1>1 DEF Thread
  <1>3. threads' = [threads EXCEPT ![k] = r]
    BY DEF EndJob
  <1> HIDE DEF r
  <1>4. threads' \in Seq(Thread)
    BY <1>1, <1>2, <1>3
  <1>5. /\ DOMAIN threads' = DOMAIN threads
        /\ \A j \in DOMAIN threads : /\ threads'[j].foc_id = threads[j].foc_id
                                     /\ threads'[j].name = threads[j].name
    BY <1>1, <1>2, <1>3
  <1>6. UNCHANGED <<optVars, callVars, now, rip, jobs>>
    BY DEF EndJob
  <1>7. TypeOK'
    BY <1>4, <1>6 DEF OptInv, TypeOK, optVars, callVars
  <1>8. Serves'
    BY <1>6 DEF OptInv, Serves, optVars, callVars
  <1>9. ThreadsKnown'
    BY <1>5, <1>6 DEF OptInv, ThreadsKnown, Started
  <1>10. DeadKnown'
    BY <1>5, <1>6 DEF OptInv, DeadKnown, DiedOnce, Started
  <1>11. MonitorKnown'
    BY <1>5, <1>6 DEF OptInv, MonitorKnown, Started, callVars
  <1>12. JobsKnown'
    BY <1>5, <1>6 DEF OptInv, JobsKnown, Started, optVars
  <1> QED
    BY <1>6, <1>7, <1>8, <1>9, <1>10, <1>11, <1>12, OptKept DEF OptInv

(* A thread leaves the list: what the others are known by is as before.    *)
LEMMA ThreadRemoved ==
  ASSUME OptInv, NEW k \in DOMAIN threads, threads' = RemoveAt(threads, k),
         UNCHANGED <<optVars, callVars, now, jobs>>
  PROVE  /\ threads' \in Seq(Thread)
         /\ \A i \in DOMAIN threads' : \E j \in DOMAIN threads \ {k} : threads'[i] = threads[j]
         /\ Serves' /\ ThreadsKnown' /\ MonitorKnown' /\ JobsKnown'
  <1>1. threads \in Seq(Thread)
    BY DEF OptInv, TypeOK
  <1>2. \A i, j \in DOMAIN threads : threads[i].foc_id = threads[j].foc_id => i = j
    BY DEF OptInv, ThreadsKnown
  <1>3. \A i, j \in DOMAIN threads : threads[i] = threads[j] => i = j
    BY <1>2
  <1>4. /\ threads' \in Seq(Thread)
        /\ \A i \in DOMAIN threads' : \E j \in DOMAIN threads \ {k} : threads'[i] = threads[j]
        /\ \A i, j \in DOMAIN threads' : threads'[i] = threads'[j] => i = j
    <2> DEFINE s == threads
    <2>1. s \in Seq(Thread) /\ k \in DOMAIN s /\ \A i, j \in DOMAIN s : s[i] = s[j] => i = j
      BY <1>1, <1>3
    <2> HIDE DEF s
    <2>2. /\ RemoveAt(s, k) \in Seq(Thread)
          /\ \A i \in DOMAIN RemoveAt(s, k) : \E j \in DOMAIN s \ {k} : RemoveAt(s, k)[i] = s[j]
          /\ \A i, j \in DOMAIN RemoveAt(s, k) : RemoveAt(s, k)[i] = RemoveAt(s, k)[j] => i = j
      BY <2>1, RemoveAtStays
    <2> QED
      BY <2>2 DEF s
  <1>5. Serves'
    BY DEF OptInv, Serves, optVars, callVars
  <1>6. ThreadsKnown'
    <2>1. \A i \in DOMAIN threads' : threads'[i].foc_id \in Started'
      BY <1>4 DEF OptInv, ThreadsKnown, Started
    <2>2. \A i, j \in DOMAIN threads' : threads'[i].foc_id = threads'[j].foc_id => i = j
      BY <1>2, <1>4
    <2> QED
      BY <2>1, <2>2 DEF ThreadsKnown
  <1>7. MonitorKnown'
    BY <1>4 DEF OptInv, MonitorKnown, Started, callVars
  <1>8. JobsKnown'
    BY <1>4 DEF OptInv, JobsKnown, Started, optVars
  <1> QED
    BY <1>4, <1>5, <1>6, <1>7, <1>8

(* A thread that ended leaves the monitor's list.                          *)
LEMMA DropJobInv == ASSUME NEW k \in DOMAIN threads PROVE OptInv /\ DropJob(k) => OptInv'
  <1> SUFFICES ASSUME OptInv, DropJob(k) PROVE OptInv'
    OBVIOUS
  <1>1. threads' = RemoveAt(threads, k) /\ UNCHANGED <<optVars, callVars, now, rip, jobs>>
    BY DEF DropJob
  <1>2. /\ threads' \in Seq(Thread)
        /\ \A i \in DOMAIN threads' : \E j \in DOMAIN threads \ {k} : threads'[i] = threads[j]
        /\ Serves' /\ ThreadsKnown' /\ MonitorKnown' /\ JobsKnown'
    BY <1>1, ThreadRemoved
  <1>3. TypeOK'
    BY <1>1, <1>2 DEF OptInv, TypeOK, optVars, callVars
  <1>4. DeadKnown'
    BY <1>1, <1>2 DEF OptInv, DeadKnown, DiedOnce, Started
  <1> QED
    BY <1>1, <1>2, <1>3, <1>4, OptKept DEF OptInv

(* A killed thread moves to the dead, so it dies once.                     *)
LEMMA KillJobInv == ASSUME NEW k \in DOMAIN threads PROVE OptInv /\ KillJob(k) => OptInv'
  <1> SUFFICES ASSUME OptInv, KillJob(k) PROVE OptInv'
    OBVIOUS
  <1> DEFINE d == [foc_id |-> threads[k].foc_id, time |-> now]
             E == [foc_id : Nat, time : Nat]
  <1>1. /\ threads' = RemoveAt(threads, k) /\ rip' = Append(rip, d)
        /\ UNCHANGED <<optVars, callVars, now, jobs>>
    BY DEF KillJob
  <1>2. /\ threads' \in Seq(Thread)
        /\ \A i \in DOMAIN threads' : \E j \in DOMAIN threads \ {k} : threads'[i] = threads[j]
        /\ Serves' /\ ThreadsKnown' /\ MonitorKnown' /\ JobsKnown'
    BY <1>1, ThreadRemoved
  <1>3. d \in E /\ rip \in Seq(E) /\ d.foc_id = threads[k].foc_id
    <2>1. threads[k].foc_id \in Nat /\ now \in Nat
      BY ThreadOf DEF OptInv, TypeOK
    <2> QED
      BY <2>1 DEF OptInv, TypeOK
  <1> HIDE DEF d, E
  <1>4. rip' \in Seq(E)
    BY <1>1, <1>3
  <1>5. /\ \A i \in DOMAIN rip : i \in DOMAIN rip' /\ rip'[i] = rip[i]
        /\ \A i \in DOMAIN rip' : i \in DOMAIN rip \/ i = Len(rip) + 1
        /\ rip'[Len(rip) + 1] = d
    BY <1>1, <1>3
  <1>6. TypeOK'
    <2>1. rip' \in Seq([foc_id : Nat, time : Nat])
      BY <1>4 DEF E
    <2> QED
      BY <1>1, <1>2, <2>1 DEF OptInv, TypeOK, optVars, callVars
  <1>7. DeadKnown'
    <2>1. threads[k].foc_id \in Started /\ Started' = Started
      BY <1>1 DEF OptInv, ThreadsKnown, Started
    <2>2. \A i \in DOMAIN rip' : rip'[i].foc_id \in Started'
      BY <1>3, <1>5, <2>1 DEF OptInv, DeadKnown
    <2>3. \A i \in DOMAIN rip : rip[i].foc_id # d.foc_id
      BY <1>3 DEF OptInv, DeadKnown
    <2>4. DiedOnce'
      BY <1>5, <2>3 DEF OptInv, DeadKnown, DiedOnce
    <2>5. \A j \in DOMAIN threads \ {k} : threads[j].foc_id # d.foc_id
      BY <1>3 DEF OptInv, ThreadsKnown
    <2>6. \A i \in DOMAIN rip', j \in DOMAIN threads' : rip'[i].foc_id # threads'[j].foc_id
      BY <1>2, <1>5, <2>5 DEF OptInv, DeadKnown
    <2> QED
      BY <2>2, <2>4, <2>6 DEF DeadKnown
  <1> QED
    BY <1>1, <1>2, <1>6, <1>7, OptKept DEF OptInv

(* Every step keeps the invariant.                                         *)
LEMMA NextInv == OptInv /\ [Next]_vars => OptInv'
  <1> SUFFICES ASSUME OptInv, [Next]_vars PROVE OptInv'
    OBVIOUS
  <1>1. CASE UNCHANGED vars
    <2>1. Serves' /\ TypeOK'
      BY <1>1 DEF OptInv, TypeOK, Serves, vars, optVars, callVars, envVars
    <2> QED
      BY <1>1, <2>1, OptKept, ThreadsKept, MonitorKept, JobsStay
         DEF OptInv, vars, optVars, callVars, envVars
  <1>2. CASE Environment
    BY <1>2, TickInv, StartJobInv, EndJobInv, KillJobInv, DropJobInv DEF Environment
  <1>3. CASE Call
    BY <1>3, AddTaskInv, LastJobStartedInv, StartOptimizingInv, SetGoalInv, PollInv,
       AnalyseInv, ReturnInv DEF Call
  <1> QED
    BY <1>1, <1>2, <1>3 DEF Next

-----------------------------------------------------------------------------
(* What holds in every state                                               *)

(* OptInv holds in every state the optimizer, its callers and the kernel   *)
(* reach together.                                                         *)
THEOREM Invariance == Spec => []OptInv
  <1>1. Init => OptInv
    BY InitInv
  <1>2. OptInv /\ [Next]_vars => OptInv'
    BY NextInv
  <1> QED
    BY <1>1, <1>2, PTL DEF Spec

(* The maps, queues and numbers of the optimizer keep their types; above   *)
(* all no counter that the code keeps unsigned runs below zero.            *)
THEOREM TypeCorrect == Spec => []TypeOK
  <1>1. OptInv => TypeOK
    BY DEF OptInv
  <1> QED
    BY <1>1, Invariance, PTL

(* The lists of related tasks partition the tasks that are on one, through *)
(* every addition, merge and removal (_deadline_reached, _remove_task).    *)
THEOREM PartitionKept == Spec => []RelatedPartition
  <1>1. OptInv => RelatedPartition
    BY DEF OptInv, Sound, Lists, State, RelatedPartition
  <1> QED
    BY <1>1, Invariance, PTL

(* Competitors live, are listed once and are related to the task they      *)
(* compete with: the .at() lookups of _set_to_schedule find them.          *)
THEOREM CompetitorsKept == Spec => []CompetitorsRelated
  <1>1. OptInv => CompetitorsRelated
    BY DEF OptInv, Sound, Competitors, State, CompetitorsRelated
  <1> QED
    BY <1>1, Invariance, PTL

(* max_value is the size of the largest group on the list, also after two  *)
(* lists were merged.                                                      *)
THEOREM MaximumExact == Spec => []MaxValueExact
  <1>1. OptInv => MaxValueExact
    <2> SUFFICES ASSUME OptInv, NEW id \in DOMAIN related
                 PROVE  related[id].max_value =
                          1 + Max({Len(tasks[n].competitor) : n \in related[id].tasks})
      BY DEF MaxValueExact
    <2> DEFINE T == {Len(tasks[n].competitor) : n \in related[id].tasks}
               max == related[id].max_value
    <2>1. /\ max \in Nat
          /\ related[id].tasks \subseteq DOMAIN tasks /\ related[id].tasks # {}
      <3>1. related[id] \in RelatedList
        BY DEF OptInv, TypeOK
      <3>2. related[id].tasks = {n \in DOMAIN tasks : tasks[n].id_related = id}
            /\ related[id].tasks # {}
        BY DEF OptInv, Sound, Lists, State
      <3> QED
        BY <3>1, <3>2 DEF RelatedList
    <2>2. \A n \in DOMAIN tasks : Len(tasks[n].competitor) \in Nat
      <3> SUFFICES ASSUME NEW n \in DOMAIN tasks PROVE Len(tasks[n].competitor) \in Nat
        OBVIOUS
      <3>1. tasks[n] \in Task
        BY DEF OptInv, TypeOK
      <3>2. tasks[n].competitor \in Seq(Names)
        BY <3>1 DEF Task
      <3> QED
        BY <3>2
    <2>3. /\ \A n \in related[id].tasks : Len(tasks[n].competitor) + 1 <= max
          /\ \E n \in related[id].tasks : Len(tasks[n].competitor) + 1 = max
      BY DEF OptInv, Sound, Maxima, State
    <2>4. /\ T \subseteq Nat /\ T # {}
          /\ \A y \in T : y \in Nat /\ y + 1 <= max
          /\ \E y \in T : y + 1 = max
      BY <2>1, <2>2, <2>3
    <2> HIDE DEF T, max
    <2>5. \A y \in T : y <= max
      <3> SUFFICES ASSUME NEW y \in T PROVE y <= max
        OBVIOUS
      <3>1. y \in Nat /\ max \in Nat /\ y + 1 <= max
        BY <2>1, <2>4
      <3> QED
        BY <3>1
    <2>6. Max(T) \in T /\ \A y \in T : y <= Max(T)
      BY <2>1, <2>4, <2>5, MaxIsGreatest
    <2>7. max = 1 + Max(T)
      <3>1. PICK y \in T : y + 1 = max
        BY <2>4
      <3>2. y \in Nat /\ Max(T) \in Nat /\ Max(T) + 1 <= max /\ y <= Max(T)
        BY <2>4, <2>6
      <3> QED
        BY <2>1, <3>1, <3>2
    <2> QED
      BY <2>7 DEF T, max
  <1> QED
    BY <1>1, Invariance, PTL

(* The newest job of a task is the task's own, so a foc_id found among the *)
(* dead threads is the death of the task asked for.                        *)
THEOREM NewestIsOwn == Spec => []NewestJobIsOwn
  <1>1. OptInv => NewestJobIsOwn
    BY DEF OptInv, JobsKnown, NewestJobIsOwn
  <1> QED
    BY <1>1, Invariance, PTL

-----------------------------------------------------------------------------
(* What a step may do                                                      *)

\* Nothing that is known of jobs or groups changes.
Quiet ==
  /\ DOMAIN tasks' = DOMAIN tasks
  /\ \A n \in DOMAIN tasks : /\ tasks'[n].arrival_time = tasks[n].arrival_time
                             /\ tasks'[n].newest_job = tasks[n].newest_job
  /\ UNCHANGED <<ended, related, up>>

(* What a step may do to the optimizer's tasks, seen from outside.         *)
LEMMA StepKinds ==
  ASSUME OptInv, [Next]_vars
  PROVE  \/ Quiet
         \/ up /\ \E n \in Names, core \in Cores : AddTask(n, core)
         \/ up /\ Aborted'
         \/ /\ up /\ up' /\ serving \in DOMAIN tasks
            /\ Advances(State, State', serving) \/ Dismisses(State, State', serving)
  <1>1. ASSUME UNCHANGED optVars PROVE Quiet
    BY <1>1 DEF Quiet, optVars
  <1>2. CASE Environment
    BY <1>1, <1>2 DEF Environment, Tick, StartJob, EndJob, KillJob, DropJob
  <1>3. ASSUME NEW n \in Names, NEW core \in Cores, AddTask(n, core)
        PROVE  up /\ \E m \in Names, c \in Cores : AddTask(m, c)
    BY <1>3 DEF AddTask, Idle
  <1>4. ASSUME NEW n \in Names, LastJobStarted(n) PROVE Quiet
    <2>1. Kept(State, State', Fields \ {"last_job_started"}) /\ related' = related
      BY <1>4, LastJobStartedPuts
    <2>2. {"arrival_time", "newest_job"} \subseteq Fields \ {"last_job_started"}
      BY DEF Fields
    <2> QED
      BY <2>1, <2>2 DEF Kept, State, Quiet
  <1>5. ASSUME NEW n \in Names, StartOptimizing(n) PROVE Quiet
    BY <1>1, <1>5 DEF StartOptimizing
  <1>6. ASSUME NEW g \in Goals, SetGoal(g) PROVE Quiet
    BY <1>6 DEF SetGoal, Quiet
  <1>7. ASSUME NEW t \in 0 .. MaxTime, Poll(t) PROVE Quiet
    BY <1>1, <1>7 DEF Poll
  <1>8. CASE Analyse
    <2>1. up /\ serving \in DOMAIN tasks
      BY <1>8 DEF Analyse, OptInv, Serves
    <2> QED
      BY <1>8, <2>1, AnalyseOutcome
  <1>9. CASE Return
    BY <1>1, <1>9 DEF Return
  <1>10. CASE UNCHANGED vars
    BY <1>1, <1>10 DEF vars
  <1>11. CASE Call
    BY <1>3, <1>4, <1>5, <1>6, <1>7, <1>8, <1>9, <1>11 DEF Call
  <1> QED
    BY <1>2, <1>10, <1>11 DEF Next

(* Times of a task are not negative.                                       *)
LEMMA TaskTimes ==
  ASSUME TypeOK, NEW n \in DOMAIN tasks
  PROVE  tasks[n].arrival_time \in Nat /\ tasks[n].newest_job.arrival_time \in Nat
  <1>1. tasks[n] \in Task
    BY DEF TypeOK
  <1>2. tasks[n].arrival_time \in Nat /\ tasks[n].newest_job \in Job
    BY <1>1 DEF Task
  <1> QED
    BY <1>2 DEF Job

(* What the optimizer knows of a task's jobs never goes back in time       *)
(* (_set_newest_job, _set_arrival_time), in whatever order the monitor     *)
(* lists the threads and whichever of them are new.                        *)
THEOREM KnowledgeForward == Spec => JobsForward
  <1> DEFINE A == \A n \in DOMAIN tasks \cap DOMAIN tasks' :
                    /\ tasks'[n].arrival_time >= tasks[n].arrival_time
                    /\ tasks'[n].newest_job.arrival_time >= tasks[n].newest_job.arrival_time
  <1>1. OptInv /\ [Next]_vars => [A]_vars
    <2> SUFFICES ASSUME OptInv, [Next]_vars PROVE A
      OBVIOUS
    <2>1. CASE Quiet
      BY <2>1, TaskTimes DEF OptInv, Quiet
    <2>2. ASSUME NEW n \in Names, NEW core \in Cores, AddTask(n, core) PROVE A
      <3>1. \A m \in DOMAIN tasks : tasks'[m] = tasks[m]
        BY <2>2, AddTaskAdds
      <3> QED
        BY <3>1, TaskTimes DEF OptInv
    <2>3. CASE Aborted'
      <3>1. DOMAIN tasks' = {}
        BY <2>3 DEF Aborted
      <3> QED
        BY <3>1
    <2>4. CASE Advances(State, State', serving)
      BY <2>4 DEF Advances, JobsFrom, State
    <2>5. CASE Dismisses(State, State', serving)
      BY <2>5 DEF Dismisses, JobsFrom, State
    <2> QED
      BY <2>1, <2>2, <2>3, <2>4, <2>5, StepKinds
  <1>2. Spec => [][A]_vars
    BY <1>1, Invariance, PTL DEF Spec
  <1> QED
    BY <1>2 DEF JobsForward

(* A task leaves _tasks only for _ended_tasks, whose entries stay, and     *)
(* only when it announced its last job or its newest job was killed before *)
(* its deadline; unless the process ends.                                  *)
THEOREM EndsRemembered == Spec => EndedRemembered
  <1> DEFINE Known == \A n \in DOMAIN ended : n \in DOMAIN ended' /\ ended'[n] = ended[n]
             Why(n) == \/ tasks[n].last_job_started
                       \/ \E d \in Range(rip) :
                            LET job == tasks[n].newest_job
                            IN  /\ d.foc_id = job.foc_id
                                /\ d.time < job.arrival_time + Deadline[n]
             A == up' => /\ DOMAIN tasks \subseteq DOMAIN tasks' \cup DOMAIN ended'
                         /\ Known
                         /\ \A n \in DOMAIN tasks \ DOMAIN tasks' : Why(n)
  <1>1. OptInv /\ [Next]_vars => [A]_vars
    <2> SUFFICES ASSUME OptInv, [Next]_vars PROVE A
      OBVIOUS
    <2>1. CASE Quiet
      BY <2>1 DEF Quiet
    <2>2. ASSUME NEW n \in Names, NEW core \in Cores, AddTask(n, core) PROVE A
      <3>1. DOMAIN tasks \subseteq DOMAIN tasks' /\ ended' = ended
        BY <2>2, AddTaskAdds DEF AddTask
      <3> QED
        BY <3>1
    <2>3. CASE Aborted'
      BY <2>3 DEF Aborted
    <2>4. CASE Advances(State, State', serving)
      BY <2>4 DEF Advances, State
    <2>5. CASE Dismisses(State, State', serving)
      <3>1. /\ DOMAIN tasks' = DOMAIN tasks \ {serving}
            /\ DOMAIN ended' = DOMAIN ended \cup {serving}
            /\ \A n \in DOMAIN ended : ended'[n] = ended[n]
            /\ \/ tasks[serving].last_job_started
               \/ \E i \in DOMAIN rip : Killed(State, serving, rip[i])
        BY <2>5 DEF Dismisses, State
      <3>2. Why(serving)
        BY <3>1 DEF Killed, State, Range
      <3> HIDE DEF Why
      <3> QED
        BY <3>1, <3>2
    <2> QED
      BY <2>1, <2>2, <2>3, <2>4, <2>5, StepKinds
  <1>2. Spec => [][A]_vars
    BY <1>1, Invariance, PTL DEF Spec
  <1> QED
    BY <1>2 DEF EndedRemembered

-----------------------------------------------------------------------------
(* The refinement                                                          *)

(* The ids, maps and sets of names of sched_opt.cc implement the groups of *)
(* RelatedTasks: an analysis unites the served task's group with those of  *)
(* the tasks it blames, or gives it up with its last pair, and touches no  *)
(* other.                                                                  *)
THEOREM Refines == Spec => ImplementsGroups
  <1>1. Init => Groups!Init
    <2> SUFFICES ASSUME Init PROVE Groups!Init
      OBVIOUS
    <2>1. DOMAIN tasks = {} /\ DOMAIN ended = {} /\ DOMAIN related = {} /\ up = TRUE
      BY DEF Init
    <2>2. {related[id].tasks : id \in DOMAIN related} = {}
      BY <2>1
    <2> QED
      BY <2>1, <2>2 DEF Groups!Init
  <1>2. OptInv /\ [Next]_vars => [Groups!Next]_(Groups!vars)
    <2> SUFFICES ASSUME OptInv, [Next]_vars PROVE [Groups!Next]_(Groups!vars)
      OBVIOUS
    <2> DEFINE G == {related[id].tasks : id \in DOMAIN related}
    <2>0. Grouping(State) = G /\ Grouping(State') = G'
          /\ State.tasks = tasks /\ State.ended = ended /\ State.up = up
          /\ State'.tasks = tasks' /\ State'.ended = ended' /\ State'.up = up'
      BY DEF Grouping, State
    <2>1. CASE Quiet
      BY <2>1 DEF Quiet, Groups!vars
    <2>2. ASSUME up, NEW n \in Names, NEW core \in Cores, AddTask(n, core)
          PROVE  Groups!Next
      <3>1. DOMAIN tasks' = DOMAIN tasks \cup {n} /\ UNCHANGED <<ended, related, up>>
        BY <2>2, AddTaskAdds DEF AddTask
      <3>2. Groups!Enter(n)
        BY <3>1 DEF Groups!Enter
      <3> QED
        BY <2>2, <3>2 DEF Groups!Next
    <2>3. CASE up /\ Aborted'
      <3>1. up' = FALSE /\ DOMAIN tasks' = {} /\ DOMAIN ended' = {} /\ DOMAIN related' = {}
        BY <2>3 DEF Aborted
      <3>2. Groups!Crash
        BY <3>1 DEF Groups!Crash
      <3> QED
        BY <2>3, <3>2 DEF Groups!Next
    <2>4. ASSUME up, up', serving \in DOMAIN tasks, Advances(State, State', serving)
          PROVE  [Groups!Next]_(Groups!vars)
      <3>1. /\ UNCHANGED <<ended, up>> /\ DOMAIN tasks' = DOMAIN tasks
            /\ Regrouped(State, State', serving)
        BY <2>0, <2>4 DEF Advances
      <3>2. CASE G' = G
        BY <3>1, <3>2 DEF Groups!vars
      <3>3. CASE G' # G
        <4>1. PICK blamed \in SUBSET (DOMAIN tasks) :
                blamed # {} /\ G' = Regroup(G, serving, blamed)
          BY <2>0, <3>1, <3>3 DEF Regrouped
        <4>2. Groups!Relate(serving, blamed)
          BY <4>1 DEF Regroup, Groups!Relate
        <4>3. Groups!Judge(serving)
          BY <3>1, <4>1, <4>2 DEF Groups!Judge
        <4> QED
          BY <2>4, <4>3 DEF Groups!Next
      <3> QED
        BY <3>2, <3>3
    <2>5. ASSUME up, up', serving \in DOMAIN tasks, Dismisses(State, State', serving)
          PROVE  Groups!Next
      <3>1. /\ up' = up
            /\ DOMAIN tasks' = DOMAIN tasks \ {serving}
            /\ DOMAIN ended' = DOMAIN ended \cup {serving}
            /\ \A g \in G : serving \in g => Cardinality(g) = 2
            /\ G' = {g \in G : serving \notin g}
        BY <2>0, <2>5 DEF Dismisses
      <3>2. G' = G \ {g \in G : serving \in g}
        BY <3>1
      <3>3. \A S : Groups!Cardinality(S) = Cardinality(S)
        BY DEF Groups!Cardinality, Cardinality
      <3>4. PICK t \in DOMAIN tasks : t = serving
        BY <2>5
      <3>5. Groups!Leave(t)
        BY <3>1, <3>2, <3>3, <3>4 DEF Groups!Leave
      <3> QED
        BY <2>5, <3>5 DEF Groups!Next
    <2> QED
      BY <2>1, <2>2, <2>3, <2>4, <2>5, StepKinds
  <1>3. Spec => Groups!Spec
    BY <1>1, <1>2, Invariance, PTL DEF Spec, Groups!Spec
  <1> QED
    BY <1>3 DEF ImplementsGroups

-----------------------------------------------------------------------------
(* Who may be scheduled                                                    *)

FairInv == Fair(State)

\* The user does not take back the choice of a goal.
GoalStays == goal' = "NONE" => goal = "NONE"

(* Denials are judged by the goal, so a step that keeps it is judged by it. *)
LEMMA FairSameGoal ==
  ASSUME goal' = goal, Fair(State')
  PROVE  FairInv'
  BY DEF FairInv, Fair, Allowed, Spared

(* As long as all tasks may be scheduled, every list has one that may.     *)
LEMMA AllAllowedFair ==
  ASSUME Sound(State), Allowed(State) = DOMAIN tasks
  PROVE  \A id \in DOMAIN related : related[id].tasks \cap Spared(State) # {}
  <1>1. ASSUME NEW id \in DOMAIN related
        PROVE  related[id].tasks # {} /\ related[id].tasks \subseteq DOMAIN tasks
    BY DEF Sound, Lists, State
  <1>2. DOMAIN tasks \subseteq Spared(State)
    BY DEF Spared
  <1> QED
    BY <1>1, <1>2

(* A task is added to no list, and may be scheduled.                       *)
LEMMA AddTaskFair ==
  ASSUME OptInv, FairInv, NEW n \in Names, NEW core \in Cores, AddTask(n, core)
  PROVE  FairInv'
  <1>1. /\ DOMAIN tasks' = DOMAIN tasks \cup {n}
        /\ tasks'[n] = NewTask(core)
        /\ \A m \in DOMAIN tasks : tasks'[m] = tasks[m]
        /\ related' = related /\ goal' = goal
    BY AddTaskAdds DEF AddTask
  <1>2. tasks'[n].to_schedule
    BY <1>1 DEF NewTask
  <1>3. Allowed(State) \subseteq Allowed(State') /\ n \in Allowed(State')
    BY <1>1, <1>2 DEF Allowed, State
  <1>4. Spared(State) \subseteq Spared(State')
    BY <1>1, <1>3 DEF Spared, State
  <1>5. CASE goal = "NONE"
    <2>1. Allowed(State) = DOMAIN tasks
      BY <1>5 DEF FairInv, Fair, State
    <2>2. Allowed(State') \subseteq DOMAIN tasks'
      BY DEF Allowed, State
    <2>3. Allowed(State') = DOMAIN tasks'
      BY <1>1, <1>3, <2>1, <2>2
    <2>4. Fair(State')
      BY <1>5, <2>3 DEF Fair, State
    <2> QED
      BY <1>1, <2>4, FairSameGoal
  <1>6. CASE goal # "NONE"
    <2>1. \A id \in DOMAIN related : related[id].tasks \cap Spared(State) # {}
      BY <1>6 DEF FairInv, Fair, State
    <2>2. \A id \in DOMAIN related' : related'[id].tasks \cap Spared(State') # {}
      BY <1>1, <1>4, <2>1
    <2>3. Fair(State')
      BY <1>6, <2>2 DEF Fair, State
    <2> QED
      BY <1>1, <2>3, FairSameGoal
  <1> QED
    BY <1>5, <1>6

(* With the first goal the lists are as they were, and nobody was denied.  *)
LEMMA SetGoalFair ==
  ASSUME OptInv, FairInv, GoalStays, NEW g \in Goals, SetGoal(g)
  PROVE  FairInv'
  <1>1. State' = State /\ tasks' = tasks /\ related' = related
    BY DEF State, SetGoal
  <1>2. CASE goal = "NONE" /\ goal' # "NONE"
    <2>1. Allowed(State) = DOMAIN tasks
      BY <1>2 DEF FairInv, Fair, State
    <2>2. \A id \in DOMAIN related : related[id].tasks \cap Spared(State) # {}
      BY <2>1, AllAllowedFair DEF OptInv
    <2>3. \A id \in DOMAIN related' : related'[id].tasks \cap Spared(State') # {}
      BY <1>1, <2>2
    <2>4. State'.related = related'
      BY DEF State
    <2> QED
      BY <1>2, <2>3, <2>4 DEF FairInv, Fair, Spared, Allowed
  <1>3. CASE ~(goal = "NONE" /\ goal' # "NONE")
    <2>1. (goal' = "NONE") = (goal = "NONE")
      BY <1>3 DEF GoalStays
    <2> QED
      BY <1>1, <2>1 DEF FairInv, Fair, Spared, Allowed
  <1> QED
    BY <1>2, <1>3

(* The analysis leaves no list whose tasks deny each other in a circle.    *)
LEMMA AnalyseFair ==
  ASSUME OptInv, FairInv, Analyse
  PROVE  FairInv'
  <1>1. goal' = goal
    BY DEF Analyse
  <1>2. CASE Aborted'
    <2>1. DOMAIN State'.tasks = {} /\ DOMAIN State'.related = {}
      BY <1>2 DEF Aborted, State
    <2>2. Fair(State')
      BY <2>1 DEF Fair, Allowed
    <2> QED
      BY <1>1, <2>2, FairSameGoal
  <1>3. CASE Advances(State, State', serving) \/ Dismisses(State, State', serving)
    <2>1. Fair(State')
      BY <1>3 DEF Advances, Dismisses, FairInv
    <2> QED
      BY <1>1, <2>1, FairSameGoal
  <1> QED
    BY <1>2, <1>3, AnalyseOutcome

(* No step lets the tasks of a list deny each other in a circle.           *)
LEMMA FairNext == OptInv /\ FairInv /\ [Next]_vars /\ [GoalStays]_goal => FairInv'
  <1> SUFFICES ASSUME OptInv, FairInv, [Next]_vars, [GoalStays]_goal PROVE FairInv'
    OBVIOUS
  <1>0. GoalStays
    BY DEF GoalStays
  <1>1. ASSUME UNCHANGED optVars PROVE FairInv'
    <2>1. State' = State /\ goal' = goal
      BY <1>1 DEF State, optVars
    <2> QED
      BY <2>1, FairSameGoal DEF FairInv
  <1>2. CASE Environment
    BY <1>1, <1>2 DEF Environment, Tick, StartJob, EndJob, KillJob, DropJob
  <1>3. ASSUME NEW n \in Names, NEW core \in Cores, AddTask(n, core) PROVE FairInv'
    BY <1>3, AddTaskFair
  <1>4. ASSUME NEW n \in Names, LastJobStarted(n) PROVE FairInv'
    <2>1. Kept(State, State', Fields \ {"last_job_started"}) /\ related' = related
      BY <1>4, LastJobStartedPuts
    <2>2. {"to_schedule", "competitor", "id_related"} \subseteq Fields \ {"last_job_started"}
      BY DEF Fields
    <2>3. State'.related = State.related
      BY <2>1 DEF State
    <2>4. Fair(State')
      BY <2>1, <2>2, <2>3, FairKept DEF FairInv
    <2> QED
      BY <1>4, <2>4, FairSameGoal DEF LastJobStarted
  <1>5. ASSUME NEW n \in Names, StartOptimizing(n) PROVE FairInv'
    BY <1>1, <1>5 DEF StartOptimizing
  <1>6. ASSUME NEW g \in Goals, SetGoal(g) PROVE FairInv'
    BY <1>0, <1>6, SetGoalFair
  <1>7. ASSUME NEW t \in 0 .. MaxTime, Poll(t) PROVE FairInv'
    BY <1>1, <1>7 DEF Poll
  <1>8. CASE Analyse
    BY <1>8, AnalyseFair
  <1>9. CASE Return
    BY <1>1, <1>9 DEF Return
  <1>10. CASE UNCHANGED vars
    BY <1>1, <1>10 DEF vars
  <1>11. CASE Call
    BY <1>3, <1>4, <1>5, <1>6, <1>7, <1>8, <1>9, <1>11 DEF Call
  <1> QED
    BY <1>2, <1>10, <1>11 DEF Next

(* The tasks of a list do not deny each other in a circle: one of them may *)
(* be scheduled, or was made its own competitor (_deadline_reached puts a  *)
(* task without a culprit on its own list; _set_to_schedule). This holds   *)
(* as long as the user, once a goal was chosen, does not go back to none.  *)
THEOREM SomeoneIsAllowed == Spec /\ [][GoalStays]_goal => []SomeoneMayRun
  <1>1. Init => FairInv
    <2> SUFFICES ASSUME Init PROVE FairInv
      OBVIOUS
    <2>1. DOMAIN State.tasks = {} /\ DOMAIN State.related = {}
      BY DEF Init, State
    <2> QED
      BY <2>1 DEF FairInv, Fair, Allowed
  <1>2. OptInv /\ FairInv => SomeoneMayRun
    <2> SUFFICES ASSUME OptInv, FairInv, NEW id \in DOMAIN related
                 PROVE  \/ \E n \in related[id].tasks : tasks[n].to_schedule
                        \/ \E n \in related[id].tasks : OwnRival(n)
      BY DEF SomeoneMayRun
    <2>1. related[id].tasks \cap Spared(State) # {}
      <3>1. CASE goal = "NONE"
        <4>1. Allowed(State) = DOMAIN tasks
          BY <3>1 DEF FairInv, Fair, State
        <4> QED
          BY <4>1, AllAllowedFair DEF OptInv
      <3>2. CASE goal # "NONE"
        BY <3>2 DEF FairInv, Fair, State
      <3> QED
        BY <3>1, <3>2
    <2>2. PICK n \in related[id].tasks : n \in Spared(State)
      BY <2>1
    <2>3. tasks[n].to_schedule \/ OwnRival(n)
      BY <2>2 DEF Spared, Allowed, State, OwnRival
    <2> QED
      BY <2>3
  <1> QED
    BY <1>1, <1>2, FairNext, Invariance, PTL DEF Spec

================================================================================
