--------------------------- MODULE TimedTaskProofs ---------------------------
(***************************************************************************)
(* Proofs about TimedTask for any tasks, delays, functions and numbers of  *)
(* workers: its types and the count n_running_, that one worker at most    *)
(* holds a task, that nobody sleeps through what it waits for, what Cancel *)
(* promises, and what the return of WaitTillClear means.                   *)
(***************************************************************************)
EXTENDS TimedTask, FiniteSetTheorems, TLAPS

States == {"none", "awake", "asleep", "timed", "popped", "copied", "in_func", "ran", "finish",
           "exited"}
WithJob == {"popped", "copied", "in_func", "ran", "finish"}

\* TypeOK without the count of running tasks, and with the tasks in the hands
\* of workers among those created.
Typed ==
  /\ tasks \subseteq created /\ created \subseteq Tasks
  /\ exit_flag \in BOOLEAN /\ joining \in BOOLEAN
  /\ n_workers \in 1 .. MaxWorkers
  /\ worker \in [Workers -> States]
  /\ \A w \in Workers : worker[w] = "none" <=> w > n_workers
  /\ job \in [Workers -> created \cup {NoTask}]
  /\ \A w \in Workers : worker[w] \in WithJob <=> job[w] # NoTask
  /\ deadline \in [Workers -> Nat]
  /\ due \in [Tasks -> Int]
  /\ func \in [Tasks -> BOOLEAN] /\ executed \in [Tasks -> BOOLEAN]
  /\ clear \in [ClearWaiters -> {"idle", "awake", "asleep"}]
  /\ late \in [Tasks -> Nat]

Counted == n_running = Cardinality(Busy)

LEMMA TypedIsTypeOK == Typed /\ Counted => TypeOK
<1> SUFFICES ASSUME Typed, Counted PROVE TypeOK
  OBVIOUS
<1>1. job \in [Workers -> Tasks \cup {NoTask}]
  BY DEF Typed
<1> QED
  BY <1>1 DEF Typed, Counted, TypeOK, States, WithJob

(***************************************************************************)
(* notify_all.                                                             *)
(***************************************************************************)
LEMMA WokenWorkers ==
  ASSUME NEW st \in [Workers -> States]
  PROVE  /\ Woken(st) \in [Workers -> States]
         /\ \A w \in Workers :
              /\ st[w] \in {"asleep", "timed"} => Woken(st)[w] = "awake"
              /\ st[w] \notin {"asleep", "timed"} => Woken(st)[w] = st[w]
              /\ Woken(st)[w] \notin {"asleep", "timed"}
              /\ Woken(st)[w] = "none" <=> st[w] = "none"
              /\ Woken(st)[w] \in WithJob <=> st[w] \in WithJob
BY DEF Woken, States, WithJob

LEMMA WokenClear ==
  ASSUME NEW st \in [ClearWaiters -> {"idle", "awake", "asleep"}]
  PROVE  /\ Woken(st) \in [ClearWaiters -> {"idle", "awake", "asleep"}]
         /\ \A t \in ClearWaiters : Woken(st)[t] # "asleep"
         /\ \A t \in ClearWaiters : Woken(st)[t] = "idle" <=> st[t] = "idle"
BY DEF Woken

(***************************************************************************)
(* What the operations do to the threads.                                  *)
(***************************************************************************)
\* ScheduleTask of a task nobody waits to run again, or after the exit flag.
LEMMA ScheduleTaskThreads ==
  ASSUME Typed, NEW k, NEW before \in [Workers -> States],
         \A w \in Workers : before[w] = "none" <=> worker[w] = "none",
         ScheduleTask(k, before)
  PROVE  /\ n_workers' \in 1 .. MaxWorkers
         /\ worker' \in [Workers -> States]
         /\ \A w \in Workers : worker'[w] = "none" <=> w > n_workers'
         /\ \A w \in Workers : worker'[w] \in WithJob <=> before[w] \in WithJob
         /\ \A w \in Workers : before[w] \in WithJob => worker'[w] = before[w]
         /\ \A w \in Workers : worker'[w] \in WithJob => worker'[w] = before[w]
         /\ clear' \in [ClearWaiters -> {"idle", "awake", "asleep"}]
         /\ \A t \in ClearWaiters : clear'[t] = "idle" <=> clear[t] = "idle"
         /\ \/ tasks' = tasks /\ worker' = before /\ clear' = clear
            \/ /\ tasks' = tasks \cup {k}
               /\ \A w \in Workers : worker'[w] \notin {"asleep", "timed"}
               /\ \A t \in ClearWaiters : clear'[t] # "asleep"
<1>1. \A w \in Workers : before[w] = "none" <=> w > n_workers
  BY DEF Typed
<1>2. MaxWorkers \in Nat /\ n_workers \in 1 .. MaxWorkers
  BY SchedulerAssumption DEF Typed
<1>3. CASE exit_flag /\ worker' = before /\ UNCHANGED <<tasks, n_workers, clear>>
  BY <1>1, <1>3 DEF Typed
<1>4. CASE
      /\ ~exit_flag
      /\ tasks' = tasks \cup {k}
      /\ clear' = Woken(clear)
      /\ LET woken == ScheduleWakes(before) IN
         IF MustSpawn
         THEN /\ n_workers < MaxWorkers /\ n_workers' = n_workers + 1
              /\ worker' = [woken EXCEPT ![n_workers + 1] = "awake"]
         ELSE n_workers' = n_workers /\ worker' = woken
  <2>1. /\ clear' \in [ClearWaiters -> {"idle", "awake", "asleep"}]
        /\ \A t \in ClearWaiters : clear'[t] # "asleep"
        /\ \A t \in ClearWaiters : clear'[t] = "idle" <=> clear[t] = "idle"
    BY <1>4, WokenClear DEF Typed
  <2> DEFINE woken == Woken(before)
  <2>2. /\ woken \in [Workers -> States]
        /\ \A w \in Workers :
              /\ before[w] \notin {"asleep", "timed"} => woken[w] = before[w]
              /\ woken[w] \notin {"asleep", "timed"}
              /\ woken[w] = "none" <=> before[w] = "none"
              /\ woken[w] \in WithJob <=> before[w] \in WithJob
    BY WokenWorkers
  <2>3. \/ /\ n_workers < MaxWorkers /\ n_workers' = n_workers + 1
           /\ worker' = [woken EXCEPT ![n_workers + 1] = "awake"]
        \/ n_workers' = n_workers /\ worker' = woken
    BY <1>4 DEF ScheduleWakes
  <2> HIDE DEF woken
  <2>4. \A w \in Workers : before[w] \in WithJob => woken[w] = before[w]
    BY <2>2 DEF WithJob
  <2>5. \A w \in Workers : woken[w] = "none" <=> w > n_workers
    BY <1>1, <2>2
  <2>6. CASE n_workers' = n_workers /\ worker' = woken
    BY <1>2, <1>4, <2>1, <2>2, <2>4, <2>5, <2>6
  <2>7. CASE /\ n_workers < MaxWorkers /\ n_workers' = n_workers + 1
             /\ worker' = [woken EXCEPT ![n_workers + 1] = "awake"]
    <3>1. n_workers + 1 \in Workers /\ n_workers' \in 1 .. MaxWorkers
      BY <1>2, <2>7 DEF Workers
    <3>2. woken[n_workers + 1] = "none" /\ before[n_workers + 1] = "none"
      BY <1>1, <1>2, <2>5, <3>1
    <3>3. worker' \in [Workers -> States]
      BY <2>2, <2>7 DEF States
    <3>4. /\ worker'[n_workers + 1] = "awake"
          /\ \A w \in Workers : w # n_workers + 1 => worker'[w] = woken[w]
      BY <2>2, <2>7, <3>1
    <3>5. \A w \in Workers : worker'[w] = "none" <=> w > n_workers'
      BY <1>2, <2>5, <2>7, <3>4 DEF Workers
    <3>6. \A w \in Workers : worker'[w] \in WithJob <=> before[w] \in WithJob
      BY <2>2, <3>2, <3>4 DEF WithJob
    <3>7. \A w \in Workers : before[w] \in WithJob => worker'[w] = before[w]
      BY <2>4, <3>2, <3>4 DEF WithJob
    <3>8. \A w \in Workers : worker'[w] \notin {"asleep", "timed"}
      BY <2>2, <3>4
    <3> QED
      BY <1>4, <2>1, <3>1, <3>3, <3>5, <3>6, <3>7, <3>8
  <2> QED
    BY <2>3, <2>6, <2>7
<1> QED
  BY <1>3, <1>4 DEF ScheduleTask

\* What a worker entering its critical section leaves of the other threads:
\* state is where it goes, runs the number of runs it begins.
SectionOf(w, state, runs) ==
  /\ worker' \in [Workers -> States] /\ worker'[w] = state
  /\ \A v \in Workers \ {w} :
       /\ worker'[v] = "none" <=> worker[v] = "none"
       /\ worker'[v] \in WithJob <=> worker[v] \in WithJob
       /\ worker'[v] \in WithJob \cup {"asleep", "timed"} => worker'[v] = worker[v]
  /\ clear' \in [ClearWaiters -> {"idle", "awake", "asleep"}]
  /\ \A t \in ClearWaiters : clear'[t] = "idle" <=> clear[t] = "idle"
  /\ \/ /\ worker[w] = "finish" /\ n_running' = n_running - 1 + runs
        /\ \A t \in ClearWaiters : clear'[t] # "asleep"
     \/ worker[w] = "awake" /\ n_running' = n_running + runs /\ clear' = clear
  /\ UNCHANGED <<exit_flag, n_workers, due, func, executed, joining, created, late>>

LEMMA FinishWakes ==
  ASSUME Typed, NEW w \in Workers, NEW state \in States,
         worker' = [Woken(worker) EXCEPT ![w] = state]
  PROVE  /\ worker' \in [Workers -> States] /\ worker'[w] = state
         /\ \A v \in Workers \ {w} :
              /\ worker'[v] = "none" <=> worker[v] = "none"
              /\ worker'[v] \in WithJob <=> worker[v] \in WithJob
              /\ worker'[v] \in WithJob \cup {"asleep", "timed"} => worker'[v] = worker[v]
<1>1. worker \in [Workers -> States]
  BY DEF Typed
<1>2. /\ Woken(worker) \in [Workers -> States]
      /\ \A v \in Workers :
           /\ worker[v] \notin {"asleep", "timed"} => Woken(worker)[v] = worker[v]
           /\ Woken(worker)[v] \notin {"asleep", "timed"}
           /\ Woken(worker)[v] = "none" <=> worker[v] = "none"
           /\ Woken(worker)[v] \in WithJob <=> worker[v] \in WithJob
  BY <1>1, WokenWorkers
<1>3. /\ worker' \in [Workers -> States] /\ worker'[w] = state
      /\ \A v \in Workers \ {w} : worker'[v] = Woken(worker)[v]
  BY <1>2
<1> QED
  BY <1>2, <1>3 DEF WithJob

LEMMA SectionThreads ==
  ASSUME Typed, Counted, NEW w \in Workers, NEW state \in States, Section(w, state)
  PROVE  SectionOf(w, state, 0)
<1>1. n_running \in Nat
  <2>1. Busy \subseteq Workers /\ IsFiniteSet(Workers)
    BY SchedulerAssumption, FS_Interval DEF Busy, Workers
  <2> QED
    BY <2>1, FS_Subset, FS_CardinalityType DEF Counted
<1>2. UNCHANGED <<exit_flag, n_workers, due, func, executed, joining, created, late>>
  BY DEF Section
<1>3. CASE AfterRun(w)
  <2>1. worker' = [Woken(worker) EXCEPT ![w] = state]
    BY <1>3 DEF Section, AfterRun
  <2>2. /\ clear' \in [ClearWaiters -> {"idle", "awake", "asleep"}]
        /\ \A t \in ClearWaiters : clear'[t] # "asleep"
        /\ \A t \in ClearWaiters : clear'[t] = "idle" <=> clear[t] = "idle"
    BY <1>3, WokenClear DEF AfterRun, Typed
  <2>3. worker[w] = "finish" /\ n_running' = n_running - 1 + 0
    BY <1>1, <1>3 DEF AfterRun, OneRunLess
  <2> QED
    BY <1>2, <2>1, <2>2, <2>3, FinishWakes DEF SectionOf
<1>4. CASE AfterWait(w)
  <2>1. worker' = [worker EXCEPT ![w] = state] /\ worker[w] = "awake"
    BY <1>4 DEF Section, AfterWait
  <2>2. worker \in [Workers -> States] /\ clear \in [ClearWaiters -> {"idle", "awake", "asleep"}]
    BY DEF Typed
  <2>3. /\ worker' \in [Workers -> States] /\ worker'[w] = state
        /\ \A v \in Workers \ {w} : worker'[v] = worker[v]
    BY <2>1, <2>2
  <2>4. n_running' = n_running + 0 /\ clear' = clear
    BY <1>1, <1>4 DEF AfterWait
  <2> QED
    BY <1>2, <2>1, <2>2, <2>3, <2>4 DEF SectionOf
<1> QED
  BY <1>3, <1>4 DEF Section

LEMMA TakeThreads ==
  ASSUME Typed, Counted, NEW w \in Workers, Take(w)
  PROVE  SectionOf(w, "popped", 1)
<1>1. n_running \in Nat
  <2>1. Busy \subseteq Workers /\ IsFiniteSet(Workers)
    BY SchedulerAssumption, FS_Interval DEF Busy, Workers
  <2> QED
    BY <2>1, FS_Subset, FS_CardinalityType DEF Counted
<1>2. UNCHANGED <<exit_flag, n_workers, due, func, executed, joining, created, late>>
  BY DEF Take
<1>3. "popped" \in States
  BY DEF States
<1>4. CASE /\ worker[w] = "finish"
           /\ worker' = [Woken(worker) EXCEPT ![w] = "popped"]
           /\ clear' = Woken(clear)
           /\ UNCHANGED n_running
  <2>1. /\ clear' \in [ClearWaiters -> {"idle", "awake", "asleep"}]
        /\ \A t \in ClearWaiters : clear'[t] # "asleep"
        /\ \A t \in ClearWaiters : clear'[t] = "idle" <=> clear[t] = "idle"
    BY <1>4, WokenClear DEF Typed
  <2>2. n_running' = n_running - 1 + 1
    BY <1>1, <1>4
  <2> QED
    BY <1>2, <1>3, <1>4, <2>1, <2>2, FinishWakes DEF SectionOf
<1>5. CASE /\ worker[w] = "awake"
           /\ worker' = [worker EXCEPT ![w] = "popped"]
           /\ n_running' = n_running + 1
           /\ UNCHANGED clear
  <2>1. worker \in [Workers -> States] /\ clear \in [ClearWaiters -> {"idle", "awake", "asleep"}]
    BY DEF Typed
  <2>2. /\ worker' \in [Workers -> States] /\ worker'[w] = "popped"
        /\ \A v \in Workers \ {w} : worker'[v] = worker[v]
    BY <1>3, <1>5, <2>1
  <2> QED
    BY <1>2, <1>5, <2>1, <2>2 DEF SectionOf
<1> QED
  BY <1>4, <1>5 DEF Take

(***************************************************************************)
(* Type correctness.                                                       *)
(***************************************************************************)
LEMMA TypedInit == Init => Typed /\ Counted
<1> SUFFICES ASSUME Init PROVE Typed /\ Counted
  OBVIOUS
<1>1. MaxWorkers \in Nat \ {0}
  BY SchedulerAssumption
<1>2. Typed
  <2>1. /\ worker \in [Workers -> States] /\ n_workers = 1
        /\ \A w \in Workers : worker[w] = IF w = 1 THEN "awake" ELSE "none"
    BY DEF Init, States
  <2>2. n_workers \in 1 .. MaxWorkers /\ \A w \in Workers : worker[w] = "none" <=> w > n_workers
    BY <1>1, <2>1 DEF Workers
  <2>3. /\ job \in [Workers -> created \cup {NoTask}]
        /\ \A w \in Workers : job[w] = NoTask /\ worker[w] \notin WithJob
    BY <2>1 DEF Init, WithJob
  <2>4. /\ deadline \in [Workers -> Nat] /\ due \in [Tasks -> Int]
        /\ late \in [Tasks -> Nat]
    BY DEF Init
  <2>5. /\ func \in [Tasks -> BOOLEAN] /\ executed \in [Tasks -> BOOLEAN]
        /\ clear \in [ClearWaiters -> {"idle", "awake", "asleep"}]
    BY DEF Init
  <2> QED
    BY <2>1, <2>2, <2>3, <2>4, <2>5 DEF Init, Typed
<1>3. Busy = {}
  BY DEF Init, Busy
<1> QED
  BY <1>2, <1>3, FS_EmptySet DEF Init, Counted

\* The parts of Typed about the threads, after a step that moves only the
\* state of worker w and what it holds.
LEMMA MoveTyped ==
  ASSUME Typed, NEW w \in Workers, NEW to \in WithJob,
         worker[w] \in WithJob, worker' = [worker EXCEPT ![w] = to]
  PROVE  /\ worker' \in [Workers -> States]
         /\ \A v \in Workers : worker'[v] = "none" <=> worker[v] = "none"
         /\ \A v \in Workers : worker'[v] \in WithJob <=> worker[v] \in WithJob
BY DEF Typed, States, WithJob

LEMMA StartFuncTyped ==
  ASSUME Typed, NEW k \in Tasks, StartFunc(k)
  PROVE  /\ late' \in [Tasks -> Nat]
         /\ late'[k] = late[k] + IF func[k] THEN 0 ELSE 1
         /\ \A j \in Tasks \ {k} : late'[j] = late[j]
<1>1. late \in [Tasks -> Nat]
  BY DEF Typed
<1>2. late[k] + (IF func[k] THEN 0 ELSE 1) \in Nat
  BY <1>1
<1>3. late' = [late EXCEPT ![k] = late[k] + IF func[k] THEN 0 ELSE 1]
  BY DEF StartFunc
<1> QED
  BY <1>1, <1>2, <1>3

LEMMA ScheduleTyped ==
  ASSUME Typed, NEW k \in Tasks, NEW d \in DelaysOf(k), Schedule(k, d)
  PROVE  Typed'
<1>1. /\ created' = created \cup {k} /\ due' = [due EXCEPT ![k] = d]
      /\ ScheduleTask(k, worker)
      /\ UNCHANGED <<n_running, exit_flag, job, deadline, func, executed, joining, late>>
  BY DEF Schedule
<1>2. d \in Int
  BY SchedulerAssumption DEF DelaysOf
<1>3. worker \in [Workers -> States]
  BY DEF Typed
<1>4. /\ n_workers' \in 1 .. MaxWorkers
      /\ worker' \in [Workers -> States]
      /\ \A w \in Workers : worker'[w] = "none" <=> w > n_workers'
      /\ \A w \in Workers : worker'[w] \in WithJob <=> worker[w] \in WithJob
      /\ clear' \in [ClearWaiters -> {"idle", "awake", "asleep"}]
      /\ tasks' = tasks \/ tasks' = tasks \cup {k}
  BY <1>1, <1>3, ScheduleTaskThreads
<1>5. job' \in [Workers -> created' \cup {NoTask}]
  BY <1>1 DEF Typed
<1> QED
  BY <1>1, <1>2, <1>4, <1>5 DEF Typed

LEMMA SectionTyped ==
  ASSUME Typed, NEW w \in Workers, NEW state \in States \ {"none"}, NEW runs,
         SectionOf(w, state, runs),
         tasks' \subseteq tasks,
         NEW j \in created \cup {NoTask}, job' = [job EXCEPT ![w] = j],
         state \in WithJob <=> j # NoTask,
         NEW d \in Nat, deadline' = [deadline EXCEPT ![w] = d]
  PROVE  Typed'
<1>1. worker[w] # "none"
  BY DEF SectionOf
<1>2. \A v \in Workers : worker'[v] = "none" <=> worker[v] = "none"
  BY <1>1 DEF SectionOf
<1>3. \A v \in Workers : worker'[v] \in WithJob <=> job'[v] # NoTask
  BY DEF SectionOf, Typed
<1>4. job' \in [Workers -> created' \cup {NoTask}] /\ deadline' \in [Workers -> Nat]
  BY DEF SectionOf, Typed
<1> QED
  BY <1>2, <1>3, <1>4 DEF SectionOf, Typed

LEMMA TypedStep ==
  ASSUME Typed, Counted, [Next]_vars
  PROVE  Typed'
<1>1. ASSUME NEW k \in Tasks, NEW d \in DelaysOf(k), Schedule(k, d)
      PROVE  Typed'
  BY <1>1, ScheduleTyped
<1>2. ASSUME NEW w \in Workers, Sleep(w)
      PROVE  Typed'
  <2>1. "asleep" \in States \ {"none"} /\ "asleep" \notin WithJob
    BY DEF States, WithJob
  <2>2. SectionOf(w, "asleep", 0)
    BY <1>2, <2>1, SectionThreads DEF Sleep
  <2>3. /\ job' = [job EXCEPT ![w] = NoTask] /\ deadline' = [deadline EXCEPT ![w] = 0]
        /\ tasks' = tasks
    BY <1>2 DEF Sleep
  <2> QED
    BY <2>1, <2>2, <2>3, SectionTyped
<1>3. ASSUME NEW w \in Workers, SleepUntilDue(w)
      PROVE  Typed'
  <2>1. PICK k \in tasks : due[k] > 0 /\ deadline' = [deadline EXCEPT ![w] = due[k]]
    BY <1>3 DEF SleepUntilDue
  <2>2. due[k] \in Nat
    BY <2>1 DEF Typed
  <2>3. "timed" \in States \ {"none"} /\ "timed" \notin WithJob
    BY DEF States, WithJob
  <2>4. SectionOf(w, "timed", 0)
    BY <1>3, <2>3, SectionThreads DEF SleepUntilDue
  <2>5. job' = [job EXCEPT ![w] = NoTask] /\ tasks' = tasks
    BY <1>3 DEF SleepUntilDue
  <2> QED
    BY <2>1, <2>2, <2>3, <2>4, <2>5, SectionTyped
<1>4. ASSUME NEW w \in Workers, Exit(w)
      PROVE  Typed'
  <2>1. "exited" \in States \ {"none"} /\ "exited" \notin WithJob
    BY DEF States, WithJob
  <2>2. SectionOf(w, "exited", 0)
    BY <1>4, <2>1, SectionThreads DEF Exit
  <2>3. /\ job' = [job EXCEPT ![w] = NoTask] /\ deadline' = [deadline EXCEPT ![w] = 0]
        /\ tasks' = tasks
    BY <1>4 DEF Exit
  <2> QED
    BY <2>1, <2>2, <2>3, SectionTyped
<1>5. ASSUME NEW w \in Workers, Take(w)
      PROVE  Typed'
  <2>1. PICK k \in tasks : tasks' = tasks \ {k} /\ job' = [job EXCEPT ![w] = k]
    BY <1>5 DEF Take, Popped
  <2>2. k \in created /\ k # NoTask
    BY SchedulerAssumption DEF Typed
  <2>3. deadline' = [deadline EXCEPT ![w] = 0]
    BY <1>5 DEF Take
  <2>4. "popped" \in States \ {"none"} /\ "popped" \in WithJob
    BY DEF States, WithJob
  <2>5. SectionOf(w, "popped", 1)
    BY <1>5, TakeThreads
  <2> QED
    BY <2>1, <2>2, <2>3, <2>4, <2>5, SectionTyped
<1>6. ASSUME NEW w \in Workers, WakeUp(w)
      PROVE  Typed'
  BY <1>6 DEF WakeUp, Typed, States, WithJob, scheduler
<1>7. ASSUME NEW w \in Workers, RunTimed(w)
      PROVE  Typed'
  <2>1. \E to \in WithJob : worker[w] \in WithJob /\ worker' = [worker EXCEPT ![w] = to]
    BY <1>7 DEF RunTimed, Moves, WithJob
  <2>2. executed' \in [Tasks -> BOOLEAN] /\ late' \in [Tasks -> Nat]
    <3>1. executed' \in [Tasks -> BOOLEAN]
      BY <1>7 DEF RunTimed, Typed
    <3>2. job[w] \in Tasks /\ (StartFunc(job[w]) \/ late' = late)
      BY <1>7 DEF RunTimed, Tasks
    <3> QED
      BY <3>1, <3>2, StartFuncTyped DEF Typed
  <2> QED
    BY <1>7, <2>1, <2>2, MoveTyped DEF RunTimed, Typed, scheduler
<1>8. ASSUME NEW w \in Workers, RunRecurring(w)
      PROVE  Typed'
  <2>1. \E to \in WithJob : worker[w] \in WithJob /\ worker' = [worker EXCEPT ![w] = to]
    BY <1>8 DEF RunRecurring, Moves, WithJob
  <2> QED
    BY <1>8, <2>1, MoveTyped DEF RunRecurring, Typed, scheduler
<1>9. ASSUME NEW w \in Workers, CallCopy(w)
      PROVE  Typed'
  <2>1. \E to \in WithJob : worker[w] \in WithJob /\ worker' = [worker EXCEPT ![w] = to]
    BY <1>9 DEF CallCopy, Moves, WithJob
  <2>2. late' \in [Tasks -> Nat]
    <3>1. job[w] \in Tasks /\ StartFunc(job[w])
      BY <1>9 DEF CallCopy, Moves, Typed, WithJob
    <3> QED
      BY <3>1, StartFuncTyped
  <2> QED
    BY <1>9, <2>1, <2>2, MoveTyped DEF CallCopy, Typed, scheduler
<1>10. ASSUME NEW w \in Workers, FuncEnds(w)
       PROVE  Typed'
  <2>1. \E to \in WithJob : worker[w] \in WithJob /\ worker' = [worker EXCEPT ![w] = to]
    BY <1>10 DEF FuncEnds, Moves, WithJob
  <2>2. executed' \in [Tasks -> BOOLEAN]
    BY <1>10 DEF FuncEnds, Typed
  <2> QED
    BY <1>10, <2>1, <2>2, MoveTyped DEF FuncEnds, Typed, scheduler
<1>11. ASSUME NEW w \in Workers, Reschedule(w)
       PROVE  Typed'
  <2> DEFINE before == [worker EXCEPT ![w] = "finish"]
  <2>1. worker[w] = "ran" /\ ScheduleTask(job[w], before)
    BY <1>11 DEF Reschedule
  <2>2. /\ before \in [Workers -> States]
        /\ \A v \in Workers : before[v] = "none" <=> worker[v] = "none"
        /\ \A v \in Workers : before[v] \in WithJob <=> worker[v] \in WithJob
    BY <2>1 DEF Typed, States, WithJob
  <2>3. job[w] \in created
    BY <2>1 DEF Typed, WithJob
  <2>4. executed' \in [Tasks -> BOOLEAN] /\ due' \in [Tasks -> Int]
    <3>1. job[w] \in Tasks /\ due \in [Tasks -> Int] /\ executed \in [Tasks -> BOOLEAN]
      BY <2>3 DEF Typed
    <3>2. due[job[w]] + Interval \in Int
      BY <3>1, SchedulerAssumption
    <3>3. /\ executed' = [executed EXCEPT ![job[w]] = TRUE]
          /\ due' = [due EXCEPT ![job[w]] = due[job[w]] + Interval]
      BY <1>11 DEF Reschedule
    <3> QED
      BY <3>1, <3>2, <3>3
  <2> HIDE DEF before
  <2>5. /\ n_workers' \in 1 .. MaxWorkers
        /\ worker' \in [Workers -> States]
        /\ \A v \in Workers : worker'[v] = "none" <=> v > n_workers'
        /\ \A v \in Workers : worker'[v] \in WithJob <=> before[v] \in WithJob
        /\ clear' \in [ClearWaiters -> {"idle", "awake", "asleep"}]
        /\ tasks' = tasks \/ tasks' = tasks \cup {job[w]}
    BY <2>1, <2>2, ScheduleTaskThreads
  <2>6. UNCHANGED <<n_running, exit_flag, job, deadline, func, joining, created, late>>
    BY <1>11 DEF Reschedule
  <2>7. tasks' \subseteq created'
    BY <2>3, <2>5, <2>6 DEF Typed
  <2>8. \A v \in Workers : worker'[v] \in WithJob <=> job'[v] # NoTask
    BY <2>2, <2>5, <2>6 DEF Typed
  <2> QED
    BY <2>4, <2>5, <2>6, <2>7, <2>8 DEF Typed
<1>12. ASSUME NEW k \in Tasks, Cancel(k)
       PROVE  Typed'
  BY <1>12 DEF Cancel, Typed, scheduler, threads
<1>13. ASSUME NEW t \in ClearWaiters, CallWaitTillClear(t)
       PROVE  Typed'
  BY <1>13 DEF CallWaitTillClear, Typed, scheduler
<1>14. ASSUME NEW t \in ClearWaiters, ClearStep(t)
       PROVE  Typed'
  BY <1>14 DEF ClearStep, Typed, scheduler
<1>15. ASSUME CancelAll, joining' \in BOOLEAN
       PROVE  Typed'
  <2>1. /\ worker' \in [Workers -> States]
        /\ \A v \in Workers : worker'[v] = "none" <=> worker[v] = "none"
        /\ \A v \in Workers : worker'[v] \in WithJob <=> worker[v] \in WithJob
    BY <1>15, WokenWorkers DEF CancelAll, Typed
  <2>2. clear' \in [ClearWaiters -> {"idle", "awake", "asleep"}]
    BY <1>15, WokenClear DEF CancelAll, Typed
  <2> QED
    BY <1>15, <2>1, <2>2 DEF CancelAll, Typed
<1>16. CASE Destroy
  BY <1>16 DEF Destroy, Typed, threads
<1>17. CASE Tick
  <2>1. due' \in [Tasks -> Int] /\ deadline' \in [Workers -> Nat]
    BY <1>17, SchedulerAssumption DEF Tick, Typed
  <2> QED
    BY <1>17, <2>1 DEF Tick, Typed, scheduler
<1>18. CASE UNCHANGED vars
  BY <1>18 DEF vars, scheduler, threads, Typed
<1>19. CASE CancelAll /\ ~exit_flag /\ UNCHANGED joining
  BY <1>15, <1>19 DEF Typed
<1>20. CASE DestroyCancels
  BY <1>15, <1>20 DEF DestroyCancels
<1> QED
  BY <1>1, <1>2, <1>3, <1>4, <1>5, <1>6, <1>7, <1>8, <1>9, <1>10, <1>11, <1>12, <1>13, <1>14,
     <1>16, <1>17, <1>18, <1>19, <1>20
  DEF Next, SectionStep, RunStep, TimeOut

(***************************************************************************)
(* n_running_ is the number of workers with a task.                        *)
(***************************************************************************)
LEMMA SectionCounted ==
  ASSUME Typed, Counted, NEW w \in Workers, NEW state, NEW runs,
         SectionOf(w, state, runs), NEW j, job' = [job EXCEPT ![w] = j],
         runs = IF j = NoTask THEN 0 ELSE 1
  PROVE  Counted'
<1>1. Busy \subseteq Workers /\ IsFiniteSet(Workers)
  BY SchedulerAssumption, FS_Interval DEF Busy, Workers
<1>2. IsFiniteSet(Busy) /\ Cardinality(Busy) \in Nat
  BY <1>1, FS_Subset, FS_CardinalityType
<1>3. Busy' = IF j = NoTask THEN Busy \ {w} ELSE Busy \cup {w}
  BY DEF Busy, Typed
<1>4. w \in Busy <=> worker[w] = "finish"
  BY DEF SectionOf, Typed, Busy, WithJob
<1>5. CASE worker[w] = "finish"
  <2>1. n_running' = n_running - 1 + runs
    BY <1>5 DEF SectionOf
  <2>2. Cardinality(Busy \ {w}) = Cardinality(Busy) - 1
    BY <1>2, <1>4, <1>5, FS_RemoveElement
  <2>3. Busy \cup {w} = Busy
    BY <1>4, <1>5
  <2>4. n_running = Cardinality(Busy)
    BY DEF Counted
  <2>5. n_running' = Cardinality(Busy')
    <3>1. CASE j = NoTask
      BY <1>2, <1>3, <2>1, <2>2, <2>4, <3>1
    <3>2. CASE j # NoTask
      <4>1. Busy' = Busy
        BY <1>3, <2>3, <3>2
      <4>2. n_running' = n_running
        BY <1>2, <2>1, <2>4, <3>2
      <4> QED
        BY <2>4, <4>1, <4>2
    <3> QED
      BY <3>1, <3>2
  <2> QED
    BY <2>5 DEF Counted
<1>6. CASE worker[w] # "finish"
  <2>1. n_running' = n_running + runs
    BY <1>6 DEF SectionOf
  <2>2. Cardinality(Busy \cup {w}) = Cardinality(Busy) + 1
    BY <1>2, <1>4, <1>6, FS_AddElement
  <2>3. Busy \ {w} = Busy
    BY <1>4, <1>6
  <2> QED
    BY <1>2, <1>3, <2>1, <2>2, <2>3 DEF Counted
<1> QED
  BY <1>5, <1>6

LEMMA SameCount ==
  ASSUME Counted, job' = job, n_running' = n_running
  PROVE  Counted'
BY DEF Counted, Busy

LEMMA CountedStep ==
  ASSUME Typed, Counted, [Next]_vars
  PROVE  Counted'
<1>1. ASSUME NEW k \in Tasks, NEW d \in DelaysOf(k), Schedule(k, d)
      PROVE  Counted'
  BY <1>1, SameCount DEF Schedule
<1>2. ASSUME NEW w \in Workers, Sleep(w)
      PROVE  Counted'
  <2>1. SectionOf(w, "asleep", 0) /\ job' = [job EXCEPT ![w] = NoTask]
    BY <1>2, SectionThreads DEF Sleep, States
  <2> QED
    BY <2>1, SectionCounted
<1>3. ASSUME NEW w \in Workers, SleepUntilDue(w)
      PROVE  Counted'
  <2>1. SectionOf(w, "timed", 0) /\ job' = [job EXCEPT ![w] = NoTask]
    BY <1>3, SectionThreads DEF SleepUntilDue, States
  <2> QED
    BY <2>1, SectionCounted
<1>4. ASSUME NEW w \in Workers, Exit(w)
      PROVE  Counted'
  <2>1. SectionOf(w, "exited", 0) /\ job' = [job EXCEPT ![w] = NoTask]
    BY <1>4, SectionThreads DEF Exit, States
  <2> QED
    BY <2>1, SectionCounted
<1>5. ASSUME NEW w \in Workers, Take(w)
      PROVE  Counted'
  <2>1. PICK k \in tasks : job' = [job EXCEPT ![w] = k]
    BY <1>5 DEF Take
  <2>2. k # NoTask
    BY SchedulerAssumption DEF Typed
  <2>3. SectionOf(w, "popped", 1)
    BY <1>5, TakeThreads
  <2> QED
    BY <2>1, <2>2, <2>3, SectionCounted
<1>6. ASSUME NEW w \in Workers, WakeUp(w) \/ RunStep(w) \/ FuncEnds(w)
      PROVE  Counted'
  BY <1>6, SameCount
  DEF WakeUp, RunStep, RunTimed, RunRecurring, CallCopy, Reschedule, FuncEnds, scheduler
<1>7. ASSUME NEW k \in Tasks, Cancel(k)
      PROVE  Counted'
  BY <1>7, SameCount DEF Cancel, scheduler, threads
<1>8. ASSUME NEW t \in ClearWaiters, CallWaitTillClear(t) \/ ClearStep(t)
      PROVE  Counted'
  BY <1>8, SameCount DEF CallWaitTillClear, ClearStep, scheduler
<1>9. CASE CancelAll \/ Destroy \/ DestroyCancels
  BY <1>9, SameCount DEF CancelAll, Destroy, DestroyCancels, threads
<1>10. CASE Tick \/ UNCHANGED vars
  BY <1>10, SameCount DEF Tick, vars, scheduler, threads
<1> QED
  BY <1>1, <1>2, <1>3, <1>4, <1>5, <1>6, <1>7, <1>8, <1>9, <1>10
  DEF Next, SectionStep, TimeOut

\* The variables keep their types and n_running_ is the number of workers that
\* have popped a task and not yet finished with it, for any tasks and workers
\* (TaskRunnerThread, ScheduleTask).
THEOREM TypeCorrect == Safety => []TypeOK
<1>1. Init => Typed /\ Counted
  BY TypedInit
<1>2. Typed /\ Counted /\ [Next]_vars => (Typed /\ Counted)'
  BY TypedStep, CountedStep
<1>3. Typed /\ Counted => TypeOK
  BY TypedIsTypeOK
<1> QED
  BY <1>1, <1>2, <1>3, PTL DEF Safety

(***************************************************************************)
(* One holder of a task.                                                   *)
(***************************************************************************)
LEMMA SameHolders ==
  ASSUME OneHolder, job' = job, tasks' \subseteq tasks,
         \A v \in Workers : worker[v] = "finish" => worker'[v] = "finish"
  PROVE  OneHolder'
BY DEF OneHolder, Busy

LEMMA SectionHolders ==
  ASSUME Typed, OneHolder, NEW w \in Workers, NEW state, NEW runs,
         SectionOf(w, state, runs), job' = [job EXCEPT ![w] = NoTask], tasks' = tasks
  PROVE  OneHolder'
<1>1. w \notin Busy'
  BY DEF Busy, Typed
<1>2. \A v \in Workers \ {w} : job'[v] = job[v] /\ (job[v] # NoTask => worker'[v] = worker[v])
  BY DEF Typed, SectionOf
<1>3. \A v \in Busy' : v \in Busy /\ job'[v] = job[v] /\ worker'[v] = worker[v]
  BY <1>1, <1>2 DEF Busy
<1> QED
  BY <1>3 DEF OneHolder

LEMMA TakeHolders ==
  ASSUME Typed, Counted, OneHolder, NEW w \in Workers, Take(w)
  PROVE  OneHolder'
<1>1. PICK k \in tasks : tasks' = tasks \ {k} /\ job' = [job EXCEPT ![w] = k]
  BY DEF Take, Popped
<1>2. SectionOf(w, "popped", 1)
  BY TakeThreads
<1>3. job'[w] = k
  BY <1>1 DEF Typed
<1>4. \A v \in Busy' \ {w} : v \in Busy /\ job'[v] = job[v] /\ worker'[v] = worker[v]
  BY <1>1, <1>2 DEF Busy, Typed, SectionOf
<1>5. \A v \in Busy' \ {w} : worker'[v] # "finish" => job'[v] # k
  BY <1>4 DEF OneHolder
<1>6. \A v \in Busy' : worker'[v] # "finish" => job'[v] \notin tasks'
  BY <1>1, <1>3, <1>4 DEF OneHolder
<1>7. \A u, v \in Busy' :
        u # v => job'[u] # job'[v] \/ worker'[u] = "finish" \/ worker'[v] = "finish"
  BY <1>3, <1>4, <1>5 DEF OneHolder
<1> QED
  BY <1>6, <1>7 DEF OneHolder

LEMMA ScheduleHolders ==
  ASSUME Typed, OneHolder, NEW k \in Tasks, NEW d \in DelaysOf(k), Schedule(k, d)
  PROVE  OneHolder'
<1>1. k \notin created /\ ScheduleTask(k, worker) /\ job' = job
  BY DEF Schedule
<1>2. /\ \A w \in Workers : worker[w] \in WithJob => worker'[w] = worker[w]
      /\ tasks' \subseteq tasks \cup {k}
  BY <1>1, ScheduleTaskThreads DEF Typed
<1>3. \A w \in Busy : worker'[w] = worker[w] /\ job[w] # k
  BY <1>1, <1>2, SchedulerAssumption DEF Busy, Typed
<1>4. Busy' = Busy
  BY <1>1 DEF Busy
<1> QED
  BY <1>1, <1>2, <1>3, <1>4 DEF OneHolder

LEMMA RescheduleHolders ==
  ASSUME Typed, OneHolder, NEW w \in Workers, Reschedule(w)
  PROVE  OneHolder'
<1> DEFINE before == [worker EXCEPT ![w] = "finish"]
<1>1. worker[w] = "ran" /\ ScheduleTask(job[w], before) /\ job' = job
  BY DEF Reschedule
<1>2. /\ before \in [Workers -> States]
      /\ \A v \in Workers : before[v] = "none" <=> worker[v] = "none"
      /\ \A v \in Workers : before[v] = IF v = w THEN "finish" ELSE worker[v]
  BY <1>1 DEF Typed, States
<1> HIDE DEF before
<1>3. /\ \A v \in Workers : before[v] \in WithJob => worker'[v] = before[v]
      /\ tasks' \subseteq tasks \cup {job[w]}
  BY <1>1, <1>2, ScheduleTaskThreads
<1>4. w \in Busy /\ Busy' = Busy
  BY <1>1 DEF Busy, Typed, WithJob
<1>5. \A v \in Busy : worker'[v] = IF v = w THEN "finish" ELSE worker[v]
  BY <1>2, <1>3 DEF Busy, Typed, WithJob
<1>6. \A v \in Busy \ {w} : worker[v] = "finish" \/ job[v] # job[w]
  BY <1>1, <1>4 DEF OneHolder
<1> QED
  BY <1>1, <1>3, <1>4, <1>5, <1>6 DEF OneHolder

LEMMA HolderStep ==
  ASSUME Typed, Counted, OneHolder, [Next]_vars
  PROVE  OneHolder'
<1>1. ASSUME NEW k \in Tasks, NEW d \in DelaysOf(k), Schedule(k, d)
      PROVE  OneHolder'
  BY <1>1, ScheduleHolders
<1>2. ASSUME NEW w \in Workers, Sleep(w)
      PROVE  OneHolder'
  <2>1. SectionOf(w, "asleep", 0) /\ job' = [job EXCEPT ![w] = NoTask] /\ tasks' = tasks
    BY <1>2, SectionThreads DEF Sleep, States
  <2> QED
    BY <2>1, SectionHolders
<1>3. ASSUME NEW w \in Workers, SleepUntilDue(w)
      PROVE  OneHolder'
  <2>1. SectionOf(w, "timed", 0) /\ job' = [job EXCEPT ![w] = NoTask] /\ tasks' = tasks
    BY <1>3, SectionThreads DEF SleepUntilDue, States
  <2> QED
    BY <2>1, SectionHolders
<1>4. ASSUME NEW w \in Workers, Exit(w)
      PROVE  OneHolder'
  <2>1. SectionOf(w, "exited", 0) /\ job' = [job EXCEPT ![w] = NoTask] /\ tasks' = tasks
    BY <1>4, SectionThreads DEF Exit, States
  <2> QED
    BY <2>1, SectionHolders
<1>5. ASSUME NEW w \in Workers, Take(w)
      PROVE  OneHolder'
  BY <1>5, TakeHolders
<1>6. ASSUME NEW w \in Workers,
             WakeUp(w) \/ RunTimed(w) \/ RunRecurring(w) \/ CallCopy(w) \/ FuncEnds(w)
      PROVE  OneHolder'
  <2>1. job' = job /\ tasks' = tasks
    BY <1>6 DEF WakeUp, RunTimed, RunRecurring, CallCopy, FuncEnds, scheduler
  <2>2. \E to \in States : worker[w] # "finish" /\ worker' = [worker EXCEPT ![w] = to]
    BY <1>6 DEF WakeUp, RunTimed, RunRecurring, CallCopy, FuncEnds, Moves, States
  <2>3. \A v \in Workers : worker[v] = "finish" => worker'[v] = "finish"
    BY <2>2 DEF Typed
  <2> QED
    BY <2>1, <2>3, SameHolders
<1>7. ASSUME NEW w \in Workers, Reschedule(w)
      PROVE  OneHolder'
  BY <1>7, RescheduleHolders
<1>8. ASSUME NEW k \in Tasks, Cancel(k)
      PROVE  OneHolder'
  BY <1>8, SameHolders DEF Cancel, scheduler, threads
<1>9. ASSUME NEW t \in ClearWaiters, CallWaitTillClear(t) \/ ClearStep(t)
      PROVE  OneHolder'
  BY <1>9, SameHolders DEF CallWaitTillClear, ClearStep, scheduler
<1>10. CASE CancelAll
  <2>1. \A v \in Workers : worker[v] = "finish" => worker'[v] = "finish"
    BY <1>10, WokenWorkers DEF CancelAll, Typed
  <2> QED
    BY <1>10, <2>1, SameHolders DEF CancelAll
<1>11. CASE Destroy
  BY <1>11, SameHolders DEF Destroy, threads
<1>12. CASE Tick \/ UNCHANGED vars
  BY <1>12, SameHolders DEF Tick, vars, scheduler, threads
<1> QED
  BY <1>1, <1>2, <1>3, <1>4, <1>5, <1>6, <1>7, <1>8, <1>9, <1>10, <1>11, <1>12
  DEF Next, SectionStep, RunStep, TimeOut, DestroyCancels

\* A task is in the queue or in the hands of one worker that has not finished
\* with it, also when it schedules itself again (RecurringTask::Run).
THEOREM HoldersCorrect == Safety => []OneHolder
<1>1. Init => Typed /\ Counted /\ OneHolder
  <2> SUFFICES ASSUME Init PROVE OneHolder
    BY TypedInit
  <2>1. Busy = {}
    BY DEF Init, Busy
  <2> QED
    BY <2>1 DEF OneHolder
<1>2. Typed /\ Counted /\ OneHolder /\ [Next]_vars => (Typed /\ Counted /\ OneHolder)'
  BY TypedStep, CountedStep, HolderStep
<1> QED
  BY <1>1, <1>2, PTL DEF Safety

(***************************************************************************)
(* Sleepers.  Workers with and without a timeout and WaitTillClear callers *)
(* wait on the same condition variable.                                    *)
(***************************************************************************)
LEMMA RunningNat ==
  ASSUME Counted
  PROVE  /\ n_running \in Nat
         /\ n_running = 0 => Busy = {}
<1>1. Busy \subseteq Workers /\ IsFiniteSet(Workers)
  BY SchedulerAssumption, FS_Interval DEF Busy, Workers
<1>2. IsFiniteSet(Busy)
  BY <1>1, FS_Subset
<1> QED
  BY <1>2, FS_CardinalityType, FS_EmptySet DEF Counted

LEMMA SectionSleepers ==
  ASSUME Typed, Counted, NoOversleep, NEW w \in Workers, NEW state, NEW runs \in {0, 1},
         SectionOf(w, state, runs),
         tasks' \subseteq tasks, runs = 0 => tasks' = tasks,
         NEW d \in Nat, deadline' = [deadline EXCEPT ![w] = d],
         state = "asleep" => tasks = {},
         state = "timed" => \A k \in tasks : d <= due[k]
  PROVE  NoOversleep'
<1>1. due' = due
  BY DEF SectionOf
<1>2. ASSUME NEW k \in tasks'
      PROVE  /\ worker'[w] # "asleep"
             /\ worker'[w] = "timed" => deadline'[w] <= due'[k]
  BY <1>1, <1>2 DEF SectionOf, Typed
<1>3. ASSUME NEW v \in Workers \ {w}, NEW k \in tasks'
      PROVE  /\ worker'[v] # "asleep"
             /\ worker'[v] = "timed" => deadline'[v] <= due'[k] \/ deadline'[v] = 0
  <2>1. worker'[v] \in {"asleep", "timed"} => worker'[v] = worker[v]
    BY DEF SectionOf
  <2>2. deadline'[v] = deadline[v] /\ k \in tasks
    BY DEF Typed
  <2> QED
    BY <1>1, <2>1, <2>2 DEF NoOversleep
<1>4. ASSUME IsClear', NEW t \in ClearWaiters
      PROVE  clear'[t] # "asleep"
  <2>1. CASE worker[w] = "finish"
    BY <2>1 DEF SectionOf
  <2>2. CASE worker[w] # "finish"
    <3>1. n_running' = n_running + runs /\ clear' = clear
      BY <2>2 DEF SectionOf
    <3>2. n_running' = 0 /\ tasks' = {}
      BY <1>4 DEF IsClear
    <3>3. runs = 0 /\ n_running = 0
      BY <3>1, <3>2, RunningNat
    <3>4. IsClear
      BY <3>2, <3>3 DEF IsClear
    <3> QED
      BY <3>1, <3>4 DEF NoOversleep
  <2> QED
    BY <2>1, <2>2
<1> QED
  BY <1>2, <1>3, <1>4 DEF NoOversleep

\* Nobody begins to sleep and no task comes or changes its time.
LEMMA FewerSleepers ==
  ASSUME NoOversleep, tasks' = tasks, n_running' = n_running, due' = due,
         \A v \in Workers :
           worker'[v] \in {"asleep", "timed"} => worker'[v] = worker[v] /\ deadline'[v] = deadline[v],
         \A t \in ClearWaiters : clear'[t] = "asleep" => clear[t] = "asleep"
  PROVE  NoOversleep'
BY DEF NoOversleep, IsClear

LEMMA NoSleepers ==
  ASSUME \A v \in Workers : worker'[v] \notin {"asleep", "timed"},
         \A t \in ClearWaiters : clear'[t] # "asleep"
  PROVE  NoOversleep'
BY DEF NoOversleep

LEMMA ScheduleSleepers ==
  ASSUME Typed, NoOversleep, NEW k \in Tasks, NEW d \in DelaysOf(k), Schedule(k, d)
  PROVE  NoOversleep'
<1>1. /\ k \notin created /\ ScheduleTask(k, worker) /\ due' = [due EXCEPT ![k] = d]
      /\ n_running' = n_running /\ deadline' = deadline
  BY DEF Schedule
<1>2. \/ tasks' = tasks /\ worker' = worker /\ clear' = clear
      \/ /\ \A w \in Workers : worker'[w] \notin {"asleep", "timed"}
         /\ \A t \in ClearWaiters : clear'[t] # "asleep"
  BY <1>1, ScheduleTaskThreads DEF Typed
<1>3. \A j \in tasks : due'[j] = due[j]
  BY <1>1 DEF Typed
<1> QED
  BY <1>1, <1>2, <1>3, NoSleepers DEF NoOversleep, IsClear

LEMMA RescheduleSleepers ==
  ASSUME Typed, OneHolder, NoOversleep, NEW w \in Workers, Reschedule(w)
  PROVE  NoOversleep'
<1> DEFINE before == [worker EXCEPT ![w] = "finish"]
<1>1. /\ worker[w] = "ran" /\ ScheduleTask(job[w], before)
      /\ due' = [due EXCEPT ![job[w]] = @ + Interval]
      /\ n_running' = n_running /\ deadline' = deadline
  BY DEF Reschedule
<1>2. /\ before \in [Workers -> States]
      /\ \A v \in Workers : before[v] = "none" <=> worker[v] = "none"
      /\ \A v \in Workers : before[v] \in {"asleep", "timed"} => before[v] = worker[v]
  BY <1>1 DEF Typed, States
<1> HIDE DEF before
<1>3. \/ tasks' = tasks /\ worker' = before /\ clear' = clear
      \/ /\ \A v \in Workers : worker'[v] \notin {"asleep", "timed"}
         /\ \A t \in ClearWaiters : clear'[t] # "asleep"
  BY <1>1, <1>2, ScheduleTaskThreads
<1>4. job[w] \notin tasks
  BY <1>1 DEF OneHolder, Busy, Typed, WithJob
<1>5. \A j \in tasks : due'[j] = due[j]
  BY <1>1, <1>4 DEF Typed
<1> QED
  BY <1>1, <1>2, <1>3, <1>5, NoSleepers DEF NoOversleep, IsClear

LEMMA TickSleepers ==
  ASSUME Typed, NoOversleep, Tick
  PROVE  NoOversleep'
<1>1. /\ tasks' = tasks /\ n_running' = n_running /\ worker' = worker /\ clear' = clear
  BY DEF Tick, scheduler
<1>2. \A k \in tasks : due'[k] \in {due[k], due[k] - 1}
  BY DEF Tick, Typed
<1>3. \A w \in Workers :
        deadline'[w] = IF worker[w] = "timed" /\ deadline[w] > 0
                       THEN deadline[w] - 1 ELSE deadline[w]
  BY DEF Tick
<1>4. ASSUME NEW w \in Workers, NEW k \in tasks, worker[w] = "timed"
      PROVE  deadline'[w] <= due'[k] \/ deadline'[w] = 0
  <2>1. deadline[w] \in Nat /\ due[k] \in Int
    BY DEF Typed
  <2>2. deadline[w] <= due[k] \/ deadline[w] = 0
    BY <1>4 DEF NoOversleep
  <2> QED
    BY <1>2, <1>3, <1>4, <2>1, <2>2
<1> QED
  BY <1>1, <1>4 DEF NoOversleep, IsClear

LEMMA SleeperStep ==
  ASSUME Typed, Counted, OneHolder, NoOversleep, [Next]_vars
  PROVE  NoOversleep'
<1>1. ASSUME NEW k \in Tasks, NEW d \in DelaysOf(k), Schedule(k, d)
      PROVE  NoOversleep'
  BY <1>1, ScheduleSleepers
<1>2. ASSUME NEW w \in Workers, Sleep(w)
      PROVE  NoOversleep'
  <2>1. /\ SectionOf(w, "asleep", 0) /\ deadline' = [deadline EXCEPT ![w] = 0]
        /\ tasks' = tasks /\ tasks = {}
    BY <1>2, SectionThreads DEF Sleep, States, Idle
  <2> QED
    BY <2>1, SectionSleepers
<1>3. ASSUME NEW w \in Workers, SleepUntilDue(w)
      PROVE  NoOversleep'
  <2>1. SectionOf(w, "timed", 0) /\ tasks' = tasks
    BY <1>3, SectionThreads DEF SleepUntilDue, States
  <2>2. PICK k \in tasks : First(k) /\ due[k] > 0 /\ deadline' = [deadline EXCEPT ![w] = due[k]]
    BY <1>3 DEF SleepUntilDue
  <2>3. due[k] \in Nat /\ \A j \in tasks : due[k] <= due[j]
    BY <2>2 DEF Typed, First
  <2>4. PICK d \in Nat : /\ deadline' = [deadline EXCEPT ![w] = d]
                         /\ \A j \in tasks : d <= due[j]
    BY <2>2, <2>3
  <2> DEFINE state == "timed"
  <2>5. /\ SectionOf(w, state, 0) /\ 0 \in {0, 1} /\ tasks' \subseteq tasks
        /\ state = "asleep" => tasks = {}
        /\ state = "timed" => \A j \in tasks : d <= due[j]
    BY <2>1, <2>4
  <2> HIDE DEF state
  <2> QED
    BY <2>1, <2>4, <2>5, SectionSleepers, Zenon
<1>4. ASSUME NEW w \in Workers, Exit(w)
      PROVE  NoOversleep'
  <2>1. /\ SectionOf(w, "exited", 0) /\ deadline' = [deadline EXCEPT ![w] = 0]
        /\ tasks' = tasks
    BY <1>4, SectionThreads DEF Exit, States
  <2>2. /\ "exited" # "asleep" /\ "exited" # "timed" /\ 0 \in {0, 1} /\ 0 \in Nat
        /\ tasks' \subseteq tasks
    BY <2>1
  <2> QED
    BY <2>1, <2>2, SectionSleepers, Zenon
<1>5. ASSUME NEW w \in Workers, Take(w)
      PROVE  NoOversleep'
  <2>1. /\ SectionOf(w, "popped", 1) /\ deadline' = [deadline EXCEPT ![w] = 0]
        /\ tasks' \subseteq tasks
    BY <1>5, TakeThreads DEF Take, Popped
  <2>2. /\ "popped" # "asleep" /\ "popped" # "timed" /\ 1 \in {0, 1} /\ 0 \in Nat
        /\ 1 # 0
    OBVIOUS
  <2> QED
    BY <2>1, <2>2, SectionSleepers, Zenon
<1>6. ASSUME NEW w \in Workers,
             WakeUp(w) \/ RunTimed(w) \/ RunRecurring(w) \/ CallCopy(w) \/ FuncEnds(w)
      PROVE  NoOversleep'
  <2>1. /\ tasks' = tasks /\ n_running' = n_running /\ due' = due /\ clear' = clear
        /\ deadline' = [deadline EXCEPT ![w] = 0] \/ deadline' = deadline
    BY <1>6 DEF WakeUp, RunTimed, RunRecurring, CallCopy, FuncEnds, scheduler
  <2>2. \E to \in States \ {"asleep", "timed"} : worker' = [worker EXCEPT ![w] = to]
    BY <1>6 DEF WakeUp, RunTimed, RunRecurring, CallCopy, FuncEnds, Moves, States
  <2>3. \A v \in Workers : worker'[v] \in {"asleep", "timed"} =>
                             worker'[v] = worker[v] /\ deadline'[v] = deadline[v]
    BY <2>1, <2>2 DEF Typed
  <2> QED
    BY <2>1, <2>3, FewerSleepers
<1>7. ASSUME NEW w \in Workers, Reschedule(w)
      PROVE  NoOversleep'
  BY <1>7, RescheduleSleepers
<1>8. ASSUME NEW k \in Tasks, Cancel(k)
      PROVE  NoOversleep'
  BY <1>8, FewerSleepers DEF Cancel, scheduler, threads
<1>9. ASSUME NEW t \in ClearWaiters, CallWaitTillClear(t)
      PROVE  NoOversleep'
  <2>1. \A u \in ClearWaiters : clear'[u] = "asleep" => clear[u] = "asleep"
    BY <1>9 DEF CallWaitTillClear, Typed
  <2> QED
    BY <1>9, <2>1, FewerSleepers DEF CallWaitTillClear, scheduler
<1>10. ASSUME NEW t \in ClearWaiters, ClearStep(t)
       PROVE  NoOversleep'
  <2>1. /\ tasks' = tasks /\ n_running' = n_running /\ due' = due
        /\ worker' = worker /\ deadline' = deadline
    BY <1>10 DEF ClearStep, scheduler
  <2>2. \A u \in ClearWaiters : IsClear /\ clear'[u] = "asleep" => clear[u] = "asleep"
    BY <1>10 DEF ClearStep, Typed
  <2> QED
    BY <2>1, <2>2 DEF NoOversleep, IsClear
<1>11. CASE CancelAll
  <2>1. /\ \A w \in Workers : worker'[w] \notin {"asleep", "timed"}
        /\ \A t \in ClearWaiters : clear'[t] # "asleep"
    BY <1>11, WokenWorkers, WokenClear DEF CancelAll, Typed
  <2> QED
    BY <2>1, NoSleepers
<1>12. CASE Destroy
  BY <1>12, FewerSleepers DEF Destroy, threads
<1>13. CASE Tick
  BY <1>13, TickSleepers
<1>14. CASE UNCHANGED vars
  BY <1>14, FewerSleepers DEF vars, scheduler, threads
<1> QED
  BY <1>1, <1>2, <1>3, <1>4, <1>5, <1>6, <1>7, <1>8, <1>9, <1>10, <1>11, <1>12, <1>13, <1>14
  DEF Next, SectionStep, RunStep, TimeOut, DestroyCancels

\* A worker asleep without a timeout has nothing to do, one with a timeout wakes
\* no later than the first task, and no WaitTillClear sleeps while the scheduler
\* is clear (notify_all at every change, TaskRunnerThread, ScheduleTask).
THEOREM SleepersCorrect == Safety => []NoOversleep
<1>1. Init => Typed /\ Counted /\ OneHolder /\ NoOversleep
  <2> SUFFICES ASSUME Init PROVE OneHolder /\ NoOversleep
    BY TypedInit
  <2>1. Busy = {}
    BY DEF Init, Busy
  <2> QED
    BY <2>1 DEF OneHolder, NoOversleep, Init
<1>2. Typed /\ Counted /\ OneHolder /\ NoOversleep /\ [Next]_vars
        => (Typed /\ Counted /\ OneHolder /\ NoOversleep)'
  BY TypedStep, CountedStep, HolderStep, SleeperStep
<1> QED
  BY <1>1, <1>2, PTL DEF Safety

(***************************************************************************)
(* Cancel.  The call of a copied function is the only one that may begin   *)
(* after Cancel has returned, and there is one copy at a time.             *)
(***************************************************************************)
NoStartAfterCancel ==
  \A k \in Tasks :
    /\ late[k] <= IF k \in Recurring THEN 1 ELSE 0
    /\ func[k] => late[k] = 0
    /\ \A w \in Workers : worker[w] = "copied" /\ job[w] = k => k \in Recurring /\ late[k] = 0

\* No function starts and none is copied.
LEMMA NoStart ==
  ASSUME NoStartAfterCancel, late' = late,
         \A k \in Tasks : func'[k] => func[k],
         \A w \in Workers : worker'[w] = "copied" => worker[w] = "copied" /\ job'[w] = job[w]
  PROVE  NoStartAfterCancel'
BY DEF NoStartAfterCancel

LEMMA SectionStarts ==
  ASSUME Typed, NoStartAfterCancel, NEW w \in Workers, NEW state, NEW runs,
         SectionOf(w, state, runs), state # "copied", NEW j, job' = [job EXCEPT ![w] = j]
  PROVE  NoStartAfterCancel'
<1>1. late' = late /\ func' = func
  BY DEF SectionOf
<1>2. \A v \in Workers : worker'[v] = "copied" => worker[v] = "copied" /\ job'[v] = job[v]
  BY DEF SectionOf, WithJob, Typed
<1> QED
  BY <1>1, <1>2, NoStart

LEMMA RunTimedStarts ==
  ASSUME Typed, NoStartAfterCancel, NEW w \in Workers, RunTimed(w)
  PROVE  NoStartAfterCancel'
<1>1. job[w] \in Tasks /\ job' = job /\ func' = func
  BY DEF RunTimed, Tasks
<1>2. \A v \in Workers : worker'[v] = "copied" => worker[v] = "copied"
  BY DEF RunTimed, Moves, Typed
<1>3. late' = late
  <2>1. CASE func[job[w]] /\ StartFunc(job[w])
    <3>1. late[job[w]] \in Nat
      BY <1>1 DEF Typed
    <3> QED
      BY <1>1, <2>1, <3>1 DEF StartFunc, Typed
  <2> QED
    BY <2>1 DEF RunTimed, HasFunc
<1> QED
  BY <1>1, <1>2, <1>3, NoStart

LEMMA RunRecurringStarts ==
  ASSUME Typed, NoStartAfterCancel, NEW w \in Workers, RunRecurring(w)
  PROVE  NoStartAfterCancel'
<1>1. job[w] \in Recurring /\ job' = job /\ func' = func /\ late' = late
  BY DEF RunRecurring
<1>2. \A v \in Workers \ {w} : worker'[v] = worker[v]
  BY DEF RunRecurring, Moves, Typed
<1>3. worker'[w] = "copied" => func[job[w]]
  BY DEF RunRecurring, Moves, Typed, HasFunc
<1>4. ASSUME NEW k \in Tasks, NEW v \in Workers, worker'[v] = "copied", job'[v] = k
      PROVE  k \in Recurring /\ late'[k] = 0
  BY <1>1, <1>2, <1>3, <1>4 DEF NoStartAfterCancel
<1> QED
  BY <1>1, <1>4 DEF NoStartAfterCancel

LEMMA CallCopyStarts ==
  ASSUME Typed, OneHolder, NoStartAfterCancel, NEW w \in Workers, CallCopy(w)
  PROVE  NoStartAfterCancel'
<1>1. worker[w] = "copied" /\ job' = job /\ func' = func /\ StartFunc(job[w])
  BY DEF CallCopy, Moves
<1>2. job[w] \in Tasks /\ w \in Busy
  BY <1>1 DEF Typed, Busy, WithJob
<1>3. worker'[w] = "in_func" /\ \A v \in Workers \ {w} : worker'[v] = worker[v]
  BY DEF CallCopy, Moves, Typed
<1>4. /\ late'[job[w]] = late[job[w]] + IF func[job[w]] THEN 0 ELSE 1
      /\ \A k \in Tasks \ {job[w]} : late'[k] = late[k]
  BY <1>1, <1>2, StartFuncTyped
<1>5. job[w] \in Recurring /\ late[job[w]] = 0
  BY <1>1, <1>2 DEF NoStartAfterCancel
<1>6. \A v \in Workers : worker'[v] = "copied" => worker[v] = "copied" /\ job[v] # job[w]
  <2>1. ASSUME NEW v \in Workers, worker'[v] = "copied"
        PROVE  worker[v] = "copied" /\ job[v] # job[w]
    <3>1. v # w /\ worker[v] = "copied"
      BY <1>3, <2>1
    <3>2. v \in Busy
      BY <3>1 DEF Typed, Busy, WithJob
    <3> QED
      BY <1>1, <1>2, <3>1, <3>2 DEF OneHolder
  <2> QED
    BY <2>1
<1>7. ASSUME NEW k \in Tasks
      PROVE  /\ late'[k] <= IF k \in Recurring THEN 1 ELSE 0
             /\ func'[k] => late'[k] = 0
  BY <1>1, <1>4, <1>5 DEF NoStartAfterCancel
<1>8. ASSUME NEW k \in Tasks, NEW v \in Workers, worker'[v] = "copied", job'[v] = k
      PROVE  k \in Recurring /\ late'[k] = 0
  BY <1>1, <1>4, <1>6, <1>8 DEF NoStartAfterCancel
<1> QED
  BY <1>7, <1>8 DEF NoStartAfterCancel

LEMMA StartStep ==
  ASSUME Typed, Counted, OneHolder, NoStartAfterCancel, [Next]_vars
  PROVE  NoStartAfterCancel'
<1>1. ASSUME NEW k \in Tasks, NEW d \in DelaysOf(k), Schedule(k, d)
      PROVE  NoStartAfterCancel'
  <2>1. /\ ScheduleTask(k, worker) /\ late' = late /\ func' = func /\ job' = job
    BY <1>1 DEF Schedule
  <2>2. \A w \in Workers : worker'[w] \in WithJob => worker'[w] = worker[w]
    BY <2>1, ScheduleTaskThreads DEF Typed
  <2>3. \A w \in Workers : worker'[w] = "copied" => worker[w] = "copied"
    BY <2>2 DEF WithJob
  <2> QED
    BY <2>1, <2>3, NoStart
<1>2. ASSUME NEW w \in Workers, Sleep(w)
      PROVE  NoStartAfterCancel'
  <2>1. SectionOf(w, "asleep", 0) /\ job' = [job EXCEPT ![w] = NoTask]
    BY <1>2, SectionThreads DEF Sleep, States
  <2> QED
    BY <2>1, SectionStarts
<1>3. ASSUME NEW w \in Workers, SleepUntilDue(w)
      PROVE  NoStartAfterCancel'
  <2>1. SectionOf(w, "timed", 0) /\ job' = [job EXCEPT ![w] = NoTask]
    BY <1>3, SectionThreads DEF SleepUntilDue, States
  <2> QED
    BY <2>1, SectionStarts
<1>4. ASSUME NEW w \in Workers, Exit(w)
      PROVE  NoStartAfterCancel'
  <2>1. SectionOf(w, "exited", 0) /\ job' = [job EXCEPT ![w] = NoTask]
    BY <1>4, SectionThreads DEF Exit, States
  <2> QED
    BY <2>1, SectionStarts
<1>5. ASSUME NEW w \in Workers, Take(w)
      PROVE  NoStartAfterCancel'
  <2>1. PICK k \in tasks : job' = [job EXCEPT ![w] = k]
    BY <1>5 DEF Take
  <2> QED
    BY <1>5, <2>1, TakeThreads, SectionStarts
<1>6. ASSUME NEW w \in Workers, WakeUp(w) \/ FuncEnds(w)
      PROVE  NoStartAfterCancel'
  <2>1. late' = late /\ func' = func /\ job' = job
    BY <1>6 DEF WakeUp, FuncEnds
  <2>2. \E to \in {"awake", "ran", "finish"} : worker' = [worker EXCEPT ![w] = to]
    BY <1>6 DEF WakeUp, FuncEnds, Moves
  <2>3. \A v \in Workers : worker'[v] = "copied" => worker[v] = "copied"
    BY <2>2 DEF Typed
  <2> QED
    BY <2>1, <2>3, NoStart
<1>7. ASSUME NEW w \in Workers, Reschedule(w)
      PROVE  NoStartAfterCancel'
  <2> DEFINE before == [worker EXCEPT ![w] = "finish"]
  <2>1. /\ worker[w] = "ran" /\ ScheduleTask(job[w], before)
        /\ late' = late /\ func' = func /\ job' = job
    BY <1>7 DEF Reschedule
  <2>2. /\ before \in [Workers -> States]
        /\ \A v \in Workers : before[v] = "none" <=> worker[v] = "none"
        /\ \A v \in Workers : before[v] = "copied" => worker[v] = "copied"
    BY <2>1 DEF Typed, States
  <2> HIDE DEF before
  <2>3. \A v \in Workers : worker'[v] \in WithJob => worker'[v] = before[v]
    BY <2>1, <2>2, ScheduleTaskThreads
  <2>4. \A v \in Workers : worker'[v] = "copied" => worker[v] = "copied"
    BY <2>2, <2>3 DEF WithJob
  <2> QED
    BY <2>1, <2>4, NoStart
<1>8. ASSUME NEW k \in Tasks, Cancel(k)
      PROVE  NoStartAfterCancel'
  <2>1. \A j \in Tasks : func'[j] => func[j]
    BY <1>8 DEF Cancel, Typed
  <2> QED
    BY <1>8, <2>1, NoStart DEF Cancel, threads
<1>9. ASSUME NEW t \in ClearWaiters, CallWaitTillClear(t) \/ ClearStep(t)
      PROVE  NoStartAfterCancel'
  BY <1>9, NoStart DEF CallWaitTillClear, ClearStep
<1>10. CASE CancelAll
  <2>1. \A v \in Workers : worker'[v] = "copied" => worker[v] = "copied"
    BY <1>10, WokenWorkers DEF CancelAll, Typed
  <2> QED
    BY <1>10, <2>1, NoStart DEF CancelAll
<1>11. CASE Destroy
  BY <1>11, NoStart DEF Destroy, threads
<1>12. CASE Tick \/ UNCHANGED vars
  BY <1>12, NoStart DEF Tick, vars, threads
<1> QED
  BY <1>1, <1>2, <1>3, <1>4, <1>5, <1>6, <1>7, <1>8, <1>9, <1>10, <1>11, <1>12,
     RunTimedStarts, RunRecurringStarts, CallCopyStarts
  DEF Next, SectionStep, RunStep, TimeOut, DestroyCancels

\* Once Cancel has returned, a TimedTask never starts and a RecurringTask at
\* most once more, however often it was scheduled (Cancel, Run).
THEOREM CancelCorrect == Safety => []CancelHolds
<1>1. Init => Typed /\ Counted /\ OneHolder /\ NoStartAfterCancel
  <2> SUFFICES ASSUME Init PROVE OneHolder /\ NoStartAfterCancel
    BY TypedInit
  <2>1. Busy = {}
    BY DEF Init, Busy
  <2>2. NoStartAfterCancel
    <3>1. \A w \in Workers : worker[w] # "copied"
      BY DEF Init
    <3>2. \A k \in Tasks : late[k] = 0
      BY DEF Init
    <3> QED
      BY <3>1, <3>2 DEF NoStartAfterCancel
  <2> QED
    BY <2>1, <2>2 DEF OneHolder
<1>2. Typed /\ Counted /\ OneHolder /\ NoStartAfterCancel /\ [Next]_vars
        => (Typed /\ Counted /\ OneHolder /\ NoStartAfterCancel)'
  BY TypedStep, CountedStep, HolderStep, StartStep
<1>3. NoStartAfterCancel => CancelHolds
  BY DEF NoStartAfterCancel, CancelHolds
<1> QED
  BY <1>1, <1>2, <1>3, PTL DEF Safety

(***************************************************************************)
(* WaitTillClear.                                                          *)
(***************************************************************************)
LEMMA ClearReturns ==
  ASSUME Typed, Counted, [Next]_vars, NEW t \in ClearWaiters,
         clear[t] # "idle", clear'[t] = "idle"
  PROVE  IsClear
<1> SUFFICES ASSUME ~IsClear PROVE clear'[t] = "idle" <=> clear[t] = "idle"
  OBVIOUS
<1>1. ASSUME NEW k \in Tasks, NEW d \in DelaysOf(k), Schedule(k, d)
      PROVE  clear'[t] = "idle" <=> clear[t] = "idle"
  BY <1>1, ScheduleTaskThreads DEF Schedule, Typed
<1>2. ASSUME NEW w \in Workers, NEW state, NEW runs, SectionOf(w, state, runs)
      PROVE  clear'[t] = "idle" <=> clear[t] = "idle"
  BY <1>2 DEF SectionOf
<1>3. ASSUME NEW w \in Workers, Sleep(w) \/ SleepUntilDue(w) \/ Exit(w) \/ Take(w)
      PROVE  clear'[t] = "idle" <=> clear[t] = "idle"
  <2>1. \E state, runs : SectionOf(w, state, runs)
    BY <1>3, SectionThreads, TakeThreads DEF Sleep, SleepUntilDue, Exit, States
  <2> QED
    BY <1>2, <2>1
<1>4. ASSUME NEW w \in Workers,
             WakeUp(w) \/ RunTimed(w) \/ RunRecurring(w) \/ CallCopy(w) \/ FuncEnds(w)
      PROVE  clear'[t] = "idle" <=> clear[t] = "idle"
  BY <1>4 DEF WakeUp, RunTimed, RunRecurring, CallCopy, FuncEnds
<1>5. ASSUME NEW w \in Workers, Reschedule(w)
      PROVE  clear'[t] = "idle" <=> clear[t] = "idle"
  <2> DEFINE before == [worker EXCEPT ![w] = "finish"]
  <2>1. worker[w] = "ran" /\ ScheduleTask(job[w], before)
    BY <1>5 DEF Reschedule
  <2>2. /\ before \in [Workers -> States]
        /\ \A v \in Workers : before[v] = "none" <=> worker[v] = "none"
    BY <2>1 DEF Typed, States
  <2> HIDE DEF before
  <2> QED
    BY <2>1, <2>2, ScheduleTaskThreads
<1>6. ASSUME NEW k \in Tasks, Cancel(k)
      PROVE  clear'[t] = "idle" <=> clear[t] = "idle"
  BY <1>6 DEF Cancel, threads
<1>7. ASSUME NEW u \in ClearWaiters, CallWaitTillClear(u) \/ ClearStep(u)
      PROVE  clear'[t] = "idle" <=> clear[t] = "idle"
  BY <1>7 DEF CallWaitTillClear, ClearStep, Typed
<1>8. CASE CancelAll
  BY <1>8, WokenClear DEF CancelAll, Typed
<1>9. CASE Destroy \/ Tick \/ UNCHANGED vars
  BY <1>9 DEF Destroy, Tick, vars, threads
<1> QED
  BY <1>1, <1>3, <1>4, <1>5, <1>6, <1>7, <1>8, <1>9
  DEF Next, SectionStep, RunStep, TimeOut, DestroyCancels

\* WaitTillClear returns only when no task is queued and none is in the hands of
\* a worker, a recurring one between its run and its next turn included.
THEOREM ClearCorrect == Safety => ClearMeansIdle
<1>1. Init => Typed /\ Counted
  BY TypedInit
<1>2. Typed /\ Counted /\ [Next]_vars => (Typed /\ Counted)'
  BY TypedStep, CountedStep
<1>3. Typed /\ Counted /\ [Next]_vars =>
        [\A t \in ClearWaiters :
           clear[t] # "idle" /\ clear'[t] = "idle" => \A k \in created : Over(k)]_vars
  <2> SUFFICES ASSUME Typed, Counted, [Next]_vars, NEW t \in ClearWaiters,
                      clear[t] # "idle", clear'[t] = "idle"
               PROVE  \A k \in created : Over(k)
    OBVIOUS
  <2>1. n_running = 0 /\ tasks = {}
    BY ClearReturns DEF IsClear
  <2>2. Running = {}
    BY <2>1, RunningNat DEF Running
  <2> QED
    BY <2>1, <2>2 DEF Over
<1> QED
  BY <1>1, <1>2, <1>3, PTL DEF Safety, ClearMeansIdle
=============================================================================
