------------------------------ MODULE TimedTask ------------------------------
(***************************************************************************)
(* TimedTaskScheduler, TimedTask and RecurringTask of                      *)
(* fma-common/timed_task.h: worker threads that run tasks when they fall   *)
(* due, one scheduler mutex, and one condition variable cond_ on which     *)
(* idle workers (some with a timeout) and WaitTillClear callers all wait.  *)
(* A critical section of the scheduler is one step; so is a section under  *)
(* a task's own mutex, except TimedTask::Run, which keeps it while the     *)
(* task's function runs.                                                   *)
(*                                                                         *)
(* Times are relative to the present: due[k] counts down to the scheduled  *)
(* time of k and below it, deadline[w] to the end of w's wait_for.         *)
(***************************************************************************)
EXTENDS Integers, FiniteSets

CONSTANTS
  OneShot, Recurring,  \* the TimedTasks and the RecurringTasks
  Parent,     \* Parent[k]: the task whose function schedules k, or NoTask if others do
  Needs,      \* Needs[k]: the tasks k's function waits for
  Delays,     \* the delays given to RunAfterDuration and RunAtTimePoint
  Interval,   \* interval_ of the recurring tasks
  MaxLag,     \* bound: a task that is later than this counts as this late
  ClearWaiters,  \* threads that call WaitTillClear
  MaxWorkers, \* bound on workers_: a task that calls for more is scheduled a little later
  NoTask

Tasks == OneShot \cup Recurring
Workers == 1 .. MaxWorkers

ASSUME SchedulerAssumption ==
  /\ OneShot \cap Recurring = {} /\ NoTask \notin Tasks /\ IsFiniteSet(Tasks)
  /\ Parent \in [Tasks -> Tasks \cup {NoTask}] /\ Needs \in [Tasks -> SUBSET Tasks]
  /\ Delays \subseteq Nat /\ Interval \in Nat \ {0} /\ MaxLag \in Nat
  /\ MaxWorkers \in Nat \ {0}

VARIABLES
  tasks,      \* tasks_
  n_running,  \* n_running_
  exit_flag,  \* exit_flag_
  n_workers,  \* workers_.size()
  worker,     \* worker[w]: where worker w is
  job,        \* job[w]: the task w has popped
  deadline,   \* deadline[w]: time left to a worker in wait_for
  due,        \* due[k]: time left to tp_
  func,       \* func[k]: func_ is set
  executed,   \* executed_
  clear,      \* clear[t]: "idle", or "awake" or "asleep" in WaitTillClear
  joining,    \* the destructor has notified everybody and joins
  created,    \* history: the tasks given to ScheduleTask so far
  late        \* history: late[k] counts the starts of k after Cancel returned

scheduler == <<tasks, n_running, exit_flag, n_workers>>
threads == <<worker, job, deadline, clear>>
vars == <<scheduler, threads, due, func, executed, joining, created, late>>

Init ==
  /\ tasks = {} /\ n_running = 0 /\ exit_flag = FALSE /\ n_workers = 1
  /\ worker = [w \in Workers |-> IF w = 1 THEN "awake" ELSE "none"]
  /\ job = [w \in Workers |-> NoTask]
  /\ deadline = [w \in Workers |-> 0]
  /\ due = [k \in Tasks |-> 0]
  /\ func = [k \in Tasks |-> TRUE] /\ executed = [k \in Tasks |-> FALSE]
  /\ clear = [t \in ClearWaiters |-> "idle"]
  /\ joining = FALSE /\ created = {} /\ late = [k \in Tasks |-> 0]

\* cond_.notify_all()
Woken(threadState) ==
  [t \in DOMAIN threadState |->
     IF threadState[t] \in {"asleep", "timed"} THEN "awake" ELSE threadState[t]]

Busy == {w \in Workers : job[w] # NoTask}
Running == {job[w] : w \in Busy}
InFunc(k) == \E w \in Busy : worker[w] = "in_func" /\ job[w] = k

(***************************************************************************)
(* ScheduleTask                                                            *)
(***************************************************************************)
\* Mutants: workers are never added; one waiter is woken, whoever it is.
MustSpawn_Never == FALSE
MustSpawn == n_running >= n_workers

ScheduleWakes_One(st) ==
  LET sleepers == {t \in DOMAIN st : st[t] \in {"asleep", "timed"}} IN
  IF sleepers = {} THEN st ELSE [st EXCEPT ![CHOOSE t \in sleepers : TRUE] = "awake"]
ScheduleWakes(st) == Woken(st)

\* before: the worker states as this step leaves them otherwise.
ScheduleTask(k, before) ==
  \/ exit_flag /\ worker' = before /\ UNCHANGED <<tasks, n_workers, clear>>
  \/ /\ ~exit_flag
     /\ tasks' = tasks \cup {k}
     /\ clear' = Woken(clear)
     /\ LET woken == ScheduleWakes(before) IN
        IF MustSpawn
        THEN /\ n_workers < MaxWorkers /\ n_workers' = n_workers + 1
             /\ worker' = [woken EXCEPT ![n_workers + 1] = "awake"]
        ELSE n_workers' = n_workers /\ worker' = woken

\* RunAfterDuration, RunAtTimePoint, ScheduleReccurringTask: from outside before
\* the scheduler is destroyed, or from inside the parent's function.
DelaysOf(k) == IF k \in Recurring THEN {0} ELSE Delays

Schedule(k, delay) ==
  /\ k \notin created
  /\ IF Parent[k] = NoTask THEN ~exit_flag ELSE InFunc(Parent[k])
  /\ due' = [due EXCEPT ![k] = delay]
  /\ ScheduleTask(k, worker)
  /\ created' = created \cup {k}
  /\ UNCHANGED <<n_running, exit_flag, job, deadline, func, executed, joining, late>>

(***************************************************************************)
(* TaskRunnerThread: the critical section between two runs.  A worker that *)
(* has run a task enters it with the count of running tasks to lower.      *)
(***************************************************************************)
First(k) == k \in tasks /\ \A j \in tasks : due[k] <= due[j]

\* Mutants: the wait ignores exit_flag_; the first task is looked at and not
\* popped.
OneRunLess == n_running - 1

Idle_IgnoresExit == tasks = {}
Idle == tasks = {} /\ ~exit_flag

Popped_Peeked(k) == tasks
Popped(k) == tasks \ {k}

\* Others wake up when a run has ended.
AfterRun(w) ==
  /\ worker[w] = "finish"
  /\ n_running' = OneRunLess
  /\ clear' = Woken(clear)
AfterWait(w) == worker[w] = "awake" /\ UNCHANGED <<n_running, clear>>

Section(w, state) ==
  /\ AfterRun(w) \/ AfterWait(w)
  /\ worker' = [(IF worker[w] = "finish" THEN Woken(worker) ELSE worker) EXCEPT ![w] = state]
  /\ UNCHANGED <<exit_flag, n_workers, due, func, executed, joining, created, late>>

Sleep(w) ==
  /\ Idle
  /\ Section(w, "asleep")
  /\ job' = [job EXCEPT ![w] = NoTask]
  /\ deadline' = [deadline EXCEPT ![w] = 0]
  /\ UNCHANGED tasks

SleepUntilDue(w) ==
  /\ ~exit_flag
  /\ \E k \in tasks : First(k) /\ due[k] > 0 /\ deadline' = [deadline EXCEPT ![w] = due[k]]
  /\ Section(w, "timed")
  /\ job' = [job EXCEPT ![w] = NoTask]
  /\ UNCHANGED tasks

Exit(w) ==
  /\ exit_flag
  /\ Section(w, "exited")
  /\ job' = [job EXCEPT ![w] = NoTask]
  /\ deadline' = [deadline EXCEPT ![w] = 0]
  /\ UNCHANGED tasks

\* After another run n_running_ goes down and up again.
Take(w) ==
  /\ ~exit_flag
  /\ \E k \in tasks : /\ First(k) /\ due[k] <= 0
                      /\ tasks' = Popped(k)
                      /\ job' = [job EXCEPT ![w] = k]
  /\ \/ /\ worker[w] = "finish"
        /\ worker' = [Woken(worker) EXCEPT ![w] = "popped"]
        /\ clear' = Woken(clear)
        /\ UNCHANGED n_running
     \/ /\ worker[w] = "awake"
        /\ worker' = [worker EXCEPT ![w] = "popped"]
        /\ n_running' = n_running + 1
        /\ UNCHANGED clear
  /\ deadline' = [deadline EXCEPT ![w] = 0]
  /\ UNCHANGED <<exit_flag, n_workers, due, func, executed, joining, created, late>>

\* The end of wait_for; any wait may also end for no reason.
WakeUp(w) ==
  /\ worker[w] \in {"asleep", "timed"}
  /\ worker' = [worker EXCEPT ![w] = "awake"]
  /\ deadline' = [deadline EXCEPT ![w] = 0]
  /\ UNCHANGED <<scheduler, job, clear, due, func, executed, joining, created, late>>
TimeOut(w) == worker[w] = "timed" /\ deadline[w] <= 0 /\ WakeUp(w)

(***************************************************************************)
(* TimedTask::Run and RecurringTask::Run                                   *)
(***************************************************************************)
Moves(w, from, to) == worker[w] = from /\ worker' = [worker EXCEPT ![w] = to]

StartFunc(k) == late' = [late EXCEPT ![k] = @ + IF func[k] THEN 0 ELSE 1]

\* Run tests func_ under the task's mutex.  TimedTask keeps the mutex and calls
\* func_; RecurringTask copies func_ and lets go of the mutex before the call.
\* Mutant: func_ is not tested.
HasFunc_Unchecked(k) == TRUE
HasFunc(k) == func[k]

RunTimed(w) ==
  /\ job[w] \in OneShot
  /\ \/ HasFunc(job[w]) /\ Moves(w, "popped", "in_func") /\ StartFunc(job[w]) /\ UNCHANGED executed
     \/ /\ ~HasFunc(job[w]) /\ Moves(w, "popped", "finish")
        /\ executed' = [executed EXCEPT ![job[w]] = TRUE]
        /\ UNCHANGED late
  /\ UNCHANGED <<scheduler, job, deadline, clear, due, func, joining, created>>

RunRecurring(w) ==
  /\ job[w] \in Recurring
  /\ \/ HasFunc(job[w]) /\ Moves(w, "popped", "copied")
     \/ ~HasFunc(job[w]) /\ Moves(w, "popped", "finish")
  /\ UNCHANGED <<scheduler, job, deadline, clear, due, func, executed, joining, created, late>>

CallCopy(w) ==
  /\ Moves(w, "copied", "in_func") /\ StartFunc(job[w])
  /\ UNCHANGED <<scheduler, job, deadline, clear, due, func, executed, joining, created>>

\* k has run, or will not run any more.
Over(k) == k \in created /\ k \notin tasks \cup Running

\* A task's function schedules the tasks it has to, waits for those it needs,
\* and returns or throws.
FuncEnds(w) ==
  /\ worker[w] = "in_func"
  /\ \A k \in Tasks : Parent[k] = job[w] => k \in created
  /\ \A k \in Needs[job[w]] : Over(k)
  /\ \/ job[w] \in OneShot /\ Moves(w, "in_func", "finish")
     \/ job[w] \in Recurring /\ Moves(w, "in_func", "ran")
  /\ \/ job[w] \in OneShot /\ executed' = [executed EXCEPT ![job[w]] = TRUE]
     \/ UNCHANGED executed
  /\ UNCHANGED <<scheduler, job, deadline, clear, due, func, joining, created, late>>

Reschedule(w) ==
  /\ worker[w] = "ran"
  /\ executed' = [executed EXCEPT ![job[w]] = TRUE]
  /\ due' = [due EXCEPT ![job[w]] = @ + Interval]
  /\ ScheduleTask(job[w], [worker EXCEPT ![w] = "finish"])
  /\ UNCHANGED <<n_running, exit_flag, job, deadline, func, joining, created, late>>

(***************************************************************************)
(* Cancel, CancelAll, WaitTillClear and the destructor                     *)
(***************************************************************************)
\* Cancel waits for the task's mutex; a function does not cancel its own task.
Cancel(k) ==
  /\ k \in created /\ func[k]
  /\ ~(k \in OneShot /\ InFunc(k))
  /\ func' = [func EXCEPT ![k] = FALSE]
  /\ UNCHANGED <<scheduler, threads, due, executed, joining, created, late>>

CancelAll ==
  /\ tasks' = {}
  /\ worker' = Woken(worker) /\ clear' = Woken(clear)
  /\ UNCHANGED <<n_running, exit_flag, n_workers, job, deadline, due, func, executed, created,
                 late>>

CallWaitTillClear(t) ==
  /\ clear[t] = "idle" /\ ~exit_flag
  /\ clear' = [clear EXCEPT ![t] = "awake"]
  /\ UNCHANGED <<scheduler, worker, job, deadline, due, func, executed, joining, created, late>>

\* Mutant: the running tasks are not counted.
IsClear_QueueOnly == tasks = {}
IsClear == n_running = 0 /\ tasks = {}

ClearStep(t) ==
  /\ clear[t] = "awake"
  /\ clear' = [clear EXCEPT ![t] = IF IsClear THEN "idle" ELSE "asleep"]
  /\ UNCHANGED <<scheduler, worker, job, deadline, due, func, executed, joining, created, late>>

\* Nobody may be inside WaitTillClear when the scheduler is destroyed.
Destroy ==
  /\ ~exit_flag /\ \A t \in ClearWaiters : clear[t] = "idle"
  /\ exit_flag' = TRUE
  /\ UNCHANGED <<tasks, n_running, n_workers, threads, due, func, executed, joining, created, late>>

DestroyCancels ==
  /\ exit_flag /\ ~joining /\ joining' = TRUE
  /\ CancelAll

\* Time passes for the tasks in the queue and the recurring tasks being run.
Tick ==
  /\ due' = [k \in Tasks |-> IF k \in tasks \cup (Running \cap Recurring) /\ due[k] > -MaxLag
                            THEN due[k] - 1 ELSE due[k]]
  /\ deadline' = [w \in Workers |-> IF worker[w] = "timed" /\ deadline[w] > 0
                                    THEN deadline[w] - 1 ELSE deadline[w]]
  /\ <<due', deadline'>> # <<due, deadline>>
  /\ UNCHANGED <<scheduler, worker, job, clear, func, executed, joining, created, late>>

SectionStep(w) == Sleep(w) \/ SleepUntilDue(w) \/ Exit(w) \/ Take(w) \/ TimeOut(w)
RunStep(w) == RunTimed(w) \/ RunRecurring(w) \/ CallCopy(w) \/ Reschedule(w)
ParentStep == \E k \in Tasks : Parent[k] # NoTask /\ \E d \in DelaysOf(k) : Schedule(k, d)

Next ==
  \/ \E k \in Tasks : \E d \in DelaysOf(k) : Schedule(k, d)
  \/ \E w \in Workers : SectionStep(w) \/ RunStep(w) \/ FuncEnds(w) \/ WakeUp(w)
  \/ \E k \in Tasks : Cancel(k)
  \/ \E t \in ClearWaiters : CallWaitTillClear(t) \/ ClearStep(t)
  \/ CancelAll /\ ~exit_flag /\ UNCHANGED joining
  \/ Destroy \/ DestroyCancels
  \/ Tick

Safety == Init /\ [][Next]_vars

\* Threads that are not waiting run, time passes, functions return when they
\* can, and a destructor that has begun goes on.  Nothing else has to happen.
Fairness ==
  /\ \A w \in Workers : WF_vars(SectionStep(w)) /\ WF_vars(RunStep(w)) /\ WF_vars(FuncEnds(w))
  /\ \A t \in ClearWaiters : WF_vars(ClearStep(t))
  /\ WF_vars(ParentStep) /\ WF_vars(DestroyCancels) /\ WF_vars(Tick)

Spec == Safety /\ Fairness

-----------------------------------------------------------------------------
TypeOK ==
  /\ tasks \subseteq created /\ created \subseteq Tasks
  /\ n_running = Cardinality(Busy) /\ exit_flag \in BOOLEAN /\ joining \in BOOLEAN
  /\ n_workers \in 1 .. MaxWorkers
  /\ worker \in [Workers -> {"none", "awake", "asleep", "timed", "popped", "copied", "in_func",
                              "ran", "finish", "exited"}]
  /\ \A w \in Workers : worker[w] = "none" <=> w > n_workers
  /\ job \in [Workers -> Tasks \cup {NoTask}]
  /\ \A w \in Workers :
       worker[w] \in {"popped", "copied", "in_func", "ran", "finish"} <=> job[w] # NoTask
  /\ deadline \in [Workers -> Nat]
  /\ due \in [Tasks -> Int]
  /\ func \in [Tasks -> BOOLEAN] /\ executed \in [Tasks -> BOOLEAN]
  /\ clear \in [ClearWaiters -> {"idle", "awake", "asleep"}]
  /\ late \in [Tasks -> Nat]

\* A task is in the queue or run by one worker, never both, so nobody changes
\* tp_ of a task the queue is ordered by and no function runs twice at a time.
OneHolder ==
  /\ \A v, w \in Busy : v # w => job[v] # job[w] \/ worker[v] = "finish" \/ worker[w] = "finish"
  /\ \A w \in Busy : worker[w] # "finish" => job[w] \notin tasks

\* Nobody sleeps through what it waits for, although workers and WaitTillClear
\* callers share cond_: a sleeping worker has nothing to do, or a timeout no
\* later than the first task; a WaitTillClear sleeps only while tasks are left.
NoOversleep ==
  /\ \A w \in Workers, k \in tasks :
       /\ worker[w] # "asleep"
       /\ worker[w] = "timed" => deadline[w] <= due[k] \/ deadline[w] = 0
  /\ IsClear => \A t \in ClearWaiters : clear[t] # "asleep"

\* Once Cancel has returned a TimedTask never starts, and a RecurringTask at
\* most once more: the call for which func_ was already copied.
CancelHolds ==
  \A k \in Tasks : late[k] <= IF k \in Recurring THEN 1 ELSE 0

\* "Wait till all tasks have been run": when WaitTillClear returns, no task is
\* running or will run, a recurring task between two runs included.
ClearMeansIdle ==
  [][\A t \in ClearWaiters :
       clear[t] # "idle" /\ clear'[t] = "idle" => \A k \in created : Over(k)]_vars

\* A scheduled task leaves the queue: it falls due and is run, also while other
\* tasks wait for it inside their functions, or it is discarded.
TasksFallDue == \A k \in Tasks : k \in tasks ~> k \notin tasks

\* A destroyed scheduler joins its workers, and WaitTillClear returns once every
\* recurring task is cancelled.
CallsReturn ==
  /\ exit_flag ~> \A w \in 1 .. n_workers : worker[w] = "exited"
  /\ \A t \in ClearWaiters :
       (clear[t] # "idle" /\ \A k \in Recurring \cap created : ~func[k])
         ~> (clear[t] = "idle" \/ \E k \in Recurring \cap created : func[k])
=============================================================================
