----------------------------- MODULE ThreadPool -----------------------------
(***************************************************************************)
(* ThreadPool of fma-common/thread_pool.h: worker threads, a priority      *)
(* queue of tasks, one mutex and one condition variable cv_.  This module  *)
(* holds the pool's state and operations; the modules that use a pool add  *)
(* the threads that push tasks and what a task does.                       *)
(***************************************************************************)
EXTENDS Integers, FiniteSets

CONSTANTS Workers, Funcs, Free, Exited

ASSUME PoolAssumption ==
  /\ IsFiniteSet(Workers) /\ Workers # {}
  /\ {Free, Exited} \cap Funcs = {} /\ Free # Exited

VARIABLES
  tasks,      \* queue_: the tasks not yet taken, [priority, seq_num, func]
  stopping,   \* stopping_
  pool_cv,    \* the workers blocked in cv_.wait
  worker      \* worker[w]: the task w runs, Free between tasks, Exited

poolVars == <<tasks, stopping, pool_cv, worker>>

PriorityTask == [priority : Int, seq_num : Nat, func : Funcs]

\* Lower priority values first, then lower sequence numbers (operator<).
\* Mutant: the sequence number is ignored.
Before_PriorityOnly(a, b) == a.priority < b.priority
Before(a, b) ==
  \/ a.priority < b.priority
  \/ a.priority = b.priority /\ a.seq_num < b.seq_num

Running == {w \in Workers : worker[w] \in Funcs}
\* Workers about to take the mutex.
AwakeWorkers == {w \in Workers : worker[w] = Free} \ pool_cv

PoolInit ==
  /\ tasks = {}
  /\ stopping = FALSE
  /\ pool_cv = {}
  /\ worker = [w \in Workers |-> Free]

\* Mutant: a worker leaves as soon as the pool stops, whatever is queued.
MayExit_Hasty == stopping
\* Mutant: a worker leaves when there is nothing to do.
MayExit_WhenIdle == tasks = {}
MayExit == stopping /\ tasks = {}

WorkerWait(w) ==
  /\ w \in AwakeWorkers
  /\ tasks = {} /\ ~stopping
  /\ pool_cv' = pool_cv \cup {w}
  /\ UNCHANGED <<tasks, stopping, worker>>

WorkerTake(w) ==
  /\ w \in AwakeWorkers
  /\ ~MayExit
  /\ \E top \in tasks :
       /\ \A other \in tasks : ~Before(other, top)
       /\ tasks' = tasks \ {top}
       /\ worker' = [worker EXCEPT ![w] = top.func]
  /\ UNCHANGED <<stopping, pool_cv>>

WorkerExit(w) ==
  /\ w \in AwakeWorkers
  /\ MayExit
  /\ worker' = [worker EXCEPT ![w] = Exited]
  /\ UNCHANGED <<tasks, stopping, pool_cv>>

WorkerStep(w) == WorkerWait(w) \/ WorkerTake(w) \/ WorkerExit(w)

WorkerSpuriousWakeup(w) ==
  /\ w \in pool_cv
  /\ pool_cv' = pool_cv \ {w}
  /\ UNCHANGED <<tasks, stopping, worker>>

\* The task w runs returns.
TaskReturns(w) == w \in Running /\ worker' = [worker EXCEPT ![w] = Free]

\* Mutant: PushTask wakes nobody.
WakeWorkers_Forgotten(new) == {pool_cv}
\* One notify_one for each task: as many waiters leave, while there are any.
WakeWorkers(new) ==
  {cv \in SUBSET pool_cv :
     \/ cv = {} /\ Cardinality(pool_cv) <= Cardinality(new)
     \/ Cardinality(pool_cv \ cv) = Cardinality(new)}

\* PushTask, once for every member of new.
PushTasks(new) ==
  /\ tasks' = tasks \cup new
  /\ pool_cv' \in WakeWorkers(new)

\* Mutant: the destructor notifies one worker only.
StopWakes_OneWorker == IF pool_cv = {} THEN {{}} ELSE {pool_cv \ {w} : w \in pool_cv}
StopWakes == {{}}

\* ~ThreadPool up to the joins.
PoolStop ==
  /\ stopping' = TRUE
  /\ pool_cv' \in StopWakes
  /\ UNCHANGED <<tasks, worker>>

\* Every join has returned: the destructor is done.
PoolGone == stopping /\ \A w \in Workers : worker[w] = Exited

PoolTypeOK ==
  /\ tasks \subseteq PriorityTask
  /\ stopping \in BOOLEAN
  /\ worker \in [Workers -> Funcs \cup {Free, Exited}]
  /\ pool_cv \subseteq {w \in Workers : worker[w] = Free}
  /\ ~stopping => \A w \in Workers : worker[w] # Exited

\* PushTask wakes a single worker: while a worker sleeps there are enough
\* awake workers for all queued tasks, and nobody sleeps in a stopped pool.
PoolNoLostWakeup ==
  /\ pool_cv # {} => Cardinality(AwakeWorkers) >= Cardinality(tasks)
  /\ stopping => pool_cv = {}
=============================================================================
