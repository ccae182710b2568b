---------------------------- MODULE ThreadPoolUse ----------------------------
(***************************************************************************)
(* A ThreadPool and its users: threads outside the pool push tasks until   *)
(* the owner destroys the pool, and a running task may push others, also   *)
(* while the destructor waits.                                             *)
(***************************************************************************)
EXTENDS ThreadPool

CONSTANT Keys  \* the <<priority, seq_num>> pairs callers pass to PushTask

ASSUME KeysAssumption == Keys \subseteq Int \X Nat

VARIABLES
  pushed,  \* history: the tasks pushed so far (func -> its PriorityTask)
  ran      \* history: how often each task has returned

useVars == <<tasks, stopping, pool_cv, worker, pushed, ran>>

Pushed == {t.func : t \in pushed}

UseInit ==
  /\ PoolInit
  /\ pushed = {}
  /\ ran = [f \in Funcs |-> 0]

PushTask(f, k) ==
  LET t == [priority |-> k[1], seq_num |-> k[2], func |-> f] IN
  /\ f \notin Pushed
  /\ PushTasks({t})
  /\ pushed' = pushed \cup {t}
  /\ UNCHANGED <<stopping, worker, ran>>

\* Pushing to a pool that is being destroyed is only possible from inside it.
OutsidePush(f, k) == ~stopping /\ PushTask(f, k)
NestedPush(w, f, k) == w \in Running /\ PushTask(f, k)

Return(w) ==
  /\ TaskReturns(w)
  /\ ran' = [ran EXCEPT ![worker[w]] = @ + 1]
  /\ UNCHANGED <<tasks, stopping, pool_cv, pushed>>

Destroy == ~stopping /\ PoolStop /\ UNCHANGED <<pushed, ran>>

UseNext ==
  \/ \E f \in Funcs, k \in Keys : OutsidePush(f, k)
  \/ \E w \in Workers, f \in Funcs, k \in Keys : NestedPush(w, f, k)
  \/ \E w \in Workers : Return(w)
  \/ \E w \in Workers : WorkerStep(w) /\ UNCHANGED <<pushed, ran>>
  \/ \E w \in Workers : WorkerSpuriousWakeup(w) /\ UNCHANGED <<pushed, ran>>
  \/ Destroy

UseSafety == UseInit /\ [][UseNext]_useVars

\* Awake workers are scheduled and tasks return.  Nothing obliges anybody to
\* push or to destroy the pool.
UseFairness ==
  \A w \in Workers : WF_useVars(Return(w)) /\ WF_useVars(WorkerStep(w) /\ UNCHANGED <<pushed, ran>>)

UseSpec == UseSafety /\ UseFairness

-----------------------------------------------------------------------------
UseTypeOK ==
  /\ PoolTypeOK
  /\ pushed \subseteq PriorityTask
  /\ ran \in [Funcs -> Nat]

\* A task is queued, running or has returned: exactly one of them, once, and
\* by the time the destructor returns everything pushed has run, tasks pushed
\* by tasks during the stop included.
EveryTaskOnce ==
  /\ \A f \in Funcs :
       Cardinality({t \in tasks : t.func = f}) + Cardinality({w \in Workers : worker[w] = f})
         + ran[f] = IF f \in Pushed THEN 1 ELSE 0
  /\ PoolGone => \A f \in Pushed : ran[f] = 1

\* No worker starts a task while one of higher priority is queued, and tasks of
\* equal priority start in the order of their sequence numbers.
PriorityOrder ==
  [][\A a, b \in tasks :
       a \notin tasks' /\ b \in tasks' =>
         \/ a.priority < b.priority
         \/ a.priority = b.priority /\ a.seq_num <= b.seq_num]_useVars

\* Every task pushed runs.
TasksRun == \A f \in Funcs : f \in Pushed ~> ran[f] = 1

\* The destructor returns.
DestructorReturns == stopping ~> PoolGone
=============================================================================
