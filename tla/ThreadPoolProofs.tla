-------------------------- MODULE ThreadPoolProofs --------------------------
(***************************************************************************)
(* Proofs about the thread pool with its two users.  ThreadPoolUse, for    *)
(* any workers, tasks and priorities: its types, that no wake-up is lost,  *)
(* and that every task runs at most once and, by the time the pool is      *)
(* gone, exactly once.  PipelineStage, for any inputs, threads, workers    *)
(* and sizes: its types, that tasks and buffer entries belong together, in *)
(* what order and how often outputs are delivered, that Stop is final, and *)
(* what the return of WaitTillClear means.                                 *)
(***************************************************************************)
EXTENDS ThreadPoolUse, PipelineStage, FiniteSetTheorems, SequenceTheorems, TLAPS

(***************************************************************************)
(* Type correctness.                                                       *)
(***************************************************************************)
LEMMA UseTypeInit == UseInit => UseTypeOK
<1> SUFFICES ASSUME UseInit PROVE UseTypeOK
  OBVIOUS
<1>1. PoolTypeOK
  <2>1. /\ tasks = {} /\ stopping = FALSE /\ pool_cv = {}
        /\ worker = [w \in Workers |-> Free]
    BY DEF UseInit, PoolInit
  <2> QED
    BY <2>1, PoolAssumption DEF PoolTypeOK
<1>2. pushed \subseteq PriorityTask /\ ran \in [Funcs -> Nat]
  BY DEF UseInit
<1> QED
  BY <1>1, <1>2 DEF UseTypeOK

LEMMA WakesSome ==
  ASSUME NEW new, NEW cv \in WakeWorkers(new)
  PROVE  cv \subseteq pool_cv
BY DEF WakeWorkers

LEMMA PushTaskTypes ==
  ASSUME UseTypeOK, NEW f \in Funcs, NEW k \in Keys, PushTask(f, k)
  PROVE  UseTypeOK'
<1> DEFINE t == [priority |-> k[1], seq_num |-> k[2], func |-> f]
<1>1. t \in PriorityTask
  BY KeysAssumption DEF PriorityTask
<1>2. /\ tasks' = tasks \cup {t} /\ pushed' = pushed \cup {t}
      /\ pool_cv' \subseteq pool_cv
      /\ UNCHANGED <<stopping, worker, ran>>
  BY WakesSome DEF PushTask, PushTasks
<1> HIDE DEF t
<1> QED
  BY <1>1, <1>2 DEF UseTypeOK, PoolTypeOK

LEMMA UseTypeStep == UseTypeOK /\ [UseNext]_useVars => UseTypeOK'
<1> SUFFICES ASSUME UseTypeOK, [UseNext]_useVars PROVE UseTypeOK'
  OBVIOUS
<1> USE PoolAssumption DEF UseTypeOK, PoolTypeOK
<1>1. ASSUME NEW f \in Funcs, NEW k \in Keys, PushTask(f, k)
      PROVE  UseTypeOK'
  BY <1>1, PushTaskTypes
<1>2. ASSUME NEW w \in Workers, Return(w)
      PROVE  UseTypeOK'
  BY <1>2 DEF Return, TaskReturns, Running
<1>3. ASSUME NEW w \in Workers, WorkerWait(w), UNCHANGED <<pushed, ran>>
      PROVE  UseTypeOK'
  BY <1>3 DEF WorkerWait, AwakeWorkers
<1>4. ASSUME NEW w \in Workers, WorkerTake(w), UNCHANGED <<pushed, ran>>
      PROVE  UseTypeOK'
  BY <1>4 DEF WorkerTake, AwakeWorkers, PriorityTask
<1>5. ASSUME NEW w \in Workers, WorkerExit(w), UNCHANGED <<pushed, ran>>
      PROVE  UseTypeOK'
  BY <1>5 DEF WorkerExit, AwakeWorkers, MayExit
<1>6. ASSUME NEW w \in Workers, WorkerSpuriousWakeup(w), UNCHANGED <<pushed, ran>>
      PROVE  UseTypeOK'
  BY <1>6 DEF WorkerSpuriousWakeup
<1>7. CASE Destroy
  BY <1>7 DEF Destroy, PoolStop, StopWakes
<1>8. CASE UNCHANGED useVars
  BY <1>8 DEF useVars
<1> QED
  BY <1>1, <1>2, <1>3, <1>4, <1>5, <1>6, <1>7, <1>8
  DEF UseNext, OutsidePush, NestedPush, WorkerStep

\* The pool's variables keep their types; a worker leaves a stopped pool only
\* (the worker loop, ~ThreadPool).
THEOREM PoolTypeCorrect == UseSafety => []UseTypeOK
BY UseTypeInit, UseTypeStep, PTL DEF UseSafety

(***************************************************************************)
(* Wake-ups.  PushTask wakes one worker, and one more task then has one    *)
(* more worker to take it.                                                 *)
(***************************************************************************)
FiniteTasks == IsFiniteSet(tasks)
WakeInv == UseTypeOK /\ FiniteTasks /\ PoolNoLostWakeup

LEMMA AwakeFinite ==
  /\ IsFiniteSet(AwakeWorkers) /\ IsFiniteSet(AwakeWorkers')
  /\ Cardinality(AwakeWorkers) \in Nat /\ Cardinality(AwakeWorkers') \in Nat
<1>1. AwakeWorkers \in SUBSET Workers /\ AwakeWorkers' \in SUBSET Workers
  BY DEF AwakeWorkers
<1> QED
  BY <1>1, PoolAssumption, FS_Subset, FS_CardinalityType

LEMMA MoreAwake ==
  ASSUME AwakeWorkers \subseteq AwakeWorkers'
  PROVE  Cardinality(AwakeWorkers) <= Cardinality(AwakeWorkers')
BY AwakeFinite, FS_Subset

LEMMA PushTaskWakes ==
  ASSUME WakeInv, NEW f \in Funcs, NEW k \in Keys, PushTask(f, k)
  PROVE  WakeInv'
<1> DEFINE t == [priority |-> k[1], seq_num |-> k[2], func |-> f]
<1>1. UseTypeOK'
  BY PushTaskTypes DEF WakeInv
<1>2. /\ tasks' = tasks \cup {t} /\ pool_cv' \in WakeWorkers({t})
      /\ stopping' = stopping /\ worker' = worker
  BY DEF PushTask, PushTasks
<1> HIDE DEF t
<1>3. IsFiniteSet(tasks') /\ Cardinality(tasks') <= Cardinality(tasks) + 1
  <2>1. IsFiniteSet(tasks) /\ Cardinality(tasks) \in Nat
    BY FS_CardinalityType DEF WakeInv, FiniteTasks
  <2>2. /\ IsFiniteSet(tasks \cup {t})
        /\ Cardinality(tasks \cup {t}) = IF t \in tasks THEN Cardinality(tasks)
                                                       ELSE Cardinality(tasks) + 1
    BY <2>1, FS_AddElement
  <2> QED
    BY <1>2, <2>1, <2>2
<1>4. pool_cv' \subseteq pool_cv
  BY <1>2, WakesSome
<1>5. ASSUME pool_cv' # {}
      PROVE  Cardinality(AwakeWorkers') >= Cardinality(tasks')
  <2>1. Cardinality(pool_cv \ pool_cv') = 1
    BY <1>2, <1>5, FS_Singleton DEF WakeWorkers
  <2>2. pool_cv \subseteq Workers
    BY DEF WakeInv, UseTypeOK, PoolTypeOK
  <2>3. PICK w : pool_cv \ pool_cv' = {w}
    <3>1. pool_cv \ pool_cv' \in SUBSET Workers
      BY <2>2
    <3>2. IsFiniteSet(pool_cv \ pool_cv')
      BY <3>1, PoolAssumption, FS_Subset
    <3> QED
      BY <2>1, <3>2, FS_Singleton
  <2>4. w \in pool_cv /\ w \notin pool_cv' /\ worker[w] = Free /\ w \in Workers
    BY <2>2, <2>3 DEF WakeInv, UseTypeOK, PoolTypeOK
  <2> DEFINE free == {v \in Workers : worker[v] = Free}
  <2>5. AwakeWorkers' = AwakeWorkers \cup {w} /\ w \notin AwakeWorkers
    <3>1. AwakeWorkers = free \ pool_cv /\ AwakeWorkers' = free \ pool_cv'
      BY <1>2 DEF AwakeWorkers
    <3>2. w \in free
      BY <2>4
    <3> HIDE DEF free
    <3> QED
      BY <1>4, <2>3, <2>4, <3>1, <3>2
  <2>6. Cardinality(AwakeWorkers') = Cardinality(AwakeWorkers) + 1
    BY <2>5, AwakeFinite, FS_AddElement
  <2>7. Cardinality(AwakeWorkers) >= Cardinality(tasks)
    BY <2>4 DEF WakeInv, PoolNoLostWakeup
  <2>8. Cardinality(tasks) \in Nat /\ Cardinality(tasks') \in Nat
    BY <1>3, FS_CardinalityType DEF WakeInv, FiniteTasks
  <2> QED
    BY <1>3, <2>6, <2>7, <2>8, AwakeFinite
<1>6. stopping' => pool_cv' = {}
  BY <1>2, <1>4 DEF WakeInv, PoolNoLostWakeup
<1> QED
  BY <1>1, <1>3, <1>5, <1>6 DEF WakeInv, FiniteTasks, PoolNoLostWakeup

LEMMA WakeStep == WakeInv /\ [UseNext]_useVars => WakeInv'
<1> SUFFICES ASSUME WakeInv, [UseNext]_useVars PROVE WakeInv'
  OBVIOUS
<1>1. UseTypeOK'
  BY UseTypeStep DEF WakeInv
<1>2. Cardinality(tasks) \in Nat
  BY FS_CardinalityType DEF WakeInv, FiniteTasks
<1> USE <1>1 DEF WakeInv, FiniteTasks
<1>3. ASSUME NEW f \in Funcs, NEW k \in Keys, PushTask(f, k)
      PROVE  WakeInv'
  BY <1>3, PushTaskWakes
<1>4. ASSUME NEW w \in Workers, Return(w)
      PROVE  WakeInv'
  <2>1. /\ worker[w] \in Funcs /\ worker' = [worker EXCEPT ![w] = Free]
        /\ tasks' = tasks /\ pool_cv' = pool_cv /\ stopping' = stopping
    BY <1>4 DEF Return, TaskReturns, Running
  <2>2. AwakeWorkers \subseteq AwakeWorkers'
    BY <2>1, PoolAssumption DEF AwakeWorkers, UseTypeOK, PoolTypeOK
  <2> QED
    BY <2>1, <2>2, <1>2, MoreAwake, AwakeFinite DEF PoolNoLostWakeup
<1>5. ASSUME NEW w \in Workers, WorkerWait(w)
      PROVE  WakeInv'
  <2>1. tasks' = {} /\ tasks = {} /\ ~stopping'
    BY <1>5 DEF WorkerWait
  <2> QED
    BY <2>1, AwakeFinite, FS_EmptySet DEF PoolNoLostWakeup
<1>6. ASSUME NEW w \in Workers, WorkerTake(w)
      PROVE  WakeInv'
  <2>1. PICK top \in tasks : tasks' = tasks \ {top} /\ worker' = [worker EXCEPT ![w] = top.func]
    BY <1>6 DEF WorkerTake
  <2>2. w \in AwakeWorkers /\ pool_cv' = pool_cv /\ stopping' = stopping
    BY <1>6 DEF WorkerTake
  <2>3. Cardinality(tasks') = Cardinality(tasks) - 1 /\ IsFiniteSet(tasks')
    BY <2>1, FS_RemoveElement
  <2>4. top.func \in Funcs
    BY <2>1 DEF UseTypeOK, PoolTypeOK, PriorityTask
  <2>5. AwakeWorkers' = AwakeWorkers \ {w}
    BY <2>1, <2>2, <2>4, PoolAssumption DEF AwakeWorkers, UseTypeOK, PoolTypeOK
  <2>6. Cardinality(AwakeWorkers') = Cardinality(AwakeWorkers) - 1
    BY <2>2, <2>5, AwakeFinite, FS_RemoveElement
  <2> QED
    BY <1>2, <2>2, <2>3, <2>6, AwakeFinite DEF PoolNoLostWakeup
<1>7. ASSUME NEW w \in Workers, WorkerExit(w)
      PROVE  WakeInv'
  BY <1>7 DEF WorkerExit, MayExit, PoolNoLostWakeup
<1>8. ASSUME NEW w \in Workers, WorkerSpuriousWakeup(w)
      PROVE  WakeInv'
  <2>1. /\ pool_cv' = pool_cv \ {w}
        /\ tasks' = tasks /\ worker' = worker /\ stopping' = stopping
    BY <1>8 DEF WorkerSpuriousWakeup
  <2>2. AwakeWorkers \subseteq AwakeWorkers'
    BY <2>1 DEF AwakeWorkers
  <2> QED
    BY <2>1, <2>2, <1>2, MoreAwake, AwakeFinite DEF PoolNoLostWakeup
<1>9. CASE Destroy
  BY <1>9 DEF Destroy, PoolStop, StopWakes, PoolNoLostWakeup
<1>10. CASE UNCHANGED useVars
  BY <1>10 DEF useVars, PoolNoLostWakeup, AwakeWorkers
<1> QED
  BY <1>3, <1>4, <1>5, <1>6, <1>7, <1>8, <1>9, <1>10
  DEF UseNext, OutsidePush, NestedPush, WorkerStep

LEMMA WakeInit == UseInit => WakeInv
<1> SUFFICES ASSUME UseInit PROVE WakeInv
  OBVIOUS
<1>1. tasks = {} /\ pool_cv = {}
  BY DEF UseInit, PoolInit
<1> QED
  BY <1>1, UseTypeInit, FS_EmptySet DEF WakeInv, FiniteTasks, PoolNoLostWakeup

\* PushTask notifies one worker per task and the destructor all of them: while a
\* worker sleeps, awake workers suffice for every queued task.
THEOREM WakeupsSuffice == UseSafety => []PoolNoLostWakeup
<1>1. WakeInv => PoolNoLostWakeup
  BY DEF WakeInv
<1> QED
  BY <1>1, WakeInit, WakeStep, PTL DEF UseSafety

(***************************************************************************)
(* Every task runs once.                                                   *)
(***************************************************************************)
Queued(f) == {t \in tasks : t.func = f}
RunningOn(f) == {w \in Workers : worker[w] = f}
Due(f) == IF f \in Pushed THEN 1 ELSE 0

Counted(f) == Cardinality(Queued(f)) + Cardinality(RunningOn(f)) + ran[f] = Due(f)

OnceInv ==
  /\ UseTypeOK /\ FiniteTasks
  /\ \A f \in Funcs : Counted(f)
  /\ PoolGone => tasks = {}

LEMMA PlacesFinite ==
  ASSUME FiniteTasks, NEW f
  PROVE  /\ IsFiniteSet(Queued(f)) /\ Cardinality(Queued(f)) \in Nat
         /\ IsFiniteSet(RunningOn(f)) /\ Cardinality(RunningOn(f)) \in Nat
<1>1. Queued(f) \in SUBSET tasks /\ RunningOn(f) \in SUBSET Workers
  BY DEF Queued, RunningOn
<1> QED
  BY <1>1, PoolAssumption, FS_Subset, FS_CardinalityType DEF FiniteTasks

LEMMA OnceInit == UseInit => OnceInv
<1> SUFFICES ASSUME UseInit PROVE OnceInv
  OBVIOUS
<1>1. /\ tasks = {} /\ stopping = FALSE /\ worker = [w \in Workers |-> Free]
      /\ pushed = {} /\ ran = [f \in Funcs |-> 0]
  BY DEF UseInit, PoolInit
<1>2. ASSUME NEW f \in Funcs
      PROVE  Counted(f)
  <2>1. Queued(f) = {} /\ Pushed = {}
    BY <1>1 DEF Queued, Pushed
  <2>2. RunningOn(f) = {}
    BY <1>1, PoolAssumption DEF RunningOn
  <2> QED
    BY <1>1, <2>1, <2>2, FS_EmptySet DEF Counted, Due
<1> QED
  BY <1>1, <1>2, UseTypeInit, FS_EmptySet DEF OnceInv, FiniteTasks

\* Nothing about f changes.
LEMMA CountedKept ==
  ASSUME NEW f \in Funcs, Counted(f),
         Queued(f)' = Queued(f), RunningOn(f)' = RunningOn(f), ran'[f] = ran[f],
         Pushed' = Pushed
  PROVE  Counted(f)'
BY DEF Counted, Due

LEMMA OncePush ==
  ASSUME OnceInv, NEW f \in Funcs, NEW k \in Keys, PushTask(f, k), ~PoolGone
  PROVE  OnceInv'
<1> DEFINE t == [priority |-> k[1], seq_num |-> k[2], func |-> f]
<1>1. UseTypeOK'
  BY PushTaskTypes DEF OnceInv
<1>2. /\ tasks' = tasks \cup {t} /\ t.func = f /\ pushed' = pushed \cup {t} /\ f \notin Pushed
      /\ stopping' = stopping /\ worker' = worker /\ ran' = ran
  BY DEF PushTask, PushTasks
<1> HIDE DEF t
<1>3. IsFiniteSet(tasks')
  <2>1. IsFiniteSet(tasks \cup {t})
    BY FS_AddElement DEF OnceInv, FiniteTasks
  <2> QED
    BY <1>2, <2>1
<1>4. Pushed' = Pushed \cup {f}
  BY <1>2 DEF Pushed
<1>5. ASSUME NEW g \in Funcs
      PROVE  Counted(g)'
  <2>1. Counted(g) /\ RunningOn(g)' = RunningOn(g)
    BY <1>2 DEF OnceInv, RunningOn
  <2>2. CASE g = f
    <3>1. /\ Cardinality(Queued(f)) \in Nat /\ Cardinality(RunningOn(f)) \in Nat /\ ran[f] \in Nat
          /\ IsFiniteSet(Queued(f))
      BY PlacesFinite DEF OnceInv, UseTypeOK
    <3>2. Cardinality(Queued(f)) = 0 /\ Cardinality(RunningOn(f)) = 0 /\ ran[f] = 0
      BY <1>2, <2>1, <2>2, <3>1 DEF Counted, Due
    <3>3. Queued(f) = {}
      BY <3>1, <3>2, FS_EmptySet
    <3>4. Queued(f)' = {t}
      BY <1>2, <3>3 DEF Queued
    <3> QED
      BY <1>2, <1>4, <2>1, <2>2, <3>2, <3>4, FS_Singleton DEF Counted, Due
  <2>3. CASE g # f
    <3>1. Queued(g)' = Queued(g)
      BY <1>2, <2>3 DEF Queued
    <3> QED
      BY <1>2, <1>4, <2>1, <2>3, <3>1 DEF Counted, Due
  <2> QED
    BY <2>2, <2>3
<1>6. ~PoolGone'
  BY <1>2 DEF PoolGone
<1> QED
  BY <1>1, <1>3, <1>5, <1>6 DEF OnceInv, FiniteTasks

LEMMA OnceTake ==
  ASSUME OnceInv, UseTypeOK', NEW w \in Workers, WorkerTake(w), UNCHANGED <<pushed, ran>>
  PROVE  OnceInv'
<1>1. PICK top \in tasks : tasks' = tasks \ {top} /\ worker' = [worker EXCEPT ![w] = top.func]
  BY DEF WorkerTake
<1>2. /\ worker[w] = Free /\ top.func \in Funcs /\ worker \in [Workers -> Funcs \cup {Free, Exited}]
      /\ Free \notin Funcs /\ ran \in [Funcs -> Nat]
  BY PoolAssumption DEF WorkerTake, AwakeWorkers, OnceInv, UseTypeOK, PoolTypeOK, PriorityTask
<1>3. IsFiniteSet(tasks')
  BY <1>1, FS_RemoveElement DEF OnceInv, FiniteTasks
<1>4. ASSUME NEW f \in Funcs
      PROVE  Counted(f)'
  <2>1. Counted(f) /\ Pushed' = Pushed
    BY DEF OnceInv, Pushed
  <2>2. /\ IsFiniteSet(Queued(f)) /\ Cardinality(Queued(f)) \in Nat
        /\ IsFiniteSet(RunningOn(f)) /\ Cardinality(RunningOn(f)) \in Nat
    BY PlacesFinite DEF OnceInv
  <2>3. CASE f = top.func
    <3>1. Queued(f)' = Queued(f) \ {top} /\ top \in Queued(f)
      BY <1>1, <2>3 DEF Queued
    <3>2. RunningOn(f)' = RunningOn(f) \cup {w} /\ w \notin RunningOn(f)
      BY <1>1, <1>2, <2>3 DEF RunningOn
    <3>3. Cardinality(Queued(f)') = Cardinality(Queued(f)) - 1
      BY <2>2, <3>1, FS_RemoveElement
    <3>4. Cardinality(RunningOn(f)') = Cardinality(RunningOn(f)) + 1
      BY <2>2, <3>2, FS_AddElement
    <3> QED
      BY <1>2, <2>1, <2>2, <3>3, <3>4 DEF Counted, Due
  <2>4. CASE f # top.func
    <3>1. Queued(f)' = Queued(f)
      BY <1>1, <2>4 DEF Queued
    <3>2. RunningOn(f)' = RunningOn(f)
      BY <1>1, <1>2, <2>4 DEF RunningOn
    <3> QED
      BY <2>1, <3>1, <3>2, CountedKept
  <2> QED
    BY <2>3, <2>4
<1>5. ~PoolGone'
  BY <1>1, <1>2, PoolAssumption DEF PoolGone
<1> QED
  BY <1>3, <1>4, <1>5 DEF OnceInv, FiniteTasks

LEMMA OnceReturn ==
  ASSUME OnceInv, UseTypeOK', NEW w \in Workers, Return(w)
  PROVE  OnceInv'
<1> DEFINE g == worker[w]
<1>1. /\ g \in Funcs /\ worker' = [worker EXCEPT ![w] = Free] /\ ran' = [ran EXCEPT ![g] = @ + 1]
      /\ tasks' = tasks /\ pushed' = pushed
  BY DEF Return, TaskReturns, Running
<1>2. /\ worker \in [Workers -> Funcs \cup {Free, Exited}]
      /\ Free \notin Funcs /\ Free # Exited /\ ran \in [Funcs -> Nat]
  BY PoolAssumption DEF OnceInv, UseTypeOK, PoolTypeOK
<1>3. ASSUME NEW f \in Funcs
      PROVE  Counted(f)'
  <2>1. Counted(f) /\ Pushed' = Pushed /\ Queued(f)' = Queued(f)
    BY <1>1 DEF OnceInv, Pushed, Queued
  <2>2. /\ Cardinality(Queued(f)) \in Nat
        /\ IsFiniteSet(RunningOn(f)) /\ Cardinality(RunningOn(f)) \in Nat
    BY PlacesFinite DEF OnceInv
  <2>3. CASE f = g
    <3>1. RunningOn(f)' = RunningOn(f) \ {w} /\ w \in RunningOn(f)
      BY <1>1, <1>2, <2>3 DEF RunningOn
    <3>2. Cardinality(RunningOn(f)') = Cardinality(RunningOn(f)) - 1
      BY <2>2, <3>1, FS_RemoveElement
    <3>3. ran'[f] = ran[f] + 1
      BY <1>1, <1>2, <2>3
    <3> QED
      BY <1>2, <2>1, <2>2, <3>2, <3>3 DEF Counted, Due
  <2>4. CASE f # g
    <3>1. RunningOn(f)' = RunningOn(f)
      BY <1>1, <1>2, <2>4 DEF RunningOn
    <3>2. ran'[f] = ran[f]
      BY <1>1, <1>2, <2>4
    <3> QED
      BY <2>1, <3>1, <3>2, CountedKept
  <2> QED
    BY <2>3, <2>4
<1>4. ~PoolGone'
  BY <1>1, <1>2 DEF PoolGone
<1> QED
  BY <1>1, <1>3, <1>4 DEF OnceInv, FiniteTasks

LEMMA OnceStep == OnceInv /\ [UseNext]_useVars => OnceInv'
<1> SUFFICES ASSUME OnceInv, [UseNext]_useVars PROVE OnceInv'
  OBVIOUS
<1>1. UseTypeOK'
  BY UseTypeStep DEF OnceInv
<1>2. ASSUME NEW f \in Funcs, NEW k \in Keys, OutsidePush(f, k)
      PROVE  OnceInv'
  BY <1>2, OncePush DEF OutsidePush, PoolGone
<1>3. ASSUME NEW w \in Workers, NEW f \in Funcs, NEW k \in Keys, NestedPush(w, f, k)
      PROVE  OnceInv'
  <2>1. ~PoolGone
    BY <1>3, PoolAssumption DEF NestedPush, Running, PoolGone
  <2> QED
    BY <1>3, <2>1, OncePush DEF NestedPush
<1>4. ASSUME NEW w \in Workers, Return(w)
      PROVE  OnceInv'
  BY <1>1, <1>4, OnceReturn
<1>5. ASSUME NEW w \in Workers, WorkerTake(w), UNCHANGED <<pushed, ran>>
      PROVE  OnceInv'
  BY <1>1, <1>5, OnceTake
<1>6. ASSUME NEW w \in Workers, WorkerExit(w), UNCHANGED <<pushed, ran>>
      PROVE  OnceInv'
  <2>1. /\ tasks' = tasks /\ tasks = {} /\ worker[w] = Free
        /\ worker' = [worker EXCEPT ![w] = Exited]
    BY <1>6 DEF WorkerExit, MayExit, AwakeWorkers
  <2>2. \A f \in Funcs : RunningOn(f)' = RunningOn(f)
    BY <2>1, PoolAssumption DEF RunningOn, OnceInv, UseTypeOK, PoolTypeOK
  <2>3. \A f \in Funcs : Counted(f)'
    BY <1>6, <2>1, <2>2, CountedKept DEF OnceInv, Queued, Pushed
  <2> QED
    BY <1>1, <2>1, <2>3 DEF OnceInv, FiniteTasks
<1>7. ASSUME tasks' = tasks, worker' = worker, UNCHANGED <<pushed, ran>>,
             stopping' = stopping \/ Destroy
      PROVE  OnceInv'
  <2>1. \A f \in Funcs : Counted(f)'
    BY <1>7, CountedKept DEF OnceInv, Queued, RunningOn, Pushed
  <2>2. PoolGone' => tasks = {}
    <3>1. CASE stopping' = stopping
      BY <1>7, <3>1 DEF OnceInv, PoolGone
    <3>2. CASE Destroy
      <4>1. ~stopping /\ \A w \in Workers : worker[w] # Exited
        BY <3>2 DEF Destroy, OnceInv, UseTypeOK, PoolTypeOK
      <4> QED
        BY <1>7, <4>1, PoolAssumption, FS_EmptySet DEF PoolGone
    <3> QED
      BY <1>7, <3>1, <3>2
  <2> QED
    BY <1>1, <1>7, <2>1, <2>2 DEF OnceInv, FiniteTasks
<1>8. CASE UNCHANGED useVars
  BY <1>7, <1>8 DEF useVars
<1>9. CASE Destroy
  BY <1>7, <1>9 DEF Destroy, PoolStop
<1>10. ASSUME NEW w \in Workers, WorkerWait(w) \/ WorkerSpuriousWakeup(w), UNCHANGED <<pushed, ran>>
       PROVE  OnceInv'
  BY <1>7, <1>10 DEF WorkerWait, WorkerSpuriousWakeup
<1> QED
  BY <1>2, <1>3, <1>4, <1>5, <1>6, <1>8, <1>9, <1>10 DEF UseNext, WorkerStep

\* A task is queued, running or done, once; when the destructor is through all
\* that were pushed are done, those pushed by tasks meanwhile included.
THEOREM TasksRunOnce == UseSafety => []EveryTaskOnce
<1>1. OnceInv => EveryTaskOnce
  <2> SUFFICES ASSUME OnceInv PROVE EveryTaskOnce
    OBVIOUS
  <2>1. \A f \in Funcs :
          Cardinality({t \in tasks : t.func = f}) + Cardinality({w \in Workers : worker[w] = f})
            + ran[f] = IF f \in Pushed THEN 1 ELSE 0
    BY DEF OnceInv, Counted, Queued, RunningOn, Due
  <2>2. ASSUME PoolGone, NEW f \in Pushed
        PROVE  ran[f] = 1
    <3>1. f \in Funcs
      BY <2>2 DEF OnceInv, UseTypeOK, Pushed, PriorityTask
    <3>2. Queued(f) = {} /\ RunningOn(f) = {}
      BY <2>2, <3>1, PoolAssumption DEF OnceInv, Queued, RunningOn, PoolGone
    <3>3. Counted(f) /\ ran[f] \in Nat
      BY <3>1 DEF OnceInv, UseTypeOK
    <3> QED
      BY <2>2, <3>2, <3>3, FS_EmptySet DEF Counted, Due
  <2> QED
    BY <2>1, <2>2 DEF EveryTaskOnce
<1> QED
  BY <1>1, OnceInit, OnceStep, PTL DEF UseSafety

(***************************************************************************)
(* Tasks start by priority, then by sequence number.                       *)
(***************************************************************************)
\* The tasks that leave the queue in a step, and those that stay.
StartsInOrder ==
  \A a, b \in tasks :
    a \notin tasks' /\ b \in tasks' =>
      \/ a.priority < b.priority
      \/ a.priority = b.priority /\ a.seq_num <= b.seq_num

LEMMA TakesTop ==
  ASSUME UseTypeOK, NEW w \in Workers, WorkerTake(w)
  PROVE  StartsInOrder
<1>1. PICK top \in tasks : /\ \A other \in tasks : ~Before(other, top)
                           /\ tasks' = tasks \ {top}
  BY DEF WorkerTake
<1>2. SUFFICES ASSUME NEW b \in tasks
               PROVE  \/ top.priority < b.priority
                      \/ top.priority = b.priority /\ top.seq_num <= b.seq_num
  BY <1>1 DEF StartsInOrder
<1>3. /\ top.priority \in Int /\ b.priority \in Int
      /\ top.seq_num \in Nat /\ b.seq_num \in Nat
  BY <1>1 DEF UseTypeOK, PoolTypeOK, PriorityTask
<1>4. ~Before(b, top)
  BY <1>1
<1> QED
  BY <1>3, <1>4 DEF Before

LEMMA OrderStep == UseTypeOK /\ [UseNext]_useVars => StartsInOrder
<1> SUFFICES ASSUME UseTypeOK, [UseNext]_useVars PROVE StartsInOrder
  OBVIOUS
<1>1. ASSUME tasks \subseteq tasks' PROVE StartsInOrder
  BY <1>1 DEF StartsInOrder
<1>2. ASSUME NEW f \in Funcs, NEW k \in Keys, PushTask(f, k)
      PROVE  tasks \subseteq tasks'
  BY <1>2 DEF PushTask, PushTasks
<1>3. ASSUME NEW w \in Workers, WorkerStep(w) PROVE StartsInOrder
  <2>1. CASE WorkerTake(w)
    BY <2>1, TakesTop
  <2>2. CASE WorkerWait(w) \/ WorkerExit(w)
    BY <2>2, <1>1 DEF WorkerWait, WorkerExit
  <2> QED
    BY <1>3, <2>1, <2>2 DEF WorkerStep
<1>4. ASSUME \/ \E w \in Workers : Return(w) \/ WorkerSpuriousWakeup(w)
             \/ Destroy \/ UNCHANGED useVars
      PROVE  StartsInOrder
  <2>1. tasks' = tasks
    BY <1>4 DEF Return, WorkerSpuriousWakeup, Destroy, PoolStop, useVars
  <2> QED
    BY <2>1, <1>1
<1> QED
  BY <1>1, <1>2, <1>3, <1>4 DEF UseNext, OutsidePush, NestedPush

\* A worker takes the task with the least priority value and, among those, the
\* one with the least sequence number (operator< and the top of queue_),
\* whoever pushes in between.
THEOREM HigherFirst == UseSafety => PriorityOrder
<1>1. UseTypeOK /\ [UseNext]_useVars => [StartsInOrder]_useVars
  BY OrderStep
<1> QED
  BY <1>1, PoolTypeCorrect, PTL DEF UseSafety, PriorityOrder, StartsInOrder

-----------------------------------------------------------------------------
(***************************************************************************)
(* PipelineStage                                                           *)
(***************************************************************************)
Entry == [input : Funcs, state : {NEW_TASK, RUNNING, FINISHED}]
BufferInputs == {input_buffer[i].input : i \in 1 .. Len(input_buffer)}

(***************************************************************************)
(* The inductive invariant.                                                *)
(***************************************************************************)
\* The argument of a Push is new until the push is accepted.
ArgsNew ==
  /\ \A t \in Pushers : op[t] = "push" =>
       /\ arg[t] \in Funcs
       /\ arg[t] \in Elements(accepted) => InSection /\ mutex.by = t
  /\ \A t, u \in Pushers : op[t] = "push" /\ op[u] = "push" /\ t # u => arg[t] # arg[u]

\* Who is in the critical section, and what it has finished.
SectionOK ==
  InSection =>
    /\ mutex.by \in Pushers => op[mutex.by] = "push" /\ mutex.by \notin cv_ok_to_push
    /\ mutex.by \in Workers => worker[mutex.by] \in Funcs
    /\ mutex.todo = "own" =>
         out_of_order /\ \E i \in 1 .. Len(input_buffer) :
                           /\ input_buffer[i].input = mutex.it
                           /\ input_buffer[i].state = FINISHED

\* The workers whose task has not finished yet.
Active == {v \in Running : ~InSection \/ mutex.by # v}

\* No input is in the hands of two.
OutstandingOnce ==
  /\ \A s, t \in tasks : s.func = t.func => s = t
  /\ \A v, w \in Active : worker[v] = worker[w] => v = w
  /\ \A t \in tasks, w \in Active : t.func # worker[w]

EntriesDistinct ==
  \A i, j \in 1 .. Len(input_buffer) : input_buffer[i].input = input_buffer[j].input => i = j

\* What happened to the inputs accepted.
History ==
  /\ BufferInputs \subseteq Elements(accepted)
  /\ Elements(delivered) \subseteq Elements(accepted)
  /\ Elements(delivered) \cap BufferInputs = {}
  /\ IsFiniteSet(Elements(delivered)) /\ Cardinality(Elements(delivered)) = Len(delivered)
  /\ ~kill_switch /\ ~sink_killed =>
       /\ Len(accepted) = Len(delivered) + Len(input_buffer)
       /\ Elements(accepted) \subseteq Elements(delivered) \cup BufferInputs

\* The order, in a stage that keeps it.
InOrder ==
  ~out_of_order =>
    /\ Len(delivered) <= Len(accepted)
    /\ \A i \in 1 .. Len(delivered) : accepted[i] = delivered[i]
    /\ ~kill_switch /\ ~sink_killed =>
         \A i \in 1 .. Len(input_buffer) : accepted[Len(delivered) + i] = input_buffer[i].input

Inv ==
  /\ TypeOK /\ ArgsNew /\ SectionOK /\ (stopping => kill_switch)
  /\ TasksMatchEntries /\ OutstandingOnce /\ EntriesDistinct /\ History /\ InOrder

(***************************************************************************)
(* Sequences.                                                              *)
(***************************************************************************)
LEMMA RemoveAtProperties ==
  ASSUME NEW S, NEW s \in Seq(S), NEW k \in 1 .. Len(s)
  PROVE  /\ RemoveAt(s, k) \in Seq(S)
         /\ Len(RemoveAt(s, k)) = Len(s) - 1
         /\ \A i \in 1 .. Len(s) - 1 : RemoveAt(s, k)[i] = IF i < k THEN s[i] ELSE s[i + 1]
<1> DEFINE front == SubSeq(s, 1, k - 1)
           back == SubSeq(s, k + 1, Len(s))
<1>1. Len(s) \in Nat /\ k \in Nat /\ \A i \in 1 .. Len(s) : s[i] \in S
  BY LenProperties, ElementOfSeq
<1>2. /\ front \in Seq(S) /\ Len(front) = k - 1
      /\ \A i \in 1 .. k - 1 : front[i] = s[i]
  <2>1. \A i \in 1 .. k - 1 : s[i] \in S
    BY <1>1
  <2> QED
    BY <1>1, <2>1, SubSeqProperties
<1>3. /\ back \in Seq(S) /\ Len(back) = Len(s) - k
      /\ \A i \in 1 .. Len(s) - k : back[i] = s[k + i]
  <2>1. \A i \in k + 1 .. Len(s) : s[i] \in S
    BY <1>1
  <2> QED
    BY <1>1, <2>1, SubSeqProperties
<1>4. RemoveAt(s, k) = front \o back
  BY DEF RemoveAt
<1> HIDE DEF front, back
<1>5. /\ front \o back \in Seq(S) /\ Len(front \o back) = Len(front) + Len(back)
      /\ \A i \in 1 .. Len(front) + Len(back) :
           (front \o back)[i] = IF i <= Len(front) THEN front[i] ELSE back[i - Len(front)]
  BY <1>2, <1>3, ConcatProperties
<1>6. Len(front) + Len(back) = Len(s) - 1
  BY <1>1, <1>2, <1>3
<1>7. ASSUME NEW i \in 1 .. Len(s) - 1
      PROVE  (front \o back)[i] = IF i < k THEN s[i] ELSE s[i + 1]
  <2>1. CASE i < k
    BY <1>1, <1>2, <1>5, <1>6, <2>1
  <2>2. CASE ~(i < k)
    <3>1. i - (k - 1) \in 1 .. Len(s) - k /\ k + (i - (k - 1)) = i + 1
      BY <1>1, <2>2
    <3>2. i \in 1 .. Len(front) + Len(back) /\ ~(i <= Len(front))
      BY <1>1, <1>2, <1>6, <2>2
    <3>3. (front \o back)[i] = back[i - (k - 1)]
      BY <1>2, <1>5, <3>2
    <3>4. back[i - (k - 1)] = s[k + (i - (k - 1))]
      BY <1>3, <3>1
    <3> QED
      BY <2>2, <3>1, <3>3, <3>4
  <2> QED
    BY <2>1, <2>2
<1> QED
  BY <1>4, <1>5, <1>6, <1>7

LEMMA AppendElements ==
  ASSUME NEW S, NEW s \in Seq(S), NEW e \in S
  PROVE  /\ Append(s, e) \in Seq(S) /\ Len(Append(s, e)) = Len(s) + 1
         /\ \A i \in 1 .. Len(s) : Append(s, e)[i] = s[i]
         /\ Append(s, e)[Len(s) + 1] = e
         /\ Elements(Append(s, e)) = Elements(s) \cup {e}
<1>1. /\ Append(s, e) \in Seq(S) /\ Len(Append(s, e)) = Len(s) + 1
      /\ \A i \in 1 .. Len(s) : Append(s, e)[i] = s[i]
      /\ Append(s, e)[Len(s) + 1] = e
  BY AppendProperties
<1>2. Len(s) \in Nat
  BY LenProperties
<1>3. 1 .. Len(s) + 1 = (1 .. Len(s)) \cup {Len(s) + 1}
  BY <1>2
<1>4. Elements(Append(s, e)) = Elements(s) \cup {e}
  BY <1>1, <1>2, <1>3 DEF Elements
<1> QED
  BY <1>1, <1>4

(***************************************************************************)
(* What the steps do to the buffer.                                        *)
(***************************************************************************)
LEMMA Entries ==
  ASSUME TypeOK
  PROVE  /\ input_buffer \in Seq(Entry) /\ Len(input_buffer) \in Nat
         /\ \A i \in 1 .. Len(input_buffer) :
              /\ input_buffer[i] \in Entry
              /\ input_buffer[i].input \in Funcs
              /\ input_buffer[i].state \in {NEW_TASK, RUNNING, FINISHED}
<1>1. input_buffer \in Seq(Entry)
  BY DEF TypeOK, Entry
<1>2. Len(input_buffer) \in Nat /\ \A i \in 1 .. Len(input_buffer) : input_buffer[i] \in Entry
  BY <1>1, LenProperties, ElementOfSeq
<1> QED
  BY <1>1, <1>2 DEF Entry

LEMMA SectionTyped ==
  ASSUME TypeOK, InSection
  PROVE  /\ mutex \in SectionType
         /\ mutex.by \in Pushers \cup Workers /\ mutex.todo \in {"front", "own", "schedule"}
BY DEF TypeOK, InSection, SectionType

LEMMA NewSection ==
  ASSUME NEW t \in Pushers \cup Workers, NEW d \in Funcs \cup {NoInput},
         mutex' = Section(t, d)
  PROVE  /\ mutex' \in SectionType /\ InSection'
         /\ mutex'.by = t /\ mutex'.it = d
         /\ mutex'.todo = "own" => out_of_order /\ d # NoInput
BY StageAssumption DEF Section, SectionType, InSection

\* A retiring task: the first one in a stage that keeps the order.
LEMMA RetiresFinished ==
  ASSUME Inv, RetireFront \/ RetireOwn
  PROVE  \E k \in 1 .. Len(input_buffer) :
           /\ input_buffer[k].state = FINISHED /\ (~out_of_order => k = 1)
           /\ Retire(k)
           /\ mutex' \in SectionType /\ InSection' /\ mutex'.by = mutex.by
           /\ mutex'.todo # "own"
<1>1. InSection
  BY DEF RetireFront, RetireOwn
<1>2. CASE RetireFront
  <2>1. PICK k \in Retirable : Retire(k)
    BY <1>2 DEF RetireFront
  <2>2. k \in 1 .. Len(input_buffer) /\ k = 1 /\ input_buffer[k].state = FINISHED
    BY DEF Retirable
  <2>3. mutex' = mutex /\ mutex.todo # "own" /\ mutex \in SectionType
    BY <1>1, <1>2, SectionTyped DEF RetireFront, Inv
  <2> QED
    BY <1>1, <2>1, <2>2, <2>3 DEF InSection
<1>3. CASE RetireOwn
  <2>1. out_of_order /\ \E i \in 1 .. Len(input_buffer) :
                          /\ input_buffer[i].input = mutex.it
                          /\ input_buffer[i].state = FINISHED
    BY <1>1, <1>3 DEF RetireOwn, Inv, SectionOK
  <2> DEFINE k == Position(mutex.it)
  <2>2. k \in 1 .. Len(input_buffer) /\ input_buffer[k].input = mutex.it
    BY <2>1 DEF Position
  <2>3. input_buffer[k].state = FINISHED
    BY <2>1, <2>2 DEF Inv, EntriesDistinct
  <2>4. Retire(k) /\ mutex' = [mutex EXCEPT !.todo = "schedule"]
    BY <1>3 DEF RetireOwn
  <2> HIDE DEF k
  <2>5. mutex' \in SectionType /\ mutex'.by = mutex.by /\ mutex'.todo = "schedule"
    BY <1>1, <2>4, SectionTyped DEF SectionType, Inv
  <2>6. InSection'
    BY <2>5, StageAssumption DEF InSection
  <2> QED
    BY <2>1, <2>2, <2>3, <2>4, <2>5, <2>6
<1> QED
  BY <1>2, <1>3

LEMMA RetiredBuffer ==
  ASSUME TypeOK, NEW k \in 1 .. Len(input_buffer), Retire(k)
  PROVE  /\ input_buffer' \in Seq(Entry) /\ Len(input_buffer') = Len(input_buffer) - 1
         /\ \A i \in 1 .. Len(input_buffer) - 1 :
              input_buffer'[i] = IF i < k THEN input_buffer[i] ELSE input_buffer[i + 1]
<1>1. input_buffer' = RemoveAt(input_buffer, k)
  BY DEF Retire
<1> QED
  BY <1>1, Entries, RemoveAtProperties

\* The task a worker is in has its entry, which becomes FINISHED.
LEMMA FinishedBuffer ==
  ASSUME Inv, NEW w \in Workers, FinishTask(w)
  PROVE  \E k \in 1 .. Len(input_buffer) :
           /\ input_buffer[k].input = worker[w] /\ input_buffer[k].state = RUNNING
           /\ worker[w] \in Funcs
           /\ input_buffer' \in Seq(Entry) /\ Len(input_buffer') = Len(input_buffer)
           /\ \A i \in 1 .. Len(input_buffer) :
                /\ input_buffer'[i].input = input_buffer[i].input
                /\ input_buffer'[i].state = IF i = k THEN FINISHED ELSE input_buffer[i].state
<1>1. w \in Running /\ ~InSection
  BY DEF FinishTask
<1>2. worker[w] \in Funcs /\ worker[w] \in Outstanding
  BY <1>1 DEF Outstanding, Running
<1>3. PICK j \in 1 .. Len(input_buffer) :
        input_buffer[j].input = worker[w] /\ input_buffer[j].state = RUNNING
  BY <1>2 DEF Inv, TasksMatchEntries
<1> DEFINE k == Position(worker[w])
<1>4. k \in 1 .. Len(input_buffer) /\ input_buffer[k].input = worker[w]
  BY <1>3 DEF Position
<1>5. input_buffer[k].state = RUNNING
  BY <1>3, <1>4 DEF Inv, EntriesDistinct
<1>6. input_buffer' = [input_buffer EXCEPT ![k].state = FINISHED]
  BY DEF FinishTask
<1> HIDE DEF k
<1>7. input_buffer' = [input_buffer EXCEPT ![k] = [input_buffer[k] EXCEPT !.state = FINISHED]]
  BY <1>6
<1>8. input_buffer[k] \in Entry /\ [input_buffer[k] EXCEPT !.state = FINISHED] \in Entry
  BY <1>4, Entries DEF Entry, Inv
<1>9. /\ input_buffer' \in Seq(Entry) /\ Len(input_buffer') = Len(input_buffer)
      /\ \A i \in 1 .. Len(input_buffer) :
           input_buffer'[i] = IF i = k THEN [input_buffer[k] EXCEPT !.state = FINISHED]
                                       ELSE input_buffer[i]
  BY <1>4, <1>7, <1>8, Entries, ExceptSeq DEF Inv
<1>10. /\ [input_buffer[k] EXCEPT !.state = FINISHED].input = input_buffer[k].input
       /\ [input_buffer[k] EXCEPT !.state = FINISHED].state = FINISHED
  BY <1>8 DEF Entry
<1> QED
  BY <1>2, <1>4, <1>5, <1>9, <1>10

LEMMA AppendedBuffer ==
  ASSUME Inv, NEW t \in Pushers, PushAppend(t)
  PROVE  /\ arg[t] \in Funcs /\ arg[t] \notin Elements(accepted) /\ ~InSection
         /\ input_buffer' \in Seq(Entry) /\ Len(input_buffer') = Len(input_buffer) + 1
         /\ \A i \in 1 .. Len(input_buffer) : input_buffer'[i] = input_buffer[i]
         /\ input_buffer'[Len(input_buffer) + 1].input = arg[t]
         /\ input_buffer'[Len(input_buffer) + 1].state = NEW_TASK
<1>1. op[t] = "push" /\ ~InSection
  BY DEF PushAppend, Locks
<1>2. arg[t] \in Funcs /\ arg[t] \notin Elements(accepted)
  BY <1>1 DEF Inv, ArgsNew
<1> DEFINE e == [input |-> arg[t], state |-> NEW_TASK]
<1>3. e \in Entry /\ e.input = arg[t] /\ e.state = NEW_TASK
  BY <1>2 DEF Entry
<1>4. input_buffer' = Append(input_buffer, e)
  BY DEF PushAppend
<1> HIDE DEF e
<1> QED
  BY <1>1, <1>2, <1>3, <1>4, Entries, AppendElements DEF Inv

LEMMA ScheduledBuffer ==
  ASSUME TypeOK, EndSection
  PROVE  /\ input_buffer' \in Seq(Entry) /\ Len(input_buffer') = Len(input_buffer)
         /\ \A i \in 1 .. Len(input_buffer) :
              /\ input_buffer'[i].input = input_buffer[i].input
              /\ input_buffer'[i].state = IF i \in Schedulable THEN ScheduledState
                                                               ELSE input_buffer[i].state
<1>1. input_buffer' = [i \in 1 .. Len(input_buffer) |->
                         IF i \in Schedulable THEN [input_buffer[i] EXCEPT !.state = ScheduledState]
                                              ELSE input_buffer[i]]
  BY DEF EndSection
<1>2. ScheduledState \in {NEW_TASK, RUNNING, FINISHED}
  BY DEF ScheduledState
<1> DEFINE e(i) == [input_buffer[i] EXCEPT !.state = ScheduledState]
<1>3. ASSUME NEW i \in 1 .. Len(input_buffer)
      PROVE  e(i) \in Entry /\ e(i).input = input_buffer[i].input /\ e(i).state = ScheduledState
  <2>1. input_buffer[i] \in Entry
    BY Entries
  <2> QED
    BY <1>2, <2>1 DEF Entry
<1>4. \A i \in 1 .. Len(input_buffer) :
        input_buffer'[i] = IF i \in Schedulable THEN e(i) ELSE input_buffer[i]
  BY <1>1
<1>5. input_buffer' \in [1 .. Len(input_buffer) -> Entry]
  BY <1>1, <1>3, Entries
<1>6. input_buffer' \in Seq(Entry) /\ Len(input_buffer') = Len(input_buffer)
  BY <1>5, Entries, SeqDef
<1> HIDE DEF e
<1> QED
  BY <1>3, <1>4, <1>6

\* The tasks a section pushes to the pool.
LEMMA NewTasks ==
  ASSUME TypeOK
  PROVE  /\ Cardinality(Schedulable) \in Nat
         /\ \A i \in Schedulable :
              /\ i \in 1 .. Len(input_buffer) /\ i <= MaxActive
              /\ input_buffer[i].state = NEW_TASK
              /\ TaskOf(i) \in PriorityTask /\ TaskOf(i).func = input_buffer[i].input
<1>1. IsFiniteSet(1 .. Len(input_buffer))
  BY Entries, FS_Interval
<1>2. Schedulable \subseteq 1 .. Len(input_buffer)
  BY DEF Schedulable
<1>3. Cardinality(Schedulable) \in Nat
  BY <1>1, <1>2, FS_Subset, FS_CardinalityType
<1>4. ASSUME NEW i \in Schedulable
      PROVE  /\ i \in 1 .. Len(input_buffer) /\ i <= MaxActive
             /\ input_buffer[i].state = NEW_TASK
             /\ TaskOf(i) \in PriorityTask /\ TaskOf(i).func = input_buffer[i].input
  <2>1. i \in 1 .. Len(input_buffer) /\ i <= MaxActive /\ input_buffer[i].state = NEW_TASK
    BY DEF Schedulable
  <2> DEFINE before == {j \in Schedulable : j < i}
  <2>2. before \subseteq 1 .. Len(input_buffer)
    BY <1>2
  <2>3. Cardinality(before) \in Nat
    BY <1>1, <2>2, FS_Subset, FS_CardinalityType
  <2>4. seq_num + Cardinality(before) \in Nat
    BY <2>3 DEF TypeOK
  <2>5. input_buffer[i].input \in Funcs
    BY <2>1, Entries
  <2>6. TaskOf(i) = [priority |-> 0, seq_num |-> seq_num + Cardinality(before),
                     func |-> input_buffer[i].input]
    BY DEF TaskOf
  <2> HIDE DEF before
  <2> QED
    BY <2>1, <2>4, <2>5, <2>6 DEF PriorityTask
<1> QED
  BY <1>3, <1>4

\* The end of a section, by cases: a stage that is not killed pushes tasks, and
\* a worker or a pusher leaves.
LEMMA EndOfSection ==
  ASSUME Inv, EndSection
  PROVE  /\ InSection /\ mutex' = Unlocked /\ ~InSection'
         /\ cv_stage_clear' \subseteq cv_stage_clear
         /\ \/ /\ ~kill_switch /\ ScheduledState = RUNNING
               /\ tasks' = tasks \cup {TaskOf(i) : i \in Schedulable}
               /\ pool_cv' \subseteq pool_cv
               /\ seq_num' = seq_num + Cardinality(Schedulable)
            \/ /\ kill_switch /\ ScheduledState = FINISHED
               /\ UNCHANGED <<tasks, pool_cv, seq_num>>
         /\ \/ /\ mutex.by \in Workers
               /\ worker' = [worker EXCEPT ![mutex.by] = Free] /\ UNCHANGED <<op, arg>>
            \/ /\ mutex.by \in Pushers /\ mutex.by \notin Workers
               /\ op[mutex.by] = "push" /\ mutex.by \notin cv_ok_to_push
               /\ op' = [op EXCEPT ![mutex.by] = "idle"]
               /\ arg' = [arg EXCEPT ![mutex.by] = NoInput]
               /\ UNCHANGED worker
         /\ UNCHANGED <<stopping, out_of_order, kill_switch, cv_ok_to_push, sink, sink_killed,
                        accepted, delivered>>
<1>1. InSection /\ mutex' = Unlocked /\ ~InSection'
  BY DEF EndSection, InSection
<1>2. cv_stage_clear' \subseteq cv_stage_clear
  BY DEF EndSection, ClearNotified
<1>3. UNCHANGED <<stopping, out_of_order, kill_switch, cv_ok_to_push, sink, sink_killed,
                  accepted, delivered>>
  BY DEF EndSection
<1>4. \/ /\ ~kill_switch /\ ScheduledState = RUNNING
         /\ tasks' = tasks \cup {TaskOf(i) : i \in Schedulable}
         /\ pool_cv' \subseteq pool_cv
         /\ seq_num' = seq_num + Cardinality(Schedulable)
      \/ /\ kill_switch /\ ScheduledState = FINISHED
         /\ UNCHANGED <<tasks, pool_cv, seq_num>>
  <2>1. CASE ScheduledState = RUNNING
    <3>1. ~kill_switch
      BY <2>1 DEF ScheduledState, RUNNING, FINISHED
    <3>2. PushTasks({TaskOf(i) : i \in Schedulable}) /\ seq_num' = seq_num + Cardinality(Schedulable)
      BY <2>1 DEF EndSection
    <3> QED
      BY <2>1, <3>1, <3>2 DEF PushTasks, WakeWorkers
  <2>2. CASE ScheduledState # RUNNING
    BY <2>2 DEF ScheduledState, EndSection
  <2> QED
    BY <2>1, <2>2
<1>5. \/ /\ mutex.by \in Workers
         /\ worker' = [worker EXCEPT ![mutex.by] = Free] /\ UNCHANGED <<op, arg>>
      \/ /\ mutex.by \in Pushers /\ mutex.by \notin Workers
         /\ op[mutex.by] = "push" /\ mutex.by \notin cv_ok_to_push
         /\ op' = [op EXCEPT ![mutex.by] = "idle"]
         /\ arg' = [arg EXCEPT ![mutex.by] = NoInput]
         /\ UNCHANGED worker
  <2>1. CASE mutex.by \in Workers
    BY <2>1 DEF EndSection, TaskReturns
  <2>2. CASE mutex.by \notin Workers
    <3>1. mutex.by \in Pushers
      BY <1>1, <2>2, SectionTyped DEF Inv
    <3>2. op[mutex.by] = "push" /\ mutex.by \notin cv_ok_to_push
      BY <1>1, <3>1 DEF Inv, SectionOK
    <3> QED
      BY <2>2, <3>1, <3>2 DEF EndSection
  <2> QED
    BY <2>1, <2>2
<1> QED
  BY <1>1, <1>2, <1>3, <1>4, <1>5

(***************************************************************************)
(* Type correctness.                                                       *)
(***************************************************************************)
LEMMA TypeInit == Init => TypeOK
<1> SUFFICES ASSUME Init PROVE TypeOK
  OBVIOUS
<1>1. PoolTypeOK
  BY PoolAssumption DEF Init, PoolInit, PoolTypeOK
<1>2. input_buffer = <<>> /\ sink = <<>> /\ accepted = <<>> /\ delivered = <<>>
  BY DEF Init
<1>3. /\ Len(<<>>) = 0 /\ <<>> \in Seq(Funcs)
      /\ <<>> \in Seq([input : Funcs, state : {NEW_TASK, RUNNING, FINISHED}])
  BY EmptySeq
<1>4. BufferSize \in Nat /\ SinkCapacity \in Nat
  BY StageAssumption
<1>5. /\ op \in [Threads -> {"idle", "push", "wait_clear", "clear_loop"}]
      /\ arg \in [Threads -> Funcs \cup {NoInput}]
  BY DEF Init
<1>6. /\ input_buffer \in Seq([input : Funcs, state : {NEW_TASK, RUNNING, FINISHED}])
      /\ Len(input_buffer) <= BufferSize
      /\ sink \in Seq(Funcs) /\ Len(sink) <= SinkCapacity
      /\ accepted \in Seq(Funcs) /\ delivered \in Seq(Funcs)
  BY <1>2, <1>3, <1>4
<1>7. /\ out_of_order \in BOOLEAN /\ kill_switch \in BOOLEAN /\ sink_killed \in BOOLEAN
      /\ seq_num \in Nat /\ mutex \in SectionType \cup {Unlocked}
      /\ cv_ok_to_push = {} /\ cv_stage_clear = {}
  BY DEF Init
<1> QED
  BY <1>1, <1>5, <1>6, <1>7 DEF TypeOK

LEMMA PoolStepTypes ==
  ASSUME PoolTypeOK,
         \/ \E w \in Workers : WorkerStep(w) \/ WorkerSpuriousWakeup(w)
         \/ PoolStop
         \/ UNCHANGED poolVars
  PROVE  PoolTypeOK'
<1> USE PoolAssumption DEF PoolTypeOK
<1>1. ASSUME NEW w \in Workers, WorkerWait(w)
      PROVE  PoolTypeOK'
  BY <1>1 DEF WorkerWait, AwakeWorkers
<1>2. ASSUME NEW w \in Workers, WorkerTake(w)
      PROVE  PoolTypeOK'
  BY <1>2 DEF WorkerTake, AwakeWorkers, PriorityTask
<1>3. ASSUME NEW w \in Workers, WorkerExit(w)
      PROVE  PoolTypeOK'
  BY <1>3 DEF WorkerExit, AwakeWorkers, MayExit
<1>4. ASSUME NEW w \in Workers, WorkerSpuriousWakeup(w)
      PROVE  PoolTypeOK'
  BY <1>4 DEF WorkerSpuriousWakeup
<1>5. CASE PoolStop
  BY <1>5 DEF PoolStop, StopWakes
<1>6. CASE UNCHANGED poolVars
  BY <1>6 DEF poolVars
<1> QED
  BY <1>1, <1>2, <1>3, <1>4, <1>5, <1>6 DEF WorkerStep

LEMMA RetireTypes ==
  ASSUME Inv, RetireFront \/ RetireOwn
  PROVE  TypeOK'
<1>1. PICK k \in 1 .. Len(input_buffer) : Retire(k) /\ mutex' \in SectionType
  BY RetiresFinished
<1>2. /\ input_buffer' \in Seq(Entry) /\ Len(input_buffer') = Len(input_buffer) - 1
  BY <1>1, RetiredBuffer DEF Inv
<1>3. Len(input_buffer') <= BufferSize
  BY <1>2, Entries, StageAssumption DEF Inv, TypeOK
<1>4. /\ sink' \in Seq(Funcs) /\ Len(sink') <= SinkCapacity
      /\ delivered' \in Seq(Funcs)
  <2>1. input_buffer[k].input \in Funcs
    BY Entries DEF Inv
  <2>2. CASE UNCHANGED <<sink, delivered>>
    BY <2>2 DEF Inv, TypeOK
  <2>3. CASE /\ Len(sink) < SinkCapacity
             /\ sink' = Append(sink, input_buffer[k].input)
             /\ delivered' = Append(delivered, input_buffer[k].input)
    <3>1. sink \in Seq(Funcs) /\ delivered \in Seq(Funcs) /\ Len(sink) \in Nat
      BY LenProperties DEF Inv, TypeOK
    <3> QED
      BY <2>1, <2>3, <3>1, AppendElements, StageAssumption
  <2> QED
    BY <1>1, <2>2, <2>3 DEF Retire, Output
<1>5. PoolTypeOK'
  BY <1>1, PoolStepTypes DEF Retire, Inv, TypeOK
<1>6. /\ cv_ok_to_push' \subseteq cv_ok_to_push
      /\ UNCHANGED <<out_of_order, kill_switch, seq_num, cv_stage_clear, op, arg, sink_killed,
                     accepted>>
  BY <1>1 DEF Retire, NotifyOne
<1> QED
  BY <1>1, <1>2, <1>3, <1>4, <1>5, <1>6 DEF Inv, TypeOK, Entry

LEMMA EndSectionTypes ==
  ASSUME Inv, EndSection
  PROVE  TypeOK'
<1>1. /\ input_buffer' \in Seq(Entry) /\ Len(input_buffer') = Len(input_buffer)
  BY ScheduledBuffer DEF Inv
<1>2. /\ mutex' = Unlocked /\ cv_stage_clear' \subseteq cv_stage_clear
      /\ UNCHANGED <<stopping, out_of_order, kill_switch, cv_ok_to_push, sink, sink_killed,
                     accepted, delivered>>
  BY EndOfSection
<1>3. /\ tasks' \subseteq PriorityTask /\ pool_cv' \subseteq pool_cv /\ seq_num' \in Nat
  BY EndOfSection, NewTasks DEF Inv, TypeOK, PoolTypeOK
<1>4. CASE /\ mutex.by \in Workers
           /\ worker' = [worker EXCEPT ![mutex.by] = Free] /\ UNCHANGED <<op, arg>>
  <2>1. PoolTypeOK'
    BY <1>2, <1>3, <1>4, PoolAssumption DEF Inv, TypeOK, PoolTypeOK
  <2> QED
    BY <1>1, <1>2, <1>3, <1>4, <2>1 DEF Inv, TypeOK, Entry
<1>5. CASE /\ mutex.by \in Pushers
           /\ mutex.by \notin cv_ok_to_push
           /\ op' = [op EXCEPT ![mutex.by] = "idle"]
           /\ arg' = [arg EXCEPT ![mutex.by] = NoInput]
           /\ UNCHANGED worker
  <2>1. PoolTypeOK'
    BY <1>2, <1>3, <1>5 DEF Inv, TypeOK, PoolTypeOK
  <2>2. /\ op' \in [Threads -> {"idle", "push", "wait_clear", "clear_loop"}]
        /\ arg' \in [Threads -> Funcs \cup {NoInput}]
    BY <1>5 DEF Inv, TypeOK
  <2>3. \A t \in Threads : t # mutex.by => op'[t] = op[t]
    BY <1>5 DEF Inv, TypeOK
  <2>4. mutex.by \notin ClearWaiters
    BY <1>5, StageAssumption
  <2>5. /\ cv_ok_to_push' \subseteq {t \in Pushers : op'[t] = "push"}
        /\ cv_stage_clear' \subseteq {t \in ClearWaiters : op'[t] = "clear_loop"}
    BY <1>2, <1>5, <2>3, <2>4 DEF Inv, TypeOK, Threads
  <2> QED
    BY <1>1, <1>2, <1>3, <1>5, <2>1, <2>2, <2>5 DEF Inv, TypeOK, Entry
<1> QED
  BY <1>4, <1>5, EndOfSection

LEMMA PushAppendTypes ==
  ASSUME Inv, NEW t \in Pushers, PushAppend(t)
  PROVE  TypeOK'
<1>1. /\ arg[t] \in Funcs
      /\ input_buffer' \in Seq(Entry) /\ Len(input_buffer') = Len(input_buffer) + 1
  BY AppendedBuffer
<1>2. Len(input_buffer') <= BufferSize
  BY <1>1, Entries, StageAssumption DEF PushAppend, Full, Inv
<1>3. accepted' \in Seq(Funcs)
  BY <1>1, AppendElements DEF PushAppend, Inv, TypeOK
<1>4. mutex' \in SectionType
  BY NewSection DEF PushAppend
<1>5. PoolTypeOK'
  BY PoolStepTypes DEF PushAppend, Inv, TypeOK
<1> QED
  BY <1>1, <1>2, <1>3, <1>4, <1>5 DEF PushAppend, Inv, TypeOK, Entry

LEMMA FinishTaskTypes ==
  ASSUME Inv, NEW w \in Workers, FinishTask(w)
  PROVE  TypeOK'
<1>1. /\ worker[w] \in Funcs
      /\ input_buffer' \in Seq(Entry) /\ Len(input_buffer') = Len(input_buffer)
  BY FinishedBuffer
<1>2. mutex' \in SectionType
  BY <1>1, NewSection DEF FinishTask
<1>3. PoolTypeOK'
  BY PoolStepTypes DEF FinishTask, Inv, TypeOK
<1> QED
  BY <1>1, <1>2, <1>3 DEF FinishTask, Inv, TypeOK, Entry

LEMMA CallPushArg ==
  ASSUME NEW t \in Pushers, CallPush(t)
  PROVE  \E d \in NewInputs : arg' = [arg EXCEPT ![t] = d]
<1>1. \E d : d \in NewInputs
  BY DEF CallPush
<1>2. (CHOOSE d \in NewInputs : TRUE) \in NewInputs
  BY <1>1
<1> QED
  BY <1>2 DEF CallPush

LEMMA CallTypes ==
  ASSUME TypeOK,
         \/ \E t \in Pushers : CallPush(t) \/ PushWait(t) \/ PushKilled(t)
         \/ \E t \in ClearWaiters : CallWaitTillClear(t) \/ ClearStep(t)
         \/ \E t \in Threads : SpuriousWakeup(t)
  PROVE  TypeOK'
<1> USE StageAssumption DEF TypeOK, Threads
<1>1. ASSUME NEW t \in Pushers, CallPush(t)
      PROVE  TypeOK'
  <2>1. PICK d \in Funcs : arg' = [arg EXCEPT ![t] = d]
    BY <1>1, CallPushArg DEF NewInputs
  <2>2. PoolTypeOK'
    BY <1>1, PoolStepTypes DEF CallPush
  <2>3. arg' \in [Threads -> Funcs \cup {NoInput}]
    BY <2>1
  <2> QED
    BY <1>1, <2>2, <2>3 DEF CallPush
<1>2. ASSUME NEW t \in Pushers, PushWait(t)
      PROVE  TypeOK'
  <2>1. PoolTypeOK'
    BY <1>2, PoolStepTypes DEF PushWait
  <2> QED
    BY <1>2, <2>1 DEF PushWait, Locks
<1>3. ASSUME NEW t \in Pushers, PushKilled(t)
      PROVE  TypeOK'
  <2>1. PoolTypeOK'
    BY <1>3, PoolStepTypes DEF PushKilled
  <2> QED
    BY <1>3, <2>1 DEF PushKilled, Locks
<1>4. ASSUME NEW t \in ClearWaiters, CallWaitTillClear(t)
      PROVE  TypeOK'
  <2>1. PoolTypeOK'
    BY <1>4, PoolStepTypes DEF CallWaitTillClear
  <2> QED
    BY <1>4, <2>1 DEF CallWaitTillClear
<1>5. ASSUME NEW t \in ClearWaiters, ClearWait(t)
      PROVE  TypeOK'
  <2>1. PoolTypeOK'
    BY <1>5, PoolStepTypes DEF ClearWait
  <2> QED
    BY <1>5, <2>1 DEF ClearWait, Locks
<1>6. ASSUME NEW t \in ClearWaiters, ClearReturn(t)
      PROVE  TypeOK'
  <2>1. PoolTypeOK'
    BY <1>6, PoolStepTypes DEF ClearReturn
  <2> QED
    BY <1>6, <2>1 DEF ClearReturn, ClearReturns, Locks
<1>7. ASSUME NEW t \in Threads, SpuriousWakeup(t)
      PROVE  TypeOK'
  <2>1. PoolTypeOK'
    BY <1>7, PoolStepTypes DEF SpuriousWakeup
  <2> QED
    BY <1>7, <2>1 DEF SpuriousWakeup
<1> QED
  BY <1>1, <1>2, <1>3, <1>4, <1>5, <1>6, <1>7 DEF ClearStep

LEMMA TypeStep ==
  ASSUME Inv, [Next]_vars
  PROVE  TypeOK'
<1>1. TypeOK
  BY DEF Inv
<1>2. ASSUME NEW w \in Workers, PoolStep(w) \/ (WorkerSpuriousWakeup(w) /\ UNCHANGED stageVars)
      PROVE  TypeOK'
  <2>1. PoolTypeOK'
    BY <1>1, <1>2, PoolStepTypes DEF PoolStep, TypeOK
  <2> QED
    BY <1>1, <1>2, <2>1 DEF PoolStep, stageVars, TypeOK
<1>3. CASE StopPool
  <2>1. PoolTypeOK'
    BY <1>1, <1>3, PoolStepTypes DEF StopPool, TypeOK
  <2> QED
    BY <1>1, <1>3, <2>1 DEF StopPool, stageVars, TypeOK
<1>4. CASE Stop
  <2>1. PoolTypeOK'
    BY <1>1, <1>4, PoolStepTypes DEF Stop, TypeOK
  <2> QED
    BY <1>1, <1>4, <2>1 DEF Stop, TypeOK
<1>5. CASE SinkPop
  <2>1. PoolTypeOK'
    BY <1>1, <1>5, PoolStepTypes DEF SinkPop, TypeOK
  <2>2. sink' \in Seq(Funcs) /\ Len(sink') <= SinkCapacity
    <3>1. sink \in Seq(Funcs) /\ Len(sink) <= SinkCapacity /\ sink # <<>> /\ sink' = Tail(sink)
      BY <1>1, <1>5 DEF SinkPop, TypeOK
    <3>2. Tail(sink) \in Seq(Funcs) /\ Len(Tail(sink)) = Len(sink) - 1 /\ Len(sink) \in Nat
      BY <3>1, HeadTailProperties, LenProperties
    <3> QED
      BY <3>1, <3>2, StageAssumption
  <2> QED
    BY <1>1, <1>5, <2>1, <2>2 DEF SinkPop, TypeOK
<1>6. CASE EndSink
  <2>1. PoolTypeOK'
    BY <1>1, <1>6, PoolStepTypes DEF EndSink, TypeOK
  <2> QED
    BY <1>1, <1>6, <2>1 DEF EndSink, TypeOK
<1>7. CASE UNCHANGED vars
  <2>1. PoolTypeOK'
    BY <1>1, <1>7, PoolStepTypes DEF vars, TypeOK
  <2> QED
    BY <1>1, <1>7, <2>1 DEF vars, stageVars, TypeOK
<1> QED
  BY <1>1, <1>2, <1>3, <1>4, <1>5, <1>6, <1>7, CallTypes, PushAppendTypes, FinishTaskTypes,
     RetireTypes, EndSectionTypes
  DEF Next, PushStep, SectionStep

(***************************************************************************)
(* The arguments of the callers, and the critical section.                 *)
(***************************************************************************)
LEMMA SameArgs ==
  ASSUME ArgsNew, accepted' = accepted,
         \A t \in Pushers : op'[t] = "push" => op[t] = "push" /\ arg'[t] = arg[t],
         \/ mutex' = mutex
         \/ ~InSection
         \/ InSection' /\ mutex'.by = mutex.by
  PROVE  ArgsNew'
BY DEF ArgsNew, InSection

LEMMA CallPushArgs ==
  ASSUME Inv, NEW t \in Pushers, CallPush(t)
  PROVE  ArgsNew'
<1>1. PICK d \in NewInputs : arg' = [arg EXCEPT ![t] = d]
  BY CallPushArg
<1>2. d \in Funcs /\ d \notin Elements(accepted) /\ \A u \in Pushers : arg[u] # d
  BY DEF NewInputs
<1>3. t \in Threads /\ op \in [Threads -> {"idle", "push", "wait_clear", "clear_loop"}]
  BY DEF Inv, TypeOK, Threads
<1>4. /\ op'[t] = "push" /\ arg'[t] = d
      /\ \A u \in Pushers \ {t} : op'[u] = op[u] /\ arg'[u] = arg[u]
  BY <1>1, <1>3 DEF CallPush, Inv, TypeOK, Threads
<1>5. accepted' = accepted /\ mutex' = mutex
  BY DEF CallPush
<1> QED
  BY <1>2, <1>4, <1>5 DEF Inv, ArgsNew, InSection

LEMMA PushAppendArgs ==
  ASSUME Inv, NEW t \in Pushers, PushAppend(t)
  PROVE  ArgsNew'
<1>1. arg[t] \in Funcs /\ ~InSection /\ op[t] = "push"
  BY AppendedBuffer DEF PushAppend, Locks
<1>2. Elements(accepted') = Elements(accepted) \cup {arg[t]}
  BY <1>1, AppendElements DEF PushAppend, Inv, TypeOK
<1>3. Elements(accepted)' = Elements(accepted')
  BY DEF Elements
<1>4. InSection' /\ mutex'.by = t /\ op' = op /\ arg' = arg
  BY NewSection DEF PushAppend
<1> QED
  BY <1>1, <1>2, <1>3, <1>4 DEF Inv, ArgsNew

LEMMA EndSectionArgs ==
  ASSUME Inv, EndSection
  PROVE  ArgsNew'
<1>1. InSection /\ ~InSection' /\ accepted' = accepted
  BY EndOfSection
<1>2. CASE UNCHANGED <<op, arg>> /\ mutex.by \in Workers
  <2>1. mutex.by \notin Pushers
    BY <1>2, StageAssumption DEF Threads
  <2> QED
    BY <1>1, <1>2, <2>1 DEF Inv, ArgsNew
<1>3. CASE /\ mutex.by \in Pushers
           /\ op' = [op EXCEPT ![mutex.by] = "idle"]
           /\ arg' = [arg EXCEPT ![mutex.by] = NoInput]
  <2>1. /\ op'[mutex.by] = "idle"
        /\ \A t \in Pushers \ {mutex.by} : op'[t] = op[t] /\ arg'[t] = arg[t]
    BY <1>3 DEF Inv, TypeOK, Threads
  <2> QED
    BY <1>1, <2>1 DEF Inv, ArgsNew
<1> QED
  BY <1>2, <1>3, EndOfSection

LEMMA ArgsStep ==
  ASSUME Inv, [Next]_vars
  PROVE  ArgsNew'
<1>1. ArgsNew
  BY DEF Inv
<1>2. ASSUME NEW t \in Pushers, PushWait(t)
      PROVE  ArgsNew'
  BY <1>1, <1>2, SameArgs DEF PushWait
<1>3. ASSUME NEW t \in Pushers, PushKilled(t)
      PROVE  ArgsNew'
  <2>1. \A u \in Pushers : op'[u] = "push" => op[u] = "push" /\ arg'[u] = arg[u]
    BY <1>3 DEF PushKilled, Inv, TypeOK, Threads
  <2> QED
    BY <1>1, <1>3, <2>1, SameArgs DEF PushKilled
<1>4. ASSUME NEW t \in ClearWaiters, CallWaitTillClear(t) \/ ClearStep(t)
      PROVE  ArgsNew'
  <2>1. \A u \in Pushers : op'[u] = "push" => op[u] = "push"
    BY <1>4 DEF CallWaitTillClear, ClearStep, ClearWait, ClearReturn, Inv, TypeOK, Threads
  <2>2. accepted' = accepted /\ arg' = arg /\ mutex' = mutex
    BY <1>4 DEF CallWaitTillClear, ClearStep, ClearWait, ClearReturn
  <2> QED
    BY <1>1, <2>1, <2>2, SameArgs
<1>5. ASSUME NEW t \in Threads, SpuriousWakeup(t)
      PROVE  ArgsNew'
  BY <1>1, <1>5, SameArgs DEF SpuriousWakeup
<1>6. ASSUME UNCHANGED stageVars
      PROVE  ArgsNew'
  BY <1>1, <1>6, SameArgs DEF stageVars
<1>7. ASSUME NEW w \in Workers, FinishTask(w)
      PROVE  ArgsNew'
  BY <1>1, <1>7, SameArgs DEF FinishTask
<1>8. CASE RetireFront \/ RetireOwn
  <2>1. PICK k : Retire(k) /\ InSection' /\ mutex'.by = mutex.by
    BY <1>8, RetiresFinished
  <2> QED
    BY <1>1, <2>1, SameArgs DEF Retire
<1>9. CASE Stop \/ SinkPop \/ EndSink
  BY <1>1, <1>9, SameArgs DEF Stop, SinkPop, EndSink
<1> QED
  BY <1>2, <1>3, <1>4, <1>5, <1>6, <1>7, <1>8, <1>9, CallPushArgs, PushAppendArgs, EndSectionArgs
  DEF Next, PushStep, SectionStep, PoolStep, StopPool, vars

LEMMA SameSection ==
  ASSUME SectionOK, mutex' = mutex, out_of_order' = out_of_order, input_buffer' = input_buffer,
         cv_ok_to_push' \subseteq cv_ok_to_push,
         InSection /\ mutex.by \in Pushers => op'[mutex.by] = op[mutex.by],
         \A w \in Workers : worker[w] \in Funcs => worker'[w] = worker[w]
  PROVE  SectionOK'
BY DEF SectionOK, InSection

LEMMA SectionOKStep ==
  ASSUME Inv, [Next]_vars
  PROVE  SectionOK'
<1>1. SectionOK
  BY DEF Inv
<1>2. ASSUME ~InSection, mutex' = mutex
      PROVE  SectionOK'
  BY <1>2 DEF SectionOK, InSection
<1>3. ASSUME NEW t \in Pushers, CallPush(t)
      PROVE  SectionOK'
  <2>1. op[t] = "idle" /\ \A u \in Pushers : op[u] = "push" => op'[u] = op[u]
    BY <1>3 DEF CallPush, Inv, TypeOK, Threads
  <2>2. InSection /\ mutex.by \in Pushers => op'[mutex.by] = op[mutex.by]
    BY <1>1, <2>1 DEF SectionOK
  <2> QED
    BY <1>1, <1>3, <2>2, SameSection DEF CallPush, poolVars
<1>4. ASSUME NEW t \in Pushers, PushWait(t) \/ PushKilled(t)
      PROVE  SectionOK'
  BY <1>2, <1>4 DEF PushWait, PushKilled, Locks
<1>5. ASSUME NEW t \in Pushers, PushAppend(t)
      PROVE  SectionOK'
  <2>1. op[t] = "push" /\ t \notin cv_ok_to_push /\ t \notin Workers
    BY <1>5, StageAssumption DEF PushAppend, Locks, Threads
  <2>2. mutex'.by = t /\ mutex'.todo # "own"
    BY <1>5, NewSection DEF PushAppend
  <2> QED
    BY <1>5, <2>1, <2>2 DEF SectionOK, PushAppend
<1>6. ASSUME NEW w \in Workers, FinishTask(w)
      PROVE  SectionOK'
  <2>1. PICK k \in 1 .. Len(input_buffer) :
           /\ input_buffer[k].input = worker[w] /\ worker[w] \in Funcs
           /\ Len(input_buffer') = Len(input_buffer)
           /\ input_buffer'[k].input = input_buffer[k].input
           /\ input_buffer'[k].state = FINISHED
    BY <1>6, FinishedBuffer
  <2>2. mutex'.by = w /\ mutex'.it = worker[w] /\ (mutex'.todo = "own" => out_of_order)
    BY <1>6, <2>1, NewSection DEF FinishTask
  <2>3. w \notin Pushers
    BY StageAssumption DEF Threads
  <2>4. worker' = worker /\ out_of_order' = out_of_order
    BY <1>6 DEF FinishTask, poolVars
  <2> QED
    BY <2>1, <2>2, <2>3, <2>4 DEF SectionOK
<1>7. CASE RetireFront \/ RetireOwn
  <2>1. PICK k : Retire(k) /\ mutex'.by = mutex.by /\ mutex'.todo # "own"
    BY <1>7, RetiresFinished
  <2>2. /\ cv_ok_to_push' \subseteq cv_ok_to_push /\ worker' = worker /\ op' = op
    BY <2>1 DEF Retire, NotifyOne, poolVars
  <2>3. InSection
    BY <1>7 DEF RetireFront, RetireOwn
  <2> QED
    BY <1>1, <2>1, <2>2, <2>3 DEF SectionOK
<1>8. CASE EndSection
  BY <1>8, EndOfSection DEF SectionOK
<1>9. ASSUME NEW t \in ClearWaiters, CallWaitTillClear(t)
      PROVE  SectionOK'
  <2>1. \A u \in Pushers : op'[u] = op[u]
    BY <1>9, StageAssumption DEF CallWaitTillClear, Inv, TypeOK, Threads
  <2> QED
    BY <1>1, <1>9, <2>1, SameSection DEF CallWaitTillClear, poolVars
<1>10. ASSUME NEW t \in ClearWaiters, ClearStep(t)
       PROVE  SectionOK'
  BY <1>2, <1>10 DEF ClearStep, ClearWait, ClearReturn, ClearReturns, Locks
<1>11. ASSUME NEW t \in Threads, SpuriousWakeup(t)
       PROVE  SectionOK'
  BY <1>1, <1>11, SameSection DEF SpuriousWakeup, poolVars
<1>12. ASSUME NEW w \in Workers, WorkerStep(w) \/ WorkerSpuriousWakeup(w), UNCHANGED stageVars
       PROVE  SectionOK'
  <2>1. \A v \in Workers : worker[v] \in Funcs => worker'[v] = worker[v]
    BY <1>12, PoolAssumption
    DEF WorkerStep, WorkerWait, WorkerTake, WorkerExit, WorkerSpuriousWakeup, AwakeWorkers,
        Inv, TypeOK, PoolTypeOK
  <2> QED
    BY <1>1, <1>12, <2>1, SameSection DEF stageVars
<1>13. CASE Stop
  BY <1>2, <1>13 DEF Stop
<1>14. CASE StopPool
  BY <1>1, <1>14, SameSection DEF StopPool, PoolStop, stageVars
<1>15. CASE SinkPop \/ EndSink
  BY <1>1, <1>15, SameSection DEF SinkPop, EndSink, poolVars
<1>16. CASE UNCHANGED vars
  BY <1>1, <1>16, SameSection DEF vars, poolVars, stageVars
<1> QED
  BY <1>3, <1>4, <1>5, <1>6, <1>7, <1>8, <1>9, <1>10, <1>11, <1>12, <1>13, <1>14, <1>15, <1>16
  DEF Next, PushStep, SectionStep, PoolStep

\* The pool is stopped after the kill switch is set.
LEMMA StopOrderStep ==
  ASSUME Inv, [Next]_vars
  PROVE  stopping' => kill_switch'
<1> SUFFICES ASSUME stopping' PROVE kill_switch'
  OBVIOUS
<1>1. CASE StopPool
  BY <1>1 DEF StopPool, stageVars
<1>2. \/ stopping' = stopping /\ kill_switch' \in {kill_switch, TRUE}
      \/ StopPool
  BY DEF Next, vars, poolVars, stageVars, CallPush, PushStep, PushWait, PushKilled, PushAppend,
     CallWaitTillClear, ClearStep, ClearWait, ClearReturn, SpuriousWakeup, PoolStep, WorkerStep,
     WorkerWait, WorkerTake, WorkerExit, WorkerSpuriousWakeup, FinishTask, SectionStep,
     RetireFront, RetireOwn, Retire, EndSection, Stop, SinkPop, EndSink
<1> QED
  BY <1>1, <1>2 DEF Inv, TypeOK, PoolTypeOK

(***************************************************************************)
(* Tasks and entries.                                                      *)
(***************************************************************************)
RunningInputs ==
  {input_buffer[i].input : i \in {j \in 1 .. Len(input_buffer) : input_buffer[j].state = RUNNING}}
RunningFirst ==
  \A i \in 1 .. Len(input_buffer) : input_buffer[i].state = RUNNING => i <= MaxActive

LEMMA Matching ==
  /\ TasksMatchEntries <=> Outstanding = RunningInputs /\ RunningFirst
  /\ TasksMatchEntries' <=> Outstanding' = RunningInputs' /\ RunningFirst'
BY DEF TasksMatchEntries, RunningInputs, RunningFirst

LEMMA OutstandingIs ==
  /\ Outstanding = {t.func : t \in tasks} \cup {worker[w] : w \in Active}
  /\ Outstanding' = {t.func : t \in tasks'} \cup {worker'[w] : w \in Active'}
BY DEF Outstanding, Active

LEMMA WorkerCount == MaxActive \in Nat
BY PoolAssumption, FS_CardinalityType DEF MaxActive

\* Nothing happens to the tasks, the section or the entries.
LEMMA SameMatching ==
  ASSUME TasksMatchEntries, OutstandingOnce, tasks' = tasks, mutex' = mutex,
         input_buffer' = input_buffer, Running' = Running,
         \A w \in Running : worker'[w] = worker[w]
  PROVE  TasksMatchEntries' /\ OutstandingOnce'
<1>1. Active' = Active /\ \A w \in Active : worker'[w] = worker[w]
  BY DEF Active, InSection
<1>2. Outstanding' = Outstanding
  BY <1>1, OutstandingIs
<1>3. OutstandingOnce'
  BY <1>1 DEF OutstandingOnce
<1> QED
  BY <1>2, <1>3 DEF TasksMatchEntries

LEMMA TakeMatching ==
  ASSUME Inv, NEW w \in Workers, WorkerTake(w), UNCHANGED stageVars
  PROVE  TasksMatchEntries' /\ OutstandingOnce'
<1>1. PICK top \in tasks : tasks' = tasks \ {top} /\ worker' = [worker EXCEPT ![w] = top.func]
  BY DEF WorkerTake
<1>2. worker[w] = Free /\ w \notin Running /\ top.func \in Funcs
  BY PoolAssumption DEF WorkerTake, AwakeWorkers, Running, Inv, TypeOK, PoolTypeOK, PriorityTask
<1>3. /\ worker'[w] = top.func /\ \A v \in Workers \ {w} : worker'[v] = worker[v]
  BY <1>1 DEF Inv, TypeOK, PoolTypeOK
<1>4. mutex' = mutex /\ input_buffer' = input_buffer
  BY DEF stageVars
<1>5. Active' = Active \cup {w} /\ w \notin Active
  <2>1. Running' = Running \cup {w}
    BY <1>2, <1>3 DEF Running
  <2>2. ~InSection \/ mutex.by # w
    <3>1. InSection => worker[mutex.by] \in Funcs \/ mutex.by \notin Workers
      BY DEF Inv, SectionOK
    <3> QED
      BY <1>2, <3>1, PoolAssumption
  <2> QED
    BY <1>2, <1>4, <2>1, <2>2 DEF Active, InSection
<1>6. \A v \in Active : worker'[v] = worker[v]
  BY <1>3, <1>5 DEF Active, Running
<1>7. {t.func : t \in tasks} = {t.func : t \in tasks'} \cup {top.func}
  BY <1>1
<1>8. {worker'[v] : v \in Active'} = {worker[v] : v \in Active} \cup {top.func}
  BY <1>3, <1>5, <1>6
<1>9. Outstanding' = Outstanding
  BY <1>7, <1>8, OutstandingIs
<1>10. OutstandingOnce'
  <2>1. \A v \in Active : worker[v] # top.func
    BY DEF Inv, OutstandingOnce
  <2>2. \A t \in tasks' : t \in tasks /\ t.func # top.func
    BY <1>1 DEF Inv, OutstandingOnce
  <2>3. \A t \in tasks', v \in Active' : t.func # worker'[v]
    BY <1>3, <1>5, <1>6, <2>2 DEF Inv, OutstandingOnce
  <2>4. \A u, v \in Active' : worker'[u] = worker'[v] => u = v
    BY <1>3, <1>5, <1>6, <2>1 DEF Inv, OutstandingOnce
  <2> QED
    BY <2>2, <2>3, <2>4 DEF OutstandingOnce, Inv
<1> QED
  BY <1>4, <1>9, <1>10 DEF Inv, TasksMatchEntries

LEMMA AppendMatching ==
  ASSUME Inv, NEW t \in Pushers, PushAppend(t)
  PROVE  TasksMatchEntries' /\ OutstandingOnce'
<1>1. /\ ~InSection /\ Len(input_buffer') = Len(input_buffer) + 1
      /\ \A i \in 1 .. Len(input_buffer) : input_buffer'[i] = input_buffer[i]
      /\ input_buffer'[Len(input_buffer) + 1].state = NEW_TASK
  BY AppendedBuffer
<1>2. Len(input_buffer) \in Nat
  BY Entries DEF Inv
<1>3. \A i \in 1 .. Len(input_buffer') :
        \/ i \in 1 .. Len(input_buffer)
        \/ i = Len(input_buffer) + 1 /\ input_buffer'[i].state # RUNNING
  BY <1>1, <1>2 DEF NEW_TASK, RUNNING
<1>4. 1 .. Len(input_buffer) \subseteq 1 .. Len(input_buffer')
  BY <1>1, <1>2
<1>5. RunningInputs' = RunningInputs
  BY <1>1, <1>3, <1>4 DEF RunningInputs
<1>6. RunningFirst'
  BY <1>1, <1>3, Matching DEF RunningFirst, Inv
<1>7. tasks' = tasks /\ worker' = worker
  BY DEF PushAppend, poolVars
<1>8. Active' = Active
  <2>1. InSection' /\ mutex'.by = t /\ t \notin Workers
    BY NewSection, StageAssumption DEF PushAppend, Threads
  <2> QED
    BY <1>1, <1>7, <2>1 DEF Active, Running
<1>9. Outstanding' = Outstanding /\ OutstandingOnce'
  BY <1>7, <1>8, OutstandingIs DEF OutstandingOnce, Inv
<1>10. Outstanding = RunningInputs
  BY Matching DEF Inv
<1> QED
  BY <1>5, <1>6, <1>9, <1>10, Matching

LEMMA FinishMatching ==
  ASSUME Inv, NEW w \in Workers, FinishTask(w)
  PROVE  TasksMatchEntries' /\ OutstandingOnce'
<1>1. PICK k \in 1 .. Len(input_buffer) :
        /\ input_buffer[k].input = worker[w] /\ input_buffer[k].state = RUNNING
        /\ worker[w] \in Funcs
        /\ Len(input_buffer') = Len(input_buffer)
        /\ \A i \in 1 .. Len(input_buffer) :
             /\ input_buffer'[i].input = input_buffer[i].input
             /\ input_buffer'[i].state = IF i = k THEN FINISHED ELSE input_buffer[i].state
  BY FinishedBuffer
<1>2. RunningInputs' = RunningInputs \ {worker[w]}
  <2>1. \A i \in 1 .. Len(input_buffer) : i # k => input_buffer[i].input # worker[w]
    BY <1>1 DEF Inv, EntriesDistinct
  <2>2. \A i \in 1 .. Len(input_buffer) :
          input_buffer'[i].state = RUNNING <=> (i # k /\ input_buffer[i].state = RUNNING)
    BY <1>1 DEF RUNNING, FINISHED
  <2> QED
    BY <1>1, <2>1, <2>2 DEF RunningInputs
<1>3. RunningFirst'
  BY <1>1, Matching DEF RunningFirst, Inv, RUNNING, FINISHED
<1>4. tasks' = tasks /\ worker' = worker /\ ~InSection /\ w \in Running
  BY DEF FinishTask, poolVars
<1>5. Active = Active' \cup {w} /\ w \notin Active' /\ Active = Running
  <2>1. InSection' /\ mutex'.by = w
    BY <1>1, NewSection DEF FinishTask
  <2> QED
    BY <1>4, <2>1 DEF Active, Running
<1>6. Outstanding' = Outstanding \ {worker[w]}
  <2>1. \A v \in Active' : worker[v] # worker[w]
    BY <1>5 DEF Inv, OutstandingOnce
  <2>2. \A t \in tasks : t.func # worker[w]
    BY <1>5 DEF Inv, OutstandingOnce
  <2>3. {worker[v] : v \in Active'} = {worker[v] : v \in Active} \ {worker[w]}
    BY <1>5, <2>1
  <2>4. Outstanding' = {t.func : t \in tasks} \cup {worker[v] : v \in Active'}
    BY <1>4, OutstandingIs
  <2> QED
    BY <2>2, <2>3, <2>4, OutstandingIs
<1>7. OutstandingOnce'
  BY <1>4, <1>5 DEF OutstandingOnce, Inv
<1>8. Outstanding = RunningInputs
  BY Matching DEF Inv
<1> QED
  BY <1>2, <1>3, <1>6, <1>7, <1>8, Matching

LEMMA RetireMatching ==
  ASSUME Inv, RetireFront \/ RetireOwn
  PROVE  TasksMatchEntries' /\ OutstandingOnce'
<1>1. PICK k \in 1 .. Len(input_buffer) :
        /\ input_buffer[k].state = FINISHED /\ Retire(k)
        /\ InSection' /\ mutex'.by = mutex.by
  BY RetiresFinished
<1>2. /\ Len(input_buffer') = Len(input_buffer) - 1
      /\ \A i \in 1 .. Len(input_buffer) - 1 :
           input_buffer'[i] = IF i < k THEN input_buffer[i] ELSE input_buffer[i + 1]
  BY <1>1, RetiredBuffer DEF Inv
<1>3. Len(input_buffer) \in Nat
  BY Entries DEF Inv
<1>4. FINISHED # RUNNING
  BY DEF FINISHED, RUNNING
<1>5. ASSUME NEW i \in 1 .. Len(input_buffer'), input_buffer'[i].state = RUNNING
      PROVE  /\ i <= MaxActive
             /\ input_buffer'[i].input \in RunningInputs
  <2>1. CASE i < k
    BY <1>2, <1>3, <1>5, <2>1, Matching DEF Inv, RunningFirst, RunningInputs
  <2>2. CASE ~(i < k)
    <3>1. i + 1 \in 1 .. Len(input_buffer) /\ input_buffer'[i] = input_buffer[i + 1]
      BY <1>2, <1>3, <2>2
    <3>2. i + 1 <= MaxActive
      BY <1>5, <3>1, Matching DEF Inv, RunningFirst
    <3>3. i <= MaxActive
      BY <1>2, <1>3, <3>2, WorkerCount
    <3> QED
      BY <1>5, <3>1, <3>3 DEF RunningInputs
  <2> QED
    BY <2>1, <2>2
<1>6. ASSUME NEW i \in 1 .. Len(input_buffer), input_buffer[i].state = RUNNING
      PROVE  input_buffer[i].input \in RunningInputs'
  <2>1. i # k
    BY <1>1, <1>4, <1>6
  <2> DEFINE j == IF i < k THEN i ELSE i - 1
  <2>2. j \in 1 .. Len(input_buffer') /\ input_buffer'[j] = input_buffer[i]
    BY <1>2, <1>3, <2>1
  <2> HIDE DEF j
  <2> QED
    BY <1>6, <2>2 DEF RunningInputs
<1>7. RunningInputs' = RunningInputs
  <2>1. RunningInputs' \subseteq RunningInputs
    BY <1>5 DEF RunningInputs
  <2>2. RunningInputs \subseteq RunningInputs'
    BY <1>6 DEF RunningInputs
  <2> QED
    BY <2>1, <2>2
<1>8. tasks' = tasks /\ worker' = worker /\ InSection
  BY <1>1 DEF Retire, poolVars, RetireFront, RetireOwn
<1>9. Active' = Active
  BY <1>1, <1>8 DEF Active, Running
<1>10. Outstanding' = Outstanding /\ OutstandingOnce'
  BY <1>8, <1>9, OutstandingIs DEF OutstandingOnce, Inv
<1>11. Outstanding = RunningInputs
  BY Matching DEF Inv
<1>12. RunningFirst'
  BY <1>5 DEF RunningFirst
<1> QED
  BY <1>7, <1>10, <1>11, <1>12, Matching

LEMMA EndMatching ==
  ASSUME Inv, EndSection
  PROVE  TasksMatchEntries' /\ OutstandingOnce'
<1>1. /\ Len(input_buffer') = Len(input_buffer)
      /\ \A i \in 1 .. Len(input_buffer) :
           /\ input_buffer'[i].input = input_buffer[i].input
           /\ input_buffer'[i].state = IF i \in Schedulable THEN ScheduledState
                                                            ELSE input_buffer[i].state
  BY ScheduledBuffer DEF Inv
<1>2. \A i \in Schedulable : /\ i \in 1 .. Len(input_buffer) /\ i <= MaxActive
                             /\ input_buffer[i].state # RUNNING
                             /\ TaskOf(i).func = input_buffer[i].input
  BY NewTasks DEF Inv, NEW_TASK, RUNNING
<1>3. Active' = Active /\ \A v \in Active : worker'[v] = worker[v]
  <2>1. InSection /\ ~InSection'
    BY EndOfSection
  <2>2. CASE mutex.by \in Workers /\ worker' = [worker EXCEPT ![mutex.by] = Free]
    <3>1. /\ worker'[mutex.by] = Free
          /\ \A v \in Workers \ {mutex.by} : worker'[v] = worker[v]
      BY <2>2 DEF Inv, TypeOK, PoolTypeOK
    <3> QED
      BY <2>1, <2>2, <3>1, PoolAssumption DEF Active, Running
  <2>3. CASE mutex.by \notin Workers /\ UNCHANGED worker
    BY <2>1, <2>3 DEF Active, Running
  <2> QED
    BY <2>2, <2>3, EndOfSection
<1>4. {worker'[v] : v \in Active'} = {worker[v] : v \in Active}
  BY <1>3
<1>5. RunningFirst'
  BY <1>1, <1>2, Matching DEF RunningFirst, Inv
<1>6. Outstanding = RunningInputs /\ OutstandingOnce
  BY Matching DEF Inv
<1>7. CASE kill_switch /\ ScheduledState = FINISHED /\ UNCHANGED <<tasks, pool_cv, seq_num>>
  <2>1. \A i \in 1 .. Len(input_buffer) :
          input_buffer'[i].state = RUNNING <=> input_buffer[i].state = RUNNING
    BY <1>1, <1>2, <1>7 DEF RUNNING, FINISHED
  <2>2. RunningInputs' = RunningInputs
    BY <1>1, <2>1 DEF RunningInputs
  <2>3. Outstanding' = Outstanding
    BY <1>4, <1>7, OutstandingIs
  <2>4. OutstandingOnce'
    BY <1>3, <1>6, <1>7 DEF OutstandingOnce
  <2> QED
    BY <1>5, <1>6, <2>2, <2>3, <2>4, Matching
<1>8. CASE /\ ~kill_switch /\ ScheduledState = RUNNING
           /\ tasks' = tasks \cup {TaskOf(i) : i \in Schedulable}
  <2>1. \A i \in 1 .. Len(input_buffer) :
          input_buffer'[i].state = RUNNING <=> i \in Schedulable \/ input_buffer[i].state = RUNNING
    BY <1>1, <1>8
  <2> DEFINE new == {input_buffer[i].input : i \in Schedulable}
  <2>2. RunningInputs' = RunningInputs \cup new
    BY <1>1, <1>2, <2>1 DEF RunningInputs
  <2>3. {t.func : t \in tasks'} = {t.func : t \in tasks} \cup new
    BY <1>2, <1>8
  <2>4. Outstanding' = Outstanding \cup new
    BY <1>4, <2>3, OutstandingIs
  <2>5. \A i \in Schedulable : input_buffer[i].input \notin Outstanding
    BY <1>2, <1>6 DEF RunningInputs, EntriesDistinct, Inv
  <2>6. \A t \in tasks' : \/ t \in tasks /\ t.func \in Outstanding
                          \/ \E i \in Schedulable : /\ t = TaskOf(i)
                                                    /\ t.func = input_buffer[i].input
    BY <1>2, <1>8, OutstandingIs
  <2>7. \A i, j \in Schedulable : input_buffer[i].input = input_buffer[j].input => i = j
    BY <1>2 DEF EntriesDistinct, Inv
  <2>8. \A s, t \in tasks' : s.func = t.func => s = t
    <3>1. ASSUME NEW s \in tasks', NEW t \in tasks', s.func = t.func
          PROVE  s = t
      <4>1. CASE s.func \in Outstanding
        BY <1>6, <2>5, <2>6, <3>1, <4>1 DEF OutstandingOnce
      <4>2. CASE s.func \notin Outstanding
        BY <2>6, <2>7, <3>1, <4>2
      <4> QED
        BY <4>1, <4>2
    <3> QED
      BY <3>1
  <2>9. \A v \in Active : worker[v] \in Outstanding
    BY OutstandingIs
  <2>10. \A t \in tasks', v \in Active' : t.func # worker'[v]
    BY <1>3, <1>6, <2>5, <2>6, <2>9 DEF OutstandingOnce
  <2>11. OutstandingOnce'
    BY <1>3, <1>6, <2>8, <2>10 DEF OutstandingOnce
  <2> QED
    BY <1>5, <1>6, <2>2, <2>4, <2>11, Matching
<1> QED
  BY <1>7, <1>8, EndOfSection

LEMMA MatchingStep ==
  ASSUME Inv, [Next]_vars
  PROVE  TasksMatchEntries' /\ OutstandingOnce'
<1>1. TasksMatchEntries /\ OutstandingOnce
  BY DEF Inv
<1>2. ASSUME UNCHANGED poolVars, UNCHANGED <<mutex, input_buffer>>
      PROVE  TasksMatchEntries' /\ OutstandingOnce'
  BY <1>1, <1>2, SameMatching DEF poolVars, Running
<1>3. ASSUME NEW w \in Workers, WorkerWait(w) \/ WorkerSpuriousWakeup(w), UNCHANGED stageVars
      PROVE  TasksMatchEntries' /\ OutstandingOnce'
  BY <1>1, <1>3, SameMatching DEF WorkerWait, WorkerSpuriousWakeup, stageVars, Running
<1>4. ASSUME NEW w \in Workers, WorkerExit(w), UNCHANGED stageVars
      PROVE  TasksMatchEntries' /\ OutstandingOnce'
  <2>1. worker[w] = Free /\ worker' = [worker EXCEPT ![w] = Exited]
    BY <1>4 DEF WorkerExit, AwakeWorkers
  <2>2. Running' = Running /\ \A v \in Running : worker'[v] = worker[v]
    BY <2>1, PoolAssumption DEF Running, Inv, TypeOK, PoolTypeOK
  <2> QED
    BY <1>1, <1>4, <2>2, SameMatching DEF WorkerExit, stageVars
<1>5. CASE StopPool
  BY <1>1, <1>5, SameMatching DEF StopPool, PoolStop, stageVars, Running
<1>6. ASSUME NEW t \in Pushers, CallPush(t) \/ PushWait(t) \/ PushKilled(t)
      PROVE  TasksMatchEntries' /\ OutstandingOnce'
  BY <1>2, <1>6 DEF CallPush, PushWait, PushKilled
<1>7. ASSUME NEW t \in ClearWaiters, CallWaitTillClear(t) \/ ClearStep(t)
      PROVE  TasksMatchEntries' /\ OutstandingOnce'
  BY <1>2, <1>7 DEF CallWaitTillClear, ClearStep, ClearWait, ClearReturn
<1>8. CASE Stop \/ SinkPop \/ EndSink \/ \E t \in Threads : SpuriousWakeup(t)
  BY <1>2, <1>8 DEF Stop, SinkPop, EndSink, SpuriousWakeup
<1>9. CASE UNCHANGED vars
  BY <1>2, <1>9 DEF vars, stageVars
<1> QED
  BY <1>3, <1>4, <1>5, <1>6, <1>7, <1>8, <1>9,
     TakeMatching, AppendMatching, FinishMatching, RetireMatching, EndMatching
  DEF Next, PushStep, SectionStep, PoolStep, WorkerStep

(***************************************************************************)
(* The entries and the histories.                                          *)
(***************************************************************************)
LEMMA AppendHistory ==
  ASSUME Inv, NEW t \in Pushers, PushAppend(t)
  PROVE  EntriesDistinct' /\ History' /\ InOrder'
<1> DEFINE len == Len(input_buffer)
           d == arg[t]
<1>1. /\ d \in Funcs /\ d \notin Elements(accepted)
      /\ Len(input_buffer') = len + 1
      /\ \A i \in 1 .. len : input_buffer'[i] = input_buffer[i]
      /\ input_buffer'[len + 1].input = d
  BY AppendedBuffer
<1>2. len \in Nat /\ \A i \in 1 .. len + 1 : i \in 1 .. len \/ i = len + 1
  BY Entries DEF Inv
<1>3. accepted \in Seq(Funcs) /\ Len(accepted) \in Nat /\ Len(delivered) \in Nat
  BY LenProperties DEF Inv, TypeOK
<1>4. /\ Len(accepted') = Len(accepted) + 1
      /\ \A i \in 1 .. Len(accepted) : accepted'[i] = accepted[i]
      /\ accepted'[Len(accepted) + 1] = d
      /\ Elements(accepted') = Elements(accepted) \cup {d}
  BY <1>1, <1>3, AppendElements DEF PushAppend
<1>5. delivered' = delivered /\ UNCHANGED <<kill_switch, sink_killed, out_of_order>>
  BY DEF PushAppend
<1>6. d \notin BufferInputs
  BY <1>1 DEF Inv, History
<1> HIDE DEF d, len
<1>7. BufferInputs' = BufferInputs \cup {d}
  BY <1>1, <1>2 DEF BufferInputs, len
<1>8. EntriesDistinct'
  <2>1. \A i \in 1 .. len : input_buffer[i].input # d
    BY <1>6 DEF BufferInputs, len
  <2> QED
    BY <1>1, <1>2, <2>1 DEF EntriesDistinct, Inv, len
<1>9. Elements(accepted)' = Elements(accepted) \cup {d} /\ Elements(delivered)' = Elements(delivered)
  BY <1>4, <1>5 DEF Elements
<1>10. History'
  <2>1. d \notin Elements(delivered)
    BY <1>1 DEF Inv, History
  <2>2. /\ BufferInputs' \subseteq Elements(accepted)'
        /\ Elements(delivered)' \subseteq Elements(accepted)'
        /\ Elements(delivered)' \cap BufferInputs' = {}
    BY <1>7, <1>9, <2>1 DEF Inv, History
  <2>3. /\ IsFiniteSet(Elements(delivered)') /\ Cardinality(Elements(delivered)') = Len(delivered')
    BY <1>5, <1>9 DEF Inv, History
  <2>4. ASSUME ~kill_switch', ~sink_killed'
        PROVE  /\ Len(accepted') = Len(delivered') + Len(input_buffer')
               /\ Elements(accepted)' \subseteq Elements(delivered)' \cup BufferInputs'
    <3>1. /\ Len(accepted) = Len(delivered) + len
          /\ Elements(accepted) \subseteq Elements(delivered) \cup BufferInputs
      BY <1>5, <2>4 DEF Inv, History, len
    <3>2. Len(accepted') = Len(delivered') + Len(input_buffer')
      BY <1>1, <1>2, <1>3, <1>4, <1>5, <3>1
    <3> QED
      BY <1>7, <1>9, <3>1, <3>2
  <2> QED
    BY <2>2, <2>3, <2>4 DEF History
<1>11. InOrder'
  <2> SUFFICES ASSUME ~out_of_order' PROVE InOrder'
    BY DEF InOrder
  <2>1. /\ Len(delivered) <= Len(accepted)
        /\ \A i \in 1 .. Len(delivered) : accepted[i] = delivered[i]
    BY <1>5 DEF Inv, InOrder
  <2>2. /\ Len(delivered') <= Len(accepted')
        /\ \A i \in 1 .. Len(delivered') : accepted'[i] = delivered'[i]
    BY <1>3, <1>4, <1>5, <2>1
  <2>3. ASSUME ~kill_switch', ~sink_killed', NEW i \in 1 .. Len(input_buffer')
        PROVE  accepted'[Len(delivered') + i] = input_buffer'[i].input
    <3>1. /\ Len(accepted) = Len(delivered) + len
          /\ \A j \in 1 .. len : accepted[Len(delivered) + j] = input_buffer[j].input
      BY <1>5, <2>3 DEF Inv, History, InOrder, len
    <3>2. CASE i \in 1 .. len
      <4>1. Len(delivered) + i \in 1 .. Len(accepted)
        BY <1>2, <1>3, <3>1, <3>2
      <4> QED
        BY <1>1, <1>4, <1>5, <3>1, <3>2, <4>1
    <3>3. CASE i = len + 1
      <4>1. Len(delivered) + i = Len(accepted) + 1
        BY <1>2, <1>3, <3>1, <3>3
      <4> QED
        BY <1>1, <1>4, <1>5, <3>3, <4>1
    <3> QED
      BY <1>1, <1>2, <2>3, <3>2, <3>3
  <2> QED
    BY <2>2, <2>3 DEF InOrder
<1> QED
  BY <1>8, <1>10, <1>11

LEMMA SameHistory ==
  ASSUME Inv, Len(input_buffer') = Len(input_buffer),
         \A i \in 1 .. Len(input_buffer) : input_buffer'[i].input = input_buffer[i].input,
         accepted' = accepted, delivered' = delivered, out_of_order' = out_of_order,
         kill_switch => kill_switch', sink_killed => sink_killed'
  PROVE  EntriesDistinct' /\ History' /\ InOrder'
<1>1. BufferInputs' = BufferInputs
  BY DEF BufferInputs
<1>2. Elements(accepted)' = Elements(accepted) /\ Elements(delivered)' = Elements(delivered)
  BY DEF Elements
<1>3. EntriesDistinct'
  BY DEF EntriesDistinct, Inv
<1>4. History'
  BY <1>1, <1>2 DEF History, Inv
<1>5. InOrder'
  BY DEF InOrder, Inv
<1> QED
  BY <1>3, <1>4, <1>5

LEMMA RetireHistory ==
  ASSUME Inv, RetireFront \/ RetireOwn
  PROVE  EntriesDistinct' /\ History' /\ InOrder'
<1> DEFINE len == Len(input_buffer)
<1>1. PICK k \in 1 .. len : Retire(k) /\ (~out_of_order => k = 1)
  BY RetiresFinished
<1> DEFINE d == input_buffer[k].input
<1>2. /\ Len(input_buffer') = len - 1
      /\ \A i \in 1 .. len - 1 :
           input_buffer'[i] = IF i < k THEN input_buffer[i] ELSE input_buffer[i + 1]
  BY <1>1, RetiredBuffer DEF Inv
<1>3. len \in Nat /\ d \in Funcs
  BY Entries DEF Inv
<1>4. /\ accepted \in Seq(Funcs) /\ Len(accepted) \in Nat
      /\ delivered \in Seq(Funcs) /\ Len(delivered) \in Nat
  BY LenProperties DEF Inv, TypeOK
<1>5. accepted' = accepted /\ UNCHANGED <<kill_switch, sink_killed, out_of_order>>
  BY <1>1 DEF Retire
<1>6. d \in BufferInputs
  BY DEF BufferInputs
<1>7. \A i \in 1 .. len : i # k => input_buffer[i].input # d
  BY DEF Inv, EntriesDistinct
<1>8. \/ kill_switch \/ sink_killed
      \/ /\ ~kill_switch /\ ~sink_killed /\ delivered' = Append(delivered, d)
  BY <1>1 DEF Retire, Output
<1>9. delivered' = delivered \/ delivered' = Append(delivered, d)
  BY <1>1 DEF Retire, Output
<1>10. kill_switch \/ sink_killed => delivered' = delivered
  BY <1>1 DEF Retire, Output
<1> HIDE DEF len, d
<1>11. EntriesDistinct'
  <2> DEFINE old(i) == IF i < k THEN i ELSE i + 1
  <2>1. ASSUME NEW i \in 1 .. len - 1
        PROVE  old(i) \in 1 .. len /\ input_buffer'[i] = input_buffer[old(i)]
    BY <1>2, <1>3
  <2>2. ASSUME NEW i \in 1 .. len - 1, NEW j \in 1 .. len - 1, old(i) = old(j)
        PROVE  i = j
    BY <1>3, <2>2
  <2>3. \A i, j \in 1 .. len : input_buffer[i].input = input_buffer[j].input => i = j
    BY DEF Inv, EntriesDistinct, len
  <2> HIDE DEF old
  <2> QED
    BY <1>2, <2>1, <2>2, <2>3 DEF EntriesDistinct
<1>12. BufferInputs' = BufferInputs \ {d}
  <2>1. ASSUME NEW i \in 1 .. len - 1
        PROVE  input_buffer'[i].input \in BufferInputs \ {d}
    <3>1. CASE i < k
      <4>1. i \in 1 .. len /\ i # k /\ input_buffer'[i] = input_buffer[i]
        BY <1>2, <1>3, <3>1
      <4> QED
        BY <1>7, <4>1 DEF BufferInputs, len
    <3>2. CASE ~(i < k)
      <4>1. i + 1 \in 1 .. len /\ i + 1 # k /\ input_buffer'[i] = input_buffer[i + 1]
        BY <1>2, <1>3, <3>2
      <4> QED
        BY <1>7, <4>1 DEF BufferInputs, len
    <3> QED
      BY <3>1, <3>2
  <2>2. ASSUME NEW i \in 1 .. len, i # k
        PROVE  input_buffer[i].input \in BufferInputs'
    <3> DEFINE j == IF i < k THEN i ELSE i - 1
    <3>1. j \in 1 .. len - 1 /\ input_buffer'[j] = input_buffer[i]
      BY <1>2, <1>3, <2>2
    <3> HIDE DEF j
    <3> QED
      BY <1>2, <3>1 DEF BufferInputs
  <2>3. BufferInputs' \subseteq BufferInputs \ {d}
    BY <1>2, <2>1 DEF BufferInputs
  <2>4. BufferInputs \ {d} \subseteq BufferInputs'
    BY <2>2 DEF BufferInputs, len, d
  <2> QED
    BY <2>3, <2>4
<1>13. Elements(accepted)' = Elements(accepted)
  BY <1>5 DEF Elements
<1>14. Elements(delivered)' = Elements(delivered')
  BY DEF Elements
<1>15. History
  BY DEF Inv
<1>16. CASE delivered' = delivered
  <2>1. ~(~kill_switch' /\ ~sink_killed')
    <3> SUFFICES ASSUME ~kill_switch, ~sink_killed PROVE FALSE
      BY <1>5
    <3>1. delivered' = Append(delivered, d)
      BY <1>8
    <3>2. Len(delivered') = Len(delivered) + 1
      BY <1>3, <1>4, <3>1, AppendElements
    <3> QED
      BY <1>4, <1>16, <3>2
  <2>2. History'
    BY <1>12, <1>13, <1>14, <1>15, <1>16, <2>1 DEF History
  <2>3. InOrder'
    BY <1>5, <1>16, <2>1 DEF InOrder, Inv
  <2> QED
    BY <1>11, <2>2, <2>3
<1>17. CASE ~kill_switch /\ ~sink_killed /\ delivered' = Append(delivered, d)
  <2>1. /\ Len(delivered') = Len(delivered) + 1
        /\ \A i \in 1 .. Len(delivered) : delivered'[i] = delivered[i]
        /\ delivered'[Len(delivered) + 1] = d
        /\ Elements(delivered') = Elements(delivered) \cup {d}
    BY <1>3, <1>4, <1>17, AppendElements
  <2>2. d \notin Elements(delivered)
    BY <1>6, <1>15 DEF History
  <2>3. /\ Len(accepted) = Len(delivered) + len
        /\ Elements(accepted) \subseteq Elements(delivered) \cup BufferInputs
    BY <1>15, <1>17 DEF History, len
  <2>4. History'
    <3>1. /\ BufferInputs' \subseteq Elements(accepted)'
          /\ Elements(delivered)' \subseteq Elements(accepted)'
          /\ Elements(delivered)' \cap BufferInputs' = {}
      BY <1>6, <1>12, <1>13, <1>14, <1>15, <2>1 DEF History
    <3>2. IsFiniteSet(Elements(delivered)') /\ Cardinality(Elements(delivered)') = Len(delivered')
      <4>1. IsFiniteSet(Elements(delivered)) /\ Cardinality(Elements(delivered)) = Len(delivered)
        BY <1>15 DEF History
      <4>2. /\ IsFiniteSet(Elements(delivered) \cup {d})
            /\ Cardinality(Elements(delivered) \cup {d}) = Cardinality(Elements(delivered)) + 1
        BY <2>2, <4>1, FS_AddElement
      <4> QED
        BY <1>14, <2>1, <4>1, <4>2
    <3>3. /\ Len(accepted') = Len(delivered') + Len(input_buffer')
          /\ Elements(accepted)' \subseteq Elements(delivered)' \cup BufferInputs'
      <4>1. Len(accepted') = Len(delivered') + Len(input_buffer')
        BY <1>2, <1>3, <1>4, <1>5, <2>1, <2>3
      <4> QED
        BY <1>12, <1>13, <1>14, <2>1, <2>3, <4>1
    <3> QED
      BY <3>1, <3>2, <3>3 DEF History
  <2>5. InOrder'
    <3> SUFFICES ASSUME ~out_of_order' PROVE InOrder'
      BY DEF InOrder
    <3>1. k = 1
      BY <1>1, <1>5
    <3>2. /\ \A i \in 1 .. Len(delivered) : accepted[i] = delivered[i]
          /\ \A i \in 1 .. len : accepted[Len(delivered) + i] = input_buffer[i].input
      BY <1>5, <1>17 DEF Inv, InOrder, len
    <3>3. Len(delivered') <= Len(accepted')
      BY <1>3, <1>4, <1>5, <2>1, <2>3, <3>1
    <3>4. accepted[Len(delivered) + 1] = d
      BY <3>1, <3>2 DEF d
    <3>5. ASSUME NEW i \in 1 .. Len(delivered')
          PROVE  accepted'[i] = delivered'[i]
      <4>1. i \in 1 .. Len(delivered) \/ i = Len(delivered) + 1
        BY <1>4, <2>1
      <4> QED
        BY <1>5, <2>1, <3>2, <3>4, <4>1
    <3>6. ASSUME NEW i \in 1 .. Len(input_buffer')
          PROVE  accepted'[Len(delivered') + i] = input_buffer'[i].input
      <4>1. i + 1 \in 1 .. len /\ input_buffer'[i] = input_buffer[i + 1]
        BY <1>2, <1>3, <3>1
      <4>2. Len(delivered') + i = Len(delivered) + (i + 1)
        BY <1>4, <2>1
      <4> QED
        BY <1>5, <3>2, <4>1, <4>2
    <3> QED
      BY <3>3, <3>5, <3>6 DEF InOrder
  <2> QED
    BY <1>11, <2>4, <2>5
<1> QED
  BY <1>8, <1>10, <1>16, <1>17

LEMMA HistoryStep ==
  ASSUME Inv, [Next]_vars
  PROVE  EntriesDistinct' /\ History' /\ InOrder'
<1>1. ASSUME UNCHANGED <<input_buffer, accepted, delivered, out_of_order>>,
             kill_switch => kill_switch', sink_killed => sink_killed'
      PROVE  EntriesDistinct' /\ History' /\ InOrder'
  BY <1>1, SameHistory
<1>2. ASSUME NEW w \in Workers, FinishTask(w)
      PROVE  EntriesDistinct' /\ History' /\ InOrder'
  BY <1>2, FinishedBuffer, SameHistory DEF FinishTask
<1>3. CASE EndSection
  <2>1. UNCHANGED <<accepted, delivered, out_of_order, kill_switch, sink_killed>>
    BY <1>3, EndOfSection
  <2>2. /\ Len(input_buffer') = Len(input_buffer)
        /\ \A i \in 1 .. Len(input_buffer) : input_buffer'[i].input = input_buffer[i].input
    BY <1>3, ScheduledBuffer DEF Inv
  <2> QED
    BY <2>1, <2>2, SameHistory
<1>4. ASSUME NEW t \in Pushers, CallPush(t) \/ PushWait(t) \/ PushKilled(t)
      PROVE  EntriesDistinct' /\ History' /\ InOrder'
  BY <1>1, <1>4 DEF CallPush, PushWait, PushKilled
<1>5. ASSUME NEW t \in ClearWaiters, CallWaitTillClear(t) \/ ClearStep(t)
      PROVE  EntriesDistinct' /\ History' /\ InOrder'
  BY <1>1, <1>5 DEF CallWaitTillClear, ClearStep, ClearWait, ClearReturn
<1>6. CASE Stop \/ SinkPop \/ EndSink \/ \E t \in Threads : SpuriousWakeup(t)
  BY <1>1, <1>6 DEF Stop, SinkPop, EndSink, SpuriousWakeup
<1>7. CASE UNCHANGED stageVars
  BY <1>1, <1>7 DEF stageVars
<1> QED
  BY <1>2, <1>3, <1>4, <1>5, <1>6, <1>7, AppendHistory, RetireHistory
  DEF Next, PushStep, SectionStep, PoolStep, StopPool, vars

(***************************************************************************)
(* The theorems.                                                           *)
(***************************************************************************)
LEMMA InvInit == Init => Inv
<1> SUFFICES ASSUME Init PROVE Inv
  OBVIOUS
<1>1. /\ input_buffer = <<>> /\ accepted = <<>> /\ delivered = <<>>
      /\ Len(input_buffer) = 0 /\ Len(accepted) = 0 /\ Len(delivered) = 0
  BY DEF Init
<1>2. Elements(accepted) = {} /\ Elements(delivered) = {} /\ BufferInputs = {}
  BY <1>1 DEF Elements, BufferInputs
<1>3. ~InSection /\ Running = {} /\ tasks = {} /\ stopping = FALSE
  BY PoolAssumption DEF Init, PoolInit, InSection, Running
<1>4. ArgsNew
  <2>1. \A t \in Pushers : op[t] = "idle"
    BY DEF Init, Threads
  <2> QED
    BY <2>1 DEF ArgsNew
<1>5. TasksMatchEntries /\ OutstandingOnce
  <2>1. Outstanding = {} /\ Active = {}
    BY <1>3 DEF Outstanding, Active
  <2>2. RunningInputs = {} /\ RunningFirst
    BY <1>1 DEF RunningInputs, RunningFirst
  <2> QED
    BY <1>3, <2>1, <2>2, Matching DEF OutstandingOnce
<1>6. EntriesDistinct
  BY <1>1 DEF EntriesDistinct
<1>7. History
  BY <1>1, <1>2, FS_EmptySet DEF History
<1>8. InOrder
  BY <1>1 DEF InOrder
<1> QED
  BY <1>3, <1>4, <1>5, <1>6, <1>7, <1>8, TypeInit DEF Inv, SectionOK

LEMMA InvStep == Inv /\ [Next]_vars => Inv'
BY TypeStep, ArgsStep, SectionOKStep, StopOrderStep, MatchingStep, HistoryStep DEF Inv

\* The stage's variables keep their types and its buffer never holds more than
\* input_buffer_size_ entries (Push, CheckQueueNolock, RunTask).
THEOREM TypeCorrect == Safety => []TypeOK
<1>1. Inv => TypeOK
  BY DEF Inv
<1> QED
  BY <1>1, InvInit, InvStep, PTL DEF Safety

\* Every task queued in the pool or running has its entry, RUNNING and among the
\* first max_active_tasks_, so the iterator RunTask keeps is valid.
THEOREM TasksHaveEntries == Safety => []TasksMatchEntries
<1>1. Inv => TasksMatchEntries
  BY DEF Inv
<1> QED
  BY <1>1, InvInit, InvStep, PTL DEF Safety

\* Outputs are delivered once, in the order of the inputs unless out_of_order_,
\* and none is lost while no stage is killed (CheckQueueNolock).
THEOREM OutputsCorrect == Safety => []DeliveryOrder
<1>1. Inv => DeliveryOrder
  <2> SUFFICES ASSUME Inv PROVE DeliveryOrder
    OBVIOUS
  <2>1. /\ accepted \in Seq(Funcs) /\ Len(accepted) \in Nat
        /\ delivered \in Seq(Funcs) /\ Len(delivered) \in Nat
    BY LenProperties DEF Inv, TypeOK
  <2>2. ASSUME ~out_of_order
        PROVE  SubSeq(accepted, 1, Len(delivered)) = delivered
    <3>1. /\ Len(delivered) <= Len(accepted)
          /\ \A i \in 1 .. Len(delivered) : accepted[i] = delivered[i]
      BY <2>2 DEF Inv, InOrder
    <3> DEFINE prefix == SubSeq(accepted, 1, Len(delivered))
    <3>2. \A i \in 1 .. Len(delivered) : accepted[i] \in Funcs
      BY <2>1, <3>1, ElementOfSeq
    <3>3. /\ prefix \in Seq(Funcs)
          /\ Len(prefix) = IF 1 <= Len(delivered) THEN Len(delivered) - 1 + 1 ELSE 0
          /\ \A i \in 1 .. Len(delivered) - 1 + 1 : prefix[i] = accepted[1 + i - 1]
      BY <2>1, <3>2, SubSeqProperties
    <3> HIDE DEF prefix
    <3>4. Len(prefix) = Len(delivered)
      BY <2>1, <3>3
    <3>5. \A i \in 1 .. Len(prefix) : prefix[i] = delivered[i]
      BY <2>1, <3>1, <3>3, <3>4
    <3>6. prefix = delivered
      BY <2>1, <3>3, <3>4, <3>5, SeqEqual
    <3> QED
      BY <3>6 DEF prefix
  <2>3. Elements(Inputs(input_buffer)) = BufferInputs
    <3>1. Len(input_buffer) \in Nat
      BY Entries DEF Inv
    <3>2. Inputs(input_buffer) \in [1 .. Len(input_buffer) -> Funcs]
      BY Entries DEF Inputs, Inv
    <3>3. Inputs(input_buffer) \in Seq(Funcs)
      BY <3>1, <3>2, SeqDef
    <3>4. Len(Inputs(input_buffer)) = Len(input_buffer)
      BY <3>1, <3>2, <3>3, LenProperties
    <3>5. \A i \in 1 .. Len(input_buffer) : Inputs(input_buffer)[i] = input_buffer[i].input
      BY DEF Inputs
    <3> QED
      BY <3>4, <3>5 DEF Elements, BufferInputs
  <2>4. History
    BY DEF Inv
  <2> QED
    BY <2>2, <2>3, <2>4 DEF DeliveryOrder, History
<1> QED
  BY <1>1, InvInit, InvStep, PTL DEF Safety

\* After Stop no task is pushed to the pool that is being deleted and no output
\* follows (Stop, CheckQueueNolock, OutputToNextStage).
THEOREM StopCorrect == Safety => StopIsFinal
<1>1. ASSUME Inv, [Next]_vars
      PROVE  [/\ stopping => tasks' \subseteq tasks
              /\ kill_switch => delivered' = delivered]_vars
  <2>1. ASSUME kill_switch
        PROVE  tasks' \subseteq tasks /\ delivered' = delivered
    <3>1. ASSUME NEW w \in Workers, PoolStep(w) \/ FinishTask(w)
          PROVE  tasks' \subseteq tasks /\ delivered' = delivered
      BY <3>1 DEF PoolStep, WorkerStep, WorkerWait, WorkerTake, WorkerExit, FinishTask, poolVars,
                  stageVars
    <3>2. ASSUME NEW w \in Workers, WorkerSpuriousWakeup(w), UNCHANGED stageVars
          PROVE  tasks' \subseteq tasks /\ delivered' = delivered
      BY <3>2 DEF WorkerSpuriousWakeup, stageVars
    <3>3. CASE RetireFront \/ RetireOwn
      BY <2>1, <3>3 DEF RetireFront, RetireOwn, Retire, Output, poolVars
    <3>4. CASE EndSection
      BY <1>1, <2>1, <3>4, EndOfSection
    <3>5. ASSUME NEW t \in Pushers, CallPush(t) \/ PushStep(t)
          PROVE  tasks' \subseteq tasks /\ delivered' = delivered
      BY <3>5 DEF CallPush, PushStep, PushWait, PushKilled, PushAppend, poolVars
    <3>6. ASSUME NEW t \in ClearWaiters, CallWaitTillClear(t) \/ ClearStep(t)
          PROVE  tasks' \subseteq tasks /\ delivered' = delivered
      BY <3>6 DEF CallWaitTillClear, ClearStep, ClearWait, ClearReturn, poolVars
    <3>7. ASSUME NEW t \in Threads, SpuriousWakeup(t)
          PROVE  tasks' \subseteq tasks /\ delivered' = delivered
      BY <3>7 DEF SpuriousWakeup, poolVars
    <3>8. CASE Stop \/ StopPool \/ SinkPop \/ EndSink \/ UNCHANGED vars
      BY <3>8 DEF Stop, StopPool, PoolStop, SinkPop, EndSink, vars, poolVars, stageVars
    <3> QED
      BY <1>1, <3>1, <3>2, <3>3, <3>4, <3>5, <3>6, <3>7, <3>8 DEF Next, SectionStep
  <2> QED
    BY <1>1, <2>1 DEF Inv
<1> QED
  BY <1>1, InvInit, InvStep, PTL DEF Safety, StopIsFinal

\* WaitTillClear returns, in a stage nobody kills, only when every accepted input
\* was processed and its output pushed to the next stage.
THEOREM ClearCorrect == Safety => ClearMeansDelivered
<1>1. ASSUME Inv, [Next]_vars
      PROVE  [\A t \in ClearWaiters :
                op[t] # "idle" /\ op'[t] = "idle" /\ ~kill_switch /\ ~sink_killed =>
                  Elements(accepted) = Elements(delivered)]_vars
  <2> SUFFICES ASSUME NEW t \in ClearWaiters, op[t] # "idle", op'[t] = "idle",
                      ~kill_switch, ~sink_killed
               PROVE  Elements(accepted) = Elements(delivered)
    OBVIOUS
  <2>1. CASE input_buffer = <<>>
    <3>1. BufferInputs = {}
      <4>1. Len(input_buffer) = 0
        BY <2>1
      <4> QED
        BY <4>1 DEF BufferInputs
    <3> QED
      BY <1>1, <3>1 DEF Inv, History
  <2>2. CASE \E u \in ClearWaiters : ClearReturn(u)
    <3>1. PICK u \in ClearWaiters : ClearReturn(u)
      BY <2>2
    <3>2. input_buffer = <<>>
      BY <3>1 DEF ClearReturn, ClearReturns
    <3> QED
      BY <2>1, <3>2
  <2>3. CASE ~ \E u \in ClearWaiters : ClearReturn(u)
    <3>1. op \in [Threads -> {"idle", "push", "wait_clear", "clear_loop"}] /\ t \in Threads
      BY <1>1 DEF Inv, TypeOK, Threads
    <3>2. t \notin Pushers
      BY StageAssumption
    <3>3. CASE EndSection
      <4>1. op' = op \/ (mutex.by \in Pushers /\ op' = [op EXCEPT ![mutex.by] = "idle"])
        BY <1>1, <3>3, EndOfSection
      <4> QED
        BY <3>1, <3>2, <4>1
    <3>4. ASSUME NEW u \in Pushers, CallPush(u) \/ PushKilled(u)
          PROVE  FALSE
      BY <3>1, <3>2, <3>4 DEF CallPush, PushKilled
    <3>5. ASSUME NEW u \in ClearWaiters, CallWaitTillClear(u) \/ ClearWait(u)
          PROVE  FALSE
      BY <3>1, <3>5 DEF CallWaitTillClear, ClearWait
    <3>6. ASSUME op' = op
          PROVE  FALSE
      BY <3>6
    <3> QED
      BY <1>1, <2>3, <3>3, <3>4, <3>5, <3>6
      DEF Next, vars, stageVars, PushStep, PushWait, PushAppend, ClearStep, SpuriousWakeup,
          PoolStep, FinishTask, SectionStep, RetireFront, RetireOwn, Retire, Stop, StopPool,
          SinkPop, EndSink
  <2> QED
    BY <2>2, <2>3
<1> QED
  BY <1>1, InvInit, InvStep, PTL DEF Safety, ClearMeansDelivered
=============================================================================
