---------------------------- MODULE PipelineStage ----------------------------
(***************************************************************************)
(* PipelineStage<T1, T2> of fma-common/pipeline.h with a thread pool of    *)
(* its own, feeding a bounded queue.  Inputs wait in input_buffer, at most *)
(* MaxActive of them run at a time, and a finished one retires: in order,  *)
(* or at once if out_of_order.  Retiring pushes to the next stage with     *)
(* mutex_ held, so a critical section that retires takes several steps and *)
(* blocks while the next stage is full.                                    *)
(*                                                                         *)
(* The pool's Funcs are the inputs: the task of input d is RunTask(d).     *)
(***************************************************************************)
EXTENDS ThreadPool, Sequences

CONSTANTS
  Pushers,       \* threads that call Push
  ClearWaiters,  \* threads that call WaitTillClear
  BufferSize,    \* input_buffer_size_
  SinkCapacity,  \* capacity of the queue the outputs go to
  NoInput,       \* not an input
  Unlocked       \* the value of mutex when nobody holds it

\* max_active_tasks_; the stage's own pool has as many threads.
MaxActive == Cardinality(Workers)
Threads == Pushers \cup ClearWaiters

\* Who is in a critical section that retires tasks, and how far it is.
SectionType ==
  [by : Pushers \cup Workers, it : Funcs \cup {NoInput}, todo : {"front", "own", "schedule"}]

ASSUME StageAssumption ==
  /\ BufferSize \in Nat \ {0} /\ SinkCapacity \in Nat \ {0}
  /\ Pushers \cap ClearWaiters = {} /\ Threads \cap Workers = {}
  /\ NoInput \notin Funcs /\ Unlocked \notin SectionType

VARIABLES
  input_buffer,    \* input_buffer_: <<[input, state], ...>>, oldest first
  out_of_order,    \* out_of_order_, fixed at construction
  kill_switch,     \* kill_switch_
  seq_num,         \* seq_num_
  mutex,           \* mutex_: Unlocked, or the critical section of a thread
                   \* inside CheckQueueNolock
  cv_ok_to_push,   \* threads blocked in cv_ok_to_push_.wait
  cv_stage_clear,  \* threads blocked in cv_stage_clear_.wait
  op,              \* op[t]: the call t is in, or "idle"
  arg,             \* arg[t]: the argument of t's Push
  sink,            \* what the next stage holds
  sink_killed,     \* the next stage refuses its input
  accepted,        \* history: inputs whose Push succeeded, in order
  delivered        \* history: outputs the next stage accepted, in order

stageVars == <<input_buffer, out_of_order, kill_switch, seq_num, mutex, cv_ok_to_push,
               cv_stage_clear, op, arg, sink, sink_killed, accepted, delivered>>
vars == <<poolVars, stageVars>>

NEW_TASK == "NEW_TASK"
RUNNING == "RUNNING"
FINISHED == "FINISHED"

Elements(s) == {s[i] : i \in 1..Len(s)}
Inputs(buffer) == [i \in 1..Len(buffer) |-> buffer[i].input]
Position(d) == CHOOSE i \in 1..Len(input_buffer) : input_buffer[i].input = d
RemoveAt(s, k) == SubSeq(s, 1, k - 1) \o SubSeq(s, k + 1, Len(s))

NotifyOne(cv) == IF cv = {} THEN {{}} ELSE {cv \ {t} : t \in cv}

Init ==
  /\ PoolInit
  /\ input_buffer = <<>>
  /\ out_of_order \in BOOLEAN
  /\ kill_switch = FALSE
  /\ seq_num = 0
  /\ mutex = Unlocked
  /\ cv_ok_to_push = {} /\ cv_stage_clear = {}
  /\ op = [t \in Threads |-> "idle"]
  /\ arg = [t \in Threads |-> NoInput]
  /\ sink = <<>> /\ sink_killed = FALSE
  /\ accepted = <<>> /\ delivered = <<>>

(***************************************************************************)
(* CheckQueueNolock, in the critical section of a thread: mutex records    *)
(* who is in it, the input that just finished (curr_it), and how far it is.*)
(***************************************************************************)
Section(by, it) ==
  [by |-> by, it |-> it, todo |-> IF out_of_order /\ it # NoInput THEN "own" ELSE "front"]

InSection == mutex # Unlocked

\* OutputToNextStage; it blocks while the next stage is full.
Output(d) ==
  \/ (kill_switch \/ sink_killed) /\ UNCHANGED <<sink, delivered>>
  \/ /\ ~kill_switch /\ ~sink_killed
     /\ Len(sink) < SinkCapacity
     /\ sink' = Append(sink, d)
     /\ delivered' = Append(delivered, d)

Retire(k) ==
  /\ Output(input_buffer[k].input)
  /\ input_buffer' = RemoveAt(input_buffer, k)
  /\ cv_ok_to_push' \in NotifyOne(cv_ok_to_push)
  /\ UNCHANGED <<poolVars, out_of_order, kill_switch, seq_num, cv_stage_clear, op, arg,
                 sink_killed, accepted>>

\* Mutant: a finished task retires past unfinished ones.
Retirable_Any == {i \in 1..Len(input_buffer) : input_buffer[i].state = FINISHED}
Retirable == {i \in 1..Len(input_buffer) : i = 1 /\ input_buffer[i].state = FINISHED}

RetireFront ==
  /\ InSection /\ mutex.todo = "front"
  /\ \E k \in Retirable : Retire(k)
  /\ UNCHANGED mutex

RetireOwn ==
  /\ InSection /\ mutex.todo = "own"
  /\ Retire(Position(mutex.it))
  /\ mutex' = [mutex EXCEPT !.todo = "schedule"]

\* Mutant: the whole buffer is activated, max_active_tasks_ ignored.
Schedulable_All == {i \in 1..Len(input_buffer) : input_buffer[i].state = NEW_TASK}
\* The new tasks among the first max_active_tasks_.
Schedulable ==
  {i \in 1..Len(input_buffer) : i <= MaxActive /\ input_buffer[i].state = NEW_TASK}

\* Mutant: a killed stage still schedules.
ScheduledState_KillIgnored == RUNNING
ScheduledState == IF kill_switch THEN FINISHED ELSE RUNNING

\* Mutant: nobody waiting for the stage to clear is told.
ClearNotified_Forgotten == cv_stage_clear
ClearNotified == IF input_buffer = <<>> THEN {} ELSE cv_stage_clear

TaskOf(i) ==
  [priority |-> 0,
   seq_num |-> seq_num + Cardinality({j \in Schedulable : j < i}),
   func |-> input_buffer[i].input]

\* The rest of the section: notify, schedule new tasks, unlock and return.
EndSection ==
  /\ InSection
  /\ mutex.todo = "schedule" \/ (mutex.todo = "front" /\ Retirable = {})
  /\ cv_stage_clear' = ClearNotified
  /\ input_buffer' = [i \in 1..Len(input_buffer) |->
        IF i \in Schedulable THEN [input_buffer[i] EXCEPT !.state = ScheduledState]
                             ELSE input_buffer[i]]
  /\ IF ScheduledState = RUNNING
     THEN /\ PushTasks({TaskOf(i) : i \in Schedulable})
          /\ seq_num' = seq_num + Cardinality(Schedulable)
     ELSE UNCHANGED <<tasks, pool_cv, seq_num>>
  /\ mutex' = Unlocked
  /\ IF mutex.by \in Workers
     THEN TaskReturns(mutex.by) /\ UNCHANGED <<op, arg>>
     ELSE /\ op' = [op EXCEPT ![mutex.by] = "idle"]
          /\ arg' = [arg EXCEPT ![mutex.by] = NoInput]
          /\ UNCHANGED worker
  /\ UNCHANGED <<stopping, out_of_order, kill_switch, cv_ok_to_push, sink, sink_killed,
                 accepted, delivered>>

(***************************************************************************)
(* Push                                                                    *)
(***************************************************************************)
\* Inputs are opaque, so it does not matter which new one a caller pushes.
NewInputs == Funcs \ (Elements(accepted) \cup {arg[u] : u \in Pushers})

CallPush(t) ==
  /\ op[t] = "idle"
  /\ NewInputs # {}
  /\ op' = [op EXCEPT ![t] = "push"]
  /\ arg' = [arg EXCEPT ![t] = CHOOSE d \in NewInputs : TRUE]
  /\ UNCHANGED <<poolVars, input_buffer, out_of_order, kill_switch, seq_num, mutex,
                 cv_ok_to_push, cv_stage_clear, sink, sink_killed, accepted, delivered>>

\* t is in call o, not waiting, and gets the mutex.
Locks(t, o) == op[t] = o /\ t \notin cv_ok_to_push \cup cv_stage_clear /\ ~InSection

Full == Len(input_buffer) >= BufferSize

PushWait(t) ==
  /\ Locks(t, "push") /\ Full /\ ~kill_switch
  /\ cv_ok_to_push' = cv_ok_to_push \cup {t}
  /\ UNCHANGED <<poolVars, input_buffer, out_of_order, kill_switch, seq_num, mutex,
                 cv_stage_clear, op, arg, sink, sink_killed, accepted, delivered>>

PushKilled(t) ==
  /\ Locks(t, "push") /\ kill_switch
  /\ op' = [op EXCEPT ![t] = "idle"]
  /\ arg' = [arg EXCEPT ![t] = NoInput]
  /\ UNCHANGED <<poolVars, input_buffer, out_of_order, kill_switch, seq_num, mutex,
                 cv_ok_to_push, cv_stage_clear, sink, sink_killed, accepted, delivered>>

PushAppend(t) ==
  /\ Locks(t, "push") /\ ~Full /\ ~kill_switch
  /\ input_buffer' = Append(input_buffer, [input |-> arg[t], state |-> NEW_TASK])
  /\ accepted' = Append(accepted, arg[t])
  /\ mutex' = Section(t, NoInput)
  /\ UNCHANGED <<poolVars, out_of_order, kill_switch, seq_num, cv_ok_to_push,
                 cv_stage_clear, op, arg, sink, sink_killed, delivered>>

(***************************************************************************)
(* RunTask: func_ runs unlocked; then the task is FINISHED and the queue   *)
(* is checked.                                                             *)
(***************************************************************************)
FinishTask(w) ==
  /\ w \in Running /\ ~InSection
  /\ LET k == Position(worker[w]) IN
       input_buffer' = [input_buffer EXCEPT ![k].state = FINISHED]
  /\ mutex' = Section(w, worker[w])
  /\ UNCHANGED <<poolVars, out_of_order, kill_switch, seq_num, cv_ok_to_push,
                 cv_stage_clear, op, arg, sink, sink_killed, accepted, delivered>>

(***************************************************************************)
(* WaitTillClear: the kill switch counts only on entry ("wait_clear"), not *)
(* in the loop ("clear_loop").                                             *)
(***************************************************************************)
CallWaitTillClear(t) ==
  /\ op[t] = "idle"
  /\ op' = [op EXCEPT ![t] = "wait_clear"]
  /\ UNCHANGED <<poolVars, input_buffer, out_of_order, kill_switch, seq_num, mutex,
                 cv_ok_to_push, cv_stage_clear, arg, sink, sink_killed, accepted, delivered>>

ClearWait(t) ==
  /\ \/ Locks(t, "wait_clear") /\ ~kill_switch
     \/ Locks(t, "clear_loop")
  /\ input_buffer # <<>>
  /\ op' = [op EXCEPT ![t] = "clear_loop"]
  /\ cv_stage_clear' = cv_stage_clear \cup {t}
  /\ UNCHANGED <<poolVars, input_buffer, out_of_order, kill_switch, seq_num, mutex,
                 cv_ok_to_push, arg, sink, sink_killed, accepted, delivered>>

\* Mutant: the loop is an if, so any wake-up counts.
ClearReturns_OnAnyWakeup(t) ==
  \/ Locks(t, "wait_clear") /\ (kill_switch \/ input_buffer = <<>>)
  \/ Locks(t, "clear_loop")
ClearReturns(t) ==
  \/ Locks(t, "wait_clear") /\ (kill_switch \/ input_buffer = <<>>)
  \/ Locks(t, "clear_loop") /\ input_buffer = <<>>

ClearReturn(t) ==
  /\ ClearReturns(t)
  /\ op' = [op EXCEPT ![t] = "idle"]
  /\ UNCHANGED <<poolVars, input_buffer, out_of_order, kill_switch, seq_num, mutex,
                 cv_ok_to_push, cv_stage_clear, arg, sink, sink_killed, accepted, delivered>>

(***************************************************************************)
(* Stop, also called by the destructor: the kill switch, then the pool.    *)
(* cv_stage_clear_ is not notified.                                        *)
(***************************************************************************)
Stop ==
  /\ ~kill_switch /\ ~InSection
  /\ kill_switch' = TRUE
  /\ cv_ok_to_push' = {}
  /\ UNCHANGED <<poolVars, input_buffer, out_of_order, seq_num, mutex, cv_stage_clear, op,
                 arg, sink, sink_killed, accepted, delivered>>

StopPool == kill_switch /\ ~stopping /\ PoolStop /\ UNCHANGED stageVars

(***************************************************************************)
(* The next stage, and wake-ups nobody asked for.                          *)
(***************************************************************************)
SinkPop ==
  /\ sink # <<>>
  /\ sink' = Tail(sink)
  /\ UNCHANGED <<poolVars, input_buffer, out_of_order, kill_switch, seq_num, mutex,
                 cv_ok_to_push, cv_stage_clear, op, arg, sink_killed, accepted, delivered>>

EndSink ==
  /\ ~sink_killed /\ sink_killed' = TRUE
  /\ UNCHANGED <<poolVars, input_buffer, out_of_order, kill_switch, seq_num, mutex,
                 cv_ok_to_push, cv_stage_clear, op, arg, sink, accepted, delivered>>

SpuriousWakeup(t) ==
  /\ t \in cv_ok_to_push \cup cv_stage_clear
  /\ cv_ok_to_push' = cv_ok_to_push \ {t}
  /\ cv_stage_clear' = cv_stage_clear \ {t}
  /\ UNCHANGED <<poolVars, input_buffer, out_of_order, kill_switch, seq_num, mutex, op,
                 arg, sink, sink_killed, accepted, delivered>>

PushStep(t) == PushWait(t) \/ PushKilled(t) \/ PushAppend(t)
ClearStep(t) == ClearWait(t) \/ ClearReturn(t)
SectionStep == RetireFront \/ RetireOwn \/ EndSection
PoolStep(w) == WorkerStep(w) /\ UNCHANGED stageVars

Next ==
  \/ \E t \in Pushers : CallPush(t) \/ PushStep(t)
  \/ \E t \in ClearWaiters : CallWaitTillClear(t) \/ ClearStep(t)
  \/ \E t \in Threads : SpuriousWakeup(t)
  \/ \E w \in Workers : PoolStep(w) \/ FinishTask(w)
  \/ \E w \in Workers : WorkerSpuriousWakeup(w) /\ UNCHANGED stageVars
  \/ SectionStep
  \/ Stop
  \/ StopPool
  \/ SinkPop
  \/ EndSink

Safety == Init /\ [][Next]_vars

\* Threads inside a call run, tasks return, a started Stop goes on to delete
\* the pool, and the next stage consumes what it holds.
Fairness ==
  /\ \A t \in Pushers : WF_vars(PushStep(t))
  /\ \A t \in ClearWaiters : WF_vars(ClearStep(t))
  /\ \A w \in Workers : WF_vars(PoolStep(w)) /\ WF_vars(FinishTask(w))
  /\ WF_vars(SectionStep)
  /\ WF_vars(StopPool)
  /\ WF_vars(SinkPop)

Spec == Safety /\ Fairness

-----------------------------------------------------------------------------
TypeOK ==
  /\ PoolTypeOK
  /\ input_buffer \in Seq([input : Funcs, state : {NEW_TASK, RUNNING, FINISHED}])
  /\ Len(input_buffer) <= BufferSize
  /\ out_of_order \in BOOLEAN /\ kill_switch \in BOOLEAN /\ sink_killed \in BOOLEAN
  /\ seq_num \in Nat
  /\ mutex \in SectionType \cup {Unlocked}
  /\ op \in [Threads -> {"idle", "push", "wait_clear", "clear_loop"}]
  /\ arg \in [Threads -> Funcs \cup {NoInput}]
  /\ cv_ok_to_push \subseteq {t \in Pushers : op[t] = "push"}
  /\ cv_stage_clear \subseteq {t \in ClearWaiters : op[t] = "clear_loop"}
  /\ sink \in Seq(Funcs) /\ Len(sink) <= SinkCapacity
  /\ accepted \in Seq(Funcs) /\ delivered \in Seq(Funcs)

\* Tasks queued in the pool or running whose RunTask has not finished yet.
Outstanding ==
  {t.func : t \in tasks} \cup
  {worker[w] : w \in {v \in Running : ~InSection \/ mutex.by # v}}

\* RunTask holds an iterator into input_buffer_: every outstanding task has its
\* entry, RUNNING, and there are never more than max_active_tasks_ of them, all
\* of them among the first max_active_tasks_ entries.
TasksMatchEntries ==
  /\ Outstanding = {input_buffer[i].input :
                      i \in {j \in 1..Len(input_buffer) : input_buffer[j].state = RUNNING}}
  /\ \A i \in 1..Len(input_buffer) : input_buffer[i].state = RUNNING => i <= MaxActive

\* In order: what the next stage got is a prefix of what was pushed.  In both
\* modes no output is produced twice and, while nobody kills a stage, every
\* input accepted is in the buffer or was output.
DeliveryOrder ==
  /\ ~out_of_order => SubSeq(accepted, 1, Len(delivered)) = delivered
  /\ Cardinality(Elements(delivered)) = Len(delivered)
  /\ ~kill_switch /\ ~sink_killed =>
       /\ Elements(accepted) = Elements(delivered) \cup Elements(Inputs(input_buffer))
       /\ Len(accepted) = Len(delivered) + Len(input_buffer)

\* Stop is final: no task is pushed to the pool being deleted, and no output
\* follows the kill switch.
StopIsFinal ==
  [][/\ stopping => tasks' \subseteq tasks
     /\ kill_switch => delivered' = delivered]_vars

\* WaitTillClear: when it returns and nobody killed a stage, "all the input have
\* been successfully processed and the output pushed to the next stage".
ClearMeansDelivered ==
  [][\A t \in ClearWaiters :
       op[t] # "idle" /\ op'[t] = "idle" /\ ~kill_switch /\ ~sink_killed =>
         Elements(accepted) = Elements(delivered)]_vars

\* Every accepted input reaches the next stage unless a stage is killed.
InputsAreDelivered ==
  \A d \in Funcs : d \in Elements(accepted) ~>
                     (d \in Elements(delivered) \/ kill_switch \/ sink_killed)

\* Push returns; so does WaitTillClear unless Stop is called; and Stop joins its
\* workers, since the next stage goes on consuming.
CallsReturn ==
  /\ \A t \in Pushers : op[t] = "push" ~> op[t] = "idle"
  /\ \A t \in ClearWaiters : op[t] # "idle" ~> (op[t] = "idle" \/ kill_switch)
  /\ kill_switch ~> PoolGone
=============================================================================
