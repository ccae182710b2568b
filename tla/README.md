# fma-common in TLA+

`fma-common` is a header-only C++ library: bounded queues, thread pools and
pipelines, read-write locks, timed tasks, and, built on them, streams, a parallel
text parser and writer, and log devices. This directory models the library's concurrent and
stateful parts in TLA+, checks them with TLC and proves parts of them with TLAPS. File
names below without a directory are files of `fma-common/`.

The models follow the code, not its documentation. Where code and documentation
disagree the model has the code's behaviour and the disagreement is listed under
"Disagreements".

## The system

| component | state | operations | what is hard | what makes it correct |
|---|---|---|---|---|
| `BoundedQueue` (`bounded_queue.h`) | `queue_`, `kill_switch_`, `capacity_`, two condition variables | `Push`, `PopFront`, `PopBack`, `WaitEmpty`, `EndQueue`, `SetCapacity` | one waiter is notified per call; pushers and `WaitEmpty` share a condition variable; kill while blocked | capacity, no lost wake-up, every element once and in order, every call returns as if it waited for its condition |
| `ThreadPool` (`thread_pool.h`) | `queue_` ordered by (priority, seq_num), `stopping_`, the workers | `PushTask`, worker loop, destructor | tasks push tasks while the pool stops; one notification per task | every task runs once, by priority; the destructor returns |
| `PipelineStage` (`pipeline.h`) | `input_buffer_` of entries NEW, RUNNING, FINISHED, `kill_switch_`, a pool | `Push`, `CheckQueueNolock`, `RunTask`, `WaitTillClear`, `Stop` | pushes to the next stage with the mutex held; tasks finish in any order; `Stop` at any time | outputs in order, once, none after `Stop`; `WaitTillClear` means delivered; no deadlock |
| `InterruptableTLSRWLock` (`rw_lock.h`) | one counter per thread, `n_writers_`, `curr_writer_`, `write_reentry_level_` | `ReadLock`, `ReadUnlock`, `WriteLock`, `WriteUnlock` | lock-free announce-then-look; re-entry; upgrade; interruption half way | mutual exclusion, no counter leaks, writers first, progress |
| `SpinningRWLock`, `RWLock` (`rw_lock.h`) | reader count, writer flag | lock and unlock | the same race, without re-entry | mutual exclusion |
| `thread_id.h` | table of 480 ids | first use, thread exit | reuse of ids | no id in use twice |
| `TimedTaskScheduler` (`timed_task.h`) | `tasks_` ordered by time, `n_running_`, `exit_flag_`, workers, one condition variable; per task `func_`, `executed_`, `tp_` and a mutex | `ScheduleTask` and its three callers, worker loop, `Cancel`, `CancelAll`, `WaitTillClear`, destructor | three kinds of waiters on one condition variable; tasks that reschedule themselves, or wait for tasks; cancel during a run | no oversleeping, no run after a cancel, `WaitTillClear` means idle, no deadlock |
| stream buffers (`stream_buffer.h`, `buffered_file_stream.h`) | two buffers and a token, or a `writing_` flag | `Read`, `Write`, `Flush`, `Close` | buffers swapped with a background thread | bytes in order, none lost |
| `TextWriter` (`text_writer.h`) | workspaces, free list, two stages | `Write` | chunk numbers circulate through two stages and a queue | chunks in order, a workspace in one place only |
| `TextParser` (`text_parser.h`) | workspaces, left-over bytes, two stages, a queue | `Read`, `ReadBlock`, `Stop` | end-of-file tokens; blocks cut at line ends; error blocks | every line once, in order, and an end |
| `InputTextDirStream` (`text_dir_stream.h`) | read stage, contents queue, counts of files | `Open`, `Read`, `Close` | splitting files among readers; one end marker per file | every line read by one reader, and `Read` and `Close` return |
| rotating log (`rotating_file_log_device.h`) and files (`rotating_files.h`) | current file and its size, files on disk | constructor, `WriteLine`, `RotateFile`, `Flush` | the process ends at any step; removals fail; the limits change from run to run | goes on in the newest file; nothing lost; only the oldest files removed |
| multi-disk streams (`multi_disk_stream.h`) | position, one position per part | `Open`, `Read`, `Write`, `Seek`, `Close` | arithmetic at chunk boundaries, over buffered parts | reads what was written |
| `logger.h`, `leveled_log_device.h` | tree of loggers, table of levels | `Get`, `Set...`, `Write` | inherited settings | nearest configured device |
| `configuration.h`, `option.h`, `binary_buffer.h`, `hard_container.h` | sequential data | | boundaries | |

They interact by calls and callbacks only. A `PipelineStage` pushes closures to a
`ThreadPool`; its workers call back into the stage, which pushes to the next
`DataConsumer`: another stage or a `BoundedQueue`. `TextWriter`, `TextParser`,
`InputTextDirStream` and two of the stream buffers are rings or chains of stages and
queues, with small integers (workspace numbers) as tokens. The locks and the timed tasks
stand alone. File systems, HDFS, MySQL, Snappy, `json.hpp` and `date.h` are outside
every model; `PROJECT.json` lists each part with its reason.

## The modules

| module | models | extends |
|---|---|---|
| `BlockingQueueSpec` | what a bounded blocking queue promises: a call takes effect when its condition holds, at once | |
| `BoundedQueue` | `bounded_queue.h` | |
| `BoundedQueueProofs` | four theorems about it | `BoundedQueue` |
| `ThreadPool` | the pool's own state and steps, without a caller | |
| `ThreadPoolUse` | a pool with pushes from outside and from tasks | `ThreadPool` |
| `PipelineStage` | `pipeline.h` on the pool, feeding a bounded queue | `ThreadPool` |
| `ThreadPoolProofs` | four theorems about a pool in use, five about a stage | `ThreadPoolUse`, `PipelineStage` |
| `TLSRWLock` | `InterruptableTLSRWLock` | |
| `TLSRWLockProofs` | four theorems about it | `TLSRWLock` |
| `TimedTask` | `timed_task.h` | |
| `TimedTaskProofs` | five theorems about it | `TimedTask` |
| `TextWriter` | `text_writer.h` | |
| `TextWriterProofs` | two theorems about it | `TextWriter` |
| `StreamBuffers` | `stream_buffer.h`: the threaded output buffer and the prefetching input buffer | |
| `MultiDisk` | `multi_disk_stream.h`, a file in parts, each behind such buffers | `StreamBuffers` |
| `MultiDiskProofs` | five theorems about it | `MultiDisk` |
| `TextSplit` | `text_dir_stream.h`: who reads which range of which file, and what a range is made of | |
| `TextDirStream` | `text_dir_stream.h`: workers, `contents_`, `Read`, `Close` | `TextSplit` |
| `TextParser` | `text_parser.h` on such a stream | `TextDirStream` |
| `TextParserProofs` | three theorems about it and the stream below | `TextParser` |
| `RotatingLog` | `rotating_file_log_device.h`, over many lives of a process | |
| `RotatingLogProofs` | four theorems about it | `RotatingLog` |
| `MC...` | the constants of the TLC instances | |

Conventions. A variable has the name of the member it models, without the trailing
underscore; a variable whose comment says "history" only records what happened, and no
guard that stands for the code reads it except where the comment says so. A condition
variable is the set of threads blocked in it. `notify_one` takes any one of them out
(nobody promises which), `notify_all` all, and `SpuriousWakeup` any one at any time, as
C++ allows. A critical section is one step as long as it neither waits nor releases
its mutex; a thread that was woken runs its `while` test in a step of its own, so
other threads may come in between. Definitions called `X_Something` next to a
definition `X` are plausible mistakes; each one, put in place of `X`, breaks the
property it is listed with.

### BoundedQueue

A call is `CallX` (its argument is chosen), steps `XStep` (the loop test: go to sleep,
fail on the kill switch, or take effect) and back to `"idle"`. `EndQueue` may come at
any time. `SetCapacity` is possible until something was pushed, as its comment
demands. `WaitEmpty` does not overlap with pushes, because its comment declares that
undefined. Poppers use either end.

### ThreadPool, ThreadPoolUse

`worker[w]` is `Free` in the critical section's loop, the task it runs, or `Exited`;
`pool_cv` holds the workers asleep. The running task is the environment: in
`ThreadPoolUse` it may push more tasks (`NestedPush`), also while the destructor
runs, and returns. Threads outside do not push once the destructor has begun.

### PipelineStage

The stage with a pool of its own. `mutex` is not merely held or free: retiring an entry
pushes to the next stage, which may be full, so a section of `CheckQueueNolock` that
retires is a record of what it still has to do, and everybody who needs the mutex
waits. The next stage is a `BoundedQueue` of capacity `SinkCapacity`, which may be
ended. Task functions are the identity up to order: an output is named by its input.
One run covers both values of `out_of_order_`, chosen in `Init`.

### TLSRWLock

One step per atomic operation, so the races between announcing and looking are all
there. The operations of `atomic_ops.h` are acquire/release read-modify-writes; the
model is sequentially consistent. `reads[t]` and `writes[t]` record the locks a thread has been
granted. A thread may nest up to `MaxDepth` locks of both kinds in any order, which includes
read under write, write under read (upgrade) and their release in another order. `Interrupted` is
`should_interrupt_()` at each place where the code asks. Ids are distinct, as
`thread_id.h` assigns them.

### TimedTask

`due[k]` is the time left until `tp_` and `deadline[w]` what is left of a `wait_for`;
`Tick` lets time pass. Of a task that is late only that much is kept: lateness is cut
at `MaxLag`, since nothing but the order of the queue and "due now" depends on it. A
worker is `awake` (at its loop test), `asleep` (no timeout), `timed`, `popped`,
`copied` (a recurring task that has released its mutex), `in_func`, `ran`
(a recurring task about to reschedule itself), `finish` (about to count its run as over) or
`exited`. A function may wait for other tasks (`Needs`) and schedule them (`Parent`).
A one-shot task keeps its mutex during its function, so `Cancel` waits for it; a
recurring task does not. A task's function does not cancel itself (a one-shot task
that does so deadlocks on its own mutex).

### TextWriter

Three places hold the numbers of the workspaces in turn: `free_spaces`, the input buffer of the stage that
makes text (`textify`), and that of the stage that writes (`file_write`); `hand` is the number `Write`
has popped. `WaitTillClear` is both waits at the end of `Write`. The two stages are those of `PipelineStage`
with `out_of_order_` false, written as sequences of entries: a section that retires entries is
one step here, because it pushes to a stage or queue without a bound and therefore never waits. A
line is the number of the call and its index; `PartToText` appends one line per step, so that filling a workspace
can overlap with everything else. One thread calls `Write`, as the member `curr_ptrs_` demands.

### StreamBuffers, MultiDisk

A byte is its number in what was written, so any loss, repetition or exchange shows. The two
buffers of an output stream are `buf` and `writing_buf`; `write_token` and `writer` are the queue with the token
and the input buffer of the one-thread stage. `SwapOut` and `PushOut` are the two halves of `PushToWrite`, because the
writer thread may run between them. The input stream is the mirror image: `rest` is the unread part of
`buf_`, `prefetch_buf` belongs to the thread, `prefetcher` carries the order to read on (0) or not (-1), `prefetched` the
length of the block. `Read` takes the block and, in the same step, sends the next order;
a read larger than the buffer takes the block and reads on in the file directly (`NextBlock`).
`MultiDisk` is the caller of both: it cuts what it writes at chunk boundaries (`WritePart`), gives the pieces to the parts in turn, closes,
may open again for append, opens for reading and seeks. `SeekOff` is the arithmetic of `Seek`.

### TextSplit, TextDirStream, TextParser

`TextSplit` has no state. `Ranges` is what `Open` computes for one reader: whole files, then
left-over files, block by block if the file system can seek. The rest is the loop of `ReadFileIntoBuffer`: a task is a record of
a range and the loop's local variables (`bytes_read`, `left_over`, `partial_head`), `Lines` what a round of the loop makes of them and
of the bytes it reads (cut behind the last line break, without the line the range begins in, in the last round with the rest of the line it ends
in), `Pushed` what it pushes, `NextRound` what it leaves behind. A byte carries its file and place. A line
is the bytes up to the next line break; its first byte says whether it parses (`"good"`), throws (`"bad"`) or gives nothing (`"none"`).

`TextDirStream` adds the workers: `ranges[k]` is the `k`-th task of `read_stage_`; a round of its loop is a step (`ReadRound`), which waits if it has
something to push and `contents` is full; an empty block ends the range (`EndRange`) and counts in `files_read`. `stream` is history: what `Read` has
popped so far. `TextParser` puts the two stages and
the queue of the parser on top. Workspace numbers circulate, and one that meets the end of the text turns into
-1 (`None`). `ReadPop`/`ReadCopy` are the stream's `Read` inside `ReadStage`. A workspace holds its text (`raw`), the lines made of it (`data`), how
many of them have been handed out (`head`), and as history where in `stream` its text begins (`from`).

### RotatingLog

The constructor is `Start` (limits, list of files, first removals), `CurrentIsFull` or `CurrentHasRoom`, and `Open`;
`RotateFile` is the second disjunct of `WriteLine`, `OpenNext`, and `Trimmed`. The removals of `doomed`
run side by side (`Remove`), may fail, and may have been overtaken by the end of the process. `Spill` is
the `ofstream` writing its buffer when it likes; `Crash` may come at every step, and the process starts again with
other limits. `written`, `begins` and `stuck` are history.

## What TLC checks

| run | instance | shows |
|---|---|---|
| `bounded_queue` | 2 pushers, a front and a back consumer, one `WaitEmpty` caller, 4 elements, capacity 1 or 2 | `TypeOK` (with the capacity), `NoLostWakeup`, `ExactlyOnceInOrder`, `AllDelivered`; the queue implements `BlockingQueueSpec` with its fairness (`ImplementsBlockingQueue`) |
| `wait_empty_twice` | one pusher, one consumer, two `WaitEmpty` callers | a counterexample to "every `WaitEmpty` returns" |
| `thread_pool` | 2 workers, 3 tasks, two priority classes | `PoolNoLostWakeup`, `EveryTaskOnce`, `PriorityOrder`, `TasksRun`, `DestructorReturns` |
| `pipeline_stage` | 2 active tasks, input buffer of 3, next stage of 1, 4 inputs, one `WaitTillClear` caller | `TasksMatchEntries`, `DeliveryOrder`, `StopIsFinal`, `ClearMeansDelivered`, `InputsAreDelivered`, `CallsReturn` |
| `tls_rw_lock` | 3 threads, 3 nested locks | `MutualExclusion`, `CountersAgree`, `WritersFirst`, `CallsProgress` |
| `timed_task` | a recurring task whose function schedules a one-shot task and waits for it, up to 3 workers, one `WaitTillClear` caller | `OneHolder`, `NoOversleep`, `CancelHolds`, `ClearMeansIdle`, `TasksFallDue`, `CallsReturn` |
| `task_waits_for_task` | two one-shot tasks scheduled from outside, the first waits for the second | a counterexample to `TasksFallDue` |
| `multi_disk` | two parts, chunks of 3 bytes, buffers of 1, 2 and 4, up to 8 bytes written, read by up to 4 | `PartsInOrder`, `RoundTrip`, `CallsReturn` |
| `multi_disk_append` | the same, with append to a file of any length | a counterexample to `RoundTrip` |
| `text_input` | 2 readers, stream blocks of 2 bytes and parser blocks of 3, 2 workers, 2 workspaces; directories of one file of up to 5 bytes, two of up to 3, and four larger ones | `EachLineOneReader` (all directories), `LinesOnceInOrder`, `CallsReturn` (those of one file and the larger ones) |
| `rotating_log` | `max_log_file_size` and `max_n_files` of 0, 2 and 3, up to 6 bytes, file numbers up to 4 | `ReadyToWrite`, `NothingLost`, `KeepsNewest` |
| `text_writer` | 3 workspaces, chunks of 2, 2 calls of up to 7 lines | `OnePlace`, `FileInOrder`, `WriteReturns` |

Why the bounds are enough to be interesting:

- Queue: capacity 1 with two pushers makes pushers block on each other, and two
  consumers make a popped slot go to either; 4 elements is twice the larger capacity.
- Pool: 2 workers are the fewest that can sleep and run at once; 3 tasks fill both and leave one
  queued; two tasks share a priority, so `seq_num` decides.
- Stage: an input buffer of 3 with 2 active tasks has an entry that waits, and the first of three can
  finish last; a next stage of 1 blocks the second retirement of one section; 4 inputs
  make a `Push` block.
- Lock: 3 threads allow a writer, a losing writer and a reader at once, and two
  upgraders with a writer; depth 3 nests read-write-read and write-read-write.
- Timed tasks: two tasks with times 0 and 1 apart let a later call overtake an
  earlier deadline; the recurring task may overlap the end of its last run, which
  needs the second worker, and the task it waits for the third. A recurring task may
  ask for more workers than that, each time it runs again before its last run is counted as over.
  `MaxWorkers` delays such a call until one of the runs is counted.
- Text writer: 7 lines are four chunks, one more than the workspaces, so a number comes round
  within one call, and the last chunk is short; the second call reuses workspaces of the first.

- Multi-disk: chunks of 3 are cut by buffers of 2 and hold buffers of 1; 8 bytes are one round over both parts and a
  part of the next, with a short last chunk; reads of 4 span a chunk boundary and exceed the
  smallest buffer, so they take the direct way. Buffers of 4 make a write fit behind
  another one. `MinCapacity` stands for the 64 KiB of the code.
- Text input: blocks of 2 and 3 bytes against lines of 1 to 5 put every kind of cut (before, in and after a line, on the line
  break) at every border of blocks and ranges. The directories that are read have more files than workers, a
  line longer than a block, a shared left-over file, an empty file, a line that throws and one that gives nothing.
- Rotating log: limits of 0 are the boundary the code corrects (0 files) or not (0 bytes); with 2 and 3 a restart may find more files than it may keep.
  6 bytes and 5 files allow two rotations and a restart in between, or a restart in each step of one.

Deadlock is checked except where the system really stops: a destroyed pool,
scheduler or writer, a log device that is not started again, a text stream that was read
to its end or closed.

### Fairness

Weak fairness says that a thread that can always run does run: pushers, consumers in
their loop, workers, the destructor once begun, `notify`'d waiters. It is what an
operating system gives every runnable thread. Nothing is assumed about the arrival of calls: nobody has to
push, cancel, stop or destroy. Beyond that:

- Consumers of `BoundedQueue` and of the stage's output come back for more
  (`CallPop`, `SinkPop`): without a consumer, pushers on a full queue wait by design.
- Task functions return (`Return`, `FinishTask`, `FuncEnds`), in `TimedTask` when
  the tasks they wait for are over.
- `TLSRWLock`: a thread decides again and again to give its locks up (`SF` of `Leave`,
  then `WF` of the unlocks), and interruptions end. A thread that is interrupted and retries for
  ever would be first in line over and over without getting the lock. Spinning threads
  are only claimed to proceed while no other thread is the writer or about to be: the
  lock prefers writers, so readers may starve behind a stream of them.
- `TextWriter`: a call of `Write` and both stages go on; nobody has to call `Write`.
- `MultiDisk` and `TextParser`: a call that was begun goes on, and the threads of the buffers, of the
  directory stream and of the two stages run. The promises are conditional where the code is: `CallsReturn` of `MultiDisk` excludes
  reading beyond the end, that of `TextParser` calls of `Read` after every end mark was taken and `Close`
  before the end (see "Disagreements").
- `TimedTask`: time passes. `CallsReturn` promises the return of `WaitTillClear` only
  once all recurring tasks are cancelled, because with a recurring task alive it
  need not return.

## What is proved

TLAPS proves the following for every value of the constants that meets the named
assumptions (`QueueAssumption`, `PoolAssumption`, `KeysAssumption`, `LockAssumption`, `LogAssumption`,
`StageAssumption`, `SchedulerAssumption`, `WriterAssumption`, `CapacityAssumption`, `DiskAssumption`, `SplitAssumption`, `DirAssumption`, `ParserAssumption`: finite sets of threads, roles that do not overlap, positive capacities and depths,
limits that are natural numbers, parts that are numbered from 0, marks such as `Unlocked` and `NoTask` that are not members of the sets they stand beside).

- `BoundedQueueProofs`
  - `TypeCorrect`: the types, and `Len(queue) <= capacity`. Inductive with "nothing
    accepted yet means an empty queue", because `SetCapacity` may lower the
    capacity until then.
  - `WakeupsSuffice`: `NoLostWakeup` with `OnePhase` (pushes and `WaitEmpty` calls do
    not overlap). The argument counts: as many pushers are awake as there are free
    slots, or nobody waits; a `Push` uses up one slot and one awake pusher, a
    `Pop` adds one of each.
  - `DeliveryCorrect`: `ExactlyOnceInOrder`, with `PendingIsNew` (elements in flight
    are new), by the position of an element in `accepted`.
  - `QueueImplementsPromise`: initial states and steps of the queue are
    those of `BlockingQueueSpec` or stutter (sleeping, waking, the loop test). The liveness half of the refinement is checked by
    TLC only.
- `ThreadPoolProofs`, first about `ThreadPoolUse`:
  - `PoolTypeCorrect`.
  - `WakeupsSuffice`: `PoolNoLostWakeup` with the finiteness of the queue; again by counting
    the awake workers against the tasks.
  - `TasksRunOnce`: `EveryTaskOnce`, with the count of the places a task is in, and
    "once all workers have left the queue is empty", which holds because the last one to leave
    saw it empty and only tasks push after that.
  - `HigherFirst`: `PriorityOrder`, an action property that needs no more than the types: a task only leaves `tasks` by
    `WorkerTake`, which takes the first one in the order of the queue.
- `TLSRWLockProofs`: one inductive invariant `Inv` for all four theorems. Its parts: the
  counters equal what each thread's program counter and locks say
  (`ReadersCounted`, `WritersCounted`), at most one thread owns the first place among the writers
  (`OneOwner`), and `Excluded`: the owner has passed reader cell `i` only if thread `i`
  holds nothing and will back off. Mutual exclusion itself is not inductive: it says
  nothing about a writer half way through the cells, nor about a reader between its
  increment and its look at `n_writers_`. `WritersComeFirst` is an action property from
  the same invariant.
- `RotatingLogProofs`: the invariant is `Files /\ Chained`. `Files` says where the current file is among those on disk at each step
  of the constructor and of a rotation (`Placed`, `Sized`), and what the removals under way leave (`Trimming`):
  few enough files, and behind each doomed file enough newer ones. The counting rests on lemmas about
  `Oldest`: the number of older files orders the files, so a set of files with ranks in an interval is no larger than the interval. `Chained` is `NothingLost`
  without `Newest`; that a removal keeps it needs that a removed file is never the newest, which with
  `max_n_files` 1 is only true because the constructor is about to continue with the next number (`LastOne`).
  - `TypeCorrect`, `ReadyCorrect` (`ReadyToWrite`), `NothingIsLost` (`NothingLost`), `NewestAreKept` (`KeepsNewest`).
- `ThreadPoolProofs`, about `PipelineStage`: one inductive invariant `Inv`. `TasksMatchEntries` is not inductive by itself: that a worker finds
  its entry needs that the entries have different inputs (`EntriesDistinct`) and that no input is in two hands
  (`OutstandingOnce`). `SectionOK` says what a thread inside `CheckQueueNolock` has done and has still to do, since another
  thread may change the next stage in between; `ArgsNew` says that the argument of a `Push` is new, `History` that what was accepted
  is in the buffer or delivered, once, and `InOrder` that in an ordered stage the buffer goes on where the outputs stop.
  - `TypeCorrect`, `TasksHaveEntries` (`TasksMatchEntries`), `OutputsCorrect` (`DeliveryOrder`); `StopCorrect` (`StopIsFinal`) and
    `ClearCorrect` (`ClearMeansDelivered`) are action properties from the same invariant.
- `TimedTaskProofs`: the types with `Counted` (`n_running_` is the number of workers with a task), on which all else rests.
  - `TypeCorrect`; `ClearCorrect` (`ClearMeansIdle`): with `Counted`, `n_running_` 0 means that no worker has a task, so every task
    created and not over is in `tasks_`.
  - `HoldersCorrect` (`OneHolder`) is inductive with them, and `SleepersCorrect` (`NoOversleep`) with `OneHolder`, because a
    task a worker holds is not in the queue, so rescheduling it changes no deadline anybody has slept by.
  - `CancelCorrect` (`CancelHolds`), by `NoStartAfterCancel`: only a copied function may still start, and `OneHolder` says there is one copy.
- `TextWriterProofs`: one inductive invariant for both theorems. `AllPlaced` and `Apart` say that the numbers are distributed over
  the places, all of them and none twice; `Adjacent` that along the writing stage, the text stage and Write's
  hand each chunk begins where the one before it ends; `Texts` how much of its chunk each workspace holds; `FileSoFar` what the file ends with.
  A stage retires its finished entries up to the first unfinished one; that there is such a number
  (`RetirableExists`) needs that the natural numbers are well-founded.
  - `PlacesCorrect` (`OnePlace`), `FileCorrect` (`FileInOrder`).

- `MultiDiskProofs`, for any number of parts, and any sizes of chunks, buffers and calls, under the hypothesis `~AppendAnywhere`: a file is
  opened for append only when its chunks end with the last part. Without it the claims are false (`multi_disk_append`).
  One inductive invariant `Inv == WriteInv /\ ReadInv` for all theorems.
  - The numbering of bytes: `Held(p, o)` is how many of the first `o` bytes part `p` has, which is what `Seek`
    computes (`SeekOff`), and `OffsetOf(p, j)` is where byte `j` of the part is in the file. The
    lemmas say that they are inverse (`OffsetOfHeld`, `HeldOfOffset`), that a piece which stays in its chunk adds to its own
    part only (`HeldMore`), and that `Held` grows with `o` (`HeldGrows`). They rest on the uniqueness of quotient and remainder.
  - Writing: `Content` says that what is stored of a part, in the file, with its thread, in its buffer and in the call, has length
    `Held(p, total)` and byte `j` where `OffsetOf` puts it. Every step of the buffer moves bytes from one place to the next and
    leaves their concatenation as it was. That needs `TokenKept`, where the one token of a part is: while
    it is away, `writing_buf` is what was swapped, and no second swap can overwrite it. `StartsARound` says that a stream opened
    for append counts from a whole round of chunks; `PartsInOrder` follows, but says too little about places to be inductive.
  - Reading: `Following` says that the rest of the buffer and the block read ahead are the bytes of the part's file
    that follow what was returned (`At`); `Ahead` that orders and blocks alternate, and that after a short block, and after an order
    not to read on, the thread is at the end of the file; `PartCall` what the call of a part has got. A part at the end of
    its file in the middle of a chunk is the part the whole file ends in (`ReadsOn`).
  - `TypeCorrect`, `PartsCorrect` (`PartsInOrder`), `RoundTripCorrect` (`RoundTrip`), and `NoReadIsShort`, an action property: `Read`'s error
    for a short read is never raised. `Invariant` is what they follow from.

- `TextParserProofs`, for any directory (except, where files are shared block by block, one with an empty left-over file, see "Disagreements"), any number of readers, workers and workspaces, and
  any sizes of blocks. One inductive invariant `Inv` for all theorems; it speaks of bytes only by their place, so nothing is
  proved by induction over a text.
  - `SplitCorrect` (`EachLineOneReader`). `RangesAre` says which ranges a reader has: every `NReaders`-th file, and of the
    left-over files the ranges between its first and last block. `FileBlockStart` is a cardinality and grows with the
    file (`FirstBlocks`), so a byte of a left-over file lies in one block, and a block belongs to one reader (`BlockOf`, `ReaderOf`). A line belongs to the
    range of the byte before its first (`OwnedAsByte`); from there the claim is about bytes (`WholeOwner`, `PartOwner`, `LeftOverOwner`).
  - A round of the loop (`Round`): a range that is being read has an invariant of its own (`TaskOK`): `left_over` is the stretch of the file between
    the place up to which the task has handed lines on (`Done`) and the place up to which it has read, it has no line break, and a task that
    still skips its first line has met none. A round moves `Done` to the end of a line, and pushes the lines in between (`LinesHandedOn`).
  - The stream (`DirInv`). `Texts` is what has been popped and what waits in `contents`. `Whole` says that a text consists of
    whole lines that fall to this reader, `Sorted` and `Precedes` that the bytes of a file are in order in a text and between texts, `TasksOK` that no two tasks
    have the same file and no text has anything a task has still to read, `NoLineLost` that a line of the share is in a text or owed by
    a task, and `Counted` that ranges that have ended, end marks under way and tasks are all the ranges, so `AtEnd` means that nothing is owed.
  - The parser (`ParserInv`). `Chain` is the sequence of workspace numbers behind `ReadStage`: the caller's, the parsed, those in the parse stage. No
    number is in two places (`Apart`); the text of each workspace is the piece of `stream` where that of the number before it ends, and what
    `ReadStage` holds and `curr_block` go on from there (`ChainOK`, `ReadOK`); every border is behind a line break or at the start,
    so cutting a text cuts no line (`PieceLines`). Behind an end mark there are only end marks, and then everything is read (`EndOK`). `Front` is how far lines
    have been handed out, and `DeliveredOK` that they are the good lines of `stream` before it. `EndRead`, `ParseStage` and `Deliver` each move the texts of one
    number along the chain.
  - `LinesCorrect` (`LinesOnceInOrder`): what is handed out is a line of `stream` behind `Front`, hence a line of a file that falls to the reader
    (`LineOfFile`), later in its file than those before it. At an end mark `Front` is the end of `stream`, and `NoLineLost` puts every line of the share there
    (`NothingUnread`). `Inv` itself ends with `Stop`, after which nothing is handed out. `TextInvariant` is what both follow from.

Only model-checked: all liveness properties and `ENABLED` (not supported by the prover's backends), and the
liveness half of the refinement. The installed provers cannot do induction over
data, so the models are written without `RECURSIVE` operators: orders and sums are cardinalities (`InOrder`, `FileBlockStart`
of `TextSplit`), and a loop over data is a step per round.

## Disagreements

Shown by a run:

- `bounded_queue.h:217` "Wait for the queue to become empty": with two callers, one
  of them can stay blocked on an empty queue, since every `Pop` notifies one waiter (`wait_empty_twice`).
- `timed_task.h:144` "we should spawn more threads to avoid deadlock": a worker is added
  only during a `ScheduleTask` that finds all workers busy; tasks that were
  scheduled before a worker blocks are not counted (`task_waits_for_task`).
- `multi_disk_stream.h:259` "Open an existing multi-disk stream for append": `Open` (369) takes the sizes of the parts from streams that have just been
  opened, which have counted nothing (`buffered_file_stream.h:157`), so writing starts with part 0 again (`multi_disk_append`).

Met while reading, not the subject of a run (the models have the code's behaviour, and the properties
are stated so that they do not claim what is not so):

- `pipeline.h:131`: `out_of_order` is described as "whether the tasks should retire in the same order
  as they are pushed"; it means the opposite.
- `pipeline.h:141,148`: `max_active_tasks` 0 is raised to 1, but the pool gets 0 threads, so no task runs.
- `pipeline.h:218,241`: a caller already inside `WaitTillClear` is not woken by `Stop`. `CallsReturn` is
  stated accordingly.
- `timed_task.h:60` "True if task has been executed": a cancelled one-shot task is marked executed when it falls due.
- `rotating_files.h:108` "list sorted file paths": `NameCompareLess` (44-50) parses
  its left argument twice and compares with 0.
- `hard_container.h:222` "Sets the ith element to false": `Reset` (226) clears all eight elements of the byte.
- `text_parser.h:1046`: the constructor that owns its stream drops `header_lines`; 1149: when several header lines are skipped,
  a line after an empty one is lost.
- `text_parser.h:1064`: `Read` takes the end marks away, one per call, and blocks for ever once all are taken, while
  `ReadBlock` (1092) puts them back.
- `text_parser.h:1069`: a block in which no line parses makes `Read` return false before the end, and every later call as well.
- `text_parser.h:1065`: after a call that threw, the next one delivers the lines before the error; the
  error of a workspace (1244) is not cleared when the workspace is used again; a block of line breaks only is reported as an error.
- `text_dir_stream.h:196`: a left-over file without blocks is counted but never read, and `Read` waits for its end; if all
  left-over files are empty, `end_f - start_f` is negative.
- `text_dir_stream.h:215`: `Close` joins the reading stage before it ends `contents_`, so it deadlocks
  unless the stream was read to its end.
- `text_dir_stream.h:374`: `total_bytes_read_` is updated by several workers without a lock.
- `multi_disk_stream.h:126`: a read beyond the end of the file loops for ever.
- `stream_buffer.h:235`: the constructor of `ThreadPoolOutputStreamBuffer` with a stream opens it without a pool, which always throws (243).
- `stream_buffer.h:99`: a short read is taken for the end of the file.
- `rotating_file_log_device.h:53`: with `max_log_file_size` 0 the constructor compares with the raw value, so every restart begins a new
  file, although 0 counts as 1 everywhere else.
- `rotating_file_log_device.h:56`: with `max_n_files` 1 the constructor removes the full current file before it
  opens the next; if the process ends in between, numbering starts again at 0.
- `rotating_file_log_device.h:165`: if the removal of an old file fails while a newer one is removed, and the process then ends, a later run
  may go on in the old file. `NothingLost` leaves such files out (`stuck`).

## Not modelled

- `SpinningRWLock`, `RWLock` (`rw_lock.h:249,286`): nothing in the library uses them. `RWLock` is one mutex and one condition variable;
  `SpinningRWLock` is the announce-then-look race of `TLSRWLock` with a single counter, without nesting and interruption.
- `thread_id.h`: the table of ids is changed under one mutex in one step; `TLSRWLock` takes from it that ids are distinct.
- `RotatingFiles` (`rotating_files.h`): used by its test only, and the log device without removals and without going on in an old file.
- `ThreadPoolOutputStreamBuffer`: used by one test; the protocol of `ThreadedOutputStreamBuffer` with the flag `writing_` in the place of
  the token. `FillBuffer` has no caller.
- A `PipelineStage` on a pool shared with other stages (`test_pipeline.cpp` does that): `pipeline.h:114` leaves it to the user
  to choose priorities that do not deadlock. Chains of stages with pools of their own are modelled in `TextWriter` and `TextParser`;
  those of `snappy_stream.h` have the same shape.
- The option of `InputTextDirStream` for small HDFS files, the skipping of header lines, the conversion of fields: sequential code
  on characters, whose unit tests cover it.
- Sequential data structures and parsers (`BinaryBuffer`, hard arrays, `Configuration`, options, the logger tree, strings): no
  interleaving and no failure, so there is nothing that a model checker reaches and a unit test does not.
- File systems, HDFS, MySQL, Snappy, encryption, `json.hpp`, `date.h`: external libraries, wrappers of them, or pure functions.

## Running

`tlc -config bounded_queue.cfg MCBoundedQueue.tla` and so on (each run takes from seconds to
about two minutes on two cores); `tlapm BoundedQueueProofs.tla` for the proofs
(`TextParserProofs` takes about ten minutes, the others less).
