------------------------------ MODULE TLSRWLock ------------------------------
(***************************************************************************)
(* InterruptableTLSRWLock of fma-common/rw_lock.h: a reentrant             *)
(* reader-writer lock built from atomics only.  Every thread counts its    *)
(* read locks in a cell of its own and writers announce themselves in      *)
(* n_writers; a reader and a writer each write their own cell and then     *)
(* read the other's.  One action is one atomic operation, in program order *)
(* and sequentially consistent.                                            *)
(*                                                                         *)
(* The locks a thread was granted (reads, writes) are what its caller      *)
(* knows; the code keeps no such record.                                   *)
(***************************************************************************)
EXTENDS Integers, FiniteSets

CONSTANTS
  MaxThreads,  \* FMA_MAX_THREADS
  MaxDepth     \* bound on the locks one thread holds at a time

ASSUME LockAssumption == MaxThreads \in Nat \ {0} /\ MaxDepth \in Nat \ {0}

Tids == 0 .. MaxThreads - 1
NoWriter == -1

VARIABLES
  n_writers,            \* n_writers_
  reader_locks,         \* reader_locks_[tid]
  curr_writer,          \* curr_writer_
  write_reentry_level,  \* write_reentry_level_
  pc,                   \* pc[t]: the next atomic operation of t's call, or "idle"
  scan,                 \* scan[t]: the loop index of t's WriteLock
  reads, writes,        \* the read and write locks granted to t
  leaving               \* t's caller takes no more locks until it holds none

atomics == <<n_writers, reader_locks, curr_writer, write_reentry_level>>
held == <<reads, writes>>
vars == <<atomics, pc, scan, held, leaving>>

Init ==
  /\ n_writers = 0
  /\ reader_locks = [t \in Tids |-> 0]
  /\ curr_writer = NoWriter
  /\ write_reentry_level = 0
  /\ pc = [t \in Tids |-> "idle"]
  /\ scan = [t \in Tids |-> 0]
  /\ reads = [t \in Tids |-> 0] /\ writes = [t \in Tids |-> 0]
  /\ leaving = [t \in Tids |-> FALSE]

Goto(t, from, to) == pc[t] = from /\ pc' = [pc EXCEPT ![t] = to]
Add(count, t, n) == [count EXCEPT ![t] = @ + n]

(***************************************************************************)
(* The caller: takes locks, nested in any way, and sooner or later returns *)
(* them all; at once if an upgrade failed.                                 *)
(***************************************************************************)
MayLock(t) == ~leaving[t] /\ reads[t] + writes[t] < MaxDepth

CallReadLock(t) ==
  /\ MayLock(t) /\ Goto(t, "idle", "r_inc")
  /\ UNCHANGED <<atomics, scan, held, leaving>>

CallWriteLock(t) ==
  /\ MayLock(t) /\ Goto(t, "idle", "w_inc")
  /\ UNCHANGED <<atomics, scan, held, leaving>>

Leave(t) ==
  /\ pc[t] = "idle" /\ ~leaving[t] /\ reads[t] + writes[t] > 0
  /\ leaving' = [leaving EXCEPT ![t] = TRUE]
  /\ UNCHANGED <<atomics, pc, scan, held>>

\* One lock of t goes; was it the last?
OneLess(t) == [leaving EXCEPT ![t] = @ /\ reads[t] + writes[t] > 1]

(***************************************************************************)
(* ReadLock                                                                *)
(***************************************************************************)
GrantRead(t) == reads' = Add(reads, t, 1) /\ UNCHANGED <<scan, writes, leaving>>

\* The increment that may find the lock already held by this thread.
ReadInc(t) ==
  /\ reader_locks' = Add(reader_locks, t, 1)
  /\ \/ reader_locks[t] > 0 /\ Goto(t, "r_inc", "idle") /\ GrantRead(t)
     \/ reader_locks[t] = 0 /\ Goto(t, "r_inc", "r_check") /\ UNCHANGED <<scan, held, leaving>>
  /\ UNCHANGED <<n_writers, curr_writer, write_reentry_level>>

\* Mutant: a reader that finds a writer looks no further.
NoWriters_Always == TRUE
NoWriters == n_writers = 0

ReadCheck(t) ==
  /\ \/ NoWriters /\ Goto(t, "r_check", "idle") /\ GrantRead(t)
     \/ ~NoWriters /\ Goto(t, "r_check", "r_self") /\ UNCHANGED <<scan, held, leaving>>
  /\ UNCHANGED atomics

ReadSelf(t) ==
  /\ \/ curr_writer = t /\ Goto(t, "r_self", "idle") /\ GrantRead(t)
     \/ curr_writer # t /\ Goto(t, "r_self", "r_dec") /\ UNCHANGED <<scan, held, leaving>>
  /\ UNCHANGED atomics

ReadBackOff(t) ==
  /\ Goto(t, "r_dec", "r_spin")
  /\ reader_locks' = Add(reader_locks, t, -1)
  /\ UNCHANGED <<n_writers, curr_writer, write_reentry_level, scan, held, leaving>>

ReadRetry(t) ==
  /\ n_writers = 0 /\ Goto(t, "r_spin", "r_inc")
  /\ UNCHANGED <<atomics, scan, held, leaving>>

ReadInterrupted(t) ==
  /\ n_writers # 0 /\ Goto(t, "r_spin", "idle")
  /\ UNCHANGED <<atomics, scan, held, leaving>>

ReadUnlock(t) ==
  /\ pc[t] = "idle" /\ reads[t] > 0
  /\ reader_locks' = Add(reader_locks, t, -1)
  /\ reads' = Add(reads, t, -1)
  /\ leaving' = OneLess(t)
  /\ UNCHANGED <<n_writers, curr_writer, write_reentry_level, pc, scan, writes>>

(***************************************************************************)
(* WriteLock                                                               *)
(***************************************************************************)
\* write_reentry_level_ is touched by the writer alone.
GrantWrite(t) ==
  /\ write_reentry_level' = write_reentry_level + 1
  /\ writes' = Add(writes, t, 1)
  /\ UNCHANGED <<n_writers, reader_locks, scan, reads, leaving>>

WriteInc(t) ==
  /\ n_writers' = n_writers + 1
  /\ \/ n_writers = 0 /\ Goto(t, "w_inc", "w_scan") /\ scan' = [scan EXCEPT ![t] = 0]
     \/ n_writers # 0 /\ Goto(t, "w_inc", "w_self") /\ UNCHANGED scan
  /\ UNCHANGED <<reader_locks, curr_writer, write_reentry_level, held, leaving>>

WriteSelf(t) ==
  \/ curr_writer = t /\ Goto(t, "w_self", "idle") /\ GrantWrite(t) /\ UNCHANGED curr_writer
  \/ curr_writer # t /\ Goto(t, "w_self", "w_dec") /\ UNCHANGED <<atomics, scan, held, leaving>>

WriteBackOff(t) ==
  /\ Goto(t, "w_dec", "w_upgrade")
  /\ n_writers' = n_writers - 1
  /\ UNCHANGED <<reader_locks, curr_writer, write_reentry_level, scan, held, leaving>>

\* Mutant: a thread that holds a read lock waits for the writer.
HoldsRead_Ignored(t) == FALSE
HoldsRead(t) == reader_locks[t] # 0

WriteUpgrade(t) ==
  /\ \/ /\ HoldsRead(t) /\ Goto(t, "w_upgrade", "idle")  \* UPGRADE_FAILED
        /\ leaving' = [leaving EXCEPT ![t] = TRUE]
     \/ ~HoldsRead(t) /\ Goto(t, "w_upgrade", "w_spin") /\ UNCHANGED leaving
  /\ UNCHANGED <<atomics, scan, held>>

WriteRetry(t) ==
  /\ n_writers = 0 /\ Goto(t, "w_spin", "w_inc")
  /\ UNCHANGED <<atomics, scan, held, leaving>>

\* Mutant: the rollback of the scan, copied to where nothing is announced.
WriteInterrupted_RollsBack(t) ==
  /\ n_writers # 0 /\ Goto(t, "w_spin", "idle")
  /\ n_writers' = n_writers - 1
  /\ UNCHANGED <<reader_locks, curr_writer, write_reentry_level, scan, held, leaving>>
WriteInterrupted(t) ==
  /\ n_writers # 0 /\ Goto(t, "w_spin", "idle")
  /\ UNCHANGED <<atomics, scan, held, leaving>>

\* Mutant: the last cell is not looked at.
ScanDone_OneShort(t) == scan[t] = MaxThreads - 1
ScanDone(t) == scan[t] = MaxThreads

\* The first writer goes through the readers in order of tid.
WriteScan(t) ==
  /\ IF ScanDone(t)
     THEN Goto(t, "w_scan", "w_own") /\ scan' = [scan EXCEPT ![t] = 0]
     ELSE /\ pc[t] = "w_scan" /\ UNCHANGED pc
          /\ scan[t] = t \/ reader_locks[scan[t]] = 0
          /\ scan' = Add(scan, t, 1)
  /\ UNCHANGED <<atomics, held, leaving>>

ScanInterrupted(t) ==
  /\ scan[t] < MaxThreads /\ scan[t] # t /\ reader_locks[scan[t]] # 0
  /\ Goto(t, "w_scan", "w_rollback")
  /\ scan' = [scan EXCEPT ![t] = 0]
  /\ UNCHANGED <<atomics, held, leaving>>

\* Mutant: an interrupted writer leaves its announcement behind.
RolledBack_Forgotten == n_writers
RolledBack == n_writers - 1

WriteRollback(t) ==
  /\ Goto(t, "w_rollback", "idle")
  /\ n_writers' = RolledBack
  /\ UNCHANGED <<reader_locks, curr_writer, write_reentry_level, scan, held, leaving>>

WriteOwn(t) ==
  /\ Goto(t, "w_own", "idle")
  /\ curr_writer' = t
  /\ GrantWrite(t)

\* Mutant: the first of several WriteUnlocks gives the lock up.
LastUnlock_First == TRUE
LastUnlock == write_reentry_level = 1

WriteUnlock(t) ==
  /\ writes[t] > 0 /\ Goto(t, "idle", "w_release")
  /\ write_reentry_level' = write_reentry_level - 1
  /\ curr_writer' = IF LastUnlock THEN NoWriter ELSE curr_writer
  /\ writes' = Add(writes, t, -1)
  /\ leaving' = OneLess(t)
  /\ UNCHANGED <<n_writers, reader_locks, scan, reads>>

WriteRelease(t) ==
  /\ Goto(t, "w_release", "idle")
  /\ n_writers' = n_writers - 1
  /\ UNCHANGED <<reader_locks, curr_writer, write_reentry_level, scan, held, leaving>>

-----------------------------------------------------------------------------
ReadStep(t) == ReadInc(t) \/ ReadCheck(t) \/ ReadSelf(t) \/ ReadBackOff(t) \/ ReadRetry(t)
WriteStep(t) ==
  \/ WriteInc(t) \/ WriteSelf(t) \/ WriteBackOff(t) \/ WriteUpgrade(t) \/ WriteRetry(t)
  \/ WriteScan(t) \/ WriteRollback(t) \/ WriteOwn(t) \/ WriteRelease(t)
Unlock(t) == ReadUnlock(t) \/ WriteUnlock(t)
Interrupted(t) == ReadInterrupted(t) \/ WriteInterrupted(t) \/ ScanInterrupted(t)

Next ==
  \E t \in Tids :
    \/ CallReadLock(t) \/ CallWriteLock(t) \/ Leave(t)
    \/ ReadStep(t) \/ WriteStep(t) \/ Unlock(t) \/ Interrupted(t)

Safety == Init /\ [][Next]_vars

\* Threads inside a call run.  A caller that holds locks does not keep taking
\* and returning some of them forever: it leaves, and then returns them all.
\* Calls are not interrupted and retried for ever: each retry raises a cell the
\* first writer may be looking at.
Fairness ==
  /\ \A t \in Tids :
       /\ WF_vars(ReadStep(t) \/ WriteStep(t))
       /\ SF_vars(Leave(t))
       /\ WF_vars(leaving[t] /\ Unlock(t))
  /\ <>[][\A t \in Tids : ~Interrupted(t)]_vars

Spec == Safety /\ Fairness

-----------------------------------------------------------------------------
ReadPcs == {"r_inc", "r_check", "r_self", "r_dec", "r_spin"}
WritePcs == {"w_inc", "w_self", "w_dec", "w_upgrade", "w_spin", "w_scan", "w_rollback", "w_own"}

TypeOK ==
  /\ n_writers \in Nat
  /\ reader_locks \in [Tids -> Nat]
  /\ curr_writer \in Tids \cup {NoWriter}
  /\ write_reentry_level \in Nat
  /\ pc \in [Tids -> {"idle", "w_release"} \cup ReadPcs \cup WritePcs]
  /\ scan \in [Tids -> 0 .. MaxThreads]
  /\ reads \in [Tids -> Nat] /\ writes \in [Tids -> Nat]
  /\ leaving \in [Tids -> BOOLEAN]

\* A thread with a write lock excludes every other thread, readers and writers,
\* whatever either of them holds or upgrades.
MutualExclusion ==
  \A t \in Tids : writes[t] > 0 => \A u \in Tids \ {t} : reads[u] = 0 /\ writes[u] = 0

\* What t adds to its own cell and to n_writers: its locks, and the increment
\* of a call that is under way.
ReadShare(t) == reads[t] + IF pc[t] \in {"r_check", "r_self", "r_dec"} THEN 1 ELSE 0
WriteShare(t) ==
  writes[t] +
    IF pc[t] \in {"w_self", "w_dec", "w_scan", "w_rollback", "w_own", "w_release"} THEN 1 ELSE 0

\* The announcements, counted: the i-th one of thread t.
Announcements == {a \in Tids \X (1 .. MaxDepth + 1) : a[2] <= WriteShare(a[1])}

\* No path of a lock call, failed upgrades and interruptions included, leaks or
\* loses an increment, and curr_writer_ is the thread that holds the write lock.
CountersAgree ==
  /\ \A t \in Tids : reader_locks[t] = ReadShare(t)
  /\ n_writers = Cardinality(Announcements)
  /\ \A t \in Tids : writes[t] > 0 <=> curr_writer = t
  /\ curr_writer # NoWriter => write_reentry_level = writes[curr_writer]

\* t was first to announce itself and has not given that up.
Owner(t) == pc[t] \in {"w_scan", "w_rollback", "w_own", "w_release"} \/ writes[t] > 0

AdmitsNobodyElse ==
  \A t \in Tids : \A u \in Tids \ {t} :
    Owner(t) => (reads[u] = 0 => reads'[u] = 0) /\ writes'[u] = 0

\* "Readers wait for writers as long as there is any writer": once a thread is
\* first among the writers, no other thread is granted a lock it did not hold.
WritersFirst == [][AdmitsNobodyElse]_vars

\* The first writer outlasts the readers, although they may lock again what they
\* hold and may try to upgrade; and nobody waits unless another thread is the
\* writer, or about to be.
CallsProgress ==
  \A t \in Tids :
    /\ pc[t] = "w_scan" ~> pc[t] # "w_scan"
    /\ pc[t] # "idle" ~> (pc[t] = "idle" \/ \E u \in Tids \ {t} : Owner(u))
=============================================================================
