----------------------------- MODULE RotatingLog -----------------------------
(***************************************************************************)
(* RotatingFileLogDevice of fma-common/rotating_file_log_device.h over     *)
(* many lives of its process: log files are numbered upwards, the current  *)
(* one is closed when it is full, and the oldest are removed.              *)
(*                                                                         *)
(* A byte of the log is its number in what was written.  A process may end *)
(* at any step; it loses what is in the buffer of its ofstream, and the    *)
(* next one may be given other limits.  The mutex of the device makes      *)
(* WriteLine and Flush one at a time.                                      *)
(***************************************************************************)
EXTENDS Integers, Sequences, FiniteSets

CONSTANTS
  FileSizes,   \* the values given for max_log_file_size
  FileCounts,  \* the values given for max_n_files
  MaxBytes,    \* bound on the bytes written
  MaxIdx       \* bound on the file numbers

ASSUME LogAssumption ==
  /\ FileSizes \subseteq Nat /\ FileCounts \subseteq Nat
  /\ MaxBytes \in Nat /\ MaxIdx \in Nat

VARIABLES
  disk,               \* disk[i]: the bytes in file i, for the files that exist
  unflushed,          \* the bytes in the buffer of curr_file_
  curr_file_idx, curr_file_size,
  max_log_file_size,  \* the constructor's argument
  max_n_files,
  log_files,          \* the constructor's list of files
  doomed,             \* the files the remove_actions have yet to remove
  pc,                 \* "down"; "size", "open" of the constructor; "run"; "next", "trim" of RotateFile
  written,            \* history: how many bytes were written and not lost in a crash
  begins,             \* history: begins[i]: what written was when file i was created
  stuck               \* history: the files whose removal has failed

limits == <<max_log_file_size, max_n_files>>
history == <<written, begins, stuck>>
vars == <<disk, unflushed, curr_file_idx, curr_file_size, limits, log_files, doomed, pc, history>>

AtLeastOne(n) == IF n = 0 THEN 1 ELSE n
max_file_size == AtLeastOne(max_log_file_size)

Newest(files) == CHOOSE i \in files : \A j \in files : j <= i
Oldest(files, n) == {i \in files : Cardinality({j \in files : j < i}) < n}
\* Mutant: one file too many is removed.
NRemove_OneMore(n_files, max) == n_files + 1 - max
NRemove(n_files, max) == n_files - max

\* What ofstream::open does to the file, in append mode.
\* Mutant: the file is truncated.
Opened_Trunc(i) == [j \in DOMAIN disk \cup {i} |-> IF j = i THEN <<>> ELSE disk[j]]
Opened(i) == [j \in DOMAIN disk \cup {i} |-> IF j \in DOMAIN disk THEN disk[j] ELSE <<>>]
OpenCurrent ==
  /\ disk' = Opened(curr_file_idx)
  /\ begins' = [j \in DOMAIN disk' |-> IF j \in DOMAIN disk THEN begins[j] ELSE written]
FlushedDisk == [disk EXCEPT ![curr_file_idx] = @ \o unflushed]

Init ==
  /\ disk = <<>> /\ unflushed = <<>>
  /\ curr_file_idx = 0 /\ curr_file_size = 0
  /\ max_log_file_size = 0 /\ max_n_files = 1
  /\ log_files = {} /\ doomed = {}
  /\ pc = "down" /\ written = 0 /\ begins = <<>> /\ stuck = {}

\* The device has ended; its members are gone.
Gone ==
  /\ pc' = "down"
  /\ curr_file_idx' = 0 /\ curr_file_size' = 0
  /\ max_log_file_size' = 0 /\ max_n_files' = 1
  /\ log_files' = {} /\ doomed' = {}

(***************************************************************************)
(* The constructor                                                         *)
(***************************************************************************)
Start ==
  /\ pc = "down" /\ pc' = "size"
  /\ max_log_file_size' \in FileSizes /\ max_n_files' \in {AtLeastOne(n) : n \in FileCounts}
  /\ log_files' = DOMAIN disk
  /\ doomed' = Oldest(log_files', NRemove(Cardinality(log_files'), max_n_files'))
  /\ curr_file_idx' = (IF log_files' = {} THEN 0 ELSE Newest(log_files')) /\ curr_file_size' = 0
  /\ curr_file_idx' < MaxIdx
  /\ UNCHANGED <<disk, unflushed, history>>

\* The removals run side by side; the device waits for all of them.  One may fail.
Without(f, i) == [j \in DOMAIN f \ {i} |-> f[j]]
Remove(i) ==
  /\ i \in doomed /\ doomed' = doomed \ {i}
  /\ \/ /\ disk' = Without(disk, i) /\ begins' = Without(begins, i) /\ stuck' = stuck \ {i}
     \/ /\ stuck' = stuck \cup ({i} \cap DOMAIN disk) /\ UNCHANGED <<disk, begins>>
  /\ UNCHANGED <<unflushed, curr_file_idx, curr_file_size, limits, log_files, pc, written>>

\* Mutant: the current file is not added to the list.
NListed_WithoutCurrent == Cardinality(log_files)
NListed == Cardinality(log_files) + 1

CurrentIsFull ==
  /\ pc = "size" /\ doomed = {}
  /\ curr_file_idx \in DOMAIN disk /\ Len(disk[curr_file_idx]) >= max_log_file_size
  /\ curr_file_idx' = curr_file_idx + 1
  /\ doomed' = Oldest(log_files, NRemove(NListed, max_n_files))
  /\ pc' = "open"
  /\ UNCHANGED <<disk, unflushed, curr_file_size, limits, log_files, history>>

CurrentHasRoom ==
  /\ pc = "size" /\ doomed = {}
  /\ curr_file_idx \in DOMAIN disk => Len(disk[curr_file_idx]) < max_log_file_size
  /\ curr_file_size' = IF curr_file_idx \in DOMAIN disk THEN Len(disk[curr_file_idx]) ELSE 0
  /\ pc' = "open"
  /\ UNCHANGED <<disk, unflushed, curr_file_idx, limits, log_files, doomed, history>>

Open ==
  /\ pc = "open" /\ doomed = {} /\ pc' = "run"
  /\ OpenCurrent /\ log_files' = {}
  /\ UNCHANGED <<unflushed, curr_file_idx, curr_file_size, limits, doomed, written, stuck>>

(***************************************************************************)
(* WriteLine with RotateFile, Flush and the destructor                     *)
(***************************************************************************)
\* With RotateFile up to its close, which flushes.
WriteLine(s) ==
  LET line == [k \in 1 .. s |-> written + k] IN
  /\ pc = "run" /\ written + s <= MaxBytes
  /\ written' = written + s
  /\ \/ /\ curr_file_size + s < max_file_size
        /\ unflushed' = unflushed \o line /\ curr_file_size' = curr_file_size + s
        /\ UNCHANGED <<disk, curr_file_idx, pc>>
     \/ /\ curr_file_size + s >= max_file_size /\ curr_file_idx < MaxIdx
        /\ disk' = [disk EXCEPT ![curr_file_idx] = @ \o unflushed \o line]
        /\ unflushed' = <<>>
        /\ curr_file_size' = curr_file_size + s
        /\ curr_file_idx' = curr_file_idx + 1 /\ pc' = "next"
  /\ UNCHANGED <<limits, log_files, doomed, begins, stuck>>

OpenNext ==
  /\ pc = "next" /\ pc' = "trim"
  /\ OpenCurrent /\ curr_file_size' = 0
  /\ doomed' = Oldest(DOMAIN disk', NRemove(Cardinality(DOMAIN disk'), max_n_files))
  /\ UNCHANGED <<unflushed, curr_file_idx, limits, log_files, written, stuck>>

Trimmed ==
  /\ pc = "trim" /\ doomed = {} /\ pc' = "run"
  /\ UNCHANGED <<disk, unflushed, curr_file_idx, curr_file_size, limits, log_files, doomed, history>>

Flush ==
  /\ pc = "run" /\ disk' = FlushedDisk /\ unflushed' = <<>>
  /\ UNCHANGED <<curr_file_idx, curr_file_size, limits, log_files, doomed, pc, history>>

Stop ==
  /\ pc = "run" /\ Gone
  /\ disk' = FlushedDisk /\ unflushed' = <<>>
  /\ UNCHANGED history

\* The ofstream writes its buffer out on its own, in part.
Spill(n) ==
  /\ n < Len(unflushed)
  /\ disk' = [disk EXCEPT ![curr_file_idx] = @ \o SubSeq(unflushed, 1, n)]
  /\ unflushed' = SubSeq(unflushed, n + 1, Len(unflushed))
  /\ UNCHANGED <<curr_file_idx, curr_file_size, limits, log_files, doomed, pc, history>>

Crash ==
  /\ pc # "down" /\ Gone
  /\ unflushed' = <<>> /\ written' = written - Len(unflushed)
  /\ UNCHANGED <<disk, begins, stuck>>

Next ==
  \/ Start \/ CurrentIsFull \/ CurrentHasRoom \/ Open
  \/ \E i \in doomed : Remove(i)
  \/ \E s \in 1 .. MaxBytes : WriteLine(s)
  \/ OpenNext \/ Trimmed \/ Flush \/ Stop
  \/ \E n \in 1 .. MaxBytes : Spill(n)
  \/ Crash

Spec == Init /\ [][Next]_vars

-----------------------------------------------------------------------------
\* Between two calls the device writes to the newest file, knows how much is in
\* it, has room, and has no more files than it may but those it failed to
\* remove, whatever crashes and changes of the limits came before.
ReadyToWrite ==
  pc = "run" =>
    /\ curr_file_idx \in DOMAIN disk /\ curr_file_idx = Newest(DOMAIN disk)
    /\ curr_file_size = Len(disk[curr_file_idx]) + Len(unflushed)
    /\ curr_file_size < max_file_size
    /\ Cardinality(DOMAIN disk \ stuck) <= max_n_files

\* Each file goes on where the one before it ends, up to the newest one with the
\* buffer: neither a rotation nor a restart loses, repeats or reorders a byte,
\* and a crash loses the end of the buffer only.  Files that should be gone are
\* left out.
NothingLost ==
  \A i \in DOMAIN disk \ stuck :
    LET end == begins[i] + Len(disk[i]) IN
    /\ \A k \in DOMAIN disk[i] : disk[i][k] = begins[i] + k
    /\ i + 1 \in DOMAIN disk => begins[i + 1] = end
    /\ i = Newest(DOMAIN disk) =>
         /\ \A k \in DOMAIN unflushed : unflushed[k] = end + k
         /\ written = end + Len(unflushed)

\* A file goes only when max_n_files - 1 newer ones are there besides the one
\* that is being written or about to be.
KeepsNewest ==
  [][\A i \in DOMAIN disk \ DOMAIN disk' :
       Cardinality({j \in DOMAIN disk' \ {curr_file_idx} : j > i}) >= max_n_files - 1]_vars
=============================================================================
