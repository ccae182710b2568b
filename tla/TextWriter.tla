------------------------------ MODULE TextWriter ------------------------------
(***************************************************************************)
(* TextWriter of fma-common/text_writer.h.  Write cuts its arrays into     *)
(* chunks.  The numbers of the workspaces circulate: from free_spaces_ to  *)
(* Write, through the stage that turns a chunk into text, line by line and *)
(* several chunks at a time, then through the stage that writes to the     *)
(* file, and back.                                                         *)
(*                                                                         *)
(* Both stages keep the order of their inputs.  A stage's critical section *)
(* is one step here: what it retires goes to a stage or queue without a    *)
(* bound, so it never waits with its mutex held (see PipelineStage for one *)
(* that does).  A line is <<call, index>>.                                 *)
(***************************************************************************)
EXTENDS Integers, Sequences, FiniteSets

CONSTANTS
  NWriters,   \* n_writers_, also the number of workspaces
  ChunkSize,  \* chunk_size_
  MaxLines,   \* bound on the length of the arrays given to Write
  MaxCalls    \* bound on the number of Write calls

ASSUME WriterAssumption ==
  {NWriters, ChunkSize, MaxLines, MaxCalls} \subseteq Nat \ {0}

Parts == 0 .. NWriters - 1
NoPart == -1

VARIABLES
  textify,      \* input_buffer_ of textify_stage_: <<[part, line, finished], ...>>,
                \* where line is PartToText's loop variable
  file_write,   \* input_buffer_ of file_write_stage_, line = 1 once written
  free_spaces,  \* free_spaces_
  workspace,    \* workspace_[part]: [off, size, buf]
  curr_ptrs,    \* curr_ptrs_: the call whose arrays are being written
  n, i,         \* Write's argument and loop variable
  hand,         \* b: the workspace Write has popped, or NoPart
  pc,           \* where the caller is: "idle", "chunks", "textify", "file" or "gone"
  file          \* the lines in the file

vars == <<textify, file_write, free_spaces, workspace, curr_ptrs, n, i, hand, pc, file>>

Init ==
  /\ textify = <<>> /\ file_write = <<>>
  /\ free_spaces = [k \in 1 .. NWriters |-> k - 1]
  /\ workspace = [b \in Parts |-> [off |-> 0, size |-> 0, buf |-> <<>>]]
  /\ curr_ptrs = 0 /\ n = 0 /\ i = 0 /\ hand = NoPart
  /\ pc = "idle" /\ file = <<>>

(***************************************************************************)
(* The caller                                                              *)
(***************************************************************************)
Write ==
  /\ pc = "idle" /\ pc' = "chunks"
  /\ curr_ptrs < MaxCalls /\ curr_ptrs' = curr_ptrs + 1
  /\ n' \in 0 .. MaxLines /\ i' = 0
  /\ UNCHANGED <<textify, file_write, free_spaces, workspace, hand, file>>

\* Mutant: the number stays in the free list.
Popped_Kept(s) == s
Popped(s) == Tail(s)

PopSpace ==
  /\ pc = "chunks" /\ i < n /\ hand = NoPart /\ free_spaces # <<>>
  /\ hand' = Head(free_spaces) /\ free_spaces' = Popped(free_spaces)
  /\ workspace' = [workspace EXCEPT ![hand'].off = i,
                     ![hand'].size = IF ChunkSize < n - i THEN ChunkSize ELSE n - i]
  /\ UNCHANGED <<textify, file_write, curr_ptrs, n, i, pc, file>>

NewEntry(b) == [part |-> b, line |-> 0, finished |-> FALSE]

PushPart ==
  /\ hand # NoPart /\ Len(textify) < NWriters
  /\ textify' = Append(textify, NewEntry(hand))
  /\ hand' = NoPart /\ i' = i + ChunkSize
  /\ UNCHANGED <<file_write, free_spaces, workspace, curr_ptrs, n, pc, file>>

\* Mutant: Write returns when all chunks are text.
FileClear_NotAwaited == TRUE
FileClear == file_write = <<>>

WaitTillClear ==
  /\ \/ pc = "chunks" /\ i >= n /\ hand = NoPart /\ pc' = "textify"
     \/ pc = "textify" /\ textify = <<>> /\ pc' = "file"
     \/ pc = "file" /\ FileClear /\ pc' = "idle"
  /\ UNCHANGED <<textify, file_write, free_spaces, workspace, curr_ptrs, n, i, hand, file>>

\* Both stages are empty by then, so stopping them is stopping idle workers.
Destroy == pc = "idle" /\ pc' = "gone" /\ UNCHANGED <<textify, file_write, free_spaces,
                                                      workspace, curr_ptrs, n, i, hand, file>>

(***************************************************************************)
(* The stages.  All of textify_stage_'s entries may run at a time, and the *)
(* first of file_write_stage_'s.                                           *)
(***************************************************************************)
PartToText(k) ==
  LET t == textify[k] p == workspace[t.part] IN
  /\ ~t.finished /\ t.line < p.size
  /\ workspace' = [workspace EXCEPT ![t.part].buf = Append(@, <<curr_ptrs, p.off + t.line>>)]
  /\ textify' = [textify EXCEPT ![k].line = @ + 1]
  /\ UNCHANGED <<file_write, free_spaces, curr_ptrs, n, i, hand, pc, file>>

\* The entries at the front that have finished.
Retirable(stage) ==
  CHOOSE k \in 0 .. Len(stage) : /\ \A j \in 1 .. k : stage[j].finished
                                 /\ k < Len(stage) => ~stage[k + 1].finished
Rest(stage) == SubSeq(stage, Retirable(stage) + 1, Len(stage))
Retired(stage) == [j \in 1 .. Retirable(stage) |-> stage[j].part]

FinishText(k) ==
  LET stage == [textify EXCEPT ![k].finished = TRUE]
      out == Retired(stage) IN
  /\ ~textify[k].finished /\ textify[k].line >= workspace[textify[k].part].size
  /\ textify' = Rest(stage)
  /\ file_write' = file_write \o [j \in DOMAIN out |-> NewEntry(out[j])]
  /\ UNCHANGED <<free_spaces, workspace, curr_ptrs, n, i, hand, pc, file>>

WriteToFile ==
  LET b == file_write[1].part IN
  /\ file_write # <<>> /\ file_write[1].line = 0
  /\ file' = file \o workspace[b].buf
  /\ workspace' = [workspace EXCEPT ![b].buf = <<>>]
  /\ file_write' = [file_write EXCEPT ![1].line = 1]
  /\ UNCHANGED <<textify, free_spaces, curr_ptrs, n, i, hand, pc>>

\* Mutant: the stage has no next stage.
Freed_Nothing(stage) == <<>>
Freed(stage) == Retired(stage)

FinishWrite ==
  LET stage == [file_write EXCEPT ![1].finished = TRUE] IN
  /\ file_write # <<>> /\ file_write[1].line = 1
  /\ file_write' = Rest(stage)
  /\ free_spaces' = free_spaces \o Freed(stage)
  /\ UNCHANGED <<textify, workspace, curr_ptrs, n, i, hand, pc, file>>

CallerStep == PopSpace \/ PushPart \/ WaitTillClear
TextStep(k) == k <= Len(textify) /\ (PartToText(k) \/ FinishText(k))
FileStep == WriteToFile \/ FinishWrite

Next ==
  \/ Write \/ CallerStep \/ Destroy
  \/ \E k \in 1 .. NWriters : TextStep(k)
  \/ FileStep

Safety == Init /\ [][Next]_vars

\* Threads run; nobody has to call Write.
Spec ==
  /\ Safety
  /\ WF_vars(CallerStep) /\ WF_vars(FileStep)
  /\ \A k \in 1 .. NWriters : WF_vars(TextStep(k))

-----------------------------------------------------------------------------
\* A workspace number is in one place: free, in Write's hands or in one stage,
\* so that nobody refills a workspace that is being read.  In particular the
\* push to the first stage never has to wait.
OnePlace ==
  LET held == (IF hand = NoPart THEN <<>> ELSE <<hand>>) \o free_spaces
                \o [k \in DOMAIN textify |-> textify[k].part]
                \o [k \in DOMAIN file_write |-> file_write[k].part] IN
  /\ Len(held) = NWriters
  /\ {held[k] : k \in DOMAIN held} = Parts

\* The file holds the lines of the calls in order, without a gap or a double,
\* of one call after the other, although chunks become text at the same time;
\* when Write has returned, all lines of its arrays are there.
FileInOrder ==
  /\ \A k \in DOMAIN file :
       \/ k > 1 /\ file[k] = <<file[k - 1][1], file[k - 1][2] + 1>>
       \/ file[k][2] = 0 /\ (k > 1 => file[k - 1][1] < file[k][1])
  /\ pc = "idle" /\ n > 0 => file # <<>> /\ file[Len(file)] = <<curr_ptrs, n - 1>>

\* Write returns.
WriteReturns == pc # "idle" ~> pc \in {"idle", "gone"}
=============================================================================
