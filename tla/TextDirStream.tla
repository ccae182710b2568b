---------------------------- MODULE TextDirStream ----------------------------
(***************************************************************************)
(* InputTextDirStream of fma-common/text_dir_stream.h in one of the        *)
(* processes that share a directory: workers read ranges of files, block   *)
(* by block, and push whole lines into contents_, which Read empties.      *)
(***************************************************************************)
EXTENDS TextSplit

CONSTANTS
  NParallel,    \* n_parallel
  Directories,  \* the directories there may be: sequences of files
  ReadDirs      \* those that are also read and not only shared out

ASSUME DirAssumption ==
  /\ NParallel \in Nat \ {0}
  /\ ReadDirs \subseteq Directories
  /\ Directories \subseteq Seq(Seq(Kinds))

VARIABLES
  dir,           \* dir_ and what is in it
  support_seek,  \* whether the file system can seek
  my_reader_id,
  ranges,        \* input_buffer_ of read_stage_: the tasks, with their local variables
  contents,      \* contents_
  total_files,
  files_read,
  curr_block,    \* curr_block_ from curr_block_offset_ on
  stream         \* history: the bytes taken out of contents

dirStream == <<dir, support_seek, my_reader_id, ranges, contents, total_files, files_read, curr_block,
               stream>>
opened == <<dir, support_seek, my_reader_id, total_files>>

DirInit ==
  /\ dir \in Directories /\ support_seek \in BOOLEAN
  \* A left-over file without a byte would make Read wait for ever.
  /\ support_seek => \A i \in 0 .. LeftOver(dir) - 1 : NBlocks(dir, i) > 0
  /\ my_reader_id \in 0 .. NReaders - 1
  /\ ranges = <<>> /\ contents = <<>>
  /\ total_files = 0 /\ files_read = 0 /\ curr_block = <<>> /\ stream = <<>>

OpenDir ==
  LET frs == Ranges(dir, my_reader_id, support_seek) IN
  /\ dir \in ReadDirs
  /\ ranges' = [k \in DOMAIN frs |-> Task(frs[k])]
  /\ total_files' = TotalFiles(dir, my_reader_id, support_seek)
  /\ UNCHANGED <<dir, support_seek, my_reader_id, contents, files_read, curr_block, stream>>

\* One worker, for the k-th task: a round of the loop, with its push.
ReadRound(k) ==
  LET t == ranges[k]
      pushed == Pushed(Lines(dir, t)) IN
  /\ ~t.finished
  /\ pushed # <<>> => Len(contents) < NParallel
  /\ contents' = contents \o pushed
  /\ ranges' = [ranges EXCEPT ![k] = NextRound(dir, t)]
  /\ UNCHANGED <<opened, files_read, curr_block, stream>>

\* The empty block that ends a range; the task leaves the stage.
Without(s, k) == SubSeq(s, 1, k - 1) \o SubSeq(s, k + 1, Len(s))
EndRange(k) ==
  /\ ranges[k].finished /\ Len(contents) < NParallel
  /\ contents' = Append(contents, <<>>)
  /\ ranges' = Without(ranges, k)
  /\ UNCHANGED <<opened, files_read, curr_block, stream>>

ReadFileIntoBuffer(k) == k <= Least(NParallel, Len(ranges)) /\ (ReadRound(k) \/ EndRange(k))

AtEnd == curr_block = <<>> /\ files_read = total_files

PopBlock ==
  /\ curr_block = <<>> /\ files_read # total_files /\ contents # <<>>
  /\ curr_block' = Head(contents) /\ contents' = Tail(contents)
  /\ files_read' = files_read + (IF curr_block' = <<>> THEN 1 ELSE 0)
  /\ stream' = stream \o curr_block'
  /\ UNCHANGED <<opened, ranges>>

\* Close stops read_stage_: the tasks in its pool are run to their end, no others.
StopReading ==
  /\ ranges' = SubSeq(ranges, 1, Least(NParallel, Len(ranges)))
  /\ UNCHANGED <<opened, contents, files_read, curr_block, stream>>

-----------------------------------------------------------------------------
\* Every line of the directory falls to exactly one range of exactly one of the
\* readers, wherever blocks and ranges cut the files (Open; LinesOnceInOrder of
\* TextParser says that a reader reads the lines that fall to it).
EachLineOneReader ==
  ranges = <<>> /\ files_read = 0 =>
    \A l \in FileLines(dir) :
      LET owners == UNION {{r} \X {k \in DOMAIN Ranges(dir, r, support_seek) :
                                    Owns(Ranges(dir, r, support_seek)[k], l[1], l[2])} :
                            r \in 0 .. NReaders - 1} IN
      \E o \in owners : owners = {o}
=============================================================================
