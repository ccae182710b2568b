------------------------------ MODULE TextSplit ------------------------------
(***************************************************************************)
(* How fma-common/text_dir_stream.h shares the text files of a directory   *)
(* between NReaders processes, and how ReadFileIntoBuffer reads the range  *)
(* of a file that falls to one of them, block by block.                    *)
(*                                                                         *)
(* A file is a sequence of kinds of bytes; a byte that is read knows where *)
(* it is from: <<file, place, kind>>.                                      *)
(***************************************************************************)
EXTENDS Integers, Sequences, FiniteSets

CONSTANTS
  NReaders,   \* n_readers
  BlockSize   \* block_size_ of the stream

ASSUME SplitAssumption == {NReaders, BlockSize} \subseteq Nat \ {0}

Kinds == {"\n", "good", "bad", "none"}   \* a byte of a line that parses, throws, or gives nothing
NewLine == <<0, 0, "\n">>
IsNewLine(byte) == byte[3] = "\n"
Least(m, n) == IF m < n THEN m ELSE n

\* The members of a finite set of numbers, smallest first.
InOrder(S) ==
  [k \in 1 .. Cardinality(S) |-> CHOOSE n \in S : Cardinality({m \in S : m <= n}) = k]

\* Bytes off + 1 .. off + n of file f of directory d, as far as they exist.
BytesAt(d, f, off, n) ==
  [k \in 1 .. Least(n, Len(d[f]) - off) |-> <<f, off + k, d[f][off + k]>>]

NewLines(text) == {k \in DOMAIN text : IsNewLine(text[k])}
FirstNewLine(text) == CHOOSE k \in NewLines(text) : \A j \in NewLines(text) : k <= j
LastNewLine(text) == CHOOSE k \in NewLines(text) : \A j \in NewLines(text) : j <= k
After(text, k) == SubSeq(text, k + 1, Len(text))

\* Where the lines of a text begin that are not empty, and what they are.
LineStarts(text) ==
  {k \in DOMAIN text : k \notin NewLines(text) /\ (k = 1 \/ k - 1 \in NewLines(text))}
LineEnd(text, k) ==
  CHOOSE m \in k .. Len(text) : /\ NewLines(text) \cap (k .. m) = {}
                                /\ m = Len(text) \/ m + 1 \in NewLines(text)
LineAt(text, k) == SubSeq(text, k, LineEnd(text, k))

FileText(d, f) == BytesAt(d, f, 0, Len(d[f]))

(***************************************************************************)
(* Open: the ranges that reader my_reader_id reads                         *)
(***************************************************************************)
FileRange(f, off, size) == [file |-> f, off |-> off, size |-> size]
FilePerReader(d) == Len(d) \div NReaders
LeftOver(d) == Len(d) % NReaders
LeftOverFile(d, i) == i + NReaders * FilePerReader(d) + 1
NBlocks(d, i) == (Len(d[LeftOverFile(d, i)]) + BlockSize - 1) \div BlockSize

WholeFiles(d, my_reader_id) ==
  LET File(i) == (i - 1) * NReaders + my_reader_id + 1 IN
  [i \in 1 .. FilePerReader(d) |-> FileRange(File(i), 0, Len(d[File(i)]))]

\* A left-over file is spread block by block if the file system can seek: the
\* number of blocks of the left-over files before the i-th.
FileBlockStart(d, i) == Cardinality(UNION {{j} \X (1 .. NBlocks(d, j)) : j \in 0 .. i - 1})

\* Mutant: the blocks that do not come out even are nobody's.
BlockPerReader_RoundedDown(d) == FileBlockStart(d, LeftOver(d)) \div NReaders
BlockPerReader(d) == (FileBlockStart(d, LeftOver(d)) + NReaders - 1) \div NReaders
StartB(d, my_reader_id) == BlockPerReader(d) * my_reader_id
EndB(d, my_reader_id) == BlockPerReader(d) * (my_reader_id + 1)

\* upper_bound - 1 of the first block and lower_bound of the block after the last.
StartF(d, my_reader_id) ==
  Cardinality({i \in 0 .. LeftOver(d) : FileBlockStart(d, i) <= StartB(d, my_reader_id)}) - 1
EndF(d, my_reader_id) ==
  Least(LeftOver(d),
        Cardinality({i \in 0 .. LeftOver(d) : FileBlockStart(d, i) < EndB(d, my_reader_id)}))

RangeOf(d, my_reader_id, i) ==
  LET first_block_id == FileBlockStart(d, i)
      fsize == Len(d[LeftOverFile(d, i)])
      beg == IF i = StartF(d, my_reader_id)
             THEN (StartB(d, my_reader_id) - first_block_id) * BlockSize ELSE 0
      end == IF i = EndF(d, my_reader_id) - 1
             THEN (EndB(d, my_reader_id) - first_block_id) * BlockSize
             ELSE FileBlockStart(d, i + 1) * BlockSize IN
  FileRange(LeftOverFile(d, i), beg, Least(end, fsize) - Least(beg, fsize))

\* Ranges without a byte are passed over.
PartFiles(d, my_reader_id) ==
  LET start_f == StartF(d, my_reader_id)
      parts == [i \in 1 .. EndF(d, my_reader_id) - start_f |->
                  RangeOf(d, my_reader_id, start_f + i - 1)]
      kept == InOrder({i \in DOMAIN parts : parts[i].size # 0}) IN
  [k \in DOMAIN kept |-> parts[kept[k]]]

LeftOverFiles(d, my_reader_id) ==
  IF my_reader_id >= LeftOver(d) THEN <<>>
  ELSE LET f == LeftOverFile(d, my_reader_id) IN <<FileRange(f, 0, Len(d[f]))>>

Ranges(d, my_reader_id, support_seek) ==
  WholeFiles(d, my_reader_id) \o
  (IF support_seek THEN PartFiles(d, my_reader_id) ELSE LeftOverFiles(d, my_reader_id))

\* Mutant: every reader counts all left-over files.
TotalFiles_EveryLeftOver(d, my_reader_id, support_seek) == FilePerReader(d) + LeftOver(d)
TotalFiles(d, my_reader_id, support_seek) ==
  FilePerReader(d) +
  (IF support_seek THEN EndF(d, my_reader_id) - StartF(d, my_reader_id)
   ELSE Len(LeftOverFiles(d, my_reader_id)))

(***************************************************************************)
(* ReadFileIntoBuffer: a task of read_stage_ is a range with the local     *)
(* variables of the loop; finished once the last block has been pushed.    *)
(***************************************************************************)
Task(fr) ==
  [file |-> fr.file, off |-> fr.off, size |-> fr.size,
   bytes_read |-> 0, left_over |-> <<>>, partial_head |-> TRUE, finished |-> FALSE]

\* What a round reads: with r bytes from the file, behind left_over.
RoundSize(t) == Least(BlockSize, t.size - t.bytes_read)
Read(d, t) == t.left_over \o BytesAt(d, t.file, t.off + t.bytes_read, RoundSize(t))
LastRound(t) == t.bytes_read + RoundSize(t) = t.size

\* A range that begins inside a file begins with what the reader before reads.
Skips(t) == t.partial_head /\ t.off # 0
StillPartial(d, t) == Skips(t) /\ NewLines(Read(d, t)) = {}

WithoutHead(text) == IF NewLines(text) = {} THEN <<>> ELSE After(text, FirstNewLine(text))
Block(d, t) == IF Skips(t) THEN WithoutHead(Read(d, t)) ELSE Read(d, t)

\* The rest of the line that goes on, or begins, at off.
ToLineBreak(d, f, off) ==
  LET tail == BytesAt(d, f, off, Len(d[f])) IN
  IF NewLines(tail) = {} THEN tail ELSE SubSeq(tail, 1, FirstNewLine(tail) - 1)

\* The last block is read on to the end of a line; others end behind their last line break.
Cut(block) == IF NewLines(block) = {} THEN 0 ELSE LastNewLine(block)
Lines(d, t) ==
  IF ~LastRound(t) THEN SubSeq(Block(d, t), 1, Cut(Block(d, t)))
  ELSE IF StillPartial(d, t) \/ RoundSize(t) = 0 THEN Block(d, t)
  ELSE Block(d, t) \o ToLineBreak(d, t.file, t.off + t.size)

\* What is pushed of them: nothing, or a block that ends with a line break.
Pushed(text) ==
  IF text = <<>> THEN <<>>
  ELSE <<IF IsNewLine(text[Len(text)]) THEN text ELSE Append(text, NewLine)>>

NextRound(d, t) ==
  [t EXCEPT !.bytes_read = @ + RoundSize(t),
            !.left_over = IF LastRound(t) THEN <<>> ELSE After(Block(d, t), Cut(Block(d, t))),
            !.partial_head = StillPartial(d, t),
            !.finished = LastRound(t)]

-----------------------------------------------------------------------------
\* What the reader of a range is to read: the lines that begin in it or right
\* behind it, but at its very beginning only if that is the beginning of the file.
Owns(fr, f, p) ==
  fr.file = f /\ p - 1 <= fr.off + fr.size /\ (fr.off = 0 \/ fr.off < p - 1)

FileLines(d) == UNION {{f} \X LineStarts(FileText(d, f)) : f \in DOMAIN d}

\* The lines that fall to a reader.
Share(d, my_reader_id, support_seek) ==
  LET ranges == Ranges(d, my_reader_id, support_seek) IN
  {l \in FileLines(d) : \E k \in DOMAIN ranges : Owns(ranges[k], l[1], l[2])}
=============================================================================
