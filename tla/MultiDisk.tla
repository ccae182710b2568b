------------------------------ MODULE MultiDisk ------------------------------
(***************************************************************************)
(* OutputMultiDiskStream and InputMultiDiskStream of                       *)
(* fma-common/multi_disk_stream.h on top of buffered file streams: a file  *)
(* is cut into chunks that go to the part files in turn.                   *)
(*                                                                         *)
(* One life of a file: it is written, perhaps closed and opened again for  *)
(* append, and then opened for reading, with seeks.                        *)
(***************************************************************************)
EXTENDS StreamBuffers

CONSTANTS
  Chunk,           \* _MULTI_DISK_FILE_CHUNK_SIZE_
  AppendAnywhere,  \* whether files are appended to whose chunks do not end with the last part
  MaxBytes,        \* bound on the bytes written
  MaxRead          \* bound on the size given to Read

NParts == 1 + CHOOSE p \in Streams : \A q \in Streams : q <= p

ASSUME DiskAssumption ==
  /\ NParts \in Nat /\ Streams = 0 .. NParts - 1
  /\ Chunk \in Nat \ {0} /\ AppendAnywhere \in BOOLEAN
  /\ {MaxBytes, MaxRead} \subseteq Nat

VARIABLES
  mode,    \* "writing", "closing", "closed" or "reading"
  left,    \* the bytes the call under way has yet to write or read
  size,    \* size_, of the stream that is open
  off,     \* off_
  total,   \* history: the number of bytes given to Write so far
  asked,   \* history: the size given to the last Read
  result   \* history: what the last Read has put into its buffer

disk == <<mode, left, size, off, total, asked, result>>
vars == <<streams, disk>>

Init ==
  /\ StreamsInit
  /\ mode = "writing" /\ left = 0 /\ size = 0 /\ off = 0
  /\ total = 0 /\ asked = 0 /\ result = <<>>

Idle == call = "none" /\ left = 0

\* The part that has the byte at an offset, and the room to the end of its chunk.
PartOf(offset) == (offset \div Chunk) % NParts
RoomAt(offset) == Chunk - (offset % Chunk)

(***************************************************************************)
(* OutputMultiDiskStream                                                   *)
(***************************************************************************)
Write ==
  /\ mode = "writing" /\ Idle
  /\ left' \in 1 .. MaxBytes - total
  /\ UNCHANGED <<streams, mode, size, off, total, asked, result>>

WritePart ==
  LET s == Smaller(left, RoomAt(size)) IN
  /\ mode = "writing" /\ left > 0
  /\ CallWrite(PartOf(size), [k \in 1 .. s |-> total + k])
  /\ size' = size + s /\ total' = total + s /\ left' = left - s
  /\ UNCHANGED <<mode, off, asked, result>>

\* The destructors of the parts flush them, one after the other.
Close ==
  /\ mode = "writing" /\ Idle /\ mode' = "closing" /\ left' = NParts
  /\ UNCHANGED <<streams, size, off, total, asked, result>>

ClosePart ==
  /\ mode = "closing" /\ left > 0
  /\ CallFlush(NParts - left) /\ left' = left - 1
  /\ UNCHANGED <<mode, size, off, total, asked, result>>

Closed ==
  /\ mode = "closing" /\ Idle /\ mode' = "closed"
  /\ UNCHANGED <<streams, left, size, off, total, asked, result>>

\* size_ is the sum of the Size() of the parts; that of a buffered stream counts
\* the bytes written since it was opened.
OpenForAppend ==
  /\ mode = "closed" /\ total < MaxBytes
  /\ AppendAnywhere \/ total % (Chunk * NParts) = 0
  /\ mode' = "writing" /\ size' = 0
  /\ OpenOut
  /\ UNCHANGED <<file, ins, call, swapped, args, left, off, total, asked, result>>

(***************************************************************************)
(* InputMultiDiskStream                                                    *)
(***************************************************************************)
OpenForRead ==
  /\ mode = "closed" /\ mode' = "reading"
  /\ size' = total /\ off' = 0
  /\ buf_size' \in BufferSizes
  /\ OpenAt(Each(0), [p \in Streams |-> Smaller(buf_size', Len(file[p]))])
  /\ UNCHANGED <<file, outs, call, swapped, args, left, total, asked, result>>

Read ==
  /\ mode = "reading" /\ Idle
  /\ left' \in 1 .. MaxRead /\ asked' = left' /\ result' = <<>>
  /\ UNCHANGED <<streams, mode, size, off, total>>

ReadPart ==
  /\ mode = "reading" /\ left > 0
  /\ CallRead(PartOf(off), Smaller(left, RoomAt(off)))
  /\ UNCHANGED disk

\* Fewer bytes than asked for are an error, except at the end of the file, where
\* the loop goes on.
PartRead ==
  /\ call = "done" /\ call' = "none"
  /\ off' = off + Len(got) /\ result' = result \o got
  /\ left' = IF want > 0 /\ off' < size THEN 0 ELSE left - Len(got)
  /\ UNCHANGED <<file, sizes, outs, ins, swapped, args, mode, size, total, asked>>

\* Mutant: the part with the offset is taken for one that has its chunk in full.
SeekOff_Full(p, blocks) == Chunk * ((blocks \div NParts) + (IF p <= blocks % NParts THEN 1 ELSE 0))
SeekOff(p, blocks) ==
  Chunk * ((blocks \div NParts) + (IF p < blocks % NParts THEN 1 ELSE 0))

Seek ==
  /\ mode = "reading" /\ Idle
  /\ off' \in 0 .. size
  /\ LET blocks == off' \div Chunk IN
     OpenAt([p \in Streams |->
               SeekOff(p, blocks) + (IF p = blocks % NParts THEN off' % Chunk ELSE 0)],
            Each(buf_size))
  /\ asked' = 0 /\ result' = <<>>
  /\ UNCHANGED <<file, buf_size, outs, call, swapped, args, mode, left, size, total>>

DiskStep == WritePart \/ ClosePart \/ Closed \/ ReadPart \/ PartRead

Next ==
  \/ Write \/ Close \/ OpenForAppend \/ OpenForRead \/ Read \/ Seek
  \/ DiskStep
  \/ CallStep /\ UNCHANGED disk
  \/ \E f \in Streams : ThreadStep(f) /\ UNCHANGED disk

\* The threads run; nobody has to begin a call.
Spec ==
  /\ Init /\ [][Next]_vars
  /\ WF_vars(DiskStep \/ (CallStep /\ UNCHANGED disk))
  /\ \A f \in Streams : WF_vars(ThreadStep(f) /\ UNCHANGED disk)

-----------------------------------------------------------------------------
\* What there is of a part, wherever it is: in its file, with the writer thread,
\* in the buffer being filled, and in the call under way.
Stored(p) ==
  LET writing == IF writer[p] # <<>> \/ (swapped /\ cur = p) THEN writing_buf[p] ELSE <<>>
      given == IF call = "write" /\ cur = p THEN data ELSE <<>> IN
  file[p] \o writing \o buf[p] \o given

\* What Write was given is never reordered, duplicated or lost on its way: the
\* file of a part, the buffer the writer thread has, the buffer being filled and
\* the block of the Write under way always add up to the chunks of that part.
PartsInOrder ==
  \A p \in Streams :
    LET stored == Stored(p) IN
    /\ \A i, j \in 1 .. Len(stored) : i < j => stored[i] < stored[j]
    /\ {stored[i] : i \in 1 .. Len(stored)} = {k \in 1 .. total : PartOf(k - 1) = p}

\* Read returns the bytes that Write was given, at the offset they were
\* written or Seek has gone to, whatever the sizes of the calls, chunks and
\* buffers, and all the bytes it was asked for.
RoundTrip ==
  mode = "reading" =>
    /\ \A k \in DOMAIN result : result[k] = off - Len(result) + k
    /\ Idle => Len(result) = asked

\* Calls return; Read only if it was not asked for bytes beyond the end.
CallsReturn ==
  (~Idle /\ (mode = "reading" => off + left <= size)) ~> Idle
=============================================================================
