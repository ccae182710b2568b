---------------------------- MODULE StreamBuffers ----------------------------
(***************************************************************************)
(* The buffered local file streams of fma-common: a                        *)
(* ThreadedOutputStreamBuffer hands full buffers to a writer thread, a     *)
(* PrefetchingtStreamBuffer takes blocks from a thread that reads ahead    *)
(* (stream_buffer.h; buffered_file_stream.h and local_file_stream.h wire   *)
(* them to files).  Both swap two buffers with their thread, and both go   *)
(* past the buffers for large blocks; one token keeps the threads apart.   *)
(*                                                                         *)
(* One thread uses the streams, one call at a time.  A byte is the number  *)
(* of its place in what was written.  A stage's thread runs its function   *)
(* and hands the result on in one step; the queue it hands it to has no    *)
(* bound.                                                                  *)
(***************************************************************************)
EXTENDS Integers, Sequences

CONSTANTS
  Streams,      \* the files
  BufferSizes,  \* the buffer sizes the streams may be opened with
  MinCapacity   \* the least capacity of a buffer, 64 << 10

ASSUME CapacityAssumption == BufferSizes \subseteq Nat /\ MinCapacity \in Nat \ {0}

VARIABLES
  file,         \* file[f]: the bytes on disk
  buf_size,     \* the buffer size the streams were opened with
  capacity,     \* capacity[f]: capacity_, of either buffer
  buf,          \* buf[f]: buf_ up to size_ of the output buffer
  writing_buf,  \* writing_buf_
  writer,       \* input_buffer_ of writer_
  write_token,  \* the number of tokens in write_token_
  pos,          \* where the thread that reads ahead is in the file
  rest,         \* rest[f]: buf_ from offset_ to size_ of the input buffer
  prefetch_buf, \* prefetch_buf_, as far as it was filled
  prefetcher,   \* input_buffer_ of prefetcher_
  prefetched,   \* prefetched_
  call, cur,    \* the call being made ("none", "write", "flush", "read", "done") and its stream
  swapped,      \* PushToWrite has swapped the buffers and has yet to push
  data,         \* Write's argument
  want, got     \* Read's bytes_left, and what it has read

outs == <<buf, writing_buf, writer, write_token>>
ins == <<pos, rest, prefetch_buf, prefetcher, prefetched>>
args == <<cur, data, want, got>>
sizes == <<buf_size, capacity>>
streams == <<file, sizes, outs, ins, call, swapped, args>>

Smaller(m, n) == IF m < n THEN m ELSE n
Capacity(n) == IF n \div 2 > MinCapacity THEN n \div 2 ELSE MinCapacity
Bytes(f, from, n) == SubSeq(file[f], from + 1, Smaller(from + n, Len(file[f])))
Each(x) == [f \in Streams |-> x]

StreamsInit ==
  /\ file = Each(<<>>)
  /\ buf_size \in BufferSizes /\ capacity = Each(Capacity(buf_size))
  /\ buf = Each(<<>>) /\ writing_buf = Each(<<>>)
  /\ writer = Each(<<>>) /\ write_token = Each(1)
  /\ pos = Each(0) /\ rest = Each(<<>>) /\ prefetch_buf = Each(<<>>)
  /\ prefetcher = Each(<<>>) /\ prefetched = Each(<<>>)
  /\ call = "none" /\ cur \in Streams /\ swapped = FALSE
  /\ data = <<>> /\ want = 0 /\ got = <<>>

(***************************************************************************)
(* ThreadedOutputStreamBuffer: Write, Flush and the writer thread          *)
(***************************************************************************)
OpenOut ==
  /\ buf_size' \in BufferSizes /\ capacity' = Each(Capacity(buf_size'))
  /\ buf' = Each(<<>>) /\ writing_buf' = Each(<<>>)
  /\ writer' = Each(<<>>) /\ write_token' = Each(1)

CallWrite(f, bytes) ==
  /\ call = "none" /\ call' = "write" /\ cur' = f /\ data' = bytes
  /\ UNCHANGED <<file, sizes, outs, ins, swapped, want, got>>

CallFlush(f) ==
  /\ call = "none" /\ call' = "flush" /\ cur' = f
  /\ UNCHANGED <<file, sizes, outs, ins, swapped, data, want, got>>

Full == Len(buf[cur]) + Len(data) >= capacity[cur]
MustPush == buf[cur] # <<>> /\ (call = "flush" \/ (call = "write" /\ Full))

SwapOut ==
  /\ MustPush /\ ~swapped /\ write_token[cur] > 0
  /\ write_token' = [write_token EXCEPT ![cur] = @ - 1]
  /\ writing_buf' = [writing_buf EXCEPT ![cur] = buf[cur]]
  /\ buf' = [buf EXCEPT ![cur] = <<>>]
  /\ swapped' = TRUE
  /\ UNCHANGED <<file, sizes, writer, ins, call, args>>

PushOut ==
  /\ swapped
  /\ writer' = [writer EXCEPT ![cur] = Append(@, Len(writing_buf[cur]))]
  /\ swapped' = FALSE
  /\ UNCHANGED <<file, sizes, buf, writing_buf, write_token, ins, call, args>>

\* Mutant: WaitTillClear is left out.
WriterClear_NotAwaited == TRUE
WriterClear == writer[cur] = <<>>

\* A large block waits for the thread and goes to the file directly.
WriteDirect ==
  /\ call = "write" /\ ~swapped /\ buf[cur] = <<>> /\ Len(data) >= capacity[cur]
  /\ WriterClear
  /\ file' = [file EXCEPT ![cur] = @ \o data]
  /\ call' = "none"
  /\ UNCHANGED <<sizes, outs, ins, swapped, args>>

CopyIn ==
  /\ call = "write" /\ ~swapped /\ ~MustPush /\ Len(data) < capacity[cur]
  /\ buf' = [buf EXCEPT ![cur] = @ \o data]
  /\ call' = "none"
  /\ UNCHANGED <<file, sizes, writing_buf, writer, write_token, ins, swapped, args>>

Flushed ==
  /\ call = "flush" /\ ~swapped /\ buf[cur] = <<>> /\ WriterClear
  /\ call' = "none"
  /\ UNCHANGED <<file, sizes, outs, ins, swapped, args>>

\* Mutant: the writer stage has no next stage.
TokenBack_Lost(f) == write_token
TokenBack(f) == [write_token EXCEPT ![f] = @ + 1]

WriteBufferToFile(f) ==
  /\ writer[f] # <<>>
  /\ file' = [file EXCEPT ![f] = @ \o SubSeq(writing_buf[f], 1, Head(writer[f]))]
  /\ writer' = [writer EXCEPT ![f] = Tail(@)]
  /\ write_token' = TokenBack(f)
  /\ UNCHANGED <<sizes, buf, writing_buf, ins, call, swapped, args>>

(***************************************************************************)
(* PrefetchingtStreamBuffer: Open, Read and the thread that reads ahead    *)
(***************************************************************************)
\* Open, also as a part of Seek, which has ended the thread before: n[f] is the
\* buffer size.
OpenAt(offset, n) ==
  /\ capacity' = [f \in Streams |-> Capacity(n[f])]
  /\ pos' = offset
  /\ rest' = Each(<<>>) /\ prefetch_buf' = Each(<<>>)
  /\ prefetcher' = Each(<<0>>) /\ prefetched' = Each(<<>>)

CallRead(f, n) ==
  /\ call = "none" /\ call' = "read" /\ cur' = f /\ want' = n /\ got' = <<>>
  /\ UNCHANGED <<file, sizes, outs, ins, swapped, data>>

CopyOut ==
  LET n == Smaller(want, Len(rest[cur])) IN
  /\ call = "read" /\ want > 0 /\ rest[cur] # <<>>
  /\ got' = got \o SubSeq(rest[cur], 1, n) /\ want' = want - n
  /\ rest' = [rest EXCEPT ![cur] = SubSeq(@, n + 1, Len(@))]
  /\ UNCHANGED <<file, sizes, outs, pos, prefetch_buf, prefetcher, prefetched, call, cur,
                 swapped, data>>

\* Taking what the thread has read ahead, with the next order to the thread:
\* to read on after a full block (0), else not to (-1).
TakeBlock(order) ==
  /\ call = "read" /\ want > 0 /\ rest[cur] = <<>>
  /\ prefetched[cur] # <<>> /\ prefetcher[cur] = <<>>
  /\ prefetched' = [prefetched EXCEPT ![cur] = Tail(@)]
  /\ prefetcher' = [prefetcher EXCEPT ![cur] = <<order>>]
  /\ UNCHANGED <<file, sizes, outs, prefetch_buf, swapped, cur, data>>

EndOfFile ==
  /\ TakeBlock(-1) /\ Head(prefetched[cur]) = 0
  /\ call' = "done"
  /\ UNCHANGED <<pos, rest, want, got>>

Order(d) == IF d = capacity[cur] THEN 0 ELSE -1

NextBlock ==
  LET d == Head(prefetched[cur])
      direct == Bytes(cur, pos[cur], want - d) IN
  /\ TakeBlock(Order(d)) /\ d # 0
  /\ \/ /\ want <= capacity[cur]
        /\ rest' = [rest EXCEPT ![cur] = prefetch_buf[cur]]
        /\ UNCHANGED <<pos, want, got>>
     \/ /\ want > capacity[cur]
        /\ got' = got \o prefetch_buf[cur] \o direct
        /\ want' = want - d - Len(direct)
        /\ pos' = [pos EXCEPT ![cur] = @ + Len(direct)]
        /\ UNCHANGED rest
  /\ call' = IF want > capacity[cur] THEN "done" ELSE "read"

ReadDone ==
  /\ call = "read" /\ want = 0 /\ call' = "done"
  /\ UNCHANGED <<file, sizes, outs, ins, swapped, args>>

PrefetchBlock(f) ==
  LET block == IF Head(prefetcher[f]) = -1 THEN <<>> ELSE Bytes(f, pos[f], capacity[f]) IN
  /\ prefetcher[f] # <<>>
  /\ prefetch_buf' = [prefetch_buf EXCEPT ![f] = block]
  /\ pos' = [pos EXCEPT ![f] = @ + Len(block)]
  /\ prefetcher' = [prefetcher EXCEPT ![f] = <<>>]
  /\ prefetched' = [prefetched EXCEPT ![f] = Append(@, Len(block))]
  /\ UNCHANGED <<file, sizes, outs, rest, call, swapped, args>>

CallStep ==
  \/ SwapOut \/ PushOut \/ WriteDirect \/ CopyIn \/ Flushed
  \/ CopyOut \/ EndOfFile \/ NextBlock \/ ReadDone
ThreadStep(f) == WriteBufferToFile(f) \/ PrefetchBlock(f)
=============================================================================
