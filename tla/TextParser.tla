------------------------------ MODULE TextParser ------------------------------
(***************************************************************************)
(* TextParser of fma-common/text_parser.h reading an InputTextDirStream.   *)
(* The numbers of the workspaces circulate: read_stage_ fills a workspace  *)
(* with whole lines from the stream, parse_stage_ parses several at a      *)
(* time, Read and ReadBlock hand the results out and the numbers back.  At *)
(* the end of the stream a number turns into -1.                           *)
(*                                                                         *)
(* parse_stage_ keeps the order of its inputs, and a stage's critical      *)
(* section is one step, as in TextWriter.  One thread calls Read,          *)
(* ReadBlock, and, when it has had enough, Stop and the stream's Close.    *)
(***************************************************************************)
EXTENDS TextDirStream

CONSTANTS
  NPrefetch,    \* n_prefetch_, also the number of workspaces
  ParseBlock    \* block_size_ of the parser

ASSUME ParserAssumption == {NPrefetch, ParseBlock} \subseteq Nat \ {0}

Workspaces == 0 .. NPrefetch - 1
None == -1

VARIABLES
  read_in,      \* input_buffer_ of read_stage_, but for the number being worked on
  reading,      \* the number ReadStage works on, or None
  raw,          \* its buf
  asked,        \* how much of the Read of the stream under way is missing
  left_over,    \* left_over_
  workspace,    \* workspace_[i]: [raw, data, head, error]; from is history: how much of the
                \* stream comes before raw
  parse_in,     \* input_buffer_ of parse_stage_: <<[part, finished], ...>>
  parsed_data,  \* parsed_data_
  curr_buf,     \* curr_buf_
  pc,           \* "new", "idle", "read" or "block" in a call, "stop", "close" or "closed"
  delivered,    \* history: the lines handed out
  ends,         \* history: how many end marks the caller has taken out of parsed_data
  failed        \* history: whether a call threw, or returned false before the end

reader == <<read_in, reading, raw, asked, left_over>>
caller == <<curr_buf, pc, delivered, ends, failed>>
vars == <<dirStream, reader, workspace, parse_in, parsed_data, caller>>

Init ==
  /\ DirInit
  /\ read_in = <<>> /\ reading = None /\ raw = <<>> /\ asked = 0 /\ left_over = <<>>
  /\ workspace = [i \in Workspaces |-> [raw |-> <<>>, data |-> <<>>, head |-> 0, error |-> FALSE,
                                     from |-> 0]]
  /\ parse_in = <<>> /\ parsed_data = <<>>
  /\ curr_buf = None /\ pc = "new" /\ delivered = <<>> /\ ends = 0 /\ failed = FALSE

Start ==
  /\ pc = "new" /\ pc' = "idle"
  /\ OpenDir
  /\ read_in' = [k \in 1 .. NPrefetch |-> k - 1]
  /\ UNCHANGED <<reading, raw, asked, left_over, workspace, parse_in, parsed_data,
                 curr_buf, delivered, ends, failed>>

(***************************************************************************)
(* ReadStage                                                               *)
(***************************************************************************)
BeginRead ==
  /\ reading = None /\ read_in # <<>>
  /\ reading' = Head(read_in) /\ read_in' = Tail(read_in)
  /\ raw' = left_over /\ left_over' = <<>> /\ asked' = ParseBlock
  /\ UNCHANGED <<dirStream, workspace, parse_in, parsed_data, caller>>

ReadPop ==
  /\ reading # None /\ asked > 0 /\ PopBlock
  /\ UNCHANGED <<reader, workspace, parse_in, parsed_data, caller>>

ReadCopy ==
  LET s == Least(asked, Len(curr_block)) IN
  /\ reading # None /\ asked > 0 /\ curr_block # <<>>
  /\ raw' = raw \o SubSeq(curr_block, 1, s) /\ asked' = asked - s
  /\ curr_block' = After(curr_block, s)
  /\ UNCHANGED <<opened, ranges, contents, files_read, stream, read_in, reading, left_over,
                 workspace, parse_in, parsed_data, caller>>

ReadReturned == reading # None /\ (asked = 0 \/ AtEnd)
AtEndOfText == asked = ParseBlock

\* Not a complete line: the stream is read again.
ReadMore ==
  /\ ReadReturned /\ ~AtEndOfText /\ NewLines(raw) = {}
  /\ asked' = ParseBlock
  /\ UNCHANGED <<dirStream, read_in, reading, raw, left_over, workspace, parse_in, parsed_data, caller>>

Token == IF AtEndOfText /\ raw = <<>> THEN None ELSE reading

\* What is handed on; nothing once the stage is stopped.
NewEntry(i) == [part |-> i, finished |-> FALSE]

EndRead ==
  LET cut == IF AtEndOfText THEN Len(raw) ELSE LastNewLine(raw) IN
  /\ ReadReturned /\ (AtEndOfText \/ NewLines(raw) # {})
  /\ workspace' = [workspace EXCEPT ![reading].raw = SubSeq(raw, 1, cut),
                                    ![reading].from = Len(stream) - Len(curr_block) - Len(raw)]
  /\ left_over' = After(raw, cut) /\ raw' = <<>> /\ asked' = 0
  /\ parse_in' = IF pc = "stop" THEN parse_in ELSE Append(parse_in, NewEntry(Token))
  /\ reading' = None
  /\ UNCHANGED <<dirStream, read_in, parsed_data, caller>>

(***************************************************************************)
(* ParseStage                                                              *)
(***************************************************************************)
\* Where the lines begin that throw, and those before them that give something.
BadLines(text) == {k \in LineStarts(text) : text[k][3] = "bad"}
GoodLines(text) ==
  {k \in LineStarts(text) : text[k][3] = "good" /\ \A j \in BadLines(text) : k < j}
Rows(text) == [m \in 1 .. Cardinality(GoodLines(text)) |-> LineAt(text, InOrder(GoodLines(text))[m])]

\* A text without a line is an error; new lines after a line are skipped.
Parsed(w) ==
  [w EXCEPT !.data = Rows(w.raw), !.head = 0,
            !.error = @ \/ BadLines(w.raw) # {} \/ LineStarts(w.raw) = {}]

\* The entries that leave the stage when the k-th has finished: those at the
\* front that have finished.
\* Mutant: out_of_order is on.
Leaving_OutOfOrder(stage, k) == {k}
Leaving(stage, k) == {j \in DOMAIN stage : \A i \in 1 .. j : stage[i].finished}

Entries(stage, places) ==
  LET at == InOrder(places) IN [m \in DOMAIN at |-> stage[at[m]]]

ParseStage(k) ==
  LET stage == [parse_in EXCEPT ![k].finished = TRUE]
      leaving == Leaving(stage, k)
      out == Entries(stage, leaving)
      part == parse_in[k].part IN
  /\ k <= Len(parse_in) /\ ~parse_in[k].finished
  /\ workspace' = IF part = None THEN workspace ELSE [workspace EXCEPT ![part] = Parsed(@)]
  /\ parse_in' = Entries(stage, DOMAIN stage \ leaving)
  /\ parsed_data' = parsed_data \o [m \in DOMAIN out |-> out[m].part]
  /\ UNCHANGED <<dirStream, reader, caller>>

(***************************************************************************)
(* The caller: Read, ReadBlock, Stop and the stream's Close                *)
(***************************************************************************)
CallRead ==
  /\ pc = "idle" /\ pc' \in {"read", "block"}
  /\ UNCHANGED <<dirStream, reader, workspace, parse_in, parsed_data, curr_buf, delivered, ends, failed>>

InCall == pc \in {"read", "block"}

\* ReadBlock puts the end mark back.
PopEnd ==
  /\ InCall /\ curr_buf = None /\ parsed_data # <<>> /\ Head(parsed_data) = None
  /\ parsed_data' = IF pc = "block" THEN Append(Tail(parsed_data), None) ELSE Tail(parsed_data)
  /\ ends' = IF pc = "block" THEN ends ELSE ends + 1
  /\ pc' = "idle"
  /\ UNCHANGED <<dirStream, reader, workspace, parse_in, curr_buf, delivered, failed>>

\* A text with an error is kept, and what was parsed of it is read later.
PopParsed ==
  /\ InCall /\ curr_buf = None /\ parsed_data # <<>> /\ Head(parsed_data) # None
  /\ curr_buf' = Head(parsed_data) /\ parsed_data' = Tail(parsed_data)
  /\ IF workspace[curr_buf'].error THEN failed' = TRUE /\ pc' = "idle" ELSE UNCHANGED <<failed, pc>>
  /\ UNCHANGED <<dirStream, reader, workspace, parse_in, delivered, ends>>

NothingLeft ==
  /\ InCall /\ curr_buf # None /\ workspace[curr_buf].head >= Len(workspace[curr_buf].data)
  /\ failed' = TRUE /\ pc' = "idle"
  /\ UNCHANGED <<dirStream, reader, workspace, parse_in, parsed_data, curr_buf, delivered, ends>>

Deliver ==
  LET w == workspace[curr_buf]
      head == IF pc = "read" THEN w.head + 1 ELSE Len(w.data) IN
  /\ InCall /\ curr_buf # None /\ w.head < Len(w.data)
  /\ delivered' = delivered \o SubSeq(w.data, w.head + 1, head)
  /\ workspace' = [workspace EXCEPT ![curr_buf].head = head]
  /\ IF head = Len(w.data)
     THEN read_in' = Append(read_in, curr_buf) /\ curr_buf' = None
     ELSE UNCHANGED <<read_in, curr_buf>>
  /\ pc' = "idle"
  /\ UNCHANGED <<dirStream, reading, raw, asked, left_over, parse_in, parsed_data, ends, failed>>

\* The stages end the tasks they have begun; read_stage_ has begun its first.
Stop ==
  /\ pc = "idle" /\ pc' = "stop"
  /\ read_in' = IF reading # None THEN <<>> ELSE SubSeq(read_in, 1, Least(1, Len(read_in)))
  /\ UNCHANGED <<dirStream, reading, raw, asked, left_over, workspace, parse_in, parsed_data,
                 curr_buf, delivered, ends, failed>>

Stopped ==
  /\ pc = "stop" /\ reading = None /\ read_in = <<>> /\ pc' = "close"
  /\ parse_in' = <<>> /\ parsed_data' = <<>> /\ curr_buf' = None
  /\ StopReading
  /\ UNCHANGED <<reader, workspace, delivered, ends, failed>>

Closed ==
  /\ pc = "close" /\ ranges = <<>> /\ pc' = "closed"
  /\ UNCHANGED <<dirStream, reader, workspace, parse_in, parsed_data, curr_buf, delivered, ends, failed>>

DirWorker(k) == ReadFileIntoBuffer(k) /\ UNCHANGED <<reader, workspace, parse_in, parsed_data, caller>>
ReadThread == BeginRead \/ ReadPop \/ ReadCopy \/ ReadMore \/ EndRead
CallStep == PopEnd \/ PopParsed \/ NothingLeft \/ Deliver \/ Stopped \/ Closed

Next ==
  \/ Start \/ CallRead \/ Stop
  \/ CallStep
  \/ \E k \in 1 .. NParallel : DirWorker(k)
  \/ ReadThread
  \/ \E k \in 1 .. NPrefetch : ParseStage(k)

\* The threads of the three stages run, and a call that is made goes on.
Spec ==
  /\ Init /\ [][Next]_vars
  /\ WF_vars(CallStep) /\ WF_vars(ReadThread)
  /\ \A k \in 1 .. NParallel : WF_vars(DirWorker(k))
  /\ \A k \in 1 .. NPrefetch : WF_vars(ParseStage(k))

-----------------------------------------------------------------------------
\* The lines handed out are whole lines that fall to this reader and parse, each
\* at most once and those of a file in the order they have there, however the
\* texts are cut and whichever stage runs ahead; when the end has been reported
\* and no call has failed, they are all of them.
LinesOnceInOrder ==
  LET Good(l) == l \in Share(dir, my_reader_id, support_seek) /\ dir[l[1]][l[2]] = "good"
      Line(l) == LineAt(FileText(dir, l[1]), l[2]) IN
  /\ \A j \in DOMAIN delivered : \E l \in FileLines(dir) : Good(l) /\ delivered[j] = Line(l)
  /\ \A i, j \in DOMAIN delivered :
       i < j /\ delivered[i][1][1] = delivered[j][1][1] => delivered[i][1][2] < delivered[j][1][2]
  /\ ends > 0 /\ ~failed =>
       \A l \in FileLines(dir) : Good(l) => \E j \in DOMAIN delivered : delivered[j] = Line(l)

\* A call returns, unless every end mark has been taken; Stop returns; and so
\* does the stream's Close if the stream has been read to its end.
CallsReturn ==
  /\ InCall /\ ends < NPrefetch ~> ~InCall
  /\ pc = "stop" ~> pc # "stop"
  /\ pc = "close" /\ files_read = total_files ~> pc = "closed"
=============================================================================
