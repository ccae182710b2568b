-------------------------- MODULE TextParserProofs --------------------------
(***************************************************************************)
(* Proofs about TextSplit, TextDirStream and TextParser for any directory, *)
(* number of readers and workers, and sizes of blocks: that every line     *)
(* falls to one reader, and that a reader's parser hands out the lines     *)
(* that fall to it, each once, whole, and in the order of their file.      *)
(***************************************************************************)
EXTENDS TextParser, FiniteSetTheorems, SequenceTheorems, WellFoundedInduction, TLAPS

(***************************************************************************)
(* Bytes, texts and lines.                                                 *)
(***************************************************************************)
Bytes == Nat \X Nat \X Kinds
Byte(f, p) == <<f, p, dir[f][p]>>
Genuine(b) == /\ b[1] \in DOMAIN dir /\ b[2] \in DOMAIN dir[b[1]]
              /\ b = Byte(b[1], b[2])

\* Whether a line of file f begins behind place p, or ends before or with it.
BeginsAfter(f, p) == p = 0 \/ dir[f][p] = "\n"
EndsWith(f, p) == p = Len(dir[f]) \/ dir[f][p + 1] = "\n"
Mine(f, p) == <<f, p>> \in Share(dir, my_reader_id, support_seek)

\* A text of whole lines that fall to this reader.
Whole(text) ==
  \A k \in 1 .. Len(text) : ~IsNewLine(text[k]) =>
    LET f == text[k][1] p == text[k][2] IN
    /\ Genuine(text[k]) /\ k < Len(text)
    /\ IF EndsWith(f, p) THEN IsNewLine(text[k + 1]) ELSE text[k + 1] = Byte(f, p + 1)
    /\ k = 1 \/ IsNewLine(text[k - 1]) => BeginsAfter(f, p - 1) /\ Mine(f, p)

\* The bytes of a file are in the order they have there, in a text and in two.
SameFile(b, c) == ~IsNewLine(b) /\ ~IsNewLine(c) /\ b[1] = c[1]
Sorted(text) == \A i, j \in 1 .. Len(text) : i < j /\ SameFile(text[i], text[j]) => text[i][2] < text[j][2]
Precedes(s, t) ==
  \A i \in 1 .. Len(s), j \in 1 .. Len(t) : SameFile(s[i], t[j]) => s[i][2] < t[j][2]

(***************************************************************************)
(* The directory stream.                                                   *)
(***************************************************************************)
\* A task has handed on, or passed over, the file up to this place.
Done(t) == t.off + t.bytes_read - Len(t.left_over)

Tasks ==
  [file : Nat, off : Nat, size : Nat, bytes_read : Nat, left_over : Seq(Bytes),
   partial_head : BOOLEAN, finished : BOOLEAN]

IsMyRange(t) ==
  \E k \in DOMAIN Ranges(dir, my_reader_id, support_seek) :
    Ranges(dir, my_reader_id, support_seek)[k] = FileRange(t.file, t.off, t.size)

Loop(t) ==
  /\ t.bytes_read = 0 \/ t.bytes_read < t.size
  /\ t.off <= Done(t)
  /\ t.left_over = BytesAt(dir, t.file, Done(t), Len(t.left_over))
  /\ NewLines(t.left_over) = {}
  /\ IF Skips(t)
     THEN t.left_over = <<>> /\ \A p \in t.off + 1 .. t.off + t.bytes_read : dir[t.file][p] # "\n"
     ELSE BeginsAfter(t.file, Done(t)) /\ (t.off = 0 \/ t.off < Done(t))

TaskOK(t) ==
  /\ t.file \in DOMAIN dir /\ t.off + t.size <= Len(dir[t.file])
  /\ IsMyRange(t)
  /\ ~t.finished => Loop(t)

\* What has been pushed, in the order in which it comes.
Texts == <<stream>> \o contents

\* A text has nothing that the task is about to read.
Behind(text, t) ==
  \A m \in 1 .. Len(text) : ~IsNewLine(text[m]) /\ text[m][1] = t.file => text[m][2] <= Done(t)

Owed(t, f, p) == ~t.finished /\ Done(t) < p /\ Owns(t, f, p)
Holds(text, f, p) == \E m \in 1 .. Len(text) : text[m] = Byte(f, p)
EndMarks == {i \in 1 .. Len(contents) : contents[i] = <<>>}

DirTyped ==
  /\ ranges \in Seq(Tasks) /\ contents \in Seq(Seq(Bytes)) /\ stream \in Seq(Bytes)
  /\ curr_block \in Seq(Bytes) /\ files_read \in Nat /\ total_files \in Nat

TextsOK ==
  /\ \A i \in 1 .. Len(Texts) : Whole(Texts[i]) /\ Sorted(Texts[i])
  /\ \A i, j \in 1 .. Len(Texts) : i < j => Precedes(Texts[i], Texts[j])

TasksOK ==
  /\ \A k \in 1 .. Len(ranges) : TaskOK(ranges[k])
  /\ \A j, k \in 1 .. Len(ranges) : ranges[j].file = ranges[k].file => j = k
  /\ \A i \in 1 .. Len(Texts), k \in 1 .. Len(ranges) :
       ~ranges[k].finished => Behind(Texts[i], ranges[k])

NoLineLost ==
  \A l \in Share(dir, my_reader_id, support_seek) :
    \/ \E i \in 1 .. Len(Texts) : Holds(Texts[i], l[1], l[2])
    \/ \E k \in 1 .. Len(ranges) : Owed(ranges[k], l[1], l[2])

Counted ==
  /\ files_read + Cardinality(EndMarks) + Len(ranges) = total_files
  /\ ranges = <<>> /\ contents # <<>> => contents[Len(contents)] = <<>>

DirInv == DirTyped /\ TextsOK /\ TasksOK /\ NoLineLost /\ Counted

(***************************************************************************)
(* The parser.                                                             *)
(***************************************************************************)
Spaces ==
  [raw : Seq(Bytes), data : Seq(Seq(Bytes)), head : Nat, error : BOOLEAN, from : Nat]

Tokens == Workspaces \cup {None}
Entry == [part : Tokens, finished : BOOLEAN]

\* The numbers behind ReadStage, in the order of their texts: the caller's, those
\* that have been parsed, those that have not.
Here(i) == IF i = None THEN 0 ELSE 1
Linked(curr, parsed, parsing) ==
  (IF curr = None THEN <<>> ELSE <<curr>>) \o (parsed \o [k \in 1 .. Len(parsing) |-> parsing[k].part])
Chain == Linked(curr_buf, parsed_data, parse_in)

ParserTyped ==
  /\ read_in \in Seq(Workspaces) /\ reading \in Tokens
  /\ raw \in Seq(Bytes) /\ left_over \in Seq(Bytes) /\ asked \in 0 .. ParseBlock
  /\ workspace \in [Workspaces -> Spaces]
  /\ parse_in \in Seq(Entry) /\ parsed_data \in Seq(Tokens) /\ curr_buf \in Tokens
  /\ delivered \in Seq(Seq(Bytes)) /\ ends \in Nat /\ failed \in BOOLEAN

\* A number is in one place.
Apart ==
  /\ \A i, j \in 1 .. Len(Chain) : Chain[i] = Chain[j] /\ Chain[i] # None => i = j
  /\ \A i, j \in 1 .. Len(read_in) : read_in[i] = read_in[j] => i = j
  /\ \A i \in 1 .. Len(read_in), j \in 1 .. Len(Chain) : read_in[i] # Chain[j]
  /\ \A i \in 1 .. Len(read_in) : read_in[i] # reading
  /\ \A j \in 1 .. Len(Chain) : Chain[j] = reading => reading = None

\* How much of the stream Read has returned, and where the text begins that
\* ReadStage has not handed on.
Taken == Len(stream) - Len(curr_block)
Mark == Taken - Len(left_over) - Len(raw)
Piece(a, b) == SubSeq(stream, a + 1, b)
Border(a) == a = 0 \/ (a \in 1 .. Len(stream) /\ IsNewLine(stream[a]))

ReadOK ==
  /\ Len(curr_block) <= Len(stream) /\ curr_block = Piece(Taken, Len(stream))
  /\ Mark >= 0 /\ Border(Mark)
  /\ IF reading = None
     THEN raw = <<>> /\ left_over = Piece(Mark, Taken) /\ NewLines(left_over) = {}
     ELSE left_over = <<>> /\ raw = Piece(Mark, Taken) /\ (asked = ParseBlock => NewLines(raw) = {})

End(i) == workspace[i].from + Len(workspace[i].raw)
HasText(i) ==
  /\ workspace[i].raw = Piece(workspace[i].from, End(i))
  /\ Border(workspace[i].from) /\ Border(End(i))
Following(m) == IF m < Len(Chain) /\ Chain[m + 1] # None THEN workspace[Chain[m + 1]].from ELSE Mark

ChainOK ==
  /\ \A m \in 1 .. Len(Chain) : Chain[m] # None => HasText(Chain[m]) /\ End(Chain[m]) = Following(m)
  /\ \A m, n \in 1 .. Len(Chain) : m < n /\ Chain[m] = None => Chain[n] = None

IsParsed(i) ==
  LET w == workspace[i] IN
  w.data = Rows(w.raw) /\ (~w.error => BadLines(w.raw) = {})

ParsedOK ==
  /\ \A k \in 1 .. Len(parse_in) : parse_in[k].finished /\ parse_in[k].part # None =>
       IsParsed(parse_in[k].part) /\ workspace[parse_in[k].part].head = 0
  /\ \A k \in 1 .. Len(parsed_data) : parsed_data[k] # None =>
       IsParsed(parsed_data[k]) /\ workspace[parsed_data[k]].head = 0
  /\ curr_buf # None =>
       /\ IsParsed(curr_buf) /\ workspace[curr_buf].head <= Len(workspace[curr_buf].data)
       /\ ~failed => ~workspace[curr_buf].error

EndOK ==
  ends > 0 \/ (\E m \in 1 .. Len(Chain) : Chain[m] = None) =>
    AtEnd /\ left_over = <<>> /\ raw = <<>>

\* Up to where lines have been handed out.
Front ==
  IF curr_buf # None
  THEN LET w == workspace[curr_buf] IN
       w.from + (IF w.head = 0 THEN 0 ELSE InOrder(GoodLines(w.raw))[w.head])
  ELSE IF Len(Chain) > 0 /\ Chain[1] # None THEN workspace[Chain[1]].from ELSE Mark

GoodStart(m) == m \in LineStarts(stream) /\ stream[m][3] = "good"

DeliveredOK ==
  /\ \A j \in 1 .. Len(delivered) :
       \E m \in 1 .. Len(stream) : GoodStart(m) /\ m <= Front /\ delivered[j] = LineAt(stream, m)
  /\ ~failed => \A m \in 1 .. Len(stream) : GoodStart(m) /\ m <= Front =>
                  \E j \in 1 .. Len(delivered) : delivered[j] = LineAt(stream, m)

ParserInv ==
  ParserTyped /\ Apart /\ ReadOK /\ ChainOK /\ ParsedOK /\ EndOK /\ DeliveredOK

(***************************************************************************)
(* The invariant.  Once the caller has begun to stop nothing is handed out *)
(* any more, and nothing but the history counts.                           *)
(***************************************************************************)
DirFixed ==
  /\ dir \in Directories /\ support_seek \in BOOLEAN
  /\ support_seek => \A i \in 0 .. LeftOver(dir) - 1 : NBlocks(dir, i) > 0
  /\ my_reader_id \in 0 .. NReaders - 1

Fresh ==
  /\ ranges = <<>> /\ contents = <<>> /\ files_read = 0 /\ curr_block = <<>> /\ stream = <<>>
  /\ read_in = <<>> /\ reading = None /\ raw = <<>> /\ asked = 0 /\ left_over = <<>>
  /\ workspace \in [Workspaces -> Spaces] /\ parse_in = <<>> /\ parsed_data = <<>>
  /\ curr_buf = None /\ delivered = <<>> /\ ends = 0 /\ failed = FALSE

Live == pc \in {"idle", "read", "block"}

Inv ==
  /\ DirFixed
  /\ pc = "new" => Fresh
  /\ Live => DirInv /\ ParserInv
  /\ pc # "new" => LinesOnceInOrder

(***************************************************************************)
(* Numbers, and finite sets of them in order.                              *)
(***************************************************************************)
LEMMA Smallest ==
  ASSUME NEW T \in SUBSET Nat, T # {}
  PROVE  \E x \in T : \A y \in T : x <= y
<1> DEFINE Less == {ss \in Nat \X Nat : ss[1] < ss[2]}
<1>1. IsWellFoundedOn(Less, Nat)
  BY NatLessThanWellFounded DEF OpToRel
<1>2. PICK x \in T : \A y \in T : <<y, x>> \notin Less
  BY <1>1, WFMin
<1>3. \A y \in T : ~(y < x)
  BY <1>2
<1> QED
  BY <1>3

LEMMA Largest ==
  ASSUME NEW T \in SUBSET Nat, T # {}, NEW n \in Nat, \A x \in T : x <= n
  PROVE  \E x \in T : \A y \in T : y <= x
<1> DEFINE U == {m \in Nat : n - m \in T}
<1>1. PICK z \in T : TRUE
  OBVIOUS
<1>2. n - z \in U
  BY <1>1
<1>3. PICK m \in U : \A k \in U : m <= k
  <2>1. U \in SUBSET Nat /\ U # {}
    BY <1>2
  <2> QED
    BY <2>1, Smallest
<1>4. ASSUME NEW y \in T PROVE y <= n - m
  <2>1. n - y \in Nat /\ n - (n - y) = y
    BY <1>4
  <2>2. n - y \in U
    BY <1>4, <2>1
  <2>3. m <= n - y /\ m \in Nat
    BY <1>3, <2>2
  <2> QED
    BY <2>1, <2>3
<1> QED
  BY <1>3, <1>4

LEMMA Bounded ==
  ASSUME NEW S \in SUBSET Nat, NEW n \in Nat, \A x \in S : x <= n
  PROVE  IsFiniteSet(S) /\ Cardinality(S) \in Nat
BY FS_BoundedSetOfNaturals, FS_CardinalityType

Rank(S, x) == Cardinality({m \in S : m <= x})

LEMMA Ranks ==
  ASSUME NEW S \in SUBSET Nat, IsFiniteSet(S)
  PROVE  /\ Cardinality(S) \in Nat
         /\ \A x \in S : Rank(S, x) \in 1 .. Cardinality(S)
         /\ \A x, y \in S : x < y => Rank(S, x) < Rank(S, y)
         /\ \A k \in 1 .. Cardinality(S) : \E x \in S : Rank(S, x) = k
<1>1. Cardinality(S) \in Nat
  BY FS_CardinalityType
<1>2. ASSUME NEW x
      PROVE  IsFiniteSet({m \in S : m <= x}) /\ Rank(S, x) \in Nat /\ Rank(S, x) <= Cardinality(S)
  <2>1. {m \in S : m <= x} \in SUBSET S
    OBVIOUS
  <2> QED
    BY <1>1, <2>1, FS_Subset, FS_CardinalityType DEF Rank
<1>3. ASSUME NEW x \in S PROVE Rank(S, x) \in 1 .. Cardinality(S)
  <2>1. x \in {m \in S : m <= x}
    OBVIOUS
  <2>2. Rank(S, x) # 0
    BY <1>2, <2>1, FS_EmptySet DEF Rank
  <2>3. Rank(S, x) \in Nat /\ Rank(S, x) <= Cardinality(S)
    BY <1>2
  <2> QED
    BY <1>1, <2>2, <2>3
<1>4. ASSUME NEW x \in S, NEW y \in S, x < y PROVE Rank(S, x) < Rank(S, y)
  <2>0. \A m \in S : m <= x => m <= y
    BY <1>4
  <2>1. {m \in S : m <= x} \in SUBSET {m \in S : m <= y}
    BY <1>4, <2>0
  <2>2. y \in {m \in S : m <= y} /\ y \notin {m \in S : m <= x}
    BY <1>4
  <2>3. Rank(S, x) <= Rank(S, y) /\ Rank(S, x) # Rank(S, y)
    BY <1>2, <2>1, <2>2, FS_Subset DEF Rank
  <2>4. Rank(S, x) \in Nat /\ Rank(S, y) \in Nat
    BY <1>2
  <2> QED
    BY <2>3, <2>4
<1> DEFINE R == [x \in S |-> Rank(S, x)]
<1>5. R \in Injection(S, 1 .. Cardinality(S))
  <2>1. R \in [S -> 1 .. Cardinality(S)]
    BY <1>3
  <2>2. ASSUME NEW x \in S, NEW y \in S, R[x] = R[y] PROVE x = y
    <3>1. x \in Nat /\ y \in Nat /\ Rank(S, x) = Rank(S, y) /\ Rank(S, x) \in Nat
      BY <1>2, <2>2
    <3>2. ~(x < y) /\ ~(y < x)
      BY <1>4, <3>1
    <3> QED
      BY <3>1, <3>2
  <2> QED
    BY <2>1, <2>2 DEF Injection, IsInjective
<1>6. IsFiniteSet(1 .. Cardinality(S)) /\ Cardinality(1 .. Cardinality(S)) = Cardinality(S)
  BY <1>1, FS_Interval
<1>7. R \in Surjection(S, 1 .. Cardinality(S))
  BY <1>5, <1>6, FS_Injection
<1>8. ASSUME NEW k \in 1 .. Cardinality(S) PROVE \E x \in S : Rank(S, x) = k
  <2>1. PICK x \in S : R[x] = k
    BY <1>7 DEF Surjection
  <2> QED
    BY <2>1
<1> QED
  BY <1>1, <1>3, <1>4, <1>8

LEMMA Ordered ==
  ASSUME NEW S \in SUBSET Nat, IsFiniteSet(S)
  PROVE  /\ Cardinality(S) \in Nat
         /\ InOrder(S) \in [1 .. Cardinality(S) -> S]
         /\ \A k \in 1 .. Cardinality(S) : Rank(S, InOrder(S)[k]) = k
         /\ \A x \in S : Rank(S, x) \in 1 .. Cardinality(S) /\ InOrder(S)[Rank(S, x)] = x
         /\ \A i, j \in 1 .. Cardinality(S) : i < j => InOrder(S)[i] < InOrder(S)[j]
<1>1. /\ Cardinality(S) \in Nat
      /\ \A x \in S : Rank(S, x) \in 1 .. Cardinality(S)
      /\ \A x, y \in S : x < y => Rank(S, x) < Rank(S, y)
      /\ \A k \in 1 .. Cardinality(S) : \E x \in S : Rank(S, x) = k
  BY Ranks
<1>2. InOrder(S) = [k \in 1 .. Cardinality(S) |-> CHOOSE n \in S : Rank(S, n) = k]
  BY DEF InOrder, Rank
<1>3. ASSUME NEW k \in 1 .. Cardinality(S)
      PROVE  InOrder(S)[k] \in S /\ Rank(S, InOrder(S)[k]) = k
  <2>1. \E n \in S : Rank(S, n) = k
    BY <1>1
  <2>2. InOrder(S)[k] = CHOOSE n \in S : Rank(S, n) = k
    BY <1>2
  <2> QED
    BY <2>1, <2>2
<1>4. InOrder(S) \in [1 .. Cardinality(S) -> S]
  BY <1>2, <1>3
<1>5. \A x, y \in S : Rank(S, x) <= Rank(S, y) => x <= y
  <2> SUFFICES ASSUME NEW x \in S, NEW y \in S, Rank(S, x) <= Rank(S, y) PROVE x <= y
    OBVIOUS
  <2>1. Rank(S, x) \in Nat /\ Rank(S, y) \in Nat /\ x \in Nat /\ y \in Nat
    BY <1>1
  <2>2. CASE y < x
    BY <1>1, <2>1, <2>2
  <2> QED
    BY <2>1, <2>2
<1>6. ASSUME NEW x \in S PROVE InOrder(S)[Rank(S, x)] = x
  <2>1. /\ Rank(S, x) \in 1 .. Cardinality(S) /\ InOrder(S)[Rank(S, x)] \in S
        /\ Rank(S, InOrder(S)[Rank(S, x)]) = Rank(S, x)
    BY <1>1, <1>3
  <2>2. Rank(S, x) \in Nat
    BY <2>1
  <2>3. /\ Rank(S, InOrder(S)[Rank(S, x)]) <= Rank(S, x)
        /\ Rank(S, x) <= Rank(S, InOrder(S)[Rank(S, x)])
    BY <2>1, <2>2
  <2>4. InOrder(S)[Rank(S, x)] \in Nat /\ x \in Nat
    BY <2>1
  <2>5. InOrder(S)[Rank(S, x)] <= x /\ x <= InOrder(S)[Rank(S, x)]
    BY <1>5, <2>1, <2>3
  <2> QED
    BY <2>4, <2>5
<1>7. ASSUME NEW i \in 1 .. Cardinality(S), NEW j \in 1 .. Cardinality(S), i < j
      PROVE  InOrder(S)[i] < InOrder(S)[j]
  <2>1. /\ InOrder(S)[i] \in S /\ InOrder(S)[j] \in S
        /\ Rank(S, InOrder(S)[i]) = i /\ Rank(S, InOrder(S)[j]) = j
    BY <1>3
  <2>2. i <= j /\ i # j
    BY <1>7
  <2>3. InOrder(S)[i] <= InOrder(S)[j] /\ InOrder(S)[i] # InOrder(S)[j]
    BY <1>5, <2>1, <2>2
  <2>4. InOrder(S)[i] \in Nat /\ InOrder(S)[j] \in Nat
    BY <2>1
  <2> QED
    BY <2>3, <2>4
<1> QED
  BY <1>1, <1>3, <1>4, <1>6, <1>7

LEMMA OrderedInterval ==
  ASSUME NEW a \in Nat, NEW b \in Nat, a <= b + 1
  PROVE  /\ InOrder(a .. b) \in [1 .. b - a + 1 -> a .. b]
         /\ \A k \in 1 .. b - a + 1 : InOrder(a .. b)[k] = a + k - 1
<1>1. IsFiniteSet(a .. b) /\ Cardinality(a .. b) = b - a + 1 /\ (a .. b) \in SUBSET Nat
  <2>1. IsFiniteSet(a .. b) /\ Cardinality(a .. b) = IF a > b THEN 0 ELSE b - a + 1
    BY FS_Interval
  <2> QED
    BY <2>1
<1>2. ASSUME NEW k \in 1 .. b - a + 1 PROVE InOrder(a .. b)[k] = a + k - 1
  <2>1. a + k - 1 \in a .. b /\ {m \in a .. b : m <= a + k - 1} = a .. (a + k - 1)
    OBVIOUS
  <2>2. Cardinality(a .. (a + k - 1)) = k
    BY FS_Interval
  <2>3. Rank(a .. b, a + k - 1) = k
    BY <2>1, <2>2 DEF Rank
  <2> QED
    BY <1>1, <2>1, <2>3, Ordered
<1> QED
  BY <1>1, <1>2, Ordered

(***************************************************************************)
(* Sequences.                                                              *)
(***************************************************************************)
LEMMA Joined ==
  ASSUME NEW S, NEW s \in Seq(S), NEW t \in Seq(S)
  PROVE  /\ s \o t \in Seq(S)
         /\ Len(s) \in Nat /\ Len(t) \in Nat /\ Len(s \o t) = Len(s) + Len(t)
         /\ \A j \in 1 .. Len(s) : (s \o t)[j] = s[j]
         /\ \A j \in 1 .. Len(t) : (s \o t)[Len(s) + j] = t[j]
<1>1. Len(s) \in Nat /\ Len(t) \in Nat
  BY LenProperties
<1>2. /\ s \o t \in Seq(S) /\ Len(s \o t) = Len(s) + Len(t)
      /\ \A j \in 1 .. Len(s) + Len(t) :
           (s \o t)[j] = IF j <= Len(s) THEN s[j] ELSE t[j - Len(s)]
  BY ConcatProperties
<1>3. ASSUME NEW j \in 1 .. Len(t) PROVE (s \o t)[Len(s) + j] = t[j]
  <2>1. /\ Len(s) + j \in 1 .. Len(s) + Len(t) /\ ~(Len(s) + j <= Len(s))
        /\ (Len(s) + j) - Len(s) = j
    BY <1>1
  <2> QED
    BY <1>2, <2>1
<1>4. ASSUME NEW j \in 1 .. Len(s) PROVE (s \o t)[j] = s[j]
  <2>1. j \in 1 .. Len(s) + Len(t) /\ j <= Len(s)
    BY <1>1
  <2> QED
    BY <1>2, <2>1
<1> QED
  BY <1>1, <1>2, <1>3, <1>4

\* What is behind the first a elements, up to the b-th.
LEMMA Part ==
  ASSUME NEW S, NEW s \in Seq(S), NEW a \in Nat, NEW b \in Nat, a <= b, b <= Len(s)
  PROVE  /\ SubSeq(s, a + 1, b) \in Seq(S) /\ Len(SubSeq(s, a + 1, b)) = b - a
         /\ \A j \in 1 .. b - a : SubSeq(s, a + 1, b)[j] = s[a + j]
<1>1. Len(s) \in Nat
  BY LenProperties
<1>2. \A j \in a + 1 .. b : s[j] \in S
  <2>1. ASSUME NEW j \in a + 1 .. b PROVE s[j] \in S
    <3>1. j \in 1 .. Len(s)
      BY <1>1
    <3> QED
      BY <3>1, ElementOfSeq
  <2> QED
    BY <2>1
<1>3. /\ SubSeq(s, a + 1, b) \in Seq(S)
      /\ Len(SubSeq(s, a + 1, b)) = IF a + 1 <= b THEN b - (a + 1) + 1 ELSE 0
      /\ \A j \in 1 .. b - (a + 1) + 1 : SubSeq(s, a + 1, b)[j] = s[a + 1 + j - 1]
  <2>1. a + 1 \in Int /\ b \in Int
    OBVIOUS
  <2> QED
    BY <1>2, <2>1, SubSeqProperties
<1>4. ASSUME NEW j \in 1 .. b - a PROVE SubSeq(s, a + 1, b)[j] = s[a + j]
  <2>1. j \in 1 .. b - (a + 1) + 1 /\ a + 1 + j - 1 = a + j
    OBVIOUS
  <2> QED
    BY <1>3, <2>1
<1> QED
  BY <1>3, <1>4

LEMMA Prefix ==
  ASSUME NEW S, NEW s \in Seq(S), NEW k \in 0 .. Len(s)
  PROVE  /\ SubSeq(s, 1, k) \in Seq(S) /\ Len(SubSeq(s, 1, k)) = k
         /\ \A j \in 1 .. k : SubSeq(s, 1, k)[j] = s[j]
<1>1. Len(s) \in Nat
  BY LenProperties
<1>2. 0 \in Nat /\ k \in Nat /\ 0 <= k /\ k <= Len(s) /\ 0 + 1 = 1 /\ k - 0 = k
  BY <1>1
<1>3. /\ SubSeq(s, 0 + 1, k) \in Seq(S) /\ Len(SubSeq(s, 0 + 1, k)) = k - 0
      /\ \A j \in 1 .. k - 0 : SubSeq(s, 0 + 1, k)[j] = s[0 + j]
  BY <1>2, Part
<1>4. \A j \in 1 .. k : 0 + j = j
  OBVIOUS
<1> QED
  BY <1>2, <1>3, <1>4

LEMMA Suffix ==
  ASSUME NEW S, NEW s \in Seq(S), NEW k \in 0 .. Len(s)
  PROVE  /\ After(s, k) \in Seq(S) /\ Len(After(s, k)) = Len(s) - k
         /\ \A j \in 1 .. Len(s) - k : After(s, k)[j] = s[k + j]
<1>1. Len(s) \in Nat /\ k \in Nat /\ k <= Len(s)
  BY LenProperties
<1> QED
  BY <1>1, Part DEF After

(***************************************************************************)
(* Texts and their lines.                                                  *)
(***************************************************************************)
LEMMA LineBreaks ==
  ASSUME NEW text \in Seq(Bytes)
  PROVE  /\ Len(text) \in Nat /\ DOMAIN text = 1 .. Len(text)
         /\ \A k \in 1 .. Len(text) : text[k] \in Bytes
         /\ NewLines(text) \in SUBSET (1 .. Len(text))
         /\ \A k \in 1 .. Len(text) : k \in NewLines(text) <=> IsNewLine(text[k])
         /\ NewLines(text) # {} =>
              /\ FirstNewLine(text) \in NewLines(text) /\ LastNewLine(text) \in NewLines(text)
              /\ \A k \in NewLines(text) : FirstNewLine(text) <= k /\ k <= LastNewLine(text)
<1>1. Len(text) \in Nat /\ DOMAIN text = 1 .. Len(text)
  BY LenProperties
<1>2. \A k \in 1 .. Len(text) : text[k] \in Bytes
  BY ElementOfSeq
<1>3. NewLines(text) = {k \in 1 .. Len(text) : IsNewLine(text[k])}
  BY <1>1 DEF NewLines
<1>4. /\ NewLines(text) \in SUBSET (1 .. Len(text)) /\ NewLines(text) \in SUBSET Nat
      /\ \A k \in 1 .. Len(text) : k \in NewLines(text) <=> IsNewLine(text[k])
  BY <1>1, <1>3
<1>5. ASSUME NewLines(text) # {}
      PROVE  /\ FirstNewLine(text) \in NewLines(text) /\ LastNewLine(text) \in NewLines(text)
             /\ \A k \in NewLines(text) : FirstNewLine(text) <= k /\ k <= LastNewLine(text)
  <2>1. \E k \in NewLines(text) : \A j \in NewLines(text) : k <= j
    BY <1>4, <1>5, Smallest
  <2>2. \A k \in NewLines(text) : k <= Len(text)
    BY <1>1, <1>4
  <2>3. \E k \in NewLines(text) : \A j \in NewLines(text) : j <= k
    BY <1>1, <1>4, <1>5, <2>2, Largest
  <2> QED
    BY <2>1, <2>3 DEF FirstNewLine, LastNewLine
<1> QED
  BY <1>1, <1>2, <1>4, <1>5

LEMMA NewLineByte == NewLine \in Bytes /\ IsNewLine(NewLine)
BY DEF NewLine, Bytes, Kinds, IsNewLine

LEMMA LinesBegin ==
  ASSUME NEW text \in Seq(Bytes), NEW k
  PROVE  k \in LineStarts(text) <=>
           k \in 1 .. Len(text) /\ ~IsNewLine(text[k]) /\ (k = 1 \/ IsNewLine(text[k - 1]))
<1>1. /\ Len(text) \in Nat /\ DOMAIN text = 1 .. Len(text)
      /\ NewLines(text) \in SUBSET (1 .. Len(text))
      /\ \A j \in 1 .. Len(text) : j \in NewLines(text) <=> IsNewLine(text[j])
  BY LineBreaks
<1>2. ASSUME k \in 1 .. Len(text), k # 1
      PROVE  k - 1 \in NewLines(text) <=> IsNewLine(text[k - 1])
  <2>1. k - 1 \in 1 .. Len(text)
    BY <1>1, <1>2
  <2> QED
    BY <1>1, <2>1
<1> QED
  BY <1>1, <1>2 DEF LineStarts

\* The end of a line is the only place where one ends.
LEMMA LineEndIs ==
  ASSUME NEW text \in Seq(Bytes), NEW k \in 1 .. Len(text), NEW m \in k .. Len(text),
         \A j \in k .. m : ~IsNewLine(text[j]),
         m = Len(text) \/ IsNewLine(text[m + 1])
  PROVE  LineEnd(text, k) = m
<1>1. /\ Len(text) \in Nat
      /\ NewLines(text) \in SUBSET (1 .. Len(text))
      /\ \A j \in 1 .. Len(text) : j \in NewLines(text) <=> IsNewLine(text[j])
  BY LineBreaks
<1> DEFINE Ends(e) == NewLines(text) \cap (k .. e) = {} /\ (e = Len(text) \/ e + 1 \in NewLines(text))
<1>2. Ends(m)
  <2>1. m = Len(text) \/ m + 1 \in 1 .. Len(text)
    BY <1>1
  <2>2. \A j \in k .. m : j \in 1 .. Len(text)
    BY <1>1
  <2> QED
    BY <1>1, <2>1, <2>2
<1>3. ASSUME NEW e \in k .. Len(text), Ends(e) PROVE e = m
  <2>1. CASE e < m
    <3>1. e + 1 \in k .. m /\ e + 1 \in NewLines(text)
      BY <1>1, <1>3, <2>1
    <3> QED
      BY <1>2, <3>1
  <2>2. CASE m < e
    <3>1. m + 1 \in k .. e /\ m + 1 \in NewLines(text)
      BY <1>1, <1>2, <2>2
    <3> QED
      BY <1>3, <3>1
  <2> QED
    BY <1>1, <2>1, <2>2
<1>4. LineEnd(text, k) = CHOOSE e \in k .. Len(text) : Ends(e)
  BY DEF LineEnd
<1> HIDE DEF Ends
<1> QED
  BY <1>2, <1>3, <1>4

LEMMA LineIs ==
  ASSUME NEW text \in Seq(Bytes), NEW k \in 1 .. Len(text), ~IsNewLine(text[k])
  PROVE  /\ LineEnd(text, k) \in k .. Len(text)
         /\ \A j \in k .. LineEnd(text, k) : ~IsNewLine(text[j])
         /\ LineEnd(text, k) = Len(text) \/ IsNewLine(text[LineEnd(text, k) + 1])
         /\ LineAt(text, k) \in Seq(Bytes) /\ Len(LineAt(text, k)) = LineEnd(text, k) - k + 1
         /\ \A j \in 1 .. LineEnd(text, k) - k + 1 : LineAt(text, k)[j] = text[k + j - 1]
<1>1. Len(text) \in Nat /\ k \in Nat
  BY LineBreaks
<1> DEFINE T == {e \in k .. Len(text) : e = Len(text) \/ IsNewLine(text[e + 1])}
<1>2. PICK m \in T : \A e \in T : m <= e
  <2>1. T \in SUBSET Nat /\ Len(text) \in T
    BY <1>1
  <2> QED
    BY <2>1, Smallest
<1>3. m \in k .. Len(text) /\ (m = Len(text) \/ IsNewLine(text[m + 1]))
  OBVIOUS
<1> HIDE DEF T
<1>4. ASSUME NEW j \in k .. m PROVE ~IsNewLine(text[j])
  <2> SUFFICES ASSUME j # k, IsNewLine(text[j]) PROVE FALSE
    OBVIOUS
  <2>1. j - 1 \in k .. Len(text) /\ (j - 1) + 1 = j /\ j - 1 < m
    BY <1>1, <1>3
  <2>2. j - 1 \in T
    BY <2>1 DEF T
  <2>3. m <= j - 1 /\ m \in Nat /\ j \in Nat
    BY <1>1, <1>2, <1>3, <2>2
  <2> QED
    BY <2>1, <2>3
<1>5. LineEnd(text, k) = m
  BY <1>3, <1>4, LineEndIs
<1>6. /\ SubSeq(text, (k - 1) + 1, m) \in Seq(Bytes) /\ Len(SubSeq(text, (k - 1) + 1, m)) = m - (k - 1)
      /\ \A j \in 1 .. m - (k - 1) : SubSeq(text, (k - 1) + 1, m)[j] = text[(k - 1) + j]
  <2>1. k - 1 \in Nat /\ m \in Nat /\ k - 1 <= m /\ m <= Len(text)
    BY <1>1, <1>3
  <2> QED
    BY <2>1, Part
<1>7. (k - 1) + 1 = k /\ m - (k - 1) = m - k + 1 /\ m \in Nat
  BY <1>1, <1>3
<1>8. LineAt(text, k) = SubSeq(text, k, m)
  BY <1>5 DEF LineAt
<1>9. ASSUME NEW j \in 1 .. m - k + 1 PROVE LineAt(text, k)[j] = text[k + j - 1]
  <2>1. j \in 1 .. m - (k - 1) /\ (k - 1) + j = k + j - 1
    BY <1>7
  <2> QED
    BY <1>6, <1>7, <1>8, <2>1
<1> QED
  BY <1>3, <1>4, <1>5, <1>6, <1>7, <1>8, <1>9

\* The line of a text and one of another are the same if their bytes are.
LEMMA SameLine ==
  ASSUME NEW s \in Seq(Bytes), NEW t \in Seq(Bytes),
         NEW k \in 1 .. Len(s), NEW l \in 1 .. Len(t), NEW n \in Nat,
         k + n <= Len(s), l + n <= Len(t),
         \A j \in 0 .. n : s[k + j] = t[l + j] /\ ~IsNewLine(s[k + j]),
         k + n = Len(s) \/ IsNewLine(s[k + n + 1]),
         l + n = Len(t) \/ IsNewLine(t[l + n + 1])
  PROVE  LineAt(s, k) = LineAt(t, l) /\ LineEnd(s, k) = k + n /\ LineEnd(t, l) = l + n
<1>1. Len(s) \in Nat /\ Len(t) \in Nat
  BY LineBreaks
<1>2. LineEnd(s, k) = k + n
  <2>1. ASSUME NEW j \in k .. k + n PROVE ~IsNewLine(s[j])
    <3>1. j - k \in 0 .. n /\ k + (j - k) = j
      BY <1>1
    <3>2. ~IsNewLine(s[k + (j - k)])
      BY <3>1
    <3> QED
      BY <3>1, <3>2
  <2>2. k + n \in k .. Len(s)
    BY <1>1
  <2> QED
    BY <2>1, <2>2, LineEndIs
<1>3. LineEnd(t, l) = l + n
  <2>1. ASSUME NEW j \in l .. l + n PROVE ~IsNewLine(t[j])
    <3>1. j - l \in 0 .. n /\ l + (j - l) = j
      BY <1>1
    <3>2. ~IsNewLine(t[l + (j - l)])
      BY <3>1
    <3> QED
      BY <3>1, <3>2
  <2>2. l + n \in l .. Len(t)
    BY <1>1
  <2> QED
    BY <2>1, <2>2, LineEndIs
<1>4. ~IsNewLine(s[k]) /\ ~IsNewLine(t[l])
  <2>1. 0 \in 0 .. n /\ k + 0 = k /\ l + 0 = l
    BY <1>1
  <2>2. s[k + 0] = t[l + 0] /\ ~IsNewLine(s[k + 0])
    BY <2>1
  <2> QED
    BY <2>1, <2>2
<1>5. /\ LineAt(s, k) \in Seq(Bytes) /\ Len(LineAt(s, k)) = k + n - k + 1
      /\ \A j \in 1 .. k + n - k + 1 : LineAt(s, k)[j] = s[k + j - 1]
  BY <1>2, <1>4, LineIs, SMTT(30)
<1>6. /\ LineAt(t, l) \in Seq(Bytes) /\ Len(LineAt(t, l)) = l + n - l + 1
      /\ \A j \in 1 .. l + n - l + 1 : LineAt(t, l)[j] = t[l + j - 1]
  BY <1>3, <1>4, LineIs, SMTT(30)
<1>7. k + n - k + 1 = n + 1 /\ l + n - l + 1 = n + 1
  BY <1>1
<1>8. ASSUME NEW j \in 1 .. n + 1 PROVE LineAt(s, k)[j] = LineAt(t, l)[j]
  <2>1. j - 1 \in 0 .. n /\ k + j - 1 = k + (j - 1) /\ l + j - 1 = l + (j - 1)
    BY <1>1
  <2>2. s[k + (j - 1)] = t[l + (j - 1)]
    BY <2>1
  <2>3. LineAt(s, k)[j] = s[k + j - 1] /\ LineAt(t, l)[j] = t[l + j - 1]
    BY <1>5, <1>6, <1>7
  <2> QED
    BY <2>1, <2>2, <2>3
<1> QED
  BY <1>2, <1>3, <1>5, <1>6, <1>7, <1>8, SeqEqual

LEMMA BytesOfFile ==
  ASSUME NEW d \in Seq(Seq(Kinds)), NEW f \in DOMAIN d, NEW off \in Nat, NEW n \in Nat,
         off <= Len(d[f])
  PROVE  /\ Len(d[f]) \in Nat /\ f \in Nat \ {0} /\ DOMAIN d[f] = 1 .. Len(d[f])
         /\ \A p \in 1 .. Len(d[f]) : d[f][p] \in Kinds
         /\ BytesAt(d, f, off, n) \in Seq(Bytes)
         /\ Len(BytesAt(d, f, off, n)) \in Nat /\ Len(BytesAt(d, f, off, n)) = Least(n, Len(d[f]) - off)
         /\ \A k \in 1 .. Len(BytesAt(d, f, off, n)) :
              /\ BytesAt(d, f, off, n)[k] = <<f, off + k, d[f][off + k]>>
              /\ off + k \in 1 .. Len(d[f])
              /\ IsNewLine(BytesAt(d, f, off, n)[k]) <=> d[f][off + k] = "\n"
<1>1. DOMAIN d = 1 .. Len(d) /\ Len(d) \in Nat /\ d[f] \in Seq(Kinds)
  BY LenProperties, ElementOfSeq
<1>2. Len(d[f]) \in Nat /\ f \in Nat \ {0} /\ DOMAIN d[f] = 1 .. Len(d[f])
  BY <1>1, LenProperties
<1>3. \A p \in 1 .. Len(d[f]) : d[f][p] \in Kinds
  BY <1>1, ElementOfSeq
<1> DEFINE m == Least(n, Len(d[f]) - off)
<1>4. m \in Nat /\ m <= Len(d[f]) - off
  BY <1>2 DEF Least
<1> HIDE DEF m
<1>5. BytesAt(d, f, off, n) = [k \in 1 .. m |-> <<f, off + k, d[f][off + k]>>]
  BY DEF BytesAt, m
<1>6. ASSUME NEW k \in 1 .. m
      PROVE  /\ off + k \in 1 .. Len(d[f]) /\ <<f, off + k, d[f][off + k]>> \in Bytes
             /\ IsNewLine(<<f, off + k, d[f][off + k]>>) <=> d[f][off + k] = "\n"
  <2>1. off + k \in 1 .. Len(d[f]) /\ off + k \in Nat
    BY <1>2, <1>4
  <2>2. d[f][off + k] \in Kinds
    BY <1>3, <2>1
  <2> QED
    BY <1>2, <2>1, <2>2 DEF Bytes, IsNewLine
<1>7. BytesAt(d, f, off, n) \in Seq(Bytes)
  <2>1. BytesAt(d, f, off, n) \in [1 .. m -> Bytes]
    BY <1>5, <1>6
  <2> QED
    BY <1>4, <2>1
<1>8. Len(BytesAt(d, f, off, n)) = m
  BY <1>4, <1>5, <1>7, LenProperties
<1>9. \A k \in 1 .. m : BytesAt(d, f, off, n)[k] = <<f, off + k, d[f][off + k]>>
  BY <1>5
<1> QED
  BY <1>2, <1>3, <1>4, <1>6, <1>7, <1>8, <1>9 DEF m

(***************************************************************************)
(* Open: how the files are shared out.                                     *)
(***************************************************************************)
LEMMA Quotient ==
  ASSUME NEW n \in Nat, NEW d \in Nat \ {0}
  PROVE  /\ n \div d \in Nat /\ n % d \in 0 .. d - 1
         /\ n = d * (n \div d) + (n % d)
OBVIOUS

LEMMA Multiples ==
  ASSUME NEW d \in Nat, NEW a \in Nat, NEW b \in Nat
  PROVE  /\ d * a \in Nat /\ d * b \in Nat /\ d * a = a * d /\ d * b = b * d
         /\ a <= b => d * a <= d * b
         /\ a < b => d * a + d <= d * b
         /\ d * (a + 1) = d * a + d
<1>1. d * a \in Nat /\ d * b \in Nat /\ d * a = a * d /\ d * b = b * d /\ d * (a + 1) = d * a + d
  OBVIOUS
<1>2. ASSUME a < b PROVE d * a + d <= d * b
  <2>1. b - a - 1 \in Nat
    BY <1>2
  <2>2. d * (b - a - 1) \in Nat
    BY <2>1
  <2>3. d * (b - a - 1) = d * b - d * a - d
    BY <2>1
  <2> QED
    BY <1>1, <2>2, <2>3
<1>3. ASSUME a <= b PROVE d * a <= d * b
  <2>1. b = a \/ d * a + d <= d * b
    BY <1>2, <1>3
  <2> QED
    BY <1>1, <2>1
<1> QED
  BY <1>1, <1>2, <1>3

LEMMA RoundedUp ==
  ASSUME NEW n \in Nat, NEW d \in Nat \ {0}
  PROVE  /\ (n + d - 1) \div d \in Nat /\ d * ((n + d - 1) \div d) \in Nat
         /\ n <= d * ((n + d - 1) \div d) /\ d * ((n + d - 1) \div d) < n + d
<1> DEFINE m == n + d - 1
           q == m \div d
           p == d * q
<1>1. m \in Nat
  OBVIOUS
<1>2. q \in Nat /\ m % d \in 0 .. d - 1 /\ m = p + (m % d)
  BY <1>1, Quotient
<1>3. p \in Nat
  BY <1>2, Multiples
<1>4. n <= p /\ p < n + d
  <2>1. m = n + d - 1
    OBVIOUS
  <2> HIDE DEF m, p
  <2> QED
    BY <1>1, <1>2, <1>3, <2>1
<1> QED
  BY <1>2, <1>3, <1>4

\* A directory that may be shared out.
Sharable(d, ss) ==
  /\ d \in Seq(Seq(Kinds)) /\ ss \in BOOLEAN
  /\ ss => \A i \in 0 .. LeftOver(d) - 1 : NBlocks(d, i) > 0

LEMMA Sizes ==
  /\ NReaders \in Nat \ {0} /\ NReaders \in Nat /\ NReaders > 0
  /\ BlockSize \in Nat \ {0} /\ BlockSize \in Nat /\ BlockSize > 0
BY SplitAssumption

LEMMA FilesOf ==
  ASSUME NEW d \in Seq(Seq(Kinds))
  PROVE  /\ Len(d) \in Nat /\ DOMAIN d = 1 .. Len(d) /\ FilePerReader(d) \in Nat
         /\ LeftOver(d) \in Nat /\ LeftOver(d) < NReaders
         /\ NReaders * FilePerReader(d) \in Nat
         /\ Len(d) = NReaders * FilePerReader(d) + LeftOver(d)
         /\ \A f \in DOMAIN d : Len(d[f]) \in Nat
<1>1. Len(d) \in Nat /\ DOMAIN d = 1 .. Len(d)
  BY LenProperties
<1>2. \A f \in DOMAIN d : Len(d[f]) \in Nat
  BY <1>1, ElementOfSeq, LenProperties
<1>3. /\ FilePerReader(d) \in Nat /\ LeftOver(d) \in 0 .. NReaders - 1
      /\ Len(d) = NReaders * FilePerReader(d) + LeftOver(d)
  BY <1>1, Sizes, Quotient DEF FilePerReader, LeftOver
<1>4. NReaders * FilePerReader(d) \in Nat
  BY <1>3, Sizes, Multiples
<1> QED
  BY <1>1, <1>2, <1>3, <1>4, Sizes

LEMMA LeftOverIs ==
  ASSUME NEW d \in Seq(Seq(Kinds)), NEW i \in 0 .. LeftOver(d) - 1
  PROVE  /\ LeftOverFile(d, i) \in DOMAIN d
         /\ LeftOverFile(d, i) = NReaders * FilePerReader(d) + i + 1
         /\ Len(d[LeftOverFile(d, i)]) \in Nat
         /\ NBlocks(d, i) \in Nat /\ BlockSize * NBlocks(d, i) \in Nat
         /\ Len(d[LeftOverFile(d, i)]) <= BlockSize * NBlocks(d, i)
         /\ BlockSize * NBlocks(d, i) < Len(d[LeftOverFile(d, i)]) + BlockSize
<1>1. LeftOverFile(d, i) = NReaders * FilePerReader(d) + i + 1 /\ i \in Nat
  BY FilesOf DEF LeftOverFile
<1>2. LeftOverFile(d, i) \in 1 .. Len(d)
  BY <1>1, FilesOf
<1>3. Len(d[LeftOverFile(d, i)]) \in Nat
  BY <1>2, FilesOf
<1>4. /\ NBlocks(d, i) \in Nat /\ BlockSize * NBlocks(d, i) \in Nat
      /\ Len(d[LeftOverFile(d, i)]) <= BlockSize * NBlocks(d, i)
      /\ BlockSize * NBlocks(d, i) < Len(d[LeftOverFile(d, i)]) + BlockSize
  BY <1>3, Sizes, RoundedUp DEF NBlocks
<1> QED
  BY <1>1, <1>2, <1>3, <1>4, FilesOf

BlocksBefore(d, i) == UNION {{j} \X (1 .. NBlocks(d, j)) : j \in 0 .. i - 1}

LEMMA OneMoreFile ==
  ASSUME NEW d \in Seq(Seq(Kinds)), NEW i \in 0 .. LeftOver(d) - 1,
         IsFiniteSet(BlocksBefore(d, i))
  PROVE  /\ IsFiniteSet(BlocksBefore(d, i + 1))
         /\ Cardinality(BlocksBefore(d, i + 1)) = Cardinality(BlocksBefore(d, i)) + NBlocks(d, i)
<1> DEFINE P == {i} \X (1 .. NBlocks(d, i))
<1>1. NBlocks(d, i) \in Nat /\ i \in Nat
  BY LeftOverIs
<1>2. IsFiniteSet(P) /\ Cardinality(P) = NBlocks(d, i)
  <2>1. IsFiniteSet(1 .. NBlocks(d, i)) /\ Cardinality(1 .. NBlocks(d, i)) = NBlocks(d, i)
    BY <1>1, FS_Interval
  <2>2. IsFiniteSet({i}) /\ Cardinality({i}) = 1
    BY FS_Singleton
  <2>3. IsFiniteSet(P) /\ Cardinality(P) = 1 * NBlocks(d, i)
    BY <2>1, <2>2, FS_Product
  <2> QED
    BY <1>1, <2>3
<1>3. BlocksBefore(d, i + 1) = BlocksBefore(d, i) \cup P
  <2>1. 0 .. (i + 1) - 1 = (0 .. i - 1) \cup {i}
    BY <1>1
  <2> QED
    BY <2>1 DEF BlocksBefore
<1>4. BlocksBefore(d, i) \cap P = {}
  <2>1. ASSUME NEW x \in BlocksBefore(d, i), x \in P PROVE FALSE
    <3>1. PICK j \in 0 .. i - 1 : x \in {j} \X (1 .. NBlocks(d, j))
      BY DEF BlocksBefore
    <3>2. x[1] = j /\ x[1] = i
      BY <2>1, <3>1
    <3> QED
      BY <1>1, <3>2
  <2> QED
    BY <2>1
<1> HIDE DEF P
<1>5. Cardinality(BlocksBefore(d, i)) \in Nat
  BY FS_CardinalityType
<1>6. Cardinality(BlocksBefore(d, i) \cap P) = 0
  BY <1>4, FS_EmptySet
<1>7. /\ IsFiniteSet(BlocksBefore(d, i) \cup P)
      /\ Cardinality(BlocksBefore(d, i) \cup P) =
           Cardinality(BlocksBefore(d, i)) + Cardinality(P) - Cardinality(BlocksBefore(d, i) \cap P)
  BY <1>2, FS_Union
<1>8. Cardinality(BlocksBefore(d, i) \cup P) = Cardinality(BlocksBefore(d, i)) + NBlocks(d, i)
  BY <1>1, <1>2, <1>5, <1>6, <1>7
<1> QED
  BY <1>3, <1>7, <1>8

LEMMA FirstBlocks ==
  ASSUME NEW d \in Seq(Seq(Kinds))
  PROVE  /\ FileBlockStart(d, 0) = 0
         /\ \A i \in 0 .. LeftOver(d) : FileBlockStart(d, i) \in Nat
         /\ \A i \in 0 .. LeftOver(d) - 1 :
              FileBlockStart(d, i + 1) = FileBlockStart(d, i) + NBlocks(d, i)
         /\ \A i, j \in 0 .. LeftOver(d) : i <= j => FileBlockStart(d, i) <= FileBlockStart(d, j)
<1>1. LeftOver(d) \in Nat
  BY FilesOf
<1>2. \A i : FileBlockStart(d, i) = Cardinality(BlocksBefore(d, i))
  BY DEF FileBlockStart, BlocksBefore
<1>3. BlocksBefore(d, 0) = {}
  <2>1. 0 .. 0 - 1 = {}
    OBVIOUS
  <2> QED
    BY <2>1 DEF BlocksBefore
<1>4. \A i \in 0 .. LeftOver(d) : IsFiniteSet(BlocksBefore(d, i))
  <2> DEFINE T == {i \in 0 .. LeftOver(d) : ~IsFiniteSet(BlocksBefore(d, i))}
  <2> SUFFICES ASSUME T # {} PROVE FALSE
    OBVIOUS
  <2>1. PICK i \in T : \A j \in T : i <= j
    <3>1. T \in SUBSET Nat
      OBVIOUS
    <3> QED
      BY <3>1, Smallest
  <2>2. i \in 0 .. LeftOver(d) /\ ~IsFiniteSet(BlocksBefore(d, i))
    OBVIOUS
  <2>3. i # 0
    BY <1>3, <2>2, FS_EmptySet
  <2>4. i - 1 \in 0 .. LeftOver(d) - 1 /\ i - 1 \in 0 .. LeftOver(d) /\ (i - 1) + 1 = i /\ ~(i <= i - 1)
    BY <1>1, <2>2, <2>3
  <2>5. i - 1 \notin T
    BY <2>1, <2>4
  <2>6. IsFiniteSet(BlocksBefore(d, i - 1))
    BY <2>4, <2>5
  <2> QED
    BY <2>2, <2>4, <2>6, OneMoreFile
<1>5. ASSUME NEW i \in 0 .. LeftOver(d), NEW j \in 0 .. LeftOver(d), i <= j
      PROVE  Cardinality(BlocksBefore(d, i)) <= Cardinality(BlocksBefore(d, j))
  <2>1. 0 .. i - 1 \subseteq 0 .. j - 1
    BY <1>1, <1>5
  <2>2. BlocksBefore(d, i) \in SUBSET BlocksBefore(d, j)
    BY <2>1 DEF BlocksBefore
  <2> QED
    BY <1>4, <2>2, FS_Subset
<1>6. \A i \in 0 .. LeftOver(d) : FileBlockStart(d, i) \in Nat
  BY <1>2, <1>4, FS_CardinalityType
<1>7. \A i \in 0 .. LeftOver(d) - 1 : FileBlockStart(d, i + 1) = FileBlockStart(d, i) + NBlocks(d, i)
  <2>1. \A i \in 0 .. LeftOver(d) - 1 : i \in 0 .. LeftOver(d)
    BY <1>1
  <2> QED
    BY <1>2, <1>4, <2>1, OneMoreFile
<1>8. FileBlockStart(d, 0) = 0
  BY <1>2, <1>3, FS_EmptySet
<1> QED
  BY <1>2, <1>5, <1>6, <1>7, <1>8

LEMMA Segment ==
  ASSUME NEW n \in Nat, NEW T \in SUBSET (0 .. n),
         \A i, j \in 0 .. n : i <= j /\ j \in T => i \in T
  PROVE  Cardinality(T) \in 0 .. n + 1 /\ \A i \in 0 .. n : i \in T <=> i < Cardinality(T)
<1>1. CASE T = {}
  <2>1. Cardinality(T) = 0
    BY <1>1, FS_EmptySet
  <2> QED
    BY <1>1, <2>1
<1>2. CASE T # {}
  <2>1. PICK x \in T : \A y \in T : y <= x
    <3>1. T \in SUBSET Nat /\ \A y \in T : y <= n
      OBVIOUS
    <3> QED
      BY <1>2, <3>1, Largest
  <2>2. T = 0 .. x
    <3>1. ASSUME NEW y \in 0 .. x PROVE y \in T
      <4>1. y \in 0 .. n /\ x \in 0 .. n /\ y <= x
        OBVIOUS
      <4> QED
        BY <4>1
    <3>2. ASSUME NEW y \in T PROVE y \in 0 .. x
      BY <2>1
    <3> QED
      BY <3>1, <3>2
  <2>3. Cardinality(0 .. x) = x + 1 /\ x \in 0 .. n
    <3>1. 0 \in Int /\ x \in Int /\ x >= 0 /\ x \in 0 .. n
      OBVIOUS
    <3> QED
      BY <3>1, FS_Interval
  <2> QED
    BY <2>2, <2>3
<1> QED
  BY <1>1, <1>2

LEMMA SharesOut ==
  ASSUME NEW d, Sharable(d, TRUE), NEW r \in 0 .. NReaders - 1
  PROVE  /\ d \in Seq(Seq(Kinds)) /\ r \in Nat
         /\ BlockPerReader(d) \in Nat
         /\ FileBlockStart(d, LeftOver(d)) <= NReaders * BlockPerReader(d)
         /\ LeftOver(d) > 0 => BlockPerReader(d) > 0
         /\ StartB(d, r) \in Nat /\ EndB(d, r) \in Nat /\ EndB(d, r) = StartB(d, r) + BlockPerReader(d)
<1>1. d \in Seq(Seq(Kinds)) /\ \A i \in 0 .. LeftOver(d) - 1 : NBlocks(d, i) > 0
  BY DEF Sharable
<1>2. LeftOver(d) \in Nat /\ LeftOver(d) \in 0 .. LeftOver(d)
  BY <1>1, FilesOf
<1>3. FileBlockStart(d, LeftOver(d)) \in Nat
  BY <1>1, <1>2, FirstBlocks
<1>4. /\ BlockPerReader(d) \in Nat
      /\ FileBlockStart(d, LeftOver(d)) <= NReaders * BlockPerReader(d)
  BY <1>3, Sizes, RoundedUp DEF BlockPerReader
<1>5. ASSUME LeftOver(d) > 0 PROVE BlockPerReader(d) > 0
  <2>1. 0 \in 0 .. LeftOver(d) - 1 /\ 0 + 1 = 1 /\ 1 \in 0 .. LeftOver(d) /\ 1 <= LeftOver(d)
        /\ 0 \in 0 .. LeftOver(d)
    BY <1>2, <1>5
  <2>2. NBlocks(d, 0) \in Nat /\ NBlocks(d, 0) > 0
    BY <1>1, <2>1, LeftOverIs
  <2>3. /\ FileBlockStart(d, 0) = 0 /\ FileBlockStart(d, 1) = FileBlockStart(d, 0) + NBlocks(d, 0)
        /\ FileBlockStart(d, 1) <= FileBlockStart(d, LeftOver(d))
    BY <1>1, <1>2, <2>1, FirstBlocks
  <2>4. FileBlockStart(d, LeftOver(d)) > 0
    BY <1>3, <2>2, <2>3
  <2>5. CASE BlockPerReader(d) = 0
    <3>1. NReaders * BlockPerReader(d) = 0
      BY <2>5, Sizes
    <3> QED
      BY <1>3, <1>4, <2>4, <3>1
  <2> QED
    BY <1>4, <2>5
<1>6. r \in Nat
  BY Sizes
<1>7. /\ StartB(d, r) \in Nat /\ EndB(d, r) = StartB(d, r) + BlockPerReader(d)
  BY <1>4, <1>6, Multiples DEF StartB, EndB
<1> QED
  BY <1>1, <1>4, <1>5, <1>6, <1>7

\* The left-over files of a reader: those that overlap with its blocks.
LEMMA FilesOfReader ==
  ASSUME NEW d, Sharable(d, TRUE), NEW r \in 0 .. NReaders - 1
  PROVE  /\ StartF(d, r) \in 0 .. LeftOver(d) /\ EndF(d, r) \in 0 .. LeftOver(d)
         /\ StartF(d, r) <= EndF(d, r)
         /\ \A i \in 0 .. LeftOver(d) : FileBlockStart(d, i) <= StartB(d, r) <=> i <= StartF(d, r)
         /\ \A i \in 0 .. LeftOver(d) - 1 : FileBlockStart(d, i) < EndB(d, r) <=> i < EndF(d, r)
<1>1. /\ d \in Seq(Seq(Kinds)) /\ BlockPerReader(d) \in Nat
      /\ LeftOver(d) > 0 => BlockPerReader(d) > 0
      /\ StartB(d, r) \in Nat /\ EndB(d, r) \in Nat /\ EndB(d, r) = StartB(d, r) + BlockPerReader(d)
  BY SharesOut
<1>2. LeftOver(d) \in Nat
  BY <1>1, FilesOf
<1>3. /\ FileBlockStart(d, 0) = 0
      /\ \A i \in 0 .. LeftOver(d) : FileBlockStart(d, i) \in Nat
      /\ \A i, j \in 0 .. LeftOver(d) : i <= j => FileBlockStart(d, i) <= FileBlockStart(d, j)
  BY <1>1, FirstBlocks
<1> DEFINE T == {i \in 0 .. LeftOver(d) : FileBlockStart(d, i) <= StartB(d, r)}
           U == {i \in 0 .. LeftOver(d) : FileBlockStart(d, i) < EndB(d, r)}
<1>4. Cardinality(T) \in 0 .. LeftOver(d) + 1 /\ \A i \in 0 .. LeftOver(d) : i \in T <=> i < Cardinality(T)
  <2>1. T \in SUBSET (0 .. LeftOver(d))
    OBVIOUS
  <2>2. ASSUME NEW i \in 0 .. LeftOver(d), NEW j \in 0 .. LeftOver(d), i <= j, j \in T
        PROVE  i \in T
    <3>1. /\ FileBlockStart(d, i) \in Nat /\ FileBlockStart(d, j) \in Nat
          /\ FileBlockStart(d, i) <= FileBlockStart(d, j)
      BY <1>3, <2>2
    <3> QED
      BY <1>1, <2>2, <3>1
  <2> HIDE DEF T
  <2> QED
    BY <1>2, <2>1, <2>2, Segment
<1>5. Cardinality(U) \in 0 .. LeftOver(d) + 1 /\ \A i \in 0 .. LeftOver(d) : i \in U <=> i < Cardinality(U)
  <2>1. U \in SUBSET (0 .. LeftOver(d))
    OBVIOUS
  <2>2. ASSUME NEW i \in 0 .. LeftOver(d), NEW j \in 0 .. LeftOver(d), i <= j, j \in U
        PROVE  i \in U
    <3>1. /\ FileBlockStart(d, i) \in Nat /\ FileBlockStart(d, j) \in Nat
          /\ FileBlockStart(d, i) <= FileBlockStart(d, j)
      BY <1>3, <2>2
    <3> QED
      BY <1>1, <2>2, <3>1
  <2> HIDE DEF U
  <2> QED
    BY <1>2, <2>1, <2>2, Segment
<1>6. 0 \in T
  BY <1>1, <1>2, <1>3
<1>7. StartF(d, r) = Cardinality(T) - 1 /\ EndF(d, r) = Least(LeftOver(d), Cardinality(U))
  BY DEF StartF, EndF
<1>8. /\ \A i \in 0 .. LeftOver(d) : i \in T <=> FileBlockStart(d, i) <= StartB(d, r)
      /\ \A i \in 0 .. LeftOver(d) : i \in U <=> FileBlockStart(d, i) < EndB(d, r)
  OBVIOUS
<1> HIDE DEF T, U
<1>9. Cardinality(T) > 0
  BY <1>2, <1>4, <1>6
<1>10. /\ StartF(d, r) \in 0 .. LeftOver(d)
       /\ \A i \in 0 .. LeftOver(d) : FileBlockStart(d, i) <= StartB(d, r) <=> i <= StartF(d, r)
  BY <1>2, <1>4, <1>7, <1>8, <1>9
<1>11. /\ EndF(d, r) \in 0 .. LeftOver(d)
       /\ \A i \in 0 .. LeftOver(d) - 1 : FileBlockStart(d, i) < EndB(d, r) <=> i < EndF(d, r)
  BY <1>2, <1>5, <1>7, <1>8 DEF Least
<1>12. StartF(d, r) <= EndF(d, r)
  <2> SUFFICES ASSUME EndF(d, r) < StartF(d, r) PROVE FALSE
    BY <1>10, <1>11
  <2>1. EndF(d, r) \in 0 .. LeftOver(d) - 1 /\ LeftOver(d) > 0 /\ EndF(d, r) \in 0 .. LeftOver(d)
    BY <1>2, <1>10, <1>11
  <2>2. /\ FileBlockStart(d, EndF(d, r)) \in Nat
        /\ ~(FileBlockStart(d, EndF(d, r)) < EndB(d, r))
        /\ FileBlockStart(d, EndF(d, r)) <= StartB(d, r)
    BY <1>3, <1>10, <1>11, <2>1
  <2> QED
    BY <1>1, <2>1, <2>2
<1> QED
  BY <1>10, <1>11, <1>12

\* A byte is behind a block, or before its end, as its own block is.
LEMMA BlockOf ==
  ASSUME NEW q \in Nat \ {0}, NEW x \in Nat
  PROVE  /\ (q - 1) \div BlockSize \in Nat
         /\ x * BlockSize < q <=> x <= (q - 1) \div BlockSize
         /\ q <= x * BlockSize <=> (q - 1) \div BlockSize < x
<1> DEFINE b == (q - 1) \div BlockSize
           c == (q - 1) % BlockSize
<1>1. q - 1 \in Nat
  OBVIOUS
<1>2. b \in Nat /\ c \in 0 .. BlockSize - 1 /\ q - 1 = BlockSize * b + c
  BY <1>1, Sizes, Quotient
<1> HIDE DEF b, c
<1> DEFINE y == BlockSize * b
           z == x * BlockSize
<1>3. y \in Nat /\ z \in Nat /\ (x <= b => z <= y) /\ (b < x => y + BlockSize <= z)
  BY <1>2, Sizes, Multiples
<1>4. q - 1 = y + c
  BY <1>2
<1> HIDE DEF y, z
<1>5. z < q <=> x <= b
  BY <1>2, <1>3, <1>4, Sizes
<1>6. q <= z <=> b < x
  BY <1>2, <1>3, <1>4, Sizes
<1> QED
  BY <1>2, <1>5, <1>6 DEF b, z

LEMMA RangeIs ==
  ASSUME NEW d, Sharable(d, TRUE), NEW r \in 0 .. NReaders - 1,
         NEW i \in StartF(d, r) .. EndF(d, r) - 1
  PROVE  LET fr == RangeOf(d, r, i) len == Len(d[LeftOverFile(d, i)]) IN
         /\ i \in 0 .. LeftOver(d) - 1
         /\ fr.file = LeftOverFile(d, i) /\ fr.off \in Nat /\ fr.size \in Nat /\ fr.size > 0
         /\ fr = FileRange(fr.file, fr.off, fr.size)
         /\ fr.off + fr.size <= len
         /\ \A q \in 1 .. len :
              fr.off < q /\ q <= fr.off + fr.size <=>
                /\ StartB(d, r) <= FileBlockStart(d, i) + ((q - 1) \div BlockSize)
                /\ FileBlockStart(d, i) + ((q - 1) \div BlockSize) < EndB(d, r)
<1> DEFINE L == LeftOver(d)
           a == FileBlockStart(d, i)
           nb == NBlocks(d, i)
           len == Len(d[LeftOverFile(d, i)])
           s == StartF(d, r)
           e == EndF(d, r)
           S == StartB(d, r)
           E == EndB(d, r)
           z == FileBlockStart(d, i + 1)
<1>1. /\ d \in Seq(Seq(Kinds)) /\ BlockPerReader(d) \in Nat
      /\ L > 0 => BlockPerReader(d) > 0
      /\ S \in Nat /\ E \in Nat /\ E = S + BlockPerReader(d)
  BY SharesOut
<1>2. /\ s \in 0 .. L /\ e \in 0 .. L
      /\ \A j \in 0 .. L : FileBlockStart(d, j) <= S <=> j <= s
      /\ \A j \in 0 .. L - 1 : FileBlockStart(d, j) < E <=> j < e
  BY FilesOfReader
<1>3. L \in Nat
  BY <1>1, FilesOf
<1>4. i \in 0 .. L - 1 /\ i \in 0 .. L /\ i + 1 \in 0 .. L /\ s <= i /\ i < e /\ L > 0
  BY <1>2, <1>3
<1>5. a \in Nat /\ z \in Nat /\ z = a + nb
  BY <1>1, <1>4, FirstBlocks
<1>6. /\ nb \in Nat /\ nb > 0 /\ len \in Nat
      /\ BlockSize * nb \in Nat /\ len <= BlockSize * nb /\ BlockSize * nb < len + BlockSize
  BY <1>1, <1>4, LeftOverIs DEF Sharable
<1>7. E > S
  BY <1>1, <1>4
<1> DEFINE x == IF i = s THEN S - a ELSE 0
           y == IF i = e - 1 THEN E - a ELSE z
<1>8. x \in Nat /\ x < nb /\ \A b \in Nat : x <= b <=> S <= a + b
  <2>1. CASE i = s
    <3>1. a <= S /\ ~(z <= S) /\ x = S - a
      BY <1>2, <1>4, <2>1
    <3> HIDE DEF a, nb, S, E, z, x
    <3> QED
      BY <1>1, <1>5, <1>6, <3>1
  <2>2. CASE i # s
    <3>1. ~(a <= S)
      BY <1>2, <1>4, <2>2
    <3>2. x = 0
      BY <2>2
    <3> QED
      BY <1>1, <1>5, <1>6, <3>1, <3>2
  <2> QED
    BY <2>1, <2>2
<1>9. y \in Nat /\ x < y /\ \A b \in 0 .. nb - 1 : b < y <=> a + b < E
  <2>1. CASE i = e - 1
    <3>1. a < E
      BY <1>2, <1>4
    <3>2. y = E - a
      BY <2>1
    <3>3. x = 0 \/ x = S - a
      OBVIOUS
    <3>4. x < y
      <4> HIDE DEF a, nb, S, E, z, x, y
      <4> QED
        BY <1>1, <1>5, <1>7, <1>8, <3>1, <3>2, <3>3
    <3> HIDE DEF a, nb, S, E, z, x, y
    <3> QED
      BY <1>1, <1>5, <1>6, <3>4, <3>1, <3>2, <3>3, SMTT(30)
  <2>2. CASE i # e - 1
    <3>1. i + 1 \in 0 .. L - 1 /\ i + 1 < e
      BY <1>2, <1>3, <1>4, <2>2
    <3>2. z < E
      BY <1>2, <3>1
    <3>3. y = z
      BY <2>2
    <3> HIDE DEF a, nb, S, E, z, x, y
    <3> QED
      BY <1>1, <1>5, <1>6, <1>8, <3>2, <3>3
  <2> QED
    BY <2>1, <2>2
<1>10. RangeOf(d, r, i) =
         FileRange(LeftOverFile(d, i), x * BlockSize,
                   Least(y * BlockSize, len) - Least(x * BlockSize, len))
  <2>1. RangeOf(d, r, i) =
          FileRange(LeftOverFile(d, i), IF i = s THEN (S - a) * BlockSize ELSE 0,
             Least(IF i = e - 1 THEN (E - a) * BlockSize ELSE z * BlockSize, len)
             - Least(IF i = s THEN (S - a) * BlockSize ELSE 0, len))
    BY DEF RangeOf
  <2>2. x * BlockSize = IF i = s THEN (S - a) * BlockSize ELSE 0
    BY Sizes
  <2>3. y * BlockSize = IF i = e - 1 THEN (E - a) * BlockSize ELSE z * BlockSize
    OBVIOUS
  <2> HIDE DEF S, E, a, z, s, e, len, x, y
  <2> QED
    BY <2>1, <2>2, <2>3
<1> HIDE DEF x, y
<1> DEFINE u == x * BlockSize
           v == y * BlockSize
<1>11. /\ u \in Nat /\ v \in Nat /\ u + BlockSize <= v /\ u + BlockSize <= BlockSize * nb
       /\ u = BlockSize * x /\ v = BlockSize * y
  BY <1>6, <1>8, <1>9, Sizes, Multiples
<1>12. RangeOf(d, r, i) = FileRange(LeftOverFile(d, i), u, Least(v, len) - Least(u, len))
  BY <1>10
<1>13. ASSUME NEW q \in 1 .. len
       PROVE  /\ u < q <=> S <= a + ((q - 1) \div BlockSize)
              /\ q <= v <=> a + ((q - 1) \div BlockSize) < E
  <2>1. q \in Nat \ {0} /\ q <= len /\ q \in Nat
    BY <1>6
  <2> DEFINE b == (q - 1) \div BlockSize
  <2>2. b \in Nat /\ (u < q <=> x <= b) /\ (q <= v <=> b < y)
    BY <1>8, <1>9, <2>1, BlockOf
  <2>3. b < nb
    <3>1. q <= nb * BlockSize
      <4>1. nb * BlockSize = BlockSize * nb
        BY <1>6, Sizes
      <4> QED
        BY <1>6, <2>1, <4>1
    <3> QED
      BY <1>6, <2>1, <3>1, BlockOf
  <2>4. b \in 0 .. nb - 1
    BY <1>6, <2>2, <2>3
  <2> QED
    BY <1>8, <1>9, <2>2, <2>4
<1> HIDE DEF u, v
<1>14. /\ Least(u, len) = u /\ u < Least(v, len) /\ Least(v, len) \in Nat /\ Least(v, len) <= len
       /\ \A q \in 1 .. len : q <= Least(v, len) <=> q <= v
  BY <1>6, <1>11, Sizes DEF Least
<1> HIDE DEF len
<1>15. /\ RangeOf(d, r, i).file = LeftOverFile(d, i) /\ RangeOf(d, r, i).off = u
       /\ RangeOf(d, r, i).size = Least(v, len) - u
       /\ RangeOf(d, r, i) = FileRange(LeftOverFile(d, i), u, Least(v, len) - u)
  BY <1>12, <1>14 DEF FileRange
<1>16. Least(v, len) - u \in Nat /\ Least(v, len) - u > 0 /\ u + (Least(v, len) - u) = Least(v, len)
  BY <1>11, <1>14
<1> QED
  BY <1>4, <1>11, <1>13, <1>14, <1>15, <1>16 DEF len

\* A line is owned as the byte in front of it, or its own if it is the first.
LEMMA OwnedAsByte ==
  ASSUME NEW fr, fr.off \in Nat, fr.size \in Nat, fr.size > 0, NEW p \in Nat \ {0}
  PROVE  LET q == IF p = 1 THEN 1 ELSE p - 1 IN
         Owns(fr, fr.file, p) <=> fr.off < q /\ q <= fr.off + fr.size
<1> DEFINE q == IF p = 1 THEN 1 ELSE p - 1
<1>1. CASE p = 1
  BY <1>1 DEF Owns
<1>2. CASE p # 1
  BY <1>2 DEF Owns
<1> QED
  BY <1>1, <1>2

LEMMA LeftOverOwner ==
  ASSUME NEW d, Sharable(d, TRUE), NEW i \in 0 .. LeftOver(d) - 1,
         NEW p \in 1 .. Len(d[LeftOverFile(d, i)])
  PROVE  \E g \in Nat :
           /\ g < FileBlockStart(d, LeftOver(d))
           /\ \A r \in 0 .. NReaders - 1 :
                (\E j \in StartF(d, r) .. EndF(d, r) - 1 :
                   Owns(RangeOf(d, r, j), LeftOverFile(d, i), p)) <=>
                StartB(d, r) <= g /\ g < EndB(d, r)
<1> DEFINE L == LeftOver(d)
           len == Len(d[LeftOverFile(d, i)])
           q == IF p = 1 THEN 1 ELSE p - 1
           b == (q - 1) \div BlockSize
           g == FileBlockStart(d, i) + b
<1>1. d \in Seq(Seq(Kinds)) /\ L \in Nat
  BY FilesOf DEF Sharable
<1>2. i \in 0 .. L /\ i + 1 \in 0 .. L /\ L \in 0 .. L /\ i + 1 <= L /\ i \in Nat
  BY <1>1
<1>3. /\ len \in Nat /\ NBlocks(d, i) \in Nat /\ BlockSize * NBlocks(d, i) \in Nat
      /\ len <= BlockSize * NBlocks(d, i)
  BY <1>1, LeftOverIs
<1>4. q \in 1 .. len /\ q \in Nat \ {0} /\ q <= len
  BY <1>3
<1> HIDE DEF q
<1>5. b \in Nat /\ b < NBlocks(d, i)
  <2>1. q <= NBlocks(d, i) * BlockSize
    <3>1. NBlocks(d, i) * BlockSize = BlockSize * NBlocks(d, i)
      BY <1>3, Sizes, Multiples
    <3> QED
      BY <1>3, <1>4, <3>1
  <2> QED
    BY <1>3, <1>4, <2>1, BlockOf
<1>6. /\ FileBlockStart(d, i) \in Nat /\ FileBlockStart(d, L) \in Nat
      /\ FileBlockStart(d, i + 1) = FileBlockStart(d, i) + NBlocks(d, i)
      /\ FileBlockStart(d, i + 1) <= FileBlockStart(d, L)
      /\ \A j \in 0 .. L : FileBlockStart(d, j) \in Nat
  BY <1>1, <1>2, FirstBlocks
<1>7. g \in Nat /\ g < FileBlockStart(d, i + 1) /\ g < FileBlockStart(d, L) /\ FileBlockStart(d, i) <= g
  <2> HIDE DEF b
  <2> QED
    BY <1>3, <1>5, <1>6
<1>8. ASSUME NEW r \in 0 .. NReaders - 1, NEW j \in StartF(d, r) .. EndF(d, r) - 1,
             Owns(RangeOf(d, r, j), LeftOverFile(d, i), p)
      PROVE  StartB(d, r) <= g /\ g < EndB(d, r)
  <2> DEFINE fr == RangeOf(d, r, j)
  <2>1. /\ j \in 0 .. L - 1 /\ fr.file = LeftOverFile(d, j)
        /\ fr.off \in Nat /\ fr.size \in Nat /\ fr.size > 0
        /\ \A k \in 1 .. Len(d[LeftOverFile(d, j)]) : fr.off < k /\ k <= fr.off + fr.size <=>
             /\ StartB(d, r) <= FileBlockStart(d, j) + ((k - 1) \div BlockSize)
             /\ FileBlockStart(d, j) + ((k - 1) \div BlockSize) < EndB(d, r)
    BY <1>8, RangeIs
  <2>2. fr.file = LeftOverFile(d, i)
    BY <1>8 DEF Owns
  <2>3. j = i
    <3>1. /\ LeftOverFile(d, i) = NReaders * FilePerReader(d) + i + 1
          /\ LeftOverFile(d, j) = NReaders * FilePerReader(d) + j + 1
      BY <1>1, <2>1, LeftOverIs
    <3>2. NReaders * FilePerReader(d) \in Nat /\ i \in Nat /\ j \in Nat
      BY <1>1, <2>1, FilesOf
    <3>3. LeftOverFile(d, i) = LeftOverFile(d, j)
      BY <2>1, <2>2
    <3> QED
      BY <3>1, <3>2, <3>3
  <2>4. p \in Nat \ {0}
    BY <1>3
  <2>5. fr.off < q /\ q <= fr.off + fr.size
    <3> HIDE DEF fr
    <3> QED
      BY <1>8, <2>1, <2>2, <2>4, OwnedAsByte DEF q, fr
  <2> QED
    BY <1>4, <2>1, <2>3, <2>5
<1>9. ASSUME NEW r \in 0 .. NReaders - 1, StartB(d, r) <= g, g < EndB(d, r)
      PROVE  i \in StartF(d, r) .. EndF(d, r) - 1 /\ Owns(RangeOf(d, r, i), LeftOverFile(d, i), p)
  <2> DEFINE fr == RangeOf(d, r, i)
  <2>1. StartB(d, r) \in Nat /\ EndB(d, r) \in Nat
    BY SharesOut
  <2>2. /\ StartF(d, r) \in 0 .. L /\ EndF(d, r) \in 0 .. L
        /\ FileBlockStart(d, i + 1) <= StartB(d, r) <=> i + 1 <= StartF(d, r)
        /\ FileBlockStart(d, i) < EndB(d, r) <=> i < EndF(d, r)
    BY <1>2, FilesOfReader
  <2>3. ~(FileBlockStart(d, i + 1) <= StartB(d, r)) /\ FileBlockStart(d, i) < EndB(d, r)
    <3> HIDE DEF g
    <3> QED
      BY <1>6, <1>7, <1>9, <2>1, <1>2
  <2>4. i \in StartF(d, r) .. EndF(d, r) - 1
    BY <1>1, <1>2, <2>2, <2>3
  <2>5. /\ fr.file = LeftOverFile(d, i)
        /\ fr.off \in Nat /\ fr.size \in Nat /\ fr.size > 0
        /\ \A k \in 1 .. len : fr.off < k /\ k <= fr.off + fr.size <=>
             /\ StartB(d, r) <= FileBlockStart(d, i) + ((k - 1) \div BlockSize)
             /\ FileBlockStart(d, i) + ((k - 1) \div BlockSize) < EndB(d, r)
    BY <2>4, RangeIs
  <2>6. fr.off < q /\ q <= fr.off + fr.size
    BY <1>4, <1>9, <2>5
  <2>7. p \in Nat \ {0}
    BY <1>3
  <2>8. Owns(fr, fr.file, p)
    <3> HIDE DEF fr
    <3> QED
      BY <2>5, <2>6, <2>7, OwnedAsByte DEF q
  <2> QED
    BY <2>4, <2>5, <2>8
<1> HIDE DEF g
<1> QED
  BY <1>7, <1>8, <1>9

LEMMA ReaderOf ==
  ASSUME NEW g \in Nat, NEW w \in Nat, g < NReaders * w
  PROVE  \E r \in 0 .. NReaders - 1 : \A s \in 0 .. NReaders - 1 :
           w * s <= g /\ g < w * (s + 1) <=> s = r
<1>1. w \in Nat \ {0}
  <2>1. w = 0 => NReaders * w = 0
    BY Sizes
  <2> QED
    BY <2>1
<1> DEFINE r == g \div w
           m == g % w
<1>2. r \in Nat /\ m \in 0 .. w - 1 /\ g = w * r + m
  BY <1>1, Quotient
<1> HIDE DEF r, m
<1>3. ASSUME NEW s \in Nat
      PROVE  w * s <= g /\ g < w * (s + 1) <=> s = r
  <2>1. /\ w * s \in Nat /\ w * r \in Nat /\ w * (s + 1) = w * s + w
        /\ s < r => w * s + w <= w * r
        /\ r < s => w * r + w <= w * s
    BY <1>2, <1>3, Multiples
  <2> DEFINE a == w * s
             c == w * r
             e == w * (s + 1)
  <2>2. a \in Nat /\ c \in Nat /\ e = a + w /\ (s < r => a + w <= c) /\ (r < s => c + w <= a)
        /\ g = c + m /\ (s = r => a = c)
    BY <1>2, <2>1
  <2> HIDE DEF a, c, e
  <2>3. a <= g /\ g < e <=> s = r
    BY <1>1, <1>2, <1>3, <2>2
  <2> QED
    BY <2>3 DEF a, e
<1>4. r < NReaders
  <2> SUFFICES ASSUME NReaders <= r PROVE FALSE
    BY <1>2, Sizes
  <2>1. w * NReaders <= w * r /\ w * r \in Nat /\ w * NReaders \in Nat /\ w * NReaders = NReaders * w
    BY <1>2, Sizes, Multiples
  <2> DEFINE a == w * NReaders
             c == w * r
  <2>2. a <= c /\ a \in Nat /\ c \in Nat /\ g = c + m /\ g < a
    BY <1>2, <2>1
  <2> HIDE DEF a, c
  <2> QED
    BY <1>2, <2>2
<1> QED
  BY <1>2, <1>3, <1>4, Sizes

FileRanges == [file : Nat, off : Nat, size : Nat]
NParts(d, r, ss) == IF ss THEN EndF(d, r) - StartF(d, r) ELSE IF r < LeftOver(d) THEN 1 ELSE 0

LEMMA WholeFilesAre ==
  ASSUME NEW d \in Seq(Seq(Kinds)), NEW r \in 0 .. NReaders - 1
  PROVE  /\ WholeFiles(d, r) \in Seq(FileRanges) /\ Len(WholeFiles(d, r)) = FilePerReader(d)
         /\ \A k \in 1 .. FilePerReader(d) :
              LET f == NReaders * (k - 1) + r + 1 IN
              /\ WholeFiles(d, r)[k] = FileRange(f, 0, Len(d[f]))
              /\ f \in DOMAIN d /\ f <= NReaders * FilePerReader(d) /\ NReaders * (k - 1) \in Nat
<1> DEFINE File(i) == (i - 1) * NReaders + r + 1
<1>1. FilePerReader(d) \in Nat /\ r \in Nat /\ r < NReaders
  BY FilesOf, Sizes
<1>2. WholeFiles(d, r) = [i \in 1 .. FilePerReader(d) |-> FileRange(File(i), 0, Len(d[File(i)]))]
  BY DEF WholeFiles
<1>3. ASSUME NEW i \in 1 .. FilePerReader(d)
      PROVE  /\ File(i) = NReaders * (i - 1) + r + 1 /\ File(i) \in DOMAIN d
             /\ File(i) <= NReaders * FilePerReader(d) /\ NReaders * (i - 1) \in Nat
             /\ FileRange(File(i), 0, Len(d[File(i)])) \in FileRanges
  <2> DEFINE a == NReaders * (i - 1)
             c == NReaders * FilePerReader(d)
  <2>1. i - 1 \in Nat /\ i - 1 < FilePerReader(d)
    BY <1>1
  <2>2. a \in Nat /\ c \in Nat /\ a + NReaders <= c /\ a = (i - 1) * NReaders
    BY <1>1, <2>1, Sizes, Multiples
  <2>3. c <= Len(d) /\ DOMAIN d = 1 .. Len(d) /\ Len(d) \in Nat
    BY FilesOf
  <2>4. File(i) = a + r + 1
    BY <2>2
  <2> HIDE DEF a, c, File
  <2>5. File(i) \in 1 .. Len(d) /\ File(i) <= c /\ File(i) \in Nat
    <3>1. a \in Nat /\ c \in Nat /\ a + NReaders <= c /\ NReaders \in Nat
      BY <2>2, Sizes
    <3> QED
      BY <1>1, <2>3, <2>4, <3>1
  <2>6. Len(d[File(i)]) \in Nat
    BY <2>3, <2>5, FilesOf
  <2>7. FileRange(File(i), 0, Len(d[File(i)])) \in FileRanges
    BY <2>5, <2>6 DEF FileRange, FileRanges
  <2> QED
    BY <2>2, <2>3, <2>4, <2>5, <2>7 DEF a, c
<1>4. \A k \in 1 .. FilePerReader(d) : WholeFiles(d, r)[k] = FileRange(File(k), 0, Len(d[File(k)]))
  BY <1>2
<1> HIDE DEF File
<1>5. WholeFiles(d, r) \in [1 .. FilePerReader(d) -> FileRanges]
  BY <1>2, <1>3
<1>6. WholeFiles(d, r) \in Seq(FileRanges) /\ Len(WholeFiles(d, r)) = FilePerReader(d)
  BY <1>1, <1>5
<1> QED
  BY <1>3, <1>4, <1>6

LEMMA PartFilesAre ==
  ASSUME NEW d, Sharable(d, TRUE), NEW r \in 0 .. NReaders - 1
  PROVE  /\ NParts(d, r, TRUE) \in Nat
         /\ PartFiles(d, r) \in Seq(FileRanges) /\ Len(PartFiles(d, r)) = NParts(d, r, TRUE)
         /\ \A k \in 1 .. NParts(d, r, TRUE) :
              /\ StartF(d, r) + k - 1 \in StartF(d, r) .. EndF(d, r) - 1
              /\ PartFiles(d, r)[k] = RangeOf(d, r, StartF(d, r) + k - 1)
<1> DEFINE n == EndF(d, r) - StartF(d, r)
           parts == [i \in 1 .. EndF(d, r) - StartF(d, r) |-> RangeOf(d, r, StartF(d, r) + i - 1)]
           kept == InOrder({i \in DOMAIN parts : parts[i].size # 0})
<1>1. d \in Seq(Seq(Kinds))
  BY DEF Sharable
<1>2. StartF(d, r) \in Nat /\ EndF(d, r) \in Nat /\ StartF(d, r) <= EndF(d, r)
  <2>1. /\ StartF(d, r) \in 0 .. LeftOver(d) /\ EndF(d, r) \in 0 .. LeftOver(d)
        /\ StartF(d, r) <= EndF(d, r)
    BY FilesOfReader
  <2>2. LeftOver(d) \in Nat
    BY <1>1, FilesOf
  <2> QED
    BY <2>1, <2>2
<1>3. n \in Nat /\ NParts(d, r, TRUE) = n
  BY <1>2 DEF NParts
<1>4. ASSUME NEW k \in 1 .. n
      PROVE  /\ StartF(d, r) + k - 1 \in StartF(d, r) .. EndF(d, r) - 1
             /\ parts[k] = RangeOf(d, r, StartF(d, r) + k - 1)
             /\ parts[k].size # 0 /\ parts[k] \in FileRanges
  <2> DEFINE i == StartF(d, r) + k - 1
             fr == RangeOf(d, r, i)
  <2>1. i \in StartF(d, r) .. EndF(d, r) - 1
    BY <1>2
  <2>2. parts[k] = fr
    OBVIOUS
  <2>3. /\ i \in 0 .. LeftOver(d) - 1
        /\ fr.file = LeftOverFile(d, i) /\ fr.off \in Nat /\ fr.size \in Nat /\ fr.size > 0
        /\ fr = FileRange(fr.file, fr.off, fr.size)
    <3> HIDE DEF i
    <3> QED
      BY <2>1, RangeIs
  <2>4. fr.file \in Nat
    <3>1. LeftOverFile(d, i) \in DOMAIN d
      <4> HIDE DEF i
      <4> QED
        BY <1>1, <2>3, LeftOverIs
    <3>2. DOMAIN d = 1 .. Len(d) /\ Len(d) \in Nat
      BY <1>1, FilesOf
    <3> QED
      BY <2>3, <3>1, <3>2
  <2> HIDE DEF fr, parts
  <2>5. fr \in FileRanges /\ fr.size # 0
    BY <2>3, <2>4 DEF FileRange, FileRanges
  <2> QED
    BY <2>1, <2>2, <2>5 DEF fr
<1>5. DOMAIN parts = 1 .. n
  OBVIOUS
<1>6. parts \in [1 .. n -> FileRanges]
  <2>1. parts = [i \in 1 .. n |-> parts[i]]
    OBVIOUS
  <2> HIDE DEF parts, n
  <2> QED
    BY <1>4, <2>1
<1>7. PartFiles(d, r) = [k \in DOMAIN kept |-> parts[kept[k]]]
  BY DEF PartFiles
<1> HIDE DEF parts
<1>8. {i \in DOMAIN parts : parts[i].size # 0} = 1 .. n
  BY <1>4, <1>5
<1>9. kept \in [1 .. n -> 1 .. n] /\ \A k \in 1 .. n : kept[k] = k
  <2>1. /\ InOrder(1 .. n) \in [1 .. n - 1 + 1 -> 1 .. n]
        /\ \A k \in 1 .. n - 1 + 1 : InOrder(1 .. n)[k] = 1 + k - 1
    <3>1. 1 \in Nat /\ n \in Nat /\ 1 <= n + 1
      BY <1>3
    <3> HIDE DEF n
    <3> QED
      BY <3>1, OrderedInterval
  <2>2. n - 1 + 1 = n /\ \A k \in 1 .. n : 1 + k - 1 = k
    BY <1>3
  <2> QED
    BY <1>8, <2>1, <2>2
<1> HIDE DEF kept, n
<1>10. PartFiles(d, r) = parts
  BY <1>6, <1>7, <1>9
<1>11. parts \in Seq(FileRanges) /\ Len(parts) = n
  BY <1>3, <1>6
<1> QED
  BY <1>3, <1>4, <1>10, <1>11

LEMMA LeftOverFilesAre ==
  ASSUME NEW d \in Seq(Seq(Kinds)), NEW r \in 0 .. NReaders - 1
  PROVE  /\ NParts(d, r, FALSE) \in Nat
         /\ LeftOverFiles(d, r) \in Seq(FileRanges) /\ Len(LeftOverFiles(d, r)) = NParts(d, r, FALSE)
         /\ \A k \in 1 .. NParts(d, r, FALSE) :
              /\ k = 1 /\ r \in 0 .. LeftOver(d) - 1
              /\ LeftOverFiles(d, r)[k] =
                   FileRange(LeftOverFile(d, r), 0, Len(d[LeftOverFile(d, r)]))
<1>1. r \in Nat /\ LeftOver(d) \in Nat
  BY Sizes, FilesOf
<1> DEFINE fr == FileRange(LeftOverFile(d, r), 0, Len(d[LeftOverFile(d, r)]))
           X == LeftOverFiles(d, r)
           n == NParts(d, r, FALSE)
<1>2. CASE r < LeftOver(d)
  <2>1. X = << fr >> /\ n = 1
    BY <1>1, <1>2 DEF LeftOverFiles, NParts
  <2>2. r \in 0 .. LeftOver(d) - 1
    BY <1>1, <1>2
  <2>3. fr \in FileRanges
    <3>1. LeftOverFile(d, r) \in Nat /\ Len(d[LeftOverFile(d, r)]) \in Nat
      BY <2>2, LeftOverIs, FilesOf
    <3> QED
      BY <3>1 DEF FileRange, FileRanges
  <2> HIDE DEF fr, X, n
  <2>4. X \in Seq(FileRanges) /\ Len(X) = 1 /\ X[1] = fr
    BY <2>1, <2>3
  <2>5. \A k \in 1 .. n : k = 1
    BY <2>1
  <2>6. n \in Nat /\ X \in Seq(FileRanges) /\ Len(X) = n
    BY <2>1, <2>4
  <2>7. \A k \in 1 .. n : k = 1 /\ r \in 0 .. LeftOver(d) - 1 /\ X[k] = fr
    BY <2>2, <2>4, <2>5
  <2> QED
    BY <2>6, <2>7 DEF fr, X, n
<1>3. CASE ~(r < LeftOver(d))
  <2>1. X = <<>> /\ n = 0
    BY <1>1, <1>3 DEF LeftOverFiles, NParts
  <2> HIDE DEF fr, X, n
  <2>2. 1 .. n = {} /\ X \in Seq(FileRanges) /\ Len(X) = n /\ n \in Nat
    BY <2>1, EmptySeq
  <2> QED
    BY <2>2 DEF X, n
<1> QED
  BY <1>2, <1>3

\* The ranges of a reader: its whole files, and then those that are left over.
LEMMA RangesAre ==
  ASSUME NEW d, NEW ss, Sharable(d, ss), NEW r \in 0 .. NReaders - 1
  PROVE  LET R == Ranges(d, r, ss) Q == FilePerReader(d) n == NParts(d, r, ss) IN
         /\ R \in Seq(FileRanges) /\ n \in Nat /\ Q \in Nat /\ Len(R) = Q + n
         /\ Len(R) = TotalFiles(d, r, ss)
         /\ \A k \in 1 .. Q :
              LET f == NReaders * (k - 1) + r + 1 IN
              /\ R[k] = FileRange(f, 0, Len(d[f]))
              /\ f \in DOMAIN d /\ f <= NReaders * Q /\ NReaders * (k - 1) \in Nat
         /\ \A k \in 1 .. n :
              \/ /\ ss /\ StartF(d, r) + k - 1 \in StartF(d, r) .. EndF(d, r) - 1
                 /\ R[Q + k] = RangeOf(d, r, StartF(d, r) + k - 1)
              \/ /\ ~ss /\ k = 1 /\ r \in 0 .. LeftOver(d) - 1
                 /\ R[Q + k] = FileRange(LeftOverFile(d, r), 0, Len(d[LeftOverFile(d, r)]))
<1>1. d \in Seq(Seq(Kinds)) /\ ss \in BOOLEAN
  BY DEF Sharable
<1> DEFINE W == WholeFiles(d, r)
           X == IF ss THEN PartFiles(d, r) ELSE LeftOverFiles(d, r)
           Q == FilePerReader(d)
           n == NParts(d, r, ss)
<1>2. /\ W \in Seq(FileRanges) /\ Len(W) = Q
      /\ \A k \in 1 .. Q :
           LET f == NReaders * (k - 1) + r + 1 IN
           /\ W[k] = FileRange(f, 0, Len(d[f]))
           /\ f \in DOMAIN d /\ f <= NReaders * Q /\ NReaders * (k - 1) \in Nat
  BY <1>1, WholeFilesAre
<1>3. /\ X \in Seq(FileRanges) /\ n \in Nat /\ Len(X) = n
      /\ \A k \in 1 .. n :
              \/ /\ ss /\ StartF(d, r) + k - 1 \in StartF(d, r) .. EndF(d, r) - 1
                 /\ X[k] = RangeOf(d, r, StartF(d, r) + k - 1)
              \/ /\ ~ss /\ k = 1 /\ r \in 0 .. LeftOver(d) - 1
                 /\ X[k] = FileRange(LeftOverFile(d, r), 0, Len(d[LeftOverFile(d, r)]))
  <2>1. CASE ss
    <3>1. ss = TRUE
      BY <1>1, <2>1
    <3> QED
      BY <3>1, PartFilesAre
  <2>2. CASE ~ss
    <3>1. ss = FALSE
      BY <1>1, <2>2
    <3> QED
      BY <1>1, <3>1, LeftOverFilesAre
  <2> QED
    BY <2>1, <2>2
<1>4. Ranges(d, r, ss) = W \o X
  BY DEF Ranges
<1>5. TotalFiles(d, r, ss) = Q + n
  <2>1. CASE ss
    BY <2>1 DEF TotalFiles, NParts
  <2>2. CASE ~ss
    BY <1>3, <2>2 DEF TotalFiles, NParts
  <2> QED
    BY <2>1, <2>2
<1>6. Q \in Nat
  BY <1>1, FilesOf
<1> HIDE DEF W, X, Q, n
<1>7. /\ W \o X \in Seq(FileRanges) /\ Len(W \o X) = Len(W) + Len(X)
      /\ \A j \in 1 .. Len(W) : (W \o X)[j] = W[j]
      /\ \A j \in 1 .. Len(X) : (W \o X)[Len(W) + j] = X[j]
  BY <1>2, <1>3, Joined
<1>8. /\ \A k \in 1 .. Q : (W \o X)[k] = W[k]
      /\ \A k \in 1 .. n : (W \o X)[Q + k] = X[k]
  BY <1>2, <1>3, <1>7
<1>9. \A k \in 1 .. Q :
        LET f == NReaders * (k - 1) + r + 1 IN
        /\ (W \o X)[k] = FileRange(f, 0, Len(d[f]))
        /\ f \in DOMAIN d /\ f <= NReaders * Q /\ NReaders * (k - 1) \in Nat
  BY <1>2, <1>8
<1>10. \A k \in 1 .. n :
         \/ /\ ss /\ StartF(d, r) + k - 1 \in StartF(d, r) .. EndF(d, r) - 1
            /\ (W \o X)[Q + k] = RangeOf(d, r, StartF(d, r) + k - 1)
         \/ /\ ~ss /\ k = 1 /\ r \in 0 .. LeftOver(d) - 1
            /\ (W \o X)[Q + k] = FileRange(LeftOverFile(d, r), 0, Len(d[LeftOverFile(d, r)]))
  BY <1>3, <1>8
<1>11. W \o X \in Seq(FileRanges) /\ Len(W \o X) = Q + n /\ Len(W \o X) = TotalFiles(d, r, ss)
  BY <1>2, <1>3, <1>5, <1>7
<1> QED
  BY <1>3, <1>4, <1>6, <1>9, <1>10, <1>11 DEF Q, n

\* Where the k-th range of a reader is from.
IsWhole(d, r, k, fr) ==
  /\ k <= FilePerReader(d)
  /\ fr.file = NReaders * (k - 1) + r + 1 /\ fr.file <= NReaders * FilePerReader(d)
IsPart(d, r, k, fr) ==
  /\ k > FilePerReader(d)
  /\ \E i \in StartF(d, r) .. EndF(d, r) - 1 :
       /\ i = StartF(d, r) + (k - FilePerReader(d)) - 1 /\ i \in 0 .. LeftOver(d) - 1
       /\ fr = RangeOf(d, r, i) /\ fr.file = LeftOverFile(d, i)
IsLeftOver(d, r, k, fr) ==
  k = FilePerReader(d) + 1 /\ r \in 0 .. LeftOver(d) - 1 /\ fr.file = LeftOverFile(d, r)

LEMMA RangeFrom ==
  ASSUME NEW d, NEW ss, Sharable(d, ss), NEW r \in 0 .. NReaders - 1,
         NEW k \in 1 .. Len(Ranges(d, r, ss))
  PROVE  LET fr == Ranges(d, r, ss)[k] IN
         /\ fr \in FileRanges /\ fr = FileRange(fr.file, fr.off, fr.size)
         /\ fr.file \in DOMAIN d /\ fr.off + fr.size <= Len(d[fr.file])
         /\ fr.size > 0 \/ Len(d[fr.file]) = 0
         /\ \/ IsWhole(d, r, k, fr)
            \/ ss /\ IsPart(d, r, k, fr)
            \/ ~ss /\ IsLeftOver(d, r, k, fr)
<1> DEFINE R == Ranges(d, r, ss)
           fr == R[k]
           Q == FilePerReader(d)
           n == NParts(d, r, ss)
<1>1. d \in Seq(Seq(Kinds)) /\ ss \in BOOLEAN
  BY DEF Sharable
<1>2. R \in Seq(FileRanges) /\ n \in Nat /\ Q \in Nat /\ Len(R) = Q + n
  BY RangesAre
<1>3. fr \in FileRanges
  BY <1>2, ElementOfSeq
<1>4. \A f \in DOMAIN d : Len(d[f]) \in Nat
  BY <1>1, FilesOf
<1>5. \A f, off, size : LET g == FileRange(f, off, size) IN g.file = f /\ g.off = off /\ g.size = size
  BY DEF FileRange
<1>6. CASE k <= Q
  <2>1. k \in 1 .. Q
    BY <1>2, <1>6
  <2> DEFINE f == NReaders * (k - 1) + r + 1
  <2>2. fr = FileRange(f, 0, Len(d[f])) /\ f \in DOMAIN d /\ f <= NReaders * Q
    BY <2>1, RangesAre
  <2> HIDE DEF f, R, fr
  <2>3. fr.file = f /\ fr.off = 0 /\ fr.size = Len(d[f])
    BY <1>5, <2>2
  <2>4. 0 + Len(d[f]) <= Len(d[f])
    BY <1>4, <2>2
  <2>5. IsWhole(d, r, k, fr)
    BY <1>6, <2>2, <2>3 DEF IsWhole, f
  <2>6. /\ fr = FileRange(fr.file, fr.off, fr.size) /\ fr.file \in DOMAIN d
        /\ fr.off + fr.size <= Len(d[fr.file])
        /\ fr.size > 0 \/ Len(d[fr.file]) = 0
    <3>1. Len(d[f]) \in Nat
      BY <1>4, <2>2
    <3> QED
      BY <2>2, <2>3, <2>4, <3>1
  <2> QED
    BY <1>3, <2>5, <2>6 DEF fr, R
<1>7. CASE k > Q
  <2>1. k - Q \in 1 .. n /\ Q + (k - Q) = k
    BY <1>2, <1>7
  <2> DEFINE m == k - Q
  <2>2. \/ /\ ss /\ StartF(d, r) + m - 1 \in StartF(d, r) .. EndF(d, r) - 1
           /\ R[Q + m] = RangeOf(d, r, StartF(d, r) + m - 1)
        \/ /\ ~ss /\ m = 1 /\ r \in 0 .. LeftOver(d) - 1
           /\ R[Q + m] = FileRange(LeftOverFile(d, r), 0, Len(d[LeftOverFile(d, r)]))
    BY <2>1, RangesAre, SMTT(30)
  <2>3. R[Q + m] = fr
    BY <2>1
  <2>4. CASE ss
    <3> DEFINE i == StartF(d, r) + m - 1
    <3>1. i \in StartF(d, r) .. EndF(d, r) - 1 /\ fr = RangeOf(d, r, i)
      BY <2>2, <2>3, <2>4
    <3>2. Sharable(d, TRUE)
      BY <1>1, <2>4
    <3> HIDE DEF fr, i, m
    <3>3. /\ i \in 0 .. LeftOver(d) - 1
          /\ fr.file = LeftOverFile(d, i)
          /\ fr = FileRange(fr.file, fr.off, fr.size) /\ fr.size > 0
          /\ fr.off + fr.size <= Len(d[LeftOverFile(d, i)])
      BY <3>1, <3>2, RangeIs
    <3>4. LeftOverFile(d, i) \in DOMAIN d
      BY <1>1, <3>3, LeftOverIs
    <3>5. i = StartF(d, r) + (k - Q) - 1
      BY DEF i, m
    <3> HIDE DEF Q
    <3>6. \E j \in StartF(d, r) .. EndF(d, r) - 1 :
                    /\ j = StartF(d, r) + (k - Q) - 1 /\ j \in 0 .. LeftOver(d) - 1
                    /\ fr = RangeOf(d, r, j) /\ fr.file = LeftOverFile(d, j)
      BY <3>1, <3>3, <3>5
    <3>7. fr.file \in DOMAIN d /\ fr.off + fr.size <= Len(d[fr.file])
      BY <3>3, <3>4
    <3>8. IsPart(d, r, k, fr)
      BY <1>7, <3>6 DEF IsPart, Q
    <3> QED
      BY <1>3, <2>4, <3>3, <3>7, <3>8 DEF fr, R
  <2>5. CASE ~ss
    <3> DEFINE f == LeftOverFile(d, r)
    <3>1. m = 1 /\ r \in 0 .. LeftOver(d) - 1 /\ fr = FileRange(f, 0, Len(d[f]))
      BY <2>2, <2>3, <2>5
    <3>2. f \in DOMAIN d
      BY <1>1, <3>1, LeftOverIs
    <3>3. k = Q + 1
      BY <1>2, <2>1, <3>1
    <3> HIDE DEF fr, f
    <3>4. fr.file = f /\ fr.off = 0 /\ fr.size = Len(d[f])
      BY <1>5, <3>1
    <3>5. 0 + Len(d[f]) <= Len(d[f])
      BY <1>4, <3>2
    <3>6. IsLeftOver(d, r, k, fr)
      BY <3>1, <3>3, <3>4 DEF IsLeftOver, f
    <3>7. /\ fr = FileRange(fr.file, fr.off, fr.size) /\ fr.file \in DOMAIN d
          /\ fr.off + fr.size <= Len(d[fr.file])
          /\ fr.size > 0 \/ Len(d[fr.file]) = 0
      <4>1. Len(d[f]) \in Nat
        BY <1>4, <3>2
      <4> QED
        BY <3>1, <3>2, <3>4, <3>5, <4>1
    <3> HIDE DEF R
    <3> QED
      BY <1>3, <2>5, <3>6, <3>7 DEF fr, R
  <2> QED
    BY <2>4, <2>5
<1>8. k \in Nat
  BY <1>2
<1> QED
  BY <1>2, <1>6, <1>7, <1>8

\* A reader has one range of a file.
LEMMA OneRangeOfFile ==
  ASSUME NEW d, NEW ss, Sharable(d, ss), NEW r \in 0 .. NReaders - 1,
         NEW j \in 1 .. Len(Ranges(d, r, ss)), NEW k \in 1 .. Len(Ranges(d, r, ss)),
         Ranges(d, r, ss)[j].file = Ranges(d, r, ss)[k].file
  PROVE  j = k
<1> DEFINE Q == FilePerReader(d)
           B == NReaders * Q
           s == StartF(d, r)
<1>1. d \in Seq(Seq(Kinds)) /\ Q \in Nat /\ B \in Nat /\ LeftOver(d) \in Nat /\ r \in Nat
  BY Sizes, FilesOf DEF Sharable
<1>2. j \in Nat /\ k \in Nat
  <2>1. Len(Ranges(d, r, ss)) \in Nat
    BY RangesAre, LenProperties
  <2> QED
    BY <2>1
<1>3. ASSUME NEW m \in 1 .. Len(Ranges(d, r, ss))
      PROVE  LET f == Ranges(d, r, ss)[m].file IN
             \/ m \in 1 .. Q /\ f = NReaders * (m - 1) + r + 1 /\ f <= B
             \/ ss /\ m > Q /\ s \in Nat /\ f = B + (s + (m - Q) - 1) + 1 /\ s + (m - Q) - 1 \in Nat
             \/ ~ss /\ m = Q + 1 /\ f = B + r + 1
  <2> DEFINE f == Ranges(d, r, ss)[m].file
  <2>1. m \in Nat /\ m > 0
    BY RangesAre, LenProperties
  <2>2. \/ m <= Q /\ f = NReaders * (m - 1) + r + 1 /\ f <= B
        \/ /\ ss /\ m > Q
           /\ \E i \in StartF(d, r) .. EndF(d, r) - 1 :
                /\ i = s + (m - Q) - 1 /\ i \in 0 .. LeftOver(d) - 1 /\ f = LeftOverFile(d, i)
        \/ /\ ~ss /\ m = Q + 1 /\ r \in 0 .. LeftOver(d) - 1 /\ f = LeftOverFile(d, r)
    <3> DEFINE fr == Ranges(d, r, ss)[m]
    <3>1. IsWhole(d, r, m, fr) \/ (ss /\ IsPart(d, r, m, fr)) \/ (~ss /\ IsLeftOver(d, r, m, fr))
      BY RangeFrom
    <3>2. f = fr.file
      OBVIOUS
    <3> HIDE DEF f, fr
    <3> QED
      BY <3>1, <3>2 DEF IsWhole, IsPart, IsLeftOver
  <2> HIDE DEF f
  <2>3. CASE m <= Q /\ f = NReaders * (m - 1) + r + 1 /\ f <= B
    <3>1. m \in 1 .. Q
      BY <1>1, <2>1, <2>3
    <3> QED
      BY <2>3, <3>1 DEF f
  <2>4. CASE ss /\ m > Q /\ \E i \in StartF(d, r) .. EndF(d, r) - 1 :
                /\ i = s + (m - Q) - 1 /\ i \in 0 .. LeftOver(d) - 1 /\ f = LeftOverFile(d, i)
    <3>1. PICK i \in StartF(d, r) .. EndF(d, r) - 1 :
                /\ i = s + (m - Q) - 1 /\ i \in 0 .. LeftOver(d) - 1 /\ f = LeftOverFile(d, i)
      BY <2>4
    <3>2. f = B + i + 1 /\ i \in Nat
      BY <1>1, <3>1, LeftOverIs
    <3>3. s \in 0 .. LeftOver(d)
      <4>1. Sharable(d, TRUE)
        BY <2>4 DEF Sharable
      <4> QED
        BY <4>1, FilesOfReader
    <3>4. s \in Nat
      BY <1>1, <3>3
    <3> HIDE DEF s, B, Q
    <3> QED
      BY <2>4, <3>1, <3>2, <3>4 DEF f
  <2>5. CASE ~ss /\ m = Q + 1 /\ r \in 0 .. LeftOver(d) - 1 /\ f = LeftOverFile(d, r)
    <3>1. f = B + r + 1
      BY <1>1, <2>5, LeftOverIs
    <3> QED
      BY <2>5, <3>1 DEF f
  <2> QED
    BY <2>2, <2>3, <2>4, <2>5
<1> DEFINE f == Ranges(d, r, ss)[j].file
           x == NReaders * (j - 1)
           y == NReaders * (k - 1)
<1>4. /\ \/ j \in 1 .. Q /\ f = x + r + 1 /\ f <= B
         \/ ss /\ j > Q /\ s \in Nat /\ f = B + (s + (j - Q) - 1) + 1 /\ s + (j - Q) - 1 \in Nat
         \/ ~ss /\ j = Q + 1 /\ f = B + r + 1
      /\ \/ k \in 1 .. Q /\ f = y + r + 1 /\ f <= B
         \/ ss /\ k > Q /\ s \in Nat /\ f = B + (s + (k - Q) - 1) + 1 /\ s + (k - Q) - 1 \in Nat
         \/ ~ss /\ k = Q + 1 /\ f = B + r + 1
  BY <1>3
<1>5. j \in 1 .. Q /\ k \in 1 .. Q =>
        /\ x \in Nat /\ y \in Nat
        /\ (j < k => x + NReaders <= y) /\ (k < j => y + NReaders <= x)
  <2> SUFFICES ASSUME j \in 1 .. Q, k \in 1 .. Q
               PROVE  /\ x \in Nat /\ y \in Nat
                      /\ (j < k => x + NReaders <= y) /\ (k < j => y + NReaders <= x)
    OBVIOUS
  <2>1. j - 1 \in Nat /\ k - 1 \in Nat
    BY <1>1
  <2>2. /\ x \in Nat /\ y \in Nat
        /\ (j - 1 < k - 1 => x + NReaders <= y) /\ (k - 1 < j - 1 => y + NReaders <= x)
    BY <2>1, Sizes, Multiples
  <2> QED
    BY <1>1, <2>2
<1>6. NReaders \in Nat /\ NReaders > 0
  BY Sizes
<1> HIDE DEF f, x, y, Q, B, s
<1>7. CASE j \in 1 .. Q /\ k \in 1 .. Q
  <2>1. x + r + 1 = y + r + 1
    BY <1>1, <1>2, <1>4, <1>7
  <2> QED
    BY <1>1, <1>2, <1>5, <1>6, <1>7, <2>1
<1>8. CASE ~(j \in 1 .. Q /\ k \in 1 .. Q)
  <2>1. ASSUME j \in 1 .. Q, k \notin 1 .. Q PROVE FALSE
    BY <1>1, <1>4, <2>1
  <2>2. ASSUME j \notin 1 .. Q, k \in 1 .. Q PROVE FALSE
    BY <1>1, <1>4, <2>2
  <2>3. CASE j \notin 1 .. Q /\ k \notin 1 .. Q
    <3>1. CASE ss
      <4>1. /\ s \in Nat /\ f = B + (s + (j - Q) - 1) + 1 /\ f = B + (s + (k - Q) - 1) + 1
        BY <1>4, <2>3, <3>1
      <4> QED
        BY <1>1, <1>2, <4>1
    <3>2. CASE ~ss
      BY <1>4, <2>3, <3>2
    <3> QED
      BY <3>1, <3>2
  <2> QED
    BY <1>8, <2>1, <2>2, <2>3
<1> QED
  BY <1>7, <1>8

LEMMA OwnedInFile ==
  ASSUME NEW d, NEW ss, Sharable(d, ss), NEW r \in 0 .. NReaders - 1,
         NEW k \in 1 .. Len(Ranges(d, r, ss)), NEW f, NEW p, Owns(Ranges(d, r, ss)[k], f, p)
  PROVE  Ranges(d, r, ss)[k].file = f
BY DEF Owns

\* There is one reader that the line at p of file f falls to.
OneOwner(d, ss, f, p) ==
  \E r \in 0 .. NReaders - 1 : \A s \in 0 .. NReaders - 1 :
    (\E k \in 1 .. Len(Ranges(d, s, ss)) : Owns(Ranges(d, s, ss)[k], f, p)) <=> s = r

LEMMA WholeOwner ==
  ASSUME NEW d, NEW ss, Sharable(d, ss), NEW f \in DOMAIN d, NEW p \in 1 .. Len(d[f]),
         f <= NReaders * FilePerReader(d)
  PROVE  OneOwner(d, ss, f, p)
<1> DEFINE Q == FilePerReader(d)
           B == NReaders * Q
           a == (f - 1) \div NReaders
           r == (f - 1) % NReaders
           c == NReaders * a
<1>1. /\ d \in Seq(Seq(Kinds)) /\ Q \in Nat /\ B \in Nat /\ Len(d) \in Nat /\ DOMAIN d = 1 .. Len(d)
      /\ Len(d[f]) \in Nat
  BY FilesOf DEF Sharable
<1>2. f \in Nat /\ f - 1 \in Nat /\ f <= B
  BY <1>1
<1>3. a \in Nat /\ r \in 0 .. NReaders - 1 /\ f - 1 = c + r
  BY <1>2, Sizes, Quotient
<1> HIDE DEF a, r
<1>4. c \in Nat /\ (Q <= a => B <= c)
  BY <1>1, <1>3, Sizes, Multiples
<1>5. a < Q /\ r \in Nat /\ f = c + r + 1
  <2> HIDE DEF B, c, Q
  <2> QED
    BY <1>1, <1>2, <1>3, <1>4, Sizes
<1>6. ASSUME NEW s \in 0 .. NReaders - 1, s = r
      PROVE  \E k \in 1 .. Len(Ranges(d, s, ss)) : Owns(Ranges(d, s, ss)[k], f, p)
  <2> DEFINE k == a + 1
             fr == Ranges(d, s, ss)[k]
             g == NReaders * (k - 1) + s + 1
  <2>1. k \in 1 .. Q /\ k - 1 = a
    BY <1>1, <1>3, <1>5
  <2>2. fr = FileRange(g, 0, Len(d[g]))
    <3> HIDE DEF k
    <3> QED
      BY <2>1, RangesAre
  <2>3. g = f
    BY <1>5, <1>6, <2>1
  <2>4. k \in 1 .. Len(Ranges(d, s, ss))
    <3>1. Len(Ranges(d, s, ss)) = Q + NParts(d, s, ss) /\ NParts(d, s, ss) \in Nat
      BY RangesAre
    <3> HIDE DEF k
    <3> QED
      BY <1>1, <2>1, <3>1
  <2> HIDE DEF g, fr
  <2>5. fr.file = f /\ fr.off = 0 /\ fr.size = Len(d[f])
    BY <2>2, <2>3 DEF FileRange
  <2>6. p - 1 <= 0 + Len(d[f])
    BY <1>1
  <2>7. Owns(fr, f, p)
    BY <2>5, <2>6 DEF Owns
  <2> QED
    BY <2>4, <2>7 DEF fr
<1>7. ASSUME NEW s \in 0 .. NReaders - 1, NEW k \in 1 .. Len(Ranges(d, s, ss)),
             Owns(Ranges(d, s, ss)[k], f, p)
      PROVE  s = r
  <2> DEFINE fr == Ranges(d, s, ss)[k]
             x == NReaders * (k - 1)
  <2>1. fr.file = f
    BY <1>7, OwnedInFile
  <2>2. \/ k <= Q /\ fr.file = x + s + 1
        \/ \E j \in 0 .. LeftOver(d) - 1 : fr.file = LeftOverFile(d, j)
    <3>1. IsWhole(d, s, k, fr) \/ IsPart(d, s, k, fr) \/ IsLeftOver(d, s, k, fr)
      BY RangeFrom
    <3> HIDE DEF fr
    <3> QED
      BY <3>1 DEF IsWhole, IsPart, IsLeftOver
  <2>3. k \in Nat /\ k >= 1 /\ s \in Nat
    BY RangesAre, LenProperties, Sizes
  <2>4. \A i \in 0 .. LeftOver(d) - 1 : LeftOverFile(d, i) > B
    <3>1. ASSUME NEW i \in 0 .. LeftOver(d) - 1 PROVE LeftOverFile(d, i) > B
      <4>1. LeftOverFile(d, i) = B + i + 1
        BY <1>1, LeftOverIs
      <4> HIDE DEF B
      <4> QED
        BY <1>1, <4>1
    <3> QED
      BY <3>1
  <2> HIDE DEF fr, x
  <2>5. k <= Q /\ f = x + s + 1
    <3> HIDE DEF B, Q
    <3>1. ~(f > B)
      BY <1>1, <1>2
    <3>2. ~ \E i \in 0 .. LeftOver(d) - 1 : f = LeftOverFile(d, i)
      BY <2>4, <3>1
    <3> QED
      BY <2>1, <2>2, <3>2
  <2>6. /\ x \in Nat
        /\ k - 1 < a => x + NReaders <= c
        /\ a < k - 1 => c + NReaders <= x
        /\ k - 1 = a => x = c
    <3>1. k - 1 \in Nat
      BY <2>3
    <3> QED
      BY <1>3, <3>1, Sizes, Multiples DEF x
  <2>7. s < NReaders /\ r < NReaders
    BY <1>3, Sizes
  <2> HIDE DEF c, B, Q
  <2>8. x = c
    BY <1>3, <1>4, <1>5, <2>3, <2>5, <2>6, <2>7, Sizes
  <2> QED
    BY <1>4, <1>5, <2>3, <2>5, <2>8
<1>8. \A s \in 0 .. NReaders - 1 :
        (\E k \in 1 .. Len(Ranges(d, s, ss)) : Owns(Ranges(d, s, ss)[k], f, p)) <=> s = r
  BY <1>6, <1>7
<1> QED
  BY <1>3, <1>8 DEF OneOwner

LEMMA PartOwner ==
  ASSUME NEW d, NEW ss, Sharable(d, ss), NEW f \in DOMAIN d, NEW p \in 1 .. Len(d[f]),
         f > NReaders * FilePerReader(d)
  PROVE  OneOwner(d, ss, f, p)
<1> DEFINE Q == FilePerReader(d)
           B == NReaders * Q
           i == f - B - 1
           L == LeftOver(d)
<1>1. /\ d \in Seq(Seq(Kinds)) /\ Q \in Nat /\ B \in Nat /\ Len(d) \in Nat /\ DOMAIN d = 1 .. Len(d)
      /\ Len(d) = B + L /\ L \in Nat /\ L < NReaders /\ Len(d[f]) \in Nat
  BY FilesOf DEF Sharable
<1>2. i \in 0 .. L - 1 /\ f = B + i + 1 /\ i \in Nat
  <2>1. f > B /\ i = f - B - 1 /\ f \in 1 .. Len(d)
    BY <1>1
  <2> HIDE DEF B, L, i
  <2> QED
    BY <1>1, <2>1, SMTT(30)
<1>3. LeftOverFile(d, i) = f
  <2>1. LeftOverFile(d, i) = B + i + 1
    <3> HIDE DEF i
    <3> QED
      BY <1>1, <1>2, LeftOverIs
  <2> QED
    BY <1>2, <2>1
<1> HIDE DEF i
<1>4. ASSUME NEW s \in 0 .. NReaders - 1, NEW k \in 1 .. Len(Ranges(d, s, ss)),
             Owns(Ranges(d, s, ss)[k], f, p)
      PROVE  IF ss THEN i \in StartF(d, s) .. EndF(d, s) - 1 /\ Owns(RangeOf(d, s, i), f, p) ELSE s = i
  <2> DEFINE fr == Ranges(d, s, ss)[k]
  <2>1. fr.file = f
    BY <1>4, OwnedInFile
  <2>2. \/ fr.file <= B
        \/ /\ ss
           /\ \E j \in StartF(d, s) .. EndF(d, s) - 1 :
                j \in 0 .. LeftOver(d) - 1 /\ fr = RangeOf(d, s, j) /\ fr.file = LeftOverFile(d, j)
        \/ ~ss /\ s \in 0 .. LeftOver(d) - 1 /\ fr.file = LeftOverFile(d, s)
    <3>1. IsWhole(d, s, k, fr) \/ (ss /\ IsPart(d, s, k, fr)) \/ (~ss /\ IsLeftOver(d, s, k, fr))
      BY RangeFrom
    <3> HIDE DEF fr
    <3> QED
      BY <3>1 DEF IsWhole, IsPart, IsLeftOver
  <2>3. ~(f <= B)
    <3> HIDE DEF B
    <3> QED
      BY <1>1, <1>2
  <2>4. ASSUME NEW j \in 0 .. LeftOver(d) - 1, LeftOverFile(d, j) = f PROVE j = i
    <3>1. LeftOverFile(d, j) = B + j + 1
      BY <1>1, LeftOverIs
    <3> HIDE DEF B
    <3> QED
      BY <1>1, <1>2, <2>4, <3>1
  <2>5. Owns(fr, f, p)
    BY <1>4
  <2> HIDE DEF fr, B, Q
  <2> QED
    BY <2>1, <2>2, <2>3, <2>4, <2>5
<1>5. CASE ss
  <2>1. Sharable(d, TRUE)
    BY <1>5 DEF Sharable
  <2>2. PICK g \in Nat :
           /\ g < FileBlockStart(d, LeftOver(d))
           /\ \A s \in 0 .. NReaders - 1 :
                (\E j \in StartF(d, s) .. EndF(d, s) - 1 : Owns(RangeOf(d, s, j), f, p)) <=>
                StartB(d, s) <= g /\ g < EndB(d, s)
    BY <1>2, <1>3, <2>1, LeftOverOwner, ZenonT(60)
  <2>3. /\ BlockPerReader(d) \in Nat
        /\ FileBlockStart(d, L) <= NReaders * BlockPerReader(d)
        /\ FileBlockStart(d, L) \in Nat /\ NReaders * BlockPerReader(d) \in Nat
    <3>1. 0 \in 0 .. NReaders - 1
      BY Sizes
    <3>2. L \in 0 .. L
      BY <1>1
    <3>3. /\ BlockPerReader(d) \in Nat
          /\ FileBlockStart(d, L) <= NReaders * BlockPerReader(d)
      BY <2>1, <3>1, SharesOut
    <3>4. FileBlockStart(d, L) \in Nat
      BY <1>1, <3>2, FirstBlocks
    <3> QED
      BY <3>3, <3>4, Sizes, Multiples
  <2>4. g < NReaders * BlockPerReader(d)
    BY <2>2, <2>3
  <2>5. PICK r \in 0 .. NReaders - 1 : \A s \in 0 .. NReaders - 1 :
           BlockPerReader(d) * s <= g /\ g < BlockPerReader(d) * (s + 1) <=> s = r
    BY <2>3, <2>4, ReaderOf
  <2>6. ASSUME NEW s \in 0 .. NReaders - 1
        PROVE  (\E j \in StartF(d, s) .. EndF(d, s) - 1 : Owns(RangeOf(d, s, j), f, p)) <=> s = r
    BY <2>2, <2>5 DEF StartB, EndB
  <2>7. ASSUME NEW s \in 0 .. NReaders - 1, NEW j \in StartF(d, s) .. EndF(d, s) - 1,
               Owns(RangeOf(d, s, j), f, p)
        PROVE  \E k \in 1 .. Len(Ranges(d, s, ss)) : Owns(Ranges(d, s, ss)[k], f, p)
    <3> DEFINE m == j - StartF(d, s) + 1
    <3>1. StartF(d, s) \in 0 .. L /\ EndF(d, s) \in 0 .. L
      BY <2>1, FilesOfReader
    <3>2. StartF(d, s) \in Nat /\ EndF(d, s) \in Nat
      BY <1>1, <3>1
    <3>3. m \in 1 .. NParts(d, s, ss) /\ StartF(d, s) + m - 1 = j
      BY <1>5, <3>2 DEF NParts
    <3> HIDE DEF m
    <3>4. Ranges(d, s, ss)[Q + m] = RangeOf(d, s, StartF(d, s) + m - 1)
      BY <1>5, <3>3, RangesAre
    <3>5. Len(Ranges(d, s, ss)) = Q + NParts(d, s, ss) /\ NParts(d, s, ss) \in Nat
      BY RangesAre
    <3>6. Q + m \in 1 .. Len(Ranges(d, s, ss))
      BY <1>1, <3>3, <3>5, SMTT(30)
    <3> QED
      BY <2>7, <3>3, <3>4, <3>6
  <2>8. \A s \in 0 .. NReaders - 1 :
          (\E k \in 1 .. Len(Ranges(d, s, ss)) : Owns(Ranges(d, s, ss)[k], f, p)) <=> s = r
    BY <1>4, <1>5, <2>6, <2>7
  <2> QED
    BY <2>8 DEF OneOwner
<1>6. CASE ~ss
  <2>1. i \in 0 .. NReaders - 1
    <3> HIDE DEF L
    <3> QED
      BY <1>1, <1>2, Sizes
  <2>2. ASSUME NEW s \in 0 .. NReaders - 1, s = i
        PROVE  \E k \in 1 .. Len(Ranges(d, s, ss)) : Owns(Ranges(d, s, ss)[k], f, p)
    <3>1. NParts(d, s, ss) = 1
      BY <1>1, <1>2, <1>6, <2>2 DEF NParts
    <3>2. Ranges(d, s, ss)[Q + 1] = FileRange(f, 0, Len(d[f]))
      <4>1. 1 \in 1 .. NParts(d, s, ss)
        BY <3>1
      <4>2. Ranges(d, s, ss)[Q + 1] = FileRange(LeftOverFile(d, s), 0, Len(d[LeftOverFile(d, s)]))
        BY <1>6, <4>1, RangesAre
      <4> QED
        BY <1>3, <2>2, <4>2
    <3>3. Len(Ranges(d, s, ss)) = Q + NParts(d, s, ss)
      BY RangesAre
    <3>4. Q + 1 \in 1 .. Len(Ranges(d, s, ss))
      BY <1>1, <3>1, <3>3
    <3>5. p - 1 <= 0 + Len(d[f])
      BY <1>1
    <3>6. Owns(FileRange(f, 0, Len(d[f])), f, p)
      BY <3>5 DEF Owns, FileRange
    <3> QED
      BY <3>2, <3>4, <3>6
  <2>3. \A s \in 0 .. NReaders - 1 :
          (\E k \in 1 .. Len(Ranges(d, s, ss)) : Owns(Ranges(d, s, ss)[k], f, p)) <=> s = i
    BY <1>4, <1>6, <2>2
  <2> QED
    BY <2>1, <2>3 DEF OneOwner
<1> QED
  BY <1>5, <1>6

LEMMA OneReader ==
  ASSUME NEW d, NEW ss, Sharable(d, ss), NEW f \in DOMAIN d, NEW p \in 1 .. Len(d[f])
  PROVE  OneOwner(d, ss, f, p)
<1>1. f \in Nat /\ NReaders * FilePerReader(d) \in Nat
  BY FilesOf DEF Sharable
<1>2. f <= NReaders * FilePerReader(d) \/ f > NReaders * FilePerReader(d)
  BY <1>1
<1> QED
  BY <1>2, WholeOwner, PartOwner

LEMMA LinesOfFiles ==
  ASSUME NEW d \in Seq(Seq(Kinds)), NEW l
  PROVE  l \in FileLines(d) <=>
           \E f \in DOMAIN d : \E p \in 1 .. Len(d[f]) :
             l = <<f, p>> /\ d[f][p] # "\n" /\ (p = 1 \/ d[f][p - 1] = "\n")
<1>1. ASSUME NEW f \in DOMAIN d, NEW p
      PROVE  p \in LineStarts(FileText(d, f)) <=>
               p \in 1 .. Len(d[f]) /\ d[f][p] # "\n" /\ (p = 1 \/ d[f][p - 1] = "\n")
  <2> DEFINE t == FileText(d, f)
  <2>1. Len(d[f]) \in Nat
    BY FilesOf
  <2>2. /\ t \in Seq(Bytes) /\ Len(t) = Least(Len(d[f]), Len(d[f]) - 0)
        /\ \A k \in 1 .. Len(t) : IsNewLine(t[k]) <=> d[f][0 + k] = "\n"
    BY <2>1, BytesOfFile DEF FileText
  <2>3. Len(t) = Len(d[f])
    BY <2>1, <2>2 DEF Least
  <2>4. \A k \in 1 .. Len(t) : IsNewLine(t[k]) <=> d[f][k] = "\n"
    BY <2>2
  <2> HIDE DEF t
  <2>5. p \in LineStarts(t) <=> p \in 1 .. Len(t) /\ ~IsNewLine(t[p]) /\ (p = 1 \/ IsNewLine(t[p - 1]))
    BY <2>2, LinesBegin
  <2>6. ASSUME p \in 1 .. Len(t), p # 1 PROVE IsNewLine(t[p - 1]) <=> d[f][p - 1] = "\n"
    <3>1. p - 1 \in 1 .. Len(t)
      BY <2>1, <2>3, <2>6
    <3> QED
      BY <2>4, <3>1
  <2> QED
    BY <2>3, <2>4, <2>5, <2>6 DEF t
<1>2. l \in FileLines(d) <=> \E f \in DOMAIN d : l \in {f} \X LineStarts(FileText(d, f))
  BY DEF FileLines
<1>3. l \in FileLines(d) <=> \E f \in DOMAIN d : \E p \in LineStarts(FileText(d, f)) : l = <<f, p>>
  BY <1>2
<1> QED
  BY <1>1, <1>3, ZenonT(60)

LEMMA FixedSharable ==
  ASSUME DirFixed
  PROVE  /\ dir \in Seq(Seq(Kinds)) /\ Sharable(dir, support_seek) /\ my_reader_id \in 0 .. NReaders - 1
         /\ DOMAIN dir = 1 .. Len(dir) /\ Len(dir) \in Nat
<1>1. dir \in Seq(Seq(Kinds))
  BY DirAssumption DEF DirFixed
<1> QED
  BY <1>1, FilesOf DEF DirFixed, Sharable

LEMMA LinesShared ==
  ASSUME DirFixed
  PROVE  EachLineOneReader
<1> DEFINE R(r) == Ranges(dir, r, support_seek)
<1>1. dir \in Seq(Seq(Kinds)) /\ Sharable(dir, support_seek)
  BY FixedSharable
<1> SUFFICES ASSUME NEW l \in FileLines(dir)
             PROVE  LET owners == UNION {{r} \X {k \in DOMAIN R(r) : Owns(R(r)[k], l[1], l[2])} :
                                          r \in 0 .. NReaders - 1} IN
                    \E o \in owners : owners = {o}
  BY DEF EachLineOneReader
<1> DEFINE owners == UNION {{r} \X {k \in DOMAIN R(r) : Owns(R(r)[k], l[1], l[2])} :
                             r \in 0 .. NReaders - 1}
<1>2. PICK f \in DOMAIN dir : \E p \in 1 .. Len(dir[f]) : l = <<f, p>>
  BY <1>1, LinesOfFiles
<1>9. PICK p \in 1 .. Len(dir[f]) : l = <<f, p>>
  BY <1>2
<1>3. l[1] = f /\ l[2] = p
  BY <1>9
<1>10. OneOwner(dir, support_seek, f, p)
  BY <1>1, OneReader
<1>4. PICK r \in 0 .. NReaders - 1 : \A s \in 0 .. NReaders - 1 :
        (\E k \in 1 .. Len(R(s)) : Owns(R(s)[k], f, p)) <=> s = r
  BY <1>10 DEF OneOwner
<1>5. PICK k \in 1 .. Len(R(r)) : Owns(R(r)[k], f, p)
  BY <1>4
<1>6. ASSUME NEW s \in 0 .. NReaders - 1 PROVE DOMAIN R(s) = 1 .. Len(R(s))
  BY <1>1, RangesAre, LenProperties
<1>7. <<r, k>> \in owners
  <2>1. k \in {m \in DOMAIN R(r) : Owns(R(r)[m], l[1], l[2])}
    BY <1>3, <1>5, <1>6
  <2> QED
    BY <2>1
<1>8. ASSUME NEW o \in owners PROVE o = <<r, k>>
  <2>1. PICK s \in 0 .. NReaders - 1 : o \in {s} \X {m \in DOMAIN R(s) : Owns(R(s)[m], l[1], l[2])}
    OBVIOUS
  <2>2. PICK m \in DOMAIN R(s) : o = <<s, m>> /\ Owns(R(s)[m], f, p)
    BY <1>3, <2>1
  <2>3. m \in 1 .. Len(R(s))
    BY <1>6
  <2>4. s = r
    BY <1>4, <2>2, <2>3
  <2>5. R(r)[m].file = f /\ R(r)[k].file = f
    BY <1>5, <2>2, <2>4 DEF Owns
  <2>6. m = k
    BY <1>1, <2>3, <2>4, <2>5, OneRangeOfFile
  <2> QED
    BY <2>2, <2>4, <2>6
<1> QED
  BY <1>7, <1>8

(***************************************************************************)
(* Texts of whole lines.                                                   *)
(***************************************************************************)
LEMMA FileBytes ==
  ASSUME DirFixed, NEW f \in DOMAIN dir
  PROVE  /\ Len(dir[f]) \in Nat /\ DOMAIN dir[f] = 1 .. Len(dir[f]) /\ f \in Nat
         /\ \A p \in 1 .. Len(dir[f]) :
              /\ Byte(f, p) \in Bytes /\ Byte(f, p)[1] = f /\ Byte(f, p)[2] = p
              /\ Byte(f, p)[3] = dir[f][p] /\ Genuine(Byte(f, p))
              /\ IsNewLine(Byte(f, p)) <=> dir[f][p] = "\n"
<1>1. dir \in Seq(Seq(Kinds))
  BY FixedSharable
<1>2. /\ Len(dir[f]) \in Nat /\ f \in Nat \ {0} /\ DOMAIN dir[f] = 1 .. Len(dir[f])
      /\ \A p \in 1 .. Len(dir[f]) : dir[f][p] \in Kinds
  <2>1. 0 \in Nat /\ 0 <= Len(dir[f])
    BY <1>1, FilesOf
  <2> QED
    BY <1>1, <2>1, BytesOfFile
<1>3. ASSUME NEW p \in 1 .. Len(dir[f])
      PROVE  /\ Byte(f, p) \in Bytes /\ Byte(f, p)[1] = f /\ Byte(f, p)[2] = p
             /\ Byte(f, p)[3] = dir[f][p] /\ Genuine(Byte(f, p))
             /\ IsNewLine(Byte(f, p)) <=> dir[f][p] = "\n"
  <2>1. f \in Nat /\ p \in Nat /\ dir[f][p] \in Kinds
    BY <1>2
  <2>2. Byte(f, p) \in Bytes /\ Byte(f, p)[1] = f /\ Byte(f, p)[2] = p /\ Byte(f, p)[3] = dir[f][p]
    BY <2>1 DEF Byte, Bytes
  <2> QED
    BY <1>2, <2>2 DEF Genuine, IsNewLine
<1> QED
  BY <1>2, <1>3

\* What a text of whole lines says of one of its bytes.
LineByte(text, k, f, p) ==
  /\ f \in DOMAIN dir /\ p \in 1 .. Len(dir[f]) /\ text[k] = Byte(f, p) /\ k < Len(text)
  /\ dir[f][p] # "\n"
  /\ EndsWith(f, p) => IsNewLine(text[k + 1])
  /\ ~EndsWith(f, p) => text[k + 1] = Byte(f, p + 1)
  /\ k = 1 \/ IsNewLine(text[k - 1]) => BeginsAfter(f, p - 1) /\ Mine(f, p)

LEMMA WholeByte ==
  ASSUME DirFixed, NEW text \in Seq(Bytes), Whole(text),
         NEW k \in 1 .. Len(text), ~IsNewLine(text[k])
  PROVE  LineByte(text, k, text[k][1], text[k][2])
<1>1. /\ Genuine(text[k]) /\ k < Len(text)
      /\ IF EndsWith(text[k][1], text[k][2]) THEN IsNewLine(text[k + 1])
         ELSE text[k + 1] = Byte(text[k][1], text[k][2] + 1)
      /\ k = 1 \/ IsNewLine(text[k - 1]) =>
           BeginsAfter(text[k][1], text[k][2] - 1) /\ Mine(text[k][1], text[k][2])
  BY DEF Whole
<1>2. /\ text[k][1] \in DOMAIN dir /\ text[k][2] \in 1 .. Len(dir[text[k][1]])
      /\ text[k] = Byte(text[k][1], text[k][2])
  BY <1>1, FileBytes DEF Genuine
<1>3. dir[text[k][1]][text[k][2]] # "\n"
  BY <1>2, FileBytes
<1> QED
  BY <1>1, <1>2, <1>3 DEF LineByte

\* And it is such a text if it says so of each.
LEMMA WholeIf ==
  ASSUME NEW text, DirFixed,
         \A k \in 1 .. Len(text) : ~IsNewLine(text[k]) => \E f, p : LineByte(text, k, f, p)
  PROVE  Whole(text)
<1> SUFFICES ASSUME NEW k \in 1 .. Len(text), ~IsNewLine(text[k])
             PROVE  /\ Genuine(text[k]) /\ k < Len(text)
                    /\ IF EndsWith(text[k][1], text[k][2]) THEN IsNewLine(text[k + 1])
                       ELSE text[k + 1] = Byte(text[k][1], text[k][2] + 1)
                    /\ k = 1 \/ IsNewLine(text[k - 1]) =>
                         BeginsAfter(text[k][1], text[k][2] - 1) /\ Mine(text[k][1], text[k][2])
  BY DEF Whole
<1>1. PICK f, p : LineByte(text, k, f, p)
  OBVIOUS
<1>2. f \in DOMAIN dir /\ p \in 1 .. Len(dir[f]) /\ text[k] = Byte(f, p)
  BY <1>1 DEF LineByte
<1>3. Genuine(text[k]) /\ text[k][1] = f /\ text[k][2] = p
  BY <1>2, FileBytes
<1> QED
  BY <1>1, <1>3 DEF LineByte

LEMMA WholeJoined ==
  ASSUME DirFixed, NEW s \in Seq(Bytes), NEW t \in Seq(Bytes), Whole(s), Whole(t)
  PROVE  Whole(s \o t)
<1> DEFINE u == s \o t
<1>1. /\ u \in Seq(Bytes) /\ Len(s) \in Nat /\ Len(t) \in Nat /\ Len(u) = Len(s) + Len(t)
      /\ \A j \in 1 .. Len(s) : u[j] = s[j]
      /\ \A j \in 1 .. Len(t) : u[Len(s) + j] = t[j]
  BY Joined
<1> HIDE DEF u
<1>2. ASSUME NEW k \in 1 .. Len(u), ~IsNewLine(u[k])
      PROVE  \E f, p : LineByte(u, k, f, p)
  <2>1. CASE k \in 1 .. Len(s)
    <3>1. u[k] = s[k] /\ ~IsNewLine(s[k])
      BY <1>1, <1>2, <2>1
    <3>2. PICK f, p : LineByte(s, k, f, p)
      BY <2>1, <3>1, WholeByte
    <3>3. k < Len(s)
      BY <3>2 DEF LineByte
    <3>4. k + 1 \in 1 .. Len(s) /\ (k = 1 \/ k - 1 \in 1 .. Len(s)) /\ k < Len(u)
      BY <1>1, <2>1, <3>3
    <3>5. u[k + 1] = s[k + 1] /\ (k # 1 => u[k - 1] = s[k - 1])
      BY <1>1, <3>4
    <3>6. LineByte(u, k, f, p)
      BY <3>1, <3>2, <3>4, <3>5 DEF LineByte
    <3> QED
      BY <3>6
  <2>2. CASE k \notin 1 .. Len(s)
    <3> DEFINE j == k - Len(s)
    <3>1. j \in 1 .. Len(t) /\ k = Len(s) + j /\ j \in Nat
      BY <1>1, <2>2
    <3>2. u[k] = t[j] /\ ~IsNewLine(t[j])
      BY <1>1, <1>2, <3>1
    <3> HIDE DEF j
    <3>3. PICK f, p : LineByte(t, j, f, p)
      BY <3>1, <3>2, WholeByte
    <3>4. j < Len(t)
      BY <3>3 DEF LineByte
    <3>5. j + 1 \in 1 .. Len(t) /\ k + 1 = Len(s) + (j + 1) /\ k < Len(u)
      <4>1. Len(s) \in Nat /\ Len(t) \in Nat /\ Len(u) = Len(s) + Len(t)
        BY <1>1
      <4> QED
        BY <3>1, <3>4, <4>1
    <3>6. u[k + 1] = t[j + 1]
      BY <1>1, <3>5
    <3>7. ASSUME k = 1 \/ IsNewLine(u[k - 1]) PROVE j = 1 \/ IsNewLine(t[j - 1])
      <4> SUFFICES ASSUME j # 1 PROVE IsNewLine(t[j - 1])
        OBVIOUS
      <4>1. j - 1 \in 1 .. Len(t) /\ k - 1 = Len(s) + (j - 1) /\ k # 1
        BY <1>1, <3>1
      <4>2. u[k - 1] = t[j - 1]
        BY <1>1, <4>1
      <4> QED
        BY <3>7, <4>1, <4>2
    <3>8. LineByte(u, k, f, p)
      BY <3>2, <3>3, <3>5, <3>6, <3>7 DEF LineByte
    <3> QED
      BY <3>8
  <2> QED
    BY <2>1, <2>2
<1> QED
  BY <1>2, WholeIf DEF u

LEMMA SortedJoined ==
  ASSUME NEW s \in Seq(Bytes), NEW t \in Seq(Bytes), Sorted(s), Sorted(t), Precedes(s, t)
  PROVE  Sorted(s \o t)
<1> DEFINE u == s \o t
<1>1. /\ u \in Seq(Bytes) /\ Len(s) \in Nat /\ Len(t) \in Nat /\ Len(u) = Len(s) + Len(t)
      /\ \A j \in 1 .. Len(s) : u[j] = s[j]
      /\ \A j \in 1 .. Len(t) : u[Len(s) + j] = t[j]
  BY Joined
<1> HIDE DEF u
<1>2. ASSUME NEW i \in 1 .. Len(u), NEW j \in 1 .. Len(u), i < j, SameFile(u[i], u[j])
      PROVE  u[i][2] < u[j][2]
  <2>1. CASE j \in 1 .. Len(s)
    <3>1. i \in 1 .. Len(s)
      BY <1>1, <1>2, <2>1
    <3>2. u[i] = s[i] /\ u[j] = s[j]
      BY <1>1, <2>1, <3>1
    <3> QED
      BY <1>2, <2>1, <3>1, <3>2 DEF Sorted
  <2>2. CASE j \notin 1 .. Len(s) /\ i \in 1 .. Len(s)
    <3>1. j - Len(s) \in 1 .. Len(t) /\ j = Len(s) + (j - Len(s))
      BY <1>1, <2>2
    <3>2. u[i] = s[i] /\ u[j] = t[j - Len(s)]
      BY <1>1, <2>2, <3>1
    <3> QED
      BY <1>2, <2>2, <3>1, <3>2 DEF Precedes
  <2>3. CASE j \notin 1 .. Len(s) /\ i \notin 1 .. Len(s)
    <3>1. /\ j - Len(s) \in 1 .. Len(t) /\ j = Len(s) + (j - Len(s))
          /\ i - Len(s) \in 1 .. Len(t) /\ i = Len(s) + (i - Len(s)) /\ i - Len(s) < j - Len(s)
      BY <1>1, <1>2, <2>3
    <3>2. u[i] = t[i - Len(s)] /\ u[j] = t[j - Len(s)]
      BY <1>1, <3>1
    <3> QED
      BY <1>2, <3>1, <3>2 DEF Sorted
  <2> QED
    BY <2>1, <2>2, <2>3
<1> QED
  BY <1>2 DEF Sorted, u

LEMMA PrecedesJoined ==
  ASSUME NEW s \in Seq(Bytes), NEW t \in Seq(Bytes), NEW v, Precedes(s, v), Precedes(t, v)
  PROVE  Precedes(s \o t, v)
<1> DEFINE u == s \o t
<1>1. /\ Len(s) \in Nat /\ Len(t) \in Nat /\ Len(u) = Len(s) + Len(t)
      /\ \A j \in 1 .. Len(s) : u[j] = s[j]
      /\ \A j \in 1 .. Len(t) : u[Len(s) + j] = t[j]
  BY Joined
<1> HIDE DEF u
<1>2. ASSUME NEW i \in 1 .. Len(u), NEW j \in 1 .. Len(v), SameFile(u[i], v[j])
      PROVE  u[i][2] < v[j][2]
  <2>1. CASE i \in 1 .. Len(s)
    BY <1>1, <1>2, <2>1 DEF Precedes
  <2>2. CASE i \notin 1 .. Len(s)
    <3>1. i - Len(s) \in 1 .. Len(t) /\ i = Len(s) + (i - Len(s))
      BY <1>1, <2>2
    <3>2. u[i] = t[i - Len(s)]
      BY <1>1, <3>1
    <3> QED
      BY <1>2, <3>1, <3>2 DEF Precedes
  <2> QED
    BY <2>1, <2>2
<1> QED
  BY <1>2 DEF Precedes, u

LEMMA TextOfFile ==
  ASSUME DirFixed, NEW f \in DOMAIN dir
  PROVE  /\ FileText(dir, f) \in Seq(Bytes) /\ Len(FileText(dir, f)) = Len(dir[f])
         /\ \A k \in 1 .. Len(FileText(dir, f)) : FileText(dir, f)[k] = Byte(f, k)
<1> DEFINE b == BytesAt(dir, f, 0, Len(dir[f]))
<1>1. dir \in Seq(Seq(Kinds)) /\ 0 \in Nat /\ Len(dir[f]) \in Nat
  BY FixedSharable, FileBytes
<1>2. 0 <= Len(dir[f])
  BY <1>1
<1>3. /\ b \in Seq(Bytes) /\ Len(b) \in Nat /\ Len(b) = Least(Len(dir[f]), Len(dir[f]) - 0)
      /\ \A k \in 1 .. Len(b) : b[k] = <<f, 0 + k, dir[f][0 + k]>>
  BY <1>1, <1>2, BytesOfFile
<1>4. FileText(dir, f) = b
  BY DEF FileText
<1> HIDE DEF b
<1>5. Len(b) = Len(dir[f])
  BY <1>1, <1>3 DEF Least
<1>6. \A k \in 1 .. Len(b) : 0 + k = k
  BY <1>3
<1> QED
  BY <1>3, <1>4, <1>5, <1>6 DEF Byte

\* A line of a text of whole lines is a line of a file that falls to this reader.
LEMMA LineOfFile ==
  ASSUME DirFixed, NEW text \in Seq(Bytes), Whole(text), NEW m \in LineStarts(text)
  PROVE  LET f == text[m][1] p == text[m][2] IN
         /\ LineByte(text, m, f, p) /\ BeginsAfter(f, p - 1) /\ Mine(f, p)
         /\ LineAt(text, m) = LineAt(FileText(dir, f), p)
         /\ LineAt(text, m) \in Seq(Bytes) /\ Len(LineAt(text, m)) > 0 /\ LineAt(text, m)[1] = text[m]
<1> DEFINE f == text[m][1]
           p == text[m][2]
           t == FileText(dir, f)
           e == LineEnd(text, m)
<1>1. m \in 1 .. Len(text) /\ ~IsNewLine(text[m]) /\ (m = 1 \/ IsNewLine(text[m - 1]))
  BY LinesBegin
<1>2. LineByte(text, m, f, p) /\ BeginsAfter(f, p - 1) /\ Mine(f, p)
  BY <1>1, WholeByte DEF LineByte
<1>3. f \in DOMAIN dir /\ p \in 1 .. Len(dir[f])
  BY <1>2 DEF LineByte
<1>4. /\ e \in m .. Len(text) /\ \A j \in m .. e : ~IsNewLine(text[j])
      /\ e = Len(text) \/ IsNewLine(text[e + 1])
      /\ LineAt(text, m) \in Seq(Bytes) /\ Len(LineAt(text, m)) = e - m + 1
      /\ \A j \in 1 .. e - m + 1 : LineAt(text, m)[j] = text[m + j - 1]
  BY <1>1, LineIs
<1>5. Len(text) \in Nat /\ Len(dir[f]) \in Nat
  BY <1>3, LenProperties, FileBytes
<1>6. /\ t \in Seq(Bytes) /\ Len(t) = Len(dir[f])
      /\ \A k \in 1 .. Len(t) : t[k] = Byte(f, k)
  <2>1. f \in DOMAIN dir
    BY <1>3
  <2> HIDE DEF f
  <2> QED
    BY <2>1, TextOfFile
<1> HIDE DEF f, p, t, e
<1>7. \A j \in 0 .. e - m : p + j <= Len(dir[f]) /\ text[m + j] = Byte(f, p + j)
  <2> DEFINE T == {j \in 0 .. e - m : ~(p + j <= Len(dir[f]) /\ text[m + j] = Byte(f, p + j))}
  <2> SUFFICES ASSUME T # {} PROVE FALSE
    OBVIOUS
  <2>1. PICK j \in T : \A i \in T : j <= i
    <3>1. T \in SUBSET Nat
      OBVIOUS
    <3> QED
      BY <3>1, Smallest
  <2>2. j \in 0 .. e - m /\ ~(p + j <= Len(dir[f]) /\ text[m + j] = Byte(f, p + j))
    OBVIOUS
  <2>3. j # 0
    <3>1. m + 0 = m /\ p + 0 = p
      BY <1>1, <1>3, <1>5
    <3> QED
      BY <1>2, <1>3, <1>5, <2>2, <3>1 DEF LineByte
  <2>4. /\ j - 1 \in 0 .. e - m /\ ~(j <= j - 1) /\ m + (j - 1) \in m .. e
        /\ (m + (j - 1)) + 1 = m + j /\ (p + (j - 1)) + 1 = p + j /\ m + j \in m .. e
        /\ m + (j - 1) \in 1 .. Len(text)
    BY <1>1, <1>3, <1>4, <1>5, <2>2, <2>3
  <2>5. p + (j - 1) <= Len(dir[f]) /\ text[m + (j - 1)] = Byte(f, p + (j - 1))
    BY <2>1, <2>4
  <2>6. p + (j - 1) \in 1 .. Len(dir[f])
    BY <1>3, <1>5, <2>2, <2>3, <2>5
  <2>7. text[m + (j - 1)][1] = f /\ text[m + (j - 1)][2] = p + (j - 1)
    BY <1>3, <2>5, <2>6, FileBytes
  <2>8. LineByte(text, m + (j - 1), f, p + (j - 1))
    BY <1>4, <2>4, <2>7, WholeByte
  <2>9. ~EndsWith(f, p + (j - 1))
    BY <1>4, <2>4, <2>8 DEF LineByte
  <2>10. text[m + j] = Byte(f, p + j) /\ p + (j - 1) # Len(dir[f])
    BY <2>4, <2>8, <2>9 DEF LineByte, EndsWith
  <2> QED
    BY <1>3, <1>5, <2>2, <2>3, <2>6, <2>10
<1>8. p + (e - m) = Len(dir[f]) \/ dir[f][p + (e - m) + 1] = "\n"
  <2>1. e - m \in 0 .. e - m /\ m + (e - m) = e /\ e \in 1 .. Len(text)
    BY <1>1, <1>4, <1>5
  <2>2. p + (e - m) \in 1 .. Len(dir[f]) /\ text[e] = Byte(f, p + (e - m))
    BY <1>3, <1>4, <1>5, <1>7, <2>1
  <2>3. text[e][1] = f /\ text[e][2] = p + (e - m)
    BY <1>3, <2>2, FileBytes
  <2>4. LineByte(text, e, f, p + (e - m))
    BY <1>4, <2>1, <2>3, WholeByte
  <2>5. IsNewLine(text[e + 1])
    BY <1>4, <2>4 DEF LineByte
  <2> SUFFICES ASSUME ~EndsWith(f, p + (e - m)) PROVE FALSE
    BY DEF EndsWith
  <2>6. text[e + 1] = Byte(f, p + (e - m) + 1) /\ p + (e - m) # Len(dir[f])
        /\ dir[f][p + (e - m) + 1] # "\n"
    BY <2>4 DEF LineByte, EndsWith
  <2>7. p + (e - m) + 1 \in 1 .. Len(dir[f])
    BY <1>5, <2>2, <2>6
  <2> QED
    BY <1>3, <2>5, <2>6, <2>7, FileBytes
<1> DEFINE n == e - m
<1>9. n \in Nat /\ m + n = e /\ m + n <= Len(text) /\ p + n <= Len(t) /\ p \in 1 .. Len(t)
  <2>1. n \in 0 .. e - m /\ n \in Nat
    BY <1>1, <1>4, <1>5
  <2> QED
    BY <1>1, <1>3, <1>4, <1>5, <1>6, <1>7, <2>1
<1>10. \A j \in 0 .. n : text[m + j] = t[p + j] /\ ~IsNewLine(text[m + j])
  <2>1. ASSUME NEW j \in 0 .. n PROVE text[m + j] = t[p + j] /\ ~IsNewLine(text[m + j])
    <3>1. p + j \in 1 .. Len(t) /\ m + j \in m .. e
      BY <1>1, <1>3, <1>4, <1>5, <1>6, <1>7
    <3> QED
      BY <1>4, <1>6, <1>7, <3>1
  <2> QED
    BY <2>1
<1>11. p + n = Len(t) \/ IsNewLine(t[p + n + 1])
  <2> SUFFICES ASSUME p + n # Len(t) PROVE IsNewLine(t[p + n + 1])
    OBVIOUS
  <2>1. p + n + 1 \in 1 .. Len(t)
    BY <1>3, <1>5, <1>6, <1>9
  <2>2. dir[f][p + n + 1] = "\n"
    BY <1>6, <1>8
  <2> QED
    BY <1>3, <1>6, <2>1, <2>2, FileBytes
<1>12. m + n = Len(text) \/ IsNewLine(text[m + n + 1])
  BY <1>4, <1>9
<1>13. LineAt(text, m) = LineAt(t, p)
  <2> HIDE DEF n
  <2> QED
    BY <1>1, <1>6, <1>9, <1>10, <1>11, <1>12, SameLine, ZenonT(60)
<1>14. Len(LineAt(text, m)) > 0 /\ LineAt(text, m)[1] = text[m]
  <2>1. 1 \in 1 .. e - m + 1 /\ m + 1 - 1 = m /\ e - m + 1 > 0
    BY <1>1, <1>4, <1>5
  <2> QED
    BY <1>4, <2>1
<1> QED
  BY <1>2, <1>4, <1>13, <1>14 DEF f, p, t

(***************************************************************************)
(* Stretches of a file.                                                    *)
(***************************************************************************)
Stretch(f, a, b) == BytesAt(dir, f, a, b - a)

LEMMA StretchIs ==
  ASSUME DirFixed, NEW f \in DOMAIN dir, NEW a \in Nat, NEW b \in Nat, a <= b, b <= Len(dir[f])
  PROVE  /\ Stretch(f, a, b) \in Seq(Bytes) /\ Len(Stretch(f, a, b)) = b - a
         /\ \A k \in 1 .. b - a : Stretch(f, a, b)[k] = Byte(f, a + k) /\ a + k \in 1 .. Len(dir[f])
<1> DEFINE n == b - a
           s == BytesAt(dir, f, a, n)
<1>1. dir \in Seq(Seq(Kinds)) /\ Len(dir[f]) \in Nat /\ n \in Nat /\ a <= Len(dir[f])
      /\ n <= Len(dir[f]) - a
  BY FixedSharable, FileBytes
<1> HIDE DEF n
<1>2. /\ s \in Seq(Bytes) /\ Len(s) = Least(n, Len(dir[f]) - a)
      /\ \A k \in 1 .. Len(s) : s[k] = <<f, a + k, dir[f][a + k]>> /\ a + k \in 1 .. Len(dir[f])
  <2>1. dir \in Seq(Seq(Kinds)) /\ n \in Nat /\ a <= Len(dir[f])
    BY <1>1
  <2>2. /\ BytesAt(dir, f, a, n) \in Seq(Bytes)
        /\ Len(BytesAt(dir, f, a, n)) = Least(n, Len(dir[f]) - a)
        /\ \A k \in 1 .. Len(BytesAt(dir, f, a, n)) :
             /\ BytesAt(dir, f, a, n)[k] = <<f, a + k, dir[f][a + k]>>
             /\ a + k \in 1 .. Len(dir[f])
    BY <2>1, BytesOfFile, SMTT(30)
  <2> QED
    BY <2>2
<1>3. Stretch(f, a, b) = s
  BY DEF Stretch, n
<1> HIDE DEF s
<1>4. Len(s) = n
  BY <1>1, <1>2 DEF Least
<1> QED
  BY <1>2, <1>3, <1>4 DEF Byte, n

\* A text with these bytes is that stretch.
LEMMA IsStretch ==
  ASSUME DirFixed, NEW f \in DOMAIN dir, NEW a \in Nat, NEW b \in Nat, a <= b, b <= Len(dir[f]),
         NEW s \in Seq(Bytes), Len(s) = b - a, \A k \in 1 .. b - a : s[k] = Byte(f, a + k)
  PROVE  s = Stretch(f, a, b)
<1>1. /\ Stretch(f, a, b) \in Seq(Bytes) /\ Len(Stretch(f, a, b)) = b - a
      /\ \A k \in 1 .. b - a : Stretch(f, a, b)[k] = Byte(f, a + k)
  BY StretchIs
<1>2. Len(s) = Len(Stretch(f, a, b)) /\ \A k \in 1 .. Len(s) : s[k] = Stretch(f, a, b)[k]
  BY <1>1
<1> QED
  BY <1>1, <1>2, SeqEqual

LEMMA StretchEmpty ==
  ASSUME DirFixed, NEW f \in DOMAIN dir, NEW a \in Nat, a <= Len(dir[f])
  PROVE  Stretch(f, a, a) = <<>>
<1>1. <<>> \in Seq(Bytes) /\ Len(<<>>) = a - a /\ a <= a /\ \A k \in 1 .. a - a : <<>>[k] = Byte(f, a + k)
  <2>1. a - a = 0 /\ a <= a
    OBVIOUS
  <2> QED
    BY <2>1, EmptySeq
<1> QED
  BY <1>1, IsStretch

LEMMA StretchJoined ==
  ASSUME DirFixed, NEW f \in DOMAIN dir, NEW a \in Nat, NEW b \in Nat, NEW c \in Nat,
         a <= b, b <= c, c <= Len(dir[f])
  PROVE  Stretch(f, a, b) \o Stretch(f, b, c) = Stretch(f, a, c)
<1> DEFINE s == Stretch(f, a, b)
           t == Stretch(f, b, c)
<1>1. a <= c /\ b <= Len(dir[f]) /\ Len(dir[f]) \in Nat
  BY FileBytes
<1>2. /\ s \in Seq(Bytes) /\ Len(s) = b - a /\ t \in Seq(Bytes) /\ Len(t) = c - b
      /\ \A k \in 1 .. b - a : s[k] = Byte(f, a + k)
      /\ \A k \in 1 .. c - b : t[k] = Byte(f, b + k)
  BY <1>1, StretchIs
<1> HIDE DEF s, t
<1>3. /\ s \o t \in Seq(Bytes) /\ Len(s \o t) = Len(s) + Len(t)
      /\ \A j \in 1 .. Len(s) : (s \o t)[j] = s[j]
      /\ \A j \in 1 .. Len(t) : (s \o t)[Len(s) + j] = t[j]
  <2>1. s \in Seq(Bytes) /\ t \in Seq(Bytes)
    BY <1>2
  <2> QED
    BY <2>1, Joined
<1>4. Len(s \o t) = c - a
  <2>1. Len(s \o t) = (b - a) + (c - b)
    BY <1>2, <1>3
  <2> QED
    BY <2>1
<1>5. ASSUME NEW k \in 1 .. c - a PROVE (s \o t)[k] = Byte(f, a + k)
  <2>1. CASE k <= b - a
    <3>1. k \in 1 .. b - a
      BY <2>1
    <3> QED
      BY <1>2, <1>3, <3>1
  <2>2. CASE ~(k <= b - a)
    <3>1. k - (b - a) \in 1 .. c - b /\ k = (b - a) + (k - (b - a)) /\ b + (k - (b - a)) = a + k
      BY <2>2
    <3>2. (s \o t)[(b - a) + (k - (b - a))] = t[k - (b - a)]
      BY <1>2, <1>3, <3>1
    <3>3. t[k - (b - a)] = Byte(f, b + (k - (b - a)))
      BY <1>2, <3>1
    <3> QED
      BY <3>1, <3>2, <3>3
  <2> QED
    BY <2>1, <2>2
<1>6. s \o t = Stretch(f, a, c)
  BY <1>1, <1>3, <1>4, <1>5, IsStretch
<1> QED
  BY <1>6 DEF s, t

LEMMA StretchCut ==
  ASSUME DirFixed, NEW f \in DOMAIN dir, NEW a \in Nat, NEW b \in Nat, NEW c \in Nat,
         a <= b, b <= c, c <= Len(dir[f])
  PROVE  /\ SubSeq(Stretch(f, a, c), 1, b - a) = Stretch(f, a, b)
         /\ After(Stretch(f, a, c), b - a) = Stretch(f, b, c)
<1> DEFINE s == Stretch(f, a, c)
           k == b - a
<1>1. a <= c /\ b <= Len(dir[f]) /\ Len(dir[f]) \in Nat
  BY FileBytes
<1>2. s \in Seq(Bytes) /\ Len(s) = c - a /\ \A j \in 1 .. c - a : s[j] = Byte(f, a + j)
  BY <1>1, StretchIs
<1> HIDE DEF s
<1>3. k \in 0 .. Len(s) /\ k \in Nat
  BY <1>2
<1>4. /\ SubSeq(s, 1, k) \in Seq(Bytes) /\ Len(SubSeq(s, 1, k)) = k
      /\ \A j \in 1 .. k : SubSeq(s, 1, k)[j] = s[j]
  BY <1>2, <1>3, Prefix
<1>5. /\ After(s, k) \in Seq(Bytes) /\ Len(After(s, k)) = Len(s) - k
      /\ \A j \in 1 .. Len(s) - k : After(s, k)[j] = s[k + j]
  BY <1>2, <1>3, Suffix
<1>6. \A j \in 1 .. k : SubSeq(s, 1, k)[j] = Byte(f, a + j)
  <2>1. \A j \in 1 .. k : j \in 1 .. c - a
    OBVIOUS
  <2> QED
    BY <1>2, <1>4, <2>1
<1>7. Len(After(s, k)) = c - b
  BY <1>2, <1>5
<1>8. \A j \in 1 .. c - b : After(s, k)[j] = Byte(f, b + j)
  <2>1. \A j \in 1 .. c - b : j \in 1 .. Len(s) - k /\ k + j \in 1 .. c - a /\ a + (k + j) = b + j
    BY <1>2
  <2> HIDE DEF k
  <2> QED
    BY <1>2, <1>5, <2>1
<1>9. SubSeq(s, 1, k) = Stretch(f, a, b)
  BY <1>1, <1>4, <1>6, IsStretch
<1>10. After(s, k) = Stretch(f, b, c)
  BY <1>1, <1>5, <1>7, <1>8, IsStretch
<1> QED
  BY <1>9, <1>10 DEF s

LEMMA StretchBreaks ==
  ASSUME DirFixed, NEW f \in DOMAIN dir, NEW a \in Nat, NEW b \in Nat, a <= b, b <= Len(dir[f]), NEW k
  PROVE  k \in NewLines(Stretch(f, a, b)) <=> k \in 1 .. b - a /\ dir[f][a + k] = "\n"
<1> DEFINE s == Stretch(f, a, b)
<1>1. /\ s \in Seq(Bytes) /\ Len(s) = b - a
      /\ \A j \in 1 .. b - a : s[j] = Byte(f, a + j) /\ a + j \in 1 .. Len(dir[f])
  BY StretchIs
<1> HIDE DEF s
<1>2. /\ NewLines(s) \in SUBSET (1 .. Len(s))
      /\ \A j \in 1 .. Len(s) : j \in NewLines(s) <=> IsNewLine(s[j])
  BY <1>1, LineBreaks
<1>3. ASSUME k \in 1 .. b - a PROVE IsNewLine(s[k]) <=> dir[f][a + k] = "\n"
  BY <1>1, <1>3, FileBytes, SMTT(30)
<1> QED
  BY <1>1, <1>2, <1>3 DEF s

(***************************************************************************)
(* What is pushed of a stretch that begins and ends at a line break.       *)
(***************************************************************************)
IsStart(f, p) == dir[f][p] # "\n" /\ BeginsAfter(f, p - 1)
EndsLine(f, b) == dir[f][b] = "\n" \/ EndsWith(f, b)

\* A text that has been made from it.
HandedOn(text, f, a, b) ==
  /\ text \in Seq(Bytes) /\ text # <<>> /\ Whole(text) /\ Sorted(text)
  /\ \A m \in 1 .. Len(text) : ~IsNewLine(text[m]) => text[m][1] = f /\ text[m][2] \in a + 1 .. b
  /\ \A p \in a + 1 .. b : dir[f][p] # "\n" => Holds(text, f, p)

LEMMA LinesHandedOn ==
  ASSUME DirFixed, NEW f \in DOMAIN dir, NEW a \in Nat, NEW b \in Nat, a < b, b <= Len(dir[f]),
         BeginsAfter(f, a), EndsLine(f, b), \A p \in a + 1 .. b : IsStart(f, p) => Mine(f, p),
         NEW text \in Seq(Bytes), Len(text) \in {b - a, b - a + 1}, IsNewLine(text[Len(text)]),
         \A k \in 1 .. b - a : text[k] = Byte(f, a + k)
  PROVE  HandedOn(text, f, a, b)
<1>0. Len(text) \in Nat /\ Len(dir[f]) \in Nat /\ b - a \in Nat
  BY FileBytes, LenProperties
<1>1. ASSUME NEW k \in 1 .. b - a
      PROVE  /\ a + k \in 1 .. Len(dir[f]) /\ text[k][1] = f /\ text[k][2] = a + k
             /\ IsNewLine(text[k]) <=> dir[f][a + k] = "\n"
  <2>1. a + k \in 1 .. Len(dir[f]) /\ text[k] = Byte(f, a + k)
    BY <1>0
  <2> QED
    BY <2>1, FileBytes
<1>2. ASSUME NEW k \in 1 .. Len(text), ~IsNewLine(text[k]) PROVE k \in 1 .. b - a /\ k < Len(text)
  <2>1. k # Len(text)
    BY <1>2
  <2> QED
    BY <1>0, <2>1
<1>3. ASSUME NEW k \in 1 .. Len(text), ~IsNewLine(text[k]) PROVE LineByte(text, k, f, a + k)
  <2> DEFINE p == a + k
  <2>1. k \in 1 .. b - a /\ k < Len(text)
    BY <1>2, <1>3
  <2>2. /\ p \in 1 .. Len(dir[f]) /\ text[k] = Byte(f, p) /\ dir[f][p] # "\n"
    BY <1>1, <1>3, <2>1
  <2>3. ASSUME EndsWith(f, p) PROVE IsNewLine(text[k + 1])
    <3>1. CASE k = b - a
      <4>1. k + 1 = Len(text)
        BY <1>0, <2>1, <3>1
      <4> QED
        BY <4>1
    <3>2. CASE k # b - a
      <4>1. k + 1 \in 1 .. b - a /\ p # Len(dir[f]) /\ a + (k + 1) = p + 1
        BY <1>0, <2>1, <3>2
      <4>2. dir[f][p + 1] = "\n"
        BY <2>3, <4>1 DEF EndsWith
      <4> QED
        BY <1>1, <4>1, <4>2
    <3> QED
      BY <3>1, <3>2
  <2>4. ASSUME ~EndsWith(f, p) PROVE text[k + 1] = Byte(f, p + 1)
    <3>1. k # b - a
      <4> SUFFICES ASSUME k = b - a PROVE FALSE
        OBVIOUS
      <4>1. p = b
        BY <1>0
      <4> QED
        BY <2>2, <2>4, <4>1 DEF EndsLine
    <3>2. k + 1 \in 1 .. b - a /\ a + (k + 1) = p + 1
      BY <1>0, <2>1, <3>1
    <3>3. text[k + 1] = Byte(f, a + (k + 1))
      BY <3>2
    <3> QED
      BY <3>2, <3>3
  <2>5. ASSUME k = 1 \/ IsNewLine(text[k - 1]) PROVE BeginsAfter(f, p - 1) /\ Mine(f, p)
    <3>1. BeginsAfter(f, p - 1)
      <4>1. CASE k = 1
        <5>1. p - 1 = a
          BY <4>1
        <5> QED
          BY <5>1
      <4>2. CASE k # 1
        <5>1. k - 1 \in 1 .. b - a /\ a + (k - 1) = p - 1
          BY <1>0, <2>1, <4>2
        <5>2. dir[f][p - 1] = "\n"
          BY <1>1, <2>5, <4>2, <5>1
        <5> QED
          BY <5>2 DEF BeginsAfter
      <4> QED
        BY <4>1, <4>2
    <3>2. p \in a + 1 .. b
      BY <1>0, <2>1
    <3>3. IsStart(f, p)
      BY <2>2, <3>1 DEF IsStart
    <3> QED
      BY <3>1, <3>2, <3>3
  <2> HIDE DEF p
  <2>6. LineByte(text, k, f, p)
    BY <2>1, <2>2, <2>3, <2>4, <2>5 DEF LineByte
  <2> QED
    BY <2>6 DEF p
<1>4. Whole(text)
  <2>1. \A k \in 1 .. Len(text) : ~IsNewLine(text[k]) => \E g, p : LineByte(text, k, g, p)
    BY <1>3
  <2> QED
    BY <2>1, WholeIf
<1>5. Sorted(text)
  <2> SUFFICES ASSUME NEW i \in 1 .. Len(text), NEW j \in 1 .. Len(text), i < j,
                      SameFile(text[i], text[j])
               PROVE  text[i][2] < text[j][2]
    BY DEF Sorted
  <2>1. i \in 1 .. b - a /\ j \in 1 .. b - a
    BY <1>2 DEF SameFile
  <2>2. text[i][2] = a + i /\ text[j][2] = a + j
    BY <1>1, <2>1
  <2> QED
    BY <2>1, <2>2
<1>6. ASSUME NEW m \in 1 .. Len(text), ~IsNewLine(text[m])
      PROVE  text[m][1] = f /\ text[m][2] \in a + 1 .. b
  <2>1. m \in 1 .. b - a
    BY <1>2, <1>6
  <2>2. text[m][1] = f /\ text[m][2] = a + m
    BY <1>1, <2>1
  <2>3. a + m \in a + 1 .. b
    BY <2>1
  <2> QED
    BY <2>2, <2>3
<1>7. ASSUME NEW p \in a + 1 .. b PROVE Holds(text, f, p)
  <2>1. p - a \in 1 .. b - a /\ a + (p - a) = p
    BY <1>7
  <2>2. p - a \in 1 .. Len(text)
    BY <1>0, <2>1
  <2>3. text[p - a] = Byte(f, p)
    BY <2>1
  <2> QED
    BY <2>2, <2>3 DEF Holds
<1>8. text # <<>>
  <2>1. Len(text) > 0
    BY <1>0
  <2> QED
    BY <2>1
<1> QED
  BY <1>4, <1>5, <1>6, <1>7, <1>8 DEF HandedOn

LEMMA PushedIs ==
  ASSUME DirFixed, NEW f \in DOMAIN dir, NEW a \in Nat, NEW b \in Nat, a <= b, b <= Len(dir[f]),
         a < b => BeginsAfter(f, a) /\ EndsLine(f, b),
         \A p \in a + 1 .. b : IsStart(f, p) => Mine(f, p)
  PROVE  \/ a = b /\ Pushed(Stretch(f, a, b)) = <<>>
         \/ \E text : Pushed(Stretch(f, a, b)) = <<text>> /\ HandedOn(text, f, a, b)
<1> DEFINE s == Stretch(f, a, b)
<1>1. s \in Seq(Bytes) /\ Len(s) = b - a /\ \A k \in 1 .. b - a : s[k] = Byte(f, a + k)
  BY StretchIs
<1>2. CASE a = b
  BY <1>2, StretchEmpty DEF Pushed
<1>3. CASE a < b
  <2> HIDE DEF s
  <2>1. s # <<>>
    BY <1>1, <1>3, EmptySeq
  <2>2. CASE IsNewLine(s[Len(s)])
    <3>1. HandedOn(s, f, a, b)
      BY <1>1, <1>3, <2>2, LinesHandedOn
    <3> QED
      BY <2>1, <2>2, <3>1 DEF Pushed, s
  <2>3. CASE ~IsNewLine(s[Len(s)])
    <3> DEFINE u == Append(s, NewLine)
    <3>1. /\ u \in Seq(Bytes) /\ Len(u) = Len(s) + 1 /\ \A i \in 1 .. Len(s) : u[i] = s[i]
          /\ u[Len(s) + 1] = NewLine
      BY <1>1, NewLineByte, AppendProperties
    <3>2. IsNewLine(u[Len(u)]) /\ Len(u) \in {b - a, b - a + 1} /\ \A k \in 1 .. b - a : u[k] = Byte(f, a + k)
      BY <1>1, <3>1, NewLineByte
    <3>3. HandedOn(u, f, a, b)
      <4> HIDE DEF u
      <4> QED
        BY <1>3, <3>1, <3>2, LinesHandedOn
    <3> QED
      BY <2>1, <2>3, <3>3 DEF Pushed, s
  <2> QED
    BY <2>2, <2>3
<1> QED
  BY <1>2, <1>3

(***************************************************************************)
(* A round of a task.                                                      *)
(***************************************************************************)
LEMMA TaskIs ==
  ASSUME DirFixed, NEW t \in Tasks, TaskOK(t), ~t.finished
  PROVE  /\ t.file \in DOMAIN dir /\ Len(dir[t.file]) \in Nat
         /\ t.off \in Nat /\ t.size \in Nat /\ t.bytes_read \in Nat /\ Len(t.left_over) \in Nat
         /\ t.left_over \in Seq(Bytes)
         /\ Done(t) \in Nat /\ t.off <= Done(t) /\ Done(t) <= t.off + t.bytes_read
         /\ t.bytes_read <= t.size /\ t.off + t.size <= Len(dir[t.file])
         /\ t.left_over = Stretch(t.file, Done(t), t.off + t.bytes_read)
         /\ RoundSize(t) \in Nat /\ t.bytes_read + RoundSize(t) <= t.size
         /\ RoundSize(t) = 0 => Len(dir[t.file]) = 0
<1>1. /\ t.off \in Nat /\ t.size \in Nat /\ t.bytes_read \in Nat /\ t.left_over \in Seq(Bytes)
      /\ t.file \in Nat
  BY DEF Tasks
<1>2. t.file \in DOMAIN dir /\ t.off + t.size <= Len(dir[t.file]) /\ IsMyRange(t) /\ Loop(t)
  BY DEF TaskOK
<1>3. Len(t.left_over) \in Nat /\ Len(dir[t.file]) \in Nat
  BY <1>1, <1>2, LenProperties, FileBytes
<1>4. /\ t.bytes_read = 0 \/ t.bytes_read < t.size
      /\ t.off <= Done(t)
      /\ t.left_over = BytesAt(dir, t.file, Done(t), Len(t.left_over))
  BY <1>2 DEF Loop
<1>5. Done(t) = t.off + t.bytes_read - Len(t.left_over)
  BY DEF Done
<1>6. /\ Done(t) \in Nat /\ Done(t) <= t.off + t.bytes_read
      /\ (t.off + t.bytes_read) - Done(t) = Len(t.left_over) /\ t.bytes_read <= t.size
  <2>1. t.off \in Nat /\ t.size \in Nat /\ t.bytes_read \in Nat /\ Len(t.left_over) \in Nat
    BY <1>1, <1>3
  <2>2. (t.bytes_read = 0 \/ t.bytes_read < t.size) /\ t.off <= Done(t)
    BY <1>4
  <2> DEFINE o == t.off b == t.bytes_read n == Len(t.left_over) D == Done(t) z == t.size
  <2>3. o \in Nat /\ b \in Nat /\ n \in Nat /\ z \in Nat /\ D = o + b - n /\ o <= D /\ (b = 0 \/ b < z)
    BY <1>5, <2>1, <2>2
  <2> HIDE DEF o, b, n, D, z
  <2>4. D \in Nat /\ D <= o + b /\ (o + b) - D = n /\ b <= z
    BY <2>3
  <2> QED
    BY <2>4 DEF o, b, n, D, z
<1>7. t.left_over = Stretch(t.file, Done(t), t.off + t.bytes_read)
  BY <1>4, <1>6 DEF Stretch
<1>8. /\ RoundSize(t) \in Nat /\ t.bytes_read + RoundSize(t) <= t.size
      /\ RoundSize(t) = 0 => t.bytes_read = t.size
  BY <1>1, <1>6, Sizes DEF RoundSize, Least
<1>9. ASSUME RoundSize(t) = 0 PROVE Len(dir[t.file]) = 0
  <2>1. t.size = 0
    BY <1>1, <1>4, <1>8, <1>9
  <2>2. PICK k \in DOMAIN Ranges(dir, my_reader_id, support_seek) :
          Ranges(dir, my_reader_id, support_seek)[k] = FileRange(t.file, t.off, t.size)
    BY <1>2 DEF IsMyRange
  <2>3. Sharable(dir, support_seek) /\ my_reader_id \in 0 .. NReaders - 1
    BY FixedSharable
  <2>4. k \in 1 .. Len(Ranges(dir, my_reader_id, support_seek))
    BY <2>2, <2>3, RangesAre, LenProperties
  <2> DEFINE fr == Ranges(dir, my_reader_id, support_seek)[k]
  <2>5. fr.size > 0 \/ Len(dir[fr.file]) = 0
    BY <2>3, <2>4, RangeFrom
  <2>6. fr.size = t.size /\ fr.file = t.file
    BY <2>2 DEF FileRange
  <2> QED
    BY <2>1, <2>5, <2>6
<1> QED
  BY <1>1, <1>2, <1>3, <1>4, <1>6, <1>7, <1>8, <1>9

\* A round that has read up to e.
Reached(t) == t.off + t.bytes_read + RoundSize(t)

LEMMA ReadIs ==
  ASSUME DirFixed, NEW t \in Tasks, TaskOK(t), ~t.finished
  PROVE  /\ Reached(t) \in Nat /\ Done(t) <= Reached(t) /\ Reached(t) <= Len(dir[t.file])
         /\ Reached(t) <= t.off + t.size
         /\ LastRound(t) => Reached(t) = t.off + t.size
         /\ ~LastRound(t) => t.bytes_read + RoundSize(t) < t.size
         /\ Read(dir, t) = Stretch(t.file, Done(t), Reached(t))
<1> DEFINE f == t.file
           b == t.off + t.bytes_read
           e == b + RoundSize(t)
<1>1. /\ f \in DOMAIN dir /\ Len(dir[f]) \in Nat
      /\ t.off \in Nat /\ t.size \in Nat /\ t.bytes_read \in Nat
      /\ Done(t) \in Nat /\ t.off <= Done(t) /\ Done(t) <= b
      /\ t.bytes_read <= t.size /\ t.off + t.size <= Len(dir[f])
      /\ t.left_over = Stretch(f, Done(t), b)
      /\ RoundSize(t) \in Nat /\ t.bytes_read + RoundSize(t) <= t.size
  BY TaskIs
<1>2. b \in Nat /\ e \in Nat /\ b <= e /\ e - b = RoundSize(t) /\ e <= t.off + t.size /\ e <= Len(dir[f])
      /\ Done(t) <= e
  BY <1>1, SMTT(30)
<1>3. Read(dir, t) = Stretch(f, Done(t), b) \o Stretch(f, b, e)
  <2>1. Stretch(f, b, e) = BytesAt(dir, f, b, RoundSize(t))
    BY <1>2 DEF Stretch
  <2> QED
    BY <1>1, <2>1 DEF Read
<1>4. LastRound(t) <=> t.bytes_read + RoundSize(t) = t.size
  BY DEF LastRound
<1>5. Read(dir, t) = Stretch(f, Done(t), e)
  <2>1. f \in DOMAIN dir /\ Done(t) \in Nat /\ b \in Nat /\ e \in Nat /\ Done(t) <= b /\ b <= e
        /\ e <= Len(dir[f])
    BY <1>1, <1>2
  <2> HIDE DEF f, b, e
  <2>2. Stretch(f, Done(t), b) \o Stretch(f, b, e) = Stretch(f, Done(t), e)
    BY <2>1, StretchJoined
  <2> QED
    BY <1>3, <2>2
<1>6. Reached(t) = e
  BY DEF Reached
<1>7. (LastRound(t) => e = t.off + t.size) /\ (~LastRound(t) => t.bytes_read + RoundSize(t) < t.size)
  BY <1>1, <1>4
<1> QED
  BY <1>2, <1>5, <1>6, <1>7

\* The block of a round: what has been read, from the first line on that is to be read.
FromLine(t, a) ==
  /\ a \in Nat /\ Done(t) <= a /\ a <= Reached(t)
  /\ Block(dir, t) = Stretch(t.file, a, Reached(t))
  /\ BeginsAfter(t.file, a) /\ (t.off = 0 \/ t.off < a)
  /\ \A p \in 1 .. Len(dir[t.file]) :
       IsStart(t.file, p) /\ Owns(t, t.file, p) /\ Done(t) < p => a < p

LEMMA BlockIs ==
  ASSUME DirFixed, NEW t \in Tasks, TaskOK(t), ~t.finished, ~StillPartial(dir, t)
  PROVE  \E a : FromLine(t, a)
<1> DEFINE f == t.file
           D == Done(t)
           e == Reached(t)
<1>1. /\ f \in DOMAIN dir /\ Len(dir[f]) \in Nat
      /\ t.off \in Nat /\ t.size \in Nat /\ t.bytes_read \in Nat
      /\ D \in Nat /\ t.off <= D /\ Len(t.left_over) \in Nat
  BY TaskIs
<1>2. /\ e \in Nat /\ D <= e /\ e <= Len(dir[f])
      /\ Read(dir, t) = Stretch(f, D, e)
  BY ReadIs
<1>3. Loop(t)
  BY DEF TaskOK
<1>4. CASE ~Skips(t)
  <2>1. BeginsAfter(f, D) /\ (t.off = 0 \/ t.off < D)
    BY <1>3, <1>4 DEF Loop
  <2>2. Block(dir, t) = Stretch(f, D, e)
    BY <1>2, <1>4 DEF Block
  <2>3. D <= D
    BY <1>1
  <2>4. FromLine(t, D)
    BY <1>1, <1>2, <2>1, <2>2, <2>3 DEF FromLine
  <2> QED
    BY <2>4
<1>5. CASE Skips(t)
  <2> DEFINE R == Read(dir, t)
             x == FirstNewLine(R)
             a == D + x
  <2>1. NewLines(R) # {}
    BY <1>5 DEF StillPartial
  <2>2. R \in Seq(Bytes) /\ Len(R) = e - D
    BY <1>1, <1>2, StretchIs
  <2>3. x \in NewLines(R) /\ \A k \in NewLines(R) : x <= k
    <3> HIDE DEF R
    <3> QED
      BY <2>1, <2>2, LineBreaks
  <2>4. \A k : k \in NewLines(R) <=> k \in 1 .. e - D /\ dir[f][D + k] = "\n"
    <3>1. NewLines(R) = NewLines(Stretch(f, D, e))
      BY <1>2
    <3> HIDE DEF R, f, D, e
    <3> QED
      BY <1>1, <1>2, <3>1, StretchBreaks
  <2>5. Block(dir, t) = After(R, x)
    BY <1>5, <2>1 DEF Block, WithoutHead
  <2>6. /\ t.off # 0 /\ t.left_over = <<>>
        /\ \A p \in t.off + 1 .. t.off + t.bytes_read : dir[f][p] # "\n"
    BY <1>3, <1>5 DEF Loop, Skips
  <2>7. D = t.off + t.bytes_read
    <3>1. Len(t.left_over) = 0
      BY <2>6
    <3> QED
      BY <1>1, <3>1 DEF Done
  <2> HIDE DEF R, x
  <2>8. x \in 1 .. e - D /\ dir[f][a] = "\n"
    BY <2>3, <2>4
  <2>9. /\ a \in Nat /\ D <= a /\ a <= e /\ a - D = x /\ t.off < a /\ a # 0
    BY <1>1, <1>2, <2>8
  <2> HIDE DEF a
  <2>10. Block(dir, t) = Stretch(f, a, e)
    <3> HIDE DEF f, D, e
    <3>1. After(Stretch(f, D, e), a - D) = Stretch(f, a, e)
      BY <1>1, <1>2, <2>9, StretchCut
    <3> QED
      BY <1>2, <2>5, <2>9, <3>1 DEF R
  <2>11. ASSUME NEW p \in 1 .. Len(dir[f]), IsStart(f, p), Owns(t, f, p), D < p
         PROVE  a < p
    <3>1. t.off < p - 1
      BY <2>6, <2>11 DEF Owns
    <3>2. p - 1 # 0 /\ p - 1 \in Nat
      BY <1>1, <3>1
    <3>3. dir[f][p - 1] = "\n"
      BY <2>11, <3>2 DEF IsStart, BeginsAfter
    <3>4. ~(p - 1 <= D)
      <4> SUFFICES ASSUME p - 1 <= D PROVE FALSE
        OBVIOUS
      <4>1. p - 1 \in t.off + 1 .. t.off + t.bytes_read
        BY <1>1, <2>7, <3>1
      <4> QED
        BY <2>6, <3>3, <4>1
    <3>5. CASE p - 1 <= e
      <4>1. p - 1 - D \in 1 .. e - D /\ D + (p - 1 - D) = p - 1
        BY <1>1, <1>2, <3>2, <3>4, <3>5
      <4>2. x <= p - 1 - D
        BY <2>3, <2>4, <3>3, <4>1
      <4> QED
        BY <1>1, <2>8, <2>9, <4>1, <4>2
    <3>6. CASE ~(p - 1 <= e)
      BY <1>1, <1>2, <2>9, <3>6
    <3> QED
      BY <3>5, <3>6
  <2>12. BeginsAfter(f, a)
    BY <2>8 DEF BeginsAfter, a
  <2>13. FromLine(t, a)
    BY <2>9, <2>10, <2>11, <2>12 DEF FromLine
  <2> QED
    BY <2>13
<1> QED
  BY <1>4, <1>5

LEMMA NextIs ==
  ASSUME NEW t \in Tasks
  PROVE  LET u == NextRound(dir, t) IN
         /\ u.file = t.file /\ u.off = t.off /\ u.size = t.size
         /\ u.bytes_read = t.bytes_read + RoundSize(t)
         /\ u.left_over = IF LastRound(t) THEN <<>> ELSE After(Block(dir, t), Cut(Block(dir, t)))
         /\ u.partial_head = StillPartial(dir, t) /\ u.finished = LastRound(t)
         /\ t.bytes_read + RoundSize(t) \in Nat /\ u.left_over \in Seq(Bytes) => u \in Tasks
BY DEF NextRound, Tasks, StillPartial, LastRound, Skips

\* A round hands on the lines of file t.file from place a + 1 to b.
RoundTo(t, a, b) ==
  LET f == t.file u == NextRound(dir, t) IN
  /\ a \in Nat /\ b \in Nat /\ Done(t) <= a /\ a <= b /\ b <= Len(dir[f])
  /\ Lines(dir, t) = Stretch(f, a, b)
  /\ a < b => BeginsAfter(f, a) /\ EndsLine(f, b)
  /\ \A p \in a + 1 .. b : IsStart(f, p) => Owns(t, f, p)
  /\ u \in Tasks /\ u.file = f /\ u.off = t.off /\ u.size = t.size
  /\ ~u.finished => Loop(u) /\ Done(u) \in Nat /\ b <= Done(u)
  /\ \A p \in 1 .. Len(dir[f]) :
       IsStart(f, p) /\ Owns(t, f, p) /\ Done(t) < p => p \in a + 1 .. b \/ Owed(u, f, p)

LEMMA EmptyText ==
  /\ <<>> \in Seq(Bytes) /\ Len(<<>>) = 0 /\ NewLines(<<>>) = {} /\ Cut(<<>>) = 0
  /\ SubSeq(<<>>, 1, 0) = <<>> /\ After(<<>>, 0) = <<>>
<1>1. <<>> \in Seq(Bytes) /\ Len(<<>>) = 0
  BY EmptySeq
<1>2. NewLines(<<>>) = {}
  <2>1. NewLines(<<>>) \in SUBSET (1 .. 0)
    BY <1>1, LineBreaks
  <2> QED
    BY <2>1
<1>3. 0 \in 0 .. Len(<<>>)
  BY <1>1
<1>4. SubSeq(<<>>, 1, 0) \in Seq(Bytes) /\ Len(SubSeq(<<>>, 1, 0)) = 0
  BY <1>1, <1>3, Prefix
<1>5. After(<<>>, 0) \in Seq(Bytes) /\ Len(After(<<>>, 0)) = 0
  <2>1. After(<<>>, 0) \in Seq(Bytes) /\ Len(After(<<>>, 0)) = Len(<<>>) - 0
    BY <1>1, <1>3, Suffix
  <2> QED
    BY <1>1, <2>1
<1>6. ASSUME NEW s \in Seq(Bytes), Len(s) = 0 PROVE s = <<>>
  <2>1. ~(Len(s) \in Nat \ {0})
    BY <1>6
  <2> QED
    BY <2>1, EmptySeq
<1> QED
  BY <1>1, <1>2, <1>4, <1>5, <1>6 DEF Cut

LEMMA PartialRound ==
  ASSUME DirFixed, NEW t \in Tasks, TaskOK(t), ~t.finished, StillPartial(dir, t)
  PROVE  \E a, b : RoundTo(t, a, b)
<1> DEFINE f == t.file
           D == Done(t)
           e == Reached(t)
           u == NextRound(dir, t)
<1>1. /\ f \in DOMAIN dir /\ Len(dir[f]) \in Nat
      /\ t.off \in Nat /\ t.size \in Nat /\ t.bytes_read \in Nat
      /\ D \in Nat /\ t.off <= D /\ RoundSize(t) \in Nat /\ Len(t.left_over) \in Nat
  BY TaskIs
<1>2. /\ e \in Nat /\ D <= e /\ e <= Len(dir[f])
      /\ LastRound(t) => e = t.off + t.size
      /\ ~LastRound(t) => t.bytes_read + RoundSize(t) < t.size
      /\ Read(dir, t) = Stretch(f, D, e)
  BY ReadIs
<1>3. Loop(t) /\ Skips(t) /\ NewLines(Read(dir, t)) = {}
  BY DEF TaskOK, StillPartial
<1>4. /\ t.off # 0 /\ t.left_over = <<>>
      /\ \A p \in t.off + 1 .. t.off + t.bytes_read : dir[f][p] # "\n"
  BY <1>3 DEF Loop, Skips
<1>5. D = t.off + t.bytes_read /\ e = D + RoundSize(t)
  <2>1. Len(t.left_over) = 0
    BY <1>4
  <2> QED
    BY <1>1, <2>1 DEF Done, Reached
<1>6. Block(dir, t) = <<>>
  BY <1>3 DEF Block, WithoutHead
<1>7. Lines(dir, t) = Stretch(f, e, e)
  <2>1. Lines(dir, t) = <<>>
    BY <1>6, EmptyText DEF Lines
  <2>2. Stretch(f, e, e) = <<>>
    BY <1>1, <1>2, StretchEmpty
  <2> QED
    BY <2>1, <2>2
<1>8. /\ u.file = f /\ u.off = t.off /\ u.size = t.size
      /\ u.bytes_read = t.bytes_read + RoundSize(t) /\ u.left_over = <<>>
      /\ u.partial_head /\ u.finished = LastRound(t)
      /\ u \in Tasks
  <2>1. t.bytes_read + RoundSize(t) \in Nat
    BY <1>1
  <2>2. /\ u.file = f /\ u.off = t.off /\ u.size = t.size
        /\ u.bytes_read = t.bytes_read + RoundSize(t)
        /\ u.left_over = IF LastRound(t) THEN <<>> ELSE After(Block(dir, t), Cut(Block(dir, t)))
        /\ u.partial_head = StillPartial(dir, t) /\ u.finished = LastRound(t)
        /\ t.bytes_read + RoundSize(t) \in Nat /\ u.left_over \in Seq(Bytes) => u \in Tasks
    BY NextIs
  <2> HIDE DEF u
  <2>3. u.left_over = <<>>
    BY <1>6, <2>2, EmptyText
  <2>4. u.partial_head
    BY <2>2
  <2> QED
    BY <2>1, <2>2, <2>3, <2>4, EmptyText
<1> HIDE DEF u
<1>9. Done(u) = e
  <2>1. Len(u.left_over) = 0 /\ u.off + u.bytes_read = t.off + (t.bytes_read + RoundSize(t))
    BY <1>8, EmptyText
  <2>2. Done(u) = u.off + u.bytes_read - Len(u.left_over)
    BY DEF Done
  <2>3. t.off + (t.bytes_read + RoundSize(t)) = e /\ e - 0 = e
    BY <1>1, <1>2, <1>5
  <2>4. u.off + u.bytes_read = e /\ e \in Nat
    BY <1>2, <2>1, <2>3
  <2> HIDE DEF e
  <2>5. u.off \in Nat /\ u.bytes_read \in Nat
    BY <1>8 DEF Tasks
  <2> QED
    BY <2>1, <2>2, <2>4, <2>5
<1>10. \A p \in t.off + 1 .. e : dir[f][p] # "\n"
  <2> SUFFICES ASSUME NEW p \in t.off + 1 .. e, dir[f][p] = "\n" PROVE FALSE
    OBVIOUS
  <2>1. CASE p <= D
    <3>1. p \in t.off + 1 .. t.off + t.bytes_read
      BY <1>1, <1>5, <2>1
    <3> QED
      BY <1>4, <3>1
  <2>2. CASE ~(p <= D)
    <3>1. p - D \in 1 .. e - D /\ D + (p - D) = p
      BY <1>1, <1>2, <2>2
    <3>2. p - D \in NewLines(Stretch(f, D, e))
      <4> HIDE DEF D, f, e
      <4> QED
        BY <1>1, <1>2, <3>1, StretchBreaks
    <3> QED
      BY <1>2, <1>3, <3>2
  <2> QED
    BY <2>1, <2>2
<1>11. ASSUME ~u.finished PROVE Loop(u)
  <2>1. u.bytes_read < u.size
    BY <1>2, <1>8, <1>11
  <2>2. u.off <= Done(u)
    BY <1>1, <1>2, <1>8, <1>9
  <2>3. u.left_over = BytesAt(dir, u.file, Done(u), Len(u.left_over)) /\ NewLines(u.left_over) = {}
    <3>1. Stretch(f, e, e) = BytesAt(dir, f, e, 0)
      <4>1. e - e = 0
        BY <1>2
      <4> QED
        BY <4>1 DEF Stretch
    <3>2. Stretch(f, e, e) = <<>>
      BY <1>1, <1>2, StretchEmpty
    <3> QED
      BY <1>8, <1>9, <3>1, <3>2, EmptyText
  <2>4. Skips(u)
    BY <1>4, <1>8 DEF Skips
  <2>5. u.off + u.bytes_read = e
    BY <1>1, <1>5, <1>8
  <2>6. \A p \in u.off + 1 .. u.off + u.bytes_read : dir[u.file][p] # "\n"
    BY <1>8, <1>10, <2>5
  <2> QED
    BY <1>8, <2>1, <2>2, <2>3, <2>4, <2>6 DEF Loop
<1>12. ASSUME NEW p \in 1 .. Len(dir[f]), IsStart(f, p), Owns(t, f, p), D < p
       PROVE  Owed(u, f, p)
  <2>1. t.off < p - 1 /\ p - 1 <= t.off + t.size
    BY <1>4, <1>12 DEF Owns
  <2>2. dir[f][p - 1] = "\n"
    <3>1. p - 1 # 0
      BY <1>1, <2>1
    <3> QED
      BY <1>12, <3>1 DEF IsStart, BeginsAfter
  <2>3. e < p - 1
    <3> SUFFICES ASSUME ~(e < p - 1) PROVE FALSE
      OBVIOUS
    <3>1. p - 1 \in t.off + 1 .. e
      BY <1>1, <1>2, <2>1
    <3> QED
      BY <1>10, <2>2, <3>1
  <2>4. ~LastRound(t)
    BY <1>1, <1>2, <2>1, <2>3
  <2>5. Done(u) < p
    BY <1>2, <1>9, <2>3
  <2>6. Owns(u, f, p)
    BY <1>8, <1>12 DEF Owns
  <2> QED
    BY <1>8, <2>4, <2>5, <2>6 DEF Owed
<1>13. RoundTo(t, e, e)
  <2>1. e <= e /\ ~(e < e) /\ \A p : p \notin e + 1 .. e
    BY <1>2
  <2> QED
    BY <1>1, <1>2, <1>7, <1>8, <1>9, <1>11, <1>12, <2>1 DEF RoundTo, u
<1> QED
  BY <1>13

\* The part of the file that a round hands on begins with lines of its range.
LEMMA FirstIsOwned ==
  ASSUME NEW t \in Tasks, NEW a \in Nat, t.off = 0 \/ t.off < a, NEW p \in Nat, a < p,
         p - 1 <= t.off + t.size
  PROVE  Owns(t, t.file, p)
<1>1. t.off \in Nat
  BY DEF Tasks
<1>2. t.off = 0 \/ t.off < p - 1
  BY <1>1
<1> QED
  BY <1>2 DEF Owns

LEMMA MiddleRound ==
  ASSUME DirFixed, NEW t \in Tasks, TaskOK(t), ~t.finished, ~StillPartial(dir, t), ~LastRound(t),
         NEW a, FromLine(t, a)
  PROVE  \E b : RoundTo(t, a, b)
<1> DEFINE f == t.file
           D == Done(t)
           e == Reached(t)
           u == NextRound(dir, t)
           B == Block(dir, t)
           c == Cut(B)
           b == a + c
<1>1. /\ f \in DOMAIN dir /\ Len(dir[f]) \in Nat
      /\ t.off \in Nat /\ t.size \in Nat /\ t.bytes_read \in Nat
      /\ D \in Nat /\ t.off <= D /\ RoundSize(t) \in Nat
  BY TaskIs
<1>2. /\ e \in Nat /\ D <= e /\ e <= Len(dir[f]) /\ e <= t.off + t.size
      /\ t.bytes_read + RoundSize(t) < t.size
  BY ReadIs
<1>3. /\ a \in Nat /\ D <= a /\ a <= e /\ B = Stretch(f, a, e)
      /\ BeginsAfter(f, a) /\ (t.off = 0 \/ t.off < a)
      /\ \A p \in 1 .. Len(dir[f]) : IsStart(f, p) /\ Owns(t, f, p) /\ D < p => a < p
  BY DEF FromLine
<1>4. B \in Seq(Bytes) /\ Len(B) = e - a /\ \A k : k \in NewLines(B) <=> k \in 1 .. e - a /\ dir[f][a + k] = "\n"
  <2>1. f \in DOMAIN dir /\ a \in Nat /\ e \in Nat /\ a <= e /\ e <= Len(dir[f])
    BY <1>1, <1>2, <1>3
  <2>2. B = Stretch(f, a, e)
    BY <1>3
  <2> HIDE DEF f, D, e, B
  <2>3. Stretch(f, a, e) \in Seq(Bytes) /\ Len(Stretch(f, a, e)) = e - a
    BY <2>1, StretchIs
  <2>4. \A k : k \in NewLines(Stretch(f, a, e)) <=> k \in 1 .. e - a /\ dir[f][a + k] = "\n"
    BY <2>1, StretchBreaks
  <2> QED
    BY <2>2, <2>3, <2>4
<1>5. c \in 0 .. e - a /\ (c = 0 \/ dir[f][b] = "\n") /\ \A k \in NewLines(B) : k <= c
  <2> HIDE DEF B, e
  <2>1. CASE NewLines(B) = {}
    BY <1>2, <1>3, <2>1 DEF Cut
  <2>2. CASE NewLines(B) # {}
    <3>1. c = LastNewLine(B)
      BY <2>2 DEF Cut
    <3>2. c \in NewLines(B) /\ \A k \in NewLines(B) : k <= c
      BY <1>4, <2>2, <3>1, LineBreaks
    <3>3. c \in 1 .. e - a /\ dir[f][a + c] = "\n"
      BY <1>4, <3>2
    <3> QED
      BY <3>2, <3>3
  <2> QED
    BY <2>1, <2>2
<1> HIDE DEF c
<1>6. b \in Nat /\ a <= b /\ b <= e /\ b <= Len(dir[f]) /\ b - a = c /\ D <= b
  BY <1>1, <1>2, <1>3, <1>5
<1>7. BeginsAfter(f, b) /\ (t.off = 0 \/ t.off < b) /\ (a < b => EndsLine(f, b))
  <2>1. CASE c = 0
    <3>1. b = a
      BY <1>3, <2>1
    <3> QED
      BY <1>3, <3>1
  <2>2. CASE c # 0
    BY <1>1, <1>3, <1>5, <1>6, <2>2 DEF BeginsAfter, EndsLine
  <2> QED
    BY <2>1, <2>2
<1> HIDE DEF b
<1>8. SubSeq(B, 1, c) = Stretch(f, a, b) /\ After(B, c) = Stretch(f, b, e)
  <2>1. f \in DOMAIN dir /\ a \in Nat /\ b \in Nat /\ e \in Nat /\ a <= b /\ b <= e /\ e <= Len(dir[f])
    BY <1>1, <1>2, <1>3, <1>6
  <2>2. B = Stretch(f, a, e) /\ b - a = c
    BY <1>3, <1>6
  <2> HIDE DEF f, e, B
  <2>3. SubSeq(Stretch(f, a, e), 1, b - a) = Stretch(f, a, b) /\ After(Stretch(f, a, e), b - a) = Stretch(f, b, e)
    BY <2>1, StretchCut
  <2> QED
    BY <2>2, <2>3
<1>9. Lines(dir, t) = Stretch(f, a, b)
  <2>1. Lines(dir, t) = SubSeq(B, 1, c)
    BY DEF Lines, c
  <2> QED
    BY <1>8, <2>1
<1>10. /\ Stretch(f, b, e) \in Seq(Bytes) /\ Len(Stretch(f, b, e)) = e - b
       /\ \A k : k \in NewLines(Stretch(f, b, e)) <=> k \in 1 .. e - b /\ dir[f][b + k] = "\n"
  <2>1. f \in DOMAIN dir /\ b \in Nat /\ e \in Nat /\ b <= e /\ e <= Len(dir[f])
    BY <1>1, <1>2, <1>6
  <2> HIDE DEF f, e
  <2> QED
    BY <2>1, StretchIs, StretchBreaks
<1>11. /\ u.file = f /\ u.off = t.off /\ u.size = t.size
       /\ u.bytes_read = t.bytes_read + RoundSize(t) /\ u.left_over = Stretch(f, b, e)
       /\ u.partial_head = FALSE /\ ~u.finished /\ u \in Tasks
  <2>1. t.bytes_read + RoundSize(t) \in Nat
    BY <1>1
  <2>2. u.left_over = After(B, c)
    BY NextIs DEF c
  <2> QED
    BY <1>8, <1>10, <2>1, <2>2, NextIs
<1> HIDE DEF u
<1>12. Done(u) = b
  <2>1. Done(u) = u.off + u.bytes_read - Len(u.left_over)
    BY DEF Done
  <2>2. Done(u) = t.off + (t.bytes_read + RoundSize(t)) - (e - b)
    BY <1>10, <1>11, <2>1
  <2>3. e = t.off + t.bytes_read + RoundSize(t)
    BY DEF Reached
  <2> QED
    BY <1>1, <1>6, <2>2, <2>3
<1>13. Loop(u)
  <2>1. u.bytes_read < u.size /\ u.off <= Done(u)
    BY <1>1, <1>2, <1>6, <1>11, <1>12
  <2>2. u.left_over = BytesAt(dir, u.file, Done(u), Len(u.left_over))
    BY <1>10, <1>11, <1>12 DEF Stretch
  <2>3. NewLines(u.left_over) = {}
    <3> SUFFICES ASSUME NEW k \in NewLines(Stretch(f, b, e)) PROVE FALSE
      BY <1>11
    <3>1. k \in 1 .. e - b /\ dir[f][b + k] = "\n"
      BY <1>10
    <3>2. c + k \in 1 .. e - a /\ a + (c + k) = b + k /\ ~(c + k <= c)
      <4>1. a \in Nat /\ b \in Nat /\ e \in Nat /\ c \in Nat /\ b - a = c /\ k \in 1 .. e - b
        BY <1>2, <1>3, <1>5, <1>6, <3>1
      <4> QED
        BY <4>1
    <3>3. c + k \in NewLines(B)
      BY <1>4, <3>1, <3>2
    <3> QED
      BY <1>5, <3>2, <3>3
  <2>4. ~Skips(u)
    BY <1>11 DEF Skips
  <2>5. BeginsAfter(u.file, Done(u)) /\ (u.off = 0 \/ u.off < Done(u))
    BY <1>7, <1>11, <1>12
  <2> QED
    BY <2>1, <2>2, <2>3, <2>4, <2>5 DEF Loop
<1>14. ASSUME NEW p \in a + 1 .. b PROVE Owns(t, f, p)
  <2>1. p \in Nat /\ a < p /\ p - 1 <= t.off + t.size
    BY <1>1, <1>2, <1>3, <1>6
  <2> QED
    BY <1>3, <2>1, FirstIsOwned
<1>15. ASSUME NEW p \in 1 .. Len(dir[f]), IsStart(f, p), Owns(t, f, p), D < p
       PROVE  p \in a + 1 .. b \/ Owed(u, f, p)
  <2>1. a < p
    BY <1>3, <1>15
  <2>2. Owns(u, f, p)
    BY <1>11, <1>15 DEF Owns
  <2>3. p \in a + 1 .. b \/ b < p
    BY <1>3, <1>6, <2>1
  <2> QED
    BY <1>11, <1>12, <2>2, <2>3 DEF Owed
<1>16. RoundTo(t, a, b)
  <2>1. b <= b
    BY <1>6
  <2> QED
    BY <1>3, <1>6, <1>7, <1>9, <1>11, <1>12, <1>13, <1>14, <1>15, <2>1 DEF RoundTo, u
<1> QED
  BY <1>16

\* The last block is read on up to the next line break.
LEMMA ReadOn ==
  ASSUME DirFixed, NEW f \in DOMAIN dir, NEW e \in Nat, e <= Len(dir[f])
  PROVE  \E b \in Nat :
           /\ e <= b /\ b <= Len(dir[f]) /\ ToLineBreak(dir, f, e) = Stretch(f, e, b)
           /\ EndsWith(f, b) /\ \A p \in e + 1 .. b : dir[f][p] # "\n"
<1> DEFINE L == Len(dir[f])
           s == BytesAt(dir, f, e, L)
           T == Stretch(f, e, L)
<1>1. L \in Nat /\ e <= L /\ L <= L
  BY FileBytes
<1>2. T \in Seq(Bytes) /\ Len(T) = L - e
      /\ \A k : k \in NewLines(T) <=> k \in 1 .. L - e /\ dir[f][e + k] = "\n"
  BY <1>1, StretchIs, StretchBreaks
<1>3. s = T
  <2>1. dir \in Seq(Seq(Kinds)) /\ e <= Len(dir[f]) /\ L \in Nat
    BY <1>1, FixedSharable
  <2> HIDE DEF L, T
  <2>2. /\ s \in Seq(Bytes) /\ Len(s) = Least(L, Len(dir[f]) - e)
        /\ \A k \in 1 .. Len(s) : s[k] = <<f, e + k, dir[f][e + k]>>
    BY <2>1, BytesOfFile
  <2> HIDE DEF s
  <2>3. Len(s) = L - e
    BY <1>1, <2>2 DEF Least, L
  <2>4. \A k \in 1 .. L - e : s[k] = Byte(f, e + k)
    BY <2>2, <2>3 DEF Byte
  <2>5. L <= Len(dir[f])
    BY <1>1 DEF L
  <2>6. s = Stretch(f, e, L)
    BY <1>1, <2>2, <2>3, <2>4, <2>5, IsStretch
  <2> QED
    BY <2>6 DEF T
<1>4. ToLineBreak(dir, f, e) = IF NewLines(T) = {} THEN T ELSE SubSeq(T, 1, FirstNewLine(T) - 1)
  <2>1. ToLineBreak(dir, f, e) = IF NewLines(s) = {} THEN s ELSE SubSeq(s, 1, FirstNewLine(s) - 1)
    BY DEF ToLineBreak
  <2> HIDE DEF s, T
  <2> QED
    BY <1>3, <2>1
<1>5. CASE NewLines(T) = {}
  <2>1. ToLineBreak(dir, f, e) = Stretch(f, e, L)
    BY <1>4, <1>5
  <2>2. EndsWith(f, L)
    BY DEF EndsWith
  <2>3. ASSUME NEW p \in e + 1 .. L, dir[f][p] = "\n" PROVE FALSE
    <3>1. p - e \in 1 .. L - e /\ e + (p - e) = p
      BY <1>1, <2>3
    <3>2. p - e \in NewLines(T)
      <4> HIDE DEF T
      <4> QED
        BY <1>2, <2>3, <3>1
    <3> QED
      BY <1>5, <3>2
  <2> QED
    BY <1>1, <2>1, <2>2, <2>3
<1>6. CASE NewLines(T) # {}
  <2> DEFINE x == FirstNewLine(T)
             b == e + x - 1
  <2>1. x \in NewLines(T) /\ \A k \in NewLines(T) : x <= k
    <3> HIDE DEF T
    <3> QED
      BY <1>2, <1>6, LineBreaks
  <2>2. x \in 1 .. L - e /\ dir[f][e + x] = "\n"
    <3> HIDE DEF T
    <3> QED
      BY <1>2, <2>1
  <2> HIDE DEF x
  <2>3. b \in Nat /\ e <= b /\ b <= L /\ b - e = x - 1 /\ b + 1 = e + x
    BY <1>1, <2>2
  <2> HIDE DEF b
  <2>4. ToLineBreak(dir, f, e) = Stretch(f, e, b)
    <3>1. SubSeq(Stretch(f, e, L), 1, b - e) = Stretch(f, e, b)
      BY <1>1, <2>3, StretchCut
    <3> QED
      BY <1>4, <1>6, <2>3, <3>1 DEF x
  <2>5. EndsWith(f, b)
    BY <2>2, <2>3 DEF EndsWith
  <2>6. ASSUME NEW p \in e + 1 .. b, dir[f][p] = "\n" PROVE FALSE
    <3>1. p - e \in 1 .. L - e /\ e + (p - e) = p /\ p - e <= x - 1
      BY <1>1, <2>3, <2>6
    <3>2. p - e \in NewLines(T)
      <4> HIDE DEF T
      <4> QED
        BY <1>2, <2>6, <3>1
    <3>3. x <= p - e
      BY <2>1, <3>2
    <3> QED
      BY <2>2, <3>1, <3>3
  <2> QED
    BY <2>3, <2>4, <2>5, <2>6
<1> QED
  BY <1>5, <1>6

LEMMA EndRound ==
  ASSUME DirFixed, NEW t \in Tasks, TaskOK(t), ~t.finished, ~StillPartial(dir, t), LastRound(t),
         NEW a, FromLine(t, a)
  PROVE  \E b : RoundTo(t, a, b)
<1> DEFINE f == t.file
           D == Done(t)
           e == Reached(t)
           u == NextRound(dir, t)
<1>1. /\ f \in DOMAIN dir /\ Len(dir[f]) \in Nat
      /\ t.off \in Nat /\ t.size \in Nat /\ t.bytes_read \in Nat
      /\ D \in Nat /\ t.off <= D /\ RoundSize(t) \in Nat
      /\ RoundSize(t) = 0 => Len(dir[f]) = 0
  BY TaskIs
<1>2. e \in Nat /\ D <= e /\ e <= Len(dir[f]) /\ e = t.off + t.size
  BY ReadIs
<1>3. /\ a \in Nat /\ D <= a /\ a <= e /\ Block(dir, t) = Stretch(f, a, e)
      /\ BeginsAfter(f, a) /\ (t.off = 0 \/ t.off < a)
      /\ \A p \in 1 .. Len(dir[f]) : IsStart(f, p) /\ Owns(t, f, p) /\ D < p => a < p
  BY DEF FromLine
<1>4. /\ u.file = f /\ u.off = t.off /\ u.size = t.size /\ u.finished /\ u \in Tasks
  <2>1. t.bytes_read + RoundSize(t) \in Nat
    BY <1>1
  <2>2. u.left_over = <<>>
    BY NextIs
  <2> QED
    BY <2>1, <2>2, EmptyText, NextIs
<1> HIDE DEF u
<1>5. CASE RoundSize(t) = 0
  <2>1. Lines(dir, t) = Stretch(f, a, e)
    BY <1>3, <1>5 DEF Lines
  <2>2. Len(dir[f]) = 0 /\ a = 0 /\ e = 0
    BY <1>1, <1>2, <1>3, <1>5
  <2>3. ~(a < e) /\ \A p : p \notin a + 1 .. e /\ p \notin 1 .. Len(dir[f])
    BY <2>2
  <2>4. RoundTo(t, a, e)
    BY <1>1, <1>2, <1>3, <1>4, <2>1, <2>3 DEF RoundTo, u
  <2> QED
    BY <2>4
<1>6. CASE RoundSize(t) # 0
  <2>1. PICK b \in Nat :
          /\ e <= b /\ b <= Len(dir[f]) /\ ToLineBreak(dir, f, e) = Stretch(f, e, b)
          /\ EndsWith(f, b) /\ \A p \in e + 1 .. b : dir[f][p] # "\n"
    <3>1. f \in DOMAIN dir /\ e \in Nat /\ e <= Len(dir[f])
      BY <1>1, <1>2
    <3> HIDE DEF f, e
    <3> QED
      BY <3>1, ReadOn
  <2>2. Lines(dir, t) = Stretch(f, a, b)
    <3>1. Lines(dir, t) = Stretch(f, a, e) \o Stretch(f, e, b)
      <4>1. Lines(dir, t) = Block(dir, t) \o ToLineBreak(dir, f, t.off + t.size)
        BY <1>6 DEF Lines
      <4>2. t.off + t.size = e
        BY <1>2
      <4> HIDE DEF e, f
      <4> QED
        BY <1>3, <2>1, <4>1, <4>2
    <3>2. /\ f \in DOMAIN dir /\ a \in Nat /\ e \in Nat /\ b \in Nat /\ a <= e /\ e <= b
          /\ b <= Len(dir[f])
      BY <1>1, <1>2, <1>3, <2>1
    <3> HIDE DEF f, e
    <3> QED
      BY <3>1, <3>2, StretchJoined
  <2>3. ASSUME NEW p \in a + 1 .. b, IsStart(f, p) PROVE Owns(t, f, p)
    <3>1. p - 1 <= e
      <4> SUFFICES ASSUME ~(p - 1 <= e) PROVE FALSE
        OBVIOUS
      <4>1. p - 1 \in e + 1 .. b /\ p - 1 # 0
        BY <1>2, <1>3, <2>1, <2>3
      <4>2. dir[f][p - 1] = "\n"
        BY <2>3, <4>1 DEF IsStart, BeginsAfter
      <4> QED
        BY <2>1, <4>1, <4>2
    <3>2. p \in Nat /\ a < p /\ p - 1 <= t.off + t.size
      BY <1>2, <1>3, <3>1
    <3> QED
      BY <1>3, <3>2, FirstIsOwned
  <2>4. ASSUME NEW p \in 1 .. Len(dir[f]), IsStart(f, p), Owns(t, f, p), D < p
        PROVE  p \in a + 1 .. b
    <3>1. a < p
      BY <1>3, <2>4
    <3>2. p - 1 <= e
      BY <1>2, <2>4 DEF Owns
    <3>3. p <= b
      <4> SUFFICES ASSUME ~(p <= b) PROVE FALSE
        OBVIOUS
      <4>1. p = e + 1 /\ b = e /\ p = b + 1 /\ b # Len(dir[f])
        BY <1>1, <1>2, <2>1, <3>2
      <4>2. dir[f][p] = "\n"
        BY <2>1, <4>1 DEF EndsWith
      <4> QED
        BY <2>4, <4>2 DEF IsStart
    <3> QED
      BY <1>3, <2>1, <3>1, <3>3
  <2>5. a <= b
    BY <1>2, <1>3, <2>1
  <2>6. EndsLine(f, b)
    BY <2>1 DEF EndsLine
  <2>7. RoundTo(t, a, b)
    BY <1>3, <1>4, <2>1, <2>2, <2>3, <2>4, <2>5, <2>6 DEF RoundTo, u
  <2> QED
    BY <2>7
<1> QED
  BY <1>5, <1>6

LEMMA Round ==
  ASSUME DirFixed, NEW t \in Tasks, TaskOK(t), ~t.finished
  PROVE  \E a, b : RoundTo(t, a, b)
<1>1. CASE StillPartial(dir, t)
  BY <1>1, PartialRound
<1>2. CASE ~StillPartial(dir, t)
  <2>1. PICK a : FromLine(t, a)
    BY <1>2, BlockIs
  <2>2. CASE LastRound(t)
    BY <1>2, <2>1, <2>2, EndRound
  <2>3. CASE ~LastRound(t)
    BY <1>2, <2>1, <2>3, MiddleRound
  <2> QED
    BY <2>2, <2>3
<1> QED
  BY <1>1, <1>2

\* What a line that falls to this reader is, and what a range of its own owns.
LEMMA MyLines ==
  ASSUME DirFixed, NEW f, NEW p
  PROVE  Mine(f, p) <=>
           /\ f \in DOMAIN dir /\ p \in 1 .. Len(dir[f]) /\ IsStart(f, p)
           /\ \E k \in DOMAIN Ranges(dir, my_reader_id, support_seek) :
                Owns(Ranges(dir, my_reader_id, support_seek)[k], f, p)
<1> DEFINE R == Ranges(dir, my_reader_id, support_seek)
<1>1. Mine(f, p) <=> <<f, p>> \in FileLines(dir) /\ \E k \in DOMAIN R : Owns(R[k], f, p)
  <2>1. Mine(f, p) <=>
          <<f, p>> \in {l \in FileLines(dir) : \E k \in DOMAIN R : Owns(R[k], l[1], l[2])}
    BY DEF Mine, Share
  <2> HIDE DEF R
  <2> QED
    BY <2>1
<1>2. <<f, p>> \in FileLines(dir) <=> f \in DOMAIN dir /\ p \in 1 .. Len(dir[f]) /\ IsStart(f, p)
  <2>1. dir \in Seq(Seq(Kinds))
    BY FixedSharable
  <2>2. <<f, p>> \in FileLines(dir) <=>
          \E g \in DOMAIN dir : \E q \in 1 .. Len(dir[g]) :
             <<f, p>> = <<g, q>> /\ dir[g][q] # "\n" /\ (q = 1 \/ dir[g][q - 1] = "\n")
    BY <2>1, LinesOfFiles
  <2>3. ASSUME NEW q \in 1 .. Len(dir[f]) PROVE q = 1 <=> q - 1 = 0
    OBVIOUS
  <2> QED
    BY <2>2, <2>3 DEF IsStart, BeginsAfter
<1> QED
  BY <1>1, <1>2

LEMMA OwnedIsMine ==
  ASSUME DirFixed, NEW t, IsMyRange(t), NEW f \in DOMAIN dir, NEW p \in 1 .. Len(dir[f]),
         IsStart(f, p), Owns(t, f, p)
  PROVE  Mine(f, p)
<1>1. PICK k \in DOMAIN Ranges(dir, my_reader_id, support_seek) :
        Ranges(dir, my_reader_id, support_seek)[k] = FileRange(t.file, t.off, t.size)
  BY DEF IsMyRange
<1>2. Owns(FileRange(t.file, t.off, t.size), f, p)
  BY DEF Owns, FileRange
<1> QED
  BY <1>1, <1>2, MyLines

(***************************************************************************)
(* The steps of the directory stream.                                      *)
(***************************************************************************)
LEMMA SameDir ==
  ASSUME UNCHANGED opened
  PROVE  /\ DirFixed => DirFixed'
         /\ \A x : Whole(x)' <=> Whole(x)
         /\ \A t : TaskOK(t)' <=> TaskOK(t)
         /\ \A x, f, p : Holds(x, f, p)' <=> Holds(x, f, p)
         /\ Share(dir, my_reader_id, support_seek)' = Share(dir, my_reader_id, support_seek)
<1>1. dir' = dir /\ my_reader_id' = my_reader_id /\ support_seek' = support_seek
  BY DEF opened
<1>2. DirFixed => DirFixed'
  BY <1>1 DEF DirFixed
<1>3. \A x : Whole(x)' <=> Whole(x)
  BY <1>1 DEF Whole, Genuine, Byte, EndsWith, BeginsAfter, Mine
<1>4. \A t : Loop(t)' <=> Loop(t)
  BY <1>1 DEF Loop, BeginsAfter
<1>5. \A t : IsMyRange(t)' <=> IsMyRange(t)
  BY <1>1 DEF IsMyRange
<1>6. \A t : TaskOK(t)' <=> TaskOK(t)
  BY <1>1, <1>4, <1>5 DEF TaskOK
<1>7. \A x, f, p : Holds(x, f, p)' <=> Holds(x, f, p)
  BY <1>1 DEF Holds, Byte
<1> QED
  BY <1>1, <1>2, <1>3, <1>6, <1>7

LEMMA TextsAre ==
  ASSUME NEW c \in Seq(Seq(Bytes)), NEW s \in Seq(Bytes)
  PROVE  /\ <<s>> \o c \in Seq(Seq(Bytes)) /\ Len(c) \in Nat /\ Len(<<s>> \o c) = Len(c) + 1
         /\ (<<s>> \o c)[1] = s
         /\ \A i \in 1 .. Len(c) : (<<s>> \o c)[i + 1] = c[i]
<1>1. <<s>> \in Seq(Seq(Bytes)) /\ Len(<<s>>) = 1 /\ <<s>>[1] = s
  OBVIOUS
<1> DEFINE o == <<s>>
<1>2. o \in Seq(Seq(Bytes)) /\ Len(o) = 1 /\ o[1] = s
  BY <1>1
<1> HIDE DEF o
<1>3. /\ o \o c \in Seq(Seq(Bytes)) /\ Len(c) \in Nat /\ Len(o \o c) = Len(o) + Len(c)
      /\ \A j \in 1 .. Len(o) : (o \o c)[j] = o[j]
      /\ \A j \in 1 .. Len(c) : (o \o c)[Len(o) + j] = c[j]
  <2>1. o \in Seq(Seq(Bytes))
    BY <1>2
  <2> QED
    BY <2>1, Joined
<1>4. Len(o \o c) = Len(c) + 1 /\ (o \o c)[1] = s
  BY <1>2, <1>3
<1>5. ASSUME NEW i \in 1 .. Len(c) PROVE (o \o c)[i + 1] = c[i]
  <2>1. Len(o) + i = i + 1
    BY <1>2, <1>3
  <2> QED
    BY <1>3, <2>1
<1> QED
  BY <1>3, <1>4, <1>5 DEF o

LEMMA RoundPushes ==
  ASSUME DirFixed, NEW t \in Tasks, TaskOK(t), ~t.finished
  PROVE  \E a, b : /\ RoundTo(t, a, b)
                   /\ \/ a = b /\ Pushed(Lines(dir, t)) = <<>>
                      \/ \E x : Pushed(Lines(dir, t)) = <<x>> /\ HandedOn(x, t.file, a, b)
<1>1. PICK a, b : RoundTo(t, a, b)
  BY Round
<1>2. /\ a \in Nat /\ b \in Nat /\ a <= b /\ b <= Len(dir[t.file])
      /\ Lines(dir, t) = Stretch(t.file, a, b)
      /\ a < b => BeginsAfter(t.file, a) /\ EndsLine(t.file, b)
      /\ \A p \in a + 1 .. b : IsStart(t.file, p) => Owns(t, t.file, p)
  BY <1>1 DEF RoundTo
<1>3. t.file \in DOMAIN dir /\ IsMyRange(t) /\ Len(dir[t.file]) \in Nat
  BY FileBytes DEF TaskOK
<1>4. ASSUME NEW p \in a + 1 .. b, IsStart(t.file, p) PROVE Mine(t.file, p)
  <2>1. p \in 1 .. Len(dir[t.file])
    BY <1>2, <1>3
  <2> QED
    BY <1>2, <1>3, <1>4, <2>1, OwnedIsMine
<1>5. \/ a = b /\ Pushed(Stretch(t.file, a, b)) = <<>>
      \/ \E x : Pushed(Stretch(t.file, a, b)) = <<x>> /\ HandedOn(x, t.file, a, b)
  <2> DEFINE f == t.file
  <2>1. f \in DOMAIN dir /\ a \in Nat /\ b \in Nat /\ a <= b /\ b <= Len(dir[f])
    BY <1>2, <1>3
  <2>2. a < b => BeginsAfter(f, a) /\ EndsLine(f, b)
    BY <1>2
  <2>3. \A p \in a + 1 .. b : IsStart(f, p) => Mine(f, p)
    BY <1>4
  <2> HIDE DEF f
  <2>4. \/ a = b /\ Pushed(Stretch(f, a, b)) = <<>>
        \/ \E x : Pushed(Stretch(f, a, b)) = <<x>> /\ HandedOn(x, f, a, b)
    BY <2>1, <2>2, <2>3, PushedIs
  <2> QED
    BY <2>4 DEF f
<1> QED
  BY <1>1, <1>2, <1>5

LEMMA StreamTyped ==
  ASSUME DirTyped
  PROVE  /\ Len(ranges) \in Nat /\ Len(contents) \in Nat /\ Len(Texts) = Len(contents) + 1
         /\ \A k \in 1 .. Len(ranges) : ranges[k] \in Tasks
         /\ Texts \in Seq(Seq(Bytes)) /\ Texts[1] = stream
         /\ \A i \in 1 .. Len(contents) : Texts[i + 1] = contents[i]
         /\ \A i \in 1 .. Len(Texts) : Texts[i] \in Seq(Bytes)
         /\ IsFiniteSet(EndMarks) /\ Cardinality(EndMarks) \in Nat
<1>1. ranges \in Seq(Tasks) /\ contents \in Seq(Seq(Bytes)) /\ stream \in Seq(Bytes)
  BY DEF DirTyped
<1>2. /\ Texts \in Seq(Seq(Bytes)) /\ Len(contents) \in Nat /\ Len(Texts) = Len(contents) + 1
      /\ Texts[1] = stream /\ \A i \in 1 .. Len(contents) : Texts[i + 1] = contents[i]
  BY <1>1, TextsAre DEF Texts
<1>3. \A i \in 1 .. Len(Texts) : Texts[i] \in Seq(Bytes)
  BY <1>2, ElementOfSeq
<1>4. Len(ranges) \in Nat /\ \A k \in 1 .. Len(ranges) : ranges[k] \in Tasks
  BY <1>1, LenProperties, ElementOfSeq
<1>5. IsFiniteSet(EndMarks) /\ Cardinality(EndMarks) \in Nat
  <2>1. EndMarks \in SUBSET Nat /\ \A i \in EndMarks : i <= Len(contents)
    BY <1>2 DEF EndMarks
  <2> QED
    BY <1>2, <2>1, Bounded
<1> QED
  BY <1>2, <1>3, <1>4, <1>5

\* What a round does to the texts and to the tasks.
RoundStep(k, a, b) ==
  LET t == ranges[k] u == NextRound(dir, t) f == t.file IN
  /\ t \in Tasks /\ TaskOK(t) /\ ~t.finished /\ RoundTo(t, a, b)
  /\ ranges' \in Seq(Tasks) /\ Len(ranges') = Len(ranges)
  /\ \A j \in 1 .. Len(ranges) : ranges'[j] = IF j = k THEN u ELSE ranges[j]
  /\ contents' \in Seq(Seq(Bytes)) /\ EndMarks' = EndMarks
  /\ Texts' \in Seq(Seq(Bytes)) /\ \A i \in 1 .. Len(Texts) : Texts'[i] = Texts[i]
  /\ \/ a = b /\ Len(Texts') = Len(Texts)
     \/ Len(Texts') = Len(Texts) + 1 /\ HandedOn(Texts'[Len(Texts) + 1], f, a, b)

LEMMA RoundSteps ==
  ASSUME DirFixed, DirInv, NEW k \in 1 .. Len(ranges), ReadRound(k)
  PROVE  \E a, b : RoundStep(k, a, b)
<1> DEFINE t == ranges[k]
           u == NextRound(dir, t)
           n == Len(contents)
<1>1. /\ ranges \in Seq(Tasks) /\ contents \in Seq(Seq(Bytes)) /\ stream \in Seq(Bytes)
  BY DEF DirInv, DirTyped
<1>2. /\ n \in Nat /\ Len(Texts) = n + 1 /\ Texts[1] = stream
      /\ \A i \in 1 .. n : Texts[i + 1] = contents[i]
  BY StreamTyped DEF DirInv
<1>3. t \in Tasks /\ TaskOK(t) /\ ~t.finished
  BY StreamTyped DEF DirInv, TasksOK, ReadRound
<1>4. PICK a, b : /\ RoundTo(t, a, b)
                  /\ \/ a = b /\ Pushed(Lines(dir, t)) = <<>>
                     \/ \E x : Pushed(Lines(dir, t)) = <<x>> /\ HandedOn(x, t.file, a, b)
  BY <1>3, RoundPushes
<1>5. /\ contents' = contents \o Pushed(Lines(dir, t)) /\ ranges' = [ranges EXCEPT ![k] = u]
      /\ stream' = stream
  BY DEF ReadRound
<1>6. u \in Tasks
  BY <1>4 DEF RoundTo
<1>7. /\ ranges' \in Seq(Tasks) /\ Len(ranges') = Len(ranges)
      /\ \A j \in 1 .. Len(ranges) : ranges'[j] = IF j = k THEN u ELSE ranges[j]
  <2> HIDE DEF u
  <2> QED
    BY <1>1, <1>5, <1>6, ExceptSeq
<1> HIDE DEF t, u
<1>8. CASE a = b /\ Pushed(Lines(dir, t)) = <<>>
  <2>1. contents' = contents
    BY <1>1, <1>5, <1>8, ConcatEmptySeq
  <2>2. EndMarks' = EndMarks /\ Texts' = Texts /\ Texts \in Seq(Seq(Bytes))
    BY <1>5, <2>1, StreamTyped DEF EndMarks, Texts, DirInv
  <2>3. RoundStep(k, a, b)
    BY <1>1, <1>3, <1>4, <1>7, <1>8, <2>1, <2>2 DEF RoundStep, t, u
  <2> QED
    BY <2>3
<1>9. ASSUME NEW x, Pushed(Lines(dir, t)) = <<x>>, HandedOn(x, t.file, a, b)
      PROVE  RoundStep(k, a, b)
  <2>1. x \in Seq(Bytes) /\ x # <<>>
    BY <1>9 DEF HandedOn
  <2>2. contents' = Append(contents, x)
    <3>1. contents' = contents \o <<x>>
      BY <1>5, <1>9
    <3> QED
      BY <1>1, <2>1, <3>1, AppendIsConcat
  <2>3. /\ contents' \in Seq(Seq(Bytes)) /\ Len(contents') = n + 1
        /\ \A i \in 1 .. n : contents'[i] = contents[i]
        /\ contents'[n + 1] = x
    <3> HIDE DEF n
    <3> QED
      BY <1>1, <2>1, <2>2, AppendProperties DEF n
  <2>4. EndMarks' = EndMarks
    <3>1. EndMarks' = {i \in 1 .. Len(contents') : contents'[i] = <<>>}
      BY DEF EndMarks
    <3>2. EndMarks = {i \in 1 .. n : contents[i] = <<>>}
      BY DEF EndMarks
    <3>3. \A i : i \in EndMarks' <=> i \in EndMarks
      <4> HIDE DEF n
      <4>1. \A i : i \in 1 .. n + 1 <=> i \in 1 .. n \/ i = n + 1
        BY <1>2
      <4> QED
        BY <1>2, <2>1, <2>3, <3>1, <3>2, <4>1
    <3> QED
      BY <3>3
  <2>5. /\ Texts' \in Seq(Seq(Bytes)) /\ Len(Texts') = Len(contents') + 1 /\ Texts'[1] = stream'
        /\ \A i \in 1 .. Len(contents') : Texts'[i + 1] = contents'[i]
    <3>1. contents' \in Seq(Seq(Bytes)) /\ stream' \in Seq(Bytes)
      BY <1>1, <1>5, <2>3
    <3>2. Texts' = <<stream'>> \o contents'
      BY DEF Texts
    <3> QED
      BY <3>1, <3>2, TextsAre
  <2>6. Len(Texts') = Len(Texts) + 1 /\ Texts'[Len(Texts) + 1] = x
    <3> HIDE DEF n
    <3>1. n + 1 \in 1 .. Len(contents')
      BY <1>2, <2>3
    <3> QED
      BY <1>2, <2>3, <2>5, <3>1
  <2>7. ASSUME NEW i \in 1 .. Len(Texts) PROVE Texts'[i] = Texts[i]
    <3> HIDE DEF n
    <3>1. CASE i = 1
      BY <1>2, <1>5, <2>5, <3>1
    <3>2. CASE i # 1
      <4>1. i - 1 \in 1 .. n /\ i - 1 \in 1 .. Len(contents') /\ (i - 1) + 1 = i
        BY <1>2, <2>3, <3>2
      <4> QED
        BY <1>2, <2>3, <2>5, <4>1
    <3> QED
      BY <3>1, <3>2
  <2> QED
    BY <1>3, <1>4, <1>7, <1>9, <2>3, <2>4, <2>5, <2>6, <2>7 DEF RoundStep, t, u
<1> QED
  BY <1>4, <1>8, <1>9

LEMMA RoundTexts ==
  ASSUME DirFixed, DirInv, UNCHANGED opened, NEW k \in 1 .. Len(ranges), NEW a, NEW b, RoundStep(k, a, b)
  PROVE  TextsOK'
<1> DEFINE t == ranges[k]
           n == Len(Texts)
           x == Texts'[n + 1]
<1>1. /\ t \in Tasks /\ RoundTo(t, a, b) /\ ~t.finished
      /\ \A i \in 1 .. n : Texts'[i] = Texts[i]
      /\ Len(Texts') = n \/ (Len(Texts') = n + 1 /\ HandedOn(x, t.file, a, b))
  BY DEF RoundStep
<1>2. n \in Nat /\ Done(t) \in Int /\ a \in Nat /\ b \in Nat /\ Done(t) <= a
  <2>1. n \in Nat
    BY StreamTyped DEF DirInv
  <2>2. Len(t.left_over) \in Nat /\ t.off \in Nat /\ t.bytes_read \in Nat
    BY <1>1, LenProperties DEF Tasks
  <2> QED
    BY <1>1, <2>1, <2>2 DEF RoundTo, Done
<1>3. /\ \A i \in 1 .. n : Whole(Texts[i]) /\ Sorted(Texts[i])
      /\ \A i, j \in 1 .. n : i < j => Precedes(Texts[i], Texts[j])
      /\ \A i \in 1 .. n : Behind(Texts[i], t)
  BY <1>1 DEF DirInv, TextsOK, TasksOK
<1> HIDE DEF t, n, x
<1>4. CASE Len(Texts') = n
  <2>1. /\ \A i \in 1 .. Len(Texts') : Whole(Texts'[i]) /\ Sorted(Texts'[i])
        /\ \A i, j \in 1 .. Len(Texts') : i < j => Precedes(Texts'[i], Texts'[j])
    BY <1>1, <1>3, <1>4
  <2> QED
    BY <2>1, SameDir DEF TextsOK
<1>5. CASE Len(Texts') = n + 1 /\ HandedOn(x, t.file, a, b)
  <2>1. /\ Whole(x) /\ Sorted(x) /\ x = Texts'[n + 1]
        /\ \A m \in 1 .. Len(x) : ~IsNewLine(x[m]) => x[m][1] = t.file /\ x[m][2] \in a + 1 .. b
    BY <1>5 DEF HandedOn, x
  <2>2. ASSUME NEW i \in 1 .. Len(Texts') PROVE Whole(Texts'[i]) /\ Sorted(Texts'[i])
    <3>1. i \in 1 .. n \/ i = n + 1
      BY <1>2, <1>5
    <3> QED
      BY <1>1, <1>3, <2>1, <3>1
  <2>3. ASSUME NEW i \in 1 .. n PROVE Precedes(Texts[i], x)
    <3> SUFFICES ASSUME NEW j \in 1 .. Len(Texts[i]), NEW m \in 1 .. Len(x),
                        SameFile(Texts[i][j], x[m])
                 PROVE  Texts[i][j][2] < x[m][2]
      BY DEF Precedes
    <3>1. /\ ~IsNewLine(Texts[i][j]) /\ ~IsNewLine(x[m]) /\ Texts[i][j][1] = x[m][1]
      BY DEF SameFile
    <3>2. x[m][1] = t.file /\ x[m][2] \in a + 1 .. b
      BY <2>1, <3>1
    <3>3. Texts[i][j][2] <= Done(t)
      BY <1>3, <3>1, <3>2 DEF Behind
    <3>4. Texts[i][j][2] \in Nat
      <4>1. Texts[i] \in Seq(Bytes)
        BY StreamTyped DEF DirInv, n
      <4>2. Texts[i][j] \in Bytes
        BY <4>1, ElementOfSeq
      <4> QED
        BY <4>2 DEF Bytes
    <3> QED
      BY <1>2, <3>2, <3>3, <3>4, SMTT(30)
  <2>4. ASSUME NEW i \in 1 .. Len(Texts'), NEW j \in 1 .. Len(Texts'), i < j
        PROVE  Precedes(Texts'[i], Texts'[j])
    <3>1. i \in 1 .. n /\ (j \in 1 .. n \/ j = n + 1)
      BY <1>2, <1>5, <2>4
    <3> QED
      BY <1>1, <1>3, <2>1, <2>3, <2>4, <3>1
  <2> QED
    BY <2>2, <2>4, SameDir DEF TextsOK
<1> QED
  BY <1>1, <1>4, <1>5

LEMMA RoundTasks ==
  ASSUME DirFixed, DirInv, UNCHANGED opened, NEW k \in 1 .. Len(ranges), NEW a, NEW b, RoundStep(k, a, b)
  PROVE  TasksOK'
<1> DEFINE t == ranges[k]
           u == NextRound(dir, t)
           n == Len(Texts)
           x == Texts'[n + 1]
<1>1. /\ t \in Tasks /\ TaskOK(t) /\ RoundTo(t, a, b) /\ ~t.finished
      /\ Len(ranges') = Len(ranges)
      /\ \A j \in 1 .. Len(ranges) : ranges'[j] = IF j = k THEN u ELSE ranges[j]
      /\ \A i \in 1 .. n : Texts'[i] = Texts[i]
      /\ Len(Texts') = n \/ (Len(Texts') = n + 1 /\ HandedOn(x, t.file, a, b))
  BY DEF RoundStep
<1>2. /\ u \in Tasks /\ u.file = t.file /\ u.off = t.off /\ u.size = t.size
      /\ ~u.finished => Loop(u) /\ Done(u) \in Nat /\ b <= Done(u)
      /\ a \in Nat /\ b \in Nat /\ a <= b /\ Done(t) <= a
  BY <1>1 DEF RoundTo
<1>3. n \in Nat /\ Done(t) \in Int /\ Len(ranges) \in Nat /\ \A i \in 1 .. n : Texts[i] \in Seq(Bytes)
  <2>1. n \in Nat /\ Len(ranges) \in Nat /\ \A i \in 1 .. n : Texts[i] \in Seq(Bytes)
    BY StreamTyped DEF DirInv
  <2>2. Len(t.left_over) \in Nat /\ t.off \in Nat /\ t.bytes_read \in Nat
    BY <1>1, LenProperties DEF Tasks
  <2> QED
    BY <2>1, <2>2 DEF Done
<1>4. /\ \A j \in 1 .. Len(ranges) : TaskOK(ranges[j])
      /\ \A i, j \in 1 .. Len(ranges) : ranges[i].file = ranges[j].file => i = j
      /\ \A i \in 1 .. n, j \in 1 .. Len(ranges) : ~ranges[j].finished => Behind(Texts[i], ranges[j])
  BY DEF DirInv, TasksOK
<1>5. TaskOK(u)
  <2>1. IsMyRange(u)
    BY <1>1, <1>2 DEF TaskOK, IsMyRange
  <2> QED
    BY <1>1, <1>2, <2>1 DEF TaskOK
<1>6. \A j \in 1 .. Len(ranges') : TaskOK(ranges'[j])
  <2> HIDE DEF u
  <2> QED
    BY <1>1, <1>4, <1>5
<1>7. \A i, j \in 1 .. Len(ranges') : ranges'[i].file = ranges'[j].file => i = j
  <2>1. \A j \in 1 .. Len(ranges) : ranges'[j].file = ranges[j].file
    <3> HIDE DEF u
    <3> QED
      BY <1>1, <1>2
  <2> QED
    BY <1>1, <1>4, <2>1
<1>8. ASSUME NEW i \in 1 .. Len(Texts'), NEW j \in 1 .. Len(ranges'), ~ranges'[j].finished
      PROVE  Behind(Texts'[i], ranges'[j])
  <2> SUFFICES ASSUME NEW m \in 1 .. Len(Texts'[i]), ~IsNewLine(Texts'[i][m]),
                      Texts'[i][m][1] = ranges'[j].file
               PROVE  Texts'[i][m][2] <= Done(ranges'[j])
    BY DEF Behind
  <2> HIDE DEF u, n, x
  <2>1. j \in 1 .. Len(ranges)
    BY <1>1
  <2>2. CASE i \in 1 .. n /\ j # k
    <3>1. Texts'[i] = Texts[i] /\ ranges'[j] = ranges[j]
      BY <1>1, <2>1, <2>2
    <3>2. Behind(Texts[i], ranges[j])
      BY <1>4, <1>8, <2>1, <2>2, <3>1
    <3> QED
      BY <3>1, <3>2 DEF Behind
  <2>3. CASE i \in 1 .. n /\ j = k
    <3>1. Texts'[i] = Texts[i] /\ ranges'[j] = u
      BY <1>1, <2>1, <2>3
    <3>2. Behind(Texts[i], t)
      BY <1>1, <1>4, <2>3
    <3>3. Texts[i][m][2] <= Done(t)
      BY <1>2, <3>1, <3>2 DEF Behind
    <3>4. Texts[i][m][2] \in Nat
      <4>1. m \in 1 .. Len(Texts[i])
        BY <3>1
      <4>2. Texts[i][m] \in Bytes
        BY <1>3, <2>3, <4>1, ElementOfSeq
      <4> QED
        BY <4>2 DEF Bytes
    <3>5. Done(u) \in Nat /\ b <= Done(u)
      BY <1>2, <1>8, <3>1
    <3> QED
      BY <1>2, <1>3, <3>1, <3>3, <3>4, <3>5, SMTT(30)
  <2>4. CASE i \notin 1 .. n
    <3>1. i = n + 1 /\ HandedOn(x, t.file, a, b) /\ Texts'[i] = x
      BY <1>1, <1>3, <2>4 DEF x
    <3>2. x[m][1] = t.file /\ x[m][2] \in a + 1 .. b
      BY <3>1 DEF HandedOn
    <3>3. j = k /\ ranges'[j] = u
      BY <1>1, <1>4, <2>1, <3>1, <3>2
    <3>4. Done(u) \in Nat /\ b <= Done(u)
      BY <1>2, <1>8, <3>3
    <3> QED
      BY <1>2, <3>1, <3>2, <3>3, <3>4
  <2> QED
    BY <2>2, <2>3, <2>4
<1> QED
  BY <1>6, <1>7, <1>8, SameDir DEF TasksOK

LEMMA RoundLines ==
  ASSUME DirFixed, DirInv, UNCHANGED opened, NEW k \in 1 .. Len(ranges), NEW a, NEW b, RoundStep(k, a, b)
  PROVE  NoLineLost'
<1> DEFINE t == ranges[k]
           u == NextRound(dir, t)
           n == Len(Texts)
           x == Texts'[n + 1]
<1>1. /\ RoundTo(t, a, b)
      /\ Len(ranges') = Len(ranges)
      /\ \A j \in 1 .. Len(ranges) : ranges'[j] = IF j = k THEN u ELSE ranges[j]
      /\ \A i \in 1 .. n : Texts'[i] = Texts[i]
      /\ \/ a = b /\ Len(Texts') = n
         \/ Len(Texts') = n + 1 /\ HandedOn(x, t.file, a, b)
  BY DEF RoundStep
<1>2. \A p \in 1 .. Len(dir[t.file]) :
        IsStart(t.file, p) /\ Owns(t, t.file, p) /\ Done(t) < p => p \in a + 1 .. b \/ Owed(u, t.file, p)
  BY <1>1 DEF RoundTo
<1>3. n \in Nat /\ a \in Nat
  BY <1>1, StreamTyped DEF DirInv, RoundTo
<1>4. ASSUME NEW l \in Share(dir, my_reader_id, support_seek)
      PROVE  \/ \E i \in 1 .. Len(Texts') : Holds(Texts'[i], l[1], l[2])
             \/ \E j \in 1 .. Len(ranges') : Owed(ranges'[j], l[1], l[2])
  <2>1. CASE \E i \in 1 .. n : Holds(Texts[i], l[1], l[2])
    <3>1. PICK i \in 1 .. n : Holds(Texts[i], l[1], l[2])
      BY <2>1
    <3>2. i \in 1 .. Len(Texts') /\ Texts'[i] = Texts[i]
      BY <1>1, <1>3
    <3> QED
      BY <3>1, <3>2
  <2>2. CASE \E j \in 1 .. Len(ranges) : Owed(ranges[j], l[1], l[2])
    <3>1. PICK j \in 1 .. Len(ranges) : Owed(ranges[j], l[1], l[2])
      BY <2>2
    <3>2. CASE j # k
      <4>1. ranges'[j] = ranges[j] /\ j \in 1 .. Len(ranges')
        BY <1>1, <3>2
      <4> QED
        BY <3>1, <4>1
    <3>3. CASE j = k
      <4>1. Owed(t, l[1], l[2])
        BY <3>1, <3>3
      <4>2. Done(t) < l[2] /\ Owns(t, l[1], l[2]) /\ l[1] = t.file
        BY <4>1 DEF Owed, Owns
      <4>3. l \in FileLines(dir)
        BY DEF Share
      <4>4. l[2] \in 1 .. Len(dir[l[1]]) /\ IsStart(l[1], l[2])
        <5>1. PICK f \in DOMAIN dir : \E p \in 1 .. Len(dir[f]) :
                l = <<f, p>> /\ dir[f][p] # "\n" /\ (p = 1 \/ dir[f][p - 1] = "\n")
          <6>1. dir \in Seq(Seq(Kinds))
            BY FixedSharable
          <6>2. \A m : m \in FileLines(dir) <=>
                  \E f \in DOMAIN dir : \E p \in 1 .. Len(dir[f]) :
                     m = <<f, p>> /\ dir[f][p] # "\n" /\ (p = 1 \/ dir[f][p - 1] = "\n")
            BY <6>1, LinesOfFiles
          <6> QED
            BY <4>3, <6>2
        <5>2. PICK p \in 1 .. Len(dir[f]) :
                l = <<f, p>> /\ dir[f][p] # "\n" /\ (p = 1 \/ dir[f][p - 1] = "\n")
          BY <5>1
        <5>3. p = 1 => p - 1 = 0
          OBVIOUS
        <5> QED
          BY <5>2, <5>3 DEF IsStart, BeginsAfter
      <4>5. l[2] \in a + 1 .. b \/ Owed(u, l[1], l[2])
        BY <1>2, <4>2, <4>4
      <4>6. CASE Owed(u, l[1], l[2])
        <5>1. ranges'[k] = u /\ k \in 1 .. Len(ranges')
          BY <1>1
        <5> QED
          BY <4>6, <5>1
      <4>7. CASE l[2] \in a + 1 .. b
        <5>1. a # b
          BY <1>3, <4>7
        <5>2. Len(Texts') = n + 1 /\ HandedOn(x, t.file, a, b)
          BY <1>1, <5>1
        <5>3. Holds(x, l[1], l[2])
          BY <4>2, <4>4, <4>7, <5>2 DEF HandedOn, IsStart
        <5>4. n + 1 \in 1 .. Len(Texts')
          BY <1>3, <5>2
        <5> QED
          BY <5>3, <5>4
      <4> QED
        BY <4>5, <4>6, <4>7
    <3> QED
      BY <3>2, <3>3
  <2> QED
    BY <2>1, <2>2 DEF DirInv, NoLineLost
<1> QED
  BY <1>4, SameDir DEF NoLineLost

LEMMA ReadRoundKeeps ==
  ASSUME DirFixed, DirInv, NEW k \in 1 .. Len(ranges), ReadRound(k)
  PROVE  DirInv'
<1>1. UNCHANGED <<opened, files_read, curr_block, stream>> /\ total_files' = total_files
  BY DEF ReadRound, opened
<1>2. PICK a, b : RoundStep(k, a, b)
  BY RoundSteps
<1>3. TextsOK' /\ TasksOK' /\ NoLineLost'
  BY <1>1, <1>2, RoundTexts, RoundTasks, RoundLines
<1>4. /\ ranges' \in Seq(Tasks) /\ Len(ranges') = Len(ranges)
      /\ contents' \in Seq(Seq(Bytes)) /\ EndMarks' = EndMarks
  BY <1>2 DEF RoundStep
<1>5. DirTyped'
  BY <1>1, <1>4 DEF DirInv, DirTyped
<1>6. Counted'
  <2>1. ranges' # <<>>
    <3>1. Len(ranges') \in Nat /\ Len(ranges') > 0
      BY <1>4, StreamTyped DEF DirInv
    <3> QED
      BY <3>1
  <2> QED
    BY <1>1, <1>4, <2>1 DEF DirInv, Counted
<1> QED
  BY <1>3, <1>5, <1>6 DEF DirInv

LEMMA WithoutIs ==
  ASSUME NEW S, NEW s \in Seq(S), NEW k \in 1 .. Len(s)
  PROVE  /\ Without(s, k) \in Seq(S) /\ Len(Without(s, k)) = Len(s) - 1
         /\ \A j \in 1 .. Len(s) - 1 : Without(s, k)[j] = s[IF j < k THEN j ELSE j + 1]
<1> DEFINE n == Len(s)
           a == SubSeq(s, 1, k - 1)
           b == SubSeq(s, k + 1, n)
<1>1. n \in Nat /\ k - 1 \in 0 .. n /\ k \in Nat /\ n <= n /\ k <= n
  BY LenProperties
<1>2. a \in Seq(S) /\ Len(a) = k - 1 /\ \A j \in 1 .. k - 1 : a[j] = s[j]
  BY <1>1, Prefix
<1>3. b \in Seq(S) /\ Len(b) = n - k /\ \A j \in 1 .. n - k : b[j] = s[k + j]
  BY <1>1, Part
<1> HIDE DEF a, b
<1>4. /\ a \o b \in Seq(S) /\ Len(a \o b) = Len(a) + Len(b)
      /\ \A j \in 1 .. Len(a) : (a \o b)[j] = a[j]
      /\ \A j \in 1 .. Len(b) : (a \o b)[Len(a) + j] = b[j]
  <2>1. a \in Seq(S) /\ b \in Seq(S)
    BY <1>2, <1>3
  <2> QED
    BY <2>1, Joined
<1>5. Len(a \o b) = n - 1
  <2>1. Len(a \o b) = (k - 1) + (n - k)
    BY <1>2, <1>3, <1>4
  <2> QED
    BY <1>1, <2>1
<1>6. ASSUME NEW j \in 1 .. n - 1 PROVE (a \o b)[j] = s[IF j < k THEN j ELSE j + 1]
  <2>1. CASE j < k
    <3>1. j \in 1 .. k - 1
      BY <1>1, <2>1
    <3> QED
      BY <1>2, <1>4, <2>1, <3>1
  <2>2. CASE ~(j < k)
    <3> DEFINE i == j - (k - 1)
    <3>1. i \in 1 .. n - k /\ (k - 1) + i = j /\ k + i = j + 1
      BY <1>1, <2>2
    <3> HIDE DEF i
    <3>2. (a \o b)[(k - 1) + i] = b[i] /\ b[i] = s[k + i]
      BY <1>2, <1>3, <1>4, <3>1
    <3> QED
      BY <2>2, <3>1, <3>2
  <2> QED
    BY <2>1, <2>2
<1> QED
  BY <1>4, <1>5, <1>6 DEF Without, a, b

LEMMA EmptyMark ==
  /\ <<>> \in Seq(Bytes) /\ Len(<<>>) = 0 /\ Whole(<<>>) /\ Sorted(<<>>)
  /\ \A x : Precedes(x, <<>>) /\ Precedes(<<>>, x)
  /\ \A t : Behind(<<>>, t)
<1>1. <<>> \in Seq(Bytes) /\ Len(<<>>) = 0
  BY EmptySeq
<1>2. 1 .. Len(<<>>) = {}
  BY <1>1
<1> QED
  BY <1>1, <1>2 DEF Whole, Sorted, Precedes, Behind

LEMMA EndRangeKeeps ==
  ASSUME DirFixed, DirInv, NEW k \in 1 .. Len(ranges), EndRange(k)
  PROVE  DirInv'
<1> DEFINE n == Len(contents)
           r == Len(ranges)
           at(j) == IF j < k THEN j ELSE j + 1
<1>1. /\ UNCHANGED opened /\ UNCHANGED <<files_read, curr_block, stream, total_files>>
      /\ ranges[k].finished /\ contents' = Append(contents, <<>>) /\ ranges' = Without(ranges, k)
  BY DEF EndRange, opened
<1>2. /\ ranges \in Seq(Tasks) /\ contents \in Seq(Seq(Bytes)) /\ stream \in Seq(Bytes)
  BY DEF DirInv, DirTyped
<1>3. /\ r \in Nat /\ n \in Nat /\ Len(Texts) = n + 1 /\ Texts[1] = stream
      /\ \A i \in 1 .. n : Texts[i + 1] = contents[i]
      /\ IsFiniteSet(EndMarks) /\ Cardinality(EndMarks) \in Nat
  BY StreamTyped DEF DirInv
<1>4. /\ ranges' \in Seq(Tasks) /\ Len(ranges') = r - 1
      /\ \A j \in 1 .. r - 1 : ranges'[j] = ranges[at(j)]
  BY <1>1, <1>2, WithoutIs
<1>5. \A j \in 1 .. r - 1 : at(j) \in 1 .. r /\ at(j) # k
  BY <1>3
<1>6. \A i, j \in 1 .. r - 1 : at(i) = at(j) => i = j
  BY <1>3
<1>7. \A j \in 1 .. r : j # k => \E i \in 1 .. r - 1 : at(i) = j
  <2> SUFFICES ASSUME NEW j \in 1 .. r, j # k PROVE \E i \in 1 .. r - 1 : at(i) = j
    OBVIOUS
  <2>1. CASE j < k
    <3>1. j \in 1 .. r - 1 /\ at(j) = j
      BY <1>3, <2>1
    <3> QED
      BY <3>1
  <2>2. CASE ~(j < k)
    <3>1. j - 1 \in 1 .. r - 1 /\ at(j - 1) = j
      BY <1>3, <2>2
    <3> QED
      BY <3>1
  <2> QED
    BY <2>1, <2>2
<1> HIDE DEF at, r
<1>8. /\ contents' \in Seq(Seq(Bytes)) /\ Len(contents') = n + 1 /\ contents' # <<>>
      /\ \A i \in 1 .. n : contents'[i] = contents[i]
      /\ contents'[n + 1] = <<>>
  <2> DEFINE e == <<>>
  <2>1. e \in Seq(Bytes) /\ contents' = Append(contents, e) /\ contents \in Seq(Seq(Bytes))
    BY <1>1, <1>2, EmptyMark
  <2> HIDE DEF e
  <2>2. /\ Append(contents, e) \in Seq(Seq(Bytes)) /\ Append(contents, e) # <<>>
        /\ Len(Append(contents, e)) = Len(contents) + 1
        /\ \A i \in 1 .. Len(contents) : Append(contents, e)[i] = contents[i]
        /\ Append(contents, e)[Len(contents) + 1] = e
    BY <2>1, AppendProperties
  <2> QED
    BY <2>1, <2>2 DEF e
<1>9. /\ Len(Texts') = Len(contents') + 1 /\ Texts'[1] = stream'
      /\ \A i \in 1 .. Len(contents') : Texts'[i + 1] = contents'[i]
  <2>1. contents' \in Seq(Seq(Bytes)) /\ stream' \in Seq(Bytes)
    BY <1>1, <1>2, <1>8
  <2>2. Texts' = <<stream'>> \o contents'
    BY DEF Texts
  <2> QED
    BY <2>1, <2>2, TextsAre
<1> HIDE DEF n
<1>10. Len(Texts') = n + 2 /\ Texts'[n + 2] = <<>>
  <2>1. n + 1 \in 1 .. Len(contents') /\ (n + 1) + 1 = n + 2
    BY <1>3, <1>8
  <2> QED
    BY <1>3, <1>8, <1>9, <2>1
<1>11. ASSUME NEW i \in 1 .. n + 1 PROVE Texts'[i] = Texts[i]
  <2>1. CASE i = 1
    BY <1>1, <1>3, <1>9, <2>1
  <2>2. CASE i # 1
    <3>1. i - 1 \in 1 .. n /\ i - 1 \in 1 .. Len(contents') /\ (i - 1) + 1 = i
      BY <1>3, <1>8, <2>2
    <3> QED
      BY <1>3, <1>8, <1>9, <3>1
  <2> QED
    BY <2>1, <2>2
<1>12. \A i : i \in 1 .. Len(Texts') <=> i \in 1 .. n + 1 \/ i = n + 2
  BY <1>3, <1>10
<1>13. /\ \A i \in 1 .. n + 1 : Whole(Texts[i]) /\ Sorted(Texts[i])
       /\ \A i, j \in 1 .. n + 1 : i < j => Precedes(Texts[i], Texts[j])
       /\ \A j \in 1 .. r : TaskOK(ranges[j])
       /\ \A i, j \in 1 .. r : ranges[i].file = ranges[j].file => i = j
       /\ \A i \in 1 .. n + 1, j \in 1 .. r : ~ranges[j].finished => Behind(Texts[i], ranges[j])
  BY <1>3 DEF DirInv, TextsOK, TasksOK, r
<1>14. TextsOK'
  <2>1. \A i \in 1 .. Len(Texts') : Whole(Texts'[i]) /\ Sorted(Texts'[i])
    BY <1>10, <1>11, <1>12, <1>13, EmptyMark
  <2>2. ASSUME NEW i \in 1 .. Len(Texts'), NEW j \in 1 .. Len(Texts'), i < j
        PROVE  Precedes(Texts'[i], Texts'[j])
    BY <1>10, <1>11, <1>12, <1>13, <2>2, EmptyMark
  <2> QED
    BY <1>1, <2>1, <2>2, SameDir DEF TextsOK
<1>15. TasksOK'
  <2>1. \A j \in 1 .. Len(ranges') : TaskOK(ranges'[j])
    BY <1>4, <1>5, <1>13
  <2>2. \A i, j \in 1 .. Len(ranges') : ranges'[i].file = ranges'[j].file => i = j
    BY <1>4, <1>5, <1>6, <1>13
  <2>3. ASSUME NEW i \in 1 .. Len(Texts'), NEW j \in 1 .. Len(ranges'), ~ranges'[j].finished
        PROVE  Behind(Texts'[i], ranges'[j])
    <3>1. ranges'[j] = ranges[at(j)] /\ at(j) \in 1 .. r
      BY <1>4, <1>5
    <3>2. CASE i \in 1 .. n + 1
      BY <1>11, <1>13, <2>3, <3>1, <3>2
    <3>3. CASE i = n + 2
      BY <1>10, <3>3, EmptyMark
    <3> QED
      BY <1>12, <3>2, <3>3
  <2> QED
    BY <1>1, <2>1, <2>2, <2>3, SameDir DEF TasksOK
<1>16. NoLineLost'
  <2>1. ASSUME NEW l \in Share(dir, my_reader_id, support_seek)
        PROVE  \/ \E i \in 1 .. Len(Texts') : Holds(Texts'[i], l[1], l[2])
               \/ \E j \in 1 .. Len(ranges') : Owed(ranges'[j], l[1], l[2])
    <3>1. CASE \E i \in 1 .. n + 1 : Holds(Texts[i], l[1], l[2])
      BY <1>11, <1>12, <3>1
    <3>2. CASE \E j \in 1 .. r : Owed(ranges[j], l[1], l[2])
      <4>1. PICK j \in 1 .. r : Owed(ranges[j], l[1], l[2])
        BY <3>2
      <4>2. j # k
        BY <1>1, <4>1 DEF Owed
      <4>3. PICK i \in 1 .. r - 1 : at(i) = j
        BY <1>7, <4>2
      <4>4. i \in 1 .. Len(ranges') /\ ranges'[i] = ranges[j]
        BY <1>4, <4>3
      <4> QED
        BY <4>1, <4>4
    <3> QED
      BY <1>3, <3>1, <3>2 DEF DirInv, NoLineLost, r
  <2> QED
    BY <1>1, <2>1, SameDir DEF NoLineLost
<1>17. Counted'
  <2>1. EndMarks' = EndMarks \cup {n + 1}
    <3>1. EndMarks' = {i \in 1 .. Len(contents') : contents'[i] = <<>>}
      BY DEF EndMarks
    <3>2. EndMarks = {i \in 1 .. n : contents[i] = <<>>}
      BY DEF EndMarks, n
    <3>3. \A i : i \in 1 .. Len(contents') <=> i \in 1 .. n \/ i = n + 1
      BY <1>3, <1>8
    <3>4. \A i : i \in EndMarks' <=> i \in EndMarks \/ i = n + 1
      BY <1>8, <3>1, <3>2, <3>3
    <3> QED
      BY <3>4
  <2>2. n + 1 \notin EndMarks
    BY <1>3 DEF EndMarks, n
  <2>3. Cardinality(EndMarks') = Cardinality(EndMarks) + 1
    BY <1>3, <2>1, <2>2, FS_AddElement
  <2>4. files_read + Cardinality(EndMarks) + r = total_files /\ files_read \in Nat
    BY DEF DirInv, Counted, DirTyped, r
  <2>5. files_read' + Cardinality(EndMarks') + Len(ranges') = total_files'
    BY <1>1, <1>3, <1>4, <2>3, <2>4
  <2>6. contents'[Len(contents')] = <<>>
    BY <1>8
  <2> QED
    BY <2>5, <2>6 DEF Counted
<1>18. DirTyped'
  BY <1>1, <1>4, <1>8 DEF DirInv, DirTyped
<1> QED
  BY <1>14, <1>15, <1>16, <1>17, <1>18 DEF DirInv

\* One text less, the first two being joined.
LEMMA MarksShift ==
  ASSUME NEW n \in Nat \ {0}, NEW M \in SUBSET (1 .. n), NEW N \in SUBSET (1 .. n - 1),
         \A i \in 1 .. n - 1 : i \in N <=> i + 1 \in M
  PROVE  Cardinality(M) = Cardinality(N) + (IF 1 \in M THEN 1 ELSE 0)
<1>1. /\ IsFiniteSet(M) /\ Cardinality(M) \in Nat /\ IsFiniteSet(N) /\ Cardinality(N) \in Nat
  <2>1. M \in SUBSET Nat /\ N \in SUBSET Nat /\ (\A i \in M : i <= n) /\ (\A i \in N : i <= n)
    OBVIOUS
  <2> QED
    BY <2>1, Bounded
<1> DEFINE T == M \ {1}
           g == [i \in N |-> i + 1]
<1>2. g \in Bijection(N, T)
  <2>1. g \in [N -> T]
    <3>1. ASSUME NEW i \in N PROVE i + 1 \in M /\ i + 1 # 1
      OBVIOUS
    <3> QED
      BY <3>1
  <2>2. \A i, j \in N : g[i] = g[j] => i = j
    OBVIOUS
  <2>3. \A m \in T : \E i \in N : g[i] = m
    <3> SUFFICES ASSUME NEW m \in T PROVE \E i \in N : g[i] = m
      OBVIOUS
    <3>1. m - 1 \in 1 .. n - 1 /\ (m - 1) + 1 = m
      OBVIOUS
    <3>2. m - 1 \in N
      BY <3>1
    <3> QED
      BY <3>1, <3>2
  <2> HIDE DEF g, T
  <2> QED
    BY <2>1, <2>2, <2>3 DEF Bijection, Injection, Surjection, IsInjective
<1>3. Cardinality(T) = Cardinality(N)
  <2>1. ExistsBijection(N, T)
    BY <1>2 DEF ExistsBijection
  <2> HIDE DEF T
  <2> QED
    BY <1>1, <2>1, FS_Bijection
<1>4. Cardinality(T) = IF 1 \in M THEN Cardinality(M) - 1 ELSE Cardinality(M)
  BY <1>1, FS_RemoveElement
<1> QED
  BY <1>1, <1>3, <1>4

LEMMA PopBlockKeeps ==
  ASSUME DirFixed, DirInv, PopBlock
  PROVE  DirInv'
<1> DEFINE n == Len(contents)
           h == Head(contents)
<1>1. /\ UNCHANGED opened /\ ranges' = ranges /\ total_files' = total_files
      /\ contents # <<>> /\ curr_block' = h /\ contents' = Tail(contents) /\ stream' = stream \o h
      /\ files_read' = files_read + (IF h = <<>> THEN 1 ELSE 0)
  BY DEF PopBlock, opened
<1>2. /\ ranges \in Seq(Tasks) /\ contents \in Seq(Seq(Bytes)) /\ stream \in Seq(Bytes)
      /\ files_read \in Nat /\ total_files \in Nat
  BY DEF DirInv, DirTyped
<1>3. /\ n \in Nat /\ Len(Texts) = n + 1 /\ Texts[1] = stream
      /\ \A i \in 1 .. n : Texts[i + 1] = contents[i]
      /\ \A i \in 1 .. n + 1 : Texts[i] \in Seq(Bytes)
  BY StreamTyped DEF DirInv
<1>4. n > 0
  BY <1>1, <1>2, EmptySeq
<1>5. /\ h \in Seq(Bytes) /\ contents' \in Seq(Seq(Bytes)) /\ Len(contents') = n - 1
      /\ \A i \in 1 .. n - 1 : contents'[i] = contents[i + 1]
  BY <1>1, <1>2, HeadTailProperties
<1>6. h = contents[1]
  BY <1>1, <1>2, <1>4
<1> HIDE DEF h
<1>7. stream' \in Seq(Bytes)
  BY <1>1, <1>2, <1>5, Joined
<1>8. /\ Len(Texts') = n /\ Texts'[1] = stream \o h
      /\ \A i \in 2 .. n : Texts'[i] = Texts[i + 1]
  <2>1. /\ Len(Texts') = Len(contents') + 1 /\ Texts'[1] = stream'
        /\ \A i \in 1 .. Len(contents') : Texts'[i + 1] = contents'[i]
    <3>1. Texts' = <<stream'>> \o contents'
      BY DEF Texts
    <3> QED
      BY <1>5, <1>7, <3>1, TextsAre
  <2> HIDE DEF n
  <2>2. Len(Texts') = n /\ Texts'[1] = stream \o h
    BY <1>1, <1>3, <1>5, <2>1
  <2>3. ASSUME NEW i \in 2 .. n PROVE Texts'[i] = Texts[i + 1]
    <3>1. i - 1 \in 1 .. Len(contents') /\ i - 1 \in 1 .. n - 1 /\ (i - 1) + 1 = i /\ i \in 1 .. n
      BY <1>3, <1>5
    <3>2. Texts'[i] = contents'[i - 1] /\ contents'[i - 1] = contents[i]
      BY <1>5, <2>1, <3>1
    <3> QED
      BY <1>3, <3>1, <3>2
  <2> QED
    BY <2>2, <2>3
<1>9. Texts[2] = h
  <2>1. 1 \in 1 .. n /\ 1 + 1 = 2
    BY <1>3, <1>4
  <2> QED
    BY <1>3, <1>6, <2>1
<1> HIDE DEF n
<1>10. /\ \A i \in 1 .. n + 1 : Whole(Texts[i]) /\ Sorted(Texts[i])
       /\ \A i, j \in 1 .. n + 1 : i < j => Precedes(Texts[i], Texts[j])
       /\ \A i \in 1 .. n + 1, j \in 1 .. Len(ranges) : ~ranges[j].finished => Behind(Texts[i], ranges[j])
       /\ \A j \in 1 .. Len(ranges) : TaskOK(ranges[j])
       /\ \A i, j \in 1 .. Len(ranges) : ranges[i].file = ranges[j].file => i = j
  BY <1>3 DEF DirInv, TextsOK, TasksOK
<1>11. 1 \in 1 .. n + 1 /\ 2 \in 1 .. n + 1 /\ 1 < 2 /\ \A i \in 2 .. n : i + 1 \in 1 .. n + 1 /\ 1 < i + 1 /\ 2 < i + 1
  BY <1>3, <1>4
<1>12. Whole(stream) /\ Whole(h) /\ Sorted(stream) /\ Sorted(h) /\ Precedes(stream, h)
  BY <1>3, <1>9, <1>10, <1>11
<1>13. Whole(stream \o h) /\ Sorted(stream \o h)
  BY <1>2, <1>5, <1>12, WholeJoined, SortedJoined
<1>14. \A i : i \in 1 .. n <=> i = 1 \/ i \in 2 .. n
  BY <1>3, <1>4
<1>15. TextsOK'
  <2>1. \A i \in 1 .. Len(Texts') : Whole(Texts'[i]) /\ Sorted(Texts'[i])
    BY <1>8, <1>10, <1>11, <1>13, <1>14
  <2>2. ASSUME NEW i \in 1 .. Len(Texts'), NEW j \in 1 .. Len(Texts'), i < j
        PROVE  Precedes(Texts'[i], Texts'[j])
    <3>1. j \in 2 .. n /\ Texts'[j] = Texts[j + 1]
      BY <1>3, <1>8, <2>2
    <3>2. CASE i = 1
      <4>1. Precedes(stream, Texts[j + 1]) /\ Precedes(h, Texts[j + 1])
        BY <1>3, <1>9, <1>10, <1>11, <3>1
      <4>2. Precedes(stream \o h, Texts[j + 1])
        BY <1>2, <1>5, <4>1, PrecedesJoined
      <4> QED
        BY <1>8, <3>1, <3>2, <4>2
    <3>3. CASE i \in 2 .. n
      <4>1. Texts'[i] = Texts[i + 1] /\ i + 1 < j + 1 /\ i + 1 \in 1 .. n + 1 /\ j + 1 \in 1 .. n + 1
        BY <1>8, <1>11, <2>2, <3>1, <3>3
      <4> QED
        BY <1>10, <3>1, <4>1
    <3> QED
      BY <1>8, <1>14, <3>2, <3>3
  <2> QED
    BY <1>1, <2>1, <2>2, SameDir DEF TextsOK
<1>16. /\ Len(stream) \in Nat /\ Len(h) \in Nat /\ Len(stream \o h) = Len(stream) + Len(h)
       /\ \A j \in 1 .. Len(stream) : (stream \o h)[j] = stream[j]
       /\ \A j \in 1 .. Len(h) : (stream \o h)[Len(stream) + j] = h[j]
  BY <1>2, <1>5, Joined
<1>17. ASSUME NEW t, Behind(stream, t), Behind(h, t) PROVE Behind(stream \o h, t)
  <2> SUFFICES ASSUME NEW m \in 1 .. Len(stream \o h), ~IsNewLine((stream \o h)[m]),
                      (stream \o h)[m][1] = t.file
               PROVE  (stream \o h)[m][2] <= Done(t)
    BY DEF Behind
  <2>1. CASE m \in 1 .. Len(stream)
    <3>1. (stream \o h)[m] = stream[m]
      BY <1>16, <2>1
    <3> QED
      BY <1>17, <2>1, <3>1 DEF Behind
  <2>2. CASE m \notin 1 .. Len(stream)
    <3>1. m - Len(stream) \in 1 .. Len(h) /\ Len(stream) + (m - Len(stream)) = m
      BY <1>16, <2>2
    <3>2. (stream \o h)[m] = h[m - Len(stream)]
      BY <1>16, <3>1
    <3> QED
      BY <1>17, <3>1, <3>2 DEF Behind
  <2> QED
    BY <2>1, <2>2
<1>18. TasksOK'
  <2>1. ASSUME NEW i \in 1 .. Len(Texts'), NEW j \in 1 .. Len(ranges), ~ranges[j].finished
        PROVE  Behind(Texts'[i], ranges[j])
    <3>1. CASE i = 1
      <4>1. Behind(stream, ranges[j]) /\ Behind(h, ranges[j])
        BY <1>3, <1>9, <1>10, <1>11, <2>1
      <4> QED
        BY <1>8, <1>17, <3>1, <4>1
    <3>2. CASE i \in 2 .. n
      BY <1>8, <1>10, <1>11, <2>1, <3>2
    <3> QED
      BY <1>8, <1>14, <3>1, <3>2
  <2> QED
    BY <1>1, <1>10, <2>1, SameDir DEF TasksOK
<1>19. NoLineLost'
  <2>1. ASSUME NEW l \in Share(dir, my_reader_id, support_seek),
               NEW i \in 1 .. n + 1, Holds(Texts[i], l[1], l[2])
        PROVE  \E j \in 1 .. Len(Texts') : Holds(Texts'[j], l[1], l[2])
    <3>0. 1 \in 1 .. Len(Texts')
      BY <1>8, <1>14
    <3>1. CASE i = 1
      <4>1. PICK m \in 1 .. Len(stream) : stream[m] = Byte(l[1], l[2])
        BY <1>3, <2>1, <3>1 DEF Holds
      <4>2. m \in 1 .. Len(stream \o h) /\ (stream \o h)[m] = Byte(l[1], l[2])
        BY <1>16, <4>1
      <4>3. Holds(stream \o h, l[1], l[2])
        BY <4>2 DEF Holds
      <4> QED
        BY <1>8, <3>0, <4>3
    <3>2. CASE i = 2
      <4>1. PICK m \in 1 .. Len(h) : h[m] = Byte(l[1], l[2])
        BY <1>9, <2>1, <3>2 DEF Holds
      <4>2. Len(stream) + m \in 1 .. Len(stream \o h) /\ (stream \o h)[Len(stream) + m] = Byte(l[1], l[2])
        BY <1>16, <4>1
      <4>3. Holds(stream \o h, l[1], l[2])
        BY <4>2 DEF Holds
      <4> QED
        BY <1>8, <3>0, <4>3
    <3>3. CASE i # 1 /\ i # 2
      <4>1. i - 1 \in 2 .. n /\ (i - 1) + 1 = i /\ i - 1 \in 1 .. Len(Texts')
        BY <1>3, <1>8, <3>3
      <4>2. Texts'[i - 1] = Texts[i]
        BY <1>8, <4>1
      <4> QED
        BY <2>1, <4>1, <4>2
    <3> QED
      BY <3>1, <3>2, <3>3
  <2>2. ASSUME NEW l \in Share(dir, my_reader_id, support_seek)
        PROVE  \/ \E i \in 1 .. Len(Texts') : Holds(Texts'[i], l[1], l[2])
               \/ \E j \in 1 .. Len(ranges) : Owed(ranges[j], l[1], l[2])
    BY <1>3, <2>1 DEF DirInv, NoLineLost
  <2> QED
    BY <1>1, <2>2, SameDir DEF NoLineLost
<1>20. Counted'
  <2>1. n \in Nat \ {0} /\ EndMarks \in SUBSET (1 .. n) /\ EndMarks' \in SUBSET (1 .. n - 1)
        /\ \A i \in 1 .. n - 1 : i \in EndMarks' <=> i + 1 \in EndMarks
    <3>1. EndMarks' = {i \in 1 .. Len(contents') : contents'[i] = <<>>}
      BY DEF EndMarks
    <3>2. EndMarks = {i \in 1 .. n : contents[i] = <<>>}
      BY DEF EndMarks, n
    <3>3. \A i \in 1 .. n - 1 : i + 1 \in 1 .. n
      BY <1>3
    <3>4. \A i : i \in EndMarks <=> i \in 1 .. n /\ contents[i] = <<>>
      BY <3>2
    <3>5. \A i : i \in EndMarks' <=> i \in 1 .. n - 1 /\ contents'[i] = <<>>
      BY <1>5, <3>1
    <3>6. \A i : i \in EndMarks' <=> i \in 1 .. n - 1 /\ contents[i + 1] = <<>>
      BY <1>5, <3>5
    <3>7. \A i \in 1 .. n - 1 : i \in EndMarks' <=> i + 1 \in EndMarks
      BY <3>3, <3>4, <3>6
    <3>8. EndMarks \in SUBSET (1 .. n) /\ EndMarks' \in SUBSET (1 .. n - 1)
      BY <3>4, <3>6
    <3> QED
      BY <1>3, <1>4, <3>7, <3>8
  <2>2. Cardinality(EndMarks) = Cardinality(EndMarks') + (IF 1 \in EndMarks THEN 1 ELSE 0)
    <3> DEFINE M == EndMarks N == EndMarks'
    <3>1. M \in SUBSET (1 .. n) /\ N \in SUBSET (1 .. n - 1) /\ \A i \in 1 .. n - 1 : i \in N <=> i + 1 \in M
      BY <2>1
    <3> HIDE DEF M, N
    <3>2. Cardinality(M) = Cardinality(N) + (IF 1 \in M THEN 1 ELSE 0)
      BY <2>1, <3>1, MarksShift
    <3> QED
      BY <3>2 DEF M, N
  <2>3. 1 \in EndMarks <=> h = <<>>
    <3>1. 1 \in 1 .. n
      BY <1>3, <1>4
    <3> QED
      BY <1>6, <3>1 DEF EndMarks, n
  <2>4. Cardinality(EndMarks) \in Nat /\ Cardinality(EndMarks') \in Nat /\ Len(ranges) \in Nat
    <3>1. EndMarks' \in SUBSET Nat /\ \A i \in EndMarks' : i <= n
      BY <1>3, <2>1
    <3> QED
      BY <1>3, <3>1, Bounded, StreamTyped DEF DirInv
  <2>5. files_read + Cardinality(EndMarks) + Len(ranges) = total_files
    BY DEF DirInv, Counted
  <2>6. files_read' + Cardinality(EndMarks') + Len(ranges') = total_files'
    BY <1>1, <1>2, <2>2, <2>3, <2>4, <2>5
  <2>7. ASSUME ranges' = <<>>, contents' # <<>> PROVE contents'[Len(contents')] = <<>>
    <3>1. Len(contents') # 0
      <4>1. Len(contents') \in Nat \ {0}
        BY <1>5, <2>7, EmptySeq
      <4> QED
        BY <4>1
    <3>2. n - 1 \in 1 .. n - 1 /\ (n - 1) + 1 = n
      BY <1>3, <1>4, <1>5, <3>1
    <3>3. contents'[Len(contents')] = contents[n]
      BY <1>5, <3>2
    <3> QED
      BY <1>1, <2>7, <3>3 DEF DirInv, Counted, n
  <2> QED
    BY <2>6, <2>7 DEF Counted
<1>21. DirTyped'
  BY <1>1, <1>2, <1>5, <1>7 DEF DirTyped
<1> QED
  BY <1>15, <1>18, <1>19, <1>20, <1>21 DEF DirInv

LEMMA OpenDirStarts ==
  ASSUME DirFixed, OpenDir, contents = <<>>, stream = <<>>, curr_block = <<>>, files_read = 0
  PROVE  DirInv'
<1> DEFINE R == Ranges(dir, my_reader_id, support_seek)
           r == Len(R)
<1>1. /\ ranges' = [k \in DOMAIN R |-> Task(R[k])]
      /\ total_files' = TotalFiles(dir, my_reader_id, support_seek)
      /\ dir' = dir /\ support_seek' = support_seek /\ my_reader_id' = my_reader_id
      /\ contents' = <<>> /\ stream' = <<>> /\ curr_block' = <<>> /\ files_read' = 0
  BY DEF OpenDir
<1>2. Sharable(dir, support_seek) /\ my_reader_id \in 0 .. NReaders - 1
  BY FixedSharable
<1>3. R \in Seq(FileRanges) /\ r = TotalFiles(dir, my_reader_id, support_seek)
  BY <1>2, RangesAre
<1>4. r \in Nat /\ DOMAIN R = 1 .. r
  BY <1>3, LenProperties
<1>5. ASSUME NEW k \in 1 .. r
      PROVE  /\ R[k] \in FileRanges /\ R[k] = FileRange(R[k].file, R[k].off, R[k].size)
             /\ R[k].file \in DOMAIN dir /\ R[k].off + R[k].size <= Len(dir[R[k].file])
  BY <1>2, RangeFrom
<1>6. \A j, k \in 1 .. r : R[j].file = R[k].file => j = k
  BY <1>2, OneRangeOfFile
<1>7. \A x : Whole(x)' <=> Whole(x)
  BY <1>1 DEF Whole, Genuine, Byte, EndsWith, BeginsAfter, Mine
<1>8. \A t : TaskOK(t)' <=> TaskOK(t)
  BY <1>1 DEF TaskOK, Loop, IsMyRange, BeginsAfter
<1>9. \A k \in 1 .. r : IsMyRange(R[k])
  BY <1>4, <1>5 DEF IsMyRange
<1> HIDE DEF R, r
<1>10. /\ \A k \in 1 .. r : ranges'[k] = Task(R[k]) /\ Task(R[k]) \in Tasks
       /\ ranges' \in Seq(Tasks) /\ Len(ranges') = r
  <2>1. ASSUME NEW k \in 1 .. r PROVE ranges'[k] = Task(R[k]) /\ Task(R[k]) \in Tasks
    <3>1. R[k].file \in Nat /\ R[k].off \in Nat /\ R[k].size \in Nat
      BY <1>5 DEF FileRanges
    <3> QED
      BY <1>1, <1>4, <3>1, EmptyMark DEF Task, Tasks
  <2>2. ranges' \in [1 .. r -> Tasks]
    BY <1>1, <1>4, <2>1
  <2>3. ranges' \in Seq(Tasks)
    BY <1>4, <2>2
  <2>4. Len(ranges') = r
    BY <1>4, <2>2, <2>3, LenProperties
  <2> QED
    BY <2>1, <2>3, <2>4
<1>11. ASSUME NEW k \in 1 .. r
       PROVE  LET t == Task(R[k]) IN
              /\ t.file = R[k].file /\ t.off = R[k].off /\ t.size = R[k].size /\ ~t.finished
              /\ Done(t) = t.off /\ TaskOK(t)
  <2> DEFINE t == Task(R[k])
  <2>1. /\ t.file = R[k].file /\ t.off = R[k].off /\ t.size = R[k].size
        /\ t.bytes_read = 0 /\ t.left_over = <<>> /\ t.partial_head /\ ~t.finished
    BY DEF Task
  <2>2. t.off \in Nat /\ t.file \in DOMAIN dir /\ t.size \in Nat /\ t.off + t.size <= Len(dir[t.file])
    BY <1>5, <2>1 DEF FileRanges
  <2> HIDE DEF t
  <2>3. Done(t) = t.off
    <3>1. Len(t.left_over) = 0
      BY <2>1, EmptyMark
    <3> QED
      BY <2>1, <2>2, <3>1 DEF Done
  <2>4. t.left_over = BytesAt(dir, t.file, Done(t), Len(t.left_over))
    <3>1. Stretch(t.file, t.off, t.off) = <<>>
      <4>1. t.off <= Len(dir[t.file])
        BY <2>2, FileBytes
      <4> QED
        BY <2>2, <4>1, StretchEmpty
    <3>2. Stretch(t.file, t.off, t.off) = BytesAt(dir, t.file, t.off, 0)
      <4>1. t.off - t.off = 0
        BY <2>2
      <4> QED
        BY <4>1 DEF Stretch
    <3> QED
      BY <2>1, <2>3, <3>1, <3>2, EmptyMark
  <2>5. NewLines(t.left_over) = {}
    BY <2>1, EmptyText
  <2>6. IF Skips(t)
        THEN t.left_over = <<>> /\ \A p \in t.off + 1 .. t.off + t.bytes_read : dir[t.file][p] # "\n"
        ELSE BeginsAfter(t.file, Done(t)) /\ (t.off = 0 \/ t.off < Done(t))
    <3>1. CASE Skips(t)
      <4>1. \A p : p \notin t.off + 1 .. t.off + t.bytes_read
        BY <2>1, <2>2
      <4> QED
        BY <2>1, <3>1, <4>1
    <3>2. CASE ~Skips(t)
      <4>1. t.off = 0
        BY <2>1, <3>2 DEF Skips
      <4> QED
        BY <2>3, <3>2, <4>1 DEF BeginsAfter
    <3> QED
      BY <3>1, <3>2
  <2>7. Loop(t)
    <3>1. t.off <= Done(t)
      BY <2>2, <2>3
    <3> QED
      BY <2>1, <2>4, <2>5, <2>6, <3>1 DEF Loop
  <2>8. IsMyRange(t)
    BY <1>9, <2>1 DEF IsMyRange
  <2> QED
    BY <2>1, <2>2, <2>3, <2>7, <2>8 DEF TaskOK, t
<1>12. Len(Texts') = 1 /\ Texts'[1] = <<>>
  <2> DEFINE s == <<>> c == <<>>
  <2>1. s \in Seq(Bytes) /\ c \in Seq(Seq(Bytes)) /\ Len(c) = 0
    BY EmptySeq
  <2>2. Texts' = <<s>> \o c
    BY <1>1 DEF Texts
  <2> HIDE DEF s, c
  <2>3. Len(<<s>> \o c) = Len(c) + 1 /\ (<<s>> \o c)[1] = s
    BY <2>1, TextsAre
  <2> QED
    BY <2>1, <2>2, <2>3 DEF s
<1>13. \A i : i \in 1 .. Len(Texts') <=> i = 1
  BY <1>12
<1>14. DirTyped'
  BY <1>1, <1>3, <1>4, <1>10, EmptySeq DEF DirTyped
<1>15. TextsOK'
  BY <1>7, <1>12, <1>13, EmptyMark DEF TextsOK
<1>16. TasksOK'
  <2>1. \A k \in 1 .. Len(ranges') : TaskOK(ranges'[k])
    BY <1>10, <1>11
  <2>2. \A j, k \in 1 .. Len(ranges') : ranges'[j].file = ranges'[k].file => j = k
    BY <1>6, <1>10, <1>11
  <2>3. \A i \in 1 .. Len(Texts'), k \in 1 .. Len(ranges') :
          ~ranges'[k].finished => Behind(Texts'[i], ranges'[k])
    BY <1>12, <1>13, EmptyMark
  <2> QED
    BY <1>8, <2>1, <2>2, <2>3 DEF TasksOK
<1>17. NoLineLost'
  <2>1. ASSUME NEW l \in Share(dir, my_reader_id, support_seek)
        PROVE  \E k \in 1 .. Len(ranges') : Owed(ranges'[k], l[1], l[2])
    <3>1. l \in FileLines(dir) /\ \E k \in DOMAIN R : Owns(R[k], l[1], l[2])
      BY DEF Share, R
    <3>2. PICK k \in 1 .. r : Owns(R[k], l[1], l[2])
      BY <1>4, <3>1
    <3>3. l[2] \in Nat \ {0}
      <4>1. dir \in Seq(Seq(Kinds))
        BY FixedSharable
      <4>2. \A m : m \in FileLines(dir) <=>
              \E f \in DOMAIN dir : \E p \in 1 .. Len(dir[f]) :
                 m = <<f, p>> /\ dir[f][p] # "\n" /\ (p = 1 \/ dir[f][p - 1] = "\n")
        BY <4>1, LinesOfFiles
      <4>3. PICK f \in DOMAIN dir : \E p \in 1 .. Len(dir[f]) : l = <<f, p>>
        BY <3>1, <4>2
      <4>4. PICK p \in 1 .. Len(dir[f]) : l = <<f, p>>
        BY <4>3
      <4> QED
        BY <4>4
    <3>4. R[k].off < l[2] /\ R[k].off \in Nat
      <4>1. R[k].off \in Nat
        BY <1>5 DEF FileRanges
      <4> QED
        BY <3>2, <3>3, <4>1 DEF Owns
    <3> DEFINE t == Task(R[k])
    <3>5. t.file = R[k].file /\ t.off = R[k].off /\ t.size = R[k].size /\ ~t.finished /\ Done(t) = t.off
      BY <1>11
    <3> HIDE DEF t
    <3>6. Owns(t, l[1], l[2])
      BY <3>2, <3>5 DEF Owns
    <3>7. Owed(t, l[1], l[2])
      BY <3>4, <3>5, <3>6 DEF Owed
    <3> QED
      BY <1>10, <3>7 DEF t
  <2> QED
    BY <1>1, <2>1 DEF NoLineLost
<1>18. Counted'
  <2>1. EndMarks' = {}
    <3>1. EndMarks' = {i \in 1 .. Len(contents') : contents'[i] = <<>>}
      BY DEF EndMarks
    <3>2. Len(contents') = 0
      BY <1>1, EmptyMark
    <3> QED
      BY <3>1, <3>2
  <2>2. Cardinality(EndMarks') = 0
    BY <2>1, FS_EmptySet
  <2> QED
    BY <1>1, <1>3, <1>4, <1>10, <2>2 DEF Counted
<1> QED
  BY <1>14, <1>15, <1>16, <1>17, <1>18 DEF DirInv

\* The steps that only take from curr_block leave the rest as it is.
LEMMA DirUnchanged ==
  ASSUME DirInv, UNCHANGED <<opened, ranges, contents, files_read, stream>>, curr_block' \in Seq(Bytes)
  PROVE  DirInv'
<1>1. /\ UNCHANGED opened /\ ranges' = ranges /\ contents' = contents /\ files_read' = files_read
      /\ stream' = stream /\ total_files' = total_files
  BY DEF opened
<1>2. Texts' = Texts /\ EndMarks' = EndMarks
  BY <1>1 DEF Texts, EndMarks
<1>3. DirTyped' /\ Counted'
  BY <1>1, <1>2 DEF DirInv, DirTyped, Counted
<1>4. TextsOK'
  BY <1>1, <1>2, SameDir DEF DirInv, TextsOK
<1>5. TasksOK'
  BY <1>1, <1>2, SameDir DEF DirInv, TasksOK
<1>6. NoLineLost'
  BY <1>1, <1>2, SameDir DEF DirInv, NoLineLost
<1> QED
  BY <1>3, <1>4, <1>5, <1>6 DEF DirInv

(***************************************************************************)
(* The stream and its pieces.                                              *)
(***************************************************************************)
LEMMA WholeEnds ==
  ASSUME NEW text \in Seq(Bytes), Whole(text), text # <<>>
  PROVE  Len(text) \in 1 .. Len(text) /\ IsNewLine(text[Len(text)])
<1>1. Len(text) \in Nat \ {0}
  BY EmptySeq
<1>2. Len(text) \in 1 .. Len(text) /\ ~(Len(text) < Len(text))
  BY <1>1
<1> QED
  BY <1>2 DEF Whole

\* A text that goes on behind a line break has its lines still.
LEMMA Grown ==
  ASSUME NEW s \in Seq(Bytes), NEW h \in Seq(Bytes), s # <<>> => IsNewLine(s[Len(s)])
  PROVE  /\ s \o h \in Seq(Bytes) /\ Len(s) \in Nat /\ Len(h) \in Nat /\ Len(s \o h) = Len(s) + Len(h)
         /\ \A m \in 1 .. Len(s) : (s \o h)[m] = s[m]
         /\ \A m \in 1 .. Len(s) : m \in LineStarts(s \o h) <=> m \in LineStarts(s)
         /\ \A m \in LineStarts(s) : LineAt(s \o h, m) = LineAt(s, m)
         /\ \A a, b \in Nat : a <= b /\ b <= Len(s) => SubSeq(s \o h, a + 1, b) = SubSeq(s, a + 1, b)
<1> DEFINE u == s \o h
<1>1. /\ u \in Seq(Bytes) /\ Len(s) \in Nat /\ Len(h) \in Nat /\ Len(u) = Len(s) + Len(h)
      /\ \A m \in 1 .. Len(s) : u[m] = s[m]
  BY Joined
<1> HIDE DEF u
<1>2. ASSUME NEW m \in 1 .. Len(s) PROVE m \in LineStarts(u) <=> m \in LineStarts(s)
  <2>1. m \in 1 .. Len(u) /\ (m = 1 \/ m - 1 \in 1 .. Len(s))
    BY <1>1
  <2>2. u[m] = s[m] /\ (m # 1 => u[m - 1] = s[m - 1])
    BY <1>1, <2>1
  <2>3. m \in LineStarts(s) <=> m \in 1 .. Len(s) /\ ~IsNewLine(s[m]) /\ (m = 1 \/ IsNewLine(s[m - 1]))
    BY LinesBegin
  <2>4. m \in LineStarts(u) <=> m \in 1 .. Len(u) /\ ~IsNewLine(u[m]) /\ (m = 1 \/ IsNewLine(u[m - 1]))
    BY <1>1, LinesBegin
  <2> QED
    BY <2>1, <2>2, <2>3, <2>4
<1>3. ASSUME NEW m \in LineStarts(s) PROVE LineAt(u, m) = LineAt(s, m)
  <2>1. m \in 1 .. Len(s) /\ ~IsNewLine(s[m])
    BY LinesBegin
  <2> DEFINE e == LineEnd(s, m)
             n == e - m
  <2>2. /\ e \in m .. Len(s) /\ \A j \in m .. e : ~IsNewLine(s[j])
        /\ e = Len(s) \/ IsNewLine(s[e + 1])
    BY <2>1, LineIs
  <2> HIDE DEF e
  <2>3. e # Len(s)
    <3>1. s # <<>> /\ e \in m .. e
      <4>1. Len(s) > 0
        BY <1>1, <2>1
      <4> QED
        BY <2>1, <2>2, <4>1, EmptySeq
    <3> QED
      BY <2>2, <3>1
  <2>4. n \in Nat /\ m + n = e /\ m + n <= Len(s) /\ m + n <= Len(u) /\ m \in 1 .. Len(u)
        /\ m + n + 1 \in 1 .. Len(s)
    BY <1>1, <2>1, <2>2, <2>3
  <2>5. m + n = Len(s) \/ IsNewLine(s[m + n + 1])
    BY <2>2, <2>4
  <2>6. m + n = Len(u) \/ IsNewLine(u[m + n + 1])
    BY <1>1, <2>2, <2>3, <2>4
  <2>7. \A j \in 0 .. n : s[m + j] = u[m + j] /\ ~IsNewLine(s[m + j])
    <3>1. \A j \in 0 .. n : m + j \in m .. e /\ m + j \in 1 .. Len(s)
      BY <2>1, <2>2, <2>4
    <3> QED
      BY <1>1, <2>2, <3>1
  <2> HIDE DEF n
  <2> QED
    BY <1>1, <2>1, <2>4, <2>5, <2>6, <2>7, SameLine, ZenonT(60)
<1>4. ASSUME NEW a \in Nat, NEW b \in Nat, a <= b, b <= Len(s)
      PROVE  SubSeq(u, a + 1, b) = SubSeq(s, a + 1, b)
  <2>1. b <= Len(u)
    BY <1>1, <1>4
  <2>2. /\ SubSeq(u, a + 1, b) \in Seq(Bytes) /\ Len(SubSeq(u, a + 1, b)) = b - a
        /\ \A j \in 1 .. b - a : SubSeq(u, a + 1, b)[j] = u[a + j]
    BY <1>1, <1>4, <2>1, Part
  <2>3. /\ SubSeq(s, a + 1, b) \in Seq(Bytes) /\ Len(SubSeq(s, a + 1, b)) = b - a
        /\ \A j \in 1 .. b - a : SubSeq(s, a + 1, b)[j] = s[a + j]
    BY <1>4, Part
  <2>4. \A j \in 1 .. b - a : a + j \in 1 .. Len(s)
    BY <1>1, <1>4
  <2>5. \A j \in 1 .. b - a : SubSeq(u, a + 1, b)[j] = SubSeq(s, a + 1, b)[j]
    BY <1>1, <2>2, <2>3, <2>4
  <2> QED
    BY <2>2, <2>3, <2>5, SeqEqual
<1> QED
  BY <1>1, <1>2, <1>3, <1>4 DEF u

LEMMA PieceIs ==
  ASSUME stream \in Seq(Bytes), NEW a \in Nat, NEW b \in Nat, a <= b, b <= Len(stream)
  PROVE  /\ Piece(a, b) \in Seq(Bytes) /\ Len(Piece(a, b)) = b - a
         /\ \A j \in 1 .. b - a : Piece(a, b)[j] = stream[a + j]
BY Part DEF Piece

LEMMA IsPiece ==
  ASSUME stream \in Seq(Bytes), NEW a \in Nat, NEW b \in Nat, a <= b, b <= Len(stream),
         NEW s \in Seq(Bytes), Len(s) = b - a, \A j \in 1 .. b - a : s[j] = stream[a + j]
  PROVE  s = Piece(a, b)
<1>1. /\ Piece(a, b) \in Seq(Bytes) /\ Len(Piece(a, b)) = b - a
      /\ \A j \in 1 .. b - a : Piece(a, b)[j] = stream[a + j]
  BY PieceIs
<1>2. Len(s) = Len(Piece(a, b)) /\ \A j \in 1 .. Len(s) : s[j] = Piece(a, b)[j]
  BY <1>1
<1> QED
  BY <1>1, <1>2, SeqEqual

LEMMA PieceJoined ==
  ASSUME stream \in Seq(Bytes), NEW a \in Nat, NEW b \in Nat, NEW c \in Nat, a <= b, b <= c, c <= Len(stream)
  PROVE  Piece(a, b) \o Piece(b, c) = Piece(a, c)
<1> DEFINE s == Piece(a, b)
           t == Piece(b, c)
<1>1. a <= c /\ b <= Len(stream) /\ Len(stream) \in Nat
  BY LenProperties
<1>2. /\ s \in Seq(Bytes) /\ Len(s) = b - a /\ t \in Seq(Bytes) /\ Len(t) = c - b
      /\ \A k \in 1 .. b - a : s[k] = stream[a + k]
      /\ \A k \in 1 .. c - b : t[k] = stream[b + k]
  BY <1>1, PieceIs
<1> HIDE DEF s, t
<1>3. /\ s \o t \in Seq(Bytes) /\ Len(s \o t) = Len(s) + Len(t)
      /\ \A j \in 1 .. Len(s) : (s \o t)[j] = s[j]
      /\ \A j \in 1 .. Len(t) : (s \o t)[Len(s) + j] = t[j]
  <2>1. s \in Seq(Bytes) /\ t \in Seq(Bytes)
    BY <1>2
  <2> QED
    BY <2>1, Joined
<1>4. Len(s \o t) = c - a
  <2>1. Len(s \o t) = (b - a) + (c - b)
    BY <1>2, <1>3
  <2> QED
    BY <2>1
<1>5. ASSUME NEW k \in 1 .. c - a PROVE (s \o t)[k] = stream[a + k]
  <2>1. CASE k <= b - a
    <3>1. k \in 1 .. b - a
      BY <2>1
    <3> QED
      BY <1>2, <1>3, <3>1
  <2>2. CASE ~(k <= b - a)
    <3>1. k - (b - a) \in 1 .. c - b /\ k = (b - a) + (k - (b - a)) /\ b + (k - (b - a)) = a + k
      BY <2>2
    <3>2. (s \o t)[(b - a) + (k - (b - a))] = t[k - (b - a)]
      BY <1>2, <1>3, <3>1
    <3>3. t[k - (b - a)] = stream[b + (k - (b - a))]
      BY <1>2, <3>1
    <3> QED
      BY <3>1, <3>2, <3>3
  <2> QED
    BY <2>1, <2>2
<1>6. s \o t = Piece(a, c)
  BY <1>1, <1>3, <1>4, <1>5, IsPiece
<1> QED
  BY <1>6 DEF s, t

LEMMA PieceCut ==
  ASSUME stream \in Seq(Bytes), NEW a \in Nat, NEW b \in Nat, NEW c \in Nat, a <= b, b <= c, c <= Len(stream)
  PROVE  /\ SubSeq(Piece(a, c), 1, b - a) = Piece(a, b)
         /\ After(Piece(a, c), b - a) = Piece(b, c)
<1> DEFINE s == Piece(a, c)
           k == b - a
<1>1. a <= c /\ b <= Len(stream) /\ Len(stream) \in Nat
  BY LenProperties
<1>2. s \in Seq(Bytes) /\ Len(s) = c - a /\ \A j \in 1 .. c - a : s[j] = stream[a + j]
  BY <1>1, PieceIs
<1> HIDE DEF s
<1>3. k \in 0 .. Len(s) /\ k \in Nat
  BY <1>2
<1>4. /\ SubSeq(s, 1, k) \in Seq(Bytes) /\ Len(SubSeq(s, 1, k)) = k
      /\ \A j \in 1 .. k : SubSeq(s, 1, k)[j] = s[j]
  BY <1>2, <1>3, Prefix
<1>5. /\ After(s, k) \in Seq(Bytes) /\ Len(After(s, k)) = Len(s) - k
      /\ \A j \in 1 .. Len(s) - k : After(s, k)[j] = s[k + j]
  BY <1>2, <1>3, Suffix
<1>6. \A j \in 1 .. k : SubSeq(s, 1, k)[j] = stream[a + j]
  <2>1. \A j \in 1 .. k : j \in 1 .. c - a
    OBVIOUS
  <2> QED
    BY <1>2, <1>4, <2>1
<1>7. Len(After(s, k)) = c - b
  BY <1>2, <1>5
<1>8. \A j \in 1 .. c - b : After(s, k)[j] = stream[b + j]
  <2>1. \A j \in 1 .. c - b : j \in 1 .. Len(s) - k /\ k + j \in 1 .. c - a /\ a + (k + j) = b + j
    BY <1>2
  <2> HIDE DEF k
  <2> QED
    BY <1>2, <1>5, <2>1
<1>9. SubSeq(s, 1, k) = Piece(a, b)
  BY <1>1, <1>4, <1>6, IsPiece
<1>10. After(s, k) = Piece(b, c)
  BY <1>1, <1>5, <1>7, <1>8, IsPiece
<1> QED
  BY <1>9, <1>10 DEF s

\* The lines of a piece between two borders are lines of the stream.
LEMMA PieceLines ==
  ASSUME stream \in Seq(Bytes), NEW a \in Nat, NEW b \in Nat, a <= b, b <= Len(stream),
         Border(a), Border(b), NEW g \in 1 .. b - a
  PROVE  /\ a + g \in 1 .. Len(stream) /\ Piece(a, b)[g] = stream[a + g]
         /\ g \in LineStarts(Piece(a, b)) <=> a + g \in LineStarts(stream)
         /\ g \in LineStarts(Piece(a, b)) => LineAt(Piece(a, b), g) = LineAt(stream, a + g)
<1> DEFINE r == Piece(a, b)
<1>1. r \in Seq(Bytes) /\ Len(r) = b - a /\ \A j \in 1 .. b - a : r[j] = stream[a + j]
  BY PieceIs
<1> HIDE DEF r
<1>2. Len(stream) \in Nat /\ a + g \in 1 .. Len(stream) /\ r[g] = stream[a + g]
  BY <1>1, LenProperties
<1>3. g \in LineStarts(r) <=> ~IsNewLine(r[g]) /\ (g = 1 \/ IsNewLine(r[g - 1]))
  BY <1>1, LinesBegin
<1>4. a + g \in LineStarts(stream) <=>
        ~IsNewLine(stream[a + g]) /\ (a + g = 1 \/ IsNewLine(stream[a + g - 1]))
  BY <1>2, LinesBegin
<1>5. g = 1 => (a + g = 1 \/ IsNewLine(stream[a + g - 1]))
  <2> SUFFICES ASSUME g = 1 PROVE a + g = 1 \/ IsNewLine(stream[a + g - 1])
    OBVIOUS
  <2>1. a + g - 1 = a /\ (a = 0 => a + g = 1)
    OBVIOUS
  <2> QED
    BY <2>1 DEF Border
<1>6. g # 1 => a + g # 1 /\ r[g - 1] = stream[a + g - 1]
  <2> SUFFICES ASSUME g # 1 PROVE a + g # 1 /\ r[g - 1] = stream[a + g - 1]
    OBVIOUS
  <2>1. g - 1 \in 1 .. b - a /\ a + (g - 1) = a + g - 1 /\ a + g # 1
    OBVIOUS
  <2> QED
    BY <1>1, <2>1
<1>7. g \in LineStarts(r) <=> a + g \in LineStarts(stream)
  BY <1>2, <1>3, <1>4, <1>5, <1>6
<1>8. ASSUME g \in LineStarts(r) PROVE LineAt(r, g) = LineAt(stream, a + g)
  <2> DEFINE e == LineEnd(r, g)
             n == e - g
  <2>0. g \in 1 .. Len(r) /\ ~IsNewLine(r[g])
    BY <1>1, <1>8, LinesBegin
  <2>1. /\ e \in g .. Len(r) /\ \A j \in g .. e : ~IsNewLine(r[j])
        /\ e = Len(r) \/ IsNewLine(r[e + 1])
    BY <1>1, <2>0, LineIs
  <2> HIDE DEF e
  <2>2. e # b - a
    <3> SUFFICES ASSUME e = b - a PROVE FALSE
      OBVIOUS
    <3>1. e \in g .. e /\ e \in 1 .. b - a /\ a + e = b /\ b # 0
      BY <1>1, <2>1
    <3>2. ~IsNewLine(stream[b])
      BY <1>1, <2>1, <3>1
    <3> QED
      BY <3>1, <3>2 DEF Border
  <2>3. /\ n \in Nat /\ g + n = e /\ g + n <= Len(r) /\ a + g + n <= Len(stream)
        /\ e + 1 \in 1 .. b - a /\ g + n + 1 = e + 1 /\ a + g + n + 1 = a + (e + 1)
    BY <1>1, <1>2, <2>1, <2>2
  <2>4. IsNewLine(r[g + n + 1]) /\ IsNewLine(stream[a + g + n + 1])
    BY <1>1, <2>1, <2>2, <2>3
  <2>5. \A j \in 0 .. n : r[g + j] = stream[a + g + j] /\ ~IsNewLine(r[g + j])
    <3>1. \A j \in 0 .. n : g + j \in g .. e /\ g + j \in 1 .. b - a /\ a + (g + j) = a + g + j
      BY <1>1, <2>1, <2>3
    <3> QED
      BY <1>1, <2>1, <3>1
  <2> DEFINE l == a + g
  <2>6. l \in 1 .. Len(stream) /\ l + n <= Len(stream) /\ IsNewLine(stream[l + n + 1])
        /\ \A j \in 0 .. n : r[g + j] = stream[l + j] /\ ~IsNewLine(r[g + j])
    BY <1>2, <2>3, <2>4, <2>5
  <2> HIDE DEF l, n
  <2>7. LineAt(r, g) = LineAt(stream, l)
    BY <1>1, <2>0, <2>3, <2>4, <2>6, SameLine
  <2> QED
    BY <2>7 DEF l
<1> QED
  BY <1>2, <1>7, <1>8 DEF r

(***************************************************************************)
(* The numbers, and the texts of their workspaces.                         *)
(***************************************************************************)
LEMMA NumbersAre ==
  /\ None \notin Workspaces /\ None \in Tokens /\ \A i \in Tokens : i # None => i \in Workspaces
  /\ \A i \in Tokens : Here(i) \in 0 .. 1 /\ (Here(i) = 0 <=> i = None)
BY ParserAssumption DEF Workspaces, None, Tokens, Here

Links(c, pd, pi) ==
  LET s == Linked(c, pd, pi) n == Here(c) IN
  /\ s \in Seq(Tokens) /\ n \in 0 .. 1 /\ Len(pd) \in Nat /\ Len(pi) \in Nat
  /\ Len(s) = n + Len(pd) + Len(pi)
  /\ c # None => s[1] = c
  /\ \A k \in 1 .. Len(pd) : s[n + k] = pd[k]
  /\ \A k \in 1 .. Len(pi) : s[n + Len(pd) + k] = pi[k].part

LEMMA LinkedIs ==
  ASSUME NEW c \in Tokens, NEW pd \in Seq(Tokens), NEW pi \in Seq(Entry)
  PROVE  Links(c, pd, pi)
<1> DEFINE h == IF c = None THEN <<>> ELSE <<c>>
           q == [k \in 1 .. Len(pi) |-> pi[k].part]
<1>1. /\ Len(pi) \in Nat /\ q \in Seq(Tokens) /\ Len(q) = Len(pi)
      /\ \A k \in 1 .. Len(pi) : q[k] = pi[k].part
  <2>1. Len(pi) \in Nat /\ \A k \in 1 .. Len(pi) : pi[k] \in Entry
    BY LenProperties, ElementOfSeq
  <2>2. q \in [1 .. Len(pi) -> Tokens]
    BY <2>1 DEF Entry
  <2> QED
    BY <2>1, <2>2
<1>2. /\ h \in Seq(Tokens) /\ Len(h) = Here(c) /\ Here(c) \in 0 .. 1
      /\ c # None => h[1] = c
  BY DEF Here
<1> DEFINE pq == pd \o q
<1> HIDE DEF h, q, pq
<1>3. /\ pq \in Seq(Tokens)
      /\ Len(pd) \in Nat /\ Len(pq) = Len(pd) + Len(pi)
      /\ \A j \in 1 .. Len(pd) : pq[j] = pd[j]
      /\ \A j \in 1 .. Len(pi) : pq[Len(pd) + j] = q[j]
  <2>1. q \in Seq(Tokens) /\ pd \in Seq(Tokens)
    BY <1>1
  <2>2. /\ pq \in Seq(Tokens) /\ Len(pd) \in Nat /\ Len(pq) = Len(pd) + Len(q)
        /\ \A j \in 1 .. Len(pd) : pq[j] = pd[j]
        /\ \A j \in 1 .. Len(q) : pq[Len(pd) + j] = q[j]
    BY <2>1, Joined DEF pq
  <2> QED
    BY <1>1, <2>2
<1>4. /\ h \o pq \in Seq(Tokens)
      /\ Len(h \o pq) = Len(h) + Len(pq)
      /\ \A j \in 1 .. Len(h) : (h \o pq)[j] = h[j]
      /\ \A j \in 1 .. Len(pq) : (h \o pq)[Len(h) + j] = pq[j]
  BY <1>2, <1>3, Joined
<1>5. Linked(c, pd, pi) = h \o pq
  BY DEF Linked, h, q, pq
<1> DEFINE s == Linked(c, pd, pi)
<1> HIDE DEF s
<1>6. s \in Seq(Tokens) /\ Len(s) = Here(c) + Len(pd) + Len(pi)
  BY <1>1, <1>2, <1>3, <1>4, <1>5 DEF s
<1>7. c # None => s[1] = c
  <2> SUFFICES ASSUME c # None PROVE s[1] = c
    OBVIOUS
  <2>1. Len(h) = 1
    BY <1>2 DEF Here
  <2> QED
    BY <1>2, <1>4, <1>5, <2>1 DEF s
<1>8. \A k \in 1 .. Len(pd) : s[Here(c) + k] = pd[k]
  BY <1>1, <1>2, <1>3, <1>4, <1>5, SMTT(30) DEF s
<1>9. \A k \in 1 .. Len(pi) : s[Here(c) + Len(pd) + k] = pi[k].part
  <2> SUFFICES ASSUME NEW k \in 1 .. Len(pi) PROVE s[Here(c) + Len(pd) + k] = pi[k].part
    OBVIOUS
  <2>1. Len(pd) + k \in 1 .. Len(pq) /\ Here(c) + (Len(pd) + k) = Here(c) + Len(pd) + k
    BY <1>1, <1>2, <1>3
  <2>2. (h \o pq)[Here(c) + (Len(pd) + k)] = pq[Len(pd) + k]
    BY <1>2, <1>4, <2>1
  <2> QED
    BY <1>1, <1>3, <1>5, <2>1, <2>2 DEF s
<1> QED
  BY <1>1, <1>2, <1>3, <1>6, <1>7, <1>8, <1>9 DEF Links, s

LEMMA ChainLinks ==
  ASSUME ParserTyped
  PROVE  Links(curr_buf, parsed_data, parse_in) /\ Chain = Linked(curr_buf, parsed_data, parse_in)
BY LinkedIs DEF ParserTyped, Chain

\* Where in the chain a number is.
LEMMA LinkedAt ==
  ASSUME NEW c, NEW pd, NEW pi, Links(c, pd, pi), NEW m \in 1 .. Len(Linked(c, pd, pi))
  PROVE  LET n == Here(c) IN
         \/ c # None /\ m = 1
         \/ m - n \in 1 .. Len(pd) /\ Linked(c, pd, pi)[m] = pd[m - n]
         \/ m - n - Len(pd) \in 1 .. Len(pi) /\ Linked(c, pd, pi)[m] = pi[m - n - Len(pd)].part
<1> DEFINE s == Linked(c, pd, pi)
           n == Here(c)
           p == Len(pd)
<1>1. /\ n \in 0 .. 1 /\ p \in Nat /\ Len(pi) \in Nat /\ Len(s) = n + p + Len(pi)
      /\ \A k \in 1 .. p : s[n + k] = pd[k]
      /\ \A k \in 1 .. Len(pi) : s[n + p + k] = pi[k].part
  BY DEF Links
<1>2. n = 1 => c # None
  BY DEF Here
<1> HIDE DEF s, n, p
<1>3. m \in 1 .. Len(s)
  BY DEF s
<1>4. CASE m <= n
  BY <1>1, <1>2, <1>3, <1>4
<1>5. CASE m > n /\ m <= n + p
  <2>1. m - n \in 1 .. p /\ n + (m - n) = m
    BY <1>1, <1>3, <1>5
  <2>2. s[n + (m - n)] = pd[m - n]
    BY <1>1, <2>1
  <2> QED
    BY <2>1, <2>2 DEF s, n, p
<1>6. CASE m > n + p
  <2>1. m - n - p \in 1 .. Len(pi) /\ n + p + (m - n - p) = m
    BY <1>1, <1>3, <1>6
  <2>2. s[n + p + (m - n - p)] = pi[m - n - p].part
    BY <1>1, <2>1
  <2> QED
    BY <2>1, <2>2 DEF s, n, p
<1> QED
  BY <1>1, <1>3, <1>4, <1>5, <1>6

\* The rows that are parsed of a text.
LEMMA RowsAre ==
  ASSUME NEW text \in Seq(Bytes)
  PROVE  LET G == GoodLines(text) IN
         /\ G \in SUBSET (1 .. Len(text)) /\ IsFiniteSet(G) /\ Cardinality(G) \in Nat
         /\ Rows(text) \in Seq(Seq(Bytes)) /\ Len(Rows(text)) = Cardinality(G)
         /\ \A m \in 1 .. Cardinality(G) :
              InOrder(G)[m] \in G /\ Rows(text)[m] = LineAt(text, InOrder(G)[m])
         /\ \A i, j \in 1 .. Cardinality(G) : i < j => InOrder(G)[i] < InOrder(G)[j]
         /\ \A g \in G : \E m \in 1 .. Cardinality(G) : InOrder(G)[m] = g
<1> DEFINE G == GoodLines(text)
<1>1. Len(text) \in Nat
  BY LineBreaks
<1>2. G \in SUBSET (1 .. Len(text)) /\ G \in SUBSET Nat
  <2>1. G \in SUBSET LineStarts(text)
    BY DEF GoodLines
  <2> HIDE DEF G
  <2>2. \A g \in G : g \in 1 .. Len(text)
    BY <2>1, LinesBegin
  <2> QED
    BY <1>1, <2>2
<1>3. \A g \in G : LineAt(text, g) \in Seq(Bytes)
  <2>1. ASSUME NEW g \in G PROVE LineAt(text, g) \in Seq(Bytes)
    <3>1. g \in LineStarts(text)
      BY DEF GoodLines
    <3>2. g \in 1 .. Len(text) /\ ~IsNewLine(text[g])
      BY <3>1, LinesBegin
    <3> QED
      BY <3>2, LineIs
  <2> QED
    BY <2>1
<1> DEFINE n == Cardinality(G)
           o == InOrder(G)
<1>4. Rows(text) = [m \in 1 .. n |-> LineAt(text, o[m])]
  BY DEF Rows
<1> HIDE DEF G
<1>5. IsFiniteSet(G)
  <2>1. \A g \in G : g <= Len(text)
    BY <1>1, <1>2
  <2> QED
    BY <1>1, <1>2, <2>1, Bounded
<1>6. /\ n \in Nat /\ o \in [1 .. n -> G]
      /\ \A x \in G : Rank(G, x) \in 1 .. n /\ o[Rank(G, x)] = x
      /\ \A i, j \in 1 .. n : i < j => o[i] < o[j]
  BY <1>2, <1>5, Ordered
<1> HIDE DEF n, o
<1>7. Rows(text) \in [1 .. n -> Seq(Bytes)]
  BY <1>3, <1>4, <1>6
<1>8. Rows(text) \in Seq(Seq(Bytes)) /\ Len(Rows(text)) = n
  BY <1>6, <1>7
<1>9. \A m \in 1 .. n : o[m] \in G /\ Rows(text)[m] = LineAt(text, o[m])
  BY <1>4, <1>6
<1>10. \A g \in G : \E m \in 1 .. n : o[m] = g
  BY <1>6
<1> QED
  BY <1>2, <1>5, <1>6, <1>8, <1>9, <1>10 DEF G, n, o

LEMMA Marks ==
  ASSUME DirTyped, ParserTyped, ReadOK
  PROVE  /\ Len(stream) \in Nat /\ Len(curr_block) \in Nat /\ Len(raw) \in Nat /\ Len(left_over) \in Nat
         /\ Taken \in Nat /\ Mark \in Nat /\ Mark <= Taken /\ Taken <= Len(stream)
         /\ Taken = Len(stream) - Len(curr_block)
         /\ reading = None => Len(raw) = 0 /\ Len(left_over) = Taken - Mark
         /\ reading # None => Len(left_over) = 0 /\ Len(raw) = Taken - Mark
<1>1. stream \in Seq(Bytes) /\ curr_block \in Seq(Bytes) /\ raw \in Seq(Bytes) /\ left_over \in Seq(Bytes)
  BY DEF DirTyped, ParserTyped
<1>2. Len(stream) \in Nat /\ Len(curr_block) \in Nat /\ Len(raw) \in Nat /\ Len(left_over) \in Nat
  BY <1>1, LenProperties
<1>3. /\ Len(curr_block) <= Len(stream) /\ Mark >= 0 /\ Mark = Taken - Len(left_over) - Len(raw)
      /\ Taken = Len(stream) - Len(curr_block)
      /\ reading = None => raw = <<>>
      /\ reading # None => left_over = <<>>
  BY DEF ReadOK, Mark, Taken
<1>4. Len(<<>>) = 0
  BY EmptyText
<1> QED
  BY <1>2, <1>3, <1>4

LEMMA SpaceIs ==
  ASSUME ParserTyped, NEW i \in Workspaces
  PROVE  /\ workspace[i] \in Spaces /\ workspace[i].raw \in Seq(Bytes) /\ workspace[i].from \in Nat
         /\ workspace[i].head \in Nat /\ workspace[i].data \in Seq(Seq(Bytes))
         /\ workspace[i].error \in BOOLEAN
         /\ Len(workspace[i].raw) \in Nat /\ End(i) \in Nat
         /\ End(i) = workspace[i].from + Len(workspace[i].raw) /\ workspace[i].from <= End(i)
<1>1. workspace[i] \in Spaces
  BY DEF ParserTyped
<1>2. /\ workspace[i].raw \in Seq(Bytes) /\ workspace[i].from \in Nat
      /\ workspace[i].head \in Nat /\ workspace[i].data \in Seq(Seq(Bytes))
      /\ workspace[i].error \in BOOLEAN
  BY <1>1 DEF Spaces
<1>3. Len(workspace[i].raw) \in Nat
  BY <1>2, LenProperties
<1> QED
  BY <1>1, <1>2, <1>3 DEF End

LEMMA ChainTyped ==
  ASSUME ParserTyped
  PROVE  /\ Len(Chain) \in Nat /\ \A m \in 1 .. Len(Chain) : Chain[m] \in Tokens
         /\ \A m \in 1 .. Len(Chain) : Chain[m] # None => Chain[m] \in Workspaces
<1>1. Chain \in Seq(Tokens)
  BY ChainLinks DEF Links
<1> QED
  BY <1>1, LenProperties, ElementOfSeq, NumbersAre

\* The texts of the chain are behind one another and before Mark.
LEMMA ChainBounds ==
  ASSUME DirTyped, ParserTyped, ReadOK, ChainOK
  PROVE  \A m \in 1 .. Len(Chain) : Chain[m] # None => End(Chain[m]) <= Mark
<1> DEFINE T == {m \in 1 .. Len(Chain) : Chain[m] # None /\ ~(End(Chain[m]) <= Mark)}
<1> SUFFICES ASSUME T # {} PROVE FALSE
  OBVIOUS
<1>1. Len(Chain) \in Nat /\ T \in SUBSET Nat /\ \A x \in T : x <= Len(Chain)
  BY ChainTyped
<1>2. PICK m \in T : \A y \in T : y <= m
  BY <1>1, Largest
<1>3. m \in 1 .. Len(Chain) /\ Chain[m] # None /\ ~(End(Chain[m]) <= Mark)
  OBVIOUS
<1>4. End(Chain[m]) = Following(m)
  BY <1>3 DEF ChainOK
<1>5. Mark \in Nat
  BY Marks
<1>6. CASE m < Len(Chain) /\ Chain[m + 1] # None
  <2>1. m + 1 \in 1 .. Len(Chain) /\ ~(m + 1 <= m)
    BY <1>1, <1>3, <1>6
  <2>2. m + 1 \notin T
    BY <1>2, <2>1
  <2>3. End(Chain[m + 1]) <= Mark
    BY <1>6, <2>1, <2>2
  <2>4. Chain[m + 1] \in Workspaces
    BY <1>6, <2>1, ChainTyped
  <2>5. workspace[Chain[m + 1]].from <= End(Chain[m + 1]) /\ End(Chain[m + 1]) \in Nat
        /\ workspace[Chain[m + 1]].from \in Nat
    BY <2>4, SpaceIs
  <2>6. Following(m) = workspace[Chain[m + 1]].from
    BY <1>6 DEF Following
  <2> HIDE DEF T
  <2> QED
    BY <1>3, <1>4, <1>5, <2>3, <2>5, <2>6
<1>7. CASE ~(m < Len(Chain) /\ Chain[m + 1] # None)
  <2>1. Following(m) = Mark
    BY <1>7 DEF Following
  <2> HIDE DEF T
  <2> QED
    BY <1>3, <1>4, <1>5, <2>1
<1> QED
  BY <1>6, <1>7

\* The text of a number of the chain, and the lines it gives.
LEMMA TextOf ==
  ASSUME DirTyped, ParserTyped, ReadOK, ChainOK, NEW m \in 1 .. Len(Chain), Chain[m] # None
  PROVE  LET i == Chain[m] a == workspace[i].from b == End(i) IN
         /\ i \in Workspaces /\ a \in Nat /\ b \in Nat /\ a <= b /\ b <= Mark /\ b <= Len(stream)
         /\ workspace[i].raw = Piece(a, b) /\ Border(a) /\ Border(b) /\ b = Following(m)
<1>1. Chain[m] \in Workspaces
  BY ChainTyped
<1>2. /\ HasText(Chain[m]) /\ End(Chain[m]) = Following(m)
  BY DEF ChainOK
<1>3. End(Chain[m]) <= Mark
  BY ChainBounds
<1>4. Mark \in Nat /\ Taken \in Nat /\ Len(stream) \in Nat /\ Mark <= Taken /\ Taken <= Len(stream)
  BY Marks
<1>5. /\ workspace[Chain[m]].from \in Nat /\ End(Chain[m]) \in Nat
      /\ workspace[Chain[m]].from <= End(Chain[m])
  BY <1>1, SpaceIs
<1> QED
  BY <1>1, <1>2, <1>3, <1>4, <1>5 DEF HasText

\* The place behind which the k-th row of a text ends the front.
RowAt(w, k) == w.from + (IF k = 0 THEN 0 ELSE InOrder(GoodLines(w.raw))[k])

LEMMA FrontIs ==
  ASSUME DirTyped, ParserTyped, ReadOK, ChainOK, ParsedOK
  PROVE  /\ Front \in Nat /\ Front <= Mark
         /\ curr_buf # None => Len(Chain) > 0 /\ Chain[1] = curr_buf
                               /\ Front = RowAt(workspace[curr_buf], workspace[curr_buf].head)
                               /\ Front <= End(curr_buf)
<1>1. Mark \in Nat
  BY Marks
<1>2. ASSUME curr_buf = None PROVE Front \in Nat /\ Front <= Mark
  <2>1. CASE Len(Chain) > 0 /\ Chain[1] # None
    <3>1. 1 \in 1 .. Len(Chain)
      BY <2>1, ChainTyped
    <3>2. /\ workspace[Chain[1]].from \in Nat /\ End(Chain[1]) \in Nat
          /\ workspace[Chain[1]].from <= End(Chain[1]) /\ End(Chain[1]) <= Mark
      BY <2>1, <3>1, TextOf
    <3>3. Front = workspace[Chain[1]].from
      BY <1>2, <2>1 DEF Front
    <3> QED
      BY <1>1, <3>2, <3>3
  <2>2. CASE ~(Len(Chain) > 0 /\ Chain[1] # None)
    BY <1>1, <1>2, <2>2 DEF Front
  <2> QED
    BY <2>1, <2>2
<1>3. ASSUME curr_buf # None
      PROVE  /\ Len(Chain) > 0 /\ Chain[1] = curr_buf
             /\ Front = RowAt(workspace[curr_buf], workspace[curr_buf].head)
             /\ Front \in Nat /\ Front <= Mark /\ Front <= End(curr_buf)
  <2>1. Len(Chain) \in Nat /\ Len(Chain) > 0 /\ Chain[1] = curr_buf /\ 1 \in 1 .. Len(Chain)
    <3>1. /\ Len(Chain) = Here(curr_buf) + Len(parsed_data) + Len(parse_in) /\ Chain[1] = curr_buf
          /\ Len(parsed_data) \in Nat /\ Len(parse_in) \in Nat
      BY <1>3, ChainLinks DEF Links
    <3>2. Here(curr_buf) = 1
      BY <1>3 DEF Here
    <3> QED
      BY <3>1, <3>2
  <2> DEFINE w == workspace[curr_buf]
             o == InOrder(GoodLines(w.raw))
             n == Cardinality(GoodLines(w.raw))
  <2>2. /\ curr_buf \in Workspaces /\ w.from \in Nat /\ End(curr_buf) \in Nat
        /\ w.from <= End(curr_buf) /\ End(curr_buf) <= Mark
    BY <1>3, <2>1, TextOf
  <2>3. End(curr_buf) = w.from + Len(w.raw) /\ Len(w.raw) \in Nat /\ w.raw \in Seq(Bytes) /\ w.head \in Nat
    BY <2>2, SpaceIs
  <2>4. Front = RowAt(w, w.head)
    BY <1>3 DEF Front, RowAt
  <2>5. w.head <= Len(w.data) /\ w.data = Rows(w.raw)
    BY <1>3 DEF ParsedOK, IsParsed
  <2>6. Len(Rows(w.raw)) = n /\ n \in Nat /\ \A k \in 1 .. n : o[k] \in 1 .. Len(w.raw)
    BY <2>3, RowsAre
  <2>7. w.head = 0 \/ o[w.head] \in 1 .. Len(w.raw)
    <3> SUFFICES ASSUME w.head # 0 PROVE o[w.head] \in 1 .. Len(w.raw)
      OBVIOUS
    <3> HIDE DEF w, o, n
    <3>1. w.head \in 1 .. n
      BY <2>3, <2>5, <2>6
    <3> QED
      BY <2>6, <3>1
  <2>8. Front = w.from + (IF w.head = 0 THEN 0 ELSE o[w.head])
    BY <2>4 DEF RowAt
  <2> HIDE DEF w, o, n
  <2>9. Front \in Nat /\ Front <= End(curr_buf) /\ Front <= Mark
    BY <1>1, <2>2, <2>3, <2>7, <2>8
  <2> QED
    BY <2>1, <2>4, <2>9 DEF w
<1> QED
  BY <1>2, <1>3

(***************************************************************************)
(* What a step leaves alone.                                               *)
(***************************************************************************)
LEMMA DirSame ==
  ASSUME DirInv, UNCHANGED dirStream
  PROVE  DirInv' /\ UNCHANGED opened
<1>1. UNCHANGED <<opened, ranges, contents, files_read, stream>> /\ curr_block' = curr_block
  BY DEF dirStream, opened
<1>2. curr_block' \in Seq(Bytes)
  BY <1>1 DEF DirInv, DirTyped
<1> QED
  BY <1>1, <1>2, DirUnchanged

TextKept(i) == workspace'[i].raw = workspace[i].raw /\ workspace'[i].from = workspace[i].from

LEMMA ChainKept ==
  ASSUME ChainOK, stream' = stream, Chain' = Chain, Mark' = Mark,
         \A m \in 1 .. Len(Chain) : Chain[m] # None => TextKept(Chain[m])
  PROVE  ChainOK'
<1>1. ASSUME NEW i, TextKept(i)
      PROVE  (HasText(i)' <=> HasText(i)) /\ End(i)' = End(i) /\ workspace'[i].from = workspace[i].from
  <2>1. End(i)' = End(i)
    BY <1>1 DEF TextKept, End
  <2> QED
    BY <1>1, <2>1 DEF TextKept, HasText, Border, Piece
<1>2. ASSUME NEW m \in 1 .. Len(Chain), Chain[m] # None PROVE Following(m)' = Following(m)
  <2>1. CASE m < Len(Chain) /\ Chain[m + 1] # None
    <3>1. m + 1 \in 1 .. Len(Chain)
      BY <2>1
    <3>2. workspace'[Chain[m + 1]].from = workspace[Chain[m + 1]].from
      BY <1>1, <2>1, <3>1
    <3> QED
      BY <2>1, <3>2 DEF Following
  <2>2. CASE ~(m < Len(Chain) /\ Chain[m + 1] # None)
    BY <2>2 DEF Following
  <2> QED
    BY <2>1, <2>2
<1>3. ASSUME NEW m \in 1 .. Len(Chain), NEW i, i = Chain[m], i # None
      PROVE  HasText(i)' /\ End(i)' = Following(m)'
  <2>1. HasText(i) /\ End(i) = Following(m) /\ TextKept(i)
    BY <1>3 DEF ChainOK
  <2> QED
    BY <1>1, <1>2, <1>3, <2>1
<1>4. \A m, n \in 1 .. Len(Chain) : m < n /\ Chain[m] = None => Chain[n] = None
  BY DEF ChainOK
<1> HIDE DEF Chain
<1> QED
  BY <1>3, <1>4 DEF ChainOK

LEMMA DeliveredKept ==
  ASSUME DeliveredOK, stream' = stream, Front' = Front, delivered' = delivered, ~failed' => ~failed
  PROVE  DeliveredOK'
<1> USE DEF GoodStart
<1>1. \A m : GoodStart(m)' <=> GoodStart(m)
  OBVIOUS
<1> HIDE DEF GoodStart
<1> QED
  BY <1>1 DEF DeliveredOK

LEMMA LinesKept ==
  ASSUME LinesOnceInOrder, UNCHANGED opened, delivered' = delivered,
         ends' > 0 => ends > 0, ~failed' => ~failed
  PROVE  LinesOnceInOrder'
<1>1. dir' = dir /\ my_reader_id' = my_reader_id /\ support_seek' = support_seek
  BY DEF opened
<1> QED
  BY <1>1 DEF LinesOnceInOrder

\* A step of ReadStage that hands nothing on, or of the stream behind it.
LEMMA ChainStays ==
  ASSUME ParserInv, stream' = stream, Mark' = Mark,
         UNCHANGED <<workspace, parse_in, parsed_data, curr_buf, delivered>>, ~failed' => ~failed
  PROVE  Chain' = Chain /\ ChainOK' /\ ParsedOK' /\ DeliveredOK'
<1>1. Chain' = Chain
  BY DEF Chain
<1>2. \A m \in 1 .. Len(Chain) : Chain[m] # None => TextKept(Chain[m])
  BY DEF TextKept
<1>3. ChainOK'
  BY <1>1, <1>2, ChainKept DEF ParserInv
<1>4. ParsedOK'
  <2>1. \A i : IsParsed(i)' <=> IsParsed(i)
    BY DEF IsParsed
  <2> QED
    BY <2>1 DEF ParserInv, ParsedOK
<1>5. Front' = Front
  BY <1>1 DEF Front
<1>6. DeliveredOK'
  BY <1>5, DeliveredKept DEF ParserInv
<1> QED
  BY <1>1, <1>3, <1>4, <1>6

LEMMA DirWorkerKeeps ==
  ASSUME DirFixed, DirInv, ParserInv, NEW k \in 1 .. NParallel, DirWorker(k)
  PROVE  DirInv' /\ ParserInv' /\ UNCHANGED opened
<1>1. /\ ReadRound(k) \/ EndRange(k)
      /\ k <= Least(NParallel, Len(ranges))
      /\ UNCHANGED <<reader, workspace, parse_in, parsed_data, caller>>
  BY DEF DirWorker, ReadFileIntoBuffer
<1>2. k \in 1 .. Len(ranges)
  <2>1. Len(ranges) \in Nat
    BY LenProperties DEF DirInv, DirTyped
  <2> QED
    BY <1>1, <2>1, DirAssumption DEF Least
<1>3. DirInv'
  BY <1>1, <1>2, ReadRoundKeeps, EndRangeKeeps
<1>4. UNCHANGED <<opened, files_read, curr_block, stream>>
  BY <1>1 DEF ReadRound, EndRange
<1>5. /\ UNCHANGED <<read_in, reading, raw, asked, left_over, workspace, parse_in, parsed_data,
                     curr_buf, pc, delivered, ends, failed>>
      /\ curr_block' = curr_block /\ stream' = stream /\ AtEnd' = AtEnd
  BY <1>1, <1>4 DEF reader, caller, opened, AtEnd
<1>6. Mark' = Mark /\ Taken' = Taken
  BY <1>5 DEF Mark, Taken
<1>7. Chain' = Chain /\ ChainOK' /\ ParsedOK' /\ DeliveredOK'
  BY <1>5, <1>6, ChainStays
<1>8. ParserTyped'
  BY <1>5 DEF ParserInv, ParserTyped
<1>9. Apart'
  BY <1>5, <1>7 DEF ParserInv, Apart
<1>10. ReadOK'
  BY <1>5, <1>6 DEF ParserInv, ReadOK, Border, Piece
<1>11. EndOK'
  BY <1>5, <1>7 DEF ParserInv, EndOK
<1> QED
  BY <1>3, <1>4, <1>7, <1>8, <1>9, <1>10, <1>11 DEF ParserInv

\* Steps of the caller that take nothing.
LEMMA CallerKeeps ==
  ASSUME DirFixed, DirInv, ParserInv,
         UNCHANGED <<dirStream, reader, workspace, parse_in, parsed_data, curr_buf, delivered, ends>>,
         failed' \in {failed, TRUE}
  PROVE  DirInv' /\ ParserInv' /\ UNCHANGED opened
<1>1. UNCHANGED <<read_in, reading, raw, asked, left_over, curr_block, stream, files_read, total_files>>
  BY DEF reader, dirStream
<1>2. Mark' = Mark /\ Taken' = Taken /\ AtEnd' = AtEnd
  BY <1>1 DEF Mark, Taken, AtEnd
<1>3. failed \in BOOLEAN
  BY DEF ParserInv, ParserTyped
<1>4. Chain' = Chain /\ ChainOK' /\ ParsedOK' /\ DeliveredOK'
  <2>1. ~failed' => ~failed
    BY <1>3
  <2>2. stream' = stream
    BY DEF dirStream
  <2> QED
    BY <1>2, <2>1, <2>2, ChainStays
<1>5. ParserTyped'
  BY <1>1, <1>3 DEF ParserInv, ParserTyped
<1>6. Apart'
  BY <1>1, <1>4 DEF ParserInv, Apart
<1>7. ReadOK'
  BY <1>1, <1>2 DEF ParserInv, ReadOK, Border, Piece
<1>8. EndOK'
  BY <1>1, <1>2, <1>4 DEF ParserInv, EndOK
<1> QED
  BY <1>4, <1>5, <1>6, <1>7, <1>8, DirSame DEF ParserInv

(***************************************************************************)
(* ReadStage, up to where it hands a text on.                              *)
(***************************************************************************)
LEMMA BeginReadKeeps ==
  ASSUME DirFixed, DirInv, ParserInv, BeginRead
  PROVE  DirInv' /\ ParserInv' /\ UNCHANGED opened
<1>1. /\ reading = None /\ read_in # <<>> /\ reading' = Head(read_in) /\ read_in' = Tail(read_in)
      /\ raw' = left_over /\ left_over' = <<>> /\ asked' = ParseBlock
      /\ UNCHANGED <<dirStream, workspace, parse_in, parsed_data, caller>>
  BY DEF BeginRead
<1>2. /\ UNCHANGED <<curr_block, stream, files_read, total_files>>
      /\ UNCHANGED <<workspace, parse_in, parsed_data, curr_buf, pc, delivered, ends, failed>>
  BY <1>1 DEF caller, dirStream
<1>3. DirInv' /\ UNCHANGED opened
  BY <1>1, DirSame
<1>4. read_in \in Seq(Workspaces) /\ left_over \in Seq(Bytes)
  BY DEF ParserInv, ParserTyped
<1>5. /\ Len(read_in) \in Nat /\ Len(read_in) > 0 /\ Head(read_in) = read_in[1] /\ read_in[1] \in Workspaces
      /\ Tail(read_in) \in Seq(Workspaces) /\ Len(Tail(read_in)) = Len(read_in) - 1
      /\ \A i \in 1 .. Len(Tail(read_in)) : Tail(read_in)[i] = read_in[i + 1]
  <2>1. /\ Len(read_in) \in Nat \ {0} /\ Tail(read_in) \in Seq(Workspaces)
        /\ Len(Tail(read_in)) = Len(read_in) - 1
        /\ \A i \in 1 .. Len(Tail(read_in)) : Tail(read_in)[i] = read_in[i + 1]
    BY <1>1, <1>4, EmptySeq, HeadTailProperties
  <2>2. Head(read_in) = read_in[1]
    BY <1>4
  <2>3. read_in[1] \in Workspaces
    BY <1>4, <2>1, ElementOfSeq
  <2> QED
    BY <2>1, <2>2, <2>3
<1>6. reading' \in Workspaces /\ reading' # None /\ reading' \in Tokens
  BY <1>1, <1>5, NumbersAre DEF Tokens
<1>7. /\ DirTyped /\ ParserTyped /\ ReadOK
  BY DEF DirInv, ParserInv
<1>8. raw = <<>> /\ left_over = Piece(Mark, Taken) /\ NewLines(left_over) = {}
  BY <1>1, <1>7 DEF ReadOK
<1>9. Mark' = Mark /\ Taken' = Taken /\ AtEnd' = AtEnd
  <2>1. Len(left_over) \in Nat /\ Len(raw) = 0 /\ Taken \in Nat
    BY <1>1, <1>7, Marks
  <2>2. Len(<<>>) = 0
    BY EmptyText
  <2>3. Taken' = Taken /\ AtEnd' = AtEnd
    BY <1>2 DEF Taken, AtEnd
  <2>4. Mark = Taken - Len(left_over) - Len(raw) /\ Mark' = Taken' - Len(left_over') - Len(raw')
    BY DEF Mark
  <2> QED
    BY <1>1, <2>1, <2>2, <2>3, <2>4
<1>10. Chain' = Chain /\ ChainOK' /\ ParsedOK' /\ DeliveredOK'
  BY <1>2, <1>9, ChainStays
<1>11. ParserTyped'
  <2>1. ParseBlock \in 0 .. ParseBlock /\ <<>> \in Seq(Bytes)
    BY ParserAssumption, EmptyText
  <2> QED
    BY <1>1, <1>2, <1>4, <1>5, <1>6, <1>7, <2>1 DEF ParserTyped
<1>12. Apart'
  <2>1. Apart
    BY DEF ParserInv
  <2>2. \A i \in 1 .. Len(Tail(read_in)) : i + 1 \in 1 .. Len(read_in) /\ i + 1 # 1 /\ 1 \in 1 .. Len(read_in)
    BY <1>5
  <2>3. \A i, j \in 1 .. Len(Tail(read_in)) : i + 1 = j + 1 => i = j
    OBVIOUS
  <2>4. \A i, j \in 1 .. Len(read_in') : read_in'[i] = read_in'[j] => i = j
    BY <1>1, <1>5, <2>1, <2>2, <2>3 DEF Apart
  <2>5. \A i \in 1 .. Len(read_in'), j \in 1 .. Len(Chain) : read_in'[i] # Chain[j]
    BY <1>1, <1>5, <2>1, <2>2 DEF Apart
  <2>6. \A i \in 1 .. Len(read_in') : read_in'[i] # reading'
    BY <1>1, <1>5, <2>1, <2>2 DEF Apart
  <2>7. \A j \in 1 .. Len(Chain) : Chain[j] # reading'
    BY <1>1, <1>5, <2>1, <2>2 DEF Apart
  <2> QED
    BY <1>10, <2>1, <2>4, <2>5, <2>6, <2>7 DEF Apart
<1>13. ReadOK'
  BY <1>1, <1>2, <1>6, <1>7, <1>8, <1>9 DEF ReadOK, Border, Piece
<1>14. EndOK'
  BY <1>1, <1>2, <1>9, <1>10 DEF ParserInv, EndOK
<1> QED
  BY <1>3, <1>10, <1>11, <1>12, <1>13, <1>14 DEF ParserInv

LEMMA ReadMoreKeeps ==
  ASSUME DirFixed, DirInv, ParserInv, ReadMore
  PROVE  DirInv' /\ ParserInv' /\ UNCHANGED opened
<1>1. /\ reading # None /\ NewLines(raw) = {} /\ asked' = ParseBlock
      /\ UNCHANGED <<dirStream, read_in, reading, raw, left_over, workspace, parse_in, parsed_data, caller>>
  BY DEF ReadMore, ReadReturned
<1>2. /\ UNCHANGED <<curr_block, stream, files_read, total_files>>
      /\ UNCHANGED <<workspace, parse_in, parsed_data, curr_buf, pc, delivered, ends, failed>>
  BY <1>1 DEF caller, dirStream
<1>3. DirInv' /\ UNCHANGED opened
  BY <1>1, DirSame
<1>4. Mark' = Mark /\ Taken' = Taken /\ AtEnd' = AtEnd
  BY <1>1, <1>2 DEF Mark, Taken, AtEnd
<1>5. Chain' = Chain /\ ChainOK' /\ ParsedOK' /\ DeliveredOK'
  BY <1>2, <1>4, ChainStays
<1>6. ParserTyped'
  <2>1. ParseBlock \in 0 .. ParseBlock
    BY ParserAssumption
  <2> QED
    BY <1>1, <1>2, <2>1 DEF ParserInv, ParserTyped
<1>7. Apart'
  BY <1>1, <1>5 DEF ParserInv, Apart
<1>8. ReadOK'
  BY <1>1, <1>2, <1>4 DEF ParserInv, ReadOK, Border, Piece
<1>9. EndOK'
  BY <1>1, <1>2, <1>4, <1>5 DEF ParserInv, EndOK
<1> QED
  BY <1>3, <1>5, <1>6, <1>7, <1>8, <1>9 DEF ParserInv

LEMMA ReadCopyKeeps ==
  ASSUME DirFixed, DirInv, ParserInv, ReadCopy
  PROVE  DirInv' /\ ParserInv' /\ UNCHANGED opened
<1> DEFINE s == Least(asked, Len(curr_block))
           n == Len(stream)
<1>1. /\ reading # None /\ asked > 0 /\ curr_block # <<>>
      /\ raw' = raw \o SubSeq(curr_block, 1, s) /\ asked' = asked - s
      /\ curr_block' = After(curr_block, s)
      /\ UNCHANGED <<opened, ranges, contents, files_read, stream, read_in, reading, left_over,
                     workspace, parse_in, parsed_data, caller>>
  BY DEF ReadCopy
<1>2. UNCHANGED <<workspace, parse_in, parsed_data, curr_buf, pc, delivered, ends, failed>>
  BY <1>1 DEF caller
<1>3. DirTyped /\ ParserTyped /\ ReadOK
  BY DEF DirInv, ParserInv
<1>4. /\ curr_block \in Seq(Bytes) /\ stream \in Seq(Bytes) /\ raw \in Seq(Bytes) /\ asked \in 0 .. ParseBlock
      /\ ParseBlock \in Nat \ {0}
  BY <1>3, ParserAssumption DEF DirTyped, ParserTyped
<1>5. /\ n \in Nat /\ Len(curr_block) \in Nat /\ Len(raw) \in Nat
      /\ Taken \in Nat /\ Mark \in Nat /\ Mark <= Taken /\ Taken <= n /\ Taken = n - Len(curr_block)
      /\ Len(left_over) = 0 /\ Len(raw) = Taken - Mark
  BY <1>1, <1>3, Marks
<1>6. Len(curr_block) > 0
  BY <1>1, <1>4, <1>5, EmptySeq
<1>7. s \in Nat /\ s > 0 /\ s <= asked /\ s \in 0 .. Len(curr_block)
  BY <1>1, <1>4, <1>5, <1>6 DEF Least
<1> HIDE DEF s, n
<1>8. /\ left_over = <<>> /\ raw = Piece(Mark, Taken) /\ curr_block = Piece(Taken, n) /\ Border(Mark)
  BY <1>1, <1>3 DEF ReadOK, n
<1> DEFINE t == Taken + s
<1>9. t \in Nat /\ Taken <= t /\ t <= n /\ t - Taken = s
  BY <1>5, <1>7
<1>10. SubSeq(curr_block, 1, s) = Piece(Taken, t) /\ After(curr_block, s) = Piece(t, n)
  <2>1. stream \in Seq(Bytes) /\ Taken \in Nat /\ t \in Nat /\ n \in Nat /\ Taken <= t /\ t <= n
        /\ n <= Len(stream)
    BY <1>4, <1>5, <1>9 DEF n
  <2> HIDE DEF t
  <2>2. SubSeq(Piece(Taken, n), 1, t - Taken) = Piece(Taken, t) /\ After(Piece(Taken, n), t - Taken) = Piece(t, n)
    BY <2>1, PieceCut
  <2> QED
    BY <1>8, <1>9, <2>2
<1>11. raw' = Piece(Mark, t)
  <2>1. t <= Len(stream)
    BY <1>9 DEF n
  <2>2. Piece(Mark, Taken) \o Piece(Taken, t) = Piece(Mark, t)
    BY <1>4, <1>5, <1>9, <2>1, PieceJoined
  <2> QED
    BY <1>1, <1>8, <1>10, <2>2
<1>12. /\ raw' \in Seq(Bytes) /\ Len(raw') = t - Mark
       /\ curr_block' \in Seq(Bytes) /\ Len(curr_block') = n - t
  <2>1. t <= Len(stream) /\ n <= Len(stream) /\ Mark <= t
    BY <1>5, <1>9 DEF n
  <2>2. Piece(Mark, t) \in Seq(Bytes) /\ Len(Piece(Mark, t)) = t - Mark
    BY <1>4, <1>5, <1>9, <2>1, PieceIs
  <2>3. Piece(t, n) \in Seq(Bytes) /\ Len(Piece(t, n)) = n - t
    BY <1>4, <1>5, <1>9, <2>1, PieceIs
  <2> QED
    BY <1>1, <1>10, <1>11, <2>2, <2>3
<1>13. DirInv' /\ UNCHANGED opened
  BY <1>1, <1>12, DirUnchanged
<1>14. Taken' = t /\ Mark' = Mark
  <2>1. Taken' = Len(stream') - Len(curr_block') /\ Mark' = Taken' - Len(left_over') - Len(raw')
    BY DEF Taken, Mark
  <2>2. Taken' = n - (n - t)
    BY <1>1, <1>12, <2>1 DEF n
  <2>3. Taken' = t
    BY <1>5, <1>9, <2>2
  <2>4. Mark' = t - 0 - (t - Mark)
    BY <1>1, <1>5, <1>12, <2>1, <2>3
  <2> QED
    BY <1>5, <1>9, <2>3, <2>4
<1>15. Chain' = Chain /\ ChainOK' /\ ParsedOK' /\ DeliveredOK'
  BY <1>1, <1>2, <1>14, ChainStays
<1>16. asked' \in 0 .. ParseBlock /\ asked' # ParseBlock
  BY <1>1, <1>4, <1>7
<1>17. ParserTyped'
  BY <1>1, <1>2, <1>3, <1>12, <1>16 DEF ParserTyped
<1>18. Apart'
  BY <1>1, <1>15 DEF ParserInv, Apart
<1>19. ReadOK'
  <2>1. Len(curr_block') <= Len(stream') /\ Mark' >= 0
    BY <1>1, <1>5, <1>9, <1>12, <1>14 DEF n
  <2>2. curr_block' = Piece(Taken, Len(stream))'
    BY <1>1, <1>10, <1>14 DEF Piece, n
  <2>3. Border(Mark)' /\ raw' = Piece(Mark, Taken)'
    BY <1>1, <1>8, <1>11, <1>14 DEF Piece, Border
  <2> QED
    BY <1>1, <1>8, <1>16, <2>1, <2>2, <2>3 DEF ReadOK
<1>20. EndOK'
  <2>1. ~(ends > 0 \/ \E m \in 1 .. Len(Chain) : Chain[m] = None)
    BY <1>1 DEF ParserInv, EndOK, AtEnd
  <2> QED
    BY <1>2, <1>15, <2>1 DEF EndOK
<1> QED
  BY <1>13, <1>15, <1>17, <1>18, <1>19, <1>20 DEF ParserInv

LEMMA StreamEnds ==
  ASSUME DirInv
  PROVE  /\ stream \in Seq(Bytes) /\ Whole(stream) /\ Sorted(stream)
         /\ stream # <<>> => IsNewLine(stream[Len(stream)])
<1>1. stream \in Seq(Bytes) /\ contents \in Seq(Seq(Bytes))
  BY DEF DirInv, DirTyped
<1>2. Len(Texts) \in Nat /\ 1 \in 1 .. Len(Texts) /\ Texts[1] = stream
  <2>1. Len(contents) \in Nat /\ Len(<<stream>> \o contents) = Len(contents) + 1 /\ (<<stream>> \o contents)[1] = stream
    BY <1>1, TextsAre
  <2> QED
    BY <2>1 DEF Texts
<1>3. Whole(stream) /\ Sorted(stream)
  BY <1>2 DEF DirInv, TextsOK
<1> QED
  BY <1>1, <1>3, WholeEnds

LEMMA ReadPopKeeps ==
  ASSUME DirFixed, DirInv, ParserInv, ReadPop
  PROVE  DirInv' /\ ParserInv' /\ UNCHANGED opened
<1> DEFINE h == Head(contents)
           n == Len(stream)
           k == Len(h)
<1>1. /\ reading # None /\ PopBlock /\ curr_block = <<>> /\ contents # <<>> /\ ~AtEnd
      /\ curr_block' = h /\ stream' = stream \o h
      /\ UNCHANGED <<opened, reader, workspace, parse_in, parsed_data, caller>>
  BY DEF ReadPop, PopBlock, AtEnd
<1>2. UNCHANGED <<read_in, reading, raw, asked, left_over, workspace, parse_in, parsed_data,
                  curr_buf, pc, delivered, ends, failed>>
  BY <1>1 DEF reader, caller
<1>3. DirInv'
  BY <1>1, PopBlockKeeps
<1>4. DirTyped /\ ParserTyped /\ ReadOK /\ ChainOK /\ ParsedOK
  BY DEF DirInv, ParserInv
<1>5. stream \in Seq(Bytes) /\ h \in Seq(Bytes)
  <2>1. contents \in Seq(Seq(Bytes)) /\ stream \in Seq(Bytes)
    BY <1>4 DEF DirTyped
  <2> QED
    BY <1>1, <2>1, HeadTailProperties
<1> HIDE DEF h
<1>6. stream # <<>> => IsNewLine(stream[Len(stream)])
  BY StreamEnds
<1>7. /\ stream' \in Seq(Bytes) /\ n \in Nat /\ k \in Nat /\ Len(stream') = n + k
      /\ \A m \in 1 .. n : stream'[m] = stream[m]
      /\ \A m \in 1 .. n : m \in LineStarts(stream') <=> m \in LineStarts(stream)
      /\ \A m \in LineStarts(stream) : LineAt(stream', m) = LineAt(stream, m)
      /\ \A a, b \in Nat : a <= b /\ b <= n => SubSeq(stream', a + 1, b) = SubSeq(stream, a + 1, b)
  BY <1>1, <1>5, <1>6, Grown
<1>8. \A j \in 1 .. k : stream'[n + j] = h[j]
  BY <1>1, <1>5, Joined
<1>9. /\ Len(raw) \in Nat /\ Len(left_over) \in Nat /\ Taken = n /\ Taken \in Nat /\ Mark \in Nat /\ Mark <= n
  <2>1. Len(curr_block) = 0
    BY <1>1, EmptyText
  <2> QED
    BY <1>4, <1>7, <2>1, Marks
<1> HIDE DEF n, k
<1>10. Taken' = n /\ Mark' = Mark
  <2>1. /\ Taken' = Len(stream') - Len(curr_block') /\ Mark' = Taken' - Len(left_over') - Len(raw')
        /\ Mark = Taken - Len(left_over) - Len(raw)
    BY DEF Taken, Mark
  <2>2. Taken' = (n + k) - k
    BY <1>1, <1>7, <2>1 DEF k
  <2>3. Taken' = n
    BY <1>7, <2>2
  <2> QED
    BY <1>2, <1>9, <2>1, <2>3
<1>11. Chain' = Chain
  BY <1>2 DEF Chain
<1>12. ASSUME NEW a \in Nat, a <= n, Border(a) PROVE Border(a)'
  <2>1. CASE a = 0
    BY <2>1 DEF Border
  <2>2. CASE a # 0
    <3>1. a \in 1 .. n /\ a \in 1 .. Len(stream') /\ IsNewLine(stream[a])
      BY <1>7, <1>12, <2>2 DEF Border
    <3> QED
      BY <1>7, <3>1 DEF Border
  <2> QED
    BY <2>1, <2>2
<1>13. ASSUME NEW a \in Nat, NEW b \in Nat, a <= b, b <= n PROVE Piece(a, b)' = Piece(a, b)
  BY <1>7, <1>13 DEF Piece
<1>14. ChainOK'
  <2>1. \A i : End(i)' = End(i)
    BY <1>2 DEF End
  <2>2. \A m \in 1 .. Len(Chain) : Following(m)' = Following(m)
    BY <1>2, <1>10, <1>11 DEF Following
  <2>3. ASSUME NEW m \in 1 .. Len(Chain), NEW i, i = Chain[m], i # None
        PROVE  HasText(i)' /\ End(i)' = Following(m)'
    <3>0. PICK a, b : a = workspace[i].from /\ b = End(i)
      OBVIOUS
    <3>1. /\ a \in Nat /\ b \in Nat /\ a <= b /\ b <= Len(stream)
          /\ workspace[i].raw = Piece(a, b) /\ Border(a) /\ Border(b) /\ b = Following(m)
      BY <1>4, <2>3, <3>0, TextOf
    <3>2. b <= n /\ a <= n
      BY <1>7, <3>1 DEF n
    <3>3. End(i)' = b /\ workspace'[i].from = a /\ workspace'[i].raw = workspace[i].raw
      BY <1>2, <2>1, <3>0
    <3>4. Border(a)' /\ Border(b)' /\ Piece(a, b)' = Piece(a, b)
      BY <1>12, <1>13, <3>1, <3>2
    <3>5. HasText(i)'
      BY <3>1, <3>3, <3>4 DEF HasText
    <3> QED
      BY <2>2, <3>1, <3>3, <3>5
  <2>4. \A m, j \in 1 .. Len(Chain) : m < j /\ Chain[m] = None => Chain[j] = None
    BY <1>4 DEF ChainOK
  <2> QED
    BY <1>11, <2>3, <2>4 DEF ChainOK
<1>15. ParsedOK'
  <2>1. \A i : IsParsed(i)' <=> IsParsed(i)
    BY <1>2 DEF IsParsed
  <2> QED
    BY <1>2, <1>4, <2>1 DEF ParsedOK
<1>16. Front' = Front /\ Front \in Nat /\ Front <= n
  <2>1. Front' = Front
    BY <1>2, <1>10, <1>11 DEF Front
  <2>2. Front \in Nat /\ Front <= Mark
    BY <1>4, FrontIs
  <2> QED
    BY <1>7, <1>9, <2>1, <2>2
<1>17. DeliveredOK'
  <2>1. ASSUME NEW m \in Nat, m <= n PROVE GoodStart(m)' <=> GoodStart(m)
    <3>1. CASE m = 0
      <4>1. m \notin LineStarts(stream) /\ m \notin LineStarts(stream')
        BY <1>5, <1>7, <3>1, LinesBegin
      <4> QED
        BY <4>1 DEF GoodStart
    <3>2. CASE m # 0
      <4>1. m \in 1 .. n
        BY <1>7, <2>1, <3>2
      <4> QED
        BY <1>7, <4>1 DEF GoodStart
    <3> QED
      BY <3>1, <3>2
  <2>2. \A m : GoodStart(m) => m \in LineStarts(stream) /\ LineAt(stream', m) = LineAt(stream, m)
    BY <1>7 DEF GoodStart
  <2>3. ASSUME NEW m \in 1 .. Len(stream'), m <= Front PROVE m \in 1 .. n /\ m \in Nat /\ m <= n
    BY <1>7, <1>16, <2>3
  <2>4. \A m \in 1 .. n : m \in 1 .. Len(stream') /\ m \in Nat /\ m <= n
    BY <1>7
  <2>5. DeliveredOK
    BY DEF ParserInv
  <2>6. \A j \in 1 .. Len(delivered) :
          \E m \in 1 .. Len(stream') : GoodStart(m)' /\ m <= Front /\ delivered[j] = LineAt(stream', m)
    <3>1. ASSUME NEW j \in 1 .. Len(delivered)
          PROVE  \E m \in 1 .. Len(stream') : GoodStart(m)' /\ m <= Front /\ delivered[j] = LineAt(stream', m)
      <4>1. PICK m \in 1 .. n : GoodStart(m) /\ m <= Front /\ delivered[j] = LineAt(stream, m)
        BY <2>5 DEF DeliveredOK, n
      <4> QED
        BY <2>1, <2>2, <2>4, <4>1
    <3> QED
      BY <3>1
  <2>7. ASSUME ~failed, NEW m \in 1 .. Len(stream'), GoodStart(m)', m <= Front
        PROVE  \E j \in 1 .. Len(delivered) : delivered[j] = LineAt(stream', m)
    <3>1. m \in 1 .. n /\ GoodStart(m)
      BY <2>1, <2>3, <2>7
    <3>2. \E j \in 1 .. Len(delivered) : delivered[j] = LineAt(stream, m)
      BY <2>5, <2>7, <3>1 DEF DeliveredOK, n
    <3> QED
      BY <2>2, <3>1, <3>2
  <2> QED
    BY <1>2, <1>16, <2>6, <2>7 DEF DeliveredOK
<1>18. ParserTyped'
  BY <1>2, <1>4 DEF ParserTyped
<1>19. Apart'
  BY <1>2, <1>11 DEF ParserInv, Apart
<1>20. ReadOK'
  <2>1. curr_block' = SubSeq(stream', n + 1, n + k)
    <3>1. n <= n + k /\ n + k <= Len(stream') /\ n + k \in Nat
      BY <1>7
    <3>2. /\ SubSeq(stream', n + 1, n + k) \in Seq(Bytes)
          /\ Len(SubSeq(stream', n + 1, n + k)) = n + k - n
          /\ \A j \in 1 .. n + k - n : SubSeq(stream', n + 1, n + k)[j] = stream'[n + j]
      BY <1>7, <3>1, Part
    <3>3. n + k - n = k
      BY <1>7
    <3>4. Len(h) = k /\ \A j \in 1 .. Len(h) : h[j] = SubSeq(stream', n + 1, n + k)[j]
      BY <1>8, <3>2, <3>3 DEF k
    <3> QED
      BY <1>1, <1>5, <3>2, <3>3, <3>4, SeqEqual
  <2>2. curr_block' = Piece(Taken, Len(stream))'
    BY <1>7, <1>10, <2>1 DEF Piece
  <2>3. Len(curr_block') <= Len(stream')
    <3>1. Len(curr_block') = k
      BY <1>1 DEF k
    <3> QED
      BY <1>7, <3>1
  <2>4. left_over = <<>> /\ raw = Piece(Mark, n) /\ (asked = ParseBlock => NewLines(raw) = {}) /\ Border(Mark)
    BY <1>1, <1>4, <1>9 DEF ReadOK
  <2>5. Mark' >= 0 /\ Border(Mark)' /\ raw' = Piece(Mark, Taken)'
    <3>1. SubSeq(stream', Mark + 1, n) = SubSeq(stream, Mark + 1, n)
      BY <1>7, <1>9
    <3>2. raw' = Piece(Mark, Taken)'
      BY <1>2, <1>10, <2>4, <3>1 DEF Piece
    <3> DEFINE a == Mark
    <3>3. Border(Mark)'
      <4>1. CASE Mark = 0
        BY <1>10, <4>1 DEF Border
      <4>2. CASE Mark # 0
        <5>1. Mark \in 1 .. n /\ Mark \in 1 .. Len(stream') /\ IsNewLine(stream[Mark])
          BY <1>7, <1>9, <2>4, <4>2 DEF Border
        <5> QED
          BY <1>7, <1>10, <5>1 DEF Border
      <4> QED
        BY <4>1, <4>2
    <3> QED
      BY <1>9, <1>10, <3>2, <3>3
  <2> QED
    BY <1>1, <1>2, <2>2, <2>3, <2>4, <2>5 DEF ReadOK
<1>21. EndOK'
  <2>1. ~(ends > 0 \/ \E m \in 1 .. Len(Chain) : Chain[m] = None)
    BY <1>1 DEF ParserInv, EndOK
  <2> QED
    BY <1>2, <1>11, <2>1 DEF EndOK
<1> QED
  BY <1>1, <1>3, <1>14, <1>15, <1>17, <1>18, <1>19, <1>20, <1>21 DEF ParserInv

LEMMA LinkedMore ==
  ASSUME NEW c \in Tokens, NEW pd \in Seq(Tokens), NEW pi \in Seq(Entry), NEW e \in Entry
  PROVE  LET s == Linked(c, pd, pi) u == Linked(c, pd, Append(pi, e)) IN
         /\ Append(pi, e) \in Seq(Entry) /\ Len(Append(pi, e)) = Len(pi) + 1 /\ Len(pi) \in Nat
         /\ \A k \in 1 .. Len(pi) : Append(pi, e)[k] = pi[k]
         /\ Append(pi, e)[Len(pi) + 1] = e
         /\ Len(s) \in Nat /\ Len(u) = Len(s) + 1 /\ u[Len(s) + 1] = e.part
         /\ \A m \in 1 .. Len(s) : u[m] = s[m]
<1> DEFINE pie == Append(pi, e)
           s == Linked(c, pd, pi)
           u == Linked(c, pd, pie)
           h == Here(c)
<1>1. /\ Len(pi) \in Nat /\ pie \in Seq(Entry) /\ Len(pie) = Len(pi) + 1
      /\ \A k \in 1 .. Len(pi) : pie[k] = pi[k]
      /\ pie[Len(pi) + 1] = e
  <2>1. Len(pi) \in Nat
    BY LenProperties
  <2> QED
    BY <2>1, AppendProperties
<1> HIDE DEF pie
<1>2. Links(c, pd, pi)
  BY LinkedIs
<1>3. Links(c, pd, pie)
  BY <1>1, LinkedIs
<1>4. /\ h \in 0 .. 1 /\ Len(pd) \in Nat /\ Len(s) = h + Len(pd) + Len(pi) /\ Len(u) = h + Len(pd) + Len(pie)
      /\ \A k \in 1 .. Len(pd) : u[h + k] = pd[k]
      /\ \A k \in 1 .. Len(pie) : u[h + Len(pd) + k] = pie[k].part
      /\ c # None => s[1] = c /\ u[1] = c
  BY <1>2, <1>3 DEF Links
<1> HIDE DEF s, u, h
<1>5. Len(s) \in Nat /\ Len(u) = Len(s) + 1
  BY <1>1, <1>4
<1>6. u[Len(s) + 1] = e.part
  <2>1. Len(pi) + 1 \in 1 .. Len(pie) /\ h + Len(pd) + (Len(pi) + 1) = Len(s) + 1
    BY <1>1, <1>4
  <2>2. u[h + Len(pd) + (Len(pi) + 1)] = pie[Len(pi) + 1].part
    BY <1>4, <2>1
  <2> QED
    BY <1>1, <2>1, <2>2
<1>7. ASSUME NEW m \in 1 .. Len(s) PROVE u[m] = s[m]
  <2>1. \/ c # None /\ m = 1
        \/ m - h \in 1 .. Len(pd) /\ s[m] = pd[m - h]
        \/ m - h - Len(pd) \in 1 .. Len(pi) /\ s[m] = pi[m - h - Len(pd)].part
    BY <1>2, <1>7, LinkedAt DEF s, h
  <2>2. CASE c # None /\ m = 1
    BY <1>4, <2>2
  <2>3. CASE m - h \in 1 .. Len(pd) /\ s[m] = pd[m - h]
    <3>1. h + (m - h) = m
      BY <1>4, <1>5
    <3>2. u[h + (m - h)] = pd[m - h]
      BY <1>4, <2>3
    <3> QED
      BY <2>3, <3>1, <3>2
  <2>4. CASE m - h - Len(pd) \in 1 .. Len(pi) /\ s[m] = pi[m - h - Len(pd)].part
    <3> DEFINE k == m - h - Len(pd)
    <3>1. h + Len(pd) + k = m /\ k \in 1 .. Len(pie) /\ k \in 1 .. Len(pi)
      BY <1>1, <1>4, <1>5, <2>4
    <3>3. s[m] = pi[k].part
      BY <2>4
    <3> HIDE DEF k
    <3>2. u[h + Len(pd) + k] = pie[k].part /\ pie[k] = pi[k]
      BY <1>1, <1>4, <3>1
    <3> QED
      BY <3>1, <3>2, <3>3
  <2> QED
    BY <2>1, <2>2, <2>3, <2>4
<1> QED
  BY <1>1, <1>4, <1>5, <1>6, <1>7 DEF s, u, pie

\* No number that has been handed on is with ReadStage.
LEMMA NotReading ==
  ASSUME ParserTyped, Apart, reading # None
  PROVE  /\ \A m \in 1 .. Len(Chain) : Chain[m] # reading
         /\ \A k \in 1 .. Len(parse_in) : parse_in[k].part # reading
         /\ \A k \in 1 .. Len(parsed_data) : parsed_data[k] # reading
         /\ curr_buf # reading
<1>1. \A m \in 1 .. Len(Chain) : Chain[m] # reading
  BY DEF Apart
<1> DEFINE h == Here(curr_buf)
<1>2. /\ h \in 0 .. 1 /\ Len(parsed_data) \in Nat /\ Len(parse_in) \in Nat
      /\ Len(Chain) = h + Len(parsed_data) + Len(parse_in)
      /\ curr_buf # None => Chain[1] = curr_buf
      /\ \A k \in 1 .. Len(parsed_data) : Chain[h + k] = parsed_data[k]
      /\ \A k \in 1 .. Len(parse_in) : Chain[h + Len(parsed_data) + k] = parse_in[k].part
  BY ChainLinks DEF Links
<1>3. curr_buf # None => h = 1
  BY DEF Here
<1> HIDE DEF h
<1>4. curr_buf # None => 1 \in 1 .. Len(Chain)
  BY <1>2, <1>3
<1>5. \A k \in 1 .. Len(parsed_data) : h + k \in 1 .. Len(Chain)
  BY <1>2
<1>6. \A k \in 1 .. Len(parse_in) : h + Len(parsed_data) + k \in 1 .. Len(Chain)
  BY <1>2
<1> QED
  BY <1>1, <1>2, <1>4, <1>5, <1>6

\* What EndRead hands on: a piece of the stream, up to a line break, or, at the
\* end, nothing.
HandsOn(cut) ==
  /\ reading \in Workspaces /\ cut \in 0 .. Len(raw) /\ cut \in Nat
  /\ workspace' = [workspace EXCEPT ![reading].raw = SubSeq(raw, 1, cut), ![reading].from = Mark]
  /\ SubSeq(raw, 1, cut) = Piece(Mark, Mark + cut) /\ SubSeq(raw, 1, cut) \in Seq(Bytes)
  /\ Len(SubSeq(raw, 1, cut)) = cut
  /\ left_over' = Piece(Mark + cut, Taken) /\ left_over' \in Seq(Bytes) /\ NewLines(left_over') = {}
  /\ Mark' = Mark + cut /\ Taken' = Taken /\ Border(Mark + cut)
  /\ parse_in' = Append(parse_in, NewEntry(Token)) /\ Token \in {reading, None}
  /\ Token = None => AtEnd /\ raw = <<>> /\ cut = 0 /\ left_over' = <<>>
  /\ Token # None => raw # <<>>

LEMMA EndReadHandsOn ==
  ASSUME DirFixed, DirInv, ParserInv, EndRead, pc # "stop"
  PROVE  \E cut : HandsOn(cut)
<1> DEFINE cut == IF AtEndOfText THEN Len(raw) ELSE LastNewLine(raw)
<1>1. /\ raw' = <<>> /\ reading' = None /\ left_over' = After(raw, cut)
      /\ workspace' = [workspace EXCEPT ![reading].raw = SubSeq(raw, 1, cut),
                                        ![reading].from = Len(stream) - Len(curr_block) - Len(raw)]
      /\ parse_in' = Append(parse_in, NewEntry(Token))
      /\ UNCHANGED <<dirStream, read_in, parsed_data, caller>>
  BY DEF EndRead, ReadReturned
<1>2. reading # None /\ (asked = 0 \/ AtEnd) /\ (AtEndOfText \/ NewLines(raw) # {})
  BY DEF EndRead, ReadReturned
<1>3. DirTyped /\ ParserTyped /\ ReadOK
  BY DEF DirInv, ParserInv
<1>4. stream \in Seq(Bytes) /\ raw \in Seq(Bytes) /\ reading \in Workspaces /\ ParseBlock \in Nat \ {0}
  BY <1>2, <1>3, NumbersAre, ParserAssumption DEF DirTyped, ParserTyped
<1>5. /\ Len(stream) \in Nat /\ Len(curr_block) \in Nat /\ Len(raw) \in Nat
      /\ Taken \in Nat /\ Mark \in Nat /\ Mark <= Taken /\ Taken <= Len(stream)
      /\ Taken = Len(stream) - Len(curr_block)
      /\ Len(left_over) = 0 /\ Len(raw) = Taken - Mark
  BY <1>2, <1>3, Marks
<1>6. raw = Piece(Mark, Taken) /\ Border(Mark) /\ (asked = ParseBlock => NewLines(raw) = {})
  BY <1>2, <1>3 DEF ReadOK
<1>7. \A j \in 1 .. Len(raw) : raw[j] = stream[Mark + j]
  <2>1. \A j \in 1 .. Taken - Mark : Piece(Mark, Taken)[j] = stream[Mark + j]
    BY <1>4, <1>5, PieceIs
  <2> QED
    BY <1>5, <1>6, <2>1
<1>8. ASSUME AtEndOfText PROVE raw = <<>> /\ AtEnd /\ Token = None
  <2>1. asked = ParseBlock /\ asked # 0
    BY <1>4, <1>8 DEF AtEndOfText
  <2>2. AtEnd /\ curr_block = <<>> /\ NewLines(raw) = {}
    BY <1>2, <1>6, <2>1 DEF AtEnd
  <2>3. Taken = Len(stream)
    BY <1>5, <2>2, EmptyText
  <2>4. raw = <<>>
    <3> SUFFICES ASSUME raw # <<>> PROVE FALSE
      OBVIOUS
    <3>1. Len(raw) > 0
      BY <1>4, <1>5, EmptySeq
    <3>2. Len(stream) # 0 /\ Len(raw) \in 1 .. Len(raw) /\ Mark + Len(raw) = Len(stream)
      BY <1>5, <2>3, <3>1
    <3>3. stream # <<>>
      BY <3>2, EmptyText
    <3>4. IsNewLine(stream[Len(stream)])
      BY <3>3, StreamEnds
    <3>5. IsNewLine(raw[Len(raw)])
      BY <1>7, <3>2, <3>4
    <3>6. Len(raw) \in NewLines(raw)
      BY <1>4, <3>2, <3>5, LineBreaks
    <3> QED
      BY <2>2, <3>6
  <2> QED
    BY <1>8, <2>2, <2>4 DEF Token
<1>9. ASSUME ~AtEndOfText
      PROVE  /\ LastNewLine(raw) \in NewLines(raw) /\ \A k \in NewLines(raw) : k <= LastNewLine(raw)
             /\ LastNewLine(raw) \in 1 .. Len(raw) /\ IsNewLine(raw[LastNewLine(raw)])
             /\ raw # <<>> /\ Token = reading
  <2>1. NewLines(raw) # {}
    BY <1>2, <1>9
  <2>2. /\ LastNewLine(raw) \in NewLines(raw) /\ \A k \in NewLines(raw) : k <= LastNewLine(raw)
        /\ NewLines(raw) \in SUBSET (1 .. Len(raw))
        /\ \A k \in 1 .. Len(raw) : k \in NewLines(raw) <=> IsNewLine(raw[k])
    BY <1>4, <2>1, LineBreaks
  <2>3. raw # <<>>
    BY <2>1, EmptyText
  <2> QED
    BY <1>9, <2>2, <2>3 DEF Token
<1>10. cut \in 0 .. Len(raw) /\ cut \in Nat
  <2>1. CASE AtEndOfText
    BY <1>5, <2>1
  <2>2. CASE ~AtEndOfText
    BY <1>5, <1>9, <2>2
  <2> QED
    BY <2>1, <2>2
<1>11. Border(Mark + cut)
  <2>1. CASE AtEndOfText
    <3>1. cut = 0 /\ Mark + cut = Mark
      BY <1>5, <1>8, <2>1, EmptyText
    <3> HIDE DEF cut
    <3> QED
      BY <1>6, <3>1
  <2>2. CASE ~AtEndOfText
    <3>1. cut \in 1 .. Len(raw) /\ IsNewLine(raw[cut])
      BY <1>9, <2>2
    <3> HIDE DEF cut
    <3>2. Mark + cut \in 1 .. Len(stream) /\ IsNewLine(stream[Mark + cut])
      BY <1>5, <1>7, <3>1
    <3> QED
      BY <3>2 DEF Border
  <2> QED
    BY <2>1, <2>2
<1>12. Token = None => AtEnd /\ raw = <<>> /\ cut = 0
  BY <1>4, <1>8, <1>9, NumbersAre, EmptyText
<1>13. Token # None => raw # <<>> /\ ~AtEndOfText
  BY <1>8, <1>9
<1>14. Token \in {reading, None}
  BY <1>8, <1>9
<1>15. NewLines(After(raw, cut)) = {}
  <2>1. CASE AtEndOfText
    <3>1. cut = 0 /\ raw = <<>>
      BY <1>8, <2>1, EmptyText
    <3> HIDE DEF cut
    <3> QED
      BY <3>1, EmptyText
  <2>2. CASE ~AtEndOfText
    <3>1. \A k \in NewLines(raw) : k <= cut
      BY <1>9, <2>2
    <3> HIDE DEF cut
    <3>2. /\ After(raw, cut) \in Seq(Bytes) /\ Len(After(raw, cut)) = Len(raw) - cut
          /\ \A j \in 1 .. Len(raw) - cut : After(raw, cut)[j] = raw[cut + j]
      BY <1>4, <1>10, Suffix
    <3> SUFFICES ASSUME NEW j \in NewLines(After(raw, cut)) PROVE FALSE
      OBVIOUS
    <3>3. j \in 1 .. Len(raw) - cut /\ IsNewLine(After(raw, cut)[j])
      BY <3>2, LineBreaks
    <3>4. cut + j \in 1 .. Len(raw) /\ IsNewLine(raw[cut + j]) /\ ~(cut + j <= cut)
      BY <1>5, <1>10, <3>2, <3>3
    <3>5. cut + j \in NewLines(raw)
      BY <1>4, <3>4, LineBreaks
    <3> QED
      BY <3>1, <3>4, <3>5
  <2> QED
    BY <2>1, <2>2
<1> HIDE DEF cut
<1> DEFINE M == Mark + cut
<1>16. /\ SubSeq(raw, 1, cut) = Piece(Mark, M) /\ After(raw, cut) = Piece(M, Taken)
  <2>1. /\ M \in Nat /\ Mark <= M /\ M <= Taken /\ M - Mark = cut
        /\ Mark \in Nat /\ Taken \in Nat /\ Taken <= Len(stream) /\ stream \in Seq(Bytes)
    BY <1>4, <1>5, <1>10
  <2> HIDE DEF M
  <2>2. SubSeq(Piece(Mark, Taken), 1, M - Mark) = Piece(Mark, M)
        /\ After(Piece(Mark, Taken), M - Mark) = Piece(M, Taken)
    BY <2>1, PieceCut
  <2> QED
    BY <1>6, <2>1, <2>2
<1>17. /\ SubSeq(raw, 1, cut) \in Seq(Bytes) /\ Len(SubSeq(raw, 1, cut)) = cut
       /\ After(raw, cut) \in Seq(Bytes) /\ Len(After(raw, cut)) = Len(raw) - cut
  BY <1>4, <1>10, Prefix, Suffix
<1>18. Taken' = Taken /\ Mark' = M
  <2>1. curr_block' = curr_block /\ stream' = stream
    BY <1>1 DEF dirStream
  <2>2. Taken' = Taken /\ Mark' = Taken' - Len(left_over') - Len(raw')
    BY <2>1 DEF Taken, Mark
  <2>3. Len(left_over') = Len(raw) - cut /\ Len(raw') = 0
    BY <1>1, <1>17, EmptyText
  <2>4. Mark' = Taken - (Len(raw) - cut) - 0
    BY <2>2, <2>3
  <2> QED
    BY <1>5, <1>10, <2>2, <2>4
<1>19. Len(stream) - Len(curr_block) - Len(raw) = Mark
  BY <1>5
<1>20. cut = 0 /\ raw = <<>> => After(raw, cut) = <<>>
  BY EmptyText
<1>21. /\ workspace' = [workspace EXCEPT ![reading].raw = SubSeq(raw, 1, cut), ![reading].from = Mark]
       /\ left_over' = After(raw, cut) /\ parse_in' = Append(parse_in, NewEntry(Token))
  BY <1>1, <1>19
<1>22. HandsOn(cut)
  BY <1>4, <1>10, <1>11, <1>12, <1>13, <1>14, <1>15, <1>16, <1>17, <1>18, <1>20, <1>21 DEF HandsOn
<1> QED
  BY <1>22

LEMMA EndReadKeeps ==
  ASSUME DirFixed, DirInv, ParserInv, EndRead, pc # "stop"
  PROVE  DirInv' /\ ParserInv' /\ UNCHANGED opened
<1> DEFINE c == Len(Chain)
<1>1. /\ reading # None /\ raw' = <<>> /\ reading' = None /\ asked' = 0
      /\ UNCHANGED <<dirStream, read_in, parsed_data, caller>>
  BY DEF EndRead, ReadReturned
<1>2. /\ UNCHANGED <<curr_block, stream, files_read, total_files>>
      /\ UNCHANGED <<curr_buf, pc, delivered, ends, failed>>
  BY <1>1 DEF caller, dirStream
<1>3. DirInv' /\ UNCHANGED opened
  BY <1>1, DirSame
<1>4. PICK cut : HandsOn(cut)
  BY EndReadHandsOn
<1>5. DirTyped /\ ParserTyped /\ Apart /\ ReadOK /\ ChainOK /\ ParsedOK /\ EndOK /\ DeliveredOK
  BY DEF DirInv, ParserInv
<1>6. /\ reading \in Workspaces /\ cut \in Nat /\ Mark \in Nat /\ Mark + cut \in Nat
      /\ Mark' = Mark + cut /\ Taken' = Taken
  BY <1>4, <1>5, Marks DEF HandsOn
<1>7. /\ workspace'[reading].raw = Piece(Mark, Mark + cut) /\ workspace'[reading].from = Mark
      /\ Len(workspace'[reading].raw) = cut
      /\ workspace' \in [Workspaces -> Spaces]
      /\ \A i \in Workspaces : i # reading => workspace'[i] = workspace[i]
  <2>1. workspace \in [Workspaces -> Spaces] /\ reading \in Workspaces
    BY <1>5, <1>6 DEF ParserTyped
  <2> DEFINE w == workspace[reading]
             v == SubSeq(raw, 1, cut)
  <2>2. w \in Spaces /\ v \in Seq(Bytes) /\ v = Piece(Mark, Mark + cut) /\ Len(v) = cut
    BY <1>4, <2>1 DEF HandsOn
  <2>3. workspace' = [workspace EXCEPT ![reading].raw = v, ![reading].from = Mark]
    BY <1>4 DEF HandsOn
  <2> HIDE DEF v
  <2>4. workspace'[reading].raw = v /\ workspace'[reading].from = Mark
    BY <2>1, <2>2, <2>3 DEF Spaces
  <2>5. workspace'[reading] \in Spaces
    BY <1>6, <2>1, <2>2, <2>3 DEF Spaces
  <2>6. \A i \in Workspaces : i # reading => workspace'[i] = workspace[i]
    BY <2>1, <2>3
  <2>7. workspace' = [i \in Workspaces |-> workspace'[i]]
    BY <2>1, <2>3
  <2>8. workspace' \in [Workspaces -> Spaces]
    BY <2>1, <2>5, <2>6, <2>7
  <2> QED
    BY <2>2, <2>4, <2>6, <2>8
<1>8. Token \in Tokens /\ Token \in {reading, None} /\ NewEntry(Token) \in Entry
      /\ NewEntry(Token).part = Token /\ ~NewEntry(Token).finished
  <2>1. Token \in {reading, None}
    BY <1>4 DEF HandsOn
  <2>2. Token \in Tokens
    BY <1>6, <2>1, NumbersAre DEF Tokens
  <2> QED
    BY <2>1, <2>2 DEF NewEntry, Entry
<1>9. /\ parse_in' \in Seq(Entry) /\ Len(parse_in') = Len(parse_in) + 1 /\ Len(parse_in) \in Nat
      /\ \A k \in 1 .. Len(parse_in) : parse_in'[k] = parse_in[k]
      /\ parse_in'[Len(parse_in) + 1] = NewEntry(Token)
      /\ c \in Nat /\ Len(Chain') = c + 1 /\ Chain'[c + 1] = Token
      /\ \A m \in 1 .. c : Chain'[m] = Chain[m]
  <2>1. /\ curr_buf \in Tokens /\ parsed_data \in Seq(Tokens) /\ parse_in \in Seq(Entry)
    BY <1>5 DEF ParserTyped
  <2>2. /\ parse_in' = Append(parse_in, NewEntry(Token))
        /\ Chain = Linked(curr_buf, parsed_data, parse_in)
        /\ Chain' = Linked(curr_buf, parsed_data, Append(parse_in, NewEntry(Token)))
    BY <1>1, <1>2, <1>4 DEF HandsOn, Chain
  <2>3. NewEntry(Token) \in Entry /\ NewEntry(Token).part = Token
    BY <1>8
  <2> DEFINE e == NewEntry(Token)
  <2> HIDE DEF e
  <2>4. e \in Entry /\ e.part = Token
    BY <2>3 DEF e
  <2>5. LET s == Linked(curr_buf, parsed_data, parse_in) u == Linked(curr_buf, parsed_data, Append(parse_in, e)) IN
        /\ Append(parse_in, e) \in Seq(Entry) /\ Len(Append(parse_in, e)) = Len(parse_in) + 1
        /\ Len(parse_in) \in Nat
        /\ \A k \in 1 .. Len(parse_in) : Append(parse_in, e)[k] = parse_in[k]
        /\ Append(parse_in, e)[Len(parse_in) + 1] = e
        /\ Len(s) \in Nat /\ Len(u) = Len(s) + 1 /\ u[Len(s) + 1] = e.part
        /\ \A m \in 1 .. Len(s) : u[m] = s[m]
    BY <2>1, <2>4, LinkedMore
  <2> QED
    BY <2>2, <2>4, <2>5 DEF e
<1>10. \A m \in 1 .. c : Chain[m] # reading
  BY <1>1, <1>5, NotReading
<1>11. \A m \in 1 .. c : Chain[m] # None => Chain[m] \in Workspaces /\ workspace'[Chain[m]] = workspace[Chain[m]]
  BY <1>5, <1>7, <1>10, ChainTyped
\* An end mark, before or now, is behind everything that has been read.
<1>12. ASSUME ends > 0 \/ \E m \in 1 .. c + 1 : Chain'[m] = None
       PROVE  AtEnd /\ raw = <<>> /\ cut = 0 /\ left_over' = <<>> /\ Token = None
  <2>1. CASE Token = None
    BY <1>4, <2>1 DEF HandsOn
  <2>2. CASE Token # None
    <3>1. raw # <<>>
      BY <1>4, <2>2 DEF HandsOn
    <3>2. ~(ends > 0 \/ \E m \in 1 .. c : Chain[m] = None)
      BY <1>5, <3>1 DEF EndOK
    <3>3. PICK m \in 1 .. c + 1 : Chain'[m] = None
      BY <1>12, <3>2
    <3>4. m \in 1 .. c \/ m = c + 1
      BY <1>9
    <3> QED
      BY <1>9, <2>2, <3>2, <3>3, <3>4
  <2> QED
    BY <2>1, <2>2
<1>13. EndOK'
  <2>1. AtEnd' = AtEnd
    BY <1>2 DEF AtEnd
  <2> HIDE DEF c
  <2>2. Len(Chain') = c + 1
    BY <1>9
  <2> QED
    BY <1>1, <1>2, <1>12, <2>1, <2>2 DEF EndOK
<1>14. ParserTyped'
  <2>1. 0 \in 0 .. ParseBlock /\ None \in Tokens
    BY ParserAssumption, NumbersAre
  <2>2. left_over' \in Seq(Bytes) /\ raw' \in Seq(Bytes)
    BY <1>1, <1>4, EmptyText DEF HandsOn
  <2> QED
    BY <1>1, <1>2, <1>5, <1>7, <1>9, <2>1, <2>2 DEF ParserTyped
<1>15. Apart'
  <2> HIDE DEF c
  <2>1. read_in' = read_in /\ reading' = None
    BY <1>1
  <2>2. \A i \in 1 .. Len(read_in) : read_in[i] \in Workspaces /\ read_in[i] # None
    <3>1. read_in \in Seq(Workspaces)
      BY <1>5 DEF ParserTyped
    <3> QED
      BY <3>1, ElementOfSeq, NumbersAre
  <2>3. \A m \in 1 .. c + 1 : m \in 1 .. c \/ m = c + 1
    BY <1>9
  <2>4. /\ \A i, j \in 1 .. c : Chain[i] = Chain[j] /\ Chain[i] # None => i = j
        /\ \A i, j \in 1 .. Len(read_in) : read_in[i] = read_in[j] => i = j
        /\ \A i \in 1 .. Len(read_in), j \in 1 .. c : read_in[i] # Chain[j]
        /\ \A i \in 1 .. Len(read_in) : read_in[i] # reading
    BY <1>5 DEF Apart, c
  <2>5. \A i, j \in 1 .. c + 1 : Chain'[i] = Chain'[j] /\ Chain'[i] # None => i = j
    BY <1>8, <1>9, <1>10, <2>3, <2>4
  <2>6. \A i \in 1 .. Len(read_in), j \in 1 .. c + 1 : read_in[i] # Chain'[j]
    BY <1>8, <1>9, <2>2, <2>3, <2>4
  <2> QED
    BY <1>9, <2>1, <2>2, <2>4, <2>5, <2>6 DEF Apart
<1>16. ReadOK'
  <2>1. left_over' = Piece(Mark + cut, Taken) /\ NewLines(left_over') = {} /\ Border(Mark + cut)
    BY <1>4 DEF HandsOn
  <2>2. Len(curr_block) <= Len(stream) /\ curr_block = Piece(Taken, Len(stream))
    BY <1>5 DEF ReadOK
  <2>3. left_over' = Piece(Mark, Taken)' /\ Border(Mark)' /\ Mark' >= 0
    BY <1>2, <1>6, <2>1 DEF Piece, Border
  <2>4. curr_block' = Piece(Taken, Len(stream))' /\ Len(curr_block') <= Len(stream')
    BY <1>2, <1>6, <2>2 DEF Piece
  <2> QED
    BY <1>1, <2>1, <2>3, <2>4 DEF ReadOK
<1>17. ChainOK'
  <2>1. ASSUME NEW m \in 1 .. c, Chain[m] # None PROVE Following(m)' = Following(m)
    <3>0. Len(Chain') = c + 1 /\ m < c + 1 /\ c \in Nat
      BY <1>9
    <3>1. CASE m < c /\ Chain[m + 1] # None
      <4>1. m + 1 \in 1 .. c
        BY <3>1, <3>0
      <4>2. Chain'[m + 1] = Chain[m + 1] /\ workspace'[Chain[m + 1]] = workspace[Chain[m + 1]]
        BY <1>9, <1>11, <3>1, <4>1
      <4> QED
        BY <3>0, <3>1, <4>2 DEF Following
    <3>2. CASE m < c /\ Chain[m + 1] = None
      <4>1. m + 1 \in 1 .. c /\ m + 1 \in 1 .. c + 1
        BY <3>2, <3>0
      <4>2. Chain'[m + 1] = None
        BY <1>9, <3>2, <4>1
      <4>3. cut = 0
        BY <1>12, <4>1, <4>2
      <4>4. Mark' = Mark
        BY <1>6, <4>3
      <4> QED
        BY <3>2, <4>2, <4>4 DEF Following
    <3>3. CASE ~(m < c)
      <4>1. m = c /\ m + 1 = c + 1
        BY <3>0, <3>3
      <4>2. Following(m) = Mark
        BY <3>3 DEF Following
      <4>3. CASE Token = None
        <5>1. cut = 0
          BY <1>4, <4>3 DEF HandsOn
        <5>2. Mark' = Mark /\ Chain'[m + 1] = None
          BY <1>6, <1>9, <4>1, <4>3, <5>1
        <5> QED
          BY <4>2, <5>2 DEF Following
      <4>4. CASE Token # None
        <5>1. Chain'[m + 1] = reading
          BY <1>8, <1>9, <4>1, <4>4
        <5> QED
          BY <1>1, <1>7, <3>0, <4>2, <5>1 DEF Following
      <4> QED
        BY <4>3, <4>4
    <3> QED
      BY <3>1, <3>2, <3>3
  <2>2. ASSUME NEW m \in 1 .. c, NEW i, i = Chain[m], i # None
        PROVE  HasText(i)' /\ End(i)' = Following(m)'
    <3>1. HasText(i) /\ End(i) = Following(m)
      BY <1>5, <2>2 DEF ChainOK
    <3>2. workspace'[i] = workspace[i]
      BY <1>11, <2>2
    <3>3. End(i)' = End(i)
      BY <3>2 DEF End
    <3>4. HasText(i)'
      BY <1>2, <3>1, <3>2, <3>3 DEF HasText, Border, Piece
    <3> QED
      BY <2>1, <2>2, <3>1, <3>3, <3>4
  <2>3. ASSUME NEW i, NEW m, m = c + 1, i = Token, i # None
        PROVE  HasText(i)' /\ End(i)' = Following(m)'
    <3>1. i = reading
      BY <1>8, <2>3
    <3>2. /\ workspace'[i].raw = Piece(Mark, Mark + cut) /\ workspace'[i].from = Mark
          /\ Len(workspace'[i].raw) = cut
      BY <1>7, <3>1
    <3>3. End(i)' = Mark + cut
      BY <3>2 DEF End
    <3>4. Border(Mark) /\ Border(Mark + cut)
      BY <1>4, <1>5 DEF ReadOK, HandsOn
    <3>5. HasText(i)'
      BY <1>2, <3>2, <3>3, <3>4 DEF HasText, Border, Piece
    <3>6. Following(m)' = Mark'
      <4>1. ~(m < Len(Chain'))
        BY <1>9, <2>3
      <4> QED
        BY <4>1 DEF Following
    <3> QED
      BY <1>6, <3>3, <3>5, <3>6
  <2> HIDE DEF c
  <2>4. \A m \in 1 .. c + 1 : m \in 1 .. c \/ m = c + 1
    BY <1>9
  <2>5. ASSUME NEW m \in 1 .. c + 1, NEW i, i = Chain'[m], i # None
        PROVE  HasText(i)' /\ End(i)' = Following(m)'
    BY <1>9, <2>2, <2>3, <2>4, <2>5
  <2>6. ASSUME NEW m \in 1 .. c + 1, NEW j \in 1 .. c + 1, m < j, Chain'[m] = None
        PROVE  Chain'[j] = None
    <3>1. m \in 1 .. c /\ Token = None
      BY <1>9, <1>12, <2>6
    <3>2. Chain[m] = None
      BY <1>9, <2>6, <3>1
    <3>3. j \in 1 .. c => Chain[j] = None
      BY <1>5, <2>6, <3>1, <3>2 DEF ChainOK, c
    <3> QED
      BY <1>9, <2>4, <3>1, <3>3
  <2> QED
    BY <1>9, <2>5, <2>6 DEF ChainOK
<1>18. /\ \A k \in 1 .. Len(parse_in) : parse_in[k].part # reading
       /\ \A k \in 1 .. Len(parsed_data) : parsed_data[k] # reading
       /\ curr_buf # reading
  BY <1>1, <1>5, NotReading
<1>19. ParsedOK'
  <2>1. \A i \in Workspaces : i # reading => (IsParsed(i)' <=> IsParsed(i)) /\ workspace'[i] = workspace[i]
    BY <1>7 DEF IsParsed
  <2>2. /\ \A k \in 1 .. Len(parse_in) : parse_in[k] \in Entry
        /\ \A k \in 1 .. Len(parsed_data) : parsed_data[k] \in Tokens
        /\ curr_buf \in Tokens
    <3>1. parse_in \in Seq(Entry) /\ parsed_data \in Seq(Tokens) /\ curr_buf \in Tokens
      BY <1>5 DEF ParserTyped
    <3> QED
      BY <3>1, ElementOfSeq
  <2>3. \A i \in Tokens : i # None => i \in Workspaces
    BY NumbersAre
  <2>4. ASSUME NEW k \in 1 .. Len(parse_in'), NEW i, parse_in'[k].finished, i = parse_in'[k].part, i # None
        PROVE  IsParsed(i)' /\ workspace'[i].head = 0
    <3>1. k \in 1 .. Len(parse_in) \/ k = Len(parse_in) + 1
      BY <1>9
    <3>2. k \in 1 .. Len(parse_in) /\ parse_in'[k] = parse_in[k]
      BY <1>8, <1>9, <2>4, <3>1
    <3>3. i \in Workspaces /\ i # reading
      BY <1>18, <2>2, <2>3, <2>4, <3>2 DEF Entry
    <3>4. IsParsed(i) /\ workspace[i].head = 0
      BY <1>5, <2>4, <3>2 DEF ParsedOK
    <3> QED
      BY <2>1, <3>3, <3>4
  <2>5. ASSUME NEW k \in 1 .. Len(parsed_data), NEW i, i = parsed_data[k], i # None
        PROVE  IsParsed(i)' /\ workspace'[i].head = 0
    <3>1. i \in Workspaces /\ i # reading
      BY <1>18, <2>2, <2>3, <2>5
    <3>2. IsParsed(i) /\ workspace[i].head = 0
      BY <1>5, <2>5 DEF ParsedOK
    <3> QED
      BY <2>1, <3>1, <3>2
  <2>6. ASSUME NEW i, i = curr_buf, i # None
        PROVE  /\ IsParsed(i)' /\ workspace'[i].head <= Len(workspace'[i].data)
               /\ ~failed' => ~workspace'[i].error
    <3>1. i \in Workspaces /\ i # reading
      BY <1>18, <2>2, <2>3, <2>6
    <3>2. /\ IsParsed(i) /\ workspace[i].head <= Len(workspace[i].data)
          /\ ~failed => ~workspace[i].error
      BY <1>5, <2>6 DEF ParsedOK
    <3> QED
      BY <1>2, <2>1, <3>1, <3>2
  <2> QED
    BY <1>1, <1>2, <2>4, <2>5, <2>6 DEF ParsedOK
<1>20. Front' = Front
  <2>1. CASE curr_buf # None
    <3>1. workspace'[curr_buf] = workspace[curr_buf]
      <4>1. curr_buf \in Workspaces
        BY <1>5, <2>1, NumbersAre DEF ParserTyped
      <4> QED
        BY <1>7, <1>18, <4>1
    <3> QED
      BY <1>2, <2>1, <3>1 DEF Front
  <2>2. CASE curr_buf = None /\ c > 0 /\ Chain[1] # None
    <3>1. 1 \in 1 .. c /\ Len(Chain') > 0
      BY <1>9, <2>2
    <3>2. Chain'[1] = Chain[1] /\ workspace'[Chain[1]] = workspace[Chain[1]]
      BY <1>9, <1>11, <2>2, <3>1
    <3> QED
      BY <1>2, <2>2, <3>1, <3>2 DEF Front
  <2>3. CASE curr_buf = None /\ c > 0 /\ Chain[1] = None
    <3>1. 1 \in 1 .. c /\ 1 \in 1 .. c + 1
      BY <1>9, <2>3
    <3>2. Chain'[1] = None
      BY <1>9, <2>3, <3>1
    <3>3. Mark' = Mark
      BY <1>6, <1>12, <3>1, <3>2
    <3> QED
      BY <1>2, <2>3, <3>2, <3>3 DEF Front
  <2>4. CASE curr_buf = None /\ ~(c > 0)
    <3>1. c = 0 /\ Len(Chain') = 1 /\ Chain'[1] = Token
      <4>1. c = 0 /\ c + 1 = 1
        BY <1>9, <2>4
      <4> HIDE DEF c
      <4> QED
        BY <1>9, <4>1
    <3>2. Front = Mark
      BY <2>4 DEF Front
    <3>3. CASE Token = None
      <4>1. Mark' = Mark
        <5>1. cut = 0
          BY <1>4, <3>3 DEF HandsOn
        <5> QED
          BY <1>6, <5>1
      <4> QED
        BY <1>2, <2>4, <3>1, <3>2, <3>3, <4>1 DEF Front
    <3>4. CASE Token # None
      <4>1. Token = reading /\ workspace'[Token].from = Mark
        BY <1>7, <1>8, <3>4
      <4> QED
        BY <1>2, <2>4, <3>1, <3>2, <3>4, <4>1 DEF Front
    <3> QED
      BY <3>3, <3>4
  <2> QED
    BY <2>1, <2>2, <2>3, <2>4
<1>21. DeliveredOK'
  BY <1>2, <1>5, <1>20, DeliveredKept
<1> QED
  BY <1>3, <1>13, <1>14, <1>15, <1>16, <1>17, <1>19, <1>21 DEF ParserInv

(***************************************************************************)
(* ParseStage: the entries at the front that have finished leave.          *)
(***************************************************************************)
LEMMA EntriesAre ==
  ASSUME NEW stage \in Seq(Entry), NEW a \in Nat, NEW b \in Nat, a >= 1, a <= b + 1, b <= Len(stage)
  PROVE  /\ Entries(stage, a .. b) \in Seq(Entry) /\ Len(Entries(stage, a .. b)) = b - a + 1
         /\ \A m \in 1 .. b - a + 1 : Entries(stage, a .. b)[m] = stage[a + m - 1]
<1> DEFINE o == InOrder(a .. b)
           n == b - a + 1
<1>1. /\ o \in [1 .. n -> a .. b] /\ \A m \in 1 .. n : o[m] = a + m - 1
  BY OrderedInterval
<1>2. n \in Nat /\ Len(stage) \in Nat
  BY LenProperties
<1>3. Entries(stage, a .. b) = [m \in DOMAIN o |-> stage[o[m]]]
  BY DEF Entries
<1> HIDE DEF o, n
<1>4. Entries(stage, a .. b) = [m \in 1 .. n |-> stage[o[m]]]
  BY <1>1, <1>3
<1>5. \A m \in 1 .. n : stage[o[m]] \in Entry
  <2>1. \A m \in 1 .. n : o[m] \in 1 .. Len(stage)
    BY <1>1, <1>2
  <2> QED
    BY <2>1, ElementOfSeq
<1>6. Entries(stage, a .. b) \in [1 .. n -> Entry]
  BY <1>4, <1>5
<1>7. Entries(stage, a .. b) \in Seq(Entry) /\ Len(Entries(stage, a .. b)) = n
  BY <1>2, <1>6
<1>8. \A m \in 1 .. n : Entries(stage, a .. b)[m] = stage[a + m - 1]
  BY <1>1, <1>4
<1> QED
  BY <1>7, <1>8 DEF n

LEMMA LeavingAre ==
  ASSUME NEW stage \in Seq(Entry), NEW k
  PROVE  \E r \in 0 .. Len(stage) :
           /\ Leaving(stage, k) = 1 .. r /\ DOMAIN stage \ Leaving(stage, k) = r + 1 .. Len(stage)
           /\ \A j \in 1 .. r : stage[j].finished
<1> DEFINE n == Len(stage)
           U == {j \in 1 .. n : ~stage[j].finished}
<1>1. n \in Nat /\ DOMAIN stage = 1 .. n
  BY LenProperties
<1>2. Leaving(stage, k) = {j \in 1 .. n : \A i \in 1 .. j : stage[i].finished}
  BY <1>1 DEF Leaving
<1>3. \E r \in 0 .. n : (\A j \in 1 .. r : stage[j].finished) /\ (r < n => ~stage[r + 1].finished)
  <2>1. CASE U = {}
    <3>1. \A j \in 1 .. n : stage[j].finished
      BY <2>1
    <3>2. n \in 0 .. n /\ ~(n < n)
      BY <1>1
    <3> QED
      BY <3>1, <3>2
  <2>2. CASE U # {}
    <3>1. U \in SUBSET Nat
      BY <1>1
    <3>2. PICK x \in U : \A y \in U : x <= y
      BY <2>2, <3>1, Smallest
    <3>3. x \in 1 .. n /\ ~stage[x].finished
      OBVIOUS
    <3> DEFINE r == x - 1
    <3>4. r \in 0 .. n /\ r + 1 = x
      BY <1>1, <3>3
    <3>5. \A j \in 1 .. r : j \in 1 .. n /\ ~(x <= j)
      BY <1>1, <3>3
    <3>6. \A j \in 1 .. r : stage[j].finished
      BY <3>2, <3>5
    <3> HIDE DEF r
    <3> QED
      BY <3>3, <3>4, <3>6
  <2> QED
    BY <2>1, <2>2
<1>4. PICK r \in 0 .. n : (\A j \in 1 .. r : stage[j].finished) /\ (r < n => ~stage[r + 1].finished)
  BY <1>3
<1> HIDE DEF n, U
<1>5. \A j : j \in Leaving(stage, k) <=> j \in 1 .. r
  <2>1. ASSUME NEW j \in 1 .. r PROVE j \in 1 .. n /\ \A i \in 1 .. j : stage[i].finished
    <3>1. j \in 1 .. n /\ \A i \in 1 .. j : i \in 1 .. r
      BY <1>1, <2>1
    <3> QED
      BY <1>4, <3>1
  <2>2. ASSUME NEW j \in 1 .. n, \A i \in 1 .. j : stage[i].finished PROVE j \in 1 .. r
    <3> SUFFICES ASSUME j \notin 1 .. r PROVE FALSE
      OBVIOUS
    <3>1. r < n /\ r + 1 \in 1 .. j
      BY <1>1, <2>2
    <3> QED
      BY <1>4, <2>2, <3>1
  <2> QED
    BY <1>2, <2>1, <2>2
<1>6. \A j : j \in DOMAIN stage \ Leaving(stage, k) <=> j \in r + 1 .. n
  <2>1. \A j : j \in 1 .. n /\ j \notin 1 .. r <=> j \in r + 1 .. n
    BY <1>1
  <2> QED
    BY <1>1, <1>5, <2>1
<1>7. Leaving(stage, k) = 1 .. r /\ DOMAIN stage \ Leaving(stage, k) = r + 1 .. n
  BY <1>5, <1>6
<1> QED
  BY <1>4, <1>7 DEF n

LEMMA ParsedIs ==
  ASSUME NEW w \in Spaces
  PROVE  /\ Parsed(w) \in Spaces /\ Parsed(w).raw = w.raw /\ Parsed(w).from = w.from
         /\ Parsed(w).head = 0 /\ Parsed(w).data = Rows(w.raw)
         /\ ~Parsed(w).error => BadLines(w.raw) = {}
<1>1. w.raw \in Seq(Bytes) /\ w.error \in BOOLEAN /\ w.from \in Nat
  BY DEF Spaces
<1>2. Rows(w.raw) \in Seq(Seq(Bytes))
  BY <1>1, RowsAre
<1>3. PICK er \in BOOLEAN : er <=> w.error \/ BadLines(w.raw) # {} \/ LineStarts(w.raw) = {}
  <2>1. (w.error \/ BadLines(w.raw) # {} \/ LineStarts(w.raw) = {}) \in BOOLEAN
    OBVIOUS
  <2> QED
    BY <2>1
<1>4. Parsed(w) = [w EXCEPT !.data = Rows(w.raw), !.head = 0, !.error = er]
  <2>1. er = (w.error \/ BadLines(w.raw) # {} \/ LineStarts(w.raw) = {})
    BY <1>3
  <2> QED
    BY <2>1 DEF Parsed
<1> DEFINE data == Rows(w.raw)
<1>5. data \in Seq(Seq(Bytes)) /\ Parsed(w) = [w EXCEPT !.data = data, !.head = 0, !.error = er]
  BY <1>2, <1>4
<1> HIDE DEF data
<1>6. Parsed(w) = [raw |-> w.raw, data |-> data, head |-> 0, error |-> er, from |-> w.from]
  BY <1>5 DEF Spaces
<1>7. /\ Parsed(w).raw = w.raw /\ Parsed(w).from = w.from /\ Parsed(w).head = 0
      /\ Parsed(w).data = data /\ Parsed(w).error = er
  BY <1>6
<1>9. Parsed(w) \in Spaces
  <2>1. w.raw \in Seq(Bytes) /\ data \in Seq(Seq(Bytes)) /\ 0 \in Nat /\ er \in BOOLEAN /\ w.from \in Nat
    BY <1>1, <1>5
  <2>2. \A b \in BOOLEAN :
          [raw |-> w.raw, data |-> data, head |-> 0, error |-> b, from |-> w.from] \in Spaces
    BY <2>1 DEF Spaces
  <2>3. er \in BOOLEAN
    BY <2>1
  <2> QED
    BY <1>6, <2>2, <2>3, Zenon
<1>8. ~Parsed(w).error => BadLines(w.raw) = {}
  BY <1>3, <1>7
<1> QED
  BY <1>7, <1>8, <1>9 DEF data

\* What ParseStage does to the numbers and their texts.
Parses(k, r) ==
  LET p == Len(parsed_data) n == Len(parse_in) part == parse_in[k].part IN
  /\ p \in Nat /\ n \in Nat /\ k \in 1 .. n /\ r \in 0 .. n
  /\ parse_in' \in Seq(Entry) /\ Len(parse_in') = n - r
  /\ \A m \in 1 .. n - r : parse_in'[m].part = parse_in[r + m].part
  /\ \A m \in 1 .. n - r : parse_in'[m].finished => r + m = k \/ parse_in[r + m].finished
  /\ parsed_data' \in Seq(Tokens) /\ Len(parsed_data') = p + r
  /\ \A m \in 1 .. p : parsed_data'[m] = parsed_data[m]
  /\ \A m \in 1 .. r : parsed_data'[p + m] = parse_in[m].part /\ (m = k \/ parse_in[m].finished)
  /\ workspace' \in [Workspaces -> Spaces]
  /\ \A i \in Workspaces : i # part => workspace'[i] = workspace[i]
  /\ part # None => part \in Workspaces /\ workspace'[part] = Parsed(workspace[part])

LEMMA ParseStageParses ==
  ASSUME ParserTyped, NEW k \in 1 .. NPrefetch, ParseStage(k)
  PROVE  \E r : Parses(k, r)
<1> DEFINE stage == [parse_in EXCEPT ![k].finished = TRUE]
           p == Len(parsed_data)
           n == Len(parse_in)
           part == parse_in[k].part
           leaving == Leaving(stage, k)
           out == Entries(stage, leaving)
<1>1. /\ k <= n
      /\ workspace' = IF part = None THEN workspace ELSE [workspace EXCEPT ![part] = Parsed(@)]
      /\ parse_in' = Entries(stage, DOMAIN stage \ leaving)
      /\ parsed_data' = parsed_data \o [m \in DOMAIN out |-> out[m].part]
  BY DEF ParseStage
<1>2. parse_in \in Seq(Entry) /\ parsed_data \in Seq(Tokens) /\ workspace \in [Workspaces -> Spaces]
  BY DEF ParserTyped
<1>3. n \in Nat /\ p \in Nat /\ k \in 1 .. n /\ DOMAIN parse_in = 1 .. n
      /\ \A m \in 1 .. n : parse_in[m] \in Entry
  <2>1. n \in Nat /\ p \in Nat /\ DOMAIN parse_in = 1 .. n
    BY <1>2, LenProperties
  <2> QED
    BY <1>1, <1>2, <2>1, ElementOfSeq, ParserAssumption
<1>4. /\ stage \in Seq(Entry) /\ Len(stage) = n
      /\ \A m \in 1 .. n : stage[m].part = parse_in[m].part
      /\ \A m \in 1 .. n : stage[m].finished => m = k \/ parse_in[m].finished
  <2>1. stage = [m \in 1 .. n |-> IF m = k THEN [parse_in[m] EXCEPT !.finished = TRUE] ELSE parse_in[m]]
    BY <1>3
  <2> HIDE DEF stage
  <2>2. \A m \in 1 .. n : stage[m] \in Entry /\ stage[m].part = parse_in[m].part
                           /\ (stage[m].finished => m = k \/ parse_in[m].finished)
    BY <1>3, <2>1 DEF Entry
  <2>3. stage \in [1 .. n -> Entry]
    BY <2>1, <2>2
  <2>4. stage \in Seq(Entry) /\ Len(stage) = n
    BY <1>3, <2>3
  <2> QED
    BY <2>2, <2>4
<1> HIDE DEF stage, n
<1>5. PICK r \in 0 .. n : /\ leaving = 1 .. r /\ DOMAIN stage \ leaving = r + 1 .. n
                          /\ \A j \in 1 .. r : stage[j].finished
  BY <1>4, LeavingAre
<1> HIDE DEF leaving
<1>6. r \in Nat /\ r <= n /\ 1 <= r + 1 /\ r - 1 + 1 = r /\ r + 1 \in Nat /\ n - (r + 1) + 1 = n - r
  BY <1>3
<1>7. /\ out \in Seq(Entry) /\ Len(out) = r /\ \A m \in 1 .. r : out[m] = stage[m]
  <2>1. r <= Len(stage) /\ 1 >= 1 /\ 1 \in Nat
    BY <1>4, <1>6
  <2>2. /\ Entries(stage, 1 .. r) \in Seq(Entry) /\ Len(Entries(stage, 1 .. r)) = r - 1 + 1
        /\ \A m \in 1 .. r - 1 + 1 : Entries(stage, 1 .. r)[m] = stage[1 + m - 1]
    BY <1>4, <1>6, <2>1, EntriesAre
  <2>3. \A m \in 1 .. r : 1 + m - 1 = m
    OBVIOUS
  <2> QED
    BY <1>5, <1>6, <2>2, <2>3
<1>8. /\ parse_in' \in Seq(Entry) /\ Len(parse_in') = n - r
      /\ \A m \in 1 .. n - r : parse_in'[m] = stage[r + m]
  <2> DEFINE a == r + 1
  <2>1. a \in Nat /\ a >= 1 /\ a <= n + 1 /\ n <= Len(stage) /\ n \in Nat
    BY <1>3, <1>4, <1>6
  <2>2. \A m \in 1 .. n - r : a + m - 1 = r + m
    BY <1>3, <1>6
  <2>3. n - a + 1 = n - r
    BY <1>3, <1>6
  <2> HIDE DEF a
  <2>4. /\ Entries(stage, a .. n) \in Seq(Entry) /\ Len(Entries(stage, a .. n)) = n - a + 1
        /\ \A m \in 1 .. n - a + 1 : Entries(stage, a .. n)[m] = stage[a + m - 1]
    BY <1>4, <2>1, EntriesAre
  <2>5. parse_in' = Entries(stage, a .. n)
    BY <1>1, <1>5 DEF a
  <2> QED
    BY <2>2, <2>3, <2>4, <2>5
<1>9. /\ \A m \in 1 .. n - r : parse_in'[m].part = parse_in[r + m].part
      /\ \A m \in 1 .. n - r : parse_in'[m].finished => r + m = k \/ parse_in[r + m].finished
  <2>1. \A m \in 1 .. n - r : r + m \in 1 .. n
    BY <1>3, <1>6
  <2> QED
    BY <1>4, <1>8, <2>1
<1> DEFINE t == [m \in DOMAIN out |-> out[m].part]
<1>10. t \in Seq(Tokens) /\ Len(t) = r /\ \A m \in 1 .. r : t[m] = parse_in[m].part
  <2>1. DOMAIN out = 1 .. r /\ \A m \in 1 .. r : out[m] \in Entry
    BY <1>6, <1>7, LenProperties, ElementOfSeq
  <2>2. t \in [1 .. r -> Tokens]
    BY <2>1 DEF Entry
  <2>3. \A m \in 1 .. r : m \in 1 .. n
    BY <1>3, <1>6
  <2>4. \A m \in 1 .. r : t[m] = parse_in[m].part
    BY <1>4, <1>7, <2>1, <2>3
  <2> HIDE DEF t
  <2> QED
    BY <1>6, <2>2, <2>4
<1> HIDE DEF t, p, out
<1>11. /\ parsed_data' \in Seq(Tokens) /\ Len(parsed_data') = p + r
       /\ \A m \in 1 .. p : parsed_data'[m] = parsed_data[m]
       /\ \A m \in 1 .. r : parsed_data'[p + m] = parse_in[m].part
  <2>1. t \in Seq(Tokens) /\ parsed_data' = parsed_data \o t
    BY <1>1, <1>10 DEF t
  <2>2. /\ parsed_data \o t \in Seq(Tokens) /\ Len(parsed_data \o t) = Len(parsed_data) + Len(t)
        /\ \A j \in 1 .. Len(parsed_data) : (parsed_data \o t)[j] = parsed_data[j]
        /\ \A j \in 1 .. Len(t) : (parsed_data \o t)[Len(parsed_data) + j] = t[j]
    BY <1>2, <2>1, Joined
  <2> QED
    BY <1>10, <2>1, <2>2 DEF p
<1>12. \A m \in 1 .. r : m = k \/ parse_in[m].finished
  <2>1. \A m \in 1 .. r : m \in 1 .. n
    BY <1>3, <1>6
  <2> QED
    BY <1>4, <1>5, <2>1
<1>13. /\ workspace' \in [Workspaces -> Spaces]
       /\ \A i \in Workspaces : i # part => workspace'[i] = workspace[i]
       /\ part # None => part \in Workspaces /\ workspace'[part] = Parsed(workspace[part])
  <2>1. part \in Tokens
    BY <1>3 DEF Entry
  <2>2. CASE part = None
    BY <1>1, <1>2, <2>2
  <2>3. CASE part # None
    <3>1. part \in Workspaces /\ workspace' = [workspace EXCEPT ![part] = Parsed(workspace[part])]
      BY <1>1, <2>1, <2>3, NumbersAre
    <3>2. workspace[part] \in Spaces
      BY <1>2, <3>1
    <3>3. Parsed(workspace[part]) \in Spaces
      BY <3>2, ParsedIs
    <3> QED
      BY <1>2, <2>3, <3>1, <3>3
  <2> QED
    BY <2>2, <2>3
<1>14. Parses(k, r)
  BY <1>3, <1>8, <1>9, <1>11, <1>12, <1>13 DEF Parses, n, p
<1> QED
  BY <1>14

LEMMA SameChain ==
  ASSUME ParserTyped, NEW k, NEW r, Parses(k, r), curr_buf' = curr_buf
  PROVE  Chain' = Chain
<1> DEFINE h == Here(curr_buf)
           p == Len(parsed_data)
           n == Len(parse_in)
           pd == parsed_data'
           pi == parse_in'
           c == curr_buf
           u == Linked(c, pd, pi)
           s == Chain
<1>1. c \in Tokens /\ pd \in Seq(Tokens) /\ pi \in Seq(Entry)
  BY DEF ParserTyped, Parses
<1>2. Links(c, pd, pi)
  BY <1>1, LinkedIs
<1>3. /\ s \in Seq(Tokens) /\ h \in 0 .. 1 /\ Len(s) = h + p + n
      /\ c # None => s[1] = c
      /\ \A j \in 1 .. p : s[h + j] = parsed_data[j]
      /\ \A j \in 1 .. n : s[h + p + j] = parse_in[j].part
  BY ChainLinks DEF Links
<1>4. /\ p \in Nat /\ n \in Nat /\ r \in 0 .. n
      /\ Len(pi) = n - r /\ Len(pd) = p + r
      /\ \A m \in 1 .. n - r : pi[m].part = parse_in[r + m].part
      /\ \A m \in 1 .. p : pd[m] = parsed_data[m]
      /\ \A m \in 1 .. r : pd[p + m] = parse_in[m].part
  BY DEF Parses
<1>5. /\ u \in Seq(Tokens) /\ Len(u) = h + Len(pd) + Len(pi)
      /\ c # None => u[1] = c
      /\ \A j \in 1 .. Len(pd) : u[h + j] = pd[j]
      /\ \A j \in 1 .. Len(pi) : u[h + Len(pd) + j] = pi[j].part
  BY <1>2 DEF Links
<1>6. \A m \in 1 .. Len(u) :
         \/ c # None /\ m = 1
         \/ m - h \in 1 .. Len(pd) /\ u[m] = pd[m - h]
         \/ m - h - Len(pd) \in 1 .. Len(pi) /\ u[m] = pi[m - h - Len(pd)].part
  BY <1>2, LinkedAt
<1>7. Chain' = u
  BY DEF Chain
<1> HIDE DEF h, p, n, pd, pi, c, u, s
<1>8. Len(u) = Len(s)
  BY <1>3, <1>4, <1>5
<1>9. ASSUME NEW m \in 1 .. Len(u) PROVE u[m] = s[m]
  <2>0. m \in Nat
    BY <1>3, <1>4, <1>8
  <2>1. CASE c # None /\ m = 1
    BY <1>3, <1>5, <2>1
  <2>2. CASE m - h \in 1 .. Len(pd) /\ u[m] = pd[m - h]
    <3>1. PICK j \in Nat : j = m - h /\ m = h + j
      BY <1>3, <1>4, <2>0, <2>2
    <3>2. u[m] = pd[j] /\ j \in 1 .. p + r
      BY <1>4, <2>2, <3>1
    <3>3. CASE j <= p
      <4>1. j \in 1 .. p
        BY <1>4, <3>2, <3>3
      <4>2. s[h + j] = parsed_data[j] /\ pd[j] = parsed_data[j]
        BY <1>3, <1>4, <4>1
      <4> QED
        BY <3>1, <3>2, <4>2
    <3>4. CASE ~(j <= p)
      <4>1. PICK q \in 1 .. r : j = p + q
        <5>1. j - p \in 1 .. r /\ j = p + (j - p)
          BY <1>4, <3>2, <3>4
        <5> QED
          BY <5>1
      <4>2. q \in 1 .. n /\ h + p + q = m
        BY <1>3, <1>4, <3>1, <4>1
      <4>3. s[h + p + q] = parse_in[q].part /\ pd[p + q] = parse_in[q].part
        BY <1>3, <1>4, <4>1, <4>2
      <4> QED
        BY <3>2, <4>1, <4>2, <4>3
    <3> QED
      BY <3>3, <3>4
  <2>3. CASE m - h - Len(pd) \in 1 .. Len(pi) /\ u[m] = pi[m - h - Len(pd)].part
    <3>1. PICK q \in 1 .. n - r : q = m - h - Len(pd)
      BY <1>4, <2>3
    <3>2. u[m] = pi[q].part /\ pi[q].part = parse_in[r + q].part
      BY <1>4, <2>3, <3>1
    <3>3. PICK j \in 1 .. n : j = r + q
      BY <1>4
    <3>4. h + p + j = m
      BY <1>3, <1>4, <2>0, <3>1, <3>3
    <3>5. s[h + p + j] = parse_in[j].part
      BY <1>3
    <3> QED
      BY <3>2, <3>3, <3>4, <3>5
  <2> QED
    BY <1>6, <2>1, <2>2, <2>3
<1>10. u = s
  BY <1>3, <1>5, <1>8, <1>9, SeqEqual
<1> QED
  BY <1>7, <1>10 DEF s

LEMMA ParseStageKeeps ==
  ASSUME DirFixed, DirInv, ParserInv, NEW k \in 1 .. NPrefetch, ParseStage(k)
  PROVE  DirInv' /\ ParserInv' /\ UNCHANGED opened
<1> DEFINE part == parse_in[k].part
           p == Len(parsed_data)
           n == Len(parse_in)
<1>1. UNCHANGED <<dirStream, reader, caller>>
  BY DEF ParseStage
<1>2. /\ UNCHANGED <<read_in, reading, raw, asked, left_over>>
      /\ UNCHANGED <<curr_block, stream, files_read, total_files>>
      /\ UNCHANGED <<curr_buf, pc, delivered, ends, failed>>
  BY <1>1 DEF caller, dirStream, reader
<1>3. DirInv' /\ UNCHANGED opened
  BY <1>1, DirSame
<1>4. DirTyped /\ ParserTyped /\ Apart /\ ReadOK /\ ChainOK /\ ParsedOK /\ EndOK /\ DeliveredOK
  BY DEF DirInv, ParserInv
<1>5. PICK r : Parses(k, r)
  BY <1>4, ParseStageParses
<1>6. Chain' = Chain
  BY <1>2, <1>4, <1>5, SameChain
<1>7. Mark' = Mark /\ Taken' = Taken /\ AtEnd' = AtEnd
  BY <1>2 DEF Mark, Taken, AtEnd
<1>8. /\ p \in Nat /\ n \in Nat /\ k \in 1 .. n /\ r \in 0 .. n
      /\ workspace' \in [Workspaces -> Spaces]
      /\ \A i \in Workspaces : i # part => workspace'[i] = workspace[i]
      /\ part # None => part \in Workspaces /\ workspace'[part] = Parsed(workspace[part])
  BY <1>5 DEF Parses
<1>9. part # None => workspace[part] \in Spaces
  BY <1>4, <1>8 DEF ParserTyped
<1>10. ASSUME NEW i \in Workspaces PROVE TextKept(i)
  <2>1. CASE i = part
    <3>1. part # None
      BY <2>1, NumbersAre
    <3>2. /\ Parsed(workspace[part]).raw = workspace[part].raw
          /\ Parsed(workspace[part]).from = workspace[part].from
      BY <1>9, <3>1, ParsedIs
    <3> QED
      BY <1>8, <2>1, <3>1, <3>2 DEF TextKept
  <2>2. CASE i # part
    BY <1>8, <2>2 DEF TextKept
  <2> QED
    BY <2>1, <2>2
<1>11. ChainOK'
  <2>1. \A m \in 1 .. Len(Chain) : Chain[m] # None => TextKept(Chain[m])
    BY <1>4, <1>10, ChainTyped
  <2> QED
    BY <1>2, <1>4, <1>6, <1>7, <2>1, ChainKept
<1>12. ParserTyped'
  BY <1>2, <1>4, <1>5 DEF ParserTyped, Parses
<1>13. Apart'
  BY <1>2, <1>4, <1>6 DEF Apart
<1>14. ReadOK'
  BY <1>2, <1>4, <1>7 DEF ReadOK, Border, Piece
<1>15. EndOK'
  BY <1>2, <1>4, <1>6, <1>7 DEF EndOK
\* What the caller is at is not parsed again.
<1>16. curr_buf # None => curr_buf \in Workspaces /\ workspace'[curr_buf] = workspace[curr_buf]
  <2> SUFFICES ASSUME curr_buf # None PROVE curr_buf \in Workspaces /\ workspace'[curr_buf] = workspace[curr_buf]
    OBVIOUS
  <2>1. curr_buf \in Workspaces
    BY <1>4, NumbersAre DEF ParserTyped
  <2>2. Here(curr_buf) = 1
    BY DEF Here
  <2>3. /\ Len(Chain) = 1 + p + n /\ Chain[1] = curr_buf
        /\ \A j \in 1 .. n : Chain[1 + p + j] = parse_in[j].part
    BY <1>4, <2>2, ChainLinks DEF Links
  <2>4. 1 \in 1 .. Len(Chain) /\ 1 + p + k \in 1 .. Len(Chain) /\ 1 # 1 + p + k
    BY <1>8, <2>3
  <2>5. Chain[1 + p + k] = part
    BY <1>8, <2>3
  <2>6. curr_buf # part
    BY <1>4, <2>3, <2>4, <2>5 DEF Apart
  <2> QED
    BY <1>8, <2>1, <2>6
\* What has been parsed is what was parsed before and what is parsed now.
<1>17. ASSUME NEW i \in Tokens, i # None, i = part \/ (IsParsed(i) /\ workspace[i].head = 0)
       PROVE  IsParsed(i)' /\ workspace'[i].head = 0
  <2>0. i \in Workspaces
    BY <1>17, NumbersAre
  <2>1. CASE i = part
    <3>1. /\ Parsed(workspace[part]).raw = workspace[part].raw
          /\ Parsed(workspace[part]).head = 0 /\ Parsed(workspace[part]).data = Rows(workspace[part].raw)
          /\ ~Parsed(workspace[part]).error => BadLines(workspace[part].raw) = {}
      BY <1>9, <1>17, <2>1, ParsedIs
    <3>2. workspace'[i] = Parsed(workspace[part])
      BY <1>8, <1>17, <2>1
    <3> QED
      BY <3>1, <3>2 DEF IsParsed
  <2>2. CASE i # part
    <3>1. workspace'[i] = workspace[i] /\ IsParsed(i) /\ workspace[i].head = 0
      BY <1>8, <1>17, <2>0, <2>2
    <3> QED
      BY <3>1 DEF IsParsed
  <2> QED
    BY <2>1, <2>2
<1>18. /\ \A m \in 1 .. n : parse_in[m].part \in Tokens
       /\ \A m \in 1 .. p : parsed_data[m] \in Tokens
  <2>1. parse_in \in Seq(Entry) /\ parsed_data \in Seq(Tokens)
    BY <1>4 DEF ParserTyped
  <2>2. /\ \A m \in 1 .. n : parse_in[m] \in Entry
        /\ \A m \in 1 .. p : parsed_data[m] \in Tokens
    BY <2>1, ElementOfSeq
  <2> QED
    BY <2>2 DEF Entry
<1>19. ASSUME NEW m \in 1 .. n, m = k \/ parse_in[m].finished, NEW i, i = parse_in[m].part, i # None
       PROVE  IsParsed(i)' /\ workspace'[i].head = 0
  <2>1. i \in Tokens
    BY <1>18, <1>19
  <2>2. i = part \/ (IsParsed(i) /\ workspace[i].head = 0)
    BY <1>4, <1>19 DEF ParsedOK
  <2> QED
    BY <1>17, <1>19, <2>1, <2>2
<1> HIDE DEF n, p, part
<1>20. /\ Len(parse_in') = n - r /\ Len(parsed_data') = p + r
       /\ \A m \in 1 .. n - r : parse_in'[m].part = parse_in[r + m].part
       /\ \A m \in 1 .. n - r : parse_in'[m].finished => r + m = k \/ parse_in[r + m].finished
       /\ \A m \in 1 .. p : parsed_data'[m] = parsed_data[m]
       /\ \A m \in 1 .. r : parsed_data'[p + m] = parse_in[m].part /\ (m = k \/ parse_in[m].finished)
  BY <1>5 DEF Parses, n, p
<1>21. ParsedOK'
  <2>1. ASSUME NEW m \in 1 .. Len(parse_in'), NEW i, parse_in'[m].finished, i = parse_in'[m].part, i # None
        PROVE  IsParsed(i)' /\ workspace'[i].head = 0
    <3>1. PICK q \in 1 .. n : q = r + m
      BY <1>8, <1>20
    <3>2. (q = k \/ parse_in[q].finished) /\ i = parse_in[q].part
      BY <1>20, <2>1, <3>1
    <3> QED
      BY <1>19, <2>1, <3>2
  <2>2. ASSUME NEW m \in 1 .. Len(parsed_data'), NEW i, i = parsed_data'[m], i # None
        PROVE  IsParsed(i)' /\ workspace'[i].head = 0
    <3>1. CASE m <= p
      <4>1. m \in 1 .. p
        BY <1>8, <3>1
      <4>2. i = parsed_data[m] /\ i \in Tokens
        BY <1>18, <1>20, <2>2, <4>1
      <4>3. IsParsed(i) /\ workspace[i].head = 0
        BY <1>4, <2>2, <4>1, <4>2 DEF ParsedOK, p
      <4> QED
        BY <1>17, <2>2, <4>2, <4>3
    <3>2. CASE ~(m <= p)
      <4>1. PICK q \in 1 .. r : m = p + q
        <5>1. m - p \in 1 .. r /\ m = p + (m - p)
          BY <1>8, <1>20, <3>2
        <5> QED
          BY <5>1
      <4>2. q \in 1 .. n /\ (q = k \/ parse_in[q].finished) /\ i = parse_in[q].part
        BY <1>8, <1>20, <2>2, <4>1
      <4> QED
        BY <1>19, <2>2, <4>2
    <3> QED
      BY <3>1, <3>2
  <2>3. ASSUME NEW i, i = curr_buf, i # None
        PROVE  /\ IsParsed(i)' /\ workspace'[i].head <= Len(workspace'[i].data)
               /\ ~failed' => ~workspace'[i].error
    <3>1. workspace'[i] = workspace[i]
      BY <1>16, <2>3
    <3>2. /\ IsParsed(i) /\ workspace[i].head <= Len(workspace[i].data)
          /\ ~failed => ~workspace[i].error
      BY <1>4, <2>3 DEF ParsedOK
    <3> QED
      BY <1>2, <3>1, <3>2 DEF IsParsed
  <2> QED
    BY <1>2, <2>1, <2>2, <2>3 DEF ParsedOK
<1>22. Front' = Front
  <2>1. CASE curr_buf # None
    BY <1>2, <1>16, <2>1 DEF Front
  <2>2. CASE curr_buf = None /\ Len(Chain) > 0 /\ Chain[1] # None
    <3>1. 1 \in 1 .. Len(Chain)
      BY <1>4, <2>2, ChainTyped
    <3>2. TextKept(Chain[1])
      BY <1>4, <1>10, <2>2, <3>1, ChainTyped
    <3> QED
      BY <1>2, <1>6, <2>2, <3>2 DEF Front, TextKept
  <2>3. CASE curr_buf = None /\ ~(Len(Chain) > 0 /\ Chain[1] # None)
    BY <1>2, <1>6, <1>7, <2>3 DEF Front
  <2> QED
    BY <2>1, <2>2, <2>3
<1>23. DeliveredOK'
  BY <1>2, <1>4, <1>22, DeliveredKept
<1> QED
  BY <1>3, <1>11, <1>12, <1>13, <1>14, <1>15, <1>21, <1>23 DEF ParserInv

(***************************************************************************)
(* The caller takes a number.                                              *)
(***************************************************************************)
LEMMA HeadAndTail ==
  ASSUME NEW S, NEW s \in Seq(S), s # <<>>
  PROVE  /\ Len(s) \in Nat /\ Len(s) > 0 /\ 1 \in 1 .. Len(s) /\ Head(s) = s[1] /\ s[1] \in S
         /\ Tail(s) \in Seq(S) /\ Len(Tail(s)) = Len(s) - 1
         /\ \A j \in 1 .. Len(Tail(s)) : Tail(s)[j] = s[j + 1] /\ j + 1 \in 1 .. Len(s)
<1>1. /\ Len(s) \in Nat \ {0} /\ Tail(s) \in Seq(S) /\ Len(Tail(s)) = Len(s) - 1
      /\ \A j \in 1 .. Len(Tail(s)) : Tail(s)[j] = s[j + 1]
  BY EmptySeq, HeadTailProperties
<1>2. Head(s) = s[1]
  OBVIOUS
<1>3. 1 \in 1 .. Len(s) /\ \A j \in 1 .. Len(Tail(s)) : j + 1 \in 1 .. Len(s)
  BY <1>1
<1>4. s[1] \in S
  BY <1>3, ElementOfSeq
<1> QED
  BY <1>1, <1>2, <1>3, <1>4

LEMMA LinkedPop ==
  ASSUME NEW pd \in Seq(Tokens), NEW pi \in Seq(Entry), pd # <<>>
  PROVE  LET s == Linked(None, pd, pi) u == Linked(None, Tail(pd), pi) v == Linked(Head(pd), Tail(pd), pi) IN
         /\ Len(s) \in Nat /\ Len(u) \in Nat /\ Len(s) = Len(u) + 1 /\ s[1] = Head(pd)
         /\ \A m \in 1 .. Len(u) : u[m] = s[m + 1]
         /\ Head(pd) # None => v = s
<1> DEFINE td == Tail(pd)
           x == Head(pd)
           p == Len(td)
           n == Len(pi)
<1>1. /\ Len(pd) \in Nat /\ Len(pd) > 0 /\ 1 \in 1 .. Len(pd) /\ x = pd[1] /\ x \in Tokens
      /\ td \in Seq(Tokens) /\ p = Len(pd) - 1
      /\ \A j \in 1 .. p : td[j] = pd[j + 1] /\ j + 1 \in 1 .. Len(pd)
  BY HeadAndTail
<1> DEFINE s == Linked(None, pd, pi)
           u == Linked(None, td, pi)
           v == Linked(x, td, pi)
<1> HIDE DEF td, x
<1>2. Here(None) = 0 /\ None \in Tokens
  BY NumbersAre
<1>3. /\ s \in Seq(Tokens) /\ n \in Nat /\ Len(s) = Len(pd) + n
      /\ \A j \in 1 .. Len(pd) : s[0 + j] = pd[j]
      /\ \A j \in 1 .. n : s[0 + Len(pd) + j] = pi[j].part
  <2>1. Links(None, pd, pi)
    BY <1>2, LinkedIs
  <2> QED
    BY <1>1, <1>2, <2>1 DEF Links
<1>4. Links(None, td, pi)
  BY <1>1, <1>2, LinkedIs
<1>5. u \in Seq(Tokens) /\ p \in Nat /\ Len(u) = p + n
  BY <1>2, <1>4 DEF Links
<1>6. \A m \in 1 .. Len(u) :
        \/ m \in 1 .. p /\ u[m] = td[m]
        \/ m - p \in 1 .. n /\ u[m] = pi[m - p].part
  <2>1. \A m \in 1 .. Len(u) :
          \/ None # None /\ m = 1
          \/ m - 0 \in 1 .. p /\ u[m] = td[m - 0]
          \/ m - 0 - p \in 1 .. n /\ u[m] = pi[m - 0 - p].part
    BY <1>2, <1>4, LinkedAt
  <2>2. \A m \in 1 .. Len(u) : m - 0 = m
    BY <1>5
  <2> QED
    BY <2>1, <2>2
<1> HIDE DEF s, u, p, n
<1>7. Len(s) \in Nat /\ Len(s) = Len(u) + 1 /\ Len(u) \in Nat
  BY <1>1, <1>3, <1>5
<1>8. s[1] = x
  <2>1. s[0 + 1] = pd[1] /\ 0 + 1 = 1
    BY <1>1, <1>3
  <2> QED
    BY <1>1, <2>1
<1>9. ASSUME NEW m \in 1 .. Len(u) PROVE u[m] = s[m + 1]
  <2>1. CASE m \in 1 .. p /\ u[m] = td[m]
    <3>1. PICK j \in 1 .. Len(pd) : j = m + 1 /\ td[m] = pd[j]
      BY <1>1, <2>1
    <3>2. s[0 + j] = pd[j] /\ 0 + j = j
      BY <1>3
    <3> QED
      BY <2>1, <3>1, <3>2
  <2>2. CASE m - p \in 1 .. n /\ u[m] = pi[m - p].part
    <3>1. PICK j \in 1 .. n : j = m - p
      BY <2>2
    <3>2. s[0 + Len(pd) + j] = pi[j].part
      BY <1>3
    <3>3. 0 + Len(pd) + j = m + 1
      BY <1>1, <1>5, <1>7, <3>1
    <3> QED
      BY <2>2, <3>1, <3>2, <3>3
  <2> QED
    BY <1>6, <2>1, <2>2
<1>10. ASSUME x # None PROVE v = s
  <2>1. Links(x, td, pi) /\ Here(x) = 1
    BY <1>1, <1>10, LinkedIs DEF Here
  <2>2. /\ v \in Seq(Tokens) /\ Len(v) = 1 + p + n /\ v[1] = x
        /\ \A j \in 1 .. p : v[1 + j] = td[j]
        /\ \A j \in 1 .. n : v[1 + p + j] = pi[j].part
    BY <1>10, <2>1 DEF Links, p, n
  <2> HIDE DEF v
  <2>3. Len(v) = Len(s)
    BY <1>1, <1>3, <1>5, <2>2
  <2>4. ASSUME NEW m \in 1 .. Len(s) PROVE v[m] = s[m]
    <3>1. CASE m = 1
      BY <1>8, <2>2, <3>1
    <3>2. CASE m # 1
      <4>1. PICK q \in 1 .. Len(u) : m = q + 1
        <5>1. m - 1 \in 1 .. Len(u) /\ m = (m - 1) + 1
          BY <1>7, <3>2
        <5> QED
          BY <5>1
      <4>2. s[m] = u[q]
        BY <1>9, <4>1
      <4>3. CASE q \in 1 .. p /\ u[q] = td[q]
        <5>1. v[1 + q] = td[q] /\ 1 + q = m
          BY <2>2, <4>1, <4>3
        <5> QED
          BY <4>2, <4>3, <5>1
      <4>4. CASE q - p \in 1 .. n /\ u[q] = pi[q - p].part
        <5>1. PICK j \in 1 .. n : j = q - p
          BY <4>4
        <5>2. v[1 + p + j] = pi[j].part /\ 1 + p + j = m
          BY <1>5, <2>2, <4>1, <5>1
        <5> QED
          BY <4>2, <4>4, <5>1, <5>2
      <4> QED
        BY <1>6, <4>3, <4>4
    <3> QED
      BY <3>1, <3>2
  <2> QED
    BY <1>3, <2>2, <2>3, <2>4, SeqEqual
<1> QED
  BY <1>7, <1>8, <1>9, <1>10 DEF s, u, v, td, x

LEMMA PopParsedKeeps ==
  ASSUME DirFixed, DirInv, ParserInv, PopParsed
  PROVE  DirInv' /\ ParserInv' /\ UNCHANGED opened
<1> DEFINE x == Head(parsed_data)
<1>1. /\ curr_buf = None /\ parsed_data # <<>> /\ x # None
      /\ curr_buf' = x /\ parsed_data' = Tail(parsed_data)
      /\ UNCHANGED <<dirStream, reader, workspace, parse_in, delivered, ends>>
      /\ failed' \in {failed, TRUE} /\ (~failed' => ~failed /\ ~workspace[x].error)
  <2>1. /\ curr_buf = None /\ parsed_data # <<>> /\ x # None
        /\ curr_buf' = x /\ parsed_data' = Tail(parsed_data)
        /\ UNCHANGED <<dirStream, reader, workspace, parse_in, delivered, ends>>
        /\ IF workspace[x].error THEN failed' = TRUE ELSE failed' = failed
    BY DEF PopParsed
  <2>2. failed \in BOOLEAN
    BY DEF ParserInv, ParserTyped
  <2> HIDE DEF x
  <2> QED
    BY <2>1, <2>2
<1>2. /\ UNCHANGED <<read_in, reading, raw, asked, left_over>>
      /\ UNCHANGED <<curr_block, stream, files_read, total_files>>
      /\ UNCHANGED <<workspace, parse_in, delivered, ends>>
  BY <1>1 DEF dirStream, reader
<1>3. DirInv' /\ UNCHANGED opened
  BY <1>1, DirSame
<1>4. DirTyped /\ ParserTyped /\ Apart /\ ReadOK /\ ChainOK /\ ParsedOK /\ EndOK /\ DeliveredOK
  BY DEF DirInv, ParserInv
<1>5. parsed_data \in Seq(Tokens) /\ parse_in \in Seq(Entry)
  BY <1>4 DEF ParserTyped
<1>6. /\ Len(parsed_data) \in Nat /\ x = parsed_data[1] /\ x \in Tokens /\ 1 \in 1 .. Len(parsed_data)
      /\ parsed_data' \in Seq(Tokens)
      /\ \A j \in 1 .. Len(parsed_data') : parsed_data'[j] = parsed_data[j + 1] /\ j + 1 \in 1 .. Len(parsed_data)
  BY <1>1, <1>5, HeadAndTail
<1>7. Chain' = Chain /\ Len(Chain) > 0 /\ Chain[1] = x
  <2>1. Linked(x, Tail(parsed_data), parse_in) = Linked(None, parsed_data, parse_in)
        /\ Len(Linked(None, parsed_data, parse_in)) > 0 /\ Linked(None, parsed_data, parse_in)[1] = x
    BY <1>1, <1>5, LinkedPop
  <2> QED
    BY <1>1, <1>2, <2>1 DEF Chain
<1> HIDE DEF x
<1>8. Mark' = Mark /\ Taken' = Taken /\ AtEnd' = AtEnd
  BY <1>2 DEF Mark, Taken, AtEnd
<1>9. ChainOK'
  <2>1. \A m \in 1 .. Len(Chain) : Chain[m] # None => TextKept(Chain[m])
    BY <1>2 DEF TextKept
  <2> QED
    BY <1>2, <1>4, <1>7, <1>8, <2>1, ChainKept
<1>10. ParserTyped'
  <2>1. failed' \in BOOLEAN /\ curr_buf' \in Tokens
    BY <1>1, <1>4, <1>6 DEF ParserTyped
  <2> QED
    BY <1>2, <1>4, <1>6, <2>1 DEF ParserTyped
<1>11. Apart'
  BY <1>2, <1>4, <1>7 DEF Apart
<1>12. ReadOK'
  BY <1>2, <1>4, <1>8 DEF ReadOK, Border, Piece
<1>13. EndOK'
  BY <1>2, <1>4, <1>7, <1>8 DEF EndOK
<1>14. IsParsed(x) /\ workspace[x].head = 0
  BY <1>1, <1>4, <1>6 DEF ParsedOK
<1>15. workspace[x].head <= Len(workspace[x].data)
  <2>1. x \in Workspaces
    BY <1>1, <1>6, NumbersAre
  <2>2. workspace[x].data \in Seq(Seq(Bytes))
    BY <1>4, <2>1, SpaceIs
  <2>3. Len(workspace[x].data) \in Nat
    BY <2>2, LenProperties
  <2> QED
    BY <1>14, <2>3
<1>16. ParsedOK'
  <2>1. \A i : IsParsed(i)' <=> IsParsed(i)
    BY <1>2 DEF IsParsed
  <2>2. ASSUME NEW j \in 1 .. Len(parsed_data'), NEW i, i = parsed_data'[j], i # None
        PROVE  IsParsed(i) /\ workspace[i].head = 0
    BY <1>4, <1>6, <2>2 DEF ParsedOK
  <2>3. ASSUME NEW j \in 1 .. Len(parse_in), NEW i, parse_in[j].finished, i = parse_in[j].part, i # None
        PROVE  IsParsed(i) /\ workspace[i].head = 0
    BY <1>4, <2>3 DEF ParsedOK
  <2> QED
    BY <1>1, <1>2, <1>14, <1>15, <2>1, <2>2, <2>3 DEF ParsedOK
<1>17. Front' = Front
  <2>1. Front = workspace[x].from
    BY <1>1, <1>7 DEF Front
  <2>2. workspace[x].from \in Nat
    <3>1. x \in Workspaces
      BY <1>1, <1>6, NumbersAre
    <3> QED
      BY <1>4, <3>1, SpaceIs
  <2>3. Front' = workspace[x].from + 0
    BY <1>1, <1>2, <1>14 DEF Front
  <2> QED
    BY <2>1, <2>2, <2>3
<1>18. DeliveredOK'
  BY <1>1, <1>2, <1>4, <1>17, DeliveredKept
<1> QED
  BY <1>3, <1>9, <1>10, <1>11, <1>12, <1>13, <1>16, <1>18 DEF ParserInv

\* Behind an end mark there are end marks only.
LEMMA EndMarksOnly ==
  ASSUME ParserTyped, ChainOK, curr_buf = None, parsed_data # <<>>, Head(parsed_data) = None
  PROVE  /\ Len(Chain) > 0 /\ \A m \in 1 .. Len(Chain) : Chain[m] = None
         /\ \A k \in 1 .. Len(parsed_data) : parsed_data[k] = None
         /\ \A k \in 1 .. Len(parse_in) : parse_in[k].part = None
<1>1. parsed_data \in Seq(Tokens) /\ parse_in \in Seq(Entry)
  BY DEF ParserTyped
<1>2. Chain = Linked(None, parsed_data, parse_in)
  BY DEF Chain
<1>3. Len(Chain) \in Nat /\ Len(Chain) > 0 /\ Chain[1] = None
  BY <1>1, <1>2, LinkedPop
<1>4. \A m \in 1 .. Len(Chain) : Chain[m] = None
  <2>1. 1 \in 1 .. Len(Chain) /\ \A m \in 1 .. Len(Chain) : m = 1 \/ 1 < m
    BY <1>3
  <2> QED
    BY <1>3, <2>1 DEF ChainOK
<1>5. /\ Len(parsed_data) \in Nat /\ Len(parse_in) \in Nat
      /\ Len(Chain) = 0 + Len(parsed_data) + Len(parse_in)
      /\ \A k \in 1 .. Len(parsed_data) : Chain[0 + k] = parsed_data[k]
      /\ \A k \in 1 .. Len(parse_in) : Chain[0 + Len(parsed_data) + k] = parse_in[k].part
  <2>1. Here(curr_buf) = 0
    BY DEF Here
  <2> QED
    BY <2>1, ChainLinks DEF Links
<1>6. \A k \in 1 .. Len(parsed_data) : 0 + k \in 1 .. Len(Chain)
  BY <1>5
<1>7. \A k \in 1 .. Len(parse_in) : 0 + Len(parsed_data) + k \in 1 .. Len(Chain)
  BY <1>5
<1> QED
  BY <1>3, <1>4, <1>5, <1>6, <1>7

LEMMA PopEndKeeps ==
  ASSUME DirFixed, DirInv, ParserInv, PopEnd
  PROVE  DirInv' /\ ParserInv' /\ UNCHANGED opened
<1>1. /\ curr_buf = None /\ parsed_data # <<>> /\ Head(parsed_data) = None
      /\ parsed_data' = IF pc = "block" THEN Append(Tail(parsed_data), None) ELSE Tail(parsed_data)
      /\ ends' = IF pc = "block" THEN ends ELSE ends + 1
      /\ UNCHANGED <<dirStream, reader, workspace, parse_in, curr_buf, delivered, failed>>
  BY DEF PopEnd
<1>2. DirTyped /\ ParserTyped /\ Apart /\ ReadOK /\ ChainOK /\ ParsedOK /\ EndOK /\ DeliveredOK
  BY DEF DirInv, ParserInv
<1>3. /\ Len(Chain) > 0 /\ \A m \in 1 .. Len(Chain) : Chain[m] = None
      /\ \A k \in 1 .. Len(parsed_data) : parsed_data[k] = None
      /\ \A k \in 1 .. Len(parse_in) : parse_in[k].part = None
  BY <1>1, <1>2, EndMarksOnly
<1>4. parsed_data \in Seq(Tokens) /\ parse_in \in Seq(Entry)
  BY <1>2 DEF ParserTyped
<1> DEFINE td == Tail(parsed_data)
           p == Len(parsed_data)
<1>5. /\ p \in Nat /\ p > 0 /\ td \in Seq(Tokens) /\ Len(td) = p - 1
      /\ \A j \in 1 .. Len(td) : td[j] = parsed_data[j + 1] /\ j + 1 \in 1 .. p
  BY <1>1, <1>4, HeadAndTail
<1>6. CASE pc = "block"
  <2>1. parsed_data' = Append(td, None)
    BY <1>1, <1>6
  <2> HIDE DEF td
  <2>2. /\ Append(td, None) \in Seq(Tokens) /\ Len(Append(td, None)) = Len(td) + 1
        /\ \A j \in 1 .. Len(td) : Append(td, None)[j] = td[j]
        /\ Append(td, None)[Len(td) + 1] = None
    BY <1>5, NumbersAre, AppendProperties
  <2>3. Len(Append(td, None)) = p
    BY <1>5, <2>2
  <2>4. ASSUME NEW j \in 1 .. p PROVE Append(td, None)[j] = parsed_data[j]
    <3>1. j \in 1 .. Len(td) \/ j = Len(td) + 1
      BY <1>5
    <3>2. Append(td, None)[j] = None
      BY <1>3, <1>5, <2>2, <3>1
    <3> QED
      BY <1>3, <3>2
  <2>5. Append(td, None) = parsed_data
    BY <1>4, <2>2, <2>3, <2>4, SeqEqual
  <2>6. parsed_data' = parsed_data /\ ends' = ends /\ failed' \in {failed, TRUE}
    BY <1>1, <1>6, <2>1, <2>5
  <2>7. UNCHANGED <<dirStream, reader, workspace, parse_in, parsed_data, curr_buf, delivered, ends>>
    BY <1>1, <2>6
  <2> QED
    BY <2>6, <2>7, CallerKeeps
<1>7. CASE pc # "block"
  <2>1. parsed_data' = td /\ ends' = ends + 1
    BY <1>1, <1>7
  <2>2. /\ UNCHANGED <<read_in, reading, raw, asked, left_over>>
        /\ UNCHANGED <<curr_block, stream, files_read, total_files>>
        /\ UNCHANGED <<workspace, parse_in, curr_buf, delivered, failed>>
    BY <1>1 DEF dirStream, reader
  <2>3. DirInv' /\ UNCHANGED opened
    BY <1>1, DirSame
  <2>4. Len(Chain') \in Nat /\ \A m \in 1 .. Len(Chain') : Chain'[m] = None
    <3> DEFINE s == Linked(None, parsed_data, parse_in)
               u == Linked(None, td, parse_in)
    <3>1. Chain = s /\ Chain' = u
      BY <1>1, <2>1, <2>2 DEF Chain
    <3>2. Len(s) \in Nat /\ Len(u) \in Nat /\ Len(s) = Len(u) + 1 /\ \A m \in 1 .. Len(u) : u[m] = s[m + 1]
      BY <1>1, <1>4, LinkedPop
    <3> HIDE DEF s, u
    <3>3. \A m \in 1 .. Len(u) : m + 1 \in 1 .. Len(s)
      BY <3>2
    <3> QED
      BY <1>3, <3>1, <3>2, <3>3
  <2>5. Mark' = Mark /\ Taken' = Taken /\ AtEnd' = AtEnd
    BY <2>2 DEF Mark, Taken, AtEnd
  <2>6. ChainOK'
    BY <2>4 DEF ChainOK
  <2>7. ParserTyped'
    <3>1. ends \in Nat /\ ends + 1 \in Nat
      BY <1>2 DEF ParserTyped
    <3> QED
      BY <1>2, <1>5, <2>1, <2>2, <3>1 DEF ParserTyped
  <2>8. Apart'
    <3>1. \A i \in 1 .. Len(read_in) : read_in[i] # None
      <4>1. read_in \in Seq(Workspaces)
        BY <1>2 DEF ParserTyped
      <4> QED
        BY <4>1, ElementOfSeq, NumbersAre
    <3> QED
      BY <1>2, <2>2, <2>4, <3>1 DEF Apart
  <2>9. ReadOK'
    BY <1>2, <2>2, <2>5 DEF ReadOK, Border, Piece
  <2>10. EndOK'
    <3>1. 1 \in 1 .. Len(Chain)
      BY <1>2, <1>3, ChainTyped
    <3>2. AtEnd /\ left_over = <<>> /\ raw = <<>>
      BY <1>2, <1>3, <3>1 DEF EndOK
    <3> QED
      BY <2>2, <2>5, <3>2 DEF EndOK
  <2>11. ParsedOK'
    BY <1>1, <1>3, <1>5, <2>1, <2>2 DEF ParsedOK
  <2>12. Front' = Front
    <3>1. 1 \in 1 .. Len(Chain) /\ Chain[1] = None
      BY <1>2, <1>3, ChainTyped
    <3>2. Front = Mark
      BY <1>1, <3>1 DEF Front
    <3>3. ~(Len(Chain') > 0 /\ Chain'[1] # None)
      BY <2>4
    <3>4. Front' = Mark'
      BY <1>1, <2>2, <3>3 DEF Front
    <3> QED
      BY <2>5, <3>2, <3>4
  <2>13. DeliveredOK'
    BY <1>2, <2>2, <2>12, DeliveredKept
  <2> QED
    BY <2>3, <2>6, <2>7, <2>8, <2>9, <2>10, <2>11, <2>13 DEF ParserInv
<1> QED
  BY <1>6, <1>7

(***************************************************************************)
(* The caller hands lines out.                                             *)
(***************************************************************************)
\* The rows of a text are the good lines of its piece of the stream, up to the
\* first that is bad.
RowStart(i, k) == workspace[i].from + InOrder(GoodLines(workspace[i].raw))[k]

LEMMA RowsOfStream ==
  ASSUME DirTyped, ParserTyped, NEW i \in Workspaces, HasText(i), End(i) <= Len(stream), IsParsed(i)
  PROVE  LET n == Len(workspace[i].data) a == workspace[i].from IN
         /\ n \in Nat /\ a \in Nat
         /\ \A k \in 1 .. n : /\ RowStart(i, k) \in 1 .. Len(stream) /\ GoodStart(RowStart(i, k))
                              /\ a < RowStart(i, k) /\ RowStart(i, k) <= End(i)
                              /\ workspace[i].data[k] = LineAt(stream, RowStart(i, k))
         /\ \A k, j \in 1 .. n : k < j => RowStart(i, k) < RowStart(i, j)
         /\ BadLines(workspace[i].raw) = {} =>
              \A m \in 1 .. Len(stream) : GoodStart(m) /\ a < m /\ m <= End(i) =>
                \E k \in 1 .. n : m = RowStart(i, k)
<1> DEFINE w == workspace[i]
           G == GoodLines(w.raw)
           o == InOrder(G)
           n == Len(w.data)
           a == w.from
           b == End(i)
<1>1. /\ w.raw \in Seq(Bytes) /\ a \in Nat /\ b \in Nat /\ a <= b /\ b = a + Len(w.raw) /\ Len(w.raw) \in Nat
  BY SpaceIs
<1>2. /\ w.raw = Piece(a, b) /\ Border(a) /\ Border(b) /\ b <= Len(stream) /\ stream \in Seq(Bytes)
      /\ w.data = Rows(w.raw)
  BY DEF HasText, IsParsed, DirTyped
<1>3. /\ G \in SUBSET (1 .. Len(w.raw)) /\ n \in Nat
      /\ \A m \in 1 .. n : o[m] \in G /\ w.data[m] = LineAt(w.raw, o[m])
      /\ \A k, j \in 1 .. n : k < j => o[k] < o[j]
      /\ \A g \in G : \E m \in 1 .. n : o[m] = g
  BY <1>1, <1>2, RowsAre
<1>4. \A k : RowStart(i, k) = a + o[k]
  BY DEF RowStart
<1>5. \A g \in G : g \in LineStarts(w.raw) /\ w.raw[g][3] = "good"
  BY DEF GoodLines
<1>6. BadLines(w.raw) = {} => \A g \in LineStarts(w.raw) : w.raw[g][3] = "good" => g \in G
  BY DEF GoodLines
<1> DEFINE t == w.raw
<1>7. \A g \in 1 .. b - a :
        /\ a + g \in 1 .. Len(stream) /\ t[g] = stream[a + g]
        /\ g \in LineStarts(t) <=> a + g \in LineStarts(stream)
        /\ g \in LineStarts(t) => LineAt(t, g) = LineAt(stream, a + g)
  <2>1. /\ stream \in Seq(Bytes) /\ a \in Nat /\ b \in Nat /\ a <= b /\ b <= Len(stream)
        /\ Border(a) /\ Border(b) /\ t = Piece(a, b)
    BY <1>1, <1>2
  <2> HIDE DEF t, a, b
  <2>2. ASSUME NEW g \in 1 .. b - a
        PROVE  /\ a + g \in 1 .. Len(stream) /\ Piece(a, b)[g] = stream[a + g]
               /\ g \in LineStarts(Piece(a, b)) <=> a + g \in LineStarts(stream)
               /\ g \in LineStarts(Piece(a, b)) => LineAt(Piece(a, b), g) = LineAt(stream, a + g)
    BY <2>1, PieceLines
  <2> QED
    BY <2>1, <2>2
<1> HIDE DEF w, G, o, n, a, b, t
<1>8. t = w.raw /\ Len(w.raw) = b - a
  BY <1>1 DEF t
<1>9. ASSUME NEW k \in 1 .. n
      PROVE  /\ a + o[k] \in 1 .. Len(stream) /\ GoodStart(a + o[k])
             /\ a < a + o[k] /\ a + o[k] <= b
             /\ w.data[k] = LineAt(stream, a + o[k])
  <2>1. o[k] \in 1 .. b - a /\ o[k] \in LineStarts(t) /\ t[o[k]][3] = "good" /\ w.data[k] = LineAt(t, o[k])
    BY <1>3, <1>5, <1>8
  <2>2. a + o[k] \in 1 .. Len(stream) /\ a + o[k] \in LineStarts(stream) /\ stream[a + o[k]][3] = "good"
        /\ LineAt(t, o[k]) = LineAt(stream, a + o[k])
    BY <1>7, <2>1
  <2>3. a < a + o[k] /\ a + o[k] <= b
    BY <1>1, <2>1
  <2> QED
    BY <2>1, <2>2, <2>3 DEF GoodStart
<1>10. ASSUME NEW k \in 1 .. n, NEW j \in 1 .. n, k < j PROVE a + o[k] < a + o[j]
  <2>1. o[k] \in 1 .. b - a /\ o[j] \in 1 .. b - a /\ o[k] < o[j]
    BY <1>3, <1>8, <1>10
  <2> QED
    BY <1>1, <2>1
<1>11. ASSUME BadLines(w.raw) = {}, NEW m \in 1 .. Len(stream), GoodStart(m), a < m, m <= b
       PROVE  \E k \in 1 .. n : m = a + o[k]
  <2>1. PICK g \in 1 .. b - a : m = a + g
    <3>1. m - a \in 1 .. b - a /\ m = a + (m - a)
      BY <1>1, <1>11
    <3> QED
      BY <3>1
  <2>2. g \in LineStarts(t) /\ t[g][3] = "good"
    BY <1>7, <1>11, <2>1 DEF GoodStart
  <2>3. g \in G
    BY <1>6, <1>8, <1>11, <2>2
  <2> QED
    BY <1>3, <2>1, <2>3
<1> QED
  BY <1>1, <1>3, <1>4, <1>9, <1>10, <1>11 DEF n, w, a, b

\* What Deliver hands out, and how far the front gets by it.
Advances(hd, to) ==
  LET w == workspace[curr_buf] l == Len(delivered) h == workspace[curr_buf].head IN
  /\ l \in Nat /\ h \in Nat /\ hd \in Nat /\ h < hd /\ hd <= Len(w.data)
  /\ delivered' \in Seq(Seq(Bytes)) /\ Len(delivered') = l + (hd - h)
  /\ \A j \in 1 .. l : delivered'[j] = delivered[j]
  /\ \A j \in 1 .. hd - h :
       /\ delivered'[l + j] = LineAt(stream, RowStart(curr_buf, h + j))
       /\ RowStart(curr_buf, h + j) \in 1 .. Len(stream) /\ GoodStart(RowStart(curr_buf, h + j))
       /\ Front < RowStart(curr_buf, h + j) /\ RowStart(curr_buf, h + j) <= to
  /\ \A i, j \in 1 .. hd - h : i < j => RowStart(curr_buf, h + i) < RowStart(curr_buf, h + j)
  /\ to = (IF hd = Len(w.data) THEN End(curr_buf) ELSE RowStart(curr_buf, hd))
  /\ to \in Nat /\ Front \in Nat /\ Front <= to /\ to <= Len(stream)
  /\ ~w.error => \A m \in 1 .. Len(stream) : GoodStart(m) /\ Front < m /\ m <= to =>
                   \E j \in 1 .. hd - h : m = RowStart(curr_buf, h + j)

LEMMA DeliverAdvances ==
  ASSUME DirInv, ParserInv, Deliver
  PROVE  \E hd, to :
           /\ Advances(hd, to) /\ curr_buf \in Workspaces
           /\ workspace' = [workspace EXCEPT ![curr_buf].head = hd]
           /\ IF hd = Len(workspace[curr_buf].data)
              THEN read_in' = Append(read_in, curr_buf) /\ curr_buf' = None
              ELSE read_in' = read_in /\ curr_buf' = curr_buf
<1> DEFINE c == curr_buf
           w == workspace[c]
           n == Len(w.data)
           h == w.head
           hd == IF pc = "read" THEN h + 1 ELSE n
           l == Len(delivered)
           R(k) == RowStart(c, k)
           to == IF hd = n THEN End(c) ELSE R(hd)
<1>1. /\ c # None /\ h < n
      /\ delivered' = delivered \o SubSeq(w.data, h + 1, hd)
      /\ workspace' = [workspace EXCEPT ![c].head = hd]
      /\ IF hd = n THEN read_in' = Append(read_in, c) /\ curr_buf' = None
         ELSE read_in' = read_in /\ curr_buf' = curr_buf
  BY DEF Deliver
<1>2. DirTyped /\ ParserTyped /\ Apart /\ ReadOK /\ ChainOK /\ ParsedOK
  BY DEF DirInv, ParserInv
<1>3. /\ Len(Chain) > 0 /\ Chain[1] = c /\ Front = RowAt(w, h) /\ Front \in Nat /\ Front <= End(c)
      /\ 1 \in 1 .. Len(Chain)
  BY <1>1, <1>2, FrontIs, ChainTyped
<1>4. c \in Workspaces /\ End(c) \in Nat /\ End(c) <= Len(stream) /\ HasText(c) /\ IsParsed(c)
  <2>1. c \in Workspaces /\ End(c) \in Nat /\ End(c) <= Len(stream)
    BY <1>1, <1>2, <1>3, TextOf
  <2>2. HasText(c) /\ IsParsed(c)
    BY <1>1, <1>2, <1>3 DEF ChainOK, ParsedOK
  <2> QED
    BY <2>1, <2>2
<1>5. /\ n \in Nat /\ w.from \in Nat
      /\ \A k \in 1 .. n : /\ R(k) \in 1 .. Len(stream) /\ GoodStart(R(k))
                           /\ w.from < R(k) /\ R(k) <= End(c)
                           /\ w.data[k] = LineAt(stream, R(k))
      /\ \A k, j \in 1 .. n : k < j => R(k) < R(j)
      /\ BadLines(w.raw) = {} =>
           \A m \in 1 .. Len(stream) : GoodStart(m) /\ w.from < m /\ m <= End(c) =>
             \E k \in 1 .. n : m = R(k)
  BY <1>2, <1>4, RowsOfStream
<1>6. h \in Nat /\ w.data \in Seq(Seq(Bytes)) /\ delivered \in Seq(Seq(Bytes)) /\ l \in Nat /\ Len(stream) \in Nat
  BY <1>2, <1>4, SpaceIs, Marks, LenProperties DEF ParserTyped
<1>7. ~w.error => BadLines(w.raw) = {}
  BY <1>4 DEF IsParsed
<1>8. hd \in Nat /\ h < hd /\ hd <= n /\ hd \in 1 .. n
  <2>1. h \in Nat /\ n \in Nat /\ h < n
    BY <1>1, <1>5, <1>6
  <2> HIDE DEF h, n
  <2> QED
    BY <2>1
<1>9. Front = (IF h = 0 THEN w.from ELSE R(h))
  BY <1>3, <1>5 DEF RowAt, RowStart
<1>10. to = IF hd = n THEN End(c) ELSE R(hd)
  OBVIOUS
<1> DEFINE piece == SubSeq(w.data, h + 1, hd)
<1>11. /\ piece \in Seq(Seq(Bytes)) /\ Len(piece) = hd - h
       /\ \A j \in 1 .. hd - h : piece[j] = w.data[h + j]
  <2> DEFINE data == w.data
  <2>1. h \in Nat /\ hd \in Nat /\ h <= hd /\ hd <= Len(data) /\ data \in Seq(Seq(Bytes))
    BY <1>6, <1>8
  <2> HIDE DEF hd, h, data
  <2>2. /\ SubSeq(data, h + 1, hd) \in Seq(Seq(Bytes)) /\ Len(SubSeq(data, h + 1, hd)) = hd - h
        /\ \A j \in 1 .. hd - h : SubSeq(data, h + 1, hd)[j] = data[h + j]
    BY <2>1, Part
  <2> QED
    BY <2>2 DEF data
<1>12. delivered' = delivered \o piece
  BY <1>1
<1>13. /\ workspace' = [workspace EXCEPT ![curr_buf].head = hd]
       /\ IF hd = Len(workspace[curr_buf].data)
          THEN read_in' = Append(read_in, curr_buf) /\ curr_buf' = None
          ELSE read_in' = read_in /\ curr_buf' = curr_buf
  BY <1>1
<1> HIDE DEF piece, hd, h, n, w, R, to
<1>14. /\ delivered' \in Seq(Seq(Bytes)) /\ Len(delivered') = l + (hd - h)
       /\ \A j \in 1 .. l : delivered'[j] = delivered[j]
       /\ \A j \in 1 .. hd - h : delivered'[l + j] = piece[j]
  <2>1. /\ delivered \o piece \in Seq(Seq(Bytes)) /\ Len(delivered \o piece) = Len(delivered) + Len(piece)
        /\ \A j \in 1 .. Len(delivered) : (delivered \o piece)[j] = delivered[j]
        /\ \A j \in 1 .. Len(piece) : (delivered \o piece)[Len(delivered) + j] = piece[j]
    <3>1. delivered \in Seq(Seq(Bytes)) /\ piece \in Seq(Seq(Bytes))
      BY <1>6, <1>11
    <3> QED
      BY <3>1, Joined
  <2> QED
    BY <1>11, <1>12, <2>1
<1>15. ASSUME NEW k \in 1 .. n PROVE R(k) \in Nat /\ (k <= hd => R(k) <= to) /\ (h < k => Front < R(k))
  <2>1. R(k) \in Nat /\ R(k) <= End(c) /\ w.from < R(k)
    BY <1>5, <1>6
  <2>2. k <= hd => R(k) <= to
    <3>1. CASE hd = n
      BY <1>10, <2>1, <3>1
    <3>2. CASE hd # n /\ k < hd
      <4>1. R(k) < R(hd) /\ R(hd) \in Nat
        BY <1>5, <1>6, <1>8, <3>2
      <4> QED
        BY <1>10, <2>1, <3>2, <4>1
    <3>3. CASE hd # n /\ k = hd
      BY <1>10, <2>1, <3>3
    <3>4. CASE ~(k <= hd)
      BY <3>4
    <3> QED
      BY <1>8, <3>1, <3>2, <3>3, <3>4
  <2>3. h < k => Front < R(k)
    <3>1. CASE h = 0
      BY <1>9, <2>1, <3>1
    <3>2. CASE h # 0 /\ h < k
      <4>1. h \in 1 .. n
        BY <1>1, <1>5, <1>6, <3>2
      <4> QED
        BY <1>5, <1>9, <3>2, <4>1
    <3> QED
      BY <3>1, <3>2
  <2> QED
    BY <2>1, <2>2, <2>3
<1>16. ASSUME NEW j \in 1 .. hd - h
       PROVE  /\ delivered'[l + j] = LineAt(stream, R(h + j))
              /\ R(h + j) \in 1 .. Len(stream) /\ GoodStart(R(h + j))
              /\ Front < R(h + j) /\ R(h + j) <= to
  <2>1. PICK k \in 1 .. n : k = h + j /\ k <= hd /\ h < k
    BY <1>5, <1>6, <1>8
  <2>2. delivered'[l + j] = w.data[k]
    BY <1>11, <1>14, <2>1
  <2> QED
    BY <1>5, <1>15, <2>1, <2>2
<1>17. ASSUME NEW i \in 1 .. hd - h, NEW j \in 1 .. hd - h, i < j PROVE R(h + i) < R(h + j)
  <2>1. h + i \in 1 .. n /\ h + j \in 1 .. n /\ h + i < h + j
    BY <1>5, <1>6, <1>8, <1>17
  <2> QED
    BY <1>5, <2>1
<1>18. to \in Nat /\ Front <= to /\ to <= Len(stream)
  <2>1. R(hd) \in Nat /\ R(hd) <= End(c) /\ Front < R(hd) /\ hd <= hd
    BY <1>5, <1>8, <1>15
  <2> QED
    BY <1>3, <1>4, <1>6, <1>10, <2>1
<1>19. ASSUME ~w.error, NEW m \in 1 .. Len(stream), GoodStart(m), Front < m, m <= to
       PROVE  \E j \in 1 .. hd - h : m = R(h + j)
  <2>1. w.from < m /\ m <= End(c)
    <3>1. w.from <= Front
      <4>1. h # 0 => h \in 1 .. n
        BY <1>1, <1>5, <1>6
      <4> QED
        BY <1>5, <1>9, <4>1
    <3>2. to <= End(c)
      BY <1>4, <1>5, <1>8, <1>10
    <3> QED
      BY <1>3, <1>4, <1>5, <1>6, <1>18, <1>19, <3>1, <3>2
  <2>2. PICK k \in 1 .. n : m = R(k)
    BY <1>5, <1>7, <1>19, <2>1
  <2>3. h < k
    <3> SUFFICES ASSUME k <= h PROVE FALSE
      BY <1>6
    <3>1. h \in 1 .. n
      BY <1>1, <1>5, <1>6
    <3>2. R(k) <= R(h) /\ R(h) \in Nat
      BY <1>5, <1>6, <3>1
    <3> QED
      BY <1>6, <1>9, <1>19, <2>2, <3>1, <3>2
  <2>4. k <= hd
    <3> SUFFICES ASSUME hd < k PROVE FALSE
      BY <1>8
    <3>0. n \in Nat
      BY <1>5
    <3>1. R(hd) < R(k) /\ hd # n
      <4>1. hd # n
        BY <1>8, <3>0
      <4>2. R(hd) < R(k)
        BY <1>5, <1>8
      <4> QED
        BY <4>1, <4>2
    <3>2. to = R(hd)
      BY <1>10, <3>1
    <3> QED
      BY <1>5, <1>8, <1>15, <1>19, <2>2, <3>1, <3>2
  <2>5. k - h \in 1 .. hd - h /\ h + (k - h) = k
    BY <1>6, <1>8, <2>3, <2>4
  <2> QED
    BY <2>2, <2>5
<1>20. Advances(hd, to)
  BY <1>3, <1>6, <1>8, <1>10, <1>14, <1>16, <1>17, <1>18, <1>19 DEF Advances, h, n, w, R
<1> QED
  BY <1>4, <1>13, <1>20

LEMMA LinkedTake ==
  ASSUME NEW c \in Tokens, c # None, NEW pd \in Seq(Tokens), NEW pi \in Seq(Entry)
  PROVE  LET s == Linked(c, pd, pi) u == Linked(None, pd, pi) IN
         /\ Len(s) \in Nat /\ Len(u) \in Nat /\ Len(s) = Len(u) + 1 /\ s[1] = c
         /\ \A m \in 1 .. Len(u) : u[m] = s[m + 1] /\ m + 1 \in 1 .. Len(s)
<1> DEFINE p == Len(pd)
           n == Len(pi)
           s == Linked(c, pd, pi)
           u == Linked(None, pd, pi)
<1>1. Here(None) = 0 /\ None \in Tokens /\ Here(c) = 1
  BY NumbersAre DEF Here
<1>2. Links(c, pd, pi) /\ Links(None, pd, pi)
  BY <1>1, LinkedIs
<1>3. /\ p \in Nat /\ n \in Nat /\ Len(s) = 1 + p + n /\ s[1] = c
      /\ \A j \in 1 .. p : s[1 + j] = pd[j]
      /\ \A j \in 1 .. n : s[1 + p + j] = pi[j].part
  BY <1>1, <1>2 DEF Links
<1>4. Len(u) = 0 + p + n
  BY <1>1, <1>2 DEF Links
<1>5. \A m \in 1 .. Len(u) :
        \/ m - 0 \in 1 .. p /\ u[m] = pd[m - 0]
        \/ m - 0 - p \in 1 .. n /\ u[m] = pi[m - 0 - p].part
  BY <1>1, <1>2, LinkedAt
<1> HIDE DEF p, n, s, u
<1>6. Len(s) \in Nat /\ Len(u) \in Nat /\ Len(s) = Len(u) + 1
  BY <1>3, <1>4
<1>7. ASSUME NEW m \in 1 .. Len(u) PROVE u[m] = s[m + 1] /\ m + 1 \in 1 .. Len(s)
  <2>1. m + 1 \in 1 .. Len(s) /\ m - 0 = m /\ 1 + m = m + 1 /\ m \in Nat
    BY <1>6
  <2>2. CASE m - 0 \in 1 .. p /\ u[m] = pd[m - 0]
    <3>1. s[1 + m] = pd[m]
      BY <1>3, <2>1, <2>2
    <3> QED
      BY <2>1, <2>2, <3>1
  <2>3. CASE m - 0 - p \in 1 .. n /\ u[m] = pi[m - 0 - p].part
    <3>1. PICK j \in 1 .. n : j = m - 0 - p
      BY <2>3
    <3>2. s[1 + p + j] = pi[j].part /\ 1 + p + j = m + 1
      BY <1>3, <2>1, <3>1
    <3> QED
      BY <2>1, <2>3, <3>1, <3>2
  <2> QED
    BY <1>5, <2>2, <2>3
<1> QED
  BY <1>3, <1>6, <1>7 DEF s, u

\* No number is where the caller's is.
LEMMA NotCurrent ==
  ASSUME ParserTyped, Apart, curr_buf # None
  PROVE  /\ \A k \in 1 .. Len(parse_in) : parse_in[k].part # curr_buf
         /\ \A k \in 1 .. Len(parsed_data) : parsed_data[k] # curr_buf
<1>1. Here(curr_buf) = 1
  BY DEF Here
<1>2. /\ Len(parsed_data) \in Nat /\ Len(parse_in) \in Nat
      /\ Len(Chain) = 1 + Len(parsed_data) + Len(parse_in)
      /\ Chain[1] = curr_buf
      /\ \A k \in 1 .. Len(parsed_data) : Chain[1 + k] = parsed_data[k]
      /\ \A k \in 1 .. Len(parse_in) : Chain[1 + Len(parsed_data) + k] = parse_in[k].part
  BY <1>1, ChainLinks DEF Links
<1>3. 1 \in 1 .. Len(Chain) /\ \A j \in 1 .. Len(Chain) : j # 1 => Chain[j] # curr_buf
  <2>1. 1 \in 1 .. Len(Chain)
    BY <1>2
  <2> QED
    BY <1>2, <2>1 DEF Apart
<1>4. \A k \in 1 .. Len(parsed_data) : 1 + k \in 1 .. Len(Chain) /\ 1 + k # 1
  BY <1>2
<1>5. \A k \in 1 .. Len(parse_in) :
        1 + Len(parsed_data) + k \in 1 .. Len(Chain) /\ 1 + Len(parsed_data) + k # 1
  BY <1>2
<1> QED
  BY <1>2, <1>3, <1>4, <1>5

LEMMA DeliverKeeps ==
  ASSUME DirFixed, DirInv, ParserInv, Deliver
  PROVE  DirInv' /\ ParserInv' /\ UNCHANGED opened
<1> DEFINE c == curr_buf
           l == Len(delivered)
<1>1. /\ curr_buf # None
      /\ UNCHANGED <<dirStream, reading, raw, asked, left_over, parse_in, parsed_data, ends, failed>>
  BY DEF Deliver
<1>2. UNCHANGED <<curr_block, stream, files_read, total_files>>
  BY <1>1 DEF dirStream
<1>3. DirInv' /\ UNCHANGED opened
  BY <1>1, DirSame
<1>4. DirTyped /\ ParserTyped /\ Apart /\ ReadOK /\ ChainOK /\ ParsedOK /\ EndOK /\ DeliveredOK
  BY DEF DirInv, ParserInv
<1>5. PICK hd, to :
           /\ Advances(hd, to) /\ curr_buf \in Workspaces
           /\ workspace' = [workspace EXCEPT ![curr_buf].head = hd]
           /\ IF hd = Len(workspace[curr_buf].data)
              THEN read_in' = Append(read_in, curr_buf) /\ curr_buf' = None
              ELSE read_in' = read_in /\ curr_buf' = curr_buf
  BY DeliverAdvances
<1>6. /\ workspace' \in [Workspaces -> Spaces] /\ workspace'[c].head = hd
      /\ \A i \in Workspaces : i # c => workspace'[i] = workspace[i]
      /\ \A i \in Workspaces : /\ TextKept(i) /\ workspace'[i].data = workspace[i].data
                               /\ workspace'[i].error = workspace[i].error
  <2>1. workspace \in [Workspaces -> Spaces] /\ c \in Workspaces /\ workspace[c] \in Spaces
    BY <1>4, <1>5 DEF ParserTyped
  <2>2. workspace' = [workspace EXCEPT ![c] = [workspace[c] EXCEPT !.head = hd]]
    BY <1>5
  <2>3. hd \in Nat
    BY <1>5 DEF Advances
  <2> DEFINE v == [workspace[c] EXCEPT !.head = hd]
  <2>4. v \in Spaces
    BY <2>1, <2>3 DEF Spaces
  <2>5. /\ v.head = hd /\ v.raw = workspace[c].raw /\ v.from = workspace[c].from
        /\ v.data = workspace[c].data /\ v.error = workspace[c].error
    BY <2>1 DEF Spaces
  <2> HIDE DEF v, c
  <2>6. /\ workspace'[c] = v /\ workspace' \in [Workspaces -> Spaces]
        /\ \A i \in Workspaces : i # c => workspace'[i] = workspace[i]
    BY <2>1, <2>2, <2>4 DEF v
  <2> QED
    BY <2>5, <2>6 DEF TextKept
<1>7. \A m \in 1 .. Len(Chain) : Chain[m] # None => TextKept(Chain[m])
  BY <1>4, <1>6, ChainTyped
<1>8. Mark' = Mark /\ Taken' = Taken /\ AtEnd' = AtEnd
  BY <1>1, <1>2 DEF Mark, Taken, AtEnd
<1>9. Chain = Linked(curr_buf, parsed_data, parse_in) /\ Chain' = Linked(curr_buf', parsed_data, parse_in)
  BY <1>1 DEF Chain
<1>10. /\ curr_buf \in Tokens /\ parsed_data \in Seq(Tokens) /\ parse_in \in Seq(Entry)
       /\ read_in \in Seq(Workspaces)
  BY <1>4 DEF ParserTyped
<1>11. Len(Chain) \in Nat /\ Len(Chain) > 0 /\ Chain[1] = c /\ 1 \in 1 .. Len(Chain)
  BY <1>1, <1>4, FrontIs, ChainTyped
\* The number goes back to ReadStage, or stays with the caller.
<1>12. ASSUME hd = Len(workspace[curr_buf].data)
       PROVE  Front' = to /\ ChainOK' /\ Apart' /\ read_in' \in Seq(Workspaces)
  <2>1. read_in' = Append(read_in, c) /\ curr_buf' = None
    BY <1>5, <1>12
  <2>2. /\ Len(Chain') \in Nat /\ Len(Chain) = Len(Chain') + 1
        /\ \A m \in 1 .. Len(Chain') : Chain'[m] = Chain[m + 1] /\ m + 1 \in 1 .. Len(Chain)
    BY <1>1, <1>9, <1>10, <2>1, LinkedTake
  <2>3. ASSUME NEW i, TextKept(i)
        PROVE  (HasText(i)' <=> HasText(i)) /\ End(i)' = End(i) /\ workspace'[i].from = workspace[i].from
    <3>1. End(i)' = End(i)
      BY <2>3 DEF TextKept, End
    <3> QED
      BY <1>2, <2>3, <3>1 DEF TextKept, HasText, Border, Piece
  <2>4. ASSUME NEW m \in 1 .. Len(Chain') PROVE Following(m)' = Following(m + 1)
    <3>1. m < Len(Chain') <=> m + 1 < Len(Chain)
      BY <2>2
    <3>2. CASE m < Len(Chain')
      <4>1. m + 1 \in 1 .. Len(Chain') /\ m + 1 + 1 \in 1 .. Len(Chain)
        BY <2>2, <3>2
      <4>2. Chain'[m + 1] = Chain[m + 1 + 1]
        BY <2>2, <4>1
      <4>3. Chain[m + 1 + 1] # None => workspace'[Chain[m + 1 + 1]].from = workspace[Chain[m + 1 + 1]].from
        BY <1>7, <4>1 DEF TextKept
      <4> QED
        BY <1>8, <3>1, <3>2, <4>2, <4>3 DEF Following
    <3>3. CASE ~(m < Len(Chain'))
      BY <1>8, <3>1, <3>3 DEF Following
    <3> QED
      BY <3>2, <3>3
  <2>5. ASSUME NEW m \in 1 .. Len(Chain'), NEW i, i = Chain'[m], i # None
        PROVE  HasText(i)' /\ End(i)' = Following(m)'
    <3>1. m + 1 \in 1 .. Len(Chain) /\ i = Chain[m + 1]
      BY <2>2, <2>5
    <3>2. HasText(i) /\ End(i) = Following(m + 1) /\ TextKept(i)
      BY <1>4, <1>7, <2>5, <3>1 DEF ChainOK
    <3> QED
      BY <2>3, <2>4, <3>2
  <2>6. ASSUME NEW m \in 1 .. Len(Chain'), NEW j \in 1 .. Len(Chain'), m < j, Chain'[m] = None
        PROVE  Chain'[j] = None
    <3>1. /\ m + 1 \in 1 .. Len(Chain) /\ j + 1 \in 1 .. Len(Chain) /\ m + 1 < j + 1
          /\ Chain'[m] = Chain[m + 1] /\ Chain'[j] = Chain[j + 1]
      BY <2>2, <2>6
    <3> QED
      BY <1>4, <2>6, <3>1 DEF ChainOK
  <2>7. ChainOK'
    BY <2>5, <2>6 DEF ChainOK
  <2>8. Front' = to
    <3>1. to = End(c) /\ End(c) = Following(1)
      <4>1. to = End(c)
        BY <1>5, <1>12 DEF Advances
      <4>2. End(c) = Following(1)
        BY <1>1, <1>4, <1>11 DEF ChainOK
      <4> QED
        BY <4>1, <4>2
    <3>2. CASE Len(Chain') > 0
      <4>1. 1 \in 1 .. Len(Chain') /\ 1 < Len(Chain) /\ Chain'[1] = Chain[1 + 1] /\ 1 + 1 \in 1 .. Len(Chain)
        BY <2>2, <3>2
      <4>2. Chain[1 + 1] # None => workspace'[Chain[1 + 1]].from = workspace[Chain[1 + 1]].from
        BY <1>7, <4>1 DEF TextKept
      <4>3. Following(1) = IF Chain[1 + 1] # None THEN workspace[Chain[1 + 1]].from ELSE Mark
        BY <4>1 DEF Following
      <4>4. Front' = IF Chain'[1] # None THEN workspace'[Chain'[1]].from ELSE Mark'
        BY <2>1, <3>2 DEF Front
      <4> QED
        BY <1>8, <3>1, <4>1, <4>2, <4>3, <4>4
    <3>3. CASE ~(Len(Chain') > 0)
      <4>1. ~(1 < Len(Chain))
        BY <2>2, <3>3
      <4>2. Following(1) = Mark
        BY <4>1 DEF Following
      <4>3. Front' = Mark'
        BY <2>1, <3>3 DEF Front
      <4> QED
        BY <1>8, <3>1, <4>2, <4>3
    <3> QED
      BY <3>2, <3>3
  <2>9. /\ Len(read_in) \in Nat /\ read_in' \in Seq(Workspaces) /\ Len(read_in') = Len(read_in) + 1
        /\ \A j \in 1 .. Len(read_in) : read_in'[j] = read_in[j]
        /\ read_in'[Len(read_in) + 1] = c
    <3>1. Len(read_in) \in Nat
      BY <1>10, LenProperties
    <3> QED
      BY <1>5, <1>10, <2>1, <3>1, AppendProperties
  <2>10. Apart'
    <3>1. \A j \in 1 .. Len(read_in') : j \in 1 .. Len(read_in) \/ j = Len(read_in) + 1
      BY <2>9
    <3>2. \A j \in 1 .. Len(Chain') : j + 1 # 1 /\ j + 1 \in 1 .. Len(Chain) /\ Chain'[j] = Chain[j + 1]
      BY <2>2
    <3>3. /\ \A i, j \in 1 .. Len(Chain) : Chain[i] = Chain[j] /\ Chain[i] # None => i = j
          /\ \A i, j \in 1 .. Len(read_in) : read_in[i] = read_in[j] => i = j
          /\ \A i \in 1 .. Len(read_in), j \in 1 .. Len(Chain) : read_in[i] # Chain[j]
          /\ \A i \in 1 .. Len(read_in) : read_in[i] # reading
          /\ \A j \in 1 .. Len(Chain) : Chain[j] = reading => reading = None
      BY <1>4 DEF Apart
    <3> DEFINE n == Len(read_in)
    <3>4. /\ n \in Nat /\ \A j \in 1 .. n : read_in'[j] = read_in[j]
          /\ read_in'[n + 1] = c /\ Len(read_in') = n + 1
      BY <2>9
    <3>5. /\ \A j \in 1 .. n : read_in[j] # c
          /\ \A j \in 1 .. Len(Chain') : Chain'[j] # c
          /\ c # reading
      BY <1>1, <1>11, <3>2, <3>3
    <3>6. \A i, j \in 1 .. Len(Chain') : Chain'[i] = Chain'[j] /\ Chain'[i] # None => i = j
      <4>1. ASSUME NEW i \in 1 .. Len(Chain'), NEW j \in 1 .. Len(Chain'), Chain'[i] = Chain'[j], Chain'[i] # None
            PROVE  i = j
        <5>1. i + 1 = j + 1
          BY <3>2, <3>3, <4>1
        <5> QED
          BY <5>1
      <4> QED
        BY <4>1
    <3>7. \A i, j \in 1 .. Len(read_in') : read_in'[i] = read_in'[j] => i = j
      BY <3>1, <3>3, <3>4, <3>5
    <3>8. \A i \in 1 .. Len(read_in'), j \in 1 .. Len(Chain') : read_in'[i] # Chain'[j]
      BY <3>1, <3>2, <3>3, <3>4, <3>5
    <3>9. \A i \in 1 .. Len(read_in') : read_in'[i] # reading
      BY <3>1, <3>3, <3>4, <3>5
    <3>10. \A j \in 1 .. Len(Chain') : Chain'[j] = reading => reading = None
      BY <3>2, <3>3
    <3> QED
      BY <1>1, <3>6, <3>7, <3>8, <3>9, <3>10 DEF Apart
  <2> QED
    BY <2>7, <2>8, <2>9, <2>10
<1>13. ASSUME hd # Len(workspace[curr_buf].data)
       PROVE  Front' = to /\ ChainOK' /\ Apart' /\ read_in' \in Seq(Workspaces)
  <2>1. read_in' = read_in /\ curr_buf' = curr_buf
    BY <1>5, <1>13
  <2>2. Chain' = Chain
    BY <1>9, <2>1
  <2>3. ChainOK'
    BY <1>2, <1>4, <1>7, <1>8, <2>2, ChainKept
  <2>4. Apart'
    BY <1>1, <1>4, <2>1, <2>2 DEF Apart
  <2>5. to = RowStart(c, hd) /\ hd # 0
    BY <1>5, <1>13 DEF Advances
  <2>6. Front' = to
    BY <1>1, <1>5, <1>6, <2>1, <2>5 DEF Front, RowStart, TextKept
  <2> QED
    BY <1>10, <2>1, <2>3, <2>4, <2>6
<1>14. Front' = to /\ ChainOK' /\ Apart' /\ read_in' \in Seq(Workspaces)
  BY <1>12, <1>13
<1>15. ParserTyped'
  <2>1. curr_buf' \in Tokens /\ delivered' \in Seq(Seq(Bytes))
    BY <1>5, <1>10, NumbersAre DEF Advances
  <2> QED
    BY <1>1, <1>4, <1>6, <1>14, <2>1 DEF ParserTyped
<1>16. ReadOK'
  BY <1>1, <1>2, <1>4, <1>8 DEF ReadOK, Border, Piece
<1>17. EndOK'
  <2>1. ends > 0 \/ (\E m \in 1 .. Len(Chain') : Chain'[m] = None) =>
          ends > 0 \/ (\E m \in 1 .. Len(Chain) : Chain[m] = None)
    <3>1. CASE curr_buf' = curr_buf
      BY <1>9, <3>1
    <3>2. CASE curr_buf' = None
      <4>1. \A m \in 1 .. Len(Chain') : Chain'[m] = Chain[m + 1] /\ m + 1 \in 1 .. Len(Chain)
        BY <1>1, <1>9, <1>10, <3>2, LinkedTake
      <4> QED
        BY <4>1
    <3> QED
      BY <1>5, <3>1, <3>2
  <2> QED
    BY <1>1, <1>4, <1>8, <2>1 DEF EndOK
<1>18. ParsedOK'
  <2>1. \A i \in Workspaces : IsParsed(i)' <=> IsParsed(i)
    BY <1>6 DEF IsParsed, TextKept
  <2>2. \A i \in Tokens : i # None => i \in Workspaces
    BY NumbersAre
  <2>3. /\ \A k \in 1 .. Len(parse_in) : parse_in[k].part # c /\ parse_in[k].part \in Tokens
        /\ \A k \in 1 .. Len(parsed_data) : parsed_data[k] # c /\ parsed_data[k] \in Tokens
    <3>1. /\ \A k \in 1 .. Len(parse_in) : parse_in[k] \in Entry
          /\ \A k \in 1 .. Len(parsed_data) : parsed_data[k] \in Tokens
      BY <1>10, ElementOfSeq
    <3> QED
      BY <1>1, <1>4, <3>1, NotCurrent DEF Entry
  <2>4. ASSUME NEW k \in 1 .. Len(parse_in), NEW i, parse_in[k].finished, i = parse_in[k].part, i # None
        PROVE  IsParsed(i)' /\ workspace'[i].head = 0
    <3>1. IsParsed(i) /\ workspace[i].head = 0 /\ i \in Workspaces /\ i # c
      BY <1>4, <2>2, <2>3, <2>4 DEF ParsedOK
    <3> QED
      BY <1>6, <2>1, <3>1
  <2>5. ASSUME NEW k \in 1 .. Len(parsed_data), NEW i, i = parsed_data[k], i # None
        PROVE  IsParsed(i)' /\ workspace'[i].head = 0
    <3>1. IsParsed(i) /\ workspace[i].head = 0 /\ i \in Workspaces /\ i # c
      BY <1>4, <2>2, <2>3, <2>5 DEF ParsedOK
    <3> QED
      BY <1>6, <2>1, <3>1
  <2>6. ASSUME NEW i, i = curr_buf', i # None
        PROVE  /\ IsParsed(i)' /\ workspace'[i].head <= Len(workspace'[i].data)
               /\ ~failed' => ~workspace'[i].error
    <3>1. i = curr_buf /\ i \in Workspaces
      BY <1>5, <2>6
    <3>2. hd <= Len(workspace[i].data)
      BY <1>5, <3>1 DEF Advances
    <3>3. IsParsed(i) /\ (~failed => ~workspace[i].error)
      BY <1>1, <1>4, <3>1 DEF ParsedOK
    <3> QED
      BY <1>1, <1>6, <2>1, <3>1, <3>2, <3>3
  <2> QED
    BY <1>1, <2>4, <2>5, <2>6 DEF ParsedOK
<1>19. DeliveredOK'
  <2> DEFINE h == workspace[curr_buf].head
             R(j) == RowStart(curr_buf, h + j)
  <2>1. /\ l \in Nat /\ h \in Nat /\ hd \in Nat /\ h < hd
        /\ Len(delivered') = l + (hd - h)
        /\ \A j \in 1 .. l : delivered'[j] = delivered[j]
        /\ \A j \in 1 .. hd - h :
             /\ delivered'[l + j] = LineAt(stream, R(j))
             /\ R(j) \in 1 .. Len(stream) /\ GoodStart(R(j))
             /\ Front < R(j) /\ R(j) <= to
        /\ to \in Nat /\ Front \in Nat /\ Front <= to /\ to <= Len(stream)
        /\ ~workspace[curr_buf].error =>
              \A m \in 1 .. Len(stream) : GoodStart(m) /\ Front < m /\ m <= to =>
                   \E j \in 1 .. hd - h : m = R(j)
    BY <1>5 DEF Advances
  <2>2. /\ \A j \in 1 .. l :
             \E m \in 1 .. Len(stream) : GoodStart(m) /\ m <= Front /\ delivered[j] = LineAt(stream, m)
        /\ ~failed => \A m \in 1 .. Len(stream) : GoodStart(m) /\ m <= Front =>
                        \E j \in 1 .. l : delivered[j] = LineAt(stream, m)
    BY <1>4 DEF DeliveredOK
  <2>3. ~failed => ~workspace[curr_buf].error
    BY <1>1, <1>4 DEF ParsedOK
  <2>4. Len(stream) \in Nat
    BY <1>4, Marks
  <2>5. \A m : GoodStart(m)' <=> GoodStart(m)
    BY <1>2 DEF GoodStart
  <2> HIDE DEF l, h, R
  <2>6. ASSUME NEW j \in 1 .. Len(delivered')
        PROVE  \E m \in 1 .. Len(stream) : GoodStart(m) /\ m <= to /\ delivered'[j] = LineAt(stream, m)
    <3>1. CASE j <= l
      <4>1. j \in 1 .. l
        BY <2>1, <3>1
      <4>2. PICK m \in 1 .. Len(stream) : GoodStart(m) /\ m <= Front /\ delivered[j] = LineAt(stream, m)
        BY <2>2, <4>1
      <4>3. m <= to
        BY <2>1, <2>4, <4>2
      <4> QED
        BY <2>1, <4>1, <4>2, <4>3
    <3>2. CASE ~(j <= l)
      <4>1. PICK q \in 1 .. hd - h : j = l + q
        <5>1. j - l \in 1 .. hd - h /\ j = l + (j - l)
          BY <2>1, <3>2
        <5> QED
          BY <5>1
      <4> QED
        BY <2>1, <4>1
    <3> QED
      BY <3>1, <3>2
  <2>7. ASSUME ~failed, NEW m \in 1 .. Len(stream), GoodStart(m), m <= to
        PROVE  \E j \in 1 .. Len(delivered') : delivered'[j] = LineAt(stream, m)
    <3>1. CASE m <= Front
      <4>1. PICK j \in 1 .. l : delivered[j] = LineAt(stream, m)
        BY <2>2, <2>7, <3>1
      <4>2. j \in 1 .. Len(delivered') /\ delivered'[j] = delivered[j]
        BY <2>1
      <4> QED
        BY <4>1, <4>2
    <3>2. CASE ~(m <= Front)
      <4>1. Front < m
        BY <2>1, <2>4, <3>2
      <4>2. PICK q \in 1 .. hd - h : m = R(q)
        BY <2>1, <2>3, <2>7, <4>1
      <4>3. l + q \in 1 .. Len(delivered') /\ delivered'[l + q] = LineAt(stream, m)
        <5>1. l + q \in 1 .. Len(delivered')
          BY <2>1
        <5>2. delivered'[l + q] = LineAt(stream, R(q))
          BY <2>1
        <5> QED
          BY <4>2, <5>1, <5>2
      <4> QED
        BY <4>3
    <3> QED
      BY <3>1, <3>2
  <2> QED
    BY <1>1, <1>2, <1>14, <2>5, <2>6, <2>7 DEF DeliveredOK
<1> QED
  BY <1>3, <1>14, <1>15, <1>16, <1>17, <1>18, <1>19 DEF ParserInv

(***************************************************************************)
(* The lines that have been handed out.                                    *)
(***************************************************************************)
GoodLine(f, p) == Mine(f, p) /\ dir[f][p] = "good"

LEMMA GoodInStream ==
  ASSUME DirFixed, DirInv, NEW m \in 1 .. Len(stream), GoodStart(m)
  PROVE  LET f == stream[m][1] p == stream[m][2] IN
         /\ GoodLine(f, p) /\ stream[m] = Byte(f, p)
         /\ LineAt(stream, m) = LineAt(FileText(dir, f), p) /\ LineAt(stream, m)[1] = stream[m]
         /\ ~IsNewLine(stream[m])
<1> DEFINE f == stream[m][1]
           p == stream[m][2]
<1>1. stream \in Seq(Bytes) /\ Whole(stream) /\ m \in LineStarts(stream) /\ stream[m][3] = "good"
  BY StreamEnds DEF GoodStart
<1>2. /\ LineByte(stream, m, f, p) /\ Mine(f, p)
      /\ LineAt(stream, m) = LineAt(FileText(dir, f), p)
      /\ LineAt(stream, m)[1] = stream[m]
  BY <1>1, LineOfFile
<1>3. ~IsNewLine(stream[m])
  BY <1>1, LinesBegin
<1>4. f \in DOMAIN dir /\ stream[m] = Byte(f, p) /\ dir[f][p] = "good"
  BY <1>1, <1>2 DEF LineByte, Byte
<1> QED
  BY <1>2, <1>3, <1>4 DEF GoodLine

LEMMA GoodIsShared ==
  ASSUME DirFixed, NEW f, NEW p
  PROVE  GoodLine(f, p) <=>
           /\ << f, p >> \in FileLines(dir) /\ << f, p >> \in Share(dir, my_reader_id, support_seek)
           /\ dir[f][p] = "good"
BY DEF GoodLine, Mine, Share

LEMMA HeldAsLine ==
  ASSUME DirFixed, DirInv, NEW f, NEW p, GoodLine(f, p), Holds(stream, f, p)
  PROVE  \E m \in 1 .. Len(stream) : GoodStart(m) /\ stream[m] = Byte(f, p)
<1>1. stream \in Seq(Bytes) /\ Whole(stream) /\ Len(stream) \in Nat
  BY StreamEnds, LenProperties
<1>2. PICK m \in 1 .. Len(stream) : stream[m] = Byte(f, p)
  BY DEF Holds
<1>3. f \in DOMAIN dir /\ p \in 1 .. Len(dir[f]) /\ IsStart(f, p) /\ dir[f][p] = "good"
  BY MyLines DEF GoodLine
<1>4. stream[m][3] = "good" /\ ~IsNewLine(stream[m])
  BY <1>2, <1>3 DEF Byte, IsNewLine
<1>5. ASSUME m # 1, ~IsNewLine(stream[m - 1]) PROVE FALSE
  <2>1. PICK k \in 1 .. Len(stream) : k = m - 1 /\ k + 1 = m
    BY <1>1, <1>5
  <2> DEFINE g == stream[k][1]
             q == stream[k][2]
  <2>2. LineByte(stream, k, g, q) /\ ~IsNewLine(stream[k])
    BY <1>1, <1>5, <2>1, WholeByte
  <2>3. /\ g \in DOMAIN dir /\ q \in 1 .. Len(dir[g]) /\ dir[g][q] # "\n"
        /\ stream[k + 1] = Byte(g, q + 1)
    BY <1>4, <2>1, <2>2 DEF LineByte
  <2>4. g = f /\ q + 1 = p
    BY <1>2, <2>1, <2>3 DEF Byte
  <2>5. Len(dir[f]) \in Nat
    BY <1>3, FileBytes
  <2>6. q = p - 1 /\ p - 1 # 0
    BY <1>3, <2>3, <2>4, <2>5
  <2> HIDE DEF g, q
  <2> QED
    BY <1>3, <2>3, <2>4, <2>6 DEF IsStart, BeginsAfter
<1>6. m \in LineStarts(stream)
  BY <1>1, <1>4, <1>5, LinesBegin
<1> QED
  BY <1>2, <1>4, <1>6 DEF GoodStart

\* LinesOnceInOrder, file by file and place by place.
HandedOut ==
  /\ \A j \in 1 .. Len(delivered) :
       \E f, p : GoodLine(f, p) /\ delivered[j] = LineAt(FileText(dir, f), p)
  /\ \A i, j \in 1 .. Len(delivered) :
       i < j /\ delivered[i][1][1] = delivered[j][1][1] => delivered[i][1][2] < delivered[j][1][2]
  /\ ends > 0 /\ ~failed =>
       \A f, p : GoodLine(f, p) =>
         \E j \in 1 .. Len(delivered) : delivered[j] = LineAt(FileText(dir, f), p)

LEMMA LinesAreHandedOut ==
  ASSUME DirFixed, delivered \in Seq(Seq(Bytes))
  PROVE  LinesOnceInOrder <=> HandedOut
<1>1. DOMAIN delivered = 1 .. Len(delivered)
  BY LenProperties
<1>2. \A l \in FileLines(dir) : l = << l[1], l[2] >>
  <2>1. dir \in Seq(Seq(Kinds))
    BY FixedSharable
  <2>2. ASSUME NEW l \in FileLines(dir) PROVE l = << l[1], l[2] >>
    <3>1. PICK f \in DOMAIN dir : \E p \in 1 .. Len(dir[f]) : l = << f, p >>
      BY <2>1, LinesOfFiles
    <3> QED
      BY <3>1
  <2> QED
    BY <2>2
<1> DEFINE Good(l) == l \in Share(dir, my_reader_id, support_seek) /\ dir[l[1]][l[2]] = "good"
<1>3. \A l \in FileLines(dir) : Good(l) <=> GoodLine(l[1], l[2])
  BY <1>2, GoodIsShared
<1>4. \A f, p : GoodLine(f, p) => << f, p >> \in FileLines(dir) /\ << f, p >>[1] = f /\ << f, p >>[2] = p
  BY GoodIsShared
<1> DEFINE Line(f, p) == LineAt(FileText(dir, f), p)
           Out(f, p) == \E j \in 1 .. Len(delivered) : delivered[j] = Line(f, p)
<1>5. LinesOnceInOrder <=>
        /\ \A j \in 1 .. Len(delivered) : \E l \in FileLines(dir) : Good(l) /\ delivered[j] = Line(l[1], l[2])
        /\ \A i, j \in 1 .. Len(delivered) :
             i < j /\ delivered[i][1][1] = delivered[j][1][1] => delivered[i][1][2] < delivered[j][1][2]
        /\ ends > 0 /\ ~failed => \A l \in FileLines(dir) : Good(l) => Out(l[1], l[2])
  BY <1>1 DEF LinesOnceInOrder
<1>6. HandedOut <=>
        /\ \A j \in 1 .. Len(delivered) : \E f, p : GoodLine(f, p) /\ delivered[j] = Line(f, p)
        /\ \A i, j \in 1 .. Len(delivered) :
             i < j /\ delivered[i][1][1] = delivered[j][1][1] => delivered[i][1][2] < delivered[j][1][2]
        /\ ends > 0 /\ ~failed => \A f, p : GoodLine(f, p) => Out(f, p)
  BY DEF HandedOut
<1> HIDE DEF Good, Line, Out
<1>7. ASSUME NEW x
      PROVE  (\E l \in FileLines(dir) : Good(l) /\ x = Line(l[1], l[2])) <=> (\E f, p : GoodLine(f, p) /\ x = Line(f, p))
  <2>1. ASSUME NEW l \in FileLines(dir), Good(l), x = Line(l[1], l[2])
        PROVE  \E f, p : GoodLine(f, p) /\ x = Line(f, p)
    BY <1>3, <2>1
  <2>2. ASSUME NEW f, NEW p, GoodLine(f, p), x = Line(f, p)
        PROVE  \E l \in FileLines(dir) : Good(l) /\ x = Line(l[1], l[2])
    <3>1. PICK l \in FileLines(dir) : l[1] = f /\ l[2] = p
      BY <1>4, <2>2
    <3> QED
      BY <1>3, <2>2, <3>1
  <2> QED
    BY <2>1, <2>2
<1>8. (\A l \in FileLines(dir) : Good(l) => Out(l[1], l[2])) <=> (\A f, p : GoodLine(f, p) => Out(f, p))
  <2>1. ASSUME \A l \in FileLines(dir) : Good(l) => Out(l[1], l[2]), NEW f, NEW p, GoodLine(f, p)
        PROVE  Out(f, p)
    <3>1. PICK l \in FileLines(dir) : l[1] = f /\ l[2] = p
      BY <1>4, <2>1
    <3> QED
      BY <1>3, <2>1, <3>1
  <2>2. ASSUME \A f, p : GoodLine(f, p) => Out(f, p), NEW l \in FileLines(dir), Good(l)
        PROVE  Out(l[1], l[2])
    BY <1>3, <2>2
  <2> QED
    BY <2>1, <2>2
<1> QED
  BY <1>5, <1>6, <1>7, <1>8

LEMMA SameGood ==
  ASSUME UNCHANGED opened
  PROVE  \A f, p : /\ GoodLine(f, p)' <=> GoodLine(f, p)
                   /\ LineAt(FileText(dir, f), p)' = LineAt(FileText(dir, f), p)
<1>1. dir' = dir /\ my_reader_id' = my_reader_id /\ support_seek' = support_seek
  BY DEF opened
<1> QED
  BY <1>1 DEF GoodLine, Mine

LEMMA InOrderOfFile ==
  ASSUME DirInv, NEW m \in 1 .. Len(stream), NEW n \in 1 .. Len(stream), m < n,
         GoodStart(m), GoodStart(n), stream[m][1] = stream[n][1]
  PROVE  stream[m][2] < stream[n][2]
<1>1. Sorted(stream)
  BY StreamEnds
<1>2. SameFile(stream[m], stream[n])
  BY DEF GoodStart, SameFile, IsNewLine
<1> QED
  BY <1>1, <1>2 DEF Sorted

LEMMA HandedOutThen == (DirFixed /\ delivered \in Seq(Seq(Bytes)) => (LinesOnceInOrder <=> HandedOut))'
<1>1. DirFixed /\ delivered \in Seq(Seq(Bytes)) => (LinesOnceInOrder <=> HandedOut)
  BY LinesAreHandedOut
<1> QED
  BY <1>1, PTL

LEMMA DeliverLines ==
  ASSUME DirFixed, DirInv, ParserInv, LinesOnceInOrder, Deliver
  PROVE  LinesOnceInOrder'
<1> DEFINE l == Len(delivered)
           h == workspace[curr_buf].head
           R(j) == RowStart(curr_buf, h + j)
<1>1. PICK hd, to : Advances(hd, to)
  BY DeliverAdvances
<1>2. /\ l \in Nat /\ hd - h \in Nat /\ Len(delivered') = l + (hd - h) /\ delivered' \in Seq(Seq(Bytes))
      /\ \A j \in 1 .. l : delivered'[j] = delivered[j]
      /\ \A j \in 1 .. hd - h :
           /\ delivered'[l + j] = LineAt(stream, R(j))
           /\ R(j) \in 1 .. Len(stream) /\ GoodStart(R(j)) /\ Front < R(j)
      /\ \A i, j \in 1 .. hd - h : i < j => R(i) < R(j)
      /\ Front \in Nat
  <2>1. hd - h \in Nat
    BY <1>1, SMTT(30) DEF Advances
  <2> QED
    BY <1>1, <2>1 DEF Advances
<1>3. UNCHANGED opened /\ ends' = ends /\ failed' = failed /\ DirFixed'
  <2>1. UNCHANGED opened /\ ends' = ends /\ failed' = failed
    BY DeliverKeeps DEF Deliver
  <2> QED
    BY <2>1, SameDir
<1>4. HandedOut
  BY LinesAreHandedOut DEF ParserInv, ParserTyped
<1>5. DeliveredOK
  BY DEF ParserInv
<1> DEFINE n == hd - h
<1>6. n = hd - h
  OBVIOUS
<1> HIDE DEF l, h, R, n
\* Where the lines begin in the stream.
<1>7. \A j \in 1 .. Len(delivered') : j \in 1 .. l \/ \E q \in 1 .. n : j = l + q
  <2>1. l \in Nat /\ n \in Nat /\ Len(delivered') = l + n
    BY <1>2, <1>6
  <2>2. ASSUME NEW j \in 1 .. Len(delivered'), j \notin 1 .. l PROVE \E q \in 1 .. n : j = l + q
    <3>1. j - l \in 1 .. n /\ j = l + (j - l)
      BY <2>1, <2>2
    <3> QED
      BY <3>1
  <2> QED
    BY <2>2
<1>8. \A j \in 1 .. l : \E m \in 1 .. Len(stream) :
        GoodStart(m) /\ m <= Front /\ delivered'[j] = LineAt(stream, m)
  BY <1>2, <1>5 DEF DeliveredOK, l
<1>9. \A q \in 1 .. n : /\ delivered'[l + q] = LineAt(stream, R(q)) /\ Front < R(q)
                        /\ R(q) \in 1 .. Len(stream) /\ GoodStart(R(q))
  BY <1>2, <1>6
<1>10. ASSUME NEW j \in 1 .. Len(delivered')
       PROVE  \E f, p : GoodLine(f, p) /\ delivered'[j] = LineAt(FileText(dir, f), p)
  <2>1. PICK m \in 1 .. Len(stream) : GoodStart(m) /\ delivered'[j] = LineAt(stream, m)
    BY <1>7, <1>8, <1>9
  <2> QED
    BY <2>1, GoodInStream
<1>11. ASSUME NEW i \in 1 .. Len(delivered'), NEW j \in 1 .. Len(delivered'), i < j,
              delivered'[i][1][1] = delivered'[j][1][1]
       PROVE  delivered'[i][1][2] < delivered'[j][1][2]
  <2>1. CASE i \in 1 .. l /\ j \in 1 .. l
    BY <1>2, <1>4, <1>11, <2>1 DEF HandedOut, l
  <2>2. CASE ~(i \in 1 .. l /\ j \in 1 .. l)
    <3>1. PICK q \in 1 .. n : j = l + q
      <4>1. j \in 1 .. l => i \in 1 .. l
        BY <1>2, <1>11
      <4> QED
        BY <1>7, <2>2, <4>1
    <3>2. PICK m \in 1 .. Len(stream) : GoodStart(m) /\ m < R(q) /\ delivered'[i] = LineAt(stream, m)
      <4>1. CASE i \in 1 .. l
        <5>1. PICK m \in 1 .. Len(stream) : GoodStart(m) /\ m <= Front /\ delivered'[i] = LineAt(stream, m)
          BY <1>8, <4>1
        <5>2. m < R(q)
          <6>1. Front < R(q) /\ R(q) \in Nat /\ m \in Nat /\ Front \in Nat
            BY <1>2, <1>9
          <6> QED
            BY <5>1, <6>1
        <5> QED
          BY <5>1, <5>2
      <4>2. CASE i \notin 1 .. l
        <5>1. PICK o \in 1 .. n : i = l + o
          BY <1>7, <4>2
        <5>2. o < q
          BY <1>2, <1>11, <3>1, <5>1
        <5>3. R(o) < R(q)
          BY <1>2, <1>6, <5>2
        <5> QED
          BY <1>9, <5>1, <5>3
      <4> QED
        BY <4>1, <4>2
    <3>3. delivered'[i][1] = stream[m] /\ delivered'[j][1] = stream[R(q)] /\ R(q) \in 1 .. Len(stream) /\ GoodStart(R(q))
      BY <1>9, <3>1, <3>2, GoodInStream
    <3>4. stream[m][2] < stream[R(q)][2]
      BY <1>11, <3>2, <3>3, InOrderOfFile
    <3> QED
      BY <3>3, <3>4
  <2> QED
    BY <2>1, <2>2
<1>12. ASSUME ends > 0, ~failed, NEW f, NEW p, GoodLine(f, p)
       PROVE  \E j \in 1 .. Len(delivered') : delivered'[j] = LineAt(FileText(dir, f), p)
  <2>1. PICK j \in 1 .. l : delivered[j] = LineAt(FileText(dir, f), p)
    BY <1>4, <1>12 DEF HandedOut, l
  <2>2. j \in 1 .. Len(delivered') /\ delivered'[j] = delivered[j]
    BY <1>2
  <2> QED
    BY <2>1, <2>2
<1>13. HandedOut'
  <2>1. \A f, p : /\ GoodLine(f, p)' <=> GoodLine(f, p)
                  /\ LineAt(FileText(dir, f), p)' = LineAt(FileText(dir, f), p)
    BY <1>3, SameGood
  <2>2. dir' = dir
    BY <1>3 DEF opened
  <2>3. HandedOut' <=>
        /\ \A j \in 1 .. Len(delivered') :
             \E f, p : GoodLine(f, p)' /\ delivered'[j] = LineAt(FileText(dir, f), p)
        /\ \A i, j \in 1 .. Len(delivered') :
             i < j /\ delivered'[i][1][1] = delivered'[j][1][1] => delivered'[i][1][2] < delivered'[j][1][2]
        /\ ends > 0 /\ ~failed =>
             \A f, p : GoodLine(f, p)' =>
               \E j \in 1 .. Len(delivered') : delivered'[j] = LineAt(FileText(dir, f), p)
    BY <1>3, <2>2 DEF HandedOut
  <2> QED
    BY <1>10, <1>11, <1>12, <2>1, <2>3
<1>14. (LinesOnceInOrder <=> HandedOut)'
  <2>1. delivered' \in Seq(Seq(Bytes))
    BY <1>2
  <2> QED
    BY <1>3, <2>1, HandedOutThen
<1> QED
  BY <1>13, <1>14

\* At the end mark everything has been read.
LEMMA NothingUnread ==
  ASSUME DirInv, ParserInv, curr_buf = None, parsed_data # <<>>, Head(parsed_data) = None
  PROVE  /\ Front = Len(stream)
         /\ \A l \in Share(dir, my_reader_id, support_seek) : Holds(stream, l[1], l[2])
<1>1. /\ DirTyped /\ Counted /\ NoLineLost
      /\ ParserTyped /\ ReadOK /\ ChainOK /\ EndOK
  BY DEF DirInv, ParserInv
<1>2. Len(Chain) > 0 /\ \A m \in 1 .. Len(Chain) : Chain[m] = None
  BY <1>1, EndMarksOnly
<1>3. Len(Chain) \in Nat /\ 1 \in 1 .. Len(Chain)
  BY <1>1, <1>2, ChainTyped
<1>4. AtEnd /\ left_over = <<>> /\ raw = <<>>
  BY <1>1, <1>2, <1>3 DEF EndOK
<1>5. curr_block = <<>> /\ files_read = total_files
  BY <1>4 DEF AtEnd
<1>6. /\ Len(ranges) \in Nat /\ Len(contents) \in Nat /\ Len(Texts) = Len(contents) + 1
      /\ Texts[1] = stream /\ IsFiniteSet(EndMarks) /\ Cardinality(EndMarks) \in Nat
  BY <1>1, StreamTyped
<1>7. Len(ranges) = 0 /\ Cardinality(EndMarks) = 0
  <2>1. files_read \in Nat /\ files_read + Cardinality(EndMarks) + Len(ranges) = files_read
    BY <1>1, <1>5 DEF Counted, DirTyped
  <2> QED
    BY <1>6, <2>1
<1>8. ranges = <<>> /\ EndMarks = {}
  <2>1. ranges \in Seq(Tasks)
    BY <1>1 DEF DirTyped
  <2> QED
    BY <1>6, <1>7, <2>1, EmptySeq, FS_EmptySet
<1>9. contents = <<>>
  <2>1. SUFFICES ASSUME contents # <<>> PROVE FALSE
    OBVIOUS
  <2>2. contents[Len(contents)] = <<>>
    BY <1>1, <1>8, <2>1 DEF Counted
  <2>3. Len(contents) \in 1 .. Len(contents)
    BY <1>1, <1>6, <2>1, EmptySeq DEF DirTyped
  <2> QED
    BY <1>8, <2>2, <2>3 DEF EndMarks
<1>10. Len(Texts) = 1 /\ Len(ranges) = 0
  BY <1>6, <1>7, <1>9
<1>11. ASSUME NEW l \in Share(dir, my_reader_id, support_seek) PROVE Holds(stream, l[1], l[2])
  <2>1. \/ \E i \in 1 .. Len(Texts) : Holds(Texts[i], l[1], l[2])
        \/ \E k \in 1 .. Len(ranges) : Owed(ranges[k], l[1], l[2])
    BY <1>1 DEF NoLineLost
  <2>2. \A i \in 1 .. Len(Texts) : Texts[i] = stream
    <3>1. \A i \in 1 .. Len(Texts) : i = 1
      BY <1>10
    <3> QED
      BY <1>6, <3>1
  <2>3. 1 .. Len(ranges) = {}
    BY <1>10
  <2> QED
    BY <2>1, <2>2, <2>3
<1>12. Front = Mark
  BY <1>2, <1>3 DEF Front
<1>13. Mark = Len(stream)
  <2>1. Len(curr_block) = 0 /\ Len(left_over) = 0 /\ Len(raw) = 0 /\ Len(stream) \in Nat
    BY <1>1, <1>4, <1>5, Marks
  <2> QED
    BY <2>1 DEF Mark, Taken
<1> QED
  BY <1>11, <1>12, <1>13

LEMMA PopEndLines ==
  ASSUME DirFixed, DirInv, ParserInv, LinesOnceInOrder, PopEnd
  PROVE  LinesOnceInOrder'
<1>1. /\ curr_buf = None /\ parsed_data # <<>> /\ Head(parsed_data) = None
      /\ delivered' = delivered /\ failed' = failed
  BY DEF PopEnd
<1>2. UNCHANGED opened
  BY PopEndKeeps
<1>3. Front = Len(stream) /\ \A l \in Share(dir, my_reader_id, support_seek) : Holds(stream, l[1], l[2])
  BY <1>1, NothingUnread
<1>4. HandedOut /\ DirFixed' /\ delivered' \in Seq(Seq(Bytes))
  BY <1>1, <1>2, SameDir, LinesAreHandedOut DEF ParserInv, ParserTyped
<1>5. ASSUME ~failed, NEW f, NEW p, GoodLine(f, p)
      PROVE  \E j \in 1 .. Len(delivered) : delivered[j] = LineAt(FileText(dir, f), p)
  <2>1. Holds(stream, f, p)
    <3>1. << f, p >> \in Share(dir, my_reader_id, support_seek)
      BY <1>5 DEF GoodLine, Mine
    <3>2. PICK l \in Share(dir, my_reader_id, support_seek) : l = << f, p >>
      BY <3>1
    <3> QED
      BY <1>3, <3>2
  <2>2. PICK m \in 1 .. Len(stream) : GoodStart(m) /\ stream[m] = Byte(f, p)
    BY <1>5, <2>1, HeldAsLine
  <2>3. stream[m][1] = f /\ stream[m][2] = p
    BY <2>2 DEF Byte
  <2>4. LineAt(stream, m) = LineAt(FileText(dir, f), p)
    BY <2>2, <2>3, GoodInStream
  <2>5. m <= Front
    <3>1. Len(stream) \in Nat
      BY StreamEnds, LenProperties
    <3> QED
      BY <1>3, <3>1
  <2> QED
    BY <1>5, <2>2, <2>4, <2>5 DEF ParserInv, DeliveredOK
<1>6. HandedOut'
  <2>1. \A f, p : /\ GoodLine(f, p)' <=> GoodLine(f, p)
                  /\ LineAt(FileText(dir, f), p)' = LineAt(FileText(dir, f), p)
    BY <1>2, SameGood
  <2>2. dir' = dir
    BY <1>2 DEF opened
  <2>3. HandedOut' <=>
        /\ \A j \in 1 .. Len(delivered) :
             \E f, p : GoodLine(f, p)' /\ delivered[j] = LineAt(FileText(dir, f), p)
        /\ \A i, j \in 1 .. Len(delivered) :
             i < j /\ delivered[i][1][1] = delivered[j][1][1] => delivered[i][1][2] < delivered[j][1][2]
        /\ ends' > 0 /\ ~failed =>
             \A f, p : GoodLine(f, p)' =>
               \E j \in 1 .. Len(delivered) : delivered[j] = LineAt(FileText(dir, f), p)
    BY <1>1, <2>2 DEF HandedOut
  <2>4. /\ \A j \in 1 .. Len(delivered) :
             \E f, p : GoodLine(f, p) /\ delivered[j] = LineAt(FileText(dir, f), p)
        /\ \A i, j \in 1 .. Len(delivered) :
             i < j /\ delivered[i][1][1] = delivered[j][1][1] => delivered[i][1][2] < delivered[j][1][2]
    BY <1>4 DEF HandedOut
  <2> QED
    BY <1>5, <2>1, <2>3, <2>4
<1> QED
  BY <1>4, <1>6, HandedOutThen

(***************************************************************************)
(* Start, and what has no part in it any more.                             *)
(***************************************************************************)
LEMMA FreshLines ==
  ASSUME delivered = <<>>, ends = 0
  PROVE  LinesOnceInOrder
<1>1. DOMAIN delivered = {} /\ ~(ends > 0)
  OBVIOUS
<1> QED
  BY <1>1 DEF LinesOnceInOrder

LEMMA StartKeeps ==
  ASSUME DirFixed, Fresh, Start
  PROVE  DirInv' /\ ParserInv' /\ UNCHANGED <<dir, support_seek, my_reader_id, delivered, ends, failed>>
<1>1. /\ OpenDir /\ read_in' = [k \in 1 .. NPrefetch |-> k - 1]
      /\ UNCHANGED <<reading, raw, asked, left_over, workspace, parse_in, parsed_data,
                     curr_buf, delivered, ends, failed>>
      /\ UNCHANGED <<dir, support_seek, my_reader_id, contents, files_read, curr_block, stream>>
  BY DEF Start, OpenDir
<1>2. DirInv'
  BY <1>1, OpenDirStarts DEF Fresh
<1>3. /\ read_in' \in Seq(Workspaces) /\ Len(read_in') = NPrefetch /\ NPrefetch \in Nat
      /\ \A k \in 1 .. NPrefetch : read_in'[k] = k - 1
  <2>1. NPrefetch \in Nat
    BY ParserAssumption
  <2>2. \A k \in 1 .. NPrefetch : k - 1 \in Workspaces
    BY <2>1 DEF Workspaces
  <2>3. [k \in 1 .. NPrefetch |-> k - 1] \in [1 .. NPrefetch -> Workspaces]
    BY <2>2
  <2>4. [k \in 1 .. NPrefetch |-> k - 1] \in Seq(Workspaces)
    BY <2>1, <2>3, SeqDef
  <2>5. DOMAIN [k \in 1 .. NPrefetch |-> k - 1] = 1 .. Len([k \in 1 .. NPrefetch |-> k - 1])
    BY <2>4, LenProperties
  <2>6. Len([k \in 1 .. NPrefetch |-> k - 1]) = NPrefetch
    BY <2>1
  <2> QED
    BY <1>1, <2>1, <2>4, <2>6
<1>4. /\ reading' = None /\ raw' = <<>> /\ asked' = 0 /\ left_over' = <<>> /\ workspace' \in [Workspaces -> Spaces]
      /\ parse_in' = <<>> /\ parsed_data' = <<>> /\ curr_buf' = None /\ delivered' = <<>> /\ ends' = 0
      /\ failed' = FALSE /\ curr_block' = <<>> /\ stream' = <<>>
  BY <1>1 DEF Fresh
<1>5. Chain' = <<>> /\ Len(Chain') = 0
  <2>1. Linked(None, <<>>, <<>>) = <<>>
    <3>1. None \in Tokens /\ Here(None) = 0 /\ <<>> \in Seq(Tokens) /\ <<>> \in Seq(Entry)
      BY NumbersAre DEF Here
    <3>2. Links(None, <<>>, <<>>)
      BY <3>1, LinkedIs
    <3>3. Linked(None, <<>>, <<>>) \in Seq(Tokens) /\ Len(Linked(None, <<>>, <<>>)) = 0
      BY <3>1, <3>2 DEF Links
    <3> QED
      BY <3>3, EmptySeq
  <2>2. Chain' = Linked(None, <<>>, <<>>)
    BY <1>4 DEF Chain
  <2> QED
    BY <2>1, <2>2
<1>6. ParserTyped'
  <2>1. 0 \in 0 .. ParseBlock
    BY ParserAssumption
  <2>2. None \in Tokens
    BY NumbersAre
  <2>3. <<>> \in Seq(Bytes) /\ <<>> \in Seq(Entry) /\ <<>> \in Seq(Tokens) /\ <<>> \in Seq(Seq(Bytes))
    BY EmptySeq
  <2>4. 0 \in Nat /\ FALSE \in BOOLEAN
    OBVIOUS
  <2> QED
    BY <1>3, <1>4, <2>1, <2>2, <2>3, <2>4 DEF ParserTyped
<1>7. Apart'
  <2>1. \A i, j \in 1 .. Len(read_in') : read_in'[i] = read_in'[j] => i = j
    BY <1>3
  <2>2. \A i \in 1 .. Len(read_in') : read_in'[i] # None
    BY <1>3, NumbersAre, ElementOfSeq
  <2> QED
    BY <1>4, <1>5, <2>1, <2>2 DEF Apart
<1>8. Mark' = 0 /\ Taken' = 0
  <2>1. Len(<<>>) = 0
    OBVIOUS
  <2>2. Len(stream') = 0 /\ Len(curr_block') = 0 /\ Len(left_over') = 0 /\ Len(raw') = 0
    BY <1>4, <2>1
  <2> QED
    BY <2>2 DEF Mark, Taken
<1>9. ReadOK'
  <2>1. SubSeq(<<>>, 0 + 1, 0) = <<>>
    <3>1. <<>> \in Seq(Bytes) /\ Len(<<>>) = 0
      BY EmptySeq
    <3>2. SubSeq(<<>>, 0 + 1, 0) \in Seq(Bytes) /\ Len(SubSeq(<<>>, 0 + 1, 0)) = 0 - 0
      BY <3>1, Part
    <3> QED
      BY <3>2, EmptySeq
  <2>2. Piece(0, 0)' = <<>>
    BY <1>4, <2>1 DEF Piece
  <2>3. Piece(Mark, Taken)' = <<>> /\ Piece(Taken, Len(stream))' = <<>>
    BY <1>4, <1>8, <2>2
  <2>4. NewLines(<<>>) = {}
    BY DEF NewLines
  <2> QED
    BY <1>4, <1>8, <2>3, <2>4 DEF ReadOK, Border
<1>10. ChainOK'
  BY <1>5 DEF ChainOK
<1>11. ParsedOK'
  BY <1>4 DEF ParsedOK
<1>12. EndOK'
  BY <1>4, <1>5 DEF EndOK
<1>13. DeliveredOK'
  BY <1>4 DEF DeliveredOK
<1> QED
  BY <1>1, <1>2, <1>6, <1>7, <1>9, <1>10, <1>11, <1>12, <1>13 DEF ParserInv

(***************************************************************************)
(* The steps.                                                              *)
(***************************************************************************)
\* A step of a stage's thread is none of the caller's.
LEMMA ThreadSteps ==
  ASSUME (\E k \in 1 .. NParallel : DirWorker(k)) \/ ReadThread \/ (\E k \in 1 .. NPrefetch : ParseStage(k))
  PROVE  UNCHANGED <<opened, pc, delivered, ends, failed>>
<1>1. ASSUME NEW k, DirWorker(k) PROVE UNCHANGED <<opened, pc, delivered, ends, failed>>
  BY <1>1 DEF DirWorker, ReadFileIntoBuffer, ReadRound, EndRange, caller
<1>2. CASE BeginRead
  BY <1>2 DEF BeginRead, dirStream, opened, caller
<1>3. CASE ReadPop
  BY <1>3 DEF ReadPop, PopBlock, caller
<1>4. CASE ReadCopy
  BY <1>4 DEF ReadCopy, caller
<1>5. CASE ReadMore
  BY <1>5 DEF ReadMore, dirStream, opened, caller
<1>6. CASE EndRead
  BY <1>6 DEF EndRead, dirStream, opened, caller
<1>7. ASSUME NEW k, ParseStage(k) PROVE UNCHANGED <<opened, pc, delivered, ends, failed>>
  BY <1>7 DEF ParseStage, dirStream, opened, caller
<1> QED
  BY <1>1, <1>2, <1>3, <1>4, <1>5, <1>6, <1>7 DEF ReadThread

\* The stages have nothing to do before Start.
LEMMA FreshRests ==
  ASSUME Fresh
  PROVE  /\ \A k \in 1 .. NParallel : ~DirWorker(k)
         /\ ~ReadThread
         /\ \A k \in 1 .. NPrefetch : ~ParseStage(k)
<1>1. Len(ranges) = 0 /\ Len(parse_in) = 0 /\ read_in = <<>> /\ reading = None
  BY DEF Fresh
<1>2. ASSUME NEW k \in 1 .. NParallel, DirWorker(k) PROVE FALSE
  <2>1. k <= Least(NParallel, Len(ranges))
    BY <1>2 DEF DirWorker, ReadFileIntoBuffer
  <2> QED
    BY <1>1, <2>1, DirAssumption DEF Least
<1>3. ~ReadThread
  BY <1>1 DEF ReadThread, BeginRead, ReadPop, ReadCopy, ReadMore, EndRead, ReadReturned
<1>4. ASSUME NEW k \in 1 .. NPrefetch, ParseStage(k) PROVE FALSE
  <2>1. k <= Len(parse_in)
    BY <1>4 DEF ParseStage
  <2> QED
    BY <1>1, <2>1
<1> QED
  BY <1>2, <1>3, <1>4

LEMMA InitInv == Init => Inv
<1> SUFFICES ASSUME Init PROVE Inv
  OBVIOUS
<1>1. DirFixed
  BY DEF Init, DirInit, DirFixed
<1>2. workspace \in [Workspaces -> Spaces]
  <2>1. [raw |-> <<>>, data |-> <<>>, head |-> 0, error |-> FALSE, from |-> 0] \in Spaces
    <3>1. <<>> \in Seq(Bytes) /\ <<>> \in Seq(Seq(Bytes)) /\ 0 \in Nat /\ FALSE \in BOOLEAN
      BY EmptySeq
    <3> QED
      BY <3>1 DEF Spaces
  <2> QED
    BY <2>1 DEF Init
<1>3. Fresh
  BY <1>2 DEF Init, DirInit, Fresh
<1>4. pc = "new" /\ ~Live
  BY DEF Init, Live
<1> QED
  BY <1>1, <1>3, <1>4 DEF Inv

LEMMA InvLines == Inv => LinesOnceInOrder
BY FreshLines DEF Inv, Fresh

\* While the caller works, each step keeps what its action's lemma says.
LEMMA LiveSteps ==
  ASSUME Inv, Live,
         \/ \E k \in 1 .. NParallel : DirWorker(k)
         \/ ReadThread
         \/ \E k \in 1 .. NPrefetch : ParseStage(k)
         \/ CallRead \/ PopEnd \/ PopParsed \/ NothingLeft \/ Deliver
  PROVE  DirInv' /\ ParserInv' /\ UNCHANGED opened /\ LinesOnceInOrder' /\ pc' # "new"
<1>1. DirFixed /\ DirInv /\ ParserInv /\ LinesOnceInOrder /\ pc # "new" /\ pc # "stop"
  BY DEF Inv, Live
<1>2. failed \in BOOLEAN
  BY <1>1 DEF ParserInv, ParserTyped
<1>3. CASE (\E k \in 1 .. NParallel : DirWorker(k)) \/ ReadThread \/ (\E k \in 1 .. NPrefetch : ParseStage(k))
  <2>1. DirInv' /\ ParserInv' /\ UNCHANGED opened
    <3>1. ASSUME NEW k \in 1 .. NParallel, DirWorker(k) PROVE DirInv' /\ ParserInv' /\ UNCHANGED opened
      BY <1>1, <3>1, DirWorkerKeeps
    <3>2. ASSUME ReadThread PROVE DirInv' /\ ParserInv' /\ UNCHANGED opened
      BY <1>1, <3>2, BeginReadKeeps, ReadPopKeeps, ReadCopyKeeps, ReadMoreKeeps, EndReadKeeps DEF ReadThread
    <3>3. ASSUME NEW k \in 1 .. NPrefetch, ParseStage(k) PROVE DirInv' /\ ParserInv' /\ UNCHANGED opened
      BY <1>1, <3>3, ParseStageKeeps
    <3> QED
      BY <1>3, <3>1, <3>2, <3>3
  <2>2. UNCHANGED <<pc, delivered, ends, failed>>
    BY <1>3, ThreadSteps
  <2> QED
    BY <1>1, <2>1, <2>2, LinesKept
<1>4. CASE CallRead
  <2>1. /\ UNCHANGED <<dirStream, reader, workspace, parse_in, parsed_data, curr_buf, delivered, ends>>
        /\ failed' = failed /\ pc' # "new"
    BY <1>4 DEF CallRead
  <2>2. DirInv' /\ ParserInv' /\ UNCHANGED opened
    BY <1>1, <2>1, CallerKeeps
  <2> QED
    BY <1>1, <2>1, <2>2, LinesKept
<1>5. CASE PopEnd
  BY <1>1, <1>5, PopEndKeeps, PopEndLines DEF PopEnd
<1>6. CASE PopParsed
  <2>1. DirInv' /\ ParserInv' /\ UNCHANGED opened
    BY <1>1, <1>6, PopParsedKeeps
  <2>2. delivered' = delivered /\ ends' = ends /\ (failed' = failed \/ failed' = TRUE)
    BY <1>6 DEF PopParsed
  <2>3. (~failed' => ~failed) /\ (ends' > 0 => ends > 0)
    BY <2>2
  <2>5. pc' # "new"
    BY <1>1, <1>6 DEF PopParsed
  <2>4. LinesOnceInOrder'
    BY <1>1, <2>1, <2>2, <2>3, LinesKept
  <2> QED
    BY <2>1, <2>4, <2>5
<1>7. CASE NothingLeft
  <2>1. /\ UNCHANGED <<dirStream, reader, workspace, parse_in, parsed_data, curr_buf, delivered, ends>>
        /\ failed' = TRUE /\ pc' # "new"
    BY <1>7 DEF NothingLeft
  <2>2. DirInv' /\ ParserInv' /\ UNCHANGED opened
    BY <1>1, <2>1, CallerKeeps
  <2> QED
    BY <1>1, <2>1, <2>2, LinesKept
<1>8. CASE Deliver
  BY <1>1, <1>8, DeliverKeeps, DeliverLines DEF Deliver
<1> QED
  BY <1>3, <1>4, <1>5, <1>6, <1>7, <1>8

LEMMA StepInv == Inv /\ [Next]_vars => Inv'
<1> SUFFICES ASSUME Inv, [Next]_vars PROVE Inv'
  OBVIOUS
<1>1. DirFixed
  BY DEF Inv
<1>2. CASE Start
  <2>1. Fresh /\ pc' = "idle"
    BY <1>2 DEF Inv, Start
  <2>2. /\ DirInv' /\ ParserInv'
        /\ dir' = dir /\ support_seek' = support_seek /\ my_reader_id' = my_reader_id
        /\ delivered' = <<>> /\ ends' = 0
    BY <1>1, <1>2, <2>1, StartKeeps DEF Fresh
  <2>3. DirFixed'
    BY <1>1, <2>2 DEF DirFixed
  <2>4. LinesOnceInOrder'
    BY <2>2 DEF LinesOnceInOrder
  <2> QED
    BY <2>1, <2>2, <2>3, <2>4 DEF Inv
<1>3. CASE Live /\ ( \/ \E k \in 1 .. NParallel : DirWorker(k)
                     \/ ReadThread
                     \/ \E k \in 1 .. NPrefetch : ParseStage(k)
                     \/ CallRead \/ PopEnd \/ PopParsed \/ NothingLeft \/ Deliver)
  <2>1. DirInv' /\ ParserInv' /\ UNCHANGED opened /\ LinesOnceInOrder' /\ pc' # "new"
    BY <1>3, LiveSteps
  <2> QED
    BY <1>1, <2>1, SameDir DEF Inv
<1>4. ASSUME pc # "new", ~Live', pc' # "new", UNCHANGED <<opened, delivered, ends, failed>>
      PROVE  Inv'
  <2>1. LinesOnceInOrder
    BY <1>4 DEF Inv
  <2>2. LinesOnceInOrder'
    BY <1>4, <2>1, LinesKept
  <2> QED
    BY <1>1, <1>4, <2>2, SameDir DEF Inv
<1>5. CASE ~Live /\ ( \/ \E k \in 1 .. NParallel : DirWorker(k)
                      \/ ReadThread
                      \/ \E k \in 1 .. NPrefetch : ParseStage(k))
  <2>1. pc # "new"
    BY <1>5, FreshRests DEF Inv
  <2>2. UNCHANGED <<opened, pc, delivered, ends, failed>>
    BY <1>5, ThreadSteps
  <2> QED
    BY <1>4, <1>5, <2>1, <2>2 DEF Live
<1>6. CASE Stop
  BY <1>4, <1>6 DEF Stop, Live, dirStream, opened
<1>7. CASE Stopped
  BY <1>4, <1>7 DEF Stopped, StopReading, Live
<1>8. CASE Closed
  BY <1>4, <1>8 DEF Closed, Live, dirStream, opened
<1>9. CASE UNCHANGED vars
  <2>1. /\ UNCHANGED <<dirStream, reader, workspace, parse_in, parsed_data, curr_buf, delivered, ends>>
        /\ pc' = pc /\ failed' = failed
    BY <1>9 DEF vars, caller
  <2>2. UNCHANGED opened
    BY <2>1 DEF dirStream, opened
  <2>3. DirFixed'
    BY <1>1, <2>2, SameDir
  <2>4. Fresh => Fresh'
    BY <2>1 DEF Fresh, dirStream, reader
  <2>5. ASSUME DirInv, ParserInv PROVE DirInv' /\ ParserInv'
    BY <1>1, <2>1, <2>5, CallerKeeps
  <2>6. LinesOnceInOrder => LinesOnceInOrder'
    BY <2>1, <2>2, LinesKept
  <2> QED
    BY <2>1, <2>3, <2>4, <2>5, <2>6 DEF Inv, Live
<1>10. CallRead \/ PopEnd \/ PopParsed \/ NothingLeft \/ Deliver => Live
  BY DEF CallRead, PopEnd, PopParsed, NothingLeft, Deliver, InCall, Live
<1> QED
  BY <1>2, <1>3, <1>5, <1>6, <1>7, <1>8, <1>9, <1>10 DEF Next, CallStep

\* The invariant holds of the parser and its stream for any directory and sizes.
THEOREM TextInvariant == Spec => []Inv
<1>1. Init => Inv
  BY InitInv
<1>2. Inv /\ [Next]_vars => Inv'
  BY StepInv
<1> QED
  BY <1>1, <1>2, PTL DEF Spec

\* ReadBlock and Read hand out the lines that fall to the reader and parse, each
\* once, whole, in the order of its file, and by the end mark all of them, for
\* any directory, readers, workers, workspaces and sizes of blocks.
THEOREM LinesCorrect == Spec => []LinesOnceInOrder
<1>1. Inv => LinesOnceInOrder
  BY InvLines
<1> QED
  BY <1>1, TextInvariant, PTL

\* Open shares the lines of any directory out, each to one range of one reader,
\* whatever the number of readers and the size of the blocks.
THEOREM SplitCorrect == Spec => []EachLineOneReader
<1>1. Inv => EachLineOneReader
  BY LinesShared DEF Inv
<1> QED
  BY <1>1, TextInvariant, PTL
=============================================================================
