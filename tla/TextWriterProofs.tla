--------------------------- MODULE TextWriterProofs ---------------------------
(***************************************************************************)
(* Proofs about TextWriter for any number of workspaces, size of chunks,   *)
(* length of arrays and number of calls: that a workspace is in one place, *)
(* and that the file holds the lines in order.                             *)
(***************************************************************************)
EXTENDS TextWriter, FiniteSetTheorems, SequenceTheorems, WellFoundedInduction, TLAPS

Entry == [part : Parts, line : Nat, finished : BOOLEAN]
Lines == Nat \X Nat
Space == [off : Nat, size : Nat, buf : Seq(Lines)]

Typed ==
  /\ textify \in Seq(Entry) /\ file_write \in Seq(Entry) /\ free_spaces \in Seq(Parts)
  /\ workspace \in [Parts -> Space]
  /\ curr_ptrs \in Nat /\ n \in Nat /\ i \in Nat /\ hand \in Parts \cup {NoPart}
  /\ pc \in {"idle", "chunks", "textify", "file", "gone"}
  /\ file \in Seq(Lines)

(***************************************************************************)
(* The places a workspace number may be in.                                *)
(***************************************************************************)
InHand == IF hand = NoPart THEN 0 ELSE 1

\* As many numbers as workspaces, and every workspace's among them.
AllPlaced ==
  /\ InHand + Len(free_spaces) + Len(textify) + Len(file_write) = NWriters
  /\ \A b \in Parts : \/ hand = b
                      \/ \E k \in 1 .. Len(free_spaces) : free_spaces[k] = b
                      \/ \E k \in 1 .. Len(textify) : textify[k].part = b
                      \/ \E k \in 1 .. Len(file_write) : file_write[k].part = b

\* No number twice.
Apart ==
  /\ \A k \in 1 .. Len(free_spaces) : hand # free_spaces[k]
  /\ \A k \in 1 .. Len(textify) : hand # textify[k].part
  /\ \A k \in 1 .. Len(file_write) : hand # file_write[k].part
  /\ \A j, k \in 1 .. Len(free_spaces) : free_spaces[j] = free_spaces[k] => j = k
  /\ \A j, k \in 1 .. Len(textify) : textify[j].part = textify[k].part => j = k
  /\ \A j, k \in 1 .. Len(file_write) : file_write[j].part = file_write[k].part => j = k
  /\ \A j \in 1 .. Len(free_spaces), k \in 1 .. Len(textify) : free_spaces[j] # textify[k].part
  /\ \A j \in 1 .. Len(free_spaces), k \in 1 .. Len(file_write) :
       free_spaces[j] # file_write[k].part
  /\ \A j \in 1 .. Len(textify), k \in 1 .. Len(file_write) :
       textify[j].part # file_write[k].part

(***************************************************************************)
(* The lines on their way.  A chunk is followed by the next one, or by     *)
(* what Write has not cut off yet.                                         *)
(***************************************************************************)
Off(e) == workspace[e.part].off
End(e) == workspace[e.part].off + workspace[e.part].size

Cut == IF i < n THEN i ELSE n
TextStart == IF Len(textify) > 0 THEN Off(textify[1]) ELSE Cut
Written ==
  IF Len(file_write) > 0
  THEN IF file_write[1].line = 0 THEN Off(file_write[1]) ELSE End(file_write[1])
  ELSE TextStart

Adjacent ==
  /\ hand # NoPart => i < n /\ workspace[hand].off = i
                       /\ workspace[hand].size = IF ChunkSize < n - i THEN ChunkSize ELSE n - i
  /\ \A k \in 1 .. Len(textify) :
       End(textify[k]) = IF k < Len(textify) THEN Off(textify[k + 1]) ELSE Cut
  /\ \A k \in 1 .. Len(file_write) :
       End(file_write[k]) = IF k < Len(file_write) THEN Off(file_write[k + 1]) ELSE TextStart

\* How far the text of the chunk in a workspace is.
Holds(w, c, m) == Len(w.buf) = m /\ \A j \in 1 .. m : w.buf[j] = <<c, w.off + (j - 1)>>

Texts ==
  /\ hand # NoPart => Holds(workspace[hand], curr_ptrs, 0)
  /\ \A k \in 1 .. Len(free_spaces) : Holds(workspace[free_spaces[k]], curr_ptrs, 0)
  /\ \A k \in 1 .. Len(textify) :
       LET e == textify[k] w == workspace[e.part] IN
       /\ Holds(w, curr_ptrs, e.line) /\ e.line <= w.size
       /\ e.finished => e.line = w.size
  /\ \A k \in 1 .. Len(file_write) :
       LET e == file_write[k] w == workspace[e.part] IN
       /\ ~e.finished /\ e.line \in {0, 1} /\ (k > 1 => e.line = 0)
       /\ Holds(w, curr_ptrs, IF e.line = 0 THEN w.size ELSE 0)

\* Where the caller is.
CallerAt ==
  /\ pc # "chunks" => hand = NoPart /\ i >= n
  /\ pc \in {"idle", "file", "gone"} => textify = <<>>
  /\ pc \in {"idle", "gone"} => file_write = <<>>

\* What the file ends with.
FileSoFar ==
  /\ \A k \in 1 .. Len(file) :
       \/ k > 1 /\ file[k] = <<file[k - 1][1], file[k - 1][2] + 1>>
       \/ file[k][2] = 0 /\ (k > 1 => file[k - 1][1] < file[k][1])
  /\ Written > 0 => Len(file) > 0 /\ file[Len(file)] = <<curr_ptrs, Written - 1>>
  /\ Written = 0 /\ Len(file) > 0 => file[Len(file)][1] < curr_ptrs

Inv == Typed /\ AllPlaced /\ Apart /\ Adjacent /\ Texts /\ CallerAt /\ FileSoFar

(***************************************************************************)
(* Sequences and stages.                                                   *)
(***************************************************************************)
LEMMA Least ==
  ASSUME NEW T \in SUBSET Nat, T # {}
  PROVE  \E x \in T : \A y \in T : x <= y
<1> DEFINE Less == {ss \in Nat \X Nat : ss[1] < ss[2]}
<1>1. IsWellFoundedOn(Less, Nat)
  BY NatLessThanWellFounded DEF OpToRel
<1>2. PICK x \in T : \A y \in T : <<y, x>> \notin Less
  BY <1>1, WFMin
<1>3. \A y \in T : ~(y < x)
  BY <1>2
<1> QED
  BY <1>3

LEMMA PartFacts == NWriters \in Nat /\ NWriters > 0 /\ ChunkSize \in Nat /\ ChunkSize > 0
                   /\ Parts \subseteq Nat /\ NoPart \notin Parts
BY WriterAssumption DEF Parts, NoPart

LEMMA Lengths ==
  ASSUME Typed
  PROVE  /\ Len(textify) \in Nat /\ Len(file_write) \in Nat /\ Len(free_spaces) \in Nat
         /\ Len(file) \in Nat
         /\ \A j \in 1 .. Len(textify) : textify[j] \in Entry
         /\ \A j \in 1 .. Len(file_write) : file_write[j] \in Entry
         /\ \A j \in 1 .. Len(free_spaces) : free_spaces[j] \in Parts
         /\ \A j \in 1 .. Len(file) : file[j] \in Lines
<1>1. Len(textify) \in Nat /\ Len(file_write) \in Nat /\ Len(free_spaces) \in Nat /\ Len(file) \in Nat
  BY LenProperties DEF Typed
<1>2. \A j \in 1 .. Len(textify) : textify[j] \in Entry
  BY ElementOfSeq DEF Typed
<1>3. \A j \in 1 .. Len(file_write) : file_write[j] \in Entry
  BY ElementOfSeq DEF Typed
<1>4. \A j \in 1 .. Len(free_spaces) : free_spaces[j] \in Parts
  BY ElementOfSeq DEF Typed
<1>5. \A j \in 1 .. Len(file) : file[j] \in Lines
  BY ElementOfSeq DEF Typed
<1> QED
  BY <1>1, <1>2, <1>3, <1>4, <1>5

\* What a stage retires are the finished entries before the first unfinished one.
LEMMA RetirableExists ==
  ASSUME NEW stage \in Seq(Entry)
  PROVE  /\ Retirable(stage) \in 0 .. Len(stage)
         /\ \A j \in 1 .. Retirable(stage) : stage[j].finished
         /\ Retirable(stage) < Len(stage) => ~stage[Retirable(stage) + 1].finished
<1> DEFINE P(m) == /\ \A j \in 1 .. m : stage[j].finished
                   /\ m < Len(stage) => ~stage[m + 1].finished
           Unfinished == {j \in 1 .. Len(stage) : ~stage[j].finished}
<1>1. Len(stage) \in Nat
  BY LenProperties
<1>2. \E m \in 0 .. Len(stage) : P(m)
  <2>1. CASE Unfinished = {}
    <3>1. P(Len(stage))
      BY <1>1, <2>1
    <3> QED
      BY <1>1, <3>1
  <2>2. CASE Unfinished # {}
    <3>1. Unfinished \in SUBSET Nat
      BY <1>1
    <3>2. PICK x \in Unfinished : \A y \in Unfinished : x <= y
      BY <2>2, <3>1, Least
    <3>3. x \in 1 .. Len(stage) /\ ~stage[x].finished
      BY <3>2
    <3>4. ASSUME NEW j \in 1 .. x - 1 PROVE stage[j].finished
      <4>1. j \in 1 .. Len(stage) /\ ~(x <= j)
        BY <1>1, <3>3
      <4> QED
        BY <3>2, <4>1
    <3>5. x - 1 \in 0 .. Len(stage) /\ (x - 1) + 1 = x
      BY <1>1, <3>3
    <3>6. P(x - 1)
      BY <3>3, <3>4, <3>5
    <3> QED
      BY <3>5, <3>6
  <2> QED
    BY <2>1, <2>2
<1>3. Retirable(stage) = CHOOSE m \in 0 .. Len(stage) : P(m)
  BY DEF Retirable
<1> HIDE DEF P
<1>4. Retirable(stage) \in 0 .. Len(stage) /\ P(Retirable(stage))
  BY <1>2, <1>3
<1> QED
  BY <1>4 DEF P

LEMMA Retiring ==
  ASSUME NEW stage \in Seq(Entry)
  PROVE  /\ Rest(stage) \in Seq(Entry) /\ Len(Rest(stage)) = Len(stage) - Retirable(stage)
         /\ \A j \in 1 .. Len(stage) - Retirable(stage) : Rest(stage)[j] = stage[Retirable(stage) + j]
         /\ Retired(stage) \in Seq(Parts) /\ Len(Retired(stage)) = Retirable(stage)
         /\ DOMAIN Retired(stage) = 1 .. Retirable(stage)
         /\ \A j \in 1 .. Retirable(stage) : Retired(stage)[j] = stage[j].part
<1> DEFINE r == Retirable(stage)
<1>1. Len(stage) \in Nat /\ r \in 0 .. Len(stage) /\ \A j \in 1 .. Len(stage) : stage[j] \in Entry
  BY LenProperties, ElementOfSeq, RetirableExists
<1> HIDE DEF r
<1>2. \A j \in r + 1 .. Len(stage) : stage[j] \in Entry
  BY <1>1
<1>3. r + 1 \in Int /\ Len(stage) \in Int
  BY <1>1
<1>4. /\ SubSeq(stage, r + 1, Len(stage)) \in Seq(Entry)
      /\ Len(SubSeq(stage, r + 1, Len(stage))) =
           IF r + 1 <= Len(stage) THEN Len(stage) - (r + 1) + 1 ELSE 0
      /\ \A j \in 1 .. Len(stage) - (r + 1) + 1 :
           SubSeq(stage, r + 1, Len(stage))[j] = stage[(r + 1) + j - 1]
  BY <1>2, <1>3, SubSeqProperties
<1>5. Rest(stage) = SubSeq(stage, r + 1, Len(stage))
  BY DEF Rest, r
<1>6. Len(stage) - (r + 1) + 1 = Len(stage) - r
  BY <1>1
<1>7. \A j \in 1 .. Len(stage) - r : Rest(stage)[j] = stage[r + j]
  <2> SUFFICES ASSUME NEW j \in 1 .. Len(stage) - r PROVE Rest(stage)[j] = stage[r + j]
    OBVIOUS
  <2>1. (r + 1) + j - 1 = r + j
    BY <1>1
  <2> QED
    BY <1>4, <1>5, <1>6, <2>1
<1>8. Len(Rest(stage)) = Len(stage) - r
  BY <1>1, <1>4, <1>5
<1>9. Retired(stage) = [j \in 1 .. r |-> stage[j].part]
  BY DEF Retired, r
<1>10. r \in Nat /\ \A j \in 1 .. r : stage[j].part \in Parts
  BY <1>1 DEF Entry
<1>11. /\ [j \in 1 .. r |-> stage[j].part] \in Seq(Parts)
       /\ Len([j \in 1 .. r |-> stage[j].part]) = r
  BY <1>10
<1> QED
  BY <1>4, <1>5, <1>7, <1>8, <1>9, <1>11 DEF r

(***************************************************************************)
(* What the steps change, entry by entry.                                  *)
(***************************************************************************)
LEMMA LineAdvanced ==
  ASSUME NEW e \in Entry
  PROVE  LET d == [e EXCEPT !.line = @ + 1] IN
         /\ d \in Entry /\ d.part = e.part /\ d.line = e.line + 1
         /\ ~e.finished => ~d.finished
BY DEF Entry

LEMMA EntryFinished ==
  ASSUME NEW e \in Entry
  PROVE  LET d == [e EXCEPT !.finished = TRUE] IN
         d \in Entry /\ d.part = e.part /\ d.line = e.line /\ d.finished
BY DEF Entry

LEMMA EntryWritten ==
  ASSUME NEW e \in Entry, NEW m \in Nat
  PROVE  LET d == [e EXCEPT !.line = m] IN
         /\ d \in Entry /\ d.part = e.part /\ d.line = m
         /\ ~e.finished => ~d.finished
BY DEF Entry

LEMMA PopSpaceEffect ==
  ASSUME Typed, PopSpace
  PROVE  /\ hand = NoPart /\ i < n /\ Len(free_spaces) > 0 /\ hand' = free_spaces[1] /\ hand' \in Parts
         /\ free_spaces' \in Seq(Parts) /\ Len(free_spaces') = Len(free_spaces) - 1
         /\ \A j \in 1 .. Len(free_spaces) - 1 : free_spaces'[j] = free_spaces[j + 1]
         /\ workspace' \in [Parts -> Space]
         /\ \A b \in Parts : b # hand' => workspace'[b] = workspace[b]
         /\ workspace'[hand'] =
              [off |-> i, size |-> IF ChunkSize < n - i THEN ChunkSize ELSE n - i,
               buf |-> workspace[hand'].buf]
<1>1. hand = NoPart /\ i < n /\ free_spaces # <<>> /\ free_spaces \in Seq(Parts)
  BY DEF Typed, PopSpace
<1>2. hand' = free_spaces[1] /\ free_spaces' = Tail(free_spaces)
  BY <1>1 DEF PopSpace, Popped
<1>3. Len(free_spaces) \in Nat /\ Len(free_spaces) > 0
  BY <1>1, EmptySeq, LenProperties
<1>4. hand' \in Parts
  BY <1>1, <1>2, <1>3, ElementOfSeq
<1>5. /\ free_spaces' \in Seq(Parts) /\ Len(free_spaces') = Len(free_spaces) - 1
      /\ \A j \in 1 .. Len(free_spaces) - 1 : free_spaces'[j] = free_spaces[j + 1]
  BY <1>1, <1>2, HeadTailProperties
<1>6. /\ workspace' = [workspace EXCEPT ![hand'].off = i,
                     ![hand'].size = IF ChunkSize < n - i THEN ChunkSize ELSE n - i]
      /\ workspace \in [Parts -> Space] /\ i \in Nat /\ n \in Nat
  BY DEF PopSpace, Typed
<1>7. workspace'[hand'] =
        [off |-> i, size |-> IF ChunkSize < n - i THEN ChunkSize ELSE n - i,
         buf |-> workspace[hand'].buf]
  BY <1>4, <1>6 DEF Space
<1>8. (IF ChunkSize < n - i THEN ChunkSize ELSE n - i) \in Nat
  BY <1>1, <1>6, PartFacts
<1>9. workspace'[hand'] \in Space
  BY <1>4, <1>6, <1>7, <1>8 DEF Space
<1>10. workspace' \in [Parts -> Space] /\ \A b \in Parts : b # hand' => workspace'[b] = workspace[b]
  BY <1>4, <1>6, <1>9
<1> QED
  BY <1>1, <1>2, <1>3, <1>4, <1>5, <1>7, <1>10

LEMMA PushPartEffect ==
  ASSUME Typed, PushPart
  PROVE  /\ hand \in Parts /\ hand' = NoPart /\ i' = i + ChunkSize
         /\ textify' \in Seq(Entry) /\ Len(textify') = Len(textify) + 1
         /\ \A j \in 1 .. Len(textify) : textify'[j] = textify[j]
         /\ textify'[Len(textify) + 1] = [part |-> hand, line |-> 0, finished |-> FALSE]
<1>1. hand \in Parts /\ hand' = NoPart /\ i' = i + ChunkSize /\ textify \in Seq(Entry)
  BY DEF Typed, PushPart
<1>2. textify' = Append(textify, [part |-> hand, line |-> 0, finished |-> FALSE])
  BY DEF PushPart, NewEntry
<1>3. [part |-> hand, line |-> 0, finished |-> FALSE] \in Entry
  BY <1>1 DEF Entry
<1> QED
  BY <1>1, <1>2, <1>3, AppendProperties

LEMMA PartToTextEffect ==
  ASSUME Typed, NEW k \in 1 .. Len(textify), PartToText(k)
  PROVE  /\ ~textify[k].finished /\ textify[k].line < workspace[textify[k].part].size
         /\ textify' \in Seq(Entry) /\ Len(textify') = Len(textify)
         /\ \A j \in 1 .. Len(textify) : j # k => textify'[j] = textify[j]
         /\ textify'[k].part = textify[k].part /\ textify'[k].line = textify[k].line + 1
         /\ ~textify'[k].finished
         /\ workspace' \in [Parts -> Space]
         /\ \A b \in Parts : b # textify[k].part => workspace'[b] = workspace[b]
         /\ workspace'[textify[k].part].off = workspace[textify[k].part].off
         /\ workspace'[textify[k].part].size = workspace[textify[k].part].size
         /\ workspace'[textify[k].part].buf =
              Append(workspace[textify[k].part].buf,
                     <<curr_ptrs, workspace[textify[k].part].off + textify[k].line>>)
<1> DEFINE b == textify[k].part
           next == [textify[k] EXCEPT !.line = @ + 1]
           line == <<curr_ptrs, workspace[b].off + textify[k].line>>
<1>1. textify \in Seq(Entry) /\ textify[k] \in Entry /\ workspace \in [Parts -> Space] /\ curr_ptrs \in Nat
  BY Lengths DEF Typed
<1>2. ~textify[k].finished /\ textify[k].line < workspace[b].size
  BY DEF PartToText
<1>3. /\ workspace' = [workspace EXCEPT ![b].buf = Append(@, line)]
      /\ textify' = [textify EXCEPT ![k].line = @ + 1]
  BY DEF PartToText
<1>4. b \in Parts /\ workspace[b] \in Space
  BY <1>1 DEF Entry
<1>5. textify' = [textify EXCEPT ![k] = next]
  <2>1. textify \in [1 .. Len(textify) -> Entry]
    BY <1>1, LenProperties
  <2> QED
    BY <1>3, <2>1
<1>6. next \in Entry /\ next.part = b /\ next.line = textify[k].line + 1 /\ ~next.finished
  BY <1>1, <1>2, LineAdvanced
<1> HIDE DEF next
<1>7. /\ textify' \in Seq(Entry) /\ Len(textify') = Len(textify)
      /\ \A j \in 1 .. Len(textify) : textify'[j] = IF j = k THEN next ELSE textify[j]
  BY <1>1, <1>5, <1>6, ExceptSeq
<1>8. line \in Lines /\ workspace[b].buf \in Seq(Lines)
  <2>1. workspace[b].off \in Nat /\ textify[k].line \in Nat /\ workspace[b].buf \in Seq(Lines)
    BY <1>1, <1>4 DEF Space, Entry
  <2> QED
    BY <1>1, <2>1 DEF Lines
<1> HIDE DEF line
<1>9. Append(workspace[b].buf, line) \in Seq(Lines)
  BY <1>8, AppendProperties
<1>10. workspace'[b] = [off |-> workspace[b].off, size |-> workspace[b].size,
                        buf |-> Append(workspace[b].buf, line)]
  BY <1>1, <1>3, <1>4 DEF Space
<1>11. workspace'[b] \in Space
  BY <1>4, <1>9, <1>10 DEF Space
<1>12. workspace' \in [Parts -> Space] /\ \A c \in Parts : c # b => workspace'[c] = workspace[c]
  BY <1>1, <1>3, <1>4, <1>11
<1>13. /\ workspace'[b].off = workspace[b].off /\ workspace'[b].size = workspace[b].size
       /\ workspace'[b].buf = Append(workspace[b].buf, line)
  BY <1>10
<1> QED
  BY <1>2, <1>6, <1>7, <1>12, <1>13 DEF line

LEMMA FinishTextEffect ==
  ASSUME Typed, NEW k \in 1 .. Len(textify), FinishText(k)
  PROVE  \E r \in 0 .. Len(textify) :
           /\ textify[k].line >= workspace[textify[k].part].size
           /\ \A j \in 1 .. r : textify[j].finished \/ j = k
           /\ textify' \in Seq(Entry) /\ Len(textify') = Len(textify) - r
           /\ \A j \in 1 .. Len(textify) - r :
                /\ textify'[j].part = textify[r + j].part /\ textify'[j].line = textify[r + j].line
                /\ textify'[j].finished => textify[r + j].finished \/ r + j = k
           /\ file_write' \in Seq(Entry) /\ Len(file_write') = Len(file_write) + r
           /\ \A j \in 1 .. Len(file_write) : file_write'[j] = file_write[j]
           /\ \A j \in 1 .. r : file_write'[Len(file_write) + j] =
                                  [part |-> textify[j].part, line |-> 0, finished |-> FALSE]
<1> DEFINE done == [textify[k] EXCEPT !.finished = TRUE]
           stage == [textify EXCEPT ![k] = done]
           out == Retired(stage)
           new == [j \in DOMAIN out |-> [part |-> out[j], line |-> 0, finished |-> FALSE]]
           r == Retirable(stage)
<1>1. textify \in Seq(Entry) /\ file_write \in Seq(Entry) /\ textify[k] \in Entry /\ Len(textify) \in Nat
      /\ Len(file_write) \in Nat
  BY Lengths DEF Typed
<1>2. [textify EXCEPT ![k].finished = TRUE] = stage
  <2>1. textify \in [1 .. Len(textify) -> Entry]
    BY <1>1, LenProperties
  <2> QED
    BY <2>1
<1>3. /\ textify[k].line >= workspace[textify[k].part].size
      /\ textify' = Rest(stage) /\ file_write' = file_write \o new
  BY <1>2 DEF FinishText, NewEntry
<1>4. done \in Entry /\ done.part = textify[k].part /\ done.line = textify[k].line
  BY <1>1, EntryFinished
<1> HIDE DEF done
<1>5. /\ stage \in Seq(Entry) /\ Len(stage) = Len(textify)
      /\ \A j \in 1 .. Len(textify) : stage[j] = IF j = k THEN done ELSE textify[j]
  BY <1>1, <1>4, ExceptSeq
<1> HIDE DEF stage
<1>6. /\ r \in 0 .. Len(textify) /\ \A j \in 1 .. r : stage[j].finished
      /\ textify' \in Seq(Entry) /\ Len(textify') = Len(textify) - r
      /\ \A j \in 1 .. Len(textify) - r : textify'[j] = stage[r + j]
      /\ out \in Seq(Parts) /\ DOMAIN out = 1 .. r
      /\ \A j \in 1 .. r : out[j] = stage[j].part
  BY <1>3, <1>5, RetirableExists, Retiring
<1> HIDE DEF out, r
<1>7. \A j \in 1 .. Len(textify) : /\ stage[j].part = textify[j].part /\ stage[j].line = textify[j].line
                                   /\ stage[j].finished => textify[j].finished \/ j = k
  BY <1>1, <1>4, <1>5
<1>8. \A j \in 1 .. r : out[j] = textify[j].part /\ out[j] \in Parts
  <2> SUFFICES ASSUME NEW j \in 1 .. r PROVE out[j] = textify[j].part /\ out[j] \in Parts
    OBVIOUS
  <2>1. j \in 1 .. Len(textify)
    BY <1>1, <1>6
  <2>2. textify[j] \in Entry
    BY <1>1, <2>1, ElementOfSeq
  <2> QED
    BY <1>6, <1>7, <2>1, <2>2 DEF Entry
<1>9. new = [j \in 1 .. r |-> [part |-> textify[j].part, line |-> 0, finished |-> FALSE]]
  BY <1>6, <1>8
<1>10. r \in Nat /\ \A j \in 1 .. r : [part |-> textify[j].part, line |-> 0, finished |-> FALSE] \in Entry
  BY <1>1, <1>6, <1>8 DEF Entry
<1> HIDE DEF new
<1>11. new \in Seq(Entry) /\ Len(new) = r
       /\ \A j \in 1 .. r : new[j] = [part |-> textify[j].part, line |-> 0, finished |-> FALSE]
  <2>1. new \in [1 .. r -> Entry]
    BY <1>9, <1>10
  <2>2. new \in Seq(Entry) /\ Len(new) = r
    BY <1>10, <2>1
  <2> QED
    BY <1>9, <2>2
<1>12. /\ file_write' \in Seq(Entry) /\ Len(file_write') = Len(file_write) + r
       /\ \A j \in 1 .. Len(file_write) + r :
            file_write'[j] = IF j <= Len(file_write) THEN file_write[j] ELSE new[j - Len(file_write)]
  BY <1>1, <1>3, <1>11, ConcatProperties
<1>13. \A j \in 1 .. Len(file_write) : file_write'[j] = file_write[j]
  BY <1>1, <1>10, <1>12
<1>14. \A j \in 1 .. r : file_write'[Len(file_write) + j] =
                           [part |-> textify[j].part, line |-> 0, finished |-> FALSE]
  <2> SUFFICES ASSUME NEW j \in 1 .. r
               PROVE  file_write'[Len(file_write) + j] =
                        [part |-> textify[j].part, line |-> 0, finished |-> FALSE]
    OBVIOUS
  <2>1. /\ Len(file_write) + j \in 1 .. Len(file_write) + r
        /\ ~(Len(file_write) + j <= Len(file_write)) /\ (Len(file_write) + j) - Len(file_write) = j
    BY <1>1, <1>10
  <2>2. file_write'[Len(file_write) + j] = new[j]
    BY <1>12, <2>1
  <2> QED
    BY <1>11, <2>2
<1>15. \A j \in 1 .. r : textify[j].finished \/ j = k
  <2>1. \A j \in 1 .. r : j \in 1 .. Len(textify)
    BY <1>1, <1>6
  <2> QED
    BY <1>6, <1>7, <2>1
<1>16. \A j \in 1 .. Len(textify) - r :
         /\ textify'[j].part = textify[r + j].part /\ textify'[j].line = textify[r + j].line
         /\ textify'[j].finished => textify[r + j].finished \/ r + j = k
  <2> SUFFICES ASSUME NEW j \in 1 .. Len(textify) - r
               PROVE  /\ textify'[j].part = textify[r + j].part /\ textify'[j].line = textify[r + j].line
                      /\ textify'[j].finished => textify[r + j].finished \/ r + j = k
    OBVIOUS
  <2>1. r + j \in 1 .. Len(textify) /\ textify'[j] = stage[r + j]
    BY <1>1, <1>6
  <2> QED
    BY <1>7, <2>1
<1> QED
  BY <1>3, <1>6, <1>12, <1>13, <1>14, <1>15, <1>16

LEMMA WriteToFileEffect ==
  ASSUME Typed, WriteToFile
  PROVE  /\ Len(file_write) > 0 /\ file_write[1].line = 0 /\ file_write[1].part \in Parts
         /\ file_write' \in Seq(Entry) /\ Len(file_write') = Len(file_write)
         /\ \A j \in 1 .. Len(file_write) : j # 1 => file_write'[j] = file_write[j]
         /\ file_write'[1].part = file_write[1].part /\ file_write'[1].line = 1
         /\ ~file_write[1].finished => ~file_write'[1].finished
         /\ workspace' \in [Parts -> Space]
         /\ \A b \in Parts : b # file_write[1].part => workspace'[b] = workspace[b]
         /\ workspace'[file_write[1].part].off = workspace[file_write[1].part].off
         /\ workspace'[file_write[1].part].size = workspace[file_write[1].part].size
         /\ Len(workspace'[file_write[1].part].buf) = 0
         /\ file' \in Seq(Lines)
         /\ Len(workspace[file_write[1].part].buf) \in Nat
         /\ Len(file') = Len(file) + Len(workspace[file_write[1].part].buf)
         /\ \A j \in 1 .. Len(file) : file'[j] = file[j]
         /\ \A j \in 1 .. Len(workspace[file_write[1].part].buf) :
              file'[Len(file) + j] = workspace[file_write[1].part].buf[j]
<1> DEFINE b == file_write[1].part
           next == [file_write[1] EXCEPT !.line = 1]
           text == workspace[b].buf
<1>1. /\ file_write \in Seq(Entry) /\ Len(file_write) \in Nat /\ workspace \in [Parts -> Space]
      /\ file \in Seq(Lines) /\ Len(file) \in Nat
  BY Lengths DEF Typed
<1>2. /\ file_write # <<>> /\ file_write[1].line = 0 /\ file' = file \o text
      /\ workspace' = [workspace EXCEPT ![b].buf = <<>>]
      /\ file_write' = [file_write EXCEPT ![1].line = 1]
  BY DEF WriteToFile
<1>3. Len(file_write) > 0 /\ 1 \in 1 .. Len(file_write)
  BY <1>1, <1>2, EmptySeq
<1>4. file_write[1] \in Entry
  BY <1>1, <1>3, ElementOfSeq
<1>5. b \in Parts /\ workspace[b] \in Space
  BY <1>1, <1>4 DEF Entry
<1>6. next \in Entry /\ next.part = b /\ next.line = 1 /\ (~file_write[1].finished => ~next.finished)
  BY <1>4, EntryWritten
<1>7. file_write' = [file_write EXCEPT ![1] = next]
  <2>1. file_write \in [1 .. Len(file_write) -> Entry]
    BY <1>1, LenProperties
  <2> QED
    BY <1>2, <2>1
<1> HIDE DEF next
<1>8. /\ file_write' \in Seq(Entry) /\ Len(file_write') = Len(file_write)
      /\ \A j \in 1 .. Len(file_write) : file_write'[j] = IF j = 1 THEN next ELSE file_write[j]
  BY <1>1, <1>3, <1>6, <1>7, ExceptSeq
<1>9. <<>> \in Seq(Lines) /\ Len(<<>>) = 0
  OBVIOUS
<1>10. workspace'[b] = [off |-> workspace[b].off, size |-> workspace[b].size, buf |-> <<>>]
  BY <1>1, <1>2, <1>5 DEF Space
<1>11. workspace'[b] \in Space
  BY <1>5, <1>9, <1>10 DEF Space
<1>12. workspace' \in [Parts -> Space] /\ \A c \in Parts : c # b => workspace'[c] = workspace[c]
  BY <1>1, <1>2, <1>5, <1>11
<1>13. /\ workspace'[b].off = workspace[b].off /\ workspace'[b].size = workspace[b].size
       /\ Len(workspace'[b].buf) = 0
  BY <1>9, <1>10
<1>14. text \in Seq(Lines) /\ Len(text) \in Nat
  <2>1. text \in Seq(Lines)
    BY <1>5 DEF Space
  <2> QED
    BY <2>1, LenProperties
<1> HIDE DEF text
<1>15. /\ file' \in Seq(Lines) /\ Len(file') = Len(file) + Len(text)
       /\ \A j \in 1 .. Len(file) + Len(text) :
            file'[j] = IF j <= Len(file) THEN file[j] ELSE text[j - Len(file)]
  BY <1>1, <1>2, <1>14, ConcatProperties
<1>16. \A j \in 1 .. Len(file) : file'[j] = file[j]
  BY <1>1, <1>14, <1>15
<1>17. \A j \in 1 .. Len(text) : file'[Len(file) + j] = text[j]
  <2> SUFFICES ASSUME NEW j \in 1 .. Len(text) PROVE file'[Len(file) + j] = text[j]
    OBVIOUS
  <2>1. /\ Len(file) + j \in 1 .. Len(file) + Len(text) /\ ~(Len(file) + j <= Len(file))
        /\ (Len(file) + j) - Len(file) = j
    BY <1>1, <1>14
  <2> QED
    BY <1>15, <2>1
<1>18. /\ file_write'[1] = next /\ \A j \in 1 .. Len(file_write) : j # 1 => file_write'[j] = file_write[j]
  BY <1>3, <1>8
<1> QED
  BY <1>2, <1>3, <1>5, <1>6, <1>8, <1>12, <1>13, <1>14, <1>15, <1>16, <1>17, <1>18 DEF text

LEMMA FinishWriteEffect ==
  ASSUME Typed, \A j \in 1 .. Len(file_write) : ~file_write[j].finished, FinishWrite
  PROVE  /\ Len(file_write) > 0 /\ file_write[1].line = 1 /\ file_write[1].part \in Parts
         /\ file_write' \in Seq(Entry) /\ Len(file_write') = Len(file_write) - 1
         /\ \A j \in 1 .. Len(file_write) - 1 :
              /\ file_write'[j].part = file_write[j + 1].part
              /\ file_write'[j].line = file_write[j + 1].line /\ ~file_write'[j].finished
         /\ free_spaces' \in Seq(Parts) /\ Len(free_spaces') = Len(free_spaces) + 1
         /\ \A j \in 1 .. Len(free_spaces) : free_spaces'[j] = free_spaces[j]
         /\ free_spaces'[Len(free_spaces) + 1] = file_write[1].part
<1> DEFINE done == [file_write[1] EXCEPT !.finished = TRUE]
           stage == [file_write EXCEPT ![1] = done]
           r == Retirable(stage)
           out == Retired(stage)
<1>1. /\ file_write \in Seq(Entry) /\ Len(file_write) \in Nat
      /\ free_spaces \in Seq(Parts) /\ Len(free_spaces) \in Nat
  BY Lengths DEF Typed
<1>2. file_write # <<>> /\ file_write[1].line = 1
  BY DEF FinishWrite
<1>3. Len(file_write) > 0 /\ 1 \in 1 .. Len(file_write)
  BY <1>1, <1>2, EmptySeq
<1>4. file_write[1] \in Entry /\ file_write[1].part \in Parts
  <2>1. file_write[1] \in Entry
    BY <1>1, <1>3, ElementOfSeq
  <2> QED
    BY <2>1 DEF Entry
<1>5. done \in Entry /\ done.part = file_write[1].part /\ done.finished
  BY <1>4, EntryFinished
<1>6. [file_write EXCEPT ![1].finished = TRUE] = stage
  <2>1. file_write \in [1 .. Len(file_write) -> Entry]
    BY <1>1, LenProperties
  <2> QED
    BY <2>1
<1>7. file_write' = Rest(stage) /\ free_spaces' = free_spaces \o out
  BY <1>6 DEF FinishWrite, Freed
<1> HIDE DEF done
<1>8. /\ stage \in Seq(Entry) /\ Len(stage) = Len(file_write)
      /\ \A j \in 1 .. Len(file_write) : stage[j] = IF j = 1 THEN done ELSE file_write[j]
  BY <1>1, <1>3, <1>5, ExceptSeq
<1> HIDE DEF stage
<1>9. /\ r \in 0 .. Len(file_write) /\ \A j \in 1 .. r : stage[j].finished
      /\ r < Len(file_write) => ~stage[r + 1].finished
  BY <1>8, RetirableExists
<1>10. /\ stage[1].finished /\ stage[1].part = file_write[1].part
       /\ \A j \in 1 .. Len(file_write) : j # 1 => ~stage[j].finished /\ stage[j] = file_write[j]
  BY <1>3, <1>5, <1>8
<1>11. r = 1
  <2>1. r # 0
    <3>1. CASE r = 0
      <4>1. ~stage[1].finished
        BY <1>3, <1>9, <3>1
      <4> QED
        BY <1>10, <4>1
    <3> QED
      BY <3>1
  <2>2. ~(r > 1)
    <3>1. CASE r > 1
      <4>1. 2 \in 1 .. r /\ 2 \in 1 .. Len(file_write)
        BY <1>1, <1>9, <3>1
      <4> QED
        BY <1>9, <1>10, <4>1
    <3> QED
      BY <3>1
  <2> QED
    BY <1>1, <1>9, <2>1, <2>2
<1>12. /\ file_write' \in Seq(Entry) /\ Len(file_write') = Len(file_write) - 1
       /\ \A j \in 1 .. Len(file_write) - 1 : file_write'[j] = stage[1 + j]
       /\ out \in Seq(Parts) /\ Len(out) = 1 /\ \A j \in 1 .. 1 : out[j] = stage[j].part
  <2>1. /\ Rest(stage) \in Seq(Entry) /\ Len(Rest(stage)) = Len(stage) - r
        /\ \A j \in 1 .. Len(stage) - r : Rest(stage)[j] = stage[r + j]
        /\ out \in Seq(Parts) /\ Len(out) = r
        /\ \A j \in 1 .. r : out[j] = stage[j].part
    BY <1>8, Retiring
  <2> HIDE DEF out, r
  <2> QED
    BY <1>7, <1>8, <1>11, <2>1
<1> HIDE DEF out, r
<1>13. ASSUME NEW j \in 1 .. Len(file_write) - 1
       PROVE  /\ file_write'[j].part = file_write[j + 1].part
              /\ file_write'[j].line = file_write[j + 1].line /\ ~file_write'[j].finished
  <2>1. 1 + j \in 1 .. Len(file_write) /\ 1 + j # 1 /\ 1 + j = j + 1
    BY <1>1
  <2>2. file_write'[j] = file_write[j + 1] /\ ~file_write'[j].finished
    BY <1>10, <1>12, <2>1
  <2> QED
    BY <2>2
<1>14. /\ free_spaces' \in Seq(Parts) /\ Len(free_spaces') = Len(free_spaces) + 1
       /\ \A j \in 1 .. Len(free_spaces) + 1 :
            free_spaces'[j] = IF j <= Len(free_spaces) THEN free_spaces[j] ELSE out[j - Len(free_spaces)]
  <2>1. /\ free_spaces \o out \in Seq(Parts)
        /\ Len(free_spaces \o out) = Len(free_spaces) + Len(out)
        /\ \A j \in 1 .. Len(free_spaces) + Len(out) :
             (free_spaces \o out)[j] =
                IF j <= Len(free_spaces) THEN free_spaces[j] ELSE out[j - Len(free_spaces)]
    BY <1>1, <1>12, ConcatProperties
  <2>2. Len(out) = 1
    BY <1>12
  <2> QED
    BY <1>7, <2>1, <2>2
<1>15. \A j \in 1 .. Len(free_spaces) : free_spaces'[j] = free_spaces[j]
  BY <1>1, <1>14
<1>16. free_spaces'[Len(free_spaces) + 1] = file_write[1].part
  <2>1. /\ Len(free_spaces) + 1 \in 1 .. Len(free_spaces) + 1 /\ ~(Len(free_spaces) + 1 <= Len(free_spaces))
        /\ (Len(free_spaces) + 1) - Len(free_spaces) = 1
    BY <1>1
  <2>2. free_spaces'[Len(free_spaces) + 1] = out[1]
    BY <1>14, <2>1
  <2> QED
    BY <1>10, <1>12, <2>2
<1> QED
  BY <1>2, <1>3, <1>4, <1>12, <1>13, <1>14, <1>15, <1>16

(***************************************************************************)
(* The invariant holds initially, and every step keeps it.                 *)
(***************************************************************************)
LEMMA InvInit == Init => Inv
<1> SUFFICES ASSUME Init PROVE Inv
  OBVIOUS
<1> USE PartFacts
<1>1. /\ free_spaces = [k \in 1 .. NWriters |-> k - 1] /\ \A k \in 1 .. NWriters : k - 1 \in Parts
      /\ Len(textify) = 0 /\ Len(file_write) = 0 /\ Len(file) = 0 /\ hand = NoPart
      /\ textify = <<>> /\ file_write = <<>> /\ file = <<>> /\ n = 0 /\ i = 0 /\ curr_ptrs = 0
      /\ pc = "idle" /\ workspace = [b \in Parts |-> [off |-> 0, size |-> 0, buf |-> <<>>]]
  BY DEF Init, Parts
<1>2. /\ free_spaces \in Seq(Parts) /\ Len(free_spaces) = NWriters
      /\ \A k \in 1 .. NWriters : free_spaces[k] = k - 1
  BY <1>1
<1>3. Typed
  <2>1. <<>> \in Seq(Entry) /\ <<>> \in Seq(Lines)
    OBVIOUS
  <2>2. workspace \in [Parts -> Space]
    BY <1>1, <2>1 DEF Space
  <2> QED
    BY <1>1, <1>2, <2>1, <2>2 DEF Typed
<1>4. AllPlaced
  <2>1. ASSUME NEW b \in Parts PROVE \E k \in 1 .. Len(free_spaces) : free_spaces[k] = b
    <3>1. b + 1 \in 1 .. NWriters /\ (b + 1) - 1 = b
      BY DEF Parts
    <3> QED
      BY <1>2, <3>1
  <2> QED
    BY <1>1, <1>2, <2>1 DEF AllPlaced, InHand
<1>5. Apart
  BY <1>1, <1>2 DEF Apart
<1>6. Cut = 0 /\ TextStart = 0 /\ Written = 0
  BY <1>1 DEF Cut, TextStart, Written
<1>7. Adjacent /\ CallerAt /\ FileSoFar
  BY <1>1, <1>6 DEF Adjacent, CallerAt, FileSoFar
<1>8. Texts
  <2>1. ASSUME NEW b \in Parts PROVE Holds(workspace[b], curr_ptrs, 0)
    BY <1>1 DEF Holds
  <2>2. \A k \in 1 .. Len(free_spaces) : free_spaces[k] \in Parts
    BY <1>1, <1>2
  <2> QED
    BY <1>1, <2>1, <2>2 DEF Texts
<1> QED
  BY <1>3, <1>4, <1>5, <1>7, <1>8 DEF Inv

LEMMA Offsets ==
  ASSUME Typed
  PROVE  /\ \A k \in 1 .. Len(textify) : Off(textify[k]) \in Nat /\ End(textify[k]) \in Nat
         /\ \A k \in 1 .. Len(file_write) : Off(file_write[k]) \in Nat /\ End(file_write[k]) \in Nat
         /\ Cut \in Nat /\ TextStart \in Nat /\ Written \in Nat
<1>1. ASSUME NEW e \in Entry PROVE Off(e) \in Nat /\ End(e) \in Nat
  <2>1. e.part \in Parts
    BY DEF Entry
  <2>2. workspace[e.part] \in Space
    BY <2>1 DEF Typed
  <2> QED
    BY <2>2 DEF Off, End, Space
<1>2. \A k \in 1 .. Len(textify) : Off(textify[k]) \in Nat /\ End(textify[k]) \in Nat
  BY <1>1, Lengths
<1>3. \A k \in 1 .. Len(file_write) : Off(file_write[k]) \in Nat /\ End(file_write[k]) \in Nat
  BY <1>1, Lengths
<1>4. Cut \in Nat
  BY DEF Typed, Cut
<1>5. TextStart \in Nat
  BY <1>2, <1>4, Lengths DEF TextStart
<1>6. Written \in Nat
  BY <1>3, <1>5, Lengths DEF Written
<1> QED
  BY <1>2, <1>3, <1>4, <1>5, <1>6

LEMMA SameFile ==
  ASSUME FileSoFar, UNCHANGED <<file, curr_ptrs>>, Written' = Written
  PROVE  FileSoFar'
BY DEF FileSoFar

\* The steps that leave every number where it is.
LEMMA SamePlaces ==
  ASSUME AllPlaced, Apart, UNCHANGED <<hand, free_spaces>>,
         Len(textify') = Len(textify), Len(file_write') = Len(file_write),
         \A k \in 1 .. Len(textify) : textify'[k].part = textify[k].part,
         \A k \in 1 .. Len(file_write) : file_write'[k].part = file_write[k].part
  PROVE  AllPlaced' /\ Apart'
<1>1. InHand' + Len(free_spaces') + Len(textify') + Len(file_write') = NWriters
  BY DEF AllPlaced, InHand
<1>2. ASSUME NEW b \in Parts
      PROVE  \/ hand' = b
             \/ \E k \in 1 .. Len(free_spaces') : free_spaces'[k] = b
             \/ \E k \in 1 .. Len(textify') : textify'[k].part = b
             \/ \E k \in 1 .. Len(file_write') : file_write'[k].part = b
  <2>1. \/ hand = b
        \/ \E k \in 1 .. Len(free_spaces) : free_spaces[k] = b
        \/ \E k \in 1 .. Len(textify) : textify[k].part = b
        \/ \E k \in 1 .. Len(file_write) : file_write[k].part = b
    BY DEF AllPlaced
  <2> QED
    BY <2>1
<1>3. /\ \A k \in 1 .. Len(free_spaces') : hand' # free_spaces'[k]
      /\ \A k \in 1 .. Len(textify') : hand' # textify'[k].part
      /\ \A k \in 1 .. Len(file_write') : hand' # file_write'[k].part
  BY DEF Apart
<1>4. \A j, k \in 1 .. Len(free_spaces') : free_spaces'[j] = free_spaces'[k] => j = k
  BY DEF Apart
<1>5. \A j, k \in 1 .. Len(textify') : textify'[j].part = textify'[k].part => j = k
  BY DEF Apart
<1>6. \A j, k \in 1 .. Len(file_write') : file_write'[j].part = file_write'[k].part => j = k
  BY DEF Apart
<1>7. /\ \A j \in 1 .. Len(free_spaces'), k \in 1 .. Len(textify') : free_spaces'[j] # textify'[k].part
      /\ \A j \in 1 .. Len(free_spaces'), k \in 1 .. Len(file_write') :
           free_spaces'[j] # file_write'[k].part
  BY DEF Apart
<1>8. \A j \in 1 .. Len(textify'), k \in 1 .. Len(file_write') : textify'[j].part # file_write'[k].part
  BY DEF Apart
<1>9. Apart'
  BY <1>3, <1>4, <1>5, <1>6, <1>7, <1>8 DEF Apart
<1> QED
  BY <1>1, <1>2, <1>9 DEF AllPlaced

LEMMA WriteKeeps ==
  ASSUME Inv, Write
  PROVE  Inv'
<1>1. /\ Typed /\ AllPlaced /\ Apart /\ Adjacent /\ Texts /\ CallerAt /\ FileSoFar
      /\ pc = "idle" /\ pc' = "chunks" /\ curr_ptrs' = curr_ptrs + 1 /\ n' \in 0 .. MaxLines /\ i' = 0
      /\ UNCHANGED <<textify, file_write, free_spaces, workspace, hand, file>>
  BY DEF Inv, Write
<1>2. hand = NoPart /\ textify = <<>> /\ file_write = <<>> /\ Len(textify) = 0 /\ Len(file_write) = 0
  BY <1>1 DEF CallerAt
<1>3. Typed'
  <2>1. n' \in Nat
    BY <1>1, WriterAssumption
  <2> QED
    BY <1>1, <2>1 DEF Typed
<1>4. AllPlaced' /\ Apart'
  BY <1>1, SamePlaces
<1>5. Adjacent' /\ CallerAt'
  BY <1>1, <1>2 DEF Adjacent, CallerAt
<1>6. Texts'
  <2>1. \A w : Holds(w, curr_ptrs, 0) => Holds(w, curr_ptrs', 0)
    BY DEF Holds
  <2> QED
    BY <1>1, <1>2, <2>1 DEF Texts
<1>7. FileSoFar'
  <2>1. Written' = 0
    BY <1>1, <1>2, <1>3 DEF Written, TextStart, Cut, Typed
  <2>2. Len(file) > 0 => file[Len(file)][1] < curr_ptrs + 1
    <3>1. Written \in Nat /\ curr_ptrs \in Nat
      BY <1>1, Offsets DEF Typed
    <3>2. CASE Written > 0
      BY <1>1, <3>1, <3>2 DEF FileSoFar
    <3>3. CASE Written = 0
      <4>1. Len(file) > 0 => file[Len(file)] \in Lines
        BY <1>1, Lengths
      <4> QED
        BY <1>1, <3>1, <3>3, <4>1 DEF FileSoFar, Lines
    <3> QED
      BY <3>1, <3>2, <3>3
  <2> QED
    BY <1>1, <2>1, <2>2 DEF FileSoFar
<1> QED
  BY <1>3, <1>4, <1>5, <1>6, <1>7 DEF Inv

LEMMA WaitKeeps ==
  ASSUME Inv, WaitTillClear \/ Destroy
  PROVE  Inv'
<1>1. /\ Typed /\ AllPlaced /\ Apart /\ Adjacent /\ Texts /\ CallerAt /\ FileSoFar
      /\ UNCHANGED <<textify, file_write, free_spaces, workspace, curr_ptrs, n, i, hand, file>>
  BY DEF Inv, WaitTillClear, Destroy
<1>2. Typed'
  BY <1>1 DEF Typed, WaitTillClear, Destroy
<1>3. AllPlaced' /\ Apart'
  BY <1>1, SamePlaces
<1>4. Adjacent'
  BY <1>1 DEF Adjacent, Off, End, TextStart, Cut
<1>5. Texts'
  BY <1>1 DEF Texts
<1>6. CallerAt'
  BY <1>1 DEF CallerAt, WaitTillClear, Destroy, FileClear
<1>7. Written' = Written
  BY <1>1 DEF Written, TextStart, Cut, Off, End
<1>8. FileSoFar'
  BY <1>1, <1>7, SameFile
<1> QED
  BY <1>2, <1>3, <1>4, <1>5, <1>6, <1>8 DEF Inv

LEMMA StutterKeeps ==
  ASSUME Inv, UNCHANGED vars
  PROVE  Inv'
<1>1. /\ Typed /\ AllPlaced /\ Apart /\ Adjacent /\ Texts /\ CallerAt /\ FileSoFar
      /\ UNCHANGED <<textify, file_write, free_spaces, workspace, curr_ptrs, n, i, hand, pc, file>>
  BY DEF Inv, vars
<1>2. Typed' /\ AllPlaced' /\ Apart' /\ CallerAt'
  BY <1>1, SamePlaces DEF Typed, CallerAt
<1>3. Adjacent' /\ Texts'
  BY <1>1 DEF Adjacent, Off, End, TextStart, Cut, Texts
<1>4. FileSoFar'
  BY <1>1 DEF FileSoFar, Written, TextStart, Cut, Off, End
<1> QED
  BY <1>2, <1>3, <1>4 DEF Inv

LEMMA PopSpaceKeeps ==
  ASSUME Inv, PopSpace
  PROVE  Inv'
<1> USE PartFacts
<1>1. /\ Typed /\ AllPlaced /\ Apart /\ Adjacent /\ Texts /\ CallerAt /\ FileSoFar
      /\ pc = "chunks" /\ UNCHANGED <<textify, file_write, curr_ptrs, n, i, pc, file>>
  BY DEF Inv, PopSpace
<1>2. /\ hand = NoPart /\ i < n /\ Len(free_spaces) > 0 /\ hand' = free_spaces[1] /\ hand' \in Parts
      /\ free_spaces' \in Seq(Parts) /\ Len(free_spaces') = Len(free_spaces) - 1
      /\ \A j \in 1 .. Len(free_spaces) - 1 : free_spaces'[j] = free_spaces[j + 1]
      /\ workspace' \in [Parts -> Space]
      /\ \A b \in Parts : b # hand' => workspace'[b] = workspace[b]
      /\ workspace'[hand'] =
           [off |-> i, size |-> IF ChunkSize < n - i THEN ChunkSize ELSE n - i,
            buf |-> workspace[hand'].buf]
  BY <1>1, PopSpaceEffect
<1>3. /\ Len(textify) \in Nat /\ Len(file_write) \in Nat /\ Len(free_spaces) \in Nat
      /\ 1 \in 1 .. Len(free_spaces)
      /\ \A j \in 1 .. Len(textify) : textify[j].part \in Parts
      /\ \A j \in 1 .. Len(file_write) : file_write[j].part \in Parts
      /\ \A j \in 1 .. Len(free_spaces) : free_spaces[j] \in Parts
  BY <1>1, <1>2, Lengths DEF Entry
<1>4. Typed'
  BY <1>1, <1>2 DEF Typed
<1>5. \A j \in 1 .. Len(free_spaces) - 1 : j + 1 \in 1 .. Len(free_spaces) /\ j + 1 # 1
  BY <1>3
<1>6. AllPlaced'
  <2>1. InHand' + Len(free_spaces') + Len(textify') + Len(file_write') = NWriters
    <3>1. InHand = 0 /\ InHand' = 1
      BY <1>2 DEF InHand
    <3>2. 0 + Len(free_spaces) + Len(textify) + Len(file_write) = NWriters
      BY <1>1, <3>1 DEF AllPlaced
    <3>3. Len(textify') = Len(textify) /\ Len(file_write') = Len(file_write)
      BY <1>1
    <3> QED
      BY <1>2, <1>3, <3>1, <3>2, <3>3
  <2>2. ASSUME NEW k \in 1 .. Len(free_spaces)
        PROVE  hand' = free_spaces[k] \/ \E j \in 1 .. Len(free_spaces') : free_spaces'[j] = free_spaces[k]
    <3>1. CASE k = 1
      BY <1>2, <3>1
    <3>2. CASE k # 1
      <4>1. k - 1 \in 1 .. Len(free_spaces) - 1 /\ (k - 1) + 1 = k
        BY <1>3, <3>2
      <4>2. k - 1 \in 1 .. Len(free_spaces') /\ free_spaces'[k - 1] = free_spaces[k]
        BY <1>2, <4>1
      <4> QED
        BY <4>2
    <3> QED
      BY <3>1, <3>2
  <2>3. ASSUME NEW b \in Parts
        PROVE  \/ hand' = b
               \/ \E k \in 1 .. Len(free_spaces') : free_spaces'[k] = b
               \/ \E k \in 1 .. Len(textify') : textify'[k].part = b
               \/ \E k \in 1 .. Len(file_write') : file_write'[k].part = b
    <3>1. \/ hand = b
          \/ \E k \in 1 .. Len(free_spaces) : free_spaces[k] = b
          \/ \E k \in 1 .. Len(textify) : textify[k].part = b
          \/ \E k \in 1 .. Len(file_write) : file_write[k].part = b
      BY <1>1 DEF AllPlaced
    <3>2. b # hand
      BY <1>2
    <3> QED
      BY <1>1, <2>2, <3>1, <3>2
  <2> QED
    BY <2>1, <2>3 DEF AllPlaced
<1>7. /\ \A k \in 1 .. Len(textify) : hand' # textify[k].part
      /\ \A k \in 1 .. Len(file_write) : hand' # file_write[k].part
  BY <1>1, <1>2, <1>3 DEF Apart
<1>8. Apart'
  <2>1. ASSUME NEW k \in 1 .. Len(free_spaces')
        PROVE  k + 1 \in 1 .. Len(free_spaces) /\ k + 1 # 1 /\ free_spaces'[k] = free_spaces[k + 1]
    BY <1>2, <1>3, <1>5
  <2>2. \A k \in 1 .. Len(free_spaces') : hand' # free_spaces'[k]
    BY <1>1, <1>2, <1>3, <2>1 DEF Apart
  <2>3. ASSUME NEW j \in 1 .. Len(free_spaces'), NEW k \in 1 .. Len(free_spaces'),
               free_spaces'[j] = free_spaces'[k]
        PROVE  j = k
    <3>1. j + 1 = k + 1
      BY <1>1, <2>1, <2>3 DEF Apart
    <3> QED
      BY <3>1
  <2>4. /\ \A j \in 1 .. Len(free_spaces'), k \in 1 .. Len(textify) : free_spaces'[j] # textify[k].part
        /\ \A j \in 1 .. Len(free_spaces'), k \in 1 .. Len(file_write) :
             free_spaces'[j] # file_write[k].part
    <3>1. /\ \A j \in 1 .. Len(free_spaces), k \in 1 .. Len(textify) : free_spaces[j] # textify[k].part
          /\ \A j \in 1 .. Len(free_spaces), k \in 1 .. Len(file_write) :
               free_spaces[j] # file_write[k].part
      BY <1>1 DEF Apart
    <3> QED
      BY <2>1, <3>1
  <2> QED
    BY <1>1, <1>7, <2>2, <2>3, <2>4 DEF Apart
<1>9. /\ \A k \in 1 .. Len(textify) : workspace'[textify[k].part] = workspace[textify[k].part]
      /\ \A k \in 1 .. Len(file_write) : workspace'[file_write[k].part] = workspace[file_write[k].part]
  BY <1>2, <1>3, <1>7
<1>10. /\ \A k \in 1 .. Len(textify) : Off(textify[k])' = Off(textify[k]) /\ End(textify[k])' = End(textify[k])
       /\ \A k \in 1 .. Len(file_write) : /\ Off(file_write[k])' = Off(file_write[k])
                                          /\ End(file_write[k])' = End(file_write[k])
  BY <1>1, <1>9 DEF Off, End
<1>11. Cut' = Cut /\ TextStart' = TextStart /\ Written' = Written
  <2>1. Cut' = Cut
    BY <1>1 DEF Cut
  <2>2. TextStart' = TextStart
    BY <1>1, <1>3, <1>10, <2>1 DEF TextStart
  <2>3. Written' = Written
    BY <1>1, <1>3, <1>10, <2>2 DEF Written
  <2> QED
    BY <2>1, <2>2, <2>3
<1>12. Adjacent'
  <2>1. i' < n' /\ workspace'[hand'].off = i' /\
          workspace'[hand'].size = IF ChunkSize < n' - i' THEN ChunkSize ELSE n' - i'
    BY <1>1, <1>2
  <2>2. \A k \in 1 .. Len(textify) :
          End(textify[k])' = IF k < Len(textify) THEN Off(textify[k + 1])' ELSE Cut'
    <3>1. \A k \in 1 .. Len(textify) :
            End(textify[k]) = IF k < Len(textify) THEN Off(textify[k + 1]) ELSE Cut
      BY <1>1 DEF Adjacent
    <3>2. \A k \in 1 .. Len(textify) : k < Len(textify) => k + 1 \in 1 .. Len(textify)
      BY <1>3
    <3> QED
      BY <1>10, <1>11, <3>1, <3>2
  <2>3. \A k \in 1 .. Len(file_write) :
          End(file_write[k])' = IF k < Len(file_write) THEN Off(file_write[k + 1])' ELSE TextStart'
    <3>1. \A k \in 1 .. Len(file_write) :
            End(file_write[k]) = IF k < Len(file_write) THEN Off(file_write[k + 1]) ELSE TextStart
      BY <1>1 DEF Adjacent
    <3>2. \A k \in 1 .. Len(file_write) : k < Len(file_write) => k + 1 \in 1 .. Len(file_write)
      BY <1>3
    <3> QED
      BY <1>10, <1>11, <3>1, <3>2
  <2> QED
    BY <1>1, <2>1, <2>2, <2>3 DEF Adjacent
<1>13. Texts'
  <2>1. Holds(workspace'[hand'], curr_ptrs', 0)
    <3>1. Holds(workspace[free_spaces[1]], curr_ptrs, 0)
      BY <1>1, <1>3 DEF Texts
    <3> QED
      BY <1>1, <1>2, <3>1 DEF Holds
  <2>2. ASSUME NEW k \in 1 .. Len(free_spaces') PROVE Holds(workspace'[free_spaces'[k]], curr_ptrs', 0)
    <3>1. k + 1 \in 1 .. Len(free_spaces) /\ k + 1 # 1 /\ free_spaces'[k] = free_spaces[k + 1]
      BY <1>2, <1>3, <1>5
    <3>2. free_spaces[k + 1] # hand' /\ free_spaces[k + 1] \in Parts
      BY <1>1, <1>2, <1>3, <3>1 DEF Apart
    <3>3. Holds(workspace[free_spaces[k + 1]], curr_ptrs, 0)
      BY <1>1, <3>1 DEF Texts
    <3> QED
      BY <1>1, <1>2, <3>1, <3>2, <3>3
  <2>3. \A k \in 1 .. Len(textify) :
          LET e == textify[k] w == workspace'[e.part] IN
          /\ Holds(w, curr_ptrs, e.line) /\ e.line <= w.size
          /\ e.finished => e.line = w.size
    BY <1>1, <1>9 DEF Texts
  <2>4. \A k \in 1 .. Len(file_write) :
          LET e == file_write[k] w == workspace'[e.part] IN
          /\ ~e.finished /\ e.line \in {0, 1} /\ (k > 1 => e.line = 0)
          /\ Holds(w, curr_ptrs, IF e.line = 0 THEN w.size ELSE 0)
    BY <1>1, <1>9 DEF Texts
  <2> QED
    BY <1>1, <2>1, <2>2, <2>3, <2>4 DEF Texts
<1>14. CallerAt'
  BY <1>1 DEF CallerAt
<1>15. FileSoFar'
  BY <1>1, <1>11, SameFile
<1> QED
  BY <1>4, <1>6, <1>8, <1>12, <1>13, <1>14, <1>15 DEF Inv

LEMMA PushPartKeeps ==
  ASSUME Inv, PushPart
  PROVE  Inv'
<1> USE PartFacts
<1> DEFINE last == Len(textify) + 1
<1>1. /\ Typed /\ AllPlaced /\ Apart /\ Adjacent /\ Texts /\ CallerAt /\ FileSoFar
      /\ UNCHANGED <<file_write, free_spaces, workspace, curr_ptrs, n, pc, file>>
  BY DEF Inv, PushPart
<1>2. /\ hand \in Parts /\ hand' = NoPart /\ i' = i + ChunkSize
      /\ textify' \in Seq(Entry) /\ Len(textify') = last
      /\ \A j \in 1 .. Len(textify) : textify'[j] = textify[j]
      /\ textify'[last].part = hand /\ textify'[last].line = 0 /\ ~textify'[last].finished
  BY <1>1, PushPartEffect
<1>3. /\ Len(textify) \in Nat /\ Len(file_write) \in Nat /\ Len(free_spaces) \in Nat
      /\ \A k \in 1 .. last : k \in 1 .. Len(textify) \/ k = last
      /\ \A k \in 1 .. Len(textify) : k \in 1 .. last /\ k # last
      /\ last \in 1 .. last /\ hand # NoPart /\ i \in Nat /\ n \in Nat
  BY <1>1, <1>2, Lengths DEF Typed
<1> HIDE DEF last
<1>4. Typed'
  BY <1>1, <1>2 DEF Typed
<1>5. AllPlaced'
  <2>1. InHand' + Len(free_spaces') + Len(textify') + Len(file_write') = NWriters
    <3>1. InHand = 1 /\ InHand' = 0
      BY <1>2, <1>3 DEF InHand
    <3>2. 1 + Len(free_spaces) + Len(textify) + Len(file_write) = NWriters
      BY <1>1, <3>1 DEF AllPlaced
    <3> QED
      BY <1>1, <1>2, <1>3, <3>1, <3>2 DEF last
  <2>2. ASSUME NEW k \in 1 .. Len(textify)
        PROVE  \E j \in 1 .. Len(textify') : textify'[j].part = textify[k].part
    BY <1>2, <1>3
  <2>3. \E j \in 1 .. Len(textify') : textify'[j].part = hand
    BY <1>2, <1>3
  <2>4. ASSUME NEW b \in Parts
        PROVE  \/ hand' = b
               \/ \E k \in 1 .. Len(free_spaces') : free_spaces'[k] = b
               \/ \E k \in 1 .. Len(textify') : textify'[k].part = b
               \/ \E k \in 1 .. Len(file_write') : file_write'[k].part = b
    <3>1. \/ hand = b
          \/ \E k \in 1 .. Len(free_spaces) : free_spaces[k] = b
          \/ \E k \in 1 .. Len(textify) : textify[k].part = b
          \/ \E k \in 1 .. Len(file_write) : file_write[k].part = b
      BY <1>1 DEF AllPlaced
    <3> QED
      BY <1>1, <2>2, <2>3, <3>1
  <2> QED
    BY <2>1, <2>4 DEF AllPlaced
<1>6. Apart'
  <2>1. /\ \A k \in 1 .. Len(free_spaces) : hand' # free_spaces[k]
        /\ \A k \in 1 .. Len(textify') : hand' # textify'[k].part
        /\ \A k \in 1 .. Len(file_write) : hand' # file_write[k].part
    <3>1. /\ \A k \in 1 .. Len(free_spaces) : free_spaces[k] \in Parts
          /\ \A k \in 1 .. Len(file_write) : file_write[k].part \in Parts
          /\ \A k \in 1 .. Len(textify) : textify[k].part \in Parts
      BY <1>1, Lengths DEF Entry
    <3> QED
      BY <1>2, <1>3, <3>1
  <2>2. \A j, k \in 1 .. Len(textify') : textify'[j].part = textify'[k].part => j = k
    <3> SUFFICES ASSUME NEW j \in 1 .. Len(textify'), NEW k \in 1 .. Len(textify'),
                        textify'[j].part = textify'[k].part
                 PROVE  j = k
      OBVIOUS
    <3>1. \A m \in 1 .. Len(textify) : hand # textify[m].part
      BY <1>1 DEF Apart
    <3>2. \A l, m \in 1 .. Len(textify) : textify[l].part = textify[m].part => l = m
      BY <1>1 DEF Apart
    <3> QED
      BY <1>2, <1>3, <3>1, <3>2
  <2>3. /\ \A j \in 1 .. Len(free_spaces), k \in 1 .. Len(textify') : free_spaces[j] # textify'[k].part
        /\ \A j \in 1 .. Len(textify'), k \in 1 .. Len(file_write) : textify'[j].part # file_write[k].part
    <3>1. /\ \A k \in 1 .. Len(free_spaces) : hand # free_spaces[k]
          /\ \A k \in 1 .. Len(file_write) : hand # file_write[k].part
          /\ \A j \in 1 .. Len(free_spaces), k \in 1 .. Len(textify) : free_spaces[j] # textify[k].part
          /\ \A j \in 1 .. Len(textify), k \in 1 .. Len(file_write) :
               textify[j].part # file_write[k].part
      BY <1>1 DEF Apart
    <3> QED
      BY <1>2, <1>3, <3>1
  <2> QED
    BY <1>1, <2>1, <2>2, <2>3 DEF Apart
<1>7. /\ i < n /\ workspace[hand].off = i
      /\ workspace[hand].size = IF ChunkSize < n - i THEN ChunkSize ELSE n - i
  BY <1>1, <1>3 DEF Adjacent
<1>8. /\ \A k \in 1 .. Len(textify) : Off(textify[k])' = Off(textify[k]) /\ End(textify[k])' = End(textify[k])
      /\ \A k \in 1 .. Len(file_write) : /\ Off(file_write[k])' = Off(file_write[k])
                                         /\ End(file_write[k])' = End(file_write[k])
  BY <1>1, <1>2 DEF Off, End
<1>9. Cut = i /\ Cut' = i + workspace[hand].size
  BY <1>1, <1>2, <1>3, <1>7 DEF Cut
<1>10. workspace'[textify'[last].part] = workspace[hand]
  BY <1>1, <1>2
<1>11. TextStart' = TextStart
  <2>1. CASE Len(textify) = 0
    <3>1. last = 1 /\ TextStart = i
      BY <1>9, <2>1 DEF last, TextStart
    <3>2. TextStart' = i
      BY <1>2, <1>7, <1>10, <3>1 DEF TextStart, Off
    <3> QED
      BY <3>1, <3>2
  <2>2. CASE Len(textify) > 0
    <3>1. 1 \in 1 .. Len(textify) /\ Len(textify') > 0
      BY <1>2, <1>3, <2>2 DEF last
    <3> QED
      BY <1>1, <1>2, <2>2, <3>1 DEF TextStart, Off
  <2> QED
    BY <1>3, <2>1, <2>2
<1>12. Written' = Written
  BY <1>1, <1>3, <1>8, <1>11 DEF Written
<1>13. Adjacent'
  <2>1. ASSUME NEW k \in 1 .. Len(textify')
        PROVE  End(textify[k])' = IF k < Len(textify') THEN Off(textify[k + 1])' ELSE Cut'
    <3>1. CASE k = last
      <4>1. End(textify[k])' = i + workspace[hand].size
        BY <1>7, <1>10, <3>1 DEF End
      <4> QED
        BY <1>2, <1>3, <1>9, <3>1, <4>1 DEF last
    <3>2. CASE k = Len(textify) /\ k \in 1 .. Len(textify)
      <4>1. End(textify[k]) = Cut
        BY <1>1, <1>3, <3>2 DEF Adjacent
      <4>2. k + 1 = last /\ k < Len(textify')
        BY <1>2, <1>3, <3>2 DEF last
      <4>3. Off(textify[k + 1])' = i
        BY <1>7, <1>10, <4>2 DEF Off
      <4> QED
        BY <1>8, <1>9, <3>2, <4>1, <4>2, <4>3
    <3>3. CASE k < Len(textify) /\ k \in 1 .. Len(textify)
      <4>1. End(textify[k]) = Off(textify[k + 1])
        BY <1>1, <3>3 DEF Adjacent
      <4>2. k + 1 \in 1 .. Len(textify) /\ k < Len(textify')
        BY <1>2, <1>3, <3>3 DEF last
      <4> QED
        BY <1>8, <3>3, <4>1, <4>2
    <3> QED
      BY <1>2, <1>3, <3>1, <3>2, <3>3
  <2>2. \A k \in 1 .. Len(file_write) :
          End(file_write[k])' = IF k < Len(file_write) THEN Off(file_write[k + 1])' ELSE TextStart'
    <3>1. \A k \in 1 .. Len(file_write) :
            End(file_write[k]) = IF k < Len(file_write) THEN Off(file_write[k + 1]) ELSE TextStart
      BY <1>1 DEF Adjacent
    <3>2. \A k \in 1 .. Len(file_write) : k < Len(file_write) => k + 1 \in 1 .. Len(file_write)
      BY <1>3
    <3> QED
      BY <1>8, <1>11, <3>1, <3>2
  <2> QED
    BY <1>1, <1>2, <2>1, <2>2 DEF Adjacent
<1>14. Texts'
  <2>1. ASSUME NEW k \in 1 .. Len(textify')
        PROVE  LET e == textify'[k] w == workspace'[e.part] IN
               /\ Holds(w, curr_ptrs, e.line) /\ e.line <= w.size
               /\ e.finished => e.line = w.size
    <3>1. CASE k = last
      <4>1. Holds(workspace[hand], curr_ptrs, 0)
        BY <1>1, <1>3 DEF Texts
      <4>2. 0 <= workspace[hand].size
        BY <1>3, <1>7
      <4> QED
        BY <1>2, <1>10, <3>1, <4>1, <4>2
    <3>2. CASE k \in 1 .. Len(textify)
      BY <1>1, <1>2, <3>2 DEF Texts
    <3> QED
      BY <1>2, <1>3, <3>1, <3>2
  <2> QED
    BY <1>1, <1>2, <2>1 DEF Texts
<1>15. CallerAt'
  BY <1>1, <1>3 DEF CallerAt
<1>16. FileSoFar'
  BY <1>1, <1>12, SameFile
<1> QED
  BY <1>4, <1>5, <1>6, <1>13, <1>14, <1>15, <1>16 DEF Inv

LEMMA PartToTextKeeps ==
  ASSUME Inv, NEW k \in 1 .. Len(textify), PartToText(k)
  PROVE  Inv'
<1> DEFINE b == textify[k].part
           line == <<curr_ptrs, workspace[b].off + textify[k].line>>
<1>1. /\ Typed /\ AllPlaced /\ Apart /\ Adjacent /\ Texts /\ CallerAt /\ FileSoFar
      /\ UNCHANGED <<file_write, free_spaces, curr_ptrs, n, i, hand, pc, file>>
  BY DEF Inv, PartToText
<1>2. /\ ~textify[k].finished /\ textify[k].line < workspace[b].size
      /\ textify' \in Seq(Entry) /\ Len(textify') = Len(textify)
      /\ \A j \in 1 .. Len(textify) : j # k => textify'[j] = textify[j]
      /\ textify'[k].part = b /\ textify'[k].line = textify[k].line + 1
      /\ ~textify'[k].finished
      /\ workspace' \in [Parts -> Space]
      /\ \A c \in Parts : c # b => workspace'[c] = workspace[c]
      /\ workspace'[b].off = workspace[b].off /\ workspace'[b].size = workspace[b].size
      /\ workspace'[b].buf = Append(workspace[b].buf, line)
  BY <1>1, PartToTextEffect
<1>3. /\ Len(textify) \in Nat /\ Len(file_write) \in Nat /\ Len(free_spaces) \in Nat
      /\ \A j \in 1 .. Len(textify) : textify[j].part \in Parts /\ textify[j].line \in Nat
      /\ \A j \in 1 .. Len(file_write) : file_write[j].part \in Parts
      /\ \A j \in 1 .. Len(free_spaces) : free_spaces[j] \in Parts
      /\ b \in Parts /\ workspace[b] \in Space /\ curr_ptrs \in Nat
  BY <1>1, Lengths DEF Entry, Typed
<1>4. line \in Lines /\ workspace[b].buf \in Seq(Lines) /\ workspace[b].off \in Nat /\ workspace[b].size \in Nat
  <2>1. workspace[b].off \in Nat /\ workspace[b].buf \in Seq(Lines) /\ textify[k].line \in Nat
        /\ workspace[b].size \in Nat
    BY <1>3 DEF Space
  <2> QED
    BY <1>3, <2>1 DEF Lines
<1> HIDE DEF line
<1>5. \A j \in 1 .. Len(textify) : textify'[j].part = textify[j].part
  BY <1>2
<1>6. Typed'
  BY <1>1, <1>2 DEF Typed
<1>7. AllPlaced' /\ Apart'
  BY <1>1, <1>2, <1>5, SamePlaces
<1>9. \A c \in Parts : workspace'[c].off = workspace[c].off /\ workspace'[c].size = workspace[c].size
  BY <1>2
<1>10. /\ \A j \in 1 .. Len(textify) : Off(textify[j])' = Off(textify[j]) /\ End(textify[j])' = End(textify[j])
       /\ \A j \in 1 .. Len(file_write) : /\ Off(file_write[j])' = Off(file_write[j])
                                          /\ End(file_write[j])' = End(file_write[j])
  BY <1>1, <1>3, <1>5, <1>9 DEF Off, End
<1>11. Cut' = Cut /\ TextStart' = TextStart /\ Written' = Written
  <2>1. Cut' = Cut
    BY <1>1 DEF Cut
  <2>2. TextStart' = TextStart
    <3>1. Len(textify) > 0 => Off(textify[1])' = Off(textify[1])
      BY <1>3, <1>10
    <3> QED
      BY <1>2, <2>1, <3>1 DEF TextStart
  <2>3. Written' = Written
    <3>1. Len(file_write) > 0 =>
            /\ Off(file_write[1])' = Off(file_write[1]) /\ End(file_write[1])' = End(file_write[1])
      BY <1>3, <1>10
    <3> QED
      BY <1>1, <2>2, <3>1 DEF Written
  <2> QED
    BY <2>1, <2>2, <2>3
<1>12. Adjacent'
  <2>1. \A j \in 1 .. Len(textify) :
          End(textify[j])' = IF j < Len(textify) THEN Off(textify[j + 1])' ELSE Cut'
    <3>1. \A j \in 1 .. Len(textify) :
            End(textify[j]) = IF j < Len(textify) THEN Off(textify[j + 1]) ELSE Cut
      BY <1>1 DEF Adjacent
    <3>2. \A j \in 1 .. Len(textify) : j < Len(textify) => j + 1 \in 1 .. Len(textify)
      BY <1>3
    <3> QED
      BY <1>10, <1>11, <3>1, <3>2
  <2>2. \A j \in 1 .. Len(file_write) :
          End(file_write[j])' = IF j < Len(file_write) THEN Off(file_write[j + 1])' ELSE TextStart'
    <3>1. \A j \in 1 .. Len(file_write) :
            End(file_write[j]) = IF j < Len(file_write) THEN Off(file_write[j + 1]) ELSE TextStart
      BY <1>1 DEF Adjacent
    <3>2. \A j \in 1 .. Len(file_write) : j < Len(file_write) => j + 1 \in 1 .. Len(file_write)
      BY <1>3
    <3> QED
      BY <1>10, <1>11, <3>1, <3>2
  <2>3. hand # NoPart => /\ i < n /\ workspace'[hand].off = i
                         /\ workspace'[hand].size = IF ChunkSize < n - i THEN ChunkSize ELSE n - i
    <3>1. hand # NoPart => hand \in Parts
      BY <1>1 DEF Typed
    <3> QED
      BY <1>1, <1>9, <3>1 DEF Adjacent
  <2> QED
    BY <1>1, <1>2, <2>1, <2>2, <2>3 DEF Adjacent
<1>13. Texts'
  <2>1. \A j \in 1 .. Len(free_spaces) : free_spaces[j] # b
    BY <1>1 DEF Apart
  <2>2. \A j \in 1 .. Len(file_write) : file_write[j].part # b
    BY <1>1 DEF Apart
  <2>3. hand # b
    BY <1>1 DEF Apart
  <2>4. hand # NoPart => Holds(workspace'[hand], curr_ptrs, 0)
    <3>1. hand # NoPart => hand \in Parts
      BY <1>1 DEF Typed
    <3> QED
      BY <1>1, <1>2, <2>3, <3>1 DEF Texts
  <2>5. \A j \in 1 .. Len(free_spaces) : Holds(workspace'[free_spaces[j]], curr_ptrs, 0)
    BY <1>1, <1>2, <1>3, <2>1 DEF Texts
  <2>6. \A j \in 1 .. Len(file_write) :
          LET e == file_write[j] w == workspace'[e.part] IN
          /\ ~e.finished /\ e.line \in {0, 1} /\ (j > 1 => e.line = 0)
          /\ Holds(w, curr_ptrs, IF e.line = 0 THEN w.size ELSE 0)
    BY <1>1, <1>2, <1>3, <2>2 DEF Texts
  <2>7. ASSUME NEW j \in 1 .. Len(textify), j # k
        PROVE  LET e == textify'[j] w == workspace'[e.part] IN
               /\ Holds(w, curr_ptrs, e.line) /\ e.line <= w.size
               /\ e.finished => e.line = w.size
    <3>1. textify[j].part # b /\ textify[j].part \in Parts /\ textify'[j] = textify[j]
      BY <1>1, <1>2, <1>3, <2>7 DEF Apart
    <3>2. workspace'[textify'[j].part] = workspace[textify[j].part]
      BY <1>2, <3>1
    <3> QED
      BY <1>1, <3>1, <3>2 DEF Texts
  <2>8. Holds(workspace'[b], curr_ptrs, textify[k].line + 1)
    <3>1. Holds(workspace[b], curr_ptrs, textify[k].line)
      BY <1>1 DEF Texts
    <3>2. Len(workspace[b].buf) = textify[k].line /\ textify[k].line \in Nat
      BY <1>3, <3>1 DEF Holds
    <3>3. /\ Len(workspace'[b].buf) = textify[k].line + 1
          /\ \A j \in 1 .. textify[k].line : workspace'[b].buf[j] = workspace[b].buf[j]
          /\ workspace'[b].buf[textify[k].line + 1] = line
      <4>1. /\ Len(Append(workspace[b].buf, line)) = Len(workspace[b].buf) + 1
            /\ \A j \in 1 .. Len(workspace[b].buf) :
                 Append(workspace[b].buf, line)[j] = workspace[b].buf[j]
            /\ Append(workspace[b].buf, line)[Len(workspace[b].buf) + 1] = line
        BY <1>4, AppendProperties
      <4> QED
        BY <1>2, <3>2, <4>1
    <3>4. ASSUME NEW j \in 1 .. textify[k].line + 1
          PROVE  workspace'[b].buf[j] = <<curr_ptrs, workspace'[b].off + (j - 1)>>
      <4>1. CASE j = textify[k].line + 1
        <5>1. j - 1 = textify[k].line
          BY <3>2, <4>1
        <5> QED
          BY <1>2, <3>3, <4>1, <5>1 DEF line
      <4>2. CASE j \in 1 .. textify[k].line
        BY <1>2, <3>1, <3>3, <4>2 DEF Holds
      <4> QED
        BY <3>2, <4>1, <4>2
    <3> QED
      BY <3>3, <3>4 DEF Holds
  <2>9. textify[k].line + 1 <= workspace'[b].size
    <3>1. textify[k].line \in Nat /\ textify[k].line < workspace[b].size /\ workspace[b].size \in Nat
      BY <1>2, <1>3, <1>4
    <3>2. workspace'[b].size = workspace[b].size
      BY <1>2
    <3> QED
      BY <3>1, <3>2
  <2>10. ASSUME NEW j \in 1 .. Len(textify')
         PROVE  LET e == textify'[j] w == workspace'[e.part] IN
                /\ Holds(w, curr_ptrs, e.line) /\ e.line <= w.size
                /\ e.finished => e.line = w.size
    BY <1>2, <2>7, <2>8, <2>9
  <2> QED
    BY <1>1, <2>4, <2>5, <2>6, <2>10 DEF Texts
<1>14. CallerAt'
  <2>1. textify # <<>>
    BY <1>1, EmptySeq DEF Typed
  <2> QED
    BY <1>1, <2>1 DEF CallerAt
<1>15. FileSoFar'
  BY <1>1, <1>11, SameFile
<1> QED
  BY <1>6, <1>7, <1>12, <1>13, <1>14, <1>15 DEF Inv

LEMMA FinishTextKeeps ==
  ASSUME Inv, NEW k \in 1 .. Len(textify), FinishText(k)
  PROVE  Inv'
<1> DEFINE lt == Len(textify)
           lf == Len(file_write)
<1>1. /\ Typed /\ AllPlaced /\ Apart /\ Adjacent /\ Texts /\ CallerAt /\ FileSoFar
      /\ UNCHANGED <<free_spaces, workspace, curr_ptrs, n, i, hand, pc, file>>
  BY DEF Inv, FinishText
<1>2. PICK r \in 0 .. lt :
        /\ textify[k].line >= workspace[textify[k].part].size
        /\ \A j \in 1 .. r : textify[j].finished \/ j = k
        /\ textify' \in Seq(Entry) /\ Len(textify') = lt - r
        /\ \A j \in 1 .. lt - r :
             /\ textify'[j].part = textify[r + j].part /\ textify'[j].line = textify[r + j].line
             /\ textify'[j].finished => textify[r + j].finished \/ r + j = k
        /\ file_write' \in Seq(Entry) /\ Len(file_write') = lf + r
        /\ \A j \in 1 .. lf : file_write'[j] = file_write[j]
        /\ \A j \in 1 .. r : file_write'[lf + j] = [part |-> textify[j].part, line |-> 0, finished |-> FALSE]
  BY <1>1, FinishTextEffect
<1>3. /\ lt \in Nat /\ lf \in Nat /\ Len(free_spaces) \in Nat /\ r \in 0 .. lt
      /\ \A j \in 1 .. lt : textify[j].part \in Parts /\ textify[j].line \in Nat
      /\ \A j \in 1 .. lf : file_write[j].part \in Parts
  BY <1>1, <1>2, Lengths DEF Entry
\* Where the entries go.
<1>4. ASSUME NEW j \in 1 .. r
      PROVE  /\ j \in 1 .. lt /\ lf + j \in 1 .. lf + r
             /\ file_write'[lf + j].part = textify[j].part /\ file_write'[lf + j].line = 0
             /\ ~file_write'[lf + j].finished
  <2>1. j \in 1 .. lt /\ lf + j \in 1 .. lf + r
    BY <1>3
  <2>2. file_write'[lf + j] = [part |-> textify[j].part, line |-> 0, finished |-> FALSE]
    BY <1>2
  <2> QED
    BY <2>1, <2>2
<1>5. \A j \in 1 .. lt - r : r + j \in 1 .. lt /\ textify'[j].part = textify[r + j].part
  BY <1>2, <1>3
<1>6. ASSUME NEW m \in 1 .. lf + r
      PROVE  m \in 1 .. lf \/ (m - lf \in 1 .. r /\ lf + (m - lf) = m)
  BY <1>3
<1>7. \A j \in 1 .. lf : j \in 1 .. lf + r /\ file_write'[j] = file_write[j]
  BY <1>2, <1>3
<1> HIDE DEF lt, lf
<1>8. Typed'
  BY <1>1, <1>2 DEF Typed
<1>9. AllPlaced'
  <2>1. InHand' + Len(free_spaces') + Len(textify') + Len(file_write') = NWriters
    <3>1. InHand' = InHand /\ InHand \in Nat
      BY <1>1 DEF InHand
    <3>2. InHand + Len(free_spaces) + lt + lf = NWriters
      BY <1>1 DEF AllPlaced, lt, lf
    <3> QED
      BY <1>1, <1>2, <1>3, <3>1, <3>2
  <2>2. ASSUME NEW j \in 1 .. lt
        PROVE  \/ \E m \in 1 .. Len(textify') : textify'[m].part = textify[j].part
               \/ \E m \in 1 .. Len(file_write') : file_write'[m].part = textify[j].part
    <3>1. CASE j \in 1 .. r
      <4>1. lf + j \in 1 .. Len(file_write') /\ file_write'[lf + j].part = textify[j].part
        BY <1>2, <1>4, <3>1
      <4> QED
        BY <4>1
    <3>2. CASE j \notin 1 .. r
      <4>1. j - r \in 1 .. lt - r /\ r + (j - r) = j
        BY <1>3, <3>2
      <4>2. j - r \in 1 .. Len(textify') /\ textify'[j - r].part = textify[j].part
        BY <1>2, <1>5, <4>1
      <4> QED
        BY <4>2
    <3> QED
      BY <3>1, <3>2
  <2>3. \A j \in 1 .. lf : \E m \in 1 .. Len(file_write') : file_write'[m].part = file_write[j].part
    BY <1>2, <1>7
  <2>4. ASSUME NEW b \in Parts
        PROVE  \/ hand' = b
               \/ \E m \in 1 .. Len(free_spaces') : free_spaces'[m] = b
               \/ \E m \in 1 .. Len(textify') : textify'[m].part = b
               \/ \E m \in 1 .. Len(file_write') : file_write'[m].part = b
    <3>1. \/ hand = b
          \/ \E m \in 1 .. Len(free_spaces) : free_spaces[m] = b
          \/ \E m \in 1 .. lt : textify[m].part = b
          \/ \E m \in 1 .. lf : file_write[m].part = b
      BY <1>1 DEF AllPlaced, lt, lf
    <3> QED
      BY <1>1, <2>2, <2>3, <3>1
  <2> QED
    BY <2>1, <2>4 DEF AllPlaced
\* What an entry of file_write_stage_ was before.
<1>10. ASSUME NEW m \in 1 .. lf + r
       PROVE  \/ m \in 1 .. lf /\ file_write'[m].part = file_write[m].part
              \/ m - lf \in 1 .. lt /\ file_write'[m].part = textify[m - lf].part /\ m > lf /\ m - lf <= r
  <2>1. CASE m \in 1 .. lf
    BY <1>7, <2>1
  <2>2. CASE m - lf \in 1 .. r /\ lf + (m - lf) = m
    <3>1. m - lf \in 1 .. lt /\ file_write'[lf + (m - lf)].part = textify[m - lf].part
      BY <1>4, <2>2
    <3> QED
      BY <1>3, <2>2, <3>1
  <2> QED
    BY <1>6, <2>1, <2>2
<1>11. Apart'
  <2>1. /\ \A j \in 1 .. Len(free_spaces) : hand # free_spaces[j]
        /\ \A j \in 1 .. lt : hand # textify[j].part
        /\ \A j \in 1 .. lf : hand # file_write[j].part
        /\ \A j, m \in 1 .. Len(free_spaces) : free_spaces[j] = free_spaces[m] => j = m
        /\ \A j, m \in 1 .. lt : textify[j].part = textify[m].part => j = m
        /\ \A j, m \in 1 .. lf : file_write[j].part = file_write[m].part => j = m
        /\ \A j \in 1 .. Len(free_spaces), m \in 1 .. lt : free_spaces[j] # textify[m].part
        /\ \A j \in 1 .. Len(free_spaces), m \in 1 .. lf : free_spaces[j] # file_write[m].part
        /\ \A j \in 1 .. lt, m \in 1 .. lf : textify[j].part # file_write[m].part
    BY <1>1 DEF Apart, lt, lf
  <2>2. /\ \A j \in 1 .. lt - r : hand # textify'[j].part
        /\ \A j \in 1 .. Len(free_spaces), m \in 1 .. lt - r : free_spaces[j] # textify'[m].part
    BY <1>5, <2>1
  <2>3. /\ \A m \in 1 .. lf + r : hand # file_write'[m].part
        /\ \A j \in 1 .. Len(free_spaces), m \in 1 .. lf + r : free_spaces[j] # file_write'[m].part
    BY <1>10, <2>1
  <2>4. ASSUME NEW j \in 1 .. lt - r, NEW m \in 1 .. lt - r, textify'[j].part = textify'[m].part
        PROVE  j = m
    <3>1. r + j = r + m
      BY <1>5, <2>1, <2>4
    <3> QED
      BY <1>3, <3>1
  <2>5. ASSUME NEW j \in 1 .. lf + r, NEW m \in 1 .. lf + r, file_write'[j].part = file_write'[m].part
        PROVE  j = m
    <3>1. j = m \/ j - lf = m - lf
      BY <1>10, <2>1, <2>5
    <3> QED
      BY <1>3, <3>1
  <2>6. ASSUME NEW j \in 1 .. lt - r, NEW m \in 1 .. lf + r
        PROVE  textify'[j].part # file_write'[m].part
    <3>1. CASE m \in 1 .. lf /\ file_write'[m].part = file_write[m].part
      BY <1>5, <2>1, <3>1
    <3>2. CASE m - lf \in 1 .. lt /\ file_write'[m].part = textify[m - lf].part /\ m > lf /\ m - lf <= r
      <4>1. r + j # m - lf
        BY <1>3, <3>2
      <4> QED
        BY <1>5, <2>1, <3>2, <4>1
    <3> QED
      BY <1>10, <3>1, <3>2
  <2>7. /\ hand' = hand /\ free_spaces' = free_spaces
        /\ Len(textify') = lt - r /\ Len(file_write') = lf + r
    BY <1>1, <1>2
  <2> QED
    BY <2>1, <2>2, <2>3, <2>4, <2>5, <2>6, <2>7 DEF Apart
<1>12. /\ \A j \in 1 .. lt - r : Off(textify'[j]) = Off(textify[r + j]) /\ End(textify'[j]) = End(textify[r + j])
       /\ \A j \in 1 .. lf : Off(file_write'[j]) = Off(file_write[j]) /\ End(file_write'[j]) = End(file_write[j])
       /\ \A j \in 1 .. r : /\ Off(file_write'[lf + j]) = Off(textify[j])
                            /\ End(file_write'[lf + j]) = End(textify[j])
  BY <1>1, <1>4, <1>5, <1>7 DEF Off, End
<1>13. /\ \A j \in 1 .. lt : End(textify[j]) = IF j < lt THEN Off(textify[j + 1]) ELSE Cut
       /\ \A j \in 1 .. lf : End(file_write[j]) = IF j < lf THEN Off(file_write[j + 1]) ELSE TextStart
  BY <1>1 DEF Adjacent, lt, lf
<1>14. Cut' = Cut
  BY <1>1 DEF Cut
<1>15. TextStart' = IF r < lt THEN Off(textify[r + 1]) ELSE Cut
  <2>1. CASE r < lt
    <3>1. Len(textify') > 0 /\ 1 \in 1 .. lt - r
      BY <1>2, <1>3, <2>1
    <3> QED
      BY <1>1, <1>12, <2>1, <3>1 DEF TextStart, Off
  <2>2. CASE ~(r < lt)
    <3>1. ~(Len(textify') > 0)
      BY <1>2, <1>3, <2>2
    <3> QED
      BY <1>14, <2>2, <3>1 DEF TextStart
  <2> QED
    BY <2>1, <2>2
<1>16. TextStart = IF 0 < lt THEN Off(textify[1]) ELSE Cut
  BY <1>3 DEF TextStart, lt
<1>17. Adjacent'
  <2>1. ASSUME NEW j \in 1 .. lt - r
        PROVE  End(textify'[j]) = IF j < lt - r THEN Off(textify'[j + 1]) ELSE Cut'
    <3>1. r + j \in 1 .. lt /\ End(textify'[j]) = End(textify[r + j])
      BY <1>3, <1>12
    <3>2. CASE j < lt - r
      <4>1. j + 1 \in 1 .. lt - r /\ r + (j + 1) = (r + j) + 1 /\ r + j < lt
        <5>1. lt \in Nat /\ r \in Nat /\ j \in Nat /\ j >= 1
          BY <1>3
        <5> QED
          BY <3>2, <5>1
      <4> QED
        BY <1>12, <1>13, <3>1, <3>2, <4>1
    <3>3. CASE ~(j < lt - r)
      <4>1. ~(r + j < lt)
        BY <1>3, <3>3
      <4> QED
        BY <1>13, <1>14, <3>1, <3>3, <4>1
    <3> QED
      BY <3>2, <3>3
  <2>2. ASSUME NEW m \in 1 .. lf + r
        PROVE  End(file_write'[m]) = IF m < lf + r THEN Off(file_write'[m + 1]) ELSE TextStart'
    <3>1. CASE m \in 1 .. lf /\ m < lf
      <4>1. m + 1 \in 1 .. lf /\ m < lf + r
        BY <1>3, <3>1
      <4> QED
        BY <1>12, <1>13, <3>1, <4>1
    <3>2. CASE m \in 1 .. lf /\ ~(m < lf)
      <4>1. m = lf /\ End(file_write'[m]) = TextStart
        BY <1>3, <1>12, <1>13, <3>2
      <4>2. CASE r = 0
        <5>1. ~(m < lf + r) /\ TextStart' = TextStart
          BY <1>3, <1>15, <1>16, <4>1, <4>2
        <5> QED
          BY <4>1, <5>1
      <4>3. CASE r # 0
        <5>1. 1 \in 1 .. r /\ 0 < lt /\ m < lf + r /\ m + 1 = lf + 1
          BY <1>3, <4>1, <4>3
        <5>2. Off(file_write'[lf + 1]) = Off(textify[1])
          BY <1>12, <5>1
        <5> QED
          BY <1>16, <4>1, <5>1, <5>2
      <4> QED
        BY <4>2, <4>3
    <3>3. CASE m - lf \in 1 .. r /\ lf + (m - lf) = m
      <4> DEFINE j == m - lf
      <4>1. j \in 1 .. r /\ j \in 1 .. lt /\ lf + j = m
        BY <1>3, <3>3
      <4> HIDE DEF j
      <4>2. End(file_write'[m]) = End(textify[j])
        BY <1>12, <4>1
      <4>3. CASE j < r
        <5>1. j + 1 \in 1 .. r /\ lf + (j + 1) = m + 1 /\ m < lf + r /\ j < lt
          BY <1>3, <4>1, <4>3
        <5>2. Off(file_write'[lf + (j + 1)]) = Off(textify[j + 1])
          BY <1>12, <5>1
        <5> QED
          BY <1>13, <4>1, <4>2, <5>1, <5>2
      <4>4. CASE ~(j < r)
        <5>1. j = r /\ ~(m < lf + r)
          BY <1>3, <4>1, <4>4
        <5> QED
          BY <1>13, <1>15, <4>1, <4>2, <5>1
      <4> QED
        BY <4>3, <4>4
    <3> QED
      BY <1>6, <3>1, <3>2, <3>3
  <2>3. hand # NoPart => /\ i < n /\ workspace[hand].off = i
                         /\ workspace[hand].size = IF ChunkSize < n - i THEN ChunkSize ELSE n - i
    BY <1>1 DEF Adjacent
  <2> QED
    BY <1>1, <1>2, <2>1, <2>2, <2>3 DEF Adjacent, Off, End
<1>18. Written' = Written
  <2>1. CASE 0 < lf
    <3>1. 1 \in 1 .. lf /\ Len(file_write') > 0
      BY <1>2, <1>3, <2>1
    <3> QED
      BY <1>1, <1>7, <1>12, <2>1, <3>1 DEF Written, Off, End, lf
  <2>2. CASE ~(0 < lf) /\ r = 0
    <3>1. ~(Len(file_write') > 0) /\ TextStart' = TextStart
      BY <1>2, <1>3, <1>15, <1>16, <2>2
    <3> QED
      BY <1>3, <2>2, <3>1 DEF Written, lf
  <2>3. CASE ~(0 < lf) /\ r # 0
    <3>1. 1 \in 1 .. r /\ lf + 1 = 1 /\ Len(file_write') > 0 /\ 0 < lt
      BY <1>2, <1>3, <2>3
    <3>2. file_write'[1].line = 0 /\ Off(file_write'[1]) = Off(textify[1])
      BY <1>4, <1>12, <3>1
    <3>3. Written' = Off(textify[1])
      BY <1>1, <3>1, <3>2 DEF Written, Off
    <3>4. Written = TextStart
      BY <1>3, <2>3 DEF Written, lf
    <3> QED
      BY <1>16, <3>1, <3>3, <3>4
  <2> QED
    BY <2>1, <2>2, <2>3
<1>19. Texts'
  <2>1. /\ hand # NoPart => Holds(workspace[hand], curr_ptrs, 0)
        /\ \A j \in 1 .. Len(free_spaces) : Holds(workspace[free_spaces[j]], curr_ptrs, 0)
        /\ \A j \in 1 .. lt :
             LET e == textify[j] w == workspace[e.part] IN
             /\ Holds(w, curr_ptrs, e.line) /\ e.line <= w.size
             /\ e.finished => e.line = w.size
        /\ \A j \in 1 .. lf :
             LET e == file_write[j] w == workspace[e.part] IN
             /\ ~e.finished /\ e.line \in {0, 1} /\ (j > 1 => e.line = 0)
             /\ Holds(w, curr_ptrs, IF e.line = 0 THEN w.size ELSE 0)
    BY <1>1 DEF Texts, lt, lf
  <2>2. textify[k].line = workspace[textify[k].part].size
    <3>1. textify[k].line <= workspace[textify[k].part].size
      BY <2>1 DEF lt
    <3>2. textify[k].line \in Nat /\ workspace[textify[k].part].size \in Nat
      <4>1. textify[k].part \in Parts /\ textify[k].line \in Nat
        BY <1>3 DEF lt
      <4> QED
        BY <1>1, <4>1 DEF Typed, Space
    <3> QED
      BY <1>2, <3>1, <3>2
  <2>3. ASSUME NEW j \in 1 .. lt - r
        PROVE  LET e == textify'[j] w == workspace[e.part] IN
               /\ Holds(w, curr_ptrs, e.line) /\ e.line <= w.size
               /\ e.finished => e.line = w.size
    <3>1. /\ r + j \in 1 .. lt
          /\ textify'[j].part = textify[r + j].part /\ textify'[j].line = textify[r + j].line
          /\ textify'[j].finished => textify[r + j].finished \/ r + j = k
      BY <1>2, <1>3
    <3> QED
      BY <2>1, <2>2, <3>1
  <2>4. ASSUME NEW m \in 1 .. lf + r
        PROVE  LET e == file_write'[m] w == workspace[e.part] IN
               /\ ~e.finished /\ e.line \in {0, 1} /\ (m > 1 => e.line = 0)
               /\ Holds(w, curr_ptrs, IF e.line = 0 THEN w.size ELSE 0)
    <3>1. CASE m \in 1 .. lf
      BY <1>7, <2>1, <3>1
    <3>2. CASE m - lf \in 1 .. r /\ lf + (m - lf) = m
      <4> DEFINE j == m - lf
      <4>1. j \in 1 .. r /\ j \in 1 .. lt /\ lf + j = m
        BY <1>3, <3>2
      <4> HIDE DEF j
      <4>2. /\ file_write'[m].part = textify[j].part /\ file_write'[m].line = 0
            /\ ~file_write'[m].finished
        BY <1>4, <4>1
      <4>3. textify[j].line = workspace[textify[j].part].size
        BY <1>2, <2>1, <2>2, <4>1
      <4>4. Holds(workspace[textify[j].part], curr_ptrs, workspace[textify[j].part].size)
        BY <2>1, <4>1, <4>3
      <4> QED
        BY <4>2, <4>4
    <3> QED
      BY <1>6, <3>1, <3>2
  <2> QED
    BY <1>1, <1>2, <2>1, <2>3, <2>4 DEF Texts
<1>20. CallerAt'
  <2>1. textify # <<>>
    BY <1>1, EmptySeq DEF Typed
  <2> QED
    BY <1>1, <2>1 DEF CallerAt
<1>21. FileSoFar'
  BY <1>1, <1>18, SameFile
<1> QED
  BY <1>8, <1>9, <1>11, <1>17, <1>19, <1>20, <1>21 DEF Inv

LEMMA WriteToFileKeeps ==
  ASSUME Inv, WriteToFile
  PROVE  Inv'
<1> DEFINE b == file_write[1].part
           text == workspace[b].buf
           off == workspace[b].off
           size == workspace[b].size
<1>1. /\ Typed /\ AllPlaced /\ Apart /\ Adjacent /\ Texts /\ CallerAt /\ FileSoFar
      /\ UNCHANGED <<textify, free_spaces, curr_ptrs, n, i, hand, pc>>
  BY DEF Inv, WriteToFile
<1>2. /\ Len(file_write) > 0 /\ file_write[1].line = 0 /\ b \in Parts
      /\ file_write' \in Seq(Entry) /\ Len(file_write') = Len(file_write)
      /\ \A j \in 1 .. Len(file_write) : j # 1 => file_write'[j] = file_write[j]
      /\ file_write'[1].part = b /\ file_write'[1].line = 1
      /\ ~file_write[1].finished => ~file_write'[1].finished
      /\ workspace' \in [Parts -> Space]
      /\ \A c \in Parts : c # b => workspace'[c] = workspace[c]
      /\ workspace'[b].off = off /\ workspace'[b].size = size /\ Len(workspace'[b].buf) = 0
      /\ file' \in Seq(Lines) /\ Len(text) \in Nat /\ Len(file') = Len(file) + Len(text)
      /\ \A j \in 1 .. Len(file) : file'[j] = file[j]
      /\ \A j \in 1 .. Len(text) : file'[Len(file) + j] = text[j]
  BY <1>1, WriteToFileEffect
<1>3. /\ Len(textify) \in Nat /\ Len(file_write) \in Nat /\ Len(free_spaces) \in Nat /\ Len(file) \in Nat
      /\ \A j \in 1 .. Len(textify) : textify[j].part \in Parts
      /\ \A j \in 1 .. Len(file_write) : file_write[j].part \in Parts
      /\ \A j \in 1 .. Len(free_spaces) : free_spaces[j] \in Parts
      /\ \A j \in 1 .. Len(file) : file[j] \in Lines
      /\ curr_ptrs \in Nat
  BY <1>1, Lengths DEF Entry, Typed
<1>4. off \in Nat /\ size \in Nat /\ 1 \in 1 .. Len(file_write)
  BY <1>1, <1>2, <1>3 DEF Typed, Space
<1>5. Holds(workspace[b], curr_ptrs, size)
  BY <1>1, <1>2, <1>4 DEF Texts
<1>6. Len(text) = size /\ \A j \in 1 .. size : text[j] = <<curr_ptrs, off + (j - 1)>>
  BY <1>5 DEF Holds
<1>7. \A j \in 1 .. Len(file_write) : file_write'[j].part = file_write[j].part
  BY <1>2
<1>8. \A c \in Parts : workspace'[c].off = workspace[c].off /\ workspace'[c].size = workspace[c].size
  BY <1>2
<1>9. Typed'
  BY <1>1, <1>2 DEF Typed
<1>10. AllPlaced' /\ Apart'
  BY <1>1, <1>2, <1>7, SamePlaces
<1>12. /\ \A j \in 1 .. Len(textify) : Off(textify[j])' = Off(textify[j]) /\ End(textify[j])' = End(textify[j])
       /\ \A j \in 1 .. Len(file_write) : /\ Off(file_write[j])' = Off(file_write[j])
                                          /\ End(file_write[j])' = End(file_write[j])
  BY <1>1, <1>3, <1>7, <1>8 DEF Off, End
<1>13. Cut' = Cut /\ TextStart' = TextStart
  <2>1. Cut' = Cut
    BY <1>1 DEF Cut
  <2> QED
    BY <1>1, <1>3, <1>12, <2>1 DEF TextStart
<1>14. Adjacent'
  <2>1. \A j \in 1 .. Len(textify) :
          End(textify[j])' = IF j < Len(textify) THEN Off(textify[j + 1])' ELSE Cut'
    <3>1. \A j \in 1 .. Len(textify) :
            End(textify[j]) = IF j < Len(textify) THEN Off(textify[j + 1]) ELSE Cut
      BY <1>1 DEF Adjacent
    <3>2. \A j \in 1 .. Len(textify) : j < Len(textify) => j + 1 \in 1 .. Len(textify)
      BY <1>3
    <3> QED
      BY <1>12, <1>13, <3>1, <3>2
  <2>2. \A j \in 1 .. Len(file_write) :
          End(file_write[j])' = IF j < Len(file_write) THEN Off(file_write[j + 1])' ELSE TextStart'
    <3>1. \A j \in 1 .. Len(file_write) :
            End(file_write[j]) = IF j < Len(file_write) THEN Off(file_write[j + 1]) ELSE TextStart
      BY <1>1 DEF Adjacent
    <3>2. \A j \in 1 .. Len(file_write) : j < Len(file_write) => j + 1 \in 1 .. Len(file_write)
      BY <1>3
    <3> QED
      BY <1>12, <1>13, <3>1, <3>2
  <2>3. hand # NoPart => /\ i < n /\ workspace'[hand].off = i
                         /\ workspace'[hand].size = IF ChunkSize < n - i THEN ChunkSize ELSE n - i
    <3>1. hand # NoPart => hand \in Parts
      BY <1>1 DEF Typed
    <3> QED
      BY <1>1, <1>8, <3>1 DEF Adjacent
  <2> QED
    BY <1>1, <1>2, <2>1, <2>2, <2>3 DEF Adjacent
<1>15. Texts'
  <2>1. /\ hand # b /\ \A j \in 1 .. Len(free_spaces) : free_spaces[j] # b
        /\ \A j \in 1 .. Len(textify) : textify[j].part # b
        /\ \A j \in 1 .. Len(file_write) : j # 1 => file_write[j].part # b
    BY <1>1, <1>4 DEF Apart
  <2>2. hand # NoPart => Holds(workspace'[hand], curr_ptrs, 0)
    <3>1. hand # NoPart => hand \in Parts
      BY <1>1 DEF Typed
    <3> QED
      BY <1>1, <1>2, <2>1, <3>1 DEF Texts
  <2>3. \A j \in 1 .. Len(free_spaces) : Holds(workspace'[free_spaces[j]], curr_ptrs, 0)
    BY <1>1, <1>2, <1>3, <2>1 DEF Texts
  <2>4. ASSUME NEW j \in 1 .. Len(textify)
        PROVE  LET e == textify[j] w == workspace'[e.part] IN
               /\ Holds(w, curr_ptrs, e.line) /\ e.line <= w.size
               /\ e.finished => e.line = w.size
    <3>1. workspace'[textify[j].part] = workspace[textify[j].part]
      BY <1>2, <1>3, <2>1
    <3> QED
      BY <1>1, <3>1 DEF Texts
  <2>5. ASSUME NEW j \in 1 .. Len(file_write)
        PROVE  LET e == file_write'[j] w == workspace'[e.part] IN
               /\ ~e.finished /\ e.line \in {0, 1} /\ (j > 1 => e.line = 0)
               /\ Holds(w, curr_ptrs, IF e.line = 0 THEN w.size ELSE 0)
    <3>1. CASE j = 1
      <4>1. ~file_write'[1].finished
        BY <1>1, <1>2, <1>4 DEF Texts
      <4>2. Holds(workspace'[b], curr_ptrs, 0)
        BY <1>2 DEF Holds
      <4> QED
        BY <1>2, <3>1, <4>1, <4>2
    <3>2. CASE j # 1
      <4>1. file_write'[j] = file_write[j] /\ workspace'[file_write[j].part] = workspace[file_write[j].part]
        BY <1>2, <1>3, <2>1, <3>2
      <4> QED
        BY <1>1, <4>1 DEF Texts
    <3> QED
      BY <3>1, <3>2
  <2> QED
    BY <1>1, <1>2, <2>2, <2>3, <2>4, <2>5 DEF Texts
<1>16. CallerAt'
  <2>1. file_write # <<>>
    BY <1>2
  <2> QED
    BY <1>1, <2>1 DEF CallerAt
<1>17. Written = off /\ Written' = off + size
  <2>1. Written = off
    BY <1>2 DEF Written, Off
  <2>2. Written' = off + size
    BY <1>2 DEF Written, End
  <2> QED
    BY <2>1, <2>2
<1>18. FileSoFar'
  <2> HIDE DEF text, off, size, b
  <2>1. /\ \A k \in 1 .. Len(file) :
             \/ k > 1 /\ file[k] = <<file[k - 1][1], file[k - 1][2] + 1>>
             \/ file[k][2] = 0 /\ (k > 1 => file[k - 1][1] < file[k][1])
        /\ off > 0 => Len(file) > 0 /\ file[Len(file)] = <<curr_ptrs, off - 1>>
        /\ off = 0 /\ Len(file) > 0 => file[Len(file)][1] < curr_ptrs
    BY <1>1, <1>17 DEF FileSoFar
  <2>2. ASSUME NEW j \in 1 .. size
        PROVE  /\ Len(file) + j \in 1 .. Len(file')
               /\ file'[Len(file) + j] = <<curr_ptrs, off + (j - 1)>>
    <3>1. Len(text) = size /\ Len(file') = Len(file) + size
      BY <1>2, <1>6
    <3>2. Len(file) + j \in 1 .. Len(file')
      BY <1>3, <1>4, <3>1
    <3>3. file'[Len(file) + j] = text[j]
      BY <1>2, <3>1
    <3> QED
      BY <1>6, <3>2, <3>3
  <2>3. ASSUME NEW m \in 1 .. Len(file')
        PROVE  \/ m > 1 /\ file'[m] = <<file'[m - 1][1], file'[m - 1][2] + 1>>
               \/ file'[m][2] = 0 /\ (m > 1 => file'[m - 1][1] < file'[m][1])
    <3>1. CASE m \in 1 .. Len(file)
      <4>1. m > 1 => m - 1 \in 1 .. Len(file)
        BY <1>3, <3>1
      <4> QED
        BY <1>2, <2>1, <3>1, <4>1
    <3>2. CASE m = Len(file) + 1
      <4>1. 1 \in 1 .. size
        BY <1>2, <1>3, <1>4, <1>6, <3>2
      <4>2. file'[m] = <<curr_ptrs, off>>
        BY <1>4, <2>2, <3>2, <4>1
      <4>3. m - 1 = Len(file) /\ (m > 1 => Len(file) > 0)
        BY <1>3, <3>2
      <4>4. Len(file) > 0 => file'[Len(file)] = file[Len(file)]
        BY <1>2, <1>3
      <4>5. CASE off > 0
        <5>1. m > 1 /\ file'[m - 1] = <<curr_ptrs, off - 1>>
          BY <1>3, <2>1, <3>2, <4>3, <4>4, <4>5
        <5> QED
          BY <1>4, <4>2, <5>1
      <4>6. CASE off = 0
        BY <2>1, <4>2, <4>3, <4>4, <4>6
      <4> QED
        BY <1>4, <4>5, <4>6
    <3>3. CASE m > Len(file) + 1
      <4> DEFINE j == m - Len(file)
      <4>1. /\ j \in 1 .. size /\ j - 1 \in 1 .. size /\ j \in Nat
            /\ Len(file) + j = m /\ Len(file) + (j - 1) = m - 1 /\ m > 1
        BY <1>2, <1>3, <1>4, <1>6, <3>3
      <4> HIDE DEF j
      <4>2. file'[m] = <<curr_ptrs, off + (j - 1)>> /\ file'[m - 1] = <<curr_ptrs, off + ((j - 1) - 1)>>
        BY <2>2, <4>1
      <4>3. (off + ((j - 1) - 1)) + 1 = off + (j - 1)
        BY <1>4, <4>1
      <4> QED
        BY <4>1, <4>2, <4>3
    <3> QED
      BY <1>3, <3>1, <3>2, <3>3
  <2>4. CASE size > 0
    <3>1. /\ size \in 1 .. size /\ Len(file') = Len(file) + size /\ Len(file') > 0
          /\ off + size > 0 /\ off + (size - 1) = (off + size) - 1
      BY <1>2, <1>3, <1>4, <1>6, <2>4
    <3>2. file'[Len(file')] = <<curr_ptrs, (off + size) - 1>>
      BY <2>2, <3>1
    <3> QED
      BY <1>1, <1>17, <2>3, <3>1, <3>2 DEF FileSoFar
  <2>5. CASE size = 0
    <3>1. Len(file') = Len(file) /\ off + size = off
      BY <1>2, <1>3, <1>4, <1>6, <2>5
    <3>2. Len(file) > 0 => file'[Len(file)] = file[Len(file)]
      BY <1>2, <1>3
    <3> QED
      BY <1>1, <1>17, <2>1, <2>3, <3>1, <3>2 DEF FileSoFar
  <2> QED
    BY <1>4, <2>4, <2>5
<1> QED
  BY <1>9, <1>10, <1>14, <1>15, <1>16, <1>18 DEF Inv

LEMMA FinishWriteKeeps ==
  ASSUME Inv, FinishWrite
  PROVE  Inv'
<1> DEFINE b == file_write[1].part
           free == Len(free_spaces)
<1>1. /\ Typed /\ AllPlaced /\ Apart /\ Adjacent /\ Texts /\ CallerAt /\ FileSoFar
      /\ UNCHANGED <<textify, workspace, curr_ptrs, n, i, hand, pc, file>>
  BY DEF Inv, FinishWrite
<1>2. /\ Len(file_write) > 0 /\ file_write[1].line = 1 /\ b \in Parts
      /\ file_write' \in Seq(Entry) /\ Len(file_write') = Len(file_write) - 1
      /\ \A j \in 1 .. Len(file_write) - 1 :
           /\ file_write'[j].part = file_write[j + 1].part
           /\ file_write'[j].line = file_write[j + 1].line /\ ~file_write'[j].finished
      /\ free_spaces' \in Seq(Parts) /\ Len(free_spaces') = Len(free_spaces) + 1
      /\ \A j \in 1 .. Len(free_spaces) : free_spaces'[j] = free_spaces[j]
      /\ free_spaces'[Len(free_spaces) + 1] = b
  <2>1. \A j \in 1 .. Len(file_write) : ~file_write[j].finished
    BY <1>1 DEF Texts
  <2> QED
    BY <1>1, <2>1, FinishWriteEffect
<1>3. /\ Len(textify) \in Nat /\ Len(file_write) \in Nat /\ Len(free_spaces) \in Nat
      /\ 1 \in 1 .. Len(file_write)
      /\ \A j \in 1 .. Len(file_write) - 1 : j + 1 \in 1 .. Len(file_write) /\ j + 1 # 1
      /\ \A j \in 1 .. Len(free_spaces) + 1 : j \in 1 .. Len(free_spaces) \/ j = Len(free_spaces) + 1
      /\ \A j \in 1 .. Len(free_spaces) : j \in 1 .. Len(free_spaces) + 1
      /\ Len(free_spaces) + 1 \in 1 .. Len(free_spaces) + 1
  BY <1>1, <1>2, Lengths
<1>4. Typed'
  BY <1>1, <1>2 DEF Typed
<1>5. AllPlaced'
  <2>1. InHand' + Len(free_spaces') + Len(textify') + Len(file_write') = NWriters
    <3>1. InHand' = InHand /\ InHand \in Nat
      BY <1>1 DEF InHand
    <3>2. InHand + Len(free_spaces) + Len(textify) + Len(file_write) = NWriters
      BY <1>1 DEF AllPlaced
    <3> QED
      BY <1>1, <1>2, <1>3, <3>1, <3>2
  <2>2. ASSUME NEW k \in 1 .. Len(file_write)
        PROVE  \/ \E j \in 1 .. Len(free_spaces') : free_spaces'[j] = file_write[k].part
               \/ \E j \in 1 .. Len(file_write') : file_write'[j].part = file_write[k].part
    <3>1. CASE k = 1
      BY <1>2, <1>3, <3>1
    <3>2. CASE k # 1
      <4>1. k - 1 \in 1 .. Len(file_write) - 1 /\ (k - 1) + 1 = k
        BY <1>3, <3>2
      <4>2. k - 1 \in 1 .. Len(file_write') /\ file_write'[k - 1].part = file_write[k].part
        BY <1>2, <4>1
      <4> QED
        BY <4>2
    <3> QED
      BY <3>1, <3>2
  <2>3. \A k \in 1 .. Len(free_spaces) : \E j \in 1 .. Len(free_spaces') : free_spaces'[j] = free_spaces[k]
    BY <1>2, <1>3
  <2>4. ASSUME NEW c \in Parts
        PROVE  \/ hand' = c
               \/ \E k \in 1 .. Len(free_spaces') : free_spaces'[k] = c
               \/ \E k \in 1 .. Len(textify') : textify'[k].part = c
               \/ \E k \in 1 .. Len(file_write') : file_write'[k].part = c
    <3>1. \/ hand = c
          \/ \E k \in 1 .. Len(free_spaces) : free_spaces[k] = c
          \/ \E k \in 1 .. Len(textify) : textify[k].part = c
          \/ \E k \in 1 .. Len(file_write) : file_write[k].part = c
      BY <1>1 DEF AllPlaced
    <3> QED
      BY <1>1, <2>2, <2>3, <3>1
  <2> QED
    BY <2>1, <2>4 DEF AllPlaced
<1>6. Apart'
  <2>1. /\ \A j \in 1 .. Len(free_spaces) : hand # free_spaces[j]
        /\ \A j \in 1 .. Len(textify) : hand # textify[j].part
        /\ \A j \in 1 .. Len(file_write) : hand # file_write[j].part
        /\ \A j, m \in 1 .. Len(free_spaces) : free_spaces[j] = free_spaces[m] => j = m
        /\ \A j, m \in 1 .. Len(textify) : textify[j].part = textify[m].part => j = m
        /\ \A j, m \in 1 .. Len(file_write) : file_write[j].part = file_write[m].part => j = m
        /\ \A j \in 1 .. Len(free_spaces), m \in 1 .. Len(textify) : free_spaces[j] # textify[m].part
        /\ \A j \in 1 .. Len(free_spaces), m \in 1 .. Len(file_write) : free_spaces[j] # file_write[m].part
        /\ \A j \in 1 .. Len(textify), m \in 1 .. Len(file_write) : textify[j].part # file_write[m].part
    BY <1>1 DEF Apart
  <2>2. \A j \in 1 .. Len(file_write') :
          j + 1 \in 1 .. Len(file_write) /\ j + 1 # 1 /\ file_write'[j].part = file_write[j + 1].part
    BY <1>2, <1>3
  <2>3. \A j \in 1 .. Len(free_spaces') :
          \/ j \in 1 .. Len(free_spaces) /\ free_spaces'[j] = free_spaces[j]
          \/ j = Len(free_spaces) + 1 /\ free_spaces'[j] = b
    BY <1>2, <1>3
  <2>4. /\ \A j \in 1 .. Len(free_spaces') : hand # free_spaces'[j]
        /\ \A j \in 1 .. Len(file_write') : hand # file_write'[j].part
    <3>1. hand # b
      BY <1>3, <2>1
    <3>2. \A j \in 1 .. Len(free_spaces') : hand # free_spaces'[j]
      BY <2>1, <2>3, <3>1
    <3>3. \A j \in 1 .. Len(file_write') : hand # file_write'[j].part
      BY <2>1, <2>2
    <3> QED
      BY <3>2, <3>3
  <2>5. \A j, m \in 1 .. Len(free_spaces') : free_spaces'[j] = free_spaces'[m] => j = m
    BY <1>3, <2>1, <2>3
  <2>6. ASSUME NEW j \in 1 .. Len(file_write'), NEW m \in 1 .. Len(file_write'),
               file_write'[j].part = file_write'[m].part
        PROVE  j = m
    <3>1. j + 1 = m + 1
      BY <2>1, <2>2, <2>6
    <3> QED
      BY <3>1
  <2>7. \A j \in 1 .. Len(free_spaces'), m \in 1 .. Len(textify) : free_spaces'[j] # textify[m].part
    BY <1>3, <2>1, <2>3
  <2>8. \A j \in 1 .. Len(free_spaces'), m \in 1 .. Len(file_write') : free_spaces'[j] # file_write'[m].part
    BY <1>3, <2>1, <2>2, <2>3
  <2>9. \A j \in 1 .. Len(textify), m \in 1 .. Len(file_write') : textify[j].part # file_write'[m].part
    BY <2>1, <2>2
  <2> QED
    BY <1>1, <2>1, <2>4, <2>5, <2>6, <2>7, <2>8, <2>9 DEF Apart
<1>7. \A j \in 1 .. Len(file_write) - 1 : /\ Off(file_write'[j]) = Off(file_write[j + 1])
                                          /\ End(file_write'[j]) = End(file_write[j + 1])
  BY <1>2 DEF Off, End
<1>8. TextStart' = TextStart
  BY <1>1 DEF TextStart, Off, Cut
<1>9. \A j \in 1 .. Len(file_write) :
        End(file_write[j]) = IF j < Len(file_write) THEN Off(file_write[j + 1]) ELSE TextStart
  BY <1>1 DEF Adjacent
<1>10. Adjacent'
  <2>1. ASSUME NEW j \in 1 .. Len(file_write')
        PROVE  End(file_write'[j]) = IF j < Len(file_write') THEN Off(file_write'[j + 1]) ELSE TextStart
    <3>1. j + 1 \in 1 .. Len(file_write) /\ End(file_write'[j]) = End(file_write[j + 1])
      BY <1>2, <1>3, <1>7
    <3>2. CASE j < Len(file_write')
      <4>1. j + 1 < Len(file_write) /\ j + 1 \in 1 .. Len(file_write) - 1
        BY <1>2, <1>3, <3>2
      <4> QED
        BY <1>7, <1>9, <3>1, <3>2, <4>1
    <3>3. CASE ~(j < Len(file_write'))
      <4>1. ~(j + 1 < Len(file_write))
        BY <1>2, <1>3, <3>3
      <4> QED
        BY <1>9, <3>1, <3>3, <4>1
    <3> QED
      BY <3>2, <3>3
  <2>2. ASSUME NEW j \in 1 .. Len(textify)
        PROVE  End(textify[j])' = IF j < Len(textify) THEN Off(textify[j + 1])' ELSE Cut'
    BY <1>1 DEF Adjacent, Off, End, Cut
  <2>3. hand # NoPart => /\ i < n /\ workspace[hand].off = i
                         /\ workspace[hand].size = IF ChunkSize < n - i THEN ChunkSize ELSE n - i
    BY <1>1 DEF Adjacent
  <2>4. \A j \in 1 .. Len(file_write') :
          End(file_write[j])' = IF j < Len(file_write') THEN Off(file_write[j + 1])' ELSE TextStart'
    BY <1>1, <1>8, <2>1 DEF Off, End
  <2> QED
    BY <1>1, <2>2, <2>3, <2>4 DEF Adjacent
<1>11. Written' = Written
  <2>1. Written = End(file_write[1])
    BY <1>2 DEF Written
  <2>2. CASE Len(file_write) = 1
    <3>1. Written' = TextStart
      BY <1>2, <1>8, <2>2 DEF Written
    <3> QED
      BY <1>3, <1>9, <2>1, <2>2, <3>1
  <2>3. CASE Len(file_write) > 1
    <3>1. /\ 1 \in 1 .. Len(file_write) - 1 /\ Len(file_write') > 0 /\ 1 + 1 \in 1 .. Len(file_write)
          /\ 1 + 1 > 1
      BY <1>2, <1>3, <2>3
    <3>2. file_write'[1].line = 0
      BY <1>1, <1>2, <3>1 DEF Texts
    <3>3. Written' = Off(file_write'[1])
      BY <1>1, <3>1, <3>2 DEF Written, Off
    <3> QED
      BY <1>3, <1>7, <1>9, <2>1, <2>3, <3>1, <3>3
  <2> QED
    BY <1>2, <1>3, <2>2, <2>3
<1>12. Texts'
  <2>1. ASSUME NEW j \in 1 .. Len(free_spaces')
        PROVE  Holds(workspace[free_spaces'[j]], curr_ptrs, 0)
    <3>1. CASE j \in 1 .. Len(free_spaces)
      BY <1>1, <1>2, <3>1 DEF Texts
    <3>2. CASE j = Len(free_spaces) + 1
      <4>1. Holds(workspace[b], curr_ptrs, 0)
        BY <1>1, <1>2, <1>3 DEF Texts
      <4> QED
        BY <1>2, <3>2, <4>1
    <3> QED
      BY <1>2, <1>3, <3>1, <3>2
  <2>2. ASSUME NEW j \in 1 .. Len(file_write')
        PROVE  LET e == file_write'[j] w == workspace[e.part] IN
               /\ ~e.finished /\ e.line \in {0, 1} /\ (j > 1 => e.line = 0)
               /\ Holds(w, curr_ptrs, IF e.line = 0 THEN w.size ELSE 0)
    <3>1. /\ j + 1 \in 1 .. Len(file_write) /\ j + 1 > 1
          /\ file_write'[j].part = file_write[j + 1].part
          /\ file_write'[j].line = file_write[j + 1].line /\ ~file_write'[j].finished
      BY <1>2, <1>3
    <3>2. LET e == file_write[j + 1] w == workspace[e.part] IN
          e.line = 0 /\ Holds(w, curr_ptrs, w.size)
      BY <1>1, <3>1 DEF Texts
    <3> QED
      BY <3>1, <3>2
  <2> QED
    BY <1>1, <2>1, <2>2 DEF Texts
<1>13. CallerAt'
  <2>1. file_write # <<>>
    BY <1>2
  <2> QED
    BY <1>1, <2>1 DEF CallerAt
<1>14. FileSoFar'
  BY <1>1, <1>11, SameFile
<1> QED
  BY <1>4, <1>5, <1>6, <1>10, <1>12, <1>13, <1>14 DEF Inv

LEMMA InvStep == Inv /\ [Next]_vars => Inv'
<1> SUFFICES ASSUME Inv, [Next]_vars PROVE Inv'
  OBVIOUS
<1>1. ASSUME NEW k \in 1 .. NWriters, TextStep(k) PROVE Inv'
  <2>1. k \in 1 .. Len(textify)
    BY <1>1, Lengths DEF TextStep, Inv
  <2> QED
    BY <1>1, <2>1, PartToTextKeeps, FinishTextKeeps DEF TextStep
<1> QED
  BY <1>1, WriteKeeps, PopSpaceKeeps, PushPartKeeps, WaitKeeps, WriteToFileKeeps, FinishWriteKeeps,
     StutterKeeps
  DEF Next, CallerStep, FileStep

(***************************************************************************)
(* The theorems.                                                           *)
(***************************************************************************)
LEMMA ConcatMembers ==
  ASSUME NEW S, NEW s \in Seq(S), NEW t \in Seq(S)
  PROVE  /\ s \o t \in Seq(S) /\ Len(s \o t) = Len(s) + Len(t)
         /\ Range(s \o t) = Range(s) \cup Range(t)
BY ConcatProperties, RangeConcatenation

\* A workspace is free, in the hands of Write or in one stage, so nobody fills
\* one that is being read: AllPlaced and Apart are the invariant, OnePlace is
\* what TLC checks of it.
THEOREM PlacesCorrect == Safety => []OnePlace
<1>1. Inv => OnePlace
  <2> SUFFICES ASSUME Inv PROVE OnePlace
    OBVIOUS
  <2> DEFINE A == IF hand = NoPart THEN <<>> ELSE <<hand>>
             C == [k \in DOMAIN textify |-> textify[k].part]
             D == [k \in DOMAIN file_write |-> file_write[k].part]
             AF == A \o free_spaces
             AFC == AF \o C
             held == AFC \o D
  <2>1. Typed /\ AllPlaced
    BY DEF Inv
  <2>2. /\ A \in Seq(Parts) /\ Len(A) = InHand /\ InHand \in Nat
        /\ hand # NoPart => hand \in Range(A)
    <3>1. CASE hand = NoPart
      <4>1. A = <<>> /\ InHand = 0
        BY <3>1 DEF InHand
      <4>2. A \in Seq(Parts) /\ Len(A) = 0
        BY <4>1
      <4> QED
        BY <3>1, <4>1, <4>2
    <3>2. CASE hand # NoPart
      <4>1. A = <<hand>> /\ InHand = 1 /\ hand \in Parts
        BY <2>1, <3>2 DEF InHand, Typed
      <4>2. A \in Seq(Parts) /\ Len(A) = 1 /\ A[1] = hand /\ 1 \in DOMAIN A
        BY <4>1
      <4> QED
        BY <4>1, <4>2 DEF Range
    <3> QED
      BY <3>1, <3>2
  <2>3. /\ C \in Seq(Parts) /\ Len(C) = Len(textify)
        /\ \A k \in 1 .. Len(textify) : textify[k].part \in Range(C)
    <3>1. /\ DOMAIN textify = 1 .. Len(textify) /\ Len(textify) \in Nat
          /\ \A k \in 1 .. Len(textify) : textify[k].part \in Parts
      BY <2>1, Lengths, LenProperties DEF Typed, Entry
    <3>2. C \in [1 .. Len(textify) -> Parts]
      BY <3>1
    <3>3. C \in Seq(Parts) /\ Len(C) = Len(textify)
      BY <3>1, <3>2
    <3> QED
      BY <3>1, <3>3 DEF Range
  <2>4. /\ D \in Seq(Parts) /\ Len(D) = Len(file_write)
        /\ \A k \in 1 .. Len(file_write) : file_write[k].part \in Range(D)
    <3>1. /\ DOMAIN file_write = 1 .. Len(file_write) /\ Len(file_write) \in Nat
          /\ \A k \in 1 .. Len(file_write) : file_write[k].part \in Parts
      BY <2>1, Lengths, LenProperties DEF Typed, Entry
    <3>2. D \in [1 .. Len(file_write) -> Parts]
      BY <3>1
    <3>3. D \in Seq(Parts) /\ Len(D) = Len(file_write)
      BY <3>1, <3>2
    <3> QED
      BY <3>1, <3>3 DEF Range
  <2>5. free_spaces \in Seq(Parts) /\ \A k \in 1 .. Len(free_spaces) : free_spaces[k] \in Range(free_spaces)
    <3>1. free_spaces \in Seq(Parts)
      BY <2>1 DEF Typed
    <3> QED
      BY <3>1, LenProperties DEF Range
  <2> HIDE DEF A, C, D
  <2>6. /\ AF \in Seq(Parts) /\ Len(AF) = Len(A) + Len(free_spaces)
        /\ Range(AF) = Range(A) \cup Range(free_spaces)
    BY <2>2, <2>5, ConcatMembers
  <2> HIDE DEF AF
  <2>7. /\ AFC \in Seq(Parts) /\ Len(AFC) = Len(AF) + Len(C) /\ Range(AFC) = Range(AF) \cup Range(C)
    BY <2>3, <2>6, ConcatMembers
  <2> HIDE DEF AFC
  <2>8. /\ held \in Seq(Parts) /\ Len(held) = Len(AFC) + Len(D) /\ Range(held) = Range(AFC) \cup Range(D)
    BY <2>4, <2>7, ConcatMembers
  <2> HIDE DEF held
  <2>9. Range(held) \subseteq Parts
    BY <2>8, RangeOfSeq
  <2>10. Len(held) = NWriters
    BY <2>1, <2>2, <2>3, <2>4, <2>6, <2>7, <2>8 DEF AllPlaced
  <2>11. ASSUME NEW b \in Parts PROVE b \in Range(held)
    <3>1. hand = b => b \in Range(A)
      BY <2>2, PartFacts
    <3>2. /\ (\E k \in 1 .. Len(free_spaces) : free_spaces[k] = b) => b \in Range(free_spaces)
          /\ (\E k \in 1 .. Len(textify) : textify[k].part = b) => b \in Range(C)
          /\ (\E k \in 1 .. Len(file_write) : file_write[k].part = b) => b \in Range(D)
      BY <2>3, <2>4, <2>5
    <3> QED
      BY <2>1, <2>6, <2>7, <2>8, <3>1, <3>2 DEF AllPlaced
  <2>12. {held[k] : k \in DOMAIN held} = Parts
    BY <2>9, <2>11 DEF Range
  <2>13. held = (((IF hand = NoPart THEN <<>> ELSE <<hand>>) \o free_spaces)
                   \o [k \in DOMAIN textify |-> textify[k].part])
                   \o [k \in DOMAIN file_write |-> file_write[k].part]
    BY DEF held, AFC, AF, A, C, D
  <2> QED
    BY <2>10, <2>12, <2>13 DEF OnePlace
<1> QED
  BY <1>1, InvInit, InvStep, PTL DEF Safety

\* The file holds the lines of the calls in order, without a gap or a double,
\* and all lines of a call once it has returned, although several chunks become
\* text at the same time.
THEOREM FileCorrect == Safety => []FileInOrder
<1>1. Inv => FileInOrder
  <2> SUFFICES ASSUME Inv PROVE FileInOrder
    OBVIOUS
  <2>1. /\ Typed /\ CallerAt /\ FileSoFar
        /\ Len(file) \in Nat /\ DOMAIN file = 1 .. Len(file)
        /\ Len(file) > 0 => file # <<>>
        /\ n \in Nat /\ i \in Nat
    BY Lengths, LenProperties DEF Inv, Typed
  <2>2. ASSUME pc = "idle", n > 0 PROVE file # <<>> /\ file[Len(file)] = <<curr_ptrs, n - 1>>
    <3>1. Len(textify) = 0 /\ Len(file_write) = 0 /\ i >= n
      BY <2>1, <2>2 DEF CallerAt
    <3>2. Written = n
      BY <2>1, <3>1 DEF Written, TextStart, Cut
    <3> QED
      BY <2>1, <2>2, <3>2 DEF FileSoFar
  <2>3. \A k \in DOMAIN file :
          \/ k > 1 /\ file[k] = <<file[k - 1][1], file[k - 1][2] + 1>>
          \/ file[k][2] = 0 /\ (k > 1 => file[k - 1][1] < file[k][1])
    BY <2>1 DEF FileSoFar
  <2> QED
    BY <2>2, <2>3 DEF FileInOrder
<1> QED
  BY <1>1, InvInit, InvStep, PTL DEF Safety
=============================================================================
