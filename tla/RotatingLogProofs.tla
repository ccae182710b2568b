-------------------------- MODULE RotatingLogProofs --------------------------
(***************************************************************************)
(* Proofs about RotatingLog for any limits and any number of files: the    *)
(* device goes on where it should, nothing is lost, and only the oldest    *)
(* files are removed, across crashes and removals that fail.               *)
(***************************************************************************)
EXTENDS RotatingLog, FiniteSetTheorems, FunctionTheorems, SequenceTheorems, TLAPS

(***************************************************************************)
(* Counting: what Oldest takes and what it leaves.                         *)
(***************************************************************************)
Below(F, i) == {j \in F : j < i}
Rank(F, i) == Cardinality(Below(F, i))

\* The number of older files orders the files.
LEMMA RankProperties ==
  ASSUME NEW F \in SUBSET Nat, IsFiniteSet(F)
  PROVE  /\ Cardinality(F) \in Nat
         /\ \A i \in F : Rank(F, i) \in 0 .. Cardinality(F) - 1
         /\ \A i, j \in F : i < j => Rank(F, i) < Rank(F, j)
<1>1. Cardinality(F) \in Nat
  BY FS_CardinalityType
<1>2. \A i \in F : IsFiniteSet(Below(F, i)) /\ Rank(F, i) \in Nat
  BY FS_Subset, FS_CardinalityType DEF Below, Rank
<1>3. ASSUME NEW i \in F PROVE Rank(F, i) <= Cardinality(F) - 1
  <2>1. /\ IsFiniteSet(F \ {i})
        /\ Cardinality(F \ {i}) = Cardinality(F) - 1
    BY FS_RemoveElement
  <2>2. Below(F, i) \in SUBSET (F \ {i})
    BY DEF Below
  <2> QED
    BY <2>1, <2>2, FS_Subset DEF Rank
<1>4. ASSUME NEW i \in F, NEW j \in F, i < j PROVE Rank(F, i) < Rank(F, j)
  <2>1. \A k \in F : k < i => k < j
    BY <1>4
  <2>2. ~(i < i)
    OBVIOUS
  <2>3. /\ Below(F, i) \in SUBSET Below(F, j)
        /\ i \in Below(F, j) /\ i \notin Below(F, i)
    BY <1>4, <2>1, <2>2 DEF Below
  <2>4. /\ Cardinality(Below(F, i)) <= Cardinality(Below(F, j))
        /\ Cardinality(Below(F, i)) # Cardinality(Below(F, j))
    BY <1>2, <2>3, FS_Subset
  <2> QED
    BY <1>2, <2>4 DEF Rank
<1> QED
  BY <1>1, <1>2, <1>3, <1>4

\* No two files of a set have the same rank, so a set of files with ranks from
\* lo to hi has at most hi - lo + 1 of them.
LEMMA RankBounds ==
  ASSUME NEW F \in SUBSET Nat, IsFiniteSet(F),
         NEW G \in SUBSET F, NEW lo \in Int, NEW hi \in Int, lo <= hi + 1,
         \A i \in G : Rank(F, i) \in lo .. hi
  PROVE  /\ Cardinality(G) <= hi - lo + 1
         /\ Cardinality(G) = hi - lo + 1 => \A r \in lo .. hi : \E i \in G : Rank(F, i) = r
<1> DEFINE f == [i \in G |-> Rank(F, i)]
<1>1. f \in Injection(G, lo .. hi)
  <2>1. f \in [G -> lo .. hi]
    OBVIOUS
  <2>2. ASSUME NEW i \in G, NEW j \in G, f[i] = f[j] PROVE i = j
    <3>1. ~(Rank(F, i) < Rank(F, j)) /\ ~(Rank(F, j) < Rank(F, i))
      BY <2>2
    <3> QED
      BY <3>1, RankProperties
  <2> QED
    BY <2>1, <2>2 DEF Injection, IsInjective
<1>2. /\ IsFiniteSet(lo .. hi)
      /\ Cardinality(lo .. hi) = hi - lo + 1
  BY FS_Interval
<1>3. /\ Cardinality(G) <= Cardinality(lo .. hi)
      /\ Cardinality(G) = Cardinality(lo .. hi) => f \in Surjection(G, lo .. hi)
  <2> HIDE DEF f
  <2> QED
    BY <1>1, <1>2, FS_Injection
<1>4. f \in Surjection(G, lo .. hi) => \A r \in lo .. hi : \E i \in G : f[i] = r
  BY DEF Surjection
<1> QED
  BY <1>2, <1>3, <1>4

\* The newest file is newer than the others (RemoveLogFilesIfNecessary is given
\* a sorted list).
LEMMA NewestProperties ==
  ASSUME NEW F \in SUBSET Nat, IsFiniteSet(F), F # {}
  PROVE  Newest(F) \in F /\ \A j \in F : j <= Newest(F)
<1> DEFINE c == Cardinality(F)
<1>1. c \in Nat /\ \A i \in F : Rank(F, i) \in 0 .. c - 1
  BY RankProperties
<1>2. c - 1 \in 0 .. c - 1
  BY <1>1, FS_EmptySet
<1>3. PICK i \in F : Rank(F, i) = c - 1
  <2>1. c = c - 1 - 0 + 1 /\ 0 <= c - 1 + 1 /\ c - 1 \in Int /\ 0 \in Int
    BY <1>1
  <2>2. \A r \in 0 .. c - 1 : \E i \in F : Rank(F, i) = r
    BY <1>1, <2>1, RankBounds
  <2> QED
    BY <1>2, <2>2
<1>4. /\ Below(F, i) \in SUBSET (F \ {i})
      /\ IsFiniteSet(F \ {i}) /\ Cardinality(F \ {i}) = c - 1
  BY FS_RemoveElement DEF Below
<1>5. Below(F, i) = F \ {i}
  BY <1>3, <1>4, FS_Subset DEF Rank
<1>6. \A j \in F : j <= i
  BY <1>5 DEF Below
<1> QED
  BY <1>6 DEF Newest

LEMMA NewestIs ==
  ASSUME NEW F \in SUBSET Nat, NEW i \in F, \A j \in F : j <= i
  PROVE  Newest(F) = i
<1>1. Newest(F) \in F /\ \A j \in F : j <= Newest(F)
  BY DEF Newest
<1>2. Newest(F) \in Nat /\ i \in Nat
  BY <1>1
<1>3. Newest(F) <= i /\ i <= Newest(F)
  BY <1>1
<1> QED
  BY <1>2, <1>3

\* Oldest takes all but max files, and those that stay are newer.
LEMMA OldestProperties ==
  ASSUME NEW F \in SUBSET Nat, IsFiniteSet(F), NEW max \in Nat,
         NEW D, D = Oldest(F, Cardinality(F) - max)
  PROVE  /\ D \in SUBSET F
         /\ Cardinality(F \ D) <= max
         /\ D # {} => Cardinality(F \ D) = max
         /\ \A i \in D : \A j \in F \ D : i < j
<1> DEFINE c == Cardinality(F)
<1>1. /\ c \in Nat
      /\ \A i \in F : Rank(F, i) \in 0 .. c - 1
      /\ \A i, j \in F : i < j => Rank(F, i) < Rank(F, j)
  BY RankProperties
<1>2. D = {i \in F : Rank(F, i) < c - max}
  BY DEF Oldest, Rank, Below
<1> HIDE DEF c
<1>3. D \in SUBSET F /\ IsFiniteSet(D) /\ IsFiniteSet(F \ D)
  BY <1>2, FS_Subset
<1>4. \A i \in D : \A j \in F \ D : i < j
  <2> SUFFICES ASSUME NEW i \in D, NEW j \in F \ D, ~(i < j) PROVE FALSE
    OBVIOUS
  <2>a. i \in F /\ j \in F
    BY <1>3
  <2>b. i \in Nat /\ j \in Nat
    BY <2>a
  <2>1. j < i \/ j = i
    BY <2>b
  <2>2. /\ Rank(F, j) < Rank(F, i) \/ Rank(F, j) = Rank(F, i)
        /\ Rank(F, i) < c - max /\ ~(Rank(F, j) < c - max)
    BY <1>1, <1>2, <2>a, <2>1
  <2>3. Rank(F, i) \in Int /\ Rank(F, j) \in Int /\ c - max \in Int
    BY <1>1, <2>a
  <2> QED
    BY <2>2, <2>3
<1>5. Cardinality(F \ D) = c - Cardinality(D) /\ Cardinality(D) \in Nat
  <2>1. F \cap D = D
    BY <1>3
  <2>2. Cardinality(F \ D) = Cardinality(F) - Cardinality(F \cap D)
    BY FS_Difference
  <2>3. Cardinality(D) \in Nat
    BY <1>3, FS_CardinalityType
  <2> QED
    BY <2>1, <2>2, <2>3 DEF c
<1>6. ASSUME c <= max
      PROVE  Cardinality(F \ D) <= max /\ (D # {} => Cardinality(F \ D) = max)
  <2>1. ASSUME NEW i \in F PROVE ~(Rank(F, i) < c - max)
    <3>1. Rank(F, i) \in Nat
      BY <1>1
    <3> QED
      BY <1>1, <1>6, <3>1
  <2>2. D = {} /\ Cardinality(D) = 0
    BY <1>2, <2>1, FS_EmptySet
  <2> QED
    BY <1>1, <1>5, <1>6, <2>2
<1>7. ASSUME c > max
      PROVE  Cardinality(F \ D) <= max /\ (D # {} => Cardinality(F \ D) = max)
  <2>1. /\ c - max \in Int /\ c - 1 \in Int /\ c - max <= c - 1 + 1
        /\ c - 1 - (c - max) + 1 = max
        /\ 0 \in Int /\ c - max - 1 \in Int /\ 0 <= c - max - 1 + 1
        /\ c - max - 1 - 0 + 1 = c - max
    BY <1>1, <1>7
  <2>2. ASSUME NEW i \in F \ D PROVE Rank(F, i) \in c - max .. c - 1
    <3>1. Rank(F, i) \in 0 .. c - 1 /\ ~(Rank(F, i) < c - max)
      BY <1>1, <1>2
    <3> QED
      BY <1>1, <3>1
  <2>3. Cardinality(F \ D) <= c - 1 - (c - max) + 1
    <3>1. F \ D \in SUBSET F
      OBVIOUS
    <3> QED
      BY <2>1, <2>2, <3>1, RankBounds
  <2>4. ASSUME NEW i \in D PROVE Rank(F, i) \in 0 .. c - max - 1
    <3>1. Rank(F, i) \in 0 .. c - 1 /\ Rank(F, i) < c - max
      BY <1>1, <1>2
    <3> QED
      BY <1>1, <3>1
  <2>5. Cardinality(D) <= c - max - 1 - 0 + 1
    BY <1>3, <2>1, <2>4, RankBounds
  <2>6. Cardinality(F \ D) = max
    BY <1>1, <1>5, <2>1, <2>3, <2>5
  <2> QED
    BY <2>6
<1>8. \/ c <= max \/ c > max
  BY <1>1
<1> QED
  BY <1>3, <1>4, <1>6, <1>7, <1>8 DEF c

\* A set of at most one element.
LEMMA AtMostOne ==
  ASSUME NEW S, IsFiniteSet(S), Cardinality(S) <= 1, NEW x \in S, NEW y \in S
  PROVE  x = y
<1>1. Cardinality(S) \in Nat /\ Cardinality(S) # 0
  BY FS_CardinalityType, FS_EmptySet
<1>2. Cardinality(S) = 1
  BY <1>1
<1> QED
  BY <1>2, FS_Singleton

\* Removing the surplus spares the newest file, which is the current one, and
\* max - 1 files between it and those removed.
LEMMA SurplusProperties ==
  ASSUME NEW F \in SUBSET Nat, IsFiniteSet(F), NEW max \in Nat \ {0},
         NEW c \in F, \A j \in F : j <= c,
         NEW D, D = Oldest(F, Cardinality(F) - max)
  PROVE  /\ D \in SUBSET F /\ c \notin D
         /\ Cardinality((F \ D) \cup {c}) <= max
         /\ \A i \in D : Cardinality({j \in (F \ D) \ {c} : j > i}) >= max - 1
<1>1. /\ D \in SUBSET F
      /\ Cardinality(F \ D) <= max
      /\ D # {} => Cardinality(F \ D) = max
      /\ \A i \in D : \A j \in F \ D : i < j
  BY OldestProperties
<1>2. IsFiniteSet(F \ D)
  BY <1>1, FS_Subset
<1>3. c \notin D
  <2> SUFFICES ASSUME c \in D PROVE FALSE
    OBVIOUS
  <2>1. Cardinality(F \ D) = max
    BY <1>1
  <2>2. PICK j \in F \ D : TRUE
    BY <1>2, <2>1, FS_EmptySet
  <2>3. c < j /\ j <= c /\ j \in Nat /\ c \in Nat
    BY <1>1
  <2> QED
    BY <2>3
<1>4. (F \ D) \cup {c} = F \ D
  BY <1>3
<1>5. ASSUME NEW i \in D
      PROVE  Cardinality({j \in (F \ D) \ {c} : j > i}) >= max - 1
  <2>1. {j \in (F \ D) \ {c} : j > i} = (F \ D) \ {c}
    <3>1. \A j \in F \ D : j > i
      <4> TAKE j \in F \ D
      <4>1. i < j /\ i \in Nat /\ j \in Nat
        BY <1>1
      <4> QED
        BY <4>1
    <3> QED
      BY <3>1
  <2>2. c \in F \ D /\ Cardinality(F \ D) = max
    BY <1>1, <1>3
  <2>3. Cardinality((F \ D) \ {c}) = Cardinality(F \ D) - 1
    BY <1>2, <2>2, FS_RemoveElement
  <2> QED
    BY <2>1, <2>2, <2>3
<1> QED
  BY <1>1, <1>3, <1>4, <1>5

(***************************************************************************)
(* The invariant.                                                          *)
(***************************************************************************)
TypeOK ==
  /\ DOMAIN disk \in SUBSET Nat /\ IsFiniteSet(DOMAIN disk)
  /\ \A i \in DOMAIN disk : disk[i] \in Seq(Nat)
  /\ DOMAIN begins = DOMAIN disk
  /\ \A i \in DOMAIN disk : begins[i] \in Nat
  /\ stuck \in SUBSET DOMAIN disk
  /\ unflushed \in Seq(Nat)
  /\ curr_file_idx \in Nat /\ curr_file_size \in Nat
  /\ max_log_file_size \in Nat /\ max_n_files \in Nat \ {0}
  /\ log_files \in SUBSET Nat /\ IsFiniteSet(log_files)
  /\ doomed \in SUBSET Nat
  /\ pc \in {"down", "size", "open", "run", "next", "trim"}
  /\ written \in Nat

\* Only a device that runs has bytes in its buffer.
Buffered == /\ pc # "run" => unflushed = <<>>
            /\ Len(unflushed) <= written

Doomed1 == Oldest(log_files, Cardinality(log_files) - max_n_files)

\* No file is newer than the current one, which exists while it is written and
\* does not when it is about to be created.
Placed ==
  /\ pc # "down" => \A i \in DOMAIN disk : i <= curr_file_idx
  /\ pc \in {"run", "trim"} => curr_file_idx \in DOMAIN disk
  /\ pc = "next" => curr_file_idx \notin DOMAIN disk
  /\ pc = "open" /\ doomed # {} => curr_file_idx \notin DOMAIN disk
  /\ pc = "size" =>
       /\ DOMAIN disk \subseteq log_files /\ log_files \ Doomed1 \subseteq DOMAIN disk
       /\ \A i \in log_files : i <= curr_file_idx
       /\ log_files # {} => curr_file_idx \in log_files \ Doomed1
       /\ doomed \subseteq Doomed1

\* The current file's size is known, and there is room in it.
Sized ==
  /\ pc \in {"size", "trim"} => curr_file_size = 0
  /\ pc = "trim" => disk[curr_file_idx] = <<>>
  /\ pc = "open" =>
       /\ curr_file_idx \in DOMAIN disk => curr_file_size = Len(disk[curr_file_idx])
       /\ curr_file_idx \notin DOMAIN disk => curr_file_size = 0
       /\ curr_file_size < max_file_size
  /\ pc = "run" =>
       /\ curr_file_size = Len(disk[curr_file_idx]) + Len(unflushed)
       /\ curr_file_size < max_file_size

\* What the removals under way leave: few enough files, and newer ones enough.
Remaining == (DOMAIN disk \ stuck) \ doomed
Newer(i) == {j \in (DOMAIN disk \ doomed) \ {curr_file_idx} : j > i}
Trimming ==
  /\ doomed # {} => pc \in {"size", "open", "trim"}
  /\ curr_file_idx \notin doomed
  /\ pc \in {"size", "open", "run", "trim"} =>
       Cardinality(Remaining \cup {curr_file_idx}) <= max_n_files
  /\ \A i \in doomed : Cardinality(Newer(i)) >= max_n_files - 1

\* The newest file is removed only while it is the last that may be relied on.
LastOne ==
  pc = "open" /\ doomed # {} /\ max_n_files = 1 =>
    \A i \in DOMAIN disk \ stuck : i + 1 = curr_file_idx

\* NothingLost, without the operator Newest.
End(i) == begins[i] + Len(disk[i])
GoesOn(i) ==
  /\ \A k \in DOMAIN disk[i] : disk[i][k] = begins[i] + k
  /\ i + 1 \in DOMAIN disk => begins[i + 1] = End(i)
  /\ (\A j \in DOMAIN disk : j <= i) =>
       /\ \A k \in DOMAIN unflushed : unflushed[k] = End(i) + k
       /\ written = End(i) + Len(unflushed)
Chained == \A i \in DOMAIN disk \ stuck : GoesOn(i)

Files == TypeOK /\ Buffered /\ Placed /\ Sized /\ Trimming /\ LastOne

-----------------------------------------------------------------------------
LEMMA OpenedProperties ==
  ASSUME NEW c \in Nat, TypeOK
  PROVE  /\ DOMAIN Opened(c) = DOMAIN disk \cup {c}
         /\ IsFiniteSet(DOMAIN disk \cup {c})
         /\ \A j \in DOMAIN disk : Opened(c)[j] = disk[j]
         /\ c \notin DOMAIN disk => Opened(c)[c] = <<>>
         /\ \A j \in DOMAIN Opened(c) : Opened(c)[j] \in Seq(Nat)
<1>1. DOMAIN Opened(c) = DOMAIN disk \cup {c}
  BY DEF Opened
<1>2. IsFiniteSet(DOMAIN disk \cup {c})
  BY FS_AddElement DEF TypeOK
<1>3. \A j \in DOMAIN disk \cup {c} :
        Opened(c)[j] = IF j \in DOMAIN disk THEN disk[j] ELSE <<>>
  BY DEF Opened
<1>4. \A j \in DOMAIN disk \cup {c} : Opened(c)[j] \in Seq(Nat)
  BY <1>3, EmptySeq DEF TypeOK
<1> QED
  BY <1>1, <1>2, <1>3, <1>4

\* What OpenCurrent leaves.
LEMMA OpenCurrentProperties ==
  ASSUME TypeOK, OpenCurrent
  PROVE  /\ DOMAIN disk' = DOMAIN disk \cup {curr_file_idx}
         /\ DOMAIN begins' = DOMAIN disk'
         /\ IsFiniteSet(DOMAIN disk') /\ DOMAIN disk' \in SUBSET Nat
         /\ \A j \in DOMAIN disk : disk'[j] = disk[j] /\ begins'[j] = begins[j]
         /\ curr_file_idx \notin DOMAIN disk =>
              disk'[curr_file_idx] = <<>> /\ begins'[curr_file_idx] = written
         /\ \A j \in DOMAIN disk' : disk'[j] \in Seq(Nat) /\ begins'[j] \in Nat
<1>1. /\ disk' = Opened(curr_file_idx)
      /\ begins' = [j \in DOMAIN disk' |-> IF j \in DOMAIN disk THEN begins[j] ELSE written]
      /\ curr_file_idx \in Nat /\ written \in Nat
  BY DEF OpenCurrent, TypeOK
<1>2. /\ DOMAIN disk' = DOMAIN disk \cup {curr_file_idx}
      /\ IsFiniteSet(DOMAIN disk')
      /\ \A j \in DOMAIN disk : disk'[j] = disk[j]
      /\ curr_file_idx \notin DOMAIN disk => disk'[curr_file_idx] = <<>>
      /\ \A j \in DOMAIN disk' : disk'[j] \in Seq(Nat)
  BY <1>1, OpenedProperties
<1>3. DOMAIN disk' \in SUBSET Nat
  BY <1>1, <1>2 DEF TypeOK
<1>4. /\ DOMAIN begins' = DOMAIN disk'
      /\ \A j \in DOMAIN disk' :
           begins'[j] = IF j \in DOMAIN disk THEN begins[j] ELSE written
  BY <1>1
<1>5. \A j \in DOMAIN disk' : begins'[j] \in Nat
  BY <1>1, <1>4 DEF TypeOK
<1> QED
  BY <1>2, <1>3, <1>4, <1>5

\* A line, and a part of the buffer, are sequences of bytes.
LEMMA LineProperties ==
  ASSUME NEW s \in Nat, NEW n \in Nat
  PROVE  /\ [k \in 1 .. s |-> n + k] \in Seq(Nat)
         /\ Len([k \in 1 .. s |-> n + k]) = s
         /\ \A k \in 1 .. s : [j \in 1 .. s |-> n + j][k] = n + k
<1> DEFINE line == [k \in 1 .. s |-> n + k]
<1>1. line \in [1 .. s -> Nat]
  OBVIOUS
<1>2. line \in Seq(Nat)
  BY <1>1, SeqDef
<1>3. Len(line) \in Nat /\ DOMAIN line = 1 .. Len(line) /\ DOMAIN line = 1 .. s
  <2>1. DOMAIN line = 1 .. s
    OBVIOUS
  <2> HIDE DEF line
  <2> QED
    BY <1>2, <2>1, LenProperties
<1>4. Len(line) = s
  BY <1>3
<1> QED
  BY <1>2, <1>4

LEMMA PartProperties ==
  ASSUME NEW t \in Seq(Nat), NEW n \in Nat, n < Len(t)
  PROVE  /\ SubSeq(t, 1, n) \in Seq(Nat) /\ Len(SubSeq(t, 1, n)) = n
         /\ \A k \in 1 .. n : SubSeq(t, 1, n)[k] = t[k]
         /\ SubSeq(t, n + 1, Len(t)) \in Seq(Nat)
         /\ Len(SubSeq(t, n + 1, Len(t))) = Len(t) - n
         /\ \A k \in 1 .. Len(t) - n : SubSeq(t, n + 1, Len(t))[k] = t[n + k]
<1>1. Len(t) \in Nat /\ \A k \in 1 .. Len(t) : t[k] \in Nat
  BY LenProperties, ElementOfSeq
<1>2. 1 \in Int /\ n \in Int /\ n + 1 \in Int /\ Len(t) \in Int
  BY <1>1
<1>3. \A k \in 1 .. n : t[k] \in Nat
  BY <1>1
<1>4. \A k \in n + 1 .. Len(t) : t[k] \in Nat
  BY <1>1
<1>5. /\ SubSeq(t, 1, n) \in Seq(Nat)
      /\ Len(SubSeq(t, 1, n)) = IF 1 <= n THEN n - 1 + 1 ELSE 0
      /\ \A k \in 1 .. n - 1 + 1 : SubSeq(t, 1, n)[k] = t[1 + k - 1]
  BY <1>2, <1>3, SubSeqProperties
<1>6. /\ SubSeq(t, n + 1, Len(t)) \in Seq(Nat)
      /\ Len(SubSeq(t, n + 1, Len(t))) =
           IF n + 1 <= Len(t) THEN Len(t) - (n + 1) + 1 ELSE 0
      /\ \A k \in 1 .. Len(t) - (n + 1) + 1 :
           SubSeq(t, n + 1, Len(t))[k] = t[n + 1 + k - 1]
  BY <1>2, <1>4, SubSeqProperties
<1>7. /\ Len(SubSeq(t, 1, n)) = n
      /\ \A k \in 1 .. n : SubSeq(t, 1, n)[k] = t[k]
  <2>1. \A k \in 1 .. n : k \in 1 .. n - 1 + 1 /\ 1 + k - 1 = k
    OBVIOUS
  <2> QED
    BY <1>5, <2>1
<1>8. /\ Len(SubSeq(t, n + 1, Len(t))) = Len(t) - n
      /\ \A k \in 1 .. Len(t) - n : SubSeq(t, n + 1, Len(t))[k] = t[n + k]
  <2>1. \A k \in 1 .. Len(t) - n :
          k \in 1 .. Len(t) - (n + 1) + 1 /\ n + 1 + k - 1 = n + k
    BY <1>1
  <2> QED
    BY <1>1, <1>6, <2>1
<1> QED
  BY <1>5, <1>6, <1>7, <1>8

\* Bytes that go on where a file ends.
LEMMA GoesOnProperties ==
  ASSUME NEW x \in Seq(Nat), NEW y \in Seq(Nat), NEW b \in Nat
  PROVE  /\ x \o y \in Seq(Nat) /\ Len(x \o y) = Len(x) + Len(y)
         /\ Len(x) \in Nat /\ Len(y) \in Nat
         /\ DOMAIN x = 1 .. Len(x) /\ DOMAIN y = 1 .. Len(y)
         /\ DOMAIN (x \o y) = 1 .. Len(x) + Len(y)
         /\ (\A k \in DOMAIN x : x[k] = b + k) /\ (\A k \in DOMAIN y : y[k] = b + Len(x) + k)
              => \A k \in DOMAIN (x \o y) : (x \o y)[k] = b + k
<1>1. /\ x \o y \in Seq(Nat) /\ Len(x \o y) = Len(x) + Len(y)
      /\ \A k \in 1 .. Len(x) + Len(y) :
           (x \o y)[k] = IF k <= Len(x) THEN x[k] ELSE y[k - Len(x)]
  BY ConcatProperties
<1>2. /\ Len(x) \in Nat /\ Len(y) \in Nat
      /\ DOMAIN x = 1 .. Len(x) /\ DOMAIN y = 1 .. Len(y)
      /\ DOMAIN (x \o y) = 1 .. Len(x) + Len(y)
  BY <1>1, LenProperties
<1>3. ASSUME \A k \in DOMAIN x : x[k] = b + k,
             \A k \in DOMAIN y : y[k] = b + Len(x) + k,
             NEW k \in 1 .. Len(x) + Len(y)
      PROVE  (x \o y)[k] = b + k
  <2>1. CASE k <= Len(x)
    <3>1. k \in 1 .. Len(x)
      BY <1>2, <2>1
    <3>2. (x \o y)[k] = x[k]
      BY <1>1, <2>1
    <3>3. x[k] = b + k
      BY <1>2, <1>3, <3>1
    <3> QED
      BY <3>2, <3>3
  <2>2. CASE ~(k <= Len(x))
    <3>1. k - Len(x) \in 1 .. Len(y)
      BY <1>2, <2>2
    <3>2. (x \o y)[k] = y[k - Len(x)]
      BY <1>1, <2>2
    <3>3. y[k - Len(x)] = b + Len(x) + (k - Len(x))
      BY <1>2, <1>3, <3>1
    <3> QED
      BY <1>2, <3>2, <3>3
  <2> QED
    BY <2>1, <2>2
<1> QED
  BY <1>1, <1>2, <1>3

-----------------------------------------------------------------------------
(***************************************************************************)
(* Types.                                                                  *)
(***************************************************************************)
LEMMA TypeInit == Init => TypeOK
<1> SUFFICES ASSUME Init PROVE TypeOK
  OBVIOUS
<1>1. /\ disk = <<>> /\ begins = <<>> /\ unflushed = <<>> /\ stuck = {} /\ log_files = {}
  BY DEF Init
<1>2. DOMAIN disk = {} /\ DOMAIN begins = {} /\ unflushed \in Seq(Nat)
  BY <1>1, EmptySeq
<1>3. IsFiniteSet({})
  BY FS_EmptySet
<1> QED
  BY <1>1, <1>2, <1>3 DEF Init, TypeOK

LEMMA AtLeastOneProperties ==
  ASSUME NEW n \in Nat
  PROVE  AtLeastOne(n) \in Nat \ {0} /\ AtLeastOne(n) >= n
BY DEF AtLeastOne

LEMMA OldestAreFiles ==
  ASSUME NEW F, NEW n
  PROVE  Oldest(F, n) \subseteq F
BY DEF Oldest

LEMMA StartTypes ==
  ASSUME TypeOK, Start PROVE TypeOK'
<1>1. /\ max_log_file_size' \in Nat /\ max_n_files' \in Nat \ {0}
  BY LogAssumption, AtLeastOneProperties DEF Start
<1>2. log_files' \in SUBSET Nat /\ IsFiniteSet(log_files')
  BY DEF Start, TypeOK
<1>3. curr_file_idx' \in Nat
  <2>1. CASE log_files' = {}
    BY <2>1 DEF Start
  <2>2. CASE log_files' # {}
    <3>1. Newest(log_files') \in log_files'
      BY <1>2, <2>2, NewestProperties
    <3> QED
      BY <1>2, <2>2, <3>1 DEF Start
  <2> QED
    BY <2>1, <2>2
<1>4. doomed' \in SUBSET Nat
  BY <1>2, OldestAreFiles DEF Start
<1> QED
  BY <1>1, <1>2, <1>3, <1>4 DEF Start, TypeOK, history

LEMMA CurrentIsFullTypes ==
  ASSUME TypeOK, CurrentIsFull PROVE TypeOK'
<1>1. doomed' \in SUBSET Nat
  BY OldestAreFiles DEF CurrentIsFull, TypeOK
<1> QED
  BY <1>1 DEF CurrentIsFull, TypeOK, history, limits

LEMMA CurrentHasRoomTypes ==
  ASSUME TypeOK, CurrentHasRoom PROVE TypeOK'
<1>1. curr_file_size' \in Nat
  BY LenProperties DEF CurrentHasRoom, TypeOK
<1> QED
  BY <1>1 DEF CurrentHasRoom, TypeOK, history, limits

LEMMA OpenTypes ==
  ASSUME TypeOK, Open PROVE TypeOK'
<1>1. /\ DOMAIN disk' = DOMAIN disk \cup {curr_file_idx}
      /\ DOMAIN begins' = DOMAIN disk'
      /\ IsFiniteSet(DOMAIN disk') /\ DOMAIN disk' \in SUBSET Nat
      /\ \A j \in DOMAIN disk' : disk'[j] \in Seq(Nat) /\ begins'[j] \in Nat
  BY OpenCurrentProperties DEF Open
<1>2. IsFiniteSet({})
  BY FS_EmptySet
<1> QED
  BY <1>1, <1>2 DEF Open, TypeOK, limits

LEMMA RemoveTypes ==
  ASSUME TypeOK, NEW i \in doomed, Remove(i) PROVE TypeOK'
<1>1. CASE /\ disk' = Without(disk, i) /\ begins' = Without(begins, i) /\ stuck' = stuck \ {i}
  <2>1. /\ DOMAIN disk' = DOMAIN disk \ {i} /\ DOMAIN begins' = DOMAIN begins \ {i}
        /\ \A j \in DOMAIN disk' : disk'[j] = disk[j]
        /\ \A j \in DOMAIN begins' : begins'[j] = begins[j]
    BY <1>1 DEF Without
  <2>2. IsFiniteSet(DOMAIN disk')
    <3>1. IsFiniteSet(DOMAIN disk \ {i})
      BY FS_RemoveElement DEF TypeOK
    <3> QED
      BY <2>1, <3>1
  <2> QED
    BY <1>1, <2>1, <2>2 DEF Remove, TypeOK, limits
<1>2. CASE stuck' = stuck \cup ({i} \cap DOMAIN disk) /\ UNCHANGED <<disk, begins>>
  BY <1>2 DEF Remove, TypeOK, limits
<1> QED
  BY <1>1, <1>2 DEF Remove

LEMMA WriteLineTypes ==
  ASSUME TypeOK, Placed, NEW s \in Nat, WriteLine(s) PROVE TypeOK'
<1> DEFINE line == [k \in 1 .. s |-> written + k]
<1>1. line \in Seq(Nat) /\ written \in Nat /\ written' = written + s /\ pc = "run"
  BY LineProperties DEF TypeOK, WriteLine
<1> HIDE DEF line
<1>2. CASE /\ unflushed' = unflushed \o line /\ curr_file_size' = curr_file_size + s
           /\ UNCHANGED <<disk, curr_file_idx, pc>>
  <2>1. unflushed \o line \in Seq(Nat)
    BY <1>1, ConcatProperties DEF TypeOK
  <2> QED
    BY <1>1, <1>2, <2>1 DEF WriteLine, TypeOK, limits
<1>3. CASE /\ disk' = [disk EXCEPT ![curr_file_idx] = @ \o unflushed \o line]
           /\ unflushed' = <<>> /\ curr_file_size' = curr_file_size + s
           /\ curr_file_idx' = curr_file_idx + 1 /\ pc' = "next"
  <2>1. curr_file_idx \in DOMAIN disk
    BY <1>1 DEF Placed
  <2>2. disk[curr_file_idx] \o unflushed \o line \in Seq(Nat)
    BY <1>1, <2>1, ConcatProperties DEF TypeOK
  <2>3. /\ DOMAIN disk' = DOMAIN disk
        /\ \A j \in DOMAIN disk' : disk'[j] \in Seq(Nat)
    BY <1>3, <2>2 DEF TypeOK
  <2>4. unflushed' \in Seq(Nat)
    BY <1>3, EmptySeq
  <2> QED
    BY <1>1, <1>3, <2>3, <2>4 DEF WriteLine, TypeOK, limits
<1> QED
  BY <1>2, <1>3 DEF WriteLine, line

LEMMA OpenNextTypes ==
  ASSUME TypeOK, OpenNext PROVE TypeOK'
<1>1. /\ DOMAIN begins' = DOMAIN disk' /\ DOMAIN disk' = DOMAIN disk \cup {curr_file_idx}
      /\ IsFiniteSet(DOMAIN disk') /\ DOMAIN disk' \in SUBSET Nat
      /\ \A j \in DOMAIN disk' : disk'[j] \in Seq(Nat) /\ begins'[j] \in Nat
  BY OpenCurrentProperties DEF OpenNext
<1>2. doomed' \in SUBSET Nat
  BY <1>1, OldestAreFiles DEF OpenNext
<1> QED
  BY <1>1, <1>2 DEF OpenNext, TypeOK, limits

\* Flush, Stop and Spill move bytes from the buffer to the current file.
LEMMA FlushTypes ==
  ASSUME TypeOK, NEW t \in Seq(Nat),
         disk' = [disk EXCEPT ![curr_file_idx] = @ \o t]
  PROVE  /\ DOMAIN disk' = DOMAIN disk
         /\ \A j \in DOMAIN disk' : disk'[j] \in Seq(Nat)
<1>1. curr_file_idx \in DOMAIN disk => disk[curr_file_idx] \o t \in Seq(Nat)
  BY ConcatProperties DEF TypeOK
<1> QED
  BY <1>1 DEF TypeOK

LEMMA StopTypes ==
  ASSUME TypeOK, Stop \/ Flush PROVE TypeOK'
<1>1. disk' = [disk EXCEPT ![curr_file_idx] = @ \o unflushed] /\ unflushed' = <<>>
  BY DEF Stop, Flush, FlushedDisk
<1>2. /\ DOMAIN disk' = DOMAIN disk
      /\ \A j \in DOMAIN disk' : disk'[j] \in Seq(Nat)
  BY <1>1, FlushTypes DEF TypeOK
<1>3. unflushed' \in Seq(Nat) /\ IsFiniteSet({})
  BY <1>1, EmptySeq, FS_EmptySet
<1>4. CASE Stop
  <2>1. /\ UNCHANGED <<written, begins, stuck>> /\ pc' = "down"
        /\ curr_file_idx' = 0 /\ curr_file_size' = 0
        /\ max_log_file_size' = 0 /\ max_n_files' = 1 /\ log_files' = {} /\ doomed' = {}
    BY <1>4 DEF Stop, Gone, history
  <2> QED
    BY <1>2, <1>3, <2>1 DEF TypeOK
<1>5. CASE Flush
  BY <1>2, <1>3, <1>5 DEF Flush, TypeOK, limits, history
<1> QED
  BY <1>4, <1>5

LEMMA SpillTypes ==
  ASSUME TypeOK, NEW n \in Nat, Spill(n) PROVE TypeOK'
<1>1. /\ SubSeq(unflushed, 1, n) \in Seq(Nat)
      /\ SubSeq(unflushed, n + 1, Len(unflushed)) \in Seq(Nat)
  BY PartProperties DEF Spill, TypeOK
<1>2. /\ DOMAIN disk' = DOMAIN disk
      /\ \A j \in DOMAIN disk' : disk'[j] \in Seq(Nat)
  BY <1>1, FlushTypes DEF Spill
<1> QED
  BY <1>1, <1>2 DEF Spill, TypeOK, limits, history

LEMMA CrashTypes ==
  ASSUME TypeOK, Buffered, Crash PROVE TypeOK'
<1>1. written' \in Nat
  BY LenProperties DEF Crash, TypeOK, Buffered
<1>2. unflushed' \in Seq(Nat) /\ IsFiniteSet({})
  BY EmptySeq, FS_EmptySet DEF Crash
<1> QED
  BY <1>1, <1>2 DEF Crash, Gone, TypeOK

LEMMA TypeStep == TypeOK /\ Buffered /\ Placed /\ [Next]_vars => TypeOK'
<1> SUFFICES ASSUME TypeOK, Buffered, Placed, [Next]_vars PROVE TypeOK'
  OBVIOUS
<1>1. CASE Start \/ CurrentIsFull \/ CurrentHasRoom \/ Open
  BY <1>1, StartTypes, CurrentIsFullTypes, CurrentHasRoomTypes, OpenTypes
<1>2. ASSUME NEW i \in doomed, Remove(i) PROVE TypeOK'
  BY <1>2, RemoveTypes
<1>3. ASSUME NEW s \in 1 .. MaxBytes, WriteLine(s) PROVE TypeOK'
  BY <1>3, WriteLineTypes, LogAssumption
<1>4. CASE OpenNext \/ Flush \/ Stop \/ Crash
  BY <1>4, OpenNextTypes, StopTypes, CrashTypes
<1>5. CASE Trimmed
  BY <1>5 DEF Trimmed, TypeOK, limits, history
<1>6. ASSUME NEW n \in 1 .. MaxBytes, Spill(n) PROVE TypeOK'
  BY <1>6, SpillTypes, LogAssumption
<1>7. CASE UNCHANGED vars
  BY <1>7 DEF vars, TypeOK, limits, history
<1> QED
  BY <1>1, <1>2, <1>3, <1>4, <1>5, <1>6, <1>7 DEF Next

-----------------------------------------------------------------------------
(***************************************************************************)
(* The files and the current one.                                          *)
(***************************************************************************)
LEMMA FilesInit == Init => Files
<1> SUFFICES ASSUME Init PROVE Files
  OBVIOUS
<1>1. TypeOK
  BY TypeInit
<1>2. Buffered
  BY EmptySeq DEF Init, Buffered
<1>3. Placed /\ Sized /\ LastOne /\ Trimming
  BY DEF Init, Placed, Sized, LastOne, Trimming
<1> QED
  BY <1>1, <1>2, <1>3 DEF Files

\* The limit on the number of files, when the current file is among them.
LEMMA FewProperties ==
  ASSUME NEW F, NEW D, IsFiniteSet(F), NEW c, NEW max \in Nat,
         Cardinality((F \ D) \cup {c}) <= max, NEW S
  PROVE  Cardinality(((F \ S) \ D) \cup {c}) <= max
<1>1. IsFiniteSet(F \ D) /\ IsFiniteSet((F \ D) \cup {c})
  BY FS_Subset, FS_AddElement
<1>2. ((F \ S) \ D) \cup {c} \in SUBSET ((F \ D) \cup {c})
  OBVIOUS
<1>3. Cardinality(((F \ S) \ D) \cup {c}) <= Cardinality((F \ D) \cup {c})
  BY <1>1, <1>2, FS_Subset
<1>4. /\ Cardinality(((F \ S) \ D) \cup {c}) \in Nat
      /\ Cardinality((F \ D) \cup {c}) \in Nat
  BY <1>1, <1>2, FS_Subset, FS_CardinalityType
<1> QED
  BY <1>3, <1>4

LEMMA StartFiles ==
  ASSUME Files, Start PROVE Files'
<1>1. TypeOK /\ TypeOK' /\ pc = "down" /\ pc' = "size" /\ curr_file_size' = 0
  BY StartTypes DEF Files, Start
<1>2. Buffered'
  BY <1>1 DEF Files, Buffered, Start, history
<1>3. /\ UNCHANGED <<disk, stuck>> /\ log_files' = DOMAIN disk
      /\ doomed' = Oldest(DOMAIN disk, Cardinality(DOMAIN disk) - max_n_files')
      /\ doomed' = Doomed1'
  BY DEF Start, Doomed1, NRemove, history
<1>4. Sized' /\ LastOne'
  BY <1>1 DEF Sized, LastOne
<1>5. CASE DOMAIN disk = {}
  <2>1. doomed' = {} /\ curr_file_idx' = 0
    BY <1>3, <1>5, OldestAreFiles DEF Start
  <2>2. Placed'
    BY <1>1, <1>3, <1>5, <2>1 DEF Placed
  <2>3. (Remaining \cup {curr_file_idx})' = {0}
    BY <1>3, <1>5, <2>1 DEF Remaining
  <2>4. Cardinality({0}) = 1 /\ max_n_files' \in Nat \ {0}
    BY <1>1, FS_Singleton DEF TypeOK
  <2>5. Cardinality((Remaining \cup {curr_file_idx})') <= max_n_files'
    BY <2>3, <2>4
  <2>6. Trimming'
    BY <1>1, <2>1, <2>5 DEF Trimming
  <2> QED
    BY <1>1, <1>2, <1>4, <2>2, <2>6 DEF Files
<1>6. CASE DOMAIN disk # {}
  <2>1. /\ DOMAIN disk \in SUBSET Nat /\ IsFiniteSet(DOMAIN disk)
        /\ max_n_files' \in Nat \ {0}
    BY <1>1, <1>3 DEF TypeOK
  <2>2. curr_file_idx' \in DOMAIN disk /\ \A j \in DOMAIN disk : j <= curr_file_idx'
    BY <1>3, <1>6, <2>1, NewestProperties DEF Start
  <2>3. /\ doomed' \in SUBSET DOMAIN disk /\ curr_file_idx' \notin doomed'
        /\ Cardinality((DOMAIN disk \ doomed') \cup {curr_file_idx'}) <= max_n_files'
        /\ \A i \in doomed' :
             Cardinality({j \in (DOMAIN disk \ doomed') \ {curr_file_idx'} : j > i})
               >= max_n_files' - 1
    BY <1>3, <2>1, <2>2, SurplusProperties
  <2>4. Placed'
    BY <1>1, <1>3, <2>2, <2>3 DEF Placed
  <2>5. Cardinality((Remaining \cup {curr_file_idx})') <= max_n_files'
    BY <1>3, <2>1, <2>3, FewProperties DEF Remaining
  <2>6. \A i \in doomed' : Newer(i)' = {j \in (DOMAIN disk \ doomed') \ {curr_file_idx'} : j > i}
    BY <1>3 DEF Newer
  <2>7. Trimming'
    BY <1>1, <2>3, <2>5, <2>6 DEF Trimming
  <2> QED
    BY <1>1, <1>2, <1>4, <2>4, <2>7 DEF Files
<1> QED
  BY <1>5, <1>6

LEMMA CurrentIsFullFiles ==
  ASSUME Files, CurrentIsFull PROVE Files'
<1> DEFINE L == log_files
           D == doomed'
           m == max_n_files
           c == curr_file_idx
<1>1. /\ TypeOK /\ TypeOK' /\ pc = "size" /\ pc' = "open" /\ doomed = {}
      /\ c \in DOMAIN disk /\ c \in Nat /\ curr_file_idx' = c + 1
      /\ UNCHANGED <<disk, unflushed, curr_file_size, max_log_file_size, max_n_files,
                     log_files, written, begins, stuck>>
  BY CurrentIsFullTypes DEF Files, CurrentIsFull, history, limits, TypeOK
<1>2. Buffered'
  BY <1>1 DEF Files, Buffered
<1>3. /\ DOMAIN disk \subseteq L /\ L \ Doomed1 \subseteq DOMAIN disk
      /\ \A i \in L : i <= c
  BY <1>1 DEF Files, Placed
<1>4. /\ L \in SUBSET Nat /\ IsFiniteSet(L) /\ m \in Nat \ {0} /\ m - 1 \in Nat
      /\ Cardinality(L) \in Nat /\ IsFiniteSet(DOMAIN disk) /\ DOMAIN disk \in SUBSET Nat
  BY <1>1, FS_CardinalityType DEF TypeOK
<1>5. D = Oldest(L, Cardinality(L) - (m - 1))
  <2>1. NRemove(NListed, m) = Cardinality(L) - (m - 1)
    BY <1>4 DEF NRemove, NListed
  <2> QED
    BY <2>1 DEF CurrentIsFull
<1>6. /\ D \in SUBSET L
      /\ Cardinality(L \ D) <= m - 1
      /\ D # {} => Cardinality(L \ D) = m - 1
      /\ \A i \in D : \A j \in L \ D : i < j
  <2> HIDE DEF L, D, m
  <2> QED
    BY <1>4, <1>5, OldestProperties
<1>7. c + 1 \notin L /\ c + 1 \notin D /\ c + 1 \notin DOMAIN disk
  <2>1. ~(c + 1 <= c)
    BY <1>1
  <2> QED
    BY <1>3, <1>6, <2>1
<1>8. Placed'
  <2>1. \A i \in DOMAIN disk : i <= c + 1
    BY <1>1, <1>3, <1>4
  <2> QED
    BY <1>1, <1>7, <2>1 DEF Placed
<1>9. Sized'
  <2>1. max_file_size > 0
    BY <1>1, AtLeastOneProperties DEF max_file_size, TypeOK
  <2>2. curr_file_size' = 0
    BY <1>1 DEF Files, Sized
  <2> QED
    BY <1>1, <1>7, <2>1, <2>2 DEF Sized, max_file_size
<1>10. L \ D \in SUBSET DOMAIN disk
  <2>1. ASSUME NEW i \in Doomed1 PROVE i \in D
    <3>1. i \in L /\ Rank(L, i) < Cardinality(L) - m
      BY <2>1 DEF Doomed1, Oldest, Rank, Below
    <3>2. Rank(L, i) \in Nat
      BY <1>4, <3>1, RankProperties
    <3>3. Rank(L, i) < Cardinality(L) - (m - 1)
      BY <1>4, <3>1, <3>2
    <3> QED
      BY <1>5, <3>1, <3>3 DEF Oldest, Rank, Below
  <2> QED
    BY <1>3, <2>1
<1>11. Trimming'
  <2>1. /\ IsFiniteSet(L \ D) /\ Cardinality(L \ D) \in Nat
        /\ IsFiniteSet((L \ D) \cup {c + 1})
        /\ Cardinality((L \ D) \cup {c + 1}) = Cardinality(L \ D) + 1
    <3>1. IsFiniteSet(L \ D)
      BY <1>4, FS_Subset
    <3> HIDE DEF L, D, c
    <3> QED
      BY <1>7, <3>1, FS_CardinalityType, FS_AddElement
  <2>2. Cardinality((Remaining \cup {curr_file_idx})') <= m
    <3>1. (Remaining \cup {curr_file_idx})' \in SUBSET ((L \ D) \cup {c + 1})
      BY <1>1, <1>3 DEF Remaining
    <3>2. /\ Cardinality((Remaining \cup {curr_file_idx})') <= Cardinality((L \ D) \cup {c + 1})
          /\ Cardinality((Remaining \cup {curr_file_idx})') \in Nat
      BY <2>1, <3>1, FS_Subset, FS_CardinalityType
    <3> QED
      BY <1>4, <1>6, <2>1, <3>2
  <2>3. ASSUME NEW i \in D PROVE Cardinality(Newer(i)') >= m - 1
    <3>1. Newer(i)' = {j \in (DOMAIN disk \ D) \ {c + 1} : j > i}
      BY <1>1 DEF Newer
    <3>2. ASSUME NEW j \in L \ D PROVE j \in Newer(i)'
      <4>1. i < j /\ i \in Nat /\ j \in Nat /\ j # c + 1 /\ j \in DOMAIN disk
        BY <1>4, <1>6, <1>7, <1>10
      <4> QED
        BY <3>1, <4>1
    <3>3. L \ D \in SUBSET Newer(i)'
      BY <3>2
    <3>4. IsFiniteSet(Newer(i)')
      BY <1>4, <3>1, FS_Subset
    <3>5. Cardinality(Newer(i)') >= Cardinality(L \ D) /\ Cardinality(Newer(i)') \in Nat
      BY <2>1, <3>3, <3>4, FS_Subset, FS_CardinalityType
    <3> QED
      BY <1>4, <1>6, <2>1, <3>5
  <2> QED
    BY <1>1, <1>7, <2>2, <2>3 DEF Trimming
<1>12. LastOne'
  <2> SUFFICES ASSUME m = 1, NEW i \in DOMAIN disk \ stuck PROVE i = c
    BY <1>1 DEF LastOne
  <2>1. i \in Remaining \cup {c} /\ c \in Remaining \cup {c}
    BY <1>1 DEF Remaining
  <2>2. IsFiniteSet(Remaining \cup {c})
    <3>1. Remaining \in SUBSET DOMAIN disk
      BY DEF Remaining
    <3>2. IsFiniteSet(Remaining)
      BY <1>4, <3>1, FS_Subset
    <3> QED
      BY <3>2, FS_AddElement
  <2>3. Cardinality(Remaining \cup {c}) <= 1
    BY <1>1 DEF Files, Trimming
  <2> QED
    BY <2>1, <2>2, <2>3, AtMostOne
<1> QED
  BY <1>1, <1>2, <1>8, <1>9, <1>11, <1>12 DEF Files

LEMMA CurrentHasRoomFiles ==
  ASSUME Files, CurrentHasRoom PROVE Files'
<1>1. /\ TypeOK /\ TypeOK' /\ pc = "size" /\ pc' = "open" /\ doomed = {} /\ doomed' = {}
      /\ UNCHANGED <<disk, unflushed, curr_file_idx, max_log_file_size, max_n_files,
                     log_files, written, begins, stuck>>
      /\ curr_file_idx \in DOMAIN disk => Len(disk[curr_file_idx]) < max_log_file_size
      /\ curr_file_size' = IF curr_file_idx \in DOMAIN disk THEN Len(disk[curr_file_idx]) ELSE 0
  BY CurrentHasRoomTypes DEF Files, CurrentHasRoom, history, limits
<1>2. Buffered' /\ Placed' /\ LastOne'
  BY <1>1 DEF Files, Buffered, Placed, LastOne
<1>3. Trimming'
  BY <1>1 DEF Files, Trimming, Remaining
<1>4. Sized'
  <2>1. max_file_size \in Nat \ {0} /\ max_file_size >= max_log_file_size
    BY <1>1, AtLeastOneProperties DEF max_file_size, TypeOK
  <2>2. /\ max_log_file_size \in Nat
        /\ curr_file_idx \in DOMAIN disk => Len(disk[curr_file_idx]) \in Nat
    BY <1>1, LenProperties DEF TypeOK
  <2>3. curr_file_size' < max_file_size
    BY <1>1, <2>1, <2>2
  <2>4. max_file_size' = max_file_size
    BY <1>1 DEF max_file_size
  <2> QED
    BY <1>1, <2>3, <2>4 DEF Sized
<1> QED
  BY <1>1, <1>2, <1>3, <1>4 DEF Files

LEMMA OpenFiles ==
  ASSUME Files, Open PROVE Files'
<1>1. /\ TypeOK /\ TypeOK' /\ pc = "open" /\ pc' = "run" /\ doomed = {} /\ doomed' = {}
      /\ UNCHANGED <<unflushed, curr_file_idx, curr_file_size, max_log_file_size, max_n_files,
                     written, stuck>>
  BY OpenTypes DEF Files, Open, limits
<1>2. /\ DOMAIN disk' = DOMAIN disk \cup {curr_file_idx}
      /\ \A j \in DOMAIN disk : disk'[j] = disk[j]
      /\ curr_file_idx \notin DOMAIN disk => disk'[curr_file_idx] = <<>>
  BY <1>1, OpenCurrentProperties DEF Open
<1>3. unflushed = <<>> /\ Len(unflushed) = 0 /\ curr_file_idx \in Nat
  BY <1>1, EmptySeq DEF Files, Buffered, TypeOK
<1>4. Buffered' /\ LastOne'
  BY <1>1 DEF Files, Buffered, LastOne
<1>5. Placed'
  <2>1. curr_file_idx <= curr_file_idx
    BY <1>3
  <2> QED
    BY <1>1, <1>2, <2>1 DEF Files, Placed
<1>6. Sized'
  <2>1. Len(<<>>) = 0
    BY EmptySeq
  <2>2. curr_file_size = Len(disk'[curr_file_idx])
    BY <1>1, <1>2, <2>1 DEF Files, Sized
  <2>3. curr_file_size \in Nat /\ curr_file_size = Len(disk'[curr_file_idx]) + Len(unflushed)
    BY <1>1, <1>3, <2>2 DEF TypeOK
  <2>4. curr_file_size < max_file_size /\ max_file_size' = max_file_size
    BY <1>1 DEF Files, Sized, max_file_size
  <2> QED
    BY <1>1, <2>3, <2>4 DEF Sized
<1>7. Trimming'
  <2>1. (Remaining \cup {curr_file_idx})' = Remaining \cup {curr_file_idx}
    BY <1>1, <1>2 DEF Remaining
  <2> QED
    BY <1>1, <2>1 DEF Files, Trimming
<1> QED
  BY <1>1, <1>4, <1>5, <1>6, <1>7 DEF Files

\* What is known of a file that is being removed, or whose removal fails.
LEMMA RemoveProperties ==
  ASSUME Files, NEW i \in doomed, Remove(i)
  PROVE  /\ i # curr_file_idx /\ doomed' = doomed \ {i} /\ pc \in {"size", "open", "trim"}
         /\ UNCHANGED <<unflushed, curr_file_idx, curr_file_size, max_log_file_size,
                        max_n_files, log_files, pc, written>>
         /\ DOMAIN disk' \in SUBSET DOMAIN disk
         /\ DOMAIN disk \ DOMAIN disk' \in SUBSET {i}
         /\ \A j \in DOMAIN disk' : disk'[j] = disk[j] /\ begins'[j] = begins[j]
         /\ DOMAIN disk' \ stuck' = (DOMAIN disk \ stuck) \ {i}
         /\ Remaining' = Remaining
         /\ \A k \in doomed' : Newer(k) \in SUBSET Newer(k)'
<1>1. /\ TypeOK /\ i # curr_file_idx /\ doomed' = doomed \ {i} /\ pc \in {"size", "open", "trim"}
      /\ UNCHANGED <<unflushed, curr_file_idx, curr_file_size, max_log_file_size,
                     max_n_files, log_files, pc, written>>
      /\ DOMAIN begins = DOMAIN disk
  BY DEF Files, Trimming, Remove, limits, TypeOK
<1>2. CASE /\ disk' = Without(disk, i) /\ begins' = Without(begins, i) /\ stuck' = stuck \ {i}
  <2>1. /\ DOMAIN disk' = DOMAIN disk \ {i}
        /\ \A j \in DOMAIN disk' : disk'[j] = disk[j] /\ begins'[j] = begins[j]
    BY <1>1, <1>2 DEF Without
  <2>2. DOMAIN disk' \ stuck' = (DOMAIN disk \ stuck) \ {i}
    BY <1>2, <2>1
  <2>3. Remaining' = Remaining /\ \A k \in doomed' : Newer(k) \in SUBSET Newer(k)'
    BY <1>1, <2>1, <2>2 DEF Remaining, Newer
  <2> QED
    BY <1>1, <2>1, <2>2, <2>3
<1>3. CASE stuck' = stuck \cup ({i} \cap DOMAIN disk) /\ UNCHANGED <<disk, begins>>
  <2>1. DOMAIN disk' \ stuck' = (DOMAIN disk \ stuck) \ {i}
    BY <1>3
  <2>2. Remaining' = Remaining /\ \A k \in doomed' : Newer(k) \in SUBSET Newer(k)'
    BY <1>1, <1>3, <2>1 DEF Remaining, Newer
  <2> QED
    BY <1>1, <1>3, <2>1, <2>2
<1> QED
  BY <1>2, <1>3 DEF Remove

LEMMA RemoveFiles ==
  ASSUME Files, NEW i \in doomed, Remove(i) PROVE Files'
<1>1. /\ i # curr_file_idx /\ doomed' = doomed \ {i} /\ pc \in {"size", "open", "trim"}
      /\ UNCHANGED <<unflushed, curr_file_idx, curr_file_size, max_log_file_size,
                     max_n_files, log_files, pc, written>>
      /\ DOMAIN disk' \in SUBSET DOMAIN disk
      /\ DOMAIN disk \ DOMAIN disk' \in SUBSET {i}
      /\ \A j \in DOMAIN disk' : disk'[j] = disk[j]
      /\ DOMAIN disk' \ stuck' = (DOMAIN disk \ stuck) \ {i}
      /\ Remaining' = Remaining
      /\ \A k \in doomed' : Newer(k) \in SUBSET Newer(k)'
  BY RemoveProperties
<1>2. TypeOK /\ TypeOK'
  BY RemoveTypes DEF Files
<1>3. Buffered'
  BY <1>1 DEF Files, Buffered
<1>4. Placed'
  <2>1. pc = "size" => i \notin log_files \ Doomed1
    BY DEF Files, Placed
  <2>2. Doomed1' = Doomed1
    BY <1>1 DEF Doomed1
  <2> QED
    BY <1>1, <2>1, <2>2 DEF Files, Placed
<1>5. Sized'
  <2>1. max_file_size' = max_file_size
    BY <1>1 DEF max_file_size
  <2>2. pc = "trim" => curr_file_idx \in DOMAIN disk'
    BY <1>1 DEF Files, Placed
  <2>3. pc = "open" => curr_file_idx \notin DOMAIN disk
    BY DEF Files, Placed
  <2> QED
    BY <1>1, <2>1, <2>2, <2>3 DEF Files, Sized
<1>6. Trimming'
  <2>1. ASSUME NEW k \in doomed' PROVE Cardinality(Newer(k)') >= max_n_files - 1
    <3>1. Newer(k) \in SUBSET Newer(k)' /\ IsFiniteSet(DOMAIN disk')
      BY <1>1, <1>2 DEF TypeOK
    <3>2. Newer(k)' \in SUBSET DOMAIN disk'
      BY DEF Newer
    <3>3. IsFiniteSet(Newer(k)')
      BY <3>1, <3>2, FS_Subset
    <3>4. /\ IsFiniteSet(Newer(k)) /\ Cardinality(Newer(k)) <= Cardinality(Newer(k)')
          /\ Cardinality(Newer(k)) \in Nat /\ Cardinality(Newer(k)') \in Nat
      BY <3>1, <3>3, FS_Subset, FS_CardinalityType
    <3>5. Cardinality(Newer(k)) >= max_n_files - 1 /\ max_n_files \in Nat
      BY <1>1, <1>2 DEF Files, Trimming, TypeOK
    <3> QED
      BY <3>4, <3>5
  <2>2. (Remaining \cup {curr_file_idx})' = Remaining \cup {curr_file_idx}
    BY <1>1
  <2> QED
    BY <1>1, <2>1, <2>2 DEF Files, Trimming
<1>7. LastOne'
  BY <1>1 DEF Files, LastOne
<1> QED
  BY <1>2, <1>3, <1>4, <1>5, <1>6, <1>7 DEF Files

LEMMA WriteLineFiles ==
  ASSUME Files, NEW s \in Nat, WriteLine(s) PROVE Files'
<1> DEFINE line == [k \in 1 .. s |-> written + k]
<1>1. /\ TypeOK /\ TypeOK' /\ pc = "run" /\ doomed = {} /\ doomed' = {}
      /\ UNCHANGED <<max_log_file_size, max_n_files, log_files, begins, stuck>>
      /\ written' = written + s
  BY WriteLineTypes DEF Files, Trimming, WriteLine, limits
<1>2. /\ line \in Seq(Nat) /\ Len(line) = s
      /\ unflushed \in Seq(Nat) /\ Len(unflushed) \in Nat /\ Len(unflushed) <= written
      /\ curr_file_idx \in Nat /\ written \in Nat /\ curr_file_size \in Nat
      /\ curr_file_idx \in DOMAIN disk /\ Len(disk[curr_file_idx]) \in Nat
      /\ \A i \in DOMAIN disk : i <= curr_file_idx /\ i \in Nat
  BY <1>1, LineProperties, LenProperties DEF Files, Placed, Buffered, TypeOK
<1>3. max_file_size' = max_file_size
  BY <1>1 DEF max_file_size
<1> HIDE DEF line
<1>4. CASE /\ curr_file_size + s < max_file_size
           /\ unflushed' = unflushed \o line /\ curr_file_size' = curr_file_size + s
           /\ UNCHANGED <<disk, curr_file_idx, pc>>
  <2>1. Len(unflushed') = Len(unflushed) + s
    BY <1>2, <1>4, ConcatProperties
  <2>2. Buffered'
    BY <1>1, <1>2, <1>4, <2>1 DEF Buffered
  <2>3. Placed' /\ LastOne'
    BY <1>1, <1>4 DEF Files, Placed, LastOne
  <2>4. Trimming'
    BY <1>1, <1>4 DEF Files, Trimming, Remaining
  <2>5. Sized'
    <3>1. curr_file_size = Len(disk[curr_file_idx]) + Len(unflushed)
      BY <1>1 DEF Files, Sized
    <3>2. curr_file_size' = Len(disk[curr_file_idx]) + Len(unflushed')
      BY <1>2, <1>4, <2>1, <3>1
    <3> QED
      BY <1>1, <1>3, <1>4, <3>2 DEF Sized
  <2> QED
    BY <1>1, <2>2, <2>3, <2>4, <2>5 DEF Files
<1>5. CASE /\ disk' = [disk EXCEPT ![curr_file_idx] = @ \o unflushed \o line]
           /\ unflushed' = <<>> /\ curr_file_size' = curr_file_size + s
           /\ curr_file_idx' = curr_file_idx + 1 /\ pc' = "next"
  <2>1. DOMAIN disk' = DOMAIN disk
    BY <1>5
  <2>2. Buffered'
    <3>1. Len(unflushed') = 0 /\ written' \in Nat
      BY <1>1, <1>5, EmptySeq DEF TypeOK
    <3> QED
      BY <1>5, <3>1 DEF Buffered
  <2>3. Placed'
    <3>1. curr_file_idx + 1 \notin DOMAIN disk
      <4>1. ~(curr_file_idx + 1 <= curr_file_idx)
        BY <1>2
      <4> QED
        BY <1>2, <4>1
    <3>2. \A i \in DOMAIN disk : i <= curr_file_idx + 1
      BY <1>2
    <3> QED
      BY <1>1, <1>5, <2>1, <3>1, <3>2 DEF Placed
  <2>4. Sized' /\ LastOne' /\ Trimming'
    BY <1>1, <1>5 DEF Sized, LastOne, Trimming
  <2> QED
    BY <1>1, <2>2, <2>3, <2>4 DEF Files
<1> QED
  BY <1>4, <1>5 DEF WriteLine, line

LEMMA OpenNextFiles ==
  ASSUME Files, OpenNext PROVE Files'
<1>1. /\ TypeOK /\ TypeOK' /\ pc = "next" /\ pc' = "trim" /\ doomed = {} /\ curr_file_size' = 0
      /\ UNCHANGED <<unflushed, curr_file_idx, max_log_file_size, max_n_files, log_files,
                     written, stuck>>
      /\ doomed' = Oldest(DOMAIN disk', Cardinality(DOMAIN disk') - max_n_files)
  BY OpenNextTypes DEF Files, Trimming, OpenNext, NRemove, limits
<1>2. /\ DOMAIN disk' = DOMAIN disk \cup {curr_file_idx}
      /\ curr_file_idx \notin DOMAIN disk => disk'[curr_file_idx] = <<>>
  BY <1>1, OpenCurrentProperties DEF OpenNext
<1>3. /\ curr_file_idx \notin DOMAIN disk /\ curr_file_idx \in Nat
      /\ \A i \in DOMAIN disk : i <= curr_file_idx
  BY <1>1 DEF Files, Placed, TypeOK
<1>4. /\ DOMAIN disk' \in SUBSET Nat /\ IsFiniteSet(DOMAIN disk')
      /\ curr_file_idx \in DOMAIN disk' /\ \A j \in DOMAIN disk' : j <= curr_file_idx
      /\ max_n_files \in Nat \ {0}
  <2>1. curr_file_idx <= curr_file_idx
    BY <1>3
  <2> QED
    BY <1>1, <1>2, <1>3, <2>1 DEF TypeOK
<1>5. /\ doomed' \in SUBSET DOMAIN disk' /\ curr_file_idx \notin doomed'
      /\ Cardinality((DOMAIN disk' \ doomed') \cup {curr_file_idx}) <= max_n_files
      /\ \A i \in doomed' :
           Cardinality({j \in (DOMAIN disk' \ doomed') \ {curr_file_idx} : j > i})
             >= max_n_files - 1
  BY <1>1, <1>4, SurplusProperties
<1>6. Buffered' /\ LastOne'
  BY <1>1 DEF Files, Buffered, LastOne
<1>7. Placed' /\ Sized'
  BY <1>1, <1>2, <1>3, <1>4 DEF Placed, Sized
<1>8. Trimming'
  <2>1. Cardinality((Remaining \cup {curr_file_idx})') <= max_n_files
    <3>1. Cardinality(((DOMAIN disk' \ stuck) \ doomed') \cup {curr_file_idx}) <= max_n_files
      BY <1>4, <1>5, FewProperties
    <3>2. (Remaining \cup {curr_file_idx})' =
            ((DOMAIN disk' \ stuck) \ doomed') \cup {curr_file_idx}
      BY <1>1 DEF Remaining
    <3> QED
      BY <3>1, <3>2
  <2>2. \A i \in doomed' :
          Newer(i)' = {j \in (DOMAIN disk' \ doomed') \ {curr_file_idx} : j > i}
    BY <1>1 DEF Newer
  <2> QED
    BY <1>1, <1>5, <2>1, <2>2 DEF Trimming
<1> QED
  BY <1>1, <1>6, <1>7, <1>8 DEF Files

LEMMA TrimmedFiles ==
  ASSUME Files, Trimmed PROVE Files'
<1>1. /\ TypeOK /\ TypeOK' /\ pc = "trim" /\ pc' = "run" /\ doomed = {} /\ doomed' = {}
      /\ UNCHANGED <<disk, unflushed, curr_file_idx, curr_file_size, max_log_file_size,
                     max_n_files, log_files, written, begins, stuck>>
  BY DEF Files, Trimmed, TypeOK, limits, history
<1>2. Buffered' /\ Placed' /\ LastOne'
  BY <1>1 DEF Files, Buffered, Placed, LastOne
<1>3. Trimming'
  BY <1>1 DEF Files, Trimming, Remaining
<1>4. Sized'
  <2>1. Len(disk[curr_file_idx]) = 0 /\ Len(unflushed) = 0 /\ curr_file_size = 0
    BY <1>1, EmptySeq DEF Files, Buffered, Sized
  <2>2. max_file_size' = max_file_size /\ max_file_size \in Nat \ {0}
    BY <1>1, AtLeastOneProperties DEF max_file_size, TypeOK
  <2> QED
    BY <1>1, <2>1, <2>2 DEF Sized
<1> QED
  BY <1>1, <1>2, <1>3, <1>4 DEF Files

\* The bytes of the current file when a part of the buffer is written out.
LEMMA MovedProperties ==
  ASSUME TypeOK, NEW t \in Seq(Nat), curr_file_idx \in DOMAIN disk,
         disk' = [disk EXCEPT ![curr_file_idx] = @ \o t]
  PROVE  /\ DOMAIN disk' = DOMAIN disk
         /\ disk'[curr_file_idx] = disk[curr_file_idx] \o t
         /\ \A j \in DOMAIN disk \ {curr_file_idx} : disk'[j] = disk[j]
         /\ Len(disk'[curr_file_idx]) = Len(disk[curr_file_idx]) + Len(t)
         /\ Len(disk[curr_file_idx]) \in Nat
<1>1. /\ DOMAIN disk' = DOMAIN disk
      /\ disk'[curr_file_idx] = disk[curr_file_idx] \o t
      /\ \A j \in DOMAIN disk \ {curr_file_idx} : disk'[j] = disk[j]
  OBVIOUS
<1>2. disk[curr_file_idx] \in Seq(Nat)
  BY DEF TypeOK
<1>3. /\ Len(disk[curr_file_idx] \o t) = Len(disk[curr_file_idx]) + Len(t)
      /\ Len(disk[curr_file_idx]) \in Nat
  BY <1>2, ConcatProperties, LenProperties
<1> QED
  BY <1>1, <1>3

LEMMA FlushFiles ==
  ASSUME Files, Flush PROVE Files'
<1>1. /\ TypeOK /\ TypeOK' /\ pc = "run" /\ pc' = "run" /\ unflushed' = <<>>
      /\ disk' = [disk EXCEPT ![curr_file_idx] = @ \o unflushed]
      /\ UNCHANGED <<curr_file_idx, curr_file_size, max_log_file_size,
                     max_n_files, log_files, doomed, written, begins, stuck>>
  BY StopTypes DEF Files, Flush, FlushedDisk, limits, history
<1>2. unflushed \in Seq(Nat) /\ curr_file_idx \in DOMAIN disk
  BY <1>1 DEF TypeOK, Files, Placed
<1>3. /\ DOMAIN disk' = DOMAIN disk
      /\ Len(disk'[curr_file_idx]) = Len(disk[curr_file_idx]) + Len(unflushed)
      /\ Len(disk[curr_file_idx]) \in Nat
  BY <1>1, <1>2, MovedProperties
<1>4. Len(unflushed) \in Nat /\ Len(unflushed') = 0 /\ written \in Nat
  BY <1>1, LenProperties, EmptySeq DEF TypeOK
<1>5. Buffered' /\ Placed' /\ LastOne'
  BY <1>1, <1>3, <1>4 DEF Files, Buffered, Placed, LastOne
<1>6. Trimming'
  BY <1>1, <1>3 DEF Files, Trimming, Remaining, Newer
<1>7. Sized'
  <2>1. max_file_size' = max_file_size
    BY <1>1 DEF max_file_size
  <2>2. curr_file_size' = Len(disk'[curr_file_idx]) + Len(unflushed')
    BY <1>1, <1>3, <1>4 DEF Files, Sized
  <2>3. curr_file_size < max_file_size
    BY <1>1 DEF Files, Sized
  <2> QED
    BY <1>1, <2>1, <2>2, <2>3 DEF Sized
<1> QED
  BY <1>1, <1>5, <1>6, <1>7 DEF Files

LEMMA SpillFiles ==
  ASSUME Files, NEW n \in Nat, Spill(n) PROVE Files'
<1> DEFINE t == SubSeq(unflushed, 1, n)
<1>1. /\ TypeOK /\ TypeOK' /\ n < Len(unflushed)
      /\ disk' = [disk EXCEPT ![curr_file_idx] = @ \o t]
      /\ unflushed' = SubSeq(unflushed, n + 1, Len(unflushed))
      /\ UNCHANGED <<curr_file_idx, curr_file_size, max_log_file_size,
                     max_n_files, log_files, doomed, pc, written, begins, stuck>>
  BY SpillTypes DEF Files, Spill, limits, history
<1>2. unflushed \in Seq(Nat) /\ Len(unflushed) \in Nat /\ written \in Nat
  BY <1>1, LenProperties DEF TypeOK
<1>3. /\ t \in Seq(Nat) /\ Len(t) = n /\ Len(unflushed') = Len(unflushed) - n
  BY <1>1, <1>2, PartProperties
<1> HIDE DEF t
<1>4. pc = "run" /\ curr_file_idx \in DOMAIN disk
  <2>1. Len(unflushed) # 0
    BY <1>1, <1>2
  <2>2. unflushed # <<>>
    BY <2>1, EmptySeq
  <2> QED
    BY <2>2 DEF Files, Buffered, Placed
<1>5. /\ DOMAIN disk' = DOMAIN disk
      /\ Len(disk'[curr_file_idx]) = Len(disk[curr_file_idx]) + n
      /\ Len(disk[curr_file_idx]) \in Nat
  BY <1>1, <1>3, <1>4, MovedProperties
<1>6. Len(unflushed') <= written
  BY <1>2, <1>3 DEF Files, Buffered
<1>7. Buffered' /\ Placed' /\ LastOne'
  BY <1>1, <1>4, <1>5, <1>6 DEF Files, Buffered, Placed, LastOne
<1>8. Trimming'
  BY <1>1, <1>5 DEF Files, Trimming, Remaining, Newer
<1>9. Sized'
  <2>1. max_file_size' = max_file_size
    BY <1>1 DEF max_file_size
  <2>2. curr_file_size = Len(disk[curr_file_idx]) + Len(unflushed) /\ curr_file_size < max_file_size
    BY <1>4 DEF Files, Sized
  <2>3. curr_file_size = Len(disk'[curr_file_idx]) + Len(unflushed')
    BY <1>2, <1>3, <1>5, <2>2
  <2> QED
    BY <1>1, <1>4, <2>1, <2>2, <2>3 DEF Sized
<1> QED
  BY <1>1, <1>7, <1>8, <1>9 DEF Files

LEMMA GoneFiles ==
  ASSUME Files, Stop \/ Crash PROVE Files'
<1>1. /\ TypeOK' /\ pc' = "down" /\ doomed' = {} /\ unflushed' = <<>>
  BY StopTypes, CrashTypes DEF Files, Stop, Crash, Gone
<1>2. Len(unflushed') = 0 /\ written' \in Nat
  BY <1>1, EmptySeq DEF TypeOK
<1>3. Buffered' /\ Placed' /\ Sized' /\ LastOne' /\ Trimming'
  BY <1>1, <1>2 DEF Buffered, Placed, Sized, LastOne, Trimming
<1> QED
  BY <1>1, <1>3 DEF Files

LEMMA FilesStep == Files /\ [Next]_vars => Files'
<1> SUFFICES ASSUME Files, [Next]_vars PROVE Files'
  OBVIOUS
<1>1. CASE Start \/ CurrentIsFull \/ CurrentHasRoom \/ Open
  BY <1>1, StartFiles, CurrentIsFullFiles, CurrentHasRoomFiles, OpenFiles
<1>2. ASSUME NEW i \in doomed, Remove(i) PROVE Files'
  BY <1>2, RemoveFiles
<1>3. ASSUME NEW s \in 1 .. MaxBytes, WriteLine(s) PROVE Files'
  <2>1. s \in Nat
    BY LogAssumption
  <2> QED
    BY <1>3, <2>1, WriteLineFiles
<1>4. CASE OpenNext \/ Trimmed \/ Flush \/ Stop \/ Crash
  BY <1>4, OpenNextFiles, TrimmedFiles, FlushFiles, GoneFiles
<1>5. ASSUME NEW n \in 1 .. MaxBytes, Spill(n) PROVE Files'
  <2>1. n \in Nat
    BY LogAssumption
  <2> QED
    BY <1>5, <2>1, SpillFiles
<1>6. CASE UNCHANGED vars
  <2>1. TypeOK'
    BY <1>6 DEF Files, vars, TypeOK, limits, history
  <2>2. UNCHANGED <<disk, unflushed, curr_file_idx, curr_file_size, max_log_file_size,
                    max_n_files, log_files, doomed, pc, written, stuck>>
    BY <1>6 DEF vars, limits, history
  <2>3. Buffered' /\ Placed' /\ LastOne'
    BY <2>2 DEF Files, Buffered, Placed, LastOne, Doomed1
  <2>4. Sized'
    BY <2>2 DEF Files, Sized, max_file_size
  <2>5. Trimming'
    BY <2>2 DEF Files, Trimming, Remaining, Newer
  <2> QED
    BY <2>1, <2>3, <2>4, <2>5 DEF Files
<1> QED
  BY <1>1, <1>2, <1>3, <1>4, <1>5, <1>6 DEF Next

-----------------------------------------------------------------------------
(***************************************************************************)
(* The bytes.                                                              *)
(***************************************************************************)
LEMMA ChainedInit == Init => Chained
BY DEF Init, Chained

LEMMA GoesOnUnchanged ==
  ASSUME UNCHANGED <<disk, begins, unflushed, written>>, NEW i, GoesOn(i)
  PROVE  GoesOn(i)'
BY DEF GoesOn, End

\* The newest file is not among those removed, or what was written before it
\* is about to go on.
LEMMA RemovedIsOlder ==
  ASSUME Files, NEW i \in doomed, NEW k \in DOMAIN disk \ stuck, k # i,
         \A j \in DOMAIN disk \ {i} : j <= k
  PROVE  \A j \in DOMAIN disk : j <= k
<1> SUFFICES ASSUME i \in DOMAIN disk PROVE i <= k
  OBVIOUS
<1>1. /\ TypeOK /\ pc \in {"size", "open", "trim"} /\ curr_file_idx \notin doomed
      /\ i # curr_file_idx /\ i <= curr_file_idx
  BY DEF Files, Trimming, Placed
<1>2. i \in Nat /\ k \in Nat /\ curr_file_idx \in Nat /\ max_n_files \in Nat \ {0}
  BY <1>1 DEF TypeOK
<1>3. CASE curr_file_idx \in DOMAIN disk
  <2>1. curr_file_idx <= k
    BY <1>1, <1>3
  <2> QED
    BY <1>1, <1>2, <2>1
<1>4. CASE curr_file_idx \notin DOMAIN disk
  <2>1. pc = "open"
    <3>1. ASSUME pc = "size" PROVE curr_file_idx \in DOMAIN disk
      <4>1. Doomed1 \in SUBSET log_files
        BY OldestAreFiles DEF Doomed1
      <4>2. i \in log_files
        BY <3>1, <4>1 DEF Files, Placed
      <4> QED
        BY <3>1, <4>2 DEF Files, Placed
    <3>2. pc = "trim" => curr_file_idx \in DOMAIN disk
      BY DEF Files, Placed
    <3> QED
      BY <1>1, <1>4, <3>1, <3>2
  <2>2. CASE max_n_files = 1
    <3>1. k + 1 = curr_file_idx
      BY <2>1, <2>2 DEF Files, LastOne
    <3> QED
      BY <1>1, <1>2, <3>1
  <2>3. CASE max_n_files # 1
    <3>1. Cardinality(Newer(i)) >= max_n_files - 1
      BY DEF Files, Trimming
    <3>2. Newer(i) # {}
      <4> SUFFICES ASSUME Newer(i) = {} PROVE FALSE
        OBVIOUS
      <4>1. Cardinality(Newer(i)) = 0
        BY FS_EmptySet
      <4> QED
        BY <1>2, <2>3, <3>1, <4>1
    <3>3. PICK j \in DOMAIN disk \ doomed : j > i
      BY <3>2 DEF Newer
    <3>4. j <= k /\ j \in Nat
      BY <1>1, <3>3 DEF TypeOK
    <3> QED
      BY <1>2, <3>3, <3>4
  <2> QED
    BY <2>2, <2>3
<1> QED
  BY <1>3, <1>4

LEMMA RemoveChained ==
  ASSUME Files, Chained, NEW i \in doomed, Remove(i) PROVE Chained'
<1>1. /\ UNCHANGED <<unflushed, written>>
      /\ DOMAIN disk' \in SUBSET DOMAIN disk
      /\ DOMAIN disk \ DOMAIN disk' \in SUBSET {i}
      /\ \A j \in DOMAIN disk' : disk'[j] = disk[j] /\ begins'[j] = begins[j]
      /\ DOMAIN disk' \ stuck' = (DOMAIN disk \ stuck) \ {i}
  BY RemoveProperties
<1>2. ASSUME NEW k \in DOMAIN disk' \ stuck' PROVE GoesOn(k)'
  <2>1. k \in DOMAIN disk \ stuck /\ k # i /\ k \in DOMAIN disk' /\ GoesOn(k)
    BY <1>1 DEF Chained
  <2>2. End(k)' = End(k)
    BY <1>1, <2>1 DEF End
  <2>3. (\A j \in DOMAIN disk' : j <= k) => \A j \in DOMAIN disk : j <= k
    <3> SUFFICES ASSUME \A j \in DOMAIN disk' : j <= k PROVE \A j \in DOMAIN disk : j <= k
      OBVIOUS
    <3>1. \A j \in DOMAIN disk \ {i} : j <= k
      BY <1>1
    <3> QED
      BY <2>1, <3>1, RemovedIsOlder
  <2>4. \A n \in DOMAIN disk'[k] : disk'[k][n] = begins'[k] + n
    BY <1>1, <2>1 DEF GoesOn
  <2>5. k + 1 \in DOMAIN disk' => begins'[k + 1] = End(k)'
    BY <1>1, <2>1, <2>2 DEF GoesOn
  <2>6. (\A j \in DOMAIN disk' : j <= k) =>
          /\ \A n \in DOMAIN unflushed' : unflushed'[n] = End(k)' + n
          /\ written' = End(k)' + Len(unflushed')
    BY <1>1, <2>1, <2>2, <2>3 DEF GoesOn
  <2> QED
    BY <2>4, <2>5, <2>6 DEF GoesOn
<1> QED
  BY <1>2 DEF Chained

\* A new file begins where the newest one ends.
LEMMA OpenChained ==
  ASSUME Files, Chained, Open \/ OpenNext PROVE Chained'
<1>1. /\ TypeOK /\ OpenCurrent /\ unflushed = <<>> /\ UNCHANGED <<unflushed, written, stuck>>
      /\ \A j \in DOMAIN disk : j <= curr_file_idx
      /\ curr_file_idx \in Nat
  BY DEF Files, Buffered, Placed, Open, OpenNext, TypeOK
<1>2. /\ DOMAIN disk' = DOMAIN disk \cup {curr_file_idx}
      /\ \A j \in DOMAIN disk : disk'[j] = disk[j] /\ begins'[j] = begins[j]
      /\ curr_file_idx \notin DOMAIN disk =>
           disk'[curr_file_idx] = <<>> /\ begins'[curr_file_idx] = written
  BY <1>1, OpenCurrentProperties
<1>3. \A j \in DOMAIN disk : j \in Nat /\ begins[j] \in Nat /\ Len(disk[j]) \in Nat
  BY <1>1, LenProperties DEF TypeOK
<1>4. Len(unflushed) = 0 /\ DOMAIN unflushed = {} /\ written \in Nat
  <2>1. Len(<<>>) = 0 /\ DOMAIN <<>> = {}
    BY EmptySeq
  <2> QED
    BY <1>1, <2>1 DEF TypeOK
<1>5. ASSUME NEW i \in DOMAIN disk \ stuck PROVE GoesOn(i)'
  <2>1. GoesOn(i) /\ End(i)' = End(i) /\ i \in Nat /\ i <= curr_file_idx /\ i \in DOMAIN disk'
    BY <1>1, <1>2, <1>3 DEF Chained, End
  <2>2. \A n \in DOMAIN disk'[i] : disk'[i][n] = begins'[i] + n
    BY <1>2, <2>1 DEF GoesOn
  <2>3. ASSUME i + 1 \in DOMAIN disk' PROVE begins'[i + 1] = End(i)'
    <3>1. CASE i + 1 \in DOMAIN disk
      BY <1>2, <2>1, <3>1 DEF GoesOn
    <3>2. CASE i + 1 \notin DOMAIN disk
      <4>1. i + 1 = curr_file_idx
        BY <1>2, <2>3, <3>2
      <4>2. \A j \in DOMAIN disk : j <= i
        <5> TAKE j \in DOMAIN disk
        <5>1. j \in Nat /\ j <= curr_file_idx /\ j # curr_file_idx
          BY <1>1, <1>3, <3>2, <4>1
        <5> QED
          BY <2>1, <4>1, <5>1
      <4>3. written = End(i) + Len(unflushed)
        BY <2>1, <4>2 DEF GoesOn
      <4>4. End(i) \in Nat
        BY <1>3 DEF End
      <4>5. written = End(i)
        BY <1>4, <4>3, <4>4
      <4> QED
        BY <1>2, <2>1, <3>2, <4>1, <4>5
    <3> QED
      BY <3>1, <3>2
  <2>4. (\A j \in DOMAIN disk' : j <= i) =>
          /\ \A n \in DOMAIN unflushed' : unflushed'[n] = End(i)' + n
          /\ written' = End(i)' + Len(unflushed')
    BY <1>1, <1>2, <2>1 DEF GoesOn
  <2> QED
    BY <2>2, <2>3, <2>4 DEF GoesOn
<1>6. ASSUME curr_file_idx \notin DOMAIN disk PROVE GoesOn(curr_file_idx)'
  <2>1. disk'[curr_file_idx] = <<>> /\ begins'[curr_file_idx] = written /\ curr_file_idx' = curr_file_idx
    BY <1>2, <1>6 DEF Open, OpenNext
  <2>2. Len(<<>>) = 0 /\ DOMAIN <<>> = {}
    BY EmptySeq
  <2>3. curr_file_idx + 1 \notin DOMAIN disk'
    <3>1. ~(curr_file_idx + 1 <= curr_file_idx) /\ curr_file_idx + 1 # curr_file_idx
      BY <1>1
    <3> QED
      BY <1>1, <1>2, <3>1
  <2>4. begins'[curr_file_idx] + Len(disk'[curr_file_idx]) = written
    BY <1>4, <2>1, <2>2
  <2>5. written = written + Len(unflushed)
    BY <1>4
  <2> QED
    BY <1>1, <1>4, <2>1, <2>2, <2>3, <2>4, <2>5 DEF GoesOn, End
<1>7. curr_file_idx' = curr_file_idx
  BY DEF Open, OpenNext
<1> QED
  BY <1>1, <1>2, <1>5, <1>6, <1>7 DEF Chained

\* Bytes that go on where the newest file ends are appended to it.
LEMMA AppendedChained ==
  ASSUME Files, Chained, curr_file_idx \in DOMAIN disk,
         \A j \in DOMAIN disk : j <= curr_file_idx,
         NEW t \in Seq(Nat), disk' = [disk EXCEPT ![curr_file_idx] = @ \o t],
         UNCHANGED <<begins, stuck>>,
         curr_file_idx \notin stuck =>
           /\ \A k \in DOMAIN t : t[k] = End(curr_file_idx) + k
           /\ \A k \in DOMAIN unflushed' : unflushed'[k] = End(curr_file_idx) + Len(t) + k
           /\ written' = End(curr_file_idx) + Len(t) + Len(unflushed')
  PROVE  Chained'
<1> DEFINE c == curr_file_idx
           x == disk[c]
<1>1. TypeOK /\ c \in Nat /\ x \in Seq(Nat) /\ begins[c] \in Nat
  BY DEF Files, TypeOK
<1>2. /\ DOMAIN disk' = DOMAIN disk /\ disk'[c] = x \o t
      /\ \A j \in DOMAIN disk \ {c} : disk'[j] = disk[j]
  BY <1>1, MovedProperties
<1>3. /\ Len(x \o t) = Len(x) + Len(t) /\ Len(x) \in Nat /\ Len(t) \in Nat
      /\ (\A k \in DOMAIN x : x[k] = begins[c] + k) /\ (\A k \in DOMAIN t : t[k] = begins[c] + Len(x) + k)
           => \A k \in DOMAIN (x \o t) : (x \o t)[k] = begins[c] + k
  <2> HIDE DEF x, c
  <2> QED
    BY <1>1, GoesOnProperties
<1>4. ASSUME NEW i \in DOMAIN disk \ stuck, i # c PROVE GoesOn(i)'
  <2>1. GoesOn(i) /\ End(i)' = End(i) /\ disk'[i] = disk[i]
    BY <1>2, <1>4 DEF Chained, End
  <2>2. ~(\A j \in DOMAIN disk' : j <= i)
    <3>1. i <= c /\ i \in Nat
      BY <1>1 DEF TypeOK
    <3>2. ~(c <= i)
      BY <1>1, <1>4, <3>1
    <3> QED
      BY <1>2, <3>2
  <2> QED
    BY <1>2, <2>1, <2>2 DEF GoesOn
<1>5. ASSUME c \notin stuck, NEW i, i = c PROVE GoesOn(i)'
  <2>1. GoesOn(c) /\ End(c) = begins[c] + Len(x)
    BY <1>5 DEF Chained, End
  <2>2. \A k \in DOMAIN disk'[i] : disk'[i][k] = begins'[i] + k
    <3>1. \A k \in DOMAIN x : x[k] = begins[c] + k
      BY <2>1 DEF GoesOn
    <3>2. \A k \in DOMAIN t : t[k] = begins[c] + Len(x) + k
      BY <1>5, <2>1
    <3>3. disk'[i] = x \o t /\ begins'[i] = begins[c]
      BY <1>2, <1>5
    <3> HIDE DEF x, c
    <3>4. \A k \in DOMAIN (x \o t) : (x \o t)[k] = begins[c] + k
      BY <1>3, <3>1, <3>2
    <3> QED
      BY <3>3, <3>4
  <2>3. i + 1 \notin DOMAIN disk'
    <3>1. ~(c + 1 <= c)
      BY <1>1
    <3> QED
      BY <1>2, <1>5, <3>1
  <2>4. End(i)' = End(c) + Len(t)
    <3>1. End(i)' = begins[c] + (Len(x) + Len(t))
      BY <1>2, <1>3, <1>5 DEF End
    <3> QED
      BY <1>1, <1>3, <2>1, <3>1
  <2>5. /\ \A k \in DOMAIN unflushed' : unflushed'[k] = End(i)' + k
        /\ written' = End(i)' + Len(unflushed')
    BY <1>5, <2>4
  <2> QED
    BY <2>2, <2>3, <2>5 DEF GoesOn
<1> QED
  BY <1>2, <1>4, <1>5 DEF Chained

LEMMA WriteLineChained ==
  ASSUME Files, Chained, NEW s \in Nat, WriteLine(s) PROVE Chained'
<1> DEFINE line == [k \in 1 .. s |-> written + k]
           c == curr_file_idx
<1>1. /\ TypeOK /\ pc = "run" /\ written' = written + s /\ UNCHANGED <<begins, stuck>>
      /\ c \in DOMAIN disk /\ \A j \in DOMAIN disk : j <= c /\ j \in Nat
      /\ unflushed \in Seq(Nat) /\ written \in Nat /\ Len(unflushed) \in Nat
  BY LenProperties DEF Files, Placed, WriteLine, TypeOK
<1>2. /\ line \in Seq(Nat) /\ Len(line) = s
      /\ DOMAIN line = 1 .. s /\ \A k \in 1 .. s : line[k] = written + k
  BY <1>1, LineProperties
<1> HIDE DEF line
\* The buffer with the line, after the newest file.
<1>3. ASSUME NEW e \in Nat, written = e + Len(unflushed),
             \A k \in DOMAIN unflushed : unflushed[k] = e + k
      PROVE  /\ \A k \in DOMAIN (unflushed \o line) : (unflushed \o line)[k] = e + k
             /\ written + s = e + Len(unflushed \o line)
  <2>1. \A k \in DOMAIN line : line[k] = e + Len(unflushed) + k
    BY <1>2, <1>3
  <2>2. \A k \in DOMAIN (unflushed \o line) : (unflushed \o line)[k] = e + k
    BY <1>1, <1>2, <1>3, <2>1, GoesOnProperties
  <2>3. Len(unflushed \o line) = Len(unflushed) + s
    BY <1>1, <1>2, ConcatProperties
  <2> QED
    BY <1>1, <1>3, <2>2, <2>3
<1>4. \A i \in DOMAIN disk : End(i) \in Nat
  BY <1>1, LenProperties DEF End, TypeOK
<1>5. CASE unflushed' = unflushed \o line /\ disk' = disk
  <2>1. ASSUME NEW i \in DOMAIN disk \ stuck PROVE GoesOn(i)'
    <3>1. GoesOn(i) /\ End(i)' = End(i) /\ End(i) \in Nat
      BY <1>1, <1>4, <1>5 DEF Chained, End
    <3>2. (\A j \in DOMAIN disk : j <= i) =>
            /\ \A k \in DOMAIN unflushed' : unflushed'[k] = End(i) + k
            /\ written' = End(i) + Len(unflushed')
      BY <1>1, <1>3, <1>5, <3>1 DEF GoesOn
    <3> QED
      BY <1>1, <1>5, <3>1, <3>2 DEF GoesOn
  <2> QED
    BY <1>1, <1>5, <2>1 DEF Chained
<1>6. CASE disk' = [disk EXCEPT ![c] = @ \o unflushed \o line] /\ unflushed' = <<>>
  <2> DEFINE t == unflushed \o line
  <2>1. t \in Seq(Nat) /\ Len(t) \in Nat
    BY <1>1, <1>2, ConcatProperties, LenProperties
  <2>2. disk[c] \o unflushed \o line = disk[c] \o t
    <3>1. disk[c] \in Seq(Nat)
      BY <1>1 DEF TypeOK
    <3> QED
      BY <1>1, <1>2, <3>1, ConcatAssociative
  <2>3. disk' = [disk EXCEPT ![c] = @ \o t]
    BY <1>6, <2>2
  <2>4. Len(unflushed') = 0 /\ DOMAIN unflushed' = {}
    BY <1>6, EmptySeq
  <2>5. ASSUME c \notin stuck
        PROVE  /\ \A k \in DOMAIN t : t[k] = End(c) + k
               /\ written' = End(c) + Len(t) + Len(unflushed')
    <3>1. /\ End(c) \in Nat /\ written = End(c) + Len(unflushed)
          /\ \A k \in DOMAIN unflushed : unflushed[k] = End(c) + k
      BY <1>1, <1>4, <2>5 DEF Chained, GoesOn
    <3>2. /\ \A k \in DOMAIN t : t[k] = End(c) + k
          /\ written + s = End(c) + Len(t)
      BY <1>3, <3>1
    <3> QED
      BY <1>1, <2>1, <2>4, <3>1, <3>2
  <2> HIDE DEF t
  <2> QED
    BY <1>1, <2>1, <2>3, <2>4, <2>5, AppendedChained
<1> QED
  BY <1>5, <1>6 DEF WriteLine, line

\* The buffer, or the beginning of it, goes to the file.
LEMMA MovedChained ==
  ASSUME Files, Chained, pc = "run", NEW t \in Seq(Nat),
         disk' = [disk EXCEPT ![curr_file_idx] = @ \o t],
         Len(unflushed') \in Nat, Len(unflushed) = Len(t) + Len(unflushed'),
         DOMAIN unflushed' = 1 .. Len(unflushed'),
         \A k \in DOMAIN t : t[k] = unflushed[k],
         \A k \in DOMAIN unflushed' : unflushed'[k] = unflushed[Len(t) + k],
         UNCHANGED <<written, begins, stuck>>
  PROVE  Chained'
<1> DEFINE c == curr_file_idx
<1>1. /\ TypeOK /\ c \in DOMAIN disk /\ \A j \in DOMAIN disk : j <= c
      /\ Len(t) \in Nat /\ DOMAIN t = 1 .. Len(t) /\ DOMAIN unflushed = 1 .. Len(unflushed)
  BY LenProperties DEF Files, Placed, TypeOK
<1>2. ASSUME c \notin stuck
      PROVE  /\ \A k \in DOMAIN t : t[k] = End(c) + k
             /\ \A k \in DOMAIN unflushed' : unflushed'[k] = End(c) + Len(t) + k
             /\ written' = End(c) + Len(t) + Len(unflushed')
  <2>1. End(c) \in Nat
    BY <1>1, LenProperties DEF End, TypeOK
  <2>2. /\ written = End(c) + Len(unflushed)
        /\ \A k \in DOMAIN unflushed : unflushed[k] = End(c) + k
    BY <1>1, <1>2 DEF Chained, GoesOn
  <2>3. ASSUME NEW k \in DOMAIN t PROVE t[k] = End(c) + k
    <3>1. k \in DOMAIN unflushed
      BY <1>1
    <3> QED
      BY <2>2, <3>1
  <2>4. ASSUME NEW k \in DOMAIN unflushed' PROVE unflushed'[k] = End(c) + Len(t) + k
    <3>1. Len(t) + k \in DOMAIN unflushed /\ k \in Nat
      BY <1>1
    <3>2. unflushed'[k] = End(c) + (Len(t) + k)
      BY <2>2, <3>1
    <3> QED
      BY <1>1, <2>1, <3>1, <3>2
  <2>5. written' = End(c) + Len(t) + Len(unflushed')
    BY <1>1, <2>1, <2>2
  <2> QED
    BY <2>3, <2>4, <2>5
<1> QED
  BY <1>1, <1>2, AppendedChained

LEMMA FlushChained ==
  ASSUME Files, Chained, Flush \/ Stop PROVE Chained'
<1>1. /\ TypeOK /\ pc = "run" /\ unflushed' = <<>> /\ UNCHANGED <<written, begins, stuck>>
      /\ disk' = [disk EXCEPT ![curr_file_idx] = @ \o unflushed]
  BY DEF Files, Flush, Stop, FlushedDisk, history
<1>2. /\ Len(unflushed') = 0 /\ DOMAIN unflushed' = {} /\ 1 .. 0 = {}
      /\ unflushed \in Seq(Nat) /\ Len(unflushed) \in Nat
  <2>1. Len(<<>>) = 0 /\ DOMAIN <<>> = {}
    BY EmptySeq
  <2> QED
    BY <1>1, <2>1, LenProperties DEF TypeOK
<1>3. Len(unflushed) = Len(unflushed) + Len(unflushed') /\ Len(unflushed') \in Nat
  BY <1>2
<1> QED
  BY <1>1, <1>2, <1>3, MovedChained

LEMMA SpillChained ==
  ASSUME Files, Chained, NEW n \in Nat, Spill(n) PROVE Chained'
<1> DEFINE t == SubSeq(unflushed, 1, n)
<1>1. /\ TypeOK /\ n < Len(unflushed) /\ UNCHANGED <<written, begins, stuck>>
      /\ disk' = [disk EXCEPT ![curr_file_idx] = @ \o t]
      /\ unflushed' = SubSeq(unflushed, n + 1, Len(unflushed))
  BY DEF Files, Spill, history
<1>2. unflushed \in Seq(Nat) /\ Len(unflushed) \in Nat
  BY <1>1, LenProperties DEF TypeOK
<1>3. /\ t \in Seq(Nat) /\ Len(t) = n
      /\ \A k \in 1 .. n : t[k] = unflushed[k]
      /\ unflushed' \in Seq(Nat) /\ Len(unflushed') = Len(unflushed) - n
      /\ \A k \in 1 .. Len(unflushed) - n : unflushed'[k] = unflushed[n + k]
  BY <1>1, <1>2, PartProperties
<1> HIDE DEF t
<1>4. DOMAIN t = 1 .. n /\ DOMAIN unflushed' = 1 .. Len(unflushed')
  BY <1>3, LenProperties
<1>5. Len(unflushed') \in Nat /\ Len(unflushed) = Len(t) + Len(unflushed')
  BY <1>1, <1>2, <1>3
<1>6. pc = "run"
  <2>1. unflushed # <<>>
    BY <1>1, <1>2, EmptySeq
  <2> QED
    BY <2>1 DEF Files, Buffered
<1>7. \A k \in DOMAIN unflushed' : unflushed'[k] = unflushed[Len(t) + k]
  BY <1>3, <1>4
<1>8. \A k \in DOMAIN t : t[k] = unflushed[k]
  BY <1>3, <1>4
<1> QED
  BY <1>1, <1>3, <1>4, <1>5, <1>6, <1>7, <1>8, MovedChained

LEMMA CrashChained ==
  ASSUME Files, Chained, Crash PROVE Chained'
<1>1. /\ TypeOK /\ UNCHANGED <<disk, begins, stuck>>
      /\ unflushed' = <<>> /\ written' = written - Len(unflushed)
  BY DEF Files, Crash
<1>2. /\ Len(unflushed') = 0 /\ DOMAIN unflushed' = {}
      /\ Len(unflushed) \in Nat /\ written \in Nat
  <2>1. Len(<<>>) = 0 /\ DOMAIN <<>> = {}
    BY EmptySeq
  <2> QED
    BY <1>1, <2>1, LenProperties DEF TypeOK
<1>3. ASSUME NEW i \in DOMAIN disk \ stuck PROVE GoesOn(i)'
  <2>1. GoesOn(i) /\ End(i)' = End(i) /\ End(i) \in Nat
    BY <1>1, LenProperties DEF Chained, End, TypeOK
  <2>2. (\A j \in DOMAIN disk : j <= i) => written' = End(i) + Len(unflushed')
    BY <1>1, <1>2, <2>1 DEF GoesOn
  <2> QED
    BY <1>1, <1>2, <2>1, <2>2 DEF GoesOn
<1> QED
  BY <1>1, <1>3 DEF Chained

LEMMA ChainedStep == Files /\ Chained /\ [Next]_vars => Chained'
<1> SUFFICES ASSUME Files, Chained, [Next]_vars PROVE Chained'
  OBVIOUS
<1>1. CASE \/ Start \/ CurrentIsFull \/ CurrentHasRoom \/ Trimmed \/ UNCHANGED vars
  <2>1. UNCHANGED <<disk, begins, unflushed, written, stuck>>
    BY <1>1 DEF Start, CurrentIsFull, CurrentHasRoom, Trimmed, vars, history
  <2> QED
    BY <2>1, GoesOnUnchanged DEF Chained
<1>2. CASE \/ Open \/ OpenNext
  BY <1>2, OpenChained
<1>3. ASSUME NEW i \in doomed, Remove(i) PROVE Chained'
  BY <1>3, RemoveChained
<1>4. ASSUME NEW s \in 1 .. MaxBytes, WriteLine(s) PROVE Chained'
  <2>1. s \in Nat
    BY LogAssumption
  <2> QED
    BY <1>4, <2>1, WriteLineChained
<1>5. CASE Flush \/ Stop \/ Crash
  BY <1>5, FlushChained, CrashChained
<1>6. ASSUME NEW n \in 1 .. MaxBytes, Spill(n) PROVE Chained'
  <2>1. n \in Nat
    BY LogAssumption
  <2> QED
    BY <1>6, <2>1, SpillChained
<1> QED
  BY <1>1, <1>2, <1>3, <1>4, <1>5, <1>6 DEF Next

-----------------------------------------------------------------------------
(***************************************************************************)
(* The theorems.                                                           *)
(***************************************************************************)
Inv == Files /\ Chained

\* The invariant holds in every state that can be reached.
LEMMA Invariance == Spec => []Inv
<1>1. Init => Inv
  BY FilesInit, ChainedInit DEF Inv
<1>2. Inv /\ [Next]_vars => Inv'
  BY FilesStep, ChainedStep DEF Inv
<1> QED
  BY <1>1, <1>2, PTL DEF Spec

\* Every variable keeps its type: no file has a number that is not a natural
\* number, and there are finitely many of them.
THEOREM TypeCorrect == Spec => []TypeOK
<1>1. Inv => TypeOK
  BY DEF Inv, Files
<1> QED
  BY <1>1, Invariance, PTL

\* Between two calls the device writes to the newest file, has room in it, and
\* keeps no more files than it may (RotatingFileLogDevice's constructor and
\* RotateFile), whatever crashes, failed removals and new limits came before.
THEOREM ReadyCorrect == Spec => []ReadyToWrite
<1>1. Inv => ReadyToWrite
  <2> SUFFICES ASSUME Files, pc = "run" PROVE ReadyToWrite
    BY DEF Inv, ReadyToWrite
  <2>1. TypeOK /\ curr_file_idx \in DOMAIN disk /\ \A j \in DOMAIN disk : j <= curr_file_idx
    BY DEF Files, Placed
  <2>2. Newest(DOMAIN disk) = curr_file_idx
    BY <2>1, NewestIs DEF TypeOK
  <2>3. /\ curr_file_size = Len(disk[curr_file_idx]) + Len(unflushed)
        /\ curr_file_size < max_file_size
    BY DEF Files, Sized
  <2>4. Cardinality(DOMAIN disk \ stuck) <= max_n_files
    <3>1. /\ doomed = {} /\ max_n_files \in Nat
          /\ Cardinality(Remaining \cup {curr_file_idx}) <= max_n_files
      BY <2>1 DEF Files, Trimming, TypeOK
    <3>2. DOMAIN disk \ stuck \in SUBSET (Remaining \cup {curr_file_idx})
      BY <3>1 DEF Remaining
    <3>3. Remaining \cup {curr_file_idx} \in SUBSET DOMAIN disk
      BY <2>1 DEF Remaining
    <3>4. IsFiniteSet(Remaining \cup {curr_file_idx})
      BY <2>1, <3>3, FS_Subset DEF TypeOK
    <3>5. /\ Cardinality(DOMAIN disk \ stuck) <= Cardinality(Remaining \cup {curr_file_idx})
          /\ Cardinality(DOMAIN disk \ stuck) \in Nat
          /\ Cardinality(Remaining \cup {curr_file_idx}) \in Nat
      BY <3>2, <3>4, FS_Subset, FS_CardinalityType
    <3> QED
      BY <3>1, <3>5
  <2> QED
    BY <2>1, <2>2, <2>3, <2>4 DEF ReadyToWrite
<1> QED
  BY <1>1, Invariance, PTL

\* Each file goes on where the one before it ends, across rotations, restarts
\* and crashes (WriteLine, RotateFile, the constructor).
THEOREM NothingIsLost == Spec => []NothingLost
<1>1. Inv => NothingLost
  <2> SUFFICES ASSUME Files, Chained, NEW i \in DOMAIN disk \ stuck
               PROVE  /\ \A k \in DOMAIN disk[i] : disk[i][k] = begins[i] + k
                      /\ i + 1 \in DOMAIN disk => begins[i + 1] = End(i)
                      /\ i = Newest(DOMAIN disk) =>
                           /\ \A k \in DOMAIN unflushed : unflushed[k] = End(i) + k
                           /\ written = End(i) + Len(unflushed)
    BY DEF Inv, NothingLost, End
  <2>1. DOMAIN disk \in SUBSET Nat /\ IsFiniteSet(DOMAIN disk) /\ DOMAIN disk # {}
    BY DEF Files, TypeOK
  <2>2. i = Newest(DOMAIN disk) => \A j \in DOMAIN disk : j <= i
    BY <2>1, NewestProperties
  <2>3. GoesOn(i)
    BY DEF Chained
  <2> QED
    BY <2>2, <2>3 DEF GoesOn
<1> QED
  BY <1>1, Invariance, PTL

\* Only a file that has max_n_files - 1 newer ones besides the current one is
\* removed (RemoveLogFilesIfNecessary, rotating_file_log_device.h).
THEOREM NewestAreKept == Spec => KeepsNewest
<1> DEFINE A == \A i \in DOMAIN disk \ DOMAIN disk' :
                  Cardinality({j \in DOMAIN disk' \ {curr_file_idx} : j > i}) >= max_n_files - 1
<1>1. Inv /\ [Next]_vars => [A]_vars
  <2> SUFFICES ASSUME Files, Next PROVE A
    BY DEF Inv
  <2> HIDE DEF A
  <2>1. TypeOK
    BY DEF Files
  <2>2. ASSUME DOMAIN disk \subseteq DOMAIN disk' PROVE A
    BY <2>2 DEF A
  <2>3. CASE Open \/ OpenNext
    BY <2>1, <2>2, <2>3, OpenCurrentProperties DEF Open, OpenNext
  <2>4. CASE Start \/ CurrentIsFull \/ CurrentHasRoom \/ Trimmed \/ Flush \/ Stop \/ Crash
    BY <2>2, <2>4 DEF Start, CurrentIsFull, CurrentHasRoom, Trimmed, Flush, Stop, Crash, FlushedDisk
  <2>5. ASSUME NEW s \in 1 .. MaxBytes, WriteLine(s) PROVE A
    BY <2>2, <2>5 DEF WriteLine
  <2>6. ASSUME NEW n \in 1 .. MaxBytes, Spill(n) PROVE A
    BY <2>2, <2>6 DEF Spill
  <2>7. ASSUME NEW i \in doomed, Remove(i) PROVE A
    <3> DEFINE G == {j \in DOMAIN disk' \ {curr_file_idx} : j > i}
    <3>1. DOMAIN disk \ DOMAIN disk' \in SUBSET {i}
      BY <2>7, RemoveProperties
    <3>2. IsFiniteSet(DOMAIN disk') /\ max_n_files \in Nat
      BY <2>1, <2>7, RemoveTypes DEF TypeOK
    <3>3. IsFiniteSet(G)
      BY <3>2, FS_Subset
    <3>4. Newer(i) \in SUBSET G
      BY <3>1 DEF Newer
    <3>5. /\ Cardinality(Newer(i)) <= Cardinality(G)
          /\ Cardinality(Newer(i)) \in Nat /\ Cardinality(G) \in Nat
      BY <3>3, <3>4, FS_Subset, FS_CardinalityType
    <3>6. Cardinality(Newer(i)) >= max_n_files - 1
      BY DEF Files, Trimming
    <3>7. Cardinality(G) >= max_n_files - 1
      BY <3>2, <3>5, <3>6
    <3> QED
      BY <3>1, <3>7 DEF A
  <2> QED
    BY <2>3, <2>4, <2>5, <2>6, <2>7 DEF Next
<1> QED
  BY <1>1, Invariance, PTL DEF KeepsNewest, Spec
=============================================================================
