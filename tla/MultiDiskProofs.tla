---------------------------- MODULE MultiDiskProofs ----------------------------
(***************************************************************************)
(* Proofs about MultiDisk for any number of parts and any sizes of chunks, *)
(* buffers and calls: what is written arrives in the parts in order, and   *)
(* is what is read, unless the file was opened for append where appending  *)
(* is known to fail.                                                       *)
(***************************************************************************)
EXTENDS MultiDisk, SequenceTheorems, TLAPS

(***************************************************************************)
(* How the bytes of a file are numbered.                                   *)
(***************************************************************************)
\* How many of the first o bytes of a file are in part p.
Held(p, o) == SeekOff(p, o \div Chunk) + (IF p = PartOf(o) THEN o % Chunk ELSE 0)

\* The offset in the file of the byte at an offset j of part p.
OffsetOf(p, j) == Chunk * (NParts * (j \div Chunk) + p) + (j % Chunk)

LEMMA Quotient ==
  ASSUME NEW n \in Nat, NEW d \in Nat \ {0}
  PROVE  /\ n \div d \in Nat /\ n % d \in 0 .. d - 1
         /\ n = d * (n \div d) + (n % d)
OBVIOUS

LEMMA QuotientUnique ==
  ASSUME NEW d \in Nat \ {0}, NEW q \in Nat, NEW r \in 0 .. d - 1
  PROVE  (d * q + r) \div d = q /\ (d * q + r) % d = r
<1>1. d * q + r \in Nat
  OBVIOUS
<1>2. /\ (d * q + r) \div d \in Nat /\ (d * q + r) % d \in 0 .. d - 1
      /\ d * q + r = d * ((d * q + r) \div d) + ((d * q + r) % d)
  BY <1>1, Quotient
<1> QED
  BY <1>2

LEMMA MultiplesApart ==
  ASSUME NEW d \in Nat, NEW a \in Nat, NEW b \in Nat, a < b
  PROVE  d * a + d <= d * b
<1>1. b - a - 1 \in Nat
  OBVIOUS
<1>2. d * (b - a - 1) \in Nat
  BY <1>1
<1>3. d * (b - a - 1) = d * b - d * a - d
  BY <1>1
<1> QED
  BY <1>2, <1>3

LEMMA Distributes ==
  ASSUME NEW d \in Nat, NEW m \in Nat, NEW n \in Nat
  PROVE  d * m \in Nat /\ d * (m + n) = d * m + d * n
OBVIOUS

LEMMA Product ==
  ASSUME NEW d \in Nat, NEW m \in Nat
  PROVE  d * m \in Nat
OBVIOUS

LEMMA PartNumbers ==
  ASSUME NEW p \in Streams
  PROVE  /\ NParts \in Nat \ {0} /\ Chunk \in Nat \ {0} /\ Streams = 0 .. NParts - 1
         /\ p \in Nat /\ p < NParts
BY DiskAssumption

\* An offset is a place in a chunk, the chunk being that of a part in a round.
LEMMA Taken ==
  ASSUME NEW p \in Streams, NEW o \in Nat
  PROVE  \E a \in Nat, c \in Streams, r \in 0 .. Chunk - 1 : o = Chunk * (NParts * a + c) + r
<1>1. /\ o \div Chunk \in Nat /\ o % Chunk \in 0 .. Chunk - 1
      /\ o = Chunk * (o \div Chunk) + (o % Chunk)
  BY PartNumbers, Quotient
<1> DEFINE b == o \div Chunk
<1> HIDE DEF b
<1>2. /\ b \div NParts \in Nat /\ b % NParts \in Streams
      /\ b = NParts * (b \div NParts) + (b % NParts)
  BY <1>1, PartNumbers, Quotient DEF b
<1> QED
  BY <1>1, <1>2 DEF b

LEMMA Placed ==
  ASSUME NEW a \in Nat, NEW c \in Streams, NEW r \in 0 .. Chunk - 1,
         NEW o, o = Chunk * (NParts * a + c) + r
  PROVE  /\ o \in Nat /\ PartOf(o) = c /\ o % Chunk = r /\ RoomAt(o) = Chunk - r
         /\ Chunk * a \in Nat
         /\ \A p \in Streams :
              Held(p, o) = Chunk * a + (IF p < c THEN Chunk ELSE 0) + (IF p = c THEN r ELSE 0)
<1> DEFINE b == NParts * a + c
<1>1. Chunk \in Nat \ {0} /\ NParts \in Nat \ {0} /\ c \in 0 .. NParts - 1
  BY PartNumbers
<1>2. b \in Nat /\ o = Chunk * b + r
  BY <1>1
<1>3. b \div NParts = a /\ b % NParts = c
  BY <1>1, QuotientUnique
<1> HIDE DEF b
<1>4. o \in Nat /\ o \div Chunk = b /\ o % Chunk = r
  <2>1. Chunk * b \in Nat
    BY <1>1, <1>2, Product
  <2> QED
    BY <1>1, <1>2, <2>1, QuotientUnique
<1>5. PartOf(o) = c /\ RoomAt(o) = Chunk - r
  BY <1>3, <1>4 DEF PartOf, RoomAt
<1>6. Chunk * a \in Nat /\ Chunk * (a + 1) = Chunk * a + Chunk /\ Chunk * (a + 0) = Chunk * a
  BY <1>1
<1>7. ASSUME NEW p \in Streams
      PROVE  Held(p, o) = Chunk * a + (IF p < c THEN Chunk ELSE 0) + (IF p = c THEN r ELSE 0)
  <2>1. Held(p, o) = Chunk * (a + (IF p < c THEN 1 ELSE 0)) + (IF p = c THEN r ELSE 0)
    BY <1>3, <1>4, <1>5 DEF Held, SeekOff
  <2>2. Chunk * (a + (IF p < c THEN 1 ELSE 0)) = Chunk * a + (IF p < c THEN Chunk ELSE 0)
    <3>1. CASE p < c
      BY <1>6, <3>1
    <3>2. CASE ~(p < c)
      BY <1>6, <3>2
    <3> QED
      BY <3>1, <3>2
  <2> QED
    BY <2>1, <2>2
<1> QED
  BY <1>4, <1>5, <1>6, <1>7

\* The same with the products named.
LEMMA InRound ==
  ASSUME NEW o \in Nat, NEW p \in Streams
  PROVE  \E a \in Nat, c \in Streams, r \in 0 .. Chunk - 1, x \in Nat :
           /\ o = Chunk * (NParts * a + c) + r /\ x = Chunk * a
           /\ PartOf(o) = c /\ RoomAt(o) = Chunk - r
           /\ \A q \in Streams :
                Held(q, o) = x + (IF q < c THEN Chunk ELSE 0) + (IF q = c THEN r ELSE 0)
<1>1. PICK a \in Nat, c \in Streams, r \in 0 .. Chunk - 1 : o = Chunk * (NParts * a + c) + r
  BY Taken
<1> DEFINE x == Chunk * a
<1>2. /\ PartOf(o) = c /\ RoomAt(o) = Chunk - r /\ x \in Nat
      /\ \A q \in Streams :
           Held(q, o) = x + (IF q < c THEN Chunk ELSE 0) + (IF q = c THEN r ELSE 0)
  BY <1>1, Placed
<1>3. x = Chunk * a
  OBVIOUS
<1> HIDE DEF x
<1> QED
  BY <1>1, <1>2, <1>3

LEMMA HeldTypes ==
  ASSUME NEW p \in Streams, NEW o \in Nat
  PROVE  Held(p, o) \in Nat /\ PartOf(o) \in Streams /\ RoomAt(o) \in 1 .. Chunk
<1>1. PICK a \in Nat, c \in Streams, r \in 0 .. Chunk - 1, x \in Nat :
        /\ PartOf(o) = c /\ RoomAt(o) = Chunk - r
        /\ \A q \in Streams :
             Held(q, o) = x + (IF q < c THEN Chunk ELSE 0) + (IF q = c THEN r ELSE 0)
  BY InRound
<1>2. Chunk \in Nat
  BY PartNumbers
<1> QED
  BY <1>1, <1>2

LEMMA NothingHeld ==
  ASSUME NEW p \in Streams
  PROVE  Held(p, 0) = 0
<1>1. 0 \in Streams /\ ~(p < 0) /\ Chunk \in Nat \ {0} /\ NParts \in Nat /\ p \in Nat
  BY PartNumbers
<1>2. NParts * 0 + 0 = 0 /\ Chunk * 0 = 0 /\ 0 \in 0 .. Chunk - 1
  BY <1>1
<1>3. 0 = Chunk * (NParts * 0 + 0) + 0
  BY <1>2
<1>4. Held(p, 0) = Chunk * 0 + (IF p < 0 THEN Chunk ELSE 0) + (IF p = 0 THEN 0 ELSE 0)
  BY <1>1, <1>2, <1>3, Placed
<1> QED
  BY <1>1, <1>2, <1>4

\* Where the next chunk is.
LEMMA NextChunk ==
  ASSUME NEW a \in Nat, NEW c \in Streams
  PROVE  /\ c + 1 < NParts => /\ c + 1 \in Streams
                              /\ Chunk * (NParts * a + c) + Chunk = Chunk * (NParts * a + (c + 1)) + 0
         /\ c + 1 = NParts => /\ 0 \in Streams
                              /\ Chunk * (NParts * a + c) + Chunk = Chunk * (NParts * (a + 1) + 0) + 0
         /\ Chunk * (NParts * a + c) \in Nat
<1> DEFINE x == NParts * a
<1>1. Chunk \in Nat /\ NParts \in Nat \ {0} /\ c \in Nat /\ Streams = 0 .. NParts - 1
  BY PartNumbers
<1>2. x \in Nat /\ NParts * (a + 1) = x + NParts
  BY <1>1
<1> HIDE DEF x
<1>3. x + c \in Nat
  BY <1>1, <1>2
<1>4. /\ Chunk * (x + c) \in Nat
      /\ Chunk * ((x + c) + 1) = Chunk * (x + c) + Chunk /\ Chunk * ((x + c) + 1) \in Nat
  BY <1>1, <1>3
<1>5. (x + c) + 1 = x + (c + 1) /\ (c + 1 = NParts => (x + c) + 1 = (x + NParts) + 0)
  BY <1>1, <1>2
<1>6. \A n \in Nat : n + 0 = n
  OBVIOUS
<1>7. Chunk * ((x + c) + 1) + 0 = Chunk * (x + c) + Chunk
  BY <1>4, <1>6, Zenon
<1>8. c + 1 < NParts => c + 1 \in Streams
  BY <1>1
<1>9. 0 \in Streams
  BY <1>1
<1>10. Chunk * (x + c) + Chunk = Chunk * (x + (c + 1)) + 0
  BY <1>5, <1>7
<1>11. c + 1 = NParts => Chunk * (x + c) + Chunk = Chunk * (NParts * (a + 1) + 0) + 0
  <2>1. ASSUME c + 1 = NParts PROVE NParts * (a + 1) + 0 = (x + c) + 1
    BY <1>2, <1>5, <2>1
  <2> QED
    BY <1>7, <2>1
<1> QED
  BY <1>4, <1>8, <1>9, <1>10, <1>11 DEF x

\* Bytes up to the end of a chunk go to the part of the chunk.
LEMMA HeldMore ==
  ASSUME NEW p \in Streams, NEW o \in Nat, NEW s \in 1 .. RoomAt(o)
  PROVE  Held(p, o + s) = Held(p, o) + (IF p = PartOf(o) THEN s ELSE 0)
<1>1. PICK a \in Nat, c \in Streams, r \in 0 .. Chunk - 1, x \in Nat :
        /\ o = Chunk * (NParts * a + c) + r /\ x = Chunk * a
        /\ PartOf(o) = c /\ RoomAt(o) = Chunk - r
        /\ \A q \in Streams :
             Held(q, o) = x + (IF q < c THEN Chunk ELSE 0) + (IF q = c THEN r ELSE 0)
  BY InRound
<1>2. /\ Chunk \in Nat \ {0} /\ r + s \in Nat /\ r + s <= Chunk /\ c \in Nat /\ p \in Nat
      /\ NParts \in Nat /\ c < NParts /\ p < NParts
      /\ Held(p, o) = x + (IF p < c THEN Chunk ELSE 0) + (IF p = c THEN r ELSE 0)
  BY <1>1, PartNumbers
<1> DEFINE y == Chunk * (NParts * a + c)
<1>3. y \in Nat /\ o = y + r
  BY <1>1, NextChunk
<1>4. CASE r + s < Chunk
  <2>1. r + s \in 0 .. Chunk - 1
    BY <1>2, <1>4
  <2>2. o + s = Chunk * (NParts * a + c) + (r + s)
    <3> HIDE DEF y
    <3>1. o + s = y + (r + s)
      BY <1>3
    <3> QED
      BY <3>1 DEF y
  <2>3. Held(p, o + s) = Chunk * a + (IF p < c THEN Chunk ELSE 0) + (IF p = c THEN r + s ELSE 0)
    BY <2>1, <2>2, Placed
  <2>4. Held(p, o + s) = x + (IF p < c THEN Chunk ELSE 0) + (IF p = c THEN r + s ELSE 0)
    BY <1>1, <2>3
  <2> QED
    BY <1>1, <1>2, <2>4
<1>5. r + s = Chunk => o + s = y + Chunk
  <2> HIDE DEF y
  <2> QED
    BY <1>3
<1>6. 0 \in 0 .. Chunk - 1
  BY <1>2
<1>7. CASE r + s = Chunk /\ c + 1 < NParts
  <2>1. c + 1 \in Streams /\ o + s = Chunk * (NParts * a + (c + 1)) + 0
    BY <1>5, <1>7, NextChunk
  <2>2. Held(p, o + s) = Chunk * a + (IF p < c + 1 THEN Chunk ELSE 0) + (IF p = c + 1 THEN 0 ELSE 0)
    BY <1>6, <2>1, Placed
  <2>3. Held(p, o + s) = x + (IF p < c + 1 THEN Chunk ELSE 0) + (IF p = c + 1 THEN 0 ELSE 0)
    BY <1>1, <2>2
  <2> QED
    BY <1>1, <1>2, <1>7, <2>3
<1>8. CASE r + s = Chunk /\ c + 1 = NParts
  <2>1. 0 \in Streams /\ a + 1 \in Nat /\ o + s = Chunk * (NParts * (a + 1) + 0) + 0
    BY <1>5, <1>8, NextChunk
  <2>2. Held(p, o + s) = Chunk * (a + 1) + (IF p < 0 THEN Chunk ELSE 0) + (IF p = 0 THEN 0 ELSE 0)
    BY <1>6, <2>1, Placed
  <2>3. Chunk * (a + 1) = x + Chunk
    BY <1>1, <1>2
  <2>4. Held(p, o + s) = (x + Chunk) + (IF p < 0 THEN Chunk ELSE 0) + (IF p = 0 THEN 0 ELSE 0)
    BY <2>2, <2>3
  <2>5. Held(p, o + s) = x + Chunk
    BY <1>2, <2>4
  <2>6. p < c \/ p = c
    BY <1>2, <1>8
  <2> QED
    BY <1>1, <1>2, <1>8, <2>5, <2>6
<1> QED
  BY <1>2, <1>4, <1>7, <1>8

\* Of two offsets, the later one is in the same chunk or a later one.
LEMMA InOrderOfChunks ==
  ASSUME NEW a \in Nat, NEW c \in Streams, NEW r \in 0 .. Chunk - 1,
         NEW b \in Nat, NEW d \in Streams, NEW t \in 0 .. Chunk - 1,
         Chunk * (NParts * a + c) + r <= Chunk * (NParts * b + d) + t
  PROVE  a < b \/ (a = b /\ (c < d \/ (c = d /\ r <= t)))
<1> DEFINE i == NParts * a + c
           j == NParts * b + d
<1>1. /\ Chunk \in Nat \ {0} /\ NParts \in Nat \ {0}
      /\ c \in Nat /\ c < NParts /\ d \in Nat /\ d < NParts
  BY PartNumbers
<1>2. NParts * a \in Nat /\ NParts * b \in Nat
  BY <1>1, Product
<1>3. i \in Nat /\ j \in Nat
  BY <1>1, <1>2
<1>4. ~(j < i) /\ (i = j => r <= t)
  <2> HIDE DEF i, j
  <2>1. Chunk * i \in Nat /\ Chunk * j \in Nat
    BY <1>1, <1>3, Product
  <2>2. Chunk * i + r <= Chunk * j + t
    BY DEF i, j
  <2>3. ASSUME j < i PROVE FALSE
    <3>1. Chunk * j + Chunk <= Chunk * i
      BY <1>1, <1>3, <2>3, MultiplesApart
    <3> DEFINE u == Chunk * i
               v == Chunk * j
    <3>2. u \in Nat /\ v \in Nat /\ u + r <= v + t /\ v + Chunk <= u
      BY <2>1, <2>2, <3>1
    <3> HIDE DEF u, v
    <3> QED
      BY <1>1, <3>2
  <2>4. ASSUME i = j PROVE r <= t
    <3> DEFINE u == Chunk * i
    <3>1. u \in Nat /\ u + r <= u + t
      BY <2>1, <2>2, <2>4
    <3> HIDE DEF u
    <3> QED
      BY <3>1
  <2> QED
    BY <2>3, <2>4
<1>5. ~(b < a)
  <2>1. ASSUME b < a PROVE FALSE
    <3>1. NParts * b + NParts <= NParts * a
      BY <1>1, <2>1, MultiplesApart
    <3> DEFINE u == NParts * a
               v == NParts * b
    <3>2. u \in Nat /\ v \in Nat /\ v + NParts <= u /\ ~(v + d < u + c)
      BY <1>2, <1>4, <3>1
    <3> HIDE DEF u, v
    <3> QED
      BY <1>1, <3>2
  <2> QED
    BY <2>1
<1>6. a = b => c < d \/ c = d
  <2>1. ASSUME a = b PROVE ~(d < c)
    <3> DEFINE u == NParts * a
    <3>1. u \in Nat /\ ~(u + d < u + c)
      BY <1>2, <1>4, <2>1
    <3> HIDE DEF u
    <3> QED
      BY <1>1, <3>1
  <2> QED
    BY <1>1, <2>1
<1> QED
  BY <1>4, <1>5, <1>6

\* The bytes of a part come from ever later offsets.
LEMMA HeldGrows ==
  ASSUME NEW p \in Streams, NEW m \in Nat, NEW n \in Nat, m <= n
  PROVE  Held(p, m) <= Held(p, n)
<1>1. PICK a \in Nat, c \in Streams, r \in 0 .. Chunk - 1, x \in Nat :
        /\ m = Chunk * (NParts * a + c) + r /\ x = Chunk * a
        /\ PartOf(m) = c /\ RoomAt(m) = Chunk - r
        /\ \A q \in Streams :
             Held(q, m) = x + (IF q < c THEN Chunk ELSE 0) + (IF q = c THEN r ELSE 0)
  BY InRound
<1>2. PICK b \in Nat, d \in Streams, t \in 0 .. Chunk - 1, y \in Nat :
        /\ n = Chunk * (NParts * b + d) + t /\ y = Chunk * b
        /\ PartOf(n) = d /\ RoomAt(n) = Chunk - t
        /\ \A q \in Streams :
             Held(q, n) = y + (IF q < d THEN Chunk ELSE 0) + (IF q = d THEN t ELSE 0)
  BY InRound
<1>3. a < b \/ (a = b /\ (c < d \/ (c = d /\ r <= t)))
  BY <1>1, <1>2, InOrderOfChunks
<1>4. Chunk \in Nat /\ p \in Nat /\ c \in Nat /\ d \in Nat
  BY PartNumbers
<1>5. a < b => x + Chunk <= y
  BY <1>1, <1>2, <1>4, MultiplesApart
<1>6. a = b => x = y
  BY <1>1, <1>2
<1>7. /\ Held(p, m) = x + (IF p < c THEN Chunk ELSE 0) + (IF p = c THEN r ELSE 0)
      /\ Held(p, n) = y + (IF p < d THEN Chunk ELSE 0) + (IF p = d THEN t ELSE 0)
  BY <1>1, <1>2
<1> QED
  BY <1>3, <1>4, <1>5, <1>6, <1>7

\* A byte of a chunk, at its place in the part.
LEMMA OffsetOfHeld ==
  ASSUME NEW o \in Nat, NEW k \in 0 .. RoomAt(o) - 1, PartOf(o) \in Streams
  PROVE  OffsetOf(PartOf(o), Held(PartOf(o), o) + k) = o + k
<1>1. PICK a \in Nat, c \in Streams, r \in 0 .. Chunk - 1, x \in Nat :
        /\ o = Chunk * (NParts * a + c) + r /\ x = Chunk * a
        /\ PartOf(o) = c /\ RoomAt(o) = Chunk - r
        /\ \A q \in Streams :
             Held(q, o) = x + (IF q < c THEN Chunk ELSE 0) + (IF q = c THEN r ELSE 0)
  BY InRound
<1>2. Held(c, o) = x + r
  <2>1. Held(c, o) = x + (IF c < c THEN Chunk ELSE 0) + (IF c = c THEN r ELSE 0) /\ c \in Nat
    BY <1>1, PartNumbers
  <2>2. ~(c < c)
    BY <2>1
  <2> QED
    BY <2>1, <2>2
<1>3. r + k \in 0 .. Chunk - 1 /\ Chunk \in Nat \ {0}
  BY <1>1, PartNumbers
<1>4. (Chunk * a + (r + k)) \div Chunk = a /\ (Chunk * a + (r + k)) % Chunk = r + k
  BY <1>3, QuotientUnique
<1>5. Held(c, o) + k = x + (r + k)
  BY <1>2
<1>6. Held(c, o) + k = Chunk * a + (r + k)
  BY <1>1, <1>5
<1>7. OffsetOf(c, Held(c, o) + k) = Chunk * (NParts * a + c) + (r + k)
  BY <1>4, <1>6 DEF OffsetOf
<1>8. Chunk * (NParts * a + c) + (r + k) = o + k
  <2> DEFINE y == Chunk * (NParts * a + c)
  <2>1. y \in Nat /\ o = y + r
    BY <1>1, NextChunk
  <2> HIDE DEF y
  <2>2. y + (r + k) = o + k
    BY <2>1
  <2> QED
    BY <2>2 DEF y
<1> QED
  BY <1>1, <1>7, <1>8

LEMMA HeldOfOffset ==
  ASSUME NEW p \in Streams, NEW j \in Nat
  PROVE  /\ OffsetOf(p, j) \in Nat
         /\ PartOf(OffsetOf(p, j)) = p /\ Held(p, OffsetOf(p, j)) = j
<1> DEFINE a == j \div Chunk
           r == j % Chunk
<1>1. a \in Nat /\ r \in 0 .. Chunk - 1 /\ j = Chunk * a + r /\ Chunk \in Nat /\ p \in Nat
  BY PartNumbers, Quotient
<1>2. OffsetOf(p, j) = Chunk * (NParts * a + p) + r
  BY DEF OffsetOf
<1> HIDE DEF a, r
<1>3. /\ OffsetOf(p, j) \in Nat /\ PartOf(OffsetOf(p, j)) = p /\ Chunk * a \in Nat
      /\ Held(p, OffsetOf(p, j)) =
           Chunk * a + (IF p < p THEN Chunk ELSE 0) + (IF p = p THEN r ELSE 0)
  BY <1>1, <1>2, Placed
<1>4. Held(p, OffsetOf(p, j)) = Chunk * a + r
  <2> DEFINE x == Chunk * a
  <2>1. /\ x \in Nat /\ ~(p < p)
        /\ Held(p, OffsetOf(p, j)) = x + (IF p < p THEN Chunk ELSE 0) + (IF p = p THEN r ELSE 0)
    BY <1>1, <1>3
  <2> HIDE DEF x
  <2>2. Held(p, OffsetOf(p, j)) = x + r
    BY <1>1, <2>1
  <2> QED
    BY <2>2 DEF x
<1> QED
  BY <1>1, <1>3, <1>4

\* Whole rounds before it do not change where an offset falls.
LEMMA RoundsApart ==
  ASSUME NEW p \in Streams, NEW b \in Nat, NEW o \in Nat
  PROVE  /\ PartOf(o + Chunk * NParts * b) = PartOf(o)
         /\ RoomAt(o + Chunk * NParts * b) = RoomAt(o)
<1>1. PICK a \in Nat, c \in Streams, r \in 0 .. Chunk - 1 : o = Chunk * (NParts * a + c) + r
  BY Taken
<1>2. PartOf(o) = c /\ RoomAt(o) = Chunk - r
  BY <1>1, Placed
<1>3. a + b \in Nat /\ o + Chunk * NParts * b = Chunk * (NParts * (a + b) + c) + r
  <2> DEFINE x == NParts * a
             y == NParts * b
  <2>1. NParts \in Nat /\ Chunk \in Nat /\ c \in Nat /\ a + b \in Nat
    BY PartNumbers
  <2>2. x \in Nat /\ y \in Nat /\ NParts * (a + b) = x + y
    BY <2>1, Distributes
  <2>3. Chunk * NParts * b = Chunk * y
    BY <2>1
  <2>4. o = Chunk * (x + c) + r
    BY <1>1
  <2> HIDE DEF x, y
  <2>5. x + c \in Nat /\ (x + y) + c = (x + c) + y
    BY <2>1, <2>2
  <2>6. Chunk * (x + c) \in Nat /\ Chunk * y \in Nat
        /\ Chunk * ((x + c) + y) = Chunk * (x + c) + Chunk * y
    BY <2>1, <2>2, <2>5, Distributes
  <2>7. o + Chunk * y = Chunk * ((x + c) + y) + r
    <3> DEFINE u == Chunk * (x + c)
               v == Chunk * y
    <3>1. u \in Nat /\ v \in Nat /\ Chunk * ((x + c) + y) = u + v /\ o = u + r
      BY <2>4, <2>6
    <3> HIDE DEF u, v
    <3>2. o + v = (u + v) + r
      BY <3>1
    <3> QED
      BY <3>1, <3>2 DEF v
  <2> QED
    BY <2>1, <2>2, <2>3, <2>5, <2>7
<1>4. PartOf(o + Chunk * NParts * b) = c /\ RoomAt(o + Chunk * NParts * b) = Chunk - r
  BY <1>3, Placed
<1> QED
  BY <1>2, <1>4

(***************************************************************************)
(* The inductive invariant.                                                *)
(***************************************************************************)
Buffers == [Streams -> Seq(Nat)]

Typed ==
  /\ file \in Buffers /\ buf \in Buffers /\ writing_buf \in Buffers
  /\ rest \in Buffers /\ prefetch_buf \in Buffers
  /\ writer \in Buffers /\ prefetcher \in [Streams -> Seq(Int)] /\ prefetched \in Buffers
  /\ write_token \in [Streams -> Nat] /\ pos \in [Streams -> Nat]
  /\ buf_size \in Nat /\ capacity \in [Streams -> Nat \ {0}]
  /\ call \in {"none", "write", "flush", "read", "done"} /\ cur \in Streams
  /\ swapped \in BOOLEAN
  /\ data \in Seq(Nat) /\ got \in Seq(Nat) /\ want \in Nat
  /\ mode \in {"writing", "closing", "closed", "reading"}
  /\ left \in Nat /\ size \in Nat /\ off \in Nat /\ total \in Nat /\ asked \in Nat
  /\ result \in Seq(Nat)

\* Where the one token of an output buffer is.
Swapping(p) == swapped /\ cur = p
TokenKept(p) ==
  \/ writer[p] = <<>> /\ ~Swapping(p) /\ write_token[p] = 1
  \/ writer[p] = <<>> /\ Swapping(p) /\ write_token[p] = 0 /\ buf[p] = <<>>
  \/ writer[p] = <<Len(writing_buf[p])>> /\ ~Swapping(p) /\ write_token[p] = 0

\* The calls there are in each mode.
CallsOfMode ==
  /\ swapped => call \in {"write", "flush"}
  /\ mode = "writing" => call \in {"none", "write"}
  /\ mode = "closing" => call \in {"none", "flush"}
  /\ mode = "closed" => call = "none" /\ left = 0
  /\ mode = "reading" => call \in {"none", "read", "done"}
  /\ mode # "reading" => asked = 0 /\ result = <<>>

\* A stream opened for append starts counting where a round of chunks starts.
Round == Chunk * NParts
StartsARound == mode = "writing" => \E b \in Nat : total = size + Round * b

\* The parts that are on disk.
OnDisk(p) == buf[p] = <<>> /\ writer[p] = <<>>
FlushedParts ==
  /\ mode = "closing" =>
       /\ left <= NParts
       /\ \A p \in Streams : p < NParts - left => OnDisk(p) \/ (call = "flush" /\ cur = p)
  /\ mode \in {"closed", "reading"} => \A p \in Streams : OnDisk(p)

\* The bytes of a part, each at its place.
Content(p) ==
  /\ Len(Stored(p)) = Held(p, total)
  /\ \A j \in 1 .. Len(Stored(p)) : Stored(p)[j] = OffsetOf(p, j - 1) + 1

WriteInv ==
  /\ Typed /\ CallsOfMode /\ StartsARound /\ FlushedParts
  /\ \A p \in Streams : TokenKept(p) /\ Content(p)

\* What the thread that reads ahead has ready, and how far the reader is.
InRead(p) == call \in {"read", "done"} /\ cur = p
Block(p) == IF prefetched[p] = <<>> THEN <<>> ELSE prefetch_buf[p]
At(p) == Held(p, off) + (IF InRead(p) THEN Len(got) ELSE 0)

\* Orders and blocks alternate; after a short block nothing is left.
Ahead(p) ==
  /\ \/ prefetched[p] = <<>> /\ prefetcher[p] \in {<<0>>, <<-1>>}
     \/ prefetcher[p] = <<>> /\ prefetched[p] = <<Len(prefetch_buf[p])>>
  /\ prefetcher[p] = <<-1>> => pos[p] = Len(file[p])
  /\ prefetched[p] # <<>> =>
       /\ Len(prefetch_buf[p]) <= capacity[p]
       /\ Len(prefetch_buf[p]) < capacity[p] => pos[p] = Len(file[p])

\* The rest of the buffer and the block read ahead follow what was read.
Following(p) ==
  /\ pos[p] <= Len(file[p])
  /\ At(p) + Len(rest[p]) + Len(Block(p)) = pos[p]
  /\ \A j \in 1 .. Len(rest[p]) : rest[p][j] = file[p][At(p) + j]
  /\ \A j \in 1 .. Len(Block(p)) : Block(p)[j] = file[p][At(p) + Len(rest[p]) + j]

\* The call of a part's Read.
PartCall ==
  call \in {"read", "done"} =>
    /\ cur = PartOf(off) /\ left > 0
    /\ Len(got) + want = Smaller(left, RoomAt(off))
    /\ \A j \in 1 .. Len(got) : got[j] = file[cur][Held(cur, off) + j]
    /\ call = "done" /\ want > 0 => At(cur) = Len(file[cur])

ReadInv ==
  mode = "reading" =>
    /\ size = total /\ off <= size /\ left + Len(result) = asked
    /\ \A k \in 1 .. Len(result) : result[k] = off - Len(result) + k
    /\ PartCall
    /\ \A p \in Streams : Ahead(p) /\ Following(p)

Inv == WriteInv /\ ReadInv

(***************************************************************************)
(* Buffers, and what there is of a part.                                   *)
(***************************************************************************)
Writing(p) == IF writer[p] # <<>> \/ Swapping(p) THEN writing_buf[p] ELSE <<>>
Given(p) == IF call = "write" /\ cur = p THEN data ELSE <<>>

LEMMA EmptyBuffer == <<>> \in Seq(Nat) /\ Len(<<>>) = 0
BY EmptySeq

LEMMA Joined ==
  ASSUME NEW s \in Seq(Nat), NEW t \in Seq(Nat)
  PROVE  /\ s \o t \in Seq(Nat)
         /\ Len(s) \in Nat /\ Len(t) \in Nat /\ Len(s \o t) = Len(s) + Len(t)
         /\ \A j \in 1 .. Len(s) : (s \o t)[j] = s[j]
         /\ \A j \in 1 .. Len(t) : (s \o t)[Len(s) + j] = t[j]
<1>1. Len(s) \in Nat /\ Len(t) \in Nat
  BY LenProperties
<1>2. /\ s \o t \in Seq(Nat) /\ Len(s \o t) = Len(s) + Len(t)
      /\ \A j \in 1 .. Len(s) + Len(t) :
           (s \o t)[j] = IF j <= Len(s) THEN s[j] ELSE t[j - Len(s)]
  BY ConcatProperties
<1>3. ASSUME NEW j \in 1 .. Len(t) PROVE (s \o t)[Len(s) + j] = t[j]
  <2>1. /\ Len(s) + j \in 1 .. Len(s) + Len(t) /\ ~(Len(s) + j <= Len(s))
        /\ (Len(s) + j) - Len(s) = j
    BY <1>1
  <2> QED
    BY <1>2, <2>1
<1>4. ASSUME NEW j \in 1 .. Len(s) PROVE (s \o t)[j] = s[j]
  <2>1. j \in 1 .. Len(s) + Len(t) /\ j <= Len(s)
    BY <1>1
  <2> QED
    BY <1>2, <2>1
<1> QED
  BY <1>1, <1>2, <1>3, <1>4

LEMMA JoinedThrice ==
  ASSUME NEW s \in Seq(Nat), NEW t \in Seq(Nat), NEW u \in Seq(Nat)
  PROVE  s \o t \o u = s \o (t \o u)
BY ConcatAssociative, SMTT(30)

LEMMA StoredParts ==
  ASSUME Typed, NEW p \in Streams
  PROVE  /\ Stored(p) = file[p] \o Writing(p) \o buf[p] \o Given(p)
         /\ file[p] \in Seq(Nat) /\ Writing(p) \in Seq(Nat) /\ buf[p] \in Seq(Nat)
         /\ Given(p) \in Seq(Nat) /\ Stored(p) \in Seq(Nat)
<1>1. Stored(p) = file[p] \o Writing(p) \o buf[p] \o Given(p)
  BY DEF Stored, Writing, Given, Swapping
<1>2. /\ file[p] \in Seq(Nat) /\ writing_buf[p] \in Seq(Nat) /\ buf[p] \in Seq(Nat)
      /\ data \in Seq(Nat)
  BY DEF Typed, Buffers
<1>3. Writing(p) \in Seq(Nat) /\ Given(p) \in Seq(Nat)
  BY <1>2, EmptyBuffer DEF Writing, Given
<1>4. file[p] \o Writing(p) \in Seq(Nat)
  BY <1>2, <1>3, Joined
<1>5. file[p] \o Writing(p) \o buf[p] \in Seq(Nat)
  BY <1>2, <1>4, Joined
<1>6. file[p] \o Writing(p) \o buf[p] \o Given(p) \in Seq(Nat)
  BY <1>3, <1>5, Joined
<1> QED
  BY <1>1, <1>2, <1>3, <1>6

\* Part of a file.
LEMMA BytesOfFile ==
  ASSUME Typed, NEW f \in Streams, NEW from \in Nat, NEW n \in Nat
  PROVE  /\ Bytes(f, from, n) \in Seq(Nat) /\ Len(file[f]) \in Nat
         /\ from <= Len(file[f]) =>
              /\ Len(Bytes(f, from, n)) <= n /\ from + Len(Bytes(f, from, n)) <= Len(file[f])
              /\ Len(Bytes(f, from, n)) < n => from + Len(Bytes(f, from, n)) = Len(file[f])
         /\ \A j \in 1 .. Len(Bytes(f, from, n)) : Bytes(f, from, n)[j] = file[f][from + j]
<1> DEFINE to == Smaller(from + n, Len(file[f]))
<1>1. file[f] \in Seq(Nat) /\ Len(file[f]) \in Nat
  BY LenProperties DEF Typed, Buffers
<1>2. to \in Nat /\ to <= Len(file[f]) /\ to <= from + n /\ (to = from + n \/ to = Len(file[f]))
  BY <1>1 DEF Smaller
<1>3. Bytes(f, from, n) = SubSeq(file[f], from + 1, to)
  BY DEF Bytes
<1> HIDE DEF to
<1>4. \A j \in from + 1 .. to : file[f][j] \in Nat
  <2> SUFFICES ASSUME NEW j \in from + 1 .. to PROVE file[f][j] \in Nat
    OBVIOUS
  <2>1. j \in 1 .. Len(file[f])
    BY <1>1, <1>2
  <2> QED
    BY <1>1, <2>1, ElementOfSeq
<1>5. from + 1 \in Int /\ to \in Int
  BY <1>2
<1>6. /\ SubSeq(file[f], from + 1, to) \in Seq(Nat)
      /\ Len(SubSeq(file[f], from + 1, to)) = IF from + 1 <= to THEN to - (from + 1) + 1 ELSE 0
      /\ \A j \in 1 .. to - (from + 1) + 1 :
           SubSeq(file[f], from + 1, to)[j] = file[f][from + 1 + j - 1]
  BY <1>4, <1>5, SubSeqProperties
<1>7. \A j \in 1 .. Len(Bytes(f, from, n)) : Bytes(f, from, n)[j] = file[f][from + j]
  <2> SUFFICES ASSUME NEW j \in 1 .. Len(Bytes(f, from, n))
               PROVE  Bytes(f, from, n)[j] = file[f][from + j]
    OBVIOUS
  <2>1. from + 1 + j - 1 = from + j /\ j \in 1 .. to - (from + 1) + 1
    BY <1>2, <1>3, <1>6
  <2> QED
    BY <1>3, <1>6, <2>1
<1>8. ASSUME from <= Len(file[f])
      PROVE  /\ Len(Bytes(f, from, n)) <= n /\ from + Len(Bytes(f, from, n)) <= Len(file[f])
             /\ Len(Bytes(f, from, n)) < n => from + Len(Bytes(f, from, n)) = Len(file[f])
  <2>1. Len(Bytes(f, from, n)) = IF from + 1 <= to THEN to - (from + 1) + 1 ELSE 0
    BY <1>3, <1>6
  <2> QED
    BY <1>1, <1>2, <1>8, <2>1
<1> QED
  BY <1>1, <1>3, <1>6, <1>7, <1>8

LEMMA ContentKept ==
  ASSUME NEW p \in Streams, Content(p), total' = total, Stored(p)' = Stored(p)
  PROVE  Content(p)'
BY DEF Content

\* Steps that leave the output side alone.
LEMMA OutputsAlone ==
  ASSUME Typed, CallsOfMode, \A p \in Streams : TokenKept(p) /\ Content(p),
         UNCHANGED <<file, outs, swapped, total>>,
         call \in {"none", "read", "done"}, call' \in {"none", "flush", "read", "done"}
  PROVE  \A p \in Streams : TokenKept(p)' /\ Content(p)'
<1>1. ~swapped /\ ~swapped'
  BY DEF CallsOfMode
<1> SUFFICES ASSUME NEW p \in Streams PROVE TokenKept(p)' /\ Content(p)'
  OBVIOUS
<1>2. TokenKept(p)'
  BY <1>1 DEF TokenKept, Swapping, outs
<1>3. Stored(p)' = Stored(p)
  BY <1>1 DEF Stored, outs
<1> QED
  BY <1>2, <1>3, ContentKept

LEMMA OnDiskStays ==
  ASSUME NEW p \in Streams, OnDisk(p), UNCHANGED outs
  PROVE  OnDisk(p)'
BY DEF OnDisk, outs

(***************************************************************************)
(* The steps of a ThreadedOutputStreamBuffer.  Each moves bytes of one     *)
(* part from one place to the next.                                        *)
(***************************************************************************)
LEMMA NotReading ==
  ASSUME WriteInv, swapped \/ call \in {"write", "flush"}
  PROVE  mode # "reading" /\ mode # "closed"
BY DEF WriteInv, CallsOfMode

LEMMA SwapOutKeeps ==
  ASSUME WriteInv, SwapOut, UNCHANGED disk
  PROVE  WriteInv'
<1> USE DEF WriteInv
<1>1. /\ call \in {"write", "flush"} /\ buf[cur] # <<>> /\ ~swapped /\ swapped'
      /\ write_token[cur] > 0 /\ cur \in Streams
      /\ write_token' = [write_token EXCEPT ![cur] = @ - 1]
      /\ writing_buf' = [writing_buf EXCEPT ![cur] = buf[cur]]
      /\ buf' = [buf EXCEPT ![cur] = <<>>]
      /\ UNCHANGED <<file, buf_size, capacity, writer, pos, rest, prefetch_buf, prefetcher,
                     prefetched, call, cur, data, want, got>>
      /\ UNCHANGED <<mode, left, size, off, total, asked, result>>
  BY DEF SwapOut, MustPush, Typed, sizes, ins, args, disk
<1>2. writer[cur] = <<>> /\ write_token[cur] = 1
  BY <1>1 DEF TokenKept, Swapping
<1>3. Typed'
  <2>1. buf[cur] \in Seq(Nat) /\ write_token[cur] - 1 \in Nat
    BY <1>1, <1>2 DEF Typed, Buffers
  <2> QED
    BY <1>1, <2>1, EmptyBuffer DEF Typed, Buffers
<1>4. CallsOfMode' /\ StartsARound'
  BY <1>1 DEF CallsOfMode, StartsARound, Round
<1>5. FlushedParts'
  <2>1. mode # "reading" /\ mode # "closed"
    BY <1>1, NotReading
  <2>2. ASSUME NEW p \in Streams, OnDisk(p) PROVE OnDisk(p)'
    <3>1. p # cur
      BY <1>1, <2>2 DEF OnDisk
    <3> QED
      BY <1>1, <2>2, <3>1 DEF OnDisk, Typed, Buffers
  <2> QED
    BY <1>1, <2>1, <2>2 DEF FlushedParts
<1>6. ASSUME NEW p \in Streams PROVE TokenKept(p)'
  <2>1. CASE p = cur
    BY <1>1, <1>2, <2>1 DEF TokenKept, Swapping, Typed, Buffers
  <2>2. CASE p # cur
    BY <1>1, <2>2 DEF TokenKept, Swapping, Typed, Buffers
  <2> QED
    BY <2>1, <2>2
<1>7. ASSUME NEW p \in Streams PROVE Content(p)'
  <2>1. Given(p)' = Given(p) /\ file'[p] = file[p]
    BY <1>1 DEF Given
  <2>2. CASE p = cur
    <3>1. Writing(p) = <<>> /\ Writing(p)' = buf[p] /\ buf'[p] = <<>>
      BY <1>1, <1>2, <2>2 DEF Writing, Swapping, Typed, Buffers
    <3>2. file[p] \in Seq(Nat) /\ buf[p] \in Seq(Nat) /\ file[p] \o buf[p] \in Seq(Nat)
      BY StoredParts, Joined
    <3>3. file[p] \o <<>> \o buf[p] = file[p] \o buf[p] \o <<>>
      BY <3>2, ConcatEmptySeq
    <3>4. Stored(p) = file[p] \o <<>> \o buf[p] \o Given(p)
      BY <3>1, StoredParts
    <3>5. Stored(p)' = file[p] \o buf[p] \o <<>> \o Given(p)
      BY <1>3, <2>1, <3>1 DEF Stored, Writing, Given, Swapping
    <3> QED
      BY <1>1, <3>3, <3>4, <3>5, ContentKept
  <2>3. CASE p # cur
    <3>1. buf'[p] = buf[p] /\ writing_buf'[p] = writing_buf[p]
      BY <1>1, <2>3 DEF Typed, Buffers
    <3>2. Stored(p)' = Stored(p)
      BY <1>1, <2>3, <3>1 DEF Stored
    <3> QED
      BY <1>1, <3>2, ContentKept
  <2> QED
    BY <2>2, <2>3
<1> QED
  BY <1>3, <1>4, <1>5, <1>6, <1>7

LEMMA PushOutKeeps ==
  ASSUME WriteInv, PushOut, UNCHANGED disk
  PROVE  WriteInv'
<1> USE DEF WriteInv
<1>1. /\ swapped /\ ~swapped' /\ swapped' \in BOOLEAN /\ cur \in Streams
      /\ writer' = [writer EXCEPT ![cur] = Append(@, Len(writing_buf[cur]))]
      /\ UNCHANGED <<file, buf_size, capacity, buf, writing_buf, write_token, pos, rest,
                     prefetch_buf, prefetcher, prefetched, call, cur, data, want, got>>
      /\ UNCHANGED <<mode, left, size, off, total, asked, result>>
  BY DEF PushOut, Typed, sizes, ins, args, disk
<1>2. writer[cur] = <<>> /\ write_token[cur] = 0
  BY <1>1 DEF TokenKept, Swapping
<1>3. /\ Len(writing_buf[cur]) \in Nat
      /\ writer' = [writer EXCEPT ![cur] = <<Len(writing_buf[cur])>>]
  <2>1. writing_buf[cur] \in Seq(Nat)
    BY <1>1 DEF Typed, Buffers
  <2>2. Append(<<>>, Len(writing_buf[cur])) = <<Len(writing_buf[cur])>>
    OBVIOUS
  <2> QED
    BY <1>1, <1>2, <2>1, <2>2, LenProperties
<1>4. Typed'
  <2>1. <<Len(writing_buf[cur])>> \in Seq(Nat)
    BY <1>3
  <2>2. writer' \in Buffers
    BY <1>3, <2>1 DEF Typed, Buffers
  <2> QED
    BY <1>1, <2>2 DEF Typed
<1>5. CallsOfMode' /\ StartsARound'
  BY <1>1 DEF CallsOfMode, StartsARound, Round
<1>6. FlushedParts'
  <2>1. mode # "reading" /\ mode # "closed" /\ (mode = "closing" => call = "flush")
    BY <1>1, NotReading DEF CallsOfMode
  <2>2. ASSUME NEW p \in Streams, OnDisk(p), p # cur PROVE OnDisk(p)'
    BY <1>1, <2>2 DEF OnDisk, Typed, Buffers
  <2> QED
    BY <1>1, <2>1, <2>2 DEF FlushedParts
<1>7. ASSUME NEW p \in Streams PROVE TokenKept(p)'
  <2>1. CASE p = cur
    BY <1>1, <1>2, <1>3, <2>1 DEF TokenKept, Swapping, Typed, Buffers
  <2>2. CASE p # cur
    BY <1>1, <2>2 DEF TokenKept, Swapping, Typed, Buffers
  <2> QED
    BY <2>1, <2>2
<1>8. ASSUME NEW p \in Streams PROVE Content(p)'
  <2>1. CASE p = cur
    <3>1. writer'[p] # <<>>
      <4>1. writer'[p] = <<Len(writing_buf[cur])>>
        BY <1>1, <1>3, <2>1 DEF Typed, Buffers
      <4> QED
        BY <4>1
    <3>2. Stored(p)' = Stored(p)
      BY <1>1, <2>1, <3>1 DEF Stored
    <3> QED
      BY <1>1, <3>2, ContentKept
  <2>2. CASE p # cur
    <3>1. writer'[p] = writer[p]
      BY <1>1, <2>2 DEF Typed, Buffers
    <3>2. Stored(p)' = Stored(p)
      BY <1>1, <2>2, <3>1 DEF Stored
    <3> QED
      BY <1>1, <3>2, ContentKept
  <2> QED
    BY <2>1, <2>2
<1> QED
  BY <1>4, <1>5, <1>6, <1>7, <1>8

LEMMA WriteDirectKeeps ==
  ASSUME WriteInv, WriteDirect, UNCHANGED disk
  PROVE  WriteInv'
<1> USE DEF WriteInv
<1>1. /\ call = "write" /\ call' = "none" /\ ~swapped /\ cur \in Streams
      /\ buf[cur] = <<>> /\ writer[cur] = <<>>
      /\ file' = [file EXCEPT ![cur] = @ \o data]
      /\ UNCHANGED <<buf_size, capacity, buf, writing_buf, writer, write_token, pos, rest,
                     prefetch_buf, prefetcher, prefetched, swapped, cur, data, want, got>>
      /\ UNCHANGED <<mode, left, size, off, total, asked, result>>
  BY DEF WriteDirect, WriterClear, Typed, sizes, outs, ins, args, disk
<1>2. file[cur] \in Seq(Nat) /\ data \in Seq(Nat) /\ file[cur] \o data \in Seq(Nat)
  BY <1>1, Joined DEF Typed, Buffers
<1>3. Typed'
  BY <1>1, <1>2 DEF Typed, Buffers
<1>4. CallsOfMode' /\ StartsARound'
  BY <1>1 DEF CallsOfMode, StartsARound, Round
<1>5. FlushedParts'
  BY <1>1 DEF FlushedParts, OnDisk, CallsOfMode
<1>6. ASSUME NEW p \in Streams PROVE TokenKept(p)'
  BY <1>1 DEF TokenKept, Swapping
<1>7. ASSUME NEW p \in Streams PROVE Content(p)'
  <2>1. CASE p = cur
    <3>1. /\ Writing(p) = <<>> /\ buf[p] = <<>> /\ Given(p) = data
          /\ file'[p] = file[p] \o data
      BY <1>1, <1>2, <2>1 DEF Writing, Given, Swapping, Typed, Buffers
    <3>2. Stored(p) = file[p] \o <<>> \o <<>> \o data
      BY <3>1, StoredParts
    <3>3. Stored(p)' = (file[p] \o data) \o <<>> \o <<>> \o <<>>
      BY <1>1, <2>1, <3>1 DEF Stored
    <3>4. Stored(p)' = Stored(p)
      BY <1>2, <2>1, <3>2, <3>3, ConcatEmptySeq
    <3> QED
      BY <1>1, <3>4, ContentKept
  <2>2. CASE p # cur
    <3>1. file'[p] = file[p]
      BY <1>1, <2>2 DEF Typed, Buffers
    <3>2. Stored(p)' = Stored(p)
      BY <1>1, <2>2, <3>1 DEF Stored
    <3> QED
      BY <1>1, <3>2, ContentKept
  <2> QED
    BY <2>1, <2>2
<1> QED
  BY <1>3, <1>4, <1>5, <1>6, <1>7

LEMMA CopyInKeeps ==
  ASSUME WriteInv, CopyIn, UNCHANGED disk
  PROVE  WriteInv'
<1> USE DEF WriteInv
<1>1. /\ call = "write" /\ call' = "none" /\ ~swapped /\ cur \in Streams
      /\ buf' = [buf EXCEPT ![cur] = @ \o data]
      /\ UNCHANGED <<file, buf_size, capacity, writing_buf, writer, write_token, pos, rest,
                     prefetch_buf, prefetcher, prefetched, swapped, cur, data, want, got>>
      /\ UNCHANGED <<mode, left, size, off, total, asked, result>>
  BY DEF CopyIn, Typed, sizes, ins, args, disk
<1>2. buf[cur] \in Seq(Nat) /\ data \in Seq(Nat) /\ buf[cur] \o data \in Seq(Nat)
  BY <1>1, Joined DEF Typed, Buffers
<1>3. Typed'
  BY <1>1, <1>2 DEF Typed, Buffers
<1>4. CallsOfMode' /\ StartsARound'
  BY <1>1 DEF CallsOfMode, StartsARound, Round
<1>5. FlushedParts'
  BY <1>1 DEF FlushedParts, CallsOfMode
<1>6. ASSUME NEW p \in Streams PROVE TokenKept(p)'
  BY <1>1 DEF TokenKept, Swapping
<1>7. ASSUME NEW p \in Streams PROVE Content(p)'
  <2>1. CASE p = cur
    <3> DEFINE before == file[p] \o Writing(p)
    <3>1. before \in Seq(Nat) /\ buf[p] \in Seq(Nat) /\ before \o (buf[p] \o data) \in Seq(Nat)
      BY <1>2, <2>1, StoredParts, Joined
    <3>2. Stored(p) = before \o buf[p] \o data
      BY <1>1, <2>1, StoredParts DEF Given
    <3>3. Stored(p)' = before \o (buf[p] \o data) \o <<>>
      <4>1. buf'[p] = buf[p] \o data
        BY <1>1, <2>1 DEF Typed, Buffers
      <4> QED
        BY <1>1, <2>1, <4>1 DEF Stored, Writing, Swapping
    <3> HIDE DEF before
    <3>4. Stored(p)' = Stored(p)
      <4>1. before \o buf[p] \o data = before \o (buf[p] \o data)
        <5>1. before \in Seq(Nat) /\ buf[p] \in Seq(Nat) /\ data \in Seq(Nat)
          BY <1>2, <3>1
        <5> QED
          BY <5>1, JoinedThrice
      <4>2. before \o (buf[p] \o data) \o <<>> = before \o (buf[p] \o data)
        BY <3>1, ConcatEmptySeq
      <4> QED
        BY <3>2, <3>3, <4>1, <4>2
    <3> QED
      BY <1>1, <3>4, ContentKept
  <2>2. CASE p # cur
    <3>1. buf'[p] = buf[p]
      BY <1>1, <2>2 DEF Typed, Buffers
    <3>2. Stored(p)' = Stored(p)
      BY <1>1, <2>2, <3>1 DEF Stored
    <3> QED
      BY <1>1, <3>2, ContentKept
  <2> QED
    BY <2>1, <2>2
<1> QED
  BY <1>3, <1>4, <1>5, <1>6, <1>7

LEMMA FlushedKeeps ==
  ASSUME WriteInv, Flushed, UNCHANGED disk
  PROVE  WriteInv'
<1> USE DEF WriteInv
<1>1. /\ call = "flush" /\ call' = "none" /\ ~swapped
      /\ buf[cur] = <<>> /\ writer[cur] = <<>>
      /\ UNCHANGED <<file, buf_size, capacity, buf, writing_buf, writer, write_token, pos, rest,
                     prefetch_buf, prefetcher, prefetched, swapped, cur, data, want, got>>
      /\ UNCHANGED <<mode, left, size, off, total, asked, result>>
  BY DEF Flushed, WriterClear, sizes, outs, ins, args, disk
<1>2. Typed'
  BY <1>1 DEF Typed
<1>3. CallsOfMode' /\ StartsARound'
  BY <1>1 DEF CallsOfMode, StartsARound, Round
<1>4. FlushedParts'
  BY <1>1 DEF FlushedParts, CallsOfMode, OnDisk
<1>5. ASSUME NEW p \in Streams PROVE TokenKept(p)' /\ Content(p)'
  <2>1. TokenKept(p)'
    BY <1>1 DEF TokenKept, Swapping
  <2>2. Stored(p)' = Stored(p)
    BY <1>1 DEF Stored
  <2> QED
    BY <1>1, <2>1, <2>2, ContentKept
<1> QED
  BY <1>2, <1>3, <1>4, <1>5

LEMMA WriterKeeps ==
  ASSUME WriteInv, NEW f \in Streams, WriteBufferToFile(f), UNCHANGED disk
  PROVE  WriteInv' /\ mode # "reading"
<1> USE DEF WriteInv
<1>1. /\ writer[f] # <<>>
      /\ file' = [file EXCEPT ![f] = @ \o SubSeq(writing_buf[f], 1, Head(writer[f]))]
      /\ writer' = [writer EXCEPT ![f] = Tail(@)]
      /\ write_token' = [write_token EXCEPT ![f] = @ + 1]
      /\ UNCHANGED <<buf_size, capacity, buf, writing_buf, pos, rest, prefetch_buf, prefetcher,
                     prefetched, call, swapped, cur, data, want, got>>
      /\ UNCHANGED <<mode, left, size, off, total, asked, result>>
  BY DEF WriteBufferToFile, TokenBack, sizes, ins, args, disk
<1>2. /\ writer[f] = <<Len(writing_buf[f])>> /\ ~Swapping(f) /\ write_token[f] = 0
      /\ writing_buf[f] \in Seq(Nat) /\ file[f] \in Seq(Nat)
  BY <1>1 DEF TokenKept, Typed, Buffers
<1>3. /\ file' = [file EXCEPT ![f] = @ \o writing_buf[f]]
      /\ writer' = [writer EXCEPT ![f] = <<>>]
      /\ write_token' = [write_token EXCEPT ![f] = 1]
  <2>1. Head(writer[f]) = Len(writing_buf[f]) /\ Tail(writer[f]) = <<>>
    BY <1>2
  <2>2. SubSeq(writing_buf[f], 1, Len(writing_buf[f])) = writing_buf[f]
    BY <1>2, SubSeqFull
  <2>3. write_token[f] + 1 = 1
    BY <1>2
  <2> QED
    BY <1>1, <2>1, <2>2, <2>3
<1>4. mode # "reading" /\ mode # "closed"
  BY <1>1 DEF FlushedParts, OnDisk
<1>5. file[f] \o writing_buf[f] \in Seq(Nat)
  BY <1>2, Joined
<1>6. Typed'
  <2>1. file' \in Buffers
    BY <1>3, <1>5 DEF Typed, Buffers
  <2>2. writer' \in Buffers
    BY <1>3, EmptyBuffer DEF Typed, Buffers
  <2>3. write_token' \in [Streams -> Nat]
    BY <1>3 DEF Typed
  <2> QED
    BY <1>1, <2>1, <2>2, <2>3 DEF Typed
<1>7. CallsOfMode' /\ StartsARound'
  BY <1>1 DEF CallsOfMode, StartsARound, Round
<1>8. FlushedParts'
  <2>1. ASSUME NEW p \in Streams, OnDisk(p) PROVE OnDisk(p)'
    BY <1>1, <1>3, <2>1 DEF OnDisk, Typed, Buffers
  <2> QED
    BY <1>1, <1>4, <2>1 DEF FlushedParts
<1>9. ASSUME NEW p \in Streams PROVE TokenKept(p)'
  <2>1. CASE p = f
    BY <1>1, <1>2, <1>3, <2>1 DEF TokenKept, Swapping, Typed, Buffers
  <2>2. CASE p # f
    BY <1>1, <1>3, <2>2 DEF TokenKept, Swapping, Typed, Buffers
  <2> QED
    BY <2>1, <2>2
<1>10. ASSUME NEW p \in Streams PROVE Content(p)'
  <2>1. CASE p = f
    <3>1. Writing(p) = writing_buf[p]
      BY <1>1, <2>1 DEF Writing
    <3>2. Stored(p) = file[p] \o writing_buf[p] \o buf[p] \o Given(p)
      BY <3>1, StoredParts
    <3>3. Stored(p)' = (file[p] \o writing_buf[p]) \o <<>> \o buf[p] \o Given(p)
      <4>1. file'[p] = file[p] \o writing_buf[p] /\ writer'[p] = <<>>
        BY <1>2, <1>3, <2>1 DEF Typed, Buffers
      <4> QED
        BY <1>1, <1>2, <2>1, <4>1 DEF Stored, Given, Swapping
    <3>4. Stored(p)' = Stored(p)
      BY <1>5, <2>1, <3>2, <3>3, ConcatEmptySeq
    <3> QED
      BY <1>1, <3>4, ContentKept
  <2>2. CASE p # f
    <3>1. file'[p] = file[p] /\ writer'[p] = writer[p]
      BY <1>3, <2>2 DEF Typed, Buffers
    <3>2. Stored(p)' = Stored(p)
      BY <1>1, <3>1 DEF Stored
    <3> QED
      BY <1>1, <3>2, ContentKept
  <2> QED
    BY <2>1, <2>2
<1> QED
  BY <1>4, <1>6, <1>7, <1>8, <1>9, <1>10

(***************************************************************************)
(* The steps of OutputMultiDiskStream.                                     *)
(***************************************************************************)
LEMMA CapacityTypes ==
  ASSUME NEW k \in Nat
  PROVE  Capacity(k) \in Nat \ {0}
<1>1. k \div 2 \in Nat
  BY Quotient
<1> QED
  BY <1>1, CapacityAssumption DEF Capacity

LEMMA WriteInit == Init => WriteInv
<1> SUFFICES ASSUME Init PROVE WriteInv
  OBVIOUS
<1>1. /\ file = Each(<<>>) /\ buf = Each(<<>>) /\ writing_buf = Each(<<>>) /\ writer = Each(<<>>)
      /\ write_token = Each(1) /\ pos = Each(0) /\ rest = Each(<<>>) /\ prefetch_buf = Each(<<>>)
      /\ prefetcher = Each(<<>>) /\ prefetched = Each(<<>>)
      /\ buf_size \in BufferSizes /\ capacity = Each(Capacity(buf_size))
      /\ call = "none" /\ cur \in Streams /\ swapped = FALSE /\ data = <<>> /\ want = 0 /\ got = <<>>
      /\ mode = "writing" /\ left = 0 /\ size = 0 /\ off = 0 /\ total = 0 /\ asked = 0
      /\ result = <<>>
  BY DEF Init, StreamsInit
<1>2. Each(<<>>) \in Buffers /\ Each(<<>>) \in [Streams -> Seq(Int)]
  BY EmptySeq DEF Each, Buffers
<1>3. Each(1) \in [Streams -> Nat] /\ Each(0) \in [Streams -> Nat]
  BY DEF Each
<1>4. buf_size \in Nat /\ capacity \in [Streams -> Nat \ {0}]
  <2>1. buf_size \in Nat
    BY <1>1, CapacityAssumption
  <2> QED
    BY <1>1, <2>1, CapacityTypes DEF Each
<1>5. Typed
  BY <1>1, <1>2, <1>3, <1>4, EmptyBuffer DEF Typed
<1>6. CallsOfMode /\ FlushedParts
  BY <1>1 DEF CallsOfMode, FlushedParts
<1>7. StartsARound
  <2>1. Round \in Nat
    BY <1>1, PartNumbers, Product DEF Round
  <2>2. total = size + Round * 0 /\ 0 \in Nat
    BY <1>1, <2>1
  <2> QED
    BY <2>2 DEF StartsARound
<1>8. ASSUME NEW p \in Streams PROVE TokenKept(p) /\ Content(p)
  <2>1. TokenKept(p)
    BY <1>1 DEF TokenKept, Swapping, Each
  <2>2. /\ file[p] = <<>> /\ Writing(p) = <<>> /\ buf[p] = <<>> /\ Given(p) = <<>>
    BY <1>1 DEF Writing, Given, Swapping, Each
  <2>3. Stored(p) = <<>> \o <<>> \o <<>> \o <<>>
    BY <1>5, <2>2, StoredParts
  <2>4. Stored(p) = <<>>
    BY <2>3, EmptyBuffer, ConcatEmptySeq
  <2>5. Held(p, total) = 0
    BY <1>1, NothingHeld
  <2> QED
    BY <2>1, <2>4, <2>5, EmptyBuffer DEF Content
<1> QED
  BY <1>5, <1>6, <1>7, <1>8 DEF WriteInv

\* Steps that only begin or end something.
LEMMA BeginKeeps ==
  ASSUME WriteInv, Write \/ Close \/ Closed
  PROVE  WriteInv'
<1> USE DEF WriteInv
<1>1. /\ call = "none" /\ left = 0 /\ mode \in {"writing", "closing"}
      /\ UNCHANGED <<file, buf_size, capacity, buf, writing_buf, writer, write_token, pos, rest,
                     prefetch_buf, prefetcher, prefetched, call, cur, swapped, data, want, got>>
      /\ UNCHANGED <<size, off, total, asked, result>>
  BY DEF Write, Close, Closed, Idle, streams, sizes, outs, ins, args
<1>2. \/ mode = "writing" /\ mode' = "writing" /\ left' \in Nat
      \/ mode = "writing" /\ mode' = "closing" /\ left' = NParts
      \/ mode = "closing" /\ mode' = "closed" /\ left' = 0
  <2>1. CASE Write
    <3>1. 1 .. MaxBytes - total \subseteq Nat
      BY DiskAssumption DEF Typed
    <3> QED
      BY <2>1, <3>1 DEF Write
  <2>2. CASE Close
    BY <2>2 DEF Close
  <2>3. CASE Closed
    BY <1>1, <2>3 DEF Closed
  <2> QED
    BY <2>1, <2>2, <2>3
<1>3. Typed'
  BY <1>1, <1>2, DiskAssumption DEF Typed
<1>4. CallsOfMode' /\ StartsARound'
  BY <1>1, <1>2 DEF CallsOfMode, StartsARound, Round
<1>5. FlushedParts'
  <2>1. ASSUME NEW p \in Streams, OnDisk(p) PROVE OnDisk(p)'
    BY <1>1, <2>1 DEF OnDisk
  <2>2. ASSUME NEW p \in Streams, p < NParts - NParts PROVE FALSE
    BY <2>2, PartNumbers
  <2>3. ASSUME NEW p \in Streams, mode = "closing" PROVE OnDisk(p)
    <3>1. p < NParts - left
      BY <1>1, PartNumbers
    <3> QED
      BY <1>1, <2>3, <3>1 DEF FlushedParts
  <2>4. NParts <= NParts
    BY DiskAssumption
  <2> QED
    BY <1>1, <1>2, <2>1, <2>2, <2>3, <2>4 DEF FlushedParts
<1>6. ASSUME NEW p \in Streams PROVE TokenKept(p)' /\ Content(p)'
  BY <1>1, OutputsAlone DEF outs
<1> QED
  BY <1>3, <1>4, <1>5, <1>6

LEMMA WritePartKeeps ==
  ASSUME WriteInv, WritePart
  PROVE  WriteInv'
<1> USE DEF WriteInv
<1> DEFINE s == Smaller(left, RoomAt(size))
           c == PartOf(size)
           bytes == [k \in 1 .. s |-> total + k]
<1>1. /\ mode = "writing" /\ left > 0 /\ call = "none"
      /\ call' = "write" /\ cur' = c /\ data' = bytes
      /\ size' = size + s /\ total' = total + s /\ left' = left - s
      /\ UNCHANGED <<file, buf_size, capacity, buf, writing_buf, writer, write_token, pos, rest,
                     prefetch_buf, prefetcher, prefetched, swapped, want, got>>
      /\ UNCHANGED <<mode, off, asked, result>>
  BY DEF WritePart, CallWrite, sizes, outs, ins
<1>2. cur \in Streams /\ left \in Nat /\ size \in Nat /\ total \in Nat /\ ~swapped
  BY <1>1 DEF Typed, CallsOfMode
<1>3. c \in Streams /\ RoomAt(size) \in 1 .. Chunk /\ Chunk \in Nat
  BY <1>2, HeldTypes, PartNumbers
<1>4. s \in 1 .. RoomAt(size) /\ s <= left
  BY <1>1, <1>2, <1>3 DEF Smaller
<1>5. PICK b \in Nat : total = size + Round * b
  BY <1>1 DEF StartsARound
<1>6. PartOf(total) = c /\ RoomAt(total) = RoomAt(size)
  BY <1>2, <1>5, RoundsApart DEF Round
<1> HIDE DEF s, c
<1>7. /\ bytes \in Seq(Nat) /\ Len(bytes) = s
      /\ \A j \in 1 .. s : bytes[j] = total + j
  BY <1>2, <1>3, <1>4
<1>8. Typed'
  <2>1. size + s \in Nat /\ total + s \in Nat /\ left - s \in Nat
    BY <1>2, <1>3, <1>4
  <2> HIDE DEF bytes
  <2> QED
    BY <1>1, <1>3, <1>7, <2>1 DEF Typed
<1>9. CallsOfMode' /\ FlushedParts'
  BY <1>1, <1>2 DEF CallsOfMode, FlushedParts
<1>10. StartsARound'
  <2>1. Round * b \in Nat
    BY <1>2, PartNumbers, Product DEF Round
  <2>2. total + s = size + s + Round * b
    BY <1>2, <1>3, <1>4, <1>5, <2>1
  <2> QED
    BY <1>1, <2>2 DEF StartsARound, Round
<1>11. ASSUME NEW p \in Streams PROVE TokenKept(p)'
  BY <1>1, <1>2 DEF TokenKept, Swapping
<1>12. ASSUME NEW p \in Streams PROVE Content(p)'
  <2>1. Held(p, total + s) = Held(p, total) + (IF p = c THEN s ELSE 0)
    BY <1>2, <1>4, <1>6, HeldMore
  <2>2. /\ Len(Stored(p)) = Held(p, total) /\ Stored(p) \in Seq(Nat) /\ Held(p, total) \in Nat
        /\ \A j \in 1 .. Len(Stored(p)) : Stored(p)[j] = OffsetOf(p, j - 1) + 1
    BY <1>2, StoredParts, HeldTypes DEF Content
  <2> DEFINE before == file[p] \o Writing(p) \o buf[p]
  <2>3. before \in Seq(Nat) /\ Stored(p) = before
    <3>1. file[p] \o Writing(p) \in Seq(Nat)
      BY StoredParts, Joined
    <3>2. before \in Seq(Nat)
      BY <3>1, StoredParts, Joined
    <3>3. Stored(p) = before \o <<>>
      BY <1>1, StoredParts DEF Given
    <3> HIDE DEF before
    <3> QED
      BY <3>2, <3>3, ConcatEmptySeq
  <2>4. Stored(p)' = before \o (IF p = c THEN bytes ELSE <<>>)
    BY <1>1, <1>2 DEF Stored, Writing, Swapping
  <2> HIDE DEF before, bytes
  <2>5. CASE p = c
    <3>1. /\ Len(Stored(p)') = Held(p, total) + s
          /\ \A j \in 1 .. Len(Stored(p)) : Stored(p)'[j] = Stored(p)[j]
          /\ \A j \in 1 .. s : Stored(p)'[Len(Stored(p)) + j] = bytes[j]
      <4>1. Stored(p)' = before \o bytes
        BY <2>4, <2>5
      <4>2. /\ Len(before \o bytes) = Len(before) + Len(bytes)
            /\ \A j \in 1 .. Len(before) : (before \o bytes)[j] = before[j]
            /\ \A j \in 1 .. Len(bytes) : (before \o bytes)[Len(before) + j] = bytes[j]
        BY <1>7, <2>3, Joined
      <4> QED
        BY <1>7, <2>2, <2>3, <4>1, <4>2
    <3>2. ASSUME NEW j \in 1 .. Held(p, total) + s
          PROVE  Stored(p)'[j] = OffsetOf(p, j - 1) + 1
      <4>1. CASE j <= Held(p, total)
        <5>1. j \in 1 .. Len(Stored(p))
          BY <2>2, <4>1
        <5> QED
          BY <2>2, <3>1, <5>1
      <4>2. CASE ~(j <= Held(p, total))
        <5> DEFINE i == j - Held(p, total)
        <5>1. i \in 1 .. s /\ j = Held(p, total) + i /\ j - 1 = Held(p, total) + (i - 1)
          BY <1>3, <1>4, <2>2, <4>2
        <5> HIDE DEF i
        <5>2. Stored(p)'[j] = total + i
          BY <1>7, <2>2, <3>1, <5>1
        <5>3. i - 1 \in 0 .. RoomAt(total) - 1
          BY <1>3, <1>4, <1>6, <5>1
        <5>4. OffsetOf(p, Held(p, total) + (i - 1)) = total + (i - 1)
          BY <1>2, <1>6, <2>5, <5>3, OffsetOfHeld
        <5> QED
          BY <1>2, <1>3, <1>4, <5>1, <5>2, <5>4
      <4> QED
        BY <4>1, <4>2
    <3>3. Len(Stored(p)') = Held(p, total')
      BY <1>1, <2>1, <2>5, <3>1
    <3> QED
      BY <2>1, <2>5, <3>1, <3>2, <3>3 DEF Content
  <2>6. CASE p # c
    <3>1. Stored(p)' = Stored(p)
      BY <2>3, <2>4, <2>6, ConcatEmptySeq
    <3>2. Held(p, total') = Held(p, total)
      BY <1>1, <2>1, <2>2, <2>6
    <3> QED
      BY <2>2, <3>1, <3>2 DEF Content
  <2> QED
    BY <2>5, <2>6
<1> QED
  BY <1>8, <1>9, <1>10, <1>11, <1>12

LEMMA ClosePartKeeps ==
  ASSUME WriteInv, ClosePart
  PROVE  WriteInv'
<1> USE DEF WriteInv
<1>1. /\ mode = "closing" /\ left > 0 /\ call = "none" /\ left \in Nat /\ left <= NParts
      /\ call' = "flush" /\ cur' = NParts - left /\ left' = left - 1
      /\ UNCHANGED <<file, buf_size, capacity, buf, writing_buf, writer, write_token, pos, rest,
                     prefetch_buf, prefetcher, prefetched, swapped, data, want, got>>
      /\ UNCHANGED <<mode, size, off, total, asked, result>>
  BY DEF ClosePart, CallFlush, sizes, outs, ins, FlushedParts, Typed
<1>2. NParts - left \in Streams /\ left - 1 \in Nat /\ left - 1 <= NParts /\ ~swapped
  BY <1>1, DiskAssumption DEF CallsOfMode
<1>3. Typed'
  BY <1>1, <1>2 DEF Typed
<1>4. CallsOfMode' /\ StartsARound'
  BY <1>1 DEF CallsOfMode, StartsARound
<1>5. FlushedParts'
  <2>1. ASSUME NEW p \in Streams, p < NParts - (left - 1)
        PROVE  OnDisk(p)' \/ NParts - left = p
    <3>1. p < NParts - left \/ p = NParts - left
      BY <1>1, <2>1, PartNumbers
    <3> QED
      BY <1>1, <3>1 DEF FlushedParts, OnDisk
  <2> QED
    BY <1>1, <1>2, <2>1 DEF FlushedParts
<1>6. ASSUME NEW p \in Streams PROVE TokenKept(p)' /\ Content(p)'
  BY <1>1, OutputsAlone DEF outs
<1> QED
  BY <1>3, <1>4, <1>5, <1>6

LEMMA OpenForAppendKeeps ==
  ASSUME WriteInv, ~AppendAnywhere, OpenForAppend
  PROVE  WriteInv'
<1> USE DEF WriteInv
<1>1. /\ mode = "closed" /\ total % Round = 0 /\ mode' = "writing" /\ size' = 0
      /\ buf_size' \in BufferSizes /\ capacity' = Each(Capacity(buf_size'))
      /\ buf' = Each(<<>>) /\ writing_buf' = Each(<<>>)
      /\ writer' = Each(<<>>) /\ write_token' = Each(1)
      /\ UNCHANGED <<file, pos, rest, prefetch_buf, prefetcher, prefetched, call, swapped,
                     cur, data, want, got>>
      /\ UNCHANGED <<left, off, total, asked, result>>
  BY DEF OpenForAppend, OpenOut, ins, args, Round
<1>2. call = "none" /\ ~swapped /\ cur \in Streams /\ total \in Nat
  BY <1>1 DEF CallsOfMode, Typed
<1>3. Typed'
  <2>1. buf_size' \in Nat /\ capacity' \in [Streams -> Nat \ {0}]
    <3>1. buf_size' \in Nat
      BY <1>1, CapacityAssumption
    <3> QED
      BY <1>1, <3>1, CapacityTypes DEF Each
  <2>2. Each(<<>>) \in Buffers /\ Each(1) \in [Streams -> Nat]
    BY EmptyBuffer DEF Each, Buffers
  <2> QED
    BY <1>1, <2>1, <2>2 DEF Typed
<1>4. CallsOfMode' /\ FlushedParts'
  BY <1>1, <1>2 DEF CallsOfMode, FlushedParts
<1>5. StartsARound'
  <2>1. Round \in Nat \ {0}
    BY <1>2, PartNumbers, Product DEF Round
  <2>2. total \div Round \in Nat /\ total = Round * (total \div Round) + (total % Round)
    BY <1>2, <2>1, Quotient
  <2> DEFINE b == total \div Round
  <2>3. Round * b \in Nat
    BY <2>1, <2>2, Product
  <2>4. total = 0 + Round * b
    <3> HIDE DEF b
    <3> QED
      BY <1>1, <2>2, <2>3 DEF b
  <2> QED
    BY <1>1, <2>2, <2>4 DEF StartsARound, Round
<1>6. ASSUME NEW p \in Streams PROVE TokenKept(p)' /\ Content(p)'
  <2>1. buf'[p] = <<>> /\ writing_buf'[p] = <<>> /\ writer'[p] = <<>> /\ write_token'[p] = 1
    BY <1>1 DEF Each
  <2>2. TokenKept(p)'
    BY <1>1, <1>2, <2>1 DEF TokenKept, Swapping
  <2>3. OnDisk(p)
    BY <1>1 DEF FlushedParts
  <2>4. Stored(p)' = Stored(p)
    BY <1>1, <1>2, <2>1, <2>3 DEF Stored, OnDisk
  <2> QED
    BY <1>1, <2>2, <2>4, ContentKept
<1> QED
  BY <1>3, <1>4, <1>5, <1>6

(***************************************************************************)
(* Reading: what the steps have in common.                                 *)
(***************************************************************************)
LEMMA Cut ==
  ASSUME NEW s \in Seq(Nat), NEW k \in 0 .. Len(s)
  PROVE  /\ SubSeq(s, 1, k) \in Seq(Nat) /\ Len(SubSeq(s, 1, k)) = k
         /\ \A j \in 1 .. k : SubSeq(s, 1, k)[j] = s[j]
         /\ SubSeq(s, k + 1, Len(s)) \in Seq(Nat) /\ Len(SubSeq(s, k + 1, Len(s))) = Len(s) - k
         /\ \A j \in 1 .. Len(s) - k : SubSeq(s, k + 1, Len(s))[j] = s[k + j]
<1>1. Len(s) \in Nat /\ k \in Nat /\ k <= Len(s)
  BY LenProperties
<1>2. ASSUME NEW j \in 1 .. Len(s) PROVE s[j] \in Nat
  BY ElementOfSeq
<1>3. /\ SubSeq(s, 1, k) \in Seq(Nat) /\ Len(SubSeq(s, 1, k)) = IF 1 <= k THEN k - 1 + 1 ELSE 0
      /\ \A j \in 1 .. k - 1 + 1 : SubSeq(s, 1, k)[j] = s[1 + j - 1]
  <2>1. \A j \in 1 .. k : s[j] \in Nat
    BY <1>1, <1>2
  <2> QED
    BY <1>1, <2>1, SubSeqProperties
<1>4. /\ SubSeq(s, k + 1, Len(s)) \in Seq(Nat)
      /\ Len(SubSeq(s, k + 1, Len(s))) = IF k + 1 <= Len(s) THEN Len(s) - (k + 1) + 1 ELSE 0
      /\ \A j \in 1 .. Len(s) - (k + 1) + 1 : SubSeq(s, k + 1, Len(s))[j] = s[k + 1 + j - 1]
  <2>1. \A j \in k + 1 .. Len(s) : s[j] \in Nat
    BY <1>1, <1>2
  <2>2. k + 1 \in Int /\ Len(s) \in Int
    BY <1>1
  <2> QED
    BY <2>1, <2>2, SubSeqProperties
<1>5. ASSUME NEW j \in 1 .. k PROVE SubSeq(s, 1, k)[j] = s[j]
  <2>1. j \in 1 .. k - 1 + 1 /\ 1 + j - 1 = j
    BY <1>1
  <2> QED
    BY <1>3, <2>1
<1>6. ASSUME NEW j \in 1 .. Len(s) - k PROVE SubSeq(s, k + 1, Len(s))[j] = s[k + j]
  <2>1. j \in 1 .. Len(s) - (k + 1) + 1 /\ k + 1 + j - 1 = k + j
    BY <1>1
  <2> QED
    BY <1>4, <2>1
<1> QED
  BY <1>1, <1>3, <1>4, <1>5, <1>6

\* On disk, a part's file is all there is of it.
LEMMA FilesHold ==
  ASSUME WriteInv, mode \in {"closed", "reading"}, NEW p \in Streams
  PROVE  /\ file[p] \in Seq(Nat) /\ Len(file[p]) = Held(p, total) /\ Len(file[p]) \in Nat
         /\ \A j \in 1 .. Len(file[p]) : file[p][j] = OffsetOf(p, j - 1) + 1
<1> USE DEF WriteInv
<1>1. OnDisk(p) /\ call # "write" /\ ~swapped
  BY DEF FlushedParts, CallsOfMode
<1>2. Writing(p) = <<>> /\ buf[p] = <<>> /\ Given(p) = <<>>
  BY <1>1 DEF OnDisk, Writing, Given, Swapping
<1>3. Stored(p) = file[p] \o <<>> \o <<>> \o <<>> /\ file[p] \in Seq(Nat)
  BY <1>2, StoredParts
<1>4. Stored(p) = file[p]
  BY <1>3, ConcatEmptySeq
<1> QED
  BY <1>3, <1>4, LenProperties DEF Content

LEMMA ReadersKeepWrites ==
  ASSUME WriteInv, Typed', mode \in {"closed", "reading"}, mode' = "reading",
         call' \in {"none", "read", "done"}, UNCHANGED <<file, outs, swapped, total>>
  PROVE  WriteInv'
<1> USE DEF WriteInv
<1>1. call \in {"none", "read", "done"} /\ ~swapped /\ ~swapped'
  BY DEF CallsOfMode
<1>2. CallsOfMode' /\ StartsARound'
  BY <1>1 DEF CallsOfMode, StartsARound
<1>3. FlushedParts'
  BY OnDiskStays DEF FlushedParts
<1>4. \A p \in Streams : TokenKept(p)' /\ Content(p)'
  BY <1>1, OutputsAlone
<1> QED
  BY <1>2, <1>3, <1>4

\* The types of what a stream reads with.
LEMMA ReadTypes ==
  ASSUME Typed, NEW p \in Streams
  PROVE  /\ rest[p] \in Seq(Nat) /\ Len(rest[p]) \in Nat
         /\ prefetch_buf[p] \in Seq(Nat) /\ Len(prefetch_buf[p]) \in Nat
         /\ Block(p) \in Seq(Nat) /\ Len(Block(p)) \in Nat
         /\ got \in Seq(Nat) /\ Len(got) \in Nat
         /\ capacity[p] \in Nat \ {0} /\ pos[p] \in Nat
         /\ file[p] \in Seq(Nat) /\ Len(file[p]) \in Nat
         /\ Held(p, off) \in Nat /\ At(p) \in Nat
<1>1. /\ rest[p] \in Seq(Nat) /\ prefetch_buf[p] \in Seq(Nat) /\ got \in Seq(Nat)
      /\ file[p] \in Seq(Nat) /\ capacity[p] \in Nat \ {0} /\ pos[p] \in Nat /\ off \in Nat
  BY DEF Typed, Buffers
<1>2. Block(p) \in Seq(Nat)
  BY <1>1, EmptyBuffer DEF Block
<1>3. /\ Len(rest[p]) \in Nat /\ Len(prefetch_buf[p]) \in Nat /\ Len(Block(p)) \in Nat
      /\ Len(got) \in Nat /\ Len(file[p]) \in Nat
  BY <1>1, <1>2, LenProperties
<1>4. Held(p, off) \in Nat
  BY <1>1, HeldTypes
<1>5. At(p) \in Nat
  BY <1>3, <1>4 DEF At
<1> QED
  BY <1>1, <1>2, <1>3, <1>4, <1>5

\* A part nothing happens to.
LEMMA PartAlone ==
  ASSUME NEW p \in Streams, Ahead(p), Following(p), At(p)' = At(p),
         UNCHANGED <<file, capacity>>,
         UNCHANGED <<pos[p], rest[p], prefetch_buf[p], prefetcher[p], prefetched[p]>>
  PROVE  Ahead(p)' /\ Following(p)'
<1>1. Block(p)' = Block(p)
  BY DEF Block
<1>2. Ahead(p)'
  BY DEF Ahead
<1>3. Following(p)'
  BY <1>1 DEF Following
<1> QED
  BY <1>2, <1>3

\* How far a call of a part's Read gets, if it reads k bytes.
LEMMA ReadsOn ==
  ASSUME NEW o \in Nat, NEW n \in Nat, o <= n, NEW p \in Streams, p = PartOf(o),
         NEW k \in Nat, k <= RoomAt(o), Held(p, o) + k <= Held(p, n)
  PROVE  /\ o + k <= n
         /\ k < RoomAt(o) /\ Held(p, o) + k = Held(p, n) => o + k = n
         /\ \A q \in Streams : Held(q, o + k) = Held(q, o) + (IF q = p THEN k ELSE 0)
<1>1. RoomAt(o) \in 1 .. Chunk /\ Chunk \in Nat
  BY HeldTypes, PartNumbers
<1>2. \A q \in Streams, m \in Nat : Held(q, m) \in Nat
  BY HeldTypes
<1>3. \A q \in Streams, m \in 0 .. RoomAt(o) :
        Held(q, o + m) = Held(q, o) + (IF q = p THEN m ELSE 0)
  <2> SUFFICES ASSUME NEW q \in Streams, NEW m \in 0 .. RoomAt(o)
               PROVE  Held(q, o + m) = Held(q, o) + (IF q = p THEN m ELSE 0)
    OBVIOUS
  <2>1. CASE m = 0
    BY <1>2, <2>1
  <2>2. CASE m # 0
    <3>1. m \in 1 .. RoomAt(o)
      BY <1>1, <2>2
    <3> QED
      BY <3>1, HeldMore
  <2> QED
    BY <2>1, <2>2
<1>4. o + k <= n
  <2> SUFFICES ASSUME ~(o + k <= n) PROVE FALSE
    OBVIOUS
  <2>1. n - o \in 0 .. RoomAt(o) /\ n - o < k /\ o + (n - o) = n
    BY <1>1
  <2>2. Held(p, n) = Held(p, o) + (n - o)
    BY <1>3, <2>1
  <2> QED
    BY <1>1, <1>2, <2>1, <2>2
<1>5. ASSUME k < RoomAt(o), Held(p, o) + k = Held(p, n) PROVE o + k = n
  <2> SUFFICES ASSUME o + k < n PROVE FALSE
    BY <1>4
  <2>1. k + 1 \in 0 .. RoomAt(o) /\ o + (k + 1) <= n /\ o + (k + 1) \in Nat
    BY <1>1, <1>5
  <2>2. Held(p, o + (k + 1)) = Held(p, o) + (k + 1)
    BY <1>3, <2>1
  <2>3. Held(p, o + (k + 1)) <= Held(p, n)
    BY <2>1, HeldGrows
  <2> QED
    BY <1>2, <1>5, <2>2, <2>3
<1>6. k \in 0 .. RoomAt(o)
  BY <1>1
<1> QED
  BY <1>3, <1>4, <1>5, <1>6

(***************************************************************************)
(* The steps of InputMultiDiskStream.                                      *)
(***************************************************************************)
\* A part just opened or sought.
LEMMA Opened ==
  ASSUME NEW p \in Streams, Typed, call' = "none",
         pos'[p] = Held(p, off'), pos'[p] <= Len(file[p]), file' = file, off' \in Nat,
         rest'[p] = <<>>, prefetcher'[p] = << 0 >>, prefetched'[p] = <<>>
  PROVE  Ahead(p)' /\ Following(p)'
<1>1. Held(p, off') \in Nat
  BY HeldTypes
<1>2. Ahead(p)'
  <2>1. <<0>> # <<-1>>
    OBVIOUS
  <2> QED
    BY <2>1 DEF Ahead
<1>3. At(p)' = Held(p, off')
  BY <1>1 DEF At, InRead
<1>4. Block(p)' = <<>>
  BY DEF Block
<1> QED
  BY <1>1, <1>2, <1>3, <1>4, EmptyBuffer DEF Following

LEMMA OpenForReadKeeps ==
  ASSUME Inv, OpenForRead
  PROVE  Inv'
<1> USE DEF Inv, WriteInv
<1> DEFINE sizesOf == [p \in Streams |-> Smaller(buf_size', Len(file[p]))]
<1>1. /\ mode = "closed" /\ mode' = "reading" /\ size' = total /\ off' = 0
      /\ buf_size' \in BufferSizes
      /\ capacity' = [f \in Streams |-> Capacity(sizesOf[f])]
      /\ pos' = Each(0) /\ rest' = Each(<<>>) /\ prefetch_buf' = Each(<<>>)
      /\ prefetcher' = Each(<<0>>) /\ prefetched' = Each(<<>>)
      /\ UNCHANGED <<file, buf, writing_buf, writer, write_token, call, swapped, cur, data,
                     want, got, left, total, asked, result>>
  BY DEF OpenForRead, OpenAt, outs, args
<1>2. call = "none" /\ left = 0 /\ asked = 0 /\ result = <<>> /\ total \in Nat /\ buf_size' \in Nat
  BY <1>1, CapacityAssumption DEF CallsOfMode, Typed
<1>3. capacity' \in [Streams -> Nat \ {0}]
  <2>1. ASSUME NEW p \in Streams PROVE sizesOf[p] \in Nat
    <3>1. Len(file[p]) \in Nat
      BY <1>1, FilesHold
    <3> QED
      BY <1>2, <3>1 DEF Smaller
  <2> HIDE DEF sizesOf
  <2> QED
    BY <1>1, <2>1, CapacityTypes
<1>4. Typed'
  <2>1. Each(<<>>) \in Buffers /\ Each(0) \in [Streams -> Nat] /\ Each(<<0>>) \in [Streams -> Seq(Int)]
    BY EmptyBuffer DEF Each, Buffers
  <2> QED
    BY <1>1, <1>2, <1>3, <2>1 DEF Typed
<1>5. WriteInv'
  BY <1>1, <1>2, <1>4, ReadersKeepWrites DEF outs
<1>6. ASSUME NEW p \in Streams PROVE Ahead(p)' /\ Following(p)'
  <2>1. pos'[p] = 0 /\ rest'[p] = <<>> /\ prefetcher'[p] = <<0>> /\ prefetched'[p] = <<>>
    BY <1>1 DEF Each
  <2>2. Held(p, 0) = 0 /\ Len(file[p]) \in Nat
    BY <1>1, NothingHeld, FilesHold
  <2> QED
    BY <1>1, <1>2, <2>1, <2>2, Opened
<1>7. ReadInv'
  <2>1. PartCall'
    BY <1>1, <1>2 DEF PartCall
  <2> QED
    BY <1>1, <1>2, <1>6, <2>1, EmptyBuffer DEF ReadInv
<1> QED
  BY <1>5, <1>7

LEMMA SeekKeeps ==
  ASSUME Inv, Seek
  PROVE  Inv'
<1> USE DEF Inv, WriteInv
<1>1. /\ mode = "reading" /\ call = "none" /\ left = 0 /\ off' \in 0 .. size
      /\ capacity' = [f \in Streams |-> Capacity(Each(buf_size)[f])]
      /\ pos' = [p \in Streams |-> Held(p, off')]
      /\ rest' = Each(<<>>) /\ prefetch_buf' = Each(<<>>)
      /\ prefetcher' = Each(<<0>>) /\ prefetched' = Each(<<>>)
      /\ asked' = 0 /\ result' = <<>>
      /\ UNCHANGED <<file, buf_size, buf, writing_buf, writer, write_token, call, swapped, cur,
                     data, want, got, mode, left, size, total>>
  BY DEF Seek, OpenAt, Idle, outs, args, Held, PartOf
<1>2. size = total /\ size \in Nat /\ off' \in Nat /\ off' <= total /\ buf_size \in Nat
  BY <1>1 DEF ReadInv, Typed
<1>3. capacity' \in [Streams -> Nat \ {0}]
  BY <1>1, <1>2, CapacityTypes DEF Each
<1>4. Typed'
  <2>1. Each(<<>>) \in Buffers /\ Each(<<0>>) \in [Streams -> Seq(Int)]
    BY EmptyBuffer DEF Each, Buffers
  <2>2. pos' \in [Streams -> Nat]
    BY <1>1, <1>2, HeldTypes
  <2> QED
    BY <1>1, <1>2, <1>3, <2>1, <2>2, EmptyBuffer DEF Typed
<1>5. WriteInv'
  BY <1>1, <1>4, ReadersKeepWrites DEF outs
<1>6. ASSUME NEW p \in Streams PROVE Ahead(p)' /\ Following(p)'
  <2>1. /\ pos'[p] = Held(p, off') /\ rest'[p] = <<>> /\ prefetcher'[p] = <<0>>
        /\ prefetched'[p] = <<>>
    BY <1>1 DEF Each
  <2>2. Held(p, off') <= Len(file[p])
    BY <1>1, <1>2, HeldGrows, FilesHold
  <2> QED
    BY <1>1, <1>2, <2>1, <2>2, Opened
<1>7. ReadInv'
  <2>1. PartCall'
    BY <1>1 DEF PartCall
  <2> QED
    BY <1>1, <1>2, <1>6, <2>1, EmptyBuffer DEF ReadInv
<1> QED
  BY <1>5, <1>7

LEMMA ReadKeeps ==
  ASSUME Inv, Read
  PROVE  Inv'
<1> USE DEF Inv, WriteInv
<1>1. /\ mode = "reading" /\ call = "none" /\ left' \in 1 .. MaxRead
      /\ asked' = left' /\ result' = <<>>
      /\ UNCHANGED <<file, buf_size, capacity, buf, writing_buf, writer, write_token, pos, rest,
                     prefetch_buf, prefetcher, prefetched, call, cur, swapped, data, want, got>>
      /\ UNCHANGED <<mode, size, off, total>>
  BY DEF Read, Idle, streams, sizes, outs, ins, args
<1>2. left' \in Nat
  BY <1>1, DiskAssumption
<1>3. Typed'
  BY <1>1, <1>2, EmptyBuffer DEF Typed
<1>4. WriteInv'
  BY <1>1, <1>3, ReadersKeepWrites DEF outs
<1>5. ASSUME NEW p \in Streams PROVE Ahead(p)' /\ Following(p)'
  <2>1. At(p)' = At(p)
    BY <1>1 DEF At, InRead
  <2> QED
    BY <1>1, <2>1, PartAlone DEF ReadInv
<1>6. ReadInv'
  <2>1. PartCall'
    BY <1>1 DEF PartCall
  <2>2. Len(result') = 0
    BY <1>1, EmptyBuffer
  <2>3. left' + Len(result') = asked'
    <3>1. asked' = left'
      BY <1>1
    <3>2. left' + 0 = left'
      <4>1. \A n \in Nat : n + 0 = n
        OBVIOUS
      <4> QED
        BY <1>2, <4>1, Zenon
    <3> QED
      BY <2>2, <3>1, <3>2, Zenon
  <2>4. \A k \in 1 .. Len(result') : result'[k] = off' - Len(result') + k
    BY <2>2
  <2>5. size' = total' /\ off' <= size'
    BY <1>1 DEF ReadInv
  <2> QED
    BY <1>5, <2>1, <2>3, <2>4, <2>5 DEF ReadInv
<1> QED
  BY <1>4, <1>6

LEMMA ReadPartKeeps ==
  ASSUME Inv, ReadPart
  PROVE  Inv'
<1> USE DEF Inv, WriteInv
<1>1. /\ mode = "reading" /\ left > 0 /\ call = "none" /\ call' = "read" /\ cur' = PartOf(off)
      /\ want' = Smaller(left, RoomAt(off)) /\ got' = <<>>
      /\ UNCHANGED <<file, buf_size, capacity, buf, writing_buf, writer, write_token, pos, rest,
                     prefetch_buf, prefetcher, prefetched, swapped, data>>
      /\ UNCHANGED <<mode, left, size, off, total, asked, result>>
  BY DEF ReadPart, CallRead, disk, sizes, outs, ins
<1>2. left \in Nat /\ off \in Nat /\ cur \in Streams
  BY DEF Typed
<1>3. PartOf(off) \in Streams /\ want' \in Nat \ {0}
  <2>1. PartOf(off) \in Streams /\ RoomAt(off) \in 1 .. Chunk
    BY <1>2, HeldTypes
  <2> QED
    BY <1>1, <1>2, <2>1 DEF Smaller
<1>4. Typed'
  BY <1>1, <1>3, EmptyBuffer DEF Typed
<1>5. WriteInv'
  BY <1>1, <1>4, ReadersKeepWrites DEF outs
<1>6. ASSUME NEW p \in Streams PROVE Ahead(p)' /\ Following(p)'
  <2>1. At(p)' = At(p)
    BY <1>1, ReadTypes, EmptyBuffer DEF At, InRead
  <2> QED
    BY <1>1, <2>1, PartAlone DEF ReadInv
<1>7. PartCall'
  BY <1>1, <1>3, EmptyBuffer DEF PartCall
<1> QED
  BY <1>1, <1>5, <1>6, <1>7 DEF ReadInv

\* What a part was asked for it has, but at the end of the file.
LEMMA PartReadKeeps ==
  ASSUME Inv, PartRead
  PROVE  Inv' /\ left' = left - Len(got)
<1> USE DEF Inv, WriteInv
<1>1. /\ call = "done" /\ call' = "none" /\ off' = off + Len(got) /\ result' = result \o got
      /\ left' = IF want > 0 /\ off' < size THEN 0 ELSE left - Len(got)
      /\ UNCHANGED <<file, buf_size, capacity, buf, writing_buf, writer, write_token, pos, rest,
                     prefetch_buf, prefetcher, prefetched, swapped, cur, data, want, got>>
      /\ UNCHANGED <<mode, size, total, asked>>
  BY DEF PartRead, sizes, outs, ins, args
<1>2. mode = "reading"
  BY <1>1 DEF CallsOfMode, Typed
<1>3. /\ size = total /\ off <= size /\ left + Len(result) = asked /\ cur = PartOf(off) /\ left > 0
      /\ Len(got) + want = Smaller(left, RoomAt(off))
      /\ \A j \in 1 .. Len(got) : got[j] = file[cur][Held(cur, off) + j]
      /\ want > 0 => At(cur) = Len(file[cur])
      /\ \A k \in 1 .. Len(result) : result[k] = off - Len(result) + k
      /\ \A p \in Streams : Ahead(p) /\ Following(p)
  BY <1>1, <1>2 DEF ReadInv, PartCall
<1>4. /\ cur \in Streams /\ off \in Nat /\ size \in Nat /\ left \in Nat /\ want \in Nat
      /\ asked \in Nat /\ got \in Seq(Nat) /\ result \in Seq(Nat)
      /\ Len(got) \in Nat /\ Len(result) \in Nat /\ RoomAt(off) \in 1 .. Chunk /\ Chunk \in Nat
  <2>1. /\ cur \in Streams /\ off \in Nat /\ size \in Nat /\ left \in Nat /\ want \in Nat
        /\ asked \in Nat /\ got \in Seq(Nat) /\ result \in Seq(Nat)
    BY DEF Typed
  <2> QED
    BY <2>1, HeldTypes, LenProperties, PartNumbers
<1>5. /\ Len(got) <= RoomAt(off) /\ Len(got) <= left
      /\ want > 0 => Len(got) < RoomAt(off)
  BY <1>3, <1>4 DEF Smaller
<1>6. At(cur) = Held(cur, off) + Len(got) /\ At(cur) <= Len(file[cur])
  <2>1. At(cur) = Held(cur, off) + Len(got)
    BY <1>1 DEF At, InRead
  <2>2. At(cur) + Len(rest[cur]) + Len(Block(cur)) <= Len(file[cur])
    BY <1>3, <1>4 DEF Following
  <2>3. At(cur) \in Nat /\ Len(rest[cur]) \in Nat /\ Len(Block(cur)) \in Nat /\ Len(file[cur]) \in Nat
    BY <1>4, ReadTypes
  <2>4. At(cur) <= Len(file[cur])
    BY <2>2, <2>3
  <2> QED
    BY <2>1, <2>4
<1>7. Len(file[cur]) = Held(cur, size)
  BY <1>2, <1>3, <1>4, FilesHold
<1>8. /\ off' <= size /\ (want > 0 => off' = size)
      /\ \A p \in Streams : Held(p, off') = Held(p, off) + (IF p = cur THEN Len(got) ELSE 0)
  <2>1. Held(cur, off) + Len(got) <= Held(cur, size)
    BY <1>6, <1>7
  <2>2. off <= size /\ cur = PartOf(off)
    BY <1>3
  <2>3. /\ off + Len(got) <= size
        /\ Len(got) < RoomAt(off) /\ Held(cur, off) + Len(got) = Held(cur, size) =>
             off + Len(got) = size
        /\ \A q \in Streams :
             Held(q, off + Len(got)) = Held(q, off) + (IF q = cur THEN Len(got) ELSE 0)
    <3>1. PICK k \in Nat : k = Len(got)
      BY <1>4
    <3>2. k <= RoomAt(off) /\ Held(cur, off) + k <= Held(cur, size)
      BY <1>5, <2>1, <3>1
    <3>3. /\ off + k <= size
          /\ k < RoomAt(off) /\ Held(cur, off) + k = Held(cur, size) => off + k = size
          /\ \A q \in Streams : Held(q, off + k) = Held(q, off) + (IF q = cur THEN k ELSE 0)
      BY <1>4, <2>2, <3>2, ReadsOn
    <3> QED
      BY <3>1, <3>3
  <2>4. want > 0 => Held(cur, off) + Len(got) = Held(cur, size)
    BY <1>3, <1>6, <1>7
  <2> QED
    BY <1>1, <1>5, <2>3, <2>4
<1>9. off' \in Nat /\ left' = left - Len(got) /\ left' \in Nat
  BY <1>1, <1>4, <1>5, <1>8
<1>10. /\ result' \in Seq(Nat) /\ Len(result') = Len(result) + Len(got)
       /\ \A j \in 1 .. Len(result) : result'[j] = result[j]
       /\ \A j \in 1 .. Len(got) : result'[Len(result) + j] = got[j]
  BY <1>1, <1>4, Joined
<1>11. Typed'
  BY <1>1, <1>9, <1>10 DEF Typed
<1>12. WriteInv'
  BY <1>1, <1>2, <1>11, ReadersKeepWrites DEF outs
<1>13. ASSUME NEW p \in Streams PROVE Ahead(p)' /\ Following(p)'
  <2>1. Held(p, off') \in Nat /\ Held(p, off) \in Nat
    BY <1>4, <1>9, HeldTypes
  <2>2. At(p)' = At(p)
    BY <1>1, <1>4, <1>8, <2>1 DEF At, InRead
  <2> QED
    BY <1>1, <1>3, <2>2, PartAlone
<1>14. ASSUME NEW k \in 1 .. Len(result') PROVE result'[k] = off' - Len(result') + k
  <2>1. CASE k <= Len(result)
    <3>1. k \in 1 .. Len(result)
      BY <1>4, <1>10, <2>1
    <3>2. result'[k] = off - Len(result) + k
      BY <1>3, <1>10, <3>1
    <3> QED
      BY <1>1, <1>4, <1>10, <3>2
  <2>2. CASE ~(k <= Len(result))
    <3> DEFINE j == k - Len(result)
    <3>1. j \in 1 .. Len(got) /\ k = Len(result) + j /\ j - 1 \in 0 .. RoomAt(off) - 1
      <4>1. k \in 1 .. Len(result) + Len(got)
        BY <1>10
      <4>2. j \in 1 .. Len(got) /\ k = Len(result) + j
        BY <1>4, <2>2, <4>1
      <4> HIDE DEF j
      <4> QED
        BY <1>4, <1>5, <4>2
    <3> HIDE DEF j
    <3>2. result'[k] = got[j] /\ got[j] = file[cur][Held(cur, off) + j]
      BY <1>3, <1>10, <3>1
    <3>3. Held(cur, off) + j \in 1 .. Len(file[cur])
      <4>1. Held(cur, off) \in Nat /\ Len(file[cur]) \in Nat
        BY <1>4, ReadTypes
      <4>2. Held(cur, off) + Len(got) <= Len(file[cur])
        BY <1>6
      <4>3. j \in Nat /\ j >= 1 /\ j <= Len(got) /\ Len(got) \in Nat
        BY <1>4, <3>1
      <4> QED
        BY <4>1, <4>2, <4>3
    <3>4. file[cur][Held(cur, off) + j] = OffsetOf(cur, Held(cur, off) + j - 1) + 1
      <4>1. \A i \in 1 .. Len(file[cur]) : file[cur][i] = OffsetOf(cur, i - 1) + 1
        BY <1>2, <1>4, FilesHold
      <4>2. PICK i \in 1 .. Len(file[cur]) : i = Held(cur, off) + j
        BY <3>3
      <4>3. file[cur][i] = OffsetOf(cur, i - 1) + 1
        BY <4>1
      <4> QED
        <5>1. Held(cur, off) \in Nat /\ j \in Nat
          BY <1>4, <3>1, ReadTypes
        <5> QED
          BY <4>2, <4>3, <5>1
    <3>5. Held(cur, off) + j - 1 = Held(cur, off) + (j - 1)
      <4>1. Held(cur, off) \in Nat /\ j \in Nat
        BY <1>4, <3>1, HeldTypes
      <4> QED
        BY <4>1
    <3>6. OffsetOf(cur, Held(cur, off) + (j - 1)) = off + (j - 1)
      BY <1>3, <1>4, <3>1, OffsetOfHeld
    <3>7. result'[k] = off + j
      BY <1>4, <3>1, <3>2, <3>4, <3>5, <3>6
    <3> QED
      BY <1>1, <1>4, <1>10, <3>1, <3>7
  <2> QED
    BY <2>1, <2>2
<1>15. ReadInv'
  <2>1. left' + Len(result') = asked'
    <3>1. left' = left - Len(got) /\ Len(result') = Len(result) + Len(got)
      BY <1>9, <1>10
    <3>2. left + Len(result) = asked' /\ left \in Nat /\ Len(got) \in Nat /\ Len(result) \in Nat
      BY <1>1, <1>3, <1>4
    <3> QED
      BY <3>1, <3>2
  <2>2. PartCall'
    BY <1>1 DEF PartCall
  <2> QED
    BY <1>1, <1>3, <1>8, <1>13, <1>14, <2>1, <2>2 DEF ReadInv
<1> QED
  BY <1>9, <1>12, <1>15

(***************************************************************************)
(* The steps of a PrefetchingtStreamBuffer, in the Read of a part.         *)
(***************************************************************************)
\* What a step of a part's Read finds.
LEMMA InCall ==
  ASSUME Inv, call = "read"
  PROVE  /\ mode = "reading" /\ size = total /\ off <= size /\ left + Len(result) = asked
         /\ \A k \in 1 .. Len(result) : result[k] = off - Len(result) + k
         /\ cur \in Streams /\ cur = PartOf(off) /\ left > 0 /\ want \in Nat
         /\ Len(got) + want = Smaller(left, RoomAt(off))
         /\ \A j \in 1 .. Len(got) : got[j] = file[cur][Held(cur, off) + j]
         /\ \A p \in Streams : Ahead(p) /\ Following(p)
         /\ At(cur) = Held(cur, off) + Len(got) /\ pos[cur] <= Len(file[cur])
         /\ At(cur) + Len(rest[cur]) + Len(Block(cur)) = pos[cur]
<1> USE DEF Inv, WriteInv
<1>1. mode = "reading" /\ cur \in Streams /\ want \in Nat
  BY DEF CallsOfMode, Typed
<1>2. PartCall /\ \A p \in Streams : Ahead(p) /\ Following(p)
  BY <1>1 DEF ReadInv
<1>3. At(cur) = Held(cur, off) + Len(got)
  BY DEF At, InRead
<1>4. At(cur) + Len(rest[cur]) + Len(Block(cur)) = pos[cur] /\ pos[cur] <= Len(file[cur])
  BY <1>1, <1>2 DEF Following
<1> QED
  BY <1>1, <1>2, <1>3, <1>4 DEF ReadInv, PartCall

\* Of the other parts, nothing is read.
LEMMA OthersAlone ==
  ASSUME Inv, call = "read", call' \in {"read", "done"},
         UNCHANGED <<file, capacity, off, cur>>,
         NEW p \in Streams, p # cur,
         UNCHANGED <<pos[p], rest[p], prefetch_buf[p], prefetcher[p], prefetched[p]>>
  PROVE  Ahead(p)' /\ Following(p)'
<1>1. At(p)' = At(p)
  BY DEF At, InRead
<1> QED
  BY <1>1, InCall, PartAlone

LEMMA CopyOutKeeps ==
  ASSUME Inv, CopyOut, UNCHANGED disk
  PROVE  Inv'
<1> USE DEF Inv, WriteInv
<1> DEFINE n == Smaller(want, Len(rest[cur]))
           piece == SubSeq(rest[cur], 1, n)
           others == SubSeq(rest[cur], n + 1, Len(rest[cur]))
<1>1. /\ call = "read" /\ got' = got \o piece /\ want' = want - n
      /\ rest' = [rest EXCEPT ![cur] = others]
      /\ UNCHANGED <<file, buf_size, capacity, buf, writing_buf, writer, write_token, pos,
                     prefetch_buf, prefetcher, prefetched, call, cur, swapped, data>>
      /\ UNCHANGED <<mode, left, size, off, total, asked, result>>
  BY DEF CopyOut, disk, sizes, outs
<1>2. /\ cur \in Streams /\ want \in Nat /\ rest[cur] \in Seq(Nat) /\ Len(rest[cur]) \in Nat
      /\ got \in Seq(Nat) /\ Len(got) \in Nat /\ At(cur) \in Nat /\ Held(cur, off) \in Nat
      /\ Len(Block(cur)) \in Nat
  BY <1>1, InCall, ReadTypes
<1>3. n \in 0 .. Len(rest[cur]) /\ n <= want
  BY <1>2 DEF Smaller
<1> HIDE DEF n
<1>4. /\ piece \in Seq(Nat) /\ Len(piece) = n /\ \A j \in 1 .. n : piece[j] = rest[cur][j]
      /\ others \in Seq(Nat) /\ Len(others) = Len(rest[cur]) - n
      /\ \A j \in 1 .. Len(rest[cur]) - n : others[j] = rest[cur][n + j]
  BY <1>2, <1>3, Cut
<1> HIDE DEF piece, others
<1>5. /\ got' \in Seq(Nat) /\ Len(got') = Len(got) + n
      /\ \A j \in 1 .. Len(got) : got'[j] = got[j]
      /\ \A j \in 1 .. n : got'[Len(got) + j] = rest[cur][j]
  BY <1>1, <1>2, <1>4, Joined
<1>6. /\ rest' \in Buffers /\ rest'[cur] = others
      /\ \A p \in Streams : p # cur => rest'[p] = rest[p]
  BY <1>1, <1>2, <1>4 DEF Typed, Buffers
<1>7. Typed'
  <2>1. want' \in Nat
    BY <1>1, <1>2, <1>3
  <2> QED
    BY <1>1, <1>5, <1>6, <2>1 DEF Typed
<1>8. WriteInv'
  BY <1>1, <1>7, InCall, ReadersKeepWrites DEF outs
<1>9. PICK c \in Streams : c = cur
  BY <1>2
<1>10. Following(c) /\ Ahead(c) /\ At(c) = Held(cur, off) + Len(got)
  BY <1>1, <1>9, InCall
<1>11. At(c)' = At(c) + n /\ Block(c)' = Block(c)
  <2>1. At(c)' = Held(c, off) + Len(got')
    BY <1>1, <1>9 DEF At, InRead
  <2>2. Held(c, off) \in Nat
    BY <1>2, <1>9
  <2> QED
    BY <1>1, <1>2, <1>3, <1>5, <1>9, <1>10, <2>1, <2>2 DEF Block
<1>12. Following(c)'
  <2>1. /\ pos[c] <= Len(file[c])
        /\ At(c) + Len(rest[c]) + Len(Block(c)) = pos[c]
        /\ \A j \in 1 .. Len(rest[c]) : rest[c][j] = file[c][At(c) + j]
        /\ \A j \in 1 .. Len(Block(c)) : Block(c)[j] = file[c][At(c) + Len(rest[c]) + j]
    BY <1>10 DEF Following
  <2>2. /\ Len(rest'[c]) = Len(rest[c]) - n /\ At(c) \in Nat /\ Len(rest[c]) \in Nat
        /\ \A j \in 1 .. Len(rest[c]) - n : rest'[c][j] = rest[c][n + j]
    BY <1>2, <1>4, <1>6, <1>9
  <2>3. At(c)' + Len(rest'[c]) = At(c) + Len(rest[c])
    <3>1. At(c)' = At(c) + n
      BY <1>11
    <3> QED
      BY <1>3, <2>2, <3>1
  <2>4. ASSUME NEW j \in 1 .. Len(rest'[c]) PROVE rest'[c][j] = file[c][At(c)' + j]
    <3>1. j \in 1 .. Len(rest[c]) - n
      BY <2>2
    <3>2. n + j \in 1 .. Len(rest[c])
      BY <1>3, <1>9, <2>2, <3>1
    <3>3. rest'[c][j] = rest[c][n + j] /\ rest[c][n + j] = file[c][At(c) + (n + j)]
      BY <2>1, <2>2, <3>1, <3>2
    <3>4. At(c) + (n + j) = At(c)' + j
      <4>1. At(c)' = At(c) + n
        BY <1>11
      <4> QED
        BY <1>3, <1>9, <2>2, <3>1, <4>1
    <3> QED
      BY <3>3, <3>4
  <2>5. /\ At(c)' + Len(rest'[c]) + Len(Block(c)) = pos[c]
        /\ \A j \in 1 .. Len(Block(c)) :
             Block(c)[j] = file[c][At(c)' + Len(rest'[c]) + j]
    BY <2>1, <2>3
  <2>6. pos' = pos /\ file' = file /\ Block(c)' = Block(c)
    BY <1>1, <1>11
  <2> QED
    BY <2>1, <2>4, <2>5, <2>6 DEF Following
<1>13. ASSUME NEW p \in Streams PROVE Ahead(p)' /\ Following(p)'
  <2>1. CASE p = c
    <3>1. Ahead(c)'
      BY <1>1, <1>10 DEF Ahead
    <3> QED
      BY <1>12, <2>1, <3>1
  <2>2. CASE p # c
    BY <1>1, <1>6, <1>9, <2>2, OthersAlone
  <2> QED
    BY <2>1, <2>2
<1>14. PartCall'
  <2>1. Len(got') + want' = Smaller(left, RoomAt(off))
    <3>1. Len(got) + want = Smaller(left, RoomAt(off))
      BY <1>1, InCall
    <3>2. Len(got') + want' = Len(got) + want
      <4>1. want' = want - n /\ Len(got') = Len(got) + n
        BY <1>1, <1>5
      <4> QED
        BY <1>2, <1>3, <4>1
    <3> QED
      BY <3>1, <3>2
  <2>2. ASSUME NEW j \in 1 .. Len(got') PROVE got'[j] = file[cur][Held(cur, off) + j]
    <3>1. CASE j <= Len(got)
      <4>1. j \in 1 .. Len(got)
        BY <1>2, <3>1
      <4> QED
        BY <1>1, <1>5, <4>1, InCall
    <3>2. CASE ~(j <= Len(got))
      <4> DEFINE i == j - Len(got)
      <4>1. i \in 1 .. n /\ j = Len(got) + i
        BY <1>2, <1>3, <1>5, <3>2
      <4> HIDE DEF i
      <4>2. got'[j] = rest[cur][i] /\ i \in 1 .. Len(rest[cur])
        <5>1. i \in 1 .. Len(rest[cur])
          BY <1>2, <1>3, <4>1
        <5> QED
          BY <1>5, <4>1, <5>1
      <4>3. rest[cur][i] = file[cur][At(cur) + i]
        BY <1>9, <1>10, <4>2 DEF Following
      <4>4. At(cur) + i = Held(cur, off) + j
        <5>1. At(cur) = Held(cur, off) + Len(got)
          BY <1>1, InCall
        <5> QED
          BY <1>2, <1>3, <4>1, <5>1
      <4> QED
        BY <4>2, <4>3, <4>4
    <3> QED
      BY <3>1, <3>2
  <2> QED
    BY <1>1, <2>1, <2>2, InCall DEF PartCall
<1>15. ReadInv'
  BY <1>1, <1>13, <1>14, InCall DEF ReadInv
<1> QED
  BY <1>8, <1>15

LEMMA ReadDoneKeeps ==
  ASSUME Inv, ReadDone, UNCHANGED disk
  PROVE  Inv'
<1> USE DEF Inv, WriteInv
<1>1. /\ call = "read" /\ want = 0 /\ call' = "done"
      /\ UNCHANGED <<file, buf_size, capacity, buf, writing_buf, writer, write_token, pos, rest,
                     prefetch_buf, prefetcher, prefetched, swapped, cur, data, want, got>>
      /\ UNCHANGED <<mode, left, size, off, total, asked, result>>
  BY DEF ReadDone, disk, sizes, outs, ins, args
<1>2. Typed'
  BY <1>1 DEF Typed
<1>3. WriteInv'
  BY <1>1, <1>2, InCall, ReadersKeepWrites DEF outs
<1>4. ASSUME NEW p \in Streams PROVE Ahead(p)' /\ Following(p)'
  <2>1. At(p)' = At(p)
    BY <1>1 DEF At, InRead
  <2> QED
    BY <1>1, <2>1, InCall, PartAlone
<1>5. PartCall'
  BY <1>1, InCall DEF PartCall
<1>6. ReadInv'
  BY <1>1, <1>4, <1>5, InCall DEF ReadInv
<1> QED
  BY <1>3, <1>6

\* Taking the block read ahead, whatever is done with it.
LEMMA BlockTaken ==
  ASSUME Inv, NEW order \in {0, -1}, TakeBlock(order), UNCHANGED disk,
         NEW c \in Streams, c = cur
  PROVE  /\ call = "read" /\ want > 0 /\ rest[c] = <<>>
         /\ Head(prefetched[c]) = Len(prefetch_buf[c]) /\ Len(prefetch_buf[c]) <= capacity[c]
         /\ Len(prefetch_buf[c]) < capacity[c] => pos[c] = Len(file[c])
         /\ At(c) = Held(c, off) + Len(got) /\ pos[c] <= Len(file[c])
         /\ At(c) + Len(prefetch_buf[c]) = pos[c]
         /\ \A j \in 1 .. Len(prefetch_buf[c]) : prefetch_buf[c][j] = file[c][At(c) + j]
         /\ prefetched' \in Buffers /\ prefetched'[c] = <<>>
         /\ prefetcher' \in [Streams -> Seq(Int)] /\ prefetcher'[c] = <<order>>
         /\ \A p \in Streams : p # c => /\ prefetched'[p] = prefetched[p]
                                        /\ prefetcher'[p] = prefetcher[p]
<1> USE DEF Inv, WriteInv
<1>1. /\ call = "read" /\ want > 0 /\ rest[c] = <<>> /\ prefetched[c] # <<>>
      /\ prefetched' = [prefetched EXCEPT ![c] = Tail(@)]
      /\ prefetcher' = [prefetcher EXCEPT ![c] = <<order>>]
  BY DEF TakeBlock
<1>2. Ahead(c) /\ Following(c) /\ At(c) = Held(c, off) + Len(got) /\ pos[c] <= Len(file[c])
  BY <1>1, InCall
<1>3. /\ prefetched[c] = <<Len(prefetch_buf[c])>> /\ Block(c) = prefetch_buf[c]
      /\ Len(prefetch_buf[c]) <= capacity[c]
      /\ Len(prefetch_buf[c]) < capacity[c] => pos[c] = Len(file[c])
  BY <1>1, <1>2 DEF Ahead, Block
<1>4. Head(prefetched[c]) = Len(prefetch_buf[c]) /\ Tail(prefetched[c]) = <<>>
  BY <1>3
<1>5. /\ prefetched' \in Buffers /\ prefetched'[c] = <<>>
      /\ \A p \in Streams : p # c => prefetched'[p] = prefetched[p]
  BY <1>1, <1>4, EmptyBuffer DEF Typed, Buffers
<1>6. /\ prefetcher' \in [Streams -> Seq(Int)] /\ prefetcher'[c] = <<order>>
      /\ \A p \in Streams : p # c => prefetcher'[p] = prefetcher[p]
  <2>1. <<order>> \in Seq(Int)
    OBVIOUS
  <2> QED
    BY <1>1, <2>1 DEF Typed
<1>7. /\ At(c) + Len(prefetch_buf[c]) = pos[c]
      /\ \A j \in 1 .. Len(prefetch_buf[c]) : prefetch_buf[c][j] = file[c][At(c) + j]
  <2>1. /\ At(c) + Len(rest[c]) + Len(Block(c)) = pos[c]
        /\ \A j \in 1 .. Len(Block(c)) : Block(c)[j] = file[c][At(c) + Len(rest[c]) + j]
    BY <1>2 DEF Following
  <2>2. Len(rest[c]) = 0 /\ At(c) \in Nat
    BY <1>1, EmptyBuffer, ReadTypes
  <2>3. At(c) + Len(rest[c]) = At(c)
    BY <2>2
  <2> QED
    BY <1>3, <2>1, <2>3
<1> QED
  BY <1>1, <1>2, <1>3, <1>4, <1>5, <1>6, <1>7

LEMMA EndOfFileKeeps ==
  ASSUME Inv, EndOfFile, UNCHANGED disk
  PROVE  Inv'
<1> USE DEF Inv, WriteInv
<1>1. /\ TakeBlock(-1) /\ Head(prefetched[cur]) = 0 /\ call' = "done"
      /\ UNCHANGED <<file, buf_size, capacity, buf, writing_buf, writer, write_token, pos, rest,
                     prefetch_buf, swapped, cur, data, want, got>>
      /\ UNCHANGED <<mode, left, size, off, total, asked, result>>
  BY DEF EndOfFile, TakeBlock, disk, sizes, outs
<1>2. PICK c \in Streams : c = cur
  BY DEF Typed
<1>3. /\ call = "read" /\ want > 0 /\ rest[c] = <<>>
      /\ Len(prefetch_buf[c]) < capacity[c] => pos[c] = Len(file[c])
      /\ Len(prefetch_buf[c]) = 0 /\ At(c) + Len(prefetch_buf[c]) = pos[c]
      /\ prefetched' \in Buffers /\ prefetched'[c] = <<>>
      /\ prefetcher' \in [Streams -> Seq(Int)] /\ prefetcher'[c] = <<-1>>
      /\ \A p \in Streams : p # c => /\ prefetched'[p] = prefetched[p]
                                     /\ prefetcher'[p] = prefetcher[p]
  BY <1>1, <1>2, BlockTaken
<1>4. At(c) \in Nat /\ pos[c] = Len(file[c]) /\ At(c) = Len(file[c])
  BY <1>3, ReadTypes
<1>5. Typed'
  BY <1>1, <1>3 DEF Typed
<1>6. WriteInv'
  BY <1>1, <1>3, <1>5, InCall, ReadersKeepWrites DEF outs
<1>7. At(c)' = At(c) /\ Block(c)' = <<>>
  BY <1>1, <1>2, <1>3 DEF At, InRead, Block
<1>8. Ahead(c)' /\ Following(c)'
  <2>1. Ahead(c)'
    BY <1>1, <1>3, <1>4 DEF Ahead
  <2>2. At(c)' + 0 + 0 = pos'[c] /\ pos'[c] <= Len(file'[c])
    <3>1. At(c) + 0 + 0 = pos[c] /\ pos[c] <= Len(file[c])
      BY <1>4
    <3> QED
      BY <1>1, <1>7, <3>1
  <2> QED
    BY <1>1, <1>3, <1>7, <2>1, <2>2, EmptyBuffer DEF Following
<1>9. ASSUME NEW p \in Streams PROVE Ahead(p)' /\ Following(p)'
  <2>1. CASE p # c
    BY <1>1, <1>2, <1>3, <2>1, OthersAlone
  <2> QED
    BY <1>8, <2>1
<1>10. PartCall'
  <2>1. At(cur)' = Len(file'[cur'])
    <3>1. At(cur)' = At(c)
      BY <1>1, <1>2, <1>3 DEF At, InRead
    <3> QED
      BY <1>1, <1>2, <1>4, <3>1
  <2> QED
    BY <1>1, <1>3, <2>1, InCall DEF PartCall
<1>11. ReadInv'
  BY <1>1, <1>3, <1>9, <1>10, InCall DEF ReadInv
<1> QED
  BY <1>6, <1>11

\* A block that is for later too is put into the buffer.
LEMMA NextBlockKeeps ==
  ASSUME Inv, NextBlock, want <= capacity[cur], UNCHANGED disk
  PROVE  Inv'
<1> USE DEF Inv, WriteInv
<1> DEFINE order == Order(Head(prefetched[cur]))
<1>1. /\ TakeBlock(order) /\ call' = "read" /\ rest' = [rest EXCEPT ![cur] = prefetch_buf[cur]]
      /\ UNCHANGED <<file, buf_size, capacity, buf, writing_buf, writer, write_token, pos,
                     prefetch_buf, swapped, cur, data, want, got>>
      /\ UNCHANGED <<mode, left, size, off, total, asked, result>>
  <2>1. want \in Nat /\ capacity[cur] \in Nat
    BY ReadTypes DEF Typed
  <2>2. ~(want > capacity[cur])
    BY <2>1
  <2>3. /\ TakeBlock(order) /\ call' = "read"
        /\ rest' = [rest EXCEPT ![cur] = prefetch_buf[cur]] /\ UNCHANGED <<pos, want, got>>
    BY <2>2 DEF NextBlock
  <2> HIDE DEF order
  <2> QED
    BY <2>3 DEF TakeBlock, disk, sizes, outs
<1>2. PICK c \in Streams : c = cur
  BY DEF Typed
<1>3. order \in {0, -1}
  BY DEF Order
<1> HIDE DEF order
<1>4. /\ call = "read" /\ want > 0 /\ rest[c] = <<>>
      /\ Head(prefetched[c]) = Len(prefetch_buf[c]) /\ Len(prefetch_buf[c]) <= capacity[c]
      /\ Len(prefetch_buf[c]) < capacity[c] => pos[c] = Len(file[c])
      /\ pos[c] <= Len(file[c]) /\ At(c) + Len(prefetch_buf[c]) = pos[c]
      /\ \A j \in 1 .. Len(prefetch_buf[c]) : prefetch_buf[c][j] = file[c][At(c) + j]
      /\ prefetched' \in Buffers /\ prefetched'[c] = <<>>
      /\ prefetcher' \in [Streams -> Seq(Int)] /\ prefetcher'[c] = <<order>>
      /\ \A p \in Streams : p # c => /\ prefetched'[p] = prefetched[p]
                                     /\ prefetcher'[p] = prefetcher[p]
  BY <1>1, <1>2, <1>3, BlockTaken
<1>5. order = -1 => pos[c] = Len(file[c])
  BY <1>2, <1>4, ReadTypes DEF order, Order
<1>6. /\ rest' \in Buffers /\ rest'[c] = prefetch_buf[c]
      /\ \A p \in Streams : p # c => rest'[p] = rest[p]
  BY <1>1, <1>2 DEF Typed, Buffers
<1>7. Typed'
  BY <1>1, <1>4, <1>6 DEF Typed
<1>8. WriteInv'
  BY <1>1, <1>4, <1>7, InCall, ReadersKeepWrites DEF outs
<1>9. At(c)' = At(c) /\ Block(c)' = <<>>
  BY <1>1, <1>2, <1>4 DEF At, InRead, Block
<1>10. Ahead(c)'
  BY <1>1, <1>3, <1>4, <1>5 DEF Ahead
<1>11. Following(c)'
  <2>1. At(c)' + Len(rest'[c]) + 0 = pos'[c]
    <3>1. At(c) \in Nat /\ Len(prefetch_buf[c]) \in Nat
      BY ReadTypes
    <3>2. At(c) + Len(prefetch_buf[c]) + 0 = pos[c]
      BY <1>4, <3>1
    <3> QED
      BY <1>1, <1>6, <1>9, <3>2
  <2> QED
    BY <1>1, <1>4, <1>6, <1>9, <2>1, EmptyBuffer DEF Following
<1>12. ASSUME NEW p \in Streams PROVE Ahead(p)' /\ Following(p)'
  <2>1. CASE p # c
    BY <1>1, <1>2, <1>4, <1>6, <2>1, OthersAlone
  <2> QED
    BY <1>10, <1>11, <2>1
<1>13. PartCall'
  BY <1>1, <1>4, InCall DEF PartCall
<1>14. ReadInv'
  BY <1>1, <1>4, <1>12, <1>13, InCall DEF ReadInv
<1> QED
  BY <1>8, <1>14

\* A large read takes the block, and what it still wants from the file.
LEMMA LargeBlockKeeps ==
  ASSUME Inv, NextBlock, want > capacity[cur], UNCHANGED disk
  PROVE  Inv'
<1> USE DEF Inv, WriteInv
<1> DEFINE order == Order(Head(prefetched[cur]))
           direct == Bytes(cur, pos[cur], want - Head(prefetched[cur]))
<1>1. /\ TakeBlock(order) /\ call' = "done"
      /\ got' = got \o prefetch_buf[cur] \o direct
      /\ want' = want - Head(prefetched[cur]) - Len(direct)
      /\ pos' = [pos EXCEPT ![cur] = @ + Len(direct)] /\ rest' = rest
  <2>1. want \in Nat /\ capacity[cur] \in Nat
    BY ReadTypes DEF Typed
  <2>2. ~(want <= capacity[cur])
    BY <2>1
  <2> QED
    BY <2>2 DEF NextBlock
<1>2. PICK c \in Streams : c = cur
  BY DEF Typed
<1>3. order \in {0, -1}
  BY DEF Order
<1> HIDE DEF order
<1>4. /\ UNCHANGED <<file, buf_size, capacity, buf, writing_buf, writer, write_token, rest,
                     prefetch_buf, swapped, cur, data>>
      /\ UNCHANGED <<mode, left, size, off, total, asked, result>>
  BY <1>1 DEF TakeBlock, disk, sizes, outs
<1> DEFINE block == prefetch_buf[c]
           d == Len(block)
<1>5. /\ call = "read" /\ want > 0 /\ rest[c] = <<>>
      /\ Head(prefetched[c]) = d /\ d <= capacity[c]
      /\ d < capacity[c] => pos[c] = Len(file[c])
      /\ At(c) = Held(c, off) + Len(got) /\ pos[c] <= Len(file[c])
      /\ At(c) + d = pos[c] /\ \A j \in 1 .. d : block[j] = file[c][At(c) + j]
      /\ prefetched' \in Buffers /\ prefetched'[c] = <<>>
      /\ prefetcher' \in [Streams -> Seq(Int)] /\ prefetcher'[c] = <<order>>
      /\ \A p \in Streams : p # c => /\ prefetched'[p] = prefetched[p]
                                     /\ prefetcher'[p] = prefetcher[p]
  BY <1>1, <1>2, <1>3, BlockTaken
<1>6. /\ block \in Seq(Nat) /\ d \in Nat /\ got \in Seq(Nat) /\ Len(got) \in Nat
      /\ At(c) \in Nat /\ Held(c, off) \in Nat /\ pos[c] \in Nat /\ Len(file[c]) \in Nat
      /\ want \in Nat /\ capacity[c] \in Nat
  <2>1. want \in Nat
    BY DEF Typed
  <2> QED
    BY <2>1, ReadTypes
<1> HIDE DEF d
<1>7. want - d \in Nat /\ want - d > 0
  <2>1. want > capacity[c] /\ d <= capacity[c]
    BY <1>2, <1>5
  <2> QED
    BY <1>6, <2>1
<1>8. direct = Bytes(c, pos[c], want - d)
  BY <1>2, <1>5
<1> HIDE DEF direct
<1>9. /\ direct \in Seq(Nat) /\ Len(direct) \in Nat
      /\ \A j \in 1 .. Len(direct) : direct[j] = file[c][pos[c] + j]
      /\ Len(direct) <= want - d /\ pos[c] + Len(direct) <= Len(file[c])
      /\ Len(direct) < want - d => pos[c] + Len(direct) = Len(file[c])
  <2>1. direct \in Seq(Nat) /\ Len(direct) \in Nat
    BY <1>6, <1>7, <1>8, BytesOfFile, LenProperties
  <2>2. pos[c] \in Nat /\ pos[c] <= Len(file[c]) /\ want - d \in Nat /\ Typed
    BY <1>5, <1>6, <1>7
  <2>3. /\ Len(direct) <= want - d /\ pos[c] + Len(direct) <= Len(file[c])
        /\ Len(direct) < want - d => pos[c] + Len(direct) = Len(file[c])
    BY <1>8, <2>2, BytesOfFile
  <2>4. \A j \in 1 .. Len(direct) : direct[j] = file[c][pos[c] + j]
    BY <1>8, <2>2, BytesOfFile
  <2> QED
    BY <2>1, <2>3, <2>4
<1>10. /\ got' \in Seq(Nat) /\ Len(got') = Len(got) + d + Len(direct)
       /\ \A j \in 1 .. Len(got) : got'[j] = got[j]
       /\ \A j \in 1 .. d : got'[Len(got) + j] = block[j]
       /\ \A j \in 1 .. Len(direct) : got'[Len(got) + d + j] = direct[j]
  <2> DEFINE first == got \o block
  <2>1. /\ first \in Seq(Nat) /\ Len(first) \in Nat /\ Len(first) = Len(got) + d
        /\ \A j \in 1 .. Len(got) : first[j] = got[j]
        /\ \A j \in 1 .. d : first[Len(got) + j] = block[j]
    BY <1>6, Joined DEF d
  <2>2. got' = first \o direct
    BY <1>1, <1>2
  <2> HIDE DEF first
  <2>3. /\ got' \in Seq(Nat) /\ Len(got') = Len(first) + Len(direct)
        /\ \A j \in 1 .. Len(first) : got'[j] = first[j]
        /\ \A j \in 1 .. Len(direct) : got'[Len(first) + j] = direct[j]
    BY <1>9, <2>1, <2>2, Joined
  <2>4. ASSUME NEW j \in 1 .. Len(got) PROVE got'[j] = got[j]
    <3>1. j \in 1 .. Len(first)
      BY <1>6, <2>1
    <3> QED
      BY <2>1, <2>3, <3>1
  <2>5. ASSUME NEW j \in 1 .. d PROVE got'[Len(got) + j] = block[j]
    <3>1. Len(got) + j \in 1 .. Len(first)
      BY <1>6, <2>1
    <3> QED
      BY <2>1, <2>3, <3>1
  <2> QED
    BY <2>1, <2>3, <2>4, <2>5
<1>11. want' \in Nat /\ want' = want - d - Len(direct)
  <2>1. want' = want - d - Len(direct)
    BY <1>1, <1>2, <1>5
  <2>2. Len(direct) <= want - d
    BY <1>9
  <2> QED
    BY <1>6, <1>7, <1>9, <2>1, <2>2
<1>12. /\ pos' \in [Streams -> Nat] /\ pos'[c] = pos[c] + Len(direct)
       /\ \A p \in Streams : p # c => pos'[p] = pos[p]
  <2>1. pos \in [Streams -> Nat] /\ pos[c] + Len(direct) \in Nat
    <3>1. pos[c] \in Nat /\ Len(direct) \in Nat
      BY <1>6, <1>9
    <3> QED
      BY <3>1 DEF Typed
  <2> QED
    BY <1>1, <1>2, <2>1
<1>13. Typed'
  BY <1>1, <1>4, <1>5, <1>10, <1>11, <1>12 DEF Typed
<1>14. WriteInv'
  BY <1>1, <1>4, <1>5, <1>13, InCall, ReadersKeepWrites DEF outs
<1>15. At(c)' = Held(c, off) + Len(got') /\ Block(c)' = <<>>
  BY <1>1, <1>2, <1>4, <1>5 DEF At, InRead, Block
<1>16. At(c)' = pos'[c]
  BY <1>5, <1>6, <1>9, <1>10, <1>12, <1>15
<1>17. Ahead(c)'
  <2>1. order = -1 => pos'[c] = Len(file[c])
    <3>1. order = -1 => d < capacity[c]
      BY <1>2, <1>5, <1>6 DEF order, Order
    <3>2. d < capacity[c] => pos[c] = Len(file[c])
      BY <1>5
    <3>3. pos'[c] = pos[c] + Len(direct) /\ pos[c] + Len(direct) <= Len(file[c])
      BY <1>9, <1>12
    <3>4. pos[c] \in Nat /\ Len(direct) \in Nat /\ Len(file[c]) \in Nat
      BY <1>6, <1>9
    <3> QED
      BY <3>1, <3>2, <3>3, <3>4
  <2> QED
    BY <1>3, <1>4, <1>5, <2>1 DEF Ahead
<1>18. Following(c)'
  <2>1. At(c)' + 0 + 0 = pos'[c] /\ pos'[c] <= Len(file'[c])
    <3>1. pos'[c] \in Nat /\ pos'[c] <= Len(file[c])
      BY <1>9, <1>12
    <3>2. \A n \in Nat : n + 0 + 0 = n
      OBVIOUS
    <3>3. pos'[c] + 0 + 0 = pos'[c]
      BY <3>1, <3>2, Zenon
    <3> QED
      BY <1>4, <1>16, <3>1, <3>3
  <2> QED
    BY <1>4, <1>5, <1>15, <2>1, EmptyBuffer DEF Following
<1>19. ASSUME NEW p \in Streams PROVE Ahead(p)' /\ Following(p)'
  <2>1. CASE p # c
    BY <1>1, <1>2, <1>4, <1>5, <1>12, <2>1, OthersAlone
  <2> QED
    BY <1>17, <1>18, <2>1
<1>20. ASSUME NEW j \in 1 .. Len(got') PROVE got'[j] = file[c][Held(c, off) + j]
  <2>1. CASE j <= Len(got)
    <3>1. j \in 1 .. Len(got)
      BY <1>6, <2>1
    <3> QED
      BY <1>2, <1>5, <1>10, <3>1, InCall
  <2>2. CASE j > Len(got) /\ j <= Len(got) + d
    <3> DEFINE i == j - Len(got)
    <3>1. i \in 1 .. d /\ j = Len(got) + i
      BY <1>6, <2>2
    <3> HIDE DEF i
    <3>2. got'[j] = block[i] /\ block[i] = file[c][At(c) + i]
      BY <1>5, <1>10, <3>1
    <3>3. At(c) + i = Held(c, off) + j
      BY <1>5, <1>6, <3>1
    <3> QED
      BY <3>2, <3>3
  <2>3. CASE j > Len(got) + d
    <3> DEFINE i == j - Len(got) - d
    <3>1. i \in 1 .. Len(direct) /\ j = Len(got) + d + i
      <4>1. j \in 1 .. Len(got) + d + Len(direct)
        BY <1>10
      <4>2. Len(direct) \in Nat
        BY <1>9
      <4> QED
        BY <1>6, <2>3, <4>1, <4>2
    <3> HIDE DEF i
    <3>2. got'[j] = direct[i] /\ direct[i] = file[c][pos[c] + i]
      BY <1>9, <1>10, <3>1
    <3>3. pos[c] + i = Held(c, off) + j
      BY <1>5, <1>6, <3>1
    <3> QED
      BY <3>2, <3>3
  <2> QED
    BY <1>6, <2>1, <2>2, <2>3
<1>21. PartCall'
  <2>1. Len(got') + want' = Smaller(left, RoomAt(off))
    <3>1. Len(got) + want = Smaller(left, RoomAt(off))
      BY <1>5, InCall
    <3>2. Len(got') + want' = Len(got) + want
      <4>1. Len(got') = Len(got) + d + Len(direct) /\ want' = want - d - Len(direct)
        BY <1>10, <1>11
      <4>2. Len(direct) \in Nat
        BY <1>9
      <4> QED
        BY <1>6, <4>1, <4>2
    <3> QED
      BY <3>1, <3>2
  <2>2. want' > 0 => At(cur)' = Len(file'[cur'])
    <3>1. At(cur)' = At(c)' /\ file'[cur'] = file[c]
      BY <1>1, <1>2, <1>4, <1>15 DEF At, InRead
    <3>2. want' > 0 => Len(direct) < want - d
      BY <1>6, <1>9, <1>11
    <3> QED
      BY <1>9, <1>12, <1>16, <3>1, <3>2
  <2> QED
    BY <1>2, <1>4, <1>5, <1>20, <2>1, <2>2, InCall DEF PartCall
<1>22. ReadInv'
  BY <1>4, <1>5, <1>19, <1>21, InCall DEF ReadInv
<1> QED
  BY <1>14, <1>22

\* The thread that reads ahead: what it reads follows what is there to be read.
LEMMA PrefetchKeeps ==
  ASSUME Inv, NEW f \in Streams, PrefetchBlock(f), UNCHANGED disk
  PROVE  Inv'
<1> USE DEF Inv, WriteInv
<1> DEFINE block == IF Head(prefetcher[f]) = -1 THEN <<>> ELSE Bytes(f, pos[f], capacity[f])
<1>1. /\ prefetcher[f] # <<>>
      /\ prefetch_buf' = [prefetch_buf EXCEPT ![f] = block]
      /\ pos' = [pos EXCEPT ![f] = @ + Len(block)]
      /\ prefetcher' = [prefetcher EXCEPT ![f] = <<>>]
      /\ prefetched' = [prefetched EXCEPT ![f] = Append(@, Len(block))]
      /\ UNCHANGED <<file, buf_size, capacity, buf, writing_buf, writer, write_token, rest, call,
                     swapped, cur, data, want, got>>
      /\ UNCHANGED <<mode, left, size, off, total, asked, result>>
  BY DEF PrefetchBlock, disk, sizes, outs, args
<1>2. /\ pos[f] \in Nat /\ capacity[f] \in Nat \ {0} /\ Len(file[f]) \in Nat /\ prefetched[f] \in Seq(Nat)
      /\ At(f) \in Nat /\ Len(rest[f]) \in Nat
  BY ReadTypes DEF Typed, Buffers
<1>3. block \in Seq(Nat) /\ Len(block) \in Nat
  <2>1. block \in Seq(Nat)
    BY <1>2, BytesOfFile, EmptyBuffer
  <2> HIDE DEF block
  <2> QED
    BY <2>1, LenProperties
<1>4. /\ pos' \in [Streams -> Nat] /\ pos'[f] = pos[f] + Len(block)
      /\ prefetch_buf' \in Buffers /\ prefetch_buf'[f] = block
      /\ prefetcher' \in [Streams -> Seq(Int)] /\ prefetcher'[f] = <<>>
      /\ prefetched' \in Buffers /\ prefetched'[f] = Append(prefetched[f], Len(block))
      /\ \A p \in Streams : p # f =>
           /\ pos'[p] = pos[p] /\ prefetch_buf'[p] = prefetch_buf[p]
           /\ prefetcher'[p] = prefetcher[p] /\ prefetched'[p] = prefetched[p]
  <2> HIDE DEF block
  <2>1. pos[f] + Len(block) \in Nat
    BY <1>2, <1>3
  <2>2. Append(prefetched[f], Len(block)) \in Seq(Nat)
    BY <1>2, <1>3, AppendProperties
  <2>3. <<>> \in Seq(Int)
    OBVIOUS
  <2> QED
    BY <1>1, <1>3, <2>1, <2>2, <2>3 DEF Typed, Buffers
<1>5. Typed'
  BY <1>1, <1>4 DEF Typed
<1>6. WriteInv'
  <2>1. CallsOfMode' /\ StartsARound'
    BY <1>1 DEF CallsOfMode, StartsARound, Round
  <2>2. FlushedParts'
    BY <1>1 DEF FlushedParts, OnDisk
  <2>3. ASSUME NEW p \in Streams PROVE TokenKept(p)' /\ Content(p)'
    <3>1. TokenKept(p)'
      BY <1>1 DEF TokenKept, Swapping
    <3>2. Stored(p)' = Stored(p)
      BY <1>1 DEF Stored
    <3> QED
      BY <1>1, <3>1, <3>2, ContentKept
  <2> QED
    BY <1>5, <2>1, <2>2, <2>3
<1>7. ASSUME mode = "reading" PROVE ReadInv'
  <2>1. PartCall /\ \A p \in Streams : Ahead(p) /\ Following(p)
    BY <1>7 DEF ReadInv
  <2>2. ASSUME NEW p \in Streams PROVE At(p)' = At(p)
    BY <1>1 DEF At, InRead
  <2>3. /\ prefetched[f] = <<>> /\ prefetcher[f] \in {<<0>>, <<-1>>}
        /\ prefetcher[f] = <<-1>> => pos[f] = Len(file[f])
    BY <1>1, <2>1 DEF Ahead
  <2>4. pos[f] <= Len(file[f]) /\ At(f) + Len(rest[f]) = pos[f]
    <3>1. Block(f) = <<>> /\ Len(Block(f)) = 0
      BY <2>3, EmptyBuffer DEF Block
    <3>2. pos[f] <= Len(file[f]) /\ At(f) + Len(rest[f]) + Len(Block(f)) = pos[f]
      BY <2>1 DEF Following
    <3> QED
      BY <1>2, <3>1, <3>2
  <2>5. /\ Len(block) <= capacity[f] /\ pos[f] + Len(block) <= Len(file[f])
        /\ Len(block) < capacity[f] => pos[f] + Len(block) = Len(file[f])
        /\ \A j \in 1 .. Len(block) : block[j] = file[f][pos[f] + j]
    <3>1. CASE prefetcher[f] = <<0>>
      <4>1. block = Bytes(f, pos[f], capacity[f])
        BY <3>1
      <4> HIDE DEF block
      <4>2. /\ Len(block) <= capacity[f] /\ pos[f] + Len(block) <= Len(file[f])
            /\ Len(block) < capacity[f] => pos[f] + Len(block) = Len(file[f])
        BY <1>2, <2>4, <4>1, BytesOfFile
      <4>3. \A j \in 1 .. Len(block) : block[j] = file[f][pos[f] + j]
        <5>1. Typed /\ pos[f] \in Nat /\ capacity[f] \in Nat
          BY <1>2
        <5> QED
          BY <4>1, <5>1, BytesOfFile
      <4> QED
        BY <4>2, <4>3
    <3>2. CASE prefetcher[f] = <<-1>>
      <4>1. Len(block) = 0
        BY <3>2, EmptyBuffer
      <4> HIDE DEF block
      <4> QED
        BY <1>2, <2>3, <3>2, <4>1
    <3> QED
      BY <2>3, <3>1, <3>2
  <2> HIDE DEF block
  <2>6. Ahead(f)'
    <3>1. prefetched'[f] = <<Len(prefetch_buf'[f])>>
      BY <1>4, <2>3
    <3>2. prefetcher'[f] # <<-1>>
      BY <1>4
    <3> QED
      BY <1>1, <1>4, <2>5, <3>1, <3>2 DEF Ahead
  <2>7. Following(f)'
    <3>1. Block(f)' = block
      BY <1>3, <1>4, <2>3 DEF Block
    <3>2. At(f)' + Len(rest'[f]) = pos[f]
      BY <1>1, <2>2, <2>4
    <3>3. \A j \in 1 .. Len(rest[f]) : rest[f][j] = file[f][At(f) + j]
      BY <2>1 DEF Following
    <3> QED
      BY <1>1, <1>4, <2>2, <2>5, <3>1, <3>2, <3>3 DEF Following
  <2>8. ASSUME NEW p \in Streams PROVE Ahead(p)' /\ Following(p)'
    <3>1. CASE p # f
      BY <1>1, <1>4, <2>1, <2>2, <3>1, PartAlone
    <3> QED
      BY <2>6, <2>7, <3>1
  <2>9. PartCall'
    <3>1. At(cur)' = At(cur)
      BY <1>1 DEF At, InRead
    <3> QED
      BY <1>1, <2>1, <3>1 DEF PartCall, At, InRead
  <2> QED
    BY <1>1, <1>7, <2>8, <2>9 DEF ReadInv
<1>8. ReadInv'
  BY <1>1, <1>7 DEF ReadInv
<1> QED
  BY <1>6, <1>8

(***************************************************************************)
(* The invariant, and what follows from it.                                *)
(***************************************************************************)
\* A file in which nothing is being read.
LEMMA NotRead ==
  ASSUME WriteInv', mode' # "reading"
  PROVE  Inv'
BY DEF Inv, ReadInv

LEMMA InvInit == Init => Inv
<1> SUFFICES ASSUME Init PROVE Inv
  OBVIOUS
<1>1. mode # "reading"
  BY DEF Init
<1> QED
  BY <1>1, WriteInit DEF Inv, ReadInv

LEMMA CallStepKeeps ==
  ASSUME Inv, CallStep, UNCHANGED disk
  PROVE  Inv'
<1>1. WriteInv /\ mode' = mode
  BY DEF Inv, disk
<1> DEFINE OutStep == SwapOut \/ PushOut \/ WriteDirect \/ CopyIn \/ Flushed
<1>2. CASE OutStep
  <2>1. swapped \/ call \in {"write", "flush"}
    BY <1>2 DEF SwapOut, MustPush, PushOut, WriteDirect, CopyIn, Flushed
  <2>2. mode' # "reading"
    BY <1>1, <2>1, NotReading
  <2>3. WriteInv'
    BY <1>1, <1>2, SwapOutKeeps, PushOutKeeps, WriteDirectKeeps, CopyInKeeps, FlushedKeeps
  <2> QED
    BY <2>2, <2>3, NotRead
<1>3. CASE CopyOut
  BY <1>3, CopyOutKeeps
<1>4. CASE EndOfFile
  BY <1>4, EndOfFileKeeps
<1>5. CASE NextBlock
  <2>1. want <= capacity[cur] \/ want > capacity[cur]
    BY ReadTypes DEF Inv, WriteInv, Typed
  <2> QED
    BY <1>5, <2>1, NextBlockKeeps, LargeBlockKeeps
<1>6. CASE ReadDone
  BY <1>6, ReadDoneKeeps
<1> QED
  BY <1>2, <1>3, <1>4, <1>5, <1>6 DEF CallStep

LEMMA InvStutters == Inv /\ UNCHANGED vars => Inv'
<1> SUFFICES ASSUME Inv, UNCHANGED vars PROVE Inv'
  OBVIOUS
<1>1. /\ UNCHANGED <<file, buf_size, capacity, buf, writing_buf, writer, write_token, pos, rest,
                     prefetch_buf, prefetcher, prefetched, call, cur, swapped, data, want, got>>
      /\ UNCHANGED <<mode, left, size, off, total, asked, result>>
  BY DEF vars, streams, disk, sizes, outs, ins, args
<1>2. WriteInv'
  <2>1. Typed' /\ CallsOfMode' /\ StartsARound'
    BY <1>1 DEF Inv, WriteInv, Typed, CallsOfMode, StartsARound, Round
  <2>2. FlushedParts'
    BY <1>1 DEF Inv, WriteInv, FlushedParts, OnDisk
  <2>3. ASSUME NEW p \in Streams PROVE TokenKept(p)' /\ Content(p)'
    <3>1. TokenKept(p)'
      BY <1>1 DEF Inv, WriteInv, TokenKept, Swapping
    <3>2. Stored(p)' = Stored(p)
      BY <1>1 DEF Stored
    <3> QED
      BY <1>1, <3>1, <3>2, ContentKept DEF Inv, WriteInv
  <2> QED
    BY <2>1, <2>2, <2>3 DEF WriteInv
<1>3. ReadInv'
  <2>1. ASSUME mode = "reading", NEW p \in Streams PROVE Ahead(p)' /\ Following(p)'
    <3>1. At(p)' = At(p)
      BY <1>1 DEF At, InRead
    <3> QED
      BY <1>1, <2>1, <3>1, PartAlone DEF Inv, ReadInv
  <2>2. At(cur)' = At(cur)
    BY <1>1 DEF At, InRead
  <2>3. PartCall => PartCall'
    BY <1>1, <2>2 DEF PartCall
  <2> QED
    BY <1>1, <2>1, <2>3 DEF Inv, ReadInv
<1> QED
  BY <1>2, <1>3 DEF Inv

LEMMA InvStep == Inv /\ ~AppendAnywhere /\ [Next]_vars => Inv'
<1> SUFFICES ASSUME Inv, ~AppendAnywhere, [Next]_vars PROVE Inv'
  OBVIOUS
<1>1. WriteInv
  BY DEF Inv
<1>2. CASE Write \/ Close \/ Closed
  <2>1. mode' # "reading"
    BY <1>2 DEF Write, Close, Closed
  <2> QED
    BY <1>1, <1>2, <2>1, BeginKeeps, NotRead
<1>3. CASE WritePart
  <2>1. mode' # "reading"
    BY <1>3 DEF WritePart
  <2> QED
    BY <1>1, <1>3, <2>1, WritePartKeeps, NotRead
<1>4. CASE ClosePart
  <2>1. mode' # "reading"
    BY <1>4 DEF ClosePart
  <2> QED
    BY <1>1, <1>4, <2>1, ClosePartKeeps, NotRead
<1>5. CASE OpenForAppend
  <2>1. mode' # "reading"
    BY <1>5 DEF OpenForAppend
  <2> QED
    BY <1>1, <1>5, <2>1, OpenForAppendKeeps, NotRead
<1>6. CASE OpenForRead
  BY <1>6, OpenForReadKeeps
<1>7. CASE Seek
  BY <1>7, SeekKeeps
<1>8. CASE Read
  BY <1>8, ReadKeeps
<1>9. CASE ReadPart
  BY <1>9, ReadPartKeeps
<1>10. CASE PartRead
  BY <1>10, PartReadKeeps
<1>11. CASE CallStep /\ UNCHANGED disk
  BY <1>11, CallStepKeeps
<1>12. ASSUME NEW f \in Streams, ThreadStep(f), UNCHANGED disk PROVE Inv'
  <2>1. CASE WriteBufferToFile(f)
    <3>1. WriteInv' /\ mode' # "reading"
      BY <1>1, <1>12, <2>1, WriterKeeps DEF disk
    <3> QED
      BY <3>1, NotRead
  <2>2. CASE PrefetchBlock(f)
    BY <1>12, <2>2, PrefetchKeeps
  <2> QED
    BY <1>12, <2>1, <2>2 DEF ThreadStep
<1>13. CASE UNCHANGED vars
  BY <1>13, InvStutters
<1> QED
  BY <1>2, <1>3, <1>4, <1>5, <1>6, <1>7, <1>8, <1>9, <1>10, <1>11, <1>12, <1>13 DEF Next, DiskStep

\* The numbering of the bytes of a part keeps their order, and takes all of them.
LEMMA LaterInFile ==
  ASSUME NEW p \in Streams, NEW i \in Nat, NEW j \in Nat, i < j
  PROVE  OffsetOf(p, i) < OffsetOf(p, j)
<1>1. /\ OffsetOf(p, i) \in Nat /\ Held(p, OffsetOf(p, i)) = i
      /\ OffsetOf(p, j) \in Nat /\ Held(p, OffsetOf(p, j)) = j
  BY HeldOfOffset
<1>2. ASSUME OffsetOf(p, j) <= OffsetOf(p, i) PROVE FALSE
  <2>1. Held(p, OffsetOf(p, j)) <= Held(p, OffsetOf(p, i))
    BY <1>1, <1>2, HeldGrows
  <2> QED
    BY <1>1, <2>1
<1> QED
  BY <1>1, <1>2

\* A byte is at its place in its part.
LEMMA ByteOfPart ==
  ASSUME NEW o \in Nat, NEW p \in Streams, PartOf(o) = p
  PROVE  OffsetOf(p, Held(p, o)) = o /\ Held(p, o + 1) = Held(p, o) + 1 /\ Held(p, o) \in Nat
<1>1. RoomAt(o) \in 1 .. Chunk /\ Chunk \in Nat /\ Held(p, o) \in Nat
  BY HeldTypes, PartNumbers
<1>2. 0 \in 0 .. RoomAt(o) - 1 /\ 1 \in 1 .. RoomAt(o)
  BY <1>1
<1>3. OffsetOf(p, Held(p, o) + 0) = o + 0
  BY <1>2, OffsetOfHeld
<1>4. Held(p, o + 1) = Held(p, o) + 1
  BY <1>2, HeldMore
<1> QED
  BY <1>1, <1>3, <1>4

LEMMA InOrder == Inv => PartsInOrder
<1> SUFFICES ASSUME Inv, NEW p \in Streams
             PROVE  /\ \A i, j \in 1 .. Len(Stored(p)) : i < j => Stored(p)[i] < Stored(p)[j]
                    /\ {Stored(p)[i] : i \in 1 .. Len(Stored(p))} =
                         {k \in 1 .. total : PartOf(k - 1) = p}
  BY DEF PartsInOrder
<1> DEFINE stored == Stored(p)
<1>1. /\ Len(stored) = Held(p, total) /\ total \in Nat /\ Len(stored) \in Nat
      /\ \A j \in 1 .. Len(stored) : stored[j] = OffsetOf(p, j - 1) + 1
  <2>1. Content(p) /\ total \in Nat
    BY DEF Inv, WriteInv, Typed
  <2>2. Held(p, total) \in Nat
    BY <2>1, HeldTypes
  <2> QED
    BY <2>1, <2>2 DEF Content
<1> HIDE DEF stored
<1>2. ASSUME NEW i \in 1 .. Len(stored), NEW j \in 1 .. Len(stored), i < j
      PROVE  stored[i] < stored[j]
  <2>1. i - 1 \in Nat /\ j - 1 \in Nat /\ i - 1 < j - 1
    BY <1>1, <1>2
  <2>2. OffsetOf(p, i - 1) \in Nat /\ OffsetOf(p, j - 1) \in Nat
    BY <2>1, HeldOfOffset
  <2>3. OffsetOf(p, i - 1) < OffsetOf(p, j - 1)
    BY <2>1, LaterInFile
  <2>4. stored[i] = OffsetOf(p, i - 1) + 1 /\ stored[j] = OffsetOf(p, j - 1) + 1
    BY <1>1
  <2> QED
    BY <2>2, <2>3, <2>4
<1>3. ASSUME NEW i \in 1 .. Len(stored)
      PROVE  stored[i] \in 1 .. total /\ PartOf(stored[i] - 1) = p
  <2> DEFINE o == OffsetOf(p, i - 1)
  <2>1. i - 1 \in Nat
    BY <1>1
  <2>2. o \in Nat /\ PartOf(o) = p /\ Held(p, o) = i - 1
    BY <2>1, HeldOfOffset
  <2>3. stored[i] = o + 1
    BY <1>1
  <2> HIDE DEF o
  <2>4. ~(total <= o)
    <3>1. ASSUME total <= o PROVE FALSE
      <4>1. Held(p, total) <= Held(p, o)
        BY <1>1, <2>2, <3>1, HeldGrows
      <4> QED
        BY <1>1, <2>2, <4>1
    <3> QED
      BY <3>1
  <2>5. (o + 1) - 1 = o
    BY <2>2
  <2> QED
    BY <1>1, <2>2, <2>3, <2>4, <2>5
<1>4. ASSUME NEW k \in 1 .. total, PartOf(k - 1) = p
      PROVE  \E i \in 1 .. Len(stored) : stored[i] = k
  <2> DEFINE o == k - 1
             i == Held(p, o) + 1
  <2>1. o \in Nat /\ o + 1 = k /\ o + 1 <= total
    BY <1>1
  <2>2. OffsetOf(p, Held(p, o)) = o /\ Held(p, o + 1) = Held(p, o) + 1 /\ Held(p, o) \in Nat
    BY <1>4, <2>1, ByteOfPart
  <2> HIDE DEF o
  <2>3. Held(p, o + 1) <= Held(p, total)
    BY <1>1, <2>1, HeldGrows
  <2>4. i \in 1 .. Len(stored) /\ i - 1 = Held(p, o)
    BY <1>1, <2>2, <2>3
  <2> HIDE DEF i
  <2>5. stored[i] = OffsetOf(p, i - 1) + 1
    BY <1>1, <2>4
  <2> QED
    BY <2>1, <2>2, <2>4, <2>5
<1>5. {stored[i] : i \in 1 .. Len(stored)} = {k \in 1 .. total : PartOf(k - 1) = p}
  BY <1>3, <1>4
<1> QED
  BY <1>2, <1>5 DEF stored

LEMMA ReadBack == Inv => RoundTrip
<1> SUFFICES ASSUME Inv, mode = "reading"
             PROVE  /\ \A k \in DOMAIN result : result[k] = off - Len(result) + k
                    /\ Idle => Len(result) = asked
  BY DEF RoundTrip
<1>1. /\ left + Len(result) = asked
      /\ \A k \in 1 .. Len(result) : result[k] = off - Len(result) + k
  BY DEF Inv, ReadInv
<1>2. result \in Seq(Nat) /\ Len(result) \in Nat /\ DOMAIN result = 1 .. Len(result)
  <2>1. result \in Seq(Nat)
    BY DEF Inv, WriteInv, Typed
  <2> QED
    BY <2>1, LenProperties
<1>3. left = 0 => Len(result) = asked
  BY <1>1, <1>2
<1> QED
  BY <1>1, <1>2, <1>3 DEF Idle

\* Whatever the number of parts and the sizes of chunks, buffers and calls, the
\* steps keep the invariant, if files are only opened for append where a round of
\* chunks has ended (OutputMultiDiskStream counts size_ from there).
THEOREM Invariant ==
  ASSUME ~AppendAnywhere
  PROVE  Spec => []Inv
<1>1. Inv /\ [Next]_vars => Inv'
  BY InvStep
<1> QED
  BY <1>1, InvInit, PTL DEF Spec

\* The variables keep their types: no buffer, token, offset or count of
\* ThreadedOutputStreamBuffer, PrefetchingtStreamBuffer and the multi-disk
\* streams leaves its range, and the calls are those the stream makes.
THEOREM TypeCorrect ==
  ASSUME ~AppendAnywhere
  PROVE  Spec => [](Typed /\ CallsOfMode)
<1>1. Inv => Typed /\ CallsOfMode
  BY DEF Inv, WriteInv
<1> QED
  BY <1>1, Invariant, PTL

\* What Write was given is never reordered, duplicated or lost between the file
\* of a part, the buffer its writer thread has, the buffer being filled and the
\* call under way: OutputMultiDiskStream::Write on ThreadedOutputStreamBuffers.
THEOREM PartsCorrect ==
  ASSUME ~AppendAnywhere
  PROVE  Spec => []PartsInOrder
BY Invariant, InOrder, PTL

\* InputMultiDiskStream::Read returns what Write was given, at the offset the
\* reader is at, also after Seek, and a Read that returns has read all it was
\* asked for: a part is never short of bytes before the end of the file.
THEOREM RoundTripCorrect ==
  ASSUME ~AppendAnywhere
  PROVE  Spec => []RoundTrip
BY Invariant, ReadBack, PTL

\* InputMultiDiskStream::Read never ends with the error of a short read: when a
\* part returns less than it was asked for, it is the end of the file.
THEOREM NoReadIsShort ==
  ASSUME ~AppendAnywhere
  PROVE  Spec => [][PartRead => left' = left - Len(got)]_vars
<1>1. Inv => [PartRead => left' = left - Len(got)]_vars
  BY PartReadKeeps
<1> QED
  BY <1>1, Invariant, PTL DEF Spec

=============================================================================
