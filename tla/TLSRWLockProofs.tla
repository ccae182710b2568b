--------------------------- MODULE TLSRWLockProofs ---------------------------
(***************************************************************************)
(* Proofs about TLSRWLock for any number of threads and any nesting of     *)
(* locks: its types, that a writer excludes everybody else, that the       *)
(* counters are what the threads hold, and that writers come first.        *)
(***************************************************************************)
EXTENDS TLSRWLock, FiniteSetTheorems, TLAPS

Calling(t) == pc[t] \in ReadPcs \cup WritePcs

\* The caller's bound, which keeps Announcements wide enough.
Bounded ==
  \A t \in Tids : /\ reads[t] + writes[t] <= MaxDepth
                  /\ Calling(t) => reads[t] + writes[t] < MaxDepth

\* CountersAgree, part by part.
ReadersCounted == \A t \in Tids : reader_locks[t] = ReadShare(t)
WritersCounted == n_writers = Cardinality(Announcements)
WriterKnown ==
  /\ \A t \in Tids : writes[t] > 0 <=> curr_writer = t
  /\ curr_writer # NoWriter => write_reentry_level = writes[curr_writer]
  /\ curr_writer = NoWriter => write_reentry_level = 0

\* Only one thread at a time is first among the writers, and it is new to it.
OneOwner ==
  /\ \A t, u \in Tids : Owner(t) /\ Owner(u) => t = u
  /\ \A t \in Tids : pc[t] \in {"w_scan", "w_rollback", "w_own"} => writes[t] = 0

\* The owner has seen that the threads behind its scan read nothing, and they
\* cannot start while it is the owner.
Excluded ==
  \A t, u \in Tids : t # u =>
    /\ pc[t] = "w_scan" /\ u < scan[t] => reads[u] = 0
    /\ pc[t] = "w_own" \/ writes[t] > 0 => reads[u] = 0

Inv ==
  /\ TypeOK /\ Bounded /\ ReadersCounted /\ WritersCounted /\ WriterKnown
  /\ OneOwner /\ Excluded

\* A number below the next one is below this one or equal to it.
LEMMA BelowNext == \A u, n \in Nat : u < n + 1 => u < n \/ u = n
  OBVIOUS

(***************************************************************************)
(* Counting the announcements.                                             *)
(***************************************************************************)
LEMMA AnnouncementsFinite ==
  /\ IsFiniteSet(Announcements)
  /\ IsFiniteSet(Announcements')
<1>1. IsFiniteSet(Tids) /\ IsFiniteSet(1 .. MaxDepth + 1)
  BY LockAssumption, FS_Interval DEF Tids
<1>2. IsFiniteSet(Tids \X (1 .. MaxDepth + 1))
  BY <1>1, FS_Product
<1>3. /\ Announcements \in SUBSET (Tids \X (1 .. MaxDepth + 1))
      /\ Announcements' \in SUBSET (Tids \X (1 .. MaxDepth + 1))
  BY DEF Announcements
<1> QED
  BY <1>2, <1>3, FS_Subset

LEMMA ShareType ==
  ASSUME TypeOK, Bounded
  PROVE  \A t \in Tids : WriteShare(t) \in 0 .. MaxDepth + 1
BY LockAssumption DEF TypeOK, Bounded, WriteShare

\* One more announcement of t.
LEMMA Announced ==
  ASSUME TypeOK, Bounded, WritersCounted,
         NEW t \in Tids,
         \A u \in Tids \ {t} : WriteShare(u)' = WriteShare(u),
         WriteShare(t)' = WriteShare(t) + 1,
         WriteShare(t)' <= MaxDepth + 1,
         n_writers' = n_writers + 1
  PROVE  WritersCounted'
<1> DEFINE a == <<t, WriteShare(t) + 1>>
<1>1. \A u \in Tids : WriteShare(u) \in 0 .. MaxDepth + 1
  BY ShareType
<1>2. Announcements' = Announcements \cup {a}
  <2>1. ASSUME NEW b \in Announcements'
        PROVE  b \in Announcements \cup {a}
    <3>1. PICK u \in Tids, i \in 1 .. MaxDepth + 1 : b = <<u, i>> /\ i <= WriteShare(u)'
      BY DEF Announcements
    <3>2. CASE u = t
      BY <1>1, <3>1, <3>2 DEF Announcements
    <3>3. CASE u # t
      BY <1>1, <3>1, <3>3 DEF Announcements
    <3> QED
      BY <3>2, <3>3
  <2>2. ASSUME NEW b \in Announcements
        PROVE  b \in Announcements'
    <3>1. PICK u \in Tids, i \in 1 .. MaxDepth + 1 : b = <<u, i>> /\ i <= WriteShare(u)
      BY DEF Announcements
    <3>2. i <= WriteShare(u)'
      BY <1>1, <3>1
    <3> QED
      BY <3>1, <3>2 DEF Announcements
  <2>3. a \in Announcements'
    BY <1>1, LockAssumption DEF Announcements
  <2> QED
    BY <2>1, <2>2, <2>3
<1>3. a \notin Announcements
  BY <1>1 DEF Announcements
<1> QED
  BY <1>2, <1>3, AnnouncementsFinite, FS_AddElement DEF WritersCounted

\* One announcement of t less.
LEMMA Withdrawn ==
  ASSUME TypeOK, Bounded, WritersCounted,
         NEW t \in Tids,
         \A u \in Tids \ {t} : WriteShare(u)' = WriteShare(u),
         WriteShare(t)' = WriteShare(t) - 1,
         WriteShare(t) > 0,
         n_writers' = n_writers - 1
  PROVE  WritersCounted'
<1> DEFINE a == <<t, WriteShare(t)>>
<1>1. \A u \in Tids : WriteShare(u) \in 0 .. MaxDepth + 1
  BY ShareType
<1>2. Announcements = Announcements' \cup {a}
  <2>1. ASSUME NEW b \in Announcements
        PROVE  b \in Announcements' \cup {a}
    <3>1. PICK u \in Tids, i \in 1 .. MaxDepth + 1 : b = <<u, i>> /\ i <= WriteShare(u)
      BY DEF Announcements
    <3>2. CASE u = t
      BY <1>1, <3>1, <3>2 DEF Announcements
    <3>3. CASE u # t
      BY <1>1, <3>1, <3>3 DEF Announcements
    <3> QED
      BY <3>2, <3>3
  <2>2. ASSUME NEW b \in Announcements'
        PROVE  b \in Announcements
    <3>1. PICK u \in Tids, i \in 1 .. MaxDepth + 1 : b = <<u, i>> /\ i <= WriteShare(u)'
      BY DEF Announcements
    <3>2. i <= WriteShare(u)
      BY <1>1, <3>1
    <3> QED
      BY <3>1, <3>2 DEF Announcements
  <2>3. a \in Announcements
    BY <1>1, LockAssumption DEF Announcements
  <2> QED
    BY <2>1, <2>2, <2>3
<1>3. a \notin Announcements'
  BY <1>1 DEF Announcements
<1>4. Cardinality(Announcements) = Cardinality(Announcements') + 1
  BY <1>2, <1>3, AnnouncementsFinite, FS_AddElement
<1>5. Cardinality(Announcements') \in Nat
  BY AnnouncementsFinite, FS_CardinalityType
<1> QED
  BY <1>4, <1>5 DEF WritersCounted

LEMMA SameAnnouncements ==
  ASSUME WritersCounted, n_writers' = n_writers,
         \A u \in Tids : WriteShare(u)' = WriteShare(u)
  PROVE  WritersCounted'
<1>1. Announcements' = Announcements
  BY DEF Announcements
<1> QED
  BY <1>1 DEF WritersCounted

\* While n_writers is zero nobody owns the lock.
LEMMA NoWritersNoOwner ==
  ASSUME TypeOK, Bounded, WritersCounted, n_writers = 0
  PROVE  \A t \in Tids : WriteShare(t) = 0 /\ ~Owner(t)
<1>1. Announcements = {}
  BY AnnouncementsFinite, FS_EmptySet DEF WritersCounted
<1>2. ASSUME NEW t \in Tids
      PROVE  WriteShare(t) = 0 /\ ~Owner(t)
  <2>1. WriteShare(t) \in 0 .. MaxDepth + 1
    BY ShareType
  <2>2. <<t, 1>> \notin Announcements
    BY <1>1
  <2>3. WriteShare(t) = 0
    BY <2>1, <2>2, LockAssumption DEF Announcements
  <2> QED
    BY <2>3 DEF TypeOK, WriteShare, Owner
<1> QED
  BY <1>2

(***************************************************************************)
(* The invariant is inductive.                                             *)
(***************************************************************************)
LEMMA InvInit == Init => Inv
<1> SUFFICES ASSUME Init PROVE Inv
  OBVIOUS
<1>1. TypeOK /\ Bounded /\ ReadersCounted /\ WriterKnown /\ OneOwner /\ Excluded
  BY LockAssumption DEF Init, TypeOK, Bounded, Calling, ReadersCounted, ReadShare, WriterKnown,
     OneOwner, Owner, Excluded, ReadPcs, WritePcs, Tids, NoWriter
<1>2. Announcements = {}
  BY DEF Init, Announcements, WriteShare
<1> QED
  BY <1>1, <1>2, FS_EmptySet DEF Init, Inv, WritersCounted

(***************************************************************************)
(* Steps that leave the owner, or what it excludes, as they were.          *)
(***************************************************************************)
OwnerPcs == {"w_scan", "w_rollback", "w_own", "w_release"}

LEMMA SameOwners ==
  ASSUME WriterKnown, OneOwner,
         UNCHANGED <<curr_writer, write_reentry_level, writes>>,
         \A u \in Tids : pc'[u] \in OwnerPcs => pc'[u] = pc[u]
  PROVE  WriterKnown' /\ OneOwner'
<1>1. \A u \in Tids : Owner(u)' => Owner(u)
  BY DEF Owner, OwnerPcs
<1>2. OneOwner'
  BY <1>1 DEF OneOwner, OwnerPcs
<1> QED
  BY <1>2 DEF WriterKnown

LEMMA StillExcluded ==
  ASSUME Excluded, writes' = writes, scan' = scan,
         \A u \in Tids : pc'[u] \in OwnerPcs => pc'[u] = pc[u],
         \A u \in Tids : reads[u] = 0 => reads'[u] = 0
  PROVE  Excluded'
BY DEF Excluded, OwnerPcs

\* A thread may be granted a read lock when nobody else is the owner.
LEMMA ReaderAdmitted ==
  ASSUME Excluded, NEW t \in Tids,
         \A u \in Tids \ {t} : ~Owner(u),
         writes' = writes, scan' = scan,
         \A u \in Tids : pc'[u] \in OwnerPcs => pc'[u] = pc[u],
         \A u \in Tids \ {t} : reads'[u] = reads[u]
  PROVE  Excluded'
BY DEF Excluded, OwnerPcs, Owner

LEMMA InvStep == Inv /\ [Next]_vars => Inv'
<1> SUFFICES ASSUME Inv, [Next]_vars PROVE Inv'
  OBVIOUS
<1> USE LockAssumption DEF Inv, Goto, Add, OneLess, vars, atomics, held
<1>1. ASSUME NEW t \in Tids, CallReadLock(t)
      PROVE  Inv'
  <2>1. TypeOK' /\ Bounded'
    BY <1>1 DEF CallReadLock, MayLock, TypeOK, Bounded, Calling, ReadPcs, WritePcs
  <2>2. ReadersCounted'
    BY <1>1 DEF CallReadLock, MayLock, TypeOK, ReadersCounted, ReadShare
  <2>3. WritersCounted'
    <3>1. \A u \in Tids : WriteShare(u)' = WriteShare(u)
      BY <1>1 DEF CallReadLock, MayLock, TypeOK, WriteShare
    <3> QED
      BY <1>1, <3>1, SameAnnouncements DEF CallReadLock, MayLock
  <2>4. WriterKnown' /\ OneOwner'
    BY <1>1, SameOwners DEF CallReadLock, MayLock, TypeOK, OwnerPcs
  <2>5. Excluded'
    BY <1>1, StillExcluded DEF CallReadLock, MayLock, TypeOK, OwnerPcs
  <2> QED
    BY <2>1, <2>2, <2>3, <2>4, <2>5
<1>2. ASSUME NEW t \in Tids, CallWriteLock(t)
      PROVE  Inv'
  <2>1. TypeOK' /\ Bounded'
    BY <1>2 DEF CallWriteLock, MayLock, TypeOK, Bounded, Calling, ReadPcs, WritePcs
  <2>2. ReadersCounted'
    BY <1>2 DEF CallWriteLock, MayLock, TypeOK, ReadersCounted, ReadShare
  <2>3. WritersCounted'
    <3>1. \A u \in Tids : WriteShare(u)' = WriteShare(u)
      BY <1>2 DEF CallWriteLock, MayLock, TypeOK, WriteShare
    <3> QED
      BY <1>2, <3>1, SameAnnouncements DEF CallWriteLock, MayLock
  <2>4. WriterKnown' /\ OneOwner'
    BY <1>2, SameOwners DEF CallWriteLock, MayLock, TypeOK, OwnerPcs
  <2>5. Excluded'
    BY <1>2, StillExcluded DEF CallWriteLock, MayLock, TypeOK, OwnerPcs
  <2> QED
    BY <2>1, <2>2, <2>3, <2>4, <2>5
<1>3. ASSUME NEW t \in Tids, Leave(t)
      PROVE  Inv'
  <2>1. TypeOK' /\ Bounded'
    BY <1>3 DEF Leave, TypeOK, Bounded, Calling, ReadPcs, WritePcs
  <2>2. ReadersCounted'
    BY <1>3 DEF Leave, TypeOK, ReadersCounted, ReadShare
  <2>3. WritersCounted'
    <3>1. \A u \in Tids : WriteShare(u)' = WriteShare(u)
      BY <1>3 DEF Leave, TypeOK, WriteShare
    <3> QED
      BY <1>3, <3>1, SameAnnouncements DEF Leave
  <2>4. WriterKnown' /\ OneOwner'
    BY <1>3, SameOwners DEF Leave, TypeOK, OwnerPcs
  <2>5. Excluded'
    BY <1>3, StillExcluded DEF Leave, TypeOK, OwnerPcs
  <2> QED
    BY <2>1, <2>2, <2>3, <2>4, <2>5
<1>4. ASSUME NEW t \in Tids, ReadInc(t)
      PROVE  Inv'
  <2>1. TypeOK' /\ Bounded'
    BY <1>4 DEF ReadInc, GrantRead, TypeOK, Bounded, Calling, ReadPcs, WritePcs
  <2>2. ReadersCounted'
    BY <1>4 DEF ReadInc, GrantRead, TypeOK, ReadersCounted, ReadShare
  <2>3. WritersCounted'
    <3>1. \A u \in Tids : WriteShare(u)' = WriteShare(u)
      BY <1>4 DEF ReadInc, GrantRead, TypeOK, WriteShare
    <3> QED
      BY <1>4, <3>1, SameAnnouncements DEF ReadInc, GrantRead
  <2>4. WriterKnown' /\ OneOwner'
    BY <1>4, SameOwners DEF ReadInc, GrantRead, TypeOK, OwnerPcs
  <2>5. Excluded'
    <3>1. \A u \in Tids : reads[u] = 0 => reads'[u] = 0
      BY <1>4 DEF ReadInc, GrantRead, TypeOK, ReadersCounted, ReadShare
    <3> QED
      BY <1>4, <3>1, StillExcluded DEF ReadInc, GrantRead, TypeOK, OwnerPcs
  <2> QED
    BY <2>1, <2>2, <2>3, <2>4, <2>5
<1>5. ASSUME NEW t \in Tids, ReadCheck(t)
      PROVE  Inv'
  <2>1. TypeOK' /\ Bounded'
    BY <1>5 DEF ReadCheck, NoWriters, GrantRead, TypeOK, Bounded, Calling, ReadPcs, WritePcs
  <2>2. ReadersCounted'
    BY <1>5 DEF ReadCheck, NoWriters, GrantRead, TypeOK, ReadersCounted, ReadShare
  <2>3. WritersCounted'
    <3>1. \A u \in Tids : WriteShare(u)' = WriteShare(u)
      BY <1>5 DEF ReadCheck, NoWriters, GrantRead, TypeOK, WriteShare
    <3> QED
      BY <1>5, <3>1, SameAnnouncements DEF ReadCheck, NoWriters, GrantRead
  <2>4. WriterKnown' /\ OneOwner'
    BY <1>5, SameOwners DEF ReadCheck, NoWriters, GrantRead, TypeOK, OwnerPcs
  <2>5. Excluded'
    <3>1. CASE NoWriters
      BY <1>5, <3>1, NoWritersNoOwner, ReaderAdmitted
         DEF ReadCheck, NoWriters, GrantRead, TypeOK, OwnerPcs
    <3>2. CASE ~NoWriters
      BY <1>5, <3>2, StillExcluded DEF ReadCheck, TypeOK, OwnerPcs
    <3> QED
      BY <3>1, <3>2
  <2> QED
    BY <2>1, <2>2, <2>3, <2>4, <2>5
<1>6. ASSUME NEW t \in Tids, ReadSelf(t)
      PROVE  Inv'
  <2>1. TypeOK' /\ Bounded'
    BY <1>6 DEF ReadSelf, GrantRead, TypeOK, Bounded, Calling, ReadPcs, WritePcs
  <2>2. ReadersCounted'
    BY <1>6 DEF ReadSelf, GrantRead, TypeOK, ReadersCounted, ReadShare
  <2>3. WritersCounted'
    <3>1. \A u \in Tids : WriteShare(u)' = WriteShare(u)
      BY <1>6 DEF ReadSelf, GrantRead, TypeOK, WriteShare
    <3> QED
      BY <1>6, <3>1, SameAnnouncements DEF ReadSelf, GrantRead
  <2>4. WriterKnown' /\ OneOwner'
    BY <1>6, SameOwners DEF ReadSelf, GrantRead, TypeOK, OwnerPcs
  <2>5. Excluded'
    <3>1. CASE curr_writer = t
      <4>1. \A u \in Tids \ {t} : ~Owner(u)
        BY <3>1 DEF WriterKnown, OneOwner, Owner
      <4> QED
        BY <1>6, <3>1, <4>1, ReaderAdmitted DEF ReadSelf, GrantRead, TypeOK, OwnerPcs
    <3>2. CASE curr_writer # t
      BY <1>6, <3>2, StillExcluded DEF ReadSelf, TypeOK, OwnerPcs
    <3> QED
      BY <3>1, <3>2
  <2> QED
    BY <2>1, <2>2, <2>3, <2>4, <2>5
<1>7. ASSUME NEW t \in Tids, ReadBackOff(t)
      PROVE  Inv'
  <2>1. TypeOK' /\ Bounded'
    BY <1>7 DEF ReadBackOff, TypeOK, Bounded, Calling, ReadPcs, WritePcs, ReadersCounted, ReadShare
  <2>2. ReadersCounted'
    BY <1>7 DEF ReadBackOff, TypeOK, ReadersCounted, ReadShare
  <2>3. WritersCounted'
    <3>1. \A u \in Tids : WriteShare(u)' = WriteShare(u)
      BY <1>7 DEF ReadBackOff, TypeOK, WriteShare
    <3> QED
      BY <1>7, <3>1, SameAnnouncements DEF ReadBackOff
  <2>4. WriterKnown' /\ OneOwner'
    BY <1>7, SameOwners DEF ReadBackOff, TypeOK, OwnerPcs
  <2>5. Excluded'
    BY <1>7, StillExcluded DEF ReadBackOff, TypeOK, OwnerPcs
  <2> QED
    BY <2>1, <2>2, <2>3, <2>4, <2>5
<1>8. ASSUME NEW t \in Tids, ReadRetry(t)
      PROVE  Inv'
  <2>1. TypeOK' /\ Bounded'
    BY <1>8 DEF ReadRetry, TypeOK, Bounded, Calling, ReadPcs, WritePcs
  <2>2. ReadersCounted'
    BY <1>8 DEF ReadRetry, TypeOK, ReadersCounted, ReadShare
  <2>3. WritersCounted'
    <3>1. \A u \in Tids : WriteShare(u)' = WriteShare(u)
      BY <1>8 DEF ReadRetry, TypeOK, WriteShare
    <3> QED
      BY <1>8, <3>1, SameAnnouncements DEF ReadRetry
  <2>4. WriterKnown' /\ OneOwner'
    BY <1>8, SameOwners DEF ReadRetry, TypeOK, OwnerPcs
  <2>5. Excluded'
    BY <1>8, StillExcluded DEF ReadRetry, TypeOK, OwnerPcs
  <2> QED
    BY <2>1, <2>2, <2>3, <2>4, <2>5
<1>9. ASSUME NEW t \in Tids, ReadInterrupted(t)
      PROVE  Inv'
  <2>1. TypeOK' /\ Bounded'
    BY <1>9 DEF ReadInterrupted, TypeOK, Bounded, Calling, ReadPcs, WritePcs
  <2>2. ReadersCounted'
    BY <1>9 DEF ReadInterrupted, TypeOK, ReadersCounted, ReadShare
  <2>3. WritersCounted'
    <3>1. \A u \in Tids : WriteShare(u)' = WriteShare(u)
      BY <1>9 DEF ReadInterrupted, TypeOK, WriteShare
    <3> QED
      BY <1>9, <3>1, SameAnnouncements DEF ReadInterrupted
  <2>4. WriterKnown' /\ OneOwner'
    BY <1>9, SameOwners DEF ReadInterrupted, TypeOK, OwnerPcs
  <2>5. Excluded'
    BY <1>9, StillExcluded DEF ReadInterrupted, TypeOK, OwnerPcs
  <2> QED
    BY <2>1, <2>2, <2>3, <2>4, <2>5
<1>10. ASSUME NEW t \in Tids, ReadUnlock(t)
      PROVE  Inv'
  <2>1. TypeOK' /\ Bounded'
    BY <1>10 DEF ReadUnlock, TypeOK, Bounded, Calling, ReadPcs, WritePcs, ReadersCounted, ReadShare
  <2>2. ReadersCounted'
    BY <1>10 DEF ReadUnlock, TypeOK, ReadersCounted, ReadShare
  <2>3. WritersCounted'
    <3>1. \A u \in Tids : WriteShare(u)' = WriteShare(u)
      BY <1>10 DEF ReadUnlock, TypeOK, WriteShare
    <3> QED
      BY <1>10, <3>1, SameAnnouncements DEF ReadUnlock
  <2>4. WriterKnown' /\ OneOwner'
    BY <1>10, SameOwners DEF ReadUnlock, TypeOK, OwnerPcs
  <2>5. Excluded'
    <3>1. \A u \in Tids : reads[u] = 0 => reads'[u] = 0
      BY <1>10 DEF ReadUnlock, TypeOK
    <3> QED
      BY <1>10, <3>1, StillExcluded DEF ReadUnlock, TypeOK, OwnerPcs
  <2> QED
    BY <2>1, <2>2, <2>3, <2>4, <2>5
<1>11. ASSUME NEW t \in Tids, WriteInc(t)
      PROVE  Inv'
  <2>1. TypeOK' /\ Bounded'
    BY <1>11 DEF WriteInc, TypeOK, Bounded, Calling, ReadPcs, WritePcs
  <2>2. ReadersCounted'
    BY <1>11 DEF WriteInc, TypeOK, ReadersCounted, ReadShare
  <2>3. WritersCounted'
    <3>1. /\ \A u \in Tids \ {t} : WriteShare(u)' = WriteShare(u)
          /\ WriteShare(t)' = WriteShare(t) + 1
      BY <1>11 DEF WriteInc, TypeOK, WriteShare
    <3>2. WriteShare(t)' <= MaxDepth + 1
      BY <2>1, ShareType, <1>11, <3>1 DEF WriteInc, TypeOK, Bounded, Calling, WritePcs, WriteShare
    <3> QED
      BY <1>11, <3>1, <3>2, Announced DEF WriteInc
  <2>4. WriterKnown' /\ OneOwner'
    <3>1. CASE n_writers = 0
      <4>1. \A u \in Tids : ~Owner(u)
        BY <3>1, NoWritersNoOwner
      <4>2. \A u \in Tids \ {t} : ~Owner(u)'
        BY <1>11, <4>1 DEF WriteInc, TypeOK, Owner
      <4>3. WriterKnown'
        BY <1>11 DEF WriteInc, WriterKnown
      <4>4. \A u \in Tids : writes'[u] = 0
        BY <1>11, <4>1 DEF WriteInc, TypeOK, Owner
      <4> QED
        BY <4>2, <4>3, <4>4 DEF OneOwner
    <3>2. CASE n_writers # 0
      BY <1>11, <3>2, SameOwners DEF WriteInc, TypeOK, OwnerPcs
    <3> QED
      BY <3>1, <3>2
  <2>5. Excluded'
    <3>1. CASE n_writers = 0
      <4>1. \A u \in Tids : ~Owner(u)
        BY <3>1, NoWritersNoOwner
      <4>2. \A u \in Tids \ {t} : pc'[u] \notin OwnerPcs
        BY <1>11, <4>1 DEF WriteInc, TypeOK, Owner, OwnerPcs
      <4>3. \A u \in Tids : writes'[u] = 0
        BY <1>11, <4>1 DEF WriteInc, TypeOK, Owner
      <4>4. pc'[t] = "w_scan" /\ scan'[t] = 0
        BY <1>11, <3>1 DEF WriteInc, TypeOK
      <4>5. \A u \in Tids : ~(u < 0)
        BY DEF Tids
      <4> QED
        BY <4>2, <4>3, <4>4, <4>5 DEF Excluded, OwnerPcs
    <3>2. CASE n_writers # 0
      BY <1>11, <3>2, StillExcluded DEF WriteInc, TypeOK, OwnerPcs
    <3> QED
      BY <3>1, <3>2
  <2> QED
    BY <2>1, <2>2, <2>3, <2>4, <2>5
<1>12. ASSUME NEW t \in Tids, WriteSelf(t)
      PROVE  Inv'
  <2>1. TypeOK' /\ Bounded'
    BY <1>12 DEF WriteSelf, GrantWrite, TypeOK, Bounded, Calling, ReadPcs, WritePcs
  <2>2. ReadersCounted'
    BY <1>12 DEF WriteSelf, GrantWrite, TypeOK, ReadersCounted, ReadShare
  <2>3. WritersCounted'
    <3>1. \A u \in Tids : WriteShare(u)' = WriteShare(u)
      BY <1>12 DEF WriteSelf, GrantWrite, TypeOK, WriteShare
    <3> QED
      BY <1>12, <3>1, SameAnnouncements DEF WriteSelf, GrantWrite
  <2>4. WriterKnown' /\ OneOwner'
    <3>1. CASE curr_writer = t
      <4>1. writes[t] > 0 /\ write_reentry_level = writes[t] /\ t # NoWriter
        BY <3>1 DEF WriterKnown, Tids, NoWriter
      <4>2. /\ writes' = [writes EXCEPT ![t] = @ + 1] /\ pc' = [pc EXCEPT ![t] = "idle"]
            /\ curr_writer' = curr_writer /\ write_reentry_level' = write_reentry_level + 1
        BY <1>12, <3>1 DEF WriteSelf, GrantWrite
      <4>3. WriterKnown'
        BY <3>1, <4>1, <4>2 DEF WriterKnown, TypeOK
      <4>4. \A u \in Tids : Owner(u)' => Owner(u)
        BY <4>1, <4>2 DEF Owner, TypeOK
      <4>5. \A u \in Tids \ {t} : writes'[u] = writes[u] /\ pc'[u] = pc[u]
        BY <4>2 DEF TypeOK
      <4>6. pc'[t] = "idle"
        BY <4>2 DEF TypeOK
      <4> QED
        BY <4>3, <4>4, <4>5, <4>6 DEF OneOwner
    <3>2. CASE curr_writer # t
      BY <1>12, <3>2, SameOwners DEF WriteSelf, TypeOK, OwnerPcs
    <3> QED
      BY <3>1, <3>2
  <2>5. Excluded'
    <3>1. CASE curr_writer = t
      <4>1. writes[t] > 0
        BY <3>1 DEF WriterKnown
      <4>2. /\ writes' = [writes EXCEPT ![t] = @ + 1] /\ pc' = [pc EXCEPT ![t] = "idle"]
            /\ scan' = scan /\ reads' = reads
        BY <1>12, <3>1 DEF WriteSelf, GrantWrite
      <4> QED
        BY <4>1, <4>2 DEF Excluded, TypeOK
    <3>2. CASE curr_writer # t
      BY <1>12, <3>2, StillExcluded DEF WriteSelf, TypeOK, OwnerPcs
    <3> QED
      BY <3>1, <3>2
  <2> QED
    BY <2>1, <2>2, <2>3, <2>4, <2>5
<1>13. ASSUME NEW t \in Tids, WriteBackOff(t)
      PROVE  Inv'
  <2>1. TypeOK' /\ Bounded'
    <3>1. n_writers - 1 \in Nat
      BY <1>13, NoWritersNoOwner DEF WriteBackOff, TypeOK, WriteShare
    <3> QED
      BY <1>13, <3>1 DEF WriteBackOff, TypeOK, Bounded, Calling, ReadPcs, WritePcs
  <2>2. ReadersCounted'
    BY <1>13 DEF WriteBackOff, TypeOK, ReadersCounted, ReadShare
  <2>3. WritersCounted'
    <3>1. /\ \A u \in Tids \ {t} : WriteShare(u)' = WriteShare(u)
          /\ WriteShare(t)' = WriteShare(t) - 1
          /\ WriteShare(t) > 0
      BY <1>13 DEF WriteBackOff, TypeOK, WriteShare
    <3> QED
      BY <1>13, <3>1, Withdrawn DEF WriteBackOff
  <2>4. WriterKnown' /\ OneOwner'
    BY <1>13, SameOwners DEF WriteBackOff, TypeOK, OwnerPcs
  <2>5. Excluded'
    BY <1>13, StillExcluded DEF WriteBackOff, TypeOK, OwnerPcs
  <2> QED
    BY <2>1, <2>2, <2>3, <2>4, <2>5
<1>14. ASSUME NEW t \in Tids, WriteUpgrade(t)
      PROVE  Inv'
  <2>1. TypeOK' /\ Bounded'
    BY <1>14 DEF WriteUpgrade, HoldsRead, TypeOK, Bounded, Calling, ReadPcs, WritePcs
  <2>2. ReadersCounted'
    BY <1>14 DEF WriteUpgrade, HoldsRead, TypeOK, ReadersCounted, ReadShare
  <2>3. WritersCounted'
    <3>1. \A u \in Tids : WriteShare(u)' = WriteShare(u)
      BY <1>14 DEF WriteUpgrade, HoldsRead, TypeOK, WriteShare
    <3> QED
      BY <1>14, <3>1, SameAnnouncements DEF WriteUpgrade, HoldsRead
  <2>4. WriterKnown' /\ OneOwner'
    BY <1>14, SameOwners DEF WriteUpgrade, TypeOK, OwnerPcs
  <2>5. Excluded'
    BY <1>14, StillExcluded DEF WriteUpgrade, HoldsRead, TypeOK, OwnerPcs
  <2> QED
    BY <2>1, <2>2, <2>3, <2>4, <2>5
<1>15. ASSUME NEW t \in Tids, WriteRetry(t)
      PROVE  Inv'
  <2>1. TypeOK' /\ Bounded'
    BY <1>15 DEF WriteRetry, TypeOK, Bounded, Calling, ReadPcs, WritePcs
  <2>2. ReadersCounted'
    BY <1>15 DEF WriteRetry, TypeOK, ReadersCounted, ReadShare
  <2>3. WritersCounted'
    <3>1. \A u \in Tids : WriteShare(u)' = WriteShare(u)
      BY <1>15 DEF WriteRetry, TypeOK, WriteShare
    <3> QED
      BY <1>15, <3>1, SameAnnouncements DEF WriteRetry
  <2>4. WriterKnown' /\ OneOwner'
    BY <1>15, SameOwners DEF WriteRetry, TypeOK, OwnerPcs
  <2>5. Excluded'
    BY <1>15, StillExcluded DEF WriteRetry, TypeOK, OwnerPcs
  <2> QED
    BY <2>1, <2>2, <2>3, <2>4, <2>5
<1>16. ASSUME NEW t \in Tids, WriteInterrupted(t)
      PROVE  Inv'
  <2>1. TypeOK' /\ Bounded'
    BY <1>16 DEF WriteInterrupted, TypeOK, Bounded, Calling, ReadPcs, WritePcs
  <2>2. ReadersCounted'
    BY <1>16 DEF WriteInterrupted, TypeOK, ReadersCounted, ReadShare
  <2>3. WritersCounted'
    <3>1. \A u \in Tids : WriteShare(u)' = WriteShare(u)
      BY <1>16 DEF WriteInterrupted, TypeOK, WriteShare
    <3> QED
      BY <1>16, <3>1, SameAnnouncements DEF WriteInterrupted
  <2>4. WriterKnown' /\ OneOwner'
    BY <1>16, SameOwners DEF WriteInterrupted, TypeOK, OwnerPcs
  <2>5. Excluded'
    BY <1>16, StillExcluded DEF WriteInterrupted, TypeOK, OwnerPcs
  <2> QED
    BY <2>1, <2>2, <2>3, <2>4, <2>5
<1>17. ASSUME NEW t \in Tids, WriteScan(t)
      PROVE  Inv'
  <2>1. TypeOK' /\ Bounded'
    BY <1>17 DEF WriteScan, ScanDone, TypeOK, Bounded, Calling, ReadPcs, WritePcs
  <2>2. ReadersCounted'
    BY <1>17 DEF WriteScan, ScanDone, TypeOK, ReadersCounted, ReadShare
  <2>3. WritersCounted'
    <3>1. \A u \in Tids : WriteShare(u)' = WriteShare(u)
      BY <1>17 DEF WriteScan, ScanDone, TypeOK, WriteShare
    <3> QED
      BY <1>17, <3>1, SameAnnouncements DEF WriteScan, ScanDone
  <2>4. WriterKnown' /\ OneOwner'
    BY <1>17 DEF WriteScan, ScanDone, TypeOK, WriterKnown, OneOwner, Owner
  <2>5. Excluded'
    <3>1. CASE ScanDone(t)
      <4>1. /\ pc[t] = "w_scan" /\ scan[t] = MaxThreads
            /\ pc' = [pc EXCEPT ![t] = "w_own"] /\ scan' = [scan EXCEPT ![t] = 0]
        BY <1>17, <3>1 DEF WriteScan, ScanDone
      <4>2. \A u \in Tids : u < scan[t]
        BY <4>1, LockAssumption DEF Tids
      <4> QED
        BY <1>17, <4>1, <4>2 DEF WriteScan, Excluded, TypeOK
    <3>2. CASE ~ScanDone(t)
      <4>1. /\ pc' = pc /\ scan' = [scan EXCEPT ![t] = @ + 1]
            /\ scan[t] = t \/ reader_locks[scan[t]] = 0
        BY <1>17, <3>2 DEF WriteScan
      <4>2. \A u \in Tids : u < scan[t] + 1 => u < scan[t] \/ u = scan[t]
        <5>1. scan[t] \in Nat
          BY DEF TypeOK
        <5>2. \A u \in Tids : u \in Nat
          BY DEF Tids
        <5> QED
          BY ONLY <5>1, <5>2, BelowNext
      <4>3. scan[t] \in Tids => scan[t] = t \/ reads[scan[t]] = 0
        BY <4>1 DEF ReadersCounted, ReadShare, TypeOK
      <4> QED
        BY <1>17, <4>1, <4>2, <4>3 DEF WriteScan, Excluded, TypeOK
    <3> QED
      BY <3>1, <3>2
  <2> QED
    BY <2>1, <2>2, <2>3, <2>4, <2>5
<1>18. ASSUME NEW t \in Tids, ScanInterrupted(t)
      PROVE  Inv'
  <2>1. TypeOK' /\ Bounded'
    BY <1>18 DEF ScanInterrupted, TypeOK, Bounded, Calling, ReadPcs, WritePcs
  <2>2. ReadersCounted'
    BY <1>18 DEF ScanInterrupted, TypeOK, ReadersCounted, ReadShare
  <2>3. WritersCounted'
    <3>1. \A u \in Tids : WriteShare(u)' = WriteShare(u)
      BY <1>18 DEF ScanInterrupted, TypeOK, WriteShare
    <3> QED
      BY <1>18, <3>1, SameAnnouncements DEF ScanInterrupted
  <2>4. WriterKnown' /\ OneOwner'
    BY <1>18 DEF ScanInterrupted, TypeOK, WriterKnown, OneOwner, Owner
  <2>5. Excluded'
    BY <1>18 DEF ScanInterrupted, TypeOK, Excluded
  <2> QED
    BY <2>1, <2>2, <2>3, <2>4, <2>5
<1>19. ASSUME NEW t \in Tids, WriteRollback(t)
      PROVE  Inv'
  <2>1. TypeOK' /\ Bounded'
    <3>1. n_writers - 1 \in Nat
      BY <1>19, NoWritersNoOwner DEF WriteRollback, TypeOK, WriteShare
    <3> QED
      BY <1>19, <3>1 DEF WriteRollback, RolledBack, TypeOK, Bounded, Calling, ReadPcs, WritePcs
  <2>2. ReadersCounted'
    BY <1>19 DEF WriteRollback, RolledBack, TypeOK, ReadersCounted, ReadShare
  <2>3. WritersCounted'
    <3>1. /\ \A u \in Tids \ {t} : WriteShare(u)' = WriteShare(u)
          /\ WriteShare(t)' = WriteShare(t) - 1
          /\ WriteShare(t) > 0
      BY <1>19 DEF WriteRollback, RolledBack, TypeOK, WriteShare
    <3> QED
      BY <1>19, <3>1, Withdrawn DEF WriteRollback, RolledBack
  <2>4. WriterKnown' /\ OneOwner'
    BY <1>19, SameOwners DEF WriteRollback, RolledBack, TypeOK, OwnerPcs
  <2>5. Excluded'
    BY <1>19, StillExcluded DEF WriteRollback, RolledBack, TypeOK, OwnerPcs
  <2> QED
    BY <2>1, <2>2, <2>3, <2>4, <2>5
<1>20. ASSUME NEW t \in Tids, WriteOwn(t)
      PROVE  Inv'
  <2>1. TypeOK' /\ Bounded'
    BY <1>20 DEF WriteOwn, GrantWrite, TypeOK, Bounded, Calling, ReadPcs, WritePcs
  <2>2. ReadersCounted'
    BY <1>20 DEF WriteOwn, GrantWrite, TypeOK, ReadersCounted, ReadShare
  <2>3. WritersCounted'
    <3>1. \A u \in Tids : WriteShare(u)' = WriteShare(u)
      BY <1>20 DEF WriteOwn, GrantWrite, TypeOK, WriteShare
    <3> QED
      BY <1>20, <3>1, SameAnnouncements DEF WriteOwn, GrantWrite
  <2>4. WriterKnown' /\ OneOwner'
    <3>1. pc[t] = "w_own" /\ writes[t] = 0 /\ \A u \in Tids \ {t} : ~Owner(u)
      BY <1>20 DEF WriteOwn, OneOwner, Owner
    <3>2. \A u \in Tids : writes[u] = 0
      BY <3>1 DEF Owner, TypeOK
    <3>3. curr_writer = NoWriter /\ write_reentry_level = 0
      BY <3>2 DEF WriterKnown, TypeOK
    <3>4. /\ writes' = [writes EXCEPT ![t] = @ + 1] /\ pc' = [pc EXCEPT ![t] = "idle"]
          /\ curr_writer' = t /\ write_reentry_level' = 1
      BY <1>20, <3>3 DEF WriteOwn, GrantWrite
    <3>5. WriterKnown'
      BY <3>2, <3>4 DEF WriterKnown, TypeOK, Tids, NoWriter
    <3>6. \A u \in Tids \ {t} : ~Owner(u)'
      BY <3>1, <3>4 DEF Owner, TypeOK
    <3>7. pc'[t] = "idle"
      BY <3>4 DEF TypeOK
    <3>8. \A u \in Tids \ {t} : pc'[u] = pc[u]
      BY <3>4 DEF TypeOK
    <3>9. OneOwner'
      BY <3>1, <3>6, <3>7, <3>8 DEF OneOwner, Owner
    <3> QED
      BY <3>5, <3>9
  <2>5. Excluded'
    BY <1>20 DEF WriteOwn, GrantWrite, TypeOK, Excluded
  <2> QED
    BY <2>1, <2>2, <2>3, <2>4, <2>5
<1>21. ASSUME NEW t \in Tids, WriteUnlock(t)
      PROVE  Inv'
  <2>1. TypeOK' /\ Bounded'
    <3>1. write_reentry_level - 1 \in Nat
      BY <1>21 DEF WriteUnlock, TypeOK, WriterKnown, Tids, NoWriter
    <3> QED
      BY <1>21, <3>1 DEF WriteUnlock, LastUnlock, TypeOK, Bounded, Calling, ReadPcs, WritePcs
  <2>2. ReadersCounted'
    BY <1>21 DEF WriteUnlock, LastUnlock, TypeOK, ReadersCounted, ReadShare
  <2>3. WritersCounted'
    <3>1. \A u \in Tids : WriteShare(u)' = WriteShare(u)
      BY <1>21 DEF WriteUnlock, LastUnlock, TypeOK, WriteShare
    <3> QED
      BY <1>21, <3>1, SameAnnouncements DEF WriteUnlock, LastUnlock
  <2>4. WriterKnown' /\ OneOwner'
    <3>1. /\ curr_writer = t /\ write_reentry_level = writes[t] /\ writes[t] > 0
          /\ \A u \in Tids \ {t} : ~Owner(u) /\ writes[u] = 0
      <4>1. writes[t] > 0 /\ curr_writer = t /\ t # NoWriter
        BY <1>21 DEF WriteUnlock, WriterKnown, Tids, NoWriter
      <4>2. \A u \in Tids \ {t} : ~Owner(u)
        BY <4>1 DEF OneOwner, Owner
      <4>3. \A u \in Tids \ {t} : writes[u] = 0
        BY <4>2 DEF Owner, TypeOK
      <4> QED
        BY <4>1, <4>2, <4>3 DEF WriterKnown
    <3>2. /\ writes' = [writes EXCEPT ![t] = @ - 1] /\ pc' = [pc EXCEPT ![t] = "w_release"]
          /\ write_reentry_level' = write_reentry_level - 1
          /\ curr_writer' = IF write_reentry_level = 1 THEN NoWriter ELSE curr_writer
      BY <1>21 DEF WriteUnlock, LastUnlock
    <3>3. /\ writes'[t] = writes[t] - 1 /\ pc'[t] = "w_release"
          /\ \A u \in Tids \ {t} : writes'[u] = writes[u] /\ pc'[u] = pc[u]
      BY <3>2 DEF TypeOK
    <3>4. WriterKnown'
      <4>1. /\ write_reentry_level \in Nat /\ writes[t] \in Nat /\ t \in Nat /\ NoWriter = -1
            /\ \A u \in Tids : u \in Nat
        BY DEF TypeOK, Tids, NoWriter
      <4>2. /\ write_reentry_level = 1 => curr_writer' = NoWriter /\ writes'[t] = 0
            /\ write_reentry_level # 1 => curr_writer' = t /\ writes'[t] > 0
            /\ write_reentry_level' = writes'[t]
        BY <3>1, <3>2, <3>3, <4>1
      <4>3. \A u \in Tids \ {t} : writes'[u] = 0
        BY <3>1, <3>3
      <4> QED
        BY <4>1, <4>2, <4>3 DEF WriterKnown
    <3>5. \A u \in Tids \ {t} : ~Owner(u)'
      BY <3>1, <3>3 DEF Owner
    <3>6. OneOwner'
      BY <3>1, <3>3, <3>5 DEF OneOwner, Owner
    <3> QED
      BY <3>4, <3>6
  <2>5. Excluded'
    BY <1>21 DEF WriteUnlock, TypeOK, Excluded
  <2> QED
    BY <2>1, <2>2, <2>3, <2>4, <2>5
<1>22. ASSUME NEW t \in Tids, WriteRelease(t)
      PROVE  Inv'
  <2>1. TypeOK' /\ Bounded'
    <3>1. n_writers - 1 \in Nat
      BY <1>22, NoWritersNoOwner DEF WriteRelease, TypeOK, WriteShare
    <3> QED
      BY <1>22, <3>1 DEF WriteRelease, TypeOK, Bounded, Calling, ReadPcs, WritePcs
  <2>2. ReadersCounted'
    BY <1>22 DEF WriteRelease, TypeOK, ReadersCounted, ReadShare
  <2>3. WritersCounted'
    <3>1. /\ \A u \in Tids \ {t} : WriteShare(u)' = WriteShare(u)
          /\ WriteShare(t)' = WriteShare(t) - 1
          /\ WriteShare(t) > 0
      BY <1>22 DEF WriteRelease, TypeOK, WriteShare
    <3> QED
      BY <1>22, <3>1, Withdrawn DEF WriteRelease
  <2>4. WriterKnown' /\ OneOwner'
    BY <1>22, SameOwners DEF WriteRelease, TypeOK, OwnerPcs
  <2>5. Excluded'
    BY <1>22, StillExcluded DEF WriteRelease, TypeOK, OwnerPcs
  <2> QED
    BY <2>1, <2>2, <2>3, <2>4, <2>5
<1>23. CASE UNCHANGED vars
  <2>1. WritersCounted'
    BY <1>23, SameAnnouncements DEF WriteShare
  <2> QED
    BY <1>23, <2>1 DEF TypeOK, Bounded, Calling, ReadersCounted, ReadShare, WriterKnown,
       OneOwner, Owner, Excluded
<1> QED
  BY <1>1, <1>2, <1>3, <1>4, <1>5, <1>6, <1>7, <1>8, <1>9, <1>10, <1>11, <1>12, <1>13, <1>14, <1>15, <1>16, <1>17, <1>18, <1>19, <1>20, <1>21, <1>22, <1>23
     DEF Next, ReadStep, WriteStep, Unlock, Interrupted

LEMMA Invariance == Safety => []Inv
BY InvInit, InvStep, PTL DEF Safety

(***************************************************************************)
(* Theorems.                                                               *)
(***************************************************************************)
\* The variables keep their types; in particular no counter ever goes negative,
\* whichever way the lock calls of all threads interleave, fail or are interrupted.
THEOREM TypeCorrect == Safety => []TypeOK
<1>1. Inv => TypeOK
  BY DEF Inv
<1> QED
  BY <1>1, Invariance, PTL

\* While a thread has a write lock no other thread has a lock of either kind.
THEOREM WritersExclude == Safety => []MutualExclusion
<1>1. Inv => MutualExclusion
  <2> SUFFICES ASSUME Inv, NEW t \in Tids, writes[t] > 0, NEW u \in Tids \ {t}
               PROVE  reads[u] = 0 /\ writes[u] = 0
    BY DEF MutualExclusion
  <2>1. reads[u] = 0
    BY DEF Inv, Excluded
  <2>2. ~Owner(u)
    BY DEF Inv, OneOwner, Owner
  <2> QED
    BY <2>1, <2>2 DEF Inv, TypeOK, Owner
<1> QED
  BY <1>1, Invariance, PTL

\* Every counter is what the threads hold plus what their calls have under way.
THEOREM CountersCorrect == Safety => []CountersAgree
<1>1. Inv => CountersAgree
  BY DEF Inv, CountersAgree, ReadersCounted, WritersCounted, WriterKnown
<1> QED
  BY <1>1, Invariance, PTL

\* While a thread is first among the writers nobody else is granted a lock it
\* did not hold.
THEOREM WritersComeFirst == Safety => WritersFirst
<1> DEFINE Granted(t, u) == (reads[u] = 0 => reads'[u] = 0) /\ writes'[u] = 0
<1>1. ASSUME Inv, [Next]_vars, NEW t \in Tids, Owner(t), NEW u \in Tids \ {t}
      PROVE  Granted(t, u)
  <2> USE DEF Goto, Add
  <2>1. ~Owner(u) /\ writes[u] = 0 /\ curr_writer # u
    <3>1. ~Owner(u)
      BY <1>1 DEF Inv, OneOwner
    <3>2. writes[u] = 0
      BY <1>1, <3>1 DEF Inv, TypeOK, Owner
    <3> QED
      BY <1>1, <3>1, <3>2 DEF Inv, WriterKnown
  <2>2. n_writers # 0
    BY <1>1, NoWritersNoOwner DEF Inv
  <2>3. reads \in [Tids -> Nat] /\ writes \in [Tids -> Nat] /\ u \in Tids
    BY <1>1 DEF Inv, TypeOK
  <2>4. CASE UNCHANGED vars
    BY <2>1, <2>4 DEF vars, held
  <2>5. ASSUME NEW v \in Tids, ReadStep(v) PROVE Granted(t, u)
    <3>1. writes' = writes
      BY <2>5 DEF ReadStep, ReadInc, ReadCheck, ReadSelf, ReadBackOff, ReadRetry, GrantRead, held
    <3>2. CASE ReadInc(v)
      <4>1. pc[v] = "r_inc" /\ (reads' = reads \/ (reader_locks[v] > 0 /\ reads' = Add(reads, v, 1)))
        BY <3>2 DEF ReadInc, GrantRead, held
      <4>2. reader_locks[v] = reads[v]
        BY <1>1, <4>1, <2>3 DEF Inv, ReadersCounted, ReadShare
      <4> QED
        BY <2>1, <2>3, <3>1, <4>1, <4>2
    <3>3. CASE ReadCheck(v)
      BY <2>1, <2>2, <3>1, <3>3 DEF ReadCheck, NoWriters, held
    <3>4. CASE ReadSelf(v)
      BY <2>1, <2>3, <3>1, <3>4 DEF ReadSelf, GrantRead, held
    <3>5. CASE ReadBackOff(v) \/ ReadRetry(v)
      BY <2>1, <3>1, <3>5 DEF ReadBackOff, ReadRetry, held
    <3> QED
      BY <2>5, <3>2, <3>3, <3>4, <3>5 DEF ReadStep
  <2>6. ASSUME NEW v \in Tids, WriteStep(v) PROVE Granted(t, u)
    <3>1. CASE WriteSelf(v)
      BY <2>1, <2>3, <3>1 DEF WriteSelf, GrantWrite, held
    <3>2. CASE WriteOwn(v)
      <4>1. v # u
        BY <2>1, <3>2 DEF WriteOwn, Owner
      <4> QED
        BY <2>1, <2>3, <3>2, <4>1 DEF WriteOwn, GrantWrite
    <3>3. CASE \/ WriteInc(v) \/ WriteBackOff(v) \/ WriteUpgrade(v) \/ WriteRetry(v)
               \/ WriteScan(v) \/ WriteRollback(v) \/ WriteRelease(v)
      BY <2>1, <3>3 DEF WriteInc, WriteBackOff, WriteUpgrade, WriteRetry, WriteScan,
         WriteRollback, WriteRelease, held
    <3> QED
      BY <2>6, <3>1, <3>2, <3>3 DEF WriteStep
  <2>7. ASSUME NEW v \in Tids, Unlock(v) PROVE Granted(t, u)
    <3>1. CASE ReadUnlock(v)
      BY <2>1, <2>3, <3>1 DEF ReadUnlock
    <3>2. CASE WriteUnlock(v)
      BY <2>1, <2>3, <3>2 DEF WriteUnlock
    <3> QED
      BY <2>7, <3>1, <3>2 DEF Unlock
  <2>8. ASSUME NEW v \in Tids, CallReadLock(v) \/ CallWriteLock(v) \/ Leave(v) \/ Interrupted(v)
        PROVE  Granted(t, u)
    BY <2>1, <2>8 DEF CallReadLock, CallWriteLock, Leave, Interrupted, ReadInterrupted,
       WriteInterrupted, ScanInterrupted, held
  <2> QED
    BY <1>1, <2>4, <2>5, <2>6, <2>7, <2>8 DEF Next
<1>2. Inv /\ [Next]_vars => [AdmitsNobodyElse]_vars
  BY <1>1 DEF AdmitsNobodyElse
<1> QED
  BY <1>2, Invariance, PTL DEF Safety, WritersFirst
=============================================================================
