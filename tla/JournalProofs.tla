---------------------------- MODULE JournalProofs ----------------------------
(***************************************************************************)
(* Proofs about Journal when one process appends: no row is lost, numbers  *)
(* grow, a rotation that ends leaves each number at one line of one file,  *)
(* and the watcher is done with nothing it has not mailed, for any number  *)
(* of threads, months, rows and kills.                                     *)
(***************************************************************************)
EXTENDS Journal, FiniteSetTheorems, WellFoundedInduction, TLAPS

USE JournalAssumption DEF Thread, Server, Process, Month

-----------------------------------------------------------------------------
(* The inductive invariant.  By typing, a thread is in one of its steps.   *)

Steps == {"idle", "boot", "stamped", "numbered", "marked", "archiving"}
ThreadRow == [pc : Steps, month : Month, current : Month, seq : 0..MaxRows,
              gone : SUBSET Row, keep : Seq(Row)]
Archive1 == [rows : Seq(Row), torn : BOOLEAN]
CacheRow == [size : -1..MaxRows, seq : 0..MaxRows]
WatchRow == [pc : {"off", "looking", "handling"}, at : Nat, lines : Seq(Row), saved : Nat \cup {-1}]

FilesTyped ==
  /\ now \in Month /\ born \in 0..MaxRows /\ sent \subseteq 1..born
  /\ hot \in Seq(Row) /\ gz \in [Month -> Archive1] /\ watch \in WatchRow
ThreadsTyped ==
  /\ cache \in [Process -> CacheRow]
  /\ lock \in [Process -> Thread \cup {Free}]
  /\ threads \in [Thread -> ThreadRow]
  /\ \A t \in Thread \ {Rotator} : threads[t].pc \in {"idle", "stamped", "numbered"}

(* A file that ends with the last row written, in the order of the ids,    *)
(* which are the numbers.                                                  *)
Numbered(rows) == \A r \in rows : r.id = r.seq /\ r.id <= born
InOrder(file) ==
  /\ \A i, j \in DOMAIN file : i < j => file[i].id < file[j].id
  /\ Len(file) <= born
  /\ born > 0 => Len(file) > 0 /\ file[Len(file)].id = born
FilesOK ==
  /\ Numbered(ToSet(hot)) /\ InOrder(hot)
  /\ Numbered(Archived) /\ Numbered(ToSet(watch.lines))

(* Room is kept for the rows to be written.                                *)
Writing == {t \in Thread : threads[t].pc \in {"stamped", "numbered"}}
RoomKept == born + Cardinality(Writing) <= MaxRows

(* The lock: who numbers or archives holds it, and what it has read holds. *)
LockOK ==
  /\ \A t \in Thread : threads[t].pc = "numbered" =>
       lock["server"] = t /\ threads[t].seq = born + 1
  /\ threads[Rotator].pc = "archiving" => lock["server"] = Rotator
  /\ cache["server"].size = Len(hot) => cache["server"].seq = born

(* Each id is in the hot file or in the archive of its month, as the same  *)
(* row; each archive has it once.                                          *)
Present == \A i \in 1..born : \E r \in ToSet(hot) \cup Archived : r.id = i
Copies == \A r \in ToSet(hot) \cup Archived, a \in Archived : r.id = a.id => r = a
OneEach ==
  /\ \A m \in Month : \A r \in ToSet(gz[m].rows) : r.month = m
  /\ \A m \in Month : \A i, j \in DOMAIN gz[m].rows :
       gz[m].rows[i].id = gz[m].rows[j].id => i = j

(* What is in both is of a past month, and goes with the next rotation;    *)
(* after a rotation nothing is in both, unless an archive was torn.        *)
Twice == ToSet(hot) \cap Archived
Whole == \A m \in Month : ~gz[m].torn
TwicePast ==
  /\ \A r \in Twice : r.month < now
  /\ threads[Rotator].pc \notin {"idle", "boot"} =>
       /\ threads[Rotator].current <= now
       /\ \A r \in Twice : r.month < threads[Rotator].current
  /\ threads[Rotator].pc = "idle" /\ Whole => Twice = {}

(* The marker is above everything that is to go or has gone, and the       *)
(* rotation has something to move.                                         *)
Marked(T) ==
  T.pc \in {"marked", "archiving"} =>
    T.seq \in 1..born /\ \A a \in Archived : a.id < T.seq
SomethingGoes(T) ==
  /\ T.pc \in {"stamped", "numbered", "marked"} =>
       \E r \in ToSet(hot) : /\ r.month < T.current
                             /\ T.pc # "stamped" => r.id < T.seq
  /\ T.pc = "archiving" /\ Archived = {} => T.gone # {}
(* While it archives, what it has not yet moved and what it keeps are the  *)
(* hot file, beside what it has moved.                                     *)
Splits(T) ==
  T.pc = "archiving" =>
    /\ T.gone \subseteq ToSet(hot) /\ \A g \in T.gone : g.month < T.current /\ g.id < T.seq
    /\ ToSet(T.keep) \subseteq ToSet(hot) /\ InOrder(T.keep)
    /\ ToSet(hot) \subseteq ToSet(T.keep) \cup T.gone \cup Archived
    /\ ToSet(T.keep) \cap (T.gone \cup Archived) = {}
RotationOK ==
  /\ Marked(threads[Rotator]) /\ SomethingGoes(threads[Rotator]) /\ Splits(threads[Rotator])

(* The watcher: while nothing has left the hot file, what it read is the   *)
(* beginning of it, and everything up to its lines was mailed.             *)
Mailed(n) == n <= Len(hot) /\ \A i \in DOMAIN hot : i <= n => hot[i].id \in sent
WatchOK ==
  Archived = {} =>
    /\ Mailed(watch.saved)
    /\ watch.pc # "off" => Mailed(watch.at)
    /\ Len(watch.lines) <= Len(hot)
    /\ \A i \in DOMAIN watch.lines : watch.lines[i] = hot[i]

JournalInv ==
  /\ FilesTyped /\ ThreadsTyped /\ FilesOK /\ RoomKept /\ LockOK
  /\ Present /\ Copies /\ OneEach /\ TwicePast /\ RotationOK /\ WatchOK

-----------------------------------------------------------------------------
(* Sets of numbers: the least one, and the greatest where one is known.    *)

LEMMA NatLess ==
  \E R : IsWellFoundedOn(R, Nat) /\ \A x, y \in Nat : x < y => <<x, y>> \in R
<1>1. \A x, y \in Nat : x < y => <<x, y>> \in OpToRel(<, Nat)
  BY DEF OpToRel
<1> QED
  BY <1>1, NatLessThanWellFounded

LEMMA Minimal ==
  ASSUME NEW R, NEW T \in SUBSET Nat, T # {}, IsWellFoundedOn(R, Nat)
  PROVE  \E m \in T : \A n \in T : ~(<<n, m>> \in R)
BY WFMin

LEMMA Least ==
  ASSUME NEW T \in SUBSET Nat, T # {}
  PROVE  \E m \in T : \A n \in T : m <= n
<1>1. \E R : IsWellFoundedOn(R, Nat) /\ \A x, y \in Nat : x < y => <<x, y>> \in R
  BY NatLess
<1>2. ASSUME NEW R, IsWellFoundedOn(R, Nat), \A x, y \in Nat : x < y => <<x, y>> \in R
      PROVE  \E m \in T : \A n \in T : m <= n
  <2>1. \E m \in T : \A n \in T : ~(<<n, m>> \in R)
    BY <1>2, Minimal
  <2>2. PICK m \in T : \A n \in T : ~(<<n, m>> \in R)
    BY <2>1
  <2>3. ASSUME NEW n \in T PROVE ~(n < m)
    <3>1. n \in Nat /\ m \in Nat
      OBVIOUS
    <3> QED
      BY <1>2, <2>2, <3>1
  <2>4. ASSUME NEW n \in T PROVE m <= n
    <3>1. n \in Nat /\ m \in Nat /\ ~(n < m)
      BY <2>3
    <3> QED
      BY <3>1
  <2> QED
    BY <2>4
<1> QED
  BY <1>1, <1>2

LEMMA MinIs ==
  ASSUME NEW T \in SUBSET Nat, T # {}
  PROVE  Min(T) \in T
<1>1. \E m \in T : \A n \in T : m <= n
  BY Least
<1>2. PICK m \in T : \A n \in T : m <= n
  BY <1>1
<1> QED
  BY <1>2 DEF Min

LEMMA MaxIs ==
  ASSUME NEW T \in SUBSET Nat, NEW m \in T, \A n \in T : n <= m
  PROVE  Max(T) = m
<1> DEFINE k == Max(T)
<1>1. k \in T /\ \A n \in T : n <= k
  BY DEF Max
<1> HIDE DEF k
<1>2. k \in Nat /\ m \in Nat /\ k <= m /\ m <= k
  BY <1>1
<1>3. k = m
  BY <1>2
<1> QED
  BY <1>3 DEF k

-----------------------------------------------------------------------------
(* Files: sequences of rows.                                               *)

LEMMA PiecesOfAFile ==
  ASSUME NEW file \in Seq(Row), NEW rows \in SUBSET ToSet(file)
  PROVE  IsFiniteSet(rows) /\ Cardinality(rows) \in Nat /\ Cardinality(rows) <= Len(file)
<1>1. IsFiniteSet(1..Len(file)) /\ Cardinality(1..Len(file)) = Len(file)
  BY FS_Interval
<1>2. file \in Surjection(1..Len(file), ToSet(file))
  BY DEF Surjection, ToSet
<1>3. IsFiniteSet(ToSet(file)) /\ Cardinality(ToSet(file)) <= Len(file)
  BY <1>1, <1>2, FS_Surjection
<1>4. IsFiniteSet(rows) /\ Cardinality(rows) <= Cardinality(ToSet(file))
  BY <1>3, FS_Subset
<1>5. Cardinality(rows) \in Nat /\ Cardinality(ToSet(file)) \in Nat
  BY <1>3, <1>4, FS_CardinalityType
<1> QED
  BY <1>3, <1>4, <1>5

(* What Lines gives holds each of the rows once.                           *)
LEMMA LinesHold ==
  ASSUME NEW rows \in SUBSET Row, IsFiniteSet(rows), NEW field, NEW file \in Lines(rows, field)
  PROVE  /\ file \in Seq(Row) /\ Len(file) = Cardinality(rows) /\ DOMAIN file = 1..Len(file)
         /\ ToSet(file) = rows
         /\ \A i, j \in DOMAIN file : file[i] = file[j] => i = j
         /\ \A i, j \in DOMAIN file : i < j => file[i][field] <= file[j][field]
<1> DEFINE n == Cardinality(rows)
<1>1. n \in Nat
  BY FS_CardinalityType
<1>2. /\ file \in [1..n -> rows]
      /\ \A i, j \in 1..n : i < j => file[i] # file[j] /\ file[i][field] <= file[j][field]
  BY DEF Lines
<1>3. IsFiniteSet(1..n) /\ Cardinality(1..n) = n
  BY <1>1, FS_Interval
<1> HIDE DEF n
<1>4. \A i, j \in 1..n : file[i] = file[j] => i = j
  BY <1>1, <1>2
<1>5. file \in Injection(1..n, rows)
  BY <1>2, <1>4 DEF Injection, IsInjective
<1>6. file \in Surjection(1..n, rows)
  BY <1>3, <1>5, FS_Injection DEF n
<1>7. ToSet(file) = rows
  BY <1>2, <1>6 DEF Surjection, ToSet
<1>8. file \in Seq(Row) /\ Len(file) = n /\ DOMAIN file = 1..n
  BY <1>1, <1>2
<1> QED
  BY <1>2, <1>4, <1>7, <1>8 DEF n

LEMMA AppendSet ==
  ASSUME NEW file \in Seq(Row), NEW r \in Row
  PROVE  /\ Append(file, r) \in Seq(Row) /\ Len(Append(file, r)) = Len(file) + 1
         /\ ToSet(Append(file, r)) = ToSet(file) \cup {r}
         /\ \A i \in DOMAIN file : Append(file, r)[i] = file[i]
         /\ Append(file, r)[Len(file) + 1] = r
         /\ DOMAIN Append(file, r) = 1..(Len(file) + 1) /\ DOMAIN file = 1..Len(file)
BY DEF ToSet

LEMMA JoinSet ==
  ASSUME NEW a \in Seq(Row), NEW b \in Seq(Row)
  PROVE  /\ a \o b \in Seq(Row) /\ Len(a \o b) = Len(a) + Len(b)
         /\ ToSet(a \o b) = ToSet(a) \cup ToSet(b)
         /\ DOMAIN a = 1..Len(a) /\ DOMAIN b = 1..Len(b)
         /\ DOMAIN (a \o b) = 1..(Len(a) + Len(b))
         /\ \A i \in 1..Len(a) : (a \o b)[i] = a[i]
         /\ \A i \in 1..Len(b) : (a \o b)[Len(a) + i] = b[i]
<1>1. /\ a \o b \in Seq(Row) /\ Len(a \o b) = Len(a) + Len(b)
      /\ DOMAIN a = 1..Len(a) /\ DOMAIN b = 1..Len(b)
      /\ DOMAIN (a \o b) = 1..(Len(a) + Len(b))
      /\ \A i \in 1..Len(a) : (a \o b)[i] = a[i]
      /\ \A i \in 1..Len(b) : (a \o b)[Len(a) + i] = b[i]
  OBVIOUS
<1>2. ToSet(a \o b) \subseteq ToSet(a) \cup ToSet(b)
  <2> SUFFICES ASSUME NEW i \in DOMAIN (a \o b) PROVE (a \o b)[i] \in ToSet(a) \cup ToSet(b)
    BY DEF ToSet
  <2>1. CASE i \in 1..Len(a)
    BY <1>1, <2>1 DEF ToSet
  <2>2. CASE i \notin 1..Len(a)
    <3>1. i - Len(a) \in 1..Len(b) /\ i = Len(a) + (i - Len(a))
      BY <1>1, <2>2
    <3> QED
      BY <1>1, <3>1 DEF ToSet
  <2> QED
    BY <2>1, <2>2
<1>3. ToSet(a) \subseteq ToSet(a \o b)
  BY <1>1 DEF ToSet
<1>4. ToSet(b) \subseteq ToSet(a \o b)
  <2> SUFFICES ASSUME NEW i \in 1..Len(b) PROVE b[i] \in ToSet(a \o b)
    BY <1>1 DEF ToSet
  <2>1. Len(a) + i \in DOMAIN (a \o b)
    BY <1>1
  <2> QED
    BY <1>1, <2>1 DEF ToSet
<1> QED
  BY <1>1, <1>2, <1>3, <1>4

LEMMA InFile ==
  ASSUME NEW file \in Seq(Row)
  PROVE  /\ DOMAIN file = 1..Len(file) /\ Len(file) \in Nat
         /\ ToSet(file) \subseteq Row
         /\ \A i \in DOMAIN file : file[i] \in ToSet(file) /\ file[i] \in Row
         /\ \A r \in ToSet(file) : \E i \in DOMAIN file : r = file[i]
BY DEF ToSet

-----------------------------------------------------------------------------
(* What the invariant says of the parts that steps read.                   *)

LEMMA Typed ==
  ASSUME JournalInv
  PROVE  /\ hot \in Seq(Row) /\ ToSet(hot) \subseteq Row /\ Len(hot) \in Nat
         /\ born \in Nat /\ born <= MaxRows /\ MaxRows \in Nat
         /\ \A m \in Month : gz[m] \in Archive1 /\ gz[m].rows \in Seq(Row)
         /\ Archived \subseteq Row
         /\ \A t \in Thread : threads[t] \in ThreadRow
         /\ threads[Rotator] \in ThreadRow /\ Rotator \in Thread
         /\ watch \in WatchRow /\ watch.lines \in Seq(Row)
<1>1. \A m \in Month : gz[m] \in Archive1 /\ gz[m].rows \in Seq(Row)
  BY DEF JournalInv, FilesTyped, Archive1
<1>2. Archived \subseteq Row
  BY <1>1, InFile DEF Archived
<1> QED
  BY <1>1, <1>2, InFile DEF JournalInv, FilesTyped, ThreadsTyped, WatchRow

LEMMA ArchivedRows ==
  /\ \A m \in Month : ToSet(gz[m].rows) \subseteq Archived
  /\ \A r \in Archived : \E m \in Month : r \in ToSet(gz[m].rows)
BY DEF Archived

(* max_seq gives the number of the last row, from the cache or the file.   *)
LEMMA LastIsBorn ==
  ASSUME JournalInv
  PROVE  LastSeq("server") = born
<1>1. CASE Len(hot) = cache["server"].size
  BY <1>1 DEF LastSeq, JournalInv, LockOK
<1>2. CASE Len(hot) # cache["server"].size
  <2> DEFINE T == Seqs(hot) \cup {0}
  <2>1. \A r \in ToSet(hot) : r.seq \in Nat /\ r.seq <= born
    BY Typed DEF JournalInv, FilesOK, Numbered, Row
  <2>2. T \in SUBSET Nat /\ \A n \in T : n <= born
    BY <2>1, Typed DEF Seqs
  <2>3. born \in T
    <3>1. CASE born = 0
      BY <3>1
    <3>2. CASE born # 0
      <4>1. Len(hot) > 0 /\ hot[Len(hot)].id = born
        BY <3>2, Typed DEF JournalInv, FilesOK, InOrder
      <4>2. Len(hot) \in DOMAIN hot
        BY <4>1, Typed
      <4>3. hot[Len(hot)] \in ToSet(hot) /\ hot[Len(hot)].seq = born
        BY <4>1, <4>2, Typed, InFile DEF JournalInv, FilesOK, Numbered
      <4> QED
        BY <4>3 DEF Seqs
    <3> QED
      BY <3>1, <3>2
  <2> HIDE DEF T
  <2>4. Max(T) = born
    BY <2>2, <2>3, MaxIs
  <2> QED
    BY <1>2, <2>4 DEF LastSeq, T
<1> QED
  BY <1>1, <1>2

(* In one process, ids tell rows of a file apart.                          *)
LEMMA IdsDiffer ==
  ASSUME JournalInv, NEW a \in ToSet(hot), NEW b \in ToSet(hot), a.id = b.id
  PROVE  a = b
<1>1. PICK i \in DOMAIN hot : a = hot[i]
  BY InFile, Typed
<1>2. PICK j \in DOMAIN hot : b = hot[j]
  BY InFile, Typed
<1>3. i \in Nat /\ j \in Nat /\ a \in Row /\ b \in Row
  <2>1. hot \in Seq(Row)
    BY Typed
  <2>2. DOMAIN hot = 1..Len(hot) /\ Len(hot) \in Nat /\ ToSet(hot) \subseteq Row
    BY <2>1, InFile
  <2> QED
    BY <2>2
<1>4. a.id \in Nat /\ b.id \in Nat
  BY <1>3 DEF Row
<1>5. (i < j => a.id < b.id) /\ (j < i => b.id < a.id)
  BY <1>1, <1>2 DEF JournalInv, FilesOK, InOrder
<1>6. i = j
  BY <1>3, <1>4, <1>5
<1> QED
  BY <1>1, <1>2, <1>6

-----------------------------------------------------------------------------
(* Steps that leave the rows where they are.                               *)

RowsSame == /\ hot' = hot /\ born' = born
            /\ \A m \in Month : gz'[m].rows = gz[m].rows
WatchSame == watch' = watch /\ sent' = sent

LEMMA SameArchived == ASSUME RowsSame PROVE Archived' = Archived
BY DEF RowsSame, Archived

LEMMA SameRows ==
  ASSUME JournalInv, RowsSame
  PROVE  /\ Archived' = Archived /\ Twice' = Twice
         /\ Present' /\ Copies' /\ OneEach'
         /\ Numbered(ToSet(hot))' /\ InOrder(hot)' /\ Numbered(Archived)'
<1>1. Archived' = Archived /\ Twice' = Twice
  BY SameArchived DEF RowsSame, Twice
<1> QED
  BY <1>1 DEF RowsSame, JournalInv, FilesOK, Present, Copies, OneEach, Numbered, InOrder

LEMMA SameWatch ==
  ASSUME JournalInv, RowsSame, WatchSame
  PROVE  WatchOK' /\ FilesOK'
<1>1. Archived' = Archived
  BY SameArchived
<1> QED
  BY <1>1, SameRows DEF RowsSame, WatchSame, JournalInv, WatchOK, Mailed, FilesOK, Numbered

LEMMA SameRotation ==
  ASSUME JournalInv, RowsSame, threads'[Rotator] = threads[Rotator]
  PROVE  RotationOK'
<1>1. Archived' = Archived
  BY SameArchived
<1> QED
  BY <1>1 DEF RowsSame, JournalInv, RotationOK, Marked, SomethingGoes, Splits, InOrder

-----------------------------------------------------------------------------
(* The threads, and the room for the rows they are about to write.         *)

LEMMA ThreadsFinite == IsFiniteSet(Thread)
<1>1. IsFiniteSet({Rotator})
  BY FS_Singleton
<1>2. IsFiniteSet(Appender \cup Outside)
  BY FS_Union
<1> QED
  BY <1>1, <1>2, FS_Union

LEMMA WritingCounts ==
  /\ IsFiniteSet(Writing) /\ Cardinality(Writing) \in Nat
  /\ Writing \subseteq Thread
BY ThreadsFinite, FS_Subset, FS_CardinalityType DEF Writing

LEMMA RoomStays ==
  ASSUME JournalInv, Writing' \subseteq Writing, born' = born
  PROVE  RoomKept'
<1> DEFINE W == Writing'
<1>1. IsFiniteSet(W) /\ Cardinality(W) <= Cardinality(Writing)
  BY WritingCounts, FS_Subset
<1>2. Cardinality(W) \in Nat
  BY <1>1, FS_CardinalityType
<1> HIDE DEF W
<1>3. born + Cardinality(W) <= MaxRows
  BY <1>1, <1>2, WritingCounts, Typed DEF JournalInv, RoomKept
<1> QED
  BY <1>3 DEF RoomKept, W

LEMMA RoomTaken ==
  ASSUME JournalInv, Room, NEW t \in Thread, Writing' \subseteq Writing \cup {t}, born' = born
  PROVE  RoomKept'
<1> DEFINE W == Writing'
<1>0. /\ IsFiniteSet(Writing \cup {t})
      /\ Cardinality(Writing \cup {t}) =
           IF t \in Writing THEN Cardinality(Writing) ELSE Cardinality(Writing) + 1
  BY WritingCounts, FS_AddElement
<1>1. /\ IsFiniteSet(Writing \cup {t})
      /\ Cardinality(Writing \cup {t}) <= Cardinality(Writing) + 1
  BY <1>0, WritingCounts
<1>2. IsFiniteSet(W) /\ Cardinality(W) <= Cardinality(Writing \cup {t})
  BY <1>1, FS_Subset
<1>3. Cardinality(W) \in Nat /\ Cardinality(Writing \cup {t}) \in Nat
  BY <1>1, <1>2, FS_CardinalityType
<1>4. born + Cardinality(Writing) < MaxRows
  BY DEF Room, Writing
<1> HIDE DEF W
<1>5. born + Cardinality(W) <= MaxRows
  BY <1>1, <1>2, <1>3, <1>4, WritingCounts, Typed
<1> QED
  BY <1>5 DEF RoomKept, W

LEMMA RoomUsed ==
  ASSUME JournalInv, NEW t \in Writing
  PROVE  /\ born + 1 <= MaxRows
         /\ Writing' \subseteq Writing \ {t} /\ born' = born + 1 => RoomKept'
<1>1. /\ IsFiniteSet(Writing \ {t})
      /\ Cardinality(Writing \ {t}) = Cardinality(Writing) - 1
      /\ Cardinality(Writing \ {t}) \in Nat
  BY WritingCounts, FS_RemoveElement, FS_CardinalityType
<1>2. born + 1 <= MaxRows
  BY <1>1, WritingCounts, Typed DEF JournalInv, RoomKept
<1>3. ASSUME Writing' \subseteq Writing \ {t}, born' = born + 1
      PROVE  RoomKept'
  <2> DEFINE W == Writing'
  <2>1. IsFiniteSet(W) /\ Cardinality(W) <= Cardinality(Writing \ {t})
    BY <1>1, <1>3, FS_Subset
  <2>2. Cardinality(W) \in Nat
    BY <2>1, FS_CardinalityType
  <2> HIDE DEF W
  <2>3. born' + Cardinality(W) <= MaxRows
    BY <1>1, <1>3, <2>1, <2>2, WritingCounts, Typed DEF JournalInv, RoomKept
  <2> QED
    BY <2>3 DEF RoomKept, W
<1> QED
  BY <1>2, <1>3

(* One thread goes on.                                                     *)
LEMMA OneThread ==
  ASSUME JournalInv, NEW t \in Thread, NEW r \in ThreadRow,
         threads' = [threads EXCEPT ![t] = r],
         t # Rotator => r.pc \in {"idle", "stamped", "numbered"}
  PROVE  /\ threads' \in [Thread -> ThreadRow]
         /\ \A u \in Thread \ {Rotator} : threads'[u].pc \in {"idle", "stamped", "numbered"}
         /\ threads'[t] = r /\ \A u \in Thread \ {t} : threads'[u] = threads[u]
BY DEF JournalInv, ThreadsTyped

LEMMA IdleRow == /\ Idle \in ThreadRow /\ Idle.pc = "idle" /\ Boot \in ThreadRow /\ Boot.pc = "boot"
<1>1. Idle \in ThreadRow /\ Idle.pc = "idle"
  <2>1. 0 \in 0..MaxRows /\ 1 \in Month /\ <<>> \in Seq(Row)
    OBVIOUS
  <2> QED
    BY <2>1 DEF Idle, ThreadRow, Steps
<1> QED
  BY <1>1 DEF Boot, ThreadRow, Steps

(* The rotator is idle or boots: nothing is asked of it.                   *)
LEMMA RestingRotation ==
  ASSUME threads'[Rotator].pc \in {"idle", "boot"}
  PROVE  RotationOK'
BY DEF RotationOK, Marked, SomethingGoes, Splits

LEMMA OneProcess ==
  ASSUME Outside = {}
  PROVE  Process = {"server"} /\ \A t \in Thread : ProcessOf(t) = "server"
BY DEF ProcessOf

-----------------------------------------------------------------------------
(* The steps that move no row.                                             *)

LEMMA ThreadOnly ==
  ASSUME JournalInv, RowsSame, WatchSame, FilesTyped', ThreadsTyped', RoomKept', LockOK',
         TwicePast', RotationOK'
  PROVE  JournalInv'
BY SameRows, SameWatch DEF JournalInv

LEMMA SameTyped ==
  ASSUME JournalInv, RowsSame, WatchSame, now' \in Month, gz' \in [Month -> Archive1]
  PROVE  FilesTyped'
BY DEF RowsSame, WatchSame, JournalInv, FilesTyped

LEMMA StampInv ==
  ASSUME JournalInv, NEW t \in Thread, Stamp(t)
  PROVE  JournalInv'
<1> DEFINE r == [threads[t] EXCEPT !.pc = "stamped", !.month = now]
<1>1. /\ RowsSame /\ WatchSame /\ now' = now /\ gz' = gz /\ cache' = cache /\ lock' = lock
      /\ t # Rotator /\ Room
  BY DEF Stamp, RowsSame, WatchSame
<1>2. r \in ThreadRow /\ r.pc = "stamped"
  BY Typed DEF ThreadRow, Steps, JournalInv, FilesTyped
<1>3. threads' = [threads EXCEPT ![t] = r]
  BY Typed DEF Stamp, ThreadRow
<1> HIDE DEF r
<1>4. /\ threads' \in [Thread -> ThreadRow]
      /\ \A u \in Thread \ {Rotator} : threads'[u].pc \in {"idle", "stamped", "numbered"}
      /\ threads'[t] = r /\ \A u \in Thread \ {t} : threads'[u] = threads[u]
  BY <1>2, <1>3, OneThread
<1>5. threads'[Rotator] = threads[Rotator]
  BY <1>1, <1>4
<1>6. FilesTyped' /\ ThreadsTyped'
  BY <1>1, <1>4, SameTyped DEF JournalInv, FilesTyped, ThreadsTyped
<1>7. RoomKept'
  <2>1. Writing' \subseteq Writing \cup {t} /\ born' = born
    BY <1>1, <1>4 DEF Writing, RowsSame
  <2> QED
    BY <1>1, <2>1, RoomTaken
<1>8. LockOK'
  BY <1>1, <1>2, <1>4, <1>5 DEF JournalInv, LockOK, RowsSame
<1>9. TwicePast' /\ RotationOK'
  BY <1>1, <1>5, SameRows, SameRotation DEF JournalInv, TwicePast, Whole
<1> QED
  BY <1>1, <1>6, <1>7, <1>8, <1>9, ThreadOnly

(* Nobody numbers or archives while the lock is free.                      *)
LEMMA LockFree ==
  ASSUME JournalInv, lock["server"] = Free
  PROVE  /\ \A t \in Thread : threads[t].pc # "numbered"
         /\ threads[Rotator].pc # "archiving"
BY DEF JournalInv, LockOK, Free

LEMMA NumberInv ==
  ASSUME Outside = {}, JournalInv, NEW t \in Thread, Number(t)
  PROVE  JournalInv'
<1> DEFINE n == born + 1
           r == [threads[t] EXCEPT !.pc = "numbered", !.seq = n]
           c == [size |-> Len(hot), seq |-> born]
<1>0. ProcessOf(t) = "server" /\ LastSeq("server") = born
  BY OneProcess, LastIsBorn
<1>1. /\ RowsSame /\ WatchSame /\ now' = now /\ gz' = gz
      /\ threads[t].pc = "stamped" /\ lock["server"] = Free
      /\ lock' = [lock EXCEPT !["server"] = t] /\ cache' = [cache EXCEPT !["server"] = c]
      /\ threads' = [threads EXCEPT ![t].pc = "numbered", ![t].seq = born + 1]
  BY <1>0 DEF Number, RowsSame, WatchSame
<1>a. t \in Writing /\ born + 1 \in 1..MaxRows
  <2>1. t \in Writing
    BY <1>1 DEF Writing
  <2> QED
    BY <2>1, RoomUsed, Typed
<1>3. threads' = [threads EXCEPT ![t] = r]
  BY <1>1, Typed DEF ThreadRow
<1> HIDE DEF n
<1>c. n = born + 1 /\ n \in 0..MaxRows
  BY <1>a DEF n
<1>2. r \in ThreadRow /\ r.pc = "numbered" /\ r.seq = born + 1 /\ r.current = threads[t].current
  <2>1. threads[t] \in ThreadRow
    BY Typed
  <2>2. r \in ThreadRow /\ r.pc = "numbered" /\ r.seq = n /\ r.current = threads[t].current
    BY <1>c, <2>1 DEF ThreadRow, Steps
  <2> QED
    BY <1>c, <2>2
<1>b. c \in CacheRow /\ c.seq = born
  <2>1. Len(hot) \in -1..MaxRows /\ born \in 0..MaxRows
    BY Typed DEF JournalInv, FilesOK, InOrder
  <2> QED
    BY <2>1 DEF CacheRow
<1> HIDE DEF r, c
<1>4. /\ threads' \in [Thread -> ThreadRow]
      /\ \A u \in Thread \ {Rotator} : threads'[u].pc \in {"idle", "stamped", "numbered"}
      /\ threads'[t] = r /\ \A u \in Thread \ {t} : threads'[u] = threads[u]
  BY <1>2, <1>3, OneThread
<1>5. FilesTyped' /\ ThreadsTyped'
  BY <1>1, <1>4, <1>b, OneProcess, SameTyped DEF JournalInv, FilesTyped, ThreadsTyped
<1>6. RoomKept'
  <2>1. Writing' \subseteq Writing /\ born' = born
    BY <1>1, <1>4, <1>a DEF Writing, RowsSame
  <2> QED
    BY <2>1, RoomStays
<1>7. LockOK'
  <2>1. cache'["server"].seq = born' /\ lock'["server"] = t
    BY <1>1, <1>b DEF JournalInv, ThreadsTyped, RowsSame
  <2>2. \A u \in Thread : threads'[u].pc = "numbered" => u = t
    BY <1>1, <1>4, LockFree
  <2>3. threads'[Rotator].pc # "archiving"
    BY <1>1, <1>2, <1>4, LockFree
  <2> QED
    BY <1>1, <1>2, <1>4, <2>1, <2>2, <2>3 DEF LockOK, RowsSame
<1>8. TwicePast' /\ RotationOK'
  <2>1. CASE t # Rotator
    BY <1>1, <1>4, <2>1, SameRows, SameRotation DEF JournalInv, TwicePast, Whole
  <2>2. CASE t = Rotator
    <3>1. TwicePast'
      BY <1>1, <1>2, <1>4, <2>2, SameRows DEF JournalInv, TwicePast, Whole
    <3>2. \E row \in ToSet(hot) : row.month < r.current /\ row.id < r.seq
      <4>1. PICK row \in ToSet(hot) : row.month < threads[t].current
        BY <1>1, <2>2 DEF JournalInv, RotationOK, SomethingGoes
      <4>2. row.id \in Nat /\ row.id <= born
        BY Typed DEF JournalInv, FilesOK, Numbered, Row
      <4> QED
        BY <1>2, <4>1, <4>2, Typed
    <3> QED
      BY <1>1, <1>2, <1>4, <2>2, <3>1, <3>2
      DEF RowsSame, RotationOK, Marked, SomethingGoes, Splits
  <2> QED
    BY <2>1, <2>2
<1> QED
  BY <1>1, <1>5, <1>6, <1>7, <1>8, ThreadOnly

LEMMA ScanInv ==
  ASSUME JournalInv, NEW t \in Thread, Scan(t)
  PROVE  JournalInv'
<1>1. /\ RowsSame /\ WatchSame /\ now' = now /\ gz' = gz /\ cache' = cache /\ lock' = lock
      /\ t = Rotator /\ threads[t].pc = "boot" /\ Room
  BY DEF Scan, RowsSame, WatchSame
<1>2. ASSUME NEW r \in ThreadRow, threads' = [threads EXCEPT ![t] = r],
             r.pc \in {"idle", "stamped"},
             TwicePast', RotationOK'
      PROVE  JournalInv'
  <2>1. /\ threads' \in [Thread -> ThreadRow]
        /\ \A u \in Thread \ {Rotator} : threads'[u].pc \in {"idle", "stamped", "numbered"}
        /\ threads'[t] = r /\ \A u \in Thread \ {t} : threads'[u] = threads[u]
    BY <1>1, <1>2, OneThread
  <2>2. FilesTyped' /\ ThreadsTyped'
    BY <1>1, <2>1, SameTyped DEF JournalInv, FilesTyped, ThreadsTyped
  <2>3. RoomKept'
    <3>1. Writing' \subseteq Writing \cup {t} /\ born' = born
      BY <1>1, <2>1 DEF Writing, RowsSame
    <3> QED
      BY <1>1, <3>1, RoomTaken
  <2>4. LockOK'
    BY <1>1, <1>2, <2>1 DEF JournalInv, LockOK, RowsSame
  <2> QED
    BY <1>1, <1>2, <2>2, <2>3, <2>4, ThreadOnly
<1>3. CASE Past(hot, now) = {}
  <2>1. threads' = [threads EXCEPT ![t] = Idle]
    BY <1>3 DEF Scan
  <2>2. threads'[Rotator] = Idle
    BY <1>1, <2>1 DEF JournalInv, ThreadsTyped
  <2>3. Twice = {}
    BY <1>3 DEF JournalInv, TwicePast, Past, Twice
  <2>4. TwicePast'
    BY <1>1, <2>2, <2>3, IdleRow, SameRows DEF TwicePast
  <2> QED
    BY <1>2, <2>1, <2>2, <2>4, IdleRow, RestingRotation
<1>4. CASE Past(hot, now) # {}
  <2> DEFINE r == [threads[t] EXCEPT !.pc = "stamped", !.month = now, !.current = now]
  <2>1. r \in ThreadRow /\ r.pc = "stamped" /\ r.current = now
    BY Typed DEF ThreadRow, Steps, JournalInv, FilesTyped
  <2>2. threads' = [threads EXCEPT ![t] = r]
    BY <1>4, Typed DEF Scan, ThreadRow
  <2> HIDE DEF r
  <2>3. threads'[Rotator] = r
    BY <1>1, <2>2 DEF JournalInv, ThreadsTyped
  <2>4. now \in Nat
    BY DEF JournalInv, FilesTyped
  <2>5. TwicePast'
    BY <1>1, <2>1, <2>3, <2>4, SameRows DEF JournalInv, TwicePast
  <2>6. PICK row \in ToSet(hot) : row.month < now
    BY <1>4 DEF Past
  <2>7. RotationOK'
    BY <1>1, <2>1, <2>3, <2>6 DEF RowsSame, RotationOK, Marked, SomethingGoes, Splits
  <2> QED
    BY <1>2, <2>1, <2>2, <2>5, <2>7
<1> QED
  BY <1>3, <1>4

(* What is kept of the hot file is a file that ends with the last row.     *)
LEMMA KeepInOrder ==
  ASSUME JournalInv, NEW K \in SUBSET ToSet(hot), NEW keep \in Lines(K, "id"),
         \A r \in ToSet(hot) : r.id = born => r \in K
  PROVE  keep \in Seq(Row) /\ ToSet(keep) = K /\ InOrder(keep)
<1>0. /\ hot \in Seq(Row) /\ ToSet(hot) \subseteq Row /\ Len(hot) \in Nat /\ Len(hot) <= born
      /\ born \in Nat
  BY Typed DEF JournalInv, FilesOK, InOrder
<1>1. K \subseteq Row /\ IsFiniteSet(K) /\ Cardinality(K) \in Nat /\ Cardinality(K) <= Len(hot)
  BY <1>0, PiecesOfAFile
<1>2. /\ keep \in Seq(Row) /\ Len(keep) = Cardinality(K) /\ DOMAIN keep = 1..Len(keep)
      /\ ToSet(keep) = K
      /\ \A i, j \in DOMAIN keep : keep[i] = keep[j] => i = j
      /\ \A i, j \in DOMAIN keep : i < j => keep[i]["id"] <= keep[j]["id"]
  BY <1>1, LinesHold
<1>3. \A i \in DOMAIN keep : keep[i] \in K /\ keep[i].id \in Nat /\ keep[i].id <= born
  <2> SUFFICES ASSUME NEW i \in DOMAIN keep
               PROVE  keep[i] \in K /\ keep[i].id \in Nat /\ keep[i].id <= born
    OBVIOUS
  <2>1. keep[i] \in K /\ keep[i] \in Row /\ keep[i] \in ToSet(hot)
    BY <1>1, <1>2, InFile
  <2>2. keep[i].id \in Nat
    BY <2>1 DEF Row
  <2> QED
    BY <2>1, <2>2 DEF JournalInv, FilesOK, Numbered
<1>4. ASSUME NEW i \in DOMAIN keep, NEW j \in DOMAIN keep, i < j
      PROVE  keep[i].id < keep[j].id
  <2>1. keep[i].id <= keep[j].id
    BY <1>2, <1>4
  <2>2. keep[i] # keep[j]
    BY <1>2, <1>4
  <2>3. keep[i].id # keep[j].id
    BY <1>3, <2>2, IdsDiffer
  <2> QED
    BY <1>3, <2>1, <2>3
<1>5. ASSUME born > 0
      PROVE  Len(keep) > 0 /\ keep[Len(keep)].id = born
  <2>1. Len(hot) > 0 /\ hot[Len(hot)].id = born
    BY <1>5 DEF JournalInv, FilesOK, InOrder
  <2>2. hot[Len(hot)] \in K
    BY <1>0, <2>1, InFile
  <2>3. PICK i \in DOMAIN keep : keep[i] = hot[Len(hot)]
    BY <1>2, <2>2, InFile
  <2>4. i \in 1..Len(keep) /\ Len(keep) \in Nat
    BY <1>1, <1>2
  <2>5. Len(keep) \in DOMAIN keep /\ Len(keep) > 0
    BY <1>2, <2>4
  <2>6. i < Len(keep) => keep[Len(keep)].id > born
    BY <1>0, <1>3, <1>4, <2>1, <2>3, <2>5
  <2>7. ~(i < Len(keep))
    BY <1>0, <1>3, <2>5, <2>6
  <2>8. i = Len(keep)
    BY <2>4, <2>7
  <2> QED
    BY <2>1, <2>3, <2>5, <2>8
<1>6. Len(keep) <= born
  BY <1>0, <1>1, <1>2
<1> QED
  BY <1>2, <1>4, <1>5, <1>6 DEF InOrder

LEMMA RescanInv ==
  ASSUME JournalInv, NEW t \in Thread, Rescan(t)
  PROVE  JournalInv'
<1> DEFINE T == threads[t]
           gone == {r \in Past(hot, T.current) : r.seq < T.seq}
           K == {r \in ToSet(hot) : r.seq \notin {g.seq : g \in gone}}
<1>1. /\ RowsSame /\ WatchSame /\ now' = now /\ gz' = gz /\ cache' = cache
      /\ t = Rotator /\ T.pc = "marked" /\ lock["server"] = Free
      /\ lock' = [lock EXCEPT !["server"] = t]
  BY DEF Rescan, RowsSame, WatchSame
<1>2. PICK keep \in Lines(K, "id") :
        threads' = [threads EXCEPT ![t].pc = "archiving", ![t].gone = gone, ![t].keep = keep]
  BY DEF Rescan
<1>3. /\ T \in ThreadRow /\ T.seq \in 1..born /\ T.seq \in Nat /\ born \in Nat
      /\ \A a \in Archived : a.id < T.seq
  BY <1>1, Typed DEF JournalInv, RotationOK, Marked
<1>4. /\ gone \subseteq ToSet(hot) /\ gone \subseteq Row /\ K \subseteq ToSet(hot)
      /\ \A r \in ToSet(hot) : r.id = r.seq /\ r.id \in Nat
      /\ \A g \in gone : g.month < T.current /\ g.id < T.seq
  <2>1. gone \subseteq ToSet(hot) /\ K \subseteq ToSet(hot) /\ \A g \in gone : g.month < T.current
    BY DEF Past
  <2>2. \A r \in ToSet(hot) : r.id = r.seq /\ r.id \in Nat
    BY Typed DEF JournalInv, FilesOK, Numbered, Row
  <2> QED
    BY <2>1, <2>2, Typed
<1>5. keep \in Seq(Row) /\ ToSet(keep) = K /\ InOrder(keep)
  <2>1. \A r \in ToSet(hot) : r.id = born => r \in K
    <3> SUFFICES ASSUME NEW r \in ToSet(hot), r.id = born, NEW g \in gone, g.seq = r.seq
                 PROVE  FALSE
      OBVIOUS
    <3>1. g.id < T.seq /\ g.id = born
      BY <1>4
    <3> QED
      BY <1>3, <3>1
  <2> HIDE DEF K
  <2> QED
    BY <1>4, <2>1, KeepInOrder
<1>6. ToSet(hot) \subseteq K \cup gone
  <2> SUFFICES ASSUME NEW x \in ToSet(hot), NEW g \in gone, g.seq = x.seq
               PROVE  x \in gone
    OBVIOUS
  <2>1. x.id = g.id /\ g \in ToSet(hot)
    BY <1>4
  <2> QED
    BY <2>1, IdsDiffer
<1>7. K \cap (gone \cup Archived) = {}
  <2>1. ASSUME NEW x \in K, x \in gone PROVE FALSE
    BY <2>1
  <2>2. ASSUME NEW x \in K, x \in Archived PROVE x \in gone
    <3>1. x \in Twice /\ x \in ToSet(hot)
      BY <2>2 DEF Twice
    <3>2. x.month < T.current
      BY <1>1, <3>1 DEF JournalInv, TwicePast
    <3>3. x.seq < T.seq
      BY <1>3, <1>4, <2>2, <3>1
    <3> QED
      BY <3>1, <3>2, <3>3 DEF Past
  <2> QED
    BY <2>1, <2>2
<1>8. Archived = {} => gone # {}
  <2>1. PICK r \in ToSet(hot) : r.month < T.current /\ r.id < T.seq
    BY <1>1 DEF JournalInv, RotationOK, SomethingGoes
  <2>2. r \in gone
    BY <1>4, <2>1 DEF Past
  <2> QED
    BY <2>2
<1> HIDE DEF gone, K
<1> DEFINE r == [T EXCEPT !.pc = "archiving", !.gone = gone, !.keep = keep]
<1>9. /\ r \in ThreadRow /\ r.pc = "archiving" /\ r.gone = gone /\ r.keep = keep
      /\ r.seq = T.seq /\ r.current = T.current
  <2> HIDE DEF T
  <2> QED
    BY <1>3, <1>4, <1>5 DEF ThreadRow, Steps
<1>10. threads' = [threads EXCEPT ![t] = r]
  BY <1>2, Typed DEF ThreadRow
<1> HIDE DEF r
<1>11. /\ threads' \in [Thread -> ThreadRow]
       /\ \A u \in Thread \ {Rotator} : threads'[u].pc \in {"idle", "stamped", "numbered"}
       /\ threads'[t] = r /\ \A u \in Thread \ {t} : threads'[u] = threads[u]
  BY <1>1, <1>9, <1>10, OneThread
<1>12. FilesTyped' /\ ThreadsTyped'
  BY <1>1, <1>11, SameTyped DEF JournalInv, FilesTyped, ThreadsTyped
<1>13. RoomKept'
  <2>1. Writing' \subseteq Writing /\ born' = born
    BY <1>1, <1>9, <1>11 DEF Writing, RowsSame
  <2> QED
    BY <2>1, RoomStays
<1>14. LockOK'
  <2>1. \A u \in Thread : threads'[u].pc # "numbered"
    BY <1>1, <1>9, <1>11, LockFree
  <2>2. lock'["server"] = Rotator
    BY <1>1 DEF JournalInv, ThreadsTyped
  <2> QED
    BY <1>1, <2>1, <2>2 DEF JournalInv, LockOK, RowsSame
<1>15. TwicePast'
  BY <1>1, <1>9, <1>11, SameRows DEF JournalInv, TwicePast, Whole
<1>16. RotationOK'
  <2>1. Marked(threads[Rotator])'
    BY <1>1, <1>3, <1>9, <1>11, SameArchived DEF Marked, RowsSame
  <2>2. SomethingGoes(threads[Rotator])'
    BY <1>1, <1>8, <1>9, <1>11, SameArchived DEF SomethingGoes
  <2>3. InOrder(threads[Rotator].keep)'
    BY <1>1, <1>5, <1>9, <1>11 DEF InOrder, RowsSame
  <2>4. Splits(threads[Rotator])'
    BY <1>1, <1>4, <1>5, <1>6, <1>7, <1>9, <1>11, <2>3, SameArchived DEF Splits, RowsSame
  <2> QED
    BY <2>1, <2>2, <2>4 DEF RotationOK
<1> QED
  BY <1>1, <1>12, <1>13, <1>14, <1>15, <1>16, ThreadOnly

-----------------------------------------------------------------------------
(* Archive.                                                                *)

Batch(t) == {r \in threads[t].gone : r.month = NextMonth(t)}

LEMMA NextIsMonth ==
  ASSUME JournalInv, NEW t \in Thread, threads[t].gone # {}
  PROVE  NextMonth(t) \in Month /\ Batch(t) # {}
<1> DEFINE months == {r.month : r \in threads[t].gone}
<1>1. \A r \in threads[t].gone : r.month \in Month
  BY Typed DEF ThreadRow, Row
<1>2. months \in SUBSET Nat /\ months # {} /\ months \subseteq Month
  BY <1>1
<1>3. NextMonth(t) = Min(months)
  BY DEF NextMonth
<1> HIDE DEF months
<1>4. NextMonth(t) \in months
  BY <1>2, <1>3, MinIs
<1> QED
  BY <1>2, <1>4 DEF Batch, months

LEMMA TornInv ==
  ASSUME Outside = {}, JournalInv, NEW t \in Thread, Archive(t), gz[NextMonth(t)].torn
  PROVE  JournalInv'
<1>1. /\ RowsSame /\ WatchSame /\ now' = now /\ gz' = gz /\ cache' = cache
      /\ t = Rotator /\ threads[t].pc = "archiving" /\ threads[t].gone # {}
      /\ lock' = [lock EXCEPT !["server"] = Free]
      /\ threads' = [threads EXCEPT ![t] = Idle]
  BY DEF Archive, RowsSame, WatchSame
<1>2. /\ threads' \in [Thread -> ThreadRow]
      /\ \A u \in Thread \ {Rotator} : threads'[u].pc \in {"idle", "stamped", "numbered"}
      /\ threads'[t] = Idle /\ \A u \in Thread \ {t} : threads'[u] = threads[u]
  BY <1>1, IdleRow, OneThread
<1>3. FilesTyped' /\ ThreadsTyped'
  BY <1>1, <1>2, SameTyped DEF JournalInv, FilesTyped, ThreadsTyped
<1>4. RoomKept'
  <2>1. Writing' \subseteq Writing /\ born' = born
    BY <1>1, <1>2, IdleRow DEF Writing, RowsSame
  <2> QED
    BY <2>1, RoomStays
<1>5. LockOK'
  BY <1>1, <1>2, IdleRow DEF JournalInv, LockOK, RowsSame
<1>6. TwicePast'
  <2>1. ~Whole
    BY <1>1, NextIsMonth DEF Whole
  <2> QED
    BY <1>1, <1>2, <2>1, IdleRow, SameRows DEF JournalInv, TwicePast, Whole
<1>7. RotationOK'
  BY <1>1, <1>2, IdleRow, RestingRotation
<1> QED
  BY <1>1, <1>3, <1>4, <1>5, <1>6, <1>7, ThreadOnly

LEMMA ArchiveInv ==
  ASSUME Outside = {}, JournalInv, NEW t \in Thread, Archive(t), ~gz[NextMonth(t)].torn
  PROVE  JournalInv'
<1> DEFINE T == threads[t]
           m == NextMonth(t)
           batch == Batch(t)
           fresh == Fresh(m, batch)
           old == gz[m].rows
<1>1. /\ hot' = hot /\ born' = born /\ WatchSame /\ now' = now /\ cache' = cache /\ lock' = lock
      /\ t = Rotator /\ T.pc = "archiving" /\ T.gone # {}
      /\ threads' = [threads EXCEPT ![t].gone = T.gone \ batch]
  BY DEF Archive, Batch, WatchSame
<1>2. PICK file \in Lines(fresh, "seq") : gz' = [gz EXCEPT ![m].rows = old \o file]
  BY DEF Archive, Batch
<1>3. m \in Month /\ batch # {}
  BY <1>1, NextIsMonth
<1>4. /\ T \in ThreadRow /\ Splits(T) /\ Marked(T)
      /\ T.gone \subseteq ToSet(hot) /\ \A g \in T.gone : g.month < T.current /\ g.id < T.seq
  BY <1>1, Typed DEF JournalInv, RotationOK, Splits
<1>5. /\ batch \subseteq T.gone /\ fresh \subseteq batch /\ \A r \in batch : r.month = m
      /\ fresh \subseteq ToSet(hot) /\ fresh \subseteq Row
  <2>1. batch \subseteq T.gone /\ fresh \subseteq batch /\ \A r \in batch : r.month = m
    BY DEF Batch, Fresh
  <2> HIDE DEF batch, fresh, T
  <2> QED
    BY <1>4, <2>1, Typed
<1>6. \A x \in batch : x \in fresh \/ x \in ToSet(old)
  <2> SUFFICES ASSUME NEW x \in batch, NEW a \in ToSet(old), a.seq = x.seq
               PROVE  x = a
    BY DEF Fresh, Seqs
  <2>1. a \in Archived /\ x \in ToSet(hot)
    BY <1>3, <1>4, <1>5, ArchivedRows
  <2>2. a.id = a.seq /\ x.id = x.seq
    BY <2>1 DEF JournalInv, FilesOK, Numbered
  <2> QED
    BY <2>1, <2>2 DEF JournalInv, Copies
<1>7. \A x \in fresh, a \in ToSet(old) : x.id # a.id
  <2> SUFFICES ASSUME NEW x \in fresh, NEW a \in ToSet(old), x.id = a.id
               PROVE  FALSE
    OBVIOUS
  <2>1. a \in Archived /\ x \in ToSet(hot)
    BY <1>3, <1>5, ArchivedRows
  <2>2. a.id = a.seq /\ x.id = x.seq
    BY <2>1 DEF JournalInv, FilesOK, Numbered
  <2>3. x.seq \notin {r.seq : r \in ToSet(old)}
    BY DEF Fresh, Seqs
  <2> QED
    BY <2>2, <2>3
<1> HIDE DEF m, batch, fresh
<1>8. /\ file \in Seq(Row) /\ DOMAIN file = 1..Len(file) /\ ToSet(file) = fresh
      /\ \A i, j \in DOMAIN file : file[i] = file[j] => i = j
  BY <1>5, PiecesOfAFile, LinesHold, Typed
<1>9. gz \in [Month -> Archive1] /\ gz[m] \in Archive1 /\ old \in Seq(Row)
  BY <1>3, Typed DEF JournalInv, FilesTyped
<1>10. /\ old \o file \in Seq(Row) /\ ToSet(old \o file) = ToSet(old) \cup fresh
       /\ DOMAIN old = 1..Len(old) /\ DOMAIN (old \o file) = 1..(Len(old) + Len(file))
       /\ \A i \in 1..Len(old) : (old \o file)[i] = old[i]
       /\ \A i \in 1..Len(file) : (old \o file)[Len(old) + i] = file[i]
       /\ Len(old) \in Nat /\ Len(file) \in Nat
  BY <1>8, <1>9, JoinSet
<1> DEFINE joined == old \o file
<1>11. \A i, j \in DOMAIN joined : joined[i].id = joined[j].id => i = j
  <2> SUFFICES ASSUME NEW i \in DOMAIN joined, NEW j \in DOMAIN joined,
                      joined[i].id = joined[j].id
               PROVE  i = j
    OBVIOUS
  <2>1. \A k \in DOMAIN joined :
          \/ k \in 1..Len(old) /\ joined[k] = old[k] /\ old[k] \in ToSet(old)
          \/ /\ k \in Nat /\ k - Len(old) \in DOMAIN file
             /\ joined[k] = file[k - Len(old)] /\ file[k - Len(old)] \in fresh
    <3> SUFFICES ASSUME NEW k \in DOMAIN joined, k \notin 1..Len(old)
                 PROVE  /\ k \in Nat /\ k - Len(old) \in DOMAIN file
                        /\ joined[k] = file[k - Len(old)] /\ file[k - Len(old)] \in fresh
      BY <1>9, <1>10, InFile
    <3> HIDE DEF old
    <3>1. k \in 1..(Len(old) + Len(file)) /\ k \in Nat
      BY <1>10
    <3>2. k - Len(old) \in 1..Len(file) /\ k = Len(old) + (k - Len(old))
      BY <1>10, <3>1
    <3>3. joined[k] = file[k - Len(old)]
      BY <1>10, <3>2
    <3>4. file[k - Len(old)] \in fresh
      BY <1>8, <3>2, InFile
    <3> QED
      BY <1>8, <3>1, <3>2, <3>3, <3>4
  <2> HIDE DEF joined
  <2>2. CASE i \in 1..Len(old) /\ j \in 1..Len(old) /\ joined[i] = old[i] /\ joined[j] = old[j]
    BY <1>3, <1>10, <2>2 DEF JournalInv, OneEach
  <2>3. CASE /\ i \in Nat /\ i - Len(old) \in DOMAIN file /\ joined[i] = file[i - Len(old)]
             /\ j \in Nat /\ j - Len(old) \in DOMAIN file /\ joined[j] = file[j - Len(old)]
             /\ file[i - Len(old)] \in fresh /\ file[j - Len(old)] \in fresh
    <3>1. file[i - Len(old)] = file[j - Len(old)]
      BY <1>5, <2>3, IdsDiffer
    <3>2. i - Len(old) = j - Len(old)
      BY <1>8, <2>3, <3>1
    <3> QED
      BY <1>10, <2>3, <3>2
  <2>4. CASE (joined[i] \in fresh /\ joined[j] \in ToSet(old))
             \/ (joined[j] \in fresh /\ joined[i] \in ToSet(old))
    BY <1>7, <2>4
  <2> QED
    BY <2>1, <2>2, <2>3, <2>4
<1> HIDE DEF old
<1> DEFINE entry == [gz[m] EXCEPT !.rows = joined]
<1>12. entry \in Archive1 /\ entry.rows = joined /\ entry.torn = gz[m].torn
  BY <1>9, <1>10 DEF Archive1
<1>13. gz' = [gz EXCEPT ![m] = entry]
  BY <1>2, <1>9
<1> HIDE DEF joined, entry
<1>14. /\ gz' \in [Month -> Archive1] /\ gz'[m].rows = joined
       /\ \A k \in Month : k # m => gz'[k] = gz[k]
  BY <1>3, <1>9, <1>12, <1>13
<1>15. Archived' = Archived \cup fresh /\ ToSet(gz'[m].rows) = ToSet(old) \cup fresh
  <2>1. ToSet(gz'[m].rows) = ToSet(old) \cup fresh
    BY <1>10, <1>14 DEF joined
  <2>2. \A k \in Month : ToSet(gz'[k].rows) = IF k = m THEN ToSet(gz[k].rows) \cup fresh
                                              ELSE ToSet(gz[k].rows)
    BY <1>14, <2>1 DEF old
  <2>3. Archived' = UNION {ToSet(gz'[k].rows) : k \in Month}
    BY DEF Archived
  <2> QED
    BY <1>3, <2>1, <2>2, <2>3 DEF Archived
<1>16. batch \subseteq Archived'
  BY <1>3, <1>6, <1>15, ArchivedRows DEF old
<1> DEFINE r == [T EXCEPT !.gone = T.gone \ batch]
<1>17. /\ r \in ThreadRow /\ r.pc = T.pc /\ r.gone = T.gone \ batch /\ r.keep = T.keep
       /\ r.seq = T.seq /\ r.current = T.current
  <2> HIDE DEF T
  <2> QED
    BY <1>4 DEF ThreadRow
<1>18. threads' = [threads EXCEPT ![t] = r]
  BY <1>1, Typed DEF ThreadRow
<1> HIDE DEF r
<1>19. /\ threads' \in [Thread -> ThreadRow]
       /\ \A u \in Thread \ {Rotator} : threads'[u].pc \in {"idle", "stamped", "numbered"}
       /\ threads'[t] = r /\ \A u \in Thread \ {t} : threads'[u] = threads[u]
  BY <1>1, <1>17, <1>18, OneThread
<1>20. FilesTyped' /\ ThreadsTyped'
  BY <1>1, <1>14, <1>19 DEF JournalInv, FilesTyped, ThreadsTyped, WatchSame
<1>21. RoomKept'
  <2>1. Writing' \subseteq Writing /\ born' = born
    BY <1>1, <1>17, <1>19 DEF Writing
  <2> QED
    BY <2>1, RoomStays
<1>22. LockOK'
  BY <1>1, <1>17, <1>19 DEF JournalInv, LockOK
<1>23. FilesOK'
  BY <1>1, <1>5, <1>15 DEF JournalInv, FilesOK, Numbered, InOrder, WatchSame
<1>24. Present'
  BY <1>1, <1>15 DEF JournalInv, Present
<1>25. Copies'
  BY <1>1, <1>5, <1>15, IdsDiffer DEF JournalInv, Copies
<1>26. OneEach'
  <2>1. \A x \in ToSet(gz'[m].rows) : x.month = m
    BY <1>3, <1>5, <1>15 DEF JournalInv, OneEach, old
  <2> QED
    BY <1>11, <1>14, <2>1 DEF JournalInv, OneEach
<1>27. TwicePast'
  <2>1. T.current <= now /\ now \in Nat /\ T.current \in Nat
    <3>1. T.current <= now /\ now \in Nat
      BY <1>1 DEF JournalInv, TwicePast, FilesTyped
    <3> QED
      BY <1>4, <3>1 DEF ThreadRow
  <2>2. ASSUME NEW x \in Twice' PROVE x.month < T.current
    <3>1. x \in ToSet(hot) /\ (x \in Archived \/ x \in fresh)
      BY <1>1, <1>15, <2>2 DEF Twice
    <3> QED
      BY <1>1, <1>4, <1>5, <3>1 DEF JournalInv, TwicePast, Twice
  <2>3. \A x \in Twice' : x.month \in Nat
    BY <1>1, Typed DEF Twice, Row
  <2>4. \A x \in Twice' : x.month < now
    BY <2>1, <2>2, <2>3
  <2> QED
    BY <1>1, <1>17, <1>19, <2>1, <2>2, <2>4 DEF TwicePast
<1>28. RotationOK'
  <2>1. Marked(threads[Rotator])'
    BY <1>1, <1>4, <1>5, <1>15, <1>17, <1>19 DEF Marked
  <2>2. SomethingGoes(threads[Rotator])'
    BY <1>1, <1>3, <1>16, <1>17, <1>19 DEF SomethingGoes
  <2>3. InOrder(threads[Rotator].keep)'
    BY <1>1, <1>4, <1>17, <1>19 DEF InOrder, Splits
  <2>4. ToSet(hot) \subseteq ToSet(T.keep) \cup (T.gone \ batch) \cup Archived'
    BY <1>1, <1>4, <1>15, <1>16 DEF Splits
  <2>5. ToSet(T.keep) \cap ((T.gone \ batch) \cup Archived') = {}
    BY <1>1, <1>4, <1>5, <1>15 DEF Splits
  <2>6. Splits(threads[Rotator])'
    BY <1>1, <1>4, <1>17, <1>19, <2>3, <2>4, <2>5 DEF Splits
  <2> QED
    BY <2>1, <2>2, <2>6 DEF RotationOK
<1>29. WatchOK'
  BY <1>3, <1>16 DEF WatchOK
<1> QED
  BY <1>20, <1>21, <1>22, <1>23, <1>24, <1>25, <1>26, <1>27, <1>28, <1>29 DEF JournalInv

-----------------------------------------------------------------------------
(* Replace and Write.                                                      *)

LEMMA ReplaceInv ==
  ASSUME Outside = {}, JournalInv, NEW t \in Thread, Replace(t)
  PROVE  JournalInv'
<1> DEFINE T == threads[t]
<1>1. /\ hot' = T.keep /\ born' = born /\ WatchSame /\ now' = now /\ gz' = gz
      /\ t = Rotator /\ T.pc = "archiving" /\ T.gone = {}
      /\ cache' = [cache EXCEPT !["server"] = NoCache]
      /\ lock' = [lock EXCEPT !["server"] = Free]
      /\ threads' = [threads EXCEPT ![t] = Idle]
  BY DEF Replace, WatchSame
<1>2. /\ ToSet(T.keep) \subseteq ToSet(hot) /\ InOrder(T.keep) /\ T.keep \in Seq(Row)
      /\ ToSet(hot) \subseteq ToSet(T.keep) \cup Archived
      /\ ToSet(T.keep) \cap Archived = {}
      /\ Archived # {}
  <2>1. Splits(T) /\ SomethingGoes(T) /\ T \in ThreadRow
    BY <1>1, Typed DEF JournalInv, RotationOK
  <2> HIDE DEF T
  <2> QED
    BY <1>1, <2>1 DEF Splits, SomethingGoes, ThreadRow
<1>3. Archived' = Archived
  BY <1>1 DEF Archived
<1>4. /\ threads' \in [Thread -> ThreadRow]
      /\ \A u \in Thread \ {Rotator} : threads'[u].pc \in {"idle", "stamped", "numbered"}
      /\ threads'[t] = Idle /\ \A u \in Thread \ {t} : threads'[u] = threads[u]
  BY <1>1, IdleRow, OneThread
<1>5. NoCache \in CacheRow /\ NoCache.size = -1
  <2>1. -1 \in -1..MaxRows /\ 0 \in 0..MaxRows
    BY Typed
  <2> QED
    BY <2>1 DEF NoCache, CacheRow
<1> HIDE DEF T
<1>6. FilesTyped' /\ ThreadsTyped'
  BY <1>1, <1>2, <1>4, <1>5 DEF JournalInv, FilesTyped, ThreadsTyped, WatchSame
<1>7. RoomKept'
  <2>1. Writing' \subseteq Writing /\ born' = born
    BY <1>1, <1>4, IdleRow DEF Writing
  <2> QED
    BY <2>1, RoomStays
<1>8. LockOK'
  <2>1. cache'["server"].size = -1 /\ Len(hot') >= 0
    BY <1>1, <1>2, <1>5 DEF JournalInv, ThreadsTyped
  <2>2. \A u \in Thread : threads'[u].pc # "numbered"
    BY <1>1, <1>4, IdleRow DEF JournalInv, LockOK, T
  <2>3. cache'["server"].size # Len(hot')
    BY <2>1
  <2> QED
    BY <1>1, <1>4, <2>2, <2>3, IdleRow DEF LockOK
<1>9. FilesOK'
  BY <1>1, <1>2, <1>3 DEF JournalInv, FilesOK, Numbered, InOrder, WatchSame
<1>10. Present'
  BY <1>1, <1>2, <1>3 DEF JournalInv, Present
<1>11. Copies' /\ OneEach'
  BY <1>1, <1>2, <1>3 DEF JournalInv, Copies, OneEach
<1>12. TwicePast'
  BY <1>1, <1>2, <1>3, <1>4, IdleRow DEF TwicePast, Twice
<1>13. RotationOK'
  BY <1>1, <1>4, IdleRow, RestingRotation
<1>14. WatchOK'
  BY <1>2, <1>3 DEF WatchOK
<1> QED
  BY <1>6, <1>7, <1>8, <1>9, <1>10, <1>11, <1>12, <1>13, <1>14 DEF JournalInv

(* What a write adds: the row with the next id, at the end.                *)
Written(row) == /\ row \in Row /\ row.id = born + 1 /\ row.seq = born + 1
                /\ hot' = Append(hot, row) /\ born' = born + 1
                /\ gz' = gz /\ now' = now /\ WatchSame

LEMMA NewRow ==
  ASSUME Outside = {}, JournalInv, NEW t \in Thread, Write(t)
  PROVE  /\ \E row : Written(row)
         /\ t \in Writing /\ born + 1 \in 1..MaxRows /\ threads[t].seq = born + 1
<1>1. threads[t].pc = "numbered" /\ threads[t] \in ThreadRow
  BY Typed DEF Write
<1>2. t \in Writing /\ threads[t].seq = born + 1 /\ threads[t].month \in Month
  BY <1>1 DEF Writing, JournalInv, LockOK, ThreadRow
<1>3. born + 1 \in 1..MaxRows
  BY <1>2, RoomUsed, Typed
<1> DEFINE n == born + 1
           mark == t = Rotator
           row == [id |-> n, seq |-> threads[t].seq, month |-> threads[t].month, marker |-> mark]
<1>4. mark \in BOOLEAN
  OBVIOUS
<1>5. hot' = Append(hot, row) /\ born' = n /\ gz' = gz /\ now' = now /\ WatchSame
  BY DEF Write, WatchSame
<1> HIDE DEF n, mark
<1>6. row \in Row /\ row.id = n /\ row.seq = n
  BY <1>2, <1>3, <1>4 DEF Row, n
<1> HIDE DEF row
<1>7. Written(row)
  BY <1>5, <1>6 DEF Written, n
<1> QED
  BY <1>2, <1>3, <1>7

LEMMA WrittenFiles ==
  ASSUME JournalInv, NEW row, Written(row), born + 1 \in 1..MaxRows
  PROVE  /\ FilesTyped' /\ FilesOK' /\ Present' /\ Copies' /\ OneEach' /\ WatchOK'
         /\ Archived' = Archived /\ Twice' = Twice
         /\ ToSet(hot') = ToSet(hot) \cup {row}
<1>0. row \in Row /\ row.id = born + 1 /\ row.seq = born + 1 /\ born' = born + 1
      /\ hot' = Append(hot, row) /\ gz' = gz /\ now' = now /\ watch' = watch /\ sent' = sent
  BY DEF Written, WatchSame
<1>1. /\ hot \in Seq(Row) /\ hot' \in Seq(Row) /\ Len(hot') = Len(hot) + 1
      /\ ToSet(hot') = ToSet(hot) \cup {row}
      /\ \A i \in DOMAIN hot : hot'[i] = hot[i]
      /\ hot'[Len(hot) + 1] = row /\ Len(hot) \in Nat
      /\ DOMAIN hot' = 1..(Len(hot) + 1) /\ DOMAIN hot = 1..Len(hot)
  BY <1>0, Typed, AppendSet
<1>2. Archived' = Archived
  BY <1>0 DEF Archived
<1>3. \A r \in ToSet(hot) \cup Archived : r.id \in Nat /\ r.id <= born /\ r.id # born + 1
  <2>1. \A r \in ToSet(hot) \cup Archived : r \in Row /\ r.id <= born
    BY Typed DEF JournalInv, FilesOK, Numbered
  <2>2. \A r \in ToSet(hot) \cup Archived : r.id \in Nat
    BY <2>1 DEF Row
  <2> QED
    BY <2>1, <2>2, Typed
<1>4. row \notin Archived /\ \A a \in Archived : a.id # row.id
  BY <1>0, <1>3
<1>5. Twice' = Twice
  BY <1>1, <1>2, <1>4 DEF Twice
<1>6. FilesTyped'
  <2>1. sent \subseteq 1..born'
    BY <1>0, Typed DEF JournalInv, FilesTyped
  <2> QED
    BY <1>0, <1>1, <2>1 DEF JournalInv, FilesTyped
<1>7. Numbered(ToSet(hot))' /\ Numbered(Archived)' /\ Numbered(ToSet(watch.lines))'
  <2>1. \A r \in ToSet(watch.lines) : r.id = r.seq /\ r.id <= born + 1
    <3>1. \A r \in ToSet(watch.lines) : r \in Row /\ r.id = r.seq /\ r.id <= born
      BY Typed, InFile DEF JournalInv, FilesOK, Numbered
    <3>2. \A r \in ToSet(watch.lines) : r.id \in Nat
      BY <3>1 DEF Row
    <3> QED
      BY <3>1, <3>2, Typed
  <2>2. \A r \in ToSet(hot) \cup Archived : r.id = r.seq /\ r.id <= born + 1
    <3>1. \A r \in ToSet(hot) \cup Archived : r.id = r.seq
      BY DEF JournalInv, FilesOK, Numbered
    <3> QED
      BY <1>3, <3>1, Typed
  <2>3. row.id = row.seq /\ row.id <= born + 1
    BY <1>0, Typed
  <2> QED
    BY <1>0, <1>1, <1>2, <2>1, <2>2, <2>3 DEF Numbered
<1>8. InOrder(hot)'
  <2>1. ASSUME NEW i \in DOMAIN hot', NEW j \in DOMAIN hot', i < j
        PROVE  hot'[i].id < hot'[j].id
    <3>1. i \in DOMAIN hot /\ i \in Nat /\ j \in Nat
      BY <1>1, <2>1
    <3>2. hot'[i] = hot[i] /\ hot[i] \in ToSet(hot)
      BY <1>1, <3>1, InFile
    <3>3. CASE j \in DOMAIN hot
      BY <1>1, <2>1, <3>1, <3>2, <3>3 DEF JournalInv, FilesOK, InOrder
    <3>4. CASE j \notin DOMAIN hot
      <4>1. j = Len(hot) + 1
        BY <1>1, <3>4
      <4>2. hot'[j].id = born + 1
        BY <1>0, <1>1, <4>1
      <4>3. hot'[i].id <= born /\ hot'[i].id \in Nat
        BY <1>3, <3>2
      <4> QED
        BY <4>2, <4>3, Typed
    <3> QED
      BY <3>3, <3>4
  <2>2. Len(hot') <= born' /\ Len(hot') > 0 /\ hot'[Len(hot')].id = born'
    BY <1>0, <1>1, Typed DEF JournalInv, FilesOK, InOrder
  <2> QED
    BY <2>1, <2>2 DEF InOrder
<1>9. Present'
  <2> SUFFICES ASSUME NEW i \in 1..(born + 1)
               PROVE  \E r \in ToSet(hot') \cup Archived' : r.id = i
    BY <1>0 DEF Present
  <2>1. i \in 1..born \/ i = born + 1
    BY Typed
  <2>2. CASE i = born + 1
    BY <1>0, <1>1, <2>2
  <2>3. CASE i \in 1..born
    BY <1>1, <1>2, <2>3 DEF JournalInv, Present
  <2> QED
    BY <2>1, <2>2, <2>3
<1>10. Copies' /\ OneEach'
  BY <1>0, <1>1, <1>2, <1>4 DEF JournalInv, Copies, OneEach
<1>11. WatchOK'
  <2> SUFFICES ASSUME Archived = {}
               PROVE  /\ Mailed(watch.saved)'
                      /\ watch.pc # "off" => Mailed(watch.at)'
                      /\ Len(watch.lines) <= Len(hot')
                      /\ \A i \in DOMAIN watch.lines : watch.lines[i] = hot'[i]
    BY <1>0, <1>2 DEF WatchOK
  <2>1. \A n \in Nat \cup {-1} : Mailed(n) =>
          n <= Len(hot') /\ \A i \in DOMAIN hot' : i <= n => hot'[i].id \in sent
    <3> SUFFICES ASSUME NEW n \in Nat \cup {-1}, Mailed(n), NEW i \in DOMAIN hot', i <= n
                 PROVE  hot'[i].id \in sent
      BY <1>1 DEF Mailed
    <3>1. i \in DOMAIN hot
      BY <1>1 DEF Mailed
    <3> QED
      BY <1>1, <3>1 DEF Mailed
  <2>2. watch.saved \in Nat \cup {-1} /\ watch.at \in Nat /\ watch.lines \in Seq(Row)
    BY Typed DEF WatchRow
  <2>3. Mailed(watch.saved)' /\ (watch.pc # "off" => Mailed(watch.at)')
    BY <1>0, <2>1, <2>2 DEF JournalInv, WatchOK, Mailed
  <2>4. \A i \in DOMAIN watch.lines : watch.lines[i] = hot'[i]
    <3> SUFFICES ASSUME NEW i \in DOMAIN watch.lines PROVE watch.lines[i] = hot'[i]
      OBVIOUS
    <3>1. i \in 1..Len(watch.lines) /\ Len(watch.lines) \in Nat /\ Len(watch.lines) <= Len(hot)
      BY <2>2, InFile DEF JournalInv, WatchOK
    <3>2. i \in DOMAIN hot
      BY <1>1, <3>1
    <3> QED
      BY <1>1, <3>2 DEF JournalInv, WatchOK
  <2>5. Len(watch.lines) <= Len(hot')
    BY <1>1, <2>2 DEF JournalInv, WatchOK
  <2> QED
    BY <2>3, <2>4, <2>5
<1> QED
  BY <1>1, <1>2, <1>5, <1>6, <1>7, <1>8, <1>9, <1>10, <1>11 DEF FilesOK

LEMMA WriteInv ==
  ASSUME Outside = {}, JournalInv, NEW t \in Thread, Write(t)
  PROVE  JournalInv'
<1> DEFINE r == IF t = Rotator THEN [threads[t] EXCEPT !.pc = "marked"] ELSE Idle
           n == born + 1
           c == [size |-> Len(hot) + 1, seq |-> n]
<1>1. PICK row : Written(row)
  BY NewRow
<1>2. /\ t \in Writing /\ n \in 1..MaxRows /\ threads[t].seq = n /\ threads[t].pc = "numbered"
      /\ lock["server"] = t /\ born' = n /\ gz' = gz /\ now' = now /\ hot' = Append(hot, row)
  BY <1>1, NewRow DEF Write, JournalInv, LockOK, Written
<1>3. /\ FilesTyped' /\ FilesOK' /\ Present' /\ Copies' /\ OneEach' /\ WatchOK'
      /\ Archived' = Archived /\ Twice' = Twice
      /\ ToSet(hot') = ToSet(hot) \cup {row}
  BY <1>1, <1>2, WrittenFiles
<1>4. /\ lock' = [lock EXCEPT !["server"] = Free] /\ cache' = [cache EXCEPT !["server"] = c]
      /\ threads' = [threads EXCEPT ![t] = r]
  <2>1. ProcessOf(t) = "server"
    BY OneProcess
  <2> QED
    BY <1>2, <2>1, Typed DEF Write
<1>5. /\ r \in ThreadRow /\ r.pc = IF t = Rotator THEN "marked" ELSE "idle"
      /\ t = Rotator => r.seq = threads[t].seq /\ r.current = threads[t].current
  BY Typed, IdleRow DEF ThreadRow, Steps
<1>6. c \in CacheRow /\ c.seq = n
  <2>1. Len(hot) + 1 \in -1..MaxRows /\ n \in 0..MaxRows
    BY <1>2, Typed DEF JournalInv, FilesOK, InOrder
  <2> HIDE DEF n
  <2> QED
    BY <2>1 DEF CacheRow
<1> HIDE DEF r, c
<1>7. /\ threads' \in [Thread -> ThreadRow]
      /\ \A u \in Thread \ {Rotator} : threads'[u].pc \in {"idle", "stamped", "numbered"}
      /\ threads'[t] = r /\ \A u \in Thread \ {t} : threads'[u] = threads[u]
  BY <1>4, <1>5, OneThread
<1>8. ThreadsTyped'
  BY <1>4, <1>6, <1>7, OneProcess DEF JournalInv, ThreadsTyped
<1>9. RoomKept'
  <2>1. Writing' \subseteq Writing \ {t}
    BY <1>5, <1>7 DEF Writing
  <2> QED
    BY <1>2, <2>1, RoomUsed DEF n
<1>10. LockOK'
  <2>1. cache'["server"].seq = born'
    BY <1>2, <1>4, <1>6 DEF JournalInv, ThreadsTyped
  <2>2. \A u \in Thread : threads'[u].pc # "numbered"
    BY <1>2, <1>5, <1>7 DEF JournalInv, LockOK
  <2>3. threads'[Rotator].pc # "archiving"
    BY <1>2, <1>5, <1>7 DEF JournalInv, LockOK
  <2> QED
    BY <2>1, <2>2, <2>3 DEF LockOK
<1>11. TwicePast'
  <2>1. CASE t = Rotator
    BY <1>2, <1>3, <1>5, <1>7, <2>1 DEF JournalInv, TwicePast, Whole
  <2>2. CASE t # Rotator
    BY <1>2, <1>3, <1>7, <2>2 DEF JournalInv, TwicePast, Whole
  <2> QED
    BY <2>1, <2>2
<1>12. RotationOK'
  <2>0. \A a \in Archived : a.id \in Nat /\ a.id <= born
    <3>1. \A a \in Archived : a \in Row /\ a.id <= born
      BY Typed DEF JournalInv, FilesOK, Numbered
    <3> QED
      BY <3>1 DEF Row
  <2>1. CASE t = Rotator
    <3>1. Marked(threads[Rotator])'
      BY <1>2, <1>3, <1>5, <1>7, <2>0, <2>1, Typed DEF Marked
    <3>2. \E x \in ToSet(hot) : x.month < r.current /\ x.id < r.seq
      BY <1>2, <1>5, <2>1 DEF JournalInv, RotationOK, SomethingGoes
    <3>3. SomethingGoes(threads[Rotator])'
      BY <1>3, <1>5, <1>7, <2>1, <3>2 DEF SomethingGoes
    <3>4. Splits(threads[Rotator])'
      BY <1>5, <1>7, <2>1 DEF Splits
    <3> QED
      BY <3>1, <3>3, <3>4 DEF RotationOK
  <2>2. CASE t # Rotator
    <3>1. threads'[Rotator] = threads[Rotator] /\ threads[Rotator].pc # "archiving"
      BY <1>2, <1>7, <2>2 DEF JournalInv, LockOK
    <3>2. Marked(threads[Rotator])'
      BY <1>2, <1>3, <3>1, Typed DEF Marked, JournalInv, RotationOK
    <3>3. SomethingGoes(threads[Rotator])'
      BY <1>3, <3>1 DEF SomethingGoes, JournalInv, RotationOK
    <3>4. Splits(threads[Rotator])'
      BY <3>1 DEF Splits
    <3> QED
      BY <3>2, <3>3, <3>4 DEF RotationOK
  <2> QED
    BY <2>1, <2>2
<1> QED
  BY <1>3, <1>8, <1>9, <1>10, <1>11, <1>12 DEF JournalInv

-----------------------------------------------------------------------------
(* The watcher, the months and the kills.                                  *)

LEMMA WatchInv ==
  ASSUME JournalInv, Watching \/ KillWatch
  PROVE  JournalInv'
<1>1. /\ hot' = hot /\ born' = born /\ gz' = gz /\ now' = now /\ cache' = cache /\ lock' = lock
      /\ threads' = threads /\ RowsSame
  BY DEF Watching, WatchStart, WatchLook, WatchHandle, WatchSave, KillWatch, RowsSame
<1>2. ThreadsTyped' /\ RoomKept' /\ LockOK' /\ TwicePast' /\ RotationOK'
  <2>1. RoomKept'
    BY <1>1, RoomStays DEF Writing
  <2> QED
    BY <1>1, <2>1, SameRows, SameRotation
    DEF JournalInv, ThreadsTyped, LockOK, TwicePast, Whole
<1>3. Archived' = Archived /\ Present' /\ Copies' /\ OneEach'
      /\ Numbered(ToSet(hot))' /\ InOrder(hot)' /\ Numbered(Archived)'
  BY <1>1, SameRows
<1>4. /\ hot \in Seq(Row) /\ DOMAIN hot = 1..Len(hot) /\ Len(hot) \in Nat
      /\ watch \in WatchRow /\ watch.lines \in Seq(Row) /\ watch.at \in Nat
      /\ watch.saved \in Nat \cup {-1}
      /\ sent \subseteq 1..born /\ \A x \in ToSet(hot) \cup ToSet(watch.lines) : x.id \in 1..born
  <2>1. \A x \in ToSet(hot) \cup ToSet(watch.lines) : x \in Row /\ x.id <= born
    BY Typed, InFile DEF JournalInv, FilesOK, Numbered
  <2>2. \A x \in ToSet(hot) \cup ToSet(watch.lines) : x.id \in 1..born
    BY <2>1, Typed DEF Row
  <2> QED
    BY <2>2, Typed, InFile DEF JournalInv, FilesTyped, WatchRow
<1> DEFINE MailedNow(n) == n <= Len(hot) /\ \A i \in DOMAIN hot : i <= n => hot[i].id \in sent'
(* What there is to show of a step of the watcher.                         *)
<1>5. ASSUME NEW w \in WatchRow, watch' = w, sent' \subseteq 1..born,
             ToSet(w.lines) \subseteq ToSet(hot) \cup ToSet(watch.lines),
             Archived = {} =>
               /\ MailedNow(w.saved)
               /\ w.pc # "off" => MailedNow(w.at)
               /\ Len(w.lines) <= Len(hot)
               /\ \A i \in DOMAIN w.lines : w.lines[i] = hot[i]
      PROVE  JournalInv'
  <2>1. FilesTyped'
    BY <1>1, <1>5 DEF JournalInv, FilesTyped
  <2>2. Numbered(ToSet(watch.lines))'
    BY <1>1, <1>5 DEF JournalInv, FilesOK, Numbered
  <2>3. WatchOK'
    BY <1>1, <1>3, <1>5 DEF WatchOK, Mailed
  <2> QED
    BY <1>2, <1>3, <2>1, <2>2, <2>3 DEF JournalInv, FilesOK
<1>6. ASSUME NEW n, sent \subseteq sent', Mailed(n)
      PROVE  MailedNow(n)
  BY <1>6 DEF Mailed
<1>e. <<>> \in Seq(Row) /\ ToSet(<<>>) = {} /\ Len(<<>>) = 0 /\ DOMAIN <<>> = {}
  BY DEF ToSet
<1>7. CASE WatchStart
  <2> DEFINE at == IF watch.saved = -1 THEN Len(hot) ELSE watch.saved
             w == [watch EXCEPT !.pc = "looking", !.at = at]
  <2>1. /\ watch' = w
        /\ sent' = IF watch.saved = -1 THEN sent \cup {r.id : r \in ToSet(hot)} ELSE sent
    BY <1>7 DEF WatchStart
  <2>2. at \in Nat
    BY <1>4
  <2>3. sent' \subseteq 1..born /\ sent \subseteq sent'
    BY <1>4, <2>1
  <2>4. ASSUME Archived = {}
        PROVE  MailedNow(watch.saved) /\ MailedNow(at)
    <3>1. MailedNow(watch.saved)
      BY <1>6, <2>3, <2>4 DEF JournalInv, WatchOK
    <3>2. CASE watch.saved = -1
      <4>1. \A i \in DOMAIN hot : hot[i].id \in sent'
        BY <1>4, <2>1, <3>2, InFile
      <4> QED
        BY <1>4, <3>1, <3>2, <4>1
    <3> QED
      BY <3>1, <3>2
  <2> HIDE DEF at
  <2>5. w \in WatchRow /\ w.lines = watch.lines /\ w.at = at /\ w.saved = watch.saved
    BY <1>4, <2>2 DEF WatchRow
  <2> HIDE DEF w
  <2> QED
    BY <1>5, <2>1, <2>3, <2>4, <2>5 DEF JournalInv, WatchOK
<1>8. CASE WatchLook
  <2> DEFINE w == [watch EXCEPT !.pc = "handling", !.lines = hot]
  <2>1. watch' = w /\ sent' = sent /\ watch.pc = "looking"
    BY <1>8 DEF WatchLook
  <2>2. w \in WatchRow /\ w.lines = hot /\ w.at = watch.at /\ w.saved = watch.saved
    BY <1>4 DEF WatchRow
  <2>3. Archived = {} => MailedNow(watch.saved) /\ MailedNow(watch.at)
    BY <1>6, <2>1 DEF JournalInv, WatchOK
  <2> HIDE DEF w
  <2> QED
    BY <1>4, <1>5, <2>1, <2>2, <2>3
<1>9. CASE WatchHandle
  <2> DEFINE at == watch.at + 1
             w == [watch EXCEPT !.at = at]
             id == watch.lines[at].id
  <2>1. /\ watch' = w /\ sent' = sent \cup {id} /\ watch.pc = "handling"
        /\ watch.at < Len(watch.lines)
    BY <1>4, <1>9 DEF WatchHandle
  <2>2. at \in Nat /\ at \in DOMAIN watch.lines /\ at <= Len(watch.lines)
    BY <1>4, <2>1
  <2>3. id \in 1..born
    BY <1>4, <2>2, InFile
  <2>4. sent' \subseteq 1..born /\ sent \subseteq sent'
    BY <1>4, <2>1, <2>3
  <2>5. ASSUME Archived = {}
        PROVE  MailedNow(watch.saved) /\ MailedNow(at)
    <3>1. MailedNow(watch.saved)
      BY <1>6, <2>4, <2>5 DEF JournalInv, WatchOK
    <3>2. at <= Len(hot) /\ watch.lines[at] = hot[at]
      BY <1>4, <2>2, <2>5 DEF JournalInv, WatchOK
    <3>3. \A i \in DOMAIN hot : i <= watch.at => hot[i].id \in sent
      BY <2>1, <2>5 DEF JournalInv, WatchOK, Mailed
    <3>4. \A i \in DOMAIN hot : i <= at => hot[i].id \in sent'
      <4> SUFFICES ASSUME NEW i \in DOMAIN hot, i <= at PROVE hot[i].id \in sent'
        OBVIOUS
      <4>1. i <= watch.at \/ i = at
        BY <1>4
      <4> QED
        BY <2>1, <3>2, <3>3, <4>1
    <3> QED
      BY <3>1, <3>2, <3>4
  <2> HIDE DEF at, id
  <2>6. w \in WatchRow /\ w.lines = watch.lines /\ w.at = at /\ w.saved = watch.saved
    BY <1>4, <2>2 DEF WatchRow
  <2> HIDE DEF w
  <2> QED
    BY <1>5, <2>1, <2>4, <2>5, <2>6 DEF JournalInv, WatchOK
<1>10. CASE WatchSave
  <2> DEFINE none == <<>>
             w == [watch EXCEPT !.pc = "looking", !.saved = watch.at, !.lines = none]
  <2>1. watch' = w /\ sent' = sent /\ watch.pc = "handling"
    BY <1>10 DEF WatchSave
  <2>e. none \in Seq(Row) /\ none = <<>>
    BY <1>e
  <2> HIDE DEF none
  <2>2. w \in WatchRow /\ w.lines = none /\ w.at = watch.at /\ w.saved = watch.at
    BY <1>4, <2>e DEF WatchRow
  <2>3. Archived = {} => MailedNow(watch.at)
    BY <1>6, <2>1 DEF JournalInv, WatchOK
  <2> HIDE DEF w
  <2> QED
    BY <1>4, <1>5, <1>e, <2>1, <2>2, <2>3, <2>e
<1>11. CASE KillWatch
  <2> DEFINE none == <<>>
             w == [watch EXCEPT !.pc = "off", !.at = 0, !.lines = none]
  <2>1. watch' = w /\ sent' = sent
    BY <1>11 DEF KillWatch
  <2>e. none \in Seq(Row) /\ none = <<>>
    BY <1>e
  <2> HIDE DEF none
  <2>2. w \in WatchRow /\ w.lines = none /\ w.pc = "off" /\ w.saved = watch.saved
    BY <1>4, <2>e DEF WatchRow
  <2>3. Archived = {} => MailedNow(watch.saved)
    BY <1>6, <2>1 DEF JournalInv, WatchOK
  <2> HIDE DEF w
  <2> QED
    BY <1>4, <1>5, <1>e, <2>1, <2>2, <2>3, <2>e
<1> QED
  BY <1>7, <1>8, <1>9, <1>10, <1>11 DEF Watching

LEMMA MonthInv ==
  ASSUME JournalInv, NewMonth
  PROVE  JournalInv'
<1>1. /\ RowsSame /\ WatchSame /\ gz' = gz /\ cache' = cache /\ lock' = lock
      /\ threads' = threads /\ now' = now + 1 /\ now < MaxMonth /\ now \in Nat
  BY DEF NewMonth, RowsSame, WatchSame, JournalInv, FilesTyped
<1>2. FilesTyped' /\ ThreadsTyped'
  BY <1>1, SameTyped DEF JournalInv, FilesTyped, ThreadsTyped
<1>3. RoomKept' /\ LockOK' /\ RotationOK'
  BY <1>1, RoomStays, SameRotation DEF JournalInv, LockOK, RowsSame, Writing
<1>4. TwicePast'
  <2>1. \A r \in Twice : r.month \in Nat
    BY Typed DEF Twice, Row
  <2>2. threads[Rotator].current \in Nat
    BY Typed DEF ThreadRow
  <2> QED
    BY <1>1, <2>1, <2>2, SameRows DEF JournalInv, TwicePast, Whole
<1> QED
  BY <1>1, <1>2, <1>3, <1>4, ThreadOnly

LEMMA KilledRows ==
  ASSUME JournalInv, Kill
  PROVE  gz' \in [Month -> Archive1] /\ \A k \in Month : gz'[k].rows = gz[k].rows
<1> DEFINE m == NextMonth(Rotator)
<1>1. gz \in [Month -> Archive1]
  BY DEF JournalInv, FilesTyped
<1>2. \/ gz' = gz
      \/ threads[Rotator].gone # {} /\ gz' = [gz EXCEPT ![m].torn = TRUE]
  BY DEF Kill
<1>3. CASE threads[Rotator].gone # {} /\ gz' = [gz EXCEPT ![m].torn = TRUE]
  <2>1. m \in Month
    BY <1>3, Typed, NextIsMonth
  <2> DEFINE entry == [gz[m] EXCEPT !.torn = TRUE]
  <2> HIDE DEF m
  <2>2. gz[m] \in Archive1
    BY <1>1, <2>1
  <2>3. entry \in Archive1 /\ entry.rows = gz[m].rows
    BY <2>2 DEF Archive1
  <2>4. gz' = [gz EXCEPT ![m] = entry]
    BY <1>1, <1>3
  <2> HIDE DEF entry
  <2> QED
    BY <1>1, <2>1, <2>3, <2>4
<1> QED
  BY <1>1, <1>2, <1>3

LEMMA KillInv ==
  ASSUME Outside = {}, JournalInv, Kill
  PROVE  JournalInv'
<1>1. /\ hot' = hot /\ born' = born /\ now' = now /\ WatchSame
      /\ lock' = [lock EXCEPT !["server"] = Free]
      /\ cache' = [cache EXCEPT !["server"] = NoCache]
  BY DEF Kill, WatchSame
<1>2. threads' = [t \in Thread |-> IF t = Rotator THEN Boot ELSE Idle]
  BY DEF Kill
<1>3. gz' \in [Month -> Archive1] /\ \A k \in Month : gz'[k].rows = gz[k].rows
  BY KilledRows
<1>4. RowsSame
  BY <1>1, <1>3 DEF RowsSame
<1>5. /\ threads' \in [Thread -> ThreadRow] /\ threads'[Rotator].pc = "boot"
      /\ \A t \in Thread \ {Rotator} : threads'[t].pc = "idle"
  BY <1>2, IdleRow
<1>6. NoCache \in CacheRow /\ NoCache.size = -1
  <2>1. -1 \in -1..MaxRows /\ 0 \in 0..MaxRows
    BY Typed
  <2> QED
    BY <2>1 DEF NoCache, CacheRow
<1>7. FilesTyped' /\ ThreadsTyped'
  BY <1>1, <1>3, <1>4, <1>5, <1>6, SameTyped DEF JournalInv, FilesTyped, ThreadsTyped
<1>8. RoomKept'
  <2>1. Writing' = {}
    BY <1>5 DEF Writing
  <2> QED
    BY <1>1, <2>1, RoomStays
<1>9. LockOK'
  <2>1. cache'["server"].size = -1 /\ Len(hot) >= 0
    BY <1>1, <1>6, Typed DEF JournalInv, ThreadsTyped
  <2>2. cache'["server"].size # Len(hot')
    BY <1>1, <2>1
  <2> QED
    BY <1>5, <2>2 DEF LockOK
<1>10. TwicePast'
  BY <1>1, <1>4, <1>5, SameRows DEF JournalInv, TwicePast
<1>11. RotationOK'
  BY <1>5, RestingRotation
<1> QED
  BY <1>1, <1>4, <1>7, <1>8, <1>9, <1>10, <1>11, ThreadOnly

-----------------------------------------------------------------------------
(* Induction.                                                              *)

LEMMA InitInv ==
  ASSUME JournalInit
  PROVE  JournalInv
<1>0. /\ now = 1 /\ hot = <<>> /\ sent = {} /\ born = 0
      /\ gz = [m \in Month |-> [rows |-> <<>>, torn |-> FALSE]]
      /\ cache = [p \in Process |-> NoCache] /\ lock = [p \in Process |-> Free]
      /\ threads = [t \in Thread |-> IF t = Rotator THEN Boot ELSE Idle]
      /\ watch = [pc |-> "off", at |-> 0, lines |-> <<>>, saved |-> -1]
  BY DEF JournalInit
<1>1. <<>> \in Seq(Row) /\ ToSet(<<>>) = {} /\ Len(<<>>) = 0 /\ DOMAIN <<>> = {}
  BY DEF ToSet
<1>2. Archived = {}
  BY <1>0, <1>1 DEF Archived
<1>3. watch \in WatchRow /\ watch.lines = <<>> /\ watch.saved = -1 /\ watch.pc = "off"
  BY <1>0, <1>1 DEF WatchRow
<1>4. FilesTyped
  <2>1. [rows |-> <<>>, torn |-> FALSE] \in Archive1
    BY <1>1 DEF Archive1
  <2>2. gz \in [Month -> Archive1]
    BY <1>0, <2>1
  <2>3. now \in Month /\ born \in 0..MaxRows /\ sent \subseteq 1..born
    BY <1>0
  <2>4. hot \in Seq(Row)
    BY <1>0, <1>1
  <2> QED
    BY <1>3, <2>2, <2>3, <2>4 DEF FilesTyped
<1>5. /\ threads \in [Thread -> ThreadRow] /\ threads[Rotator].pc = "boot"
      /\ \A t \in Thread \ {Rotator} : threads[t].pc = "idle"
  BY <1>0, IdleRow
<1>6. NoCache \in CacheRow /\ NoCache.size = -1
  <2>1. -1 \in -1..MaxRows /\ 0 \in 0..MaxRows
    OBVIOUS
  <2> QED
    BY <2>1 DEF NoCache, CacheRow
<1>7. ThreadsTyped
  BY <1>0, <1>5, <1>6 DEF ThreadsTyped
<1>8. FilesOK
  BY <1>0, <1>1, <1>2, <1>3 DEF FilesOK, Numbered, InOrder
<1>9. RoomKept
  <2>1. Writing = {}
    BY <1>5 DEF Writing
  <2>2. Cardinality(Writing) = 0
    BY <2>1, FS_EmptySet
  <2> QED
    BY <1>0, <2>2 DEF RoomKept
<1>10. LockOK
  <2>1. cache["server"].size = -1
    BY <1>0, <1>6
  <2>2. Len(hot) = 0
    BY <1>0, <1>1
  <2>3. \A t \in Thread : threads[t].pc \notin {"numbered", "archiving"}
    BY <1>5
  <2>4. cache["server"].size # Len(hot)
    BY <2>1, <2>2
  <2> QED
    BY <2>3, <2>4 DEF LockOK
<1>11. Present /\ Copies
  BY <1>0, <1>1, <1>2 DEF Present, Copies
<1>12. OneEach
  BY <1>0, <1>1 DEF OneEach
<1>13. TwicePast /\ RotationOK
  BY <1>2, <1>5 DEF TwicePast, Twice, RotationOK, Marked, SomethingGoes, Splits
<1>14. WatchOK
  BY <1>0, <1>1, <1>3 DEF WatchOK, Mailed
<1> QED
  BY <1>4, <1>7, <1>8, <1>9, <1>10, <1>11, <1>12, <1>13, <1>14 DEF JournalInv

LEMMA StepInv ==
  ASSUME Outside = {}, JournalInv, [JournalNext]_journalVars
  PROVE  JournalInv'
<1>1. ASSUME NEW t \in Thread, Appending(t)
      PROVE  JournalInv'
  BY <1>1, StampInv, NumberInv, WriteInv DEF Appending
<1>2. ASSUME NEW t \in Thread, Rotating(t)
      PROVE  JournalInv'
  BY <1>2, ScanInv, RescanInv, TornInv, ArchiveInv, ReplaceInv DEF Rotating
<1>3. CASE UNCHANGED journalVars
  <2>1. /\ RowsSame /\ WatchSame /\ now' = now /\ gz' = gz /\ cache' = cache /\ lock' = lock
        /\ threads' = threads
    BY <1>3 DEF journalVars, RowsSame, WatchSame
  <2>2. FilesTyped' /\ ThreadsTyped'
    BY <2>1, SameTyped DEF JournalInv, FilesTyped, ThreadsTyped
  <2>3. RoomKept' /\ LockOK' /\ RotationOK' /\ TwicePast'
    BY <2>1, RoomStays, SameRotation, SameRows
    DEF JournalInv, LockOK, RowsSame, Writing, TwicePast, Whole
  <2> QED
    BY <2>1, <2>2, <2>3, ThreadOnly
<1> QED
  BY <1>1, <1>2, <1>3, WatchInv, MonthInv, KillInv DEF JournalNext

LEMMA InvAlways == Outside = {} /\ JournalSpec => []JournalInv
<1> SUFFICES ASSUME Outside = {} PROVE JournalSpec => []JournalInv
  OBVIOUS
<1>1. JournalInit => JournalInv
  BY InitInv
<1>2. JournalInv /\ [JournalNext]_journalVars => JournalInv'
  BY StepInv
<1> QED
  BY <1>1, <1>2, PTL DEF JournalSpec

(* The types of JournalTypeOK: a number is never above the rows there are  *)
(* room for, in whatever order threads, rotation and kills come.           *)
THEOREM JournalTypes == Outside = {} => (JournalSpec => []JournalTypeOK)
<1> SUFFICES ASSUME Outside = {} PROVE JournalSpec => []JournalTypeOK
  OBVIOUS
<1>1. JournalInv => JournalTypeOK
  <2> SUFFICES ASSUME JournalInv PROVE JournalTypeOK
    OBVIOUS
  <2>1. ToSet(hot) \subseteq Row /\ Len(hot) <= MaxRows
    BY Typed DEF JournalInv, FilesOK, InOrder
  <2>2. \A m \in Month : gz[m].torn \in BOOLEAN /\ ToSet(gz[m].rows) \subseteq Row
    BY Typed, InFile DEF Archive1
  <2>3. \A p \in Process : cache[p].size \in -1..MaxRows /\ cache[p].seq \in 0..MaxRows
    BY DEF JournalInv, ThreadsTyped, CacheRow
  <2> QED
    BY <2>1, <2>2, <2>3 DEF JournalTypeOK, JournalInv, FilesTyped, ThreadsTyped
<1> QED
  BY <1>1, InvAlways, PTL

(* A row that was written stays in the hot file or in the archive, however *)
(* rotations are cut off, repeated or refused by a torn archive.           *)
THEOREM NoRowIsLost == Outside = {} => (JournalSpec => []NothingLost)
<1> SUFFICES ASSUME Outside = {} PROVE JournalSpec => []NothingLost
  OBVIOUS
<1>1. JournalInv => NothingLost
  BY DEF JournalInv, Present, NothingLost
<1> QED
  BY <1>1, InvAlways, PTL

(* The next number is above every number in the hot file and the archives, *)
(* also after a rotation that left of the file little but its marker.      *)
THEOREM NumbersGrow == Outside = {} => (JournalSpec => SeqGrows)
<1> SUFFICES ASSUME Outside = {} PROVE JournalSpec => SeqGrows
  OBVIOUS
<1> DEFINE Grows == born' > born => \A r \in ToSet(hot) \cup Archived : r.seq < hot'[Len(hot')].seq
<1>1. ASSUME JournalInv, [JournalNext]_journalVars
      PROVE  Grows
  <2> SUFFICES ASSUME born' > born PROVE \A r \in ToSet(hot) \cup Archived : r.seq < hot'[Len(hot')].seq
    OBVIOUS
  <2>1. PICK t \in Thread : Write(t)
    <3>1. born' # born
      <4>1. born \in Nat
        BY <1>1, Typed
      <4> QED
        BY <4>1
    <3> QED
      BY <1>1, <3>1
      DEF JournalNext, Appending, Rotating, Watching, Stamp, Number, Scan, Rescan, Archive,
          Replace, WatchStart, WatchLook, WatchHandle, WatchSave, NewMonth, Kill, KillWatch,
          journalVars
  <2>2. PICK row : Written(row)
    BY <1>1, <2>1, NewRow
  <2>3. row \in Row /\ row.seq = born + 1 /\ hot' = Append(hot, row)
    BY <2>2 DEF Written
  <2>4. hot'[Len(hot')].seq = born + 1
    BY <1>1, <2>3, Typed, AppendSet
  <2>5. \A r \in ToSet(hot) \cup Archived : r.seq <= born /\ r \in Row
    BY <1>1, Typed DEF JournalInv, FilesOK, Numbered
  <2>6. \A r \in ToSet(hot) \cup Archived : r.seq \in Nat /\ r.seq <= born
    BY <2>5 DEF Row
  <2> QED
    BY <1>1, <2>4, <2>6, Typed
<1>2. JournalInv /\ [JournalNext]_journalVars => [Grows]_journalVars
  BY <1>1
<1> QED
  BY <1>2, InvAlways, PTL DEF JournalSpec, SeqGrows

-----------------------------------------------------------------------------
(* The log as a whole: a write adds the next row, no other step changes    *)
(* what the hot file and the archives hold together.                       *)

SameLog == born' = born /\ ToSet(hot') \cup Archived' = ToSet(hot) \cup Archived

LEMMA ReplacedLog ==
  ASSUME JournalInv, NEW t \in Thread, Replace(t)
  PROVE  SameLog
<1> DEFINE T == threads[Rotator]
<1>1. /\ hot' = T.keep /\ gz' = gz /\ born' = born
      /\ T.pc = "archiving" /\ T.gone = {}
  BY DEF Replace
<1>2. Archived' = Archived
  BY <1>1 DEF Archived
<1>3. ToSet(T.keep) \subseteq ToSet(hot) /\ ToSet(hot) \subseteq ToSet(T.keep) \cup T.gone \cup Archived
  BY <1>1 DEF JournalInv, RotationOK, Splits
<1>4. ToSet(hot') = ToSet(T.keep)
  BY <1>1
<1> HIDE DEF T
<1> QED
  BY <1>1, <1>2, <1>3, <1>4 DEF SameLog

LEMMA ArchivedLog ==
  ASSUME JournalInv, NEW t \in Thread, Archive(t)
  PROVE  SameLog
<1> DEFINE T == threads[t]
           m == NextMonth(t)
           fresh == Fresh(m, Batch(t))
           old == gz[m].rows
<1>1. hot' = hot /\ born' = born /\ t = Rotator /\ T.pc = "archiving" /\ T.gone # {}
  BY DEF Archive
<1>2. CASE gz' = gz
  BY <1>1, <1>2 DEF SameLog, Archived
<1>3. ASSUME NEW file \in Lines(fresh, "seq"), gz' = [gz EXCEPT ![m].rows = old \o file]
      PROVE  SameLog
  <2>1. m \in Month /\ T \in ThreadRow
    BY <1>1, NextIsMonth, Typed
  <2>2. T.gone \subseteq ToSet(hot)
    BY <1>1 DEF JournalInv, RotationOK, Splits
  <2>3. fresh \subseteq ToSet(hot) /\ fresh \subseteq Row
    <3>1. fresh \subseteq T.gone
      BY DEF Fresh, Batch
    <3> HIDE DEF fresh, T
    <3> QED
      BY <2>2, <3>1, Typed
  <2> HIDE DEF fresh, m
  <2>4. file \in Seq(Row) /\ ToSet(file) = fresh
    BY <2>3, PiecesOfAFile, LinesHold, Typed
  <2>5. gz \in [Month -> Archive1] /\ gz[m] \in Archive1 /\ old \in Seq(Row)
    BY <2>1, Typed DEF JournalInv, FilesTyped
  <2>6. old \o file \in Seq(Row) /\ ToSet(old \o file) = ToSet(old) \cup ToSet(file)
    BY <2>4, <2>5, JoinSet
  <2> DEFINE joined == old \o file
             entry == [gz[m] EXCEPT !.rows = joined]
  <2>8. entry.rows = joined /\ gz' = [gz EXCEPT ![m] = entry]
    <3>1. gz' = [gz EXCEPT ![m] = entry]
      BY <1>3, <2>5
    <3> HIDE DEF joined
    <3>2. entry.rows = joined
      BY <2>5 DEF Archive1
    <3> QED
      BY <3>1, <3>2
  <2> HIDE DEF joined, entry
  <2>9. gz'[m].rows = joined /\ \A k \in Month : k # m => gz'[k] = gz[k]
    BY <2>1, <2>5, <2>8
  <2>7. Archived' = Archived \cup ToSet(file)
    <3>1. Archived' = UNION {ToSet(gz'[k].rows) : k \in Month}
      BY DEF Archived
    <3>2. \A k \in Month : ToSet(gz'[k].rows) = IF k = m THEN ToSet(old) \cup ToSet(file)
                                                        ELSE ToSet(gz[k].rows)
      BY <2>6, <2>9 DEF joined
    <3> QED
      BY <2>1, <3>1, <3>2 DEF Archived, old
  <2> HIDE DEF old, T
  <2> QED
    BY <1>1, <2>3, <2>4, <2>7 DEF SameLog
<1>4. gz' = gz \/ \E file \in Lines(fresh, "seq") : gz' = [gz EXCEPT ![m].rows = old \o file]
  BY DEF Archive, Batch
<1> QED
  BY <1>2, <1>3, <1>4

LEMMA LogSteps ==
  ASSUME Outside = {}, JournalInv, [JournalNext]_journalVars
  PROVE  SameLog \/ \E row \in Row : OneLog!LogWrite(row)
<1>1. ASSUME NEW t \in Thread, Write(t) PROVE \E row \in Row : OneLog!LogWrite(row)
  <2>1. PICK row : Written(row)
    BY <1>1, NewRow
  <2>2. row \in Row /\ row.seq = born + 1 /\ born' = row.seq /\ hot' = Append(hot, row) /\ gz' = gz
    BY <2>1 DEF Written
  <2>3. ToSet(hot') = ToSet(hot) \cup {row} /\ Archived' = Archived
    BY <2>2, Typed, AppendSet DEF Archived
  <2>4. ToSet(hot') \cup Archived' = (ToSet(hot) \cup Archived) \cup {row}
    BY <2>3
  <2> QED
    BY <2>2, <2>4 DEF OneLog!LogWrite
<1>2. RowsSame => SameLog
  BY SameArchived DEF RowsSame, SameLog
<1>3. ASSUME NEW t \in Thread, Stamp(t) \/ Number(t) \/ Scan(t) \/ Rescan(t) PROVE RowsSame
  BY <1>3 DEF Stamp, Number, Scan, Rescan, RowsSame
<1>4. ASSUME Watching \/ NewMonth \/ KillWatch \/ UNCHANGED journalVars PROVE RowsSame
  BY <1>4 DEF Watching, WatchStart, WatchLook, WatchHandle, WatchSave, NewMonth, KillWatch,
              journalVars, RowsSame
<1>5. CASE Kill
  <2>1. hot' = hot /\ born' = born
    BY <1>5 DEF Kill
  <2>2. \A k \in Month : gz'[k].rows = gz[k].rows
    BY <1>5, KilledRows
  <2> QED
    BY <1>2, <2>1, <2>2 DEF RowsSame
<1> QED
  BY <1>1, <1>2, <1>3, <1>4, <1>5, ReplacedLog, ArchivedLog
     DEF JournalNext, Appending, Rotating

(* Hot file and archives together are one log to which rows are added, one *)
(* number after the other, and from which nothing is taken (append,        *)
(* rotate_events), at whatever step the server is killed.                  *)
THEOREM TheLogOnlyGrows == Outside = {} => (JournalSpec => LogOnlyGrows)
<1> SUFFICES ASSUME Outside = {} PROVE JournalSpec => LogOnlyGrows
  OBVIOUS
<1>1. JournalInit => OneLog!Init
  <2> SUFFICES ASSUME JournalInit PROVE ToSet(hot) \cup Archived = {} /\ born = 0
    BY DEF OneLog!Init
  <2>1. \A m \in Month : gz[m].rows = <<>>
    BY DEF JournalInit
  <2>2. ToSet(<<>>) = {}
    BY DEF ToSet
  <2> QED
    BY <2>1, <2>2 DEF JournalInit, Archived
<1>2. JournalInv /\ [JournalNext]_journalVars => [OneLog!Next]_<<ToSet(hot) \cup Archived, born>>
  BY LogSteps DEF SameLog, OneLog!Next
<1> QED
  BY <1>1, <1>2, InvAlways, PTL DEF JournalSpec, LogOnlyGrows, OneLog!Spec

(* Once the rotation has ended and no archive is torn, each number stands  *)
(* at one line of one file, whatever earlier rotations left in two.        *)
THEOREM RotationIsMended == Outside = {} => (JournalSpec => []RotationMends)
<1> SUFFICES ASSUME Outside = {} PROVE JournalSpec => []RotationMends
  OBVIOUS
<1>1. ASSUME JournalInv, threads[Rotator].pc = "idle", Whole
      PROVE  Continuous
  <2> SUFFICES ASSUME NEW n \in 1..born
               PROVE  \E f \in File : \E i \in DOMAIN LinesOf(f) :
                        \A g \in File : \A j \in DOMAIN LinesOf(g) :
                          LinesOf(g)[j].seq = n <=> (g = f /\ j = i)
    BY DEF Continuous
  <2>0. /\ LinesOf(0) = hot /\ \A m \in Month : LinesOf(m) = gz[m].rows
        /\ \A f \in File : f = 0 \/ f \in Month
        /\ 0 \in File /\ Month \subseteq File
    BY DEF LinesOf, File
  <2>1. \A f \in File : /\ LinesOf(f) \in Seq(Row) /\ DOMAIN LinesOf(f) \subseteq Nat
                        /\ \A i \in DOMAIN LinesOf(f) : LinesOf(f)[i] \in ToSet(LinesOf(f))
                        /\ \A r \in ToSet(LinesOf(f)) : \E i \in DOMAIN LinesOf(f) : r = LinesOf(f)[i]
    BY <1>1, <2>0, Typed, InFile
  <2>2. \A f \in File : ToSet(LinesOf(f)) \subseteq ToSet(hot) \cup Archived
    BY <2>0, ArchivedRows
  <2>3. \A r \in ToSet(hot) \cup Archived : r.seq = r.id /\ r \in Row
    BY <1>1, Typed DEF JournalInv, FilesOK, Numbered
  <2>4. PICK r \in ToSet(hot) \cup Archived : r.id = n
    BY <1>1 DEF JournalInv, Present
  <2>5. PICK f \in File : r \in ToSet(LinesOf(f))
    BY <2>0, ArchivedRows
  <2>6. PICK i \in DOMAIN LinesOf(f) : r = LinesOf(f)[i]
    BY <2>1, <2>5
  <2>7. ASSUME NEW g \in File, NEW j \in DOMAIN LinesOf(g), LinesOf(g)[j].seq = n
        PROVE  g = f /\ j = i
    <3> DEFINE s == LinesOf(g)[j]
    <3>1. s \in ToSet(LinesOf(g)) /\ s.id = r.id /\ s \in ToSet(hot) \cup Archived
      BY <2>1, <2>2, <2>3, <2>4, <2>7
    <3>2. CASE f = 0 /\ g = 0
      <4>1. s = r
        BY <1>1, <2>0, <2>5, <3>1, <3>2, IdsDiffer
      <4>2. i \in Nat /\ j \in Nat /\ i \in DOMAIN hot /\ j \in DOMAIN hot /\ hot[i] = hot[j]
        BY <2>0, <2>1, <2>6, <3>2, <4>1
      <4>3. hot[i].id \in Nat
        <5>1. hot[i] \in Row
          BY <1>1, <4>2, Typed
        <5> QED
          BY <5>1 DEF Row
      <4>4. (i < j => hot[i].id < hot[j].id) /\ (j < i => hot[j].id < hot[i].id)
        BY <1>1, <4>2 DEF JournalInv, FilesOK, InOrder
      <4> QED
        BY <3>2, <4>2, <4>3, <4>4
    <3>3. CASE (f = 0 /\ g \in Month) \/ (g = 0 /\ f \in Month)
      <4>1. \/ r \in ToSet(hot) /\ s \in Archived
            \/ s \in ToSet(hot) /\ r \in Archived
        BY <2>0, <2>5, <3>1, <3>3, ArchivedRows
      <4>2. r = s
        BY <1>1, <3>1, <4>1 DEF JournalInv, Copies
      <4> QED
        BY <1>1, <4>1, <4>2 DEF JournalInv, TwicePast, Twice
    <3>4. CASE f \in Month /\ g \in Month
      <4>1. r.month = f /\ s.month = g
        BY <1>1, <2>0, <2>5, <3>1, <3>4 DEF JournalInv, OneEach
      <4>2. f = g
        <5>1. r \in Archived /\ s \in Archived
          BY <2>0, <2>5, <3>1, <3>4, ArchivedRows
        <5> QED
          BY <1>1, <3>1, <4>1, <5>1 DEF JournalInv, Copies
      <4> QED
        BY <1>1, <2>0, <2>6, <3>1, <3>4, <4>2 DEF JournalInv, OneEach
    <3> QED
      BY <2>0, <3>2, <3>3, <3>4
  <2>8. LinesOf(f)[i].seq = n
    BY <2>3, <2>4, <2>6
  <2> QED
    BY <2>7, <2>8
<1>2. JournalInv => RotationMends
  BY <1>1 DEF RotationMends, Whole
<1> QED
  BY <1>2, InvAlways, PTL

(* As long as no row has left the hot file, what the watcher is done with  *)
(* or has saved as done was mailed, across its own kills.                  *)
THEOREM WhatIsSavedWasSent == Outside = {} => (JournalSpec => []SavedIsSent)
<1> SUFFICES ASSUME Outside = {} PROVE JournalSpec => []SavedIsSent
  OBVIOUS
<1>1. JournalInv => SavedIsSent
  BY DEF JournalInv, WatchOK, Mailed, SavedIsSent, Done
<1> QED
  BY <1>1, InvAlways, PTL
=============================================================================
