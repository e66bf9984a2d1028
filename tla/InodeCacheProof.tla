-------------------------- MODULE InodeCacheProof --------------------------
(* The inode cache for any i-list, any depth of the cache and any number of *)
(* failures: what ialloc hands out is free, and the totals are not too high. *)
EXTENDS InodeCache, FiniteSetTheorems, TLAPS

\* inode_create holds a number that is not yet written.
Pending == pc = "winode" /\ then = "create"
Spare == Cardinality(Free) - (IF Pending THEN 1 ELSE 0)

Types ==
  /\ live \in SUBSET Ino /\ 2 \in live
  /\ cache \in Seq(Entry) /\ tinode \in Nat /\ cand \in Nat
  /\ sb \in [inode : Seq(Entry), tinode : Nat]
  /\ {totals, fl_dirty} \subseteq BOOLEAN
  /\ faults \in Nat /\ blind \in Nat
  /\ pc \in {"idle", "pop", "read", "scan", "winode"}
  /\ then \in {"none", "zero", "create", "destroy"}
  /\ pc = "winode" => then # "none"

\* What each place in a request knows of its candidate.
Candidate ==
  /\ pc = "read" => cand \in 2..MaxIno
  /\ pc = "scan" => cand \in 2..(MaxIno + 1) /\ (cache = <<>> => 2..(cand - 1) \subseteq live)
  /\ pc = "winode" /\ then \in {"zero", "create"} => cand \in Free \ {1}
  /\ pc = "winode" /\ then = "destroy" => cand \in live /\ cand > 2
  /\ result = "ENOSPC" => pc = "idle" /\ 2..MaxIno \subseteq live

\* The number that is held is already off the total, in core and, once that is
\* flushed, on disk.
Totals ==
  /\ tinode <= Spare + blind
  /\ totals => /\ sb.tinode <= Cardinality(Free) + blind
               /\ ~fl_dirty => sb.tinode <= Spare + blind

IInv == Types /\ Candidate /\ Totals

\* The free inodes are finitely many, and are what live leaves of the i-list.
LEMMA FreeCount ==
  ASSUME NEW L \in SUBSET Ino
  PROVE  /\ IsFiniteSet(Ino \ L) /\ Cardinality(Ino \ L) \in Nat
         /\ Cardinality(Ino \ L) = MaxIno - Cardinality(L)
<1>1. IsFiniteSet(Ino) /\ Cardinality(Ino) = MaxIno
  BY FS_Interval, SizeAssumption DEF Ino
<1>2. IsFiniteSet(L) /\ Cardinality(L) \in Nat
  BY <1>1, FS_Subset, FS_CardinalityType
<1>3. IsFiniteSet(Ino \ L) /\ Cardinality(Ino \ L) = Cardinality(Ino) - Cardinality(Ino \cap L)
  BY <1>1, FS_Difference
<1>4. Ino \cap L = L
  OBVIOUS
<1> QED
  BY <1>1, <1>2, <1>3, <1>4, FS_CardinalityType

\* Their number moves by one with each inode written or cleared.
LEMMA FreeMoves ==
  ASSUME NEW L \in SUBSET Ino, NEW i \in Ino
  PROVE  /\ i \notin L => Cardinality(Ino \ (L \cup {i})) = Cardinality(Ino \ L) - 1
         /\ i \in L => Cardinality(Ino \ (L \ {i})) = Cardinality(Ino \ L) + 1
<1>1. IsFiniteSet(Ino \ L)
  BY FreeCount
<1>2. ASSUME i \notin L PROVE Cardinality(Ino \ (L \cup {i})) = Cardinality(Ino \ L) - 1
  <2>1. Ino \ (L \cup {i}) = (Ino \ L) \ {i} /\ i \in Ino \ L
    BY <1>2
  <2> QED
    BY <2>1, <1>1, FS_RemoveElement
<1>3. ASSUME i \in L PROVE Cardinality(Ino \ (L \ {i})) = Cardinality(Ino \ L) + 1
  <2>1. Ino \ (L \ {i}) = (Ino \ L) \cup {i} /\ i \notin Ino \ L
    BY <1>3
  <2> QED
    BY <2>1, <1>1, FS_AddElement
<1> QED
  BY <1>2, <1>3

\* An inode that is held is one of the free ones.
LEMMA HeldIsSpare ==
  ASSUME Types, NEW i \in Free
  PROVE  Cardinality(Free) \in Nat \ {0}
<1>1. IsFiniteSet(Free) /\ Cardinality(Free) \in Nat
  BY FreeCount DEF Types, Free
<1>2. Free # {}
  OBVIOUS
<1> QED
  BY <1>1, <1>2, FS_EmptySet

\* A number that is cut to sixteen bits is no larger.
LEMMA ShortFits ==
  ASSUME NEW i \in 0..(MaxIno + 1)
  PROVE  Short(i) \in Entry
<1>1. i \in Nat /\ i <= MaxIno + 1
  BY SizeAssumption
<1>2. i % 65536 \in Nat /\ i % 65536 <= i
  BY <1>1
<1> QED
  BY <1>1, <1>2, SizeAssumption DEF Short, Entry

\* Whatever the cache holds at first, the invariant does.
LEMMA InitIInv == Init => IInv
<1> SUFFICES ASSUME Init PROVE IInv
  OBVIOUS
<1> USE SizeAssumption
<1>1. live \in SUBSET Ino /\ 2 \in live
  BY DEF Init
<1>2. cache \in Seq(Entry)
  <2>1. PICK n \in 0..NICINOD : cache \in [1..n -> Entry]
    BY DEF Init
  <2> QED
    BY <2>1
<1>3. Cardinality(Free) \in Nat
  BY <1>1, FreeCount DEF Free
<1>4. Types
  BY <1>1, <1>2, <1>3 DEF Types, Init
<1>5. Candidate
  BY DEF Candidate, Init
<1>6. Totals
  BY <1>3 DEF Totals, Init, Spare, Pending
<1> QED
  BY <1>4, <1>5, <1>6 DEF IInv

\* The steps that leave the i-list alone, one by one.
LEMMA QuietSteps ==
  ASSUME IInv,
         \/ BeginIalloc \/ Pop \/ Read \/ ReadFails \/ BeginScan \/ Scan \/ ScanEnds
         \/ WriteInodeFlush \/ Sync \/ \E i \in Ino : BeginDestroy(i)
  PROVE  IInv'
<1> USE SizeAssumption, FaultAssumption DEF IInv, disk, core, where, Works
<1>0. Cardinality(Free) \in Nat
  BY FreeCount DEF Types, Free
<1>f. live' = live /\ Free' = Free
  BY DEF Free, BeginIalloc, Pop, Read, ReadFails, BeginScan, Scan, ScanEnds,
         WriteInodeFlush, Sync, BeginDestroy
<1>1. CASE BeginIalloc
  <2>1. Types'
    BY <1>1, <1>f DEF Types, Entry, BeginIalloc
  <2>2. Candidate'
    BY <1>1, <1>f DEF Types, Candidate, Ino, Free, BeginIalloc
  <2>3. Totals'
    BY <1>1, <1>f, <1>0 DEF Types, Totals, Spare, Pending, BeginIalloc
  <2> QED
    BY <2>1, <2>2, <2>3
<1>2. CASE Pop
  <2>c. cache[Len(cache)] \in Entry /\ SubSeq(cache, 1, Len(cache) - 1) \in Seq(Entry)
    BY <1>2 DEF Types, Pop
  <2>i. cache[Len(cache)] \in Nat
    BY <2>c DEF Entry
  <2>1. Types'
    BY <1>2, <1>f, <2>c, <2>i DEF Types, Pop
  <2>2. Candidate'
    BY <1>2, <1>f, <2>i DEF Types, Candidate, Pop
  <2>3. Totals'
    BY <1>2, <1>f, <1>0 DEF Types, Totals, Spare, Pending, Pop
  <2> QED
    BY <2>1, <2>2, <2>3
<1>3. CASE Read
  <2>1. Types'
    BY <1>3, <1>f DEF Types, Entry, Read
  <2>2. Candidate'
    BY <1>3, <1>f DEF Types, Candidate, Ino, Free, Read
  <2>3. Totals'
    BY <1>3, <1>f, <1>0 DEF Types, Totals, Spare, Pending, Read
  <2> QED
    BY <2>1, <2>2, <2>3
<1>4. CASE ReadFails
  <2>1. Types'
    BY <1>4, <1>f DEF Types, Entry, Fails, ReadFails
  <2>2. Candidate'
    BY <1>4, <1>f DEF Types, Candidate, Ino, Free, Fails, ReadFails
  <2>3. Totals'
    BY <1>4, <1>f, <1>0 DEF Types, Totals, Spare, Pending, Fails, ReadFails
  <2> QED
    BY <2>1, <2>2, <2>3
<1>5. CASE BeginScan
  <2>1. Types'
    BY <1>5, <1>f DEF Types, Entry, BeginScan
  <2>2. Candidate'
    BY <1>5, <1>f DEF Types, Candidate, Ino, Free, BeginScan
  <2>3. Totals'
    BY <1>5, <1>f, <1>0 DEF Types, Totals, Spare, Pending, BeginScan
  <2> QED
    BY <2>1, <2>2, <2>3
<1>6. CASE Scan
  <2>c. cand \in 0..(MaxIno + 1) /\ cand \in Nat
    BY <1>6 DEF Candidate, Scan
  <2>a. Append(cache, Short(cand)) \in Seq(Entry)
    BY <2>c, ShortFits DEF Types
  <2>1. Types'
    BY <1>6, <1>f, <2>a, <2>c DEF Types, Scan
  <2>2. Candidate'
    BY <1>6, <1>f DEF Types, Candidate, Ino, Free, Scanning, Scan
  <2>3. Totals'
    BY <1>6, <1>f, <1>0 DEF Types, Totals, Spare, Pending, Scanning, Scan
  <2> QED
    BY <2>1, <2>2, <2>3
<1>7. CASE ScanEnds
  <2>1. Types'
    BY <1>7, <1>f DEF Types, Entry, Scanning, ScanEnds
  <2>2. Candidate'
    BY <1>7, <1>f DEF Types, Candidate, Ino, Free, Scanning, ScanEnds
  <2>3. Totals'
    BY <1>7, <1>f, <1>0 DEF Types, Totals, Spare, Pending, Scanning, ScanEnds
  <2> QED
    BY <2>1, <2>2, <2>3
<1>8. CASE WriteInodeFlush
  <2>1. Types'
    BY <1>8, <1>f DEF Types, Entry, Stored, WriteInodeFlush
  <2>2. Candidate'
    BY <1>8, <1>f DEF Types, Candidate, Ino, Free, Stored, WriteInodeFlush
  <2>3. Totals'
    BY <1>8, <1>f, <1>0 DEF Types, Totals, Spare, Pending, Stored, WriteInodeFlush
  <2> QED
    BY <2>1, <2>2, <2>3
<1>9. CASE Sync
  <2>1. Types'
    BY <1>9, <1>f DEF Types, Entry, Stored, Sync
  <2>2. Candidate'
    BY <1>9, <1>f DEF Types, Candidate, Ino, Free, Stored, Sync
  <2>3. Totals'
    BY <1>9, <1>f, <1>0 DEF Types, Totals, Spare, Pending, Stored, Sync
  <2> QED
    BY <2>1, <2>2, <2>3
<1>10. ASSUME NEW i \in Ino, BeginDestroy(i) PROVE IInv'
  <2>1. Types'
    BY <1>10, <1>f DEF Types, Ino, BeginDestroy
  <2>2. Candidate'
    BY <1>10, <1>f DEF Types, Candidate, BeginDestroy
  <2>3. Totals'
    BY <1>10, <1>f, <1>0 DEF Types, Totals, Spare, Pending, BeginDestroy
  <2> QED
    BY <2>1, <2>2, <2>3
<1> QED
  BY <1>1, <1>2, <1>3, <1>4, <1>5, <1>6, <1>7, <1>8, <1>9, <1>10

\* ialloc takes the number off the total while it is still free.
LEMMA AllocatedStep ==
  ASSUME IInv, pc = "winode", Allocated, UNCHANGED <<sb, totals, cand, blind>>, faults' \in Nat
  PROVE  IInv'
<1> USE DEF IInv
<1>0. cand \in Free /\ Free' = Free /\ live' = live
  BY DEF Candidate, Allocated, Free
<1>1. Cardinality(Free) \in Nat \ {0}
  BY <1>0, HeldIsSpare
<1>2. Types'
  BY DEF Types, Allocated
<1>3. Candidate'
  BY <1>0 DEF Candidate, Allocated, Types
<1>4. Totals'
  BY <1>0, <1>1 DEF Totals, Spare, Pending, Allocated, Types
<1> QED
  BY <1>2, <1>3, <1>4

\* ifree puts one number on the list and on the total, or neither.
LEMMA IfreeAdds ==
  ASSUME Types, NEW i \in Ino, Ifree(i)
  PROVE  cache' \in Seq(Entry) /\ tinode' \in Nat /\ tinode' <= tinode + 1
<1>1. Short(i) \in Entry
  BY ShortFits, SizeAssumption DEF Ino
<1>2. Append(cache, Short(i)) \in Seq(Entry)
  BY <1>1 DEF Types
<1>3. CASE Len(cache) >= NICINOD
  <2>1. cache' = cache /\ tinode' = tinode
    BY <1>3 DEF Ifree
  <2> QED
    BY <2>1 DEF Types
<1>4. CASE ~(Len(cache) >= NICINOD)
  <2>1. cache' = Append(cache, Short(i)) /\ tinode' = tinode + 1
    BY <1>4 DEF Ifree
  <2> QED
    BY <2>1, <1>2 DEF Types
<1> QED
  BY <1>3, <1>4

\* A create takes a free inode, a destroy gives one back.
LEMMA WriteInodeStep == ASSUME IInv, WriteInode PROVE IInv'
<1> USE SizeAssumption DEF IInv
<1>0. Cardinality(Free) \in Nat
  BY FreeCount DEF Types, Free
<1>a. UNCHANGED <<sb, totals, cand, blind, faults>> /\ pc = "winode" /\ ~fl_dirty
  BY DEF WriteInode, Works
<1>1. CASE Allocated
  BY <1>1, <1>a, AllocatedStep DEF Types
<1>2. CASE /\ then = "create" /\ live' = live \cup {cand}
           /\ pc' = "idle" /\ then' = "none" /\ result' = "ino"
           /\ UNCHANGED core
  <2>1. cand \in Ino /\ cand \notin live
    BY <1>2, <1>a DEF Candidate, Free
  <2>2. Cardinality(Free') = Cardinality(Free) - 1
    BY <1>2, <2>1, FreeMoves DEF Types, Free
  <2>3. Types'
    BY <1>2, <1>a, <2>1 DEF Types, core
  <2>4. Candidate'
    BY <1>2 DEF Candidate
  <2>5. Totals'
    BY <1>2, <1>a, <1>0, <2>2 DEF Totals, Spare, Pending, Types, core
  <2> QED
    BY <2>3, <2>4, <2>5
<1>3. CASE /\ then = "destroy" /\ live' = live \ {cand}
           /\ Ifree(cand)
           /\ pc' = "idle" /\ then' = "none" /\ UNCHANGED <<fl_dirty, result>>
  <2>1. cand \in live /\ cand \in Ino /\ cand # 2
    BY <1>3, <1>a DEF Candidate, Types
  <2>2. Cardinality(Free') = Cardinality(Free) + 1
    BY <1>3, <2>1, FreeMoves DEF Types, Free
  <2>3. cache' \in Seq(Entry) /\ tinode' \in Nat /\ tinode' <= tinode + 1
    BY <1>3, <2>1, IfreeAdds
  <2>4. Types'
    BY <1>3, <1>a, <2>1, <2>3 DEF Types
  <2>5. Candidate'
    BY <1>3, <1>a DEF Candidate
  <2>6. Totals'
    BY <1>3, <1>a, <1>0, <2>2, <2>3 DEF Totals, Spare, Pending, Types
  <2> QED
    BY <2>4, <2>5, <2>6
<1> QED
  BY <1>1, <1>2, <1>3 DEF WriteInode

\* A write that fails leaves the i-list, and a create its number.
LEMMA WriteInodeFailsStep == ASSUME IInv, WriteInodeFails PROVE IInv'
<1> USE SizeAssumption, FaultAssumption DEF IInv
<1>0. Cardinality(Free) \in Nat
  BY FreeCount DEF Types, Free
<1>a. UNCHANGED <<sb, totals, cand, blind>> /\ pc = "winode" /\ faults' \in Nat
  BY DEF WriteInodeFails, Fails, Types
<1>1. CASE Allocated
  BY <1>1, <1>a, AllocatedStep
<1>2. CASE /\ then = "create" /\ Ifree(cand)
           /\ pc' = "idle" /\ then' = "none" /\ result' = "EIO"
           /\ UNCHANGED <<live, fl_dirty>>
  <2>1. cand \in Ino
    BY <1>2, <1>a DEF Candidate, Free
  <2>2. Free' = Free
    BY <1>2 DEF Free
  <2>3. cache' \in Seq(Entry) /\ tinode' \in Nat /\ tinode' <= tinode + 1
    BY <1>2, <2>1, IfreeAdds
  <2>4. Types'
    BY <1>2, <1>a, <2>3 DEF Types
  <2>5. Candidate'
    BY <1>2 DEF Candidate
  <2>6. Totals'
    BY <1>2, <1>a, <1>0, <2>2, <2>3 DEF Totals, Spare, Pending, Types
  <2> QED
    BY <2>4, <2>5, <2>6
<1>3. CASE /\ then = "destroy"
           /\ pc' = "idle" /\ then' = "none" /\ UNCHANGED <<live, core, result>>
  <2>1. Free' = Free
    BY <1>3 DEF Free
  <2>2. Types'
    BY <1>3, <1>a DEF Types, core
  <2>3. Candidate'
    BY <1>3, <1>a DEF Candidate
  <2>4. Totals'
    BY <1>3, <1>a, <1>0, <2>1 DEF Totals, Spare, Pending, Types, core
  <2> QED
    BY <2>2, <2>3, <2>4
<1> QED
  BY <1>1, <1>2, <1>3 DEF WriteInodeFails

\* A recount is too high by the inodes it could not read.
LEMMA RecountExact ==
  ASSUME Types, NEW S \in SUBSET live, Recount(S)
  PROVE  /\ tinode' \in Nat /\ faults' \in Nat /\ blind' \in Nat
         /\ tinode' = Cardinality(Free) + blind'
<1>1. live \ S \in SUBSET Ino /\ live \in SUBSET Ino
  BY DEF Types
<1>2. /\ MaxIno - Cardinality(live \ S) \in Nat
      /\ Cardinality(Free) = MaxIno - Cardinality(live)
  BY <1>1, FreeCount DEF Free
<1>3. Cardinality(S) \in Nat /\ Cardinality(live) \in Nat /\ IsFiniteSet(live)
  <2>1. IsFiniteSet(Ino)
    BY FS_Interval, SizeAssumption DEF Ino
  <2>2. IsFiniteSet(S) /\ IsFiniteSet(live)
    BY <2>1, <1>1, FS_Subset
  <2> QED
    BY <2>2, FS_CardinalityType
<1>4. Cardinality(live \ S) = Cardinality(live) - Cardinality(S)
  <2>1. live \cap S = S
    OBVIOUS
  <2> QED
    BY <1>3, <2>1, FS_Difference
<1>5. /\ tinode' = MaxIno - Cardinality(live \ S) /\ faults' = faults + Cardinality(S)
      /\ blind' = Cardinality(S)
  BY DEF Recount
<1>6. tinode' \in Nat /\ faults' \in Nat
  BY <1>2, <1>3, <1>5 DEF Types
<1> QED
  BY <1>2, <1>3, <1>4, <1>5, <1>6, SizeAssumption

\* The totals of the superblock, or counted again, are not too high.
LEMMA RemountStep == ASSUME IInv, Remount PROVE IInv'
<1> USE DEF IInv
<1>0. Cardinality(Free) \in Nat
  BY FreeCount DEF Types, Free
<1>a. Free' = Free /\ live' = live /\ sb' = sb /\ totals' = totals
  BY DEF Remount, disk, Free
<1>1. Candidate'
  BY DEF Remount, Candidate
<1>2. CASE totals /\ tinode' = sb.tinode /\ UNCHANGED <<faults, blind>>
  <2>1. Types'
    BY <1>2, <1>a DEF Remount, Types
  <2>2. Totals'
    BY <1>2, <1>a, <1>0 DEF Remount, Totals, Spare, Pending, Types
  <2> QED
    BY <2>1, <2>2, <1>1
<1>3. ASSUME ~totals, NEW S \in SUBSET live, Recount(S) PROVE IInv'
  <2>1. /\ tinode' \in Nat /\ faults' \in Nat /\ blind' \in Nat
        /\ tinode' = Cardinality(Free) + blind'
    BY <1>3, RecountExact
  <2>2. Types'
    BY <2>1, <1>a DEF Remount, Types
  <2>3. Totals'
    BY <2>1, <1>3, <1>a, <1>0 DEF Remount, Totals, Spare, Pending
  <2> QED
    BY <2>2, <2>3, <1>1
<1> QED
  BY <1>2, <1>3 DEF Remount

\* A salvage stores what it has counted.
LEMMA MakefreeStep == ASSUME IInv, Makefree PROVE IInv'
<1> USE DEF IInv
<1>0. Cardinality(Free) \in Nat
  BY FreeCount DEF Types, Free
<1>a. Free' = Free /\ live' = live /\ totals' = totals
  BY DEF Makefree, Free
<1>1. Candidate'
  BY DEF Makefree, Candidate
<1>2. PICK S \in SUBSET live : Recount(S)
  BY DEF Makefree
<1>3. /\ tinode' \in Nat /\ faults' \in Nat /\ blind' \in Nat
      /\ tinode' = Cardinality(Free) + blind'
  BY <1>2, RecountExact
<1>e. <<>> \in Seq(Entry)
  OBVIOUS
<1>4. sb' \in [inode : Seq(Entry), tinode : Nat]
  BY <1>3, <1>e DEF Makefree, Types
<1>5. Types'
  BY <1>a, <1>3, <1>4, <1>e DEF Makefree, Types
<1>6. Totals'
  BY <1>a, <1>0, <1>3 DEF Makefree, Totals, Spare, Pending
<1> QED
  BY <1>1, <1>5, <1>6

\* Every step keeps the invariant.
LEMMA NextIInv == IInv /\ [Next]_vars => IInv'
<1> SUFFICES ASSUME IInv, [Next]_vars PROVE IInv'
  OBVIOUS
<1>1. CASE UNCHANGED vars
  BY <1>1 DEF vars, disk, core, where, IInv, Types, Candidate, Totals, Spare, Pending, Free
<1>2. CASE \/ BeginIalloc \/ Pop \/ Read \/ ReadFails \/ BeginScan \/ Scan \/ ScanEnds
           \/ WriteInodeFlush \/ Sync \/ \E i \in Ino : BeginDestroy(i)
  BY <1>2, QuietSteps
<1>3. CASE WriteInode
  BY <1>3, WriteInodeStep
<1>4. CASE WriteInodeFails
  BY <1>4, WriteInodeFailsStep
<1>5. CASE Remount
  BY <1>5, RemountStep
<1>6. CASE Makefree
  BY <1>6, MakefreeStep
<1> QED
  BY <1>1, <1>2, <1>3, <1>4, <1>5, <1>6 DEF Next, Step

\* The inductive invariant: what each place in ialloc, inode_create and
\* inode_destroy knows of its number, and the total that goes before it.
THEOREM Invariance == Spec => []IInv
<1> QED
  BY InitIInv, NextIInv, PTL DEF Spec

\* s_tinode, in core and on disk, is never more than the inodes that are free
\* and those that the last recount could not read, for an i-list of any size
\* and whatever fails.
THEOREM TotalsCovered == Spec => []TinodeCovers
<1>1. IInv => TinodeCovers
  <2> SUFFICES ASSUME IInv PROVE TinodeCovers
    OBVIOUS
  <2>1. Cardinality(Free) \in Nat
    BY FreeCount DEF IInv, Types, Free
  <2> QED
    BY <2>1 DEF IInv, Types, Totals, Spare, TinodeCovers
<1> QED
  BY <1>1, Invariance, PTL

\* ialloc hands out only free inodes, and refuses only when there is none,
\* whatever the cache on disk holds.
THEOREM IallocCorrect == Spec => []IallocSound
<1>1. IInv => IallocSound
  BY DEF IInv, Candidate, IallocSound
<1> QED
  BY <1>1, Invariance, PTL
=============================================================================
