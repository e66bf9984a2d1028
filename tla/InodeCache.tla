----------------------------- MODULE InodeCache -----------------------------
(***************************************************************************)
(* Inode numbers in the free-list editions: the cache s_inode of the       *)
(* superblock, which is only a hint, and the total s_tinode, through       *)
(* v7fs_ialloc, v7fs_ifree, inode_create and inode_destroy.  One transfer  *)
(* is one step, so that every state is what a crash may leave.             *)
(***************************************************************************)
EXTENDS Integers, Sequences, FiniteSets

CONSTANTS
  MaxIno,     \* v7_maxinode: the i-list holds the inodes 1 to MaxIno
  NICINOD,    \* desc.nicinod, the depth of the cache
  MaxFaults   \* bound: transfers that fail in a behaviour

ASSUME SizeAssumption == MaxIno \in Nat /\ MaxIno >= 2 /\ NICINOD \in Nat \ {0}
ASSUME FaultAssumption == MaxFaults \in Nat

VARIABLES
  live,          \* the inodes on disk that inode_live takes for allocated
  sb,            \* the superblock on disk: s_inode[] and s_tinode
  totals,        \* the edition keeps s_tinode on disk
  cache, tinode, \* fl.inode[0 .. ninode - 1] and fl.tinode
  fl_dirty,
  pc, then,      \* where the request is; what write_inode was called for
  cand,          \* the number that is looked at
  result,        \* what the last ialloc returned
  faults,
  blind          \* how many inodes the last recount could not read, and took for free

core == <<cache, tinode, fl_dirty>>
disk == <<live, sb>>
where == <<pc, then, cand, result>>
vars == <<disk, totals, core, where, faults, blind>>

Ino == 1..MaxIno
Free == Ino \ live
\* What the cache may hold, numbers that no inode has included.
Entry == 0..(MaxIno + 1)
\* fl.inode[] has sixteen bits for a number.
Short(i) == i % 65536

\* A volume of mkfs (an empty cache), or one whose cache another system left:
\* its entries may be in use, repeated or out of range.  Inode 1 is reserved in
\* V7 and free in V8; the root is 2.
Init ==
  /\ live \in {L \in SUBSET Ino : 2 \in L} /\ totals \in BOOLEAN
  /\ cache \in UNION {[1..n -> Entry] : n \in 0..NICINOD}
  /\ tinode = Cardinality(Free) /\ sb = [inode |-> cache, tinode |-> tinode]
  /\ fl_dirty = FALSE /\ pc = "idle" /\ then = "none" /\ cand = 0
  /\ result = "none" /\ faults = 0 /\ blind = 0

Fails ==
  /\ faults < MaxFaults /\ faults' = faults + 1
Works == UNCHANGED faults
-----------------------------------------------------------------------------
(* ialloc                                                                   *)

BeginIalloc ==
  /\ pc = "idle" /\ pc' = "pop"
  /\ result' = "none" /\ UNCHANGED <<disk, totals, core, then, cand, faults, blind>>

\* (mutant) the entry stays in the cache
Pop_Peeks ==
  /\ pc = "pop" /\ cache # <<>>
  /\ LET c == cache[Len(cache)]
     IN /\ cand' = c
        /\ pc' = IF c < 2 \/ c > MaxIno THEN "pop" ELSE "read"
  /\ UNCHANGED <<disk, totals, core, then, result, faults, blind>>

\* An entry that is no inode's number is passed over.
Pop ==
  /\ pc = "pop" /\ cache # <<>>
  /\ LET c == cache[Len(cache)]
     IN /\ cand' = c
        /\ pc' = IF c < 2 \/ c > MaxIno THEN "pop" ELSE "read"
  /\ cache' = SubSeq(cache, 1, Len(cache) - 1)
  /\ UNCHANGED <<disk, totals, tinode, fl_dirty, then, result, faults, blind>>

\* (mutant) the entry is taken for a free inode
Read_Trusts ==
  /\ pc = "read" /\ Works
  /\ pc' = "winode" /\ then' = "zero"
  /\ UNCHANGED <<disk, totals, core, cand, result, blind>>

\* An entry whose inode is in use is passed over.
Read ==
  /\ pc = "read" /\ Works
  /\ IF cand \in live THEN pc' = "pop" /\ UNCHANGED then
     ELSE pc' = "winode" /\ then' = "zero"
  /\ UNCHANGED <<disk, totals, core, cand, result, blind>>

ReadFails ==
  /\ pc \in {"read", "scan"} /\ Fails
  /\ pc' = "idle" /\ result' = "EIO"
  /\ UNCHANGED <<disk, totals, core, then, cand, blind>>

\* The cache is empty: it is filled from the i-list.
BeginScan ==
  /\ pc = "pop" /\ cache = <<>>
  /\ pc' = "scan" /\ cand' = 2
  /\ UNCHANGED <<disk, totals, core, then, result, faults, blind>>

Scanning == cand <= MaxIno /\ Len(cache) < NICINOD

Scan ==
  /\ pc = "scan" /\ Scanning /\ Works
  /\ cache' = IF cand \in live THEN cache ELSE Append(cache, Short(cand))
  /\ cand' = cand + 1
  /\ UNCHANGED <<disk, totals, tinode, fl_dirty, pc, then, result, blind>>

ScanEnds ==
  /\ pc = "scan" /\ ~Scanning
  /\ IF cache = <<>> THEN pc' = "idle" /\ result' = "ENOSPC" ELSE pc' = "pop" /\ UNCHANGED result
  /\ UNCHANGED <<disk, totals, core, then, cand, faults, blind>>
-----------------------------------------------------------------------------
(* ifree, write_inode and their callers                                     *)

\* A number that does not fit in the cache is dropped, and not counted.
Ifree(i) ==
  IF Len(cache) >= NICINOD THEN UNCHANGED <<cache, tinode>>
  ELSE cache' = Append(cache, Short(i)) /\ tinode' = tinode + 1

\* s_tinode is written only by the editions that have it.
Stored == [inode |-> cache, tinode |-> IF totals THEN tinode ELSE sb.tinode]

\* write_inode flushes the allocator's state first.
WriteInodeFlush ==
  /\ pc = "winode" /\ fl_dirty /\ Works
  /\ sb' = Stored /\ fl_dirty' = FALSE
  /\ UNCHANGED <<live, totals, cache, tinode, where, blind>>

\* (mutant) the cache is not marked changed
Allocated_Clean ==
  /\ then = "zero"
  /\ tinode' = IF tinode > 0 THEN tinode - 1 ELSE 0
  /\ then' = "create"
  /\ UNCHANGED <<live, cache, fl_dirty, pc, result>>

\* ialloc has written the zeroed inode, whether or not the write succeeded, and
\* inode_create goes on to write the inode it makes.
Allocated ==
  /\ then = "zero"
  /\ tinode' = IF tinode > 0 THEN tinode - 1 ELSE 0
  /\ fl_dirty' = TRUE /\ then' = "create"
  /\ UNCHANGED <<live, cache, pc, result>>

WriteInode ==
  /\ pc = "winode" /\ ~fl_dirty /\ Works
  /\ \/ Allocated
     \/ /\ then = "create" /\ live' = live \cup {cand}
        /\ pc' = "idle" /\ then' = "none" /\ result' = "ino"
        /\ UNCHANGED core
     \/ /\ then = "destroy" /\ live' = live \ {cand}
        /\ Ifree(cand)
        /\ pc' = "idle" /\ then' = "none" /\ UNCHANGED <<fl_dirty, result>>
  /\ UNCHANGED <<sb, totals, cand, blind>>

\* Nothing is written.  inode_create gives the number back.
WriteInodeFails ==
  /\ pc = "winode" /\ Fails
  /\ \/ Allocated
     \/ /\ then = "create" /\ Ifree(cand)
        /\ pc' = "idle" /\ then' = "none" /\ result' = "EIO"
        /\ UNCHANGED <<live, fl_dirty>>
     \/ /\ then = "destroy"
        /\ pc' = "idle" /\ then' = "none" /\ UNCHANGED <<live, core, result>>
  /\ UNCHANGED <<sb, totals, cand, blind>>

BeginDestroy(i) ==
  /\ pc = "idle" /\ i \in live /\ i > 2
  /\ pc' = "winode" /\ then' = "destroy" /\ cand' = i /\ result' = "none"
  /\ UNCHANGED <<disk, totals, core, faults, blind>>
-----------------------------------------------------------------------------
(* The volume as a whole                                                    *)

Sync ==
  /\ pc = "idle" /\ sb' = Stored /\ fl_dirty' = FALSE
  /\ UNCHANGED <<live, totals, cache, tinode, where, faults, blind>>

\* v6_count_free, v7_count_free and makefree: an inode that cannot be read, of S,
\* counts as free.
Recount(S) ==
  /\ Cardinality(S) <= MaxFaults - faults /\ faults' = faults + Cardinality(S)
  /\ tinode' = MaxIno - Cardinality(live \ S)
  /\ blind' = Cardinality(S)

\* The process is killed, or unmounts, and the volume is opened again.
Remount ==
  /\ \/ totals /\ tinode' = sb.tinode /\ UNCHANGED <<faults, blind>>
     \/ ~totals /\ \E S \in SUBSET live : Recount(S)
  /\ cache' = sb.inode /\ fl_dirty' = FALSE
  /\ pc' = "idle" /\ then' = "none" /\ cand' = 0 /\ result' = "none"
  /\ UNCHANGED <<disk, totals>>

\* fsck -s empties the cache, recounts, and stores both.
Makefree ==
  /\ pc = "idle"
  /\ \E S \in SUBSET live : Recount(S)
  /\ cache' = <<>> /\ sb' = [inode |-> <<>>, tinode |-> IF totals THEN tinode' ELSE sb.tinode]
  /\ fl_dirty' = FALSE /\ result' = "none" /\ cand' = 0
  /\ UNCHANGED <<live, totals, pc, then>>

Step ==
  \/ Pop \/ Read \/ ReadFails \/ BeginScan \/ Scan \/ ScanEnds
  \/ WriteInodeFlush \/ WriteInode \/ WriteInodeFails

Next ==
  \/ BeginIalloc \/ \E i \in Ino : BeginDestroy(i)
  \/ Step
  \/ Sync \/ Remount \/ Makefree

Spec == Init /\ [][Next]_vars
\* A request that was begun is carried on.
FairSpec == Spec /\ WF_vars(Step)
-----------------------------------------------------------------------------
\* The total that statfs and the superblock give is never more than there is:
\* an inode is taken off it before it is written, and put on after it is
\* cleared, at every crash prefix and whatever fails, also when ifree drops a
\* number.  It is too high by no more than the inodes that the last recount
\* could not read (makefree, v6_count_free), however many come and go after it.
TinodeCovers ==
  /\ tinode <= Cardinality(Free) + blind
  /\ totals => sb.tinode <= Cardinality(Free) + blind

\* ialloc hands out no inode in use, neither the reserved ones nor the root,
\* whatever stale numbers the cache holds, and says "no space" only when every
\* inode is in use.
IallocSound ==
  /\ pc = "winode" /\ then \in {"zero", "create"} => cand \in Free \ {1}
  /\ result = "ENOSPC" => 2..MaxIno \subseteq live

\* A create or a destroy comes to its end: the loop over the cache and the
\* refills does not go round for ever, on an i-list whose numbers are Short.
RequestEnds == pc # "idle" ~> pc = "idle"
=============================================================================
