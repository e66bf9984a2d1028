--------------------------- MODULE FreeListProof ---------------------------
(***************************************************************************)
(* Theorems about FreeList, for any number of blocks and inodes and any    *)
(* depth of the cache.                                                     *)
(***************************************************************************)
EXTENDS FreeListRequests

LEMMA NextInv == Inv /\ [Next]_vars => Inv'
<1> SUFFICES ASSUME Inv, [Next]_vars PROVE Inv'
  OBVIOUS
<1>1. CASE Step
  <2>1. CASE \E b \in Block : Drain(b)
    BY <2>1, DrainInv
  <2> QED
    BY <1>1, <2>1, BallocNoSpaceInv, BallocPopInv, BallocReloadInv, BallocCommitInv,
       BallocZeroInv, BallocFailsInv, BmapHitInv, WriteDataInv, WriteDataFailsInv,
       WriteEndsInv, WriteInodeFlushInv, WriteInodeInv, WriteInodeFailsInv,
       CollectInv, CollectFailsInv, DrainEndsInv
       DEF Step
<1>2. CASE Begin
  BY <1>2, BeginWriteInv, BeginTruncateInv, BeginDestroyInv, BeginCreateInv DEF Begin
<1>3. CASE UNCHANGED vars
  <2>1. UNCHANGED <<fl, tfree, fl_dirty, sb, disk, inode, pc, stage, ino, ip,
                    lbn, left, first, blk, bl, calm>>
    BY <1>3 DEF vars
  <2>2. TypeOK'
    BY <2>1, Facts DEF TypeOK, CoreTypeOK, ImageTypeOK, ReqTypeOK
  <2>3. Control' /\ Owned'
    BY SMTT(30), <2>1, Facts DEF Control, Popping, Owned, AllRefs, Disjoint
  <2>4. \E C, D \in SUBSET Block : Safe(C, D)'
    BY SMTT(30), <2>1 DEF Inv, Safe, InCore, AllRefs
  <2> QED
    BY <2>2, <2>3, <2>4 DEF Inv
<1> QED
  BY <1>1, <1>2, <1>3, SyncInv, CrashInv DEF Next

\* Inv is an invariant: the lists in core and on disk stay well formed and
\* apart from every block in use, at every crash prefix.
THEOREM Invariance == Spec => []Inv
  BY InitInv, NextInv, PTL DEF Spec

\* Every variable keeps its type; nfree stays within free[].
THEOREM TypeCorrect == Spec => []TypeOK
<1>1. Inv => TypeOK
  BY DEF Inv
<1> QED
  BY <1>1, Invariance, PTL

\* v7fs.c flushes the superblock before an inode names a fresh block, and
\* frees a block only after the inode that dropped it is written: no crash
\* leaves a block both free and referenced.
THEOREM NoAliasing == Spec => []NoAlias
<1>1. Inv => NoAlias
  <2> SUFFICES ASSUME Inv PROVE NoAlias
    OBVIOUS
  <2>1. PICK C, D \in SUBSET Block : Safe(C, D)
    BY DEF Inv
  <2>2. FreeSet(disk, sb.seg) \subseteq ListedUnder(disk, sb.seg, D)
    BY <2>1, Facts, WalkIsListed DEF Safe
  <2> QED
    BY <2>1, <2>2 DEF Safe, NoAlias
<1> QED
  BY <1>1, Invariance, PTL

\* balloc never hands out a block in use, and no two slots share a block.
THEOREM NoDoubleAllocation == Spec => []NoDoubleUse
<1>1. Inv => NoDoubleUse
  <2> SUFFICES ASSUME Inv PROVE NoDoubleUse
    OBVIOUS
  <2>1. PICK C, D \in SUBSET Block : Safe(C, D)
    BY DEF Inv
  <2>2. disk \in Disks /\ fl \in Seg /\ Owned /\ Control
    BY Facts
  <2>3. PICK B \in SUBSET Block :
          Linked(disk, fl, B) /\ ListedUnder(disk, fl, B) \subseteq ListedUnder(disk, InCore, C)
    <3>1. CASE pc = "reload"
      <4>1. Linked(disk, fl, {}) /\ ListedUnder(disk, fl, {}) = {}
        BY <2>2, <3>1, NothingLinked DEF Control
      <4> QED
        BY <4>1
    <3>2. CASE pc # "reload"
      BY <2>1, <3>2 DEF Safe, InCore
    <3> QED
      BY <3>1, <3>2
  <2>4. FreeSet(disk, fl) \subseteq ListedUnder(disk, InCore, C)
    BY <2>2, <2>3, WalkIsListed
  <2> QED
    BY <2>1, <2>2, <2>4 DEF Safe, NoDoubleUse, Owned
<1> QED
  BY <1>1, Invariance, PTL

\* balloc's reload always reads a dump that bfree wrote.
THEOREM ReloadsOnlyDumps == Spec => []ReloadsDump
<1>1. Inv => ReloadsDump
  BY Facts DEF Control, ReloadsDump
<1> QED
  BY <1>1, Invariance, PTL

\* The least chain of a well-formed list is itself a well-formed one.
LEMMA ChainLinked ==
  ASSUME NEW d \in Disks, NEW s \in Seg, NEW C \in SUBSET Block, Linked(d, s, C)
  PROVE  Linked(d, s, Chain(d, s))
<1> DEFINE W == Chain(d, s)
<1>1. W \subseteq C /\ W \subseteq Block
  BY WalkIsListed DEF Chain
<1>2. \A c \in W : d[c] \in Seg /\ d[c] # Data
  BY <1>1, DataAssumption DEF Linked
<1>3. Bottom(s) \in W \cup {0}
  <2>1. Bottom(s) # 0 => Bottom(s) \in Block
    BY DEF Linked
  <2> QED
    BY <2>1 DEF Chain, ChainClosed
<1>4. \A c \in W : Bottom(d[c]) \in W \cup {0}
  <2> SUFFICES ASSUME NEW c \in W, Bottom(d[c]) # 0 PROVE Bottom(d[c]) \in W
    OBVIOUS
  <2>1. Bottom(d[c]) \in Block
    BY <1>1 DEF Linked
  <2>2. ASSUME NEW B \in SUBSET Block, ChainClosed(d, s, B) PROVE Bottom(d[c]) \in B
    <3>1. c \in B
      BY <2>2 DEF Chain
    <3> QED
      BY <1>2, <2>2, <3>1 DEF ChainClosed
  <2> QED
    BY <2>1, <2>2 DEF Chain
<1>5. \A c \in W : Bottom(s) = c \/ \E e \in W : Bottom(d[e]) = c
  <2> SUFFICES ASSUME NEW c \in W, Bottom(s) # c, \A e \in W : Bottom(d[e]) # c
               PROVE  FALSE
    OBVIOUS
  <2>1. ChainClosed(d, s, W \ {c})
    BY <1>3, <1>4 DEF ChainClosed
  <2>2. W \ {c} \in SUBSET Block
    BY <1>1
  <2> QED
    BY <2>1, <2>2 DEF Chain
<1> HIDE DEF W
<1>6. Linked(d, s, W)
  BY <1>1, <1>2, <1>3, <1>4, <1>5 DEF Linked
<1> QED
  BY <1>6 DEF W

\* The free list on disk is well formed at every crash prefix.
THEOREM FreeListSound == Spec => []ListSound
<1>1. Inv => ListSound
  <2> SUFFICES ASSUME Inv PROVE ListSound
    OBVIOUS
  <2>1. PICK C, D \in SUBSET Block : Safe(C, D)
    BY DEF Inv
  <2>2. disk \in Disks /\ sb.seg \in Seg /\ Linked(disk, sb.seg, D)
    BY <2>1, Facts DEF Safe
  <2> QED
    BY <2>2, ChainLinked DEF ListSound
<1> QED
  BY <1>1, Invariance, PTL

\* No step overwrites a dump the list on disk leads to, or a file's block with
\* a dump.
THEOREM DumpsIntact == Spec => ChainIntact
<1> DEFINE Kept == /\ \A c \in Chain(disk, sb.seg) : disk'[c] = disk[c]
                   /\ \A b \in AllRefs : disk'[b] # disk[b] => disk'[b] = Data
<1>1. Inv /\ [Next]_vars => Kept
  <2> SUFFICES ASSUME Inv, [Next]_vars PROVE Kept
    OBVIOUS
  <2>1. PICK C, D \in SUBSET Block : Safe(C, D)
    BY DEF Inv
  <2>2. /\ disk \in Disks /\ sb.seg \in Seg /\ Linked(disk, sb.seg, D)
        /\ D \cap Refs(ip) = {} /\ D \cap bl = {} /\ (pc = "zero" => blk \notin D)
    BY <2>1, Facts DEF Safe
  <2>3. Chain(disk, sb.seg) \subseteq D /\ AllRefs \subseteq Block
    BY <2>2, Facts, WalkIsListed
  <2>4. CASE BallocZero
    <3>1. disk' = [disk EXCEPT ![blk] = Data] /\ blk \notin D
      BY <2>2, <2>4 DEF BallocZero
    <3> QED
      BY <2>2, <2>3, <3>1 DEF Disks
  <2>5. CASE WriteData
    <3>a. /\ disk' = [disk EXCEPT ![ip.addr[lbn]] = Data]
          /\ left > 0 /\ ip.addr[lbn] # 0
      BY <2>5, Facts DEF WriteData, Control
    <3>b. lbn \in Slot
      BY <3>a, Facts, FreeListAssumption DEF ReqTypeOK, Slot
    <3>1. disk' = [disk EXCEPT ![ip.addr[lbn]] = Data] /\ lbn \in Slot /\ ip.addr[lbn] # 0
      BY <3>a, <3>b
    <3>2. ip.addr[lbn] \notin D
      BY <2>2, <3>1 DEF Refs
    <3> QED
      BY <2>2, <2>3, <3>1, <3>2 DEF Disks
  <2>6. CASE \E b \in Block : Drain(b)
    <3>1. PICK b \in Block : Drain(b)
      BY <2>6
    <3>2. b \notin D /\ b \notin AllRefs
      BY <2>2, <3>1, Facts DEF Drain, Owned
    <3>3. disk' = disk \/ disk' = [disk EXCEPT ![b] = Based]
      BY <3>1 DEF Drain, Bfree, BfreePush, BfreeDump, BfreeLeak
    <3> QED
      BY <2>2, <2>3, <3>2, <3>3 DEF Disks
  <2>7. CASE disk' = disk
    BY <2>7
  <2>8. CASE Step
    BY <2>4, <2>5, <2>6, <2>7, <2>8
       DEF Step, BallocNoSpace, BallocPop, BallocReload, BallocCommit, BallocFails,
           BmapHit, WriteDataFails, WriteEnds, WriteInodeFlush, WriteInode,
           WriteInodeFails, Collect, CollectFails, DrainEnds, image
  <2>9. CASE Begin
    BY <2>7, <2>9 DEF Begin, BeginWrite, BeginTruncate, BeginDestroy, BeginCreate, image
  <2> QED
    BY <2>7, <2>8, <2>9 DEF Next, Sync, Crash, image, vars
<1>2. Inv /\ [Next]_vars => [Kept]_vars
  BY <1>1
<1> QED
  BY <1>2, Invariance, PTL DEF Spec, ChainIntact
=============================================================================
