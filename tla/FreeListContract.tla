-------------------------- MODULE FreeListContract --------------------------
(***************************************************************************)
(* FreeList implements AllocOps: every step of the free-list allocator and *)
(* of the requests that drive it is a move of blocks the contract allows.  *)
(***************************************************************************)
EXTENDS FreeListWalk

\* The contract's sfree and held, as FreeList maps them.
OnDiskFree == FreeSet(disk, sb.seg)
Held == (Refs(ip) \cup bl \cup ({blk} \ {0})) \ AllRefs

ContractStep == [Contract!Next]_(Contract!vars)

\* What the refinement needs beyond Inv: an inode on disk names no block that
\* its in-core copy and the collected list have both lost, so the inode write
\* leaves no block without an owner.
Kept ==
  /\ \A i \in Inode : ~inode[i].live => Refs(inode[i]) = {}
  /\ ~ip.live => Refs(ip) = {}
  /\ pc \in {"bmap", "reload", "commit", "zero", "data"} => ip.live
  /\ stage = "destroy" => first = 0
  /\ stage = "clear" => ~ip.live
  /\ pc \notin {"idle", "drain"} => Refs(inode[ino]) \subseteq Refs(ip) \cup bl
-----------------------------------------------------------------------------
(* The contract's moves, in FreeList's terms.                              *)

\* No move: every block stays where it is.
LEMMA IsStutter ==
  ASSUME InCoreFree' = InCoreFree, OnDiskFree' = OnDiskFree,
         AllRefs' = AllRefs, Held' = Held
  PROVE  ContractStep
  BY DEF ContractStep, Contract!vars, OnDiskFree, Held

\* A free block goes to the request.
LEMMA IsBalloc ==
  ASSUME NEW b \in Block, b \in InCoreFree,
         InCoreFree' = InCoreFree \ {b}, OnDiskFree' = OnDiskFree,
         AllRefs' = AllRefs, Held' = Held \cup {b}
  PROVE  ContractStep
<1>1. Contract!Balloc(b)
  BY DEF Contract!Balloc, OnDiskFree, Held
<1> QED
  BY <1>1 DEF ContractStep, Contract!Next

\* A block of the request goes back to the list in core.
LEMMA IsBfree ==
  ASSUME NEW b \in Block, b \in Held,
         InCoreFree' = InCoreFree \cup {b}, OnDiskFree' = OnDiskFree,
         AllRefs' = AllRefs, Held' = Held \ {b}
  PROVE  ContractStep
<1>1. Contract!Bfree(b)
  BY DEF Contract!Bfree, OnDiskFree, Held
<1> QED
  BY <1>1 DEF ContractStep, Contract!Next

\* An inode write assigns and releases blocks.
LEMMA IsPublish ==
  ASSUME NEW add \in SUBSET Block, NEW drop \in SUBSET Block,
         add \subseteq Held \ OnDiskFree, drop \subseteq AllRefs,
         InCoreFree' = InCoreFree, OnDiskFree' = OnDiskFree,
         AllRefs' = (AllRefs \ drop) \cup add, Held' = (Held \ add) \cup drop
  PROVE  ContractStep
<1>1. Contract!Publish(add, drop)
  BY DEF Contract!Publish, OnDiskFree, Held
<1> QED
  BY <1>1 DEF ContractStep, Contract!Next

\* The list in core becomes the one on disk.
LEMMA IsFlush ==
  ASSUME InCoreFree' = InCoreFree, OnDiskFree' = InCoreFree,
         AllRefs' = AllRefs, Held' = Held
  PROVE  ContractStep
<1>1. Contract!Flush
  BY DEF Contract!Flush, OnDiskFree, Held
<1> QED
  BY <1>1 DEF ContractStep, Contract!Next

\* Blocks are lost, from the list in core or from the request.
LEMMA IsLeak ==
  ASSUME NEW m \in SUBSET Block, NEW h \in SUBSET Block,
         InCoreFree' = InCoreFree \ m, OnDiskFree' = OnDiskFree,
         AllRefs' = AllRefs, Held' = Held \ h
  PROVE  ContractStep
<1>1. Contract!Leak(m, h)
  BY DEF Contract!Leak, OnDiskFree, Held
<1> QED
  BY <1>1 DEF ContractStep, Contract!Next

\* The list on disk becomes the one in core.
LEMMA IsRemount ==
  ASSUME InCoreFree' = OnDiskFree, OnDiskFree' = OnDiskFree,
         AllRefs' = AllRefs, Held' = {}
  PROVE  ContractStep
<1>1. Contract!Remount
  BY DEF Contract!Remount, OnDiskFree, Held
<1> QED
  BY <1>1 DEF ContractStep, Contract!Next
-----------------------------------------------------------------------------
(* The two walks, and what Inv says of them.                               *)

\* Both lists are well formed; neither has a block in use, and the chain of the
\* one on disk has none the request may overwrite.
LEMMA Walks ==
  ASSUME Inv
  PROVE  /\ InCore \in Seg /\ InCoreFree = FreeSet(disk, InCore)
         /\ \E C \in SUBSET Block : Linked(disk, InCore, C)
         /\ \E D \in SUBSET Block : Linked(disk, sb.seg, D)
         /\ InCoreFree \subseteq Block /\ OnDiskFree \subseteq Block
         /\ InCoreFree \cap (AllRefs \cup Refs(ip) \cup bl) = {} /\ blk \notin InCoreFree
         /\ OnDiskFree \cap AllRefs = {}
         /\ ~fl_dirty => OnDiskFree \cap Refs(ip) = {}
         /\ Chain(disk, InCore) \subseteq InCoreFree
         /\ Chain(disk, sb.seg) \cap (Refs(ip) \cup bl) = {}
         /\ pc = "zero" => blk \notin Chain(disk, sb.seg)
<1>1. PICK C, D \in SUBSET Block : Safe(C, D)
  BY DEF Inv
<1>2. disk \in Disks /\ sb.seg \in Seg /\ InCore \in Seg
  BY Facts DEF Control, InCore
<1>3. InCoreFree = FreeSet(disk, InCore)
  BY DEF InCoreFree, InCore
<1>4. Linked(disk, InCore, C) /\ Linked(disk, sb.seg, D)
  BY <1>1 DEF Safe
<1>5. /\ InCoreFree \subseteq ListedUnder(disk, InCore, C)
      /\ OnDiskFree \subseteq ListedUnder(disk, sb.seg, D)
      /\ Chain(disk, sb.seg) \subseteq D /\ Chain(disk, InCore) \subseteq InCoreFree
  BY <1>2, <1>3, <1>4, WalkIsListed, WalkExact DEF OnDiskFree
<1>6. ASSUME NEW s \in Seg, NEW B \in SUBSET Block, Linked(disk, s, B)
      PROVE  ListedUnder(disk, s, B) \subseteq Block
  <2>1. ASSUME NEW t \in Seg PROVE Listed(t) \subseteq Block
    <3>1. \A k \in 0..(t.n - 1) : k \in Cell
      BY FreeListAssumption DEF Seg, Cell
    <3> QED
      BY <3>1 DEF Listed, Seg
  <2> QED
    BY <2>1, <1>6 DEF ListedUnder, Linked
<1> QED
  BY <1>1, <1>2, <1>3, <1>4, <1>5, <1>6 DEF Safe
-----------------------------------------------------------------------------
(* Kept is an invariant.                                                   *)

\* A mounted image has no request, and no free inode names a block.
LEMMA KeptInit == Init => Kept
<1> SUFFICES ASSUME Init PROVE Kept
  OBVIOUS
<1>1. Refs(ip) = {} /\ pc = "idle" /\ stage = "none"
  BY BlankFacts DEF Init
<1>2. \A i \in Inode : ~inode[i].live => Refs(inode[i]) = {}
  BY BlankFacts DEF Init
<1> QED
  BY <1>1, <1>2 DEF Kept

\* A request that ends leaves only the inodes to look at.
LEMMA KeptIdle ==
  ASSUME Idle, \A i \in Inode : ~inode'[i].live => Refs(inode'[i]) = {}
  PROVE  Kept'
<1>1. Refs(ip') = {} /\ pc' = "idle" /\ stage' = "none"
  BY BlankFacts DEF Idle
<1> QED
  BY <1>1 DEF Kept

\* A step that leaves the in-core inode as it is.
LEMMA KeptQuiet ==
  ASSUME Kept, pc # "idle", pc # "drain",
         UNCHANGED <<inode, ino, ip, first, bl>>, stage' \in {stage, "rollback"},
         pc' \in {"bmap", "reload", "commit", "zero", "data"} => ip.live
  PROVE  Kept'
  BY DEF Kept

\* The steps of a write that leave the in-core inode alone.
LEMMA KeptBalloc ==
  ASSUME Inv, Kept,
         \/ BallocNoSpace \/ BallocPop \/ BallocReload \/ BallocCommit \/ BallocFails
         \/ BmapHit \/ WriteData \/ WriteDataFails
  PROVE  Kept'
<1>1. pc \in {"bmap", "reload", "commit", "zero", "data"} /\ ip.live
  BY DEF Kept, BallocNoSpace, BallocPop, BallocReload, BallocCommit, BallocFails,
         BmapHit, WriteData, WriteDataFails, NeedsBlock
<1>2. UNCHANGED <<inode, ino, ip, first, bl>> /\ stage' \in {stage, "rollback"}
  BY DEF BallocNoSpace, BallocPop, BallocReload, BallocCommit, BallocFails,
         BmapHit, WriteData, WriteDataFails, WriteFails, image
<1> QED
  BY <1>1, <1>2, KeptQuiet

\* balloc hands its block to a slot that had none.
LEMMA KeptZero ==
  ASSUME Inv, Kept, BallocZero
  PROVE  Kept'
<1>1. /\ pc = "zero" /\ pc' = "data" /\ UNCHANGED <<inode, stage, ino, first, bl>>
      /\ ip' = [ip EXCEPT !.addr[lbn] = blk]
  BY DEF BallocZero
<1>2. /\ ip \in Dinode /\ ip.live /\ ip.addr[lbn] = 0 /\ stage # "clear"
  BY <1>1, Facts DEF Kept, Control, Popping
<1>3. ip'.live /\ \A s \in Slot : ip'.addr[s] = IF s = lbn THEN blk ELSE ip.addr[s]
  BY <1>1, <1>2 DEF Dinode
<1>4. Refs(ip) \subseteq Refs(ip')
  BY <1>2, <1>3 DEF Refs
<1> QED
  BY <1>1, <1>2, <1>3, <1>4 DEF Kept

\* Only the size changes.
LEMMA KeptWriteEnds ==
  ASSUME Inv, Kept, WriteEnds
  PROVE  Kept'
<1>1. /\ pc = "bmap" /\ pc' = "winode" /\ UNCHANGED <<inode, stage, ino, first, bl>>
      /\ ip' = [ip EXCEPT !.size = IF lbn > ip.size THEN lbn ELSE ip.size]
  BY DEF WriteEnds, image
<1>2. ip'.live = ip.live /\ ip'.addr = ip.addr /\ ip.live
  BY <1>1, Facts DEF Dinode, Kept
<1>3. Refs(ip') = Refs(ip)
  BY <1>2 DEF Refs
<1> QED
  BY <1>1, <1>2, <1>3 DEF Kept

\* The inode on disk becomes the in-core one.
LEMMA KeptWriteInode ==
  ASSUME Inv, Kept, WriteInode
  PROVE  Kept'
<1>1. /\ pc = "winode" /\ ino \in Inode /\ InodeWritten
      /\ inode' = [inode EXCEPT ![ino] = ip]
      /\ inode \in [Inode -> Dinode]
  BY Facts DEF WriteInode, Control, ImageTypeOK
<1>2. \A i \in Inode : inode'[i] = IF i = ino THEN ip ELSE inode[i]
  BY <1>1
<1>3. \A i \in Inode : ~inode'[i].live => Refs(inode'[i]) = {}
  BY <1>2 DEF Kept
<1>4. CASE Idle
  BY <1>3, <1>4, KeptIdle
<1>5. CASE stage = "clear" /\ Fill
  <2>1. ip'.live /\ Refs(ip') = {} /\ pc' = "winode" /\ stage' = "store"
        /\ ino' = ino /\ first' = first
    BY <1>5 DEF Fill, Blank, Refs
  <2>2. Refs(inode'[ino]) = {}
    BY <1>1, <1>2, <1>5 DEF Kept
  <2> QED
    BY <1>3, <2>1, <2>2 DEF Kept
<1>6. CASE /\ stage = "tail" /\ pc' = "collect" /\ stage' = "trunc"
           /\ UNCHANGED <<ino, ip, lbn, left, first, blk, bl>>
  BY <1>1, <1>2, <1>3, <1>6 DEF Kept
<1>7. CASE /\ stage \in {"rollback", "trunc", "destroy"} /\ pc' = "drain"
           /\ UNCHANGED <<stage, ino, ip, lbn, left, first, blk, bl>>
  BY <1>1, <1>2, <1>3, <1>7 DEF Kept
<1> QED
  BY <1>1, <1>4, <1>5, <1>6, <1>7 DEF InodeWritten

\* The inode on disk stays; the request goes on, or ends.
LEMMA KeptWriteInodeFails ==
  ASSUME Inv, Kept, WriteInodeFails
  PROVE  Kept'
<1>1. pc = "winode" /\ inode' = inode
  BY DEF WriteInodeFails, image
<1>2. CASE stage = "write"
  <2>1. WriteFails
    BY <1>2 DEF WriteInodeFails
  <2> QED
    BY <1>1, <2>1 DEF WriteFails, Kept
<1>3. CASE stage = "clear"
  <2>1. Fill
    BY <1>3 DEF WriteInodeFails
  <2>2. ip'.live /\ Refs(ip') = {} /\ pc' = "winode" /\ stage' = "store"
        /\ ino' = ino /\ first' = first
    BY <2>1 DEF Fill, Blank, Refs
  <2>3. Refs(inode[ino]) = {}
    BY <1>1, <1>3, Facts DEF Kept, Control
  <2> QED
    BY <1>1, <2>2, <2>3 DEF Kept
<1>4. CASE stage \notin {"write", "clear"}
  <2>1. Idle
    BY <1>4 DEF WriteInodeFails
  <2> QED
    BY <1>1, <2>1, KeptIdle DEF Kept
<1> QED
  BY <1>2, <1>3, <1>4

\* filsys_itrunc_from moves blocks from the in-core inode to the list, and
\* loses none.
LEMMA Collected ==
  ASSUME Inv, Collect
  PROVE  /\ Refs(ip') \cup bl' = Refs(ip) /\ (first = 0 => Refs(ip') = {})
         /\ ip'.live = (stage # "destroy")
<1>1. /\ bl' = {ip.addr[s] : s \in first..(NADDR - 1)} \ {0}
      /\ ip'.addr = [s \in Slot |-> IF s < first THEN ip.addr[s] ELSE 0]
      /\ ip'.live = (stage # "destroy")
  BY DEF Collect
<1>2. first \in 0..NADDR
  BY Facts DEF ReqTypeOK
<1>3. \A s \in Slot : s < first \/ s \in first..(NADDR - 1)
  BY <1>2, FreeListAssumption DEF Slot
<1>4. \A s \in first..(NADDR - 1) : s \in Slot
  BY <1>2, FreeListAssumption DEF Slot
<1>5. first = 0 => \A s \in Slot : ~(s < first)
  BY FreeListAssumption DEF Slot
<1> QED
  BY <1>1, <1>3, <1>4, <1>5 DEF Refs

\* What leaves the in-core inode is on the list.
LEMMA KeptCollect ==
  ASSUME Inv, Kept, Collect
  PROVE  Kept'
<1>1. /\ pc = "collect" /\ pc' = "winode" /\ UNCHANGED <<inode, stage, ino, first>>
      /\ stage \in {"rollback", "trunc", "destroy"} /\ bl = {}
  BY Facts DEF Collect, Control, image
<1>2. /\ Refs(ip') \cup bl' = Refs(ip) /\ (first = 0 => Refs(ip') = {})
      /\ ip'.live = (stage # "destroy")
  BY Collected
<1> QED
  BY <1>1, <1>2 DEF Kept

\* The inode is already on disk while the list is freed.
LEMMA KeptDrain ==
  ASSUME Inv, Kept, NEW b \in Block, Drain(b)
  PROVE  Kept'
<1>1. pc = "drain" /\ UNCHANGED <<inode, pc, stage, ino, ip, first>>
  BY DEF Drain
<1> QED
  BY <1>1 DEF Kept

\* A request starts from the inode as it is on disk.
LEMMA KeptBegin ==
  ASSUME Inv, Kept, Begin
  PROVE  Kept'
<1>1. pc = "idle" /\ bl = {} /\ inode' = inode /\ bl' = bl
  BY Facts DEF Begin, BeginWrite, BeginTruncate, BeginDestroy, BeginCreate,
               Control, image
<1>2. PICK i \in Inode :
        \/ \E off, cnt \in 0..NADDR : BeginWrite(i, off, cnt)
        \/ \E k \in 0..NADDR : BeginTruncate(i, k)
        \/ BeginDestroy(i) \/ BeginCreate(i)
  BY DEF Begin
<1>3. CASE BeginCreate(i)
  <2>1. ip' = Blank /\ ~Blank.live /\ Refs(Blank) = {}
    BY <1>3, BlankFacts DEF BeginCreate, Blank
  <2> QED
    BY <1>1, <1>3, <2>1 DEF BeginCreate, Kept
<1>4. CASE ~BeginCreate(i)
  <2>1. /\ inode[i].live /\ ino' = i /\ ip'.live /\ Refs(ip') = Refs(inode[i])
        /\ stage' # "clear" /\ (stage' = "destroy" => first' = 0)
    <3>1. CASE \E off, cnt \in 0..NADDR : BeginWrite(i, off, cnt)
      BY <3>1 DEF BeginWrite
    <3>2. CASE \E k \in 0..NADDR : BeginTruncate(i, k)
      <4>1. inode[i].live /\ ino' = i /\ stage' \in {"trunc", "tail", "store"}
        BY <3>2 DEF BeginTruncate
      <4>2. ip' = inode[i] \/ \E k \in 0..NADDR : ip' = [inode[i] EXCEPT !.size = k]
        BY <3>2 DEF BeginTruncate
      <4>3. ip'.live = inode[i].live /\ ip'.addr = inode[i].addr
        BY <4>2, Facts DEF Dinode
      <4> QED
        BY <4>1, <4>3 DEF Refs
    <3>3. CASE BeginDestroy(i)
      BY <3>3 DEF BeginDestroy
    <3> QED
      BY <1>2, <1>4, <3>1, <3>2, <3>3
  <2> QED
    BY <1>1, <2>1 DEF Kept
<1> QED
  BY <1>3, <1>4

\* Every step keeps it.
LEMMA KeptNext == Inv /\ Kept /\ [Next]_vars => Kept'
<1> SUFFICES ASSUME Inv, Kept, [Next]_vars PROVE Kept'
  OBVIOUS
<1>1. CASE WriteInodeFlush \/ Sync \/ UNCHANGED vars
  <2>1. UNCHANGED <<inode, pc, stage, ino, ip, first, bl>>
    BY <1>1 DEF WriteInodeFlush, Sync, req, vars
  <2> QED
    BY <2>1 DEF Kept
<1>2. CASE CollectFails \/ DrainEnds \/ Crash
  <2>1. Idle /\ inode' = inode
    BY <1>2 DEF CollectFails, DrainEnds, Crash, image
  <2> QED
    BY <2>1, KeptIdle DEF Kept
<1>3. CASE \E b \in Block : Drain(b)
  BY <1>3, KeptDrain
<1>4. CASE Step
  BY <1>1, <1>2, <1>3, <1>4, KeptBalloc, KeptZero, KeptWriteEnds, KeptWriteInode,
     KeptWriteInodeFails, KeptCollect
     DEF Step
<1> QED
  BY <1>1, <1>2, <1>4, KeptBegin DEF Next

-----------------------------------------------------------------------------
(* One lemma per move of the contract.                                     *)

\* The list on disk, and the used blocks, while neither the superblock nor an
\* inode is written and no chain block of that list is overwritten.
LEMMA DiskListKept ==
  ASSUME Inv, Inv', sb' = sb, inode' = inode,
         \A c \in Chain(disk, sb.seg) : disk'[c] = disk[c]
  PROVE  OnDiskFree' = OnDiskFree /\ AllRefs' = AllRefs
<1>1. disk \in Disks /\ disk' \in Disks /\ sb.seg \in Seg
  BY Facts DEF Inv, TypeOK, ImageTypeOK, Disks
<1>2. PICK D \in SUBSET Block : Linked(disk, sb.seg, D)
  BY Walks
<1>3. FreeSet(disk', sb.seg) = FreeSet(disk, sb.seg)
  BY <1>1, <1>2, WalkFrame
<1> QED
  BY <1>3 DEF OnDiskFree, AllRefs

\* balloc pops a block.
LEMMA BallocPopStep == ASSUME Inv, Inv', BallocPop PROVE ContractStep
<1>1. /\ pc = "bmap" /\ InCore = fl /\ fl.n # 0 /\ fl.a[fl.n - 1] # 0 /\ blk = 0
      /\ blk' = fl.a[fl.n - 1] /\ UNCHANGED <<sb, disk, inode, ip, bl>>
      /\ fl' = [n |-> fl.n - 1, a |-> [fl.a EXCEPT ![fl.n - 1] = 0]]
      /\ pc' = IF fl.n = 1 THEN "reload" ELSE "zero"
  BY Facts DEF BallocPop, NeedsBlock, Top, Popped, image, InCore, Control, Popping
<1>2. fl \in Seg /\ disk \in Disks /\ fl.n \in 0..NICFREE
  BY Facts DEF Seg
<1>3. PICK C \in SUBSET Block : Linked(disk, fl, C)
  BY <1>1, Walks
<1>4. OnDiskFree' = OnDiskFree /\ AllRefs' = AllRefs
  BY <1>1, DiskListKept
<1>5. blk' \in InCoreFree /\ InCoreFree' = InCoreFree \ {blk'}
  <2>1. CASE fl.n = 1
    <3>1. InCoreFree = FreeSet(disk, fl) /\ InCoreFree' = FreeSet(disk, disk[fl.a[0]])
      BY <1>1, <2>1 DEF InCoreFree
    <3>2. fl.a[0] # 0 /\ blk' = fl.a[0]
      BY <1>1, <2>1
    <3> QED
      BY <1>2, <1>3, <2>1, <3>1, <3>2, WalkReload
  <2>2. CASE fl.n > 1
    <3>1. InCoreFree = FreeSet(disk, fl) /\ InCoreFree' = FreeSet(disk, fl')
      BY <1>1, <2>2 DEF InCoreFree
    <3> QED
      BY <1>1, <1>2, <1>3, <2>2, <3>1, WalkPop
  <2> QED
    BY <1>1, <1>2, <2>1, <2>2
<1>6. blk' \in Block /\ blk' \notin AllRefs
  BY <1>5, Walks
<1>7. Held' = Held \cup {blk'}
  BY <1>1, <1>4, <1>6, FreeListAssumption DEF Held
<1> QED
  BY <1>4, <1>5, <1>6, <1>7, IsBalloc

\* A step that moves only the request's own state is none of the contract's,
\* or, when the request drops blocks, a leak.
LEMMA QuietStep ==
  ASSUME Inv, Inv', UNCHANGED <<fl, image>>, pc # "reload", pc' # "reload",
         NEW h \in SUBSET Block, Held' = Held \ h
  PROVE  ContractStep
<1>1. UNCHANGED <<fl, sb, disk, inode>>
  BY DEF image
<1>2. OnDiskFree' = OnDiskFree /\ AllRefs' = AllRefs
  BY <1>1 DEF OnDiskFree, AllRefs
<1>3. InCoreFree' = InCoreFree \ {}
  BY <1>1 DEF InCoreFree
<1>4. {} \in SUBSET Block
  OBVIOUS
<1> QED
  BY <1>2, <1>3, <1>4, IsLeak

\* The request holds what it has allocated or collected and no inode names.
LEMMA HeldInBlock == ASSUME Inv PROVE Held \in SUBSET Block
<1>1. blk \in Block \cup {0}
  BY Facts DEF ReqTypeOK
<1> QED
  BY <1>1, Facts DEF Held

\* A request that ends holds nothing.
LEMMA IdleHolds == ASSUME Idle PROVE Held' = {} /\ pc' = "idle"
  BY BlankFacts DEF Idle, Held

\* A request that gives up drops what it holds, and at most leaks it.
LEMMA IdleStep ==
  ASSUME Inv, Inv', Idle, UNCHANGED <<fl, image>>, pc # "reload"
  PROVE  ContractStep
<1>1. Held' = Held \ Held /\ Held \in SUBSET Block /\ pc' # "reload"
  BY IdleHolds, HeldInBlock
<1> QED
  BY <1>1, QuietStep

\* A request starts with blocks its inode on disk names already.
LEMMA BeginStep == ASSUME Inv, Inv', Begin PROVE ContractStep
<1>1. pc = "idle" /\ bl = {} /\ blk = 0 /\ Refs(ip) = {} /\ UNCHANGED <<fl, image, bl, blk>>
  BY Facts, BlankFacts
     DEF Begin, BeginWrite, BeginTruncate, BeginDestroy, BeginCreate,
         Control, Popping, core, image
<1>2. pc' # "reload"
  BY DEF Begin, BeginWrite, BeginTruncate, BeginDestroy, BeginCreate
<1>3. Refs(ip') \subseteq AllRefs
  <2>1. PICK i \in Inode :
          \/ ip' = inode[i] \/ ip' = Blank
          \/ \E k \in 0..NADDR : ip' = [inode[i] EXCEPT !.size = k]
    BY DEF Begin, BeginWrite, BeginTruncate, BeginDestroy, BeginCreate
  <2>2. ip' = Blank \/ ip'.addr = inode[i].addr
    BY <2>1, Facts DEF Dinode
  <2> QED
    BY <2>2, BlankFacts DEF Refs, AllRefs
<1>4. AllRefs' = AllRefs
  BY <1>1 DEF AllRefs, image
<1>5. Held' = Held \ {}
  BY <1>1, <1>3, <1>4 DEF Held
<1>6. {} \in SUBSET Block /\ pc # "reload"
  BY <1>1
<1> QED
  BY <1>1, <1>2, <1>5, <1>6, QuietStep

\* The write loop, its end, and the collection, shift blocks only within the
\* request.
LEMMA RequestStep ==
  ASSUME Inv, Inv', BmapHit \/ WriteDataFails \/ WriteEnds \/ Collect
  PROVE  ContractStep
<1>1. /\ pc \in {"bmap", "data", "collect"} /\ blk = 0 /\ blk' = 0 /\ bl = {}
      /\ UNCHANGED <<fl, image>> /\ pc' # "reload"
  BY Facts DEF BmapHit, WriteDataFails, WriteEnds, Collect, WriteFails,
               Control, Popping, core, image
<1>2. Refs(ip') \cup bl' = Refs(ip)
  <2>1. CASE BmapHit \/ WriteDataFails
    BY <1>1, <2>1 DEF BmapHit, WriteDataFails, WriteFails
  <2>2. CASE WriteEnds
    <3>1. ip'.addr = ip.addr /\ bl' = bl
      BY <2>2, Facts DEF WriteEnds, Dinode
    <3> QED
      BY <1>1, <3>1 DEF Refs
  <2>3. CASE Collect
    BY <2>3, Collected
  <2> QED
    BY <2>1, <2>2, <2>3
<1>3. AllRefs' = AllRefs
  BY <1>1 DEF AllRefs, image
<1>4. Held' = Held \ {}
  BY <1>1, <1>2, <1>3 DEF Held
<1>5. {} \in SUBSET Block /\ pc # "reload"
  BY <1>1
<1> QED
  BY <1>1, <1>4, <1>5, QuietStep

\* -ENOSPC takes the sentinel, and no block.
LEMMA BallocNoSpaceStep == ASSUME Inv, Inv', BallocNoSpace PROVE ContractStep
<1>1. /\ pc = "bmap" /\ pc' = "collect" /\ InCore = fl /\ blk = 0 /\ blk' = 0
      /\ fl.n = 0 \/ fl.a[fl.n - 1] = 0
      /\ fl' = Popped /\ UNCHANGED <<sb, disk, inode, ip, bl>>
  BY Facts DEF BallocNoSpace, NeedsBlock, Top, WriteFails, image, InCore, Control, Popping
<1>2. fl \in Seg /\ fl' \in Seg /\ disk \in Disks
  BY Facts DEF Inv, TypeOK, CoreTypeOK
<1>3. Proper(fl)
  BY <1>1, Walks DEF Linked
<1>4. fl.n \in {0, 1}
  BY <1>1, <1>2, <1>3 DEF Proper, Seg
<1>5. fl'.n = 0 /\ Proper(fl')
  BY <1>1, <1>2, <1>4 DEF Popped, Proper
<1>6. InCoreFree' = {} /\ InCoreFree = {}
  BY <1>1, <1>2, <1>3, <1>5, WalkNothing DEF InCoreFree
<1>7. OnDiskFree' = OnDiskFree /\ AllRefs' = AllRefs /\ Held' = Held
  BY <1>1 DEF OnDiskFree, AllRefs, Held
<1> QED
  BY <1>6, <1>7, IsStutter

\* The reload reads back the cache its dump holds.
LEMMA BallocReloadStep == ASSUME Inv, Inv', BallocReload PROVE ContractStep
<1>1. /\ pc = "reload" /\ pc' = "commit" /\ fl' \in Decoded(disk[blk])
      /\ disk[blk] \in Seg /\ UNCHANGED <<sb, disk, inode, ip, bl, blk>>
  BY Facts DEF BallocReload, Control, image
<1>2. fl' = disk[blk]
  BY <1>1, DataAssumption DEF Decoded
<1>3. InCoreFree' = InCoreFree
  BY <1>1, <1>2 DEF InCoreFree
<1>4. OnDiskFree' = OnDiskFree /\ AllRefs' = AllRefs /\ Held' = Held
  BY <1>1 DEF OnDiskFree, AllRefs, Held
<1> QED
  BY <1>3, <1>4, IsStutter

\* The superblock goes out: balloc's commit, the flush before an inode write,
\* and filsys_sync.
LEMMA FlushStep ==
  ASSUME Inv, Inv', BallocCommit \/ WriteInodeFlush \/ Sync
  PROVE  ContractStep
<1>1. /\ pc # "reload" /\ pc' # "reload" /\ sb' = [seg |-> fl, tfree |-> tfree]
      /\ UNCHANGED <<fl, disk, inode, ip, bl, blk>>
  BY DEF BallocCommit, WriteInodeFlush, Sync, SuperWrite, req
<1>2. InCoreFree' = InCoreFree /\ OnDiskFree' = InCoreFree
  BY <1>1 DEF InCoreFree, OnDiskFree
<1>3. AllRefs' = AllRefs /\ Held' = Held
  BY <1>1 DEF AllRefs, Held
<1> QED
  BY <1>2, <1>3, IsFlush

\* Overwriting one block of the request leaves both lists as they are.
LEMMA OverwriteStep ==
  ASSUME Inv, Inv', UNCHANGED <<fl, sb, inode>>, pc # "reload", pc' # "reload",
         NEW b \in Block, disk' = [disk EXCEPT ![b] = Data],
         b \notin InCoreFree, b \notin Chain(disk, sb.seg), Held' = Held
  PROVE  ContractStep
<1>1. /\ disk \in Disks /\ disk' \in Disks /\ fl \in Seg /\ InCore = fl
      /\ \A c \in Block \ {b} : disk'[c] = disk[c]
  BY Facts DEF Inv, TypeOK, ImageTypeOK, Disks, InCore
<1>2. PICK C \in SUBSET Block : Linked(disk, fl, C)
  BY <1>1, Walks
<1>3. b \notin Chain(disk, fl) /\ Chain(disk, fl) \subseteq Block
  BY <1>1, Walks DEF Chain
<1>4. \A c \in Chain(disk, fl) : disk'[c] = disk[c]
  BY <1>1, <1>3
<1>5. \A c \in Chain(disk, sb.seg) : disk'[c] = disk[c]
  BY <1>1 DEF Chain
<1>6. FreeSet(disk', fl) = FreeSet(disk, fl)
  BY <1>1, <1>2, <1>4, WalkFrame
<1>7. InCoreFree' = InCoreFree
  BY <1>6 DEF InCoreFree
<1>8. OnDiskFree' = OnDiskFree /\ AllRefs' = AllRefs
  BY <1>5, DiskListKept
<1> QED
  BY <1>7, <1>8, IsStutter

\* The popped block is zeroed and given to the slot that asked.
LEMMA BallocZeroStep == ASSUME Inv, Inv', BallocZero PROVE ContractStep
<1>1. /\ pc = "zero" /\ pc' = "data" /\ disk' = [disk EXCEPT ![blk] = Data]
      /\ ip' = [ip EXCEPT !.addr[lbn] = blk] /\ blk' = 0
      /\ UNCHANGED <<fl, sb, inode, bl>>
  BY DEF BallocZero
<1>2. blk # 0 /\ blk \in Block /\ left > 0 /\ ip.addr[lbn] = 0 /\ ip \in Dinode
  BY <1>1, Facts DEF Control, Popping, ReqTypeOK
<1>3. lbn \in Slot
  BY <1>2, Facts, FreeListAssumption DEF ReqTypeOK, Slot
<1>4. \A s \in Slot : ip'.addr[s] = IF s = lbn THEN blk ELSE ip.addr[s]
  BY <1>1, <1>2 DEF Dinode
<1>5. Refs(ip') = Refs(ip) \cup {blk}
  BY <1>2, <1>3, <1>4 DEF Refs
<1>6. AllRefs' = AllRefs
  BY <1>1 DEF AllRefs
<1>7. Held' = Held
  BY <1>1, <1>2, <1>5, <1>6 DEF Held
<1>8. blk \notin InCoreFree /\ blk \notin Chain(disk, sb.seg)
  BY <1>1, Walks
<1> QED
  BY <1>1, <1>2, <1>7, <1>8, OverwriteStep

\* File data goes into a block of the file.
LEMMA WriteDataStep == ASSUME Inv, Inv', WriteData PROVE ContractStep
<1> DEFINE b == ip.addr[lbn]
<1>1. /\ pc = "data" /\ pc' = "bmap" /\ disk' = [disk EXCEPT ![b] = Data]
      /\ UNCHANGED <<fl, sb, inode, ip, blk, bl>>
  BY DEF WriteData, core
<1>2. left > 0 /\ b # 0
  BY <1>1, Facts DEF Control
<1>3. lbn \in Slot
  BY <1>2, Facts, FreeListAssumption DEF ReqTypeOK, Slot
<1>4. b \in Refs(ip) /\ b \in Block
  BY <1>2, <1>3, Facts DEF Refs
<1>5. b \notin InCoreFree /\ b \notin Chain(disk, sb.seg)
  BY <1>4, Walks
<1>6. Held' = Held
  BY <1>1 DEF Held, AllRefs
<1> QED
  BY <1>1, <1>4, <1>5, <1>6, OverwriteStep

\* A failed transfer of balloc's loses the block it popped and, when the dump
\* could not be read, every block below it.
LEMMA BallocFailsStep == ASSUME Inv, Inv', BallocFails PROVE ContractStep
<1>1. /\ Popping /\ pc' = "collect" /\ blk' = 0
      /\ UNCHANGED <<fl, sb, disk, inode, ip, bl>>
  BY DEF BallocFails, WriteFails, Popping, core, image
<1>2. blk \in Block /\ blk \notin Refs(ip) \cup bl
  BY <1>1, Facts DEF Control, ReqTypeOK, Owned
<1>3. OnDiskFree' = OnDiskFree /\ AllRefs' = AllRefs
  BY <1>1 DEF OnDiskFree, AllRefs
<1>4. Held' = Held \ {blk}
  BY <1>1, <1>2, <1>3 DEF Held
<1>5. PICK m \in SUBSET Block : InCoreFree' = InCoreFree \ m
  <2>1. CASE pc = "reload"
    <3>1. fl \in Seg /\ fl.n = 0 /\ Proper(fl) /\ disk \in Disks
      BY <2>1, Facts DEF Control, Proper
    <3>2. InCoreFree' = {}
      BY <1>1, <3>1, WalkNothing DEF InCoreFree
    <3>3. InCoreFree' = InCoreFree \ InCoreFree /\ InCoreFree \in SUBSET Block
      BY <3>2, Walks
    <3> QED
      BY <3>3
  <2>2. CASE pc # "reload"
    <3>1. InCoreFree' = InCoreFree \ {}
      BY <1>1, <2>2 DEF InCoreFree
    <3> QED
      BY <3>1
  <2> QED
    BY <2>1, <2>2
<1>6. {blk} \in SUBSET Block
  BY <1>2
<1> QED
  BY <1>3, <1>4, <1>5, <1>6, IsLeak

\* The inode write assigns what the in-core inode has gained and releases what
\* it has lost; what it has lost is on the collected list.
LEMMA WriteInodeStep == ASSUME Inv, Inv', Kept, WriteInode PROVE ContractStep
<1> DEFINE add == Refs(ip) \ AllRefs
           drop == Refs(inode[ino]) \ Refs(ip)
           others == UNION {Refs(inode[i]) : i \in Inode \ {ino}}
<1>1. /\ pc = "winode" /\ ~fl_dirty /\ ino \in Inode /\ blk = 0
      /\ inode \in [Inode -> Dinode] /\ inode' = [inode EXCEPT ![ino] = ip]
      /\ InodeWritten /\ UNCHANGED <<fl, sb, disk>>
  BY Facts DEF WriteInode, Control, Popping, ImageTypeOK
<1>2. AllRefs = others \cup Refs(inode[ino])
  BY <1>1 DEF AllRefs
<1>3. AllRefs' = others \cup Refs(ip)
  <2>1. \A i \in Inode : inode'[i] = IF i = ino THEN ip ELSE inode[i]
    BY <1>1
  <2> QED
    BY <1>1, <2>1 DEF AllRefs
<1>4. /\ others \cap Refs(inode[ino]) = {} /\ others \cap Refs(ip) = {}
      /\ others \cap bl = {} /\ Refs(ip) \cap bl = {}
  BY <1>1, Facts DEF Owned, Disjoint
<1>5. drop \subseteq bl
  BY <1>1 DEF Kept
<1>6. Held' = bl /\ pc' # "reload"
  <2>1. CASE stage \in {"write", "store"} /\ Idle
    BY <1>1, <2>1, Facts, IdleHolds DEF Control
  <2>2. CASE stage = "clear" /\ Fill
    <3>1. bl = {} /\ bl' = bl /\ blk' = 0 /\ pc' = "winode" /\ Refs(ip') = {}
      BY <1>1, <2>2, Facts DEF Control, Fill, Blank, Refs
    <3> QED
      BY <3>1 DEF Held
  <2>3. CASE /\ stage = "tail" /\ pc' = "collect" /\ stage' = "trunc"
             /\ UNCHANGED <<ino, ip, lbn, left, first, blk, bl>>
    <3>1. bl = {}
      BY <2>3, Facts DEF Control
    <3> QED
      BY <1>1, <1>3, <2>3, <3>1 DEF Held
  <2>4. CASE /\ stage \in {"rollback", "trunc", "destroy"} /\ pc' = "drain"
             /\ UNCHANGED <<stage, ino, ip, lbn, left, first, blk, bl>>
    BY <1>1, <1>3, <1>4, <2>4 DEF Held
  <2> QED
    BY <1>1, <2>1, <2>2, <2>3, <2>4 DEF InodeWritten
<1>7. InCoreFree' = InCoreFree /\ OnDiskFree' = OnDiskFree
  BY <1>1, <1>6 DEF InCoreFree, OnDiskFree
<1>8. /\ add \in SUBSET Block /\ drop \in SUBSET Block
      /\ add \subseteq Held \ OnDiskFree /\ drop \subseteq AllRefs
  <2>1. OnDiskFree \cap Refs(ip) = {}
    BY <1>1, Walks
  <2>2. add \subseteq Held
    BY DEF Held
  <2> QED
    BY <1>2, <2>1, <2>2, Facts
<1>9. AllRefs' = (AllRefs \ drop) \cup add
  BY <1>2, <1>3, <1>4
<1>10. Held = (Refs(ip) \cup bl) \ AllRefs
  BY <1>1 DEF Held
<1> HIDE DEF others
<1>11. Held' = (Held \ add) \cup drop
  BY <1>2, <1>4, <1>5, <1>6, <1>10
<1> HIDE DEF add, drop
<1> QED
  BY <1>7, <1>8, <1>9, <1>11, IsPublish

\* A failed inode write moves no block, or leaks those the request holds.
LEMMA WriteInodeFailsStep == ASSUME Inv, Inv', Kept, WriteInodeFails PROVE ContractStep
<1>1. pc = "winode" /\ blk = 0 /\ UNCHANGED <<fl, image>>
  BY Facts DEF WriteInodeFails, Control, Popping
<1>2. AllRefs' = AllRefs
  BY <1>1 DEF AllRefs, image
<1>3. CASE stage = "write"
  <2>1. WriteFails
    BY <1>3 DEF WriteInodeFails
  <2>2. Held' = Held \ {} /\ pc' # "reload" /\ {} \in SUBSET Block
    BY <1>1, <1>2, <2>1 DEF WriteFails, Held
  <2> QED
    BY <1>1, <2>2, QuietStep
<1>4. CASE stage = "clear"
  <2>1. Fill /\ bl = {} /\ Refs(ip) = {}
    BY <1>4, Facts DEF WriteInodeFails, Control, Kept
  <2>2. bl' = {} /\ blk' = 0 /\ pc' = "winode" /\ Refs(ip') = {}
    BY <1>1, <2>1 DEF Fill, Blank, Refs
  <2>3. Held' = Held \ {} /\ pc' # "reload" /\ {} \in SUBSET Block
    BY <1>1, <2>1, <2>2 DEF Held
  <2> QED
    BY <1>1, <2>3, QuietStep
<1>5. CASE stage \notin {"write", "clear"}
  <2>1. Idle
    BY <1>5 DEF WriteInodeFails
  <2> QED
    BY <1>1, <2>1, IdleStep
<1> QED
  BY <1>3, <1>4, <1>5

\* bfree pushes or dumps a collected block, or loses it when the dump fails.
LEMMA DrainStep == ASSUME Inv, Inv', NEW b \in Block, Drain(b) PROVE ContractStep
<1>1. /\ pc = "drain" /\ pc' = "drain" /\ b \in bl /\ bl' = bl \ {b} /\ Bfree(b)
      /\ UNCHANGED <<sb, inode, ip, blk>> /\ InCore = fl
  BY DEF Drain, InCore
<1>2. disk \in Disks /\ disk' \in Disks /\ fl \in Seg /\ fl' \in Seg
  BY Facts DEF Inv, TypeOK, CoreTypeOK, ImageTypeOK, Disks
<1>3. PICK C \in SUBSET Block : Linked(disk, fl, C)
  BY <1>1, Walks
<1>4. /\ Based \in Seg /\ Based.n >= 1 /\ Linked(disk, Based, C)
      /\ FreeSet(disk, Based) = FreeSet(disk, fl)
  BY <1>2, <1>3, BaseSame, WalkBase DEF Based
<1>5. InCoreFree = FreeSet(disk, fl) /\ InCoreFree' = FreeSet(disk', fl')
  BY <1>1 DEF InCoreFree
<1>6. b \notin FreeSet(disk, Based) /\ b \notin Chain(disk, sb.seg)
  BY <1>1, <1>4, <1>5, Walks
<1>7. AllRefs' = AllRefs
  BY <1>1 DEF AllRefs
<1>8. b \in Held /\ Held' = Held \ {b}
  BY <1>1, <1>7, Facts DEF Held, Owned, Control, Popping
<1>9. CASE BfreePush(b)
  <2>1. /\ disk' = disk /\ Based.n < NICFREE
        /\ fl' = [n |-> Based.n + 1, a |-> [Based.a EXCEPT ![Based.n] = b]]
    BY <1>9 DEF BfreePush
  <2>2. FreeSet(disk, fl') = FreeSet(disk, Based) \cup {b}
    BY <1>2, <1>4, <1>6, <2>1, WalkPush
  <2>3. InCoreFree' = InCoreFree \cup {b} /\ OnDiskFree' = OnDiskFree
    BY <1>1, <1>4, <1>5, <2>1, <2>2 DEF OnDiskFree
  <2> QED
    BY <1>7, <1>8, <2>3, IsBfree
<1>10. CASE BfreeDump(b)
  <2>1. /\ disk' = [disk EXCEPT ![b] = Based]
        /\ fl' = [n |-> 1, a |-> [NoSeg.a EXCEPT ![0] = b]]
    BY <1>10 DEF BfreeDump
  <2>2. fl'.n = 1 /\ fl'.a[0] = b
    BY <2>1, FreeListAssumption DEF NoSeg, Cell
  <2>3. disk'[b] = Based /\ \A c \in Block \ {b} : disk'[c] = disk[c]
    BY <1>2, <2>1 DEF Disks
  <2>4. FreeSet(disk', fl') = FreeSet(disk, Based) \cup {b}
    BY <1>2, <1>4, <1>6, <2>2, <2>3, WalkDump
  <2>5. \A c \in Chain(disk, sb.seg) : disk'[c] = disk[c]
    BY <1>6, <2>3 DEF Chain
  <2>6. OnDiskFree' = OnDiskFree
    BY <1>1, <2>5, DiskListKept
  <2>7. InCoreFree' = InCoreFree \cup {b}
    BY <1>4, <1>5, <2>4
  <2> QED
    BY <1>7, <1>8, <2>6, <2>7, IsBfree
<1>11. CASE BfreeLeak(b)
  <2>1. InCoreFree' = InCoreFree \ {} /\ OnDiskFree' = OnDiskFree
    BY <1>1, <1>4, <1>5, <1>11 DEF BfreeLeak, OnDiskFree
  <2>2. {} \in SUBSET Block /\ {b} \in SUBSET Block
    OBVIOUS
  <2> QED
    BY <1>7, <1>8, <2>1, <2>2, IsLeak
<1> QED
  BY <1>1, <1>9, <1>10, <1>11 DEF Bfree

\* A remount hands out what the superblock on disk lists.
LEMMA CrashStep == ASSUME Inv, Inv', Crash PROVE ContractStep
<1>1. Idle /\ fl' = sb.seg /\ UNCHANGED <<sb, disk, inode>>
  BY DEF Crash, image
<1>2. Held' = {} /\ pc' = "idle"
  BY <1>1, IdleHolds
<1>3. InCoreFree' = OnDiskFree /\ OnDiskFree' = OnDiskFree /\ AllRefs' = AllRefs
  BY <1>1, <1>2 DEF InCoreFree, OnDiskFree, AllRefs
<1> QED
  BY <1>2, <1>3, IsRemount

\* Every step of FreeList is a step of the contract, or none.
LEMMA NextStep == Inv /\ Inv' /\ Kept /\ [Next]_vars => ContractStep
<1> SUFFICES ASSUME Inv, Inv', Kept, [Next]_vars PROVE ContractStep
  OBVIOUS
<1>1. CASE UNCHANGED vars
  <2>1. UNCHANGED <<fl, sb, disk, inode, pc, ip, blk, bl>>
    BY <1>1 DEF vars
  <2>2. /\ InCoreFree' = InCoreFree /\ OnDiskFree' = OnDiskFree
        /\ AllRefs' = AllRefs /\ Held' = Held
    BY <2>1 DEF InCoreFree, OnDiskFree, AllRefs, Held
  <2> QED
    BY <2>2, IsStutter
<1>2. CASE CollectFails \/ DrainEnds
  <2>1. Idle /\ UNCHANGED <<fl, image>> /\ pc # "reload"
    BY <1>2 DEF CollectFails, DrainEnds, core
  <2> QED
    BY <2>1, IdleStep
<1>3. CASE \E b \in Block : Drain(b)
  BY <1>3, DrainStep
<1>4. CASE Step
  BY <1>2, <1>3, <1>4, BallocNoSpaceStep, BallocPopStep, BallocReloadStep, FlushStep,
     BallocZeroStep, BallocFailsStep, RequestStep, WriteDataStep, WriteInodeStep,
     WriteInodeFailsStep
     DEF Step
<1> QED
  BY <1>1, <1>4, BeginStep, FlushStep, CrashStep DEF Next

\* A mounted image starts in a state the contract starts in.
LEMMA InitContract == Init => Contract!Init
<1> SUFFICES ASSUME Init PROVE Contract!Init
  OBVIOUS
<1>1. Inv
  BY InitInv
<1>2. InCoreFree \in SUBSET Block /\ InCoreFree \cap AllRefs = {} /\ AllRefs \subseteq Block
  BY <1>1, Walks, Facts
<1>3. OnDiskFree = InCoreFree
  BY DEF Init, OnDiskFree, InCoreFree
<1>4. Held = {}
  BY BlankFacts DEF Init, Held
<1> QED
  BY <1>2, <1>3, <1>4 DEF Contract!Init, OnDiskFree, Held

\* The free-list allocator and the requests that drive it keep the allocator
\* contract: balloc takes only blocks that are free, an inode on disk comes to
\* name only blocks the image does not list as free, and bfree gives back only
\* blocks that the request has released, whatever fails and wherever it crashes.
THEOREM ImplementsContract == Spec => MeetsContract
<1>1. Spec => [](Inv /\ Kept)
  <2>1. Init => Inv /\ Kept
    BY InitInv, KeptInit
  <2>2. (Inv /\ Kept) /\ [Next]_vars => (Inv /\ Kept)'
    BY NextInv, KeptNext
  <2> QED
    BY <2>1, <2>2, PTL DEF Spec
<1>2. (Inv /\ Kept) /\ (Inv /\ Kept)' /\ [Next]_vars => [Contract!Next]_(Contract!vars)
  BY NextStep DEF ContractStep
<1> QED
  BY <1>1, <1>2, InitContract, PTL DEF Spec, MeetsContract, Contract!Spec
=============================================================================
