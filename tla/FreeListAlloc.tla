--------------------------- MODULE FreeListAlloc ---------------------------
(***************************************************************************)
(* The inductive invariant holds initially, and the steps of v7fs_balloc   *)
(* preserve it.                                                            *)
(***************************************************************************)
EXTENDS FreeListChain

(* One lemma per action.                                                   *)

LEMMA InitInv == Init => Inv
<1> SUFFICES ASSUME Init PROVE Inv
  OBVIOUS
<1>1. TypeOK
  <2>1. CoreTypeOK
    BY DEF Init, CoreTypeOK
  <2>2. ImageTypeOK
    BY DEF Init, ImageTypeOK
  <2>3. ReqTypeOK
    BY BlankFacts, FreeListAssumption DEF Init, ReqTypeOK, PC, Stage
  <2> QED
    BY <2>1, <2>2, <2>3 DEF Init, TypeOK
<1>2. Control
  BY DEF Init, Control, Popping
<1>3. Owned
  <2>1. Refs(ip) = {} /\ \A s \in Slot : ip.addr[s] = 0
    BY BlankFacts DEF Init, Blank
  <2>2. 0 \notin AllRefs
    BY DEF AllRefs, Refs
  <2> QED
    BY <2>1, <2>2 DEF Init, Owned
<1>4. PICK C \in SUBSET Block :
         Linked(disk, sb.seg, C) /\ ListedUnder(disk, sb.seg, C) \cap AllRefs = {}
  BY DEF Init
<1>5. Safe(C, C)
  <2>1. Refs(ip) = {} /\ bl = {} /\ blk = 0 /\ InCore = sb.seg /\ pc = "idle"
    BY BlankFacts DEF Init, InCore
  <2>2. 0 \notin ListedUnder(disk, sb.seg, C)
    BY DEF ListedUnder, Listed
  <2> QED
    BY <1>4, <2>1, <2>2 DEF Safe
<1> QED
  BY <1>1, <1>2, <1>3, <1>5 DEF Inv

\* What the proofs below take from the invariant's types.
LEMMA Facts ==
  ASSUME Inv
  PROVE  /\ fl \in Seg /\ sb.seg \in Seg /\ sb.tfree \in Nat /\ tfree \in Nat
         /\ disk \in Disks /\ ip \in Dinode /\ \A i \in Inode : inode[i] \in Dinode
         /\ AllRefs \subseteq Block /\ Refs(ip) \subseteq Block /\ bl \subseteq Block
         /\ 0 \notin AllRefs /\ 0 \notin Refs(ip) /\ 0 \notin bl
         /\ TypeOK /\ CoreTypeOK /\ ImageTypeOK /\ ReqTypeOK /\ Control /\ Owned
<1>1. TypeOK /\ CoreTypeOK /\ ImageTypeOK /\ ReqTypeOK /\ Control /\ Owned
  BY DEF Inv, TypeOK
<1>2. /\ fl \in Seg /\ sb.seg \in Seg /\ sb.tfree \in Nat /\ tfree \in Nat
      /\ disk \in Disks /\ ip \in Dinode /\ \A i \in Inode : inode[i] \in Dinode
      /\ bl \subseteq Block
  BY <1>1 DEF CoreTypeOK, ImageTypeOK, ReqTypeOK, Disks
<1>3. AllRefs \subseteq Block /\ Refs(ip) \subseteq Block
  BY <1>2, RefsInBlock DEF AllRefs
<1> QED
  BY <1>1, <1>2, <1>3, FreeListAssumption

\* A step that moves only the request, and takes no block the allocator knows
\* as free, keeps the lists safe.
LEMMA QuietSafe ==
  ASSUME Inv, UNCHANGED <<fl, image>>, fl_dirty' = fl_dirty \/ fl_dirty',
         pc # "reload", pc' # "reload", pc' # "zero", blk' = 0,
         Refs(ip') \cup bl' \subseteq Refs(ip) \cup bl \cup AllRefs
  PROVE  \E C, D \in SUBSET Block : Safe(C, D)'
<1>1. PICK C, D \in SUBSET Block : Safe(C, D)
  BY DEF Inv
<1>2. /\ AllRefs' = AllRefs /\ disk' = disk /\ sb' = sb /\ InCore = fl /\ InCore' = fl
  BY DEF AllRefs, image, InCore
<1>3. D \subseteq ListedUnder(disk, sb.seg, D)
  BY <1>1, Facts, ChainIsListed DEF Safe
<1>4. 0 \notin ListedUnder(disk, fl, C)
  BY DEF ListedUnder, Listed
<1>5. Safe(C, D)'
  BY <1>1, <1>2, <1>3, <1>4 DEF Safe
<1> QED
  BY <1>5

\* At the end of a request the request owns nothing.
LEMMA IdleSafe ==
  ASSUME Inv, Idle, UNCHANGED <<fl, fl_dirty, image>>, pc # "reload"
  PROVE  \E C, D \in SUBSET Block : Safe(C, D)'
<1>1. Refs(ip') = {} /\ bl' = {} /\ blk' = 0 /\ pc' = "idle"
  BY BlankFacts DEF Idle
<1> QED
  BY <1>1, QuietSafe

LEMMA IdleOwned ==
  ASSUME Idle, Disjoint'
  PROVE  Owned' /\ Control' /\ ReqTypeOK'
<1>1. /\ Refs(ip') = {} /\ bl' = {} /\ blk' = 0 /\ pc' = "idle"
      /\ ip' \in Dinode /\ ip' = Blank /\ stage' = "none"
      /\ \A s \in Slot : ip'.addr[s] = 0
  BY BlankFacts DEF Idle, Blank
<1>2. 0 \notin AllRefs'
  BY DEF AllRefs, Refs
<1>3. Owned'
  BY <1>1, <1>2 DEF Owned
<1>4. Control'
  BY <1>1 DEF Control, Popping
<1>5. ReqTypeOK'
  BY <1>1, FreeListAssumption DEF Idle, ReqTypeOK, PC, Stage
<1> QED
  BY <1>3, <1>4, <1>5

\* A request that ends and writes nothing.
LEMMA QuietIdle ==
  ASSUME Inv, Idle, UNCHANGED <<core, image>>, calm' \in BOOLEAN, pc # "reload"
  PROVE  Inv'
<1>1. UNCHANGED <<fl, tfree, fl_dirty, sb, disk, inode>>
  BY DEF core, image
<1>2. CoreTypeOK' /\ ImageTypeOK' /\ Disjoint'
  BY <1>1, Facts DEF CoreTypeOK, ImageTypeOK, Owned, Disjoint
<1>3. Owned' /\ Control' /\ ReqTypeOK'
  BY <1>2, IdleOwned
<1>4. \E C, D \in SUBSET Block : Safe(C, D)'
  BY <1>1, IdleSafe
<1> QED
  BY <1>2, <1>3, <1>4 DEF Inv, TypeOK

LEMMA BallocNoSpaceInv == Inv /\ BallocNoSpace => Inv'
<1> SUFFICES ASSUME Inv, BallocNoSpace PROVE Inv'
  OBVIOUS
<1>1. PICK C, D \in SUBSET Block : Safe(C, D)
  BY DEF Inv
<1>2. /\ TypeOK /\ Control /\ Owned /\ pc = "bmap" /\ InCore = fl /\ InCore' = fl'
      /\ fl \in Seg /\ disk \in Disks
  BY DEF Inv, BallocNoSpace, NeedsBlock, WriteFails, InCore, TypeOK, CoreTypeOK, ImageTypeOK, Disks
<1>3. fl' \in Seg /\ fl'.n = 0 /\ (fl.n = 0 \/ fl.a[fl.n - 1] = 0)
  <2>1. Proper(fl)
    BY <1>1, <1>2 DEF Safe, Linked
  <2> QED
    BY <2>1, <1>2, FreeListAssumption DEF BallocNoSpace, Top, Popped, Proper, Seg, Cell
<1>4. TypeOK'
  <2>1. CoreTypeOK' /\ ImageTypeOK'
    BY <1>2, <1>3 DEF TypeOK, CoreTypeOK, ImageTypeOK, BallocNoSpace, image
  <2>2. ReqTypeOK'
    BY <1>2, FreeListAssumption DEF TypeOK, ReqTypeOK, BallocNoSpace, WriteFails, PC, Stage
  <2> QED
    BY <1>2, <2>1, <2>2 DEF TypeOK, BallocNoSpace
<1>5. Control'
  BY <1>2 DEF Control, Popping, BallocNoSpace, WriteFails, image
<1>6. Owned'
  <2>1. 0 \notin AllRefs /\ 0 \notin Refs(ip) /\ 0 \notin bl
    BY <1>2, FreeListAssumption DEF AllRefs, Refs, TypeOK, ReqTypeOK
  <2> QED
    BY <1>2, <2>1 DEF Owned, BallocNoSpace, WriteFails, image, AllRefs, Disjoint
<1>7. Safe(C, D)'
  <2>1. Linked(disk, fl', C) /\ ListedUnder(disk, fl', C) = ListedUnder(disk, fl, C)
    BY <1>1, <1>2, <1>3, PopNothing DEF Safe
  <2>2. 0 \notin ListedUnder(disk, fl, C)
    BY DEF ListedUnder, Listed
  <2> QED
    BY <1>1, <1>2, <2>1, <2>2 DEF Safe, BallocNoSpace, WriteFails, image, AllRefs
<1> QED
  BY <1>4, <1>5, <1>6, <1>7 DEF Inv

LEMMA BallocPopInv == Inv /\ BallocPop => Inv'
<1> SUFFICES ASSUME Inv, BallocPop PROVE Inv'
  OBVIOUS
<1>1. PICK C, D \in SUBSET Block : Safe(C, D)
  BY DEF Inv
<1>2. /\ pc = "bmap" /\ InCore = fl /\ blk' = Top /\ Top # 0 /\ left > 0
      /\ fl.n \in 1..NICFREE /\ Top = fl.a[fl.n - 1] /\ Top \in Block
      /\ fl' = [n |-> fl.n - 1, a |-> [fl.a EXCEPT ![fl.n - 1] = 0]]
      /\ UNCHANGED <<tfree, fl_dirty, sb, disk, inode, ip, bl>>
  BY Facts, FreeListAssumption DEF BallocPop, NeedsBlock, InCore, Top, Popped, Seg, Cell, image
<1>3. fl' \in Seg
  BY <1>2, Facts, FreeListAssumption DEF Seg, Cell
<1>4. TypeOK'
  <2>1. CoreTypeOK' /\ ImageTypeOK'
    BY <1>2, <1>3, Facts DEF CoreTypeOK, ImageTypeOK
  <2>2. ReqTypeOK'
    BY <1>2, Facts DEF ReqTypeOK, BallocPop, PC
  <2> QED
    BY <2>1, <2>2, Facts DEF TypeOK, BallocPop
<1>5. Top \in ListedUnder(disk, fl, C)
  <2>1. Top \in Listed(fl)
    BY <1>2 DEF Listed
  <2> QED
    BY <2>1 DEF ListedUnder
<1>6. Owned'
  <2>1. Top \notin AllRefs /\ Top \notin Refs(ip) /\ Top \notin bl
    BY <1>1, <1>2, <1>5 DEF Safe
  <2> QED
    BY <1>2, <2>1, Facts DEF Owned, BallocPop, AllRefs, Disjoint
<1>7. CASE fl.n = 1
  <2>0. PICK B \in SUBSET Block : B = C \ {Top}
    OBVIOUS
  <2>a. Top = fl.a[0] /\ fl.n = 1 /\ fl.a[0] # 0 /\ Linked(disk, fl, C)
    BY SMTT(30), <1>1, <1>2, <1>7 DEF Safe
  <2>1. /\ disk[Top] \in Seg /\ Linked(disk, disk[Top], B)
        /\ ListedUnder(disk, disk[Top], B) = ListedUnder(disk, fl, C) \ {Top}
    BY <2>0, <2>a, Facts, PopChain
  <2>2. pc' = "reload" /\ InCore' = disk[Top]
    BY <1>2, <1>7 DEF BallocPop, InCore
  <2>3. Control'
    BY SMTT(30), <1>2, <1>7, <2>1, <2>2, Facts DEF Control, Popping, BallocPop, NeedsBlock
  <2>4. Safe(B, D)'
    <3>1. D \cap (ListedUnder(disk, fl, C) \ {Top}) \subseteq B
      BY <1>1, <1>2, <2>0 DEF Safe
    <3> QED
      BY SMTT(30), <1>1, <1>2, <2>1, <2>2, <3>1 DEF Safe, AllRefs
  <2> QED
    BY <1>4, <1>6, <2>3, <2>4 DEF Inv
<1>8. CASE fl.n # 1
  <2>1. /\ Linked(disk, fl', C) /\ Top \notin C
        /\ ListedUnder(disk, fl', C) = ListedUnder(disk, fl, C) \ {Top}
    BY SMTT(30), <1>1, <1>2, <1>8, Facts, PopEntry DEF Safe
  <2>2. pc' = "zero" /\ InCore' = fl'
    BY <1>2, <1>8 DEF BallocPop, InCore
  <2>3. Control'
    BY <1>2, <1>8, <2>2, Facts DEF Control, Popping, BallocPop, NeedsBlock
  <2>4. Top \notin D
    BY <1>1, <1>2, <1>5, <2>1 DEF Safe
  <2>5. Safe(C, D)'
    BY SMTT(30), <1>1, <1>2, <2>1, <2>2, <2>4, Facts DEF Safe, AllRefs
  <2> QED
    BY <1>4, <1>6, <2>3, <2>5 DEF Inv
<1> QED
  BY <1>7, <1>8

LEMMA BallocReloadInv == Inv /\ BallocReload => Inv'
<1> SUFFICES ASSUME Inv, BallocReload PROVE Inv'
  OBVIOUS
<1>1. PICK C, D \in SUBSET Block : Safe(C, D)
  BY DEF Inv
<1>2. /\ pc = "reload" /\ pc' = "commit" /\ disk[blk] \in Seg
      /\ UNCHANGED <<tfree, fl_dirty, sb, disk, inode, stage, ino, ip, lbn, left, first, blk, bl, calm>>
  BY Facts DEF BallocReload, Control, image
<1>3. fl' = disk[blk] /\ InCore' = InCore
  BY <1>2, DataAssumption DEF BallocReload, Decoded, InCore
<1>4. TypeOK'
  <2>1. CoreTypeOK' /\ ImageTypeOK'
    BY <1>2, <1>3, Facts DEF CoreTypeOK, ImageTypeOK
  <2>2. ReqTypeOK'
    BY <1>2, Facts DEF ReqTypeOK, PC
  <2> QED
    BY <1>2, <2>1, <2>2, Facts DEF TypeOK
<1>5. Control'
  BY <1>2, Facts DEF Control, Popping
<1>6. Owned'
  BY <1>2, Facts DEF Owned, AllRefs, Disjoint
<1>7. Safe(C, D)'
  BY <1>1, <1>2, <1>3 DEF Safe, AllRefs
<1> QED
  BY <1>4, <1>5, <1>6, <1>7 DEF Inv

\* Once the superblock is written, the list on disk is the list in core.
LEMMA FlushSafe ==
  ASSUME Inv, SuperWrite, UNCHANGED <<fl, disk, inode, ip, bl, blk>>,
         pc # "reload", pc' # "reload"
  PROVE  \E C, D \in SUBSET Block : Safe(C, D)'
<1>1. PICK C, D \in SUBSET Block : Safe(C, D)
  BY DEF Inv
<1>2. /\ AllRefs' = AllRefs /\ InCore = fl /\ InCore' = fl /\ sb'.seg = fl
  BY DEF AllRefs, InCore, SuperWrite
<1>3. C \subseteq ListedUnder(disk, fl, C)
  BY <1>1, <1>2, Facts, ChainIsListed DEF Safe
<1>4. Safe(C, C)'
  BY <1>1, <1>2, <1>3 DEF Safe
<1> QED
  BY <1>4

LEMMA FlushCore ==
  ASSUME Inv, SuperWrite, UNCHANGED <<fl, tfree, disk, inode>>
  PROVE  CoreTypeOK' /\ ImageTypeOK'
  BY Facts DEF SuperWrite, CoreTypeOK, ImageTypeOK

LEMMA BallocCommitInv == Inv /\ BallocCommit => Inv'
<1> SUFFICES ASSUME Inv, BallocCommit PROVE Inv'
  OBVIOUS
<1>1. /\ pc = "commit" /\ pc' = "zero" /\ SuperWrite
      /\ UNCHANGED <<fl, tfree, disk, inode, stage, ino, ip, lbn, left, first, blk, bl, calm>>
  BY DEF BallocCommit
<1>2. TypeOK'
  <2>1. ReqTypeOK'
    BY <1>1, Facts DEF ReqTypeOK, PC
  <2> QED
    BY <1>1, <2>1, FlushCore, Facts DEF TypeOK
<1>3. Control'
  BY <1>1, Facts DEF Control, Popping
<1>4. Owned'
  BY <1>1, Facts DEF Owned, AllRefs, Disjoint
<1>5. \E C, D \in SUBSET Block : Safe(C, D)'
  BY <1>1, FlushSafe
<1> QED
  BY <1>2, <1>3, <1>4, <1>5 DEF Inv

\* Writing file data into a block that is on neither list's chain.
LEMMA DataSafe ==
  ASSUME disk \in Disks, fl \in Seg, sb.seg \in Seg,
         NEW C \in SUBSET Block, NEW D \in SUBSET Block,
         Linked(disk, fl, C), Linked(disk, sb.seg, D),
         NEW b \in Block, b \notin C, b \notin D, disk' = [disk EXCEPT ![b] = Data]
  PROVE  /\ Linked(disk', fl, C) /\ ListedUnder(disk', fl, C) = ListedUnder(disk, fl, C)
         /\ Linked(disk', sb.seg, D) /\ ListedUnder(disk', sb.seg, D) = ListedUnder(disk, sb.seg, D)
<1>1. disk' \in Disks /\ (\A c \in C : disk'[c] = disk[c]) /\ (\A c \in D : disk'[c] = disk[c])
  BY DEF Disks
<1>2. Linked(disk', fl, C) /\ ListedUnder(disk', fl, C) = ListedUnder(disk, fl, C)
  BY ZenonT(60), <1>1, Frame
<1>3. Linked(disk', sb.seg, D) /\ ListedUnder(disk', sb.seg, D) = ListedUnder(disk, sb.seg, D)
  BY ZenonT(60), <1>1, Frame
<1> QED
  BY <1>2, <1>3

LEMMA BallocZeroInv == Inv /\ BallocZero => Inv'
<1> SUFFICES ASSUME Inv, BallocZero PROVE Inv'
  OBVIOUS
<1>1. PICK C, D \in SUBSET Block : Safe(C, D)
  BY DEF Inv
<1>2. /\ pc = "zero" /\ pc' = "data" /\ disk' = [disk EXCEPT ![blk] = Data]
      /\ tfree' = (IF tfree = 0 THEN 0 ELSE tfree - 1) /\ fl_dirty' = TRUE
      /\ ip' = [ip EXCEPT !.addr[lbn] = blk] /\ blk' = 0
      /\ UNCHANGED <<fl, sb, inode, stage, ino, lbn, left, first, bl, calm>>
  BY DEF BallocZero
<1>3. blk \in Block /\ lbn \in Slot /\ ip.addr[lbn] = 0 /\ left > 0
  BY <1>2, Facts, FreeListAssumption DEF Control, Popping, ReqTypeOK, Slot
<1>4. /\ ip' \in Dinode /\ ip'.addr[lbn] = blk
      /\ \A s \in Slot \ {lbn} : ip'.addr[s] = ip.addr[s]
  BY <1>2, <1>3, Facts DEF Dinode
<1>5. Refs(ip') = Refs(ip) \cup {blk}
  BY <1>3, <1>4, FreeListAssumption DEF Refs
<1>6. /\ blk \notin ListedUnder(disk, InCore, C) /\ blk \notin D /\ InCore = fl /\ InCore' = fl
      /\ blk \notin AllRefs /\ blk \notin Refs(ip) /\ blk \notin bl
  BY <1>1, <1>2, Facts DEF Safe, InCore, Owned
<1>7. TypeOK'
  <2>1. CoreTypeOK'
    BY <1>2, Facts DEF CoreTypeOK
  <2>2. ImageTypeOK'
    BY <1>2, <1>3, Facts DEF ImageTypeOK
  <2>3. ReqTypeOK'
    BY <1>2, <1>4, Facts DEF ReqTypeOK, PC
  <2> QED
    BY <1>2, <2>1, <2>2, <2>3, Facts DEF TypeOK
<1>8. Control'
  BY <1>2, <1>3, <1>4, Facts, FreeListAssumption DEF Control, Popping
<1>9. Owned'
  <2>1. Disjoint' /\ AllRefs' = AllRefs
    BY <1>2, Facts DEF Owned, Disjoint, AllRefs
  <2>2. \A s, t \in Slot : s # t /\ ip'.addr[s] # 0 => ip'.addr[s] # ip'.addr[t]
    <3>1. \A s \in Slot : ip.addr[s] # blk
      BY <1>3, <1>6, FreeListAssumption DEF Refs
    <3> QED
      BY <1>3, <1>4, <3>1, Facts DEF Owned
  <2>3. \A i \in Inode \ {ino} : Refs(inode[i]) \cap Refs(ip') = {}
    BY <1>5, <1>6, Facts DEF Owned, AllRefs
  <2>4. \A i \in Inode \ {ino} : Refs(inode[i]) \cap bl = {}
    BY Facts DEF Owned
  <2>5. Refs(ip') \cap bl = {} /\ 0 \notin AllRefs \cup Refs(ip') \cup bl
    BY <1>3, <1>5, <1>6, Facts, FreeListAssumption DEF Owned
  <2> QED
    BY <1>2, <2>1, <2>2, <2>3, <2>4, <2>5 DEF Owned
<1>10. Safe(C, D)'
  <2>1. /\ Linked(disk', fl, C) /\ ListedUnder(disk', fl, C) = ListedUnder(disk, fl, C)
        /\ Linked(disk', sb.seg, D) /\ ListedUnder(disk', sb.seg, D) = ListedUnder(disk, sb.seg, D)
    <3>1. blk \notin C
      BY <1>1, <1>6, Facts, ChainIsListed DEF Safe
    <3>2. Linked(disk, fl, C) /\ Linked(disk, sb.seg, D)
      BY <1>1, <1>6 DEF Safe
    <3>3. disk \in Disks /\ fl \in Seg /\ sb.seg \in Seg
      BY Facts
    <3> QED
      BY <1>2, <1>3, <1>6, <3>1, <3>2, <3>3, DataSafe
  <2>2. 0 \notin ListedUnder(disk, fl, C)
    BY DEF ListedUnder, Listed
  <2>3. AllRefs' = AllRefs
    BY <1>2 DEF AllRefs
  <2> QED
    BY <1>1, <1>2, <1>5, <1>6, <2>1, <2>2, <2>3 DEF Safe
<1> QED
  BY <1>7, <1>8, <1>9, <1>10 DEF Inv

\* A failed write hands over to the rollback with its blocks as they are.
LEMMA WriteFailsRest ==
  ASSUME Inv, WriteFails, UNCHANGED <<core, image>>, calm' \in BOOLEAN,
         bl = {}, ino \in Inode
  PROVE  TypeOK' /\ Control' /\ Owned'
<1>1. /\ UNCHANGED <<fl, tfree, fl_dirty, sb, disk, inode, ino, ip, first, bl>>
      /\ pc' = "collect" /\ stage' = "rollback" /\ lbn' = 0 /\ left' = 0 /\ blk' = 0
  BY DEF WriteFails, core, image
<1>2. TypeOK'
  <2>1. CoreTypeOK' /\ ImageTypeOK'
    BY <1>1, Facts DEF CoreTypeOK, ImageTypeOK
  <2>2. ReqTypeOK'
    BY <1>1, Facts, FreeListAssumption DEF ReqTypeOK, PC, Stage
  <2> QED
    BY <2>1, <2>2 DEF TypeOK
<1>3. Control'
  BY <1>1 DEF Control, Popping
<1>4. Owned'
  BY <1>1, Facts DEF Owned, AllRefs, Disjoint
<1> QED
  BY <1>2, <1>3, <1>4

LEMMA BallocFailsInv == Inv /\ BallocFails => Inv'
<1> SUFFICES ASSUME Inv, BallocFails PROVE Inv'
  OBVIOUS
<1>1. /\ pc \in {"reload", "commit", "zero"} /\ WriteFails /\ UNCHANGED <<core, image>>
      /\ calm' = FALSE /\ bl = {} /\ ino \in Inode
  BY Facts DEF BallocFails, Control
<1>2. TypeOK' /\ Control' /\ Owned'
  BY <1>1, WriteFailsRest
<1>3. CASE pc # "reload"
  BY <1>1, <1>2, <1>3, QuietSafe DEF WriteFails, core, Inv
<1>4. CASE pc = "reload"
  <2>1. PICK C, D \in SUBSET Block : Safe(C, D)
    BY DEF Inv
  <2>2. fl.n = 0 /\ fl \in Seg /\ disk \in Disks
    BY <1>4, Facts DEF Control
  <2>3. Linked(disk, fl, {}) /\ ListedUnder(disk, fl, {}) = {}
    BY <2>2, NothingLinked
  <2>4. /\ InCore' = fl /\ AllRefs' = AllRefs /\ blk' = 0 /\ pc' = "collect"
        /\ UNCHANGED <<fl_dirty, sb, disk, ip, bl>>
    BY <1>1 DEF WriteFails, core, image, InCore, AllRefs
  <2>5. Safe({}, D)'
    BY <2>1, <2>3, <2>4 DEF Safe
  <2> QED
    BY <1>2, <2>5 DEF Inv
<1> QED
  BY <1>3, <1>4
=============================================================================
