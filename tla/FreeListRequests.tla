-------------------------- MODULE FreeListRequests --------------------------
(***************************************************************************)
(* The steps of writes, truncations, creations and destructions, of        *)
(* v7fs_bfree and of a crash preserve the inductive invariant.             *)
(***************************************************************************)
EXTENDS FreeListAlloc

LEMMA BeginWriteInv ==
  ASSUME Inv, NEW i \in Inode, NEW off \in 0..NADDR, NEW cnt \in 0..NADDR, BeginWrite(i, off, cnt)
  PROVE  Inv'
<1>1. /\ pc = "idle" /\ inode[i] \in Dinode /\ off + cnt <= NADDR
      /\ pc' = "bmap" /\ stage' = "write" /\ ino' = i /\ ip' = inode[i]
      /\ lbn' = off /\ left' = cnt /\ first' = inode[i].size
      /\ UNCHANGED <<fl, tfree, fl_dirty, sb, disk, inode, blk, bl, calm>>
  BY Facts DEF BeginWrite, core, image
<1>2. TypeOK'
  <2>1. CoreTypeOK' /\ ImageTypeOK'
    BY <1>1, Facts DEF CoreTypeOK, ImageTypeOK
  <2>2. ReqTypeOK'
    BY <1>1, Facts, FreeListAssumption DEF ReqTypeOK, PC, Stage, Dinode
  <2> QED
    BY <1>1, <2>1, <2>2, Facts DEF TypeOK
<1>3. blk = 0 /\ bl = {}
  BY <1>1, Facts DEF Control, Popping
<1>4. Control'
  BY <1>1, <1>3 DEF Control, Popping
<1>5. Owned'
  BY <1>1, <1>3, Facts DEF Owned, AllRefs, Disjoint
<1>6. \E C, D \in SUBSET Block : Safe(C, D)'
  <2>1. Refs(ip') \subseteq AllRefs
    BY <1>1 DEF AllRefs
  <2> QED
    BY <1>1, <1>3, <2>1, QuietSafe DEF image
<1> QED
  BY <1>2, <1>4, <1>5, <1>6 DEF Inv

LEMMA BmapHitInv == Inv /\ BmapHit => Inv'
<1> SUFFICES ASSUME Inv, BmapHit PROVE Inv'
  OBVIOUS
<1>1. /\ pc = "bmap" /\ left > 0 /\ ip.addr[lbn] # 0 /\ pc' = "data"
      /\ UNCHANGED <<fl, tfree, fl_dirty, sb, disk, inode, stage, ino, ip, lbn, left, first, blk, bl, calm>>
  BY DEF BmapHit, core, image
<1>2. TypeOK'
  <2>1. CoreTypeOK' /\ ImageTypeOK'
    BY <1>1, Facts DEF CoreTypeOK, ImageTypeOK
  <2>2. ReqTypeOK'
    BY <1>1, Facts DEF ReqTypeOK, PC
  <2> QED
    BY <1>1, <2>1, <2>2, Facts DEF TypeOK
<1>3. Control' /\ blk = 0
  BY <1>1, Facts DEF Control, Popping
<1>4. Owned'
  BY <1>1, Facts DEF Owned, AllRefs, Disjoint
<1>5. \E C, D \in SUBSET Block : Safe(C, D)'
  BY <1>1, <1>3, QuietSafe DEF image
<1> QED
  BY <1>2, <1>3, <1>4, <1>5 DEF Inv

LEMMA WriteDataInv == Inv /\ WriteData => Inv'
<1> SUFFICES ASSUME Inv, WriteData PROVE Inv'
  OBVIOUS
<1>1. PICK C, D \in SUBSET Block : Safe(C, D)
  BY DEF Inv
<1>2. PICK b \in Block : b = ip.addr[lbn] /\ b \in Refs(ip)
  <2>1. lbn \in Slot /\ ip.addr[lbn] # 0
    BY SMTT(30), Facts, FreeListAssumption DEF WriteData, Control, ReqTypeOK, Slot
  <2> QED
    BY <2>1, Facts DEF Refs, Dinode
<1>3. /\ pc = "data" /\ disk' = [disk EXCEPT ![b] = Data] /\ pc' = "bmap"
      /\ lbn' = lbn + 1 /\ left' = left - 1 /\ left > 0
      /\ UNCHANGED <<fl, tfree, fl_dirty, sb, inode, stage, ino, ip, first, blk, bl, calm>>
  BY <1>2, Facts DEF WriteData, core, Control
<1>4. TypeOK'
  <2>1. CoreTypeOK' /\ ImageTypeOK'
    BY <1>3, Facts DEF CoreTypeOK, ImageTypeOK
  <2>2. ReqTypeOK'
    BY <1>3, Facts, FreeListAssumption DEF ReqTypeOK, PC
  <2> QED
    BY <1>3, <2>1, <2>2, Facts DEF TypeOK
<1>5. Control'
  BY <1>3, Facts DEF Control, Popping
<1>6. Owned'
  BY <1>3, Facts DEF Owned, AllRefs, Disjoint
<1>7. Safe(C, D)'
  <2>1. /\ InCore = fl /\ InCore' = fl /\ AllRefs' = AllRefs
    BY <1>3 DEF InCore, AllRefs
  <2>2. /\ Linked(disk, fl, C) /\ Linked(disk, sb.seg, D)
        /\ b \notin D /\ b \notin ListedUnder(disk, fl, C)
    BY <1>1, <1>2, <2>1 DEF Safe
  <2>3. b \notin C
    BY <2>2, Facts, ChainIsListed
  <2>4. disk \in Disks /\ fl \in Seg /\ sb.seg \in Seg
    BY Facts
  <2>5. /\ Linked(disk', fl, C) /\ ListedUnder(disk', fl, C) = ListedUnder(disk, fl, C)
        /\ Linked(disk', sb.seg, D) /\ ListedUnder(disk', sb.seg, D) = ListedUnder(disk, sb.seg, D)
    BY <1>3, <2>2, <2>3, <2>4, DataSafe
  <2> QED
    BY <1>1, <1>3, <2>1, <2>5 DEF Safe
<1> QED
  BY <1>4, <1>5, <1>6, <1>7 DEF Inv

LEMMA WriteDataFailsInv == Inv /\ WriteDataFails => Inv'
<1> SUFFICES ASSUME Inv, WriteDataFails PROVE Inv'
  OBVIOUS
<1>1. /\ pc = "data" /\ WriteFails /\ UNCHANGED <<core, image>>
      /\ calm' = FALSE /\ bl = {} /\ ino \in Inode
  BY Facts DEF WriteDataFails, Control
<1>2. TypeOK' /\ Control' /\ Owned'
  BY <1>1, WriteFailsRest
<1> QED
  BY <1>1, <1>2, QuietSafe DEF WriteFails, core, Inv

LEMMA WriteEndsInv == Inv /\ WriteEnds => Inv'
<1> SUFFICES ASSUME Inv, WriteEnds PROVE Inv'
  OBVIOUS
<1>1. /\ pc = "bmap" /\ left = 0 /\ pc' = "winode" /\ lbn' = 0
      /\ ip' = [ip EXCEPT !.size = IF lbn > ip.size THEN lbn ELSE ip.size]
      /\ UNCHANGED <<fl, tfree, fl_dirty, sb, disk, inode, stage, ino, left, first, blk, bl, calm>>
  BY DEF WriteEnds, core, image
<1>2. ip' \in Dinode /\ ip'.addr = ip.addr
  BY <1>1, Facts DEF Dinode, ReqTypeOK
<1>3. Refs(ip') = Refs(ip)
  BY <1>2 DEF Refs
<1>4. TypeOK'
  <2>1. CoreTypeOK' /\ ImageTypeOK'
    BY <1>1, Facts DEF CoreTypeOK, ImageTypeOK
  <2>2. ReqTypeOK'
    BY <1>1, <1>2, Facts, FreeListAssumption DEF ReqTypeOK, PC
  <2> QED
    BY <1>1, <2>1, <2>2, Facts DEF TypeOK
<1>5. Control' /\ blk = 0
  BY <1>1, Facts DEF Control, Popping
<1>6. Owned'
  BY <1>1, <1>2, <1>3, Facts DEF Owned, AllRefs, Disjoint
<1>7. \E C, D \in SUBSET Block : Safe(C, D)'
  BY <1>1, <1>3, <1>5, QuietSafe DEF image
<1> QED
  BY <1>4, <1>5, <1>6, <1>7 DEF Inv
-----------------------------------------------------------------------------
LEMMA WriteInodeFlushInv == Inv /\ WriteInodeFlush => Inv'
<1> SUFFICES ASSUME Inv, WriteInodeFlush PROVE Inv'
  OBVIOUS
<1>1. /\ pc = "winode" /\ SuperWrite
      /\ UNCHANGED <<fl, tfree, disk, inode, pc, stage, ino, ip, lbn, left, first, blk, bl, calm>>
  BY DEF WriteInodeFlush, req
<1>2. TypeOK'
  <2>1. ReqTypeOK'
    BY <1>1, Facts DEF ReqTypeOK
  <2> QED
    BY <1>1, <2>1, FlushCore, Facts DEF TypeOK
<1>3. Control'
  BY <1>1, Facts DEF Control, Popping
<1>4. Owned'
  BY <1>1, Facts DEF Owned, AllRefs, Disjoint
<1>5. \E C, D \in SUBSET Block : Safe(C, D)'
  BY <1>1, FlushSafe
<1> QED
  BY <1>2, <1>3, <1>4, <1>5 DEF Inv

\* The inode ialloc cleared is filled in: it has no block.
LEMMA FillRest ==
  ASSUME Inv, Fill, stage = "clear", pc = "winode", Disjoint', calm' \in BOOLEAN,
         UNCHANGED <<fl, tfree, sb, disk>>, fl_dirty' = TRUE, ImageTypeOK'
  PROVE  /\ TypeOK' /\ Control' /\ Owned'
         /\ Refs(ip') = {} /\ bl' = {} /\ blk' = 0 /\ pc' = "winode"
<1>1. ip' \in Dinode /\ \A s \in Slot : ip'.addr[s] = 0
  <2>1. ip' = [live |-> TRUE, size |-> 0, addr |-> [s \in Slot |-> 0]]
    BY DEF Fill, Blank
  <2> QED
    BY <2>1, FreeListAssumption DEF Dinode
<1>2. /\ Refs(ip') = {} /\ blk' = 0 /\ bl' = {} /\ ino' \in Inode
      /\ pc' = "winode" /\ stage' = "store" /\ UNCHANGED <<ino, lbn, left, first, blk, bl>>
  BY <1>1, Facts DEF Fill, Refs, Control, Popping
<1>3. ReqTypeOK'
  BY <1>1, <1>2, Facts DEF ReqTypeOK, PC, Stage
<1>4. CoreTypeOK'
  BY Facts DEF CoreTypeOK
<1>5. Control'
  BY <1>2 DEF Control, Popping
<1>6. 0 \notin AllRefs'
  BY DEF AllRefs, Refs
<1>7. Owned'
  BY <1>1, <1>2, <1>6 DEF Owned
<1> QED
  BY <1>2, <1>3, <1>4, <1>5, <1>7 DEF TypeOK

LEMMA WriteInodeInv == Inv /\ WriteInode => Inv'
<1> SUFFICES ASSUME Inv, WriteInode PROVE Inv'
  OBVIOUS
<1>1. PICK C, D \in SUBSET Block : Safe(C, D)
  BY DEF Inv
<1>2. /\ pc = "winode" /\ ~fl_dirty /\ inode' = [inode EXCEPT ![ino] = ip] /\ InodeWritten
      /\ fl_dirty' = (stage = "clear") /\ ino \in Inode /\ blk = 0
      /\ UNCHANGED <<fl, tfree, sb, disk, calm>>
  BY Facts DEF WriteInode, Control, Popping
<1>3. /\ inode'[ino] = ip /\ \A i \in Inode \ {ino} : inode'[i] = inode[i]
      /\ inode' \in [Inode -> Dinode]
  BY <1>2, Facts DEF ImageTypeOK
<1>4. AllRefs' \subseteq AllRefs \cup Refs(ip) /\ 0 \notin AllRefs'
  BY <1>2, <1>3, Facts DEF AllRefs
<1>5. Disjoint'
  <2>1. ASSUME NEW i \in Inode, NEW j \in Inode, i # j
        PROVE  Refs(inode'[i]) \cap Refs(inode'[j]) = {}
    BY <1>3, <2>1, Facts DEF Owned, Disjoint
  <2>2. ASSUME NEW i \in Inode, NEW s \in Slot, NEW t \in Slot, s # t, inode'[i].addr[s] # 0
        PROVE  inode'[i].addr[s] # inode'[i].addr[t]
    BY SMTT(30), <1>3, <2>2, Facts DEF Owned, Disjoint
  <2> QED
    BY <2>1, <2>2 DEF Disjoint
<1>6. bl \cap AllRefs' = {}
  BY <1>3, Facts DEF Owned, AllRefs
<1>7. CoreTypeOK' /\ ImageTypeOK'
  BY <1>2, <1>3, Facts DEF CoreTypeOK, ImageTypeOK
<1>8. ASSUME Refs(ip') \subseteq Refs(ip), bl' \subseteq bl, blk' = 0, pc' # "reload", pc' # "zero"
      PROVE  Safe(C, D)'
  <2>1. InCore = fl /\ InCore' = fl
    BY <1>2, <1>8 DEF InCore
  <2>2. 0 \notin ListedUnder(disk, fl, C)
    BY DEF ListedUnder, Listed
  <2> QED
    BY <1>1, <1>2, <1>4, <1>8, <2>1, <2>2 DEF Safe
<1>9. CASE Idle
  <2>1. Owned' /\ Control' /\ ReqTypeOK'
    BY <1>5, <1>9, IdleOwned
  <2>2. Safe(C, D)'
    BY <1>8, <1>9, BlankFacts DEF Idle
  <2> QED
    BY <1>2, <1>7, <2>1, <2>2, Facts DEF Inv, TypeOK
<1>10. CASE stage = "clear" /\ Fill
  <2>1. fl_dirty' = TRUE /\ calm' \in BOOLEAN
    BY <1>2, <1>10, Facts DEF TypeOK
  <2>2. /\ TypeOK' /\ Control' /\ Owned'
        /\ Refs(ip') = {} /\ bl' = {} /\ blk' = 0 /\ pc' = "winode"
    BY <1>2, <1>5, <1>7, <1>10, <2>1, FillRest
  <2>3. Safe(C, D)'
    BY <1>8, <2>2
  <2> QED
    BY <2>2, <2>3 DEF Inv
<1>11. CASE ~Idle /\ ~(stage = "clear" /\ Fill)
  <2>1. /\ UNCHANGED <<ino, ip, lbn, left, first, blk, bl>>
        /\ \/ stage = "tail" /\ pc' = "collect" /\ stage' = "trunc"
           \/ stage \in {"rollback", "trunc", "destroy"} /\ pc' = "drain" /\ stage' = stage
    BY <1>2, <1>11 DEF InodeWritten
  <2>2. Owned'
    BY <1>2, <1>3, <1>4, <1>5, <1>6, <2>1, Facts DEF Owned
  <2>3. Control'
    BY <1>2, <2>1, Facts DEF Control, Popping
  <2>4. ReqTypeOK'
    BY <2>1, Facts DEF ReqTypeOK, PC, Stage
  <2>5. Safe(C, D)'
    BY <1>2, <1>8, <2>1
  <2> QED
    BY <1>2, <1>7, <2>2, <2>3, <2>4, <2>5, Facts DEF Inv, TypeOK
<1> QED
  BY <1>9, <1>10, <1>11

LEMMA WriteInodeFailsInv == Inv /\ WriteInodeFails => Inv'
<1> SUFFICES ASSUME Inv, WriteInodeFails PROVE Inv'
  OBVIOUS
<1>1. /\ pc = "winode" /\ UNCHANGED <<fl, tfree, image>> /\ calm' = FALSE /\ ino \in Inode
      /\ fl_dirty' = (fl_dirty \/ stage = "clear")
  BY Facts DEF WriteInodeFails, Control
<1>2. CASE stage = "write"
  <2>1. WriteFails /\ bl = {} /\ UNCHANGED <<core, image>>
    BY <1>1, <1>2, Facts DEF Control, WriteInodeFails, core, CoreTypeOK
  <2>2. TypeOK' /\ Control' /\ Owned'
    BY <1>1, <2>1, WriteFailsRest
  <2> QED
    BY <1>1, <2>1, <2>2, QuietSafe DEF WriteFails, core, Inv
<1>3. CASE stage = "clear"
  <2>1. Fill /\ fl_dirty' = TRUE /\ UNCHANGED <<fl, tfree, sb, disk, inode>>
    BY <1>1, <1>3 DEF WriteInodeFails, image
  <2>2. Disjoint' /\ ImageTypeOK'
    BY <2>1, Facts DEF Owned, Disjoint, ImageTypeOK
  <2>3. /\ TypeOK' /\ Control' /\ Owned'
        /\ Refs(ip') = {} /\ bl' = {} /\ blk' = 0 /\ pc' = "winode"
    BY <1>1, <1>3, <2>1, <2>2, FillRest
  <2> QED
    BY <1>1, <2>1, <2>3, QuietSafe DEF Inv
<1>4. CASE stage \notin {"write", "clear"}
  <2>1. Idle /\ UNCHANGED <<core, image>>
    BY <1>1, <1>4, Facts DEF WriteInodeFails, core, CoreTypeOK
  <2> QED
    BY <1>1, <2>1, QuietIdle
<1> QED
  BY <1>2, <1>3, <1>4
-----------------------------------------------------------------------------
LEMMA BeginTruncateInv ==
  ASSUME Inv, NEW i \in Inode, NEW k \in 0..NADDR, BeginTruncate(i, k)
  PROVE  Inv'
<1>1. /\ pc = "idle" /\ inode[i] \in Dinode /\ ino' = i /\ first' = k
      /\ pc' \in {"collect", "winode"} /\ (pc' = "collect" => stage' = "trunc")
      /\ stage' \in {"trunc", "tail", "store"}
      /\ UNCHANGED <<fl, tfree, fl_dirty, sb, disk, inode, lbn, left, blk, bl, calm>>
  BY Facts DEF BeginTruncate, core, image
<1>2. ip' \in Dinode /\ ip'.addr = inode[i].addr
  BY <1>1 DEF BeginTruncate, Dinode
<1>3. blk = 0 /\ bl = {} /\ Refs(ip') = Refs(inode[i])
  BY <1>1, <1>2, Facts DEF Control, Popping, Refs
<1>4. TypeOK'
  <2>1. CoreTypeOK' /\ ImageTypeOK'
    BY <1>1, Facts DEF CoreTypeOK, ImageTypeOK
  <2>2. ReqTypeOK'
    BY <1>1, <1>2, Facts DEF ReqTypeOK, PC, Stage
  <2> QED
    BY <1>1, <2>1, <2>2, Facts DEF TypeOK
<1>5. Control'
  BY <1>1, <1>3 DEF Control, Popping
<1>6. Owned'
  BY <1>1, <1>2, <1>3, Facts DEF Owned, AllRefs, Disjoint
<1>7. \E C, D \in SUBSET Block : Safe(C, D)'
  <2>1. Refs(ip') \subseteq AllRefs
    BY <1>3 DEF AllRefs
  <2> QED
    BY <1>1, <1>3, <2>1, QuietSafe DEF image
<1> QED
  BY <1>4, <1>5, <1>6, <1>7 DEF Inv

LEMMA BeginDestroyInv ==
  ASSUME Inv, NEW i \in Inode, BeginDestroy(i)
  PROVE  Inv'
<1>1. /\ pc = "idle" /\ inode[i] \in Dinode /\ ino' = i /\ first' = 0
      /\ pc' = "collect" /\ stage' = "destroy" /\ ip' = inode[i]
      /\ UNCHANGED <<fl, tfree, fl_dirty, sb, disk, inode, lbn, left, blk, bl, calm>>
  BY Facts DEF BeginDestroy, core, image
<1>2. blk = 0 /\ bl = {}
  BY <1>1, Facts DEF Control, Popping
<1>3. TypeOK'
  <2>1. CoreTypeOK' /\ ImageTypeOK'
    BY <1>1, Facts DEF CoreTypeOK, ImageTypeOK
  <2>2. ReqTypeOK'
    BY <1>1, Facts, FreeListAssumption DEF ReqTypeOK, PC, Stage
  <2> QED
    BY <1>1, <2>1, <2>2, Facts DEF TypeOK
<1>4. Control'
  BY <1>1, <1>2 DEF Control, Popping
<1>5. Owned'
  BY <1>1, <1>2, Facts DEF Owned, AllRefs, Disjoint
<1>6. \E C, D \in SUBSET Block : Safe(C, D)'
  <2>1. Refs(ip') \subseteq AllRefs
    BY <1>1 DEF AllRefs
  <2> QED
    BY <1>1, <1>2, <2>1, QuietSafe DEF image
<1> QED
  BY <1>3, <1>4, <1>5, <1>6 DEF Inv

LEMMA BeginCreateInv ==
  ASSUME Inv, NEW i \in Inode, BeginCreate(i)
  PROVE  Inv'
<1>1. /\ pc = "idle" /\ ino' = i /\ pc' = "winode" /\ stage' = "clear" /\ ip' = ip
      /\ UNCHANGED <<fl, tfree, fl_dirty, sb, disk, inode, lbn, left, first, blk, bl, calm>>
  BY Facts DEF BeginCreate, core, image, Control
<1>2. blk = 0 /\ bl = {} /\ Refs(ip) = {}
  BY <1>1, Facts, BlankFacts DEF Control, Popping
<1>3. TypeOK'
  <2>1. CoreTypeOK' /\ ImageTypeOK'
    BY <1>1, Facts DEF CoreTypeOK, ImageTypeOK
  <2>2. ReqTypeOK'
    BY <1>1, Facts DEF ReqTypeOK, PC, Stage
  <2> QED
    BY <1>1, <2>1, <2>2, Facts DEF TypeOK
<1>4. Control'
  BY <1>1, <1>2 DEF Control, Popping
<1>5. Owned'
  BY <1>1, <1>2, Facts DEF Owned, AllRefs, Disjoint
<1>6. \E C, D \in SUBSET Block : Safe(C, D)'
  BY <1>1, <1>2, QuietSafe DEF image
<1> QED
  BY <1>3, <1>4, <1>5, <1>6 DEF Inv

LEMMA CollectInv == Inv /\ Collect => Inv'
<1> SUFFICES ASSUME Inv, Collect PROVE Inv'
  OBVIOUS
<1>1. /\ pc = "collect" /\ pc' = "winode" /\ stage \in {"rollback", "trunc", "destroy"}
      /\ bl' = {ip.addr[s] : s \in first..(NADDR - 1)} \ {0}
      /\ ip' = [live |-> stage # "destroy",
                size |-> IF stage = "rollback" THEN ip.size ELSE first,
                addr |-> [s \in Slot |-> IF s < first THEN ip.addr[s] ELSE 0]]
      /\ UNCHANGED <<fl, tfree, fl_dirty, sb, disk, inode, stage, ino, lbn, left, first, blk, calm>>
      /\ blk = 0 /\ ino \in Inode /\ first \in 0..NADDR /\ bl = {}
  BY Facts DEF Collect, core, image, Control, Popping, ReqTypeOK
<1>2. ip' \in Dinode /\ \A s \in Slot : ip'.addr[s] = IF s < first THEN ip.addr[s] ELSE 0
  BY <1>1, Facts, FreeListAssumption DEF Dinode
<1>3. \A b \in bl' : b # 0 /\ \E s \in Slot : ip.addr[s] = b /\ ~(s < first)
  BY SMTT(30), <1>1, FreeListAssumption DEF Slot
<1>4. \A b \in Refs(ip') : b # 0 /\ \E s \in Slot : ip.addr[s] = b /\ s < first
  BY <1>2 DEF Refs
<1>5. bl' \subseteq Refs(ip) /\ Refs(ip') \subseteq Refs(ip)
  BY <1>3, <1>4 DEF Refs
<1>6. Refs(ip') \cap bl' = {}
  BY <1>3, <1>4, Facts DEF Owned
<1>7. TypeOK'
  <2>1. CoreTypeOK' /\ ImageTypeOK'
    BY <1>1, Facts DEF CoreTypeOK, ImageTypeOK
  <2>2. ReqTypeOK'
    BY <1>1, <1>2, <1>5, Facts DEF ReqTypeOK, PC
  <2> QED
    BY <1>1, <2>1, <2>2, Facts DEF TypeOK
<1>8. Control'
  BY <1>1, Facts DEF Control, Popping
<1>9. Owned'
  <2>1. Disjoint' /\ AllRefs' = AllRefs
    BY <1>1, Facts DEF Owned, AllRefs, Disjoint
  <2>2. \A s, t \in Slot : s # t /\ ip'.addr[s] # 0 => ip'.addr[s] # ip'.addr[t]
    BY <1>2, Facts DEF Owned
  <2>3. \A i \in Inode \ {ino} : Refs(inode[i]) \cap Refs(ip') = {} /\ Refs(inode[i]) \cap bl' = {}
    BY <1>5, Facts DEF Owned
  <2>4. 0 \notin AllRefs \cup Refs(ip') \cup bl'
    BY <1>5, Facts
  <2> QED
    BY <1>1, <1>6, <2>1, <2>2, <2>3, <2>4 DEF Owned
<1>10. \E C, D \in SUBSET Block : Safe(C, D)'
  BY <1>1, <1>5, QuietSafe DEF image
<1> QED
  BY <1>7, <1>8, <1>9, <1>10 DEF Inv

LEMMA CollectFailsInv == Inv /\ CollectFails => Inv'
  BY QuietIdle DEF CollectFails

LEMMA DrainEndsInv == Inv /\ DrainEnds => Inv'
  BY QuietIdle, Facts DEF DrainEnds, TypeOK

\* v7fs_bfree of a block that is used by nobody any more.
LEMMA DrainInv ==
  ASSUME Inv, NEW b \in Block, Drain(b)
  PROVE  Inv'
<1>1. PICK C, D \in SUBSET Block : Safe(C, D)
  BY DEF Inv
<1>2. /\ pc = "drain" /\ b \in bl /\ Bfree(b) /\ bl' = bl \ {b} /\ blk = 0 /\ ino \in Inode
      /\ UNCHANGED <<fl_dirty, sb, inode, pc, stage, ino, ip, lbn, left, first, blk>>
  BY Facts DEF Drain, Control, Popping
<1>3. /\ b \notin ListedUnder(disk, fl, C) /\ b \notin D /\ InCore = fl /\ InCore' = fl'
      /\ Linked(disk, fl, C) /\ Linked(disk, sb.seg, D) /\ AllRefs' = AllRefs
      /\ b \notin AllRefs /\ b \notin Refs(ip)
  BY SMTT(30), <1>1, <1>2, Facts DEF Safe, InCore, AllRefs, Owned
<1>4. disk \in Disks /\ fl \in Seg /\ sb.seg \in Seg
  BY Facts
<1>5. /\ Based \in Seg /\ Based.n >= 1
      /\ Linked(disk, Based, C) /\ ListedUnder(disk, Based, C) = ListedUnder(disk, fl, C)
  BY <1>3, <1>4, BaseSame DEF Based
<1>6. D \subseteq ListedUnder(disk, sb.seg, D) /\ 0 \notin ListedUnder(disk, fl, C)
  BY SMTT(30), <1>3, <1>4, ChainIsListed DEF ListedUnder, Listed
<1>7. /\ fl' \in Seg /\ disk' \in Disks
      /\ \E B \in SUBSET Block :
            /\ C \subseteq B /\ Linked(disk', fl', B)
            /\ ListedUnder(disk', fl', B) \in {ListedUnder(disk, fl, C), ListedUnder(disk, fl, C) \cup {b}}
      /\ Linked(disk', sb.seg, D) /\ ListedUnder(disk', sb.seg, D) = ListedUnder(disk, sb.seg, D)
  <2>1. CASE BfreePush(b)
    BY SMTT(30), <1>3, <1>4, <1>5, <2>1, Push DEF BfreePush
  <2>2. CASE BfreeDump(b)
    <3>0. /\ disk' = [disk EXCEPT ![b] = Based]
          /\ fl' = [n |-> 1, a |-> [NoSeg.a EXCEPT ![0] = b]]
      BY <2>2 DEF BfreeDump
    <3>1. /\ fl' \in Seg /\ fl'.n = 1 /\ fl'.a[0] = b
      BY <3>0, FreeListAssumption DEF Seg, NoSeg, Cell
    <3>a. /\ disk' \in Disks /\ disk'[b] = Based /\ \A c \in Block \ {b} : disk'[c] = disk[c]
      BY <1>4, <1>5, <3>0 DEF Disks
    <3>2. PICK B \in SUBSET Block : B = C \cup {b}
      OBVIOUS
    <3>b. PICK d \in Disks, e \in Disks, s \in Seg, t \in Seg :
            d = disk /\ e = disk' /\ s = Based /\ t = fl'
      BY <1>4, <1>5, <3>1, <3>a
    <3>c. /\ e[b] = s /\ \A c \in Block \ {b} : e[c] = d[c]
      BY <3>a, <3>b
    <3>d. /\ t.n = 1 /\ t.a[0] = b
      BY <3>1, <3>b
    <3>e. /\ Linked(d, s, C) /\ b \notin ListedUnder(d, s, C)
          /\ ListedUnder(d, s, C) = ListedUnder(disk, fl, C)
      BY <1>3, <1>5, <3>b
    <3>f. /\ Linked(e, t, C \cup {b})
          /\ ListedUnder(e, t, C \cup {b}) = ListedUnder(d, s, C) \cup {b}
      BY SMTT(30), <3>c, <3>d, <3>e, Dump
    <3>3. /\ fl' \in Seg /\ disk' \in Disks /\ Linked(disk', fl', B)
          /\ ListedUnder(disk', fl', B) = ListedUnder(disk, fl, C) \cup {b}
      BY <3>1, <3>a, <3>2, <3>b, <3>e, <3>f
    <3>4. \A c \in D : disk'[c] = disk[c]
      BY <1>3, <3>a
    <3>5. Linked(disk', sb.seg, D) /\ ListedUnder(disk', sb.seg, D) = ListedUnder(disk, sb.seg, D)
      BY <1>3, <1>4, <3>3, <3>4, Frame
    <3> QED
      BY <3>2, <3>3, <3>5
  <2>3. CASE BfreeLeak(b)
    <3>1. fl' = Based /\ disk' = disk
      BY <2>3 DEF BfreeLeak
    <3> QED
      BY <1>3, <1>4, <1>5, <3>1
  <2> QED
    BY <1>2, <2>1, <2>2, <2>3 DEF Bfree
<1>8. TypeOK'
  <2>0. tfree' \in Nat
    BY SMTT(30), <1>2, Facts DEF Bfree, BfreePush, BfreeDump, BfreeLeak
  <2>1. calm' \in BOOLEAN
    BY <1>2, Facts, Zenon DEF Bfree, BfreePush, BfreeDump, BfreeLeak, TypeOK
  <2>2. CoreTypeOK' /\ ImageTypeOK'
    BY <1>2, <1>7, <2>0, Facts DEF CoreTypeOK, ImageTypeOK, Disks
  <2>3. ReqTypeOK'
    BY <1>2, Facts DEF ReqTypeOK
  <2> QED
    BY <2>1, <2>2, <2>3 DEF TypeOK
<1>9. Control'
  BY <1>2, Facts DEF Control, Popping
<1>10. Owned'
  BY <1>2, <1>3, Facts DEF Owned, Disjoint
<1>11. PICK B \in SUBSET Block :
         /\ C \subseteq B /\ Linked(disk', fl', B)
         /\ ListedUnder(disk', fl', B) \in {ListedUnder(disk, fl, C), ListedUnder(disk, fl, C) \cup {b}}
  BY <1>7
<1>12. Safe(B, D)'
  <2>1. /\ Linked(disk', InCore', B) /\ Linked(disk', sb'.seg, D)
        /\ ListedUnder(disk', sb'.seg, D) = ListedUnder(disk, sb.seg, D)
        /\ ListedUnder(disk', InCore', B) \subseteq ListedUnder(disk, fl, C) \cup {b}
    BY <1>2, <1>3, <1>7, <1>11
  <2>2. b \notin D /\ b # 0
    BY <1>3, FreeListAssumption
  <2> QED
    BY SMTT(30), <1>1, <1>2, <1>3, <1>6, <1>11, <2>1, <2>2 DEF Safe
<1> QED
  BY <1>8, <1>9, <1>10, <1>12 DEF Inv

LEMMA SyncInv == Inv /\ Sync => Inv'
<1> SUFFICES ASSUME Inv, Sync PROVE Inv'
  OBVIOUS
<1>1. /\ pc = "idle" /\ SuperWrite
      /\ UNCHANGED <<fl, tfree, disk, inode, pc, stage, ino, ip, lbn, left, first, blk, bl, calm>>
  BY DEF Sync, req
<1>2. TypeOK'
  <2>1. ReqTypeOK'
    BY <1>1, Facts DEF ReqTypeOK
  <2> QED
    BY <1>1, <2>1, FlushCore, Facts DEF TypeOK
<1>3. Control' /\ Owned'
  BY <1>1, Facts DEF Control, Popping, Owned, AllRefs, Disjoint
<1>4. \E C, D \in SUBSET Block : Safe(C, D)'
  BY <1>1, FlushSafe
<1> QED
  BY <1>2, <1>3, <1>4 DEF Inv

\* After a crash the list on disk is the only one.
LEMMA CrashInv == Inv /\ Crash => Inv'
<1> SUFFICES ASSUME Inv, Crash PROVE Inv'
  OBVIOUS
<1>1. PICK C, D \in SUBSET Block : Safe(C, D)
  BY DEF Inv
<1>2. /\ fl' = sb.seg /\ tfree' = sb.tfree /\ fl_dirty' = FALSE /\ Idle /\ calm' = FALSE
      /\ UNCHANGED <<sb, disk, inode>>
  BY DEF Crash, image
<1>3. CoreTypeOK' /\ ImageTypeOK' /\ Disjoint' /\ AllRefs' = AllRefs
  <2>1. CoreTypeOK'
    BY <1>2, Facts DEF CoreTypeOK
  <2>2. ImageTypeOK' /\ AllRefs' = AllRefs
    BY <1>2, Facts DEF ImageTypeOK, AllRefs
  <2>3. Disjoint'
    BY <1>2, Facts DEF Owned, Disjoint
  <2> QED
    BY <2>1, <2>2, <2>3
<1>4. Owned' /\ Control' /\ ReqTypeOK'
  BY <1>2, <1>3, IdleOwned
<1>5. Safe(D, D)'
  <2>1. Refs(ip') = {} /\ bl' = {} /\ blk' = 0 /\ pc' = "idle" /\ InCore' = sb.seg
    BY <1>2, BlankFacts DEF Idle, InCore
  <2>2. 0 \notin ListedUnder(disk, sb.seg, D)
    BY DEF ListedUnder, Listed
  <2> QED
    BY <1>1, <1>2, <1>3, <2>1, <2>2 DEF Safe
<1> QED
  BY <1>2, <1>3, <1>4, <1>5 DEF Inv, TypeOK
=============================================================================
