------------------------------ MODULE FreeList ------------------------------
(***************************************************************************)
(* The V7 free-list block allocator (alloc_freelist.c) together with the   *)
(* operations that drive it: filsys_write_ino, truncate_inode,             *)
(* inode_destroy and inode_create (filsys.c), the inode and superblock     *)
(* writers (v7fs.c) and the collect / persist / drain discipline of        *)
(* blocktree.c.  Files have direct slots only; BlockTree adds indirection. *)
(*                                                                         *)
(* Each disk transfer is one step, so every state of the model is a        *)
(* crash prefix: `sb', `disk' and `inode' are what a crash would leave.    *)
(* A transfer that fails leaves its block as it was.                       *)
(***************************************************************************)
EXTENDS Integers, FiniteSets

CONSTANTS Block,     \* the data blocks, v7_data_first(fs) .. fsize - 1
          Inode,     \* the inodes of the i-list
          NICFREE,   \* desc.nicfree, the depth of the free[] cache
          NADDR,     \* desc.ndaddr, the direct slots of an inode
          Data       \* the content of a block that is not a free-list dump

ASSUME FreeListAssumption ==
  /\ NICFREE \in Nat \ {0}
  /\ NADDR \in Nat
  /\ 0 \notin Block /\ 0 \notin Inode

Cell == 0..(NICFREE - 1)
Slot == 0..(NADDR - 1)

\* A free[] cache or its dump: n is nfree, cells at n and above are dead (0).
Seg == [n : 0..NICFREE, a : [Cell -> Block \cup {0}]]
NoSeg == [n |-> 0, a |-> [k \in Cell |-> 0]]

ASSUME DataAssumption == Data \notin Seg

Dinode == [live : BOOLEAN, size : 0..NADDR, addr : [Slot -> Block \cup {0}]]
Blank == [live |-> FALSE, size |-> 0, addr |-> [s \in Slot |-> 0]]

VARIABLES
  fl,        \* fs->fl.nfree and fs->fl.free[]
  tfree,     \* fs->fl.tfree
  fl_dirty,  \* fs->fl_dirty: a block left the list since the last flush
  sb,        \* the superblock on disk: its cache and s_tfree
  disk,      \* the data blocks on disk
  inode,     \* the i-list on disk
  pc, stage, \* where the running request is, and which part of it
  ino, ip,   \* its inode: the number and the decoded in-core copy
  lbn, left, \* the next logical block of a write, and how many are left
  first,     \* the first logical block a truncation or rollback drops
  blk,       \* the block balloc has popped and not yet handed out
  bl,        \* the filsys_blklist: blocks collected, not yet freed
  calm       \* no transfer has failed, no memory run out, no crash so far

core  == <<fl, tfree, fl_dirty>>
image == <<sb, disk, inode>>
req   == <<pc, stage, ino, ip, lbn, left, first, blk, bl>>
vars  == <<fl, tfree, fl_dirty, sb, disk, inode,
           pc, stage, ino, ip, lbn, left, first, blk, bl, calm>>

Stage == {"none", "write", "rollback", "tail", "trunc", "destroy", "clear", "store"}
PC == {"idle", "bmap", "reload", "commit", "zero", "data",
       "collect", "winode", "drain"}

CoreTypeOK == fl \in Seg /\ tfree \in Nat /\ fl_dirty \in BOOLEAN

ImageTypeOK ==
  /\ sb \in [seg : Seg, tfree : Nat]
  /\ disk \in [Block -> Seg \cup {Data}]
  /\ inode \in [Inode -> Dinode]

ReqTypeOK ==
  /\ pc \in PC /\ stage \in Stage
  /\ ino \in Inode \cup {0} /\ ip \in Dinode
  /\ lbn \in 0..NADDR /\ left \in 0..NADDR /\ lbn + left <= NADDR
  /\ first \in 0..NADDR
  /\ blk \in Block \cup {0} /\ bl \in SUBSET Block

\* The variables range over what the C types and the cache depth allow: in
\* particular nfree never passes NICFREE, the end of free[].
TypeOK == CoreTypeOK /\ ImageTypeOK /\ ReqTypeOK /\ calm \in BOOLEAN
-----------------------------------------------------------------------------
(* What a cache, and the chain of dump blocks below it, lists as free.     *)

Listed(s) == {s.a[k] : k \in 0..(s.n - 1)} \ {0}
Bottom(s) == IF s.n = 0 THEN 0 ELSE s.a[0]

\* On blocks d, C holds every dump block a walk of the chain from cache s
\* goes through.
ChainClosed(d, s, C) ==
  /\ Bottom(s) \in C \cup {0}
  /\ \A c \in C : d[c] # Data => Bottom(d[c]) \in C \cup {0}

Chain(d, s) ==
  {c \in Block : \A C \in SUBSET Block : ChainClosed(d, s, C) => c \in C}

\* v7_walk_free, v7_count_free: what alloc() would come to hand out.
FreeSet(d, s) ==
  Listed(s) \cup UNION {Listed(d[c]) : c \in {e \in Chain(d, s) : d[e] # Data}}

Refs(i) == {i.addr[s] : s \in Slot} \ {0}
AllRefs == UNION {Refs(inode[i]) : i \in Inode}

\* A well-formed list: C is its chain, no block is listed twice.
Proper(s) ==
  /\ \A k \in 1..(s.n - 1) : s.a[k] # 0
  /\ \A j, k \in 0..(s.n - 1) : j # k => s.a[j] # s.a[k]

Linked(d, s, C) ==
  /\ Proper(s) /\ Bottom(s) \in C \cup {0}
  /\ \A c \in C : d[c] \in Seg
  /\ \A c \in C : /\ Proper(d[c])
                  /\ Bottom(d[c]) \in C \cup {0}
                  /\ Listed(s) \cap Listed(d[c]) = {}
                  /\ Bottom(s) = c \/ \E e \in C : Bottom(d[e]) = c
  /\ \A c, e \in C : c # e => Listed(d[c]) \cap Listed(d[e]) = {}

ListedUnder(d, s, C) == Listed(s) \cup UNION {Listed(d[c]) : c \in C}

\* No two slots of the i-list name the same block.
Disjoint ==
  /\ \A i \in Inode : \A s, t \in Slot :
        s # t /\ inode[i].addr[s] # 0 => inode[i].addr[s] # inode[i].addr[t]
  /\ \A i, j \in Inode : i # j => Refs(inode[i]) \cap Refs(inode[j]) = {}
-----------------------------------------------------------------------------
(* A mounted image that a full check passes, and no request running.       *)

Idle == /\ pc' = "idle" /\ stage' = "none" /\ ino' = 0 /\ ip' = Blank
        /\ lbn' = 0 /\ left' = 0 /\ first' = 0 /\ blk' = 0 /\ bl' = {}

Init ==
  /\ sb \in [seg : Seg, tfree : Nat]
  /\ disk \in [Block -> Seg \cup {Data}]
  /\ inode \in [Inode -> Dinode]
  /\ \E C \in SUBSET Block :
        Linked(disk, sb.seg, C) /\ ListedUnder(disk, sb.seg, C) \cap AllRefs = {}
  /\ Disjoint
  /\ \A i \in Inode : ~inode[i].live => inode[i] = Blank
  /\ fl = sb.seg /\ tfree = sb.tfree /\ fl_dirty = FALSE
  /\ pc = "idle" /\ stage = "none" /\ ino = 0 /\ ip = Blank
  /\ lbn = 0 /\ left = 0 /\ first = 0 /\ blk = 0 /\ bl = {}
  /\ calm = TRUE
-----------------------------------------------------------------------------
(* Superblock and block allocator.                                         *)

\* v7fs_super_write: the caches and totals go to disk, the list is clean.
SuperWrite == sb' = [seg |-> fl, tfree |-> tfree] /\ fl_dirty' = FALSE

\* A failed step of filsys_file_write: filsys_write_ino rolls the write back.
WriteFails ==
  /\ pc' = "collect" /\ stage' = "rollback" /\ lbn' = 0 /\ left' = 0 /\ blk' = 0
  /\ UNCHANGED <<ino, ip, first, bl>>

\* The slot is a hole and the write needs a block.
NeedsBlock == pc = "bmap" /\ left > 0 /\ ip.addr[lbn] = 0

Top == IF fl.n = 0 THEN 0 ELSE fl.a[fl.n - 1]
Popped == IF fl.n = 0 THEN fl ELSE [n |-> fl.n - 1, a |-> [fl.a EXCEPT ![fl.n - 1] = 0]]

\* Nothing cached, or the sentinel popped: -ENOSPC.
BallocNoSpace ==
  /\ NeedsBlock /\ Top = 0
  /\ fl' = Popped
  /\ WriteFails
  /\ UNCHANGED <<tfree, fl_dirty, image, calm>>

\* free[--nfree]; the bottom of the stack is a dump block to reload from.
BallocPop ==
  /\ NeedsBlock /\ Top # 0
  /\ fl' = Popped /\ blk' = Top
  /\ pc' = IF fl.n = 1 THEN "reload" ELSE "zero"
  /\ UNCHANGED <<tfree, fl_dirty, image, stage, ino, ip, lbn, left, first, bl, calm>>

\* The bytes of a dump block give back the dumped cache; any other block's
\* bytes could decode as anything.
Decoded(c) == IF c = Data THEN Seg ELSE {c}

\* (mutant) go on without committing the reloaded cache
BallocReload_NoCommit ==
  /\ pc = "reload"
  /\ fl' \in Decoded(disk[blk])
  /\ pc' = "zero"
  /\ UNCHANGED <<tfree, fl_dirty, image, stage, ino, ip, lbn, left, first, blk, bl, calm>>

BallocReload ==
  /\ pc = "reload"
  /\ fl' \in Decoded(disk[blk])
  /\ pc' = "commit"
  /\ UNCHANGED <<tfree, fl_dirty, image, stage, ino, ip, lbn, left, first, blk, bl, calm>>

\* Commit the allocator state before blk is overwritten.
BallocCommit ==
  /\ pc = "commit"
  /\ SuperWrite
  /\ pc' = "zero"
  /\ UNCHANGED <<fl, tfree, disk, inode, stage, ino, ip, lbn, left, first, blk, bl, calm>>

\* Zero the block, count it, hand it to the slot that asked.
BallocZero ==
  /\ pc = "zero"
  /\ disk' = [disk EXCEPT ![blk] = Data]
  /\ tfree' = IF tfree = 0 THEN 0 ELSE tfree - 1
  /\ fl_dirty' = TRUE
  /\ ip' = [ip EXCEPT !.addr[lbn] = blk] /\ blk' = 0
  /\ pc' = "data"
  /\ UNCHANGED <<fl, sb, inode, stage, ino, lbn, left, first, bl, calm>>

\* The dump block cannot be read, the superblock or the zeroes not written.
BallocFails ==
  /\ pc \in {"reload", "commit", "zero"}
  /\ WriteFails
  /\ calm' = FALSE
  /\ UNCHANGED <<core, image>>

\* v7fs_bfree: push b; a full cache is first dumped into b itself.
Based == IF fl.n = 0 THEN [n |-> 1, a |-> NoSeg.a] ELSE fl

BfreePush(b) ==
  /\ Based.n < NICFREE
  /\ fl' = [n |-> Based.n + 1, a |-> [Based.a EXCEPT ![Based.n] = b]]
  /\ tfree' = tfree + 1
  /\ UNCHANGED <<disk, calm>>

\* (mutant) the block is not counted
BfreeDump_NoCount(b) ==
  /\ Based.n >= NICFREE
  /\ disk' = [disk EXCEPT ![b] = Based]
  /\ fl' = [n |-> 1, a |-> [NoSeg.a EXCEPT ![0] = b]]
  /\ UNCHANGED <<tfree, calm>>

BfreeDump(b) ==
  /\ Based.n >= NICFREE
  /\ disk' = [disk EXCEPT ![b] = Based]
  /\ fl' = [n |-> 1, a |-> [NoSeg.a EXCEPT ![0] = b]]
  /\ tfree' = tfree + 1
  /\ UNCHANGED calm

\* The dump could not be written: b leaks, the cache keeps its blocks.
BfreeLeak(b) ==
  /\ Based.n >= NICFREE
  /\ fl' = Based
  /\ calm' = FALSE
  /\ UNCHANGED <<tfree, disk>>

Bfree(b) == BfreePush(b) \/ BfreeDump(b) \/ BfreeLeak(b)
-----------------------------------------------------------------------------
(* filsys_write_ino / filsys_file_write.                                   *)

\* read_inode, the maxfile test, and into filsys_file_write's loop.
BeginWrite(i, off, cnt) ==
  /\ pc = "idle" /\ inode[i].live
  /\ off + cnt <= NADDR
  /\ pc' = "bmap" /\ stage' = "write"
  /\ ino' = i /\ ip' = inode[i]
  /\ lbn' = off /\ left' = cnt /\ first' = inode[i].size
  /\ UNCHANGED <<core, image, blk, bl, calm>>

\* filsys_bmap on a slot that already has its block.
BmapHit ==
  /\ pc = "bmap" /\ left > 0 /\ ip.addr[lbn] # 0
  /\ pc' = "data"
  /\ UNCHANGED <<core, image, stage, ino, ip, lbn, left, first, blk, bl, calm>>

\* (mutant) the loop does not advance
WriteData_Stuck ==
  /\ pc = "data"
  /\ disk' = [disk EXCEPT ![ip.addr[lbn]] = Data]
  /\ pc' = "bmap"
  /\ UNCHANGED <<core, sb, inode, stage, ino, ip, lbn, left, first, blk, bl, calm>>

\* blk_get, memcpy, blk_put.
WriteData ==
  /\ pc = "data"
  /\ disk' = [disk EXCEPT ![ip.addr[lbn]] = Data]
  /\ lbn' = lbn + 1 /\ left' = left - 1
  /\ pc' = "bmap"
  /\ UNCHANGED <<core, sb, inode, stage, ino, ip, first, blk, bl, calm>>

WriteDataFails ==
  /\ pc = "data"
  /\ WriteFails
  /\ calm' = FALSE
  /\ UNCHANGED <<core, image>>

\* Every block is written: the size grows and the inode is to be written.
WriteEnds ==
  /\ pc = "bmap" /\ left = 0
  /\ ip' = [ip EXCEPT !.size = IF lbn > ip.size THEN lbn ELSE ip.size]
  /\ pc' = "winode" /\ lbn' = 0
  /\ UNCHANGED <<core, image, stage, ino, left, first, blk, bl, calm>>
-----------------------------------------------------------------------------
(* v7fs_write_inode: flush the allocator if it is dirty, then the inode.   *)

\* inode_create fills in the inode ialloc has cleared.
Fill ==
  /\ pc' = "winode" /\ stage' = "store" /\ ip' = [Blank EXCEPT !.live = TRUE]
  /\ UNCHANGED <<ino, lbn, left, first, blk, bl>>

\* What the caller does once the inode is on disk.
InodeWritten ==
  \/ stage \in {"write", "store"} /\ Idle
  \/ stage = "clear" /\ Fill
  \/ /\ stage = "tail"
     /\ pc' = "collect" /\ stage' = "trunc"
     /\ UNCHANGED <<ino, ip, lbn, left, first, blk, bl>>
  \/ /\ stage \in {"rollback", "trunc", "destroy"}
     /\ pc' = "drain"
     /\ UNCHANGED <<stage, ino, ip, lbn, left, first, blk, bl>>

\* (mutant) the inode goes out without the flush
WriteInodeFlush_Skip ==
  /\ pc = "winode" /\ fl_dirty
  /\ fl_dirty' = FALSE
  /\ UNCHANGED <<fl, tfree, sb, disk, inode, req, calm>>

WriteInodeFlush ==
  /\ pc = "winode" /\ fl_dirty
  /\ SuperWrite
  /\ UNCHANGED <<fl, tfree, disk, inode, req, calm>>

\* ialloc marks the allocator dirty after its own write of the inode.
WriteInode ==
  /\ pc = "winode" /\ ~fl_dirty
  /\ inode' = [inode EXCEPT ![ino] = ip]
  /\ fl_dirty' = (stage = "clear")
  /\ InodeWritten
  /\ UNCHANGED <<fl, tfree, sb, disk, calm>>

\* (mutant) the collected blocks are freed although the inode was not written
WriteInodeFails_Drain ==
  /\ pc = "winode" /\ stage \in {"trunc", "destroy"}
  /\ pc' = "drain" /\ calm' = FALSE
  /\ UNCHANGED <<core, image, stage, ino, ip, lbn, left, first, blk, bl>>

\* The flush or the inode write fails: a write is rolled back, ialloc takes no
\* notice, anything else discards the list it collected and returns the error.
WriteInodeFails ==
  /\ pc = "winode"
  /\ CASE stage = "write" -> WriteFails
       [] stage = "clear" -> Fill
       [] OTHER -> Idle
  /\ fl_dirty' = (fl_dirty \/ stage = "clear")
  /\ calm' = FALSE
  /\ UNCHANGED <<fl, tfree, image>>
-----------------------------------------------------------------------------
(* Truncate, destroy, create: the other clients of the collect / drain.    *)

\* truncate_inode to a size of k blocks.  A shrink that ends inside a block
\* the file has first writes zeroes to the rest of that block, which rewrites
\* the inode too; the zeroes are file data over file data.
BeginTruncate(i, k) ==
  /\ pc = "idle" /\ inode[i].live
  /\ \/ /\ k < inode[i].size \/ (k \in 1..inode[i].size /\ inode[i].addr[k - 1] = 0)
        /\ pc' = "collect" /\ stage' = "trunc" /\ ip' = inode[i]
     \/ /\ k \in 1..inode[i].size /\ inode[i].addr[k - 1] # 0
        /\ pc' = "winode" /\ stage' = "tail" /\ ip' = inode[i]
     \/ /\ k >= inode[i].size
        /\ pc' = "winode" /\ stage' = "store" /\ ip' = [inode[i] EXCEPT !.size = k]
  /\ ino' = i /\ first' = k
  /\ UNCHANGED <<core, image, lbn, left, blk, bl, calm>>

\* inode_destroy, for the last name or the last close of i.
BeginDestroy(i) ==
  /\ pc = "idle" /\ inode[i].live
  /\ pc' = "collect" /\ stage' = "destroy"
  /\ ino' = i /\ ip' = inode[i] /\ first' = 0
  /\ UNCHANGED <<core, image, lbn, left, blk, bl, calm>>

\* inode_create: ialloc clears a free inode on disk, then it is filled in.
BeginCreate(i) ==
  /\ pc = "idle" /\ ~inode[i].live
  /\ pc' = "winode" /\ stage' = "clear"
  /\ ino' = i /\ ip' = Blank
  /\ UNCHANGED <<core, image, lbn, left, first, blk, bl, calm>>

\* (mutant) the first block past the new end is forgotten
Collect_OffByOne ==
  /\ pc = "collect"
  /\ bl' = {ip.addr[s] : s \in (first + 1)..(NADDR - 1)} \ {0}
  /\ ip' = [live |-> stage # "destroy",
            size |-> IF stage = "rollback" THEN ip.size ELSE first,
            addr |-> [s \in Slot |-> IF s < first THEN ip.addr[s] ELSE 0]]
  /\ pc' = "winode"
  /\ UNCHANGED <<core, image, stage, ino, lbn, left, first, blk, calm>>

\* filsys_itrunc_from: collect the blocks from `first' on, in core only.
Collect ==
  /\ pc = "collect"
  /\ bl' = {ip.addr[s] : s \in first..(NADDR - 1)} \ {0}
  /\ ip' = [live |-> stage # "destroy",
            size |-> IF stage = "rollback" THEN ip.size ELSE first,
            addr |-> [s \in Slot |-> IF s < first THEN ip.addr[s] ELSE 0]]
  /\ pc' = "winode"
  /\ UNCHANGED <<core, image, stage, ino, lbn, left, first, blk, calm>>

CollectFails ==
  /\ pc = "collect"
  /\ Idle
  /\ calm' = FALSE
  /\ UNCHANGED <<core, image>>

\* filsys_blklist_drain, one block of the list.
Drain(b) ==
  /\ pc = "drain" /\ b \in bl
  /\ Bfree(b)
  /\ bl' = bl \ {b}
  /\ UNCHANGED <<fl_dirty, sb, inode, pc, stage, ino, ip, lbn, left, first, blk>>

DrainEnds ==
  /\ pc = "drain" /\ bl = {}
  /\ Idle
  /\ UNCHANGED <<core, image, calm>>
-----------------------------------------------------------------------------
\* filsys_sync between requests, and the flush of a clean unmount.
Sync ==
  /\ pc = "idle"
  /\ SuperWrite
  /\ UNCHANGED <<fl, tfree, disk, inode, req, calm>>

\* The driver dies at any point; v7fs_open reads the superblock again.
Crash ==
  /\ fl' = sb.seg /\ tfree' = sb.tfree /\ fl_dirty' = FALSE
  /\ Idle
  /\ calm' = FALSE
  /\ UNCHANGED image

\* The steps of the request in progress.
Step ==
  \/ BallocNoSpace \/ BallocPop \/ BallocReload \/ BallocCommit \/ BallocZero
  \/ BallocFails \/ BmapHit \/ WriteData \/ WriteDataFails \/ WriteEnds
  \/ WriteInodeFlush \/ WriteInode \/ WriteInodeFails
  \/ Collect \/ CollectFails \/ DrainEnds
  \/ \E b \in Block : Drain(b)

Begin ==
  \E i \in Inode :
    \/ \E off, cnt \in 0..NADDR : BeginWrite(i, off, cnt)
    \/ \E k \in 0..NADDR : BeginTruncate(i, k)
    \/ BeginDestroy(i)
    \/ BeginCreate(i)

Next == Step \/ Begin \/ Sync \/ Crash

Spec == Init /\ [][Next]_vars
FairSpec == Spec /\ WF_vars(Step)
-----------------------------------------------------------------------------
(* Properties.                                                             *)

\* The integrity contract, "dup == 0": at no crash prefix is a block both on
\* the free list the superblock on disk heads and named by an inode on disk.
NoAlias == FreeSet(disk, sb.seg) \cap AllRefs = {}

\* The running driver never holds as free a block that an inode, the request in
\* progress or its collected list still uses, nor gives one block to two slots.
NoDoubleUse ==
  /\ FreeSet(disk, fl) \cap (AllRefs \cup Refs(ip) \cup bl) = {}
  /\ blk \notin FreeSet(disk, fl) \cup AllRefs \cup Refs(ip) \cup bl
  /\ Disjoint

\* The list the superblock on disk heads is always one a walk accepts: every
\* chain block still holds its dump, no block is listed twice, no cycle
\* (v7_walk_free's errors).
ListSound == Linked(disk, sb.seg, Chain(disk, sb.seg))

\* balloc reloads its cache only from a block that holds a dump of one, never
\* from file data or a zeroed block.
ReloadsDump == pc = "reload" => disk[blk] \in Seg

\* While no transfer fails and nothing crashes, requests leak nothing, a write
\* that runs out of space included: between requests every block is free or
\* in a file, and s_tfree counts the free ones.
NothingLost ==
  pc = "idle" /\ calm =>
    /\ FreeSet(disk, fl) \cup AllRefs = Block
    /\ tfree = Cardinality(FreeSet(disk, fl))

\* Whatever fails, the total statfs reports is never below the blocks the
\* list really holds (balloc's `if (tfree) tfree--' never has to clamp).
TfreeCovers == Cardinality(FreeSet(disk, fl)) <= tfree

\* No step overwrites a dump block the superblock on disk still leads to, nor
\* writes a dump into a block an inode on disk still names.
ChainIntact ==
  [][/\ \A c \in Chain(disk, sb.seg) : disk'[c] = disk[c]
     /\ \A b \in AllRefs : disk'[b] # disk[b] => disk'[b] = Data]_vars

\* Every request the driver starts comes to its end, whatever fails.
RequestsEnd == pc # "idle" ~> pc = "idle"

\* The inductive invariant.  C and D are the chains of the list in core and of
\* the list on disk.  While balloc has popped the last dump block and not yet
\* read it, the list in core is the one that block's dump heads.
InCore == IF pc = "reload" THEN disk[blk] ELSE fl
Popping == pc \in {"reload", "commit", "zero"}

Safe(C, D) ==
  LET mfree == ListedUnder(disk, InCore, C)
      sfree == ListedUnder(disk, sb.seg, D)
  IN /\ Linked(disk, InCore, C) /\ Linked(disk, sb.seg, D)
     /\ mfree \cap AllRefs = {} /\ mfree \cap Refs(ip) = {}
     /\ mfree \cap bl = {} /\ blk \notin mfree
     /\ sfree \cap AllRefs = {}
     /\ ~fl_dirty => sfree \cap Refs(ip) = {} /\ sfree \cap bl = {}
     /\ D \cap Refs(ip) = {} /\ D \cap bl = {} /\ D \cap mfree \subseteq C
     /\ pc = "zero" => blk \notin D

Owned ==
  /\ Disjoint
  /\ \A s, t \in Slot : s # t /\ ip.addr[s] # 0 => ip.addr[s] # ip.addr[t]
  /\ \A i \in Inode \ {ino} : Refs(inode[i]) \cap Refs(ip) = {} /\ Refs(inode[i]) \cap bl = {}
  /\ Refs(ip) \cap bl = {}
  /\ blk \notin AllRefs \cup Refs(ip) \cup bl
  /\ pc = "drain" => bl \cap AllRefs = {}

Control ==
  /\ pc = "idle" => ip = Blank /\ stage = "none"
  /\ pc # "idle" => ino \in Inode
  /\ pc \notin {"winode", "drain"} \/ stage \in {"write", "clear", "store", "tail"} => bl = {}
  /\ pc = "collect" => stage \in {"rollback", "trunc", "destroy"}
  /\ Popping => blk # 0 /\ left > 0 /\ ip.addr[lbn] = 0
  /\ ~Popping => blk = 0
  /\ pc = "data" => left > 0 /\ ip.addr[lbn] # 0
  /\ pc = "reload" => disk[blk] \in Seg /\ fl.n = 0

Inv == TypeOK /\ Control /\ Owned /\ \E C, D \in SUBSET Block : Safe(C, D)

\* The allocator contract.  While balloc has popped the last dump block, the
\* free blocks are those its dump lists.
InCoreFree == IF pc = "reload" THEN FreeSet(disk, disk[blk]) ELSE FreeSet(disk, fl)
Contract == INSTANCE AllocOps WITH
  mfree <- InCoreFree,
  sfree <- FreeSet(disk, sb.seg),
  used  <- AllRefs,
  held  <- (Refs(ip) \cup bl \cup ({blk} \ {0})) \ AllRefs

\* Every step of the allocator and its clients is one the contract allows.
MeetsContract == Contract!Spec
=============================================================================
