----------------------------- MODULE BlockTree -----------------------------
(***************************************************************************)
(* The block tree of one file (blocktree.c): filsys_bmap with its indirect *)
(* walk and the small-to-large promotion, filsys_itrunc_from, and the      *)
(* writes and truncations of filsys.c that call them.  The allocator is    *)
(* the contract AllocOps: the sets of blocks free in core and on disk.     *)
(* As in FreeList each disk transfer is a step, so that every state is a   *)
(* crash prefix, and a transfer that fails leaves its block as it was.     *)
(***************************************************************************)
EXTENDS Integers, FiniteSets, Sequences

CONSTANTS Block,        \* the data blocks
          Editions,     \* "plain", or "small" when desc.ilarg_mask # 0 (V6, V1)
          NIADDR,       \* desc.niaddr and desc.ndaddr of a plain edition: the
          NDADDR,       \*   address slots of an inode, and the direct ones
          NSMALL,       \* both of them in the other editions
          LargeSingle,  \* desc.large_single
          NINDIR,       \* desc.nindir, the entries of an indirect block
          MaxCount,     \* bound: blocks in one write
          MaxFaults,    \* bound: transfers that fail
          Data          \* the content of a block of file data

Slot == 0..(NIADDR - 1)
Entry == 0..(NINDIR - 1)
MaxLevel == 2

ASSUME TreeAssumption ==
  /\ Editions \subseteq {"plain", "small"} /\ Editions # {}
  /\ NIADDR \in Nat /\ NDADDR \in 0..NIADDR /\ NIADDR - NDADDR <= MaxLevel + 1
  /\ NINDIR \in Nat \ {0} /\ NSMALL \in 1..NIADDR /\ NSMALL <= NINDIR /\ LargeSingle \in 0..NSMALL
  /\ 0 \notin Block /\ MaxCount \in Nat /\ MaxFaults \in Nat

\* How the slots of a file are used: as a plain edition does, or as the others
\* do before ("small") and after ("large") they promote the file.
Form == {"plain", "small", "large"}
SlotCount(form) == IF form = "plain" THEN NIADDR ELSE NSMALL

\* filsys_slot_level: -1 for a direct slot, else the levels below its block.
SlotLevel(form, s) ==
  CASE form = "large" -> IF s < LargeSingle THEN 0 ELSE 1
    [] form = "small" -> -1
    [] form = "plain" -> IF s < NDADDR THEN -1 ELSE s - NDADDR

SlotSpan(form, s) == IF s < SlotCount(form) THEN NINDIR ^ (SlotLevel(form, s) + 1) ELSE 0

\* The first logical block of each slot; past the last, the end of the file.
Bases ==
  [form \in Form |->
     LET base[k \in 0..NIADDR] == IF k = 0 THEN 0 ELSE base[k - 1] + SlotSpan(form, k - 1)
     IN [k \in 0..NIADDR |-> base[k]]]
SlotBase(form, s) == Bases[form][s]

\* The blocks a file can have, once promoted.
FileEnd(form) == SlotBase(IF form = "plain" THEN form ELSE "large", NIADDR)
MaxFile == CHOOSE n \in {FileEnd(e) : e \in Editions} : \A e \in Editions : n >= FileEnd(e)
Lbn == 0..(MaxFile - 1)

\* The slot a logical block falls in, and its index at level k of the walk.
Slots ==
  [form \in Form |-> [l \in 0..(SlotBase(form, NIADDR) - 1) |->
     CHOOSE s \in Slot : SlotBase(form, s) <= l /\ l < SlotBase(form, s + 1)]]
SlotOf(form, l) == Slots[form][l]
Index(form, l, k) ==
  LET s == SlotOf(form, l)
  IN ((l - SlotBase(form, s)) \div NINDIR ^ (SlotLevel(form, s) - k)) % NINDIR

Zero == [e \in Entry |-> 0]
Empty == [size |-> 0, form |-> "plain", addr |-> [s \in Slot |-> 0]]

VARIABLES
  mfree, sfree,  \* the blocks free in core, and according to the disk
  fl_dirty,      \* fs->fl_dirty
  cont,          \* the blocks on disk: the entries of an indirect block, or Data
  dino,          \* the inode on disk
  pc, stage,     \* where the running request is, and which part of it
  ip,            \* its in-core inode
  lbn, left,     \* the next logical block of a write, and how many are left
  first,         \* the first logical block a truncation or rollback drops
  at, lev,       \* the indirect block the walk is at, and its level
  new,           \* a block allocated and not yet named by anything
  cut,           \* indirect blocks a truncation still has to rewrite
  bl,            \* the filsys_blklist
  faults,        \* how many transfers have failed
  was            \* (history) the file's blocks when the request began

core == <<mfree, sfree, fl_dirty>>
walk == <<at, lev, new>>
vars == <<mfree, sfree, fl_dirty, cont, dino, pc, stage, ip, lbn, left, first,
          at, lev, new, cut, bl, faults, was>>

Entries(c, b) == IF c[b] = Data THEN Zero ELSE c[b]
Named(c, b) == {Entries(c, b)[e] : e \in Entry} \ {0}

\* collect_subtree, filsys_mark_tree: an indirect block with l levels of
\* indirection below it, and everything it leads to.
Subtree(c, b, l) ==
  LET sub[k \in 0..MaxLevel, x \in Block] ==
        {x} \cup IF k = 0 THEN Named(c, x) ELSE UNION {sub[k - 1, y] : y \in Named(c, x)}
  IN IF l < 0 THEN {b} ELSE sub[l, b]

Tree(c, i) ==
  UNION {Subtree(c, i.addr[s], SlotLevel(i.form, s)) : s \in {t \in Slot : i.addr[t] # 0}}

\* count_indirect and filsys_allocated_blocks: st_blocks, by address.
CountIndirect(c, b, l) ==
  LET count[k \in 0..MaxLevel, x \in Block] ==
        LET sum[e \in 0..NINDIR] ==
              IF e = 0 THEN 1
              ELSE sum[e - 1] + LET y == Entries(c, x)[e - 1]
                                IN IF y = 0 THEN 0 ELSE IF k = 0 THEN 1 ELSE count[k - 1, y]
        IN sum[NINDIR]
  IN count[l, b]

AllocatedBlocks(c, i) ==
  LET n[s \in 0..NIADDR] ==
        IF s = 0 THEN 0
        ELSE n[s - 1] + LET a == i.addr[s - 1]
                            l == SlotLevel(i.form, s - 1)
                        IN IF a = 0 THEN 0 ELSE IF l < 0 THEN 1 ELSE CountIndirect(c, a, l)
  IN n[NIADDR]

\* filsys_bmap without create: the block of logical block l, 0 for a hole.
Bmap(c, i, l) ==
  LET s == SlotOf(i.form, l)
      down[k \in 0..(MaxLevel + 1)] ==
        IF k = 0 THEN i.addr[s]
        ELSE LET b == down[k - 1]
             IN IF b = 0 THEN 0 ELSE Entries(c, b)[Index(i.form, l, k - 1)]
  IN down[SlotLevel(i.form, s) + 1]

\* A logical block past what a small file's slots cover has none.
Mapping(c, i) ==
  [l \in Lbn |-> IF l < SlotBase(i.form, NIADDR) THEN Bmap(c, i, l) ELSE 0]
-----------------------------------------------------------------------------
Rest == /\ pc' = "idle" /\ stage' = "none" /\ ip' = Empty
        /\ lbn' = 0 /\ left' = 0 /\ first' = 0
        /\ at' = 0 /\ lev' = 0 /\ new' = 0 /\ cut' = <<>> /\ bl' = {}
        /\ was' = [l \in Lbn |-> 0]

Init ==
  /\ mfree = Block /\ sfree = Block /\ fl_dirty = FALSE
  /\ cont = [b \in Block |-> Zero] /\ \E e \in Editions : dino = [Empty EXCEPT !.form = e]
  /\ pc = "idle" /\ stage = "none" /\ ip = Empty
  /\ lbn = 0 /\ left = 0 /\ first = 0
  /\ at = 0 /\ lev = 0 /\ new = 0 /\ cut = <<>> /\ bl = {}
  /\ faults = 0 /\ was = [l \in Lbn |-> 0]

Fault == faults < MaxFaults /\ faults' = faults + 1

\* A failed step of filsys_file_write: filsys_write_ino rolls the write back.
WriteFails ==
  /\ pc' = "collect" /\ stage' = "rollback" /\ lbn' = 0 /\ left' = 0
  /\ at' = 0 /\ lev' = 0 /\ new' = 0
  /\ UNCHANGED <<dino, ip, first, cut, bl, was>>

Here == SlotOf(ip.form, lbn)
Level == SlotLevel(ip.form, Here)
Next1 == Entries(cont, at)[Index(ip.form, lbn, lev)]

\* A write past the direct slots of a small file.
Promotes == ip.form = "small" /\ lbn >= NSMALL

Mapping1 == pc = "bmap" /\ left > 0
NeedsBlock ==
  \/ Mapping1 /\ (~Promotes => ip.addr[Here] = 0)
  \/ pc = "ind" /\ Next1 = 0
-----------------------------------------------------------------------------
(* alloc->balloc, by its contract.                                         *)

\* (mutant) the flag that orders the superblock before inodes is not set
Balloc_Clean(b) ==
  /\ b \in mfree
  /\ mfree' = mfree \ {b} /\ fl_dirty' = FALSE
  /\ sfree' \in {sfree, mfree \ {b}}
  /\ cont' = [cont EXCEPT ![b] = Zero]
  /\ UNCHANGED faults

\* The block is zeroed; the allocator may have had to flush on the way.
Balloc(b) ==
  /\ b \in mfree
  /\ mfree' = mfree \ {b} /\ fl_dirty' = TRUE
  /\ sfree' \in {sfree, mfree \ {b}}
  /\ cont' = [cont EXCEPT ![b] = Zero]
  /\ UNCHANGED faults

\* (mutant) running out of space is reported without a rollback
BallocNoSpace_NoRollback ==
  /\ NeedsBlock /\ mfree = {}
  /\ Rest
  /\ UNCHANGED <<core, cont, dino, faults>>

BallocNoSpace ==
  /\ NeedsBlock /\ mfree = {}
  /\ WriteFails
  /\ UNCHANGED <<core, cont, faults>>

\* The popped block is lost, before or after a flush; or the next dump block
\* cannot be read, and with it goes the whole list in core.
BallocFails ==
  /\ NeedsBlock /\ mfree # {}
  /\ \/ mfree' = {} /\ UNCHANGED <<sfree, fl_dirty>>
     \/ \E b \in mfree :
          /\ mfree' = mfree \ {b}
          /\ \/ UNCHANGED <<sfree, fl_dirty>>
             \/ sfree' = mfree \ {b} /\ fl_dirty' = FALSE
  /\ WriteFails
  /\ Fault
  /\ UNCHANGED cont
-----------------------------------------------------------------------------
(* filsys_write_ino, filsys_file_write, filsys_bmap with create.           *)

BeginWrite(off, cnt) ==
  /\ pc = "idle" /\ off + cnt <= FileEnd(dino.form)
  /\ pc' = "bmap" /\ stage' = "write" /\ ip' = dino
  /\ lbn' = off /\ left' = cnt /\ first' = dino.size
  /\ was' = Mapping(cont, dino)
  /\ UNCHANGED <<core, cont, dino, walk, cut, bl, faults>>

\* The direct addresses are to move to a fresh indirect block.
Promote(b) ==
  /\ Mapping1 /\ Promotes
  /\ Balloc(b)
  /\ pc' = "promote" /\ new' = b
  /\ UNCHANGED <<dino, stage, ip, lbn, left, first, at, lev, cut, bl, was>>

\* (mutant) the direct addresses also stay in the inode
PromoteWrite_Stays ==
  /\ pc = "promote"
  /\ cont' = [cont EXCEPT ![new] = [e \in Entry |-> IF e < NSMALL THEN ip.addr[e] ELSE 0]]
  /\ ip' = [ip EXCEPT !.form = "large", !.addr[0] = new]
  /\ pc' = "bmap" /\ new' = 0
  /\ UNCHANGED <<core, dino, stage, lbn, left, first, at, lev, cut, bl, faults, was>>

PromoteWrite ==
  /\ pc = "promote"
  /\ cont' = [cont EXCEPT ![new] = [e \in Entry |-> IF e < NSMALL THEN ip.addr[e] ELSE 0]]
  /\ ip' = [ip EXCEPT !.form = "large", !.addr = [s \in Slot |-> IF s = 0 THEN new ELSE 0]]
  /\ pc' = "bmap" /\ new' = 0
  /\ UNCHANGED <<core, dino, stage, lbn, left, first, at, lev, cut, bl, faults, was>>

\* The slot of lbn: its block, allocated if it is a hole.
BmapSlot ==
  /\ Mapping1 /\ ~Promotes
  /\ \E b \in Block :
       /\ \/ b = ip.addr[Here] /\ UNCHANGED <<core, cont, ip, faults>>
          \/ /\ ip.addr[Here] = 0 /\ Balloc(b)
             /\ ip' = [ip EXCEPT !.addr[Here] = b]
       /\ at' = b
  /\ pc' = IF Level < 0 THEN "data" ELSE "ind"
  /\ lev' = 0
  /\ UNCHANGED <<dino, stage, lbn, left, first, new, cut, bl, was>>

\* bmap_ind_follow goes on from `at' to block b.
Follow(b) ==
  /\ at' = b
  /\ IF lev = Level THEN pc' = "data" /\ lev' = 0 ELSE pc' = "ind" /\ lev' = lev + 1
  /\ UNCHANGED <<dino, stage, ip, lbn, left, first, cut, bl, was>>

BmapFollow ==
  /\ pc = "ind" /\ Next1 # 0
  /\ Follow(Next1)
  /\ UNCHANGED <<core, cont, new, faults>>

BmapAlloc(b) ==
  /\ pc = "ind" /\ Next1 = 0
  /\ Balloc(b)
  /\ new' = b /\ pc' = "link"
  /\ UNCHANGED <<dino, stage, ip, lbn, left, first, at, lev, cut, bl, was>>

\* The entry is written to the indirect block.
BmapLink ==
  /\ pc = "link"
  /\ cont' = [cont EXCEPT ![at][Index(ip.form, lbn, lev)] = new]
  /\ Follow(new)
  /\ new' = 0
  /\ UNCHANGED <<core, faults>>

WriteData ==
  /\ pc = "data"
  /\ cont' = [cont EXCEPT ![at] = Data]
  /\ lbn' = lbn + 1 /\ left' = left - 1 /\ at' = 0
  /\ pc' = "bmap"
  /\ UNCHANGED <<core, dino, stage, ip, first, lev, new, cut, bl, faults, was>>

\* A block cannot be read or written: a fresh one not yet named is lost.
TransferFails ==
  /\ pc \in {"promote", "ind", "link", "data"}
  /\ WriteFails
  /\ Fault
  /\ UNCHANGED <<core, cont>>

WriteEnds ==
  /\ pc = "bmap" /\ left = 0
  /\ ip' = [ip EXCEPT !.size = IF lbn > ip.size THEN lbn ELSE ip.size]
  /\ pc' = "winode" /\ lbn' = 0
  /\ UNCHANGED <<core, cont, dino, stage, left, first, walk, cut, bl, faults, was>>
-----------------------------------------------------------------------------
(* truncate_inode and inode_destroy, and the collection of blocks that they *)
(* share with the rollback.                                                *)

BeginTruncate(k) ==
  /\ pc = "idle"
  /\ \/ k < dino.size /\ pc' = "collect" /\ stage' = "trunc" /\ ip' = dino
     \/ k \in (dino.size + 1)..FileEnd(dino.form) /\ pc' = "winode" /\ stage' = "store" /\ ip' = [dino EXCEPT !.size = k]
  /\ first' = k /\ was' = Mapping(cont, dino)
  /\ UNCHANGED <<core, cont, dino, lbn, left, walk, cut, bl, faults>>

\* The last name of the file is gone; the inode is then created anew.
BeginDestroy ==
  /\ pc = "idle"
  /\ pc' = "collect" /\ stage' = "destroy" /\ ip' = dino /\ first' = 0
  /\ was' = Mapping(cont, dino)
  /\ UNCHANGED <<core, cont, dino, lbn, left, walk, cut, bl, faults>>

\* collect_subtree_from keeps the first k blocks below indirect block b, which
\* has l levels below it: the entries it keeps, whole or in part, ...
Kept(k, l) == (k + NINDIR ^ l - 1) \div NINDIR ^ l
\* ... the one it keeps in part, if any, ...
Partial(c, b, l, k) ==
  IF k % NINDIR ^ l = 0 THEN 0 ELSE Entries(c, b)[k \div NINDIR ^ l]

\* ... the blocks it collects, ...
CollectFrom(c, b, l, k) ==
  LET drop[j \in 0..MaxLevel, x \in Block, n \in 0..MaxFile] ==
        LET p == Partial(c, x, j, n)
        IN UNION {Subtree(c, Entries(c, x)[e], j - 1) :
                  e \in {f \in Kept(n, j)..(NINDIR - 1) : Entries(c, x)[f] # 0}}
           \cup IF p = 0 THEN {} ELSE drop[j - 1, p, n % NINDIR ^ j]
  IN drop[l, b, k]

\* ... and the blocks it rewrites, the innermost first, with what they keep.
Rewrites(c, b, l, k) ==
  LET path[j \in 0..MaxLevel, x \in Block, n \in 0..MaxFile] ==
        LET p == Partial(c, x, j, n)
        IN (IF p = 0 THEN <<>> ELSE path[j - 1, p, n % NINDIR ^ j])
           \o <<[blk |-> x, keep |-> Kept(n, j)]>>
  IN path[l, b, k]

\* The slots with a block at or past `first', and the one that straddles it.
Past == {s \in Slot : ip.addr[s] # 0 /\ SlotBase(ip.form, s) >= first}
Straddling ==
  {s \in Slot : /\ ip.addr[s] # 0 /\ SlotBase(ip.form, s) < first
                /\ first < SlotBase(ip.form, s + 1)}

Collect ==
  /\ pc = "collect"
  /\ LET Keep(s) == first - SlotBase(ip.form, s)
         L(s) == SlotLevel(ip.form, s)
     IN /\ bl' = UNION {Subtree(cont, ip.addr[s], L(s)) : s \in Past}
                 \cup UNION {CollectFrom(cont, ip.addr[s], L(s), Keep(s)) : s \in Straddling}
        /\ cut' = IF Straddling = {} THEN <<>>
                  ELSE LET s == CHOOSE t \in Straddling : TRUE
                       IN Rewrites(cont, ip.addr[s], L(s), Keep(s))
        /\ pc' = IF Straddling = {} THEN "winode" ELSE "cut"
  /\ ip' = [size |-> IF stage = "rollback" THEN ip.size ELSE first,
            form |-> IF stage = "destroy" /\ ip.form = "large" THEN "small" ELSE ip.form,
            addr |-> [s \in Slot |-> IF s \in Past THEN 0 ELSE ip.addr[s]]]
  /\ UNCHANGED <<core, cont, dino, stage, lbn, left, first, walk, faults, was>>

\* (mutant) the indirect block is not written back
Cut_Unsaved ==
  /\ pc = "cut"
  /\ cut' = Tail(cut)
  /\ pc' = IF Len(cut) = 1 THEN "winode" ELSE "cut"
  /\ UNCHANGED <<core, cont, dino, stage, ip, lbn, left, first, walk, bl, faults, was>>

\* One indirect block is written back without the entries dropped.
Cut ==
  /\ pc = "cut"
  /\ LET w == Head(cut)
     IN cont' = [cont EXCEPT ![w.blk] =
                   [e \in Entry |-> IF e < w.keep THEN Entries(cont, w.blk)[e] ELSE 0]]
  /\ cut' = Tail(cut)
  /\ pc' = IF Len(cut) = 1 THEN "winode" ELSE "cut"
  /\ UNCHANGED <<core, dino, stage, ip, lbn, left, first, walk, bl, faults, was>>

\* A read, a write-back or an allocation of the list fails: it is discarded.
CollectFails ==
  /\ pc \in {"collect", "cut"}
  /\ Rest
  /\ Fault
  /\ UNCHANGED <<core, cont, dino>>
-----------------------------------------------------------------------------
\* (mutant) the flag is cleared without the flush
WriteInodeFlush_Skip ==
  /\ pc = "winode" /\ fl_dirty
  /\ fl_dirty' = FALSE
  /\ UNCHANGED <<mfree, sfree, cont, dino, pc, stage, ip, lbn, left, first, walk, cut, bl, faults, was>>

WriteInodeFlush ==
  /\ pc = "winode" /\ fl_dirty
  /\ sfree' = mfree /\ fl_dirty' = FALSE
  /\ UNCHANGED <<mfree, cont, dino, pc, stage, ip, lbn, left, first, walk, cut, bl, faults, was>>

WriteInode ==
  /\ pc = "winode" /\ ~fl_dirty
  /\ dino' = ip
  /\ IF stage \in {"write", "store"} THEN Rest
     ELSE /\ pc' = "drain"
          /\ UNCHANGED <<stage, ip, lbn, left, first, walk, cut, bl, was>>
  /\ UNCHANGED <<core, cont, faults>>

\* (mutant) the collected blocks are freed though the inode was not written
WriteInodeFails_Drain ==
  /\ pc = "winode"
  /\ IF stage = "write" THEN WriteFails
     ELSE pc' = "drain" /\ UNCHANGED <<dino, stage, ip, lbn, left, first, walk, cut, bl, was>>
  /\ Fault
  /\ UNCHANGED <<core, cont>>

WriteInodeFails ==
  /\ pc = "winode"
  /\ IF stage = "write" THEN WriteFails ELSE Rest /\ UNCHANGED dino
  /\ Fault
  /\ UNCHANGED <<core, cont>>

\* bfree, by its contract: the block is free again, or leaks.  What a free
\* block holds is the allocator's affair, and Zero here.
Drain(b) ==
  /\ pc = "drain" /\ b \in bl
  /\ \/ mfree' = mfree \cup {b} /\ UNCHANGED faults
     \/ Fault /\ UNCHANGED mfree
  /\ bl' = bl \ {b} /\ cont' = [cont EXCEPT ![b] = Zero]
  /\ UNCHANGED <<sfree, fl_dirty, dino, pc, stage, ip, lbn, left, first, walk, cut, was>>

DrainEnds ==
  /\ pc = "drain" /\ bl = {}
  /\ Rest
  /\ UNCHANGED <<core, cont, dino, faults>>

Sync ==
  /\ pc = "idle"
  /\ sfree' = mfree /\ fl_dirty' = FALSE
  /\ UNCHANGED <<mfree, cont, dino, pc, stage, ip, lbn, left, first, walk, cut, bl, faults, was>>

Step ==
  \/ BallocNoSpace \/ BallocFails \/ BmapSlot \/ BmapFollow \/ BmapLink
  \/ \E b \in Block : Promote(b) \/ BmapAlloc(b) \/ Drain(b)
  \/ PromoteWrite \/ WriteData \/ TransferFails \/ WriteEnds
  \/ Collect \/ Cut \/ CollectFails
  \/ WriteInodeFlush \/ WriteInode \/ WriteInodeFails \/ DrainEnds

Next ==
  \/ Step \/ Sync
  \/ \E off \in Lbn, cnt \in 1..MaxCount : BeginWrite(off, cnt)
  \/ \E k \in 0..MaxFile : BeginTruncate(k)
  \/ BeginDestroy

Spec == Init /\ [][Next]_vars
-----------------------------------------------------------------------------
\* A block balloc may hand out is not in the file on disk, nor in the one the
\* request is building, nor about to be freed (blocktree.c, blklist).
NoDoubleUse ==
  mfree \cap (Tree(cont, dino) \cup Tree(cont, ip) \cup bl \cup {new}) = {}

\* At every crash prefix, however a write, promotion or truncation was cut
\* short, each block of the file is reached along one path only, so that
\* filsys_allocated_blocks counts it once, and no indirect block holds data.
TreeSound ==
  \A i \in {dino, ip} :
    LET leaves == {Mapping(cont, i)[l] : l \in Lbn}
    IN /\ AllocatedBlocks(cont, i) = Cardinality(Tree(cont, i))
       /\ \A b \in Tree(cont, i) \ leaves : cont[b] # Data

\* A write never moves a block of the file, even when it promotes the file; a
\* truncation or rollback to `first' blocks keeps each block below it where it
\* was and leaves nothing mapped above it (filsys_bmap, filsys_itrunc_from).
Remaps ==
  LET now == Mapping(cont, ip)
  IN /\ pc = "winode" /\ stage = "write" =>
          \A l \in Lbn : was[l] # 0 => now[l] = was[l]
     /\ pc = "drain" =>
          \A l \in Lbn : IF l < first THEN now[l] = was[l] \/ (stage = "rollback" /\ was[l] = 0)
                         ELSE now[l] = 0

\* As long as no transfer failed, between requests every block is either free
\* or in the file: writes that run out of space leak nothing, whatever level
\* of the tree they had reached (filsys_write_ino's rollback).
NothingLost == faults = 0 /\ pc = "idle" => mfree \cup Tree(cont, dino) = Block

\* Once the superblock is flushed, no block of the file on disk is free on
\* disk: the write barrier in write_inode, seen by a crash.
FlushedNoAlias == ~fl_dirty => sfree \cap Tree(cont, dino) = {}

\* The addresses in the inode itself are never free on disk, flushed or not.
SlotsNoAlias == sfree \cap {dino.addr[s] : s \in Slot} = {}
=============================================================================
