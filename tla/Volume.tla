------------------------------- MODULE Volume -------------------------------
(***************************************************************************)
(* A volume whose free space is a bitmap, from mkfs through mounts,        *)
(* unmounts, crashes and fsck -s.  Three editions keep the map in three    *)
(* ways: V8 and V9 inside the superblock ("bitmap"), V10 in blocks of its  *)
(* own ("bigmap"), V1 in the two blocks of its superblock ("v1"), with a   *)
(* map of the inodes.  Each process has a copy of the map in core; a       *)
(* request is the list `todo' of transfers it still has to make, each with *)
(* the list `fail' that its failure leads to.                              *)
(***************************************************************************)
EXTENDS Integers, Sequences, FiniteSets, FiniteSetsExt

CONSTANTS Block,      \* the data blocks
          Second,     \* those whose bits lie in the map's second block
          File,       \* the inode numbers, apart from Block
          Proc,       \* the processes that mount or check the volume
          Editions,   \* the editions to consider
          NoProc,     \* no process
          MaxFaults   \* bound: transfers that fail

ASSUME VolumeAssumption ==
  /\ Block \subseteq Nat /\ File \subseteq Nat /\ Block \cap File = {}
  /\ Second \subseteq Block /\ NoProc \notin Proc
  /\ Editions \subseteq {"bitmap", "bigmap", "v1"}
  /\ MaxFaults \in Nat

VARIABLES
  ed,      \* the edition
  map,     \* the units whose bit is "free", on disk
  fmod,    \* s_fmod on disk: TRUE from mark_dirty to mark_clean
  used,    \* the inodes on disk: live, and the blocks each names
  core,    \* what each process holds
  lock,    \* the process that holds the write lock
  whole,   \* (history) the last superblock came from a copy that missed nothing
  raced,   \* (history) a process opened the volume while another had it open
  faults   \* how many transfers have failed

disk == <<map, fmod, used>>
vars == <<ed, map, fmod, used, core, lock, whole, raced, faults>>

\* The map's bits: V1's has one for each inode besides.
Unit == IF ed = "v1" THEN Block \cup File ELSE Block
Dead == [live |-> FALSE, blocks |-> {}]
Refs == UNION {used[f].blocks : f \in File}
InUse == Refs \cup {f \in File : used[f].live}
\* No two inodes name one block, and the map says exactly what they say.
Exact(m) ==
  /\ m = Unit \ InUse
  /\ \A f, g \in File : f # g => used[f].blocks \cap used[g].blocks = {}

Closed == [st |-> "down", bits |-> {}, fmod |-> FALSE, fl_dirty |-> FALSE,
           rc |-> 0, whole |-> TRUE, todo |-> <<>>]
-----------------------------------------------------------------------------
(* Transfers, and the lists of them that the backends make.                *)

\* One block of the map, the superblock, or both when they are one.
Write(units, super, last, f) ==
  [do |-> "write", units |-> units, super |-> super, last |-> last, fail |-> f]
\* write_inode: the new inode, and what is freed once it is on disk.
Inode(f, to, drop, e) == [do |-> "inode", f |-> f, to |-> to, drop |-> drop, fail |-> e]
Zero(f) == [do |-> "zero", fail |-> f]

\* Steps that only change the copy in core.
Dirty == [do |-> "dirty"]
Ifree(f) == [do |-> "ifree", f |-> f]
Fails == [do |-> "rc"]
Leak == [do |-> "leak"]
Shut == [do |-> "shut"]

First == Block \ Second
Rest == Unit \ First

\* v7fs_super_write, and super_write of V1.
SuperWrite(f) ==
  CASE ed = "bitmap" -> <<Write(Block, TRUE, TRUE, f)>>
    [] ed = "bigmap" -> <<Write({}, TRUE, TRUE, f)>>
    [] ed = "v1"     -> <<Write(First, FALSE, FALSE, f), Write(Rest, FALSE, TRUE, f)>>

\* flush_fs and v8_bitmap_sync: the map's own blocks, then the superblock.
Flush(f) ==
  IF ed = "bigmap" THEN <<Write(First, FALSE, FALSE, f), Write(Rest, FALSE, FALSE, f)>> \o SuperWrite(f)
  ELSE SuperWrite(f)

\* v7fs_close and v1fs_close: a last flush, whether or not anything changed.
Close == Flush(<<Fails, Shut>>) \o <<Shut>>
-----------------------------------------------------------------------------
(* Mounting and unmounting.                                                *)

\* mkfs leaves every data block free, and a clean flag: an edition that has no
\* flag has one here that nothing reads.
Init ==
  /\ ed \in Editions
  /\ used = [f \in File |-> Dead]
  /\ map = Unit
  /\ fmod = FALSE
  /\ core = [p \in Proc |-> Closed]
  /\ lock = NoProc
  /\ whole = TRUE /\ raced = FALSE /\ faults = 0

HasFmod == ed # "v1"

Set(p, c) == core' = [core EXCEPT ![p] = c]
Idle(p) == core[p].st = "up" /\ core[p].todo = <<>>
\* The lock goes with the descriptor.
Unlock(p) == lock' = IF lock = p THEN NoProc ELSE lock

\* ops->open: the superblock and the map are read before anything is locked.
Open(p) ==
  /\ core[p].st = "down"
  /\ Set(p, [Closed EXCEPT !.st = "opened", !.bits = map, !.fmod = fmod, !.whole = Exact(map)])
  /\ raced' = (raced \/ \E q \in Proc : core[q].st # "down")
  /\ UNCHANGED <<ed, disk, lock, whole, faults>>

\* (mutant) the volume is not stamped dirty
MarkDirty_Unstamped(c) == [c EXCEPT !.st = "up"]

\* mark_dirty: if the stamp cannot be written, the mount is refused.
MarkDirty(c) ==
  IF HasFmod THEN [c EXCEPT !.st = "up", !.fmod = TRUE, !.todo = Flush(Close)]
  ELSE [c EXCEPT !.st = "up"]

\* lock_image, and the two ways filsys_open_arch goes on.
Lock(p) ==
  /\ core[p].st = "opened" /\ core[p].todo = <<>> /\ lock = NoProc
  /\ lock' = p
  /\ Set(p, MarkDirty(core[p]))
  /\ UNCHANGED <<ed, disk, whole, raced, faults>>

Refused(p) ==
  /\ core[p].st = "opened" /\ core[p].todo = <<>> /\ lock # NoProc
  /\ Set(p, [core[p] EXCEPT !.todo = Close])
  /\ UNCHANGED <<ed, disk, lock, whole, raced, faults>>

\* (mutant) the error of the last flush is dropped
Unmount_Silent(p) ==
  LET c == core[p] IN
  /\ Idle(p)
  /\ Set(p, IF HasFmod THEN [c EXCEPT !.fmod = FALSE, !.todo = Flush(Flush(<<Shut>>) \o <<Shut>>) \o <<Shut>>]
            ELSE [c EXCEPT !.todo = Flush(<<Shut>>) \o <<Shut>>])
  /\ UNCHANGED <<ed, disk, lock, whole, raced, faults>>

\* filsys_close: mark_clean, then the backend's close.
Unmount(p) ==
  LET c == core[p] IN
  /\ Idle(p)
  /\ Set(p, IF HasFmod THEN [c EXCEPT !.fmod = FALSE, !.todo = Flush(<<Fails>> \o Close) \o Close]
            ELSE [c EXCEPT !.todo = Close])
  /\ UNCHANGED <<ed, disk, lock, whole, raced, faults>>

\* (mutant) blocks that an inode names are freed too
Salvaged_All(bits) == (bits \cap File) \cup Block

\* v8_makefree_bitmap and v1fs_makefree: V1's map of the inodes is kept.
Salvaged(bits) == (bits \cap File) \cup (Block \ Refs)

\* fsck -s, on a volume that nothing has mounted; it takes no lock.  The result
\* of makefree's flush is ignored, and the close flushes again.
Salvage(p) ==
  LET bits == Salvaged(map) IN
  /\ \A q \in Proc : core[q].st = "down"
  /\ Set(p, [Closed EXCEPT !.st = "fsck", !.bits = bits, !.fmod = fmod,
                           !.whole = Exact(bits), !.todo = Flush(Close) \o Close])
  /\ UNCHANGED <<ed, disk, lock, whole, raced, faults>>

Crash(p) ==
  /\ core[p].st # "down"
  /\ Set(p, Closed)
  /\ Unlock(p)
  /\ UNCHANGED <<ed, disk, whole, raced, faults>>
-----------------------------------------------------------------------------
(* Requests on a mounted volume.                                           *)

Start(p, c) ==
  /\ Idle(p)
  /\ Set(p, c)
  /\ UNCHANGED <<ed, disk, lock, whole, raced, faults>>

\* v8_bitmap_balloc and v1fs_balloc, v1fs_ialloc: the first that is free.
Balloc(bits) == Min(bits \cap Block)
Ialloc(bits) == Min(bits \cap File)

\* The units freed once an inode is written; V1's bfree and ifree leave
\* fl_dirty alone.
Bfree(c, drop) ==
  [c EXCEPT !.bits = @ \cup (drop \cap Unit),
            !.fl_dirty = @ \/ (ed # "v1" /\ drop \cap Block # {})]

\* filsys_write_ino with one block to allocate, which balloc zeroes.  A failure
\* is rolled back by writing the old inode.
WriteFile(p, f) ==
  LET c == core[p]
      old == Inode(f, used[f], {}, <<>>)
      b == Balloc(c.bits)
      with == [live |-> TRUE, blocks |-> used[f].blocks \cup {b}]
      undo == Inode(f, used[f], {b}, <<Leak>>)
  IN used[f].live /\ Start(p,
       IF c.bits \cap Block = {} THEN [c EXCEPT !.todo = <<old>>]
       ELSE [c EXCEPT !.bits = @ \ {b},
                      !.todo = <<Zero(<<Leak, old>>), Inode(f, with, {}, <<undo>>)>>])

Truncate(p, f) ==
  /\ used[f].live
  /\ Start(p, [core[p] EXCEPT !.todo =
       <<Inode(f, [live |-> TRUE, blocks |-> {}], used[f].blocks, <<>>)>>])

\* inode_destroy: the cleared inode, then its blocks and its number.
Destroy(p, f) ==
  /\ used[f].live
  /\ Start(p, [core[p] EXCEPT !.todo =
       <<Inode(f, Dead, used[f].blocks \cup {f}, <<>>)>>])

\* inode_create.  V1's ialloc takes the first number free in the map.  The
\* others look for a dead inode and clear it, whether or not that is written.
Create(p, f) ==
  LET c == core[p]
      fresh(undo) == Inode(f, [live |-> TRUE, blocks |-> {}], {}, undo)
      then == <<Dirty, fresh(<<>>)>>
  IN IF ed = "v1"
     THEN /\ c.bits \cap File # {} /\ f = Ialloc(c.bits)
          /\ Start(p, [c EXCEPT !.bits = @ \ {f}, !.fl_dirty = TRUE,
                                !.todo = <<fresh(<<Ifree(f)>>)>>])
     ELSE /\ ~used[f].live
          /\ Start(p, [c EXCEPT !.todo = <<Inode(f, Dead, {}, then)>> \o then])

Sync(p) == Start(p, [core[p] EXCEPT !.todo = Flush(<<>>)])
-----------------------------------------------------------------------------
(* One step of a process: a transfer, its failure, or a change in core.    *)

DoWrite(p, s, c) ==
  /\ map' = (map \ s.units) \cup (c.bits \cap s.units)
  /\ fmod' = IF s.super THEN c.fmod ELSE fmod
  /\ whole' = IF s.last THEN c.whole ELSE whole
  /\ Set(p, [c EXCEPT !.fl_dirty = @ /\ ~s.last])
  /\ UNCHANGED <<used, lock>>

\* (mutant) the allocator's state is not flushed before the inode
FlushFirst_Skip(p) == FALSE

\* `if (fs->fl_dirty)' in write_inode.
FlushFirst(p) == core[p].fl_dirty

\* write_inode, and what is freed after it.
DoInode(p, s, c) ==
  IF FlushFirst(p)
  THEN /\ Set(p, [core[p] EXCEPT !.todo = SuperWrite(s.fail) \o @])
       /\ UNCHANGED <<disk, lock, whole>>
  ELSE /\ used' = [used EXCEPT ![s.f] = s.to]
       /\ Set(p, Bfree(c, s.drop))
       /\ UNCHANGED <<map, fmod, lock, whole>>

Transfer(p) ==
  /\ core[p].todo # <<>>
  /\ LET s == Head(core[p].todo)
         c == [core[p] EXCEPT !.todo = Tail(@)]
     IN \/ s.do = "write" /\ DoWrite(p, s, c)
        \/ s.do = "inode" /\ DoInode(p, s, c)
        \/ s.do = "zero" /\ Set(p, [c EXCEPT !.fl_dirty = TRUE]) /\ UNCHANGED <<disk, lock, whole>>
        \/ s.do = "dirty" /\ Set(p, [c EXCEPT !.fl_dirty = TRUE]) /\ UNCHANGED <<disk, lock, whole>>
        \/ s.do = "ifree" /\ Set(p, [c EXCEPT !.bits = @ \cup {s.f}]) /\ UNCHANGED <<disk, lock, whole>>
        \/ s.do = "rc" /\ Set(p, [c EXCEPT !.rc = 1]) /\ UNCHANGED <<disk, lock, whole>>
        \/ s.do = "leak" /\ Set(p, [c EXCEPT !.whole = FALSE]) /\ UNCHANGED <<disk, lock, whole>>
        \/ /\ s.do = "shut"
           /\ Set(p, Closed)
           /\ Unlock(p)
           /\ UNCHANGED <<disk, whole>>
  /\ UNCHANGED <<ed, raced, faults>>

Faulty(p) ==
  /\ core[p].todo # <<>> /\ Head(core[p].todo).do \in {"write", "inode", "zero"}
  /\ faults < MaxFaults
  /\ faults' = faults + 1
  /\ Set(p, [core[p] EXCEPT !.todo = Head(core[p].todo).fail])
  /\ UNCHANGED <<ed, disk, lock, whole, raced>>

Next ==
  \E p \in Proc :
    \/ Open(p) \/ Lock(p) \/ Refused(p) \/ Unmount(p) \/ Salvage(p) \/ Crash(p)
    \/ \E f \in File : WriteFile(p, f) \/ Truncate(p, f) \/ Destroy(p, f) \/ Create(p, f)
    \/ Sync(p) \/ Transfer(p) \/ Faulty(p)

Spec == Init /\ [][Next]_vars
-----------------------------------------------------------------------------

\* No unit is both free in the map on disk and referenced: what v7fs.c:377
\* promises of every inode write.
NoAliasOnDisk == map \cap InUse = {}

\* filsys.c:205: the lock is taken "so two read-write mounts of the same extent
\* can't hand out the same block".
NoSharedBlock ==
  \A f, g \in File : f # g => used[f].blocks \cap used[g].blocks = {}

\* In the editions that keep the map in the superblock, no crash and no failed
\* transfer leaves a block, or in V1 an inode, both free and in use; and the
\* copy in core offers none that is in use.  V10 writes its
\* bitmap blocks at a sync or an unmount only, and is left out, as are mounts that
\* overlap (NoSharedBlock).
MapSafe ==
  ~raced /\ ed # "bigmap" =>
    /\ NoAliasOnDisk /\ NoSharedBlock
    /\ \A p \in Proc : core[p].bits \cap InUse = {}

\* filsys.c:329: a volume is stamped dirty before anything on it changes, "so a
\* crash before close is flagged", and fsck -p skips only sound volumes: a clean
\* flag means a map that says what the inodes say, unless a copy from which
\* blocks had leaked was written back.
CleanSound == ~raced /\ HasFmod /\ ~fmod /\ whole => Exact(map)

\* filsys.c:357: "filsys_close must never return 0 if any step failed": a close
\* that returns 0 has left on disk the map and the flag it had in core.
CloseReports ==
  \A p \in Proc : LET c == core[p] IN
    ~raced /\ c.todo = <<Shut>> /\ c.rc = 0 => map = c.bits /\ (HasFmod => fmod = c.fmod)

\* A salvage that returns 0 has given back every block that leaked and taken
\* back every one that is in use, whatever crash it comes after, and whether or
\* not makefree's own flush, whose result is dropped, went through.
SalvageRepairs ==
  \A p \in Proc : LET c == core[p] IN
    ~raced /\ c.st = "fsck" /\ c.todo = <<Shut>> /\ c.rc = 0 => map \cap Block = Block \ Refs
=============================================================================
