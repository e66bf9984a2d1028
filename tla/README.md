# filsys: TLA+ models, checks and proofs

filsys mounts, makes and checks file-system images of the Research Unix line
(PDP-7, V1, V4 to V10, 2.xBSD, System III/V, Coherent) through FUSE. These
modules model what it does to an image, one disk transfer at a time, so that
every state of a model is an image some crash can leave behind. TLC checks the
models on small instances; TLAPS proves the central results about the free-list
allocator and the inode cache for images of every size. A second group of modules
has the images at their real byte layout, and asks whether the parts of the
program that each read the same bytes in their own way agree.

Contents: [the system](#1-the-system), [the modules](#2-the-modules),
[the runs](#3-the-runs), [bounds](#4-bounds), [fairness](#5-fairness),
[the proofs](#6-the-proofs), [disagreements](#7-where-the-code-and-its-documentation-disagree),
[what is left out](#8-what-is-not-modelled), [the plan](#9-plan).

## 1. The system

```
 mount.filsys ─ fuseops* ─ fuse_core (handle table)          fsck.filsys    mkfs.filsys
                              │                                  │              │
                           filsys.c  (requests, rollback, mount) │              │
                        ┌─────┴──────┐                           │              │
                     dir_*        blocktree.c                 check.c     filsys_mkfs.c
                        └─────┬──────┘                           │              │
      backends: v7fs.c (+ alloc_freelist.c, alloc_v8bitmap.c), v1fs.c, pdp7fs.c
                              │
                        image file (pread / pwrite)
```

Facts that shape every model:

* One request at a time. The FUSE loop is started single-threaded
  (`fuseops_common.c:129`), so requests do not interleave within one mount.
  What interleaves with a request is a crash, a failed transfer, and another
  process that has the image open.
* State in core is little: the allocator's cache or map, its `fl_dirty` flag,
  the dirty flag `s_fmod`, and the table of open files. Inodes and directories
  are read and written through, with no cache.
* Crash safety rests on order alone: the allocator's state is written before an
  inode that names a new block or inode (`v7fs.c:377`, `v1fs.c:187`,
  `pdp7fs.c:319`); blocks are collected, the inode that drops them is written,
  and only then are they freed (`blocktree.c:121`); a name is added after the
  inode it names is written, and removed before it is freed (`filsys.c:687`).
* The code classifies what a failure may leave (`filsys.c:687-711`): A nothing,
  B a leak, C a wrong count, D one block or inode claimed twice. Class D is to
  be unreachable; B and C are for fsck.

### Inventory

| Component | Source | Module |
|---|---|---|
| Free-list allocator (V4-V7 family) | `alloc_freelist.c`, `v7fs.c` | `FreeList`, `Formats` |
| Allocator contract | `check.h`, `instrument.c` | `AllocOps` |
| Inode cache and totals | `alloc_freelist.c` | `InodeCache` |
| Block tree | `blocktree.c` | `BlockTree` |
| write, truncate, destroy, create | `filsys.c` | `FreeList`, `BlockTree`, `Volume`, `Pdp7List`, `Tools` |
| Names: create ... rename | `filsys.c`, `dir_fixed.c`, `filsys_path.c` | `Namespace` |
| 2.11BSD directories | `dir_bsd211.c` | `Dir211` |
| Open files | `fuse_core.c`, `mount.filsys.c` | `OpenFiles` |
| Checker: directory pass, preen | `check.c` | `Fsck` |
| Checker: block pass, free-space walk, clri, salvage | `check.c`, `v7fs.c`, `alloc_freelist.c` | `Tools`, `Formats` |
| Bitmap allocators (V8/V9, V10), V1 maps | `alloc_v8bitmap.c`, `v1fs.c` | `Volume`, `Formats` |
| Mount, lock, clean flag, close, salvage | `filsys.c`, `v7fs.c`, `check.c` | `Volume` |
| PDP-7 free list | `pdp7fs.c`, `filsys_mkfs.c` | `Pdp7List` |
| Byte orders, descriptors, geometry, encoders, mkfs | `byteorder.c`, `filsys_format.c`, `v7fs.h`, `filsys_mkfs.c`, `mkfs.filsys.c` | `Formats`, `Tools` |
| Probes, autodetection, opening what was detected, findfs | `v7fs.c`, `v1fs.c`, `filsys_detect.c`, `mount.filsys.c`, `findfs.filsys.c` | `Probe`, `Tools` |
| Front ends, argument parsing, attributes | the rest | not modelled |

`PROJECT.json` lists every component with what of it is modelled, the hazards
with their lines, and the source lines behind each definition.

## 2. The modules

**FreeList** — `v7fs_balloc`, `v7fs_bfree` and the requests that call them, on
files with direct slots. `fl`, `tfree` and `fl_dirty` are the fields of
`freelist_state`; `sb`, `disk` and `inode` are the image. A block holds `Data`
or a dump of the cache, and the free list is what following entry 0 of each
dump reaches (`Chain`, `FreeSet`). A request is a program counter and its
locals (`pc`, `stage`, `ino`, `ip`, `lbn`, `left`, `first`, `blk`, `bl`), and
each action is the code between two transfers: `BallocPop`, `BallocReload`,
`BallocCommit`, `BallocZero`, `WriteData`, `WriteInodeFlush`, `WriteInode`,
`Collect`, `Drain`. An action ending in `Fails` is the error return at the same
place. `Crash` drops what is in core and mounts again.

**AllocOps** — the contract between an allocator and its callers: a block is
free in core, free on disk, named by an inode, or with the running request, and
moves between these only by `Balloc`, `Bfree`, `Publish`, `Flush`, `Leak`,
`Remount`. The states are those of the ownership oracle in `instrument.c`.
`FreeList!MeetsContract` is the refinement, checked by `freelist` and proved in
FreeListContract.

**InodeCache** — `v7fs_ialloc`, `v7fs_ifree`, the inode writes around them, and the
recounts of the open and of the salvage. `cache` and `tinode` are `fl.inode` and
`fl.tinode`, `live` the inodes in use on disk. The cache starts as anything that
fits, stale, repeated or out of range, as other systems leave it; each inode
read, and each step of the scan that refills the cache, is one action. `totals`
says whether the edition's superblock stores a total, `blind` how many inodes the
last recount could not read and took for free. A cache entry has sixteen bits
(`Short`), which `mkfs` keeps every i-list within.

**BlockTree** — `filsys_bmap` with its indirect levels, the V6 promotion from
direct to indirect slots, `filsys_itrunc_from` and its rewriting of partly kept
indirect blocks, rollback. The list of free blocks is abstracted to two sets,
in core and on disk. `Tree`, `Mapping` and `AllocatedBlocks` are the reference
definitions the actions are compared with.

**Namespace** — the requests of `filsys.c` on directories of fixed-size slots.
A request is a list `todo` of transfers, each with the list `fail` that the
code runs when it fails; `Transfer` makes the next one, or lets it fail. `up`
is a directory's ".." (0: not yet written, -1: removed). `keep` records, for the
property about names, which inodes the request was not asked to remove. rename
writes its parents' inodes whole, from a copy read just before (`Refresh`,
`Save`); the size in an older copy would cut off what was added since.

**Dir211** — the records of a 2.11BSD directory by their offset, in units of four
bytes: the validating walk of lookups and the one of readdir, reuse of a free
record, padding, append, removal, at the writes the code makes. `names` is what
should be there; `torn` records that a request ended between padding the last
record and writing the new size.

**OpenFiles** — extends `Namespace` with the table of `fuse_core.c` (`open`) and
the handles the kernel holds (`held`): open, create, release, deferred frees,
drain at unmount, mount.

**Fsck** — extends `Namespace` with the checker: a crash of the driver at any
transfer, the entry counts `ecount`, the reports, and `filsys_preen` as it
walks the inodes, whose writes go through the same `todo` and can be cut short
by another crash.

**Volume** — the editions whose free space is a bitmap, with processes that
open, lock, mount, unmount, are refused, are killed, or run `fsck -s`. Each
process holds a copy of the map; a map write is one transfer per disk block, so
V1's two superblock blocks and V10's bitmap blocks reach the disk separately.
`whole` records whether the last map came from a copy from which nothing had
leaked, `raced` whether two processes have had the volume open at once.

**Pdp7List** — the chain of nodes kept in the free blocks themselves. `node` is
what a block holds; reading `Data` as a node yields any node (`Read`). `torn`
records that the list may lead to what is not a node: it is set when an open
finds file data on the chain, when a failed `bfree` moves the head onto a block
it did not write, and while a salvage rebuilds the chain in place.

**Formats** — the descriptors of the editions in the format table (but the PDP-7's) and what `-g`, `-a` and `-b` change
in them, the byte orders, where each field of superblock, inode, chain block,
bitmap and directory lies, and `mkfs`. A volume is a record of what the engine
keeps about it; `Image` is the function from offsets to bytes its encoders leave
on disk. `balloc`, `bfree`, `ialloc`, `ifree` and the rebuilding of the free list
are operators on that record.

**Probe** — the probes, which read an image byte by byte whatever wrote it, in the
order they are tried; the resolution of the byte order; what `v7fs_open` and
`v1fs_open` read back; and the scan of `findfs` with its skips and its table.

**Tools** — a disk on which `mkfs` puts a volume, another one after or over it, a
whole mount writes or removes a file or is killed, and `fsck` clears an inode or
salvages; in every state autodetection, `fsck -n` and `findfs` may be asked about
it, `findfs` one sector at a time. `out` is the answer.

**FreeListChain, FreeListAlloc, FreeListRequests, FreeListProof, FreeListWalk,
FreeListContract, AllocOpsProof,
InodeCacheProof** — the proofs (section 6). **MC\*** — initial states, symmetry and constraints for TLC.

## 3. The runs

| Run | Module | Shows | Distinct states |
|---|---|---|---|
| `freelist` | MCFreeList | the list is sound and alias-free at every crash prefix, nothing is handed out twice or lost, the contract is met, requests end | 236 k |
| `icache` | InodeCache | whatever the cache holds, only free inodes are handed out, the total errs downwards only, the search ends | 295 k |
| `tree` | MCBlockTree | the tree stays a tree, keeps and drops exactly what it should, stays apart from free space | 790 k |
| `dir211` | MCDir211 | lookups and readdir find exactly the names that are there | 605 k |
| `open` | MCOpenFiles | handles never outlive inodes; orphans are tracked and freed; names are safe with a failed transfer | 469 k |
| `fsck` | MCFsck | names are safe at every crash prefix; preen after a crash, itself interrupted, makes everything reachable; a silent check is right | 449 k |
| `volume` | MCVolume | maps, clean flag, close and salvage of the bitmap editions | 893 k |
| `pdp7` | MCPdp7List | the in-place list while it consists of nodes | 316 k |
| `tools` | MCTools | a volume the program wrote is recognised, opened and checked by the program for what it is | 9 k |
| `vol_lock`, `dir211_pad`, `tools_sysv` | | violations: section 7 | |

The properties, by the question they answer:

* *Is a block ever claimed twice?* `NoAlias`, `SlotsNoAlias`, `FlushedNoAlias`,
  `MapSafe`, `P7NoAlias` say so of the image at every crash prefix,
  `NoDoubleUse` of the running driver. `Inv` and `ChainIntact` are the reasons on
  the free list: the dump blocks the disk leads to are never overwritten while it
  leads to them. `IallocSound` says it of inodes.
* *Is a block ever lost without a failure?* `NothingLost`, `P7NothingLost`, and
  `CleanSound` for a whole mount. `TfreeCovers`: whatever fails, the total of free
  blocks is never below what the list holds. `TinodeCovers` is the opposite bound
  on the total of free inodes, never above what is free.
* *Does a file keep its contents?* `Remaps`: a write moves no block, a
  truncation or rollback to a length keeps exactly what lies below it.
  `TreeSound`: no block has two places in a file.
* *Are names safe?* `NoDangling`, `OneName`, `NamesKept`, `Acyclic`,
  `DriverCounts`, under crashes at every transfer, and `OneName` with a failed
  lookup too, which may repeat one name; `DirExact` and `NoGhost` in a
  2.11BSD directory; `HandlesLive`, `OrphansTracked`, `OrphansFreed` for files
  unlinked while open.
* *Does repair repair?* `PreenRepairs` (also of a directory whose ".." is gone: it
  can be reached, or is empty and unnamed), `CheckSound`, `SalvageRepairs`,
  `CloseReports`. `FsckExact`: the block check finds errors exactly when the blocks
  of the inodes and those the allocator would hand out are not the data blocks,
  each once, or the stored totals are not theirs; a salvage makes them so.
* *Does the program understand its own volumes?* `Recognised`: autodetection names
  a volume's edition and geometry, whatever mounts, crashes and repairs did to
  it, exactly when it is not one of five kinds (section 7), and opening it
  under what was detected reads back what was kept in core. `ScanFinds`: `findfs`
  prints each such volume once, and nothing else.

Every property of a passing run has a mutant in `PROJECT.json`: a definition
before the one it replaces, marked `(mutant)`, that is the code with one
plausible mistake, and under which TLC violates the property.

Some properties are conditional on history variables. `MapSafe`, `CleanSound`,
`CloseReports` and `SalvageRepairs` hold while mounts do not overlap (`~raced`),
which `vol_lock` is about; `P7NoAlias` while the list is not `torn`; `DirExact`
while no request was cut off in the padding window, which `dir211_pad` is about.
Three are not conditional on what failed but bounded by it: `TinodeCovers` by the
inodes a recount could not read (`blind`), `OneName` and `HandlesLive` by the
lookups that failed (`misses`). `Recognised` and `ScanFinds` name in
`Misread`, `Leftover` and `Hidden` the volumes the program gets wrong, and say
what it takes them for: they fail when it gets another one wrong, and `Recognised`
also when it gets one of the five kinds right, so that the exceptions stay exact:
a correction of the code is to narrow the one it concerns.

The encoders of `Formats` were compared byte for byte with the images
`mkfs.filsys` writes, and the answers of `Probe` with the output of `findfs` and
`fsck` on some 80 images and on 1,600 pairs of one volume made over another; the
conditions in `Tools` are the outcome.

## 4. Bounds

* `freelist`: three blocks in every order `mkfs` can free them, a cache of two,
  one file of two slots. The cache overflows into a dump block, is reloaded
  from it, and the dump block is handed out as data, which are the cases the
  code distinguishes; longer chains are the proofs' matter.
* `tree`: five blocks, one direct, one single- and one double-indirect slot,
  two entries per indirect block, one block per write, one failed transfer. The
  two editions differ in whether a file is promoted. Every slot boundary and a
  cut in the middle of each level occurs.
* `icache`: an i-list of four inodes, a cache of two, so that a refill stops at
  a full cache and an `ifree` meets one; two failed transfers, so that a rollback
  fails too.
* `dir211`: chunks of seven units and names that need two, three and four, so that records
  are reused by shorter names, padded, and appended at every distance from a
  chunk's end; three chunks, one failed transfer.
* `fsck`: the root and three inodes, two names, two slots: two nested
  directories and a file, or three siblings, and the reuse of a slot. Three
  inodes are needed for a rename that replaces a directory in another. `ECap` is
  3 where the code has 255, so that the count of entries does stick. Failed
  transfers and lookups, that of a rename's target among them, are left to `open`.
* `open`: the root and two inodes, two handles each, and one failure in a
  behaviour, of a lookup or of a transfer (`OneFailure`), in any request but in
  the part of a link or rename in which a file has two names (`FailsElsewhere`;
  section 7).
* `volume`: two blocks, one in each block of the map, two files, two processes,
  one failed transfer. Once mounts have overlapped, the run follows only the
  refused mount (`Apart`), since its properties say nothing afterwards.
* `pdp7`: three blocks in nodes of one entry give a chain of two nodes, and a
  node is both taken from and taken. Once the list is torn, only frees and the
  salvage are followed (`Tended`); files are written again after it.
* `tools`: every edition of the table, the bitmap forms and the options that move
  a field, in volumes of 60 blocks (no chain block, or one), 130 (several) and, for
  V6, 201 (the size its salvage skips a block at); one to three mounts or
  repairs, files of 2 and of 14 blocks, the latter with an indirect block; a
  second volume adjacent or one block off, and four volumes made over each first
  one. Most of the variety is in the initial volumes: the state space is wide
  and shallow.

`MaxFaults` bounds the failed transfers, `MaxMisses` the failed lookups,
`MaxHandles` the handles per file, `MaxSlots` and `MaxChunks` a directory,
`MaxAddr` and `MaxCount` the size of a PDP-7 file and of a write, `MaxFiles` and
the third member of `Firsts` the files and the operations on a volume of `tools`.

Deadlock is checked except in `open`, where an unmounted volume may stay so, and in
`tools`, where a command's answer ends the behaviour.

## 5. Fairness

`freelist`, `icache` and `open` assume weak fairness of the steps of a request in
progress (in `open`, of its transfers), and of nothing else: not of requests
beginning, nor of handles being released, nor of transfers succeeding. The driver
is a single thread that runs a request to its return, each transfer either
succeeding or returning an error. A crash ends the request. `OrphansFreed` says
that a file left without a name and without a handle is freed.

## 6. The proofs

The free list (the six `FreeList*` proof modules): for any set of blocks and inodes,
any cache depth `NICFREE >= 1` and any number of slots. Assumptions:
`FreeListAssumption` (0 is no block and no inode) and `DataAssumption` (a block
of file data is not a dump). The inode cache (`InodeCacheProof`): for any i-list,
depth and number of failures (`SizeAssumption`, `FaultAssumption`). The contract
(`AllocOpsProof`): for any set of blocks.

| Theorem | States |
|---|---|
| `FreeListProof!Invariance` | `Spec => []Inv` |
| `TypeCorrect` | `nfree` never passes the end of `free[]`, and all other types |
| `NoAliasing` | no block is on the free list on disk and named by an inode on disk |
| `NoDoubleAllocation` | no block the driver may hand out is in use |
| `ReloadsOnlyDumps` | `balloc` reloads its cache only from a dump |
| `FreeListSound` | the list on disk is well formed at every crash prefix |
| `DumpsIntact` | no step overwrites a dump that the list on disk leads to |
| `FreeListContract!ImplementsContract` | `Spec => MeetsContract`: every step is one the allocator contract allows |
| `TotalsCovered` | the totals of free inodes, in core and on disk, are too high by no more than the inodes the last recount could not read |
| `IallocCorrect` | `ialloc` hands out free inodes only, and "no space" is true |
| `ContractExclusive` | who keeps the contract never has a block in two places |

**The invariant.** `NoAlias` is about the least set of blocks reached from the
superblock, a fixed point; that is not something the provers can follow through
a step. `Inv` replaces it by the existence of two sets of dump blocks, `C` for
the list in core and `D` for the one on disk, that are *linked*: closed under
entry 0, each member a dump, each the entry 0 of exactly one predecessor, and
the lists of two members disjoint. `WalkIsListed` (FreeListChain) shows that the
walk stays inside any linked set, so that a property of all linked lists holds of
the real one. A step then has to exhibit the next `C` and `D`: the same, one
block more for a dump that is written, one less for one that is reloaded.

`Safe(C, D)` says what the two lists may not contain. The part that is not
obvious relates the two: `D \cap mfree \subseteq C`, a dump block of the disk's
list that is free in core is still a dump of the core's list. It is why a dump
block cannot be popped as an ordinary block and overwritten while the disk
still leads to it; `balloc` commits the superblock right after a reload
(`alloc_freelist.c:38`) for just this. `~fl_dirty => ...` is the barrier of
`write_inode`: after a flush the disk's list contains nothing the running
request holds. `Owned` and `Control` say whom the blocks of the request belong
to at each `pc`.

FreeListChain has the facts about linked lists (pushing, dumping, popping,
reloading), FreeListAlloc one lemma per action of the allocator, FreeListRequests
one per action of the requests, and FreeListProof joins them.

**The refinement.** The contract's `mfree` and `sfree` are what a walk of the list
in core and on disk finds, the least chain and not just any linked one, so
FreeListWalk states each list operation as an equation on the walk: a pop takes
exactly its block away, a reload leaves the walk as it was, a push or a dump adds
exactly the block freed, a write off the chain changes nothing. FreeListContract
then maps each action to one move: `BallocPop` to `Balloc`, `Drain` to `Bfree` or
a leak, the three superblock writes to `Flush`, `WriteInode` to `Publish`, `Crash`
to `Remount`, every other step to a leak or to no move. `Publish` needs more than
`Inv`: that a block the inode write drops from the i-list is on the collected
list, so that it is not lost. `Kept` says so (the inode on disk names no block that
the in-core copy and the list have both lost) and is proved invariant first.

**The inode cache.** `TinodeCovers` is not inductive: between the moment a number
is taken off the total and the moment its inode is written, the total has to be
below the number of free inodes by one. `Totals` says so with `Spare`, for the
total in core and, once it is flushed, for the one on disk; `Candidate` says what
the request knows of its number at each place: that everything below the scan's
position is in use when the cache is still empty is what makes "no space" true.
`FreeCount` and `FreeMoves` count the free inodes; `RecountExact` is the recount
of an open and of a salvage, whose error is just `blind`. Both theorems hold for
i-lists of any length; that the search ends (`RequestEnds`, by TLC) needs one
below 65,536, since a longer one's numbers do not fit the cache.

**Only model-checked:** liveness (`RequestsEnd`, `RequestEnds`, `OrphansFreed`), which
is out of the prover's reach, `NothingLost`,
`TfreeCovers`, and everything about the other modules. `Formats`, `Probe` and
`Tools` are functions of finite tables and recursive definitions, which the
prover cannot do induction over.

## 7. Where the code and its documentation disagree

Kept as runs that TLC must find violated:

* `vol_lock`: the map is read before the lock is taken (`filsys.c:313`, `321`),
  so that a mount can go on from a map from before another mount's changes,
  against `filsys.c:205`.
* `dir211_pad`: the padding of the last record is written before the new record
  and the directory's size (`dir_bsd211.c:214`); until then, and for good if the
  request is killed or fails, the padded record ends past the size, the walk
  rejects it and its name is gone, against `dir_bsd211.c:208`.
* `tools_sysv`: a chain block's count is written in 2 bytes
  (`alloc_freelist.c:72`) and read by the probe in 4 (`v7fs.c:579`), so that a
  big-endian System V volume with a chain block is not recognised, against
  `v7fs.c:547`.

Met while modelling; the models contain the behaviour, and the properties are
stated so as to exclude it. Of what a crash leaves:

* An indirect block that names a fresh block is written before the superblock
  that still lists it (`blocktree.c:304`); only the inode write flushes. After a
  crash in between, the block is free and referenced, against `README.md:800`
  (`FlushedNoAlias` is stated after the flush; `KilledGrowing` in `Tools` is the
  crash).
* For V10 the flush before an inode write leaves out the bitmap blocks and clears
  `fl_dirty` (`v7fs.c:382`), against `v7fs.c:377`: `MapSafe` leaves V10 out.
* On the PDP-7 an emptied node is handed out and overwritten while block 0 still
  names it (`pdp7fs.c:369`); after a crash file data is read as a node, against
  `pdp7fs.c:319` (`torn`).

Of requests and repairs:

* `link` returns a failed `dir_add` without withdrawing a name that may have
  landed (`filsys.c:956`, against `708` and `615`). With `Linkable` files and
  one failed transfer `NoDangling` fails.
* `preen` sets the old parent's count from `ecount` before it reconnects the
  child and leaves it one too high (`check.c:504`, against `481`).
* A rename of a directory killed between removing ".." and adding it leaves a
  directory without ".." that no check reports (`filsys.c:1124`, against
  `README.md:819`). `PreenRepairs` says what is not lost by it.
* rename takes any failure to look up its target for absence (`filsys.c:1014`,
  against `596`): the name can exist twice, as `OneName` allows.
* With a failed transfer in a link, or in a rename before its old name is gone, a
  file can keep two names with one link, and be freed under one of them, against
  `filsys.c:1055` and `961`: `open` excludes these failures (`FailsElsewhere`).
* rename's fixups are not unwound; a ".." that stays stale can let a later
  rename close a cycle (`filsys.c:1100`, against `1090`).
* The root can be linked, and a directory with two names can be moved below
  itself or be freed by a rename over one of them (`filsys.c:924`, `932`, `1038`,
  against `915`, `948`, `889`).
* An unlink whose lookup fails frees an open file (`fuse_core.c:244`, against
  `241`); a last release that cannot read the inode drops the entry
  (`fuse_core.c:63`, against `58`).
* The rollback of a failed write keeps the raised size (`filsys.c:566`, against
  `557`).
* With no inode left for lost+found, preen makes the counts of an orphan
  directory agree, and the next check is silent (`check.c:477`, `504`, against
  `231`). A lost+found made in an inode that is free but referenced is cleared
  by the same preen (`check.c:433`). A directory without "." does land where
  `check.c:456` says none does, after a crash in mkdir.
* A refused mount flushes its superblock in `close` (`filsys.c:323`). A dirty
  volume that is mounted and unmounted is flagged clean without a check. V1's
  salvage does not rebuild the inode map.
* The PDP-7's `bfree` moves the head onto a block it failed to write
  (`pdp7fs.c:381`, `400`), and its salvage rewrites nodes in place under the old
  head (`pdp7fs.c:602`).
* `fsck.filsys` documents `-r` and has no case for it (`fsck.filsys.c:110`). `-s`
  does not clear `s_fmod`, and writes a total of 0 free inodes on a V8-family
  bitmap volume.

Of recognising volumes, confirmed with the built tools:

* Not recognised, or for something else (`Misread`): a V6 volume with an i-list
  below three blocks; a Coherent volume without a chain block and with at most 50
  blocks in its cache, taken for V7; big-endian System V with a chain block; a V9
  bitmap whose first word is 0, taken for the list form; a volume of `-g` whose
  start is not a multiple of its block size.
* System III with `-a pdp11` is detected as V7, whose totals lie elsewhere; `fsck -v
  unix` then reports wrong totals (`OtherTotals`).
* mkfs clears nothing (`Leftover`): 32V or System III over System V of the same
  byte order is taken for System V; these or 2BSD over V6 for V6; a V8-family
  volume over one of smaller blocks for the old one; and a V8 bitmap over a V10
  volume for nothing.
* V6 of 101, 201, ... blocks has a missing block from mkfs on (`v7fs.c:1322`).
* `findfs` misses a volume that starts in the sector where another ends
  (`findfs.filsys.c:272`), and drops candidates beyond 256 (`:123`).
* `fsck -v unix -o` detects at multiples of 512 bytes (`fsck.filsys.c:195`) and opens
  at multiples of the block size (`:253`), against `fsck.filsys.1:150`.
* `mkfs.filsys` computes an offset without the block size of `-g`
  (`mkfs.filsys.c:243`, against `221`), and cuts the image after the new volume.

## 8. What is not modelled

* The PDP-7's packed words, its directories and its probe; V1's large files; the
  third level of indirection on the real layout. `Tools` has direct and
  single-indirect files only.
* File contents: a block holds `Data` or metadata; on the real layout it is zeros,
  as are owners and times. Entries of the root beyond `.` and `..` are left out
  there.
* In `Tools`: a killed volume is not mounted again (that is `FreeList`, `BlockTree`
  and `Volume`); `fsck` is given the volume's own `-v` and `-g`; at most one block of
  the i-list is unreadable, not the root's; an explicit `-v` other than `v10`, and
  `-a`, open with the command line's geometry, which is left out; one volume's
  remains, not several layers; Coherent's `s_m`, `s_n` and `s_unique` are not
  compared at an open; `findfs` without `-i`, `-v` and other strides.
* `resolve_dups` and `ncheck` of the checker.
* Host crashes. A transfer that returned is on disk; `fsync` and the order in
  which the host's cache reaches the device are outside the models.
* Torn transfers: a block is written or not.
* Memory exhaustion (the table of open files cannot grow, `fuse_core.c:16`), except
  where `FreeList` treats the growth of a blklist.
* Block numbers out of range, which `bfree` ignores (`alloc_freelist.c:63`): the
  numbers in the models' inodes and lists all come from `mkfs` and `balloc`.
* Front ends, argument parsing, output, the tests.
* Attributes, readdir, readlink, statfs: one inode read, or read and written.

## 9. Plan

In order of importance:

1. *Done:* the free list and the inode cache with their clients and proofs; the
   block tree; names, open files, preen; 2.11BSD directories; bitmap volumes and
   mounts; the PDP-7 list; formats, probes, mkfs, the block check, findfs.
2. Model: `resolve_dups` (`check.c:534`) on images as the crashes of `BlockTree` leave
   them; the PDP-7's directories and probe; read-only mounts.
3. Compose: `Volume`'s mounts and clean flag over the free-list editions; the
   contract `AllocOps` for the bitmap allocators, by the same refinement mapping;
   `Dir211` under `Namespace`.
4. Prove: `TfreeCovers` and `NothingLost`; `MapSafe`
   for any number of blocks, files and processes; `NoDangling` and `OneName` of
   `Namespace`; `SlotsNoAlias` of `BlockTree`.
